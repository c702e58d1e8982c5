CONSTANTS
  c1 = c1
  c2 = c2
  Calls = {c1, c2}
  Mechanisms = {"slot", "entry"}
  ForeignHooks = TRUE
SPECIFICATION FairSpec
INVARIANTS
  OriginalOnce
  ForeignHookKept
  QuiescentAfterRetirement
PROPERTIES
  NoSkipBeforeRestore
  RetirementQuiesces
CHECK_DEADLOCK FALSE
