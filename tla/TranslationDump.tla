---------------------------- MODULE TranslationDump ----------------------------
(***************************************************************************)
(* The plugin translation_dump: hooks capture the texts the game looks up, *)
(* the Update system merges them into a table and writes the table to disk *)
(* (crates/translation_dump/src/lib.rs). The two routes it registers, and  *)
(* the stage that empties them, are those of CommandDrain.                 *)
(*                                                                         *)
(* A key stands for a category with an id; keys are numbered in the order  *)
(* of their names. The content of the n-th value that the hooks send is    *)
(* given by Content. The process may crash between any two steps and start *)
(* again from what is on disk.                                             *)
(***************************************************************************)
EXTENDS Integers, SequencesExt, FiniteSetsExt

CONSTANTS
  Callbacks, Capacity, MaxSends,   (* of CommandDrain                      *)
  Keys, Texts,
  Content,         (* what the hooks capture: a key and a text each        *)
  Dic,             (* the game's own table, for the topic dicdump          *)
  Probes,          (* the topics scenariodump and lyricsdump, each with    *)
                   (* the keys it looks for                                *)
  Skipping,        (* those that skip a file that exists: lyricsdump       *)
  FlushInterval,   (* FLUSH_INTERVAL_FRAMES                                *)
  MaxCrashes       (* bound: crashes of a behaviour                        *)

None    == "none"        (* no text for the key                            *)
Invalid == "invalid"     (* a text that is not UTF-16                      *)
Torn    == {"torn"}      (* a lyrics file that was cut off                 *)

ASSUME DumpAssumption ==
  /\ Keys \in SUBSET Int /\ IsFiniteSet(Keys)
  /\ {None, Invalid} \cap Texts = {}
  /\ Content \in [1..MaxSends -> [key : Keys, text : Texts \cup {Invalid}]]
  /\ Dic \in [Keys -> Texts \cup {None}]
  /\ \A t \in DOMAIN Probes : Probes[t] \in SUBSET Keys
  /\ Skipping \subseteq DOMAIN Probes
  /\ Capacity \in Nat \ {0} /\ MaxSends \in Nat
  /\ FlushInterval \in Nat \ {0} /\ MaxCrashes \in Nat

VARIABLES
  box, writer, drain, delivered, active, accepted, mark, sent,
  entries,         (* DumpState.entries                                    *)
  lyrics,          (* DumpState.lyrics                                     *)
  dirty, lyricsDirty, frames,
  read,            (* how far the MessageReader of each route has come     *)
  cursor,          (* scenario_cursor and lyrics_cursor                    *)
  probed,          (* history: the keys that a probe has gone past         *)
  began,           (* history: the keys there were when a probe began      *)
  instance,        (* the manager instance has been captured               *)
  main,            (* where the main thread is, and who asked for a flush  *)
  life,            (* the process runs or is down                          *)
  crashes,
  disk             (* localify.json, lyrics_dump.json, and what there is   *)
                   (* of the files of each key that a probe looks for      *)

routes == <<box, writer, drain, delivered, active, accepted, mark, sent>>
probes == <<cursor, probed, began>>
state  == <<entries, lyrics, dirty, lyricsDirty, frames, read, probes>>
process == <<life, crashes>>
vars   == <<routes, state, instance, main, process, disk>>

Records == 1
Lyrics  == 2

D == INSTANCE CommandDrain WITH
       Table <- <<"bounded", "bounded">>, Owner <- <<"dump", "dump">>

-----------------------------------------------------------------------------

Topics  == DOMAIN Probes
Table   == [Keys -> Texts \cup {None}]
NoTable == [k \in Keys |-> None]

(* A file of the key is not there; or one was cut off; or all are complete. *)
FileStates == {"missing", "cut", "whole"}
NoFiles    == [t \in DOMAIN Probes |-> [k \in Keys |-> "missing"]]

Running == life = "up" /\ active # {}

MainAt(p) == life = "up" /\ main.pc = p

Goto(p) == main' = [main EXCEPT !.pc = p]

(* The state of the process as DumpState::load leaves it.                   *)
Init ==
  /\ D!Init
  /\ entries = NoTable /\ lyrics = {}
  /\ dirty = FALSE /\ lyricsDirty = FALSE /\ frames = 0
  /\ read = [r \in D!Routes |-> 0]
  /\ cursor = [t \in Topics |-> 0]
  /\ probed = [t \in Topics |-> {}] /\ began = probed
  /\ instance = FALSE
  /\ main = [pc |-> "Idle", by |-> "Update"]
  /\ life = "up" /\ crashes = 0
  /\ disk = [table |-> NoTable, lyrics |-> {}, files |-> NoFiles]

-----------------------------------------------------------------------------
(* The hook callbacks, on any thread.                                       *)

(* capture_text, and the three capture bodies of displayed texts.           *)
Capture(c) ==
  /\ life = "up"
  /\ \E r \in D!Routes : D!BeginSend(c, r) /\ instance' = (instance \/ r = Records)
  /\ UNCHANGED <<state, main, process, disk>>

(* A null or an oversized string: nothing is sent.                          *)
CaptureSkipped ==
  /\ Running /\ ~instance
  /\ instance' = TRUE
  /\ UNCHANGED <<routes, state, main, process, disk>>

Relay(c) ==
  /\ life = "up"
  /\ D!Send(c)
  /\ UNCHANGED <<state, instance, main, process, disk>>

-----------------------------------------------------------------------------
(* The main thread: a frame of the Update driver.                           *)

BeginFrame ==
  /\ MainAt("Idle")
  /\ D!StageBegins
  /\ Goto("Drain")
  /\ UNCHANGED <<state, instance, process, disk>>

DrainRoutes ==
  /\ MainAt("Drain") /\ drain.pc # "Idle"
  /\ D!Stage
  /\ UNCHANGED <<state, instance, main, process, disk>>

(* Mutant: only a new key makes the table dirty.                            *)
Merge_OnlyNew(x) ==
  /\ entries' = IF x.text = Invalid THEN entries ELSE [entries EXCEPT ![x.key] = x.text]
  /\ dirty' = (dirty \/ (x.text # Invalid /\ entries[x.key] = None))

(* DumpState::merge: a text that differs from the one before is to be saved.*)
Merge(x) ==
  /\ entries' = IF x.text = Invalid THEN entries ELSE [entries EXCEPT ![x.key] = x.text]
  /\ dirty' = (dirty \/ x.text \notin {Invalid, entries[x.key]})

Unread(r) == (read[r] + 1)..Len(delivered[r])

(* dump_update: merge one by one what has been delivered, ...               *)
MergeNext ==
  /\ MainAt("Drain") /\ drain.pc = "Idle" /\ Unread(Records) # {}
  /\ Merge(Content[delivered[Records][read[Records] + 1]])
  /\ read' = [read EXCEPT ![Records] = @ + 1]
  /\ UNCHANGED <<routes, lyrics, lyricsDirty, frames, probes, instance, main, process, disk>>

Shown == {Content[delivered[Lyrics][i]].text : i \in Unread(Lyrics)} \ {Invalid}

NextFrames == IF frames < FlushInterval THEN frames + 1 ELSE frames

(* ... collect the displayed texts, then flush_if_due, which looks at dirty *)
(* only. (frames saturates at 2^32 - 1; here it stops at FlushInterval,     *)
(* with which alone it is compared.)                                        *)
DumpUpdate ==
  /\ MainAt("Drain") /\ drain.pc = "Idle" /\ Unread(Records) = {}
  /\ lyrics' = lyrics \cup Shown
  /\ lyricsDirty' = (lyricsDirty \/ ~(Shown \subseteq lyrics))
  /\ read' = [read EXCEPT ![Lyrics] = Len(delivered[Lyrics])]
  /\ frames' = NextFrames
  /\ main' = [pc |-> IF dirty /\ NextFrames >= FlushInterval THEN "Table" ELSE "Topics",
              by |-> "Update"]
  /\ UNCHANGED <<routes, entries, dirty, probes, instance, process, disk>>

(* The topics are served after the plugin's own system, any number of       *)
(* requests in a frame. First those that flush: flush and dicdump.          *)
Flush(isDirty) ==
  IF isDirty \/ lyricsDirty
  THEN main' = [pc |-> "Table", by |-> "Topic"] /\ UNCHANGED frames
  ELSE frames' = 0 /\ UNCHANGED main

FlushTopic ==
  /\ MainAt("Topics")
  /\ Flush(dirty)
  /\ UNCHANGED <<routes, entries, lyrics, dirty, lyricsDirty, read, probes, instance, process, disk>>

(* The keys that the walk over the game's dictionaries comes back with; a   *)
(* walk that meets something malformed comes back with nothing at all.      *)
Walked == {k \in Keys : Dic[k] # None}

WithDic(table) == [k \in Keys |-> IF k \in Walked THEN Dic[k] ELSE table[k]]

DicTopic ==
  /\ MainAt("Topics") /\ instance
  /\ entries' = WithDic(entries)
  /\ dirty' = (dirty \/ entries' # entries)
  /\ Flush(dirty')
  /\ UNCHANGED <<routes, lyrics, lyricsDirty, read, probes, instance, process, disk>>

(* What a probe goes through: the keys of its kind that the table has now,  *)
(* in their order. The cursor is a place in that list.                      *)
Ids(t) == {k \in Probes[t] : entries[k] # None}

Place(t, k) == Cardinality({j \in Ids(t) : j < k})

AtCursor(t) == {k \in Ids(t) : Place(t, k) = cursor[t]}

(* The handlers step through a batch of keys; here a request is for one.    *)
ProbeNext(t) ==
  /\ MainAt("Topics") /\ AtCursor(t) # {}
  /\ began' = IF cursor[t] = 0 THEN [began EXCEPT ![t] = Ids(t)] ELSE began
  /\ UNCHANGED <<routes, entries, lyrics, dirty, lyricsDirty, frames, read,
                 instance, main, process>>

(* A topic that skips leaves a file that exists as it is, and a name that   *)
(* the game cannot allocate goes unnoticed there.                           *)
WrittenAs(t, f) ==
  IF t \notin Skipping THEN {"whole"}
  ELSE IF f = "missing" THEN {"missing", "whole"} ELSE {f}

ProbeOk(t) ==
  /\ ProbeNext(t)
  /\ \E k \in AtCursor(t) : \E f \in WrittenAs(t, disk.files[t][k]) :
       disk' = [disk EXCEPT !.files[t][k] = f]
  /\ cursor' = [cursor EXCEPT ![t] = @ + 1]
  /\ probed' = [probed EXCEPT ![t] = @ \cup AtCursor(t)]

(* Mutant: the key that failed is left behind.                              *)
ProbeFails_GoesOn(t) ==
  /\ ProbeNext(t)
  /\ cursor' = [cursor EXCEPT ![t] = @ + 1]
  /\ UNCHANGED <<probed, disk>>

(* What a request that failed has written meanwhile; a file is written in   *)
(* place, so an error (or a crash right after) may cut it off.              *)
LeftAs(t, f) ==
  IF t \notin Skipping THEN IF f = "whole" THEN {"cut", "whole"} ELSE FileStates
  ELSE IF f = "missing" THEN {"missing", "cut"} ELSE {f}

(* A file that cannot be read or written ends the request at its key.       *)
ProbeFails(t) ==
  /\ ProbeNext(t)
  /\ \E k \in AtCursor(t) : \E f \in LeftAs(t, disk.files[t][k]) :
       disk' = [disk EXCEPT !.files[t][k] = f]
  /\ UNCHANGED <<cursor, probed>>

EndFrame ==
  /\ MainAt("Topics")
  /\ Goto("Idle")
  /\ UNCHANGED <<routes, state, instance, process, disk>>

-----------------------------------------------------------------------------
(* DumpState::flush: first the table, by way of a temporary file, then the  *)
(* lyrics.                                                                  *)

Flushed == Goto("Topics")

WriteTable ==
  /\ MainAt("Table")
  /\ disk' = [disk EXCEPT !.table = entries]
  /\ dirty' = FALSE
  /\ IF lyricsDirty THEN Goto("Lyrics") /\ UNCHANGED frames
                    ELSE Flushed /\ frames' = 0
  /\ UNCHANGED <<routes, entries, lyrics, lyricsDirty, read, probes, instance, process>>

(* An error of the Update system retires the owner; a topic answers it.     *)
WriteTableFails ==
  /\ MainAt("Table")
  /\ IF main.by = "Update" THEN Goto("Idle") /\ D!Retire("dump")
                           ELSE Goto("Topics") /\ UNCHANGED routes
  /\ UNCHANGED <<state, instance, process, disk>>

(* Whether or not the lyrics could be written. An error of the last write,  *)
(* when the writer is dropped, goes unnoticed: the file is cut off then.    *)
WriteLyrics ==
  /\ MainAt("Lyrics")
  /\ \E l \in {disk.lyrics, lyrics, Torn} : disk' = [disk EXCEPT !.lyrics = l]
  /\ lyricsDirty' = FALSE /\ frames' = 0
  /\ Flushed
  /\ UNCHANGED <<routes, entries, lyrics, dirty, read, probes, instance, process>>

-----------------------------------------------------------------------------
(* The process.                                                             *)

Crash ==
  /\ life = "up" /\ crashes < MaxCrashes
  /\ life' = "down" /\ crashes' = crashes + 1
  /\ UNCHANGED <<routes, state, instance, main, disk>>

(* Mutant: the table of the last session is not loaded.                     *)
Load_Empty == entries' = NoTable

(* DumpState::load; the lyrics of the last session are not read back.       *)
Load == entries' = disk.table

(* The plugin is built anew, or it is retired as its file cannot be read.   *)
Restart ==
  /\ life = "down"
  /\ life' = "up"
  /\ Load
  /\ active' \in {D!Owners, {}}
  /\ box' = [r \in D!Routes |-> <<>>] /\ delivered' = box' /\ accepted' = box'
  /\ writer' = [c \in Callbacks |-> D!NoSend]
  /\ drain' = [pc |-> "Idle", todo |-> {}, left |-> 0]
  /\ mark' = [r \in D!Routes |-> 0] /\ read' = mark'
  /\ lyrics' = {} /\ dirty' = FALSE /\ lyricsDirty' = FALSE /\ frames' = 0
  /\ cursor' = [t \in Topics |-> 0]
  /\ probed' = [t \in Topics |-> {}] /\ began' = probed'
  /\ instance' = FALSE
  /\ main' = [pc |-> "Idle", by |-> "Update"]
  /\ UNCHANGED <<sent, crashes, disk>>

MainStep ==
  \/ BeginFrame \/ DrainRoutes \/ MergeNext \/ DumpUpdate \/ EndFrame
  \/ WriteTable \/ WriteTableFails \/ WriteLyrics

Next ==
  \/ \E c \in Callbacks : Capture(c) \/ Relay(c)
  \/ CaptureSkipped
  \/ MainStep \/ FlushTopic \/ DicTopic
  \/ \E t \in Topics : ProbeOk(t) \/ ProbeFails(t)
  \/ Crash \/ Restart

Spec == Init /\ [][Next]_vars

(* The game calls LateUpdate again and again, and callbacks return. A frame *)
(* serves only the requests that its topics had pending, so it ends.        *)
FairSpec ==
  /\ Spec /\ WF_vars(MainStep) /\ SF_vars(EndFrame)
  /\ \A c \in Callbacks : WF_vars(Relay(c))

-----------------------------------------------------------------------------

(* translation_dump/README.md: the table accumulates across sessions. A key *)
(* that localify.json has once is never lost, through flushes and crashes.  *)
TableAccumulates == [][\A k \in Keys : disk.table[k] # None => disk'.table[k] # None]_disk

(* A probe says that it is done, and the table has not grown since it began.*)
Done(t) ==
  /\ cursor[t] > 0 /\ cursor[t] >= Cardinality(Ids(t))
  /\ Ids(t) = began[t]

(* A probe that is done has gone past every key of its kind; one that       *)
(* writes anew what exists (scenariodump) has left every file complete,     *)
(* whatever failed writes and crashes have cut off before.                  *)
DoneMeansAll ==
  \A t \in Topics : Done(t) =>
    /\ Ids(t) \subseteq probed[t]
    /\ t \notin Skipping => \A k \in Ids(t) : disk.files[t][k] = "whole"

(* While localify.json is behind the table it is going to catch up: a text  *)
(* that has been merged comes to be saved, unless another replaces it, a    *)
(* failed write retires the plugin or the process ends before.              *)
EveryTextIsSaved ==
  Running /\ entries # disk.table ~> entries = disk.table \/ ~Running
=============================================================================
