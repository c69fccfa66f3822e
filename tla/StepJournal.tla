---------------------------- MODULE StepJournal ----------------------------
(***************************************************************************)
(* The journal of a run's prompts: a file for each step, a file for the    *)
(* session that counts them, and an index of all sessions.  A run is a     *)
(* process of its own; runs share the index, which each reads, changes and *)
(* writes back, and may crash between or in the middle of their writes.    *)
(* The cache pruner is one more process: it removes the directories of the *)
(* sessions at the end of the index, then writes the index without them.   *)
(*                                                                         *)
(*   off       no run                                                      *)
(*   idle      the run has its session open, and does other things         *)
(*   mkdir     openSession or appendStep has read the session              *)
(*   step      appendStep is writing the file of the step                  *)
(*   session   the session file is being written                           *)
(*   read      _updateIndex is about to read the index                     *)
(*   index     and to write it                                             *)
(*   pruning   the pruner removes directories                              *)
(*   pruned    and is about to write the index                             *)
(*                                                                         *)
(* A file that is torn reads as if it were not there.  A session is open   *)
(* in one run at a time: its id is made of the time the run began, or      *)
(* given by the operator.  The index is there from the start.              *)
(***************************************************************************)
EXTENDS Integers, Sequences

CONSTANTS
  Runs,
  Sessions,
  None,        \* no session
  IndexCap,    \* entries the index holds (200 in the code)
  Keep,        \* prompt journals the pruner keeps
  MaxSteps,    \* bound: steps of a session
  MaxAppends,  \* bound: steps appended by all runs
  MaxCrashes   \* bound: crashes

ASSUME JournalAssumption ==
  /\ {IndexCap, Keep, MaxSteps, MaxAppends, MaxCrashes} \subseteq Nat
  /\ IndexCap > 0
  /\ None \notin Sessions

VARIABLES
  run,       \* what each run is doing
  session,   \* session.json of each session
  steps,     \* its step files
  dirs,      \* the sessions that have a directory
  index,     \* index.json
  appended,  \* steps appended so far; a step is its number among them
  crashes,
  acked,     \* observer: the steps whose appendStep returned
  spoiled    \* observer: sessions whose files a crash tore or the pruner removed

files == <<session, steps, dirs>>
vars == <<run, files, index, appended, crashes, acked, spoiled>>

Torn   == -1
Absent == 0

(* A session file: whole, with the number of steps, or not to be read. *)
NoSession == [whole |-> FALSE, steps |-> 0]

Row == [id : Sessions, steps : 0..MaxSteps]  \* an entry of the index

(* rows: the index in hand; default: DEFAULT_INDEX of this process, which  *)
(* _updateIndex changes when it falls back to it.                          *)
Off == [at |-> "off", id |-> None, count |-> 0, step |-> 0,
        rows |-> <<>>, default |-> <<>>]

Init ==
  /\ run = [r \in Runs |-> Off]
  /\ session = [s \in Sessions |-> NoSession]
  /\ steps = [s \in Sessions |-> [k \in 1..MaxSteps |-> Absent]]
  /\ dirs = {}
  /\ index = [whole |-> TRUE, rows |-> <<>>]
  /\ appended = 0 /\ crashes = 0
  /\ acked = [s \in Sessions |-> {}] /\ spoiled = {}

Open(s) == \E r \in Runs : run[r].at \notin {"off", "pruning", "pruned"} /\ run[r].id = s

(* Someone but r is in the middle of writing the index. *)
OthersWrite(r) == \E q \in Runs \ {r} : run[q].at \in {"index", "pruned"}

(* The index may not be readable: it was torn, or someone is writing it. *)
Unreadable(r) == ~index.whole \/ OthersWrite(r)

(* What r leaves: two that write at once may leave neither's. *)
IndexLeft(r, rows) ==
  {[whole |-> TRUE, rows |-> rows]} \cup
    (IF OthersWrite(r) THEN {[whole |-> FALSE, rows |-> <<>>]} ELSE {})

-----------------------------------------------------------------------------
(* A new session, whatever there is. *)
CountAfresh(s) == 0

(* openSession, of a session that may have been open in an earlier run: it *)
(* goes on counting if its file can be read.                               *)
Count(s) == IF session[s].whole THEN session[s].steps ELSE 0

OpenSession(r, s) ==
  /\ run[r].at = "off" /\ ~Open(s)
  /\ run' = [run EXCEPT ![r] = [Off EXCEPT !.at = "mkdir", !.id = s, !.count = Count(s)]]
  /\ UNCHANGED <<files, index, appended, crashes, acked, spoiled>>

(* The directory of the session, or of its steps, is there or made again. *)
MakeDirectory(r) ==
  /\ run[r].at = "mkdir"
  /\ dirs' = dirs \cup {run[r].id}
  /\ run' = [run EXCEPT ![r].at = IF run[r].step = 0 THEN "session" ELSE "step"]
  /\ UNCHANGED <<session, steps, index, appended, crashes, acked, spoiled>>

(* The step is counted before it is written. *)
AppendStepCounted(r) ==
  LET s == run[r].id
  IN /\ run[r].at = "idle" /\ session[s].whole
     /\ session[s].steps < MaxSteps /\ appended < MaxAppends
     /\ appended' = appended + 1
     /\ run' = [run EXCEPT ![r].at = "mkdir", ![r].count = session[s].steps + 1,
                           ![r].step = appended']
     /\ session' = [session EXCEPT ![s].steps = @ + 1]
     /\ UNCHANGED <<steps, dirs, index, crashes, acked, spoiled>>

(* appendStep, up to the write of the step; it does nothing in a session   *)
(* that cannot be read.                                                    *)
AppendStep(r) ==
  LET s == run[r].id
  IN /\ run[r].at = "idle" /\ session[s].whole
     /\ session[s].steps < MaxSteps /\ appended < MaxAppends
     /\ appended' = appended + 1
     /\ run' = [run EXCEPT ![r].at = "mkdir", ![r].count = session[s].steps + 1,
                           ![r].step = appended']
     /\ UNCHANGED <<files, index, crashes, acked, spoiled>>

(* setStatus, up to the write of the session. *)
SetStatus(r) ==
  LET s == run[r].id
  IN /\ run[r].at = "idle" /\ session[s].whole
     /\ run' = [run EXCEPT ![r].at = "session", ![r].count = session[s].steps,
                           ![r].step = 0]
     /\ UNCHANGED <<files, index, appended, crashes, acked, spoiled>>

(* A directory that was removed fails the write, and the run. *)
Ended(r) == run' = [run EXCEPT ![r] = Off]

StepWritten(r) ==
  LET s == run[r].id
  IN /\ run[r].at = "step"
     /\ \/ /\ s \in dirs
           /\ steps' = [steps EXCEPT ![s][run[r].count] = run[r].step]
           /\ run' = [run EXCEPT ![r].at = "session"]
        \/ s \notin dirs /\ Ended(r) /\ UNCHANGED steps
     /\ UNCHANGED <<session, dirs, index, appended, crashes, acked, spoiled>>

SessionWritten(r) ==
  LET s == run[r].id
  IN /\ run[r].at = "session"
     /\ \/ /\ s \in dirs
           /\ session' = [session EXCEPT ![s] = [whole |-> TRUE, steps |-> run[r].count]]
           /\ run' = [run EXCEPT ![r].at = "read"]
        \/ s \notin dirs /\ Ended(r) /\ UNCHANGED session
     /\ UNCHANGED <<steps, dirs, index, appended, crashes, acked, spoiled>>

(* Rows pile up. *)
WithRowUncapped(rows, row) == <<row>> \o rows

(* The row the session had stays. *)
WithRowAgain(rows, row) ==
  LET all == <<row>> \o rows
  IN SubSeq(all, 1, IF Len(all) < IndexCap THEN Len(all) ELSE IndexCap)

(* The rows of other sessions, in their order. *)
RowsOfOthers(rows, id) ==
  LET kept[i \in 0..Len(rows)] ==
        IF i = 0 THEN <<>>
        ELSE IF rows[i].id = id THEN kept[i - 1] ELSE Append(kept[i - 1], rows[i])
  IN kept[Len(rows)]

(* The row of the session comes first, in place of the one it had. *)
WithRow(rows, row) ==
  LET all == <<row>> \o RowsOfOthers(rows, row.id)
  IN SubSeq(all, 1, IF Len(all) < IndexCap THEN Len(all) ELSE IndexCap)

(* What cannot be read is taken to be the default, which is changed. *)
ReadIndex(r) ==
  /\ run[r].at = "read"
  /\ LET row == [id |-> run[r].id, steps |-> run[r].count]
     IN \/ /\ index.whole
           /\ run' = [run EXCEPT ![r].at = "index", ![r].rows = WithRow(index.rows, row)]
        \/ /\ Unreadable(r)
           /\ run' = [run EXCEPT ![r].at = "index",
                                 ![r].rows = WithRow(run[r].default, row),
                                 ![r].default = WithRow(run[r].default, row)]
  /\ UNCHANGED <<files, index, appended, crashes, acked, spoiled>>

(* The operation returns. *)
IndexWritten(r) ==
  /\ run[r].at = "index"
  /\ index' \in IndexLeft(r, run[r].rows)
  /\ run' = [run EXCEPT ![r].at = "idle", ![r].count = 0, ![r].step = 0,
                            ![r].rows = <<>>]
  /\ acked' = IF run[r].step = 0 THEN acked
              ELSE [acked EXCEPT ![run[r].id] = @ \cup {run[r].step}]
  /\ UNCHANGED <<files, appended, crashes, spoiled>>

Exit(r) ==
  /\ run[r].at = "idle"
  /\ Ended(r)
  /\ UNCHANGED <<files, index, appended, crashes, acked, spoiled>>

(* The file that is being written is left as it was, or torn. *)
Crash(r) ==
  /\ crashes < MaxCrashes /\ crashes' = crashes + 1
  /\ run[r].at # "off"
  /\ LET s == run[r].id
     IN \/ UNCHANGED <<files, index, spoiled>>
        \/ /\ run[r].at = "step" /\ s \in dirs
           /\ steps' = [steps EXCEPT ![s][run[r].count] = Torn]
           /\ UNCHANGED <<session, dirs, index, spoiled>>
        \/ /\ run[r].at = "session" /\ s \in dirs
           /\ session' = [session EXCEPT ![s] = NoSession]
           /\ spoiled' = spoiled \cup {s}
           /\ UNCHANGED <<steps, dirs, index>>
        \/ /\ run[r].at \in {"index", "pruned"}
           /\ index' = [whole |-> FALSE, rows |-> <<>>]
           /\ UNCHANGED <<files, spoiled>>
  /\ Ended(r)
  /\ UNCHANGED <<appended, acked>>

-----------------------------------------------------------------------------
(* pruneIndexEntries, of the prompt journals. *)

Prune(r) ==
  /\ run[r].at = "off"
  /\ index.whole /\ Len(index.rows) > Keep
  /\ run' = [run EXCEPT ![r] = [Off EXCEPT !.at = "pruning", !.rows = index.rows]]
  /\ UNCHANGED <<files, index, appended, crashes, acked, spoiled>>

Victims(rows) == {rows[i].id : i \in Keep + 1..Len(rows)}

(* One directory after another; a run that has it open is not asked. *)
RemoveTarget(r, s) ==
  /\ run[r].at = "pruning"
  /\ s \in Victims(run[r].rows) \cap dirs
  /\ dirs' = dirs \ {s}
  /\ session' = [session EXCEPT ![s] = NoSession]
  /\ steps' = [steps EXCEPT ![s] = [k \in 1..MaxSteps |-> Absent]]
  /\ spoiled' = spoiled \cup {s}
  /\ UNCHANGED <<run, index, appended, crashes, acked>>

TargetsRemoved(r) ==
  /\ run[r].at = "pruning"
  /\ Victims(run[r].rows) \cap dirs = {}
  /\ run' = [run EXCEPT ![r].at = "pruned", ![r].rows = SubSeq(@, 1, Keep)]
  /\ UNCHANGED <<files, index, appended, crashes, acked, spoiled>>

PrunedIndexWritten(r) ==
  /\ run[r].at = "pruned"
  /\ index' \in IndexLeft(r, run[r].rows)
  /\ Ended(r)
  /\ UNCHANGED <<files, appended, crashes, acked, spoiled>>

Next ==
  \E r \in Runs :
    \/ \E s \in Sessions : OpenSession(r, s) \/ RemoveTarget(r, s)
    \/ MakeDirectory(r) \/ AppendStep(r) \/ SetStatus(r) \/ StepWritten(r) \/ SessionWritten(r)
    \/ ReadIndex(r) \/ IndexWritten(r) \/ Exit(r) \/ Crash(r)
    \/ Prune(r) \/ TargetsRemoved(r) \/ PrunedIndexWritten(r)

Spec == Init /\ [][Next]_vars

-----------------------------------------------------------------------------
Place == {"off", "idle", "mkdir", "step", "session", "read", "index", "pruning", "pruned"}

TypeOK ==
  /\ run \in [Runs -> [at : Place, id : Sessions \cup {None}, count : 0..MaxSteps,
                       step : 0..MaxAppends, rows : Seq(Row), default : Seq(Row)]]
  /\ session \in [Sessions -> [whole : BOOLEAN, steps : 0..MaxSteps]]
  /\ steps \in [Sessions -> [1..MaxSteps -> Torn..MaxAppends]]
  /\ dirs \subseteq Sessions
  /\ index.whole \in BOOLEAN /\ index.rows \in Seq(Row) /\ Len(index.rows) <= IndexCap
  /\ appended \in 0..MaxAppends /\ crashes \in 0..MaxCrashes
  /\ acked \in [Sessions -> SUBSET (1..MaxAppends)]
  /\ spoiled \subseteq Sessions

(***************************************************************************)
(* A step whose append returned stays in the journal: crashes of this run  *)
(* or of a later one, and other runs, neither overwrite nor remove it,     *)
(* unless a crash tore the session file or the pruner removed it.          *)
(***************************************************************************)
AckedStepsKept ==
  \A s \in Sessions \ spoiled : \A e \in acked[s] : \E k \in 1..MaxSteps : steps[s][k] = e

(***************************************************************************)
(* What a session file counts is there to be read: a crash after any write *)
(* leaves at most one step that is not counted, never one counted that is  *)
(* torn or missing.                                                        *)
(***************************************************************************)
CountedAreWritten ==
  \A s \in Sessions \ spoiled : \A k \in 1..session[s].steps : steps[s][k] > 0

(***************************************************************************)
(* The index may be behind the sessions, when runs overwrite each other's  *)
(* rows or crash, but is never ahead of one, and has one row for each.     *)
(***************************************************************************)
IndexNeverLeads ==
  \A i \in DOMAIN index.rows :
    LET row == index.rows[i]
    IN /\ row.id \notin spoiled => row.steps <= session[row.id].steps
       /\ \A j \in DOMAIN index.rows : index.rows[j].id = row.id => i = j

=============================================================================
