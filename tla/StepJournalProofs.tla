------------------------- MODULE StepJournalProofs --------------------------
(***************************************************************************)
(* What the files of the journal and its index hold, for any number of     *)
(* runs, sessions, steps and crashes.  The files come first, and do not    *)
(* depend on the index but for which directories the pruner removes, which *)
(* is any here; the rows of the index are then behind the session files.   *)
(***************************************************************************)
EXTENDS StepJournal, LeastNumber, SequenceTheorems, TLAPS

Working == {"idle", "mkdir", "step", "session", "read", "index"}

RunField == {"at", "id", "count", "step", "rows", "default"}

(* The bounds are numbers, as JournalAssumption says. *)
LEMMA JournalBounds ==
  MaxSteps \in Nat /\ MaxAppends \in Nat /\ None \notin Sessions
  BY JournalAssumption

RunShape ==
  /\ DOMAIN run = Runs
  /\ \A r \in Runs :
       /\ DOMAIN run[r] = RunField
       /\ run[r].at \in Place
       /\ run[r].count \in 0..MaxSteps /\ run[r].step \in 0..MaxAppends
       /\ run[r].at \in Working => run[r].id \in Sessions
       /\ run[r].at = "step" => run[r].step > 0
       /\ run[r].at = "idle" => run[r].step = 0

FileShape ==
  /\ session \in [Sessions -> [whole : BOOLEAN, steps : 0..MaxSteps]]
  /\ \A s \in Sessions : ~session[s].whole => session[s].steps = 0
  /\ steps \in [Sessions -> [1..MaxSteps -> Torn..MaxAppends]]
  /\ acked \in [Sessions -> SUBSET (1..MaxAppends)]
  /\ appended \in 0..MaxAppends

(* A session is open in one run at a time. *)
Exclusive ==
  \A r, q \in Runs :
    run[r].at \in Working /\ run[q].at \in Working /\ run[r].id = run[q].id => r = q

(* What a run has in hand of its session is what the files hold: the next  *)
(* step's place is not counted yet, and a step is counted once written.    *)
Holds(r) ==
  LET s == run[r].id
      c == run[r].count
      e == run[r].step
  IN /\ run[r].at \in {"mkdir", "step"} =>
          c = IF e = 0 THEN session[s].steps ELSE session[s].steps + 1
     /\ run[r].at = "session" =>
          IF e = 0 THEN c = session[s].steps
                   ELSE c = session[s].steps + 1 /\ steps[s][c] = e
     /\ run[r].at \in {"read", "index"} /\ e > 0 =>
          \E k \in 1..session[s].steps : steps[s][k] = e

InHand ==
  \A r \in Runs :
    run[r].at \in Working \ {"idle"} /\ run[r].id \notin spoiled => Holds(r)

(* What was reported as recorded is counted, and stays where it is. *)
AckedAreCounted ==
  \A s \in Sessions \ spoiled : \A e \in acked[s] :
    \E k \in 1..session[s].steps : steps[s][k] = e

FilesInv == RunShape /\ FileShape /\ Exclusive /\ InHand /\ CountedAreWritten /\ AckedAreCounted

-----------------------------------------------------------------------------
LEMMA FilesInit == Init => FilesInv
<1> SUFFICES ASSUME Init PROVE FilesInv
  OBVIOUS
<1> USE JournalBounds DEF Init
<1>1. RunShape
  BY DEF RunShape, RunField, Off, Place, Working
<1>2. FileShape
  BY DEF FileShape, NoSession, Torn, Absent
<1>3. Exclusive /\ InHand
  BY DEF Exclusive, InHand, Off, Working
<1>4. CountedAreWritten /\ AckedAreCounted
  BY DEF CountedAreWritten, AckedAreCounted, NoSession
<1> QED
  BY <1>1, <1>2, <1>3, <1>4 DEF FilesInv

(* Steps that leave the files alone keep what is said about them. *)
LEMMA FilesAlone ==
  ASSUME FilesInv, UNCHANGED <<session, steps, acked, spoiled>>, appended' \in 0..MaxAppends
  PROVE  FileShape' /\ CountedAreWritten' /\ AckedAreCounted'
  BY DEF FilesInv, FileShape, CountedAreWritten, AckedAreCounted

(* A run that changes what it does, but neither session nor step. *)
LEMMA RunMoves ==
  ASSUME FilesInv, NEW r \in Runs, NEW at \in Working,
         run[r].at \in Working, DOMAIN run' = Runs,
         \A q \in Runs \ {r} : run'[q] = run[q],
         DOMAIN run'[r] = RunField, run'[r].at = at, run'[r].id = run[r].id,
         run'[r].count \in 0..MaxSteps, run'[r].step \in 0..MaxAppends,
         at = "step" => run'[r].step > 0, at = "idle" => run'[r].step = 0
  PROVE  RunShape' /\ Exclusive'
<1>1. RunShape'
  BY DEF FilesInv, RunShape, Working, Place
<1>2. Exclusive'
  BY DEF FilesInv, RunShape, Exclusive
<1> QED
  BY <1>1, <1>2

(* A run that ends, or prunes, has nothing open. *)
LEMMA RunLeaves ==
  ASSUME FilesInv, NEW r \in Runs, DOMAIN run' = Runs,
         \A q \in Runs \ {r} : run'[q] = run[q],
         DOMAIN run'[r] = RunField, run'[r].at \in {"off", "pruning", "pruned"},
         run'[r].count \in 0..MaxSteps, run'[r].step \in 0..MaxAppends
  PROVE  RunShape' /\ Exclusive'
<1>1. RunShape'
  BY JournalBounds DEF FilesInv, RunShape, Working, Place
<1>2. Exclusive'
  BY DEF FilesInv, Exclusive, Working
<1> QED
  BY <1>1, <1>2

(* What other runs have in hand does not change while their sessions don't. *)
LEMMA OthersInHand ==
  ASSUME FilesInv, NEW r \in Runs, spoiled \subseteq spoiled',
         \A q \in Runs \ {r} : run'[q] = run[q],
         \A s \in Sessions \ {run[r].id} :
           s \notin spoiled' => session'[s] = session[s] /\ steps'[s] = steps[s],
         run[r].at \in Working,
         NEW q \in Runs \ {r}, run'[q].at \in Working \ {"idle"}, run'[q].id \notin spoiled'
  PROVE  /\ run'[q] = run[q] /\ run[q].at \in Working \ {"idle"} /\ run[q].id \notin spoiled
         /\ session'[run[q].id] = session[run[q].id] /\ steps'[run[q].id] = steps[run[q].id]
<1>1. run'[q] = run[q] /\ run[q].at \in Working \ {"idle"}
  OBVIOUS
<1>2. run[q].id # run[r].id /\ run[q].id \in Sessions
  BY <1>1 DEF FilesInv, RunShape, Exclusive
<1> QED
  BY <1>1, <1>2

(* While the files stay as they are, so does what other runs have in hand. *)
LEMMA OthersKeep ==
  ASSUME FilesInv, NEW r \in Runs, UNCHANGED <<session, steps, spoiled>>,
         \A q \in Runs \ {r} : run'[q] = run[q],
         run'[r].at \in Working \ {"idle"} /\ run'[r].id \notin spoiled => Holds(r)'
  PROVE  InHand'
<1> SUFFICES ASSUME NEW q \in Runs,
                    run'[q].at \in Working \ {"idle"} /\ run'[q].id \notin spoiled
             PROVE  Holds(q)'
  BY DEF InHand
<1>1. CASE q = r
  BY <1>1
<1>2. CASE q # r
  BY <1>2 DEF FilesInv, InHand, Holds
<1> QED
  BY <1>1, <1>2

-----------------------------------------------------------------------------
LEMMA OpenSessionKeeps ==
  ASSUME FilesInv, NEW r \in Runs, NEW s \in Sessions, OpenSession(r, s)
  PROVE  FilesInv'
<1> USE JournalBounds
<1>1. /\ DOMAIN run' = Runs /\ \A q \in Runs \ {r} : run'[q] = run[q]
      /\ DOMAIN run'[r] = RunField /\ run'[r].at = "mkdir" /\ run'[r].id = s
      /\ run'[r].count = Count(s) /\ run'[r].step = 0
  BY DEF FilesInv, RunShape, OpenSession, Off, RunField
<1>2. Count(s) = session[s].steps /\ Count(s) \in 0..MaxSteps
  BY DEF FilesInv, FileShape, Count
<1>3. RunShape'
  BY <1>1, <1>2 DEF FilesInv, RunShape, Working, Place
<1>4. Exclusive'
  <2> SUFFICES ASSUME NEW p \in Runs, NEW q \in Runs, run'[p].at \in Working,
                      run'[q].at \in Working, run'[p].id = run'[q].id
               PROVE  p = q
    BY DEF Exclusive
  <2>1. \A o \in Runs \ {r} : run[o].at \in Working => run[o].id # s
    BY DEF OpenSession, Open, Working
  <2> QED
    BY <1>1, <2>1 DEF FilesInv, Exclusive
<1>5. InHand'
  BY <1>1, <1>2, OthersKeep DEF Holds, OpenSession, files
<1>6. FileShape' /\ CountedAreWritten' /\ AckedAreCounted'
  BY FilesAlone DEF FilesInv, FileShape, OpenSession, files
<1> QED
  BY <1>3, <1>4, <1>5, <1>6 DEF FilesInv

(* From one place of the run to the next, with the session as it was. *)
LEMMA MakeDirectoryKeeps ==
  ASSUME FilesInv, NEW r \in Runs, MakeDirectory(r)
  PROVE  FilesInv'
<1> USE JournalBounds
<1>0. run[r].at = "mkdir" /\ DOMAIN run = Runs /\ DOMAIN run[r] = RunField
      /\ run[r].count \in 0..MaxSteps /\ run[r].step \in 0..MaxAppends
  BY DEF FilesInv, RunShape, MakeDirectory
<1>1. /\ DOMAIN run' = Runs /\ \A q \in Runs \ {r} : run'[q] = run[q]
      /\ DOMAIN run'[r] = RunField
      /\ run'[r].at = IF run[r].step = 0 THEN "session" ELSE "step"
      /\ run'[r].id = run[r].id /\ run'[r].count = run[r].count /\ run'[r].step = run[r].step
  BY <1>0 DEF MakeDirectory, RunField
<1>2. RunShape' /\ Exclusive'
  BY <1>0, <1>1, RunMoves DEF Working
<1>3. InHand'
  BY <1>0, <1>1, OthersKeep DEF FilesInv, InHand, Holds, MakeDirectory, Working
<1>4. FileShape' /\ CountedAreWritten' /\ AckedAreCounted'
  BY FilesAlone DEF FilesInv, FileShape, MakeDirectory
<1> QED
  BY <1>2, <1>3, <1>4 DEF FilesInv

LEMMA AppendStepKeeps ==
  ASSUME FilesInv, NEW r \in Runs, AppendStep(r)
  PROVE  FilesInv'
<1> DEFINE s == run[r].id
<1> USE JournalBounds
<1>0. run[r].at = "idle" /\ DOMAIN run = Runs /\ DOMAIN run[r] = RunField /\ s \in Sessions
  BY DEF FilesInv, RunShape, AppendStep, Working
<1>1. appended' \in 1..MaxAppends /\ session[s].steps + 1 \in 0..MaxSteps
  BY <1>0 DEF FilesInv, FileShape, AppendStep
<1>2. /\ DOMAIN run' = Runs /\ \A q \in Runs \ {r} : run'[q] = run[q]
      /\ DOMAIN run'[r] = RunField /\ run'[r].at = "mkdir" /\ run'[r].id = s
      /\ run'[r].count = session[s].steps + 1 /\ run'[r].step = appended'
  BY <1>0 DEF AppendStep, RunField
<1>3. RunShape' /\ Exclusive'
  BY <1>0, <1>1, <1>2, RunMoves DEF Working
<1>4. InHand'
  <2>1. appended' # 0 /\ UNCHANGED <<session, steps, spoiled>>
    BY <1>1 DEF AppendStep, files
  <2>2. Holds(r)'
    BY <1>2, <2>1 DEF Holds
  <2> QED
    BY <1>2, <2>1, <2>2, OthersKeep
<1>5. FileShape' /\ CountedAreWritten' /\ AckedAreCounted'
  BY <1>1, FilesAlone DEF AppendStep, files
<1> QED
  BY <1>3, <1>4, <1>5 DEF FilesInv

LEMMA SetStatusKeeps ==
  ASSUME FilesInv, NEW r \in Runs, SetStatus(r)
  PROVE  FilesInv'
<1> DEFINE s == run[r].id
<1> USE JournalBounds
<1>0. run[r].at = "idle" /\ DOMAIN run = Runs /\ DOMAIN run[r] = RunField /\ s \in Sessions
  BY DEF FilesInv, RunShape, SetStatus, Working
<1>1. session[s].steps \in 0..MaxSteps
  BY <1>0 DEF FilesInv, FileShape
<1>2. /\ DOMAIN run' = Runs /\ \A q \in Runs \ {r} : run'[q] = run[q]
      /\ DOMAIN run'[r] = RunField /\ run'[r].at = "session" /\ run'[r].id = s
      /\ run'[r].count = session[s].steps /\ run'[r].step = 0
  BY <1>0 DEF SetStatus, RunField
<1>3. RunShape' /\ Exclusive'
  BY <1>0, <1>1, <1>2, RunMoves DEF Working
<1>4. InHand'
  <2>1. UNCHANGED <<session, steps, spoiled>>
    BY DEF SetStatus, files
  <2>2. Holds(r)'
    BY <1>2, <2>1 DEF Holds
  <2> QED
    BY <1>2, <2>1, <2>2, OthersKeep
<1>5. FileShape' /\ CountedAreWritten' /\ AckedAreCounted'
  BY FilesAlone DEF FilesInv, FileShape, SetStatus, files
<1> QED
  BY <1>3, <1>4, <1>5 DEF FilesInv

LEMMA ReadIndexKeeps ==
  ASSUME FilesInv, NEW r \in Runs, ReadIndex(r)
  PROVE  FilesInv'
<1> USE JournalBounds
<1>0. run[r].at = "read" /\ DOMAIN run = Runs /\ DOMAIN run[r] = RunField
      /\ run[r].count \in 0..MaxSteps /\ run[r].step \in 0..MaxAppends
  BY DEF FilesInv, RunShape, ReadIndex
<1>1. /\ DOMAIN run' = Runs /\ \A q \in Runs \ {r} : run'[q] = run[q]
      /\ DOMAIN run'[r] = RunField /\ run'[r].at = "index"
      /\ run'[r].id = run[r].id /\ run'[r].count = run[r].count /\ run'[r].step = run[r].step
  <2> DEFINE row == [id |-> run[r].id, steps |-> run[r].count]
  <2>1. ASSUME NEW rows, run' = [run EXCEPT ![r].at = "index", ![r].rows = rows]
        PROVE  <1>1
    BY <1>0, <2>1 DEF RunField
  <2>2. ASSUME NEW rows, run' = [run EXCEPT ![r].at = "index", ![r].rows = rows,
                                            ![r].default = rows]
        PROVE  <1>1
    BY <1>0, <2>2 DEF RunField
  <2>3. \/ run' = [run EXCEPT ![r].at = "index", ![r].rows = WithRow(index.rows, row)]
        \/ run' = [run EXCEPT ![r].at = "index", ![r].rows = WithRow(run[r].default, row),
                              ![r].default = WithRow(run[r].default, row)]
    BY DEF ReadIndex
  <2> HIDE DEF row
  <2> QED
    BY <2>1, <2>2, <2>3
<1>2. RunShape' /\ Exclusive'
  BY <1>0, <1>1, RunMoves DEF Working
<1>3. InHand'
  BY <1>0, <1>1, OthersKeep DEF FilesInv, InHand, Holds, ReadIndex, files, Working
<1>4. FileShape' /\ CountedAreWritten' /\ AckedAreCounted'
  BY FilesAlone DEF FilesInv, FileShape, ReadIndex, files
<1> QED
  BY <1>2, <1>3, <1>4 DEF FilesInv

(* The operation returns: its step is counted by now. *)
LEMMA IndexWrittenKeeps ==
  ASSUME FilesInv, NEW r \in Runs, IndexWritten(r)
  PROVE  FilesInv'
<1> DEFINE s == run[r].id
           e == run[r].step
<1> USE JournalBounds
<1>0. run[r].at = "index" /\ DOMAIN run = Runs /\ DOMAIN run[r] = RunField
      /\ e \in 0..MaxAppends /\ s \in Sessions
  BY DEF FilesInv, RunShape, IndexWritten, Working
<1>1. /\ DOMAIN run' = Runs /\ \A q \in Runs \ {r} : run'[q] = run[q]
      /\ DOMAIN run'[r] = RunField /\ run'[r].at = "idle"
      /\ run'[r].id = s /\ run'[r].count = 0 /\ run'[r].step = 0
  BY <1>0 DEF IndexWritten, RunField
<1>2. RunShape' /\ Exclusive'
  BY <1>0, <1>1, RunMoves DEF Working
<1>3. InHand'
  BY <1>1, OthersKeep DEF Holds, IndexWritten, files
<1>4. FileShape'
  BY <1>0 DEF FilesInv, FileShape, IndexWritten, files
<1>5. CountedAreWritten'
  BY DEF FilesInv, CountedAreWritten, IndexWritten, files
<1>6. AckedAreCounted'
  <2> SUFFICES ASSUME NEW t \in Sessions \ spoiled, NEW d \in acked'[t]
               PROVE  \E k \in 1..session[t].steps : steps[t][k] = d
    BY DEF AckedAreCounted, IndexWritten, files
  <2>1. CASE d \in acked[t]
    BY <2>1 DEF FilesInv, AckedAreCounted
  <2>2. CASE d \notin acked[t]
    <3>1. t = s /\ d = e /\ e # 0
      BY <1>0, <2>2 DEF IndexWritten, FilesInv, FileShape
    <3> QED
      BY <1>0, <3>1 DEF FilesInv, InHand, Holds, Working
  <2> QED
    BY <2>1, <2>2
<1> QED
  BY <1>2, <1>3, <1>4, <1>5, <1>6 DEF FilesInv

(* A run that ends with the files as they are. *)
LEMMA EndedKeeps ==
  ASSUME FilesInv, NEW r \in Runs, Ended(r), UNCHANGED <<session, steps, appended, acked, spoiled>>
  PROVE  FilesInv'
<1>1. /\ DOMAIN run' = Runs /\ \A q \in Runs \ {r} : run'[q] = run[q]
      /\ DOMAIN run'[r] = RunField /\ run'[r].at = "off"
      /\ run'[r].count = 0 /\ run'[r].step = 0
  BY DEF FilesInv, RunShape, Ended, Off, RunField
<1>2. RunShape' /\ Exclusive'
  BY <1>1, JournalBounds, RunLeaves
<1>3. InHand'
  BY <1>1, OthersKeep DEF Holds, Working
<1>4. FileShape' /\ CountedAreWritten' /\ AckedAreCounted'
  BY FilesAlone DEF FilesInv, FileShape
<1> QED
  BY <1>2, <1>3, <1>4 DEF FilesInv

-----------------------------------------------------------------------------
(* What the write of a step, whole or torn, leaves: its place is not one   *)
(* that is counted.                                                        *)
LEMMA StepPlaced ==
  ASSUME FilesInv, NEW r \in Runs, run[r].at = "step", NEW x \in Torn..MaxAppends,
         steps' = [steps EXCEPT ![run[r].id][run[r].count] = x],
         UNCHANGED <<session, appended, acked, spoiled>>
  PROVE  /\ FileShape' /\ CountedAreWritten' /\ AckedAreCounted'
         /\ run[r].id \notin spoiled => steps'[run[r].id][run[r].count] = x
         /\ \A t \in Sessions \ {run[r].id} : steps'[t] = steps[t]
<1> DEFINE s == run[r].id
           c == run[r].count
<1> USE JournalBounds
<1>0. s \in Sessions /\ c \in 0..MaxSteps /\ run[r].step > 0
  BY DEF FilesInv, RunShape, Working
<1>1. s \notin spoiled => c = session[s].steps + 1
  BY <1>0 DEF FilesInv, RunShape, InHand, Holds, Working
<1>2. steps \in [Sessions -> [1..MaxSteps -> Torn..MaxAppends]] /\ session[s].steps \in 0..MaxSteps
  BY <1>0 DEF FilesInv, FileShape
<1>3. FileShape'
  BY <1>2 DEF FilesInv, FileShape
<1>4. \A t \in Sessions \ {s} : steps'[t] = steps[t]
  BY <1>2
<1>5. s \notin spoiled => \A k \in 1..session[s].steps : steps'[s][k] = steps[s][k]
  <2>1. steps'[s] = [steps[s] EXCEPT ![c] = x] /\ steps[s] \in [1..MaxSteps -> Torn..MaxAppends]
    BY <1>0, <1>2
  <2>2. s \notin spoiled => \A k \in 1..session[s].steps : k \in 1..MaxSteps /\ k # c
    BY <1>1, <1>2
  <2> QED
    BY <2>1, <2>2
<1>6. s \notin spoiled => steps'[s][c] = x
  BY <1>0, <1>1, <1>2
<1>7. CountedAreWritten'
  BY <1>4, <1>5 DEF FilesInv, CountedAreWritten
<1>8. AckedAreCounted'
  BY <1>4, <1>5 DEF FilesInv, AckedAreCounted
<1> QED
  BY <1>3, <1>4, <1>6, <1>7, <1>8

LEMMA StepWrittenKeeps ==
  ASSUME FilesInv, NEW r \in Runs, StepWritten(r)
  PROVE  FilesInv'
<1> DEFINE s == run[r].id
<1> USE JournalBounds
<1>1. CASE s \notin dirs /\ Ended(r) /\ UNCHANGED steps
  BY <1>1, EndedKeeps DEF StepWritten
<1>2. CASE /\ steps' = [steps EXCEPT ![s][run[r].count] = run[r].step]
           /\ run' = [run EXCEPT ![r].at = "session"]
  <2>0. /\ run[r].at = "step" /\ DOMAIN run = Runs /\ DOMAIN run[r] = RunField
        /\ run[r].count \in 0..MaxSteps /\ run[r].step \in 0..MaxAppends
        /\ run[r].step > 0 /\ s \in Sessions
    BY DEF FilesInv, RunShape, StepWritten, Working
  <2>1. /\ DOMAIN run' = Runs /\ \A q \in Runs \ {r} : run'[q] = run[q]
        /\ DOMAIN run'[r] = RunField /\ run'[r].at = "session"
        /\ run'[r].id = s /\ run'[r].count = run[r].count /\ run'[r].step = run[r].step
    BY <1>2, <2>0 DEF RunField
  <2>2. RunShape' /\ Exclusive'
    BY <2>0, <2>1, RunMoves DEF Working
  <2>3. run[r].step \in Torn..MaxAppends
    BY <2>0 DEF Torn
  <2>4. /\ FileShape' /\ CountedAreWritten' /\ AckedAreCounted'
        /\ s \notin spoiled => steps'[s][run[r].count] = run[r].step
        /\ \A t \in Sessions \ {s} : steps'[t] = steps[t]
    BY <1>2, <2>0, <2>3, StepPlaced DEF StepWritten
  <2>5. InHand'
    <3> SUFFICES ASSUME NEW q \in Runs, run'[q].at \in Working \ {"idle"},
                        run'[q].id \notin spoiled'
                 PROVE  Holds(q)'
      BY DEF InHand
    <3>1. CASE q = r
      BY <2>0, <2>1, <2>4, <3>1 DEF FilesInv, InHand, Holds, StepWritten, Working
    <3>2. CASE q # r
      <4>1. /\ run'[q] = run[q] /\ run[q].at \in Working \ {"idle"} /\ run[q].id \notin spoiled
            /\ session'[run[q].id] = session[run[q].id] /\ steps'[run[q].id] = steps[run[q].id]
        BY <2>0, <2>1, <2>4, <3>2, OthersInHand DEF StepWritten, Working
      <4> QED
        BY <4>1 DEF FilesInv, InHand, Holds
    <3> QED
      BY <3>1, <3>2
  <2> QED
    BY <2>2, <2>4, <2>5 DEF FilesInv
<1> QED
  BY <1>1, <1>2 DEF StepWritten

LEMMA SessionWrittenKeeps ==
  ASSUME FilesInv, NEW r \in Runs, SessionWritten(r)
  PROVE  FilesInv'
<1> DEFINE s == run[r].id
           c == run[r].count
           e == run[r].step
<1> USE JournalBounds
<1>1. CASE s \notin dirs /\ Ended(r) /\ UNCHANGED session
  BY <1>1, EndedKeeps DEF SessionWritten
<1>2. CASE /\ session' = [session EXCEPT ![s] = [whole |-> TRUE, steps |-> c]]
           /\ run' = [run EXCEPT ![r].at = "read"]
  <2>0. /\ run[r].at = "session" /\ DOMAIN run = Runs /\ DOMAIN run[r] = RunField
        /\ c \in 0..MaxSteps /\ e \in 0..MaxAppends /\ s \in Sessions
    BY DEF FilesInv, RunShape, SessionWritten, Working
  <2>1. /\ DOMAIN run' = Runs /\ \A q \in Runs \ {r} : run'[q] = run[q]
        /\ DOMAIN run'[r] = RunField /\ run'[r].at = "read"
        /\ run'[r].id = s /\ run'[r].count = c /\ run'[r].step = e
    BY <1>2, <2>0 DEF RunField
  <2>2. RunShape' /\ Exclusive'
    BY <2>0, <2>1, RunMoves DEF Working
  <2>3. UNCHANGED <<steps, appended, acked, spoiled>>
    BY DEF SessionWritten
  <2>4. /\ session \in [Sessions -> [whole : BOOLEAN, steps : 0..MaxSteps]]
        /\ session'[s].steps = c /\ session'[s].whole
        /\ \A t \in Sessions \ {s} : session'[t] = session[t]
    BY <1>2, <2>0 DEF FilesInv, FileShape
  <2>5. FileShape'
    BY <1>2, <2>0, <2>3, <2>4 DEF FilesInv, FileShape
  <2>6. s \notin spoiled =>
          IF e = 0 THEN c = session[s].steps ELSE c = session[s].steps + 1 /\ steps[s][c] = e
    BY <2>0 DEF FilesInv, InHand, Holds, Working
  <2>7. session[s].steps \in 0..MaxSteps
    BY <2>0, <2>4
  <2>8. CountedAreWritten'
    <3> SUFFICES ASSUME NEW t \in Sessions \ spoiled, NEW k \in 1..session'[t].steps
                 PROVE  steps[t][k] > 0
      BY <2>3 DEF CountedAreWritten
    <3>1. CASE t # s
      BY <2>4, <3>1 DEF FilesInv, CountedAreWritten
    <3>2. CASE t = s /\ k \in 1..session[s].steps
      BY <3>2 DEF FilesInv, CountedAreWritten
    <3>3. CASE t = s /\ k \notin 1..session[s].steps
      BY <2>0, <2>4, <2>6, <2>7, <3>3
    <3> QED
      BY <3>1, <3>2, <3>3
  <2>9. AckedAreCounted'
    <3> SUFFICES ASSUME NEW t \in Sessions \ spoiled, NEW d \in acked[t]
                 PROVE  \E k \in 1..session'[t].steps : steps[t][k] = d
      BY <2>3 DEF AckedAreCounted
    <3>1. PICK k \in 1..session[t].steps : steps[t][k] = d
      BY DEF FilesInv, AckedAreCounted
    <3>2. k \in 1..session'[t].steps
      BY <2>0, <2>4, <2>6, <2>7
    <3> QED
      BY <3>1, <3>2
  <2>10. InHand'
    <3> SUFFICES ASSUME NEW q \in Runs, run'[q].at \in Working \ {"idle"},
                        run'[q].id \notin spoiled'
                 PROVE  Holds(q)'
      BY DEF InHand
    <3>1. CASE q = r
      <4>1. e > 0 => c \in 1..c /\ steps[s][c] = e
        BY <2>0, <2>1, <2>3, <2>6, <2>7, <3>1
      <4> QED
        BY <2>1, <2>3, <2>4, <3>1, <4>1 DEF Holds
    <3>2. CASE q # r
      <4>1. /\ run'[q] = run[q] /\ run[q].at \in Working \ {"idle"} /\ run[q].id \notin spoiled
            /\ session'[run[q].id] = session[run[q].id] /\ steps'[run[q].id] = steps[run[q].id]
        BY <2>0, <2>1, <2>3, <2>4, <3>2, OthersInHand DEF Working
      <4> QED
        BY <4>1 DEF FilesInv, InHand, Holds
    <3> QED
      BY <3>1, <3>2
  <2> QED
    BY <2>2, <2>5, <2>8, <2>9, <2>10 DEF FilesInv
<1> QED
  BY <1>1, <1>2 DEF SessionWritten

(* A session that is spoiled is no longer spoken of. *)
LEMMA SpoiledKeeps ==
  ASSUME FilesInv, NEW s \in Sessions, spoiled' = spoiled \cup {s},
         session' = [session EXCEPT ![s] = NoSession],
         \A t \in Sessions \ {s} : steps'[t] = steps[t],
         steps' \in [Sessions -> [1..MaxSteps -> Torn..MaxAppends]],
         UNCHANGED <<appended, acked>>
  PROVE  FileShape' /\ CountedAreWritten' /\ AckedAreCounted'
<1> USE JournalBounds
<1>1. \A t \in Sessions \ {s} : session'[t] = session[t]
  BY DEF FilesInv, FileShape
<1>2. FileShape'
  <2>1. session' \in [Sessions -> [whole : BOOLEAN, steps : 0..MaxSteps]]
    BY DEF FilesInv, FileShape, NoSession
  <2>2. session'[s] = NoSession
    BY DEF FilesInv, FileShape
  <2>3. \A t \in Sessions : ~session'[t].whole => session'[t].steps = 0
    BY <1>1, <2>2 DEF FilesInv, FileShape, NoSession
  <2> QED
    BY <2>1, <2>3 DEF FilesInv, FileShape
<1>3. CountedAreWritten'
  BY <1>1 DEF FilesInv, CountedAreWritten
<1>4. AckedAreCounted'
  BY <1>1 DEF FilesInv, AckedAreCounted
<1> QED
  BY <1>2, <1>3, <1>4

LEMMA CrashKeeps ==
  ASSUME FilesInv, NEW r \in Runs, Crash(r)
  PROVE  FilesInv'
<1> DEFINE s == run[r].id
<1> USE JournalBounds
<1>1. /\ DOMAIN run' = Runs /\ \A q \in Runs \ {r} : run'[q] = run[q]
      /\ DOMAIN run'[r] = RunField /\ run'[r].at = "off"
      /\ run'[r].count = 0 /\ run'[r].step = 0
  BY DEF FilesInv, RunShape, Crash, Ended, Off, RunField
<1>2. RunShape' /\ Exclusive'
  BY <1>1, JournalBounds, RunLeaves
<1>3. CASE UNCHANGED <<session, steps, spoiled>>
  BY <1>3, EndedKeeps DEF Crash
<1>4. CASE /\ run[r].at = "step" /\ UNCHANGED <<session, spoiled>>
           /\ steps' = [steps EXCEPT ![s][run[r].count] = Torn]
  <2>1. /\ FileShape' /\ CountedAreWritten' /\ AckedAreCounted'
        /\ \A t \in Sessions \ {s} : steps'[t] = steps[t]
    <3>1. Torn \in Torn..MaxAppends
      BY DEF Torn
    <3>2. UNCHANGED <<session, appended, acked, spoiled>>
      BY <1>4 DEF Crash
    <3> QED
      BY <1>4, <3>1, <3>2, StepPlaced
  <2>2. InHand'
    <3> SUFFICES ASSUME NEW q \in Runs, run'[q].at \in Working \ {"idle"},
                        run'[q].id \notin spoiled'
                 PROVE  Holds(q)'
      BY DEF InHand
    <3>1. q # r
      BY <1>1 DEF Working
    <3>2. /\ run'[q] = run[q] /\ run[q].at \in Working \ {"idle"} /\ run[q].id \notin spoiled
          /\ session'[run[q].id] = session[run[q].id] /\ steps'[run[q].id] = steps[run[q].id]
      BY <1>1, <1>4, <2>1, <3>1, OthersInHand DEF Working
    <3> QED
      BY <3>2 DEF FilesInv, InHand, Holds
  <2> QED
    BY <1>2, <2>1, <2>2 DEF FilesInv
<1>5. CASE /\ run[r].at = "session" /\ UNCHANGED steps
           /\ session' = [session EXCEPT ![s] = NoSession]
           /\ spoiled' = spoiled \cup {s}
  <2>1. s \in Sessions
    BY <1>5 DEF FilesInv, RunShape, Working
  <2>2. FileShape' /\ CountedAreWritten' /\ AckedAreCounted'
    BY <1>5, <2>1, SpoiledKeeps DEF Crash, FilesInv, FileShape
  <2>3. \A t \in Sessions \ {s} : session'[t] = session[t]
    BY <1>5 DEF FilesInv, FileShape
  <2>4. InHand'
    <3> SUFFICES ASSUME NEW q \in Runs, run'[q].at \in Working \ {"idle"},
                        run'[q].id \notin spoiled'
                 PROVE  Holds(q)'
      BY DEF InHand
    <3>1. q # r
      BY <1>1 DEF Working
    <3>2. /\ run'[q] = run[q] /\ run[q].at \in Working \ {"idle"} /\ run[q].id \notin spoiled
          /\ session'[run[q].id] = session[run[q].id] /\ steps'[run[q].id] = steps[run[q].id]
      BY <1>1, <1>5, <2>3, <3>1, OthersInHand DEF Working
    <3> QED
      BY <1>5, <3>2 DEF FilesInv, InHand, Holds
  <2> QED
    BY <1>2, <2>2, <2>4 DEF FilesInv
<1> QED
  BY <1>3, <1>4, <1>5 DEF Crash, files

(* The pruner has no session open. *)
LEMMA PruneKeeps ==
  ASSUME FilesInv, NEW r \in Runs, Prune(r) \/ TargetsRemoved(r)
  PROVE  FilesInv'
<1> USE JournalBounds
<1>0. DOMAIN run = Runs /\ DOMAIN run[r] = RunField
      /\ run[r].count \in 0..MaxSteps /\ run[r].step \in 0..MaxAppends
  BY DEF FilesInv, RunShape
<1>1. /\ DOMAIN run' = Runs /\ \A q \in Runs \ {r} : run'[q] = run[q]
      /\ DOMAIN run'[r] = RunField /\ run'[r].at \in {"pruning", "pruned"}
      /\ run'[r].count \in 0..MaxSteps /\ run'[r].step \in 0..MaxAppends
  <2>1. CASE Prune(r)
    BY <1>0, <2>1 DEF Prune, Off, RunField
  <2>2. CASE TargetsRemoved(r)
    BY <1>0, <2>2 DEF TargetsRemoved, RunField
  <2> QED
    BY <2>1, <2>2
<1>2. RunShape' /\ Exclusive'
  BY <1>1, JournalBounds, RunLeaves
<1>3. InHand'
  BY <1>1, OthersKeep DEF Holds, Prune, TargetsRemoved, files, Working
<1>4. FileShape' /\ CountedAreWritten' /\ AckedAreCounted'
  BY FilesAlone DEF FilesInv, FileShape, Prune, TargetsRemoved, files
<1> QED
  BY <1>2, <1>3, <1>4 DEF FilesInv

LEMMA RemoveTargetKeeps ==
  ASSUME FilesInv, NEW r \in Runs, NEW s \in Sessions, RemoveTarget(r, s)
  PROVE  FilesInv'
<1> USE JournalBounds
<1>1. RunShape' /\ Exclusive'
  BY DEF FilesInv, RunShape, Exclusive, RemoveTarget
<1>2. /\ \A t \in Sessions \ {s} : steps'[t] = steps[t] /\ session'[t] = session[t]
      /\ steps' \in [Sessions -> [1..MaxSteps -> Torn..MaxAppends]]
  BY DEF FilesInv, FileShape, RemoveTarget, Torn, Absent
<1>3. FileShape' /\ CountedAreWritten' /\ AckedAreCounted'
  BY <1>2, SpoiledKeeps DEF RemoveTarget
<1>4. InHand'
  <2> SUFFICES ASSUME NEW q \in Runs, run'[q].at \in Working \ {"idle"},
                      run'[q].id \notin spoiled'
               PROVE  Holds(q)'
    BY DEF InHand
  <2>1. run' = run /\ run[q].id \in Sessions \ {s} /\ run[q].id \notin spoiled
    BY DEF RemoveTarget, FilesInv, RunShape
  <2>2. Holds(q)
    BY <2>1 DEF FilesInv, InHand
  <2> QED
    BY <1>2, <2>1, <2>2 DEF Holds
<1> QED
  BY <1>1, <1>3, <1>4 DEF FilesInv

-----------------------------------------------------------------------------
LEMMA FilesNext == FilesInv /\ [Next]_vars => FilesInv'
<1> SUFFICES ASSUME FilesInv, [Next]_vars PROVE FilesInv'
  OBVIOUS
<1>1. ASSUME NEW r \in Runs, NEW s \in Sessions, OpenSession(r, s) PROVE FilesInv'
  BY <1>1, OpenSessionKeeps
<1>2. ASSUME NEW r \in Runs, NEW s \in Sessions, RemoveTarget(r, s) PROVE FilesInv'
  BY <1>2, RemoveTargetKeeps
<1>3. ASSUME NEW r \in Runs, MakeDirectory(r) PROVE FilesInv'
  BY <1>3, MakeDirectoryKeeps
<1>4. ASSUME NEW r \in Runs, AppendStep(r) PROVE FilesInv'
  BY <1>4, AppendStepKeeps
<1>5. ASSUME NEW r \in Runs, SetStatus(r) PROVE FilesInv'
  BY <1>5, SetStatusKeeps
<1>6. ASSUME NEW r \in Runs, StepWritten(r) PROVE FilesInv'
  BY <1>6, StepWrittenKeeps
<1>7. ASSUME NEW r \in Runs, SessionWritten(r) PROVE FilesInv'
  BY <1>7, SessionWrittenKeeps
<1>8. ASSUME NEW r \in Runs, ReadIndex(r) PROVE FilesInv'
  BY <1>8, ReadIndexKeeps
<1>9. ASSUME NEW r \in Runs, IndexWritten(r) PROVE FilesInv'
  BY <1>9, IndexWrittenKeeps
<1>10. ASSUME NEW r \in Runs, Exit(r) \/ PrunedIndexWritten(r) PROVE FilesInv'
  BY <1>10, EndedKeeps DEF Exit, PrunedIndexWritten, files
<1>11. ASSUME NEW r \in Runs, Crash(r) PROVE FilesInv'
  BY <1>11, CrashKeeps
<1>12. ASSUME NEW r \in Runs, Prune(r) \/ TargetsRemoved(r) PROVE FilesInv'
  BY <1>12, PruneKeeps
<1>13. CASE UNCHANGED vars
  BY <1>13 DEF vars, files, FilesInv, RunShape, FileShape, Exclusive, InHand, Holds,
               CountedAreWritten, AckedAreCounted
<1> QED
  BY <1>1, <1>2, <1>3, <1>4, <1>5, <1>6, <1>7, <1>8, <1>9, <1>10, <1>11, <1>12, <1>13 DEF Next

(* Whatever order the writes of a step, a session and an index come in,    *)
(* what the files hold is as FilesInv says.                                *)
THEOREM JournalFiles == Spec => []FilesInv
<1> QED
  BY FilesInit, FilesNext, PTL DEF Spec

(* What a session counts is there to be read, after any crashes of any     *)
(* runs: appendStep writes the step before the session that counts it.     *)
THEOREM JournalCountedAreWritten == Spec => []CountedAreWritten
<1>1. FilesInv => CountedAreWritten
  BY DEF FilesInv
<1> QED
  BY <1>1, JournalFiles, PTL

(* A step whose append returned is never overwritten: a later run counts   *)
(* on from the session file, and that counts every such step.              *)
THEOREM JournalAckedStepsKept == Spec => []AckedStepsKept
<1>1. FilesInv => AckedStepsKept
  <2> SUFFICES ASSUME FilesInv, NEW s \in Sessions \ spoiled, NEW e \in acked[s]
               PROVE  \E k \in 1..MaxSteps : steps[s][k] = e
    BY DEF AckedStepsKept
  <2>1. PICK k \in 1..session[s].steps : steps[s][k] = e
    BY DEF FilesInv, AckedAreCounted
  <2>2. session[s].steps \in 0..MaxSteps
    BY DEF FilesInv, FileShape
  <2> QED
    BY <2>1, <2>2, JournalBounds
<1> QED
  BY <1>1, JournalFiles, PTL

-----------------------------------------------------------------------------
(* One row for each session. *)
OneRowEach(rows) ==
  \A i, j \in DOMAIN rows : rows[i].id = rows[j].id => i = j

(* What RowsOfOthers computes of the first i rows. *)
KeptStep(kept, rows, id, i) ==
  IF i = 0 THEN <<>>
  ELSE IF rows[i].id = id THEN kept[i - 1] ELSE Append(kept[i - 1], rows[i])

IsKept(f, rows, id, n) == f = [i \in 0..n |-> KeptStep(f, rows, id, i)]

(* The recursive function is one: for any number of rows, there is what    *)
(* its definition says.                                                    *)
LEMMA KeptExists ==
  ASSUME NEW rows, NEW id
  PROVE  \A n \in Nat : \E f : IsKept(f, rows, id, n)
<1> DEFINE S == {n \in Nat : \E f : IsKept(f, rows, id, n)}
<1>1. 0 \in S
  <2>1. IsKept([i \in 0..0 |-> <<>>], rows, id, 0)
    BY DEF IsKept, KeptStep
  <2>2. QED
    BY <2>1
<1>2. ASSUME NEW n \in Nat, n \in S
      PROVE  n + 1 \in S
  <2>1. PICK f : IsKept(f, rows, id, n)
    BY <1>2
  <2> DEFINE g == [i \in 0..(n + 1) |-> IF i <= n THEN f[i] ELSE KeptStep(f, rows, id, i)]
  <2>2. \A i \in 0..(n + 1) : KeptStep(g, rows, id, i) = KeptStep(f, rows, id, i)
    BY DEF KeptStep
  <2>3. \A i \in 0..n : f[i] = KeptStep(f, rows, id, i)
    BY <2>1 DEF IsKept
  <2>4. IsKept(g, rows, id, n + 1)
    BY <2>2, <2>3 DEF IsKept
  <2>5. QED
    BY <2>4
<1> HIDE DEF S
<1>3. \A n \in Nat : n \in S
  BY <1>1, <1>2, SetInduction
<1>4. QED
  BY <1>3 DEF S

(* RowsOfOthers holds rows of the index, none of them of the session, and  *)
(* no two of one session if the index has none.                            *)
LEMMA RowsOfOthersAre ==
  ASSUME NEW rows \in Seq(Row), NEW id
  PROVE  LET others == RowsOfOthers(rows, id)
         IN /\ others \in Seq(Row)
            /\ \A k \in DOMAIN others :
                 others[k].id # id /\ \E j \in DOMAIN rows : others[k] = rows[j]
            /\ OneRowEach(rows) => OneRowEach(others)
<1>0. Len(rows) \in Nat
  OBVIOUS
<1>1. \E f : IsKept(f, rows, id, Len(rows))
  BY <1>0, KeptExists
<1> DEFINE kept == CHOOSE f : f = [i \in 0..Len(rows) |-> KeptStep(f, rows, id, i)]
<1>2. IsKept(kept, rows, id, Len(rows))
  BY <1>1 DEF IsKept
<1>3. RowsOfOthers(rows, id) = kept[Len(rows)]
  BY DEF RowsOfOthers, KeptStep
<1> HIDE DEF kept
<1>4. \A i \in 0..Len(rows) : kept[i] = KeptStep(kept, rows, id, i)
  BY <1>2 DEF IsKept
<1>5. kept[0] = <<>>
  BY <1>0, <1>4 DEF KeptStep
<1>6. ASSUME NEW i \in 0..(Len(rows) - 1)
      PROVE  kept[i + 1] = IF rows[i + 1].id = id THEN kept[i]
                                                  ELSE Append(kept[i], rows[i + 1])
  <2>1. i + 1 \in 0..Len(rows) /\ i + 1 # 0 /\ (i + 1) - 1 = i
    BY <1>0
  <2>2. kept[i + 1] = KeptStep(kept, rows, id, i + 1)
    BY <1>4, <2>1
  <2>3. QED
    BY <2>1, <2>2 DEF KeptStep
<1> DEFINE Good(s, i) ==
             /\ s \in Seq(Row)
             /\ \A k \in DOMAIN s : s[k].id # id /\ \E j \in 1..i : s[k] = rows[j]
             /\ OneRowEach(rows) => OneRowEach(s)
           Done == {i \in Nat : i <= Len(rows) => Good(kept[i], i)}
<1>7. 0 \in Done
  <2>1. <<>> \in Seq(Row) /\ DOMAIN <<>> = {}
    OBVIOUS
  <2>2. Good(<<>>, 0)
    BY <2>1 DEF OneRowEach
  <2> HIDE DEF Good
  <2>3. QED
    BY <1>5, <2>2
<1>8. ASSUME NEW i \in Nat, i \in Done
      PROVE  i + 1 \in Done
  <2> SUFFICES ASSUME i + 1 <= Len(rows)
               PROVE  Good(kept[i + 1], i + 1)
    BY <1>0
  <2>0. i \in 0..(Len(rows) - 1) /\ i + 1 \in DOMAIN rows
    BY <1>0
  <2>1. Good(kept[i], i)
    BY <1>0, <1>8
  <2>2. CASE rows[i + 1].id = id
    BY <2>0, <2>1, <2>2, <1>6
  <2>3. CASE rows[i + 1].id # id
    <3> DEFINE s == kept[i]
               t == Append(s, rows[i + 1])
    <3>1. kept[i + 1] = t
      BY <2>0, <2>3, <1>6
    <3>2. rows[i + 1] \in Row /\ s \in Seq(Row)
      BY <2>0, <2>1
    <3> HIDE DEF s
    <3>3. /\ t \in Seq(Row) /\ DOMAIN t = 1..(Len(s) + 1) /\ DOMAIN s = 1..Len(s)
          /\ Len(s) \in Nat
          /\ \A k \in 1..Len(s) : t[k] = s[k]
          /\ t[Len(s) + 1] = rows[i + 1]
      BY <3>2
    <3>4. \A k \in DOMAIN s : s[k].id # id /\ \E j \in 1..i : s[k] = rows[j]
      BY <2>1 DEF s
    <3>5. \A k \in DOMAIN t : t[k].id # id /\ \E j \in 1..(i + 1) : t[k] = rows[j]
      BY <2>0, <3>3, <3>4, <2>3
    <3>6. ASSUME OneRowEach(rows)
          PROVE  OneRowEach(t)
      <4>1. OneRowEach(s)
        BY <2>1, <3>6 DEF s
      <4>2. \A k \in DOMAIN s : s[k].id # rows[i + 1].id
        <5>1. ASSUME NEW k \in DOMAIN s, s[k].id = rows[i + 1].id
              PROVE  FALSE
          <6>1. PICK j \in 1..i : s[k] = rows[j]
            BY <3>4
          <6>2. j \in DOMAIN rows /\ i + 1 \in DOMAIN rows /\ j # i + 1
            BY <1>0, <2>0
          <6>3. QED
            BY <3>6, <5>1, <6>1, <6>2 DEF OneRowEach
        <5>2. QED
          BY <5>1
      <4>3. QED
        BY <4>1, <4>2, <3>3 DEF OneRowEach
    <3>7. QED
      BY <3>1, <3>3, <3>5, <3>6
  <2>4. QED
    BY <2>2, <2>3
<1> HIDE DEF Done
<1>9. \A i \in Nat : i \in Done
  BY <1>7, <1>8, SetInduction
<1>10. Good(kept[Len(rows)], Len(rows))
  BY <1>0, <1>9 DEF Done
<1>11. QED
  BY <1>0, <1>3, <1>10

-----------------------------------------------------------------------------
(* Rows are behind the sessions they count, or of spoiled ones. *)
GoodRows(rows, counts, bad) ==
  /\ rows \in Seq(Row) /\ Len(rows) <= IndexCap
  /\ OneRowEach(rows)
  /\ \A i \in DOMAIN rows : rows[i].id \notin bad => rows[i].steps <= counts[rows[i].id].steps

LEMMA IndexBounds ==
  IndexCap \in Nat /\ IndexCap > 0 /\ Keep \in Nat /\ MaxCrashes \in Nat
  BY JournalAssumption

(* The first rows of good ones are good. *)
LEMMA FirstRowsGood ==
  ASSUME NEW counts, NEW bad, NEW rows, GoodRows(rows, counts, bad), NEW n \in 0..Len(rows)
  PROVE  GoodRows(SubSeq(rows, 1, n), counts, bad)
<1> DEFINE t == SubSeq(rows, 1, n)
<1>0. rows \in Seq(Row) /\ Len(rows) \in Nat /\ DOMAIN rows = 1..Len(rows)
  BY DEF GoodRows
<1>1. t \in Seq(Row) /\ Len(t) = n /\ DOMAIN t = 1..n
  BY <1>0
<1>2. \A k \in 1..n : t[k] = rows[k] /\ k \in DOMAIN rows
  BY <1>0
<1> HIDE DEF t
<1>3. Len(t) <= IndexCap
  BY <1>0, <1>1, IndexBounds DEF GoodRows
<1>4. QED
  BY <1>1, <1>2, <1>3 DEF GoodRows, OneRowEach

(* _updateIndex puts a good row among good ones. *)
LEMMA WithRowGood ==
  ASSUME NEW counts, NEW bad, NEW rows, GoodRows(rows, counts, bad), NEW row \in Row,
         row.id \notin bad => row.steps <= counts[row.id].steps
  PROVE  GoodRows(WithRow(rows, row), counts, bad)
<1> DEFINE others == RowsOfOthers(rows, row.id)
           all == <<row>> \o others
           n == IF Len(all) < IndexCap THEN Len(all) ELSE IndexCap
           t == SubSeq(all, 1, n)
<1>0. rows \in Seq(Row)
  BY DEF GoodRows
<1>1. /\ others \in Seq(Row) /\ OneRowEach(others)
      /\ \A k \in DOMAIN others :
           others[k].id # row.id /\ \E j \in DOMAIN rows : others[k] = rows[j]
  BY <1>0, RowsOfOthersAre DEF GoodRows
<1>2. \A k \in DOMAIN others :
        others[k].id \notin bad => others[k].steps <= counts[others[k].id].steps
  BY <1>1 DEF GoodRows
<1>3. WithRow(rows, row) = t
  BY DEF WithRow
<1> HIDE DEF others
<1>4. /\ all \in Seq(Row) /\ Len(others) \in Nat /\ Len(all) = Len(others) + 1
      /\ DOMAIN others = 1..Len(others)
      /\ all[1] = row /\ \A k \in 2..Len(all) : all[k] = others[k - 1] /\ k - 1 \in DOMAIN others
  BY <1>1
<1> HIDE DEF all
<1>5. n \in 0..Len(all) /\ n <= IndexCap
  BY <1>4, IndexBounds
<1> HIDE DEF n
<1>6. t \in Seq(Row) /\ Len(t) = n /\ DOMAIN t = 1..n /\ \A k \in 1..n : t[k] = all[k]
  BY <1>4, <1>5
<1> HIDE DEF t
<1>7. \A k \in 1..n : \/ t[k] = row /\ k = 1
                      \/ k - 1 \in DOMAIN others /\ t[k] = others[k - 1]
  <2> SUFFICES ASSUME NEW k \in 1..n
               PROVE  \/ t[k] = row /\ k = 1
                      \/ k - 1 \in DOMAIN others /\ t[k] = others[k - 1]
    OBVIOUS
  <2>1. t[k] = all[k] /\ (k = 1 \/ k \in 2..Len(all))
    BY <1>4, <1>5, <1>6
  <2>2. QED
    BY <1>4, <2>1
<1>8. OneRowEach(t)
  <2> SUFFICES ASSUME NEW i \in 1..n, NEW j \in 1..n, t[i].id = t[j].id
               PROVE  i = j
    BY <1>6 DEF OneRowEach
  <2>1. n \in Nat
    BY <1>4, <1>5
  <2>2. QED
    BY <2>1, <1>1, <1>7 DEF OneRowEach
<1>9. \A i \in DOMAIN t : t[i].id \notin bad => t[i].steps <= counts[t[i].id].steps
  BY <1>2, <1>6, <1>7
<1>10. QED
  BY <1>3, <1>5, <1>6, <1>8, <1>9 DEF GoodRows

RunRecord == [at : Place, id : Sessions \cup {None}, count : 0..MaxSteps,
              step : 0..MaxAppends, rows : Seq(Row), default : Seq(Row)]

GoodRun(p, counts, bad) ==
  /\ p \in RunRecord
  /\ GoodRows(p.rows, counts, bad) /\ GoodRows(p.default, counts, bad)
  /\ p.at = "pruning" => Keep <= Len(p.rows)
  /\ p.at = "read" /\ p.id \notin bad => p.count <= counts[p.id].steps

RowsInv ==
  /\ run \in [Runs -> RunRecord]
  /\ \A r \in Runs : GoodRun(run[r], session, spoiled)
  /\ index.whole \in BOOLEAN /\ GoodRows(index.rows, session, spoiled)
  /\ dirs \subseteq Sessions /\ spoiled \subseteq Sessions /\ crashes \in 0..MaxCrashes

JournalInv == FilesInv /\ RowsInv

LEMMA NoRows ==
  \A counts, bad : GoodRows(<<>>, counts, bad)
<1>1. <<>> \in Seq(Row) /\ Len(<<>>) = 0 /\ DOMAIN <<>> = {}
  OBVIOUS
<1>2. QED
  BY <1>1, IndexBounds DEF GoodRows, OneRowEach

LEMMA OffIsGood ==
  \A counts, bad : GoodRun(Off, counts, bad)
<1>1. <<>> \in Seq(Row)
  OBVIOUS
<1>2. Off \in RunRecord
  BY <1>1, JournalBounds DEF Off, RunRecord, Place
<1>3. QED
  BY <1>2, NoRows DEF GoodRun, Off

LEMMA JournalInit == Init => JournalInv
<1> SUFFICES ASSUME Init PROVE JournalInv
  OBVIOUS
<1>1. run = [r \in Runs |-> Off] /\ Off \in RunRecord
  BY OffIsGood DEF Init, GoodRun
<1>2. \A r \in Runs : GoodRun(run[r], session, spoiled)
  BY <1>1, OffIsGood
<1>3. QED
  BY <1>1, <1>2, FilesInit, NoRows, IndexBounds DEF Init, JournalInv, RowsInv

(* A step leaves what a session counts, or counts one more, or spoils it. *)
SessionsGrow ==
  /\ spoiled \subseteq spoiled'
  /\ \A s \in Sessions \ spoiled' : session[s].steps <= session'[s].steps

LEMMA SessionsOnlyGrow ==
  ASSUME FilesInv, [Next]_vars
  PROVE  SessionsGrow
<1>0. session \in [Sessions -> [whole : BOOLEAN, steps : 0..MaxSteps]]
  BY DEF FilesInv, FileShape
<1>1. ASSUME UNCHANGED <<session, spoiled>>
      PROVE  SessionsGrow
  <2>1. \A s \in Sessions : session[s].steps \in 0..MaxSteps
    BY <1>0
  <2>2. QED
    BY <1>1, <2>1, JournalBounds DEF SessionsGrow
<1>2. ASSUME NEW s \in Sessions, session' = [session EXCEPT ![s] = NoSession],
             spoiled' = spoiled \cup {s}
      PROVE  SessionsGrow
  BY <1>0, <1>2, JournalBounds DEF SessionsGrow
<1>3. ASSUME NEW r \in Runs, SessionWritten(r)
      PROVE  SessionsGrow
  <2>1. CASE UNCHANGED session
    BY <1>1, <1>3, <2>1 DEF SessionWritten
  <2>2. CASE session' = [session EXCEPT ![run[r].id] = [whole |-> TRUE, steps |-> run[r].count]]
    <3>1. run[r].id \in Sessions /\ run[r].at = "session" /\ run[r].count \in 0..MaxSteps
      BY <1>3 DEF SessionWritten, FilesInv, RunShape, Working
    <3>2. run[r].id \notin spoiled => session[run[r].id].steps <= run[r].count
      BY <1>0, <3>1, JournalBounds DEF FilesInv, InHand, Holds, Working
    <3>3. spoiled' = spoiled
      BY <1>3 DEF SessionWritten
    <3>4. session'[run[r].id].steps = run[r].count
          /\ \A s \in Sessions \ {run[r].id} : session'[s] = session[s]
      BY <1>0, <2>2, <3>1
    <3>5. \A s \in Sessions : session[s].steps \in 0..MaxSteps
      BY <1>0
    <3>6. QED
      BY <3>2, <3>3, <3>4, <3>5, JournalBounds DEF SessionsGrow
  <2>3. QED
    BY <1>3, <2>1, <2>2 DEF SessionWritten
<1>4. ASSUME NEW r \in Runs, Crash(r)
      PROVE  SessionsGrow
  <2>1. CASE UNCHANGED <<session, spoiled>>
    BY <1>1, <2>1
  <2>2. CASE /\ run[r].at = "session"
             /\ session' = [session EXCEPT ![run[r].id] = NoSession]
             /\ spoiled' = spoiled \cup {run[r].id}
    <3>1. run[r].id \in Sessions
      BY <2>2 DEF FilesInv, RunShape, Working
    <3>2. QED
      BY <1>2, <2>2, <3>1
  <2>3. QED
    BY <1>4, <2>1, <2>2 DEF Crash, files
<1>5. ASSUME NEW r \in Runs, NEW s \in Sessions, RemoveTarget(r, s)
      PROVE  SessionsGrow
  BY <1>2, <1>5 DEF RemoveTarget
<1>6. QED
  BY <1>1, <1>3, <1>4, <1>5
     DEF Next, vars, files, OpenSession, MakeDirectory, AppendStep, SetStatus, StepWritten,
         ReadIndex, IndexWritten, Exit, Prune, TargetsRemoved, PrunedIndexWritten

(* What was behind the sessions stays so. *)
LEMMA RowsStayGood ==
  ASSUME FilesInv, FilesInv', SessionsGrow
  PROVE  \A rows : GoodRows(rows, session, spoiled) => GoodRows(rows, session', spoiled')
<1> SUFFICES ASSUME NEW rows, GoodRows(rows, session, spoiled)
             PROVE  GoodRows(rows, session', spoiled')
  OBVIOUS
<1>1. /\ \A s \in Sessions : session[s].steps \in 0..MaxSteps
      /\ \A s \in Sessions : session'[s].steps \in 0..MaxSteps
  BY DEF FilesInv, FileShape
<1>2. \A i \in DOMAIN rows : rows[i].id \in Sessions /\ rows[i].steps \in 0..MaxSteps
  <2>1. \A i \in DOMAIN rows : rows[i] \in Row
    BY DEF GoodRows
  <2>2. QED
    BY <2>1 DEF Row
<1>3. ASSUME NEW i \in DOMAIN rows, rows[i].id \notin spoiled'
      PROVE  rows[i].steps <= session'[rows[i].id].steps
  <2>1. rows[i].id \in Sessions \ spoiled' /\ rows[i].id \notin spoiled
    BY <1>2, <1>3 DEF SessionsGrow
  <2>2. rows[i].steps <= session[rows[i].id].steps
    BY <2>1 DEF GoodRows
  <2>3. session[rows[i].id].steps <= session'[rows[i].id].steps
    BY <2>1 DEF SessionsGrow
  <2>4. QED
    BY <1>1, <1>2, <2>1, <2>2, <2>3, JournalBounds
<1>4. QED
  BY <1>3 DEF GoodRows

LEMMA RunsStayGood ==
  ASSUME FilesInv, FilesInv', RowsInv, SessionsGrow,
         NEW r \in Runs, GoodRun(run[r], session, spoiled), run[r].at = "read" => run[r].id \in Sessions
  PROVE  GoodRun(run[r], session', spoiled')
<1>1. run[r].count \in 0..MaxSteps
  BY DEF GoodRun, RunRecord
<1>2. run[r].at = "read" =>
         session[run[r].id].steps \in 0..MaxSteps /\ session'[run[r].id].steps \in 0..MaxSteps
  BY DEF FilesInv, FileShape
<1>3. run[r].at = "read" /\ run[r].id \notin spoiled' => run[r].count <= session'[run[r].id].steps
  BY <1>1, <1>2, JournalBounds DEF GoodRun, SessionsGrow
<1>4. QED
  BY <1>3, RowsStayGood DEF GoodRun

-----------------------------------------------------------------------------
(* A step of one run, that leaves it good, keeps all of them good. *)
LEMMA OneRunSteps ==
  ASSUME JournalInv, FilesInv', SessionsGrow, NEW r \in Runs, NEW p,
         run' = [run EXCEPT ![r] = p], GoodRun(p, session', spoiled')
  PROVE  /\ run' \in [Runs -> RunRecord]
         /\ \A q \in Runs : GoodRun(run'[q], session', spoiled')
<1>1. p \in RunRecord /\ run \in [Runs -> RunRecord]
  BY DEF GoodRun, JournalInv, RowsInv
<1>2. run' \in [Runs -> RunRecord] /\ run'[r] = p /\ \A q \in Runs \ {r} : run'[q] = run[q]
  BY <1>1
<1>3. ASSUME NEW q \in Runs \ {r}
      PROVE  GoodRun(run[q], session', spoiled')
  <2>1. run[q].at = "read" => run[q].id \in Sessions
    BY DEF JournalInv, FilesInv, RunShape, Working
  <2>2. QED
    BY <2>1, RunsStayGood DEF JournalInv, RowsInv
<1>4. QED
  BY <1>2, <1>3

(* A run that moves on with the rows it had. *)
LEMMA PlainStep ==
  ASSUME JournalInv, FilesInv', SessionsGrow, NEW r \in Runs, NEW at \in Place, NEW id \in Sessions,
         NEW count \in 0..MaxSteps, NEW step \in 0..MaxAppends,
         run' = [run EXCEPT ![r] = [run[r] EXCEPT !.at = at, !.id = id, !.count = count, !.step = step]],
         at # "pruning",
         at = "read" => count = session'[id].steps
  PROVE  /\ run' \in [Runs -> RunRecord]
         /\ \A q \in Runs : GoodRun(run'[q], session', spoiled')
<1> DEFINE p == [run[r] EXCEPT !.at = at, !.id = id, !.count = count, !.step = step]
<1>1. GoodRun(run[r], session, spoiled)
  BY DEF JournalInv, RowsInv
<1>2. p \in RunRecord /\ p.rows = run[r].rows /\ p.default = run[r].default
      /\ p.at = at /\ p.id = id /\ p.count = count
  BY <1>1 DEF GoodRun, RunRecord
<1> HIDE DEF p
<1>3. GoodRun(p, session', spoiled')
  BY <1>1, <1>2, RowsStayGood, JournalBounds DEF GoodRun, JournalInv
<1>4. QED
  BY <1>3, OneRunSteps DEF p

(* A step that leaves the index, or writes what a run has in hand. *)
LEMMA IndexStaysGood ==
  ASSUME JournalInv, FilesInv', SessionsGrow,
         UNCHANGED index \/ \E r \in Runs : index' \in IndexLeft(r, run[r].rows)
                        \/ index' = [whole |-> FALSE, rows |-> <<>>]
  PROVE  index'.whole \in BOOLEAN /\ GoodRows(index'.rows, session', spoiled')
<1>1. CASE UNCHANGED index
  BY <1>1, RowsStayGood DEF JournalInv, RowsInv
<1>2. CASE index' = [whole |-> FALSE, rows |-> <<>>]
  BY <1>2, NoRows
<1>3. ASSUME NEW r \in Runs, index' \in IndexLeft(r, run[r].rows)
      PROVE  index'.whole \in BOOLEAN /\ GoodRows(index'.rows, session', spoiled')
  <2>1. \/ index' = [whole |-> FALSE, rows |-> <<>>]
        \/ index' = [whole |-> TRUE, rows |-> run[r].rows]
    BY <1>3 DEF IndexLeft
  <2>2. GoodRows(run[r].rows, session', spoiled')
    BY RowsStayGood DEF JournalInv, RowsInv, GoodRun
  <2>3. QED
    <3>1. CASE index' = [whole |-> TRUE, rows |-> run[r].rows]
      <4>1. index'.whole = TRUE /\ index'.rows = run[r].rows
        BY <3>1
      <4>2. QED
        BY <2>2, <4>1
    <3>2. QED
      BY <1>2, <2>1, <3>1
<1>4. QED
  BY <1>1, <1>2, <1>3

(* Every step keeps the rows behind the sessions, those in the index and  *)
(* those that runs have in hand.                                          *)
LEMMA RowsNext ==
  ASSUME JournalInv, [Next]_vars
  PROVE  RowsInv'
<1>0. FilesInv' /\ SessionsGrow /\ RowsInv /\ FilesInv
  BY FilesNext, SessionsOnlyGrow DEF JournalInv
<1>1. \A r \in Runs : GoodRun(run[r], session, spoiled) /\ run[r] \in RunRecord
  BY <1>0 DEF RowsInv, GoodRun
<1> DEFINE RunsGood == /\ run' \in [Runs -> RunRecord]
                       /\ \A q \in Runs : GoodRun(run'[q], session', spoiled')
           IndexGood == index'.whole \in BOOLEAN /\ GoodRows(index'.rows, session', spoiled')
           RestGood == dirs' \subseteq Sessions /\ spoiled' \subseteq Sessions /\ crashes' \in 0..MaxCrashes
<1>2. ASSUME UNCHANGED run
      PROVE  RunsGood
  <2>1. ASSUME NEW q \in Runs
        PROVE  GoodRun(run[q], session', spoiled')
    <3>1. run[q].at = "read" => run[q].id \in Sessions
      BY <1>0 DEF FilesInv, RunShape, Working
    <3>2. QED
      BY <1>0, <1>1, <3>1, RunsStayGood
  <2>2. QED
    BY <1>0, <1>2, <2>1 DEF RowsInv
<1>3. ASSUME NEW r \in Runs, Ended(r)
      PROVE  RunsGood
  BY <1>0, <1>3, OffIsGood, OneRunSteps DEF Ended
<1>4. ASSUME NEW r \in Runs, NEW s \in Sessions, OpenSession(r, s)
      PROVE  RunsGood
  <2> DEFINE p == [Off EXCEPT !.at = "mkdir", !.id = s, !.count = Count(s)]
  <2>1. Count(s) \in 0..MaxSteps
    BY <1>0, JournalBounds DEF Count, FilesInv, FileShape
  <2>2. Off \in RunRecord /\ Off.rows = <<>> /\ Off.default = <<>>
    BY OffIsGood DEF GoodRun, Off
  <2>3. p \in RunRecord /\ p.at = "mkdir" /\ p.rows = <<>> /\ p.default = <<>>
    BY <2>1, <2>2 DEF RunRecord, Place
  <2>4. run' = [run EXCEPT ![r] = p]
    BY <1>4 DEF OpenSession
  <2> HIDE DEF p
  <2>5. GoodRun(p, session', spoiled')
    BY <2>3, NoRows DEF GoodRun
  <2>6. QED
    BY <1>0, <2>4, <2>5, OneRunSteps
<1>5. ASSUME NEW r \in Runs, MakeDirectory(r)
      PROVE  RunsGood
  <2>1. run[r].id \in Sessions
    BY <1>0, <1>5 DEF MakeDirectory, FilesInv, RunShape, Working
  <2>2. /\ run[r].count \in 0..MaxSteps /\ run[r].step \in 0..MaxAppends
        /\ run' = [run EXCEPT ![r] = [run[r] EXCEPT
               !.at = IF run[r].step = 0 THEN "session" ELSE "step", !.id = run[r].id,
               !.count = run[r].count, !.step = run[r].step]]
    BY <1>0, <1>1, <1>5 DEF MakeDirectory, RowsInv, RunRecord
  <2>3. QED
    BY <1>0, <2>1, <2>2, PlainStep DEF Place
<1>6. ASSUME NEW r \in Runs, AppendStep(r)
      PROVE  RunsGood
  <2>1. run[r].id \in Sessions
    BY <1>0, <1>6 DEF AppendStep, FilesInv, RunShape, Working
  <2>2. session[run[r].id].steps + 1 \in 0..MaxSteps /\ appended' \in 0..MaxAppends
    BY <1>0, <1>6, <2>1, JournalBounds DEF AppendStep, FilesInv, FileShape
  <2>3. run' = [run EXCEPT ![r] = [run[r] EXCEPT !.at = "mkdir", !.id = run[r].id,
                  !.count = session[run[r].id].steps + 1, !.step = appended']]
    BY <1>0, <1>1, <1>6 DEF AppendStep, RowsInv, RunRecord
  <2>4. QED
    BY <1>0, <2>1, <2>2, <2>3, PlainStep DEF Place
<1>7. ASSUME NEW r \in Runs, SetStatus(r)
      PROVE  RunsGood
  <2>1. run[r].id \in Sessions
    BY <1>0, <1>7 DEF SetStatus, FilesInv, RunShape, Working
  <2>2. session[run[r].id].steps \in 0..MaxSteps /\ 0 \in 0..MaxAppends
    BY <1>0, <2>1, JournalBounds DEF FilesInv, FileShape
  <2>3. run' = [run EXCEPT ![r] = [run[r] EXCEPT !.at = "session", !.id = run[r].id,
                  !.count = session[run[r].id].steps, !.step = 0]]
    BY <1>0, <1>1, <1>7 DEF SetStatus, RowsInv, RunRecord
  <2>4. QED
    BY <1>0, <2>1, <2>2, <2>3, PlainStep DEF Place
<1>8. ASSUME NEW r \in Runs, StepWritten(r)
      PROVE  RunsGood
  <2>1. run[r].id \in Sessions
    BY <1>0, <1>8 DEF StepWritten, FilesInv, RunShape, Working
  <2>2. CASE run' = [run EXCEPT ![r].at = "session"]
    <3>1. /\ run[r].count \in 0..MaxSteps /\ run[r].step \in 0..MaxAppends
          /\ run' = [run EXCEPT ![r] = [run[r] EXCEPT !.at = "session", !.id = run[r].id,
                 !.count = run[r].count, !.step = run[r].step]]
      BY <1>0, <1>1, <2>2 DEF RowsInv, RunRecord
    <3>2. QED
      BY <1>0, <2>1, <3>1, PlainStep DEF Place
  <2>3. QED
    BY <1>3, <1>8, <2>2 DEF StepWritten
<1>9. ASSUME NEW r \in Runs, SessionWritten(r)
      PROVE  RunsGood
  <2>1. run[r].id \in Sessions
    BY <1>0, <1>9 DEF SessionWritten, FilesInv, RunShape, Working
  <2>2. CASE /\ run' = [run EXCEPT ![r].at = "read"]
             /\ session' = [session EXCEPT ![run[r].id] = [whole |-> TRUE, steps |-> run[r].count]]
    <3>1. /\ run[r].count \in 0..MaxSteps /\ run[r].step \in 0..MaxAppends
          /\ run' = [run EXCEPT ![r] = [run[r] EXCEPT !.at = "read", !.id = run[r].id,
                 !.count = run[r].count, !.step = run[r].step]]
      BY <1>0, <1>1, <2>2 DEF RowsInv, RunRecord
    <3>2. run[r].count = session'[run[r].id].steps
      BY <1>0, <2>1, <2>2 DEF FilesInv, FileShape
    <3>3. QED
      BY <1>0, <2>1, <3>1, <3>2, PlainStep DEF Place
  <2>3. QED
    BY <1>3, <1>9, <2>2 DEF SessionWritten
<1>10. ASSUME NEW r \in Runs, ReadIndex(r)
       PROVE  RunsGood
  <2> DEFINE row == [id |-> run[r].id, steps |-> run[r].count]
             p(rows, default) == [run[r] EXCEPT !.at = "index", !.rows = rows, !.default = default]
  <2>1. /\ run[r].at = "read" /\ run[r].id \in Sessions /\ run[r].count \in 0..MaxSteps
        /\ UNCHANGED <<session, spoiled>>
    BY <1>0, <1>10 DEF ReadIndex, FilesInv, RunShape, Working, files
  <2>2. row \in Row /\ (row.id \notin spoiled => row.steps <= session[row.id].steps)
    BY <1>1, <2>1 DEF Row, GoodRun
  <2>3. \/ run' = [run EXCEPT ![r] = p(WithRow(index.rows, row), run[r].default)]
        \/ run' = [run EXCEPT ![r] = p(WithRow(run[r].default, row), WithRow(run[r].default, row))]
    <3>1. \/ run' = [run EXCEPT ![r].at = "index", ![r].rows = WithRow(index.rows, row)]
          \/ run' = [run EXCEPT ![r].at = "index", ![r].rows = WithRow(run[r].default, row),
                                ![r].default = WithRow(run[r].default, row)]
      BY <1>10 DEF ReadIndex
    <3> HIDE DEF row
    <3>2. QED
      BY <1>0, <1>1, <3>1 DEF RowsInv, RunRecord
  <2> HIDE DEF row
  <2>4. /\ GoodRows(index.rows, session, spoiled)
        /\ GoodRows(run[r].default, session, spoiled)
    BY <1>0, <1>1 DEF RowsInv, GoodRun
  <2>5. /\ GoodRows(WithRow(index.rows, row), session, spoiled)
        /\ GoodRows(WithRow(run[r].default, row), session, spoiled)
    BY <2>2, <2>4, WithRowGood
  <2>6. ASSUME NEW rows, NEW default, GoodRows(rows, session, spoiled),
               GoodRows(default, session, spoiled), run' = [run EXCEPT ![r] = p(rows, default)]
        PROVE  RunsGood
    <3>1. rows \in Seq(Row) /\ default \in Seq(Row)
      BY <2>6 DEF GoodRows
    <3>2. /\ p(rows, default) \in RunRecord /\ p(rows, default).at = "index"
          /\ p(rows, default).rows = rows /\ p(rows, default).default = default
      BY <1>1, <3>1 DEF RunRecord, Place
    <3>3. GoodRun(p(rows, default), session', spoiled')
      BY <2>1, <2>6, <3>2 DEF GoodRun
    <3> HIDE DEF p
    <3>4. QED
      BY <1>0, <2>6, <3>3, OneRunSteps
  <2> HIDE DEF p
  <2>7. QED
    BY <2>3, <2>4, <2>5, <2>6
<1>11. ASSUME NEW r \in Runs, IndexWritten(r)
       PROVE  RunsGood
  <2> DEFINE p == [run[r] EXCEPT !.at = "idle", !.count = 0, !.step = 0, !.rows = <<>>]
  <2>1. <<>> \in Seq(Row)
    OBVIOUS
  <2>2. p \in RunRecord /\ p.at = "idle" /\ p.rows = <<>> /\ p.default = run[r].default
    <3>1. ASSUME NEW e, e \in Seq(Row), NEW z, z \in 0..MaxSteps, z \in 0..MaxAppends,
                 NEW q, q = [run[r] EXCEPT !.at = "idle", !.count = z, !.step = z, !.rows = e]
          PROVE  q \in RunRecord /\ q.at = "idle" /\ q.rows = e /\ q.default = run[r].default
      BY <1>1, <3>1 DEF RunRecord, Place
    <3>2. 0 \in 0..MaxSteps /\ 0 \in 0..MaxAppends
      BY JournalBounds
    <3>3. QED
      BY <2>1, <3>1, <3>2
  <2>3. run' = [run EXCEPT ![r] = p]
    BY <1>0, <1>11 DEF IndexWritten, RowsInv
  <2> HIDE DEF p
  <2>4. GoodRun(p, session', spoiled')
    BY <1>0, <1>1, <2>2, NoRows, RowsStayGood DEF GoodRun
  <2>5. QED
    BY <1>0, <2>3, <2>4, OneRunSteps
<1>12. ASSUME NEW r \in Runs, Prune(r)
       PROVE  RunsGood
  <2> DEFINE p == [Off EXCEPT !.at = "pruning", !.rows = index.rows]
  <2>1. index.rows \in Seq(Row) /\ Len(index.rows) > Keep /\ Len(index.rows) \in Nat
    BY <1>0, <1>12 DEF Prune, RowsInv, GoodRows
  <2>2. Off \in RunRecord /\ Off.default = <<>>
    BY OffIsGood DEF GoodRun, Off
  <2>3. p \in RunRecord /\ p.at = "pruning" /\ p.rows = index.rows /\ p.default = <<>>
    BY <2>1, <2>2 DEF RunRecord, Place
  <2>4. run' = [run EXCEPT ![r] = p]
    BY <1>12 DEF Prune
  <2> HIDE DEF p
  <2>5. GoodRun(p, session', spoiled')
    BY <1>0, <2>1, <2>3, NoRows, RowsStayGood, IndexBounds DEF GoodRun, RowsInv
  <2>6. QED
    BY <1>0, <2>4, <2>5, OneRunSteps
<1>13. ASSUME NEW r \in Runs, TargetsRemoved(r)
       PROVE  RunsGood
  <2> DEFINE rest == SubSeq(run[r].rows, 1, Keep)
             p == [run[r] EXCEPT !.at = "pruned", !.rows = rest]
  <2>1. Keep \in 0..Len(run[r].rows)
    BY <1>1, <1>13, IndexBounds DEF TargetsRemoved, GoodRun, RunRecord
  <2>2. GoodRows(rest, session, spoiled)
    BY <1>1, <2>1, FirstRowsGood DEF GoodRun
  <2>3. rest \in Seq(Row)
    BY <2>2 DEF GoodRows
  <2> HIDE DEF rest
  <2>4. p \in RunRecord /\ p.at = "pruned" /\ p.rows = rest /\ p.default = run[r].default
    BY <1>1, <2>3 DEF RunRecord, Place
  <2>5. run' = [run EXCEPT ![r] = p]
    BY <1>0, <1>13 DEF TargetsRemoved, RowsInv, rest
  <2> HIDE DEF p
  <2>6. GoodRun(p, session', spoiled')
    BY <1>0, <1>1, <2>2, <2>4, RowsStayGood DEF GoodRun
  <2>7. QED
    BY <1>0, <2>5, <2>6, OneRunSteps
<1>14. RunsGood
  <2> HIDE DEF RunsGood
  <2>1. QED
    BY <1>2, <1>3, <1>4, <1>5, <1>6, <1>7, <1>8, <1>9, <1>10, <1>11, <1>12, <1>13
       DEF Next, vars, RemoveTarget, Exit, Crash, PrunedIndexWritten
<1>15. IndexGood
  <2>1. \/ UNCHANGED index
        \/ \E r \in Runs : \/ index' \in IndexLeft(r, run[r].rows)
                          \/ index' = [whole |-> FALSE, rows |-> <<>>]
    BY DEF Next, vars, files, OpenSession, RemoveTarget, MakeDirectory, AppendStep, SetStatus,
           StepWritten, SessionWritten, ReadIndex, IndexWritten, Exit, Crash, Prune,
           TargetsRemoved, PrunedIndexWritten
  <2>2. QED
    BY <1>0, <2>1, IndexStaysGood
<1>16. RestGood
  <2>1. ASSUME NEW r \in Runs, MakeDirectory(r)
        PROVE  run[r].id \in Sessions
    BY <1>0, <2>1 DEF MakeDirectory, FilesInv, RunShape, Working
  <2>2. ASSUME NEW r \in Runs, Crash(r)
        PROVE  dirs' = dirs /\ spoiled' \subseteq Sessions /\ crashes' \in 0..MaxCrashes
    <3>1. run[r].at = "session" => run[r].id \in Sessions
      BY <1>0 DEF FilesInv, RunShape, Working
    <3>2. QED
      BY <1>0, <2>2, <3>1, IndexBounds DEF Crash, files, RowsInv
  <2>3. QED
    BY <1>0, <2>1, <2>2
       DEF RowsInv, Next, vars, files, OpenSession, RemoveTarget, MakeDirectory, AppendStep,
           SetStatus, StepWritten, SessionWritten, ReadIndex, IndexWritten, Exit, Prune,
           TargetsRemoved, PrunedIndexWritten
<1>17. QED
  BY <1>14, <1>15, <1>16 DEF RowsInv

(* The files, the index and what runs have in hand of it agree, in every   *)
(* state there is.                                                         *)
THEOREM JournalRows == Spec => []JournalInv
<1>1. JournalInv /\ [Next]_vars => JournalInv'
  BY FilesNext, RowsNext DEF JournalInv
<1> QED
  BY <1>1, JournalInit, PTL DEF Spec

(* Every variable has its type, and the index no more than its cap. *)
THEOREM JournalTypeCorrect == Spec => []TypeOK
<1>1. JournalInv => TypeOK
  BY DEF JournalInv, RowsInv, FilesInv, FileShape, RunRecord, GoodRows, TypeOK
<1> QED
  BY <1>1, JournalRows, PTL

(* The index never has more steps of a session than the session's file     *)
(* counts, whatever the order in which runs and the pruner write it back,  *)
(* and never two rows of one session.                                      *)
THEOREM JournalIndexNeverLeads == Spec => []IndexNeverLeads
<1>1. JournalInv => IndexNeverLeads
  <2> SUFFICES ASSUME GoodRows(index.rows, session, spoiled)
               PROVE  IndexNeverLeads
    BY DEF JournalInv, RowsInv
  <2> QED
    BY DEF GoodRows, OneRowEach, IndexNeverLeads
<1> QED
  BY <1>1, JournalRows, PTL

=============================================================================
