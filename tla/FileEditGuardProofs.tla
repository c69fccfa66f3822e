------------------------- MODULE FileEditGuardProofs -------------------------
(***************************************************************************)
(* What holds of the guarded writer for every set of texts and every       *)
(* budget of operations, interferences and faults.                         *)
(*                                                                         *)
(* None of the invariants the runs check is inductive: they speak of the   *)
(* verdict, and what makes the verdict right is decided several awaits     *)
(* earlier.  GuardInv carries the missing history from await to await.     *)
(***************************************************************************)
EXTENDS FileEditGuard, TLAPS

LEMMA TypeInit == Init => TypeOK
<1> SUFFICES ASSUME Init PROVE TypeOK
  OBVIOUS
<1>1. (CHOOSE c \in Content : TRUE) \in Content
  BY GuardAssumption
<1>2. op \in Mutation
  BY <1>1 DEF Init, Mutation, NoMutation, FileState
<1>3. /\ ops \in 0..MaxOps /\ externals \in 0..MaxExternal
      /\ faults \in 0..MaxFaults /\ opFaults \in 0..faults
  BY GuardAssumption DEF Init
<1>4. /\ disk \in FileState /\ rollbacks \subseteq Readable /\ replaced \in FileState
      /\ pc \in PC /\ verdict \in Verdict /\ clean \in BOOLEAN /\ copyFailed \in BOOLEAN
  BY DEF Init, FileState, Readable, PC, Verdict
<1> QED
  BY <1>2, <1>3, <1>4 DEF TypeOK

LEMMA TypeNext == TypeOK /\ [Next]_vars => TypeOK'
<1> SUFFICES ASSUME TypeOK, [Next]_vars PROVE TypeOK'
  OBVIOUS
<1> USE GuardAssumption DEF TypeOK, fsVars, budgets, observers
<1>1. ASSUME NEW type \in {"write_file", "edit_file"}, NEW after \in Content,
             Propose(type, after)
      PROVE  TypeOK'
  <2>1. op' \in Mutation
    BY <1>1 DEF Propose, ExpectedHash, Mutation, FileState
  <2>2. faults' \in 0..MaxFaults /\ opFaults' \in 0..faults'
    BY <1>1 DEF Propose, MayFail
  <2>3. ops' \in 0..MaxOps
    BY <1>1 DEF Propose
  <2>4. pc' \in PC /\ verdict' \in Verdict
    BY <1>1 DEF Propose, Return, Goto, PC, Verdict
  <2> QED
    BY <1>1, <2>1, <2>2, <2>3, <2>4 DEF Propose, FileState
<1>2. CASE Decide
  BY <1>2 DEF Decide, Return, Goto, PC, Verdict
<1>3. CASE GuardRead
  <2>1. op' \in Mutation
    BY <1>3 DEF GuardRead, Mutation
  <2>2. pc' \in PC /\ verdict' \in Verdict
    BY <1>3 DEF GuardRead, Return, Goto, AfterRead, PC, Verdict
  <2>3. faults' \in 0..MaxFaults /\ opFaults' \in 0..faults'
    BY <1>3 DEF GuardRead, MayFail, Fault, NoFault
  <2> QED
    BY <1>3, <2>1, <2>2, <2>3 DEF GuardRead
<1>4. CASE CopyRollback
  <2>1. op' \in Mutation
    BY <1>4 DEF CopyRollback, Mutation
  <2>2. rollbacks' \subseteq Readable /\ copyFailed' \in BOOLEAN
    BY <1>4 DEF CopyRollback, FileState
  <2>3. faults' \in 0..MaxFaults /\ opFaults' \in 0..faults'
    BY <1>4 DEF CopyRollback, MayFail, Fault, NoFault
  <2> QED
    BY <1>4, <2>1, <2>2, <2>3 DEF CopyRollback, Goto, PC
<1>5. CASE WriteTarget
  <2>1. disk' \in FileState /\ replaced' \in FileState
    BY <1>5 DEF WriteTarget, FileState, Readable, Mutation
  <2>2. faults' \in 0..MaxFaults /\ opFaults' \in 0..faults'
    BY <1>5 DEF WriteTarget, MayFail, Fault, NoFault
  <2> QED
    BY <1>5, <2>1, <2>2 DEF WriteTarget, Goto, PC
<1>6. CASE Verify
  <2>1. faults' \in 0..MaxFaults /\ opFaults' \in 0..faults'
    BY <1>6 DEF Verify, MayFail, Fault, NoFault
  <2> QED
    BY <1>6, <2>1 DEF Verify, Return, Goto, PC, Verdict
<1>7. CASE AttemptRollback
  <2>1. disk' \in FileState
    BY <1>7 DEF AttemptRollback, RollbackSource, FileState, Readable, Mutation
  <2>2. faults' \in 0..MaxFaults /\ opFaults' \in 0..faults'
    BY <1>7 DEF AttemptRollback, MayFail, Fault, NoFault
  <2> QED
    BY <1>7, <2>1, <2>2 DEF AttemptRollback, Return, PC, Verdict
<1>8. CASE ExternalWrite
  <2>1. disk' \in FileState
    BY <1>8 DEF ExternalWrite, FileState, Readable
  <2>2. externals' \in 0..MaxExternal
    BY <1>8 DEF ExternalWrite
  <2> QED
    BY <1>8, <2>1, <2>2 DEF ExternalWrite
<1>9. CASE Crash
  <2>1. disk' \in FileState /\ replaced' \in FileState
    BY <1>9 DEF Crash, FileState, Readable
  <2>2. faults' \in 0..MaxFaults /\ opFaults' \in 0..faults'
    BY <1>9 DEF Crash, MayFail
  <2> QED
    BY <1>9, <2>1, <2>2 DEF Crash, PC, Verdict
<1>10. CASE UNCHANGED vars
  BY <1>10 DEF vars
<1> QED
  BY <1>1, <1>2, <1>3, <1>4, <1>5, <1>6, <1>7, <1>8, <1>9, <1>10 DEF Next, Guarded

(* Every variable stays in its type: op is a mutation, the budgets are
   respected, the rollback directory holds only texts that were readable. *)
THEOREM TypeCorrect == Spec => []TypeOK
BY TypeInit, TypeNext, PTL DEF Spec

-----------------------------------------------------------------------------
Looked  == {"copy", "write", "verify", "undo"}   \* the guard has read the file
Unmoved == {"preview", "guard", "copy", "write"} \* and has not written it yet

(* The compare of the compare-and-swap, remembered after the hashes were
   compared: what the guard saw is what was previewed, unless the preview
   found no file. *)
Compared ==
  /\ op.expected = op.before
  /\ pc \in Looked \/ replaced # NoFile =>
       (op.expected # NoFile => op.seen = op.expected)
  /\ pc \in Looked => op.seen # op.after

(* What a calm guard knows of the file at each await. *)
Tracked ==
  /\ pc \in {"copy", "write"} /\ clean => disk = op.seen
  /\ pc = "verify" /\ clean => disk = op.after
  /\ pc = "undo" /\ clean =>
       opFaults >= 1 /\ disk \in {op.seen, op.after, Torn}
  /\ pc \in Unmoved => replaced = NoFile
  /\ clean /\ replaced # NoFile => replaced = op.seen

(* The rollback copy, once made, is what the guard saw, and stays. *)
Copied ==
  /\ pc \in {"preview", "guard", "copy"} => op.copy = NoFile
  /\ clean /\ op.copy # NoFile => op.copy = op.seen
  /\ /\ pc = "write" /\ clean /\ HasRollbackDir
     /\ ~copyFailed /\ op.seen # NoFile
     => op.seen \in rollbacks

GuardInv ==
  /\ Compared
  /\ Tracked
  /\ Copied
  /\ StatusIsTruthful
  /\ FailedNeedsTwoFaults
  /\ ReplacedIsRecoverable

LEMMA GuardInvInit == Init => GuardInv
BY DEF Init, NoMutation, GuardInv, Compared, Tracked, Copied, Looked, Unmoved,
       StatusIsTruthful, FailedNeedsTwoFaults, ReplacedIsRecoverable

LEMMA GuardInvNext == TypeOK /\ GuardInv /\ [Next]_vars => GuardInv'
<1> SUFFICES ASSUME TypeOK, GuardInv, [Next]_vars PROVE GuardInv'
  OBVIOUS
<1> USE GuardAssumption DEF GuardInv, Looked, Unmoved, fsVars, budgets, observers
<1>0. /\ op \in Mutation /\ disk \in FileState /\ rollbacks \subseteq Readable
      /\ faults \in Nat /\ opFaults \in Nat
  BY DEF TypeOK
<1>1. ASSUME NEW type \in {"write_file", "edit_file"}, NEW after \in Content,
             Propose(type, after)
      PROVE  GuardInv'
  BY <1>1 DEF Propose, Return, Goto, ExpectedHash, Compared, Tracked, Copied,
              StatusIsTruthful, FailedNeedsTwoFaults, ReplacedIsRecoverable
<1>2. CASE Decide
  BY <1>2 DEF Decide, Return, Goto, Compared, Tracked, Copied,
              StatusIsTruthful, FailedNeedsTwoFaults, ReplacedIsRecoverable
<1>3. CASE GuardRead
  <2> USE <1>3, <1>0 DEF GuardRead, Return, Goto, AfterRead, Mismatch, Fault, NoFault
  <2>1. Compared'
    BY DEF Compared, Tracked, Mutation
  <2>2. Tracked'
    BY DEF Tracked, Mutation
  <2>3. Copied'
    BY DEF Copied, Mutation
  <2>4. StatusIsTruthful' /\ FailedNeedsTwoFaults'
    <3>1. op'.seen \in {op.seen, disk} /\ UNCHANGED disk
      BY DEF Mutation
    <3>2. ASSUME NEW status \in {"hash-mismatch", "unchanged"}, Return(status)
          PROVE  ComesTo(op'.seen, op'.expected, op'.after, status, disk')
      BY <3>2 DEF Mutation, ComesTo
    <3>3. pc' = "done" => verdict' \in {"error", "hash-mismatch", "unchanged"}
      OBVIOUS
    <3>4. FailedNeedsTwoFaults'
      BY <3>3 DEF FailedNeedsTwoFaults
    <3> QED
      BY <3>2, <3>3, <3>4 DEF StatusIsTruthful
  <2>5. ReplacedIsRecoverable'
    BY DEF ReplacedIsRecoverable, Tracked
  <2> QED
    BY <2>1, <2>2, <2>3, <2>4, <2>5
<1>4. CASE CopyRollback
  <2> USE <1>4, <1>0 DEF CopyRollback, Goto, Fault, NoFault
  <2>1. Compared'
    BY DEF Compared, Mutation
  <2>2. Tracked'
    BY DEF Tracked, Mutation
  <2>3. Copied'
    BY DEF Copied, Tracked, Mutation
  <2>4. StatusIsTruthful' /\ FailedNeedsTwoFaults'
    BY DEF StatusIsTruthful, FailedNeedsTwoFaults
  <2>5. ReplacedIsRecoverable'
    BY DEF ReplacedIsRecoverable, Tracked
  <2> QED
    BY <2>1, <2>2, <2>3, <2>4, <2>5
<1>5. CASE WriteTarget
  <2> USE <1>5, <1>0 DEF WriteTarget, Goto, Fault, NoFault
  <2>1. Compared'
    BY DEF Compared
  <2>2. Tracked'
    BY DEF Tracked
  <2>3. Copied'
    BY DEF Copied
  <2>4. StatusIsTruthful' /\ FailedNeedsTwoFaults'
    BY DEF StatusIsTruthful, FailedNeedsTwoFaults
  <2>5. ReplacedIsRecoverable'
    BY DEF ReplacedIsRecoverable, Tracked, Copied
  <2> QED
    BY <2>1, <2>2, <2>3, <2>4, <2>5
<1>6. CASE Verify
  <2> USE <1>6, <1>0 DEF Verify, Return, Goto, Fault, NoFault
  <2>1. StatusIsTruthful'
    BY DEF StatusIsTruthful, Compared, ComesTo
  <2> QED
    BY <2>1 DEF Compared, Tracked, Copied, FailedNeedsTwoFaults, ReplacedIsRecoverable
<1>7. CASE AttemptRollback
  <2> USE <1>7, <1>0 DEF AttemptRollback, RollbackSource, Return, Fault, NoFault
  <2>1. Compared' /\ Copied' /\ ReplacedIsRecoverable'
    BY DEF Compared, Copied, ReplacedIsRecoverable
  <2>2. Tracked'
    BY DEF Tracked
  <2>3. StatusIsTruthful'
    <3>1. clean => RollbackSource \in {op.seen, NoFile}
      BY DEF Copied
    <3>2. clean /\ RollbackSource # NoFile => RollbackSource = op.seen
      BY <3>1
    <3>3. clean => disk \in {op.seen, op.after, Torn}
      BY DEF Tracked
    <3> QED
      BY <3>2, <3>3 DEF StatusIsTruthful, Compared, ComesTo
  <2>4. FailedNeedsTwoFaults'
    BY DEF FailedNeedsTwoFaults, Tracked
  <2> QED
    BY <2>1, <2>2, <2>3, <2>4
<1>8. CASE ExternalWrite
  BY <1>8 DEF ExternalWrite, Compared, Tracked, Copied,
              StatusIsTruthful, FailedNeedsTwoFaults, ReplacedIsRecoverable
<1>9. CASE Crash
  BY <1>9 DEF Crash, Compared, Tracked, Copied,
              StatusIsTruthful, FailedNeedsTwoFaults, ReplacedIsRecoverable
<1>10. CASE UNCHANGED vars
  BY <1>10 DEF vars, Compared, Tracked, Copied,
              StatusIsTruthful, FailedNeedsTwoFaults, ReplacedIsRecoverable
<1> QED
  BY <1>1, <1>2, <1>3, <1>4, <1>5, <1>6, <1>7, <1>8, <1>9, <1>10 DEF Next, Guarded

THEOREM GuardInvariant == Spec => []GuardInv
BY TypeInit, TypeNext, GuardInvInit, GuardInvNext, PTL DEF Spec

(* "written" and "rollback" are true of the file, for any number of faults:
   the verdicts of writeFileWithGuard can be believed. *)
THEOREM GuardStatusIsTruthful == Spec => []StatusIsTruthful
<1>1. GuardInv => StatusIsTruthful
  BY DEF GuardInv
<1> QED
  BY <1>1, GuardInvariant, PTL

(* One failing call never leaves an existing file in an unknown state. *)
THEOREM GuardFailedNeedsTwoFaults == Spec => []FailedNeedsTwoFaults
<1>1. GuardInv => FailedNeedsTwoFaults
  BY DEF GuardInv
<1> QED
  BY <1>1, GuardInvariant, PTL

(* What the guard replaced is in the rollback directory, crash or not. *)
THEOREM GuardReplacedIsRecoverable == Spec => []ReplacedIsRecoverable
<1>1. GuardInv => ReplacedIsRecoverable
  BY DEF GuardInv
<1> QED
  BY <1>1, GuardInvariant, PTL

(* An edit of an existing file replaces exactly what was previewed. *)
THEOREM GuardOnlyPreviewedIsReplaced == Spec => []OnlyPreviewedIsReplaced
<1>1. GuardInv => OnlyPreviewedIsReplaced
  BY DEF GuardInv, Compared, Tracked, OnlyPreviewedIsReplaced
<1> QED
  BY <1>1, GuardInvariant, PTL

-----------------------------------------------------------------------------
(***************************************************************************)
(* The refinement.  Writing is invisible while the update is calm (the     *)
(* abstract file changes only when the verdict is in), and interference    *)
(* once it is not.                                                         *)
(***************************************************************************)
LEMMA AbstractFileInStates == TypeOK => AbstractFile \in Update!States
BY DEF TypeOK, Mutation, FileState, Readable, AbstractFile, Update!States

LEMMA RefinementInit == Init => Update!Init
<1> SUFFICES ASSUME Init PROVE Update!Init
  OBVIOUS
<1>1. op.after \in Content /\ op.expected = NoFile
  BY GuardAssumption DEF Init, NoMutation
<1> QED
  BY <1>1 DEF Init, AbstractFile, Update!Init

LEMMA RefinementNext ==
  TypeOK /\ TypeOK' /\ GuardInv /\ [Next]_vars => [Update!Next]_(Update!vars)
<1> SUFFICES ASSUME TypeOK, TypeOK', GuardInv, [Next]_vars
             PROVE  Update!Next \/ UNCHANGED Update!vars
  OBVIOUS
<1> USE DEF AbstractFile, Update!Refusals, fsVars, budgets, observers
<1>0. /\ AbstractFile \in Update!States /\ AbstractFile' \in Update!States
      /\ op \in Mutation /\ clean \in BOOLEAN
  <2>1. AbstractFile' \in Update!States
    BY DEF TypeOK, Mutation, FileState, Readable, AbstractFile, Update!States
  <2> QED
    BY <2>1, AbstractFileInStates DEF TypeOK
<1>1. ASSUME NEW type \in {"write_file", "edit_file"}, NEW after \in Content,
             Propose(type, after)
      PROVE  Update!Next
  BY <1>1 DEF Propose, Return, Goto, ExpectedHash, Update!Begin, Update!Next
<1>2. CASE Decide
  <2>1. CASE Goto("guard")
    BY <1>2, <2>1 DEF Decide, Goto, Update!vars
  <2>2. CASE Return("rejected")
    <3>1. Update!Finish("rejected")
      BY <1>0, <1>2, <2>2 DEF Decide, Return, Update!Finish
    <3> QED
      BY <3>1 DEF Update!Next
  <2> QED
    BY <1>2, <2>1, <2>2 DEF Decide
<1>3. CASE GuardRead
  <2>1. ASSUME NEW status \in {"error", "hash-mismatch", "unchanged"}, Return(status)
        PROVE  Update!Finish(status)
    BY <1>0, <1>3, <2>1 DEF GuardRead, Return, Mutation, Update!Finish
  <2>2. CASE Goto(AfterRead)
    BY <1>3, <2>2, <1>0 DEF GuardRead, Goto, AfterRead, Mutation, Return,
                       Update!Look, Update!Next
  <2> QED
    BY <1>3, <2>1, <2>2 DEF GuardRead, Update!Next
<1>4. CASE CopyRollback
  BY <1>4, <1>0 DEF CopyRollback, Goto, Mutation, Update!vars
<1>5. CASE WriteTarget
  <2>1. CASE clean
    BY <1>5, <2>1 DEF WriteTarget, Goto, GuardInv, Tracked, Update!vars
  <2>2. CASE ~clean
    BY <1>0, <1>5, <2>2 DEF WriteTarget, Goto, Update!Interfere, Update!Next
  <2> QED
    BY <2>1, <2>2
<1>6. CASE Verify
  <2>1. CASE Goto("undo")
    BY <1>6, <2>1 DEF Verify, Goto, Return, Update!vars
  <2>2. CASE disk = op.after /\ Return("written")
    <3>1. clean => Update!Swap
      BY <1>6, <2>2 DEF Verify, Return, GuardInv, Compared, Looked, Update!Swap
    <3>2. Update!Finish("written")
      BY <1>0, <1>6, <2>2, <3>1 DEF Verify, Return, Update!Finish
    <3> QED
      BY <3>2 DEF Update!Next
  <2> QED
    BY <1>6, <2>1, <2>2 DEF Verify
<1>7. CASE AttemptRollback
  <2>1. CASE Return("failed")
    <3>1. Update!Finish("failed")
      BY <1>0, <1>7, <2>1 DEF AttemptRollback, Return, Update!Finish
    <3> QED
      BY <3>1 DEF Update!Next
  <2>2. CASE disk' = RollbackSource /\ Return("rollback")
    <3>1. clean => RollbackSource = op.seen
      BY DEF RollbackSource, GuardInv, Copied
    <3>2. Update!Finish("rollback")
      BY <1>0, <1>7, <2>2, <3>1 DEF AttemptRollback, Return, Update!Finish
    <3> QED
      BY <3>2 DEF Update!Next
  <2> QED
    BY <1>7, <2>1, <2>2 DEF AttemptRollback
<1>8. CASE ExternalWrite
  BY <1>0, <1>8 DEF ExternalWrite, Update!Interfere, Update!Next
<1>9. CASE Crash
  <2>1. Update!Finish("none")
    BY <1>0, <1>9 DEF Crash, Update!Finish
  <2> QED
    BY <2>1 DEF Update!Next
<1>10. CASE UNCHANGED vars
  BY <1>10 DEF vars, Update!vars
<1> QED
  BY <1>1, <1>2, <1>3, <1>4, <1>5, <1>6, <1>7, <1>8, <1>9, <1>10 DEF Next, Guarded

(* The guarded writer implements the compare-and-swap of GuardedUpdate: a
   calm update changes the file at the moment it reports "written", from the
   previewed text to the approved one, and at no other moment. *)
THEOREM GuardImplementsUpdate == Spec => ImplementsGuardedUpdate
<1>1. TypeOK /\ GuardInv /\ [Next]_vars => [Update!Next]_(Update!vars)
  BY TypeNext, RefinementNext
<1> QED
  BY <1>1, RefinementInit, TypeCorrect, GuardInvariant, PTL
     DEF Spec, ImplementsGuardedUpdate, Update!Spec

-----------------------------------------------------------------------------
(* The awaits still before a mutation. *)
Left ==
  CASE pc = "preview" -> 6
    [] pc = "guard"   -> 5
    [] pc = "copy"    -> 4
    [] pc = "write"   -> 3
    [] pc = "verify"  -> 2
    [] pc = "undo"    -> 1
    [] OTHER          -> 0

(***************************************************************************)
(* What a mutation has of EveryMutationEnds without fairness: every step   *)
(* of it, whichever call fails, brings it nearer to its verdict, and one   *)
(* of another program takes it no further away.  There is no way from the  *)
(* undo of a write back to its verification, or to another write.          *)
(***************************************************************************)
MutationShrinks ==
  [][Left > 0 => Left' < Left \/ (UNCHANGED Left /\ externals' # externals)]_vars

THEOREM GuardMutationShrinks == Spec => MutationShrinks
<1>1. TypeOK /\ [Next]_vars
        => [Left > 0 => Left' < Left \/ (UNCHANGED Left /\ externals' # externals)]_vars
  <2> SUFFICES ASSUME TypeOK, Next, Left > 0
               PROVE  Left' < Left \/ (UNCHANGED Left /\ externals' # externals)
    OBVIOUS
  <2>1. pc \in PC \ {"idle", "done"}
    BY DEF TypeOK, Left, PC
  <2>2. CASE Decide
    BY <2>2 DEF Decide, Goto, Return, Left
  <2>3. CASE GuardRead
    BY <2>3 DEF GuardRead, AfterRead, Goto, Return, Left
  <2>4. CASE CopyRollback
    BY <2>4 DEF CopyRollback, Goto, Left
  <2>5. CASE WriteTarget
    BY <2>5 DEF WriteTarget, Goto, Left
  <2>6. CASE Verify
    BY <2>6 DEF Verify, Goto, Return, Left
  <2>7. CASE AttemptRollback
    BY <2>7 DEF AttemptRollback, Return, Left
  <2>8. CASE Crash
    <3>1. Left' = 0
      BY <2>8 DEF Crash, Left
    <3> QED
      BY <2>1, <3>1 DEF Left, PC
  <2>9. CASE ExternalWrite
    BY <2>9, GuardAssumption DEF ExternalWrite, Left, TypeOK
  <2>10. ASSUME NEW type, NEW after, Propose(type, after)
         PROVE  FALSE
    BY <2>1, <2>10 DEF Propose
  <2> QED
    BY <2>2, <2>3, <2>4, <2>5, <2>6, <2>7, <2>8, <2>9, <2>10 DEF Next, Guarded
<1> QED
  BY TypeCorrect, <1>1, PTL DEF Spec, MutationShrinks

=============================================================================
