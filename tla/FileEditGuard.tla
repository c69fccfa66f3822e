--------------------------- MODULE FileEditGuard ---------------------------
(***************************************************************************)
(* One file, edited by the agent through the guarded writer.               *)
(*                                                                         *)
(*   buildMutationProposal  reads the file, computes the new text and      *)
(*                          remembers a hash of what it previewed;         *)
(*   the approver           decides, which may take minutes;               *)
(*   writeFileWithGuard     re-reads the file, compares the hash, copies   *)
(*                          the file to the rollback directory, writes,    *)
(*                          reads back, and undoes the write if anything   *)
(*                          went wrong.                                    *)
(*                                                                         *)
(* Every await of those functions is a step of its own, because the        *)
(* operator's editor, a build or a watcher may write the same file between *)
(* any two of them (ExternalWrite), any file-system call may fail (a step  *)
(* that spends one of MaxFaults), and the process may die (Crash).         *)
(*                                                                         *)
(* Hashes are modelled by the contents themselves (sha256 is taken to be   *)
(* injective), a partly written file by the single value Torn.             *)
(***************************************************************************)
EXTENDS Naturals, FileOutcome

CONSTANTS
  Content,     \* the texts a file may hold
  HasRollbackDir, \* the session persists (baseDir given), so copies are kept
  MaxOps,      \* bound: mutations the session attempts
  MaxExternal, \* bound: writes by other programs
  MaxFaults    \* bound: failing file-system calls and crashes

ASSUME GuardAssumption ==
  /\ NoFile \notin Content
  /\ Torn \notin Content
  /\ NoFile # Torn
  /\ Content # {}
  /\ HasRollbackDir \in BOOLEAN
  /\ MaxOps \in Nat /\ MaxExternal \in Nat /\ MaxFaults \in Nat

VARIABLES
  (* the file system *)
  disk,       \* what the file holds
  rollbacks,  \* texts kept in the rollback directory, crash or not
  (* the guarded writer *)
  pc,         \* the await it stands at
  op,         \* the mutation in hand
  verdict,    \* the status it returned last
  (* budgets of the environment *)
  ops, externals, faults,
  (* observers, read by no action's guard *)
  clean,      \* nobody else wrote the file since the guard read it
  replaced,   \* what the guard's own write replaced
  copyFailed, \* the rollback copy could not be made
  opFaults    \* faults during the mutation in hand

fsVars == <<disk, rollbacks>>
budgets == <<ops, externals, faults>>
observers == <<clean, replaced, copyFailed, opFaults>>
vars == <<disk, rollbacks, pc, op, verdict, ops, externals, faults,
          clean, replaced, copyFailed, opFaults>>

Readable  == Content \cup {Torn}      \* what readFile can return
FileState == Readable \cup {NoFile}

PC == {"idle", "preview", "guard", "copy", "write", "verify", "undo", "done"}

Verdict == {"none", "refused", "rejected", "hash-mismatch", "unchanged",
            "written", "rollback", "failed", "error"}

(***************************************************************************)
(* The mutation in hand: what buildMutationProposal previewed (expected is *)
(* NoFile for the null hash of a new file), what it wants to write, what   *)
(* the guard's own read found, and the rollback copy (NoFile: none).       *)
(***************************************************************************)
Mutation == [type : {"write_file", "edit_file"}, before : FileState,
             expected : FileState, after : Content, seen : FileState,
             copy : FileState]

NoMutation(c) == [type |-> "write_file", before |-> NoFile, expected |-> NoFile,
                  after |-> c, seen |-> NoFile, copy |-> NoFile]

Init ==
  /\ disk \in Content \cup {NoFile}
  /\ rollbacks = {}
  /\ pc = "idle"
  /\ op = NoMutation(CHOOSE c \in Content : TRUE)
  /\ verdict = "none"
  /\ ops = 0 /\ externals = 0 /\ faults = 0
  /\ clean = TRUE /\ replaced = NoFile /\ copyFailed = FALSE /\ opFaults = 0

-----------------------------------------------------------------------------
(* Shared pieces of the steps. *)

MayFail == faults < MaxFaults

Fault == faults' = faults + 1 /\ opFaults' = opFaults + 1

NoFault == UNCHANGED <<faults, opFaults>>

Return(status) == pc' = "done" /\ verdict' = status

Goto(label) == pc' = label /\ UNCHANGED verdict

ExpectedHash(before) == before

-----------------------------------------------------------------------------
(***************************************************************************)
(* buildMutationProposal: read, derive the new text, or tell the model why *)
(* not.  A read that fails with anything but ENOENT throws.  An edit of a  *)
(* file that is not there, an anchor that is absent or ambiguous, or a     *)
(* result that does not parse is refused before anything is written: which *)
(* text an edit yields is the choice of after.                             *)
(***************************************************************************)
Propose(type, after) ==
  /\ pc \in {"idle", "done"}
  /\ ops < MaxOps
  /\ ops' = ops + 1
  /\ clean' = TRUE /\ replaced' = NoFile /\ copyFailed' = FALSE
  /\ op' = [type |-> type, before |-> disk, expected |-> ExpectedHash(disk),
            after |-> after, seen |-> NoFile, copy |-> NoFile]
  /\ \/ /\ MayFail                              \* EACCES, EISDIR, ...
        /\ faults' = faults + 1 /\ opFaults' = 1
        /\ Return("error")
     \/ /\ opFaults' = 0 /\ UNCHANGED faults
        /\ Return("refused")                    \* anchor or syntax
     \/ /\ type = "edit_file" => disk # NoFile
        /\ opFaults' = 0 /\ UNCHANGED faults
        /\ Goto("preview")
  /\ UNCHANGED <<fsVars, externals>>

(* approver(...): the operator answers, or a policy does. *)
Decide ==
  /\ pc = "preview"
  /\ Goto("guard") \/ Return("rejected")
  /\ UNCHANGED <<fsVars, op, budgets, observers>>

(***************************************************************************)
(* writeFileWithGuard up to the comparison of hashes: the guard trusts     *)
(* only what it reads itself, and returns before touching the disk when    *)
(* that is not what the operator previewed, or already what was wanted.    *)
(***************************************************************************)
MismatchNever == FALSE
MismatchIfGone == op.expected # NoFile /\ disk = NoFile

Mismatch == op.expected # NoFile /\ disk # op.expected

SkipCopy == "write"
AfterRead == IF disk # NoFile /\ HasRollbackDir THEN "copy" ELSE "write"

GuardRead ==
  /\ pc = "guard"
  /\ \/ /\ MayFail /\ Fault
        /\ Return("error")
        /\ UNCHANGED op
     \/ /\ NoFault
        /\ op' = [op EXCEPT !.seen = disk]
        /\ \/ Mismatch /\ Return("hash-mismatch")
           \/ ~Mismatch /\ disk = op.after /\ Return("unchanged")
           \/ /\ ~Mismatch /\ disk # op.after
              /\ Goto(AfterRead)
  /\ clean' = TRUE
  /\ UNCHANGED <<fsVars, ops, externals, replaced, copyFailed>>

(* A copy of a file that vanished is believed. *)
CopyRollbackUnchecked ==
  /\ pc = "copy"
  /\ Goto("write")
  /\ op' = [op EXCEPT !.copy = disk]
  /\ rollbacks' = rollbacks \cup {disk}
  /\ NoFault
  /\ UNCHANGED <<disk, ops, externals, clean, replaced, copyFailed>>

(* copyFile(target, rollbackDir/...); an error is recorded, not fatal. *)
CopyRollback ==
  /\ pc = "copy"
  /\ Goto("write")
  /\ \/ /\ disk # NoFile
        /\ op' = [op EXCEPT !.copy = disk]
        /\ rollbacks' = rollbacks \cup {disk}
        /\ NoFault
        /\ UNCHANGED copyFailed
     \/ /\ \/ disk = NoFile /\ NoFault
           \/ MayFail /\ Fault
        /\ copyFailed' = TRUE
        /\ UNCHANGED <<op, rollbacks>>
  /\ UNCHANGED <<disk, ops, externals, clean, replaced>>

(* writeFile truncates, then writes: a failure leaves the old text or a
   torn file. *)
WriteTarget ==
  /\ pc = "write"
  /\ replaced' = disk
  /\ \/ disk' = op.after /\ NoFault /\ Goto("verify")
     \/ /\ MayFail /\ Fault
        /\ disk' \in {disk, Torn}
        /\ Goto("undo")
  /\ UNCHANGED <<rollbacks, op, ops, externals, clean, copyFailed>>

(* A verification that fails gives up at once. *)
VerifyWithoutUndo ==
  /\ pc = "verify"
  /\ \/ disk = op.after /\ NoFault /\ Return("written")
     \/ disk # op.after /\ NoFault /\ Return("failed")
     \/ MayFail /\ Fault /\ Return("failed")
  /\ UNCHANGED <<fsVars, op, ops, externals, clean, replaced, copyFailed>>

(* Read back and compare; a read that throws is treated like a mismatch. *)
Verify ==
  /\ pc = "verify"
  /\ \/ disk = op.after /\ NoFault /\ Return("written")
     \/ disk # op.after /\ NoFault /\ Goto("undo")
     \/ MayFail /\ Fault /\ Goto("undo")
  /\ UNCHANGED <<fsVars, op, ops, externals, clean, replaced, copyFailed>>

(***************************************************************************)
(* attemptRollback: the copy if there is one, else the text the guard read *)
(* and still holds in memory, else nothing can be done.                    *)
(***************************************************************************)
RollbackFromNewText == IF op.copy # NoFile THEN op.copy ELSE op.after

RollbackSource == IF op.copy # NoFile THEN op.copy ELSE op.seen

(* The undone file is verified once more, against the text of the edit. *)
AttemptRollbackReverified ==
  /\ pc = "undo"
  /\ RollbackSource # NoFile
  /\ disk' = RollbackSource
  /\ NoFault
  /\ Goto("verify")
  /\ UNCHANGED <<rollbacks, op, ops, externals, clean, replaced, copyFailed>>

AttemptRollback ==
  /\ pc = "undo"
  /\ \/ /\ RollbackSource # NoFile
        /\ disk' = RollbackSource
        /\ NoFault
        /\ Return("rollback")
     \/ /\ RollbackSource # NoFile
        /\ MayFail /\ Fault
        /\ disk' \in {disk, Torn}
        /\ Return("failed")
     \/ /\ RollbackSource = NoFile
        /\ NoFault
        /\ Return("failed")
        /\ UNCHANGED disk
  /\ UNCHANGED <<rollbacks, op, ops, externals, clean, replaced, copyFailed>>

-----------------------------------------------------------------------------
(* Another program writes, creates or removes the file. *)
ExternalWrite ==
  /\ externals < MaxExternal
  /\ externals' = externals + 1
  /\ disk' \in (Content \cup {NoFile}) \ {disk}
  /\ clean' = FALSE
  /\ UNCHANGED <<rollbacks, pc, op, verdict, ops, faults, replaced, copyFailed,
                 opFaults>>

(***************************************************************************)
(* The process dies between two awaits, or in the middle of a write.  The  *)
(* next session starts with the files it finds and nothing in hand.        *)
(***************************************************************************)
Crash ==
  /\ pc \notin {"idle", "done"}
  /\ MayFail
  /\ faults' = faults + 1
  /\ opFaults' = opFaults + 1
  /\ pc' = "idle"
  /\ verdict' = "none"
  /\ \/ UNCHANGED <<disk, replaced>>
     \/ pc = "write" /\ disk' = Torn /\ replaced' = disk
     \/ pc = "undo" /\ disk' = Torn /\ UNCHANGED replaced
  /\ UNCHANGED <<rollbacks, op, ops, externals, clean, copyFailed>>

-----------------------------------------------------------------------------
Guarded ==
  \/ Decide \/ GuardRead \/ CopyRollback \/ WriteTarget \/ Verify
  \/ AttemptRollback

Next ==
  \/ \E type \in {"write_file", "edit_file"}, after \in Content : Propose(type, after)
  \/ Guarded
  \/ ExternalWrite
  \/ Crash

(* The awaited calls settle, and the operator answers: the only fairness. *)
Spec == Init /\ [][Next]_vars /\ WF_vars(Guarded)

-----------------------------------------------------------------------------
TypeOK ==
  /\ disk \in FileState
  /\ rollbacks \subseteq Readable
  /\ pc \in PC
  /\ op \in Mutation
  /\ verdict \in Verdict
  /\ ops \in 0..MaxOps /\ externals \in 0..MaxExternal /\ faults \in 0..MaxFaults
  /\ clean \in BOOLEAN /\ replaced \in FileState /\ copyFailed \in BOOLEAN
  /\ opFaults \in 0..faults

(***************************************************************************)
(* A status never lies about the file.  When nobody else wrote the file    *)
(* since the guard read it, it is what the status says: "written" holds    *)
(* exactly the approved text, "rollback" exactly what was there before the *)
(* attempt, whichever calls failed on the way and whether the undo came    *)
(* from the copy or from memory, and a refusal has left it alone.          *)
(***************************************************************************)
StatusIsTruthful ==
  pc = "done" /\ clean /\ verdict \notin {"refused", "rejected", "error"}
    => ComesTo(op.seen, op.expected, op.after, verdict, disk)

(***************************************************************************)
(* One failing call is always survived: of a file that existed, "failed"   *)
(* (the file is in an unknown state) is reported only after the write or   *)
(* its verification failed AND the undo failed too.                        *)
(***************************************************************************)
FailedNeedsTwoFaults ==
  pc = "done" /\ clean /\ verdict = "failed" /\ op.seen # NoFile => opFaults >= 2

(***************************************************************************)
(* Whatever text the guard replaced can be recovered from the rollback     *)
(* directory (when there is one), even if the process died in the middle   *)
(* of the write and left a torn file, unless making the copy itself failed *)
(* or another program wrote the file after the guard had read it.          *)
(***************************************************************************)
ReplacedIsRecoverable ==
  HasRollbackDir /\ clean /\ ~copyFailed /\ replaced # NoFile => replaced \in rollbacks

(***************************************************************************)
(* The guard is a compare-and-swap on the previewed text: an edit of an    *)
(* existing file replaces the text the operator was shown, however long    *)
(* the approval took and whoever wrote the file meanwhile.                 *)
(***************************************************************************)
OnlyPreviewedIsReplaced ==
  clean /\ replaced # NoFile /\ op.expected # NoFile => replaced = op.before

(***************************************************************************)
(* agent-executor.js:389 says the expected hash guards the eventual write  *)
(* against changes between preview and commit.  Taken for new files too:   *)
(* nothing is replaced that the preview did not show.                      *)
(***************************************************************************)
NothingUnseenIsReplaced ==
  clean /\ replaced # NoFile => replaced = op.before

(* An approved mutation gets a verdict, or the process died on it. *)
EveryMutationEnds == pc = "preview" ~> pc \in {"done", "idle"}

-----------------------------------------------------------------------------
(***************************************************************************)
(* What the guarded writer promises: GuardedUpdate.  The file of the       *)
(* abstract update keeps its old text until the verdict is in; while       *)
(* another program interferes, the real file is all there is.              *)
(***************************************************************************)
AbstractFile == IF pc \in {"verify", "undo"} /\ clean THEN op.seen ELSE disk

Update == INSTANCE GuardedUpdate WITH
  Text     <- Content,
  Absent   <- NoFile,
  Broken   <- Torn,
  file     <- AbstractFile,
  busy     <- pc \notin {"idle", "done"},
  wanted   <- op.after,
  expected <- op.expected,
  outcome  <- verdict,
  calm     <- clean

(* Every step of the guarded writer is a step of the abstract update, or
   none that it shows. *)
ImplementsGuardedUpdate == Update!Spec

=============================================================================
