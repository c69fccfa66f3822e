----------------------------- MODULE FileOutcome -----------------------------
(***************************************************************************)
(* What one call of writeFileWithGuard may come to, for its caller: the    *)
(* status it returns, and what the file holds then, if nobody else writes  *)
(* the file between the guard's own read and its return.                   *)
(*                                                                         *)
(* FileEditGuard takes the call apart await by await, and is shown to come *)
(* to nothing else; AgentSession takes it in one step, and is shown what   *)
(* it shows for all of these.                                              *)
(***************************************************************************)
CONSTANTS
  NoFile,  \* the file does not exist
  Torn     \* a truncated or partly written file: no text anybody chose

(***************************************************************************)
(* The guard saw seen, was given the text the operator was shown (NoFile:  *)
(* the null hash of a new file), and wants after.  A failed write may have *)
(* done nothing, half of its work, or all of it: a file that was written   *)
(* but could not be read back has nothing to go back to if it is new.      *)
(***************************************************************************)
ComesTo(seen, expected, after, status, text) ==
  LET mismatch == expected # NoFile /\ seen # expected IN
  \/ status = "error" /\ text = seen
  \/ status = "hash-mismatch" /\ mismatch /\ text = seen
  \/ status = "unchanged" /\ ~mismatch /\ seen = after /\ text = seen
  \/ /\ ~mismatch /\ seen # after
     /\ \/ status = "written" /\ text = after
        \/ status = "rollback" /\ seen # NoFile /\ text = seen
        \/ status = "failed" /\ text \in {seen, after, Torn}

=============================================================================
