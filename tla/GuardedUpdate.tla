---------------------------- MODULE GuardedUpdate ----------------------------
(***************************************************************************)
(* What a guarded file update promises, without saying how: a compare and  *)
(* swap of a whole file whose outcome tells the truth.                     *)
(*                                                                         *)
(* An update begins by looking at the file (expected; Absent for a file to *)
(* be created) and wants one text.  It finishes with an outcome.  As long  *)
(* as it is calm - nobody else has written the file since the update last  *)
(* looked - the outcome fixes what happened to the file, and the file      *)
(* changes at no other moment.  An update that is not calm promises        *)
(* nothing about the file, except that a refusal never touches it.         *)
(***************************************************************************)
CONSTANTS Text, Absent, Broken

VARIABLES file, busy, wanted, expected, outcome, calm

vars == <<file, busy, wanted, expected, outcome, calm>>

States == Text \cup {Absent, Broken}

(* Outcomes that say "I did not touch the file". *)
Refusals == {"refused", "rejected", "hash-mismatch", "unchanged", "error"}

Init ==
  /\ file \in Text \cup {Absent}
  /\ busy = FALSE /\ outcome = "none" /\ calm = TRUE
  /\ wanted \in Text /\ expected = Absent

Begin ==
  /\ ~busy
  /\ wanted' \in Text
  /\ expected' = file
  /\ calm' = TRUE
  /\ \/ busy' = TRUE /\ UNCHANGED outcome
     \/ busy' = FALSE /\ outcome' \in Refusals
  /\ UNCHANGED file

(* The update looks at the file again, and is calm from here on. *)
Look ==
  /\ busy
  /\ calm' = TRUE
  /\ UNCHANGED <<file, busy, wanted, expected, outcome>>

(* expected is what a calm swap replaces: the compare of compare-and-swap. *)
Swap == /\ file' = wanted
        /\ expected # Absent => file = expected

Finish(status) ==
  /\ busy
  /\ busy' = FALSE
  /\ outcome' = status
  /\ calm' \in {calm, TRUE}
  /\ file' \in States
  /\ status \in Refusals => file' = file
  /\ calm /\ status = "rollback" => file' = file
  /\ calm /\ status = "written" => Swap
  /\ UNCHANGED <<wanted, expected>>

(* Somebody else writes the file; or the update itself does, once it has
   been disturbed. *)
Interfere ==
  /\ calm' = FALSE
  /\ file' \in States
  /\ UNCHANGED <<busy, wanted, expected, outcome>>

(* "none" is the outcome of an update whose process died. *)
Next ==
  \/ Begin \/ Look \/ Interfere
  \/ \E status \in Refusals \cup {"written", "rollback", "failed", "none"} : Finish(status)

Spec == Init /\ [][Next]_vars
=============================================================================
