--------------------------- MODULE MCStepJournal ---------------------------
(* Runs are alike, and so are sessions: none is told from another but by   *)
(* what is done in it.                                                     *)
EXTENDS StepJournal, TLC

JournalSymmetry == Permutations(Runs) \cup Permutations(Sessions)

=============================================================================
