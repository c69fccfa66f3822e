---------------------------- MODULE Conversation ----------------------------
(***************************************************************************)
(* What a chat history promises: prompts are asked one after another, each *)
(* has at most one answer, and an exchange (a prompt and its answer) is    *)
(* remembered when it is had, or not at all, and forgotten only with all   *)
(* that are older.  How often a prompt is tried is not to be seen here; a  *)
(* prompt that failed is no exchange.                                      *)
(***************************************************************************)
EXTENDS Naturals

VARIABLES
  remembered,  \* the exchanges, by the number of their prompt
  asked,       \* the prompts asked so far
  open         \* the last one may still be answered

vars == <<remembered, asked, open>>

Init == remembered = {} /\ asked = 0 /\ open = FALSE

Ask == ~open /\ open' = TRUE /\ asked' = asked + 1 /\ UNCHANGED remembered

Answer ==
  /\ open /\ open' = FALSE
  /\ remembered' = remembered \cup {asked}
  /\ UNCHANGED asked

(* It failed, was given up, or was not meant to be remembered. *)
Close == open /\ open' = FALSE /\ UNCHANGED <<remembered, asked>>

(* To make room for the prompt that is asked. *)
Forget(oldest) ==
  /\ open
  /\ remembered' = {e \in remembered : oldest <= e}
  /\ UNCHANGED <<asked, open>>

(* To begin anew, between two prompts. *)
Clear == ~open /\ remembered' = {} /\ UNCHANGED <<asked, open>>

Next == Ask \/ Answer \/ Close \/ Clear \/ \E oldest \in 1..asked : Forget(oldest)

Spec == Init /\ [][Next]_vars

-----------------------------------------------------------------------------
(* What may still become an exchange is none yet. *)
InOrder ==
  remembered \subseteq 1..asked /\ (open => asked > 0 /\ asked \notin remembered)

(***************************************************************************)
(* What was forgotten, or never answered, does not come back: of the       *)
(* prompts asked so far only the one that is open may be remembered yet.   *)
(***************************************************************************)
NeverAgain ==
  [][\A e \in 1..asked :
       e \notin remembered /\ ~(open /\ e = asked) => e \notin remembered']_vars

=============================================================================
