-------------------------- MODULE MCAgentSession --------------------------
(* The texts a file may have are alike: a step asks only whether two of    *)
(* them differ.                                                            *)
EXTENDS AgentSession, TLC

Texts == Permutations(Content)

=============================================================================
