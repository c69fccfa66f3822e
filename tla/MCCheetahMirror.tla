-------------------------- MODULE MCCheetahMirror --------------------------
(* The mission (1), a subtask (2) and a node the subtask owns (3); of the   *)
(* subtask the graph also says that it owns itself.                        *)
EXTENDS CheetahMirror

MCRelated == {<<2, 2>>, <<2, 3>>}

=============================================================================
