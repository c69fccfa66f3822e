---------------------------- MODULE CheetahMirror ----------------------------
(***************************************************************************)
(* The optional mirror of a session's context graph in a Cheetah server,   *)
(* which is asked, before each prompt, for the nodes that matter: the      *)
(* fingerprints CheetahContextEngine keeps of what it mirrored, the batch  *)
(* a sync sends, and what becomes of both when the batch or the recall     *)
(* fails, or the server restarts with an empty data directory.             *)
(*                                                                         *)
(*   idle        the session goes on, and its graph changes                *)
(*   connecting  execute waits for a connection                            *)
(*   writing     the commands of a sync are on their way to the server     *)
(*   recalling   the recall is on its way                                  *)
(*   over        the session has ended                                     *)
(*                                                                         *)
(* What a fingerprint covers is a version of the node.  The server is      *)
(* modelled from how the engine uses it and from the answers its tests     *)
(* give: commands of a connection apply in order, each on its own; an edge *)
(* needs both its nodes and a recall its seeds.  A batch the client gave   *)
(* up has applied what it ever will before the next one is sent (the       *)
(* cooldown is four times the timeout).                                    *)
(***************************************************************************)
EXTENDS Integers, FiniteSets

CONSTANTS
  Nodes,        \* the ids of all nodes there will be
  Mission,      \* the node of kind mission
  Related,      \* edges of the graph, and from a subtask to what it owns
  Foci,         \* bound: the subtasks a prompt may be focused on
  Changing,     \* bound: the nodes whose fingerprint may change
  Droppable,    \* bound: the nodes that may be dropped
  MaxVersion,   \* bound: versions of a node
  MaxFaults,    \* bound: failures of the transport
  MaxRestarts   \* bound: restarts of the server with an empty directory

ASSUME MirrorAssumption ==
  /\ IsFiniteSet(Nodes) /\ Mission \in Nodes
  /\ Related \subseteq Nodes \X Nodes
  /\ Foci \cup Changing \cup Droppable \subseteq Nodes
  /\ MaxVersion \in Nat \ {0} /\ {MaxFaults, MaxRestarts} \subseteq Nat

VARIABLES
  pc,
  state, version,     \* the graph: ContextGraph.nodes
  prints, edgePrints, \* _nodeFingerprints, _edgeFingerprints
  cooling,            \* Date.now() < _cooldownUntil
  required,           \* the configuration
  job,                \* the locals of sync and recall
  transport,          \* _transport of the client
  speaks,             \* the transports the server knows
  remote, remoteEdges, \* what the server holds
  faults, restarts,   \* failures so far
  emptied,            \* observer: restarted since the fingerprints were forgotten
  lost                \* observer: the nodes on the server whose fingerprint was
                      \* forgotten, until they are written again

graph  == <<state, version>>
memo   == <<prints, edgePrints>>
server == <<remote, remoteEdges>>
vars == <<pc, graph, memo, cooling, required, job, transport, speaks, server,
          faults, restarts, emptied, lost>>

Edge == {e \in Nodes \X Nodes : e[1] # e[2]}

Version == 1..MaxVersion

NoJob == [final |-> FALSE, asking |-> FALSE, seeds |-> {}, deleted |-> {},
          dels |-> {}, sets |-> {}, edges |-> {}, bad |-> FALSE]

Live == {n \in Nodes : state[n] = "live"}

(* Also from a node to itself. *)
LiveEdgesAndLoops ==
  {e \in Related \cup ({Mission} \X Nodes) : {e[1], e[2]} \subseteq Live}

(* _collectEdges: the mission is related to every node. *)
LiveEdges ==
  {e \in Related \cup ({Mission} \X Nodes) :
     e[1] # e[2] /\ {e[1], e[2]} \subseteq Live}

(* _seedNodeIds: the focus need only be in the graph. *)
Seeds(focus) == {Mission} \cup {n \in {focus} : state[n] \in {"live", "dropped"}}

Touching(es, ns) == {e \in es : e[1] \in ns \/ e[2] \in ns}

Init ==
  /\ pc = "idle"
  /\ state = [n \in Nodes |-> IF n = Mission THEN "live" ELSE "new"]
  /\ version = [n \in Nodes |-> 1]
  /\ prints = [n \in Nodes |-> 0] /\ edgePrints = {}
  /\ cooling = FALSE /\ required \in BOOLEAN /\ job = NoJob
  /\ transport \in {"binary", "text"} /\ speaks \in {{"text"}, {"binary", "text"}}
  /\ remote = [n \in Nodes |-> 0] /\ remoteEdges = {}
  /\ faults = 0 /\ restarts = 0 /\ emptied = FALSE /\ lost = {}

-----------------------------------------------------------------------------
(* The session, between two prompts: what it does to the graph.            *)

GraphOnly ==
  /\ pc = "idle"
  /\ UNCHANGED <<pc, memo, cooling, required, job, transport, speaks, server,
                 faults, restarts, emptied, lost>>

Add(n) ==
  /\ GraphOnly
  /\ state[n] = "new"
  /\ state' = [state EXCEPT ![n] = "live"]
  /\ UNCHANGED version

Change(n) ==
  /\ GraphOnly
  /\ n \in Changing \cap Live /\ version[n] < MaxVersion
  /\ version' = [version EXCEPT ![n] = @ + 1]
  /\ UNCHANGED state

(* Superseded, or dropped by the model. *)
Drop(n) ==
  /\ GraphOnly
  /\ n \in (Droppable \cap Live) \ {Mission}
  /\ state' = [state EXCEPT ![n] = "dropped"]
  /\ UNCHANGED version

(* Pinned or expanded again. *)
Restore(n) ==
  /\ GraphOnly
  /\ state[n] = "dropped"
  /\ state' = [state EXCEPT ![n] = "live"]
  /\ UNCHANGED version

(* Expired, or evicted at the cap. *)
Remove(n) ==
  /\ GraphOnly
  /\ n # Mission /\ state[n] \in {"live", "dropped"}
  /\ state' = [state EXCEPT ![n] = "gone"]
  /\ UNCHANGED version

-----------------------------------------------------------------------------
(* CheetahContextEngine.                                                   *)

(* The catch of sync and of recall: all fingerprints are forgotten, those  *)
(* of nodes that are to be deleted too.  A required service that fails in  *)
(* the middle of a session ends it.                                        *)
Failed ==
  /\ prints' = [n \in Nodes |-> 0] /\ edgePrints' = {}
  /\ cooling' = TRUE /\ emptied' = FALSE
  /\ lost' = {n \in Nodes : remote'[n] # 0}
  /\ pc' = IF required \/ job.final THEN "over" ELSE "idle"
  /\ job' = NoJob

(* The fingerprints of edges stay. *)
SyncedKeepsEdges(deleted, final, next) ==
  /\ prints' = [n \in Nodes |-> IF n \in deleted THEN 0 ELSE prints[n]]
  /\ edgePrints' = edgePrints
  /\ lost' = lost \ Live
  /\ pc' = next
  /\ UNCHANGED <<cooling, emptied>>

(* The batch succeeded: only now deleted nodes are forgotten. *)
Synced(deleted, final, next) ==
  /\ prints' = [n \in Nodes |-> IF n \in deleted THEN 0 ELSE prints[n]]
  /\ edgePrints' = edgePrints \ Touching(edgePrints, deleted)
  /\ lost' = lost \ Live
  /\ pc' = next
  /\ UNCHANGED <<cooling, emptied>>

(***************************************************************************)
(* sync, of select or at the end of the session.  The fingerprints of what *)
(* is to be written are set before it is.  When there is nothing to write  *)
(* the server is not asked.                                                *)
(***************************************************************************)
Sync(final) ==
  /\ pc = "idle"
  /\ ~cooling \/ required
  /\ \E focus \in Foci \cup {Mission} :
       LET deleted == {n \in Nodes \ Live : prints[n] # 0}
           sets    == {n \in Live : prints[n] # version[n]}
           edges   == LiveEdges \ edgePrints
       IN /\ job' = [final |-> final, asking |-> deleted \cup sets = {} /\ edges = {},
                     seeds |-> Seeds(focus), deleted |-> deleted,
                     dels |-> deleted, sets |-> sets, edges |-> edges, bad |-> FALSE]
          /\ prints' = [n \in Nodes |-> IF n \in sets THEN version[n] ELSE prints[n]]
          /\ edgePrints' = edgePrints \cup edges
  /\ pc' = IF job'.asking /\ final THEN "over" ELSE "connecting"
  /\ UNCHANGED <<graph, cooling, required, transport, speaks, server, faults,
                 restarts, emptied, lost>>

(* Within the cooldown the session falls back to its graph. *)
Skip(final) ==
  /\ pc = "idle"
  /\ cooling /\ ~required
  /\ pc' = IF final THEN "over" ELSE "idle"
  /\ UNCHANGED <<graph, memo, cooling, required, job, transport, speaks, server,
                 faults, restarts, emptied, lost>>

CoolDown ==
  /\ cooling /\ pc # "over"
  /\ cooling' = FALSE
  /\ UNCHANGED <<pc, graph, memo, required, job, transport, speaks, server,
                 faults, restarts, emptied, lost>>

(***************************************************************************)
(* _ready: a handshake that fails, with a server that is too old or for    *)
(* any other reason, is answered by a second connection that speaks text,  *)
(* as all later ones do.                                                   *)
(***************************************************************************)
Ready ==
  /\ pc = "connecting"
  /\ \/ transport \in speaks /\ UNCHANGED transport
     \/ transport = "binary" /\ transport' = "text"
  /\ pc' = IF job.asking THEN "recalling" ELSE "writing"
  /\ UNCHANGED <<graph, memo, cooling, required, job, speaks, server,
                 faults, restarts, emptied, lost>>

(* A batch that was refused is sent again. *)
AnsweredAgain ==
  /\ pc = "writing"
  /\ job.dels = {} /\ job.sets = {} /\ job.edges = {}
  /\ \/ /\ job.bad
        /\ pc' = "connecting" /\ job' = [job EXCEPT !.dels = job.deleted, !.bad = FALSE]
        /\ UNCHANGED <<memo, cooling, emptied, lost>>
     \/ /\ ~job.bad
        /\ Synced(job.deleted, job.final, IF job.final THEN "over" ELSE "connecting")
        /\ job' = IF job.final THEN NoJob
                  ELSE [NoJob EXCEPT !.asking = TRUE, !.seeds = job.seeds]
  /\ UNCHANGED <<graph, required, transport, speaks, server, faults, restarts>>

(* Every command has been answered. *)
Answered ==
  /\ pc = "writing"
  /\ job.dels = {} /\ job.sets = {} /\ job.edges = {}
  /\ \/ /\ job.bad
        /\ UNCHANGED server
        /\ Failed
     \/ /\ ~job.bad
        /\ Synced(job.deleted, job.final, IF job.final THEN "over" ELSE "connecting")
        /\ job' = IF job.final THEN NoJob
                  ELSE [NoJob EXCEPT !.asking = TRUE, !.seeds = job.seeds]
        /\ UNCHANGED server
  /\ UNCHANGED <<graph, required, transport, speaks, faults, restarts>>

(* The fingerprints stay. *)
RecallKeepsPrints ==
  /\ pc = "recalling"
  /\ pc' = "idle" /\ job' = NoJob
  /\ cooling' = (cooling \/ \E n \in job.seeds : remote[n] = 0)
  /\ UNCHANGED <<graph, memo, required, transport, speaks, server, faults, restarts,
                 emptied, lost>>

(* recall: an unknown seed is an error. *)
Recall ==
  /\ pc = "recalling"
  /\ \/ /\ \E n \in job.seeds : remote[n] = 0
        /\ UNCHANGED server
        /\ Failed
     \/ /\ \A n \in job.seeds : remote[n] # 0
        /\ pc' = "idle" /\ job' = NoJob
        /\ UNCHANGED <<memo, cooling, server, emptied, lost>>
  /\ UNCHANGED <<graph, required, transport, speaks, faults, restarts>>

(***************************************************************************)
(* The connection is refused, lost or times out, or a frame cannot be      *)
(* decoded, which turns the next connection to text.  What was applied is  *)
(* a prefix of the batch; it is not written again.                         *)
(***************************************************************************)
Fault ==
  /\ pc \in {"connecting", "writing", "recalling"}
  /\ faults < MaxFaults /\ faults' = faults + 1
  /\ transport' \in {transport, "text"}
  /\ UNCHANGED server
  /\ Failed
  /\ UNCHANGED <<graph, required, speaks, restarts>>

-----------------------------------------------------------------------------
(* The server.                                                             *)

OnServer ==
  /\ pc = "writing"
  /\ UNCHANGED <<pc, graph, memo, cooling, required, transport, speaks, faults,
                 restarts, emptied, lost>>

(* GRAPH_NODE_DEL with its edges; of an unknown node it may be an error. *)
Delete(n) ==
  /\ OnServer
  /\ n \in job.dels
  /\ remote' = [remote EXCEPT ![n] = 0]
  /\ remoteEdges' = remoteEdges \ Touching(remoteEdges, {n})
  /\ \E bad \in {job.bad, remote[n] = 0 \/ job.bad} :
       job' = [job EXCEPT !.dels = @ \ {n}, !.bad = bad]

(* Without its place in the batch. *)
SetEdgesEarly ==
  /\ OnServer
  /\ job.edges # {}
  /\ LET known == {e \in job.edges : remote[e[1]] # 0 /\ remote[e[2]] # 0}
     IN /\ remoteEdges' = remoteEdges \cup known
        /\ job' = [job EXCEPT !.edges = {}, !.bad = @ \/ known # job.edges]
  /\ UNCHANGED remote

(* GRAPH_NODE_SET, after all that are deleted. *)
Set(n) ==
  /\ OnServer
  /\ job.dels = {} /\ n \in job.sets
  /\ remote' = [remote EXCEPT ![n] = version[n]]
  /\ job' = [job EXCEPT !.sets = @ \ {n}]
  /\ UNCHANGED remoteEdges

(* GRAPH_EDGE_SET_BATCH, last; an edge of an unknown node fails alone. *)
SetEdges ==
  /\ OnServer
  /\ job.dels = {} /\ job.sets = {} /\ job.edges # {}
  /\ LET known == {e \in job.edges : remote[e[1]] # 0 /\ remote[e[2]] # 0}
     IN /\ remoteEdges' = remoteEdges \cup known
        /\ job' = [job EXCEPT !.edges = {}, !.bad = @ \/ known # job.edges]
  /\ UNCHANGED remote

(* The server restarts with an empty directory, which fails what is on its *)
(* way, and is not noticed between two batches.                            *)
Restart ==
  /\ restarts < MaxRestarts /\ restarts' = restarts + 1
  /\ remote' = [n \in Nodes |-> 0] /\ remoteEdges' = {}
  /\ \/ /\ pc \in {"idle", "connecting"}
        /\ emptied' = TRUE /\ lost' = {}
        /\ UNCHANGED <<pc, memo, cooling, job>>
     \/ pc \in {"writing", "recalling"} /\ Failed
  /\ UNCHANGED <<graph, required, transport, speaks, faults>>

Engine ==
  \/ Sync(FALSE) \/ CoolDown \/ Ready \/ Answered \/ Recall
  \/ (\E n \in Nodes : Delete(n) \/ Set(n)) \/ SetEdges

Next ==
  \/ Engine
  \/ \E n \in Nodes : Add(n) \/ Change(n) \/ Drop(n) \/ Restore(n) \/ Remove(n)
  \/ Sync(TRUE)
  \/ \E final \in BOOLEAN : Skip(final)
  \/ Fault \/ Restart

Spec == Init /\ [][Next]_vars

(* Prompt follows prompt until the session ends, and the server answers.   *)
FairSpec ==
  /\ Spec
  /\ WF_vars(Sync(FALSE)) /\ WF_vars(CoolDown) /\ WF_vars(Ready) /\ WF_vars(Answered)
  /\ WF_vars(Recall) /\ WF_vars(\E n \in Nodes : Delete(n) \/ Set(n)) /\ WF_vars(SetEdges)

-----------------------------------------------------------------------------
TypeOK ==
  /\ pc \in {"idle", "connecting", "writing", "recalling", "over"}
  /\ state \in [Nodes -> {"new", "live", "dropped", "gone"}]
  /\ version \in [Nodes -> Version]
  /\ prints \in [Nodes -> 0..MaxVersion] /\ edgePrints \subseteq Edge
  /\ cooling \in BOOLEAN /\ required \in BOOLEAN
  /\ job \in [final : BOOLEAN, asking : BOOLEAN, seeds : SUBSET Nodes,
              deleted : SUBSET Nodes, dels : SUBSET Nodes, sets : SUBSET Nodes,
              edges : SUBSET Edge, bad : BOOLEAN]
  /\ transport \in {"binary", "text"} /\ speaks \subseteq {"binary", "text"}
  /\ remote \in [Nodes -> 0..MaxVersion] /\ remoteEdges \subseteq Edge
  /\ faults \in 0..MaxFaults /\ restarts \in 0..MaxRestarts
  /\ emptied \in BOOLEAN /\ lost \subseteq Nodes

(* The server holds the graph, but for what was lost. *)
InStep ==
  /\ \A n \in Nodes \ lost : remote[n] = IF n \in Live THEN version[n] ELSE 0
  /\ remoteEdges \ Touching(remoteEdges, lost) = LiveEdges \ Touching(LiveEdges, lost)

(***************************************************************************)
(* When the server is asked which nodes matter, it holds the graph as it   *)
(* is: every live node in its version and every edge, also of nodes that   *)
(* were deleted and came back, also after batches of which only a prefix   *)
(* was applied; nothing else but nodes whose deletion was lost with their  *)
(* fingerprints.                                                           *)
(***************************************************************************)
RecallSeesGraph == pc = "recalling" /\ ~emptied => InStep

(***************************************************************************)
(* As long as the transport holds and the server keeps its data nothing    *)
(* fails: no order of changes to the graph makes a batch the server        *)
(* refuses, and an old server costs no prompt its recall.                  *)
(***************************************************************************)
OnlyFaultsFail == faults = 0 /\ restarts = 0 => ~cooling /\ ~job.bad

(***************************************************************************)
(* How far a sync and its recall may still have to go: the commands that   *)
(* are not answered, and the connections and the recall around them.       *)
(***************************************************************************)
Unanswered ==
  Cardinality(job.dels) + Cardinality(job.sets) + (IF job.edges = {} THEN 0 ELSE 1)

Remaining ==
  CASE pc = "recalling"                  -> 1
    [] pc = "connecting" /\ job.asking   -> 2
    [] pc = "writing"                    -> 3 + Unanswered
    [] pc = "connecting" /\ ~job.asking  -> 4 + Unanswered
    [] OTHER                             -> 0

(***************************************************************************)
(* The engine never holds up a prompt: from its sync to the answer of its  *)
(* recall each step brings it nearer, whether a batch is refused, a second *)
(* connection is made or the server restarts below it; nothing is tried    *)
(* twice.  The clock, and a restart that is not noticed, take nothing.     *)
(***************************************************************************)
JobShrinks ==
  [][Remaining > 0 =>
       /\ Remaining' \in Nat
       /\ \/ Remaining' < Remaining
          \/ UNCHANGED Remaining /\ (cooling' # cooling \/ restarts' # restarts)]_vars

(***************************************************************************)
(* The mirror recovers: whatever failed, as long as prompts follow there   *)
(* are recalls of the graph as it is, also after the server forgot all.    *)
(***************************************************************************)
MirrorRecovers == []<>(pc = "over" \/ (pc = "recalling" /\ InStep))

(***************************************************************************)
(* README.md:174: with a required service, only a missing graph service    *)
(* stops the model's turn.                                                 *)
(***************************************************************************)
StopsOnlyWhenMissing ==
  required /\ cooling /\ pc = "over" => faults > 0 \/ restarts > 0

=============================================================================
