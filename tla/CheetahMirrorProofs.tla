------------------------- MODULE CheetahMirrorProofs -------------------------
(***************************************************************************)
(* The mirror of the context graph, for any nodes, edges and versions, and *)
(* any number of faults and restarts: what a recall may count on, and that *)
(* only the transport and the server make the engine fail.                 *)
(***************************************************************************)
EXTENDS CheetahMirror, FiniteSetTheorems, TLAPS

Busy == pc \in {"connecting", "writing", "recalling"}

(* What the graph may relate. *)
Relation == {e \in Related \cup ({Mission} \X Nodes) : e[1] # e[2]}

(* The server holds no edge without its nodes. *)
ServerEdges ==
  \A e \in remoteEdges : e \in Relation /\ remote[e[1]] # 0 /\ remote[e[2]] # 0

(* Between two prompts: fingerprints tell what is on the server, but for   *)
(* what was lost with them.                                                *)
AtRest ==
  pc = "idle" =>
    /\ \A n \in lost : prints[n] = 0
    /\ ~emptied => /\ \A n \in Nodes \ lost : prints[n] = remote[n]
                   /\ edgePrints \subseteq remoteEdges

(* While a batch is prepared, applied and followed by a recall: what it is *)
(* made of, and the fingerprints, which are ahead of the server.           *)
Batch ==
  Busy =>
    /\ job.sets \subseteq Live /\ job.dels \subseteq job.deleted
    /\ job.deleted \cap Live = {} /\ job.edges \subseteq LiveEdges
    /\ \A n \in Live : prints[n] = version[n]
    /\ \A n \in Nodes \ Live : prints[n] # 0 <=> n \in job.deleted
    /\ LiveEdges \subseteq edgePrints

(* A session asks when there is nothing left to write. *)
Asking ==
  /\ Busy /\ job.asking =>
       job.deleted = {} /\ job.dels = {} /\ job.sets = {} /\ job.edges = {} /\ lost \cap Live = {}
  /\ pc = "recalling" => job.asking
  /\ Busy => \A n \in lost \ Live : prints[n] = 0

(* What is no longer in the batch is on the server. *)
Applied ==
  Busy /\ ~emptied =>
    /\ \A n \in Nodes \ (job.dels \cup job.sets) :
         n \notin lost \/ n \in Live => remote[n] = IF n \in Live THEN version[n] ELSE 0
    /\ \A n \in job.dels : remote[n] # 0
    /\ \A e \in edgePrints :
         e \in remoteEdges \/ e \in job.edges \/ e[1] \in job.deleted \/ e[2] \in job.deleted

(* What a recall starts from. *)
Seeded ==
  /\ state[Mission] = "live"
  /\ \A n \in Nodes : state[n] = "dropped" => n \in Droppable
  /\ Busy /\ Foci \cap Droppable = {} => job.seeds \subseteq Live

Faultless ==
  Foci \cap Droppable = {} /\ faults = 0 /\ restarts = 0 => ~cooling /\ ~job.bad /\ ~emptied

MirrorInv ==
  TypeOK /\ ServerEdges /\ AtRest /\ Batch /\ Asking /\ Applied /\ Seeded /\ Faultless

-----------------------------------------------------------------------------
LEMMA MirrorBounds ==
  /\ Mission \in Nodes /\ Foci \subseteq Nodes
  /\ MaxVersion \in Nat /\ MaxVersion >= 1 /\ MaxFaults \in Nat /\ MaxRestarts \in Nat
  BY MirrorAssumption

LEMMA RelationIsEdges ==
  /\ Relation \subseteq Edge
  /\ LiveEdges = {e \in Relation : e[1] \in Live /\ e[2] \in Live}
<1>1. Relation \subseteq Edge
  BY MirrorAssumption DEF Relation, Edge
<1>2. LiveEdges = {e \in Relation : e[1] \in Live /\ e[2] \in Live}
  BY DEF LiveEdges, Relation
<1> QED
  BY <1>1, <1>2

LEMMA MirrorInit == Init => MirrorInv
<1> SUFFICES ASSUME Init PROVE MirrorInv
  OBVIOUS
<1> USE MirrorBounds DEF Init
<1>1. TypeOK
  <2>1. /\ state \in [Nodes -> {"new", "live", "dropped", "gone"}] /\ version \in [Nodes -> Version]
        /\ prints \in [Nodes -> 0..MaxVersion] /\ remote \in [Nodes -> 0..MaxVersion]
    BY DEF Version
  <2>2. job \in [final : BOOLEAN, asking : BOOLEAN, seeds : SUBSET Nodes,
                deleted : SUBSET Nodes, dels : SUBSET Nodes, sets : SUBSET Nodes,
                edges : SUBSET Edge, bad : BOOLEAN]
    BY DEF NoJob
  <2>3. speaks \subseteq {"binary", "text"} /\ transport \in {"binary", "text"}
    OBVIOUS
  <2>4. edgePrints \subseteq Edge /\ remoteEdges \subseteq Edge /\ lost \subseteq Nodes
    OBVIOUS
  <2>5. cooling \in BOOLEAN /\ required \in BOOLEAN /\ emptied \in BOOLEAN
    BY Zenon
  <2>6. /\ faults \in 0..MaxFaults /\ restarts \in 0..MaxRestarts
        /\ pc \in {"idle", "connecting", "writing", "recalling", "over"}
    OBVIOUS
  <2> HIDE DEF Init
  <2> QED
    BY <2>1, <2>2, <2>3, <2>4, <2>5, <2>6 DEF TypeOK
<1>2. ServerEdges /\ AtRest
  BY DEF ServerEdges, AtRest
<1>3. Batch /\ Asking /\ Applied
  BY DEF Batch, Asking, Applied, Busy
<1>4. Seeded /\ Faultless
  BY DEF Seeded, Faultless, Busy, NoJob
<1> QED
  BY <1>1, <1>2, <1>3, <1>4 DEF MirrorInv

-----------------------------------------------------------------------------
(* The type of what a failure leaves. *)
LEMMA FailedType ==
  ASSUME TypeOK, Failed, remote' \in [Nodes -> 0..MaxVersion]
  PROVE  /\ pc' \in {"idle", "connecting", "writing", "recalling", "over"}
         /\ prints' \in [Nodes -> 0..MaxVersion] /\ edgePrints' \subseteq Edge
         /\ cooling' \in BOOLEAN /\ emptied' \in BOOLEAN /\ lost' \subseteq Nodes
         /\ job' \in [final : BOOLEAN, asking : BOOLEAN, seeds : SUBSET Nodes,
                      deleted : SUBSET Nodes, dels : SUBSET Nodes, sets : SUBSET Nodes,
                      edges : SUBSET Edge, bad : BOOLEAN]
<1>1. prints' \in [Nodes -> 0..MaxVersion] /\ edgePrints' \subseteq Edge
  BY MirrorBounds DEF Failed
<1>2. cooling' \in BOOLEAN /\ emptied' \in BOOLEAN /\ lost' \subseteq Nodes
  BY DEF Failed
<1>3. pc' \in {"idle", "connecting", "writing", "recalling", "over"}
  BY DEF Failed
<1>4. job' \in [final : BOOLEAN, asking : BOOLEAN, seeds : SUBSET Nodes,
               deleted : SUBSET Nodes, dels : SUBSET Nodes, sets : SUBSET Nodes,
               edges : SUBSET Edge, bad : BOOLEAN]
  BY DEF Failed, NoJob
<1> QED
  BY <1>1, <1>2, <1>3, <1>4

LEMMA SyncType ==
  ASSUME TypeOK, NEW final \in BOOLEAN, Sync(final)
  PROVE  TypeOK'
<1> USE MirrorBounds
<1>1. PICK focus \in Foci \cup {Mission} :
        LET deleted == {n \in Nodes \ Live : prints[n] # 0}
            sets    == {n \in Live : prints[n] # version[n]}
            edges   == LiveEdges \ edgePrints
        IN /\ job' = [final |-> final, asking |-> deleted \cup sets = {} /\ edges = {},
                      seeds |-> Seeds(focus), deleted |-> deleted,
                      dels |-> deleted, sets |-> sets, edges |-> edges, bad |-> FALSE]
           /\ prints' = [n \in Nodes |-> IF n \in sets THEN version[n] ELSE prints[n]]
           /\ edgePrints' = edgePrints \cup edges
  BY DEF Sync
<1>2. LiveEdges \subseteq Edge /\ Live \subseteq Nodes /\ Seeds(focus) \subseteq Nodes
  BY RelationIsEdges DEF Live, Seeds
<1>3. edgePrints' \subseteq Edge /\ prints' \in [Nodes -> 0..MaxVersion]
  BY <1>1, <1>2 DEF TypeOK, Version
<1>4. job' \in [final : BOOLEAN, asking : BOOLEAN, seeds : SUBSET Nodes,
                deleted : SUBSET Nodes, dels : SUBSET Nodes, sets : SUBSET Nodes,
                edges : SUBSET Edge, bad : BOOLEAN]
  <2> DEFINE deleted == {n \in Nodes \ Live : prints[n] # 0}
             sets    == {n \in Live : prints[n] # version[n]}
             edges   == LiveEdges \ edgePrints
             asking  == deleted \cup sets = {} /\ edges = {}
  <2>1. deleted \in SUBSET Nodes /\ sets \in SUBSET Nodes /\ edges \in SUBSET Edge
    BY <1>2
  <2>2. job' = [final |-> final, asking |-> asking, seeds |-> Seeds(focus),
                deleted |-> deleted, dels |-> deleted, sets |-> sets, edges |-> edges,
                bad |-> FALSE]
    BY <1>1
  <2>3. asking \in BOOLEAN
    OBVIOUS
  <2> HIDE DEF deleted, sets, edges, asking
  <2> QED
    BY <1>2, <2>1, <2>2, <2>3
<1>5. pc' \in {"over", "connecting"}
  BY DEF Sync
<1> QED
  BY <1>3, <1>4, <1>5 DEF Sync, TypeOK, graph, server

LEMMA SyncedType ==
  ASSUME TypeOK, Answered, ~job.bad
  PROVE  TypeOK'
<1> USE MirrorBounds
<1>0. /\ Synced(job.deleted, job.final, IF job.final THEN "over" ELSE "connecting")
      /\ job' = IF job.final THEN NoJob
                ELSE [NoJob EXCEPT !.asking = TRUE, !.seeds = job.seeds]
      /\ UNCHANGED server /\ UNCHANGED <<graph, required, transport, speaks, faults, restarts>>
  BY DEF Answered
<1>1. prints' \in [Nodes -> 0..MaxVersion]
  BY <1>0 DEF Synced, TypeOK
<1>2. edgePrints' \subseteq Edge /\ lost' \subseteq Nodes
  BY <1>0 DEF Synced, TypeOK
<1>3. job' \in [final : BOOLEAN, asking : BOOLEAN, seeds : SUBSET Nodes,
                deleted : SUBSET Nodes, dels : SUBSET Nodes, sets : SUBSET Nodes,
                edges : SUBSET Edge, bad : BOOLEAN]
  BY <1>0 DEF TypeOK, NoJob
<1> QED
  BY <1>0, <1>1, <1>2, <1>3 DEF Synced, TypeOK, graph, server

LEMMA MirrorTypeNext == TypeOK /\ [Next]_vars => TypeOK'
<1> SUFFICES ASSUME TypeOK, [Next]_vars PROVE TypeOK'
  OBVIOUS
<1> USE MirrorBounds
<1>1. ASSUME NEW n \in Nodes, Add(n) \/ Drop(n) \/ Restore(n) \/ Remove(n) PROVE TypeOK'
  BY <1>1 DEF Add, Drop, Restore, Remove, GraphOnly, TypeOK, memo, server
<1>2. ASSUME NEW n \in Nodes, Change(n) PROVE TypeOK'
  BY <1>2 DEF Change, GraphOnly, TypeOK, memo, server, Version
<1>3. ASSUME NEW final \in BOOLEAN, Sync(final) PROVE TypeOK'
  BY <1>3, SyncType
<1>4. ASSUME NEW final \in BOOLEAN, Skip(final) PROVE TypeOK'
  BY <1>4 DEF Skip, TypeOK, graph, memo, server
<1>5. CASE CoolDown
  BY <1>5 DEF CoolDown, TypeOK, graph, memo, server
<1>6. CASE Ready
  BY <1>6 DEF Ready, TypeOK, graph, memo, server
<1>7. CASE Answered
  <2>1. CASE job.bad
    BY <1>7, <2>1, FailedType DEF Answered, TypeOK, graph, server
  <2>2. CASE ~job.bad
    BY <1>7, <2>2, SyncedType
  <2> QED
    BY <2>1, <2>2
<1>8. CASE Recall
  <2>1. CASE Failed /\ UNCHANGED server
    BY <1>8, <2>1, FailedType DEF Recall, TypeOK, graph, server
  <2>2. CASE pc' = "idle" /\ job' = NoJob /\ UNCHANGED <<memo, cooling, server, emptied, lost>>
    BY <1>8, <2>2 DEF Recall, TypeOK, NoJob, graph, memo, server
  <2> QED
    BY <1>8, <2>1, <2>2 DEF Recall
<1>9. CASE Fault
  BY <1>9, FailedType DEF Fault, TypeOK, graph, server
<1>10. CASE Restart
  <2>1. remote' \in [Nodes -> 0..MaxVersion] /\ remoteEdges' \subseteq Edge
    BY <1>10 DEF Restart
  <2>2. CASE Failed
    BY <1>10, <2>1, <2>2, FailedType DEF Restart, TypeOK, graph
  <2>3. CASE emptied' = TRUE /\ lost' = {} /\ UNCHANGED <<pc, memo, cooling, job>>
    BY <1>10, <2>1, <2>3 DEF Restart, TypeOK, graph, memo
  <2> QED
    BY <1>10, <2>2, <2>3 DEF Restart
<1>11. ASSUME NEW n \in Nodes, Delete(n) PROVE TypeOK'
  <2>1. remote' \in [Nodes -> 0..MaxVersion] /\ remoteEdges' \subseteq Edge
    BY <1>11 DEF Delete, TypeOK
  <2>2. PICK bad \in BOOLEAN : job' = [job EXCEPT !.dels = @ \ {n}, !.bad = bad]
    BY <1>11 DEF Delete, TypeOK
  <2> QED
    BY <1>11, <2>1, <2>2 DEF Delete, OnServer, TypeOK, graph, memo
<1>12. ASSUME NEW n \in Nodes, Set(n) PROVE TypeOK'
  BY <1>12 DEF Set, OnServer, TypeOK, Version, graph, memo
<1>13. CASE SetEdges
  <2>1. remoteEdges' \subseteq Edge /\ UNCHANGED remote
    BY <1>13 DEF SetEdges, TypeOK
  <2>2. PICK bad \in BOOLEAN : job' = [job EXCEPT !.edges = {}, !.bad = bad]
    BY <1>13 DEF SetEdges, TypeOK
  <2> QED
    BY <1>13, <2>1, <2>2 DEF SetEdges, OnServer, TypeOK, graph, memo
<1>14. CASE UNCHANGED vars
  BY <1>14 DEF vars, TypeOK, graph, memo, server
<1> QED
  BY <1>1, <1>2, <1>3, <1>4, <1>5, <1>6, <1>7, <1>8, <1>9, <1>10, <1>11, <1>12, <1>13, <1>14
  DEF Next, Engine

(* Every variable keeps its type, and faults and restarts their bounds. *)
THEOREM MirrorTypeCorrect == Spec => []TypeOK
<1>1. Init => TypeOK
  BY MirrorInit DEF MirrorInv
<1> QED
  BY <1>1, MirrorTypeNext, PTL DEF Spec

-----------------------------------------------------------------------------
(* While the session changes the graph nothing is on its way. *)
LEMMA GraphKeeps ==
  ASSUME MirrorInv, TypeOK', NEW n \in Nodes,
         Add(n) \/ Change(n) \/ Drop(n) \/ Restore(n) \/ Remove(n)
  PROVE  MirrorInv'
<1>1. pc = "idle" /\ UNCHANGED <<pc, memo, cooling, required, job, transport, speaks, server,
                                 faults, restarts, emptied, lost>>
  BY DEF Add, Change, Drop, Restore, Remove, GraphOnly
<1>2. ServerEdges' /\ AtRest'
  BY <1>1 DEF MirrorInv, ServerEdges, AtRest, memo, server
<1>3. Batch' /\ Asking' /\ Applied'
  BY <1>1 DEF Batch, Asking, Applied, Busy
<1>4. Seeded'
  <2>1. state'[Mission] = "live"
    BY MirrorBounds DEF MirrorInv, Seeded, TypeOK, Add, Change, Drop, Restore, Remove
  <2>2. \A m \in Nodes : state'[m] = "dropped" => m \in Droppable
    BY DEF MirrorInv, Seeded, TypeOK, Add, Change, Drop, Restore, Remove
  <2> QED
    BY <1>1, <2>1, <2>2 DEF Seeded, Busy
<1>5. Faultless'
  BY <1>1 DEF MirrorInv, Faultless
<1> QED
  BY <1>2, <1>3, <1>4, <1>5 DEF MirrorInv

(* After a failure the fingerprints say nothing, and all that is on the    *)
(* server is lost.                                                         *)
LEMMA FailedKeeps ==
  ASSUME MirrorInv, TypeOK', Failed, UNCHANGED graph, ServerEdges', Faultless'
  PROVE  MirrorInv'
<1>1. pc' \in {"idle", "over"}
  BY DEF Failed
<1>2. AtRest'
  BY DEF Failed, AtRest, MirrorInv, TypeOK
<1>3. Batch' /\ Asking' /\ Applied'
  BY <1>1 DEF Batch, Asking, Applied, Busy
<1>4. Seeded'
  BY <1>1 DEF MirrorInv, Seeded, Busy, graph
<1> QED
  BY <1>2, <1>3, <1>4 DEF MirrorInv

(* A sync takes for the batch just what the fingerprints do not cover. *)
LEMMA SyncKeeps ==
  ASSUME MirrorInv, TypeOK', NEW final \in BOOLEAN, Sync(final)
  PROVE  MirrorInv'
<1> USE MirrorBounds
<1> DEFINE deleted == {n \in Nodes \ Live : prints[n] # 0}
           sets    == {n \in Live : prints[n] # version[n]}
           edges   == LiveEdges \ edgePrints
<1>1. PICK focus \in Foci \cup {Mission} :
        /\ job' = [final |-> final, asking |-> deleted \cup sets = {} /\ edges = {},
                   seeds |-> Seeds(focus), deleted |-> deleted,
                   dels |-> deleted, sets |-> sets, edges |-> edges, bad |-> FALSE]
        /\ prints' = [n \in Nodes |-> IF n \in sets THEN version[n] ELSE prints[n]]
        /\ edgePrints' = edgePrints \cup edges
  BY DEF Sync
<1>2. /\ job'.deleted = deleted /\ job'.dels = deleted /\ job'.sets = sets
      /\ job'.edges = edges /\ job'.seeds = Seeds(focus) /\ ~job'.bad
      /\ job'.asking => deleted = {} /\ sets = {} /\ edges = {}
  BY <1>1
<1>3. /\ pc = "idle" /\ pc' \in {"over", "connecting"}
      /\ UNCHANGED <<graph, cooling, required, transport, speaks, server, faults,
                     restarts, emptied, lost>>
  BY DEF Sync
<1>4. Live' = Live /\ LiveEdges' = LiveEdges /\ Live \subseteq Nodes
  BY <1>3 DEF Live, LiveEdges, graph
<1>5. \A n \in Nodes : version[n] # 0 /\ version'[n] = version[n]
  BY <1>3 DEF MirrorInv, TypeOK, Version, graph
<1>6. /\ \A n \in lost : n \in Nodes /\ prints[n] = 0
      /\ ~emptied => /\ \A n \in Nodes \ lost : prints[n] = remote[n]
                     /\ edgePrints \subseteq remoteEdges
  BY <1>3 DEF MirrorInv, AtRest, TypeOK
<1>7. ServerEdges' /\ AtRest'
  BY <1>3 DEF MirrorInv, ServerEdges, AtRest, server
<1>8. /\ \A n \in Live : prints'[n] = version[n]
      /\ \A n \in Nodes \ Live : prints'[n] = prints[n]
  BY <1>1, <1>4
<1>9. Batch'
  <2>1. /\ job'.sets \subseteq Live /\ job'.dels \subseteq job'.deleted
        /\ job'.deleted \cap Live = {} /\ job'.edges \subseteq LiveEdges
    BY <1>2
  <2>2. \A n \in Live : prints'[n] = version'[n]
    BY <1>4, <1>5, <1>8
  <2>3. \A n \in Nodes \ Live : prints'[n] # 0 <=> n \in job'.deleted
    BY <1>2, <1>8
  <2>4. LiveEdges \subseteq edgePrints'
    BY <1>1
  <2> QED
    BY <1>4, <2>1, <2>2, <2>3, <2>4 DEF Batch
<1>10. Asking'
  <2>1. job'.asking => lost \cap Live = {}
    BY <1>2, <1>4, <1>5, <1>6
  <2>2. \A n \in lost \ Live : prints'[n] = 0
    BY <1>6, <1>8
  <2> QED
    BY <1>2, <1>3, <1>4, <2>1, <2>2 DEF Asking
<1>11. Applied'
  <2> SUFFICES ASSUME ~emptied
               PROVE  /\ \A n \in Nodes \ (deleted \cup sets) :
                           n \notin lost \/ n \in Live =>
                             remote[n] = IF n \in Live THEN version[n] ELSE 0
                      /\ \A n \in deleted : remote[n] # 0
                      /\ \A e \in edgePrints \cup edges : e \in remoteEdges \/ e \in edges
    BY <1>1, <1>2, <1>3, <1>4, <1>5 DEF Applied, server
  <2>1. ASSUME NEW n \in Nodes \ (deleted \cup sets), n \notin lost \/ n \in Live
        PROVE  remote[n] = IF n \in Live THEN version[n] ELSE 0
    BY <1>5, <1>6, <2>1
  <2>2. ASSUME NEW n \in deleted PROVE remote[n] # 0
    BY <1>6
  <2> QED
    BY <1>6, <2>1, <2>2
<1>12. Seeded'
  <2>1. Foci \cap Droppable = {} => Seeds(focus) \subseteq Live
    BY DEF MirrorInv, Seeded, Seeds, Live
  <2> QED
    BY <1>2, <1>3, <1>4, <2>1 DEF MirrorInv, Seeded, graph
<1>13. Faultless'
  BY <1>2, <1>3 DEF MirrorInv, Faultless
<1> QED
  BY <1>7, <1>9, <1>10, <1>11, <1>12, <1>13 DEF MirrorInv

(* The batch was applied: fingerprints and server agree again. *)
LEMMA SyncedKeeps ==
  ASSUME MirrorInv, TypeOK', Answered, ~job.bad
  PROVE  MirrorInv'
<1> USE MirrorBounds
<1>1. /\ pc = "writing" /\ job.dels = {} /\ job.sets = {} /\ job.edges = {}
      /\ pc' \in {"over", "connecting"}
      /\ prints' = [n \in Nodes |-> IF n \in job.deleted THEN 0 ELSE prints[n]]
      /\ edgePrints' = edgePrints \ Touching(edgePrints, job.deleted)
      /\ lost' = lost \ Live
      /\ UNCHANGED <<graph, cooling, required, transport, speaks, server, faults,
                     restarts, emptied>>
  BY DEF Answered, Synced
<1>2. job' = IF job.final THEN NoJob ELSE [NoJob EXCEPT !.asking = TRUE, !.seeds = job.seeds]
  BY DEF Answered
<1>3. /\ job'.deleted = {} /\ job'.dels = {} /\ job'.sets = {} /\ job'.edges = {} /\ ~job'.bad
      /\ pc' # "over" => job'.seeds = job.seeds
  BY <1>2 DEF NoJob, Answered, Synced
<1>4. Live' = Live /\ LiveEdges' = LiveEdges /\ Live \subseteq Nodes /\ version' = version
  BY <1>1 DEF Live, LiveEdges, graph
<1>5. /\ \A n \in Live : prints[n] = version[n] /\ n \notin job.deleted
      /\ \A n \in Nodes \ Live : prints[n] # 0 <=> n \in job.deleted
      /\ \A n \in lost \ Live : prints[n] = 0
      /\ LiveEdges \subseteq edgePrints
  BY <1>1 DEF MirrorInv, Batch, Asking, Busy
<1>6. ServerEdges' /\ AtRest'
  BY <1>1 DEF MirrorInv, ServerEdges, AtRest, server
<1>7. /\ \A n \in Live : prints'[n] = version[n]
      /\ \A n \in Nodes \ Live : prints'[n] = 0
  BY <1>1, <1>4, <1>5
<1>8. Batch'
  <2>1. LiveEdges \subseteq edgePrints'
    BY <1>1, <1>5, RelationIsEdges DEF Touching
  <2> QED
    BY <1>3, <1>4, <1>7, <2>1 DEF Batch
<1>9. Asking'
  <2>1. \A n \in lost' \ Live : prints'[n] = 0
    BY <1>1, <1>7 DEF MirrorInv, TypeOK
  <2> QED
    BY <1>1, <1>3, <1>4, <2>1 DEF Asking
<1>10. Applied'
  <2> SUFFICES ASSUME ~emptied
               PROVE  /\ \A n \in Nodes : n \notin lost \ Live \/ n \in Live =>
                           remote[n] = IF n \in Live THEN version[n] ELSE 0
                      /\ \A e \in edgePrints' : e \in remoteEdges
    BY <1>1, <1>3, <1>4 DEF Applied, server
  <2>1. \A n \in Nodes : n \notin lost \/ n \in Live =>
          remote[n] = IF n \in Live THEN version[n] ELSE 0
    BY <1>1 DEF MirrorInv, Applied, Busy
  <2>2. \A e \in edgePrints : e \in remoteEdges \/ e[1] \in job.deleted \/ e[2] \in job.deleted
    BY <1>1 DEF MirrorInv, Applied, Busy
  <2> QED
    BY <1>1, <2>1, <2>2 DEF Touching
<1>11. Seeded'
  BY <1>1, <1>3, <1>4 DEF MirrorInv, Seeded, Busy, graph
<1>12. Faultless'
  BY <1>1, <1>3 DEF MirrorInv, Faultless
<1> QED
  BY <1>6, <1>8, <1>9, <1>10, <1>11, <1>12 DEF MirrorInv

LEMMA AnsweredKeeps ==
  ASSUME MirrorInv, TypeOK', Answered
  PROVE  MirrorInv'
<1>1. CASE ~job.bad
  BY <1>1, SyncedKeeps
<1>2. CASE job.bad
  <2>1. Failed /\ UNCHANGED <<graph, server, faults, restarts>>
    BY <1>2 DEF Answered
  <2>2. ServerEdges' /\ Faultless'
    BY <1>2, <2>1 DEF MirrorInv, ServerEdges, Faultless, server
  <2> QED
    BY <2>1, <2>2, FailedKeeps
<1> QED
  BY <1>1, <1>2

(* All live nodes are on the server once the batch has been applied. *)
LEMMA LiveAreThere ==
  ASSUME MirrorInv, Busy, ~emptied, NEW n \in Live \ job.sets
  PROVE  remote[n] = version[n] /\ remote[n] # 0
<1>1. n \in Nodes /\ n \notin job.dels
  BY DEF MirrorInv, Batch, Live
<1>2. remote[n] = version[n]
  BY <1>1 DEF MirrorInv, Applied
<1> QED
  BY <1>1, <1>2 DEF MirrorInv, TypeOK, Version

LEMMA RecallKeeps ==
  ASSUME MirrorInv, TypeOK', Recall
  PROVE  MirrorInv'
<1>0. /\ pc = "recalling" /\ Busy /\ job.asking
      /\ job.deleted = {} /\ job.dels = {} /\ job.sets = {} /\ job.edges = {}
      /\ lost \cap Live = {} /\ UNCHANGED <<graph, server, faults, restarts>>
  BY DEF MirrorInv, Asking, Recall, Busy
<1>1. CASE Failed /\ \E n \in job.seeds : remote[n] = 0
  <2>1. ServerEdges'
    BY <1>0 DEF MirrorInv, ServerEdges, server
  <2>2. Faultless'
    <3> SUFFICES ASSUME Foci \cap Droppable = {}, faults = 0, restarts = 0 PROVE FALSE
      BY <1>0 DEF Faultless
    <3>1. ~emptied /\ job.seeds \subseteq Live
      BY <1>0 DEF MirrorInv, Faultless, Seeded
    <3> QED
      BY <1>0, <1>1, <3>1, LiveAreThere
  <2> QED
    BY <1>0, <1>1, <2>1, <2>2, FailedKeeps
<1>2. CASE pc' = "idle" /\ job' = NoJob /\ UNCHANGED <<memo, cooling, server, emptied, lost>>
  <2>1. ServerEdges'
    BY <1>2 DEF MirrorInv, ServerEdges, server
  <2>2. AtRest'
    <3>1. \A n \in lost : prints[n] = 0
      BY <1>0 DEF MirrorInv, Asking
    <3>2. ASSUME ~emptied, NEW n \in Nodes \ lost PROVE prints[n] = remote[n]
      <4>1. n \in Live => prints[n] = version[n] /\ remote[n] = version[n]
        BY <1>0, <3>2, LiveAreThere DEF MirrorInv, Batch
      <4>2. n \notin Live => prints[n] = 0 /\ remote[n] = 0
        BY <1>0, <3>2 DEF MirrorInv, Batch, Applied
      <4> QED
        BY <4>1, <4>2
    <3>3. ~emptied => edgePrints \subseteq remoteEdges
      BY <1>0 DEF MirrorInv, Applied
    <3> QED
      BY <1>2, <3>1, <3>2, <3>3 DEF AtRest, memo, server
  <2>3. Batch' /\ Asking' /\ Applied'
    BY <1>2 DEF Batch, Asking, Applied, Busy
  <2>4. Seeded' /\ Faultless'
    BY <1>0, <1>2 DEF MirrorInv, Seeded, Faultless, Busy, NoJob, graph
  <2> QED
    BY <2>1, <2>2, <2>3, <2>4 DEF MirrorInv
<1> QED
  BY <1>1, <1>2 DEF Recall

-----------------------------------------------------------------------------
(* The commands of the batch. *)

LEMMA DeleteKeeps ==
  ASSUME MirrorInv, TypeOK', NEW n \in Nodes, Delete(n)
  PROVE  MirrorInv'
<1>1. /\ pc = "writing" /\ Busy /\ n \in job.dels
      /\ remote' = [remote EXCEPT ![n] = 0]
      /\ remoteEdges' = remoteEdges \ Touching(remoteEdges, {n})
      /\ UNCHANGED <<pc, graph, memo, cooling, required, transport, speaks, faults,
                     restarts, emptied, lost>>
  BY DEF Delete, OnServer, Busy
<1>2. /\ job'.deleted = job.deleted /\ job'.dels = job.dels \ {n} /\ job'.sets = job.sets
      /\ job'.edges = job.edges /\ job'.seeds = job.seeds /\ job'.asking = job.asking
      /\ job'.bad => job.bad \/ remote[n] = 0
  BY DEF Delete, MirrorInv, TypeOK
<1>3. Live' = Live /\ LiveEdges' = LiveEdges /\ Busy' /\ n \notin Live /\ n \in job.deleted
  BY <1>1 DEF Live, LiveEdges, graph, Busy, MirrorInv, Batch
<1>4. \A m \in Nodes : remote'[m] = IF m = n THEN 0 ELSE remote[m]
  BY <1>1 DEF MirrorInv, TypeOK
<1>5. ServerEdges'
  <2>1. \A e \in remoteEdges' : e \in remoteEdges /\ e[1] # n /\ e[2] # n
    BY <1>1 DEF Touching
  <2>2. \A e \in remoteEdges : e[1] \in Nodes /\ e[2] \in Nodes
    BY DEF MirrorInv, TypeOK, Edge
  <2> QED
    BY <1>4, <2>1, <2>2 DEF MirrorInv, ServerEdges
<1>6. AtRest' /\ Batch' /\ Asking' /\ Seeded'
  BY <1>1, <1>2, <1>3 DEF MirrorInv, AtRest, Batch, Asking, Seeded, graph, memo
<1>7. Applied'
  <2> SUFFICES ASSUME ~emptied
               PROVE  /\ \A m \in Nodes \ (job'.dels \cup job.sets) :
                           m \notin lost \/ m \in Live =>
                             remote'[m] = IF m \in Live THEN version[m] ELSE 0
                      /\ \A m \in job'.dels : remote'[m] # 0
                      /\ \A e \in edgePrints : \/ e \in remoteEdges' \/ e \in job.edges
                                               \/ e[1] \in job.deleted \/ e[2] \in job.deleted
    BY <1>1, <1>2, <1>3 DEF Applied, graph, memo
  <2>1. \A m \in Nodes \ (job'.dels \cup job.sets) :
          m \notin lost \/ m \in Live => remote'[m] = IF m \in Live THEN version[m] ELSE 0
    BY <1>1, <1>2, <1>3, <1>4 DEF MirrorInv, Applied
  <2>2. \A m \in job'.dels : remote'[m] # 0
    BY <1>1, <1>2, <1>4 DEF MirrorInv, Applied, TypeOK
  <2>3. \A e \in edgePrints : \/ e \in remoteEdges' \/ e \in job.edges
                              \/ e[1] \in job.deleted \/ e[2] \in job.deleted
    BY <1>1, <1>3 DEF MirrorInv, Applied, Touching
  <2> QED
    BY <2>1, <2>2, <2>3
<1>8. Faultless'
  BY <1>1, <1>2 DEF MirrorInv, Faultless, Applied
<1> QED
  BY <1>5, <1>6, <1>7, <1>8 DEF MirrorInv

LEMMA SetKeeps ==
  ASSUME MirrorInv, TypeOK', NEW n \in Nodes, Set(n)
  PROVE  MirrorInv'
<1>1. /\ pc = "writing" /\ Busy /\ job.dels = {} /\ n \in job.sets
      /\ remote' = [remote EXCEPT ![n] = version[n]]
      /\ UNCHANGED <<pc, graph, memo, cooling, required, transport, speaks, faults,
                     restarts, emptied, lost, remoteEdges>>
  BY DEF Set, OnServer, Busy
<1>2. /\ job'.deleted = job.deleted /\ job'.dels = {} /\ job'.sets = job.sets \ {n}
      /\ job'.edges = job.edges /\ job'.seeds = job.seeds /\ job'.asking = job.asking
      /\ job'.bad = job.bad
  BY <1>1 DEF Set, MirrorInv, TypeOK
<1>3. Live' = Live /\ LiveEdges' = LiveEdges /\ Busy' /\ n \in Live
  BY <1>1 DEF Live, LiveEdges, graph, Busy, MirrorInv, Batch
<1>4. \A m \in Nodes : remote'[m] = IF m = n THEN version[n] ELSE remote[m]
  BY <1>1 DEF MirrorInv, TypeOK
<1>5. ServerEdges'
  <2>1. \A m \in Nodes : remote[m] # 0 => remote'[m] # 0
    BY <1>4 DEF MirrorInv, TypeOK, Version
  <2>2. \A e \in remoteEdges : e[1] \in Nodes /\ e[2] \in Nodes
    BY DEF MirrorInv, TypeOK, Edge
  <2> QED
    BY <1>1, <2>1, <2>2 DEF MirrorInv, ServerEdges
<1>6. AtRest' /\ Batch' /\ Asking' /\ Seeded'
  BY <1>1, <1>2, <1>3 DEF MirrorInv, AtRest, Batch, Asking, Seeded, graph, memo
<1>7. Applied'
  <2> SUFFICES ASSUME ~emptied
               PROVE  /\ \A m \in Nodes \ job'.sets :
                           m \notin lost \/ m \in Live =>
                             remote'[m] = IF m \in Live THEN version[m] ELSE 0
                      /\ \A e \in edgePrints : \/ e \in remoteEdges \/ e \in job.edges
                                               \/ e[1] \in job.deleted \/ e[2] \in job.deleted
    BY <1>1, <1>2, <1>3 DEF Applied, graph, memo
  <2>1. \A m \in Nodes \ job'.sets :
          m \notin lost \/ m \in Live => remote'[m] = IF m \in Live THEN version[m] ELSE 0
    BY <1>1, <1>2, <1>3, <1>4 DEF MirrorInv, Applied
  <2>2. \A e \in edgePrints : \/ e \in remoteEdges \/ e \in job.edges
                              \/ e[1] \in job.deleted \/ e[2] \in job.deleted
    BY <1>1 DEF MirrorInv, Applied
  <2> QED
    BY <2>1, <2>2
<1>8. Faultless'
  BY <1>1, <1>2 DEF MirrorInv, Faultless
<1> QED
  BY <1>5, <1>6, <1>7, <1>8 DEF MirrorInv

LEMMA SetEdgesKeeps ==
  ASSUME MirrorInv, TypeOK', SetEdges
  PROVE  MirrorInv'
<1> DEFINE known == {e \in job.edges : remote[e[1]] # 0 /\ remote[e[2]] # 0}
<1>1. /\ pc = "writing" /\ Busy /\ job.dels = {} /\ job.sets = {}
      /\ remoteEdges' = remoteEdges \cup known /\ UNCHANGED remote
      /\ UNCHANGED <<pc, graph, memo, cooling, required, transport, speaks, faults,
                     restarts, emptied, lost>>
  BY DEF SetEdges, OnServer, Busy
<1>2. /\ job'.deleted = job.deleted /\ job'.dels = {} /\ job'.sets = {} /\ job'.edges = {}
      /\ job'.seeds = job.seeds /\ job'.asking = job.asking
      /\ job'.bad => job.bad \/ known # job.edges
  BY <1>1 DEF SetEdges, MirrorInv, TypeOK
<1>3. Live' = Live /\ LiveEdges' = LiveEdges /\ Busy'
  BY <1>1 DEF Live, LiveEdges, graph, Busy
<1>4. \A e \in job.edges : e \in Relation /\ e[1] \in Live /\ e[2] \in Live
  BY <1>1, RelationIsEdges DEF MirrorInv, Batch
<1>5. ~emptied => known = job.edges
  BY <1>1, <1>4, LiveAreThere
<1>6. ServerEdges'
  BY <1>1, <1>4 DEF MirrorInv, ServerEdges
<1>7. AtRest' /\ Batch' /\ Asking' /\ Seeded'
  BY <1>1, <1>2, <1>3 DEF MirrorInv, AtRest, Batch, Asking, Seeded, graph, memo
<1>8. Applied'
  <2>1. ~emptied => \A e \in edgePrints : \/ e \in remoteEdges' \/ e[1] \in job.deleted
                                          \/ e[2] \in job.deleted
    BY <1>1, <1>5 DEF MirrorInv, Applied
  <2> QED
    BY <1>1, <1>2, <1>3, <2>1 DEF MirrorInv, Applied, graph, memo
<1>9. Faultless'
  BY <1>1, <1>2, <1>5 DEF MirrorInv, Faultless
<1> QED
  BY <1>6, <1>7, <1>8, <1>9 DEF MirrorInv

-----------------------------------------------------------------------------
LEMMA FaultKeeps ==
  ASSUME MirrorInv, TypeOK', Fault
  PROVE  MirrorInv'
<1>1. Failed /\ UNCHANGED <<graph, server>> /\ faults' # 0
  BY DEF Fault, MirrorInv, TypeOK
<1>2. ServerEdges' /\ Faultless'
  BY <1>1 DEF MirrorInv, ServerEdges, Faultless, server
<1> QED
  BY <1>1, <1>2, FailedKeeps

LEMMA RestartKeeps ==
  ASSUME MirrorInv, TypeOK', Restart
  PROVE  MirrorInv'
<1>1. UNCHANGED graph /\ restarts' # 0 /\ remoteEdges' = {}
  BY DEF Restart, MirrorInv, TypeOK
<1>2. ServerEdges' /\ Faultless'
  BY <1>1 DEF ServerEdges, Faultless
<1>3. CASE Failed
  BY <1>1, <1>2, <1>3, FailedKeeps
<1>4. CASE emptied' = TRUE /\ lost' = {} /\ UNCHANGED <<pc, memo, cooling, job>>
  <2>1. AtRest' /\ Batch' /\ Asking' /\ Applied' /\ Seeded'
    BY <1>1, <1>4 DEF MirrorInv, AtRest, Batch, Asking, Applied, Seeded, Busy, Live,
                      LiveEdges, graph, memo
  <2> QED
    BY <1>2, <2>1 DEF MirrorInv
<1> QED
  BY <1>3, <1>4 DEF Restart

(* Steps that change neither the graph nor a fingerprint nor the server. *)
LEMMA OthersKeep ==
  ASSUME MirrorInv, TypeOK', Ready \/ CoolDown \/ \E final \in BOOLEAN : Skip(final)
  PROVE  MirrorInv'
<1>1. UNCHANGED <<graph, memo, job, server, faults, restarts, emptied, lost>>
  BY DEF Ready, CoolDown, Skip
<1>2. Live' = Live /\ LiveEdges' = LiveEdges
  BY <1>1 DEF Live, LiveEdges, graph
<1>3. /\ Busy' => Busy
      /\ pc' = "idle" => pc = "idle"
      /\ pc' = "recalling" => pc = "recalling" \/ job.asking
      /\ cooling' => cooling
  BY DEF Ready, CoolDown, Skip, Busy, MirrorInv, TypeOK
<1>4. ServerEdges' /\ AtRest'
  BY <1>1, <1>3 DEF MirrorInv, ServerEdges, AtRest, memo, server
<1>5. Batch' /\ Asking'
  BY <1>1, <1>2, <1>3 DEF MirrorInv, Batch, Asking, graph, memo
<1>6. Applied' /\ Seeded'
  BY <1>1, <1>2, <1>3 DEF MirrorInv, Applied, Seeded, graph, memo, server
<1>7. Faultless'
  BY <1>1, <1>3 DEF MirrorInv, Faultless
<1> QED
  BY <1>4, <1>5, <1>6, <1>7 DEF MirrorInv

LEMMA MirrorNext == MirrorInv /\ [Next]_vars => MirrorInv'
<1> SUFFICES ASSUME MirrorInv, [Next]_vars PROVE MirrorInv'
  OBVIOUS
<1>0. TypeOK'
  BY MirrorTypeNext DEF MirrorInv
<1>1. ASSUME NEW n \in Nodes, Add(n) \/ Change(n) \/ Drop(n) \/ Restore(n) \/ Remove(n)
      PROVE  MirrorInv'
  BY <1>0, <1>1, GraphKeeps
<1>2. ASSUME NEW final \in BOOLEAN, Sync(final) PROVE MirrorInv'
  BY <1>0, <1>2, SyncKeeps
<1>3. CASE Answered
  BY <1>0, <1>3, AnsweredKeeps
<1>4. CASE Recall
  BY <1>0, <1>4, RecallKeeps
<1>5. ASSUME NEW n \in Nodes, Delete(n) PROVE MirrorInv'
  BY <1>0, <1>5, DeleteKeeps
<1>6. ASSUME NEW n \in Nodes, Set(n) PROVE MirrorInv'
  BY <1>0, <1>6, SetKeeps
<1>7. CASE SetEdges
  BY <1>0, <1>7, SetEdgesKeeps
<1>8. CASE Fault
  BY <1>0, <1>8, FaultKeeps
<1>9. CASE Restart
  BY <1>0, <1>9, RestartKeeps
<1>10. CASE Ready \/ CoolDown \/ \E final \in BOOLEAN : Skip(final)
  BY <1>0, <1>10, OthersKeep
<1>11. CASE UNCHANGED vars
  BY <1>11 DEF vars, graph, memo, server, MirrorInv, TypeOK, ServerEdges, AtRest, Batch,
               Asking, Applied, Seeded, Faultless, Busy, Live, LiveEdges
<1> QED
  BY <1>1, <1>2, <1>3, <1>4, <1>5, <1>6, <1>7, <1>8, <1>9, <1>10, <1>11 DEF Next, Engine

(* What the fingerprints, the batch and the server are to each other at    *)
(* each step.                                                              *)
THEOREM MirrorInvariant == Spec => []MirrorInv
<1> QED
  BY MirrorInit, MirrorNext, PTL DEF Spec

-----------------------------------------------------------------------------
(* Whatever the session did to its graph and however batches failed, the   *)
(* server that is asked which nodes matter holds the graph as it is, but   *)
(* for nodes whose deletion was forgotten.                                 *)
THEOREM MirrorRecallSeesGraph == Spec => []RecallSeesGraph
<1>1. MirrorInv => RecallSeesGraph
  <2> SUFFICES ASSUME MirrorInv, pc = "recalling", ~emptied PROVE InStep
    BY DEF RecallSeesGraph
  <2>1. /\ Busy /\ job.deleted = {} /\ job.dels = {} /\ job.sets = {} /\ job.edges = {}
        /\ lost \cap Live = {}
    BY DEF MirrorInv, Asking, Busy
  <2>2. \A n \in Nodes \ lost : remote[n] = IF n \in Live THEN version[n] ELSE 0
    BY <2>1 DEF MirrorInv, Applied
  <2>3. LiveEdges \subseteq remoteEdges
    BY <2>1 DEF MirrorInv, Applied, Batch
  <2>4. ASSUME NEW e \in remoteEdges, e[1] \notin lost, e[2] \notin lost
        PROVE  e \in LiveEdges
    <3>1. e \in Relation /\ remote[e[1]] # 0 /\ remote[e[2]] # 0 /\ e[1] \in Nodes /\ e[2] \in Nodes
      BY DEF MirrorInv, ServerEdges, TypeOK, Edge
    <3> QED
      BY <2>2, <2>4, <3>1, RelationIsEdges
  <2> QED
    BY <2>2, <2>3, <2>4 DEF InStep, Touching
<1> QED
  BY <1>1, MirrorInvariant, PTL

(* If no subtask in focus is ever dropped, no order of changes to the      *)
(* graph makes the server refuse a batch or a recall: the engine cools     *)
(* down only for a fault of the transport or a restart.                    *)
THEOREM MirrorOnlyFaultsFail == Spec => [](Foci \cap Droppable = {} => OnlyFaultsFail)
<1>1. MirrorInv => (Foci \cap Droppable = {} => OnlyFaultsFail)
  BY DEF MirrorInv, Faultless, OnlyFaultsFail
<1> QED
  BY <1>1, MirrorInvariant, PTL

-----------------------------------------------------------------------------
(* Every job shrinks.                                                      *)

(* The nodes of a batch can be counted, and one less is one less. *)
LEMMA BatchIsFinite ==
  ASSUME NEW S \in SUBSET Nodes
  PROVE  /\ Cardinality(S) \in Nat
         /\ \A n \in S : Cardinality(S \ {n}) \in Nat /\ Cardinality(S \ {n}) = Cardinality(S) - 1
<1>1. IsFiniteSet(S)
  BY MirrorAssumption, FS_Subset
<1>2. Cardinality(S) \in Nat
  BY <1>1, FS_CardinalityType
<1>3. ASSUME NEW n \in S
      PROVE  Cardinality(S \ {n}) \in Nat /\ Cardinality(S \ {n}) = Cardinality(S) - 1
  <2>1. IsFiniteSet(S \ {n}) /\ Cardinality(S \ {n}) = Cardinality(S) - 1
    BY <1>1, FS_RemoveElement
  <2> QED
    BY <2>1, FS_CardinalityType
<1> QED
  BY <1>2, <1>3

LEMMA UnansweredIsNat ==
  ASSUME TypeOK
  PROVE  Unanswered \in Nat
<1>1. job.dels \in SUBSET Nodes /\ job.sets \in SUBSET Nodes
  BY DEF TypeOK
<1>2. Cardinality(job.dels) \in Nat /\ Cardinality(job.sets) \in Nat
  BY <1>1, BatchIsFinite
<1> QED
  BY <1>2 DEF Unanswered

LEMMA JobRemainingIsNat == TypeOK => Remaining \in Nat
  BY UnansweredIsNat DEF TypeOK, Remaining

(* What is done, or given up, leaves nothing. *)
LEMMA DoneIsNearer ==
  ASSUME TypeOK, Remaining > 0, pc' \in {"idle", "over"}
  PROVE  Remaining' < Remaining
<1>1. Remaining' = 0
  BY DEF Remaining
<1> QED
  BY <1>1, JobRemainingIsNat

(* An answered command leaves one less. *)
LEMMA CommandIsNearer ==
  ASSUME TypeOK, pc = "writing", pc' = "writing",
         \/ \E n \in job.dels : /\ job'.dels = job.dels \ {n}
                                /\ job'.sets = job.sets /\ job'.edges = job.edges
         \/ \E n \in job.sets : /\ job'.sets = job.sets \ {n}
                                /\ job'.dels = job.dels /\ job'.edges = job.edges
         \/ /\ job.edges # {} /\ job'.edges = {}
            /\ job'.dels = job.dels /\ job'.sets = job.sets
  PROVE  Remaining' < Remaining
<1>1. job.dels \in SUBSET Nodes /\ job.sets \in SUBSET Nodes
  BY DEF TypeOK
<1>2. Cardinality(job.dels) \in Nat /\ Cardinality(job.sets) \in Nat
  BY <1>1, BatchIsFinite
<1>3. Remaining = 3 + Unanswered /\ Remaining' = 3 + Unanswered'
  BY DEF Remaining
<1>4. CASE \E n \in job.dels : /\ job'.dels = job.dels \ {n}
                              /\ job'.sets = job.sets /\ job'.edges = job.edges
  <2>1. Cardinality(job'.dels) \in Nat /\ Cardinality(job'.dels) = Cardinality(job.dels) - 1
    BY <1>1, <1>4, BatchIsFinite
  <2> QED
    BY <1>2, <1>3, <1>4, <2>1 DEF Unanswered
<1>5. CASE \E n \in job.sets : /\ job'.sets = job.sets \ {n}
                              /\ job'.dels = job.dels /\ job'.edges = job.edges
  <2>1. Cardinality(job'.sets) \in Nat /\ Cardinality(job'.sets) = Cardinality(job.sets) - 1
    BY <1>1, <1>5, BatchIsFinite
  <2> QED
    BY <1>2, <1>3, <1>5, <2>1 DEF Unanswered
<1>6. CASE /\ job.edges # {} /\ job'.edges = {}
           /\ job'.dels = job.dels /\ job'.sets = job.sets
  BY <1>2, <1>3, <1>6 DEF Unanswered
<1> QED
  BY <1>4, <1>5, <1>6

LEMMA JobStepShrinks ==
  ASSUME TypeOK, Next, Remaining > 0
  PROVE  \/ Remaining' < Remaining
         \/ UNCHANGED Remaining /\ (cooling' # cooling \/ restarts' # restarts)
<1>0. /\ pc \in {"connecting", "writing", "recalling"}
      /\ job \in [final : BOOLEAN, asking : BOOLEAN, seeds : SUBSET Nodes,
                  deleted : SUBSET Nodes, dels : SUBSET Nodes, sets : SUBSET Nodes,
                  edges : SUBSET Edge, bad : BOOLEAN]
  BY DEF TypeOK, Remaining
<1>1. CASE Failed
  BY <1>1, DoneIsNearer DEF Failed
<1>2. CASE CoolDown
  <2>1. UNCHANGED Remaining
    BY <1>2 DEF CoolDown, Remaining, Unanswered
  <2> QED
    BY <1>2, <2>1 DEF CoolDown
<1>3. CASE Ready
  <2>1. CASE job.asking
    <3>1. Remaining = 2 /\ Remaining' = 1
      BY <1>3, <2>1 DEF Ready, Remaining
    <3> QED
      BY <3>1
  <2>2. CASE ~job.asking
    <3>1. Remaining = 4 + Unanswered /\ Remaining' = 3 + Unanswered
      BY <1>3, <2>2 DEF Ready, Remaining, Unanswered
    <3> QED
      BY <3>1, UnansweredIsNat
  <2> QED
    BY <2>1, <2>2
<1>4. CASE Answered /\ ~job.bad
  <2>1. Remaining = 3 + Unanswered
    BY <1>4 DEF Answered, Remaining
  <2>2. CASE job.final
    BY <1>4, <2>2, DoneIsNearer DEF Answered, Synced
  <2>3. CASE ~job.final
    <3>1. Remaining' = 2
      BY <1>4, <2>3 DEF Answered, Synced, NoJob, Remaining
    <3> QED
      BY <2>1, <3>1, UnansweredIsNat
  <2> QED
    BY <2>2, <2>3
<1>5. CASE Recall /\ pc' = "idle"
  BY <1>5, DoneIsNearer
<1>6. ASSUME NEW n \in Nodes, Delete(n)
      PROVE  Remaining' < Remaining
  BY <1>0, <1>6, CommandIsNearer DEF Delete, OnServer
<1>7. ASSUME NEW n \in Nodes, Set(n)
      PROVE  Remaining' < Remaining
  BY <1>0, <1>7, CommandIsNearer DEF Set, OnServer
<1>8. CASE SetEdges
  BY <1>0, <1>8, CommandIsNearer DEF SetEdges, OnServer
<1>9. CASE Restart /\ UNCHANGED <<pc, job>>
  <2>1. restarts \in Nat /\ restarts' = restarts + 1
    BY <1>9, MirrorBounds DEF Restart, TypeOK
  <2>2. UNCHANGED Remaining
    BY <1>9 DEF Remaining, Unanswered
  <2> QED
    BY <2>1, <2>2
<1>10. CASE \/ \E final \in BOOLEAN : Sync(final) \/ Skip(final)
            \/ \E n \in Nodes : Add(n) \/ Change(n) \/ Drop(n) \/ Restore(n) \/ Remove(n)
  BY <1>0, <1>10 DEF Sync, Skip, Add, Change, Drop, Restore, Remove, GraphOnly
<1>11. CASE Answered
  BY <1>1, <1>4, <1>11 DEF Answered
<1>12. CASE Recall
  BY <1>1, <1>5, <1>12 DEF Recall
<1>13. CASE Fault
  BY <1>1, <1>13 DEF Fault
<1>14. CASE Restart
  BY <1>1, <1>9, <1>14 DEF Restart
<1> QED
  BY <1>2, <1>3, <1>6, <1>7, <1>8, <1>10, <1>11, <1>12, <1>13, <1>14 DEF Next, Engine

(***************************************************************************)
(* JobShrinks, for any graph, any batch and any number of faults: what the *)
(* engine does before a prompt takes at most one step for each command,    *)
(* and four around them.                                                   *)
(***************************************************************************)
THEOREM MirrorJobShrinks == Spec => JobShrinks
<1>1. ASSUME TypeOK, Next, Remaining > 0
      PROVE  \/ Remaining' < Remaining
             \/ UNCHANGED Remaining /\ (cooling' # cooling \/ restarts' # restarts)
  BY <1>1, JobStepShrinks
<1>2. (TypeOK => Remaining \in Nat)'
  BY JobRemainingIsNat, PTL
<1>3. TypeOK /\ TypeOK' /\ [Next]_vars
        => [Remaining > 0 =>
              /\ Remaining' \in Nat
              /\ \/ Remaining' < Remaining
                 \/ UNCHANGED Remaining
                    /\ (cooling' # cooling \/ restarts' # restarts)]_vars
  BY <1>1, <1>2
<1> QED
  BY MirrorTypeCorrect, <1>3, PTL DEF Spec, JobShrinks

=============================================================================
