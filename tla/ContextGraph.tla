---------------------------- MODULE ContextGraph ----------------------------
(***************************************************************************)
(* The layered context of a session: nodes that compete for the prompt,    *)
(* edges between them, and a stack of subtasks that scopes new nodes.      *)
(*                                                                         *)
(* The session adds evidence, corrections that expire and standing rules,  *)
(* ages the graph once a turn and retires what a write made obsolete; the  *)
(* model reshapes it with its context operations, in any order and number. *)
(*                                                                         *)
(* Text, labels, references, importance and the scores made of them are    *)
(* left out: where a score decides, any choice it could make is allowed.   *)
(* A rejected operation, one that changes nothing and a boost of the       *)
(* importance are no steps.                                                *)
(***************************************************************************)
EXTENDS Integers, Sequences, FiniteSets

CONSTANTS
  RetainedCap,  \* MAX_RETAINED_NODES_PER_LAYER
  MaxNodes,     \* maxNodes
  Profiles,     \* bound: what is done to the graph in one behaviour or another
  Ttl,          \* bound: turns a correction may last (1 and 2 in the code)
  NoteLayer,    \* bound: layers the model writes notes in
  MaxId,        \* bound: nodes ever made
  MaxEdges,     \* bound: edges the model draws
  MaxTurn       \* bound: turns

Retained  == {"mission", "contract"}
Layer     == Retained \cup {"plan", "subtask", "evidence", "scratch"}

AllUses == {"evidence", "correction", "rule", "issues", "retire", "decay", "reform",
            "pin", "unpin", "expand", "collapse", "drop", "note", "link", "open_subtask",
            "close_subtask", "focus"}

ASSUME GraphAssumption ==
  /\ Profiles \subseteq SUBSET AllUses
  /\ {RetainedCap, MaxNodes, MaxId} \subseteq Nat \ {0}   \* the mission has an id
  /\ {MaxEdges, MaxTurn} \subseteq Nat
  /\ Ttl \subseteq Nat \ {0}
  /\ NoteLayer \subseteq Layer \ Retained

VARIABLES
  nodes,   \* from the ids in the graph to their nodes
  edges,   \* pairs of ids
  stack,   \* _subtaskStack
  nextId,  \* _nodeSeq and _subtaskSeq
  turn,
  uses,    \* the profile of this behaviour, which stays the same
  pinHigh  \* observer: the most nodes that were ever pinned at once

vars == <<nodes, edges, stack, nextId, turn, uses, pinHigh>>

None == 0   \* no subtask

Node == [layer : Layer, kind : {"plain", "subtask", "outcome", "validation"},
         state : {"active", "digested", "dropped"},
         pinned : BOOLEAN, expanded : BOOLEAN,   \* expandRequested
         owner : Nat, parent : Nat,              \* subtaskId, parentSubtaskId
         about : Nat,                            \* the subtask of an outcome
         ttl : Nat, born : Nat]                  \* ttlTurns (0: none), turn

Focus == IF stack = <<>> THEN None ELSE stack[Len(stack)]

(* focusPath: the subtask and its ancestors, root first. *)
FocusPath(ns, start) ==
  LET path[i \in 0..MaxId] ==
        IF i \notin DOMAIN ns THEN <<>> ELSE Append(path[ns[i].parent], i)
  IN path[start]

Pinned(ns) == {i \in DOMAIN ns : ns[i].pinned}

Without(ns, ids) == [i \in DOMAIN ns \ ids |-> ns[i]]

(* Only edges that leave a removed node are removed. *)
AttachedTo(es, ns) == {e \in es : e[1] \in DOMAIN ns}

(* Edges of removed nodes are removed. *)
Attached(es, ns) == {e \in es : e[1] \in DOMAIN ns /\ e[2] \in DOMAIN ns}

-----------------------------------------------------------------------------
(* What add does besides adding. *)

Live(ns, layer) == {i \in DOMAIN ns : ns[i].layer = layer /\ ns[i].state # "dropped"}

Oldest(ns, ids) == {i \in ids : \A j \in ids : ns[i].born <= ns[j].born}

(* Only corrections are evicted. *)
VictimsThatExpire(ns, ids) ==
  LET expiring == {i \in ids : ns[i].ttl > 0}
  IN {{i} : i \in Oldest(ns, expiring)} \cup (IF expiring = {} THEN {{}} ELSE {})

(* Prefer expiring corrections over standing rules; the oldest goes first. *)
Victims(ns, ids) ==
  LET expiring == {i \in ids : ns[i].ttl > 0}
      first    == IF expiring # {} THEN expiring ELSE ids
  IN IF ids = {} THEN {{}} ELSE {{i} : i \in Oldest(ns, first)}

(* _enforceRetainedCap. *)
OverRetainedCap(ns, added) ==
  LET live == Live(ns, ns[added].layer)
  IN IF ns[added].layer \notin Retained \/ Cardinality(live) <= RetainedCap
       THEN {{}}
       ELSE Victims(ns, {i \in live : ~ns[i].pinned /\ i # added})

(* Pins do not count. *)
EvictableThoughPinned(ns) == {i \in DOMAIN ns : ns[i].layer \notin Retained}

(* Only dropped nodes are evicted. *)
OnlyDropped(ns) == {i \in DOMAIN ns : ns[i].state = "dropped"}

Evictable(ns) == {i \in DOMAIN ns : ~ns[i].pinned /\ ns[i].layer \notin Retained}

(***************************************************************************)
(* _enforceNodeCap: the weakest go, dropped nodes before all others.       *)
(***************************************************************************)
OverNodeCap(ns) ==
  LET excess  == Cardinality(DOMAIN ns) - MaxNodes
      weak    == Evictable(ns)
      dropped == {i \in weak : ns[i].state = "dropped"}
  IN IF excess <= 0 THEN {{}}
     ELSE {w \in SUBSET weak :
             /\ Cardinality(w) = IF excess < Cardinality(weak) THEN excess
                                                             ELSE Cardinality(weak)
             /\ dropped \subseteq w \/ w \subseteq dropped}

(* add: the graphs it can leave. *)
Added(ns, id, node) ==
  LET grown == [i \in DOMAIN ns \cup {id} |-> IF i = id THEN node ELSE ns[i]]
  IN UNION {LET kept == Without(grown, victim)
            IN {Without(kept, weakest) : weakest \in OverNodeCap(kept)} :
              victim \in OverRetainedCap(grown, id)}

Fresh(layer, ttl) ==
  [layer |-> layer, kind |-> "plain", state |-> "active", pinned |-> FALSE,
   expanded |-> FALSE, owner |-> Focus, parent |-> None, about |-> None,
   ttl |-> ttl, born |-> turn]

(* What follows from the graph a step leaves. *)
Settle(es) ==
  /\ edges' = Attached(es, nodes')
  /\ UNCHANGED uses
  /\ LET pins == Cardinality(Pinned(nodes'))
     IN pinHigh' = IF pins > pinHigh THEN pins ELSE pinHigh

Insert(ns, node) ==
  /\ nextId <= MaxId
  /\ nextId' = nextId + 1
  /\ nodes' \in Added(ns, nextId, node)

-----------------------------------------------------------------------------
(* _seedInvariants: the mission is there first, and pinned. *)
Init ==
  /\ nodes = [i \in {1} |-> [layer |-> "mission", kind |-> "plain", state |-> "active",
                             pinned |-> TRUE, expanded |-> FALSE, owner |-> None,
                             parent |-> None, about |-> None, ttl |-> 0, born |-> 0]]
  /\ edges = {} /\ stack = <<>> /\ nextId = 2 /\ turn = 0 /\ pinHigh = 1
  /\ uses \in Profiles

(* _remember: evidence (an edit, of the plan layer, is not told apart), a
   correction that expires, a standing rule. *)
Remember ==
  /\ \/ "evidence" \in uses /\ Insert(nodes, Fresh("evidence", 0))
     \/ "correction" \in uses /\ \E ttl \in Ttl : Insert(nodes, Fresh("contract", ttl))
     \/ "rule" \in uses /\ Insert(nodes, Fresh("contract", 0))
  /\ Settle(edges)
  /\ UNCHANGED <<stack, turn>>

(***************************************************************************)
(* _validateCurrentWorkspace: the issues found before make room for those  *)
(* found now, if any, which are pinned from the start.                     *)
(***************************************************************************)
Validate ==
  /\ "issues" \in uses
  /\ LET cleared == [i \in DOMAIN nodes |->
                       IF nodes[i].kind = "validation"
                         THEN [nodes[i] EXCEPT !.state = "dropped", !.pinned = FALSE]
                         ELSE nodes[i]]
     IN \/ nodes' = cleared /\ UNCHANGED nextId
        \/ Insert(cleared, [Fresh("plan", 0) EXCEPT !.kind = "validation", !.pinned = TRUE])
  /\ Settle(edges)
  /\ UNCHANGED <<stack, turn>>

(* _retireSupersededFileContext. *)
Retire(i) ==
  /\ "retire" \in uses
  /\ nodes[i].layer = "evidence" /\ nodes[i].state # "dropped"
  /\ nodes' = [nodes EXCEPT ![i].state = "dropped", ![i].pinned = FALSE]
  /\ Settle(edges)
  /\ UNCHANGED <<stack, nextId, turn>>

Expired(n, now) == n.ttl > 0 /\ ~n.pinned /\ now - n.born > n.ttl

(* decay, at the top of a turn. *)
Decay ==
  /\ "decay" \in uses
  /\ turn < MaxTurn
  /\ turn' = turn + 1
  /\ nodes' = Without(nodes, {i \in DOMAIN nodes : Expired(nodes[i], turn')})
  /\ Settle(edges)
  /\ UNCHANGED <<stack, nextId>>

(* reform: nodes that match the gap are expanded, and the gap is noted. *)
Reform(matched) ==
  /\ "reform" \in uses
  /\ Cardinality(matched) <= 3
  /\ \A i \in matched : nodes[i].state # "dropped" /\ ~nodes[i].expanded
  /\ Insert([i \in DOMAIN nodes |->
               IF i \in matched THEN [nodes[i] EXCEPT !.expanded = TRUE, !.state = "active"]
                                ELSE nodes[i]],
            Fresh("contract", 1))
  /\ Settle(edges)
  /\ UNCHANGED <<stack, turn>>

-----------------------------------------------------------------------------
(* The model's operations on one node. *)

Pin(i) ==
  /\ "pin" \in uses
  /\ ~nodes[i].pinned
  /\ nodes' = [nodes EXCEPT ![i].pinned = TRUE,
                            ![i].state = IF @ = "dropped" THEN "active" ELSE @]
  /\ Settle(edges)
  /\ UNCHANGED <<stack, nextId, turn>>

Unpin(i) ==
  /\ "unpin" \in uses
  /\ nodes[i].pinned
  /\ nodes' = [nodes EXCEPT ![i].pinned = FALSE]
  /\ Settle(edges)
  /\ UNCHANGED <<stack, nextId, turn>>

(* Also again at another offset, which brings a dropped node back. *)
Expand(i) ==
  /\ "expand" \in uses
  /\ ~nodes[i].expanded \/ nodes[i].state # "active"
  /\ nodes' = [nodes EXCEPT ![i].expanded = TRUE, ![i].state = "active"]
  /\ Settle(edges)
  /\ UNCHANGED <<stack, nextId, turn>>

Collapse(i) ==
  /\ "collapse" \in uses
  /\ nodes[i].expanded \/ nodes[i].state # "digested"
  /\ nodes' = [nodes EXCEPT ![i].expanded = FALSE, ![i].state = "digested"]
  /\ Settle(edges)
  /\ UNCHANGED <<stack, nextId, turn>>

(* The pin is left. *)
DropKeepsPin(i) ==
  /\ "drop" \in uses
  /\ nodes[i].layer \notin Retained /\ nodes[i].state # "dropped"
  /\ nodes' = [nodes EXCEPT ![i].state = "dropped"]
  /\ Settle(edges)
  /\ UNCHANGED <<stack, nextId, turn>>

Drop(i) ==
  /\ "drop" \in uses
  /\ nodes[i].layer \notin Retained /\ nodes[i].state # "dropped"
  /\ nodes' = [nodes EXCEPT ![i].state = "dropped", ![i].pinned = FALSE]
  /\ Settle(edges)
  /\ UNCHANGED <<stack, nextId, turn>>

Note(layer) ==
  /\ "note" \in uses
  /\ Insert(nodes, Fresh(layer, 0))
  /\ Settle(edges)
  /\ UNCHANGED <<stack, turn>>

Link(i, j) ==
  /\ "link" \in uses
  /\ i # j /\ <<i, j>> \notin edges
  /\ Cardinality(edges) < MaxEdges
  /\ edges' = edges \cup {<<i, j>>}
  /\ UNCHANGED <<nodes, stack, nextId, turn, uses, pinHigh>>

-----------------------------------------------------------------------------
(* Subtasks. *)

(* add, of a subtask: it owns itself once it is in the graph. *)
Opened(ns, parent) ==
  {[i \in DOMAIN grown |->
      IF i = nextId THEN [grown[i] EXCEPT !.owner = nextId] ELSE grown[i]] :
     grown \in Added(ns, nextId,
                     [Fresh("subtask", 0) EXCEPT !.kind = "subtask", !.parent = parent])}

(* The subtask is its own parent. *)
OpenedUnderItself ==
  /\ nextId <= MaxId
  /\ nodes' \in Opened(nodes, nextId)
  /\ nextId' = nextId + 1
  /\ stack' = Append(stack, nextId)
  /\ Settle(edges)
  /\ UNCHANGED turn

OpenSubtask ==
  /\ "open_subtask" \in uses
  /\ nextId <= MaxId
  /\ nodes' \in Opened(nodes, Focus)
  /\ nextId' = nextId + 1
  /\ stack' = Append(stack, nextId)
  /\ Settle(edges)
  /\ UNCHANGED turn

(* Only the subtask itself leaves the stack. *)
Unstacked(i) == SelectSeq(stack, LAMBDA j : j # i)

(* The subtask and all that were opened above it leave the stack. *)
Popped(i) ==
  IF \E k \in DOMAIN stack : stack[k] = i
    THEN SubSeq(stack, 1, (CHOOSE k \in DOMAIN stack : stack[k] = i) - 1)
    ELSE stack

(***************************************************************************)
(* closeSubtask, of the focus or of a node that is named, be it open or    *)
(* not.  What it owns is digested unless pinned; the outcome belongs to    *)
(* the parent.                                                             *)
(***************************************************************************)
CloseSubtask(i) ==
  /\ "close_subtask" \in uses
  /\ nodes[i].kind = "subtask"
  /\ Insert([j \in DOMAIN nodes |->
               IF \/ j = i
                  \/ /\ nodes[j].owner = i /\ nodes[j].state # "dropped"
                     /\ ~nodes[j].pinned
                 THEN [nodes[j] EXCEPT !.state = "digested"] ELSE nodes[j]],
            [Fresh("plan", 0) EXCEPT !.kind = "outcome", !.owner = nodes[i].parent,
                                     !.about = i])
  /\ Settle(edges \cup {<<nextId, i>>})
  /\ stack' = Popped(i)
  /\ UNCHANGED turn

FocusOn(i) ==
  /\ "focus" \in uses
  /\ nodes[i].kind = "subtask" /\ Focus # i
  /\ stack' = FocusPath(nodes, i)
  /\ UNCHANGED <<nodes, edges, nextId, turn, uses, pinHigh>>

-----------------------------------------------------------------------------
Session == Remember \/ Validate \/ Decay \/ \E i \in DOMAIN nodes : Retire(i)

ApplyOp ==
  \/ \E i \in DOMAIN nodes :
       \/ Pin(i) \/ Unpin(i) \/ Expand(i) \/ Collapse(i) \/ Drop(i)
       \/ CloseSubtask(i) \/ FocusOn(i)
       \/ \E j \in DOMAIN nodes : Link(i, j)
  \/ \E layer \in NoteLayer : Note(layer)
  \/ OpenSubtask

Next == \/ Session
        \/ \E matched \in SUBSET DOMAIN nodes : Reform(matched)
        \/ ApplyOp

Spec == Init /\ [][Next]_vars

-----------------------------------------------------------------------------
TypeOK ==
  /\ DOMAIN nodes \subseteq 1..(nextId - 1)
  /\ \A i \in DOMAIN nodes :
       /\ nodes[i] \in Node
       /\ nodes[i].state = "dropped" => ~nodes[i].pinned /\ nodes[i].layer \notin Retained
       /\ nodes[i].parent < i
  /\ edges \subseteq (1..MaxId) \X (1..MaxId)
  /\ stack \in Seq(1..(nextId - 1))
  /\ nextId \in 1..(MaxId + 1) /\ turn \in 0..MaxTurn
  /\ uses \in Profiles /\ pinHigh \in 0..MaxId

(***************************************************************************)
(* An edge joins two nodes of the graph, whatever was evicted, expired or  *)
(* closed in the meantime: even the outcome of a close may be evicted by   *)
(* its own add, or push out the subtask it is derived from.                *)
(***************************************************************************)
EdgesAttached == \A e \in edges : {e[1], e[2]} \subseteq DOMAIN nodes

(***************************************************************************)
(* The stack and the parents of its nodes tell the same story: the path to *)
(* the focus is what is on the stack above the last subtask that was       *)
(* evicted, through nested closes, closes of a named subtask and returns   *)
(* to one that was closed.                                                 *)
(***************************************************************************)
StackIsPath ==
  LET gone == {k \in DOMAIN stack : stack[k] \notin DOMAIN nodes}
      last == IF gone = {} THEN 0 ELSE CHOOSE k \in gone : \A l \in gone : l <= k
  IN FocusPath(nodes, Focus) = SubSeq(stack, last + 1, Len(stack))

(***************************************************************************)
(* A pinned node stays in the graph, under both caps and past its expiry,  *)
(* until somebody unpins it, as the next validation does with the issues   *)
(* of the last.                                                            *)
(***************************************************************************)
PinnedSurvives ==
  [][{i \in Pinned(nodes) : nodes[i].kind # "validation"} \subseteq DOMAIN nodes']_vars

Bound(n) == IF RetainedCap > n + 1 THEN RetainedCap ELSE n + 1

(***************************************************************************)
(* Retained layers bypass the budget, so their population is capped: past  *)
(* the cap they grow only while everything else in them is pinned.         *)
(***************************************************************************)
RetainedIsBounded ==
  \A layer \in Retained : Cardinality(Live(nodes, layer)) <= Bound(pinHigh)

(***************************************************************************)
(* The graph is bounded: past maxNodes there is nothing but the mission,   *)
(* corrections and rules, and what is pinned, and of that there is a       *)
(* bounded number.                                                         *)
(***************************************************************************)
GraphIsBounded ==
  LET held == 1 + Bound(pinHigh) + pinHigh
  IN Cardinality(DOMAIN nodes) <= IF MaxNodes > held THEN MaxNodes ELSE held

=============================================================================
