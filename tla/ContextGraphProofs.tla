------------------------- MODULE ContextGraphProofs -------------------------
(***************************************************************************)
(* The context graph, for any caps, profiles and number of nodes.  The     *)
(* caps and the pins come first, and depend on neither the stack nor the   *)
(* owners made of it; then FocusPath, which is recursive and shown by      *)
(* induction on the ids, since a parent has a lesser id than its children; *)
(* and the stack, which is what FocusPath would make of the focus.         *)
(***************************************************************************)
EXTENDS ContextGraph, LeastNumber, SequenceTheorems, TLAPS

NodeField == {"layer", "kind", "state", "pinned", "expanded", "owner", "parent",
              "about", "ttl", "born"}

(* What a node is like, as far as the caps and the pins look at it. *)
NodeShape(n, i) ==
  /\ DOMAIN n = NodeField
  /\ n.layer \in Layer /\ n.pinned \in BOOLEAN
  /\ n.state = "dropped" => ~n.pinned /\ n.layer \notin Retained
  /\ n.kind = "validation" => n.layer = "plan"
  /\ n.layer = "mission" => i = 1

GraphShape(ns) ==
  /\ ns = [i \in DOMAIN ns |-> ns[i]]
  /\ \A i \in DOMAIN ns : NodeShape(ns[i], i)

InLayer(ns, layer) == {i \in DOMAIN ns : ns[i].layer = layer}

(* The graph as add grows it, before the caps. *)
Grown(ns, id, node) == [i \in DOMAIN ns \cup {id} |-> IF i = id THEN node ELSE ns[i]]

(* The same nodes in the same layers. *)
Alike(ns, ms) ==
  DOMAIN ns = DOMAIN ms /\ \A i \in DOMAIN ns : ns[i].layer = ms[i].layer

GraphInv ==
  /\ nextId \in Nat \ {0} /\ DOMAIN nodes \subseteq 1..(nextId - 1)
  /\ GraphShape(nodes)
  /\ pinHigh \in Nat /\ Cardinality(Pinned(nodes)) <= pinHigh
  /\ \A layer \in Retained : Cardinality(InLayer(nodes, layer)) <= Bound(pinHigh)
  /\ GraphIsBounded
  /\ EdgesAttached

-----------------------------------------------------------------------------
LEMMA GraphBounds == RetainedCap \in Nat \ {0} /\ MaxNodes \in Nat \ {0}
  BY GraphAssumption

LEMMA BoundGrows ==
  ASSUME NEW m \in Nat, NEW n \in Nat, n >= m
  PROVE  /\ Bound(n) \in Nat /\ Bound(n) >= Bound(m)
         /\ Bound(n) >= RetainedCap /\ Bound(n) >= n + 1
  BY GraphBounds DEF Bound

(* Retained layers have no dropped nodes. *)
LEMMA LiveIsInLayer ==
  ASSUME NEW ns, GraphShape(ns), NEW layer \in Retained
  PROVE  Live(ns, layer) = InLayer(ns, layer)
  BY DEF GraphShape, NodeShape, Live, InLayer

LEMMA PartsAreFinite ==
  ASSUME NEW ns, IsFiniteSet(DOMAIN ns)
  PROVE  /\ Cardinality(DOMAIN ns) \in Nat
         /\ IsFiniteSet(Pinned(ns)) /\ Cardinality(Pinned(ns)) \in Nat
         /\ \A layer : /\ IsFiniteSet(InLayer(ns, layer))
                       /\ Cardinality(InLayer(ns, layer)) \in Nat
<1>1. Pinned(ns) \subseteq DOMAIN ns /\ \A layer : InLayer(ns, layer) \subseteq DOMAIN ns
  BY DEF Pinned, InLayer
<1> QED
  BY <1>1, FS_Subset, FS_CardinalityType

LEMMA GraphIsFinite ==
  ASSUME GraphInv
  PROVE  IsFiniteSet(DOMAIN nodes) /\ nextId \notin DOMAIN nodes
<1>1. IsFiniteSet(1..(nextId - 1))
  BY FS_Interval DEF GraphInv
<1> QED
  BY <1>1, FS_Subset DEF GraphInv

(* Of two sets that add up. *)
LEMMA UnionIsBounded ==
  ASSUME NEW S, NEW A, NEW B, IsFiniteSet(A), IsFiniteSet(B), S \subseteq A \cup B
  PROVE  IsFiniteSet(S) /\ Cardinality(S) <= Cardinality(A) + Cardinality(B)
<1>1. IsFiniteSet(A \cup B) /\ Cardinality(A \cup B) = Cardinality(A) + Cardinality(B) - Cardinality(A \cap B)
  BY FS_Union
<1>2. IsFiniteSet(A \cap B) /\ Cardinality(A \cap B) \in Nat
  BY FS_Intersection, FS_CardinalityType
<1>3. IsFiniteSet(S) /\ Cardinality(S) <= Cardinality(A \cup B)
  BY <1>1, FS_Subset
<1>4. Cardinality(S) \in Nat /\ Cardinality(A) \in Nat /\ Cardinality(B) \in Nat
  BY <1>3, FS_CardinalityType
<1> QED
  BY <1>1, <1>2, <1>3, <1>4

-----------------------------------------------------------------------------
(* What add leaves of a graph. *)

LEMMA AddedIs ==
  ASSUME NEW ns, NEW id, NEW node, NEW res \in Added(ns, id, node)
  PROVE  \E victim \in OverRetainedCap(Grown(ns, id, node), id) :
           \E weakest \in OverNodeCap(Without(Grown(ns, id, node), victim)) :
             res = Without(Without(Grown(ns, id, node), victim), weakest)
  BY DEF Added, Grown

(* The caps neither change a node nor remove one that is pinned, nor, from *)
(* a retained layer, the one that was added.                               *)
LEMMA AddedKeeps ==
  ASSUME NEW ns, NEW id, NEW node, NEW res \in Added(ns, id, node),
         GraphShape(ns), id \notin DOMAIN ns, NodeShape(node, id)
  PROVE  /\ GraphShape(res)
         /\ DOMAIN res \subseteq DOMAIN ns \cup {id}
         /\ \A i \in DOMAIN res : res[i] = IF i = id THEN node ELSE ns[i]
         /\ Pinned(ns) \subseteq DOMAIN res
<1> DEFINE g == Grown(ns, id, node)
<1>1. PICK victim \in OverRetainedCap(g, id) : \E weakest \in OverNodeCap(Without(g, victim)) :
        res = Without(Without(g, victim), weakest)
  BY AddedIs
<1>2. PICK weakest \in OverNodeCap(Without(g, victim)) :
        res = Without(Without(g, victim), weakest)
  BY <1>1
<1>3. DOMAIN g = DOMAIN ns \cup {id} /\ \A i \in DOMAIN g : g[i] = IF i = id THEN node ELSE ns[i]
  BY DEF Grown
<1>4. /\ DOMAIN Without(g, victim) = DOMAIN g \ victim
      /\ \A i \in DOMAIN g \ victim : Without(g, victim)[i] = g[i]
  BY DEF Without
<1>5. /\ DOMAIN res = (DOMAIN g \ victim) \ weakest
      /\ \A i \in DOMAIN res : res[i] = g[i]
      /\ res = [i \in DOMAIN res |-> res[i]]
  BY <1>2, <1>4 DEF Without
<1>6. \A i \in victim : ~g[i].pinned
  BY DEF OverRetainedCap, Victims, Oldest
<1>7. \A i \in weakest : ~Without(g, victim)[i].pinned /\ i \in DOMAIN g \ victim
  BY <1>4 DEF OverNodeCap, Evictable
<1>8. GraphShape(res)
  BY <1>3, <1>5 DEF GraphShape
<1>9. Pinned(ns) \subseteq DOMAIN res
  BY <1>3, <1>4, <1>5, <1>6, <1>7 DEF Pinned
<1> QED
  BY <1>3, <1>5, <1>8, <1>9

(* A retained layer grows past its cap only by one over what is pinned. *)
LEMMA AddedToLayer ==
  ASSUME NEW ns, NEW id, NEW node, NEW res \in Added(ns, id, node),
         GraphShape(ns), IsFiniteSet(DOMAIN ns), id \notin DOMAIN ns, NodeShape(node, id),
         NEW layer \in Retained
  PROVE  \/ Cardinality(InLayer(res, layer)) <= Cardinality(InLayer(ns, layer))
         \/ Cardinality(InLayer(res, layer)) <= RetainedCap
         \/ Cardinality(InLayer(res, layer)) <= Cardinality(Pinned(res)) + 1
<1> USE GraphBounds
<1> DEFINE g == Grown(ns, id, node)
           old == InLayer(ns, layer)
           new == InLayer(res, layer)
<1>1. /\ DOMAIN res \subseteq DOMAIN ns \cup {id}
      /\ \A i \in DOMAIN res : res[i] = IF i = id THEN node ELSE ns[i]
      /\ Pinned(ns) \subseteq DOMAIN res
  BY AddedKeeps
<1>2. DOMAIN g = DOMAIN ns \cup {id} /\ \A i \in DOMAIN g : g[i] = IF i = id THEN node ELSE ns[i]
  BY DEF Grown
<1>3. IsFiniteSet(old) /\ Cardinality(old) \in Nat
  BY PartsAreFinite
<1>4. IsFiniteSet(DOMAIN res)
  <2>1. IsFiniteSet(DOMAIN ns \cup {id})
    BY FS_AddElement
  <2> QED
    BY <1>1, <2>1, FS_Subset
<1>5. IsFiniteSet(Pinned(res)) /\ Cardinality(Pinned(res)) \in Nat
  BY <1>4, PartsAreFinite
<1>6. new \subseteq old \cup {id}
  BY <1>1 DEF InLayer
<1>7. CASE node.layer # layer
  <2>1. new \subseteq old
    BY <1>1, <1>7 DEF InLayer
  <2> QED
    BY <1>3, <2>1, FS_Subset
<1>8. CASE node.layer = layer
  <2>1. GraphShape(g)
    BY <1>2 DEF GraphShape, Grown
  <2>2. InLayer(g, layer) = old \cup {id} /\ Live(g, layer) = InLayer(g, layer)
    BY <1>2, <1>8, <2>1, LiveIsInLayer DEF InLayer
  <2>3. IsFiniteSet(old \cup {id}) /\ Cardinality(old \cup {id}) \in Nat
    BY <1>3, FS_AddElement, FS_CardinalityType
  <2>4. CASE Cardinality(Live(g, layer)) <= RetainedCap
    <3>1. IsFiniteSet(new) /\ Cardinality(new) <= Cardinality(old \cup {id})
      BY <1>6, <2>3, FS_Subset
    <3>2. Cardinality(new) \in Nat
      BY <3>1, FS_CardinalityType
    <3> QED
      BY <2>2, <2>3, <2>4, <3>1, <3>2
  <2>5. CASE ~(Cardinality(Live(g, layer)) <= RetainedCap)
    <3> DEFINE ids == {i \in Live(g, layer) : ~g[i].pinned /\ i # id}
    <3>1. g[id].layer = layer
      BY <1>2, <1>8
    <3>2. OverRetainedCap(g, id) = Victims(g, ids)
      BY <2>5, <3>1 DEF OverRetainedCap
    <3>3. PICK victim \in Victims(g, ids) : \E weakest \in OverNodeCap(Without(g, victim)) :
            res = Without(Without(g, victim), weakest)
      <4>1. \E victim \in OverRetainedCap(g, id) :
              \E weakest \in OverNodeCap(Without(g, victim)) :
                res = Without(Without(g, victim), weakest)
        BY AddedIs
      <4> HIDE DEF g, ids
      <4> QED
        BY <3>2, <4>1
    <3>4. DOMAIN res \cap victim = {}
      BY <3>3 DEF Without
    <3>5. CASE ids = {}
      <4>1. new \subseteq Pinned(res) \cup {id}
        BY <1>1, <1>2, <1>6, <2>2, <3>5 DEF InLayer, Pinned
      <4>2. IsFiniteSet({id}) /\ Cardinality({id}) = 1
        BY FS_Singleton
      <4> QED
        BY <1>5, <4>1, <4>2, UnionIsBounded
    <3>6. CASE ids # {}
      <4>1. PICK v \in ids : victim = {v}
        BY <3>3, <3>6 DEF Victims, Oldest
      <4>2. v \in old /\ v # id
        BY <2>2, <4>1
      <4>3. new \subseteq (old \ {v}) \cup {id}
        BY <1>6, <3>4, <4>1 DEF InLayer
      <4>4. IsFiniteSet(old \ {v}) /\ Cardinality(old \ {v}) = Cardinality(old) - 1
        BY <1>3, <4>2, FS_RemoveElement
      <4>5. IsFiniteSet({id}) /\ Cardinality({id}) = 1
        BY FS_Singleton
      <4>6. Cardinality(new) <= Cardinality(old) - 1 + 1
        BY <4>3, <4>4, <4>5, UnionIsBounded
      <4>7. IsFiniteSet(new) /\ Cardinality(new) \in Nat
        BY <4>3, <4>4, <4>5, UnionIsBounded, FS_CardinalityType
      <4> QED
        BY <1>3, <4>6, <4>7
    <3> QED
      BY <3>5, <3>6
  <2> QED
    BY <2>4, <2>5
<1> QED
  BY <1>7, <1>8

(* Past the cap of the graph, all that may be evicted is. *)
LEMMA AddedToGraph ==
  ASSUME NEW ns, NEW id, NEW node, NEW res \in Added(ns, id, node),
         GraphShape(ns), IsFiniteSet(DOMAIN ns), id \notin DOMAIN ns, NodeShape(node, id)
  PROVE  \/ Cardinality(DOMAIN res) <= MaxNodes
         \/ DOMAIN res \subseteq Pinned(res) \cup InLayer(res, "mission") \cup InLayer(res, "contract")
<1> USE GraphBounds
<1> DEFINE g == Grown(ns, id, node)
<1>1. PICK victim \in OverRetainedCap(g, id) : \E weakest \in OverNodeCap(Without(g, victim)) :
        res = Without(Without(g, victim), weakest)
  BY AddedIs
<1> DEFINE kept == Without(g, victim)
<1>2. PICK weakest \in OverNodeCap(kept) : res = Without(kept, weakest)
  BY <1>1
<1>3. /\ DOMAIN res = DOMAIN kept \ weakest
      /\ \A i \in DOMAIN res : res[i] = kept[i]
  BY <1>2 DEF Without
<1>4. IsFiniteSet(DOMAIN kept) /\ Cardinality(DOMAIN kept) \in Nat
  <2>1. DOMAIN kept \subseteq DOMAIN ns \cup {id}
    BY DEF Without, Grown
  <2>2. IsFiniteSet(DOMAIN ns \cup {id})
    BY FS_AddElement
  <2> QED
    BY <2>1, <2>2, FS_Subset, FS_CardinalityType
<1> DEFINE excess == Cardinality(DOMAIN kept) - MaxNodes
           weak   == Evictable(kept)
<1>5. weak \subseteq DOMAIN kept /\ IsFiniteSet(weak) /\ Cardinality(weak) \in Nat
  <2>1. weak \subseteq DOMAIN kept
    BY DEF Evictable
  <2> QED
    BY <1>4, <2>1, FS_Subset, FS_CardinalityType
<1> HIDE DEF kept
<1>6. CASE excess <= 0
  <2>1. weakest = {}
    BY <1>2, <1>6 DEF OverNodeCap
  <2> QED
    BY <1>3, <1>4, <1>6, <2>1
<1>7. CASE ~(excess <= 0)
  <2>1. /\ weakest \subseteq weak
        /\ Cardinality(weakest) = IF excess < Cardinality(weak) THEN excess ELSE Cardinality(weak)
    BY <1>2, <1>7 DEF OverNodeCap
  <2>2. CASE excess < Cardinality(weak)
    <3>1. weakest \subseteq DOMAIN kept
      BY <1>5, <2>1
    <3>2. DOMAIN kept \cap weakest = weakest
      BY <3>1
    <3>3. Cardinality(DOMAIN res) = Cardinality(DOMAIN kept) - Cardinality(weakest)
      BY <1>3, <1>4, <3>2, FS_Difference
    <3> QED
      BY <1>4, <2>1, <2>2, <3>3
  <2>3. CASE ~(excess < Cardinality(weak))
    <3>1. weakest = weak
      BY <1>5, <2>1, <2>3, FS_Subset
    <3>2. \A i \in DOMAIN res : kept[i].pinned \/ kept[i].layer \in Retained
      BY <1>3, <3>1 DEF Evictable
    <3> QED
      BY <1>3, <3>2 DEF Pinned, InLayer, Retained
  <2> QED
    BY <2>2, <2>3
<1> QED
  BY <1>6, <1>7

-----------------------------------------------------------------------------
(* Whatever the step, the most nodes that were ever pinned only grows. *)
LEMMA PinsCounted ==
  ASSUME GraphInv, NEW es, Settle(es), IsFiniteSet(DOMAIN nodes')
  PROVE  /\ pinHigh' \in Nat /\ pinHigh' >= pinHigh
         /\ Cardinality(Pinned(nodes')) <= pinHigh'
         /\ Bound(pinHigh') \in Nat /\ Bound(pinHigh') >= Bound(pinHigh)
         /\ Bound(pinHigh') >= RetainedCap /\ Bound(pinHigh') >= pinHigh' + 1
<1>1. Cardinality(Pinned(nodes')) \in Nat
  BY PartsAreFinite
<1>2. /\ pinHigh' \in Nat /\ pinHigh' >= pinHigh
      /\ Cardinality(Pinned(nodes')) <= pinHigh'
  BY <1>1 DEF GraphInv, Settle
<1>3. /\ Bound(pinHigh') \in Nat /\ Bound(pinHigh') >= Bound(pinHigh)
      /\ Bound(pinHigh') >= RetainedCap /\ Bound(pinHigh') >= pinHigh' + 1
  <2>1. pinHigh \in Nat
    BY DEF GraphInv
  <2> QED
    BY <1>2, <2>1, BoundGrows
<1> QED
  BY <1>2, <1>3

(* Edges are only left between nodes of the graph. *)
LEMMA SettleAttaches ==
  ASSUME NEW es, Settle(es)
  PROVE  EdgesAttached'
  BY DEF Settle, Attached, EdgesAttached

(* Steps that add no node. *)
LEMMA Reshaped ==
  ASSUME GraphInv, NEW es, Settle(es), UNCHANGED nextId,
         GraphShape(nodes'), DOMAIN nodes' \subseteq DOMAIN nodes,
         \A i \in DOMAIN nodes' : nodes'[i].layer = nodes[i].layer
  PROVE  GraphInv'
<1>1. IsFiniteSet(DOMAIN nodes) /\ IsFiniteSet(DOMAIN nodes')
  BY GraphIsFinite, FS_Subset
<1>2. /\ pinHigh' \in Nat /\ pinHigh' >= pinHigh
      /\ Cardinality(Pinned(nodes')) <= pinHigh'
      /\ Bound(pinHigh') \in Nat /\ Bound(pinHigh') >= Bound(pinHigh)
      /\ Bound(pinHigh') >= RetainedCap /\ Bound(pinHigh') >= pinHigh' + 1
  BY <1>1, PinsCounted
<1>3. pinHigh \in Nat /\ Bound(pinHigh) \in Nat
  BY GraphBounds DEF GraphInv, Bound
<1>4. ASSUME NEW layer \in Retained
      PROVE  Cardinality(InLayer(nodes', layer)) <= Bound(pinHigh')
  <2>1. InLayer(nodes', layer) \subseteq InLayer(nodes, layer)
    BY DEF InLayer
  <2>2. /\ Cardinality(InLayer(nodes', layer)) <= Cardinality(InLayer(nodes, layer))
        /\ Cardinality(InLayer(nodes', layer)) \in Nat
        /\ Cardinality(InLayer(nodes, layer)) \in Nat
    BY <1>1, <2>1, PartsAreFinite, FS_Subset
  <2> QED
    BY <1>2, <1>3, <2>2 DEF GraphInv
<1>5. GraphIsBounded'
  <2>1. /\ Cardinality(DOMAIN nodes') <= Cardinality(DOMAIN nodes)
        /\ Cardinality(DOMAIN nodes') \in Nat /\ Cardinality(DOMAIN nodes) \in Nat
    BY <1>1, FS_Subset, FS_CardinalityType
  <2> QED
    BY <1>2, <1>3, <2>1, GraphBounds DEF GraphInv, GraphIsBounded
<1>6. EdgesAttached'
  BY SettleAttaches
<1> QED
  BY <1>2, <1>4, <1>5, <1>6 DEF GraphInv

(* Steps that add one, to a graph of the same nodes. *)
LEMMA Inserted ==
  ASSUME GraphInv, NEW es, Settle(es), nextId' = nextId + 1,
         NEW ns, GraphShape(ns), Alike(ns, nodes),
         NEW node, NodeShape(node, nextId), NEW res \in Added(ns, nextId, node),
         GraphShape(nodes'), Alike(nodes', res), Pinned(nodes') = Pinned(res)
  PROVE  GraphInv'
<1> USE GraphBounds
<1>1. /\ IsFiniteSet(DOMAIN ns) /\ nextId \notin DOMAIN ns /\ DOMAIN ns = DOMAIN nodes
      /\ IsFiniteSet(DOMAIN nodes)
  BY GraphIsFinite DEF Alike
<1>2. DOMAIN res \subseteq DOMAIN nodes \cup {nextId}
  BY <1>1, AddedKeeps
<1>3. DOMAIN nodes' = DOMAIN res /\ \A layer : InLayer(nodes', layer) = InLayer(res, layer)
  BY DEF Alike, InLayer
<1>4. IsFiniteSet(DOMAIN nodes')
  <2>1. IsFiniteSet(DOMAIN nodes \cup {nextId})
    BY <1>1, FS_AddElement
  <2> QED
    BY <1>2, <1>3, <2>1, FS_Subset
<1>5. /\ pinHigh' \in Nat /\ pinHigh' >= pinHigh
      /\ Cardinality(Pinned(nodes')) <= pinHigh'
      /\ Bound(pinHigh') \in Nat /\ Bound(pinHigh') >= Bound(pinHigh)
      /\ Bound(pinHigh') >= RetainedCap /\ Bound(pinHigh') >= pinHigh' + 1
  BY <1>4, PinsCounted
<1>6. /\ pinHigh \in Nat /\ Bound(pinHigh) \in Nat
      /\ Cardinality(Pinned(nodes')) \in Nat /\ IsFiniteSet(Pinned(nodes'))
      /\ Cardinality(DOMAIN nodes') \in Nat
  BY <1>4, PartsAreFinite DEF GraphInv, Bound
<1>7. DOMAIN nodes' \subseteq 1..(nextId' - 1) /\ nextId' \in Nat \ {0}
  BY <1>2, <1>3 DEF GraphInv
<1>8. ASSUME NEW layer \in Retained
      PROVE  Cardinality(InLayer(nodes', layer)) <= Bound(pinHigh')
  <2>1. InLayer(ns, layer) = InLayer(nodes, layer)
    BY DEF InLayer, Alike
  <2>2. /\ Cardinality(InLayer(nodes', layer)) \in Nat
        /\ Cardinality(InLayer(nodes, layer)) \in Nat
        /\ Cardinality(InLayer(nodes, layer)) <= Bound(pinHigh)
    BY <1>1, <1>4, PartsAreFinite DEF GraphInv
  <2>3. \/ Cardinality(InLayer(nodes', layer)) <= Cardinality(InLayer(nodes, layer))
        \/ Cardinality(InLayer(nodes', layer)) <= RetainedCap
        \/ Cardinality(InLayer(nodes', layer)) <= Cardinality(Pinned(nodes')) + 1
    BY <1>1, <1>3, <2>1, AddedToLayer
  <2> QED
    BY <1>5, <1>6, <2>2, <2>3
<1>9. GraphIsBounded'
  <2>1. CASE Cardinality(DOMAIN nodes') <= MaxNodes
    BY <1>5, <1>6, <2>1 DEF GraphIsBounded
  <2>2. CASE DOMAIN nodes' \subseteq
               Pinned(nodes') \cup InLayer(nodes', "mission") \cup InLayer(nodes', "contract")
    <3> DEFINE m == InLayer(nodes', "mission")
               c == InLayer(nodes', "contract")
               p == Pinned(nodes')
    <3>1. m \subseteq {1}
      BY DEF InLayer, GraphShape, NodeShape
    <3>2. IsFiniteSet({1}) /\ Cardinality({1}) = 1
      BY FS_Singleton
    <3>3. IsFiniteSet(c) /\ Cardinality(c) \in Nat /\ Cardinality(c) <= Bound(pinHigh')
      BY <1>4, <1>8, PartsAreFinite DEF Retained
    <3>4. IsFiniteSet({1} \cup c) /\ Cardinality({1} \cup c) <= 1 + Cardinality(c)
      BY <3>2, <3>3, UnionIsBounded
    <3>5. DOMAIN nodes' \subseteq p \cup ({1} \cup c)
      BY <2>2, <3>1
    <3>6. Cardinality(DOMAIN nodes') <= Cardinality(p) + Cardinality({1} \cup c)
      BY <1>6, <3>4, <3>5, UnionIsBounded
    <3>7. Cardinality({1} \cup c) \in Nat
      BY <3>4, FS_CardinalityType
    <3>8. Cardinality(DOMAIN nodes') <= 1 + Bound(pinHigh') + pinHigh'
      BY <1>5, <1>6, <3>3, <3>4, <3>6, <3>7
    <3> QED
      BY <1>5, <1>6, <3>8 DEF GraphIsBounded
  <2>3. \/ Cardinality(DOMAIN res) <= MaxNodes
        \/ DOMAIN res \subseteq Pinned(res) \cup InLayer(res, "mission") \cup InLayer(res, "contract")
    BY <1>1, AddedToGraph
  <2> QED
    BY <1>3, <2>1, <2>2, <2>3
<1>10. EdgesAttached'
  BY SettleAttaches
<1> QED
  BY <1>5, <1>7, <1>8, <1>9, <1>10 DEF GraphInv

(* The usual way: what add leaves is the graph. *)
LEMMA InsertKeeps ==
  ASSUME GraphInv, NEW es, Settle(es), NEW ns, GraphShape(ns), Alike(ns, nodes),
         NEW node, NodeShape(node, nextId), Insert(ns, node)
  PROVE  GraphInv'
<1>1. nodes' \in Added(ns, nextId, node) /\ nextId' = nextId + 1
  BY DEF Insert
<1>2. nextId \notin DOMAIN ns
  BY GraphIsFinite DEF Alike
<1>3. GraphShape(nodes')
  BY <1>1, <1>2, AddedKeeps
<1>4. Alike(nodes', nodes')
  BY DEF Alike
<1> QED
  BY <1>1, <1>3, <1>4, Inserted

-----------------------------------------------------------------------------
LEMMA FreshShape ==
  ASSUME NEW layer \in Layer \ {"mission"}, NEW ttl, NEW id
  PROVE  /\ NodeShape(Fresh(layer, ttl), id)
         /\ layer = "plan" => \A owner, about :
              /\ NodeShape([Fresh(layer, ttl) EXCEPT !.kind = "validation", !.pinned = TRUE], id)
              /\ NodeShape([Fresh(layer, ttl) EXCEPT !.kind = "outcome", !.owner = owner,
                                                     !.about = about], id)
         /\ layer = "subtask" => \A parent :
              NodeShape([Fresh(layer, ttl) EXCEPT !.kind = "subtask", !.parent = parent], id)
  BY DEF Fresh, NodeShape, NodeField, Layer, Retained

(* One node is changed, and stays a node. *)
LEMMA NodeChanged ==
  ASSUME GraphInv, NEW i \in DOMAIN nodes, NEW node, NodeShape(node, i),
         node.layer = nodes[i].layer, nodes' = [nodes EXCEPT ![i] = node],
         UNCHANGED nextId, NEW es, Settle(es)
  PROVE  GraphInv'
<1>1. /\ DOMAIN nodes' = DOMAIN nodes /\ nodes' = [j \in DOMAIN nodes' |-> nodes'[j]]
      /\ \A j \in DOMAIN nodes : nodes'[j] = IF j = i THEN node ELSE nodes[j]
  BY DEF GraphInv, GraphShape
<1>2. GraphShape(nodes')
  BY <1>1 DEF GraphInv, GraphShape
<1> QED
  BY <1>1, <1>2, Reshaped

LEMMA GraphInit == Init => GraphInv
<1> SUFFICES ASSUME Init PROVE GraphInv
  OBVIOUS
<1> USE GraphBounds
<1>1. DOMAIN nodes = {1} /\ GraphShape(nodes) /\ nextId = 2 /\ pinHigh = 1
  BY DEF Init, GraphShape, NodeShape, NodeField, Layer, Retained
<1>2. IsFiniteSet({1}) /\ Cardinality({1}) = 1
  BY FS_Singleton
<1>3. ASSUME NEW S, S \subseteq {1}
      PROVE  Cardinality(S) \in Nat /\ Cardinality(S) <= 1
  BY <1>2, <1>3, FS_Subset, FS_CardinalityType
<1>4. Pinned(nodes) \subseteq {1} /\ \A layer : InLayer(nodes, layer) \subseteq {1}
  BY <1>1 DEF Pinned, InLayer
<1>5. Bound(1) \in Nat /\ Bound(1) >= 1
  BY DEF Bound
<1>6. \A layer \in Retained : Cardinality(InLayer(nodes, layer)) <= Bound(pinHigh)
  BY <1>1, <1>3, <1>4, <1>5
<1>7. GraphIsBounded
  BY <1>1, <1>2, <1>5 DEF GraphIsBounded
<1>8. EdgesAttached
  BY DEF Init, EdgesAttached
<1> QED
  BY <1>1, <1>3, <1>4, <1>6, <1>7, <1>8 DEF GraphInv

LEMMA ValidateKeeps == ASSUME GraphInv, Validate PROVE GraphInv'
<1> DEFINE cleared == [i \in DOMAIN nodes |->
                         IF nodes[i].kind = "validation"
                           THEN [nodes[i] EXCEPT !.state = "dropped", !.pinned = FALSE]
                           ELSE nodes[i]]
<1>1. Alike(cleared, nodes)
  BY DEF Alike, GraphInv, GraphShape, NodeShape, NodeField
<1>2. GraphShape(cleared)
  BY DEF GraphInv, GraphShape, NodeShape, NodeField, Retained
<1>3. Settle(edges)
  BY DEF Validate
<1>4. CASE nodes' = cleared /\ UNCHANGED nextId
  BY <1>1, <1>2, <1>3, <1>4, Reshaped DEF Alike
<1>5. CASE Insert(cleared, [Fresh("plan", 0) EXCEPT !.kind = "validation", !.pinned = TRUE])
  <2>1. NodeShape([Fresh("plan", 0) EXCEPT !.kind = "validation", !.pinned = TRUE], nextId)
    BY FreshShape DEF Layer, Retained
  <2> HIDE DEF cleared
  <2> QED
    BY <1>1, <1>2, <1>3, <1>5, <2>1, InsertKeeps
<1> QED
  BY <1>4, <1>5 DEF Validate

LEMMA ReformKeeps ==
  ASSUME GraphInv, NEW matched \in SUBSET DOMAIN nodes, Reform(matched) PROVE GraphInv'
<1> DEFINE ns == [i \in DOMAIN nodes |->
                    IF i \in matched
                      THEN [nodes[i] EXCEPT !.expanded = TRUE, !.state = "active"]
                      ELSE nodes[i]]
<1>1. Alike(ns, nodes)
  BY DEF Alike, GraphInv, GraphShape, NodeShape, NodeField
<1>2. GraphShape(ns)
  BY DEF GraphInv, GraphShape, NodeShape, NodeField
<1>3. NodeShape(Fresh("contract", 1), nextId)
  BY FreshShape DEF Layer, Retained
<1>4. Settle(edges) /\ Insert(ns, Fresh("contract", 1))
  BY DEF Reform
<1> HIDE DEF ns
<1> QED
  BY <1>1, <1>2, <1>3, <1>4, InsertKeeps

LEMMA CloseKeeps ==
  ASSUME GraphInv, NEW i \in DOMAIN nodes, CloseSubtask(i) PROVE GraphInv'
<1> DEFINE ns == [j \in DOMAIN nodes |->
                    IF \/ j = i
                       \/ /\ nodes[j].owner = i /\ nodes[j].state # "dropped"
                          /\ ~nodes[j].pinned
                      THEN [nodes[j] EXCEPT !.state = "digested"] ELSE nodes[j]]
           node == [Fresh("plan", 0) EXCEPT !.kind = "outcome", !.owner = nodes[i].parent,
                                            !.about = i]
<1>1. Alike(ns, nodes)
  BY DEF Alike, GraphInv, GraphShape, NodeShape, NodeField
<1>2. GraphShape(ns)
  BY DEF GraphInv, GraphShape, NodeShape, NodeField
<1>3. NodeShape(node, nextId)
  BY FreshShape DEF Layer, Retained
<1>4. Settle(edges \cup {<<nextId, i>>}) /\ Insert(ns, node)
  BY DEF CloseSubtask
<1> HIDE DEF ns, node
<1> QED
  BY <1>1, <1>2, <1>3, <1>4, InsertKeeps

(* A new node, in the graph as it is. *)
LEMMA FreshKeeps ==
  ASSUME GraphInv, NEW layer \in Layer \ {"mission"}, NEW ttl,
         Insert(nodes, Fresh(layer, ttl)), Settle(edges)
  PROVE  GraphInv'
<1>1. NodeShape(Fresh(layer, ttl), nextId)
  BY FreshShape
<1>2. Alike(nodes, nodes) /\ GraphShape(nodes)
  BY DEF Alike, GraphInv
<1> QED
  BY <1>1, <1>2, InsertKeeps

LEMMA OpenKeeps == ASSUME GraphInv, OpenSubtask PROVE GraphInv'
<1> DEFINE node == [Fresh("subtask", 0) EXCEPT !.kind = "subtask", !.parent = Focus]
<1>1. PICK grown \in Added(nodes, nextId, node) :
        nodes' = [i \in DOMAIN grown |->
                    IF i = nextId THEN [grown[i] EXCEPT !.owner = nextId] ELSE grown[i]]
  BY DEF OpenSubtask, Opened
<1>2. NodeShape(node, nextId)
  BY FreshShape DEF Layer, Retained
<1>3. Alike(nodes, nodes) /\ GraphShape(nodes) /\ nextId \notin DOMAIN nodes
  BY GraphIsFinite DEF Alike, GraphInv
<1> HIDE DEF node
<1>4. GraphShape(grown)
  BY <1>2, <1>3, AddedKeeps
<1>5. GraphShape(nodes') /\ Alike(nodes', grown) /\ Pinned(nodes') = Pinned(grown)
  <2>1. DOMAIN nodes' = DOMAIN grown /\ nodes' = [i \in DOMAIN nodes' |-> nodes'[i]]
    BY <1>1
  <2>2. ASSUME NEW i \in DOMAIN grown
        PROVE  /\ NodeShape(nodes'[i], i) /\ nodes'[i].layer = grown[i].layer
               /\ nodes'[i].pinned = grown[i].pinned
    BY <1>1, <1>4 DEF GraphShape, NodeShape, NodeField
  <2> QED
    BY <2>1, <2>2 DEF GraphShape, Alike, Pinned
<1>6. nextId' = nextId + 1 /\ Settle(edges)
  BY DEF OpenSubtask
<1> QED
  BY <1>1, <1>2, <1>3, <1>5, <1>6, Inserted

(* Operations on one node. *)
LEMMA OnNodeKeeps ==
  ASSUME GraphInv, NEW i \in DOMAIN nodes,
         Retire(i) \/ Pin(i) \/ Unpin(i) \/ Expand(i) \/ Collapse(i) \/ Drop(i)
  PROVE  GraphInv'
<1>0. NodeShape(nodes[i], i) /\ Settle(edges) /\ UNCHANGED nextId
  BY DEF GraphInv, GraphShape, Retire, Pin, Unpin, Expand, Collapse, Drop
<1>1. PICK node :
        NodeShape(node, i) /\ node.layer = nodes[i].layer /\ nodes' = [nodes EXCEPT ![i] = node]
  <2>1. CASE Retire(i) \/ Drop(i)
    <3> DEFINE node == [nodes[i] EXCEPT !.state = "dropped", !.pinned = FALSE]
    <3>1. NodeShape(node, i) /\ node.layer = nodes[i].layer
      BY <1>0, <2>1 DEF NodeShape, NodeField, Retained, Retire, Drop
    <3>2. nodes' = [nodes EXCEPT ![i] = node]
      BY <2>1 DEF Retire, Drop, GraphInv, GraphShape
    <3> QED
      BY <3>1, <3>2
  <2>2. CASE Pin(i)
    <3> DEFINE node == [nodes[i] EXCEPT !.pinned = TRUE,
                                        !.state = IF @ = "dropped" THEN "active" ELSE @]
    <3>1. NodeShape(node, i) /\ node.layer = nodes[i].layer
      BY <1>0 DEF NodeShape, NodeField
    <3>2. nodes' = [nodes EXCEPT ![i] = node]
      BY <2>2, <1>0 DEF Pin, GraphInv, GraphShape, NodeShape, NodeField
    <3> QED
      BY <3>1, <3>2
  <2>3. CASE Unpin(i)
    <3> DEFINE node == [nodes[i] EXCEPT !.pinned = FALSE]
    <3>1. NodeShape(node, i) /\ node.layer = nodes[i].layer
      BY <1>0 DEF NodeShape, NodeField
    <3>2. nodes' = [nodes EXCEPT ![i] = node]
      BY <2>3 DEF Unpin, GraphInv, GraphShape
    <3> QED
      BY <3>1, <3>2
  <2>4. CASE Expand(i)
    <3> DEFINE node == [nodes[i] EXCEPT !.expanded = TRUE, !.state = "active"]
    <3>1. NodeShape(node, i) /\ node.layer = nodes[i].layer
      BY <1>0 DEF NodeShape, NodeField
    <3>2. nodes' = [nodes EXCEPT ![i] = node]
      BY <2>4 DEF Expand, GraphInv, GraphShape
    <3> QED
      BY <3>1, <3>2
  <2>5. CASE Collapse(i)
    <3> DEFINE node == [nodes[i] EXCEPT !.expanded = FALSE, !.state = "digested"]
    <3>1. NodeShape(node, i) /\ node.layer = nodes[i].layer
      BY <1>0 DEF NodeShape, NodeField
    <3>2. nodes' = [nodes EXCEPT ![i] = node]
      BY <2>5 DEF Collapse, GraphInv, GraphShape
    <3> QED
      BY <3>1, <3>2
  <2> QED
    BY <2>1, <2>2, <2>3, <2>4, <2>5
<1> QED
  BY <1>0, <1>1, NodeChanged

LEMMA DecayKeeps == ASSUME GraphInv, Decay PROVE GraphInv'
<1>1. PICK gone : nodes' = Without(nodes, gone)
  BY DEF Decay
<1>2. /\ DOMAIN nodes' \subseteq DOMAIN nodes /\ \A i \in DOMAIN nodes' : nodes'[i] = nodes[i]
      /\ nodes' = [i \in DOMAIN nodes' |-> nodes'[i]]
  BY <1>1 DEF Without
<1>3. GraphShape(nodes')
  BY <1>2 DEF GraphInv, GraphShape
<1>4. Settle(edges) /\ UNCHANGED nextId
  BY DEF Decay
<1> QED
  BY <1>2, <1>3, <1>4, Reshaped

-----------------------------------------------------------------------------
LEMMA GraphNext == GraphInv /\ [Next]_vars => GraphInv'
<1> SUFFICES ASSUME GraphInv, [Next]_vars PROVE GraphInv'
  OBVIOUS
<1>1. CASE Remember
  <2>1. PICK layer \in {"evidence", "contract"} : \E ttl \in Ttl \cup {0} :
          Insert(nodes, Fresh(layer, ttl))
    BY <1>1 DEF Remember
  <2>2. layer \in Layer \ {"mission"} /\ Settle(edges)
    BY <1>1 DEF Remember, Layer, Retained
  <2> QED
    BY <2>1, <2>2, FreshKeeps
<1>2. CASE Validate
  BY <1>2, ValidateKeeps
<1>3. CASE Decay
  BY <1>3, DecayKeeps
<1>4. ASSUME NEW i \in DOMAIN nodes,
             Retire(i) \/ Pin(i) \/ Unpin(i) \/ Expand(i) \/ Collapse(i) \/ Drop(i)
      PROVE  GraphInv'
  BY <1>4, OnNodeKeeps
<1>5. ASSUME NEW i \in DOMAIN nodes, CloseSubtask(i) PROVE GraphInv'
  BY <1>5, CloseKeeps
<1>6. ASSUME NEW i \in DOMAIN nodes, FocusOn(i) PROVE GraphInv'
  BY <1>6 DEF FocusOn, GraphInv, GraphIsBounded, EdgesAttached
<1>7. ASSUME NEW i \in DOMAIN nodes, NEW j \in DOMAIN nodes, Link(i, j) PROVE GraphInv'
  BY <1>7 DEF Link, GraphInv, GraphIsBounded, EdgesAttached
<1>8. ASSUME NEW layer \in NoteLayer, Note(layer) PROVE GraphInv'
  <2>1. layer \in Layer \ {"mission"}
    BY GraphAssumption DEF Retained
  <2> QED
    BY <1>8, <2>1, FreshKeeps DEF Note
<1>9. CASE OpenSubtask
  BY <1>9, OpenKeeps
<1>10. ASSUME NEW matched \in SUBSET DOMAIN nodes, Reform(matched) PROVE GraphInv'
  BY <1>10, ReformKeeps
<1>11. CASE UNCHANGED vars
  BY <1>11 DEF vars, GraphInv, GraphIsBounded, EdgesAttached
<1> QED
  BY <1>1, <1>2, <1>3, <1>4, <1>5, <1>6, <1>7, <1>8, <1>9, <1>10, <1>11
  DEF Next, Session, ApplyOp

(* What the nodes are like, and how many there may be of them. *)
THEOREM GraphInvariant == Spec => []GraphInv
<1> QED
  BY GraphInit, GraphNext, PTL DEF Spec

(* Whatever is evicted, expires or is closed takes its edges with it. *)
THEOREM GraphEdgesAttached == Spec => []EdgesAttached
<1>1. GraphInv => EdgesAttached
  BY DEF GraphInv
<1> QED
  BY <1>1, GraphInvariant, PTL

(* The population of a retained layer is bounded by its cap or the pins,   *)
(* though what is in it bypasses the budget.                               *)
THEOREM GraphRetainedIsBounded == Spec => []RetainedIsBounded
<1>1. GraphInv => RetainedIsBounded
  BY LiveIsInLayer DEF GraphInv, RetainedIsBounded
<1> QED
  BY <1>1, GraphInvariant, PTL

(* No number of turns, operations and subtasks makes the graph larger than *)
(* its cap or, past it, than the pins, a retained layer and the mission.   *)
THEOREM GraphStaysBounded == Spec => []GraphIsBounded
<1>1. GraphInv => GraphIsBounded
  BY DEF GraphInv
<1> QED
  BY <1>1, GraphInvariant, PTL

-----------------------------------------------------------------------------
(* What insert does to a pinned node: nothing. *)
LEMMA InsertKeepsPinned ==
  ASSUME GraphInv, NEW ns, GraphShape(ns), Alike(ns, nodes),
         NEW node, NodeShape(node, nextId), NEW res \in Added(ns, nextId, node)
  PROVE  Pinned(ns) \subseteq DOMAIN res
  BY GraphIsFinite, AddedKeeps DEF Alike

(* A step removes no pinned node, but for issues of an earlier validation. *)
LEMMA PinnedStep ==
  ASSUME GraphInv, [Next]_vars
  PROVE  {i \in Pinned(nodes) : nodes[i].kind # "validation"} \subseteq DOMAIN nodes'
<1> DEFINE Kept == {i \in Pinned(nodes) : nodes[i].kind # "validation"} \subseteq DOMAIN nodes'
<1>0. GraphShape(nodes) /\ Alike(nodes, nodes) /\ Pinned(nodes) \subseteq DOMAIN nodes
  BY DEF GraphInv, Alike, Pinned
<1>1. ASSUME NEW layer \in Layer \ {"mission"}, NEW ttl, Insert(nodes, Fresh(layer, ttl))
      PROVE  Kept
  <2>1. NodeShape(Fresh(layer, ttl), nextId) /\ nodes' \in Added(nodes, nextId, Fresh(layer, ttl))
    BY <1>1, FreshShape DEF Insert
  <2> QED
    BY <1>0, <2>1, InsertKeepsPinned
<1>2. CASE Remember
  <2>1. PICK layer \in {"evidence", "contract"} : \E ttl \in Ttl \cup {0} :
          Insert(nodes, Fresh(layer, ttl))
    BY <1>2 DEF Remember
  <2>2. layer \in Layer \ {"mission"}
    BY DEF Layer, Retained
  <2> QED
    BY <1>1, <2>1, <2>2
<1>3. CASE Validate
  <2> DEFINE cleared == [i \in DOMAIN nodes |->
                           IF nodes[i].kind = "validation"
                             THEN [nodes[i] EXCEPT !.state = "dropped", !.pinned = FALSE]
                             ELSE nodes[i]]
             node == [Fresh("plan", 0) EXCEPT !.kind = "validation", !.pinned = TRUE]
  <2>1. Alike(cleared, nodes)
    BY DEF Alike, GraphInv, GraphShape, NodeShape, NodeField
  <2>2. GraphShape(cleared)
    BY DEF GraphInv, GraphShape, NodeShape, NodeField, Retained
  <2>3. NodeShape(node, nextId)
    BY FreshShape DEF Layer, Retained
  <2>4. {i \in Pinned(nodes) : nodes[i].kind # "validation"} \subseteq Pinned(cleared)
    BY DEF Pinned
  <2>5. Pinned(cleared) \subseteq DOMAIN cleared
    BY DEF Pinned
  <2>6. nodes' = cleared \/ nodes' \in Added(cleared, nextId, node)
    BY <1>3 DEF Validate, Insert
  <2> HIDE DEF cleared, node
  <2> QED
    BY <2>1, <2>2, <2>3, <2>4, <2>5, <2>6, InsertKeepsPinned
<1>4. CASE Decay
  BY <1>0, <1>4 DEF Decay, Without, Expired, Pinned
<1>5. ASSUME NEW i \in DOMAIN nodes,
             Retire(i) \/ Pin(i) \/ Unpin(i) \/ Expand(i) \/ Collapse(i) \/ Drop(i)
      PROVE  Kept
  <2>1. DOMAIN nodes' = DOMAIN nodes
    BY <1>5 DEF Retire, Pin, Unpin, Expand, Collapse, Drop
  <2> QED
    BY <1>0, <2>1
<1>6. ASSUME NEW i \in DOMAIN nodes, CloseSubtask(i) PROVE Kept
  <2> DEFINE ns == [j \in DOMAIN nodes |->
                      IF \/ j = i
                         \/ /\ nodes[j].owner = i /\ nodes[j].state # "dropped"
                            /\ ~nodes[j].pinned
                        THEN [nodes[j] EXCEPT !.state = "digested"] ELSE nodes[j]]
             node == [Fresh("plan", 0) EXCEPT !.kind = "outcome", !.owner = nodes[i].parent,
                                              !.about = i]
  <2>1. Alike(ns, nodes)
    BY DEF Alike, GraphInv, GraphShape, NodeShape, NodeField
  <2>2. GraphShape(ns)
    BY DEF GraphInv, GraphShape, NodeShape, NodeField
  <2>3. NodeShape(node, nextId)
    BY FreshShape DEF Layer, Retained
  <2>4. Pinned(nodes) \subseteq Pinned(ns)
    BY DEF Pinned, GraphInv, GraphShape, NodeShape, NodeField
  <2>5. nodes' \in Added(ns, nextId, node)
    BY <1>6 DEF CloseSubtask, Insert
  <2> HIDE DEF ns, node
  <2> QED
    BY <2>1, <2>2, <2>3, <2>4, <2>5, InsertKeepsPinned
<1>7. CASE UNCHANGED nodes
  BY <1>0, <1>7
<1>8. ASSUME NEW layer \in NoteLayer, Note(layer) PROVE Kept
  <2>1. layer \in Layer \ {"mission"}
    BY GraphAssumption DEF Retained
  <2> QED
    BY <1>1, <1>8, <2>1 DEF Note
<1>9. CASE OpenSubtask
  <2> DEFINE node == [Fresh("subtask", 0) EXCEPT !.kind = "subtask", !.parent = Focus]
  <2>1. PICK grown \in Added(nodes, nextId, node) : DOMAIN nodes' = DOMAIN grown
    BY <1>9 DEF OpenSubtask, Opened
  <2>2. NodeShape(node, nextId)
    BY FreshShape DEF Layer, Retained
  <2> HIDE DEF node
  <2> QED
    BY <1>0, <2>1, <2>2, InsertKeepsPinned
<1>10. ASSUME NEW matched \in SUBSET DOMAIN nodes, Reform(matched) PROVE Kept
  <2> DEFINE ns == [i \in DOMAIN nodes |->
                      IF i \in matched
                        THEN [nodes[i] EXCEPT !.expanded = TRUE, !.state = "active"]
                        ELSE nodes[i]]
  <2>1. Alike(ns, nodes)
    BY DEF Alike, GraphInv, GraphShape, NodeShape, NodeField
  <2>2. GraphShape(ns)
    BY DEF GraphInv, GraphShape, NodeShape, NodeField
  <2>3. NodeShape(Fresh("contract", 1), nextId)
    BY FreshShape DEF Layer, Retained
  <2>4. Pinned(nodes) \subseteq Pinned(ns)
    BY DEF Pinned, GraphInv, GraphShape, NodeShape, NodeField
  <2>5. nodes' \in Added(ns, nextId, Fresh("contract", 1))
    BY <1>10 DEF Reform, Insert
  <2> HIDE DEF ns
  <2> QED
    BY <2>1, <2>2, <2>3, <2>4, <2>5, InsertKeepsPinned
<1>11. ASSUME NEW i \in DOMAIN nodes, FocusOn(i) \/ \E j \in DOMAIN nodes : Link(i, j)
       PROVE  UNCHANGED nodes
  BY <1>11 DEF FocusOn, Link
<1>12. UNCHANGED vars => UNCHANGED nodes
  BY DEF vars
<1> HIDE DEF Kept
<1> QED
  BY <1>2, <1>3, <1>4, <1>5, <1>6, <1>7, <1>8, <1>9, <1>10, <1>11, <1>12
  DEF Next, Session, ApplyOp, Kept

(* A pinned node outlasts both caps and its own expiry, until it is        *)
(* unpinned.                                                               *)
THEOREM GraphPinnedSurvives == Spec => PinnedSurvives
<1>1. GraphInv /\ [Next]_vars =>
        [{i \in Pinned(nodes) : nodes[i].kind # "validation"} \subseteq DOMAIN nodes']_vars
  BY PinnedStep
<1> QED
  BY <1>1, GraphInvariant, PTL DEF Spec, PinnedSurvives

-----------------------------------------------------------------------------
(* Parents are opened before their children. *)
Rooted(ns) ==
  \A i \in DOMAIN ns : i \in 1..MaxId /\ ns[i].parent \in 0..(i - 1)

LEMMA IdBounds == MaxId \in Nat /\ MaxId >= 1
  BY GraphAssumption

(* What FocusPath computes for a subtask from those it computes for less. *)
PathStep(path, ns, i) ==
  IF i \notin DOMAIN ns THEN <<>> ELSE Append(path[ns[i].parent], i)

IsPath(f, ns, n) == f = [i \in 0..n |-> PathStep(f, ns, i)]

LEMMA PathExists ==
  ASSUME NEW ns, Rooted(ns)
  PROVE  \A n \in Nat : \E f : IsPath(f, ns, n)
<1> DEFINE S == {n \in Nat : \E f : IsPath(f, ns, n)}
<1>1. 0 \in S
  <2>1. 0 \notin DOMAIN ns
    BY DEF Rooted
  <2>2. IsPath([i \in 0..0 |-> <<>>], ns, 0)
    BY <2>1 DEF IsPath, PathStep
  <2>3. QED
    BY <2>2
<1>2. ASSUME NEW n \in Nat, n \in S
      PROVE  n + 1 \in S
  <2>1. PICK f : IsPath(f, ns, n)
    BY <1>2
  <2> DEFINE g == [i \in 0..(n + 1) |-> IF i <= n THEN f[i] ELSE PathStep(f, ns, i)]
  <2>2. \A i \in 0..(n + 1) : PathStep(g, ns, i) = PathStep(f, ns, i)
    BY DEF PathStep, Rooted
  <2>3. \A i \in 0..n : f[i] = PathStep(f, ns, i)
    BY <2>1 DEF IsPath
  <2>4. IsPath(g, ns, n + 1)
    BY <2>2, <2>3 DEF IsPath
  <2>5. QED
    BY <2>4
<1> HIDE DEF S
<1>3. \A n \in Nat : n \in S
  BY <1>1, <1>2, SetInduction
<1>4. QED
  BY <1>3 DEF S

(* The path of a subtask that is gone is empty; that of one that is not is *)
(* the path of its parent, and the subtask.                                *)
LEMMA FocusPathIs ==
  ASSUME NEW ns, Rooted(ns)
  PROVE  /\ \A i \in (0..MaxId) \ DOMAIN ns : FocusPath(ns, i) = <<>>
         /\ \A i \in DOMAIN ns :
              FocusPath(ns, i) = Append(FocusPath(ns, ns[i].parent), i)
<1>1. \E f : IsPath(f, ns, MaxId)
  BY IdBounds, PathExists
<1> DEFINE path == CHOOSE f : f = [i \in 0..MaxId |-> PathStep(f, ns, i)]
<1>2. IsPath(path, ns, MaxId)
  BY <1>1 DEF IsPath
<1>3. \A i : FocusPath(ns, i) = path[i]
  BY DEF FocusPath, PathStep
<1> HIDE DEF path
<1>4. \A i \in 0..MaxId : path[i] = PathStep(path, ns, i)
  BY <1>2 DEF IsPath
<1>5. ASSUME NEW i \in (0..MaxId) \ DOMAIN ns
      PROVE  FocusPath(ns, i) = <<>>
  BY <1>3, <1>4 DEF PathStep
<1>6. ASSUME NEW i \in DOMAIN ns
      PROVE  FocusPath(ns, i) = Append(FocusPath(ns, ns[i].parent), i)
  <2>1. i \in 0..MaxId
    BY IdBounds DEF Rooted
  <2>2. QED
    BY <1>3, <1>4, <2>1 DEF PathStep
<1>7. QED
  BY <1>5, <1>6

(* Each subtask that is there has the one below it for its parent, and the *)
(* first has a parent that is gone, or none.                               *)
Linked(s, ns) ==
  \A k \in DOMAIN s : s[k] \in DOMAIN ns =>
    IF k = 1 THEN ns[s[k]].parent \notin DOMAIN ns ELSE ns[s[k]].parent = s[k - 1]

(* A path is one, of subtasks that are there, and ends in its subtask. *)
LEMMA FocusPathLinked ==
  ASSUME NEW ns, Rooted(ns)
  PROVE  \A i \in DOMAIN ns :
           LET p == FocusPath(ns, i)
           IN p \in Seq(DOMAIN ns) /\ Len(p) > 0 /\ p[Len(p)] = i /\ Linked(p, ns)
<1> DEFINE Good(p, i) == p \in Seq(DOMAIN ns) /\ Len(p) > 0 /\ p[Len(p)] = i /\ Linked(p, ns)
           Done == {i \in Nat : i \in DOMAIN ns => Good(FocusPath(ns, i), i)}
<1>1. ASSUME NEW i \in Nat, \A j \in Nat : j < i => j \in Done
      PROVE  i \in Done
  <2> SUFFICES ASSUME i \in DOMAIN ns
               PROVE  Good(FocusPath(ns, i), i)
    OBVIOUS
  <2> DEFINE up == ns[i].parent
             q == FocusPath(ns, up)
             p == FocusPath(ns, i)
  <2>1. up \in 0..MaxId /\ up < i /\ up \in Nat
    BY IdBounds DEF Rooted
  <2>2. p = Append(q, i)
    BY FocusPathIs
  <2>3. CASE up \notin DOMAIN ns
    <3>1. q = <<>>
      BY <2>1, <2>3, FocusPathIs
    <3> HIDE DEF p, q
    <3>2. p = <<i>>
      BY <2>2, <3>1
    <3> HIDE DEF up
    <3>3. <<i>> \in Seq(DOMAIN ns) /\ Len(<<i>>) = 1 /\ DOMAIN <<i>> = {1} /\ <<i>>[1] = i
      OBVIOUS
    <3>4. Linked(<<i>>, ns)
      BY <2>3, <3>3 DEF Linked, up
    <3>5. QED
      BY <3>2, <3>3, <3>4 DEF p
  <2>4. CASE up \in DOMAIN ns
    <3>1. Good(q, up)
      BY <1>1, <2>1, <2>4
    <3> HIDE DEF p, q
    <3>2. /\ p \in Seq(DOMAIN ns) /\ Len(q) \in Nat /\ Len(p) = Len(q) + 1
          /\ DOMAIN p = 1..(Len(q) + 1) /\ DOMAIN q = 1..Len(q) /\ p[Len(q) + 1] = i
          /\ \A k \in 1..Len(q) : p[k] = q[k]
      BY <2>2, <3>1
    <3>3. Linked(p, ns)
      <4> SUFFICES ASSUME NEW k \in DOMAIN p, p[k] \in DOMAIN ns
                   PROVE  IF k = 1 THEN ns[p[k]].parent \notin DOMAIN ns
                                   ELSE ns[p[k]].parent = p[k - 1]
        BY DEF Linked
      <4>1. CASE k = Len(q) + 1
        BY <3>1, <3>2, <4>1
      <4>2. CASE k \in 1..Len(q)
        <5>1. p[k] = q[k] /\ k \in DOMAIN q /\ (k # 1 => k - 1 \in 1..Len(q))
          BY <3>2, <4>2
        <5>2. k # 1 => p[k - 1] = q[k - 1]
          BY <3>2, <5>1
        <5>3. QED
          BY <3>1, <5>1, <5>2 DEF Linked
      <4>3. QED
        BY <3>2, <4>1, <4>2
    <3>4. QED
      BY <3>1, <3>2, <3>3 DEF p
  <2>5. QED
    BY <2>3, <2>4
<1> HIDE DEF Done
<1>2. \A i \in Nat : i \in Done
  BY <1>1, StrongInduction
<1>3. \A i \in DOMAIN ns : i \in Nat
  BY DEF Rooted
<1>4. QED
  BY <1>2, <1>3 DEF Done

(* Where a linked stack has lost no subtask above the last that is gone,   *)
(* it is the path of its top.                                              *)
LEMMA LinkedIsPath ==
  ASSUME NEW ns, Rooted(ns), NEW s \in Seq(0..MaxId), Linked(s, ns),
         NEW last \in 0..Len(s),
         last > 0 => s[last] \notin DOMAIN ns,
         \A k \in (last + 1)..Len(s) : s[k] \in DOMAIN ns
  PROVE  \A k \in (last + 1)..Len(s) : FocusPath(ns, s[k]) = SubSeq(s, last + 1, k)
<1> DEFINE Done == {n \in Nat : last + 1 + n <= Len(s) =>
                      FocusPath(ns, s[last + 1 + n]) = SubSeq(s, last + 1, last + 1 + n)}
<1>0. /\ Len(s) \in Nat /\ last \in Nat /\ DOMAIN s = 1..Len(s)
      /\ \A l \in 1..Len(s) : s[l] \in 0..MaxId
  <2>1. Len(s) \in Nat /\ s \in [1..Len(s) -> 0..MaxId] /\ DOMAIN s = 1..Len(s)
    BY LenProperties
  <2>2. last \in Nat
    BY <2>1
  <2>3. QED
    BY <2>1, <2>2
<1>1. 0 \in Done
  <2> SUFFICES ASSUME last + 1 <= Len(s)
               PROVE  FocusPath(ns, s[last + 1]) = SubSeq(s, last + 1, last + 1)
    BY <1>0
  <2>1. last + 1 \in DOMAIN s /\ s[last + 1] \in DOMAIN ns
    BY <1>0
  <2> DEFINE up == ns[s[last + 1]].parent
  <2>2. up \notin DOMAIN ns /\ up \in 0..MaxId
    <3>1. up \in 0..MaxId
      BY <2>1, IdBounds DEF Rooted
    <3>2. CASE last = 0
      BY <2>1, <3>1, <3>2 DEF Linked
    <3>3. CASE last > 0
      BY <1>0, <2>1, <3>1, <3>3 DEF Linked
    <3>4. QED
      BY <1>0, <3>2, <3>3
  <2>3. FocusPath(ns, up) = <<>>
    BY <2>2, FocusPathIs
  <2>4. FocusPath(ns, s[last + 1]) = Append(<<>>, s[last + 1])
    BY <2>1, <2>3, FocusPathIs
  <2>5. SubSeq(s, last + 1, last + 1) = Append(<<>>, s[last + 1])
    <3> DEFINE m == last + 1
    <3>1. m \in 1..Len(s) /\ m \in m..Len(s) /\ m \in Int /\ m - 1 \in Int /\ m - 1 < m
      BY <1>0, <2>1
    <3> HIDE DEF m
    <3>2. SubSeq(s, m, m) = SubSeq(s, m, m - 1) \o <<s[m]>>
      BY <3>1, SubSeqRecursiveSecond
    <3>3. SubSeq(s, m, m - 1) = <<>>
      BY <3>1, SubSeqEmpty
    <3>4. s[m] \in 0..MaxId /\ <<>> \in Seq(0..MaxId)
      BY <1>0, <3>1
    <3>5. Append(<<>>, s[m]) = <<>> \o <<s[m]>>
      BY <3>4, AppendIsConcat
    <3>6. QED
      BY <3>2, <3>3, <3>5 DEF m
  <2>6. QED
    BY <2>4, <2>5
<1>2. ASSUME NEW n \in Nat, n \in Done
      PROVE  n + 1 \in Done
  <2> DEFINE k == last + 1 + n
  <2> SUFFICES ASSUME k + 1 <= Len(s)
               PROVE  FocusPath(ns, s[k + 1]) = SubSeq(s, last + 1, k + 1)
    BY <1>0
  <2>1. /\ k + 1 \in DOMAIN s /\ k + 1 # 1 /\ (k + 1) - 1 = k
        /\ k + 1 \in (last + 1)..Len(s) /\ k <= Len(s) /\ last + 1 <= k + 1
    BY <1>0
  <2>2. FocusPath(ns, s[k]) = SubSeq(s, last + 1, k)
    BY <1>2, <2>1
  <2> HIDE DEF k
  <2>3. s[k + 1] \in DOMAIN ns /\ ns[s[k + 1]].parent = s[k]
    BY <2>1 DEF Linked
  <2>4. FocusPath(ns, s[k + 1]) = Append(SubSeq(s, last + 1, k), s[k + 1])
    BY <2>2, <2>3, FocusPathIs
  <2>5. SubSeq(s, last + 1, k + 1) = Append(SubSeq(s, last + 1, k), s[k + 1])
    <3> DEFINE m == last + 1
               t == SubSeq(s, m, k)
    <3>1. /\ m \in 1..Len(s) /\ m \in Int /\ k \in Int /\ k + 1 \in m..Len(s)
          /\ \A l \in m..k : l \in 1..Len(s)
      BY <1>0, <2>1 DEF k
    <3>2. s[k + 1] \in 0..MaxId /\ \A l \in m..k : s[l] \in 0..MaxId
      BY <1>0, <2>1, <3>1
    <3> HIDE DEF m
    <3>3. t \in Seq(0..MaxId)
      BY <3>1, <3>2, SubSeqProperties
    <3>4. SubSeq(s, m, k + 1) = t \o <<s[k + 1]>>
      BY <2>1, <3>1, SubSeqRecursiveSecond
    <3> HIDE DEF t
    <3>5. Append(t, s[k + 1]) = t \o <<s[k + 1]>>
      BY <3>2, <3>3, AppendIsConcat
    <3>6. QED
      BY <3>4, <3>5 DEF t, m
  <2>6. QED
    BY <2>4, <2>5
<1> HIDE DEF Done
<1>3. \A n \in Nat : n \in Done
  BY <1>1, <1>2, SetInduction
<1>4. ASSUME NEW k \in (last + 1)..Len(s)
      PROVE  FocusPath(ns, s[k]) = SubSeq(s, last + 1, k)
  <2>1. k - (last + 1) \in Nat /\ last + 1 + (k - (last + 1)) = k
    BY <1>0
  <2>2. k - (last + 1) \in Done
    BY <1>3, <2>1
  <2>3. QED
    BY <2>1, <2>2 DEF Done
<1>5. QED
  BY <1>4

(* What is on the stack, and what a new node owns, is of the type it has;  *)
(* subtasks on it are linked.                                              *)
NodeTypes(ns, next) ==
  \A i \in DOMAIN ns : ns[i] \in Node /\ ns[i].parent < i /\ i \in 1..(next - 1)

StackInv ==
  /\ NodeTypes(nodes, nextId) /\ nextId \in 1..(MaxId + 1)
  /\ edges \subseteq (1..MaxId) \X (1..MaxId)
  /\ stack \in Seq(1..(nextId - 1)) /\ Linked(stack, nodes)
  /\ turn \in 0..MaxTurn /\ uses \in Profiles /\ pinHigh \in 0..MaxId

LEMMA TypesAreRooted ==
  ASSUME NEW ns, NEW next \in 1..(MaxId + 1), NodeTypes(ns, next)
  PROVE  Rooted(ns)
<1> SUFFICES ASSUME NEW i \in DOMAIN ns
             PROVE  i \in 1..MaxId /\ ns[i].parent \in 0..(i - 1)
  BY DEF Rooted
<1>1. ns[i] \in Node /\ ns[i].parent < i /\ i \in 1..(next - 1)
  BY DEF NodeTypes
<1>2. ns[i].parent \in Nat
  BY <1>1 DEF Node
<1>3. QED
  BY <1>1, <1>2, IdBounds

(* The focus is a number, and an id if there is one. *)
LEMMA FocusType ==
  ASSUME StackInv
  PROVE  Focus \in 0..(nextId - 1) /\ Focus \in Nat
<1>1. CASE stack = <<>>
  BY <1>1, IdBounds DEF Focus, None, StackInv
<1>2. CASE stack # <<>>
  <2>1. Len(stack) \in Nat /\ Len(stack) > 0 /\ stack[Len(stack)] \in 1..(nextId - 1)
    BY <1>2 DEF StackInv
  <2>2. QED
    BY <1>2, <2>1, IdBounds DEF Focus, StackInv
<1>3. QED
  BY <1>1, <1>2

(* The path to the focus is what is left of the stack. *)
LEMMA StackInvIsPath == StackInv => StackIsPath
<1> SUFFICES ASSUME StackInv PROVE StackIsPath
  OBVIOUS
<1> DEFINE gone == {k \in DOMAIN stack : stack[k] \notin DOMAIN nodes}
           last == IF gone = {} THEN 0 ELSE CHOOSE k \in gone : \A l \in gone : l <= k
<1>1. Rooted(nodes)
  BY TypesAreRooted DEF StackInv
<1>2. stack \in Seq(0..MaxId)
  <2>1. 1..(nextId - 1) \subseteq 0..MaxId
    BY IdBounds DEF StackInv
  <2>2. QED
    BY <2>1, SeqMonotonic DEF StackInv
<1>3. /\ DOMAIN stack = 1..Len(stack) /\ Len(stack) \in Nat
      /\ stack # <<>> => Len(stack) > 0 /\ stack[Len(stack)] \in 0..MaxId
      /\ stack = <<>> => Len(stack) = 0
  <2>1. /\ DOMAIN stack = 1..Len(stack) /\ Len(stack) \in Nat
        /\ stack \in [1..Len(stack) -> 0..MaxId]
    BY <1>2, LenProperties
  <2>2. stack # <<>> => Len(stack) > 0
    BY <1>2, EmptySeq
  <2>3. Len(stack) > 0 => stack[Len(stack)] \in 0..MaxId
    BY <2>1
  <2>4. QED
    BY <2>1, <2>2, <2>3, EmptySeq
<1>4. gone # {} => \E k \in gone : \A l \in gone : l <= k
  <2> SUFFICES ASSUME gone # {} PROVE \E k \in gone : \A l \in gone : l <= k
    OBVIOUS
  <2> DEFINE T == {Len(stack) - k : k \in gone}
  <2>1. T \in SUBSET Nat /\ T # {}
    BY <1>3
  <2>2. PICK n \in T : \A m \in T : n <= m
    BY <2>1, LeastElement
  <2>3. PICK k \in gone : n = Len(stack) - k
    BY <2>2
  <2>4. ASSUME NEW l \in gone
        PROVE  l <= k
    <3>1. Len(stack) - l \in T /\ l \in Nat /\ k \in Nat
      BY <1>3, <2>3
    <3> HIDE DEF T, gone
    <3>2. n <= Len(stack) - l
      BY <2>2, <3>1
    <3>3. QED
      BY <1>3, <2>3, <3>1, <3>2
  <2>5. QED
    BY <2>4
<1>5. /\ last \in 0..Len(stack)
      /\ last > 0 => stack[last] \notin DOMAIN nodes
      /\ \A k \in (last + 1)..Len(stack) : stack[k] \in DOMAIN nodes
  <2>1. CASE gone = {}
    BY <1>3, <2>1
  <2>2. CASE gone # {}
    <3>1. last \in gone /\ \A l \in gone : l <= last
      BY <1>4, <2>2
    <3> HIDE DEF last
    <3>2. QED
      BY <1>3, <3>1
  <2>3. QED
    BY <2>1, <2>2
<1> HIDE DEF last
<1>6. FocusPath(nodes, Focus) = SubSeq(stack, last + 1, Len(stack))
  <2>1. CASE last = Len(stack)
    <3>1. Focus \in (0..MaxId) \ DOMAIN nodes
      <4>1. CASE stack = <<>>
        BY <1>1, <4>1, IdBounds DEF Focus, None, Rooted
      <4>2. CASE stack # <<>>
        <5>1. Len(stack) > 0 /\ stack[Len(stack)] \in 0..MaxId
          BY <1>3, <4>2
        <5>2. QED
          BY <1>5, <2>1, <4>2, <5>1 DEF Focus
      <4>3. QED
        BY <4>1, <4>2
    <3>2. FocusPath(nodes, Focus) = <<>>
      BY <1>1, <3>1, FocusPathIs
    <3>3. SubSeq(stack, last + 1, Len(stack)) = <<>>
      BY <1>3, <1>5, <2>1, SubSeqEmpty
    <3>4. QED
      BY <3>2, <3>3
  <2>2. CASE last # Len(stack)
    <3>1. Len(stack) \in (last + 1)..Len(stack) /\ stack # <<>>
      <4>1. last \in 0..Len(stack) /\ Len(stack) \in Nat
        BY <1>3, <1>5
      <4>2. last < Len(stack)
        BY <2>2, <4>1
      <4>3. Len(stack) # 0
        BY <4>1, <4>2
      <4>4. QED
        BY <1>3, <4>1, <4>2, <4>3
    <3>2. Focus = stack[Len(stack)]
      BY <3>1 DEF Focus
    <3>3. \A k \in (last + 1)..Len(stack) : FocusPath(nodes, stack[k]) = SubSeq(stack, last + 1, k)
      BY <1>1, <1>2, <1>5, LinkedIsPath DEF StackInv
    <3>4. QED
      BY <3>1, <3>2, <3>3
  <2>3. QED
    BY <2>1, <2>2
<1>7. QED
  BY <1>6 DEF StackIsPath, last

-----------------------------------------------------------------------------
(* What the steps do to the nodes as far as types and parents go: they     *)
(* change neither an id nor a parent, and make no more than one node.      *)
NodesFollow ==
  /\ nextId' \in {nextId, nextId + 1} /\ nextId' <= MaxId + 1
  /\ \A i \in DOMAIN nodes' :
       /\ nodes'[i] \in Node
       /\ \/ i \in DOMAIN nodes /\ nodes'[i].parent = nodes[i].parent
          \/ i = nextId /\ nextId' = nextId + 1 /\ nodes'[i].parent < i

LEMMA TypesFollow ==
  ASSUME StackInv, NodesFollow
  PROVE  NodeTypes(nodes', nextId') /\ nextId' \in 1..(MaxId + 1)
<1>1. nextId \in Nat /\ nextId >= 1 /\ MaxId \in Nat
  BY IdBounds DEF StackInv
<1>2. ASSUME NEW i \in DOMAIN nodes'
      PROVE  nodes'[i] \in Node /\ nodes'[i].parent < i /\ i \in 1..(nextId' - 1)
  <2>1. CASE i \in DOMAIN nodes /\ nodes'[i].parent = nodes[i].parent
    BY <1>1, <2>1 DEF StackInv, NodesFollow, NodeTypes
  <2>2. CASE i = nextId /\ nextId' = nextId + 1 /\ nodes'[i].parent < i
    BY <1>1, <2>2 DEF NodesFollow
  <2>3. QED
    BY <2>1, <2>2 DEF NodesFollow
<1>3. QED
  BY <1>1, <1>2 DEF NodesFollow, NodeTypes

(* Ids are not used again, so a stack stays linked. *)
LEMMA LinkedStays ==
  ASSUME StackInv, NodesFollow, NEW s \in Seq(1..(nextId - 1)), Linked(s, nodes)
  PROVE  s \in Seq(1..(nextId' - 1)) /\ Linked(s, nodes')
<1>1. nextId \in Nat /\ nextId' \in Nat /\ nextId' >= nextId
  BY IdBounds DEF StackInv, NodesFollow
<1>2. 1..(nextId - 1) \subseteq 1..(nextId' - 1)
  <2>1. \A a, b \in Nat : b >= a => 1..(a - 1) \subseteq 1..(b - 1)
    OBVIOUS
  <2>2. QED
    BY <1>1, <2>1
<1>3. \A k \in DOMAIN s : s[k] \in 1..(nextId - 1)
  <2>1. s \in [1..Len(s) -> 1..(nextId - 1)] /\ DOMAIN s = 1..Len(s)
    BY LenProperties
  <2>2. QED
    BY <2>1
<1>4. ASSUME NEW k \in DOMAIN s, s[k] \in DOMAIN nodes'
      PROVE  IF k = 1 THEN nodes'[s[k]].parent \notin DOMAIN nodes'
                      ELSE nodes'[s[k]].parent = s[k - 1]
  <2>1. s[k] \in DOMAIN nodes /\ nodes'[s[k]].parent = nodes[s[k]].parent
    BY <1>1, <1>3, <1>4 DEF NodesFollow
  <2>2. CASE k = 1
    <3>1. nodes[s[k]].parent \notin DOMAIN nodes
      BY <2>1, <2>2 DEF Linked
    <3>2. nodes[s[k]].parent # nextId
      <4>1. nodes[s[k]].parent < s[k] /\ nodes[s[k]] \in Node
        BY <2>1 DEF StackInv, NodeTypes
      <4>2. nodes[s[k]].parent \in Nat /\ s[k] \in 1..(nextId - 1)
        BY <1>3, <4>1 DEF Node
      <4>3. QED
        BY <1>1, <4>1, <4>2
    <3>3. QED
      BY <2>1, <2>2, <3>1, <3>2 DEF NodesFollow
  <2>3. CASE k # 1
    BY <2>1, <2>3 DEF Linked
  <2>4. QED
    BY <2>2, <2>3
<1>5. s \in Seq(1..(nextId' - 1))
  BY <1>2, SeqMonotonic
<1>6. QED
  BY <1>4, <1>5 DEF Linked

LEMMA PrefixLinked ==
  ASSUME NEW S, NEW s \in Seq(S), NEW ns, Linked(s, ns), NEW n \in 0..Len(s)
  PROVE  SubSeq(s, 1, n) \in Seq(S) /\ Linked(SubSeq(s, 1, n), ns)
<1> DEFINE t == SubSeq(s, 1, n)
<1>1. /\ Len(s) \in Nat /\ DOMAIN s = 1..Len(s) /\ n \in Nat
      /\ t \in Seq(S) /\ DOMAIN t = 1..n /\ \A k \in 1..n : t[k] = s[k]
  OBVIOUS
<1> HIDE DEF t
<1>2. ASSUME NEW k \in 1..n, t[k] \in DOMAIN ns
      PROVE  IF k = 1 THEN ns[t[k]].parent \notin DOMAIN ns ELSE ns[t[k]].parent = t[k - 1]
  <2>1. k \in DOMAIN s /\ t[k] = s[k] /\ (k # 1 => t[k - 1] = s[k - 1])
    BY <1>1
  <2>2. QED
    BY <1>2, <2>1 DEF Linked
<1>3. QED
  BY <1>1, <1>2 DEF Linked, t

LEMMA FreshType ==
  ASSUME StackInv, NEW layer \in Layer, NEW ttl \in Nat
  PROVE  Fresh(layer, ttl) \in Node /\ Fresh(layer, ttl).parent = 0
<1>1. Focus \in Nat /\ turn \in Nat /\ None \in Nat
  BY FocusType, GraphAssumption DEF StackInv, None
<1>2. QED
  BY <1>1 DEF Fresh, Node, None

(* A graph of the same nodes, with the same parents. *)
SameParents(ns) ==
  /\ DOMAIN ns = DOMAIN nodes
  /\ \A i \in DOMAIN ns : ns[i] \in Node /\ ns[i].parent = nodes[i].parent

LEMMA AddFollows ==
  ASSUME GraphInv, StackInv, NEW ns, SameParents(ns), GraphShape(ns),
         NEW node \in Node, NodeShape(node, nextId), node.parent < nextId,
         nextId <= MaxId, nextId' = nextId + 1, NEW res \in Added(ns, nextId, node),
         DOMAIN nodes' = DOMAIN res,
         \A i \in DOMAIN res : nodes'[i] \in Node /\ nodes'[i].parent = res[i].parent
  PROVE  NodesFollow
<1>1. nextId \notin DOMAIN ns
  BY GraphIsFinite DEF SameParents
<1>2. /\ DOMAIN res \subseteq DOMAIN ns \cup {nextId}
      /\ \A i \in DOMAIN res : res[i] = IF i = nextId THEN node ELSE ns[i]
  BY <1>1, AddedKeeps
<1>3. nextId \in Nat
  BY DEF StackInv
<1>4. nextId' <= MaxId + 1
  BY <1>3, IdBounds
<1>5. QED
  BY <1>1, <1>2, <1>4 DEF NodesFollow, SameParents

LEMMA InsertFollows ==
  ASSUME GraphInv, StackInv, NEW ns, SameParents(ns), GraphShape(ns),
         NEW node \in Node, NodeShape(node, nextId), node.parent < nextId, Insert(ns, node)
  PROVE  NodesFollow
<1>1. nextId \notin DOMAIN ns
  BY GraphIsFinite DEF SameParents
<1>2. nodes' \in Added(ns, nextId, node) /\ nextId <= MaxId /\ nextId' = nextId + 1
  BY DEF Insert
<1>3. \A i \in DOMAIN nodes' : nodes'[i] = IF i = nextId THEN node ELSE ns[i]
  BY <1>1, <1>2, AddedKeeps
<1>4. \A i \in DOMAIN nodes' : nodes'[i] \in Node
  <2>1. \A i \in DOMAIN nodes' : i = nextId \/ i \in DOMAIN ns
    BY <1>1, <1>2, AddedKeeps
  <2>2. QED
    BY <1>3, <2>1 DEF SameParents
<1>5. QED
  BY <1>2, <1>4, AddFollows

LEMMA NodesAreSame ==
  ASSUME StackInv
  PROVE  SameParents(nodes)
  BY DEF StackInv, NodeTypes, SameParents

LEMMA FreshFollows ==
  ASSUME GraphInv, StackInv, NEW layer \in Layer \ {"mission"}, NEW ttl \in Nat,
         Insert(nodes, Fresh(layer, ttl))
  PROVE  NodesFollow
<1>1. GraphShape(nodes) /\ nextId \in Nat /\ nextId > 0
  BY DEF GraphInv
<1>2. NodeShape(Fresh(layer, ttl), nextId)
  BY FreshShape
<1>3. QED
  BY <1>1, <1>2, FreshType, NodesAreSame, InsertFollows

(* Steps that change no more of a node than how it competes. *)
LEMMA StateFollows ==
  ASSUME StackInv, UNCHANGED nextId, DOMAIN nodes' \subseteq DOMAIN nodes,
         \A i \in DOMAIN nodes' : nodes'[i] \in Node /\ nodes'[i].parent = nodes[i].parent
  PROVE  NodesFollow
<1>1. nextId <= MaxId + 1
  BY IdBounds DEF StackInv
<1>2. QED
  BY <1>1 DEF NodesFollow

(* Nodes whose state changes are those that were there. *)
LEMMA OneNodeFollows ==
  ASSUME GraphInv, StackInv, NEW i \in DOMAIN nodes,
         Retire(i) \/ Pin(i) \/ Unpin(i) \/ Expand(i) \/ Collapse(i) \/ Drop(i)
  PROVE  NodesFollow
<1>1. nodes[i] \in Node /\ UNCHANGED nextId /\ nodes = [j \in DOMAIN nodes |-> nodes[j]]
  BY DEF StackInv, NodeTypes, GraphInv, GraphShape, Retire, Pin, Unpin, Expand, Collapse, Drop
<1>2. PICK node : node \in Node /\ node.parent = nodes[i].parent /\ nodes' = [nodes EXCEPT ![i] = node]
  <2>1. CASE Retire(i) \/ Drop(i)
    <3> DEFINE node == [nodes[i] EXCEPT !.state = "dropped", !.pinned = FALSE]
    <3>1. node \in Node /\ node.parent = nodes[i].parent
      BY <1>1 DEF Node
    <3>2. nodes' = [nodes EXCEPT ![i] = node]
      BY <1>1, <2>1 DEF Retire, Drop
    <3> QED
      BY <3>1, <3>2
  <2>2. CASE Pin(i)
    <3> DEFINE node == [nodes[i] EXCEPT !.pinned = TRUE,
                                        !.state = IF @ = "dropped" THEN "active" ELSE @]
    <3>1. node \in Node /\ node.parent = nodes[i].parent
      BY <1>1 DEF Node
    <3>2. nodes' = [nodes EXCEPT ![i] = node]
      BY <1>1, <2>2 DEF Pin, Node
    <3> QED
      BY <3>1, <3>2
  <2>3. CASE Unpin(i)
    <3> DEFINE node == [nodes[i] EXCEPT !.pinned = FALSE]
    <3>1. node \in Node /\ node.parent = nodes[i].parent
      BY <1>1 DEF Node
    <3>2. nodes' = [nodes EXCEPT ![i] = node]
      BY <1>1, <2>3 DEF Unpin
    <3> QED
      BY <3>1, <3>2
  <2>4. CASE Expand(i) \/ Collapse(i)
    <3> DEFINE node(e, t) == [nodes[i] EXCEPT !.expanded = e, !.state = t]
    <3>1. \A e \in BOOLEAN : \A t \in {"active", "digested"} :
            node(e, t) \in Node /\ node(e, t).parent = nodes[i].parent
      BY <1>1 DEF Node
    <3>2. nodes' = [nodes EXCEPT ![i] = node(TRUE, "active")]
          \/ nodes' = [nodes EXCEPT ![i] = node(FALSE, "digested")]
      BY <1>1, <2>4 DEF Expand, Collapse
    <3> QED
      BY <3>1, <3>2
  <2> QED
    BY <2>1, <2>2, <2>3, <2>4
<1>3. DOMAIN nodes' = DOMAIN nodes /\ \A j \in DOMAIN nodes :
        nodes'[j] \in Node /\ nodes'[j].parent = nodes[j].parent
  BY <1>1, <1>2 DEF StackInv, NodeTypes
<1>4. QED
  BY <1>1, <1>3, StateFollows

LEMMA ValidateFollows ==
  ASSUME GraphInv, StackInv, Validate
  PROVE  NodesFollow
<1> DEFINE cleared == [i \in DOMAIN nodes |->
                         IF nodes[i].kind = "validation"
                           THEN [nodes[i] EXCEPT !.state = "dropped", !.pinned = FALSE]
                           ELSE nodes[i]]
           node == [Fresh("plan", 0) EXCEPT !.kind = "validation", !.pinned = TRUE]
<1>1. SameParents(cleared)
  BY DEF StackInv, NodeTypes, SameParents, Node
<1>2. GraphShape(cleared)
  BY DEF GraphInv, GraphShape, NodeShape, NodeField, Retained
<1>3. NodeShape(node, nextId)
  BY FreshShape DEF Layer, Retained
<1>4. node \in Node /\ node.parent < nextId
  <2>1. Fresh("plan", 0) \in Node /\ Fresh("plan", 0).parent = 0 /\ nextId > 0 /\ nextId \in Nat
    <3>1. nextId > 0 /\ nextId \in Nat
      BY DEF StackInv
    <3>2. "plan" \in Layer /\ 0 \in Nat
      BY DEF Layer
    <3>3. QED
      BY <3>1, <3>2, FreshType
  <2>2. QED
    BY <2>1 DEF Node
<1>5. Insert(cleared, node) \/ (nodes' = cleared /\ UNCHANGED nextId)
  BY DEF Validate
<1> HIDE DEF cleared, node
<1>6. CASE nodes' = cleared /\ UNCHANGED nextId
  BY <1>1, <1>6, StateFollows DEF SameParents
<1>7. QED
  BY <1>1, <1>2, <1>3, <1>4, <1>5, <1>6, InsertFollows

LEMMA ReformFollows ==
  ASSUME GraphInv, StackInv, NEW matched \in SUBSET DOMAIN nodes, Reform(matched)
  PROVE  NodesFollow
<1> DEFINE ns == [i \in DOMAIN nodes |->
                    IF i \in matched
                      THEN [nodes[i] EXCEPT !.expanded = TRUE, !.state = "active"]
                      ELSE nodes[i]]
           node == Fresh("contract", 1)
<1>1. SameParents(ns)
  <2>1. ASSUME NEW n \in Node
        PROVE  LET m == [n EXCEPT !.expanded = TRUE, !.state = "active"]
               IN m \in Node /\ m.parent = n.parent
    BY DEF Node
  <2>2. \A i \in DOMAIN nodes : nodes[i] \in Node
    BY DEF StackInv, NodeTypes
  <2>3. QED
    BY <2>1, <2>2 DEF SameParents
<1>2. GraphShape(ns)
  BY DEF GraphInv, GraphShape, NodeShape, NodeField
<1>3. NodeShape(node, nextId)
  BY FreshShape DEF Layer, Retained
<1>4. node \in Node /\ node.parent < nextId
  BY FreshType DEF Layer, Retained, StackInv
<1>5. Insert(ns, node)
  BY DEF Reform
<1> HIDE DEF ns, node
<1>6. QED
  BY <1>1, <1>2, <1>3, <1>4, <1>5, InsertFollows

LEMMA CloseFollows ==
  ASSUME GraphInv, StackInv, NEW i \in DOMAIN nodes, CloseSubtask(i)
  PROVE  NodesFollow
<1> DEFINE ns == [j \in DOMAIN nodes |->
                    IF \/ j = i
                       \/ /\ nodes[j].owner = i /\ nodes[j].state # "dropped"
                          /\ ~nodes[j].pinned
                      THEN [nodes[j] EXCEPT !.state = "digested"] ELSE nodes[j]]
           node == [Fresh("plan", 0) EXCEPT !.kind = "outcome", !.owner = nodes[i].parent,
                                            !.about = i]
<1>1. SameParents(ns)
  BY DEF StackInv, NodeTypes, SameParents, Node
<1>2. GraphShape(ns)
  BY DEF GraphInv, GraphShape, NodeShape, NodeField
<1>3. NodeShape(node, nextId)
  BY FreshShape DEF Layer, Retained
<1>4. node \in Node /\ node.parent < nextId
  <2>1. Fresh("plan", 0) \in Node /\ Fresh("plan", 0).parent = 0 /\ nextId > 0 /\ nextId \in Nat
    <3>1. nextId > 0 /\ nextId \in Nat
      BY DEF StackInv
    <3>2. "plan" \in Layer /\ 0 \in Nat
      BY DEF Layer
    <3>3. QED
      BY <3>1, <3>2, FreshType
  <2>2. nodes[i].parent \in Nat /\ i \in Nat
    <3>1. nodes[i] \in Node /\ i \in 1..(nextId - 1)
      BY DEF StackInv, NodeTypes
    <3>2. QED
      BY <3>1 DEF Node
  <2>3. QED
    BY <2>1, <2>2 DEF Node
<1>5. Insert(ns, node)
  BY DEF CloseSubtask
<1> HIDE DEF ns, node
<1>6. QED
  BY <1>1, <1>2, <1>3, <1>4, <1>5, InsertFollows

(* The new subtask has the focus for its parent. *)
LEMMA OpenFollows ==
  ASSUME GraphInv, StackInv, OpenSubtask
  PROVE  NodesFollow /\ (nextId \in DOMAIN nodes' => nodes'[nextId].parent = Focus)
<1> DEFINE node == [Fresh("subtask", 0) EXCEPT !.kind = "subtask", !.parent = Focus]
<1>1. PICK grown \in Added(nodes, nextId, node) :
        nodes' = [i \in DOMAIN grown |->
                    IF i = nextId THEN [grown[i] EXCEPT !.owner = nextId] ELSE grown[i]]
  BY DEF OpenSubtask, Opened
<1>2. NodeShape(node, nextId)
  BY FreshShape DEF Layer, Retained
<1>3. node \in Node /\ node.parent = Focus
  <2>1. Fresh("subtask", 0) \in Node
    BY FreshType DEF Layer
  <2>2. QED
    BY <2>1, FocusType DEF Node
<1>4. node.parent < nextId /\ nextId \in Nat
  BY <1>3, FocusType DEF StackInv
<1>5. GraphShape(nodes) /\ SameParents(nodes) /\ nextId \notin DOMAIN nodes
  BY GraphIsFinite, NodesAreSame DEF GraphInv
<1> HIDE DEF node
<1>6. /\ DOMAIN grown \subseteq DOMAIN nodes \cup {nextId}
      /\ \A i \in DOMAIN grown : grown[i] = IF i = nextId THEN node ELSE nodes[i]
  BY <1>2, <1>5, AddedKeeps
<1>7. \A i \in DOMAIN grown : grown[i] \in Node
  BY <1>3, <1>5, <1>6 DEF SameParents
<1>8. DOMAIN nodes' = DOMAIN grown
      /\ \A i \in DOMAIN grown : nodes'[i] \in Node /\ nodes'[i].parent = grown[i].parent
  <2>1. DOMAIN nodes' = DOMAIN grown
    BY <1>1
  <2>2. ASSUME NEW i \in DOMAIN grown
        PROVE  nodes'[i] \in Node /\ nodes'[i].parent = grown[i].parent
    <3>1. grown[i] \in Node
      BY <1>7
    <3>2. nodes'[i] = grown[i] \/ nodes'[i] = [grown[i] EXCEPT !.owner = nextId]
      BY <1>1
    <3>3. QED
      BY <1>4, <3>1, <3>2 DEF Node
  <2>3. QED
    BY <2>1, <2>2
<1>9. nextId <= MaxId /\ nextId' = nextId + 1
  BY DEF OpenSubtask
<1>10. NodesFollow
  BY <1>1, <1>2, <1>3, <1>4, <1>5, <1>8, <1>9, AddFollows
<1>11. QED
  BY <1>3, <1>6, <1>8, <1>10

-----------------------------------------------------------------------------
LEMMA StackInit == Init => StackInv
<1> SUFFICES ASSUME Init PROVE StackInv
  OBVIOUS
<1>1. MaxId \in Nat /\ MaxTurn \in Nat
  BY GraphAssumption
<1>2. NodeTypes(nodes, nextId)
  BY DEF Init, NodeTypes, Node, Layer, Retained, None
<1>3. stack \in Seq(1..(nextId - 1)) /\ Linked(stack, nodes)
  BY DEF Init, Linked
<1>4. nextId \in 1..(MaxId + 1) /\ pinHigh \in 0..MaxId
  BY IdBounds DEF Init
<1>5. QED
  BY <1>1, <1>2, <1>3, <1>4 DEF Init, StackInv

(* The stack, after any step. *)
LEMMA StackFollows ==
  ASSUME GraphInv, StackInv, [Next]_vars, NodesFollow
  PROVE  stack' \in Seq(1..(nextId' - 1)) /\ Linked(stack', nodes')
<1>0. stack \in Seq(1..(nextId - 1)) /\ Linked(stack, nodes)
  BY DEF StackInv
<1>1. CASE UNCHANGED stack
  BY <1>0, <1>1, LinkedStays
<1>2. ASSUME NEW i \in DOMAIN nodes, stack' = Popped(i)
      PROVE  stack' \in Seq(1..(nextId' - 1)) /\ Linked(stack', nodes')
  <2>1. CASE \E k \in DOMAIN stack : stack[k] = i
    <3> DEFINE k == CHOOSE k \in DOMAIN stack : stack[k] = i
    <3>1. k \in DOMAIN stack /\ stack' = SubSeq(stack, 1, k - 1)
      BY <1>2, <2>1 DEF Popped
    <3> HIDE DEF k
    <3>2. k - 1 \in 0..Len(stack)
      <4>1. DOMAIN stack = 1..Len(stack) /\ Len(stack) \in Nat
        BY <1>0, LenProperties
      <4>2. QED
        BY <3>1, <4>1
    <3>3. stack' \in Seq(1..(nextId - 1)) /\ Linked(stack', nodes)
      BY <1>0, <3>1, <3>2, PrefixLinked
    <3>4. QED
      BY <3>3, LinkedStays
  <2>2. CASE ~ \E k \in DOMAIN stack : stack[k] = i
    BY <1>1, <1>2, <2>2 DEF Popped
  <2>3. QED
    BY <2>1, <2>2
<1>3. CASE OpenSubtask
  <2> DEFINE n == Len(stack)
  <2>1. /\ nextId \in Nat /\ nextId' = nextId + 1 /\ stack' = Append(stack, nextId)
        /\ nextId \in DOMAIN nodes' => nodes'[nextId].parent = Focus
    BY <1>3, OpenFollows DEF OpenSubtask, StackInv
  <2>2. stack \in Seq(1..(nextId' - 1)) /\ Linked(stack, nodes')
    BY <1>0, LinkedStays
  <2>3. nextId \in 1..(nextId' - 1)
    BY <2>1, IdBounds DEF StackInv
  <2>4. /\ stack' \in Seq(1..(nextId' - 1)) /\ n \in Nat /\ Len(stack') = n + 1
        /\ \A k \in 1..n : stack'[k] = stack[k]
        /\ stack'[n + 1] = nextId
        /\ DOMAIN stack' = 1..(n + 1) /\ DOMAIN stack = 1..n
    <3>1. stack' \in Seq(1..(nextId' - 1)) /\ Len(stack') = n + 1
          /\ stack'[n + 1] = nextId /\ \A k \in 1..n : stack'[k] = stack[k]
      BY <2>1, <2>2, <2>3, AppendProperties
    <3>2. QED
      BY <2>2, <3>1, LenProperties
  <2>5. n = 0 => Focus = 0
    BY <1>0, EmptySeq DEF Focus, None
  <2>6. n # 0 => Focus = stack[n]
    BY EmptySeq DEF Focus
  <2>7. 0 \notin DOMAIN nodes'
    BY TypesFollow DEF NodeTypes
  <2> HIDE DEF n
  <2>8. ASSUME NEW k \in DOMAIN stack', stack'[k] \in DOMAIN nodes'
        PROVE  IF k = 1 THEN nodes'[stack'[k]].parent \notin DOMAIN nodes'
                        ELSE nodes'[stack'[k]].parent = stack'[k - 1]
    <3>1. CASE k = n + 1
      <4>1. nodes'[stack'[k]].parent = Focus
        BY <2>1, <2>4, <2>8, <3>1
      <4>2. CASE k = 1
        BY <2>4, <2>5, <2>7, <3>1, <4>1, <4>2
      <4>3. CASE k # 1
        <5>1. n \in 1..n /\ k - 1 = n /\ n # 0
          BY <2>4, <3>1, <4>3
        <5>2. stack'[k - 1] = stack[n]
          BY <2>4, <5>1
        <5>3. QED
          BY <2>6, <4>1, <4>3, <5>1, <5>2
      <4>4. QED
        BY <4>2, <4>3
    <3>2. CASE k \in 1..n
      <4>1. k \in DOMAIN stack /\ stack'[k] = stack[k] /\ (k # 1 => stack'[k - 1] = stack[k - 1])
        BY <2>4, <3>2
      <4>2. QED
        BY <2>2, <2>8, <4>1 DEF Linked
    <3>3. QED
      BY <2>4, <3>1, <3>2
  <2>9. QED
    BY <2>4, <2>8 DEF Linked
<1>4. ASSUME NEW i \in DOMAIN nodes, FocusOn(i)
      PROVE  stack' \in Seq(1..(nextId' - 1)) /\ Linked(stack', nodes')
  <2>1. Rooted(nodes)
    BY TypesAreRooted DEF StackInv
  <2>2. stack' = FocusPath(nodes, i) /\ UNCHANGED <<nodes, nextId>>
    BY <1>4 DEF FocusOn
  <2>3. stack' \in Seq(DOMAIN nodes) /\ Linked(stack', nodes)
    BY <2>1, <2>2, FocusPathLinked
  <2>4. DOMAIN nodes \subseteq 1..(nextId - 1)
    BY DEF GraphInv
  <2>5. QED
    BY <2>2, <2>3, <2>4, SeqMonotonic
<1>5. \/ UNCHANGED stack \/ OpenSubtask
      \/ \E i \in DOMAIN nodes : FocusOn(i) \/ stack' = Popped(i)
  BY DEF Next, vars, Session, ApplyOp, Remember, Validate, Decay, Retire, Reform, Pin, Unpin,
         Expand, Collapse, Drop, Note, Link, CloseSubtask
<1>6. QED
  BY <1>1, <1>2, <1>3, <1>4, <1>5

LEMMA NodesFollowNext ==
  ASSUME GraphInv, StackInv, [Next]_vars
  PROVE  NodesFollow
<1>1. ASSUME UNCHANGED <<nodes, nextId>>
      PROVE  NodesFollow
  BY <1>1, StateFollows DEF StackInv, NodeTypes
<1>2. CASE Remember
  <2>1. PICK layer \in {"evidence", "contract"} : \E ttl \in Ttl \cup {0} :
          Insert(nodes, Fresh(layer, ttl))
    BY <1>2 DEF Remember
  <2>2. layer \in Layer \ {"mission"} /\ Ttl \cup {0} \subseteq Nat
    BY GraphAssumption DEF Layer, Retained
  <2>3. QED
    BY <2>1, <2>2, FreshFollows
<1>3. CASE Decay
  <2>1. PICK gone : nodes' = Without(nodes, gone)
    BY <1>3 DEF Decay
  <2>2. DOMAIN nodes' \subseteq DOMAIN nodes /\ \A i \in DOMAIN nodes' : nodes'[i] = nodes[i]
    BY <2>1 DEF Without
  <2>3. QED
    BY <1>3, <2>2, StateFollows DEF Decay, StackInv, NodeTypes
<1>4. ASSUME NEW layer \in NoteLayer, Note(layer)
      PROVE  NodesFollow
  <2>1. layer \in Layer \ {"mission"} /\ 0 \in Nat
    BY GraphAssumption DEF Retained
  <2>2. QED
    BY <1>4, <2>1, FreshFollows DEF Note
<1>5. ASSUME NEW i \in DOMAIN nodes, FocusOn(i) \/ \E j \in DOMAIN nodes : Link(i, j)
      PROVE  UNCHANGED <<nodes, nextId>>
  BY <1>5 DEF FocusOn, Link
<1>6. UNCHANGED vars => UNCHANGED <<nodes, nextId>>
  BY DEF vars
<1> HIDE DEF NodesFollow
<1>7. QED
  BY <1>1, <1>2, <1>3, <1>4, <1>5, <1>6, ValidateFollows, ReformFollows, CloseFollows,
     OpenFollows, OneNodeFollows
  DEF Next, Session, ApplyOp

(* Edges are drawn between ids that are in use. *)
LEMMA EdgesFollow ==
  ASSUME GraphInv, StackInv, [Next]_vars
  PROVE  edges' \subseteq (1..MaxId) \X (1..MaxId)
<1>0. edges \subseteq (1..MaxId) \X (1..MaxId) /\ DOMAIN nodes \subseteq 1..MaxId
  <2>1. nextId - 1 <= MaxId /\ nextId \in Nat
    BY IdBounds DEF StackInv
  <2>2. 1..(nextId - 1) \subseteq 1..MaxId
    BY <2>1, IdBounds
  <2>3. QED
    BY <2>2 DEF GraphInv, StackInv
<1>1. ASSUME NEW es, es \subseteq (1..MaxId) \X (1..MaxId), Settle(es)
      PROVE  edges' \subseteq (1..MaxId) \X (1..MaxId)
  BY <1>1 DEF Settle, Attached
<1>2. ASSUME NEW i \in DOMAIN nodes, CloseSubtask(i)
      PROVE  edges' \subseteq (1..MaxId) \X (1..MaxId)
  <2>1. nextId \in 1..MaxId /\ Settle(edges \cup {<<nextId, i>>})
    BY <1>2, IdBounds DEF CloseSubtask, Insert, StackInv
  <2>2. QED
    BY <1>0, <1>1, <2>1
<1>3. ASSUME NEW i \in DOMAIN nodes, NEW j \in DOMAIN nodes, Link(i, j)
      PROVE  edges' \subseteq (1..MaxId) \X (1..MaxId)
  BY <1>0, <1>3 DEF Link
<1>4. \/ UNCHANGED edges \/ Settle(edges)
      \/ \E i \in DOMAIN nodes : CloseSubtask(i) \/ \E j \in DOMAIN nodes : Link(i, j)
  BY DEF Next, vars, Session, ApplyOp, Remember, Validate, Decay, Retire, Reform, Pin, Unpin,
         Expand, Collapse, Drop, Note, FocusOn, OpenSubtask
<1>5. QED
  BY <1>0, <1>1, <1>2, <1>3, <1>4

(* No more can be pinned than there are ids. *)
LEMMA PinsFollow ==
  ASSUME GraphInv, StackInv, [Next]_vars, NodesFollow
  PROVE  pinHigh' \in 0..MaxId
<1>1. CASE UNCHANGED pinHigh
  BY <1>1 DEF StackInv
<1>2. ASSUME NEW es, Settle(es)
      PROVE  pinHigh' \in 0..MaxId
  <2>1. Pinned(nodes') \subseteq 1..MaxId
    <3>1. NodeTypes(nodes', nextId') /\ nextId' \in 1..(MaxId + 1)
      BY TypesFollow
    <3>2. Rooted(nodes')
      BY <3>1, TypesAreRooted
    <3>3. QED
      BY <3>2 DEF Rooted, Pinned
  <2>2. IsFiniteSet(1..MaxId) /\ Cardinality(1..MaxId) = MaxId
    BY IdBounds, FS_Interval
  <2>3. Cardinality(Pinned(nodes')) \in Nat /\ Cardinality(Pinned(nodes')) <= MaxId
    BY <2>1, <2>2, FS_Subset, FS_CardinalityType
  <2>4. QED
    BY <1>2, <2>3, IdBounds DEF Settle, StackInv
<1>3. UNCHANGED pinHigh \/ \E es : Settle(es)
  BY DEF Next, vars, Session, ApplyOp, Remember, Validate, Decay, Retire, Reform, Pin, Unpin,
         Expand, Collapse, Drop, Note, Link, FocusOn, OpenSubtask, CloseSubtask
<1>4. QED
  BY <1>1, <1>2, <1>3

LEMMA StackNext ==
  ASSUME GraphInv, StackInv, [Next]_vars
  PROVE  StackInv'
<1>1. NodesFollow
  BY NodesFollowNext
<1>2. NodeTypes(nodes', nextId') /\ nextId' \in 1..(MaxId + 1)
  BY <1>1, TypesFollow
<1>3. stack' \in Seq(1..(nextId' - 1)) /\ Linked(stack', nodes')
  BY <1>1, StackFollows
<1>4. turn' \in 0..MaxTurn
  <2>1. turn \in 0..MaxTurn /\ MaxTurn \in Nat
    BY GraphAssumption DEF StackInv
  <2>2. UNCHANGED turn \/ (turn < MaxTurn /\ turn' = turn + 1)
    BY DEF Next, vars, Session, ApplyOp, Remember, Validate, Decay, Retire, Reform, Pin, Unpin,
           Expand, Collapse, Drop, Note, Link, FocusOn, OpenSubtask, CloseSubtask
  <2>3. QED
    BY <2>1, <2>2
<1>5. UNCHANGED uses
  BY DEF Next, vars, Session, ApplyOp, Remember, Validate, Decay, Retire, Reform, Pin, Unpin,
         Expand, Collapse, Drop, Note, Link, FocusOn, OpenSubtask, CloseSubtask, Settle
<1>6. edges' \subseteq (1..MaxId) \X (1..MaxId) /\ pinHigh' \in 0..MaxId
  BY <1>1, EdgesFollow, PinsFollow
<1>7. uses \in Profiles
  BY DEF StackInv
<1>8. QED
  BY <1>2, <1>3, <1>4, <1>5, <1>6, <1>7 DEF StackInv

(* The graph, its types and the stack: what every state is like. *)
THEOREM GraphStack == Spec => [](GraphInv /\ StackInv)
<1>1. GraphInv /\ StackInv /\ [Next]_vars => StackInv'
  BY StackNext
<1>2. QED
  BY <1>1, StackInit, GraphInit, GraphNext, PTL DEF Spec

(* Every variable has its type; what is dropped is neither pinned nor of a *)
(* retained layer; parents were opened before their children.              *)
THEOREM GraphTypeCorrect == Spec => []TypeOK
<1>1. GraphInv /\ StackInv => TypeOK
  <2> SUFFICES ASSUME GraphInv, StackInv
               PROVE  TypeOK
    OBVIOUS
  <2>1. ASSUME NEW i \in DOMAIN nodes
        PROVE  /\ nodes[i] \in Node
               /\ nodes[i].state = "dropped" => ~nodes[i].pinned /\ nodes[i].layer \notin Retained
               /\ nodes[i].parent < i
    BY DEF GraphInv, GraphShape, NodeShape, StackInv, NodeTypes
  <2>2. DOMAIN nodes \subseteq 1..(nextId - 1)
    BY DEF GraphInv
  <2>3. QED
    BY <2>1, <2>2 DEF StackInv, TypeOK
<1>2. QED
  BY <1>1, GraphStack, PTL

(* However subtasks are opened, closed, evicted and returned to, the stack *)
(* above the last that is gone is the path of the focus.                   *)
THEOREM GraphStackIsPath == Spec => []StackIsPath
<1>1. QED
  BY GraphStack, StackInvIsPath, PTL

=============================================================================
