----------------------------- MODULE ECSProofs -----------------------------
(***************************************************************************)
(* What the ECS guarantees on every heap, whatever the number of nodes,    *)
(* pools, labels and pins: the counts and the free list; then the graph as *)
(* a whole; then that the ECS implements OutputSets.                       *)
(*                                                                         *)
(* The counts alone are not inductive: recycling a node drops references,  *)
(* and needs to know that the node really held them, that the ones dropped *)
(* are not the client's, and that the free list has no duplicates. IInv    *)
(* puts together the counts, the free list, the node just returned and the *)
(* call in progress.                                                       *)
(***************************************************************************)
EXTENDS ECSRefinement, NodeManagerProofs

HeldOK ==
  held # Null => held \in Addresses(heap) \ Free(heap) /\ heap.ref[held] = 0

CallOK ==
  /\ call \in Calls
  /\ call.stage = "idle" => call = Idle
  /\ call.stage # "idle" =>
       /\ held = Null
       /\ call.n1 \in Pinned /\ ~IsOutput(heap, call.n1)
       /\ call.n2 \in Pinned /\ ~IsOutput(heap, call.n2)
       /\ call.u \in Addresses(heap) \ Free(heap) /\ heap.ref[call.u] = 0

IInv ==
  /\ Accounted(heap, Addresses(heap), Addresses(heap), pins)
  /\ pins \in [Addresses(heap) -> 0..MaxPins]
  /\ HeldOK
  /\ CallOK

\* What a step may do to the nodes that are not free: nothing.
Frozen == \A n \in Addresses(heap) \ Free(heap) : heap'.node[n] = heap.node[n]

----------------------------------------------------------------------------
(***************************************************************************)
(* What the client may pass is protected from recycling.                   *)
(***************************************************************************)
LEMMA NullIsNoNode ==
  ASSUME IInv
  PROVE  Null \notin Addresses(heap) /\ Addresses(heap) \subseteq Nat
BY AddressesAreNat DEF IInv, Accounted, WellFormed, Null

LEMMA PinnedIsProtected ==
  ASSUME IInv, NEW n \in Pinned
  PROVE  Protected(heap, pins, n) /\ heap.ref[n] >= 1
<1>1. n \in Addresses(heap) /\ pins[n] \in 0..MaxPins /\ pins[n] > 0
  BY DEF IInv, Pinned
<1>2. pins[n] \in Nat /\ pins[n] >= 1
  BY <1>1
<1>3. heap.ref[n] \in Nat /\ heap.ref[n] >= pins[n]
  BY <1>1, ParentsCount DEF IInv
<1>4. heap.ref[n] >= 1
  BY <1>2, <1>3
<1>5. n \notin Free(heap)
  BY <1>4 DEF IInv, Accounted, FreeOK
<1> QED
  BY <1>1, <1>2, <1>4, <1>5 DEF Protected

LEMMA UsableIsProtected ==
  ASSUME IInv, NEW n \in Usable
  PROVE  Protected(heap, pins, n)
BY PinnedIsProtected DEF Usable, IInv, HeldOK, Protected

LEMMA ChildIsProtected ==
  ASSUME IInv, NEW p \in Addresses(heap) \ Free(heap)
  PROVE  /\ heap.node[p].left = Null \/ Protected(heap, pins, heap.node[p].left)
         /\ heap.node[p].right = Null \/ Protected(heap, pins, heap.node[p].right)
<1>1. /\ heap.node[p].left \in Addresses(heap) \cup {Null}
      /\ heap.node[p].right \in Addresses(heap) \cup {Null}
      /\ FreeOK(heap)
  BY DEF IInv, Accounted, WellFormed
<1>2. ASSUME NEW c \in Addresses(heap), heap.node[p].left = c \/ heap.node[p].right = c
      PROVE  Protected(heap, pins, c)
  <2>1. heap.ref[c] \in Nat /\ heap.ref[c] >= 1
    BY <1>2, ParentsCount DEF IInv
  <2>2. c \notin Free(heap)
    BY <1>1, <2>1 DEF FreeOK
  <2> QED
    BY <1>2, <2>2 DEF Protected
<1> QED
  BY <1>1, <1>2

LEMMA AllocatesFacts ==
  ASSUME IInv, NEW nd, Buildable(heap, nd),
         nd.left = Null \/ Protected(heap, pins, nd.left),
         nd.right = Null \/ Protected(heap, pins, nd.right),
         Allocates(nd),
         NEW m, m = AllocAddress(heap)
  PROVE  /\ Accounted(heap', Addresses(heap'), Addresses(heap'), pins')
         /\ pins' \in [Addresses(heap') -> 0..MaxPins]
         /\ \A n \in Addresses(heap) : pins'[n] = pins[n]
         /\ Places(heap, heap', m, nd)
         /\ \A x : Protected(heap, pins, x) => x \notin Free(heap')
<1>1. /\ heap' = Alloc(heap, nd)
      /\ pins' = Padded(pins, Addresses(heap'))
  BY DEF Allocates, PinsFor, Padded
<1>2. /\ Accounted(heap', Addresses(heap'), Addresses(heap'), pins')
      /\ Places(heap, heap', m, nd)
      /\ \A x : Protected(heap, pins, x) => x \notin Free(heap')
  BY <1>1, AllocFacts DEF IInv
<1>3. /\ pins \in [Addresses(heap) -> 0..MaxPins] /\ 0 \in 0..MaxPins
      /\ Addresses(heap) \subseteq Addresses(heap')
  BY <1>2, MaxPinsAssumption DEF IInv, Places
<1> QED
  BY <1>1, <1>2, <1>3 DEF Padded

\* An allocation that returns to the client preserves the invariant.
LEMMA ReturnsFacts ==
  ASSUME IInv, NEW nd, Buildable(heap, nd),
         nd.left = Null \/ Protected(heap, pins, nd.left),
         nd.right = Null \/ Protected(heap, pins, nd.right),
         Returns(nd)
  PROVE  IInv' /\ Frozen
<1> DEFINE m == AllocAddress(heap)
<1>1. Allocates(nd) /\ held' = m /\ call' = Idle
  BY DEF Returns
<1> HIDE DEF m
<1>2. /\ Accounted(heap', Addresses(heap'), Addresses(heap'), pins')
      /\ pins' \in [Addresses(heap') -> 0..MaxPins]
      /\ Places(heap, heap', m, nd)
  BY <1>1, AllocatesFacts DEF m
<1>3. HeldOK'
  BY <1>1, <1>2 DEF HeldOK, Places
<1>4. CallOK'
  BY <1>1 DEF CallOK, Calls, Idle, Null
<1>5. Frozen
  BY <1>2 DEF Places, Frozen
<1> QED
  BY <1>2, <1>3, <1>4, <1>5 DEF IInv

\* So does one that leaves a union of two non-output nodes in progress.
LEMMA IntermediateFacts ==
  ASSUME IInv, held = Null, NEW nd, Buildable(heap, nd),
         nd.left = Null \/ Protected(heap, pins, nd.left),
         nd.right = Null \/ Protected(heap, pins, nd.right),
         Allocates(nd), UNCHANGED held,
         call'.u = AllocAddress(heap), call' \in Calls, call'.stage # "idle",
         NEW n1 \in Pinned, call'.n1 = n1, ~IsOutput(heap, n1),
         NEW n2 \in Pinned, call'.n2 = n2, ~IsOutput(heap, n2)
  PROVE  IInv' /\ Frozen
<1> DEFINE m == AllocAddress(heap)
<1>1. call'.u = m
  OBVIOUS
<1> HIDE DEF m
<1>2. /\ Accounted(heap', Addresses(heap'), Addresses(heap'), pins')
      /\ pins' \in [Addresses(heap') -> 0..MaxPins]
      /\ \A n \in Addresses(heap) : pins'[n] = pins[n]
      /\ Places(heap, heap', m, nd)
  BY AllocatesFacts DEF m
<1>3. ASSUME NEW n \in Pinned, ~IsOutput(heap, n)
      PROVE  n \in Pinned' /\ ~IsOutput(heap', n)
  <2>1. n \in Addresses(heap) \ Free(heap) /\ pins[n] > 0
    BY PinnedIsProtected DEF Protected, Pinned
  <2>2. n \in Addresses(heap') /\ heap'.node[n] = heap.node[n] /\ pins'[n] = pins[n]
    BY <1>2, <2>1 DEF Places
  <2> QED
    BY <1>3, <2>1, <2>2 DEF Pinned, IsOutput
<1>4. HeldOK'
  BY DEF HeldOK
<1>5. m \in Addresses(heap') \ Free(heap') /\ heap'.ref[m] = 0
  BY <1>2 DEF Places
<1>6. CallOK'
  BY <1>1, <1>3, <1>5 DEF CallOK
<1>7. Frozen
  BY <1>2 DEF Places, Frozen
<1> QED
  BY <1>2, <1>4, <1>6, <1>7 DEF IInv

----------------------------------------------------------------------------
(***************************************************************************)
(* Each action preserves the invariant.                                    *)
(***************************************************************************)
LEMMA BottomStep ==
  ASSUME IInv, CreateBottomNode
  PROVE  IInv' /\ Frozen
<1>1. Buildable(heap, BottomNode)
  BY DEF Buildable, BottomNode, Node, Kinds, Null
<1> QED
  BY <1>1, ReturnsFacts DEF CreateBottomNode, BottomNode

LEMMA ExtendStep ==
  ASSUME IInv, NEW n \in Addresses(heap), NEW l \in Labels, CreateExtendNode(n, l)
  PROVE  IInv' /\ Frozen
<1>1. Buildable(heap, LabelNode(n, l))
  BY NullIsNoNode DEF Buildable, LabelNode, Node, Kinds, Null
<1>2. Protected(heap, pins, n)
  BY UsableIsProtected DEF CreateExtendNode
<1> QED
  BY <1>1, <1>2, ReturnsFacts DEF CreateExtendNode, LabelNode

LEMMA UnionIsBuildable ==
  ASSUME IInv, NEW a \in Addresses(heap), NEW b \in Addresses(heap)
  PROVE  Buildable(heap, UnionNode(a, b))
BY NullIsNoNode DEF Buildable, UnionNode, Node, Kinds

LEMMA UnionStep ==
  ASSUME IInv, NEW n1 \in Addresses(heap), NEW n2 \in Addresses(heap),
         CreateUnionNode(n1, n2)
  PROVE  IInv' /\ Frozen
<1>1. Protected(heap, pins, n1) /\ Protected(heap, pins, n2)
  BY UsableIsProtected DEF CreateUnionNode
<1>2. ASSUME NEW a \in {n1, n2}, NEW b \in {n1, n2}, Returns(UnionNode(a, b))
      PROVE  IInv' /\ Frozen
  <2>1. Buildable(heap, UnionNode(a, b))
    BY UnionIsBuildable
  <2>2. UnionNode(a, b).left = a /\ UnionNode(a, b).right = b
    BY DEF UnionNode
  <2> QED
    BY <1>1, <1>2, <2>1, <2>2, ReturnsFacts
<1> QED
  BY <1>2 DEF CreateUnionNode, UnionOfOutput

\* A non-output node a call works on has two children, protected both.
LEMMA ChildrenOfOperand ==
  ASSUME IInv, NEW n \in Pinned, ~IsOutput(heap, n)
  PROVE  /\ heap.node[n].left \in Addresses(heap)
         /\ heap.node[n].right \in Addresses(heap)
         /\ Protected(heap, pins, heap.node[n].left)
         /\ Protected(heap, pins, heap.node[n].right)
<1>1. n \in Addresses(heap) \ Free(heap)
  BY PinnedIsProtected DEF Protected
<1>2. heap.node[n].kind = "union"
  <2>1. heap.node \in Seq(Node)
    BY DEF IInv, Accounted, WellFormed, Heap
  <2>2. heap.node[n] \in Node
    BY <1>1, <2>1 DEF Addresses
  <2> QED
    BY <2>2 DEF Node, Kinds, IsOutput
<1>3. heap.node[n].left # Null /\ heap.node[n].right # Null
  BY <1>1, <1>2 DEF IInv, Accounted, WellFormed
<1> QED
  BY <1>1, <1>3, ChildIsProtected DEF Protected

LEMMA AllocAddressIsNat ==
  ASSUME IInv
  PROVE  AllocAddress(heap) \in Nat
<1>1. heap \in Heap
  BY DEF IInv, Accounted, WellFormed
<1>2. heap.free \in Seq(Nat) /\ heap.node \in Seq(Node)
  BY <1>1 DEF Heap
<1>3. heap.free # << >> => Head(heap.free) \in Nat
  BY <1>2
<1>4. Len(heap.node) + 1 \in Nat
  BY <1>2
<1> QED
  BY <1>3, <1>4 DEF AllocAddress, Recycles

LEMMA FirstStep ==
  ASSUME IInv, NEW n1 \in Addresses(heap), NEW n2 \in Addresses(heap),
         FirstIntermediateUnion(n1, n2)
  PROVE  IInv' /\ Frozen
<1> DEFINE a == heap.node[n1].right
           b == heap.node[n2].right
<1>1. /\ n1 \in Pinned /\ n2 \in Pinned
      /\ held = Null
      /\ ~IsOutput(heap, n1) /\ ~IsOutput(heap, n2)
      /\ Allocates(UnionNode(a, b))
      /\ call' = [stage |-> "second", n1 |-> n1, n2 |-> n2, u |-> AllocAddress(heap)]
      /\ UNCHANGED held
  BY DEF FirstIntermediateUnion, Consumes
<1>2. /\ a \in Addresses(heap) /\ Protected(heap, pins, a)
      /\ b \in Addresses(heap) /\ Protected(heap, pins, b)
  BY <1>1, ChildrenOfOperand
<1>3. Buildable(heap, UnionNode(a, b))
  BY <1>2, UnionIsBuildable
<1>4. AllocAddress(heap) \in Nat
  BY AllocAddressIsNat
<1>5. /\ call' \in Calls
      /\ call'.stage # "idle" /\ call'.n1 = n1 /\ call'.n2 = n2
      /\ call'.u = AllocAddress(heap)
  BY <1>1, <1>4, NullIsNoNode DEF Calls
<1>6. UnionNode(a, b).left = a /\ UnionNode(a, b).right = b
  BY DEF UnionNode
<1> HIDE DEF a, b
<1> QED
  BY <1>1, <1>2, <1>3, <1>5, <1>6, IntermediateFacts

\* The intermediate union of a call in progress is protected too.
LEMMA InProgress ==
  ASSUME IInv, call.stage # "idle"
  PROVE  /\ held = Null
         /\ call.n1 \in Pinned /\ ~IsOutput(heap, call.n1)
         /\ call.n2 \in Pinned /\ ~IsOutput(heap, call.n2)
         /\ call.u \in Addresses(heap) /\ Protected(heap, pins, call.u)
BY DEF IInv, CallOK, Protected

LEMMA SecondStep ==
  ASSUME IInv, SecondIntermediateUnion
  PROVE  IInv' /\ Frozen
<1> DEFINE a == heap.node[call.n2].left
           u == call.u
<1>1. /\ Allocates(UnionNode(a, u))
      /\ call.stage # "idle" /\ call \in Calls
      /\ call' = [call EXCEPT !.stage = "third", !.u = AllocAddress(heap)]
      /\ UNCHANGED held
  BY DEF SecondIntermediateUnion, IInv, CallOK
<1>2. /\ held = Null
      /\ call.n1 \in Pinned /\ ~IsOutput(heap, call.n1)
      /\ call.n2 \in Pinned /\ ~IsOutput(heap, call.n2)
      /\ u \in Addresses(heap) /\ Protected(heap, pins, u)
  BY <1>1, InProgress
<1>3. a \in Addresses(heap) /\ Protected(heap, pins, a)
  BY <1>2, ChildrenOfOperand
<1>4. Buildable(heap, UnionNode(a, u))
  BY <1>2, <1>3, UnionIsBuildable
<1>5. AllocAddress(heap) \in Nat
  BY AllocAddressIsNat
<1>6. /\ call' \in Calls
      /\ call'.stage # "idle" /\ call'.n1 = call.n1 /\ call'.n2 = call.n2
      /\ call'.u = AllocAddress(heap)
  BY <1>1, <1>5 DEF Calls
<1>7. UnionNode(a, u).left = a /\ UnionNode(a, u).right = u
  BY DEF UnionNode
<1> HIDE DEF a, u
<1> QED
  BY <1>1, <1>2, <1>3, <1>4, <1>6, <1>7, IntermediateFacts

LEMMA ThirdStep ==
  ASSUME IInv, UnionOfOutputAndIntermediate
  PROVE  IInv' /\ Frozen
<1> DEFINE a == heap.node[call.n1].left
           u == call.u
<1>1. Returns(UnionNode(a, u)) /\ call.stage # "idle"
  BY DEF UnionOfOutputAndIntermediate
<1>2. /\ call.n1 \in Pinned /\ ~IsOutput(heap, call.n1)
      /\ u \in Addresses(heap) /\ Protected(heap, pins, u)
  BY <1>1, InProgress
<1>3. a \in Addresses(heap) /\ Protected(heap, pins, a)
  BY <1>2, ChildrenOfOperand
<1>4. Buildable(heap, UnionNode(a, u))
  BY <1>2, <1>3, UnionIsBuildable
<1>5. UnionNode(a, u).left = a /\ UnionNode(a, u).right = u
  BY DEF UnionNode
<1> HIDE DEF a, u
<1> QED
  BY <1>1, <1>2, <1>3, <1>4, <1>5, ReturnsFacts

LEMMA ThrowStep ==
  ASSUME IInv, ThrowMemoryLimit
  PROVE  IInv' /\ Frozen
<1>1. /\ heap' = LimitExceeded(heap) /\ pins' = pins
      /\ held' = Null /\ call' = Idle
      /\ heap \in Heap
  BY DEF ThrowMemoryLimit, IInv, Accounted, WellFormed
<1>2. /\ heap' \in Heap
      /\ heap'.node = heap.node /\ heap'.ref = heap.ref /\ heap'.free = heap.free
  <2> DEFINE d == MaxDuplications + 1
  <2>1. d \in Nat
    BY MaxDuplicationsAssumption
  <2>2. heap' = [heap EXCEPT !.dups = d]
    BY <1>1 DEF LimitExceeded
  <2> HIDE DEF d
  <2> QED
    BY <1>1, <2>1, <2>2 DEF Heap
<1>3. Addresses(heap') = Addresses(heap) /\ Free(heap') = Free(heap)
  BY <1>2 DEF Addresses, Free
<1>4. WellFormed(heap') /\ FreeOK(heap')
  BY <1>2, <1>3 DEF IInv, Accounted, WellFormed, FreeOK
<1>5. Accounted(heap', Addresses(heap'), Addresses(heap'), pins')
  BY <1>1, <1>2, <1>3, <1>4 DEF IInv, Accounted, Counted, Lefts, Rights
<1>6. HeldOK' /\ CallOK'
  BY <1>1 DEF HeldOK, CallOK, Calls, Idle, Null
<1> QED
  BY <1>1, <1>2, <1>3, <1>5, <1>6 DEF IInv, Frozen

LEMMA PinStep ==
  ASSUME IInv, NEW n \in Addresses(heap), PinNode(n)
  PROVE  IInv' /\ Frozen
<1> DEFINE A == Addresses(heap)
<1>1. /\ call = Idle /\ call' = call /\ n \in Usable /\ pins[n] < MaxPins
      /\ heap' = Acquire(heap, n)
      /\ pins' = [pins EXCEPT ![n] = @ + 1]
      /\ held' = IF n = held THEN Null ELSE held
  BY DEF PinNode
<1>2. /\ pins \in [A -> 0..MaxPins] /\ MaxPins \in Nat
      /\ \A x \in A : pins[x] \in Nat
  <2>1. pins \in [A -> 0..MaxPins] /\ MaxPins \in Nat
    BY MaxPinsAssumption DEF IInv
  <2> QED
    BY <2>1
<1>3. /\ WellFormed(heap) /\ FreeOK(heap) /\ Counted(heap, A, A, pins)
      /\ n \notin Free(heap)
  BY <1>1, UsableIsProtected DEF IInv, Accounted, Protected
<1>4. WellFormed(heap') /\ FreeOK(heap') /\ OnlyTakes(heap, heap', n)
  BY <1>1, <1>3, TakeFacts
<1>5. /\ Addresses(heap') = A /\ Free(heap') = Free(heap)
      /\ heap'.node = heap.node
      /\ \A x \in A : heap'.ref[x] = IF x = n THEN heap.ref[x] + 1 ELSE heap.ref[x]
  BY <1>4 DEF OnlyTakes, Addresses, Free
<1>6. /\ \A x \in A : pins'[x] = IF x = n THEN pins[x] + 1 ELSE pins[x]
      /\ pins' \in [A -> 0..MaxPins]
      /\ pins' \in [A -> Nat]
  BY <1>1, <1>2
<1>7. Counted(heap', A, A, pins')
  <2>1. SUFFICES ASSUME NEW x \in A
                 PROVE  heap'.ref[x] = Cardinality(Lefts(heap', A, x))
                                       + Cardinality(Rights(heap', A, x)) + pins'[x]
    BY <1>5 DEF Counted
  <2>2. Lefts(heap', A, x) = Lefts(heap, A, x) /\ Rights(heap', A, x) = Rights(heap, A, x)
    BY <1>5 DEF Lefts, Rights
  <2>3. /\ Cardinality(Lefts(heap, A, x)) \in Nat
        /\ Cardinality(Rights(heap, A, x)) \in Nat
    BY <1>3, AddressesAreNat, CountsAreNat DEF WellFormed
  <2>4. heap.ref[x] = Cardinality(Lefts(heap, A, x)) + Cardinality(Rights(heap, A, x)) + pins[x]
    BY <1>3 DEF Counted
  <2>5. /\ heap'.ref[x] = (IF x = n THEN heap.ref[x] + 1 ELSE heap.ref[x])
        /\ pins'[x] = (IF x = n THEN pins[x] + 1 ELSE pins[x])
        /\ pins[x] \in Nat
    BY <1>2, <1>5, <1>6
  <2> QED
    BY <2>2, <2>3, <2>4, <2>5
<1>8. HeldOK'
  BY <1>1, <1>5 DEF IInv, HeldOK
<1>9. CallOK'
  BY <1>1 DEF CallOK, Calls, Idle, Null
<1> QED
  BY <1>4, <1>5, <1>6, <1>7, <1>8, <1>9 DEF IInv, Accounted, Frozen

LEMMA UnpinStep ==
  ASSUME IInv, NEW n \in Addresses(heap), UnpinNode(n)
  PROVE  IInv' /\ Frozen
<1> DEFINE A == Addresses(heap)
<1>1. /\ call = Idle /\ call' = call /\ held' = held /\ n \in Pinned
      /\ heap' = Release(heap, n)
      /\ pins' = [pins EXCEPT ![n] = @ - 1]
  BY DEF UnpinNode, Pinned
<1>2. /\ pins \in [A -> 0..MaxPins] /\ MaxPins \in Nat
      /\ \A x \in A : pins[x] \in Nat
      /\ pins[n] >= 1
  <2>1. pins \in [A -> 0..MaxPins] /\ MaxPins \in Nat /\ pins[n] > 0
    BY <1>1, MaxPinsAssumption DEF IInv, Pinned
  <2> QED
    BY <2>1
<1>3. /\ WellFormed(heap) /\ FreeOK(heap) /\ Counted(heap, A, A, pins)
      /\ heap.ref[n] >= 1
  BY <1>1, PinnedIsProtected DEF IInv, Accounted
<1>4. /\ WellFormed(heap') /\ FreeOK(heap')
      /\ heap'.node = heap.node
      /\ heap'.ref = [heap.ref EXCEPT ![n] = @ - 1]
      /\ Free(heap') \subseteq Free(heap) \cup {n}
  BY <1>1, <1>3, ReleaseFacts
<1>5. /\ Addresses(heap') = A
      /\ \A x \in A : heap'.ref[x] = IF x = n THEN heap.ref[x] - 1 ELSE heap.ref[x]
  BY <1>3, <1>4 DEF WellFormed, Addresses
<1>6. /\ \A x \in A : pins'[x] = IF x = n THEN pins[x] - 1 ELSE pins[x]
      /\ pins' \in [A -> 0..MaxPins]
      /\ pins' \in [A -> Nat]
  BY <1>1, <1>2
<1>7. Counted(heap', A, A, pins')
  <2>1. SUFFICES ASSUME NEW x \in A
                 PROVE  heap'.ref[x] = Cardinality(Lefts(heap', A, x))
                                       + Cardinality(Rights(heap', A, x)) + pins'[x]
    BY <1>5 DEF Counted
  <2>2. Lefts(heap', A, x) = Lefts(heap, A, x) /\ Rights(heap', A, x) = Rights(heap, A, x)
    BY <1>4 DEF Lefts, Rights
  <2>3. /\ Cardinality(Lefts(heap, A, x)) \in Nat
        /\ Cardinality(Rights(heap, A, x)) \in Nat
    BY <1>3, AddressesAreNat, CountsAreNat DEF WellFormed
  <2>4. heap.ref[x] = Cardinality(Lefts(heap, A, x)) + Cardinality(Rights(heap, A, x)) + pins[x]
    BY <1>3 DEF Counted
  <2>5. /\ heap'.ref[x] = (IF x = n THEN heap.ref[x] - 1 ELSE heap.ref[x])
        /\ pins'[x] = (IF x = n THEN pins[x] - 1 ELSE pins[x])
        /\ pins[x] \in Nat
    BY <1>2, <1>5, <1>6
  <2> QED
    BY <2>2, <2>3, <2>4, <2>5
<1>8. HeldOK'
  <2>1. held # Null => held # n
    BY <1>3 DEF IInv, HeldOK
  <2> QED
    BY <1>1, <1>4, <1>5, <2>1 DEF IInv, HeldOK
<1>9. CallOK'
  BY <1>1 DEF CallOK, Calls, Idle, Null
<1> QED
  BY <1>4, <1>5, <1>6, <1>7, <1>8, <1>9 DEF IInv, Accounted, Frozen

LEMMA StutterStep ==
  ASSUME IInv, UNCHANGED vars
  PROVE  IInv' /\ Frozen
BY DEF vars, IInv, HeldOK, CallOK, Pinned, Frozen

LEMMA InitIInv == Init => IInv
<1> SUFFICES ASSUME Init PROVE IInv
  OBVIOUS
<1>1. heap = EmptyHeap /\ pins = << >> /\ held = Null /\ call = Idle
  BY DEF Init
<1>2. Addresses(heap) = {} /\ Free(heap) = {} /\ heap.free = << >> /\ heap.ref = << >>
  BY <1>1 DEF EmptyHeap, Addresses, Free
<1>3. heap \in Heap
  BY <1>1, StartingSizeAssumption DEF EmptyHeap, Heap
<1>4. pins \in [Addresses(heap) -> 0..MaxPins] /\ pins \in [Addresses(heap) -> Nat]
  BY <1>1, <1>2
<1>5. Accounted(heap, Addresses(heap), Addresses(heap), pins)
  BY <1>2, <1>3, <1>4 DEF Accounted, WellFormed, FreeOK, Counted
<1>6. HeldOK /\ CallOK
  BY <1>1 DEF HeldOK, CallOK, Calls, Idle, Null
<1> QED
  BY <1>4, <1>5, <1>6 DEF IInv

LEMMA NextStep == IInv /\ [Next]_vars => IInv' /\ Frozen
<1> SUFFICES ASSUME IInv, [Next]_vars PROVE IInv' /\ Frozen
  OBVIOUS
<1>0. Pinned \subseteq Addresses(heap) /\ Usable \subseteq Addresses(heap)
  BY DEF IInv, HeldOK, Pinned, Usable, Null
<1>1. CASE CreateBottomNode
  BY <1>1, BottomStep
<1>2. ASSUME NEW n \in Usable, NEW l \in Labels, CreateExtendNode(n, l)
      PROVE  IInv' /\ Frozen
  BY <1>0, <1>2, ExtendStep
<1>3. ASSUME NEW n1 \in Usable, NEW n2 \in Usable, CreateUnionNode(n1, n2)
      PROVE  IInv' /\ Frozen
  BY <1>0, <1>3, UnionStep
<1>4. ASSUME NEW n1 \in Usable, NEW n2 \in Usable,
             FirstIntermediateUnion(n1, n2)
      PROVE  IInv' /\ Frozen
  BY <1>0, <1>4, FirstStep
<1>5. CASE SecondIntermediateUnion
  BY <1>5, SecondStep
<1>6. CASE UnionOfOutputAndIntermediate
  BY <1>6, ThirdStep
<1>7. CASE ThrowMemoryLimit
  BY <1>7, ThrowStep
<1>8. ASSUME NEW n \in Usable, PinNode(n)
      PROVE  IInv' /\ Frozen
  BY <1>0, <1>8, PinStep
<1>9. ASSUME NEW n \in Pinned, UnpinNode(n)
      PROVE  IInv' /\ Frozen
  BY <1>0, <1>9, UnpinStep
<1>10. CASE UNCHANGED vars
  BY <1>10, StutterStep
<1> QED
  BY <1>1, <1>2, <1>3, <1>4, <1>5, <1>6, <1>7, <1>8, <1>9, <1>10 DEF Next

LEMMA Invariance == Spec => []IInv
BY InitIInv, NextStep, PTL DEF Spec

----------------------------------------------------------------------------
(***************************************************************************)
(* The graph. A step leaves every node what it was, but for one it builds  *)
(* at an address that no node has for a child; so the graph has no cycle.  *)
(***************************************************************************)
OnlyBuilds(m) ==
  /\ Addresses(heap') = Addresses(heap) \cup {m}
  /\ \A n \in Addresses(heap) \ {m} : heap'.node[n] = heap.node[n]
  /\ \A n \in Addresses(heap) :
       heap.node[n].left # m /\ heap.node[n].right # m
  /\ \A n \in Addresses(heap) \ Free(heap) : n # m
  /\ heap'.node[m].left # m /\ heap'.node[m].right # m

\* Any nodes have one among them none of whose children is, and one that is
\* not a child of any.
HasBottom(h) ==
  \A S \in SUBSET Addresses(h) : S # {} =>
    \E n \in S : h.node[n].left \notin S /\ h.node[n].right \notin S

HasTop(h) ==
  \A S \in SUBSET Addresses(h) : S # {} =>
    \E n \in S : \A p \in S : h.node[p].left # n /\ h.node[p].right # n

LEMMA NodesAreTyped ==
  ASSUME IInv, NEW n \in Addresses(heap)
  PROVE  /\ heap.node[n].left \in Addresses(heap) \cup {Null}
         /\ heap.node[n].right \in Addresses(heap) \cup {Null}
         /\ ~IsOutput(heap, n) => /\ heap.node[n].left \in Addresses(heap)
                                  /\ heap.node[n].right \in Addresses(heap)
<1>1. heap \in Heap /\ WellFormed(heap)
  BY DEF IInv, Accounted, WellFormed
<1>2. heap.node[n] \in Node
  <2>1. heap.node \in Seq(Node)
    BY <1>1 DEF Heap
  <2> QED
    BY <2>1 DEF Addresses
<1> QED
  BY <1>1, <1>2 DEF WellFormed, Node, Kinds, IsOutput

\* A recycled node was nobody's child: its count was zero.
LEMMA AllocatesBuilds ==
  ASSUME IInv, NEW nd, Buildable(heap, nd),
         nd.left = Null \/ Protected(heap, pins, nd.left),
         nd.right = Null \/ Protected(heap, pins, nd.right),
         Allocates(nd),
         NEW m, m = AllocAddress(heap)
  PROVE  OnlyBuilds(m) /\ heap'.node[m] = nd /\ Pinned' \subseteq Pinned
<1>1. /\ Places(heap, heap', m, nd)
      /\ pins' \in [Addresses(heap') -> 0..MaxPins]
      /\ \A n \in Addresses(heap) : pins'[n] = pins[n]
  BY AllocatesFacts
<1>2. m # Null
  <2>1. heap' \in Heap /\ m \in Addresses(heap')
    BY <1>1, AllocatesFacts DEF Accounted, WellFormed, Places
  <2> QED
    BY <2>1, AddressesAreNat DEF Null
<1>3. ASSUME NEW n \in Addresses(heap),
             heap.node[n].left = m \/ heap.node[n].right = m
      PROVE  FALSE
  <2>1. m \in Addresses(heap)
    BY <1>2, <1>3, NodesAreTyped
  <2>2. heap.ref[m] \in Nat /\ heap.ref[m] >= 1
    BY <1>3, <2>1, ParentsCount DEF IInv
  <2>3. m \in Free(heap)
    BY <1>1, <2>1 DEF Places
  <2> QED
    BY <2>2, <2>3 DEF IInv, Accounted, FreeOK
<1>4. pins' = PinsFor(heap')
  BY DEF Allocates
<1>5. Pinned' \subseteq Pinned
  <2>1. SUFFICES ASSUME NEW n \in Addresses(heap'), pins'[n] > 0
                 PROVE  n \in Pinned
    BY DEF Pinned
  <2>2. n \in DOMAIN pins
    BY <1>4, <2>1 DEF PinsFor
  <2> QED
    BY <1>1, <2>1, <2>2 DEF Pinned, IInv
<1>6. nd.left # m /\ nd.right # m
  BY <1>1, <1>2 DEF Protected, Places
<1> QED
  BY <1>1, <1>3, <1>5, <1>6 DEF OnlyBuilds, Places

\* The operands of an allocation are not recycled by it.
Passes(nd) ==
  /\ Buildable(heap, nd)
  /\ nd.left = Null \/ Protected(heap, pins, nd.left)
  /\ nd.right = Null \/ Protected(heap, pins, nd.right)

LEMMA UnionPasses ==
  ASSUME IInv, NEW a, Protected(heap, pins, a), NEW b, Protected(heap, pins, b)
  PROVE  /\ Passes(UnionNode(a, b))
         /\ UnionNode(a, b).left = a /\ UnionNode(a, b).right = b
<1>1. UnionNode(a, b).left = a /\ UnionNode(a, b).right = b
  BY DEF UnionNode
<1>2. Buildable(heap, UnionNode(a, b))
  BY UnionIsBuildable DEF Protected
<1> QED
  BY <1>1, <1>2 DEF Passes

LEMMA LabelPasses ==
  ASSUME IInv, NEW n, Protected(heap, pins, n), NEW l \in Labels
  PROVE  Passes(LabelNode(n, l))
<1>1. Buildable(heap, LabelNode(n, l))
  BY NullIsNoNode DEF Buildable, LabelNode, Node, Kinds, Null, Protected
<1> QED
  BY <1>1 DEF Passes, LabelNode

LEMMA BottomPasses == Passes(BottomNode)
BY DEF Passes, Buildable, BottomNode, Node, Kinds, Null

\* A step allocates a node with such operands, or changes no node.
LEMMA NextAllocates ==
  ASSUME IInv, [Next]_vars
  PROVE  \/ heap'.node = heap.node
         \/ \E nd : Passes(nd) /\ Allocates(nd)
<1>1. CASE CreateBottomNode
  BY <1>1, BottomPasses DEF CreateBottomNode, Returns
<1>2. ASSUME NEW n \in Usable, NEW l \in Labels, CreateExtendNode(n, l)
      PROVE  \E nd : Passes(nd) /\ Allocates(nd)
  BY <1>2, UsableIsProtected, LabelPasses DEF CreateExtendNode, Returns
<1>3. ASSUME NEW n1 \in Usable, NEW n2 \in Usable, CreateUnionNode(n1, n2)
      PROVE  \E nd : Passes(nd) /\ Allocates(nd)
  BY <1>3, UsableIsProtected, UnionPasses DEF CreateUnionNode, UnionOfOutput, Returns
<1>4. ASSUME NEW n1 \in Usable, NEW n2 \in Usable, FirstIntermediateUnion(n1, n2)
      PROVE  \E nd : Passes(nd) /\ Allocates(nd)
  BY <1>4, ChildrenOfOperand, UnionPasses DEF FirstIntermediateUnion
<1>5. CASE SecondIntermediateUnion
  <2>1. call.stage # "idle"
    BY <1>5 DEF SecondIntermediateUnion
  <2> QED
    BY <1>5, <2>1, InProgress, ChildrenOfOperand, UnionPasses DEF SecondIntermediateUnion
<1>6. CASE UnionOfOutputAndIntermediate
  <2>1. call.stage # "idle"
    BY <1>6 DEF UnionOfOutputAndIntermediate
  <2> QED
    BY <1>6, <2>1, InProgress, ChildrenOfOperand, UnionPasses
       DEF UnionOfOutputAndIntermediate, Returns
<1>7. CASE ThrowMemoryLimit
  <2>1. heap' = LimitExceeded(heap) /\ heap \in Heap
    BY <1>7 DEF ThrowMemoryLimit, IInv, Accounted, WellFormed
  <2> QED
    BY <2>1 DEF LimitExceeded, Heap
<1>8. ASSUME NEW n \in Usable, PinNode(n)
      PROVE  heap'.node = heap.node
  <2>1. heap' = Acquire(heap, n) /\ n \in Addresses(heap) /\ WellFormed(heap)
    BY <1>8, UsableIsProtected DEF PinNode, Protected, IInv, Accounted
  <2> QED
    BY <2>1, AcquireFacts
<1>9. ASSUME NEW n \in Pinned, UnpinNode(n)
      PROVE  heap'.node = heap.node
  <2>1. heap' = Release(heap, n) /\ n \in Addresses(heap)
    BY <1>9 DEF UnpinNode
  <2> QED
    BY <2>1, PinnedIsProtected, ReleaseFacts DEF IInv, Accounted
<1>10. CASE UNCHANGED vars
  BY <1>10 DEF vars
<1> QED
  BY <1>1, <1>2, <1>3, <1>4, <1>5, <1>6, <1>7, <1>8, <1>9, <1>10 DEF Next

\* The node built has children but no parents, the others keep theirs.
LEMMA BuildsNoCycle ==
  ASSUME HasBottom(heap), HasTop(heap), NEW m, OnlyBuilds(m)
  PROVE  HasBottom(heap') /\ HasTop(heap')
<1>1. /\ Addresses(heap') = Addresses(heap) \cup {m}
      /\ \A n \in Addresses(heap') \ {m} :
           /\ heap'.node[n] = heap.node[n]
           /\ heap.node[n].left # m /\ heap.node[n].right # m
      /\ heap'.node[m].left # m /\ heap'.node[m].right # m
  BY DEF OnlyBuilds
<1>2. ASSUME NEW S \in SUBSET Addresses(heap'), S # {}
      PROVE  \E n \in S : heap'.node[n].left \notin S /\ heap'.node[n].right \notin S
  <2>1. CASE S = {m}
    BY <1>1, <2>1
  <2>2. CASE S # {m}
    <3>1. S \ {m} \in SUBSET Addresses(heap) /\ S \ {m} # {}
      BY <1>1, <1>2, <2>2
    <3>2. PICK n \in S \ {m} : /\ heap.node[n].left \notin S \ {m}
                               /\ heap.node[n].right \notin S \ {m}
      BY <3>1 DEF HasBottom
    <3> QED
      BY <1>1, <3>2
  <2> QED
    BY <2>1, <2>2
<1>3. ASSUME NEW S \in SUBSET Addresses(heap'), S # {}
      PROVE  \E n \in S : \A p \in S :
               heap'.node[p].left # n /\ heap'.node[p].right # n
  <2>1. CASE m \in S
    BY <1>1, <2>1
  <2>2. CASE m \notin S
    <3>1. S \in SUBSET Addresses(heap)
      BY <1>1, <2>2
    <3>2. PICK n \in S : \A p \in S : heap.node[p].left # n /\ heap.node[p].right # n
      BY <1>3, <3>1 DEF HasTop
    <3> QED
      BY <1>1, <2>2, <3>2
  <2> QED
    BY <2>1, <2>2
<1> QED
  BY <1>2, <1>3 DEF HasBottom, HasTop

LEMMA NoCycle == Spec => [](HasBottom(heap) /\ HasTop(heap))
<1> DEFINE Inv == HasBottom(heap) /\ HasTop(heap)
<1>1. Init => Inv
  BY DEF Init, EmptyHeap, Addresses, HasBottom, HasTop
<1>2. ASSUME IInv, Inv, [Next]_vars
      PROVE  Inv'
  <2>1. CASE heap'.node = heap.node
    BY <1>2, <2>1 DEF HasBottom, HasTop, Addresses
  <2>2. CASE \E nd : Passes(nd) /\ Allocates(nd)
    <3>1. PICK nd : Passes(nd) /\ Allocates(nd)
      BY <2>2
    <3>2. OnlyBuilds(AllocAddress(heap))
      BY <1>2, <3>1, AllocatesBuilds DEF Passes
    <3> QED
      BY <1>2, <3>2, BuildsNoCycle
  <2> QED
    BY <1>2, <2>1, <2>2, NextAllocates
<1> QED
  BY <1>1, <1>2, Invariance, PTL DEF Spec

----------------------------------------------------------------------------
(***************************************************************************)
(* The theorems.                                                           *)
(***************************************************************************)
\* The variables keep their types, whatever the client creates, pins and
\* unpins and however often nodes are recycled.
THEOREM TypeCorrect == Spec => []TypeOK
<1>1. IInv => TypeOK
  BY DEF IInv, Accounted, WellFormed, HeldOK, CallOK, TypeOK
<1> QED
  BY <1>1, Invariance, PTL

\* A node's reference count is the number of references to it
\* (node_manager.cpp, decrease_ref_count and increase_ref_count).
THEOREM CountsAreExact == Spec => []RefCountExact
<1>1. IInv => RefCountExact
  BY DEF IInv, Accounted, Counted, Lefts, Rights,
         RefCountExact, LeftParents, RightParents
<1> QED
  BY <1>1, Invariance, PTL

\* The free list threaded through the nodes has no cycle and no sharing, and
\* holds only nodes nobody refers to (node_manager.cpp, get_node_to_recycle).
THEOREM FreeListIsSound == Spec => []FreeListSound
<1>1. IInv => FreeListSound
  BY DEF IInv, Accounted, FreeOK, FreeListSound
<1> QED
  BY <1>1, Invariance, PTL

\* The garbage collector does not recycle nodes that are being used: neither
\* what the client holds nor anything that can be reached from it is free.
THEOREM NoLiveNodeIsFree == Spec => []LiveNodesAreNotFree
<1>1. ASSUME IInv
      PROVE  LiveNodesAreNotFree
  <2>1. \A n \in Pinned : n \notin Free(heap)
    BY <1>1, PinnedIsProtected DEF Protected
  <2>2. held # Null => held \notin Free(heap)
    BY <1>1 DEF IInv, HeldOK
  <2>3. \A n \in InCall : n \notin Free(heap)
    <3>1. CASE call.stage = "idle"
      BY <1>1, <3>1 DEF IInv, CallOK, InCall
    <3>2. CASE call.stage # "idle"
      BY <1>1, <2>1, <3>2 DEF IInv, CallOK, InCall
    <3> QED
      BY <3>1, <3>2
  <2>4. \A n \in Addresses(heap) \ Free(heap) : Children(n) \cap Free(heap) = {}
    BY <1>1, ChildIsProtected DEF Children, Protected
  <2> QED
    BY <2>1, <2>2, <2>3, <2>4 DEF LiveNodesAreNotFree, Roots
<1> QED
  BY <1>1, Invariance, PTL

\* The graph below a node that is not free never changes under it.
THEOREM NoLiveNodeChanges == Spec => LiveNodesAreFrozen
<1>1. IInv /\ [Next]_vars =>
        [\A n \in Addresses(heap) \ Free(heap) : heap'.node[n] = heap.node[n]]_vars
  BY NextStep DEF Frozen
<1> QED
  BY <1>1, Invariance, PTL DEF Spec, LiveNodesAreFrozen

----------------------------------------------------------------------------
(***************************************************************************)
(* The graph the client builds, as a whole: no node of it is lost to       *)
(* recycling, no output is far from any node, and every path down ends, so *)
(* that whatever node the client holds can be enumerated.                  *)
(***************************************************************************)

(***************************************************************************)
(* Each action of the client leaves at most the node it hands out loose.   *)
(***************************************************************************)
\* Only what is about to be used is loose, unless an allocation has thrown.
LooseIsInUse ==
  heap.dups <= MaxDuplications => Loose(heap) \subseteq {held, call.u}

\* An allocation whose operands take in the nodes handed out.
LEMMA AllocatesKeeps ==
  ASSUME IInv, LooseIsInUse, NEW nd, Buildable(heap, nd),
         nd.left = Null \/ Protected(heap, pins, nd.left),
         nd.right = Null \/ Protected(heap, pins, nd.right),
         Allocates(nd),
         {held, call.u} \subseteq {Null, nd.left, nd.right},
         AllocAddress(heap) \in {held', call'.u}
  PROVE  LooseIsInUse'
<1> DEFINE m == AllocAddress(heap)
<1>1. heap' = Alloc(heap, nd) /\ m \in {held', call'.u}
  BY DEF Allocates
<1>2. /\ Loose(heap') \subseteq (Loose(heap) \ {nd.left, nd.right}) \cup {m}
      /\ StaysExceeded(heap, heap')
  BY <1>1, AllocLoses DEF IInv
<1>3. Null \notin Loose(heap)
  BY NullIsNoNode DEF Loose
<1> HIDE DEF m
<1> QED
  BY <1>1, <1>2, <1>3 DEF LooseIsInUse, StaysExceeded

LEMMA IdleHoldsNone == call = Idle => call.u = Null
BY DEF Idle

LEMMA BottomKeeps ==
  ASSUME IInv, LooseIsInUse, CreateBottomNode
  PROVE  LooseIsInUse'
<1>1. Buildable(heap, BottomNode)
  BY DEF Buildable, BottomNode, Node, Kinds, Null
<1>2. Addresses(heap) = {} /\ Returns(BottomNode)
  BY DEF CreateBottomNode
<1>3. held = Null /\ call.u = Null
  BY <1>2 DEF IInv, HeldOK, CallOK, Pinned, Idle
<1> QED
  BY <1>1, <1>2, <1>3, AllocatesKeeps DEF Returns, BottomNode

LEMMA ExtendKeeps ==
  ASSUME IInv, LooseIsInUse,
         NEW n \in Addresses(heap), NEW l \in Labels, CreateExtendNode(n, l)
  PROVE  LooseIsInUse'
<1>1. Buildable(heap, LabelNode(n, l))
  BY NullIsNoNode DEF Buildable, LabelNode, Node, Kinds, Null
<1>2. Protected(heap, pins, n)
  BY UsableIsProtected DEF CreateExtendNode
<1>3. held \in {n, Null} /\ call.u = Null /\ Returns(LabelNode(n, l))
  BY IdleHoldsNone DEF CreateExtendNode, Consumes
<1> QED
  BY <1>1, <1>2, <1>3, AllocatesKeeps DEF Returns, LabelNode

LEMMA UnionKeeps ==
  ASSUME IInv, LooseIsInUse,
         NEW n1 \in Addresses(heap), NEW n2 \in Addresses(heap),
         CreateUnionNode(n1, n2)
  PROVE  LooseIsInUse'
<1>1. Protected(heap, pins, n1) /\ Protected(heap, pins, n2)
  BY UsableIsProtected DEF CreateUnionNode
<1>2. held \in {n1, n2, Null} /\ call.u = Null
  BY IdleHoldsNone DEF CreateUnionNode, Consumes
<1>3. ASSUME NEW a \in {n1, n2}, NEW b \in {n1, n2}, {a, b} = {n1, n2},
             Returns(UnionNode(a, b))
      PROVE  LooseIsInUse'
  <2>1. Buildable(heap, UnionNode(a, b))
    BY UnionIsBuildable
  <2>2. LET nd == UnionNode(a, b) IN nd.left = a /\ nd.right = b /\ nd.kind = "union"
    BY DEF UnionNode
  <2>3. {held, call.u} \subseteq {Null, a, b}
    BY <1>2, <1>3
  <2>4. Allocates(UnionNode(a, b)) /\ AllocAddress(heap) \in {held', call'.u}
    BY <1>3 DEF Returns
  <2> QED
    BY <1>1, <1>3, <2>1, <2>2, <2>3, <2>4, AllocatesKeeps
<1> QED
  BY <1>3 DEF CreateUnionNode, UnionOfOutput

LEMMA FirstKeeps ==
  ASSUME IInv, LooseIsInUse,
         NEW n1 \in Addresses(heap), NEW n2 \in Addresses(heap),
         FirstIntermediateUnion(n1, n2)
  PROVE  LooseIsInUse'
<1> DEFINE a == heap.node[n1].right
           b == heap.node[n2].right
<1>1. /\ n1 \in Pinned /\ n2 \in Pinned
      /\ held = Null /\ call.u = Null
      /\ ~IsOutput(heap, n1) /\ ~IsOutput(heap, n2)
      /\ Allocates(UnionNode(a, b))
      /\ call'.u = AllocAddress(heap)
  BY IdleHoldsNone DEF FirstIntermediateUnion, Consumes
<1>2. /\ a \in Addresses(heap) /\ Protected(heap, pins, a)
      /\ b \in Addresses(heap) /\ Protected(heap, pins, b)
  BY <1>1, ChildrenOfOperand
<1>3. Buildable(heap, UnionNode(a, b))
  BY <1>2, UnionIsBuildable
<1>4. UnionNode(a, b).left = a /\ UnionNode(a, b).right = b
  BY DEF UnionNode
<1> HIDE DEF a, b
<1> QED
  BY <1>1, <1>2, <1>3, <1>4, AllocatesKeeps

LEMMA SecondKeeps ==
  ASSUME IInv, LooseIsInUse, SecondIntermediateUnion
  PROVE  LooseIsInUse'
<1> DEFINE a == heap.node[call.n2].left
           u == call.u
<1>1. /\ Allocates(UnionNode(a, u))
      /\ call.stage # "idle" /\ call \in Calls
      /\ call' = [call EXCEPT !.stage = "third", !.u = AllocAddress(heap)]
  BY DEF SecondIntermediateUnion, IInv, CallOK
<1>2. call'.u = AllocAddress(heap)
  BY <1>1 DEF Calls
<1>3. /\ held = Null
      /\ call.n2 \in Pinned /\ ~IsOutput(heap, call.n2)
      /\ u \in Addresses(heap) /\ Protected(heap, pins, u)
  BY <1>1, InProgress
<1>4. a \in Addresses(heap) /\ Protected(heap, pins, a)
  BY <1>3, ChildrenOfOperand
<1>5. Buildable(heap, UnionNode(a, u))
  BY <1>3, <1>4, UnionIsBuildable
<1>6. LET nd == UnionNode(a, u) IN nd.left = a /\ nd.right = u /\ nd.kind = "union"
  BY DEF UnionNode
<1>7. {held, call.u} \subseteq {Null, a, u}
  BY <1>3
<1> HIDE DEF a, u
<1> QED
  BY <1>1, <1>2, <1>3, <1>4, <1>5, <1>6, <1>7, AllocatesKeeps

LEMMA ThirdKeeps ==
  ASSUME IInv, LooseIsInUse, UnionOfOutputAndIntermediate
  PROVE  LooseIsInUse'
<1> DEFINE a == heap.node[call.n1].left
           u == call.u
<1>1. /\ Allocates(UnionNode(a, u)) /\ call.stage # "idle"
      /\ held' = AllocAddress(heap)
  BY DEF UnionOfOutputAndIntermediate, Returns
<1>2. /\ held = Null
      /\ call.n1 \in Pinned /\ ~IsOutput(heap, call.n1)
      /\ u \in Addresses(heap) /\ Protected(heap, pins, u)
  BY <1>1, InProgress
<1>3. a \in Addresses(heap) /\ Protected(heap, pins, a)
  BY <1>2, ChildrenOfOperand
<1>4. Buildable(heap, UnionNode(a, u))
  BY <1>2, <1>3, UnionIsBuildable
<1>5. UnionNode(a, u).left = a /\ UnionNode(a, u).right = u
  BY DEF UnionNode
<1>6. {held, call.u} \subseteq {Null, a, u}
  BY <1>2
<1> HIDE DEF a, u
<1> QED
  BY <1>1, <1>2, <1>3, <1>4, <1>5, <1>6, AllocatesKeeps

\* The call that throws loses what it had built, and says so.
LEMMA ThrowKeeps ==
  ASSUME IInv, ThrowMemoryLimit
  PROVE  LooseIsInUse'
<1>1. heap \in Heap /\ heap' = LimitExceeded(heap)
  BY DEF ThrowMemoryLimit, IInv, Accounted, WellFormed
<1>2. heap'.dups = MaxDuplications + 1
  BY <1>1 DEF LimitExceeded, Heap
<1> QED
  BY <1>2, MaxDuplicationsAssumption DEF LooseIsInUse

LEMMA PinKeeps ==
  ASSUME IInv, LooseIsInUse, NEW n \in Addresses(heap), PinNode(n)
  PROVE  LooseIsInUse'
<1>1. /\ heap' = Acquire(heap, n) /\ call' = call /\ n \in Usable
      /\ held' = IF n = held THEN Null ELSE held
  BY DEF PinNode
<1>2. WellFormed(heap) /\ FreeOK(heap) /\ n \notin Free(heap)
  BY <1>1, UsableIsProtected DEF IInv, Accounted, Protected
<1>3. Loose(heap') \subseteq Loose(heap) \ {n} /\ StaysExceeded(heap, heap')
  BY <1>1, <1>2, AcquireLoses
<1> QED
  BY <1>1, <1>3 DEF LooseIsInUse, StaysExceeded

LEMMA UnpinKeeps ==
  ASSUME IInv, LooseIsInUse, NEW n \in Addresses(heap), UnpinNode(n)
  PROVE  LooseIsInUse'
<1>1. /\ heap' = Release(heap, n) /\ held' = held /\ call' = call
      /\ n \in Pinned
  BY DEF UnpinNode, Pinned
<1>2. WellFormed(heap) /\ FreeOK(heap) /\ heap.ref[n] >= 1
  BY <1>1, PinnedIsProtected DEF IInv, Accounted
<1>3. LosesOnly(heap, heap', {})
  BY <1>1, <1>2, ReleaseLoses
<1> QED
  BY <1>1, <1>3 DEF LooseIsInUse, LosesOnly, StaysExceeded

LEMMA NextKeeps == IInv /\ LooseIsInUse /\ [Next]_vars => LooseIsInUse'
<1> SUFFICES ASSUME IInv, LooseIsInUse, [Next]_vars PROVE LooseIsInUse'
  OBVIOUS
<1>0. Pinned \subseteq Addresses(heap) /\ Usable \subseteq Addresses(heap)
  BY DEF IInv, HeldOK, Pinned, Usable, Null
<1>1. CASE CreateBottomNode
  BY <1>1, BottomKeeps
<1>2. ASSUME NEW n \in Usable, NEW l \in Labels, CreateExtendNode(n, l)
      PROVE  LooseIsInUse'
  BY <1>0, <1>2, ExtendKeeps
<1>3. ASSUME NEW n1 \in Usable, NEW n2 \in Usable, CreateUnionNode(n1, n2)
      PROVE  LooseIsInUse'
  BY <1>0, <1>3, UnionKeeps
<1>4. ASSUME NEW n1 \in Usable, NEW n2 \in Usable, FirstIntermediateUnion(n1, n2)
      PROVE  LooseIsInUse'
  BY <1>0, <1>4, FirstKeeps
<1>5. CASE SecondIntermediateUnion
  BY <1>5, SecondKeeps
<1>6. CASE UnionOfOutputAndIntermediate
  BY <1>6, ThirdKeeps
<1>7. CASE ThrowMemoryLimit
  BY <1>7, ThrowKeeps
<1>8. ASSUME NEW n \in Usable, PinNode(n)
      PROVE  LooseIsInUse'
  BY <1>0, <1>8, PinKeeps
<1>9. ASSUME NEW n \in Pinned, UnpinNode(n)
      PROVE  LooseIsInUse'
  BY <1>0, <1>9, UnpinKeeps
<1>10. CASE UNCHANGED vars
  BY <1>10 DEF vars, LooseIsInUse
<1> QED
  BY <1>1, <1>2, <1>3, <1>4, <1>5, <1>6, <1>7, <1>8, <1>9, <1>10 DEF Next

LEMMA LooseInvariance == Spec => []LooseIsInUse
<1>1. Init => LooseIsInUse
  BY DEF Init, EmptyHeap, Addresses, Loose, LooseIsInUse
<1> QED
  BY <1>1, NextKeeps, Invariance, PTL DEF Spec

----------------------------------------------------------------------------
(***************************************************************************)
(* What can be reached. ReachableFrom(S) goes on for as many steps as      *)
(* there are nodes: unless a step adds nothing, and then no later one      *)
(* does, each step adds a node, and the last one has them all.             *)
(***************************************************************************)
\* reach lists what is reached from S in up to k steps.
Reaches(S, k, reach) ==
  reach = [i \in 0..k |->
             IF i = 0 THEN S
             ELSE reach[i - 1] \cup UNION {Children(n) : n \in reach[i - 1]}]

Closed(R) == \A n \in R : Children(n) \subseteq R

LEMMA ReachExists ==
  ASSUME NEW S, NEW N \in Nat
  PROVE  \E reach : Reaches(S, N, reach)
<1> DEFINE T == {k \in Nat : ~\E reach : Reaches(S, k, reach)}
<1>1. SUFFICES ASSUME T # {} PROVE FALSE
  OBVIOUS
<1>2. PICK k \in T : \A y \in T : ~(y < k)
  BY <1>1, LeastNumber
<1>3. k \in Nat /\ ~\E reach : Reaches(S, k, reach)
  OBVIOUS
<1>4. CASE k = 0
  <2> DEFINE f == [i \in 0..0 |-> S]
  <2>1. f = [i \in 0..0 |-> IF i = 0 THEN S
                            ELSE f[i - 1] \cup UNION {Children(n) : n \in f[i - 1]}]
    <3>1. \A i \in 0..0 : i = 0
      OBVIOUS
    <3> QED
      BY <3>1
  <2> HIDE DEF f
  <2> QED
    BY <1>3, <1>4, <2>1 DEF Reaches
<1>5. CASE k # 0
  <2> DEFINE Next1(R) == R \cup UNION {Children(n) : n \in R}
  <2>1. k - 1 \in Nat /\ k - 1 < k
    BY <1>3, <1>5
  <2>2. PICK f : Reaches(S, k - 1, f)
    BY <1>2, <2>1
  <2> DEFINE g == [i \in 0..k |-> IF i = k THEN Next1(f[k - 1]) ELSE f[i]]
  <2>3. \A i \in 0..k - 1 : f[i] = IF i = 0 THEN S ELSE Next1(f[i - 1])
    BY <2>2 DEF Reaches
  <2> HIDE DEF Next1
  <2>4. \A i \in 0..k - 1 : g[i] = f[i]
    BY <1>3
  <2>5. g[k] = Next1(f[k - 1])
    BY <1>3
  <2>6. DOMAIN g = 0..k /\ g = [i \in 0..k |-> g[i]]
    OBVIOUS
  <2> HIDE DEF g
  <2>7. ASSUME NEW i \in 0..k
        PROVE  g[i] = IF i = 0 THEN S ELSE Next1(g[i - 1])
    <3>1. CASE i = k
      <4>1. k - 1 \in 0..k - 1
        BY <2>1
      <4> QED
        BY <1>5, <2>4, <2>5, <3>1, <4>1
    <3>2. CASE i # k
      <4>1. i \in 0..k - 1 /\ (i # 0 => i - 1 \in 0..k - 1)
        BY <1>3, <3>2
      <4> QED
        BY <2>3, <2>4, <4>1
    <3> QED
      BY <3>1, <3>2
  <2>8. Reaches(S, k, g)
    BY <2>6, <2>7 DEF Reaches, Next1
  <2> QED
    BY <1>3, <2>8
<1> QED
  BY <1>4, <1>5

LEMMA AddressesAreCounted ==
  ASSUME IInv
  PROVE  LET N == Len(heap.node)
             A == Addresses(heap)
         IN  A = 1..N /\ N \in Nat /\ IsFiniteSet(A) /\ Cardinality(A) = N
<1> DEFINE N == Len(heap.node)
           A == Addresses(heap)
<1>1. A = 1..N /\ N \in Nat
  <2>1. heap.node \in Seq(Node)
    BY DEF IInv, Accounted, WellFormed, Heap
  <2> QED
    BY <2>1 DEF Addresses
<1> HIDE DEF A, N
<1>2. IsFiniteSet(A) /\ Cardinality(A) = N
  BY <1>1, FS_Interval
<1> QED
  BY <1>1, <1>2 DEF A, N

LEMMA ReachableIsClosed ==
  ASSUME IInv, NEW S \in SUBSET Addresses(heap)
  PROVE  /\ S \subseteq ReachableFrom(S)
         /\ ReachableFrom(S) \subseteq Addresses(heap)
         /\ Closed(ReachableFrom(S))
<1> DEFINE N == Len(heap.node)
           A == Addresses(heap)
<1>1. A = 1..N /\ N \in Nat /\ IsFiniteSet(A) /\ Cardinality(A) = N
  BY AddressesAreCounted
<1>2. PICK reach : Reaches(S, N, reach) /\ ReachableFrom(S) = reach[N]
  <2>1. \E reach : Reaches(S, N, reach)
    BY <1>1, ReachExists
  <2> QED
    BY <2>1, Zenon DEF Reaches, ReachableFrom
<1>3. \A n \in A : Children(n) \subseteq A
  BY NodesAreTyped DEF Children
<1> HIDE DEF A, N
<1>4. /\ reach[0] = S
      /\ \A i \in 1..N :
           reach[i] = reach[i - 1] \cup UNION {Children(n) : n \in reach[i - 1]}
  <2>1. 0 \in 0..N /\ \A i \in 1..N : i \in 0..N /\ i # 0
    BY <1>1
  <2> QED
    BY <1>2, <2>1, Zenon DEF Reaches
<1> DEFINE OK(i) == /\ S \subseteq reach[i] /\ reach[i] \subseteq A
                    /\ Closed(reach[i]) \/ Cardinality(reach[i]) >= i
           T == {i \in 0..N : ~OK(i)}
<1>5. T = {}
  <2>1. SUFFICES ASSUME T # {} PROVE FALSE
    OBVIOUS
  <2>2. PICK k \in T : \A y \in T : ~(y < k)
    <3>1. T \subseteq Nat
      BY <1>1
    <3> HIDE DEF T
    <3> QED
      BY <2>1, <3>1, LeastNumber
  <2>3. k \in 0..N /\ ~OK(k)
    OBVIOUS
  <2>4. k # 0
    <3>1. IsFiniteSet(S) /\ Cardinality(S) \in Nat
      BY <1>1, FS_Subset, FS_CardinalityType DEF A
    <3> QED
      BY <1>4, <2>3, <3>1 DEF A
  <2>5. k \in 1..N /\ k - 1 \in 0..N /\ k - 1 < k
    BY <1>1, <2>3, <2>4
  <2>6. OK(k - 1)
    BY <2>2, <2>5
  <2> DEFINE P == reach[k - 1]
             Q == reach[k]
  <2>7. /\ Q = P \cup UNION {Children(n) : n \in P}
        /\ S \subseteq P /\ P \subseteq A
        /\ Closed(P) \/ Cardinality(P) >= k - 1
    BY <1>4, <2>5, <2>6
  <2>8. ~(S \subseteq Q /\ Q \subseteq A /\ (Closed(Q) \/ Cardinality(Q) >= k))
    BY <2>3
  <2> HIDE DEF P, Q
  <2>9. S \subseteq Q /\ P \subseteq Q /\ Q \subseteq A
    BY <1>3, <2>7
  <2>10. ~Closed(P)
    <3>1. Closed(P) => Q = P
      BY <2>7 DEF Closed
    <3> QED
      BY <2>8, <2>9, <3>1
  <2>11. P # Q
    BY <2>7, <2>10 DEF Closed
  <2>12. /\ IsFiniteSet(Q) /\ Cardinality(Q) \in Nat
         /\ Cardinality(P) \in Nat /\ Cardinality(P) < Cardinality(Q)
    <3>1. IsFiniteSet(P) /\ IsFiniteSet(Q)
      BY <1>1, <2>7, <2>9, FS_Subset
    <3>2. Cardinality(P) \in Nat /\ Cardinality(Q) \in Nat
      BY <3>1, FS_CardinalityType
    <3>3. Cardinality(P) <= Cardinality(Q) /\ Cardinality(P) # Cardinality(Q)
      BY <2>9, <2>11, <3>1, FS_Subset
    <3> QED
      BY <3>1, <3>2, <3>3
  <2> QED
    BY <2>5, <2>7, <2>8, <2>9, <2>10, <2>12
<1>6. OK(N)
  <2>1. N \in 0..N
    BY <1>1
  <2> QED
    BY <1>5, <2>1
<1>7. Closed(reach[N])
  <2>1. CASE Cardinality(reach[N]) >= N
    <3>1. reach[N] = A
      <4>1. Cardinality(reach[N]) \in Nat /\ IsFiniteSet(reach[N])
        BY <1>1, <1>6, FS_Subset, FS_CardinalityType
      <4> QED
        BY <1>1, <1>6, <2>1, <4>1, FS_Subset
    <3> QED
      BY <1>3, <3>1 DEF Closed
  <2> QED
    BY <1>6, <2>1
<1> QED
  BY <1>2, <1>6, <1>7 DEF A

----------------------------------------------------------------------------
(***************************************************************************)
(* How far an output is from any node of the ECS. The bound on the nodes   *)
(* the client holds is kept by the three allocations of a union of two     *)
(* non-output nodes only because the last two put an output in front of    *)
(* the one before, so the call in progress is part of the invariant.       *)
(***************************************************************************)
\* What is asked of a node the client may pass.
Operand(h, n) == OutputWithin1(h, n) /\ (IsOutput(h, n) \/ OutputWithin1(h, h.node[n].right))

DepthInv ==
  /\ \A n \in Addresses(heap) : OutputWithin2(heap, n) /\ Linked(heap, n)
  /\ \A n \in Usable : Operand(heap, n)
  /\ call.stage = "third" => OutputWithin1(heap, call.u)

----------------------------------------------------------------------------
(***************************************************************************)
(* What an allocation leaves alone.                                        *)
(***************************************************************************)
\* The nodes that were there are as far from an output as they were.
LEMMA DepthIsKept ==
  ASSUME IInv, NEW m, OnlyBuilds(m), NEW n \in Addresses(heap), n # m
  PROVE  /\ IsOutput(heap', n) <=> IsOutput(heap, n)
         /\ OutputWithin1(heap, n) => OutputWithin1(heap', n)
         /\ OutputWithin2(heap, n) => OutputWithin2(heap', n)
         /\ Operand(heap, n) => Operand(heap', n)
         /\ Linked(heap, n) => Linked(heap', n)
<1>1. ASSUME NEW x \in Addresses(heap), x # m
      PROVE  /\ heap'.node[x] = heap.node[x]
             /\ IsOutput(heap', x) <=> IsOutput(heap, x)
             /\ heap.node[x].left # m /\ heap.node[x].right # m
             /\ ~IsOutput(heap, x) => /\ heap.node[x].left \in Addresses(heap)
                                      /\ heap.node[x].right \in Addresses(heap)
  BY <1>1, NodesAreTyped DEF OnlyBuilds, IsOutput
<1>2. ASSUME NEW x \in Addresses(heap), x # m, OutputWithin1(heap, x)
      PROVE  OutputWithin1(heap', x)
  BY <1>1, <1>2 DEF OutputWithin1
<1>3. OutputWithin2(heap, n) => OutputWithin2(heap', n)
  BY <1>1, <1>2 DEF OutputWithin2, OutputWithin1
<1>4. Operand(heap, n) => Operand(heap', n)
  BY <1>1, <1>2 DEF Operand
<1>5. Linked(heap, n) => Linked(heap', n)
  BY <1>1, <1>2 DEF Linked, OnlyBuilds
<1> QED
  BY <1>1, <1>2, <1>3, <1>4, <1>5

LEMMA KeptApart ==
  ASSUME IInv, DepthInv, NEW m, OnlyBuilds(m)
  PROVE  /\ \A n \in Addresses(heap') \ {m} : OutputWithin2(heap', n) /\ Linked(heap', n)
         /\ \A n \in Usable : Operand(heap', n)
<1>1. \A n \in Usable : n \in Addresses(heap) /\ n # m
  BY UsableIsProtected DEF Protected, OnlyBuilds
<1> QED
  BY <1>1, DepthIsKept DEF DepthInv, OnlyBuilds

\* The output in front of a node the client may pass.
LEMMA OperandDepth ==
  ASSUME IInv, DepthInv, NEW n \in Usable, ~IsOutput(heap, n)
  PROVE  /\ heap.node[n].left \in Addresses(heap)
         /\ heap.node[n].right \in Addresses(heap)
         /\ IsOutput(heap, heap.node[n].left)
         /\ OutputWithin1(heap, heap.node[n].right)
<1>1. n \in Addresses(heap)
  BY UsableIsProtected DEF Protected
<1> QED
  BY <1>1, NodesAreTyped DEF DepthInv, Operand, OutputWithin1

----------------------------------------------------------------------------
(***************************************************************************)
(* Each action preserves the bound.                                        *)
(***************************************************************************)
\* The node handed out to the client is an output, or a union of an output
\* and a node near one.
LEMMA ReturnsDepth ==
  ASSUME IInv, DepthInv, NEW nd, Buildable(heap, nd),
         nd.left = Null \/ Protected(heap, pins, nd.left),
         nd.right = Null \/ Protected(heap, pins, nd.right),
         Returns(nd),
         \/ nd.kind = "bottom"
         \/ /\ nd.kind = "label"
            /\ nd.left \in Addresses(heap) /\ OutputWithin1(heap, nd.left)
         \/ /\ nd.kind = "union"
            /\ nd.left \in Addresses(heap) /\ IsOutput(heap, nd.left)
            /\ nd.right \in Addresses(heap) /\ OutputWithin1(heap, nd.right)
  PROVE  DepthInv'
<1> DEFINE m == AllocAddress(heap)
<1>1. Allocates(nd) /\ held' = m /\ call' = Idle
  BY DEF Returns
<1> HIDE DEF m
<1>2. OnlyBuilds(m) /\ heap'.node[m] = nd /\ Pinned' \subseteq Pinned
  BY <1>1, AllocatesBuilds DEF m
<1>3. Operand(heap', m)
  <2>1. CASE nd.kind \in {"bottom", "label"}
    BY <1>2, <2>1 DEF Operand, OutputWithin1, IsOutput
  <2>2. CASE nd.kind \notin {"bottom", "label"}
    <3>1. /\ nd.left \in Addresses(heap) /\ nd.left # m /\ IsOutput(heap, nd.left)
          /\ nd.right \in Addresses(heap) /\ nd.right # m /\ OutputWithin1(heap, nd.right)
      BY <1>2, <2>2, NullIsNoNode DEF Protected, OnlyBuilds
    <3>2. IsOutput(heap', nd.left) /\ OutputWithin1(heap', nd.right)
      BY <1>2, <3>1, DepthIsKept
    <3> QED
      BY <1>2, <3>2 DEF Operand, OutputWithin1
  <2> QED
    BY <2>1, <2>2
<1>4. OutputWithin2(heap', m)
  BY <1>3 DEF OutputWithin2, Operand
<1>5. Linked(heap', m)
  <2>1. CASE nd.kind = "bottom"
    BY <1>2, <2>1 DEF Linked
  <2>2. CASE nd.kind = "label"
    <3>1. nd.left \in Addresses(heap) /\ nd.left # m /\ OutputWithin1(heap, nd.left)
      BY <1>2, <2>2, NullIsNoNode DEF Protected, OnlyBuilds
    <3>2. OutputWithin1(heap', nd.left)
      BY <1>2, <3>1, DepthIsKept
    <3> QED
      BY <1>2, <2>2, <3>1, <3>2 DEF Linked, OnlyBuilds
  <2>3. CASE nd.kind = "union"
    BY <1>2, <2>3 DEF Linked, OnlyBuilds
  <2> QED
    BY <2>1, <2>2, <2>3
<1>6. \A n \in Addresses(heap') : OutputWithin2(heap', n) /\ Linked(heap', n)
  BY <1>2, <1>4, <1>5, KeptApart
<1>7. \A n \in Usable' : Operand(heap', n)
  <2>1. Usable' \subseteq Usable \cup {m}
    BY <1>1, <1>2 DEF Usable
  <2> QED
    BY <1>2, <1>3, <2>1, KeptApart
<1> QED
  BY <1>1, <1>6, <1>7 DEF DepthInv, Idle

\* The node a call keeps for its next stage.
LEMMA IntermediateDepth ==
  ASSUME IInv, DepthInv, NEW a \in Addresses(heap), NEW b \in Addresses(heap),
         Protected(heap, pins, a), Protected(heap, pins, b),
         Allocates(UnionNode(a, b)), UNCHANGED held,
         call'.u = AllocAddress(heap), OutputWithin1(heap, a),
         call'.stage = "third" => IsOutput(heap, a)
  PROVE  DepthInv'
<1> DEFINE m == AllocAddress(heap)
           nd == UnionNode(a, b)
<1>1. Buildable(heap, nd) /\ nd.left = a /\ nd.right = b /\ nd.kind = "union"
  BY UnionIsBuildable DEF UnionNode
<1>2. Allocates(nd) /\ call'.u = m
  OBVIOUS
<1> HIDE DEF m, nd
<1>3. OnlyBuilds(m) /\ heap'.node[m] = nd /\ Pinned' \subseteq Pinned
  BY <1>1, <1>2, AllocatesBuilds DEF m
<1>4. a # m
  BY <1>3 DEF Protected, OnlyBuilds
<1>5. OutputWithin1(heap', a) /\ (IsOutput(heap, a) => IsOutput(heap', a))
  BY <1>3, <1>4, DepthIsKept
<1>6. OutputWithin2(heap', m) /\ (IsOutput(heap, a) => OutputWithin1(heap', m))
  BY <1>1, <1>3, <1>5 DEF OutputWithin2, OutputWithin1
<1>7. \A n \in Addresses(heap') : OutputWithin2(heap', n) /\ Linked(heap', n)
  <2>1. Linked(heap', m)
    BY <1>1, <1>3 DEF Linked, OnlyBuilds
  <2> QED
    BY <1>3, <1>6, <2>1, KeptApart
<1>8. \A n \in Usable' : Operand(heap', n)
  BY <1>3, KeptApart DEF Usable
<1> QED
  BY <1>2, <1>6, <1>7, <1>8 DEF DepthInv

LEMMA BottomDepth ==
  ASSUME IInv, DepthInv, CreateBottomNode
  PROVE  DepthInv'
<1>1. Buildable(heap, BottomNode)
  BY DEF Buildable, BottomNode, Node, Kinds, Null
<1> QED
  BY <1>1, ReturnsDepth DEF CreateBottomNode, BottomNode

LEMMA ExtendDepth ==
  ASSUME IInv, DepthInv,
         NEW n \in Addresses(heap), NEW l \in Labels, CreateExtendNode(n, l)
  PROVE  DepthInv'
<1>1. Buildable(heap, LabelNode(n, l))
  BY NullIsNoNode DEF Buildable, LabelNode, Node, Kinds, Null
<1>2. Protected(heap, pins, n) /\ OutputWithin1(heap, n)
  BY UsableIsProtected DEF CreateExtendNode, DepthInv, Operand
<1> QED
  BY <1>1, <1>2, ReturnsDepth DEF CreateExtendNode, LabelNode

LEMMA UnionDepth ==
  ASSUME IInv, DepthInv,
         NEW n1 \in Addresses(heap), NEW n2 \in Addresses(heap),
         CreateUnionNode(n1, n2)
  PROVE  DepthInv'
<1>1. n1 \in Usable /\ n2 \in Usable
  BY DEF CreateUnionNode
<1>2. /\ Protected(heap, pins, n1) /\ OutputWithin1(heap, n1)
      /\ Protected(heap, pins, n2) /\ OutputWithin1(heap, n2)
  BY <1>1, UsableIsProtected DEF DepthInv, Operand
<1>3. ASSUME NEW a \in {n1, n2}, NEW b \in {n1, n2},
             IsOutput(heap, a), Returns(UnionNode(a, b))
      PROVE  DepthInv'
  <2>1. Buildable(heap, UnionNode(a, b))
    BY UnionIsBuildable
  <2>2. LET nd == UnionNode(a, b) IN nd.left = a /\ nd.right = b /\ nd.kind = "union"
    BY DEF UnionNode
  <2> QED
    BY <1>2, <1>3, <2>1, <2>2, ReturnsDepth
<1> QED
  BY <1>3 DEF CreateUnionNode, UnionOfOutput

LEMMA FirstDepth ==
  ASSUME IInv, DepthInv,
         NEW n1 \in Addresses(heap), NEW n2 \in Addresses(heap),
         FirstIntermediateUnion(n1, n2)
  PROVE  DepthInv'
<1> DEFINE a == heap.node[n1].right
           b == heap.node[n2].right
<1>1. /\ n1 \in Pinned /\ ~IsOutput(heap, n1)
      /\ n2 \in Pinned /\ ~IsOutput(heap, n2)
      /\ Allocates(UnionNode(a, b)) /\ UNCHANGED held
      /\ call'.u = AllocAddress(heap) /\ call'.stage = "second"
  BY DEF FirstIntermediateUnion
<1>2. /\ a \in Addresses(heap) /\ Protected(heap, pins, a)
      /\ b \in Addresses(heap) /\ Protected(heap, pins, b)
  BY <1>1, ChildrenOfOperand
<1>3. OutputWithin1(heap, a)
  BY <1>1, OperandDepth DEF Usable
<1> HIDE DEF a, b
<1> QED
  BY <1>1, <1>2, <1>3, IntermediateDepth

LEMMA SecondDepth ==
  ASSUME IInv, DepthInv, SecondIntermediateUnion
  PROVE  DepthInv'
<1> DEFINE a == heap.node[call.n2].left
           u == call.u
<1>1. /\ Allocates(UnionNode(a, u)) /\ UNCHANGED held
      /\ call.stage # "idle" /\ call \in Calls
      /\ call' = [call EXCEPT !.stage = "third", !.u = AllocAddress(heap)]
  BY DEF SecondIntermediateUnion, IInv, CallOK
<1>2. call'.u = AllocAddress(heap)
  BY <1>1 DEF Calls
<1>3. /\ call.n2 \in Pinned /\ ~IsOutput(heap, call.n2)
      /\ u \in Addresses(heap) /\ Protected(heap, pins, u)
  BY <1>1, InProgress
<1>4. a \in Addresses(heap) /\ Protected(heap, pins, a)
  BY <1>3, ChildrenOfOperand
<1>5. IsOutput(heap, a) /\ OutputWithin1(heap, a)
  BY <1>3, OperandDepth DEF Usable, OutputWithin1
<1> HIDE DEF a, u
<1> QED
  BY <1>1, <1>2, <1>3, <1>4, <1>5, IntermediateDepth

LEMMA ThirdDepth ==
  ASSUME IInv, DepthInv, UnionOfOutputAndIntermediate
  PROVE  DepthInv'
<1> DEFINE a == heap.node[call.n1].left
           u == call.u
<1>1. Returns(UnionNode(a, u)) /\ call.stage = "third"
  BY DEF UnionOfOutputAndIntermediate
<1>2. /\ call.n1 \in Pinned /\ ~IsOutput(heap, call.n1)
      /\ u \in Addresses(heap) /\ Protected(heap, pins, u)
  BY <1>1, InProgress
<1>3. a \in Addresses(heap) /\ Protected(heap, pins, a)
  BY <1>2, ChildrenOfOperand
<1>4. IsOutput(heap, a) /\ OutputWithin1(heap, u)
  BY <1>1, <1>2, OperandDepth DEF Usable, DepthInv
<1>5. Buildable(heap, UnionNode(a, u))
  BY <1>2, <1>3, UnionIsBuildable
<1>6. LET nd == UnionNode(a, u) IN nd.left = a /\ nd.right = u /\ nd.kind = "union"
  BY DEF UnionNode
<1> HIDE DEF a, u
<1> QED
  BY <1>1, <1>2, <1>3, <1>4, <1>5, <1>6, ReturnsDepth

\* The actions that build nothing.
LEMMA SameNodesDepth ==
  ASSUME DepthInv, heap'.node = heap.node, Usable' \subseteq Usable,
         call' = call \/ call' = Idle
  PROVE  DepthInv'
<1>1. Addresses(heap') = Addresses(heap)
  BY DEF Addresses
<1>2. \A n : /\ IsOutput(heap', n) <=> IsOutput(heap, n)
             /\ OutputWithin1(heap', n) <=> OutputWithin1(heap, n)
             /\ OutputWithin2(heap', n) <=> OutputWithin2(heap, n)
             /\ Operand(heap', n) <=> Operand(heap, n)
             /\ Linked(heap', n) <=> Linked(heap, n)
  BY <1>1 DEF Operand, Linked, OutputWithin2, OutputWithin1, IsOutput
<1> QED
  BY <1>1, <1>2 DEF DepthInv, Idle

LEMMA ThrowDepth ==
  ASSUME IInv, DepthInv, ThrowMemoryLimit
  PROVE  DepthInv'
<1>1. heap' = LimitExceeded(heap) /\ heap \in Heap
  BY DEF ThrowMemoryLimit, IInv, Accounted, WellFormed
<1>2. heap'.node = heap.node
  BY <1>1 DEF LimitExceeded, Heap
<1>3. Usable' \subseteq Usable
  BY <1>2 DEF ThrowMemoryLimit, Usable, Pinned, Addresses
<1> QED
  BY <1>2, <1>3, SameNodesDepth DEF ThrowMemoryLimit

LEMMA PinDepth ==
  ASSUME IInv, DepthInv, NEW n \in Addresses(heap), PinNode(n)
  PROVE  DepthInv'
<1>1. /\ heap' = Acquire(heap, n) /\ n \in Usable /\ call' = call
      /\ pins' = [pins EXCEPT ![n] = @ + 1]
      /\ held' \in {held, Null}
  BY DEF PinNode
<1>2. heap'.node = heap.node
  BY <1>1, AcquireFacts DEF IInv, Accounted
<1>3. Usable' \subseteq Usable
  BY <1>1, <1>2 DEF Usable, Pinned, Addresses, IInv
<1> QED
  BY <1>1, <1>2, <1>3, SameNodesDepth

LEMMA UnpinDepth ==
  ASSUME IInv, DepthInv, NEW n \in Addresses(heap), UnpinNode(n)
  PROVE  DepthInv'
<1>1. /\ heap' = Release(heap, n) /\ n \in Pinned /\ call' = call /\ held' = held
      /\ pins' = [pins EXCEPT ![n] = @ - 1]
  BY DEF UnpinNode, Pinned
<1>2. heap'.node = heap.node
  BY <1>1, PinnedIsProtected, ReleaseFacts DEF IInv, Accounted
<1>3. Usable' \subseteq Usable
  BY <1>1, <1>2 DEF Usable, Pinned, Addresses, IInv
<1> QED
  BY <1>1, <1>2, <1>3, SameNodesDepth

LEMMA NextDepth == IInv /\ DepthInv /\ [Next]_vars => DepthInv'
<1> SUFFICES ASSUME IInv, DepthInv, [Next]_vars PROVE DepthInv'
  OBVIOUS
<1>0. Pinned \subseteq Addresses(heap) /\ Usable \subseteq Addresses(heap)
  BY DEF IInv, HeldOK, Pinned, Usable, Null
<1>1. CASE CreateBottomNode
  BY <1>1, BottomDepth
<1>2. ASSUME NEW n \in Usable, NEW l \in Labels, CreateExtendNode(n, l)
      PROVE  DepthInv'
  BY <1>0, <1>2, ExtendDepth
<1>3. ASSUME NEW n1 \in Usable, NEW n2 \in Usable, CreateUnionNode(n1, n2)
      PROVE  DepthInv'
  BY <1>0, <1>3, UnionDepth
<1>4. ASSUME NEW n1 \in Usable, NEW n2 \in Usable, FirstIntermediateUnion(n1, n2)
      PROVE  DepthInv'
  BY <1>0, <1>4, FirstDepth
<1>5. CASE SecondIntermediateUnion
  BY <1>5, SecondDepth
<1>6. CASE UnionOfOutputAndIntermediate
  BY <1>6, ThirdDepth
<1>7. CASE ThrowMemoryLimit
  BY <1>7, ThrowDepth
<1>8. ASSUME NEW n \in Usable, PinNode(n)
      PROVE  DepthInv'
  BY <1>0, <1>8, PinDepth
<1>9. ASSUME NEW n \in Pinned, UnpinNode(n)
      PROVE  DepthInv'
  BY <1>0, <1>9, UnpinDepth
<1>10. CASE UNCHANGED vars
  BY <1>10, SameNodesDepth DEF vars, Usable, Pinned
<1> QED
  BY <1>1, <1>2, <1>3, <1>4, <1>5, <1>6, <1>7, <1>8, <1>9, <1>10 DEF Next

LEMMA DepthInvariance == Spec => []DepthInv
<1>1. Init => DepthInv
  BY DEF Init, EmptyHeap, Idle, Addresses, Usable, Pinned, DepthInv
<1> QED
  BY <1>1, NextDepth, Invariance, PTL DEF Spec

----------------------------------------------------------------------------
(***************************************************************************)
(* Every path down ends: as long as a node is in no layer, one of those    *)
(* has no child but in the layer below, since the graph has no cycle.      *)
(***************************************************************************)
LEMMA AllAreGrounded ==
  ASSUME IInv, HasBottom(heap)
  PROVE  Grounded(heap) = Addresses(heap)
<1> DEFINE N == Len(heap.node)
           A == Addresses(heap)
<1>1. A = 1..N /\ N \in Nat /\ IsFiniteSet(A) /\ Cardinality(A) = N
  BY AddressesAreCounted
<1>2. PICK layer : Grounded(heap) = layer[N] /\ Layered(heap, N, layer)
  BY <1>1, GroundedLayers
<1>3. \A S : Above(heap, S) \subseteq A
  BY DEF Above
<1>4. ASSUME NEW S \in SUBSET A, S # A
      PROVE  Above(heap, S) \ S # {}
  <2>1. PICK n \in A \ S : /\ heap.node[n].left \notin A \ S
                           /\ heap.node[n].right \notin A \ S
    <3>1. A \ S \in SUBSET A /\ A \ S # {}
      BY <1>4
    <3> QED
      BY <3>1 DEF HasBottom
  <2>2. n \in Above(heap, S)
    BY <2>1, NodesAreTyped DEF Above
  <2> QED
    BY <2>1, <2>2
<1> HIDE DEF A, N
<1>5. /\ layer[0] = {}
      /\ \A i \in 1..N : layer[i] = Above(heap, layer[i - 1])
      /\ \A i \in 1..N : layer[i - 1] \subseteq layer[i]
  <2>1. \A i \in 1..N : layer[i - 1] \subseteq layer[i]
    BY <1>1, <1>2, LayersGrow
  <2> QED
    BY <1>2, <2>1 DEF Layered
<1> DEFINE OK(i) == layer[i] \subseteq A /\ (layer[i] = A \/ Cardinality(layer[i]) >= i)
           T == {i \in 0..N : ~OK(i)}
<1>6. T = {}
  <2>1. SUFFICES ASSUME T # {} PROVE FALSE
    OBVIOUS
  <2>2. PICK k \in T : \A y \in T : ~(y < k)
    <3>1. T \subseteq Nat
      BY <1>1
    <3> HIDE DEF T
    <3> QED
      BY <2>1, <3>1, LeastNumber
  <2>3. k \in 0..N /\ ~OK(k)
    OBVIOUS
  <2>4. k # 0
    BY <1>5, <2>3, FS_EmptySet
  <2>5. k \in 1..N /\ k - 1 \in 0..N /\ k - 1 < k
    BY <1>1, <2>3, <2>4
  <2>6. OK(k - 1)
    BY <2>2, <2>5
  <2> DEFINE P == layer[k - 1]
             Q == layer[k]
  <2>7. /\ Q = Above(heap, P) /\ P \subseteq Q /\ Q \subseteq A
        /\ P = A \/ Cardinality(P) >= k - 1
    BY <1>3, <1>5, <2>5, <2>6
  <2>8. Q # A /\ ~(Cardinality(Q) >= k)
    BY <2>3, <2>7
  <2> HIDE DEF P, Q
  <2>9. P # A /\ P \subseteq A
    BY <2>7, <2>8
  <2>10. P # Q
    BY <1>4, <2>7, <2>9
  <2>11. /\ Cardinality(Q) \in Nat /\ Cardinality(P) \in Nat
         /\ Cardinality(P) < Cardinality(Q)
    <3>1. IsFiniteSet(P) /\ IsFiniteSet(Q)
      BY <1>1, <2>7, <2>9, FS_Subset
    <3>2. Cardinality(P) \in Nat /\ Cardinality(Q) \in Nat
      BY <3>1, FS_CardinalityType
    <3>3. Cardinality(P) <= Cardinality(Q) /\ Cardinality(P) # Cardinality(Q)
      BY <2>7, <2>10, <3>1, FS_Subset
    <3> QED
      BY <3>2, <3>3
  <2> QED
    BY <2>5, <2>7, <2>8, <2>9, <2>11
<1>7. layer[N] = A
  <2>1. N \in 0..N
    BY <1>1
  <2>2. OK(N)
    BY <1>6, <2>1
  <2>3. CASE Cardinality(layer[N]) >= N
    <3>1. Cardinality(layer[N]) \in Nat /\ IsFiniteSet(layer[N])
      BY <1>1, <2>2, FS_Subset, FS_CardinalityType
    <3> QED
      BY <1>1, <2>2, <2>3, <3>1, FS_Subset
  <2> QED
    BY <2>2, <2>3
<1> QED
  BY <1>2, <1>7 DEF A

----------------------------------------------------------------------------
(***************************************************************************)
(* The theorems.                                                           *)
(***************************************************************************)
\* No node is lost to recycling: one that nobody refers to is on the free list
\* or about to be used, until an allocation throws (node_manager.cpp,
\* decrease_ref_count and get_node_to_recycle).
THEOREM NothingIsLost == Spec => []NothingLeaks
<1>1. LooseIsInUse => NothingLeaks
  BY DEF LooseIsInUse, Loose, NothingLeaks
<1> QED
  BY <1>1, LooseInvariance, PTL

\* An allocation throws MemoryLimitExceededException over live nodes only: what
\* the client cannot reach has no source but in a node nobody refers to, since
\* the graph has no cycle, and every such node is on the free list, which is
\* empty when the limit is reached (node_manager.cpp, get_node_to_recycle).
THEOREM NoGarbageIsCounted == Spec => []NoGarbageAtLimit
<1>1. ASSUME IInv, LooseIsInUse, HasTop(heap),
             ExceedsLimit(heap), heap.dups <= MaxDuplications
      PROVE  Addresses(heap) = ReachableFrom(Roots)
  <2> DEFINE R == ReachableFrom(Roots)
             U == Addresses(heap) \ R
  <2>1. Roots \subseteq Addresses(heap)
    <3>1. InCall \subseteq Addresses(heap)
      <4>1. CASE call.stage = "idle"
        BY <1>1, <4>1 DEF InCall, IInv, CallOK
      <4>2. CASE call.stage # "idle"
        BY <1>1, <4>2, InProgress DEF InCall, Pinned
      <4> QED
        BY <4>1, <4>2
    <3> QED
      BY <1>1, <3>1 DEF Roots, Pinned, IInv, HeldOK
  <2>2. Roots \subseteq R /\ R \subseteq Addresses(heap) /\ Closed(R)
    BY <1>1, <2>1, ReachableIsClosed
  <2> HIDE DEF R
  <2>3. SUFFICES ASSUME U # {} PROVE FALSE
    BY <2>2 DEF R
  <2>4. PICK n \in U : \A p \in U : heap.node[p].left # n /\ heap.node[p].right # n
    <3>1. U \in SUBSET Addresses(heap)
      OBVIOUS
    <3> QED
      BY <1>1, <2>3, <3>1 DEF HasTop
  <2>5. n \in Addresses(heap) /\ n \notin R /\ n # Null
    BY <1>1, NullIsNoNode
  <2>6. \A p \in Addresses(heap) : heap.node[p].left # n /\ heap.node[p].right # n
    <3>1. \A p \in R : heap.node[p].left # n /\ heap.node[p].right # n
      BY <2>2, <2>5 DEF Closed, Children
    <3> QED
      BY <2>4, <3>1
  <2>7. heap.ref[n] = pins[n]
    <3>1. /\ Lefts(heap, Addresses(heap), n) = {}
          /\ Rights(heap, Addresses(heap), n) = {}
      BY <2>6 DEF Lefts, Rights
    <3>2. heap.ref[n] = Cardinality(Lefts(heap, Addresses(heap), n))
                        + Cardinality(Rights(heap, Addresses(heap), n)) + pins[n]
      BY <1>1, <2>5 DEF IInv, Accounted, Counted
    <3>3. pins[n] \in Nat
      BY <1>1, <2>5 DEF IInv, Accounted
    <3> QED
      BY <3>1, <3>2, <3>3, FS_EmptySet
  <2>8. n \notin Pinned
    BY <2>2, <2>5 DEF Roots
  <2>9. heap.ref[n] = 0
    <3>1. pins[n] \in Nat
      BY <1>1, <2>5 DEF IInv, Accounted
    <3> QED
      BY <2>5, <2>7, <2>8, <3>1 DEF Pinned
  <2>10. n \in Loose(heap)
    <3>1. Free(heap) = {}
      BY <1>1 DEF ExceedsLimit, Free
    <3> QED
      BY <2>5, <2>9, <3>1 DEF Loose
  <2>11. n \in {held, call.u}
    BY <1>1, <2>10 DEF LooseIsInUse
  <2>12. n \in Roots
    BY <2>5, <2>11 DEF Roots, InCall, Idle
  <2> QED
    BY <2>2, <2>5, <2>12
<1>2. IInv /\ LooseIsInUse /\ HasTop(heap) => NoGarbageAtLimit
  BY <1>1 DEF NoGarbageAtLimit
<1> QED
  BY <1>2, Invariance, LooseInvariance, NoCycle, PTL

\* Outputs can be enumerated with constant delay (ecs.hpp:20): however the
\* client extends and joins its nodes, an output is at most two left children
\* away from any node, and at most one from the nodes the client holds and
\* their right children (ecs.cpp, create_union_node).
THEOREM OutputsAreNear == Spec => []OutputDepthBounded
<1>1. DepthInv => OutputDepthBounded
  BY DEF DepthInv, Operand, OutputDepthBounded, OutputWithin1, OutputWithin2
<1> QED
  BY <1>1, DepthInvariance, PTL

\* What the enumeration asks of the graph it walks, and Enumerator.tla assumes,
\* holds whatever the client has built: whenever it asks, from any node, each
\* path down ends and an output is near (ecs.hpp:17-20).
THEOREM GraphIsEnumerable == Spec => []Enumerable(heap)
<1>1. IInv /\ DepthInv /\ HasBottom(heap) => Enumerable(heap)
  <2> SUFFICES ASSUME IInv, DepthInv, HasBottom(heap) PROVE Enumerable(heap)
    OBVIOUS
  <2>1. heap.node \in Seq(Node)
    BY DEF IInv, Accounted, WellFormed, Heap
  <2> QED
    BY <2>1, AllAreGrounded DEF DepthInv, Enumerable
<1> QED
  BY <1>1, Invariance, DepthInvariance, NoCycle, PTL

----------------------------------------------------------------------------
(***************************************************************************)
(* The refinement. The outputs of a node are a recursive function over a   *)
(* graph without a cycle: there is at most one such function, and each     *)
(* allocation turns the one there is into one for the new graph, which is  *)
(* why there is one at all.                                                *)
(***************************************************************************)
IsCollection(b) ==
  /\ b \in [DOMAIN b -> Nat \ {0}]
  /\ DOMAIN b \subseteq Seq(Labels \cup {NoLabel})

\* out gives each node its outputs.
Lists(h, out) ==
  /\ out = [n \in Addresses(h) |-> OutputsAt(h.node[n], out)]
  /\ \A n \in Addresses(h) : IsCollection(out[n])

LabelsExtend(h) ==
  \A n \in Addresses(h) : h.node[n].kind = "label" => h.node[n].left # Null

\* What the union in progress has joined so far.
CallLists ==
  LET out == OutputsOf(heap)
      rights == out[heap.node[call.n1].right] (+) out[heap.node[call.n2].right]
  IN  /\ call.stage = "second" => out[call.u] = rights
      /\ call.stage = "third" =>
           out[call.u] = out[heap.node[call.n2].left] (+) rights

ListInv ==
  /\ LabelsExtend(heap)
  /\ Lists(heap, OutputsOf(heap))
  /\ CallLists

----------------------------------------------------------------------------
(***************************************************************************)
(* Collections of outputs.                                                 *)
(***************************************************************************)
LEMMA BottomIsCollection == IsCollection(BottomOutputs)
BY DEF IsCollection, BottomOutputs, SetToBag

LEMMA ExtendIsCollection ==
  ASSUME NEW b, IsCollection(b), NEW l \in Labels \cup {NoLabel}
  PROVE  IsCollection(ExtendOutputs(b, l))
<1> DEFINE L == Labels \cup {NoLabel}
           D == {Append(p, l) : p \in DOMAIN b}
           e == [o \in D |-> b[SubSeq(o, 1, Len(o) - 1)]]
<1>1. ASSUME NEW p \in DOMAIN b
      PROVE  /\ Append(p, l) \in Seq(L)
             /\ SubSeq(Append(p, l), 1, Len(Append(p, l)) - 1) = p
  <2>1. p \in Seq(L) /\ l \in L
    BY DEF IsCollection
  <2> HIDE DEF L
  <2>2. Append(p, l) \in Seq(L) /\ Len(Append(p, l)) = Len(p) + 1 /\ Len(p) \in Nat
    BY <2>1
  <2>3. SubSeq(Append(p, l), 1, Len(p)) = p
    BY <2>1
  <2> QED
    BY <2>2, <2>3
<1> HIDE DEF L
<1>2. ASSUME NEW o \in D
      PROVE  e[o] \in Nat \ {0} /\ o \in Seq(L)
  <2>1. PICK p \in DOMAIN b : o = Append(p, l)
    OBVIOUS
  <2>2. SubSeq(o, 1, Len(o) - 1) = p /\ o \in Seq(L)
    BY <1>1, <2>1
  <2>3. e[o] = b[p]
    BY <2>2
  <2>4. b[p] \in Nat \ {0}
    BY DEF IsCollection
  <2> QED
    BY <2>2, <2>3, <2>4
<1>3. e \in [DOMAIN e -> Nat \ {0}] /\ DOMAIN e \subseteq Seq(L)
  BY <1>2
<1>4. ExtendOutputs(b, l) = e
  BY DEF ExtendOutputs
<1> HIDE DEF e
<1> QED
  BY <1>3, <1>4 DEF IsCollection, L

\* How often an output is in a collection.
Times(b, o) == IF o \in DOMAIN b THEN b[o] ELSE 0

LEMMA UnionIsCollection ==
  ASSUME NEW a, IsCollection(a), NEW b, IsCollection(b)
  PROVE  /\ IsCollection(a (+) b)
         /\ \A o : Times(a (+) b, o) = Times(a, o) + Times(b, o)
         /\ \A o : Times(a, o) \in Nat
<1> DEFINE c == [o \in DOMAIN a \cup DOMAIN b |-> Times(a, o) + Times(b, o)]
<1>1. a (+) b = c
  BY DEF (+), Times
<1>2. \A o : /\ Times(a, o) \in Nat /\ Times(b, o) \in Nat
             /\ o \in DOMAIN a <=> Times(a, o) # 0
             /\ o \in DOMAIN b <=> Times(b, o) # 0
  BY DEF IsCollection, Times
<1>3. \A o \in DOMAIN c : c[o] \in Nat \ {0}
  BY <1>2
<1>4. \A o : Times(c, o) = Times(a, o) + Times(b, o)
  BY <1>2 DEF Times
<1>5. IsCollection(c)
  BY <1>3 DEF IsCollection
<1> QED
  BY <1>1, <1>2, <1>4, <1>5

LEMMA SameCollection ==
  ASSUME NEW a, IsCollection(a), NEW b, IsCollection(b),
         \A o : Times(a, o) = Times(b, o)
  PROVE  a = b
<1>1. DOMAIN a = DOMAIN b
  BY DEF IsCollection, Times
<1>2. \A o \in DOMAIN a : a[o] = b[o]
  BY <1>1 DEF Times
<1> QED
  BY <1>1, <1>2 DEF IsCollection

\* The three allocations of a union of two non-output nodes take its operands
\* apart and put them together in another order.
AsAllocated(l1, r1, l2, r2) == l1 (+) (l2 (+) (r1 (+) r2))
AsAsked(l1, r1, l2, r2) == (l1 (+) r1) (+) (l2 (+) r2)

LEMMA UnionsRearrange ==
  ASSUME NEW l1, IsCollection(l1), NEW r1, IsCollection(r1),
         NEW l2, IsCollection(l2), NEW r2, IsCollection(r2)
  PROVE  AsAllocated(l1, r1, l2, r2) = AsAsked(l1, r1, l2, r2)
<1> DEFINE r == r1 (+) r2
           m == l2 (+) r
           p1 == l1 (+) r1
           p2 == l2 (+) r2
           a == l1 (+) m
           b == p1 (+) p2
<1>1. /\ IsCollection(r) /\ \A o : Times(r, o) = Times(r1, o) + Times(r2, o)
      /\ IsCollection(p1) /\ \A o : Times(p1, o) = Times(l1, o) + Times(r1, o)
      /\ IsCollection(p2) /\ \A o : Times(p2, o) = Times(l2, o) + Times(r2, o)
  BY UnionIsCollection, Zenon
<1> HIDE DEF r, p1, p2
<1>2. IsCollection(m) /\ \A o : Times(m, o) = Times(l2, o) + Times(r, o)
  <2>1. IsCollection(r)
    BY <1>1
  <2> QED
    BY <2>1, UnionIsCollection, Zenon
<1> HIDE DEF m
<1>3. /\ IsCollection(a) /\ \A o : Times(a, o) = Times(l1, o) + Times(m, o)
      /\ IsCollection(b) /\ \A o : Times(b, o) = Times(p1, o) + Times(p2, o)
  <2>1. IsCollection(m) /\ IsCollection(p1) /\ IsCollection(p2)
    BY <1>1, <1>2
  <2> QED
    BY <2>1, UnionIsCollection, Zenon
<1> HIDE DEF a, b
<1>4. \A o : /\ Times(l1, o) \in Nat /\ Times(r1, o) \in Nat
             /\ Times(l2, o) \in Nat /\ Times(r2, o) \in Nat
  BY UnionIsCollection, Zenon
<1>5. \A o : Times(a, o) = Times(b, o)
  BY <1>1, <1>2, <1>3, <1>4
<1>6. a = b
  BY <1>3, <1>5, SameCollection
<1> QED
  BY <1>6 DEF a, b, m, r, p1, p2, AsAllocated, AsAsked

----------------------------------------------------------------------------
(***************************************************************************)
(* The outputs of the nodes of a heap.                                     *)
(***************************************************************************)
LEMMA NodeIsTyped ==
  ASSUME NEW h, WellFormed(h), LabelsExtend(h), NEW n \in Addresses(h),
         NEW nd, nd = h.node[n]
  PROVE  /\ nd.kind \in {"bottom", "union", "label"}
         /\ nd.label \in Labels \cup {NoLabel}
         /\ nd.kind = "label" => nd.left \in Addresses(h)
         /\ nd.kind = "union" => nd.left \in Addresses(h) /\ nd.right \in Addresses(h)
<1>1. nd \in Node
  <2>1. h.node \in Seq(Node)
    BY DEF WellFormed, Heap
  <2> QED
    BY <2>1 DEF Addresses
<1> QED
  BY <1>1 DEF Node, Kinds, WellFormed, LabelsExtend

\* Only the outputs of its children matter to a node's.
LEMMA SameOutputs ==
  ASSUME NEW nd, nd.kind \in {"bottom", "union", "label"}, NEW f, NEW g,
         nd.kind = "label" => f[nd.left] = g[nd.left],
         nd.kind = "union" => f[nd.left] = g[nd.left] /\ f[nd.right] = g[nd.right]
  PROVE  OutputsAt(nd, f) = OutputsAt(nd, g)
<1>1. CASE nd.kind = "bottom"
  BY <1>1 DEF OutputsAt
<1>2. CASE nd.kind = "label"
  BY <1>2 DEF OutputsAt
<1>3. CASE nd.kind = "union"
  BY <1>3 DEF OutputsAt
<1> QED
  BY <1>1, <1>2, <1>3

\* Two listings that differ would differ at a node none of whose children is
\* one they differ at.
LEMMA ListingIsUnique ==
  ASSUME NEW h, WellFormed(h), LabelsExtend(h), HasBottom(h),
         NEW f, f = [n \in Addresses(h) |-> OutputsAt(h.node[n], f)],
         NEW g, g = [n \in Addresses(h) |-> OutputsAt(h.node[n], g)]
  PROVE  f = g
<1> DEFINE D == {n \in Addresses(h) : f[n] # g[n]}
<1>1. \A n \in Addresses(h) : f[n] = OutputsAt(h.node[n], f)
  BY Zenon
<1>2. \A n \in Addresses(h) : g[n] = OutputsAt(h.node[n], g)
  BY Zenon
<1>3. D = {}
  <2>1. SUFFICES ASSUME D # {} PROVE FALSE
    OBVIOUS
  <2>2. PICK n \in D : h.node[n].left \notin D /\ h.node[n].right \notin D
    <3>1. D \in SUBSET Addresses(h)
      OBVIOUS
    <3> HIDE DEF D
    <3> QED
      BY <2>1, <3>1 DEF HasBottom
  <2> DEFINE nd == h.node[n]
  <2>3. n \in Addresses(h) /\ f[n] # g[n]
    OBVIOUS
  <2>4. /\ nd.kind \in {"bottom", "union", "label"}
        /\ nd.kind = "label" => f[nd.left] = g[nd.left]
        /\ nd.kind = "union" => f[nd.left] = g[nd.left] /\ f[nd.right] = g[nd.right]
    BY <2>2, <2>3, NodeIsTyped
  <2> HIDE DEF nd
  <2>5. OutputsAt(nd, f) = OutputsAt(nd, g)
    BY <2>4, SameOutputs
  <2> QED
    BY <1>1, <1>2, <2>3, <2>5 DEF nd
<1>4. /\ f = [n \in Addresses(h) |-> f[n]]
      /\ g = [n \in Addresses(h) |-> g[n]]
  <2>1. ASSUME NEW e, e = [n \in Addresses(h) |-> OutputsAt(h.node[n], e)]
        PROVE  e = [n \in Addresses(h) |-> e[n]]
    <3>1. \A n \in Addresses(h) : e[n] = OutputsAt(h.node[n], e)
      BY <2>1, Zenon
    <3>2. [n \in Addresses(h) |-> OutputsAt(h.node[n], e)] = [n \in Addresses(h) |-> e[n]]
      BY <3>1, Zenon
    <3> QED
      BY <2>1, <3>2, Zenon
  <2> QED
    BY <2>1, Zenon
<1>5. [n \in Addresses(h) |-> f[n]] = [n \in Addresses(h) |-> g[n]]
  BY <1>3
<1> QED
  BY <1>4, <1>5, Zenon

\* The recursive definition does define the outputs of every node.
LEMMA OutputsAreListed ==
  ASSUME NEW h, WellFormed(h), LabelsExtend(h), HasBottom(h),
         NEW out, Lists(h, out)
  PROVE  OutputsOf(h) = out
<1> DEFINE Listing(f) == f = [n \in Addresses(h) |-> OutputsAt(h.node[n], f)]
<1>1. \E f : Listing(f)
  BY Zenon DEF Lists
<1>2. OutputsOf(h) = CHOOSE f : Listing(f)
  BY Zenon DEF OutputsOf
<1>3. Listing(OutputsOf(h))
  <2> HIDE DEF Listing
  <2> QED
    BY <1>1, <1>2, Zenon
<1>4. out = [n \in Addresses(h) |-> OutputsAt(h.node[n], out)]
  BY Zenon DEF Lists
<1>5. PICK f : f = OutputsOf(h)
  OBVIOUS
<1>6. f = [n \in Addresses(h) |-> OutputsAt(h.node[n], f)]
  BY <1>3, <1>5, Zenon
<1>7. f = out
  BY <1>4, <1>6, ListingIsUnique
<1> QED
  BY <1>5, <1>7

----------------------------------------------------------------------------
(***************************************************************************)
(* Each step keeps the outputs of the nodes that stay, and the client gets *)
(* a node whose outputs it may ask for.                                    *)
(***************************************************************************)
\* The listing of the new graph: the one there is, and the new node's outputs.
LEMMA BuildsList ==
  ASSUME IInv, LabelsExtend(heap), NEW m, OnlyBuilds(m), WellFormed(heap'),
         NEW nd, heap'.node[m] = nd, Passes(nd),
         nd.kind = "label" => nd.left # Null,
         NEW out, Lists(heap, out)
  PROVE  /\ LabelsExtend(heap')
         /\ \E new : /\ Lists(heap', new)
                     /\ new[m] = OutputsAt(nd, out)
                     /\ \A n \in Addresses(heap) \ {m} : new[n] = out[n]
<1> DEFINE A == Addresses(heap)
           B == Addresses(heap')
           new == [n \in B |-> IF n = m THEN OutputsAt(nd, out) ELSE out[n]]
<1>1. /\ B = A \cup {m}
      /\ \A n \in A \ {m} : /\ heap'.node[n] = heap.node[n]
                            /\ heap.node[n].left # m /\ heap.node[n].right # m
      /\ nd.left # m /\ nd.right # m
  BY DEF OnlyBuilds
<1>2. LabelsExtend(heap')
  BY <1>1 DEF LabelsExtend
<1>3. /\ new[m] = OutputsAt(nd, out)
      /\ \A n \in A \ {m} : new[n] = out[n]
      /\ new = [n \in B |-> new[n]]
  BY <1>1
<1> HIDE DEF new
<1>4. \A n \in A : out[n] = OutputsAt(heap.node[n], out) /\ IsCollection(out[n])
  BY Zenon DEF Lists
<1>5. /\ nd.kind \in {"bottom", "union", "label"}
      /\ nd.label \in Labels \cup {NoLabel}
      /\ nd.kind = "label" => nd.left \in A
      /\ nd.kind = "union" => nd.left \in A /\ nd.right \in A
  BY DEF Passes, Buildable, Node, Kinds
<1>6. ASSUME NEW n \in B
      PROVE  new[n] = OutputsAt(heap'.node[n], new) /\ IsCollection(new[n])
  <2>1. CASE n = m
    <3>1. OutputsAt(nd, new) = OutputsAt(nd, out)
      BY <1>1, <1>3, <1>5, SameOutputs
    <3>2. IsCollection(OutputsAt(nd, out))
      <4>1. CASE nd.kind = "bottom"
        BY <4>1, BottomIsCollection DEF OutputsAt
      <4>2. CASE nd.kind = "label"
        <5>1. IsCollection(ExtendOutputs(out[nd.left], nd.label))
          BY <1>4, <1>5, <4>2, ExtendIsCollection
        <5> QED
          BY <4>2, <5>1 DEF OutputsAt
      <4>3. CASE nd.kind = "union"
        <5>1. IsCollection(out[nd.left]) /\ IsCollection(out[nd.right])
          BY <1>4, <1>5, <4>3
        <5>2. IsCollection(out[nd.left] (+) out[nd.right])
          BY <5>1, UnionIsCollection, Zenon
        <5> QED
          BY <4>3, <5>2 DEF OutputsAt
      <4> QED
        BY <1>5, <4>1, <4>2, <4>3
    <3> QED
      BY <1>3, <2>1, <3>1, <3>2
  <2>2. CASE n # m
    <3> DEFINE old == heap.node[n]
    <3>1. n \in A \ {m} /\ heap'.node[n] = old /\ new[n] = out[n]
      BY <1>1, <1>3, <2>2
    <3>2. /\ old.kind \in {"bottom", "union", "label"}
          /\ old.kind = "label" => old.left \in A \ {m}
          /\ old.kind = "union" => old.left \in A \ {m} /\ old.right \in A \ {m}
      <4>1. WellFormed(heap)
        BY DEF IInv, Accounted
      <4> QED
        BY <1>1, <3>1, <4>1, NodeIsTyped
    <3> HIDE DEF old
    <3>3. OutputsAt(old, new) = OutputsAt(old, out)
      BY <1>3, <3>2, SameOutputs
    <3> QED
      BY <1>4, <3>1, <3>3 DEF old
  <2> QED
    BY <2>1, <2>2
<1>7. Lists(heap', new)
  <2>1. [n \in B |-> OutputsAt(heap'.node[n], new)] = [n \in B |-> new[n]]
    BY <1>6, Zenon
  <2> QED
    BY <1>3, <1>6, <2>1, Zenon DEF Lists
<1> QED
  BY <1>2, <1>3, <1>7

LEMMA AllocatesLists ==
  ASSUME IInv, HasBottom(heap), HasTop(heap), ListInv,
         NEW nd, Passes(nd), Allocates(nd), nd.kind = "label" => nd.left # Null,
         NEW m, m = AllocAddress(heap)
  PROVE  /\ LabelsExtend(heap') /\ Lists(heap', OutputsOf(heap'))
         /\ OutputsOf(heap')[m] = OutputsAt(nd, OutputsOf(heap))
         /\ \A n \in Addresses(heap) \ {m} : OutputsOf(heap')[n] = OutputsOf(heap)[n]
         /\ OnlyBuilds(m) /\ Pinned' \subseteq Pinned
         /\ m \notin Usable /\ m # Null
         /\ \A n : Protected(heap, pins, n) => n # m /\ n \in Addresses(heap)
<1>1. OnlyBuilds(m) /\ heap'.node[m] = nd /\ Pinned' \subseteq Pinned
  BY AllocatesBuilds DEF Passes
<1>2. WellFormed(heap') /\ m \in Addresses(heap')
  BY AllocatesFacts DEF Passes, Accounted, Places
<1>3. HasBottom(heap')
  BY <1>1, BuildsNoCycle
<1>4. PICK out : out = OutputsOf(heap)
  OBVIOUS
<1>5. LabelsExtend(heap) /\ Lists(heap, out)
  BY <1>4 DEF ListInv
<1>6. PICK new : /\ Lists(heap', new)
                 /\ new[m] = OutputsAt(nd, out)
                 /\ \A n \in Addresses(heap) \ {m} : new[n] = out[n]
  BY <1>1, <1>2, <1>5, BuildsList
<1>7. LabelsExtend(heap')
  BY <1>1, <1>2, <1>5, BuildsList
<1>8. OutputsOf(heap') = new
  BY <1>2, <1>3, <1>6, <1>7, OutputsAreListed
<1>9. \A n : Protected(heap, pins, n) => n # m /\ n \in Addresses(heap)
  BY <1>1 DEF Protected, OnlyBuilds
<1>10. m \notin Usable
  BY <1>9, UsableIsProtected
<1>11. m # Null
  BY <1>2, AddressesAreNat DEF WellFormed, Null
<1> QED
  BY <1>1, <1>4, <1>6, <1>7, <1>8, <1>9, <1>10, <1>11

RInv == IInv /\ HasBottom(heap) /\ HasTop(heap) /\ ListInv

\* The node returned is a new handle.
LEMMA ReturnsMaps ==
  ASSUME RInv, NEW nd, Passes(nd), Returns(nd), nd.kind = "label" => nd.left # Null,
         Abstract!Creatable(OutputsAt(nd, OutputsOf(heap)), Value)
  PROVE  ListInv' /\ Abstract!Next
<1> DEFINE m == AllocAddress(heap)
<1>1. Allocates(nd) /\ held' = m /\ call' = Idle
  BY DEF Returns
<1>2. /\ LabelsExtend(heap') /\ Lists(heap', OutputsOf(heap'))
      /\ OutputsOf(heap')[m] = OutputsAt(nd, OutputsOf(heap))
      /\ \A n \in Addresses(heap) \ {m} : OutputsOf(heap')[n] = OutputsOf(heap)[n]
      /\ Pinned' \subseteq Pinned
      /\ m \notin Usable /\ m # Null
      /\ \A n : Protected(heap, pins, n) => n # m /\ n \in Addresses(heap)
  BY <1>1, AllocatesLists DEF RInv
<1> HIDE DEF m
<1>3. ListInv'
  BY <1>1, <1>2 DEF ListInv, CallLists, Idle
<1>4. m \in Usable' /\ Usable' \subseteq Usable \cup {m}
  BY <1>1, <1>2 DEF Usable
<1>5. \A n \in Usable : n \in Addresses(heap) \ {m}
  BY <1>2, UsableIsProtected DEF RInv
<1>6. Value = [n \in Usable |-> OutputsOf(heap)[n]]
  BY DEF Value
<1>7. Value' = [n \in Usable' |-> OutputsOf(heap')[n]]
  BY DEF Value
<1>8. /\ m \in DOMAIN Value' \ DOMAIN Value
      /\ DOMAIN Value' \subseteq DOMAIN Value \cup {m}
      /\ Value'[m] = OutputsAt(nd, OutputsOf(heap))
      /\ \A k \in DOMAIN Value' \ {m} : Value'[k] = Value[k]
  BY <1>2, <1>4, <1>5, <1>6, <1>7
<1>9. Abstract!Create(Value, Value')
  BY <1>8 DEF Abstract!Create
<1> QED
  BY <1>3, <1>9 DEF Abstract!Next

\* An intermediate node is not a handle.
LEMMA IntermediateMaps ==
  ASSUME RInv, NEW nd, Passes(nd), Allocates(nd), nd.kind # "label",
         UNCHANGED held, CallLists'
  PROVE  ListInv' /\ Abstract!Next
<1> DEFINE m == AllocAddress(heap)
<1>1. /\ LabelsExtend(heap') /\ Lists(heap', OutputsOf(heap'))
      /\ \A n \in Addresses(heap) \ {m} : OutputsOf(heap')[n] = OutputsOf(heap)[n]
      /\ Pinned' \subseteq Pinned
      /\ \A n : Protected(heap, pins, n) => n # m /\ n \in Addresses(heap)
  BY AllocatesLists DEF RInv
<1> HIDE DEF m
<1>2. ListInv'
  BY <1>1 DEF ListInv
<1>3. Usable' \subseteq Usable
  BY <1>1 DEF Usable
<1>4. \A n \in Usable : n \in Addresses(heap) \ {m}
  BY <1>1, UsableIsProtected DEF RInv
<1>5. Value = [n \in Usable |-> OutputsOf(heap)[n]]
  BY DEF Value
<1>6. Value' = [n \in Usable' |-> OutputsOf(heap')[n]]
  BY DEF Value
<1>7. /\ DOMAIN Value' \subseteq DOMAIN Value
      /\ \A k \in DOMAIN Value' : Value'[k] = Value[k]
  BY <1>1, <1>3, <1>4, <1>5, <1>6
<1> QED
  BY <1>2, <1>7 DEF Abstract!LetGo, Abstract!Next

\* Nor is there one in a step that builds nothing.
LEMMA SameNodesMaps ==
  ASSUME RInv, heap'.node = heap.node, Usable' \subseteq Usable,
         call' = call \/ call' = Idle
  PROVE  ListInv' /\ Abstract!Next
<1>1. Addresses(heap') = Addresses(heap) /\ OutputsOf(heap') = OutputsOf(heap)
  BY Zenon DEF OutputsOf, Addresses
<1>2. LabelsExtend(heap')
  BY <1>1 DEF RInv, ListInv, LabelsExtend
<1>3. Lists(heap', OutputsOf(heap'))
  BY <1>1, Zenon DEF RInv, ListInv, Lists
<1>4. CallLists'
  BY <1>1 DEF RInv, ListInv, CallLists, Idle
<1>5. Value = [n \in Usable |-> OutputsOf(heap)[n]]
  BY DEF Value
<1>6. Value' = [n \in Usable' |-> OutputsOf(heap')[n]]
  BY DEF Value
<1>7. /\ DOMAIN Value' \subseteq DOMAIN Value
      /\ \A k \in DOMAIN Value' : Value'[k] = Value[k]
  BY <1>1, <1>5, <1>6
<1> QED
  BY <1>2, <1>3, <1>4, <1>7 DEF ListInv, Abstract!LetGo, Abstract!Next

\* The outputs of a non-output node the client holds.
LEMMA OperandOutputs ==
  ASSUME RInv, NEW n \in Pinned, ~IsOutput(heap, n),
         NEW out, out = OutputsOf(heap)
  PROVE  /\ out[n] = out[heap.node[n].left] (+) out[heap.node[n].right]
         /\ IsCollection(out[heap.node[n].left])
         /\ IsCollection(out[heap.node[n].right])
<1>1. /\ heap.node[n].left \in Addresses(heap)
      /\ heap.node[n].right \in Addresses(heap)
      /\ n \in Addresses(heap)
  BY ChildrenOfOperand DEF RInv, Pinned
<1>2. \A k \in Addresses(heap) :
        out[k] = OutputsAt(heap.node[k], out) /\ IsCollection(out[k])
  BY Zenon DEF RInv, ListInv, Lists
<1>3. heap.node[n].kind = "union"
  BY <1>1, NodeIsTyped DEF RInv, ListInv, IInv, Accounted, IsOutput
<1> QED
  BY <1>1, <1>2, <1>3 DEF OutputsAt

\* What a union of two handles may stand for.
LEMMA UnionIsCreatable ==
  ASSUME NEW n1 \in Usable, NEW n2 \in Usable
  PROVE  Abstract!Creatable(OutputsOf(heap)[n1] (+) OutputsOf(heap)[n2], Value)
<1>1. /\ n1 \in DOMAIN Value /\ OutputsOf(heap)[n1] = Value[n1]
      /\ n2 \in DOMAIN Value /\ OutputsOf(heap)[n2] = Value[n2]
  BY DEF Value
<1>2. \A a, b : a (+) b = Abstract!(+)(a, b)
  BY DEF (+), Abstract!(+)
<1> QED
  BY <1>1, <1>2 DEF Abstract!Creatable

LEMMA BottomMaps ==
  ASSUME RInv, CreateBottomNode
  PROVE  ListInv' /\ Abstract!Next
<1>1. BottomOutputs = Abstract!EmptyOutput
  BY DEF BottomOutputs, SetToBag, Abstract!EmptyOutput, Abstract!SetToBag
<1>2. Abstract!Creatable(OutputsAt(BottomNode, OutputsOf(heap)), Value)
  BY <1>1 DEF Abstract!Creatable, OutputsAt, BottomNode
<1>3. BottomNode.kind # "label"
  BY DEF BottomNode
<1> QED
  BY <1>2, <1>3, BottomPasses, ReturnsMaps DEF CreateBottomNode

LEMMA ExtendMaps ==
  ASSUME RInv, NEW n \in Usable, NEW l \in Labels, CreateExtendNode(n, l)
  PROVE  ListInv' /\ Abstract!Next
<1> DEFINE nd == LabelNode(n, l)
<1>1. Passes(nd) /\ n # Null
  BY UsableIsProtected, LabelPasses, NullIsNoNode DEF RInv, Protected
<1>2. n \in DOMAIN Value /\ Value[n] = OutputsOf(heap)[n]
  BY DEF Value
<1>3. ExtendOutputs(Value[n], l) = Abstract!ExtendBag(Value[n], l)
  BY DEF ExtendOutputs, Abstract!ExtendBag
<1>4. OutputsAt(nd, OutputsOf(heap)) = ExtendOutputs(OutputsOf(heap)[n], l)
  BY DEF OutputsAt, LabelNode
<1>5. Abstract!Creatable(OutputsAt(nd, OutputsOf(heap)), Value)
  BY <1>2, <1>3, <1>4 DEF Abstract!Creatable
<1>6. nd.left # Null
  BY <1>1 DEF LabelNode
<1>7. Returns(nd)
  BY DEF CreateExtendNode
<1> HIDE DEF nd
<1> QED
  BY <1>1, <1>5, <1>6, <1>7, ReturnsMaps

LEMMA UnionMaps ==
  ASSUME RInv, NEW n1 \in Usable, NEW n2 \in Usable, CreateUnionNode(n1, n2)
  PROVE  ListInv' /\ Abstract!Next
<1>1. ASSUME NEW a \in Usable, NEW b \in Usable, Returns(UnionNode(a, b))
      PROVE  ListInv' /\ Abstract!Next
  <2> DEFINE nd == UnionNode(a, b)
  <2>1. Passes(nd)
    BY UsableIsProtected, UnionPasses DEF RInv
  <2>2. /\ OutputsAt(nd, OutputsOf(heap)) = OutputsOf(heap)[a] (+) OutputsOf(heap)[b]
        /\ nd.kind # "label"
    BY DEF OutputsAt, UnionNode
  <2>3. Abstract!Creatable(OutputsAt(nd, OutputsOf(heap)), Value)
    BY <2>2, UnionIsCreatable
  <2>4. Returns(nd)
    BY <1>1
  <2> HIDE DEF nd
  <2> QED
    BY <2>1, <2>2, <2>3, <2>4, ReturnsMaps
<1> QED
  BY <1>1 DEF CreateUnionNode, UnionOfOutput

LEMMA FirstMaps ==
  ASSUME RInv, NEW n1 \in Usable, NEW n2 \in Usable, FirstIntermediateUnion(n1, n2)
  PROVE  ListInv' /\ Abstract!Next
<1> DEFINE a == heap.node[n1].right
           b == heap.node[n2].right
           nd == UnionNode(a, b)
           m == AllocAddress(heap)
<1>1. /\ n1 \in Pinned /\ ~IsOutput(heap, n1)
      /\ n2 \in Pinned /\ ~IsOutput(heap, n2)
      /\ Allocates(nd) /\ UNCHANGED held
      /\ call' = [stage |-> "second", n1 |-> n1, n2 |-> n2, u |-> m]
  BY DEF FirstIntermediateUnion
<1>2. /\ a \in Addresses(heap) /\ Protected(heap, pins, a)
      /\ b \in Addresses(heap) /\ Protected(heap, pins, b)
  BY <1>1, ChildrenOfOperand DEF RInv
<1>3. Passes(nd)
  BY <1>2, UnionPasses DEF RInv
<1>4. /\ OutputsAt(nd, OutputsOf(heap)) = OutputsOf(heap)[a] (+) OutputsOf(heap)[b]
      /\ nd.kind # "label"
  BY DEF OutputsAt, UnionNode
<1> HIDE DEF nd, m
<1>5. /\ OutputsOf(heap')[m] = OutputsAt(nd, OutputsOf(heap))
      /\ \A n \in Addresses(heap) \ {m} : OutputsOf(heap')[n] = OutputsOf(heap)[n]
      /\ OnlyBuilds(m)
      /\ \A n : Protected(heap, pins, n) => n # m /\ n \in Addresses(heap)
  BY <1>1, <1>3, <1>4, AllocatesLists DEF RInv, m
<1>6. /\ heap'.node[n1] = heap.node[n1] /\ heap'.node[n2] = heap.node[n2]
      /\ OutputsOf(heap')[a] = OutputsOf(heap)[a]
      /\ OutputsOf(heap')[b] = OutputsOf(heap)[b]
  BY <1>1, <1>2, <1>5, PinnedIsProtected DEF OnlyBuilds, RInv
<1>7. CallLists'
  <2>1. /\ call'.stage = "second" /\ call'.u = m
        /\ heap'.node[call'.n1].right = a /\ heap'.node[call'.n2].right = b
    BY <1>1, <1>6
  <2>2. OutputsOf(heap')[m] = OutputsOf(heap')[a] (+) OutputsOf(heap')[b]
    BY <1>4, <1>5, <1>6
  <2> HIDE DEF a, b
  <2> QED
    BY <2>1, <2>2 DEF CallLists
<1> QED
  BY <1>1, <1>3, <1>4, <1>7, IntermediateMaps

LEMMA SecondMaps ==
  ASSUME RInv, SecondIntermediateUnion
  PROVE  ListInv' /\ Abstract!Next
<1> DEFINE n1 == call.n1
           n2 == call.n2
           r1 == heap.node[n1].right
           r2 == heap.node[n2].right
           a == heap.node[n2].left
           u == call.u
           nd == UnionNode(a, u)
           m == AllocAddress(heap)
<1>1. /\ call.stage = "second" /\ call \in Calls
      /\ Allocates(nd) /\ UNCHANGED held
      /\ call' = [call EXCEPT !.stage = "third", !.u = m]
  BY DEF SecondIntermediateUnion, RInv, IInv, CallOK
<1>2. call'.stage = "third" /\ call'.n1 = n1 /\ call'.n2 = n2 /\ call'.u = m
  BY <1>1 DEF Calls
<1>3. /\ n1 \in Pinned /\ ~IsOutput(heap, n1)
      /\ n2 \in Pinned /\ ~IsOutput(heap, n2)
      /\ Protected(heap, pins, u)
  BY <1>1, InProgress DEF RInv
<1>4. Protected(heap, pins, a) /\ Protected(heap, pins, r1) /\ Protected(heap, pins, r2)
  BY <1>3, ChildrenOfOperand DEF RInv
<1>5. Passes(nd)
  BY <1>3, <1>4, UnionPasses DEF RInv
<1>6. /\ OutputsAt(nd, OutputsOf(heap)) = OutputsOf(heap)[a] (+) OutputsOf(heap)[u]
      /\ nd.kind # "label"
  BY DEF OutputsAt, UnionNode
<1>7. OutputsOf(heap)[u] = OutputsOf(heap)[r1] (+) OutputsOf(heap)[r2]
  BY <1>1 DEF RInv, ListInv, CallLists
<1> HIDE DEF nd, m
<1>8. /\ OutputsOf(heap')[m] = OutputsAt(nd, OutputsOf(heap))
      /\ \A n \in Addresses(heap) \ {m} : OutputsOf(heap')[n] = OutputsOf(heap)[n]
      /\ OnlyBuilds(m)
      /\ \A n : Protected(heap, pins, n) => n # m /\ n \in Addresses(heap)
  BY <1>1, <1>5, <1>6, AllocatesLists DEF RInv, m
<1>9. /\ heap'.node[n1] = heap.node[n1] /\ heap'.node[n2] = heap.node[n2]
      /\ OutputsOf(heap')[a] = OutputsOf(heap)[a]
      /\ OutputsOf(heap')[r1] = OutputsOf(heap)[r1]
      /\ OutputsOf(heap')[r2] = OutputsOf(heap)[r2]
  <2>1. /\ n1 \in Addresses(heap) \ {m} /\ n2 \in Addresses(heap) \ {m}
        /\ a \in Addresses(heap) \ {m}
        /\ r1 \in Addresses(heap) \ {m} /\ r2 \in Addresses(heap) \ {m}
    BY <1>3, <1>4, <1>8, PinnedIsProtected DEF RInv
  <2> HIDE DEF n1, n2, a, r1, r2
  <2> QED
    BY <1>8, <2>1 DEF OnlyBuilds
<1>10. CallLists'
  <2>1. /\ heap'.node[call'.n1].right = r1 /\ heap'.node[call'.n2].right = r2
        /\ heap'.node[call'.n2].left = a
    BY <1>2, <1>9
  <2>2. OutputsOf(heap')[m] = OutputsOf(heap')[a] (+) (OutputsOf(heap')[r1] (+) OutputsOf(heap')[r2])
    BY <1>6, <1>7, <1>8, <1>9
  <2> HIDE DEF n1, n2, a, r1, r2
  <2> QED
    BY <1>2, <2>1, <2>2 DEF CallLists
<1> QED
  BY <1>1, <1>5, <1>6, <1>10, IntermediateMaps

\* The result lists what its operands list, joined in another order.
LEMMA ThirdMaps ==
  ASSUME RInv, UnionOfOutputAndIntermediate
  PROVE  ListInv' /\ Abstract!Next
<1> DEFINE n1 == call.n1
           n2 == call.n2
           a == heap.node[n1].left
           u == call.u
           nd == UnionNode(a, u)
<1>1. call.stage = "third" /\ Returns(nd)
  BY DEF UnionOfOutputAndIntermediate
<1>2. /\ n1 \in Pinned /\ ~IsOutput(heap, n1)
      /\ n2 \in Pinned /\ ~IsOutput(heap, n2)
      /\ Protected(heap, pins, u)
  BY <1>1, InProgress DEF RInv
<1>3. Protected(heap, pins, a)
  BY <1>2, ChildrenOfOperand DEF RInv
<1>4. Passes(nd)
  BY <1>2, <1>3, UnionPasses DEF RInv
<1> DEFINE out == OutputsOf(heap)
           l1 == out[a]
           r1 == out[heap.node[n1].right]
           l2 == out[heap.node[n2].left]
           r2 == out[heap.node[n2].right]
<1>5. OutputsAt(nd, out) = l1 (+) out[u] /\ nd.kind # "label"
  BY DEF OutputsAt, UnionNode
<1>6. out[u] = l2 (+) (r1 (+) r2)
  BY <1>1 DEF RInv, ListInv, CallLists
<1>7. /\ out[n1] = l1 (+) r1 /\ IsCollection(l1) /\ IsCollection(r1)
      /\ out[n2] = l2 (+) r2 /\ IsCollection(l2) /\ IsCollection(r2)
  BY <1>2, OperandOutputs
<1>8. OutputsAt(nd, out) = out[n1] (+) out[n2]
  <2>1. l1 (+) (l2 (+) (r1 (+) r2)) = (l1 (+) r1) (+) (l2 (+) r2)
    <3> HIDE DEF l1, r1, l2, r2
    <3>1. IsCollection(l1) /\ IsCollection(r1) /\ IsCollection(l2) /\ IsCollection(r2)
      BY <1>7
    <3>2. AsAllocated(l1, r1, l2, r2) = AsAsked(l1, r1, l2, r2)
      BY <3>1, UnionsRearrange
    <3> QED
      BY <3>2 DEF AsAllocated, AsAsked
  <2> HIDE DEF nd, l1, r1, l2, r2, out
  <2> QED
    BY <1>5, <1>6, <1>7, <2>1
<1>9. Abstract!Creatable(OutputsAt(nd, OutputsOf(heap)), Value)
  <2>1. n1 \in Usable /\ n2 \in Usable
    BY <1>2 DEF Usable
  <2> HIDE DEF nd
  <2> QED
    BY <1>8, <2>1, UnionIsCreatable
<1> HIDE DEF nd
<1> QED
  BY <1>1, <1>4, <1>5, <1>9, ReturnsMaps

LEMMA ThrowMaps ==
  ASSUME RInv, ThrowMemoryLimit
  PROVE  ListInv' /\ Abstract!Next
<1>1. heap' = LimitExceeded(heap) /\ heap \in Heap
  BY DEF ThrowMemoryLimit, RInv, IInv, Accounted, WellFormed
<1>2. heap'.node = heap.node
  BY <1>1 DEF LimitExceeded, Heap
<1>3. Usable' \subseteq Usable
  BY <1>2 DEF ThrowMemoryLimit, Usable, Pinned, Addresses
<1> QED
  BY <1>2, <1>3, SameNodesMaps DEF ThrowMemoryLimit

LEMMA PinMaps ==
  ASSUME RInv, NEW n \in Usable, PinNode(n)
  PROVE  ListInv' /\ Abstract!Next
<1>1. /\ heap' = Acquire(heap, n) /\ n \in Addresses(heap) /\ call' = call
      /\ pins' = [pins EXCEPT ![n] = @ + 1]
      /\ held' \in {held, Null}
  BY UsableIsProtected DEF PinNode, Protected, RInv
<1>2. heap'.node = heap.node
  BY <1>1, AcquireFacts DEF RInv, IInv, Accounted
<1>3. Usable' \subseteq Usable
  BY <1>1, <1>2 DEF Usable, Pinned, Addresses, RInv, IInv
<1> QED
  BY <1>1, <1>2, <1>3, SameNodesMaps

LEMMA UnpinMaps ==
  ASSUME RInv, NEW n \in Pinned, UnpinNode(n)
  PROVE  ListInv' /\ Abstract!Next
<1>1. /\ heap' = Release(heap, n) /\ call' = call /\ held' = held
      /\ pins' = [pins EXCEPT ![n] = @ - 1] /\ n \in Addresses(heap)
  BY DEF UnpinNode, Pinned
<1>2. heap'.node = heap.node
  BY <1>1, PinnedIsProtected, ReleaseFacts DEF RInv, IInv, Accounted
<1>3. Usable' \subseteq Usable
  BY <1>1, <1>2 DEF Usable, Pinned, Addresses, RInv, IInv
<1> QED
  BY <1>1, <1>2, <1>3, SameNodesMaps

LEMMA NextMaps ==
  ASSUME RInv, [Next]_vars
  PROVE  ListInv' /\ [Abstract!Next]_Value
<1>1. CASE CreateBottomNode
  BY <1>1, BottomMaps
<1>2. ASSUME NEW n \in Usable, NEW l \in Labels, CreateExtendNode(n, l)
      PROVE  ListInv' /\ Abstract!Next
  BY <1>2, ExtendMaps
<1>3. ASSUME NEW n1 \in Usable, NEW n2 \in Usable, CreateUnionNode(n1, n2)
      PROVE  ListInv' /\ Abstract!Next
  BY <1>3, UnionMaps
<1>4. ASSUME NEW n1 \in Usable, NEW n2 \in Usable, FirstIntermediateUnion(n1, n2)
      PROVE  ListInv' /\ Abstract!Next
  BY <1>4, FirstMaps
<1>5. CASE SecondIntermediateUnion
  BY <1>5, SecondMaps
<1>6. CASE UnionOfOutputAndIntermediate
  BY <1>6, ThirdMaps
<1>7. CASE ThrowMemoryLimit
  BY <1>7, ThrowMaps
<1>8. ASSUME NEW n \in Usable, PinNode(n)
      PROVE  ListInv' /\ Abstract!Next
  BY <1>8, PinMaps
<1>9. ASSUME NEW n \in Pinned, UnpinNode(n)
      PROVE  ListInv' /\ Abstract!Next
  BY <1>9, UnpinMaps
<1>10. CASE UNCHANGED vars
  BY <1>10, SameNodesMaps DEF vars, Usable, Pinned
<1> QED
  BY <1>1, <1>2, <1>3, <1>4, <1>5, <1>6, <1>7, <1>8, <1>9, <1>10 DEF Next

LEMMA InitMaps == Init => ListInv /\ Abstract!Init
<1> SUFFICES ASSUME Init PROVE ListInv /\ Abstract!Init
  OBVIOUS
<1> DEFINE out == [n \in Addresses(heap) |-> BottomOutputs]
<1>1. Addresses(heap) = {} /\ held = Null /\ call.stage = "idle"
  BY DEF Init, EmptyHeap, Addresses, Idle
<1>2. WellFormed(heap)
  BY InitIInv DEF IInv, Accounted
<1>3. HasBottom(heap) /\ LabelsExtend(heap)
  BY <1>1 DEF HasBottom, LabelsExtend
<1>4. Lists(heap, out)
  <2>1. out = [n \in Addresses(heap) |-> OutputsAt(heap.node[n], out)]
    BY <1>1
  <2> HIDE DEF out
  <2> QED
    BY <1>1, <2>1, Zenon DEF Lists
<1> HIDE DEF out
<1>5. OutputsOf(heap) = out
  BY <1>2, <1>3, <1>4, OutputsAreListed
<1>6. ListInv
  BY <1>1, <1>3, <1>4, <1>5 DEF ListInv, CallLists
<1>7. Value = Abstract!NoHandles
  <2>1. Usable = {}
    BY <1>1 DEF Usable, Pinned
  <2> QED
    BY <2>1 DEF Value, Abstract!NoHandles
<1> QED
  BY <1>6, <1>7 DEF Abstract!Init

----------------------------------------------------------------------------
(***************************************************************************)
(* The theorem.                                                            *)
(***************************************************************************)
\* A handle stands for the outputs it was built to stand for as long as the
\* client holds it, whatever is created, released and recycled meanwhile
\* (ecs.cpp; node_manager.cpp, alloc).
THEOREM ECSImplementsOutputSets == Spec => ImplementsOutputSets
<1>1. Spec => []RInv
  <2>1. Init => ListInv
    BY InitMaps
  <2>2. ListInv /\ (IInv /\ HasBottom(heap) /\ HasTop(heap)) /\ [Next]_vars => ListInv'
    BY NextMaps DEF RInv
  <2> QED
    BY <2>1, <2>2, Invariance, NoCycle, PTL DEF Spec, RInv
<1>2. Init => Abstract!Init
  BY InitMaps
<1>3. RInv /\ [Next]_vars => [Abstract!Next]_Value
  BY NextMaps
<1> QED
  BY <1>1, <1>2, <1>3, PTL DEF Spec, ImplementsOutputSets, Abstract!Spec
=============================================================================
