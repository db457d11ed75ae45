-------------------------------- MODULE ECS --------------------------------
(***************************************************************************)
(* The Enumerable Compact Set: a graph of nodes that stands for sets of    *)
(* outputs, built bottom-up by the evaluation algorithms and kept alive by *)
(* pinning the nodes they still need.                                      *)
(*                                                                         *)
(* The client is any code that follows the protocol of ecs.hpp: it passes  *)
(* only nodes that it has pinned or has just been given, and it pins what  *)
(* it has been given, or uses it as an operand, before it asks for more.   *)
(***************************************************************************)
EXTENDS NodeManager, FiniteSets

CONSTANTS
  MaxPins,   \* bound: pins the client holds on one node at a time
  MaxPinned, \* bound: nodes the client holds pinned at a time
  MaxRecycled  \* bound: nodes recycled in a behaviour

ASSUME MaxPinsAssumption == MaxPins \in Nat \ {0}
ASSUME MaxPinnedAssumption == MaxPinned \in Nat \ {0}
ASSUME MaxRecycledAssumption == MaxRecycled \in Nat

VARIABLES
  heap,  \* the nodes and the memory manager's state
  pins,  \* pins[n]: how many times the client holds node n pinned
  held,  \* the node last returned to the client and not pinned yet, or Null
  call   \* progress of a union of two non-output nodes

vars == <<heap, pins, held, call>>

Idle == [stage |-> "idle", n1 |-> Null, n2 |-> Null, u |-> Null]
Calls == [stage : {"idle", "second", "third"}, n1 : Nat, n2 : Nat, u : Nat]

Init ==
  /\ heap = EmptyHeap
  /\ pins = << >>
  /\ held = Null
  /\ call = Idle

----------------------------------------------------------------------------
(***************************************************************************)
(* The client's operands.                                                  *)
(***************************************************************************)
Pinned == {n \in Addresses(heap) : pins[n] > 0}
Usable == Pinned \cup ({held} \ {Null})

\* No node just returned is forgotten: it is an operand of this call.
Consumes(operands) == call = Idle /\ held \in operands \cup {Null}

PinsFor(h) == [n \in Addresses(h) |-> IF n \in DOMAIN pins THEN pins[n] ELSE 0]

(***************************************************************************)
(* One allocation that returns to the client, and one that goes on to      *)
(* another stage of the call.                                              *)
(***************************************************************************)
Allocates(nd) ==
  /\ ~ExceedsLimit(heap)
  /\ Recycles(heap) => heap.recycled < MaxRecycled
  /\ heap' = Alloc(heap, nd)
  /\ pins' = PinsFor(heap')

Returns(nd) ==
  /\ Allocates(nd)
  /\ held' = AllocAddress(heap)
  /\ call' = Idle

\* Each algorithm creates its bottom node once, in its constructor.
CreateBottomNode ==
  /\ Addresses(heap) = {}
  /\ Returns(BottomNode)

CreateExtendNode(n, l) ==
  /\ n \in Usable
  /\ Consumes({n})
  /\ Returns(LabelNode(n, l))

\* One operand is an output node: it becomes the left child. Mutant: the first
\* operand becomes the left child.
UnionOfOutput_Unordered(n1, n2) == UnionNode(n1, n2)
UnionOfOutput(n1, n2) ==
  IF IsOutput(heap, n1) THEN UnionNode(n1, n2) ELSE UnionNode(n2, n1)

CreateUnionNode(n1, n2) ==
  /\ {n1, n2} \subseteq Usable /\ n1 # n2
  /\ Consumes({n1, n2})
  /\ IsOutput(heap, n1) \/ IsOutput(heap, n2)
  /\ Returns(UnionOfOutput(n1, n2))

(***************************************************************************)
(* A union of two non-output nodes takes three allocations: u1 joins the   *)
(* right children, u2 puts the left child of n2 in front of u1, and the    *)
(* result puts the left child of n1 in front of u2. No reference to n1 or  *)
(* n2 themselves is kept, so the client passes pinned nodes only: one just *)
(* returned would never be recycled.                                       *)
(***************************************************************************)
FirstIntermediateUnion(n1, n2) ==
  /\ {n1, n2} \subseteq Pinned /\ n1 # n2
  /\ Consumes({})
  /\ ~IsOutput(heap, n1) /\ ~IsOutput(heap, n2)
  /\ Allocates(UnionNode(heap.node[n1].right, heap.node[n2].right))
  /\ call' = [stage |-> "second", n1 |-> n1, n2 |-> n2, u |-> AllocAddress(heap)]
  /\ UNCHANGED held

\* Mutant: the left child of n1 is taken twice, that of n2 never.
SecondIntermediateUnion_WrongLeft ==
  /\ call.stage = "second"
  /\ Allocates(UnionNode(heap.node[call.n1].left, call.u))
  /\ call' = [call EXCEPT !.stage = "third", !.u = AllocAddress(heap)]
  /\ UNCHANGED held
SecondIntermediateUnion ==
  /\ call.stage = "second"
  /\ Allocates(UnionNode(heap.node[call.n2].left, call.u))
  /\ call' = [call EXCEPT !.stage = "third", !.u = AllocAddress(heap)]
  /\ UNCHANGED held

UnionOfOutputAndIntermediate ==
  /\ call.stage = "third"
  /\ Returns(UnionNode(heap.node[call.n1].left, call.u))

(***************************************************************************)
(* Any of those allocations may throw MemoryLimitExceededException. What   *)
(* the call had built, and the operand that was not pinned, are lost.      *)
(***************************************************************************)
ThrowMemoryLimit ==
  /\ ExceedsLimit(heap)
  /\ heap' = LimitExceeded(heap)
  /\ held' = Null
  /\ call' = Idle
  /\ UNCHANGED pins

----------------------------------------------------------------------------
PinNode(n) ==
  /\ call = Idle
  /\ n \in Usable
  /\ pins[n] < MaxPins
  /\ Cardinality(Pinned \cup {n}) <= MaxPinned
  /\ heap' = Acquire(heap, n)
  /\ pins' = [pins EXCEPT ![n] = @ + 1]
  /\ held' = IF n = held THEN Null ELSE held
  /\ UNCHANGED call

UnpinNode(n) ==
  /\ call = Idle
  /\ n \in Addresses(heap)
  /\ pins[n] > 0
  /\ heap' = Release(heap, n)
  /\ pins' = [pins EXCEPT ![n] = @ - 1]
  /\ UNCHANGED <<held, call>>

Next ==
  \/ CreateBottomNode
  \/ \E n \in Usable, l \in Labels : CreateExtendNode(n, l)
  \/ \E n1, n2 \in Usable : CreateUnionNode(n1, n2)
  \/ \E n1, n2 \in Usable : FirstIntermediateUnion(n1, n2)
  \/ SecondIntermediateUnion
  \/ UnionOfOutputAndIntermediate
  \/ ThrowMemoryLimit
  \/ \E n \in Usable : PinNode(n)
  \/ \E n \in Pinned : UnpinNode(n)

Spec == Init /\ [][Next]_vars

----------------------------------------------------------------------------
(***************************************************************************)
(* Properties.                                                             *)
(***************************************************************************)
LeftParents(h, n) == {p \in Addresses(h) : h.node[p].left = n}
RightParents(h, n) == {p \in Addresses(h) : h.node[p].right = n}
Children(n) == {heap.node[n].left, heap.node[n].right} \ {Null}

\* The nodes the client or a call in progress may still follow.
InCall == IF call = Idle THEN {} ELSE {call.n1, call.n2, call.u}
Roots == (Pinned \cup {held} \cup InCall) \ {Null}

TypeOK ==
  /\ heap \in Heap
  /\ DOMAIN heap.ref = Addresses(heap)
  /\ pins \in [Addresses(heap) -> 0..MaxPins]
  /\ held \in Addresses(heap) \cup {Null}
  /\ call \in Calls

\* A node's count is the number of references to it: from its parents, the
\* ones on the free list included, since a parent gives its children up only
\* when it is recycled, and from the client's pins (ecs_node.cpp, Release).
RefCountExact ==
  \A n \in Addresses(heap) :
    heap.ref[n] = Cardinality(LeftParents(heap, n))
                       + Cardinality(RightParents(heap, n)) + pins[n]

\* The free list holds no node twice, and only nodes nobody refers to.
FreeListSound ==
  /\ \A i, j \in DOMAIN heap.free : heap.free[i] = heap.free[j] => i = j
  /\ \A n \in Free(heap) : n \in Addresses(heap) /\ heap.ref[n] = 0

\* No node is lost to recycling: one that nobody refers to is on the free
\* list, or is about to be used, unless an allocation has thrown.
NothingLeaks ==
  heap.dups <= MaxDuplications =>
    \A n \in Addresses(heap) :
      heap.ref[n] = 0 => n \in Free(heap) \cup {held, call.u}

\* "Garbage collector doesn't recycle nodes that are being used"
\* (tests/output_enumeration/garbage_collector.cpp): what the client holds is
\* not on the free list, nor is anything that can be reached from it, because
\* no node outside the list has a child on it.
LiveNodesAreNotFree ==
  /\ Roots \cap Free(heap) = {}
  /\ \A n \in Addresses(heap) \ Free(heap) : Children(n) \cap Free(heap) = {}

\* From any node, at most two left children away there is an output node, and
\* from a node the client holds, and its right child, at most one: "outputs can
\* be enumerated with constant delay" (ecs.hpp:20). The first intermediate
\* union of two non-output nodes is the one that needs two.
OutputDepthBounded ==
  /\ \A n \in Addresses(heap) : OutputWithin2(heap, n)
  /\ \A n \in Usable : /\ OutputWithin1(heap, n)
                       /\ IsOutput(heap, n) \/ OutputWithin1(heap, heap.node[n].right)

\* The graph below a node that is not free never changes under it: only a node
\* of the free list is ever rewritten.
LiveNodesAreFrozen ==
  [][\A n \in Addresses(heap) \ Free(heap) :
        heap'.node[n] = heap.node[n]]_vars

\* MemoryLimitExceededException is never thrown over garbage: when the next
\* allocation would throw, everything ever allocated can be reached from what
\* the client holds. The free list is empty then, but a node joins it only when
\* its last parent is recycled, so this is not the same thing.
ReachableFrom(S) ==
  LET reach[i \in 0..Len(heap.node)] ==
        IF i = 0 THEN S
        ELSE LET r == reach[i - 1] IN r \cup UNION {Children(n) : n \in r}
  IN  reach[Len(heap.node)]

NoGarbageAtLimit ==
  ExceedsLimit(heap) /\ heap.dups <= MaxDuplications =>
    Addresses(heap) = ReachableFrom(Roots)
=============================================================================
