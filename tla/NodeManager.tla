---------------------------- MODULE NodeManager ----------------------------
(***************************************************************************)
(* The memory manager of the Enumerable Compact Set: nodes live in a chain *)
(* of pools, each twice as large as the one before it, and a node whose    *)
(* reference count drops to zero joins a free list from which it is        *)
(* recycled once the current pool is full.                                 *)
(*                                                                         *)
(* This module has no variable. A heap is a record, and each method of     *)
(* NodeManager and ECSNode is an operator from a heap to the heap it       *)
(* leaves, so that the modules that own a heap (ECS, and the evaluation    *)
(* algorithms) compose them in the order the code calls them.              *)
(*                                                                         *)
(* A node's address is its position in the order of first allocation.      *)
(***************************************************************************)
EXTENDS Integers, Sequences

CONSTANTS
  Labels,          \* what a label node carries: variable markers, position
  NoLabel,         \* the label of a node that carries none
  StartingSize,    \* capacity of the first pool
  MaxDuplications  \* how many times the pool may be doubled

ASSUME NoLabelAssumption == NoLabel \notin Labels
ASSUME StartingSizeAssumption == StartingSize \in Nat \ {0}
ASSUME MaxDuplicationsAssumption == MaxDuplications \in Nat

Null == 0
Kinds == {"bottom", "union", "label"}

(***************************************************************************)
(* A label node keeps its position in the storage a union node uses for    *)
(* its right child, so a label node's right child is always Null here.     *)
(***************************************************************************)
Node == [kind : Kinds, left : Nat, right : Nat, label : Labels \cup {NoLabel}]

(***************************************************************************)
(* node : every node ever constructed, by address                          *)
(* ref  : its ref_count                                                    *)
(* free : the free list, head first (the code threads it through the       *)
(*        storage of ref_count, so a node on it has no count; here 0)      *)
(* cap, size : capacity and fill of the newest pool                        *)
(* dups : number_of_mempool_duplications, which the code goes on counting  *)
(*        past the limit; it only compares it, so MaxDuplications + 1      *)
(*        stands for every larger value                                    *)
(* recycled : amount_of_recycled_nodes (amount_of_nodes_used is Len(node)) *)
(***************************************************************************)
Heap == [node : Seq(Node), ref : Seq(Nat), free : Seq(Nat),
         cap : Nat, size : Nat, dups : Nat, recycled : Nat]

EmptyHeap == [node |-> << >>, ref |-> << >>, free |-> << >>,
              cap |-> StartingSize, size |-> 0, dups |-> 0, recycled |-> 0]

Addresses(h) == DOMAIN h.node
Free(h) == {h.free[i] : i \in DOMAIN h.free}

BottomNode == [kind |-> "bottom", left |-> Null, right |-> Null,
               label |-> NoLabel]
LabelNode(n, l) == [kind |-> "label", left |-> n, right |-> Null,
                    label |-> l]
UnionNode(l, r) == [kind |-> "union", left |-> l, right |-> r,
                    label |-> NoLabel]

IsOutput(h, n) == h.node[n].kind \in {"bottom", "label"}

(***************************************************************************)
(* Reference counts. A null child has no count to change.                  *)
(***************************************************************************)
Acquire_Forgotten(h, n) == h  \* mutant: the reference is not counted
Acquire(h, n) == IF n = Null THEN h ELSE [h EXCEPT !.ref[n] = @ + 1]

Drop(h, n) == [h EXCEPT !.ref[n] = @ - 1]

\* Mutants: a node is freed one reference early, is never put on the free
\* list, and forgets its child as it joins the list.
Release_Early(h, n) ==
  IF n = Null THEN h
  ELSE IF h.ref[n] \in {1, 2} THEN [Drop(h, n) EXCEPT !.free = <<n>> \o @]
  ELSE Drop(h, n)
Release_Never(h, n) == IF n = Null THEN h ELSE Drop(h, n)
Release_Clears(h, n) ==
  IF n = Null THEN h
  ELSE IF h.ref[n] = 1
    THEN [Drop(h, n) EXCEPT !.free = <<n>> \o @, !.node[n].left = Null]
  ELSE Drop(h, n)
Release(h, n) ==
  IF n = Null THEN h
  ELSE IF h.ref[n] = 1 THEN [Drop(h, n) EXCEPT !.free = <<n>> \o @]
  ELSE Drop(h, n)

(***************************************************************************)
(* Allocation: the newest pool first, then the free list, then a new pool  *)
(* of twice the size, as long as the limit on duplications allows it.      *)
(***************************************************************************)
IsFull(h) == h.size >= h.cap
Recycles(h) == IsFull(h) /\ h.free # << >>
ExceedsLimit(h) == IsFull(h) /\ h.free = << >> /\ h.dups >= MaxDuplications

AllocAddress(h) == IF Recycles(h) THEN Head(h.free) ELSE Len(h.node) + 1

IncreaseMempoolSize(h) == [h EXCEPT !.cap = 2 * h.size, !.size = 0, !.dups = @ + 1]

AllocateNewNode(h, nd) ==
  [h EXCEPT !.node = Append(@, nd), !.ref = Append(@, 0), !.size = @ + 1]

(***************************************************************************)
(* The recycled node gives up its children only now, the right one first:  *)
(* each may join the free list in turn, above the rest of it.              *)
(***************************************************************************)
ResetNode(h, n, nd) == [h EXCEPT !.node[n] = nd, !.ref[n] = 0]

PopFree(h) == [h EXCEPT !.free = Tail(@), !.recycled = @ + 1]

\* Mutant: the right child of the recycled node keeps its reference.
RecycleNode_KeepsRight(h, nd) ==
  LET n == Head(h.free)
      g == Release(PopFree(h), h.node[n].left)
  IN  ResetNode(g, n, nd)
RecycleNode(h, nd) ==
  LET n == Head(h.free)
      g == Release(Release(PopFree(h), h.node[n].right), h.node[n].left)
  IN  ResetNode(g, n, nd)

NodeFor(h, nd) ==
  IF Recycles(h) THEN RecycleNode(h, nd)
  ELSE IF IsFull(h) THEN AllocateNewNode(IncreaseMempoolSize(h), nd)
  ELSE AllocateNewNode(h, nd)

(***************************************************************************)
(* alloc: construct or reset the node, which counts a reference to each of *)
(* its children. Defined when ~ExceedsLimit(h).                            *)
(***************************************************************************)
Alloc_LeftOnly(h, nd) == Acquire(NodeFor(h, nd), nd.left)  \* mutant
Alloc(h, nd) == Acquire(Acquire(NodeFor(h, nd), nd.left), nd.right)

\* The call that throws MemoryLimitExceededException has counted itself.
LimitExceeded(h) == [h EXCEPT !.dups = MaxDuplications + 1]

----------------------------------------------------------------------------
(***************************************************************************)
(* What an enumeration needs of the graph it walks: each path down ends,   *)
(* and an output node is never far. At most two unions are crossed before  *)
(* one, counted along left children, and only one below a label.           *)
(***************************************************************************)
OutputWithin1(h, n) == IsOutput(h, n) \/ IsOutput(h, h.node[n].left)
OutputWithin2(h, n) == OutputWithin1(h, n) \/ OutputWithin1(h, h.node[n].left)

\* The nodes all of whose paths down end within as many steps as there are nodes.
Grounded(h) ==
  LET grounded[i \in 0..Len(h.node)] ==
        IF i = 0 THEN {}
        ELSE LET below == grounded[i - 1] \cup {Null}
             IN  {n \in Addresses(h) : {h.node[n].left, h.node[n].right} \subseteq below}
  IN  grounded[Len(h.node)]

Linked(h, n) ==
  LET nd == h.node[n]
  IN  /\ nd.kind = "label" => nd.left \in Addresses(h) /\ OutputWithin1(h, nd.left)
      /\ nd.kind = "union" => {nd.left, nd.right} \subseteq Addresses(h)

Enumerable(h) ==
  /\ h.node \in Seq(Node)
  /\ Grounded(h) = Addresses(h)
  /\ \A n \in Addresses(h) : Linked(h, n) /\ OutputWithin2(h, n)
=============================================================================
