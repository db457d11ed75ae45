----------------------------- MODULE Enumerator -----------------------------
(***************************************************************************)
(* Enumerator::next(): a depth-first walk of the graph below a root that   *)
(* lists the outputs it stands for, one per call. The annotations of the   *)
(* mapping under construction are undone when the walk turns to the right  *)
(* child of a union, which a stack of counters records.                    *)
(*                                                                         *)
(* One action is one iteration of the loop of next(). Nothing changes the  *)
(* graph during an enumeration: the algorithms build it between two of     *)
(* them.                                                                   *)
(***************************************************************************)
EXTENDS ECSCalls, FiniteSets, Bags, SequencesExt

CONSTANT Graphs  \* <<heap, root>> pairs that may be enumerated

\* Enumerable is what the ECS keeps its graph (GraphIsEnumerable).
ASSUME GraphsAssumption ==
  \A g \in Graphs : Enumerable(g[1]) /\ g[2] \in Addresses(g[1])

VARIABLES
  heap, root,           \* the graph
  stack,                \* nodes still to visit, the next one last
  inverted_annotations, \* labels from the root to the current node
  added_before_union,   \* amount_of_annotations_added_before_union
  was_output,           \* was_output_previously
  listed,               \* history: what next() has returned, in order
  delay                 \* history: iterations since next() last returned

state == <<stack, inverted_annotations, added_before_union, was_output>>
vars == <<heap, root, state, listed, delay>>

\* The constructor, then add_node(root).
Init ==
  /\ \E g \in Graphs : heap = g[1] /\ root = g[2]
  /\ stack = <<root>>
  /\ inverted_annotations = << >>
  /\ added_before_union = <<0>>
  /\ was_output = FALSE
  /\ listed = << >>
  /\ delay = 0

----------------------------------------------------------------------------
Counting(n) ==
  [added_before_union EXCEPT ![Len(added_before_union)] = @ + n]

\* Mutant: the counter stays on its stack.
DeleteAnnotationsUntilPreviousUnion_KeepsCount ==
  /\ inverted_annotations' =
       SubSeq(inverted_annotations, 1,
              Len(inverted_annotations) - Last(added_before_union))
  /\ UNCHANGED added_before_union
DeleteAnnotationsUntilPreviousUnion ==
  /\ inverted_annotations' =
       SubSeq(inverted_annotations, 1,
              Len(inverted_annotations) - Last(added_before_union))
  /\ added_before_union' = Front(added_before_union)

\* The start of a call that follows one that returned a mapping.
Resume ==
  /\ stack # << >> /\ was_output
  /\ DeleteAnnotationsUntilPreviousUnion
  /\ was_output' = FALSE
  /\ UNCHANGED <<heap, root, stack, listed, delay>>

\* Mutant: the loop stops one node early.
Visits_OneLeft(kind) ==
  /\ Len(stack) > 1 /\ ~was_output
  /\ heap.node[Last(stack)].kind = kind
  /\ UNCHANGED <<heap, root>>
Visits(kind) ==
  /\ stack # << >> /\ ~was_output
  /\ heap.node[Last(stack)].kind = kind
  /\ UNCHANGED <<heap, root>>

ReturnMapping ==
  /\ Visits("bottom")
  /\ stack' = Front(stack)
  /\ was_output' = TRUE
  /\ listed' = Append(listed, inverted_annotations)
  /\ delay' = 0
  /\ UNCHANGED <<inverted_annotations, added_before_union>>

ConsumeKLabelNode ==
  /\ Visits("label")
  /\ LET n == Last(stack)
     IN  /\ inverted_annotations' = Append(inverted_annotations, heap.node[n].label)
         /\ stack' = Append(Front(stack), heap.node[n].left)
  /\ added_before_union' = Counting(1)
  /\ delay' = delay + 1
  /\ UNCHANGED <<was_output, listed>>

\* Mutant: the children are pushed in the order they are read in.
ConsumeUnionNode_RightFirst ==
  /\ Visits("union")
  /\ stack' = Front(stack)
                \o <<heap.node[Last(stack)].left, heap.node[Last(stack)].right>>
  /\ added_before_union' = Append(added_before_union, 0)
  /\ delay' = delay + 1
  /\ UNCHANGED <<inverted_annotations, was_output, listed>>
ConsumeUnionNode ==
  /\ Visits("union")
  /\ stack' = Front(stack)
                \o <<heap.node[Last(stack)].right, heap.node[Last(stack)].left>>
  /\ added_before_union' = Append(added_before_union, 0)
  /\ delay' = delay + 1
  /\ UNCHANGED <<inverted_annotations, was_output, listed>>

Next == Resume \/ ReturnMapping \/ ConsumeKLabelNode \/ ConsumeUnionNode

\* A call of next() runs to its end, and the caller asks while has_next().
Spec == Init /\ [][Next]_vars /\ WF_vars(Next)

----------------------------------------------------------------------------
(***************************************************************************)
(* Properties.                                                             *)
(***************************************************************************)
\* What a node stands for: each output is the sequence of labels on a path
\* down to the bottom node, and each path counts once.
OutputsAt(nd, out) ==
  CASE nd.kind = "bottom" -> << << >> >>
    [] nd.kind = "label" -> LET below == out[nd.left]
                            IN  [i \in DOMAIN below |-> <<nd.label>> \o below[i]]
    [] nd.kind = "union" -> out[nd.left] \o out[nd.right]

OutputsBelow(h) ==
  LET out[n \in Addresses(h)] == OutputsAt(h.node[n], out)
  IN  out

\* "outputs can be enumerated with constant delay" (ecs.hpp:17-20): the
\* iterations between two outputs depend on the size of the next one alone,
\* not on the graph. At most two unions are crossed before its first label,
\* and one after each.
DelayBounded ==
  LET all == OutputsBelow(heap)[root]
      i == Len(listed) + 1
  IN  i \in DOMAIN all => delay <= 2 * Len(all[i]) + 2

\* The enumeration ends, and what it has listed then is what the root stands
\* for: each node on the stack is visited with the annotations of the path to
\* it, so no output is lost, repeated or mixed with another one.
EverythingIsListed == <>(stack = << >> /\ listed = OutputsBelow(heap)[root])
=============================================================================
