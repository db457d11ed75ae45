-------------------------- MODULE FinditerAlgorithm --------------------------
(***************************************************************************)
(* The evaluation of a query over a segment of the document: at every      *)
(* character each deterministic state that is alive hands its node, which  *)
(* stands for the outputs of the runs that led to it, on to its            *)
(* successors. When accepting states have been reached, the union of their *)
(* nodes is enumerated before the evaluation goes on.                      *)
(*                                                                         *)
(* The algorithm and the mediator that gives it segments run in one        *)
(* thread; an action is one round of one of the loops of the algorithm.    *)
(***************************************************************************)
EXTENDS ECSCalls, ExtendedVA, SequencesExt

CONSTANT MaxDetStates  \* max_deterministic_states, for DFAStateLimitChecker

VARIABLES
  va,        \* the automaton, clean for determinization
  document,
  char,      \* the character that is read
  heap,      \* the ECS
  node,      \* output_node of each deterministic state made so far
  phase,     \* and the position it was last reached at
  current,   \* current_states_, without the ones visited at this character
  next,      \* next_states_
  final,     \* reached_final_states_
  pairs,     \* successors the head of current has still to hand its node to
  pos, end,  \* pos_i_, doc_end_i_
  root,      \* ECS_root_node_
  mode,      \* which loop is running
  stack, inverted_annotations, added_before_union, was_output,
  listed, delay

Enum == INSTANCE Enumerator WITH Graphs <- {}

input == <<va, document, char>>
det == <<node, phase>>
lists == <<current, next, final>>
enumerator == <<stack, inverted_annotations, added_before_union, was_output>>
history == <<listed, delay>>

\* No pairs: they have not been asked for yet.
Unknown == {<< >>}

Modes == {"start",    \* a character before the first one is read
          "segment",  \* the segment has been evaluated, or there is none
          "evaluate", "read", "root", "join", "list", "thrown", "done"}

Start(q, doc) ==
  LET bottom == CreateBottom(EmptyHeap)
  IN  /\ va = q
      /\ document = doc
      /\ char = StartChar
      /\ heap = Pin(bottom.heap, bottom.node)
      /\ node = [D \in {InitialSubset(q)} |-> bottom.node]
      /\ phase = [D \in {InitialSubset(q)} |-> -1]
      /\ current = << >> /\ next = << >> /\ final = << >>
      /\ pairs = Unknown
      /\ pos = 0 /\ end = Size(doc)
      /\ root = Null
      /\ mode = "segment"
      /\ stack = << >> /\ inverted_annotations = << >>
      /\ added_before_union = <<0>> /\ was_output = FALSE
      /\ listed = << >> /\ delay = 0

----------------------------------------------------------------------------
(***************************************************************************)
(* set_document_indexes and reset. The states still alive are forgotten,   *)
(* but the nodes they hold stay pinned.                                    *)
(***************************************************************************)
Reset == phase' = [D \in DOMAIN phase |-> -1]

BeginAt(span, first) ==
  /\ mode = "segment"
  /\ pos' = span[1]
  /\ end' = span[2]
  /\ current' = <<InitialSubset(va)>>
  /\ next' = << >> /\ final' = << >>
  /\ Reset
  /\ mode' = IF first THEN "start" ELSE "evaluate"
  /\ UNCHANGED <<heap, node, pairs, root, enumerator>>

UpdateAlgorithm(span, first) ==
  BeginAt(span, first) /\ UNCHANGED <<input, history>>

----------------------------------------------------------------------------
(***************************************************************************)
(* evaluate_single_character, for one state.                               *)
(***************************************************************************)
Visiting == mode \in {"start", "read"} /\ current # << >>
Visited == Head(current)

GetNextStates ==
  LET found == NextStates(va, Visited, char)
      known == DOMAIN node \cup {p[2] : p \in found}
  IN  /\ Visiting /\ pairs = Unknown
      /\ found # {}
      /\ Cardinality(known) <= MaxDetStates
      /\ node' = [D \in known |-> IF D \in DOMAIN node THEN node[D] ELSE Null]
      /\ phase' = [D \in known |-> IF D \in DOMAIN phase THEN phase[D] ELSE -1]
      /\ pairs' = found
      /\ UNCHANGED <<input, heap, lists, pos, end, root, mode,
                     enumerator, history>>

\* ComplexQueryException.
ThrowComplexQuery ==
  /\ Visiting /\ pairs = Unknown
  /\ Cardinality(DOMAIN node \cup {p[2] : p \in NextStates(va, Visited, char)})
       > MaxDetStates
  /\ mode' = "thrown"
  /\ UNCHANGED <<input, heap, det, lists, pairs, pos, end, root,
                 enumerator, history>>

\* Each state is visited once its successors have its outputs, or at once when
\* there are none, and gives up its node.
Leave ==
  /\ heap' = Unpin(heap, node[Visited])
  /\ current' = Tail(current)
  /\ pairs' = Unknown
  /\ UNCHANGED <<input, det, next, final, pos, end, root, mode,
                 enumerator, history>>

DieOut ==
  /\ Visiting /\ pairs = Unknown
  /\ NextStates(va, Visited, char) = {}
  /\ Leave

LeaveState ==
  /\ Visiting /\ pairs = {}
  /\ Leave

----------------------------------------------------------------------------
(***************************************************************************)
(* update_sets: the successor without markers comes first, the others in   *)
(* the order of a hash map.                                                *)
(***************************************************************************)
IsNextPair(p) ==
  /\ p \in pairs
  /\ p[1] = {} \/ \A q \in pairs : q[1] # {}

\* The node handed on: the state's own, or one that adds the markers to it.
Handed(p) ==
  IF p[1] = {} THEN [heap |-> heap, node |-> node[Visited]]
               ELSE CreateExtend(heap, node[Visited], <<p[1], pos>>)

(***************************************************************************)
(* update_output_nodes: the first node handed to a state at this position  *)
(* becomes its node, later ones are joined to it.                          *)
(***************************************************************************)
Fresh(D) == phase[D] < pos

Joined(D, handed) ==
  IF Thrown(handed.heap) THEN handed
                         ELSE CreateUnion(handed.heap, node[D], handed.node)

\* Mutant: the union is not pinned.
Update_Unpinned(D, handed) ==
  IF Fresh(D)
    THEN [heap |-> Pin(handed.heap, handed.node), node |-> handed.node]
    ELSE LET u == Joined(D, handed)
         IN  [heap |-> Unpin(u.heap, node[D]), node |-> u.node]
Update(D, handed) ==
  IF Fresh(D)
    THEN [heap |-> Pin(handed.heap, handed.node), node |-> handed.node]
    ELSE LET u == Joined(D, handed)
         IN  [heap |-> Pin(Unpin(u.heap, node[D]), u.node), node |-> u.node]

HandOnAs(p, updated) ==
  LET D == p[2]
      reached == Fresh(D)
  IN  /\ Visiting /\ pairs # Unknown /\ IsNextPair(p)
      /\ ~Thrown(updated.heap)
      /\ heap' = updated.heap
      /\ node' = [node EXCEPT ![D] = updated.node]
      /\ phase' = [phase EXCEPT ![D] = IF reached THEN pos ELSE @]
      /\ final' = IF reached /\ IsAccepting(va, D) THEN Append(final, D) ELSE final
      /\ next' = IF reached /\ ~IsAccepting(va, D) THEN Append(next, D) ELSE next
      /\ pairs' = pairs \ {p}
      /\ UNCHANGED <<input, current, pos, end, root, mode,
                     enumerator, history>>

HandOn(p) == HandOnAs(p, Update(p[2], Handed(p)))

----------------------------------------------------------------------------
(***************************************************************************)
(* evaluate: the start character moves no position, and is followed by the *)
(* first character whatever it has reached.                                *)
(***************************************************************************)
SwapStateLists ==
  /\ mode \in {"start", "read"} /\ current = << >>
  /\ current' = next
  /\ next' = << >>
  /\ pos' = IF mode = "start" THEN pos ELSE pos + 1
  /\ mode' = IF mode = "read" /\ final # << >> THEN "root" ELSE "evaluate"
  /\ UNCHANGED <<input, heap, det, final, pairs, end, root, enumerator,
                 history>>

ReadCharacter ==
  /\ mode = "evaluate" /\ pos < end
  /\ char' = CharAt(document, pos)
  /\ mode' = "read"
  /\ UNCHANGED <<va, document, heap, det, lists, pairs, pos, end, root,
                 enumerator, history>>

EndOfSegment ==
  /\ mode = "evaluate" /\ pos >= end
  /\ mode' = "root"
  /\ UNCHANGED <<input, heap, det, lists, pairs, pos, end, root,
                 enumerator, history>>

----------------------------------------------------------------------------
(***************************************************************************)
(* create_root_node_to_enumerate: the old root is released, and the nodes  *)
(* of the accepting states are joined in the new one.                      *)
(***************************************************************************)
ReleaseRoot ==
  /\ mode = "root"
  /\ heap' = Unpin(heap, root)
  /\ root' = Null
  /\ mode' = "join"
  /\ UNCHANGED <<input, det, lists, pairs, pos, end, enumerator, history>>

TakeFirstFinalState ==
  /\ mode = "join" /\ final # << >> /\ root = Null
  /\ root' = node[Head(final)]
  /\ final' = Tail(final)
  /\ UNCHANGED <<input, heap, det, current, next, pairs, pos, end, mode,
                 enumerator, history>>

WithFinalState == CreateUnion(heap, root, node[Head(final)])

JoinFinalState ==
  /\ mode = "join" /\ final # << >> /\ root # Null
  /\ ~Thrown(WithFinalState.heap)
  /\ heap' = Unpin(Unpin(Pin(WithFinalState.heap, WithFinalState.node), root),
                   node[Head(final)])
  /\ root' = WithFinalState.node
  /\ final' = Tail(final)
  /\ UNCHANGED <<input, det, current, next, pairs, pos, end, mode,
                 enumerator, history>>

\* MemoryLimitExceededException, in either of the places that create nodes.
ThrowMemoryLimitAs(p, updated) ==
  /\ Visiting /\ pairs # Unknown /\ IsNextPair(p)
  /\ heap' = updated.heap
  /\ Thrown(heap')
  /\ mode' = "thrown"
  /\ UNCHANGED <<input, det, lists, pairs, pos, end, root, enumerator,
                 history>>

ThrowMemoryLimitAtHandOn(p) == ThrowMemoryLimitAs(p, Update(p[2], Handed(p)))

ThrowMemoryLimitAtJoin ==
  /\ mode = "join" /\ final # << >> /\ root # Null
  /\ heap' = WithFinalState.heap
  /\ Thrown(heap')
  /\ mode' = "thrown"
  /\ UNCHANGED <<input, det, lists, pairs, pos, end, root, enumerator,
                 history>>

----------------------------------------------------------------------------
(***************************************************************************)
(* next: with nothing to enumerate the segment has been evaluated.         *)
(***************************************************************************)
StartEnumeration ==
  /\ mode = "join" /\ final = << >> /\ root # Null
  /\ stack' = <<root>>
  /\ mode' = "list"
  /\ UNCHANGED <<input, heap, det, lists, pairs, pos, end, root,
                 inverted_annotations, added_before_union, was_output, history>>

FinishSegment ==
  /\ mode = "join" /\ final = << >> /\ root = Null
  /\ mode' = "segment"
  /\ UNCHANGED <<input, heap, det, lists, pairs, pos, end, root,
                 enumerator, history>>

Enumerate ==
  /\ mode = "list" /\ stack # << >>
  /\ \/ Enum!Resume
     \/ Enum!ReturnMapping
     \/ Enum!ConsumeKLabelNode
     \/ Enum!ConsumeUnionNode
  /\ UNCHANGED <<input, det, lists, pairs, pos, end, mode>>

\* Enumerator::reset, and on to the next character.
ResetEnumerator ==
  /\ mode = "list" /\ stack = << >>
  /\ inverted_annotations' = << >>
  /\ added_before_union' = <<0>>
  /\ was_output' = FALSE
  /\ mode' = "evaluate"
  /\ UNCHANGED <<input, heap, det, lists, pairs, pos, end, root, stack,
                 history>>

\* Everything but where the characters come from.
AlgorithmStep ==
  \/ GetNextStates
  \/ ThrowComplexQuery
  \/ DieOut
  \/ LeaveState
  \/ \E p \in pairs : HandOn(p)
  \/ \E p \in pairs : ThrowMemoryLimitAtHandOn(p)
  \/ SwapStateLists
  \/ ReleaseRoot
  \/ TakeFirstFinalState
  \/ JoinFinalState
  \/ ThrowMemoryLimitAtJoin
  \/ StartEnumeration
  \/ FinishSegment
  \/ Enumerate
  \/ ResetEnumerator

AlgorithmNext == AlgorithmStep \/ ReadCharacter \/ EndOfSegment
=============================================================================
