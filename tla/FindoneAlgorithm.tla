-------------------------- MODULE FindoneAlgorithm --------------------------
(***************************************************************************)
(* FindoneAlgorithm evaluates as FinditerAlgorithm does but for what a     *)
(* state reached twice at a position does with the second node: it keeps   *)
(* the first one and frees the other. There are no unions, and no root     *)
(* node.                                                                   *)
(***************************************************************************)
EXTENDS FinditerAlgorithm

(***************************************************************************)
(* update_output_nodes. Pinning and unpinning a node frees it, if nobody   *)
(* else holds it.                                                          *)
(***************************************************************************)
KeepFirst(D, handed) ==
  IF Fresh(D) THEN [heap |-> Pin(handed.heap, handed.node), node |-> handed.node]
              ELSE [heap |-> Unpin(Pin(handed.heap, handed.node), handed.node),
                    node |-> node[D]]

UpdateSets(p) == HandOnAs(p, KeepFirst(p[2], Handed(p)))
ThrowMemoryLimit(p) == ThrowMemoryLimitAs(p, KeepFirst(p[2], Handed(p)))

----------------------------------------------------------------------------
(***************************************************************************)
(* enumerate, and next once. Without an accepting state the algorithm has  *)
(* no mapping to return, and the mediator would make a match of a null     *)
(* pointer.                                                                *)
(***************************************************************************)
AddNode ==
  /\ mode = "root"
  /\ stack' = IF final = << >> THEN << >> ELSE <<node[Head(final)]>>
  /\ mode' = IF final = << >> THEN "null" ELSE "list"
  /\ UNCHANGED <<input, heap, det, lists, pairs, pos, end, root,
                 inverted_annotations, added_before_union, was_output, history>>

ReturnMatch ==
  /\ mode = "list" /\ listed # << >>
  /\ mode' = "done"
  /\ UNCHANGED <<input, heap, det, lists, pairs, pos, end, root, enumerator,
                 history>>

FindoneStep ==
  \/ GetNextStates
  \/ ThrowComplexQuery
  \/ DieOut
  \/ LeaveState
  \/ \E p \in pairs : UpdateSets(p)
  \/ \E p \in pairs : ThrowMemoryLimit(p)
  \/ SwapStateLists
  \/ ReadCharacter
  \/ EndOfSegment
  \/ AddNode
  \/ listed = << >> /\ Enumerate
  \/ ReturnMatch
=============================================================================
