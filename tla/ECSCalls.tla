------------------------------ MODULE ECSCalls ------------------------------
(***************************************************************************)
(* The interface of the Enumerable Compact Set as the evaluation           *)
(* algorithms call it: each call is an operator from the heap it finds to  *)
(* the heap it leaves. A call that creates a node also gives its address.  *)
(*                                                                         *)
(* An allocation past the limit throws MemoryLimitExceededException; the   *)
(* heap then records it (Thrown), and nothing is created after it.         *)
(***************************************************************************)
EXTENDS NodeManager

Thrown(h) == h.dups > MaxDuplications

Try(h, nd) ==
  IF Thrown(h) THEN h
  ELSE IF ExceedsLimit(h) THEN LimitExceeded(h)
  ELSE Alloc(h, nd)

Created(h, nd) == [heap |-> Try(h, nd), node |-> AllocAddress(h)]

CreateBottom(h) == Created(h, BottomNode)
CreateExtend(h, n, l) == Created(h, LabelNode(n, l))

OutputFirst(h, n1, n2) ==
  IF IsOutput(h, n1) THEN UnionNode(n1, n2) ELSE UnionNode(n2, n1)

UnionOfNonOutputs(h, n1, n2) ==
  LET u1 == Created(h, UnionNode(h.node[n1].right, h.node[n2].right))
      u2 == Created(u1.heap, UnionNode(h.node[n2].left, u1.node))
  IN  Created(u2.heap, UnionNode(h.node[n1].left, u2.node))

CreateUnion(h, n1, n2) ==
  IF IsOutput(h, n1) \/ IsOutput(h, n2)
    THEN Created(h, OutputFirst(h, n1, n2))
    ELSE UnionOfNonOutputs(h, n1, n2)

Pin(h, n) == IF Thrown(h) THEN h ELSE Acquire(h, n)
Unpin(h, n) == IF Thrown(h) THEN h ELSE Release(h, n)
=============================================================================
