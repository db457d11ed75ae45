--------------------------- MODULE ECSRefinement ---------------------------
(***************************************************************************)
(* The ECS implements OutputSets: a handle is a node the client has pinned *)
(* or has just been given, and it stands for the outputs an enumeration    *)
(* from that node would list. Nothing the memory manager does, and no      *)
(* other handle's creation or release, changes them.                       *)
(***************************************************************************)
EXTENDS ECS, Bags

ExtendOutputs(b, l) ==
  [o \in {Append(p, l) : p \in DOMAIN b} |-> b[SubSeq(o, 1, Len(o) - 1)]]

BottomOutputs == SetToBag({<< >>})

\* The outputs of a node, when out gives those of its children.
OutputsAt(nd, out) ==
  CASE nd.kind = "bottom" -> BottomOutputs
    [] nd.kind = "label"  -> ExtendOutputs(out[nd.left], nd.label)
    [] nd.kind = "union"  -> out[nd.left] (+) out[nd.right]

OutputsOf(h) ==
  LET out[n \in Addresses(h)] == OutputsAt(h.node[n], out)
  IN  out

Value == LET out == OutputsOf(heap) IN [n \in Usable |-> out[n]]

Abstract == INSTANCE OutputSets WITH value <- Value

\* Every behaviour of the ECS is one of OutputSets: an enumeration started from
\* a handle lists what the handle was built to stand for, whatever has been
\* created, released and recycled since.
ImplementsOutputSets == Abstract!Spec
=============================================================================
