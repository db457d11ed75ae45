---------------------------- MODULE MCEnumerator ----------------------------
(***************************************************************************)
(* The enumeration of every graph that Calls calls on an empty ECS can     *)
(* build, from the node the last one returned. The label of a node is the  *)
(* number of the call that created it, so that different paths have        *)
(* different outputs. Of two operands the newer comes first: the other     *)
(* order gives the mirror image.                                           *)
(***************************************************************************)
EXTENDS Enumerator

CONSTANT Calls

GraphLabels == 1..Calls

Extended(g, i) ==
  LET nodes == g[2]
      calls == {CreateExtend(g[1], n, i) : n \in nodes}
                 \cup {CreateUnion(g[1], p[1], p[2]) :
                         p \in {q \in nodes \X nodes : q[1] > q[2]}}
  IN  {<<c.heap, nodes \cup {c.node}, c.node>> : c \in calls}

BuiltIn ==
  LET built[i \in 1..Calls] ==
        IF i = 1
          THEN LET c == CreateBottom(EmptyHeap) IN {<<c.heap, {c.node}, c.node>>}
          ELSE UNION {Extended(g, i) : g \in built[i - 1]}
  IN  built

\* The client pins what a call returns before it makes another.
BuiltGraphs == {<<g[1], g[3]>> : g \in UNION {BuiltIn[i] : i \in 1..Calls}}
=============================================================================
