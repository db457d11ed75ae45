------------------------------ MODULE Automata ------------------------------
(***************************************************************************)
(* What the automata have in common: which states a search through some of *)
(* the transitions visits. Edges are pairs of states.                      *)
(***************************************************************************)
EXTENDS FiniteSets

After(states, edges) == {e[2] : e \in {d \in edges : d[1] \in states}}
Reversed(edges) == {<<e[2], e[1]>> : e \in edges}

Closure(states, start, edges) ==
  LET reached[visited \in SUBSET states] ==
        LET more == visited \cup After(visited, edges)
        IN  IF more = visited THEN visited ELSE reached[more]
  IN  reached[start]

\* What lies both on a path from the start and on a path to the end.
Useful(states, start, end, edges) ==
  Closure(states, {start}, edges) \cap Closure(states, {end}, Reversed(edges))
=============================================================================
