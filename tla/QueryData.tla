----------------------------- MODULE QueryData ------------------------------
(***************************************************************************)
(* What a query keeps of the automaton of its expression: the extended VA, *)
(* for the matches; the NFA without captures, from which the SearchDFA     *)
(* that looks for segments is made; whether there are anchors, which make  *)
(* the mediator take the whole document as its only segment; and the       *)
(* markers of its variables. The module that reads with the extended VA    *)
(* cleans it for determinization.                                          *)
(***************************************************************************)
EXTENDS ExtendedVA

SearchNFA(lva) ==
  LET nfa == Lva!Trim(Lva!RemoveEpsilon(Lva!RemoveCaptures(lva)))
  IN  [initial |-> nfa.initial, accepting |-> nfa.accepting,
       filters |-> {<<e.from, e.label, e.to>> : e \in nfa.edges}]

ConstructQueryData(lva) ==
  LET logical == Lva!RemoveUselessAnchors(lva)
  IN  [va |-> FromLogicalVA(logical), nfa |-> SearchNFA(logical),
       anchored |-> Lva!HasUsefulAnchors(logical),
       markers |-> UNION {e.label : e \in Lva!OfKind(lva, {"capture"})}]
=============================================================================
