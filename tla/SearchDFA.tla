----------------------------- MODULE SearchDFA -----------------------------
(***************************************************************************)
(* The automaton that looks for matches without their captures: the subset *)
(* construction of the query's NFA, where a new run starts at every        *)
(* character. A state also tells whether every run that was under way has  *)
(* ended with the character just read.                                     *)
(*                                                                         *)
(* Transitions are computed once and cached, which changes no result: only *)
(* the number of states is limited. An NFA is a record of its initial and  *)
(* accepting states and of its filters <<from, characters, to>>.           *)
(***************************************************************************)
EXTENDS Documents, FiniteSets

CONSTANT MaxDfaStates  \* max_deterministic_states, for DFAStateLimitChecker

\* The initial state is counted too.
ASSUME MaxDfaStatesAssumption == MaxDfaStates \in Nat \ {0}

InitialDFAState == [subset |-> {}, ends |-> TRUE]

Step(nfa, S, a) ==
  {f[3] : f \in {g \in nfa.filters : g[1] \in S /\ a \in g[2]}}

NextState(nfa, d, a) ==
  [subset |-> Step(nfa, d.subset \cup {nfa.initial}, a),
   ends |-> Step(nfa, d.subset, a) = {}]

Accepting(nfa, d) == nfa.accepting \in d.subset

\* The catalog holds every state made but the first, which no step returns to.
\* Mutant: the first one is not counted.
ExceedsStateLimit_FirstUncounted(catalog, d) ==
  d \notin catalog /\ Cardinality(catalog) + 1 > MaxDfaStates
ExceedsStateLimit(catalog, d) ==
  d \notin catalog /\ Cardinality(catalog) + 2 > MaxDfaStates
=============================================================================
