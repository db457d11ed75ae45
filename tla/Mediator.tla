------------------------------ MODULE Mediator -------------------------------
(***************************************************************************)
(* What the mediators of a document share: a query, the filter that looks  *)
(* for segments that may have matches, and the algorithm that evaluates    *)
(* them.                                                                   *)
(***************************************************************************)
EXTENDS FinditerAlgorithm, PlainMatches

CONSTANTS
  Queries,      \* records of an extended VA, an NFA and whether it is anchored
  MaxDocument   \* bound: characters of a document

ASSUME DocumentSizeAssumption == MaxDocument \in Nat

VARIABLES
  query,
  dfa, catalog, i_src, i_min, i_max, scan, segments   \* SegmentIdentificator

Seg == INSTANCE SegmentIdentificator
         WITH nfa <- query.nfa, mode <- scan, MaxDfaStates <- MaxDetStates,
              Nfas <- {q.nfa : q \in Queries}

filter == <<dfa, catalog, i_src, i_min, i_max, scan, segments>>
algorithm == <<input, heap, det, lists, pairs, pos, end, root, mode,
               enumerator, history>>

InitQuery ==
  /\ query \in Queries
  /\ Seg!Init
  /\ Start(CleanForDeterminization(query.va), document)

----------------------------------------------------------------------------
NextSegment ==
  /\ mode = "segment"
  /\ UNCHANGED query
  /\ Seg!Next
  /\ UNCHANGED <<va, char, heap, det, lists, pairs, pos, end, root, mode,
                 enumerator, history>>

(***************************************************************************)
(* The algorithm reads one character past the segment, with which the last *)
(* variables of a match may close.                                         *)
(***************************************************************************)
Widened_Not(span) == span  \* mutants
Widened_Twice(span) == <<span[1], span[2] + 2>>
Widened(span) == <<span[1], span[2] + 1>>

----------------------------------------------------------------------------
\* The references to a node: of the states that are alive, of the enumeration
\* and of other nodes.
Holders(n) ==
  LET holds(S) == Cardinality({i \in DOMAIN S : node[S[i]] = n})
  IN  holds(current) + holds(next) + holds(final) + (IF root = n THEN 1 ELSE 0)
Parents(n) ==
  Cardinality({p \in Addresses(heap) : heap.node[p].left = n})
    + Cardinality({p \in Addresses(heap) : heap.node[p].right = n})
=============================================================================
