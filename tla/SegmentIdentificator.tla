------------------------ MODULE SegmentIdentificator ------------------------
(***************************************************************************)
(* The filtering module: it runs the SearchDFA over the document and cuts  *)
(* it into the segments that the evaluation algorithm has to look at. One  *)
(* action is one iteration of the loop of next_is_computed_successfully.   *)
(***************************************************************************)
EXTENDS SearchDFA

CONSTANTS
  Nfas,         \* the NFAs of the queries considered
  MaxDocument   \* bound: characters of a document

ASSUME MaxDocumentAssumption == MaxDocument \in Nat

VARIABLES
  nfa, document,
  dfa, catalog,          \* current_state, and the states made so far
  i_src, i_min, i_max,   \* the scan, and the candidate segment
  mode,                  \* "start", "idle", "scan", "done", "thrown"
  segments               \* history: the segments returned, in order

vars == <<nfa, document, dfa, catalog, i_src, i_min, i_max, mode, segments>>

DocumentsUpTo(n) == UNION {[1..k -> Letters] : k \in 0..n}

Init ==
  /\ nfa \in Nfas
  /\ document \in DocumentsUpTo(MaxDocument)
  /\ dfa = InitialDFAState
  /\ catalog = {}
  /\ i_src = 0 /\ i_min = 0 /\ i_max = 0
  /\ mode = "start"
  /\ segments = << >>

----------------------------------------------------------------------------
\* The state that the next character leads to.
Upcoming ==
  NextState(nfa, dfa,
            IF mode = "start" THEN StartChar ELSE CharAt(document, i_src))

Enters(d) ==
  /\ ~ExceedsStateLimit(catalog, d)
  /\ dfa' = d
  /\ catalog' = catalog \cup {d}

EvaluateStartChar ==
  /\ mode = "start"
  /\ Enters(Upcoming)
  /\ mode' = "idle"
  /\ UNCHANGED <<nfa, document, i_src, i_min, i_max, segments>>

\* A call of next(). Mutant: the candidate begins where the last one did.
BeginNext_KeepsStart ==
  /\ mode = "idle"
  /\ i_max' = i_src
  /\ mode' = "scan"
  /\ UNCHANGED <<nfa, document, dfa, catalog, i_src, i_min, segments>>
BeginNext ==
  /\ mode = "idle"
  /\ i_min' = i_src
  /\ i_max' = i_src
  /\ mode' = "scan"
  /\ UNCHANGED <<nfa, document, dfa, catalog, i_src, segments>>

----------------------------------------------------------------------------
Reads == mode = "scan" /\ i_src < Size(document) /\ Enters(Upcoming)
Advances == i_src' = i_src + 1 /\ UNCHANGED <<nfa, document, mode, segments>>

ReadAccepting ==
  /\ Reads
  /\ Accepting(nfa, Upcoming)
  /\ i_max' = i_src + 1
  /\ Advances
  /\ UNCHANGED i_min

ReadContinuing ==
  /\ Reads
  /\ ~Accepting(nfa, Upcoming) /\ ~Upcoming.ends
  /\ Advances
  /\ UNCHANGED <<i_min, i_max>>

\* Mutant: the runs that start with this character are left out.
StartAgain_TooLate == i_src + 1
StartAgain == IF Upcoming.subset = {} THEN i_src + 1 ELSE i_src

ReadEnding ==
  /\ Reads
  /\ ~Accepting(nfa, Upcoming) /\ Upcoming.ends
  /\ ~(i_min < i_max)
  /\ i_min' = StartAgain
  /\ Advances
  /\ UNCHANGED i_max

Returns == segments' = Append(segments, <<i_min, i_max>>) /\ mode' = "idle"

\* The character that ends the segment has been read; the next call reads it
\* again.
ReturnSegment ==
  /\ Reads
  /\ ~Accepting(nfa, Upcoming) /\ Upcoming.ends
  /\ i_min < i_max
  /\ Returns
  /\ UNCHANGED <<nfa, document, i_src, i_min, i_max>>

ReturnLastSegment ==
  /\ mode = "scan" /\ i_src >= Size(document)
  /\ i_min < i_max
  /\ Returns
  /\ UNCHANGED <<nfa, document, dfa, catalog, i_src, i_min, i_max>>

ReturnNull ==
  /\ mode = "scan" /\ i_src >= Size(document)
  /\ ~(i_min < i_max)
  /\ i_min' = Size(document)
  /\ mode' = "done"
  /\ UNCHANGED <<nfa, document, dfa, catalog, i_src, i_max, segments>>

\* ComplexQueryException: the state made is in the catalog already.
ThrowComplexQuery ==
  /\ mode = "start" \/ (mode = "scan" /\ i_src < Size(document))
  /\ ExceedsStateLimit(catalog, Upcoming)
  /\ catalog' = catalog \cup {Upcoming}
  /\ mode' = "thrown"
  /\ UNCHANGED <<nfa, document, dfa, i_src, i_min, i_max, segments>>

Next ==
  \/ EvaluateStartChar
  \/ BeginNext
  \/ ReadAccepting
  \/ ReadContinuing
  \/ ReadEnding
  \/ ReturnSegment
  \/ ReturnLastSegment
  \/ ReturnNull
  \/ ThrowComplexQuery

\* A call runs to its end, and the mediator asks until there is no segment.
Spec == Init /\ [][Next]_vars /\ WF_vars(Next)

----------------------------------------------------------------------------
(***************************************************************************)
(* Properties.                                                             *)
(***************************************************************************)
TypeOK ==
  /\ i_src \in 0..Size(document) /\ i_min \in 0..Size(document)
  /\ i_max \in 0..Size(document)
  /\ segments \in Seq((0..Size(document)) \X (0..Size(document)))
  /\ dfa \in {InitialDFAState} \cup catalog
  /\ Cardinality(catalog) <= MaxDfaStates
  /\ mode \in {"start", "idle", "scan", "done", "thrown"}

\* The matches of the query, found the plain way: the document from s to e
\* takes the NFA from its initial to its accepting state.
RunsFrom(s) ==
  LET start == {nfa.initial}
          \cup (IF s = 0 THEN Step(nfa, {nfa.initial}, StartChar) ELSE {})
      run[e \in s..Size(document)] ==
        IF e = s THEN start ELSE Step(nfa, run[e - 1], CharAt(document, e - 1))
  IN  run
Matches ==
  {m \in (0..Size(document)) \X (0..Size(document)) :
     m[1] < m[2] /\ nfa.accepting \in RunsFrom(m[1])[m[2]]}

Covers(segment, match) == segment[1] <= match[1] /\ match[2] <= segment[2]
Segments == {segments[i] : i \in DOMAIN segments}

\* No match is lost: one that ends in the part of the document already read
\* lies within a segment returned, or within the one being computed. The
\* algorithm evaluates each segment on its own, so a match that crossed from
\* one to the next would never be found.
MatchesAreCovered ==
  mode \in {"idle", "scan", "done"} =>
    \A m \in Matches :
      m[2] <= i_src => \E g \in Segments \cup {<<i_min, i_max>>} : Covers(g, m)

\* No match is found twice: the segments are not empty and do not overlap.
SegmentsAreDisjoint ==
  /\ \A i \in DOMAIN segments : segments[i][1] < segments[i][2]
  /\ \A i, j \in DOMAIN segments : i < j => segments[i][2] <= segments[j][1]
=============================================================================
