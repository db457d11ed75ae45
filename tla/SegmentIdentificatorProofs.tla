--------------------- MODULE SegmentIdentificatorProofs ---------------------
(***************************************************************************)
(* The segments returned do not overlap, whatever the query and the        *)
(* document: the next one begins where the scan stands. And no match is    *)
(* lost by cutting the document into them.                                 *)
(***************************************************************************)
EXTENDS SegmentIdentificator, FiniteSetTheorems, WellFoundedInduction, TLAPS

(***************************************************************************)
(* The inductive invariant: the candidate segment lies within what has     *)
(* been read, and the ones returned lie before it. While a call is under   *)
(* way "before" is its beginning, between calls the position reached.      *)
(***************************************************************************)
DocumentOK == document \in Seq(Letters)

CatalogOK ==
  /\ IsFiniteSet(catalog)
  /\ Cardinality(catalog) <= MaxDfaStates
  /\ mode # "thrown" => Cardinality(catalog) < MaxDfaStates

ScanOK ==
  /\ i_src \in 0..Size(document)
  /\ i_min \in 0..Size(document)
  /\ i_max \in 0..i_src
  /\ mode = "scan" => i_min <= i_src

Reached == IF mode = "scan" THEN i_min ELSE i_src

ReturnedOK ==
  \A i \in DOMAIN segments : segments[i][2] <= Reached

IInv ==
  /\ DocumentOK
  /\ TypeOK
  /\ CatalogOK
  /\ ScanOK
  /\ ReturnedOK
  /\ SegmentsAreDisjoint

(***************************************************************************)
(* What Enters does to the catalog.                                        *)
(***************************************************************************)
LEMMA SizeIsNat == ASSUME DocumentOK PROVE Size(document) \in Nat
BY DEF DocumentOK, Size

LEMMA EntersFacts ==
  ASSUME NEW d, CatalogOK, Enters(d), mode # "thrown"
  PROVE  /\ IsFiniteSet(catalog') /\ Cardinality(catalog') < MaxDfaStates
         /\ dfa' \in {InitialDFAState} \cup catalog'
<1>1. catalog' = catalog \cup {d} /\ dfa' = d
  BY DEF Enters
<1>2. IsFiniteSet(catalog') /\ Cardinality(catalog) \in Nat
  BY <1>1, FS_AddElement, FS_CardinalityType DEF CatalogOK
<1>3. Cardinality(catalog') = IF d \in catalog THEN Cardinality(catalog)
                                               ELSE Cardinality(catalog) + 1
  BY <1>1, FS_AddElement DEF CatalogOK
<1>4. d \notin catalog => Cardinality(catalog) + 2 <= MaxDfaStates
  BY <1>2, MaxDfaStatesAssumption DEF Enters, ExceedsStateLimit
<1>5. Cardinality(catalog') < MaxDfaStates
  BY <1>2, <1>3, <1>4, MaxDfaStatesAssumption DEF CatalogOK
<1> QED BY <1>1, <1>2, <1>5

LEMMA InitIInv == Init => IInv
<1> SUFFICES ASSUME Init PROVE IInv
  OBVIOUS
<1>1. DocumentOK
  BY MaxDocumentAssumption DEF Init, DocumentsUpTo, DocumentOK
<1>2. Size(document) \in Nat
  BY <1>1, SizeIsNat
<1>3. IsFiniteSet(catalog) /\ Cardinality(catalog) = 0
  BY FS_EmptySet DEF Init
<1>4. TypeOK
  BY <1>2, <1>3, MaxDfaStatesAssumption DEF Init, TypeOK
<1>5. CatalogOK
  BY <1>3, MaxDfaStatesAssumption DEF Init, CatalogOK
<1>6. ScanOK /\ ReturnedOK /\ SegmentsAreDisjoint
  BY <1>2 DEF Init, ScanOK, ReturnedOK, SegmentsAreDisjoint
<1> QED BY <1>1, <1>4, <1>5, <1>6 DEF IInv

(***************************************************************************)
(* A segment returned begins after the ones before it.                     *)
(***************************************************************************)
LEMMA ReturnsFacts ==
  ASSUME IInv, mode = "scan", i_min < i_max, Returns, UNCHANGED <<document, i_src>>
  PROVE  /\ segments' \in Seq((0..Size(document)) \X (0..Size(document)))
         /\ ReturnedOK'
         /\ SegmentsAreDisjoint'
<1> DEFINE new == <<i_min, i_max>>
<1>1. Size(document) \in Nat
  BY SizeIsNat DEF IInv
<1>2. segments \in Seq((0..Size(document)) \X (0..Size(document)))
  BY DEF IInv, TypeOK
<1>3. new \in (0..Size(document)) \X (0..Size(document))
  BY DEF IInv, TypeOK
<1>4. segments' = Append(segments, new) /\ mode' = "idle"
  BY DEF Returns
<1>5. segments' \in Seq((0..Size(document)) \X (0..Size(document)))
  BY <1>2, <1>3, <1>4
<1>6. /\ DOMAIN segments' = 1..Len(segments) + 1
      /\ \A i \in DOMAIN segments : segments'[i] = segments[i]
      /\ segments'[Len(segments) + 1] = new
      /\ DOMAIN segments = 1..Len(segments) /\ Len(segments) \in Nat
  BY <1>2, <1>3, <1>4
<1>7. \A i \in DOMAIN segments :
        /\ segments[i][2] <= i_min /\ segments[i][1] < segments[i][2]
        /\ segments[i][1] \in Nat /\ segments[i][2] \in Nat
  BY <1>1, <1>2 DEF IInv, ReturnedOK, Reached, SegmentsAreDisjoint
<1>8. i_min \in Nat /\ i_max \in Nat /\ i_src \in Nat /\ i_max <= i_src
  BY <1>1 DEF IInv, ScanOK
<1>9. ReturnedOK'
  BY <1>4, <1>6, <1>7, <1>8 DEF ReturnedOK, Reached
<1>10. \A i \in DOMAIN segments' : segments'[i][1] < segments'[i][2]
  BY <1>6, <1>7
<1>11. \A i, j \in DOMAIN segments' : i < j => segments'[i][2] <= segments'[j][1]
  <2> SUFFICES ASSUME NEW i \in DOMAIN segments', NEW j \in DOMAIN segments', i < j
               PROVE  segments'[i][2] <= segments'[j][1]
    OBVIOUS
  <2>1. i \in DOMAIN segments
    BY <1>6
  <2>2. CASE j \in DOMAIN segments
    BY <2>1, <2>2, <1>6 DEF IInv, SegmentsAreDisjoint
  <2>3. CASE j = Len(segments) + 1
    BY <2>1, <2>3, <1>6, <1>7
  <2> QED BY <1>6, <2>2, <2>3
<1> QED BY <1>5, <1>9, <1>10, <1>11 DEF SegmentsAreDisjoint

(***************************************************************************)
(* A step that returns nothing.                                            *)
(***************************************************************************)
LEMMA SameSegments ==
  ASSUME IInv, UNCHANGED segments, Reached' \in Nat, Reached <= Reached'
  PROVE  ReturnedOK' /\ SegmentsAreDisjoint'
<1>1. Size(document) \in Nat
  BY SizeIsNat DEF IInv
<1>2. Reached \in Nat
  BY <1>1 DEF IInv, ScanOK, Reached
<1>3. \A i \in DOMAIN segments : segments[i][2] \in Nat
  BY <1>1 DEF IInv, TypeOK
<1>4. ReturnedOK'
  BY <1>2, <1>3 DEF IInv, ReturnedOK
<1> QED BY <1>4 DEF IInv, SegmentsAreDisjoint

LEMMA NextIInv == IInv /\ [Next]_vars => IInv'
<1> SUFFICES ASSUME IInv, [Next]_vars PROVE IInv'
  OBVIOUS
<1>1. Size(document) \in Nat /\ DocumentOK
  BY SizeIsNat DEF IInv
<1>2. CASE EvaluateStartChar
  <2>1. mode = "start" /\ mode' = "idle" /\ Enters(Upcoming)
        /\ UNCHANGED <<nfa, document, i_src, i_min, i_max, segments>>
    BY <1>2 DEF EvaluateStartChar
  <2>2. /\ IsFiniteSet(catalog') /\ Cardinality(catalog') < MaxDfaStates
        /\ dfa' \in {InitialDFAState} \cup catalog'
    BY <2>1, EntersFacts DEF IInv
  <2>3. Cardinality(catalog') \in Nat
    BY <2>2, FS_CardinalityType
  <2>4. CatalogOK'
    BY <2>2, <2>3, MaxDfaStatesAssumption DEF CatalogOK
  <2>5. TypeOK'
    BY <2>1, <2>2, <2>3, MaxDfaStatesAssumption DEF IInv, TypeOK, Size
  <2>6. ScanOK' /\ DocumentOK'
    BY <2>1, <1>1 DEF IInv, ScanOK, DocumentOK, Size
  <2>7. ReturnedOK' /\ SegmentsAreDisjoint'
    BY <2>1, <1>1, SameSegments DEF IInv, ScanOK, Reached
  <2> QED BY <2>4, <2>5, <2>6, <2>7 DEF IInv
<1>3. CASE BeginNext
  <2>1. /\ mode = "idle" /\ mode' = "scan" /\ i_min' = i_src /\ i_max' = i_src
        /\ UNCHANGED <<nfa, document, dfa, catalog, i_src, segments>>
    BY <1>3 DEF BeginNext
  <2>2. CatalogOK'
    BY <2>1 DEF IInv, CatalogOK
  <2>3. TypeOK'
    BY <2>1 DEF IInv, TypeOK, Size
  <2>4. ScanOK' /\ DocumentOK'
    BY <2>1, <1>1 DEF IInv, ScanOK, DocumentOK, Size
  <2>5. ReturnedOK' /\ SegmentsAreDisjoint'
    BY <2>1, <1>1, SameSegments DEF IInv, ScanOK, Reached
  <2> QED BY <2>2, <2>3, <2>4, <2>5 DEF IInv
<1>4. ASSUME Reads, Advances,
             \/ i_max' = i_src + 1 /\ i_min' = i_min
             \/ i_max' = i_max /\ i_min' \in {i_min, i_src, i_src + 1}
                /\ i_min <= i_min'
      PROVE  IInv'
  <2>1. /\ mode = "scan" /\ mode' = "scan" /\ i_src < Size(document)
        /\ Enters(Upcoming) /\ i_src' = i_src + 1
        /\ UNCHANGED <<nfa, document, segments>>
    BY <1>4 DEF Reads, Advances
  <2>2. /\ IsFiniteSet(catalog') /\ Cardinality(catalog') < MaxDfaStates
        /\ dfa' \in {InitialDFAState} \cup catalog'
    BY <2>1, EntersFacts DEF IInv
  <2>3. Cardinality(catalog') \in Nat
    BY <2>2, FS_CardinalityType
  <2>4. CatalogOK'
    BY <2>2, <2>3, MaxDfaStatesAssumption DEF CatalogOK
  <2>5. Size(document)' = Size(document) /\ DocumentOK'
    BY <2>1, <1>1 DEF Size, DocumentOK
  <2>6. /\ i_src' \in 0..Size(document) /\ i_min' \in 0..i_src'
        /\ i_max' \in 0..i_src' /\ i_min <= i_min'
    BY <2>1, <1>1, <1>4 DEF IInv, ScanOK
  <2>7. ScanOK'
    BY <2>1, <2>5, <2>6, <1>1 DEF ScanOK
  <2>8. TypeOK'
    BY <2>1, <2>2, <2>3, <2>5, <2>6, <1>1, MaxDfaStatesAssumption DEF IInv, TypeOK
  <2>9. ReturnedOK' /\ SegmentsAreDisjoint'
    BY <2>1, <2>6, <1>1, SameSegments DEF Reached
  <2> QED BY <2>4, <2>5, <2>7, <2>8, <2>9 DEF IInv
<1>5. CASE ReadAccepting
  BY <1>4, <1>5 DEF ReadAccepting
<1>6. CASE ReadContinuing
  <2>1. i_min <= i_min' /\ i_min' = i_min /\ i_max' = i_max
    BY <1>6, <1>1 DEF ReadContinuing, IInv, ScanOK
  <2> QED BY <2>1, <1>4, <1>6 DEF ReadContinuing
<1>7. CASE ReadEnding
  <2>1. i_min' \in {i_src, i_src + 1} /\ i_max' = i_max /\ Reads /\ Advances
    BY <1>7 DEF ReadEnding, StartAgain
  <2>2. i_min <= i_src
    BY <2>1 DEF Reads, IInv, ScanOK
  <2>3. i_min <= i_min'
    BY <2>1, <2>2, <1>1 DEF IInv, ScanOK
  <2> QED BY <2>1, <2>3, <1>4
<1>8. CASE ReturnSegment
  <2>1. /\ mode = "scan" /\ mode' = "idle" /\ i_min < i_max /\ Returns
        /\ Enters(Upcoming)
        /\ UNCHANGED <<nfa, document, i_src, i_min, i_max>>
    BY <1>8 DEF ReturnSegment, Reads, Returns
  <2>2. /\ segments' \in Seq((0..Size(document)) \X (0..Size(document)))
        /\ ReturnedOK' /\ SegmentsAreDisjoint'
    BY <2>1, ReturnsFacts
  <2>3. /\ IsFiniteSet(catalog') /\ Cardinality(catalog') < MaxDfaStates
        /\ dfa' \in {InitialDFAState} \cup catalog'
    BY <2>1, EntersFacts DEF IInv
  <2>4. Cardinality(catalog') \in Nat
    BY <2>3, FS_CardinalityType
  <2>5. CatalogOK'
    BY <2>3, <2>4, MaxDfaStatesAssumption DEF CatalogOK
  <2>6. Size(document)' = Size(document) /\ DocumentOK' /\ ScanOK'
    BY <2>1, <1>1 DEF Size, DocumentOK, IInv, ScanOK
  <2>7. TypeOK'
    BY <2>1, <2>2, <2>3, <2>4, <2>6, MaxDfaStatesAssumption DEF IInv, TypeOK
  <2> QED BY <2>2, <2>5, <2>6, <2>7 DEF IInv
<1>9. CASE ReturnLastSegment
  <2>1. /\ mode = "scan" /\ mode' = "idle" /\ i_min < i_max /\ Returns
        /\ UNCHANGED <<nfa, document, dfa, catalog, i_src, i_min, i_max>>
    BY <1>9 DEF ReturnLastSegment, Returns
  <2>2. /\ segments' \in Seq((0..Size(document)) \X (0..Size(document)))
        /\ ReturnedOK' /\ SegmentsAreDisjoint'
    BY <2>1, ReturnsFacts
  <2>3. CatalogOK' /\ DocumentOK' /\ ScanOK' /\ Size(document)' = Size(document)
    BY <2>1, <1>1 DEF Size, DocumentOK, IInv, ScanOK, CatalogOK
  <2>4. TypeOK'
    BY <2>1, <2>2, <2>3 DEF IInv, TypeOK
  <2> QED BY <2>2, <2>3, <2>4 DEF IInv
<1>10. CASE ReturnNull
  <2>1. /\ mode = "scan" /\ mode' = "done" /\ i_min' = Size(document)
        /\ UNCHANGED <<nfa, document, dfa, catalog, i_src, i_max, segments>>
    BY <1>10 DEF ReturnNull
  <2>2. CatalogOK' /\ DocumentOK' /\ ScanOK' /\ Size(document)' = Size(document)
    BY <2>1, <1>1 DEF Size, DocumentOK, IInv, ScanOK, CatalogOK
  <2>3. TypeOK'
    BY <2>1, <2>2, <1>1 DEF IInv, TypeOK
  <2>4. ReturnedOK' /\ SegmentsAreDisjoint'
    BY <2>1, <1>1, SameSegments DEF IInv, ScanOK, Reached
  <2> QED BY <2>2, <2>3, <2>4 DEF IInv
<1>11. CASE ThrowComplexQuery
  <2>1. /\ mode # "thrown" /\ mode' = "thrown"
        /\ catalog' = catalog \cup {Upcoming} /\ Upcoming \notin catalog
        /\ UNCHANGED <<nfa, document, dfa, i_src, i_min, i_max, segments>>
    BY <1>11 DEF ThrowComplexQuery, ExceedsStateLimit
  <2>2. IsFiniteSet(catalog') /\ Cardinality(catalog) \in Nat
        /\ Cardinality(catalog') = Cardinality(catalog) + 1
    BY <2>1, FS_AddElement, FS_CardinalityType DEF IInv, CatalogOK
  <2>3. CatalogOK' /\ Cardinality(catalog') <= MaxDfaStates
    BY <2>1, <2>2, MaxDfaStatesAssumption DEF IInv, CatalogOK
  <2>4. DocumentOK' /\ ScanOK' /\ Size(document)' = Size(document)
    BY <2>1, <1>1 DEF Size, DocumentOK, IInv, ScanOK
  <2>5. TypeOK'
    BY <2>1, <2>3, <2>4 DEF IInv, TypeOK
  <2>6. ReturnedOK' /\ SegmentsAreDisjoint'
    BY <2>1, <1>1, SameSegments DEF IInv, ScanOK, Reached
  <2> QED BY <2>3, <2>4, <2>5, <2>6 DEF IInv
<1>12. CASE UNCHANGED vars
  <2>1. UNCHANGED <<nfa, document, dfa, catalog, i_src, i_min, i_max, mode, segments>>
    BY <1>12 DEF vars
  <2>2. TypeOK' /\ DocumentOK' /\ CatalogOK'
    BY <2>1 DEF IInv, TypeOK, DocumentOK, CatalogOK, Size
  <2>3. ScanOK' /\ ReturnedOK' /\ SegmentsAreDisjoint'
    BY <2>1 DEF IInv, ScanOK, ReturnedOK, Reached, SegmentsAreDisjoint, Size
  <2> QED BY <2>2, <2>3 DEF IInv
<1> QED
  BY <1>2, <1>3, <1>5, <1>6, <1>7, <1>8, <1>9, <1>10, <1>11, <1>12 DEF Next

(***************************************************************************)
(* Theorems.                                                               *)
(***************************************************************************)
LEMMA Invariance == Spec => []IInv
BY InitIInv, NextIInv, PTL DEF Spec

\* The scan stays within the document, and at most MaxDfaStates states are made
\* before ComplexQueryException is thrown (dfa_state_limit_checker.hpp).
THEOREM TypeCorrect == Spec => []TypeOK
<1>1. IInv => TypeOK
  BY DEF IInv
<1> QED BY <1>1, Invariance, PTL

\* No two segments that SegmentIdentificator::next() returns overlap, and none
\* is empty, so that no match can be found in two of them.
THEOREM SegmentsDoNotOverlap == Spec => []SegmentsAreDisjoint
<1>1. IInv => SegmentsAreDisjoint
  BY DEF IInv
<1> QED BY <1>1, Invariance, PTL

----------------------------------------------------------------------------
(***************************************************************************)
(* Coverage. From here on the invariant follows one run of the NFA at a    *)
(* time: what the SearchDFA has kept of it, when it is known to be over,   *)
(* and where the matches it has made lie.                                  *)
(***************************************************************************)

(***************************************************************************)
(* Runs. RunsFrom is a recursive function; that it satisfies its equation  *)
(* has to be shown: the shortest document part on which nothing satisfies  *)
(* it would be one longer than a part on which something does.             *)
(***************************************************************************)
Start(s) == {nfa.initial}
       \cup (IF s = 0 THEN Step(nfa, {nfa.initial}, StartChar) ELSE {})

\* run is a function on the positions from s to n: the states the runs that
\* start at s have reached.
FollowsTo(s, n, run) ==
  run = [e \in s..n |-> IF e = s THEN Start(s)
                        ELSE Step(nfa, run[e - 1], CharAt(document, e - 1))]

IsRun(s, run) ==
  /\ run[s] = Start(s)
  /\ \A e \in s + 1..Size(document) :
       run[e] = Step(nfa, run[e - 1], CharAt(document, e - 1))

LEMMA LeastNumber ==
  ASSUME NEW T, T \subseteq Nat, T # {}
  PROVE  \E x \in T : \A y \in T : ~(y < x)
<1> DEFINE R == {ss \in Nat \X Nat : ss[1] < ss[2]}
<1>1. IsWellFoundedOn(R, Nat)
  BY NatLessThanWellFounded, Zenon DEF OpToRel
<1>2. \E x \in T : \A y \in T : ~(<<y, x>> \in R)
  <2> HIDE DEF R
  <2> QED
    BY <1>1, WFMin
<1> QED
  BY <1>2

LEMMA RunsExist ==
  ASSUME NEW s \in Nat, NEW n \in Nat, s <= n
  PROVE  \E run : FollowsTo(s, n, run)
<1> DEFINE T == {k \in Nat : s <= k /\ ~\E run : FollowsTo(s, k, run)}
<1>1. SUFFICES ASSUME T # {} PROVE FALSE
  OBVIOUS
<1>2. PICK k \in T : \A y \in T : ~(y < k)
  BY <1>1, LeastNumber
<1>3. k \in Nat /\ s <= k /\ ~\E run : FollowsTo(s, k, run)
  OBVIOUS
<1>4. CASE k = s
  <2> DEFINE run == [e \in s..s |-> Start(s)]
  <2>1. run = [e \in s..s |-> IF e = s THEN Start(s)
                              ELSE Step(nfa, run[e - 1], CharAt(document, e - 1))]
    <3>1. \A e \in s..s : e = s
      OBVIOUS
    <3> QED
      BY <3>1
  <2> HIDE DEF run
  <2> QED
    BY <1>3, <1>4, <2>1 DEF FollowsTo
<1>5. CASE k # s
  <2>1. k - 1 \in Nat /\ s <= k - 1 /\ k - 1 < k
    BY <1>3, <1>5
  <2>2. PICK f : FollowsTo(s, k - 1, f)
    BY <1>2, <2>1
  <2> DEFINE g == [e \in s..k |-> IF e = k
                                  THEN Step(nfa, f[k - 1], CharAt(document, k - 1))
                                  ELSE f[e]]
  <2>3. \A e \in s..k - 1 :
          f[e] = IF e = s THEN Start(s)
                 ELSE Step(nfa, f[e - 1], CharAt(document, e - 1))
    BY <2>2 DEF FollowsTo
  <2>4. \A e \in s..k - 1 : g[e] = f[e]
    BY <1>3
  <2>5. g[k] = Step(nfa, f[k - 1], CharAt(document, k - 1))
    BY <1>3
  <2>6. g[k - 1] = f[k - 1]
    BY <1>3, <2>1, <2>4
  <2>7. DOMAIN g = s..k /\ g = [e \in s..k |-> g[e]]
    OBVIOUS
  <2> HIDE DEF g
  <2>8. ASSUME NEW e \in s..k
        PROVE  g[e] = IF e = s THEN Start(s)
                      ELSE Step(nfa, g[e - 1], CharAt(document, e - 1))
    <3>1. CASE e = k
      BY <1>5, <2>5, <2>6, <3>1
    <3>2. CASE e = s
      BY <1>3, <1>5, <2>3, <2>4, <3>2
    <3>3. CASE e # k /\ e # s
      <4>1. e \in s..k - 1 /\ e - 1 \in s..k - 1
        BY <1>3, <3>3
      <4> QED
        BY <2>3, <2>4, <3>3, <4>1
    <3> QED
      BY <3>1, <3>2, <3>3
  <2>9. FollowsTo(s, k, g)
    BY <2>7, <2>8 DEF FollowsTo
  <2> QED
    BY <1>3, <2>9
<1> QED
  BY <1>4, <1>5

LEMMA RunsFromIsRun ==
  ASSUME DocumentOK, NEW s \in 0..Size(document)
  PROVE  IsRun(s, RunsFrom(s))
<1> DEFINE run == RunsFrom(s)
<1>1. Size(document) \in Nat /\ s \in Nat /\ s <= Size(document)
  BY SizeIsNat
<1>2. \E f : FollowsTo(s, Size(document), f)
  BY <1>1, RunsExist
<1>3. FollowsTo(s, Size(document), run)
  BY <1>2, Zenon DEF FollowsTo, RunsFrom, Start
<1> HIDE DEF run
<1>4. \A e \in s..Size(document) :
        run[e] = IF e = s THEN Start(s)
                 ELSE Step(nfa, run[e - 1], CharAt(document, e - 1))
  BY <1>3 DEF FollowsTo
<1>5. IsRun(s, run)
  BY <1>1, <1>4 DEF IsRun
<1> QED
  BY <1>5 DEF run

LEMMA StepIsMonotone ==
  ASSUME NEW S, NEW T, S \subseteq T, NEW a
  PROVE  Step(nfa, S, a) \subseteq Step(nfa, T, a)
BY DEF Step

LEMMA StepOfNone == \A a : Step(nfa, {}, a) = {}
BY DEF Step

----------------------------------------------------------------------------
(***************************************************************************)
(* The invariant. While a call is under way the candidate counts as a      *)
(* segment, and the runs that began before it are over; between two calls, *)
(* every run that began before the scan position is.                       *)
(***************************************************************************)
Found(s, e) ==
  \/ \E g \in Segments : Covers(g, <<s, e>>)
  \/ mode = "scan" /\ Covers(<<i_min, i_max>>, <<s, e>>)

\* What the next character, already read once after a segment, makes of a run.
Followed(s, run) ==
  LET next == Step(nfa, run[i_src], CharAt(document, i_src))
  IN  /\ next \subseteq Step(nfa, dfa.subset, CharAt(document, i_src))
      /\ mode = "idle" \/ s < i_min => next = {}

RunOK(s, run) ==
  /\ mode \in {"idle", "scan"} /\ i_src < Size(document) /\ s < i_src =>
       Followed(s, run)
  /\ mode \in {"idle", "scan", "done"} =>
       \A e \in s + 1..i_src : nfa.accepting \in run[e] => Found(s, e)

BeginningOK ==
  /\ mode = "start" => dfa = InitialDFAState /\ i_src = 0
  /\ mode \in {"idle", "scan"} /\ i_src = 0 =>
       Step(nfa, {nfa.initial}, StartChar) \subseteq dfa.subset

CoverInv ==
  /\ BeginningOK
  /\ \A s \in Nat : \A run : IsRun(s, run) => RunOK(s, run)

\* The query and the document stay, so what is a run stays one.
LEMMA SameRuns ==
  ASSUME UNCHANGED <<nfa, document>>, NEW s, NEW run, IsRun(s, run)'
  PROVE  IsRun(s, run)
BY DEF IsRun, Start, Size

\* A character takes every run to states of the SearchDFA, and ends those that
\* began before the candidate, and all earlier ones if the state says so.
LEMMA RunIsRead ==
  ASSUME IInv, CoverInv, mode = "scan", i_src < Size(document),
         NEW s \in Nat, s <= i_src, NEW run, IsRun(s, run)
  PROVE  /\ run[i_src + 1] = Step(nfa, run[i_src], CharAt(document, i_src))
         /\ run[i_src + 1] \subseteq Upcoming.subset
         /\ s < i_min => run[i_src + 1] = {}
         /\ s < i_src /\ Upcoming.ends => run[i_src + 1] = {}
<1> DEFINE c == CharAt(document, i_src)
<1>1. Size(document) \in Nat /\ i_src \in Nat /\ i_min \in Nat /\ i_min <= i_src
  BY SizeIsNat DEF IInv, ScanOK
<1>2. run[i_src + 1] = Step(nfa, run[i_src], c)
  <2>1. i_src + 1 \in s + 1..Size(document) /\ (i_src + 1) - 1 = i_src
    BY <1>1
  <2>2. run[i_src + 1] = Step(nfa, run[(i_src + 1) - 1], CharAt(document, (i_src + 1) - 1))
    BY <2>1 DEF IsRun
  <2> QED
    BY <2>1, <2>2
<1>3. /\ Upcoming.subset = Step(nfa, dfa.subset \cup {nfa.initial}, c)
      /\ Upcoming.ends <=> Step(nfa, dfa.subset, c) = {}
  BY DEF Upcoming, NextState
<1>4. Step(nfa, dfa.subset, c) \subseteq Upcoming.subset
  BY <1>3, StepIsMonotone
<1>5. CASE s < i_src
  <2>1. /\ run[i_src + 1] \subseteq Step(nfa, dfa.subset, c)
        /\ s < i_min => run[i_src + 1] = {}
    BY <1>2, <1>5 DEF CoverInv, RunOK, Followed
  <2> QED
    BY <1>2, <1>3, <1>4, <2>1
<1>6. CASE s = i_src
  <2>1. run[i_src] = Start(s)
    BY <1>6 DEF IsRun
  <2>2. Start(s) \subseteq dfa.subset \cup {nfa.initial}
    BY <1>6 DEF Start, CoverInv, BeginningOK
  <2>3. run[i_src + 1] \subseteq Upcoming.subset
    BY <1>2, <1>3, <2>1, <2>2, StepIsMonotone
  <2> QED
    BY <1>1, <1>2, <1>6, <2>3
<1> QED
  BY <1>1, <1>5, <1>6

----------------------------------------------------------------------------
(***************************************************************************)
(* Each action preserves it.                                               *)
(***************************************************************************)
LEMMA InitCover == IInv /\ Init => CoverInv
<1> SUFFICES ASSUME Init PROVE CoverInv
  OBVIOUS
<1>1. mode = "start" /\ dfa = InitialDFAState /\ i_src = 0
  BY DEF Init
<1> QED
  BY <1>1 DEF CoverInv, BeginningOK, RunOK

LEMMA StartCover ==
  ASSUME IInv, CoverInv, EvaluateStartChar
  PROVE  CoverInv'
<1>1. /\ mode = "start" /\ mode' = "idle" /\ i_src' = i_src
      /\ dfa = InitialDFAState /\ i_src = 0 /\ dfa' = Upcoming
  BY DEF EvaluateStartChar, Enters, CoverInv, BeginningOK
<1>2. dfa'.subset = Step(nfa, {} \cup {nfa.initial}, StartChar)
  BY <1>1 DEF Upcoming, NextState, InitialDFAState
<1>3. {} \cup {nfa.initial} = {nfa.initial} /\ UNCHANGED nfa
  BY DEF EvaluateStartChar
<1>4. BeginningOK'
  BY <1>1, <1>2, <1>3 DEF BeginningOK
<1>5. ASSUME NEW s \in Nat, NEW run
      PROVE  RunOK(s, run)'
  <2>1. ~(s < i_src') /\ s + 1..i_src' = {}
    BY <1>1
  <2> QED
    BY <2>1 DEF RunOK
<1> QED
  BY <1>4, <1>5 DEF CoverInv

LEMMA BeginCover ==
  ASSUME IInv, CoverInv, BeginNext
  PROVE  CoverInv'
<1>1. /\ mode = "idle" /\ mode' = "scan" /\ i_min' = i_src
      /\ UNCHANGED <<nfa, document, dfa, i_src, segments>>
  BY DEF BeginNext
<1>2. BeginningOK'
  BY <1>1 DEF CoverInv, BeginningOK
<1>3. ASSUME NEW s \in Nat, NEW run, IsRun(s, run)'
      PROVE  RunOK(s, run)'
  <2>1. RunOK(s, run)
    BY <1>1, <1>3, SameRuns DEF CoverInv
  <2>2. Size(document') = Size(document)
    BY <1>1
  <2>3. ASSUME s < i_src, i_src < Size(document)
        PROVE  Followed(s, run)'
    BY <1>1, <2>1, <2>3 DEF RunOK, Followed
  <2>4. ASSUME NEW e \in s + 1..i_src, nfa.accepting \in run[e]
        PROVE  Found(s, e)'
    BY <1>1, <2>1, <2>4 DEF RunOK, Found, Segments
  <2> QED
    BY <1>1, <2>2, <2>3, <2>4 DEF RunOK
<1> QED
  BY <1>2, <1>3 DEF CoverInv

\* A character is read, and the candidate goes on, or begins again.
LEMMA ReadCover ==
  ASSUME IInv, CoverInv, Reads, Advances,
         \/ /\ Accepting(nfa, Upcoming)
            /\ i_max' = i_src + 1 /\ i_min' = i_min
         \/ /\ ~Accepting(nfa, Upcoming)
            /\ i_max' = i_max /\ i_min' = i_min
         \/ /\ ~Accepting(nfa, Upcoming) /\ Upcoming.ends
            /\ ~(i_min < i_max)
            /\ i_max' = i_max /\ i_min' = StartAgain
  PROVE  CoverInv'
<1>1. /\ mode = "scan" /\ mode' = "scan" /\ i_src < Size(document)
      /\ dfa' = Upcoming /\ i_src' = i_src + 1
      /\ UNCHANGED <<nfa, document, segments>>
  BY DEF Reads, Advances, Enters
<1>2. /\ Size(document) \in Nat /\ i_src \in Nat /\ i_min \in Nat /\ i_max \in Nat
      /\ i_min <= i_src /\ i_max <= i_src
  BY <1>1, SizeIsNat DEF IInv, ScanOK
<1>3. BeginningOK'
  BY <1>1, <1>2 DEF BeginningOK
<1>4. ASSUME NEW s \in Nat, NEW run, IsRun(s, run)'
      PROVE  RunOK(s, run)'
  <2>1. IsRun(s, run) /\ RunOK(s, run)
    BY <1>1, <1>4, SameRuns DEF CoverInv
  <2>2. ASSUME s <= i_src
        PROVE  /\ run[i_src + 1] \subseteq Upcoming.subset
               /\ s < i_min => run[i_src + 1] = {}
               /\ s < i_src /\ Upcoming.ends => run[i_src + 1] = {}
    BY <1>1, <2>1, <2>2, RunIsRead
  <2>3. ASSUME s < i_src'
        PROVE  Followed(s, run)'
    <3> DEFINE c == CharAt(document, i_src')
    <3>1. s <= i_src
      BY <1>1, <1>2, <2>3
    <3>2. Step(nfa, run[i_src'], c) \subseteq Step(nfa, dfa'.subset, c)
      BY <1>1, <2>2, <3>1, StepIsMonotone
    <3>3. s < i_min' => run[i_src'] = {}
      <4>1. CASE i_min' = i_min
        BY <1>1, <2>2, <3>1, <4>1
      <4>2. CASE Upcoming.ends /\ i_min' = StartAgain
        <5>1. CASE Upcoming.subset = {}
          BY <1>1, <2>2, <3>1, <5>1
        <5>2. CASE Upcoming.subset # {}
          BY <1>1, <2>2, <3>1, <4>2, <5>2 DEF StartAgain
        <5> QED
          BY <5>1, <5>2
      <4> QED
        BY <4>1, <4>2
    <3>4. s < i_min' => Step(nfa, run[i_src'], c) = {}
      BY <3>3, StepOfNone
    <3> HIDE DEF c
    <3>5. mode' # "idle" /\ UNCHANGED <<nfa, document>>
      BY <1>1
    <3> QED
      BY <3>2, <3>4, <3>5 DEF Followed, c
  <2>4. ASSUME NEW e \in s + 1..i_src', nfa.accepting \in run[e]
        PROVE  Found(s, e)'
    <3>1. CASE e <= i_src
      <4>1. e \in s + 1..i_src /\ s < e
        BY <1>1, <1>2, <3>1
      <4>2. Found(s, e)
        BY <1>1, <2>1, <2>4, <4>1 DEF RunOK
      <4>3. CASE \E g \in Segments : Covers(g, <<s, e>>)
        BY <1>1, <4>3 DEF Found, Segments
      <4>4. CASE i_min <= s /\ e <= i_max
        <5>1. i_min < i_max
          BY <1>2, <4>1, <4>4
        <5>2. i_min' = i_min /\ i_max <= i_max'
          BY <1>2, <5>1
        <5>3. i_max' \in Nat
          BY <1>2
        <5>4. i_min' <= s /\ e <= i_max'
          BY <1>2, <4>4, <4>1, <5>2, <5>3
        <5> QED
          BY <1>1, <5>4 DEF Found, Covers
      <4> QED
        BY <4>2, <4>3, <4>4 DEF Found, Covers
    <3>2. CASE ~(e <= i_src)
      <4>1. e = i_src + 1 /\ s <= i_src
        BY <1>1, <1>2, <3>2
      <4>2. nfa.accepting \in Upcoming.subset /\ ~(s < i_min)
        BY <2>2, <2>4, <4>1
      <4>3. i_max' = i_src + 1 /\ i_min' = i_min
        BY <4>2 DEF Accepting
      <4>4. i_min' <= s /\ e <= i_max'
        BY <1>2, <4>1, <4>2, <4>3
      <4> QED
        BY <1>1, <4>4 DEF Found, Covers
    <3> QED
      BY <3>1, <3>2
  <2>5. nfa' = nfa
    BY <1>1
  <2> QED
    BY <2>3, <2>4, <2>5 DEF RunOK
<1> QED
  BY <1>3, <1>4 DEF CoverInv

\* The candidate becomes a segment.
LEMMA AppendedSegment ==
  ASSUME IInv, mode = "scan", Returns, UNCHANGED <<nfa, document, i_src>>,
         NEW s \in Nat, NEW run, IsRun(s, run), RunOK(s, run)
  PROVE  \A e \in s + 1..i_src' : nfa'.accepting \in run[e] => Found(s, e)'
<1>1. segments \in Seq((0..Size(document)) \X (0..Size(document)))
  BY DEF IInv, TypeOK
<1>2. <<i_min, i_max>> \in (0..Size(document)) \X (0..Size(document))
  BY DEF IInv, TypeOK
<1>3. segments' = Append(segments, <<i_min, i_max>>)
  BY DEF Returns
<1>4. Segments' = Segments \cup {<<i_min, i_max>>}
  <2>1. /\ DOMAIN segments' = DOMAIN segments \cup {Len(segments) + 1}
        /\ \A i \in DOMAIN segments : segments'[i] = segments[i]
        /\ segments'[Len(segments) + 1] = <<i_min, i_max>>
    BY <1>1, <1>2, <1>3
  <2> QED
    BY <2>1 DEF Segments
<1> QED
  BY <1>4 DEF RunOK, Found

LEMMA ReturnCover ==
  ASSUME IInv, CoverInv, ReturnSegment
  PROVE  CoverInv'
<1>1. /\ mode = "scan" /\ mode' = "idle" /\ i_src < Size(document)
      /\ Upcoming.ends /\ i_min < i_max /\ dfa' = Upcoming /\ Returns
      /\ UNCHANGED <<nfa, document, i_src>>
  BY DEF ReturnSegment, Reads, Enters, Returns
<1>2. /\ Size(document) \in Nat /\ i_src \in Nat /\ i_min \in Nat
      /\ i_max \in Nat /\ i_max <= i_src
  BY <1>1, SizeIsNat DEF IInv, ScanOK
<1>3. BeginningOK'
  BY <1>1, <1>2 DEF BeginningOK
<1>4. ASSUME NEW s \in Nat, NEW run, IsRun(s, run)'
      PROVE  RunOK(s, run)'
  <2>1. IsRun(s, run) /\ RunOK(s, run)
    BY <1>1, <1>4, SameRuns DEF CoverInv
  <2>2. ASSUME s < i_src
        PROVE  Followed(s, run)'
    <3> DEFINE c == CharAt(document, i_src)
    <3>1. s <= i_src
      BY <1>2, <2>2
    <3>2. Step(nfa, run[i_src], c) = {}
      BY <1>1, <2>1, <2>2, <3>1, RunIsRead
    <3> HIDE DEF c
    <3>3. c = CharAt(document', i_src') /\ nfa' = nfa /\ i_src' = i_src
      BY <1>1 DEF c
    <3> QED
      BY <3>2, <3>3 DEF Followed
  <2>3. \A e \in s + 1..i_src' : nfa'.accepting \in run[e] => Found(s, e)'
    BY <1>1, <2>1, AppendedSegment
  <2> QED
    BY <1>1, <2>2, <2>3 DEF RunOK
<1> QED
  BY <1>3, <1>4 DEF CoverInv

LEMMA ReturnLastCover ==
  ASSUME IInv, CoverInv, ReturnLastSegment
  PROVE  CoverInv'
<1>1. /\ mode = "scan" /\ mode' = "idle" /\ ~(i_src < Size(document))
      /\ i_min < i_max /\ Returns
      /\ UNCHANGED <<nfa, document, dfa, i_src>>
  <2>1. i_src \in Int /\ Size(document) \in Int
    BY SizeIsNat DEF IInv, ScanOK
  <2> QED
    BY <2>1 DEF ReturnLastSegment, Returns
<1>2. BeginningOK'
  BY <1>1 DEF CoverInv, BeginningOK
<1>3. ASSUME NEW s \in Nat, NEW run, IsRun(s, run)'
      PROVE  RunOK(s, run)'
  <2>1. IsRun(s, run) /\ RunOK(s, run)
    BY <1>1, <1>3, SameRuns DEF CoverInv
  <2>2. \A e \in s + 1..i_src' : nfa'.accepting \in run[e] => Found(s, e)'
    BY <1>1, <2>1, AppendedSegment
  <2>3. ~(i_src' < Size(document'))
    BY <1>1
  <2> QED
    BY <2>2, <2>3 DEF RunOK
<1> QED
  BY <1>2, <1>3 DEF CoverInv

LEMMA NullCover ==
  ASSUME IInv, CoverInv, ReturnNull
  PROVE  CoverInv'
<1>1. /\ mode = "scan" /\ mode' = "done" /\ ~(i_min < i_max)
      /\ UNCHANGED <<nfa, document, i_src, segments>>
  BY DEF ReturnNull
<1>2. i_min \in Nat /\ i_max \in Nat
  BY SizeIsNat DEF IInv, ScanOK
<1>3. ASSUME NEW s \in Nat, NEW run, IsRun(s, run)'
      PROVE  RunOK(s, run)'
  <2>1. RunOK(s, run)
    BY <1>1, <1>3, SameRuns DEF CoverInv
  <2>2. ASSUME NEW e \in s + 1..i_src, nfa.accepting \in run[e]
        PROVE  Found(s, e)'
    <3>1. Found(s, e)
      BY <1>1, <2>1, <2>2 DEF RunOK
    <3>2. ~Covers(<<i_min, i_max>>, <<s, e>>)
      BY <1>1, <1>2 DEF Covers
    <3> QED
      BY <1>1, <3>1, <3>2 DEF Found, Segments
  <2> QED
    BY <1>1, <2>2 DEF RunOK
<1> QED
  BY <1>1, <1>3 DEF CoverInv, BeginningOK

LEMMA NextCover == IInv /\ CoverInv /\ [Next]_vars => CoverInv'
<1> SUFFICES ASSUME IInv, CoverInv, [Next]_vars PROVE CoverInv'
  OBVIOUS
<1>1. CASE EvaluateStartChar
  BY <1>1, StartCover
<1>2. CASE BeginNext
  BY <1>2, BeginCover
<1>3. CASE ReadAccepting
  BY <1>3, ReadCover DEF ReadAccepting
<1>4. CASE ReadContinuing
  BY <1>4, ReadCover DEF ReadContinuing
<1>5. CASE ReadEnding
  BY <1>5, ReadCover DEF ReadEnding
<1>6. CASE ReturnSegment
  BY <1>6, ReturnCover
<1>7. CASE ReturnLastSegment
  BY <1>7, ReturnLastCover
<1>8. CASE ReturnNull
  BY <1>8, NullCover
<1>9. CASE ThrowComplexQuery
  <2>1. mode' = "thrown"
    BY <1>9 DEF ThrowComplexQuery
  <2> QED
    BY <2>1 DEF CoverInv, BeginningOK, RunOK
<1>10. CASE UNCHANGED vars
  <2>1. UNCHANGED <<nfa, document, dfa, i_src, i_min, i_max, mode, segments>>
    BY <1>10 DEF vars
  <2>2. ASSUME NEW s \in Nat, NEW run, IsRun(s, run)'
        PROVE  RunOK(s, run)'
    <3>1. RunOK(s, run)
      BY <2>1, <2>2, SameRuns DEF CoverInv
    <3> QED
      BY <2>1, <3>1 DEF RunOK, Followed, Found, Segments
  <2> QED
    BY <2>1, <2>2 DEF CoverInv, BeginningOK
<1> QED
  BY <1>1, <1>2, <1>3, <1>4, <1>5, <1>6, <1>7, <1>8, <1>9, <1>10 DEF Next

----------------------------------------------------------------------------
\* Every match that ends in the part of the document already read lies within a
\* segment that SegmentIdentificator::next() returned, or within the one it is
\* computing: evaluating the segments one by one misses no match.
THEOREM NoMatchIsLost == Spec => []MatchesAreCovered
<1>1. Spec => []CoverInv
  BY InitIInv, InitCover, NextCover, Invariance, PTL DEF Spec
<1>2. ASSUME IInv, CoverInv
      PROVE  MatchesAreCovered
  <2>1. SUFFICES ASSUME mode \in {"idle", "scan", "done"},
                        NEW m \in Matches, m[2] <= i_src
                 PROVE  \E g \in Segments \cup {<<i_min, i_max>>} : Covers(g, m)
    BY DEF MatchesAreCovered
  <2>2. /\ m \in (0..Size(document)) \X (0..Size(document))
        /\ m[1] < m[2] /\ nfa.accepting \in RunsFrom(m[1])[m[2]]
    BY DEF Matches
  <2>3. PICK s \in 0..Size(document), e \in 0..Size(document) : m = <<s, e>>
    BY <2>2
  <2>4. s \in Nat /\ e \in s + 1..i_src
    BY <1>2, <2>1, <2>2, <2>3, SizeIsNat DEF IInv, ScanOK
  <2>5. IsRun(s, RunsFrom(s))
    BY <1>2, RunsFromIsRun DEF IInv
  <2>6. Found(s, e)
    BY <1>2, <2>1, <2>2, <2>3, <2>4, <2>5 DEF CoverInv, RunOK
  <2> QED
    BY <2>3, <2>6 DEF Found
<1>3. IInv /\ CoverInv => MatchesAreCovered
  BY <1>2
<1> QED
  BY <1>1, <1>3, Invariance, PTL
=============================================================================
