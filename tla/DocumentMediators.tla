-------------------------- MODULE DocumentMediators --------------------------
(***************************************************************************)
(* Queries over a document. The mediator of a finditer query asks for the  *)
(* segments of the document that may have matches, one at a time, and lets *)
(* FinditerAlgorithm list the matches in each; with useful anchors the     *)
(* whole document is its only segment. That of a findone query asks for    *)
(* one segment and has FindoneAlgorithm look for one match. For queries    *)
(* with several spans for a variable (multi) there are two more, whose     *)
(* answers are annotations instead of spans.                               *)
(***************************************************************************)
EXTENDS Mediator, FindoneAlgorithm, Mappings, MediatorConstructor

CONSTANT MultiQueries  \* those that only MultiQuery accepts

\* An automaton is made with two states, its initial and its accepting one, and
\* no operation makes one of them (logical_va.cpp:10-21).
ASSUME QueriesAssumption ==
  \A q \in Queries :
    /\ DOMAIN q.va = {"states", "initial", "accepting", "reads"}
    /\ q.va.initial # q.va.accepting

\* A label node carries the markers of a transition and a position.
ASSUME LabelsAssumption ==
  \A q \in Queries : \A t \in q.va.reads :
    t.code # {} => {t.code} \X (0..MaxDocument + 1) \subseteq Labels

VARIABLES
  kind,
  taken  \* how many segments the algorithm has been given

vars == <<kind, query, filter, taken, algorithm>>

Findones == {"findone", "multi_findone"}
Multis == {"multi_finditer", "multi_finditer_document", "multi_findone"}
OfDocument == {"finditer_document", "multi_finditer_document"}

Init ==
  /\ InitQuery
  /\ \/ kind \in {CreateMultiFinditerMediator(query, FALSE),
                  CreateMultiFindoneMediator(query, FALSE)}
     \/ /\ query \notin MultiQueries
        /\ kind \in {CreateFinditerMediator(query, FALSE),
                     CreateFindoneMediator(query, FALSE)}
  /\ taken = 0

----------------------------------------------------------------------------
AskForSegment ==
  /\ kind \notin OfDocument /\ taken = Len(segments)
  /\ kind \in Findones => segments = << >>
  /\ NextSegment
  /\ UNCHANGED <<kind, taken>>

(***************************************************************************)
(* update_algorithm. That of a findone query calls begin(), which goes to  *)
(* the start of the segment, before it says which the segment is: the      *)
(* document is read from its start whatever the segment.                   *)
(***************************************************************************)
SegmentToEvaluate ==
  IF kind \in OfDocument THEN <<0, Size(document)>> ELSE Last(segments)

Begin ==
  LET span == Widened(SegmentToEvaluate)
      from == IF kind \in Findones THEN 0 ELSE span[1]
  IN  /\ taken < IF kind \in OfDocument THEN 1 ELSE Len(segments)
      /\ UpdateAlgorithm(<<from, span[2]>>, taken = 0)
      /\ taken' = taken + 1
      /\ UNCHANGED <<kind, query, filter>>

ReturnNull ==
  /\ mode = "segment"
  /\ IF kind \in OfDocument THEN taken = 1 ELSE scan \in {"done", "thrown"}
  /\ mode' = IF scan = "thrown" THEN "thrown" ELSE "done"
  /\ UNCHANGED <<kind, query, filter, taken, input, heap, det, lists, pairs,
                 pos, end, root, enumerator, history>>

EvaluateAll == AlgorithmNext /\ UNCHANGED <<kind, query, filter, taken>>
EvaluateFirst == FindoneStep /\ UNCHANGED <<kind, query, filter, taken>>

(***************************************************************************)
(* The mediators.                                                          *)
(***************************************************************************)
Finditer ==
  /\ kind \in {"finditer", "finditer_document"}
  /\ AskForSegment \/ Begin \/ EvaluateAll \/ ReturnNull
Findone ==
  /\ kind = "findone"
  /\ AskForSegment \/ Begin \/ EvaluateFirst \/ ReturnNull
MultiFinditer ==
  /\ kind \in {"multi_finditer", "multi_finditer_document"}
  /\ AskForSegment \/ Begin \/ EvaluateAll \/ ReturnNull
MultiFindone ==
  /\ kind = "multi_findone"
  /\ AskForSegment \/ Begin \/ EvaluateFirst \/ ReturnNull

Next == Finditer \/ Findone \/ MultiFinditer \/ MultiFindone

\* The client goes on asking for matches until there is none.
Spec == Init /\ [][Next]_vars /\ WF_vars(Next)

----------------------------------------------------------------------------
(***************************************************************************)
(* What next() makes of a mapping of the algorithm: the span of each       *)
(* variable, or the spans of each in the annotations.                      *)
(***************************************************************************)
QueryVariables == {Variable(bit) : bit \in query.markers}

UserMapping(output) == ConstructUserMapping(QueryVariables, output)
MultiMapping(output) == ConstructExtendedMapping(output)

Answers ==
  [i \in DOMAIN listed |-> IF kind \in Multis THEN MultiMapping(listed[i])
                           ELSE UserMapping(listed[i])]

(***************************************************************************)
(* Properties.                                                             *)
(***************************************************************************)
\* What a match is to be answered as: by multi queries all of its spans.
AnswerOf(output) ==
  IF kind \in Multis THEN AllSpans(output)
  ELSE [v \in QueryVariables |-> SpansOf(output, v)[1]]

AnswersOf(outputs) == {AnswerOf(o) : o \in outputs}

\* A match that opens no variable, which only a multi query may have.
HasUnmarkedMatch == << >> \in Outputs(query.va, document)

\* No match is answered twice, and none that is not one; when a finditer query
\* has been answered, every match has been. (Loops, duplicated states, subsets,
\* unions of nodes, segments and recycled memory all stand between, and then
\* the order of the markers at one position.) Nothing is claimed of queries with
\* an unmarked match: see NodesInUseArePinned.
NothingElseIsListed ==
  kind \notin Findones =>
    \/ /\ IsInjective(Answers)
       /\ ToSet(Answers) \subseteq AnswersOf(Outputs(query.va, document))
    \/ HasUnmarkedMatch

Lost == AnswersOf(Outputs(query.va, document)) \ ToSet(Answers)

\* But for those of a multi query that begin as another one and go on: a
\* deterministic state that accepts is enumerated and not carried on.
EveryMatchIsListed ==
  mode = "done" /\ kind \notin Findones =>
    IF kind \notin Multis THEN Lost = {}
    ELSE \A l \in Lost : \E m \in ToSet(Answers) : \A v \in DOMAIN m :
           v \in DOMAIN l /\ IsPrefix(m[v], l[v])

\* "findone returns a pointer to the first encountered match" (README.md:217):
\* one of those that are complete when the fewest characters have been read,
\* and none only when there is none. In particular the segment that the
\* filter finds does have a match, which the mediator relies on.
FirstMatchIsFound ==
  /\ mode # "null"
  /\ mode = "done" /\ kind \in Findones =>
       IF FirstOutputs(query.va, document) = {} THEN Answers = << >>
       ELSE /\ Len(Answers) = 1
            /\ Answers[1] \in AnswersOf(FirstOutputs(query.va, document))

\* "If the node is going to be used in another scope, it is necessary to pin it
\* so that the memory manager does not recycle its memory location"
\* (ecs.hpp:61-62): the count of a node covers the states that are alive, the
\* enumeration and the other nodes that need it, so that it is not given to
\* somebody else.
NodesInUseArePinned ==
  mode # "thrown" =>
    \A n \in Addresses(heap) : heap.ref[n] >= Holders(n) + Parents(n)

\* It is so unless a match is unmarked. Until the first segment ends the count
\* is exact between two rounds (a node that is not kept is freed at once), and
\* the free list has the nodes that have none. After it a node may stay pinned
\* for ever: the states that are still alive are dropped with theirs.
HeldNodesAreCounted ==
  /\ NodesInUseArePinned \/ HasUnmarkedMatch
  /\ taken <= 1 /\ mode \in {"start", "evaluate", "read", "root", "list"} =>
       \A n \in Addresses(heap) : /\ heap.ref[n] = Holders(n) + Parents(n)
                                  /\ heap.ref[n] = 0 <=> n \in Free(heap)

\* Every match is answered with or an exception is thrown: no call loops.
QueryIsAnswered == HasUnmarkedMatch \/ <>(mode \in {"done", "thrown"})
=============================================================================
