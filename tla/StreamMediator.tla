--------------------------- MODULE StreamMediator ---------------------------
(***************************************************************************)
(* A query over a stream: the filter and the algorithm take turns at       *)
(* reading one stream through one circular buffer. The algorithm reads     *)
(* back the segments that the buffer holds; of a segment that it does not  *)
(* hold it reads back the beginning, and the rest from the stream itself.  *)
(* It differs from FinditerAlgorithm in no other way. There is a mediator  *)
(* for queries with several spans for a variable (multi) too; for findone  *)
(* there is none, and the first answer is taken.                           *)
(***************************************************************************)
EXTENDS Mediator, CircularBuffer, Mappings, MediatorConstructor

CONSTANTS
  BufferSizes,
  MultiQueries  \* those that only MultiQuery accepts

ASSUME NoCharAssumption == NoChar \notin Characters

\* In a buffer of one cell the character that ends a segment takes the place of
\* the segment; nothing in the code asks for more, but it cannot work with less.
ASSUME BufferSizesAssumption == BufferSizes \subseteq Nat \ {0, 1}

\* The transitions of an automaton are between its states.
ASSUME AutomataAssumption ==
  \A q \in Queries :
    /\ q.va.initial \in q.va.states
    /\ \A t \in q.va.reads : t.to \in q.va.states /\ t.code \in SUBSET Nat

\* Query refuses an expression whose matches may do without one of its variables
\* (variable_catalog_visitor.hpp:49, EveryVariableHasOneSpan of QueryConstruction).
ASSUME CapturesAssumption ==
  \A q \in Queries \ MultiQueries, k \in 0..MaxDocument : \A doc \in [1..k -> Letters] :
    \A o \in Outputs(q.va, doc), v \in {Variable(bit) : bit \in q.markers} :
      \E i \in DOMAIN o : Closes(o[i][1], v)

VARIABLES
  kind,
  buffer, current_char, read_from_stream,  \* of SegmentIdentificatorStream
  taken                                    \* segments the algorithm was given

SegStr == INSTANCE SegmentIdentificatorStream
            WITH nfa <- query.nfa, mode <- scan, MaxDfaStates <- MaxDetStates,
                 Nfas <- {q.nfa : q \in Queries}

stream == <<buffer, current_char, read_from_stream>>
vars == <<kind, query, filter, stream, taken, algorithm>>

Init ==
  /\ query \in Queries
  /\ \/ kind = CreateStreamMultiMediator(query, FALSE)
     \/ /\ query \notin MultiQueries
        /\ kind \in {CreateStreamMediator(query, FALSE),
                     CreateStreamFindoneMediator(query, FALSE)}
  /\ SegStr!Init
  /\ Start(CleanForDeterminization(query.va), document)
  /\ taken = 0

----------------------------------------------------------------------------
(***************************************************************************)
(* The mediators. Anchors make no difference to them.                      *)
(***************************************************************************)
AskForSegment ==
  /\ mode = "segment" /\ taken = Len(segments)
  /\ UNCHANGED <<kind, query>>
  /\ SegStr!Next
  /\ UNCHANGED <<taken, va, char, heap, det, lists, pairs, pos, end, root, mode,
                 enumerator, history>>

TakeSegment ==
  /\ taken < Len(segments)
  /\ UpdateAlgorithm(Widened(Last(segments).span), taken = 0)
  /\ taken' = taken + 1
  /\ UNCHANGED <<kind, query, filter, stream>>

\* set_null_segment.
TakeNull ==
  /\ scan = "done" /\ taken = 0
  /\ UpdateAlgorithm(<<0, 0>>, TRUE)
  /\ taken' = 1
  /\ UNCHANGED <<kind, query, filter, stream>>

ReturnNull ==
  /\ mode = "segment"
  /\ scan = "thrown" \/ (scan = "done" /\ taken > 0)
  /\ mode' = scan
  /\ UNCHANGED <<kind, query, filter, stream, taken, input, heap, det, lists, pairs,
                 pos, end, root, enumerator, history>>

----------------------------------------------------------------------------
(***************************************************************************)
(* The algorithm.                                                          *)
(***************************************************************************)
Overflowed_Never == FALSE  \* mutant: the rest of a segment is not read
Overflowed == segments # << >> /\ ~Last(segments).fits

\* A cell that was never written may hold any character.
ReadBack ==
  /\ mode = "evaluate" /\ pos < end
  /\ \E c \in IF At(buffer, pos) = NoChar THEN Characters ELSE {At(buffer, pos)} :
       char' = c
  /\ mode' = "read"
  /\ UNCHANGED <<stream, va, document, heap, det, lists, pairs, pos, end, root,
                 enumerator, history>>

ReadStream ==
  /\ mode = "evaluate" /\ pos >= end
  /\ Overflowed /\ SegStr!CanRead(document, buffer)
  /\ char' = SegStr!Upcoming(document, buffer)
  /\ buffer' = SegStr!AfterRead(document, buffer)
  /\ mode' = "read"
  /\ UNCHANGED <<current_char, read_from_stream, va, document, heap, det, lists,
                 pairs, pos, end, root, enumerator, history>>

EndOfStreamSegment ==
  /\ EndOfSegment
  /\ Overflowed => ~SegStr!CanRead(document, buffer)
  /\ UNCHANGED stream

EvaluateSingleCharacter ==
  \/ GetNextStates
  \/ ThrowComplexQuery
  \/ DieOut
  \/ LeaveState

UpdateSets == \E p \in pairs : HandOn(p) \/ ThrowMemoryLimitAtHandOn(p)

CreateRootNodeToEnumerate ==
  \/ ReleaseRoot
  \/ TakeFirstFinalState
  \/ JoinFinalState
  \/ ThrowMemoryLimitAtJoin

NextMapping ==
  \/ StartEnumeration
  \/ FinishSegment
  \/ Enumerate
  \/ ResetEnumerator

Evaluate ==
  /\ \/ ReadBack
     \/ ReadStream
     \/ EndOfStreamSegment
     \/ /\ \/ EvaluateSingleCharacter
           \/ UpdateSets
           \/ SwapStateLists
           \/ CreateRootNodeToEnumerate
           \/ NextMapping
        /\ UNCHANGED stream
  /\ UNCHANGED <<kind, query, filter, taken>>

NextAnswer == AskForSegment \/ TakeSegment \/ TakeNull \/ Evaluate \/ ReturnNull

Stream == kind = "stream" /\ NextAnswer
StreamMulti == kind = "stream_multi" /\ NextAnswer

Next == Stream \/ StreamMulti

\* The client goes on asking for matches until there is none.
Spec == Init /\ [][Next]_vars /\ WF_vars(Next)

----------------------------------------------------------------------------
(***************************************************************************)
(* What next() makes of a mapping of the algorithm.                        *)
(***************************************************************************)
QueryVariables == {Variable(bit) : bit \in query.markers}

UserMapping(output) ==
  LET mapping == ConstructUserMapping(QueryVariables, output)
  IN  [v \in DOMAIN mapping |-> <<mapping[v]>>]
MultiMapping(output) == ConstructExtendedMapping(output)
SpansOfAnswer(output) ==
  IF kind = "stream_multi" THEN MultiMapping(output) ELSE UserMapping(output)

(***************************************************************************)
(* Properties.                                                             *)
(***************************************************************************)
NoOverflowBefore(n) == \A i \in 1..n - 1 : segments[i].fits

\* What the algorithm reads at a position is the character of the document
\* there, although the filter has gone on reading into the same buffer: so it
\* is until a segment has not fitted, and within the first one that does not.
ReadsTheDocument ==
  mode = "read" /\ NoOverflowBefore(taken) /\ pos < Size(document)
    => char = CharAt(document, pos)

\* As over a document, if every segment fits and nothing is anchored: no match
\* is listed twice, and none that is not one.
NothingElseIsListedIfAllFits ==
  ~query.anchored /\ (\A i \in DOMAIN segments : segments[i].fits)
    => /\ IsInjective(listed)
       /\ ToSet(listed) \subseteq Outputs(query.va, document)

\* However small the buffer is, no match is missed, but for those of a multi
\* query that begin as another one and go on: a deterministic state that accepts
\* is enumerated and not carried on. (The last annotation comes first.)
EveryMatchIsListed ==
  mode = "done" =>
    \A o \in Outputs(query.va, document) \ ToSet(listed) :
      kind = "stream_multi" /\ \E m \in ToSet(listed) : IsSuffix(m, o)

\* The text of a match, asked for at any time after, is that of the document,
\* or is refused with an exception. (A group as long as the buffer is left out.)
GroupsAreOfTheDocument ==
  \A o \in ToSet(listed) \cap Outputs(query.va, document) :
    LET spans == SpansOfAnswer(o)
    IN  \A v \in DOMAIN spans : \A i \in DOMAIN spans[v] :
          LET span == spans[v][i]
          IN  \/ SubstrThrows(buffer, span)
              \/ span[2] - span[1] >= BufferSize(buffer)
              \/ Substr(buffer, span) = SubSeq(document, span[1] + 1, span[2])

\* Every match is answered with or an exception is thrown: no call loops.
QueryIsAnswered == <>(mode \in {"done", "thrown"})
=============================================================================
