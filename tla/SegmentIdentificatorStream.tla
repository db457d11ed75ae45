--------------------- MODULE SegmentIdentificatorStream ---------------------
(***************************************************************************)
(* The filtering module over a stream. A character can be read only once,  *)
(* so the one under evaluation is kept between two calls, and a segment    *)
(* that the buffer cannot hold is returned unfinished, for the algorithm   *)
(* to read the rest of the stream itself.                                  *)
(*                                                                         *)
(* One action is one iteration of the loop of                              *)
(* next_is_computed_successfully, up to reading the next character.        *)
(***************************************************************************)
EXTENDS SearchDFA, CircularBuffer

CONSTANTS
  Nfas,         \* the NFAs of the queries considered
  MaxDocument,  \* bound: characters of a stream
  BufferSizes   \* bound: the sizes of buffer considered

VARIABLES
  nfa,
  document,              \* what the reader gives
  buffer,                \* of the stream, shared with the algorithm
  dfa, catalog,
  i_src, i_min, i_max,
  current_char, read_from_stream,
  mode,                  \* "start", "idle", "scan", "done", "thrown"
  segments               \* history: the segments returned, and whether they fit

vars == <<nfa, document, buffer, dfa, catalog, i_src, i_min, i_max,
          current_char, read_from_stream, mode, segments>>
scan == <<i_src, i_min, i_max, current_char, read_from_stream>>

(***************************************************************************)
(* Stream::read: the characters of the reader, then once the one that ends *)
(* every document. What it reads is in the buffer.                         *)
(***************************************************************************)
CanRead(doc, b) == b.file_pos < Size(doc)
Upcoming(doc, b) == CharAt(doc, b.file_pos)
AfterRead(doc, b) == IF CanRead(doc, b) THEN Insert(b, Upcoming(doc, b)) ELSE b

ReadStream ==
  /\ buffer' = AfterRead(document, buffer)
  /\ read_from_stream' = CanRead(document, buffer)
  /\ current_char' = IF CanRead(document, buffer) THEN Upcoming(document, buffer)
                     ELSE current_char

\* The first character is read when the query is made.
Init ==
  /\ nfa \in Nfas
  /\ document \in UNION {[1..k -> Letters] : k \in 0..MaxDocument}
  /\ buffer \in {AfterRead(document, EmptyBuffer(size)) : size \in BufferSizes}
  /\ current_char = CharAt(document, 0)
  /\ read_from_stream = TRUE
  /\ dfa = InitialDFAState
  /\ catalog = {}
  /\ i_src = 0 /\ i_min = 0 /\ i_max = 1
  /\ mode = "start"
  /\ segments = << >>

----------------------------------------------------------------------------
Target == NextState(nfa, dfa, IF mode = "start" THEN StartChar ELSE current_char)

Enters(d) ==
  /\ ~ExceedsStateLimit(catalog, d)
  /\ dfa' = d
  /\ catalog' = catalog \cup {d}

EvaluateStartChar ==
  /\ mode = "start"
  /\ Enters(Target)
  /\ mode' = "idle"
  /\ UNCHANGED <<nfa, document, buffer, scan, segments>>

BeginNext ==
  /\ mode = "idle"
  /\ i_min' = i_src /\ i_max' = i_src
  /\ mode' = "scan"
  /\ UNCHANGED <<nfa, document, buffer, dfa, catalog, i_src, current_char,
                 read_from_stream, segments>>

----------------------------------------------------------------------------
\* What the character makes of the candidate segment, when it does not end one.
Ends == ~Accepting(nfa, Target) /\ Target.ends
Min1 == IF ~Ends THEN i_min ELSE IF Target.subset = {} THEN i_src + 1 ELSE i_src
Max1 == IF Accepting(nfa, Target) THEN i_src + 1 ELSE i_max

Overflows_TooLate(b) == i_src - Min1 >= BufferSize(b) /\ Min1 < i_src  \* mutant
Overflows(b) == i_src - Min1 >= BufferSize(b) - 1 /\ Min1 < i_src

Returns(span, fits) ==
  /\ segments' = Append(segments, [span |-> span, fits |-> fits])
  /\ mode' = "idle"

Reads == mode = "scan" /\ read_from_stream /\ Enters(Target)

ReadOn ==
  /\ Reads
  /\ ~(Ends /\ i_min < i_max)
  /\ ~Overflows(buffer)
  /\ i_min' = Min1 /\ i_max' = Max1
  /\ i_src' = i_src + 1
  /\ ReadStream
  /\ UNCHANGED <<nfa, document, mode, segments>>

\* FitsInBuffer. The next call evaluates the same character again.
ReturnSegment ==
  /\ Reads
  /\ Ends /\ i_min < i_max
  /\ Returns(<<i_min, i_max>>, TRUE)
  /\ UNCHANGED <<nfa, document, buffer, scan>>

\* DoesNotFitInBuffer, with this character still to be looked at.
ReturnOverflow ==
  /\ Reads
  /\ ~(Ends /\ i_min < i_max)
  /\ Overflows(buffer)
  /\ i_min' = Min1 /\ i_max' = i_src
  /\ Returns(<<Min1, i_src>>, FALSE)
  /\ UNCHANGED <<nfa, document, buffer, i_src, current_char, read_from_stream>>

\* At the end of the stream what is left is a segment, matches or not.
ReturnLastSegment ==
  /\ mode = "scan" /\ ~read_from_stream
  /\ i_min < i_src
  /\ Returns(<<i_min, i_max>>, TRUE)
  /\ UNCHANGED <<nfa, document, buffer, dfa, catalog, scan>>

\* NoSegmentFound.
ReturnNone ==
  /\ mode = "scan" /\ ~read_from_stream
  /\ ~(i_min < i_src)
  /\ i_min' = i_src
  /\ mode' = "done"
  /\ UNCHANGED <<nfa, document, buffer, dfa, catalog, i_src, i_max, current_char,
                 read_from_stream, segments>>

\* ComplexQueryException.
ThrowComplexQuery ==
  /\ mode = "start" \/ (mode = "scan" /\ read_from_stream)
  /\ ExceedsStateLimit(catalog, Target)
  /\ catalog' = catalog \cup {Target}
  /\ mode' = "thrown"
  /\ UNCHANGED <<nfa, document, buffer, dfa, scan, segments>>

Next ==
  \/ EvaluateStartChar
  \/ BeginNext
  \/ ReadOn
  \/ ReturnSegment
  \/ ReturnOverflow
  \/ ReturnLastSegment
  \/ ReturnNone
  \/ ThrowComplexQuery
=============================================================================
