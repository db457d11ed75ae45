---------------------------- MODULE LineMediators ----------------------------
(***************************************************************************)
(* Queries line by line: the mediator goes through the lines of a document *)
(* or of a stream, asks the SegmentChecker whether a line has a match, and *)
(* has the algorithm evaluate those that do, each as a document of its     *)
(* own. Its answers are shifted to where the line is. There is a mediator  *)
(* for each pair of a source and a kind of query, and as many for queries  *)
(* with several spans for a variable (multi), whose answers are annotations*)
(* instead of spans. Queries without variables are only checked.           *)
(***************************************************************************)
EXTENDS FindoneAlgorithm, PlainMatches, Lines, Mappings, MediatorConstructor

CONSTANTS
  Queries,      \* records of an extended VA, an NFA and whether it is anchored
  MultiQueries, \* those that only MultiQuery accepts
  Texts,        \* bound: the documents and streams considered
  BufferSizes   \* bound: the sizes of buffer considered

VARIABLES
  kind, query,
  text,         \* what is split into lines; document is the current line
  buffer,       \* of a stream
  splitter,     \* initial_pos (current_end, of a document) and reached_end
  checker,
  line_offset,
  answers       \* history: of the lines before this one

lines == <<buffer, splitter, checker, line_offset, answers>>
algorithm == <<input, heap, det, lists, pairs, pos, end, root, mode, enumerator,
               history>>
vars == <<kind, query, text, lines, algorithm>>

Streams == {"stream_lbl", "stream_multi_lbl", "stream_check_lbl", "stream_check",
            "stream_multi_check_lbl", "stream_multi_check"}
Findones == {"findone_lbl", "multi_findone_lbl"}
Multis == {"multi_finditer_lbl", "multi_findone_lbl", "stream_multi_lbl"}
WholeChecks == {"check", "multi_check", "stream_check", "stream_multi_check"}
Checks == WholeChecks \cup {"check_lbl", "multi_check_lbl", "stream_check_lbl",
                            "stream_multi_check_lbl"}

\* The mediators that check() makes, and those that the other calls of Query
\* and of MultiQuery do.
CreatedForCheck ==
  {CheckOf(FALSE), CheckOf(TRUE), StreamCheckOf(FALSE), StreamCheckOf(TRUE)}
CreatedForQuery(q) ==
  {CreateFinditerMediator(q, TRUE), CreateFindoneMediator(q, TRUE),
   CreateStreamMediator(q, TRUE), CreateStreamFindoneMediator(q, TRUE)}
CreatedForMulti(q) ==
  {CreateMultiFinditerMediator(q, TRUE), CreateMultiFindoneMediator(q, TRUE),
   CreateStreamMultiMediator(q, TRUE)}
\* Without variables the queries of whole texts are checks too.
CreatedForWhole(q) ==
  {CreateFinditerMediator(q, FALSE), CreateStreamMediator(q, FALSE),
   CreateMultiFinditerMediator(q, FALSE), CreateStreamMultiMediator(q, FALSE)}

Init ==
  /\ query \in Queries
  /\ \/ kind \in CreatedForCheck \cup CreatedForMulti(query)
     \/ query \notin MultiQueries /\ kind \in CreatedForQuery(query)
     \/ query.markers = {} /\ kind \in CreatedForWhole(query)
  /\ text \in Texts
  /\ buffer \in {EmptyBuffer(size) :
                   size \in IF kind \in Streams THEN BufferSizes ELSE {1}}
  /\ splitter = [initial_pos |-> 0, reached_end |-> FALSE]
  /\ checker = NewChecker
  /\ line_offset = 0
  /\ answers = << >>
  /\ Start(CleanForDeterminization(query.va), << >>)

----------------------------------------------------------------------------
(***************************************************************************)
(* What next() makes of the algorithm's mapping: the span of each variable,*)
(* or all its spans, in the text.                                          *)
(***************************************************************************)
QueryVariables == {Variable(bit) : bit \in query.markers}

UserMapping(output) ==
  Shift(ConstructUserMapping(QueryVariables, output), line_offset)

\* Mutant: the annotations of every line are those of the first.
MultiMapping_Unshifted(output) == ConstructExtendedMapping(output)
MultiMapping(output) == ConstructExtendedMapping(ShiftExtended(output, line_offset))

AnswersOfLine ==
  [i \in DOMAIN listed |-> IF kind \in Multis THEN MultiMapping(listed[i])
                           ELSE UserMapping(listed[i])]

----------------------------------------------------------------------------
(***************************************************************************)
(* The next line: characters is how the line reads, one by one for the     *)
(* checker and as a segment for the algorithm.                             *)
(***************************************************************************)
Resolved(chars) ==
  {c \in [DOMAIN chars -> Characters] :
     \A i \in DOMAIN chars : chars[i] # NoChar => c[i] = chars[i]}

\* A line without a match; its answers are given, and the next one is asked for.
CollectAnswers == answers' = answers \o AnswersOfLine /\ listed' = << >>

SkipLine(checked) ==
  /\ ~checked.accepted /\ ~checked.thrown
  /\ checker' = checked
  /\ CollectAnswers
  /\ UNCHANGED <<line_offset, input, heap, det, lists, pairs, pos, end, root,
                 mode, enumerator, delay>>

\* update_algorithm and evaluate_start_char.
BeginLine(line, segment, checked) ==
  /\ kind \notin Checks /\ checked.accepted
  /\ checker' = checked
  /\ CollectAnswers
  /\ line_offset' = line[1]
  /\ document' \in Resolved(segment)
  /\ char' = StartChar
  /\ BeginAt(<<0, Len(segment) + 1>>, TRUE)
  /\ UNCHANGED <<va, delay>>

\* A query without variables has an empty mapping to return, only once.
ReturnEmptyMapping(checked) ==
  /\ kind \in Checks /\ checked.accepted
  /\ checker' = checked
  /\ answers' = <<NoEntries>>
  /\ mode' = "done"
  /\ UNCHANGED <<line_offset, input, heap, det, lists, pairs, pos, end, root,
                 enumerator, history>>

\* ComplexQueryException, out of the checker.
ThrowComplexLine(checked) ==
  /\ checked.thrown
  /\ checker' = checked
  /\ CollectAnswers
  /\ mode' = "thrown"
  /\ UNCHANGED <<line_offset, input, heap, det, lists, pairs, pos, end, root,
                 enumerator, delay>>

Take(line, chars, segment) ==
  LET checked == Check(query.nfa, checker, chars)
  IN  \/ SkipLine(checked)
      \/ BeginLine(line, segment, checked)
      \/ ReturnEmptyMapping(checked)
      \/ ThrowComplexLine(checked)

\* After the last line, or when a line is refused.
Stop(final_mode) ==
  /\ CollectAnswers
  /\ mode' = final_mode
  /\ UNCHANGED <<checker, line_offset, input, heap, det, lists, pairs, pos, end,
                 root, enumerator, delay>>

NextLineOfDocument ==
  LET line == LineOfDocument(text, splitter.initial_pos)
      chars == LineText(text, line)
  IN  /\ mode = "segment"
      /\ UNCHANGED <<kind, query, text, buffer>>
      /\ \/ /\ line = NoLine
            /\ UNCHANGED splitter
            /\ Stop("done")
         \/ /\ line # NoLine
            /\ splitter' = [splitter EXCEPT !.initial_pos = line[2] + 1]
            /\ Take(line, chars, chars)

\* EvaluationException for a line that the buffer does not hold.
NextLineOfStream ==
  LET line == LineOfStream(text, buffer, splitter)
  IN  /\ mode = "segment"
      /\ UNCHANGED <<kind, query, text>>
      /\ buffer' = AfterLine(text, buffer)
      /\ splitter' = AfterLineOfStream(text, buffer, splitter)
      /\ \/ /\ line = NoLine
            /\ Stop("done")
         \/ /\ line # NoLine /\ DoesNotFit(buffer, line)
            /\ Stop("refused")
         \/ /\ line # NoLine /\ ~DoesNotFit(buffer, line)
            /\ Take(line, [i \in 1..line[2] - line[1] |-> At(buffer', line[1] + i - 1)],
                    GetSegment(buffer', line))

(***************************************************************************)
(* Without lines the end of the text is read as one of its characters, and *)
(* then once more.                                                         *)
(***************************************************************************)
CheckAll ==
  LET checked == Check(query.nfa, checker, Append(text, EndChar))
  IN  /\ mode = "segment"
      /\ UNCHANGED <<kind, query, text, buffer, splitter>>
      /\ \/ ReturnEmptyMapping(checked)
         \/ ThrowComplexLine(checked)
         \/ /\ ~checked.accepted /\ ~checked.thrown
            /\ Stop("done")

----------------------------------------------------------------------------
(***************************************************************************)
(* The mediators.                                                          *)
(***************************************************************************)
EvaluateLine == AlgorithmNext /\ UNCHANGED <<kind, query, text, lines>>
EvaluateFirst == FindoneStep /\ UNCHANGED <<kind, query, text, lines>>

FinditerLbl == kind = "finditer_lbl" /\ (NextLineOfDocument \/ EvaluateLine)
FindoneLbl == kind = "findone_lbl" /\ (NextLineOfDocument \/ EvaluateFirst)
StreamLbl == kind = "stream_lbl" /\ (NextLineOfStream \/ EvaluateLine)
MultiFinditerLbl ==
  kind = "multi_finditer_lbl" /\ (NextLineOfDocument \/ EvaluateLine)
MultiFindoneLbl ==
  kind = "multi_findone_lbl" /\ (NextLineOfDocument \/ EvaluateFirst)
StreamMultiFinditerLbl ==
  kind = "stream_multi_lbl" /\ (NextLineOfStream \/ EvaluateLine)

CheckLbl == kind = "check_lbl" /\ NextLineOfDocument
MultiCheckLbl == kind = "multi_check_lbl" /\ NextLineOfDocument
StreamCheckLbl == kind = "stream_check_lbl" /\ NextLineOfStream
StreamMultiCheckLbl == kind = "stream_multi_check_lbl" /\ NextLineOfStream
CheckMediator == kind = "check" /\ CheckAll
MultiCheck == kind = "multi_check" /\ CheckAll
StreamCheck == kind = "stream_check" /\ CheckAll
StreamMultiCheck == kind = "stream_multi_check" /\ CheckAll

Next ==
  \/ FinditerLbl
  \/ FindoneLbl
  \/ StreamLbl
  \/ MultiFinditerLbl
  \/ MultiFindoneLbl
  \/ StreamMultiFinditerLbl
  \/ CheckLbl
  \/ MultiCheckLbl
  \/ StreamCheckLbl
  \/ StreamMultiCheckLbl
  \/ CheckMediator
  \/ MultiCheck
  \/ StreamCheck
  \/ StreamMultiCheck

\* The client goes on asking for matches until there is none.
Spec == Init /\ [][Next]_vars /\ WF_vars(Next)

----------------------------------------------------------------------------
(***************************************************************************)
(* Properties.                                                             *)
(***************************************************************************)
\* What a match of the text, found in one of its lines, is to be answered as.
AnswerOf(output) ==
  IF kind \in Multis THEN AllSpans(output)
  ELSE [v \in QueryVariables |-> SpansOf(output, v)[1]]

MatchesOfLine(line) ==
  {[i \in DOMAIN o |-> <<o[i][1], o[i][2] + line[1]>>] :
     o \in Outputs(query.va, LineText(text, line))}
MatchesOfText == UNION {MatchesOfLine(l) : l \in LinesOf(text)}

Answers == answers \o AnswersOfLine

\* A line as long as the buffer is overwritten when its end is read.
LinesFit ==
  kind \in Streams => \A l \in LinesOf(text) : l[2] - l[1] # BufferSize(buffer)

\* The answers are the matches of the lines, where they are in the text, each
\* once: the checker keeps its state from line to line, the algorithm its nodes,
\* and the buffer of a stream is being overwritten.
AnswersAreOfTheLines ==
  LinesFit /\ kind \notin Checks =>
    /\ IsInjective(Answers)
    /\ ToSet(Answers) \subseteq {AnswerOf(o) : o \in MatchesOfText}

\* With findone it is a first match of the first line that has one; otherwise
\* they are all answered.
EveryLineIsAnswered ==
  mode = "done" /\ LinesFit /\ kind \notin Checks =>
    IF kind \notin Findones
      THEN {AnswerOf(o) : o \in MatchesOfText} \subseteq ToSet(Answers)
      ELSE \/ MatchesOfText = {} /\ Answers = << >>
           \/ \E l \in LinesOf(text) :
                /\ MatchesOfLine(l) # {}
                /\ \A k \in LinesOf(text) : k[1] < l[1] => MatchesOfLine(k) = {}
                /\ Answers \in {<<AnswerOf(o)>> : o \in MatchesOfLine(l)}

\* A check tells whether there is a match: in a line, or in the whole text.
CheckIsRight ==
  mode = "done" /\ LinesFit /\ kind \in Checks =>
    (answers # << >> <=> IF kind \in WholeChecks THEN Outputs(query.va, text) # {}
                         ELSE MatchesOfText # {})

\* The checker accepts no line without a match: what findone does with the
\* match that the algorithm finds needs one, and reads the null pointer if not.
LinesTakenHaveMatches ==
  /\ mode # "null"
  /\ mode = "start" /\ LinesFit => Outputs(query.va, document) # {}

\* A line as long as the buffer is evaluated too: a test looks for its end
\* (python/tests/stream/test_buffer.py:64-80).
FullLinesAreAnswered ==
  mode = "done" /\ kind \notin Findones \cup Checks =>
    ToSet(Answers) = {AnswerOf(o) : o \in MatchesOfText}
=============================================================================
