-------------------------------- MODULE Lines --------------------------------
(***************************************************************************)
(* Splitting a text into lines, and asking the SearchDFA whether one has a *)
(* match. A line is a span of the text without the character that ends it. *)
(***************************************************************************)
EXTENDS SearchDFA, CircularBuffer, SequencesExt

CONSTANT NewLine

ASSUME NewLineAssumption == NewLine \in Letters

NoLine == << >>

NewLines(text, from) == {p \in from..Len(text) - 1 : text[p + 1] = NewLine}

----------------------------------------------------------------------------
(***************************************************************************)
(* LineSplitterStr: current_end is where the next line starts.             *)
(***************************************************************************)
LineOfDocument(text, current_end) ==
  LET ends == NewLines(text, current_end)
  IN  IF current_end >= Size(text) THEN NoLine
      ELSE <<current_end, IF ends = {} THEN Size(text) - 1 ELSE Min(ends)>>

(***************************************************************************)
(* LineSplitterStream reads up to the end of the line, which it counts;    *)
(* the text ends with a character of its own. As nobody else reads, its    *)
(* pos is the buffer's file_pos.                                           *)
(***************************************************************************)
AfterLine(text, buffer) ==
  LET ends == NewLines(text, buffer.file_pos)
      last == IF ends = {} THEN Size(text) - 1 ELSE Min(ends)
  IN  FoldLeft(LAMBDA b, p : Insert(b, CharAt(text, p)), buffer,
               [i \in 1..last + 1 - buffer.file_pos |-> buffer.file_pos + i - 1])

LineOfStream(text, buffer, splitter) ==
  IF splitter.reached_end \/ AfterLine(text, buffer).file_pos = splitter.initial_pos
    THEN NoLine ELSE <<splitter.initial_pos, AfterLine(text, buffer).file_pos - 1>>

DoesNotFit(buffer, line) == line[2] - line[1] > BufferSize(buffer)

AfterLineOfStream(text, buffer, splitter) ==
  [initial_pos |-> IF NewLines(text, buffer.file_pos) = {} THEN splitter.initial_pos
                   ELSE AfterLine(text, buffer).file_pos,
   reached_end |-> NewLines(text, buffer.file_pos) = {}]

----------------------------------------------------------------------------
(***************************************************************************)
(* SegmentChecker. The DFA goes on from where the last check left it.      *)
(***************************************************************************)
NewChecker == [dfa |-> InitialDFAState, catalog |-> {}, accepted |-> FALSE,
               thrown |-> FALSE]

NextChecked(nfa, checker, char) ==
  LET target == NextState(nfa, checker.dfa, char)
      throws == ExceedsStateLimit(checker.catalog, target)
  IN  IF checker.accepted \/ checker.thrown THEN checker
      ELSE [dfa |-> IF throws THEN checker.dfa ELSE target,
            catalog |-> checker.catalog \cup {target},
            accepted |-> ~throws /\ char # StartChar /\ Accepting(nfa, target),
            thrown |-> throws]

\* Mutant: the character that ends the line is not read.
Check_NoEnd(nfa, checker, chars) ==
  FoldLeft(LAMBDA c, char : NextChecked(nfa, c, char),
           [checker EXCEPT !.accepted = FALSE], <<StartChar>> \o chars)
Check(nfa, checker, chars) ==
  FoldLeft(LAMBDA c, char : NextChecked(nfa, c, char),
           [checker EXCEPT !.accepted = FALSE],
           <<StartChar>> \o chars \o <<EndChar>>)

----------------------------------------------------------------------------
\* The lines of a text, found the plain way.
LinesOf(text) ==
  {l \in (0..Len(text)) \X (0..Len(text)) :
     /\ l[1] <= l[2]
     /\ l[1] = 0 \/ text[l[1]] = NewLine
     /\ l[2] = Len(text) \/ text[l[2] + 1] = NewLine
     /\ \A p \in l[1]..l[2] - 1 : text[p + 1] # NewLine}

LineText(text, line) == SubSeq(text, line[1] + 1, line[2])
=============================================================================
