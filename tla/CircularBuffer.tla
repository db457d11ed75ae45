--------------------------- MODULE CircularBuffer ---------------------------
(***************************************************************************)
(* The last characters read from a stream, in a ring of cells: position p  *)
(* of the stream is in the cell p modulo the number of cells until the     *)
(* ring comes round. file_pos is the number of characters inserted.        *)
(***************************************************************************)
EXTENDS Integers, Sequences, FiniteSets

CONSTANT NoChar  \* what a cell that was never written, or no cell, holds

EmptyBuffer(size) == [cells |-> [i \in 0..size - 1 |-> NoChar], file_pos |-> 0]

BufferSize(buffer) == Cardinality(DOMAIN buffer.cells)

Insert(buffer, char) ==
  [buffer EXCEPT !.cells[buffer.file_pos % BufferSize(buffer)] = char,
                 !.file_pos = @ + 1]

At(buffer, p) == buffer.cells[p % BufferSize(buffer)]

\* Bytes of memory from cell i on, which may lie past the last cell.
Bytes(buffer, i, count) ==
  [k \in 1..count |->
     IF i + k - 1 < BufferSize(buffer) THEN buffer.cells[i + k - 1] ELSE NoChar]

(***************************************************************************)
(* get_segment: in two parts when the span goes past the last cell.        *)
(***************************************************************************)
GetSegment_Unwrapped(buffer, span) ==  \* mutant
  Bytes(buffer, span[1] % BufferSize(buffer), span[2] - span[1])
GetSegment(buffer, span) ==
  LET size == BufferSize(buffer)
      start == span[1] % size
      stop == span[2] % size
  IN  IF start > stop
        THEN Bytes(buffer, start, size - start) \o Bytes(buffer, 0, stop)
        ELSE Bytes(buffer, start, span[2] - span[1])

(***************************************************************************)
(* substr: throws an EvaluationException unless the characters are still   *)
(* in the buffer.                                                          *)
(***************************************************************************)
SubstrThrows_OffByOne(buffer, span) ==  \* mutant
  \/ span[2] > buffer.file_pos
  \/ /\ buffer.file_pos >= BufferSize(buffer)
     /\ span[1] < buffer.file_pos - BufferSize(buffer) - 1
SubstrThrows(buffer, span) ==
  \/ span[2] > buffer.file_pos
  \/ /\ buffer.file_pos >= BufferSize(buffer)
     /\ span[1] < buffer.file_pos - BufferSize(buffer)

Substr(buffer, span) == GetSegment(buffer, span)
=============================================================================
