------------------------------ MODULE Mappings ------------------------------
(***************************************************************************)
(* From an output to the spans of its variables. An output is a sequence   *)
(* of annotations <<code, position>>, the last one first; a code is a set  *)
(* of bits, two for each variable: 2v opens variable v, 2v + 1 closes it.  *)
(*                                                                         *)
(* A map from variables to their spans has as its domain the variables it  *)
(* has an entry for: an entry may be an empty sequence.                    *)
(***************************************************************************)
EXTENDS Integers, SequencesExt

Variable(bit) == bit \div 2
Variables(code) == {Variable(bit) : bit \in code}
IsCloseCode(bit) == bit % 2 = 1
IsOpenCode(bit) == bit % 2 = 0

Opens(code, v) == \E bit \in code : Variable(bit) = v /\ IsOpenCode(bit)
Closes(code, v) == \E bit \in code : Variable(bit) = v /\ IsCloseCode(bit)

NoEntries == [v \in {} |-> << >>]

\* operator[] of a map: an entry is made if there is none.
Entry(map, v, default) == IF v \in DOMAIN map THEN map[v] ELSE default
WithEntry(map, v, value) ==
  [w \in DOMAIN map \cup {v} |-> IF w = v THEN value ELSE map[w]]

----------------------------------------------------------------------------
(***************************************************************************)
(* Mapping: the annotations in the order they come, the last span first.   *)
(* The bits of each one from the first on, those of a variable what opens  *)
(* before what closes: a variable that closes and opens again at one       *)
(* position opens the span already there, and closes the one before it.    *)
(***************************************************************************)
UpdateLastSpan(spans, position) == [spans EXCEPT ![Len(spans)] = <<position, @[2]>>]

ProcessAnnotation(spans, annotation) ==
  LET code == annotation[1]
      position == annotation[2]
      opened(v) == IF Opens(code, v)
                     THEN UpdateLastSpan(Entry(spans, v, << >>), position)
                     ELSE Entry(spans, v, << >>)
  IN  [v \in DOMAIN spans \cup Variables(code) |->
         IF Closes(code, v) THEN Append(opened(v), <<0, position>>) ELSE opened(v)]

ConstructMapping(output) ==
  LET spans[i \in 0..Len(output)] ==
        IF i = 0 THEN NoEntries ELSE ProcessAnnotation(spans[i - 1], output[i])
  IN  spans[Len(output)]

\* The mapping given to the user has one span for each variable, the first.
ConstructUserMapping(variables, output) ==
  [v \in variables |-> Last(ConstructMapping(output)[v])]

Shift(mapping, by) ==
  [v \in DOMAIN mapping |-> <<mapping[v][1] + by, mapping[v][2] + by>>]

----------------------------------------------------------------------------
(***************************************************************************)
(* ExtendedMapping: the annotations in the order of the document, the bits *)
(* of each one from the last on, so that a variable closes before it opens *)
(* again. A span is only kept once it closes.                              *)
(***************************************************************************)
INVALID_POSITION == -1

Buffered(maps, v) == Entry(maps.buffer, v, <<0, 0>>)
Ends(maps, code, v) == Closes(code, v) /\ Buffered(maps, v)[2] = INVALID_POSITION

\* Mutant: what opens before what closes.
ProcessExtendedAnnotation_Ascending(maps, annotation) ==
  LET code == annotation[1]
      position == annotation[2]
      span(v) == <<IF Opens(code, v) THEN position ELSE Buffered(maps, v)[1], position>>
      ended == {v \in Variables(code) : Ends(maps, code, v)
                                    \/ (Closes(code, v) /\ Opens(code, v))}
  IN  [spans |-> [v \in DOMAIN maps.spans \cup ended |->
                    IF v \in ended THEN Append(Entry(maps.spans, v, << >>), span(v))
                    ELSE maps.spans[v]],
       buffer |-> [v \in DOMAIN maps.buffer \cup Variables(code) |->
                     IF v \in ended THEN span(v)
                     ELSE IF Opens(code, v) THEN <<position, INVALID_POSITION>>
                     ELSE Buffered(maps, v)]]
ProcessExtendedAnnotation(maps, annotation) ==
  LET code == annotation[1]
      position == annotation[2]
      span(v) == <<Buffered(maps, v)[1], position>>
      ended == {v \in Variables(code) : Ends(maps, code, v)}
  IN  [spans |-> [v \in DOMAIN maps.spans \cup ended |->
                    IF v \in ended THEN Append(Entry(maps.spans, v, << >>), span(v))
                    ELSE maps.spans[v]],
       buffer |-> [v \in DOMAIN maps.buffer \cup Variables(code) |->
                     IF Opens(code, v) THEN <<position, INVALID_POSITION>>
                     ELSE IF v \in ended THEN span(v)
                     ELSE Buffered(maps, v)]]

ConstructExtendedMapping(output) ==
  LET maps[i \in 0..Len(output)] ==
        IF i = 0 THEN [spans |-> NoEntries, buffer |-> NoEntries]
        ELSE ProcessExtendedAnnotation(maps[i - 1], output[Len(output) + 1 - i])
  IN  maps[Len(output)].spans

ShiftExtended(output, by) ==
  [i \in DOMAIN output |-> <<output[i][1], output[i][2] + by>>]

(***************************************************************************)
(* get_submapping: the annotations from the first one at or before the end *)
(* of the span to the last one at or after its start. The search for the   *)
(* latter does not stop when there is none: it leaves the vector.          *)
(***************************************************************************)
SearchLeavesVector(output, span) ==
  \A i \in DOMAIN output : output[i][2] < span[1]

GetSubmapping(output, span) ==
  LET starts == {i \in DOMAIN output : output[i][2] <= span[2]}
      ends == {i \in DOMAIN output : output[i][2] >= span[1]}
  IN  IF starts = {} \/ ends = {} THEN << >>
      ELSE SubSeq(output, Min(starts), Max(ends))
=============================================================================
