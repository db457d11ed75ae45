---------------------------- MODULE PlainMatches ----------------------------
(***************************************************************************)
(* The matches of a query, found the plain way, for the properties to      *)
(* compare with: the markers on a path of the automaton as the parser      *)
(* leaves it, from the initial state at any position to the accepting one. *)
(* An output lists the last markers first. Bit 2v of a marker opens        *)
(* variable v, bit 2v + 1 closes it.                                       *)
(***************************************************************************)
EXTENDS Documents, SequencesExt

Adding(code, p, outputs) ==
  IF code = {} THEN outputs ELSE {Append(o, <<code, p>>) : o \in outputs}

\* No character after position last is read.
OutputsBy(last, q, doc) ==
  LET reading(read) == {t \in q.reads : read \in t.chars}
      out[p \in 0..last + 1] ==
        [s \in q.states |->
           IF s = q.accepting THEN {<< >>}
           ELSE IF p > last THEN {}
           ELSE UNION {Adding(t.code, p, out[p + 1][t.to]) :
                         t \in {r \in reading(CharAt(doc, p)) : r.from = s}}]
      first == UNION {Adding(t.code, 0, out[0][t.to]) :
                        t \in {r \in reading(StartChar) : r.from = q.initial}}
  IN  first \cup UNION {out[p][q.initial] : p \in 0..last}

Outputs(q, doc) == OutputsBy(Len(doc), q, doc)

\* Those that are complete when the fewest characters have been read.
FirstOutputs(q, doc) ==
  LET complete == {k \in 0..Len(doc) : OutputsBy(k, q, doc) # {}}
  IN  IF complete = {} THEN {} ELSE OutputsBy(Min(complete), q, doc)

\* The spans of an output: of each of its variables, the positions where it
\* opens and those where it closes, in turn.
SpansOf(output, v) ==
  LET positions(bit) ==
        SetToSortSeq({t[2] : t \in {u \in ToSet(output) : bit \in u[1]}}, <)
      opens == positions(2 * v)
      closes == positions(2 * v + 1)
  IN  [i \in DOMAIN opens |-> <<opens[i], closes[i]>>]

AllSpans(output) ==
  [v \in {bit \div 2 : bit \in UNION {t[1] : t \in ToSet(output)}} |->
     SpansOf(output, v)]
=============================================================================
