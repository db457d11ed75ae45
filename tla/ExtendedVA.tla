----------------------------- MODULE ExtendedVA -----------------------------
(***************************************************************************)
(* The automaton that reads a document and marks where variables open and  *)
(* close: a record of its states, its initial and its accepting state, and *)
(* its transitions, each reading one of a set of characters and carrying   *)
(* the set of markers set just before it (captures_set, often empty).      *)
(*                                                                         *)
(* It is built from the automaton of the expression. Then, in              *)
(* clean_for_determinization, matches may start at any position, and every *)
(* state is doubled so that the automaton alternates between two halves,   *)
(* one for each parity of the position.                                    *)
(***************************************************************************)
EXTENDS Documents, Automata

Lva == INSTANCE LogicalVA

Read(from, chars, code, to) ==
  [from |-> from, chars |-> chars, code |-> code, to |-> to]

Trim(va) ==
  LET edges == {<<t.from, t.to>> : t \in va.reads}
      kept == Useful(va.states, va.initial, va.accepting, edges)
                \cup {va.initial, va.accepting}
  IN  [va EXCEPT !.states = kept,
                 !.reads = {t \in @ : {t.from, t.to} \subseteq kept}]

(***************************************************************************)
(* From the automaton of the expression, without its epsilons: an anchor   *)
(* reads the character that stands for it; captures that follow each other *)
(* are joined, and then joined with the character read next. When nothing  *)
(* is left to read after them, they are set by reading any character.      *)
(***************************************************************************)
CaptureClosure(va) ==
  LET Joined(c) == {Lva!Edge(p[1].from, "capture", p[1].label \cup p[2].label, p[2].to) :
                      p \in {q \in c \X va.captures : q[1].to = q[2].from}}
      closed[k \in 0..Cardinality(va.captures)] ==
        IF k = 0 THEN va.captures
        ELSE LET c == closed[k - 1] IN c \cup Joined(c)
  IN  closed[Cardinality(va.captures)]

\* States that no character enters or leaves have done their part.
RemoveUselessCaptureStates(va, captures) ==
  LET used == {va.initial, va.accepting}
                \cup UNION {{f.from, f.to} : f \in va.filters}
  IN  {c \in captures : {c.from, c.to} \subseteq used}

AddReadCaptures(va, captures) ==
  {Read(p[1].from, p[2].label, p[1].label, p[2].to) :
     p \in {q \in captures \X va.filters : q[1].to = q[2].from}}
  \cup {Read(c.from, Characters, c.label, c.to) :
          c \in {d \in captures : d.to = va.accepting}}
  \cup {Read(f.from, f.label, {}, f.to) : f \in va.filters}

FromLogicalVA(lva) ==
  LET plain == Lva!Trim(Lva!RemoveEpsilon(lva))
      va == [initial |-> plain.initial, accepting |-> plain.accepting,
             filters |-> Lva!OfKind(plain, {"filter", "anchor"}),
             captures |-> Lva!OfKind(plain, {"capture"})]
      captures == RemoveUselessCaptureStates(va, CaptureClosure(va))
  IN  Trim([states |-> plain.states, initial |-> va.initial,
            accepting |-> va.accepting, reads |-> AddReadCaptures(va, captures)])

----------------------------------------------------------------------------
AddLoopToInitialState(va) ==
  [va EXCEPT !.reads = @ \cup {Read(va.initial, Characters, {}, va.initial)}]

(***************************************************************************)
(* The accepting state is only ever entered in its first half, from both.  *)
(***************************************************************************)
Duplicate_Not(va) ==  \* mutant: the states are not doubled
  [states |-> {<<q, 0>> : q \in va.states},
   initial |-> <<va.initial, 0>>, accepting |-> <<va.accepting, 0>>,
   reads |-> {Read(<<t.from, 0>>, t.chars, t.code, <<t.to, 0>>) : t \in va.reads}]
Duplicate(va) ==
  Trim([states |-> va.states \X {0, 1},
        initial |-> <<va.initial, 0>>, accepting |-> <<va.accepting, 0>>,
        reads |->
          {Read(<<t.from, 1>>, t.chars, t.code, <<t.to, 0>>) : t \in va.reads}
            \cup {Read(<<t.from, 0>>, t.chars, t.code,
                       <<t.to, IF t.to = va.accepting THEN 0 ELSE 1>>) :
                    t \in va.reads}])

CleanForDeterminization(va) == Duplicate(AddLoopToInitialState(va))

(***************************************************************************)
(* ExtendedDetVA: a deterministic state is a set of states. Reading a      *)
(* character from it leads to one set for each set of markers.             *)
(***************************************************************************)
InitialSubset(va) == {va.initial}
IsAccepting(va, D) == va.accepting \in D

NextStates(va, D, a) ==
  LET taken == {t \in va.reads : t.from \in D /\ a \in t.chars}
  IN  {<<c, {t.to : t \in {u \in taken : u.code = c}}>> :
         c \in {t.code : t \in taken}}
=============================================================================
