----------------------------- MODULE LogicalVA ------------------------------
(***************************************************************************)
(* The automaton of an expression, and the operations that build it from   *)
(* the automata of its parts. A transition reads a character ("filter"),   *)
(* sets markers ("capture"), stands for the start or the end of the        *)
(* document ("anchor") or does nothing ("epsilon"). Its label is the set   *)
(* of characters or markers; an anchor's is the character that stands for  *)
(* it. acceptsEpsilon is a flag the operations keep up to date.            *)
(*                                                                         *)
(* While an automaton is built its states are 1..n. Operations that take a *)
(* second automaton append its states, renumbered, to their own.           *)
(***************************************************************************)
EXTENDS Documents, Automata

Edge(from, kind, label, to) ==
  [from |-> from, kind |-> kind, label |-> label, to |-> to]
Epsilon(from, to) == Edge(from, "epsilon", {}, to)

OfKind(va, kinds) == {e \in va.edges : e.kind \in kinds}
Ends(edges) == {<<e.from, e.to>> : e \in edges}

\* LogicalVA(charclass), and LogicalVA() with add_anchor.
Single(kind, label) ==
  [states |-> {1, 2}, initial |-> 1, accepting |-> 2,
   edges |-> {Edge(1, kind, label, 2)}, acceptsEpsilon |-> FALSE]

NewState(va) == Cardinality(va.states) + 1

Renumbered(va, k) ==
  [va EXCEPT !.states = {q + k : q \in @}, !.initial = @ + k, !.accepting = @ + k,
             !.edges = {Edge(e.from + k, e.kind, e.label, e.to + k) : e \in @}]

----------------------------------------------------------------------------
Cat_EitherEpsilon(va, va2) ==  \* mutant: one empty part makes the whole empty
  LET other == Renumbered(va2, Cardinality(va.states))
  IN  [states |-> va.states \cup other.states,
       initial |-> va.initial, accepting |-> other.accepting,
       edges |-> va.edges \cup other.edges \cup {Epsilon(va.accepting, other.initial)},
       acceptsEpsilon |-> va.acceptsEpsilon \/ other.acceptsEpsilon]

Cat(va, va2) ==
  LET other == Renumbered(va2, Cardinality(va.states))
  IN  [states |-> va.states \cup other.states,
       initial |-> va.initial, accepting |-> other.accepting,
       edges |->
         va.edges \cup other.edges \cup {Epsilon(va.accepting, other.initial)}
           \cup (IF va.acceptsEpsilon THEN {Epsilon(va.initial, other.initial)} ELSE {})
           \cup (IF other.acceptsEpsilon THEN {Epsilon(va.accepting, other.accepting)} ELSE {}),
       acceptsEpsilon |-> va.acceptsEpsilon /\ other.acceptsEpsilon]

Alter(va, va2) ==
  LET other == Renumbered(va2, Cardinality(va.states))
      both == va.states \cup other.states
      init == Cardinality(both) + 1
      accept == init + 1
  IN  [states |-> both \cup {init, accept}, initial |-> init, accepting |-> accept,
       edges |-> va.edges \cup other.edges
                   \cup {Epsilon(init, va.initial), Epsilon(init, other.initial),
                         Epsilon(va.accepting, accept), Epsilon(other.accepting, accept)},
       acceptsEpsilon |-> va.acceptsEpsilon \/ other.acceptsEpsilon]


StrictKleene(va) ==
  LET accept == NewState(va)
  IN  [va EXCEPT !.states = @ \cup {accept}, !.accepting = accept,
                 !.edges = @ \cup {Epsilon(va.accepting, va.initial),
                                   Epsilon(va.accepting, accept)}]

Optional(va) ==
  LET init == NewState(va)
      final == init + 1
  IN  [states |-> va.states \cup {init, final}, initial |-> init, accepting |-> final,
       edges |-> va.edges \cup {Epsilon(init, va.initial), Epsilon(init, final),
                                Epsilon(va.accepting, final)},
       acceptsEpsilon |-> TRUE]

Kleene(va) == Optional(StrictKleene(va))

\* The caller has refused an automaton that accepts the empty word.
Assign(va, openCode, closeCode) ==
  LET open == NewState(va)
      close == open + 1
  IN  [va EXCEPT !.states = @ \cup {open, close}, !.initial = open, !.accepting = close,
                 !.edges = @ \cup {Edge(open, "capture", openCode, va.initial),
                                   Edge(va.accepting, "capture", closeCode, close)}]

CatTimes(va, part, n) ==
  LET chain[k \in 0..n] == IF k = 0 THEN va ELSE Cat(chain[k - 1], part)
  IN  chain[n]

\* max is -1 when there is no upper bound.
Repeat(va, min, max) ==
  CASE min = 0 /\ max > 0 -> CatTimes(Optional(va), Optional(va), max - 1)
    [] min = 0 /\ max = -1 -> Kleene(va)
    [] min > 0 /\ max > 0 ->
         CatTimes(CatTimes(va, va, min - 1), Optional(va), max - min)
    [] min > 0 /\ max = -1 -> Cat(CatTimes(va, va, min - 1), Kleene(va))

----------------------------------------------------------------------------
(***************************************************************************)
(* Captures become epsilons, to each state past one or more of them that   *)
(* has something else to offer.                                            *)
(***************************************************************************)
RemoveCaptures_OneStep(va) ==  \* mutant: a capture after a capture is lost
  [va EXCEPT !.edges = (@ \ OfKind(va, {"capture"}))
       \cup {Epsilon(e.from, e.to) :
               e \in {c \in OfKind(va, {"capture"}) :
                        c.to \notin {d.from : d \in OfKind(va, {"capture"})}}}]

RemoveCaptures(va) ==
  LET captures == OfKind(va, {"capture"})
      others == va.edges \ captures
      stops == {va.accepting} \cup {e.from : e \in others}
      Past(q) == Closure(va.states, After({q}, Ends(captures)), Ends(captures))
  IN  [va EXCEPT !.edges = others \cup UNION {{Epsilon(q, r) : r \in Past(q) \cap stops} :
                                                q \in va.states}]

(***************************************************************************)
(* Each state takes over the transitions of the states it leads to by      *)
(* epsilons; then what enters a state that leads to the accepting state    *)
(* by epsilons enters the accepting state as well.                         *)
(***************************************************************************)
RemoveEpsilon_NoBackward(va) ==  \* mutant: only the first half
  LET epsilons == Ends(OfKind(va, {"epsilon"}))
      others == va.edges \ OfKind(va, {"epsilon"})
      TakenOver(q) ==
        LET past == Closure(va.states, {q}, epsilons)
        IN  {Edge(q, e.kind, e.label, e.to) : e \in {d \in others : d.from \in past}}
  IN  [va EXCEPT !.edges = UNION {TakenOver(q) : q \in va.states}]

RemoveEpsilon(va) ==
  LET epsilons == Ends(OfKind(va, {"epsilon"}))
      others == va.edges \ OfKind(va, {"epsilon"})
      TakenOver(q) ==
        LET past == Closure(va.states, {q}, epsilons)
        IN  {Edge(q, e.kind, e.label, e.to) : e \in {d \in others : d.from \in past}}
      forward == UNION {TakenOver(q) : q \in va.states}
      before == Closure(va.states, {va.accepting}, Reversed(epsilons))
  IN  [va EXCEPT !.edges =
         forward \cup {Edge(e.from, e.kind, e.label, va.accepting) :
                         e \in {d \in forward : d.to \in before}}]

\* The initial and the accepting state stay even when no path joins them.
Trim(va) ==
  LET useful == Useful(va.states, va.initial, va.accepting, Ends(va.edges))
      kept == useful \cup {va.initial, va.accepting}
  IN  [va EXCEPT !.states = kept,
                 !.edges = {e \in @ : e.from \in kept /\ e.to \in useful}]

(***************************************************************************)
(* A start anchor is of use when nothing is read before it, an end anchor  *)
(* when nothing is read after it.                                          *)
(***************************************************************************)
RemoveUselessAnchors_KeepNone(va) ==  \* mutant
  [va EXCEPT !.edges = @ \ OfKind(va, {"anchor"})]

RemoveUselessAnchors(va) ==
  LET anchors == OfKind(va, {"anchor"})
      silent == OfKind(va, {"epsilon", "capture"})
      starts == {e \in anchors : e.label = {StartChar}}
      ends == {e \in anchors : e.label = {EndChar}}
      fromStart == Closure(va.states, {va.initial}, Ends(silent \cup starts))
      toEnd == Closure(va.states, {va.accepting}, Reversed(Ends(silent \cup ends)))
  IN  [va EXCEPT !.edges =
         (@ \ anchors) \cup {e \in starts : e.from \in fromStart}
                       \cup {e \in ends : e.to \in toEnd}]

HasUsefulAnchors(va) == OfKind(va, {"anchor"}) # {}
=============================================================================
