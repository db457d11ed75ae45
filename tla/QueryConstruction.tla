-------------------------- MODULE QueryConstruction --------------------------
(***************************************************************************)
(* From an expression to the automata of the query. The visitors go        *)
(* through the parts of the expression from the innermost to the           *)
(* outermost; each entry of the stack is a part that is done: its          *)
(* automaton, its variables, whether it has anchors and whether it may     *)
(* give a variable no span or several (multi), which only the multi_       *)
(* functions allow. "words" is what the part means: it is here for the     *)
(* properties.                                                             *)
(*                                                                         *)
(* VariableCatalogVisitor and CharClassVisitor go through the expression   *)
(* one after the other; here a part is visited by both at once. Where an   *)
(* expression has several faults, the exception of the model may be that   *)
(* of an inner part, and the code's that of the first visitor.             *)
(***************************************************************************)
EXTENDS QueryData, MarkedWords

CONSTANTS
  CharClasses,   \* sets of characters that a part of an expression may read
  Variables,     \* numbers: a catalog keeps its variables in an order
  VariableLimits,  \* bound: the values of MAX_VARS considered
  Quantifiers,   \* pairs {min,max} of numbers, max -1 when there is none
  MaxParts       \* bound: parts of an expression

VARIABLES
  max_vars, \* MAX_VARS, which is 15
  stack,
  parts,    \* how many parts have been visited
  status,   \* "parsing", "done" or the exception thrown
  query     \* ConstructQueryData, once done

vars == <<max_vars, stack, parts, status, query>>

NoQuery == <<>>

\* A variable has two markers of its own.
Open(x) == <<"open", x>>
Close(x) == <<"close", x>>

Part(lva, variables, multi, anchors, words) ==
  [lva |-> lva, variables |-> variables, multi |-> multi, anchors |-> anchors,
   words |-> words]

Top == stack[Len(stack)]
Second == stack[Len(stack) - 1]
Below(n) == SubSeq(stack, 1, Len(stack) - n)

Init ==
  /\ max_vars \in VariableLimits
  /\ stack = <<>>
  /\ parts = 0
  /\ status = "parsing"
  /\ query = NoQuery

----------------------------------------------------------------------------
NextPart ==
  /\ status = "parsing"
  /\ parts < MaxParts
  /\ parts + Len(stack) <= MaxParts + 1  \* it can still become one expression
  /\ parts' = parts + 1
  /\ UNCHANGED max_vars

Visit(n, part) ==
  /\ NextPart
  /\ stack' = Append(Below(n), part)
  /\ UNCHANGED <<status, query>>

Throw(exception) ==
  /\ NextPart
  /\ status' = exception
  /\ UNCHANGED <<stack, query>>

VisitCharacters(chars) ==
  /\ status = "parsing"
  /\ Visit(0, Part(Lva!Single("filter", chars), {}, FALSE, FALSE,
                   {Letter(c) : c \in chars}))

VisitAnchor(char) ==
  /\ status = "parsing"
  /\ Visit(0, Part(Lva!Single("anchor", {char}), {}, FALSE, TRUE, {Letter(char)}))

(***************************************************************************)
(* The catalogs of variables of two parts become one. A full one takes no  *)
(* variable of the other, not even one that it has.                        *)
(***************************************************************************)
MergeThrows(catalog, other) ==
  \E x \in other : Cardinality(catalog \cup {y \in other : y < x}) >= max_vars

Merged(multi, lva, words) ==
  IF MergeThrows(Second.variables, Top.variables)
  THEN Throw("VariableLimitExceededException")
  ELSE Visit(2, Part(lva, Second.variables \cup Top.variables,
                     Second.multi \/ Top.multi \/ multi,
                     Second.anchors \/ Top.anchors, words))

VisitAlternation ==
  /\ Len(stack) > 1
  /\ Merged(Second.variables # Top.variables,
            Lva!Alter(Second.lva, Top.lva), Second.words \cup Top.words)

VisitExpr ==
  /\ Len(stack) > 1
  /\ Merged(Second.variables \cap Top.variables # {},
            Lva!Cat(Second.lva, Top.lva), FollowedBy(Second.words, Top.words))

\* Mutant: a variable under a quantifier is not held against the expression.
Quantified_Single(lva, words) ==
  Visit(1, Part(lva, Top.variables, Top.multi, Top.anchors, words))
Quantified(lva, words) ==
  Visit(1, Part(lva, Top.variables, Top.multi \/ Top.variables # {}, Top.anchors,
                words))

VisitQuestion ==
  /\ stack # <<>>
  /\ Quantified(Lva!Optional(Top.lva), Top.words \cup {EmptyWord})
VisitPlus ==
  /\ stack # <<>>
  /\ Quantified(Lva!StrictKleene(Top.lva), FollowedBy(Top.words, AnyTimes(Top.words)))
VisitStar ==
  /\ stack # <<>>
  /\ Quantified(Lva!Kleene(Top.lva), AnyTimes(Top.words))

VisitQuantity(min, max) ==
  /\ stack # <<>>
  /\ IF (max # -1 /\ min > max) \/ (min = 0 /\ max = 0)
     THEN Throw("QuerySyntaxException")
     ELSE Quantified(Lva!Repeat(Top.lva, min, max),
                     FollowedBy(Times(Top.words, min),
                                IF max = -1 THEN AnyTimes(Top.words)
                                            ELSE UpTo(Top.words, max - min)))

\* A variable that the catalog has no place for is left out without a word.
Added(catalog, x) ==
  IF Cardinality(catalog) >= max_vars THEN catalog ELSE catalog \cup {x}

VisitAssignation(x) ==
  /\ stack # <<>>
  /\ CASE x \in Top.variables -> Throw("SameNestedVariableException")
       [] x \notin Top.variables /\ Top.anchors -> Throw("AnchorInsideCaptureException")
       [] x \notin Top.variables /\ ~Top.anchors /\ Top.lva.acceptsEpsilon ->
            Throw("EmptyWordCaptureException")
       [] OTHER ->
            Visit(1, Part(Lva!Assign(Top.lva, {Open(x)}, {Close(x)}),
                          Added(Top.variables, x), Top.multi, FALSE,
                          FollowedBy(FollowedBy({Marker({Open(x)})}, Top.words),
                                     {Marker({Close(x)})})))

\* The codes are those of the catalog of the whole: none for a variable that
\* it was left without.
Codes == {Open(x) : x \in Top.variables} \cup {Close(x) : x \in Top.variables}
WithCodes(lva) ==
  [lva EXCEPT !.edges =
     (@ \ Lva!OfKind(lva, {"capture"}))
       \cup {Lva!Edge(e.from, e.kind, e.label \cap Codes, e.to) :
               e \in Lva!OfKind(lva, {"capture"})}]

VisitRoot ==
  /\ status = "parsing"
  /\ Len(stack) = 1
  /\ query' = ConstructQueryData(WithCodes(Top.lva))
  /\ status' = "done"
  /\ UNCHANGED <<max_vars, stack, parts>>

Next ==
  \/ \E chars \in CharClasses : VisitCharacters(chars)
  \/ \E char \in {StartChar, EndChar} : VisitAnchor(char)
  \/ VisitAlternation
  \/ VisitExpr
  \/ VisitQuestion
  \/ VisitPlus
  \/ VisitStar
  \/ \E q \in Quantifiers : VisitQuantity(q[1], q[2])
  \/ \E x \in Variables : VisitAssignation(x)
  \/ VisitRoot

Spec == Init /\ [][Next]_vars

----------------------------------------------------------------------------
(***************************************************************************)
(* The words an automaton of the query accepts. Reading a character means  *)
(* one of its set; but to set the last markers any character will do, and  *)
(* it is not part of the word.                                             *)
(***************************************************************************)
Accepted(start, end, Extended(_)) ==
  LET Short(runs) == {p \in runs : Len(p[2].letters) <= MaxLetters}
      after[k \in 0..MaxLetters + 1] ==
        IF k = 0 THEN [runs |-> {<<start, EmptyWord>>}, all |-> {}]
        ELSE LET last == after[k - 1]
                 runs == Short(UNION {Extended(p) : p \in last.runs})
             IN  [runs |-> runs, all |-> last.all \cup runs]
  IN  {p[2] : p \in {r \in after[MaxLetters + 1].all : r[1] = end}}

ReadBy(va, p) ==
  UNION {IF t.chars = Characters
         THEN {<<t.to, Followed(p[2], Marker(t.code))>>}
         ELSE {<<t.to, Followed(p[2], Word(<<c>>, <<t.code, {}>>))>> : c \in t.chars} :
           t \in {u \in va.reads : u.from = p[1]}}

VaWords(va) == Accepted(va.initial, va.accepting, LAMBDA p : ReadBy(va, p))

NfaWords(nfa) ==
  Accepted(nfa.initial, nfa.accepting,
           LAMBDA p : UNION {{<<f[3], Followed(p[2], Letter(c))>> : c \in f[2]} :
                               f \in {g \in nfa.filters : g[1] = p[1]}})

\* A document starts once and ends once.
Readable(w) ==
  \A i \in 1..Len(w.letters) :
    /\ w.letters[i] = StartChar => i = 1
    /\ w.letters[i] = EndChar => i = Len(w.letters)

\* What the expression means, but for the variables left out.
Meant ==
  {[w EXCEPT !.marks = [i \in DOMAIN @ |-> @[i] \cap Codes]] :
     w \in {v \in Top.words : v.letters # <<>> /\ Readable(v)}}

----------------------------------------------------------------------------
(***************************************************************************)
(* The flag that assign() trusts, to refuse a capture of the empty word,   *)
(* says whether the part accepts the empty word, after any operations.     *)
(***************************************************************************)
EmptyWordFlagIsExact ==
  \A i \in 1..Len(stack) :
    stack[i].lva.acceptsEpsilon <=> EmptyWord \in stack[i].words

(***************************************************************************)
(* The extended VA finds what the expression means, with its captures: all *)
(* of its words but the empty one, and nothing else.                       *)
(***************************************************************************)
ExtendedVAIsFaithful ==
  status = "done" => {w \in VaWords(query.va) : Readable(w)} = Meant

(***************************************************************************)
(* The NFA from which the segments are found accepts the words of the      *)
(* expression without their markers.                                       *)
(***************************************************************************)
SearchNFAIsFaithful ==
  status = "done" =>
    {w.letters : w \in {v \in NfaWords(query.nfa) : Readable(v)}}
      = {w.letters : w \in Meant}

(***************************************************************************)
(* When the mediator is told that there are no useful anchors, and looks   *)
(* for segments, no word of the expression has an anchor.                  *)
(***************************************************************************)
NoAnchorIsMissed ==
  status = "done" /\ ~query.anchored =>
    \A w \in Meant : \A i \in 1..Len(w.letters) : w.letters[i] \in Letters

(***************************************************************************)
(* A match of an expression that finditer accepts gives each variable of   *)
(* the expression one span, which is not empty: as many variables as there *)
(* may be. Of more than that it is those in the catalog.                   *)
(***************************************************************************)
Mentioned ==
  {x \in Variables : \E e \in Lva!OfKind(Top.lva, {"capture"}) : Open(x) \in e.label}

Positions(w, m) == {i \in 1..Len(w.marks) : m \in w.marks[i]}

Named == IF Cardinality(Mentioned) <= max_vars THEN Mentioned ELSE Top.variables

EveryVariableHasOneSpan ==
  status = "done" /\ ~Top.multi /\ Named # {} =>
    \A w \in VaWords(query.va) : \A x \in Named :
      \E i, j \in 1..Len(w.marks) :
        /\ i < j
        /\ Positions(w, Open(x)) = {i}
        /\ Positions(w, Close(x)) = {j}
=============================================================================
