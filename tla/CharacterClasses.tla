-------------------------- MODULE CharacterClasses --------------------------
(***************************************************************************)
(* A character class of an expression: the visitor collects the ranges of  *)
(* code points, negates them if asked, and builds an automaton that reads  *)
(* the encodings of their code points byte by byte.                        *)
(*                                                                         *)
(* An encoding is a first byte, whose value tells how many follow, and     *)
(* bytes that each carry one digit in base Base (64 in UTF-8). It is       *)
(* modelled by its digits, the first one without the bits that give the    *)
(* length. The automaton only concatenates and alternates bytes: it is     *)
(* modelled by the sequences of sets of digits that it alternates.         *)
(* Outside of a class an atom is such an automaton too: a literal, the dot *)
(* or a shorthand.                                                         *)
(***************************************************************************)
EXTENDS Integers, Sequences, FiniteSetsExt, SequencesExt

CONSTANTS
  Base,
  FirstOfLength,  \* the first code point of each length, in order
  MaxCodePoint,   \* UTF8MAX
  SharedAtoms,    \* of each shorthand, as \d and \D: the ranges that it adds
  EndPoints,      \* bound: where the ranges of an expression begin and end
  MaxRanges       \* bound: how many are added

\* There are encodings of one to four bytes.
ASSUME EncodingAssumption ==
  /\ Base \in Nat \ {0, 1}
  /\ MaxCodePoint \in Nat
  /\ FirstOfLength \in Seq(0..MaxCodePoint)
  /\ Len(FirstOfLength) \in 1..4
  /\ FirstOfLength[1] = 0
  /\ \A k \in 2..Len(FirstOfLength) :
       FirstOfLength[k - 1] < FirstOfLength[k]

ASSUME ExpressionAssumption ==
  /\ EndPoints \subseteq 0..MaxCodePoint
  /\ SharedAtoms \subseteq Seq((0..MaxCodePoint) \X (0..MaxCodePoint))
  /\ \A rs \in SharedAtoms : \A i \in DOMAIN rs : rs[i][1] <= rs[i][2]
  /\ MaxRanges \in Nat

VARIABLES
  ranges,     \* pairs <<lo, hi>>
  added,      \* how many times
  phase,      \* "adding", "negated", "built", "thrown" or "undefined"
  automaton,  \* lva_ptr
  class       \* the code points of the class: for the properties

vars == <<ranges, added, phase, automaton, class>>

CodePoints == 0..MaxCodePoint
Meets(r, lo, hi) == r[1] <= hi /\ lo <= r[2]

----------------------------------------------------------------------------
(***************************************************************************)
(* [lo, hi] is extended over the range that ends or runs just before it,   *)
(* then over the one that begins or runs just after it. What it covers     *)
(* after that is dropped.                                                  *)
(***************************************************************************)
AddRange_NoRight(rs, lo, hi) ==  \* mutant: only to the left
  LET left == {r \in rs : Meets(r, lo - 1, lo - 1)}
      first == Min({lo} \cup {r[1] : r \in left})
      last == Max({hi} \cup {r[2] : r \in left})
  IN  {r \in rs : ~Meets(r, first, last)} \cup {<<first, last>>}

AddRange_Overlapping(rs, lo, hi) ==  \* mutant: only ranges that overlap
  LET met == {r \in rs : Meets(r, lo, hi)}
  IN  (rs \ met) \cup {<<Min({lo} \cup {r[1] : r \in met}),
                         Max({hi} \cup {r[2] : r \in met})>>}

AddRange(rs, lo, hi) ==
  LET left == {r \in rs : Meets(r, lo - 1, lo - 1)}
      first == Min({lo} \cup {r[1] : r \in left})
      wide == Max({hi} \cup {r[2] : r \in left})
      right == {r \in rs \ left : Meets(r, wide + 1, wide + 1)}
      last == Max({wide} \cup {r[2] : r \in right})
  IN  IF \E r \in rs : r[1] <= lo /\ hi <= r[2]
      THEN rs
      ELSE {r \in rs : ~Meets(r, first, last)} \cup {<<first, last>>}

\* What lies between the ranges, before the first and after the last.
Negate(rs) ==
  LET begins == {0} \cup {r[2] + 1 : r \in rs}
      NextRange(lo) == Min({MaxCodePoint + 1} \cup {r[1] : r \in {s \in rs : s[1] >= lo}})
      Begins(b) == /\ b <= MaxCodePoint
                   /\ b = 0 => NextRange(b) > 0
  IN  {<<lo, NextRange(lo) - 1>> : lo \in {b \in begins : Begins(b)}}

----------------------------------------------------------------------------
LengthOf(c) == CHOOSE k \in 1..Len(FirstOfLength) :
                 /\ FirstOfLength[k] <= c
                 /\ k < Len(FirstOfLength) => c < FirstOfLength[k + 1]
LastOfLength(k) ==
  IF k < Len(FirstOfLength) THEN FirstOfLength[k + 1] - 1 ELSE MaxCodePoint

\* The digits are what is left after shifting c, but for all before them.
Encode(c, k) ==
  LET shifted[n \in 0..k] == IF n = 0 THEN c ELSE shifted[n - 1] \div Base
  IN  [i \in 1..k |-> IF i = 1 THEN shifted[k - 1] ELSE shifted[k - i] % Base]

Number(bytes, base) ==
  LET read[i \in 0..Len(bytes)] == IF i = 0 THEN 0 ELSE read[i - 1] * base + bytes[i]
  IN  read[Len(bytes)]

\* visitCcOther: the code point of a literal, from its bytes.
Decode(bytes) == Number(bytes, Base)

Digits == 0..(Base - 1)

(***************************************************************************)
(* The bytes before the last one, as the number that the code compares: a  *)
(* byte has four times as many values as a digit.                          *)
(***************************************************************************)
AsNumber(bytes) == Number(bytes, 4 * Base)

\* One more, and one less, with a carry over the digits that are at their end.
NextPrefix_SkipsOne(p) == [p EXCEPT ![Len(p)] = @ + 2]  \* mutants
PreviousPrefix_Same(p) == p
NextPrefix(p) ==
  LET i == Max({1} \cup {j \in 2..Len(p) : p[j] # Base - 1})
  IN  [j \in 1..Len(p) |-> IF j < i THEN p[j] ELSE IF j = i THEN p[j] + 1 ELSE 0]
PreviousPrefix(p) ==
  LET i == Max({1} \cup {j \in 2..Len(p) : p[j] # 0})
  IN  [j \in 1..Len(p) |-> IF j < i THEN p[j] ELSE IF j = i THEN p[j] - 1 ELSE Base - 1]

(***************************************************************************)
(* buildTwoBytesAutomaton, buildThreeBytesAutomaton and                    *)
(* buildFourBytesAutomaton, each of which calls the shorter ones: for the  *)
(* rest, if the first bytes are the same. If not: the rest of the lowest   *)
(* prefix, the beginning of the highest one, and the prefixes that are in  *)
(* the middle.                                                             *)
(***************************************************************************)
Exactly(bytes) == [i \in 1..Len(bytes) |-> {bytes[i]}]

LongerAutomaton(lo, hi, rest, middle) ==
  LET last == Len(lo)
      low == Front(lo)
      high == Front(hi)
  IN  IF lo[1] = hi[1] THEN {<<{lo[1]}>> \o sets : sets \in rest}
      ELSE {Append(Exactly(low), lo[last]..(Base - 1)), Append(Exactly(high), 0..hi[last])}
             \cup (IF AsNumber(low) + 1 < AsNumber(high)
                   THEN {Append(sets, Digits) : sets \in middle} ELSE {})

After(lo) == NextPrefix(Front(lo))
Before(hi) == PreviousPrefix(Front(hi))

OneByteAutomaton(lo, hi) == {<<lo[1]..hi[1]>>}
TwoBytesAutomaton(lo, hi) ==
  LongerAutomaton(lo, hi, OneByteAutomaton(Tail(lo), Tail(hi)),
                  OneByteAutomaton(After(lo), Before(hi)))
ThreeBytesAutomaton(lo, hi) ==
  LongerAutomaton(lo, hi, TwoBytesAutomaton(Tail(lo), Tail(hi)),
                  TwoBytesAutomaton(After(lo), Before(hi)))
FourBytesAutomaton(lo, hi) ==
  LongerAutomaton(lo, hi, ThreeBytesAutomaton(Tail(lo), Tail(hi)),
                  ThreeBytesAutomaton(After(lo), Before(hi)))

BytesAutomaton(lo, hi) ==
  CASE Len(lo) = 1 -> OneByteAutomaton(lo, hi)
    [] Len(lo) = 2 -> TwoBytesAutomaton(lo, hi)
    [] Len(lo) = 3 -> ThreeBytesAutomaton(lo, hi)
    [] Len(lo) = 4 -> FourBytesAutomaton(lo, hi)

\* A range is split where the length of the encoding changes.
RangeAutomaton(r) ==
  UNION {BytesAutomaton(Encode(Max({r[1], FirstOfLength[k]}), k),
                        Encode(Min({r[2], LastOfLength(k)}), k)) :
           k \in {n \in 1..Len(FirstOfLength) :
                    Meets(r, FirstOfLength[n], LastOfLength(n))}}

----------------------------------------------------------------------------
Init ==
  /\ ranges = {}
  /\ added = 0
  /\ phase = "adding"
  /\ automaton = {}
  /\ class = {}

(***************************************************************************)
(* What is between the brackets, in any order.                             *)
(***************************************************************************)
CurrentCodepoint(c) == Decode(Encode(c, LengthOf(c)))

Adds(new_ranges, code_points) ==
  /\ phase = "adding"
  /\ added < MaxRanges
  /\ ranges' = new_ranges
  /\ added' = added + 1
  /\ class' = class \cup code_points
  /\ UNCHANGED <<phase, automaton>>

VisitCcRange(lo, hi) ==
  \E first \in {CurrentCodepoint(lo)}, last \in {CurrentCodepoint(hi)} :
    /\ first <= last
    /\ Adds(AddRange(ranges, first, last), lo..hi)

\* InvalidRangeException.
ThrowInvalidRange(lo, hi) ==
  /\ phase = "adding" /\ added < MaxRanges
  /\ CurrentCodepoint(lo) > CurrentCodepoint(hi)
  /\ phase' = "thrown"
  /\ UNCHANGED <<ranges, added, automaton, class>>

VisitCcSingle(c) ==
  \E codepoint \in {CurrentCodepoint(c)} :
    Adds(AddRange(ranges, codepoint, codepoint), {c})

VisitSharedAtom(rs) ==
  LET with[i \in 0..Len(rs)] ==
        IF i = 0 THEN ranges ELSE AddRange(with[i - 1], rs[i][1], rs[i][2])
  IN  Adds(with[Len(rs)], UNION {rs[i][1]..rs[i][2] : i \in DOMAIN rs})

NegateClass ==
  /\ phase = "adding"
  /\ added > 0
  /\ ranges' = Negate(ranges)
  /\ phase' = "negated"
  /\ class' = CodePoints \ class
  /\ UNCHANGED <<added, automaton>>

(***************************************************************************)
(* Without ranges, as in [^\d\D], the code reads the first of none: what   *)
(* it does then is undefined.                                              *)
(***************************************************************************)
BuildCharacterClassAutomaton ==
  /\ phase \in {"adding", "negated"}
  /\ added > 0
  /\ phase' = IF ranges = {} THEN "undefined" ELSE "built"
  /\ automaton' = UNION {RangeAutomaton(r) : r \in ranges}
  /\ ranges' = {}
  /\ UNCHANGED <<added, class>>

(***************************************************************************)
(* Atoms on their own. A shorthand is a class that nothing is added to.    *)
(***************************************************************************)
IsAtom(bytes, code_points) ==
  /\ phase = "adding" /\ added = 0
  /\ automaton' = bytes
  /\ class' = code_points
  /\ phase' = "built"
  /\ UNCHANGED <<ranges, added>>

VisitOther(c) ==
  IsAtom({[i \in 1..LengthOf(c) |-> {Encode(c, LengthOf(c))[i]}]}, {c})

\* The dot: of each length, every first byte that begins an encoding.
Dot ==
  {[i \in 1..k |-> IF i > 1 THEN Digits
                   ELSE Encode(FirstOfLength[k], k)[1]..Encode(LastOfLength(k), k)[1]] :
     k \in 1..Len(FirstOfLength)}
VisitSpecial == IsAtom(Dot, CodePoints)

Next ==
  \/ \E c \in EndPoints : VisitCcSingle(c) \/ VisitOther(c)
  \/ \E lo, hi \in EndPoints : VisitCcRange(lo, hi) \/ ThrowInvalidRange(lo, hi)
  \/ \E rs \in SharedAtoms : VisitSharedAtom(rs)
  \/ VisitSpecial
  \/ NegateClass
  \/ BuildCharacterClassAutomaton

Spec == Init /\ [][Next]_vars

----------------------------------------------------------------------------
(***************************************************************************)
(* However the ranges that are added overlap, touch or contain each other, *)
(* the set of ranges covers the code points of the class, and no other.    *)
(***************************************************************************)
RangesCoverTheClass ==
  phase \in {"adding", "negated"} =>
    UNION {r[1]..r[2] : r \in ranges} = class

(***************************************************************************)
(* There is a code point between any two ranges, which negate() relies on. *)
(***************************************************************************)
RangesAreApart ==
  \A r, s \in ranges : r # s => r[2] + 1 < s[1] \/ s[2] + 1 < r[1]

Accepts(bytes) ==
  \E sets \in automaton :
    /\ Len(sets) = Len(bytes)
    /\ \A i \in 1..Len(sets) : bytes[i] \in sets[i]

(***************************************************************************)
(* The automaton accepts the encoding of each code point of the class.     *)
(***************************************************************************)
EveryCodePointIsMatched ==
  phase = "built" => \A c \in class : Accepts(Encode(c, LengthOf(c)))

(***************************************************************************)
(* The automaton accepts nothing else: it is, as the comments say, the     *)
(* automaton of the ranges.                                                *)
(***************************************************************************)
NothingElseIsMatched ==
  phase = "built" =>
    \A c \in CodePoints \ class : ~Accepts(Encode(c, LengthOf(c)))

(***************************************************************************)
(* That holds unless, from the first to the last code point of a range,    *)
(* the bytes before the last one grow by one with a carry: the code then   *)
(* believes that there are prefixes in between. The same can happen to the *)
(* prefixes that really are in between.                                    *)
(***************************************************************************)
IsFirst(c, k) == c = FirstOfLength[k] \/ c - 1 \notin class
IsLast(c, k) == c = LastOfLength(k) \/ c + 1 \notin class
Carries(c, d) == /\ d \div Base = c \div Base + 1
                 /\ (d \div Base) % Base = 0
JoinedByCarry(k) ==
  \E c, d \in class \cap FirstOfLength[k]..LastOfLength(k) :
    /\ c <= d /\ c..d \subseteq class
    /\ IsFirst(c, k) /\ IsLast(d, k)
    /\ \/ k >= 3 /\ Carries(c, d)
       \/ k >= 4 /\ Carries(c \div Base + 1, d \div Base - 1)

NothingElseIsMatchedWithoutCarry ==
  phase = "built" /\ (\A k \in 1..Len(FirstOfLength) : ~JoinedByCarry(k)) =>
    \A c \in CodePoints \ class : ~Accepts(Encode(c, LengthOf(c)))
=============================================================================
