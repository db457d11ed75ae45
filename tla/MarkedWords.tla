---------------------------- MODULE MarkedWords -----------------------------
(***************************************************************************)
(* What an expression means, for the automata to be compared with: a set   *)
(* of words, each a sequence of characters with a set of markers before    *)
(* each of them and after the last. Words are cut at MaxLetters            *)
(* characters, which changes no shorter word.                              *)
(***************************************************************************)
EXTENDS Integers, Sequences

CONSTANT MaxLetters

Word(letters, marks) == [letters |-> letters, marks |-> marks]
EmptyWord == Word(<<>>, <<{}>>)
Letter(c) == Word(<<c>>, <<{}, {}>>)
Marker(m) == Word(<<>>, <<m>>)

Followed(u, v) ==
  LET k == Len(u.marks)
  IN  Word(u.letters \o v.letters,
           SubSeq(u.marks, 1, k - 1) \o <<u.marks[k] \cup Head(v.marks)>>
             \o Tail(v.marks))

FollowedBy(U, V) ==
  {Followed(p[1], p[2]) :
     p \in {q \in U \X V : Len(q[1].letters) + Len(q[2].letters) <= MaxLetters}}

\* n times, and up to n times. Past MaxLetters times nothing is new.
Times(U, n) ==
  LET power[k \in 0..n] == IF k = 0 THEN {EmptyWord} ELSE FollowedBy(power[k - 1], U)
  IN  power[n]
UpTo(U, n) == Times(U \cup {EmptyWord}, n)
AnyTimes(U) == UpTo(U, MaxLetters)
=============================================================================
