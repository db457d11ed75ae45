------------------------------- MODULE MCLines -------------------------------
(***************************************************************************)
(* A few expressions over every text of up to MaxText characters, with     *)
(* lines that are empty, shorter than the buffer, as long, and longer.     *)
(***************************************************************************)
EXTENDS LineMediators, MCExpressions

CONSTANTS nl, MaxText

LineExpressions ==
  {\* !x{[ab]+} and !x{a}b
   X(Lva!StrictKleene(AB)), Lva!Cat(X(A), B),
   \* !x{a}[ab][ab]$ with many states of the SearchDFA
   Lva!Cat(X(A), Lva!Cat(AB, Lva!Cat(AB, Anchor(EndChar)))),
   \* !x{a}$ and ^!x{a}|!x{ab}
   Lva!Cat(X(A), Anchor(EndChar)),
   Lva!Alter(Lva!Cat(Anchor(StartChar), X(A)), X(Lva!Cat(A, B)))}

CheckedMultiQueries ==
  {\* (!x{a}|!y{b})+$
   ConstructQueryData(Lva!Cat(Lva!StrictKleene(Lva!Alter(X(A), Y(B))), Anchor(EndChar)))}
PlainQueries ==
  {\* ab, a$ and ^b without variables
   ConstructQueryData(Lva!Cat(A, B)), ConstructQueryData(Lva!Cat(A, Anchor(EndChar))),
   ConstructQueryData(Lva!Cat(Anchor(StartChar), B))}
CheckedQueries ==
  {ConstructQueryData(lva) : lva \in LineExpressions}
    \cup CheckedMultiQueries \cup PlainQueries

Letter == {a, b, nl}
CheckedTexts == UNION {[1..k -> Letter] : k \in 0..MaxText}
Sizes == {2, 3}
Markers == 0..3
MarkedPositions == (SUBSET Markers \ {{}}) \X (0..MaxText + 1)
=============================================================================
