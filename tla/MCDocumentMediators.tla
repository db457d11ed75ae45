------------------------ MODULE MCDocumentMediators --------------------------
(***************************************************************************)
(* The expressions, some whose runs meet, some with which the filter and   *)
(* the algorithm might disagree, and some that give a variable several     *)
(* spans, over every document of up to MaxDocument letters.                *)
(***************************************************************************)
EXTENDS DocumentMediators, MCExpressions

MoreExpressions ==
  {\* [ab]*!x{a}[ab]*!y{b}b: the second node is the one handed on
   Lva!Cat(Lva!Kleene(AB), Lva!Cat(X(A), Lva!Cat(Lva!Kleene(AB), Lva!Cat(Y(B), B)))),
   \* ^!x{a}|!x{ab} and !x{a}$|!x{bb}
   Lva!Alter(Lva!Cat(Anchor(StartChar), X(A)), X(Lva!Cat(A, B))),
   Lva!Alter(Lva!Cat(X(A), Anchor(EndChar)), X(Lva!Cat(B, B)))}

MultiExpressions ==
  {\* (a|!x{a})!y{[ab]}: the second node is a new one
   Lva!Cat(Lva!Alter(A, X(A)), Y(AB)),
   \* (!x{a}|!y{b})+$ and !x{a}(b!x{a})?
   Lva!Cat(Lva!StrictKleene(Lva!Alter(X(A), Y(B))), Anchor(EndChar)),
   Lva!Cat(X(A), Lva!Optional(Lva!Cat(B, X(A))))}

\* !x{a+}|b and (!x{a})?b, for a run of their own
UnmarkedExpressions ==
  {Lva!Alter(X(Lva!StrictKleene(A)), B), Lva!Cat(Lva!Optional(X(A)), B)}

UnmarkedQueries == {ConstructQueryData(lva) : lva \in UnmarkedExpressions}
CheckedMultiQueries == {ConstructQueryData(lva) : lva \in MultiExpressions}
CheckedQueries ==
  {ConstructQueryData(lva) : lva \in Expressions \cup MoreExpressions}
    \cup CheckedMultiQueries

Letter == {a, b}
Markers == 0..3
MarkedPositions == (SUBSET Markers \ {{}}) \X (0..MaxDocument + 1)
=============================================================================
