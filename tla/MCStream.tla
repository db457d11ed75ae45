------------------------------ MODULE MCStream ------------------------------
(***************************************************************************)
(* Expressions whose candidate segments are long, broken off or anchored,  *)
(* over streams of up to MaxDocument letters and buffers that wrap round   *)
(* once, several times and not at all.                                     *)
(***************************************************************************)
EXTENDS StreamMediator, MCExpressions

StreamExpressions ==
  {\* !x{a+}, and !x{a[ab][ab][ab]}$ with many states of the SearchDFA
   X(Lva!StrictKleene(A)),
   Lva!Cat(X(Lva!Cat(A, Lva!Cat(AB, Lva!Cat(AB, AB)))), Anchor(EndChar)),
   \* !x{a}b+
   Lva!Cat(X(A), Lva!StrictKleene(B)),
   \* !x{a}[ab]*!y{b}
   Lva!Cat(X(A), Lva!Cat(Lva!Kleene(AB), Y(B))),
   \* !x{aa|b}
   X(Lva!Alter(Lva!Cat(A, A), B)),
   \* !x{a}[ab]b+|!x{b}b+: two accepting deterministic states at one position
   Lva!Alter(Lva!Cat(X(A), Lva!Cat(AB, Lva!StrictKleene(B))),
             Lva!Cat(X(B), Lva!StrictKleene(B))),
   \* ^!x{a}|!x{ab} and !x{a+}$
   Lva!Alter(Lva!Cat(Anchor(StartChar), X(A)), X(Lva!Cat(A, B))),
   Lva!Cat(X(Lva!StrictKleene(A)), Anchor(EndChar))}

MultiExpressions ==
  {\* (a|!x{a})!y{[ab]} and !x{a}(b!x{a})?
   Lva!Cat(Lva!Alter(A, X(A)), Y(AB)),
   Lva!Cat(X(A), Lva!Optional(Lva!Cat(B, X(A))))}

CheckedMultiQueries == {ConstructQueryData(lva) : lva \in MultiExpressions}
CheckedQueries ==
  {ConstructQueryData(lva) : lva \in StreamExpressions} \cup CheckedMultiQueries

Letter == {a, b}
Sizes == {2, 3, 8}
Markers == 0..3
MarkedPositions == (SUBSET Markers \ {{}}) \X (0..MaxDocument + 1)
=============================================================================
