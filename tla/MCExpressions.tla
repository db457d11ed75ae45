--------------------------- MODULE MCExpressions ----------------------------
(***************************************************************************)
(* A few expressions, one for each feature.                                *)
(* Variable x has the bits 0 and 1 in a code, y 2 and 3 (see Mappings).     *)
(***************************************************************************)
EXTENDS QueryData

CONSTANTS a, b

Chars(chars) == Lva!Single("filter", chars)
Anchor(char) == Lva!Single("anchor", {char})
X(lva) == Lva!Assign(lva, {0}, {1})
Y(lva) == Lva!Assign(lva, {2}, {3})
A == Chars({a})
B == Chars({b})
AB == Chars({a, b})

Expressions ==
  {\* !x{a} and !x{a+}
   X(A), X(Lva!StrictKleene(A)),
   \* !x{a(bb)?}
   X(Lva!Cat(A, Lva!Optional(Lva!Cat(B, B)))),
   \* !x{a}b+
   Lva!Cat(X(A), Lva!StrictKleene(B)),
   \* !x{[ab]+}!y{[ab]+}
   Lva!Cat(X(Lva!StrictKleene(AB)), Y(Lva!StrictKleene(AB))),
   \* !x{a}[ab]*!y{b}
   Lva!Cat(X(A), Lva!Cat(Lva!Kleene(AB), Y(B))),
   \* !x{aa|b}: the segment identificator gives segments without a match
   X(Lva!Alter(Lva!Cat(A, A), B)),
   \* !x{a}[ab]b+|!x{b}b+: two accepting deterministic states at one position
   Lva!Alter(Lva!Cat(X(A), Lva!Cat(AB, Lva!StrictKleene(B))),
             Lva!Cat(X(B), Lva!StrictKleene(B))),
   \* ^[ab]*!x{a} and (^|a)!x{b}
   Lva!Cat(Anchor(StartChar), Lva!Cat(Lva!Kleene(AB), X(A))),
   Lva!Cat(Lva!Alter(Anchor(StartChar), A), X(B)),
   \* !x{a+}$ and ^!x{[ab]+}
   Lva!Cat(X(Lva!StrictKleene(A)), Anchor(EndChar)),
   Lva!Cat(Anchor(StartChar), X(Lva!StrictKleene(AB)))}
=============================================================================
