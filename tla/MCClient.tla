------------------------------ MODULE MCClient ------------------------------
(***************************************************************************)
(* Queries of no, one and two variables over a text of Size characters;    *)
(* variables with several spans, side by side and apart, and with none.    *)
(***************************************************************************)
EXTENDS Client, TLC

Spanned(spans) == [v \in {0} |-> spans]
TwoSpanned(first, second) == (0 :> first) @@ (1 :> second)

ClientResults ==
  {\* no match, and the match of a query without variables
   << >>, << NoEntries >>,
   \* one variable with one span, twice
   <<Spanned({<<0, 1>>}), Spanned({<<1, 3>>})>>,
   \* spans side by side and apart, then none at all
   <<Spanned({<<0, 1>>, <<1, 2>>}), Spanned({})>>,
   \* two variables, the spans of one around that of the other
   <<TwoSpanned({<<0, 1>>, <<2, 3>>}, {<<1, 3>>})>>,
   <<TwoSpanned({<<0, 2>>}, {<<1, 2>>})>>}

Sizes == {2, 3}
NumberedVariables == {0..n - 1 : n \in 0..2}
SmallLimits == 0..3
=============================================================================
