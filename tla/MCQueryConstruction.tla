------------------------ MODULE MCQueryConstruction ------------------------
EXTENDS QueryConstruction, TLC

CONSTANTS a, b

Alphabet == {a, b}
SmallClasses == {{a}, {b}}
SmallQuantifiers == {<<2, 3>>, <<0, 2>>, <<2, -1>>, <<0, -1>>, <<0, 0>>, <<2, 1>>}
Symmetric == Permutations(Alphabet)
=============================================================================
