------------------------- MODULE MCCharacterClasses -------------------------
(***************************************************************************)
(* Base 3, with three first bytes for each of the lengths 2, 3 and 4. The  *)
(* end points are around the places where the length or a prefix changes.  *)
(***************************************************************************)
EXTENDS CharacterClasses

\* A shorthand of two ranges, and all but those.
SmallSharedAtoms ==
  {<<<<1, 1>>, <<4, 12>>>>, <<<<0, 0>>, <<2, 3>>, <<13, MaxCodePoint>>>>}
SmallLengths == <<0, 3, 12, 36>>
SmallEndPoints == {0, 2, 3, 5, 11, 12, 18, 26, 27, 35, 36, 46, 53, 54, 62, 107}
=============================================================================
