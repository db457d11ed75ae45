----------------------------- MODULE Documents -----------------------------
(***************************************************************************)
(* A document is a sequence of characters, read by position from 0. Its    *)
(* size counts one more character, which ends it; and any position past it *)
(* reads that one too. Another character, never in the document, stands    *)
(* for its start. Anchors match these two.                                 *)
(***************************************************************************)
EXTENDS Integers, Sequences

CONSTANTS Letters, StartChar, EndChar

ASSUME AnchorCharsAssumption ==
  StartChar # EndChar /\ {StartChar, EndChar} \cap Letters = {}

Characters == Letters \cup {StartChar, EndChar}

Size(doc) == Len(doc) + 1
CharAt(doc, i) == IF i < Len(doc) THEN doc[i + 1] ELSE EndChar
=============================================================================
