----------------------- MODULE MCSegmentIdentificator -----------------------
(***************************************************************************)
(* Every NFA with one state between its initial and its accepting one and  *)
(* no useless state: what the SearchDFA does depends only on which runs    *)
(* survive and which accept.                                               *)
(***************************************************************************)
EXTENDS SegmentIdentificator

Filters(iq, iF, qq, qf) ==
  {<<"i", iq, "q">>, <<"i", iF, "f">>, <<"q", qq, "q">>, <<"q", qf, "f">>}

SmallNfas ==
  {[initial |-> "i", accepting |-> "f", filters |-> Filters(c[1], c[2], c[3], c[4])] :
     c \in {d \in [1..4 -> SUBSET Letters] :
              IF d[1] = {} THEN d[2] # {} /\ d[3] = {} /\ d[4] = {}
                           ELSE d[4] # {}}}

\* With a chain of two states in the middle, runs may die after two characters.
LongNfas ==
  {[initial |-> "i", accepting |-> "f",
    filters |-> {<<"i", c[1], "q">>, <<"q", c[2], "r">>, <<"r", c[3], "f">>,
                 <<"i", c[4], "f">>, <<"q", c[5], "f">>}] :
     c \in {d \in [1..5 -> SUBSET Letters] : \A k \in 1..3 : d[k] # {}}}

\* ^, and $ after any of them.
AnchoredNfas ==
  {[initial |-> "i", accepting |-> "f",
    filters |-> {<<"i", {StartChar}, "s">>, <<"s", c[1], "q">>, <<"i", c[2], "q">>,
                 <<"q", c[3], "q">>, <<"q", c[4], "f">>}] :
     c \in {d \in [1..4 -> SUBSET Letters \cup {{EndChar}}] :
              d[1] # {} /\ d[4] # {} /\ EndChar \notin d[1] \cup d[2] \cup d[3]}}

CheckedNfas == SmallNfas \cup LongNfas \cup AnchoredNfas
=============================================================================
