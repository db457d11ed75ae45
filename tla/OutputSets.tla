----------------------------- MODULE OutputSets -----------------------------
(***************************************************************************)
(* What an Enumerable Compact Set promises, without nodes or memory: the   *)
(* client holds handles, each stands for the collection of outputs it was  *)
(* built to stand for, and goes on doing so until the client lets it go.   *)
(*                                                                         *)
(* An output is the sequence of labels read from the bottom node up. A     *)
(* collection of them is a bag: a union of handles that share an output    *)
(* enumerates it twice.                                                    *)
(***************************************************************************)
EXTENDS Naturals, Sequences, Bags

CONSTANT Labels

VARIABLE value  \* value[h]: the outputs handle h stands for

NoHandles == [h \in {} |-> EmptyBag]
EmptyOutput == SetToBag({<< >>})

\* Every output goes on with l, as many times as it was there.
ExtendBag(b, l) ==
  [o \in {Append(p, l) : p \in DOMAIN b} |-> b[SubSeq(o, 1, Len(o) - 1)]]

Init == value = NoHandles

(***************************************************************************)
(* What a new handle may stand for, given the handles there are.           *)
(***************************************************************************)
Creatable(b, old) ==
  LET collections == {old[n] : n \in DOMAIN old}
  IN  \/ b = EmptyOutput
      \/ \E c \in collections, l \in Labels : b = ExtendBag(c, l)
      \/ \E c1, c2 \in collections : b = c1 (+) c2

\* The client gets a new handle, and may let go of an operand at once: the
\* handles it keeps stand for what they stood for.
Create(old, new) ==
  \E h \in DOMAIN new \ DOMAIN old :
    /\ DOMAIN new \subseteq DOMAIN old \cup {h}
    /\ Creatable(new[h], old)
    /\ \A k \in DOMAIN new \ {h} : new[k] = old[k]

LetGo(old, new) ==
  /\ DOMAIN new \subseteq DOMAIN old
  /\ \A k \in DOMAIN new : new[k] = old[k]

Next == LetGo(value, value') \/ Create(value, value')

Spec == Init /\ [][Next]_value
=============================================================================
