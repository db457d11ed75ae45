-------------------------- MODULE EnumeratorProofs --------------------------
(***************************************************************************)
(* The enumeration of any graph that can be enumerated lists what its root *)
(* stands for, in order, and reaches each output after a number of steps   *)
(* that its length alone bounds.                                           *)
(*                                                                         *)
(* The nodes on the stack hold what is still to be listed: each of them    *)
(* with the annotations of the path to it, which the counters on the other *)
(* stack mark in inverted_annotations.                                     *)
(***************************************************************************)
EXTENDS Enumerator, NodeManagerProofs

Symbols == Labels \cup {NoLabel}
Outputs == Seq(Symbols)

----------------------------------------------------------------------------
(***************************************************************************)
(* What each node stands for.                                              *)
(***************************************************************************)
Lists(h, S, out) == out = [n \in S |-> OutputsAt(h.node[n], out)]

\* The children that matter.
LEMMA ChildrenBelow ==
  ASSUME NEW h, Enumerable(h), NEW S, NEW n \in Above(h, S)
  PROVE  /\ n \in Addresses(h) /\ h.node[n] \in Node
         /\ h.node[n].kind = "label" => h.node[n].left \in S
         /\ h.node[n].kind = "union" => h.node[n].left \in S /\ h.node[n].right \in S
<1>1. n \in Addresses(h) /\ Linked(h, n) /\ h.node \in Seq(Node)
  BY DEF Above, Enumerable
<1>2. Null \notin Addresses(h) /\ h.node[n] \in Node
  BY <1>1 DEF Addresses, Null
<1>3. {h.node[n].left, h.node[n].right} \subseteq S \cup {Null}
  BY DEF Above
<1>4. h.node[n].left \in S \cup {Null} /\ h.node[n].right \in S \cup {Null}
  BY <1>3
<1> QED
  BY <1>1, <1>2, <1>4 DEF Linked

\* A node's outputs depend on those of its children alone.
LEMMA OutputsOfChildren ==
  ASSUME NEW nd \in Node, NEW f, NEW g,
         nd.kind = "label" => f[nd.left] = g[nd.left],
         nd.kind = "union" => f[nd.left] = g[nd.left] /\ f[nd.right] = g[nd.right]
  PROVE  OutputsAt(nd, f) = OutputsAt(nd, g)
<1>1. nd.kind \in {"bottom", "label", "union"}
  BY DEF Node, Kinds
<1>2. CASE nd.kind = "bottom"
  BY <1>2 DEF OutputsAt
<1>3. CASE nd.kind = "label"
  BY <1>3 DEF OutputsAt
<1>4. CASE nd.kind = "union"
  BY <1>4 DEF OutputsAt
<1> QED
  BY <1>1, <1>2, <1>3, <1>4

LEMMA ListingUpToLayer ==
  ASSUME NEW h, Enumerable(h), NEW N \in Nat, NEW layer, Layered(h, N, layer)
  PROVE  \A k \in 0..N : \E out : Lists(h, layer[k], out)
<1> DEFINE T == {k \in 0..N : ~\E out : Lists(h, layer[k], out)}
<1>1. SUFFICES ASSUME T # {} PROVE FALSE
  OBVIOUS
<1>2. PICK k \in T : \A y \in T : ~(y < k)
  <2>1. T \subseteq Nat
    OBVIOUS
  <2> HIDE DEF T
  <2> QED
    BY <1>1, <2>1, LeastNumber
<1>3. k \in 0..N /\ ~\E out : Lists(h, layer[k], out)
  OBVIOUS
<1>4. k # 0
  <2>1. Lists(h, {}, [n \in {} |-> 0])
    BY DEF Lists
  <2> QED
    BY <1>3, <2>1 DEF Layered
<1>5. k \in 1..N /\ k - 1 \in 0..N /\ k - 1 < k
  BY <1>3, <1>4
<1>6. PICK f : Lists(h, layer[k - 1], f)
  BY <1>2, <1>5
<1> HIDE DEF T
<1>7. layer[k] = Above(h, layer[k - 1]) /\ layer[k - 1] \subseteq layer[k]
  <2>1. \A i \in 1..N : layer[i - 1] \subseteq layer[i]
    BY LayersGrow
  <2> QED
    BY <1>5, <2>1 DEF Layered
<1> DEFINE g == [n \in layer[k] |-> OutputsAt(h.node[n], f)]
<1>8. \A n \in layer[k - 1] : g[n] = f[n]
  BY <1>6, <1>7, Zenon DEF Lists
<1>9. \A n \in layer[k] : OutputsAt(h.node[n], f) = OutputsAt(h.node[n], g)
  <2> HIDE DEF g
  <2> TAKE n \in layer[k]
  <2>1. /\ h.node[n] \in Node
        /\ h.node[n].kind = "label" => h.node[n].left \in layer[k - 1]
        /\ h.node[n].kind = "union" => /\ h.node[n].left \in layer[k - 1]
                                       /\ h.node[n].right \in layer[k - 1]
    BY <1>7, ChildrenBelow
  <2> DEFINE nd == h.node[n]
  <2>2. /\ nd \in Node
        /\ nd.kind = "label" => f[nd.left] = g[nd.left]
        /\ nd.kind = "union" => f[nd.left] = g[nd.left] /\ f[nd.right] = g[nd.right]
    BY <1>8, <2>1
  <2> HIDE DEF nd
  <2>3. OutputsAt(nd, f) = OutputsAt(nd, g)
    BY <2>2, OutputsOfChildren
  <2> QED
    BY <2>3 DEF nd
<1>10. Lists(h, layer[k], g)
  BY <1>9 DEF Lists
<1> QED
  BY <1>3, <1>10

LEMMA ListsOutputs ==
  ASSUME NEW h, Enumerable(h)
  PROVE  Lists(h, Addresses(h), OutputsBelow(h))
<1> DEFINE N == Len(h.node)
<1>1. N \in Nat /\ Grounded(h) = Addresses(h)
  BY DEF Enumerable
<1>2. PICK layer : Addresses(h) = layer[N] /\ Layered(h, N, layer)
  BY <1>1, GroundedLayers
<1> HIDE DEF N
<1>3. \E out : Lists(h, Addresses(h), out)
  BY <1>1, <1>2, ListingUpToLayer
<1> QED
  BY <1>3, Zenon DEF Lists, OutputsBelow

----------------------------------------------------------------------------
(***************************************************************************)
(* A path of labels, put before every output of a list.                    *)
(***************************************************************************)
Prefixed(p, s) == [i \in DOMAIN s |-> p \o s[i]]

LEMMA PrefixedIsAList ==
  ASSUME NEW p \in Outputs, NEW s \in Seq(Outputs)
  PROVE  /\ Prefixed(p, s) \in Seq(Outputs)
         /\ Len(Prefixed(p, s)) = Len(s)
         /\ \A i \in 1..Len(s) : Prefixed(p, s)[i] = p \o s[i]
<1> DEFINE S == Outputs
<1>1. \A q \in S : p \o q \in S
  BY DEF Outputs
<1> HIDE DEF S
<1>2. s \in Seq(S)
  BY DEF S
<1>3. \A i \in 1..Len(s) : s[i] \in S
  BY <1>2
<1>4. Prefixed(p, s) = [i \in 1..Len(s) |-> p \o s[i]]
  BY <1>2 DEF Prefixed
<1>5. Prefixed(p, s) \in Seq(S) /\ Len(Prefixed(p, s)) = Len(s)
  <2> DEFINE e(i) == p \o s[i]
  <2>1. \A i \in 1..Len(s) : e(i) \in S
    BY <1>1, <1>3
  <2> HIDE DEF e
  <2>2. [i \in 1..Len(s) |-> e(i)] \in Seq(S)
    BY <1>2, <2>1, IsASeq
  <2>3. Len([i \in 1..Len(s) |-> e(i)]) = Len(s)
    BY <1>2, <2>2
  <2> QED
    BY <1>4, <2>2, <2>3 DEF e
<1> QED
  BY <1>4, <1>5 DEF S

LEMMA PrefixedByNothing ==
  ASSUME NEW p \in Outputs
  PROVE  Prefixed(p, << << >> >>) = <<p>>
<1>1. p \o << >> = p
  BY DEF Outputs
<1>2. DOMAIN << << >> >> = {1} /\ << << >> >>[1] = << >>
  OBVIOUS
<1>3. Prefixed(p, << << >> >>) = [i \in {1} |-> p]
  BY <1>1, <1>2 DEF Prefixed
<1> QED
  BY <1>3

LEMMA PrefixedTwice ==
  ASSUME NEW p \in Outputs, NEW q \in Outputs, NEW s \in Seq(Outputs)
  PROVE  Prefixed(p, Prefixed(q, s)) = Prefixed(p \o q, s)
<1>1. p \o q \in Outputs
  BY DEF Outputs
<1>2. \A i \in 1..Len(s) : p \o (q \o s[i]) = (p \o q) \o s[i]
  <2> TAKE i \in 1..Len(s)
  <2>1. s[i] \in Outputs
    <3> DEFINE S == Outputs
    <3> HIDE DEF S
    <3>1. s \in Seq(S)
      BY DEF S
    <3> QED
      BY <3>1 DEF S
  <2> DEFINE E == Symbols
             r == s[i]
  <2>2. p \in Seq(E) /\ q \in Seq(E) /\ r \in Seq(E)
    BY <2>1 DEF Outputs
  <2> HIDE DEF E, r
  <2>3. p \o (q \o r) = (p \o q) \o r
    BY <2>2
  <2> QED
    BY <2>3 DEF r
<1>3. Prefixed(q, s) \in Seq(Outputs) /\ Len(Prefixed(q, s)) = Len(s)
  BY PrefixedIsAList
<1> DEFINE a == Prefixed(p, Prefixed(q, s))
           b == Prefixed(p \o q, s)
<1>4. /\ a \in Seq(Outputs) /\ Len(a) = Len(s)
      /\ \A i \in 1..Len(s) : a[i] = p \o Prefixed(q, s)[i]
  BY <1>3, PrefixedIsAList
<1>5. /\ b \in Seq(Outputs) /\ Len(b) = Len(s)
      /\ \A i \in 1..Len(s) : b[i] = (p \o q) \o s[i]
  BY <1>1, PrefixedIsAList
<1>6. \A i \in 1..Len(s) : Prefixed(q, s)[i] = q \o s[i]
  BY PrefixedIsAList
<1> HIDE DEF a, b
<1> DEFINE S == Outputs
<1>7. a \in Seq(S) /\ b \in Seq(S) /\ Len(a) = Len(b)
  BY <1>4, <1>5
<1>8. \A i \in 1..Len(a) : a[i] = b[i]
  BY <1>2, <1>4, <1>5, <1>6
<1> HIDE DEF S
<1>9. a = b
  BY <1>7, <1>8, SeqEqual
<1> QED
  BY <1>9 DEF a, b

\* Lists of outputs may be joined in any order.
LEMMA Regrouped ==
  \A x, y, z \in Seq(Outputs) : (x \o y) \o z = x \o (y \o z)
  BY ConcatAssociative

LEMMA PrefixedConcat ==
  ASSUME NEW p \in Outputs, NEW s \in Seq(Outputs), NEW t \in Seq(Outputs)
  PROVE  Prefixed(p, s \o t) = Prefixed(p, s) \o Prefixed(p, t)
<1> DEFINE a == Prefixed(p, s \o t)
           b == Prefixed(p, s)
           c == Prefixed(p, t)
           S == Outputs
           st == s \o t
<1>1. /\ b \in Seq(S) /\ Len(b) = Len(s)
      /\ \A i \in 1..Len(s) : b[i] = p \o s[i]
  BY PrefixedIsAList
<1>2. /\ c \in Seq(S) /\ Len(c) = Len(t)
      /\ \A i \in 1..Len(t) : c[i] = p \o t[i]
  BY PrefixedIsAList
<1>3. s \in Seq(S) /\ t \in Seq(S)
  OBVIOUS
<1> HIDE DEF S
<1>4. /\ st \in Seq(S) /\ Len(st) = Len(s) + Len(t)
      /\ \A i \in 1..Len(s) + Len(t) :
           st[i] = IF i <= Len(s) THEN s[i] ELSE t[i - Len(s)]
  BY <1>3
<1> HIDE DEF st
<1>5. /\ a \in Seq(S) /\ Len(a) = Len(s) + Len(t)
      /\ \A i \in 1..Len(s) + Len(t) : a[i] = p \o st[i]
  <2>1. a = Prefixed(p, st)
    BY DEF st
  <2>2. st \in Seq(Outputs)
    BY <1>4 DEF S
  <2> HIDE DEF a
  <2> QED
    BY <1>4, <2>1, <2>2, PrefixedIsAList DEF S
<1> HIDE DEF a, b, c
<1> DEFINE d == b \o c
<1>6. /\ d \in Seq(S) /\ Len(d) = Len(s) + Len(t)
      /\ \A i \in 1..Len(s) + Len(t) :
           d[i] = IF i <= Len(s) THEN b[i] ELSE c[i - Len(s)]
  <2>1. b \in Seq(S) /\ c \in Seq(S)
    BY <1>1, <1>2
  <2>2. /\ d \in Seq(S) /\ Len(d) = Len(b) + Len(c)
        /\ \A i \in 1..Len(b) + Len(c) :
             d[i] = IF i <= Len(b) THEN b[i] ELSE c[i - Len(b)]
    BY <2>1
  <2> HIDE DEF d
  <2> QED
    BY <1>1, <1>2, <2>2
<1> HIDE DEF d
<1>7. \A i \in 1..Len(s) + Len(t) : a[i] = d[i]
  <2> TAKE i \in 1..Len(s) + Len(t)
  <2>1. Len(s) \in Nat /\ Len(t) \in Nat
    BY <1>3
  <2>2. CASE i <= Len(s)
    <3>1. i \in 1..Len(s)
      BY <2>1, <2>2
    <3>2. a[i] = p \o st[i] /\ st[i] = s[i] /\ d[i] = b[i]
      BY <1>4, <1>5, <1>6, <2>2
    <3> QED
      BY <1>1, <3>1, <3>2
  <2>3. CASE ~(i <= Len(s))
    <3>1. i - Len(s) \in 1..Len(t)
      BY <2>1, <2>3
    <3> QED
      BY <1>2, <1>4, <1>5, <1>6, <2>3, <3>1
  <2> QED
    BY <2>2, <2>3
<1>8. a = d
  BY <1>5, <1>6, <1>7, SeqEqual
<1> QED
  BY <1>8 DEF a, b, c, d, st

----------------------------------------------------------------------------
(***************************************************************************)
(* The lists of outputs, node by node.                                     *)
(***************************************************************************)
LEMMA OutputsByKind ==
  ASSUME NEW h, NEW out, Lists(h, Addresses(h), out), NEW n \in Addresses(h)
  PROVE  LET nd == h.node[n]
         IN  /\ nd.kind = "bottom" => out[n] = << << >> >>
             /\ nd.kind = "label" => out[n] = Prefixed(<<nd.label>>, out[nd.left])
             /\ nd.kind = "union" => out[n] = out[nd.left] \o out[nd.right]
<1> DEFINE nd == h.node[n]
<1>1. out[n] = OutputsAt(nd, out)
  BY Zenon DEF Lists
<1> HIDE DEF nd
<1>2. nd.kind = "bottom" => out[n] = << << >> >>
  BY <1>1 DEF OutputsAt
<1>3. nd.kind = "label" => out[n] = Prefixed(<<nd.label>>, out[nd.left])
  BY <1>1 DEF OutputsAt, Prefixed
<1>4. nd.kind = "union" => out[n] = out[nd.left] \o out[nd.right]
  BY <1>1 DEF OutputsAt
<1> QED
  BY <1>2, <1>3, <1>4 DEF nd

LEMMA EveryNodeHasOutputs ==
  ASSUME NEW h, Enumerable(h), NEW out, Lists(h, Addresses(h), out)
  PROVE  \A n \in Addresses(h) : out[n] \in Seq(Outputs) /\ out[n] # << >>
<1> DEFINE N == Len(h.node)
           S == {s \in Seq(Outputs) : s # << >>}
<1>1. N \in Nat /\ Grounded(h) = Addresses(h)
  BY DEF Enumerable
<1>2. PICK layer : Addresses(h) = layer[N] /\ Layered(h, N, layer)
  BY <1>1, GroundedLayers
<1> HIDE DEF N, S
<1> DEFINE T == {k \in 0..N : ~\A n \in layer[k] : out[n] \in S}
<1>3. T = {}
  <2>1. SUFFICES ASSUME T # {} PROVE FALSE
    OBVIOUS
  <2>2. PICK k \in T : \A y \in T : ~(y < k)
    <3>1. T \subseteq Nat
      OBVIOUS
    <3> HIDE DEF T
    <3> QED
      BY <2>1, <3>1, LeastNumber
  <2>3. PICK n \in layer[k] : out[n] \notin S
    OBVIOUS
  <2>4. k \in 1..N /\ k - 1 \in 0..N /\ k - 1 < k
    BY <1>1, <1>2, <2>3 DEF Layered
  <2>5. \A m \in layer[k - 1] : out[m] \in S
    BY <2>2, <2>4
  <2>6. n \in Above(h, layer[k - 1])
    BY <1>2, <2>3, <2>4 DEF Layered
  <2> HIDE DEF T
  <2> DEFINE nd == h.node[n]
  <2>7. /\ n \in Addresses(h) /\ nd \in Node
        /\ nd.kind = "label" => nd.left \in layer[k - 1]
        /\ nd.kind = "union" => nd.left \in layer[k - 1] /\ nd.right \in layer[k - 1]
    BY <2>6, ChildrenBelow
  <2>9. /\ nd.kind = "bottom" => out[n] = << << >> >>
        /\ nd.kind = "label" => out[n] = Prefixed(<<nd.label>>, out[nd.left])
        /\ nd.kind = "union" => out[n] = out[nd.left] \o out[nd.right]
    BY <2>7, OutputsByKind
  <2> HIDE DEF nd
  <2>10. nd.kind \in {"bottom", "label", "union"} /\ nd.label \in Symbols
    BY <2>7 DEF Node, Kinds, Symbols
  <2>11. CASE nd.kind = "bottom"
    <3>1. << << >> >> \in Seq(Outputs) /\ << << >> >> # << >>
      BY DEF Outputs
    <3> QED
      BY <2>3, <2>9, <2>11, <3>1 DEF S
  <2>12. CASE nd.kind = "label"
    <3> DEFINE p == <<nd.label>>
               s == out[nd.left]
    <3>1. p \in Outputs
      BY <2>10 DEF Outputs
    <3>2. s \in Seq(Outputs) /\ s # << >>
      BY <2>5, <2>7, <2>12 DEF S
    <3> HIDE DEF p, s
    <3>3. Prefixed(p, s) \in Seq(Outputs) /\ Len(Prefixed(p, s)) = Len(s)
      BY <3>1, <3>2, PrefixedIsAList
    <3>4. Len(s) # 0
      BY <3>2
    <3>5. Prefixed(p, s) \in S
      BY <3>3, <3>4 DEF S
    <3> QED
      BY <2>3, <2>9, <2>12, <3>5 DEF p, s
  <2>13. CASE nd.kind = "union"
    <3>1. out[nd.left] \in S /\ out[nd.right] \in S
      BY <2>5, <2>7, <2>13
    <3>2. \A s, t \in S : s \o t \in S
      <4> DEFINE E == Outputs
      <4> HIDE DEF E
      <4>1. \A s, t \in Seq(E) : s \o t \in Seq(E) /\ (s # << >> => s \o t # << >>)
        OBVIOUS
      <4> QED
        BY <4>1 DEF S, E
    <3> QED
      BY <2>3, <2>9, <2>13, <3>1, <3>2
  <2> QED
    BY <2>10, <2>11, <2>12, <2>13
<1>4. N \in 0..N
  BY <1>1
<1>5. \A n \in layer[N] : out[n] \in S
  BY <1>3, <1>4
<1> QED
  BY <1>2, <1>5 DEF S

----------------------------------------------------------------------------
(***************************************************************************)
(* The two stacks. The counters c mark prefixes of the annotations a, and  *)
(* the node at j of the stack s is to be listed below the prefix of length *)
(* len[j]; rest[j] is what the first j nodes still give, the last of them  *)
(* first.                                                                  *)
(***************************************************************************)
Marks(a, c, len) ==
  /\ len \in [0..Len(c) -> Nat]
  /\ len[0] = 0
  /\ \A j \in 1..Len(c) : len[j] = len[j - 1] + c[j]
  /\ \A j \in 0..Len(c) : len[j] <= Len(a)
  /\ len[Len(c)] = Len(a)

Remains(out, s, a, len, rest) ==
  /\ rest \in [0..Len(s) -> Seq(Outputs)]
  /\ rest[0] = << >>
  /\ \A j \in 1..Len(s) :
       rest[j] = Prefixed(SubSeq(a, 1, len[j]), out[s[j]]) \o rest[j - 1]

LEMMA FrontIsShorter ==
  ASSUME NEW D, NEW s \in Seq(D), s # << >>
  PROVE  /\ Front(s) \in Seq(D) /\ Len(Front(s)) = Len(s) - 1
         /\ \A j \in 1..Len(s) - 1 : Front(s)[j] = s[j]
         /\ Last(s) = s[Len(s)] /\ Last(s) \in D
<1>1. Len(s) \in Nat /\ Len(s) # 0
  OBVIOUS
<1> QED
  BY <1>1, SMTT(30) DEF Front, Last

\* The annotations of the last node go with its counter.
LEMMA MarksOfFront ==
  ASSUME NEW a \in Outputs, NEW c \in Seq(Nat), c # << >>, NEW len, Marks(a, c, len),
         NEW k, k = Len(a) - Last(c)
  PROVE  /\ k \in 0..Len(a)
         /\ Front(c) \in Seq(Nat) /\ Len(Front(c)) = Len(c) - 1
         /\ \E shorter : /\ Marks(SubSeq(a, 1, k), Front(c), shorter)
                         /\ \A j \in 0..Len(c) - 1 : shorter[j] = len[j] /\ len[j] <= k
<1> DEFINE n == Len(c)
           b == SubSeq(a, 1, k)
           f == Front(c)
           shorter == [j \in 0..n - 1 |-> len[j]]
<1>1. n \in Nat /\ n # 0 /\ c[n] \in Nat /\ Len(a) \in Nat /\ a \in Seq(Symbols)
  BY DEF Outputs
<1> HIDE DEF n
<1>2. k = len[n - 1] /\ k \in 0..Len(a)
  <2>1. n \in 1..n /\ n - 1 \in 0..n /\ n \in 0..n
    BY <1>1
  <2>2. len[n] = len[n - 1] + c[n] /\ len[n - 1] \in Nat /\ len[n] = Len(a)
    BY <2>1 DEF Marks, n
  <2>3. k = Len(a) - c[n]
    BY DEF Last, n
  <2> QED
    BY <1>1, <2>2, <2>3
<1>3. f \in Seq(Nat) /\ Len(f) = n - 1 /\ \A j \in 1..n - 1 : f[j] = c[j]
  BY FrontIsShorter DEF n
<1>4. Len(b) = k
  <2> DEFINE E == Symbols
  <2> HIDE DEF E
  <2>1. a \in Seq(E)
    BY <1>1 DEF E
  <2> QED
    BY <1>2, <2>1
<1> HIDE DEF b, f
<1>5. \A j \in 0..n - 1 : len[j] <= k
  <2> DEFINE T == {i \in Nat : i <= n - 1 /\ ~(len[(n - 1) - i] <= k)}
  <2>1. T = {}
    <3>1. SUFFICES ASSUME T # {} PROVE FALSE
      OBVIOUS
    <3>2. PICK i \in T : \A y \in T : ~(y < i)
      <4>1. T \subseteq Nat
        OBVIOUS
      <4> HIDE DEF T
      <4> QED
        BY <3>1, <4>1, LeastNumber
    <3>3. i \in Nat /\ i <= n - 1 /\ ~(len[(n - 1) - i] <= k)
      OBVIOUS
    <3>4. i # 0
      BY <1>1, <1>2, <3>3
    <3>5. i - 1 \in Nat /\ i - 1 <= n - 1 /\ i - 1 < i
      BY <1>1, <3>3, <3>4
    <3>6. len[(n - 1) - (i - 1)] <= k
      BY <3>2, <3>5
    <3> DEFINE j == (n - 1) - (i - 1)
    <3>7. j \in 1..n /\ j - 1 = (n - 1) - i /\ j - 1 \in 0..n
      BY <1>1, <3>3, <3>4
    <3> HIDE DEF j
    <3>8. len[j] = len[j - 1] + c[j] /\ len[j - 1] \in Nat /\ c[j] \in Nat
      <4>1. j \in 1..Len(c) /\ j - 1 \in 0..Len(c)
        BY <3>7 DEF n
      <4>2. c[j] \in Nat
        BY <4>1
      <4>3. len[j - 1] \in Nat
        BY <4>1 DEF Marks
      <4>4. len[j] = len[j - 1] + c[j]
        BY <4>1 DEF Marks
      <4> QED
        BY <4>2, <4>3, <4>4
    <3>9. len[j] <= k
      BY <3>6 DEF j
    <3> QED
      BY <1>2, <3>3, <3>7, <3>8, <3>9
  <2> SUFFICES ASSUME NEW j \in 0..n - 1, ~(len[j] <= k) PROVE FALSE
    OBVIOUS
  <2>2. (n - 1) - j \in Nat /\ (n - 1) - j <= n - 1 /\ (n - 1) - ((n - 1) - j) = j
    BY <1>1
  <2>3. (n - 1) - j \in T
    BY <2>2
  <2> QED
    BY <2>1, <2>3
<1>6. \A j \in 0..n - 1 : shorter[j] = len[j]
  OBVIOUS
<1>7. shorter \in [0..n - 1 -> Nat]
  BY <1>1 DEF Marks, n
<1> HIDE DEF shorter
<1>8. Marks(b, f, shorter)
  <2>1. shorter[0] = 0 /\ shorter[n - 1] = k
    BY <1>1, <1>2, <1>6 DEF Marks
  <2>2. \A j \in 1..n - 1 : shorter[j] = shorter[j - 1] + f[j]
    BY <1>1, <1>3, <1>6 DEF Marks, n
  <2>3. \A j \in 0..n - 1 : shorter[j] <= k
    BY <1>5, <1>6
  <2> QED
    BY <1>3, <1>4, <1>7, <2>1, <2>2, <2>3 DEF Marks
<1>9. \A j \in 0..Len(c) - 1 : shorter[j] = len[j] /\ len[j] <= k
  BY <1>5, <1>6 DEF n
<1>10. Front(c) \in Seq(Nat) /\ Len(Front(c)) = Len(c) - 1
  BY <1>3 DEF f, n
<1> QED
  BY <1>2, <1>8, <1>9, <1>10 DEF b, f

\* A prefix is the same in what comes to share it.
LEMMA SamePrefix ==
  ASSUME NEW a \in Outputs, NEW k \in 0..Len(a), NEW j \in 0..k
  PROVE  SubSeq(SubSeq(a, 1, k), 1, j) = SubSeq(a, 1, j)
<1> DEFINE E == Symbols
<1>1. a \in Seq(E) /\ k \in Nat /\ j \in Nat /\ k <= Len(a) /\ j <= k /\ Len(a) \in Nat
  BY DEF Outputs
<1> HIDE DEF E
<1> DEFINE b == SubSeq(a, 1, k)
<1>2. b \in Seq(E) /\ Len(b) = k /\ \A i \in 1..k : b[i] = a[i]
  BY <1>1
<1> HIDE DEF b
<1> DEFINE x == SubSeq(b, 1, j)
           y == SubSeq(a, 1, j)
<1>3. x \in Seq(E) /\ Len(x) = j /\ \A i \in 1..j : x[i] = b[i]
  BY <1>1, <1>2
<1>4. y \in Seq(E) /\ Len(y) = j /\ \A i \in 1..j : y[i] = a[i]
  BY <1>1
<1> HIDE DEF x, y
<1>5. \A i \in 1..j : x[i] = y[i]
  BY <1>1, <1>2, <1>3, <1>4
<1>6. x = y
  BY <1>3, <1>4, <1>5, SeqEqual
<1> QED
  BY <1>6 DEF b, x, y

LEMMA PrefixOfAppend ==
  ASSUME NEW a \in Outputs, NEW l \in Symbols, NEW j \in 0..Len(a)
  PROVE  SubSeq(Append(a, l), 1, j) = SubSeq(a, 1, j)
<1> DEFINE E == Symbols
<1>1. a \in Seq(E) /\ l \in E /\ j \in Nat /\ j <= Len(a) /\ Len(a) \in Nat
  BY DEF Outputs
<1> HIDE DEF E
<1> DEFINE b == Append(a, l)
<1>2. b \in Seq(E) /\ Len(b) = Len(a) + 1 /\ \A i \in 1..Len(a) : b[i] = a[i]
  BY <1>1
<1> HIDE DEF b
<1> DEFINE x == SubSeq(b, 1, j)
           y == SubSeq(a, 1, j)
<1>3. x \in Seq(E) /\ Len(x) = j /\ \A i \in 1..j : x[i] = b[i]
  BY <1>1, <1>2
<1>4. y \in Seq(E) /\ Len(y) = j /\ \A i \in 1..j : y[i] = a[i]
  BY <1>1
<1> HIDE DEF x, y
<1>5. \A i \in 1..j : x[i] = y[i]
  BY <1>1, <1>2, <1>3, <1>4
<1>6. x = y
  BY <1>3, <1>4, <1>5, SeqEqual
<1> QED
  BY <1>6 DEF b, x, y

----------------------------------------------------------------------------
(***************************************************************************)
(* What each iteration does to the two stacks, in the order of the loop.   *)
(***************************************************************************)
LEMMA WholePrefix ==
  ASSUME NEW a \in Outputs
  PROVE  SubSeq(a, 1, Len(a)) = a
BY SubSeqFull DEF Outputs

\* Undoing the annotations of a returned mapping leaves what remains.
LEMMA RemainsAfterResume ==
  ASSUME NEW out, NEW D, NEW s \in Seq(D), NEW a \in Outputs, NEW k \in 0..Len(a),
         NEW len, NEW shorter, NEW rest, Remains(out, s, a, len, rest),
         \A j \in 0..Len(s) : shorter[j] \in Nat /\ shorter[j] = len[j] /\ len[j] <= k
  PROVE  Remains(out, s, SubSeq(a, 1, k), shorter, rest)
<1> DEFINE b == SubSeq(a, 1, k)
<1>1. \A j \in 1..Len(s) : SubSeq(b, 1, shorter[j]) = SubSeq(a, 1, len[j])
  <2> TAKE j \in 1..Len(s)
  <2>1. len[j] = shorter[j] /\ len[j] \in Nat /\ len[j] <= k /\ k \in Nat
    <3>1. j \in 0..Len(s) /\ Len(a) \in Nat
      BY DEF Outputs
    <3> QED
      BY <3>1
  <2>2. len[j] \in 0..k
    BY <2>1
  <2> QED
    BY <2>1, <2>2, SamePrefix
<1> HIDE DEF b
<1>2. Remains(out, s, b, shorter, rest)
  BY <1>1 DEF Remains
<1> QED
  BY <1>2 DEF b

\* A returned mapping is the first of what remained.
ReturnLeaves(out, s, a, len, rest, done) ==
  \E rest2 : /\ Remains(out, Front(s), a, len, rest2)
             /\ Append(done, a) \o rest2[Len(Front(s))] = done \o rest[Len(s)]

LEMMA RemainsAfterReturn ==
  ASSUME NEW out, NEW D, NEW s \in Seq(D), s # << >>, NEW a \in Outputs,
         NEW len, NEW rest, Remains(out, s, a, len, rest), len[Len(s)] = Len(a),
         out[Last(s)] = << << >> >>, NEW done \in Seq(Outputs)
  PROVE  ReturnLeaves(out, s, a, len, rest, done)
<1> DEFINE n == Len(s)
           t == Front(s)
           rest2 == [j \in 0..n - 1 |-> rest[j]]
           S == Outputs
<1>1. n \in Nat /\ n # 0 /\ n \in 1..n /\ n - 1 \in 0..n
  OBVIOUS
<1>2. Len(t) = n - 1 /\ \A j \in 1..n - 1 : t[j] = s[j]
  BY FrontIsShorter
<1>3. rest[n] = <<a>> \o rest[n - 1]
  <2>1. rest[n] = Prefixed(SubSeq(a, 1, len[n]), out[s[n]]) \o rest[n - 1]
    BY <1>1 DEF Remains
  <2>2. Prefixed(SubSeq(a, 1, len[n]), out[s[n]]) = <<a>>
    BY WholePrefix, PrefixedByNothing DEF Last
  <2> QED
    BY <2>1, <2>2
<1>4. rest[n - 1] \in Seq(S)
  BY <1>1 DEF Remains
<1>5. \A j \in 0..n - 1 : rest2[j] = rest[j]
  OBVIOUS
<1>6. rest2 \in [0..n - 1 -> Seq(S)]
  BY <1>1 DEF Remains
<1> HIDE DEF rest2, t
<1>7. Remains(out, t, a, len, rest2)
  <2>1. rest2[0] = << >>
    BY <1>1, <1>5 DEF Remains
  <2>2. ASSUME NEW j \in 1..n - 1
        PROVE  rest2[j] = Prefixed(SubSeq(a, 1, len[j]), out[t[j]]) \o rest2[j - 1]
    <3>1. j \in 1..n /\ j \in 0..n - 1 /\ j - 1 \in 0..n - 1
      BY <1>1
    <3> QED
      BY <1>2, <1>5, <3>1 DEF Remains
  <2> QED
    BY <1>2, <1>6, <2>1, <2>2 DEF Remains
<1>8. Append(done, a) \o rest2[n - 1] = done \o rest[n]
  <2> DEFINE r == rest[n - 1]
  <2>1. a \in S /\ done \in Seq(S) /\ r \in Seq(S) /\ <<a>> \in Seq(S)
    BY <1>4
  <2> HIDE DEF r
  <2>2. Append(done, a) = done \o <<a>>
    BY <2>1, AppendIsConcat
  <2>3. (done \o <<a>>) \o r = done \o (<<a>> \o r)
    BY <2>1, Regrouped
  <2>4. rest2[n - 1] = r
    BY <1>1, <1>5 DEF r
  <2> QED
    BY <1>3, <2>2, <2>3, <2>4 DEF r
<1> QED
  BY <1>2, <1>7, <1>8 DEF t, n, ReturnLeaves

\* A label moves from what remains to the annotations.
LEMMA MarksAfterLabel ==
  ASSUME NEW a \in Outputs, NEW c \in Seq(Nat), c # << >>, NEW len, Marks(a, c, len),
         NEW l \in Symbols
  PROVE  Marks(Append(a, l), [c EXCEPT ![Len(c)] = @ + 1],
               [len EXCEPT ![Len(c)] = @ + 1])
<1> DEFINE n == Len(c)
           b == Append(a, l)
           c2 == [c EXCEPT ![n] = @ + 1]
           len2 == [len EXCEPT ![n] = @ + 1]
<1>1. n \in Nat /\ n # 0 /\ n \in 0..n /\ Len(a) \in Nat
  BY DEF Outputs
<1>2. Len(b) = Len(a) + 1
  BY DEF Outputs
<1>3. Len(c2) = n /\ c2[n] = c[n] + 1 /\ \A j \in 1..n - 1 : c2[j] = c[j]
  BY <1>1
<1>4. len \in [0..n -> Nat]
  BY DEF Marks
<1>5. len2 \in [0..n -> Nat] /\ len2[n] = len[n] + 1 /\ \A j \in 0..n - 1 : len2[j] = len[j]
  BY <1>1, <1>4
<1> HIDE DEF b, c2, len2
<1>6. len2[0] = 0 /\ len2[n] = Len(b)
  BY <1>1, <1>2, <1>5 DEF Marks
<1>7. \A j \in 1..n : len2[j] = len2[j - 1] + c2[j]
  <2> TAKE j \in 1..n
  <2>1. len[j] = len[j - 1] + c[j] /\ len[j - 1] \in Nat /\ c[j] \in Nat
    <3>1. j - 1 \in 0..n
      BY <1>1
    <3>2. c[j] \in Nat
      OBVIOUS
    <3> QED
      BY <1>4, <3>1, <3>2 DEF Marks
  <2>2. CASE j = n
    BY <1>1, <1>3, <1>5, <2>1, <2>2
  <2>3. CASE j # n
    <3>1. j \in 0..n - 1 /\ j - 1 \in 0..n - 1 /\ j \in 1..n - 1
      BY <1>1, <2>3
    <3> QED
      BY <1>3, <1>5, <2>1, <3>1
  <2> QED
    BY <2>2, <2>3
<1>8. \A j \in 0..n : len2[j] <= Len(b)
  <2> TAKE j \in 0..n
  <2>1. len[j] <= Len(a) /\ len[j] \in Nat
    BY <1>4 DEF Marks
  <2>2. len2[j] = len[j] \/ len2[j] = len[j] + 1
    BY <1>1, <1>5
  <2> QED
    BY <1>1, <1>2, <2>1, <2>2
<1>9. Marks(b, c2, len2)
  BY <1>3, <1>5, <1>6, <1>7, <1>8 DEF Marks
<1> QED
  BY <1>9 DEF b, c2, len2

LEMMA RemainsAfterLabel ==
  ASSUME NEW out, NEW D, NEW s \in Seq(D), s # << >>, NEW a \in Outputs,
         NEW len, NEW rest, Remains(out, s, a, len, rest),
         len \in [0..Len(s) -> Nat], len[Len(s)] = Len(a),
         \A j \in 0..Len(s) : len[j] <= Len(a),
         NEW l \in Symbols, NEW m \in D, out[m] \in Seq(Outputs),
         out[Last(s)] = Prefixed(<<l>>, out[m])
  PROVE  Remains(out, Append(Front(s), m), Append(a, l),
                 [len EXCEPT ![Len(s)] = @ + 1], rest)
<1> DEFINE n == Len(s)
           t == Append(Front(s), m)
           b == Append(a, l)
           len2 == [len EXCEPT ![n] = @ + 1]
<1>1. n \in Nat /\ n # 0 /\ n \in 0..n /\ n \in 1..n /\ Len(a) \in Nat
  BY DEF Outputs
<1>2. Len(t) = n /\ t[n] = m /\ \A j \in 1..n - 1 : t[j] = s[j]
  BY <1>1 DEF Front
<1>3. b \in Outputs /\ Len(b) = Len(a) + 1 /\ b = a \o <<l>> /\ <<l>> \in Outputs
  BY DEF Outputs
<1>4. len2[n] = Len(b) /\ \A j \in 0..n - 1 : len2[j] = len[j]
  BY <1>1, <1>3
<1> HIDE DEF t, b, len2
<1>5. \A j \in 1..n : rest[j] = Prefixed(SubSeq(b, 1, len2[j]), out[t[j]]) \o rest[j - 1]
  <2> TAKE j \in 1..n
  <2>1. rest[j] = Prefixed(SubSeq(a, 1, len[j]), out[s[j]]) \o rest[j - 1]
    BY DEF Remains
  <2>2. CASE j = n
    <3>1. SubSeq(b, 1, len2[n]) = b /\ SubSeq(a, 1, len[n]) = a
      BY <1>3, <1>4, WholePrefix
    <3>2. out[s[n]] = Prefixed(<<l>>, out[m]) /\ t[n] = m
      BY <1>2 DEF Last
    <3>3. Prefixed(a, Prefixed(<<l>>, out[m])) = Prefixed(b, out[m])
      BY <1>3, PrefixedTwice
    <3> QED
      BY <2>1, <2>2, <3>1, <3>2, <3>3
  <2>3. CASE j # n
    <3>1. j \in 0..n - 1 /\ j \in 1..n - 1 /\ len[j] \in 0..Len(a)
      BY <1>1, <2>3
    <3>2. SubSeq(b, 1, len[j]) = SubSeq(a, 1, len[j])
      BY <3>1, PrefixOfAppend DEF b
    <3> QED
      BY <1>2, <1>4, <2>1, <3>1, <3>2
  <2> QED
    BY <2>2, <2>3
<1>6. Remains(out, t, b, len2, rest)
  BY <1>2, <1>5 DEF Remains
<1> QED
  BY <1>6 DEF t, b, len2

\* A union gives its left child and then its right one, both below the same
\* prefix.
LEMMA MarksAfterUnion ==
  ASSUME NEW a \in Outputs, NEW c \in Seq(Nat), NEW len, Marks(a, c, len)
  PROVE  \E len2 : /\ Marks(a, Append(c, 0), len2)
                   /\ \A j \in 0..Len(c) : len2[j] = len[j]
<1> DEFINE n == Len(c)
           c2 == Append(c, 0)
           len2 == [j \in 0..n + 1 |-> IF j = n + 1 THEN Len(a) ELSE len[j]]
<1>1. n \in Nat /\ Len(a) \in Nat /\ n \in 0..n
  BY DEF Outputs
<1>2. Len(c2) = n + 1 /\ c2[n + 1] = 0 /\ \A j \in 1..n : c2[j] = c[j]
  OBVIOUS
<1>3. len2[n + 1] = Len(a) /\ \A j \in 0..n : len2[j] = len[j]
  BY <1>1
<1>4. len2 \in [0..n + 1 -> Nat]
  BY <1>1 DEF Marks
<1> HIDE DEF c2, len2
<1>5. \A j \in 1..n + 1 : len2[j] = len2[j - 1] + c2[j]
  <2> TAKE j \in 1..n + 1
  <2>1. CASE j = n + 1
    BY <1>1, <1>2, <1>3, <2>1 DEF Marks
  <2>2. CASE j # n + 1
    <3>1. j \in 1..n /\ j \in 0..n /\ j - 1 \in 0..n
      BY <1>1, <2>2
    <3> QED
      BY <1>2, <1>3, <3>1 DEF Marks
  <2> QED
    BY <2>1, <2>2
<1>6. \A j \in 0..n + 1 : len2[j] <= Len(a)
  <2> TAKE j \in 0..n + 1
  <2>1. CASE j = n + 1
    BY <1>1, <1>3, <2>1
  <2>2. CASE j # n + 1
    BY <1>1, <1>3, <2>2 DEF Marks
  <2> QED
    BY <2>1, <2>2
<1>7. len2[0] = 0
  BY <1>1, <1>3 DEF Marks
<1>8. Marks(a, c2, len2)
  BY <1>2, <1>3, <1>4, <1>5, <1>6, <1>7 DEF Marks
<1> QED
  BY <1>3, <1>8 DEF c2

LEMMA TwoOnTop ==
  ASSUME NEW D, NEW s \in Seq(D), s # << >>, NEW l \in D, NEW r \in D
  PROVE  LET t == Front(s) \o <<r, l>>
         IN  /\ t \in Seq(D) /\ Len(t) = Len(s) + 1
             /\ t[Len(s)] = r /\ t[Len(s) + 1] = l
             /\ \A j \in 1..Len(s) - 1 : t[j] = s[j]
<1> DEFINE n == Len(s)
           f == Front(s)
           g == <<r, l>>
           t == f \o g
<1>1. n \in Nat /\ n # 0
  OBVIOUS
<1>2. f \in Seq(D) /\ Len(f) = n - 1 /\ \A j \in 1..n - 1 : f[j] = s[j]
  BY FrontIsShorter
<1>3. g \in Seq(D) /\ Len(g) = 2 /\ g[1] = r /\ g[2] = l
  OBVIOUS
<1> HIDE DEF f, g, n
<1>4. /\ t \in Seq(D) /\ Len(t) = Len(f) + Len(g)
      /\ \A j \in 1..Len(f) + Len(g) : t[j] = IF j <= Len(f) THEN f[j] ELSE g[j - Len(f)]
  <2>1. f \in Seq(D) /\ g \in Seq(D)
    BY <1>2, <1>3
  <2> QED
    BY <2>1, ConcatProperties
<1> HIDE DEF t
<1>5. \A j \in 1..n + 1 : t[j] = IF j <= n - 1 THEN f[j] ELSE g[j - (n - 1)]
  BY <1>1, <1>2, <1>3, <1>4
<1>6. t[n] = r /\ t[n + 1] = l
  <2>1. n \in 1..n + 1 /\ n + 1 \in 1..n + 1 /\ ~(n <= n - 1) /\ ~(n + 1 <= n - 1)
    BY <1>1
  <2>2. n - (n - 1) = 1 /\ (n + 1) - (n - 1) = 2
    BY <1>1
  <2> QED
    BY <1>3, <1>5, <2>1, <2>2
<1>7. \A j \in 1..n - 1 : t[j] = s[j]
  BY <1>1, <1>2, <1>5
<1>8. Len(t) = n + 1
  BY <1>1, <1>2, <1>3, <1>4
<1> QED
  BY <1>4, <1>6, <1>7, <1>8 DEF t, f, g, n

UnionLeaves(out, s, a, len, rest, len2, l, r) ==
  LET t == Front(s) \o <<r, l>>
  IN  \E rest2 : Remains(out, t, a, len2, rest2) /\ rest2[Len(t)] = rest[Len(s)]

LEMMA RemainsAfterUnion ==
  ASSUME NEW out, NEW D, NEW s \in Seq(D), s # << >>, NEW a \in Outputs,
         NEW len, NEW rest, Remains(out, s, a, len, rest), len[Len(s)] = Len(a),
         NEW len2, len2[Len(s) + 1] = Len(a), \A j \in 0..Len(s) : len2[j] = len[j],
         NEW l \in D, NEW r \in D, out[l] \in Seq(Outputs), out[r] \in Seq(Outputs),
         out[Last(s)] = out[l] \o out[r]
  PROVE  UnionLeaves(out, s, a, len, rest, len2, l, r)
<1> DEFINE n == Len(s)
           f == Front(s)
           t == f \o <<r, l>>
           S == Outputs
           right == Prefixed(a, out[r])
           left == Prefixed(a, out[l])
           rest2 == [j \in 0..n + 1 |-> IF j = n + 1 THEN rest[n]
                                        ELSE IF j = n THEN right \o rest[n - 1]
                                        ELSE rest[j]]
<1>1. n \in Nat /\ n # 0 /\ n \in 1..n /\ n \in 0..n /\ n - 1 \in 0..n
  OBVIOUS
<1>2. /\ t \in Seq(D) /\ Len(t) = n + 1 /\ t[n] = r /\ t[n + 1] = l
      /\ \A j \in 1..n - 1 : t[j] = s[j]
  BY TwoOnTop DEF f
<1>3. /\ rest2[n + 1] = rest[n] /\ rest2[n] = right \o rest[n - 1]
      /\ \A j \in 0..n - 1 : rest2[j] = rest[j]
  <2> HIDE DEF right, n
  <2>1. n + 1 \in 0..n + 1 /\ n \in 0..n + 1 /\ n # n + 1
    BY <1>1
  <2>2. \A j \in 0..n - 1 : j \in 0..n + 1 /\ j # n + 1 /\ j # n
    BY <1>1
  <2> QED
    BY <2>1, <2>2
<1>4. rest \in [0..n -> Seq(S)]
  BY DEF Remains
<1>5. left \in Seq(S) /\ right \in Seq(S) /\ rest[n - 1] \in Seq(S) /\ rest[n] \in Seq(S)
  BY <1>1, <1>4, PrefixedIsAList
<1>6. rest2 \in [0..n + 1 -> Seq(S)]
  <2>1. right \o rest[n - 1] \in Seq(S)
    <3> DEFINE q == rest[n - 1]
    <3>1. right \in Seq(S) /\ q \in Seq(S)
      BY <1>5
    <3> HIDE DEF S, right, q
    <3>2. right \o q \in Seq(S)
      BY <3>1
    <3> QED
      BY <3>2 DEF q
  <2> HIDE DEF S, right
  <2>2. \A j \in 0..n : rest[j] \in Seq(S)
    BY <1>4
  <2> QED
    BY <1>1, <1>5, <2>1, <2>2
<1>7. rest[n] = left \o rest2[n]
  <2>1. rest[n] = Prefixed(SubSeq(a, 1, len[n]), out[s[n]]) \o rest[n - 1]
    BY <1>1 DEF Remains
  <2>2. SubSeq(a, 1, len[n]) = a
    BY WholePrefix
  <2>3. Prefixed(a, out[s[n]]) = left \o right
    <3>1. out[s[n]] = out[l] \o out[r]
      BY DEF Last
    <3>2. Prefixed(a, out[l] \o out[r]) = Prefixed(a, out[l]) \o Prefixed(a, out[r])
      BY PrefixedConcat
    <3> QED
      BY <3>1, <3>2
  <2> DEFINE q == rest[n - 1]
  <2>4. left \in Seq(S) /\ right \in Seq(S) /\ q \in Seq(S)
    BY <1>5
  <2>5. rest[n] = (left \o right) \o q
    BY <2>1, <2>2, <2>3
  <2> HIDE DEF left, right, q, rest2, n, f, t
  <2>6. (left \o right) \o q = left \o (right \o q)
    BY <2>4, Regrouped
  <2> QED
    BY <1>3, <2>5, <2>6 DEF q
<1> HIDE DEF t, rest2
<1>8. \A j \in 1..n + 1 :
         rest2[j] = Prefixed(SubSeq(a, 1, len2[j]), out[t[j]]) \o rest2[j - 1]
  <2> TAKE j \in 1..n + 1
  <2>1. CASE j = n + 1
    <3>1. SubSeq(a, 1, len2[j]) = a
      BY <2>1, WholePrefix
    <3>2. j - 1 = n /\ t[j] = l
      BY <1>1, <1>2, <2>1
    <3>3. rest2[j] = left \o rest2[j - 1]
      BY <1>3, <1>7, <2>1, <3>2
    <3> QED
      BY <3>1, <3>2, <3>3
  <2>2. CASE j = n
    <3>1. SubSeq(a, 1, len2[j]) = a
      BY <1>1, <2>2, WholePrefix
    <3>2. n - 1 \in 0..n - 1
      BY <1>1
    <3> QED
      BY <1>1, <1>2, <1>3, <2>2, <3>1, <3>2
  <2>3. CASE j # n + 1 /\ j # n
    <3>1. j \in 1..n /\ j \in 0..n /\ j \in 1..n - 1 /\ j \in 0..n - 1 /\ j - 1 \in 0..n - 1
      BY <1>1, <2>3
    <3>2. rest[j] = Prefixed(SubSeq(a, 1, len[j]), out[s[j]]) \o rest[j - 1]
      BY <3>1 DEF Remains
    <3> QED
      BY <1>2, <1>3, <3>1, <3>2
  <2> QED
    BY <2>1, <2>2, <2>3
<1>9. rest2[0] = << >>
  BY <1>1, <1>3 DEF Remains
<1>10. Remains(out, t, a, len2, rest2)
  BY <1>2, <1>6, <1>8, <1>9 DEF Remains
<1> QED
  BY <1>2, <1>3, <1>10 DEF t, f, UnionLeaves

----------------------------------------------------------------------------
(***************************************************************************)
(* The invariant.                                                          *)
(***************************************************************************)
Types ==
  /\ Enumerable(heap) /\ root \in Addresses(heap)
  /\ stack \in Seq(Addresses(heap))
  /\ inverted_annotations \in Outputs
  /\ added_before_union \in Seq(Nat)
  /\ was_output \in BOOLEAN
  /\ listed \in Seq(Outputs)
  /\ delay \in Nat

\* The counter of the node just returned is still there.
Counters ==
  /\ was_output => Len(added_before_union) = Len(stack) + 1
  /\ ~was_output => Len(added_before_union) = Len(stack) /\ stack # << >>

Pending ==
  LET out == OutputsBelow(heap)
  IN  \E len, rest :
        /\ Marks(inverted_annotations, added_before_union, len)
        /\ Remains(out, stack, inverted_annotations, len, rest)
        /\ out[root] = listed \o rest[Len(stack)]

\* The unions between a node and the next output below it.
Away(h, n) ==
  IF IsOutput(h, n) THEN 0 ELSE IF OutputWithin1(h, n) THEN 1 ELSE 2

InTime ==
  /\ was_output => delay = 0
  /\ ~was_output => delay + Away(heap, Last(stack)) <= 2 * Len(inverted_annotations) + 2

EInv == Types /\ Counters /\ Pending /\ InTime

LEMMA InitEInv == Init => EInv
<1> SUFFICES ASSUME Init PROVE EInv
  OBVIOUS
<1>1. Enumerable(heap) /\ root \in Addresses(heap)
  BY GraphsAssumption DEF Init
<1>2. /\ stack = <<root>> /\ inverted_annotations = << >> /\ added_before_union = <<0>>
      /\ ~was_output /\ was_output \in BOOLEAN /\ listed = << >> /\ delay = 0
  BY DEF Init
<1>3. << >> \in Outputs /\ << >> \in Seq(Outputs)
  BY DEF Outputs
<1>4. Types
  BY <1>1, <1>2, <1>3 DEF Types
<1>5. Counters
  BY <1>2 DEF Counters
<1>6. Pending
  <2> DEFINE out == OutputsBelow(heap)
             len == [j \in 0..1 |-> 0]
             rest == [j \in 0..1 |-> IF j = 0 THEN << >> ELSE out[root]]
             a == << >>
             c == <<0>>
             s == <<root>>
  <2>1. out[root] \in Seq(Outputs)
    BY <1>1, ListsOutputs, EveryNodeHasOutputs
  <2> HIDE DEF out
  <2>2. Marks(a, c, len)
    <3>1. Len(a) = 0 /\ Len(c) = 1 /\ c[1] = 0
      OBVIOUS
    <3> HIDE DEF a, c
    <3>2. len[0] = 0 /\ len[1] = 0 /\ len \in [0..1 -> Nat] /\ \A j \in 0..1 : len[j] = 0
      OBVIOUS
    <3> HIDE DEF len
    <3>3. \A j \in 1..1 : len[j] = len[j - 1] + c[j]
      BY <3>1, <3>2
    <3> QED
      BY <3>1, <3>2, <3>3 DEF Marks
  <2>3. Remains(out, s, a, len, rest)
    <3> DEFINE r == out[root]
               S == Outputs
    <3>1. r \in Seq(S) /\ a \in S /\ << >> \in Seq(S)
      BY <1>3, <2>1
    <3>2. Prefixed(SubSeq(a, 1, len[1]), r) = r
      <4>1. SubSeq(a, 1, len[1]) = << >>
        OBVIOUS
      <4>2. \A q \in Outputs : << >> \o q = q
        BY DEF Outputs
      <4>3. Prefixed(<< >>, r) \in Seq(Outputs) /\ Len(Prefixed(<< >>, r)) = Len(r)
            /\ \A i \in 1..Len(r) : Prefixed(<< >>, r)[i] = << >> \o r[i]
        BY <1>3, <2>1, PrefixedIsAList
      <4> DEFINE x == Prefixed(<< >>, r)
      <4> HIDE DEF S, x, r
      <4>4. x \in Seq(S) /\ Len(x) = Len(r)
        BY <4>3 DEF S, x
      <4>5. \A i \in 1..Len(r) : x[i] = r[i]
        <5>1. \A i \in 1..Len(r) : r[i] \in S
          BY <3>1
        <5> QED
          BY <4>2, <4>3, <5>1 DEF S, x
      <4>6. x = r
        BY <3>1, <4>4, <4>5, SeqEqual
      <4> QED
        BY <4>1, <4>6 DEF x
    <3>3. Len(s) = 1 /\ s[1] = root
      OBVIOUS
    <3>4. rest[0] = << >> /\ rest[1] = r
      OBVIOUS
    <3>5. rest \in [0..1 -> Seq(S)]
      <4> HIDE DEF S, r
      <4>1. rest = [j \in 0..1 |-> IF j = 0 THEN << >> ELSE r]
        BY DEF r
      <4> QED
        BY <3>1, <4>1
    <3>6. r \o << >> = r
      <4> HIDE DEF S, r
      <4> QED
        BY <3>1
    <3> HIDE DEF s, len, rest, a
    <3>7. \A j \in 1..1 :
            rest[j] = Prefixed(SubSeq(a, 1, len[j]), out[s[j]]) \o rest[j - 1]
      <4> TAKE j \in 1..1
      <4>1. j = 1 /\ j - 1 = 0
        OBVIOUS
      <4> QED
        BY <3>2, <3>3, <3>4, <3>6, <4>1
    <3> QED
      BY <3>3, <3>4, <3>5, <3>7 DEF Remains
  <2>4. out[root] = << >> \o rest[Len(s)]
    <3>1. Len(s) = 1 /\ rest[1] = out[root]
      OBVIOUS
    <3> DEFINE r == out[root]
               S == Outputs
    <3>2. r \in Seq(S)
      BY <2>1
    <3> HIDE DEF r, S
    <3>3. << >> \o r = r
      BY <3>2
    <3> QED
      BY <3>1, <3>3 DEF r
  <2> HIDE DEF len, rest
  <2> QED
    BY <1>2, <2>2, <2>3, <2>4 DEF Pending, out
<1>7. InTime
  <2>1. Last(stack) = root
    BY <1>2 DEF Last
  <2>2. Away(heap, root) \in {0, 1, 2} /\ Len(inverted_annotations) = 0
    BY <1>2 DEF Away
  <2> QED
    BY <1>2, <2>1, <2>2 DEF InTime
<1> QED
  BY <1>4, <1>5, <1>6, <1>7 DEF EInv

\* The node on top, what is below it, and what it stands for.
LEMMA TopNode ==
  ASSUME Types, stack # << >>
  PROVE  LET out == OutputsBelow(heap)
             top == Last(stack)
             nd == heap.node[top]
         IN  /\ top \in Addresses(heap) /\ nd \in Node
             /\ \A n \in Addresses(heap) : out[n] \in Seq(Outputs) /\ out[n] # << >>
             /\ nd.kind = "bottom" => out[top] = << << >> >>
             /\ nd.kind = "label" =>
                  /\ nd.label \in Symbols /\ nd.left \in Addresses(heap)
                  /\ out[top] = Prefixed(<<nd.label>>, out[nd.left])
             /\ nd.kind = "union" =>
                  /\ nd.left \in Addresses(heap) /\ nd.right \in Addresses(heap)
                  /\ out[top] = out[nd.left] \o out[nd.right]
<1> DEFINE out == OutputsBelow(heap)
           top == Last(stack)
           nd == heap.node[top]
<1>1. Enumerable(heap) /\ stack \in Seq(Addresses(heap))
  BY DEF Types
<1>2. top \in Addresses(heap)
  BY <1>1, FrontIsShorter
<1>3. Lists(heap, Addresses(heap), out)
  BY <1>1, ListsOutputs
<1> HIDE DEF out, top
<1>4. \A n \in Addresses(heap) : out[n] \in Seq(Outputs) /\ out[n] # << >>
  BY <1>1, <1>3, EveryNodeHasOutputs
<1>5. nd \in Node
  BY <1>1, <1>2 DEF Enumerable, Addresses
<1>6. /\ nd.kind = "bottom" => out[top] = << << >> >>
      /\ nd.kind = "label" => out[top] = Prefixed(<<nd.label>>, out[nd.left])
      /\ nd.kind = "union" => out[top] = out[nd.left] \o out[nd.right]
  BY <1>2, <1>3, OutputsByKind
<1>7. /\ nd.kind = "label" => nd.left \in Addresses(heap)
      /\ nd.kind = "union" => nd.left \in Addresses(heap) /\ nd.right \in Addresses(heap)
  BY <1>1, <1>2 DEF Enumerable, Linked
<1>8. nd.label \in Symbols
  BY <1>5 DEF Node, Symbols
<1> HIDE DEF nd
<1> QED
  BY <1>2, <1>4, <1>5, <1>6, <1>7, <1>8 DEF out, top, nd

----------------------------------------------------------------------------
(***************************************************************************)
(* Each iteration keeps the invariant.                                     *)
(***************************************************************************)
LEMMA ResumeStep == EInv /\ Resume => EInv'
<1> SUFFICES ASSUME EInv, Resume PROVE EInv'
  OBVIOUS
<1> DEFINE a == inverted_annotations
           c == added_before_union
           k == Len(a) - Last(c)
           b == SubSeq(a, 1, k)
           D == Addresses(heap)
<1>1. Types /\ Counters /\ Pending /\ InTime
  BY DEF EInv
<1>2. stack # << >> /\ was_output /\ ~was_output' /\ was_output' \in BOOLEAN
  BY DEF Resume
<1>3. /\ inverted_annotations' = b /\ added_before_union' = Front(c)
      /\ heap' = heap /\ root' = root /\ stack' = stack /\ listed' = listed
      /\ delay' = delay
  BY DEF Resume, DeleteAnnotationsUntilPreviousUnion
<1>4. a \in Outputs /\ c \in Seq(Nat) /\ stack \in Seq(D)
  BY <1>1 DEF Types
<1>5. Len(c) = Len(stack) + 1 /\ Len(stack) \in Nat /\ c # << >>
  <2>1. Len(c) = Len(stack) + 1 /\ Len(stack) \in Nat
    BY <1>1, <1>2, <1>4 DEF Counters
  <2> QED
    BY <2>1
<1>6. PICK len, rest : /\ Marks(a, c, len)
                       /\ Remains(OutputsBelow(heap), stack, a, len, rest)
                       /\ OutputsBelow(heap)[root] = listed \o rest[Len(stack)]
  BY <1>1 DEF Pending
<1> HIDE DEF a, c
<1>7. /\ k \in 0..Len(a) /\ Front(c) \in Seq(Nat) /\ Len(Front(c)) = Len(c) - 1
      /\ \E shorter : /\ Marks(b, Front(c), shorter)
                      /\ \A j \in 0..Len(c) - 1 : shorter[j] = len[j] /\ len[j] <= k
  BY <1>4, <1>5, <1>6, MarksOfFront
<1>8. PICK shorter : /\ Marks(b, Front(c), shorter)
                     /\ \A j \in 0..Len(c) - 1 : shorter[j] = len[j] /\ len[j] <= k
  BY <1>7
<1> HIDE DEF k
<1>9. b \in Outputs
  <2> DEFINE E == Symbols
  <2>1. a \in Seq(E) /\ k \in 0..Len(a) /\ Len(a) \in Nat
    BY <1>4, <1>7 DEF Outputs
  <2> HIDE DEF E
  <2>2. SubSeq(a, 1, k) \in Seq(E)
    BY <2>1
  <2> QED
    BY <2>2 DEF E, Outputs
<1>10. Types'
  BY <1>1, <1>2, <1>3, <1>7, <1>9 DEF Types
<1>11. Counters'
  BY <1>2, <1>3, <1>5, <1>7 DEF Counters
<1>12. Pending'
  <2>1. \A j \in 0..Len(stack) : shorter[j] \in Nat /\ shorter[j] = len[j] /\ len[j] <= k
    <3>1. Len(Front(c)) = Len(stack) /\ Len(c) - 1 = Len(stack)
      BY <1>5, <1>7
    <3>2. shorter \in [0..Len(stack) -> Nat]
      BY <1>8, <3>1 DEF Marks
    <3> QED
      BY <1>8, <3>1, <3>2
  <2>2. Remains(OutputsBelow(heap), stack, b, shorter, rest)
    BY <1>4, <1>6, <1>7, <2>1, RemainsAfterResume
  <2> HIDE DEF b
  <2> QED
    BY <1>3, <1>6, <1>8, <2>2 DEF Pending
<1>13. InTime'
  <2>1. delay' = 0
    BY <1>1, <1>2, <1>3 DEF InTime
  <2>2. Len(b) \in Nat
    BY <1>9 DEF Outputs
  <2>3. Away(heap', Last(stack')) \in {0, 1, 2}
    BY DEF Away
  <2> HIDE DEF b
  <2> QED
    BY <1>2, <1>3, <2>1, <2>2, <2>3 DEF InTime
<1> QED
  BY <1>10, <1>11, <1>12, <1>13 DEF EInv

LEMMA ReturnMappingStep == EInv /\ ReturnMapping => EInv'
<1> SUFFICES ASSUME EInv, ReturnMapping PROVE EInv'
  OBVIOUS
<1> DEFINE a == inverted_annotations
           c == added_before_union
           D == Addresses(heap)
           all == OutputsBelow(heap)
<1>1. Types /\ Counters /\ Pending /\ InTime
  BY DEF EInv
<1>2. stack # << >> /\ ~was_output /\ was_output' /\ was_output' \in BOOLEAN
  BY DEF ReturnMapping, Visits
<1>3. /\ inverted_annotations' = a /\ added_before_union' = c
      /\ heap' = heap /\ root' = root /\ stack' = Front(stack)
      /\ listed' = Append(listed, a) /\ delay' = 0
  BY DEF ReturnMapping, Visits
<1>4. a \in Outputs /\ c \in Seq(Nat) /\ stack \in Seq(D) /\ listed \in Seq(Outputs)
  BY <1>1 DEF Types
<1>5. Front(stack) \in Seq(D) /\ Len(Front(stack)) = Len(stack) - 1 /\ Len(c) = Len(stack)
  BY <1>1, <1>2, <1>4, FrontIsShorter DEF Counters
<1>6. PICK len, rest : /\ Marks(a, c, len) /\ Remains(all, stack, a, len, rest)
                       /\ all[root] = listed \o rest[Len(stack)]
  BY <1>1 DEF Pending
<1>7. all[Last(stack)] = << << >> >>
  <2>1. heap.node[Last(stack)].kind = "bottom"
    BY DEF ReturnMapping, Visits
  <2> QED
    BY <1>1, <1>2, <2>1, TopNode
<1>8. Types'
  <2>1. Append(listed, a) \in Seq(Outputs)
    BY <1>4
  <2> QED
    BY <1>1, <1>2, <1>3, <1>5, <2>1 DEF Types
<1>9. Counters'
  <2>1. Len(c) = Len(Front(stack)) + 1
    <3>1. Len(stack) \in Nat
      BY <1>4
    <3> QED
      BY <1>5, <3>1
  <2> QED
    BY <1>2, <1>3, <2>1 DEF Counters
<1>10. Pending'
  <2>1. len[Len(stack)] = Len(a)
    BY <1>5, <1>6 DEF Marks
  <2> HIDE DEF all, a, c, D
  <2>2. PICK rest2 : /\ Remains(all, Front(stack), a, len, rest2)
                     /\ Append(listed, a) \o rest2[Len(Front(stack))]
                          = listed \o rest[Len(stack)]
    <3> DEFINE s == stack
               done == listed
    <3>1. s \in Seq(D) /\ s # << >> /\ done \in Seq(Outputs) /\ a \in Outputs
      BY <1>2, <1>4
    <3>2. Remains(all, s, a, len, rest) /\ len[Len(s)] = Len(a)
      BY <1>6, <2>1
    <3>3. all[Last(s)] = << << >> >>
      BY <1>7
    <3> HIDE DEF s, done
    <3>4. ReturnLeaves(all, s, a, len, rest, done)
      BY <3>1, <3>2, <3>3, RemainsAfterReturn, Zenon
    <3> QED
      BY <3>4 DEF s, done, ReturnLeaves
  <2> QED
    BY <1>3, <1>6, <2>2 DEF Pending, all
<1>11. InTime'
  BY <1>2, <1>3 DEF InTime
<1> QED
  BY <1>8, <1>9, <1>10, <1>11 DEF EInv

LEMMA ConsumeKLabelNodeStep == EInv /\ ConsumeKLabelNode => EInv'
<1> SUFFICES ASSUME EInv, ConsumeKLabelNode PROVE EInv'
  OBVIOUS
<1> DEFINE a == inverted_annotations
           c == added_before_union
           D == Addresses(heap)
           all == OutputsBelow(heap)
           nd == heap.node[Last(stack)]
           l == nd.label
           m == nd.left
           b == Append(a, l)
           c2 == [c EXCEPT ![Len(c)] = @ + 1]
           t == Append(Front(stack), m)
<1>1. Types /\ Counters /\ Pending /\ InTime
  BY DEF EInv
<1>2. stack # << >> /\ ~was_output /\ ~was_output' /\ was_output' \in BOOLEAN
  BY <1>1 DEF ConsumeKLabelNode, Visits, Types
<1>3. /\ inverted_annotations' = b /\ added_before_union' = c2
      /\ heap' = heap /\ root' = root /\ stack' = t
      /\ listed' = listed /\ delay' = delay + 1
  BY DEF ConsumeKLabelNode, Visits, Counting
<1>4. a \in Outputs /\ c \in Seq(Nat) /\ stack \in Seq(D) /\ delay \in Nat
  BY <1>1 DEF Types
<1>5. nd.kind = "label"
  BY DEF ConsumeKLabelNode, Visits
<1>6. /\ Last(stack) \in D /\ l \in Symbols /\ m \in D /\ all[m] \in Seq(Outputs)
      /\ all[Last(stack)] = Prefixed(<<l>>, all[m])
  BY <1>1, <1>2, <1>5, TopNode
<1>7. PICK len, rest : /\ Marks(a, c, len) /\ Remains(all, stack, a, len, rest)
                       /\ all[root] = listed \o rest[Len(stack)]
  BY <1>1 DEF Pending
<1>8. Len(c) = Len(stack) /\ c # << >> /\ Len(c) \in 1..Len(c)
  <2>1. Len(c) = Len(stack) /\ Len(stack) # 0 /\ Len(stack) \in Nat
    BY <1>1, <1>2, <1>4 DEF Counters
  <2> QED
    BY <2>1
<1>9. t \in Seq(D) /\ Len(t) = Len(stack) /\ Last(t) = m
  <2> DEFINE f == Front(stack)
  <2>1. f \in Seq(D) /\ Len(f) = Len(stack) - 1
    BY <1>2, <1>4, FrontIsShorter
  <2>2. t = Append(f, m)
    OBVIOUS
  <2> HIDE DEF f, m, D, t
  <2>3. t \in Seq(D) /\ Len(t) = Len(f) + 1 /\ t[Len(f) + 1] = m
    BY <1>6, <2>1, <2>2
  <2> QED
    BY <1>4, <2>1, <2>3 DEF Last
<1>10. c2 \in Seq(Nat) /\ Len(c2) = Len(c)
  <2>1. c[Len(c)] \in Nat
    BY <1>4, <1>8
  <2> QED
    BY <1>4, <1>8, <2>1
<1>11. b \in Outputs /\ Len(b) = Len(a) + 1 /\ Len(a) \in Nat
  BY <1>4, <1>6 DEF Outputs
<1> DEFINE len2 == [len EXCEPT ![Len(c)] = @ + 1]
<1>12. Marks(b, c2, len2)
  <2> HIDE DEF a, c, l
  <2> QED
    BY <1>4, <1>6, <1>7, <1>8, MarksAfterLabel
<1>13. Remains(all, t, b, len2, rest)
  <2>1. /\ len \in [0..Len(stack) -> Nat] /\ len[Len(stack)] = Len(a)
        /\ \A j \in 0..Len(stack) : len[j] <= Len(a)
    BY <1>7, <1>8 DEF Marks
  <2> HIDE DEF a, c, l, m, D, all
  <2>2. Remains(all, t, b, [len EXCEPT ![Len(stack)] = @ + 1], rest)
    BY <1>2, <1>4, <1>6, <1>7, <2>1, RemainsAfterLabel
  <2> QED
    BY <1>8, <2>2
<1>14. Types'
  <2> HIDE DEF b, c2, t
  <2> QED
    BY <1>1, <1>2, <1>3, <1>9, <1>10, <1>11 DEF Types
<1>15. Counters'
  <2>1. t # << >>
    <3> HIDE DEF t
    <3> QED
      BY <1>8, <1>9
  <2> HIDE DEF t, c2
  <2> QED
    BY <1>2, <1>3, <1>8, <1>9, <1>10, <2>1 DEF Counters
<1>16. Pending'
  <2> HIDE DEF t, b, c2, len2
  <2> QED
    BY <1>3, <1>7, <1>9, <1>12, <1>13 DEF Pending
<1>17. InTime'
  <2>1. delay + Away(heap, Last(stack)) <= 2 * Len(a) + 2
    BY <1>1, <1>2 DEF InTime
  <2>2. Away(heap, Last(stack)) = 0
    BY <1>5 DEF Away, IsOutput
  <2>3. Away(heap, m) \in {0, 1}
    <3>1. OutputWithin1(heap, m)
      BY <1>1, <1>5, <1>6 DEF Types, Enumerable, Linked
    <3> QED
      BY <3>1 DEF Away
  <2>4. Away(heap', Last(stack')) = Away(heap, m)
    BY <1>3, <1>9
  <2> HIDE DEF b, m
  <2>5. (delay + 1) + Away(heap, m) <= 2 * (Len(a) + 1) + 2
    BY <1>4, <1>11, <2>1, <2>2, <2>3
  <2> QED
    BY <1>2, <1>3, <1>11, <2>4, <2>5 DEF InTime
<1> QED
  BY <1>14, <1>15, <1>16, <1>17 DEF EInv

LEMMA ConsumeUnionNodeStep == EInv /\ ConsumeUnionNode => EInv'
<1> SUFFICES ASSUME EInv, ConsumeUnionNode PROVE EInv'
  OBVIOUS
<1> DEFINE a == inverted_annotations
           c == added_before_union
           D == Addresses(heap)
           all == OutputsBelow(heap)
           nd == heap.node[Last(stack)]
           l == nd.left
           r == nd.right
           c2 == Append(c, 0)
           t == Front(stack) \o <<r, l>>
<1>1. Types /\ Counters /\ Pending /\ InTime
  BY DEF EInv
<1>2. stack # << >> /\ ~was_output /\ ~was_output' /\ was_output' \in BOOLEAN
  BY <1>1 DEF ConsumeUnionNode, Visits, Types
<1>3. /\ inverted_annotations' = a /\ added_before_union' = c2
      /\ heap' = heap /\ root' = root /\ stack' = t
      /\ listed' = listed /\ delay' = delay + 1
  BY DEF ConsumeUnionNode, Visits
<1>4. a \in Outputs /\ c \in Seq(Nat) /\ stack \in Seq(D) /\ delay \in Nat
  BY <1>1 DEF Types
<1>5. nd.kind = "union"
  BY DEF ConsumeUnionNode, Visits
<1>6. /\ Last(stack) \in D /\ l \in D /\ r \in D
      /\ all[l] \in Seq(Outputs) /\ all[r] \in Seq(Outputs)
      /\ all[Last(stack)] = all[l] \o all[r]
  BY <1>1, <1>2, <1>5, TopNode
<1>7. PICK len, rest : /\ Marks(a, c, len) /\ Remains(all, stack, a, len, rest)
                       /\ all[root] = listed \o rest[Len(stack)]
  BY <1>1 DEF Pending
<1>8. Len(c) = Len(stack) /\ Len(stack) \in Nat
  BY <1>1, <1>2, <1>4 DEF Counters
<1>9. c2 \in Seq(Nat) /\ Len(c2) = Len(c) + 1
  BY <1>4
<1>10. PICK len2 : Marks(a, c2, len2) /\ \A j \in 0..Len(c) : len2[j] = len[j]
  <2> HIDE DEF a, c
  <2> QED
    BY <1>4, <1>7, MarksAfterUnion
<1>11. /\ len[Len(stack)] = Len(a) /\ len2[Len(stack) + 1] = Len(a)
       /\ \A j \in 0..Len(stack) : len2[j] = len[j]
  <2> HIDE DEF c2
  <2> QED
    BY <1>7, <1>8, <1>9, <1>10 DEF Marks
<1>12. t \in Seq(D) /\ Len(t) = Len(stack) + 1 /\ Last(t) = l
  <2> HIDE DEF l, r, D
  <2>1. t \in Seq(D) /\ Len(t) = Len(stack) + 1 /\ t[Len(stack) + 1] = l
    BY <1>2, <1>4, <1>6, TwoOnTop
  <2> HIDE DEF t
  <2> QED
    BY <2>1 DEF Last
<1>13. PICK rest2 : Remains(all, t, a, len2, rest2) /\ rest2[Len(t)] = rest[Len(stack)]
  <2> HIDE DEF a, l, r, D, all
  <2>1. UnionLeaves(all, stack, a, len, rest, len2, l, r)
    BY <1>2, <1>4, <1>6, <1>7, <1>11, RemainsAfterUnion
  <2> QED
    BY <2>1 DEF UnionLeaves
<1>14. Types'
  <2> HIDE DEF c2, t
  <2> QED
    BY <1>1, <1>2, <1>3, <1>9, <1>12 DEF Types
<1>15. Counters'
  <2>1. t # << >>
    <3> HIDE DEF t
    <3> QED
      BY <1>8, <1>12
  <2> HIDE DEF t, c2
  <2> QED
    BY <1>2, <1>3, <1>8, <1>9, <1>12, <2>1 DEF Counters
<1>16. Pending'
  <2> HIDE DEF t, c2
  <2> QED
    BY <1>3, <1>7, <1>10, <1>12, <1>13 DEF Pending
<1>17. InTime'
  <2>1. delay + Away(heap, Last(stack)) <= 2 * Len(a) + 2
    BY <1>1, <1>2 DEF InTime
  <2>2. Away(heap, l) \in Nat /\ Away(heap, l) + 1 <= Away(heap, Last(stack))
    <3>1. OutputWithin2(heap, Last(stack)) /\ ~IsOutput(heap, Last(stack))
      BY <1>1, <1>5, <1>6 DEF Types, Enumerable, IsOutput
    <3>2. CASE OutputWithin1(heap, Last(stack))
      <4>1. IsOutput(heap, l)
        BY <3>1, <3>2 DEF OutputWithin1
      <4> QED
        BY <3>1, <3>2, <4>1 DEF Away
    <3>3. CASE ~OutputWithin1(heap, Last(stack))
      <4>1. OutputWithin1(heap, l)
        BY <3>1, <3>3 DEF OutputWithin2
      <4> QED
        BY <3>1, <3>3, <4>1 DEF Away
    <3> QED
      BY <3>2, <3>3
  <2>3. Away(heap', Last(stack')) = Away(heap, l)
    BY <1>3, <1>12
  <2>4. Away(heap, Last(stack)) \in Nat /\ Len(a) \in Nat
    BY <1>4 DEF Away, Outputs
  <2> HIDE DEF l
  <2>5. (delay + 1) + Away(heap, l) <= 2 * Len(a) + 2
    BY <1>4, <2>1, <2>2, <2>4
  <2> QED
    BY <1>2, <1>3, <2>3, <2>5 DEF InTime
<1> QED
  BY <1>14, <1>15, <1>16, <1>17 DEF EInv

----------------------------------------------------------------------------
(***************************************************************************)
(* The theorems.                                                           *)
(***************************************************************************)
LEMMA EInvIsInductive == EInv /\ [Next]_vars => EInv'
<1> SUFFICES ASSUME EInv, [Next]_vars PROVE EInv'
  OBVIOUS
<1>1. CASE Resume
  BY <1>1, ResumeStep
<1>2. CASE ReturnMapping
  BY <1>2, ReturnMappingStep
<1>3. CASE ConsumeKLabelNode
  BY <1>3, ConsumeKLabelNodeStep
<1>4. CASE ConsumeUnionNode
  BY <1>4, ConsumeUnionNodeStep
<1>5. CASE UNCHANGED vars
  BY <1>5 DEF vars, state, EInv, Types, Counters, Pending, InTime
<1> QED
  BY <1>1, <1>2, <1>3, <1>4, <1>5 DEF Next

LEMMA WhatIsLeft ==
  ASSUME EInv
  PROVE  \E left \in Seq(Outputs) :
           /\ OutputsBelow(heap)[root] = listed \o left
           /\ stack = << >> => left = << >>
<1> DEFINE all == OutputsBelow(heap)
<1>1. PICK len, rest : /\ Remains(all, stack, inverted_annotations, len, rest)
                       /\ all[root] = listed \o rest[Len(stack)]
  BY DEF EInv, Pending
<1>2. Len(stack) \in 0..Len(stack)
  <2>1. Len(stack) \in Nat
    BY DEF EInv, Types
  <2> QED
    BY <2>1
<1>3. rest[Len(stack)] \in Seq(Outputs)
  BY <1>1, <1>2 DEF Remains
<1>4. stack = << >> => rest[Len(stack)] = << >>
  BY <1>1 DEF Remains
<1> QED
  BY <1>1, <1>3, <1>4

\* A mapping still to come is at least as long as the annotations so far.
LEMMA NextIsNoShorter ==
  ASSUME EInv, ~was_output
  PROVE  LET all == OutputsBelow(heap)[root]
         IN  /\ Len(listed) + 1 \in DOMAIN all
             /\ Len(inverted_annotations) <= Len(all[Len(listed) + 1])
<1> DEFINE a == inverted_annotations
           out == OutputsBelow(heap)
           n == Len(stack)
           S == Outputs
<1>1. Types /\ Counters /\ Pending
  BY DEF EInv
<1>2. PICK len, rest : /\ Marks(a, added_before_union, len)
                       /\ Remains(out, stack, a, len, rest)
                       /\ out[root] = listed \o rest[n]
  BY <1>1 DEF Pending
<1>3. /\ stack # << >> /\ Len(added_before_union) = n /\ a \in S /\ listed \in Seq(S)
      /\ n \in Nat /\ n # 0 /\ n \in 1..n /\ n - 1 \in 0..n
  <2>1. /\ stack # << >> /\ Len(added_before_union) = n /\ a \in S /\ listed \in Seq(S)
        /\ n \in Nat /\ n # 0
    BY <1>1 DEF Types, Counters
  <2> HIDE DEF n
  <2> QED
    BY <2>1
<1> DEFINE top == out[Last(stack)]
           here == Prefixed(a, top)
           below == rest[n - 1]
<1>4. top \in Seq(S) /\ top # << >>
  BY <1>1, <1>3, TopNode
<1>5. rest[n] = here \o below /\ below \in Seq(S)
  <2>1. len[n] = Len(a)
    BY <1>2, <1>3 DEF Marks
  <2>2. rest[n] = Prefixed(SubSeq(a, 1, len[n]), out[stack[n]]) \o rest[n - 1]
    BY <1>2, <1>3 DEF Remains
  <2>3. SubSeq(a, 1, len[n]) = a
    BY <1>3, <2>1, WholePrefix
  <2>4. below \in Seq(S)
    BY <1>2, <1>3 DEF Remains
  <2> QED
    BY <2>2, <2>3, <2>4 DEF Last
<1>6. top[1] \in S /\ 1 \in 1..Len(top)
  <2> HIDE DEF top, S
  <2> QED
    BY <1>4
<1>7. here \in Seq(S) /\ Len(here) = Len(top) /\ here[1] = a \o top[1]
  <2> HIDE DEF top, a
  <2> QED
    BY <1>3, <1>4, <1>6, PrefixedIsAList
<1>8. Len(a \o top[1]) >= Len(a)
  <2> DEFINE x == top[1]
             E == Symbols
  <2>1. a \in Seq(E) /\ x \in Seq(E)
    BY <1>3, <1>6 DEF Outputs
  <2> HIDE DEF a, x, E
  <2>2. Len(a \o x) = Len(a) + Len(x) /\ Len(x) \in Nat /\ Len(a) \in Nat
    BY <2>1
  <2> QED
    BY <2>2 DEF x
<1>9. /\ Len(listed) + 1 \in DOMAIN out[root]
      /\ out[root][Len(listed) + 1] = here[1]
  <2> HIDE DEF S, here, below
  <2> DEFINE left == rest[n]
  <2>1. left \in Seq(S) /\ Len(left) >= 1 /\ left[1] = here[1]
    <3>1. Len(here) \in Nat /\ Len(here) # 0
      <4> HIDE DEF top
      <4> QED
        BY <1>4, <1>7
    <3> DEFINE w == here \o below
    <3>2. here \in Seq(S) /\ below \in Seq(S)
      BY <1>5, <1>7
    <3>3. Len(below) \in Nat
      BY <3>2
    <3>4. /\ w \in Seq(S) /\ Len(w) = Len(here) + Len(below)
          /\ \A i \in 1..Len(here) + Len(below) :
               w[i] = IF i <= Len(here) THEN here[i] ELSE below[i - Len(here)]
      BY <3>2, ConcatProperties
    <3>5. w[1] = here[1]
      <4>1. 1 \in 1..Len(here) + Len(below) /\ 1 <= Len(here)
        BY <3>1, <3>3
      <4> HIDE DEF w
      <4> QED
        BY <3>4, <4>1
    <3> HIDE DEF w
    <3> QED
      BY <1>5, <3>1, <3>3, <3>4, <3>5 DEF w
  <2> HIDE DEF left
  <2> DEFINE all == listed \o left
  <2>2. /\ all \in Seq(S) /\ Len(all) = Len(listed) + Len(left)
        /\ all[Len(listed) + 1] = left[1]
    BY <1>3, <2>1
  <2>3. out[root] = all
    BY <1>2 DEF left
  <2>4. Len(listed) \in Nat /\ Len(left) \in Nat
    BY <1>3, <2>1
  <2> HIDE DEF all
  <2> QED
    BY <2>1, <2>2, <2>3, <2>4
<1> QED
  BY <1>7, <1>8, <1>9

LEMMA EInvIsDelayBounded == EInv => DelayBounded
<1> SUFFICES ASSUME EInv, NEW all, all = OutputsBelow(heap)[root],
                    Len(listed) + 1 \in DOMAIN all
             PROVE  delay <= 2 * Len(all[Len(listed) + 1]) + 2
  BY DEF DelayBounded
<1> DEFINE m == all[Len(listed) + 1]
<1>1. Types /\ InTime
  BY DEF EInv
<1>2. m \in Outputs /\ Len(m) \in Nat
  <2>1. all \in Seq(Outputs)
    BY <1>1, ListsOutputs, EveryNodeHasOutputs DEF Types
  <2> DEFINE S == Outputs
  <2>2. m \in S
    <3> HIDE DEF S
    <3>1. all \in Seq(S)
      BY <2>1 DEF S
    <3> QED
      BY <3>1
  <2> QED
    BY <2>2 DEF Outputs
<1> HIDE DEF m
<1>3. CASE was_output
  BY <1>1, <1>2, <1>3 DEF InTime, m
<1>4. CASE ~was_output
  <2>1. delay + Away(heap, Last(stack)) <= 2 * Len(inverted_annotations) + 2
    BY <1>1, <1>4 DEF InTime
  <2>2. Len(inverted_annotations) <= Len(m)
    BY <1>4, NextIsNoShorter DEF m
  <2>3. /\ Len(inverted_annotations) \in Nat /\ delay \in Nat
        /\ Away(heap, Last(stack)) \in Nat
    BY <1>1 DEF Types, Outputs, Away
  <2> QED
    BY <1>2, <2>1, <2>2, <2>3 DEF m
<1> QED
  BY <1>3, <1>4

\* The delay of Enumerator::next(): the iterations between two outputs are
\* bounded by the size of the next one, in every graph that extends and
\* unions build, however large.
THEOREM DelayIsBounded == Spec => []DelayBounded
<1>1. Spec => []EInv
  BY InitEInv, EInvIsInductive, PTL DEF Spec
<1> QED
  BY <1>1, EInvIsDelayBounded, PTL

\* What the calls of next() have returned is the beginning of the list the
\* root stands for: none is lost, repeated, made up or out of order; and
\* when has_next() turns false, it is all of it.
ListedInOrder ==
  \E left \in Seq(Outputs) :
    /\ OutputsBelow(heap)[root] = listed \o left
    /\ stack = << >> => left = << >>

THEOREM EnumerationIsExact == Spec => []ListedInOrder
<1>1. Spec => []EInv
  BY InitEInv, EInvIsInductive, PTL DEF Spec
<1>2. EInv => ListedInOrder
  BY WhatIsLeft DEF ListedInOrder
<1> QED
  BY <1>1, <1>2, PTL
=============================================================================
