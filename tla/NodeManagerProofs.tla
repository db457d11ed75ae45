------------------------- MODULE NodeManagerProofs -------------------------
(***************************************************************************)
(* What the memory manager's operators do to any heap, whatever the number *)
(* of nodes, the sizes of the pools and the labels.                        *)
(***************************************************************************)
EXTENDS NodeManager, FiniteSetTheorems, SequenceTheorems, WellFoundedInduction, TLAPS

----------------------------------------------------------------------------
(***************************************************************************)
(* Well-formed heaps, and what the operators on reference counts do.       *)
(***************************************************************************)
WellFormed(h) ==
  /\ h \in Heap
  /\ DOMAIN h.ref = Addresses(h)
  /\ \A n \in Addresses(h) :
       /\ h.node[n].left \in Addresses(h) \cup {Null}
       /\ h.node[n].right \in Addresses(h) \cup {Null}
       /\ h.node[n].kind = "union" => h.node[n].left # Null /\ h.node[n].right # Null

FreeOK(h) ==
  /\ \A i, j \in DOMAIN h.free : h.free[i] = h.free[j] => i = j
  /\ \A n \in Free(h) : n \in Addresses(h) /\ h.ref[n] = 0

\* A heap's fields may be replaced one at a time.
LEMMA SetRef ==
  ASSUME NEW h \in Heap, NEW r \in Seq(Nat)
  PROVE  [h EXCEPT !.ref = r] \in Heap
BY DEF Heap

LEMMA SetFree ==
  ASSUME NEW h \in Heap, NEW f \in Seq(Nat)
  PROVE  [h EXCEPT !.free = f] \in Heap
BY DEF Heap

LEMMA AddressesAreNat ==
  ASSUME NEW h \in Heap
  PROVE  /\ Addresses(h) \subseteq Nat \ {0}
         /\ Addresses(h) = 1..Len(h.node)
         /\ IsFiniteSet(Addresses(h))
<1>1. h.node \in Seq(Node)
  BY DEF Heap
<1>2. Addresses(h) = 1..Len(h.node) /\ Len(h.node) \in Nat
  BY <1>1 DEF Addresses
<1>3. IsFiniteSet(1..Len(h.node))
  BY <1>2, FS_Interval
<1> QED
  BY <1>2, <1>3

LEMMA AcquireFacts ==
  ASSUME NEW h, WellFormed(h), NEW c \in Addresses(h)
  PROVE  /\ WellFormed(Acquire(h, c))
         /\ Acquire(h, c).node = h.node
         /\ Acquire(h, c).free = h.free
         /\ Acquire(h, c).ref = [h.ref EXCEPT ![c] = @ + 1]
<1> DEFINE g == [h EXCEPT !.ref = [h.ref EXCEPT ![c] = @ + 1]]
<1>1. h \in Heap /\ h.ref \in Seq(Nat) /\ c \in DOMAIN h.ref
  BY DEF WellFormed, Heap
<1>2. c # Null
  BY <1>1, AddressesAreNat DEF Null
<1>3. Acquire(h, c) = g
  BY <1>2 DEF Acquire
<1>4. [h.ref EXCEPT ![c] = @ + 1] \in Seq(Nat)
  BY <1>1
<1>5. g \in Heap
  BY <1>1, <1>4, SetRef
<1>6. /\ g.node = h.node
      /\ g.free = h.free
      /\ g.ref = [h.ref EXCEPT ![c] = @ + 1]
  BY <1>1 DEF Heap
<1>7. DOMAIN g.ref = DOMAIN h.ref
  BY <1>6
<1> HIDE DEF g
<1> QED
  BY <1>3, <1>5, <1>6, <1>7 DEF WellFormed, Addresses

LEMMA DropFacts ==
  ASSUME NEW h, WellFormed(h), NEW c \in Addresses(h), h.ref[c] >= 1
  PROVE  /\ WellFormed(Drop(h, c))
         /\ Drop(h, c).node = h.node
         /\ Drop(h, c).free = h.free
         /\ Drop(h, c).ref = [h.ref EXCEPT ![c] = @ - 1]
<1> DEFINE g == [h EXCEPT !.ref = [h.ref EXCEPT ![c] = @ - 1]]
<1>1. h \in Heap /\ h.ref \in Seq(Nat) /\ c \in DOMAIN h.ref
  BY DEF WellFormed, Heap
<1>2. Drop(h, c) = g
  BY DEF Drop
<1>3. [h.ref EXCEPT ![c] = @ - 1] \in Seq(Nat)
  BY <1>1
<1>4. g \in Heap
  BY <1>1, <1>3, SetRef
<1>5. /\ g.node = h.node
      /\ g.free = h.free
      /\ g.ref = [h.ref EXCEPT ![c] = @ - 1]
  BY <1>1 DEF Heap
<1>6. DOMAIN g.ref = DOMAIN h.ref
  BY <1>5
<1> HIDE DEF g
<1> QED
  BY <1>2, <1>4, <1>5, <1>6 DEF WellFormed, Addresses

LEMMA PushFacts ==
  ASSUME NEW s \in Seq(Nat), NEW c \in Nat
  PROVE  /\ <<c>> \o s \in Seq(Nat)
         /\ DOMAIN (<<c>> \o s) = 1..Len(s) + 1
         /\ DOMAIN s = 1..Len(s)
         /\ (<<c>> \o s)[1] = c
         /\ \A i \in 2..Len(s) + 1 : (<<c>> \o s)[i] = s[i - 1]
OBVIOUS

\* Giving up a reference: the node joins the free list with the last one.
LEMMA ReleaseFacts ==
  ASSUME NEW h, WellFormed(h), FreeOK(h),
         NEW c \in Addresses(h), h.ref[c] >= 1
  PROVE  /\ WellFormed(Release(h, c))
         /\ FreeOK(Release(h, c))
         /\ Release(h, c).node = h.node
         /\ Release(h, c).ref = [h.ref EXCEPT ![c] = @ - 1]
         /\ Free(h) \subseteq Free(Release(h, c))
         /\ Free(Release(h, c)) \subseteq Free(h) \cup {c}
         /\ h.ref[c] = 1 => c \in Free(Release(h, c))
<1> DEFINE d == Drop(h, c)
           f == <<c>> \o h.free
           g == [d EXCEPT !.free = f]
<1>1. /\ WellFormed(d)
      /\ d.node = h.node
      /\ d.free = h.free
      /\ d.ref = [h.ref EXCEPT ![c] = @ - 1]
  BY DropFacts
<1>2. /\ h \in Heap /\ d \in Heap
      /\ h.free \in Seq(Nat) /\ h.ref \in Seq(Nat)
      /\ DOMAIN h.ref = Addresses(h)
      /\ c \in Nat /\ c # Null
  BY <1>1, AddressesAreNat DEF WellFormed, Heap, Null
<1>3. c \notin Free(h)
  BY DEF FreeOK
<1>4. \A n \in Addresses(h) : d.ref[n] = IF n = c THEN h.ref[c] - 1 ELSE h.ref[n]
  BY <1>1, <1>2
<1> HIDE DEF d
<1>5. CASE h.ref[c] = 1
  <2>1. Release(h, c) = g
    <3>1. Release(h, c) = [Drop(h, c) EXCEPT !.free = <<c>> \o Drop(h, c).free]
      BY <1>2, <1>5 DEF Release
    <3> QED
      BY <1>1, <3>1 DEF d
  <2>2. /\ f \in Seq(Nat)
        /\ DOMAIN f = 1..Len(h.free) + 1
        /\ DOMAIN h.free = 1..Len(h.free)
        /\ f[1] = c
        /\ \A i \in 2..Len(h.free) + 1 : f[i] = h.free[i - 1]
    BY <1>2, PushFacts
  <2>3. Len(h.free) \in Nat
    BY <1>2
  <2> HIDE DEF f
  <2>4. g \in Heap
    BY <1>2, <2>2, SetFree
  <2>5. g.node = d.node /\ g.ref = d.ref /\ g.free = f
    BY <1>2 DEF Heap
  <2> HIDE DEF g
  <2>6. WellFormed(g)
    BY <1>1, <2>4, <2>5 DEF WellFormed, Addresses
  <2>7. Free(g) = Free(h) \cup {c}
    <3>1. \A i \in DOMAIN h.free : i + 1 \in DOMAIN f /\ f[i + 1] = h.free[i]
      BY <2>2, <2>3, SMTT(30)
    <3>2. \A i \in DOMAIN f : i = 1 \/ (i - 1 \in DOMAIN h.free /\ f[i] = h.free[i - 1])
      BY <2>2, <2>3
    <3>3. 1 \in DOMAIN f
      BY <2>2, <2>3
    <3>4. Free(g) = {f[i] : i \in DOMAIN f}
      BY <2>5 DEF Free
    <3>5. Free(g) \subseteq Free(h) \cup {c}
      <4>1. SUFFICES ASSUME NEW i \in DOMAIN f
                     PROVE  f[i] \in Free(h) \cup {c}
        BY <3>4
      <4>2. CASE i = 1
        BY <2>2, <4>2
      <4>3. CASE i # 1
        BY <3>2, <4>3 DEF Free
      <4> QED
        BY <4>2, <4>3
    <3>6. c \in Free(g)
      BY <2>2, <3>3, <3>4
    <3>7. Free(h) \subseteq Free(g)
      <4>1. SUFFICES ASSUME NEW i \in DOMAIN h.free
                     PROVE  h.free[i] \in Free(g)
        BY DEF Free
      <4> QED
        BY <3>1, <3>4
    <3> QED
      BY <3>5, <3>6, <3>7
  <2>8. \A i, j \in DOMAIN f : f[i] = f[j] => i = j
    <3>1. SUFFICES ASSUME NEW i \in DOMAIN f, NEW j \in DOMAIN f, f[i] = f[j]
                   PROVE  i = j
      OBVIOUS
    <3>2. \A k \in DOMAIN f : k \in Nat /\ (k = 1 \/ (k - 1 \in DOMAIN h.free /\ f[k] = h.free[k - 1]))
      BY <2>2, <2>3, SMTT(30)
    <3>3. \A k \in DOMAIN f : k # 1 => f[k] \in Free(h)
      BY <3>2 DEF Free
    <3>4. CASE i = 1 \/ j = 1
      BY <1>3, <2>2, <3>1, <3>3, <3>4
    <3>5. CASE i # 1 /\ j # 1
      <4>1. i - 1 = j - 1
        BY <3>1, <3>2, <3>5 DEF FreeOK
      <4> QED
        BY <3>2, <4>1
    <3> QED
      BY <3>4, <3>5
  <2>9. FreeOK(g)
    BY <1>1, <1>4, <1>5, <2>5, <2>7, <2>8 DEF FreeOK, Addresses
  <2> QED
    BY <1>1, <2>1, <2>5, <2>6, <2>7, <2>9
<1>6. CASE h.ref[c] # 1
  <2>1. Release(h, c) = d
    BY <1>2, <1>6 DEF Release, d
  <2>2. Free(d) = Free(h)
    BY <1>1 DEF Free
  <2>3. FreeOK(d)
    BY <1>1, <1>3, <1>4, <2>2 DEF FreeOK, Addresses
  <2> QED
    BY <1>1, <1>6, <2>1, <2>2, <2>3
<1> QED
  BY <1>5, <1>6

----------------------------------------------------------------------------
(***************************************************************************)
(* Counting references. While a node is being recycled or built, only the  *)
(* left references of the nodes in L and the right ones of those in R are  *)
(* counted; ext counts the ones from outside the heap.                     *)
(***************************************************************************)
Lefts(h, L, n) == {p \in L : h.node[p].left = n}
Rights(h, R, n) == {p \in R : h.node[p].right = n}

Counted(h, L, R, ext) ==
  \A n \in Addresses(h) :
    h.ref[n] = Cardinality(Lefts(h, L, n)) + Cardinality(Rights(h, R, n)) + ext[n]

\* A sound heap, on which those references are the ones counted.
Accounted(h, L, R, ext) ==
  /\ WellFormed(h) /\ FreeOK(h)
  /\ L \subseteq Addresses(h) /\ R \subseteq Addresses(h)
  /\ ext \in [Addresses(h) -> Nat]
  /\ Counted(h, L, R, ext)

\* From h to g, references are only given up.
OnlyGivesUp(h, g) ==
  /\ g.node = h.node
  /\ Free(h) \subseteq Free(g)
  /\ \A x \in Addresses(h) : g.ref[x] <= h.ref[x]
  /\ \A x \in Free(g) \ Free(h) : h.ref[x] >= 1

\* From h to g, the node at address m is rewritten as nd.
OnlyRewrites(h, g, m, nd) ==
  /\ g.node = [h.node EXCEPT ![m] = nd]
  /\ g.ref = h.ref /\ g.free = h.free

LEMMA CountsAreNat ==
  ASSUME NEW h, NEW S, IsFiniteSet(S), NEW n
  PROVE  /\ Cardinality(Lefts(h, S, n)) \in Nat
         /\ Cardinality(Rights(h, S, n)) \in Nat
         /\ Cardinality(Lefts(h, S, n)) = 0 => Lefts(h, S, n) = {}
         /\ Cardinality(Rights(h, S, n)) = 0 => Rights(h, S, n) = {}
<1>1. IsFiniteSet(Lefts(h, S, n)) /\ IsFiniteSet(Rights(h, S, n))
  BY FS_Subset DEF Lefts, Rights
<1> QED
  BY <1>1, FS_CardinalityType, FS_EmptySet

LEMMA LeftsMinus ==
  ASSUME NEW h, NEW S, IsFiniteSet(S), NEW p \in S, NEW n
  PROVE  Cardinality(Lefts(h, S \ {p}, n)) =
           IF h.node[p].left = n THEN Cardinality(Lefts(h, S, n)) - 1
                                ELSE Cardinality(Lefts(h, S, n))
<1>1. IsFiniteSet(Lefts(h, S, n))
  BY FS_Subset DEF Lefts
<1>2. CASE h.node[p].left = n
  <2>1. /\ p \in Lefts(h, S, n)
        /\ Lefts(h, S \ {p}, n) = Lefts(h, S, n) \ {p}
    BY <1>2 DEF Lefts
  <2> QED
    BY <1>1, <1>2, <2>1, FS_RemoveElement
<1>3. CASE h.node[p].left # n
  <2>1. Lefts(h, S \ {p}, n) = Lefts(h, S, n)
    BY <1>3 DEF Lefts
  <2> QED
    BY <1>3, <2>1
<1> QED
  BY <1>2, <1>3

LEMMA RightsMinus ==
  ASSUME NEW h, NEW S, IsFiniteSet(S), NEW p \in S, NEW n
  PROVE  Cardinality(Rights(h, S \ {p}, n)) =
           IF h.node[p].right = n THEN Cardinality(Rights(h, S, n)) - 1
                                ELSE Cardinality(Rights(h, S, n))
<1>1. IsFiniteSet(Rights(h, S, n))
  BY FS_Subset DEF Rights
<1>2. CASE h.node[p].right = n
  <2>1. /\ p \in Rights(h, S, n)
        /\ Rights(h, S \ {p}, n) = Rights(h, S, n) \ {p}
    BY <1>2 DEF Rights
  <2> QED
    BY <1>1, <1>2, <2>1, FS_RemoveElement
<1>3. CASE h.node[p].right # n
  <2>1. Rights(h, S \ {p}, n) = Rights(h, S, n)
    BY <1>3 DEF Rights
  <2> QED
    BY <1>3, <2>1
<1> QED
  BY <1>2, <1>3

\* The recycled node m gives up its left child.
LEMMA GiveUpLeft ==
  ASSUME NEW h, NEW L, NEW R, NEW ext, Accounted(h, L, R, ext),
         NEW m \in L, NEW g, g = Release(h, h.node[m].left)
  PROVE  Accounted(g, L \ {m}, R, ext) /\ OnlyGivesUp(h, g)
<1> SUFFICES ASSUME WellFormed(h), FreeOK(h),
                    L \subseteq Addresses(h), R \subseteq Addresses(h),
                    ext \in [Addresses(h) -> Nat], Counted(h, L, R, ext)
             PROVE  /\ WellFormed(g) /\ FreeOK(g)
                    /\ g.node = h.node
                    /\ Counted(g, L \ {m}, R, ext)
                    /\ Free(h) \subseteq Free(g)
                    /\ \A x \in Addresses(h) : g.ref[x] <= h.ref[x]
                    /\ \A x \in Free(g) \ Free(h) : h.ref[x] >= 1
  BY DEF Accounted, OnlyGivesUp, Addresses
<1> DEFINE c == h.node[m].left
<1>0. g = Release(h, c)
  OBVIOUS
<1>1. /\ h \in Heap /\ h.ref \in Seq(Nat) /\ DOMAIN h.ref = Addresses(h)
      /\ c \in Addresses(h) \cup {Null}
      /\ Addresses(h) \subseteq Nat \ {0}
      /\ IsFiniteSet(L) /\ IsFiniteSet(R)
  BY AddressesAreNat, FS_Subset DEF WellFormed, Heap
<1>2. \A x \in Addresses(h) : h.ref[x] \in Nat /\ ext[x] \in Nat
  BY <1>1
<1> HIDE DEF c
<1>3. \A n : Cardinality(Lefts(h, L \ {m}, n)) =
               IF c = n THEN Cardinality(Lefts(h, L, n)) - 1
                        ELSE Cardinality(Lefts(h, L, n))
  BY <1>1, LeftsMinus DEF c
<1>4. CASE c = Null
  <2>1. g = h
    BY <1>0, <1>4 DEF Release
  <2>2. Counted(h, L \ {m}, R, ext)
    BY <1>1, <1>3, <1>4 DEF Counted, Null
  <2> QED
    BY <1>2, <2>1, <2>2
<1>5. CASE c \in Addresses(h)
  <2>1. h.ref[c] >= 1
    <3>1. Lefts(h, L, c) # {}
      BY DEF Lefts, c
    <3>2. /\ Cardinality(Lefts(h, L, c)) \in Nat
          /\ Cardinality(Rights(h, R, c)) \in Nat
          /\ Cardinality(Lefts(h, L, c)) # 0
      BY <1>1, <3>1, CountsAreNat
    <3> QED
      BY <1>2, <1>5, <3>2 DEF Counted
  <2>2. /\ WellFormed(g) /\ FreeOK(g)
        /\ g.node = h.node
        /\ g.ref = [h.ref EXCEPT ![c] = @ - 1]
        /\ Free(h) \subseteq Free(g)
        /\ Free(g) \subseteq Free(h) \cup {c}
    BY <1>0, <1>5, <2>1, ReleaseFacts
  <2>3. \A x \in Addresses(h) : g.ref[x] = IF x = c THEN h.ref[x] - 1 ELSE h.ref[x]
    BY <1>1, <2>2
  <2>4. Counted(g, L \ {m}, R, ext)
    <3>1. SUFFICES ASSUME NEW n \in Addresses(h)
                   PROVE  g.ref[n] = Cardinality(Lefts(g, L \ {m}, n))
                                     + Cardinality(Rights(g, R, n)) + ext[n]
      BY <2>2 DEF Counted, Addresses
    <3>2. /\ Lefts(g, L \ {m}, n) = Lefts(h, L \ {m}, n)
          /\ Rights(g, R, n) = Rights(h, R, n)
      BY <2>2 DEF Lefts, Rights
    <3>3. /\ Cardinality(Lefts(h, L, n)) \in Nat
          /\ Cardinality(Rights(h, R, n)) \in Nat
      BY <1>1, CountsAreNat
    <3>4. h.ref[n] = Cardinality(Lefts(h, L, n)) + Cardinality(Rights(h, R, n)) + ext[n]
      BY DEF Counted
    <3>5. /\ h.ref[n] \in Nat /\ ext[n] \in Nat
          /\ g.ref[n] = IF n = c THEN h.ref[n] - 1 ELSE h.ref[n]
      BY <1>2, <2>3
    <3>6. Cardinality(Lefts(g, L \ {m}, n)) =
            IF c = n THEN Cardinality(Lefts(h, L, n)) - 1
                     ELSE Cardinality(Lefts(h, L, n))
      BY <1>3, <3>2
    <3>7. Cardinality(Rights(g, R, n)) = Cardinality(Rights(h, R, n))
      BY <3>2
    <3> QED
      BY <3>3, <3>4, <3>5, <3>6, <3>7
  <2> QED
    BY <1>2, <2>1, <2>2, <2>3, <2>4
<1> QED
  BY <1>1, <1>4, <1>5

\* The recycled node m gives up its right child.
LEMMA GiveUpRight ==
  ASSUME NEW h, NEW L, NEW R, NEW ext, Accounted(h, L, R, ext),
         NEW m \in R, NEW g, g = Release(h, h.node[m].right)
  PROVE  Accounted(g, L, R \ {m}, ext) /\ OnlyGivesUp(h, g)
<1> SUFFICES ASSUME WellFormed(h), FreeOK(h),
                    L \subseteq Addresses(h), R \subseteq Addresses(h),
                    ext \in [Addresses(h) -> Nat], Counted(h, L, R, ext)
             PROVE  /\ WellFormed(g) /\ FreeOK(g)
                    /\ g.node = h.node
                    /\ Counted(g, L, R \ {m}, ext)
                    /\ Free(h) \subseteq Free(g)
                    /\ \A x \in Addresses(h) : g.ref[x] <= h.ref[x]
                    /\ \A x \in Free(g) \ Free(h) : h.ref[x] >= 1
  BY DEF Accounted, OnlyGivesUp, Addresses
<1> DEFINE c == h.node[m].right
<1>0. g = Release(h, c)
  OBVIOUS
<1>1. /\ h \in Heap /\ h.ref \in Seq(Nat) /\ DOMAIN h.ref = Addresses(h)
      /\ c \in Addresses(h) \cup {Null}
      /\ Addresses(h) \subseteq Nat \ {0}
      /\ IsFiniteSet(L) /\ IsFiniteSet(R)
  BY AddressesAreNat, FS_Subset DEF WellFormed, Heap
<1>2. \A x \in Addresses(h) : h.ref[x] \in Nat /\ ext[x] \in Nat
  BY <1>1
<1> HIDE DEF c
<1>3. \A n : Cardinality(Rights(h, R \ {m}, n)) =
               IF c = n THEN Cardinality(Rights(h, R, n)) - 1
                        ELSE Cardinality(Rights(h, R, n))
  BY <1>1, RightsMinus DEF c
<1>4. CASE c = Null
  <2>1. g = h
    BY <1>0, <1>4 DEF Release
  <2>2. Counted(h, L, R \ {m}, ext)
    BY <1>1, <1>3, <1>4 DEF Counted, Null
  <2> QED
    BY <1>2, <2>1, <2>2
<1>5. CASE c \in Addresses(h)
  <2>1. h.ref[c] >= 1
    <3>1. Rights(h, R, c) # {}
      BY DEF Rights, c
    <3>2. /\ Cardinality(Lefts(h, L, c)) \in Nat
          /\ Cardinality(Rights(h, R, c)) \in Nat
          /\ Cardinality(Rights(h, R, c)) # 0
      BY <1>1, <3>1, CountsAreNat
    <3> QED
      BY <1>2, <1>5, <3>2 DEF Counted
  <2>2. /\ WellFormed(g) /\ FreeOK(g)
        /\ g.node = h.node
        /\ g.ref = [h.ref EXCEPT ![c] = @ - 1]
        /\ Free(h) \subseteq Free(g)
        /\ Free(g) \subseteq Free(h) \cup {c}
    BY <1>0, <1>5, <2>1, ReleaseFacts
  <2>3. \A x \in Addresses(h) : g.ref[x] = IF x = c THEN h.ref[x] - 1 ELSE h.ref[x]
    BY <1>1, <2>2
  <2>4. Counted(g, L, R \ {m}, ext)
    <3>1. SUFFICES ASSUME NEW n \in Addresses(h)
                   PROVE  g.ref[n] = Cardinality(Lefts(g, L, n))
                                     + Cardinality(Rights(g, R \ {m}, n)) + ext[n]
      BY <2>2 DEF Counted, Addresses
    <3>2. /\ Lefts(g, L, n) = Lefts(h, L, n)
          /\ Rights(g, R \ {m}, n) = Rights(h, R \ {m}, n)
      BY <2>2 DEF Lefts, Rights
    <3>3. /\ Cardinality(Lefts(h, L, n)) \in Nat
          /\ Cardinality(Rights(h, R, n)) \in Nat
      BY <1>1, CountsAreNat
    <3>4. h.ref[n] = Cardinality(Lefts(h, L, n)) + Cardinality(Rights(h, R, n)) + ext[n]
      BY DEF Counted
    <3>5. /\ h.ref[n] \in Nat /\ ext[n] \in Nat
          /\ g.ref[n] = IF n = c THEN h.ref[n] - 1 ELSE h.ref[n]
      BY <1>2, <2>3
    <3>6. Cardinality(Rights(g, R \ {m}, n)) =
            IF c = n THEN Cardinality(Rights(h, R, n)) - 1
                     ELSE Cardinality(Rights(h, R, n))
      BY <1>3, <3>2
    <3>7. Cardinality(Lefts(g, L, n)) = Cardinality(Lefts(h, L, n))
      BY <3>2
    <3> QED
      BY <3>3, <3>4, <3>5, <3>6, <3>7
  <2> QED
    BY <1>2, <2>1, <2>2, <2>3, <2>4
<1> QED
  BY <1>1, <1>4, <1>5

\* A counted reference counts.
LEMMA ParentsCount ==
  ASSUME NEW h, NEW L, NEW R, NEW ext, Accounted(h, L, R, ext),
         NEW n \in Addresses(h)
  PROVE  /\ h.ref[n] \in Nat
         /\ \A p \in L : h.node[p].left = n => h.ref[n] >= 1
         /\ \A p \in R : h.node[p].right = n => h.ref[n] >= 1
         /\ h.ref[n] >= ext[n]
<1> USE DEF Accounted
<1>1. /\ h \in Heap /\ IsFiniteSet(L) /\ IsFiniteSet(R)
  BY AddressesAreNat, FS_Subset DEF WellFormed
<1>2. /\ Cardinality(Lefts(h, L, n)) \in Nat
      /\ Cardinality(Rights(h, R, n)) \in Nat
      /\ Cardinality(Lefts(h, L, n)) = 0 => Lefts(h, L, n) = {}
      /\ Cardinality(Rights(h, R, n)) = 0 => Rights(h, R, n) = {}
  BY <1>1, CountsAreNat
<1>3. h.ref[n] = Cardinality(Lefts(h, L, n)) + Cardinality(Rights(h, R, n)) + ext[n]
  BY DEF Counted
<1>4. ext[n] \in Nat
  OBVIOUS
<1>5. ASSUME NEW p \in L, h.node[p].left = n
      PROVE  h.ref[n] >= 1
  <2>1. Lefts(h, L, n) # {}
    BY <1>5 DEF Lefts
  <2> QED
    BY <1>2, <1>3, <1>4, <2>1
<1>6. ASSUME NEW p \in R, h.node[p].right = n
      PROVE  h.ref[n] >= 1
  <2>1. Rights(h, R, n) # {}
    BY <1>6 DEF Rights
  <2> QED
    BY <1>2, <1>3, <1>4, <2>1
<1> QED
  BY <1>2, <1>3, <1>4, <1>5, <1>6

----------------------------------------------------------------------------
(***************************************************************************)
(* Recycling.                                                              *)
(***************************************************************************)
LEMMA TailFacts ==
  ASSUME NEW s \in Seq(Nat), s # << >>
  PROVE  /\ Tail(s) \in Seq(Nat)
         /\ Len(s) \in Nat /\ Len(s) >= 1
         /\ DOMAIN s = 1..Len(s)
         /\ DOMAIN Tail(s) = 1..Len(s) - 1
         /\ \A i \in 1..Len(s) - 1 : Tail(s)[i] = s[i + 1]
         /\ Head(s) = s[1]
OBVIOUS

LEMMA PopFacts ==
  ASSUME NEW h, WellFormed(h), FreeOK(h), h.free # << >>
  PROVE  LET m == Head(h.free)
             g == PopFree(h)
         IN  /\ WellFormed(g) /\ FreeOK(g)
             /\ g.node = h.node /\ g.ref = h.ref
             /\ m \in Free(h) /\ m \in Addresses(h) /\ h.ref[m] = 0
             /\ Free(g) = Free(h) \ {m}
<1> DEFINE m == Head(h.free)
           t == Tail(h.free)
           g == PopFree(h)
<1>1. h \in Heap /\ h.free \in Seq(Nat)
  BY DEF WellFormed, Heap
<1>2. /\ t \in Seq(Nat)
      /\ Len(h.free) \in Nat /\ Len(h.free) >= 1
      /\ DOMAIN h.free = 1..Len(h.free)
      /\ DOMAIN t = 1..Len(h.free) - 1
      /\ \A i \in 1..Len(h.free) - 1 : t[i] = h.free[i + 1]
      /\ m = h.free[1]
  BY <1>1, TailFacts
<1> HIDE DEF t, m
<1>3. g \in Heap /\ g.node = h.node /\ g.ref = h.ref /\ g.free = t
  <2> DEFINE r == h.recycled + 1
  <2>1. g = [h EXCEPT !.free = t, !.recycled = r]
    BY <1>1 DEF PopFree, t, Heap
  <2>2. r \in Nat
    BY <1>1 DEF Heap
  <2> HIDE DEF r
  <2> HIDE DEF g
  <2> QED
    BY <1>1, <1>2, <2>1, <2>2 DEF Heap
<1> HIDE DEF g
<1>4. m \in Free(h)
  BY <1>2 DEF Free
<1>5. \A i \in DOMAIN t : i + 1 \in DOMAIN h.free /\ t[i] = h.free[i + 1] /\ i + 1 # 1 /\ i \in Nat
  BY <1>2
<1>6. \A i \in DOMAIN h.free : i = 1 \/ (i - 1 \in DOMAIN t /\ t[i - 1] = h.free[i])
  BY <1>2
<1>7. Free(g) = Free(h) \ {m}
  <2>1. Free(g) = {t[i] : i \in DOMAIN t}
    BY <1>3 DEF Free
  <2>2. ASSUME NEW i \in DOMAIN t
        PROVE  t[i] \in Free(h) \ {m}
    <3>1. t[i] \in Free(h)
      BY <1>5 DEF Free
    <3>2. h.free[i + 1] # h.free[1]
      <4>1. i + 1 \in DOMAIN h.free /\ 1 \in DOMAIN h.free /\ i + 1 # 1
        BY <1>2, <1>5
      <4> QED
        BY <4>1 DEF FreeOK
    <3> QED
      BY <1>2, <1>5, <3>1, <3>2
  <2>3. ASSUME NEW i \in DOMAIN h.free, h.free[i] # m
        PROVE  h.free[i] \in Free(g)
    BY <1>2, <1>6, <2>1, <2>3
  <2>4. Free(h) \ {m} \subseteq Free(g)
    BY <2>3 DEF Free
  <2> QED
    BY <2>1, <2>2, <2>4
<1>8. \A i, j \in DOMAIN t : t[i] = t[j] => i = j
  <2>1. SUFFICES ASSUME NEW i \in DOMAIN t, NEW j \in DOMAIN t, t[i] = t[j]
                 PROVE  i = j
    OBVIOUS
  <2>2. i + 1 = j + 1
    BY <1>5, <2>1 DEF FreeOK
  <2> QED
    BY <1>5, <2>2
<1>9. WellFormed(g)
  BY <1>3 DEF WellFormed, Addresses
<1>10. FreeOK(g)
  BY <1>3, <1>7, <1>8 DEF FreeOK, Addresses
<1>11. m \in Addresses(h) /\ h.ref[m] = 0
  BY <1>4 DEF FreeOK
<1> QED
  BY <1>3, <1>4, <1>7, <1>9, <1>10, <1>11 DEF g, m

\* A node may be the child of a node about to be built when it is not on the
\* free list and recycling another one cannot put it there.
Protected(h, ext, x) ==
  /\ x \in Addresses(h) \ Free(h)
  /\ \/ ext[x] >= 1
     \/ h.ref[x] = 0
     \/ \E p \in Addresses(h) \ Free(h) : h.node[p].left = x \/ h.node[p].right = x

Buildable(h, nd) ==
  /\ nd \in Node
  /\ nd.left \in Addresses(h) \cup {Null}
  /\ nd.right \in Addresses(h) \cup {Null}
  /\ nd.kind = "union" => nd.left # Null /\ nd.right # Null

\* Rewriting a node nobody refers to, whose own references are not counted.
LEMMA ResetFacts ==
  ASSUME NEW h, NEW L, NEW R, NEW ext, Accounted(h, L, R, ext),
         NEW m \in Addresses(h), h.ref[m] = 0, m \notin L, m \notin R,
         NEW nd, Buildable(h, nd),
         NEW g, g = ResetNode(h, m, nd)
  PROVE  Accounted(g, L, R, ext) /\ OnlyRewrites(h, g, m, nd)
<1>0. /\ WellFormed(h) /\ FreeOK(h)
      /\ L \subseteq Addresses(h) /\ R \subseteq Addresses(h)
      /\ ext \in [Addresses(h) -> Nat]
      /\ Counted(h, L, R, ext)
  BY DEF Accounted
<1> DEFINE s == [h.node EXCEPT ![m] = nd]
           r == [h.ref EXCEPT ![m] = 0]
<1>1. /\ h \in Heap /\ h.node \in Seq(Node) /\ h.ref \in Seq(Nat)
      /\ DOMAIN h.ref = Addresses(h) /\ DOMAIN h.node = Addresses(h)
      /\ nd \in Node
  BY <1>0 DEF WellFormed, Heap, Addresses, Buildable
<1>2. r = h.ref
  BY <1>1
<1>3. /\ s \in Seq(Node) /\ DOMAIN s = DOMAIN h.node
      /\ s[m] = nd /\ \A p \in Addresses(h) \ {m} : s[p] = h.node[p]
  BY <1>1
<1>4. g = [h EXCEPT !.node = s, !.ref = r]
  BY DEF ResetNode
<1> HIDE DEF s, r
<1>5. g \in Heap /\ g.node = s /\ g.ref = h.ref /\ g.free = h.free
  BY <1>1, <1>2, <1>3, <1>4 DEF Heap
<1>6. Addresses(g) = Addresses(h)
  BY <1>3, <1>5 DEF Addresses
<1>7. WellFormed(g)
  BY <1>0, <1>1, <1>3, <1>5, <1>6 DEF WellFormed, Buildable
<1>8. FreeOK(g)
  BY <1>0, <1>5, <1>6 DEF FreeOK, Free
<1>9. Counted(g, L, R, ext)
  <2>1. \A n : Lefts(g, L, n) = Lefts(h, L, n) /\ Rights(g, R, n) = Rights(h, R, n)
    BY <1>0, <1>3, <1>5 DEF Lefts, Rights
  <2> QED
    BY <1>0, <1>5, <1>6, <2>1 DEF Counted
<1> QED
  BY <1>0, <1>5, <1>6, <1>7, <1>8, <1>9 DEF s, Accounted, OnlyRewrites

LEMMA RecycleFacts ==
  ASSUME NEW h, h.free # << >>, NEW ext,
         Accounted(h, Addresses(h), Addresses(h), ext),
         NEW nd, Buildable(h, nd),
         NEW m, m = Head(h.free),
         NEW g, g = RecycleNode(h, nd)
  PROVE  /\ Accounted(g, Addresses(h) \ {m}, Addresses(h) \ {m}, ext)
         /\ m \in Free(h) /\ m \in Addresses(h)
         /\ m \notin Free(g) /\ g.ref[m] = 0
         /\ g.node = [h.node EXCEPT ![m] = nd]
         /\ \A x : Protected(h, ext, x) => x \notin Free(g)
<1> DEFINE A == Addresses(h)
           B == A \ {m}
           h1 == PopFree(h)
           h2 == Release(h1, h.node[m].right)
           h3 == Release(h2, h.node[m].left)
<1>1. /\ h2 = Release(h1, h.node[m].right)
      /\ h3 = Release(h2, h.node[m].left)
      /\ g = ResetNode(h3, m, nd)
  BY DEF RecycleNode
<1>2. /\ WellFormed(h1) /\ FreeOK(h1)
      /\ h1.node = h.node /\ h1.ref = h.ref
      /\ m \in Free(h) /\ m \in A /\ h.ref[m] = 0
      /\ Free(h1) = Free(h) \ {m}
  BY PopFacts DEF Accounted
<1> HIDE DEF h1, h2, h3
<1>3. Accounted(h1, A, A, ext)
  BY <1>2 DEF Accounted, Addresses, Counted, Lefts, Rights
<1>4. \A x \in A : h.ref[x] \in Nat
  BY DEF Accounted, WellFormed, Heap
<1> HIDE DEF A
<1>5. Accounted(h2, A, B, ext) /\ OnlyGivesUp(h1, h2)
  <2>1. h2 = Release(h1, h1.node[m].right)
    BY <1>1, <1>2
  <2> QED
    BY <1>2, <1>3, <2>1, GiveUpRight, Zenon
<1>6. Accounted(h3, B, B, ext) /\ OnlyGivesUp(h2, h3)
  <2>1. h3 = Release(h2, h2.node[m].left)
    BY <1>1, <1>2, <1>5 DEF OnlyGivesUp
  <2>2. Accounted(h3, A \ {m}, B, ext) /\ OnlyGivesUp(h2, h3)
    <3> HIDE DEF B
    <3> QED
      BY <1>2, <1>5, <2>1, GiveUpLeft, Zenon
  <2> QED
    BY <2>2
<1>7. Addresses(h1) = A /\ Addresses(h2) = A /\ Addresses(h3) = A
  BY <1>2, <1>5, <1>6 DEF A, Addresses, OnlyGivesUp
<1>8. \A x \in A : h2.ref[x] \in Nat /\ h3.ref[x] \in Nat
  BY <1>5, <1>6, <1>7, ParentsCount
<1>9. \A x \in Free(h3) : x \in Free(h) \ {m} \/ (x \in A /\ h.ref[x] >= 1)
  <2>1. \A x \in Free(h3) : x \in A
    BY <1>6, <1>7 DEF Accounted, FreeOK
  <2> QED
    BY <1>2, <1>4, <1>5, <1>6, <1>7, <1>8, <2>1 DEF OnlyGivesUp
<1>10. h3.ref[m] = 0 /\ m \notin Free(h3)
  BY <1>2, <1>4, <1>5, <1>6, <1>7, <1>8, <1>9 DEF OnlyGivesUp
<1>11. Buildable(h3, nd)
  BY <1>7 DEF Buildable, A
<1>12. Accounted(g, B, B, ext) /\ OnlyRewrites(h3, g, m, nd)
  <2>1. m \notin B
    OBVIOUS
  <2>2. m \in Addresses(h3)
    BY <1>2, <1>7
  <2> HIDE DEF B
  <2> QED
    BY <1>1, <1>6, <1>10, <1>11, <2>1, <2>2, ResetFacts, Zenon
<1>13. Free(g) = Free(h3)
  BY <1>12 DEF Free, OnlyRewrites
<1>14. ASSUME NEW x, Protected(h, ext, x)
       PROVE  x \notin Free(h3)
  <2>1. x \in A /\ x \notin Free(h)
    BY <1>14 DEF Protected, A
  <2>2. /\ h3.ref[x] >= ext[x]
        /\ \A p \in B : h3.node[p].left = x => h3.ref[x] >= 1
        /\ \A p \in B : h3.node[p].right = x => h3.ref[x] >= 1
    <3> HIDE DEF B
    <3> QED
      BY <1>6, <1>7, <2>1, ParentsCount
  <2>3. x \in Free(h3) => h3.ref[x] = 0 /\ h.ref[x] >= 1
    BY <1>6, <1>9, <2>1 DEF Accounted, FreeOK
  <2>4. ext[x] \in Nat
    BY <2>1 DEF Accounted, A
  <2>5. CASE ext[x] >= 1
    BY <1>8, <2>1, <2>2, <2>3, <2>4, <2>5
  <2>6. CASE h.ref[x] = 0
    BY <2>3, <2>6
  <2>7. CASE \E p \in A \ Free(h) : h.node[p].left = x \/ h.node[p].right = x
    BY <1>2, <1>5, <1>6, <2>2, <2>3, <2>7 DEF OnlyGivesUp
  <2> QED
    BY <1>14, <2>5, <2>6, <2>7 DEF Protected, A
<1> QED
  BY <1>2, <1>5, <1>6, <1>10, <1>12, <1>13, <1>14 DEF A, OnlyGivesUp, OnlyRewrites

----------------------------------------------------------------------------
(***************************************************************************)
(* New nodes.                                                              *)
(***************************************************************************)
Padded(ext, S) == [n \in S |-> IF n \in DOMAIN ext THEN ext[n] ELSE 0]

\* From h to g, a node nd that nobody refers to is placed at address m, which
\* was on the free list or did not exist.
Places(h, g, m, nd) ==
  /\ Addresses(g) = Addresses(h) \cup {m}
  /\ m \notin Addresses(h) \ Free(h)
  /\ m \notin Free(g)
  /\ g.ref[m] = 0
  /\ g.node[m] = nd
  /\ \A n \in Addresses(h) \ {m} : g.node[n] = h.node[n]

LEMMA IncreaseFacts ==
  ASSUME NEW h, NEW L, NEW R, NEW ext, Accounted(h, L, R, ext),
         NEW g, g = IncreaseMempoolSize(h)
  PROVE  /\ Accounted(g, L, R, ext)
         /\ g.node = h.node /\ g.ref = h.ref /\ g.free = h.free
<1>1. /\ h \in Heap /\ 2 * h.size \in Nat /\ h.dups + 1 \in Nat
  BY DEF Accounted, WellFormed, Heap
<1>2. g \in Heap /\ g.node = h.node /\ g.ref = h.ref /\ g.free = h.free
  BY <1>1 DEF IncreaseMempoolSize, Heap
<1>3. Addresses(g) = Addresses(h) /\ Free(g) = Free(h)
  BY <1>2 DEF Addresses, Free
<1>4. WellFormed(g) /\ FreeOK(g)
  BY <1>2, <1>3 DEF Accounted, WellFormed, FreeOK
<1>5. Counted(g, L, R, ext)
  BY <1>2, <1>3 DEF Accounted, Counted, Lefts, Rights
<1> QED
  BY <1>2, <1>3, <1>4, <1>5 DEF Accounted

LEMMA AppendFacts ==
  ASSUME NEW S, NEW s \in Seq(S), NEW e \in S
  PROVE  /\ Append(s, e) \in Seq(S)
         /\ Len(s) \in Nat
         /\ DOMAIN s = 1..Len(s)
         /\ DOMAIN Append(s, e) = 1..Len(s) + 1
         /\ DOMAIN Append(s, e) = DOMAIN s \cup {Len(s) + 1}
         /\ Len(s) + 1 \notin DOMAIN s
         /\ Append(s, e)[Len(s) + 1] = e
         /\ \A i \in DOMAIN s : Append(s, e)[i] = s[i]
<1>1. /\ Append(s, e) \in Seq(S)
      /\ Len(s) \in Nat
      /\ DOMAIN s = 1..Len(s)
      /\ DOMAIN Append(s, e) = 1..Len(s) + 1
      /\ Append(s, e)[Len(s) + 1] = e
      /\ \A i \in 1..Len(s) : Append(s, e)[i] = s[i]
  OBVIOUS
<1>2. 1..Len(s) + 1 = (1..Len(s)) \cup {Len(s) + 1} /\ Len(s) + 1 \notin 1..Len(s)
  BY <1>1
<1> QED
  BY <1>1, <1>2

LEMMA FreshFacts ==
  ASSUME NEW h, NEW ext, Accounted(h, Addresses(h), Addresses(h), ext),
         NEW nd, Buildable(h, nd),
         NEW m, m = Len(h.node) + 1,
         NEW g, g = AllocateNewNode(h, nd)
  PROVE  /\ Accounted(g, Addresses(h), Addresses(h), Padded(ext, Addresses(g)))
         /\ Places(h, g, m, nd)
         /\ m \notin Addresses(h)
         /\ Free(g) = Free(h)
<1> DEFINE A == Addresses(h)
           s == Append(h.node, nd)
           r == Append(h.ref, 0)
           z == h.size + 1
           x2 == Padded(ext, Addresses(g))
<1>1. /\ WellFormed(h) /\ FreeOK(h) /\ Counted(h, A, A, ext)
      /\ ext \in [A -> Nat]
      /\ h \in Heap /\ h.node \in Seq(Node) /\ h.ref \in Seq(Nat) /\ z \in Nat
      /\ A = DOMAIN h.node /\ DOMAIN h.ref = A
      /\ nd \in Node
  BY DEF Accounted, WellFormed, Heap, Addresses, Buildable
<1>2. /\ s \in Seq(Node)
      /\ DOMAIN s = A \cup {m} /\ m \notin A
      /\ s[m] = nd /\ \A n \in A : s[n] = h.node[n]
  BY <1>1, AppendFacts
<1>3. /\ r \in Seq(Nat)
      /\ DOMAIN r = A \cup {m}
      /\ r[m] = 0 /\ \A n \in A : r[n] = h.ref[n]
  <2>1. Len(h.ref) + 1 = m
    BY <1>1
  <2> QED
    BY <1>1, <2>1, AppendFacts
<1>4. g = [h EXCEPT !.node = s, !.ref = r, !.size = z]
  BY <1>1 DEF AllocateNewNode, Heap
<1>5. A \subseteq Nat \ {0} /\ IsFiniteSet(A)
  BY <1>1, AddressesAreNat
<1>6. m \in Nat \ {0}
  BY <1>1
<1> HIDE DEF s, r, z
<1>7. g \in Heap /\ g.node = s /\ g.ref = r /\ g.free = h.free
  BY <1>1, <1>2, <1>3, <1>4 DEF Heap
<1>8. Addresses(g) = A \cup {m} /\ Free(g) = Free(h)
  BY <1>2, <1>7 DEF Addresses, Free
<1>9. WellFormed(g)
  BY <1>1, <1>2, <1>3, <1>7, <1>8 DEF WellFormed, Buildable
<1>10. FreeOK(g)
  BY <1>1, <1>3, <1>7, <1>8 DEF FreeOK
<1>11. m \notin Free(g)
  BY <1>1, <1>2, <1>8 DEF FreeOK
<1>12. x2 \in [Addresses(g) -> Nat] /\ x2[m] = 0 /\ \A n \in A : x2[n] = ext[n]
  BY <1>1, <1>2, <1>8 DEF Padded
<1>13. Counted(g, A, A, x2)
  <2>1. SUFFICES ASSUME NEW n \in A \cup {m}
                 PROVE  g.ref[n] = Cardinality(Lefts(g, A, n))
                                   + Cardinality(Rights(g, A, n)) + x2[n]
    BY <1>8 DEF Counted
  <2>2. Lefts(g, A, n) = Lefts(h, A, n) /\ Rights(g, A, n) = Rights(h, A, n)
    BY <1>2, <1>7 DEF Lefts, Rights
  <2>3. CASE n \in A
    BY <1>1, <1>3, <1>7, <1>12, <2>2, <2>3 DEF Counted
  <2>4. CASE n = m
    <3>1. Lefts(h, A, m) = {} /\ Rights(h, A, m) = {}
      BY <1>1, <1>2, <1>6 DEF WellFormed, Lefts, Rights, Null
    <3>2. Cardinality({}) = 0
      BY FS_EmptySet
    <3>3. Cardinality(Lefts(g, A, n)) = 0 /\ Cardinality(Rights(g, A, n)) = 0
      BY <2>2, <2>4, <3>1, <3>2
    <3>4. g.ref[n] = 0 /\ x2[n] = 0
      BY <1>3, <1>7, <1>12, <2>4
    <3> QED
      BY <3>3, <3>4
  <2> QED
    BY <2>3, <2>4
<1> HIDE DEF x2
<1>14. Accounted(g, A, A, x2)
  BY <1>8, <1>9, <1>10, <1>12, <1>13 DEF Accounted
<1> QED
  BY <1>2, <1>3, <1>7, <1>8, <1>11, <1>14 DEF Places, x2, A

LEMMA NodeForFacts ==
  ASSUME NEW h, NEW ext, Accounted(h, Addresses(h), Addresses(h), ext),
         NEW nd, Buildable(h, nd),
         NEW m, m = AllocAddress(h),
         NEW g, g = NodeFor(h, nd)
  PROVE  /\ Accounted(g, Addresses(h) \ {m}, Addresses(h) \ {m}, Padded(ext, Addresses(g)))
         /\ Places(h, g, m, nd)
         /\ \A x : Protected(h, ext, x) => x \notin Free(g)
<1> DEFINE A == Addresses(h)
<1>1. CASE Recycles(h)
  <2>1. h.free # << >> /\ m = Head(h.free) /\ g = RecycleNode(h, nd)
    BY <1>1 DEF Recycles, AllocAddress, NodeFor
  <2>2. /\ Accounted(g, A \ {m}, A \ {m}, ext)
        /\ m \in Free(h) /\ m \in A
        /\ m \notin Free(g) /\ g.ref[m] = 0
        /\ g.node = [h.node EXCEPT ![m] = nd]
        /\ \A x : Protected(h, ext, x) => x \notin Free(g)
    BY <2>1, RecycleFacts
  <2>3. Addresses(g) = A
    BY <2>2 DEF Addresses
  <2>4. Padded(ext, Addresses(g)) = ext
    BY <2>3 DEF Padded, Accounted
  <2>5. g.node[m] = nd /\ \A n \in A \ {m} : g.node[n] = h.node[n]
    BY <2>2 DEF Addresses
  <2>6. Places(h, g, m, nd)
    BY <2>2, <2>3, <2>5 DEF Places
  <2> QED
    BY <2>2, <2>4, <2>6
<1>2. CASE ~Recycles(h)
  <2>1. PICK h1 : /\ Accounted(h1, A, A, ext)
                  /\ h1.node = h.node /\ h1.free = h.free
                  /\ g = AllocateNewNode(h1, nd)
    BY <1>2, IncreaseFacts DEF NodeFor
  <2>2. Addresses(h1) = A /\ Free(h1) = Free(h)
    BY <2>1 DEF Addresses, Free
  <2>3. m = Len(h1.node) + 1
    BY <1>2, <2>1 DEF AllocAddress
  <2>4. Buildable(h1, nd)
    BY <2>2 DEF Buildable
  <2>5. /\ Accounted(g, A, A, Padded(ext, Addresses(g)))
        /\ Places(h1, g, m, nd)
        /\ m \notin A
        /\ Free(g) = Free(h)
    BY <2>1, <2>2, <2>3, <2>4, FreshFacts
  <2>6. A \ {m} = A
    BY <2>5
  <2>7. Places(h, g, m, nd)
    BY <2>1, <2>2, <2>5 DEF Places
  <2> QED
    BY <2>5, <2>6, <2>7 DEF Protected
<1> QED
  BY <1>1, <1>2

----------------------------------------------------------------------------
(***************************************************************************)
(* A new node takes its references to its children.                        *)
(***************************************************************************)
\* From h to g, one more reference to c, or none when c is null, is counted.
OnlyTakes(h, g, c) ==
  /\ g.node = h.node /\ g.free = h.free
  /\ \A x \in Addresses(h) : g.ref[x] = IF x = c THEN h.ref[x] + 1 ELSE h.ref[x]

LEMMA TakeFacts ==
  ASSUME NEW h, WellFormed(h), FreeOK(h),
         NEW c \in Addresses(h) \cup {Null}, c \notin Free(h),
         NEW g, g = Acquire(h, c)
  PROVE  WellFormed(g) /\ FreeOK(g) /\ OnlyTakes(h, g, c)
<1>1. Addresses(h) \subseteq Nat \ {0} /\ DOMAIN h.ref = Addresses(h)
  BY AddressesAreNat DEF WellFormed
<1>2. CASE c = Null
  BY <1>1, <1>2 DEF Acquire, OnlyTakes, Null
<1>3. CASE c \in Addresses(h)
  <2>1. /\ WellFormed(g)
        /\ g.node = h.node /\ g.free = h.free
        /\ g.ref = [h.ref EXCEPT ![c] = @ + 1]
    BY <1>3, AcquireFacts
  <2>2. \A x \in Addresses(h) : g.ref[x] = IF x = c THEN h.ref[x] + 1 ELSE h.ref[x]
    BY <1>1, <2>1
  <2>3. Addresses(g) = Addresses(h) /\ Free(g) = Free(h)
    BY <2>1 DEF Addresses, Free
  <2>4. FreeOK(g)
    BY <2>1, <2>2, <2>3 DEF FreeOK
  <2> QED
    BY <2>1, <2>2, <2>4 DEF OnlyTakes
<1> QED
  BY <1>2, <1>3

LEMMA TakeLeft ==
  ASSUME NEW h, NEW L, NEW R, NEW ext, NEW m \in L,
         L \subseteq Addresses(h), R \subseteq Addresses(h),
         Accounted(h, L \ {m}, R, ext),
         NEW c, c = h.node[m].left, c \notin Free(h),
         NEW g, g = Acquire(h, c)
  PROVE  Accounted(g, L, R, ext) /\ OnlyTakes(h, g, c)
<1> DEFINE M == L \ {m}
<1>1. /\ WellFormed(h) /\ FreeOK(h)
      /\ ext \in [Addresses(h) -> Nat]
      /\ Counted(h, M, R, ext)
  BY DEF Accounted
<1>2. /\ c \in Addresses(h) \cup {Null}
      /\ IsFiniteSet(L) /\ IsFiniteSet(R)
  BY <1>1, AddressesAreNat, FS_Subset DEF WellFormed
<1>3. WellFormed(g) /\ FreeOK(g) /\ OnlyTakes(h, g, c)
  BY <1>1, <1>2, TakeFacts
<1>4. Addresses(g) = Addresses(h)
  BY <1>3 DEF OnlyTakes, Addresses
<1>5. \A n : Cardinality(Lefts(h, M, n)) =
               IF c = n THEN Cardinality(Lefts(h, L, n)) - 1
                        ELSE Cardinality(Lefts(h, L, n))
  BY <1>2, LeftsMinus
<1> HIDE DEF M
<1>6. Counted(g, L, R, ext)
  <2>1. SUFFICES ASSUME NEW n \in Addresses(h)
                 PROVE  g.ref[n] = Cardinality(Lefts(g, L, n))
                                   + Cardinality(Rights(g, R, n)) + ext[n]
    BY <1>4 DEF Counted
  <2>2. /\ Lefts(g, L, n) = Lefts(h, L, n)
        /\ Rights(g, R, n) = Rights(h, R, n)
    BY <1>3 DEF Lefts, Rights, OnlyTakes
  <2>3. /\ Cardinality(Lefts(h, L, n)) \in Nat
        /\ Cardinality(Rights(h, R, n)) \in Nat
    BY <1>2, CountsAreNat
  <2>4. h.ref[n] = Cardinality(Lefts(h, M, n)) + Cardinality(Rights(h, R, n)) + ext[n]
    BY <1>1 DEF Counted
  <2>5. Cardinality(Lefts(h, M, n)) =
          IF c = n THEN Cardinality(Lefts(h, L, n)) - 1
                   ELSE Cardinality(Lefts(h, L, n))
    BY <1>5
  <2>6. g.ref[n] = (IF n = c THEN h.ref[n] + 1 ELSE h.ref[n]) /\ ext[n] \in Nat
    BY <1>1, <1>3 DEF OnlyTakes
  <2> QED
    BY <2>2, <2>3, <2>4, <2>5, <2>6
<1> QED
  BY <1>1, <1>3, <1>4, <1>6 DEF Accounted

LEMMA TakeRight ==
  ASSUME NEW h, NEW L, NEW R, NEW ext, NEW m \in R,
         L \subseteq Addresses(h), R \subseteq Addresses(h),
         Accounted(h, L, R \ {m}, ext),
         NEW c, c = h.node[m].right, c \notin Free(h),
         NEW g, g = Acquire(h, c)
  PROVE  Accounted(g, L, R, ext) /\ OnlyTakes(h, g, c)
<1> DEFINE M == R \ {m}
<1>1. /\ WellFormed(h) /\ FreeOK(h)
      /\ ext \in [Addresses(h) -> Nat]
      /\ Counted(h, L, M, ext)
  BY DEF Accounted
<1>2. /\ c \in Addresses(h) \cup {Null}
      /\ IsFiniteSet(L) /\ IsFiniteSet(R)
  BY <1>1, AddressesAreNat, FS_Subset DEF WellFormed
<1>3. WellFormed(g) /\ FreeOK(g) /\ OnlyTakes(h, g, c)
  BY <1>1, <1>2, TakeFacts
<1>4. Addresses(g) = Addresses(h)
  BY <1>3 DEF OnlyTakes, Addresses
<1>5. \A n : Cardinality(Rights(h, M, n)) =
               IF c = n THEN Cardinality(Rights(h, R, n)) - 1
                        ELSE Cardinality(Rights(h, R, n))
  BY <1>2, RightsMinus
<1> HIDE DEF M
<1>6. Counted(g, L, R, ext)
  <2>1. SUFFICES ASSUME NEW n \in Addresses(h)
                 PROVE  g.ref[n] = Cardinality(Lefts(g, L, n))
                                   + Cardinality(Rights(g, R, n)) + ext[n]
    BY <1>4 DEF Counted
  <2>2. /\ Lefts(g, L, n) = Lefts(h, L, n)
        /\ Rights(g, R, n) = Rights(h, R, n)
    BY <1>3 DEF Lefts, Rights, OnlyTakes
  <2>3. /\ Cardinality(Lefts(h, L, n)) \in Nat
        /\ Cardinality(Rights(h, R, n)) \in Nat
    BY <1>2, CountsAreNat
  <2>4. h.ref[n] = Cardinality(Lefts(h, L, n)) + Cardinality(Rights(h, M, n)) + ext[n]
    BY <1>1 DEF Counted
  <2>5. Cardinality(Rights(h, M, n)) =
          IF c = n THEN Cardinality(Rights(h, R, n)) - 1
                   ELSE Cardinality(Rights(h, R, n))
    BY <1>5
  <2>6. g.ref[n] = (IF n = c THEN h.ref[n] + 1 ELSE h.ref[n]) /\ ext[n] \in Nat
    BY <1>1, <1>3 DEF OnlyTakes
  <2> QED
    BY <2>2, <2>3, <2>4, <2>5, <2>6
<1> QED
  BY <1>1, <1>3, <1>4, <1>6 DEF Accounted

\* What an allocation does, whichever way the node is found.
LEMMA AllocFacts ==
  ASSUME NEW h, NEW ext, Accounted(h, Addresses(h), Addresses(h), ext),
         NEW nd, Buildable(h, nd),
         nd.left = Null \/ Protected(h, ext, nd.left),
         nd.right = Null \/ Protected(h, ext, nd.right),
         NEW m, m = AllocAddress(h),
         NEW g, g = Alloc(h, nd)
  PROVE  /\ Accounted(g, Addresses(g), Addresses(g), Padded(ext, Addresses(g)))
         /\ Places(h, g, m, nd)
         /\ \A x : Protected(h, ext, x) => x \notin Free(g)
<1> DEFINE g1 == NodeFor(h, nd)
           g2 == Acquire(g1, nd.left)
           A == Addresses(h)
           B == Addresses(g1)
           x2 == Padded(ext, B)
<1>1. g = Acquire(g2, nd.right)
  BY DEF Alloc
<1>2. /\ Accounted(g1, A \ {m}, A \ {m}, x2)
      /\ Places(h, g1, m, nd)
      /\ \A x : Protected(h, ext, x) => x \notin Free(g1)
  BY NodeForFacts
<1>3. g1 = NodeFor(h, nd) /\ g2 = Acquire(g1, nd.left)
  OBVIOUS
<1> HIDE DEF g1, g2
<1>4. /\ B = A \cup {m} /\ m \in B /\ B \ {m} = A \ {m}
      /\ g1.node[m] = nd
  BY <1>2 DEF Places
<1>5. Null \notin Free(g1)
  <2>1. WellFormed(g1) /\ FreeOK(g1)
    BY <1>2 DEF Accounted
  <2>2. Null \notin B
    BY <2>1, AddressesAreNat DEF WellFormed, Null
  <2> QED
    BY <2>1, <2>2 DEF FreeOK
<1>6. nd.left \notin Free(g1) /\ nd.right \notin Free(g1)
  BY <1>2, <1>5
<1>7. nd.left # m /\ nd.right # m
  <2>1. m # Null
    <3>1. g1 \in Heap
      BY <1>2 DEF Accounted, WellFormed
    <3> QED
      BY <1>4, <3>1, AddressesAreNat DEF Null
  <2> QED
    BY <1>2, <2>1 DEF Places, Protected
<1>8. Accounted(g2, B, A \ {m}, x2) /\ OnlyTakes(g1, g2, nd.left)
  <2> DEFINE R == A \ {m}
  <2>1. /\ Accounted(g1, B \ {m}, R, x2)
        /\ R \subseteq Addresses(g1) /\ B \subseteq Addresses(g1)
    BY <1>2, <1>4
  <2>2. /\ nd.left = g1.node[m].left /\ nd.left \notin Free(g1)
        /\ g2 = Acquire(g1, nd.left) /\ m \in B
    BY <1>3, <1>4, <1>6
  <2> HIDE DEF x2, R, B
  <2>3. Accounted(g2, B, R, x2) /\ OnlyTakes(g1, g2, nd.left)
    BY <2>1, <2>2, TakeLeft, Zenon
  <2> QED
    BY <2>3 DEF R
<1>9. Addresses(g2) = B /\ Free(g2) = Free(g1) /\ g2.node = g1.node
  BY <1>8 DEF OnlyTakes, Addresses, Free
<1>10. Accounted(g, B, B, x2) /\ OnlyTakes(g2, g, nd.right)
  <2>1. Accounted(g2, B, B \ {m}, x2)
    BY <1>4, <1>8
  <2>2. nd.right = g2.node[m].right /\ nd.right \notin Free(g2)
    BY <1>4, <1>6, <1>9
  <2>3. B \subseteq Addresses(g2)
    BY <1>9
  <2> HIDE DEF x2, B
  <2> QED
    BY <1>1, <1>4, <2>1, <2>2, <2>3, TakeRight
<1>11. Addresses(g) = B /\ Free(g) = Free(g1) /\ g.node = g1.node
  BY <1>9, <1>10 DEF OnlyTakes, Addresses, Free
<1>12. g.ref[m] = 0
  BY <1>2, <1>4, <1>7, <1>8, <1>9, <1>10 DEF OnlyTakes, Places
<1>13. Places(h, g, m, nd)
  BY <1>2, <1>11, <1>12 DEF Places
<1> QED
  BY <1>2, <1>10, <1>11, <1>13

----------------------------------------------------------------------------
(***************************************************************************)
(* A node is loose when nobody refers to it and it is not on the free      *)
(* list. Each of the operators makes at most the node it works on loose.   *)
(***************************************************************************)
Loose(h) == {n \in Addresses(h) \ Free(h) : h.ref[n] = 0}

\* The limit on duplications, once exceeded, stays exceeded.
StaysExceeded(h, g) == g.dups <= MaxDuplications => h.dups <= MaxDuplications

\* From h to g, no node becomes loose but those of S.
LosesOnly(h, g, S) ==
  /\ Loose(g) \subseteq Loose(h) \cup S
  /\ StaysExceeded(h, g)

LEMMA ReleaseLoses ==
  ASSUME NEW h, WellFormed(h), FreeOK(h),
         NEW c \in Addresses(h) \cup {Null}, c # Null => h.ref[c] >= 1
  PROVE  LosesOnly(h, Release(h, c), {})
<1> DEFINE g == Release(h, c)
<1>1. CASE c = Null
  BY <1>1 DEF Release, LosesOnly, StaysExceeded
<1>2. CASE c # Null
  <2>1. c \in Addresses(h) /\ h.ref[c] >= 1
    BY <1>2
  <2>2. /\ g.node = h.node
        /\ g.ref = [h.ref EXCEPT ![c] = @ - 1]
        /\ Free(h) \subseteq Free(g)
        /\ h.ref[c] = 1 => c \in Free(g)
    BY <2>1, ReleaseFacts
  <2>3. h \in Heap /\ DOMAIN h.ref = Addresses(h) /\ h.ref[c] \in Nat
    BY <2>1 DEF WellFormed, Heap
  <2>4. g.dups = h.dups
    BY <2>3 DEF Release, Drop, Heap
  <2> HIDE DEF g
  <2>5. Addresses(g) = Addresses(h)
    BY <2>2 DEF Addresses
  <2>6. ASSUME NEW n \in Loose(g)
        PROVE  n \in Loose(h)
    <3>1. n \in Addresses(h) /\ n \notin Free(g) /\ n \notin Free(h) /\ g.ref[n] = 0
      BY <2>2, <2>5 DEF Loose
    <3>2. n # c
      BY <2>1, <2>2, <2>3, <3>1
    <3> QED
      BY <2>2, <2>3, <3>1, <3>2 DEF Loose
  <2>7. LosesOnly(h, g, {})
    BY <2>4, <2>6 DEF LosesOnly, StaysExceeded
  <2> QED
    BY <2>7 DEF g
<1> QED
  BY <1>1, <1>2

\* Only the recycled node leaves the free list without a reference to it.
LEMMA RecycleLoses ==
  ASSUME NEW h, h.free # << >>, NEW ext,
         Accounted(h, Addresses(h), Addresses(h), ext),
         NEW nd, Buildable(h, nd),
         NEW m, m = Head(h.free)
  PROVE  LosesOnly(h, RecycleNode(h, nd), {m})
<1> DEFINE A == Addresses(h)
           B == A \ {m}
           h1 == PopFree(h)
           h2 == Release(h1, h.node[m].right)
           h3 == Release(h2, h.node[m].left)
           g == RecycleNode(h, nd)
<1>1. /\ h2 = Release(h1, h.node[m].right)
      /\ h3 = Release(h2, h.node[m].left)
      /\ g = ResetNode(h3, m, nd)
  BY DEF RecycleNode
<1>2. /\ WellFormed(h1) /\ FreeOK(h1)
      /\ h1.node = h.node /\ h1.ref = h.ref
      /\ m \in A /\ Free(h1) = Free(h) \ {m}
  BY PopFacts DEF Accounted
<1>3. h1.dups = h.dups
  BY DEF PopFree, Accounted, WellFormed, Heap
<1> HIDE DEF h1, h2, h3, g
<1>4. Accounted(h1, A, A, ext)
  BY <1>2 DEF Accounted, Addresses, Counted, Lefts, Rights
<1>5. LosesOnly(h, h1, {m})
  BY <1>2, <1>3 DEF LosesOnly, StaysExceeded, Loose, Addresses
<1> HIDE DEF A
<1>6. Addresses(h1) = A
  BY <1>2 DEF A, Addresses
<1>7. /\ h1.node[m].right \in A \cup {Null}
      /\ h1.node[m].left \in A \cup {Null}
  BY <1>2, <1>6 DEF WellFormed
<1>8. LosesOnly(h1, h2, {}) /\ Accounted(h2, A, B, ext) /\ h2.node = h.node
  <2>1. h2 = Release(h1, h1.node[m].right)
    BY <1>1, <1>2
  <2>2. h1.node[m].right # Null => h1.ref[h1.node[m].right] >= 1
    BY <1>2, <1>4, <1>6, <1>7, ParentsCount
  <2>3. LosesOnly(h1, h2, {})
    BY <1>2, <1>6, <1>7, <2>1, <2>2, ReleaseLoses
  <2>4. Accounted(h2, A, B, ext) /\ OnlyGivesUp(h1, h2)
    BY <1>2, <1>4, <2>1, GiveUpRight, Zenon
  <2> QED
    BY <1>2, <2>3, <2>4 DEF OnlyGivesUp
<1>9. LosesOnly(h2, h3, {}) /\ h3.node = h.node /\ WellFormed(h3)
  <2>1. h3 = Release(h2, h2.node[m].left)
    BY <1>1, <1>8
  <2>2. Addresses(h2) = A /\ h2.node[m].left \in A \cup {Null}
    BY <1>2, <1>7, <1>8 DEF A, Addresses
  <2>3. WellFormed(h2) /\ FreeOK(h2)
    BY <1>8 DEF Accounted
  <2>4. h2.node[m].left # Null => h2.ref[h2.node[m].left] >= 1
    <3> HIDE DEF B
    <3> QED
      BY <1>2, <1>8, <2>2, ParentsCount
  <2>5. LosesOnly(h2, h3, {})
    BY <2>1, <2>2, <2>3, <2>4, ReleaseLoses
  <2>6. Accounted(h3, A \ {m}, B, ext) /\ OnlyGivesUp(h2, h3)
    <3> HIDE DEF B
    <3> QED
      BY <1>2, <1>8, <2>1, GiveUpLeft, Zenon
  <2> QED
    BY <1>8, <2>5, <2>6 DEF OnlyGivesUp, Accounted
<1>10. LosesOnly(h3, g, {m})
  <2>1. h3 \in Heap /\ DOMAIN h3.ref = Addresses(h3) /\ Addresses(h3) = A
    BY <1>9 DEF WellFormed, A, Addresses
  <2>2. /\ DOMAIN g.node = DOMAIN h3.node
        /\ g.ref = [h3.ref EXCEPT ![m] = 0]
        /\ g.free = h3.free /\ g.dups = h3.dups
    BY <1>1, <2>1 DEF ResetNode, Heap
  <2>3. Addresses(g) = Addresses(h3) /\ Free(g) = Free(h3)
    BY <2>2 DEF Addresses, Free
  <2> QED
    BY <2>1, <2>2, <2>3 DEF LosesOnly, StaysExceeded, Loose
<1>11. LosesOnly(h, g, {m})
  BY <1>5, <1>8, <1>9, <1>10 DEF LosesOnly, StaysExceeded
<1> QED
  BY <1>11 DEF g

LEMMA FreshLoses ==
  ASSUME NEW h, WellFormed(h), NEW nd \in Node
  PROVE  LosesOnly(h, AllocateNewNode(h, nd), {Len(h.node) + 1})
<1> DEFINE g == AllocateNewNode(h, nd)
           m == Len(h.node) + 1
<1>1. h \in Heap /\ h.node \in Seq(Node) /\ h.ref \in Seq(Nat) /\ DOMAIN h.ref = DOMAIN h.node
  BY DEF WellFormed, Heap, Addresses
<1>2. /\ g.node = Append(h.node, nd) /\ g.ref = Append(h.ref, 0)
      /\ g.free = h.free /\ g.dups = h.dups
  BY <1>1 DEF AllocateNewNode, Heap
<1> HIDE DEF g
<1>3. Addresses(g) = Addresses(h) \cup {m}
  BY <1>1, <1>2, AppendFacts DEF Addresses
<1>4. \A n \in Addresses(h) : g.ref[n] = h.ref[n]
  BY <1>1, <1>2, AppendFacts DEF Addresses
<1>5. Free(g) = Free(h)
  BY <1>2 DEF Free
<1>6. LosesOnly(h, g, {m})
  BY <1>2, <1>3, <1>4, <1>5 DEF LosesOnly, StaysExceeded, Loose
<1> QED
  BY <1>6 DEF g

LEMMA IncreaseLoses ==
  ASSUME NEW h, WellFormed(h)
  PROVE  LET g == IncreaseMempoolSize(h)
         IN  WellFormed(g) /\ g.node = h.node /\ LosesOnly(h, g, {})
<1> DEFINE g == IncreaseMempoolSize(h)
<1>1. h \in Heap /\ h.dups \in Nat /\ 2 * h.size \in Nat
  BY DEF WellFormed, Heap
<1>2. /\ g.node = h.node /\ g.ref = h.ref /\ g.free = h.free
      /\ g.dups = h.dups + 1 /\ g \in Heap
  <2> DEFINE c == 2 * h.size
             d == h.dups + 1
  <2>1. g = [h EXCEPT !.cap = c, !.size = 0, !.dups = d]
    BY <1>1 DEF IncreaseMempoolSize
  <2>2. c \in Nat /\ d \in Nat
    BY <1>1
  <2> HIDE DEF c, g
  <2>3. g.dups = d
    BY <1>1, <2>1 DEF Heap
  <2> HIDE DEF d
  <2>4. g.node = h.node /\ g.ref = h.ref /\ g.free = h.free /\ g \in Heap
    BY <1>1, <2>1, <2>2 DEF Heap
  <2> QED
    BY <2>3, <2>4 DEF d
<1> HIDE DEF g
<1>3. Addresses(g) = Addresses(h) /\ Free(g) = Free(h)
  BY <1>2 DEF Addresses, Free
<1>4. WellFormed(g)
  BY <1>2, <1>3 DEF WellFormed
<1>5. StaysExceeded(h, g)
  BY <1>1, <1>2, MaxDuplicationsAssumption DEF StaysExceeded
<1>6. LosesOnly(h, g, {})
  BY <1>2, <1>3, <1>5 DEF LosesOnly, Loose
<1> QED
  BY <1>2, <1>4, <1>6 DEF g

LEMMA NodeForLoses ==
  ASSUME NEW h, NEW ext, Accounted(h, Addresses(h), Addresses(h), ext),
         NEW nd, Buildable(h, nd)
  PROVE  LosesOnly(h, NodeFor(h, nd), {AllocAddress(h)})
<1>1. WellFormed(h) /\ nd \in Node
  BY DEF Accounted, Buildable
<1>2. CASE Recycles(h)
  <2>1. /\ h.free # << >> /\ AllocAddress(h) = Head(h.free)
        /\ NodeFor(h, nd) = RecycleNode(h, nd)
    BY <1>2 DEF Recycles, AllocAddress, NodeFor
  <2> QED
    BY <2>1, RecycleLoses
<1>3. CASE ~Recycles(h) /\ ~IsFull(h)
  <2>1. AllocAddress(h) = Len(h.node) + 1 /\ NodeFor(h, nd) = AllocateNewNode(h, nd)
    BY <1>3 DEF AllocAddress, NodeFor
  <2> QED
    BY <1>1, <2>1, FreshLoses
<1>4. CASE ~Recycles(h) /\ IsFull(h)
  <2> DEFINE g == IncreaseMempoolSize(h)
  <2>1. AllocAddress(h) = Len(h.node) + 1 /\ NodeFor(h, nd) = AllocateNewNode(g, nd)
    BY <1>4 DEF AllocAddress, NodeFor
  <2>2. WellFormed(g) /\ g.node = h.node /\ LosesOnly(h, g, {})
    BY <1>1, IncreaseLoses
  <2> HIDE DEF g
  <2>3. LosesOnly(g, AllocateNewNode(g, nd), {Len(g.node) + 1})
    BY <1>1, <2>2, FreshLoses
  <2> QED
    BY <2>1, <2>2, <2>3 DEF LosesOnly, StaysExceeded
<1> QED
  BY <1>2, <1>3, <1>4

\* A node that gains a reference is not loose any more.
LEMMA AcquireLoses ==
  ASSUME NEW h, WellFormed(h), FreeOK(h),
         NEW c \in Addresses(h) \cup {Null}, c \notin Free(h),
         NEW g, g = Acquire(h, c)
  PROVE  Loose(g) \subseteq Loose(h) \ {c} /\ StaysExceeded(h, g)
<1>1. OnlyTakes(h, g, c)
  BY TakeFacts
<1>2. Addresses(g) = Addresses(h) /\ Free(g) = Free(h)
  BY <1>1 DEF OnlyTakes, Addresses, Free
<1>3. h \in Heap /\ \A n \in Addresses(h) : h.ref[n] \in Nat
  BY DEF WellFormed, Heap
<1>4. g.dups = h.dups
  BY <1>3 DEF Acquire, Heap
<1>5. \A n \in Addresses(h) : g.ref[n] = 0 => h.ref[n] = 0 /\ n # c
  BY <1>1, <1>3 DEF OnlyTakes
<1> QED
  BY <1>2, <1>4, <1>5 DEF Loose, StaysExceeded

\* An allocation leaves the new node loose, and not its children.
LEMMA AllocLoses ==
  ASSUME NEW h, NEW ext, Accounted(h, Addresses(h), Addresses(h), ext),
         NEW nd, Buildable(h, nd),
         nd.left = Null \/ Protected(h, ext, nd.left),
         nd.right = Null \/ Protected(h, ext, nd.right),
         NEW g, g = Alloc(h, nd),
         NEW m, m = AllocAddress(h)
  PROVE  /\ Loose(g) \subseteq (Loose(h) \ {nd.left, nd.right}) \cup {m}
         /\ StaysExceeded(h, g)
<1> DEFINE A == Addresses(h)
           g1 == NodeFor(h, nd)
           g2 == Acquire(g1, nd.left)
<1>1. g = Acquire(g2, nd.right) /\ g2 = Acquire(g1, nd.left)
  BY DEF Alloc
<1>2. LosesOnly(h, g1, {m})
  BY NodeForLoses
<1>3. /\ WellFormed(g1) /\ FreeOK(g1) /\ Places(h, g1, m, nd)
      /\ \A x : Protected(h, ext, x) => x \notin Free(g1)
  BY NodeForFacts DEF Accounted
<1> HIDE DEF g1, g2
<1>4. Null \notin Free(g1) /\ Null \notin Addresses(g1)
  <2>1. Null \notin Addresses(g1)
    BY <1>3, AddressesAreNat DEF WellFormed, Null
  <2> QED
    BY <1>3, <2>1 DEF FreeOK
<1>5. /\ nd.left \in Addresses(g1) \cup {Null} /\ nd.left \notin Free(g1)
      /\ nd.right \in Addresses(g1) \cup {Null} /\ nd.right \notin Free(g1)
  BY <1>3, <1>4 DEF Buildable, Places
<1>6. nd.left # m /\ nd.right # m
  BY <1>3, <1>4 DEF Places, Protected
<1>7. /\ Loose(g2) \subseteq Loose(g1) \ {nd.left} /\ StaysExceeded(g1, g2)
      /\ WellFormed(g2) /\ FreeOK(g2) /\ OnlyTakes(g1, g2, nd.left)
  BY <1>1, <1>3, <1>5, AcquireLoses, TakeFacts
<1>8. Addresses(g2) = Addresses(g1) /\ Free(g2) = Free(g1)
  BY <1>7 DEF OnlyTakes, Addresses, Free
<1>9. Loose(g) \subseteq Loose(g2) \ {nd.right} /\ StaysExceeded(g2, g)
  BY <1>1, <1>5, <1>7, <1>8, AcquireLoses
<1> QED
  BY <1>2, <1>6, <1>7, <1>9 DEF LosesOnly, StaysExceeded

----------------------------------------------------------------------------
(***************************************************************************)
(* Grounded, layer by layer.                                               *)
(***************************************************************************)
LEMMA LeastNumber ==
  ASSUME NEW T, T \subseteq Nat, T # {}
  PROVE  \E x \in T : \A y \in T : ~(y < x)
<1> DEFINE R == {ss \in Nat \X Nat : ss[1] < ss[2]}
<1>1. IsWellFoundedOn(R, Nat)
  BY NatLessThanWellFounded, Zenon DEF OpToRel
<1>2. \E x \in T : \A y \in T : ~(<<y, x>> \in R)
  <2> HIDE DEF R
  <2> QED
    BY <1>1, WFMin
<1> QED
  BY <1>2

\* The nodes whose children are among those of S.
Above(h, S) ==
  LET below == S \cup {Null}
  IN  {n \in Addresses(h) : {h.node[n].left, h.node[n].right} \subseteq below}

Layers(h, k, layer) ==
  layer = [i \in 0..k |-> IF i = 0 THEN {} ELSE Above(h, layer[i - 1])]

Layered(h, N, layer) ==
  layer[0] = {} /\ \A i \in 1..N : layer[i] = Above(h, layer[i - 1])

LEMMA LayersExist ==
  ASSUME NEW h, NEW N \in Nat
  PROVE  \E layer : Layers(h, N, layer)
<1> DEFINE T == {k \in Nat : ~\E layer : Layers(h, k, layer)}
<1>1. SUFFICES ASSUME T # {} PROVE FALSE
  OBVIOUS
<1>2. PICK k \in T : \A y \in T : ~(y < k)
  BY <1>1, LeastNumber
<1>3. k \in Nat /\ ~\E layer : Layers(h, k, layer)
  OBVIOUS
<1>4. CASE k = 0
  <2> DEFINE f == [i \in 0..0 |-> {}]
  <2>1. f = [i \in 0..0 |-> IF i = 0 THEN {} ELSE Above(h, f[i - 1])]
    <3>1. \A i \in 0..0 : i = 0
      OBVIOUS
    <3> QED
      BY <3>1
  <2> HIDE DEF f
  <2> QED
    BY <1>3, <1>4, <2>1 DEF Layers
<1>5. CASE k # 0
  <2>1. k - 1 \in Nat /\ k - 1 < k
    BY <1>3, <1>5
  <2>2. PICK f : Layers(h, k - 1, f)
    BY <1>2, <2>1
  <2> DEFINE g == [i \in 0..k |-> IF i = k THEN Above(h, f[k - 1]) ELSE f[i]]
  <2>3. \A i \in 0..k - 1 : f[i] = IF i = 0 THEN {} ELSE Above(h, f[i - 1])
    BY <2>2 DEF Layers
  <2>4. \A i \in 0..k - 1 : g[i] = f[i]
    BY <1>3
  <2>5. g[k] = Above(h, f[k - 1])
    BY <1>3
  <2>6. g = [i \in 0..k |-> g[i]]
    OBVIOUS
  <2> HIDE DEF g
  <2>7. ASSUME NEW i \in 0..k
        PROVE  g[i] = IF i = 0 THEN {} ELSE Above(h, g[i - 1])
    <3>1. CASE i = k
      <4>1. k - 1 \in 0..k - 1
        BY <2>1
      <4> QED
        BY <1>5, <2>4, <2>5, <3>1, <4>1
    <3>2. CASE i # k
      <4>1. i \in 0..k - 1 /\ (i # 0 => i - 1 \in 0..k - 1)
        BY <1>3, <3>2
      <4> QED
        BY <2>3, <2>4, <4>1
    <3> QED
      BY <3>1, <3>2
  <2>8. Layers(h, k, g)
    BY <2>6, <2>7 DEF Layers
  <2> QED
    BY <1>3, <2>8
<1> QED
  BY <1>4, <1>5

LEMMA GroundedLayers ==
  ASSUME NEW h, Len(h.node) \in Nat
  PROVE  \E layer : Grounded(h) = layer[Len(h.node)] /\ Layered(h, Len(h.node), layer)
<1> DEFINE N == Len(h.node)
<1>1. PICK layer : Layers(h, N, layer) /\ Grounded(h) = layer[N]
  <2>1. \E layer : Layers(h, N, layer)
    BY LayersExist
  <2> QED
    BY <2>1, Zenon DEF Layers, Above, Grounded
<1> HIDE DEF N
<1>2. 0 \in 0..N /\ \A i \in 1..N : i \in 0..N /\ i # 0
  BY DEF N
<1>3. layer[0] = {} /\ \A i \in 1..N : layer[i] = Above(h, layer[i - 1])
  BY <1>1, <1>2, Zenon DEF Layers
<1> QED
  BY <1>1, <1>3 DEF N, Layered

\* Layers only grow.
LEMMA LayersGrow ==
  ASSUME NEW h, NEW N \in Nat, NEW layer, Layered(h, N, layer)
  PROVE  \A i \in 1..N : layer[i - 1] \subseteq layer[i]
<1> DEFINE T == {k \in 1..N : ~(layer[k - 1] \subseteq layer[k])}
<1>1. SUFFICES ASSUME T # {} PROVE FALSE
  OBVIOUS
<1>2. PICK k \in T : \A y \in T : ~(y < k)
  <2>1. T \subseteq Nat
    OBVIOUS
  <2> HIDE DEF T
  <2> QED
    BY <1>1, <2>1, LeastNumber
<1>3. k \in 1..N /\ ~(layer[k - 1] \subseteq layer[k])
  OBVIOUS
<1>4. k # 1
  BY <1>3 DEF Layered
<1>5. k - 1 \in 1..N /\ k - 1 < k
  BY <1>3, <1>4
<1>6. layer[(k - 1) - 1] \subseteq layer[k - 1]
  BY <1>2, <1>5
<1>7. Above(h, layer[(k - 1) - 1]) \subseteq Above(h, layer[k - 1])
  BY <1>6 DEF Above
<1> QED
  BY <1>3, <1>5, <1>7 DEF Layered
=============================================================================
