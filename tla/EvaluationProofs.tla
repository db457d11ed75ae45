-------------------------- MODULE EvaluationProofs --------------------------
(***************************************************************************)
(* Over the first segment of any document, whatever the query and whatever *)
(* the kind of call, the evaluation holds exactly the nodes it uses: none  *)
(* is recycled while a state, the enumeration or another node needs it,    *)
(* and none that nobody needs is kept.                                     *)
(*                                                                         *)
(* The count of a node changes with the lists of states that are alive. So *)
(* the proof has to show that a state is in at most one of them, once, and *)
(* that the position it was last reached at tells whether it is: this is   *)
(* what the two halves of the automaton are for.                           *)
(***************************************************************************)
EXTENDS DocumentMediators, NodeManagerProofs

----------------------------------------------------------------------------
(***************************************************************************)
(* The invariant.                                                          *)
(***************************************************************************)
\* The references of a list of states to a node, when f gives theirs.
HeldAt(f, S, n) == {i \in DOMAIN S : f[S[i]] = n}
Holds(f, S, n) == Cardinality(HeldAt(f, S, n))
One(m, n) == IF m = n THEN 1 ELSE 0
OneAt(f, D, n) == One(f[D], n)

\* Nothing has changed but at D.
AlikeBut(f, g, D) == \A E \in DOMAIN f : E # D => g[E] = f[E]

\* All references from outside the heap are counted by ext, and no node but
\* those of S is without any and not on the free list.
Sound(h, ext, S) ==
  /\ Accounted(h, Addresses(h), Addresses(h), ext)
  /\ Loose(h) \subseteq S

Held == [n \in Addresses(heap) |-> Holders(n)]

\* A deterministic state of one half of the automaton that goes on.
InHalf(half, D) == D # {} /\ \A s \in D : s[2] = half
GoesOn(half, D) == InHalf(half, D) /\ ~IsAccepting(va, D)

Pending == ToSet(next) \cup ToSet(final)
Alive == ToSet(current) \cup Pending
Visits == mode \in {"start", "read"}

Typed ==
  /\ query \in Queries
  /\ va = CleanForDeterminization(query.va)
  /\ document \in Seq(Letters) /\ Len(document) <= MaxDocument
  /\ i_src \in 0..Size(document)
  /\ i_min \in 0..Size(document) /\ i_max \in 0..Size(document)
  /\ segments \in Seq((0..Size(document)) \X (0..Size(document)))
  /\ taken \in Nat

BeforeTheFirst ==
  /\ mode \in {"segment", "done", "thrown"}
  /\ current = << >> /\ next = << >> /\ final = << >>
  /\ root = Null /\ pairs = Unknown
  /\ DOMAIN node = {InitialSubset(va)} /\ DOMAIN phase = DOMAIN node
  /\ node[InitialSubset(va)] \in Addresses(heap)
  /\ ~Thrown(heap)
  /\ Sound(heap, [n \in Addresses(heap) |-> One(node[InitialSubset(va)], n)], {})

RunTyped ==
  /\ pos \in 0..MaxDocument + 2 /\ end \in 0..MaxDocument + 2
  /\ mode = "start" => pos <= MaxDocument + 1
  /\ mode = "read" => pos < end
  /\ phase \in [DOMAIN node -> Int]
  /\ current \in Seq(DOMAIN node)
  /\ next \in Seq(DOMAIN node) /\ final \in Seq(DOMAIN node)
  /\ mode \notin {"start", "read"} => next = << >>
  /\ \/ pairs = Unknown
     \/ /\ Visits /\ current # << >>
        /\ pairs \subseteq NextStates(va, Head(current), char)
        /\ \A p \in pairs : p[2] \in DOMAIN node

\* Each list is of states of its own, and has none of them twice.
Apart(half) ==
  /\ \A D \in ToSet(current) : GoesOn(half, D)
  /\ \A D \in ToSet(next) : GoesOn(1 - half, D)
  /\ \A D \in ToSet(final) : IsAccepting(va, D)
  /\ IsInjective(next) /\ IsInjective(final)

\* The states reached at this position are those that wait, but for those of
\* the start, which moved no position.
Phases(half) ==
  /\ \A D \in DOMAIN phase : phase[D] <= pos
  /\ Visits \/ (mode = "evaluate" /\ pos < end) =>
       /\ \A D \in Pending : phase[D] = pos
       /\ \A D \in DOMAIN phase :
            phase[D] = pos => D \in Pending \/ (mode # "start" /\ GoesOn(half, D))
  /\ mode \in {"root", "join", "list"} /\ pos < end =>
       \A D \in DOMAIN phase : phase[D] < pos

HeapIsHeld ==
  /\ ~Thrown(heap)
  /\ Sound(heap, Held, {})
  /\ \A D \in Alive : node[D] \in Addresses(heap)
  /\ root \in Addresses(heap) \cup {Null}

Running ==
  /\ RunTyped /\ HeapIsHeld
  /\ \E half \in {0, 1} : Apart(half) /\ Phases(half)
  /\ mode = "list" /\ kind \notin Findones => final = << >>

IInv ==
  /\ Typed
  /\ taken = 0 => BeforeTheFirst
  /\ taken = 1 => mode = "thrown" \/ Running

----------------------------------------------------------------------------
(***************************************************************************)
(* The references of a list.                                               *)
(***************************************************************************)
LEMMA HoldsIsNat ==
  ASSUME NEW T, NEW S \in Seq(T), NEW f, NEW n
  PROVE  IsFiniteSet(HeldAt(f, S, n)) /\ Holds(f, S, n) \in Nat
<1>1. IsFiniteSet(DOMAIN S)
  <2>1. DOMAIN S = 1..Len(S) /\ Len(S) \in Nat
    OBVIOUS
  <2> QED
    BY <2>1, FS_Interval
<1>2. HeldAt(f, S, n) \in SUBSET (DOMAIN S)
  BY DEF HeldAt
<1>3. IsFiniteSet(HeldAt(f, S, n))
  BY <1>1, <1>2, FS_Subset
<1> QED
  BY <1>3, FS_CardinalityType DEF Holds

\* One index more, if it is one of node n.
LEMMA OneMore ==
  ASSUME NEW R, IsFiniteSet(R), NEW k, k \notin R, NEW m, NEW n,
         NEW I, I = IF m = n THEN R \cup {k} ELSE R
  PROVE  Cardinality(I) = Cardinality(R) + One(m, n) /\ Cardinality(R) \in Nat
<1>1. Cardinality(R) \in Nat
  BY FS_CardinalityType
<1>2. CASE m = n
  <2>1. Cardinality(R \cup {k}) = Cardinality(R) + 1
    BY FS_AddElement
  <2> QED
    BY <1>1, <1>2, <2>1 DEF One
<1>3. CASE m # n
  BY <1>1, <1>3 DEF One
<1> QED
  BY <1>2, <1>3

LEMMA HoldsNone ==
  ASSUME NEW f, NEW n
  PROVE  Holds(f, << >>, n) = 0
<1>1. HeldAt(f, << >>, n) = {}
  BY DEF HeldAt
<1> QED
  BY <1>1, FS_EmptySet DEF Holds

LEMMA HoldsSingle ==
  ASSUME NEW f, NEW D, NEW n
  PROVE  Holds(f, <<D>>, n) = One(f[D], n)
<1> DEFINE S == <<D>>
<1>1. DOMAIN S = {1} /\ S[1] = D
  OBVIOUS
<1> HIDE DEF S
<1>2. HeldAt(f, S, n) = IF f[D] = n THEN {1} ELSE {}
  BY <1>1 DEF HeldAt
<1> QED
  BY <1>2, FS_EmptySet, FS_Singleton DEF Holds, One, S

LEMMA HoldsSame ==
  ASSUME NEW S, NEW f, NEW g, \A i \in DOMAIN S : f[S[i]] = g[S[i]], NEW n
  PROVE  Holds(f, S, n) = Holds(g, S, n)
<1>1. HeldAt(f, S, n) = HeldAt(g, S, n)
  BY DEF HeldAt
<1> QED
  BY <1>1 DEF Holds

LEMMA HoldsAppend ==
  ASSUME NEW T, NEW S \in Seq(T), NEW D \in T, NEW f, NEW n
  PROVE  Holds(f, Append(S, D), n) = Holds(f, S, n) + One(f[D], n)
<1> DEFINE I == HeldAt(f, S, n)
           J == HeldAt(f, Append(S, D), n)
           k == Len(S) + 1
<1>1. /\ DOMAIN Append(S, D) = DOMAIN S \cup {k} /\ k \notin DOMAIN S
      /\ Append(S, D)[k] = D
      /\ \A i \in DOMAIN S : Append(S, D)[i] = S[i]
  BY AppendFacts
<1>2. IsFiniteSet(I)
  BY HoldsIsNat
<1>3. J = (IF f[D] = n THEN I \cup {k} ELSE I) /\ k \notin I
  <2> HIDE DEF k
  <2> QED
    BY <1>1 DEF HeldAt
<1> HIDE DEF I, J, k
<1>4. Cardinality(J) = Cardinality(I) + One(f[D], n)
  BY <1>2, <1>3, OneMore
<1> QED
  BY <1>4 DEF Holds, I, J

LEMMA HoldsTail ==
  ASSUME NEW T, NEW S \in Seq(T), S # << >>, NEW f, NEW n
  PROVE  Holds(f, S, n) = Holds(f, Tail(S), n) + One(f[Head(S)], n)
<1> DEFINE I == HeldAt(f, S, n)
           J == HeldAt(f, Tail(S), n)
           K == I \ {1}
           shift == [i \in J |-> i + 1]
<1>1. /\ DOMAIN S = 1..Len(S) /\ Len(S) \in Nat /\ Len(S) >= 1
      /\ DOMAIN Tail(S) = 1..Len(S) - 1 /\ Tail(S) \in Seq(T)
      /\ \A i \in 1..Len(S) - 1 : Tail(S)[i] = S[i + 1]
      /\ Head(S) = S[1]
  OBVIOUS
<1>2. IsFiniteSet(J)
  BY <1>1, HoldsIsNat
<1>3. ExistsBijection(J, K)
  <2>1. \A i \in J : i + 1 \in K
    BY <1>1 DEF HeldAt
  <2>2. \A k \in K : k - 1 \in J /\ shift[k - 1] = k
    BY <1>1 DEF HeldAt
  <2>3. \A i, j \in J : shift[i] = shift[j] => i = j
    BY <1>1 DEF HeldAt
  <2>4. shift \in [J -> K] /\ \A k \in K : \E i \in J : shift[i] = k
    BY <2>1, <2>2
  <2> HIDE DEF shift, J, K
  <2>5. shift \in Bijection(J, K)
    BY <2>3, <2>4 DEF Bijection, Injection, Surjection, IsInjective
  <2> QED
    BY <2>5 DEF ExistsBijection
<1>4. I = (IF f[Head(S)] = n THEN K \cup {1} ELSE K) /\ 1 \notin K
  BY <1>1 DEF HeldAt
<1> HIDE DEF I, J, K
<1>5. IsFiniteSet(K) /\ Cardinality(K) = Cardinality(J)
  BY <1>2, <1>3, FS_Bijection
<1>6. Cardinality(I) = Cardinality(K) + One(f[Head(S)], n)
  BY <1>4, <1>5, OneMore
<1> QED
  BY <1>5, <1>6 DEF Holds, I, J

\* A state that is in the list once is given another node.
LEMMA HoldsOnce ==
  ASSUME NEW f, NEW g, NEW D, NEW S, IsInjective(S), D \in ToSet(S),
         AlikeBut(f, g, D), S \in Seq(DOMAIN f), NEW n
  PROVE  Holds(g, S, n) + OneAt(f, D, n) = Holds(f, S, n) + OneAt(g, D, n)
<1> DEFINE I == HeldAt(f, S, n)
           G == HeldAt(g, S, n)
<1>1. PICK k \in DOMAIN S : S[k] = D
  BY DEF ToSet
<1> DEFINE R == I \ {k}
<1>2. \A i \in DOMAIN S : i # k => S[i] # D
  BY <1>1 DEF IsInjective
<1>3. \A i \in DOMAIN S : S[i] # D => g[S[i]] = f[S[i]]
  BY DEF AlikeBut
<1>4. I = IF f[D] = n THEN R \cup {k} ELSE R
  BY <1>1 DEF HeldAt
<1>5. G = IF g[D] = n THEN R \cup {k} ELSE R
  BY <1>1, <1>2, <1>3 DEF HeldAt
<1>6. IsFiniteSet(R) /\ k \notin R
  <2>1. IsFiniteSet(I)
    BY HoldsIsNat
  <2> QED
    BY <2>1, FS_RemoveElement
<1> HIDE DEF I, G, R
<1>7. Cardinality(I) = Cardinality(R) + One(f[D], n) /\ Cardinality(R) \in Nat
  <2>1. PICK c : c = f[D]
    OBVIOUS
  <2>2. I = IF c = n THEN R \cup {k} ELSE R
    BY <1>4, <2>1
  <2>3. Cardinality(I) = Cardinality(R) + One(c, n)
    BY <1>6, <2>2, OneMore
  <2> QED
    BY <1>6, <2>1, <2>3, FS_CardinalityType
<1>8. Cardinality(G) = Cardinality(R) + One(g[D], n)
  <2>1. PICK c : c = g[D]
    OBVIOUS
  <2>2. G = IF c = n THEN R \cup {k} ELSE R
    BY <1>5, <2>1
  <2>3. Cardinality(G) = Cardinality(R) + One(c, n)
    BY <1>6, <2>2, OneMore
  <2> QED
    BY <2>1, <2>3
<1>9. One(g[D], n) \in Nat /\ One(f[D], n) \in Nat
  BY DEF One
<1> QED
  BY <1>7, <1>8, <1>9 DEF Holds, OneAt, I, G

----------------------------------------------------------------------------
(***************************************************************************)
(* What the calls do to a heap that is sound.                              *)
(***************************************************************************)
LEMMA NotThrown ==
  ASSUME NEW h, WellFormed(h)
  PROVE  ~Thrown(h) <=> h.dups <= MaxDuplications
BY MaxDuplicationsAssumption DEF Thrown, WellFormed, Heap

LEMMA HeldIsProtected ==
  ASSUME NEW h, NEW ext, NEW S, Sound(h, ext, S), NEW n \in Addresses(h), ext[n] >= 1
  PROVE  n \notin Free(h) /\ h.ref[n] >= 1 /\ Protected(h, ext, n)
<1>1. Accounted(h, Addresses(h), Addresses(h), ext) /\ ext[n] \in Nat
  BY DEF Sound, Accounted
<1>2. h.ref[n] \in Nat /\ h.ref[n] >= ext[n]
  BY <1>1, ParentsCount
<1>3. h.ref[n] >= 1
  BY <1>1, <1>2
<1>4. n \notin Free(h)
  BY <1>1, <1>3 DEF Accounted, FreeOK
<1> QED
  BY <1>3, <1>4 DEF Protected

\* One reference from outside more, or less.
Plus(ext, n) == [x \in DOMAIN ext |-> ext[x] + One(n, x)]
Minus(ext, n) == [x \in DOMAIN ext |-> ext[x] - One(n, x)]

LEMMA PinSound ==
  ASSUME NEW h, ~Thrown(h), NEW ext, NEW S, Sound(h, ext, S),
         NEW n \in Addresses(h) \ Free(h),
         NEW g, g = Pin(h, n)
  PROVE  /\ Sound(g, Plus(ext, n), S \ {n})
         /\ ~Thrown(g) /\ g.node = h.node /\ Free(g) = Free(h)
<1> DEFINE A == Addresses(h)
           ext2 == Plus(ext, n)
<1>0. ext2 \in [A -> Nat] /\ \A x \in A : ext2[x] = ext[x] + One(n, x)
  BY DEF Plus, Sound, Accounted, One
<1> HIDE DEF ext2
<1>1. Accounted(h, A, A, ext) /\ Loose(h) \subseteq S
  BY DEF Sound
<1>2. WellFormed(h) /\ FreeOK(h) /\ Counted(h, A, A, ext) /\ ext \in [A -> Nat]
  BY <1>1 DEF Accounted
<1>3. g = Acquire(h, n) /\ n \in A \cup {Null}
  BY DEF Pin
<1>4. WellFormed(g) /\ FreeOK(g) /\ OnlyTakes(h, g, n)
  BY <1>2, <1>3, TakeFacts
<1>5. Loose(g) \subseteq Loose(h) \ {n}
  BY <1>2, <1>3, AcquireLoses
<1>6. n # Null
  BY <1>2, AddressesAreNat DEF WellFormed, Null
<1>7. g.dups = h.dups
  BY <1>2, <1>3 DEF Acquire, WellFormed, Heap
<1>8. ~Thrown(g)
  BY <1>7 DEF Thrown
<1>9. Addresses(g) = A /\ Free(g) = Free(h) /\ g.node = h.node
  BY <1>4 DEF OnlyTakes, Addresses, Free
<1>10. Counted(g, A, A, ext2)
  <2>1. SUFFICES ASSUME NEW x \in A
                 PROVE  g.ref[x] = Cardinality(Lefts(g, A, x))
                                     + Cardinality(Rights(g, A, x)) + ext2[x]
    BY <1>9 DEF Counted
  <2>2. Lefts(g, A, x) = Lefts(h, A, x) /\ Rights(g, A, x) = Rights(h, A, x)
    BY <1>9 DEF Lefts, Rights
  <2>3. g.ref[x] = h.ref[x] + One(n, x)
    <3>1. h.ref[x] \in Nat
      BY <1>2 DEF WellFormed, Heap
    <3>2. g.ref[x] = IF x = n THEN h.ref[x] + 1 ELSE h.ref[x]
      BY <1>4 DEF OnlyTakes
    <3> QED
      BY <3>1, <3>2 DEF One
  <2>4. h.ref[x] = Cardinality(Lefts(h, A, x)) + Cardinality(Rights(h, A, x)) + ext[x]
    BY <1>2 DEF Counted
  <2>5. /\ Cardinality(Lefts(h, A, x)) \in Nat /\ Cardinality(Rights(h, A, x)) \in Nat
        /\ ext[x] \in Nat /\ One(n, x) \in Nat
    BY <1>0, <1>2, AddressesAreNat, CountsAreNat DEF WellFormed, One
  <2> QED
    BY <1>0, <2>2, <2>3, <2>4, <2>5
<1>11. Accounted(g, A, A, ext2)
  BY <1>4, <1>9, <1>10, <1>0 DEF Accounted
<1> QED
  BY <1>1, <1>5, <1>8, <1>9, <1>11 DEF Sound, ext2

LEMMA UnpinSound ==
  ASSUME NEW h, ~Thrown(h), NEW ext, NEW S, Sound(h, ext, S),
         NEW n \in Addresses(h), ext[n] >= 1,
         NEW g, g = Unpin(h, n)
  PROVE  /\ Sound(g, Minus(ext, n), S)
         /\ ~Thrown(g) /\ g.node = h.node /\ Free(g) \subseteq Free(h) \cup {n}
<1> DEFINE A == Addresses(h)
           ext2 == Minus(ext, n)
<1>0. ext2 \in [A -> Nat] /\ \A x \in A : ext2[x] + One(n, x) = ext[x]
  BY DEF Minus, Sound, Accounted, One
<1> HIDE DEF ext2
<1>1. Accounted(h, A, A, ext) /\ Loose(h) \subseteq S
  BY DEF Sound
<1>2. WellFormed(h) /\ FreeOK(h) /\ Counted(h, A, A, ext) /\ ext \in [A -> Nat]
  BY <1>1 DEF Accounted
<1>3. g = Release(h, n)
  BY DEF Unpin
<1>4. h.ref[n] >= 1
  BY HeldIsProtected
<1>5. /\ WellFormed(g) /\ FreeOK(g) /\ g.node = h.node
      /\ g.ref = [h.ref EXCEPT ![n] = @ - 1]
      /\ Free(g) \subseteq Free(h) \cup {n}
  BY <1>2, <1>3, <1>4, ReleaseFacts
<1>6. LosesOnly(h, g, {})
  <2>1. n \in A \cup {Null} /\ (n # Null => h.ref[n] >= 1)
    BY <1>4
  <2> QED
    BY <1>2, <1>3, <2>1, ReleaseLoses
<1>7. g.dups = h.dups
  BY <1>2, <1>3 DEF Release, Drop, WellFormed, Heap
<1>8. ~Thrown(g)
  BY <1>7 DEF Thrown
<1>9. Addresses(g) = A
  BY <1>5 DEF Addresses
<1>10. Counted(g, A, A, ext2)
  <2>1. SUFFICES ASSUME NEW x \in A
                 PROVE  g.ref[x] = Cardinality(Lefts(g, A, x))
                                     + Cardinality(Rights(g, A, x)) + ext2[x]
    BY <1>9 DEF Counted
  <2>2. Lefts(g, A, x) = Lefts(h, A, x) /\ Rights(g, A, x) = Rights(h, A, x)
    BY <1>5 DEF Lefts, Rights
  <2>3. g.ref[x] = h.ref[x] - One(n, x)
    <3>1. h.ref[x] \in Nat /\ x \in DOMAIN h.ref
      BY <1>2 DEF WellFormed, Heap
    <3>2. g.ref[x] = IF x = n THEN h.ref[x] - 1 ELSE h.ref[x]
      BY <1>5, <3>1
    <3> QED
      BY <3>1, <3>2 DEF One
  <2>4. h.ref[x] = Cardinality(Lefts(h, A, x)) + Cardinality(Rights(h, A, x)) + ext[x]
    BY <1>2 DEF Counted
  <2>5. /\ Cardinality(Lefts(h, A, x)) \in Nat /\ Cardinality(Rights(h, A, x)) \in Nat
        /\ ext[x] \in Nat /\ ext2[x] \in Nat /\ One(n, x) \in Nat
    BY <1>0, <1>2, AddressesAreNat, CountsAreNat DEF WellFormed, One
  <2> QED
    BY <1>0, <2>2, <2>3, <2>4, <2>5
<1>11. Accounted(g, A, A, ext2)
  BY <1>5, <1>9, <1>10, <1>0 DEF Accounted
<1> QED
  BY <1>1, <1>5, <1>6, <1>8, <1>9, <1>11 DEF Sound, LosesOnly, ext2

\* A call that does not throw has a new node, or a recycled one, to give.
LEMMA CreateSound ==
  ASSUME NEW h, NEW ext, NEW S, Sound(h, ext, S),
         NEW nd, Buildable(h, nd),
         nd.left = Null \/ Protected(h, ext, nd.left),
         nd.right = Null \/ Protected(h, ext, nd.right),
         NEW c, c = Created(h, nd), ~Thrown(c.heap)
  PROVE  /\ ~Thrown(h)
         /\ Sound(c.heap, Padded(ext, Addresses(c.heap)),
                  (S \ {nd.left, nd.right}) \cup {c.node})
         /\ Places(h, c.heap, c.node, nd)
         /\ \A x : Protected(h, ext, x) => x \notin Free(c.heap)
<1>1. c.heap = Try(h, nd) /\ c.node = AllocAddress(h)
  BY DEF Created
<1>2. ~Thrown(h)
  BY <1>1 DEF Try
<1>3. ~ExceedsLimit(h)
  <2>1. SUFFICES ASSUME ExceedsLimit(h) PROVE FALSE
    OBVIOUS
  <2>2. c.heap = LimitExceeded(h) /\ h \in Heap
    BY <1>1, <1>2, <2>1 DEF Try, Sound, Accounted, WellFormed
  <2>3. c.heap.dups = MaxDuplications + 1
    BY <2>2 DEF LimitExceeded, Heap
  <2> QED
    BY <2>3, MaxDuplicationsAssumption DEF Thrown
<1>4. c.heap = Alloc(h, nd)
  BY <1>1, <1>2, <1>3 DEF Try
<1>5. Accounted(h, Addresses(h), Addresses(h), ext) /\ Loose(h) \subseteq S
  BY DEF Sound
<1>6. /\ Accounted(c.heap, Addresses(c.heap), Addresses(c.heap),
                   Padded(ext, Addresses(c.heap)))
      /\ Places(h, c.heap, c.node, nd)
      /\ \A x : Protected(h, ext, x) => x \notin Free(c.heap)
  BY <1>1, <1>4, <1>5, AllocFacts
<1>7. Loose(c.heap) \subseteq (Loose(h) \ {nd.left, nd.right}) \cup {c.node}
  BY <1>1, <1>4, <1>5, AllocLoses
<1>8. Loose(c.heap) \subseteq (S \ {nd.left, nd.right}) \cup {c.node}
  BY <1>5, <1>7
<1> QED
  BY <1>2, <1>6, <1>8 DEF Sound

LEMMA PaddedTwice ==
  ASSUME NEW ext, NEW A, NEW B, DOMAIN ext \subseteq A
  PROVE  Padded(Padded(ext, A), B) = Padded(ext, B)
BY DEF Padded

LEMMA PaddedAgain ==
  ASSUME NEW ext, NEW A, NEW B, ext \in [A -> Nat], A \subseteq B
  PROVE  /\ Padded(ext, B) \in [B -> Nat]
         /\ \A x \in A : Padded(ext, B)[x] = ext[x]
BY DEF Padded

LEMMA AllocAddressIsNode ==
  ASSUME NEW h, WellFormed(h)
  PROVE  AllocAddress(h) \in Nat
<1>1. h.free \in Seq(Nat) /\ h.node \in Seq(Node)
  BY DEF WellFormed, Heap
<1>2. CASE Recycles(h)
  <2>1. h.free # << >> /\ AllocAddress(h) = Head(h.free)
    BY <1>2 DEF Recycles, AllocAddress
  <2> QED
    BY <1>1, <2>1
<1>3. CASE ~Recycles(h)
  BY <1>1, <1>3 DEF AllocAddress
<1> QED
  BY <1>2, <1>3

\* What creating the union of two nodes gives: a loose node, which is none of
\* those held, of a heap with all the addresses of the first.
GivesUnion(h, ext, u) ==
  /\ ~Thrown(h)
  /\ Sound(u.heap, Padded(ext, Addresses(u.heap)), {u.node})
  /\ Addresses(h) \subseteq Addresses(u.heap)
  /\ u.node \in Addresses(u.heap) \ Free(u.heap)
  /\ \A x \in Addresses(h) : ext[x] >= 1 => x # u.node

LEMMA UnionIsBuildable ==
  ASSUME NEW h, WellFormed(h), NEW l \in Addresses(h), NEW r \in Addresses(h)
  PROVE  Buildable(h, UnionNode(l, r))
<1>1. l \in Nat /\ r \in Nat /\ l # Null /\ r # Null
  BY AddressesAreNat DEF WellFormed, Null
<1>2. UnionNode(l, r) \in Node
  BY <1>1 DEF UnionNode, Node, Kinds
<1> QED
  BY <1>1, <1>2 DEF Buildable, UnionNode

LEMMA UnionOfOutputSound ==
  ASSUME NEW h, NEW ext, NEW n1, NEW n2, Sound(h, ext, {n2}),
         n1 \in Addresses(h), ext[n1] >= 1,
         n2 \in Addresses(h) \ Free(h), ext[n2] >= 1 \/ h.ref[n2] = 0,
         IsOutput(h, n1) \/ IsOutput(h, n2),
         NEW u, u = CreateUnion(h, n1, n2), ~Thrown(u.heap)
  PROVE  GivesUnion(h, ext, u)
<1>1. WellFormed(h)
  BY DEF Sound, Accounted
<1>2. Protected(h, ext, n1) /\ Protected(h, ext, n2)
  <2>1. Protected(h, ext, n1)
    BY HeldIsProtected
  <2>2. Protected(h, ext, n2)
    BY DEF Protected
  <2> QED
    BY <2>1, <2>2
<1>3. PICK nd : /\ nd \in {UnionNode(n1, n2), UnionNode(n2, n1)}
                /\ u = Created(h, nd)
  BY DEF CreateUnion, OutputFirst
<1>4. /\ Buildable(h, nd)
      /\ Protected(h, ext, nd.left) /\ Protected(h, ext, nd.right)
      /\ n2 \in {nd.left, nd.right}
  BY <1>1, <1>2, <1>3, UnionIsBuildable DEF UnionNode
<1>5. /\ ~Thrown(h)
      /\ Sound(u.heap, Padded(ext, Addresses(u.heap)),
               ({n2} \ {nd.left, nd.right}) \cup {u.node})
      /\ Places(h, u.heap, u.node, nd)
  BY <1>3, <1>4, CreateSound
<1>6. ({n2} \ {nd.left, nd.right}) \cup {u.node} = {u.node}
  BY <1>4
<1>7. \A x \in Addresses(h) : ext[x] >= 1 => x \notin Free(h)
  BY HeldIsProtected
<1> QED
  BY <1>5, <1>6, <1>7 DEF GivesUnion, Places

LEMMA NotOutput ==
  ASSUME NEW h, WellFormed(h), NEW n \in Addresses(h), ~IsOutput(h, n)
  PROVE  h.node[n].left \in Addresses(h) /\ h.node[n].right \in Addresses(h)
<1>1. h.node[n].kind \in {"bottom", "union", "label"}
  <2>1. h.node \in Seq(Node) /\ n \in DOMAIN h.node
    BY DEF WellFormed, Heap, Addresses
  <2>2. h.node[n] \in Node
    BY <2>1
  <2> QED
    BY <2>2 DEF Node, Kinds
<1>2. h.node[n].kind = "union"
  BY <1>1 DEF IsOutput
<1> QED
  BY <1>2 DEF WellFormed

LEMMA ChildIsProtected ==
  ASSUME NEW h, NEW ext, NEW S, Sound(h, ext, S),
         NEW n \in Addresses(h) \ Free(h), NEW c \in Addresses(h),
         c = h.node[n].left \/ c = h.node[n].right
  PROVE  Protected(h, ext, c)
<1>1. h.ref[c] \in Nat /\ h.ref[c] >= 1
  BY ParentsCount DEF Sound
<1>2. c \notin Free(h)
  BY <1>1 DEF Sound, Accounted, FreeOK
<1> QED
  BY <1>2 DEF Protected

LEMMA NotThrownBefore ==
  ASSUME NEW h, NEW nd, ~Thrown(Created(h, nd).heap)
  PROVE  ~Thrown(h)
BY DEF Created, Try

\* One more union on top of the last one, with a child of a node that is held.
LEMMA NextUnionSound ==
  ASSUME NEW h, NEW ext, NEW m, Sound(h, ext, {m}),
         m \in Addresses(h) \ Free(h), h.ref[m] = 0,
         NEW n \in Addresses(h), ext[n] >= 1, ~IsOutput(h, n),
         NEW c, c = Created(h, UnionNode(h.node[n].left, m)), ~Thrown(c.heap)
  PROVE  /\ Sound(c.heap, Padded(ext, Addresses(c.heap)), {c.node})
         /\ Places(h, c.heap, c.node, UnionNode(h.node[n].left, m))
<1> DEFINE l == h.node[n].left
           nd == UnionNode(l, m)
<1>1. WellFormed(h) /\ n \notin Free(h)
  BY HeldIsProtected DEF Sound, Accounted
<1>2. l \in Addresses(h)
  BY <1>1, NotOutput
<1>3. Protected(h, ext, l) /\ Protected(h, ext, m)
  BY <1>1, <1>2, ChildIsProtected DEF Protected
<1>4. nd.left = l /\ nd.right = m
  BY DEF UnionNode
<1>5. Buildable(h, nd)
  BY <1>1, <1>2, UnionIsBuildable
<1> HIDE DEF l, nd
<1>6. /\ Sound(c.heap, Padded(ext, Addresses(c.heap)), ({m} \ {l, m}) \cup {c.node})
      /\ Places(h, c.heap, c.node, nd)
  <2>1. c = Created(h, nd)
    BY DEF nd, l
  <2> QED
    BY <1>3, <1>4, <1>5, <2>1, CreateSound
<1>7. ({m} \ {l, m}) \cup {c.node} = {c.node}
  OBVIOUS
<1> QED
  BY <1>6, <1>7 DEF nd, l

LEMMA UnionOfNonOutputsSound ==
  ASSUME NEW h, NEW ext, NEW n1, NEW n2, Sound(h, ext, {}),
         n1 \in Addresses(h), ext[n1] >= 1,
         n2 \in Addresses(h), ext[n2] >= 1,
         ~IsOutput(h, n1), ~IsOutput(h, n2),
         NEW u, u = CreateUnion(h, n1, n2), ~Thrown(u.heap)
  PROVE  GivesUnion(h, ext, u)
<1> DEFINE u1 == Created(h, UnionNode(h.node[n1].right, h.node[n2].right))
           u2 == Created(u1.heap, UnionNode(h.node[n2].left, u1.node))
           A1 == Addresses(u1.heap)
           A2 == Addresses(u2.heap)
           ext1 == Padded(ext, A1)
           ext2 == Padded(ext, A2)
<1>1. u = Created(u2.heap, UnionNode(h.node[n1].left, u2.node))
  BY DEF CreateUnion, UnionOfNonOutputs
<1>2. ~Thrown(u2.heap) /\ ~Thrown(u1.heap) /\ ~Thrown(h)
  BY <1>1, NotThrownBefore
<1>3. WellFormed(h) /\ ext \in [Addresses(h) -> Nat]
  BY DEF Sound, Accounted
<1>4. \A x \in Addresses(h) : ext[x] >= 1 => x \notin Free(h)
  BY HeldIsProtected
<1>5. Sound(u1.heap, ext1, {u1.node}) /\ \E nd : Places(h, u1.heap, u1.node, nd)
  <2> DEFINE l == h.node[n1].right
             r == h.node[n2].right
             nd == UnionNode(l, r)
  <2>1. l \in Addresses(h) /\ r \in Addresses(h)
    BY <1>3, NotOutput
  <2>2. Protected(h, ext, l) /\ Protected(h, ext, r)
    BY <1>4, <2>1, ChildIsProtected
  <2>3. nd.left = l /\ nd.right = r
    BY DEF UnionNode
  <2>4. Buildable(h, nd)
    BY <1>3, <2>1, UnionIsBuildable
  <2> HIDE DEF nd
  <2>5. /\ Sound(u1.heap, ext1, ({} \ {l, r}) \cup {u1.node})
        /\ Places(h, u1.heap, u1.node, nd)
    <3>1. u1 = Created(h, nd)
      BY DEF nd
    <3> HIDE DEF u1, l, r
    <3> QED
      BY <1>2, <2>2, <2>3, <2>4, <3>1, CreateSound
  <2>6. ({} \ {l, r}) \cup {u1.node} = {u1.node}
    OBVIOUS
  <2> QED
    BY <2>5, <2>6
<1> HIDE DEF u1
<1>6. /\ Addresses(h) \subseteq A1 /\ u1.node \in A1 \ Free(u1.heap)
      /\ u1.heap.ref[u1.node] = 0
      /\ \A x \in Addresses(h) : ext[x] >= 1 =>
           x # u1.node /\ ext1[x] = ext[x] /\ u1.heap.node[x] = h.node[x]
  <2>1. PICK nd : Places(h, u1.heap, u1.node, nd)
    BY <1>5
  <2>2. \A x \in Addresses(h) : ext1[x] = ext[x]
    BY <1>3, <2>1, PaddedAgain DEF Places
  <2> QED
    BY <1>4, <2>1, <2>2 DEF Places
<1>7. Sound(u2.heap, ext2, {u2.node}) /\ \E nd : Places(u1.heap, u2.heap, u2.node, nd)
  <2> DEFINE E == Padded(ext1, A2)
             l == u1.heap.node[n2].left
  <2>1. l = h.node[n2].left /\ ext1[n2] >= 1 /\ ~IsOutput(u1.heap, n2)
    BY <1>6 DEF IsOutput
  <2>2. u2 = Created(u1.heap, UnionNode(l, u1.node))
    BY <2>1
  <2> HIDE DEF u2, l, ext1
  <2>3. Sound(u2.heap, E, {u2.node}) /\ \E nd : Places(u1.heap, u2.heap, u2.node, nd)
    BY <1>2, <1>5, <1>6, <2>1, <2>2, NextUnionSound DEF l
  <2>4. E = ext2
    BY <1>3, <1>6, PaddedTwice DEF ext1
  <2> QED
    BY <2>3, <2>4
<1> HIDE DEF u2
<1>8. /\ A1 \subseteq A2 /\ u2.node \in A2 \ Free(u2.heap)
      /\ u2.heap.ref[u2.node] = 0
      /\ \A x \in Addresses(h) : ext[x] >= 1 =>
           x # u2.node /\ ext2[x] = ext[x] /\ u2.heap.node[x] = h.node[x]
  <2>1. PICK nd : Places(u1.heap, u2.heap, u2.node, nd)
    BY <1>7
  <2>2. \A x \in Addresses(h) : ext2[x] = ext[x]
    BY <1>3, <1>6, <2>1, PaddedAgain DEF Places
  <2>3. \A x \in Addresses(h) : ext[x] >= 1 => x \notin Free(u1.heap)
    BY <1>5, <1>6, HeldIsProtected
  <2> QED
    BY <1>6, <2>1, <2>2, <2>3 DEF Places
<1>9. /\ Sound(u.heap, Padded(ext, Addresses(u.heap)), {u.node})
      /\ \E nd : Places(u2.heap, u.heap, u.node, nd)
  <2> DEFINE E == Padded(ext2, Addresses(u.heap))
             l == u2.heap.node[n1].left
  <2>1. l = h.node[n1].left /\ ext2[n1] >= 1 /\ ~IsOutput(u2.heap, n1)
    BY <1>8 DEF IsOutput
  <2>2. u = Created(u2.heap, UnionNode(l, u2.node))
    BY <1>1, <2>1
  <2> HIDE DEF l, ext2
  <2>3. Sound(u.heap, E, {u.node}) /\ \E nd : Places(u2.heap, u.heap, u.node, nd)
    BY <1>2, <1>6, <1>7, <1>8, <2>1, <2>2, NextUnionSound, SMTT(30) DEF l
  <2>4. E = Padded(ext, Addresses(u.heap))
    BY <1>3, <1>6, <1>8, PaddedTwice DEF ext2
  <2> QED
    BY <2>3, <2>4
<1>10. \A x \in Addresses(h) : ext[x] >= 1 => x \notin Free(u2.heap)
  BY <1>6, <1>7, <1>8, HeldIsProtected
<1> QED
  BY <1>2, <1>6, <1>8, <1>9, <1>10 DEF GivesUnion, Places

----------------------------------------------------------------------------
(***************************************************************************)
(* The two halves of the automaton.                                        *)
(***************************************************************************)
LEMMA TransitionsChangeHalf ==
  ASSUME NEW q \in Queries, NEW w, w = CleanForDeterminization(q.va)
  PROVE  /\ w.initial = <<q.va.initial, 0>> /\ w.accepting = <<q.va.accepting, 0>>
         /\ w.initial # w.accepting
         /\ \A t \in w.reads :
              /\ t.from[2] = 0 => t.to[2] = 1 \/ t.to = w.accepting
              /\ t.from[2] = 1 => t.to[2] = 0
              /\ t.code # {} => {t.code} \X (0..MaxDocument + 1) \subseteq Labels
<1> DEFINE loop == Read(q.va.initial, Characters, {}, q.va.initial)
           v == AddLoopToInitialState(q.va)
           Twice == {Read(<<t.from, 1>>, t.chars, t.code, <<t.to, 0>>) : t \in v.reads}
           Other(t) == Read(<<t.from, 0>>, t.chars, t.code,
                            <<t.to, IF t.to = v.accepting THEN 0 ELSE 1>>)
           Once == {Other(t) : t \in v.reads}
<1>1. /\ v.initial = q.va.initial /\ v.accepting = q.va.accepting
      /\ v.initial # v.accepting
      /\ v.reads = q.va.reads \cup {loop}
  BY QueriesAssumption DEF AddLoopToInitialState
<1>2. \A t \in v.reads :
        t.code # {} => {t.code} \X (0..MaxDocument + 1) \subseteq Labels
  <2>1. loop.code = {}
    BY DEF Read
  <2> QED
    BY <1>1, <2>1, LabelsAssumption
<1> HIDE DEF v
<1>3. /\ w.initial = <<v.initial, 0>> /\ w.accepting = <<v.accepting, 0>>
      /\ w.reads \subseteq Twice \cup Once
  BY DEF CleanForDeterminization, Duplicate, Trim, v
<1>4. ASSUME NEW t \in Twice
      PROVE  /\ t.from[2] = 1 /\ t.to[2] = 0
             /\ t.code # {} => {t.code} \X (0..MaxDocument + 1) \subseteq Labels
  BY <1>2 DEF Read
<1>5. ASSUME NEW t \in Once
      PROVE  /\ t.from[2] = 0 /\ (t.to[2] = 1 \/ t.to = <<v.accepting, 0>>)
             /\ t.code # {} => {t.code} \X (0..MaxDocument + 1) \subseteq Labels
  BY <1>2 DEF Read
<1> HIDE DEF Twice, Once
<1>6. w.initial # w.accepting
  BY <1>1, <1>3
<1>7. ASSUME NEW t \in w.reads
      PROVE  /\ t.from[2] = 0 => t.to[2] = 1 \/ t.to = w.accepting
             /\ t.from[2] = 1 => t.to[2] = 0
             /\ t.code # {} => {t.code} \X (0..MaxDocument + 1) \subseteq Labels
  <2>1. CASE t \in Twice
    <3>1. t.from[2] # 0
      BY <1>4, <2>1
    <3> QED
      BY <1>4, <2>1, <3>1
  <2>2. CASE t \in Once
    <3>1. t.from[2] # 1
      BY <1>5, <2>2
    <3> QED
      BY <1>3, <1>5, <2>2, <3>1
  <2> QED
    BY <1>3, <2>1, <2>2
<1> QED
  BY <1>1, <1>3, <1>6, <1>7

\* The states reached from one half are of the other, or accepting.
LEMMA NextStatesChangeHalf ==
  ASSUME Typed, NEW half \in {0, 1}, NEW D, GoesOn(half, D),
         NEW a, NEW p \in NextStates(va, D, a)
  PROVE  /\ GoesOn(1 - half, p[2]) \/ IsAccepting(va, p[2])
         /\ p[1] # {} => \A i \in 0..MaxDocument + 1 : <<p[1], i>> \in Labels
<1>1. query \in Queries /\ va = CleanForDeterminization(query.va)
  BY DEF Typed
<1>2. \A t \in va.reads :
        /\ t.from[2] = 0 => t.to[2] = 1 \/ t.to = va.accepting
        /\ t.from[2] = 1 => t.to[2] = 0
        /\ t.code # {} => {t.code} \X (0..MaxDocument + 1) \subseteq Labels
  BY <1>1, TransitionsChangeHalf
<1> DEFINE taken2 == {t \in va.reads : t.from \in D /\ a \in t.chars}
<1>3. PICK u \in taken2 : p = <<u.code, {t.to : t \in {r \in taken2 : r.code = u.code}}>>
  BY DEF NextStates
<1>4. p[1] = u.code /\ p[2] = {t.to : t \in {r \in taken2 : r.code = u.code}}
  BY <1>3
<1>5. p[2] # {} /\ \A s \in p[2] : \E t \in va.reads : t.from \in D /\ s = t.to
  BY <1>4
<1>6. \A s \in D : s[2] = half
  BY DEF GoesOn, InHalf
<1>7. \A s \in p[2] : s[2] = 1 - half \/ s = va.accepting
  <2>1. SUFFICES ASSUME NEW t \in va.reads, t.from \in D
                 PROVE  t.to[2] = 1 - half \/ t.to = va.accepting
    BY <1>5
  <2>2. t.from[2] = half
    BY <1>6, <2>1
  <2> QED
    BY <1>2, <2>2
<1> QED
  BY <1>2, <1>4, <1>5, <1>7 DEF GoesOn, InHalf, IsAccepting

----------------------------------------------------------------------------
(***************************************************************************)
(* The references of the lists that are alive and of the root.             *)
(***************************************************************************)
References(f, c, x, l, r, n) == Holds(f, c, n) + Holds(f, x, n) + Holds(f, l, n) + One(r, n)

LEMMA HoldersSum ==
  /\ \A n : Holders(n) = References(node, current, next, final, root, n)
  /\ \A n : Holders(n)' = References(node', current', next', final', root', n)
BY DEF Holders, References, Holds, HeldAt, One

LEMMA HeldSum ==
  /\ Held = [n \in Addresses(heap) |-> References(node, current, next, final, root, n)]
  /\ Held' = [n \in Addresses(heap') |-> References(node', current', next', final', root', n)]
BY HoldersSum DEF Held

LEMMA SumIsNat ==
  ASSUME NEW T, NEW c \in Seq(T), NEW x \in Seq(T), NEW l \in Seq(T), NEW f, NEW r, NEW n
  PROVE  /\ Holds(f, c, n) \in Nat /\ Holds(f, x, n) \in Nat /\ Holds(f, l, n) \in Nat
         /\ One(r, n) \in Nat
         /\ References(f, c, x, l, r, n) \in Nat
<1>1. Holds(f, c, n) \in Nat /\ Holds(f, x, n) \in Nat /\ Holds(f, l, n) \in Nat
  BY HoldsIsNat
<1>2. One(r, n) \in Nat
  BY DEF One
<1> QED
  BY <1>1, <1>2 DEF References

LEMMA MemberHolds ==
  ASSUME NEW T, NEW S \in Seq(T), NEW f, NEW D \in ToSet(S)
  PROVE  Holds(f, S, f[D]) >= 1
<1>1. PICK k \in DOMAIN S : S[k] = D
  BY DEF ToSet
<1>2. k \in HeldAt(f, S, f[D])
  BY <1>1 DEF HeldAt
<1>3. IsFiniteSet(HeldAt(f, S, f[D])) /\ Cardinality(HeldAt(f, S, f[D])) \in Nat
  BY HoldsIsNat, FS_CardinalityType
<1>4. Cardinality(HeldAt(f, S, f[D])) # 0
  BY <1>2, <1>3, FS_EmptySet
<1> QED
  BY <1>3, <1>4 DEF Holds

\* A state that is alive has its node, and so has the enumeration.
LEMMA AliveIsHeld ==
  ASSUME RunTyped, HeapIsHeld
  PROVE  /\ Held \in [Addresses(heap) -> Nat]
         /\ \A D \in Alive : node[D] \in Addresses(heap) /\ Held[node[D]] >= 1
         /\ root # Null => root \in Addresses(heap) /\ Held[root] >= 1
<1>1. /\ current \in Seq(DOMAIN node) /\ next \in Seq(DOMAIN node)
      /\ final \in Seq(DOMAIN node)
  BY DEF RunTyped
<1>2. \A n : /\ Holds(node, current, n) \in Nat /\ Holds(node, next, n) \in Nat
             /\ Holds(node, final, n) \in Nat /\ One(root, n) \in Nat
             /\ References(node, current, next, final, root, n) \in Nat
  BY <1>1, SumIsNat
<1>3. /\ \A n \in Addresses(heap) : Held[n] = References(node, current, next, final, root, n)
      /\ Held \in [Addresses(heap) -> Nat]
  BY <1>2, HeldSum
<1>4. ASSUME NEW D \in Alive
      PROVE  node[D] \in Addresses(heap) /\ Held[node[D]] >= 1
  <2>1. node[D] \in Addresses(heap)
    BY DEF HeapIsHeld
  <2>2. \/ Holds(node, current, node[D]) >= 1 \/ Holds(node, next, node[D]) >= 1
        \/ Holds(node, final, node[D]) >= 1
    <3>1. D \in ToSet(current) \/ D \in ToSet(next) \/ D \in ToSet(final)
      BY DEF Alive, Pending
    <3> QED
      BY <1>1, <3>1, MemberHolds
  <2>3. References(node, current, next, final, root, node[D]) >= 1
    BY <1>2, <2>2 DEF References
  <2> QED
    BY <1>3, <2>1, <2>3
<1>5. ASSUME root # Null
      PROVE  root \in Addresses(heap) /\ Held[root] >= 1
  <2>1. root \in Addresses(heap)
    BY <1>5 DEF HeapIsHeld
  <2>2. References(node, current, next, final, root, root) >= 1
    BY <1>2 DEF References, One
  <2> QED
    BY <1>3, <2>1, <2>2
<1> QED
  BY <1>3, <1>4, <1>5

LEMMA NothingElseIsHeld ==
  ASSUME RunTyped, HeapIsHeld, NEW n, n \notin Addresses(heap), n # Null
  PROVE  References(node, current, next, final, root, n) = 0
<1>1. ASSUME NEW S, ToSet(S) \subseteq Alive
      PROVE  Holds(node, S, n) = 0
  <2>1. HeldAt(node, S, n) = {}
    BY <1>1 DEF HeldAt, HeapIsHeld, ToSet
  <2> QED
    BY <2>1, FS_EmptySet DEF Holds
<1>2. /\ Holds(node, current, n) = 0 /\ Holds(node, next, n) = 0
      /\ Holds(node, final, n) = 0
  BY <1>1 DEF Alive, Pending
<1>3. One(root, n) = 0
  BY DEF One, HeapIsHeld
<1> QED
  BY <1>2, <1>3 DEF References

\* What the references of the state lists are, at any address of a later heap.
LEMMA PaddedHeld ==
  ASSUME RunTyped, HeapIsHeld, NEW A, Addresses(heap) \subseteq A, Null \notin A
  PROVE  Padded(Held, A) = [n \in A |-> References(node, current, next, final, root, n)]
<1>1. DOMAIN Held = Addresses(heap)
  BY DEF Held
<1>2. \A n \in A : n \notin Addresses(heap) =>
        References(node, current, next, final, root, n) = 0
  BY NothingElseIsHeld
<1>3. \A n \in Addresses(heap) : Held[n] = References(node, current, next, final, root, n)
  BY HeldSum
<1> QED
  BY <1>1, <1>2, <1>3 DEF Padded

----------------------------------------------------------------------------
(***************************************************************************)
(* The node that is handed on, and what becomes of it.                     *)
(***************************************************************************)
\* A state is visited and one of its successors is next.
Hands(p) == Visiting /\ pairs # Unknown /\ p \in pairs

LEMMA VisitedIsAlive ==
  ASSUME RunTyped, Visiting
  PROVE  /\ Visited \in ToSet(current) /\ Visited \in Alive
         /\ Visited \in DOMAIN node
         /\ Tail(current) \in Seq(DOMAIN node)
         /\ ToSet(Tail(current)) \subseteq ToSet(current)
<1>1. current \in Seq(DOMAIN node) /\ current # << >>
  BY DEF RunTyped, Visiting
<1>2. Visited = current[1] /\ 1 \in DOMAIN current
  BY <1>1 DEF Visited
<1>3. /\ Tail(current) \in Seq(DOMAIN node)
      /\ \A i \in DOMAIN Tail(current) :
           i + 1 \in DOMAIN current /\ Tail(current)[i] = current[i + 1]
  BY <1>1
<1> QED
  BY <1>1, <1>2, <1>3 DEF ToSet, Alive

\* The half a visited state is in, and what its successors are.
LEMMA SuccessorFacts ==
  ASSUME Typed, RunTyped, NEW half \in {0, 1}, Apart(half), NEW p, Hands(p)
  PROVE  /\ p[2] \in DOMAIN node
         /\ GoesOn(1 - half, p[2]) \/ IsAccepting(va, p[2])
         /\ ~GoesOn(half, p[2])
         /\ p[1] # {} => <<p[1], pos>> \in Labels
<1>1. /\ p \in NextStates(va, Visited, char) /\ p[2] \in DOMAIN node
      /\ GoesOn(half, Visited)
  BY VisitedIsAlive DEF Hands, RunTyped, Apart, Visiting, Visited
<1>2. /\ GoesOn(1 - half, p[2]) \/ IsAccepting(va, p[2])
      /\ p[1] # {} => \A i \in 0..MaxDocument + 1 : <<p[1], i>> \in Labels
  BY <1>1, NextStatesChangeHalf
<1>3. pos \in 0..MaxDocument + 1
  <2>1. mode = "start" \/ mode = "read"
    BY DEF Hands, Visiting
  <2> QED
    BY <2>1, DocumentSizeAssumption DEF RunTyped
<1>4. ~GoesOn(half, p[2])
  BY <1>2 DEF GoesOn, InHalf
<1> QED
  BY <1>1, <1>2, <1>3, <1>4

\* The node handed on: one that is held, or a new label node that is not yet.
GivesHanded(p) ==
  LET g == Handed(p).heap
      m == Handed(p).node
      ext == Padded(Held, Addresses(g))
  IN  /\ ~Thrown(heap)
      /\ Addresses(heap) \subseteq Addresses(g)
      /\ Sound(g, ext, {m})
      /\ m \in Addresses(g) \ Free(g)
      /\ ext[m] >= 1 \/ g.ref[m] = 0
      /\ IsOutput(g, m) \/ (g = heap /\ ext[m] >= 1)

LEMMA HandedGives ==
  ASSUME Typed, Running, NEW p, Hands(p), ~Thrown(Handed(p).heap)
  PROVE  GivesHanded(p)
<1> DEFINE g == Handed(p).heap
           m == Handed(p).node
           n == node[Visited]
           ext == Padded(Held, Addresses(g))
<1>1. RunTyped /\ HeapIsHeld /\ Visiting
  BY DEF Running, Hands
<1>2. /\ ~Thrown(heap) /\ Sound(heap, Held, {})
      /\ n \in Addresses(heap) /\ Held[n] >= 1 /\ Held \in [Addresses(heap) -> Nat]
  BY <1>1, AliveIsHeld, VisitedIsAlive DEF HeapIsHeld
<1>3. WellFormed(heap) /\ n \notin Free(heap) /\ Protected(heap, Held, n)
  BY <1>2, HeldIsProtected DEF Sound, Accounted
<1>4. CASE p[1] = {}
  <2>1. g = heap /\ m = n
    BY <1>4 DEF Handed
  <2>2. ext = Held
    BY <1>2, <2>1 DEF Padded
  <2>3. Sound(heap, Held, {n})
    BY <1>2 DEF Sound
  <2> HIDE DEF ext, g, m, n
  <2>4. /\ Addresses(heap) \subseteq Addresses(g) /\ Sound(g, ext, {m})
        /\ m \in Addresses(g) \ Free(g)
        /\ ext[m] >= 1 /\ g = heap
    BY <1>2, <1>3, <2>1, <2>2, <2>3
  <2> QED
    BY <1>2, <2>4 DEF GivesHanded, ext, g, m
<1>5. CASE p[1] # {}
  <2> DEFINE l == <<p[1], pos>>
             nd == LabelNode(n, l)
  <2>1. Handed(p) = Created(heap, nd)
    BY <1>5 DEF Handed, CreateExtend
  <2>2. l \in Labels
    <3>1. PICK half \in {0, 1} : Apart(half)
      BY DEF Running
    <3> QED
      BY <1>1, <1>5, <3>1, SuccessorFacts
  <2>3. /\ nd \in Node /\ nd.left = n /\ nd.right = Null
        /\ nd.kind = "label"
    <3>1. n \in Nat
      BY <1>2, <1>3, AddressesAreNat DEF WellFormed
    <3> HIDE DEF l, n
    <3> QED
      BY <2>2, <3>1 DEF LabelNode, Node, Kinds, Null
  <2>4. Buildable(heap, nd)
    BY <1>2, <2>3 DEF Buildable
  <2> HIDE DEF l, nd, n, ext, g, m
  <2>5. /\ Sound(g, ext, ({} \ {nd.left, nd.right}) \cup {m})
        /\ Places(heap, g, m, nd)
    BY <1>2, <1>3, <2>1, <2>3, <2>4, CreateSound DEF g, m, ext
  <2>6. ({} \ {nd.left, nd.right}) \cup {m} = {m}
    OBVIOUS
  <2>7. /\ Addresses(heap) \subseteq Addresses(g) /\ Sound(g, ext, {m})
        /\ m \in Addresses(g) \ Free(g) /\ g.ref[m] = 0 /\ IsOutput(g, m)
    BY <2>3, <2>5, <2>6 DEF Places, IsOutput
  <2> QED
    BY <1>2, <2>7 DEF GivesHanded, ext, g, m
<1> QED
  BY <1>4, <1>5

\* What update_output_nodes does: D has the new node, and has given up the one
\* it had if it had one already.
GivesUpdate(D, u) ==
  /\ ~Thrown(u.heap)
  /\ Addresses(heap) \subseteq Addresses(u.heap)
  /\ u.node \in Addresses(u.heap)
  /\ \E ext \in [Addresses(u.heap) -> Nat] :
       /\ Sound(u.heap, ext, {})
       /\ \A x \in Addresses(u.heap) :
            ext[x] + (IF Fresh(D) THEN 0 ELSE One(node[D], x))
              = Padded(Held, Addresses(u.heap))[x] + One(u.node, x)

LEMMA ThisUpdates ==
  ASSUME NEW D, NEW u, ~Thrown(u.heap),
         Addresses(heap) \subseteq Addresses(u.heap), u.node \in Addresses(u.heap),
         NEW ext, ext \in [Addresses(u.heap) -> Nat], Sound(u.heap, ext, {}),
         \A x \in Addresses(u.heap) :
           ext[x] + (IF Fresh(D) THEN 0 ELSE One(node[D], x))
             = Padded(Held, Addresses(u.heap))[x] + One(u.node, x)
  PROVE  GivesUpdate(D, u)
BY DEF GivesUpdate

\* The first node handed to a state.
LEMMA FreshGives ==
  ASSUME RunTyped, HeapIsHeld, NEW p, GivesHanded(p), ~Thrown(Handed(p).heap),
         Fresh(p[2]),
         NEW u, u = [heap |-> Pin(Handed(p).heap, Handed(p).node), node |-> Handed(p).node]
  PROVE  GivesUpdate(p[2], u)
<1> DEFINE g == Handed(p).heap
           m == Handed(p).node
           A == Addresses(g)
           ext == Padded(Held, A)
<1>1. /\ Addresses(heap) \subseteq A /\ Sound(g, ext, {m})
      /\ m \in A \ Free(g) /\ ~Thrown(g)
  BY DEF GivesHanded
<1>2. ext \in [A -> Nat]
  BY <1>1 DEF Sound, Accounted
<1>3. Plus(ext, m) \in [A -> Nat] /\ \A x \in A : Plus(ext, m)[x] = ext[x] + One(m, x)
  BY <1>2 DEF One, Plus
<1>4. u.heap = Pin(g, m) /\ u.node = m
  OBVIOUS
<1> HIDE DEF g, m, ext
<1>5. Sound(u.heap, Plus(ext, m), {m} \ {m}) /\ ~Thrown(u.heap) /\ u.heap.node = g.node
  BY <1>1, <1>4, PinSound
<1>6. Addresses(u.heap) = A /\ {m} \ {m} = {}
  BY <1>5 DEF Addresses
<1> HIDE DEF A
<1>7. /\ Plus(ext, m) \in [Addresses(u.heap) -> Nat]
      /\ Sound(u.heap, Plus(ext, m), {})
      /\ u.node \in Addresses(u.heap)
  BY <1>1, <1>3, <1>4, <1>5, <1>6
<1>8. Padded(Held, Addresses(u.heap)) = ext
  BY <1>6 DEF ext, A
<1>9. ASSUME NEW x \in Addresses(u.heap)
      PROVE  Plus(ext, m)[x] + (IF Fresh(p[2]) THEN 0 ELSE One(node[p[2]], x))
               = ext[x] + One(u.node, x)
  BY <1>3, <1>4, <1>6, <1>7, <1>9
<1>10. Addresses(heap) \subseteq Addresses(u.heap)
  BY <1>1, <1>6
<1> HIDE DEF Fresh
<1> QED
  BY <1>5, <1>7, <1>8, <1>9, <1>10, ThisUpdates

\* A later one, in FinditerAlgorithm: the two are joined, and the state has the
\* union in place of the node it had.
LEMMA JoinedGives ==
  ASSUME RunTyped, HeapIsHeld, NEW p, GivesHanded(p), ~Thrown(Handed(p).heap),
         ~Fresh(p[2]), node[p[2]] \in Addresses(heap), Held[node[p[2]]] >= 1,
         NEW u, u = Update(p[2], Handed(p)), ~Thrown(u.heap)
  PROVE  GivesUpdate(p[2], u)
<1> DEFINE g == Handed(p).heap
           m == Handed(p).node
           n == node[p[2]]
           w == CreateUnion(g, n, m)
           h == Unpin(w.heap, n)
           ext == Padded(Held, Addresses(g))
           ext1 == Padded(ext, Addresses(w.heap))
           ext2 == Minus(ext1, n)
           ext3 == Plus(ext2, w.node)
<1>1. /\ u.heap = Pin(h, w.node) /\ u.node = w.node
      /\ ~Thrown(w.heap)
  <2>1. u = [heap |-> Pin(h, w.node), node |-> w.node]
    BY DEF Update, Joined
  <2> HIDE DEF w
  <2>2. ~Thrown(h) /\ ~Thrown(w.heap)
    BY <2>1 DEF Pin, Unpin
  <2> QED
    BY <2>1, <2>2
<1>2. /\ Addresses(heap) \subseteq Addresses(g) /\ Sound(g, ext, {m})
      /\ m \in Addresses(g) \ Free(g)
      /\ ext[m] >= 1 \/ g.ref[m] = 0
      /\ IsOutput(g, m) \/ (g = heap /\ ext[m] >= 1)
  BY DEF GivesHanded
<1>3. /\ n \in Addresses(g) /\ ext[n] >= 1 /\ ext \in [Addresses(g) -> Nat]
      /\ DOMAIN Held \subseteq Addresses(g)
  BY <1>2 DEF Padded, Held, Sound, Accounted
<1>4. GivesUnion(g, ext, w)
  <2>1. CASE IsOutput(g, n) \/ IsOutput(g, m)
    <3>1. w = CreateUnion(g, n, m)
      OBVIOUS
    <3> HIDE DEF g, m, n, w, ext
    <3> QED
      BY <1>1, <1>2, <1>3, <2>1, <3>1, UnionOfOutputSound
  <2>2. CASE ~IsOutput(g, n) /\ ~IsOutput(g, m)
    <3>1. g = heap /\ ext[m] >= 1
      BY <1>2, <2>2
    <3>2. ext = Held
      BY <3>1 DEF Padded, Held
    <3>3. Sound(g, ext, {})
      BY <3>1, <3>2 DEF HeapIsHeld
    <3>4. m \in Addresses(g)
      BY <1>2
    <3>5. w = CreateUnion(g, n, m)
      OBVIOUS
    <3> HIDE DEF g, m, n, w, ext
    <3> QED
      BY <1>1, <1>3, <2>2, <3>1, <3>3, <3>4, <3>5, UnionOfNonOutputsSound
  <2> QED
    BY <2>1, <2>2
<1> HIDE DEF g, m, n, w, ext, h
<1>5. /\ Sound(w.heap, ext1, {w.node})
      /\ Addresses(g) \subseteq Addresses(w.heap)
      /\ w.node \in Addresses(w.heap) \ Free(w.heap)
      /\ w.node # n
  BY <1>3, <1>4 DEF GivesUnion
<1>6. n \in Addresses(w.heap) /\ ext1[n] >= 1 /\ ext1 \in [Addresses(w.heap) -> Nat]
  BY <1>3, <1>5, PaddedAgain
<1>7. ext1 = Padded(Held, Addresses(w.heap))
  BY <1>3, PaddedTwice DEF ext
<1> HIDE DEF ext1
<1>8. /\ Sound(h, ext2, {w.node}) /\ ~Thrown(h) /\ h.node = w.heap.node
      /\ Free(h) \subseteq Free(w.heap) \cup {n}
  BY <1>1, <1>5, <1>6, UnpinSound DEF h
<1>9. w.node \in Addresses(h) \ Free(h) /\ Addresses(h) = Addresses(w.heap)
  BY <1>5, <1>8 DEF Addresses
<1> HIDE DEF ext2
<1>10. /\ Sound(u.heap, ext3, {w.node} \ {w.node}) /\ ~Thrown(u.heap)
       /\ u.heap.node = h.node
  BY <1>1, <1>8, <1>9, PinSound
<1>11. Addresses(u.heap) = Addresses(w.heap) /\ {w.node} \ {w.node} = {}
  BY <1>9, <1>10 DEF Addresses
<1>12. /\ ext3 \in [Addresses(w.heap) -> Nat] /\ Sound(u.heap, ext3, {})
  BY <1>10, <1>11 DEF Sound, Accounted
<1>13. ASSUME NEW x \in Addresses(w.heap)
       PROVE  ext3[x] + One(n, x) = ext1[x] + One(w.node, x)
  <2>1. ext2 \in [Addresses(w.heap) -> Nat]
    BY <1>8, <1>9 DEF Sound, Accounted
  <2>2. ext2[x] = ext1[x] - One(n, x)
    BY <1>6, <1>13 DEF Minus, ext2
  <2>3. ext3[x] = ext2[x] + One(w.node, x)
    BY <1>13, <2>1 DEF Plus
  <2>4. ext1[x] \in Nat /\ One(n, x) \in Nat /\ One(w.node, x) \in Nat
    BY <1>6, <1>13 DEF One
  <2> QED
    BY <2>2, <2>3, <2>4
<1> HIDE DEF ext3
<1>14. Addresses(heap) \subseteq Addresses(u.heap) /\ u.node \in Addresses(u.heap)
  BY <1>1, <1>2, <1>5, <1>11
<1>15. ASSUME NEW x \in Addresses(u.heap)
       PROVE  ext3[x] + (IF Fresh(p[2]) THEN 0 ELSE One(node[p[2]], x))
                = Padded(Held, Addresses(u.heap))[x] + One(u.node, x)
  BY <1>1, <1>7, <1>11, <1>13, <1>15 DEF n
<1> HIDE DEF Fresh
<1>16. ext3 \in [Addresses(u.heap) -> Nat]
  BY <1>11, <1>12
<1> QED
  BY <1>10, <1>12, <1>14, <1>15, <1>16, ThisUpdates

\* A later one, in FindoneAlgorithm: it is given up.
LEMMA KeptGives ==
  ASSUME RunTyped, HeapIsHeld, NEW p, GivesHanded(p), ~Thrown(Handed(p).heap),
         ~Fresh(p[2]), node[p[2]] \in Addresses(heap),
         NEW u, u = KeepFirst(p[2], Handed(p))
  PROVE  GivesUpdate(p[2], u)
<1> DEFINE g == Handed(p).heap
           m == Handed(p).node
           n == node[p[2]]
           h == Pin(g, m)
           ext == Padded(Held, Addresses(g))
           ext1 == Plus(ext, m)
           ext2 == Minus(ext1, m)
<1>1. u.heap = Unpin(h, m) /\ u.node = n
  BY DEF KeepFirst
<1>2. /\ Addresses(heap) \subseteq Addresses(g) /\ Sound(g, ext, {m})
      /\ m \in Addresses(g) \ Free(g)
  BY DEF GivesHanded
<1>3. ext \in [Addresses(g) -> Nat]
  BY <1>2 DEF Sound, Accounted
<1> HIDE DEF g, m, n, ext, h
<1>4. Sound(h, ext1, {m} \ {m}) /\ ~Thrown(h) /\ h.node = g.node
  BY <1>2, PinSound DEF g, h
<1>5. Addresses(h) = Addresses(g) /\ {m} \ {m} = {}
  BY <1>4 DEF Addresses
<1>6. \A x \in Addresses(g) : ext1[x] = ext[x] + One(m, x)
  BY <1>3 DEF Plus
<1>7. ext1[m] >= 1
  BY <1>2, <1>3, <1>6 DEF One
<1>8. ext1 \in [Addresses(g) -> Nat] /\ Sound(h, ext1, {})
  BY <1>4, <1>5 DEF Sound, Accounted
<1> HIDE DEF ext1
<1>9. Sound(u.heap, ext2, {}) /\ ~Thrown(u.heap) /\ u.heap.node = h.node
  BY <1>1, <1>2, <1>4, <1>5, <1>7, <1>8, UnpinSound
<1>10. Addresses(u.heap) = Addresses(g)
  BY <1>5, <1>9 DEF Addresses
<1>11. ASSUME NEW x \in Addresses(g)
       PROVE  ext2[x] = ext[x]
  <2>1. ext2[x] = ext1[x] - One(m, x)
    BY <1>8, <1>11 DEF Minus
  <2>2. ext1[x] = ext[x] + One(m, x) /\ ext[x] \in Nat /\ One(m, x) \in Nat
    BY <1>3, <1>6, <1>11 DEF One
  <2> QED
    BY <2>1, <2>2
<1>12. ext2 \in [Addresses(u.heap) -> Nat]
  BY <1>9 DEF Sound, Accounted
<1> HIDE DEF ext2
<1>13. Padded(Held, Addresses(u.heap)) = ext
  BY <1>10 DEF ext
<1>14. ASSUME NEW x \in Addresses(u.heap)
       PROVE  ext2[x] + (IF Fresh(p[2]) THEN 0 ELSE One(node[p[2]], x))
                = ext[x] + One(u.node, x)
  BY <1>1, <1>10, <1>11, <1>14 DEF n
<1> HIDE DEF Fresh
<1>15. Addresses(heap) \subseteq Addresses(u.heap) /\ u.node \in Addresses(u.heap)
  BY <1>1, <1>2, <1>10 DEF n
<1> QED
  BY <1>9, <1>12, <1>13, <1>14, <1>15, ThisUpdates

----------------------------------------------------------------------------
(***************************************************************************)
(* update_sets: a successor is handed its node.                            *)
(***************************************************************************)
LEMMA AppendSet ==
  ASSUME NEW T, NEW S \in Seq(T), NEW D \in T
  PROVE  /\ Append(S, D) \in Seq(T)
         /\ ToSet(Append(S, D)) = ToSet(S) \cup {D}
         /\ IsInjective(S) /\ D \notin ToSet(S) => IsInjective(Append(S, D))
<1> DEFINE k == Len(S) + 1
           R == Append(S, D)
<1>1. /\ R \in Seq(T)
      /\ DOMAIN R = DOMAIN S \cup {k} /\ k \notin DOMAIN S
      /\ R[k] = D
      /\ \A i \in DOMAIN S : R[i] = S[i]
  BY AppendFacts
<1> HIDE DEF k, R
<1>2. ToSet(R) = ToSet(S) \cup {D}
  BY <1>1 DEF ToSet
<1>3. ASSUME IsInjective(S), D \notin ToSet(S)
      PROVE  IsInjective(R)
  BY <1>1, <1>3 DEF ToSet, IsInjective
<1> QED
  BY <1>1, <1>2, <1>3 DEF R

\* A successor is new at this position, or waits already; it is in neither case
\* one of those that are still to be visited.
LEMMA SuccessorWaits ==
  ASSUME Typed, RunTyped, NEW half \in {0, 1}, Apart(half), Phases(half),
         NEW p, Hands(p)
  PROVE  /\ p[2] \notin ToSet(current)
         /\ Fresh(p[2]) => p[2] \notin Pending
         /\ ~Fresh(p[2]) => p[2] \in Pending /\ phase[p[2]] = pos
<1>1. p[2] \in DOMAIN node /\ ~GoesOn(half, p[2])
  BY SuccessorFacts
<1>2. phase[p[2]] \in Int /\ pos \in Nat /\ DOMAIN phase = DOMAIN node
  BY <1>1 DEF RunTyped
<1>3. Visits
  BY DEF Hands, Visiting, Visits
<1>4. p[2] \notin ToSet(current)
  BY <1>1 DEF Apart
<1>5. Fresh(p[2]) => p[2] \notin Pending
  BY <1>2, <1>3 DEF Phases, Fresh
<1>6. ASSUME ~Fresh(p[2])
      PROVE  p[2] \in Pending /\ phase[p[2]] = pos
  <2>1. phase[p[2]] = pos
    BY <1>1, <1>2, <1>6 DEF Phases, Fresh
  <2> QED
    BY <1>1, <1>2, <1>3, <2>1 DEF Phases
<1> QED
  BY <1>4, <1>5, <1>6

\* Whatever of the two algorithms it is.
LEMMA EitherGives ==
  ASSUME Typed, Running, NEW p, Hands(p),
         NEW u, u \in {Update(p[2], Handed(p)), KeepFirst(p[2], Handed(p))},
         ~Thrown(u.heap)
  PROVE  GivesUpdate(p[2], u)
<1> DEFINE g == Handed(p).heap
           m == Handed(p).node
<1>1. RunTyped /\ HeapIsHeld
  BY DEF Running
<1>2. ~Thrown(g)
  <2>1. SUFFICES ASSUME Thrown(g) PROVE FALSE
    OBVIOUS
  <2>2. Pin(g, m) = g /\ Unpin(g, m) = g /\ Unpin(g, node[p[2]]) = g
    BY <2>1 DEF Pin, Unpin
  <2>3. Joined(p[2], Handed(p)) = Handed(p)
    BY <2>1 DEF Joined
  <2>4. u.heap = g
    BY <2>2, <2>3 DEF Update, KeepFirst
  <2> QED
    BY <2>1, <2>4
<1>3. GivesHanded(p)
  BY <1>2, HandedGives
<1>4. CASE Fresh(p[2])
  <2>1. u = [heap |-> Pin(g, m), node |-> m]
    BY <1>4 DEF Update, KeepFirst
  <2> QED
    BY <1>1, <1>2, <1>3, <1>4, <2>1, FreshGives
<1>5. CASE ~Fresh(p[2])
  <2>1. p[2] \in Alive
    <3>1. PICK half \in {0, 1} : Apart(half) /\ Phases(half)
      BY DEF Running
    <3> QED
      BY <1>1, <1>5, <3>1, SuccessorWaits DEF Alive
  <2>2. node[p[2]] \in Addresses(heap) /\ Held[node[p[2]]] >= 1
    BY <1>1, <2>1, AliveIsHeld
  <2>3. CASE u = Update(p[2], Handed(p))
    BY <1>1, <1>2, <1>3, <1>5, <2>2, <2>3, JoinedGives
  <2>4. CASE u = KeepFirst(p[2], Handed(p))
    BY <1>1, <1>2, <1>3, <1>5, <2>2, <2>4, KeptGives
  <2> QED
    BY <2>3, <2>4
<1> QED
  BY <1>4, <1>5

LEMMA HandsOn ==
  ASSUME Typed, RunTyped, NEW half \in {0, 1}, Apart(half), Phases(half),
         NEW p, NEW u, HandOnAs(p, u)
  PROVE  /\ Hands(p)
         /\ DOMAIN node' = DOMAIN node /\ DOMAIN phase' = DOMAIN node
         /\ node'[p[2]] = u.node
         /\ \A D \in DOMAIN node : D # p[2] => node'[D] = node[D]
         /\ \A D \in DOMAIN node : phase'[D] = IF D = p[2] THEN pos ELSE phase[D]
         /\ next' \in Seq(DOMAIN node) /\ final' \in Seq(DOMAIN node)
         /\ ToSet(next') \cup ToSet(final') = Pending \cup {p[2]}
<1>1. Hands(p)
  BY DEF HandOnAs, Hands, IsNextPair
<1>2. p[2] \in DOMAIN node
  BY <1>1, SuccessorFacts
<1>3. DOMAIN phase = DOMAIN node /\ next \in Seq(DOMAIN node) /\ final \in Seq(DOMAIN node)
  BY DEF RunTyped
<1>4. node' = [node EXCEPT ![p[2]] = u.node]
  BY DEF HandOnAs
<1>5. phase' = [phase EXCEPT ![p[2]] = pos]
  <2>1. phase' = [phase EXCEPT ![p[2]] = IF Fresh(p[2]) THEN pos ELSE @]
    BY DEF HandOnAs
  <2>2. ~Fresh(p[2]) => phase[p[2]] = pos
    BY <1>1, SuccessorWaits
  <2> QED
    BY <2>1, <2>2
<1>6. /\ next' \in Seq(DOMAIN node) /\ final' \in Seq(DOMAIN node)
      /\ ToSet(next') \cup ToSet(final') = Pending \cup {p[2]}
  <2>1. CASE ~Fresh(p[2])
    <3>1. next' = next /\ final' = final
      BY <2>1 DEF HandOnAs
    <3>2. p[2] \in Pending
      BY <1>1, <2>1, SuccessorWaits
    <3> QED
      BY <1>3, <3>1, <3>2 DEF Pending
  <2>2. CASE Fresh(p[2]) /\ IsAccepting(va, p[2])
    <3>1. next' = next /\ final' = Append(final, p[2])
      BY <2>2 DEF HandOnAs
    <3>2. final' \in Seq(DOMAIN node) /\ ToSet(final') = ToSet(final) \cup {p[2]}
      BY <1>2, <1>3, <3>1, AppendSet
    <3> QED
      BY <1>3, <3>1, <3>2 DEF Pending
  <2>3. CASE Fresh(p[2]) /\ ~IsAccepting(va, p[2])
    <3>1. next' = Append(next, p[2]) /\ final' = final
      BY <2>3 DEF HandOnAs
    <3>2. next' \in Seq(DOMAIN node) /\ ToSet(next') = ToSet(next) \cup {p[2]}
      BY <1>2, <1>3, <3>1, AppendSet
    <3> QED
      BY <1>3, <3>1, <3>2 DEF Pending
  <2> QED
    BY <2>1, <2>2, <2>3
<1> QED
  BY <1>1, <1>2, <1>3, <1>4, <1>5, <1>6

LEMMA HoldsMoved ==
  ASSUME NEW f, NEW g, NEW D, AlikeBut(f, g, D),
         NEW S, S \in Seq(DOMAIN f), IsInjective(S), NEW x
  PROVE  /\ D \in ToSet(S) => Holds(g, S, x) + OneAt(f, D, x) = Holds(f, S, x) + OneAt(g, D, x)
         /\ D \notin ToSet(S) => Holds(g, S, x) = Holds(f, S, x)
<1>1. \A i \in DOMAIN S : S[i] # D => g[S[i]] = f[S[i]]
  BY DEF AlikeBut
<1>2. ASSUME D \in ToSet(S)
      PROVE  Holds(g, S, x) + OneAt(f, D, x) = Holds(f, S, x) + OneAt(g, D, x)
  BY <1>2, HoldsOnce
<1>3. ASSUME D \notin ToSet(S)
      PROVE  Holds(g, S, x) = Holds(f, S, x)
  <2>1. \A i \in DOMAIN S : g[S[i]] = f[S[i]]
    BY <1>1, <1>3 DEF ToSet
  <2> QED
    BY <2>1, HoldsSame
<1> QED
  BY <1>2, <1>3

\* The references of the lists follow what becomes of the node.
LEMMA HandOnSum ==
  ASSUME Typed, RunTyped, NEW half \in {0, 1}, Apart(half), Phases(half),
         NEW p, NEW u, HandOnAs(p, u), NEW x
  PROVE  References(node', current', next', final', root', x)
           + (IF Fresh(p[2]) THEN 0 ELSE One(node[p[2]], x))
         = References(node, current, next, final, root, x) + One(u.node, x)
<1> DEFINE D == p[2]
<1>1. /\ Hands(p) /\ DOMAIN node' = DOMAIN node /\ node'[D] = u.node
      /\ \A E \in DOMAIN node : E # D => node'[E] = node[E]
  BY HandsOn
<1>2. /\ current \in Seq(DOMAIN node) /\ next \in Seq(DOMAIN node)
      /\ final \in Seq(DOMAIN node) /\ D \in DOMAIN node
  BY <1>1, SuccessorFacts DEF RunTyped
<1>3. /\ D \notin ToSet(current)
      /\ Fresh(D) => D \notin Pending
      /\ ~Fresh(D) => D \in Pending
  BY <1>1, SuccessorWaits
<1>4. current' = current /\ root' = root
  BY DEF HandOnAs
<1>5. IsInjective(next) /\ IsInjective(final)
  BY DEF Apart
<1>6. next' \in Seq(DOMAIN node) /\ final' \in Seq(DOMAIN node)
  BY HandsOn
<1> DEFINE refs == Holds(node, current, x)
           wait == Holds(node, next, x)
           wait2 == Holds(node', next, x)
           acc == Holds(node, final, x)
           acc2 == Holds(node', final, x)
           old == One(node[D], x)
           new == One(u.node, x)
<1>7. /\ refs \in Nat /\ wait \in Nat /\ wait2 \in Nat /\ acc \in Nat /\ acc2 \in Nat
      /\ old \in Nat /\ new \in Nat /\ One(root, x) \in Nat
  <2>1. old \in Nat /\ new \in Nat /\ One(root, x) \in Nat
    BY DEF One
  <2> QED
    BY <1>2, <2>1, HoldsIsNat
<1>8. Holds(node', current', x) = refs
  <2>1. \A i \in DOMAIN current : current[i] \in DOMAIN node /\ current[i] # D
    BY <1>2, <1>3 DEF ToSet
  <2>2. \A i \in DOMAIN current : node'[current[i]] = node[current[i]]
    BY <1>1, <2>1
  <2> QED
    BY <1>4, <2>2, HoldsSame
<1>9. /\ D \in ToSet(next) => wait2 + old = wait + new
      /\ D \notin ToSet(next) => wait2 = wait
      /\ D \in ToSet(final) => acc2 + old = acc + new
      /\ D \notin ToSet(final) => acc2 = acc
  <2>1. /\ D \in ToSet(next) => wait2 + old = wait + One(node'[D], x)
        /\ D \notin ToSet(next) => wait2 = wait
        /\ D \in ToSet(final) => acc2 + old = acc + One(node'[D], x)
        /\ D \notin ToSet(final) => acc2 = acc
    <3> HIDE DEF D
    <3>1. /\ D \in ToSet(next) => wait2 + OneAt(node, D, x) = wait + OneAt(node', D, x)
          /\ D \notin ToSet(next) => wait2 = wait
          /\ D \in ToSet(final) => acc2 + OneAt(node, D, x) = acc + OneAt(node', D, x)
          /\ D \notin ToSet(final) => acc2 = acc
      <4>1. AlikeBut(node, node', D)
        BY <1>1 DEF AlikeBut
      <4> QED
        BY <1>2, <1>5, <4>1, HoldsMoved
    <3> QED
      BY <3>1 DEF OneAt
  <2> QED
    BY <1>1, <2>1
<1>10. References(node, current, next, final, root, x) = refs + wait + acc + One(root, x)
  BY DEF References
<1>11. CASE ~Fresh(D)
  <2>1. next' = next /\ final' = final
    BY <1>11 DEF HandOnAs
  <2>2. \/ D \in ToSet(next) /\ D \notin ToSet(final)
        \/ D \in ToSet(final) /\ D \notin ToSet(next)
    BY <1>3, <1>11 DEF Pending, Apart, GoesOn
  <2>3. References(node', current', next', final', root', x)
          = refs + wait2 + acc2 + One(root, x)
    BY <1>4, <1>8, <2>1 DEF References
  <2> HIDE DEF D, refs, wait, wait2, acc, acc2, old, new
  <2>4. (refs + wait2 + acc2 + One(root, x)) + old = (refs + wait + acc + One(root, x)) + new
    BY <1>7, <1>9, <2>2
  <2>5. (IF Fresh(D) THEN 0 ELSE old) = old
    BY <1>11
  <2> QED
    BY <1>10, <2>3, <2>4, <2>5 DEF D, old, new
<1>12. CASE Fresh(D)
  <2>1. D \notin ToSet(next) /\ D \notin ToSet(final)
    BY <1>3, <1>12 DEF Pending
  <2>2. wait2 = wait /\ acc2 = acc
    BY <1>9, <2>1
  <2>3. ASSUME NEW S \in Seq(DOMAIN node)
        PROVE  Holds(node', Append(S, D), x) = Holds(node', S, x) + One(node'[D], x)
    <3> HIDE DEF D
    <3> QED
      BY <1>2, HoldsAppend
  <2>4. CASE IsAccepting(va, D)
    <3>1. next' = next /\ final' = Append(final, D)
      BY <1>12, <2>4 DEF HandOnAs
    <3>2. Holds(node', final', x) = acc2 + new
      BY <1>1, <1>2, <2>3, <3>1
    <3>3. References(node', current', next', final', root', x)
            = refs + wait2 + (acc2 + new) + One(root, x)
      BY <1>4, <1>8, <3>1, <3>2 DEF References
    <3> HIDE DEF D, refs, wait, wait2, acc, acc2, old, new
    <3>4. (refs + wait2 + (acc2 + new) + One(root, x)) + 0
            = (refs + wait + acc + One(root, x)) + new
      BY <1>7, <2>2
    <3>5. (IF Fresh(D) THEN 0 ELSE old) = 0
      BY <1>12
    <3> QED
      BY <1>10, <3>3, <3>4, <3>5 DEF D, old, new
  <2>5. CASE ~IsAccepting(va, D)
    <3>1. next' = Append(next, D) /\ final' = final
      BY <1>12, <2>5 DEF HandOnAs
    <3>2. Holds(node', next', x) = wait2 + new
      BY <1>1, <1>2, <2>3, <3>1
    <3>3. References(node', current', next', final', root', x)
            = refs + (wait2 + new) + acc2 + One(root, x)
      BY <1>4, <1>8, <3>1, <3>2 DEF References
    <3> HIDE DEF D, refs, wait, wait2, acc, acc2, old, new
    <3>4. (refs + (wait2 + new) + acc2 + One(root, x)) + 0
            = (refs + wait + acc + One(root, x)) + new
      BY <1>7, <2>2
    <3>5. (IF Fresh(D) THEN 0 ELSE old) = 0
      BY <1>12
    <3> QED
      BY <1>10, <3>3, <3>4, <3>5 DEF D, old, new
  <2> QED
    BY <2>4, <2>5
<1> QED
  BY <1>11, <1>12

LEMMA HandOnHolds ==
  ASSUME Typed, RunTyped, HeapIsHeld, NEW half \in {0, 1}, Apart(half), Phases(half),
         NEW p, NEW u, HandOnAs(p, u), GivesUpdate(p[2], u)
  PROVE  HeapIsHeld'
<1> DEFINE A == Addresses(u.heap)
<1>1. PICK ext \in [A -> Nat] :
        /\ Sound(u.heap, ext, {})
        /\ \A x \in A : ext[x] + (IF Fresh(p[2]) THEN 0 ELSE One(node[p[2]], x))
                          = Padded(Held, A)[x] + One(u.node, x)
  BY DEF GivesUpdate
<1>2. /\ ~Thrown(u.heap) /\ Addresses(heap) \subseteq A /\ u.node \in A
  BY DEF GivesUpdate
<1>3. heap' = u.heap /\ root' = root /\ current' = current
  BY DEF HandOnAs
<1>4. A \subseteq Nat \ {Null}
  BY <1>1, AddressesAreNat DEF Sound, Accounted, WellFormed, Null
<1>5. ASSUME NEW x \in A
      PROVE  ext[x] = References(node', current', next', final', root', x)
  <2> DEFINE drop == IF Fresh(p[2]) THEN 0 ELSE One(node[p[2]], x)
             new == References(node', current', next', final', root', x)
             sum == References(node, current, next, final, root, x) + One(u.node, x)
  <2>1. Padded(Held, A)[x] = References(node, current, next, final, root, x)
    BY <1>2, <1>4, <1>5, PaddedHeld
  <2>2. ext[x] + drop = sum
    BY <1>1, <1>5, <2>1
  <2>3. new + drop = sum
    BY HandOnSum
  <2>4. drop \in Nat
    BY DEF One
  <2>5. new \in Nat
    <3>1. /\ current' \in Seq(DOMAIN node) /\ next' \in Seq(DOMAIN node)
          /\ final' \in Seq(DOMAIN node)
      BY <1>3, HandsOn DEF RunTyped
    <3> QED
      BY <3>1, SumIsNat
  <2>6. ext[x] \in Nat
    BY <1>1, <1>5
  <2> HIDE DEF drop, new, sum
  <2>7. ext[x] = new
    BY <2>2, <2>3, <2>4, <2>5, <2>6
  <2> QED
    BY <2>7 DEF new
<1>6. Held' = ext
  <2>1. Held' = [x \in A |-> References(node', current', next', final', root', x)]
    BY <1>3, HeldSum
  <2> HIDE DEF A
  <2> QED
    BY <1>1, <1>5, <2>1
<1>7. ASSUME NEW D \in Alive'
      PROVE  node'[D] \in A
  <2>1. D \in Alive \cup {p[2]}
    <3>1. ToSet(next') \cup ToSet(final') = Pending \cup {p[2]}
      BY HandsOn
    <3> QED
      BY <1>3, <1>7, <3>1 DEF Alive, Pending
  <2>2. D \in DOMAIN node
    <3>1. p[2] \in DOMAIN node
      BY HandsOn, SuccessorFacts
    <3>2. Alive \subseteq DOMAIN node
      BY DEF RunTyped, Alive, Pending, ToSet
    <3> QED
      BY <2>1, <3>1, <3>2
  <2>3. CASE D = p[2]
    BY <1>2, <2>3, HandsOn
  <2>4. CASE D # p[2]
    <3>1. node'[D] = node[D] /\ D \in Alive
      BY <2>1, <2>2, <2>4, HandsOn
    <3> QED
      BY <1>2, <3>1 DEF HeapIsHeld
  <2> QED
    BY <2>3, <2>4
<1> HIDE DEF A
<1>8. root' \in Addresses(heap') \cup {Null}
  BY <1>2, <1>3 DEF HeapIsHeld, A
<1>9. Sound(heap', Held', {}) /\ ~Thrown(heap')
  BY <1>1, <1>2, <1>3, <1>6
<1>10. \A D \in Alive' : node'[D] \in Addresses(heap')
  BY <1>3, <1>7 DEF A
<1> QED
  BY <1>8, <1>9, <1>10 DEF HeapIsHeld

LEMMA HandOnStep ==
  ASSUME Typed, Running, NEW p, NEW u, HandOnAs(p, u), GivesUpdate(p[2], u)
  PROVE  Running'
<1>1. RunTyped /\ HeapIsHeld
  BY DEF Running
<1>2. PICK half \in {0, 1} : Apart(half) /\ Phases(half)
  BY DEF Running
<1>3. /\ Hands(p)
      /\ DOMAIN node' = DOMAIN node /\ DOMAIN phase' = DOMAIN node
      /\ \A D \in DOMAIN node : phase'[D] = IF D = p[2] THEN pos ELSE phase[D]
      /\ next' \in Seq(DOMAIN node) /\ final' \in Seq(DOMAIN node)
      /\ ToSet(next') \cup ToSet(final') = Pending \cup {p[2]}
  BY <1>1, <1>2, HandsOn
<1>4. /\ current' = current /\ pos' = pos /\ end' = end /\ mode' = mode /\ va' = va
      /\ char' = char
      /\ pairs' = pairs \ {p} /\ p \in pairs
      /\ phase' = [phase EXCEPT ![p[2]] = IF Fresh(p[2]) THEN pos ELSE @]
      /\ Visiting
  BY DEF HandOnAs, IsNextPair, input
<1>5. /\ mode = "start" \/ mode = "read"
      /\ pos \in Int
  BY <1>1, <1>4 DEF Visiting, RunTyped
<1>6. RunTyped'
  <2>1. phase' \in [DOMAIN node' -> Int]
    BY <1>1, <1>3, <1>4, <1>5 DEF RunTyped
  <2>2. /\ current' \in Seq(DOMAIN node') /\ next' \in Seq(DOMAIN node')
        /\ final' \in Seq(DOMAIN node')
    BY <1>1, <1>3, <1>4 DEF RunTyped
  <2>3. pairs # Unknown
    BY DEF HandOnAs
  <2>4. /\ Visits' /\ current' # << >>
        /\ pairs' \subseteq NextStates(va', Head(current'), char')
        /\ \A q \in pairs' : q[2] \in DOMAIN node'
    BY <1>1, <1>3, <1>4, <1>5, <2>3 DEF RunTyped, Visits
  <2>5. /\ pos' \in 0..MaxDocument + 2 /\ end' \in 0..MaxDocument + 2
        /\ mode' = "start" => pos' <= MaxDocument + 1
        /\ mode' = "read" => pos' < end'
        /\ mode' \notin {"start", "read"} => next' = << >>
    BY <1>1, <1>4, <1>5 DEF RunTyped
  <2> QED
    BY <2>1, <2>2, <2>4, <2>5 DEF RunTyped
<1>7. HeapIsHeld'
  BY <1>1, <1>2, HandOnHolds
<1>8. Apart(half)'
  <2>1. /\ p[2] \in DOMAIN node
        /\ GoesOn(1 - half, p[2]) \/ IsAccepting(va, p[2])
    BY <1>1, <1>2, <1>3, SuccessorFacts
  <2>2. next \in Seq(DOMAIN node) /\ final \in Seq(DOMAIN node)
    BY <1>1 DEF RunTyped
  <2>3. Fresh(p[2]) => p[2] \notin ToSet(next) /\ p[2] \notin ToSet(final)
    BY <1>1, <1>2, <1>3, SuccessorWaits DEF Pending
  <2>4. \/ /\ next' = next
           /\ \/ final' = final
              \/ /\ IsAccepting(va, p[2]) /\ Fresh(p[2])
                 /\ final' = Append(final, p[2])
        \/ /\ final' = final
           /\ ~IsAccepting(va, p[2]) /\ Fresh(p[2])
           /\ next' = Append(next, p[2])
    BY DEF HandOnAs
  <2>5. /\ \A D \in ToSet(next') : GoesOn(1 - half, D)
        /\ \A D \in ToSet(final') : IsAccepting(va, D)
        /\ IsInjective(next') /\ IsInjective(final')
    <3>1. /\ \A D \in ToSet(next) : GoesOn(1 - half, D)
          /\ \A D \in ToSet(final) : IsAccepting(va, D)
          /\ IsInjective(next) /\ IsInjective(final)
      BY <1>2 DEF Apart
    <3>2. CASE next' = next /\ final' = final
      BY <3>1, <3>2
    <3>3. CASE /\ IsAccepting(va, p[2]) /\ Fresh(p[2])
               /\ next' = next /\ final' = Append(final, p[2])
      <4>1. ToSet(final') = ToSet(final) \cup {p[2]} /\ IsInjective(final')
        BY <2>1, <2>2, <2>3, <3>1, <3>3, AppendSet
      <4> QED
        BY <3>1, <3>3, <4>1
    <3>4. CASE /\ ~IsAccepting(va, p[2]) /\ Fresh(p[2])
               /\ final' = final /\ next' = Append(next, p[2])
      <4>1. ToSet(next') = ToSet(next) \cup {p[2]} /\ IsInjective(next')
        BY <2>1, <2>2, <2>3, <3>1, <3>4, AppendSet
      <4> QED
        BY <2>1, <3>1, <3>4, <4>1
    <3> QED
      BY <2>4, <3>2, <3>3, <3>4
  <2>6. \A D \in ToSet(current') : GoesOn(half, D)
    BY <1>2, <1>4 DEF Apart
  <2> QED
    BY <1>4, <2>5, <2>6 DEF Apart, GoesOn
<1>9. Phases(half)'
  <2>1. Pending' = Pending \cup {p[2]}
    BY <1>3 DEF Pending
  <2>2. /\ \A D \in DOMAIN node : phase[D] <= pos
        /\ \A D \in Pending : phase[D] = pos
        /\ \A D \in DOMAIN node : phase[D] = pos =>
             D \in Pending \/ (mode # "start" /\ GoesOn(half, D))
    BY <1>1, <1>2, <1>5 DEF Phases, RunTyped, Visits
  <2>3. Pending \subseteq DOMAIN node /\ p[2] \in DOMAIN node
    <3>1. p[2] \in DOMAIN node
      BY <1>1, <1>2, <1>3, SuccessorFacts
    <3>2. Pending \subseteq DOMAIN node
      BY <1>1 DEF RunTyped, Pending, ToSet
    <3> QED
      BY <3>1, <3>2
  <2>4. \A D \in DOMAIN phase' : phase'[D] <= pos'
    BY <1>3, <1>4, <1>5, <2>2
  <2>5. \A D \in Pending' : phase'[D] = pos'
    BY <1>3, <1>4, <2>1, <2>2, <2>3
  <2>6. \A D \in DOMAIN phase' : phase'[D] = pos' =>
          D \in Pending' \/ (mode' # "start" /\ GoesOn(half, D)')
    BY <1>3, <1>4, <2>1, <2>2 DEF GoesOn
  <2> QED
    BY <1>4, <1>5, <2>4, <2>5, <2>6 DEF Phases
<1> QED
  BY <1>2, <1>4, <1>5, <1>6, <1>7, <1>8, <1>9 DEF Running

----------------------------------------------------------------------------
(***************************************************************************)
(* The other rounds of evaluate_single_character.                          *)
(***************************************************************************)
LEMMA AliveHasNode ==
  ASSUME RunTyped
  PROVE  Alive \subseteq DOMAIN node /\ DOMAIN phase = DOMAIN node
BY DEF RunTyped, Alive, Pending, ToSet

\* The heap is the same and so are the lists.
LEMMA SameHeap ==
  ASSUME RunTyped, HeapIsHeld, UNCHANGED <<heap, current, next, final, root>>,
         \A D \in Alive : node'[D] = node[D]
  PROVE  HeapIsHeld'
<1>1. ASSUME NEW S, ToSet(S) \subseteq Alive, NEW x
      PROVE  Holds(node', S, x) = Holds(node, S, x)
  <2>1. \A i \in DOMAIN S : node'[S[i]] = node[S[i]]
    BY <1>1 DEF ToSet
  <2> QED
    BY <2>1, HoldsSame
<1>2. ASSUME NEW x
      PROVE  References(node', current', next', final', root', x)
               = References(node, current, next, final, root, x)
  <2>1. /\ Holds(node', current, x) = Holds(node, current, x)
        /\ Holds(node', next, x) = Holds(node, next, x)
        /\ Holds(node', final, x) = Holds(node, final, x)
    BY <1>1 DEF Alive, Pending
  <2> QED
    BY <2>1 DEF References
<1>3. Held' = Held
  BY <1>2, HeldSum
<1>4. Alive' = Alive
  BY DEF Alive, Pending
<1>5. \A D \in Alive' : node'[D] \in Addresses(heap')
  BY <1>4 DEF HeapIsHeld
<1> QED
  BY <1>3, <1>5 DEF HeapIsHeld

LEMMA GetNextStatesStep ==
  ASSUME Typed, Running, GetNextStates
  PROVE  Running'
<1>1. RunTyped /\ HeapIsHeld
  BY DEF Running
<1>2. PICK half \in {0, 1} : Apart(half) /\ Phases(half)
  BY DEF Running
<1> DEFINE known == DOMAIN node \cup {p[2] : p \in NextStates(va, Visited, char)}
<1>3. /\ Visiting /\ pairs' = NextStates(va, Visited, char)
      /\ node' = [D \in known |-> IF D \in DOMAIN node THEN node[D] ELSE Null]
      /\ phase' = [D \in known |-> IF D \in DOMAIN phase THEN phase[D] ELSE -1]
      /\ UNCHANGED <<va, char, heap, current, next, final, pos, end, root, mode>>
  BY DEF GetNextStates, input, lists
<1>4. mode \in {"start", "read"} /\ current # << >> /\ Visited = Head(current)
  BY <1>3 DEF Visiting, Visited
<1>5. /\ DOMAIN node' = known /\ DOMAIN phase' = known /\ DOMAIN node \subseteq known
      /\ \A D \in DOMAIN node : node'[D] = node[D] /\ phase'[D] = phase[D]
      /\ \A D \in known : D \notin DOMAIN node => phase'[D] = -1
      /\ \A p \in pairs' : p[2] \in known
  BY <1>1, <1>3, AliveHasNode
<1> HIDE DEF known
<1>6. phase \in [DOMAIN node -> Int] /\ pos \in Nat
  BY <1>1 DEF RunTyped
<1>7. RunTyped'
  <2>1. phase' \in [DOMAIN node' -> Int]
    <3>1. \A D \in known : phase'[D] \in Int
      BY <1>5, <1>6
    <3>2. phase' = [D \in known |-> phase'[D]]
      BY <1>3, <1>5
    <3> QED
      BY <1>5, <3>1, <3>2
  <2>2. /\ current' \in Seq(DOMAIN node') /\ next' \in Seq(DOMAIN node')
        /\ final' \in Seq(DOMAIN node')
    BY <1>1, <1>3, <1>5 DEF RunTyped
  <2>3. /\ Visits' /\ current' # << >>
        /\ pairs' \subseteq NextStates(va', Head(current'), char')
    BY <1>3, <1>4 DEF Visits
  <2>4. /\ pos' \in 0..MaxDocument + 2 /\ end' \in 0..MaxDocument + 2
        /\ mode' = "start" => pos' <= MaxDocument + 1
        /\ mode' = "read" => pos' < end'
        /\ mode' \notin {"start", "read"} => next' = << >>
    BY <1>1, <1>3 DEF RunTyped
  <2> QED
    BY <1>5, <2>1, <2>2, <2>3, <2>4 DEF RunTyped
<1>8. HeapIsHeld'
  BY <1>1, <1>3, <1>5, AliveHasNode, SameHeap
<1>9. Apart(half)'
  BY <1>2, <1>3 DEF Apart, GoesOn
<1>10. Phases(half)'
  <2>1. /\ \A D \in DOMAIN node : phase[D] <= pos
        /\ \A D \in Pending : phase[D] = pos /\ D \in DOMAIN node
        /\ \A D \in DOMAIN node : phase[D] = pos =>
             D \in Pending \/ (mode # "start" /\ GoesOn(half, D))
    BY <1>1, <1>2, <1>4, AliveHasNode DEF Phases, Visits, Alive
  <2>2. Pending' = Pending /\ mode' = mode /\ pos' = pos /\ va' = va
    BY <1>3 DEF Pending
  <2>3. \A D \in DOMAIN phase' : phase'[D] <= pos'
    BY <1>5, <1>6, <2>1, <2>2
  <2>4. \A D \in Pending' : phase'[D] = pos'
    BY <1>5, <2>1, <2>2
  <2>5. \A D \in DOMAIN phase' : phase'[D] = pos' =>
          D \in Pending' \/ (mode' # "start" /\ GoesOn(half, D)')
    BY <1>5, <1>6, <2>1, <2>2 DEF GoesOn
  <2> QED
    BY <1>4, <2>2, <2>3, <2>4, <2>5 DEF Phases
<1> QED
  BY <1>3, <1>4, <1>7, <1>8, <1>9, <1>10 DEF Running

LEMMA LeaveStep ==
  ASSUME Typed, Running, Visiting, Leave
  PROVE  Running'
<1>1. RunTyped /\ HeapIsHeld
  BY DEF Running
<1>2. PICK half \in {0, 1} : Apart(half) /\ Phases(half)
  BY DEF Running
<1>3. /\ heap' = Unpin(heap, node[Visited]) /\ current' = Tail(current)
      /\ pairs' = Unknown
      /\ UNCHANGED <<va, node, phase, next, final, pos, end, root, mode>>
  BY DEF Leave, input, det
<1>4. mode \in {"start", "read"} /\ current # << >> /\ Visited = Head(current)
  BY DEF Visiting, Visited
<1>5. /\ Visited \in Alive /\ Visited \in DOMAIN node
      /\ Tail(current) \in Seq(DOMAIN node) /\ ToSet(Tail(current)) \subseteq ToSet(current)
  BY <1>1, VisitedIsAlive
<1>6. RunTyped'
  BY <1>1, <1>3, <1>5 DEF RunTyped
<1>7. HeapIsHeld'
  <2> DEFINE n == node[Visited]
  <2>1. /\ n \in Addresses(heap) /\ Held[n] >= 1 /\ Held \in [Addresses(heap) -> Nat]
        /\ ~Thrown(heap) /\ Sound(heap, Held, {})
    BY <1>1, <1>5, AliveIsHeld DEF HeapIsHeld
  <2> HIDE DEF n
  <2>2. /\ Sound(heap', Minus(Held, n), {}) /\ ~Thrown(heap')
        /\ heap'.node = heap.node
    BY <1>3, <2>1, UnpinSound DEF n
  <2>3. Addresses(heap') = Addresses(heap)
    BY <2>2 DEF Addresses
  <2>4. ASSUME NEW x \in Addresses(heap)
        PROVE  Minus(Held, n)[x] = References(node', current', next', final', root', x)
    <3> DEFINE c == Holds(node, current, x)
               t == Holds(node, Tail(current), x)
               w == Holds(node, next, x)
               f == Holds(node, final, x)
               o == One(n, x)
               r == One(root, x)
    <3>1. c = t + o
      BY <1>1, <1>4, HoldsTail DEF RunTyped, n
    <3>2. c \in Nat /\ t \in Nat /\ w \in Nat /\ f \in Nat /\ o \in Nat /\ r \in Nat
      <4>1. o \in Nat /\ r \in Nat
        BY DEF One
      <4> QED
        BY <1>1, <1>5, <4>1, HoldsIsNat DEF RunTyped
    <3>3. Held[x] = c + w + f + r
      BY <2>4, HeldSum DEF References
    <3>4. References(node', current', next', final', root', x) = t + w + f + r
      BY <1>3 DEF References
    <3>5. Minus(Held, n)[x] = (c + w + f + r) - o
      BY <2>1, <2>4, <3>3 DEF Minus
    <3> HIDE DEF c, t, w, f, o, r
    <3>6. (c + w + f + r) - o = t + w + f + r
      BY <3>1, <3>2
    <3> QED
      BY <3>4, <3>5, <3>6
  <2>5. Held' = Minus(Held, n)
    <3>1. Held' = [x \in Addresses(heap) |->
                     References(node', current', next', final', root', x)]
      BY <2>3, HeldSum
    <3>2. Minus(Held, n) \in [Addresses(heap) -> Nat]
      BY <2>2, <2>3 DEF Sound, Accounted
    <3> QED
      BY <2>4, <3>1, <3>2
  <2>6. \A D \in Alive' : node'[D] \in Addresses(heap')
    BY <1>1, <1>3, <1>5, <2>3 DEF Alive, Pending, HeapIsHeld
  <2> QED
    BY <1>1, <1>3, <2>2, <2>3, <2>5, <2>6 DEF HeapIsHeld
<1>8. Apart(half)'
  BY <1>2, <1>3, <1>5 DEF Apart, GoesOn
<1>9. Phases(half)'
  BY <1>2, <1>3 DEF Phases, Pending, Visits, GoesOn
<1> QED
  BY <1>3, <1>4, <1>6, <1>7, <1>8, <1>9 DEF Running

----------------------------------------------------------------------------
(***************************************************************************)
(* From one character to the next. The states that waited are the ones to  *)
(* visit, so the halves change places.                                     *)
(***************************************************************************)
LEMMA SwapStateListsStep ==
  ASSUME Typed, Running, SwapStateLists
  PROVE  Running'
<1>1. RunTyped /\ HeapIsHeld
  BY DEF Running
<1>2. PICK half \in {0, 1} : Apart(half) /\ Phases(half)
  BY DEF Running
<1>3. /\ mode \in {"start", "read"} /\ current = << >>
      /\ current' = next /\ next' = << >>
      /\ pos' = IF mode = "start" THEN pos ELSE pos + 1
      /\ mode' = IF mode = "read" /\ final # << >> THEN "root" ELSE "evaluate"
      /\ UNCHANGED <<va, heap, node, phase, final, pairs, end, root>>
  BY DEF SwapStateLists, input, det
<1>4. /\ phase \in [DOMAIN node -> Int] /\ pos \in 0..MaxDocument + 2
      /\ end \in 0..MaxDocument + 2
      /\ mode = "start" => pos <= MaxDocument + 1
      /\ mode = "read" => pos < end
      /\ next \in Seq(DOMAIN node) /\ final \in Seq(DOMAIN node)
      /\ pairs = Unknown
  BY <1>1, <1>3 DEF RunTyped
<1>5. RunTyped'
  <2>1. pos' \in 0..MaxDocument + 2
    BY <1>3, <1>4, DocumentSizeAssumption
  <2>2. mode' \notin {"start", "read"}
    BY <1>3
  <2>3. << >> \in Seq(DOMAIN node)
    OBVIOUS
  <2> QED
    BY <1>3, <1>4, <2>1, <2>2, <2>3 DEF RunTyped
<1>6. HeapIsHeld'
  <2>1. ASSUME NEW x
        PROVE  References(node', current', next', final', root', x)
                 = References(node, current, next, final, root, x)
    <3> DEFINE w == Holds(node, next, x)
               f == Holds(node, final, x)
               r == One(root, x)
    <3>1. References(node', current', next', final', root', x) = w + 0 + f + r
      BY <1>3, HoldsNone DEF References
    <3>2. References(node, current, next, final, root, x) = 0 + w + f + r
      BY <1>3, HoldsNone DEF References
    <3>3. w \in Nat
      BY <1>4, HoldsIsNat
    <3> HIDE DEF w, f, r
    <3> QED
      BY <3>1, <3>2, <3>3
  <2>2. Held' = Held
    BY <1>3, <2>1, HeldSum
  <2>3. ToSet(<< >>) = {}
    BY DEF ToSet
  <2>4. Alive' = Alive
    BY <1>3, <2>3 DEF Alive, Pending
  <2> QED
    BY <1>1, <1>3, <2>2, <2>4 DEF HeapIsHeld
<1>7. 1 - half \in {0, 1} /\ 1 - (1 - half) = half
  OBVIOUS
<1>8. /\ \A D \in ToSet(next) : GoesOn(1 - half, D)
      /\ \A D \in ToSet(final) : IsAccepting(va, D)
      /\ IsInjective(final)
  BY <1>2 DEF Apart
<1>9. Apart(1 - half)'
  <2>1. ToSet(<< >>) = {} /\ IsInjective(<< >>)
    BY DEF ToSet, IsInjective
  <2> QED
    BY <1>3, <1>8, <2>1 DEF Apart, GoesOn
<1>10. Phases(1 - half)'
  <2>1. /\ \A D \in DOMAIN phase : phase[D] <= pos
        /\ \A D \in Pending : phase[D] = pos
        /\ \A D \in DOMAIN phase : phase[D] = pos =>
             D \in Pending \/ (mode # "start" /\ GoesOn(half, D))
    BY <1>2, <1>3 DEF Phases, Visits
  <2>2. Pending' = ToSet(final)
    <3>1. ToSet(<< >>) = {}
      BY DEF ToSet
    <3> QED
      BY <1>3, <3>1 DEF Pending
  <2>3. \A D \in DOMAIN phase' : phase'[D] <= pos'
    BY <1>3, <1>4, <2>1
  <2>4. CASE mode = "start"
    <3>1. pos' = pos /\ mode' = "evaluate"
      BY <1>3, <2>4
    <3>2. \A D \in Pending' : phase'[D] = pos'
      BY <1>3, <2>1, <2>2, <3>1 DEF Pending
    <3>3. \A D \in DOMAIN phase' : phase'[D] = pos' =>
            D \in Pending' \/ (mode' # "start" /\ GoesOn(1 - half, D)')
      BY <1>3, <1>8, <2>1, <2>2, <2>4, <3>1 DEF Pending, GoesOn
    <3> QED
      BY <2>3, <3>1, <3>2, <3>3 DEF Phases, Visits
  <2>5. CASE mode = "read"
    <3>1. pos' = pos + 1 /\ mode' \in {"root", "evaluate"}
      BY <1>3, <2>5
    <3>2. \A D \in DOMAIN phase' : phase'[D] < pos'
      BY <1>3, <1>4, <2>1, <3>1
    <3>3. mode' = "evaluate" => Pending' = {}
      BY <1>3, <2>2, <2>5 DEF ToSet
    <3>4. \A D \in DOMAIN phase' : phase'[D] # pos'
      BY <1>3, <1>4, <3>1, <3>2
    <3> QED
      BY <2>3, <3>1, <3>2, <3>3, <3>4 DEF Phases, Visits
  <2> QED
    BY <1>3, <2>4, <2>5
<1>11. mode' # "list"
  BY <1>3
<1> QED
  BY <1>5, <1>6, <1>7, <1>9, <1>10, <1>11 DEF Running

LEMMA ReadCharacterStep ==
  ASSUME Typed, Running, ReadCharacter
  PROVE  Running'
<1>1. RunTyped /\ HeapIsHeld
  BY DEF Running
<1>2. PICK half \in {0, 1} : Apart(half) /\ Phases(half)
  BY DEF Running
<1>3. /\ mode = "evaluate" /\ pos < end /\ mode' = "read"
      /\ UNCHANGED <<va, heap, node, phase, current, next, final, pairs, pos, end, root>>
  BY DEF ReadCharacter, det, lists
<1>4. pairs = Unknown
  BY <1>1, <1>3 DEF RunTyped, Visits
<1>5. RunTyped'
  BY <1>1, <1>3, <1>4 DEF RunTyped
<1>6. HeapIsHeld'
  BY <1>1, <1>3, SameHeap
<1>7. Apart(half)'
  BY <1>2, <1>3 DEF Apart, GoesOn
<1>8. Phases(half)'
  BY <1>2, <1>3 DEF Phases, Pending, Visits, GoesOn
<1> QED
  BY <1>3, <1>5, <1>6, <1>7, <1>8 DEF Running

\* The steps that only go from one loop to another.
LEMMA ModeStep ==
  ASSUME Typed, Running,
         UNCHANGED <<va, heap, node, phase, current, next, final, pairs, pos, end, root>>,
         mode \notin {"start", "read"}, mode' \notin {"start", "read"},
         mode' = "evaluate" => mode = "list" /\ final = << >>,
         mode' \in {"root", "join", "list"} /\ pos < end =>
           mode \in {"root", "join", "list"},
         mode' = "list" /\ kind' \notin Findones => final = << >>
  PROVE  Running'
<1>1. RunTyped /\ HeapIsHeld
  BY DEF Running
<1>2. PICK half \in {0, 1} : Apart(half) /\ Phases(half)
  BY DEF Running
<1>3. pairs = Unknown /\ next = << >>
  BY <1>1 DEF RunTyped, Visits
<1>4. RunTyped'
  BY <1>1, <1>3 DEF RunTyped
<1>5. HeapIsHeld'
  BY <1>1, SameHeap
<1>6. Apart(half)'
  BY <1>2 DEF Apart, GoesOn
<1>7. Phases(half)'
  <2>1. phase \in [DOMAIN node -> Int] /\ pos \in Nat
    BY <1>1 DEF RunTyped
  <2>2. \A D \in DOMAIN phase' : phase'[D] <= pos'
    BY <1>2 DEF Phases
  <2>3. mode' \in {"root", "join", "list"} /\ pos' < end' =>
          \A D \in DOMAIN phase' : phase'[D] < pos'
    BY <1>2 DEF Phases
  <2>4. ~Visits'
    BY DEF Visits
  <2>5. ASSUME mode' = "evaluate", pos' < end'
        PROVE  /\ Pending' = {}
               /\ \A D \in DOMAIN phase' : phase'[D] # pos'
    <3>1. Pending' = {}
      BY <1>3, <2>5 DEF Pending, ToSet
    <3>2. \A D \in DOMAIN phase : phase[D] < pos
      BY <1>2, <2>5 DEF Phases
    <3> QED
      BY <2>1, <3>1, <3>2
  <2> QED
    BY <2>2, <2>3, <2>4, <2>5 DEF Phases
<1> QED
  BY <1>4, <1>5, <1>6, <1>7 DEF Running

----------------------------------------------------------------------------
(***************************************************************************)
(* create_root_node_to_enumerate.                                          *)
(***************************************************************************)
\* Between two characters, only the heap, the root and the accepting states
\* still to be joined change.
LEMMA RootStep ==
  ASSUME Typed, Running, HeapIsHeld',
         UNCHANGED <<va, node, phase, current, next, pairs, pos, end>>,
         mode \in {"root", "join"}, mode' = "join",
         final' \in Seq(DOMAIN node), ToSet(final') \subseteq ToSet(final),
         IsInjective(final) => IsInjective(final')
  PROVE  Running'
<1>1. RunTyped
  BY DEF Running
<1>2. PICK half \in {0, 1} : Apart(half) /\ Phases(half)
  BY DEF Running
<1>3. pairs = Unknown /\ next = << >>
  BY <1>1 DEF RunTyped, Visits
<1>4. RunTyped'
  BY <1>1, <1>3 DEF RunTyped
<1>5. Apart(half)'
  BY <1>2 DEF Apart, GoesOn
<1>6. Phases(half)'
  BY <1>2 DEF Phases, Visits
<1> QED
  BY <1>4, <1>5, <1>6 DEF Running

LEMMA TailIsInjective ==
  ASSUME NEW T, NEW S \in Seq(T), S # << >>
  PROVE  /\ Tail(S) \in Seq(T) /\ ToSet(Tail(S)) \subseteq ToSet(S)
         /\ Head(S) \in ToSet(S)
         /\ IsInjective(S) => IsInjective(Tail(S))
<1>1. /\ Tail(S) \in Seq(T) /\ DOMAIN Tail(S) = 1..Len(S) - 1 /\ Len(S) \in Nat
      /\ \A i \in DOMAIN Tail(S) : i + 1 \in DOMAIN S /\ Tail(S)[i] = S[i + 1]
      /\ 1 \in DOMAIN S /\ Head(S) = S[1]
  OBVIOUS
<1>2. ASSUME IsInjective(S)
      PROVE  IsInjective(Tail(S))
  <2>1. ASSUME NEW i \in DOMAIN Tail(S), NEW j \in DOMAIN Tail(S),
               Tail(S)[i] = Tail(S)[j]
        PROVE  i = j
    <3>1. S[i + 1] = S[j + 1] /\ i + 1 \in DOMAIN S /\ j + 1 \in DOMAIN S
      BY <1>1, <2>1
    <3>2. i + 1 = j + 1
      BY <1>2, <3>1 DEF IsInjective
    <3> QED
      BY <1>1, <3>2
  <2> QED
    BY <2>1 DEF IsInjective
<1> QED
  BY <1>1, <1>2 DEF ToSet

LEMMA ReleaseRootStep ==
  ASSUME Typed, Running, ReleaseRoot
  PROVE  Running'
<1>1. RunTyped /\ HeapIsHeld
  BY DEF Running
<1>2. /\ mode = "root" /\ mode' = "join" /\ heap' = Unpin(heap, root) /\ root' = Null
      /\ UNCHANGED <<va, node, phase, current, next, final, pairs, pos, end>>
  BY DEF ReleaseRoot, input, det, lists
<1>3. /\ ~Thrown(heap) /\ Sound(heap, Held, {})
      /\ Held \in [Addresses(heap) -> Nat]
      /\ root # Null => root \in Addresses(heap) /\ Held[root] >= 1
  BY <1>1, AliveIsHeld DEF HeapIsHeld
<1>4. \A x \in Addresses(heap) : x # Null
  BY <1>3, AddressesAreNat DEF Sound, Accounted, WellFormed, Null
<1>5. \A x \in Addresses(heap) :
        /\ Held[x] = References(node, current, next, final, root, x)
        /\ References(node', current', next', final', root', x)
              = References(node, current, next, final, Null, x)
        /\ One(Null, x) = 0
  BY <1>2, <1>4, HeldSum DEF One
<1>6. HeapIsHeld'
  <2>1. CASE root = Null
    <3>1. heap' = heap /\ root' = root
      BY <1>2, <2>1 DEF Unpin, Release
    <3> QED
      BY <1>1, <1>2, <3>1, SameHeap
  <2>2. CASE root # Null
    <3>1. /\ Sound(heap', Minus(Held, root), {}) /\ ~Thrown(heap')
          /\ heap'.node = heap.node
      BY <1>2, <1>3, <2>2, UnpinSound
    <3>2. Addresses(heap') = Addresses(heap)
      BY <3>1 DEF Addresses
    <3>3. ASSUME NEW x \in Addresses(heap)
          PROVE  Minus(Held, root)[x] = References(node', current', next', final', root', x)
      <4> DEFINE c == Holds(node, current, x)
                 w == Holds(node, next, x)
                 f == Holds(node, final, x)
                 r == One(root, x)
      <4>1. c \in Nat /\ w \in Nat /\ f \in Nat /\ r \in Nat
        BY <1>1, SumIsNat DEF RunTyped
      <4>2. Held[x] = c + w + f + r
        BY <1>5, <3>3 DEF References
      <4>3. References(node', current', next', final', root', x) = c + w + f + 0
        BY <1>5, <3>3 DEF References
      <4>4. Minus(Held, root)[x] = (c + w + f + r) - r
        BY <1>3, <3>3, <4>2 DEF Minus
      <4> HIDE DEF c, w, f, r
      <4>5. (c + w + f + r) - r = c + w + f + 0
        BY <4>1
      <4> QED
        BY <4>3, <4>4, <4>5
    <3>4. Held' = Minus(Held, root)
      <4>1. Held' = [x \in Addresses(heap) |->
                       References(node', current', next', final', root', x)]
        BY <3>2, HeldSum
      <4>2. Minus(Held, root) \in [Addresses(heap) -> Nat]
        BY <3>1, <3>2 DEF Sound, Accounted
      <4> QED
        BY <3>3, <4>1, <4>2
    <3>5. Alive' = Alive
      BY <1>2 DEF Alive, Pending
    <3> QED
      BY <1>1, <1>2, <3>1, <3>2, <3>4, <3>5 DEF HeapIsHeld
  <2> QED
    BY <2>1, <2>2
<1>7. final \in Seq(DOMAIN node)
  BY <1>1 DEF RunTyped
<1> QED
  BY <1>2, <1>6, <1>7, RootStep

LEMMA TakeFirstFinalStateStep ==
  ASSUME Typed, Running, TakeFirstFinalState
  PROVE  Running'
<1>1. RunTyped /\ HeapIsHeld
  BY DEF Running
<1>2. /\ mode = "join" /\ mode' = "join" /\ final # << >> /\ root = Null
      /\ root' = node[Head(final)] /\ final' = Tail(final)
      /\ UNCHANGED <<va, heap, node, phase, current, next, pairs, pos, end>>
  BY DEF TakeFirstFinalState, input, det
<1>3. final \in Seq(DOMAIN node)
  BY <1>1 DEF RunTyped
<1>4. /\ Tail(final) \in Seq(DOMAIN node) /\ ToSet(Tail(final)) \subseteq ToSet(final)
      /\ Head(final) \in ToSet(final)
      /\ IsInjective(final) => IsInjective(Tail(final))
  BY <1>2, <1>3, TailIsInjective
<1>5. HeapIsHeld'
  <2>1. \A x \in Addresses(heap) : x # Null
    BY <1>1, AddressesAreNat DEF HeapIsHeld, Sound, Accounted, WellFormed, Null
  <2>2. ASSUME NEW x \in Addresses(heap)
        PROVE  References(node', current', next', final', root', x)
                 = References(node, current, next, final, root, x)
    <3> DEFINE c == Holds(node, current, x)
               w == Holds(node, next, x)
               f == Holds(node, final, x)
               t == Holds(node, Tail(final), x)
               o == One(node[Head(final)], x)
    <3>1. f = t + o
      BY <1>2, <1>3, HoldsTail
    <3>2. c \in Nat /\ w \in Nat /\ t \in Nat /\ o \in Nat
      <4>1. o \in Nat
        BY DEF One
      <4> QED
        BY <1>1, <1>4, <4>1, HoldsIsNat DEF RunTyped
    <3>3. One(root, x) = 0
      BY <1>2, <2>1, <2>2 DEF One
    <3>4. References(node, current, next, final, root, x) = c + w + f + 0
      BY <3>3 DEF References
    <3>5. References(node', current', next', final', root', x) = c + w + t + o
      BY <1>2 DEF References
    <3> HIDE DEF c, w, f, t, o
    <3>6. c + w + f + 0 = c + w + t + o
      BY <3>1, <3>2
    <3> QED
      BY <3>4, <3>5, <3>6
  <2>3. Held' = Held
    BY <1>2, <2>2, HeldSum
  <2>4. root' \in Addresses(heap')
    BY <1>1, <1>2, <1>4 DEF HeapIsHeld, Alive, Pending
  <2>5. Alive' \subseteq Alive
    BY <1>2, <1>4 DEF Alive, Pending
  <2> QED
    BY <1>1, <1>2, <2>3, <2>4, <2>5 DEF HeapIsHeld
<1> QED
  BY <1>2, <1>4, <1>5, RootStep

\* The union of the root and of the node of an accepting state is pinned, and
\* then each of the two is given up, which may be the same node.
GivesJoin(h, ext, r, n, m, g) ==
  /\ ~Thrown(g) /\ Addresses(h) \subseteq Addresses(g)
  /\ m \in Addresses(g)
  /\ \E e \in [Addresses(g) -> Nat] :
       /\ Sound(g, e, {})
       /\ \A x \in Addresses(g) :
            e[x] + One(r, x) + One(n, x) = Padded(ext, Addresses(g))[x] + One(m, x)

LEMMA JoinGives ==
  ASSUME NEW h, NEW ext, NEW r, NEW n, ~Thrown(h), Sound(h, ext, {}),
         r \in Addresses(h), n \in Addresses(h), ext[r] >= 1, ext[n] >= 1 + One(r, n),
         NEW w, w = CreateUnion(h, r, n), ~Thrown(w.heap),
         NEW g, g = Unpin(Unpin(Pin(w.heap, w.node), r), n)
  PROVE  GivesJoin(h, ext, r, n, w.node, g)
<1> DEFINE A == Addresses(w.heap)
           e1 == Padded(ext, A)
           e2 == Plus(e1, w.node)
           e3 == Minus(e2, r)
           e4 == Minus(e3, n)
           h1 == Pin(w.heap, w.node)
           h2 == Unpin(h1, r)
<1>1. ext \in [Addresses(h) -> Nat] /\ One(r, n) \in Nat
  BY DEF Sound, Accounted, One
<1>2. ext[n] >= 1 /\ ext[n] \in Nat
  BY <1>1
<1>3. n \notin Free(h)
  BY <1>2, HeldIsProtected
<1>4. GivesUnion(h, ext, w)
  <2>1. CASE IsOutput(h, r) \/ IsOutput(h, n)
    <3>1. Sound(h, ext, {n})
      BY DEF Sound
    <3>2. w = CreateUnion(h, r, n)
      OBVIOUS
    <3> QED
      BY <1>2, <1>3, <2>1, <3>1, <3>2, UnionOfOutputSound
  <2>2. CASE ~IsOutput(h, r) /\ ~IsOutput(h, n)
    BY <1>2, <2>2, UnionOfNonOutputsSound
  <2> QED
    BY <2>1, <2>2
<1> HIDE DEF A, h1, h2
<1>5. /\ Sound(w.heap, e1, {w.node}) /\ Addresses(h) \subseteq A
      /\ w.node \in A \ Free(w.heap)
  BY <1>4 DEF GivesUnion, A
<1>6. e1 \in [A -> Nat] /\ e1[r] = ext[r] /\ e1[n] = ext[n]
  BY <1>1, <1>5, PaddedAgain
<1> HIDE DEF e1
<1>7. e2 \in [A -> Nat] /\ \A x \in A : e2[x] = e1[x] + One(w.node, x)
  BY <1>6 DEF Plus, One
<1> HIDE DEF e2
<1>8. Sound(h1, e2, {w.node} \ {w.node}) /\ ~Thrown(h1) /\ h1.node = w.heap.node
  BY <1>5, PinSound DEF A, h1, e2
<1>9. Sound(h1, e2, {}) /\ Addresses(h1) = A
  <2>1. {w.node} \ {w.node} = {}
    OBVIOUS
  <2> QED
    BY <1>8, <2>1 DEF Addresses, A
<1>10. e2[r] >= 1
  BY <1>5, <1>6, <1>7 DEF One
<1>11. e3 \in [A -> Int] /\ \A x \in A : e3[x] = e2[x] - One(r, x)
  BY <1>7 DEF Minus, One
<1> HIDE DEF e3
<1>12. Sound(h2, e3, {}) /\ ~Thrown(h2) /\ h2.node = h1.node
  BY <1>5, <1>8, <1>9, <1>10, UnpinSound DEF h2, e3
<1>13. Addresses(h2) = A /\ e3 \in [A -> Nat]
  BY <1>9, <1>12 DEF Addresses, Sound, Accounted
<1>14. e3[n] >= 1
  <2> DEFINE o == One(r, n)
             m == One(w.node, n)
  <2>1. n \in A /\ e1[n] >= 1 + o /\ e1[n] \in Nat /\ o \in Nat /\ m \in Nat
    BY <1>5, <1>6 DEF One
  <2>2. e3[n] = (e1[n] + m) - o
    BY <1>7, <1>11, <2>1
  <2> HIDE DEF o, m
  <2> QED
    BY <2>1, <2>2
<1>15. e4 \in [A -> Int] /\ \A x \in A : e4[x] = e3[x] - One(n, x)
  BY <1>13 DEF Minus, One
<1> HIDE DEF e4
<1>16. Sound(g, e4, {}) /\ ~Thrown(g) /\ g.node = h2.node
  BY <1>5, <1>12, <1>13, <1>14, UnpinSound DEF h2, h1, e4
<1>17. Addresses(g) = A /\ e4 \in [A -> Nat]
  BY <1>13, <1>16 DEF Addresses, Sound, Accounted
<1>18. ASSUME NEW x \in A
       PROVE  e4[x] + One(r, x) + One(n, x) = e1[x] + One(w.node, x)
  <2> DEFINE o == One(r, x)
             m == One(w.node, x)
             k == One(n, x)
  <2>1. o \in Nat /\ m \in Nat /\ k \in Nat /\ e1[x] \in Nat
    BY <1>6, <1>18 DEF One
  <2>2. e4[x] = ((e1[x] + m) - o) - k
    BY <1>7, <1>11, <1>15, <1>18
  <2> HIDE DEF o, m, k
  <2>3. (((e1[x] + m) - o) - k) + o + k = e1[x] + m
    BY <2>1
  <2> QED
    BY <2>2, <2>3 DEF o, m, k
<1> QED
  BY <1>5, <1>16, <1>17, <1>18 DEF e1, GivesJoin

LEMMA JoinFinalStateStep ==
  ASSUME Typed, Running, JoinFinalState
  PROVE  Running'
<1> DEFINE n == node[Head(final)]
           w == WithFinalState
<1>1. RunTyped /\ HeapIsHeld
  BY DEF Running
<1>2. /\ mode = "join" /\ mode' = "join" /\ final # << >> /\ root # Null
      /\ ~Thrown(w.heap)
      /\ heap' = Unpin(Unpin(Pin(w.heap, w.node), root), n)
      /\ root' = w.node /\ final' = Tail(final)
      /\ UNCHANGED <<va, node, phase, current, next, pairs, pos, end>>
  BY DEF JoinFinalState, input, det
<1>3. final \in Seq(DOMAIN node)
  BY <1>1 DEF RunTyped
<1>4. /\ Tail(final) \in Seq(DOMAIN node) /\ ToSet(Tail(final)) \subseteq ToSet(final)
      /\ Head(final) \in ToSet(final)
      /\ IsInjective(final) => IsInjective(Tail(final))
  BY <1>2, <1>3, TailIsInjective
<1>5. /\ ~Thrown(heap) /\ Sound(heap, Held, {})
      /\ Held \in [Addresses(heap) -> Nat]
      /\ root \in Addresses(heap) /\ Held[root] >= 1
      /\ n \in Addresses(heap)
  BY <1>1, <1>2, <1>4, AliveIsHeld DEF HeapIsHeld, Alive, Pending
<1>6. Held[n] >= 1 + One(root, n)
  <2> DEFINE c == Holds(node, current, n)
             v == Holds(node, next, n)
             f == Holds(node, final, n)
             o == One(root, n)
  <2>1. f >= 1
    BY <1>3, <1>4, MemberHolds
  <2>2. c \in Nat /\ v \in Nat /\ f \in Nat /\ o \in Nat
    BY <1>1, SumIsNat DEF RunTyped
  <2>3. Held[n] = c + v + f + o
    BY <1>5, HeldSum DEF References
  <2> HIDE DEF n, c, v, f, o
  <2>4. c + v + f + o >= 1 + o
    BY <2>1, <2>2
  <2> QED
    BY <2>3, <2>4 DEF o
<1>7. w = CreateUnion(heap, root, n)
  BY DEF WithFinalState
<1> HIDE DEF n, w
<1>8. GivesJoin(heap, Held, root, n, w.node, heap')
  BY <1>2, <1>5, <1>6, <1>7, JoinGives
<1>9. HeapIsHeld'
  <2>1. PICK e \in [Addresses(heap') -> Nat] :
           /\ Sound(heap', e, {})
           /\ \A x \in Addresses(heap') :
                e[x] + One(root, x) + One(n, x)
                  = Padded(Held, Addresses(heap'))[x] + One(w.node, x)
    BY <1>8 DEF GivesJoin
  <2>2. Null \notin Addresses(heap')
    BY <2>1, AddressesAreNat DEF Sound, Accounted, WellFormed, Null
  <2>3. ASSUME NEW x \in Addresses(heap')
        PROVE  e[x] = References(node', current', next', final', root', x)
    <3> DEFINE c == Holds(node, current, x)
               v == Holds(node, next, x)
               f == Holds(node, final, x)
               t == Holds(node, Tail(final), x)
               o == One(n, x)
               r == One(root, x)
               m == One(w.node, x)
               a == e[x]
    <3>1. f = t + o
      BY <1>2, <1>3, HoldsTail DEF n
    <3>2. c \in Nat /\ v \in Nat /\ f \in Nat /\ t \in Nat /\ o \in Nat /\ r \in Nat /\ m \in Nat
      <4>1. o \in Nat /\ r \in Nat /\ m \in Nat
        BY DEF One
      <4> QED
        BY <1>1, <1>4, <4>1, HoldsIsNat DEF RunTyped
    <3>3. Padded(Held, Addresses(heap'))[x] = c + v + f + r
      <4>1. Padded(Held, Addresses(heap'))
              = [y \in Addresses(heap') |-> References(node, current, next, final, root, y)]
        BY <1>1, <1>8, <2>2, PaddedHeld DEF GivesJoin
      <4> QED
        BY <2>3, <4>1 DEF References
    <3>4. References(node', current', next', final', root', x) = c + v + t + m
      BY <1>2 DEF References
    <3>5. a + r + o = (c + v + f + r) + m
      BY <2>1, <2>3, <3>3
    <3>6. a \in Nat
      BY <2>1, <2>3
    <3> HIDE DEF c, v, f, t, o, r, m, a
    <3>7. a = c + v + t + m
      BY <3>1, <3>2, <3>5, <3>6
    <3> QED
      BY <3>4, <3>7 DEF a
  <2>4. Held' = e
    BY <2>1, <2>3, HeldSum
  <2>5. Alive' \subseteq Alive
    BY <1>2, <1>4 DEF Alive, Pending
  <2>6. \A D \in Alive' : node'[D] \in Addresses(heap')
    BY <1>1, <1>2, <1>8, <2>5 DEF HeapIsHeld, GivesJoin
  <2> QED
    BY <1>2, <1>8, <2>1, <2>4, <2>6 DEF HeapIsHeld, GivesJoin
<1> QED
  BY <1>2, <1>4, <1>9, RootStep

----------------------------------------------------------------------------
(***************************************************************************)
(* The steps of the two algorithms.                                        *)
(***************************************************************************)
LEMMA HandOnEitherStep ==
  ASSUME Typed, Running, NEW p,
         NEW u \in {Update(p[2], Handed(p)), KeepFirst(p[2], Handed(p))},
         HandOnAs(p, u)
  PROVE  Running'
<1>1. Hands(p) /\ ~Thrown(u.heap)
  BY DEF HandOnAs, Hands, IsNextPair
<1>2. GivesUpdate(p[2], u)
  BY <1>1, EitherGives
<1> QED
  BY <1>2, HandOnStep

LEMMA EnumerateStep ==
  ASSUME Typed, Running, kind' = kind, Enumerate
  PROVE  Running'
<1>1. UNCHANGED <<heap, root>>
  BY DEF Enumerate, Enum!Resume, Enum!ReturnMapping, Enum!ConsumeKLabelNode,
         Enum!ConsumeUnionNode, Enum!Visits
<1>2. /\ mode = "list" /\ mode' = "list"
      /\ UNCHANGED <<va, node, phase, current, next, final, pairs, pos, end>>
  BY DEF Enumerate, input, det, lists
<1>3. mode' = "list" /\ kind' \notin Findones => final = << >>
  BY <1>2 DEF Running
<1> QED
  BY <1>1, <1>2, <1>3, ModeStep

LEMMA AlgorithmStepKeeps ==
  ASSUME Typed, Running, kind' = kind, kind \notin Findones, AlgorithmNext
  PROVE  mode' = "thrown" \/ Running'
<1>1. CASE GetNextStates
  BY <1>1, GetNextStatesStep
<1>2. CASE DieOut \/ LeaveState
  BY <1>2, LeaveStep DEF DieOut, LeaveState
<1>3. CASE \E p \in pairs : HandOn(p)
  BY <1>3, HandOnEitherStep DEF HandOn
<1>4. CASE SwapStateLists
  BY <1>4, SwapStateListsStep
<1>5. CASE ReadCharacter
  BY <1>5, ReadCharacterStep
<1>6. CASE EndOfSegment
  <2>1. ~(pos < end)
    BY <1>6 DEF EndOfSegment, Running, RunTyped
  <2> QED
    BY <1>6, <2>1, ModeStep DEF EndOfSegment, input, det, lists
<1>7. CASE ReleaseRoot
  BY <1>7, ReleaseRootStep
<1>8. CASE TakeFirstFinalState
  BY <1>8, TakeFirstFinalStateStep
<1>9. CASE JoinFinalState
  BY <1>9, JoinFinalStateStep
<1>10. CASE StartEnumeration
  BY <1>10, ModeStep DEF StartEnumeration, input, det, lists
<1>11. CASE FinishSegment
  BY <1>11, ModeStep DEF FinishSegment, input, det, lists
<1>12. CASE Enumerate
  BY <1>12, EnumerateStep
<1>13. CASE ResetEnumerator
  <2>1. final = << >>
    BY <1>13 DEF ResetEnumerator, Running
  <2> QED
    BY <1>13, <2>1, ModeStep DEF ResetEnumerator, input, det, lists
<1>14. CASE \/ ThrowComplexQuery \/ ThrowMemoryLimitAtJoin
            \/ \E p \in pairs : ThrowMemoryLimitAtHandOn(p)
  BY <1>14 DEF ThrowComplexQuery, ThrowMemoryLimitAtJoin, ThrowMemoryLimitAtHandOn,
               ThrowMemoryLimitAs
<1> QED
  BY <1>1, <1>2, <1>3, <1>4, <1>5, <1>6, <1>7, <1>8, <1>9, <1>10, <1>11, <1>12,
     <1>13, <1>14 DEF AlgorithmNext, AlgorithmStep

LEMMA FindoneStepKeeps ==
  ASSUME Typed, Running, kind' = kind, kind \in Findones, FindoneStep
  PROVE  mode' = "thrown" \/ Running'
<1>1. CASE GetNextStates
  BY <1>1, GetNextStatesStep
<1>2. CASE DieOut \/ LeaveState
  BY <1>2, LeaveStep DEF DieOut, LeaveState
<1>3. CASE \E p \in pairs : UpdateSets(p)
  BY <1>3, HandOnEitherStep DEF UpdateSets
<1>4. CASE SwapStateLists
  BY <1>4, SwapStateListsStep
<1>5. CASE ReadCharacter
  BY <1>5, ReadCharacterStep
<1>6. CASE EndOfSegment
  <2>1. ~(pos < end)
    BY <1>6 DEF EndOfSegment, Running, RunTyped
  <2> QED
    BY <1>6, <2>1, ModeStep DEF EndOfSegment, input, det, lists
<1>7. CASE AddNode
  BY <1>7, ModeStep DEF AddNode, input, det, lists
<1>8. CASE Enumerate
  BY <1>8, EnumerateStep
<1>9. CASE ReturnMatch
  BY <1>9, ModeStep DEF ReturnMatch, input, det, lists
<1>10. CASE ThrowComplexQuery \/ \E p \in pairs : ThrowMemoryLimit(p)
  BY <1>10 DEF ThrowComplexQuery, ThrowMemoryLimit, ThrowMemoryLimitAs
<1> QED
  BY <1>1, <1>2, <1>3, <1>4, <1>5, <1>6, <1>7, <1>8, <1>9, <1>10 DEF FindoneStep

----------------------------------------------------------------------------
(***************************************************************************)
(* The mediators: the filter leaves the algorithm alone, and the first     *)
(* segment it finds is where the evaluation begins.                        *)
(***************************************************************************)
LEMMA FilterKeepsTyped ==
  ASSUME Typed, Seg!Next, UNCHANGED <<va, query, taken>>
  PROVE  Typed'
<1>1. Len(document) \in Nat /\ Size(document) = Len(document) + 1
  BY DEF Typed, Size
<1>2. document' = document
  BY DEF Seg!Next, Seg!EvaluateStartChar, Seg!BeginNext, Seg!ReadAccepting,
         Seg!ReadContinuing, Seg!ReadEnding, Seg!Advances, Seg!ReturnSegment,
         Seg!ReturnLastSegment, Seg!ReturnNull, Seg!ThrowComplexQuery
<1>3. /\ i_src \in 0..Size(document) /\ i_min \in 0..Size(document)
      /\ i_max \in 0..Size(document)
      /\ segments \in Seq((0..Size(document)) \X (0..Size(document)))
  BY DEF Typed
<1>4. /\ i_src' \in 0..Size(document) /\ i_min' \in 0..Size(document)
      /\ i_max' \in 0..Size(document)
  <2>1. CASE Seg!EvaluateStartChar \/ Seg!BeginNext \/ Seg!ThrowComplexQuery
    BY <1>3, <2>1 DEF Seg!EvaluateStartChar, Seg!BeginNext, Seg!ThrowComplexQuery
  <2>2. CASE Seg!ReadAccepting \/ Seg!ReadContinuing \/ Seg!ReadEnding
    <3>1. i_src < Size(document) /\ i_src' = i_src + 1
      BY <2>2 DEF Seg!ReadAccepting, Seg!ReadContinuing, Seg!ReadEnding, Seg!Reads,
                  Seg!Advances, Seg!Size, Size
    <3>2. /\ i_max' = i_max \/ i_max' = i_src + 1
          /\ i_min' = i_min \/ i_min' = i_src + 1 \/ i_min' = i_src
      BY <2>2 DEF Seg!ReadAccepting, Seg!ReadContinuing, Seg!ReadEnding, Seg!StartAgain
    <3> QED
      BY <1>1, <1>3, <3>1, <3>2
  <2>3. CASE Seg!ReturnSegment \/ Seg!ReturnLastSegment \/ Seg!ReturnNull
    <3>1. /\ i_src' = i_src /\ i_max' = i_max
          /\ i_min' = i_min \/ i_min' = Size(document)
      BY <2>3 DEF Seg!ReturnSegment, Seg!ReturnLastSegment, Seg!ReturnNull, Seg!Size, Size
    <3> QED
      BY <1>1, <1>3, <3>1
  <2> QED
    BY <2>1, <2>2, <2>3 DEF Seg!Next
<1>5. segments' \in Seq((0..Size(document)) \X (0..Size(document)))
  <2> DEFINE T == (0..Size(document)) \X (0..Size(document))
             last == <<i_min, i_max>>
  <2>1. segments' = segments \/ segments' = Append(segments, <<i_min, i_max>>)
    BY DEF Seg!Next, Seg!EvaluateStartChar, Seg!BeginNext, Seg!ReadAccepting,
           Seg!ReadContinuing, Seg!ReadEnding, Seg!Advances, Seg!ReturnSegment,
           Seg!ReturnLastSegment, Seg!Returns, Seg!ReturnNull, Seg!ThrowComplexQuery
  <2>2. segments \in Seq(T) /\ last \in T
    BY <1>3
  <2>3. segments' = segments \/ segments' = Append(segments, last)
    BY <2>1
  <2> HIDE DEF T, last
  <2>4. segments' \in Seq(T)
    BY <2>2, <2>3
  <2> QED
    BY <2>4 DEF T
<1> QED
  BY <1>2, <1>4, <1>5 DEF Typed

\* Steps that leave the algorithm alone.
LEMMA SameRun ==
  ASSUME Typed, Running,
         UNCHANGED <<kind, va, char, heap, det, lists, pairs, pos, end, root, mode>>
  PROVE  Running'
<1>1. RunTyped /\ HeapIsHeld
  BY DEF Running
<1>2. PICK half \in {0, 1} : Apart(half) /\ Phases(half)
  BY DEF Running
<1>3. RunTyped'
  BY <1>1 DEF RunTyped, Visits, det, lists
<1>4. HeapIsHeld'
  BY <1>1, SameHeap DEF det, lists
<1>5. Apart(half)'
  BY <1>2 DEF Apart, GoesOn, lists
<1>6. Phases(half)'
  BY <1>2 DEF Phases, Pending, Visits, GoesOn, det, lists
<1>7. (mode = "list" /\ kind \notin Findones => final = << >>)'
  BY DEF Running, lists
<1> QED
  BY <1>3, <1>4, <1>5, <1>6, <1>7 DEF Running

LEMMA SameBeforeTheFirst ==
  ASSUME BeforeTheFirst, UNCHANGED <<va, heap, det, lists, pairs, root>>,
         mode' \in {"segment", "done", "thrown"}
  PROVE  BeforeTheFirst'
BY DEF BeforeTheFirst, det, lists

LEMMA StartHalf ==
  ASSUME Typed
  PROVE  GoesOn(0, InitialSubset(va))
<1>1. PICK q \in Queries : va = CleanForDeterminization(q.va)
  BY DEF Typed
<1>2. va.initial = <<q.va.initial, 0>> /\ va.initial # va.accepting
  BY <1>1, TransitionsChangeHalf
<1> QED
  BY <1>2 DEF GoesOn, InHalf, IsAccepting, InitialSubset

LEMMA SpanIsTyped ==
  ASSUME Typed, taken < IF kind \in OfDocument THEN 1 ELSE Len(segments)
  PROVE  /\ Widened(SegmentToEvaluate)[1] \in 0..MaxDocument + 1
         /\ Widened(SegmentToEvaluate)[2] \in 0..MaxDocument + 2
<1> DEFINE s == SegmentToEvaluate
<1>1. Len(document) \in Nat /\ Len(document) <= MaxDocument
      /\ Size(document) = Len(document) + 1
  BY DEF Typed, Size
<1>2. s[1] \in 0..Size(document) /\ s[2] \in 0..Size(document)
  <2>1. CASE kind \in OfDocument
    <3>1. s = <<0, Size(document)>>
      BY <2>1 DEF SegmentToEvaluate
    <3> QED
      BY <1>1, <3>1
  <2>2. CASE kind \notin OfDocument
    <3>1. s = segments[Len(segments)]
      BY <2>2 DEF SegmentToEvaluate, Last
    <3>2. Len(segments) \in DOMAIN segments
      <4>1. taken \in Nat /\ Len(segments) \in Nat /\ taken < Len(segments)
        BY <2>2 DEF Typed
      <4>2. DOMAIN segments = 1..Len(segments)
        BY DEF Typed
      <4> QED
        BY <4>1, <4>2
    <3>3. s \in (0..Size(document)) \X (0..Size(document))
      BY <3>1, <3>2 DEF Typed
    <3> QED
      BY <3>3
  <2> QED
    BY <2>1, <2>2
<1>3. Widened(s)[1] = s[1] /\ Widened(s)[2] = s[2] + 1
  BY DEF Widened
<1> HIDE DEF s
<1>4. Widened(s)[1] \in 0..MaxDocument + 1 /\ Widened(s)[2] \in 0..MaxDocument + 2
  BY <1>1, <1>2, <1>3, DocumentSizeAssumption
<1> QED
  BY <1>4 DEF s

LEMMA BeginStep ==
  ASSUME Typed, BeforeTheFirst, taken = 0, Begin
  PROVE  Running'
<1> DEFINE I == InitialSubset(va)
           n == node[I]
<1>1. /\ pos' \in 0..MaxDocument + 1 /\ end' \in 0..MaxDocument + 2
      /\ current' = <<I>> /\ next' = << >> /\ final' = << >>
      /\ phase' = [D \in DOMAIN phase |-> -1]
      /\ mode' = "start"
      /\ UNCHANGED <<va, heap, node, pairs, root>>
  <2> DEFINE w == Widened(SegmentToEvaluate)
             from == IF kind \in Findones THEN 0 ELSE w[1]
  <2>1. /\ UpdateAlgorithm(<<from, w[2]>>, taken = 0)
        /\ taken < IF kind \in OfDocument THEN 1 ELSE Len(segments)
    BY DEF Begin
  <2>2. w[1] \in 0..MaxDocument + 1 /\ w[2] \in 0..MaxDocument + 2
    BY <2>1, SpanIsTyped
  <2>3. from \in 0..MaxDocument + 1
    BY <2>2, DocumentSizeAssumption
  <2> HIDE DEF w, from
  <2> QED
    BY <2>1, <2>2, <2>3 DEF UpdateAlgorithm, BeginAt, Reset, input
<1>2. /\ DOMAIN node = {I} /\ DOMAIN phase = {I} /\ n \in Addresses(heap)
      /\ root = Null /\ pairs = Unknown /\ ~Thrown(heap)
      /\ Sound(heap, [x \in Addresses(heap) |-> One(n, x)], {})
  BY DEF BeforeTheFirst
<1>3. GoesOn(0, I)
  BY StartHalf
<1> HIDE DEF I
<1>4. RunTyped'
  <2>1. phase' \in [DOMAIN node' -> Int]
    BY <1>1, <1>2
  <2>2. /\ current' \in Seq(DOMAIN node') /\ next' \in Seq(DOMAIN node')
        /\ final' \in Seq(DOMAIN node')
    BY <1>1, <1>2
  <2>3. pos' \in 0..MaxDocument + 2 /\ pos' <= MaxDocument + 1
    BY <1>1, DocumentSizeAssumption
  <2> QED
    BY <1>1, <1>2, <2>1, <2>2, <2>3 DEF RunTyped
<1>5. HeapIsHeld'
  <2>1. \A x \in Addresses(heap) : x # Null
    BY <1>2, AddressesAreNat DEF Sound, Accounted, WellFormed, Null
  <2>2. ASSUME NEW x \in Addresses(heap)
        PROVE  References(node', current', next', final', root', x) = One(n, x)
    <3>1. Holds(node, <<I>>, x) = One(n, x)
      BY HoldsSingle
    <3>3. Holds(node, << >>, x) = 0
      BY HoldsNone
    <3>4. One(n, x) \in Nat /\ One(Null, x) = 0
      BY <2>1, <2>2 DEF One
    <3> DEFINE c == Holds(node, <<I>>, x)
               o == One(n, x)
    <3>5. c = o
      BY <3>1
    <3>6. References(node', current', next', final', root', x) = c + 0 + 0 + 0
      BY <1>1, <1>2, <3>3, <3>4 DEF References
    <3> HIDE DEF c, o
    <3>7. c + 0 + 0 + 0 = o
      BY <3>4, <3>5 DEF o
    <3> QED
      BY <3>6, <3>7 DEF o
  <2>3. Held' = [x \in Addresses(heap) |-> One(n, x)]
    BY <1>1, <2>2, HeldSum
  <2>4. Alive' = {I}
    BY <1>1 DEF Alive, Pending, ToSet
  <2> QED
    BY <1>1, <1>2, <2>3, <2>4 DEF HeapIsHeld
<1>6. Apart(0)'
  <2>1. ToSet(<<I>>) = {I} /\ ToSet(<< >>) = {} /\ IsInjective(<< >>)
    BY DEF ToSet, IsInjective
  <2> QED
    BY <1>1, <1>3, <2>1 DEF Apart, GoesOn
<1>7. Phases(0)'
  <2>1. \A D \in DOMAIN phase' : phase'[D] = -1
    BY <1>1
  <2>2. pos' \in Nat
    BY <1>1, DocumentSizeAssumption
  <2>3. \A D \in DOMAIN phase' : phase'[D] <= pos' /\ phase'[D] # pos'
    BY <2>1, <2>2
  <2>4. Pending' = {}
    BY <1>1 DEF Pending, ToSet
  <2> QED
    BY <1>1, <2>3, <2>4 DEF Phases, Visits
<1> QED
  BY <1>1, <1>4, <1>5, <1>6, <1>7 DEF Running

----------------------------------------------------------------------------
(***************************************************************************)
(* The theorem.                                                            *)
(***************************************************************************)
\* The ECS is made with its bottom node, which the initial state has pinned.
LEMMA FirstNode ==
  ASSUME NEW b, b = CreateBottom(EmptyHeap),
         NEW h, h = Pin(b.heap, b.node)
  PROVE  /\ b.node \in Addresses(h) /\ ~Thrown(h)
         /\ Sound(h, [x \in Addresses(h) |-> One(b.node, x)], {})
<1> DEFINE E == EmptyHeap
           ext == [x \in {} |-> 0]
           A == Addresses(b.heap)
           e == Padded(ext, A)
<1>1. /\ Addresses(E) = {} /\ Free(E) = {} /\ E.free = << >> /\ E \in Heap
      /\ E.dups = 0 /\ E.size = 0 /\ E.cap = StartingSize /\ E.node = << >>
      /\ DOMAIN E.ref = {}
  BY StartingSizeAssumption DEF EmptyHeap, Heap, Addresses, Free
<1>2. Sound(E, ext, {})
  <2>1. WellFormed(E) /\ FreeOK(E)
    BY <1>1 DEF WellFormed, FreeOK
  <2>2. Counted(E, {}, {}, ext)
    BY <1>1 DEF Counted
  <2> QED
    BY <1>1, <2>1, <2>2 DEF Sound, Accounted, Loose
<1>3. /\ BottomNode.left = Null /\ BottomNode.right = Null
      /\ Buildable(E, BottomNode)
  BY DEF Buildable, BottomNode, Node, Kinds, Null
<1>4. ~Thrown(b.heap)
  <2>1. ~Thrown(E) /\ ~ExceedsLimit(E) /\ ~IsFull(E)
    BY <1>1, StartingSizeAssumption, MaxDuplicationsAssumption
       DEF Thrown, ExceedsLimit, IsFull
  <2>2. b.heap = Alloc(E, BottomNode)
    BY <2>1 DEF CreateBottom, Created, Try
  <2>3. b.heap = AllocateNewNode(E, BottomNode)
    BY <1>3, <2>1, <2>2 DEF Alloc, Acquire, NodeFor, Recycles
  <2>4. b.heap.dups = 0
    BY <1>1, <2>3 DEF AllocateNewNode, EmptyHeap
  <2> QED
    BY <2>4, MaxDuplicationsAssumption DEF Thrown
<1>5. b = Created(E, BottomNode)
  BY DEF CreateBottom
<1> HIDE DEF E, ext, A
<1>6. /\ Sound(b.heap, e, ({} \ {BottomNode.left, BottomNode.right}) \cup {b.node})
      /\ Places(E, b.heap, b.node, BottomNode)
  BY <1>2, <1>3, <1>4, <1>5, CreateSound DEF A
<1>7. /\ ({} \ {BottomNode.left, BottomNode.right}) \cup {b.node} = {b.node}
      /\ b.node \in A \ Free(b.heap)
  BY <1>6 DEF Places, A
<1>8. Sound(b.heap, e, {b.node})
  BY <1>6, <1>7
<1>9. e = [x \in A |-> 0]
  BY DEF Padded, ext
<1> HIDE DEF e
<1>10. Sound(h, Plus(e, b.node), {b.node} \ {b.node}) /\ ~Thrown(h) /\ h.node = b.heap.node
  BY <1>4, <1>7, <1>8, PinSound DEF A
<1>11. Addresses(h) = A /\ {b.node} \ {b.node} = {}
  BY <1>10 DEF Addresses, A
<1>12. Plus(e, b.node) = [x \in A |-> One(b.node, x)]
  <2>1. ASSUME NEW x \in A
        PROVE  e[x] + One(b.node, x) = One(b.node, x)
    <3>1. e[x] = 0 /\ One(b.node, x) \in Nat
      BY <1>9, <2>1 DEF One
    <3> QED
      BY <3>1
  <2>2. DOMAIN e = A
    BY <1>9
  <2> QED
    BY <2>1, <2>2 DEF Plus
<1> QED
  BY <1>7, <1>10, <1>11, <1>12

LEMMA InitHolds ==
  ASSUME Init
  PROVE  IInv
<1>1. InitQuery /\ taken = 0
  BY DEF Init
<1>2. /\ query \in Queries /\ Seg!Init
      /\ Start(CleanForDeterminization(query.va), document)
  BY <1>1 DEF InitQuery
<1>3. /\ document \in Seq(Letters) /\ Len(document) <= MaxDocument
      /\ i_src = 0 /\ i_min = 0 /\ i_max = 0 /\ segments = << >>
  <2>1. document \in UNION {[1..k -> Letters] : k \in 0..MaxDocument}
    BY <1>2 DEF Seg!Init, Seg!DocumentsUpTo
  <2>2. PICK k \in 0..MaxDocument : document \in [1..k -> Letters]
    BY <2>1
  <2>3. k \in Nat /\ k <= MaxDocument
    BY DocumentSizeAssumption
  <2>4. document \in Seq(Letters) /\ Len(document) = k
    BY <2>2, <2>3
  <2> QED
    BY <1>2, <2>3, <2>4 DEF Seg!Init
<1>4. Typed
  <2>1. Len(document) \in Nat /\ Size(document) = Len(document) + 1
    BY <1>3 DEF Size
  <2>2. va = CleanForDeterminization(query.va)
    BY <1>2 DEF Start
  <2> QED
    BY <1>1, <1>2, <1>3, <2>1, <2>2 DEF Typed
<1>5. BeforeTheFirst
  <2> DEFINE b == CreateBottom(EmptyHeap)
             I == InitialSubset(va)
  <2>1. /\ heap = Pin(b.heap, b.node)
        /\ node = [D \in {I} |-> b.node] /\ DOMAIN phase = {I}
        /\ current = << >> /\ next = << >> /\ final = << >>
        /\ root = Null /\ pairs = Unknown /\ mode = "segment"
    BY <1>2 DEF Start
  <2> HIDE DEF b, I
  <2>2. DOMAIN node = {I} /\ node[I] = b.node
    BY <2>1
  <2>3. /\ b.node \in Addresses(heap) /\ ~Thrown(heap)
        /\ Sound(heap, [x \in Addresses(heap) |-> One(b.node, x)], {})
    BY <2>1, FirstNode DEF b
  <2> QED
    BY <2>1, <2>2, <2>3 DEF BeforeTheFirst, I
<1> QED
  BY <1>1, <1>4, <1>5 DEF IInv

LEMMA StepHolds ==
  ASSUME IInv, [Next]_vars
  PROVE  IInv'
<1>1. Typed /\ taken \in Nat
  BY DEF IInv, Typed
<1>2. /\ taken = 0 => BeforeTheFirst
      /\ taken = 1 => mode = "thrown" \/ Running
  BY DEF IInv
<1>3. ASSUME UNCHANGED <<query, filter, taken>>, va' = va, document' = document
      PROVE  Typed'
  BY <1>1, <1>3 DEF Typed, filter
<1>4. CASE UNCHANGED vars
  <2>1. /\ UNCHANGED <<kind, query, filter, taken>> /\ UNCHANGED algorithm
    BY <1>4 DEF vars
  <2>2. UNCHANGED <<va, document, char, heap, det, lists, pairs, pos, end, root, mode>>
    BY <2>1 DEF algorithm, input
  <2>3. Typed'
    BY <1>3, <2>1, <2>2
  <2>4. taken' = 0 => BeforeTheFirst'
    BY <1>2, <2>1, <2>2, SameBeforeTheFirst DEF BeforeTheFirst
  <2>5. taken' = 1 => mode' = "thrown" \/ Running'
    BY <1>1, <1>2, <2>1, <2>2, SameRun
  <2> QED
    BY <2>3, <2>4, <2>5 DEF IInv
<1>5. CASE AskForSegment
  <2>1. /\ Seg!Next /\ UNCHANGED <<kind, query, taken>>
        /\ UNCHANGED <<va, char, heap, det, lists, pairs, pos, end, root, mode>>
    BY <1>5 DEF AskForSegment, NextSegment
  <2>2. Typed'
    BY <1>1, <2>1, FilterKeepsTyped
  <2>3. taken' = 0 => BeforeTheFirst'
    BY <1>2, <2>1, SameBeforeTheFirst DEF BeforeTheFirst
  <2>4. taken' = 1 => mode' = "thrown" \/ Running'
    BY <1>1, <1>2, <2>1, SameRun
  <2> QED
    BY <2>2, <2>3, <2>4 DEF IInv
<1>6. CASE Begin
  <2>1. taken' = taken + 1 /\ UNCHANGED <<query, filter, va, document>>
    BY <1>6 DEF Begin, UpdateAlgorithm, input
  <2>2. Typed'
    BY <1>1, <2>1 DEF Typed, filter
  <2>3. taken' # 0 /\ (taken' = 1 => taken = 0)
    BY <1>1, <2>1
  <2>4. taken' = 1 => Running'
    BY <1>1, <1>2, <1>6, <2>3, BeginStep
  <2> QED
    BY <2>2, <2>3, <2>4 DEF IInv
<1>7. CASE ReturnNull
  <2>1. /\ mode = "segment" /\ mode' \in {"thrown", "done"}
        /\ UNCHANGED <<kind, query, filter, taken, input, heap, det, lists, pairs,
                       pos, end, root>>
    BY <1>7 DEF ReturnNull
  <2>2. UNCHANGED <<va, document, node, phase, current, next, final>>
    BY <2>1 DEF input, det, lists
  <2>3. Typed'
    BY <1>3, <2>1, <2>2
  <2>4. taken' = 0 => BeforeTheFirst'
    BY <1>2, <2>1, <2>2, SameBeforeTheFirst
  <2>5. taken' = 1 => mode' = "thrown" \/ Running'
    BY <1>1, <1>2, <2>1, <2>2, ModeStep
  <2> QED
    BY <2>3, <2>4, <2>5 DEF IInv
<1>8. ASSUME AlgorithmNext \/ FindoneStep
      PROVE  /\ mode \notin {"segment", "done", "thrown"}
             /\ va' = va /\ document' = document
  <2>1. CASE Enumerate
    BY <2>1 DEF Enumerate, input
  <2>2. CASE AlgorithmNext /\ ~Enumerate
    BY <2>2 DEF AlgorithmNext, AlgorithmStep, input, GetNextStates, ThrowComplexQuery,
         DieOut, LeaveState, Leave, HandOn, HandOnAs, ThrowMemoryLimitAtHandOn,
         ThrowMemoryLimitAs, SwapStateLists, ReleaseRoot, TakeFirstFinalState,
         JoinFinalState, ThrowMemoryLimitAtJoin, StartEnumeration, FinishSegment,
         ResetEnumerator, ReadCharacter, EndOfSegment, Visiting
  <2>3. CASE FindoneStep /\ ~Enumerate
    BY <2>3 DEF FindoneStep, input, GetNextStates, ThrowComplexQuery,
         DieOut, LeaveState, Leave, UpdateSets, HandOnAs, ThrowMemoryLimit,
         ThrowMemoryLimitAs, SwapStateLists, AddNode, ReturnMatch, ReadCharacter,
         EndOfSegment, Visiting
  <2> QED
    BY <1>8, <2>1, <2>2, <2>3
<1>9. CASE EvaluateAll /\ kind \notin Findones
  <2>1. AlgorithmNext /\ UNCHANGED <<kind, query, filter, taken>>
    BY <1>9 DEF EvaluateAll
  <2>2. Typed'
    BY <1>3, <1>8, <2>1
  <2>3. taken' # 0
    BY <1>2, <1>8, <2>1 DEF BeforeTheFirst
  <2>4. taken' = 1 => mode' = "thrown" \/ Running'
    BY <1>1, <1>2, <1>8, <1>9, <2>1, AlgorithmStepKeeps
  <2> QED
    BY <2>2, <2>3, <2>4 DEF IInv
<1>10. CASE EvaluateFirst /\ kind \in Findones
  <2>1. FindoneStep /\ UNCHANGED <<kind, query, filter, taken>>
    BY <1>10 DEF EvaluateFirst
  <2>2. Typed'
    BY <1>3, <1>8, <2>1
  <2>3. taken' # 0
    BY <1>2, <1>8, <2>1 DEF BeforeTheFirst
  <2>4. taken' = 1 => mode' = "thrown" \/ Running'
    BY <1>1, <1>2, <1>8, <1>10, <2>1, FindoneStepKeeps
  <2> QED
    BY <2>2, <2>3, <2>4 DEF IInv
<1>11. CASE Next
  <2>1. \/ AskForSegment \/ Begin \/ ReturnNull
        \/ EvaluateAll /\ kind \notin Findones
        \/ EvaluateFirst /\ kind \in Findones
    BY <1>11 DEF Next, Finditer, Findone, MultiFinditer, MultiFindone, Findones
  <2> QED
    BY <1>5, <1>6, <1>7, <1>9, <1>10, <2>1
<1> QED
  BY <1>4, <1>11

LEMMA InvariantCounts ==
  ASSUME IInv, taken <= 1
  PROVE  HeldNodesAreCounted
<1> DEFINE A == Addresses(heap)
           parents(n) == Cardinality(Lefts(heap, A, n)) + Cardinality(Rights(heap, A, n))
<1>1. taken \in {0, 1}
  BY DEF IInv, Typed
<1>2. \A n : Parents(n) = parents(n)
  BY DEF Parents, Lefts, Rights
<1>3. ASSUME NEW n
      PROVE  Holders(n) = References(node, current, next, final, root, n)
  BY HoldersSum
<1>4. CASE mode = "thrown"
  BY <1>4 DEF HeldNodesAreCounted, NodesInUseArePinned
<1>5. CASE taken = 0 /\ mode # "thrown"
  <2> DEFINE ext == [n \in A |-> One(node[InitialSubset(va)], n)]
  <2>1. /\ current = << >> /\ next = << >> /\ final = << >> /\ root = Null
        /\ mode \in {"segment", "done"} /\ Sound(heap, ext, {})
    BY <1>5 DEF IInv, BeforeTheFirst
  <2>2. WellFormed(heap) /\ Counted(heap, A, A, ext) /\ ext \in [A -> Nat]
    BY <2>1 DEF Sound, Accounted
  <2>3. ASSUME NEW n \in A
        PROVE  heap.ref[n] >= Holders(n) + Parents(n)
    <3>1. Holders(n) = 0
      <4>1. n # Null
        BY <2>2, <2>3, AddressesAreNat DEF WellFormed, Null
      <4>2. One(root, n) = 0
        BY <2>1, <4>1 DEF One
      <4>3. References(node, current, next, final, root, n) = 0 + 0 + 0 + 0
        BY <2>1, <4>2, HoldsNone DEF References
      <4> QED
        BY <1>3, <4>3
    <3>2. heap.ref[n] = parents(n) + ext[n] /\ ext[n] \in Nat
      BY <2>2, <2>3 DEF Counted
    <3>3. parents(n) \in Nat
      BY <2>2, <2>3, AddressesAreNat, CountsAreNat DEF WellFormed
    <3>4. Parents(n) = parents(n)
      BY <1>2
    <3> HIDE DEF parents, ext
    <3> QED
      BY <3>1, <3>2, <3>3, <3>4
  <2> QED
    BY <2>1, <2>3 DEF HeldNodesAreCounted, NodesInUseArePinned
<1>6. CASE taken = 1 /\ mode # "thrown"
  <2>1. Sound(heap, Held, {})
    BY <1>6 DEF IInv, Running, HeapIsHeld
  <2>2. /\ WellFormed(heap) /\ FreeOK(heap) /\ Counted(heap, A, A, Held)
        /\ Held \in [A -> Nat] /\ Loose(heap) = {}
    BY <2>1 DEF Sound, Accounted
  <2>3. ASSUME NEW n \in A
        PROVE  /\ heap.ref[n] = Holders(n) + Parents(n)
               /\ heap.ref[n] >= Holders(n) + Parents(n)
               /\ heap.ref[n] = 0 <=> n \in Free(heap)
    <3>1. heap.ref[n] = parents(n) + Held[n] /\ Held[n] \in Nat
      BY <2>2, <2>3 DEF Counted
    <3>2. parents(n) \in Nat
      <4>1. IsFiniteSet(A)
        BY <2>2, AddressesAreNat DEF WellFormed
      <4> QED
        BY <4>1, CountsAreNat
    <3>3. Parents(n) = parents(n) /\ Holders(n) = Held[n]
      BY <1>2, <2>3 DEF Held
    <3>4. heap.ref[n] = 0 <=> n \in Free(heap)
      BY <2>2, <2>3 DEF FreeOK, Loose
    <3> HIDE DEF parents
    <3>5. parents(n) + Held[n] = Held[n] + parents(n) /\ parents(n) + Held[n] \in Nat
      BY <3>1, <3>2
    <3> QED
      BY <3>1, <3>3, <3>4, <3>5
  <2> QED
    BY <2>3 DEF HeldNodesAreCounted, NodesInUseArePinned
<1> QED
  BY <1>1, <1>4, <1>5, <1>6

\* A findone query takes one segment at most, and so does one with useful anchors.
OneSegment ==
  /\ kind \in OfDocument => taken <= 1
  /\ kind \in Findones => taken <= Len(segments) /\ Len(segments) <= 1

LEMMA OneSegmentStep ==
  ASSUME IInv, OneSegment, [Next]_vars
  PROVE  OneSegment'
<1>1. taken \in Nat /\ segments \in Seq((0..Size(document)) \X (0..Size(document)))
  BY DEF IInv, Typed
<1>2. CASE UNCHANGED <<kind, taken, segments>>
  BY <1>2 DEF OneSegment
<1>3. CASE AskForSegment
  <2>1. /\ Seg!Next /\ UNCHANGED <<kind, taken>>
        /\ kind \in Findones => segments = << >>
    BY <1>3 DEF AskForSegment, NextSegment
  <2>2. segments' = segments \/ segments' = Append(segments, <<i_min, i_max>>)
    BY <2>1 DEF Seg!Next, Seg!EvaluateStartChar, Seg!BeginNext, Seg!ReadAccepting,
           Seg!ReadContinuing, Seg!ReadEnding, Seg!Advances, Seg!ReturnSegment,
           Seg!ReturnLastSegment, Seg!Returns, Seg!ReturnNull, Seg!ThrowComplexQuery
  <2>3. ASSUME kind \in Findones
        PROVE  taken = 0 /\ Len(segments') \in {0, 1}
    <3>1. segments = << >>
      BY <2>1, <2>3
    <3>2. segments' = << >> \/ segments' = Append(<< >>, <<i_min, i_max>>)
      BY <2>2, <3>1
    <3>3. Len(segments) = 0
      BY <3>1
    <3> QED
      BY <1>1, <2>3, <3>2, <3>3 DEF OneSegment
  <2>4. kind \in OfDocument => taken <= 1
    BY DEF OneSegment
  <2>5. kind \in Findones => taken <= Len(segments') /\ Len(segments') <= 1
    <3>1. ASSUME kind \in Findones
          PROVE  taken <= Len(segments') /\ Len(segments') <= 1
      <4>1. taken = 0 /\ (Len(segments') = 0 \/ Len(segments') = 1)
        BY <2>3, <3>1
      <4> DEFINE n == Len(segments')
      <4>2. taken = 0 /\ (n = 0 \/ n = 1)
        BY <4>1
      <4> HIDE DEF n
      <4>3. taken <= n /\ n <= 1
        BY <4>2
      <4> QED
        BY <4>3 DEF n
    <3> QED
      BY <3>1
  <2>6. kind' = kind /\ taken' = taken
    BY <2>1
  <2>7. OfDocument' = OfDocument /\ Findones' = Findones
    BY DEF OfDocument, Findones
  <2> QED
    BY <2>4, <2>5, <2>6, <2>7 DEF OneSegment
<1>4. CASE Begin
  <2>1. /\ taken < IF kind \in OfDocument THEN 1 ELSE Len(segments)
        /\ taken' = taken + 1 /\ UNCHANGED <<kind, segments>>
    BY <1>4 DEF Begin, filter
  <2>2. kind \in Findones => kind \notin OfDocument
    BY DEF Findones, OfDocument
  <2> QED
    BY <1>1, <2>1, <2>2 DEF OneSegment
<1> QED
  BY <1>2, <1>3, <1>4 DEF Next, Finditer, Findone, MultiFinditer, MultiFindone,
     EvaluateAll, EvaluateFirst, ReturnNull, vars, filter

LEMMA OneSegmentIsTaken ==
  ASSUME IInv, OneSegment, kind \in Findones \cup OfDocument
  PROVE  taken <= 1
<1>1. taken \in Nat /\ Len(segments) \in Nat
  BY DEF IInv, Typed
<1> QED
  BY <1>1 DEF OneSegment

\* While a query is evaluated over the first segment of a document - which is all of
\* the evaluation when the query has useful anchors or asks for one match - no node of
\* the ECS is recycled that a state, the enumeration or another node needs, and each
\* that nobody needs is on the free list.
THEOREM NodesAreCounted ==
  Spec => [](taken <= 1 \/ kind \in Findones \cup OfDocument => HeldNodesAreCounted)
<1>1. Init => IInv /\ OneSegment
  <2>1. ASSUME Init
        PROVE  taken = 0 /\ segments = << >>
    BY <2>1 DEF Init, InitQuery, Seg!Init
  <2> QED
    BY <2>1, InitHolds DEF OneSegment
<1>2. IInv /\ OneSegment /\ [Next]_vars => (IInv /\ OneSegment)'
  BY StepHolds, OneSegmentStep
<1>3. IInv /\ OneSegment =>
        (taken <= 1 \/ kind \in Findones \cup OfDocument => HeldNodesAreCounted)
  BY InvariantCounts, OneSegmentIsTaken
<1> QED
  BY <1>1, <1>2, <1>3, PTL DEF Spec
=============================================================================
