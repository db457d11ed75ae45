---------------------------- MODULE ClientProofs ----------------------------
(***************************************************************************)
(* Whatever a program asks of the library, in whatever order, and whatever *)
(* the matches, the limits and the sizes of buffers are: the matches that  *)
(* it collects are those found, a match object gives the spans inside of   *)
(* what it is a submatch of, and its groups are their text.                *)
(***************************************************************************)
EXTENDS Client, FiniteSetTheorems, SequenceTheorems, WellFoundedInduction, TLAPS

(***************************************************************************)
(* The actions, one by one.                                                *)
(***************************************************************************)
AskAny ==
  \/ \E i \in 0..MaxObjects, v \in variables : AskGroup(i, v)
  \/ \E i \in 0..MaxObjects, v \in variables : AskSpans(i, v)
  \/ \E i \in 0..MaxObjects, v \in variables : AskGroups(i, v)
  \/ \E i \in 0..MaxObjects : AskEmpty(i)
  \/ \E i \in 0..MaxObjects, span \in Spans : Submatch(i, span)

Actions ==
  \/ Begin \/ BeginAgain \/ Increment \/ BeginThrows \/ IncrementThrows \/ Keep
  \/ Findone \/ FindoneThrows \/ (\E n \in Limits : Findmany(n)) \/ Findall
  \/ Collect \/ CollectThrows \/ Return
  \/ AskAny

LEMMA NextIsAnAction == Next => Actions
<1>1. MatchCalled => Keep \/ AskAny
  BY DEF MatchCalled, AskAny
<1>2. MultiMatchCalled => Keep \/ AskAny
  BY DEF MultiMatchCalled, AskAny
<1> QED
  BY <1>1, <1>2 DEF Next, Actions, MatchStandardGenerator, SMatchGenerator,
     MultiMatchGenerator, SMultiMatchGenerator, IteratorThrows, Query, MultiQuery, Collects,
     MatchStandard, SMatch, MultiMatchStandard, SMultiMatch

LEMMA AskingLeaves ==
  ASSUME AskAny
  PROVE  /\ call \in {"iterate", "over"} /\ call' \in {"iterate", "over", "crashed"}
         /\ UNCHANGED <<kind, variables, found, from, buffer, taken, limit>>
<1>1. ASSUME NEW i, Called(i)
      PROVE  call \in {"iterate", "over"}
  BY <1>1 DEF Called
<1> QED
  BY <1>1 DEF AskAny, AskGroup, AskSpans, AskGroups, AskEmpty, Submatch, generator

----------------------------------------------------------------------------
(***************************************************************************)
(* Sequences of anything.                                                  *)
(***************************************************************************)
IsList(s) == Len(s) \in Nat /\ s = [i \in 1..Len(s) |-> s[i]]

LEMMA ListIsSeq ==
  ASSUME NEW s, IsList(s), NEW T, \A i \in 1..Len(s) : s[i] \in T
  PROVE  s \in Seq(T)
BY DEF IsList

LEMMA AppendIsList ==
  ASSUME NEW s, IsList(s), NEW e
  PROVE  /\ IsList(Append(s, e)) /\ Len(Append(s, e)) = Len(s) + 1
         /\ \A i \in 1..Len(s) : Append(s, e)[i] = s[i]
         /\ Append(s, e)[Len(s) + 1] = e
         /\ DOMAIN s = 1..Len(s) /\ DOMAIN Append(s, e) = 1..Len(s) + 1
<1> DEFINE T == {s[i] : i \in 1..Len(s)} \cup {e}
           t == Append(s, e)
<1>1. Len(s) \in Nat
  BY DEF IsList
<1>2. s \in Seq(T) /\ e \in T
  BY ListIsSeq
<1> HIDE DEF T
<1>3. t \in Seq(T) /\ Len(t) = Len(s) + 1
      /\ (\A i \in 1..Len(s) : t[i] = s[i]) /\ t[Len(s) + 1] = e
  BY <1>2
<1> HIDE DEF t
<1>4. IsList(t)
  BY <1>3 DEF IsList
<1> QED
  BY <1>1, <1>2, <1>3, <1>4 DEF t, IsList

LEMMA NothingIsList == IsList(<< >>) /\ Len(<< >>) = 0
BY DEF IsList

LEMMA SingleIsList ==
  ASSUME NEW e
  PROVE  IsList(<<e>>) /\ Len(<<e>>) = 1 /\ <<e>>[1] = e /\ DOMAIN <<e>> = 1..1
BY DEF IsList

----------------------------------------------------------------------------
(***************************************************************************)
(* The matches collected: those before the one that the iterator is at. An *)
(* exception ends a collection at one of the matches to be given or at the *)
(* one after.                                                              *)
(***************************************************************************)
FoundAt(n) == IF n <= Len(found) THEN MatchObject(found[n], from) ELSE NoMatch

Collected ==
  /\ IsList(kept) /\ Len(kept) <= Len(found) /\ Len(kept) <= limit
  /\ \A i \in 1..Len(kept) : kept[i] = MatchObject(found[i], from)
  /\ taken = Len(kept) + 1
  /\ current = FoundAt(taken)

Thrown ==
  /\ taken \in Nat /\ taken <= limit + 1 /\ taken <= Len(found) + 1
  /\ taken = 0 => ~Multi /\ limit > MaxReserved

CollectInv ==
  /\ found \in Results
  /\ limit \in Nat
  /\ call = "collect" => Collected
  /\ call = "thrown" => Thrown

LEMMA FoundIsList ==
  ASSUME found \in Results
  PROVE  IsList(found)
BY ResultsAssumption DEF IsList

LEMMA MatchFields ==
  ASSUME NEW match, NEW start
  PROVE  LET o == MatchObject(match, start)
         IN  /\ o.match = match /\ o.from = start /\ o.window = <<0, Size>>
             /\ o.annotations = Annotations(match) /\ o.cache = NoCache
             /\ o.mapping = IF Multi THEN NoEntries
                            ELSE ConstructUserMapping(DOMAIN match, Annotations(match))
BY Zenon DEF MatchObject

LEMMA MatchIsThere ==
  ASSUME NEW match, NEW start
  PROVE  MatchObject(match, start) # NoMatch
<1> DEFINE o == MatchObject(match, start)
<1>1. "match" \in DOMAIN o
  BY DEF MatchObject
<1>2. "match" \notin DOMAIN NoMatch
  BY DEF NoMatch
<1> HIDE DEF o
<1>3. o # NoMatch
  BY <1>1, <1>2
<1> QED
  BY <1>3 DEF o

LEMMA CollectInit ==
  ASSUME Init
  PROVE  CollectInv
BY DEF Init, CollectInv

LEMMA FirstThrows ==
  ASSUME CollectInv, UNCHANGED <<kind, found>>, limit' \in Nat, taken' = 1, Throws
  PROVE  CollectInv'
<1>1. limit' \in Nat /\ Len(found') \in Nat /\ found' \in Results
  BY FoundIsList DEF CollectInv, IsList
<1>2. 1 \in Nat /\ 1 # 0 /\ 1 <= limit' + 1 /\ 1 <= Len(found') + 1
  <2>1. 1 \in Nat /\ 1 # 0 /\ \A n \in Nat : 1 <= n + 1
    OBVIOUS
  <2> QED
    BY <1>1, <2>1, Zenon
<1>3. Thrown' /\ call' = "thrown"
  BY <1>2, Zenon DEF Thrown, Throws
<1> QED
  BY <1>1, <1>3 DEF CollectInv

LEMMA CollectingBegins ==
  ASSUME CollectInv, NEW n \in Nat, Collecting(n)
  PROVE  CollectInv'
<1>1. UNCHANGED <<kind, found, from>> /\ limit' = n
  BY DEF Collecting, generator
<1>2. CASE NextMatch(found, from, 1) /\ call' = "collect" /\ kept' = << >>
  <2>1. taken' = 1 /\ current' = IF 1 <= Len(found) THEN MatchObject(found[1], from)
                                 ELSE NoMatch
    BY <1>2 DEF NextMatch, NextMapping
  <2>2. Len(found) \in Nat
    BY FoundIsList DEF CollectInv, IsList
  <2>3. current' = FoundAt(taken)'
    BY <1>1, <2>1 DEF FoundAt, MatchObject, Multi
  <2>4. Len(kept') = 0 /\ IsList(kept')
    BY <1>2, NothingIsList
  <2>5. Collected'
    BY <1>1, <2>1, <2>2, <2>3, <2>4 DEF Collected
  <2> QED
    BY <1>1, <1>2, <2>5 DEF CollectInv
<1>3. CASE NextThrows /\ taken' = 1 /\ Throws
  BY <1>1, <1>3, FirstThrows
<1> QED
  BY <1>2, <1>3 DEF Collecting

LEMMA FindmanyBegins ==
  ASSUME CollectInv, NEW n \in Nat, Findmany(n)
  PROVE  CollectInv'
<1>1. CASE Collecting(n)
  BY <1>1, CollectingBegins
<1>2. CASE ~Collecting(n)
  <2>1. /\ UNCHANGED <<kind, found>> /\ limit' = n /\ taken' = 0 /\ call' = "thrown"
        /\ ~Multi /\ n > MaxReserved
    BY <1>2 DEF Findmany, ReserveThrows, Throws, generator
  <2>2. Len(found) \in Nat
    BY FoundIsList DEF CollectInv, IsList
  <2>3. ~Multi'
    BY <2>1 DEF Multi
  <2>4. Thrown'
    BY <2>1, <2>2, <2>3 DEF Thrown
  <2> QED
    BY <2>1, <2>4 DEF CollectInv
<1> QED
  BY <1>1, <1>2

LEMMA CollectThrowsStep ==
  ASSUME CollectInv, CollectThrows
  PROVE  CollectInv'
<1>1. /\ Collected /\ current # NoMatch /\ ~(Len(kept) >= limit)
      /\ found' = found /\ limit' = limit /\ call' = "thrown" /\ taken' = taken + 1
  BY DEF CollectThrows, CollectInv, CollectionEnds, Throws, generator
<1>2. Len(found) \in Nat /\ limit \in Nat /\ Len(kept) \in Nat
  BY <1>1, FoundIsList DEF CollectInv, Collected, IsList
<1>3. taken = Len(kept) + 1 /\ taken <= Len(found)
  BY <1>1 DEF Collected, FoundAt
<1>4. taken' \in Nat /\ taken' # 0 /\ taken' <= limit' + 1 /\ taken' <= Len(found') + 1
  BY <1>1, <1>2, <1>3
<1>5. Thrown'
  BY <1>4 DEF Thrown
<1> QED
  BY <1>1, <1>2, <1>5 DEF CollectInv

LEMMA CollectStep ==
  ASSUME CollectInv, Collect
  PROVE  CollectInv'
<1>1. /\ call = "collect" /\ ~CollectionEnds /\ Collected
      /\ kept' = Append(kept, current) /\ found' = found /\ from' = from
      /\ limit' = limit /\ call' = call /\ taken' = taken + 1 /\ kind' = kind
  BY DEF Collect, CollectInv, generator, NextMatch, NextMapping
<1>2. current' = IF taken + 1 <= Len(found) THEN MatchObject(found[taken + 1], from)
                 ELSE NoMatch
  BY <1>1 DEF Collect, NextMatch
<1>3. current' = FoundAt(taken)'
  BY <1>1, <1>2 DEF FoundAt, MatchObject, Multi
<1>4. Len(found) \in Nat /\ limit \in Nat
  BY FoundIsList DEF CollectInv, IsList
<1>5. current # NoMatch /\ ~(Len(kept) >= limit)
  BY <1>1 DEF CollectionEnds
<1>6. taken <= Len(found) /\ current = MatchObject(found[taken], from)
      /\ taken = Len(kept) + 1 /\ Len(kept) \in Nat
  BY <1>1, <1>5 DEF Collected, FoundAt, IsList
<1>7. /\ IsList(kept') /\ Len(kept') = Len(kept) + 1
      /\ \A i \in 1..Len(kept) : kept'[i] = kept[i]
      /\ kept'[Len(kept) + 1] = current
  BY <1>1, AppendIsList DEF Collected
<1>8. \A i \in 1..Len(kept') : kept'[i] = MatchObject(found[i], from)
  <2> SUFFICES ASSUME NEW i \in 1..Len(kept')
               PROVE  kept'[i] = MatchObject(found[i], from)
    OBVIOUS
  <2>1. i \in 1..Len(kept) \/ i = Len(kept) + 1
    BY <1>6, <1>7
  <2>2. \A j \in 1..Len(kept) : kept[j] = MatchObject(found[j], from)
    BY <1>1 DEF Collected
  <2> QED
    BY <1>6, <1>7, <2>1, <2>2
<1>9. \A i \in 1..Len(kept') : kept'[i] = MatchObject(found[i], from)'
  BY <1>1, <1>8 DEF MatchObject, Multi
<1>10. Len(kept') <= Len(found) /\ Len(kept') <= limit /\ taken' = Len(kept') + 1
  BY <1>1, <1>4, <1>5, <1>6, <1>7
<1>11. Collected'
  BY <1>1, <1>3, <1>7, <1>9, <1>10 DEF Collected
<1> QED
  BY <1>1, <1>11 DEF CollectInv

LEMMA CollectKeeps ==
  ASSUME CollectInv, [Next]_vars
  PROVE  CollectInv'
<1>1. CASE UNCHANGED vars
  <2>1. UNCHANGED <<found, from, kind, limit, call, kept, taken, current>>
    BY <1>1 DEF vars, generator
  <2> QED
    BY <2>1 DEF CollectInv, Collected, Thrown, FoundAt, MatchObject, Multi, IsList
<1>2. ASSUME found' \in Results, limit' \in {0, limit}, call' \notin {"collect", "thrown"}
      PROVE  CollectInv'
  BY <1>2 DEF CollectInv
<1>3. CASE Begin \/ Increment \/ BeginThrows \/ IncrementThrows \/ Keep \/ Findone \/ Return
  <2>1. found' = found /\ limit' \in {0, limit} /\ call' \notin {"collect", "thrown"}
    BY <1>3 DEF Begin, Increment, BeginThrows, IncrementThrows, Keep, Findone, Return,
       generator
  <2> QED
    BY <1>2, <2>1 DEF CollectInv
<1>4. CASE BeginAgain
  BY <1>2, <1>4 DEF BeginAgain
<1>5. CASE AskAny
  BY <1>2, <1>5, AskingLeaves DEF CollectInv
<1>6. CASE \E n \in Limits : Findmany(n)
  BY <1>6, FindmanyBegins, BoundsAssumption
<1>7. CASE Findall
  <2>1. Len(found) + 2 \in Nat
    BY FoundIsList DEF CollectInv, IsList
  <2> QED
    BY <1>7, <2>1, CollectingBegins DEF Findall
<1>8. CASE FindoneThrows
  <2>1. UNCHANGED <<kind, found>> /\ limit' = 0 /\ taken' = 1 /\ Throws
    BY <1>8 DEF FindoneThrows, generator
  <2> QED
    BY <2>1, FirstThrows
<1>9. CASE Collect \/ CollectThrows
  BY <1>9, CollectStep, CollectThrowsStep
<1> QED
  BY <1>1, <1>3, <1>4, <1>5, <1>6, <1>7, <1>8, <1>9, NextIsAnAction DEF Actions

LEMMA LeastOfTwo ==
  ASSUME NEW m \in Nat, NEW n \in Nat, NEW k \in {m, n}, k <= m, k <= n
  PROVE  Min({m, n}) = k
<1>1. k \in {m, n} /\ \A y \in {m, n} : k <= y
  OBVIOUS
<1>2. \A x \in {m, n} : (\A y \in {m, n} : x <= y) => x = k
  BY <1>1
<1> QED
  BY <1>1, <1>2 DEF Min

LEMMA ThrownInTime ==
  ASSUME CollectInv, call = "thrown"
  PROVE  /\ taken <= Min({limit, Len(found)}) + 1
         /\ taken = 0 => ~Multi /\ limit > MaxReserved
<1>1. Thrown /\ limit \in Nat /\ Len(found) \in Nat
  BY FoundIsList DEF CollectInv, IsList
<1>2. Min({limit, Len(found)}) \in {limit, Len(found)}
  <2>1. CASE limit <= Len(found)
    BY <1>1, <2>1, LeastOfTwo
  <2>2. CASE Len(found) <= limit
    BY <1>1, <2>2, LeastOfTwo
  <2> QED
    BY <1>1, <2>1, <2>2
<1> QED
  BY <1>1, <1>2 DEF Thrown

LEMMA CollectedAreFound ==
  ASSUME CollectInv, call = "collect", CollectionEnds
  PROVE  /\ [i \in DOMAIN kept |-> kept[i].match]
                = SubSeq(found, 1, Min({limit, Len(found)}))
         /\ taken = Min({limit, Len(found)}) + 1
<1> DEFINE k == Len(kept)
           n == Len(found)
<1>1. /\ IsList(kept) /\ k \in Nat /\ k <= n /\ k <= limit /\ n \in Nat /\ limit \in Nat
      /\ \A i \in 1..k : kept[i] = MatchObject(found[i], from)
  BY FoundIsList DEF CollectInv, Collected, IsList
<1>2. k = n \/ k = limit
  <2>1. current = NoMatch => ~(k + 1 <= n)
    BY MatchIsThere DEF CollectInv, Collected, FoundAt
  <2>2. current = NoMatch \/ k >= limit
    BY DEF CollectionEnds
  <2> QED
    BY <1>1, <2>1, <2>2
<1>3. Min({limit, n}) = k
  BY <1>1, <1>2, LeastOfTwo
<1>4. DOMAIN kept = 1..k /\ taken = k + 1
  BY DEF CollectInv, Collected, IsList
<1>5. \A i \in 1..k : kept[i].match = found[i]
  BY <1>1, MatchFields
<1> HIDE DEF k, n
<1>6. SubSeq(found, 1, k) = [i \in 1..k |-> found[i]]
  <2>1. IsList(found) /\ n = Len(found)
    BY FoundIsList DEF CollectInv, n
  <2>2. found \in Seq({found[i] : i \in 1..n})
    BY <2>1, ListIsSeq
  <2> DEFINE T == {found[i] : i \in 1..n}
  <2>3. found \in Seq(T) /\ 1 \in 1..Len(found) + 1 /\ k \in 0..Len(found)
    BY <1>1, <2>1, <2>2
  <2> HIDE DEF T
  <2>4. /\ SubSeq(found, 1, k) \in Seq(T) /\ Len(SubSeq(found, 1, k)) = k
        /\ \A i \in 1..k : SubSeq(found, 1, k)[i] = found[i]
    BY <1>1, <2>1, <2>3
  <2> QED
    BY <1>1, <2>4
<1> QED
  BY <1>3, <1>4, <1>5, <1>6 DEF n

\* What findmany returns is the first matches found, in their order, as many as
\* its limit or as there are, and findall returns all of them, after whatever calls on
\* the document; each of them asks for just one match more, and loses the others only
\* to an exception of a match up to that one, or of a vector without room for the
\* limit.
THEOREM MatchesAreCollected == Spec => []EveryMatchIsCollected
<1>1. Init => CollectInv
  BY CollectInit
<1>2. CollectInv /\ [Next]_vars => CollectInv'
  BY CollectKeeps
<1>3. CollectInv => EveryMatchIsCollected
  BY CollectedAreFound, ThrownInTime DEF EveryMatchIsCollected
<1> QED
  BY <1>1, <1>2, <1>3, PTL DEF Spec

----------------------------------------------------------------------------
(* Recursive functions: one exists for each step.                          *)
(***************************************************************************)
LEMMA LeastNumber ==
  ASSUME NEW T, T \subseteq Nat, T # {}
  PROVE  \E x \in T : \A y \in T : ~(y < x)
<1> DEFINE R == {ss \in Nat \X Nat : ss[1] < ss[2]}
<1>1. IsWellFoundedOn(R, Nat)
  BY NatLessThanWellFounded, Zenon DEF OpToRel
<1>2. \E x \in T : \A y \in T : ~(<<y, x>> \in R)
  <2> HIDE DEF R
  <2> QED
    BY <1>1, WFMin
<1> QED
  BY <1>2

Follows(f, n, base, step) ==
  f = [i \in 0..n |-> IF i = 0 THEN base ELSE step[<<i, f[i - 1]>>]]

LEMMA OneMoreStep ==
  ASSUME NEW T, NEW n \in Nat, NEW base \in T, NEW k \in 1..n,
         NEW step \in [(1..n) \X T -> T],
         NEW f \in [0..(k - 1) -> T], Follows(f, k - 1, base, step)
  PROVE  \E g \in [0..k -> T] : Follows(g, k, base, step)
<1> DEFINE g == [i \in 0..k |-> IF i = k THEN step[<<k, f[k - 1]>>] ELSE f[i]]
<1>1. f[k - 1] \in T /\ step[<<k, f[k - 1]>>] \in T
  OBVIOUS
<1>2. g \in [0..k -> T]
  BY <1>1
<1>3. \A i \in 0..k - 1 : g[i] = f[i]
  OBVIOUS
<1>4. g[k] = step[<<k, f[k - 1]>>] /\ g = [i \in 0..k |-> g[i]]
  OBVIOUS
<1>5. \A i \in 0..k - 1 : f[i] = IF i = 0 THEN base ELSE step[<<i, f[i - 1]>>]
  BY DEF Follows
<1> HIDE DEF g
<1>6. ASSUME NEW i \in 0..k
      PROVE  g[i] = IF i = 0 THEN base ELSE step[<<i, g[i - 1]>>]
  <2>1. CASE i = k
    <3>1. k - 1 \in 0..k - 1 /\ k # 0
      OBVIOUS
    <3>2. g[k - 1] = f[k - 1]
      BY <1>3, <3>1
    <3> QED
      BY <1>4, <2>1, <3>1, <3>2
  <2>2. CASE i # k
    <3>1. i \in 0..k - 1 /\ (i # 0 => i - 1 \in 0..k - 1)
      BY <2>2
    <3> QED
      BY <1>3, <1>5, <3>1
  <2> QED
    BY <2>1, <2>2
<1>7. Follows(g, k, base, step)
  BY <1>4, <1>6 DEF Follows
<1> QED
  BY <1>2, <1>7

LEMMA Recursion ==
  ASSUME NEW T, NEW n \in Nat, NEW base \in T, NEW step \in [(1..n) \X T -> T]
  PROVE  \E f \in [0..n -> T] : Follows(f, n, base, step)
<1> DEFINE Has(k) == \E f \in [0..k -> T] : Follows(f, k, base, step)
           W == {k \in 0..n : ~Has(k)}
<1>1. SUFFICES ASSUME W # {} PROVE FALSE
  OBVIOUS
<1>2. PICK k \in W : \A y \in W : ~(y < k)
  <2>1. W \subseteq Nat
    OBVIOUS
  <2> HIDE DEF W
  <2> QED
    BY <1>1, <2>1, LeastNumber
<1>3. Has(0)
  <2> DEFINE f == [i \in 0..0 |-> base]
  <2>1. f \in [0..0 -> T]
    OBVIOUS
  <2>2. f = [i \in 0..0 |-> IF i = 0 THEN base ELSE step[<<i, f[i - 1]>>]]
    <3>1. \A i \in 0..0 : i = 0
      OBVIOUS
    <3> QED
      BY <3>1
  <2> HIDE DEF f
  <2> QED
    BY <2>1, <2>2 DEF Follows
<1>4. k \in 1..n
  <2>1. k \in 0..n /\ ~Has(k)
    OBVIOUS
  <2> HIDE DEF Has
  <2> QED
    BY <1>3, <2>1
<1>5. Has(k - 1)
  <2>1. k - 1 \in 0..n /\ k - 1 < k
    BY <1>4
  <2> HIDE DEF Has
  <2> QED
    BY <1>2, <2>1
<1>6. PICK f \in [0..(k - 1) -> T] : Follows(f, k - 1, base, step)
  BY <1>5
<1>7. Has(k)
  BY <1>4, <1>6, OneMoreStep
<1> QED
  BY <1>7


\* And any function that goes by that step stays among the values of the step.
GoesBy(f, n, T, base, step) ==
  /\ f = [i \in 0..n |-> f[i]]
  /\ f[0] = base
  /\ \A i \in 1..n : f[i - 1] \in T => f[i] = step[<<i, f[i - 1]>>]

LEMMA StepsStayInside ==
  ASSUME NEW T, NEW n \in Nat, NEW base \in T, NEW step \in [(1..n) \X T -> T],
         NEW f, GoesBy(f, n, T, base, step)
  PROVE  f \in [0..n -> T]
<1>0. /\ f = [i \in 0..n |-> f[i]] /\ f[0] = base
      /\ \A i \in 1..n : f[i - 1] \in T => f[i] = step[<<i, f[i - 1]>>]
  BY DEF GoesBy
<1> DEFINE W == {i \in 0..n : f[i] \notin T}
<1>1. SUFFICES ASSUME W # {} PROVE FALSE
  BY <1>0
<1>2. PICK i \in W : \A y \in W : ~(y < i)
  <2>1. W \subseteq Nat
    OBVIOUS
  <2> HIDE DEF W
  <2> QED
    BY <1>1, <2>1, LeastNumber
<1>3. i \in 1..n
  BY <1>0
<1>4. f[i - 1] \in T
  <2>1. i - 1 \in 0..n /\ i - 1 < i
    BY <1>3
  <2> QED
    BY <1>2, <2>1
<1>5. f[i] = step[<<i, f[i - 1]>>]
  BY <1>0, <1>3, <1>4
<1>6. f[i] \in T
  BY <1>3, <1>4, <1>5
<1> QED
  BY <1>6

----------------------------------------------------------------------------
(***************************************************************************)
(* The annotations of a match: one for each position where a variable      *)
(* opens or closes, from the last one to the first.                        *)
(***************************************************************************)
Positions(match) == {p \in 0..Size : Codes(match, p) # {}}
Later(P, p) == {q \in P : q > p}

LEMMA LaterCounts ==
  ASSUME NEW P, IsFiniteSet(P), P \subseteq Nat
  PROVE  /\ Cardinality(P) \in Nat
         /\ \A p \in P : Cardinality(Later(P, p)) \in 0..Cardinality(P) - 1
         /\ \A p, q \in P : p < q =>
              Cardinality(Later(P, q)) < Cardinality(Later(P, p))
<1>1. Cardinality(P) \in Nat
  BY FS_CardinalityType
<1>2. ASSUME NEW p \in P
      PROVE  Cardinality(Later(P, p)) \in 0..Cardinality(P) - 1
  <2>1. Later(P, p) \in SUBSET P /\ p \notin Later(P, p)
    BY DEF Later
  <2>2. IsFiniteSet(Later(P, p)) /\ Cardinality(Later(P, p)) <= Cardinality(P)
        /\ Cardinality(P) # Cardinality(Later(P, p))
    BY <2>1, FS_Subset
  <2>3. Cardinality(Later(P, p)) \in Nat
    BY <2>2, FS_CardinalityType
  <2> QED
    BY <1>1, <2>2, <2>3
<1>3. ASSUME NEW p \in P, NEW q \in P, p < q
      PROVE  Cardinality(Later(P, q)) < Cardinality(Later(P, p))
  <2>1. Later(P, p) \in SUBSET P
    BY DEF Later
  <2>2. IsFiniteSet(Later(P, p))
    BY <2>1, FS_Subset
  <2>3. Later(P, q) \in SUBSET Later(P, p) /\ q \in Later(P, p) /\ q \notin Later(P, q)
    <3>1. p \in Nat /\ q \in Nat /\ \A x \in P : x \in Nat
      OBVIOUS
    <3>2. \A x \in P : x > q => x > p
      BY <1>3, <3>1
    <3>3. q > p /\ ~(q > q)
      BY <1>3, <3>1
    <3> QED
      BY <3>2, <3>3 DEF Later
  <2>4. Cardinality(Later(P, q)) <= Cardinality(Later(P, p))
        /\ Cardinality(Later(P, p)) # Cardinality(Later(P, q))
    BY <2>2, <2>3, FS_Subset
  <2>5. Cardinality(Later(P, q)) \in Int /\ Cardinality(Later(P, p)) \in Int
    BY <1>2
  <2> QED
    BY <2>4, <2>5
<1> QED
  BY <1>1, <1>2, <1>3

LEMMA NthIsThere ==
  ASSUME NEW P, IsFiniteSet(P), P \subseteq Nat, NEW k \in 0..Cardinality(P) - 1
  PROVE  \E p \in P : Cardinality(Later(P, p)) = k
<1> DEFINE n == Cardinality(P)
           T == 0..n - 1
           r == [p \in P |-> Cardinality(Later(P, p))]
<1>1. /\ n \in Nat
      /\ \A p \in P : Cardinality(Later(P, p)) \in 0..n - 1
      /\ \A p, q \in P : p < q => Cardinality(Later(P, q)) < Cardinality(Later(P, p))
  BY LaterCounts
<1>2. r \in [P -> T]
  BY <1>1
<1>3. \A p, q \in P : r[p] = r[q] => p = q
  <2> SUFFICES ASSUME NEW p \in P, NEW q \in P, r[p] = r[q], p # q PROVE FALSE
    OBVIOUS
  <2>1. Cardinality(Later(P, p)) = Cardinality(Later(P, q))
        /\ Cardinality(Later(P, p)) \in Int
    BY <1>1
  <2>2. p < q \/ q < p
    OBVIOUS
  <2>3. ~(p < q) /\ ~(q < p)
    BY <1>1, <2>1
  <2> QED
    BY <2>2, <2>3
<1>4. IsFiniteSet(T) /\ Cardinality(T) = n
  <2>1. 0 \in Int /\ n - 1 \in Int
    BY <1>1
  <2> HIDE DEF n
  <2>2. IsFiniteSet(T) /\ Cardinality(T) = IF 0 > n - 1 THEN 0 ELSE n - 1 - 0 + 1
    BY <2>1, FS_Interval
  <2> QED
    BY <1>1, <2>2
<1> HIDE DEF T
<1>5. r \in Injection(P, T)
  BY <1>2, <1>3 DEF Injection, IsInjective
<1> HIDE DEF r
<1>6. r \in Surjection(P, T)
  BY <1>4, <1>5, FS_Injection
<1>7. k \in T
  BY DEF T
<1>8. PICK p \in P : r[p] = k
  BY <1>6, <1>7 DEF Surjection
<1> QED
  BY <1>8 DEF r

LEMMA AnnotationsAreInOrder ==
  ASSUME NEW match
  PROVE  LET A == Annotations(match)
         IN  /\ IsList(A)
             /\ \A i \in 1..Len(A) : /\ A[i] = <<Codes(match, A[i][2]), A[i][2]>>
                                     /\ A[i][2] \in Positions(match)
             /\ \A i, j \in 1..Len(A) : i < j => A[j][2] < A[i][2]
             /\ \A p \in Positions(match) : \E i \in 1..Len(A) : A[i][2] = p
<1> DEFINE P == Positions(match)
           n == Cardinality(P)
           nth(i) == CHOOSE p \in P : Cardinality(Later(P, p)) = i - 1
           A == Annotations(match)
<1>1. IsFiniteSet(P) /\ P \subseteq Nat
  <2>1. Size \in Nat
    BY BoundsAssumption
  <2>2. IsFiniteSet(0..Size)
    BY <2>1, FS_Interval, 0 \in Int, Size \in Int
  <2> QED
    BY <2>1, <2>2, FS_Subset, P \in SUBSET (0..Size) DEF Positions
<1>2. A = [i \in 1..n |-> <<Codes(match, nth(i)), nth(i)>>]
  BY DEF Annotations, Positions, Later
<1> HIDE DEF P, A
<1>3. /\ n \in Nat
      /\ \A p \in P : Cardinality(Later(P, p)) \in 0..n - 1
      /\ \A p, q \in P : p < q => Cardinality(Later(P, q)) < Cardinality(Later(P, p))
  BY <1>1, LaterCounts
<1>4. \A i \in 1..n : nth(i) \in P /\ Cardinality(Later(P, nth(i))) = i - 1
  <2> SUFFICES ASSUME NEW i \in 1..n
               PROVE  nth(i) \in P /\ Cardinality(Later(P, nth(i))) = i - 1
    OBVIOUS
  <2>1. i - 1 \in 0..Cardinality(P) - 1
    BY <1>3
  <2>2. \E p \in P : Cardinality(Later(P, p)) = i - 1
    BY <1>1, <2>1, NthIsThere
  <2> QED
    BY <2>2
<1> HIDE DEF nth
<1>5. \A i, j \in 1..n : i < j => nth(j) < nth(i)
  <2> SUFFICES ASSUME NEW i \in 1..n, NEW j \in 1..n, i < j, ~(nth(j) < nth(i))
               PROVE  FALSE
    OBVIOUS
  <2>1. nth(i) \in Nat /\ nth(j) \in Nat
    BY <1>1, <1>4
  <2>2. nth(i) # nth(j)
    BY <1>4
  <2>3. nth(i) < nth(j)
    BY <2>1, <2>2
  <2>4. Cardinality(Later(P, nth(j))) < Cardinality(Later(P, nth(i)))
    BY <1>3, <1>4, <2>3
  <2> QED
    BY <1>4, <2>4
<1>6. \A p \in P : \E i \in 1..n : nth(i) = p
  <2> SUFFICES ASSUME NEW p \in P PROVE \E i \in 1..n : nth(i) = p
    OBVIOUS
  <2> DEFINE i == Cardinality(Later(P, p)) + 1
  <2>1. i \in 1..n /\ Cardinality(Later(P, p)) = i - 1
    BY <1>3
  <2> HIDE DEF i
  <2>2. Cardinality(Later(P, nth(i))) = Cardinality(Later(P, p)) /\ nth(i) \in P
    BY <1>4, <2>1
  <2>3. p \in Nat /\ nth(i) \in Nat
    BY <1>1, <2>2
  <2>4. ~(p < nth(i)) /\ ~(nth(i) < p)
    BY <1>3, <2>2, <2>3
  <2> QED
    BY <2>1, <2>3, <2>4
<1> HIDE DEF n
<1>7. Len(A) = n /\ IsList(A)
  BY <1>2, <1>3 DEF IsList
<1>8. \A i \in 1..n : A[i] = <<Codes(match, nth(i)), nth(i)>> /\ A[i][2] = nth(i)
  BY <1>2
<1> QED
  BY <1>4, <1>5, <1>6, <1>7, <1>8 DEF A, P

----------------------------------------------------------------------------
(***************************************************************************)
(* ExtendedMapping, one annotation after the other and one variable at a   *)
(* time.                                                                   *)
(***************************************************************************)
Annotation == (SUBSET Nat) \X Nat
Annotated(A) == IsList(A) /\ \A i \in 1..Len(A) : A[i] \in Annotation

MapsInto(T) == UNION {[D -> T] : D \in SUBSET Nat}
ExtendedMaps == [spans : MapsInto(Seq(Int \X Int)), buffer : MapsInto(Int \X Int)]
NoMaps == [spans |-> NoEntries, buffer |-> NoEntries]

SpansSoFar(maps, v) == Entry(maps.spans, v, << >>)

LEMMA MapIsTyped ==
  ASSUME NEW T, NEW D \in SUBSET Nat, NEW f, f = [v \in D |-> f[v]],
         \A v \in D : f[v] \in T
  PROVE  f \in MapsInto(T)
<1>1. f \in [D -> T]
  OBVIOUS
<1> QED
  BY <1>1 DEF MapsInto

LEMMA EntryIsTyped ==
  ASSUME NEW T, NEW default \in T, NEW f \in MapsInto(T), NEW v
  PROVE  Entry(f, v, default) \in T /\ DOMAIN f \in SUBSET Nat
BY DEF Entry, MapsInto

LEMMA NoMapsAreTyped ==
  /\ NoMaps \in ExtendedMaps
  /\ \A v : SpansSoFar(NoMaps, v) = << >> /\ Buffered(NoMaps, v) = <<0, 0>>
<1>1. \A T : NoEntries \in MapsInto(T)
  <2> SUFFICES ASSUME NEW T PROVE NoEntries \in MapsInto(T)
    OBVIOUS
  <2>1. NoEntries \in [{} -> T] /\ {} \in SUBSET Nat
    BY DEF NoEntries
  <2> QED
    BY <2>1 DEF MapsInto
<1>2. NoMaps.spans = NoEntries /\ NoMaps.buffer = NoEntries /\ DOMAIN NoEntries = {}
  BY DEF NoMaps, NoEntries
<1>3. NoMaps \in ExtendedMaps
  BY <1>1 DEF NoMaps, ExtendedMaps
<1> QED
  BY <1>2, <1>3 DEF SpansSoFar, Buffered, Entry

VariablesOf(a) == Variables(a[1])

LEMMA VariablesAreNat ==
  ASSUME NEW code \in SUBSET Nat
  PROVE  /\ Variables(code) \in SUBSET Nat
         /\ \A v : Opens(code, v) \/ Closes(code, v) => v \in Variables(code)
<1>1. \A bit \in Nat : bit \div 2 \in Nat
  OBVIOUS
<1> QED
  BY <1>1 DEF Variables, Variable, Opens, Closes

LEMMA ExtendedStep ==
  ASSUME NEW maps \in ExtendedMaps, NEW a \in Annotation
  PROVE  LET after == ProcessExtendedAnnotation(maps, a)
         IN  /\ after \in ExtendedMaps
             /\ \A v :
                  /\ SpansSoFar(after, v) =
                       IF Ends(maps, a[1], v)
                         THEN Append(SpansSoFar(maps, v), <<Buffered(maps, v)[1], a[2]>>)
                         ELSE SpansSoFar(maps, v)
                  /\ Buffered(after, v) =
                       IF Opens(a[1], v) THEN <<a[2], INVALID_POSITION>>
                       ELSE IF Ends(maps, a[1], v) THEN <<Buffered(maps, v)[1], a[2]>>
                       ELSE Buffered(maps, v)
<1> DEFINE code == a[1]
           pos == a[2]
           ended == {v \in Variables(code) : Ends(maps, code, v)}
           span(v) == <<Buffered(maps, v)[1], pos>>
           spans == [v \in DOMAIN maps.spans \cup ended |->
                       IF v \in ended THEN Append(Entry(maps.spans, v, << >>), span(v))
                       ELSE maps.spans[v]]
           buffered == [v \in DOMAIN maps.buffer \cup Variables(code) |->
                          IF Opens(code, v) THEN <<pos, INVALID_POSITION>>
                          ELSE IF v \in ended THEN span(v)
                          ELSE Buffered(maps, v)]
           after == ProcessExtendedAnnotation(maps, a)
<1>1. code \in SUBSET Nat /\ pos \in Nat
  BY DEF Annotation
<1>2. /\ maps.spans \in MapsInto(Seq(Int \X Int)) /\ maps.buffer \in MapsInto(Int \X Int)
      /\ DOMAIN maps.spans \in SUBSET Nat /\ DOMAIN maps.buffer \in SUBSET Nat
  BY DEF ExtendedMaps, MapsInto
<1>3. /\ Variables(code) \in SUBSET Nat /\ ended \in SUBSET Nat
      /\ \A v : Opens(code, v) => v \in Variables(code)
      /\ \A v : v \in ended <=> Ends(maps, code, v)
  BY <1>1, VariablesAreNat DEF Ends
<1>4. ASSUME NEW v
      PROVE  /\ Entry(maps.spans, v, << >>) \in Seq(Int \X Int)
             /\ Buffered(maps, v) \in Int \X Int
             /\ span(v) \in Int \X Int /\ <<pos, INVALID_POSITION>> \in Int \X Int
  <2>1. << >> \in Seq(Int \X Int) /\ <<0, 0>> \in Int \X Int
    OBVIOUS
  <2>2. /\ Entry(maps.spans, v, << >>) \in Seq(Int \X Int)
        /\ Entry(maps.buffer, v, <<0, 0>>) \in Int \X Int
    BY <1>2, <2>1, EntryIsTyped
  <2>3. Buffered(maps, v) \in Int \X Int
    BY <2>2 DEF Buffered
  <2> QED
    BY <1>1, <2>2, <2>3 DEF INVALID_POSITION
<1>5. after = [spans |-> spans, buffer |-> buffered]
  BY DEF ProcessExtendedAnnotation
<1> HIDE DEF after, ended, span, code, pos
<1>6. after.spans = spans /\ after.buffer = buffered
  BY <1>5
<1>7. ASSUME NEW v \in DOMAIN maps.spans \cup ended
      PROVE  spans[v] \in Seq(Int \X Int)
  <2>1. v \in DOMAIN maps.spans => maps.spans[v] = Entry(maps.spans, v, << >>)
    BY DEF Entry
  <2>2. Append(Entry(maps.spans, v, << >>), span(v)) \in Seq(Int \X Int)
    BY <1>4
  <2> QED
    BY <1>4, <2>1, <2>2
<1>8. \A v \in DOMAIN maps.buffer \cup Variables(code) : buffered[v] \in Int \X Int
  BY <1>4
<1>9. ASSUME NEW v
      PROVE  Entry(spans, v, << >>) =
               IF v \in ended THEN Append(Entry(maps.spans, v, << >>), span(v))
               ELSE Entry(maps.spans, v, << >>)
  BY DEF Entry
<1>10. ASSUME NEW v
       PROVE  Entry(buffered, v, <<0, 0>>) =
                IF Opens(code, v) THEN <<pos, INVALID_POSITION>>
                ELSE IF v \in ended THEN span(v)
                ELSE Buffered(maps, v)
  <2>1. CASE v \in DOMAIN maps.buffer \cup Variables(code)
    BY <2>1 DEF Entry
  <2>2. CASE v \notin DOMAIN maps.buffer \cup Variables(code)
    <3>1. Buffered(maps, v) = <<0, 0>> /\ v \notin ended /\ ~Opens(code, v)
      BY <1>3, <2>2 DEF Buffered, Entry, ended
    <3> QED
      BY <2>2, <3>1 DEF Entry
  <2> QED
    BY <2>1, <2>2
<1>11. spans = [v \in DOMAIN maps.spans \cup ended |-> spans[v]]
       /\ buffered = [v \in DOMAIN maps.buffer \cup Variables(code) |-> buffered[v]]
  OBVIOUS
<1>12. DOMAIN maps.spans \cup ended \in SUBSET Nat
       /\ DOMAIN maps.buffer \cup Variables(code) \in SUBSET Nat
  BY <1>2, <1>3
<1> HIDE DEF spans, buffered
<1>13. spans \in MapsInto(Seq(Int \X Int)) /\ buffered \in MapsInto(Int \X Int)
  <2> DEFINE D == DOMAIN maps.spans \cup ended
             E == DOMAIN maps.buffer \cup Variables(code)
  <2>1. D \in SUBSET Nat /\ spans = [v \in D |-> spans[v]]
        /\ \A v \in D : spans[v] \in Seq(Int \X Int)
    BY <1>7, <1>11, <1>12
  <2>2. E \in SUBSET Nat /\ buffered = [v \in E |-> buffered[v]]
        /\ \A v \in E : buffered[v] \in Int \X Int
    BY <1>8, <1>11, <1>12
  <2> HIDE DEF D, E
  <2>3. spans \in MapsInto(Seq(Int \X Int))
    BY <2>1, MapIsTyped
  <2>4. buffered \in MapsInto(Int \X Int)
    BY <2>2, MapIsTyped
  <2> QED
    BY <2>3, <2>4
<1>14. after \in ExtendedMaps
  BY <1>5, <1>13 DEF ExtendedMaps
<1>15. ASSUME NEW v
       PROVE  /\ SpansSoFar(after, v) =
                   IF Ends(maps, code, v) THEN Append(SpansSoFar(maps, v), span(v))
                   ELSE SpansSoFar(maps, v)
              /\ Buffered(after, v) =
                   IF Opens(code, v) THEN <<pos, INVALID_POSITION>>
                   ELSE IF Ends(maps, code, v) THEN span(v)
                   ELSE Buffered(maps, v)
  BY <1>3, <1>6, <1>9, <1>10 DEF SpansSoFar, Buffered
<1> QED
  BY <1>14, <1>15 DEF after, span, code, pos

IsExtendedReading(maps, A) ==
  maps = [i \in 0..Len(A) |->
            IF i = 0 THEN NoMaps
            ELSE ProcessExtendedAnnotation(maps[i - 1], A[Len(A) + 1 - i])]

LEMMA ExtendedReading ==
  ASSUME NEW A, Annotated(A)
  PROVE  \E maps \in [0..Len(A) -> ExtendedMaps] :
           /\ maps[0] = NoMaps
           /\ \A i \in 1..Len(A) :
                maps[i] = ProcessExtendedAnnotation(maps[i - 1], A[Len(A) + 1 - i])
           /\ ConstructExtendedMapping(A) = maps[Len(A)].spans
<1> DEFINE n == Len(A)
           step == [p \in (1..n) \X ExtendedMaps |->
                      ProcessExtendedAnnotation(p[2], A[n + 1 - p[1]])]
<1>1. n \in Nat /\ \A i \in 1..n : A[n + 1 - i] \in Annotation
  <2>1. n \in Nat /\ \A i \in 1..n : A[i] \in Annotation
    BY DEF Annotated, IsList
  <2>2. \A i \in 1..n : n + 1 - i \in 1..n
    BY <2>1
  <2> QED
    BY <2>1, <2>2
<1>2. step \in [(1..n) \X ExtendedMaps -> ExtendedMaps]
  <2>1. \A p \in (1..n) \X ExtendedMaps :
          ProcessExtendedAnnotation(p[2], A[n + 1 - p[1]]) \in ExtendedMaps
    <3> SUFFICES ASSUME NEW p \in (1..n) \X ExtendedMaps
                 PROVE  ProcessExtendedAnnotation(p[2], A[n + 1 - p[1]]) \in ExtendedMaps
      OBVIOUS
    <3>1. p[2] \in ExtendedMaps /\ A[n + 1 - p[1]] \in Annotation
      BY <1>1
    <3> QED
      BY <3>1, ExtendedStep
  <2> QED
    BY <2>1
<1>3. \A i \in 1..n, m \in ExtendedMaps :
        step[<<i, m>>] = ProcessExtendedAnnotation(m, A[n + 1 - i])
  OBVIOUS
<1>4. NoMaps \in ExtendedMaps
  BY NoMapsAreTyped
<1> HIDE DEF step
<1>5. PICK f \in [0..n -> ExtendedMaps] : Follows(f, n, NoMaps, step)
  BY <1>1, <1>2, <1>4, Recursion
<1>6. IsExtendedReading(f, A)
  <2>1. f = [i \in 0..n |-> IF i = 0 THEN NoMaps ELSE step[<<i, f[i - 1]>>]]
    BY <1>5 DEF Follows
  <2>2. \A i \in 0..n : f[i] = IF i = 0 THEN NoMaps
                               ELSE ProcessExtendedAnnotation(f[i - 1], A[n + 1 - i])
    <3> TAKE i \in 0..n
    <3>1. f[i] = IF i = 0 THEN NoMaps ELSE step[<<i, f[i - 1]>>]
      BY <2>1
    <3>2. i # 0 => i \in 1..n /\ f[i - 1] \in ExtendedMaps
      BY <1>1
    <3> QED
      BY <1>3, <3>1, <3>2
  <2>3. f = [i \in 0..n |-> f[i]]
    BY <1>5
  <2> QED
    BY <2>2, <2>3 DEF IsExtendedReading
<1> DEFINE r == CHOOSE r : IsExtendedReading(r, A)
<1>7. IsExtendedReading(r, A)
  BY <1>6, Zenon
<1>8. ConstructExtendedMapping(A) = r[n].spans
  BY Zenon DEF ConstructExtendedMapping, IsExtendedReading, NoMaps
<1> HIDE DEF r
<1>9. /\ r = [i \in 0..n |-> r[i]]
      /\ \A i \in 0..n : r[i] = IF i = 0 THEN NoMaps
                                ELSE ProcessExtendedAnnotation(r[i - 1], A[n + 1 - i])
  BY <1>7 DEF IsExtendedReading
<1>10. /\ r[0] = NoMaps
       /\ \A i \in 1..n : r[i] = ProcessExtendedAnnotation(r[i - 1], A[n + 1 - i])
  <2>1. 0 \in 0..n /\ \A i \in 1..n : i \in 0..n /\ i # 0
    BY <1>1
  <2> QED
    BY <1>9, <2>1
<1>11. \A i \in 1..n : r[i - 1] \in ExtendedMaps => r[i] = step[<<i, r[i - 1]>>]
  BY <1>3, <1>10
<1> HIDE DEF n
<1>12. r \in [0..n -> ExtendedMaps]
  <2>1. GoesBy(r, n, ExtendedMaps, NoMaps, step)
    BY <1>9, <1>10, <1>11 DEF GoesBy
  <2> QED
    BY <1>1, <1>2, <1>4, <2>1, StepsStayInside
<1> QED
  BY <1>8, <1>10, <1>12 DEF n

----------------------------------------------------------------------------
(***************************************************************************)
(* Matches.                                                                *)
(***************************************************************************)
IsMatch(match) ==
  \A v \in DOMAIN match :
    /\ v \in Nat
    /\ match[v] \subseteq Nat \X Nat
    /\ \A s \in match[v] : s[1] < s[2] /\ s[2] <= Size
    /\ \A s, t \in match[v] : s = t \/ s[2] <= t[1] \/ t[2] <= s[1]

LEMMA CodesOfAMatch ==
  ASSUME NEW match, IsMatch(match), NEW p \in Nat
  PROVE  /\ Codes(match, p) \in SUBSET Nat
         /\ \A v \in DOMAIN match :
              /\ Opens(Codes(match, p), v) <=> \E s \in match[v] : s[1] = p
              /\ Closes(Codes(match, p), v) <=> \E s \in match[v] : s[2] = p
<1> DEFINE opening == {v \in DOMAIN match : \E s \in match[v] : s[1] = p}
           closing == {v \in DOMAIN match : \E s \in match[v] : s[2] = p}
<1>1. Codes(match, p) = {2 * v : v \in opening} \cup {2 * v + 1 : v \in closing}
  BY DEF Codes
<1>2. \A v \in DOMAIN match : v \in Nat
  BY DEF IsMatch
<1>3. \A v \in Nat : /\ 2 * v \in Nat /\ 2 * v + 1 \in Nat
                     /\ (2 * v) \div 2 = v /\ (2 * v + 1) \div 2 = v
                     /\ (2 * v) % 2 = 0 /\ (2 * v + 1) % 2 = 1
  OBVIOUS
<1>4. Codes(match, p) \in SUBSET Nat
  BY <1>1, <1>2, <1>3
<1>5. ASSUME NEW v \in DOMAIN match
      PROVE  /\ Opens(Codes(match, p), v) <=> v \in opening
             /\ Closes(Codes(match, p), v) <=> v \in closing
  <2>1. v \in Nat
    BY <1>2
  <2>2. v \in opening => Opens(Codes(match, p), v)
    BY <1>1, <1>3, <2>1 DEF Opens, Variable, IsOpenCode
  <2>3. v \in closing => Closes(Codes(match, p), v)
    BY <1>1, <1>3, <2>1 DEF Closes, Variable, IsCloseCode
  <2>4. ASSUME NEW bit \in Codes(match, p)
        PROVE  \E w \in Nat : /\ Variable(bit) = w
                              /\ \/ w \in opening /\ ~IsCloseCode(bit) /\ IsOpenCode(bit)
                                 \/ w \in closing /\ IsCloseCode(bit) /\ ~IsOpenCode(bit)
    <3>1. (\E w \in opening : bit = 2 * w) \/ (\E w \in closing : bit = 2 * w + 1)
      BY <1>1
    <3>2. \A w \in opening \cup closing : w \in Nat
      BY <1>2
    <3> HIDE DEF opening, closing
    <3>3. CASE \E w \in opening : bit = 2 * w
      <4>1. PICK w \in opening : bit = 2 * w
        BY <3>3
      <4>2. w \in Nat
        BY <3>2
      <4> QED
        BY <1>3, <4>1, <4>2 DEF Variable, IsOpenCode, IsCloseCode
    <3>4. CASE \E w \in closing : bit = 2 * w + 1
      <4>1. PICK w \in closing : bit = 2 * w + 1
        BY <3>4
      <4>2. w \in Nat
        BY <3>2
      <4> QED
        BY <1>3, <4>1, <4>2 DEF Variable, IsOpenCode, IsCloseCode
    <3> QED
      BY <3>1, <3>3, <3>4
  <2> HIDE DEF opening, closing
  <2> QED
    BY <2>2, <2>3, <2>4 DEF Opens, Closes
<1> QED
  BY <1>4, <1>5

(***************************************************************************)
(* What ExtendedMapping knows of a variable with the spans M once it has   *)
(* processed the annotations at the positions of D, the first lo: the      *)
(* spans that have closed, and the one that is open.                       *)
(***************************************************************************)
Disjoint(M) ==
  /\ M \subseteq Nat \X Nat
  /\ \A s \in M : s[1] < s[2]
  /\ \A s, t \in M : s = t \/ s[2] <= t[1] \/ t[2] <= s[1]

Open(s, D) == s[1] \in D /\ s[2] \notin D
Closed(s, lo, D) == lo <= s[1] /\ s[2] \in D

Knows(M, lo, D, S, B) ==
  /\ S \in Seq(Int \X Int) /\ B \in Int \X Int
  /\ \A i \in 1..Len(S) : S[i] \in M /\ Closed(S[i], lo, D)
  /\ \A s \in M : Closed(s, lo, D) => \E i \in 1..Len(S) : S[i] = s
  /\ \A i, j \in 1..Len(S) : i < j => S[i][1] < S[j][1]
  /\ B[2] = INVALID_POSITION <=> \E s \in M : Open(s, D)
  /\ \A s \in M : Open(s, D) => B[1] = s[1]

Opened(M, p) == \E s \in M : s[1] = p
Ended(M, p, B) == (\E s \in M : s[2] = p) /\ B[2] = INVALID_POSITION

LEMMA NextPosition ==
  ASSUME NEW M, Disjoint(M), NEW lo \in Nat, NEW D \in SUBSET Nat, NEW p \in Nat,
         lo <= p, \A d \in D : lo <= d /\ d < p,
         \A s \in M : lo <= s[1] /\ s[1] < p => s[1] \in D,
         \A s \in M : lo <= s[2] /\ s[2] < p => s[2] \in D,
         NEW S, NEW B, Knows(M, lo, D, S, B)
  PROVE  Knows(M, lo, D \cup {p},
               IF Ended(M, p, B) THEN Append(S, <<B[1], p>>) ELSE S,
               IF Opened(M, p) THEN <<p, INVALID_POSITION>>
               ELSE IF Ended(M, p, B) THEN <<B[1], p>> ELSE B)
<1> DEFINE E == D \cup {p}
           X == IF Ended(M, p, B) THEN Append(S, <<B[1], p>>) ELSE S
           C == IF Opened(M, p) THEN <<p, INVALID_POSITION>>
                ELSE IF Ended(M, p, B) THEN <<B[1], p>> ELSE B
<1>1. \A s \in M : /\ s[1] \in Nat /\ s[2] \in Nat /\ s[1] < s[2] /\ s = <<s[1], s[2]>>
                   /\ \A t \in M : s = t \/ s[2] <= t[1] \/ t[2] <= s[1]
  BY DEF Disjoint
<1>2. /\ S \in Seq(Int \X Int) /\ B \in Int \X Int /\ Len(S) \in Nat
      /\ \A i \in 1..Len(S) : S[i] \in M /\ Closed(S[i], lo, D)
      /\ \A s \in M : Closed(s, lo, D) => \E i \in 1..Len(S) : S[i] = s
      /\ \A i, j \in 1..Len(S) : i < j => S[i][1] < S[j][1]
      /\ B[2] = INVALID_POSITION <=> \E s \in M : Open(s, D)
      /\ \A s \in M : Open(s, D) => B[1] = s[1]
  BY DEF Knows
<1>3. p \notin D
  OBVIOUS
\* The open span reaches the new position.
<1>4. ASSUME NEW t \in M, Open(t, D)
      PROVE  lo <= t[1] /\ t[1] < p /\ p <= t[2]
  BY <1>1, <1>4 DEF Open
<1>5. ASSUME NEW s \in M, s[2] = p, NEW t \in M, Open(t, D)
      PROVE  s = t
  BY <1>1, <1>4, <1>5
\* What closes there was the open one, or began before lo.
<1>6. ASSUME Ended(M, p, B)
      PROVE  \E s \in M : s = <<B[1], p>> /\ Open(s, D) /\ s[2] = p
  <2>1. PICK s \in M : s[2] = p
    BY <1>6 DEF Ended
  <2>2. PICK t \in M : Open(t, D)
    BY <1>2, <1>6 DEF Ended
  <2>3. s = t
    BY <1>5, <2>1, <2>2
  <2> QED
    BY <1>1, <1>2, <2>1, <2>2, <2>3
<1>7. ASSUME NEW s \in M, s[2] = p, lo <= s[1]
      PROVE  Ended(M, p, B)
  <2>1. Open(s, D)
    BY <1>1, <1>3, <1>7 DEF Open
  <2> QED
    BY <1>2, <1>7, <2>1 DEF Ended
<1>8. X \in Seq(Int \X Int) /\ C \in Int \X Int
  BY <1>2 DEF INVALID_POSITION
<1>9. /\ \A i \in 1..Len(X) : X[i] \in M /\ Closed(X[i], lo, E)
      /\ \A s \in M : Closed(s, lo, E) => \E i \in 1..Len(X) : X[i] = s
      /\ \A i, j \in 1..Len(X) : i < j => X[i][1] < X[j][1]
  <2>1. CASE Ended(M, p, B)
    <3>1. PICK s \in M : s = <<B[1], p>> /\ Open(s, D) /\ s[2] = p
      BY <1>6, <2>1
    <3>2. X = Append(S, s) /\ s \in Int \X Int
      BY <1>2, <2>1, <3>1
    <3> HIDE DEF X
    <3>3. /\ Len(X) = Len(S) + 1 /\ X[Len(S) + 1] = s
          /\ \A i \in 1..Len(S) : X[i] = S[i]
      BY <1>2, <3>2
    <3>4. lo <= s[1] /\ s[2] \in E
      BY <1>4, <3>1
    <3>5. ASSUME NEW i \in 1..Len(S)
          PROVE  S[i][1] < s[1]
      <4>1. S[i] \in M /\ S[i][2] \in D
        BY <1>2 DEF Closed
      <4>2. S[i][2] < p
        BY <4>1
      <4>3. S[i] # s
        BY <3>1, <4>1, <1>3
      <4> QED
        BY <1>1, <3>1, <4>1, <4>2, <4>3
    <3>6. \A i \in 1..Len(X) : i \in 1..Len(S) \/ i = Len(S) + 1
      BY <1>2, <3>3
    <3>7. \A i \in 1..Len(X) : X[i] \in M /\ Closed(X[i], lo, E)
      BY <1>2, <3>3, <3>4, <3>6 DEF Closed
    <3>8. ASSUME NEW t \in M, Closed(t, lo, E)
          PROVE  \E i \in 1..Len(X) : X[i] = t
      <4>1. CASE t[2] = p
        <5>1. t = s
          BY <1>5, <3>1, <4>1
        <5>2. Len(S) + 1 \in 1..Len(X)
          BY <1>2, <3>3
        <5> QED
          BY <3>3, <5>1, <5>2
      <4>2. CASE t[2] # p
        <5>1. Closed(t, lo, D)
          BY <3>8, <4>2 DEF Closed
        <5>2. PICK i \in 1..Len(S) : S[i] = t
          BY <1>2, <5>1
        <5>3. i \in 1..Len(X) /\ X[i] = t
          BY <1>2, <3>3, <5>2
        <5> QED
          BY <5>3
      <4> QED
        BY <4>1, <4>2
    <3>9. \A i, j \in 1..Len(X) : i < j => X[i][1] < X[j][1]
      <4> SUFFICES ASSUME NEW i \in 1..Len(X), NEW j \in 1..Len(X), i < j
                   PROVE  X[i][1] < X[j][1]
        OBVIOUS
      <4>i. i < j
        OBVIOUS
      <4> DEFINE n == Len(S)
      <4>n. n \in Nat /\ i \in 1..n + 1 /\ j \in 1..n + 1
        BY <1>2, <3>3
      <4> HIDE DEF n
      <4>m. i \in 1..n /\ (j \in 1..n \/ j = n + 1)
        BY <4>i, <4>n
      <4>1. i \in 1..Len(S) /\ (j \in 1..Len(S) \/ j = Len(S) + 1)
        BY <4>m DEF n
      <4> QED
        BY <1>2, <3>3, <3>5, <4>1
    <3> QED
      BY <3>7, <3>8, <3>9
  <2>2. CASE ~Ended(M, p, B)
    <3>1. X = S
      BY <2>2
    <3>2. \A s \in M : Closed(s, lo, E) => Closed(s, lo, D)
      BY <1>7, <2>2 DEF Closed
    <3>3. \A i \in 1..Len(S) : Closed(S[i], lo, E)
      BY <1>2 DEF Closed
    <3> QED
      BY <1>2, <3>1, <3>2, <3>3
  <2> QED
    BY <2>1, <2>2
<1>10. /\ C[2] = INVALID_POSITION <=> \E s \in M : Open(s, E)
       /\ \A s \in M : Open(s, E) => C[1] = s[1]
  <2>1. p # INVALID_POSITION
    BY DEF INVALID_POSITION
  <2>2. \A s \in M : Open(s, E) => s[1] = p \/ Open(s, D)
    BY DEF Open
  <2>3. \A s \in M : Open(s, E) => s[2] # p
    BY DEF Open
  <2>4. CASE Opened(M, p)
    <3>1. PICK s \in M : s[1] = p
      BY <2>4 DEF Opened
    <3>2. s[2] \notin E
      BY <1>1, <3>1
    <3>3. Open(s, E)
      BY <3>1, <3>2 DEF Open
    <3>4. C[2] = INVALID_POSITION /\ C[1] = p
      BY <2>4
    <3>5. ASSUME NEW t \in M, Open(t, E)
          PROVE  t[1] = p
      <4>1. SUFFICES ASSUME Open(t, D) PROVE FALSE
        BY <2>2, <3>5
      <4>2. t[1] < p /\ p <= t[2] /\ t[2] # p
        BY <1>4, <2>3, <3>5, <4>1
      <4> QED
        BY <1>1, <3>1, <4>2
    <3> QED
      BY <3>3, <3>4, <3>5
  <2>5. CASE ~Opened(M, p)
    <3>1. \A s \in M : Open(s, E) => Open(s, D)
      BY <2>2, <2>5 DEF Opened
    <3>2. CASE Ended(M, p, B)
      <4>1. PICK s \in M : s = <<B[1], p>> /\ Open(s, D) /\ s[2] = p
        BY <1>6, <3>2
      <4>2. \A t \in M : ~Open(t, E)
        BY <1>5, <2>3, <3>1, <4>1
      <4>3. C[2] = p
        BY <2>5, <3>2
      <4> QED
        BY <2>1, <4>2, <4>3
    <3>3. CASE ~Ended(M, p, B)
      <4>1. C = B
        BY <2>5, <3>3
      <4>2. ASSUME NEW t \in M, Open(t, D)
            PROVE  Open(t, E)
        <5>1. t[2] # p
          BY <1>2, <3>3, <4>2 DEF Ended
        <5> QED
          BY <4>2, <5>1 DEF Open
      <4>3. \A t \in M : Open(t, D) <=> Open(t, E)
        BY <3>1, <4>2
      <4>4. /\ B[2] = INVALID_POSITION <=> \E s \in M : Open(s, E)
            /\ \A s \in M : Open(s, E) => B[1] = s[1]
        BY <1>2, <4>3
      <4> HIDE DEF C
      <4> QED
        BY <4>1, <4>4
    <3> QED
      BY <3>2, <3>3
  <2> QED
    BY <2>4, <2>5
<1> HIDE DEF E, X, C
<1>11. Knows(M, lo, E, X, C)
  BY <1>8, <1>9, <1>10 DEF Knows
<1> QED
  BY <1>11 DEF E, X, C

----------------------------------------------------------------------------
(***************************************************************************)
(* What a multi match keeps: the annotations of its match in its window.   *)
(* ExtendedMapping makes of them the spans that lie in the window.         *)
(***************************************************************************)
In(p, window) == window[1] <= p /\ p <= window[2]
SpansIn(M, window) == {s \in M : window[1] <= s[1] /\ s[2] <= window[2]}

Slice(A, match, window) ==
  /\ IsList(A)
  /\ \A i \in 1..Len(A) : A[i] = <<Codes(match, A[i][2]), A[i][2]>>
  /\ \A i \in 1..Len(A) : A[i][2] \in Positions(match) /\ In(A[i][2], window)
  /\ \A i, j \in 1..Len(A) : i < j => A[j][2] < A[i][2]
  /\ \A p \in Positions(match) : In(p, window) => \E i \in 1..Len(A) : A[i][2] = p

LEMMA SliceIsAnnotated ==
  ASSUME NEW match, IsMatch(match), NEW A, NEW window, Slice(A, match, window)
  PROVE  Annotated(A) /\ \A i \in 1..Len(A) : A[i][2] \in Nat
<1>1. \A i \in 1..Len(A) : A[i][2] \in Nat
  BY BoundsAssumption DEF Slice, Positions
<1>2. \A i \in 1..Len(A) : A[i] \in Annotation
  <2> SUFFICES ASSUME NEW i \in 1..Len(A) PROVE A[i] \in Annotation
    OBVIOUS
  <2> DEFINE p == A[i][2]
  <2>1. A[i] = <<Codes(match, p), p>> /\ p \in Nat
    BY <1>1 DEF Slice
  <2> HIDE DEF p
  <2>2. Codes(match, p) \in SUBSET Nat
    BY <2>1, CodesOfAMatch
  <2> QED
    BY <2>1, <2>2 DEF Annotation
<1> QED
  BY <1>1, <1>2 DEF Annotated, Slice

LEMMA EndsArePositions ==
  ASSUME NEW match, IsMatch(match), NEW v \in DOMAIN match
  PROVE  /\ Disjoint(match[v])
         /\ \A s \in match[v] : s[1] \in Positions(match) /\ s[2] \in Positions(match)
<1>1. Disjoint(match[v])
  BY DEF IsMatch, Disjoint
<1>2. ASSUME NEW s \in match[v]
      PROVE  s[1] \in Positions(match) /\ s[2] \in Positions(match)
  <2>1. s[1] \in Nat /\ s[2] \in Nat /\ s[1] < s[2] /\ s[2] <= Size
    BY DEF IsMatch
  <2>2. s[1] \in 0..Size /\ s[2] \in 0..Size
    BY <2>1, BoundsAssumption
  <2>3. 2 * v \in Codes(match, s[1]) /\ 2 * v + 1 \in Codes(match, s[2])
    BY DEF Codes
  <2> QED
    BY <2>2, <2>3 DEF Positions
<1> QED
  BY <1>1, <1>2

\* The positions of the last k annotations.
LastOf(A, k) == {A[i][2] : i \in {j \in 1..Len(A) : Len(A) - k < j}}

LEMMA NextOfASlice ==
  ASSUME NEW match, IsMatch(match), NEW v \in DOMAIN match, NEW A, NEW window \in Nat \X Nat,
         Slice(A, match, window), NEW k \in 1..Len(A)
  PROVE  LET p == A[Len(A) + 1 - k][2]
             D == LastOf(A, k - 1)
             M == match[v]
         IN  /\ p \in Nat /\ window[1] <= p /\ D \in SUBSET Nat
             /\ \A d \in D : window[1] <= d /\ d < p
             /\ \A s \in M : window[1] <= s[1] /\ s[1] < p => s[1] \in D
             /\ \A s \in M : window[1] <= s[2] /\ s[2] < p => s[2] \in D
             /\ LastOf(A, k) = D \cup {p}
<1> DEFINE n == Len(A)
           at == n + 1 - k
           p == A[at][2]
           D == LastOf(A, k - 1)
           lo == window[1]
           hi == window[2]
<1>1. n \in Nat /\ k \in Nat /\ lo \in Nat /\ hi \in Nat /\ k \in 1..n
  BY DEF Slice, IsList
<1>2. /\ \A i \in 1..n : A[i][2] \in Nat
      /\ \A i \in 1..n : lo <= A[i][2] /\ A[i][2] <= hi
      /\ \A i, j \in 1..n : i < j => A[j][2] < A[i][2]
      /\ \A q \in Positions(match) : lo <= q /\ q <= hi => \E i \in 1..n : A[i][2] = q
  BY SliceIsAnnotated DEF Slice, In
<1>3. /\ D = {A[i][2] : i \in {j \in 1..n : n - (k - 1) < j}}
      /\ LastOf(A, k) = {A[i][2] : i \in {j \in 1..n : n - k < j}}
  BY DEF LastOf
<1> HIDE DEF n, lo, hi, D
<1>4. at \in 1..n /\ \A j \in 1..n : /\ n - (k - 1) < j <=> at < j
                                     /\ n - k < j <=> j = at \/ at < j
  BY <1>1
<1> HIDE DEF at
<1>5. /\ D = {A[i][2] : i \in {j \in 1..n : at < j}}
      /\ LastOf(A, k) = {A[i][2] : i \in {j \in 1..n : j = at \/ at < j}}
  BY <1>3, <1>4
<1>6. p \in Nat /\ lo <= p /\ p <= hi
  BY <1>2, <1>4
<1>7. \A d \in D : d \in Nat /\ lo <= d /\ d < p
  BY <1>2, <1>4, <1>5
<1>8. LastOf(A, k) = D \cup {p}
  BY <1>4, <1>5
<1>9. ASSUME NEW q \in Positions(match), lo <= q, q < p
      PROVE  q \in D
  <2>1. q \in Nat
    BY BoundsAssumption DEF Positions
  <2>2. q <= hi
    BY <1>1, <1>6, <1>9, <2>1
  <2>3. PICK i \in 1..n : A[i][2] = q
    BY <1>2, <1>9, <2>2
  <2>4. ~(i < at) /\ i # at
    <3>1. i < at => p < q
      BY <1>2, <1>4, <2>3
    <3>2. i = at => p = q
      BY <2>3
    <3> QED
      BY <1>6, <1>9, <2>1, <3>1, <3>2
  <2>5. at < i
    BY <1>1, <1>4, <2>4
  <2> QED
    BY <1>5, <2>3, <2>5
<1> HIDE DEF p
<1>10. \A s \in match[v] : /\ lo <= s[1] /\ s[1] < p => s[1] \in D
                           /\ lo <= s[2] /\ s[2] < p => s[2] \in D
  BY <1>9, EndsArePositions
<1>11. D \in SUBSET Nat
  BY <1>7
<1> QED
  BY <1>6, <1>7, <1>8, <1>10, <1>11 DEF p, D, lo, at, n

LEMMA KnowsAllOfASlice ==
  ASSUME NEW match, IsMatch(match), NEW v \in DOMAIN match, NEW A, NEW window \in Nat \X Nat,
         Slice(A, match, window)
  PROVE  \E B : Knows(match[v], window[1], LastOf(A, Len(A)),
                      Entry(ConstructExtendedMapping(A), v, << >>), B)
<1> DEFINE n == Len(A)
           lo == window[1]
           M == match[v]
<1>1. Annotated(A) /\ n \in Nat /\ lo \in Nat /\ Disjoint(M)
  BY SliceIsAnnotated, EndsArePositions DEF Slice, IsList
<1>2. PICK maps \in [0..n -> ExtendedMaps] :
           /\ maps[0] = NoMaps
           /\ \A i \in 1..n : maps[i] = ProcessExtendedAnnotation(maps[i - 1], A[n + 1 - i])
           /\ ConstructExtendedMapping(A) = maps[n].spans
  BY <1>1, ExtendedReading
<1> DEFINE K(k) == Knows(M, lo, LastOf(A, k), SpansSoFar(maps[k], v), Buffered(maps[k], v))
           W == {k \in 0..n : ~K(k)}
<1>3. K(0)
  <2>1. SpansSoFar(maps[0], v) = << >> /\ Buffered(maps[0], v) = <<0, 0>>
    BY <1>2, NoMapsAreTyped
  <2>2. LastOf(A, 0) = {}
    <3>1. \A j \in 1..Len(A) : ~(Len(A) - 0 < j)
      BY <1>1
    <3> QED
      BY <3>1 DEF LastOf
  <2>3. Knows(M, lo, {}, << >>, <<0, 0>>)
    BY DEF Knows, Open, Closed, INVALID_POSITION
  <2> QED
    BY <2>1, <2>2, <2>3
<1>4. ASSUME NEW k \in 1..n, K(k - 1)
      PROVE  K(k)
  <2> DEFINE a == A[n + 1 - k]
             p == a[2]
             D == LastOf(A, k - 1)
             S == SpansSoFar(maps[k - 1], v)
             B == Buffered(maps[k - 1], v)
  <2>1. /\ p \in Nat /\ lo <= p /\ D \in SUBSET Nat
        /\ \A d \in D : lo <= d /\ d < p
        /\ \A s \in M : lo <= s[1] /\ s[1] < p => s[1] \in D
        /\ \A s \in M : lo <= s[2] /\ s[2] < p => s[2] \in D
        /\ LastOf(A, k) = D \cup {p}
    BY NextOfASlice, ZenonT(60)
  <2>2. n + 1 - k \in 1..n /\ k - 1 \in 0..n
    BY <1>1
  <2>3. a \in Annotation /\ a[1] = Codes(match, p)
    BY <1>1, <2>2 DEF Annotated, Slice
  <2>4. maps[k - 1] \in ExtendedMaps /\ maps[k] = ProcessExtendedAnnotation(maps[k - 1], a)
    BY <1>2, <2>2
  <2>5. Knows(M, lo, D, S, B)
    BY <1>4
  <2> HIDE DEF a
  <2>6. /\ SpansSoFar(maps[k], v) =
             IF Ends(maps[k - 1], a[1], v) THEN Append(S, <<B[1], p>>) ELSE S
        /\ Buffered(maps[k], v) =
             IF Opens(a[1], v) THEN <<p, INVALID_POSITION>>
             ELSE IF Ends(maps[k - 1], a[1], v) THEN <<B[1], p>>
             ELSE B
    BY <2>3, <2>4, ExtendedStep, ZenonT(60)
  <2>7. (Opens(a[1], v) <=> Opened(M, p)) /\ (Ends(maps[k - 1], a[1], v) <=> Ended(M, p, B))
    <3>1. p \in Nat
      BY <2>1
    <3> HIDE DEF p, D, S, B, K, W, n, lo
    <3>2. /\ Opens(Codes(match, p), v) <=> \E s \in match[v] : s[1] = p
          /\ Closes(Codes(match, p), v) <=> \E s \in match[v] : s[2] = p
      BY <3>1, CodesOfAMatch
    <3> QED
      BY <2>3, <3>2 DEF Opened, Ended, Ends, B
  <2> HIDE DEF p, D, S, B, M, lo
  <2>8. Knows(M, lo, D \cup {p},
               IF Ended(M, p, B) THEN Append(S, <<B[1], p>>) ELSE S,
               IF Opened(M, p) THEN <<p, INVALID_POSITION>>
               ELSE IF Ended(M, p, B) THEN <<B[1], p>> ELSE B)
    BY <1>1, <2>1, <2>5, NextPosition
  <2>9. Knows(M, lo, LastOf(A, k), SpansSoFar(maps[k], v), Buffered(maps[k], v))
    BY <2>1, <2>6, <2>7, <2>8
  <2> QED
    BY <2>9
<1> HIDE DEF K
<1>5. K(n)
  <2>1. SUFFICES ASSUME W # {} PROVE FALSE
    BY <1>1
  <2>2. PICK k \in W : \A y \in W : ~(y < k)
    <3>1. W \subseteq Nat
      OBVIOUS
    <3> HIDE DEF W
    <3> QED
      BY <2>1, <3>1, LeastNumber
  <2>3. k \in 1..n /\ k - 1 \in 0..n /\ k - 1 < k
    BY <1>1, <1>3
  <2>4. K(k - 1)
    BY <2>2, <2>3
  <2> QED
    BY <1>4, <2>3, <2>4
<1>6. SpansSoFar(maps[n], v) = Entry(ConstructExtendedMapping(A), v, << >>)
  BY <1>2 DEF SpansSoFar
<1> QED
  BY <1>5, <1>6 DEF K

LEMMA SpansOfASlice ==
  ASSUME NEW match, IsMatch(match), NEW v \in DOMAIN match, NEW A, NEW window \in Nat \X Nat,
         Slice(A, match, window)
  PROVE  LET S == Entry(ConstructExtendedMapping(A), v, << >>)
         IN  ListsInOrder(S, SpansIn(match[v], window)) /\ S \in Seq(Int \X Int)
<1> DEFINE S == Entry(ConstructExtendedMapping(A), v, << >>)
           D == LastOf(A, Len(A))
           M == match[v]
           lo == window[1]
<1>1. PICK B : Knows(M, lo, D, S, B)
  BY KnowsAllOfASlice
<1>2. D = {A[i][2] : i \in 1..Len(A)}
  <2>1. Len(A) \in Nat
    BY DEF Slice, IsList
  <2>2. \A j \in 1..Len(A) : Len(A) - Len(A) < j
    BY <2>1
  <2> QED
    BY <2>2 DEF LastOf
<1>3. \A s \in M : Closed(s, lo, D) <=> lo <= s[1] /\ s[2] <= window[2]
  <2> SUFFICES ASSUME NEW s \in M
               PROVE  Closed(s, lo, D) <=> lo <= s[1] /\ s[2] <= window[2]
    OBVIOUS
  <2>1. s[1] \in Nat /\ s[2] \in Nat /\ s[1] < s[2] /\ lo \in Nat
    BY DEF IsMatch
  <2>2. s[2] \in Positions(match)
    BY EndsArePositions
  <2>3. s[2] \in D => s[2] <= window[2]
    BY <1>2 DEF Slice, In
  <2>4. lo <= s[2] /\ s[2] <= window[2] => s[2] \in D
    BY <1>2, <2>2 DEF Slice, In
  <2> HIDE DEF D, lo
  <2> QED
    BY <2>1, <2>3, <2>4 DEF Closed
<1> HIDE DEF S, D
<1>4. SpansIn(M, window) = {s \in M : Closed(s, lo, D)}
  BY <1>3 DEF SpansIn
<1>5. S \in Seq(Int \X Int) /\ DOMAIN S = 1..Len(S)
  BY <1>1 DEF Knows
<1>6. ListsInOrder(S, SpansIn(M, window))
  <2>1. /\ \A i \in 1..Len(S) : S[i] \in M /\ Closed(S[i], lo, D)
        /\ \A s \in M : Closed(s, lo, D) => \E i \in 1..Len(S) : S[i] = s
        /\ \A i, j \in 1..Len(S) : i < j => S[i][1] < S[j][1]
    BY <1>1 DEF Knows
  <2>2. {S[i] : i \in 1..Len(S)} = {s \in M : Closed(s, lo, D)}
    BY <2>1
  <2>3. ToSet(S) = SpansIn(M, window)
    BY <1>4, <1>5, <2>2 DEF ToSet
  <2> QED
    BY <1>5, <2>1, <2>3 DEF ListsInOrder
<1> QED
  BY <1>5, <1>6 DEF S

----------------------------------------------------------------------------
(***************************************************************************)
(* Mapping, of a match that has one span for each variable: what closes is *)
(* added first, and what opens is the start of what was added.             *)
(***************************************************************************)
Maps == MapsInto(Seq(Int \X Int))

OpenedAt(spans, code, p, v) == IF Opens(code, v) THEN UpdateLastSpan(spans, p) ELSE spans
EntryAfter(spans, code, p, v) ==
  IF Closes(code, v) THEN Append(OpenedAt(spans, code, p, v), <<0, p>>)
  ELSE OpenedAt(spans, code, p, v)

LEMMA EntryAfterIsTyped ==
  ASSUME NEW spans \in Seq(Int \X Int), NEW code, NEW p \in Nat, NEW v
  PROVE  EntryAfter(spans, code, p, v) \in Seq(Int \X Int)
<1>1. UpdateLastSpan(spans, p) \in Seq(Int \X Int)
  <2>1. \A i \in 1..Len(spans) : spans[i] \in Int \X Int
    OBVIOUS
  <2> DEFINE t == UpdateLastSpan(spans, p)
  <2>2. /\ t = [i \in 1..Len(spans) |-> t[i]]
        /\ \A i \in 1..Len(spans) : t[i] = IF i = Len(spans) THEN <<p, spans[i][2]>> ELSE spans[i]
    <3> DEFINE n == Len(spans)
    <3>1. DOMAIN spans = 1..n /\ t = [spans EXCEPT ![n] = <<p, spans[n][2]>>]
      BY DEF UpdateLastSpan
    <3> HIDE DEF t, n
    <3>2. t = [spans EXCEPT ![n] = <<p, spans[n][2]>>] /\ DOMAIN spans = 1..n
      BY <3>1
    <3>3. /\ t = [i \in 1..n |-> t[i]]
          /\ \A i \in 1..n : t[i] = IF i = n THEN <<p, spans[i][2]>> ELSE spans[i]
      BY <3>2
    <3> QED
      BY <3>3 DEF n
  <2> HIDE DEF t
  <2>3. \A i \in 1..Len(spans) : t[i] \in Int \X Int
    BY <2>1, <2>2
  <2> QED
    BY <2>2, <2>3 DEF t
<1>2. OpenedAt(spans, code, p, v) \in Seq(Int \X Int)
  BY <1>1 DEF OpenedAt
<1> QED
  BY <1>2, SMTT(30) DEF EntryAfter

LEMMA MappingStep ==
  ASSUME NEW m \in Maps, NEW a \in Annotation
  PROVE  LET after == ProcessAnnotation(m, a)
         IN  /\ after \in Maps
             /\ \A v : Entry(after, v, << >>)
                         = EntryAfter(Entry(m, v, << >>), a[1], a[2], v)
<1> DEFINE code == a[1]
           p == a[2]
           D == DOMAIN m \cup Variables(code)
           after == ProcessAnnotation(m, a)
<1>1. code \in SUBSET Nat /\ p \in Nat
  BY DEF Annotation
<1>2. \A v : Entry(m, v, << >>) \in Seq(Int \X Int)
  <2> DEFINE T == Seq(Int \X Int)
  <2>1. << >> \in T /\ m \in MapsInto(T)
    BY DEF Maps
  <2> HIDE DEF T
  <2>2. \A v : Entry(m, v, << >>) \in T
    BY <2>1, EntryIsTyped
  <2> QED
    BY <2>2 DEF T
<1>3. D \in SUBSET Nat /\ \A v : Opens(code, v) \/ Closes(code, v) => v \in D
  BY <1>1, VariablesAreNat DEF Maps, MapsInto
<1>4. after = [v \in D |-> EntryAfter(Entry(m, v, << >>), code, p, v)]
  BY DEF ProcessAnnotation, EntryAfter, OpenedAt
<1> HIDE DEF code, p, after
<1>5. \A v : EntryAfter(Entry(m, v, << >>), code, p, v) \in Seq(Int \X Int)
  BY <1>1, <1>2, EntryAfterIsTyped
<1>6. \A v : v \notin D => EntryAfter(Entry(m, v, << >>), code, p, v) = << >>
  BY <1>3 DEF EntryAfter, OpenedAt, Entry
<1> HIDE DEF D
<1>7. after \in Maps
  <2>1. /\ after = [v \in D |-> after[v]]
        /\ \A v \in D : after[v] \in Seq(Int \X Int)
    BY <1>4, <1>5
  <2> QED
    BY <1>3, <2>1, MapIsTyped DEF Maps
<1>8. \A v : Entry(after, v, << >>) = EntryAfter(Entry(m, v, << >>), code, p, v)
  BY <1>4, <1>6 DEF Entry
<1> QED
  BY <1>7, <1>8 DEF after, code, p

IsReading(maps, A) ==
  maps = [i \in 0..Len(A) |-> IF i = 0 THEN NoEntries
                              ELSE ProcessAnnotation(maps[i - 1], A[i])]

LEMMA Reading ==
  ASSUME NEW A, Annotated(A)
  PROVE  \E maps \in [0..Len(A) -> Maps] :
           /\ maps[0] = NoEntries
           /\ \A i \in 1..Len(A) : maps[i] = ProcessAnnotation(maps[i - 1], A[i])
           /\ ConstructMapping(A) = maps[Len(A)]
<1> DEFINE n == Len(A)
           step == [p \in (1..n) \X Maps |-> ProcessAnnotation(p[2], A[p[1]])]
<1>1. n \in Nat /\ \A i \in 1..n : A[i] \in Annotation
  BY DEF Annotated, IsList
<1>2. step \in [(1..n) \X Maps -> Maps]
  <2>1. \A p \in (1..n) \X Maps : ProcessAnnotation(p[2], A[p[1]]) \in Maps
    <3> SUFFICES ASSUME NEW p \in (1..n) \X Maps
                 PROVE  ProcessAnnotation(p[2], A[p[1]]) \in Maps
      OBVIOUS
    <3>1. p[2] \in Maps /\ A[p[1]] \in Annotation
      BY <1>1
    <3> QED
      BY <3>1, MappingStep
  <2> QED
    BY <2>1
<1>3. \A i \in 1..n, m \in Maps : step[<<i, m>>] = ProcessAnnotation(m, A[i])
  OBVIOUS
<1>4. NoEntries \in Maps
  <2>1. NoMaps.spans = NoEntries
    BY DEF NoMaps
  <2> QED
    BY <2>1, NoMapsAreTyped DEF Maps, ExtendedMaps
<1> HIDE DEF step
<1>5. PICK f \in [0..n -> Maps] : Follows(f, n, NoEntries, step)
  BY <1>1, <1>2, <1>4, Recursion
<1>6. IsReading(f, A)
  <2>1. f = [i \in 0..n |-> IF i = 0 THEN NoEntries ELSE step[<<i, f[i - 1]>>]]
    BY <1>5 DEF Follows
  <2>2. \A i \in 0..n : f[i] = IF i = 0 THEN NoEntries
                               ELSE ProcessAnnotation(f[i - 1], A[i])
    <3> TAKE i \in 0..n
    <3>1. f[i] = IF i = 0 THEN NoEntries ELSE step[<<i, f[i - 1]>>]
      BY <2>1
    <3>2. i # 0 => i \in 1..n /\ f[i - 1] \in Maps
      BY <1>1
    <3> QED
      BY <1>3, <3>1, <3>2
  <2>3. f = [i \in 0..n |-> f[i]]
    BY <1>5
  <2> QED
    BY <2>2, <2>3 DEF IsReading
<1> DEFINE r == CHOOSE r : IsReading(r, A)
<1>7. IsReading(r, A)
  BY <1>6, Zenon
<1>8. ConstructMapping(A) = r[n]
  BY Zenon DEF ConstructMapping, IsReading
<1> HIDE DEF r
<1>9. /\ r = [i \in 0..n |-> r[i]]
      /\ \A i \in 0..n : r[i] = IF i = 0 THEN NoEntries
                                ELSE ProcessAnnotation(r[i - 1], A[i])
  BY <1>7 DEF IsReading
<1>10. /\ r[0] = NoEntries
       /\ \A i \in 1..n : r[i] = ProcessAnnotation(r[i - 1], A[i])
  <2>1. 0 \in 0..n /\ \A i \in 1..n : i \in 0..n /\ i # 0
    BY <1>1
  <2> QED
    BY <1>9, <2>1
<1>11. \A i \in 1..n : r[i - 1] \in Maps => r[i] = step[<<i, r[i - 1]>>]
  BY <1>3, <1>10
<1> HIDE DEF n
<1>12. r \in [0..n -> Maps]
  <2>1. GoesBy(r, n, Maps, NoEntries, step)
    BY <1>9, <1>10, <1>11 DEF GoesBy
  <2> QED
    BY <1>1, <1>2, <1>4, <2>1, StepsStayInside
<1> QED
  BY <1>8, <1>10, <1>12 DEF n

\* After i annotations the last span of the variable is known as far as it goes.
SoFar(A, i, s) ==
  IF \E j \in 1..i : A[j][2] = s[1] THEN <<s>>
  ELSE IF \E j \in 1..i : A[j][2] = s[2] THEN <<<<0, s[2]>>>>
  ELSE << >>

Falling(A, n, s) ==
  /\ n \in Nat
  /\ \A i \in 1..n : A[i][2] \in Nat
  /\ \A i, j \in 1..n : i < j => A[j][2] < A[i][2]
  /\ s \in Nat \X Nat /\ s[1] < s[2]
  /\ \E j \in 1..n : A[j][2] = s[2]

Acts(code, p, s, v) ==
  (Opens(code, v) <=> p = s[1]) /\ (Closes(code, v) <=> p = s[2])

LEMMA NextSoFar ==
  ASSUME NEW A, NEW n, NEW s, Falling(A, n, s), NEW i \in 1..n, NEW code, NEW v,
         Acts(code, A[i][2], s, v)
  PROVE  EntryAfter(SoFar(A, i - 1, s), code, A[i][2], v) = SoFar(A, i, s)
<1> USE DEF Falling, Acts
<1> DEFINE p == A[i][2]
<1>1. p \in Nat /\ s[1] \in Nat /\ s[2] \in Nat /\ s = <<s[1], s[2]>>
  OBVIOUS
<1>2. /\ \A j \in 1..i - 1 : j \in 1..n /\ p < A[j][2] /\ A[j][2] \in Nat
      /\ \A j \in 1..i : j = i \/ j \in 1..i - 1
      /\ i \in 1..i /\ \A j \in 1..i - 1 : j \in 1..i
  OBVIOUS
<1>3. CASE p = s[2]
  <2>1. \A j \in 1..i - 1 : A[j][2] # s[2] /\ A[j][2] # s[1]
    BY <1>1, <1>2, <1>3
  <2>2. SoFar(A, i - 1, s) = << >>
    BY <2>1 DEF SoFar
  <2>3. SoFar(A, i, s) = <<<<0, s[2]>>>>
    BY <1>1, <1>2, <1>3, <2>1 DEF SoFar
  <2>4. Closes(code, v) /\ ~Opens(code, v)
    BY <1>1, <1>3
  <2>5. Append(<< >>, <<0, p>>) = <<<<0, p>>>>
    OBVIOUS
  <2>6. EntryAfter(<< >>, code, p, v) = Append(<< >>, <<0, p>>)
    BY <2>4 DEF EntryAfter, OpenedAt
  <2> QED
    BY <1>3, <2>2, <2>3, <2>5, <2>6
<1>4. CASE p = s[1]
  <2>1. \E j \in 1..i - 1 : A[j][2] = s[2]
    <3>1. PICK j \in 1..n : A[j][2] = s[2]
      OBVIOUS
    <3>2. ~(i < j) /\ j # i
      BY <1>1, <1>4, <3>1
    <3>3. j \in 1..i - 1
      BY <3>2
    <3> QED
      BY <3>1, <3>3
  <2>2. \A j \in 1..i - 1 : A[j][2] # s[1]
    BY <1>1, <1>2, <1>4
  <2>3. SoFar(A, i - 1, s) = <<<<0, s[2]>>>> /\ SoFar(A, i, s) = <<s>>
    BY <1>2, <1>4, <2>1, <2>2 DEF SoFar
  <2>4. ~Closes(code, v) /\ Opens(code, v)
    BY <1>1, <1>4
  <2>5. UpdateLastSpan(<<<<0, s[2]>>>>, p) = <<s>>
    <3>1. UpdateLastSpan(<<<<0, s[2]>>>>, p) = <<<<p, s[2]>>>>
      BY DEF UpdateLastSpan
    <3> QED
      BY <1>1, <1>4, <3>1
  <2> QED
    BY <2>3, <2>4, <2>5 DEF EntryAfter, OpenedAt
<1>5. CASE p # s[1] /\ p # s[2]
  <2>1. SoFar(A, i, s) = SoFar(A, i - 1, s)
    BY <1>2, <1>5 DEF SoFar
  <2> QED
    BY <1>5, <2>1 DEF EntryAfter, OpenedAt
<1> QED
  BY <1>3, <1>4, <1>5

LEMMA MatchIsASlice ==
  ASSUME NEW match
  PROVE  Slice(Annotations(match), match, <<0, Size>>)
<1>1. \A p \in Positions(match) : In(p, <<0, Size>>)
  BY BoundsAssumption DEF Positions, In
<1> QED
  BY <1>1, AnnotationsAreInOrder DEF Slice

LEMMA SpanOfAMatch ==
  ASSUME NEW match, IsMatch(match), NEW v \in DOMAIN match, NEW s, match[v] = {s}
  PROVE  ConstructUserMapping(DOMAIN match, Annotations(match))[v] = s
<1> DEFINE A == Annotations(match)
           n == Len(A)
<1>1. Slice(A, match, <<0, Size>>)
  BY MatchIsASlice
<1>2. Annotated(A) /\ n \in Nat /\ \A i \in 1..n : A[i][2] \in Nat
  BY <1>1, SliceIsAnnotated DEF Slice, IsList
<1>3. s \in Nat \X Nat /\ s[1] < s[2]
  BY DEF IsMatch
<1>4. (\E j \in 1..n : A[j][2] = s[1]) /\ (\E j \in 1..n : A[j][2] = s[2])
  <2>1. s[1] \in Positions(match) /\ s[2] \in Positions(match)
    BY EndsArePositions
  <2> QED
    BY <2>1, AnnotationsAreInOrder
<1>5. PICK maps \in [0..n -> Maps] :
           /\ maps[0] = NoEntries
           /\ \A i \in 1..n : maps[i] = ProcessAnnotation(maps[i - 1], A[i])
           /\ ConstructMapping(A) = maps[n]
  BY <1>2, Reading
<1>6. /\ \A i \in 1..n : A[i] = <<Codes(match, A[i][2]), A[i][2]>>
      /\ \A i, j \in 1..n : i < j => A[j][2] < A[i][2]
  BY <1>1 DEF Slice
<1> HIDE DEF A, n
<1> DEFINE K(i) == Entry(maps[i], v, << >>) = SoFar(A, i, s)
           W == {i \in 0..n : ~K(i)}
<1>7. K(0)
  <2>1. Entry(NoEntries, v, << >>) = << >>
    BY DEF Entry, NoEntries
  <2>2. SoFar(A, 0, s) = << >>
    BY DEF SoFar
  <2> QED
    BY <1>5, <2>1, <2>2
<1>8. ASSUME NEW i \in 1..n, K(i - 1)
      PROVE  K(i)
  <2> DEFINE a == A[i]
  <2>1. i - 1 \in 0..n /\ a \in Annotation /\ a[2] \in Nat /\ a = <<Codes(match, a[2]), a[2]>>
    BY <1>2, <1>6 DEF Annotated, A, n
  <2>2. maps[i - 1] \in Maps /\ maps[i] = ProcessAnnotation(maps[i - 1], a)
    BY <1>5, <2>1
  <2> HIDE DEF a
  <2>3. Entry(maps[i], v, << >>) = EntryAfter(SoFar(A, i - 1, s), a[1], a[2], v)
    BY <1>8, <2>1, <2>2, MappingStep
  <2>4. (Opens(a[1], v) <=> a[2] = s[1]) /\ (Closes(a[1], v) <=> a[2] = s[2])
    <3>1. a[1] = Codes(match, a[2])
      BY <2>1
    <3>2. /\ Opens(Codes(match, a[2]), v) <=> \E t \in match[v] : t[1] = a[2]
          /\ Closes(Codes(match, a[2]), v) <=> \E t \in match[v] : t[2] = a[2]
      BY <2>1, CodesOfAMatch
    <3> QED
      BY <3>1, <3>2
  <2>5. Acts(a[1], A[i][2], s, v)
    BY <2>4 DEF a, Acts
  <2>6. EntryAfter(SoFar(A, i - 1, s), a[1], A[i][2], v) = SoFar(A, i, s)
    <3>1. Falling(A, n, s)
      BY <1>2, <1>3, <1>4, <1>6 DEF Falling
    <3> QED
      BY <2>5, <3>1, NextSoFar
  <2> QED
    BY <2>3, <2>6 DEF a
<1> HIDE DEF K
<1>9. K(n)
  <2>1. SUFFICES ASSUME W # {} PROVE FALSE
    BY <1>2
  <2>2. PICK i \in W : \A y \in W : ~(y < i)
    <3>1. W \subseteq Nat
      OBVIOUS
    <3> HIDE DEF W
    <3> QED
      BY <2>1, <3>1, LeastNumber
  <2>3. i \in 1..n /\ i - 1 \in 0..n /\ i - 1 < i
    BY <1>2, <1>7
  <2>4. K(i - 1)
    BY <2>2, <2>3
  <2> QED
    BY <1>8, <2>3, <2>4
<1>10. Entry(ConstructMapping(A), v, << >>) = <<s>>
  BY <1>4, <1>5, <1>9 DEF K, SoFar
<1>11. v \in DOMAIN ConstructMapping(A) /\ ConstructMapping(A)[v] = <<s>>
  BY <1>10 DEF Entry
<1>12. Last(<<s>>) = s
  BY DEF Last
<1> QED
  BY <1>11, <1>12 DEF ConstructUserMapping, A

----------------------------------------------------------------------------
(***************************************************************************)
(* Submatches.                                                             *)
(***************************************************************************)
LEMMA SubSeqIsList ==
  ASSUME NEW A, IsList(A), NEW i \in 1..Len(A) + 1, NEW j \in i - 1..Len(A)
  PROVE  LET B == SubSeq(A, i, j)
         IN  /\ IsList(B) /\ Len(B) = j - i + 1
             /\ \A k \in 1..Len(B) : i + k - 1 \in i..j /\ B[k] = A[i + k - 1]
             /\ \A m \in i..j : m - i + 1 \in 1..Len(B) /\ B[m - i + 1] = A[m]
<1> DEFINE n == Len(A)
           T == {A[k] : k \in 1..n}
           B == SubSeq(A, i, j)
<1>1. n \in Nat /\ i \in 1..n + 1 /\ j \in i - 1..n /\ i \in Nat /\ j \in Int
  BY DEF IsList
<1>2. A \in Seq(T)
  BY ListIsSeq
<1> HIDE DEF T
<1>3. B = [k \in 1..j - i + 1 |-> A[i + k - 1]]
  BY <1>1, <1>2
<1>4. j - i + 1 \in Nat
  BY <1>1
<1> HIDE DEF B, n
<1> DEFINE m == j - i + 1
<1>5. m \in Nat /\ B = [k \in 1..m |-> A[i + k - 1]]
  BY <1>3, <1>4
<1>6. /\ \A k \in 1..m : i + k - 1 \in i..j
      /\ \A l \in i..j : l - i + 1 \in 1..m /\ i + (l - i + 1) - 1 = l
  BY <1>1
<1>7. m = j - i + 1
  OBVIOUS
<1> HIDE DEF m
<1>8. Len(B) = m /\ IsList(B)
  BY <1>5 DEF IsList
<1>9. \A k \in 1..m : B[k] = A[i + k - 1]
  BY <1>5
<1>10. \A l \in i..j : B[l - i + 1] = A[l]
  BY <1>6, <1>9
<1> QED
  BY <1>6, <1>7, <1>8, <1>9, <1>10 DEF B

LEMMA Extremes ==
  ASSUME NEW n \in Nat, NEW T, T \subseteq 0..n, T # {}
  PROVE  /\ Min(T) \in T /\ \A t \in T : Min(T) <= t
         /\ Max(T) \in T /\ \A t \in T : Max(T) >= t
<1>1. \E x \in T : \A y \in T : x <= y
  <2>1. PICK x \in T : \A y \in T : ~(y < x)
    BY LeastNumber, T \subseteq Nat
  <2> QED
    BY <2>1
<1>2. \E x \in T : \A y \in T : x >= y
  <2> DEFINE U == {n - t : t \in T}
  <2>1. U \subseteq Nat /\ U # {}
    <3>1. \A t \in T : t \in 0..n
      OBVIOUS
    <3>2. \A t \in 0..n : n - t \in Nat
      OBVIOUS
    <3>3. \A t \in T : n - t \in Nat
      BY <3>1, <3>2
    <3>4. PICK t \in T : TRUE
      OBVIOUS
    <3>5. n - t \in U
      BY <3>4
    <3> QED
      BY <3>3, <3>5
  <2>2. PICK u \in U : \A y \in U : ~(y < u)
    <3> HIDE DEF U
    <3> QED
      BY <2>1, LeastNumber
  <2>3. PICK x \in T : u = n - x
    OBVIOUS
  <2>4. \A y \in T : ~(n - y < n - x)
    BY <2>2, <2>3
  <2>5. \A y \in T : x >= y
    BY <2>4
  <2> QED
    BY <2>5
<1> QED
  BY <1>1, <1>2 DEF Min, Max

LEMMA InsideOfBoth ==
  ASSUME NEW window \in Nat \X Nat, NEW span \in Nat \X Nat
  PROVE  /\ Inside(window, span) \in Nat \X Nat
         /\ \A p \in Nat : In(p, Inside(window, span)) <=> In(p, window) /\ In(p, span)
<1>1. \A x, y \in Nat : /\ Max({x, y}) = IF x >= y THEN x ELSE y
                        /\ Min({x, y}) = IF x <= y THEN x ELSE y
  <2> SUFFICES ASSUME NEW x \in Nat, NEW y \in Nat
               PROVE  /\ Max({x, y}) = IF x >= y THEN x ELSE y
                      /\ Min({x, y}) = IF x <= y THEN x ELSE y
    OBVIOUS
  <2> DEFINE hi == IF x >= y THEN x ELSE y
             lo == IF x <= y THEN x ELSE y
  <2>1. /\ hi \in {x, y} /\ \A z \in {x, y} : hi >= z
        /\ \A t \in {x, y} : (\A z \in {x, y} : t >= z) => t = hi
    OBVIOUS
  <2>2. /\ lo \in {x, y} /\ \A z \in {x, y} : lo <= z
        /\ \A t \in {x, y} : (\A z \in {x, y} : t <= z) => t = lo
    OBVIOUS
  <2> HIDE DEF hi, lo
  <2>3. Max({x, y}) = hi
    BY <2>1 DEF Max
  <2>4. Min({x, y}) = lo
    BY <2>2 DEF Min
  <2> QED
    BY <2>3, <2>4 DEF hi, lo
<1>2. /\ window[1] \in Nat /\ window[2] \in Nat /\ span[1] \in Nat /\ span[2] \in Nat
  OBVIOUS
<1> DEFINE lo == Max({window[1], span[1]})
           hi == Min({window[2], span[2]})
<1>3. /\ lo = IF window[1] >= span[1] THEN window[1] ELSE span[1]
      /\ hi = IF window[2] <= span[2] THEN window[2] ELSE span[2]
  BY <1>1, <1>2
<1> HIDE DEF lo, hi
<1>4. Inside(window, span) = <<lo, hi>> /\ lo \in Nat /\ hi \in Nat
  BY <1>2, <1>3 DEF Inside, lo, hi
<1>5. \A p \in Nat : lo <= p /\ p <= hi <=> /\ window[1] <= p /\ p <= window[2]
                                            /\ span[1] <= p /\ p <= span[2]
  BY <1>2, <1>3
<1> QED
  BY <1>4, <1>5 DEF In

LEMMA SubmappingIsASlice ==
  ASSUME NEW match, IsMatch(match), NEW A, NEW window \in Nat \X Nat,
         Slice(A, match, window), NEW span \in Nat \X Nat, span[1] <= span[2],
         ~SearchLeavesVector(A, span)
  PROVE  Slice(GetSubmapping(A, span), match, Inside(window, span))
<1> DEFINE n == Len(A)
           starts == {i \in DOMAIN A : A[i][2] <= span[2]}
           ends == {i \in DOMAIN A : A[i][2] >= span[1]}
           inside == Inside(window, span)
           B == GetSubmapping(A, span)
<1>1. /\ n \in Nat /\ DOMAIN A = 1..n /\ IsList(A)
      /\ \A i \in 1..n : A[i][2] \in Nat
      /\ \A i \in 1..n : A[i] = <<Codes(match, A[i][2]), A[i][2]>>
      /\ \A i \in 1..n : A[i][2] \in Positions(match) /\ In(A[i][2], window)
      /\ \A i, j \in 1..n : i < j => A[j][2] < A[i][2]
      /\ \A p \in Positions(match) : In(p, window) => \E i \in 1..n : A[i][2] = p
  <2>1. n \in Nat /\ DOMAIN A = 1..n /\ IsList(A)
    BY DEF Slice, IsList
  <2>2. \A i \in 1..n : A[i][2] \in Nat
    BY SliceIsAnnotated
  <2> QED
    BY <2>1, <2>2 DEF Slice
<1>2. ends # {} /\ ends \subseteq 1..n /\ starts \subseteq 1..n
  <2>1. \E i \in 1..n : ~(A[i][2] < span[1])
    BY <1>1 DEF SearchLeavesVector
  <2>2. \E i \in 1..n : A[i][2] >= span[1]
    BY <1>1, <2>1
  <2> QED
    BY <1>1, <2>2
<1>3. \A p \in Positions(match) : p \in Nat
  BY BoundsAssumption DEF Positions
<1>4. \A p \in Positions(match) : In(p, inside) <=> In(p, window) /\ In(p, span)
  BY <1>3, InsideOfBoth
<1>5. B = IF starts = {} \/ ends = {} THEN << >> ELSE SubSeq(A, Min(starts), Max(ends))
  BY DEF GetSubmapping
<1> HIDE DEF B, inside
<1>6. CASE starts = {}
  <2>1. B = << >> /\ IsList(B) /\ Len(B) = 0
    BY <1>5, <1>6, NothingIsList
  <2>2. ASSUME NEW p \in Positions(match), In(p, inside)
        PROVE  FALSE
    <3>1. In(p, window) /\ In(p, span)
      BY <1>4, <2>2
    <3>2. PICK i \in 1..n : A[i][2] = p
      BY <1>1, <3>1
    <3>3. i \in starts
      BY <1>1, <3>1, <3>2 DEF In
    <3> QED
      BY <1>6, <3>3
  <2>3. Slice(B, match, inside)
    BY <2>1, <2>2 DEF Slice
  <2> QED
    BY <2>3 DEF B, inside
<1>7. CASE starts # {}
  <2> DEFINE i == Min(starts)
             j == Max(ends)
  <2>1. /\ i \in starts /\ \A k \in starts : i <= k
        /\ j \in ends /\ \A k \in ends : j >= k
    <3>1. starts \subseteq 0..n /\ ends \subseteq 0..n
      BY <1>1, <1>2
    <3> HIDE DEF starts, ends
    <3> QED
      BY <1>1, <1>2, <1>7, <3>1, Extremes
  <2>2. B = SubSeq(A, i, j)
    BY <1>2, <1>5, <1>7
  <2> HIDE DEF i, j
  <2>3. i \in 1..n /\ j \in 1..n /\ A[i][2] <= span[2] /\ A[j][2] >= span[1]
    BY <1>1, <2>1
  <2>4. \A k \in 1..n : k \in i..j <=> In(A[k][2], span)
    <3> SUFFICES ASSUME NEW k \in 1..n PROVE k \in i..j <=> In(A[k][2], span)
      OBVIOUS
    <3>1. k \in starts <=> i <= k
      <4>1. i < k => A[k][2] < A[i][2]
        BY <1>1, <2>3
      <4>2. i <= k => A[k][2] <= A[i][2]
        BY <1>1, <2>3, <4>1
      <4>3. i <= k => k \in starts
        BY <1>1, <2>3, <4>2
      <4> QED
        BY <2>1, <4>3
    <3>2. k \in ends <=> k <= j
      <4>1. k < j => A[j][2] < A[k][2]
        BY <1>1, <2>3
      <4>2. k <= j => A[j][2] <= A[k][2]
        BY <1>1, <2>3, <4>1
      <4>3. k <= j => k \in ends
        BY <1>1, <2>3, <4>2
      <4> QED
        BY <1>1, <2>1, <2>3, <4>3
    <3> QED
      BY <1>1, <2>3, <3>1, <3>2 DEF In
  <2>5. j >= i - 1
    <3>1. CASE i = 1
      BY <2>3, <3>1
    <3>2. CASE i # 1
      <4>1. i - 1 \in 1..n /\ i - 1 \notin starts
        BY <1>1, <2>1, <2>3, <3>2
      <4>2. i - 1 \in ends
        BY <1>1, <4>1
      <4> QED
        BY <2>1, <4>2
    <3> QED
      BY <3>1, <3>2
  <2>6. /\ IsList(B) /\ Len(B) = j - i + 1
        /\ \A k \in 1..Len(B) : i + k - 1 \in i..j /\ B[k] = A[i + k - 1]
        /\ \A m \in i..j : m - i + 1 \in 1..Len(B) /\ B[m - i + 1] = A[m]
    <3>1. IsList(A) /\ i \in 1..Len(A) + 1 /\ j \in i - 1..Len(A)
      BY <1>1, <2>3, <2>5
    <3> DEFINE S == SubSeq(A, i, j)
    <3>2. /\ IsList(S) /\ Len(S) = j - i + 1
          /\ \A k \in 1..Len(S) : i + k - 1 \in i..j /\ S[k] = A[i + k - 1]
          /\ \A m \in i..j : m - i + 1 \in 1..Len(S) /\ S[m - i + 1] = A[m]
      BY <3>1, SubSeqIsList
    <3>3. B = S
      BY <2>2
    <3> HIDE DEF S, B
    <3> QED
      BY <3>2, <3>3
  <2>7. ASSUME NEW k \in 1..Len(B)
        PROVE  /\ i + k - 1 \in 1..n /\ B[k] = A[i + k - 1] /\ In(B[k][2], inside)
               /\ B[k] = <<Codes(match, B[k][2]), B[k][2]>> /\ B[k][2] \in Positions(match)
    <3>1. i + k - 1 \in i..j /\ B[k] = A[i + k - 1]
      BY <2>6
    <3>2. i + k - 1 \in 1..n
      BY <2>3, <3>1
    <3>3. /\ A[i + k - 1] = <<Codes(match, A[i + k - 1][2]), A[i + k - 1][2]>>
          /\ A[i + k - 1][2] \in Positions(match) /\ In(A[i + k - 1][2], window)
      BY <1>1, <3>2
    <3>4. In(A[i + k - 1][2], span)
      BY <2>4, <3>1, <3>2
    <3>5. In(A[i + k - 1][2], inside)
      BY <1>4, <3>3, <3>4
    <3> QED
      BY <3>1, <3>2, <3>3, <3>5
  <2>8. ASSUME NEW k \in 1..Len(B), NEW m \in 1..Len(B), k < m
        PROVE  B[m][2] < B[k][2]
    <3>1. i + k - 1 < i + m - 1
      BY <2>3, <2>6, <2>8
    <3> QED
      BY <1>1, <2>7, <3>1
  <2>9. ASSUME NEW p \in Positions(match), In(p, inside)
        PROVE  \E k \in 1..Len(B) : B[k][2] = p
    <3>1. In(p, window) /\ In(p, span)
      BY <1>4, <2>9
    <3>2. PICK m \in 1..n : A[m][2] = p
      BY <1>1, <3>1
    <3>3. m \in i..j
      BY <2>4, <3>1, <3>2
    <3>4. m - i + 1 \in 1..Len(B) /\ B[m - i + 1] = A[m]
      BY <2>6, <3>3
    <3> QED
      BY <3>2, <3>4
  <2>10. Slice(B, match, inside)
    BY <2>6, <2>7, <2>8, <2>9 DEF Slice
  <2> QED
    BY <2>10 DEF B, inside
<1> QED
  BY <1>6, <1>7 DEF B, inside

----------------------------------------------------------------------------
(***************************************************************************)
(* Positions in the ring.                                                  *)
(***************************************************************************)
LEMMA CellRange ==
  ASSUME NEW p \in Nat, NEW n \in Nat \ {0}
  PROVE  p % n \in 0..n - 1
BY SMT

LEMMA Division ==
  ASSUME NEW p \in Nat, NEW n \in Nat \ {0}
  PROVE  p \div n \in Int /\ p = n * (p \div n) + (p % n)
BY SMT

LEMMA Multiples ==
  ASSUME NEW q \in Int, NEW n \in Nat \ {0}, n * q > 0
  PROVE  n * q >= n
<1>1. q > 0
  <2>1. SUFFICES ASSUME q <= 0 PROVE FALSE BY SMT
  <2>2. n * q <= 0 BY <2>1, SMT
  <2> QED BY <2>2, SMT
<1> QED BY <1>1, SMT

\* Positions less than a turn apart are in different cells.
LEMMA CellsDiffer ==
  ASSUME NEW p \in Nat, NEW r \in Nat, NEW n \in Nat \ {0}, p < r, r - p < n
  PROVE  p % n # r % n
<1> SUFFICES ASSUME p % n = r % n PROVE FALSE OBVIOUS
<1> DEFINE s == r \div n
           t == p \div n
           c == p % n
<1>1. s \in Int /\ t \in Int /\ c \in Int /\ r = n * s + c /\ p = n * t + c
  BY Division, CellRange
<1> HIDE DEF s, t, c
<1>2. n * (s - t) = r - p
  BY <1>1, SMT
<1>3. n * (s - t) >= n
  BY <1>1, <1>2, Multiples, s - t \in Int
<1> QED BY <1>2, <1>3, SMT

LEMMA Remainder ==
  ASSUME NEW n \in Nat \ {0}, NEW q \in Int, NEW c \in 0..n - 1, NEW p \in Nat,
         p = n * q + c
  PROVE  p % n = c
<1> DEFINE s == p \div n
           d == p % n
<1>1. s \in Int /\ d \in 0..n - 1 /\ p = n * s + d
  BY Division, CellRange
<1> HIDE DEF s, d
<1>2. n * (s - q) = c - d /\ n * (q - s) = d - c
  BY <1>1, SMT
<1>3. ~(n * (s - q) > 0) /\ ~(n * (q - s) > 0)
  BY <1>1, <1>2, Multiples, s - q \in Int, q - s \in Int
<1> QED BY <1>1, <1>2, <1>3 DEF d

\* The cells of less than a turn, from that of a position on.
LEMMA CellsInTurn ==
  ASSUME NEW p \in Nat, NEW k \in Nat, NEW n \in Nat \ {0}, k < n
  PROVE  (p + k) % n = IF (p % n) + k < n THEN (p % n) + k ELSE (p % n) + k - n
<1> DEFINE s == p \div n
           c == p % n
<1>1. s \in Int /\ c \in 0..n - 1 /\ p = n * s + c
  BY Division, CellRange
<1> HIDE DEF s, c
<1>2. CASE c + k < n
  <2>1. p + k = n * s + (c + k) /\ c + k \in 0..n - 1 /\ p + k \in Nat
    BY <1>1, <1>2
  <2>2. (p + k) % n = c + k
    BY <1>1, <2>1, Remainder
  <2> QED BY <1>2, <2>2 DEF c
<1>3. CASE ~(c + k < n)
  <2>1. n * (s + 1) = n * s + n
    BY <1>1, SMT
  <2>2. p + k = n * (s + 1) + (c + k - n) /\ c + k - n \in 0..n - 1 /\ p + k \in Nat
        /\ s + 1 \in Int
    BY <1>1, <1>3, <2>1
  <2>3. (p + k) % n = c + k - n
    <3> DEFINE q == s + 1
               d == c + k - n
    <3>1. p + k = n * q + d /\ d \in 0..n - 1 /\ p + k \in Nat /\ q \in Int
      BY <2>2
    <3> HIDE DEF q, d
    <3>2. (p + k) % n = d
      BY <3>1, Remainder
    <3> QED BY <3>2 DEF d
  <2> QED BY <1>3, <2>3 DEF c
<1> QED BY <1>2, <1>3

(***************************************************************************)
(* The buffer holds the last characters read. A character is its position. *)
(***************************************************************************)
Buffers(n) == [cells : [0..n - 1 -> Nat \cup {NoChar}], file_pos : Nat]

KeepsTheLast(b) ==
  /\ BufferSize(b) \in Nat \ {0} /\ b \in Buffers(BufferSize(b))
  /\ \A p \in Nat : p < b.file_pos /\ b.file_pos - p <= BufferSize(b)
       => b.cells[p % BufferSize(b)] = p

LEMMA SizeOfRing ==
  ASSUME NEW b, NEW n \in Nat, DOMAIN b.cells = 0..n - 1
  PROVE  BufferSize(b) = n
<1>1. Cardinality(0..n - 1) = n
  BY FS_Interval, 0 \in Int, n - 1 \in Int
<1> QED BY <1>1 DEF BufferSize

LEMMA SizeOfBuffer ==
  ASSUME NEW n \in Nat \ {0}, NEW b \in Buffers(n)
  PROVE  BufferSize(b) = n
BY SizeOfRing DEF Buffers

LEMMA EmptyKeeps ==
  ASSUME NEW n \in BufferSizes
  PROVE  KeepsTheLast(EmptyBuffer(n))
<1> DEFINE b == EmptyBuffer(n)
<1>1. n \in Nat \ {0}
  BY BoundsAssumption
<1>2. b = [cells |-> [i \in 0..n - 1 |-> NoChar], file_pos |-> 0]
  BY DEF EmptyBuffer
<1> HIDE DEF b
<1>3. b \in Buffers(n) /\ b.file_pos = 0
  BY <1>2 DEF Buffers
<1>4. BufferSize(b) = n
  BY <1>1, <1>3, SizeOfBuffer
<1> QED
  BY <1>1, <1>3, <1>4 DEF KeepsTheLast, b

LEMMA InsertIsBuffer ==
  ASSUME NEW n \in Nat \ {0}, NEW b \in Buffers(n), NEW char \in Nat
  PROVE  LET c == Insert(b, char)
         IN  /\ c \in Buffers(n) /\ c.file_pos = b.file_pos + 1
             /\ c.cells = [b.cells EXCEPT ![b.file_pos % n] = char]
<1> DEFINE C == b.cells
           f == b.file_pos
           D == [C EXCEPT ![f % n] = char]
           c == Insert(b, char)
<1>1. b = [cells |-> C, file_pos |-> f] /\ C \in [0..n - 1 -> Nat \cup {NoChar}] /\ f \in Nat
  BY DEF Buffers
<1>2. c = [b EXCEPT !.cells = D, !.file_pos = f + 1]
  <2>1. BufferSize(b) = n
    BY SizeOfBuffer
  <2> QED
    BY <2>1 DEF Insert
<1>3. D \in [0..n - 1 -> Nat \cup {NoChar}]
  BY <1>1
<1> HIDE DEF C, D, f, c
<1>4. c = [cells |-> D, file_pos |-> f + 1]
  BY <1>1, <1>2
<1>5. c \in Buffers(n) /\ c.file_pos = f + 1 /\ c.cells = D
  BY <1>1, <1>3, <1>4 DEF Buffers
<1> QED
  BY <1>5 DEF C, D, f, c

LEMMA InsertKeeps ==
  ASSUME NEW b, KeepsTheLast(b)
  PROVE  KeepsTheLast(Insert(b, b.file_pos))
<1> DEFINE n == BufferSize(b)
           f == b.file_pos
           c == Insert(b, f)
<1>1. /\ n \in Nat \ {0} /\ b \in Buffers(n) /\ f \in Nat
      /\ b.cells \in [0..n - 1 -> Nat \cup {NoChar}]
      /\ \A p \in Nat : p < f /\ f - p <= n => b.cells[p % n] = p
  BY DEF KeepsTheLast, Buffers
<1> HIDE DEF n, f
<1>2. c \in Buffers(n) /\ c.file_pos = f + 1 /\ c.cells = [b.cells EXCEPT ![f % n] = f]
  BY <1>1, InsertIsBuffer DEF f
<1>3. f % n \in 0..n - 1
  BY <1>1, CellRange
<1> HIDE DEF c
<1>4. BufferSize(c) = n
  BY <1>1, <1>2, SizeOfBuffer
<1>5. ASSUME NEW p \in Nat, p < f + 1, f + 1 - p <= n
      PROVE  c.cells[p % n] = p
  <2>1. CASE p = f
    BY <1>1, <1>2, <1>3, <2>1
  <2>2. CASE p < f
    <3>1. p % n # f % n
      <4>1. f - p < n /\ n \in Nat \ {0}
        BY <1>1, <1>5
      <4> QED
        BY <1>1, <2>2, <4>1, CellsDiffer
    <3>2. p % n \in 0..n - 1
      BY <1>1, CellRange
    <3>3. b.cells[p % n] = p
      BY <1>1, <1>5, <2>2
    <3> QED
      BY <1>1, <1>2, <3>1, <3>2, <3>3
  <2> QED
    BY <1>1, <1>5, <2>1, <2>2
<1>6. KeepsTheLast(c)
  BY <1>1, <1>2, <1>4, <1>5 DEF KeepsTheLast
<1> QED
  BY <1>6 DEF c, f

IsReadingOn(after, b, m) ==
  after = [n \in 0..m |-> IF n = 0 THEN b ELSE Insert(after[n - 1], b.file_pos + n - 1)]

LEMMA ReadingOn ==
  ASSUME NEW b, KeepsTheLast(b), NEW position \in Nat, b.file_pos <= position
  PROVE  LET c == AfterReading(b, position)
         IN  KeepsTheLast(c) /\ c.file_pos = position /\ BufferSize(c) = BufferSize(b)
<1> DEFINE size == BufferSize(b)
           f == b.file_pos
           m == position - f
           T == Buffers(size)
           step == [p \in (1..m) \X T |-> Insert(p[2], f + p[1] - 1)]
<1>1. size \in Nat \ {0} /\ b \in T /\ f \in Nat /\ m \in Nat
  BY DEF KeepsTheLast, Buffers
<1>2. step \in [(1..m) \X T -> T]
  <2>1. \A p \in (1..m) \X T : Insert(p[2], f + p[1] - 1) \in T
    <3> SUFFICES ASSUME NEW p \in (1..m) \X T PROVE Insert(p[2], f + p[1] - 1) \in T
      OBVIOUS
    <3>1. p[2] \in T /\ f + p[1] - 1 \in Nat
      BY <1>1
    <3> HIDE DEF f, size, T, m
    <3> QED
      BY <1>1, <3>1, InsertIsBuffer DEF T
  <2> QED
    BY <2>1
<1>3. \A i \in 1..m, c \in T : step[<<i, c>>] = Insert(c, f + i - 1)
  OBVIOUS
<1> HIDE DEF step, T
<1>5. PICK g \in [0..m -> T] : Follows(g, m, b, step)
  BY <1>1, <1>2, Recursion
<1>6. IsReadingOn(g, b, m)
  <2>1. g = [i \in 0..m |-> IF i = 0 THEN b ELSE step[<<i, g[i - 1]>>]]
    BY <1>5 DEF Follows
  <2>2. \A i \in 0..m : g[i] = IF i = 0 THEN b ELSE Insert(g[i - 1], f + i - 1)
    <3> TAKE i \in 0..m
    <3>1. g[i] = IF i = 0 THEN b ELSE step[<<i, g[i - 1]>>]
      BY <2>1
    <3>2. i # 0 => i \in 1..m /\ g[i - 1] \in T
      BY <1>1
    <3> QED
      BY <1>3, <3>1, <3>2
  <2>3. g = [i \in 0..m |-> g[i]]
    BY <1>5
  <2> QED
    BY <2>2, <2>3 DEF IsReadingOn
<1> DEFINE r == CHOOSE r : IsReadingOn(r, b, m)
<1>7. IsReadingOn(r, b, m)
  BY <1>6, Zenon
<1>8. AfterReading(b, position) = r[m]
  BY Zenon DEF AfterReading, IsReadingOn
<1> HIDE DEF r
<1>9. /\ r = [i \in 0..m |-> r[i]]
      /\ \A i \in 0..m : r[i] = IF i = 0 THEN b ELSE Insert(r[i - 1], f + i - 1)
  BY <1>7 DEF IsReadingOn
<1>10. r[0] = b /\ \A i \in 1..m : r[i] = Insert(r[i - 1], f + i - 1)
  <2>1. 0 \in 0..m /\ \A i \in 1..m : i \in 0..m /\ i # 0
    BY <1>1
  <2> QED
    BY <1>9, <2>1
<1>11. \A i \in 1..m : r[i - 1] \in T => r[i] = step[<<i, r[i - 1]>>]
  BY <1>3, <1>10
<1>p. position = f + m
  BY <1>1
<1>b. KeepsTheLast(b) /\ b.file_pos = f /\ BufferSize(b) = size
  OBVIOUS
<1> HIDE DEF m, f, size
<1>12. r \in [0..m -> T]
  <2>1. GoesBy(r, m, T, b, step)
    BY <1>9, <1>10, <1>11 DEF GoesBy
  <2> QED
    BY <1>1, <1>2, <2>1, StepsStayInside
<1> DEFINE K(i) == KeepsTheLast(r[i]) /\ r[i].file_pos = f + i
           W == {i \in 0..m : ~K(i)}
<1>13. K(0)
  BY <1>1, <1>10, <1>b
<1>14. ASSUME NEW i \in 1..m, K(i - 1)
       PROVE  K(i)
  <2>1. i - 1 \in 0..m /\ f + i - 1 = f + (i - 1)
    BY <1>1
  <2>2. r[i - 1] \in T /\ r[i] = Insert(r[i - 1], r[i - 1].file_pos)
    BY <1>10, <1>12, <1>14, <2>1
  <2>3. KeepsTheLast(r[i])
    BY <1>14, <2>2, InsertKeeps
  <2>4. r[i - 1].file_pos \in Nat
    BY <2>2 DEF T, Buffers
  <2>5. r[i].file_pos = r[i - 1].file_pos + 1
    <3> DEFINE c == r[i - 1]
               char == c.file_pos
    <3>1. size \in Nat \ {0} /\ c \in Buffers(size) /\ char \in Nat /\ r[i] = Insert(c, char)
      BY <1>1, <2>2, <2>4 DEF T
    <3>2. char = c.file_pos
      OBVIOUS
    <3> HIDE DEF c, char
    <3>3. r[i].file_pos = c.file_pos + 1
      BY <3>1, InsertIsBuffer
    <3> QED
      BY <3>3 DEF c
  <2>6. r[i].file_pos = f + i
    BY <1>1, <1>14, <2>5
  <2> QED
    BY <2>3, <2>6
<1> HIDE DEF K
<1>15. K(m)
  <2>1. SUFFICES ASSUME W # {} PROVE FALSE
    BY <1>1
  <2>2. PICK i \in W : \A y \in W : ~(y < i)
    <3>1. W \subseteq Nat
      OBVIOUS
    <3> HIDE DEF W
    <3> QED
      BY <2>1, <3>1, LeastNumber
  <2>3. i \in 1..m /\ i - 1 \in 0..m /\ i - 1 < i
    BY <1>1, <1>13
  <2>4. K(i - 1)
    BY <2>2, <2>3
  <2> QED
    BY <1>14, <2>3, <2>4
<1>16. BufferSize(r[m]) = size
  <2>1. r[m] \in Buffers(size)
    BY <1>1, <1>12 DEF T
  <2> QED
    BY <1>1, <2>1, SizeOfBuffer
<1> QED
  BY <1>8, <1>15, <1>16, <1>p, <1>b DEF K

(***************************************************************************)
(* The text of a group. It is in one part or in two.                       *)
(***************************************************************************)
Both(r, t, x, y, T) == r \in Seq(T) /\ t \in Seq(T) /\ Len(r) = x /\ Len(t) = y
Parts(both, r, t, x, y, T) ==
  /\ both \in Seq(T) /\ Len(both) = x + y
  /\ \A k \in 1..x : both[k] = r[k]
  /\ \A k \in 1..y : both[x + k] = t[k]

LEMMA BothParts ==
  ASSUME NEW T, NEW r, NEW t, NEW x, NEW y, Both(r, t, x, y, T)
  PROVE  Parts(r \o t, r, t, x, y, T)
BY DEF Both, Parts

LEMMA GroupIsRead ==
  ASSUME NEW b, KeepsTheLast(b), NEW s \in Nat, NEW e \in Nat, s <= e,
         e - s < BufferSize(b), ~SubstrThrows(b, <<s, e>>)
  PROVE  Substr(b, <<s, e>>) = [k \in 1..e - s |-> s + k - 1]
<1> DEFINE n == BufferSize(b)
           f == b.file_pos
           start == s % n
           stop == e % n
           text == [k \in 1..e - s |-> s + k - 1]
<1>1. n \in Nat \ {0} /\ f \in Nat /\ e <= f /\ (f >= n => s >= f - n)
      /\ \A p \in Nat : p < f /\ f - p <= n => b.cells[p % n] = p
  BY DEF KeepsTheLast, Buffers, SubstrThrows
<1>2. start \in 0..n - 1 /\ stop \in 0..n - 1
  BY <1>1, CellRange
<1>3. ASSUME NEW k \in 0..n - 1
      PROVE  (s + k) % n = IF start + k < n THEN start + k ELSE start + k - n
  <2>1. k \in Nat /\ k < n /\ n \in Nat \ {0}
    BY <1>1
  <2> HIDE DEF n
  <2> QED BY <2>1, CellsInTurn, ZenonT(30)
<1>4. stop = IF start + (e - s) < n THEN start + (e - s) ELSE start + (e - s) - n
  BY <1>1, <1>3, s + (e - s) = e, e - s \in 0..n - 1
<1>5. ASSUME NEW k \in 1..e - s
      PROVE  b.cells[(s + (k - 1)) % n] = text[k]
  <2>1. s + (k - 1) \in Nat /\ s + (k - 1) < f /\ f - (s + (k - 1)) <= n
    BY <1>1
  <2>2. b.cells[(s + (k - 1)) % n] = s + (k - 1)
    BY <1>1, <2>1
  <2>3. text[k] = s + (k - 1)
    BY <1>1
  <2> QED BY <2>2, <2>3
<1>6. text \in Seq(Nat) /\ Len(text) = e - s
  BY <1>1
<1>7. Bytes(b, start, e - s) =
        [k \in 1..e - s |-> IF start + k - 1 < n THEN b.cells[start + k - 1] ELSE NoChar]
  BY DEF Bytes
<1> HIDE DEF n, f, start, stop, text
<1>8. CASE start > stop
  <2> DEFINE first == [k \in 1..n - start |->
                         IF start + k - 1 < n THEN b.cells[start + k - 1] ELSE NoChar]
             second == [k \in 1..stop |->
                         IF 0 + k - 1 < n THEN b.cells[0 + k - 1] ELSE NoChar]
  <2>1. stop = start + (e - s) - n /\ n - start + stop = e - s
    BY <1>1, <1>2, <1>4, <1>8
  <2>2. GetSegment(b, <<s, e>>) = Bytes(b, start, n - start) \o Bytes(b, 0, stop)
    BY <1>8 DEF GetSegment, n, start, stop
  <2>3. Bytes(b, start, n - start) = first /\ Bytes(b, 0, stop) = second
    BY DEF Bytes, n
  <2>4. ASSUME NEW k \in 1..n - start
        PROVE  first[k] = text[k]
    <3>1. k \in 1..e - s /\ k - 1 \in 0..n - 1 /\ start + (k - 1) < n
          /\ start + k - 1 = start + (k - 1)
      BY <1>1, <1>2, <2>1
    <3>2. (s + (k - 1)) % n = start + (k - 1)
      BY <1>3, <3>1
    <3> QED BY <1>5, <3>1, <3>2
  <2>5. ASSUME NEW k \in 1..stop
        PROVE  second[k] = text[n - start + k]
    <3> DEFINE j == n - start + k
    <3>1. j \in 1..e - s /\ j - 1 \in 0..n - 1 /\ ~(start + (j - 1) < n)
          /\ start + (j - 1) - n = 0 + k - 1 /\ 0 + k - 1 < n
      <4>1. k \in 1..stop /\ stop = start + (e - s) - n /\ n - start + stop = e - s
            /\ start \in 0..n - 1 /\ stop \in 0..n - 1 /\ n \in Nat /\ start > stop
        BY <1>1, <1>2, <1>8, <2>1
      <4>2. j = n - start + k /\ j \in Nat /\ j >= 1 /\ j <= e - s /\ j - 1 <= n - 1
        BY <4>1
      <4> HIDE DEF j
      <4>3. start + (j - 1) - n = k - 1 /\ 0 + k - 1 = k - 1 /\ k - 1 < n
            /\ ~(start + (j - 1) < n)
        BY <4>1, <4>2
      <4> QED BY <4>1, <4>2, <4>3
    <3> HIDE DEF j
    <3>2. (s + (j - 1)) % n = 0 + k - 1
      BY <1>3, <3>1
    <3>3. second[k] = text[j]
      BY <1>5, <3>1, <3>2
    <3> QED BY <3>3 DEF j
  <2>6. DOMAIN first = 1..n - start /\ DOMAIN second = 1..stop
        /\ n - start \in Nat /\ stop \in Nat
    <3>1. n - start \in Nat /\ stop \in Nat
      BY <1>1, <1>2
    <3> QED BY <3>1
  <2>7. first = [k \in 1..n - start |-> first[k]] /\ second = [k \in 1..stop |-> second[k]]
    OBVIOUS
  <2> HIDE DEF first, second
  <2>8. first \o second = text
    <3> DEFINE x == n - start
               both == first \o second
    <3>1. x \in Nat /\ stop \in Nat /\ x + stop = e - s
      BY <2>1, <2>6
    <3>2. \A k \in 1..x : k \in 1..e - s
      BY <3>1
    <3>3. \A k \in 1..stop : x + k \in 1..e - s
      BY <3>1
    <3>4. \A k \in 1..e - s : text[k] \in Nat
      BY <1>6
    <3>5. \A k \in 1..x : first[k] = text[k] /\ first[k] \in Nat
      BY <2>4, <3>2, <3>4
    <3>6. \A k \in 1..stop : second[k] = text[x + k] /\ second[k] \in Nat
      BY <2>5, <3>3, <3>4
    <3>7. first = [k \in 1..x |-> first[k]] /\ second = [k \in 1..stop |-> second[k]]
      BY <2>7
    <3> HIDE DEF x
    <3>8. first \in Seq(Nat) /\ second \in Seq(Nat)
          /\ Len(first) = x /\ Len(second) = stop
      <4>1. first \in [1..x -> Nat] /\ second \in [1..stop -> Nat]
        BY <3>5, <3>6, <3>7
      <4> QED BY <3>1, <4>1
    <3>9. /\ both \in Seq(Nat) /\ Len(both) = e - s
          /\ \A k \in 1..x : both[k] = first[k]
          /\ \A k \in 1..stop : both[x + k] = second[k]
      <4>1. Both(first, second, x, stop, Nat)
        BY <3>8 DEF Both
      <4>2. Parts(both, first, second, x, stop, Nat)
        BY <4>1, BothParts
      <4> QED
        BY <3>1, <4>2 DEF Parts
    <3>10. \A k \in 1..e - s : both[k] = text[k]
      <4>1. SUFFICES ASSUME NEW k \in 1..e - s PROVE both[k] = text[k]
        OBVIOUS
      <4>2. k \in 1..x \/ (k - x \in 1..stop /\ x + (k - x) = k)
        BY <3>1
      <4> HIDE DEF both
      <4>3. CASE k \in 1..x
        BY <3>5, <3>9, <4>3
      <4>4. ASSUME k - x \in 1..stop, x + (k - x) = k
            PROVE  both[k] = text[k]
        BY <3>6, <3>9, <4>4
      <4> QED BY <4>2, <4>3, <4>4
    <3> HIDE DEF both
    <3>11. both = text
      BY <1>6, <3>9, <3>10
    <3> QED BY <3>11 DEF both
  <2> QED BY <2>2, <2>3, <2>8 DEF Substr, text
<1>9. CASE ~(start > stop)
  <2>1. start + (e - s) < n
    BY <1>1, <1>2, <1>4, <1>9, e - s < n DEF n
  <2>2. GetSegment(b, <<s, e>>) = Bytes(b, start, e - s)
    BY <1>9 DEF GetSegment, n, start, stop
  <2>3. ASSUME NEW k \in 1..e - s
        PROVE  start + k - 1 < n /\ b.cells[start + k - 1] = text[k]
    <3>1. k - 1 \in 0..n - 1 /\ start + (k - 1) < n /\ start + k - 1 = start + (k - 1)
      BY <1>1, <1>2, <2>1
    <3>2. (s + (k - 1)) % n = start + (k - 1)
      BY <1>3, <3>1
    <3> QED BY <1>5, <3>1, <3>2
  <2>4. Bytes(b, start, e - s) = text
    <3>1. \A k \in 1..e - s :
            (IF start + k - 1 < n THEN b.cells[start + k - 1] ELSE NoChar) = text[k]
      BY <2>3
    <3>2. text = [k \in 1..e - s |-> text[k]]
      BY <1>6
    <3> QED BY <1>7, <3>1, <3>2
  <2> QED BY <2>2, <2>4 DEF Substr, text
<1> QED BY <1>8, <1>9


----------------------------------------------------------------------------
(***************************************************************************)
(* Match objects: whatever was asked of one, or of what it was made from,  *)
(* it has the annotations of its match in its window, and its map, if it   *)
(* has one, is the map of these.                                           *)
(***************************************************************************)
Gives(map, o) ==
  \A v \in DOMAIN o.match :
    /\ ListsInOrder(Entry(map, v, << >>), SpansIn(o.match[v], o.window))
    /\ Entry(map, v, << >>) \in Seq(Int \X Int)

IsRecord(o) ==
  o = [match |-> o.match, from |-> o.from, window |-> o.window,
       annotations |-> o.annotations, cache |-> o.cache, mapping |-> o.mapping]

HasOneSpan(o, v) ==
  \E s : SpansIn(o.match[v], o.window) = {s} /\ o.mapping[v] = s

\* Of a query of the kind k with variables vs, where f characters were read.
IsObject(o, k, vs, f) ==
  /\ IsRecord(o)
  /\ IsMatch(o.match) /\ DOMAIN o.match = vs
  /\ o.from \in Nat /\ o.window \in Nat \X Nat
  /\ Slice(o.annotations, o.match, o.window)
  /\ o.cache # NoCache => \E map : o.cache = {map} /\ Gives(map, o)
  /\ k \in {"match", "s_match"} => \A v \in vs : HasOneSpan(o, v)
  /\ k \in {"s_match", "s_multi"} =>
       \A v \in vs : \A s \in o.match[v] : o.from + s[2] <= f

LEMMA ReadFurther ==
  ASSUME NEW o, NEW k, NEW vs, NEW f \in Nat, NEW g \in Nat, f <= g, IsObject(o, k, vs, f)
  PROVE  IsObject(o, k, vs, g)
<1>1. ASSUME NEW v \in vs, NEW s \in o.match[v], o.from + s[2] <= f
      PROVE  o.from + s[2] <= g
  <2>1. o.from \in Nat /\ s[2] \in Nat
    BY DEF IsObject, IsMatch
  <2> QED
    BY <1>1, <2>1
<1> QED
  BY <1>1 DEF IsObject

LEMMA CachedIsRight ==
  ASSUME NEW o, NEW k, NEW vs, NEW f, IsObject(o, k, vs, f)
  PROVE  Gives(Cached(o), o)
<1>1. CASE o.cache = NoCache
  <2>1. Cached(o) = ConstructExtendedMapping(o.annotations)
    BY <1>1 DEF Cached
  <2>2. \A v \in DOMAIN o.match :
          LET S == Entry(ConstructExtendedMapping(o.annotations), v, << >>)
          IN  ListsInOrder(S, SpansIn(o.match[v], o.window)) /\ S \in Seq(Int \X Int)
    BY SpansOfASlice DEF IsObject
  <2> QED
    BY <2>1, <2>2 DEF Gives
<1>2. CASE o.cache # NoCache
  <2>1. PICK map : o.cache = {map} /\ Gives(map, o)
    BY <1>2 DEF IsObject
  <2>2. Cached(o) = CHOOSE m \in {map} : TRUE
    BY <1>2, <2>1 DEF Cached
  <2>3. Cached(o) = map
    BY <2>2
  <2> QED
    BY <2>1, <2>3
<1> QED
  BY <1>1, <1>2

LEMMA EntryIsAdded ==
  ASSUME NEW o, NEW map, Gives(map, o), NEW v \in DOMAIN o.match
  PROVE  /\ Gives(WithEntry(map, v, Entry(map, v, << >>)), o)
         /\ WithEntry(map, v, Entry(map, v, << >>))[v] = Entry(map, v, << >>)
<1> DEFINE more == WithEntry(map, v, Entry(map, v, << >>))
<1>1. \A w : Entry(more, w, << >>) = Entry(map, w, << >>)
  BY DEF WithEntry, Entry
<1>2. more[v] = Entry(map, v, << >>)
  BY DEF WithEntry
<1> HIDE DEF more
<1>3. Gives(more, o)
  BY <1>1 DEF Gives
<1> QED
  BY <1>2, <1>3 DEF more

LEMMA CacheIsKept ==
  ASSUME NEW o, NEW k, NEW vs, NEW f, IsObject(o, k, vs, f), NEW map, Gives(map, o)
  PROVE  LET p == [o EXCEPT !.cache = {map}]
         IN  /\ IsObject(p, k, vs, f)
             /\ p.match = o.match /\ p.from = o.from /\ p.window = o.window
<1> DEFINE p == [o EXCEPT !.cache = {map}]
<1>1. /\ p = [match |-> o.match, from |-> o.from, window |-> o.window,
              annotations |-> o.annotations, cache |-> {map}, mapping |-> o.mapping]
  BY DEF IsObject, IsRecord
<1> HIDE DEF p
<1>2. /\ p.match = o.match /\ p.from = o.from /\ p.window = o.window
      /\ p.annotations = o.annotations /\ p.cache = {map} /\ p.mapping = o.mapping
  BY <1>1
<1>3. IsRecord(p)
  BY <1>1, <1>2 DEF IsRecord
<1>4. Gives(map, p)
  BY <1>2 DEF Gives
<1>5. \A v : HasOneSpan(p, v) <=> HasOneSpan(o, v)
  BY <1>2 DEF HasOneSpan
<1>6. IsObject(p, k, vs, f)
  BY <1>2, <1>3, <1>4, <1>5 DEF IsObject
<1> QED
  BY <1>2, <1>6 DEF p

LEMMA SubmatchIsObject ==
  ASSUME NEW o, NEW k, NEW vs, NEW f, IsObject(o, k, vs, f), k \notin {"match", "s_match"},
         NEW span \in Nat \X Nat, span[1] <= span[2], ~SearchLeavesVector(o.annotations, span)
  PROVE  IsObject(SubmatchOf(o, span), k, vs, f)
<1> DEFINE p == SubmatchOf(o, span)
           inside == Inside(o.window, span)
           A == GetSubmapping(o.annotations, span)
<1>1. p = [match |-> o.match, from |-> o.from, window |-> inside,
           annotations |-> A, cache |-> NoCache, mapping |-> o.mapping]
  <2> DEFINE m == o.match
             f0 == o.from
             w == o.window
             a == o.annotations
             c == o.cache
             g == o.mapping
  <2>1. o = [match |-> m, from |-> f0, window |-> w, annotations |-> a, cache |-> c,
             mapping |-> g]
    BY DEF IsObject, IsRecord
  <2>2. p = [o EXCEPT !.annotations = A, !.window = inside, !.cache = NoCache]
    BY DEF SubmatchOf
  <2> HIDE DEF m, f0, w, a, c, g, p, A, inside
  <2>3. p = [match |-> m, from |-> f0, window |-> inside, annotations |-> A,
             cache |-> NoCache, mapping |-> g]
    BY <2>1, <2>2
  <2> QED
    BY <2>3 DEF m, f0, g
<1>2. inside \in Nat \X Nat
  BY InsideOfBoth DEF IsObject
<1>3. Slice(A, o.match, inside)
  BY SubmappingIsASlice DEF IsObject
<1> HIDE DEF p, inside, A
<1>4. /\ p.match = o.match /\ p.from = o.from /\ p.window = inside
      /\ p.annotations = A /\ p.cache = NoCache /\ p.mapping = o.mapping
  BY <1>1
<1>5. IsRecord(p)
  BY <1>1, <1>4 DEF IsRecord
<1>6. IsObject(p, k, vs, f)
  BY <1>2, <1>3, <1>4, <1>5 DEF IsObject
<1> QED
  BY <1>6 DEF p

----------------------------------------------------------------------------
(***************************************************************************)
(* What is found becomes an object.                                        *)
(***************************************************************************)
IsFound(result, k, vs) ==
  /\ result \in Results
  /\ \A i \in DOMAIN result :
       /\ DOMAIN result[i] = vs
       /\ k \in {"match", "s_match"} => \A v \in vs : Cardinality(result[i][v]) = 1

Fits(match, k, vs) ==
  /\ IsMatch(match) /\ DOMAIN match = vs
  /\ EndOf(match) \in Nat
  /\ \A v \in vs : \A s \in match[v] : s[2] <= EndOf(match)
  /\ k \in {"match", "s_match"} => \A v \in vs : \E s : match[v] = {s}

LEMMA FoundIsMatch ==
  ASSUME NEW result, NEW k, NEW vs \in VariableSets, IsFound(result, k, vs),
         NEW i \in DOMAIN result
  PROVE  Fits(result[i], k, vs)
<1> DEFINE match == result[i]
           X == {s[2] : s \in UNION {match[v] : v \in DOMAIN match}}
           T == {0} \cup X
<1>1. DOMAIN match = vs /\ Size \in Nat /\ \A v \in vs : v \in Nat
  BY BoundsAssumption, VariablesAssumption DEF IsFound
<1>2. \A v \in vs : /\ match[v] \subseteq (0..Size) \X (0..Size)
                    /\ \A s \in match[v] : s[1] < s[2]
                    /\ \A s, t \in match[v] : s = t \/ s[2] <= t[1] \/ t[2] <= s[1]
  BY <1>1, ResultsAssumption DEF IsFound
<1> HIDE DEF match
<1>3. \A v \in vs : \A s \in match[v] : s \in Nat \X Nat /\ s[2] \in 0..Size /\ s[2] <= Size
  BY <1>1, <1>2
<1>4. IsMatch(match)
  BY <1>1, <1>2, <1>3 DEF IsMatch
<1>5. T \subseteq 0..Size /\ T # {} /\ \A v \in vs : \A s \in match[v] : s[2] \in T
  <2>1. \A s \in UNION {match[v] : v \in DOMAIN match} : s[2] \in 0..Size
    BY <1>1, <1>3
  <2>2. X \subseteq 0..Size
    BY <2>1
  <2>3. \A v \in vs : \A s \in match[v] : s[2] \in X
    BY <1>1
  <2> HIDE DEF X
  <2> QED
    BY <1>1, <2>2, <2>3
<1>6. EndOf(match) = Max(T)
  BY DEF EndOf
<1> HIDE DEF T
<1>7. Max(T) \in T /\ \A t \in T : Max(T) >= t
  BY <1>1, <1>5, Extremes
<1>8. EndOf(match) \in Nat /\ \A v \in vs : \A s \in match[v] : s[2] <= EndOf(match)
  <2> DEFINE e == EndOf(match)
  <2>1. e \in T /\ \A t \in T : e >= t
    BY <1>6, <1>7
  <2> HIDE DEF e, X
  <2>2. \A t \in T : t \in Nat
    <3>1. \A t \in 0..Size : t \in Nat
      BY <1>1
    <3> QED
      BY <1>5, <3>1
  <2>3. \A t \in T : t <= e
    BY <2>1, <2>2
  <2>4. e \in Nat /\ \A v \in vs : \A s \in match[v] : s[2] <= e
    BY <1>5, <2>1, <2>2, <2>3
  <2> QED
    BY <2>4 DEF e
<1>9. ASSUME k \in {"match", "s_match"}, NEW v \in vs
      PROVE  \E s : match[v] = {s}
  <2>1. Cardinality(match[v]) = 1
    BY <1>9 DEF IsFound, match
  <2>2. IsFiniteSet(match[v])
    <3>1. IsFiniteSet(0..Size)
      BY <1>1, FS_Interval, 0 \in Int, Size \in Int
    <3>2. IsFiniteSet((0..Size) \X (0..Size))
      BY <3>1, FS_Product
    <3> QED
      BY <1>2, <3>2, FS_Subset, match[v] \in SUBSET ((0..Size) \X (0..Size))
  <2> QED
    BY <2>1, <2>2, FS_Singleton
<1>10. Fits(match, k, vs)
  BY <1>1, <1>4, <1>8, <1>9 DEF Fits
<1> QED
  BY <1>10 DEF match

LEMMA NewObject ==
  ASSUME NEW result, IsFound(result, kind, variables), variables \in VariableSets,
         NEW i \in DOMAIN result, NEW start \in Nat, NEW f \in Nat,
         OverStream => start + EndOf(result[i]) <= f
  PROVE  IsObject(MatchObject(result[i], start), kind, variables, f)
<1> DEFINE match == result[i]
           o == MatchObject(match, start)
<1>1. /\ IsMatch(match) /\ DOMAIN match = variables /\ EndOf(match) \in Nat
      /\ \A v \in variables : \A s \in match[v] : s[2] <= EndOf(match)
      /\ kind \in {"match", "s_match"} => \A v \in variables : \E s : match[v] = {s}
  <2>1. Fits(match, kind, variables)
    BY FoundIsMatch
  <2> HIDE DEF match
  <2> QED
    BY <2>1 DEF Fits
<1>2. /\ o.match = match /\ o.from = start /\ o.window = <<0, Size>>
      /\ o.annotations = Annotations(match) /\ o.cache = NoCache
      /\ o.mapping = IF Multi THEN NoEntries
                     ELSE ConstructUserMapping(DOMAIN match, Annotations(match))
  BY MatchFields
<1>3. IsRecord(o)
  <2>1. o = [match |-> match, from |-> start, window |-> <<0, Size>>,
             annotations |-> Annotations(match), cache |-> NoCache,
             mapping |-> IF Multi THEN NoEntries
                         ELSE ConstructUserMapping(DOMAIN match, Annotations(match))]
    BY DEF MatchObject
  <2> HIDE DEF o
  <2> QED
    BY <1>2, <2>1, Zenon DEF IsRecord
<1>4. OverStream => start + EndOf(match) <= f
  OBVIOUS
<1> HIDE DEF match, o
<1>5. ASSUME kind \in {"match", "s_match"}, NEW v \in variables
      PROVE  HasOneSpan(o, v)
  <2>1. PICK s : match[v] = {s}
    BY <1>1, <1>5
  <2>2. ConstructUserMapping(DOMAIN match, Annotations(match))[v] = s
    <3>1. IsMatch(match) /\ v \in DOMAIN match /\ match[v] = {s}
      BY <1>1, <2>1
    <3> QED
      BY <3>1, SpanOfAMatch
  <2>3. ~Multi
    BY <1>5 DEF Multi
  <2>4. s \in Nat \X Nat /\ s[2] <= Size
    BY <1>1, <2>1 DEF IsMatch
  <2>5. SpansIn(match[v], <<0, Size>>) = {s}
    BY <2>1, <2>4 DEF SpansIn
  <2> QED
    BY <1>2, <2>2, <2>3, <2>5 DEF HasOneSpan
<1>6. ASSUME OverStream, NEW v \in variables, NEW s \in match[v]
      PROVE  start + s[2] <= f
  <2>1. s[2] \in Nat /\ s[2] <= EndOf(match) /\ EndOf(match) \in Nat
    BY <1>1 DEF IsMatch
  <2> QED
    BY <1>4, <1>6, <2>1
<1>7. <<0, Size>> \in Nat \X Nat /\ Slice(Annotations(match), match, <<0, Size>>)
  BY MatchIsASlice, BoundsAssumption
<1>8. IsObject(o, kind, variables, f)
  BY <1>1, <1>2, <1>3, <1>5, <1>6, <1>7 DEF IsObject, OverStream
<1> QED
  BY <1>8 DEF o, match

----------------------------------------------------------------------------
(***************************************************************************)
(* The inductive invariant.                                                *)
(***************************************************************************)
Kinds == {"match", "s_match", "multi", "s_multi"}

AllObjects(objects, k, vs, f) ==
  IsList(objects) /\ \A i \in 1..Len(objects) : IsObject(objects[i], k, vs, f)

TextInv ==
  /\ kind \in Kinds /\ variables \in VariableSets
  /\ IsFound(found, kind, variables)
  /\ from \in Nat /\ taken \in Nat
  /\ KeepsTheLast(buffer)

ObjectsInv ==
  /\ current # NoMatch => IsObject(current, kind, variables, buffer.file_pos)
  /\ AllObjects(kept, kind, variables, buffer.file_pos)

ReplyInv == call = "collect" => reply = NoReply

ClientInv == TextInv /\ ObjectsInv /\ ReplyInv

LEMMA AllReadFurther ==
  ASSUME NEW s, NEW k, NEW vs, NEW f \in Nat, NEW g \in Nat, f <= g,
         AllObjects(s, k, vs, f)
  PROVE  AllObjects(s, k, vs, g)
BY ReadFurther DEF AllObjects

LEMMA OneMoreObject ==
  ASSUME NEW s, NEW k, NEW vs, NEW f, AllObjects(s, k, vs, f), NEW o, IsObject(o, k, vs, f)
  PROVE  AllObjects(Append(s, o), k, vs, f)
<1> DEFINE t == Append(s, o)
           n == Len(s)
<1>1. /\ IsList(t) /\ Len(t) = n + 1 /\ t[n + 1] = o /\ n \in Nat
      /\ \A i \in 1..n : t[i] = s[i]
  BY AppendIsList DEF AllObjects, IsList
<1>2. \A i \in 1..n : IsObject(s[i], k, vs, f)
  BY DEF AllObjects
<1> HIDE DEF t, n
<1>3. \A i \in 1..Len(t) : i \in 1..n \/ i = n + 1
  BY <1>1
<1>4. \A i \in 1..Len(t) : IsObject(t[i], k, vs, f)
  BY <1>1, <1>2, <1>3
<1>5. AllObjects(t, k, vs, f)
  BY <1>1, <1>4 DEF AllObjects
<1> QED
  BY <1>5 DEF t

Changed(t, s, j, o) == t = [s EXCEPT ![j] = o]

LEMMA OneObjectChanged ==
  ASSUME NEW s, NEW k, NEW vs, NEW f, AllObjects(s, k, vs, f),
         NEW j \in 1..Len(s), NEW o, IsObject(o, k, vs, f), NEW t, Changed(t, s, j, o)
  PROVE  AllObjects(t, k, vs, f) /\ t[j] = o
<1> DEFINE n == Len(s)
<1>1. n \in Nat /\ s = [i \in 1..n |-> s[i]] /\ \A i \in 1..n : IsObject(s[i], k, vs, f)
  BY DEF AllObjects, IsList
<1>2. j \in 1..n
  OBVIOUS
<1> HIDE DEF n
<1>3. /\ t = [i \in 1..n |-> t[i]]
      /\ \A i \in 1..n : t[i] = IF i = j THEN o ELSE s[i]
  BY <1>1 DEF Changed
<1>4. Len(t) = n
  BY <1>1, <1>3
<1>5. AllObjects(t, k, vs, f)
  BY <1>1, <1>3, <1>4 DEF AllObjects, IsList
<1>6. t[j] = o
  BY <1>2, <1>3
<1> QED
  BY <1>5, <1>6

LEMMA OneObject ==
  ASSUME NEW k, NEW vs, NEW f, NEW o, IsObject(o, k, vs, f)
  PROVE  AllObjects(<<o>>, k, vs, f)
BY SingleIsList DEF AllObjects

LEMMA NoObjects ==
  ASSUME NEW k, NEW vs, NEW f
  PROVE  AllObjects(<< >>, k, vs, f)
BY NothingIsList DEF AllObjects

LEMMA FoundNth ==
  ASSUME NEW result, IsFound(result, kind, variables), NEW n \in Nat
  PROVE  /\ IsList(result)
         /\ n \in DOMAIN result <=> 1 <= n /\ n <= Len(result)
         /\ result # << >> => 1 \in DOMAIN result
<1>1. IsList(result)
  BY ResultsAssumption DEF IsFound, IsList
<1>2. DOMAIN result = 1..Len(result) /\ Len(result) \in Nat
  BY <1>1 DEF IsList
<1>3. result # << >> => Len(result) # 0
  <2>1. SUFFICES ASSUME Len(result) = 0 PROVE result = << >>
    OBVIOUS
  <2>2. result = [i \in 1..0 |-> result[i]]
    BY <1>1, <2>1 DEF IsList
  <2> QED
    BY <2>2
<1> QED
  BY <1>1, <1>2, <1>3

LEMMA NextMappingReads ==
  ASSUME TextInv, NEW result, IsFound(result, kind, variables), NEW start \in Nat,
         NEW n \in Nat \ {0}, NextMapping(result, start, n)
  PROVE  /\ taken' = n /\ KeepsTheLast(buffer')
         /\ buffer.file_pos \in Nat /\ buffer'.file_pos \in Nat
         /\ buffer.file_pos <= buffer'.file_pos
         /\ n \in DOMAIN result => start + EndOf(result[n]) <= buffer'.file_pos
<1>1. PICK position \in buffer.file_pos..Size + 1 :
           /\ position >= IF n <= Len(result) THEN start + EndOf(result[n]) ELSE Size + 1
           /\ buffer' = AfterReading(buffer, position)
  BY DEF NextMapping
<1>2. taken' = n
  BY DEF NextMapping
<1>3. KeepsTheLast(buffer) /\ buffer.file_pos \in Nat /\ Size \in Nat
  BY BoundsAssumption DEF TextInv, KeepsTheLast, Buffers
<1>4. position \in Nat /\ buffer.file_pos <= position
  BY <1>1, <1>3
<1>5. KeepsTheLast(buffer') /\ buffer'.file_pos = position
  BY <1>1, <1>3, <1>4, ReadingOn
<1>6. n \in DOMAIN result => start + EndOf(result[n]) <= position
  <2>1. SUFFICES ASSUME n \in DOMAIN result PROVE start + EndOf(result[n]) <= position
    OBVIOUS
  <2>2. n <= Len(result)
    BY <2>1, FoundNth
  <2>3. Fits(result[n], kind, variables)
    BY <2>1, FoundIsMatch DEF TextInv
  <2>4. EndOf(result[n]) \in Nat
    BY <2>3 DEF Fits
  <2> QED
    BY <1>1, <1>4, <2>2, <2>4
<1> QED
  BY <1>2, <1>3, <1>4, <1>5, <1>6

LEMMA NextMatchMakes ==
  ASSUME TextInv, NEW result, IsFound(result, kind, variables), NEW start \in Nat,
         NEW n \in Nat \ {0}, NextMatch(result, start, n)
  PROVE  /\ taken' = n /\ KeepsTheLast(buffer') /\ reply' = NoReply
         /\ buffer.file_pos \in Nat /\ buffer'.file_pos \in Nat
         /\ buffer.file_pos <= buffer'.file_pos
         /\ current' # NoMatch => IsObject(current', kind, variables, buffer'.file_pos)
<1>1. /\ taken' = n /\ KeepsTheLast(buffer')
      /\ buffer.file_pos \in Nat /\ buffer'.file_pos \in Nat
      /\ buffer.file_pos <= buffer'.file_pos
      /\ OverStream /\ n \in DOMAIN result => start + EndOf(result[n]) <= buffer'.file_pos
  <2>1. CASE OverStream
    BY <2>1, NextMappingReads DEF NextMatch
  <2>2. CASE ~OverStream
    <3>1. taken' = n /\ buffer' = buffer
      BY <2>2 DEF NextMatch
    <3>2. KeepsTheLast(buffer) /\ buffer.file_pos \in Nat
      BY DEF TextInv, KeepsTheLast, Buffers
    <3> QED
      BY <2>2, <3>1, <3>2
  <2> QED
    BY <2>1, <2>2
<1>2. reply' = NoReply
      /\ current' = IF n <= Len(result) THEN MatchObject(result[n], start) ELSE NoMatch
  BY DEF NextMatch
<1>3. ASSUME current' # NoMatch
      PROVE  IsObject(current', kind, variables, buffer'.file_pos)
  <2>1. n <= Len(result) /\ current' = MatchObject(result[n], start)
    BY <1>2, <1>3
  <2>2. n \in DOMAIN result
    BY <2>1, FoundNth
  <2>3. variables \in VariableSets
    BY DEF TextInv
  <2>4. IsObject(MatchObject(result[n], start), kind, variables, buffer'.file_pos)
    BY <1>1, <2>2, <2>3, NewObject
  <2> QED
    BY <2>1, <2>4
<1> QED
  BY <1>1, <1>2, <1>3

LEMMA ThrowingReads ==
  ASSUME TextInv, NextThrows
  PROVE  /\ KeepsTheLast(buffer') /\ reply' = NoReply
         /\ buffer.file_pos \in Nat /\ buffer'.file_pos \in Nat
         /\ buffer.file_pos <= buffer'.file_pos
<1>1. KeepsTheLast(buffer) /\ buffer.file_pos \in Nat /\ Size \in Nat
  BY BoundsAssumption DEF TextInv, KeepsTheLast, Buffers
<1>2. CASE OverStream
  <2>1. PICK position \in buffer.file_pos..Size + 1 : buffer' = AfterReading(buffer, position)
    BY <1>2 DEF NextThrows
  <2>2. position \in Nat /\ buffer.file_pos <= position
    BY <1>1, <2>1
  <2>3. KeepsTheLast(buffer') /\ buffer'.file_pos = position
    BY <1>1, <2>1, <2>2, ReadingOn
  <2> QED
    BY <1>1, <2>2, <2>3 DEF NextThrows
<1>3. CASE ~OverStream
  <2>1. buffer' = buffer /\ reply' = NoReply
    BY <1>3 DEF NextThrows
  <2> QED
    BY <1>1, <2>1
<1> QED
  BY <1>2, <1>3

LEMMA MayFindIsFound ==
  ASSUME NEW result \in Results, NEW size, MayFind(result, size), kind \in Kinds
  PROVE  IsFound(result, kind, variables)
<1>1. ~Multi <=> kind \in {"match", "s_match"}
  BY DEF Kinds, Multi
<1> QED
  BY <1>1 DEF MayFind, IsFound

LEMMA InitIsRight ==
  ASSUME Init
  PROVE  ClientInv
<1>1. PICK size \in BufferSizes : buffer = EmptyBuffer(size)
  BY DEF Init
<1>2. /\ kind \in Kinds /\ variables \in VariableSets /\ from \in Nat /\ taken \in Nat
      /\ current = NoMatch /\ kept = << >> /\ reply = NoReply
      /\ found \in Results /\ MayFind(found, Size)
  BY DEF Init, Kinds
<1>3. KeepsTheLast(buffer)
  BY <1>1, EmptyKeeps
<1>4. IsFound(found, kind, variables)
  BY <1>2, MayFindIsFound
<1>5. AllObjects(kept, kind, variables, buffer.file_pos)
  BY <1>2, NoObjects
<1> QED
  BY <1>2, <1>3, <1>4, <1>5 DEF ClientInv, TextInv, ObjectsInv, ReplyInv

----------------------------------------------------------------------------
(***************************************************************************)
(* The steps of the iterators and of the calls that collect.               *)
(***************************************************************************)
LEMMA IteratorSteps ==
  ASSUME ClientInv, Begin \/ Increment
  PROVE  ClientInv'
<1>1. PICK n \in Nat \ {0} : NextMatch(found, from, n)
  <2>1. CASE Begin
    BY <2>1, 1 \in Nat \ {0} DEF Begin
  <2>2. CASE Increment
    <3>1. taken + 1 \in Nat \ {0}
      BY DEF ClientInv, TextInv
    <3> QED
      BY <2>2, <3>1 DEF Increment
  <2> QED
    BY <2>1, <2>2
<1>2. UNCHANGED <<kind, variables, found, from, kept>>
  BY DEF Begin, Increment, generator
<1>3. /\ taken' = n /\ KeepsTheLast(buffer') /\ reply' = NoReply
      /\ buffer.file_pos \in Nat /\ buffer'.file_pos \in Nat
      /\ buffer.file_pos <= buffer'.file_pos
      /\ current' # NoMatch => IsObject(current', kind, variables, buffer'.file_pos)
  BY <1>1, NextMatchMakes DEF ClientInv, TextInv
<1>4. AllObjects(kept, kind, variables, buffer'.file_pos)
  BY <1>3, AllReadFurther DEF ClientInv, ObjectsInv
<1> QED
  BY <1>2, <1>3, <1>4 DEF ClientInv, TextInv, ObjectsInv, ReplyInv

LEMMA BeginAgainStep ==
  ASSUME ClientInv, BeginAgain
  PROVE  ClientInv'
<1>1. /\ UNCHANGED <<kind, variables, kept>>
      /\ found' \in Results /\ MayFind(found', Size - from')
      /\ NextMatch(found', from', 1)
      /\ from' = Min({buffer.file_pos, Size})
  BY DEF BeginAgain
<1>2. IsFound(found', kind, variables)
  BY <1>1, MayFindIsFound DEF ClientInv, TextInv
<1>3. from' \in Nat
  <2>1. buffer.file_pos \in Nat /\ Size \in Nat
    BY BoundsAssumption DEF ClientInv, TextInv, KeepsTheLast, Buffers
  <2> DEFINE T == {buffer.file_pos, Size}
  <2>2. PICK x \in T : \A y \in T : ~(y < x)
    <3>1. T \subseteq Nat /\ T # {}
      BY <2>1
    <3> HIDE DEF T
    <3> QED
      BY <3>1, LeastNumber
  <2>3. \A y \in T : x <= y
    BY <2>1, <2>2
  <2>4. Min(T) \in T
    BY <2>3 DEF Min
  <2> QED
    BY <1>1, <2>1, <2>4
<1>4. /\ taken' = 1 /\ KeepsTheLast(buffer') /\ reply' = NoReply
      /\ buffer.file_pos \in Nat /\ buffer'.file_pos \in Nat
      /\ buffer.file_pos <= buffer'.file_pos
      /\ current' # NoMatch => IsObject(current', kind, variables, buffer'.file_pos)
  BY <1>1, <1>2, <1>3, 1 \in Nat \ {0}, NextMatchMakes DEF ClientInv
<1>5. AllObjects(kept, kind, variables, buffer'.file_pos)
  BY <1>4, AllReadFurther DEF ClientInv, ObjectsInv
<1> QED
  BY <1>1, <1>2, <1>3, <1>4, <1>5 DEF ClientInv, TextInv, ObjectsInv, ReplyInv

LEMMA ThrowingStep ==
  ASSUME ClientInv, NextThrows, UNCHANGED <<kind, variables, found, from>>, taken' \in Nat,
         current' \in {current, NoMatch}, kept' \in {kept, << >>}
  PROVE  ClientInv'
<1>1. /\ KeepsTheLast(buffer') /\ reply' = NoReply
      /\ buffer.file_pos \in Nat /\ buffer'.file_pos \in Nat
      /\ buffer.file_pos <= buffer'.file_pos
  BY ThrowingReads DEF ClientInv
<1>2. AllObjects(kept', kind, variables, buffer'.file_pos)
  BY <1>1, AllReadFurther, NoObjects DEF ClientInv, ObjectsInv
<1>3. current' # NoMatch => IsObject(current', kind, variables, buffer'.file_pos)
  BY <1>1, ReadFurther DEF ClientInv, ObjectsInv
<1> QED
  BY <1>1, <1>2, <1>3 DEF ClientInv, TextInv, ObjectsInv, ReplyInv

LEMMA ThrowingSteps ==
  ASSUME ClientInv, BeginThrows \/ IncrementThrows \/ FindoneThrows \/ CollectThrows
  PROVE  ClientInv'
<1>1. NextThrows /\ UNCHANGED <<kind, variables, found, from>>
  BY DEF BeginThrows, IncrementThrows, FindoneThrows, CollectThrows, generator
<1>2. taken' \in {0, 1, taken + 1} /\ taken \in Nat
  BY DEF BeginThrows, IncrementThrows, FindoneThrows, CollectThrows, ClientInv, TextInv
<1>3. current' \in {current, NoMatch} /\ kept' \in {kept, << >>}
  BY DEF BeginThrows, IncrementThrows, FindoneThrows, CollectThrows, Throws
<1>4. taken' \in Nat
  BY <1>2
<1> QED
  BY <1>1, <1>3, <1>4, ThrowingStep

LEMMA KeepStep ==
  ASSUME ClientInv, Keep
  PROVE  ClientInv'
<1>1. /\ UNCHANGED <<kind, variables, found, from, buffer, taken, current, call>>
      /\ kept' = Append(kept, current) /\ current # NoMatch /\ reply' = NoReply
  BY DEF Keep, generator
<1>2. AllObjects(kept', kind, variables, buffer.file_pos)
  BY <1>1, OneMoreObject DEF ClientInv, ObjectsInv
<1> QED
  BY <1>1, <1>2 DEF ClientInv, TextInv, ObjectsInv, ReplyInv

LEMMA FindoneStep ==
  ASSUME ClientInv, Findone
  PROVE  ClientInv'
<1>1. /\ UNCHANGED <<kind, variables, found, from>>
      /\ current' = NoMatch /\ reply' = NoReply
      /\ IF OverStream THEN NextMapping(found, from, 1) ELSE taken' = 1 /\ UNCHANGED buffer
      /\ IF found = << >> THEN kept' = << >>
         ELSE \E i \in IF OverStream THEN {1} ELSE DOMAIN found :
                kept' = <<MatchObject(found[i], from)>>
  BY DEF Findone, generator
<1>2. /\ IsFound(found, kind, variables) /\ from \in Nat /\ KeepsTheLast(buffer)
      /\ variables \in VariableSets
  BY DEF ClientInv, TextInv
<1>3. /\ taken' = 1 /\ KeepsTheLast(buffer')
      /\ buffer.file_pos \in Nat /\ buffer'.file_pos \in Nat
      /\ buffer.file_pos <= buffer'.file_pos
      /\ OverStream /\ 1 \in DOMAIN found => from + EndOf(found[1]) <= buffer'.file_pos
  <2>1. CASE OverStream
    BY <1>1, <1>2, <2>1, 1 \in Nat \ {0}, NextMappingReads DEF ClientInv
  <2>2. CASE ~OverStream
    <3>1. taken' = 1 /\ buffer' = buffer
      BY <1>1, <2>2
    <3>2. buffer.file_pos \in Nat
      BY <1>2 DEF KeepsTheLast, Buffers
    <3> QED
      BY <1>2, <2>2, <3>1, <3>2
  <2> QED
    BY <2>1, <2>2
<1>4. AllObjects(kept', kind, variables, buffer'.file_pos)
  <2>1. CASE found = << >>
    BY <1>1, <2>1, NoObjects
  <2>2. CASE found # << >>
    <3>1. PICK i \in IF OverStream THEN {1} ELSE DOMAIN found :
                kept' = <<MatchObject(found[i], from)>>
      BY <1>1, <2>2
    <3>2. i \in DOMAIN found /\ (OverStream => i = 1)
      BY <1>2, <2>2, <3>1, 1 \in Nat, FoundNth
    <3>3. OverStream => from + EndOf(found[i]) <= buffer'.file_pos
      BY <1>3, <3>2
    <3>4. IsObject(MatchObject(found[i], from), kind, variables, buffer'.file_pos)
      BY <1>2, <1>3, <3>2, <3>3, NewObject
    <3> QED
      BY <3>1, <3>4, OneObject
  <2> QED
    BY <2>1, <2>2
<1> QED
  BY <1>1, <1>2, <1>3, <1>4 DEF ClientInv, TextInv, ObjectsInv, ReplyInv

LEMMA CollectNext ==
  ASSUME ClientInv, NEW n \in Nat \ {0}, NextMatch(found, from, n),
         UNCHANGED <<kind, variables, found, from>>,
         kept' = << >> \/ (current # NoMatch /\ kept' = Append(kept, current))
  PROVE  ClientInv'
<1>1. /\ taken' = n /\ KeepsTheLast(buffer') /\ reply' = NoReply
      /\ buffer.file_pos \in Nat /\ buffer'.file_pos \in Nat
      /\ buffer.file_pos <= buffer'.file_pos
      /\ current' # NoMatch => IsObject(current', kind, variables, buffer'.file_pos)
  BY NextMatchMakes DEF ClientInv, TextInv
<1>2. AllObjects(kept', kind, variables, buffer.file_pos)
  BY OneMoreObject, NoObjects DEF ClientInv, ObjectsInv
<1>3. AllObjects(kept', kind, variables, buffer'.file_pos)
  BY <1>1, <1>2, AllReadFurther
<1> QED
  BY <1>1, <1>3 DEF ClientInv, TextInv, ObjectsInv, ReplyInv

LEMMA CollectingStep ==
  ASSUME ClientInv, NEW m, Collecting(m)
  PROVE  ClientInv'
<1>1. UNCHANGED <<kind, variables, found, from>>
  BY DEF Collecting, generator
<1>2. CASE NextMatch(found, from, 1) /\ kept' = << >>
  BY <1>1, <1>2, 1 \in Nat \ {0}, CollectNext
<1>3. CASE NextThrows /\ taken' = 1 /\ Throws
  BY <1>1, <1>3, ThrowingStep DEF Throws
<1> QED
  BY <1>2, <1>3 DEF Collecting

LEMMA FindmanyStep ==
  ASSUME ClientInv, NEW m, Findmany(m)
  PROVE  ClientInv'
<1>1. CASE Collecting(m)
  BY <1>1, CollectingStep
<1>2. CASE ~Collecting(m)
  <2>1. /\ UNCHANGED <<kind, variables, found, from, buffer>> /\ taken' = 0
        /\ reply' = NoReply /\ current' = NoMatch /\ kept' = << >>
    BY <1>2 DEF Findmany, Throws, generator
  <2>2. AllObjects(kept', kind, variables, buffer.file_pos)
    BY <2>1, NoObjects
  <2> QED
    BY <2>1, <2>2 DEF ClientInv, TextInv, ObjectsInv, ReplyInv
<1> QED
  BY <1>1, <1>2

LEMMA CollectGoesOn ==
  ASSUME ClientInv, Collect
  PROVE  ClientInv'
<1>1. taken + 1 \in Nat \ {0}
  BY DEF ClientInv, TextInv
<1>2. /\ UNCHANGED <<kind, variables, found, from>>
      /\ NextMatch(found, from, taken + 1)
      /\ current # NoMatch /\ kept' = Append(kept, current)
  BY DEF Collect, CollectionEnds, generator
<1> QED
  BY <1>1, <1>2, CollectNext

LEMMA ReturnStep ==
  ASSUME ClientInv, Return
  PROVE  ClientInv'
<1>1. /\ UNCHANGED <<kind, variables, found, from, buffer, taken, kept, reply>>
      /\ current' = NoMatch /\ call' = "over"
  BY DEF Return, generator
<1> QED
  BY <1>1 DEF ClientInv, TextInv, ObjectsInv, ReplyInv

----------------------------------------------------------------------------
(***************************************************************************)
(* The calls of a match object.                                            *)
(***************************************************************************)
LEMMA CalledIsObject ==
  ASSUME ClientInv, NEW i \in Objects
  PROVE  /\ IsObject(Object(i), kind, variables, buffer.file_pos)
         /\ (i = 0 /\ current # NoMatch) \/ (i # 0 /\ i \in 1..Len(kept))
<1>1. DOMAIN kept = 1..Len(kept) /\ Len(kept) \in Nat
  BY DEF ClientInv, ObjectsInv, AllObjects, IsList
<1>2. (i = 0 /\ current # NoMatch) \/ (i # 0 /\ i \in 1..Len(kept))
  BY <1>1 DEF Objects
<1>3. IsObject(Object(i), kind, variables, buffer.file_pos)
  BY <1>2 DEF Object, ClientInv, ObjectsInv, AllObjects
<1> QED
  BY <1>2, <1>3

LEMMA ObjectBecomes ==
  ASSUME ClientInv, NEW i \in Objects, NEW o,
         IsObject(o, kind, variables, buffer.file_pos), o # NoMatch, Becomes(i, o),
         UNCHANGED <<kind, variables, found, from, buffer, taken>>
  PROVE  TextInv' /\ ObjectsInv' /\ i \in Objects' /\ Object(i)' = o
<1>1. (i = 0 /\ current # NoMatch) \/ (i # 0 /\ i \in 1..Len(kept))
  BY CalledIsObject
<1>2. CASE i = 0
  <2>1. current' = o /\ kept' = kept
    BY <1>2 DEF Becomes
  <2>2. ObjectsInv'
    BY <2>1 DEF ClientInv, ObjectsInv
  <2> QED
    BY <1>2, <2>1, <2>2 DEF Objects, Object, ClientInv, TextInv
<1>3. CASE i # 0
  <2>1. i \in 1..Len(kept) /\ current' = current /\ kept' = [kept EXCEPT ![i] = o]
    BY <1>1, <1>3 DEF Becomes
  <2>2. AllObjects(kept', kind, variables, buffer.file_pos) /\ kept'[i] = o
    <3>1. AllObjects(kept, kind, variables, buffer.file_pos)
      BY DEF ClientInv, ObjectsInv
    <3>2. Changed(kept', kept, i, o)
      BY <2>1 DEF Changed
    <3> QED
      BY <2>1, <3>1, <3>2, OneObjectChanged
  <2>3. ObjectsInv'
    BY <2>1, <2>2 DEF ClientInv, ObjectsInv
  <2>4. i \in DOMAIN kept'
    BY <2>1 DEF ClientInv, ObjectsInv, AllObjects, IsList
  <2> QED
    BY <1>3, <2>2, <2>3, <2>4 DEF Objects, Object, ClientInv, TextInv
<1> QED
  BY <1>2, <1>3

LEMMA ObjectIsThere ==
  ASSUME NEW o, NEW k, NEW vs, NEW f, IsObject(o, k, vs, f)
  PROVE  o # NoMatch
<1>1. "match" \in DOMAIN o
  BY DEF IsObject, IsRecord
<1> QED
  BY <1>1 DEF NoMatch

LEMMA CacheStep ==
  ASSUME ClientInv, NEW i \in Objects, NEW map, Gives(map, Object(i)),
         Becomes(i, [Object(i) EXCEPT !.cache = {map}]),
         UNCHANGED <<kind, variables, found, from, buffer, taken>>
  PROVE  /\ TextInv' /\ ObjectsInv' /\ i \in Objects'
         /\ Object(i)'.match = Object(i).match /\ Object(i)'.from = Object(i).from
         /\ Object(i)'.window = Object(i).window
<1> DEFINE o == Object(i)
           p == [o EXCEPT !.cache = {map}]
           f == buffer.file_pos
<1>1. IsObject(o, kind, variables, f)
  BY CalledIsObject
<1>2. Gives(map, o) /\ Becomes(i, p)
  OBVIOUS
<1>3. IsObject(p, kind, variables, f) /\ p.match = o.match /\ p.from = o.from
      /\ p.window = o.window
  <2> HIDE DEF o
  <2> QED
    BY <1>1, <1>2, CacheIsKept
<1> HIDE DEF p
<1>4. p # NoMatch
  BY <1>3, ObjectIsThere
<1>5. TextInv' /\ ObjectsInv' /\ i \in Objects' /\ Object(i)' = p
  BY <1>2, <1>3, <1>4, ObjectBecomes
<1> QED
  BY <1>3, <1>5

LEMMA AskingSteps ==
  ASSUME ClientInv, AskAny
  PROVE  ClientInv'
<1>1. /\ call \in {"iterate", "over"} /\ call' \in {"iterate", "over", "crashed"}
      /\ UNCHANGED <<kind, variables, found, from, buffer, taken>>
  BY AskingLeaves
<1>2. ReplyInv'
  BY <1>1 DEF ReplyInv
<1>3. SUFFICES TextInv' /\ ObjectsInv'
  BY <1>2 DEF ClientInv
<1>4. CASE \E i \in 0..MaxObjects, v \in variables : AskGroup(i, v)
  <2>1. UNCHANGED <<current, kept>>
    BY <1>4 DEF AskGroup
  <2> QED
    BY <1>1, <2>1 DEF ClientInv, TextInv, ObjectsInv
<1>5. CASE \E i \in 0..MaxObjects, v \in variables : AskSpans(i, v) \/ AskGroups(i, v)
  <2>1. PICK i \in 0..MaxObjects, v \in variables : AskSpans(i, v) \/ AskGroups(i, v)
    BY <1>5
  <2>2. /\ i \in Objects
        /\ Becomes(i, [Object(i) EXCEPT !.cache = {CachedWith(Object(i), v)}])
    BY <2>1 DEF AskSpans, AskGroups, Called
  <2>3. Gives(CachedWith(Object(i), v), Object(i))
    <3>1. IsObject(Object(i), kind, variables, buffer.file_pos)
      BY <2>2, CalledIsObject
    <3>2. Gives(Cached(Object(i)), Object(i))
      BY <3>1, CachedIsRight
    <3>3. v \in DOMAIN Object(i).match
      BY <3>1 DEF IsObject
    <3> QED
      BY <3>2, <3>3, EntryIsAdded DEF CachedWith
  <2> QED
    BY <1>1, <2>2, <2>3, CacheStep
<1>6. CASE \E i \in 0..MaxObjects : AskEmpty(i)
  <2>1. PICK i \in 0..MaxObjects : AskEmpty(i)
    BY <1>6
  <2>2. /\ i \in Objects
        /\ Becomes(i, [Object(i) EXCEPT !.cache = {Cached(Object(i))}])
    BY <2>1 DEF AskEmpty, Called
  <2>3. Gives(Cached(Object(i)), Object(i))
    BY <2>2, CalledIsObject, CachedIsRight
  <2> QED
    BY <1>1, <2>2, <2>3, CacheStep
<1>7. CASE \E i \in 0..MaxObjects, span \in Spans : Submatch(i, span)
  <2>1. PICK i \in 0..MaxObjects, span \in Spans : Submatch(i, span)
    BY <1>7
  <2>2. /\ i \in Objects /\ Multi /\ UNCHANGED current
        /\ IF SearchLeavesVector(Object(i).annotations, span) THEN UNCHANGED kept
           ELSE kept' = Append(kept, SubmatchOf(Object(i), span))
    BY <2>1 DEF Submatch, Called
  <2>3. span \in Nat \X Nat /\ span[1] <= span[2]
    BY BoundsAssumption DEF Spans
  <2>4. IsObject(Object(i), kind, variables, buffer.file_pos)
    BY <2>2, CalledIsObject
  <2>5. kind \notin {"match", "s_match"}
    BY <2>2 DEF Multi
  <2>6. ~SearchLeavesVector(Object(i).annotations, span)
          => IsObject(SubmatchOf(Object(i), span), kind, variables, buffer.file_pos)
    BY <2>3, <2>4, <2>5, SubmatchIsObject
  <2>7. AllObjects(kept', kind, variables, buffer.file_pos)
    BY <2>2, <2>6, OneMoreObject DEF ClientInv, ObjectsInv
  <2> QED
    BY <1>1, <2>2, <2>7 DEF ClientInv, TextInv, ObjectsInv
<1> QED
  BY <1>4, <1>5, <1>6, <1>7 DEF AskAny

LEMMA ClientKeeps ==
  ASSUME ClientInv, [Next]_vars
  PROVE  ClientInv'
<1>1. CASE UNCHANGED vars
  BY <1>1 DEF vars, generator, ClientInv, TextInv, ObjectsInv, ReplyInv
<1>2. CASE Actions
  BY <1>2, IteratorSteps, BeginAgainStep, ThrowingSteps, KeepStep, FindoneStep,
     CollectingStep, FindmanyStep, CollectGoesOn, ReturnStep, AskingSteps
     DEF Actions, Findall
<1> QED
  BY <1>1, <1>2, NextIsAnAction

----------------------------------------------------------------------------
(***************************************************************************)
(* The spans that a match object gives.                                    *)
(***************************************************************************)
LEMMA SpansAreInside ==
  ASSUME ClientInv
  PROVE  SpansAreThoseInside
<1> SUFFICES ASSUME NEW i \in Objects, NEW v \in variables
             PROVE  LET o == Object(i)
                    IN  ListsInOrder(IF Multi THEN Entry(Cached(o), v, << >>)
                                     ELSE <<o.mapping[v]>>,
                                     SpansInside(o, v))
  BY DEF SpansAreThoseInside
<1> DEFINE o == Object(i)
<1>1. IsObject(o, kind, variables, buffer.file_pos)
  BY CalledIsObject
<1> HIDE DEF o
<1>2. SpansInside(o, v) = SpansIn(o.match[v], o.window)
  BY DEF SpansInside, SpansIn
<1>3. CASE Multi
  <2>1. Gives(Cached(o), o) /\ v \in DOMAIN o.match
    BY <1>1, CachedIsRight DEF IsObject
  <2>2. ListsInOrder(Entry(Cached(o), v, << >>), SpansInside(o, v))
    BY <1>2, <2>1 DEF Gives
  <2> QED
    BY <1>3, <2>2 DEF o
<1>4. CASE ~Multi
  <2>1. kind \in {"match", "s_match"}
    BY <1>4 DEF ClientInv, TextInv, Kinds, Multi
  <2>2. PICK s : SpansIn(o.match[v], o.window) = {s} /\ o.mapping[v] = s
    BY <1>1, <2>1 DEF IsObject, HasOneSpan
  <2>3. ListsInOrder(<<s>>, {s})
    BY DEF ListsInOrder, ToSet
  <2>4. ListsInOrder(<<o.mapping[v]>>, SpansInside(o, v))
    BY <1>2, <2>2, <2>3
  <2> QED
    BY <1>4, <2>4 DEF o
<1> QED
  BY <1>3, <1>4

\* A match object gives, of each variable, the spans of its match that lie inside
\* of what it is a submatch of, each once and in their order: of a submatch of a
\* submatch, and whatever was asked before, in whatever order.
THEOREM SpansAreGiven == Spec => []SpansAreThoseInside
<1>1. Init => ClientInv
  BY InitIsRight
<1>2. ClientInv /\ [Next]_vars => ClientInv'
  BY ClientKeeps
<1>3. ClientInv => SpansAreThoseInside
  BY SpansAreInside
<1> QED
  BY <1>1, <1>2, <1>3, PTL DEF Spec

----------------------------------------------------------------------------
(***************************************************************************)
(* The groups of a match object.                                           *)
(***************************************************************************)
GroupsRight(groups, inside, k, b) ==
  /\ groups.thrown <=> k \in {"s_match", "s_multi"}
                       /\ \E span \in inside : span[1] < b.file_pos - BufferSize(b)
  /\ ~groups.thrown =>
       \E spans \in [DOMAIN groups.texts -> inside] :
         /\ ListsInOrder(spans, inside)
         /\ \A i \in DOMAIN spans :
              \/ /\ k \in {"s_match", "s_multi"}
                 /\ spans[i][2] - spans[i][1] >= BufferSize(b)
              \/ groups.texts[i] = [j \in 1..spans[i][2] - spans[i][1] |->
                                      spans[i][1] + j - 1]

LEMMA ThrowsIfForgotten ==
  ASSUME NEW b, KeepsTheLast(b), NEW s \in Nat \X Nat, s[2] <= b.file_pos
  PROVE  SubstrThrows(b, s) <=> s[1] < b.file_pos - BufferSize(b)
<1>1. /\ BufferSize(b) \in Nat /\ b.file_pos \in Nat /\ s[1] \in Nat /\ s[2] \in Nat
  BY DEF KeepsTheLast, Buffers
<1> QED
  BY <1>1 DEF SubstrThrows

LEMMA GroupsOfSpans ==
  ASSUME KeepsTheLast(buffer), NEW S \in Seq(Int \X Int),
         NEW M, M \subseteq Nat \X Nat, \A s \in M : s[1] < s[2],
         OverStream => \A s \in M : s[2] <= buffer.file_pos,
         ListsInOrder(S, M)
  PROVE  GroupsRight(Groups(S), M, kind, buffer)
<1> DEFINE n == Len(S)
           thrown == OverStream /\ \E i \in DOMAIN S : SubstrThrows(buffer, S[i])
           forgotten == \E s \in M : s[1] < buffer.file_pos - BufferSize(buffer)
           g == Groups(S)
           texts == [i \in IF thrown THEN {} ELSE DOMAIN S |-> TextOf(S[i])]
<1>1. /\ n \in Nat /\ DOMAIN S = 1..n /\ S = [i \in 1..n |-> S[i]]
      /\ M = {S[i] : i \in 1..n}
      /\ \A i, j \in 1..n : i < j => S[i][1] < S[j][1]
  <2>1. n \in Nat /\ DOMAIN S = 1..n /\ S = [i \in 1..n |-> S[i]]
    OBVIOUS
  <2>2. ToSet(S) = M /\ \A i, j \in DOMAIN S : i < j => S[i][1] < S[j][1]
    BY DEF ListsInOrder
  <2>3. ToSet(S) = {S[i] : i \in DOMAIN S}
    BY DEF ToSet
  <2> HIDE DEF n
  <2> QED
    BY <2>1, <2>2, <2>3
<1>2. (g.thrown <=> thrown) /\ g.texts = texts
  BY DEF Groups
<1>3. \A i \in 1..n : S[i] \in M
  BY <1>1
<1>4. OverStream => \A i \in 1..n :
        SubstrThrows(buffer, S[i]) <=> S[i][1] < buffer.file_pos - BufferSize(buffer)
  BY <1>3, ThrowsIfForgotten
<1>5. thrown <=> OverStream /\ forgotten
  BY <1>1, <1>4
<1>6. ASSUME ~thrown
      PROVE  \E spans \in [DOMAIN texts -> M] :
               /\ ListsInOrder(spans, M)
               /\ \A i \in DOMAIN spans :
                    \/ OverStream /\ spans[i][2] - spans[i][1] >= BufferSize(buffer)
                    \/ texts[i] = [j \in 1..spans[i][2] - spans[i][1] |->
                                     spans[i][1] + j - 1]
  <2>1. DOMAIN texts = 1..n /\ \A i \in 1..n : texts[i] = TextOf(S[i])
    BY <1>1, <1>6
  <2>2. S \in [DOMAIN texts -> M]
    BY <1>1, <1>3, <2>1
  <2>3. ASSUME NEW i \in 1..n
        PROVE  \/ OverStream /\ S[i][2] - S[i][1] >= BufferSize(buffer)
               \/ texts[i] = [j \in 1..S[i][2] - S[i][1] |-> S[i][1] + j - 1]
    <3> DEFINE a == S[i][1]
               b == S[i][2]
    <3>1. a \in Nat /\ b \in Nat /\ a < b /\ S[i] = <<a, b>>
      <4>1. S[i] \in M
        BY <1>3
      <4>2. S[i] \in Nat \X Nat /\ S[i][1] < S[i][2]
        BY <4>1
      <4> QED
        BY <4>2
    <3>2. CASE ~OverStream
      <4>1. TextOf(S[i]) = [j \in 1..S[i][2] - S[i][1] |-> S[i][1] + j - 1]
        BY <3>2 DEF TextOf
      <4> QED
        BY <2>1, <4>1
    <3>3. CASE OverStream /\ ~(b - a >= BufferSize(buffer))
      <4>1. ~SubstrThrows(buffer, S[i])
        BY <1>1, <1>6, <3>3
      <4>2. b - a < BufferSize(buffer)
        BY <3>1, <3>3 DEF KeepsTheLast
      <4>3. TextOf(S[i]) = Substr(buffer, S[i])
        BY <3>3 DEF TextOf
      <4> HIDE DEF a, b
      <4>4. Substr(buffer, <<a, b>>) = [j \in 1..b - a |-> a + j - 1]
        BY <3>1, <4>1, <4>2, a <= b, GroupIsRead
      <4>5. texts[i] = [j \in 1..b - a |-> a + j - 1]
        BY <2>1, <3>1, <4>3, <4>4
      <4> QED
        BY <4>5 DEF a, b
    <3> QED
      BY <3>2, <3>3
  <2> HIDE DEF texts
  <2>4. \A i \in DOMAIN S :
          \/ OverStream /\ S[i][2] - S[i][1] >= BufferSize(buffer)
          \/ texts[i] = [j \in 1..S[i][2] - S[i][1] |-> S[i][1] + j - 1]
    BY <1>1, <2>3
  <2> QED
    BY <2>2, <2>4
<1> HIDE DEF g, texts, thrown
<1>7. g.thrown <=> OverStream /\ forgotten
  BY <1>2, <1>5
<1>8. ASSUME ~g.thrown
      PROVE  \E spans \in [DOMAIN g.texts -> M] :
               /\ ListsInOrder(spans, M)
               /\ \A i \in DOMAIN spans :
                    \/ OverStream /\ spans[i][2] - spans[i][1] >= BufferSize(buffer)
                    \/ g.texts[i] = [j \in 1..spans[i][2] - spans[i][1] |->
                                       spans[i][1] + j - 1]
  BY <1>2, <1>6, <1>8
<1>9. GroupsRight(g, M, kind, buffer)
  BY <1>7, <1>8 DEF GroupsRight, OverStream
<1> QED
  BY <1>9 DEF g

LEMMA SpansOfAnObject ==
  ASSUME NEW o, NEW k, NEW vs, NEW f, IsObject(o, k, vs, f), NEW v \in vs
  PROVE  LET M == SpansIn(o.match[v], o.window)
         IN  /\ M \subseteq Nat \X Nat /\ \A s \in M : s[1] < s[2]
             /\ o.from = 0 /\ k \in {"s_match", "s_multi"} => \A s \in M : s[2] <= f
<1>1. \A s \in o.match[v] : s \in Nat \X Nat /\ s[1] < s[2]
  BY DEF IsObject, IsMatch
<1>2. o.from = 0 /\ k \in {"s_match", "s_multi"} => \A s \in o.match[v] : s[2] <= f
  <2> SUFFICES ASSUME o.from = 0, k \in {"s_match", "s_multi"}, NEW s \in o.match[v]
               PROVE  s[2] <= f
    OBVIOUS
  <2>1. 0 + s[2] <= f
    BY DEF IsObject
  <2>2. s[2] \in Nat
    BY <1>1
  <2> QED
    BY <2>1, <2>2
<1> QED
  BY <1>1, <1>2 DEF SpansIn

LEMMA GroupsOfAnObject ==
  ASSUME ClientInv, NEW i \in Objects, NEW v \in variables, Object(i).from = 0,
         NEW S \in Seq(Int \X Int), ListsInOrder(S, SpansIn(Object(i).match[v], Object(i).window))
  PROVE  GroupsRight(Groups(S), SpansIn(Object(i).match[v], Object(i).window), kind, buffer)
<1> DEFINE M == SpansIn(Object(i).match[v], Object(i).window)
<1>1. IsObject(Object(i), kind, variables, buffer.file_pos)
  BY CalledIsObject
<1>2. /\ M \subseteq Nat \X Nat /\ \A s \in M : s[1] < s[2]
      /\ kind \in {"s_match", "s_multi"} => \A s \in M : s[2] <= buffer.file_pos
  BY <1>1, SpansOfAnObject
<1>3. KeepsTheLast(buffer) /\ ListsInOrder(S, M)
  BY DEF ClientInv, TextInv
<1> HIDE DEF M
<1>4. GroupsRight(Groups(S), M, kind, buffer)
  BY <1>2, <1>3, GroupsOfSpans DEF OverStream
<1> QED
  BY <1>4 DEF M

\* What GroupsAreOfTheText says of the last reply.
LastReplyRight ==
  reply # NoReply /\ Object(reply.object).from = 0 =>
    GroupsRight(reply.value,
                SpansIn(Object(reply.object).match[reply.variable],
                        Object(reply.object).window), kind, buffer)

LEMMA ReplyInWords == LastReplyRight => GroupsAreOfTheText
<1> SUFFICES ASSUME LastReplyRight, reply # NoReply, Object(reply.object).from = 0
             PROVE  LET inside == SpansInside(Object(reply.object), reply.variable)
                        Forgotten(span) == span[1] < buffer.file_pos - BufferSize(buffer)
                        groups == reply.value
                    IN  /\ groups.thrown <=> OverStream /\ \E span \in inside : Forgotten(span)
                        /\ ~groups.thrown =>
                             \E spans \in [DOMAIN groups.texts -> inside] :
                               /\ ListsInOrder(spans, inside)
                               /\ \A i \in DOMAIN spans :
                                    \/ /\ OverStream
                                       /\ spans[i][2] - spans[i][1] >= BufferSize(buffer)
                                    \/ groups.texts[i] =
                                         [k \in 1..spans[i][2] - spans[i][1] |->
                                            spans[i][1] + k - 1]
  BY DEF GroupsAreOfTheText
<1> DEFINE M == SpansInside(Object(reply.object), reply.variable)
<1>1. M = SpansIn(Object(reply.object).match[reply.variable], Object(reply.object).window)
  BY DEF SpansInside, SpansIn
<1>2. GroupsRight(reply.value, M, kind, buffer)
  BY <1>1 DEF LastReplyRight
<1>3. OverStream <=> kind \in {"s_match", "s_multi"}
  BY DEF OverStream
<1> HIDE DEF M
<1> QED
  BY <1>2, <1>3 DEF GroupsRight, M

LEMMA ReplyStep ==
  ASSUME ClientInv, ClientInv', LastReplyRight, [Next]_vars
  PROVE  LastReplyRight'
<1>1. CASE UNCHANGED vars
  BY <1>1 DEF vars, generator, LastReplyRight, Object
<1>2. ASSUME reply' = NoReply
      PROVE  LastReplyRight'
  BY <1>2 DEF LastReplyRight
<1>3. CASE \/ Begin \/ BeginAgain \/ Increment \/ Keep \/ Collect \/ Findone
            \/ BeginThrows \/ IncrementThrows \/ FindoneThrows \/ CollectThrows
            \/ Findall \/ \E n : Findmany(n)
  <2>1. \A n : Collecting(n) => reply' = NoReply
    BY DEF Collecting, NextMatch, NextThrows
  <2>2. reply' = NoReply
    BY <1>3, <2>1 DEF Begin, BeginAgain, Increment, Keep, Collect, Findone, BeginThrows,
       IncrementThrows, FindoneThrows, CollectThrows, Findall, Findmany, NextMatch, NextThrows
  <2> QED
    BY <1>2, <2>2
<1>4. CASE Return
  <2>1. reply' = reply /\ call = "collect"
    BY <1>4 DEF Return
  <2> QED
    BY <1>2, <2>1 DEF ClientInv, ReplyInv
<1>5. CASE AskAny
  <2>1. UNCHANGED <<kind, variables, buffer>>
    BY <1>5, AskingLeaves
  <2>2. CASE \E i \in 0..MaxObjects, v \in variables : AskGroup(i, v)
    <3>1. PICK i \in 0..MaxObjects, v \in variables : AskGroup(i, v)
      BY <2>2
    <3> DEFINE S == <<Object(i).mapping[v]>>
    <3>2. /\ i \in Objects /\ ~Multi /\ UNCHANGED <<current, kept>>
          /\ reply' = [object |-> i, variable |-> v, value |-> Groups(S)]
      BY <3>1 DEF AskGroup, Called, Replies
    <3>3. PICK s : /\ SpansIn(Object(i).match[v], Object(i).window) = {s}
                   /\ Object(i).mapping[v] = s
      <4>1. kind \in {"match", "s_match"}
        BY <3>2 DEF ClientInv, TextInv, Kinds, Multi
      <4>2. IsObject(Object(i), kind, variables, buffer.file_pos)
        BY <3>2, CalledIsObject
      <4> QED
        BY <4>1, <4>2 DEF IsObject, HasOneSpan
    <3>4. s \in Nat \X Nat
      <4>1. IsObject(Object(i), kind, variables, buffer.file_pos)
        BY <3>2, CalledIsObject
      <4>2. SpansIn(Object(i).match[v], Object(i).window) \subseteq Nat \X Nat
        BY <4>1, SpansOfAnObject
      <4> QED
        BY <3>3, <4>2
    <3>5. S = <<s>> /\ S \in Seq(Int \X Int) /\ ListsInOrder(<<s>>, {s})
      BY <3>3, <3>4 DEF ListsInOrder, ToSet
    <3>6. Object(i)' = Object(i)
      BY <3>2 DEF Object
    <3> HIDE DEF S
    <3>7. ASSUME Object(i).from = 0
          PROVE  GroupsRight(Groups(S), SpansIn(Object(i).match[v], Object(i).window),
                             kind, buffer)
      BY <3>2, <3>3, <3>5, <3>7, GroupsOfAnObject
    <3>8. reply'.object = i /\ reply'.variable = v /\ reply'.value = Groups(S)
      BY <3>2
    <3> QED
      BY <2>1, <3>6, <3>7, <3>8 DEF LastReplyRight
  <2>3. CASE \E i \in 0..MaxObjects, v \in variables : AskGroups(i, v)
    <3>1. PICK i \in 0..MaxObjects, v \in variables : AskGroups(i, v)
      BY <2>3
    <3> DEFINE map == CachedWith(Object(i), v)
    <3>2. /\ i \in Objects
          /\ Becomes(i, [Object(i) EXCEPT !.cache = {map}])
          /\ reply' = [object |-> i, variable |-> v, value |-> Groups(map[v])]
          /\ UNCHANGED <<kind, variables, found, from, buffer, taken>>
      BY <3>1 DEF AskGroups, Called, Replies, generator
    <3>3. IsObject(Object(i), kind, variables, buffer.file_pos)
      BY <3>2, CalledIsObject
    <3>4. Gives(map, Object(i)) /\ map[v] = Entry(Cached(Object(i)), v, << >>)
          /\ v \in DOMAIN Object(i).match /\ Gives(Cached(Object(i)), Object(i))
      <4>1. Gives(Cached(Object(i)), Object(i))
        BY <3>3, CachedIsRight
      <4>2. v \in DOMAIN Object(i).match
        BY <3>3 DEF IsObject
      <4> QED
        BY <4>1, <4>2, EntryIsAdded DEF CachedWith
    <3> HIDE DEF map
    <3>5. /\ Object(i)'.match = Object(i).match /\ Object(i)'.from = Object(i).from
          /\ Object(i)'.window = Object(i).window
      BY <3>2, <3>4, CacheStep
    <3>6. /\ ListsInOrder(map[v], SpansIn(Object(i).match[v], Object(i).window))
          /\ map[v] \in Seq(Int \X Int)
      BY <3>4 DEF Gives
    <3>7. ASSUME Object(i).from = 0
          PROVE  GroupsRight(Groups(map[v]), SpansIn(Object(i).match[v], Object(i).window),
                             kind, buffer)
      BY <3>2, <3>6, <3>7, GroupsOfAnObject
    <3>8. reply'.object = i /\ reply'.variable = v /\ reply'.value = Groups(map[v])
      BY <3>2
    <3> QED
      BY <2>1, <3>5, <3>7, <3>8 DEF LastReplyRight
  <2>4. CASE \/ \E i \in 0..MaxObjects, v \in variables : AskSpans(i, v)
             \/ \E i \in 0..MaxObjects : AskEmpty(i)
             \/ \E i \in 0..MaxObjects, span \in Spans : Submatch(i, span)
    <3>1. reply' = NoReply
      BY <2>4 DEF AskSpans, AskEmpty, Submatch
    <3> QED
      BY <1>2, <3>1
  <2> QED
    BY <1>5, <2>2, <2>3, <2>4 DEF AskAny
<1> QED
  BY <1>1, <1>3, <1>4, <1>5, NextIsAnAction DEF Actions

\* The groups that a match object gives are the text of its spans, however long the
\* object is kept; over a stream they are refused if, and only if, the buffer has
\* forgotten one of them.
THEOREM GroupsAreRead == Spec => []GroupsAreOfTheText
<1>1. Init => ClientInv /\ LastReplyRight
  BY InitIsRight DEF Init, LastReplyRight
<1>2. ClientInv /\ LastReplyRight /\ [Next]_vars => ClientInv' /\ LastReplyRight'
  BY ClientKeeps, ReplyStep
<1>3. LastReplyRight => GroupsAreOfTheText
  BY ReplyInWords
<1> QED
  BY <1>1, <1>2, <1>3, PTL DEF Spec
=============================================================================
