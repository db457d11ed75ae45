----------------------- MODULE CharacterClassesProofs -----------------------
(***************************************************************************)
(* For every base, every code points at which the length of an encoding    *)
(* changes, and all ranges: the ranges kept are those of the class and     *)
(* stay apart, and the automaton built from them reads the encodings of    *)
(* the code points of the class, and, unless prefixes are joined by a      *)
(* carry, of no other.                                                     *)
(***************************************************************************)
EXTENDS CharacterClasses, FiniteSetTheorems, SequenceTheorems,
        WellFoundedInduction, TLAPS

(***************************************************************************)
(* Recursive functions: one exists for each step.                          *)
(***************************************************************************)
LEMMA LeastNumber ==
  ASSUME NEW T, T \subseteq Nat, T # {}
  PROVE  \E x \in T : \A y \in T : ~(y < x)
<1> DEFINE R == {ss \in Nat \X Nat : ss[1] < ss[2]}
<1>1. IsWellFoundedOn(R, Nat)
  BY NatLessThanWellFounded, Zenon DEF OpToRel
<1>2. \E x \in T : \A y \in T : ~(<<y, x>> \in R)
  <2> HIDE DEF R
  <2> QED
    BY <1>1, WFMin
<1> QED
  BY <1>2

Follows(f, n, base, step) ==
  f = [i \in 0..n |-> IF i = 0 THEN base ELSE step[<<i, f[i - 1]>>]]

LEMMA OneMoreStep ==
  ASSUME NEW T, NEW n \in Nat, NEW base \in T, NEW k \in 1..n,
         NEW step \in [(1..n) \X T -> T],
         NEW f \in [0..(k - 1) -> T], Follows(f, k - 1, base, step)
  PROVE  \E g \in [0..k -> T] : Follows(g, k, base, step)
<1> DEFINE g == [i \in 0..k |-> IF i = k THEN step[<<k, f[k - 1]>>] ELSE f[i]]
<1>1. f[k - 1] \in T /\ step[<<k, f[k - 1]>>] \in T
  OBVIOUS
<1>2. g \in [0..k -> T]
  BY <1>1
<1>3. \A i \in 0..k - 1 : g[i] = f[i]
  OBVIOUS
<1>4. g[k] = step[<<k, f[k - 1]>>] /\ g = [i \in 0..k |-> g[i]]
  OBVIOUS
<1>5. \A i \in 0..k - 1 : f[i] = IF i = 0 THEN base ELSE step[<<i, f[i - 1]>>]
  BY DEF Follows
<1> HIDE DEF g
<1>6. ASSUME NEW i \in 0..k
      PROVE  g[i] = IF i = 0 THEN base ELSE step[<<i, g[i - 1]>>]
  <2>1. CASE i = k
    <3>1. k - 1 \in 0..k - 1 /\ k # 0
      OBVIOUS
    <3>2. g[k - 1] = f[k - 1]
      BY <1>3, <3>1
    <3> QED
      BY <1>4, <2>1, <3>1, <3>2
  <2>2. CASE i # k
    <3>1. i \in 0..k - 1 /\ (i # 0 => i - 1 \in 0..k - 1)
      BY <2>2
    <3> QED
      BY <1>3, <1>5, <3>1
  <2> QED
    BY <2>1, <2>2
<1>7. Follows(g, k, base, step)
  BY <1>4, <1>6 DEF Follows
<1> QED
  BY <1>2, <1>7

LEMMA Recursion ==
  ASSUME NEW T, NEW n \in Nat, NEW base \in T, NEW step \in [(1..n) \X T -> T]
  PROVE  \E f \in [0..n -> T] : Follows(f, n, base, step)
<1> DEFINE Has(k) == \E f \in [0..k -> T] : Follows(f, k, base, step)
           W == {k \in 0..n : ~Has(k)}
<1>1. SUFFICES ASSUME W # {} PROVE FALSE
  OBVIOUS
<1>2. PICK k \in W : \A y \in W : ~(y < k)
  <2>1. W \subseteq Nat
    OBVIOUS
  <2> HIDE DEF W
  <2> QED
    BY <1>1, <2>1, LeastNumber
<1>3. Has(0)
  <2> DEFINE f == [i \in 0..0 |-> base]
  <2>1. f \in [0..0 -> T]
    OBVIOUS
  <2>2. f = [i \in 0..0 |-> IF i = 0 THEN base ELSE step[<<i, f[i - 1]>>]]
    <3>1. \A i \in 0..0 : i = 0
      OBVIOUS
    <3> QED
      BY <3>1
  <2> HIDE DEF f
  <2> QED
    BY <2>1, <2>2 DEF Follows
<1>4. k \in 1..n
  <2>1. k \in 0..n /\ ~Has(k)
    OBVIOUS
  <2> HIDE DEF Has
  <2> QED
    BY <1>3, <2>1
<1>5. Has(k - 1)
  <2>1. k - 1 \in 0..n /\ k - 1 < k
    BY <1>4
  <2> HIDE DEF Has
  <2> QED
    BY <1>2, <2>1
<1>6. PICK f \in [0..(k - 1) -> T] : Follows(f, k - 1, base, step)
  BY <1>5
<1>7. Has(k)
  BY <1>4, <1>6, OneMoreStep
<1> QED
  BY <1>7

(***************************************************************************)
(* The value of a sequence of bytes, written out: there are at most four.  *)
(***************************************************************************)
IsReading(read, bytes, base) ==
  read = [i \in 0..Len(bytes) |-> IF i = 0 THEN 0 ELSE read[i - 1] * base + bytes[i]]

LEMMA NumberIsReading ==
  ASSUME NEW b \in Int, NEW x \in Seq(Int)
  PROVE  \E read \in [0..Len(x) -> Int] :
           /\ read[0] = 0
           /\ \A i \in 1..Len(x) : read[i] = read[i - 1] * b + x[i]
           /\ Number(x, b) = read[Len(x)]
<1> DEFINE step == [p \in (1..Len(x)) \X Int |-> p[2] * b + x[p[1]]]
<1>1. Len(x) \in Nat /\ \A i \in 1..Len(x) : x[i] \in Int
  OBVIOUS
<1>2. step \in [(1..Len(x)) \X Int -> Int]
  BY <1>1
<1>3. \A i \in 1..Len(x), m \in Int : step[<<i, m>>] = m * b + x[i]
  OBVIOUS
<1> HIDE DEF step
<1>4. PICK f \in [0..Len(x) -> Int] : Follows(f, Len(x), 0, step)
  <2>1. 0 \in Int
    OBVIOUS
  <2> QED
    BY <1>1, <1>2, <2>1, Recursion
<1>5. IsReading(f, x, b)
  <2>1. f = [i \in 0..Len(x) |-> IF i = 0 THEN 0 ELSE step[<<i, f[i - 1]>>]]
    BY <1>4 DEF Follows
  <2>2. \A i \in 0..Len(x) : f[i] = IF i = 0 THEN 0 ELSE f[i - 1] * b + x[i]
    <3> TAKE i \in 0..Len(x)
    <3>1. f[i] = IF i = 0 THEN 0 ELSE step[<<i, f[i - 1]>>]
      BY <2>1
    <3>2. i # 0 => i \in 1..Len(x) /\ f[i - 1] \in Int
      BY <1>1
    <3> QED
      BY <1>3, <3>1, <3>2
  <2> QED
    BY <1>1, <2>2 DEF IsReading
<1> DEFINE r == CHOOSE r : IsReading(r, x, b)
<1>6. IsReading(r, x, b)
  BY <1>5, Zenon
<1>7. Number(x, b) = r[Len(x)]
  BY Zenon DEF Number, IsReading
<1> HIDE DEF r
<1>8. \A i \in 0..Len(x) : r[i] = IF i = 0 THEN 0 ELSE r[i - 1] * b + x[i]
  BY <1>6 DEF IsReading
<1>9. r = [i \in 0..Len(x) |-> r[i]]
  BY <1>6 DEF IsReading
<1>10. \A i \in 0..Len(x) : r[i] \in Int
  <2> DEFINE W == {i \in 0..Len(x) : r[i] \notin Int}
  <2>1. SUFFICES ASSUME W # {} PROVE FALSE
    OBVIOUS
  <2>2. PICK i \in W : \A y \in W : ~(y < i)
    <3>1. W \subseteq Nat
      BY <1>1
    <3> HIDE DEF W
    <3> QED
      BY <2>1, <3>1, LeastNumber
  <2>3. i # 0 /\ i \in 1..Len(x)
    BY <1>1, <1>8
  <2>4. r[i - 1] \in Int /\ x[i] \in Int
    BY <1>1, <2>2, <2>3
  <2>5. r[i] = r[i - 1] * b + x[i]
    BY <1>8, <2>3
  <2> QED
    BY <2>4, <2>5
<1>11. r \in [0..Len(x) -> Int]
  BY <1>9, <1>10
<1>12. 0 \in 0..Len(x) /\ \A i \in 1..Len(x) : i \in 0..Len(x) /\ i # 0
  BY <1>1
<1> QED
  BY <1>7, <1>8, <1>11, <1>12

(***************************************************************************)
(* A word is what a first byte and bytes that follow it carry. The first   *)
(* one may be any number: what is before the lowest prefix of a length and *)
(* after its highest one is a word as well.                                *)
(***************************************************************************)
Words(n) == {x \in Seq(Int) : Len(x) = n /\ \A i \in 2..n : x[i] \in Digits}

LEMMA BaseFacts == Base \in Nat /\ Base >= 2 /\ 4 * Base \in Nat /\ 4 * Base >= Base
BY EncodingAssumption

LEMMA WordFacts ==
  ASSUME NEW n \in 1..4, NEW x \in Words(n)
  PROVE  /\ x \in Seq(Int) /\ Len(x) = n
         /\ \A i \in 1..n : x[i] \in Int
         /\ \A i \in 2..n : x[i] >= 0 /\ x[i] <= Base - 1
BY BaseFacts DEF Words, Digits

LEMMA SameWords ==
  ASSUME NEW n \in 1..4, NEW x \in Words(n), NEW y \in Words(n),
         \A i \in 1..n : x[i] = y[i]
  PROVE  x = y
BY WordFacts, SeqEqual

LEMMA FrontFacts ==
  ASSUME NEW n \in 2..4, NEW x \in Words(n)
  PROVE  /\ Front(x) \in Words(n - 1)
         /\ \A i \in 1..n - 1 : Front(x)[i] = x[i]
<1>1. x \in Seq(Int) /\ Len(x) = n /\ \A i \in 2..n : x[i] \in Digits
  BY DEF Words
<1>2. Front(x) = SubSeq(x, 1, n - 1)
  BY <1>1 DEF Front
<1>3. /\ Front(x) \in Seq(Int) /\ Len(Front(x)) = n - 1
      /\ \A i \in 1..n - 1 : Front(x)[i] = x[i]
  BY <1>1, <1>2
<1> QED
  BY <1>1, <1>3 DEF Words

LEMMA TailFacts ==
  ASSUME NEW n \in 2..4, NEW x \in Words(n)
  PROVE  /\ Tail(x) \in Words(n - 1)
         /\ \A i \in 1..n - 1 : Tail(x)[i] = x[i + 1]
<1>1. x \in Seq(Int) /\ Len(x) = n /\ \A i \in 2..n : x[i] \in Digits
  BY DEF Words
<1>2. /\ Tail(x) \in Seq(Int) /\ Len(Tail(x)) = n - 1
      /\ \A i \in 1..n - 1 : Tail(x)[i] = x[i + 1]
  BY <1>1
<1>3. \A i \in 2..n - 1 : Tail(x)[i] \in Digits
  <2> TAKE i \in 2..n - 1
  <2>1. i \in 1..n - 1 /\ i + 1 \in 2..n
    OBVIOUS
  <2> QED
    BY <1>1, <1>2, <2>1
<1> QED
  BY <1>2, <1>3 DEF Words

(***************************************************************************)
(* Arithmetic in a base b that is at least Base.                           *)
(***************************************************************************)
LEMMA Multiples ==
  ASSUME NEW b \in Nat, NEW p \in Int, NEW q \in Int, p < q
  PROVE  p * b + b <= q * b /\ p * b \in Int /\ q * b \in Int
<1>1. (p + 1) * b = p * b + b
  OBVIOUS
<1>2. (q - (p + 1)) * b >= 0
  OBVIOUS
<1>3. (q - (p + 1)) * b = q * b - (p + 1) * b
  OBVIOUS
<1> QED
  BY <1>1, <1>2, <1>3

LEMMA NumberOfOne ==
  ASSUME NEW b \in Int, NEW x \in Words(1)
  PROVE  Number(x, b) = x[1]
<1>1. x \in Seq(Int) /\ Len(x) = 1 /\ x[1] \in Int
  BY WordFacts
<1>2. PICK read \in [0..Len(x) -> Int] :
        /\ read[0] = 0
        /\ \A i \in 1..Len(x) : read[i] = read[i - 1] * b + x[i]
        /\ Number(x, b) = read[Len(x)]
  BY <1>1, NumberIsReading
<1>3. read[1] = read[0] * b + x[1]
  BY <1>1, <1>2
<1> QED
  BY <1>1, <1>2, <1>3

LEMMA NumberOfFront ==
  ASSUME NEW b \in Int, NEW n \in 2..4, NEW x \in Words(n)
  PROVE  /\ Number(x, b) = Number(Front(x), b) * b + x[n]
         /\ Number(x, b) \in Int /\ Number(Front(x), b) \in Int
<1>1. x \in Seq(Int) /\ Len(x) = n /\ \A i \in 1..n : x[i] \in Int
  <2>1. n \in 1..4
    OBVIOUS
  <2> QED
    BY <2>1, WordFacts
<1>2. /\ Front(x) \in Seq(Int) /\ Len(Front(x)) = n - 1
      /\ \A i \in 1..n - 1 : Front(x)[i] = x[i]
  BY FrontFacts DEF Words
<1>3. PICK r \in [0..n -> Int] :
        /\ r[0] = 0
        /\ \A i \in 1..n : r[i] = r[i - 1] * b + x[i]
        /\ Number(x, b) = r[n]
  BY <1>1, NumberIsReading
<1>4. PICK f \in [0..n - 1 -> Int] :
        /\ f[0] = 0
        /\ \A i \in 1..n - 1 : f[i] = f[i - 1] * b + Front(x)[i]
        /\ Number(Front(x), b) = f[n - 1]
  <2> DEFINE y == Front(x)
  <2>1. y \in Seq(Int) /\ Len(y) = n - 1
    BY <1>2
  <2> HIDE DEF y
  <2>2. \E f \in [0..Len(y) -> Int] :
          /\ f[0] = 0
          /\ \A i \in 1..Len(y) : f[i] = f[i - 1] * b + y[i]
          /\ Number(y, b) = f[Len(y)]
    BY <2>1, NumberIsReading
  <2> QED
    BY <2>1, <2>2 DEF y
<1>5. \A i \in 1..n - 1 : f[i] = f[i - 1] * b + x[i] /\ r[i] = r[i - 1] * b + x[i]
  <2> TAKE i \in 1..n - 1
  <2>1. i \in 1..n
    OBVIOUS
  <2>2. f[i] = f[i - 1] * b + Front(x)[i] /\ Front(x)[i] = x[i]
    BY <1>2, <1>4
  <2> QED
    BY <1>3, <2>1, <2>2
<1>6. f[1] = r[1]
  BY <1>3, <1>4, <1>5
<1>7. 2 <= n - 1 => f[2] = r[2]
  BY <1>5, <1>6
<1>8. 3 <= n - 1 => f[3] = r[3]
  BY <1>5, <1>7
<1>9. f[n - 1] = r[n - 1] /\ r[n] = r[n - 1] * b + x[n]
  BY <1>3, <1>6, <1>7, <1>8
<1> QED
  BY <1>3, <1>4, <1>9

LEMMA NumberIsInt ==
  ASSUME NEW b \in Int, NEW n \in 1..4, NEW x \in Words(n)
  PROVE  Number(x, b) \in Int
<1>1. CASE n = 1
  BY <1>1, NumberOfOne, WordFacts
<1>2. CASE n # 1
  <2>1. n \in 2..4
    BY <1>2
  <2> QED
    BY <2>1, NumberOfFront
<1> QED
  BY <1>1, <1>2

\* Of words of n bytes, which one is greater is decided by the first bytes,
\* and if those are the same by the others.
FirstDecides(n, b) ==
  \A x, y \in Words(n) : x[1] < y[1] => Number(x, b) < Number(y, b)
IsOrder(n) ==
  \A x, y \in Words(n) : Number(x, Base) = Number(y, Base) => x = y
TailsDecide(n) ==
  \A x, y \in Words(n) : x[1] = y[1] =>
    Number(y, Base) - Number(x, Base) = Number(Tail(y), Base) - Number(Tail(x), Base)

LEMMA FrontsDecide ==
  ASSUME NEW b \in Nat, b >= Base, NEW n \in 2..4,
         NEW x \in Words(n), NEW y \in Words(n), Number(Front(x), b) < Number(Front(y), b)
  PROVE  Number(x, b) + b <= Number(y, b) + x[n]
<1> DEFINE p == Number(Front(x), b)
           q == Number(Front(y), b)
<1>1. /\ Number(x, b) = p * b + x[n] /\ p \in Int
      /\ Number(y, b) = q * b + y[n] /\ q \in Int
  BY NumberOfFront
<1>2. x[n] \in Int /\ y[n] \in Int /\ y[n] >= 0
  BY WordFacts
<1>3. p < q
  OBVIOUS
<1> HIDE DEF p, q
<1>4. p * b + b <= q * b /\ p * b \in Int /\ q * b \in Int
  BY <1>1, <1>3, Multiples
<1> QED
  BY <1>1, <1>2, <1>4

LEMMA FirstDecidesStep ==
  ASSUME NEW b \in Nat, b >= Base, NEW n \in 2..4, FirstDecides(n - 1, b)
  PROVE  FirstDecides(n, b)
<1> SUFFICES ASSUME NEW x \in Words(n), NEW y \in Words(n), x[1] < y[1]
             PROVE  Number(x, b) < Number(y, b)
  BY DEF FirstDecides
<1>1. /\ Front(x) \in Words(n - 1) /\ Front(y) \in Words(n - 1)
      /\ Front(x)[1] = x[1] /\ Front(y)[1] = y[1]
  BY FrontFacts
<1>2. Number(Front(x), b) < Number(Front(y), b)
  BY <1>1 DEF FirstDecides
<1>3. Number(x, b) + b <= Number(y, b) + x[n]
  BY <1>2, FrontsDecide
<1>4. x[n] \in Int /\ x[n] <= Base - 1 /\ Base \in Nat
  BY WordFacts, BaseFacts
<1>5. Number(x, b) \in Int /\ Number(y, b) \in Int
  BY NumberIsInt
<1> QED
  BY <1>3, <1>4, <1>5

LEMMA FirstBytesDecide ==
  ASSUME NEW b \in Nat, b >= Base, NEW n \in 1..4
  PROVE  FirstDecides(n, b)
<1>1. FirstDecides(1, b)
  BY NumberOfOne DEF FirstDecides
<1>2. FirstDecides(2, b)
  BY <1>1, FirstDecidesStep
<1>3. FirstDecides(3, b)
  BY <1>2, FirstDecidesStep
<1>4. FirstDecides(4, b)
  BY <1>3, FirstDecidesStep
<1> QED
  BY <1>1, <1>2, <1>3, <1>4

LEMMA EqualFronts ==
  ASSUME NEW n \in 2..4, NEW x \in Words(n), NEW y \in Words(n),
         Number(x, Base) <= Number(y, Base)
  PROVE  /\ Number(Front(x), Base) <= Number(Front(y), Base)
         /\ Number(Front(x), Base) = Number(Front(y), Base) => x[n] <= y[n]
<1>1. Base \in Nat /\ Base >= Base
  BY BaseFacts
<1>2. /\ Number(x, Base) \in Int /\ Number(y, Base) \in Int
      /\ Number(Front(x), Base) \in Int /\ Number(Front(y), Base) \in Int
  BY <1>1, NumberOfFront
<1>3. y[n] \in Int /\ y[n] <= Base - 1 /\ x[n] \in Int
  BY WordFacts
<1>4. ~(Number(Front(y), Base) < Number(Front(x), Base))
  <2> SUFFICES ASSUME Number(Front(y), Base) < Number(Front(x), Base) PROVE FALSE
    OBVIOUS
  <2>1. Number(y, Base) + Base <= Number(x, Base) + y[n]
    BY <1>1, FrontsDecide
  <2> QED
    BY <1>1, <1>2, <1>3, <2>1
<1>5. ASSUME Number(Front(x), Base) = Number(Front(y), Base) PROVE x[n] <= y[n]
  <2> DEFINE p == Number(Front(x), Base)
  <2>1. Number(x, Base) = p * Base + x[n] /\ Number(y, Base) = p * Base + y[n]
    BY <1>1, <1>5, NumberOfFront
  <2>2. p \in Int /\ p * Base \in Int
    BY <1>1, <1>2
  <2> HIDE DEF p
  <2> QED
    BY <1>3, <2>1, <2>2
<1> QED
  BY <1>2, <1>4, <1>5

LEMMA IsOrderStep ==
  ASSUME NEW n \in 2..4, IsOrder(n - 1)
  PROVE  IsOrder(n)
<1> SUFFICES ASSUME NEW x \in Words(n), NEW y \in Words(n),
                    Number(x, Base) = Number(y, Base)
             PROVE  x = y
  BY DEF IsOrder
<1>1. /\ Front(x) \in Words(n - 1) /\ Front(y) \in Words(n - 1)
      /\ \A i \in 1..n - 1 : Front(x)[i] = x[i] /\ Front(y)[i] = y[i]
  BY FrontFacts
<1>2. Number(x, Base) \in Int /\ Number(Front(x), Base) \in Int /\ Number(Front(y), Base) \in Int
  BY BaseFacts, NumberOfFront
<1>3. Number(x, Base) <= Number(y, Base) /\ Number(y, Base) <= Number(x, Base)
  BY <1>2
<1>4. Number(Front(x), Base) = Number(Front(y), Base)
  <2>1. /\ Number(Front(x), Base) <= Number(Front(y), Base)
        /\ Number(Front(y), Base) <= Number(Front(x), Base)
    BY <1>3, EqualFronts
  <2> QED
    BY <1>2, <2>1
<1>5. x[n] = y[n]
  <2>1. x[n] <= y[n] /\ y[n] <= x[n]
    BY <1>3, <1>4, EqualFronts
  <2> QED
    BY <2>1, WordFacts
<1>6. Front(x) = Front(y)
  BY <1>1, <1>4 DEF IsOrder
<1>7. \A i \in 1..n : x[i] = y[i]
  BY <1>1, <1>5, <1>6
<1> QED
  BY <1>7, SameWords

LEMMA NumbersTell ==
  ASSUME NEW n \in 1..4
  PROVE  IsOrder(n)
<1>1. IsOrder(1)
  <2> SUFFICES ASSUME NEW x \in Words(1), NEW y \in Words(1),
                      Number(x, Base) = Number(y, Base)
               PROVE  x = y
    BY DEF IsOrder
  <2>1. x[1] = y[1]
    BY NumberOfOne, BaseFacts
  <2>2. \A i \in 1..1 : x[i] = y[i]
    BY <2>1
  <2> QED
    BY <2>2, SameWords
<1>2. IsOrder(2)
  BY <1>1, IsOrderStep
<1>3. IsOrder(3)
  BY <1>2, IsOrderStep
<1>4. IsOrder(4)
  BY <1>3, IsOrderStep
<1> QED
  BY <1>1, <1>2, <1>3, <1>4

LEMMA TailOfFront ==
  ASSUME NEW n \in 3..4, NEW x \in Words(n)
  PROVE  Tail(Front(x)) = Front(Tail(x)) /\ Tail(Front(x)) \in Words(n - 2)
<1>1. n \in 2..4 /\ n - 1 \in 2..4 /\ n - 2 \in 1..4 /\ (n - 1) - 1 = n - 2
  OBVIOUS
<1>2. /\ Front(x) \in Words(n - 1) /\ \A i \in 1..n - 1 : Front(x)[i] = x[i]
      /\ Tail(x) \in Words(n - 1) /\ \A i \in 1..n - 1 : Tail(x)[i] = x[i + 1]
  BY <1>1, FrontFacts, TailFacts
<1> DEFINE y == Front(x)
           z == Tail(x)
<1>3. y \in Words(n - 1) /\ z \in Words(n - 1)
  BY <1>2
<1> HIDE DEF y, z
<1>4. /\ Tail(y) \in Words(n - 2) /\ \A i \in 1..n - 2 : Tail(y)[i] = y[i + 1]
      /\ Front(z) \in Words(n - 2) /\ \A i \in 1..n - 2 : Front(z)[i] = z[i]
  BY <1>1, <1>3, FrontFacts, TailFacts
<1>5. \A i \in 1..n - 2 : Tail(y)[i] = Front(z)[i]
  <2> TAKE i \in 1..n - 2
  <2>1. i \in 1..n - 1 /\ i + 1 \in 1..n - 1
    OBVIOUS
  <2> QED
    BY <1>2, <1>4, <2>1 DEF y, z
<1>6. Tail(y) = Front(z)
  BY <1>1, <1>4, <1>5, SameWords
<1> QED
  BY <1>4, <1>6 DEF y, z

LEMMA TailsDecideStep ==
  ASSUME NEW n \in 3..4, TailsDecide(n - 1)
  PROVE  TailsDecide(n)
<1> SUFFICES ASSUME NEW x \in Words(n), NEW y \in Words(n), x[1] = y[1]
             PROVE  Number(y, Base) - Number(x, Base)
                      = Number(Tail(y), Base) - Number(Tail(x), Base)
  BY DEF TailsDecide
<1>1. n \in 2..4 /\ n - 1 \in 2..4 /\ n \in 1..4 /\ Base \in Int
  BY BaseFacts
<1> DEFINE fx == Number(Front(x), Base)
           fy == Number(Front(y), Base)
           tx == Number(Front(Tail(x)), Base)
           ty == Number(Front(Tail(y)), Base)
<1>2. /\ Tail(x) \in Words(n - 1) /\ Tail(y) \in Words(n - 1)
      /\ \A i \in 1..n - 1 : Tail(x)[i] = x[i + 1] /\ Tail(y)[i] = y[i + 1]
      /\ Front(x) \in Words(n - 1) /\ Front(y) \in Words(n - 1)
      /\ \A i \in 1..n - 1 : Front(x)[i] = x[i] /\ Front(y)[i] = y[i]
  BY <1>1, FrontFacts, TailFacts
<1>3. /\ Number(x, Base) = fx * Base + x[n] /\ fx \in Int
      /\ Number(y, Base) = fy * Base + y[n] /\ fy \in Int
  BY <1>1, NumberOfFront
<1>4. /\ Number(Tail(x), Base) = tx * Base + Tail(x)[n - 1] /\ tx \in Int
      /\ Number(Tail(y), Base) = ty * Base + Tail(y)[n - 1] /\ ty \in Int
  BY <1>1, <1>2, NumberOfFront
<1>5. Tail(x)[n - 1] = x[n] /\ Tail(y)[n - 1] = y[n] /\ x[n] \in Int /\ y[n] \in Int
  <2>1. n - 1 \in 1..n - 1 /\ (n - 1) + 1 = n /\ n \in 1..n
    OBVIOUS
  <2> QED
    BY <1>1, <1>2, <2>1, WordFacts
<1>6. fy - fx = ty - tx
  <2>1. Front(x)[1] = Front(y)[1]
    BY <1>2
  <2>2. fy - fx = Number(Tail(Front(y)), Base) - Number(Tail(Front(x)), Base)
    BY <1>2, <2>1 DEF TailsDecide
  <2>3. Tail(Front(y)) = Front(Tail(y)) /\ Tail(Front(x)) = Front(Tail(x))
    BY TailOfFront
  <2> QED
    BY <2>2, <2>3
<1> HIDE DEF fx, fy, tx, ty
<1>7. (fy - fx) * Base = fy * Base - fx * Base /\ (ty - tx) * Base = ty * Base - tx * Base
  BY <1>1, <1>3, <1>4
<1>8. fy * Base \in Int /\ fx * Base \in Int /\ ty * Base \in Int /\ tx * Base \in Int
  BY <1>1, <1>3, <1>4
<1>9. fy * Base - fx * Base = ty * Base - tx * Base
  BY <1>6, <1>7
<1> DEFINE a == fx * Base
           b == fy * Base
           c == tx * Base
           d == ty * Base
<1>10. a \in Int /\ b \in Int /\ c \in Int /\ d \in Int /\ b - a = d - c
  BY <1>8, <1>9
<1>11. /\ Number(x, Base) = a + x[n] /\ Number(y, Base) = b + y[n]
       /\ Number(Tail(x), Base) = c + x[n] /\ Number(Tail(y), Base) = d + y[n]
  BY <1>3, <1>4, <1>5
<1> DEFINE r == x[n]
           s == y[n]
<1>12. r \in Int /\ s \in Int
  BY <1>5
<1>13. /\ Number(x, Base) = a + r /\ Number(y, Base) = b + s
       /\ Number(Tail(x), Base) = c + r /\ Number(Tail(y), Base) = d + s
  BY <1>11
<1> HIDE DEF a, b, c, d, r, s
<1>14. (b + s) - (a + r) = (d + s) - (c + r)
  BY <1>10, <1>12
<1> QED
  BY <1>13, <1>14

LEMMA TailsTell ==
  ASSUME NEW n \in 2..4
  PROVE  TailsDecide(n)
<1>1. TailsDecide(2)
  <2> SUFFICES ASSUME NEW x \in Words(2), NEW y \in Words(2), x[1] = y[1]
               PROVE  Number(y, Base) - Number(x, Base)
                        = Number(Tail(y), Base) - Number(Tail(x), Base)
    BY DEF TailsDecide
  <2>1. 2 \in 2..4 /\ 1 \in 1..2 - 1 /\ 2 - 1 = 1 /\ 2 \in 1..4 /\ Base \in Int
    BY BaseFacts
  <2>2. /\ Tail(x) \in Words(1) /\ Tail(y) \in Words(1)
        /\ Tail(x)[1] = x[2] /\ Tail(y)[1] = y[2]
    <3>1. /\ Tail(x) \in Words(2 - 1) /\ \A i \in 1..2 - 1 : Tail(x)[i] = x[i + 1]
          /\ Tail(y) \in Words(2 - 1) /\ \A i \in 1..2 - 1 : Tail(y)[i] = y[i + 1]
      BY <2>1, TailFacts
    <3>2. 1 + 1 = 2
      OBVIOUS
    <3> QED
      BY <2>1, <3>1, <3>2
  <2>3. Number(Tail(x), Base) = x[2] /\ Number(Tail(y), Base) = y[2]
    BY <2>1, <2>2, NumberOfOne
  <2>4. /\ Front(x) \in Words(1) /\ Front(y) \in Words(1)
        /\ Front(x)[1] = x[1] /\ Front(y)[1] = y[1]
    BY <2>1, FrontFacts
  <2>5. Number(Front(x), Base) = x[1] /\ Number(Front(y), Base) = y[1]
    BY <2>1, <2>4, NumberOfOne
  <2>6. /\ Number(x, Base) = x[1] * Base + x[2]
        /\ Number(y, Base) = x[1] * Base + y[2]
    BY <2>1, <2>5, NumberOfFront
  <2>7. x[2] \in Int /\ y[2] \in Int /\ x[1] \in Int /\ x[1] * Base \in Int
    BY <2>1, WordFacts
  <2> QED
    BY <2>3, <2>6, <2>7
<1>2. TailsDecide(3)
  BY <1>1, TailsDecideStep
<1>3. TailsDecide(4)
  BY <1>2, TailsDecideStep
<1> QED
  BY <1>1, <1>2, <1>3

(***************************************************************************)
(* The word after another one.                                             *)
(***************************************************************************)
IsNext(p, q, n, i) ==
  \A j \in 1..n : /\ j < i => q[j] = p[j]
                  /\ j = i => q[j] = p[j] + 1
                  /\ j > i => p[j] = Base - 1 /\ q[j] = 0
NextIsOneMore(n) ==
  \A p, q \in Words(n) : \A i \in 1..n :
    IsNext(p, q, n, i) => Number(q, Base) = Number(p, Base) + 1

LEMMA NextStep ==
  ASSUME NEW n \in 2..4, NextIsOneMore(n - 1)
  PROVE  NextIsOneMore(n)
<1> SUFFICES ASSUME NEW p \in Words(n), NEW q \in Words(n), NEW i \in 1..n,
                    IsNext(p, q, n, i)
             PROVE  Number(q, Base) = Number(p, Base) + 1
  BY DEF NextIsOneMore
<1> DEFINE v == Number(Front(p), Base)
           w == Number(Front(q), Base)
<1>1. /\ Front(p) \in Words(n - 1) /\ Front(q) \in Words(n - 1)
      /\ \A j \in 1..n - 1 : Front(p)[j] = p[j] /\ Front(q)[j] = q[j]
  BY FrontFacts
<1>2. /\ Number(p, Base) = v * Base + p[n] /\ Number(q, Base) = w * Base + q[n]
      /\ v \in Int /\ w \in Int /\ Base \in Int
  BY NumberOfFront, BaseFacts
<1>3. p[n] \in Int /\ q[n] \in Int /\ n \in 1..n
  BY WordFacts
<1>4. CASE i = n
  <2>1. \A j \in 1..n - 1 : q[j] = p[j]
    BY <1>4 DEF IsNext
  <2>2. q[n] = p[n] + 1
    BY <1>3, <1>4 DEF IsNext
  <2>3. \A j \in 1..n - 1 : Front(p)[j] = Front(q)[j]
    BY <1>1, <2>1
  <2>4. n - 1 \in 1..4
    OBVIOUS
  <2>5. Front(p) = Front(q)
    BY <1>1, <2>3, <2>4, SameWords
  <2>6. v = w
    BY <2>5
  <2>7. v * Base \in Int
    BY <1>2
  <2> HIDE DEF v, w
  <2> QED
    BY <1>2, <1>3, <2>2, <2>6, <2>7
<1>5. CASE i # n
  <2>1. i \in 1..n - 1 /\ n > i
    BY <1>5
  <2>2. p[n] = Base - 1 /\ q[n] = 0
    BY <1>3, <2>1 DEF IsNext
  <2>3. IsNext(Front(p), Front(q), n - 1, i)
    <3>1. \A j \in 1..n - 1 : j \in 1..n
      OBVIOUS
    <3> QED
      BY <1>1, <3>1 DEF IsNext
  <2>4. w = v + 1
    BY <1>1, <2>1, <2>3 DEF NextIsOneMore
  <2> HIDE DEF v, w
  <2>5. (v + 1) * Base = v * Base + Base /\ v * Base \in Int
    BY <1>2
  <2> QED
    BY <1>2, <2>2, <2>4, <2>5
<1> QED
  BY <1>4, <1>5

LEMMA NextWord ==
  ASSUME NEW n \in 1..4, NEW p \in Words(n), NEW q \in Words(n), NEW i \in 1..n,
         IsNext(p, q, n, i)
  PROVE  Number(q, Base) = Number(p, Base) + 1
<1>1. NextIsOneMore(1)
  <2> SUFFICES ASSUME NEW x \in Words(1), NEW y \in Words(1), NEW j \in 1..1,
                      IsNext(x, y, 1, j)
               PROVE  Number(y, Base) = Number(x, Base) + 1
    BY DEF NextIsOneMore
  <2>1. y[1] = x[1] + 1
    BY DEF IsNext
  <2> QED
    BY <2>1, NumberOfOne, BaseFacts
<1>2. NextIsOneMore(2)
  BY <1>1, NextStep
<1>3. NextIsOneMore(3)
  BY <1>2, NextStep
<1>4. NextIsOneMore(4)
  BY <1>3, NextStep
<1>5. NextIsOneMore(n)
  BY <1>1, <1>2, <1>3, <1>4
<1> QED
  BY <1>5 DEF NextIsOneMore

LEMMA GreatestNumber ==
  ASSUME NEW S, S \subseteq Int, S # {}, NEW m \in Int, \A x \in S : x <= m
  PROVE  Max(S) \in S /\ \A x \in S : x <= Max(S)
<1> DEFINE T == {k \in Nat : m - k \in S}
<1>1. PICK x \in S : TRUE
  OBVIOUS
<1>2. m - x \in T
  BY <1>1
<1>3. PICK k \in T : \A y \in T : ~(y < k)
  <2>1. T \subseteq Nat /\ T # {}
    BY <1>2
  <2> HIDE DEF T
  <2> QED
    BY <2>1, LeastNumber
<1>4. ASSUME NEW y \in S PROVE m - k >= y
  <2>1. m - y \in T
    OBVIOUS
  <2> QED
    BY <1>3, <2>1, SMTT(30)
<1>5. m - k \in S
  OBVIOUS
<1>6. \E g \in S : \A y \in S : g >= y
  BY <1>4, <1>5
<1>7. Max(S) \in S /\ \A y \in S : Max(S) >= y
  BY <1>6 DEF Max
<1> QED
  BY <1>7

LEMMA LeastOfNumbers ==
  ASSUME NEW S, S \subseteq Int, S # {}, NEW m \in Int, \A x \in S : m <= x
  PROVE  Min(S) \in S /\ \A x \in S : Min(S) <= x
<1> DEFINE T == {k \in Nat : m + k \in S}
<1>1. PICK x \in S : TRUE
  OBVIOUS
<1>2. x - m \in T
  BY <1>1
<1>3. PICK k \in T : \A y \in T : ~(y < k)
  <2>1. T \subseteq Nat /\ T # {}
    BY <1>2
  <2> HIDE DEF T
  <2> QED
    BY <2>1, LeastNumber
<1>4. ASSUME NEW y \in S PROVE m + k <= y
  <2>1. y - m \in T
    OBVIOUS
  <2> QED
    BY <1>3, <2>1
<1>5. m + k \in S
  OBVIOUS
<1>6. \E g \in S : \A y \in S : g <= y
  BY <1>4, <1>5
<1>7. Min(S) \in S /\ \A y \in S : Min(S) <= y
  BY <1>6 DEF Min
<1> QED
  BY <1>7

LEMMA NextPrefixFacts ==
  ASSUME NEW n \in 1..4, NEW p \in Words(n)
  PROVE  /\ NextPrefix(p) \in Words(n)
         /\ Number(NextPrefix(p), Base) = Number(p, Base) + 1
<1> DEFINE ends == {1} \cup {j \in 2..Len(p) : p[j] # Base - 1}
           i == Max(ends)
           q == [j \in 1..Len(p) |-> IF j < i THEN p[j] ELSE IF j = i THEN p[j] + 1 ELSE 0]
<1>1. /\ p \in Seq(Int) /\ Len(p) = n
      /\ \A j \in 1..n : p[j] \in Int
      /\ \A j \in 2..n : p[j] >= 0 /\ p[j] <= Base - 1
  BY WordFacts
<1>2. i \in ends /\ \A j \in ends : j <= i
  <2>1. ends \subseteq Int /\ ends # {} /\ 4 \in Int /\ \A j \in ends : j <= 4
    BY <1>1
  <2> HIDE DEF ends
  <2> QED
    BY <2>1, GreatestNumber
<1>3. i \in 1..n /\ (i # 1 => p[i] # Base - 1)
  BY <1>1, <1>2
<1>4. \A j \in 1..n : j > i => p[j] = Base - 1
  BY <1>1, <1>2
<1> HIDE DEF i
<1>5. /\ q \in Seq(Int) /\ Len(q) = n
      /\ \A j \in 1..n : q[j] = IF j < i THEN p[j] ELSE IF j = i THEN p[j] + 1 ELSE 0
  BY <1>1, <1>3
<1>6. NextPrefix(p) = q
  BY DEF NextPrefix, i
<1> HIDE DEF q
<1>7. \A j \in 2..n : q[j] \in Digits
  <2> TAKE j \in 2..n
  <2>1. Base \in Nat /\ Base >= 2 /\ j \in 1..n
    BY BaseFacts
  <2>2. CASE j = i
    <3>1. p[j] # Base - 1 /\ q[j] = p[j] + 1
      BY <1>3, <1>5, <2>1, <2>2
    <3> QED
      BY <1>1, <2>1, <3>1 DEF Digits
  <2>3. CASE j # i
    BY <1>1, <1>3, <1>5, <2>1, <2>3 DEF Digits
  <2> QED
    BY <2>2, <2>3
<1>8. q \in Words(n)
  BY <1>5, <1>7 DEF Words
<1>9. IsNext(p, q, n, i)
  BY <1>3, <1>4, <1>5 DEF IsNext
<1> QED
  BY <1>3, <1>6, <1>8, <1>9, NextWord

LEMMA PreviousPrefixFacts ==
  ASSUME NEW n \in 1..4, NEW p \in Words(n)
  PROVE  /\ PreviousPrefix(p) \in Words(n)
         /\ Number(p, Base) = Number(PreviousPrefix(p), Base) + 1
<1> DEFINE ends == {1} \cup {j \in 2..Len(p) : p[j] # 0}
           i == Max(ends)
           q == [j \in 1..Len(p) |-> IF j < i THEN p[j] ELSE IF j = i THEN p[j] - 1
                                     ELSE Base - 1]
<1>1. /\ p \in Seq(Int) /\ Len(p) = n
      /\ \A j \in 1..n : p[j] \in Int
      /\ \A j \in 2..n : p[j] >= 0 /\ p[j] <= Base - 1
  BY WordFacts
<1>2. i \in ends /\ \A j \in ends : j <= i
  <2>1. ends \subseteq Int /\ ends # {} /\ 4 \in Int /\ \A j \in ends : j <= 4
    BY <1>1
  <2> HIDE DEF ends
  <2> QED
    BY <2>1, GreatestNumber
<1>3. i \in 1..n /\ (i # 1 => p[i] # 0)
  BY <1>1, <1>2
<1>4. \A j \in 1..n : j > i => p[j] = 0
  BY <1>1, <1>2
<1> HIDE DEF i
<1>5. /\ q \in Seq(Int) /\ Len(q) = n
      /\ \A j \in 1..n : q[j] = IF j < i THEN p[j] ELSE IF j = i THEN p[j] - 1
                                ELSE Base - 1
  BY <1>1, <1>3, BaseFacts
<1>6. PreviousPrefix(p) = q
  BY DEF PreviousPrefix, i
<1> HIDE DEF q
<1>7. \A j \in 2..n : q[j] \in Digits
  <2> TAKE j \in 2..n
  <2>1. Base \in Nat /\ Base >= 2 /\ j \in 1..n
    BY BaseFacts
  <2>2. CASE j = i
    <3>1. p[j] # 0 /\ q[j] = p[j] - 1
      BY <1>3, <1>5, <2>1, <2>2
    <3> QED
      BY <1>1, <2>1, <3>1 DEF Digits
  <2>3. CASE j # i
    BY <1>1, <1>3, <1>5, <2>1, <2>3 DEF Digits
  <2> QED
    BY <2>2, <2>3
<1>8. q \in Words(n)
  BY <1>5, <1>7 DEF Words
<1>9. IsNext(q, p, n, i)
  <2>1. \A j \in 1..n : p[j] \in Int
    BY <1>1
  <2> QED
    BY <1>3, <1>4, <1>5, <2>1 DEF IsNext
<1> QED
  BY <1>3, <1>6, <1>8, <1>9, NextWord

(***************************************************************************)
(* Sets of bytes, as those that the automata alternate.                    *)
(***************************************************************************)
Reads(alternatives, x) ==
  \E sets \in alternatives :
    /\ Len(sets) = Len(x)
    /\ \A i \in 1..Len(sets) : x[i] \in sets[i]

Shaped(alternatives, n) ==
  \A sets \in alternatives : sets \in Seq(SUBSET Int) /\ Len(sets) = n

Between(x, lo, hi) ==
  Number(lo, Base) <= Number(x, Base) /\ Number(x, Base) <= Number(hi, Base)

LEMMA LongerByTail ==
  ASSUME NEW n \in 2..4, NEW rest, Shaped(rest, n - 1), NEW first \in Int,
         NEW x \in Words(n)
  PROVE  /\ Shaped({<<{first}>> \o sets : sets \in rest}, n)
         /\ Reads({<<{first}>> \o sets : sets \in rest}, x)
              <=> x[1] = first /\ Reads(rest, Tail(x))
<1>1. x \in Seq(Int) /\ Len(x) = n
  BY DEF Words
<1>2. /\ Len(Tail(x)) = n - 1
      /\ \A i \in 1..n - 1 : Tail(x)[i] = x[i + 1]
  BY TailFacts DEF Words
<1>3. ASSUME NEW sets \in rest
      PROVE  /\ <<{first}>> \o sets \in Seq(SUBSET Int) /\ Len(<<{first}>> \o sets) = n
             /\ (<<{first}>> \o sets)[1] = {first}
             /\ \A i \in 1..n - 1 : (<<{first}>> \o sets)[i + 1] = sets[i]
             /\ Len(sets) = n - 1
  <2>1. sets \in Seq(SUBSET Int) /\ Len(sets) = n - 1
    BY DEF Shaped
  <2>2. <<{first}>> \in Seq(SUBSET Int) /\ Len(<<{first}>>) = 1
    OBVIOUS
  <2> DEFINE one == <<{first}>>
  <2>3. one \in Seq(SUBSET Int) /\ Len(one) = 1 /\ one[1] = {first}
    BY <2>2
  <2> HIDE DEF one
  <2>4. /\ one \o sets \in Seq(SUBSET Int) /\ Len(one \o sets) = n
        /\ (one \o sets)[1] = {first}
        /\ \A i \in 1..n - 1 : (one \o sets)[i + 1] = sets[i]
    <3> DEFINE S == SUBSET Int
    <3>1. one \in Seq(S) /\ sets \in Seq(S)
      BY <2>1, <2>3
    <3> HIDE DEF S
    <3>2. /\ one \o sets \in Seq(S)
          /\ Len(one \o sets) = Len(one) + Len(sets)
          /\ \A i \in 1..Len(one) + Len(sets) :
               (one \o sets)[i] = IF i <= Len(one) THEN one[i] ELSE sets[i - Len(one)]
      BY <3>1, ConcatProperties
    <3>3. Len(one) = 1 /\ Len(one) + Len(sets) = n
      BY <2>1, <2>3
    <3>4. \A i \in 1..n - 1 : i + 1 \in 1..n /\ ~(i + 1 <= 1) /\ (i + 1) - 1 = i
      OBVIOUS
    <3>5. 1 \in 1..n /\ 1 <= 1
      OBVIOUS
    <3> QED
      BY <2>3, <3>2, <3>3, <3>4, <3>5 DEF S
  <2> QED
    BY <2>1, <2>4 DEF one
<1> DEFINE longer(sets) == <<{first}>> \o sets
<1>4. ASSUME NEW sets \in rest
      PROVE  (/\ Len(longer(sets)) = Len(x)
              /\ \A i \in 1..Len(longer(sets)) : x[i] \in longer(sets)[i])
             <=> (/\ x[1] = first
                  /\ Len(sets) = Len(Tail(x))
                  /\ \A i \in 1..Len(sets) : Tail(x)[i] \in sets[i])
  <2> DEFINE l == longer(sets)
  <2>1. /\ Len(l) = n /\ l[1] = {first} /\ Len(sets) = n - 1
        /\ \A i \in 1..n - 1 : l[i + 1] = sets[i]
    BY <1>3
  <2> HIDE DEF l
  <2>2. ASSUME \A i \in 1..n : x[i] \in l[i]
        PROVE  x[1] = first /\ \A i \in 1..n - 1 : Tail(x)[i] \in sets[i]
    <3>1. x[1] \in l[1]
      BY <2>2
    <3>2. ASSUME NEW i \in 1..n - 1 PROVE Tail(x)[i] \in sets[i]
      <4>1. i + 1 \in 1..n
        OBVIOUS
      <4> QED
        BY <1>2, <2>1, <2>2, <4>1
    <3> QED
      BY <2>1, <3>1, <3>2
  <2>3. ASSUME x[1] = first, \A i \in 1..n - 1 : Tail(x)[i] \in sets[i]
        PROVE  \A i \in 1..n : x[i] \in l[i]
    <3> TAKE i \in 1..n
    <3>1. CASE i = 1
      BY <2>1, <2>3, <3>1
    <3>2. CASE i # 1
      <4>1. i - 1 \in 1..n - 1 /\ (i - 1) + 1 = i
        BY <3>2
      <4>2. Tail(x)[i - 1] = x[i] /\ l[i] = sets[i - 1]
        BY <1>2, <2>1, <4>1
      <4> QED
        BY <2>3, <4>1, <4>2
    <3> QED
      BY <3>1, <3>2
  <2>4. (/\ Len(l) = Len(x) /\ \A i \in 1..Len(l) : x[i] \in l[i])
        <=> (/\ x[1] = first
             /\ Len(sets) = Len(Tail(x))
             /\ \A i \in 1..Len(sets) : Tail(x)[i] \in sets[i])
    BY <1>1, <1>2, <2>1, <2>2, <2>3
  <2> QED
    BY <2>4 DEF l
<1>5. Shaped({longer(sets) : sets \in rest}, n)
  BY <1>3 DEF Shaped
<1> HIDE DEF longer
<1>6. Reads({longer(sets) : sets \in rest}, x) <=> x[1] = first /\ Reads(rest, Tail(x))
  BY <1>4 DEF Reads
<1> QED
  BY <1>5, <1>6 DEF longer

LEMMA AppendedByte ==
  ASSUME NEW n \in 2..4, NEW sets \in Seq(SUBSET Int), Len(sets) = n - 1,
         NEW last \in SUBSET Int, NEW x \in Words(n)
  PROVE  /\ Append(sets, last) \in Seq(SUBSET Int) /\ Len(Append(sets, last)) = n
         /\ (/\ Len(Append(sets, last)) = Len(x)
             /\ \A i \in 1..Len(Append(sets, last)) : x[i] \in Append(sets, last)[i])
            <=> (/\ Len(sets) = Len(Front(x))
                 /\ \A i \in 1..Len(sets) : Front(x)[i] \in sets[i]
                 /\ x[n] \in last)
<1>1. x \in Seq(Int) /\ Len(x) = n
  BY DEF Words
<1>2. /\ Len(Front(x)) = n - 1
      /\ \A i \in 1..n - 1 : Front(x)[i] = x[i]
  BY FrontFacts DEF Words
<1> DEFINE l == Append(sets, last)
<1>3. /\ l \in Seq(SUBSET Int) /\ Len(l) = n /\ l[n] = last
      /\ \A i \in 1..n - 1 : l[i] = sets[i]
  OBVIOUS
<1> HIDE DEF l
<1>4. \A i \in 1..n : i = n \/ i \in 1..n - 1
  OBVIOUS
<1>5. \A i \in 1..n - 1 : i \in 1..n
  OBVIOUS
<1>6. n \in 1..n
  OBVIOUS
<1>7. ASSUME \A i \in 1..n : x[i] \in l[i]
      PROVE  x[n] \in last /\ \A i \in 1..n - 1 : Front(x)[i] \in sets[i]
  BY <1>2, <1>3, <1>5, <1>6, <1>7
<1>8. ASSUME x[n] \in last, \A i \in 1..n - 1 : Front(x)[i] \in sets[i]
      PROVE  \A i \in 1..n : x[i] \in l[i]
  BY <1>2, <1>3, <1>4, <1>8
<1>9. (Len(l) = Len(x) /\ \A i \in 1..Len(l) : x[i] \in l[i])
      <=> (/\ Len(sets) = Len(Front(x))
           /\ \A i \in 1..Len(sets) : Front(x)[i] \in sets[i]
           /\ x[n] \in last)
  BY <1>1, <1>2, <1>3, <1>7, <1>8
<1> QED
  BY <1>3, <1>9 DEF l

LEMMA LongerByFront ==
  ASSUME NEW n \in 2..4, NEW some, Shaped(some, n - 1), NEW last \in SUBSET Int,
         NEW x \in Words(n)
  PROVE  /\ Shaped({Append(sets, last) : sets \in some}, n)
         /\ Reads({Append(sets, last) : sets \in some}, x)
              <=> Reads(some, Front(x)) /\ x[n] \in last
<1>1. \A sets \in some : sets \in Seq(SUBSET Int) /\ Len(sets) = n - 1
  BY DEF Shaped
<1> DEFINE longer(sets) == Append(sets, last)
<1>2. \A sets \in some : longer(sets) \in Seq(SUBSET Int) /\ Len(longer(sets)) = n
  BY <1>1, AppendedByte
<1>3. \A sets \in some :
        (/\ Len(longer(sets)) = Len(x)
         /\ \A i \in 1..Len(longer(sets)) : x[i] \in longer(sets)[i])
        <=> (/\ Len(sets) = Len(Front(x))
             /\ \A i \in 1..Len(sets) : Front(x)[i] \in sets[i]
             /\ x[n] \in last)
  BY <1>1, AppendedByte
<1> HIDE DEF longer
<1>4. Shaped({longer(sets) : sets \in some}, n)
  BY <1>2 DEF Shaped
<1>5. Reads({longer(sets) : sets \in some}, x) <=> Reads(some, Front(x)) /\ x[n] \in last
  BY <1>3 DEF Reads
<1> QED
  BY <1>4, <1>5 DEF longer

LEMMA ExactlyOne ==
  ASSUME NEW n \in 1..4, NEW p \in Words(n), NEW x \in Words(n)
  PROVE  Shaped({Exactly(p)}, n) /\ (Reads({Exactly(p)}, x) <=> x = p)
<1>1. /\ p \in Seq(Int) /\ Len(p) = n /\ \A i \in 1..n : p[i] \in Int
      /\ x \in Seq(Int) /\ Len(x) = n
  BY WordFacts
<1>2. /\ Exactly(p) \in Seq(SUBSET Int) /\ Len(Exactly(p)) = n
      /\ \A i \in 1..n : Exactly(p)[i] = {p[i]}
  BY <1>1 DEF Exactly
<1>3. Reads({Exactly(p)}, x) <=> \A i \in 1..n : x[i] = p[i]
  BY <1>1, <1>2 DEF Reads
<1>4. (\A i \in 1..n : x[i] = p[i]) <=> x = p
  BY SameWords
<1> QED
  BY <1>2, <1>3, <1>4 DEF Shaped

LEMMA ReadsUnion ==
  ASSUME NEW a, NEW b, NEW x, NEW n
  PROVE  /\ Reads(a \cup b, x) <=> Reads(a, x) \/ Reads(b, x)
         /\ Shaped(a, n) /\ Shaped(b, n) => Shaped(a \cup b, n)
BY DEF Reads, Shaped

(***************************************************************************)
(* One more byte. What an automaton reads lies between the lowest and the  *)
(* highest encoding, and it reads all of that, if those for the rest and   *)
(* for the middle do.                                                      *)
(***************************************************************************)
LEMMA InOrder ==
  ASSUME NEW n \in 1..4, NEW x \in Words(n), NEW y \in Words(n),
         Number(x, Base) <= Number(y, Base)
  PROVE  x[1] <= y[1] /\ (x[1] # y[1] => x[1] < y[1])
<1>1. x[1] \in Int /\ y[1] \in Int
  BY WordFacts
<1>2. Base \in Nat /\ Base >= Base
  BY BaseFacts
<1>3. FirstDecides(n, Base)
  BY <1>2, FirstBytesDecide
<1>4. Number(x, Base) \in Int /\ Number(y, Base) \in Int
  BY <1>2, NumberIsInt
<1>5. ~(y[1] < x[1])
  BY <1>3, <1>4 DEF FirstDecides
<1> QED
  BY <1>1, <1>5

\* A byte has more values than a digit: the code sees a prefix in the middle
\* wherever there is one.
LEMMA PrefixesInTheMiddle ==
  ASSUME NEW n \in 1..3, NEW p \in Words(n), NEW q \in Words(n), p[1] < q[1]
  PROVE  /\ n = 1 => (AsNumber(p) + 1 < AsNumber(q)
                        <=> Number(p, Base) + 1 < Number(q, Base))
         /\ n # 1 => AsNumber(p) + 1 < AsNumber(q)
<1> DEFINE b == 4 * Base
<1>1. b \in Nat /\ b >= Base /\ b = 4 * Base /\ Base \in Nat /\ Base >= 2
  BY BaseFacts
<1>2. AsNumber(p) = Number(p, b) /\ AsNumber(q) = Number(q, b)
  BY DEF AsNumber
<1> HIDE DEF b
<1>3. CASE n = 1
  <2>1. Number(p, b) = p[1] /\ Number(q, b) = q[1]
    BY <1>1, <1>3, NumberOfOne
  <2>2. Number(p, Base) = p[1] /\ Number(q, Base) = q[1]
    BY <1>1, <1>3, NumberOfOne
  <2> QED
    BY <1>2, <1>3, <2>1, <2>2
<1>4. CASE n # 1
  <2>1. n \in 2..4 /\ n - 1 \in 1..4 /\ n \in 1..4
    BY <1>4
  <2>2. /\ Front(p) \in Words(n - 1) /\ Front(q) \in Words(n - 1)
        /\ Front(p)[1] = p[1] /\ Front(q)[1] = q[1]
    BY <2>1, FrontFacts
  <2>3. FirstDecides(n - 1, b)
    BY <1>1, <2>1, FirstBytesDecide
  <2>4. Number(Front(p), b) < Number(Front(q), b)
    BY <2>2, <2>3 DEF FirstDecides
  <2>5. Number(p, b) + b <= Number(q, b) + p[n]
    BY <1>1, <2>1, <2>4, FrontsDecide
  <2>6. p[n] \in Int /\ p[n] <= Base - 1
    BY <2>1, WordFacts
  <2>7. Number(p, b) \in Int /\ Number(q, b) \in Int
    BY <1>1, <2>1, NumberIsInt
  <2>8. Number(p, b) + 1 < Number(q, b)
    BY <1>1, <2>5, <2>6, <2>7
  <2> QED
    BY <1>2, <1>4, <2>8
<1> QED
  BY <1>3, <1>4

LEMMA LongerReads ==
  ASSUME NEW n \in 2..4, NEW lo \in Words(n), NEW hi \in Words(n), NEW x \in Words(n),
         NEW rest, Shaped(rest, n - 1), NEW middle, Shaped(middle, n - 1)
  PROVE  /\ Shaped(LongerAutomaton(lo, hi, rest, middle), n)
         /\ lo[1] = hi[1] =>
              (Reads(LongerAutomaton(lo, hi, rest, middle), x)
                 <=> x[1] = lo[1] /\ Reads(rest, Tail(x)))
         /\ lo[1] # hi[1] =>
              (Reads(LongerAutomaton(lo, hi, rest, middle), x)
                 <=> \/ Front(x) = Front(lo) /\ lo[n] <= x[n]
                     \/ Front(x) = Front(hi) /\ x[n] <= hi[n]
                     \/ /\ AsNumber(Front(lo)) + 1 < AsNumber(Front(hi))
                        /\ Reads(middle, Front(x)))
<1>1. /\ Len(lo) = n /\ lo[1] \in Int /\ hi[1] \in Int
      /\ lo[n] \in Int /\ hi[n] \in Int /\ x[n] \in Int /\ x[n] >= 0 /\ x[n] <= Base - 1
      /\ Base \in Nat /\ n \in 1..n /\ n - 1 \in 1..4
  <2>1. n \in 1..4 /\ n \in 1..n /\ n \in 2..n /\ 1 \in 1..n /\ n - 1 \in 1..4
    OBVIOUS
  <2>2. /\ Len(lo) = n /\ lo[1] \in Int /\ lo[n] \in Int
        /\ hi[1] \in Int /\ hi[n] \in Int
    BY <2>1, WordFacts
  <2>3. x[n] \in Int /\ x[n] >= 0 /\ x[n] <= Base - 1
    BY <2>1, WordFacts
  <2> QED
    BY <2>1, <2>2, <2>3, BaseFacts
<1>2. CASE lo[1] = hi[1]
  <2> DEFINE longer == {<<{lo[1]}>> \o sets : sets \in rest}
  <2>1. LongerAutomaton(lo, hi, rest, middle) = longer
    BY <1>2 DEF LongerAutomaton
  <2>2. Shaped(longer, n) /\ (Reads(longer, x) <=> x[1] = lo[1] /\ Reads(rest, Tail(x)))
    BY <1>1, LongerByTail
  <2> HIDE DEF longer
  <2> QED
    BY <1>2, <2>1, <2>2
<1>3. CASE lo[1] # hi[1]
  <2> DEFINE low == Front(lo)
             high == Front(hi)
             first == {Append(sets, lo[n]..(Base - 1)) : sets \in {Exactly(low)}}
             last == {Append(sets, 0..hi[n]) : sets \in {Exactly(high)}}
             between == {Append(sets, Digits) : sets \in middle}
             believes == AsNumber(low) + 1 < AsNumber(high)
             others == IF believes THEN between ELSE {}
  <2>1. LongerAutomaton(lo, hi, rest, middle) = (first \cup last) \cup others
    BY <1>1, <1>3, Zenon DEF LongerAutomaton
  <2>2. low \in Words(n - 1) /\ high \in Words(n - 1) /\ Front(x) \in Words(n - 1)
    BY FrontFacts
  <2>3. /\ Shaped({Exactly(low)}, n - 1) /\ (Reads({Exactly(low)}, Front(x)) <=> Front(x) = low)
        /\ Shaped({Exactly(high)}, n - 1) /\ (Reads({Exactly(high)}, Front(x)) <=> Front(x) = high)
    BY <1>1, <2>2, ExactlyOne
  <2>4. /\ lo[n]..(Base - 1) \in SUBSET Int /\ 0..hi[n] \in SUBSET Int
        /\ Digits \in SUBSET Int /\ x[n] \in Digits
        /\ x[n] \in lo[n]..(Base - 1) <=> lo[n] <= x[n]
        /\ x[n] \in 0..hi[n] <=> x[n] <= hi[n]
    BY <1>1 DEF Digits
  <2>5. Shaped(first, n) /\ (Reads(first, x) <=> Front(x) = low /\ lo[n] <= x[n])
    <3> DEFINE some == {Exactly(low)}
               set == lo[n]..(Base - 1)
    <3>1. Shaped(some, n - 1) /\ set \in SUBSET Int
      BY <2>3, <2>4
    <3> HIDE DEF some, set
    <3>2. /\ Shaped({Append(sets, set) : sets \in some}, n)
          /\ Reads({Append(sets, set) : sets \in some}, x)
               <=> Reads(some, Front(x)) /\ x[n] \in set
      BY <3>1, LongerByFront
    <3> QED
      BY <2>3, <2>4, <3>2 DEF some, set
  <2>6. Shaped(last, n) /\ (Reads(last, x) <=> Front(x) = high /\ x[n] <= hi[n])
    <3> DEFINE some == {Exactly(high)}
               set == 0..hi[n]
    <3>1. Shaped(some, n - 1) /\ set \in SUBSET Int
      BY <2>3, <2>4
    <3> HIDE DEF some, set
    <3>2. /\ Shaped({Append(sets, set) : sets \in some}, n)
          /\ Reads({Append(sets, set) : sets \in some}, x)
               <=> Reads(some, Front(x)) /\ x[n] \in set
      BY <3>1, LongerByFront
    <3> QED
      BY <2>3, <2>4, <3>2 DEF some, set
  <2>7. Shaped(between, n) /\ (Reads(between, x) <=> Reads(middle, Front(x)))
    BY <2>4, LongerByFront
  <2>8. Shaped({}, n) /\ ~Reads({}, x)
    BY DEF Shaped, Reads
  <2> HIDE DEF low, high, first, last, between, believes
  <2>9. Shaped(others, n) /\ (Reads(others, x) <=> believes /\ Reads(middle, Front(x)))
    BY <2>7, <2>8
  <2> HIDE DEF others
  <2>10. /\ Shaped((first \cup last) \cup others, n)
         /\ Reads((first \cup last) \cup others, x)
              <=> Reads(first, x) \/ Reads(last, x) \/ Reads(others, x)
    BY <2>5, <2>6, <2>9, ReadsUnion
  <2> QED
    BY <1>3, <2>1, <2>5, <2>6, <2>9, <2>10 DEF low, high, believes
<1> QED
  BY <1>2, <1>3

\* Of an encoding between lo and hi.
LEMMA LongerReadsAll ==
  ASSUME NEW n \in 2..4, NEW lo \in Words(n), NEW hi \in Words(n), NEW x \in Words(n),
         NEW rest, Shaped(rest, n - 1), NEW middle, Shaped(middle, n - 1),
         Between(Tail(x), Tail(lo), Tail(hi)) => Reads(rest, Tail(x)),
         Between(Front(x), After(lo), Before(hi)) => Reads(middle, Front(x)),
         Between(x, lo, hi)
  PROVE  Reads(LongerAutomaton(lo, hi, rest, middle), x)
<1>1. /\ n \in 1..4 /\ n - 1 \in 1..4 /\ n - 1 \in 1..3 /\ Base \in Int
      /\ Base \in Nat /\ Base >= Base
  BY BaseFacts
<1>2. /\ Number(lo, Base) <= Number(x, Base) /\ Number(x, Base) <= Number(hi, Base)
      /\ Number(lo, Base) \in Int /\ Number(x, Base) \in Int /\ Number(hi, Base) \in Int
  BY <1>1, NumberIsInt DEF Between
<1>3. lo[1] <= x[1] /\ x[1] <= hi[1] /\ lo[1] \in Int /\ x[1] \in Int /\ hi[1] \in Int
  <2>1. lo[1] \in Int /\ x[1] \in Int /\ hi[1] \in Int
    BY <1>1, WordFacts
  <2> QED
    BY <1>1, <1>2, <2>1, InOrder
<1>4. CASE lo[1] = hi[1]
  <2>1. x[1] = lo[1] /\ x[1] = hi[1]
    BY <1>3, <1>4
  <2>2. /\ Number(x, Base) - Number(lo, Base) = Number(Tail(x), Base) - Number(Tail(lo), Base)
        /\ Number(hi, Base) - Number(x, Base) = Number(Tail(hi), Base) - Number(Tail(x), Base)
    BY <2>1, TailsTell DEF TailsDecide
  <2>3. /\ Number(Tail(lo), Base) \in Int /\ Number(Tail(x), Base) \in Int
        /\ Number(Tail(hi), Base) \in Int
    <3>1. Tail(lo) \in Words(n - 1) /\ Tail(x) \in Words(n - 1) /\ Tail(hi) \in Words(n - 1)
      BY TailFacts
    <3> QED
      BY <1>1, <3>1, NumberIsInt
  <2>4. Between(Tail(x), Tail(lo), Tail(hi))
    BY <1>2, <2>2, <2>3 DEF Between
  <2> QED
    BY <1>4, <2>1, <2>4, LongerReads
<1>5. CASE lo[1] # hi[1]
  <2> DEFINE low == Front(lo)
             high == Front(hi)
             f == Front(x)
  <2>1. /\ low \in Words(n - 1) /\ high \in Words(n - 1) /\ f \in Words(n - 1)
        /\ low[1] = lo[1] /\ high[1] = hi[1]
    BY FrontFacts
  <2>2. /\ Number(low, Base) \in Int /\ Number(high, Base) \in Int /\ Number(f, Base) \in Int
    BY <1>1, <2>1, NumberIsInt
  <2>3. /\ Number(low, Base) <= Number(f, Base)
        /\ Number(low, Base) = Number(f, Base) => lo[n] <= x[n]
        /\ Number(f, Base) <= Number(high, Base)
        /\ Number(f, Base) = Number(high, Base) => x[n] <= hi[n]
    BY <1>2, EqualFronts
  <2>4. IsOrder(n - 1)
    BY <1>1, NumbersTell
  <2>5. CASE Number(low, Base) = Number(f, Base)
    <3>1. f = low
      BY <2>1, <2>4, <2>5 DEF IsOrder
    <3> QED
      BY <1>5, <2>3, <2>5, <3>1, LongerReads
  <2>6. CASE Number(f, Base) = Number(high, Base)
    <3>1. f = high
      BY <2>1, <2>4, <2>6 DEF IsOrder
    <3> QED
      BY <1>5, <2>3, <2>6, <3>1, LongerReads
  <2>7. CASE Number(low, Base) # Number(f, Base) /\ Number(f, Base) # Number(high, Base)
    <3>1. Number(low, Base) + 1 < Number(high, Base)
      BY <2>2, <2>3, <2>7
    <3>2. low[1] < high[1]
      BY <1>3, <1>5, <2>1
    <3>3. AsNumber(low) + 1 < AsNumber(high)
      BY <1>1, <2>1, <3>1, <3>2, PrefixesInTheMiddle
    <3>4. /\ Number(After(lo), Base) = Number(low, Base) + 1
          /\ Number(high, Base) = Number(Before(hi), Base) + 1
          /\ Number(After(lo), Base) \in Int /\ Number(Before(hi), Base) \in Int
      <4>1. After(lo) \in Words(n - 1) /\ Before(hi) \in Words(n - 1)
        BY <1>1, <2>1, NextPrefixFacts, PreviousPrefixFacts DEF After, Before
      <4>2. /\ Number(After(lo), Base) = Number(low, Base) + 1
            /\ Number(high, Base) = Number(Before(hi), Base) + 1
        BY <1>1, <2>1, NextPrefixFacts, PreviousPrefixFacts DEF After, Before
      <4> QED
        BY <1>1, <4>1, <4>2, NumberIsInt
    <3>5. Between(f, After(lo), Before(hi))
      BY <2>2, <2>3, <2>7, <3>4 DEF Between
    <3>6. Reads(middle, f)
      BY <3>5
    <3> QED
      BY <1>5, <3>3, <3>6, LongerReads
  <2> QED
    BY <2>5, <2>6, <2>7
<1> QED
  BY <1>4, <1>5

\* The highest prefix follows the lowest one, with a carry.
Joined(n, lo, hi) ==
  Number(Front(hi), Base) = Number(Front(lo), Base) + 1 /\ hi[n - 1] = 0

LEMMA JoinedOrApart ==
  ASSUME NEW n \in 3..4, NEW lo \in Words(n), NEW hi \in Words(n), lo[1] < hi[1],
         ~Joined(n, lo, hi)
  PROVE  Number(Front(lo), Base) + 1 < Number(Front(hi), Base)
<1> DEFINE low == Front(lo)
           high == Front(hi)
           p == Number(Front(low), Base)
           q == Number(Front(high), Base)
           m == n - 1
           k == n - 2
<1>1. /\ n \in 2..4 /\ n \in 1..4 /\ m \in 2..4 /\ m \in 1..4 /\ k \in 1..4
      /\ m - 1 = k /\ n - 1 = m /\ m \in 2..m /\ 1 \in 1..k /\ 1 \in 1..m /\ m \in 1..m
      /\ Base \in Nat /\ Base >= 2 /\ Base >= Base
  BY BaseFacts
<1> HIDE DEF m, k
<1>2. /\ low \in Words(m) /\ high \in Words(m)
      /\ \A i \in 1..m : low[i] = lo[i] /\ high[i] = hi[i]
  BY <1>1, FrontFacts
<1> HIDE DEF low, high
<1>3. /\ Front(low) \in Words(k) /\ Front(high) \in Words(k)
      /\ \A i \in 1..k : Front(low)[i] = low[i] /\ Front(high)[i] = high[i]
  BY <1>1, <1>2, FrontFacts
<1>4. Front(low)[1] < Front(high)[1]
  BY <1>1, <1>2, <1>3
<1>5. p < q
  BY <1>1, <1>3, <1>4, FirstBytesDecide DEF FirstDecides
<1>6. /\ Number(low, Base) = p * Base + low[m] /\ Number(high, Base) = q * Base + high[m]
      /\ p \in Int /\ q \in Int
  BY <1>1, <1>2, NumberOfFront, SMTT(30)
<1>7. low[m] \in Int /\ low[m] <= Base - 1 /\ high[m] \in Int /\ high[m] >= 0
  BY <1>1, <1>2, WordFacts
<1>8. Number(high, Base) = Number(low, Base) + 1 => high[m] # 0
  BY <1>1, <1>2 DEF Joined, low, high, m
<1> HIDE DEF p, q
<1>9. p * Base + Base <= q * Base /\ p * Base \in Int /\ q * Base \in Int
  BY <1>1, <1>5, <1>6, Multiples
<1>10. Number(low, Base) + 1 < Number(high, Base)
  BY <1>1, <1>6, <1>7, <1>8, <1>9
<1> QED
  BY <1>10 DEF low, high

\* No other encoding.
LEMMA LongerReadsNoOther ==
  ASSUME NEW n \in 2..4, NEW lo \in Words(n), NEW hi \in Words(n), NEW x \in Words(n),
         NEW rest, Shaped(rest, n - 1), NEW middle, Shaped(middle, n - 1),
         Number(lo, Base) <= Number(hi, Base), n # 2 => ~Joined(n, lo, hi),
         lo[1] = hi[1] /\ Reads(rest, Tail(x)) => Between(Tail(x), Tail(lo), Tail(hi)),
         (lo[1] # hi[1] /\ Reads(middle, Front(x))
            /\ Number(After(lo), Base) <= Number(Before(hi), Base))
           => Between(Front(x), After(lo), Before(hi)),
         Reads(LongerAutomaton(lo, hi, rest, middle), x)
  PROVE  Between(x, lo, hi)
<1>1. /\ n \in 1..4 /\ n - 1 \in 1..4 /\ n - 1 \in 1..3 /\ Base \in Int
      /\ Base \in Nat /\ Base >= Base /\ n \in 1..n /\ n \in 2..n /\ 1 \in 1..n
  BY BaseFacts
<1>2. Number(lo, Base) \in Int /\ Number(x, Base) \in Int /\ Number(hi, Base) \in Int
  BY <1>1, NumberIsInt
<1>3. lo[1] <= hi[1] /\ lo[1] \in Int /\ hi[1] \in Int
  <2>1. lo[1] \in Int /\ hi[1] \in Int
    BY <1>1, WordFacts
  <2> QED
    BY <1>1, <1>2, <2>1, InOrder
<1>4. CASE lo[1] = hi[1]
  <2>1. x[1] = lo[1] /\ x[1] = hi[1] /\ Reads(rest, Tail(x))
    BY <1>4, LongerReads
  <2>2. Between(Tail(x), Tail(lo), Tail(hi))
    BY <1>4, <2>1
  <2>3. /\ Number(x, Base) - Number(lo, Base) = Number(Tail(x), Base) - Number(Tail(lo), Base)
        /\ Number(hi, Base) - Number(x, Base) = Number(Tail(hi), Base) - Number(Tail(x), Base)
    BY <2>1, TailsTell DEF TailsDecide
  <2>4. /\ Number(Tail(lo), Base) \in Int /\ Number(Tail(x), Base) \in Int
        /\ Number(Tail(hi), Base) \in Int
    <3>1. Tail(lo) \in Words(n - 1) /\ Tail(x) \in Words(n - 1) /\ Tail(hi) \in Words(n - 1)
      BY TailFacts
    <3> QED
      BY <1>1, <3>1, NumberIsInt
  <2> QED
    BY <1>2, <2>2, <2>3, <2>4 DEF Between
<1>5. CASE lo[1] # hi[1]
  <2> DEFINE low == Front(lo)
             high == Front(hi)
             f == Front(x)
             l == Number(low, Base)
             h == Number(high, Base)
             v == Number(f, Base)
  <2>1. /\ low \in Words(n - 1) /\ high \in Words(n - 1) /\ f \in Words(n - 1)
        /\ low[1] = lo[1] /\ high[1] = hi[1]
    BY FrontFacts
  <2>2. l \in Int /\ h \in Int /\ v \in Int
    BY <1>1, <2>1, NumberIsInt
  <2>3. low[1] < high[1]
    BY <1>3, <1>5, <2>1
  <2>4. l < h
    BY <1>1, <2>1, <2>3, FirstBytesDecide DEF FirstDecides
  <2>5. /\ x[n] \in Int /\ x[n] >= 0 /\ x[n] <= Base - 1
        /\ lo[n] \in Int /\ lo[n] <= Base - 1 /\ hi[n] \in Int /\ hi[n] >= 0
    BY <1>1, WordFacts
  <2>6. /\ v < h => Number(x, Base) < Number(hi, Base)
        /\ l < v => Number(lo, Base) < Number(x, Base)
    <3>1. v < h => Number(x, Base) + Base <= Number(hi, Base) + x[n]
      BY <1>1, FrontsDecide
    <3>2. l < v => Number(lo, Base) + Base <= Number(x, Base) + lo[n]
      BY <1>1, FrontsDecide
    <3> QED
      BY <1>1, <1>2, <2>5, <3>1, <3>2
  <2>7. CASE f = low /\ lo[n] <= x[n]
    <3>1. Number(x, Base) = l * Base + x[n] /\ Number(lo, Base) = l * Base + lo[n]
      BY <1>1, <2>7, NumberOfFront
    <3>2. l * Base \in Int
      BY <1>1, <2>2
    <3>3. Number(x, Base) < Number(hi, Base)
      BY <2>4, <2>6, <2>7
    <3> HIDE DEF l
    <3>4. Number(lo, Base) <= Number(x, Base)
      BY <2>5, <2>7, <3>1, <3>2
    <3> QED
      BY <1>2, <3>3, <3>4 DEF Between
  <2>8. CASE f = high /\ x[n] <= hi[n]
    <3>1. Number(x, Base) = h * Base + x[n] /\ Number(hi, Base) = h * Base + hi[n]
      BY <1>1, <2>8, NumberOfFront
    <3>2. h * Base \in Int
      BY <1>1, <2>2
    <3>3. Number(lo, Base) < Number(x, Base)
      BY <2>4, <2>6, <2>8
    <3> HIDE DEF h
    <3>4. Number(x, Base) <= Number(hi, Base)
      BY <2>5, <2>8, <3>1, <3>2
    <3> QED
      BY <1>2, <3>3, <3>4 DEF Between
  <2>9. CASE AsNumber(low) + 1 < AsNumber(high) /\ Reads(middle, f)
    <3>1. l + 1 < h
      <4>1. CASE n = 2
        <5>1. n - 1 = 1
          BY <4>1
        <5> QED
          BY <1>1, <2>1, <2>3, <2>9, <5>1, PrefixesInTheMiddle
      <4>2. CASE n # 2
        <5>1. n \in 3..4 /\ lo[1] < hi[1]
          BY <2>1, <2>3, <4>2
        <5> QED
          BY <4>2, <5>1, JoinedOrApart
      <4> QED
        BY <4>1, <4>2
    <3>2. /\ Number(After(lo), Base) = l + 1
          /\ h = Number(Before(hi), Base) + 1
          /\ Number(After(lo), Base) \in Int /\ Number(Before(hi), Base) \in Int
      <4>1. After(lo) \in Words(n - 1) /\ Before(hi) \in Words(n - 1)
        BY <1>1, <2>1, NextPrefixFacts, PreviousPrefixFacts DEF After, Before
      <4>2. Number(After(lo), Base) = l + 1 /\ h = Number(Before(hi), Base) + 1
        BY <1>1, <2>1, NextPrefixFacts, PreviousPrefixFacts DEF After, Before
      <4> QED
        BY <1>1, <4>1, <4>2, NumberIsInt
    <3>3. Number(After(lo), Base) <= Number(Before(hi), Base)
      BY <2>2, <3>1, <3>2
    <3>4. Between(f, After(lo), Before(hi))
      BY <1>5, <2>9, <3>3
    <3>5. l < v /\ v < h
      BY <2>2, <3>2, <3>4 DEF Between
    <3> QED
      BY <1>2, <2>6, <3>5 DEF Between
  <2> QED
    BY <1>5, <2>7, <2>8, <2>9, LongerReads
<1> QED
  BY <1>4, <1>5

(***************************************************************************)
(* The automaton of a range of encodings of the same length.               *)
(***************************************************************************)
NoCarries(n, lo, hi) ==
  /\ n \in 3..4 => ~Joined(n, lo, hi)
  /\ n = 4 /\ lo[1] # hi[1] => ~Joined(3, After(lo), Before(hi))

IsComplete(n) ==
  \A lo, hi \in Words(n) :
    /\ Shaped(BytesAutomaton(lo, hi), n)
    /\ \A x \in Words(n) : Between(x, lo, hi) => Reads(BytesAutomaton(lo, hi), x)

IsSound(n) ==
  \A lo, hi \in Words(n) :
    Number(lo, Base) <= Number(hi, Base) /\ NoCarries(n, lo, hi) =>
      \A x \in Words(n) : Reads(BytesAutomaton(lo, hi), x) => Between(x, lo, hi)

LEMMA ShorterWords ==
  ASSUME NEW n \in 2..4, NEW x \in Words(n)
  PROVE  /\ Front(x) \in Words(n - 1) /\ Tail(x) \in Words(n - 1)
         /\ After(x) \in Words(n - 1) /\ Before(x) \in Words(n - 1)
         /\ Number(After(x), Base) = Number(Front(x), Base) + 1
         /\ Number(Front(x), Base) = Number(Before(x), Base) + 1
<1>1. n - 1 \in 1..4 /\ Front(x) \in Words(n - 1) /\ Tail(x) \in Words(n - 1)
  BY FrontFacts, TailFacts
<1> QED
  BY <1>1, NextPrefixFacts, PreviousPrefixFacts DEF After, Before

LEMMA AutomatonOfOne ==
  ASSUME NEW lo, NEW hi, Len(lo) = 1
  PROVE  BytesAutomaton(lo, hi) = OneByteAutomaton(lo, hi)
<1> DEFINE n == Len(lo)
           one == OneByteAutomaton(lo, hi)
           two == TwoBytesAutomaton(lo, hi)
           three == ThreeBytesAutomaton(lo, hi)
           four == FourBytesAutomaton(lo, hi)
<1>1. BytesAutomaton(lo, hi) = CASE n = 1 -> one [] n = 2 -> two
                                 [] n = 3 -> three [] n = 4 -> four
  BY DEF BytesAutomaton
<1>2. n = 1
  OBVIOUS
<1> HIDE DEF n, one, two, three, four
<1>3. n # 2 /\ n # 3 /\ n # 4
  BY <1>2
<1> QED
  BY <1>1, <1>2, <1>3 DEF one

LEMMA AutomatonOfMore ==
  ASSUME NEW n \in 2..4, NEW lo \in Words(n), NEW hi \in Words(n)
  PROVE  BytesAutomaton(lo, hi)
           = LongerAutomaton(lo, hi, BytesAutomaton(Tail(lo), Tail(hi)),
                             BytesAutomaton(After(lo), Before(hi)))
<1>1. Len(lo) = n /\ Len(Tail(lo)) = n - 1 /\ Len(After(lo)) = n - 1
  BY ShorterWords DEF Words
<1>2. CASE n = 2
  <2>1. Len(lo) = 2 /\ Len(Tail(lo)) = 1 /\ Len(After(lo)) = 1
    BY <1>1, <1>2
  <2> QED
    BY <2>1, AutomatonOfOne DEF BytesAutomaton, TwoBytesAutomaton
<1>3. CASE n = 3
  <2>1. Len(lo) = 3 /\ Len(Tail(lo)) = 2 /\ Len(After(lo)) = 2
    BY <1>1, <1>3
  <2> QED
    BY <2>1 DEF BytesAutomaton, ThreeBytesAutomaton
<1>4. CASE n = 4
  <2>1. Len(lo) = 4 /\ Len(Tail(lo)) = 3 /\ Len(After(lo)) = 3
    BY <1>1, <1>4
  <2> QED
    BY <2>1 DEF BytesAutomaton, FourBytesAutomaton
<1> QED
  BY <1>2, <1>3, <1>4

LEMMA OneByteReads ==
  ASSUME NEW lo \in Words(1), NEW hi \in Words(1)
  PROVE  /\ Shaped(BytesAutomaton(lo, hi), 1)
         /\ \A x \in Words(1) : Reads(BytesAutomaton(lo, hi), x) <=> Between(x, lo, hi)
<1> DEFINE set == lo[1]..hi[1]
<1>1. /\ 1 \in 1..4 /\ 1 \in 1..1 /\ Base \in Int
      /\ \A i \in 1..1 : i = 1
  BY BaseFacts
<1>2. BytesAutomaton(lo, hi) = {<<set>>}
  <2>1. Len(lo) = 1
    BY <1>1, WordFacts
  <2> QED
    BY <2>1, AutomatonOfOne DEF OneByteAutomaton
<1>3. lo[1] \in Int /\ hi[1] \in Int /\ Number(lo, Base) = lo[1] /\ Number(hi, Base) = hi[1]
  BY <1>1, WordFacts, NumberOfOne
<1>4. set \in SUBSET Int
  BY <1>3
<1>5. ASSUME NEW x \in Words(1) PROVE Reads({<<set>>}, x) <=> Between(x, lo, hi)
  <2>1. Number(x, Base) = x[1] /\ x[1] \in Int /\ Len(x) = 1
    BY <1>1, WordFacts, NumberOfOne
  <2>2. Between(x, lo, hi) <=> x[1] \in set
    BY <1>3, <2>1 DEF Between
  <2> HIDE DEF set
  <2>3. Len(<<set>>) = 1 /\ <<set>>[1] = set
    OBVIOUS
  <2>4. Reads({<<set>>}, x) <=> x[1] \in set
    BY <1>1, <2>1, <2>3 DEF Reads
  <2> QED
    BY <2>2, <2>4
<1> HIDE DEF set
<1>6. Shaped({<<set>>}, 1)
  <2> DEFINE one == <<set>>
  <2>1. one \in Seq(SUBSET Int) /\ Len(one) = 1
    BY <1>4
  <2> HIDE DEF one
  <2>2. Shaped({one}, 1)
    BY <2>1 DEF Shaped
  <2> QED
    BY <2>2 DEF one
<1> QED
  BY <1>2, <1>5, <1>6

LEMMA CompleteStep ==
  ASSUME NEW n \in 2..4, IsComplete(n - 1)
  PROVE  IsComplete(n)
<1> SUFFICES ASSUME NEW lo \in Words(n), NEW hi \in Words(n)
             PROVE  /\ Shaped(BytesAutomaton(lo, hi), n)
                    /\ \A x \in Words(n) :
                         Between(x, lo, hi) => Reads(BytesAutomaton(lo, hi), x)
  BY DEF IsComplete
<1> DEFINE rest == BytesAutomaton(Tail(lo), Tail(hi))
           middle == BytesAutomaton(After(lo), Before(hi))
<1>1. /\ Tail(lo) \in Words(n - 1) /\ Tail(hi) \in Words(n - 1)
      /\ After(lo) \in Words(n - 1) /\ Before(hi) \in Words(n - 1)
  BY ShorterWords
<1>2. Shaped(rest, n - 1) /\ Shaped(middle, n - 1)
  BY <1>1 DEF IsComplete
<1>3. BytesAutomaton(lo, hi) = LongerAutomaton(lo, hi, rest, middle)
  BY AutomatonOfMore
<1>4. ASSUME NEW x \in Words(n)
      PROVE  /\ Between(Tail(x), Tail(lo), Tail(hi)) => Reads(rest, Tail(x))
             /\ Between(Front(x), After(lo), Before(hi)) => Reads(middle, Front(x))
  <2>1. Tail(x) \in Words(n - 1) /\ Front(x) \in Words(n - 1)
    BY ShorterWords
  <2> QED
    BY <1>1, <2>1 DEF IsComplete
<1> HIDE DEF rest, middle
<1>5. Shaped(LongerAutomaton(lo, hi, rest, middle), n)
  BY <1>2, LongerReads
<1>6. \A x \in Words(n) :
        Between(x, lo, hi) => Reads(LongerAutomaton(lo, hi, rest, middle), x)
  BY <1>2, <1>4, LongerReadsAll
<1> QED
  BY <1>3, <1>5, <1>6

LEMMA BytesAutomatonIsComplete ==
  ASSUME NEW n \in 1..4
  PROVE  IsComplete(n)
<1>1. IsComplete(1)
  BY OneByteReads DEF IsComplete
<1>2. IsComplete(2)
  BY <1>1, CompleteStep
<1>3. IsComplete(3)
  BY <1>2, CompleteStep
<1>4. IsComplete(4)
  BY <1>3, CompleteStep
<1> QED
  BY <1>1, <1>2, <1>3, <1>4

\* The rest of two words with the same first byte is joined as they are.
LEMMA NoCarriesInTail ==
  ASSUME NEW n \in 2..4, NEW lo \in Words(n), NEW hi \in Words(n),
         NoCarries(n, lo, hi), lo[1] = hi[1]
  PROVE  NoCarries(n - 1, Tail(lo), Tail(hi))
<1>1. CASE n # 4
  BY <1>1 DEF NoCarries
<1>2. CASE n = 4
  <2>1. /\ n \in 3..4 /\ n \in 2..4 /\ n - 1 \in 2..4 /\ 4 - 1 = 3 /\ 3 - 1 = 2 /\ 4 - 2 = 2
        /\ 1 \in 1..3 /\ 2 \in 1..3 /\ 2 + 1 = 3 /\ 3 \in 3..4 /\ ~(3 = 4)
    BY <1>2
  <2>2. /\ Front(lo) \in Words(3) /\ Front(hi) \in Words(3)
        /\ Front(lo)[1] = lo[1] /\ Front(hi)[1] = hi[1]
    BY <1>2, <2>1, FrontFacts
  <2>3. Number(Front(hi), Base) - Number(Front(lo), Base)
          = Number(Tail(Front(hi)), Base) - Number(Tail(Front(lo)), Base)
    BY <2>1, <2>2, TailsTell DEF TailsDecide
  <2>4. Tail(Front(hi)) = Front(Tail(hi)) /\ Tail(Front(lo)) = Front(Tail(lo))
    BY <2>1, TailOfFront
  <2>5. Tail(hi)[2] = hi[3]
    <3>1. \A i \in 1..n - 1 : Tail(hi)[i] = hi[i + 1]
      BY TailFacts
    <3>2. 2 \in 1..n - 1
      BY <1>2
    <3> QED
      BY <2>1, <3>1, <3>2
  <2>6. /\ Number(Front(lo), Base) \in Int /\ Number(Front(hi), Base) \in Int
        /\ Number(Front(Tail(lo)), Base) \in Int /\ Number(Front(Tail(hi)), Base) \in Int
    <3>1. 3 \in 1..4 /\ 2 \in 1..4 /\ Base \in Int
      BY BaseFacts
    <3>2. Tail(Front(lo)) \in Words(2) /\ Tail(Front(hi)) \in Words(2)
      BY <1>2, <2>1, TailOfFront
    <3> QED
      BY <2>2, <2>4, <3>1, <3>2, NumberIsInt
  <2>7. Joined(3, Tail(lo), Tail(hi)) => Joined(4, lo, hi)
    <3> SUFFICES ASSUME Joined(3, Tail(lo), Tail(hi)) PROVE Joined(4, lo, hi)
      OBVIOUS
    <3>1. /\ Number(Front(Tail(hi)), Base) = Number(Front(Tail(lo)), Base) + 1
          /\ hi[3] = 0
      BY <2>1, <2>5 DEF Joined
    <3>2. Number(Front(hi), Base) = Number(Front(lo), Base) + 1
      <4> DEFINE a == Number(Front(lo), Base)
                 b == Number(Front(hi), Base)
                 c == Number(Front(Tail(lo)), Base)
                 d == Number(Front(Tail(hi)), Base)
      <4>1. b - a = d - c
        BY <2>3, <2>4
      <4>2. d = c + 1 /\ a \in Int /\ b \in Int /\ c \in Int /\ d \in Int
        BY <2>6, <3>1
      <4> HIDE DEF a, b, c, d
      <4>3. b = a + 1
        BY <4>1, <4>2
      <4> QED
        BY <4>3 DEF a, b
    <3> QED
      BY <2>1, <3>1, <3>2 DEF Joined
  <2> QED
    BY <1>2, <2>1, <2>7 DEF NoCarries
<1> QED
  BY <1>1, <1>2

LEMMA SoundStep ==
  ASSUME NEW n \in 2..4, IsSound(n - 1)
  PROVE  IsSound(n)
<1> SUFFICES ASSUME NEW lo \in Words(n), NEW hi \in Words(n),
                    Number(lo, Base) <= Number(hi, Base), NoCarries(n, lo, hi),
                    NEW x \in Words(n), Reads(BytesAutomaton(lo, hi), x)
             PROVE  Between(x, lo, hi)
  BY DEF IsSound
<1> DEFINE rest == BytesAutomaton(Tail(lo), Tail(hi))
           middle == BytesAutomaton(After(lo), Before(hi))
<1>1. /\ Tail(lo) \in Words(n - 1) /\ Tail(hi) \in Words(n - 1) /\ Tail(x) \in Words(n - 1)
      /\ After(lo) \in Words(n - 1) /\ Before(hi) \in Words(n - 1) /\ Front(x) \in Words(n - 1)
      /\ n - 1 \in 1..4 /\ Base \in Int /\ n \in 1..4
  BY ShorterWords, BaseFacts
<1>2. Shaped(rest, n - 1) /\ Shaped(middle, n - 1)
  BY <1>1, BytesAutomatonIsComplete DEF IsComplete
<1>3. BytesAutomaton(lo, hi) = LongerAutomaton(lo, hi, rest, middle)
  BY AutomatonOfMore
<1>4. ASSUME lo[1] = hi[1], Reads(rest, Tail(x))
      PROVE  Between(Tail(x), Tail(lo), Tail(hi))
  <2>1. Number(hi, Base) - Number(lo, Base) = Number(Tail(hi), Base) - Number(Tail(lo), Base)
    BY <1>4, TailsTell DEF TailsDecide
  <2>2. /\ Number(hi, Base) \in Int /\ Number(lo, Base) \in Int
        /\ Number(Tail(hi), Base) \in Int /\ Number(Tail(lo), Base) \in Int
    BY <1>1, NumberIsInt
  <2>3. Number(Tail(lo), Base) <= Number(Tail(hi), Base)
    BY <2>1, <2>2
  <2>4. NoCarries(n - 1, Tail(lo), Tail(hi))
    BY <1>4, NoCarriesInTail
  <2> QED
    BY <1>1, <1>4, <2>3, <2>4 DEF IsSound
<1>5. ASSUME lo[1] # hi[1], Reads(middle, Front(x)),
             Number(After(lo), Base) <= Number(Before(hi), Base)
      PROVE  Between(Front(x), After(lo), Before(hi))
  <2>1. NoCarries(n - 1, After(lo), Before(hi))
    <3>1. CASE n = 4
      BY <1>5, <3>1 DEF NoCarries
    <3>2. CASE n # 4
      BY <3>2 DEF NoCarries
    <3> QED
      BY <3>1, <3>2
  <2> QED
    BY <1>1, <1>5, <2>1 DEF IsSound
<1>6. n # 2 => ~Joined(n, lo, hi)
  BY DEF NoCarries
<1> HIDE DEF rest, middle
<1> QED
  BY <1>2, <1>3, <1>4, <1>5, <1>6, LongerReadsNoOther

LEMMA BytesAutomatonIsSound ==
  ASSUME NEW n \in 1..4
  PROVE  IsSound(n)
<1>1. IsSound(1)
  BY OneByteReads DEF IsSound
<1>2. IsSound(2)
  BY <1>1, SoundStep
<1>3. IsSound(3)
  BY <1>2, SoundStep
<1>4. IsSound(4)
  BY <1>3, SoundStep
<1> QED
  BY <1>1, <1>2, <1>3, <1>4

(***************************************************************************)
(* Encodings.                                                              *)
(***************************************************************************)
LEMMA Division ==
  ASSUME NEW p \in Nat
  PROVE  /\ p \div Base \in Nat /\ p % Base \in Digits
         /\ p = (p \div Base) * Base + (p % Base)
<1> DEFINE b == Base
<1>1. b \in Nat \ {0}
  BY BaseFacts
<1> HIDE DEF b
<1>2. /\ p \div b \in Int /\ p % b \in 0..b - 1
      /\ p = b * (p \div b) + (p % b)
  BY <1>1, SMT
<1>3. p \div b >= 0
  BY <1>1, SMT
<1>4. b * (p \div b) = (p \div b) * b
  BY <1>1, <1>2
<1> QED
  BY <1>2, <1>3, <1>4 DEF b, Digits

IsShifting(shifted, c, k) ==
  shifted = [n \in 0..k |-> IF n = 0 THEN c ELSE shifted[n - 1] \div Base]

LEMMA EncodeIsShifting ==
  ASSUME NEW c \in Nat, NEW k \in 1..4
  PROVE  \E s \in [0..k -> Nat] :
           /\ s[0] = c
           /\ \A n \in 1..k : s[n] = s[n - 1] \div Base
           /\ Encode(c, k) = [i \in 1..k |-> IF i = 1 THEN s[k - 1] ELSE s[k - i] % Base]
<1> DEFINE step == [p \in (1..k) \X Nat |-> p[2] \div Base]
<1>1. step \in [(1..k) \X Nat -> Nat]
  BY Division
<1>2. \A i \in 1..k, m \in Nat : step[<<i, m>>] = m \div Base
  OBVIOUS
<1> HIDE DEF step
<1>3. PICK f \in [0..k -> Nat] : Follows(f, k, c, step)
  <2>1. k \in Nat
    OBVIOUS
  <2> QED
    BY <1>1, <2>1, Recursion
<1>4. \A n \in 0..k : f[n] = IF n = 0 THEN c ELSE f[n - 1] \div Base
  <2> TAKE n \in 0..k
  <2>1. f[n] = IF n = 0 THEN c ELSE step[<<n, f[n - 1]>>]
    BY <1>3 DEF Follows
  <2>2. n # 0 => n \in 1..k /\ f[n - 1] \in Nat
    OBVIOUS
  <2> QED
    BY <1>2, <2>1, <2>2
<1>5. IsShifting(f, c, k)
  BY <1>4 DEF IsShifting
<1> DEFINE s == CHOOSE s : IsShifting(s, c, k)
<1>6. IsShifting(s, c, k)
  BY <1>5, Zenon
<1>7. Encode(c, k) = [i \in 1..k |-> IF i = 1 THEN s[k - 1] ELSE s[k - i] % Base]
  BY Zenon DEF Encode, IsShifting
<1> HIDE DEF s
<1>8. /\ s = [n \in 0..k |-> s[n]]
      /\ \A n \in 0..k : s[n] = IF n = 0 THEN c ELSE s[n - 1] \div Base
  BY <1>6 DEF IsShifting
<1>9. s[0] = c /\ \A n \in 1..k : s[n] = s[n - 1] \div Base
  <2>1. 0 \in 0..k /\ \A n \in 1..k : n \in 0..k /\ n # 0
    OBVIOUS
  <2> QED
    BY <1>8, <2>1
<1>10. \A n \in 0..k : s[n] \in Nat
  <2> DEFINE W == {n \in 0..k : s[n] \notin Nat}
  <2>1. SUFFICES ASSUME W # {} PROVE FALSE
    OBVIOUS
  <2>2. PICK n \in W : \A y \in W : ~(y < n)
    <3>1. W \subseteq Nat
      OBVIOUS
    <3> HIDE DEF W
    <3> QED
      BY <2>1, <3>1, LeastNumber
  <2>3. n \in 1..k /\ n - 1 \in 0..k /\ n - 1 < n
    BY <1>9
  <2>4. s[n - 1] \in Nat
    BY <2>2, <2>3
  <2>5. s[n] \in Nat
    BY <1>9, <2>3, <2>4, Division
  <2> QED
    BY <2>5
<1>11. s \in [0..k -> Nat]
  BY <1>8, <1>10
<1> QED
  BY <1>7, <1>9, <1>11

LEMMA EncodeFacts ==
  ASSUME NEW c \in Nat, NEW k \in 1..4
  PROVE  Encode(c, k) \in Words(k) /\ Number(Encode(c, k), Base) = c
<1>1. PICK s \in [0..k -> Nat] :
        /\ s[0] = c
        /\ \A n \in 1..k : s[n] = s[n - 1] \div Base
        /\ Encode(c, k) = [i \in 1..k |-> IF i = 1 THEN s[k - 1] ELSE s[k - i] % Base]
  BY EncodeIsShifting
<1> DEFINE x == Encode(c, k)
<1>2. \A n \in 0..k : s[n] \in Nat /\ s[n] % Base \in Digits
  BY Division
<1>3. \A i \in 1..k : k - i \in 0..k
  OBVIOUS
<1>4. Digits \subseteq Int /\ Base \in Int
  BY BaseFacts DEF Digits
<1>5. /\ x \in Seq(Int) /\ Len(x) = k
      /\ x[1] = s[k - 1]
      /\ \A i \in 2..k : x[i] = s[k - i] % Base /\ x[i] \in Digits
  <2>1. \A i \in 1..k : (IF i = 1 THEN s[k - 1] ELSE s[k - i] % Base) \in Int
    <3> TAKE i \in 1..k
    <3>1. k - 1 \in 0..k /\ k - i \in 0..k
      OBVIOUS
    <3>2. s[k - 1] \in Nat /\ s[k - i] % Base \in Digits
      <4> DEFINE a == k - 1
                 b == k - i
      <4>1. a \in 0..k /\ b \in 0..k
        BY <3>1
      <4> HIDE DEF a, b
      <4>2. s[a] \in Nat /\ s[b] % Base \in Digits
        BY <1>2, <4>1
      <4> QED
        BY <4>2 DEF a, b
    <3> DEFINE u == s[k - 1]
               v == s[k - i] % Base
    <3>3. u \in Nat /\ v \in Digits
      BY <3>2
    <3> HIDE DEF u, v
    <3>4. (IF i = 1 THEN u ELSE v) \in Int
      BY <1>4, <3>3
    <3> QED
      BY <3>4 DEF u, v
  <2>2. k \in Nat /\ 1 \in 1..k /\ \A i \in 2..k : i \in 1..k /\ i # 1
    OBVIOUS
  <2> QED
    BY <1>1, <1>2, <1>3, <2>1, <2>2
<1> HIDE DEF x
<1>6. x \in Words(k)
  BY <1>5 DEF Words
<1>7. PICK r \in [0..k -> Int] :
        /\ r[0] = 0
        /\ \A i \in 1..k : r[i] = r[i - 1] * Base + x[i]
        /\ Number(x, Base) = r[k]
  BY <1>4, <1>5, NumberIsReading
<1>8. r[1] = s[k - 1]
  <2>1. r[1] = 0 * Base + x[1] /\ x[1] \in Int
    BY <1>2, <1>5, <1>7
  <2> QED
    BY <1>4, <1>5, <2>1
<1>9. ASSUME NEW i \in 2..k, r[i - 1] = s[k - i + 1] PROVE r[i] = s[k - i]
  <2> DEFINE m == s[k - i]
  <2>1. m \in Nat /\ i \in 1..k /\ k - i + 1 \in 1..k /\ (k - i + 1) - 1 = k - i
    BY <1>2
  <2>2. s[k - i + 1] = m \div Base
    BY <1>1, <2>1
  <2>3. r[i] = r[i - 1] * Base + x[i] /\ x[i] = m % Base
    BY <1>5, <1>7, <2>1
  <2> HIDE DEF m
  <2>4. r[i] = (m \div Base) * Base + (m % Base)
    BY <1>9, <2>2, <2>3
  <2>5. r[i] = m
    BY <2>1, <2>4, Division
  <2> QED
    BY <2>5 DEF m
<1>10. 2 <= k => r[2] = s[k - 2]
  <2> SUFFICES ASSUME 2 <= k PROVE r[2] = s[k - 2]
    OBVIOUS
  <2>1. 2 \in 2..k /\ 2 - 1 = 1 /\ k - 2 + 1 = k - 1
    OBVIOUS
  <2> QED
    BY <1>8, <1>9, <2>1
<1>11. 3 <= k => r[3] = s[k - 3]
  <2> SUFFICES ASSUME 3 <= k PROVE r[3] = s[k - 3]
    OBVIOUS
  <2>1. 3 \in 2..k /\ 3 - 1 = 2 /\ k - 3 + 1 = k - 2 /\ 2 <= k
    OBVIOUS
  <2> QED
    BY <1>9, <1>10, <2>1
<1>12. 4 <= k => r[4] = s[k - 4]
  <2> SUFFICES ASSUME 4 <= k PROVE r[4] = s[k - 4]
    OBVIOUS
  <2>1. 4 \in 2..k /\ 4 - 1 = 3 /\ k - 4 + 1 = k - 3 /\ 3 <= k
    OBVIOUS
  <2> QED
    BY <1>9, <1>11, <2>1
<1>13. r[k] = s[0]
  <2>1. k = 1 \/ k = 2 \/ k = 3 \/ k = 4
    OBVIOUS
  <2> QED
    BY <1>8, <1>10, <1>11, <1>12, <2>1
<1> QED
  BY <1>1, <1>6, <1>7, <1>13 DEF x

(***************************************************************************)
(* Each code point has one length.                                         *)
(***************************************************************************)
LEMMA Lengths ==
  /\ Len(FirstOfLength) \in 1..4
  /\ \A k \in 1..Len(FirstOfLength) :
       /\ k \in 1..4 /\ FirstOfLength[k] \in CodePoints
       /\ FirstOfLength[k] \in Nat
       /\ LastOfLength(k) \in CodePoints /\ LastOfLength(k) \in Nat
       /\ FirstOfLength[k] <= LastOfLength(k)
       /\ k < Len(FirstOfLength) => FirstOfLength[k + 1] = LastOfLength(k) + 1
  /\ LastOfLength(Len(FirstOfLength)) = MaxCodePoint
  /\ FirstOfLength[1] = 0
<1> DEFINE n == Len(FirstOfLength)
<1>1. n \in 1..4 /\ FirstOfLength[1] = 0 /\ MaxCodePoint \in Nat
  BY EncodingAssumption
<1>2. \A k \in 1..n : FirstOfLength[k] \in Nat /\ FirstOfLength[k] <= MaxCodePoint
  BY EncodingAssumption
<1>3. \A k \in 2..n : FirstOfLength[k - 1] < FirstOfLength[k]
  BY EncodingAssumption
<1> HIDE DEF n
<1>4. ASSUME NEW k \in 1..n
      PROVE  /\ k \in 1..4 /\ FirstOfLength[k] \in CodePoints
             /\ FirstOfLength[k] \in Nat
             /\ LastOfLength(k) \in CodePoints /\ LastOfLength(k) \in Nat
             /\ FirstOfLength[k] <= LastOfLength(k)
             /\ k < n => FirstOfLength[k + 1] = LastOfLength(k) + 1
  <2>1. k \in 1..4 /\ FirstOfLength[k] \in Nat /\ FirstOfLength[k] <= MaxCodePoint
    BY <1>1, <1>2
  <2>2. CASE k < n
    <3>1. k + 1 \in 1..n /\ k + 1 \in 2..n /\ (k + 1) - 1 = k
      BY <1>1, <2>2
    <3>2. LastOfLength(k) = FirstOfLength[k + 1] - 1
      BY <2>2 DEF LastOfLength, n
    <3>3. /\ FirstOfLength[k + 1] \in Nat /\ FirstOfLength[k + 1] <= MaxCodePoint
          /\ FirstOfLength[k] < FirstOfLength[k + 1]
      BY <1>2, <1>3, <3>1
    <3> QED
      BY <1>1, <2>1, <2>2, <3>2, <3>3 DEF CodePoints
  <2>3. CASE ~(k < n)
    <3>1. LastOfLength(k) = MaxCodePoint
      BY <2>3 DEF LastOfLength, n
    <3> QED
      BY <1>1, <2>1, <2>3, <3>1 DEF CodePoints
  <2> QED
    BY <2>2, <2>3
<1>5. LastOfLength(n) = MaxCodePoint
  BY <1>1 DEF LastOfLength, n
<1> QED
  BY <1>1, <1>4, <1>5 DEF n

IsOfLength(c, k) == FirstOfLength[k] <= c /\ c <= LastOfLength(k)

LEMMA OneLength ==
  ASSUME NEW c \in CodePoints
  PROVE  /\ LengthOf(c) \in 1..Len(FirstOfLength)
         /\ IsOfLength(c, LengthOf(c))
         /\ \A k \in 1..Len(FirstOfLength) : IsOfLength(c, k) => k = LengthOf(c)
<1> DEFINE n == Len(FirstOfLength)
           Is(k) == FirstOfLength[k] <= c /\ (k < n => c < FirstOfLength[k + 1])
<1>1. c \in Nat /\ c <= MaxCodePoint /\ MaxCodePoint \in Nat
  BY EncodingAssumption DEF CodePoints
<1>2. n \in 1..4 /\ LastOfLength(n) = MaxCodePoint /\ FirstOfLength[1] = 0
  BY Lengths
<1>3. \A k \in 1..n : /\ FirstOfLength[k] \in Nat /\ LastOfLength(k) \in Nat
                      /\ FirstOfLength[k] <= LastOfLength(k)
                      /\ k < n => FirstOfLength[k + 1] = LastOfLength(k) + 1
  BY Lengths
<1>4. LengthOf(c) = CHOOSE k \in 1..n : Is(k)
  BY DEF LengthOf
<1> HIDE DEF n
<1>5. \A k \in 1..n : Is(k) <=> IsOfLength(c, k)
  <2> TAKE k \in 1..n
  <2>1. CASE k < n
    BY <1>1, <1>3, <2>1 DEF IsOfLength
  <2>2. CASE ~(k < n)
    <3>1. k = n
      BY <1>2, <2>2
    <3> QED
      BY <1>1, <1>2, <2>2, <3>1 DEF IsOfLength
  <2> QED
    BY <2>1, <2>2
<1>6. \E k \in 1..n : IsOfLength(c, k)
  <2> DEFINE S == {k \in 1..n : FirstOfLength[k] <= c}
  <2>1. 1 \in S /\ S \subseteq Int /\ S # {} /\ 4 \in Int /\ \A k \in S : k <= 4
    BY <1>1, <1>2
  <2> HIDE DEF S
  <2>2. Max(S) \in S /\ \A k \in S : k <= Max(S)
    BY <2>1, GreatestNumber
  <2> DEFINE m == Max(S)
  <2>3. m \in 1..n /\ FirstOfLength[m] <= c /\ \A k \in 1..n : FirstOfLength[k] <= c => k <= m
    BY <2>2 DEF S
  <2> HIDE DEF m
  <2>4. CASE m < n
    <3>1. m + 1 \in 1..n /\ ~(m + 1 <= m)
      BY <1>2, <2>3, <2>4
    <3>2. ~(FirstOfLength[m + 1] <= c)
      BY <2>3, <3>1
    <3> QED
      BY <1>1, <1>3, <2>3, <2>4, <3>1, <3>2 DEF IsOfLength
  <2>5. CASE ~(m < n)
    <3>1. m = n
      BY <1>2, <2>3, <2>5
    <3> QED
      BY <1>1, <1>2, <2>3, <3>1 DEF IsOfLength
  <2> QED
    BY <2>4, <2>5
<1>7. \A j \in 1..n, k \in 1..n : j < k => LastOfLength(j) < FirstOfLength[k]
  <2>1. \A k \in 1..n : k + 1 \in 1..n => LastOfLength(k) < FirstOfLength[k + 1]
    BY <1>2, <1>3
  <2>2. \A k \in 1..n : k + 2 \in 1..n => LastOfLength(k) < FirstOfLength[k + 2]
    <3> TAKE k \in 1..n
    <3> SUFFICES ASSUME k + 2 \in 1..n PROVE LastOfLength(k) < FirstOfLength[k + 2]
      OBVIOUS
    <3>1. k + 1 \in 1..n /\ (k + 1) + 1 = k + 2
      BY <1>2
    <3>2. LastOfLength(k) < FirstOfLength[k + 1] /\ LastOfLength(k + 1) < FirstOfLength[k + 2]
      BY <2>1, <3>1
    <3> QED
      BY <1>3, <3>1, <3>2
  <2>3. \A k \in 1..n : k + 3 \in 1..n => LastOfLength(k) < FirstOfLength[k + 3]
    <3> TAKE k \in 1..n
    <3> SUFFICES ASSUME k + 3 \in 1..n PROVE LastOfLength(k) < FirstOfLength[k + 3]
      OBVIOUS
    <3>1. k + 2 \in 1..n /\ (k + 2) + 1 = k + 3
      BY <1>2
    <3>2. LastOfLength(k) < FirstOfLength[k + 2] /\ LastOfLength(k + 2) < FirstOfLength[k + 3]
      BY <2>1, <2>2, <3>1
    <3> QED
      BY <1>3, <3>1, <3>2
  <2> TAKE j \in 1..n, k \in 1..n
  <2> SUFFICES ASSUME j < k PROVE LastOfLength(j) < FirstOfLength[k]
    OBVIOUS
  <2>4. k = j + 1 \/ k = j + 2 \/ k = j + 3
    BY <1>2
  <2> QED
    BY <2>1, <2>2, <2>3, <2>4
<1>8. \A j \in 1..n, k \in 1..n : IsOfLength(c, j) /\ IsOfLength(c, k) => j = k
  <2> TAKE j \in 1..n, k \in 1..n
  <2> SUFFICES ASSUME IsOfLength(c, j), IsOfLength(c, k), j # k PROVE FALSE
    OBVIOUS
  <2>1. /\ FirstOfLength[j] <= c /\ c <= LastOfLength(j)
        /\ FirstOfLength[k] <= c /\ c <= LastOfLength(k)
    BY DEF IsOfLength
  <2>2. j < k \/ k < j
    BY <1>2
  <2> QED
    BY <1>1, <1>3, <1>7, <2>1, <2>2
<1>9. \E k \in 1..n : Is(k)
  BY <1>5, <1>6
<1> HIDE DEF Is
<1>10. LengthOf(c) \in 1..n /\ Is(LengthOf(c))
  BY <1>4, <1>9
<1> QED
  BY <1>5, <1>8, <1>10 DEF n

LEMMA CodePointIsRead ==
  ASSUME NEW c \in CodePoints
  PROVE  /\ CurrentCodepoint(c) = c
         /\ Encode(c, LengthOf(c)) \in Words(LengthOf(c))
         /\ Number(Encode(c, LengthOf(c)), Base) = c
         /\ LengthOf(c) \in 1..4
<1>1. c \in Nat /\ LengthOf(c) \in 1..4
  <2>1. c \in Nat
    BY EncodingAssumption DEF CodePoints
  <2>2. LengthOf(c) \in 1..Len(FirstOfLength)
    BY OneLength
  <2> QED
    BY <2>1, <2>2, Lengths
<1> QED
  BY <1>1, EncodeFacts DEF CurrentCodepoint, Decode

(***************************************************************************)
(* The automaton of a range: of each length, the part of the range.        *)
(***************************************************************************)
LEMMA MaxOfTwo ==
  ASSUME NEW a \in Int, NEW b \in Int
  PROVE  Max({a, b}) \in {a, b} /\ a <= Max({a, b}) /\ b <= Max({a, b})
<1> DEFINE S == {a, b}
           m == IF a <= b THEN b ELSE a
<1>1. S \subseteq Int /\ S # {} /\ m \in Int /\ (\A x \in S : x <= m) /\ a \in S /\ b \in S
  OBVIOUS
<1> HIDE DEF S, m
<1>2. Max(S) \in S /\ \A x \in S : x <= Max(S)
  BY <1>1, GreatestNumber
<1> QED
  BY <1>1, <1>2 DEF S

LEMMA MinOfTwo ==
  ASSUME NEW a \in Int, NEW b \in Int
  PROVE  Min({a, b}) \in {a, b} /\ Min({a, b}) <= a /\ Min({a, b}) <= b
<1> DEFINE S == {a, b}
           m == IF a <= b THEN a ELSE b
<1>1. S \subseteq Int /\ S # {} /\ m \in Int /\ (\A x \in S : m <= x) /\ a \in S /\ b \in S
  OBVIOUS
<1> HIDE DEF S, m
<1>2. Min(S) \in S /\ \A x \in S : Min(S) <= x
  BY <1>1, LeastOfNumbers
<1> QED
  BY <1>1, <1>2 DEF S

IsRange(r) ==
  r[1] \in CodePoints /\ r[2] \in CodePoints /\ r[1] <= r[2]

PartMeets(r, k) == Meets(r, FirstOfLength[k], LastOfLength(k))
Lowest(r, k) == Max({r[1], FirstOfLength[k]})
Highest(r, k) == Min({r[2], LastOfLength(k)})
PartAutomaton(r, k) == BytesAutomaton(Encode(Lowest(r, k), k), Encode(Highest(r, k), k))
PartIsApart(r, k) == NoCarries(k, Encode(Lowest(r, k), k), Encode(Highest(r, k), k))

LEMMA PartFacts ==
  ASSUME NEW r, IsRange(r), NEW k \in 1..Len(FirstOfLength), PartMeets(r, k)
  PROVE  /\ Lowest(r, k) \in Nat /\ Highest(r, k) \in Nat
         /\ Lowest(r, k) <= Highest(r, k)
         /\ r[1] <= Lowest(r, k) /\ FirstOfLength[k] <= Lowest(r, k)
         /\ Lowest(r, k) = r[1] \/ Lowest(r, k) = FirstOfLength[k]
         /\ Highest(r, k) <= r[2] /\ Highest(r, k) <= LastOfLength(k)
         /\ Highest(r, k) = r[2] \/ Highest(r, k) = LastOfLength(k)
<1> DEFINE a == r[1]
           b == r[2]
           f == FirstOfLength[k]
           l == LastOfLength(k)
<1>1. a \in Nat /\ b \in Nat /\ a <= b
  BY EncodingAssumption DEF IsRange, CodePoints
<1>2. f \in Nat /\ l \in Nat /\ f <= l
  BY Lengths
<1>3. a <= l /\ f <= b
  BY DEF PartMeets, Meets
<1>4. Lowest(r, k) = Max({a, f}) /\ Highest(r, k) = Min({b, l})
  BY DEF Lowest, Highest
<1> HIDE DEF a, b, f, l
<1>5. Max({a, f}) \in {a, f} /\ a <= Max({a, f}) /\ f <= Max({a, f})
  <2>1. a \in Int /\ f \in Int
    BY <1>1, <1>2
  <2> QED
    BY <2>1, MaxOfTwo
<1>6. Min({b, l}) \in {b, l} /\ Min({b, l}) <= b /\ Min({b, l}) <= l
  BY <1>1, <1>2, MinOfTwo
<1>7. /\ Lowest(r, k) \in Nat /\ Highest(r, k) \in Nat
      /\ Lowest(r, k) <= Highest(r, k)
      /\ a <= Lowest(r, k) /\ f <= Lowest(r, k)
      /\ Lowest(r, k) = a \/ Lowest(r, k) = f
      /\ Highest(r, k) <= b /\ Highest(r, k) <= l
      /\ Highest(r, k) = b \/ Highest(r, k) = l
  BY <1>1, <1>2, <1>3, <1>4, <1>5, <1>6
<1> QED
  BY <1>7 DEF a, b, f, l

LEMMA RangeReads ==
  ASSUME NEW r, IsRange(r), NEW c \in CodePoints
  PROVE  /\ c \in r[1]..r[2] => Reads(RangeAutomaton(r), Encode(c, LengthOf(c)))
         /\ ((\A k \in 1..Len(FirstOfLength) : PartMeets(r, k) => PartIsApart(r, k))
               /\ Reads(RangeAutomaton(r), Encode(c, LengthOf(c))))
             => c \in r[1]..r[2]
<1> DEFINE m == LengthOf(c)
           x == Encode(c, m)
           n == Len(FirstOfLength)
<1>1. x \in Words(m) /\ Number(x, Base) = c /\ m \in 1..4
  BY CodePointIsRead
<1>2. m \in 1..n /\ IsOfLength(c, m)
  BY OneLength
<1>3. c \in Nat /\ r[1] \in Nat /\ r[2] \in Nat
  BY EncodingAssumption DEF CodePoints, IsRange
<1>4. FirstOfLength[m] \in Nat /\ LastOfLength(m) \in Nat
  BY <1>2, Lengths
<1>5. FirstOfLength[m] <= c /\ c <= LastOfLength(m)
  BY <1>2 DEF IsOfLength
<1> DEFINE parts == {k \in 1..n : PartMeets(r, k)}
<1>6. RangeAutomaton(r) = UNION {PartAutomaton(r, k) : k \in parts}
  BY DEF RangeAutomaton, PartAutomaton, PartMeets, Lowest, Highest
<1> HIDE DEF m, x
<1>7. ASSUME NEW k \in parts
      PROVE  /\ k \in 1..4
             /\ Encode(Lowest(r, k), k) \in Words(k) /\ Number(Encode(Lowest(r, k), k), Base) = Lowest(r, k)
             /\ Encode(Highest(r, k), k) \in Words(k) /\ Number(Encode(Highest(r, k), k), Base) = Highest(r, k)
             /\ Shaped(PartAutomaton(r, k), k)
  <2>1. k \in 1..n /\ PartMeets(r, k) /\ k \in 1..4
    BY Lengths
  <2>2. Lowest(r, k) \in Nat /\ Highest(r, k) \in Nat
    BY <2>1, PartFacts
  <2>3. /\ Encode(Lowest(r, k), k) \in Words(k) /\ Number(Encode(Lowest(r, k), k), Base) = Lowest(r, k)
        /\ Encode(Highest(r, k), k) \in Words(k) /\ Number(Encode(Highest(r, k), k), Base) = Highest(r, k)
    BY <2>1, <2>2, EncodeFacts
  <2>4. Shaped(PartAutomaton(r, k), k)
    BY <2>1, <2>3, BytesAutomatonIsComplete DEF IsComplete, PartAutomaton
  <2> QED
    BY <2>1, <2>3, <2>4
<1>8. Len(x) = m
  BY <1>1, WordFacts
<1>9. Reads(RangeAutomaton(r), x) <=> m \in parts /\ Reads(PartAutomaton(r, m), x)
  <2>1. ASSUME NEW k \in parts, Reads(PartAutomaton(r, k), x) PROVE k = m
    <3>1. PICK sets \in PartAutomaton(r, k) : Len(sets) = Len(x)
      BY <2>1 DEF Reads
    <3>2. Len(sets) = k
      BY <1>7, <3>1 DEF Shaped
    <3> QED
      BY <1>8, <3>1, <3>2
  <2>2. Reads(RangeAutomaton(r), x) <=> \E k \in parts : Reads(PartAutomaton(r, k), x)
    <3> HIDE DEF parts
    <3> QED
      BY <1>6 DEF Reads
  <2> HIDE DEF parts
  <2> QED
    BY <2>1, <2>2
<1>10. ASSUME m \in parts
       PROVE  Between(x, Encode(Lowest(r, m), m), Encode(Highest(r, m), m))
                <=> Lowest(r, m) <= c /\ c <= Highest(r, m)
  BY <1>1, <1>7, <1>10 DEF Between
<1>11. ASSUME c \in r[1]..r[2] PROVE Reads(RangeAutomaton(r), x)
  <2>1. PartMeets(r, m)
    BY <1>3, <1>4, <1>5, <1>11 DEF PartMeets, Meets
  <2>2. m \in parts
    BY <1>2, <2>1
  <2>3. Lowest(r, m) <= c /\ c <= Highest(r, m)
    BY <1>2, <1>3, <1>5, <1>11, <2>1, PartFacts
  <2>4. Reads(PartAutomaton(r, m), x)
    BY <1>1, <1>7, <1>10, <2>2, <2>3, BytesAutomatonIsComplete DEF IsComplete, PartAutomaton
  <2> QED
    BY <1>9, <2>2, <2>4
<1>12. ASSUME \A k \in 1..n : PartMeets(r, k) => PartIsApart(r, k),
              Reads(RangeAutomaton(r), x)
       PROVE  c \in r[1]..r[2]
  <2>1. m \in parts /\ m \in 1..n /\ PartMeets(r, m) /\ Reads(PartAutomaton(r, m), x)
    BY <1>9, <1>12
  <2>2. PartIsApart(r, m)
    BY <1>12, <2>1
  <2>3. /\ r[1] <= Lowest(r, m) /\ Highest(r, m) <= r[2]
        /\ Lowest(r, m) \in Nat /\ Highest(r, m) \in Nat /\ Lowest(r, m) <= Highest(r, m)
    BY <2>1, PartFacts
  <2>4. Between(x, Encode(Lowest(r, m), m), Encode(Highest(r, m), m))
    BY <1>1, <1>7, <2>1, <2>2, <2>3, BytesAutomatonIsSound
       DEF IsSound, PartAutomaton, PartIsApart
  <2> QED
    BY <1>3, <1>10, <2>1, <2>3, <2>4
<1> QED
  BY <1>11, <1>12 DEF m, x

LEMMA Quotient ==
  ASSUME NEW p \in Nat, NEW q \in Int, NEW e \in Digits, p = q * Base + e
  PROVE  q = p \div Base /\ e = p % Base
<1> DEFINE b == Base
           s == p \div Base
           d == p % Base
<1>1. b \in Nat /\ b >= 2 /\ e \in Int /\ e >= 0 /\ e <= b - 1
  BY BaseFacts DEF Digits
<1>2. s \in Int /\ d \in Int /\ d >= 0 /\ d <= b - 1 /\ q * b + e = s * b + d
  BY Division, BaseFacts DEF Digits
<1> HIDE DEF b, s, d
<1>3. ~(q < s)
  <2> SUFFICES ASSUME q < s PROVE FALSE
    OBVIOUS
  <2>1. q * b + b <= s * b /\ q * b \in Int /\ s * b \in Int
    BY <1>1, <1>2, Multiples
  <2> QED
    BY <1>1, <1>2, <2>1
<1>4. ~(s < q)
  <2> SUFFICES ASSUME s < q PROVE FALSE
    OBVIOUS
  <2>1. s * b + b <= q * b /\ q * b \in Int /\ s * b \in Int
    BY <1>1, <1>2, Multiples
  <2> QED
    BY <1>1, <1>2, <2>1
<1>5. q = s
  BY <1>2, <1>3, <1>4
<1>6. q * b \in Int
  BY <1>1
<1>7. e = d
  BY <1>1, <1>2, <1>5, <1>6
<1> QED
  BY <1>5, <1>7 DEF s, d

\* The prefix of an encoding, and what it ends with.
LEMMA PrefixValue ==
  ASSUME NEW k \in 2..4, NEW x \in Words(k), NEW c \in Nat, Number(x, Base) = c
  PROVE  Number(Front(x), Base) = c \div Base /\ Number(Front(x), Base) \in Nat
<1>1. Number(x, Base) = Number(Front(x), Base) * Base + x[k] /\ Number(Front(x), Base) \in Int
  BY NumberOfFront, BaseFacts
<1>2. x[k] \in Digits
  BY DEF Words
<1>3. Number(Front(x), Base) = c \div Base
  BY <1>1, <1>2, Quotient
<1> QED
  BY <1>3, Division

LEMMA JoinedCarries ==
  ASSUME NEW k \in 3..4, NEW lo \in Words(k), NEW hi \in Words(k),
         NEW c \in Nat, NEW d \in Nat, Number(lo, Base) = c, Number(hi, Base) = d,
         Joined(k, lo, hi)
  PROVE  Carries(c, d)
<1>1. k \in 2..4 /\ k - 1 \in 2..4 /\ k - 1 \in 1..k - 1
  OBVIOUS
<1>2. /\ Number(Front(lo), Base) = c \div Base
      /\ Number(Front(hi), Base) = d \div Base /\ Number(Front(hi), Base) \in Nat
  BY <1>1, PrefixValue
<1>3. d \div Base = c \div Base + 1 /\ hi[k - 1] = 0
  BY <1>2 DEF Joined
<1> DEFINE high == Front(hi)
           m == k - 1
<1>4. high \in Words(m) /\ high[m] = 0 /\ m \in 2..4
  BY <1>1, <1>3, FrontFacts
<1>5. Number(high, Base) \in Nat
  BY <1>2
<1> HIDE DEF high, m
<1>6. /\ Number(high, Base) = Number(Front(high), Base) * Base + high[m]
      /\ Number(Front(high), Base) \in Int
  BY <1>4, NumberOfFront, BaseFacts
<1>7. high[m] \in Digits
  BY <1>4 DEF Words
<1>8. Number(high, Base) % Base = 0
  BY <1>4, <1>5, <1>6, <1>7, Quotient
<1>9. (d \div Base) % Base = 0
  BY <1>2, <1>8 DEF high
<1> QED
  BY <1>3, <1>9 DEF Carries

(***************************************************************************)
(* The automaton of a class, of a literal and of the dot.                  *)
(***************************************************************************)
AreRanges(rs) == \A r \in rs : r \in CodePoints \X CodePoints /\ r[1] <= r[2]
AreApart(rs) == \A r, s \in rs : r # s => r[2] + 1 < s[1] \/ s[2] + 1 < r[1]
Covers(rs, c) == \E r \in rs : r[1] <= c /\ c <= r[2]

LEMMA RangeFacts ==
  ASSUME NEW rs, AreRanges(rs), NEW r \in rs
  PROVE  /\ IsRange(r) /\ r[1] \in Nat /\ r[2] \in Nat /\ r[1] <= r[2]
         /\ r[1] <= MaxCodePoint /\ r[2] <= MaxCodePoint /\ r = <<r[1], r[2]>>
         /\ MaxCodePoint \in Nat
BY EncodingAssumption DEF AreRanges, IsRange, CodePoints

LEMMA PartsAreApart ==
  ASSUME NEW rs, AreRanges(rs), AreApart(rs), \A c \in Int : c \in class <=> Covers(rs, c),
         NEW r \in rs, NEW k \in 1..Len(FirstOfLength), PartMeets(r, k), ~JoinedByCarry(k)
  PROVE  PartIsApart(r, k)
<1> DEFINE c == Lowest(r, k)
           d == Highest(r, k)
           lo == Encode(c, k)
           hi == Encode(d, k)
<1>1. IsRange(r) /\ r[1] \in Nat /\ r[2] \in Nat /\ r[1] <= r[2]
  BY RangeFacts
<1>2. /\ c \in Nat /\ d \in Nat /\ c <= d
      /\ r[1] <= c /\ FirstOfLength[k] <= c /\ (c = r[1] \/ c = FirstOfLength[k])
      /\ d <= r[2] /\ d <= LastOfLength(k) /\ (d = r[2] \/ d = LastOfLength(k))
  BY <1>1, PartFacts
<1>3. k \in 1..4 /\ FirstOfLength[k] \in Nat /\ LastOfLength(k) \in Nat
  BY Lengths
<1>4. /\ lo \in Words(k) /\ Number(lo, Base) = c
      /\ hi \in Words(k) /\ Number(hi, Base) = d
  BY <1>2, <1>3, EncodeFacts
<1> HIDE DEF c, d
<1>5. c..d \subseteq class /\ c \in class /\ d \in class
  BY <1>1, <1>2 DEF Covers
<1>6. /\ c \in FirstOfLength[k]..LastOfLength(k)
      /\ d \in FirstOfLength[k]..LastOfLength(k)
  BY <1>2, <1>3
<1>7. IsFirst(c, k)
  <2> SUFFICES ASSUME c # FirstOfLength[k], c - 1 \in class PROVE FALSE
    BY DEF IsFirst
  <2>1. c = r[1] /\ c - 1 \in Int
    BY <1>2
  <2>2. PICK s \in rs : s[1] <= c - 1 /\ c - 1 <= s[2]
    BY <2>1 DEF Covers
  <2>3. s[1] \in Nat /\ s[2] \in Nat
    BY RangeFacts
  <2>4. s # r
    BY <1>1, <2>1, <2>2
  <2>5. s[2] + 1 < r[1] \/ r[2] + 1 < s[1]
    BY <2>4 DEF AreApart
  <2> QED
    BY <1>1, <2>1, <2>2, <2>3, <2>5
<1>8. IsLast(d, k)
  <2> SUFFICES ASSUME d # LastOfLength(k), d + 1 \in class PROVE FALSE
    BY DEF IsLast
  <2>1. d = r[2] /\ d + 1 \in Int
    BY <1>2
  <2>2. PICK s \in rs : s[1] <= d + 1 /\ d + 1 <= s[2]
    BY <2>1 DEF Covers
  <2>3. s[1] \in Nat /\ s[2] \in Nat
    BY RangeFacts
  <2>4. s # r
    BY <1>1, <2>1, <2>2
  <2>5. s[2] + 1 < r[1] \/ r[2] + 1 < s[1]
    BY <2>4 DEF AreApart
  <2> QED
    BY <1>1, <2>1, <2>2, <2>3, <2>5
<1>9. ~(k >= 3 /\ Carries(c, d)) /\ ~(k >= 4 /\ Carries(c \div Base + 1, d \div Base - 1))
  BY <1>2, <1>5, <1>6, <1>7, <1>8 DEF JoinedByCarry
<1> HIDE DEF lo, hi
<1>10. ASSUME k \in 3..4 PROVE ~Joined(k, lo, hi)
  <2>1. k >= 3
    BY <1>10
  <2>2. ~Carries(c, d)
    BY <1>9, <2>1
  <2> QED
    BY <1>2, <1>4, <1>10, <2>2, JoinedCarries
<1>11. ASSUME k = 4, Joined(3, After(lo), Before(hi)) PROVE FALSE
  <2> DEFINE low == After(lo)
             high == Before(hi)
             a == c \div Base + 1
             b == d \div Base - 1
  <2>1. 4 \in 2..4 /\ 4 - 1 = 3 /\ 3 \in 2..4 /\ 3 \in 3..4
    OBVIOUS
  <2>2. lo \in Words(4) /\ hi \in Words(4)
    BY <1>4, <1>11
  <2>3. /\ low \in Words(3) /\ high \in Words(3)
        /\ Number(low, Base) = Number(Front(lo), Base) + 1
        /\ Number(Front(hi), Base) = Number(high, Base) + 1
    BY <2>1, <2>2, ShorterWords
  <2>4. /\ Number(Front(lo), Base) = c \div Base /\ Number(Front(lo), Base) \in Nat
        /\ Number(Front(hi), Base) = d \div Base /\ Number(Front(hi), Base) \in Nat
    BY <1>2, <1>4, <2>1, <2>2, PrefixValue
  <2>5. Number(low, Base) = a /\ a \in Nat
    BY <2>3, <2>4
  <2>6. Number(high, Base) = b /\ b \in Int
    <3>1. Number(high, Base) \in Int
      BY <2>1, <2>3, BaseFacts, NumberIsInt
    <3> QED
      BY <2>3, <2>4, <3>1
  <2> HIDE DEF low, high, a, b
  <2>7. Number(Front(low), Base) \in Nat
    BY <2>1, <2>3, <2>5, PrefixValue
  <2>8. Number(Front(high), Base) = Number(Front(low), Base) + 1
    BY <1>11 DEF Joined, low, high
  <2>9. b \in Nat
    <3> DEFINE q == Number(Front(high), Base)
               e == high[3]
    <3>1. q \in Nat /\ q >= 1
      BY <2>7, <2>8
    <3>2. e \in Int /\ e >= 0
      BY <2>1, <2>3, WordFacts
    <3>3. b = q * Base + e
      BY <2>1, <2>3, <2>6, NumberOfFront, BaseFacts
    <3> HIDE DEF q, e
    <3>4. q * Base >= 0 /\ q * Base \in Int
      BY <3>1, BaseFacts
    <3> QED
      BY <3>2, <3>3, <3>4
  <2>10. Carries(a, b)
    BY <1>11, <2>1, <2>3, <2>5, <2>6, <2>9, JoinedCarries DEF low, high
  <2>11. k >= 4
    BY <1>11
  <2> QED
    BY <1>9, <2>10, <2>11 DEF a, b
<1>12. NoCarries(k, lo, hi)
  BY <1>10, <1>11 DEF NoCarries
<1> QED
  BY <1>12 DEF PartIsApart, lo, hi, c, d

OfRanges(rs) == UNION {RangeAutomaton(r) : r \in rs}

LEMMA ClassReads ==
  ASSUME NEW rs, AreRanges(rs), NEW c \in CodePoints
  PROVE  /\ Covers(rs, c) => Reads(OfRanges(rs), Encode(c, LengthOf(c)))
         /\ ((\A r \in rs : \A k \in 1..Len(FirstOfLength) :
                PartMeets(r, k) => PartIsApart(r, k))
               /\ Reads(OfRanges(rs), Encode(c, LengthOf(c))))
             => Covers(rs, c)
<1> DEFINE x == Encode(c, LengthOf(c))
<1>1. Reads(OfRanges(rs), x) <=> \E r \in rs : Reads(RangeAutomaton(r), x)
  BY DEF Reads, OfRanges
<1>2. ASSUME NEW r \in rs
      PROVE  /\ IsRange(r)
             /\ c \in r[1]..r[2] <=> r[1] <= c /\ c <= r[2]
  BY RangeFacts, EncodingAssumption DEF CodePoints
<1>3. ASSUME Covers(rs, c) PROVE Reads(OfRanges(rs), x)
  <2>1. PICK r \in rs : r[1] <= c /\ c <= r[2]
    BY <1>3 DEF Covers
  <2>2. Reads(RangeAutomaton(r), x)
    BY <1>2, <2>1, RangeReads
  <2> QED
    BY <1>1, <2>2
<1>4. ASSUME Reads(OfRanges(rs), x),
             \A r \in rs : \A k \in 1..Len(FirstOfLength) :
               PartMeets(r, k) => PartIsApart(r, k)
      PROVE  Covers(rs, c)
  <2>1. PICK r \in rs : Reads(RangeAutomaton(r), x)
    BY <1>1, <1>4
  <2>2. c \in r[1]..r[2]
    BY <1>2, <1>4, <2>1, RangeReads
  <2> QED
    BY <1>2, <2>2 DEF Covers
<1> QED
  BY <1>3, <1>4

Literal(c) == {[i \in 1..LengthOf(c) |-> {Encode(c, LengthOf(c))[i]}]}

LEMMA LiteralReads ==
  ASSUME NEW c \in CodePoints, NEW d \in CodePoints
  PROVE  Reads(Literal(c), Encode(d, LengthOf(d))) <=> c = d
<1> DEFINE n == LengthOf(c)
           m == LengthOf(d)
           p == Encode(c, n)
           x == Encode(d, m)
<1>1. /\ p \in Words(n) /\ Number(p, Base) = c /\ n \in 1..4
      /\ x \in Words(m) /\ Number(x, Base) = d /\ m \in 1..4
  BY CodePointIsRead
<1>2. Len(p) = n /\ Len(x) = m
  BY <1>1, WordFacts
<1>3. Literal(c) = {Exactly(p)}
  BY <1>2 DEF Literal, Exactly
<1>4. c = d => n = m
  OBVIOUS
<1> HIDE DEF n, m, p, x
<1>5. CASE n = m
  <2>1. Reads({Exactly(p)}, x) <=> x = p
    BY <1>1, <1>5, ExactlyOne
  <2>2. x = p <=> c = d
    BY <1>1, <1>5, NumbersTell DEF IsOrder
  <2> QED
    BY <1>3, <2>1, <2>2 DEF x, m
<1>6. CASE n # m
  <2>1. Shaped({Exactly(p)}, n)
    BY <1>1, ExactlyOne
  <2>2. ~Reads({Exactly(p)}, x)
    BY <1>2, <1>6, <2>1 DEF Reads, Shaped
  <2> QED
    BY <1>3, <1>4, <1>6, <2>2 DEF x, m
<1> QED
  BY <1>5, <1>6

LEMMA DotReads ==
  ASSUME NEW c \in CodePoints
  PROVE  Reads(Dot, Encode(c, LengthOf(c)))
<1> DEFINE k == LengthOf(c)
           x == Encode(c, k)
           f == FirstOfLength[k]
           l == LastOfLength(k)
           first == Encode(f, k)
           last == Encode(l, k)
           sets == [i \in 1..k |-> IF i > 1 THEN Digits ELSE first[1]..last[1]]
<1>1. x \in Words(k) /\ Number(x, Base) = c /\ k \in 1..4
  BY CodePointIsRead
<1>2. k \in 1..Len(FirstOfLength) /\ f <= c /\ c <= l
  BY OneLength DEF IsOfLength
<1>3. f \in Nat /\ l \in Nat
  BY <1>2, Lengths
<1>4. /\ first \in Words(k) /\ Number(first, Base) = f
      /\ last \in Words(k) /\ Number(last, Base) = l
  BY <1>1, <1>3, EncodeFacts
<1>5. sets \in Dot
  BY <1>2 DEF Dot
<1> HIDE DEF k, x, f, l, first, last
<1>6. first[1] <= x[1] /\ x[1] <= last[1]
  BY <1>1, <1>2, <1>4, InOrder
<1>7. x[1] \in Int /\ first[1] \in Int /\ last[1] \in Int /\ Len(x) = k
  <2>1. 1 \in 1..k
    BY <1>1
  <2> QED
    BY <1>1, <1>4, <2>1, WordFacts
<1>8. \A i \in 2..k : x[i] \in Digits
  BY <1>1 DEF Words
<1>9. Len(sets) = k /\ \A i \in 1..k : x[i] \in sets[i]
  <2>1. Len(sets) = k
    BY <1>1
  <2>2. ASSUME NEW i \in 1..k PROVE x[i] \in sets[i]
    <3>1. CASE i > 1
      <4>1. i \in 2..k /\ sets[i] = Digits
        BY <1>1, <3>1
      <4> QED
        BY <1>8, <4>1
    <3>2. CASE ~(i > 1)
      <4>1. i = 1 /\ sets[i] = first[1]..last[1]
        BY <1>1, <3>2
      <4> QED
        BY <1>6, <1>7, <4>1
    <3> QED
      BY <3>1, <3>2
  <2> QED
    BY <2>1, <2>2
<1> HIDE DEF sets
<1>10. Reads(Dot, x)
  BY <1>5, <1>7, <1>9 DEF Reads
<1> QED
  BY <1>10 DEF x, k

(***************************************************************************)
(* The ranges of a class.                                                  *)
(***************************************************************************)
LEMMA OneRange ==
  ASSUME NEW rs, AreRanges(rs), AreApart(rs), NEW r \in rs, NEW s \in rs,
         r[1] <= s[2] + 1, s[1] <= r[2] + 1
  PROVE  r = s
<1>1. r[1] \in Nat /\ r[2] \in Nat /\ s[1] \in Nat /\ s[2] \in Nat
  BY RangeFacts
<1> SUFFICES ASSUME r # s PROVE FALSE
  OBVIOUS
<1>2. r[2] + 1 < s[1] \/ s[2] + 1 < r[1]
  BY DEF AreApart
<1> QED
  BY <1>1, <1>2

\* The least and the greatest of a number and those of some ranges.
LEMMA LeastOfRanges ==
  ASSUME NEW rs, AreRanges(rs), NEW lo \in Nat
  PROVE  LET m == Min({lo} \cup {r[1] : r \in rs})
         IN  /\ m \in Nat /\ m <= lo
             /\ \A r \in rs : m <= r[1]
             /\ m = lo \/ \E r \in rs : m = r[1]
<1> DEFINE S == {lo} \cup {r[1] : r \in rs}
<1>1. \A r \in rs : r[1] \in Nat
  BY RangeFacts
<1>2. S \subseteq Int /\ S # {} /\ 0 \in Int /\ \A x \in S : 0 <= x
  BY <1>1
<1>3. S \subseteq Nat /\ lo \in S /\ \A r \in rs : r[1] \in S
  BY <1>1
<1>4. \A x \in S : x = lo \/ \E r \in rs : x = r[1]
  OBVIOUS
<1> HIDE DEF S
<1>5. Min(S) \in S /\ \A x \in S : Min(S) <= x
  BY <1>2, LeastOfNumbers
<1>6. /\ Min(S) \in Nat /\ Min(S) <= lo
      /\ \A r \in rs : Min(S) <= r[1]
      /\ Min(S) = lo \/ \E r \in rs : Min(S) = r[1]
  BY <1>3, <1>4, <1>5
<1> QED
  BY <1>6 DEF S

LEMMA GreatestOfRanges ==
  ASSUME NEW rs, AreRanges(rs), NEW hi \in CodePoints
  PROVE  LET m == Max({hi} \cup {r[2] : r \in rs})
         IN  /\ m \in CodePoints /\ hi <= m
             /\ \A r \in rs : r[2] <= m
             /\ m = hi \/ \E r \in rs : m = r[2]
<1> DEFINE S == {hi} \cup {r[2] : r \in rs}
<1>1. (\A r \in rs : r[2] \in CodePoints) /\ MaxCodePoint \in Nat
  BY EncodingAssumption DEF AreRanges
<1>2. S \subseteq Int /\ S # {} /\ MaxCodePoint \in Int /\ \A x \in S : x <= MaxCodePoint
  BY <1>1 DEF CodePoints
<1>3. S \subseteq CodePoints /\ hi \in S /\ \A r \in rs : r[2] \in S
  BY <1>1
<1>4. \A x \in S : x = hi \/ \E r \in rs : x = r[2]
  OBVIOUS
<1> HIDE DEF S
<1>5. Max(S) \in S /\ \A x \in S : x <= Max(S)
  BY <1>2, GreatestNumber
<1>6. /\ Max(S) \in CodePoints /\ hi <= Max(S)
      /\ \A r \in rs : r[2] <= Max(S)
      /\ Max(S) = hi \/ \E r \in rs : Max(S) = r[2]
  BY <1>3, <1>4, <1>5
<1> QED
  BY <1>6 DEF S

LEMMA AddRangeFacts ==
  ASSUME NEW rs, AreRanges(rs), AreApart(rs),
         NEW lo \in CodePoints, NEW hi \in CodePoints, lo <= hi
  PROVE  LET new == AddRange(rs, lo, hi)
         IN  /\ AreRanges(new) /\ AreApart(new)
             /\ \A c \in Int : Covers(new, c) <=> Covers(rs, c) \/ c \in lo..hi
<1> DEFINE left == {r \in rs : Meets(r, lo - 1, lo - 1)}
           first == Min({lo} \cup {r[1] : r \in left})
           wide == Max({hi} \cup {r[2] : r \in left})
           right == {r \in rs \ left : Meets(r, wide + 1, wide + 1)}
           last == Max({wide} \cup {r[2] : r \in right})
           kept == {r \in rs : ~Meets(r, first, last)}
           new == kept \cup {<<first, last>>}
<1>0. lo \in Nat /\ hi \in Nat /\ hi <= MaxCodePoint /\ MaxCodePoint \in Nat
  BY EncodingAssumption DEF CodePoints
<1>1. \A r \in rs : r[1] \in Nat /\ r[2] \in Nat /\ r[1] <= r[2]
  BY RangeFacts
<1>2. AddRange(rs, lo, hi) = IF \E r \in rs : r[1] <= lo /\ hi <= r[2] THEN rs ELSE new
  BY Zenon DEF AddRange
<1>3. CASE \E r \in rs : r[1] <= lo /\ hi <= r[2]
  <2>1. PICK r \in rs : r[1] <= lo /\ hi <= r[2]
    BY <1>3
  <2>2. \A c \in lo..hi : r[1] <= c /\ c <= r[2]
    BY <1>0, <1>1, <2>1
  <2>3. \A c \in lo..hi : Covers(rs, c)
    BY <2>1, <2>2 DEF Covers
  <2>4. AddRange(rs, lo, hi) = rs
    BY <1>2, <1>3
  <2> QED
    BY <2>3, <2>4
<1>4. CASE ~\E r \in rs : r[1] <= lo /\ hi <= r[2]
  <2>1. AreRanges(left) /\ AreRanges(right)
    BY DEF AreRanges
  <2>2. /\ \A r \in rs : r \in left <=> r[1] <= lo - 1 /\ lo - 1 <= r[2]
        /\ left \subseteq rs
    BY DEF Meets
  <2>3. /\ \A r \in rs : r \in right \/ r \in left \/ ~(r[1] <= wide + 1 /\ wide + 1 <= r[2])
        /\ \A r \in right : r \in rs /\ r[1] <= wide + 1 /\ wide + 1 <= r[2]
    BY DEF Meets
  <2>4. /\ \A r \in rs : r \in kept <=> ~(r[1] <= last /\ first <= r[2])
        /\ kept \subseteq rs
    BY DEF Meets
  <2> HIDE DEF left, right, kept
  <2>5. /\ first \in Nat /\ first <= lo
        /\ \A r \in left : first <= r[1]
        /\ first = lo \/ \E r \in left : first = r[1]
    BY <1>0, <2>1, LeastOfRanges
  <2>6. /\ wide \in CodePoints /\ hi <= wide
        /\ \A r \in left : r[2] <= wide
        /\ wide = hi \/ \E r \in left : wide = r[2]
    BY <2>1, GreatestOfRanges
  <2> HIDE DEF first, wide
  <2>7. /\ last \in CodePoints /\ wide <= last
        /\ \A r \in right : r[2] <= last
        /\ last = wide \/ \E r \in right : last = r[2]
    BY <2>1, <2>6, GreatestOfRanges
  <2>8. wide \in Nat /\ last \in Nat /\ first <= last /\ first \in CodePoints
    BY <1>0, <2>5, <2>6, <2>7 DEF CodePoints
  <2> HIDE DEF last
  <2>9. <<first, last>> \in CodePoints \X CodePoints /\ first \in Nat /\ last \in Nat
    BY <2>5, <2>7, <2>8
  <2>10. AreRanges(new)
    BY <2>4, <2>8, <2>9 DEF AreRanges
  \* What is not kept lies within the new range.
  <2>11. ASSUME NEW r \in rs, r[1] <= last, first <= r[2]
         PROVE  first <= r[1] /\ r[2] <= last
    <3>1. r[1] \in Nat /\ r[2] \in Nat /\ r[1] <= r[2]
      BY <1>1
    <3>2. first <= r[1]
      <4> SUFFICES ASSUME r[1] < first PROVE FALSE
        BY <2>8, <2>5, <3>1
      <4>1. CASE first = lo
        <5>1. r \in left
          BY <1>0, <2>2, <2>11, <3>1, <4>1
        <5> QED
          BY <2>5, <3>1, <5>1
      <4>2. CASE \E s \in left : first = s[1]
        <5>1. PICK s \in left : first = s[1]
          BY <4>2
        <5>2. s \in rs /\ s[1] \in Nat /\ s[2] \in Nat /\ s[1] <= s[2]
          BY <1>1, <2>2, <5>1
        <5>3. r = s
          BY <2>11, <3>1, <5>1, <5>2, OneRange
        <5> QED
          BY <3>1, <5>1, <5>3
      <4> QED
        BY <2>5, <4>1, <4>2
    <3>3. r[2] <= last
      <4> SUFFICES ASSUME last < r[2] PROVE FALSE
        BY <2>8, <3>1
      <4>1. CASE last = wide
        <5>1. r \in left \/ r \in right
          BY <2>3, <2>8, <2>11, <3>1, <4>1
        <5> QED
          BY <2>6, <2>7, <2>8, <3>1, <4>1, <5>1
      <4>2. CASE \E s \in right : last = s[2]
        <5>1. PICK s \in right : last = s[2]
          BY <4>2
        <5>2. s \in rs /\ s[1] \in Nat /\ s[2] \in Nat /\ s[1] <= s[2]
          BY <1>1, <2>3, <5>1
        <5>3. r = s
          BY <2>11, <3>1, <5>1, <5>2, OneRange
        <5> QED
          BY <3>1, <5>1, <5>3
      <4> QED
        BY <2>7, <4>1, <4>2
    <3> QED
      BY <3>2, <3>3
  \* What is kept does not touch it.
  <2>12. ASSUME NEW r \in kept
         PROVE  last + 1 < r[1] \/ r[2] + 1 < first
    <3>1. r \in rs /\ r[1] \in Nat /\ r[2] \in Nat /\ r[1] <= r[2]
      BY <1>1, <2>4
    <3>2. last < r[1] \/ r[2] < first
      BY <2>4, <2>8, <2>9, <3>1
    <3>3. r[1] # last + 1
      <4> SUFFICES ASSUME r[1] = last + 1 PROVE FALSE
        OBVIOUS
      <4>1. CASE last = wide
        <5>1. r \in left \/ r \in right
          BY <2>3, <2>8, <3>1, <4>1
        <5> QED
          BY <2>6, <2>7, <2>8, <3>1, <4>1, <5>1
      <4>2. CASE \E s \in right : last = s[2]
        <5>1. PICK s \in right : last = s[2]
          BY <4>2
        <5>2. s \in rs /\ s[1] \in Nat /\ s[2] \in Nat /\ s[1] <= s[2]
          BY <1>1, <2>3, <5>1
        <5>3. r = s
          BY <3>1, <5>1, <5>2, OneRange
        <5> QED
          BY <3>1, <5>1, <5>3
      <4> QED
        BY <2>7, <4>1, <4>2
    <3>4. r[2] + 1 # first
      <4> SUFFICES ASSUME r[2] + 1 = first PROVE FALSE
        OBVIOUS
      <4>1. CASE first = lo
        <5>1. r \in left
          BY <1>0, <2>2, <3>1, <4>1
        <5> QED
          BY <2>5, <3>1, <5>1
      <4>2. CASE \E s \in left : first = s[1]
        <5>1. PICK s \in left : first = s[1]
          BY <4>2
        <5>2. s \in rs /\ s[1] \in Nat /\ s[2] \in Nat /\ s[1] <= s[2]
          BY <1>1, <2>2, <5>1
        <5>3. r = s
          BY <3>1, <5>1, <5>2, OneRange
        <5> QED
          BY <3>1, <5>1, <5>3
      <4> QED
        BY <2>5, <4>1, <4>2
    <3> QED
      BY <2>8, <2>9, <3>1, <3>2, <3>3, <3>4
  <2>13. AreApart(new)
    <3> SUFFICES ASSUME NEW r \in new, NEW s \in new, r # s
                 PROVE  r[2] + 1 < s[1] \/ s[2] + 1 < r[1]
      BY DEF AreApart
    <3>1. CASE r \in kept /\ s \in kept
      BY <2>4, <3>1 DEF AreApart
    <3>2. CASE r \in kept /\ s = <<first, last>>
      BY <2>12, <3>2
    <3>3. CASE r = <<first, last>> /\ s \in kept
      BY <2>12, <3>3
    <3> QED
      BY <3>1, <3>2, <3>3
  <2>17. \A c \in Int : first <= c /\ c <= last => Covers(new, c)
    <3> DEFINE r == <<first, last>>
    <3>1. r \in new /\ r[1] = first /\ r[2] = last
      OBVIOUS
    <3> HIDE DEF r, new
    <3> QED
      BY <3>1 DEF Covers
  <2>14. ASSUME NEW c \in Int, Covers(rs, c) \/ c \in lo..hi
         PROVE  Covers(new, c)
    <3>1. CASE c \in lo..hi
      <4>1. first <= c /\ c <= last
        BY <1>0, <2>5, <2>6, <2>7, <2>8, <3>1
      <4> QED
        BY <2>17, <4>1
    <3>2. CASE Covers(rs, c)
      <4>1. PICK r \in rs : r[1] <= c /\ c <= r[2]
        BY <3>2 DEF Covers
      <4>2. CASE r \in kept
        BY <4>1, <4>2 DEF Covers
      <4>3. CASE r \notin kept
        <5>1. r[1] <= last /\ first <= r[2]
          BY <2>4, <4>3
        <5>2. first <= c /\ c <= last
          BY <1>1, <2>8, <2>9, <2>11, <4>1, <5>1
        <5> QED
          BY <2>17, <5>2
      <4> QED
        BY <4>2, <4>3
    <3> QED
      BY <2>14, <3>1, <3>2
  <2>15. ASSUME NEW c \in Int, Covers(new, c), c \notin lo..hi
         PROVE  Covers(rs, c)
    <3>1. PICK r \in new : r[1] <= c /\ c <= r[2]
      BY <2>15 DEF Covers
    <3>2. CASE r \in kept
      BY <2>4, <3>1, <3>2 DEF Covers
    <3>3. CASE r = <<first, last>>
      <4>1. first <= c /\ c <= last
        BY <3>1, <3>3
      <4>2. CASE c < lo
        <5>1. PICK s \in left : first = s[1]
          BY <1>0, <2>5, <2>9, <4>1, <4>2
        <5>2. s \in rs /\ s[1] \in Nat /\ s[2] \in Nat /\ lo - 1 <= s[2]
          BY <1>1, <2>2
        <5> QED
          BY <1>0, <4>1, <4>2, <5>1, <5>2 DEF Covers
      <4>3. CASE hi < c /\ c <= wide
        <5>1. PICK s \in left : wide = s[2]
          BY <1>0, <2>6, <2>8, <4>3
        <5>2. s \in rs /\ s[1] \in Nat /\ s[2] \in Nat /\ s[1] <= lo - 1
          BY <1>1, <2>2
        <5>3. s[1] <= c /\ c <= s[2]
          BY <1>0, <4>3, <5>1, <5>2
        <5> QED
          BY <5>2, <5>3 DEF Covers
      <4>4. CASE wide < c
        <5>1. PICK s \in right : last = s[2]
          BY <2>7, <2>8, <4>1, <4>4
        <5>2. s \in rs /\ s[1] \in Nat /\ s[2] \in Nat /\ s[1] <= wide + 1
          BY <1>1, <2>3
        <5>3. s[1] <= c /\ c <= s[2]
          BY <2>8, <4>1, <4>4, <5>1, <5>2
        <5> QED
          BY <5>2, <5>3 DEF Covers
      <4> QED
        BY <1>0, <2>8, <2>15, <4>2, <4>3, <4>4
    <3> QED
      BY <3>2, <3>3
  <2>16. AddRange(rs, lo, hi) = new
    BY <1>2, <1>4
  <2> HIDE DEF new
  <2> QED
    BY <2>10, <2>13, <2>14, <2>15, <2>16
<1> QED
  BY <1>3, <1>4

LEMMA NegateFacts ==
  ASSUME NEW rs, AreRanges(rs), AreApart(rs)
  PROVE  /\ AreRanges(Negate(rs)) /\ AreApart(Negate(rs))
         /\ \A c \in Int : Covers(Negate(rs), c) <=> c \in CodePoints /\ ~Covers(rs, c)
<1> DEFINE begins == {0} \cup {r[2] + 1 : r \in rs}
           NextRange(lo) == Min({MaxCodePoint + 1} \cup {r[1] : r \in {s \in rs : s[1] >= lo}})
           chosen == {b \in begins : b <= MaxCodePoint /\ (b = 0 => NextRange(b) > 0)}
           new == {<<lo, NextRange(lo) - 1>> : lo \in chosen}
<1>0. MaxCodePoint \in Nat
  BY EncodingAssumption
<1>1. \A r \in rs : r[1] \in Nat /\ r[2] \in Nat /\ r[1] <= r[2] /\ r[2] <= MaxCodePoint
  BY RangeFacts
<1>2. Negate(rs) = new
  BY DEF Negate
<1>3. \A lo \in begins : lo \in Nat
  BY <1>1
<1>4. \A lo \in begins : lo = 0 \/ \E r \in rs : lo = r[2] + 1
  OBVIOUS
<1>5. \A r \in rs : r[2] + 1 \in begins
  OBVIOUS
<1>6. 0 \in begins
  OBVIOUS
<1>7. ASSUME NEW lo \in begins
      PROVE  /\ NextRange(lo) \in Nat /\ NextRange(lo) <= MaxCodePoint + 1
             /\ \A r \in rs : lo <= r[1] => NextRange(lo) <= r[1]
             /\ \/ NextRange(lo) = MaxCodePoint + 1
                \/ \E r \in rs : lo <= r[1] /\ NextRange(lo) = r[1]
  <2> DEFINE after == {s \in rs : s[1] >= lo}
             end == MaxCodePoint + 1
  <2>1. AreRanges(after) /\ end \in Nat
    BY <1>0 DEF AreRanges
  <2>2. /\ \A r \in rs : lo <= r[1] => r \in after
        /\ \A r \in after : r \in rs /\ lo <= r[1]
    BY <1>1, <1>3
  <2> DEFINE m == Min({end} \cup {r[1] : r \in after})
  <2> HIDE DEF after, end
  <2>3. /\ m \in Nat /\ m <= end
        /\ \A r \in after : m <= r[1]
        /\ m = end \/ \E r \in after : m = r[1]
    BY <2>1, LeastOfRanges
  <2> HIDE DEF m
  <2>4. /\ m \in Nat /\ m <= end
        /\ \A r \in rs : lo <= r[1] => m <= r[1]
        /\ m = end \/ \E r \in rs : lo <= r[1] /\ m = r[1]
    BY <2>2, <2>3
  <2>5. m = NextRange(lo)
    BY DEF m, end, after
  <2> HIDE DEF NextRange
  <2> QED
    BY <2>4, <2>5 DEF end
<1> DEFINE End(lo) == NextRange(lo) - 1
<1> HIDE DEF NextRange, begins
\* No range begins before a begin and runs on to it.
<1>8. ASSUME NEW lo \in begins, NEW r \in rs, r[1] < lo
      PROVE  r[2] < lo
  <2>1. PICK s \in rs : lo = s[2] + 1
    BY <1>1, <1>4, <1>8
  <2>2. s[1] \in Nat /\ s[2] \in Nat /\ s[1] <= s[2]
    BY <1>1
  <2>3. r[1] \in Nat /\ r[2] \in Nat /\ r[1] <= r[2]
    BY <1>1
  <2>4. CASE s[1] <= r[2] + 1
    <3>1. r = s
      BY <1>8, <2>1, <2>2, <2>3, <2>4, OneRange
    <3> QED
      BY <2>1, <2>2, <3>1
  <2>5. CASE ~(s[1] <= r[2] + 1)
    BY <2>1, <2>2, <2>3, <2>5
  <2> QED
    BY <2>4, <2>5
<1>9. ASSUME NEW lo \in chosen
      PROVE  lo \in begins /\ lo \in Nat /\ lo < NextRange(lo) /\ lo <= MaxCodePoint
  <2>1. lo \in begins /\ lo \in Nat /\ lo <= MaxCodePoint /\ (lo = 0 => NextRange(lo) > 0)
    BY <1>3
  <2>2. CASE lo = 0
    BY <2>1, <2>2
  <2>3. CASE lo # 0
    <3>1. PICK s \in rs : lo = s[2] + 1
      BY <1>4, <2>1, <2>3
    <3>2. s[1] \in Nat /\ s[2] \in Nat /\ s[1] <= s[2]
      BY <1>1
    <3>3. CASE \E r \in rs : lo <= r[1] /\ NextRange(lo) = r[1]
      <4>1. PICK r \in rs : lo <= r[1] /\ NextRange(lo) = r[1]
        BY <3>3
      <4>2. r[1] \in Nat /\ r[2] \in Nat /\ r[1] <= r[2]
        BY <1>1
      <4>3. r[1] # lo
        <5> SUFFICES ASSUME r[1] = lo PROVE FALSE
          OBVIOUS
        <5>1. r = s
          BY <3>1, <3>2, <4>2, OneRange
        <5> QED
          BY <3>1, <3>2, <4>2, <5>1
      <4> QED
        BY <2>1, <4>1, <4>2, <4>3
    <3>4. CASE NextRange(lo) = MaxCodePoint + 1
      BY <1>0, <2>1, <3>4
    <3> QED
      BY <1>7, <2>1, <3>3, <3>4
  <2> QED
    BY <2>2, <2>3
<1>10. \A r \in new : \E lo \in chosen : r[1] = lo /\ r[2] = NextRange(lo) - 1 /\ r = <<lo, NextRange(lo) - 1>>
  OBVIOUS
<1>11. AreRanges(new)
  <2> SUFFICES ASSUME NEW r \in new
               PROVE  r \in CodePoints \X CodePoints /\ r[1] <= r[2]
    BY DEF AreRanges
  <2>1. PICK lo \in chosen : r[1] = lo /\ r[2] = NextRange(lo) - 1 /\ r = <<lo, NextRange(lo) - 1>>
    BY <1>10
  <2>2. lo \in begins /\ lo \in Nat /\ lo < NextRange(lo) /\ lo <= MaxCodePoint
    BY <1>9
  <2>3. NextRange(lo) \in Nat /\ NextRange(lo) <= MaxCodePoint + 1
    BY <1>7, <2>2
  <2>4. lo \in CodePoints /\ NextRange(lo) - 1 \in CodePoints /\ lo <= NextRange(lo) - 1
    BY <1>0, <2>2, <2>3 DEF CodePoints
  <2> QED
    BY <2>1, <2>4
<1>12. ASSUME NEW lo \in chosen, NEW other \in chosen, lo < other
       PROVE  NextRange(lo) < other
  <2>1. /\ lo \in begins /\ lo \in Nat /\ lo < NextRange(lo)
        /\ other \in begins /\ other \in Nat /\ NextRange(lo) \in Nat
    BY <1>7, <1>9
  <2>2. PICK s \in rs : other = s[2] + 1
    BY <1>4, <1>12, <2>1
  <2>3. s[1] \in Nat /\ s[2] \in Nat /\ s[1] <= s[2]
    BY <1>1
  <2>4. ~(s[1] < lo)
    <3>1. s[1] < lo => s[2] < lo
      BY <1>8, <2>1
    <3> QED
      BY <1>12, <2>1, <2>2, <2>3, <3>1
  <2>5. NextRange(lo) <= s[1]
    BY <1>7, <2>1, <2>3, <2>4
  <2> QED
    BY <2>1, <2>2, <2>3, <2>5
<1>13. AreApart(new)
  <2> SUFFICES ASSUME NEW r \in new, NEW s \in new, r # s
               PROVE  r[2] + 1 < s[1] \/ s[2] + 1 < r[1]
    BY DEF AreApart
  <2>1. PICK lo \in chosen : r[1] = lo /\ r[2] = NextRange(lo) - 1 /\ r = <<lo, NextRange(lo) - 1>>
    BY <1>10
  <2>2. PICK other \in chosen : s[1] = other /\ s[2] = NextRange(other) - 1 /\ s = <<other, NextRange(other) - 1>>
    BY <1>10
  <2>3. /\ lo \in Nat /\ other \in Nat /\ NextRange(lo) \in Nat /\ NextRange(other) \in Nat
    BY <1>7, <1>9
  <2>4. lo # other
    BY <2>1, <2>2
  <2>5. lo < other \/ other < lo
    BY <2>3, <2>4
  <2>6. NextRange(lo) < other \/ NextRange(other) < lo
    BY <1>12, <2>5
  <2>7. (NextRange(lo) - 1) + 1 = NextRange(lo) /\ (NextRange(other) - 1) + 1 = NextRange(other)
    BY <2>3
  <2> QED
    BY <2>1, <2>2, <2>6, <2>7
<1>14. ASSUME NEW c \in Int, Covers(new, c)
       PROVE  c \in CodePoints /\ ~Covers(rs, c)
  <2>1. PICK r \in new : r[1] <= c /\ c <= r[2]
    BY <1>14 DEF Covers
  <2>2. PICK lo \in chosen : r[1] = lo /\ r[2] = NextRange(lo) - 1 /\ r = <<lo, NextRange(lo) - 1>>
    BY <1>10
  <2>3. /\ lo \in begins /\ lo \in Nat /\ NextRange(lo) \in Nat /\ NextRange(lo) <= MaxCodePoint + 1
    BY <1>7, <1>9
  <2>4. lo <= c /\ c < NextRange(lo)
    BY <2>1, <2>2, <2>3
  <2>5. c \in CodePoints
    BY <1>0, <2>3, <2>4 DEF CodePoints
  <2>6. ASSUME NEW s \in rs, s[1] <= c, c <= s[2] PROVE FALSE
    <3>1. s[1] \in Nat /\ s[2] \in Nat
      BY <1>1
    <3>2. ~(lo <= s[1])
      <4>1. lo <= s[1] => NextRange(lo) <= s[1]
        BY <1>7, <2>3
      <4> QED
        BY <2>3, <2>4, <2>6, <3>1, <4>1
    <3>3. s[2] < lo
      BY <1>8, <2>3, <3>1, <3>2
    <3> QED
      BY <2>3, <2>4, <2>6, <3>1, <3>3
  <2> QED
    BY <2>5, <2>6 DEF Covers
<1>15. ASSUME NEW c \in CodePoints, ~Covers(rs, c)
       PROVE  Covers(new, c)
  <2> DEFINE S == {b \in begins : b <= c}
             lo == Max(S)
  <2>1. c \in Nat /\ c <= MaxCodePoint
    BY <1>0 DEF CodePoints
  <2>2. S \subseteq Int /\ S # {} /\ c \in Int /\ \A x \in S : x <= c
    BY <1>3, <1>6, <2>1
  <2> HIDE DEF S
  <2>3. lo \in S /\ \A x \in S : x <= lo
    BY <2>2, GreatestNumber
  <2> HIDE DEF lo
  <2>4. lo \in begins /\ lo <= c /\ lo \in Nat /\ \A b \in begins : b <= c => b <= lo
    BY <1>3, <2>3 DEF S
  <2>5. c < NextRange(lo)
    <3>1. CASE NextRange(lo) = MaxCodePoint + 1
      BY <1>0, <2>1, <3>1
    <3>2. CASE \E r \in rs : lo <= r[1] /\ NextRange(lo) = r[1]
      <4>1. PICK r \in rs : lo <= r[1] /\ NextRange(lo) = r[1]
        BY <3>2
      <4>2. r[1] \in Nat /\ r[2] \in Nat /\ r[1] <= r[2]
        BY <1>1
      <4> SUFFICES ASSUME r[1] <= c PROVE FALSE
        BY <2>1, <4>1, <4>2
      <4>3. r[2] < c
        BY <1>15, <2>1, <4>2 DEF Covers
      <4>4. r[2] + 1 \in begins /\ r[2] + 1 <= c
        BY <1>5, <2>1, <4>2, <4>3
      <4>5. r[2] + 1 <= lo
        BY <2>4, <4>4
      <4> QED
        BY <2>4, <4>1, <4>2, <4>5
    <3> QED
      BY <1>7, <2>4, <3>1, <3>2
  <2>6. lo \in chosen /\ NextRange(lo) \in Nat
    BY <1>0, <1>7, <2>1, <2>4, <2>5
  <2> DEFINE r == <<lo, NextRange(lo) - 1>>
  <2>7. r \in new
    BY <2>6
  <2>8. r[1] <= c /\ c <= r[2]
    BY <2>1, <2>4, <2>5, <2>6
  <2> HIDE DEF r, new
  <2> QED
    BY <2>7, <2>8 DEF Covers
<1> HIDE DEF new
<1> QED
  BY <1>2, <1>11, <1>13, <1>14, <1>15

(***************************************************************************)
(* A shorthand adds its ranges one after the other.                        *)
(***************************************************************************)
RangeSets == {rs \in SUBSET (CodePoints \X CodePoints) : AreRanges(rs) /\ AreApart(rs)}

LEMMA AddRangeIsClosed ==
  ASSUME NEW rs \in RangeSets, NEW lo \in CodePoints, NEW hi \in CodePoints, lo <= hi
  PROVE  AddRange(rs, lo, hi) \in RangeSets
<1>1. AreRanges(rs) /\ AreApart(rs)
  BY DEF RangeSets
<1>2. AreRanges(AddRange(rs, lo, hi)) /\ AreApart(AddRange(rs, lo, hi))
  BY <1>1, AddRangeFacts
<1>3. AddRange(rs, lo, hi) \subseteq CodePoints \X CodePoints
  BY <1>2 DEF AreRanges
<1> QED
  BY <1>2, <1>3 DEF RangeSets

IsAdding(f, atoms) ==
  f = [i \in 0..Len(atoms) |->
         IF i = 0 THEN ranges ELSE AddRange(f[i - 1], atoms[i][1], atoms[i][2])]

AddedOneByOne(atoms) ==
  LET with[i \in 0..Len(atoms)] ==
        IF i = 0 THEN ranges ELSE AddRange(with[i - 1], atoms[i][1], atoms[i][2])
  IN  with[Len(atoms)]

LEMMA SharedAtomFacts ==
  ASSUME NEW atoms \in SharedAtoms, AreRanges(ranges), AreApart(ranges)
  PROVE  /\ AreRanges(AddedOneByOne(atoms)) /\ AreApart(AddedOneByOne(atoms))
         /\ \A c \in Int :
              Covers(AddedOneByOne(atoms), c)
                <=> Covers(ranges, c)
                    \/ c \in UNION {atoms[i][1]..atoms[i][2] : i \in DOMAIN atoms}
         /\ UNION {atoms[i][1]..atoms[i][2] : i \in DOMAIN atoms} \subseteq CodePoints
<1> DEFINE n == Len(atoms)
           T == RangeSets
           step == [p \in (1..n) \X T |-> AddRange(p[2], atoms[p[1]][1], atoms[p[1]][2])]
<1>1. /\ atoms \in Seq(CodePoints \X CodePoints) /\ n \in Nat /\ DOMAIN atoms = 1..n
      /\ \A i \in 1..n : /\ atoms[i][1] \in CodePoints /\ atoms[i][2] \in CodePoints
                         /\ atoms[i][1] <= atoms[i][2]
  <2>1. /\ atoms \in Seq(CodePoints \X CodePoints)
        /\ \A i \in DOMAIN atoms : atoms[i][1] <= atoms[i][2]
    BY ExpressionAssumption DEF CodePoints
  <2>2. n \in Nat /\ DOMAIN atoms = 1..n /\ \A i \in 1..n : atoms[i] \in CodePoints \X CodePoints
    BY <2>1
  <2> QED
    BY <2>1, <2>2
<1>2. ranges \in T
  <2>1. ranges \subseteq CodePoints \X CodePoints
    BY DEF AreRanges
  <2> QED
    BY <2>1 DEF RangeSets
<1> HIDE DEF n, T
<1>3. \A i \in 1..n, m \in T : AddRange(m, atoms[i][1], atoms[i][2]) \in T
  BY <1>1, AddRangeIsClosed DEF T
<1>4. step \in [(1..n) \X T -> T]
  BY <1>3
<1>5. \A i \in 1..n, m \in T : step[<<i, m>>] = AddRange(m, atoms[i][1], atoms[i][2])
  OBVIOUS
<1> HIDE DEF step
<1>6. PICK g \in [0..n -> T] : Follows(g, n, ranges, step)
  BY <1>1, <1>2, <1>4, Recursion
<1>7. IsAdding(g, atoms)
  <2>1. \A i \in 0..n : g[i] = IF i = 0 THEN ranges
                               ELSE AddRange(g[i - 1], atoms[i][1], atoms[i][2])
    <3> TAKE i \in 0..n
    <3>1. g[i] = IF i = 0 THEN ranges ELSE step[<<i, g[i - 1]>>]
      BY <1>6 DEF Follows
    <3>2. i # 0 => i \in 1..n /\ g[i - 1] \in T
      BY <1>1
    <3> QED
      BY <1>5, <3>1, <3>2
  <2>2. g = [i \in 0..n |-> g[i]]
    OBVIOUS
  <2> QED
    BY <2>1, <2>2 DEF IsAdding, n
<1> DEFINE f == CHOOSE f : IsAdding(f, atoms)
<1>8. IsAdding(f, atoms)
  BY <1>7, Zenon
<1>9. AddedOneByOne(atoms) = f[n]
  BY Zenon DEF AddedOneByOne, IsAdding, n
<1> HIDE DEF f
<1>10. \A i \in 0..n : f[i] = IF i = 0 THEN ranges
                              ELSE AddRange(f[i - 1], atoms[i][1], atoms[i][2])
  BY <1>8 DEF IsAdding, n
<1> DEFINE Some(i, c) == \E j \in 1..i : atoms[j][1] <= c /\ c <= atoms[j][2]
           OK(i) == /\ AreRanges(f[i]) /\ AreApart(f[i])
                    /\ \A c \in Int : Covers(f[i], c) <=> Covers(ranges, c) \/ Some(i, c)
<1>11. \A i \in 1..n : atoms[i][1] \in Int /\ atoms[i][2] \in Int
  BY <1>1, EncodingAssumption DEF CodePoints
<1>12. \A i \in 0..n : OK(i)
  <2> DEFINE W == {i \in 0..n : ~OK(i)}
  <2>1. SUFFICES ASSUME W # {} PROVE FALSE
    OBVIOUS
  <2>2. PICK i \in W : \A y \in W : ~(y < i)
    <3>1. W \subseteq Nat
      BY <1>1
    <3> HIDE DEF W
    <3> QED
      BY <2>1, <3>1, LeastNumber
  <2>3. CASE i = 0
    <3>1. f[0] = ranges
      BY <1>1, <1>10
    <3>2. \A c \in Int : ~Some(0, c)
      OBVIOUS
    <3> HIDE DEF Some
    <3> QED
      BY <2>3, <3>1, <3>2
  <2>4. CASE i # 0
    <3> DEFINE m == f[i - 1]
               lo == atoms[i][1]
               hi == atoms[i][2]
    <3>1. i \in 1..n /\ i - 1 \in 0..n /\ i - 1 < i
      BY <1>1, <2>4
    <3>2. OK(i - 1)
      <4> HIDE DEF OK
      <4> QED
        BY <2>2, <3>1
    <3>3. f[i] = AddRange(m, lo, hi)
      BY <1>10, <2>4
    <3>4. lo \in CodePoints /\ hi \in CodePoints /\ lo <= hi /\ lo \in Int /\ hi \in Int
      BY <1>1, <1>11, <3>1
    <3>5. \A c \in Int : Some(i, c) <=> Some(i - 1, c) \/ c \in lo..hi
      <4> TAKE c \in Int
      <4>1. \A j \in 1..i : j = i \/ j \in 1..i - 1
        BY <3>1
      <4>2. (\A j \in 1..i - 1 : j \in 1..i) /\ i \in 1..i
        BY <3>1
      <4>3. c \in lo..hi <=> lo <= c /\ c <= hi
        BY <3>4
      <4> QED
        BY <4>1, <4>2, <4>3
    <3>6. /\ AreRanges(m) /\ AreApart(m)
          /\ \A c \in Int : Covers(m, c) <=> Covers(ranges, c) \/ Some(i - 1, c)
      BY <3>2
    <3> HIDE DEF m, lo, hi, Some
    <3>7. /\ AreRanges(f[i]) /\ AreApart(f[i])
          /\ \A c \in Int : Covers(f[i], c) <=> Covers(m, c) \/ c \in lo..hi
      BY <3>3, <3>4, <3>6, AddRangeFacts
    <3>8. OK(i)
      BY <3>5, <3>6, <3>7
    <3> HIDE DEF OK
    <3> QED
      BY <3>8
  <2> QED
    BY <2>3, <2>4
<1>13. n \in 0..n
  BY <1>1
<1>14. \A c \in Int : Some(n, c) <=> c \in UNION {atoms[i][1]..atoms[i][2] : i \in DOMAIN atoms}
  BY <1>1, <1>11, SMTT(30)
<1>15. UNION {atoms[i][1]..atoms[i][2] : i \in DOMAIN atoms} \subseteq CodePoints
  BY <1>1, EncodingAssumption DEF CodePoints
<1> HIDE DEF Some
<1> QED
  BY <1>9, <1>12, <1>13, <1>14, <1>15

(***************************************************************************)
(* The inductive invariant: the ranges are apart and cover the class, and  *)
(* once the automaton is built it is that of such ranges, of a literal or  *)
(* the dot.                                                                *)
(***************************************************************************)
RangesOK == AreRanges(ranges) /\ AreApart(ranges)
ClassOK == class \subseteq CodePoints
CoverOK ==
  phase \in {"adding", "negated"} => \A c \in Int : c \in class <=> Covers(ranges, c)

IsOfRanges ==
  \E rs : /\ AreRanges(rs) /\ AreApart(rs)
          /\ \A c \in Int : c \in class <=> Covers(rs, c)
          /\ automaton = OfRanges(rs)
IsOfLiteral == \E c \in CodePoints : class = {c} /\ automaton = Literal(c)
IsDot == class = CodePoints /\ automaton = Dot
AutomatonOK == phase = "built" => IsOfRanges \/ IsOfLiteral \/ IsDot

IInv == RangesOK /\ ClassOK /\ CoverOK /\ AutomatonOK

LEMMA InitIInv == Init => IInv
<1> SUFFICES ASSUME Init PROVE IInv
  OBVIOUS
<1> QED
  BY DEF Init, IInv, RangesOK, ClassOK, CoverOK, AutomatonOK, AreRanges, AreApart, Covers

LEMMA AddsKeeps ==
  ASSUME IInv, NEW rs, NEW code_points, Adds(rs, code_points),
         AreRanges(rs), AreApart(rs), code_points \subseteq CodePoints,
         \A c \in Int : Covers(rs, c) <=> Covers(ranges, c) \/ c \in code_points
  PROVE  IInv'
<1>1. /\ ranges' = rs /\ class' = class \cup code_points
      /\ phase' = phase /\ phase = "adding" /\ automaton' = automaton
  BY DEF Adds
<1>2. RangesOK' /\ ClassOK' /\ AutomatonOK'
  BY <1>1 DEF IInv, RangesOK, ClassOK, AutomatonOK, AreRanges, AreApart
<1>3. CoverOK'
  BY <1>1 DEF IInv, CoverOK, Covers
<1> QED
  BY <1>2, <1>3 DEF IInv

LEMMA NextIInv == IInv /\ [Next]_vars => IInv'
<1> SUFFICES ASSUME IInv, [Next]_vars PROVE IInv'
  OBVIOUS
<1>1. /\ AreRanges(ranges) /\ AreApart(ranges) /\ class \subseteq CodePoints
      /\ EndPoints \subseteq CodePoints
  BY ExpressionAssumption DEF IInv, RangesOK, ClassOK, CodePoints
<1>2. ASSUME NEW lo \in CodePoints, NEW hi \in CodePoints, lo <= hi
      PROVE  lo..hi \subseteq CodePoints
  BY <1>2, EncodingAssumption DEF CodePoints
<1>3. ASSUME NEW lo \in EndPoints, NEW hi \in EndPoints, VisitCcRange(lo, hi)
      PROVE  IInv'
  <2>1. lo <= hi /\ Adds(AddRange(ranges, lo, hi), lo..hi)
    BY <1>1, <1>3, CodePointIsRead DEF VisitCcRange
  <2>2. lo \in CodePoints /\ hi \in CodePoints
    BY <1>1
  <2> DEFINE new == AddRange(ranges, lo, hi)
             added_points == lo..hi
  <2>3. /\ AreRanges(new) /\ AreApart(new)
        /\ \A c \in Int : Covers(new, c) <=> Covers(ranges, c) \/ c \in added_points
    BY <1>1, <2>1, <2>2, AddRangeFacts
  <2>4. added_points \subseteq CodePoints /\ Adds(new, added_points)
    BY <1>2, <2>1, <2>2
  <2> HIDE DEF new, added_points
  <2> QED
    BY <2>3, <2>4, AddsKeeps
<1>4. ASSUME NEW c \in EndPoints, VisitCcSingle(c)
      PROVE  IInv'
  <2>1. c \in CodePoints /\ Adds(AddRange(ranges, c, c), {c})
    BY <1>1, <1>4, CodePointIsRead DEF VisitCcSingle
  <2>2. c \in Int /\ c <= c /\ \A d \in Int : d \in c..c <=> d \in {c}
    BY <2>1, EncodingAssumption DEF CodePoints
  <2> DEFINE new == AddRange(ranges, c, c)
  <2>3. /\ AreRanges(new) /\ AreApart(new)
        /\ \A d \in Int : Covers(new, d) <=> Covers(ranges, d) \/ d \in c..c
    BY <1>1, <2>1, <2>2, AddRangeFacts
  <2>4. {c} \subseteq CodePoints /\ Adds(new, {c})
    BY <2>1
  <2> HIDE DEF new
  <2>5. \A d \in Int : Covers(new, d) <=> Covers(ranges, d) \/ d \in {c}
    BY <2>2, <2>3
  <2> QED
    BY <2>3, <2>4, <2>5, AddsKeeps
<1>5. ASSUME NEW rs \in SharedAtoms, VisitSharedAtom(rs)
      PROVE  IInv'
  <2> DEFINE new == AddedOneByOne(rs)
             added_points == UNION {rs[i][1]..rs[i][2] : i \in DOMAIN rs}
  <2>1. Adds(new, added_points)
    BY <1>5, Zenon DEF VisitSharedAtom, AddedOneByOne
  <2>2. /\ AreRanges(new) /\ AreApart(new)
        /\ \A c \in Int : Covers(new, c) <=> Covers(ranges, c) \/ c \in added_points
        /\ added_points \subseteq CodePoints
    BY <1>1, SharedAtomFacts
  <2> HIDE DEF new, added_points
  <2> QED
    BY <2>1, <2>2, AddsKeeps
<1>6. ASSUME NEW lo, NEW hi, ThrowInvalidRange(lo, hi)
      PROVE  IInv'
  BY <1>6 DEF ThrowInvalidRange, IInv, RangesOK, ClassOK, CoverOK, AutomatonOK,
              AreRanges, AreApart
<1>7. CASE NegateClass
  <2>1. /\ ranges' = Negate(ranges) /\ phase = "adding" /\ phase' = "negated"
        /\ class' = CodePoints \ class
    BY <1>7 DEF NegateClass
  <2>2. /\ AreRanges(Negate(ranges)) /\ AreApart(Negate(ranges))
        /\ \A c \in Int : Covers(Negate(ranges), c) <=> c \in CodePoints /\ ~Covers(ranges, c)
    BY <1>1, NegateFacts
  <2>3. \A c \in Int : c \in class <=> Covers(ranges, c)
    BY <2>1 DEF IInv, CoverOK
  <2>4. RangesOK' /\ ClassOK' /\ AutomatonOK'
    BY <2>1, <2>2 DEF RangesOK, ClassOK, AutomatonOK, AreRanges, AreApart
  <2>5. CoverOK'
    BY <2>1, <2>2, <2>3 DEF CoverOK, Covers
  <2> QED
    BY <2>4, <2>5 DEF IInv
<1>8. CASE BuildCharacterClassAutomaton
  <2>1. /\ phase \in {"adding", "negated"} /\ phase' \in {"undefined", "built"}
        /\ ranges' = {} /\ class' = class /\ automaton' = OfRanges(ranges)
    BY <1>8 DEF BuildCharacterClassAutomaton, OfRanges
  <2>2. \A c \in Int : c \in class <=> Covers(ranges, c)
    BY <2>1 DEF IInv, CoverOK
  <2>3. RangesOK' /\ ClassOK' /\ CoverOK'
    BY <1>1, <2>1 DEF RangesOK, ClassOK, CoverOK, AreRanges, AreApart
  <2>4. IsOfRanges'
    BY <1>1, <2>1, <2>2 DEF IsOfRanges, AreRanges, AreApart, Covers, OfRanges
  <2> QED
    BY <2>3, <2>4 DEF IInv, AutomatonOK
<1>9. ASSUME NEW c \in EndPoints, VisitOther(c)
      PROVE  IInv'
  <2>1. /\ c \in CodePoints /\ automaton' = Literal(c) /\ class' = {c}
        /\ phase' = "built" /\ ranges' = ranges
    BY <1>1, <1>9 DEF VisitOther, IsAtom, Literal
  <2>2. IsOfLiteral'
    BY <2>1 DEF IsOfLiteral, Literal
  <2> QED
    BY <1>1, <2>1, <2>2 DEF IInv, RangesOK, ClassOK, CoverOK, AutomatonOK, AreRanges, AreApart
<1>10. CASE VisitSpecial
  <2>1. /\ automaton' = Dot /\ class' = CodePoints /\ phase' = "built" /\ ranges' = ranges
    BY <1>10 DEF VisitSpecial, IsAtom
  <2>2. IsDot'
    BY <2>1 DEF IsDot, Dot
  <2> QED
    BY <1>1, <2>1, <2>2 DEF IInv, RangesOK, ClassOK, CoverOK, AutomatonOK, AreRanges, AreApart
<1>11. CASE UNCHANGED vars
  <2>1. ranges' = ranges /\ phase' = phase /\ automaton' = automaton /\ class' = class
    BY <1>11 DEF vars
  <2>2. RangesOK' /\ ClassOK' /\ CoverOK'
    BY <2>1 DEF IInv, RangesOK, ClassOK, CoverOK, AreRanges, AreApart, Covers
  <2>3. AutomatonOK'
    BY <2>1 DEF IInv, AutomatonOK, IsOfRanges, IsOfLiteral, IsDot
  <2> QED
    BY <2>2, <2>3 DEF IInv
<1> QED
  BY <1>3, <1>4, <1>5, <1>6, <1>7, <1>8, <1>9, <1>10, <1>11 DEF Next

LEMMA Invariance == Spec => []IInv
<1> QED
  BY InitIInv, NextIInv, PTL DEF Spec

(***************************************************************************)
(* Whatever is added, in whatever order, negated or not, the ranges cover  *)
(* the class and nothing else.                                             *)
(***************************************************************************)
LEMMA IInvCovers == IInv => RangesCoverTheClass
<1> SUFFICES ASSUME IInv, phase \in {"adding", "negated"}
             PROVE  UNION {r[1]..r[2] : r \in ranges} = class
  BY DEF RangesCoverTheClass
<1>1. \A c \in Int : c \in class <=> Covers(ranges, c)
  BY DEF IInv, CoverOK
<1>2. class \subseteq Int
  BY EncodingAssumption DEF IInv, ClassOK, CodePoints
<1>3. \A r \in ranges : r[1] \in Int /\ r[2] \in Int
  BY RangeFacts DEF IInv, RangesOK
<1>4. UNION {r[1]..r[2] : r \in ranges} \subseteq Int
  OBVIOUS
<1>5. \A c \in Int : c \in UNION {r[1]..r[2] : r \in ranges} <=> Covers(ranges, c)
  BY <1>3 DEF Covers
<1> QED
  BY <1>1, <1>2, <1>4, <1>5

(***************************************************************************)
(* However the ranges that are added overlap, touch or contain each other, *)
(* and after negation too, the ranges kept cover the code points of the    *)
(* class and no other.                                                     *)
(***************************************************************************)
THEOREM ClassIsCovered == Spec => []RangesCoverTheClass
BY Invariance, IInvCovers, PTL

(***************************************************************************)
(* No two ranges overlap or touch, so that the gaps between them are what  *)
(* negation leaves.                                                        *)
(***************************************************************************)
THEOREM RangesStayApart == Spec => []RangesAreApart
<1>1. IInv => RangesAreApart
  BY DEF IInv, RangesOK, AreApart, RangesAreApart
<1> QED
  BY <1>1, Invariance, PTL

LEMMA AcceptsIsReads == \A x : Accepts(x) <=> Reads(automaton, x)
BY DEF Accepts, Reads

(***************************************************************************)
(* No code point of a class is missed, whatever the base and the lengths.  *)
(***************************************************************************)
LEMMA IInvMatches == IInv => EveryCodePointIsMatched
<1> SUFFICES ASSUME IInv, phase = "built", NEW c \in class
             PROVE  Accepts(Encode(c, LengthOf(c)))
  BY DEF EveryCodePointIsMatched
<1>1. c \in CodePoints /\ c \in Int
  BY EncodingAssumption DEF IInv, ClassOK, CodePoints
<1>2. CASE IsOfRanges
  <2>1. PICK rs : /\ AreRanges(rs) /\ Covers(rs, c)
                  /\ automaton = OfRanges(rs)
    BY <1>1, <1>2 DEF IsOfRanges
  <2> QED
    BY <1>1, <2>1, ClassReads, AcceptsIsReads
<1>3. CASE IsOfLiteral
  BY <1>1, <1>3, LiteralReads, AcceptsIsReads DEF IsOfLiteral
<1>4. CASE IsDot
  BY <1>1, <1>4, DotReads, AcceptsIsReads DEF IsDot
<1> QED
  BY <1>2, <1>3, <1>4 DEF IInv, AutomatonOK

(***************************************************************************)
(* The automaton that is built over bytes reads the encoding of each code  *)
(* point of the class, for every base and wherever the length of an        *)
(* encoding changes.                                                       *)
(***************************************************************************)
THEOREM CodePointsAreMatched == Spec => []EveryCodePointIsMatched
BY Invariance, IInvMatches, PTL

(***************************************************************************)
(* And no other code point is matched, unless prefixes are joined by a     *)
(* carry: that is the only way.                                            *)
(***************************************************************************)
LEMMA IInvMatchesNothingElse == IInv => NothingElseIsMatchedWithoutCarry
<1> SUFFICES ASSUME IInv, phase = "built",
                    \A k \in 1..Len(FirstOfLength) : ~JoinedByCarry(k),
                    NEW c \in CodePoints \ class, Accepts(Encode(c, LengthOf(c)))
             PROVE  FALSE
  BY DEF NothingElseIsMatchedWithoutCarry
<1>1. c \in CodePoints /\ c \in Int /\ c \notin class
  BY EncodingAssumption DEF CodePoints
<1>2. Reads(automaton, Encode(c, LengthOf(c)))
  BY AcceptsIsReads
<1>3. CASE IsOfRanges
  <2>1. PICK rs : /\ AreRanges(rs) /\ AreApart(rs)
                  /\ \A d \in Int : d \in class <=> Covers(rs, d)
                  /\ automaton = OfRanges(rs)
    BY <1>3 DEF IsOfRanges
  <2>2. \A r \in rs : \A k \in 1..Len(FirstOfLength) :
          PartMeets(r, k) => PartIsApart(r, k)
    BY <2>1, PartsAreApart
  <2>3. Covers(rs, c)
    BY <1>1, <1>2, <2>1, <2>2, ClassReads
  <2> QED
    BY <1>1, <2>1, <2>3
<1>4. CASE IsOfLiteral
  BY <1>1, <1>2, <1>4, LiteralReads DEF IsOfLiteral
<1>5. CASE IsDot
  BY <1>1, <1>5 DEF IsDot
<1> QED
  BY <1>3, <1>4, <1>5 DEF IInv, AutomatonOK

(***************************************************************************)
(* It reads no other encoding, unless the prefixes of the two ends of a    *)
(* range, or those of what is between them, follow each other with a       *)
(* carry.                                                                  *)
(***************************************************************************)
THEOREM OnlyCarriesMatchMore == Spec => []NothingElseIsMatchedWithoutCarry
BY Invariance, IInvMatchesNothingElse, PTL
=============================================================================
