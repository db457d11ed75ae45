------------------------ MODULE StreamMediatorProofs ------------------------
(***************************************************************************)
(* What the algorithm reads out of the buffer it shares with the filter,   *)
(* and what is answered when a group of a match is asked for, for every    *)
(* query, stream and size of buffer.                                       *)
(***************************************************************************)
EXTENDS StreamMediator, FiniteSetTheorems, SequenceTheorems,
        WellFoundedInduction, TLAPS

(***************************************************************************)
(* Positions in the ring.                                                  *)
(***************************************************************************)
LEMMA CellRange ==
  ASSUME NEW p \in Nat, NEW n \in Nat \ {0}
  PROVE  p % n \in 0..n - 1
BY SMT

LEMMA Division ==
  ASSUME NEW p \in Nat, NEW n \in Nat \ {0}
  PROVE  p \div n \in Int /\ p = n * (p \div n) + (p % n)
BY SMT

LEMMA Multiples ==
  ASSUME NEW q \in Int, NEW n \in Nat \ {0}, n * q > 0
  PROVE  n * q >= n
<1>1. q > 0
  <2>1. SUFFICES ASSUME q <= 0 PROVE FALSE BY SMT
  <2>2. n * q <= 0 BY <2>1, SMT
  <2> QED BY <2>2, SMT
<1> QED BY <1>1, SMT

\* Positions less than a turn apart are in different cells.
LEMMA CellsDiffer ==
  ASSUME NEW p \in Nat, NEW r \in Nat, NEW n \in Nat \ {0}, p < r, r - p < n
  PROVE  p % n # r % n
<1> SUFFICES ASSUME p % n = r % n PROVE FALSE OBVIOUS
<1> DEFINE s == r \div n
           t == p \div n
           c == p % n
<1>1. s \in Int /\ t \in Int /\ c \in Int /\ r = n * s + c /\ p = n * t + c
  BY Division, CellRange
<1> HIDE DEF s, t, c
<1>2. n * (s - t) = r - p
  BY <1>1, SMT
<1>3. n * (s - t) >= n
  BY <1>1, <1>2, Multiples, s - t \in Int
<1> QED BY <1>2, <1>3, SMT

LEMMA Remainder ==
  ASSUME NEW n \in Nat \ {0}, NEW q \in Int, NEW c \in 0..n - 1, NEW p \in Nat,
         p = n * q + c
  PROVE  p % n = c
<1> DEFINE s == p \div n
           d == p % n
<1>1. s \in Int /\ d \in 0..n - 1 /\ p = n * s + d
  BY Division, CellRange
<1> HIDE DEF s, d
<1>2. n * (s - q) = c - d /\ n * (q - s) = d - c
  BY <1>1, SMT
<1>3. ~(n * (s - q) > 0) /\ ~(n * (q - s) > 0)
  BY <1>1, <1>2, Multiples, s - q \in Int, q - s \in Int
<1> QED BY <1>1, <1>2, <1>3 DEF d

\* The cells of less than a turn, from that of a position on.
LEMMA CellsInTurn ==
  ASSUME NEW p \in Nat, NEW k \in Nat, NEW n \in Nat \ {0}, k < n
  PROVE  (p + k) % n = IF (p % n) + k < n THEN (p % n) + k ELSE (p % n) + k - n
<1> DEFINE s == p \div n
           c == p % n
<1>1. s \in Int /\ c \in 0..n - 1 /\ p = n * s + c
  BY Division, CellRange
<1> HIDE DEF s, c
<1>2. CASE c + k < n
  <2>1. p + k = n * s + (c + k) /\ c + k \in 0..n - 1 /\ p + k \in Nat
    BY <1>1, <1>2
  <2>2. (p + k) % n = c + k
    BY <1>1, <2>1, Remainder
  <2> QED BY <1>2, <2>2 DEF c
<1>3. CASE ~(c + k < n)
  <2>1. n * (s + 1) = n * s + n
    BY <1>1, SMT
  <2>2. p + k = n * (s + 1) + (c + k - n) /\ c + k - n \in 0..n - 1 /\ p + k \in Nat
        /\ s + 1 \in Int
    BY <1>1, <1>3, <2>1
  <2>3. (p + k) % n = c + k - n
    <3> DEFINE q == s + 1
               d == c + k - n
    <3>1. p + k = n * q + d /\ d \in 0..n - 1 /\ p + k \in Nat /\ q \in Int
      BY <2>2
    <3> HIDE DEF q, d
    <3>2. (p + k) % n = d
      BY <3>1, Remainder
    <3> QED BY <3>2 DEF d
  <2> QED BY <1>3, <2>3 DEF c
<1> QED BY <1>2, <1>3

(***************************************************************************)
(* The buffer holds the last characters read, as many as it has cells.     *)
(***************************************************************************)
KeepsTheLast(b, doc) ==
  /\ b = [cells |-> b.cells, file_pos |-> b.file_pos]
  /\ BufferSize(b) \in Nat \ {0, 1}
  /\ b.cells \in [0..BufferSize(b) - 1 -> Characters \cup {NoChar}]
  /\ b.file_pos \in 0..Size(doc)
  /\ \A p \in Nat : p < b.file_pos /\ b.file_pos - p <= BufferSize(b)
       => b.cells[p % BufferSize(b)] = CharAt(doc, p)

LEMMA CharacterTypes ==
  ASSUME NEW doc \in Seq(Letters), NEW p \in Nat
  PROVE  CharAt(doc, p) \in Characters /\ Size(doc) \in Nat
BY DEF CharAt, Characters, Size

LEMMA SizeOfRing ==
  ASSUME NEW b, NEW n \in Nat, DOMAIN b.cells = 0..n - 1
  PROVE  BufferSize(b) = n
<1>1. Cardinality(0..n - 1) = n
  BY FS_Interval, 0 \in Int, n - 1 \in Int
<1> QED BY <1>1 DEF BufferSize

LEMMA EmptyKeeps ==
  ASSUME NEW doc \in Seq(Letters), NEW n \in BufferSizes
  PROVE  KeepsTheLast(EmptyBuffer(n), doc) /\ EmptyBuffer(n).file_pos = 0
<1> DEFINE b == EmptyBuffer(n)
<1>1. n \in Nat \ {0, 1}
  BY BufferSizesAssumption
<1>2. b.file_pos = 0 /\ b.cells = [i \in 0..n - 1 |-> NoChar]
      /\ b = [cells |-> b.cells, file_pos |-> b.file_pos]
  BY DEF EmptyBuffer
<1>3. BufferSize(b) = n
  BY <1>1, <1>2, SizeOfRing
<1> HIDE DEF b
<1>4. Size(doc) \in Nat
  BY DEF Size
<1>5. b.cells \in [0..n - 1 -> Characters \cup {NoChar}]
  BY <1>2
<1>6. KeepsTheLast(b, doc)
  BY <1>1, <1>2, <1>3, <1>4, <1>5 DEF KeepsTheLast
<1> QED BY <1>2, <1>6 DEF b

LEMMA InsertKeeps ==
  ASSUME NEW doc \in Seq(Letters), NEW b, KeepsTheLast(b, doc),
         b.file_pos < Size(doc)
  PROVE  LET c == Insert(b, CharAt(doc, b.file_pos))
         IN  /\ KeepsTheLast(c, doc)
             /\ c.file_pos = b.file_pos + 1
             /\ BufferSize(c) = BufferSize(b)
<1> DEFINE n == BufferSize(b)
           f == b.file_pos
           char_f == CharAt(doc, f)
           c == Insert(b, char_f)
<1>1. n \in Nat \ {0, 1} /\ b.cells \in [0..n - 1 -> Characters \cup {NoChar}]
      /\ f \in Nat /\ f < Size(doc) /\ Size(doc) \in Nat /\ char_f \in Characters
  BY CharacterTypes DEF KeepsTheLast
<1>2. c.cells = [b.cells EXCEPT ![f % n] = char_f] /\ c.file_pos = f + 1
      /\ c = [cells |-> c.cells, file_pos |-> c.file_pos]
  <2> DEFINE C == b.cells
             D == [C EXCEPT ![f % n] = char_f]
  <2>1. b = [cells |-> C, file_pos |-> f]
    BY DEF KeepsTheLast
  <2>2. c = [b EXCEPT !.cells = [b.cells EXCEPT ![f % n] = char_f],
                      !.file_pos = f + 1]
    BY DEF Insert
  <2>3. c = [b EXCEPT !.cells = D, !.file_pos = f + 1]
    BY <2>2
  <2> HIDE DEF C, D, f, c
  <2>4. c = [cells |-> D, file_pos |-> f + 1]
    BY <2>1, <2>3
  <2> QED BY <2>4 DEF C, D
<1>3. f % n \in 0..n - 1
  BY <1>1, CellRange
<1>4. \A p \in Nat : p < f /\ f - p <= n => b.cells[p % n] = CharAt(doc, p)
  BY DEF KeepsTheLast
<1> HIDE DEF n, f, c, char_f
<1>5. c.cells \in [0..n - 1 -> Characters \cup {NoChar}]
  BY <1>1, <1>2, <1>3
<1>6. BufferSize(c) = n
  BY <1>1, <1>5, SizeOfRing
<1>7. ASSUME NEW p \in Nat, p < f + 1, f + 1 - p <= n
      PROVE  c.cells[p % n] = CharAt(doc, p)
  <2>1. CASE p = f
    BY <1>1, <1>2, <1>3, <2>1 DEF char_f
  <2>2. CASE p < f
    <3>1. p % n # f % n
      <4>1. f - p < n /\ n \in Nat \ {0}
        BY <1>1, <1>7
      <4> QED BY <1>1, <2>2, <4>1, CellsDiffer
    <3>2. p % n \in 0..n - 1
      BY <1>1, CellRange
    <3>3. b.cells[p % n] = CharAt(doc, p)
      BY <1>1, <1>4, <1>7, <2>2
    <3> QED BY <1>1, <1>2, <3>1, <3>2, <3>3
  <2> QED BY <1>1, <1>7, <2>1, <2>2
<1>8. KeepsTheLast(c, doc)
  BY <1>1, <1>2, <1>5, <1>6, <1>7 DEF KeepsTheLast
<1> QED BY <1>2, <1>6, <1>8 DEF c, f, n, char_f

LEMMA KeptIsRead ==
  ASSUME NEW doc \in Seq(Letters), NEW b, KeepsTheLast(b, doc),
         NEW p \in Nat, p < b.file_pos, b.file_pos - p <= BufferSize(b)
  PROVE  At(b, p) = CharAt(doc, p) /\ At(b, p) # NoChar
BY CharacterTypes, NoCharAssumption DEF KeepsTheLast, At

(***************************************************************************)
(* The text of a group. It is in one part or in two.                       *)
(***************************************************************************)
LEMMA GroupIsRead ==
  ASSUME NEW doc \in Seq(Letters), NEW b, KeepsTheLast(b, doc),
         NEW s \in Nat, NEW e \in Nat, s <= e, e <= Len(doc),
         e - s < BufferSize(b), ~SubstrThrows(b, <<s, e>>)
  PROVE  Substr(b, <<s, e>>) = SubSeq(doc, s + 1, e)
<1> DEFINE n == BufferSize(b)
           f == b.file_pos
           start == s % n
           stop == e % n
           text == SubSeq(doc, s + 1, e)
<1>1. n \in Nat \ {0, 1} /\ f \in Nat /\ e <= f /\ (f >= n => s >= f - n)
      /\ \A p \in Nat : p < f /\ f - p <= n => b.cells[p % n] = CharAt(doc, p)
  BY DEF KeepsTheLast, SubstrThrows, Size
<1>2. start \in 0..n - 1 /\ stop \in 0..n - 1
  BY <1>1, CellRange
<1>3. ASSUME NEW k \in 0..n - 1
      PROVE  (s + k) % n = IF start + k < n THEN start + k ELSE start + k - n
  <2>1. k \in Nat /\ k < n /\ n \in Nat \ {0}
    BY <1>1
  <2> HIDE DEF n
  <2> QED BY <2>1, CellsInTurn, ZenonT(30)
<1>4. stop = IF start + (e - s) < n THEN start + (e - s) ELSE start + (e - s) - n
  BY <1>1, <1>3, s + (e - s) = e, e - s \in 0..n - 1
<1>5. ASSUME NEW k \in 1..e - s
      PROVE  b.cells[(s + (k - 1)) % n] = text[k]
  <2>1. s + (k - 1) \in Nat /\ s + (k - 1) < f /\ f - (s + (k - 1)) <= n
        /\ s + (k - 1) < Len(doc) /\ Len(doc) \in Nat
    BY <1>1
  <2>2. b.cells[(s + (k - 1)) % n] = CharAt(doc, s + (k - 1))
    BY <1>1, <2>1
  <2>3. text[k] = doc[s + k]
    BY <2>1
  <2> QED BY <2>1, <2>2, <2>3 DEF CharAt
<1>6. text \in Seq(Letters) /\ Len(text) = e - s
  BY <1>1
<1>7. Bytes(b, start, e - s) =
        [k \in 1..e - s |-> IF start + k - 1 < n THEN b.cells[start + k - 1] ELSE NoChar]
  BY DEF Bytes
<1> HIDE DEF n, f, start, stop, text
<1>8. CASE start > stop
  <2> DEFINE first == [k \in 1..n - start |->
                         IF start + k - 1 < n THEN b.cells[start + k - 1] ELSE NoChar]
             second == [k \in 1..stop |->
                         IF 0 + k - 1 < n THEN b.cells[0 + k - 1] ELSE NoChar]
  <2>1. stop = start + (e - s) - n /\ n - start + stop = e - s
    BY <1>1, <1>2, <1>4, <1>8
  <2>2. GetSegment(b, <<s, e>>) = Bytes(b, start, n - start) \o Bytes(b, 0, stop)
    BY <1>8 DEF GetSegment, n, start, stop
  <2>3. Bytes(b, start, n - start) = first /\ Bytes(b, 0, stop) = second
    BY DEF Bytes, n
  <2>4. ASSUME NEW k \in 1..n - start
        PROVE  first[k] = text[k]
    <3>1. k \in 1..e - s /\ k - 1 \in 0..n - 1 /\ start + (k - 1) < n
          /\ start + k - 1 = start + (k - 1)
      BY <1>1, <1>2, <2>1
    <3>2. (s + (k - 1)) % n = start + (k - 1)
      BY <1>3, <3>1
    <3> QED BY <1>5, <3>1, <3>2
  <2>5. ASSUME NEW k \in 1..stop
        PROVE  second[k] = text[n - start + k]
    <3> DEFINE j == n - start + k
    <3>1. j \in 1..e - s /\ j - 1 \in 0..n - 1 /\ ~(start + (j - 1) < n)
          /\ start + (j - 1) - n = 0 + k - 1 /\ 0 + k - 1 < n
      <4>1. k \in 1..stop /\ stop = start + (e - s) - n /\ n - start + stop = e - s
            /\ start \in 0..n - 1 /\ stop \in 0..n - 1 /\ n \in Nat /\ start > stop
        BY <1>1, <1>2, <1>8, <2>1
      <4>2. j = n - start + k /\ j \in Nat /\ j >= 1 /\ j <= e - s /\ j - 1 <= n - 1
        BY <4>1
      <4> HIDE DEF j
      <4>3. start + (j - 1) - n = k - 1 /\ 0 + k - 1 = k - 1 /\ k - 1 < n
            /\ ~(start + (j - 1) < n)
        BY <4>1, <4>2
      <4> QED BY <4>1, <4>2, <4>3
    <3> HIDE DEF j
    <3>2. (s + (j - 1)) % n = 0 + k - 1
      BY <1>3, <3>1
    <3>3. second[k] = text[j]
      BY <1>5, <3>1, <3>2
    <3> QED BY <3>3 DEF j
  <2>6. DOMAIN first = 1..n - start /\ DOMAIN second = 1..stop
        /\ n - start \in Nat /\ stop \in Nat
    <3>1. n - start \in Nat /\ stop \in Nat
      BY <1>1, <1>2
    <3> QED BY <3>1
  <2>7. first = [k \in 1..n - start |-> first[k]] /\ second = [k \in 1..stop |-> second[k]]
    OBVIOUS
  <2> HIDE DEF first, second
  <2>8. first \o second = text
    <3> DEFINE x == n - start
               both == first \o second
    <3>1. x \in Nat /\ stop \in Nat /\ x + stop = e - s
      BY <2>1, <2>6
    <3>2. \A k \in 1..x : k \in 1..e - s
      BY <3>1
    <3>3. \A k \in 1..stop : x + k \in 1..e - s
      BY <3>1
    <3>4. \A k \in 1..e - s : text[k] \in Letters
      BY <1>6
    <3>5. \A k \in 1..x : first[k] = text[k] /\ first[k] \in Letters
      BY <2>4, <3>2, <3>4
    <3>6. \A k \in 1..stop : second[k] = text[x + k] /\ second[k] \in Letters
      BY <2>5, <3>3, <3>4
    <3>7. first = [k \in 1..x |-> first[k]] /\ second = [k \in 1..stop |-> second[k]]
      BY <2>7
    <3> HIDE DEF x
    <3>8. first \in Seq(Letters) /\ second \in Seq(Letters)
          /\ Len(first) = x /\ Len(second) = stop
      <4>1. first \in [1..x -> Letters] /\ second \in [1..stop -> Letters]
        BY <3>5, <3>6, <3>7
      <4> QED BY <3>1, <4>1
    <3>9. /\ both \in Seq(Letters) /\ Len(both) = e - s
          /\ \A k \in 1..x : both[k] = first[k]
          /\ \A k \in 1..stop : both[x + k] = second[k]
      BY <3>1, <3>8, SMTT(30)
    <3>10. \A k \in 1..e - s : both[k] = text[k]
      <4>1. SUFFICES ASSUME NEW k \in 1..e - s PROVE both[k] = text[k]
        OBVIOUS
      <4>2. k \in 1..x \/ (k - x \in 1..stop /\ x + (k - x) = k)
        BY <3>1
      <4> HIDE DEF both
      <4>3. CASE k \in 1..x
        BY <3>5, <3>9, <4>3
      <4>4. ASSUME k - x \in 1..stop, x + (k - x) = k
            PROVE  both[k] = text[k]
        BY <3>6, <3>9, <4>4
      <4> QED BY <4>2, <4>3, <4>4
    <3> HIDE DEF both
    <3>11. both = text
      BY <1>6, <3>9, <3>10
    <3> QED BY <3>11 DEF both
  <2> QED BY <2>2, <2>3, <2>8 DEF Substr, text
<1>9. CASE ~(start > stop)
  <2>1. start + (e - s) < n
    BY <1>1, <1>2, <1>4, <1>9, e - s < n DEF n
  <2>2. GetSegment(b, <<s, e>>) = Bytes(b, start, e - s)
    BY <1>9 DEF GetSegment, n, start, stop
  <2>3. ASSUME NEW k \in 1..e - s
        PROVE  start + k - 1 < n /\ b.cells[start + k - 1] = text[k]
    <3>1. k - 1 \in 0..n - 1 /\ start + (k - 1) < n /\ start + k - 1 = start + (k - 1)
      BY <1>1, <1>2, <2>1
    <3>2. (s + (k - 1)) % n = start + (k - 1)
      BY <1>3, <3>1
    <3> QED BY <1>5, <3>1, <3>2
  <2>4. Bytes(b, start, e - s) = text
    <3>1. \A k \in 1..e - s :
            (IF start + k - 1 < n THEN b.cells[start + k - 1] ELSE NoChar) = text[k]
      BY <2>3
    <3>2. text = [k \in 1..e - s |-> text[k]]
      BY <1>6
    <3> QED BY <1>7, <3>1, <3>2
  <2> QED BY <2>2, <2>4 DEF Substr, text
<1> QED BY <1>8, <1>9

(***************************************************************************)
(* The inductive invariant. As long as every segment has fitted, the       *)
(* filter alone has read the stream: it is one character ahead of the scan *)
(* and its candidate is in the buffer. The segment that waits for the      *)
(* algorithm, or that is being evaluated, is in the buffer from the        *)
(* position reached on; and when it is the first one that did not fit, the *)
(* stream goes on where the algorithm stands once it has read what the     *)
(* buffer holds.                                                           *)
(***************************************************************************)
SegmentsOK == segments \in Seq([span : Nat \X Nat, fits : BOOLEAN])

AllFit == \A i \in DOMAIN segments : segments[i].fits

TakenOK ==
  /\ taken \in Nat
  /\ \/ taken = Len(segments)
     \/ taken + 1 = Len(segments) /\ mode = "segment" /\ scan = "idle"
     \/ taken = 1 /\ segments = << >> /\ scan = "done"

PositionsOK == i_src \in Nat /\ i_min \in Nat /\ i_max \in Nat

FilterOK ==
  AllFit =>
    /\ read_from_stream => buffer.file_pos = i_src + 1
    /\ ~read_from_stream => buffer.file_pos = i_src /\ i_src = Size(document)
    /\ scan = "scan" => /\ i_max <= i_src /\ i_min <= i_src
                        /\ i_src - i_min < BufferSize(buffer)

Readable(segment) ==
  /\ buffer.file_pos - segment.span[1] <= BufferSize(buffer)
  /\ IF segment.fits
       THEN segment.span[2] < buffer.file_pos \/ buffer.file_pos = Size(document)
       ELSE /\ segment.span[1] <= segment.span[2]
            /\ buffer.file_pos = segment.span[2] + 1

WaitingOK ==
  mode = "segment" /\ taken < Len(segments) /\ NoOverflowBefore(Len(segments))
    => Readable(segments[Len(segments)])

Active == mode \notin {"segment", "thrown", "done"}

Consumed == IF mode = "read" THEN pos + 1 ELSE pos

EvaluatedOK ==
  Active /\ NoOverflowBefore(taken) =>
    /\ pos \in Nat /\ end \in Nat
    /\ pos < end => buffer.file_pos - pos <= BufferSize(buffer)
    /\ end <= buffer.file_pos \/ buffer.file_pos = Size(document)
    /\ Overflowed => buffer.file_pos = IF Consumed > end THEN Consumed ELSE end

ReadInv ==
  /\ document \in Seq(Letters)
  /\ KeepsTheLast(buffer, document)
  /\ SegmentsOK
  /\ TakenOK
  /\ PositionsOK
  /\ FilterOK
  /\ WaitingOK
  /\ EvaluatedOK
  /\ ReadsTheDocument

(***************************************************************************)
(* The filter.                                                             *)
(***************************************************************************)
LEMMA SameBuffer ==
  ASSUME NEW b
  PROVE  /\ SegStr!BufferSize(b) = BufferSize(b)
         /\ SegStr!AfterRead(document, b) =
              IF b.file_pos < Size(document)
                THEN Insert(b, CharAt(document, b.file_pos)) ELSE b
<1>1. ASSUME NEW S PROVE SegStr!Cardinality(S) = Cardinality(S)
  BY Zenon DEF SegStr!Cardinality, Cardinality
<1>2. SegStr!BufferSize(b) = BufferSize(b)
  BY <1>1 DEF SegStr!BufferSize, BufferSize
<1>3. ASSUME NEW c PROVE SegStr!Insert(b, c) = Insert(b, c)
  BY <1>2, Zenon DEF SegStr!Insert, Insert
<1>4. SegStr!AfterRead(document, b) =
        IF b.file_pos < SegStr!Size(document)
          THEN SegStr!Insert(b, SegStr!CharAt(document, b.file_pos)) ELSE b
  BY DEF SegStr!AfterRead, SegStr!CanRead, SegStr!Upcoming
<1>5. SegStr!Size(document) = Size(document)
      /\ SegStr!CharAt(document, b.file_pos) = CharAt(document, b.file_pos)
  BY DEF SegStr!Size, Size, SegStr!CharAt, CharAt
<1> QED
  BY <1>2, <1>3, <1>4, <1>5

LEMMA NothingReadYet ==
  ASSUME Init
  PROVE  ReadInv
<1>1. document \in Seq(Letters)
  BY DocumentSizeAssumption DEF Init, SegStr!Init
<1>2. PICK size \in BufferSizes :
        buffer = SegStr!AfterRead(document, EmptyBuffer(size))
  BY DEF Init, SegStr!Init, SegStr!EmptyBuffer, EmptyBuffer
<1>3. KeepsTheLast(EmptyBuffer(size), document) /\ EmptyBuffer(size).file_pos = 0
  BY <1>1, EmptyKeeps
<1>4. Size(document) \in Nat \ {0}
  BY <1>1 DEF Size
<1>5. buffer = Insert(EmptyBuffer(size), CharAt(document, EmptyBuffer(size).file_pos))
  BY <1>2, <1>3, <1>4, SameBuffer
<1>6. KeepsTheLast(buffer, document) /\ buffer.file_pos = 1
  BY <1>1, <1>3, <1>4, <1>5, InsertKeeps
<1>7. /\ i_src = 0 /\ i_min = 0 /\ i_max = 1 /\ read_from_stream = TRUE
      /\ scan = "start" /\ segments = << >> /\ taken = 0 /\ mode = "segment"
  BY DEF Init, SegStr!Init, Start
<1> QED
  BY <1>1, <1>6, <1>7
  DEF ReadInv, SegmentsOK, TakenOK, PositionsOK, FilterOK, WaitingOK, EvaluatedOK, Active,
      ReadsTheDocument

Waiting(segment) == segment \in [span : Nat \X Nat, fits : BOOLEAN]

\* What the candidate becomes, when the character does not end it.
LEMMA Candidate ==
  ASSUME PositionsOK
  PROVE  /\ SegStr!Min1 \in Nat /\ SegStr!Max1 \in Nat
         /\ i_min <= i_src => SegStr!Min1 \in i_min..i_src + 1
         /\ i_max <= i_src => SegStr!Max1 <= i_src + 1
BY DEF PositionsOK, SegStr!Min1, SegStr!Max1

\* Where a step of the filter leaves the scan.
LEMMA FilterReads ==
  ASSUME ReadInv, SegStr!Next
  PROVE  /\ UNCHANGED document
         /\ KeepsTheLast(buffer, document)'
         /\ PositionsOK'
         /\ AllFit => FilterOK'
<1>1. KeepsTheLast(buffer, document) /\ document \in Seq(Letters) /\ PositionsOK /\ FilterOK
      /\ BufferSize(buffer) \in Nat \ {0, 1} /\ buffer.file_pos \in 0..Size(document)
      /\ Size(document) \in Nat
  BY DEF ReadInv, KeepsTheLast, Size
<1> USE DEF PositionsOK, FilterOK
<1>2. CASE SegStr!EvaluateStartChar
  BY <1>1, <1>2 DEF SegStr!EvaluateStartChar, SegStr!scan
<1>3. CASE SegStr!BeginNext
  BY <1>1, <1>3 DEF SegStr!BeginNext
<1>4. CASE SegStr!ReadOn
  <2>1. /\ UNCHANGED <<document, segments>> /\ scan = "scan" /\ scan' = scan
        /\ read_from_stream
        /\ ~(i_src - SegStr!Min1 >= BufferSize(buffer) - 1 /\ SegStr!Min1 < i_src)
        /\ i_min' = SegStr!Min1 /\ i_max' = SegStr!Max1 /\ i_src' = i_src + 1
        /\ buffer' = SegStr!AfterRead(document, buffer)
        /\ read_from_stream' = (buffer.file_pos < Size(document))
    BY <1>4, SameBuffer
    DEF SegStr!ReadOn, SegStr!Reads, SegStr!Overflows, SegStr!ReadStream,
        SegStr!CanRead, SegStr!Size, Size
  <2>2. PositionsOK' /\ i_src' = i_src + 1
    BY <1>1, <2>1, Candidate
  <2>3. AllFit => /\ i_max' <= i_src' /\ i_min' <= i_src'
                  /\ i_src' - i_min' < BufferSize(buffer)
    <3>1. SUFFICES ASSUME AllFit
                   PROVE  /\ i_max' <= i_src' /\ i_min' <= i_src'
                          /\ i_src' - i_min' < BufferSize(buffer)
      OBVIOUS
    <3>2. i_max <= i_src /\ i_min <= i_src /\ i_src - i_min < BufferSize(buffer)
      BY <1>1, <2>1, <3>1
    <3>3. i_min' \in i_min..i_src + 1 /\ i_max' <= i_src + 1
      BY <1>1, <2>1, <3>2, Candidate
    <3> QED BY <1>1, <2>1, <3>2, <3>3
  <2>4. CASE buffer.file_pos < Size(document)
    <3>1. KeepsTheLast(buffer', document) /\ buffer'.file_pos = buffer.file_pos + 1
          /\ BufferSize(buffer') = BufferSize(buffer)
      BY <1>1, <2>1, <2>4, SameBuffer, InsertKeeps
    <3>2. read_from_stream'
      BY <2>1, <2>4
    <3>3. AllFit => FilterOK'
      BY <1>1, <2>1, <2>2, <2>3, <3>1, <3>2
    <3> QED BY <2>1, <2>2, <3>1, <3>3
  <2>5. CASE ~(buffer.file_pos < Size(document))
    <3>1. buffer' = buffer
      BY <2>1, <2>5, SameBuffer
    <3>2. ~read_from_stream'
      BY <2>1, <2>5
    <3>3. AllFit => FilterOK'
      BY <1>1, <2>1, <2>2, <2>3, <2>5, <3>1, <3>2
    <3> QED BY <1>1, <2>1, <2>2, <3>1, <3>3
  <2> QED BY <2>4, <2>5
<1>5. CASE SegStr!ReturnSegment
  BY <1>1, <1>5 DEF SegStr!ReturnSegment, SegStr!Returns, SegStr!scan
<1>6. CASE SegStr!ReturnOverflow
  <2>1. /\ UNCHANGED <<document, buffer, i_src, read_from_stream>>
        /\ i_min' = SegStr!Min1 /\ i_max' = i_src /\ scan = "scan" /\ scan' = "idle"
    BY <1>6 DEF SegStr!ReturnOverflow, SegStr!Returns, SegStr!Reads
  <2> QED BY <1>1, <2>1, Candidate
<1>7. CASE SegStr!ReturnLastSegment
  BY <1>1, <1>7 DEF SegStr!ReturnLastSegment, SegStr!Returns, SegStr!scan
<1>8. CASE SegStr!ReturnNone
  BY <1>1, <1>8 DEF SegStr!ReturnNone
<1>9. CASE SegStr!ThrowComplexQuery
  BY <1>1, <1>9 DEF SegStr!ThrowComplexQuery, SegStr!scan
<1> QED
  BY <1>2, <1>3, <1>4, <1>5, <1>6, <1>7, <1>8, <1>9 DEF SegStr!Next

\* What it returns is in the buffer.
LEMMA FilterReturns ==
  ASSUME ReadInv, SegStr!Next
  PROVE  \/ UNCHANGED segments
         \/ /\ buffer' = buffer /\ document' = document /\ scan' = "idle"
            /\ \E r : /\ segments' = Append(segments, r)
                      /\ Waiting(r) /\ (AllFit => Readable(r))
<1>1. KeepsTheLast(buffer, document) /\ document \in Seq(Letters) /\ PositionsOK /\ FilterOK
      /\ BufferSize(buffer) \in Nat \ {0, 1} /\ buffer.file_pos \in 0..Size(document)
      /\ Size(document) \in Nat
  BY DEF ReadInv, KeepsTheLast, Size
<1>2. CASE SegStr!EvaluateStartChar \/ SegStr!BeginNext \/ SegStr!ReadOn
           \/ SegStr!ReturnNone \/ SegStr!ThrowComplexQuery
  BY <1>2 DEF SegStr!EvaluateStartChar, SegStr!BeginNext, SegStr!ReadOn,
              SegStr!ReturnNone, SegStr!ThrowComplexQuery
<1>3. CASE SegStr!ReturnSegment \/ SegStr!ReturnLastSegment
  <2> DEFINE r == [span |-> <<i_min, i_max>>, fits |-> TRUE]
  <2>1. /\ segments' = Append(segments, r) /\ scan' = "idle" /\ scan = "scan"
        /\ buffer' = buffer /\ document' = document
    BY <1>3 DEF SegStr!ReturnSegment, SegStr!ReturnLastSegment, SegStr!Returns,
                SegStr!Reads
  <2>2. r.span[1] = i_min /\ r.span[2] = i_max /\ r.fits = TRUE
    OBVIOUS
  <2>3. AllFit => Readable(r)
    <3> HIDE DEF r
    <3> QED BY <1>1, <2>1, <2>2 DEF PositionsOK, FilterOK, Readable
  <2>4. Waiting(r)
    BY <1>1 DEF PositionsOK, Waiting
  <2> QED BY <2>1, <2>3, <2>4
<1>4. CASE SegStr!ReturnOverflow
  <2> DEFINE r == [span |-> <<SegStr!Min1, i_src>>, fits |-> FALSE]
  <2>1. /\ segments' = Append(segments, r) /\ scan' = "idle" /\ scan = "scan"
        /\ buffer' = buffer /\ document' = document
        /\ read_from_stream /\ SegStr!Min1 < i_src
    BY <1>4 DEF SegStr!ReturnOverflow, SegStr!Returns, SegStr!Reads, SegStr!Overflows
  <2>2. r.span[1] = SegStr!Min1 /\ r.span[2] = i_src /\ r.fits = FALSE
    OBVIOUS
  <2>3. AllFit => Readable(r)
    <3> HIDE DEF r
    <3> QED BY <1>1, <2>1, <2>2, Candidate DEF PositionsOK, FilterOK, Readable
  <2>4. Waiting(r)
    BY <1>1, Candidate DEF PositionsOK, Waiting
  <2> QED BY <2>1, <2>3, <2>4
<1> QED
  BY <1>2, <1>3, <1>4 DEF SegStr!Next

LEMMA AskingKeeps ==
  ASSUME ReadInv, AskForSegment
  PROVE  ReadInv'
<1>1. /\ mode = "segment" /\ mode' = "segment" /\ taken' = taken
      /\ taken = Len(segments) /\ SegStr!Next
  BY DEF AskForSegment
<1>2. /\ UNCHANGED document /\ KeepsTheLast(buffer, document)' /\ PositionsOK'
      /\ AllFit => FilterOK'
  BY <1>1, FilterReads
<1>3. document \in Seq(Letters) /\ SegmentsOK /\ taken \in Nat
  BY DEF ReadInv, TakenOK
<1>4. EvaluatedOK' /\ ReadsTheDocument'
  BY <1>1 DEF EvaluatedOK, Active, ReadsTheDocument
<1>5. CASE UNCHANGED segments
  <2>1. FilterOK'
    <3>1. AllFit' => AllFit
      BY <1>5 DEF AllFit
    <3> QED BY <1>2, <3>1 DEF FilterOK
  <2>2. SegmentsOK' /\ TakenOK' /\ WaitingOK'
    BY <1>1, <1>3, <1>5 DEF SegmentsOK, TakenOK, WaitingOK
  <2> QED BY <1>2, <1>3, <1>4, <2>1, <2>2 DEF ReadInv
<1>6. ASSUME buffer' = buffer, scan' = "idle", NEW r, segments' = Append(segments, r), Waiting(r),
             AllFit => Readable(r)
      PROVE  ReadInv'
  <2>1. SegmentsOK' /\ Len(segments') = Len(segments) + 1 /\ Len(segments) \in Nat
        /\ segments'[Len(segments')] = r
        /\ \A i \in 1..Len(segments) : segments'[i] = segments[i]
    BY <1>3, <1>6 DEF SegmentsOK, Waiting
  <2>2. \A i \in DOMAIN segments : i \in 1..Len(segments)
        /\ i \in DOMAIN segments' /\ i \in 1..Len(segments') - 1
    <3>1. DOMAIN segments = 1..Len(segments)
      BY <1>3 DEF SegmentsOK
    <3>2. DOMAIN segments' = 1..Len(segments')
      BY <2>1 DEF SegmentsOK
    <3> QED BY <2>1, <3>1, <3>2
  <2>3. (AllFit' => AllFit) /\ (NoOverflowBefore(Len(segments))' => AllFit)
    BY <2>1, <2>2 DEF AllFit, NoOverflowBefore
  <2>4. FilterOK'
    BY <1>2, <2>3 DEF FilterOK
  <2>5. TakenOK'
    BY <1>1, <1>3, <1>6, <2>1 DEF TakenOK
  <2>6. WaitingOK'
    <3>1. Readable(r) => Readable(segments[Len(segments)])'
      BY <1>2, <1>6, <2>1 DEF Readable
    <3> QED BY <1>6, <2>3, <3>1 DEF WaitingOK
  <2> QED BY <1>2, <1>3, <1>4, <2>1, <2>4, <2>5, <2>6 DEF ReadInv
<1> QED
  BY <1>1, <1>5, <1>6, FilterReturns

(***************************************************************************)
(* The algorithm. Most of its actions neither read nor move on.            *)
(***************************************************************************)
Computes ==
  \/ EvaluateSingleCharacter
  \/ UpdateSets
  \/ CreateRootNodeToEnumerate
  \/ NextMapping

LEMMA ComputingReadsNothing ==
  ASSUME Computes
  PROVE  /\ UNCHANGED <<document, char, pos, end>>
         /\ Active
         /\ mode' = mode \/ ~Active' \/ (mode # "read" /\ mode' # "read")
<1> USE DEF Active, input
<1>1. ASSUME EvaluateSingleCharacter
      PROVE  /\ UNCHANGED <<document, char, pos, end>> /\ Active
             /\ mode' = mode \/ ~Active'
  BY <1>1 DEF EvaluateSingleCharacter, GetNextStates, ThrowComplexQuery, DieOut,
              LeaveState, Leave, Visiting
<1>2. ASSUME NEW p \in pairs, HandOn(p) \/ ThrowMemoryLimitAtHandOn(p)
      PROVE  /\ UNCHANGED <<document, char, pos, end>> /\ Active
             /\ mode' = mode \/ ~Active'
  BY <1>2 DEF HandOn, HandOnAs, ThrowMemoryLimitAtHandOn, ThrowMemoryLimitAs, Visiting
<1>3. CASE CreateRootNodeToEnumerate
  BY <1>3 DEF CreateRootNodeToEnumerate, ReleaseRoot, TakeFirstFinalState,
              JoinFinalState, ThrowMemoryLimitAtJoin
<1>4. CASE NextMapping
  BY <1>4 DEF NextMapping, StartEnumeration, FinishSegment, Enumerate, ResetEnumerator
<1> QED
  BY <1>1, <1>2, <1>3, <1>4 DEF Computes, UpdateSets

LEMMA EvaluatingKeeps ==
  ASSUME ReadInv, Evaluate
  PROVE  ReadInv'
<1>1. /\ document \in Seq(Letters) /\ KeepsTheLast(buffer, document) /\ SegmentsOK
      /\ BufferSize(buffer) \in Nat \ {0, 1} /\ buffer.file_pos \in Nat
      /\ buffer.file_pos <= Size(document) /\ Size(document) \in Nat
      /\ TakenOK /\ PositionsOK /\ FilterOK /\ EvaluatedOK /\ ReadsTheDocument
  BY DEF ReadInv, KeepsTheLast, Size
<1>2. UNCHANGED <<dfa, catalog, i_src, i_min, i_max, scan, segments, taken>>
  BY DEF Evaluate, filter
<1>3. (NoOverflowBefore(taken)' <=> NoOverflowBefore(taken)) /\ PositionsOK' /\ SegmentsOK'
      /\ (AllFit' <=> AllFit) /\ (Overflowed' <=> Overflowed)
  BY <1>1, <1>2 DEF NoOverflowBefore, PositionsOK, SegmentsOK, AllFit, Overflowed
<1>4. ASSUME Active
      PROVE  TakenOK' /\ WaitingOK'
  BY <1>1, <1>2, <1>4 DEF TakenOK, WaitingOK, Active, SegmentsOK
<1>5. ASSUME UNCHANGED <<document, buffer, read_from_stream>>
      PROVE  KeepsTheLast(buffer, document)' /\ FilterOK'
  BY <1>1, <1>2, <1>3, <1>5 DEF FilterOK
<1>6. CASE Computes /\ UNCHANGED stream
  <2>1. UNCHANGED <<document, buffer, read_from_stream>>
    BY <1>6, ComputingReadsNothing DEF stream
  <2>2. /\ UNCHANGED <<char, pos, end>> /\ Active
        /\ mode' = mode \/ ~Active' \/ (mode # "read" /\ mode' # "read")
    BY <1>6, ComputingReadsNothing
  <2>3. Active' => Consumed' = Consumed
    BY <2>2 DEF Consumed
  <2>4. EvaluatedOK'
    BY <1>1, <1>3, <2>1, <2>2, <2>3 DEF EvaluatedOK
  <2>5. ReadsTheDocument'
    BY <1>1, <1>3, <2>1, <2>2 DEF ReadsTheDocument, Active
  <2> QED BY <1>1, <1>3, <1>4, <1>5, <2>1, <2>2, <2>4, <2>5 DEF ReadInv
<1>7. CASE SwapStateLists /\ UNCHANGED stream
  <2>1. /\ UNCHANGED <<document, buffer, read_from_stream, end>>
        /\ mode \in {"start", "read"} /\ mode' \in {"root", "evaluate"}
        /\ pos' = IF mode = "start" THEN pos ELSE pos + 1
    BY <1>7 DEF SwapStateLists, input, stream
  <2>2. Active /\ Consumed' = Consumed
    BY <2>1 DEF Active, Consumed
  <2>3. EvaluatedOK'
    BY <1>1, <1>3, <2>1, <2>2 DEF EvaluatedOK
  <2>4. ReadsTheDocument'
    BY <2>1 DEF ReadsTheDocument
  <2> QED BY <1>1, <1>3, <1>4, <1>5, <2>1, <2>2, <2>3, <2>4 DEF ReadInv
<1>8. CASE ReadBack
  <2>1. /\ UNCHANGED <<document, buffer, read_from_stream, pos, end>>
        /\ mode = "evaluate" /\ mode' = "read" /\ pos < end
        /\ At(buffer, pos) # NoChar => char' = At(buffer, pos)
    BY <1>8 DEF ReadBack, stream
  <2>2. Active /\ Consumed = pos /\ Consumed' = pos + 1
    BY <2>1 DEF Active, Consumed
  <2>3. EvaluatedOK'
    BY <1>1, <1>3, <2>1, <2>2 DEF EvaluatedOK
  <2>4. ASSUME NoOverflowBefore(taken), pos < Size(document)
        PROVE  char' = CharAt(document, pos)
    <3>1. pos \in Nat /\ pos < buffer.file_pos
          /\ buffer.file_pos - pos <= BufferSize(buffer)
      BY <1>1, <2>1, <2>2, <2>4 DEF EvaluatedOK
    <3> QED BY <1>1, <2>1, <3>1, KeptIsRead
  <2>5. ReadsTheDocument'
    BY <1>3, <2>1, <2>4 DEF ReadsTheDocument
  <2> QED BY <1>1, <1>3, <1>4, <1>5, <2>1, <2>2, <2>3, <2>5 DEF ReadInv
<1>9. CASE ReadStream
  <2>1. /\ UNCHANGED <<document, read_from_stream, pos, end>>
        /\ mode = "evaluate" /\ mode' = "read" /\ pos >= end
        /\ Overflowed /\ buffer.file_pos < Size(document)
        /\ char' = CharAt(document, buffer.file_pos)
        /\ buffer' = SegStr!AfterRead(document, buffer)
    BY <1>9 DEF ReadStream, SegStr!CanRead, SegStr!Upcoming, SegStr!CharAt, CharAt,
                SegStr!Size, Size
  <2>2. Active /\ Consumed = pos /\ Consumed' = pos + 1
    BY <2>1 DEF Active, Consumed
  <2>3. /\ KeepsTheLast(buffer', document) /\ buffer'.file_pos = buffer.file_pos + 1
        /\ BufferSize(buffer') = BufferSize(buffer)
    BY <1>1, <2>1, SameBuffer, InsertKeeps
  <2>4. ~AllFit
    BY <1>1, <2>1 DEF Overflowed, AllFit, SegmentsOK, Last
  <2>5. NoOverflowBefore(taken) => pos \in Nat /\ end \in Nat /\ buffer.file_pos = pos
    BY <1>1, <2>1, <2>2 DEF EvaluatedOK
  <2>6. EvaluatedOK'
    BY <1>1, <1>3, <2>1, <2>2, <2>3, <2>5 DEF EvaluatedOK
  <2>7. ReadsTheDocument'
    BY <1>3, <2>1, <2>5 DEF ReadsTheDocument
  <2>8. FilterOK'
    BY <1>3, <2>4 DEF FilterOK
  <2> QED BY <1>1, <1>3, <1>4, <2>1, <2>2, <2>3, <2>6, <2>7, <2>8 DEF ReadInv
<1>10. CASE EndOfStreamSegment
  <2>1. /\ UNCHANGED <<document, buffer, read_from_stream, pos, end, char>>
        /\ mode = "evaluate" /\ mode' = "root"
    BY <1>10 DEF EndOfStreamSegment, EndOfSegment, input, stream
  <2>2. Active /\ Consumed = pos /\ Consumed' = pos
    BY <2>1 DEF Active, Consumed
  <2>3. EvaluatedOK'
    BY <1>1, <1>3, <2>1, <2>2 DEF EvaluatedOK
  <2>4. ReadsTheDocument'
    BY <2>1 DEF ReadsTheDocument
  <2> QED BY <1>1, <1>3, <1>4, <1>5, <2>1, <2>2, <2>3, <2>4 DEF ReadInv
<1> QED
  BY <1>6, <1>7, <1>8, <1>9, <1>10 DEF Evaluate, Computes

(***************************************************************************)
(* The mediator.                                                           *)
(***************************************************************************)
LEMMA TakingKeeps ==
  ASSUME ReadInv, TakeSegment \/ TakeNull \/ ReturnNull
  PROVE  ReadInv'
<1>1. /\ document \in Seq(Letters) /\ KeepsTheLast(buffer, document) /\ SegmentsOK
      /\ BufferSize(buffer) \in Nat \ {0, 1} /\ buffer.file_pos \in Nat
      /\ buffer.file_pos <= Size(document) /\ Size(document) \in Nat
      /\ TakenOK /\ PositionsOK /\ FilterOK /\ WaitingOK
  BY DEF ReadInv, KeepsTheLast, Size
<1>2. UNCHANGED <<document, buffer, read_from_stream, i_src, i_min, i_max, scan, segments>>
  BY DEF TakeSegment, TakeNull, ReturnNull, UpdateAlgorithm, filter, stream, input
<1>3. PositionsOK' /\ SegmentsOK' /\ FilterOK' /\ KeepsTheLast(buffer, document)'
  BY <1>1, <1>2 DEF PositionsOK, SegmentsOK, FilterOK, AllFit
<1>4. CASE TakeSegment
  <2> DEFINE r == segments[Len(segments)]
  <2>1. /\ mode = "segment" /\ mode' \in {"start", "evaluate"}
        /\ taken < Len(segments) /\ taken' = taken + 1
        /\ pos' = r.span[1] /\ end' = r.span[2] + 1
    BY <1>4 DEF TakeSegment, UpdateAlgorithm, BeginAt, Widened, Last
  <2>2. taken' = Len(segments) /\ taken' \in Nat /\ segments # << >>
        /\ r \in [span : Nat \X Nat, fits : BOOLEAN]
    <3>1. Len(segments) \in Nat /\ segments \in Seq([span : Nat \X Nat, fits : BOOLEAN])
      BY <1>1 DEF SegmentsOK
    <3>2. taken' = Len(segments) /\ taken' \in Nat \ {0}
      BY <1>1, <2>1, <3>1 DEF TakenOK
    <3>3. segments # << >>
      BY <3>2
    <3>4. r \in [span : Nat \X Nat, fits : BOOLEAN]
      <4> DEFINE S == [span : Nat \X Nat, fits : BOOLEAN]
      <4>1. segments \in Seq(S) /\ Len(segments) \in 1..Len(segments)
        BY <3>1, <3>2
      <4> HIDE DEF S
      <4>2. r \in S
        BY <4>1
      <4> QED BY <4>2 DEF S
    <3> QED BY <3>2, <3>3, <3>4
  <2>3. TakenOK' /\ WaitingOK'
    BY <1>2, <2>1, <2>2 DEF TakenOK, WaitingOK
  <2>4. NoOverflowBefore(taken)' => NoOverflowBefore(Len(segments))
    BY <1>2, <2>2 DEF NoOverflowBefore
  <2>5. NoOverflowBefore(taken)' => Readable(r)
    BY <1>1, <2>1, <2>4 DEF WaitingOK
  <2>6. Overflowed' <=> ~r.fits
    BY <1>2, <2>2 DEF Overflowed, Last
  <2>7. Consumed' = pos'
    BY <2>1 DEF Consumed
  <2>8. r.span[1] \in Nat /\ r.span[2] \in Nat
    BY <2>2
  <2>9. EvaluatedOK'
    <3> HIDE DEF r
    <3>1. SUFFICES ASSUME NoOverflowBefore(taken)'
                   PROVE  /\ pos' \in Nat /\ end' \in Nat
                          /\ buffer.file_pos - pos' <= BufferSize(buffer)
                          /\ end' <= buffer.file_pos \/ buffer.file_pos = Size(document)
                          /\ ~r.fits => pos' <= end' /\ buffer.file_pos = end'
      BY <1>2, <2>6, <2>7 DEF EvaluatedOK
    <3>2. Readable(r)
      BY <2>5, <3>1
    <3>3. /\ buffer.file_pos - r.span[1] <= BufferSize(buffer)
          /\ r.fits => r.span[2] < buffer.file_pos \/ buffer.file_pos = Size(document)
          /\ ~r.fits => r.span[1] <= r.span[2] /\ buffer.file_pos = r.span[2] + 1
      BY <3>2 DEF Readable
    <3>4. CASE r.fits
      <4>1. end' <= buffer.file_pos \/ buffer.file_pos = Size(document)
        BY <1>1, <2>1, <2>8, <3>3, <3>4
      <4> QED BY <2>1, <2>8, <3>3, <3>4, <4>1
    <3>5. CASE ~r.fits
      <4>1. pos' <= end' /\ buffer.file_pos = end' /\ end' <= buffer.file_pos
        BY <1>1, <2>1, <2>8, <3>3, <3>5
      <4> QED BY <2>1, <2>8, <3>3, <3>5, <4>1
    <3> QED BY <3>4, <3>5
  <2>10. ReadsTheDocument'
    BY <2>1 DEF ReadsTheDocument
  <2> QED BY <1>1, <1>2, <1>3, <2>3, <2>9, <2>10 DEF ReadInv
<1>5. CASE TakeNull
  <2>1. /\ mode' = "start" /\ scan = "done" /\ taken = 0 /\ taken' = 1
        /\ mode = "segment" /\ pos' = 0 /\ end' = 0
    BY <1>5 DEF TakeNull, UpdateAlgorithm, BeginAt
  <2>2. segments = << >>
    <3>1. Len(segments) = 0
      BY <1>1, <2>1 DEF TakenOK
    <3> QED BY <1>1, <3>1 DEF SegmentsOK
  <2>3. TakenOK' /\ WaitingOK'
    BY <1>2, <2>1, <2>2 DEF TakenOK, WaitingOK
  <2>4. ~Overflowed' /\ Consumed' = 0
    BY <1>2, <2>1, <2>2 DEF Overflowed, Consumed
  <2>5. EvaluatedOK' /\ ReadsTheDocument'
    BY <1>1, <1>2, <2>1, <2>4 DEF EvaluatedOK, ReadsTheDocument
  <2> QED BY <1>1, <1>2, <1>3, <2>3, <2>5 DEF ReadInv
<1>6. CASE ReturnNull
  <2>1. /\ mode = "segment" /\ mode' = scan /\ taken' = taken
        /\ scan = "thrown" \/ (scan = "done" /\ taken > 0)
    BY <1>6 DEF ReturnNull
  <2>2. TakenOK' /\ WaitingOK' /\ EvaluatedOK' /\ ReadsTheDocument'
    BY <1>1, <1>2, <2>1 DEF TakenOK, WaitingOK, EvaluatedOK, Active, ReadsTheDocument
  <2> QED BY <1>1, <1>2, <1>3, <2>2 DEF ReadInv
<1> QED BY <1>4, <1>5, <1>6

LEMMA NothingMoves ==
  ASSUME ReadInv, UNCHANGED vars
  PROVE  ReadInv'
<1>1. /\ UNCHANGED <<document, buffer, i_src, i_min, i_max, read_from_stream, scan>>
      /\ UNCHANGED <<segments, taken, mode, pos, end, char>>
  BY DEF vars, filter, stream, algorithm, input
<1> QED
  BY <1>1
  DEF ReadInv, SegmentsOK, TakenOK, PositionsOK, FilterOK, WaitingOK, EvaluatedOK,
      ReadsTheDocument, AllFit, NoOverflowBefore, Readable, Active, Consumed, Overflowed

LEMMA ReadInvariance == Spec => []ReadInv
<1>1. Init => ReadInv
  BY NothingReadYet
<1>2. ReadInv /\ [Next]_vars => ReadInv'
  BY AskingKeeps, EvaluatingKeeps, TakingKeeps, NothingMoves
  DEF Next, Stream, StreamMulti, NextAnswer
<1> QED
  BY <1>1, <1>2, PTL DEF Spec

\* What the algorithm reads at a position of a segment is the character of the
\* document there, in every state, however small the buffer and however far
\* the filter has read ahead.
THEOREM BufferIsRead == Spec => []ReadsTheDocument
<1>1. ReadInv => ReadsTheDocument
  BY DEF ReadInv
<1> QED
  BY <1>1, ReadInvariance, PTL

\* Any part of the document that is shorter than the buffer.
TextIsKeptOrRefused ==
  \A s, e \in 0..Len(document) :
    s <= e /\ e - s < BufferSize(buffer)
      => \/ SubstrThrows(buffer, <<s, e>>)
         \/ Substr(buffer, <<s, e>>) = SubSeq(document, s + 1, e)

\* group() never returns what is not in the document: whenever it is asked for
\* a span, the buffer still holds all of its text, or substr throws.
THEOREM GroupsAreKeptOrRefused == Spec => []TextIsKeptOrRefused
<1>1. ReadInv => TextIsKeptOrRefused
  <2>1. SUFFICES ASSUME ReadInv, NEW s \in 0..Len(document), NEW e \in 0..Len(document),
                        s <= e, e - s < BufferSize(buffer),
                        ~SubstrThrows(buffer, <<s, e>>)
                 PROVE  Substr(buffer, <<s, e>>) = SubSeq(document, s + 1, e)
    BY DEF TextIsKeptOrRefused
  <2>2. document \in Seq(Letters) /\ KeepsTheLast(buffer, document)
    BY <2>1 DEF ReadInv
  <2>3. s \in Nat /\ e \in Nat /\ e <= Len(document)
    BY <2>2
  <2> QED BY <2>1, <2>2, <2>3, GroupIsRead
<1> QED
  BY <1>1, ReadInvariance, PTL

----------------------------------------------------------------------------
(***************************************************************************)
(* Recursive functions: one exists for each step.                          *)
(***************************************************************************)
LEMMA LeastNumber ==
  ASSUME NEW T, T \subseteq Nat, T # {}
  PROVE  \E x \in T : \A y \in T : ~(y < x)
<1> DEFINE R == {ss \in Nat \X Nat : ss[1] < ss[2]}
<1>1. IsWellFoundedOn(R, Nat)
  BY NatLessThanWellFounded, Zenon DEF OpToRel
<1>2. \E x \in T : \A y \in T : ~(<<y, x>> \in R)
  <2> HIDE DEF R
  <2> QED
    BY <1>1, WFMin
<1> QED
  BY <1>2

Follows(f, n, base, step) ==
  f = [i \in 0..n |-> IF i = 0 THEN base ELSE step[<<i, f[i - 1]>>]]

LEMMA OneMoreStep ==
  ASSUME NEW T, NEW n \in Nat, NEW base \in T, NEW k \in 1..n,
         NEW step \in [(1..n) \X T -> T],
         NEW f \in [0..(k - 1) -> T], Follows(f, k - 1, base, step)
  PROVE  \E g \in [0..k -> T] : Follows(g, k, base, step)
<1> DEFINE g == [i \in 0..k |-> IF i = k THEN step[<<k, f[k - 1]>>] ELSE f[i]]
<1>1. f[k - 1] \in T /\ step[<<k, f[k - 1]>>] \in T
  OBVIOUS
<1>2. g \in [0..k -> T]
  BY <1>1
<1>3. \A i \in 0..k - 1 : g[i] = f[i]
  OBVIOUS
<1>4. g[k] = step[<<k, f[k - 1]>>] /\ g = [i \in 0..k |-> g[i]]
  OBVIOUS
<1>5. \A i \in 0..k - 1 : f[i] = IF i = 0 THEN base ELSE step[<<i, f[i - 1]>>]
  BY DEF Follows
<1> HIDE DEF g
<1>6. ASSUME NEW i \in 0..k
      PROVE  g[i] = IF i = 0 THEN base ELSE step[<<i, g[i - 1]>>]
  <2>1. CASE i = k
    <3>1. k - 1 \in 0..k - 1 /\ k # 0
      OBVIOUS
    <3>2. g[k - 1] = f[k - 1]
      BY <1>3, <3>1
    <3> QED
      BY <1>4, <2>1, <3>1, <3>2
  <2>2. CASE i # k
    <3>1. i \in 0..k - 1 /\ (i # 0 => i - 1 \in 0..k - 1)
      BY <2>2
    <3> QED
      BY <1>3, <1>5, <3>1
  <2> QED
    BY <2>1, <2>2
<1>7. Follows(g, k, base, step)
  BY <1>4, <1>6 DEF Follows
<1> QED
  BY <1>2, <1>7

LEMMA Recursion ==
  ASSUME NEW T, NEW n \in Nat, NEW base \in T, NEW step \in [(1..n) \X T -> T]
  PROVE  \E f \in [0..n -> T] : Follows(f, n, base, step)
<1> DEFINE Has(k) == \E f \in [0..k -> T] : Follows(f, k, base, step)
           W == {k \in 0..n : ~Has(k)}
<1>1. SUFFICES ASSUME W # {} PROVE FALSE
  OBVIOUS
<1>2. PICK k \in W : \A y \in W : ~(y < k)
  <2>1. W \subseteq Nat
    OBVIOUS
  <2> HIDE DEF W
  <2> QED
    BY <1>1, <2>1, LeastNumber
<1>3. Has(0)
  <2> DEFINE f == [i \in 0..0 |-> base]
  <2>1. f \in [0..0 -> T]
    OBVIOUS
  <2>2. f = [i \in 0..0 |-> IF i = 0 THEN base ELSE step[<<i, f[i - 1]>>]]
    <3>1. \A i \in 0..0 : i = 0
      OBVIOUS
    <3> QED
      BY <3>1
  <2> HIDE DEF f
  <2> QED
    BY <2>1, <2>2 DEF Follows
<1>4. k \in 1..n
  <2>1. k \in 0..n /\ ~Has(k)
    OBVIOUS
  <2> HIDE DEF Has
  <2> QED
    BY <1>3, <2>1
<1>5. Has(k - 1)
  <2>1. k - 1 \in 0..n /\ k - 1 < k
    BY <1>4
  <2> HIDE DEF Has
  <2> QED
    BY <1>2, <2>1
<1>6. PICK f \in [0..(k - 1) -> T] : Follows(f, k - 1, base, step)
  BY <1>5
<1>7. Has(k)
  BY <1>4, <1>6, OneMoreStep
<1> QED
  BY <1>7


\* And any function that goes by that step stays among the values of the step.
GoesBy(f, n, T, base, step) ==
  /\ f = [i \in 0..n |-> f[i]]
  /\ f[0] = base
  /\ \A i \in 1..n : f[i - 1] \in T => f[i] = step[<<i, f[i - 1]>>]

LEMMA StepsStayInside ==
  ASSUME NEW T, NEW n \in Nat, NEW base \in T, NEW step \in [(1..n) \X T -> T],
         NEW f, GoesBy(f, n, T, base, step)
  PROVE  f \in [0..n -> T]
<1>0. /\ f = [i \in 0..n |-> f[i]] /\ f[0] = base
      /\ \A i \in 1..n : f[i - 1] \in T => f[i] = step[<<i, f[i - 1]>>]
  BY DEF GoesBy
<1> DEFINE W == {i \in 0..n : f[i] \notin T}
<1>1. SUFFICES ASSUME W # {} PROVE FALSE
  BY <1>0
<1>2. PICK i \in W : \A y \in W : ~(y < i)
  <2>1. W \subseteq Nat
    OBVIOUS
  <2> HIDE DEF W
  <2> QED
    BY <1>1, <2>1, LeastNumber
<1>3. i \in 1..n
  BY <1>0
<1>4. f[i - 1] \in T
  <2>1. i - 1 \in 0..n /\ i - 1 < i
    BY <1>3
  <2> QED
    BY <1>2, <2>1
<1>5. f[i] = step[<<i, f[i - 1]>>]
  BY <1>0, <1>3, <1>4
<1>6. f[i] \in T
  BY <1>3, <1>4, <1>5
<1> QED
  BY <1>6


----------------------------------------------------------------------------
(***************************************************************************)
(* The outputs of a query. Their annotations are at positions of the       *)
(* document, and the last ones come first.                                 *)
(***************************************************************************)
Annotation == (SUBSET Nat) \X Nat

FallsFrom(o, lo, hi) ==
  /\ o \in Seq(Annotation)
  /\ \A i \in 1..Len(o) : lo <= o[i][2] /\ o[i][2] <= hi
  /\ \A i, j \in 1..Len(o) : i < j => o[j][2] <= o[i][2]

IsAutomaton(q) ==
  /\ q.initial \in q.states
  /\ \A t \in q.reads : t.to \in q.states /\ t.code \in SUBSET Nat

LEMMA NothingFalls ==
  ASSUME NEW lo \in Nat, NEW hi \in Nat
  PROVE  FallsFrom(<< >>, lo, hi)
BY DEF FallsFrom

LEMMA AppendFalls ==
  ASSUME NEW code \in SUBSET Nat, NEW p \in Nat, NEW lo \in Nat, NEW hi \in Nat,
         p <= lo, p <= hi, NEW o, FallsFrom(o, lo, hi)
  PROVE  FallsFrom(Append(o, <<code, p>>), p, hi) /\ FallsFrom(o, p, hi)
<1> DEFINE n == Len(o)
           a == <<code, p>>
           b == Append(o, a)
<1>1. /\ n \in Nat /\ a \in Annotation /\ a[2] = p /\ o \in Seq(Annotation)
      /\ \A i \in 1..n : o[i] \in Annotation /\ o[i][2] \in Nat
      /\ \A i \in 1..n : lo <= o[i][2] /\ o[i][2] <= hi
      /\ \A i, j \in 1..n : i < j => o[j][2] <= o[i][2]
  <2>1. a \in Annotation /\ a[2] = p /\ \A x \in Annotation : x[2] \in Nat
    BY DEF Annotation
  <2> DEFINE T == Annotation
  <2>2. o \in Seq(T)
    BY DEF FallsFrom
  <2> HIDE DEF T, a
  <2>3. n \in Nat /\ \A i \in 1..n : o[i] \in T
    BY <2>2
  <2> QED
    BY <2>1, <2>2, <2>3 DEF FallsFrom, T
<1>2. \A i \in 1..n : p <= o[i][2]
  BY <1>1
<1>3. FallsFrom(o, p, hi)
  BY <1>1, <1>2 DEF FallsFrom
<1>4. /\ b \in Seq(Annotation) /\ Len(b) = n + 1 /\ b[n + 1] = a
      /\ \A i \in 1..n : b[i] = o[i]
  <2> HIDE DEF a
  <2>1. a \in Annotation /\ o \in Seq(Annotation)
    BY <1>1
  <2> DEFINE T == Annotation
  <2>2. a \in T /\ o \in Seq(T)
    BY <2>1
  <2> HIDE DEF T
  <2>3. b \in Seq(T) /\ Len(b) = n + 1 /\ b[n + 1] = a /\ \A i \in 1..n : b[i] = o[i]
    BY <2>2
  <2> QED
    BY <2>3 DEF T
<1> HIDE DEF n, a, b
<1>5. \A i \in 1..n + 1 : i \in 1..n \/ i = n + 1
  BY <1>1
<1>6. \A i \in 1..n + 1 : p <= b[i][2] /\ b[i][2] <= hi
  BY <1>1, <1>2, <1>4, <1>5
<1>7. \A i, j \in 1..n + 1 : i < j => b[j][2] <= b[i][2]
  <2> SUFFICES ASSUME NEW i \in 1..n + 1, NEW j \in 1..n + 1, i < j
               PROVE  b[j][2] <= b[i][2]
    OBVIOUS
  <2>1. i \in 1..n
    BY <1>1
  <2>2. CASE j \in 1..n
    BY <1>1, <1>4, <2>1, <2>2
  <2>3. CASE j = n + 1
    BY <1>1, <1>2, <1>4, <2>1, <2>3
  <2> QED
    BY <1>5, <2>2, <2>3
<1>8. FallsFrom(b, p, hi)
  BY <1>4, <1>6, <1>7 DEF FallsFrom
<1> QED
  BY <1>3, <1>8 DEF b, a

LEMMA AddingFalls ==
  ASSUME NEW code \in SUBSET Nat, NEW p \in Nat, NEW lo \in Nat, NEW hi \in Nat,
         p <= lo, p <= hi, NEW outputs, \A o \in outputs : FallsFrom(o, lo, hi)
  PROVE  \A o \in Adding(code, p, outputs) : FallsFrom(o, p, hi)
<1>1. \A o \in outputs : FallsFrom(Append(o, <<code, p>>), p, hi) /\ FallsFrom(o, p, hi)
  BY AppendFalls
<1>2. \A o \in Adding(code, p, outputs) :
        o \in outputs \/ \E x \in outputs : o = Append(x, <<code, p>>)
  BY DEF Adding
<1> QED
  BY <1>1, <1>2

Outs == SUBSET Seq(Annotation)

LEMMA AddingIsTyped ==
  ASSUME NEW code \in SUBSET Nat, NEW p \in Nat, NEW outputs \in Outs
  PROVE  Adding(code, p, outputs) \in Outs
<1>1. \A o \in outputs : Append(o, <<code, p>>) \in Seq(Annotation)
  <2> DEFINE T == Annotation
             a == <<code, p>>
  <2>1. a \in T /\ \A o \in outputs : o \in Seq(T)
    BY DEF Annotation, Outs
  <2> HIDE DEF T, a
  <2>2. \A o \in outputs : Append(o, a) \in Seq(T)
    BY <2>1
  <2> QED
    BY <2>2 DEF T, a
<1> QED
  BY <1>1 DEF Adding, Outs

\* The outputs from each state on, when p is the next position.
From(q, doc, p, s) == {r \in {t \in q.reads : CharAt(doc, p) \in t.chars} : r.from = s}

Layer(last, q, doc, p, after) ==
  [s \in q.states |->
     IF s = q.accepting THEN {<< >>}
     ELSE IF p > last THEN {}
     ELSE UNION {Adding(t.code, p, after[t.to]) : t \in From(q, doc, p, s)}]

IsOut(out, last, q, doc) ==
  out = [p \in 0..last + 1 |-> Layer(last, q, doc, p, out[p + 1])]

Layers(q) == [q.states -> Outs]

LEMMA LayerIsTyped ==
  ASSUME NEW q, IsAutomaton(q), NEW doc, NEW last \in Nat, NEW p \in Nat,
         NEW after, p <= last => after \in Layers(q)
  PROVE  Layer(last, q, doc, p, after) \in Layers(q)
<1>1. ASSUME NEW s \in q.states
      PROVE  (IF s = q.accepting THEN {<< >>}
              ELSE IF p > last THEN {}
              ELSE UNION {Adding(t.code, p, after[t.to]) : t \in From(q, doc, p, s)}) \in Outs
  <2>1. {<< >>} \in Outs /\ {} \in Outs
    BY DEF Outs
  <2>2. ASSUME p <= last
        PROVE  UNION {Adding(t.code, p, after[t.to]) : t \in From(q, doc, p, s)} \in Outs
    <3>1. \A t \in From(q, doc, p, s) : t.code \in SUBSET Nat /\ after[t.to] \in Outs
      BY <2>2 DEF From, IsAutomaton, Layers
    <3>2. \A t \in From(q, doc, p, s) : Adding(t.code, p, after[t.to]) \in Outs
      BY <3>1, AddingIsTyped
    <3> QED
      BY <3>2 DEF Outs
  <2>3. p > last \/ p <= last
    OBVIOUS
  <2> QED
    BY <2>1, <2>2, <2>3
<1> QED
  BY <1>1, Zenon DEF Layer, Layers

LEMMA LastLayer ==
  ASSUME NEW last \in Nat, NEW q, NEW doc, NEW x, NEW y
  PROVE  Layer(last, q, doc, last + 1, x) = Layer(last, q, doc, last + 1, y)
<1>1. last + 1 > last
  OBVIOUS
<1> QED
  BY <1>1 DEF Layer

\* Read from the end on, they are given by a step.
LEMMA OutReading ==
  ASSUME NEW q, IsAutomaton(q), NEW doc, NEW last \in Nat
  PROVE  \E out \in [0..last + 1 -> Layers(q)] :
           /\ \A p \in 0..last + 1 : out[p] = Layer(last, q, doc, p, out[p + 1])
           /\ OutputsBy(last, q, doc) =
                (UNION {Adding(t.code, 0, out[0][t.to]) :
                          t \in {r \in {t \in q.reads : StartChar \in t.chars} :
                                   r.from = q.initial}})
                  \cup UNION {out[p][q.initial] : p \in 0..last}
<1> DEFINE n == last + 1
           T == Layers(q)
           empty == [s \in q.states |-> {}]
           base == Layer(last, q, doc, n, empty)
           step == [x \in (1..n) \X T |-> Layer(last, q, doc, n - x[1], x[2])]
<1>1. n \in Nat /\ 0 \in 0..n /\ \A i \in 1..n : n - i \in Nat /\ n - i <= last
  OBVIOUS
<1>2. base \in T
  BY <1>1, LayerIsTyped
<1>3. step \in [(1..n) \X T -> T]
  <2>1. \A x \in (1..n) \X T : Layer(last, q, doc, n - x[1], x[2]) \in T
    <3> SUFFICES ASSUME NEW x \in (1..n) \X T
                 PROVE  Layer(last, q, doc, n - x[1], x[2]) \in T
      OBVIOUS
    <3>1. x[1] \in 1..n /\ x[2] \in T
      OBVIOUS
    <3>2. n - x[1] \in Nat
      BY <1>1, <3>1
    <3> QED
      BY <3>1, <3>2, LayerIsTyped
  <2> QED
    BY <2>1
<1>4. \A i \in 1..n, x \in T : step[<<i, x>>] = Layer(last, q, doc, n - i, x)
  OBVIOUS
<1> HIDE DEF step, T, base
<1>5. PICK f \in [0..n -> T] : Follows(f, n, base, step)
  BY <1>1, <1>2, <1>3, Recursion
<1>6. \A i \in 0..n : f[i] = IF i = 0 THEN base ELSE step[<<i, f[i - 1]>>]
  BY <1>5 DEF Follows
<1> DEFINE g == [p \in 0..n |-> f[n - p]]
<1>7. IsOut(g, last, q, doc)
  <2>1. \A p \in 0..n : g[p] = Layer(last, q, doc, p, g[p + 1])
    <3> SUFFICES ASSUME NEW p \in 0..n
                 PROVE  g[p] = Layer(last, q, doc, p, g[p + 1])
      OBVIOUS
    <3>1. CASE p = n
      <4>1. g[p] = f[0]
        BY <1>1, <3>1
      <4>2. g[p] = base
        BY <1>1, <1>6, <4>1
      <4> HIDE DEF g
      <4> QED
        BY <3>1, <4>2, LastLayer DEF base
    <3>2. CASE p # n
      <4> DEFINE i == n - p
      <4>1. i \in 1..n /\ i \in 0..n /\ i - 1 \in 0..n /\ p + 1 \in 0..n /\ n - i = p /\ i # 0
            /\ n - (p + 1) = i - 1
        BY <1>1, <3>2
      <4>2. g[p] = f[i] /\ g[p + 1] = f[i - 1]
        BY <4>1
      <4> HIDE DEF i, g
      <4>3. f[i] = step[<<i, f[i - 1]>>] /\ f[i - 1] \in T
        BY <1>5, <1>6, <4>1
      <4>4. f[i] = Layer(last, q, doc, p, f[i - 1])
        BY <1>4, <4>1, <4>3
      <4> QED
        BY <4>2, <4>4
    <3> QED
      BY <3>1, <3>2
  <2>2. g = [p \in 0..n |-> g[p]]
    OBVIOUS
  <2> HIDE DEF g
  <2> QED
    BY <2>1, <2>2 DEF IsOut
<1> DEFINE r == CHOOSE r : IsOut(r, last, q, doc)
<1>8. IsOut(r, last, q, doc)
  <2> HIDE DEF g
  <2> QED
    BY <1>7, Zenon
<1>9. OutputsBy(last, q, doc) =
        (UNION {Adding(t.code, 0, r[0][t.to]) :
                  t \in {u \in {t \in q.reads : StartChar \in t.chars} : u.from = q.initial}})
          \cup UNION {r[p][q.initial] : p \in 0..last}
  BY Zenon DEF OutputsBy, IsOut, Layer, From
<1> HIDE DEF r
<1>10. r = [p \in 0..n |-> r[p]] /\ \A p \in 0..n : r[p] = Layer(last, q, doc, p, r[p + 1])
  BY <1>8 DEF IsOut
<1> DEFINE h == [i \in 0..n |-> r[n - i]]
<1>11. /\ h[0] = base
       /\ \A i \in 1..n : h[i] = Layer(last, q, doc, n - i, h[i - 1])
  <2>1. n \in 0..n /\ n - 0 = n
    BY <1>1
  <2>2. r[n] = base
    <3>1. r[n] = Layer(last, q, doc, n, r[n + 1])
      BY <1>10, <2>1
    <3>2. Layer(last, q, doc, n, r[n + 1]) = Layer(last, q, doc, n, empty)
      BY LastLayer
    <3> QED
      BY <3>1, <3>2 DEF base
  <2>3. h[0] = base
    BY <1>1, <2>1, <2>2
  <2>4. ASSUME NEW i \in 1..n
        PROVE  h[i] = Layer(last, q, doc, n - i, h[i - 1])
    <3>1. /\ i \in 0..n /\ i - 1 \in 0..n /\ n - i \in 0..n
          /\ (n - i) + 1 = n - (i - 1)
      BY <1>1
    <3>2. h[i] = r[n - i] /\ h[i - 1] = r[(n - i) + 1]
      BY <3>1
    <3> HIDE DEF h
    <3> QED
      BY <1>10, <3>1, <3>2
  <2> QED
    BY <2>3, <2>4
<1>12. h \in [0..n -> T]
  <2>1. h = [i \in 0..n |-> h[i]]
    OBVIOUS
  <2> HIDE DEF h
  <2>2. GoesBy(h, n, T, base, step)
    BY <1>4, <1>11, <2>1 DEF GoesBy
  <2> QED
    BY <1>1, <1>2, <1>3, <2>2, StepsStayInside
<1>13. \A p \in 0..n : r[p] \in T
  <2> SUFFICES ASSUME NEW p \in 0..n PROVE r[p] \in T
    OBVIOUS
  <2>1. n - p \in 0..n /\ n - (n - p) = p
    BY <1>1
  <2>2. h[n - p] = r[p]
    BY <2>1
  <2> HIDE DEF h
  <2> QED
    BY <1>12, <2>1, <2>2
<1>14. r \in [0..n -> T]
  BY <1>10, <1>13
<1> QED
  BY <1>9, <1>10, <1>14 DEF T

LEMMA LayerFalls ==
  ASSUME NEW q, IsAutomaton(q), NEW doc, NEW last \in Nat, NEW p \in Nat,
         NEW after,
         p <= last => \A s \in q.states : \A o \in after[s] : FallsFrom(o, p + 1, last)
  PROVE  \A s \in q.states : \A o \in Layer(last, q, doc, p, after)[s] : FallsFrom(o, p, last)
<1> SUFFICES ASSUME NEW s \in q.states, NEW o \in Layer(last, q, doc, p, after)[s]
             PROVE  FallsFrom(o, p, last)
  OBVIOUS
<1>1. o \in IF s = q.accepting THEN {<< >>}
            ELSE IF p > last THEN {}
            ELSE UNION {Adding(t.code, p, after[t.to]) : t \in From(q, doc, p, s)}
  BY DEF Layer
<1>2. CASE o = << >>
  BY <1>2, NothingFalls
<1>3. CASE p <= last /\ o \in UNION {Adding(t.code, p, after[t.to]) : t \in From(q, doc, p, s)}
  <2>1. PICK t \in From(q, doc, p, s) : o \in Adding(t.code, p, after[t.to])
    BY <1>3
  <2>2. t.code \in SUBSET Nat /\ t.to \in q.states
    BY DEF From, IsAutomaton
  <2>3. \A x \in after[t.to] : FallsFrom(x, p + 1, last)
    BY <1>3, <2>2
  <2>4. p + 1 \in Nat /\ p <= p + 1
    OBVIOUS
  <2> QED
    BY <1>3, <2>1, <2>2, <2>3, <2>4, AddingFalls
<1> QED
  BY <1>1, <1>2, <1>3

LEMMA OutputsFall ==
  ASSUME NEW q, IsAutomaton(q), NEW doc, NEW last \in Nat
  PROVE  \A o \in OutputsBy(last, q, doc) : FallsFrom(o, 0, last)
<1> DEFINE n == last + 1
<1>1. PICK out \in [0..n -> Layers(q)] :
           /\ \A p \in 0..n : out[p] = Layer(last, q, doc, p, out[p + 1])
           /\ OutputsBy(last, q, doc) =
                (UNION {Adding(t.code, 0, out[0][t.to]) :
                          t \in {r \in {t \in q.reads : StartChar \in t.chars} :
                                   r.from = q.initial}})
                  \cup UNION {out[p][q.initial] : p \in 0..last}
  BY OutReading
<1> DEFINE K(i) == \A s \in q.states : \A o \in out[n - i][s] : FallsFrom(o, n - i, last)
           W == {i \in 0..n : ~K(i)}
<1>2. n \in Nat /\ n - 0 = n /\ 0 \in 0..n /\ n \in 0..n
  OBVIOUS
<1>3. K(0)
  <2>1. ~(n <= last)
    OBVIOUS
  <2>2. out[n] = Layer(last, q, doc, n, out[n + 1])
    BY <1>1, <1>2
  <2> HIDE DEF n
  <2>3. \A s \in q.states : \A o \in out[n][s] : FallsFrom(o, n, last)
    BY <1>2, <2>1, <2>2, LayerFalls
  <2> QED
    BY <1>2, <2>3
<1>4. ASSUME NEW i \in 1..n, K(i - 1)
      PROVE  K(i)
  <2> DEFINE p == n - i
  <2>1. p \in 0..n /\ p \in Nat /\ p <= last /\ p + 1 = n - (i - 1)
    OBVIOUS
  <2>2. out[p] = Layer(last, q, doc, p, out[p + 1])
    BY <1>1, <2>1
  <2>3. \A s \in q.states : \A o \in out[p + 1][s] : FallsFrom(o, p + 1, last)
    BY <1>4, <2>1
  <2> HIDE DEF p
  <2>4. \A s \in q.states : \A o \in out[p][s] : FallsFrom(o, p, last)
    BY <2>1, <2>2, <2>3, LayerFalls
  <2> QED
    BY <2>4 DEF p
<1> HIDE DEF K
<1>5. \A i \in 0..n : K(i)
  <2>1. SUFFICES ASSUME W # {} PROVE FALSE
    OBVIOUS
  <2>2. PICK i \in W : \A y \in W : ~(y < i)
    <3>1. W \subseteq Nat
      OBVIOUS
    <3> HIDE DEF W
    <3> QED
      BY <2>1, <3>1, LeastNumber
  <2>3. i # 0
    BY <1>3
  <2>4. i \in 1..n /\ i - 1 \in 0..n /\ i - 1 < i
    BY <2>3
  <2>5. K(i - 1)
    BY <2>2, <2>4
  <2> QED
    BY <1>4, <2>4, <2>5
<1>6. ASSUME NEW p \in 0..n, NEW s \in q.states, NEW o \in out[p][s]
      PROVE  FallsFrom(o, p, last)
  <2>1. n - p \in 0..n /\ n - (n - p) = p
    OBVIOUS
  <2> HIDE DEF n
  <2> QED
    BY <1>5, <2>1 DEF K
<1>7. ASSUME NEW p \in Nat, NEW o, FallsFrom(o, p, last)
      PROVE  FallsFrom(o, 0, last)
  <2>1. {} \in SUBSET Nat /\ 0 \in Nat /\ 0 <= p /\ 0 <= last
    OBVIOUS
  <2> QED
    BY <1>7, <2>1, AppendFalls
<1>8. ASSUME NEW p \in 0..last, NEW o \in out[p][q.initial]
      PROVE  FallsFrom(o, 0, last)
  <2>1. p \in 0..n /\ p \in Nat /\ q.initial \in q.states
    BY DEF IsAutomaton
  <2> QED
    BY <1>6, <1>7, <1>8, <2>1
<1>9. ASSUME NEW t \in q.reads, NEW o \in Adding(t.code, 0, out[0][t.to])
      PROVE  FallsFrom(o, 0, last)
  <2>1. t.code \in SUBSET Nat /\ t.to \in q.states
    BY DEF IsAutomaton
  <2>2. \A x \in out[0][t.to] : FallsFrom(x, 0, last)
    BY <1>2, <1>6, <2>1
  <2>3. 0 \in Nat /\ 0 <= 0 /\ 0 <= last
    OBVIOUS
  <2> QED
    BY <1>9, <2>1, <2>2, <2>3, AddingFalls
<1> SUFFICES ASSUME NEW o \in OutputsBy(last, q, doc) PROVE FallsFrom(o, 0, last)
  OBVIOUS
<1>10. \/ \E t \in q.reads : o \in Adding(t.code, 0, out[0][t.to])
       \/ \E p \in 0..last : o \in out[p][q.initial]
  BY <1>1
<1> QED
  BY <1>8, <1>9, <1>10

----------------------------------------------------------------------------
(***************************************************************************)
(* ExtendedMapping reads the annotations of an output one by one, and what *)
(* each step makes is of the same kind.                                    *)
(***************************************************************************)
Annotated(A) == Len(A) \in Nat /\ \A i \in 1..Len(A) : A[i] \in Annotation

LEMMA FallingIsAnnotated ==
  ASSUME NEW o, NEW lo, NEW hi, FallsFrom(o, lo, hi)
  PROVE  Annotated(o)
<1> DEFINE T == Annotation
<1>1. o \in Seq(T)
  BY DEF FallsFrom
<1> HIDE DEF T
<1>2. Len(o) \in Nat /\ \A i \in 1..Len(o) : o[i] \in T
  BY <1>1
<1> QED
  BY <1>2 DEF Annotated, T

MapsInto(T) == UNION {[D -> T] : D \in SUBSET Nat}
ExtendedMaps == [spans : MapsInto(Seq(Int \X Int)), buffer : MapsInto(Int \X Int)]
NoMaps == [spans |-> NoEntries, buffer |-> NoEntries]

SpansSoFar(maps, v) == Entry(maps.spans, v, << >>)

LEMMA MapIsTyped ==
  ASSUME NEW T, NEW D \in SUBSET Nat, NEW f, f = [v \in D |-> f[v]],
         \A v \in D : f[v] \in T
  PROVE  f \in MapsInto(T)
<1>1. f \in [D -> T]
  OBVIOUS
<1> QED
  BY <1>1 DEF MapsInto

LEMMA EntryIsTyped ==
  ASSUME NEW T, NEW default \in T, NEW f \in MapsInto(T), NEW v
  PROVE  Entry(f, v, default) \in T /\ DOMAIN f \in SUBSET Nat
BY DEF Entry, MapsInto

LEMMA NoMapsAreTyped ==
  /\ NoMaps \in ExtendedMaps
  /\ \A v : SpansSoFar(NoMaps, v) = << >> /\ Buffered(NoMaps, v) = <<0, 0>>
<1>1. \A T : NoEntries \in MapsInto(T)
  <2> SUFFICES ASSUME NEW T PROVE NoEntries \in MapsInto(T)
    OBVIOUS
  <2>1. NoEntries \in [{} -> T] /\ {} \in SUBSET Nat
    BY DEF NoEntries
  <2> QED
    BY <2>1 DEF MapsInto
<1>2. NoMaps.spans = NoEntries /\ NoMaps.buffer = NoEntries /\ DOMAIN NoEntries = {}
  BY DEF NoMaps, NoEntries
<1>3. NoMaps \in ExtendedMaps
  BY <1>1 DEF NoMaps, ExtendedMaps
<1> QED
  BY <1>2, <1>3 DEF SpansSoFar, Buffered, Entry

LEMMA VariablesAreNat ==
  ASSUME NEW code \in SUBSET Nat
  PROVE  /\ Variables(code) \in SUBSET Nat
         /\ \A v : Opens(code, v) \/ Closes(code, v) => v \in Variables(code)
<1>1. \A bit \in Nat : bit \div 2 \in Nat
  OBVIOUS
<1> QED
  BY <1>1 DEF Variables, Variable, Opens, Closes

LEMMA ExtendedStep ==
  ASSUME NEW maps \in ExtendedMaps, NEW a \in Annotation
  PROVE  LET after == ProcessExtendedAnnotation(maps, a)
         IN  /\ after \in ExtendedMaps
             /\ \A v :
                  /\ SpansSoFar(after, v) =
                       IF Ends(maps, a[1], v)
                         THEN Append(SpansSoFar(maps, v), <<Buffered(maps, v)[1], a[2]>>)
                         ELSE SpansSoFar(maps, v)
                  /\ Buffered(after, v) =
                       IF Opens(a[1], v) THEN <<a[2], INVALID_POSITION>>
                       ELSE IF Ends(maps, a[1], v) THEN <<Buffered(maps, v)[1], a[2]>>
                       ELSE Buffered(maps, v)
<1> DEFINE code == a[1]
           at == a[2]
           ended == {v \in Variables(code) : Ends(maps, code, v)}
           span(v) == <<Buffered(maps, v)[1], at>>
           spans == [v \in DOMAIN maps.spans \cup ended |->
                       IF v \in ended THEN Append(Entry(maps.spans, v, << >>), span(v))
                       ELSE maps.spans[v]]
           buffered == [v \in DOMAIN maps.buffer \cup Variables(code) |->
                          IF Opens(code, v) THEN <<at, INVALID_POSITION>>
                          ELSE IF v \in ended THEN span(v)
                          ELSE Buffered(maps, v)]
           after == ProcessExtendedAnnotation(maps, a)
<1>1. code \in SUBSET Nat /\ at \in Nat
  BY DEF Annotation
<1>2. /\ maps.spans \in MapsInto(Seq(Int \X Int)) /\ maps.buffer \in MapsInto(Int \X Int)
      /\ DOMAIN maps.spans \in SUBSET Nat /\ DOMAIN maps.buffer \in SUBSET Nat
  BY DEF ExtendedMaps, MapsInto
<1>3. /\ Variables(code) \in SUBSET Nat /\ ended \in SUBSET Nat
      /\ \A v : Opens(code, v) => v \in Variables(code)
      /\ \A v : v \in ended <=> Ends(maps, code, v)
  BY <1>1, VariablesAreNat DEF Ends
<1>4. ASSUME NEW v
      PROVE  /\ Entry(maps.spans, v, << >>) \in Seq(Int \X Int)
             /\ Buffered(maps, v) \in Int \X Int
             /\ span(v) \in Int \X Int /\ <<at, INVALID_POSITION>> \in Int \X Int
  <2>1. << >> \in Seq(Int \X Int) /\ <<0, 0>> \in Int \X Int
    OBVIOUS
  <2>2. /\ Entry(maps.spans, v, << >>) \in Seq(Int \X Int)
        /\ Entry(maps.buffer, v, <<0, 0>>) \in Int \X Int
    BY <1>2, <2>1, EntryIsTyped
  <2>3. Buffered(maps, v) \in Int \X Int
    BY <2>2 DEF Buffered
  <2> QED
    BY <1>1, <2>2, <2>3 DEF INVALID_POSITION
<1>5. after = [spans |-> spans, buffer |-> buffered]
  BY DEF ProcessExtendedAnnotation
<1> HIDE DEF after, ended, span, code, at
<1>6. after.spans = spans /\ after.buffer = buffered
  BY <1>5
<1>7. ASSUME NEW v \in DOMAIN maps.spans \cup ended
      PROVE  spans[v] \in Seq(Int \X Int)
  <2>1. v \in DOMAIN maps.spans => maps.spans[v] = Entry(maps.spans, v, << >>)
    BY DEF Entry
  <2>2. Append(Entry(maps.spans, v, << >>), span(v)) \in Seq(Int \X Int)
    BY <1>4
  <2> QED
    BY <1>4, <2>1, <2>2
<1>8. \A v \in DOMAIN maps.buffer \cup Variables(code) : buffered[v] \in Int \X Int
  BY <1>4
<1>9. ASSUME NEW v
      PROVE  Entry(spans, v, << >>) =
               IF v \in ended THEN Append(Entry(maps.spans, v, << >>), span(v))
               ELSE Entry(maps.spans, v, << >>)
  BY DEF Entry
<1>10. ASSUME NEW v
       PROVE  Entry(buffered, v, <<0, 0>>) =
                IF Opens(code, v) THEN <<at, INVALID_POSITION>>
                ELSE IF v \in ended THEN span(v)
                ELSE Buffered(maps, v)
  <2>1. CASE v \in DOMAIN maps.buffer \cup Variables(code)
    BY <2>1 DEF Entry
  <2>2. CASE v \notin DOMAIN maps.buffer \cup Variables(code)
    <3>1. Buffered(maps, v) = <<0, 0>> /\ v \notin ended /\ ~Opens(code, v)
      BY <1>3, <2>2 DEF Buffered, Entry, ended
    <3> QED
      BY <2>2, <3>1 DEF Entry
  <2> QED
    BY <2>1, <2>2
<1>11. spans = [v \in DOMAIN maps.spans \cup ended |-> spans[v]]
       /\ buffered = [v \in DOMAIN maps.buffer \cup Variables(code) |-> buffered[v]]
  OBVIOUS
<1>12. DOMAIN maps.spans \cup ended \in SUBSET Nat
       /\ DOMAIN maps.buffer \cup Variables(code) \in SUBSET Nat
  BY <1>2, <1>3
<1> HIDE DEF spans, buffered
<1>13. spans \in MapsInto(Seq(Int \X Int)) /\ buffered \in MapsInto(Int \X Int)
  <2> DEFINE D == DOMAIN maps.spans \cup ended
             E == DOMAIN maps.buffer \cup Variables(code)
  <2>1. D \in SUBSET Nat /\ spans = [v \in D |-> spans[v]]
        /\ \A v \in D : spans[v] \in Seq(Int \X Int)
    BY <1>7, <1>11, <1>12
  <2>2. E \in SUBSET Nat /\ buffered = [v \in E |-> buffered[v]]
        /\ \A v \in E : buffered[v] \in Int \X Int
    BY <1>8, <1>11, <1>12
  <2> HIDE DEF D, E
  <2>3. spans \in MapsInto(Seq(Int \X Int))
    BY <2>1, MapIsTyped
  <2>4. buffered \in MapsInto(Int \X Int)
    BY <2>2, MapIsTyped
  <2> QED
    BY <2>3, <2>4
<1>14. after \in ExtendedMaps
  BY <1>5, <1>13 DEF ExtendedMaps
<1>15. ASSUME NEW v
       PROVE  /\ SpansSoFar(after, v) =
                   IF Ends(maps, code, v) THEN Append(SpansSoFar(maps, v), span(v))
                   ELSE SpansSoFar(maps, v)
              /\ Buffered(after, v) =
                   IF Opens(code, v) THEN <<at, INVALID_POSITION>>
                   ELSE IF Ends(maps, code, v) THEN span(v)
                   ELSE Buffered(maps, v)
  BY <1>3, <1>6, <1>9, <1>10 DEF SpansSoFar, Buffered
<1> QED
  BY <1>14, <1>15 DEF after, span, code, at

IsExtendedReading(maps, A) ==
  maps = [i \in 0..Len(A) |->
            IF i = 0 THEN NoMaps
            ELSE ProcessExtendedAnnotation(maps[i - 1], A[Len(A) + 1 - i])]

LEMMA ExtendedReading ==
  ASSUME NEW A, Annotated(A)
  PROVE  \E maps \in [0..Len(A) -> ExtendedMaps] :
           /\ maps[0] = NoMaps
           /\ \A i \in 1..Len(A) :
                maps[i] = ProcessExtendedAnnotation(maps[i - 1], A[Len(A) + 1 - i])
           /\ ConstructExtendedMapping(A) = maps[Len(A)].spans
<1> DEFINE n == Len(A)
           step == [p \in (1..n) \X ExtendedMaps |->
                      ProcessExtendedAnnotation(p[2], A[n + 1 - p[1]])]
<1>1. n \in Nat /\ \A i \in 1..n : A[n + 1 - i] \in Annotation
  <2>1. n \in Nat /\ \A i \in 1..n : A[i] \in Annotation
    BY DEF Annotated
  <2>2. \A i \in 1..n : n + 1 - i \in 1..n
    BY <2>1
  <2> QED
    BY <2>1, <2>2
<1>2. step \in [(1..n) \X ExtendedMaps -> ExtendedMaps]
  <2>1. \A p \in (1..n) \X ExtendedMaps :
          ProcessExtendedAnnotation(p[2], A[n + 1 - p[1]]) \in ExtendedMaps
    <3> SUFFICES ASSUME NEW p \in (1..n) \X ExtendedMaps
                 PROVE  ProcessExtendedAnnotation(p[2], A[n + 1 - p[1]]) \in ExtendedMaps
      OBVIOUS
    <3>1. p[2] \in ExtendedMaps /\ A[n + 1 - p[1]] \in Annotation
      BY <1>1
    <3> QED
      BY <3>1, ExtendedStep
  <2> QED
    BY <2>1
<1>3. \A i \in 1..n, m \in ExtendedMaps :
        step[<<i, m>>] = ProcessExtendedAnnotation(m, A[n + 1 - i])
  OBVIOUS
<1>4. NoMaps \in ExtendedMaps
  BY NoMapsAreTyped
<1> HIDE DEF step
<1>5. PICK f \in [0..n -> ExtendedMaps] : Follows(f, n, NoMaps, step)
  BY <1>1, <1>2, <1>4, Recursion
<1>6. IsExtendedReading(f, A)
  <2>1. f = [i \in 0..n |-> IF i = 0 THEN NoMaps ELSE step[<<i, f[i - 1]>>]]
    BY <1>5 DEF Follows
  <2>2. \A i \in 0..n : f[i] = IF i = 0 THEN NoMaps
                               ELSE ProcessExtendedAnnotation(f[i - 1], A[n + 1 - i])
    <3> TAKE i \in 0..n
    <3>1. f[i] = IF i = 0 THEN NoMaps ELSE step[<<i, f[i - 1]>>]
      BY <2>1
    <3>2. i # 0 => i \in 1..n /\ f[i - 1] \in ExtendedMaps
      BY <1>1
    <3> QED
      BY <1>3, <3>1, <3>2
  <2>3. f = [i \in 0..n |-> f[i]]
    BY <1>5
  <2> QED
    BY <2>2, <2>3 DEF IsExtendedReading
<1> DEFINE r == CHOOSE r : IsExtendedReading(r, A)
<1>7. IsExtendedReading(r, A)
  BY <1>6, Zenon
<1>8. ConstructExtendedMapping(A) = r[n].spans
  BY Zenon DEF ConstructExtendedMapping, IsExtendedReading, NoMaps
<1> HIDE DEF r
<1>9. /\ r = [i \in 0..n |-> r[i]]
      /\ \A i \in 0..n : r[i] = IF i = 0 THEN NoMaps
                                ELSE ProcessExtendedAnnotation(r[i - 1], A[n + 1 - i])
  BY <1>7 DEF IsExtendedReading
<1>10. /\ r[0] = NoMaps
       /\ \A i \in 1..n : r[i] = ProcessExtendedAnnotation(r[i - 1], A[n + 1 - i])
  <2>1. 0 \in 0..n /\ \A i \in 1..n : i \in 0..n /\ i # 0
    BY <1>1
  <2> QED
    BY <1>9, <2>1
<1>11. \A i \in 1..n : r[i - 1] \in ExtendedMaps => r[i] = step[<<i, r[i - 1]>>]
  BY <1>3, <1>10
<1> HIDE DEF n
<1>12. r \in [0..n -> ExtendedMaps]
  <2>1. GoesBy(r, n, ExtendedMaps, NoMaps, step)
    BY <1>9, <1>10, <1>11 DEF GoesBy
  <2> QED
    BY <1>1, <1>2, <1>4, <2>1, StepsStayInside
<1> QED
  BY <1>8, <1>10, <1>12 DEF n

----------------------------------------------------------------------------
(***************************************************************************)
(* Mapping does so too: what closes is added, and what opens is the start  *)
(* of what was added last.                                                 *)
(***************************************************************************)
Maps == MapsInto(Seq(Int \X Int))

OpenedAt(spans, code, p, v) == IF Opens(code, v) THEN UpdateLastSpan(spans, p) ELSE spans
EntryAfter(spans, code, p, v) ==
  IF Closes(code, v) THEN Append(OpenedAt(spans, code, p, v), <<0, p>>)
  ELSE OpenedAt(spans, code, p, v)

LEMMA EntryAfterIsTyped ==
  ASSUME NEW spans \in Seq(Int \X Int), NEW code, NEW p \in Nat, NEW v
  PROVE  EntryAfter(spans, code, p, v) \in Seq(Int \X Int)
<1>1. UpdateLastSpan(spans, p) \in Seq(Int \X Int)
  <2>1. \A i \in 1..Len(spans) : spans[i] \in Int \X Int
    OBVIOUS
  <2> DEFINE t == UpdateLastSpan(spans, p)
  <2>2. /\ t = [i \in 1..Len(spans) |-> t[i]]
        /\ \A i \in 1..Len(spans) : t[i] = IF i = Len(spans) THEN <<p, spans[i][2]>> ELSE spans[i]
    <3> DEFINE n == Len(spans)
    <3>1. DOMAIN spans = 1..n /\ t = [spans EXCEPT ![n] = <<p, spans[n][2]>>]
      BY DEF UpdateLastSpan
    <3> HIDE DEF t, n
    <3>2. t = [spans EXCEPT ![n] = <<p, spans[n][2]>>] /\ DOMAIN spans = 1..n
      BY <3>1
    <3>3. /\ t = [i \in 1..n |-> t[i]]
          /\ \A i \in 1..n : t[i] = IF i = n THEN <<p, spans[i][2]>> ELSE spans[i]
      BY <3>2
    <3> QED
      BY <3>3 DEF n
  <2> HIDE DEF t
  <2>3. \A i \in 1..Len(spans) : t[i] \in Int \X Int
    BY <2>1, <2>2
  <2> QED
    BY <2>2, <2>3 DEF t
<1>2. OpenedAt(spans, code, p, v) \in Seq(Int \X Int)
  BY <1>1 DEF OpenedAt
<1> QED
  BY <1>2, SMTT(30) DEF EntryAfter

LEMMA MappingStep ==
  ASSUME NEW m \in Maps, NEW a \in Annotation
  PROVE  LET after == ProcessAnnotation(m, a)
         IN  /\ after \in Maps
             /\ \A v : Entry(after, v, << >>)
                         = EntryAfter(Entry(m, v, << >>), a[1], a[2], v)
<1> DEFINE code == a[1]
           p == a[2]
           D == DOMAIN m \cup Variables(code)
           after == ProcessAnnotation(m, a)
<1>1. code \in SUBSET Nat /\ p \in Nat
  BY DEF Annotation
<1>2. \A v : Entry(m, v, << >>) \in Seq(Int \X Int)
  <2> DEFINE T == Seq(Int \X Int)
  <2>1. << >> \in T /\ m \in MapsInto(T)
    BY DEF Maps
  <2> HIDE DEF T
  <2>2. \A v : Entry(m, v, << >>) \in T
    BY <2>1, EntryIsTyped
  <2> QED
    BY <2>2 DEF T
<1>3. D \in SUBSET Nat /\ \A v : Opens(code, v) \/ Closes(code, v) => v \in D
  BY <1>1, VariablesAreNat DEF Maps, MapsInto
<1>4. after = [v \in D |-> EntryAfter(Entry(m, v, << >>), code, p, v)]
  BY DEF ProcessAnnotation, EntryAfter, OpenedAt
<1> HIDE DEF code, p, after
<1>5. \A v : EntryAfter(Entry(m, v, << >>), code, p, v) \in Seq(Int \X Int)
  BY <1>1, <1>2, EntryAfterIsTyped
<1>6. \A v : v \notin D => EntryAfter(Entry(m, v, << >>), code, p, v) = << >>
  BY <1>3 DEF EntryAfter, OpenedAt, Entry
<1> HIDE DEF D
<1>7. after \in Maps
  <2>1. /\ after = [v \in D |-> after[v]]
        /\ \A v \in D : after[v] \in Seq(Int \X Int)
    BY <1>4, <1>5
  <2> QED
    BY <1>3, <2>1, MapIsTyped DEF Maps
<1>8. \A v : Entry(after, v, << >>) = EntryAfter(Entry(m, v, << >>), code, p, v)
  BY <1>4, <1>6 DEF Entry
<1> QED
  BY <1>7, <1>8 DEF after, code, p

IsReading(maps, A) ==
  maps = [i \in 0..Len(A) |-> IF i = 0 THEN NoEntries
                              ELSE ProcessAnnotation(maps[i - 1], A[i])]

LEMMA Reading ==
  ASSUME NEW A, Annotated(A)
  PROVE  \E maps \in [0..Len(A) -> Maps] :
           /\ maps[0] = NoEntries
           /\ \A i \in 1..Len(A) : maps[i] = ProcessAnnotation(maps[i - 1], A[i])
           /\ ConstructMapping(A) = maps[Len(A)]
<1> DEFINE n == Len(A)
           step == [p \in (1..n) \X Maps |-> ProcessAnnotation(p[2], A[p[1]])]
<1>1. n \in Nat /\ \A i \in 1..n : A[i] \in Annotation
  BY DEF Annotated
<1>2. step \in [(1..n) \X Maps -> Maps]
  <2>1. \A p \in (1..n) \X Maps : ProcessAnnotation(p[2], A[p[1]]) \in Maps
    <3> SUFFICES ASSUME NEW p \in (1..n) \X Maps
                 PROVE  ProcessAnnotation(p[2], A[p[1]]) \in Maps
      OBVIOUS
    <3>1. p[2] \in Maps /\ A[p[1]] \in Annotation
      BY <1>1
    <3> QED
      BY <3>1, MappingStep
  <2> QED
    BY <2>1
<1>3. \A i \in 1..n, m \in Maps : step[<<i, m>>] = ProcessAnnotation(m, A[i])
  OBVIOUS
<1>4. NoEntries \in Maps
  <2>1. NoMaps.spans = NoEntries
    BY DEF NoMaps
  <2> QED
    BY <2>1, NoMapsAreTyped DEF Maps, ExtendedMaps
<1> HIDE DEF step
<1>5. PICK f \in [0..n -> Maps] : Follows(f, n, NoEntries, step)
  BY <1>1, <1>2, <1>4, Recursion
<1>6. IsReading(f, A)
  <2>1. f = [i \in 0..n |-> IF i = 0 THEN NoEntries ELSE step[<<i, f[i - 1]>>]]
    BY <1>5 DEF Follows
  <2>2. \A i \in 0..n : f[i] = IF i = 0 THEN NoEntries
                               ELSE ProcessAnnotation(f[i - 1], A[i])
    <3> TAKE i \in 0..n
    <3>1. f[i] = IF i = 0 THEN NoEntries ELSE step[<<i, f[i - 1]>>]
      BY <2>1
    <3>2. i # 0 => i \in 1..n /\ f[i - 1] \in Maps
      BY <1>1
    <3> QED
      BY <1>3, <3>1, <3>2
  <2>3. f = [i \in 0..n |-> f[i]]
    BY <1>5
  <2> QED
    BY <2>2, <2>3 DEF IsReading
<1> DEFINE r == CHOOSE r : IsReading(r, A)
<1>7. IsReading(r, A)
  BY <1>6, Zenon
<1>8. ConstructMapping(A) = r[n]
  BY Zenon DEF ConstructMapping, IsReading
<1> HIDE DEF r
<1>9. /\ r = [i \in 0..n |-> r[i]]
      /\ \A i \in 0..n : r[i] = IF i = 0 THEN NoEntries
                                ELSE ProcessAnnotation(r[i - 1], A[i])
  BY <1>7 DEF IsReading
<1>10. /\ r[0] = NoEntries
       /\ \A i \in 1..n : r[i] = ProcessAnnotation(r[i - 1], A[i])
  <2>1. 0 \in 0..n /\ \A i \in 1..n : i \in 0..n /\ i # 0
    BY <1>1
  <2> QED
    BY <1>9, <2>1
<1>11. \A i \in 1..n : r[i - 1] \in Maps => r[i] = step[<<i, r[i - 1]>>]
  BY <1>3, <1>10
<1> HIDE DEF n
<1>12. r \in [0..n -> Maps]
  <2>1. GoesBy(r, n, Maps, NoEntries, step)
    BY <1>9, <1>10, <1>11 DEF GoesBy
  <2> QED
    BY <1>1, <1>2, <1>4, <2>1, StepsStayInside
<1> QED
  BY <1>8, <1>10, <1>12 DEF n

----------------------------------------------------------------------------
(***************************************************************************)
(* The spans made of annotations that fall from hi are spans of the text   *)
(* up to hi.                                                               *)
(***************************************************************************)
AreSpans(S, lo, hi) ==
  /\ S \in Seq(Int \X Int)
  /\ \A i \in 1..Len(S) : /\ lo <= S[i][2] /\ S[i][2] <= hi
                          /\ 0 <= S[i][1] /\ S[i][1] <= S[i][2]

LEMMA OneMoreSpan ==
  ASSUME NEW S, NEW lo \in Nat, NEW hi \in Nat, AreSpans(S, lo, hi),
         NEW s \in Int \X Int, NEW p \in Nat, p <= lo,
         p <= s[2], s[2] <= hi, 0 <= s[1], s[1] <= s[2]
  PROVE  /\ AreSpans(S, p, hi)
         /\ AreSpans(Append(S, s), p, hi) /\ Len(Append(S, s)) = Len(S) + 1
<1> DEFINE T == Int \X Int
           n == Len(S)
           R == Append(S, s)
<1>1. /\ S \in Seq(T)
      /\ \A i \in 1..n : /\ lo <= S[i][2] /\ S[i][2] <= hi
                         /\ 0 <= S[i][1] /\ S[i][1] <= S[i][2]
      /\ \A x \in T : x[1] \in Int /\ x[2] \in Int
  BY DEF AreSpans
<1> HIDE DEF T
<1>2. n \in Nat /\ \A i \in 1..n : S[i] \in T
  BY <1>1
<1>3. s \in T
  BY DEF T
<1>4. /\ R \in Seq(T) /\ Len(R) = n + 1 /\ R[n + 1] = s
      /\ \A i \in 1..n : R[i] = S[i]
  BY <1>1, <1>2, <1>3
<1> HIDE DEF n, R
<1>5. \A i \in 1..n : /\ p <= S[i][2] /\ S[i][2] <= hi
                      /\ 0 <= S[i][1] /\ S[i][1] <= S[i][2]
  BY <1>1, <1>2
<1>6. AreSpans(S, p, hi)
  BY <1>1, <1>5 DEF AreSpans, T, n
<1>7. \A i \in 1..n + 1 : i \in 1..n \/ i = n + 1
  BY <1>2
<1>8. \A i \in 1..n + 1 : /\ p <= R[i][2] /\ R[i][2] <= hi
                          /\ 0 <= R[i][1] /\ R[i][1] <= R[i][2]
  BY <1>4, <1>5, <1>7
<1>9. AreSpans(R, p, hi)
  BY <1>4, <1>8 DEF AreSpans, T
<1> QED
  BY <1>4, <1>6, <1>9 DEF R, n

LEMMA NoSpans ==
  ASSUME NEW lo \in Nat, NEW hi \in Nat
  PROVE  AreSpans(<< >>, lo, hi) /\ Len(<< >>) = 0
BY DEF AreSpans

\* The last span is only made to begin further on.
LEMMA LastSpanUpdated ==
  ASSUME NEW S, NEW lo \in Nat, NEW hi \in Nat, AreSpans(S, lo, hi),
         NEW p \in Nat, p <= lo
  PROVE  AreSpans(UpdateLastSpan(S, p), lo, hi) /\ Len(UpdateLastSpan(S, p)) = Len(S)
<1> DEFINE T == Int \X Int
           n == Len(S)
           R == UpdateLastSpan(S, p)
<1>1. /\ S \in Seq(T)
      /\ \A i \in 1..n : /\ lo <= S[i][2] /\ S[i][2] <= hi
                         /\ 0 <= S[i][1] /\ S[i][1] <= S[i][2]
      /\ \A x \in T : x[1] \in Int /\ x[2] \in Int
      /\ \A x \in T : <<p, x[2]>> \in T /\ <<p, x[2]>>[1] = p /\ <<p, x[2]>>[2] = x[2]
  BY DEF AreSpans
<1>2. R = [S EXCEPT ![n] = <<p, S[n][2]>>]
  BY DEF UpdateLastSpan
<1> HIDE DEF T, R
<1>3. n \in Nat /\ DOMAIN S = 1..n /\ \A i \in 1..n : S[i] \in T
  BY <1>1
<1> HIDE DEF n
<1>4. /\ R = [i \in 1..n |-> R[i]]
      /\ \A i \in 1..n : R[i] = IF i = n THEN <<p, S[i][2]>> ELSE S[i]
  BY <1>2, <1>3
<1>5. \A i \in 1..n : R[i] \in T
  BY <1>1, <1>3, <1>4
<1>6. R \in Seq(T) /\ Len(R) = n
  BY <1>3, <1>4, <1>5
<1>7. ASSUME NEW i \in 1..n
      PROVE  /\ lo <= R[i][2] /\ R[i][2] <= hi
             /\ 0 <= R[i][1] /\ R[i][1] <= R[i][2]
  <2>1. /\ S[i] \in T /\ S[i][1] \in Int /\ S[i][2] \in Int
        /\ lo <= S[i][2] /\ S[i][2] <= hi
        /\ 0 <= S[i][1] /\ S[i][1] <= S[i][2]
    BY <1>1, <1>3
  <2>2. CASE i = n
    <3>1. R[i][1] = p /\ R[i][2] = S[i][2]
      BY <1>1, <1>4, <2>1, <2>2
    <3> QED
      BY <2>1, <3>1
  <2>3. CASE i # n
    BY <1>4, <2>1, <2>3
  <2> QED
    BY <2>2, <2>3
<1>8. AreSpans(R, lo, hi)
  BY <1>6, <1>7 DEF AreSpans, T
<1> QED
  BY <1>6, <1>8 DEF R, n

LEMMA EntryAfterIsSpans ==
  ASSUME NEW S, NEW lo \in Nat, NEW hi \in Nat, AreSpans(S, lo, hi),
         NEW p \in Nat, p <= lo, lo <= hi, NEW code, NEW v
  PROVE  LET R == EntryAfter(S, code, p, v)
         IN  /\ AreSpans(R, p, hi) /\ Len(R) \in Nat /\ Len(R) >= Len(S)
             /\ Closes(code, v) => Len(R) >= 1
<1> DEFINE O == OpenedAt(S, code, p, v)
           R == EntryAfter(S, code, p, v)
<1>1. AreSpans(O, lo, hi) /\ Len(O) = Len(S)
  BY LastSpanUpdated DEF OpenedAt
<1>2. R = IF Closes(code, v) THEN Append(O, <<0, p>>) ELSE O
  BY DEF EntryAfter
<1> HIDE DEF O, R
<1> DEFINE s == <<0, p>>
<1>3. s \in Int \X Int /\ s[1] = 0 /\ s[2] = p /\ p <= hi
  OBVIOUS
<1> HIDE DEF s
<1>4. AreSpans(O, p, hi) /\ AreSpans(Append(O, s), p, hi) /\ Len(Append(O, s)) = Len(O) + 1
  BY <1>1, <1>3, OneMoreSpan
<1>5. Len(O) \in Nat
  BY <1>1 DEF AreSpans
<1>6. AreSpans(R, p, hi) /\ (R = O \/ Len(R) = Len(O) + 1) /\ (Closes(code, v) => Len(R) = Len(O) + 1)
  BY <1>2, <1>4 DEF s
<1>7. Len(R) \in Nat /\ Len(R) >= Len(S) /\ (Closes(code, v) => Len(R) >= 1)
  BY <1>1, <1>5, <1>6
<1> QED
  BY <1>6, <1>7 DEF R

LEMMA MappingGivesSpans ==
  ASSUME NEW A, NEW hi \in Nat, FallsFrom(A, 0, hi), NEW v
  PROVE  LET S == Entry(ConstructMapping(A), v, << >>)
         IN  /\ AreSpans(S, 0, hi)
             /\ (\E i \in DOMAIN A : Closes(A[i][1], v)) => Len(S) >= 1
<1> DEFINE n == Len(A)
           At0(i) == IF i = 0 THEN hi ELSE A[i][2]
<1>1. Annotated(A) /\ n \in Nat
  BY FallingIsAnnotated DEF Annotated
<1>2. PICK maps \in [0..n -> Maps] :
           /\ maps[0] = NoEntries
           /\ \A i \in 1..n : maps[i] = ProcessAnnotation(maps[i - 1], A[i])
           /\ ConstructMapping(A) = maps[n]
  BY <1>1, Reading
<1>3. \A i \in 1..n : A[i] \in Annotation /\ A[i][2] \in Nat
  BY <1>1 DEF Annotated, Annotation
<1>4. DOMAIN A = 1..n
  <2> DEFINE T == Annotation
  <2>1. A \in Seq(T)
    BY DEF FallsFrom
  <2> HIDE DEF T
  <2> QED
    BY <2>1
<1>5. /\ \A i \in 1..n : A[i][2] <= hi
      /\ \A i, j \in 1..n : i < j => A[j][2] <= A[i][2]
  BY DEF FallsFrom
<1> HIDE DEF n
<1>6. \A i \in 0..n : At0(i) \in Nat /\ At0(i) <= hi
  BY <1>1, <1>3, <1>5
<1>7. \A i \in 1..n : A[i][2] = At0(i) /\ At0(i) <= At0(i - 1)
  <2> SUFFICES ASSUME NEW i \in 1..n PROVE A[i][2] = At0(i) /\ At0(i) <= At0(i - 1)
    OBVIOUS
  <2>1. CASE i = 1
    BY <1>1, <1>5, <2>1
  <2>2. CASE i # 1
    <3>1. i - 1 \in 1..n /\ i - 1 < i /\ i - 1 # 0 /\ i # 0
      BY <1>1, <2>2
    <3> QED
      BY <1>5, <3>1
  <2> QED
    BY <2>1, <2>2
<1> HIDE DEF At0
<1> DEFINE Given(i) == Entry(maps[i], v, << >>)
           K(i) == /\ AreSpans(Given(i), At0(i), hi) /\ Len(Given(i)) \in Nat
                   /\ (\E j \in 1..i : Closes(A[j][1], v)) => Len(Given(i)) >= 1
           W == {i \in 0..n : ~K(i)}
<1>8. K(0)
  <2>1. Given(0) = << >>
    BY <1>2 DEF Entry, NoEntries
  <2>2. 0 \in 0..n /\ ~(\E j \in 1..0 : Closes(A[j][1], v))
    BY <1>1
  <2>3. At0(0) \in Nat
    BY <1>6, <2>2
  <2> HIDE DEF Given
  <2>4. AreSpans(Given(0), At0(0), hi) /\ Len(Given(0)) \in Nat
    BY <2>1, <2>3, NoSpans
  <2> QED
    BY <2>2, <2>4
<1>9. ASSUME NEW i \in 1..n, K(i - 1)
      PROVE  K(i)
  <2>1. i \in 0..n /\ i - 1 \in 0..n
    BY <1>1
  <2>2. /\ maps[i - 1] \in Maps /\ maps[i] = ProcessAnnotation(maps[i - 1], A[i])
        /\ A[i] \in Annotation
    BY <1>2, <1>3, <2>1
  <2>3. Given(i) = EntryAfter(Given(i - 1), A[i][1], A[i][2], v)
    BY <2>2, MappingStep
  <2> HIDE DEF Given
  <2> DEFINE R == EntryAfter(Given(i - 1), A[i][1], At0(i), v)
  <2>4. Given(i) = R
    BY <1>7, <2>3
  <2>5. /\ At0(i - 1) \in Nat /\ At0(i) \in Nat /\ At0(i) <= At0(i - 1) /\ At0(i - 1) <= hi
    BY <1>6, <1>7, <2>1
  <2>6. AreSpans(Given(i - 1), At0(i - 1), hi)
    BY <1>9
  <2>7. /\ AreSpans(R, At0(i), hi) /\ Len(R) \in Nat /\ Len(R) >= Len(Given(i - 1))
        /\ Closes(A[i][1], v) => Len(R) >= 1
    BY <2>5, <2>6, EntryAfterIsSpans
  <2> HIDE DEF R
  <2>8. ASSUME \E j \in 1..i : Closes(A[j][1], v)
        PROVE  Len(R) >= 1
    <3>1. PICK j \in 1..i : Closes(A[j][1], v)
      BY <2>8
    <3>2. CASE j = i
      BY <2>7, <3>1, <3>2
    <3>3. CASE j # i
      <4>1. j \in 1..i - 1
        BY <3>3
      <4>2. Len(Given(i - 1)) \in Nat /\ Len(Given(i - 1)) >= 1
        BY <1>9, <3>1, <4>1
      <4> QED
        BY <2>7, <4>2
    <3> QED
      BY <3>2, <3>3
  <2> QED
    BY <2>4, <2>7, <2>8
<1> HIDE DEF K
<1>10. K(n)
  <2>1. SUFFICES ASSUME W # {} PROVE FALSE
    BY <1>1
  <2>2. PICK i \in W : \A y \in W : ~(y < i)
    <3>1. W \subseteq Nat
      OBVIOUS
    <3> HIDE DEF W
    <3> QED
      BY <2>1, <3>1, LeastNumber
  <2>3. i \in 1..n /\ i - 1 \in 0..n /\ i - 1 < i
    BY <1>1, <1>8
  <2>4. K(i - 1)
    BY <2>2, <2>3
  <2> QED
    BY <1>9, <2>3, <2>4
<1>11. /\ AreSpans(Given(n), At0(n), hi) /\ Len(Given(n)) \in Nat
       /\ (\E j \in 1..n : Closes(A[j][1], v)) => Len(Given(n)) >= 1
  BY <1>10 DEF K
<1>12. At0(n) \in Nat
  BY <1>1, <1>6
<1>13. Given(n) = Entry(ConstructMapping(A), v, << >>)
  BY <1>2
<1> HIDE DEF Given
<1>14. AreSpans(Given(n), 0, hi)
  <2> DEFINE s == <<0, 0>>
  <2>1. s \in Int \X Int /\ s[1] = 0 /\ s[2] = 0 /\ 0 \in Nat /\ 0 <= hi /\ 0 <= At0(n)
    BY <1>12
  <2> HIDE DEF s
  <2> QED
    BY <1>11, <1>12, <2>1, OneMoreSpan
<1> QED
  BY <1>4, <1>11, <1>13, <1>14

\* What a variable opens at is not after what has been read.
IsBuffered(B, p) == B \in Int \X Int /\ 0 <= B[1] /\ B[1] <= p

LEMMA BufferedAfter ==
  ASSUME NEW B, NEW q \in Nat, IsBuffered(B, q), NEW p \in Nat, q <= p
  PROVE  /\ IsBuffered(B, p) /\ IsBuffered(<<p, INVALID_POSITION>>, p)
         /\ IsBuffered(<<B[1], p>>, p)
<1>1. B[1] \in Int /\ B[1] <= p
  BY DEF IsBuffered
<1>2. INVALID_POSITION \in Int
  BY DEF INVALID_POSITION
<1>3. IsBuffered(<<p, INVALID_POSITION>>, p) /\ IsBuffered(<<B[1], p>>, p)
  BY <1>1, <1>2 DEF IsBuffered
<1> QED
  BY <1>1, <1>3 DEF IsBuffered

LEMMA ExtendedMappingGivesSpans ==
  ASSUME NEW A, NEW hi \in Nat, FallsFrom(A, 0, hi), NEW v
  PROVE  AreSpans(Entry(ConstructExtendedMapping(A), v, << >>), 0, hi)
<1> DEFINE n == Len(A)
           At1(i) == IF i = 0 THEN 0 ELSE A[n + 1 - i][2]
<1>1. Annotated(A) /\ n \in Nat
  BY FallingIsAnnotated DEF Annotated
<1>2. PICK maps \in [0..n -> ExtendedMaps] :
           /\ maps[0] = NoMaps
           /\ \A i \in 1..n :
                maps[i] = ProcessExtendedAnnotation(maps[i - 1], A[n + 1 - i])
           /\ ConstructExtendedMapping(A) = maps[n].spans
  BY <1>1, ExtendedReading
<1>3. \A i \in 1..n : A[i] \in Annotation /\ A[i][2] \in Nat
  BY <1>1 DEF Annotated, Annotation
<1>4. /\ \A i \in 1..n : A[i][2] <= hi
      /\ \A i, j \in 1..n : i < j => A[j][2] <= A[i][2]
  BY DEF FallsFrom
<1> HIDE DEF n
<1>5. \A i \in 1..n : n + 1 - i \in 1..n /\ A[n + 1 - i] \in Annotation
  BY <1>1, <1>3
<1>6. \A i \in 0..n : At1(i) \in Nat /\ At1(i) <= hi
  BY <1>1, <1>3, <1>4, <1>5
<1>7. \A i \in 1..n : A[n + 1 - i][2] = At1(i) /\ At1(i - 1) <= At1(i)
  <2> SUFFICES ASSUME NEW i \in 1..n PROVE A[n + 1 - i][2] = At1(i) /\ At1(i - 1) <= At1(i)
    OBVIOUS
  <2>1. CASE i = 1
    BY <1>1, <1>3, <1>5, <2>1
  <2>2. CASE i # 1
    <3>1. /\ i - 1 \in 1..n /\ i - 1 # 0 /\ i # 0
          /\ n + 1 - i < n + 1 - (i - 1)
      BY <1>1, <2>2
    <3>2. n + 1 - i \in 1..n /\ n + 1 - (i - 1) \in 1..n
      BY <1>1, <3>1
    <3> QED
      BY <1>4, <3>1, <3>2
  <2> QED
    BY <2>1, <2>2
<1> HIDE DEF At1
<1> DEFINE Given(i) == SpansSoFar(maps[i], v)
           Kept(i) == Buffered(maps[i], v)
           K(i) == AreSpans(Given(i), 0, hi) /\ IsBuffered(Kept(i), At1(i))
           W == {i \in 0..n : ~K(i)}
<1>8. K(0)
  <2>1. Given(0) = << >> /\ Kept(0) = <<0, 0>>
    BY <1>2, NoMapsAreTyped
  <2>2. At1(0) \in Nat
    BY <1>1, <1>6
  <2>3. IsBuffered(<<0, 0>>, At1(0))
    BY <2>2 DEF IsBuffered
  <2> HIDE DEF Given, Kept
  <2>4. AreSpans(Given(0), 0, hi)
    BY <2>1, NoSpans
  <2> QED
    BY <2>1, <2>3, <2>4
<1>9. ASSUME NEW i \in 1..n, K(i - 1)
      PROVE  K(i)
  <2> DEFINE a == A[n + 1 - i]
             B == Kept(i - 1)
             s == <<B[1], a[2]>>
  <2>1. i \in 0..n /\ i - 1 \in 0..n
    BY <1>1
  <2>2. /\ maps[i - 1] \in ExtendedMaps /\ maps[i] = ProcessExtendedAnnotation(maps[i - 1], a)
        /\ a \in Annotation
    BY <1>2, <1>5, <2>1
  <2>3. a[2] = At1(i) /\ At1(i) \in Nat /\ At1(i - 1) \in Nat /\ At1(i - 1) <= At1(i)
        /\ At1(i) <= hi
    BY <1>6, <1>7, <2>1
  <2> HIDE DEF a
  <2>4. /\ Given(i) = Append(Given(i - 1), s) \/ Given(i) = Given(i - 1)
        /\ Kept(i) = <<a[2], INVALID_POSITION>> \/ Kept(i) = s \/ Kept(i) = B
    BY <2>2, ExtendedStep
  <2> HIDE DEF Given, Kept
  <2>5. AreSpans(Given(i - 1), 0, hi) /\ IsBuffered(B, At1(i - 1))
    BY <1>9
  <2>6. B[1] \in Int /\ 0 <= B[1] /\ B[1] <= At1(i - 1)
    BY <2>5 DEF IsBuffered
  <2>7. s \in Int \X Int /\ s[1] = B[1] /\ s[2] = At1(i)
    BY <2>3, <2>6
  <2>8. IsBuffered(Kept(i), At1(i))
    BY <2>3, <2>4, <2>5, BufferedAfter
  <2> HIDE DEF B, s
  <2>9. AreSpans(Append(Given(i - 1), s), 0, hi)
    <3>1. 0 \in Nat /\ 0 <= 0 /\ 0 <= s[2] /\ s[2] <= hi /\ 0 <= s[1] /\ s[1] <= s[2]
      BY <2>3, <2>6, <2>7
    <3> QED
      BY <2>5, <2>7, <3>1, OneMoreSpan
  <2> QED
    BY <2>4, <2>5, <2>8, <2>9
<1> HIDE DEF K
<1>10. K(n)
  <2>1. SUFFICES ASSUME W # {} PROVE FALSE
    BY <1>1
  <2>2. PICK i \in W : \A y \in W : ~(y < i)
    <3>1. W \subseteq Nat
      OBVIOUS
    <3> HIDE DEF W
    <3> QED
      BY <2>1, <3>1, LeastNumber
  <2>3. i \in 1..n /\ i - 1 \in 0..n /\ i - 1 < i
    BY <1>1, <1>8
  <2>4. K(i - 1)
    BY <2>2, <2>3
  <2> QED
    BY <1>9, <2>3, <2>4
<1> QED
  BY <1>2, <1>10 DEF K, SpansSoFar

----------------------------------------------------------------------------
(***************************************************************************)
(* The answers over a stream.                                              *)
(***************************************************************************)
IsText(doc) == doc \in UNION {[1..k -> Letters] : k \in 0..MaxDocument}

TextInv ==
  /\ query \in Queries /\ IsText(document)
  /\ kind = "stream_multi" \/ query \notin MultiQueries \/ query.markers = {}

LEMMA TextStays ==
  ASSUME TextInv, [Next]_vars
  PROVE  TextInv'
<1>1. CASE AskForSegment
  <2>1. UNCHANGED <<kind, query>> /\ SegStr!Next
    BY <1>1 DEF AskForSegment
  <2>2. UNCHANGED document
    BY <2>1 DEF SegStr!Next, SegStr!EvaluateStartChar, SegStr!BeginNext, SegStr!ReadOn,
       SegStr!ReturnSegment, SegStr!ReturnOverflow, SegStr!ReturnLastSegment,
       SegStr!ReturnNone, SegStr!ThrowComplexQuery
  <2> QED
    BY <2>1, <2>2 DEF TextInv
<1>2. CASE TakeSegment \/ TakeNull \/ ReturnNull
  BY <1>2 DEF TakeSegment, TakeNull, ReturnNull, UpdateAlgorithm, input, TextInv
<1>3. CASE Evaluate
  <2>1. UNCHANGED <<kind, query>>
    BY <1>3 DEF Evaluate
  <2>2. UNCHANGED document
    <3>1. CASE Computes
      BY <3>1, ComputingReadsNothing
    <3>2. CASE SwapStateLists
      BY <3>2 DEF SwapStateLists, input
    <3>3. CASE ReadBack \/ ReadStream
      BY <3>3 DEF ReadBack, ReadStream
    <3>4. CASE EndOfStreamSegment
      BY <3>4 DEF EndOfStreamSegment, EndOfSegment, input
    <3> QED
      BY <1>3, <3>1, <3>2, <3>3, <3>4 DEF Evaluate, Computes
  <2> QED
    BY <2>1, <2>2 DEF TextInv
<1>4. CASE UNCHANGED vars
  BY <1>4 DEF vars, algorithm, input, TextInv
<1> QED
  BY <1>1, <1>2, <1>3, <1>4 DEF Next, Stream, StreamMulti, NextAnswer

LEMMA TextInvariance == Spec => []TextInv
<1>1. Init => TextInv
  <2> SUFFICES ASSUME Init PROVE TextInv
    OBVIOUS
  <2>1. query \in Queries /\ IsText(document)
    BY DEF Init, IsText, SegStr!Init
  <2>2. CASE kind = CreateStreamMultiMediator(query, FALSE)
    <3>1. kind = "stream_multi" \/ query.markers = {}
      BY <2>2 DEF CreateStreamMultiMediator, Chosen
    <3> QED
      BY <2>1, <3>1 DEF TextInv
  <2>3. CASE query \notin MultiQueries
    BY <2>1, <2>3 DEF TextInv
  <2> QED
    BY <2>2, <2>3 DEF Init
<1>2. TextInv /\ [Next]_vars => TextInv'
  BY TextStays
<1> QED
  BY <1>1, <1>2, PTL DEF Spec

\* Whatever mapping is made of an output, its spans are spans of the document.
LEMMA AnswersAreSpans ==
  ASSUME TextInv, NEW o \in Outputs(query.va, document),
         NEW v \in DOMAIN SpansOfAnswer(o), NEW i \in DOMAIN SpansOfAnswer(o)[v]
  PROVE  LET span == SpansOfAnswer(o)[v][i]
         IN  /\ span = <<span[1], span[2]>>
             /\ span[1] \in 0..Len(document) /\ span[2] \in 0..Len(document)
             /\ span[1] <= span[2]
<1> DEFINE hi == Len(document)
           S == Entry(ConstructMapping(o), v, << >>)
           R == Entry(ConstructExtendedMapping(o), v, << >>)
           IsSpan(s) == /\ s = <<s[1], s[2]>>
                        /\ s[1] \in 0..hi /\ s[2] \in 0..hi /\ s[1] <= s[2]
<1>1. PICK k \in 0..MaxDocument : document \in [1..k -> Letters]
  BY DEF TextInv, IsText
<1>2. hi = k /\ hi \in Nat
  BY <1>1, DocumentSizeAssumption
<1>3. IsAutomaton(query.va)
  BY AutomataAssumption DEF TextInv, IsAutomaton
<1>4. FallsFrom(o, 0, hi)
  BY <1>2, <1>3, OutputsFall DEF Outputs
<1> HIDE DEF hi
<1>5. ASSUME NEW T, AreSpans(T, 0, hi), NEW j \in 1..Len(T)
      PROVE  IsSpan(T[j])
  <2>1. T[j] \in Int \X Int /\ 0 <= T[j][2] /\ T[j][2] <= hi
        /\ 0 <= T[j][1] /\ T[j][1] <= T[j][2]
    BY <1>5 DEF AreSpans
  <2> QED
    BY <1>2, <2>1
<1> HIDE DEF IsSpan
<1>6. CASE kind = "stream_multi"
  <2>1. SpansOfAnswer(o) = ConstructExtendedMapping(o)
    BY <1>6 DEF SpansOfAnswer, MultiMapping
  <2>2. R = SpansOfAnswer(o)[v]
    BY <2>1 DEF Entry
  <2>3. AreSpans(R, 0, hi)
    BY <1>2, <1>4, ExtendedMappingGivesSpans
  <2>4. DOMAIN R = 1..Len(R)
    BY <2>3 DEF AreSpans
  <2> HIDE DEF R
  <2>5. IsSpan(R[i])
    BY <1>5, <2>2, <2>3, <2>4
  <2> QED
    BY <2>2, <2>5 DEF IsSpan, hi
<1>7. CASE kind # "stream_multi"
  <2>1. /\ v \in QueryVariables
        /\ SpansOfAnswer(o)[v] = <<Last(ConstructMapping(o)[v])>>
    BY <1>7 DEF SpansOfAnswer, UserMapping, ConstructUserMapping
  <2>2. AreSpans(S, 0, hi) /\ ((\E j \in DOMAIN o : Closes(o[j][1], v)) => Len(S) >= 1)
    BY <1>2, <1>4, MappingGivesSpans
  <2>3. \E j \in DOMAIN o : Closes(o[j][1], v)
    BY <1>1, <1>7, <2>1, CapturesAssumption DEF TextInv, QueryVariables
  <2>4. Len(S) \in 1..Len(S)
    BY <2>2, <2>3 DEF AreSpans
  <2>5. S = ConstructMapping(o)[v]
    <3>1. S # << >>
      BY <2>4
    <3> QED
      BY <3>1 DEF Entry
  <2> HIDE DEF S
  <2>6. SpansOfAnswer(o)[v] = <<S[Len(S)]>> /\ i = 1
    BY <2>1, <2>5 DEF Last
  <2>7. IsSpan(S[Len(S)])
    BY <1>5, <2>2, <2>4
  <2> QED
    BY <2>6, <2>7 DEF IsSpan, hi
<1> QED
  BY <1>6, <1>7

\* Each group of a match that is shorter than the buffer, asked for at any time
\* after the match has been listed, is the text of the document there, or substr
\* throws: none is made of characters that were read later.
THEOREM GroupsAreText == Spec => []GroupsAreOfTheDocument
<1>1. TextInv /\ ReadInv /\ TextIsKeptOrRefused => GroupsAreOfTheDocument
  <2> SUFFICES ASSUME TextInv, ReadInv, TextIsKeptOrRefused,
                      NEW o \in ToSet(listed) \cap Outputs(query.va, document),
                      NEW v \in DOMAIN SpansOfAnswer(o),
                      NEW i \in DOMAIN SpansOfAnswer(o)[v]
               PROVE  LET span == SpansOfAnswer(o)[v][i]
                      IN  \/ SubstrThrows(buffer, span)
                          \/ span[2] - span[1] >= BufferSize(buffer)
                          \/ Substr(buffer, span) = SubSeq(document, span[1] + 1, span[2])
    BY DEF GroupsAreOfTheDocument
  <2> DEFINE span == SpansOfAnswer(o)[v][i]
  <2>1. /\ span = <<span[1], span[2]>>
        /\ span[1] \in 0..Len(document) /\ span[2] \in 0..Len(document)
        /\ span[1] <= span[2]
    BY AnswersAreSpans
  <2> HIDE DEF span
  <2>2. CASE span[2] - span[1] < BufferSize(buffer)
    <3>1. \/ SubstrThrows(buffer, <<span[1], span[2]>>)
          \/ Substr(buffer, <<span[1], span[2]>>) = SubSeq(document, span[1] + 1, span[2])
      BY <2>1, <2>2 DEF TextIsKeptOrRefused
    <3> QED
      BY <2>1, <3>1 DEF span
  <2>3. CASE ~(span[2] - span[1] < BufferSize(buffer))
    <3>1. span[2] - span[1] >= BufferSize(buffer)
      BY <2>1, <2>3 DEF ReadInv, KeepsTheLast
    <3> QED
      BY <3>1 DEF span
  <2> QED
    BY <2>2, <2>3
<1> QED
  BY <1>1, TextInvariance, ReadInvariance, GroupsAreKeptOrRefused, PTL
=============================================================================
