------------------------------- MODULE Client -------------------------------
(***************************************************************************)
(* What a program gets from the library: the generators and the iterators  *)
(* over matches, the calls that collect matches, and the match objects,    *)
(* which a program keeps and asks for spans, groups and submatches while   *)
(* it goes on iterating.                                                   *)
(*                                                                         *)
(* What a mediator answers is a promise here (other modules are about it): *)
(* the matches of "found", one after the other, and over a stream as many  *)
(* characters read as each of them takes, or more; or, at any of them, an  *)
(* exception.                                                              *)
(*                                                                         *)
(* A character of the text is its position: no two are the same.           *)
(***************************************************************************)
EXTENDS Mappings, CircularBuffer

CONSTANTS
  Size,         \* characters of the text
  Results,      \* what a query may find: sequences of matches, each one a
                \* function from its variables to the sets of their spans
  VariableSets, \* of the queries: 0..n-1 when there are n variables
  BufferSizes,
  Limits,       \* of findmany
  MaxReserved,  \* as many matches have room in the memory there is
  MaxObjects    \* bound: the match objects a program keeps

ASSUME BoundsAssumption ==
  /\ Size \in Nat /\ BufferSizes \subseteq Nat \ {0} /\ Limits \subseteq Nat
  /\ MaxReserved \in Nat

\* A variable captures no empty word (logical_va.cpp:386), nor anything inside of
\* what it captures (variable_catalog_visitor.hpp:120).
ASSUME VariablesAssumption == VariableSets \subseteq SUBSET Nat
ASSUME ResultsAssumption ==
  \A result \in Results :
    /\ result = [i \in 1..Len(result) |-> result[i]] /\ Len(result) \in Nat
    /\ \A i \in DOMAIN result : \A v \in DOMAIN result[i] :
         LET spans == result[i][v]
         IN  /\ spans \subseteq (0..Size) \X (0..Size)
             /\ \A s \in spans : s[1] < s[2]
             /\ \A s, t \in spans : s = t \/ s[2] <= t[1] \/ t[2] <= s[1]

VARIABLES
  kind,       \* of the match objects
  variables,  \* of the query
  found,      \* the matches of the mediator's text, in its order
  from,       \* where in the stream the mediator's text begins
  buffer,     \* of the stream
  taken,      \* how many of "found" the mediator in use was asked for
  current,    \* the iterator's match, or NoMatch
  call,       \* "none", or what runs the iterator, "iterate" or "collect", or
              \* "over", or "thrown" out of what collects, or "crashed"
  limit,      \* of the matches to collect
  kept,       \* the match objects of the program
  reply       \* to the last call of groups

generator == <<kind, variables, found, from>>
vars == <<generator, buffer, taken, current, call, limit, kept, reply>>

NoMatch == [none |-> TRUE]
NoReply == [none |-> TRUE]

(***************************************************************************)
(* A mapping_cache_: no map, or one.                                       *)
(***************************************************************************)
NoCache == {}

OverStream == kind \in {"s_match", "s_multi"}
Multi == kind \in {"multi", "s_multi"}

----------------------------------------------------------------------------
(***************************************************************************)
(* Match objects. A match of a query has its mapping; one of a multi query *)
(* has the annotations of its output and, once it was asked for anything,  *)
(* the map of spans made from them. "match", "from" and "window" are       *)
(* history: what was found, where, and the part of it a submatch is of.    *)
(***************************************************************************)
Codes(match, p) ==
  {2 * v : v \in {w \in DOMAIN match : \E s \in match[w] : s[1] = p}}
  \cup {2 * v + 1 : v \in {w \in DOMAIN match : \E s \in match[w] : s[2] = p}}

\* From the last position to the first.
Annotations(match) ==
  LET positions == {p \in 0..Size : Codes(match, p) # {}}
      nth(i) == CHOOSE p \in positions : Cardinality({q \in positions : q > p}) = i - 1
  IN  [i \in 1..Cardinality(positions) |-> <<Codes(match, nth(i)), nth(i)>>]

MatchObject(match, start) ==
  [match |-> match, from |-> start, window |-> <<0, Size>>,
   annotations |-> Annotations(match), cache |-> NoCache,
   mapping |-> IF Multi THEN NoEntries
               ELSE ConstructUserMapping(DOMAIN match, Annotations(match))]

EndOf(match) == Max({0} \cup {s[2] : s \in UNION {match[v] : v \in DOMAIN match}})

\* Of a query with these variables, over a text of this size.
MayFind(result, size) ==
  \A i \in DOMAIN result :
    /\ DOMAIN result[i] = variables
    /\ EndOf(result[i]) <= size
    /\ ~Multi => \A v \in variables : Cardinality(result[i][v]) = 1

\* The character that ends a stream is read as well.
AfterReading(b, position) ==
  LET after[n \in 0..position - b.file_pos] ==
        IF n = 0 THEN b ELSE Insert(after[n - 1], b.file_pos + n - 1)
  IN  after[position - b.file_pos]

\* mediator->next(): over a stream it reads on to the end of the match at
\* least, and all of the stream before it says that there are no more.
NextMapping(result, start, n) ==
  /\ taken' = n
  /\ \E position \in buffer.file_pos..Size + 1 :
       /\ position >= IF n <= Len(result) THEN start + EndOf(result[n]) ELSE Size + 1
       /\ buffer' = AfterReading(buffer, position)

\* next() of an iterator: its match is a new object.
NextMatch(result, start, n) ==
  /\ IF OverStream THEN NextMapping(result, start, n)
                   ELSE taken' = n /\ UNCHANGED buffer
  /\ current' = IF n <= Len(result) THEN MatchObject(result[n], start) ELSE NoMatch
  /\ reply' = NoReply

\* next() ends with an exception of the mediator, which may have read on.
NextThrows ==
  /\ IF OverStream THEN \E position \in buffer.file_pos..Size + 1 :
                          buffer' = AfterReading(buffer, position)
                   ELSE UNCHANGED buffer
  /\ reply' = NoReply

----------------------------------------------------------------------------
(***************************************************************************)
(* Generators. begin() makes a new mediator: over a document it finds the  *)
(* same again, over a stream what is left of it. A program asks no more of *)
(* an iterator that has thrown, but the match it was at is still there.    *)
(***************************************************************************)
Init ==
  /\ kind \in {"match", "s_match", "multi", "s_multi"}
  /\ variables \in VariableSets
  /\ found \in {r \in Results : MayFind(r, Size)}
  /\ from = 0
  /\ buffer \in {EmptyBuffer(size) : size \in BufferSizes}
  /\ ~OverStream => BufferSize(buffer) = Min(BufferSizes)  \* there is none
  /\ taken = 0
  /\ current = NoMatch
  /\ call = "none"
  /\ limit = 0
  /\ kept = << >>
  /\ reply = NoReply

\* A document can be given to another call. (A reader is no longer at its start.)
Ready == call = "none" \/ (call \in {"iterate", "over", "thrown"} /\ ~OverStream)

Begin ==
  /\ Ready
  /\ call' = "iterate"
  /\ limit' = 0
  /\ NextMatch(found, from, 1)
  /\ UNCHANGED <<generator, kept>>

BeginAgain ==
  /\ call = "iterate" /\ OverStream
  /\ from' = Min({buffer.file_pos, Size})
  /\ found' \in {r \in Results : MayFind(r, Size - from')}
  /\ NextMatch(found', from', 1)
  /\ UNCHANGED <<kind, variables, call, limit, kept>>

Increment ==
  /\ call = "iterate" /\ current # NoMatch
  /\ NextMatch(found, from, taken + 1)
  /\ UNCHANGED <<generator, call, limit, kept>>

BeginThrows ==
  /\ Ready \/ call = "iterate"
  /\ call' = "over"
  /\ limit' = 0
  /\ taken' = 0
  /\ NextThrows
  /\ UNCHANGED <<generator, current, kept>>

IncrementThrows ==
  /\ call = "iterate" /\ current # NoMatch
  /\ call' = "over"
  /\ taken' = 0
  /\ NextThrows
  /\ UNCHANGED <<generator, current, limit, kept>>

\* A copy of the iterator's match, with what it knows already.
Keep ==
  /\ call \in {"iterate", "over"} /\ current # NoMatch
  /\ Len(kept) < MaxObjects
  /\ kept' = Append(kept, current)
  /\ reply' = NoReply
  /\ UNCHANGED <<generator, buffer, taken, current, call, limit>>

----------------------------------------------------------------------------
(***************************************************************************)
(* findone, findmany and findall: the program gives up what it has, for    *)
(* what they return. Over a document findone has a mediator of its own,    *)
(* whose match may be any that is found.                                   *)
(***************************************************************************)
Findone ==
  /\ Ready
  /\ call' = "over"
  /\ current' = NoMatch
  /\ limit' = 0
  /\ IF OverStream THEN NextMapping(found, from, 1) ELSE taken' = 1 /\ UNCHANGED buffer
  /\ IF found = << >> THEN kept' = << >>
     ELSE \E i \in IF OverStream THEN {1} ELSE DOMAIN found :
            kept' = <<MatchObject(found[i], from)>>
  /\ reply' = NoReply
  /\ UNCHANGED generator

\* The vector of matches goes with the exception, as does the iterator.
Throws ==
  /\ call' = "thrown"
  /\ current' = NoMatch
  /\ kept' = << >>

FindoneThrows ==
  /\ Ready
  /\ limit' = 0
  /\ taken' = 1
  /\ NextThrows
  /\ Throws
  /\ UNCHANGED generator

Collecting(n) ==
  /\ Ready
  /\ limit' = n
  /\ \/ NextMatch(found, from, 1) /\ call' = "collect" /\ kept' = << >>
     \/ NextThrows /\ taken' = 1 /\ Throws
  /\ UNCHANGED generator

\* Of a query, not of a multi query, findmany reserves its limit at once.
ReserveThrows(n) == ~Multi /\ n > MaxReserved

Findmany(n) ==
  \/ ~ReserveThrows(n) /\ Collecting(n)
  \/ /\ Ready /\ ReserveThrows(n)
     /\ limit' = n
     /\ taken' = 0
     /\ reply' = NoReply
     /\ Throws
     /\ UNCHANGED <<generator, buffer>>

\* No limit that a program could reach.
Findall == Collecting(Len(found) + 2)

CollectionEnds == current = NoMatch \/ Len(kept) >= limit

Collect_Late ==  \* mutant: the match kept is the one after
  /\ call = "collect" /\ ~CollectionEnds
  /\ NextMatch(found, from, taken + 1)
  /\ kept' = IF current' = NoMatch THEN kept ELSE Append(kept, current')
  /\ UNCHANGED <<generator, call, limit>>
Collect ==
  /\ call = "collect" /\ ~CollectionEnds
  /\ kept' = Append(kept, current)
  /\ NextMatch(found, from, taken + 1)
  /\ UNCHANGED <<generator, call, limit>>

CollectThrows ==
  /\ call = "collect" /\ ~CollectionEnds
  /\ taken' = taken + 1
  /\ NextThrows
  /\ Throws
  /\ UNCHANGED <<generator, limit>>

Return ==
  /\ call = "collect" /\ CollectionEnds
  /\ call' = "over"
  /\ current' = NoMatch
  /\ limit' = 0
  /\ UNCHANGED <<generator, buffer, taken, kept, reply>>

----------------------------------------------------------------------------
(***************************************************************************)
(* Calls of a match object: 0 is the iterator's, the others are kept. What *)
(* is not a variable of the query is refused before anything is done.      *)
(***************************************************************************)
Objects == (IF current = NoMatch THEN {} ELSE {0}) \cup DOMAIN kept
Object(i) == IF i = 0 THEN current ELSE kept[i]

Called(i) == call \in {"iterate", "over"} /\ i \in Objects

Becomes(i, object) ==
  /\ current' = IF i = 0 THEN object ELSE current
  /\ kept' = IF i = 0 THEN kept ELSE [kept EXCEPT ![i] = object]

Cached(o) ==
  IF o.cache = NoCache THEN ConstructExtendedMapping(o.annotations)
                       ELSE CHOOSE map \in o.cache : TRUE

\* The map gets an entry for a variable it is asked for.
CachedWith(o, v) == WithEntry(Cached(o), v, Entry(Cached(o), v, << >>))

\* Substr of the document, or of the stream if it still has it.
TextOf(span) ==
  IF ~OverStream THEN [k \in 1..span[2] - span[1] |-> span[1] + k - 1]
                 ELSE Substr(buffer, span)
\* No group is given with an EvaluationException.
Groups(spans) ==
  LET thrown == OverStream /\ \E i \in DOMAIN spans : SubstrThrows(buffer, spans[i])
  IN  [thrown |-> thrown,
       texts |-> [i \in IF thrown THEN {} ELSE DOMAIN spans |-> TextOf(spans[i])]]

Replies(i, v, value) == reply' = [object |-> i, variable |-> v, value |-> value]

\* start, end, span and group of a match.
AskGroup(i, v) ==
  /\ Called(i) /\ ~Multi
  /\ Replies(i, v, Groups(<<Object(i).mapping[v]>>))
  /\ UNCHANGED <<generator, buffer, taken, current, call, limit, kept>>

\* spans of a multi match.
AskSpans(i, v) ==
  /\ Called(i) /\ Multi
  /\ Becomes(i, [Object(i) EXCEPT !.cache = {CachedWith(Object(i), v)}])
  /\ reply' = NoReply
  /\ UNCHANGED <<generator, buffer, taken, call, limit>>

AskGroups(i, v) ==
  /\ Called(i) /\ Multi
  /\ LET map == CachedWith(Object(i), v)
     IN  /\ Becomes(i, [Object(i) EXCEPT !.cache = {map}])
         /\ Replies(i, v, Groups(map[v]))
  /\ UNCHANGED <<generator, buffer, taken, call, limit>>

AskEmpty(i) ==
  /\ Called(i) /\ Multi
  /\ Becomes(i, [Object(i) EXCEPT !.cache = {Cached(Object(i))}])
  /\ reply' = NoReply
  /\ UNCHANGED <<generator, buffer, taken, call, limit>>

Inside(w, window) == <<Max({w[1], window[1]}), Min({w[2], window[2]})>>

\* Mutant: the submatch knows the spans of the whole match.
SubmatchOf_Cached(o, span) ==
  [o EXCEPT !.annotations = GetSubmapping(o.annotations, span),
            !.window = Inside(@, span)]
SubmatchOf(o, span) ==
  [o EXCEPT !.annotations = GetSubmapping(o.annotations, span),
            !.window = Inside(@, span),
            !.cache = NoCache]

\* What lies 2^32 annotations past the vector is not the program's to read.
Submatch(i, span) ==
  /\ Called(i) /\ Multi
  /\ Len(kept) < MaxObjects
  /\ IF SearchLeavesVector(Object(i).annotations, span)
       THEN call' = "crashed" /\ UNCHANGED kept
       ELSE kept' = Append(kept, SubmatchOf(Object(i), span)) /\ UNCHANGED call
  /\ reply' = NoReply
  /\ UNCHANGED <<generator, buffer, taken, current, limit>>

Spans == {span \in (0..Size) \X (0..Size) : span[1] <= span[2]}

----------------------------------------------------------------------------
(***************************************************************************)
(* The classes. What a generator over a stream makes anew is an iterator,  *)
(* never the stream.                                                       *)
(***************************************************************************)
IteratorThrows == BeginThrows \/ IncrementThrows

MatchStandardGenerator == kind = "match" /\ (Begin \/ Increment \/ IteratorThrows)
SMatchGenerator ==
  kind = "s_match" /\ (Begin \/ BeginAgain \/ Increment \/ IteratorThrows)
MultiMatchGenerator == kind = "multi" /\ (Begin \/ Increment \/ IteratorThrows)
SMultiMatchGenerator ==
  kind = "s_multi" /\ (Begin \/ BeginAgain \/ Increment \/ IteratorThrows)

Collects ==
  \/ Findone
  \/ FindoneThrows
  \/ \E n \in Limits : Findmany(n)
  \/ Findall
  \/ Collect
  \/ CollectThrows
  \/ Return

Query == ~Multi /\ Collects
MultiQuery == Multi /\ Collects

MatchCalled == Keep \/ \E i \in 0..MaxObjects : \E v \in variables : AskGroup(i, v)

MultiMatchCalled ==
  \/ Keep
  \/ \E i \in 0..MaxObjects :
       \/ \E v \in variables : AskSpans(i, v) \/ AskGroups(i, v)
       \/ AskEmpty(i)
       \/ \E span \in Spans : Submatch(i, span)

MatchStandard == kind = "match" /\ MatchCalled
SMatch == kind = "s_match" /\ MatchCalled
MultiMatchStandard == kind = "multi" /\ MultiMatchCalled
SMultiMatch == kind = "s_multi" /\ MultiMatchCalled

Next ==
  \/ MatchStandardGenerator
  \/ SMatchGenerator
  \/ MultiMatchGenerator
  \/ SMultiMatchGenerator
  \/ Query
  \/ MultiQuery
  \/ MatchStandard
  \/ SMatch
  \/ MultiMatchStandard
  \/ SMultiMatch

Spec == Init /\ [][Next]_vars

----------------------------------------------------------------------------
(***************************************************************************)
(* Properties.                                                             *)
(***************************************************************************)
\* The spans of a variable that a match object is to give, and how.
SpansInside(o, v) == {s \in o.match[v] : o.window[1] <= s[1] /\ s[2] <= o.window[2]}

ListsInOrder(spans, S) ==
  /\ ToSet(spans) = S
  /\ \A i, j \in DOMAIN spans : i < j => spans[i][1] < spans[j][1]

\* "Computes a multi match that contains the spans inside the span passed as
\* argument": so does a submatch of a submatch, and whatever was asked of the
\* match before. A match of a query gives the one span.
SpansAreThoseInside ==
  \A i \in Objects : \A v \in variables :
    LET o == Object(i)
    IN  ListsInOrder(IF Multi THEN Entry(Cached(o), v, << >>) ELSE <<o.mapping[v]>>,
                     SpansInside(o, v))

\* The groups of a match are the text of its spans, for as long as the match is
\* kept; over a stream they are refused once, and only once, the stream has
\* forgotten one of them. (Of the first iteration: the positions of another one
\* are not those of the stream. A group as long as the buffer is left out.)
GroupsAreOfTheText ==
  reply # NoReply /\ Object(reply.object).from = 0 =>
    LET inside == SpansInside(Object(reply.object), reply.variable)
        Forgotten(span) == span[1] < buffer.file_pos - BufferSize(buffer)
        groups == reply.value
    IN  /\ groups.thrown <=> OverStream /\ \E span \in inside : Forgotten(span)
        /\ ~groups.thrown =>
             \E spans \in [DOMAIN groups.texts -> inside] :
               /\ ListsInOrder(spans, inside)
               /\ \A i \in DOMAIN spans :
                    \/ OverStream /\ spans[i][2] - spans[i][1] >= BufferSize(buffer)
                    \/ groups.texts[i] = [k \in 1..spans[i][2] - spans[i][1] |->
                                            spans[i][1] + k - 1]

\* findmany gives the first matches, up to the limit, each one once, and findall
\* all, whatever a program did with the document before. Both compute just one match
\* more than they give, the one that the loop increments the iterator to before it
\* looks at the limit: an exception of it, and of no later one, takes all the others
\* with it. Nothing but a limit of findmany without room for so many matches throws
\* before the first one, and not in a multi query.
EveryMatchIsCollected ==
  LET given == Min({limit, Len(found)})
  IN  /\ call = "collect" /\ CollectionEnds =>
           /\ [i \in DOMAIN kept |-> kept[i].match] = SubSeq(found, 1, given)
           /\ taken = given + 1
      /\ call = "thrown" =>
           /\ taken <= given + 1
           /\ taken = 0 => ~Multi /\ limit > MaxReserved
=============================================================================
