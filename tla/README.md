# A TLA+ model of REmatch

REmatch evaluates regular expressions with capture variables (REQL) and lists
*all* their matches. This directory models it in TLA+, from the automaton of an
expression to the match objects a program is given: the modules are translated
from the C++ under `src/rematch` and `src/targets/lib`, TLC checks them on small
instances, and TLAPS proves some of the results for every value of the
constants. `PROJECT.json` maps each definition to the lines it stands for.

## 1. The system

A query goes through these parts, all in the caller's thread. Which mediator,
filter and algorithm it takes depends on the call (`finditer`, `findone`,
`check`), on whether a variable may have several spans, on whether the text is a
document or a stream, and on the flag to go line by line:

```
 query text -> parser, visitors -> LogicalVA --+-> SearchNFA -> SearchDFA -> SegmentIdentificator (segments)
                                               |                             SegmentIdentificatorStream
                                               |                             SegmentChecker (lines)
                                               +-> ExtendedVA -> ExtendedDetVA      |
                                                        |                           v
 Document / CircularBuffer <- Stream -----------+       |                       Mediator -> generator, Match
                                                v       v                           |
                             ECS <------ Finditer-, Findone-, StreamAlgorithm <-----+
                              | nodes                   | root
                        NodeManager                 Enumerator -> Mapping / ExtendedMapping
```

| Component | State | Operations | What makes it correct | Modules |
|---|---|---|---|---|
| NodeManager, ECSNode, MiniPool | pools, free list threaded through the nodes, reference counts | `alloc`, `increase_ref_count`, `decrease_ref_count`, doubling, recycling | counts are exact, nothing in use is recycled, nothing unused is lost, the limit is thrown only over live nodes | `NodeManager` |
| ECS | the node manager | bottom, extend, union nodes, pin, unpin | a node goes on standing for the outputs it was built for; constant delay | `ECS`, `ECSCalls`, `OutputSets`, `ECSRefinement` |
| Enumerator | stack of nodes, annotations so far, stack of counters | `next`, `reset`, `add_node` | each output once, bounded delay, ends | `Enumerator` |
| Mapping, ExtendedMapping | annotations | spans, submapping, shift | the spans of a variable, in order | `Mappings` |
| Document, Line | the text | `size`, `[]`, end character | | `Documents`, `Lines` |
| SearchNFA, SearchDFA | states made, transitions cached | `next_state` | the NFA accepts what the expression does; limit on states | `QueryData`, `SearchDFA` |
| SegmentIdentificator | scan position, candidate segment, DFA state | `next`, `evaluate_start_char` | no match is lost or cut in two, no overlap, ends | `SegmentIdentificator` |
| ExtendedVA, ExtendedDetVA | automaton; deterministic states with their node and phase | construction, cleaning, `get_next_states` | accepts the matches of the expression; one run per match | `ExtendedVA`, `QueryData` |
| FinditerAlgorithm | lists of states, position, root node | `next`, `reset`, evaluation of a character | every match, once; every pin undone | `FinditerAlgorithm` |
| FindoneAlgorithm | the same, one node for each state | `next` | a first match if there is any; nodes not kept are freed | `FindoneAlgorithm` |
| Mediators over a document (finditer, findone, each for one span or several) | filter and algorithm | `next` | the answer is that of the query | `Mediator`, `DocumentMediators`, `MediatorConstructor` |
| CircularBuffer, Stream | cells, position in the stream | `insert`, `at`, `get_segment`, `substr`, `read` | nothing stale is read | `CircularBuffer`, `SegmentIdentificatorStream` |
| SegmentIdentificatorStream, StreamAlgorithm, stream mediators | as over a document, and whether the last segment fitted | `next` | the algorithm evaluates the text that the filter has read | `SegmentIdentificatorStream`, `StreamMediator` |
| Line splitters, SegmentChecker, line-by-line and check mediators | position, DFA state, offset of the line | `get_line`, `check`, `next` | each line answered as a document of its own | `Lines`, `LineMediators` |
| Match, MultiMatch, generators | mapping or annotations, cache of spans | iteration, `spans`, `groups`, `submatch`, `empty` | what is kept goes on giving the same spans and the text of the match | `Client` |
| Query, MultiQuery | what a query keeps | `findone`, `findmany`, `findall`, `finditer`, `check` | the first matches, up to the limit | `Client`, `MediatorConstructor` |
| LogicalVA, VariableCatalog, visitors | automaton under construction, variables seen | `cat`, `alter`, `kleene`, `assign`, `repeat`, ...; refusing expressions | language and captures of the expression | `LogicalVA`, `QueryConstruction` |
| Character classes | ranges of code points | `add_range`, `negate`, the automaton over bytes | reads the code points of the class and no other | `CharacterClasses` |
| Parser | generated by ANTLR | | | not modelled |
| Bindings, command line, statistics | | | | not modelled: printing, and wrappers around the library |

There is no concurrency and nothing is persisted. What is hard is elsewhere:

- memory is managed by hand. A node's count and the link of the free list share
  storage, children are given up only when their parent is recycled, and any
  allocation may recycle, double the pool or throw, also in the middle of a union;
- between two calls of `next()` the client holds a half-enumerated graph, and the
  evaluation goes on and recycles nodes afterwards;
- the filter and the algorithm read the text at their own pace: a segment
  ends one character late, its start is found looking back, and over a
  stream both read through one bounded buffer that wraps round;
- a match kept by the program is asked for its text when the buffer has moved on;
- the search automaton goes from one line to the next without being reset;
- exceptions leave from the middle of a loop;
- the automata are rewritten in place, with a flag and anchors kept up to date on
  the side, and character classes are cut into bytes by arithmetic on prefixes.

The hazards are listed one by one in `PROJECT.json`, each with the properties that
would see it go wrong.

## 2. The modules

### Outputs and their enumeration

**NodeManager** has no variables. A heap is a record (nodes, counts, free list,
newest pool, recycled nodes) and each method is an operator from a heap to the
heap it leaves. An address is the rank of first allocation. A node on the free
list has no count, because the link uses its storage: it is 0 in the model, and
`FreeListSound` shows that no reference to such a node is ever counted.

**ECS** is the interface with the most general client: any interleaving of
creations, pins and unpins, where a node may be used only if it is pinned or has
just been returned. The union of two non-output nodes is three actions, one for each
allocation, so that any of them may recycle or throw. Two rules of the client
come from how the algorithms use the interface: what is returned is pinned or used
before anything else is asked for, and the operands of such a union are pinned.

**OutputSets** says what an ECS promises: a handle stands for a bag of outputs,
whatever else is created or released. **ECSRefinement** maps a node to the
outputs that can be read below it; `ImplementsOutputSets` is the refinement.

**ECSCalls** is the same interface as operators, each call in one step, for the
modules that own a heap. A call that throws leaves a heap on which nothing more
is created.

**Enumerator** has one action for each iteration of the loop of `next()`: undoing
the annotations of the last mapping, a bottom, a label and a union node.

**Mappings** turns the annotations of an output into spans, one for each variable
(`Mapping`, whose user mapping has each variable of the query) or several
(`ExtendedMapping`), annotation by annotation. A variable has the bits 2v (open) and
2v + 1 (close). Bits of different variables do not disturb each other, so only the order of
the two bits of one variable matters: the code of `Mapping` reads the open one first, that of
`ExtendedMapping` the close one. `get_submapping` is translated with its two loops;
`SearchLeavesVector` is the case in which the second has no annotation to stop at.

### Automata

**Automata** has what the searches over automata visit, as a set. **LogicalVA** has each
operation on the automaton of an expression as an operator, with the states
numbered so that joining two automata renumbers the second. **ExtendedVA** has the
construction from a LogicalVA, the steps of `clean_for_determinization` and the
subset construction. **QueryData** puts them together: what a query keeps.

**QueryConstruction** visits an expression bottom up. Its state is a stack of
finished parts; each action is one node of the tree and does what both visitors do
there, exceptions included. `VariableLimits` stands for `MAX_VARS`: past it a
variable is dropped without a word by `add` and refused by `merge`. Each part
carries the set of words it means, with their markers, computed by **MarkedWords**
without automata, for the properties to compare with. Words are cut at a number of
characters, which changes no shorter word.

**CharacterClasses** adds ranges of code points, single ones and shorthands, negates
them and builds the automaton that reads their encodings; a literal and the dot
build theirs at once. The ranges of a shorthand are a constant (`SharedAtoms`).
Encodings are written in a small base with lengths one to four, like UTF-8, but keep
the difference between the values of a digit and those of a byte, on which a
comparison in the code depends. The automaton is kept as the sequences of sets of
bytes that it alternates. The functions for two, three and four bytes are one operator
with two parameters, what the shorter function builds for the rest and for the middle.

### Evaluation over a document

**Documents**, **SearchDFA** and **SegmentIdentificator**: an action is an iteration of
the scan, and each branch of its body an action of its own. The filter's NFA is a
constant. The cache of transitions is left out (it returns what would be computed);
the catalog of states is kept since its size is limited.

**FinditerAlgorithm** has one action for each round of each loop: asking for the
successors of a state, handing its node on to one successor (the one without
captures first, the others in any order, since the code has them in a hash map),
giving the node up, swapping the lists, joining the accepting states, and the two
kinds of exception. The enumerator is instantiated on the algorithm's variables.
**FindoneAlgorithm** evaluates a character in the same way, with another
`update_output_nodes`: the actions are shared, and `KeepFirst` takes the place of `Update`.

**PlainMatches** is the reference: the runs of an automaton over a document,
enumerated as such, their outputs, the first of them, and their spans read off
directly. Everything that is answered is compared with it.

**Mediator** composes the algorithm with a filter, which it instantiates on variables
of its own. **DocumentMediators** has the four mediators over a document; which of
them a query gets is decided by **MediatorConstructor**, which has the seven
`create_*_mediator` functions and the choice of `check()`. `Answers` are the mappings that
`next()` returns to the user. The findone mediators call `begin` before they say which the
segment is, so that the algorithm reads the document from its start; no match ends before the
segment, and the answer is the same.

### Streams and lines

**CircularBuffer** is the buffer as a record of cells and `file_pos`, with its methods
as operators; a cell that was never written holds `NoChar`, and what is read there
is any character. **SegmentIdentificatorStream** is the filter over a stream, with the
early return for a segment that the buffer no longer holds.
**StreamMediator** adds the algorithm, which reads back what the filter has read and reads the
rest of a segment that did not fit from the stream itself; the two
stream mediators differ in how annotations become spans.

**Lines** has both line splitters and the two forms of the `SegmentChecker`.
**LineMediators** has the fourteen mediators that go line by line or that answer queries without
variables. A line is taken, checked and begun in one action, which is what the loop does
between two answers; the line is then evaluated by the actions of the algorithm.
The line a stream mediator evaluates is what `get_segment` finds in the buffer.

### The library

**Client** is any program that uses the library: generators and their iterators
(also a second `begin()`), the calls that collect matches, and match objects that
it keeps and asks for spans, groups, submatches and emptiness. What a mediator
answers is a promise there, chosen from `Results`, since the other modules are about it; at
any match it may throw instead (`NextThrows`), out of `begin()`, `++` or a call that collects. A
document is given to one call after the other (`Ready`). A reader is given to one: another call would
make another stream of what is left of it, which is another beginning. A
character of the text is its position, so that no two are the same and a stale group shows. Each
class is an action of its own (`SMatchGenerator`, `MultiMatchStandard`, ...).

The MC modules choose the queries: **MCExpressions** has one for each feature.

## 3. The runs

| Run | Bounds | Shows |
|---|---|---|
| `ecs` | first pool of 1 node, doubled twice (1 + 2 + 4 nodes), one label, two pinned nodes with one pin each, one recycled node | type, exact counts, sound free list, no leak, no live node on the free list, two steps at most to an output node, no garbage when the limit is thrown, frozen graph, refinement of `OutputSets` |
| `enumerator` | all graphs of up to six calls, each label different | the delay does not depend on the graph; every output is listed and the enumeration ends |
| `segments` | every NFA with one middle state over two letters, chains of two, and anchored ones; documents of up to four letters; five DFA states | no match is lost, segments do not overlap, the scan keeps within its limits |
| `documents` | eighteen queries, three of them with several spans for a variable, documents of up to five letters, all four mediators, pools of 2 + 4 + 8 nodes, eight states for each automaton | the answer to a finditer query is its matches and each once, to a findone query one of the first; nodes in use are counted and nodes not kept are freed at once; every query is answered or ends with an exception, and what was listed before it is right |
| `unmarked_matches` | the same, two multi queries with a match that opens no variable | **violated**: a segment begins from a node that is on the free list |
| `query_construction` | every expression of up to five parts over two letters, two variables and a limit of one or two, the anchors, `?`, `+`, `*` and six quantities; words of up to three characters | the extended VA has the words and captures of the expression, the filter's NFA its words; the flag for the empty word is exact; no anchor is missed; one span for each variable |
| `character_classes` | base 3, code points 0 to 107 in lengths 1 to 4, up to three ranges between 16 end points or shorthands, negated or not, and atoms on their own | ranges are merged into the class; each of its code points is read; no other is, but for the case below (117,974 states) |
| `nothing_else_is_matched` | the same with one range | **violated**: a range over a carry reads too much |
| `stream` | ten queries, two of them only for multi, documents of up to five letters, buffers of 2, 3 and 8 cells, both stream mediators, pools of 2 + 4 nodes, eight states | the algorithm reads the document; every match is listed, and nothing else if all segments fit; a group is text of the document or refused; every query is answered |
| `lines` | nine queries, texts of up to four characters of which any may be a new line, buffers of 2 and 3 cells, all fourteen mediators, six states | the answers are those of the lines, where they are in the text; checks are right; no line is taken without a match |
| `full_lines` | the same | **violated**: a line as long as the buffer is not evaluated as it was read |
| `client` | texts of three characters, six results of up to two matches, queries of no, one and two variables, buffers of 2 and 3 cells, limits 0 to 3 with room for two, two match objects kept | spans and submatches are those inside; groups are the text, or refused once it is gone; the calls that collect give the first matches, ask for just one more, and lose them to no exception of a later one |

Why the bounds are enough.

- `ecs`: seven nodes hold the largest union (bottom,
  two extends, two unions and the three nodes of a union of non-outputs exceed the
  first two pools), every kind of allocation happens, and one recycled node is reused
  with children of its own. One label is enough since labels are never compared;
  the bag in `OutputSets` tells outputs apart by length and multiplicity.
- `segments`: two letters suffice to make runs survive, die and accept
  independently, and four letters let two segments with an interrupted candidate between
  them occur.
- `query_construction`: five parts reach every pair of operations on top of each
  other with operands that may be empty, and three characters tell apart all the
  quantities (two, up to two, at least two). Two letters and no case
  distinction between them make symmetry sound.
- `character_classes`: the end
  points lie on both sides of each place where the length of the encoding or a prefix of
  any number of bytes changes, with every kind of carry between two of them, and three ranges
  can meet on the left, on the right and inside at once.
- `documents`: the automata are built by the operators of `LogicalVA` and `QueryData`
  from queries chosen one for each feature: a loop, an optional part that dies later
  than the match ends, a fixed suffix, adjacent and distant variables (several captures
  between the same sets), a filter with segments without matches, two accepting
  deterministic states at one position, the two anchors, one of them optional, and
  variables that open again where they close. With five letters each has at least two
  segments or matches that overlap. The pools are small enough that nodes are recycled,
  pools are doubled and the limit is thrown in the middle, and eight
  states are too few for some of the automata.
- `stream`: with two cells every match but the shortest is longer than the
  buffer, with three a segment fits or not depending on the letters, with eight nothing
  wraps round. The expressions have candidates that grow beyond the buffer, are broken
  off and start again, or accept and go on; two multi queries may skip a variable or give it
  two spans.
- `lines`: four characters give empty lines, lines shorter than the buffer, as long and
  longer, first, last and in between, and a line after one that left the search automaton
  in any of its states. `MaxDfaStates` and `MaxDetStates` are the same number
  there, as both stand for one setting of the code (`max_deterministic_states`).
- `client`: two kept objects are a match and its submatch, or two matches of which
  the older is stale; three characters and two cells make a group forgotten while
  another is not. The results have spans side by side, apart, around each
  other, and none. The limits lie below, at and above the number of matches, and one is
  above what can be reserved (`MaxReserved`).

Deadlock is not checked, because every run ends by itself: the enumeration, the
query, the expression, the class or the program is over, or the bound on recycled nodes
stops the client of the ECS.

*Fairness.* All of it is `WF_vars(Next)`: one thread runs each call to its end, and
the client asks again as long as there is an answer, which is what the match
generators do. It is used for `EverythingIsListed` and `QueryIsAnswered` (over
documents and streams).

*Mutants.* Each property has a mutant next to the definition it changes, a bug that
code could plausibly have, and TLC finds the property violated under it.

### What the violations say

- `buildThreeBytesAutomaton` and `buildFourBytesAutomaton` compare the prefixes of the two
  ends of a range as numbers with eight bits a byte. Prefixes that follow each
  other with a carry, as in `[\u0FFF-\u1000]` (E0 BF and E1 80), seem to have others between
  them; the ends of the middle part cross, and both prefixes are read with any byte after
  them, so that U+1001 is matched too. With four bytes, the same can happen one byte
  further left to the prefixes in the middle, although those of the ends do not follow each
  other. `NothingElseIsMatchedWithoutCarry` says that these are the only ways a class reads
  too much, and it is proved.
- `FinditerAlgorithm` enumerates a deterministic state that accepts and does not carry it on.
  With one span for each variable nothing goes on through such a state. In a multi
  query whose match may open no variable (`!x{a+}|b`, `(!x{a})?b`), it is the state that also
  has the initial one, and once it has been enumerated nobody holds the bottom node any
  more. The next segment begins from it nevertheless: it is pinned while it is on the free list,
  where the count and the link share storage. Compiled, the algorithm and the
  filter crash on the first of these queries over `bc` and a hundred `a`; in the model the
  graph gets a cycle and the enumeration does not end. The properties of `documents` that
  depend on it are claimed of queries without such a match (`HasUnmarkedMatch`), and the queries
  over streams and lines have none.
- A line exactly as long as the buffer passes the test of `LineSplitterStream`, but its end
  has been written over its first character by then, and `get_segment` takes a line that
  starts and ends at one cell as one that does not wrap round, and reads past the
  buffer. Two tests use such lines and pass since they compare only what is found.

### Known divergences without a run

Met while modelling; the models behave as the code does, and the properties
are stated so that they hold:

- Any multi query may have a match that goes on through a state that accepts, and it is lost:
  `!x{a}(b!x{a})?` on `aba` lists the spans [0, 1) and [2, 3), each alone, and never the
  match that has both, which the interface promises with "all the matches".
  `EveryMatchIsListed` says what is left, over documents and streams: a match that is lost begins as one
  that is listed.
- `SegmentIdentificator::next()` returns when a character has ended all runs without
  moving on, so the next call feeds the character to the DFA again, and runs that it
  had started read it twice: `a|bb` on `ab` gives the segment [1, 2), although the class
  comment promises segments with at least one output. No answer is wrong.
- `FinditerAlgorithm::reset()` forgets the states alive at the end of a segment, and their
  nodes stay pinned: `!x{aa|b}` on `ba`. They count against the memory limit of a long document.
  Hence `HeldNodesAreCounted` is exact only up to the end of the first segment.
- Over a stream, after a segment that did not fit, the filter goes on behind what the algorithm
  has read, and the same match may be listed twice (`!x{aa|b}` on `ab`, buffer of 2). Hence
  `NothingElseIsListedIfAllFits`.
- Stream mediators do not look at whether a query is anchored: `^!x{a}|!x{ab}` on `bab` treats
  each segment as a text that begins there.
- `begin()` a second time on a generator over a stream makes a mediator that counts
  positions from 0 again, in the middle of the stream.
- `submatch` of a span that lies after all the annotations reads outside the vector; the
  model stops there (`"crashed"`).
- `empty()` of a multi match is false after `spans()` was asked about a variable without
  any, because asking makes an entry.
- `findmany` computes one match more than it returns, also for a limit of 0, and an exception of that
  one loses the others; of a query, not of a multi query, it reserves room for `limit` matches
  before it looks for any. `EveryMatchIsCollected` says so, and that it is no worse.
- `substr` of a span exactly as long as the buffer has start and end at one cell;
  groups of that length are left out of the two properties on groups.

## 4. The proofs

**ECSProofs** (with the lemmas of **NodeManagerProofs** on each operator) proves of
`ECS!Spec`, for every set of labels, pool size, limit and bound: `TypeOK`,
`RefCountExact`, `FreeListSound`, `LiveNodesAreNotFree` and `LiveNodesAreFrozen`.
The assumptions are those of the constants: `NoLabel` is no label, the first pool
and the client's bounds are not empty. None of these is inductive alone. The
invariant is the conjunction of exact counts and of what the free list is: nodes
without references, each once. The count of a node is the number of its parents
(those on the free list too) plus its pins, so a node with a reference cannot be
on the list, and a node that leaves the list to be recycled has no parent that its new
content could surprise. An allocation is one chain of heap operators, and each link (pop,
release right, release left, reset, acquire left, acquire right) has a lemma that
says by how much each count is off from exact in between.

The same module proves `NoCycle`: in every set of nodes one has no child in the set and
one no parent. What each allocation builds is said once, in `OnlyBuilds`: one node,
whose address no other node points to and whose children, copies of an existing node's or the
operands, are others. The other proofs about the graph start from there.

The next part of that module is about the whole graph.

- `NothingLeaks`. Nothing in the invariant above says that a node without references *is* on
  the free list. What is added is the set of loose nodes (no reference, not free): of each heap
  operator it is shown which node it can make loose. A release makes none, recycling
  and allocating only the node they hand out, and an allocation takes its children out of
  the set. So the client's protocol keeps the set within the node just returned and the
  one of a call in progress, until an allocation throws.
- `NoGarbageAtLimit`, of the moment at which the limit is exceeded. (Before that, the children of a
  freed node are out of reach and not free until it is recycled.) Of the nodes out of reach, one would have no parent among them, as there
  is no cycle; it has no parent elsewhere either, nor a pin, so it is loose or free. At the limit
  the free list is empty, and the only loose nodes are among those the client holds.
- `OutputDepthBounded`. A node is rewritten only when it has no parent, so the depth below
  every other node stays. The three allocations of a union of two non-output nodes are what
  needs an argument: the first may be two left children away from an output, the second is
  not because the left child of the second operand is an output; so the depth of the
  intermediate node at the third stage is part of the invariant.
- `GraphIsEnumerable`. The same invariant, and the absence of cycles, give all that an
  enumeration needs of a graph (`Enumerable`): each path down ends within as many steps as
  there are nodes, each kind of node has its children, an output is near.

The last part proves `ImplementsOutputSets`: each step of the ECS is a step of
`OutputSets` or none of it. The outputs of a node are a recursive function over the graph.
It has at most one solution, because two would differ at a node none of whose children they
differ at, and there is none without a cycle. It has one, because the solution
before an allocation, with the new node's outputs, is the solution after it. The
union in progress adds what its intermediate node stands for (`CallLists`), so that the third
allocation is seen to return the operands' outputs, joined in another order.

**EnumeratorProofs** proves of `Enumerator!Spec` `DelayBounded` and `ListedInOrder`, for every
set of graphs that are `Enumerable`: what is assumed of the constant `Graphs` is what
`GraphIsEnumerable` proves of the ECS. `ListedInOrder` is the safety part of
`EverythingIsListed`: what `next()` has returned is the beginning of the list that the
root stands for, and all of it once the stack is empty. The invariant relates the two stacks. The
counters of one cut the annotations into prefixes; each node on the other gives its outputs
below one of them; what has been listed, and then what the nodes on the stack give from the
last to the first, is the list of the root. For the delay it adds that the
iterations since the last output and the unions still to cross before the next label
(at most two, and one after a label) stay within twice the annotations read, plus two. That the
outputs of a node are defined at all is proved layer by layer, from the nodes
without children upwards.

**SegmentIdentificatorProofs** proves `TypeOK` and `SegmentsAreDisjoint` for every
family of NFAs, every alphabet, document and limit. The invariant adds where the segments returned
must lie: before the candidate during a call, before the scan position between two.

It proves `MatchesAreCovered` too, for the same families: cutting the
document into segments loses no match. The invariant follows one run of the NFA, from
any position: after the next character its states are among the ones the SearchDFA
has kept; it is over if it began before the candidate (between two calls, before the
scan position, although the character that ended the segment is read again, from a
DFA state that has read it already); and each match it has made lies in a segment or in the candidate.
`RunsFrom` is a recursive function; that it satisfies its equation is proved with the
library's theorem that a set of naturals has a least element (`LeastNumber`,
`RunsExist`), no induction theorem being usable.

**StreamMediatorProofs** proves `ReadsTheDocument` of `StreamMediator!Spec`, for every
query, stream and set of buffer sizes. What has to be assumed of the sizes is exact: a
buffer has two cells at least. With one cell, which the code accepts, the character
that ends a segment takes the place of the segment, and the invariant fails at
`TakeSegment`. The filter and the algorithm read one stream in turns, so the invariant
says where it stands: one character ahead of the scan while every segment has fitted, with
the candidate still in the ring; and from the first segment that did not fit, at the
position the algorithm has reached once it has used up the ring. The segment that waits
to be taken carries the fact from one to the other. That a position is where it should be in the ring
rests on a few lemmas about remainders, which the provers need in the form
`p = n * q + c`. The same invariant gives `GroupsAreKeptOrRefused`: `substr` returns the text of the
document for every span shorter than the buffer, wrapped round or not, or throws.

`GroupsAreOfTheDocument` (`GroupsAreText`) is that fact for the spans of matches, so it remains that these
are spans of the document. The annotations of an output lie within the document and fall from its last one on,
whatever the automaton: an induction over the layers of runs (`OutputsFall`). Read from the end on, they are
spans that do not overlap and that start and end in order, whether a variable has one
(`MappingGivesSpans`) or several (`ExtendedMappingGivesSpans`), even if a marker that closes a variable
comes without the one that opens it. A match of a query that is not a multi query
has one span for each variable, the last that has been read, and it must have been read: a
query whose matches may do without a variable is refused, by `merge_disjoint` and the checks of alternatives
and quantifiers (`variable_catalog_visitor.hpp:49`, `:73`, `:86`). This is assumed of the queries
(`CapturesAssumption`), TLC evaluates it on the run, and `EveryVariableHasOneSpan` of `QueryConstruction` says
more of what is built from an expression. `AutomataAssumption`, that transitions are between
states of the automaton, is the only other thing assumed of them. The recursive functions are those of layers and
mappings, and their equations are proved from `LeastNumber` again.

**EvaluationProofs** proves of `DocumentMediators!Spec`, for all four mediators, every set
of queries, every document and every limit, that `HeldNodesAreCounted` holds until the first
segment has been evaluated, which is all of the evaluation for findone and for queries with
useful anchors: a node has as many references as states, the enumeration and other
nodes hold on it, and is free exactly when it has none. It stops there because over
later segments the exact count is false (above), and with an unmarked match a
lower bound is too (`unmarked_matches`). Without such a match the lower bound over later
segments (`NodesInUseArePinned`) is left to TLC.

The heap's part of the invariant is that of `ECSProofs`, with `Held` in place of
the client's pins: what the three lists of states and the root refer to (and the initial state
before it is in a list). Each call of the ECS is shown to keep a heap sound with one
reference more or less (`PinSound`, ...), and each action to change the lists by as much. That
a list counts a node once for each state needs more than its type. A state must be in at
most one list, and once; and `HandOn` decides whether a state waits already by
comparing the position it was last reached at (its phase) with the current one. So the
invariant says that the phase tells exactly this (`Phases`), and it can only because the
states being visited and the states reached from them are different ones: the automaton
is two copies of itself, every transition leads from one to the other (`Duplicate`), so that
`current` lies in one half and `next` in the other (`Apart`), and those that accept
are in a list of their own. The invariant was first checked by TLC on the instance of `documents`.
Two facts are assumed of the queries: the initial state of an automaton is not its
accepting state, as in the code each automaton is made with two states (`QueriesAssumption`);
and a marker with a position is a label (`LabelsAssumption`), which only says that `Labels` is
large enough. TLC evaluates both on each run.

**CharacterClassesProofs** proves all four properties of `CharacterClasses!Spec` that the run
`character_classes` checks, for every base, all lengths of encodings up to four, every
limit, shorthand and range: those of UTF-8 (base 64, U+10FFFF) are one instance. What is
assumed of the constants is what they mean: the lengths begin at rising code points, and
a shorthand names ranges.

- `RangesCoverTheClass` and `RangesAreApart` are inductive together. The first alone is
  not: `add_range` looks for a single range that touches on each side, which is enough only
  if there is a code point between any two; and what negation leaves between two ranges is not
  empty for the same reason.
- `EveryCodePointIsMatched` and `NothingElseIsMatchedWithoutCarry`. The invariant keeps that
  the automaton is the one of ranges that cover the class and are apart (or a literal, or the dot).
  What a range's automaton reads is then shown one length at a time: a code point is its number in
  a base, so the order of code points of one length is that of their digits from the first on, and
  a code point lies in a range if its prefix is that of an end and its last digit on the right side,
  or if its prefix is strictly between. The prefix after the lower one and the one before the upper
  one are numbers again, one more and one less, and the shorter function is asked for the
  numbers between those. Without a carry the comparison with eight bits a byte agrees with
  the comparison of the numbers; with one it errs on the side of reading more, which is why
  the first of the two properties needs no such condition. The attempt to prove the second showed
  that it was false as first stated, without the carry of the middle part, and that the bounds of the run
  had been too small to show it: both have been corrected.

**ClientProofs** proves all three properties of `Client!Spec`, for every size of text and buffer,
set of variables, set of results and limit. Three facts about the constants are assumed: the sizes and the limits are
numbers, and no buffer is empty; variables are numbers; and what a mediator answers
(`Results`) are spans of the text of which those of one variable are not empty and do not overlap.
The code refuses the captures that would break the last one: those of an empty word
(`logical_va.cpp:386`), and of a variable inside of itself
(`variable_catalog_visitor.hpp:120`).

- `EveryMatchIsCollected`. A collection in progress holds the first matches of what has been
  found, all but the last of those asked for since it began; that one is where the iterator is, and as
  long as it is there and the limit is not reached one more may be asked for, with an
  exception instead (`CollectInv`). Nothing else is left of the calls before: over a document each
  begins from the first match.
- `SpansAreThoseInside`. A match object is invariant in what it stands for (`IsObject`):
  its annotations are the piece of those of its match that lies in its window, its cache
  gives, for a variable it has an entry for, all the spans inside, and a variable of a simple match has
  one. That a list of annotations, read one by one, gives back the spans it was made from is the main lemma.
  It follows the annotations from the end on: each close begins a span and the next open
  of the same variable ends it, since the spans do not overlap; `get_submapping` cuts the list at two
  positions, and it is shown which spans survive whole.
- `GroupsAreOfTheText`. The ring keeps the last characters read, at the remainder of their position
  (`KeepsTheLast`), reading goes on only forwards, and a match has been read up to its end when it is
  returned. So `substr` of a span shorter than the buffer is its text, and throws
  exactly when its start has been overwritten. The reply is judged in the state in which it is given,
  since only a call changes the buffer and each call replaces the reply.

Both modules show that a recursive function exists by `LeastNumber`, as above.

Only model-checked, and why:

- liveness (`QueryIsAnswered`, and that the enumeration ends), which the prover cannot express;
- what relates an algorithm to the plain definition of a match, over whole evaluations
  (`NothingElseIsListed`, `EveryMatchIsListed`, `FirstMatchIsFound`, over documents and streams) or over
  expressions (`QueryConstruction`): they compare what a long evaluation, or folds over an
  automaton, build with recursive functions over the document, which asks for an invariant of all the
  structures at once and for induction over data; the argument has not been carried through;
- the lower bound over later segments (`NodesInUseArePinned` without unmarked matches);
- the properties of `LineMediators`, which compare what is answered with the plain matches of a line.

## 5. What is modelled, in order, and what is not

The order followed: `NodeManager`, `ECS`, `OutputSets`, `Enumerator`, `SearchDFA`,
`SegmentIdentificator`, `ExtendedVA`, `FinditerAlgorithm`, `LogicalVA`,
`QueryConstruction`, `CharacterClasses`, `FindoneAlgorithm`; then
`Mappings`, `DocumentMediators` with the multi queries and every limit at once,
`CircularBuffer`, `SegmentIdentificatorStream`, `StreamMediator`, `Lines`,
`LineMediators`, `MediatorConstructor` and `Client`.

Not modelled:

- the parser and its grammar, generated by ANTLR; which ranges of code points each
  shorthand class names; the names of variables and their order;
- printing, statistics, the command line and the bindings;
- `FstreamReader`, which is a source of characters here: a read that fails half-way
  is to the code the end of the stream;
- going on after an exception: no part of the library does, and the models stop there;
- `CircularBuffer::increase_size` and `SegmentIdentificator::set_document_indexes`, which
  nothing calls;
- undefined behaviour, beyond the fact that it is reached: the negation of a class of
  everything, a submatch past all annotations, a match made of a null pointer. Cells of
  the buffer that were never written are read as any character.
