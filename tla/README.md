# A verification project for clp-ffi-java

`clp-ffi-java` is the Java face of CLP: it compresses log messages and writes CLP
IR streams by calling a C++ library through JNI. These TLA+ modules model the
repository's own code, that is, the Java classes and the JNI layer; the CLP core
is a submodule whose code the repository does not hold, and is modelled, as an
external, by how it is used. TLC checks small instances; TLAPS proves the
theorems for every value of the constants.

## 1. Inventory

Paths are relative to `src/src/main/java/com/yscope/clp/` and
`src/src/main/cpp/libclp_ffi_java/`.

| Component | State it keeps | Operations | What makes it hard |
|---|---|---|---|
| IR output streams: `irstream/*.java`, `Java_*ClpIrOutputStream.cpp`, `ir_stream/common.inc` | pattern (non-null until the preamble is written), `nativeStateAddress`, `previousMessageTimestamp`; the sink; states on the C++ heap | constructor, `writeLogEvent`, `close`, `flush` | a sink that fails at any write; `close()` that fails half-way and is retried; addresses that are reused; a `long` difference that overflows |
| Native call layer: `common.inc`, `common.cpp`, `GeneralException.hpp`, `JavaException.cpp`, `JavaPrimitiveArrayElementsDeleter.*` and the entry points | pending exception, pinned arrays, local references | the native methods | a failure of any JNI call at any point; what may be called with an exception pending |
| `EncodedMessage`, `MessageEncoder`, `Java_MessageEncoder.cpp` | message, logtype, bounds, encoded variables, a cached flattened form | `encodeMessage` into a reused object, accessors | the encoder sets fields one by one and may fail between them; the cache; two charsets |
| `FlattenedByteArray`, `FlattenedByteArrayFactory`, `EmptyArrayUtils` | one `ByteArrayOutputStream` per thread | `fromByteArrays`, `fromStrings`, iteration | `int` overflow; a stream left half-written by a call that threw; threads |
| `MessageDecoder`, `Java_MessageDecoder.cpp` | none | decode, match one, match a batch | what the Java side validates is all that C++ relies on; loops over rows |
| Query encoder and subqueries: `EightByteClpWildcardQueryEncoder`, `AbstractClpEncodedSubquery`, `ByteSegments`, `Java_EightByteClpWildcardQueryEncoder.cpp` | four vectors shared by a query's subqueries; iterators with two cursors | `encode`, iterables | vectors to be emptied; cursors to be kept in step; `next()` without `hasNext()` |
| Version validation: `common.cpp` | none | called by the encoder's and decoder's constructors | arrays released when it throws `UnsupportedOperationException` |
| `static_init.cpp` | global references to two Java classes, method and field ids; one set per loaded copy of the library | `JNI_OnLoad`, `JNI_OnUnload` | a load that fails half-way; what is pending meanwhile; `FindClass` waits for class initialisers |
| `NativeLibraryLoader`, and the static blocks that call it | a temporary file per call | `load` | several classes load at once, each with its own copy; two ways to load, each of which may fail or throw; the JVM's locks |
| CLP core | - | encoding, decoding, matching, subquery generation | external |

How they interact. A stream, an encoder or a decoder calls one native method, which
runs in the native call layer: it pins the Java arrays it is given, calls the core,
creates the arrays it returns, and turns any failure into a pending Java exception.
Streams share only the native heap. `MessageEncoder` writes into an
`EncodedMessage`, whose accessors feed `FlattenedByteArray` and `MessageDecoder`.
The query encoder's native method builds the subquery objects that Java iterates
over; a caller serialises their variables for the decoder's batch method. All of it
needs the native library, which the static blocks of the encoders, the decoder and the
streams load. There are no locks, queues or timers in the code, but loading runs under
two kinds of lock of the JVM's: a class is initialised by one thread, and one library
is loaded at a time. What is concurrent otherwise is Java threads with objects of their
own, over the native heap and the factory's `ThreadLocal`. Nothing is persisted but what
reaches a sink.

What makes each part correct: a sink reads back as the accepted events (streams);
native states are neither leaked, nor freed twice, nor used after (streams); Java
sees every failure exactly once and nothing stays pinned (native layer); an object
that is reused never passes for another message's encoding (`EncodedMessage`);
what is flattened reads back (factory); a query's variables reach Java, and the native
matcher again, once each, in order, with their type (subqueries and batches), and no
result is an earlier batch's (decoder); plain text of a message finds it (query encoder);
and no class is left quietly without the library (loader).

`PROJECT.json` lists the hazards line by line, with the properties that cover them.

## 2. Modules

### `ClpIrOutputStream`

One `pc` per stream, and one action per step between which another thread can use
the heap or the sink can fail: `CallWriteLogEvent` (checks for a closed stream),
`EncodePreamble` or `PreambleEncodingFails`, `WritePreamble`, `EncodeLogEvent` or
`EventEncodingFails`, `WriteLogEvent`; `CallClose`, `WriteEof`, `CloseSink`,
`DestroyNativeState`. The fields keep their names; `timestampPattern[s]` says
whether the pattern is still set, which is how the code remembers that the preamble is
unwritten. The sink is a sequence of records (preamble, event, EOF, torn), since
nothing depends on how the core encodes them; a record's value is the timestamp or
the difference, which wraps around as Java's `long` does. `Half` is 2^63 in Java and
any positive number here. A write may be *refused* (nothing written) or *torn*
(something written, then an exception); `WriteFaults` says which of them may happen
to which kind of record. Most sinks refuse writes once closed; `LenientStreams`
are those with a sink, such as a `ByteArrayOutputStream`, that does not.

`accepted` (events whose call returned normally) and `faults` are history variables.

### `IrLog`, `StreamImplementsIrLog`

`IrLog` is what a stream promises: events are submitted one at a time and committed
or rejected, in order, into a log which ends at some point. The refinement mapping
reads the sink as a decoder does: past the preamble, adding up differences, to the
first EOF or damaged record. The commit is the write into the sink.

### `JniNativeCall`

A native method is a *program*: the sequence of its JNI and core calls, transcribed
from its body, with loops for the batch's rows and a query's subqueries. Any step may
fail in the ways its JNI function or helper can. Failure unwinds the frame, releasing
each pinned array, runs the matching catch clause, throws in Java what is not yet
pending (`FindClass`, `ThrowNew`, `DeleteLocalRef`, of which the first two may fail)
and returns the error value. `held`, `refs`, `pending` are what the JVM knows of the
call: `refs` counts each C++ variable's local references, and deleting one takes one off,
whether there is one or not, so that a second deletion shows as -1. Only the null
reference is deleted for nothing: `nulls` are the variables that hold it, as a
row's array may (`GetElement`). What the code does with such a row (its length is taken
as 0, or the batch fails) is in the row's program.

### `EncodedMessage`

One object, encoded into repeatedly. A message is a sequence of tokens (text,
dictionary variable, encoded variable) over characters of which one stands for each of
the placeholders, one is special in queries, one is non-ASCII (two bytes in UTF-8) and the
rest are ordinary ASCII.
`EncodeMessage`, `SetLogtype`, `SetDictVarBounds`, `SetEncodedVars` and `EncodeFails`
interleave the native encoder's field assignments with failures; decoding and
the accessors are functions of the fields, with the charset conversions modelled by
what they do to bytes. Which tokens are variables of a kind is `TokensOf`, by `Indices`
of `SequenceIndices`, which `EncodedSubqueries` takes too.

### `FlattenedByteArray`, `FlattenedByteArrayFactory`

`Elements` is the iteration. The factory has one `pc` per thread, one action per
iteration of each loop, ints of width `2 * Half` and the exceptions Java throws (null
elements, negative array size, `arraycopy` out of bounds).

### `ExactQuery`

The query encoder beside one `EncodedMessage`: any message that has been encoded may
then be encoded as a query (`EncodeQuery`), whose bytes are made of the same characters
in `encode()`'s way. Plain text, without wildcards and backslashes (one character,
`Special`, stands for these), is what `clean_up_wildcard_search_string` leaves as it is,
and has one subquery, which the core builds as it builds the message's encoding. Of
other text the core makes any of a few subqueries, of the messages in `Interpreted`. `encode()` may
throw (`EncodeQueryThrows`) and does on empty text, for which there is no subquery
(`Java_EightByteClpWildcardQueryEncoder.cpp:86-90`).

### `EncodedSubqueries`

`encode_native`'s loops over subqueries and variables, one action per variable, then
the three kinds of iterator with `hasNext()` and `next()` called in any order
(`ForEachOnly` restricts `next()` to after a true `hasNext()`). Which array the bounds
refer to, the query as given or as cleaned up, is `Parent`.

### `BatchMatching`

`batchEncodedVarsWildcardMatch`: one action per check of the arrays, per end index
checked, per query the native method cuts out and per row; `BatchFails` stops it at any
point of the native part. An array is a sequence or null, of any bytes and ints
(`TypeBytes` are what the array of types may hold). Whether a row with variables
matches is the core's choice; one without does not.

### `WildcardSearch`

Composes the two: the query is encoded and iterated over, and a caller (as in
`EncodingTests`) serialises what `getEncodedVarWildcardQueries()` returned into the
arguments of a batch, whose arrays have the length `getNumEncodedVarWildcardQueries()`
counts in an iteration of its own. Between queries, another caller passes any of `Batches`, most of
which are invalid. A byte is its array and its position, so it shows when a wrong one
arrives.

### `LibraryLoading`

Threads use classes for the first time (`Initialise`); those in `LoadingClasses` run
`load()`: `LoadLibrary`, `FindInJar`, `ExtractLibrary` (create, write, close, each of
which may throw an `IOException`) and `Load`. A library that is found runs `JNI_OnLoad`
under `loadLock`: `GetEnv`, `CacheClass` twice (`FindClass`, `NewGlobalRef`),
`ThrowNotFound`, `CacheIds`, `LoadFails`. Each copy that is loaded has its own references. `Unload`
is the collection of the class loader, with `JNI_OnUnload`. Of the JVM, the
module has what JDK 8 does: initialisation locks, the load lock, and that a loaded
library is not loaded again.

Operators under a comment "Fault injection" are plausible bugs, used only to show that
each property can fail.

## 3. Runs

| Run | Instance | Shows |
|---|---|---|
| `stream_log` | one stream of either kind, timestamps of 2 bits, up to 6 records, every fault but a refused event of a four-byte stream; the eight-byte one's sink is lenient | the abstract log is implemented; an undamaged sink decodes to exactly the accepted events; a closed stream writes EOFs at most |
| `stream_heap` | one stream of each kind, two addresses, every fault | no leak, double free or use after free |
| `stream_close` | the same two, refused writes, fair | retried `close()` releases the native state |
| `stream_delta` | one stream of either kind, refused writes | **violated**: finding 1 |
| `jni_call` | every program, up to 3 rows (null ones too) or subqueries, every failure | exceptions reach Java once, nothing is held or leaked, nothing is deleted twice or used after |
| `encoded_message` | all messages of up to 4 tokens, reusing one object, each also a query | accessors agree; decoding gives the message or nothing; plain ASCII text finds its message |
| `query_charset` | the same | **violated**: finding 4 |
| `factory` | 2 threads, 7 inputs with null, empty, fitting and overflowing elements; ints of 3 bits | results read back under all interleavings, through overflow to negative and to small lengths |
| `search` | one subquery of up to 4 variables of 5 kinds or two of up to 2, all iterators, then a batch of a row with variables and one without; and batches with any other arguments | the matcher gets exactly the subquery's variables; bad arguments are rejected or harmless; results are fresh |
| `subqueries_next` | one subquery of up to 3 wildcard variables, `next()` at any time | **violated**: finding 2 |
| `library` | 2 threads, 2 classes that load the library and the 2 it looks for, every failure, class loaders that go | only complete files are loaded, each copy holds the global references it should (a load that fails half-way keeps one, `static_init.cpp:79-81`), failures are not silent, initialisers end |
| `library_pending` | 1 thread, the same classes | **violated**: finding 3 |

Why the bounds are enough. *Streams*: differences wrap around with 2-bit timestamps
as with 64-bit ones, and the proofs hold for any width; four records are a preamble, an event,
one whose difference depends on the event and one more, or EOFs, and a call that
has begun may add two; a closed stream has nothing to do with others but for the heap, so
one stream is enough for its log. With two streams, two records each (a preamble and an
event, then EOFs) and two addresses allow reuse of an address by the other stream; calls on
a closed stream are not bounded. *Native calls*: what happens in a row depends on
the rows before only through what they leave, so the second row shows a leak of
the first. *Messages*: two variables with text on both sides and between take up to four
or five tokens, and an encoding only meets what the one before it left; two
subqueries stand for what text with wildcards may give, since nothing is claimed of it.
The proofs hold for any messages and characters. *Factory*: a sum
of 6 overflows an int of 3 bits to a negative length and a sum of 9 to a small
positive one; the proofs hold for any width and number of threads. *Search*: four
variables give every pattern of two types to skip and return, twice, and two subqueries
show what the vectors keep. The other batches have up to three end indexes from -1 to one
past two bytes: equal, decreasing, negative and too large ones in each position, over
results that hold a 7. The proofs hold for any queries and arrays of any length. *Library*: two threads
are enough for each wait (for the load lock, for an initialiser), and two loading classes
for a second copy while the first is being loaded; the proofs hold for any number.

Fairness. `stream_close`: `WF(Continue)`: a call that has begun goes on
until it returns, as code without locks does. `SF(CallClose)`: a caller retries
`close()`; this is a caller's choice, which the property is about. `SF(WritePreamble
/\ Written)` and the same of the EOF: a sink that is asked over and over accepts in the
end. No fairness is assumed of events, which may come between. The run assumes that the
sink's own `close()` does not throw: a sink that throws although it has closed itself
would refuse every later EOF, and the native state would never be released, since no
finalizer releases it. The documentation promises nothing else, so that is
listed as a hazard and not as a finding. `library`: `WF(Step(t))` for each thread: a
thread that is not waiting for a lock goes on. Which outcome a step has, and whether
a class is ever used, is not fair.

Deadlock is checked in every run.

### Findings

1. `FourByteClpIrOutputStream.java:51` advances `previousMessageTimestamp` before the
   event is written. If the sink refuses that write and the caller goes on, the next
   difference is not "since the previous message's timestamp" (line 84), and every
   later timestamp a reader computes is shifted. `stream_log` shows that nothing else
   goes wrong.
2. `AbstractClpEncodedSubquery.java:157`: `next()` without `hasNext()` returns variables
   of the other type, where lines 75-76 and 91-92 promise an iterable of one type.
   `search` shows that for-each loops are right.
3. `common.cpp:19`: when `FindClass` fails in `JNI_OnLoad`, it leaves its exception
   pending, and the code throws another, through `FindClass` and `ThrowNew`, which must
   not be called then. `GeneralException.hpp:35-39` has a class of exceptions for just
   that case, and `static_init.cpp:39` leaves out a throw for the same reason.
4. `EightByteClpWildcardQueryEncoder.java:38` makes bytes of the query as ISO-8859-1,
   `MessageEncoder.java:55` of the message as UTF-8. A message with text that is not
   ASCII is not found by its own text, which `encode()`'s comment (lines 24-31) has
   no exception for. (The text in the run's trace has no wildcards and is not empty.)
   `encoded_message` shows that plain ASCII text is found.

## 4. Proofs

There is a module of theorems for each component, and `SequenceLemmas` for what several
of them need of sequences. A theorem's only hypotheses are the specification and the
named assumptions about the constants (which every run that uses the constants
evaluates), and `EncodedEventsAccepted` or `ForEachOnly` where a theorem says so.

`ClpIrOutputStream_proofs`, from `ConstantsAssumption` (addresses are not 0, `Half` is
positive, and the like):

* `IInv == TypeOK /\ HeapInv /\ LifecycleInv /\ SinkInv for undamaged streams`.
  `HeapInv` is `HeapExact` element by element. `HeapExact` is not inductive alone: that
  `DestroyNativeState` frees a live address follows from it, but that a closed stream never
  gets to an encoding step needs `LifecycleInv`, which ties `pc`, the address and the
  pattern. `SinkInv` strengthens `AcceptedDecodable` by what the next record depends on: the
  sink is empty exactly while the pattern is set, EOFs are in it only after `close()`
  wrote one, and `previousMessageTimestamp` is where the reader has arrived.
* Theorems: `TypeCorrect`, `NoLeakNoDoubleFree`, `NativeStateIsLive`,
  `UndamagedSinkDecodes`, and the action property `ClosedStaysInert`, for any number of
  streams and any width. `WrapDifference` is the lemma that undoes the overflow.

The same module proves the refinement, `StreamsAreLogs`, under one assumption: `EncodedEventsAccepted`, that no sink refuses an event a four-byte stream
has encoded (`stream_delta` shows what happens when one does; torn writes, refused
preambles and EOFs, full and closed sinks are all in).

* The reader's clock is a recursive function of the sink. `ClockExists`,
  `ClockPrefix` and `ClockAppend` say that its recursion defines it and that a record
  more moves it once; they are inductions, each by a least counterexample (`Least`, from
  the well-foundedness of `<`). `ReadableAppend` and `LogAppend` carry this to what a
  record more does to the log.
* `LogInv` is the invariant. While the reader can get further, `OpenLog` holds: the
  pattern is set exactly while the sink is empty, the clock stands at
  `previousMessageTimestamp`, and the sink is open and has room, so that only
  `WriteFaults` could refuse an event. Once the log has ended it says nothing of these,
  as the code guarantees nothing: a preamble may then be written after a torn one, and
  events after an EOF.
* Each action of a stream is its part of a `Submit`, `Commit`, `Reject` or `End`, or
  changes nothing a reader or caller sees (`LogStep`, one lemma per action), and these
  parts make a step of `IrLog` (`LogStepSimulates`).

`JniNativeCall_proofs`: `Discipline` says which combinations of phase, C++ exception
and pending Java exception occur. It proves `ErrorsReachJava` and
`JvmCalledOnlyWithoutException` for batches and queries of any length, and for any
programs whatever: neither depends on what the native methods do, only on the
catch-all.

`FlattenedByteArrayFactory_proofs`, from `FactoryAssumption` (inputs are sequences of
byte arrays that an int can count, or null): `IInv` says of each loop that what it has
copied so far reads back (`Holds`), and of the offsets that they are the wrapped sums
(`Sums`). Overflow is settled in `CopyStep`: `arraycopy` succeeds only up to
`flattenedElemsLength`, so the bytes copied are fewer than `Half`, the wrapped sum is
the sum and the offset the real end. `TypeCorrect` and `FlattenedReadsBack` follow, for
any threads, inputs and width.

`JniNativeCall_proofs` has two more theorems, which do depend on the programs:
`EverythingReleased` and `ReleasedBeforeDeleted`. Their invariant, `ProgramInv`, is about
the steps that are *left*: only a row's arrays are ever reset before the end, and a
row's local reference is deleted right after a reset of the same array (`TodoInv`); and
a step that stores a result is left only if `matchResults` is held or about to be got
(`StoreInv`). Every program and every loop body has these properties, and tails and
concatenations keep them, so that batches may have any length.

Its last part is about the steps left and the references made together. `RefTodo` says that a step which makes a reference comes after a delete of the one made before
it, if there is one; `BodyInv`, that a loop's body deletes all it makes.
`LoopRefsKept` is the induction's heart: a body put before what is left of its loop
keeps `RefTodo`. `OneReferenceEach` follows for batches and queries of any length: it is the
argument that `encode_native` needs no larger local reference table for more subqueries.

That no more is deleted than was made is the other direction, and needs another invariant,
`UseInv`: each step left that passes or deletes a variable's reference finds one, made
before it among the steps left or there already and not deleted in between, or the null reference
where that is allowed. `ReferencesLive` follows, for batches and queries of any length
and wherever they fail; and so does `TypeCorrect`, whose `refs[r] \in Nat` says that no
reference is deleted twice.

`LibraryLoading_proofs`, from `LoadingAssumption`: `IInv` says who may touch what. Each
class that is being initialised belongs to one thread (`Owners`), which alone writes its
file (`FileInv`); the load lock is held exactly inside `JNI_OnLoad` (`LockInv`); a class's
copy is loaded last and once (`CopyInv`); and the references a copy holds follow from
where its loader is (`RefsInv`). `TypeCorrect`, `NoPartialLibrary`,
`ReferencesBalanced` and `NoSilentFailure` follow for any threads and classes.

`BatchMatching_proofs`, from `BatchAssumption`: `IInv` carries what each loop has
checked (`ValidTo`) to where the native method relies on it. `ViewsWithinArray` and
`ResultsAreFresh` hold for arrays of any length.

`SequenceLemmas` has what the next two modules rest on. `Flatten...` are about the
concatenation of a sequence of arrays: each array is found between the ends of the ones
before it and its own (`FlattenPiece`), and can be cut out again. `Found(s, S, n)` are
the elements of kind S among the first n: one element more adds one or none
(`FoundNext`), which is how loops over variables go on; they are in order
(`FoundInOrder`), those of a part of a kind are found among those of the kind
(`FoundThrough`), and as many as there are (`FoundCounts`). These are inductions, each
by a least counterexample (`Least`), since an induction theorem that takes a predicate
is out of the provers' reach.

`WildcardSearch_proofs`, about `EncodedSubqueries` and, with `BatchMatching`, the whole
search:

* `EncodingInv` says what the four vectors hold after j variables (`VectorsAre`: what
  `Found` finds in the first j), and that each subquery made so far is what its variables
  make (`SubqueryOf`). `EachVariableOnce` alone says nothing of the vectors, so it does
  not survive `MakeSubquery`. `VectorsPaired` and `SubqueriesAreTheirs` follow.
* `IteratorInv` keeps the two cursors in step; `ReturnedInv` ties what was returned to
  `varIdx`: for wildcards, `returned` is what is found before `varIdx`, which skipping
  leaves as it is and a `next()` on a relevant variable extends by one.
  `IterationsAreComplete` follows for callers that call `next()` only after a
  `hasNext()` that was true (`ForEachOnly`). Without that it is false, which
  is finding 2; for-each loops and the callers in the repository are such callers.
* `Counted`: the loop of `getNumEncodedVarWildcardQueries()`, a recursive function in the model,
  comes to as many as `Found` finds, by a least counterexample from the end.
* `SearchedInv` says what the arguments of the batch are: those made from a complete
  iteration of the subquery that `searched` names. `BatchMatching`'s `IInv` says that
  the native method's cuts are where the end indexes say; `FlattenPiece` makes of both
  that a cut is the text of its variable: `SubqueriesAreMatched`.
  `SearchKeepsPromises` states the invariants of the parts for the composition, where
  other callers' batches, valid or not, come between.
* `SearchAssumption`: the arrays' element types include what a subquery can fill them
  with.

`EncodedMessage_proofs`, from `EncodedMessageAssumption` (characters include ASCII's, and
a message's variables are ASCII without placeholders, as the core makes them):

* `IInv`: before the first message the object is `Blank`; afterwards it is `Holding` the
  last one it was given: each field is unset or what it would be of that message, the
  cached flattened form included, and once `encodeMessage` has returned, or the step that
  sets the field is past, the field is unset only if it would be empty
  (`Complete`). `DecodesToMessage` is not inductive: it says nothing of a cache that no
  decoding has read, or of bounds left from another message before a logtype is set.
* `DecodesRight` is what decoding rests on: with all of a message's variables,
  `decode_message` gives the message's bytes, and with the dictionary or the encoded ones
  missing it throws. Its proof counts placeholders token by token: text
  without placeholders has none of their bytes, UTF-8's continuations included, and so
  the placeholder of the n-th variable takes the n-th variable (`DecodedSoFar`). A
  message that was encoded half-way has some of its variables missing, or
  had none, so that decoding gives nothing or the message.
* `FieldsInBounds`, `DictionaryVarsAgree`, `MessagesDecode` and `StringsDecode` follow; the
  last because a dictionary variable is ASCII, on which the two charsets agree.
* `AsciiQueriesMatch`, about `ExactQuery`: ASCII text has the same bytes in both charsets,
  so the one subquery of plain text is made of the message's own logtype and variables.
  Nothing is claimed of text with wildcards or backslashes, nor of text that
  `encode()` refuses, as it does empty text.
  `QueriesKeepMessages` is a small refinement, by which `QueriedMessagesDecode` states
  the theorems above for the system with queries, the one the run checks.

Only model-checked: liveness (`RetriedCloseReleases`, `InitialisersEnd`), since the
proof system has no rules here for fairness and ENABLED. Every other property of a
passing run is stated by a theorem. The four properties that are violated are not
theorems, of course; their runs are counterexamples.

## 5. Not modelled

* The CLP core: its encoding, matching and subquery generation. Where a choice of its
  matters, it is nondeterministic. That includes what `clean_up_wildcard_search_string`
  makes of text with wildcards and backslashes.
* `flush()`, getters, `containsWildcards`, formatting of error messages: no state.
* The comparison of the version strings: `JniNativeCall` has both outcomes.
* Characters outside ISO-8859-1, which a query's conversion turns into `?`: they
  would be matched as a wildcard, which finding 4's characters are not.
* The caller's reaction to `UnsatisfiedLinkError`: that `load()` lets it through, and
  `load()`'s own comment does not say whether it should, is in `LibraryLoading` as an
  initialiser that throws.
* Several threads that use one stream at once: the class does not say it is
  thread-safe and nothing in the repository does so.
* Buffers with a position or an offset: payloads are not told apart.
* Tests, build and CI keep no state of the running program.

## 6. What could follow

The theorems leave the CLP core as an external that does what its callers rely on. The
code here has no other state to model; the core's own repository would be next, with a
proof that its encoder delimits variables as `EncodedMessageAssumption` says. Streams
shared by threads, should they ever be, would need the calls of one stream split at each
read of a field.
