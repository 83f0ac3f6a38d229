# A TLA+ model of my-http-utils

`my-http-utils` (Rust) is the HTTP layer two sides share: a server that parses requests into
models and a client that writes models into requests. Most of it is sequential code called on
one request; the exception, and the part where concurrency, cancellation and truncation decide
whether a body arrives whole, is the streamed body. This directory holds the TLA+ modules that
model the crate, the TLC configurations that check them, and TLAPS proofs about the core.

## 1. Inventory

Paths are relative to `src/`, the root of the repository. "State" is what a value keeps between
two calls.

| component | source | state | operations | interacts with |
|---|---|---|---|---|
| Body stream channel | `src/http_input/body_as_stream.rs` | `BodyStreamState` (ready, taken, not available), a bounded tokio channel, the `completed` flag, the reader's tokio `Mutex` | `create`, `empty`, `get_body_reader`; `send_chunk`, `send_error`, `closed`, `finish`; `get_next_chunk`, `poll_next_chunk`, `read_to_end`; dropping any handle | the pump and the handler (two tasks, or more through an `Arc`) |
| Direct byte stream | same file, `BytesStreamSource` | the read in progress, the `ended` flag | `from_bytes_stream`, `poll_next` | any `AsyncBytesStream`, also another reader (a proxy chain) |
| Body parsing from a stream | `src/http_input/core/body_from_stream.rs`, `body_reader.rs`, `content_type.rs` | the body read so far | `read`, `read_raw`, `read_json_members`, `get_optional`, `get_required` | a stream of the transport; the generated `parse_with_body_stream` |
| Request and values | `src/http_input/core/{request,value,convert_from_str,...}.rs` | none | path, query, header lookups and conversions | the URL decoder |
| URL builder | `src/url_builder/` | one string and the indices of host, port, path and query in it; the unix-socket variant keeps them apart | `new`, `append_path_segment`, `append_query_param`, `append_raw_ending`, getters | the URL encoder |
| URL encoder and decoder | `src/url_encoder/`, `src/url_decoder/` | the escape being decoded | encode, decode of a path and of a query string | query reader, builder, request |
| Query string reader | `src/query_string/`, `src/url_encoded_data_reader/` | parsed pairs | lookups | URL decoder |
| Path and query key | `src/path_and_query_key.rs`, `src/path_and_query_parser.rs` | none | parse, compare | builder |
| Multipart reader and bodies | `src/form_data_reader/`, `src/body/` | position in the content | iterate, parse an item; build a body | request, client writer |
| Schema, enum documents | `src/schema/`, `http-request-schema-macros/src/enum_doc/`, `types.rs`, `docs.rs` | none | describe a type, a structure, an enum and the parameters of a request; refuse an undescribable controller when the server starts | the macros, the client writer and reader it has to agree with |
| Client writer | `http-request-schema-macros/src/input_models/client_writer.rs`, the derived `JsonValueWriter` | none | `fill_url`, `fill_headers`, `get_body`, members of nested objects | URL builder, encoder, bodies |
| Derive macros | `http-request-schema-macros/src/` | none (compile time) | choose the key of each field (`field_key.rs`), generate parse, client writer, schema and self-checks, refuse what the three could not agree on | everything above |

### What is hard

* **Two ends, many tasks.** The sender's calls are `&self` and the reader sits behind an async
  mutex, so either end may be shared. Every call suspends somewhere and may be given up there.
* **Two endings that look alike.** The channel closes when the body is done and when the pump
  dies. One flag, set at another time than the closing, tells them apart.
* **Back pressure.** Bounded channel, a queue of waiting senders, permits that were given but not
  used: a permit lost is a sender that never wakes, a permit too many is memory.
* **Gone readers.** A pump asleep on a silent source or parked in a full channel has to learn that
  nobody reads any more.
* **Two paths to one answer.** A body read as a stream is parsed member by member up to the field
  that is needed, a body in memory as a whole; the answers are supposed to be the same.
* **Indices into a growing string.** The URL builder's getters cut one string at indices kept from
  earlier calls, in whatever order the calls were made.
* **Three generators of one structure.** Writer, reader and schema of an object are generated apart
  from each other, and what stands in a `Vec` or a `HashMap` is read by serde: they have to use one
  key for a field, agree on which may be missing and spell an enum in one way.

### What makes each component correct

* Channel: items come out once, in order, none missing while there is a reader; a clean end only
  for a whole body; bounded by the buffer; no sender or reader waits for ever for something that
  has happened already; "the reader is gone" is only said when it is.
* Direct stream: a read given up is picked up by the next one; the end is told once and stays.
* Body parsing: streamed and whole parsing give the same field values.
* URL builder: at any time the getters describe the string `to_string` gives, whatever the order
  of the appends.
* Requests: what a client writes from a model, the server reads back as the same model, whatever is
  in the values; what is broken is told and never read as a value; the two sides' directives agree.
* Objects: what compiles and is registered is read as it was written, by the generated client and by
  a client that knows the schema only; and the schema is true of what is written.
* Key and reader of a target: the key is the same for every order of a query and loses nothing
  else.

## 2. Plan

In the order of importance; each item is a module or a group of them with its runs.

1. `BodyStream` (the channel), `BodyDelivery` (its abstract promise), proofs of its safety
   invariants; `BodyPump` (channel composed with the documented programs), liveness. **Done.**
2. `BytesStream` (the stream that is read directly). **Checked; safety proved.**
3. `UrlParts` (abstract), `UrlBuilderInner` and `UrlTarget`, `UrlBuilderUnixSocket`, `UrlBuilder`
   (both builders side by side). **Checked; all but the key proved.**
4. `BodyReading` and `BodyFromStream`: the parse of a streamed body against the parse of the whole.
   **Checked; proved.**
5. `UrlCodec`, `Multipart`, `InputValue`, `RequestRoundTrip`: a model from the client to the
   server, the Vecs of headers and forms included. **Checked; paths, queries and the codec proved.**
6. `FieldKey`, `Schema`, `JsonObjects`, `BodyRoundTrip`: JSON and raw bodies from the derive to the
   handler, with nested objects, and the schema that describes them. **Checked.**

Left:

* model: the case-insensitive path comparison and key, the results of actions in the schema
  (`out_results`), the conversions of `form_data_reader/mappers.rs`;
* prove: that `FieldKey`'s rules keep different identifiers apart where they do, and of
  `RequestRoundTrip` what the path and the query have, for headers and multipart bodies.

## 3. Modules and code

### The channel

| module | what it is |
|---|---|
| `TaskLines` | lines of waiting tasks (tokio's semaphore and mutex are first come, first served) and prefixes of histories |
| `BodyDelivery` | abstract specification of a body on its way: items are written and read in order, nobody is told of an end before everything was read, the readers leave for good |
| `BodyStream` | the channel with all public calls of its three handles |
| `BodyPump` | `BodyStream` with one pump and one handler as the README of the crate writes them |
| `MC_BodyStream`, `MC_BodyPump` | instances for TLC |
| `TaskLinesProofs`, `BodyStreamProofs` | section 6 |

Correspondence of `BodyStream` with `src/http_input/body_as_stream.rs`:

* `stream` is `HttpBodyAsStream.inner` (`BodyStreamState`), with "Dropped" for a model that is gone.
  `holders` and `senders` are the tasks that have the reader or the sender in an `Arc`; one half is
  dropped when its set becomes empty. `Open` says that the one tokio receiver still exists.
* `queue` is the mpsc buffer, `parked` and `granted` the tasks that wait for a permit of its
  semaphore and those that were given one but have not been polled since, `pending` the item of a
  `send_chunk` or `send_error` that is suspended. A permit is passed on (`PassPermit`) by a receive
  and by a send that is given up after it was given one.
* `turns`, `call`, `limit` and `acc` are the reader's `tokio::sync::Mutex`, the read a task has in
  progress and the local variables of `read_to_end`, which asks for the lock anew for each chunk.
* `completed` is the flag of `finish()`.
* Each call is one action up to the point where it can suspend and one from there on (`Send`,
  `SendGranted`, `SendRefused`; `StartRead`, `Receive`, `ReceiveEnd`); `CancelSend` and `CancelRead`
  drop a suspended future. What runs between two `await`s touches one shared object, so it is one
  step; `ReceiveEnd` touches two, the closed channel and then the flag, but once every sender is
  gone nobody is left to set the flag.
* `sent`, `received`, `seen`, `got` and `lost` are history and read by no action.

`poll_next_chunk` (`&mut self`, no lock) is a `Receive` by a reader nobody shares.

### The direct stream

`BytesStream` models `BytesStreamSource`: `reading` is the kept boxed future (`Some` or `None`),
`begun` the answer that future is working on, `ended` the flag, `script` what the foreign
`AsyncBytesStream` still has in store, `turns` the reader's lock. `story` is history, all the stream
had in store at first: `Begun` of its answers have been begun. An answer a dropped future was working
on is gone from `script` and would be missing from what is handed out; no action of the code's drops
one, a mutant does. `MC_BytesStream` is the instance, `BytesStreamProofs` has the proofs.

### URL builders

`UrlText` holds the texts: sequences of the delimiters the code looks for and of runs that stand for
the rest, with the encoders of a path and a query reduced to which characters become an escape.
`UrlBuilderInner` has the one `value` and the indices `host_index`, `port_index`, `path_index`,
`query_index` (0 stands for `None`), one action per append and one operator per getter.
`UrlParts` is the abstract url (base, path, query) it implements, through its own getters as the
refinement mapping. `UrlTarget` adds the crate's own readers of the request target:
`PathAndQueryReader` and `build_key`. `UrlBuilderUnixSocket` has the unix builder's four strings.
`UrlBuilder` is the enum around the two: a TCP builder alone, or one with a twin, a unix builder that
begins with the same path and query and is given the same calls, whatever the two make of them. Two
history variables keep what was said to the twins: `bare`, that the unix builder's path was begun with
a text that has no `/` in front, and `alike`, that nothing was said yet that the two treat differently
(section 7). `MC_UrlBuilder` is the instance;
`UrlTextProofs`, `UrlBuilderInnerProofs` and `UrlBuilderProofs` have the proofs.

### Body parsing

`BodyReading` is the parse of a body in memory: `BodyContentType`, `BodyReader`, look-up by name or
path, presence, conversion and validators, as a function from a body to an outcome.
`BodyFromStream` is the parse of a body that comes in chunks, one action per turn of its loops:
`Chunk`, `StreamFails` and `StreamEnds` are the answers of the stream, `PassMark`, `TakeMember`,
`TakeClose` and `TakeBroken` those of my-json's iterator; `ReadFields` calls `BodyReading` on what
was kept, as the code does. A body is a sequence of pieces (brackets, white space, members, pairs,
parts, something broken), cut anywhere between two pieces; `IsCut` says which sequences of pieces a
text can be cut into. `BodyFromStreamProofs` has the proofs.

### Requests

`UrlCodec` has both encoders and the decoder byte by byte, UTF-8 included, and the query string
reader. `Multipart` writes and reads a multipart body; the boundary and the header names are single
marks, everything else bytes. `InputValue` has what a field does to a text on the two sides: type,
trim, case, validator, default, `Option` and `Vec`. `RequestRoundTrip` is one request on its way:
the client's fields in their order (`fill_url`, `fill_headers`, `get_body`), then the parse. Its
"other" client spells and lays out the same values in every other way the formats allow; its
"broken" client sends something that is no value. `RequestRoundTripProofs` has the proofs.

### Bodies, objects and the schema

`FieldKey` has `field_key.rs`: serde's naming attributes and `#[json_name]`, the eight renaming
rules byte by byte, and what the derive refuses. `Schema` has the data type of a field, the structure
of an object, what is required, what does not compile and what the registration of a controller
panics on (`get_input_params`, `check_parameters`); a structure that contains itself is described
without end, which the model shows as "not registered". `JsonObjects` has the derived writer and
reader of values, serde as it reads a `Vec` or a `HashMap`, and a client that goes by the schema, in
a terse and in an explicit manner (a `None` left out, or written as a null). `BodyRoundTrip` is one
model on its way: `Compile`, `Register`, then one action per member written (`WriteMember` in the
order of `get_body`, `FollowMember` in any), `WriteRaw`, `Send`, `Parse`.

## 4. Runs

Every run checks every behaviour of its instance. `CHECK_DEADLOCK FALSE` stands in all of them,
since all these programs really come to a stop: a body has been read, a builder is put away, a
request has been answered, and the bounds of the counters stop the rest. That nobody *waits* for
ever is checked as liveness, or as an invariant (`NoLostPermit`).

### `writers` (`BodyStream`: two producers, one reader, buffer 0, sizes 0 and 1, two calls each)

`TypeOK`, `BackPressure`, `NoLostPermit`, `GoneIsTrue`. Buffer 0 becomes a channel of one place,
which two producers over-fill at once: a task waits, is given a permit, gives up or is refused in
each place of the line. A second call of each is what makes a permit return. The tasks of one side
are interchangeable, and symmetry is used, for these are invariants.

### `readers` (`BodyStream`: one producer, two readers, buffer 2, sizes 1 and 2, limits 2 and none, three calls)

`InOrderNoneLost`, `EndIsTrue`, `HandedOnce`, `HandedInOrder`, `WithinLimit`, `GoneForGood`,
`NextIsCancelSafe`, `DeliverySpec` (the refinement) and, under `ReadingSpec`, `EveryReadEnds`.
Three items are enough for one with each reader and one more behind them, for a limit that is met
exactly and one that is exceeded, and for an error between two chunks. No symmetry, since there is
liveness.

### `pump` (`BodyPump`: buffer 1, bodies of up to four chunks)

`WholeMeansWhole`: a handler told of a clean end has the whole body. `PumpStops`: a pump that watches
`closed()` ends once the handler has left, though its source be silent for ever. `HandlerServed`: a
handler's wait ends once the pump is gone. `BothDone`: with a source that keeps answering both come
to their end. Four chunks are one in the buffer, one in a send, one in the handler and one more.

### `bytes_stream` (`BytesStream`: two readers, two reads each, every stream of up to four answers)

`PickedUp`, `OneEnd`, `NotAskedAfterEnd`, `EveryReadEnds`. Streams that go on after an
error or after their end are among them. Four answers are one for each of the four reads, and runs of
empty chunks.

### `urls` (`UrlBuilder`: appends while the url is shorter than 13 characters)

`ReadsBackTheSame` (the indices are those `new` finds in the text built so far, the text goes to the
same kind of builder, and no index is out of order, so no getter panics), `TargetReadsBack` (either
builder's target is read as its getters say, and is in origin form but for a unix builder whose path
was begun without a slash), `KeyIsCanonical`, `SameTarget` (twins told only what both take alike name
one target, character for character), `ConnectionStays` and `PartsSpec` (the refinement). The starts
are all texts of up to four characters and addresses put together of schemes, hosts (IPv6 and a bracket
that is never closed among them), ports, paths and queries; the twins begin with sockets written in
every way, with a path, a query, both, or a bare text behind the colon, and are given raw endings with
and without a slash, with a query of their own, and onto a query. Thirteen characters let each start be
followed by several appends in every order (409,170 states).

### `body_fields` (`BodyFromStream`: JSON bodies of up to two members, of three with a smaller choice)

`SameAsWhole`, `BrokenOffIsTold`, `OnlyNamedKept`, `NotReadFurther`. The models have a required, an
optional and a defaulted field, a path into a nested object beside its own first segment, a raw field
and a validator; the bodies have repeated keys, nulls, wrong types, broken pieces and a missing
close; each is cut at every place, ended or broken off at every place, and there are bodies of
every other format under every Content-Type. Two members are a member and its repetition or its
neighbour; three put something behind the last one needed.

### `request` (`RequestRoundTrip`)

`BuiltIsAccepted`, `ValuesArrive`, `PathArrivesButPlus`, `BrokenIsTold`, `AnySpellingIsRead`. All
texts of up to two characters out of a capital, a small letter, a digit, a space, `%`, `&`, `+`, `/`,
`=`, `?` and a character of two bytes, in one field of every source under all directives; texts of
line breaks, dashes, quotes and backslashes in forms; numbers, bools and an enum in every source;
several fields at once with fewer texts; Vecs of up to two items in headers and forms, which are
read back only as far as section 7 says. Encoders and decoders go through a text with no memory but
that of one escape, so pairs of characters show what longer texts would.

### `body` (`BodyRoundTrip`)

`ObjectsArrive`, `FollowerIsRead`, `SchemaTellsTheTruth` (every member our client writes is described,
of the type described, an enum's case as it is listed, in every value whose cases are written as they
are listed), `RawArrives` (bytes and what holds JSON already, byte for byte). The types are every leaf
(text, number, bool, custom, both enums) in up to three wrappers of `Option`, `Vec` and `HashMap`,
and twelve structures: one inside another, one without end, with every naming attribute, with keys
that collide, that disagree with serde's or that hold a dot, flattened, tagged. An enum lists one
case by the name another is written as. The values are the empty and one awkward text, an empty Vec
and one of one or two items, a map of two keys, one with a dot. Raw bodies of every type hold
nothing, a letter, a quote and a backslash, an array, a byte that is no UTF-8. Two levels of objects
show every pair of writer and reader that can meet; a third would repeat one.

### The four runs that find a disagreement

| run | property | what the run shows |
|---|---|---|
| `given_up` | `GivenUpReadLosesNothing` | the README calls both ways of reading cancel-safe; a `read_to_end` that is given up drops the chunks it has gathered (`body_as_stream.rs:464`). `get_next_chunk` keeps the promise (`NextIsCancelSafe`, proved). |
| `body_refused` | `FailsWithoutBody` | the README says a request that fails on path, headers or query does not wait for its body; one that fails on their *validators* does, since those run behind the body's reads (`parse/mod.rs:256`) |
| `request_plus` | `PathIsPercentDecoded` | a path segment is decoded as a query string is: a `+`, which the client's encoder leaves alone, arrives as a space (`request.rs:61`) |
| `raw` | `RawIsVerbatim` | the README (75, 86, 140) calls a raw body verbatim, a `String` included; a `String` is serialised on its way out (`client_writer.rs:300`) and taken as it comes on its way in (`from_raw_body.rs:30`), so it arrives in quotes |

Disagreements met while modelling that no run of their own records; the properties named except them:

* The client neither transforms nor validates the fields of a JSON body (`client_writer.rs:341-346`), so
  what a validator refuses is sent and turned down by the server, against `README.md:78-80` and
  `request_builder.rs:60-62` (`BuiltIsAccepted`).
* The schema lists an enum's cases by their Rust names (`enum_doc/generate.rs:346-353`), and an integer
  enum as a number (`:52-56`), while a case is written by its value, as a text; the comment at
  `:135-136` says that what is written is what the schema lists (`SchemaTellsTheTruth`,
  `FollowerIsRead`).
* A segment behind a path that ends with a slash gets two slashes from the unix builder and one from the
  TCP builder, where the comment at `url_builder_unix_socket.rs:62` claims parity (`SameTarget`).

## 5. Fairness

* `ReadingSpec` (`BodyStream`): weak fairness of `Receive` and `ReceiveEnd` of each reader. They are
  enabled when a task holds the lock and the channel has something for it; tokio wakes that task and
  polls it. Nothing makes a task call, share, cancel or drop.
* `BodyPump`: the pump and the handler are polled when they can go on, and each goes on with its
  own program (`PumpRuns`, `HandlerRuns`). The source has no fairness: it may be silent for ever.
  `LiveSource` is only the premise of `BothDone`.
* `FairSpec` (`BytesStream`): weak fairness of the steps of a read that holds the lock, for the same
  reason. The stream answers when it is polled if it has an answer in store; `EveryReadEnds` excuses a
  read of a stream that has none left and has not ended.
* No other specification states fairness, and no liveness is claimed of them.

## 6. Proofs

Every theorem is for all values of the constants, under the assumptions named with each group.
Liveness and `ENABLED` are out of the prover's reach and stay with TLC. So is induction by an operator,
which the library's theorems ask for; what a fold computes for every text is proved all the same, by
sets: see *Folds* under *Requests*.

### The channel

Under `BodyStreamAssumption`: finitely many producers, at least one; any readers; any buffer (0 counts
as 1); any sizes, limits and number of calls. Finiteness is needed for `Cardinality(granted)`; the
rest says what type a constant has.

`BodyStreamProofs` shows that `IInv` is inductive, from it the safety invariants, and on it the
refinement of `BodyDelivery` and what becomes of the chunks behind the channel:

| part of `IInv` | what it says |
|---|---|
| `TypeOK` | types |
| `SendLine` | a task has a pending item exactly if it waits for a permit or has one, never both, and in the line once |
| `ReadLine` | a task is in the line for the lock, once, exactly if it has a read in progress |
| `OneReceiver` | a reader is held only after it was taken out of the model |
| `Flow` | while the channel is open, what was received and what is in the buffer is what was sent |
| `Room` | items and permits never exceed the capacity, and make it up exactly while a task waits |
| `EndIsTrue`, `GoneIsTrue` | the properties themselves |

None of the properties is inductive alone: `BackPressure` needs that a permit is never counted twice
(`SendLine`), `NoLostPermit` that a place comes free only by an action that passes it on (`Room`),
`EndIsTrue` that a task with a send in progress still holds the sender (`SendLine`) and that the
buffer is all that is missing (`Flow`).

* `Invariance`, `TypeCorrect`, `NoneLost`, `TrueEnd`, `TrueGone`, `Bounded`, `NoWaitBesideFree`.
* `Delivers` (`Spec => DeliverySpec`: each step is one of `BodyDelivery` or a
  stutter of it) and `NeverBack` (`GoneForGood`).
* `Limited` (`WithinLimit`) and `NextLosesNothing` (`NextIsCancelSafe`) from
  `Gathering`, which says that only a `read_to_end` has a limit or something gathered; `OncePlaced`
  (`HandedOnce`) from two more invariants. `Numbered`: no item is sent twice, since an item carries
  its task and the number of that task's call, and a pending one has not been sent. With `Flow` the
  item at the head of the buffer is therefore not among those received. `Sorted`: chunk by chunk,
  what `HandedOnce` says of sets; the lemma `Moved` is the one argument behind every step of a reader.
* `OrderKept` (`HandedInOrder`). Its invariant `InLine` is about what a task was
  handed and what its `read_to_end` is gathering, one behind the other: that line is a subsequence of
  `received`. A receive puts the last item there is at the end of the line, and whatever ends a
  `read_to_end` moves the gathered part as a whole or drops it.
* `CleanEndIsWhole` (`WholeMeansWhole`), of `BodyPump`. Each step of the pump or the handler is
  a step of the channel (so the channel's invariants carry over) and keeps two more: what the pump
  has sent is what it has read of its source, and only a pump that has sent all finishes; what the
  handler holds is what came out of the channel, and it counts its body whole only when told of a
  clean end. `EndIsTrue` then closes the gap between the two.
* `TaskLinesProofs`: what joining and leaving a line does to its members and to its order; and the
  lemmas about folds, of which more below.

### The direct stream

`BytesStreamProofs`, under `BytesStreamAssumption` (a story is a sequence of answers, each with its
number): `OneEndHolds` and `NotAskedAfterEndHolds` from `EndIsLastWord` (after the end nothing is being
read and the last word handed out is an end; before it none was), and `PickedUpHolds` from `Storyline`
besides: `script` is the end of `story` and `begun` the answer right before it. `PickedUp` alone is not
inductive, since without it a next answer might be one that was handed out already. That the kept
future outlives the call that began it is what the step of `CancelRead` rests on: with the mutant,
which drops `begun` along with the call, it fails.

### The streamed parse

`BodyFromStreamProofs` proves all four properties of the run `body_fields` for any fields, any body,
any way of cutting it and any place it breaks off at: `StreamedAsWhole` (`SameAsWhole`),
`NoTruncatedModel` (`BrokenOffIsTold`), `KeptIsBounded` (`OnlyNamedKept`) and `ReadsNoFurther`
(`NotReadFurther`). `BodyFromStreamAssumption` says what a case is; its `IsCut` says that the pieces of
a body are those of a text: a member has one key, and what stands before any object was begun is no
member and no end of an object, but something nobody can read. Without it the model would speak of
sequences no text is cut into.

`SameAsWhole` and `BrokenOffIsTold` are parts of `IInv` themselves, beside:

| part of `IInv` | what it says |
|---|---|
| `TypeInv` | types; the reader is never past what has arrived, and nothing arrives behind the failure |
| `NotBegun` | before the sources are read nothing was asked for |
| `WholeIsKept` | a body that is not JSON is kept as it came, and all of it when fields are read |
| `Searching` | while members are read, every piece passed is white space, a bracket or a member, and the wanted keys are those not met yet |
| `Stopped` | when fields are read, every key was met or the object is over, and what is kept is an object with the members met |
| `OnlyFirstsKept` | kept are brackets and first members of the model's keys, each once |

`OnlyNamedKept` follows from `OnlyFirstsKept` and `NotReadFurther` from `Searching`; `SameAsWhole` is
about the last step only and needs all of these. The lookup of a name goes through a
body up to the first member of that key, the close, or something broken. The lemma `SameValue` says
that it ends in what is kept as it ends in the body: the first member of a key the model names is
kept if it was met, and if it was not, the reader has been past the close. `SameModel` carries that
from values to the model and `BothAreObjects` to the check that there is an object at all.

### The url builders

Under `UrlBuilderAssumption`, which says that what a builder is given are texts, any texts, and
`TwinsAssumption`: a twin is begun with a socket, as `UrlBuilder::new` tells one, with no colon in its
path (a colon would end it). What follows the socket, and what is appended, is any text.
`MaxLen` is any number: as many calls as one likes.

`UrlBuilderProofs` proves of `UrlBuilder`, twins included: `Rereads` (`ReadsBackTheSame`),
`TargetFound` (`TargetReadsBack`), `HostIsKept` (`ConnectionStays`), `PromiseKept` (`PartsSpec`, the
refinement of `UrlParts`) and `SamePathAndQuery` (`SameTarget`). None of these is inductive. `IInv` has, of the TCP builder,

* `InOrder`: the base is not empty, the host ends before the path, the path before the query, and
  `query_index` is at a `?`. Without it `get_query` would cut one behind the end of the text.
* `InForm`: the base begins with a scheme, which is not that of a unix socket; behind the scheme it has
  no `/` and no `?`, and the port is at its last colon outside of brackets; the path begins with its
  `/` and has no `?`.

and of its twin `TwinForm`: the socket is found where the scheme ends and has no colon, the path has no
`?` and begins with its `/` exactly if it was not begun bare, the query begins with its `?`.

* *One part grows.* The argument is cut into lemmas about texts (`PutIn`: a text put in at a place
  leaves what is before it and moves what is behind; `PartBefore`, `PartGrown`, `PartBehind` say it of
  the part a getter cuts out) and three about what an append can be: the path grows (`GrowPath`), the
  query grows (`GrowQuery`), a first query appears (`NewQuery`). Each action is one of them, and the
  separator of the code (`push_path_separator`, which looks at the whole string) is shown to be the one
  the path needs (`SlashOfPath`, `SlashOfQuery`).
* *What is written reads back.* `IsScan` says what indices a scan may answer, as first and last places
  of their marks; `ScanIsOnly` that there is one such answer. `InForm` makes the indices kept such an
  answer (`ScanFindsIndices`), so parsing the text again finds them. The head of the text is in the
  base, which no append touches (`BaseStays`), and the path stays without a mark because a segment is
  encoded and an ending is cut at its first `?`.
* *The unix socket.* `SocketAt` says where a socket begins, looking at no more than one character
  behind the slashes; `SocketIndexIs` that `socket_path_index` finds just that place, `SocketStays` that
  a colon and anything behind it do not move it. `UnixReads` is then the parse of a text put together
  of its parts, whether or not the colon is written.
* *A bare path.* The unix builder sends its path as it is. `ReadBackParts` says that a path with no `?`
  is found again in front of a query, with its `/` or without one (`PathIsMine`, `BarePathIsMine`).
  `BareIsUnrooted`: a text that begins with neither `/` nor `?` begins a path that has no slash in
  front, and whatever is put behind it, it never gets one, which is why `bare` is in `TwinForm` as an
  equivalence.
* *Parity.* `Agree` is the invariant: while `alike`, both builders have the same path and the same query,
  character for character. The separator of the TCP builder and the slash of the unix builder are the
  same then, for nothing is put behind a path that ends with a slash; an ending is cut at its first `?`
  by both (`EndingCut`), and there is no query yet that it could be put onto.

`UrlBuilderInnerProofs` has the part about the TCP builder (and `PromiseKept` of its own
specification), `UrlTextProofs` the lemmas about texts.

### Requests

`RequestRoundTripProofs`, under `EnumAssumption` and `RequestAssumption`: any number of fields of any
name, type, kind and directive the derive compiles, any values their types print, any texts, any other
client. What these assume beyond that the code refuses itself (`check_duplicated`: two fields of a query
with one name; an enum's id that is no number), or §7 names it (names that end in `[]`).

* `DecodeUndoesEncode`: of any bytes, what is encoded for a query decodes to them, and what is encoded
  for a path to them with spaces for the pluses. `BrokenEscapeIsRefused`: a text whose first percent
  sign is not followed by two hex digits is not decoded, whatever comes behind.
* `PathArrives` (`PathArrivesButPlus`). Its invariant `PathLaid`: the fields written so far that belong
  in the path stand in it, segment by segment, encoded. `SegmentGoesOn` is the step: an encoded segment
  has no slash, is not empty, and neither begins nor ends with one, so the separator that
  `append_path_segment` puts in front of the next is the only one there. At the other end `UrlIsCut`
  (the path has no `?`, so the url is cut where it was put together) and `PathValueRead`.
* `QueryValuesArrive`, the query's part of `ValuesArrive`, for all three kinds of field, `Option` and
  `Vec` and defaults included, from either client. Its invariant `QueryLaid`: `GetVec` of the query as it
  stands gives for each field written its values, encoded or spelt, all and in order, and nothing for a
  field still to come. `QueryGrows` is the step: a pair behind others adds its value to its own name and
  to no other. `QueryValueRead` and `SpeltIsConverted` are about one value: what the transforms made
  comes back as it was (`ShapedOnce`: to apply them twice is to apply them once), and every spelling of
  a text reads as the text does.
* `BrokenIsNeverRead` (`BrokenIsTold`), from the same invariant. That the values in `Malformed` are
  none of their type is its hypothesis, which `DecodeEndsQuietly`, the mutant of the decoder, breaks for
  the run's `Malformed`; `BrokenEscapeIsRefused` is why it holds of a broken escape.

*Folds.* The encoders, the decoder, `Split`, `QueryPairs`, `GetVec` and `Spelt` are folds of the library,
which are recursive functions, defined by `CHOOSE`. `FoldLoops` turns what was chosen into a loop with
one state for each place of the sequence, and `LoopGoesOn` into the one fact that is used of it: what the
fold makes of a sequence with one element more. `EverySequence` says that a set with the empty sequence
in it, and with every sequence of its own with one element more, has every sequence in it; the sets it is
used with (the texts that decode to what they were, say) do what an inductive predicate would do.

### Only model-checked

All liveness (`EveryReadEnds` of both streams, `PumpStops`, `BothDone`, `HandlerServed`);
`KeyIsCanonical`, which is about a sort; of requests `BuiltIsAccepted`, `AnySpellingIsRead` and what
`ValuesArrive` says of headers, forms, files and bodies; everything about objects.

## 7. What is not modelled, and bounds that matter

* Channel: the bytes of a chunk (only its size), `Display` of errors, wakers.
* Direct stream: sizes and the copying of a chunk.
* Streamed parse: empty chunks, a parse future that is dropped (it owns all its state, nothing
  outlives it), a cut within a JSON member (that is my-json's), the values read by serde.
* URL builders: `get_remote_endpoint` and `host_is_ip`, `iter_query`; characters have no case, so the
  case-insensitive key and comparison are left out. Three calls the two builders treat differently, and
  `SameTarget` says nothing from then on: a raw ending onto a query, which the TCP builder puts into the
  query as a whole and the unix builder cuts (`url_forms_tests.rs:616-619` pins both: "Whether to make
  them the same is not decided"); an ending that does not begin with a `/`, in front of which only the
  TCP builder puts one (`url_forms_tests.rs:683-691` gives such); and a segment or an ending behind a
  path that ends with a slash. All other properties go on to hold. A unix builder whose path was begun
  without a slash, by a bare text behind the socket's colon or by an ending, gives a target that is not
  in origin form; `TargetReadsBack` says so. A segment that is empty or holds a `/` moves the segments
  behind it, as documented; no property speaks of it.
* Requests: white space and case are those of ASCII; dates, floats and integers wider than a `u8` are
  read by code like that of a `u8` or by other crates. An enum's cases have different values and ids,
  and no `create_default`. Boundaries that are prefixes of one another, names that end in `[]`,
  overlong UTF-8. The conversions of `form_data_reader/mappers.rs`, for callers that read a form
  without a model.
* Objects: a custom field (`#[http_input_field]`) is a text. Generic structures, dictionaries within
  structures, the results of actions (`out_results`), the names and ids of schemas, the widths of
  numbers and the default of a bare enum are not modelled.
* What the properties of requests except, on purpose: path values that are empty or hold a `/`; a
  file name that ends in a backslash (it takes the closing quote along); a bool of a query, which is
  compared before it is decoded; a Vec field in a header or a form, which is written as one entry per
  item and read as one JSON array; a value of a JSON body field its validator refuses, which is sent.
* What the properties of bodies except, on purpose: a key that holds a dot, which my-json takes for a
  path; keys given twice within a structure, which nothing refuses; `#[json_name]` of a structure in
  a `Vec` or a `HashMap`, which serde reads by another key; a `Vec` a client leaves out because the
  schema calls it not required, which the parse misses; an enum's case sent as it is listed, by its
  Rust name, where it is written and read by its value (`enum_doc/generate.rs`), and one our client
  writes otherwise than the schema lists it. A raw `String` and a filled optional raw body (which is
  looked up by its name and never arrives) are left to the run `raw`.
* A form given to a controller on GET or DELETE is not refused by `check_parameters`, which asks
  `is_body` and looks at form fields only for its message; the model does as the code does.
