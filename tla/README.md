# TLA+ models of the grpc-rust server pipeline

This directory holds TLA+ models of the server side of grpc-rust
(`src/src/server.rs`) and of its interop test server
(`src/interop/src/bin/interop_server.rs`). It has TLC configurations that model-check them on
small instances, and TLAPS proofs that hold for every value of the constants.

## The system

A call moves through these parts of `server.rs`:

| Part | Code | What it does |
|---|---|---|
| HTTP-to-gRPC bridge | `GrpcHttpService::start_request` (428-509) | Reads `:path` and the metadata. Either answers `http_response_500` at once, or passes the call to the call starter. Then it turns the response into HTTP: the head future gives the 200 headers, and the part stream `s2.chain(s3)` gives the data parts, then the error trailers made by `then()`, then the `grpc-status: 0` trailers |
| Call starters | `CallStarterSync`, `CallStarterCpupool` (371-419) | Sync runs `handle_method` on the transport's task. The pool runs it in a `CpuPool` task. The pool catches a panic in that task, and the panic resumes when the transport polls the future |
| Service registry | `ServerServiceDefinition` (252-284) | `join` concatenates method lists. `find_method` returns the *first* match and panics on an unknown name |
| Dispatcher | `MethodHandlerDispatchImpl::start_request` (203-228) | Unmarshals requests and calls `handle()` inside `catch_unwind`. A caught panic becomes `StreamingResponse::err` |
| Handler adapters | `MethodHandler*` (143-190) | Client-streaming and bidi call the user closure `f` inside `handle()`. Unary and server-streaming only build `stream_single(req).and_then(f)`, so their `f` runs later, when the head future is polled. The head future an eager `f` returns is also polled after `handle()` has returned, outside `catch_unwind` |
| Server facade | `Server` (286-369) | Picks the starter and shares the registry |
| Interop test server | `interop_server.rs`, `TestServerImpl` | Implements the seven `TestService` methods, served through the parts above: unary closures built on `make_string`, a streaming output, an i32 `fold` over the input stream, a `flatten`ed duplex stream, and an empty half-duplex stream |

Everything is a lazy futures-0.1 pipeline. Nothing runs until the transport
polls a call, or until the pool task polls it. The client feeds the request
stream at its own pace. A panic that unwinds on the transport's event loop
ends that loop, and with it every call of the server.

## Modules

- `GrpcWire.tla` defines the HTTP response parts the bridge produces. A part
  is a record of its kind (headers, data, trailers, trailers-only, reset) and
  the `grpc-status` it carries. `ErrorPart(s)` is what `then()` makes of a
  stream error (lines 471-499). `Parts` lists every part the bridge can
  produce, among them trailers with no `grpc-status`.
- `GrpcResponse.tla` is the abstract specification of one call's response,
  with no starters, registries or handlers. A call is `open`, `streaming` or
  `closed`. It is refused with one trailers-only block (`Refuse`), or fails
  with a reset (`Fail`), or it opens with the 200 headers (`Begin`), carries
  data and error trailer blocks (`Emit`) and is closed by `grpc-status 0`
  (`Finish`). The event loop may die at any time (`Die`), and after that no
  response changes.
  - It states the contract an implementation inherits through its
    refinement:
    - `ResponseShape`: each call's wire has the shape of its stage. It is
      empty while open. While streaming it is the 200 headers followed by
      body parts (data and error trailers). Once closed it is one
      trailers-only block, one reset, or a streamed response whose last part
      is `grpc-status 0`.
    - `ResponseSettles`: an action property. A begun response only grows,
      and a closed response, or any response once the loop has died, never
      changes.
  - It also holds their proofs, `ShapeSafe` and `SettlesSafe`. They are
    facts about the abstract specification. An implementation inherits them
    through its refinement theorem, so no run checks them again on the
    implementation.
- `GrpcServer.tla` models every part above, for a set `Calls` of concurrent
  calls.
  - State per call:
    - `ph`: the pipeline phase, `idle → (queued) → head → body → done`.
    - `path`.
    - `disp`: the registry index that `find_method` chose.
    - `reqN` and `reqSt`: what the client has sent so far.
    - `head`: the head future. It is pending, ok, err, or holds a panic that a pool thread caught.
    - `outN`: results yielded so far.
    - `wire`: the HTTP parts produced.
    - `crash`: one global variable, the panic that ended the event loop.
  - Actions:
    - `RejectRequest`: the early 500 returns, at lines 441-451.
    - `StartRequest`, with `StartCall`, `HandleMethod` and `Dispatch`: lines 438-458 with the starter, registry and dispatcher.
    - `PoolTask`: the spawned pool closure.
    - `ClientSend`, `ClientEnd` and `InputError`: the request stream. Its deframing code is outside `src/`.
    - `StreamSingle`: `stream_single(..).and_then(f)`.
    - `HandlerHead`: the head future of an eager handler. It resolves,
      fails, or panics. The panic is outside `catch_unwind`: under the pool
      starter `spawn_fn` polls the head future on a pool thread, which
      stores the panic in the pool future (`HeadTaskPanic`), and it resumes
      when the transport polls that future. Under the sync starter the head
      is polled on the transport, and the panic ends the loop.
    - `PollHead` and `PollItem`: the transport polling the `HttpResponse`.
  - The user handler is abstract. Where the code calls it or polls its stream,
    the model lets it do anything a handler of that flavour can do: yield a
    result, fail with a `GrpcMessage` status or another error, end, or panic.
  - Registry data is a sequence of `[name, flavor]` records. `Join` is
    `FlattenSeq`, and `FindMethod` is `SelectInSeq`, which returns the first
    index.
  - The refinement mapping `Response == INSTANCE GrpcResponse WITH ...` maps:
    - `alive` to `crash = NoCrash`;
    - the phases `idle`, `queued` and `head` to `open`, `body` to
      `streaming`, and `done` to `closed`;
    - `wire` to itself.

    The early trailers-only answer carries no `grpc-status` (`NoStatus`), and
    an error trailer carries an `ErrCodes` status or none.
    `ImplementsResponse` is `Response!Spec`.
- `MCGrpcServer.tla` gives the registries and path sets for TLC. It includes
  a joined registry with one method of each flavour, a registry with a
  duplicate name, and an unregistered path.
- `InteropService.tla` composes the concrete handlers of
  `src/interop/src/bin/interop_server.rs` (`TestServerImpl`) with their
  adapters and the bridge, for one call.
  - State:
    - `m`: the method named by the call's `:path`.
    - `reqs`, `reqSt` and `read`: what the client has sent, and what the
      handler has read.
    - `ph`: the bridge phase.
    - `pending` and `src`: the results the handler's stream has ready, and
      whether it can make more.
    - `acc`: the running i32 sum of `streaming_input_call`.
    - `out`: the numbers carried by the data parts so far.
    - `wire`.
    - `alive`: the event loop is running.
  - Requests are records of the fields the methods read: `code`, `size`,
    `sizes` and `len`. The payload is a number.
  - Actions:
    - `SingleHead`: `stream_single` and the lazy closures (`LazyResults`).
      `unary_call`'s `make_string` of a negative size panics (`PanicsInF`).
    - `EagerHead`: the eager closures. Their heads resolve at once, and
      `half_duplex_call`'s stream is empty.
    - `ClientSend`, `ClientEnd` and `InputError`: the request stream. It
      yields a message, ends, or fails. The deframer is outside `src/`; the
      model assumes it yields nothing after its error.
    - `FoldStep` and `FoldEnd`: the `fold` of `streaming_input_call`. It adds
      with i32 semantics: on overflow it wraps (release build) or panics
      (debug build). A failed request stream fails the fold.
    - `DuplexNext` and `DuplexEnd`: `map(..).flatten()` of
      `full_duplex_call`. A failed request stream fails the flatten.
    - A request-stream error is not `Error::GrpcMessage`, so `then()` renders
      it as trailers with no `grpc-status` (`InputFailure`). `SingleHead`
      fails on it too.
    - `Emit` and `Finish`: the bridge's poll of `s2` and the chained `s3`. A
      negative size panics in the `make_string` of the stream's `map`.
  - `MakeString` indexes `Dictionary` modulo the hand-counted
    `DictionarySize`. `RepeatDictionary` is the reference: the dictionary
    repeated and cut to size, written as a recursive function over `Nat`.
  - The refinement mapping `Response == INSTANCE GrpcResponse WITH ...` sees
    the one call as a `GrpcResponse` call `TheCall`:
    - `head` maps to `open`, `body` to `streaming`, and `done` to `closed`;
    - `wire` and `alive` map to themselves;
    - no call is refused early (`EarlyStatuses = {}`);
    - an error trailer carries a status of `RaisedStatuses`: a non-zero code
      of `Codes` (the handlers raise `GrpcMessage` only when `code != 0`), or
      no status, for a failed request stream.

    `ImplementsResponse` is `Response!Spec`.
- `MCInteropService.tla` gives the method, size and length sets for TLC.
- `GrpcServerProofs.tla` holds the TLAPS proofs of `TypeOK` and of the
  refinement of the core model.
- `InteropServiceProofs.tla` holds the proofs about `InteropService`: its
  `TypeOK` and its refinement of `GrpcResponse`.

## Runs

The core runs use `ErrCodes = {5}`, `MaxReq = 2` and `MaxItems = 2`. These
bounds are enough to reach the interesting cases:

- a second request message, which is the unary arity error;
- a streaming response with an error item followed by more items;
- a single response whose one result is an error.

The interop runs use all seven methods and up to 3 requests. The other
bounds are:

- codes `{0, 5}`;
- sizes `{-1, 59}`. 59 is past the 58-character dictionary, so a payload
  shows whether `make_string` wraps around it correctly;
- up to 2 response parameters;
- payload lengths `{7, 2^30}`. Two lengths of `2^30` overflow i32.

`CHECK_DEADLOCK FALSE` is set because a finished server does stop. Every
call ends in `done`, or the loop dies.

| Run | Checks | Shows |
|---|---|---|
| core_sync (2 calls, inline starter) | `TypeOK`, `CallCompletes`, `ImplementsResponse` | Two things hold. Every behaviour of the pipeline, panics of lazy closures and of eager head futures included, is a behaviour of `GrpcResponse` under the mapping: headers first, trailers-only or reset otherwise, `grpc-status 0` last, and nothing after a close. A call whose request stream has ended or failed always completes, unless the loop dies |
| core_pool (2 calls, CpuPool) | the same | The same holds when pool tasks interleave with the transport and the client, and with panics stored in futures. Both starters therefore implement the same abstract response |
| trailers_last | `TrailersLast` (violation) | An error trailer is followed by more parts and by `grpc-status 0` |
| unimplemented | `UnimplementedStatus` (violation) | An unknown path panics and takes the loop down, where the spec says it should get status 12 |
| arity_internal | `ArityInternal` (violation) | A unary call with 0 or 2 requests gets a failed response (a reset), not status 13 |
| errors_status | `ErrorsCarryStatus` (violation) | A non-`GrpcMessage` error gives trailers with no `grpc-status` |
| panic_contained | `PanicContained` (violation) | A panic in a unary closure, or in the head future an eager handler returned, is outside `catch_unwind`: it ends the loop, on the transport or resumed from the pool future |
| last_wins | `LastRegisteredWins` (violation) | A name registered twice dispatches to the first registration |
| interop | `TypeOK`, `MakeStringMatchesRef`, `ResponsesMatchRequests`, `CallEnds`, `ImplementsResponse` | Four things hold. The concrete handlers behind the adapters and the bridge implement `GrpcResponse`, a failing request stream included. Every payload sent by a streaming method equals the reference repetition of the dictionary. For `streaming_output_call` and `full_duplex_call`, the data parts sent plus those pending are the sizes asked by the requests read, in order, while the client keeps sending. A request stream that has ended or failed ends the call, unless the loop dies |
| interop_duplex | `DuplexStopsAtError` (violation) | After a `full_duplex_call` error trailer, `flatten` goes on to the next request and sends more data |
| interop_aggregate | `AggregateGrows` (violation) | Two payloads of `2^30` bytes make the `streaming_input_call` aggregate wrap negative |
| interop_alive | `ServerSurvives` (violation) | A negative `response_size` panics in `make_string` on the transport loop. In a debug build, so does the i32 overflow |

Each property of the passing runs has a mutant in `PROJECT.json`, and TLC
finds the property violated under that mutant:

- `OutBound` off by one breaks `TypeOK`.
- `then()` dropped (`ErrorPart` as a reset) breaks `ImplementsResponse`,
  in the core runs and in the interop run.
- an empty request accepted breaks `CallCompletes`.
- `then()` sending its error as intermediate headers instead of trailers
  breaks the interop `TypeOK`.
- `DICTIONARY_SIZE` miscounted as 57 breaks `MakeStringMatchesRef`.
- `full_duplex_call` ignoring `response_status` breaks `ResponsesMatchRequests`.
- an eager stream that never finishes breaks `CallEnds`.

## Fairness

`CallCompletes` assumes weak fairness of five actions: `PoolTask`,
`StreamSingle`, `HandlerHead`, `PollHead` and `PollItem`. `CallEnds`
assumes weak fairness of every server action of `InteropService`. This is
justified because:

- the reactor polls every future that has been woken;
- the `CpuPool` runs every spawned task;
- a handler's response makes progress.

The client gets no fairness, so a client that never ends its request is allowed.

## Proved (TLAPS)

### The abstract response (`GrpcResponse.tla`)

These proofs need no assumption on the constants.

- `ShapeSafe`: `Spec => []ResponseShape`.
  - `ResponseShape` is inductive together with the type invariant `TypeOK`
    of the abstract module (`ShapeIInv`).
  - Each action moves one call from the shape of one stage to the shape of
    the next (lemma `OneCall`). Lemma `AppendKeeps` shows that appending
    keeps the parts already sent.
- `SettlesSafe`: `Spec => ResponseSettles`, from the same invariant.
  - Lemma `QuietCall` covers the calls a step leaves alone, and open calls
    while the loop runs.
  - Lemma `AppendPrefix` covers the appending steps.

### The core model (`GrpcServerProofs.tla`)

The proofs use the `ASSUME`s of `GrpcServer.tla` and `GrpcWire.tla`:

- `Registry` is a sequence of methods;
- `MaxReq ∈ Nat` and `MaxItems ≥ 1`;
- the status codes are in 1..16;
- the starter is sync or pool;
- `NoStatus` is not a number;
- `NoCrash` is not a crash record.

The theorems:

- `TypeCorrect`: `Spec => []TypeOK`.
  - `TypeOK` is inductive.
  - Lemma `FindMethodType` shows that `SelectInSeq` returns an index in
    `0..Len(Registry)`. It uses the well-founded minimum (`WFMin`) over `Nat`.
  - Lemmas on `Parts`, `Append`, `Crash`, `HeadTaskPanic` and `HandleMethod`
    keep the per-action steps small.
- `ResponseRefinement`: `Spec => ImplementsResponse`. It holds for every
  registry, bound and starter, so both starters implement the same abstract
  response.
  - Each step maps to an abstract step or a stutter:
    - `RejectRequest` is `Refuse`.
    - `StartRequest`, `PoolTask`, the client actions, `StreamSingle` and
      `HandlerHead` keep the call `open` and are stutters, or `Die` when they
      panic on the loop. A panic stored in a pool future is a stutter; it
      becomes `Die` in `PollHead`.
    - `PollHead` is `Begin`, `Fail` or `Die`.
    - `PollItem` is `Emit`, `Finish` or `Die`.
  - `Begin` and `Fail` set the wire to one part, while `PollHead` appends
    one. So the proof needs the invariant `WireEmptyBeforeBody`: an `idle`,
    `queued` or `head` call has sent nothing. Lemmas `InitWire` and
    `NextWire` show it is inductive together with `TypeOK`.
  - Lemma `CrashKills` shows that a panic on the loop makes `Alive` false.
    It rests on `NoCrashAssumption`.

### The interop server (`InteropServiceProofs.tla`)

The proofs use `InteropAssumption`:

- the methods are among the seven;
- `0` is a code;
- codes and sizes are i32 values;
- payload lengths are in `0..2^31-1`;
- the bounds are naturals.

The theorems:

- `InteropTypeCorrect`: `Spec => []TypeOK`.
  - `TypeOK` is not inductive on its own. `Emit` turns an error result into
    `ErrorPart(v)`, and that part is in `Parts` only when `v` is one of
    `Codes`.
  - The inductive invariant is `ResponseIInv`, which is `TypeOK` and
    `PendingErrorsCoded`: every error result waiting in the handler's stream
    carries a requested non-zero code or no status (`RaisedStatuses`). TLC
    checked it as a run invariant first.
  - Lemmas on the operators carry the steps:
    - `RequestFields` gives the field types of any request;
    - `LazyResultsType` shows that the closures and `flatten`'s inner streams
      yield coded results;
    - `TailCoded` shows that yielding a head leaves a coded sequence;
    - `FoldType` shows that the fold stays an i32, with or without the wrap.
  - `I32Bounds` states the i32 bounds once. Expanded, the ranges
    `MinI32..MaxI32` would be literal intervals that the prover enumerates.
- `InteropRefinement`: `Spec => ImplementsResponse`.
  - Each step maps to an abstract step or a stutter:
    - `SingleHead` is `Fail` when `stream_single` fails, `Begin` when it
      resolves, and `Die` when `f` panics.
    - `EagerHead` is `Begin`.
    - The client actions (`InputError` among them), `FoldEnd`, `DuplexNext` and `DuplexEnd` are
      stutters. `FoldStep` is a stutter, or `Die` on a debug-build overflow.
    - `Emit` is `Emit`, or `Die` when `make_string` panics.
    - `Finish` is `Finish`.
  - The same `ResponseIInv` gives the one fact the mapping needs: an error
    trailer carries a status of `RaisedStatuses`, the abstract `ErrStatuses`.
  - The proof found that the `CASE` of `LazyResults` had overlapping arms.
    When `unary_call` had a non-zero code, both the error arm and the
    payload arm were true. TLA+ leaves such a `CASE` unspecified, and only
    TLC's first-match evaluation chose the error. The payload arm now
    requires `code = 0`, as the code's `if ... else` does.

## Only model-checked

These are only model-checked:

- The liveness properties `CallCompletes` and `CallEnds`. TLAPS does not
  handle liveness under fairness.
- `MakeStringMatchesRef`. It says that `MakeString(n)` equals the recursive
  `RepeatDictionary[n]` for each size sent. Proving it for every `n` is
  induction over the data. The library's induction theorems take an operator
  as a parameter, and the installed provers cannot instantiate that.
- `ResponsesMatchRequests`, for the same reason. `Asked` is a `FlattenSeq`,
  and `ItemValues` is a `SelectSeq`. Both are recursive functions over the
  sequence, and a step of the invariant needs what they return for a prefix
  one longer.

## Not modelled

- The frame codec, the metadata mapper and the protobuf marshallers. Their
  code is not in `src/`, and they are abstracted to their outcomes: a message,
  an end or an error on input, and the 500 early return for bad metadata.
  In the interop model the request stream's error is one outcome
  (`InputError`); the deframer is assumed to yield nothing after it. A
  request that fails to unmarshal is the same outcome, so the interop model
  does not tell the two apart.
- The HTTP/2 transport, apart from polling and its event loop.
- `main()` of the interop server. It only starts the server and parks the
  thread.
- The interop handlers under several concurrent calls. They share no state,
  so their interleavings are those `GrpcServer` already checks with the
  abstract handler.
