--------------------------- MODULE InteropService ---------------------------
(***************************************************************************)
(* One call to the interop test server (src/interop/src/bin/              *)
(* interop_server.rs): the concrete TestServerImpl handlers, behind the    *)
(* method adapters and the HTTP bridge of src/src/server.rs.  Where the    *)
(* core model GrpcServer lets a handler do anything, here each handler     *)
(* does what its code does with the request the client sends.             *)
(*                                                                         *)
(* A request is a record of the fields the handlers read: response_status *)
(* code, response_size, the sizes of response_parameters and the length   *)
(* of the payload body.  A response item is abstracted to the one number  *)
(* the handlers compute for it: a payload size, or aggregated_payload_size.*)
(* Calls are independent of each other in this server (the core model     *)
(* checks their interleaving), so the model has one call; the crash of    *)
(* the event loop (alive) is what one call can do to all the others.     *)
(***************************************************************************)
EXTENDS Integers, Sequences, SequencesExt, GrpcWire

CONSTANTS
  Methods,    \* the TestService methods a client may call
  Codes,      \* response_status.code values a client may ask for (0 = none)
  Sizes,      \* response_size / response_parameters.size values (i32)
  Lens,       \* payload body lengths of streaming_input_call requests
  MaxReq,     \* bound on request messages a client sends
  MaxSizes    \* bound on the length of response_parameters

MaxI32 == 2147483647
MinI32 == -MaxI32 - 1

AllMethods == {"empty_call", "unary_call", "cacheable_unary_call",
               "streaming_output_call", "streaming_input_call",
               "full_duplex_call", "half_duplex_call"}

ASSUME InteropAssumption ==
  /\ Methods \subseteq AllMethods
  /\ 0 \in Codes /\ Codes \subseteq MinI32..MaxI32
  /\ Sizes \subseteq MinI32..MaxI32
  /\ Lens \subseteq 0..MaxI32
  /\ {MaxReq, MaxSizes} \subseteq Nat

(***************************************************************************)
(* make_string: size bytes, the n-th being DICTIONARY[n % DICTIONARY_SIZE], *)
(* where DICTIONARY_SIZE was counted by hand.                             *)
(***************************************************************************)
Dictionary == <<"A","B","C","D","E","F","G","H","I","J","K","L","M","N","O",
                "P","Q","R","S","T","U","V","a","b","c","d","e","f","g","h",
                "i","j","k","l","m","n","o","q","p","r","s","t","u","v","w",
                "x","y","z","0","1","2","3","4","5","6","7","8","9">>

\* Mutant of DictionarySize: the hand count one short.
DictionarySizeMiscount == 57

DictionarySize == 58

MakeString(size) == [n \in 1..size |-> Dictionary[((n - 1) % DictionarySize) + 1]]

\* Reference: the dictionary repeated, then cut to size.
RepeatDictionary[size \in Nat] ==
  IF size <= Len(Dictionary) THEN SubSeq(Dictionary, 1, size)
  ELSE Dictionary \o RepeatDictionary[size - Len(Dictionary)]

(***************************************************************************)
(* `a + b` on i32 for b >= 0 (the fold of streaming_input_call, whose      *)
(* lengths are `len() as i32`): it wraps in a release build and panics in *)
(* a debug build when the sum leaves the i32 range.                        *)
(***************************************************************************)
I32Overflows(a, b) == a > MaxI32 - b
I32Wrap(a, b) == (a - MaxI32 - 1) + (b - MaxI32 - 1)

\* The requests a client of method m sends: only the fields m reads vary.
Requests(m) ==
  CASE m = "unary_call" \/ m = "cacheable_unary_call" ->
         [code : Codes, size : Sizes, sizes : {<<>>}, len : {0}]
    [] m = "streaming_output_call" ->
         [code : {0}, size : {0}, sizes : SeqOf(Sizes, MaxSizes), len : {0}]
    [] m = "streaming_input_call" ->
         [code : {0}, size : {0}, sizes : {<<>>}, len : Lens]
    [] m = "full_duplex_call" ->
         [code : Codes, size : {0}, sizes : SeqOf(Sizes, MaxSizes), len : {0}]
    [] OTHER ->
         [code : {0}, size : {0}, sizes : {<<>>}, len : {0}]

Item(v)   == [k |-> "item", v |-> v]
Error(st) == [k |-> "error", v |-> st]

\* The error a failed request stream yields (a reset, a malformed frame, or
\* a message req_marshaller.read cannot decode): never Error::GrpcMessage,
\* so then() gives its trailers no grpc-status.
InputFailure == Error(NoStatus)
Items(sizes) == [i \in DOMAIN sizes |-> Item(sizes[i])]

\* The methods whose items are built by make_string when the stream is polled.
MakesString == {"streaming_output_call", "full_duplex_call"}

LazyMethods == {"empty_call", "unary_call", "cacheable_unary_call",
                "streaming_output_call"}

\* The statuses of the error results a handler's stream can yield: a
\* response_status code the handlers raise (they test code != 0), or none.
RaisedStatuses == (Codes \ {0}) \cup {NoStatus}

Parts == {Headers200, DataPart, Reset, Trailers(StatusOk)}
           \cup {Trailers(s) : s \in Codes \cup {NoStatus}}

VARIABLES
  alive,    \* the transport's event loop is running
  m,        \* the method the call's :path names
  reqs,     \* the request messages the client has sent
  reqSt,    \* "open", "end" or "error": the client's request stream
  read,     \* request messages the handler has consumed
  ph,       \* "head", "body" or "done": what the transport polls
  pending,  \* results the handler's stream has ready to yield
  src,      \* "open" or "done": more results may still be made
  acc,      \* the running i32 sum of streaming_input_call
  out,      \* the numbers carried by the data parts sent so far
  wire      \* the HTTP response parts

vars == <<alive, m, reqs, reqSt, read, ph, pending, src, acc, out, wire>>

\* An item carries a number; an error a status, or none.
Results == [k : {"item"}, v : Int] \cup [k : {"error"}, v : Int \cup {NoStatus}]

TypeOK ==
  /\ alive \in BOOLEAN
  /\ m \in Methods
  /\ reqs \in Seq(Requests(m)) /\ Len(reqs) <= MaxReq
  /\ reqSt \in {"open", "end", "error"}
  /\ read \in 0..Len(reqs)
  /\ ph \in {"head", "body", "done"}
  /\ pending \in Seq(Results)
  /\ src \in {"open", "done"}
  /\ acc \in MinI32..MaxI32
  /\ out \in Seq(Int)
  /\ wire \in Seq(Parts)

\* main(): the server is up; the call was dispatched to the method of its path.
Init ==
  /\ alive = TRUE
  /\ m \in Methods
  /\ reqs = <<>>
  /\ reqSt = "open"
  /\ read = 0
  /\ ph = "head"
  /\ pending = <<>>
  /\ src = "open"
  /\ acc = 0
  /\ out = <<>>
  /\ wire = <<>>
-----------------------------------------------------------------------------
ClientSend ==
  /\ alive /\ ph # "done" /\ reqSt = "open"
  /\ Len(reqs) < MaxReq
  /\ \E r \in Requests(m) : reqs' = Append(reqs, r)
  /\ UNCHANGED <<alive, m, reqSt, read, ph, pending, src, acc, out, wire>>

ClientEnd ==
  /\ alive /\ ph # "done" /\ reqSt = "open"
  /\ reqSt' = "end"
  /\ UNCHANGED <<alive, m, reqs, read, ph, pending, src, acc, out, wire>>

\* The request stream fails (GrpcFrameFromHttpFramesStreamRequest, or
\* req_marshaller.read in MethodHandlerDispatchImpl) and yields no more.
InputError ==
  /\ alive /\ ph # "done" /\ reqSt = "open"
  /\ reqSt' = "error"
  /\ UNCHANGED <<alive, m, reqs, read, ph, pending, src, acc, out, wire>>

Crash == alive' = FALSE

(***************************************************************************)
(* The closures of the lazy (unary and server-streaming) methods, called  *)
(* by stream_single(..).and_then(f) with the one request r.  They return   *)
(* the results the response will yield.  empty_call and                   *)
(* cacheable_unary_call complete with an empty message; unary_call fails   *)
(* with the requested status, or builds make_string(response_size);        *)
(* streaming_output_call yields one make_string per response parameter.   *)
(***************************************************************************)
LazyResults(r) ==
  CASE m = "unary_call" /\ r.code # 0 -> <<Error(r.code)>>
    [] m = "unary_call" /\ r.code = 0 -> <<Item(r.size)>>
    [] m = "streaming_output_call"    -> Items(r.sizes)
    [] OTHER                          -> <<Item(0)>>

\* unary_call runs make_string inside f; with a negative size, `as usize`
\* asks with_capacity for more than can exist and it panics.
PanicsInF(r) == m = "unary_call" /\ r.code = 0 /\ r.size < 0

(***************************************************************************)
(* The head future of a lazy method: stream_single fails it on a second   *)
(* request, an input error or an empty stream (the response fails); on    *)
(* one request and the end it calls f, whose SingleResponse or            *)
(* StreamingResponse resolves its head at once with no metadata.          *)
(***************************************************************************)
SingleHead ==
  /\ alive /\ ph = "head" /\ m \in LazyMethods
  /\ \/ /\ Len(reqs) >= 2 \/ reqSt = "error" \/ (reqSt = "end" /\ reqs = <<>>)
        /\ wire' = <<Reset>>
        /\ ph' = "done"
        /\ UNCHANGED <<alive, read, pending, src>>
     \/ /\ reqSt = "end" /\ Len(reqs) = 1
        /\ read' = 1
        /\ \/ /\ PanicsInF(reqs[1])
              /\ Crash
              /\ UNCHANGED <<ph, pending, src, wire>>
           \/ /\ ~PanicsInF(reqs[1])
              /\ pending' = LazyResults(reqs[1])
              /\ src' = "done"
              /\ wire' = <<Headers200>>
              /\ ph' = "body"
              /\ UNCHANGED alive
  /\ UNCHANGED <<m, reqs, reqSt, acc, out>>

\* Mutant of EagerHead: StreamingResponse::empty() taken for a stream
\* that waits on the requests.
EagerHeadOpen ==
  /\ alive /\ ph = "head" /\ m \notin LazyMethods
  /\ wire' = <<Headers200>>
  /\ ph' = "body"
  /\ src' = "open"
  /\ UNCHANGED <<alive, m, reqs, reqSt, read, pending, acc, out>>

\* The eager methods call f inside handle(); f returns no_metadata(..) or
\* StreamingResponse::empty(), whose head resolves at once.
EagerHead ==
  /\ alive /\ ph = "head" /\ m \notin LazyMethods
  /\ wire' = <<Headers200>>
  /\ ph' = "body"
  /\ src' = IF m = "half_duplex_call" THEN "done" ELSE "open"
  /\ UNCHANGED <<alive, m, reqs, reqSt, read, pending, acc, out>>

(***************************************************************************)
(* streaming_input_call: req_stream.map(len as i32).fold(0, a + b), the   *)
(* response's one item, is polled when the transport polls the body.  An  *)
(* error of the request stream fails the fold: the one result is it.      *)
(***************************************************************************)
FoldStep ==
  /\ alive /\ ph = "body" /\ m = "streaming_input_call" /\ src = "open"
  /\ read < Len(reqs)
  /\ read' = read + 1
  /\ LET b == reqs[read + 1].len IN
       \/ /\ ~I32Overflows(acc, b)
          /\ acc' = acc + b
          /\ UNCHANGED alive
       \/ /\ I32Overflows(acc, b)
          /\ \/ acc' = I32Wrap(acc, b) /\ UNCHANGED alive   \* release build
             \/ Crash /\ UNCHANGED acc                      \* debug build
  /\ UNCHANGED <<m, reqs, reqSt, ph, pending, src, out, wire>>

FoldEnd ==
  /\ alive /\ ph = "body" /\ m = "streaming_input_call" /\ src = "open"
  /\ read = Len(reqs)
  /\ \/ reqSt = "end" /\ pending' = <<Item(acc)>>
     \/ reqSt = "error" /\ pending' = <<InputFailure>>
  /\ src' = "done"
  /\ UNCHANGED <<alive, m, reqs, reqSt, read, ph, acc, out, wire>>

(***************************************************************************)
(* full_duplex_call: req_stream.map(..).flatten().  Once the inner stream *)
(* of one request is drained, flatten takes the next request: one error    *)
(* item for a response_status code, else one item per response parameter. *)
(* An error of the request stream is passed on by flatten, and then the   *)
(* stream, which yields no more, ends.                                    *)
(***************************************************************************)
\* Mutant of DuplexResults: the response_status check dropped.
DuplexResultsNoStatus(r) == Items(r.sizes)

DuplexResults(r) == IF r.code # 0 THEN <<Error(r.code)>> ELSE Items(r.sizes)

DuplexNext ==
  /\ alive /\ ph = "body" /\ m = "full_duplex_call" /\ src = "open"
  /\ pending = <<>> /\ read < Len(reqs)
  /\ read' = read + 1
  /\ pending' = DuplexResults(reqs[read + 1])
  /\ UNCHANGED <<alive, m, reqs, reqSt, ph, src, acc, out, wire>>

DuplexEnd ==
  /\ alive /\ ph = "body" /\ m = "full_duplex_call" /\ src = "open"
  /\ pending = <<>> /\ read = Len(reqs)
  /\ \/ reqSt = "end" /\ UNCHANGED pending
     \/ reqSt = "error" /\ pending' = <<InputFailure>>
  /\ src' = "done"
  /\ UNCHANGED <<alive, m, reqs, reqSt, read, ph, acc, out, wire>>

(***************************************************************************)
(* The bridge polls s2: an item becomes a data part (make_string runs in   *)
(* the map of streaming_output_call and full_duplex_call, so a negative    *)
(* size panics on the transport), an error a trailer block with its        *)
(* status (none unless Error::GrpcMessage), and s2 goes on.  When s2 ends, s3 adds grpc-status 0. *)
(***************************************************************************)
Emit ==
  /\ alive /\ ph = "body" /\ pending # <<>>
  /\ LET x == Head(pending) IN
       \/ /\ x.k = "item" /\ (x.v >= 0 \/ m \notin MakesString)
          /\ wire' = Append(wire, DataPart)
          /\ out' = Append(out, x.v)
          /\ pending' = Tail(pending)
          /\ UNCHANGED alive
       \/ /\ x.k = "item" /\ x.v < 0 /\ m \in MakesString
          /\ Crash
          /\ UNCHANGED <<wire, out, pending>>
       \/ /\ x.k = "error"
          /\ wire' = Append(wire, ErrorPart(x.v))
          /\ pending' = Tail(pending)
          /\ UNCHANGED <<alive, out>>
  /\ UNCHANGED <<m, reqs, reqSt, read, ph, src, acc>>

Finish ==
  /\ alive /\ ph = "body" /\ pending = <<>> /\ src = "done"
  /\ wire' = Append(wire, Trailers(StatusOk))
  /\ ph' = "done"
  /\ UNCHANGED <<alive, m, reqs, reqSt, read, pending, src, acc, out>>

Next ==
  \/ ClientSend \/ ClientEnd \/ InputError
  \/ SingleHead \/ EagerHead
  \/ FoldStep \/ FoldEnd \/ DuplexNext \/ DuplexEnd
  \/ Emit \/ Finish

\* The transport polls whatever is ready; the client owes nothing.
Fairness ==
  /\ WF_vars(SingleHead) /\ WF_vars(EagerHead)
  /\ WF_vars(FoldStep) /\ WF_vars(FoldEnd)
  /\ WF_vars(DuplexNext) /\ WF_vars(DuplexEnd)
  /\ WF_vars(Emit) /\ WF_vars(Finish)

Spec == Init /\ [][Next]_vars /\ Fairness

(***************************************************************************)
(* The call seen as a GrpcResponse: the head phase is open, the body      *)
(* streaming, done closed.  No interop method is refused before its head, *)
(* and an error trailer carries a non-zero code a client asked for, or no *)
(* grpc-status at all for a failed request stream.                        *)
(***************************************************************************)
TheCall == "call"

ResponseStage == CASE ph = "head" -> "open"
                   [] ph = "body" -> "streaming"
                   [] ph = "done" -> "closed"

Response == INSTANCE GrpcResponse
              WITH Calls <- {TheCall}, EarlyStatuses <- {}, ErrStatuses <- RaisedStatuses,
                   alive <- alive,
                   stage <- [x \in {TheCall} |-> ResponseStage],
                   wire <- [x \in {TheCall} |-> wire]

(***************************************************************************)
(* The strengthening the type invariant and the refinement need: every    *)
(* error result waiting in the handler's stream carries a non-zero code a *)
(* request asked for (the handlers test code != 0) or, for a failed       *)
(* request stream, no status, so the trailers it becomes are a part of    *)
(* the wire and an error trailer GrpcResponse allows, never one that      *)
(* reads as grpc-status 0.                                                *)
(***************************************************************************)
PendingErrorsCoded ==
  \A i \in DOMAIN pending : pending[i].k = "error" => pending[i].v \in RaisedStatuses

ResponseIInv == TypeOK /\ PendingErrorsCoded

-----------------------------------------------------------------------------
(***************************************************************************)
(* Properties.                                                             *)
(***************************************************************************)

(* Every payload streaming_output_call and full_duplex_call have sent,   *)
(* built by make_string with DICTIONARY_SIZE counted by hand, is the      *)
(* dictionary repeated and cut to the requested size.                     *)
MakeStringMatchesRef ==
  m \in MakesString =>
    \A i \in DOMAIN out : MakeString(out[i]) = RepeatDictionary[out[i]]

\* The payload sizes of the item results in a sequence of results.
ItemValues(s) ==
  LET items == SelectSeq(s, LAMBDA x : x.k = "item") IN
  [i \in DOMAIN items |-> items[i].v]

\* The sizes the first n requests ask for, in order; none for a status.
Asked(n) ==
  FlattenSeq([i \in 1..n |-> IF reqs[i].code = 0 THEN reqs[i].sizes ELSE <<>>])

(***************************************************************************)
(* streaming_output_call and full_duplex_call answer the requests they    *)
(* have read with exactly the sizes asked for, in request order: the data *)
(* sent so far followed by the results flatten holds are the sizes of the *)
(* requests read, however the client's sends and the transport's polls    *)
(* interleave.                                                             *)
(***************************************************************************)
ResponsesMatchRequests ==
  m \in MakesString => out \o ItemValues(pending) = Asked(read)

(* A call whose request stream has ended or failed gets its whole         *)
(* response, unless the event loop has died.                               *)
CallEnds == (reqSt # "open") ~> (ph = "done" \/ ~alive)

(***************************************************************************)
(* TestServerImpl behind the adapters and the bridge keeps the promise of  *)
(* GrpcResponse: headers, then data and error trailers, then grpc-status  *)
(* 0, or a reset; nothing after the close, and nothing once the loop died. *)
(***************************************************************************)
ImplementsResponse == Response!Spec

(* Spec 8, scenario 6: after the trailers of a full_duplex_call request's *)
(* status, no further data is sent.                                       *)
DuplexStopsAtError ==
  \A i, j \in 1..Len(wire) :
    (i < j /\ wire[i].k = "trailers" /\ wire[i].st # StatusOk) => wire[j] # DataPart

(* Spec 8, scenario 5: aggregated_payload_size is the sum of the lengths: *)
(* adding a request's length never makes the running sum smaller.         *)
AggregateGrows == [][acc' >= acc]_acc

(* Spec 8 (panic containment): no request a client sends takes the        *)
(* server down.                                                            *)
ServerSurvives == alive

=============================================================================
