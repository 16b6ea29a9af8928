----------------------------- MODULE GrpcServer -----------------------------
(***************************************************************************)
(* The server-side call pipeline of grpc-rust (src/src/server.rs): the     *)
(* HTTP-to-gRPC bridge GrpcHttpService::start_request, the two call        *)
(* starters (inline CallStarterSync and CallStarterCpupool), the service   *)
(* registry ServerServiceDefinition, the type-erased dispatcher            *)
(* MethodHandlerDispatchImpl with its panic barrier, and the four method   *)
(* handler adapters.                                                       *)
(*                                                                         *)
(* Every call is a lazy pipeline.  Nothing happens until somebody polls    *)
(* it: the transport polls the response (first its head future, then its  *)
(* part stream), and under the pool starter a pool task drives the head    *)
(* future.  The client feeds the request stream at its own pace.  A panic  *)
(* that unwinds out of a future polled by the transport's event loop ends  *)
(* that loop, and with it every call of the server (variable crash).       *)
(*                                                                         *)
(* The user handler is left abstract: wherever the code calls it or polls *)
(* a stream it returned, the model lets it do anything a handler of that  *)
(* flavour can do (yield, fail with a gRPC status or another error, end,  *)
(* panic), within the bound MaxItems.                                      *)
(***************************************************************************)
EXTENDS Integers, Sequences, SequencesExt, GrpcWire

CONSTANTS
  Calls,      \* the HTTP/2 streams (calls) the server receives
  Registry,   \* ServerServiceDefinition.methods: the (joined) method list
  Paths,      \* the :path values clients send; may name unregistered methods
  ErrCodes,   \* the grpc_status codes handlers signal with Error::GrpcMessage
  MaxReq,     \* bound on request messages a client sends on one call
  MaxItems,   \* bound on results a streaming response yields
  Starter,    \* "sync" (Server::new) or "pool" (Server::new_pool)
  NoPath,     \* model value: the request has no :path header
  NoCrash     \* model value: the transport's event loop is running

Flavors == {"unary", "client_streaming", "server_streaming", "bidi"}

\* One ServerMethod: its name and the streaming flavour of its handler.
ServerMethods == [name : Paths, flavor : Flavors]

ASSUME CallsAssumption    == Calls # {} /\ NoCrash \notin Calls
ASSUME RegistryAssumption == Registry \in Seq(ServerMethods)
ASSUME PathsAssumption    == NoPath \notin Paths
ASSUME ErrCodesAssumption == ErrCodes \subseteq 1..16
ASSUME BoundsAssumption   == MaxReq \in Nat /\ MaxItems \in Nat \ {0}
ASSUME StarterAssumption  == Starter \in {"sync", "pool"}

(***************************************************************************)
(* ServerServiceDefinition::join: the method lists of the joined           *)
(* definitions, concatenated in order, without removing duplicates.        *)
(***************************************************************************)
Join(services) == FlattenSeq(services)

(***************************************************************************)
(* find_method: the FIRST method whose name equals the path, 0 when there  *)
(* is none (the code then panics in expect("unknown method")).             *)
(***************************************************************************)
FindMethod(p) == SelectInSeq(Registry, LAMBDA m : m.name = p)

(***************************************************************************)
(* The adapters.  MethodHandlerUnary and MethodHandlerServerStreaming only *)
(* build stream_single(req).and_then(f) inside handle(): the user closure  *)
(* f runs later, when the head future is polled.  MethodHandlerClient-     *)
(* Streaming and MethodHandlerBidi call f inside handle().  Unary and      *)
(* client-streaming handlers return a SingleResponse, whose into_stream()  *)
(* yields exactly one result.                                              *)
(***************************************************************************)
LazyFlavors   == {"unary", "server_streaming"}
EagerFlavors  == {"client_streaming", "bidi"}
SingleFlavors == {"unary", "client_streaming"}

\* Where a panic can come from.
CrashCauses == {"unknown_method", "handler", "stream"}

ASSUME NoCrashAssumption == NoCrash \notin [call : Calls, cause : CrashCauses]

\* The parts of an HTTP response (module GrpcWire) this server can produce.
Statuses == {StatusOk, StatusUnimplemented, StatusInternal, NoStatus} \cup ErrCodes
Parts    == {Headers200, DataPart, Reset}
              \cup {Trailers(s) : s \in Statuses}
              \cup {TrailersOnly(s) : s \in Statuses}

Phases == {"idle", "queued", "head", "body", "done"}

\* The response head future: pending, resolved, failed, or holding a panic
\* that a pool thread caught and that resumes where the future is polled.
HeadResults == {"pending", "ok", "err"} \cup CrashCauses

VARIABLES
  crash,    \* NoCrash, or the call and cause of the panic that ended the loop
  ph,       \* ph[c]: where call c's pipeline is
  path,     \* path[c]: the :path header of call c
  disp,     \* disp[c]: index in Registry of the method call c dispatched to
  reqN,     \* reqN[c]: request messages the client has sent
  reqSt,    \* reqSt[c]: "open", "end" or "error" (reset, bad frame, bad message)
  head,     \* head[c]: the state of the response head future
  outN,     \* outN[c]: results the response stream has yielded
  wire      \* wire[c]: the HTTP response parts produced for call c

vars == <<crash, ph, path, disp, reqN, reqSt, head, outN, wire>>

Alive == crash = NoCrash

Flavor(c) == Registry[disp[c]].flavor

\* Mutant of OutBound: one result too many for every flavour.
OutBoundOffByOne(c) == IF Flavor(c) \in SingleFlavors THEN 2 ELSE MaxItems + 1

\* The number of results the response stream of call c may yield.
OutBound(c) == IF Flavor(c) \in SingleFlavors THEN 1 ELSE MaxItems

TypeOK ==
  /\ crash \in {NoCrash} \cup [call : Calls, cause : CrashCauses]
  /\ ph \in [Calls -> Phases]
  /\ path \in [Calls -> Paths \cup {NoPath}]
  /\ disp \in [Calls -> 0..Len(Registry)]
  /\ reqN \in [Calls -> 0..MaxReq]
  /\ reqSt \in [Calls -> {"open", "end", "error"}]
  /\ head \in [Calls -> HeadResults]
  /\ outN \in [Calls -> 0..MaxItems]
  /\ wire \in [Calls -> Seq(Parts)]

Init ==
  /\ crash = NoCrash
  /\ ph = [c \in Calls |-> "idle"]
  /\ path = [c \in Calls |-> NoPath]
  /\ disp = [c \in Calls |-> 0]
  /\ reqN = [c \in Calls |-> 0]
  /\ reqSt = [c \in Calls |-> "open"]
  /\ head = [c \in Calls |-> "pending"]
  /\ outN = [c \in Calls |-> 0]
  /\ wire = [c \in Calls |-> <<>>]

-----------------------------------------------------------------------------
(***************************************************************************)
(* Panics.  One that unwinds on the transport's event loop ends it.  One   *)
(* raised while the head future is computed is raised on the transport    *)
(* under the sync starter; under the pool starter it is raised on a pool   *)
(* thread, caught by the pool, and stored in the head future, to resume    *)
(* when the transport polls it.                                            *)
(***************************************************************************)
Crash(c, cause) == crash' = [call |-> c, cause |-> cause]

HeadTaskPanic(c, cause) ==
  \/ /\ Starter = "sync"
     /\ Crash(c, cause)
     /\ UNCHANGED head
  \/ /\ Starter = "pool"
     /\ head' = [head EXCEPT ![c] = cause]
     /\ UNCHANGED crash

(***************************************************************************)
(* MethodHandlerDispatchImpl::start_request for the method at index i: the *)
(* handler's handle() runs inside catch_unwind.  For the eager flavours it *)
(* calls f; a panic of f is caught and becomes StreamingResponse::err,     *)
(* whose head future fails.  The lazy flavours call nothing yet.           *)
(***************************************************************************)
Dispatch(c, i) ==
  /\ disp' = [disp EXCEPT ![c] = i]
  /\ ph' = [ph EXCEPT ![c] = "head"]
  /\ \/ /\ Registry[i].flavor \in LazyFlavors
        /\ UNCHANGED <<head, crash>>
     \/ /\ Registry[i].flavor \in EagerFlavors
        /\ \E r \in {"pending", "err"} : head' = [head EXCEPT ![c] = r]
        /\ UNCHANGED crash

(***************************************************************************)
(* ServerServiceDefinition::handle_method: find_method, then dispatch.  An *)
(* unknown name makes expect() panic.                                      *)
(***************************************************************************)
HandleMethod(c, p) ==
  \/ /\ FindMethod(p) = 0
     /\ HeadTaskPanic(c, "unknown_method")
     /\ ph' = [ph EXCEPT ![c] = "head"]
     /\ UNCHANGED disp
  \/ /\ FindMethod(p) # 0
     /\ Dispatch(c, FindMethod(p))

(***************************************************************************)
(* CallStarter::start.  CallStarterSync runs handle_method at once, on the *)
(* transport's task; CallStarterCpupool spawns a pool task for it.         *)
(***************************************************************************)
StartCall(c, p) ==
  \/ /\ Starter = "sync"
     /\ HandleMethod(c, p)
  \/ /\ Starter = "pool"
     /\ ph' = [ph EXCEPT ![c] = "queued"]
     /\ UNCHANGED <<disp, head, crash>>

(***************************************************************************)
(* GrpcHttpService::start_request, early returns: no :path header, or the  *)
(* metadata fails to decode.  http_response_500 answers with a single      *)
(* header block carrying :status 500 and grpc-message, and no grpc-status. *)
(* Both give the same response; the path of such a call plays no part.   *)
(***************************************************************************)
RejectRequest(c) ==
  /\ Alive
  /\ ph[c] = "idle"
  /\ ph' = [ph EXCEPT ![c] = "done"]
  /\ wire' = [wire EXCEPT ![c] = <<TrailersOnly(NoStatus)>>]
  /\ UNCHANGED <<crash, path, disp, reqN, reqSt, head, outN>>

(***************************************************************************)
(* GrpcHttpService::start_request with a :path and decodable metadata: it  *)
(* wraps the request body in the deframer and hands the call to the call   *)
(* starter.                                                                *)
(***************************************************************************)
StartRequest(c) ==
  /\ Alive
  /\ ph[c] = "idle"
  /\ \E p \in Paths :
       /\ path' = [path EXCEPT ![c] = p]
       /\ StartCall(c, p)
  /\ UNCHANGED <<reqN, reqSt, outN, wire>>

\* The pool task of CallStarterCpupool runs handle_method.
PoolTask(c) ==
  /\ Alive
  /\ ph[c] = "queued"
  /\ HandleMethod(c, path[c])
  /\ UNCHANGED <<path, reqN, reqSt, outN, wire>>

-----------------------------------------------------------------------------
(***************************************************************************)
(* The client side of the request stream (the HTTP/2 transport and the    *)
(* deframer GrpcFrameFromHttpFramesStreamRequest).  The stream ends        *)
(* cleanly, or with an error: RST_STREAM (StreamClosed), a malformed frame *)
(* (Protocol), or a message req_marshaller.read cannot decode.             *)
(***************************************************************************)
ClientSend(c) ==
  /\ Alive
  /\ ph[c] \notin {"idle", "done"}
  /\ reqSt[c] = "open"
  /\ reqN[c] < MaxReq
  /\ reqN' = [reqN EXCEPT ![c] = @ + 1]
  /\ UNCHANGED <<crash, ph, path, disp, reqSt, head, outN, wire>>

ClientEnd(c) ==
  /\ Alive
  /\ ph[c] \notin {"idle", "done"}
  /\ reqSt[c] = "open"
  /\ reqSt' = [reqSt EXCEPT ![c] = "end"]
  /\ UNCHANGED <<crash, ph, path, disp, reqN, head, outN, wire>>

InputError(c) ==
  /\ Alive
  /\ ph[c] \notin {"idle", "done"}
  /\ reqSt[c] = "open"
  /\ reqSt' = [reqSt EXCEPT ![c] = "error"]
  /\ UNCHANGED <<crash, ph, path, disp, reqN, head, outN, wire>>

-----------------------------------------------------------------------------
(***************************************************************************)
(* stream_single(req).and_then(f) of the unary and server-streaming        *)
(* adapters, polled as part of the head future.  It fails on a second     *)
(* request message, on an input error, and on an end with no message; on  *)
(* an end after exactly one message it calls f, whose response head then  *)
(* resolves or fails, unless f panics.                                     *)
(***************************************************************************)
\* Mutant of SingleFails: an empty request stream is not rejected.
SingleFailsNoEmpty(c) ==
  \/ reqN[c] >= 2
  \/ reqSt[c] = "error"

SingleFails(c) ==
  \/ reqN[c] >= 2
  \/ reqSt[c] = "error"
  \/ reqSt[c] = "end" /\ reqN[c] = 0

SingleReady(c) == reqSt[c] = "end" /\ reqN[c] = 1

StreamSingle(c) ==
  /\ Alive
  /\ ph[c] = "head"
  /\ disp[c] # 0
  /\ Flavor(c) \in LazyFlavors
  /\ head[c] = "pending"
  /\ \/ /\ SingleFails(c)
        /\ head' = [head EXCEPT ![c] = "err"]
        /\ UNCHANGED crash
     \/ /\ SingleReady(c)
        /\ \/ /\ \E r \in {"ok", "err"} : head' = [head EXCEPT ![c] = r]
              /\ UNCHANGED crash
           \/ HeadTaskPanic(c, "handler")
  /\ UNCHANGED <<ph, path, disp, reqN, reqSt, outN, wire>>

(***************************************************************************)
(* The head future of the response an eager (client-streaming or bidi)    *)
(* handler returned.  handle() has returned, so catch_unwind no longer    *)
(* guards it: it resolves, fails, or panics where it is polled -- on a    *)
(* pool thread under CallStarterCpupool (spawn_fn polls the future        *)
(* handle_method returns), on the transport under CallStarterSync.        *)
(***************************************************************************)
HandlerHead(c) ==
  /\ Alive
  /\ ph[c] = "head"
  /\ disp[c] # 0
  /\ Flavor(c) \in EagerFlavors
  /\ head[c] = "pending"
  /\ \/ /\ \E r \in {"ok", "err"} : head' = [head EXCEPT ![c] = r]
        /\ UNCHANGED crash
     \/ HeadTaskPanic(c, "handler")
  /\ UNCHANGED <<ph, path, disp, reqN, reqSt, outN, wire>>

(***************************************************************************)
(* The transport polls HttpResponse::new(grpc_response.0.map_err(..).map(  *)
(* ..)).  A resolved head gives :status 200 and content-type headers; a    *)
(* failed one fails the whole HTTP response (HttpError); a stored panic    *)
(* resumes on the transport.                                               *)
(***************************************************************************)
PollHead(c) ==
  /\ Alive
  /\ ph[c] = "head"
  /\ \/ /\ head[c] = "ok"
        /\ wire' = [wire EXCEPT ![c] = Append(@, Headers200)]
        /\ ph' = [ph EXCEPT ![c] = "body"]
        /\ UNCHANGED crash
     \/ /\ head[c] = "err"
        /\ wire' = [wire EXCEPT ![c] = Append(@, Reset)]
        /\ ph' = [ph EXCEPT ![c] = "done"]
        /\ UNCHANGED crash
     \/ /\ head[c] \in CrashCauses
        /\ Crash(c, head[c])
        /\ UNCHANGED <<wire, ph>>
  /\ UNCHANGED <<path, disp, reqN, reqSt, head, outN>>

(***************************************************************************)
(* The transport polls the part stream s2.chain(s3).  s2 is the handler's  *)
(* result stream: an item is encoded (resp_marshaller.write, then          *)
(* write_grpc_frame_to_vec) into a data part; an error is turned by then() *)
(* into a last_headers part -- grpc-status and grpc-message for            *)
(* Error::GrpcMessage, only a grpc-message for any other error -- and s2   *)
(* goes on.  When s2 ends, s3 yields the grpc-status 0 trailers.  A panic  *)
(* in the handler's stream unwinds on the transport.                       *)
(***************************************************************************)
PollItem(c) ==
  /\ Alive
  /\ ph[c] = "body"
  /\ \/ /\ outN[c] < OutBound(c)
        /\ \E part \in {DataPart} \cup {ErrorPart(s) : s \in ErrCodes \cup {NoStatus}} :
              wire' = [wire EXCEPT ![c] = Append(@, part)]
        /\ outN' = [outN EXCEPT ![c] = @ + 1]
        /\ UNCHANGED <<crash, ph>>
     \/ /\ Flavor(c) \in SingleFlavors => outN[c] = 1
        /\ wire' = [wire EXCEPT ![c] = Append(@, Trailers(StatusOk))]
        /\ ph' = [ph EXCEPT ![c] = "done"]
        /\ UNCHANGED <<crash, outN>>
     \/ /\ Crash(c, "stream")
        /\ UNCHANGED <<ph, outN, wire>>
  /\ UNCHANGED <<path, disp, reqN, reqSt, head>>

-----------------------------------------------------------------------------
Next ==
  \E c \in Calls :
    \/ RejectRequest(c)
    \/ StartRequest(c)
    \/ PoolTask(c)
    \/ ClientSend(c)
    \/ ClientEnd(c)
    \/ InputError(c)
    \/ StreamSingle(c)
    \/ HandlerHead(c)
    \/ PollHead(c)
    \/ PollItem(c)

(***************************************************************************)
(* Fairness: the transport's reactor polls every future and stream that is *)
(* ready, the pool runs every task it was given, and a handler's response  *)
(* makes progress.  The client is not assumed to do anything.             *)
(***************************************************************************)
Fairness ==
  \A c \in Calls :
    /\ WF_vars(PoolTask(c))
    /\ WF_vars(StreamSingle(c))
    /\ WF_vars(HandlerHead(c))
    /\ WF_vars(PollHead(c))
    /\ WF_vars(PollItem(c))

Spec == Init /\ [][Next]_vars /\ Fairness

-----------------------------------------------------------------------------
(***************************************************************************)
(* Properties the code keeps.                                              *)
(***************************************************************************)

(***************************************************************************)
(* The refinement: every call's response, seen as the abstract GrpcResponse *)
(* stage (open until the head is polled, streaming while the part stream   *)
(* is polled, closed once done), evolves as GrpcResponse allows, under     *)
(* either starter.  A trailers-only answer is only the 500 of              *)
(* http_response_500, without grpc-status.                                 *)
(***************************************************************************)
StageOf(x) ==
  CASE x \in {"idle", "queued", "head"} -> "open"
    [] x = "body"                       -> "streaming"
    [] OTHER                            -> "closed"

Stage(c) == StageOf(ph[c])

Response == INSTANCE GrpcResponse WITH
  alive <- Alive,
  stage <- [c \in Calls |-> Stage(c)],
  EarlyStatuses <- {NoStatus},
  ErrStatuses <- ErrCodes \cup {NoStatus}

(* GrpcServer implements GrpcResponse: the bridge, the starters and the   *)
(* handler adapters together only ever build responses of that shape.     *)
ImplementsResponse == Response!Spec

\* The strengthening the refinement needs: nothing is sent before the head.
WireEmptyBeforeBody ==
  \A c \in Calls : ph[c] \in {"idle", "queued", "head"} => wire[c] = <<>>

(***************************************************************************)
(* Every started call whose request stream has terminated gets a complete *)
(* response, unless the server loop dies first.                            *)
(***************************************************************************)
CallCompletes ==
  \A c \in Calls :
    (ph[c] # "idle" /\ reqSt[c] # "open") ~> (ph[c] = "done" \/ ~Alive)

-----------------------------------------------------------------------------
(***************************************************************************)
(* What the spec promises and the code does not do; each is checked in a  *)
(* run of its own, expected to be violated.                                *)
(***************************************************************************)

(* Spec 3 and 8: the trailers are the last header block of a response. *)
TrailersLast ==
  \A c \in Calls : \A i \in 1..Len(wire[c]) :
    wire[c][i].k = "trailers" => i = Len(wire[c])

(* Spec 4.4 and 8: a call to an unknown method is answered with trailers *)
(* carrying grpc-status 12, and the server keeps running.               *)
UnimplementedStatus ==
  \A c \in Calls :
    (path[c] \in Paths /\ ph[c] # "queued" /\ FindMethod(path[c]) = 0)
      => /\ Alive
         /\ ph[c] = "done" => wire[c] = <<TrailersOnly(StatusUnimplemented)>>

(* Spec 8: a unary call with zero or with two request messages is answered *)
(* with grpc-status 13.                                                     *)
ArityInternal ==
  \A c \in Calls :
    (/\ ph[c] = "done" /\ disp[c] # 0 /\ Flavor(c) = "unary"
     /\ (reqN[c] >= 2 \/ (reqSt[c] = "end" /\ reqN[c] = 0)))
      => \E i \in 1..Len(wire[c]) : wire[c][i].st = StatusInternal

(* Spec 4.6 and 7: every handler error reaches the client with a grpc-status *)
(* (2 for an error that is not Error::GrpcMessage).                         *)
ErrorsCarryStatus ==
  \A c \in Calls : \A i \in 1..Len(wire[c]) :
    wire[c][i].k = "trailers" => wire[c][i].st # NoStatus

(* Spec 8: a handler whose closure panics yields grpc-status 13 and the   *)
(* server remains accepting new calls: no panic of a handler closure ends *)
(* the server loop.                                                       *)
PanicContained == Alive \/ crash.cause # "handler"

(* Spec 3: of two methods registered under one name, the last one wins. *)
LastRegisteredWins ==
  \A c \in Calls :
    disp[c] # 0 => disp[c] = SelectLastInSeq(Registry, LAMBDA m : m.name = path[c])


=============================================================================
