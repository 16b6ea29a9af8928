------------------------------ MODULE GrpcWire ------------------------------
(***************************************************************************)
(* The HTTP response parts GrpcHttpService::start_request (src/src/        *)
(* server.rs) produces for a gRPC call, shared by the server pipeline and *)
(* by the interop handlers composed with it.  A part is a record: its      *)
(* kind and the grpc-status it carries (NoStatus for none).  Header        *)
(* wording, metadata and payload bytes are left out.                       *)
(***************************************************************************)
EXTENDS Integers

CONSTANT NoStatus   \* model value: a header block without grpc-status

ASSUME StatusAssumption == NoStatus \notin Int

(* gRPC status codes the code and the spec use. *)
StatusOk            == 0
StatusUnimplemented == 12
StatusInternal      == 13

Headers200      == [k |-> "headers", st |-> NoStatus]
DataPart        == [k |-> "data", st |-> NoStatus]
Trailers(s)     == [k |-> "trailers", st |-> s]
TrailersOnly(s) == [k |-> "trailersOnly", st |-> s]
Reset           == [k |-> "reset", st |-> NoStatus]

\* Mutant of ErrorPart: without then(), a stream error fails the response.
ErrorPartReset(s) == Reset

\* Mutant of ErrorPart: the error sent as intermediate headers, not as the
\* last header block.
ErrorPartIntermediate(s) == [k |-> "headers", st |-> s]

\* then() in start_request turns a stream error into a last_headers part.
ErrorPart(s) == Trailers(s)

=============================================================================
