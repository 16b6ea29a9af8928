---------------------------- MODULE MCGrpcServer ----------------------------
(***************************************************************************)
(* A small instance of GrpcServer: two calls, one method of each flavour  *)
(* registered by two joined service definitions, and one path that no     *)
(* service registers.                                                     *)
(***************************************************************************)
EXTENDS GrpcServer

CONSTANTS mu, mc, ms, mb, mx

\* Two service definitions joined, as generated TestServiceServer code does.
MCRegistry ==
  Join(<< << [name |-> mu, flavor |-> "unary"],
             [name |-> mc, flavor |-> "client_streaming"] >>,
          << [name |-> ms, flavor |-> "server_streaming"],
             [name |-> mb, flavor |-> "bidi"] >> >>)

\* The same name registered by both joined definitions.
MCDupRegistry ==
  Join(<< << [name |-> mu, flavor |-> "unary"] >>,
          << [name |-> mu, flavor |-> "bidi"] >> >>)

MCPaths    == {mu, mc, ms, mb, mx}
MCKnown    == {mu, mc, ms, mb}
MCDupPaths == {mu}

\* A smaller registry for the pool starter: one lazy and one eager flavour.
MCPoolRegistry ==
  Join(<< << [name |-> mu, flavor |-> "unary"] >>,
          << [name |-> mb, flavor |-> "bidi"] >> >>)

MCPoolPaths == {mu, mb, mx}
=============================================================================
