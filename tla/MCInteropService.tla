-------------------------- MODULE MCInteropService --------------------------
(* Instances of InteropService for TLC. *)
EXTENDS InteropService

\* A payload length that overflows the i32 sum in two requests.
MCLens == {7, 1073741824}

\* A negative size (as usize, a capacity overflow) and one past the
\* 58-character dictionary, so make_string wraps around it.
MCSizes == {-1, 59}

\* Every method of TestService.
MCMethods == AllMethods

=============================================================================
