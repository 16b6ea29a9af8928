---------------------------- MODULE GrpcResponse ----------------------------
(***************************************************************************)
(* What the server promises each call's HTTP response, as the bridge of    *)
(* src/src/server.rs builds it, stated without starters, registries or     *)
(* handlers.  A response is refused with one trailers-only block, fails   *)
(* (the transport resets the stream), or opens with the 200 headers,       *)
(* carries data and error trailer blocks, and is closed by grpc-status 0. *)
(* The event loop may die at any time; after that no response changes.    *)
(***************************************************************************)
EXTENDS Sequences, SequencesExt, SequenceTheorems, TLAPS, GrpcWire

CONSTANTS
  Calls,
  EarlyStatuses,  \* the grpc-status of a trailers-only answer
  ErrStatuses     \* the grpc-status of an error trailer block

VARIABLES
  alive,   \* the server's event loop is running
  stage,   \* stage[c]: "open", "streaming" or "closed"
  wire     \* wire[c]: the parts of call c's response

vars == <<alive, stage, wire>>

Init ==
  /\ alive = TRUE
  /\ stage = [c \in Calls |-> "open"]
  /\ wire = [c \in Calls |-> <<>>]

\* Open and close a response in one step: trailers-only or reset.
Refuse(c) ==
  /\ alive /\ stage[c] = "open"
  /\ \E s \in EarlyStatuses : wire' = [wire EXCEPT ![c] = <<TrailersOnly(s)>>]
  /\ stage' = [stage EXCEPT ![c] = "closed"]
  /\ UNCHANGED alive

Fail(c) ==
  /\ alive /\ stage[c] = "open"
  /\ wire' = [wire EXCEPT ![c] = <<Reset>>]
  /\ stage' = [stage EXCEPT ![c] = "closed"]
  /\ UNCHANGED alive

Begin(c) ==
  /\ alive /\ stage[c] = "open"
  /\ wire' = [wire EXCEPT ![c] = <<Headers200>>]
  /\ stage' = [stage EXCEPT ![c] = "streaming"]
  /\ UNCHANGED alive

Emit(c) ==
  /\ alive /\ stage[c] = "streaming"
  /\ \E p \in {DataPart} \cup {Trailers(s) : s \in ErrStatuses} :
       wire' = [wire EXCEPT ![c] = Append(@, p)]
  /\ UNCHANGED <<alive, stage>>

Finish(c) ==
  /\ alive /\ stage[c] = "streaming"
  /\ wire' = [wire EXCEPT ![c] = Append(@, Trailers(StatusOk))]
  /\ stage' = [stage EXCEPT ![c] = "closed"]
  /\ UNCHANGED alive

Die ==
  /\ alive
  /\ alive' = FALSE
  /\ UNCHANGED <<stage, wire>>

Next ==
  \/ \E c \in Calls : Refuse(c) \/ Fail(c) \/ Begin(c) \/ Emit(c) \/ Finish(c)
  \/ Die

Spec == Init /\ [][Next]_vars

-----------------------------------------------------------------------------
\* The parts a response may carry after its headers, before grpc-status 0.
BodyParts == {DataPart} \cup {Trailers(s) : s \in ErrStatuses}

\* Every part a response may carry.
AnyParts == {Headers200, Reset, Trailers(StatusOk)} \cup BodyParts
              \cup {TrailersOnly(s) : s \in EarlyStatuses}

TypeOK ==
  /\ alive \in BOOLEAN
  /\ stage \in [Calls -> {"open", "streaming", "closed"}]
  /\ wire \in [Calls -> Seq(AnyParts)]

\* w starts with the 200 headers, and its parts 2..n are body parts.
HeadersThenBody(w, n) ==
  Len(w) >= 1 /\ w[1] = Headers200 /\ \A i \in 2..n : w[i] \in BodyParts

\* The shape of call c's response at its stage.
CallShape(c) ==
  LET w == wire[c] IN
  /\ stage[c] = "open" => w = <<>>
  /\ stage[c] = "streaming" => HeadersThenBody(w, Len(w))
  /\ stage[c] = "closed" =>
       \/ w \in {<<TrailersOnly(s)>> : s \in EarlyStatuses} \cup {<<Reset>>}
       \/ /\ Len(w) >= 2 /\ HeadersThenBody(w, Len(w) - 1)
          /\ w[Len(w)] = Trailers(StatusOk)

(***************************************************************************)
(* Every call's response has the shape of its stage: nothing while open;  *)
(* the 200 headers, then data and error trailers, while streaming; once   *)
(* closed, a single trailers-only block, a single reset, or a streamed    *)
(* response closed by a last grpc-status 0 block.                          *)
(***************************************************************************)
ResponseShape == \A c \in Calls : CallShape(c)

(***************************************************************************)
(* What has been sent stays sent: a step only appends to a response that  *)
(* has begun, and leaves a closed response, and every response once the   *)
(* event loop has died, as it is.                                          *)
(***************************************************************************)
SettleStep ==
  \A c \in Calls :
    /\ stage[c] # "open" => IsPrefix(wire[c], wire'[c])
    /\ (stage[c] = "closed" \/ ~alive) => UNCHANGED <<stage[c], wire[c]>>

ResponseSettles == [][SettleStep]_vars
-----------------------------------------------------------------------------
(***************************************************************************)
(* Proofs, for every set of calls and statuses.  TypeOK and ResponseShape *)
(* are inductive together: each action changes one call's response, from *)
(* the shape of one stage to that of the next.                             *)
(***************************************************************************)
\* Appending to a response keeps its first n parts.
LEMMA AppendKeeps ==
  ASSUME NEW S, NEW w \in Seq(S), NEW p \in S, NEW n \in 0..Len(w),
         HeadersThenBody(w, n)
  PROVE  /\ HeadersThenBody(Append(w, p), n)
         /\ Len(Append(w, p)) = Len(w) + 1
         /\ Append(w, p)[Len(w) + 1] = p
BY AppendProperties DEF HeadersThenBody

\* A response is a prefix of itself and of what appending makes of it.
LEMMA AppendPrefix ==
  ASSUME NEW S, NEW w \in Seq(S), NEW p \in S
  PROVE  IsPrefix(w, w) /\ IsPrefix(w, Append(w, p))
BY AppendProperties DEF IsPrefix

\* The invariant the proofs carry.
ShapeIInv == TypeOK /\ ResponseShape

LEMMA InitShape == Init => ShapeIInv
BY DEF Init, ShapeIInv, TypeOK, ResponseShape, CallShape

LEMMA PartsFacts ==
  /\ Headers200 \in AnyParts /\ Reset \in AnyParts /\ Trailers(StatusOk) \in AnyParts
  /\ BodyParts \subseteq AnyParts
  /\ \A s \in EarlyStatuses : TrailersOnly(s) \in AnyParts
BY DEF AnyParts

\* A step that changes only call c, to a state where c has its shape.
LEMMA OneCall ==
  ASSUME ShapeIInv, NEW c \in Calls,
         alive' \in BOOLEAN,
         stage' = [stage EXCEPT ![c] = stage'[c]], wire' = [wire EXCEPT ![c] = wire'[c]],
         stage'[c] \in {"open", "streaming", "closed"}, wire'[c] \in Seq(AnyParts),
         CallShape(c)'
  PROVE  ShapeIInv'
BY DEF ShapeIInv, TypeOK, ResponseShape, CallShape

LEMMA NextShape == ShapeIInv /\ [Next]_vars => ShapeIInv'
<1> SUFFICES ASSUME ShapeIInv, [Next]_vars PROVE ShapeIInv'
  OBVIOUS
<1>0. TypeOK /\ ResponseShape
  BY DEF ShapeIInv
<1>1. ASSUME NEW c \in Calls, Refuse(c) PROVE ShapeIInv'
  <2>1. PICK s \in EarlyStatuses : wire' = [wire EXCEPT ![c] = <<TrailersOnly(s)>>]
    BY <1>1 DEF Refuse
  <2>2. <<TrailersOnly(s)>> \in Seq(AnyParts)
    BY PartsFacts
  <2>3. QED
    BY <1>0, <1>1, <2>1, <2>2, OneCall DEF Refuse, TypeOK, CallShape
<1>2. ASSUME NEW c \in Calls, Fail(c) PROVE ShapeIInv'
  <2>1. <<Reset>> \in Seq(AnyParts)
    BY PartsFacts
  <2>2. QED
    BY <1>0, <1>2, <2>1, OneCall DEF Fail, TypeOK, CallShape
<1>3. ASSUME NEW c \in Calls, Begin(c) PROVE ShapeIInv'
  <2>1. <<Headers200>> \in Seq(AnyParts)
    BY PartsFacts
  <2>2. HeadersThenBody(<<Headers200>>, 1)
    BY DEF HeadersThenBody
  <2>3. QED
    BY <1>0, <1>3, <2>1, <2>2, OneCall DEF Begin, TypeOK, CallShape
<1>4. ASSUME NEW c \in Calls, Emit(c) PROVE ShapeIInv'
  <2>1. PICK p \in {DataPart} \cup {Trailers(s) : s \in ErrStatuses} :
          wire' = [wire EXCEPT ![c] = Append(wire[c], p)]
    BY <1>4 DEF Emit
  <2>2. p \in BodyParts /\ p \in AnyParts
    BY PartsFacts DEF BodyParts
  <2>3. wire[c] \in Seq(AnyParts) /\ stage[c] = "streaming"
        /\ HeadersThenBody(wire[c], Len(wire[c]))
    BY <1>0, <1>4 DEF Emit, TypeOK, ResponseShape, CallShape
  <2>4. /\ HeadersThenBody(Append(wire[c], p), Len(wire[c]))
        /\ Len(Append(wire[c], p)) = Len(wire[c]) + 1
        /\ Append(wire[c], p)[Len(wire[c]) + 1] = p
        /\ Append(wire[c], p) \in Seq(AnyParts)
    BY <2>2, <2>3, AppendKeeps, AppendProperties
  <2>5. HeadersThenBody(Append(wire[c], p), Len(Append(wire[c], p)))
    BY <2>2, <2>4 DEF HeadersThenBody
  <2>6. QED
    BY <1>0, <1>4, <2>1, <2>3, <2>4, <2>5, OneCall DEF Emit, TypeOK, CallShape
<1>5. ASSUME NEW c \in Calls, Finish(c) PROVE ShapeIInv'
  <2> DEFINE w == Append(wire[c], Trailers(StatusOk))
  <2>1. wire[c] \in Seq(AnyParts) /\ stage[c] = "streaming"
        /\ HeadersThenBody(wire[c], Len(wire[c]))
    BY <1>0, <1>5 DEF Finish, TypeOK, ResponseShape, CallShape
  <2>2. /\ HeadersThenBody(w, Len(wire[c]))
        /\ Len(w) = Len(wire[c]) + 1
        /\ w[Len(wire[c]) + 1] = Trailers(StatusOk)
        /\ w \in Seq(AnyParts)
        /\ Len(wire[c]) >= 1
    BY <2>1, PartsFacts, AppendKeeps, AppendProperties DEF HeadersThenBody
  <2>3. Len(w) >= 2 /\ HeadersThenBody(w, Len(w) - 1) /\ w[Len(w)] = Trailers(StatusOk)
    BY <2>2
  <2>4. wire'[c] = w /\ stage'[c] = "closed"
        /\ stage' = [stage EXCEPT ![c] = stage'[c]] /\ wire' = [wire EXCEPT ![c] = wire'[c]]
    BY <1>0, <1>5 DEF Finish, TypeOK
  <2>5. CallShape(c)'
    BY <2>3, <2>4 DEF CallShape
  <2>6. QED
    BY <1>0, <1>5, <2>2, <2>4, <2>5, OneCall DEF Finish
<1>6. CASE Die
  BY <1>0, <1>6 DEF Die, ShapeIInv, TypeOK, ResponseShape, CallShape
<1>7. CASE UNCHANGED vars
  BY <1>0, <1>7 DEF vars, ShapeIInv, TypeOK, ResponseShape, CallShape
<1>8. QED
  BY <1>1, <1>2, <1>3, <1>4, <1>5, <1>6, <1>7 DEF Next

(***************************************************************************)
(* GrpcResponse only builds responses of the shape of their stage          *)
(* (ResponseShape): headers first, grpc-status 0 last, or one refusal or   *)
(* reset; an implementation inherits this through its refinement.          *)
(***************************************************************************)
THEOREM ShapeSafe == Spec => []ResponseShape
<1>1. Init => ShapeIInv
  BY InitShape
<1>2. ShapeIInv /\ [Next]_vars => ShapeIInv'
  BY NextShape
<1>3. ShapeIInv => ResponseShape
  BY DEF ShapeIInv
<1>4. QED
  BY <1>1, <1>2, <1>3, PTL DEF Spec

\* A call that a step leaves alone, or that is open while the loop runs, settles.
LEMMA QuietCall ==
  ASSUME TypeOK, NEW d \in Calls,
         (alive /\ stage[d] = "open") \/ (wire'[d] = wire[d] /\ stage'[d] = stage[d])
  PROVE  /\ stage[d] # "open" => IsPrefix(wire[d], wire'[d])
         /\ (stage[d] = "closed" \/ ~alive) => UNCHANGED <<stage[d], wire[d]>>
<1>1. CASE alive /\ stage[d] = "open"
  BY <1>1 DEF TypeOK
<1>2. CASE ~(alive /\ stage[d] = "open")
  <2>1. wire'[d] = wire[d] /\ stage'[d] = stage[d] /\ wire[d] \in Seq(AnyParts)
    BY <1>2 DEF TypeOK
  <2>2. IsPrefix(wire[d], wire[d])
    BY <2>1, AppendPrefix, PartsFacts
  <2>3. QED
    BY <2>1, <2>2
<1>3. QED
  BY <1>1, <1>2

LEMMA NextSettles == TypeOK /\ [Next]_vars => [SettleStep]_vars
<1> SUFFICES ASSUME TypeOK, [Next]_vars PROVE [SettleStep]_vars
  OBVIOUS
<1>1. ASSUME NEW c \in Calls, Refuse(c) \/ Fail(c) \/ Begin(c) PROVE SettleStep
  <2>1. alive /\ stage[c] = "open"
        /\ \A d \in Calls \ {c} : wire'[d] = wire[d] /\ stage'[d] = stage[d]
    BY <1>1 DEF Refuse, Fail, Begin, TypeOK
  <2>2. QED
    BY <2>1, QuietCall DEF SettleStep
<1>2. ASSUME NEW c \in Calls, Emit(c) \/ Finish(c) PROVE SettleStep
  <2>1. PICK p \in AnyParts : wire' = [wire EXCEPT ![c] = Append(wire[c], p)]
    BY <1>2, PartsFacts DEF Emit, Finish, BodyParts
  <2>2. alive /\ stage[c] = "streaming" /\ wire[c] \in Seq(AnyParts)
        /\ \A d \in Calls \ {c} : stage'[d] = stage[d]
    BY <1>2 DEF Emit, Finish, TypeOK
  <2>3. IsPrefix(wire[c], wire'[c])
    BY <2>1, <2>2, AppendPrefix DEF TypeOK
  <2>4. \A d \in Calls \ {c} : wire'[d] = wire[d]
    BY <2>1 DEF TypeOK
  <2>5. QED
    BY <2>2, <2>3, <2>4, QuietCall DEF SettleStep
<1>3. CASE Die
  BY <1>3, QuietCall DEF Die, SettleStep
<1>4. CASE UNCHANGED vars
  BY <1>4 DEF vars
<1>5. QED
  BY <1>1, <1>2, <1>3, <1>4 DEF Next

(***************************************************************************)
(* In GrpcResponse what has been sent stays sent (ResponseSettles): a     *)
(* begun response only grows, and a closed one, or any once the loop has  *)
(* died, never changes.                                                    *)
(***************************************************************************)
THEOREM SettlesSafe == Spec => ResponseSettles
<1>1. Init => ShapeIInv
  BY InitShape
<1>2. ShapeIInv /\ [Next]_vars => ShapeIInv'
  BY NextShape
<1>3. ShapeIInv /\ [Next]_vars => [SettleStep]_vars
  BY NextSettles DEF ShapeIInv
<1>4. QED
  BY <1>1, <1>2, <1>3, PTL DEF Spec, ResponseSettles

=============================================================================
