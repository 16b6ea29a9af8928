------------------------- MODULE InteropServiceProofs -------------------------
(***************************************************************************)
(* Proofs about one call to TestServerImpl (src/interop/src/bin/           *)
(* interop_server.rs) behind the adapters and the bridge, for every set of *)
(* methods, codes, sizes and lengths and every bound InteropAssumption     *)
(* allows.                                                                 *)
(***************************************************************************)
EXTENDS InteropService, SequenceTheorems, TLAPS

(***************************************************************************)
(* The i32 bounds are used only through these facts: expanded, the ranges *)
(* MinI32..MaxI32 would be literal intervals of 2^32 integers.            *)
(***************************************************************************)
LEMMA I32Bounds == MaxI32 \in Nat /\ MinI32 = -MaxI32 - 1
BY DEF MaxI32, MinI32

USE InteropAssumption, StatusAssumption

\* Result sequences whose error results carry a raised status.
CodedResults ==
  {s \in Seq(Results) : \A i \in DOMAIN s : s[i].k = "error" => s[i].v \in RaisedStatuses}

LEMMA CodesInt == Codes \subseteq Int
BY I32Bounds

LEMMA SeqOfType ==
  ASSUME NEW S, NEW n \in Nat
  PROVE  SeqOf(S, n) \subseteq Seq(S)
BY DEF SeqOf

(***************************************************************************)
(* The fields of a request message of any method: a status code a client  *)
(* may ask for, an i32 size, a sequence of i32 sizes, a payload length.   *)
(***************************************************************************)
LEMMA RequestFields ==
  ASSUME NEW mm, NEW r \in Requests(mm)
  PROVE  /\ r.code \in Codes
         /\ r.size \in Int
         /\ r.sizes \in Seq(Int)
         /\ r.len \in 0..MaxI32
<1>1. SeqOf(Sizes, MaxSizes) \subseteq Seq(Int)
  <2>1. SeqOf(Sizes, MaxSizes) \subseteq Seq(Sizes)
    BY SeqOfType
  <2>2. Seq(Sizes) \subseteq Seq(Int)
    <3>1. Sizes \subseteq Int
      BY I32Bounds
    <3>2. QED
      BY <3>1, SeqMonotonic
  <2>3. QED
    BY <2>1, <2>2
<1>2. <<>> \in Seq(Int)
  OBVIOUS
<1> DEFINE R == [code : Codes, size : Sizes \cup {0},
                 sizes : SeqOf(Sizes, MaxSizes) \cup {<<>>}, len : Lens \cup {0}]
<1>3. Requests(mm) \subseteq R
  <2>1. CASE mm = "unary_call" \/ mm = "cacheable_unary_call"
    <3>1. Requests(mm) = [code : Codes, size : Sizes, sizes : {<<>>}, len : {0}]
      BY <2>1 DEF Requests
    <3>2. QED
      BY <3>1
  <2>2. CASE mm = "streaming_output_call"
    <3>1. Requests(mm) = [code : {0}, size : {0}, sizes : SeqOf(Sizes, MaxSizes), len : {0}]
      BY <2>2 DEF Requests
    <3>2. QED
      BY <3>1
  <2>3. CASE mm = "streaming_input_call"
    <3>1. Requests(mm) = [code : {0}, size : {0}, sizes : {<<>>}, len : Lens]
      BY <2>3 DEF Requests
    <3>2. QED
      BY <3>1
  <2>4. CASE mm = "full_duplex_call"
    <3>1. Requests(mm) = [code : Codes, size : {0}, sizes : SeqOf(Sizes, MaxSizes), len : {0}]
      BY <2>4 DEF Requests
    <3>2. QED
      BY <3>1
  <2>5. CASE mm \notin {"unary_call", "cacheable_unary_call", "streaming_output_call",
                        "streaming_input_call", "full_duplex_call"}
    <3>1. Requests(mm) = [code : {0}, size : {0}, sizes : {<<>>}, len : {0}]
      BY <2>5 DEF Requests
    <3>2. QED
      BY <3>1
  <2>6. QED
    BY <2>1, <2>2, <2>3, <2>4, <2>5
<1>4. r \in R
  BY <1>3
<1>5. r.code \in Codes /\ r.size \in Sizes \cup {0}
      /\ r.sizes \in SeqOf(Sizes, MaxSizes) \cup {<<>>} /\ r.len \in Lens \cup {0}
  BY <1>4
<1>6. Sizes \cup {0} \subseteq Int /\ Lens \cup {0} \subseteq 0..MaxI32
  BY I32Bounds
<1>7. QED
  BY <1>1, <1>2, <1>5, <1>6

LEMMA ItemsType ==
  ASSUME NEW s \in Seq(Int)
  PROVE  Items(s) \in CodedResults
<1>1. Len(s) \in Nat /\ DOMAIN s = 1..Len(s)
  BY LenProperties
<1>2. \A i \in 1..Len(s) : Item(s[i]) \in Results
  BY ElementOfSeq DEF Item, Results
<1>3. Items(s) = [i \in 1..Len(s) |-> Item(s[i])]
  BY <1>1 DEF Items
<1>4. Items(s) \in Seq(Results)
  BY <1>1, <1>2, <1>3
<1>5. \A i \in DOMAIN Items(s) : Items(s)[i].k = "item"
  BY <1>3 DEF Item
<1>6. QED
  BY <1>4, <1>5 DEF CodedResults

\* A one-result sequence is coded when its result is.
LEMMA OneCoded ==
  ASSUME NEW e \in Results, e.k = "error" => e.v \in RaisedStatuses
  PROVE  <<e>> \in CodedResults
<1>1. <<e>> \in Seq(Results)
  OBVIOUS
<1>2. DOMAIN <<e>> = {1} /\ <<e>>[1] = e
  OBVIOUS
<1>3. QED
  BY <1>1, <1>2 DEF CodedResults

\* What the lazy closures and flatten's inner streams yield.
LEMMA LazyResultsType ==
  ASSUME NEW mm, NEW r \in Requests(mm)
  PROVE  LazyResults(r) \in CodedResults /\ DuplexResults(r) \in CodedResults
<1>1. r.code \in Codes /\ r.size \in Int /\ r.sizes \in Seq(Int)
  BY RequestFields
<1>2. Items(r.sizes) \in CodedResults
  BY <1>1, ItemsType
<1>3. Codes \subseteq Int
  BY CodesInt
<1>4. r.code # 0 => <<Error(r.code)>> \in CodedResults
  <2>1. Error(r.code) \in Results
    BY <1>1, <1>3 DEF Error, Results
  <2>2. QED
    BY <1>1, <2>1, OneCoded DEF Error, RaisedStatuses
<1>5. <<Item(r.size)>> \in CodedResults /\ <<Item(0)>> \in CodedResults
  <2>1. Item(r.size) \in Results /\ Item(0) \in Results
    BY <1>1 DEF Item, Results
  <2>2. QED
    BY <2>1, OneCoded DEF Item
<1>6. LazyResults(r) \in CodedResults
  <2>1. CASE m = "unary_call" /\ r.code # 0
    <3>1. LazyResults(r) = <<Error(r.code)>>
      BY <2>1 DEF LazyResults
    <3>2. QED
      BY <1>4, <2>1, <3>1
  <2>2. CASE m = "unary_call" /\ r.code = 0
    BY <1>5, <2>2 DEF LazyResults
  <2>3. CASE m = "streaming_output_call"
    BY <1>2, <2>3 DEF LazyResults
  <2>4. CASE m \notin {"unary_call", "streaming_output_call"}
    BY <1>5, <2>4 DEF LazyResults
  <2>5. QED
    BY <2>1, <2>2, <2>3, <2>4
<1>7. QED
  BY <1>2, <1>4, <1>6 DEF DuplexResults

\* Yielding the head of a coded result sequence leaves a coded one.
LEMMA TailCoded ==
  ASSUME NEW s \in CodedResults, s # <<>>
  PROVE  /\ Tail(s) \in CodedResults
         /\ Head(s) \in Results
         /\ Head(s).k = "error" => Head(s).v \in RaisedStatuses
<1>1. s \in Seq(Results) /\ \A i \in DOMAIN s : s[i].k = "error" => s[i].v \in RaisedStatuses
  BY DEF CodedResults
<1>2. /\ Head(s) \in Results
      /\ Tail(s) \in Seq(Results)
      /\ Len(Tail(s)) = Len(s) - 1
      /\ \A i \in 1..Len(Tail(s)) : Tail(s)[i] = s[i + 1]
  BY <1>1, HeadTailProperties
<1>3. DOMAIN s = 1..Len(s) /\ DOMAIN Tail(s) = 1..Len(Tail(s)) /\ Len(s) \in Nat \ {0}
  BY <1>1, <1>2, LenProperties, EmptySeq
<1>4. Head(s) = s[1]
  OBVIOUS
<1>5. \A i \in DOMAIN Tail(s) : Tail(s)[i].k = "error" => Tail(s)[i].v \in RaisedStatuses
  <2> SUFFICES ASSUME NEW i \in DOMAIN Tail(s) PROVE Tail(s)[i].k = "error" => Tail(s)[i].v \in RaisedStatuses
    OBVIOUS
  <2>1. Tail(s)[i] = s[i + 1] /\ i + 1 \in DOMAIN s
    BY <1>2, <1>3
  <2>2. QED
    BY <1>1, <2>1
<1>6. Head(s).k = "error" => Head(s).v \in RaisedStatuses
  <2>1. 1 \in DOMAIN s
    BY <1>3
  <2>2. QED
    BY <1>1, <1>4, <2>1
<1>7. QED
  BY <1>2, <1>5, <1>6 DEF CodedResults

(***************************************************************************)
(* streaming_input_call's a + b stays an i32: without overflow it is the  *)
(* sum, with it the release build's wrap, a + b - 2^32.                    *)
(***************************************************************************)
LEMMA FoldType ==
  ASSUME NEW a \in MinI32..MaxI32, NEW b \in 0..MaxI32
  PROVE  /\ ~I32Overflows(a, b) => a + b \in MinI32..MaxI32
         /\ I32Overflows(a, b) => I32Wrap(a, b) \in MinI32..MaxI32
BY I32Bounds DEF I32Overflows, I32Wrap

\* The pending results are coded exactly when PendingErrorsCoded holds.
LEMMA PendingCoded == TypeOK => (PendingErrorsCoded <=> pending \in CodedResults)
BY DEF TypeOK, PendingErrorsCoded, CodedResults, RaisedStatuses

\* The strengthening with the pending results as a coded sequence.
IInvC == TypeOK /\ pending \in CodedResults

LEMMA InitResponse == Init => ResponseIInv
<1> SUFFICES ASSUME Init PROVE TypeOK /\ PendingErrorsCoded
  BY DEF ResponseIInv
<1>1. acc \in MinI32..MaxI32
  BY I32Bounds DEF Init
<1>2. reqs \in Seq(Requests(m)) /\ out \in Seq(Int) /\ wire \in Seq(Parts)
      /\ pending \in Seq(Results)
  BY DEF Init
<1>3. QED
  BY <1>1, <1>2 DEF Init, TypeOK, PendingErrorsCoded

\* A part a step appends, or a one-part wire, keeps the wire a sequence of parts.
LEMMA WireParts ==
  ASSUME NEW w \in Seq(Parts), NEW p \in Parts
  PROVE  Append(w, p) \in Seq(Parts) /\ <<p>> \in Seq(Parts)
BY AppendProperties, EmptySeq, AppendIsConcat, ConcatEmptySeq

LEMMA PartsFacts ==
  /\ {Headers200, DataPart, Reset, Trailers(StatusOk)} \subseteq Parts
  /\ \A s \in RaisedStatuses : ErrorPart(s) \in Parts
BY DEF Parts, ErrorPart, RaisedStatuses

\* The error of a failed request stream is a result a handler may raise.
LEMMA InputFailureType ==
  InputFailure \in Results /\ <<InputFailure>> \in CodedResults
<1>1. InputFailure \in Results /\ InputFailure.k = "error"
      /\ InputFailure.v \in RaisedStatuses
  BY DEF InputFailure, Error, Results, RaisedStatuses
<1>2. QED
  BY <1>1, OneCoded

\* The request a handler reads next is one of its method's requests.
LEMMA NextRequest ==
  ASSUME TypeOK, read < Len(reqs)
  PROVE  /\ reqs[read + 1] \in Requests(m)
         /\ reqs[read + 1].len \in 0..MaxI32
<1>1. read + 1 \in 1..Len(reqs) /\ reqs \in Seq(Requests(m))
  BY DEF TypeOK
<1>2. reqs[read + 1] \in Requests(m)
  BY <1>1, ElementOfSeq
<1>3. QED
  BY <1>2, RequestFields

(***************************************************************************)
(* Each handler step keeps the type and the coded pending results: the     *)
(* requests stay requests of the call's method, the fold stays an i32,     *)
(* the results a closure or flatten yields are coded, and every part       *)
(* appended to the wire is one of Parts.                                   *)
(***************************************************************************)
LEMMA NextIInvC == IInvC /\ [Next]_vars => IInvC'
<1> SUFFICES ASSUME TypeOK, pending \in CodedResults, [Next]_vars
             PROVE  IInvC'
  BY DEF IInvC
<1> USE DEF IInvC
<1>0. Codes \subseteq Int
  BY CodesInt
<1>1. CASE ClientSend
  <2>1. PICK r \in Requests(m) : reqs' = Append(reqs, r)
    BY <1>1 DEF ClientSend
  <2>2. reqs' \in Seq(Requests(m)) /\ Len(reqs') = Len(reqs) + 1
    BY <2>1, AppendProperties DEF TypeOK
  <2>3. Len(reqs) < MaxReq /\ m' = m /\ read' = read
    BY <1>1 DEF ClientSend
  <2>4. QED
    BY <1>1, <2>2, <2>3 DEF ClientSend, TypeOK
<1>2. CASE ClientEnd \/ InputError
  BY <1>2 DEF ClientEnd, InputError, TypeOK
<1>3. CASE SingleHead
  <2>0. UNCHANGED <<m, reqs, reqSt, acc, out>>
    BY <1>3 DEF SingleHead
  <2>1. CASE /\ Len(reqs) >= 2 \/ reqSt = "error" \/ (reqSt = "end" /\ reqs = <<>>)
             /\ wire' = <<Reset>> /\ ph' = "done"
             /\ UNCHANGED <<alive, read, pending, src>>
    <3>1. <<Reset>> \in Seq(Parts)
      BY WireParts, PartsFacts, EmptySeq
    <3>2. QED
      BY <2>0, <2>1, <3>1 DEF TypeOK
  <2>2. CASE reqSt = "end" /\ Len(reqs) = 1 /\ read' = 1 /\ PanicsInF(reqs[1])
             /\ Crash /\ UNCHANGED <<ph, pending, src, wire>>
    <3>1. reqs' \in Seq(Requests(m')) /\ Len(reqs') <= MaxReq /\ read' \in 0..Len(reqs')
      BY <2>0, <2>2 DEF TypeOK
    <3>2. alive' \in BOOLEAN /\ pending' \in CodedResults
      BY <2>2 DEF Crash
    <3>3. QED
      BY <2>0, <2>2, <3>1, <3>2 DEF TypeOK
  <2>3. CASE /\ reqSt = "end" /\ Len(reqs) = 1 /\ read' = 1
             /\ pending' = LazyResults(reqs[1]) /\ src' = "done"
             /\ wire' = <<Headers200>> /\ ph' = "body" /\ UNCHANGED alive
    <3>1. reqs[1] \in Requests(m)
      <4>1. 1 \in 1..Len(reqs) /\ reqs \in Seq(Requests(m))
        BY <2>3 DEF TypeOK
      <4>2. QED
        BY <4>1, ElementOfSeq
    <3>2. pending' \in CodedResults
      BY <2>3, <3>1, LazyResultsType
    <3>3. <<Headers200>> \in Seq(Parts)
      BY WireParts, PartsFacts, EmptySeq
    <3>4. pending' \in Seq(Results)
      BY <3>2 DEF CodedResults
    <3>5. QED
      BY <2>0, <2>3, <3>2, <3>3, <3>4 DEF TypeOK
  <2>4. QED
    BY <1>3, <2>1, <2>2, <2>3 DEF SingleHead
<1>4. CASE EagerHead
  <2>1. <<Headers200>> \in Seq(Parts)
    BY WireParts, PartsFacts, EmptySeq
  <2>2. QED
    BY <1>4, <2>1 DEF EagerHead, TypeOK
<1>5. CASE FoldStep
  <2>1. reqs[read + 1].len \in 0..MaxI32 /\ acc \in MinI32..MaxI32
    BY <1>5, NextRequest DEF FoldStep, TypeOK
  <2>2. acc' \in MinI32..MaxI32
    BY <1>5, <2>1, FoldType DEF FoldStep, Crash
  <2>3. read' \in 0..Len(reqs')
    BY <1>5 DEF FoldStep, TypeOK
  <2>4. QED
    BY <1>5, <2>2, <2>3 DEF FoldStep, TypeOK, Crash
<1>6. CASE FoldEnd
  <2>1. Item(acc) \in Results
    BY I32Bounds DEF TypeOK, Item, Results
  <2>2. pending' \in CodedResults
    <3>1. <<Item(acc)>> \in CodedResults
      BY <2>1, OneCoded DEF Item
    <3>2. pending' = <<Item(acc)>> \/ pending' = <<InputFailure>>
      BY <1>6 DEF FoldEnd
    <3>3. QED
      BY <3>1, <3>2, InputFailureType
  <2>3. pending' \in Seq(Results)
    BY <2>2 DEF CodedResults
  <2>4. QED
    BY <1>6, <2>2, <2>3 DEF FoldEnd, TypeOK
<1>7. CASE DuplexNext
  <2>1. reqs[read + 1] \in Requests(m)
    BY <1>7, NextRequest DEF DuplexNext
  <2>2. pending' \in CodedResults
    BY <1>7, <2>1, LazyResultsType DEF DuplexNext
  <2>3. pending' \in Seq(Results) /\ read' \in 0..Len(reqs')
    BY <1>7, <2>2 DEF CodedResults, DuplexNext, TypeOK
  <2>4. QED
    BY <1>7, <2>2, <2>3 DEF DuplexNext, TypeOK
<1>8. CASE DuplexEnd
  <2>1. pending' = pending \/ pending' = <<InputFailure>>
    BY <1>8 DEF DuplexEnd
  <2>2. pending' \in CodedResults /\ pending' \in Seq(Results)
    BY <2>1, InputFailureType DEF CodedResults
  <2>3. QED
    BY <1>8, <2>2 DEF DuplexEnd, TypeOK
<1>9. CASE Emit
  <2> DEFINE x == Head(pending)
  <2>1. Tail(pending) \in CodedResults /\ x \in Results
        /\ (x.k = "error" => x.v \in RaisedStatuses)
    BY <1>9, TailCoded DEF Emit
  <2>2. Tail(pending) \in Seq(Results) /\ (x.k = "item" => x.v \in Int)
    BY <2>1 DEF CodedResults, Results
  <2>3. CASE x.k = "item" /\ wire' = Append(wire, DataPart) /\ out' = Append(out, x.v)
             /\ pending' = Tail(pending) /\ UNCHANGED alive
    <3>1. wire' \in Seq(Parts)
      BY <2>3, WireParts, PartsFacts DEF TypeOK
    <3>2. out' \in Seq(Int)
      BY <2>2, <2>3, AppendProperties DEF TypeOK
    <3>3. QED
      BY <1>9, <2>1, <2>2, <2>3, <3>1, <3>2 DEF Emit, TypeOK
  <2>4. CASE Crash /\ UNCHANGED <<wire, out, pending>>
    BY <1>9, <2>4 DEF Emit, TypeOK, Crash
  <2>5. CASE x.k = "error" /\ wire' = Append(wire, ErrorPart(x.v))
             /\ pending' = Tail(pending) /\ UNCHANGED <<alive, out>>
    <3>1. wire' \in Seq(Parts)
      BY <2>1, <2>5, WireParts, PartsFacts DEF TypeOK
    <3>2. QED
      BY <1>9, <2>1, <2>2, <2>5, <3>1 DEF Emit, TypeOK
  <2>6. QED
    BY <1>9, <2>3, <2>4, <2>5 DEF Emit
<1>10. CASE Finish
  <2>1. wire' \in Seq(Parts)
    BY <1>10, WireParts, PartsFacts DEF Finish, TypeOK
  <2>2. QED
    BY <1>10, <2>1 DEF Finish, TypeOK
<1>11. CASE UNCHANGED vars
  BY <1>11 DEF vars, TypeOK
<1>12. QED
  BY <1>1, <1>2, <1>3, <1>4, <1>5, <1>6, <1>7, <1>8, <1>9, <1>10, <1>11 DEF Next

LEMMA NextResponse == ResponseIInv /\ [Next]_vars => ResponseIInv'
<1> SUFFICES ASSUME ResponseIInv, [Next]_vars PROVE ResponseIInv'
  OBVIOUS
<1>1. IInvC
  BY PendingCoded DEF ResponseIInv, IInvC
<1>2. IInvC'
  BY <1>1, NextIInvC
<1>3. QED
  BY <1>2, PendingCoded DEF ResponseIInv, IInvC, TypeOK, PendingErrorsCoded, CodedResults,
     RaisedStatuses

(***************************************************************************)
(* TestServerImpl behind the adapters keeps the call well typed for every *)
(* set of methods, codes, sizes and lengths: the client's requests are    *)
(* requests of the call's method, the running sum of streaming_input_call *)
(* stays an i32 (wrapped or not), and every part the bridge puts on the   *)
(* wire is the 200 headers, a data part, a reset, or trailers with        *)
(* grpc-status 0, with a requested code, or, for a failed request stream, *)
(* with none.                                                              *)
(***************************************************************************)
THEOREM InteropTypeCorrect == Spec => []TypeOK
<1>1. Init => ResponseIInv
  BY InitResponse
<1>2. ResponseIInv /\ [Next]_vars => ResponseIInv'
  BY NextResponse
<1>3. ResponseIInv => TypeOK
  BY DEF ResponseIInv
<1>4. QED
  BY <1>1, <1>2, <1>3, PTL DEF Spec

-----------------------------------------------------------------------------
(***************************************************************************)
(* The refinement: under the mapping of InteropService (head is open,     *)
(* body streaming, done closed; the one call's wire), each step of the    *)
(* call is a step of GrpcResponse or leaves its state alone.               *)
(***************************************************************************)
LEMMA InitRefines == Init => Response!Init
BY DEF Init, Response!Init, ResponseStage

\* A step that keeps alive, ph and wire is a GrpcResponse stutter.
LEMMA StutterMap ==
  ASSUME UNCHANGED <<alive, ph, wire>>
  PROVE  UNCHANGED Response!vars
BY DEF Response!vars, ResponseStage

\* A step that stops the event loop and nothing else is Die.
LEMMA DieMap ==
  ASSUME alive, alive' = FALSE, UNCHANGED <<ph, wire>>
  PROVE  Response!Die
BY DEF Response!Die, ResponseStage

\* stream_single failing the head: the transport resets the stream.
LEMMA FailMap ==
  ASSUME alive, ph = "head", wire' = <<Reset>>, ph' = "done", UNCHANGED alive
  PROVE  Response!Fail(TheCall)
BY DEF Response!Fail, ResponseStage, Response!Reset, Reset

\* A head resolved by the handler: the 200 headers open the response.
LEMMA BeginMap ==
  ASSUME alive, ph = "head", wire' = <<Headers200>>, ph' = "body", UNCHANGED alive
  PROVE  Response!Begin(TheCall)
BY DEF Response!Begin, ResponseStage, Response!Headers200, Headers200

\* A data part or the trailers of a requested status, in the body.
LEMMA EmitMap ==
  ASSUME alive, ph = "body", UNCHANGED <<alive, ph>>,
         NEW p \in {DataPart} \cup {Trailers(s) : s \in RaisedStatuses},
         wire' = Append(wire, p)
  PROVE  Response!Emit(TheCall)
<1>1. p \in {Response!DataPart} \cup {Response!Trailers(s) : s \in RaisedStatuses}
  BY DEF DataPart, Response!DataPart, Trailers, Response!Trailers
<1>2. QED
  BY <1>1 DEF Response!Emit, ResponseStage, RaisedStatuses

\* s3 closing the body with grpc-status 0.
LEMMA FinishMap ==
  ASSUME alive, ph = "body", ph' = "done", UNCHANGED alive,
         wire' = Append(wire, Trailers(StatusOk))
  PROVE  Response!Finish(TheCall)
BY DEF Response!Finish, ResponseStage, Trailers, Response!Trailers, StatusOk, Response!StatusOk

\* Each of the actions of GrpcResponse for the one call is a step of Next.
LEMMA ResponseNextOne ==
  /\ Response!Fail(TheCall) => Response!Next
  /\ Response!Begin(TheCall) => Response!Next
  /\ Response!Emit(TheCall) => Response!Next
  /\ Response!Finish(TheCall) => Response!Next
  /\ Response!Die => Response!Next
BY DEF Response!Next

LEMMA NextRefines == ResponseIInv /\ [Next]_vars => [Response!Next]_Response!vars
<1> SUFFICES ASSUME ResponseIInv, [Next]_vars PROVE [Response!Next]_Response!vars
  OBVIOUS
<1>0. pending \in CodedResults /\ TypeOK
  BY PendingCoded DEF ResponseIInv
<1>1. CASE ClientSend \/ ClientEnd \/ InputError \/ FoldEnd \/ DuplexNext \/ DuplexEnd
  BY <1>1, StutterMap DEF ClientSend, ClientEnd, InputError, FoldEnd, DuplexNext, DuplexEnd
<1>2. CASE SingleHead
  <2>1. CASE /\ Len(reqs) >= 2 \/ reqSt = "error" \/ (reqSt = "end" /\ reqs = <<>>)
             /\ wire' = <<Reset>> /\ ph' = "done"
             /\ UNCHANGED <<alive, read, pending, src>>
    BY <1>2, <2>1, FailMap, ResponseNextOne DEF SingleHead
  <2>2. CASE Crash /\ UNCHANGED <<ph, pending, src, wire>>
    BY <1>2, <2>2, DieMap, ResponseNextOne DEF SingleHead, Crash
  <2>3. CASE wire' = <<Headers200>> /\ ph' = "body" /\ UNCHANGED alive
    BY <1>2, <2>3, BeginMap, ResponseNextOne DEF SingleHead
  <2>4. QED
    BY <1>2, <2>1, <2>2, <2>3 DEF SingleHead
<1>3. CASE EagerHead
  BY <1>3, BeginMap, ResponseNextOne DEF EagerHead
<1>4. CASE FoldStep
  <2>1. CASE UNCHANGED alive
    BY <1>4, <2>1, StutterMap DEF FoldStep
  <2>2. CASE Crash
    BY <1>4, <2>2, DieMap, ResponseNextOne DEF FoldStep, Crash
  <2>3. QED
    BY <1>4, <2>1, <2>2 DEF FoldStep
<1>5. CASE Emit
  <2> DEFINE x == Head(pending)
  <2>1. x.k = "error" => x.v \in RaisedStatuses
    BY <1>0, <1>5, TailCoded DEF Emit
  <2>2. alive /\ ph = "body" /\ UNCHANGED ph
    BY <1>5 DEF Emit
  <2>3. CASE x.k = "item" /\ wire' = Append(wire, DataPart) /\ UNCHANGED alive
    BY <2>2, <2>3, EmitMap, ResponseNextOne
  <2>4. CASE Crash /\ UNCHANGED wire
    BY <2>2, <2>4, DieMap, ResponseNextOne DEF Crash
  <2>5. CASE x.k = "error" /\ wire' = Append(wire, ErrorPart(x.v)) /\ UNCHANGED alive
    <3>1. ErrorPart(x.v) \in {Trailers(s) : s \in RaisedStatuses}
      BY <2>1, <2>5 DEF ErrorPart
    <3>2. QED
      BY <2>2, <2>5, <3>1, EmitMap, ResponseNextOne
  <2>6. QED
    BY <1>5, <2>3, <2>4, <2>5 DEF Emit
<1>6. CASE Finish
  BY <1>6, FinishMap, ResponseNextOne DEF Finish
<1>7. CASE UNCHANGED vars
  BY <1>7, StutterMap DEF vars
<1>8. QED
  BY <1>1, <1>2, <1>3, <1>4, <1>5, <1>6, <1>7 DEF Next

(***************************************************************************)
(* TestServerImpl behind the method adapters and the bridge implements    *)
(* GrpcResponse (ImplementsResponse) for every set of methods, codes,     *)
(* sizes and lengths: the call opens with the 200 headers or is reset,     *)
(* carries data parts and error trailers -- a requested non-zero code, or *)
(* no grpc-status for a failed request stream, never 0 -- closes with     *)
(* grpc-status 0, and sends nothing after the close or once the event     *)
(* loop has died.                                                          *)
(***************************************************************************)
THEOREM InteropRefinement == Spec => ImplementsResponse
<1>1. Init => ResponseIInv /\ Response!Init
  BY InitResponse, InitRefines
<1>2. ResponseIInv /\ [Next]_vars => ResponseIInv'
  BY NextResponse
<1>3. ResponseIInv /\ [Next]_vars => [Response!Next]_Response!vars
  BY NextRefines
<1>4. QED
  BY <1>1, <1>2, <1>3, PTL DEF Spec, ImplementsResponse, Response!Spec

=============================================================================
