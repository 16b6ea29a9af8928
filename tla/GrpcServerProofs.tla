-------------------------- MODULE GrpcServerProofs --------------------------
(***************************************************************************)
(* Proofs about the call pipeline of GrpcServer, for every value of the   *)
(* constants that satisfies the module's assumptions.                     *)
(***************************************************************************)
EXTENDS GrpcServer, WellFoundedInduction, TLAPS

USE CallsAssumption, RegistryAssumption, PathsAssumption, ErrCodesAssumption,
    BoundsAssumption, StarterAssumption, StatusAssumption

(***************************************************************************)
(* find_method yields 0 or an index of the registry: the set of matching  *)
(* indices, when not empty, has a least element (SelectInSeq takes Min).  *)
(***************************************************************************)
LEMMA FindMethodType ==
  ASSUME NEW p
  PROVE  FindMethod(p) \in 0..Len(Registry)
<1> DEFINE I == {i \in 1..Len(Registry) : Registry[i].name = p}
<1>1. CASE I = {}
  BY <1>1 DEF FindMethod, SelectInSeq
<1>2. CASE I # {}
  <2>0. I \subseteq Nat
    OBVIOUS
  <2>1. \E x \in I : \A y \in I : ~(<<y, x>> \in OpToRel(<, Nat))
    BY <1>2, <2>0, NatLessThanWellFounded, WFMin, Zenon
  <2>2. ASSUME NEW x \in Nat, NEW y \in Nat
        PROVE  (<<y, x>> \in OpToRel(<, Nat)) <=> y < x
    BY Zenon DEF OpToRel
  <2>6. \E x \in I : \A y \in I : ~(y < x)
    BY <2>0, <2>1, <2>2, Zenon
  <2>5. \E x \in I : \A y \in I : x =< y
    BY <2>6
  <2>3. Min(I) \in I
    BY SMTT(30), <2>5 DEF Min
  <2>4. QED
    BY <1>2, <2>3 DEF FindMethod, SelectInSeq
<1>3. QED
  BY <1>1, <1>2

\* A response stream never yields more than MaxItems results.
LEMMA OutBoundType ==
  ASSUME NEW c
  PROVE  OutBound(c) \in 1..MaxItems
BY DEF OutBound

-----------------------------------------------------------------------------
(***************************************************************************)
(* Type correctness.                                                       *)
(***************************************************************************)
LEMMA InitTypeOK == Init => TypeOK
BY DEF Init, TypeOK, Phases, HeadResults

\* The response parts the bridge produces are parts.
LEMMA PartsType ==
  /\ Headers200 \in Parts /\ DataPart \in Parts /\ Reset \in Parts
  /\ \A s \in Statuses : Trailers(s) \in Parts /\ TrailersOnly(s) \in Parts
  /\ \A s \in ErrCodes \cup {NoStatus} : ErrorPart(s) \in Parts
  /\ StatusOk \in Statuses /\ NoStatus \in Statuses
BY DEF Parts, Statuses, ErrorPart, StatusOk

\* Appending a part to the response of one call keeps every response typed.
LEMMA AppendPart ==
  ASSUME NEW w \in [Calls -> Seq(Parts)], NEW c \in Calls, NEW x \in Parts
  PROVE  [w EXCEPT ![c] = Append(@, x)] \in [Calls -> Seq(Parts)]
OBVIOUS

\* A panic recorded by Crash is a crash record.
LEMMA CrashType ==
  ASSUME NEW c \in Calls, NEW cause \in CrashCauses, Crash(c, cause)
  PROVE  crash' \in {NoCrash} \cup [call : Calls, cause : CrashCauses]
BY DEF Crash

\* HeadTaskPanic either records a crash or stores the panic in the head.
LEMMA HeadTaskPanicType ==
  ASSUME TypeOK, NEW c \in Calls, NEW cause \in CrashCauses,
         HeadTaskPanic(c, cause)
  PROVE  /\ crash' \in {NoCrash} \cup [call : Calls, cause : CrashCauses]
         /\ head' \in [Calls -> HeadResults]
<1>1. CASE Starter = "sync" /\ Crash(c, cause) /\ UNCHANGED head
  BY <1>1 DEF Crash, TypeOK
<1>2. CASE Starter = "pool" /\ head' = [head EXCEPT ![c] = cause] /\ UNCHANGED crash
  BY <1>2 DEF TypeOK, HeadResults
<1>3. QED
  BY <1>1, <1>2 DEF HeadTaskPanic

\* HandleMethod (and so StartCall and PoolTask) keeps the dispatch state typed.
LEMMA HandleMethodType ==
  ASSUME TypeOK, NEW c \in Calls, NEW p, HandleMethod(c, p)
  PROVE  /\ crash' \in {NoCrash} \cup [call : Calls, cause : CrashCauses]
         /\ head' \in [Calls -> HeadResults]
         /\ ph' \in [Calls -> Phases]
         /\ disp' \in [Calls -> 0..Len(Registry)]
<1>1. FindMethod(p) \in 0..Len(Registry)
  BY FindMethodType
<1>2. CASE /\ FindMethod(p) = 0
           /\ HeadTaskPanic(c, "unknown_method")
           /\ ph' = [ph EXCEPT ![c] = "head"]
           /\ UNCHANGED disp
  BY <1>2, HeadTaskPanicType DEF TypeOK, Phases, CrashCauses
<1>3. CASE /\ FindMethod(p) # 0
           /\ Dispatch(c, FindMethod(p))
  BY ZenonT(30), <1>1, <1>3 DEF Dispatch, TypeOK, Phases, HeadResults
<1>4. QED
  BY <1>2, <1>3 DEF HandleMethod

LEMMA NextTypeOK == TypeOK /\ [Next]_vars => TypeOK'
<1> SUFFICES ASSUME TypeOK, [Next]_vars PROVE TypeOK'
  OBVIOUS
<1>1. ASSUME NEW c \in Calls, RejectRequest(c) PROVE TypeOK'
  <2>1. wire' \in [Calls -> Seq(Parts)]
    BY <1>1, PartsType DEF TypeOK, RejectRequest
  <2>2. QED
    BY SMTT(30), <1>1, <2>1 DEF TypeOK, RejectRequest, Phases
<1>2. ASSUME NEW c \in Calls, StartRequest(c) PROVE TypeOK'
  <2>1. PICK p \in Paths : path' = [path EXCEPT ![c] = p] /\ StartCall(c, p)
    BY <1>2 DEF StartRequest
  <2>2. CASE Starter = "sync" /\ HandleMethod(c, p)
    BY <1>2, <2>1, <2>2, HandleMethodType DEF StartRequest, TypeOK
  <2>3. CASE /\ Starter = "pool"
             /\ ph' = [ph EXCEPT ![c] = "queued"]
             /\ UNCHANGED <<disp, head, crash>>
    BY SMTT(30), <1>2, <2>1, <2>3 DEF StartRequest, TypeOK, Phases
  <2>4. QED
    BY <2>1, <2>2, <2>3 DEF StartCall
<1>3. ASSUME NEW c \in Calls, PoolTask(c) PROVE TypeOK'
  BY <1>3, HandleMethodType DEF PoolTask, TypeOK
<1>4. ASSUME NEW c \in Calls, ClientSend(c) PROVE TypeOK'
  <2>1. reqN' \in [Calls -> 0..MaxReq]
    BY <1>4 DEF ClientSend, TypeOK
  <2>2. QED
    BY SMTT(30), <1>4, <2>1 DEF ClientSend, TypeOK
<1>5. ASSUME NEW c \in Calls, ClientEnd(c) PROVE TypeOK'
  BY <1>5 DEF ClientEnd, TypeOK
<1>6. ASSUME NEW c \in Calls, InputError(c) PROVE TypeOK'
  BY SMTT(30), <1>6 DEF InputError, TypeOK
<1>7. ASSUME NEW c \in Calls, StreamSingle(c) PROVE TypeOK'
  <2>1. CASE /\ SingleFails(c)
             /\ head' = [head EXCEPT ![c] = "err"]
             /\ UNCHANGED crash
    BY SMTT(30), <1>7, <2>1 DEF StreamSingle, TypeOK, HeadResults
  <2>2. CASE /\ SingleReady(c)
             /\ \E r \in {"ok", "err"} : head' = [head EXCEPT ![c] = r]
             /\ UNCHANGED crash
    BY SMTT(30), <1>7, <2>2 DEF StreamSingle, TypeOK, HeadResults
  <2>3. CASE /\ SingleReady(c)
             /\ HeadTaskPanic(c, "handler")
    <3>1. /\ crash' \in {NoCrash} \cup [call : Calls, cause : CrashCauses]
          /\ head' \in [Calls -> HeadResults]
      BY <2>3, HeadTaskPanicType DEF CrashCauses
    <3>2. QED
      BY <1>7, <2>3, <3>1 DEF StreamSingle, TypeOK
  <2>4. QED
    BY <1>7, <2>1, <2>2, <2>3 DEF StreamSingle
<1>8. ASSUME NEW c \in Calls, HandlerHead(c) PROVE TypeOK'
  <2>1. CASE /\ \E r \in {"ok", "err"} : head' = [head EXCEPT ![c] = r]
             /\ UNCHANGED crash
    BY SMTT(30), <1>8, <2>1 DEF HandlerHead, TypeOK, HeadResults
  <2>2. CASE HeadTaskPanic(c, "handler")
    <3>1. /\ crash' \in {NoCrash} \cup [call : Calls, cause : CrashCauses]
          /\ head' \in [Calls -> HeadResults]
      BY <2>2, HeadTaskPanicType DEF CrashCauses
    <3>2. QED
      BY <1>8, <3>1 DEF HandlerHead, TypeOK
  <2>3. QED
    BY <1>8, <2>1, <2>2 DEF HandlerHead
<1>9. ASSUME NEW c \in Calls, PollHead(c) PROVE TypeOK'
  <2>1. CASE /\ head[c] = "ok"
             /\ wire' = [wire EXCEPT ![c] = Append(@, Headers200)]
             /\ ph' = [ph EXCEPT ![c] = "body"]
             /\ UNCHANGED crash
    BY SMTT(30), <1>9, <2>1, PartsType, AppendPart DEF PollHead, TypeOK, Phases
  <2>2. CASE /\ head[c] = "err"
             /\ wire' = [wire EXCEPT ![c] = Append(@, Reset)]
             /\ ph' = [ph EXCEPT ![c] = "done"]
             /\ UNCHANGED crash
    BY SMTT(30), <1>9, <2>2, PartsType, AppendPart DEF PollHead, TypeOK, Phases
  <2>3. CASE /\ head[c] \in CrashCauses
             /\ Crash(c, head[c])
             /\ UNCHANGED <<wire, ph>>
    BY <1>9, <2>3, CrashType DEF PollHead, TypeOK
  <2>4. QED
    BY <1>9, <2>1, <2>2, <2>3 DEF PollHead
<1>10. ASSUME NEW c \in Calls, PollItem(c) PROVE TypeOK'
  <2>1. OutBound(c) \in 1..MaxItems
    BY OutBoundType
  <2>3. CASE /\ outN[c] < OutBound(c)
             /\ \E part \in {DataPart} \cup {ErrorPart(s) : s \in ErrCodes \cup {NoStatus}} :
                   wire' = [wire EXCEPT ![c] = Append(@, part)]
             /\ outN' = [outN EXCEPT ![c] = @ + 1]
             /\ UNCHANGED <<crash, ph>>
    <3>1. PICK part \in {DataPart} \cup {ErrorPart(s) : s \in ErrCodes \cup {NoStatus}} :
                wire' = [wire EXCEPT ![c] = Append(@, part)]
      BY <2>3
    <3>2. part \in Parts
      BY PartsType
    <3>3. wire' \in [Calls -> Seq(Parts)]
      BY <3>1, <3>2, AppendPart DEF TypeOK
    <3>4. outN' \in [Calls -> 0..MaxItems]
      BY <2>1, <2>3 DEF TypeOK
    <3>5. QED
      BY SMTT(30), <1>10, <2>3, <3>3, <3>4 DEF PollItem, TypeOK
  <2>4. CASE /\ wire' = [wire EXCEPT ![c] = Append(@, Trailers(StatusOk))]
             /\ ph' = [ph EXCEPT ![c] = "done"]
             /\ UNCHANGED <<crash, outN>>
    <3>1. wire' \in [Calls -> Seq(Parts)]
      BY <2>4, PartsType, AppendPart DEF TypeOK
    <3>2. QED
      BY SMTT(30), <1>10, <2>4, <3>1 DEF PollItem, TypeOK, Phases
  <2>5. CASE /\ Crash(c, "stream")
             /\ UNCHANGED <<ph, outN, wire>>
    BY <1>10, <2>5, CrashType DEF PollItem, TypeOK, CrashCauses
  <2>6. QED
    BY <1>10, <2>3, <2>4, <2>5 DEF PollItem
<1>11. CASE UNCHANGED vars
  BY <1>11 DEF vars, TypeOK
<1>12. QED
  BY <1>1, <1>2, <1>3, <1>4, <1>5, <1>6, <1>7, <1>8, <1>9, <1>10, <1>11
     DEF Next

(* Every reachable state of the server is well typed (TypeOK). *)
THEOREM TypeCorrect == Spec => []TypeOK
BY InitTypeOK, NextTypeOK, PTL DEF Spec


-----------------------------------------------------------------------------
(***************************************************************************)
(* The refinement of GrpcResponse.  Under the mapping, a step of the      *)
(* pipeline that only moves a call between idle, queued and head, or only *)
(* changes the client's stream or the head future, is a stutter; the      *)
(* panics that reach the event loop are Die; RejectRequest is Refuse, and  *)
(* the transport's polls are Begin, Fail, Emit and Finish.  Begin and Fail *)
(* replace the response by one part, so they need WireEmptyBeforeBody.    *)
(***************************************************************************)
LEMMA InitWire == Init => WireEmptyBeforeBody
BY DEF Init, WireEmptyBeforeBody

LEMMA NextWire ==
  TypeOK /\ WireEmptyBeforeBody /\ [Next]_vars => WireEmptyBeforeBody'
<1> SUFFICES ASSUME TypeOK, WireEmptyBeforeBody, [Next]_vars
             PROVE  WireEmptyBeforeBody'
  OBVIOUS
<1>1. ASSUME NEW c \in Calls, StartRequest(c) \/ PoolTask(c)
      PROVE  WireEmptyBeforeBody'
  <2>1. \A p : HandleMethod(c, p) => ph'[c] = "head" /\ \A d \in Calls \ {c} : ph'[d] = ph[d]
    BY DEF HandleMethod, Dispatch, TypeOK
  <2>2. ph'[c] \in {"head", "queued"} /\ \A d \in Calls \ {c} : ph'[d] = ph[d]
    BY <1>1, <2>1 DEF StartRequest, PoolTask, StartCall, TypeOK
  <2>3. QED
    BY SMTT(30), <1>1, <2>2 DEF StartRequest, PoolTask, WireEmptyBeforeBody, TypeOK
<1>2. ASSUME NEW c \in Calls, PollHead(c) PROVE WireEmptyBeforeBody'
  BY SMTT(30), <1>2 DEF PollHead, WireEmptyBeforeBody, TypeOK
<1>3. ASSUME NEW c \in Calls, PollItem(c) PROVE WireEmptyBeforeBody'
  <2>1. ph[c] = "body" /\ (ph' = ph \/ ph' = [ph EXCEPT ![c] = "done"])
    BY <1>3 DEF PollItem
  <2>2. \A d \in Calls \ {c} : wire'[d] = wire[d]
    BY <1>3 DEF PollItem, TypeOK
  <2>3. ph'[c] \notin {"idle", "queued", "head"} /\ \A d \in Calls \ {c} : ph'[d] = ph[d]
    BY <2>1 DEF TypeOK
  <2>4. QED
    BY <2>2, <2>3 DEF WireEmptyBeforeBody
<1>4. ASSUME NEW c \in Calls, RejectRequest(c) PROVE WireEmptyBeforeBody'
  BY <1>4 DEF RejectRequest, WireEmptyBeforeBody, TypeOK
<1>5. ASSUME NEW c \in Calls,
             \/ ClientSend(c) \/ ClientEnd(c) \/ InputError(c)
             \/ StreamSingle(c) \/ HandlerHead(c)
      PROVE  WireEmptyBeforeBody'
  BY <1>5 DEF ClientSend, ClientEnd, InputError, StreamSingle, HandlerHead,
     WireEmptyBeforeBody
<1>6. CASE UNCHANGED vars
  BY <1>6 DEF vars, WireEmptyBeforeBody
<1>7. QED
  BY SMTT(30), <1>1, <1>2, <1>3, <1>4, <1>5, <1>6 DEF Next

\* The mapped stage of every call.
Stages == [d \in Calls |-> Stage(d)]

\* Changing the phase of one call changes its mapped stage only.
LEMMA StagesExcept ==
  ASSUME TypeOK, NEW c \in Calls, NEW v, ph' = [ph EXCEPT ![c] = v]
  PROVE  Stages' = [Stages EXCEPT ![c] = StageOf(v)]
<1>1. \A d \in Calls : Stage(d)' = IF d = c THEN StageOf(v) ELSE Stage(d)
  BY DEF Stage, TypeOK
<1>2. QED
  BY <1>1 DEF Stages

\* The two phase changes of the transport's polls that change a stage.
LEMMA StagesTo ==
  ASSUME TypeOK, NEW c \in Calls
  PROVE  /\ ph' = [ph EXCEPT ![c] = "done"] => Stages' = [Stages EXCEPT ![c] = "closed"]
         /\ ph' = [ph EXCEPT ![c] = "body"] => Stages' = [Stages EXCEPT ![c] = "streaming"]
<1>1. StageOf("done") = "closed" /\ StageOf("body") = "streaming"
  BY DEF StageOf
<1>2. QED
  BY <1>1, StagesExcept

\* A step that keeps ph in the open stages, the wire and the loop is a stutter.
LEMMA OpenStutter ==
  ASSUME NEW c \in Calls, ph[c] \in {"idle", "queued", "head"},
         ph' = [ph EXCEPT ![c] = "head"] \/ ph' = [ph EXCEPT ![c] = "queued"]
           \/ ph' = ph,
         TypeOK, UNCHANGED <<crash, wire>>
  PROVE  UNCHANGED Response!vars
<1>1. Stages' = Stages
  BY DEF Stages, Stage, StageOf, TypeOK
<1>2. QED
  BY <1>1 DEF Response!vars, Stages, Alive

\* A panic on the event loop ends it: no later step sees Alive.
LEMMA CrashKills ==
  ASSUME NEW c \in Calls, NEW cause \in CrashCauses, Crash(c, cause)
  PROVE  ~Alive'
<1>1. crash' \in [call : Calls, cause : CrashCauses]
  BY DEF Crash
<1>2. QED
  BY <1>1, NoCrashAssumption DEF Alive

\* A panic on the event loop that leaves ph in the open stages is Die.
LEMMA OpenDie ==
  ASSUME NEW c \in Calls, ph[c] \in {"idle", "queued", "head"},
         ph' = [ph EXCEPT ![c] = "head"] \/ ph' = ph,
         TypeOK, Alive, ~Alive', UNCHANGED wire
  PROVE  Response!Die
<1>1. Stages' = Stages
  BY DEF Stages, Stage, StageOf, TypeOK
<1>2. QED
  BY <1>1 DEF Response!Die, Stages

\* handle_method on a call that is idle or queued.
LEMMA HandleMethodRefines ==
  ASSUME TypeOK, Alive, NEW c \in Calls, ph[c] \in {"idle", "queued"}, NEW p,
         HandleMethod(c, p), UNCHANGED wire
  PROVE  [Response!Next]_Response!vars
<1>1. ph' = [ph EXCEPT ![c] = "head"]
  BY DEF HandleMethod, Dispatch
<1>2. CASE UNCHANGED crash
  BY <1>1, <1>2, OpenStutter
<1>3. CASE Crash(c, "unknown_method") \/ Crash(c, "handler")
  <2>1. ~Alive'
    <3>1. "unknown_method" \in CrashCauses /\ "handler" \in CrashCauses
      BY DEF CrashCauses
    <3>2. QED
      BY <1>3, <3>1, CrashKills
  <2>2. Response!Die
    BY <1>1, <2>1, OpenDie
  <2>3. QED
    BY <2>2 DEF Response!Next
<1>4. QED
  BY <1>2, <1>3 DEF HandleMethod, HeadTaskPanic, Dispatch

LEMMA NextRefines ==
  TypeOK /\ WireEmptyBeforeBody /\ [Next]_vars => [Response!Next]_Response!vars
<1> SUFFICES ASSUME TypeOK, WireEmptyBeforeBody, [Next]_vars
             PROVE  [Response!Next]_Response!vars
  OBVIOUS
<1>1. ASSUME NEW c \in Calls, RejectRequest(c)
      PROVE  [Response!Next]_Response!vars
  <2>1. Stages' = [Stages EXCEPT ![c] = "closed"] /\ Stages[c] = "open"
    BY <1>1, StagesTo DEF RejectRequest, Stages, Stage, StageOf, TypeOK
  <2>2. Response!Refuse(c)
    BY <1>1, <2>1 DEF RejectRequest, Response!Refuse, Stages, Alive,
       Response!TrailersOnly, TrailersOnly
  <2>3. QED
    BY <2>2 DEF Response!Next
<1>2. ASSUME NEW c \in Calls, StartRequest(c)
      PROVE  [Response!Next]_Response!vars
  <2>1. PICK p \in Paths : path' = [path EXCEPT ![c] = p] /\ StartCall(c, p)
    BY <1>2 DEF StartRequest
  <2>2. CASE Starter = "sync" /\ HandleMethod(c, p)
    BY <1>2, <2>2, HandleMethodRefines DEF StartRequest
  <2>3. CASE /\ Starter = "pool"
             /\ ph' = [ph EXCEPT ![c] = "queued"]
             /\ UNCHANGED <<disp, head, crash>>
    BY <1>2, <2>3, OpenStutter DEF StartRequest
  <2>4. QED
    BY <2>1, <2>2, <2>3 DEF StartCall
<1>3. ASSUME NEW c \in Calls, PoolTask(c)
      PROVE  [Response!Next]_Response!vars
  BY <1>3, HandleMethodRefines DEF PoolTask
<1>4. ASSUME NEW c \in Calls, ClientSend(c) \/ ClientEnd(c) \/ InputError(c)
      PROVE  [Response!Next]_Response!vars
  <2>1. Stages' = Stages
    BY <1>4 DEF ClientSend, ClientEnd, InputError, Stages, Stage
  <2>2. QED
    BY <1>4, <2>1 DEF ClientSend, ClientEnd, InputError, Response!vars, Stages, Alive
<1>5. ASSUME NEW c \in Calls, StreamSingle(c)
      PROVE  [Response!Next]_Response!vars
  <2>1. CASE UNCHANGED crash
    BY <1>5, <2>1, OpenStutter DEF StreamSingle
  <2>2. CASE Crash(c, "handler")
    <3>1. ~Alive'
      BY <2>2, CrashKills DEF CrashCauses
    <3>2. Response!Die
      BY <1>5, <3>1, OpenDie DEF StreamSingle
    <3>3. QED
      BY <3>2 DEF Response!Next
  <2>3. QED
    BY <1>5, <2>1, <2>2 DEF StreamSingle, HeadTaskPanic
<1>6. ASSUME NEW c \in Calls, HandlerHead(c)
       PROVE  [Response!Next]_Response!vars
  <2>1. CASE UNCHANGED crash
    BY <1>6, <2>1, OpenStutter DEF HandlerHead
  <2>2. CASE Crash(c, "handler")
    <3>1. ~Alive'
      BY <2>2, CrashKills DEF CrashCauses
    <3>2. Response!Die
      BY <1>6, <3>1, OpenDie DEF HandlerHead
    <3>3. QED
      BY <3>2 DEF Response!Next
  <2>3. QED
    BY <1>6, <2>1, <2>2 DEF HandlerHead, HeadTaskPanic
<1>7. ASSUME NEW c \in Calls, PollHead(c)
      PROVE  [Response!Next]_Response!vars
  <2>0. wire[c] = <<>> /\ Stages[c] = "open"
    BY <1>7 DEF PollHead, WireEmptyBeforeBody, Stages, Stage, StageOf
  <2>1. CASE head[c] = "ok"
    <3>0. /\ ph' = [ph EXCEPT ![c] = "body"]
          /\ wire' = [wire EXCEPT ![c] = Append(@, Headers200)]
          /\ Alive /\ UNCHANGED crash
      BY <1>7, <2>1 DEF PollHead, CrashCauses
    <3>1. Stages' = [Stages EXCEPT ![c] = "streaming"]
      BY <3>0, StagesTo
    <3>2. wire' = [wire EXCEPT ![c] = <<Response!Headers200>>]
      BY <3>0, <2>0 DEF Response!Headers200, Headers200
    <3>4. Response!Begin(c)
      BY <2>0, <3>0, <3>1, <3>2 DEF Response!Begin, Stages, Alive
    <3>3. QED
      BY <3>4 DEF Response!Next
  <2>2. CASE head[c] = "err"
    <3>0. /\ ph' = [ph EXCEPT ![c] = "done"]
          /\ wire' = [wire EXCEPT ![c] = Append(@, Reset)]
          /\ Alive /\ UNCHANGED crash
      BY <1>7, <2>2 DEF PollHead, CrashCauses
    <3>1. Stages' = [Stages EXCEPT ![c] = "closed"]
      BY <3>0, StagesTo
    <3>2. wire' = [wire EXCEPT ![c] = <<Response!Reset>>]
      BY <3>0, <2>0 DEF Response!Reset, Reset
    <3>4. Response!Fail(c)
      BY <2>0, <3>0, <3>1, <3>2 DEF Response!Fail, Stages, Alive
    <3>3. QED
      BY <3>4 DEF Response!Next
  <2>3. CASE head[c] \in CrashCauses
    <3>1. Crash(c, head[c]) /\ UNCHANGED <<wire, ph>> /\ Alive /\ ph[c] = "head"
      BY <1>7, <2>3 DEF PollHead, CrashCauses
    <3>2. ~Alive'
      BY <2>3, <3>1, CrashKills
    <3>3. Response!Die
      BY <3>1, <3>2, OpenDie
    <3>4. QED
      BY <3>3 DEF Response!Next
  <2>4. QED
    BY <1>7, <2>1, <2>2, <2>3 DEF PollHead
<1>8. ASSUME NEW c \in Calls, PollItem(c)
      PROVE  [Response!Next]_Response!vars
  <2>0. Stages[c] = "streaming"
    BY <1>8 DEF PollItem, Stages, Stage, StageOf
  <2>1. CASE /\ outN[c] < OutBound(c)
             /\ \E part \in {DataPart} \cup {ErrorPart(s) : s \in ErrCodes \cup {NoStatus}} :
                   wire' = [wire EXCEPT ![c] = Append(@, part)]
             /\ outN' = [outN EXCEPT ![c] = @ + 1]
             /\ UNCHANGED <<crash, ph>>
    <3>1. Stages' = Stages
      BY <2>1 DEF Stages, Stage
    <3>2. Response!Emit(c)
      BY <1>8, <2>0, <2>1, <3>1 DEF PollItem, Response!Emit, Stages, Alive,
         ErrorPart, Response!Trailers, Trailers, Response!DataPart, DataPart
    <3>3. QED
      BY <3>2 DEF Response!Next
  <2>2. CASE /\ Flavor(c) \in SingleFlavors => outN[c] = 1
             /\ wire' = [wire EXCEPT ![c] = Append(@, Trailers(StatusOk))]
             /\ ph' = [ph EXCEPT ![c] = "done"]
             /\ UNCHANGED <<crash, outN>>
    <3>1. Stages' = [Stages EXCEPT ![c] = "closed"]
      BY <1>8, <2>2, StagesTo
    <3>2. Response!Finish(c)
      BY <1>8, <2>0, <2>2, <3>1 DEF PollItem, Response!Finish, Stages, Alive,
         Response!Trailers, Trailers, Response!StatusOk, StatusOk
    <3>3. QED
      BY <3>2 DEF Response!Next
  <2>3. CASE Crash(c, "stream") /\ UNCHANGED <<ph, outN, wire>>
    <3>1. Stages' = Stages
      BY <2>3 DEF Stages, Stage
    <3>2. ~Alive'
      BY <2>3, CrashKills DEF CrashCauses
    <3>3. Response!Die
      BY <1>8, <2>3, <3>1, <3>2 DEF PollItem, Response!Die, Stages
    <3>4. QED
      BY <3>3 DEF Response!Next
  <2>4. QED
    BY <1>8, <2>1, <2>2, <2>3 DEF PollItem
<1>9. CASE UNCHANGED vars
  BY <1>9 DEF vars, Response!vars, Stages, Stage, Alive
<1>10. QED
  BY <1>1, <1>2, <1>3, <1>4, <1>5, <1>7, <1>8, <1>9, <1>6 DEF Next

(* The pipeline of server.rs implements GrpcResponse (ImplementsResponse), *)
(* for every registry, bound and starter: every response is refused,       *)
(* failed, or headers, data and error trailers closed by grpc-status 0.   *)
THEOREM ResponseRefinement == Spec => ImplementsResponse
<1>1. Init => Response!Init
  BY DEF Init, Response!Init, Alive, Stage, StageOf
<1>2. Init => TypeOK /\ WireEmptyBeforeBody
  BY InitTypeOK, InitWire
<1>3. TypeOK /\ WireEmptyBeforeBody /\ [Next]_vars
        => (TypeOK /\ WireEmptyBeforeBody)'
  BY NextTypeOK, NextWire
<1>4. TypeOK /\ WireEmptyBeforeBody /\ [Next]_vars => [Response!Next]_Response!vars
  BY NextRefines
<1>5. QED
  BY <1>1, <1>2, <1>3, <1>4, PTL DEF Spec, ImplementsResponse, Response!Spec

=============================================================================
