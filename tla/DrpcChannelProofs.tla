------------------------- MODULE DrpcChannelProofs --------------------------
(***************************************************************************)
(* Proofs about DrpcChannel, for every number of descriptors, connections, *)
(* calls, cancels and pieces: CallMethod and its controller agree, a call  *)
(* that succeeds undisturbed has read all of the stream that was left, and *)
(* descriptors are safe while no Close of the canceller meets a Connect or *)
(* Close of the caller.                                                    *)
(***************************************************************************)
EXTENDS DrpcChannel, WellFoundedInduction, TLAPS

(* The places of a call once Reset has cleared m_failed, and the types of  *)
(* the state.                                                              *)
InCall == {"reset2", "reset3", "callback", "serialize", "sendEnter", "sendLoop", "sendCall", "recvEnter", "recvLoop",
           "recvCall", "recvWait", "parse"}
CallerAt == {"idle", "reset1"} \union InCall \union Connecting
CancellerAt == {"idle", "test", "invoke"} \union Closing
Threads == {"caller", "canceller"}
Files == Conns \union {Nothing, Foreign}
Numbers == Fds \union {Closed}

Pieces == Seq(Files \X Nat)

CallState == [ret : {"idle", "socket"}, left : 0..MaxRequest, got : Pieces, wait : Files,
              ended : Files, verdict : {"none", "ok", "failed"}, before : [Conns -> Nat], disturbed : BOOLEAN]
CtlState == [failed : BOOLEAN, canceled : BOOLEAN, callback : BOOLEAN]
ConnState == [written : Nat, read : Nat, eof : BOOLEAN, rst : BOOLEAN]
Counts == [conns : 0..MaxConns, calls : 0..MaxCalls, cancels : 0..MaxCancels]

Types ==
    /\ pc \in [Threads -> CallerAt \union CancellerAt]
    /\ sockfd \in Numbers /\ other \in Numbers
    /\ ctl \in CtlState
    /\ call \in CallState
    /\ used \in Counts
    /\ file \in [Fds -> Files]
    /\ conn \in [Conns -> ConnState]
    /\ overlap \in BOOLEAN

(* Connect goes on to socket() only while the bound allows a connection. *)
BoundInv == \/ pc["caller"] = "socket"
            \/ pc["caller"] \in Closing /\ call.ret = "socket"
            => used.conns < MaxConns

(* During a call there is no verdict, and after it there is the            *)
(* controller's; the flag of the last call is there until Reset clears it. *)
VerdictInv == /\ pc["caller"] # "reset1" => (call.verdict = "failed" <=> ctl.failed)
              /\ pc["caller"] \in InCall \union {"reset1"} => call.verdict = "none"

(* m_sockfd names a connection, except between the close of a socket and   *)
(* the reset of the number.                                                *)
SocketInv == sockfd # Closed /\ pc["caller"] # "close3" /\ pc["canceller"] # "close3"
                 => file[sockfd] \in Conns

(* Close, as long as it has m_sockfd to itself. *)
CloseInv ==
    ~overlap =>
        /\ ~(pc["caller"] \in Connecting /\ pc["canceller"] \in Closing)
        /\ pc["caller"] \in {"close2", "close3"} \/ pc["canceller"] \in {"close2", "close3"}
              => sockfd # Closed
        /\ pc["caller"] = "close3" \/ pc["canceller"] = "close3" => file[sockfd] \notin Conns
        /\ pc["caller"] = "socket" => sockfd = Closed
        /\ other # Closed => file[other] = Foreign
        /\ \A f \in Fds : file[f] \in Conns => f = sockfd

(* g holds the pieces of connection c after number b up to number r, in    *)
(* order.                                                                  *)
UpTo(g, c, b, r) == Len(g) = r - b /\ g = [i \in 1..Len(g) |-> <<c, b + i>>]

(* The places of a call before its first recv. *)
NoAnswerYet == {"reset1", "reset2", "reset3", "callback", "serialize", "sendEnter", "sendLoop",
                "sendCall", "recvEnter"}

(* A call that nobody disturbs stays on one connection. *)
StreamInv ==
    ~call.disturbed =>
        /\ pc["canceller"] = "idle"
        /\ pc["caller"] \in NoAnswerYet
              => call.got = <<>> /\ \A c \in Conns : conn[c].read = call.before[c]
        /\ pc["caller"] \in {"sendLoop", "sendCall", "recvEnter", "recvLoop", "recvCall", "recvWait"}
              => sockfd # Closed
        /\ pc["caller"] \in {"recvLoop", "recvCall", "recvWait"}
              => UpTo(call.got, OnSocket, call.before[OnSocket], conn[OnSocket].read)
        /\ pc["caller"] = "recvWait" => call.wait = OnSocket
        /\ pc["caller"] = "parse" \/ call.verdict = "ok" =>
              /\ call.ended \in Conns /\ conn[call.ended].eof
              /\ UpTo(call.got, call.ended, call.before[call.ended], conn[call.ended].written)

ChannelInv == Types /\ BoundInv /\ VerdictInv /\ SocketInv /\ CloseInv /\ StreamInv
-----------------------------------------------------------------------------
(* A step of one thread leaves the other where it is. *)
LEMMA MoveEffect ==
    ASSUME Types, NEW t \in Threads, NEW l, NEW next, Move(t, l, next)
    PROVE  /\ pc[t] = l /\ pc'[t] = next /\ other' = other
           /\ \A u \in Threads : u # t => pc'[u] = pc[u]
           /\ overlap' = (overlap \/ (pc'["caller"] \in Connecting /\ pc'["canceller"] \in Closing))
           /\ next \in CallerAt \union CancellerAt => pc' \in [Threads -> CallerAt \union CancellerAt]
  BY DEF Types, Move, Threads

(* The kernel hands out a descriptor that is free. *)
LEMMA LowestFree == ASSUME Free # {} PROVE Lowest(Free) \in Fds /\ file[Lowest(Free)] = Nothing
<1>1. Free \subseteq Nat
  BY DEF Free, Fds
<1>2. PICK f \in Free : \A g \in Free : ~(<<g, f>> \in OpToRel(<, Nat))
  BY <1>1, NatLessThanWellFounded, WFMin, Zenon
<1>3. \A g \in Free : ~(g < f)
  <2> SUFFICES ASSUME NEW g \in Free, g < f PROVE FALSE
    OBVIOUS
  <2>1. g \in Nat /\ f \in Nat
    BY <1>1
  <2>2. <<g, f>> \in Nat \X Nat
    BY <2>1
  <2>3. <<g, f>>[1] = g /\ <<g, f>>[2] = f
    OBVIOUS
  <2>4. <<g, f>>[1] < <<g, f>>[2]
    BY <2>3
  <2>5. <<g, f>> \in OpToRel(<, Nat)
    BY <2>2, <2>4, Zenon DEF OpToRel
  <2> QED
    BY <1>2, <2>5, Zenon
<1>4. \A g \in Free : f <= g
  BY <1>1, <1>3
<1>5. Lowest(Free) \in Free
  BY <1>4, Zenon DEF Lowest
<1> QED
  BY <1>5 DEF Free

(* The bounds are numbers, and no connection has the number of another     *)
(* kind of file.                                                           *)
LEMMA Bounds == /\ MaxConns \in Nat /\ MaxRequest \in Nat /\ MaxCalls \in Nat /\ MaxCancels \in Nat
                /\ Nothing \notin Conns /\ Foreign \notin Conns /\ Closed \notin Fds
  BY DrpcChannelBounds DEF Nothing, Foreign, Closed, Conns, Fds

(* The steps of a call that end before the answer of the kernel or after it. *)
CallAction ==
    \/ ResetCanceled \/ ResetCallback \/ SetCancelCallback \/ SerializeFails \/ \E n \in 0..MaxRequest : Serialize(n)
    \/ SendEnter \/ SendLoop \/ SendSome \/ SendInterrupted \/ SendError
    \/ RecvEnter \/ RecvLoop \/ RecvCall \/ RecvSome \/ RecvForeign \/ RecvInterrupted
    \/ RecvError \/ RecvEnd \/ ParseOk \/ ParseFails

(* What they have in common: they go on, or end with a verdict that the    *)
(* controller shares; they leave descriptors alone.                        *)
CallEffect(l, next, k) ==
    /\ CallStep(l, next, k)
    /\ l \in InCall
    /\ k \in CallState /\ k.disturbed = call.disturbed
    /\ ctl' \in CtlState
    /\ \/ next \in InCall /\ k.verdict = call.verdict /\ ctl'.failed = ctl.failed
       \/ next = "idle" /\ k.verdict = "failed" /\ ctl'.failed = TRUE
       \/ next = "idle" /\ k.verdict = "ok" /\ ctl'.failed = ctl.failed

(* A step of a call that fails. *)
LEMMA FailsEffect ==
    ASSUME Types, NEW l \in InCall, NEW k \in CallState, k.disturbed = call.disturbed, Fails(l, k)
    PROVE  /\ \E h : CallEffect(l, "idle", h)
           /\ conn' = conn
<1> DEFINE h == [k EXCEPT !.verdict = "failed", !.left = 0, !.got = <<>>, !.wait = Nothing]
<1>0. 0 \in 0..MaxRequest /\ <<>> \in Pieces /\ Nothing \in Files
  BY Bounds DEF Pieces, Files
<1>1. h \in CallState /\ h.disturbed = call.disturbed /\ h.verdict = "failed"
  BY <1>0 DEF CallState
<1>2. ctl' \in CtlState /\ ctl'.failed = TRUE
  BY DEF Fails, Types, CtlState
<1>3. CallStep(l, "idle", h)
  BY DEF Fails
<1> HIDE DEF h
<1> QED
  BY <1>1, <1>2, <1>3 DEF CallEffect, Fails

(* A step of a call that goes on. *)
LEMMA GoesOn ==
    ASSUME Types, NEW l \in InCall, NEW next \in InCall, NEW k \in CallState, CallStep(l, next, k),
           k.disturbed = call.disturbed, k.verdict = call.verdict,
           ctl' \in CtlState, ctl'.failed = ctl.failed
    PROVE  \E h : CallEffect(l, next, h)
  BY DEF CallEffect

(* A connection that has read or been reset. *)
LEMMA ConnUpdate ==
    ASSUME Types, NEW c \in Conns, NEW k \in ConnState
    PROVE  [conn EXCEPT ![c] = k] \in [Conns -> ConnState]
  BY DEF Types

(* Each step of a call has the common effect. *)
LEMMA CallActionEffect ==
    ASSUME Types, CallAction
    PROVE  /\ \E l, next, k : CallEffect(l, next, k)
           /\ conn' \in [Conns -> ConnState]
<1> DEFINE Goal == /\ \E l, next, k : CallEffect(l, next, k)
                   /\ conn' \in [Conns -> ConnState]
<1> SUFFICES Goal
  OBVIOUS
<1>0. call \in CallState /\ conn \in [Conns -> ConnState] /\ ctl \in CtlState
  BY DEF Types
<1>1. ASSUME NEW l \in InCall, Fails(l, call) PROVE Goal
  BY <1>0, <1>1, FailsEffect
<1>3. ASSUME NEW l \in InCall, NEW next \in InCall, CallStep(l, next, call), UNCHANGED <<ctl, conn>>
      PROVE  Goal
  BY <1>0, <1>3, GoesOn
<1>4. ASSUME NEW l \in InCall, NEW next \in InCall, NEW k \in CallState, CallStep(l, next, k),
             k.disturbed = call.disturbed, k.verdict = call.verdict, UNCHANGED ctl,
             conn' \in [Conns -> ConnState]
      PROVE  Goal
  BY <1>0, <1>4, GoesOn
<1>5. CASE ResetCanceled \/ ResetCallback \/ SetCancelCallback
  <2>1. ctl' \in CtlState /\ ctl'.failed = ctl.failed /\ conn' = conn
    BY <1>0, <1>5 DEF ResetCanceled, ResetCallback, SetCancelCallback, CtlState
  <2>2. PICK l \in InCall, next \in InCall : CallStep(l, next, call)
    BY <1>5 DEF ResetCanceled, ResetCallback, SetCancelCallback, InCall
  <2> QED
    BY <1>0, <2>1, <2>2, GoesOn
<1>6. ASSUME NEW n \in 0..MaxRequest, Serialize(n) PROVE Goal
  <2> DEFINE k == [call EXCEPT !.left = n]
  <2>1. k \in CallState /\ k.disturbed = call.disturbed /\ k.verdict = call.verdict
    BY <1>0 DEF CallState
  <2>2. CallStep("serialize", "sendEnter", k) /\ ctl' = ctl /\ conn' = conn
    BY <1>6 DEF Serialize
  <2> HIDE DEF k
  <2> QED
    BY <1>0, <1>4, <2>1, <2>2 DEF InCall
<1>7. CASE SerializeFails \/ ParseFails \/ RecvError
  BY <1>1, <1>7 DEF SerializeFails, ParseFails, RecvError, InCall
<1>8. CASE SendEnter \/ RecvEnter
  BY <1>1, <1>3, <1>8 DEF SendEnter, RecvEnter, TestSocket, InCall
<1>9. CASE SendLoop \/ RecvLoop
  BY <1>1, <1>3, <1>9 DEF SendLoop, RecvLoop, InCall
<1>10. CASE SendSome
  <2>1. PICK n \in 0..call.left - 1 : CallStep("sendCall", "sendLoop", [call EXCEPT !.left = n])
    BY <1>10 DEF SendSome
  <2> DEFINE k == [call EXCEPT !.left = n]
  <2>2. n \in 0..MaxRequest
    BY <1>0, <2>1, Bounds DEF CallState
  <2>3. k \in CallState /\ k.disturbed = call.disturbed /\ k.verdict = call.verdict
    BY <1>0, <2>2 DEF CallState
  <2>4. conn' \in [Conns -> ConnState]
    <3>1. CASE OnSocket \in Conns
      <4>1. [conn[OnSocket] EXCEPT !.rst = conn[OnSocket].eof] \in ConnState
        BY <1>0, <3>1 DEF ConnState
      <4> QED
        BY <1>10, <3>1, <4>1, ConnUpdate DEF SendSome
    <3> QED
      BY <1>0, <1>10, <3>1 DEF SendSome
  <2>5. CallStep("sendCall", "sendLoop", k) /\ ctl' = ctl
    BY <1>10, <2>1 DEF SendSome
  <2> HIDE DEF k
  <2> QED
    BY <1>4, <2>3, <2>4, <2>5 DEF InCall
<1>11. CASE SendInterrupted
  BY <1>0, <1>4, <1>11 DEF SendInterrupted, InCall
<1>12. CASE SendError
  BY <1>1, <1>12 DEF SendError, InCall
<1>13. CASE RecvCall
  <2>1. CASE Fails("recvCall", call)
    BY <1>1, <2>1 DEF InCall
  <2> DEFINE k == [call EXCEPT !.wait = OnSocket]
  <2>2. CASE CallStep("recvCall", "recvWait", k) /\ UNCHANGED <<ctl, conn>>
    <3>1. OnSocket \in Files
      BY DEF OnSocket, Types, Files, Numbers
    <3>2. k \in CallState /\ k.disturbed = call.disturbed /\ k.verdict = call.verdict
      BY <1>0, <3>1 DEF CallState
    <3> HIDE DEF k
    <3> QED
      BY <1>0, <1>4, <2>2, <3>2 DEF InCall
  <2> QED
    BY <1>13, <2>1, <2>2 DEF RecvCall
<1>14. ASSUME NEW p \in Nat, Received(p), ctl' = ctl, conn' \in [Conns -> ConnState]
       PROVE  Goal
  <2> DEFINE k == [call EXCEPT !.got = Append(@, <<call.wait, p>>), !.wait = Nothing]
  <2>1. Append(call.got, <<call.wait, p>>) \in Pieces
    BY <1>0 DEF CallState, Pieces
  <2>2. Nothing \in Files
    BY DEF Files
  <2>3. k \in CallState /\ k.disturbed = call.disturbed /\ k.verdict = call.verdict
    BY <1>0, <2>1, <2>2 DEF CallState
  <2>4. CallStep("recvWait", "recvLoop", k)
    BY <1>14 DEF Received
  <2> HIDE DEF k
  <2> QED
    BY <1>4, <1>14, <2>3, <2>4 DEF InCall
<1>15. CASE RecvSome
  <2>1. PICK c \in Conns : /\ Received(conn[c].read + 1) /\ ctl' = ctl
                           /\ conn' = [conn EXCEPT ![c] = [conn[c] EXCEPT !.read = @ + 1]]
    BY <1>15 DEF RecvSome
  <2>2. [conn[c] EXCEPT !.read = @ + 1] \in ConnState /\ conn[c].read + 1 \in Nat
    <3>1. conn[c] \in ConnState
      BY <1>0
    <3> QED
      BY <3>1 DEF ConnState
  <2>3. conn' \in [Conns -> ConnState]
    <3> DEFINE k == [conn[c] EXCEPT !.read = @ + 1]
    <3>1. k \in ConnState /\ conn' = [conn EXCEPT ![c] = k]
      BY <2>1, <2>2
    <3> HIDE DEF k
    <3> QED
      BY <3>1, ConnUpdate
  <2> QED
    BY <1>14, <2>1, <2>2, <2>3
<1>16. CASE RecvForeign
  BY <1>0, <1>14, <1>16 DEF RecvForeign
<1>17. CASE RecvInterrupted
  <2> DEFINE k == [call EXCEPT !.wait = Nothing]
  <2>1. k \in CallState /\ k.disturbed = call.disturbed /\ k.verdict = call.verdict
    BY <1>0 DEF CallState, Files
  <2>2. CallStep("recvWait", "recvLoop", k) /\ ctl' = ctl /\ conn' = conn
    BY <1>17 DEF RecvInterrupted
  <2> HIDE DEF k
  <2> QED
    BY <1>0, <1>4, <2>1, <2>2 DEF InCall
<1>18. CASE RecvEnd
  <2> DEFINE k == [call EXCEPT !.ended = call.wait, !.wait = Nothing]
  <2>1. k \in CallState /\ k.disturbed = call.disturbed /\ k.verdict = call.verdict
    BY <1>0 DEF CallState, Files
  <2>2. CallStep("recvWait", "parse", k) /\ ctl' = ctl /\ conn' = conn
    BY <1>18 DEF RecvEnd
  <2> HIDE DEF k
  <2> QED
    BY <1>0, <1>4, <2>1, <2>2 DEF InCall
<1>19. CASE ParseOk
  <2> DEFINE k == [call EXCEPT !.verdict = "ok"]
  <2>1. k \in CallState /\ k.disturbed = call.disturbed /\ k.verdict = "ok"
    BY <1>0 DEF CallState
  <2>2. CallStep("parse", "idle", k) /\ ctl' = ctl /\ conn' = conn
    BY <1>19 DEF ParseOk, Succeeds
  <2> HIDE DEF k
  <2>3. CallEffect("parse", "idle", k)
    BY <1>0, <2>1, <2>2 DEF CallEffect, InCall
  <2> QED
    BY <1>0, <2>2, <2>3
<1> HIDE DEF Goal
<1> QED
  BY <1>5, <1>6, <1>7, <1>8, <1>9, <1>10, <1>11, <1>12, <1>13, <1>15, <1>16, <1>17, <1>18, <1>19
     DEF CallAction

(* A step of a thread keeps the types if what it assigns has its type. *)
LEMMA MoveTypes ==
    ASSUME Types, NEW t \in Threads, NEW l, NEW next \in CallerAt \union CancellerAt, Move(t, l, next),
           sockfd' \in Numbers, ctl' \in CtlState, call' \in CallState, used' \in Counts,
           file' \in [Fds -> Files], conn' \in [Conns -> ConnState]
    PROVE  Types'
<1>1. pc' \in [Threads -> CallerAt \union CancellerAt] /\ other' \in Numbers
  BY MoveEffect DEF Types
<1>2. overlap' \in BOOLEAN
  BY MoveEffect
<1> QED
  BY <1>1, <1>2 DEF Types

(* Every step keeps the types. *)
LEMMA TypesStep ==
    ASSUME Types, BoundInv, [Next]_vars
    PROVE  Types'
<1>0. /\ sockfd \in Numbers /\ other \in Numbers
      /\ ctl \in CtlState /\ call \in CallState /\ used \in Counts /\ file \in [Fds -> Files]
      /\ conn \in [Conns -> ConnState]
  BY DEF Types
<1>a. /\ {"idle", "close1", "close2", "close3", "socket", "connect", "reset1", "reset2", "sendCall",
          "test", "invoke"} \subseteq CallerAt \union CancellerAt
      /\ InCall \subseteq CallerAt \union CancellerAt
      /\ call.ret \in {"idle", "socket"}
      /\ "caller" \in Threads /\ "canceller" \in Threads
      /\ Closed \in Numbers /\ Nothing \in Files /\ Foreign \in Files
  BY <1>0 DEF CallerAt, CancellerAt, InCall, Connecting, Closing, CallState, Threads, Numbers, Files
<1>b. /\ [call EXCEPT !.ret = "idle"] \in CallState /\ [call EXCEPT !.ret = "socket"] \in CallState
      /\ [call EXCEPT !.disturbed = TRUE] \in CallState
  BY <1>0 DEF CallState
<1>1. ASSUME NEW t \in Threads, CloseTest(t) \/ CloseReset(t) PROVE Types'
  BY <1>0, <1>1, <1>a, MoveTypes DEF CloseTest, CloseReset, AfterClose
<1>2. ASSUME NEW t \in Threads, CloseSocket(t) PROVE Types'
  <2>1. file' \in [Fds -> Files]
    BY <1>0, <1>2, <1>a DEF CloseSocket
  <2> QED
    BY <1>0, <1>2, <1>a, <2>1, MoveTypes DEF CloseSocket
<1>3. CASE Close \/ ConnectFails
  BY <1>0, <1>3, <1>a, <1>b, MoveTypes DEF Close, ConnectFails
<1>12. CASE Connect
  BY <1>0, <1>12, <1>a, <1>b, MoveTypes DEF Connect
<1>4. CASE Socket
  <2>1. used.conns < MaxConns
    BY <1>4, <1>a, MoveEffect DEF Socket, BoundInv
  <2>2. used' \in Counts /\ used'.conns \in Conns
    <3>1. used.conns + 1 \in 0..MaxConns /\ used.conns + 1 \in Conns
      BY <1>0, <2>1, Bounds DEF Counts, Conns
    <3> QED
      BY <1>0, <1>4, <3>1 DEF Socket, Counts
  <2>3. Lowest(Free) \in Fds
    BY <1>4, LowestFree DEF Socket
  <2>4. file' \in [Fds -> Files] /\ sockfd' \in Numbers
    BY <1>0, <1>4, <2>2, <2>3 DEF Socket, Files, Numbers
  <2> QED
    BY <1>0, <1>4, <1>a, <2>2, <2>4, MoveTypes DEF Socket
<1>5. CASE SocketFails \/ ConnectOk \/ CancelTest \/ CancelInvoke \/ SigPipe
  BY <1>0, <1>5, <1>a, MoveTypes DEF SocketFails, ConnectOk, CancelTest, CancelInvoke, SigPipe
<1>6. CASE CallMethod
  <2>1. used' \in Counts
    BY <1>0, <1>6, Bounds DEF CallMethod, Counts
  <2>2. 0 \in 0..MaxRequest /\ <<>> \in Pieces
    BY Bounds DEF Pieces
  <2> DEFINE b == [c \in Conns |-> conn[c].read]
  <2>3. b \in [Conns -> Nat]
    BY <1>0 DEF ConnState
  <2>4. call' = [Fresh EXCEPT !.before = b, !.disturbed = pc["canceller"] # "idle"]
    BY <1>6 DEF CallMethod
  <2> HIDE DEF b
  <2>5. call' \in CallState
    BY <1>a, <2>2, <2>3, <2>4 DEF Fresh, CallState
  <2> QED
    BY <1>0, <1>6, <1>a, <2>1, <2>5, MoveTypes DEF CallMethod
<1>13. CASE ResetFailed
  <2>1. ctl' \in CtlState
    BY <1>0, <1>13 DEF ResetFailed, CtlState
  <2> QED
    BY <1>0, <1>13, <1>a, <2>1, MoveTypes DEF ResetFailed, CallStep
<1>7. CASE CallAction
  <2>1. PICK l, next, k : CallEffect(l, next, k)
    BY <1>7, CallActionEffect
  <2>2. conn' \in [Conns -> ConnState]
    BY <1>7, CallActionEffect
  <2>3. Move("caller", l, next) /\ next \in InCall \union {"idle"} /\ call' \in CallState
    BY <2>1 DEF CallEffect, CallStep
  <2> QED
    BY <1>0, <1>a, <2>1, <2>2, <2>3, MoveTypes DEF CallEffect, CallStep
<1>8. CASE StartCancel
  <2>1. used' \in Counts
    BY <1>0, <1>8, Bounds DEF StartCancel, Counts
  <2>2. ctl' \in CtlState
    BY <1>0, <1>8 DEF StartCancel, CtlState
  <2> QED
    BY <1>0, <1>8, <1>a, <1>b, <2>1, <2>2, MoveTypes DEF StartCancel
<1>9. ASSUME NEW c \in Conns, PeerWrites(c) \/ PeerCloses(c) PROVE Types'
  <2>1. conn[c] \in ConnState
    BY <1>0
  <2>2. ASSUME NEW k \in ConnState, Peer(c, k) PROVE Types'
    <3>1. conn' \in [Conns -> ConnState]
      BY <2>2, ConnUpdate DEF Peer
    <3> QED
      BY <2>2, <3>1 DEF Peer, Types
  <2>3. CASE PeerWrites(c)
    <3> DEFINE k == [conn[c] EXCEPT !.written = @ + 1]
    <3>1. k \in ConnState
      BY <2>1 DEF ConnState
    <3>2. Peer(c, k)
      BY <2>3 DEF PeerWrites
    <3> QED
      BY <2>2, <3>1, <3>2
  <2>4. CASE PeerCloses(c)
    <3>1. PICK r \in BOOLEAN : Peer(c, [conn[c] EXCEPT !.eof = TRUE, !.rst = r])
      BY <2>4, Zenon DEF PeerCloses
    <3> DEFINE k == [conn[c] EXCEPT !.eof = TRUE, !.rst = r]
    <3>2. k \in ConnState
      BY <2>1 DEF ConnState
    <3> QED
      BY <2>2, <3>1, <3>2, Zenon
  <2> QED
    BY <1>9, <2>3, <2>4
<1>10. CASE OtherOpens
  <2>1. Lowest(Free) \in Fds
    BY <1>10, LowestFree DEF OtherOpens
  <2>2. other' \in Numbers /\ file' \in [Fds -> Files]
    BY <1>0, <1>10, <1>a, <2>1 DEF OtherOpens, Numbers
  <2> QED
    BY <1>10, <2>2 DEF OtherOpens, Types
<1>11. CASE UNCHANGED vars
  BY <1>11 DEF vars, Types
<1> QED
  BY <1>1, <1>2, <1>3, <1>4, <1>5, <1>6, <1>7, <1>8, <1>9, <1>10, <1>11, <1>12,
     <1>13
  DEF Next, CallerStep, CancellerStep, CloseStep, CallAction, Threads

(* What a peer does to its connection. *)
LEMMA PeerEffect ==
    ASSUME Types, NEW c \in Conns, PeerWrites(c) \/ PeerCloses(c)
    PROVE  /\ pc' = pc /\ sockfd' = sockfd /\ ctl' = ctl /\ call' = call /\ used' = used
           /\ file' = file /\ other' = other /\ overlap' = overlap
           /\ \A d \in Conns : /\ conn'[d].read = conn[d].read
                               /\ conn[d].eof => conn'[d] = conn[d]
<1> DEFINE Goal == /\ pc' = pc /\ sockfd' = sockfd /\ ctl' = ctl /\ call' = call /\ used' = used
                   /\ file' = file /\ other' = other /\ overlap' = overlap
                   /\ \A d \in Conns : /\ conn'[d].read = conn[d].read
                                       /\ conn[d].eof => conn'[d] = conn[d]
<1> SUFFICES Goal
  OBVIOUS
<1>1. ASSUME NEW k, Peer(c, k), k.read = conn[c].read PROVE Goal
  BY <1>1 DEF Peer, Types
<1>2. conn[c] \in ConnState
  BY DEF Types
<1> HIDE DEF Goal
<1>3. CASE PeerWrites(c)
  <2> DEFINE k == [conn[c] EXCEPT !.written = @ + 1]
  <2>1. Peer(c, k)
    BY <1>3 DEF PeerWrites
  <2>2. k.read = conn[c].read
    BY <1>2 DEF ConnState
  <2> HIDE DEF k
  <2> QED
    BY <1>1, <2>1, <2>2
<1>4. CASE PeerCloses(c)
  <2>1. PICK r \in BOOLEAN : Peer(c, [conn[c] EXCEPT !.eof = TRUE, !.rst = r])
    BY <1>4, Zenon DEF PeerCloses
  <2> DEFINE k == [conn[c] EXCEPT !.eof = TRUE, !.rst = r]
  <2>2. k.read = conn[c].read
    BY <1>2 DEF ConnState
  <2>3. Peer(c, k)
    BY <2>1, Zenon
  <2> HIDE DEF k
  <2> QED
    BY <1>1, <2>2, <2>3
<1> QED
  BY <1>3, <1>4

(* What a step of a call leaves alone. *)
LEMMA CallActionFrame ==
    ASSUME Types, CallAction
    PROVE  /\ pc["caller"] \in InCall /\ pc'["caller"] \in InCall \union {"idle"}
           /\ pc'["canceller"] = pc["canceller"]
           /\ sockfd' = sockfd /\ used' = used /\ file' = file /\ other' = other
           /\ overlap' = overlap /\ call'.disturbed = call.disturbed
<1>1. PICK l, next, k : CallEffect(l, next, k)
  BY CallActionEffect
<1>2. /\ Move("caller", l, next) /\ call' = k
      /\ sockfd' = sockfd /\ used' = used /\ file' = file
  BY <1>1 DEF CallEffect, CallStep
<1>3. next \in InCall \union {"idle"} /\ next \notin Connecting /\ l \in InCall
  BY <1>1 DEF CallEffect, InCall, Connecting, Closing
<1>4. /\ pc["caller"] = l /\ pc'["caller"] = next /\ pc'["canceller"] = pc["canceller"]
      /\ other' = other
      /\ overlap' = (overlap \/ (pc'["caller"] \in Connecting /\ pc'["canceller"] \in Closing))
  BY <1>2, MoveEffect DEF Threads
<1>5. overlap' = overlap
  BY <1>3, <1>4 DEF Types
<1> QED
  BY <1>1, <1>2, <1>3, <1>4, <1>5 DEF CallEffect

(* Every step keeps the bound on connections. *)
LEMMA BoundStep ==
    ASSUME Types, BoundInv, [Next]_vars
    PROVE  BoundInv'
<1>0. call \in CallState
  BY DEF Types
<1> USE <1>0 DEF BoundInv, Threads, Connecting, Closing
<1>1. ASSUME NEW t \in Threads, CloseTest(t) \/ CloseSocket(t) \/ CloseReset(t) PROVE BoundInv'
  BY <1>1, MoveEffect DEF CloseTest, CloseSocket, CloseReset, AfterClose, CallState
<1>2. CASE Close \/ Connect \/ ConnectFails
  BY <1>2, MoveEffect DEF Close, Connect, ConnectFails, CallState
<1>3. CASE Socket \/ SocketFails \/ ConnectOk
  BY <1>3, MoveEffect DEF Socket, SocketFails, ConnectOk
<1>4. CASE CallMethod \/ ResetFailed
  BY <1>4, MoveEffect DEF CallMethod, ResetFailed, CallStep
<1>5. CASE CallAction
  BY <1>5, CallActionFrame DEF InCall
<1>6. CASE SigPipe \/ CancelTest \/ CancelInvoke
  BY <1>6, MoveEffect DEF SigPipe, CancelTest, CancelInvoke
<1>7. CASE StartCancel
  <2>1. /\ used'.conns = used.conns /\ call'.ret = call.ret /\ pc'["caller"] = pc["caller"]
    BY <1>7, MoveEffect DEF StartCancel, CallState, Types, Counts
  <2> QED
    BY <2>1
<1>8. ASSUME NEW c \in Conns, PeerWrites(c) \/ PeerCloses(c) PROVE BoundInv'
  BY <1>8, PeerEffect
<1>9. CASE OtherOpens \/ UNCHANGED vars
  BY <1>9 DEF OtherOpens, vars
<1> QED
  BY <1>1, <1>2, <1>3, <1>4, <1>5, <1>6, <1>7, <1>8, <1>9
  DEF Next, CallerStep, CancellerStep, CloseStep, CallAction, Threads

(* Every step keeps the verdict of a call and its controller together. *)
LEMMA VerdictStep ==
    ASSUME Types, VerdictInv, [Next]_vars
    PROVE  VerdictInv'
<1>0. call \in CallState /\ ctl \in CtlState
  BY DEF Types
<1> USE <1>0 DEF VerdictInv, Threads, Connecting, Closing, InCall
<1>1. ASSUME NEW t \in Threads, CloseTest(t) \/ CloseSocket(t) \/ CloseReset(t) PROVE VerdictInv'
  BY <1>1, MoveEffect DEF CloseTest, CloseSocket, CloseReset, AfterClose, CallState
<1>2. CASE Close \/ Connect \/ ConnectFails
  BY <1>2, MoveEffect DEF Close, Connect, ConnectFails, CallState
<1>3. CASE Socket \/ SocketFails \/ ConnectOk
  BY <1>3, MoveEffect DEF Socket, SocketFails, ConnectOk
<1>4. CASE CallMethod \/ ResetFailed
  <2>1. CASE CallMethod
    BY <2>1, MoveEffect DEF CallMethod, Fresh
  <2>2. CASE ResetFailed
    BY <2>2, MoveEffect DEF ResetFailed, CallStep, CtlState
  <2> QED
    BY <1>4, <2>1, <2>2
<1>5. CASE CallAction
  <2>1. PICK l, next, k : CallEffect(l, next, k)
    BY <1>5, CallActionEffect
  <2>2. pc["caller"] = l /\ pc'["caller"] = next /\ call' = k
    BY <2>1, MoveEffect DEF CallEffect, CallStep
  <2> QED
    BY <2>1, <2>2 DEF CallEffect, CallState, CtlState
<1>6. CASE SigPipe \/ CancelTest \/ CancelInvoke
  BY <1>6, MoveEffect DEF SigPipe, CancelTest, CancelInvoke
<1>7. CASE StartCancel
  <2>1. /\ call'.verdict = call.verdict /\ pc'["caller"] = pc["caller"]
        /\ ctl'.failed = ctl.failed
    BY <1>7, MoveEffect DEF StartCancel, CallState, CtlState
  <2> QED
    BY <2>1
<1>8. ASSUME NEW c \in Conns, PeerWrites(c) \/ PeerCloses(c) PROVE VerdictInv'
  BY <1>8, PeerEffect
<1>9. CASE OtherOpens \/ UNCHANGED vars
  BY <1>9 DEF OtherOpens, vars
<1> QED
  BY <1>1, <1>2, <1>3, <1>4, <1>5, <1>6, <1>7, <1>8, <1>9
  DEF Next, CallerStep, CancellerStep, CloseStep, CallAction, Threads

(* Every step keeps m_sockfd on a connection outside Close. *)
LEMMA SocketStep ==
    ASSUME Types, BoundInv, SocketInv, [Next]_vars
    PROVE  SocketInv'
<1>0. sockfd \in Numbers /\ file \in [Fds -> Files]
  BY DEF Types
<1> USE <1>0 DEF SocketInv, Threads, Connecting, Closing
<1>1. ASSUME NEW t \in Threads, CloseTest(t) \/ CloseSocket(t) \/ CloseReset(t) PROVE SocketInv'
  <2>1. CASE CloseTest(t)
    BY <2>1, MoveEffect DEF CloseTest
  <2>2. CASE CloseSocket(t)
    BY <2>2, MoveEffect DEF CloseSocket
  <2>3. CASE CloseReset(t)
    BY <2>3, MoveEffect DEF CloseReset
  <2> QED
    BY <1>1, <2>1, <2>2, <2>3
<1>2. CASE Close \/ Connect \/ ConnectFails
  BY <1>2, MoveEffect DEF Close, Connect, ConnectFails
<1>3. CASE Socket \/ SocketFails \/ ConnectOk
  <2>1. CASE Socket
    <3>1. used'.conns \in Conns
      <4>1. used.conns < MaxConns
        BY <2>1, MoveEffect DEF Socket, BoundInv
      <4>2. used'.conns = used.conns + 1 /\ used.conns \in Nat
        BY <2>1 DEF Socket, Types, Counts
      <4> QED
        BY <4>1, <4>2, Bounds DEF Conns
    <3>2. sockfd' \in Fds /\ file' = [file EXCEPT ![sockfd'] = used'.conns]
      BY <2>1, LowestFree DEF Socket
    <3> QED
      BY <3>1, <3>2
  <2>2. CASE SocketFails \/ ConnectOk
    BY <2>2, MoveEffect DEF SocketFails, ConnectOk
  <2> QED
    BY <1>3, <2>1, <2>2
<1>4. CASE CallMethod \/ ResetFailed
  BY <1>4, MoveEffect DEF CallMethod, ResetFailed, CallStep
<1>5. CASE CallAction
  BY <1>5, CallActionFrame DEF InCall
<1>6. CASE SigPipe \/ CancelTest \/ CancelInvoke
  BY <1>6, MoveEffect DEF SigPipe, CancelTest, CancelInvoke
<1>7. CASE StartCancel
  BY <1>7, MoveEffect DEF StartCancel
<1>8. ASSUME NEW c \in Conns, PeerWrites(c) \/ PeerCloses(c) PROVE SocketInv'
  BY <1>8, PeerEffect
<1>9. CASE OtherOpens \/ UNCHANGED vars
  <2>1. CASE OtherOpens
    BY <2>1, LowestFree, Bounds DEF OtherOpens, Numbers
  <2> QED
    BY <1>9, <2>1 DEF vars
<1> QED
  BY <1>1, <1>2, <1>3, <1>4, <1>5, <1>6, <1>7, <1>8, <1>9
  DEF Next, CallerStep, CancellerStep, CloseStep, CallAction, Threads

(* Where the two threads go in a step of one of them. *)
LEMMA CallerMove ==
    ASSUME Types, NEW l, NEW next, Move("caller", l, next)
    PROVE  /\ pc["caller"] = l /\ pc'["caller"] = next /\ pc'["canceller"] = pc["canceller"]
           /\ other' = other
           /\ overlap' = (overlap \/ (next \in Connecting /\ pc["canceller"] \in Closing))
  BY MoveEffect DEF Threads

(* The same for the canceller. *)
LEMMA CancellerMove ==
    ASSUME Types, NEW l, NEW next, Move("canceller", l, next)
    PROVE  /\ pc["canceller"] = l /\ pc'["canceller"] = next /\ pc'["caller"] = pc["caller"]
           /\ other' = other
           /\ overlap' = (overlap \/ (pc["caller"] \in Connecting /\ next \in Closing))
  BY MoveEffect DEF Threads

(* A step that touches no descriptor and does not go on in a Close or to   *)
(* socket() leaves descriptors in order.                                   *)
LEMMA CloseKept ==
    ASSUME CloseInv, sockfd' = sockfd, file' = file, other' = other, overlap => overlap',
           pc'["caller"] \in Connecting /\ pc'["canceller"] \in Closing => overlap',
           \A t \in Threads : pc'[t] \in {"close2", "close3"} => pc'[t] = pc[t],
           pc'["caller"] = "socket" => sockfd = Closed
    PROVE  CloseInv'
  BY DEF CloseInv, Threads

(* Every step keeps descriptors in order while nothing overlaps. *)
LEMMA CloseStepInv ==
    ASSUME Types, BoundInv, SocketInv, CloseInv, [Next]_vars
    PROVE  CloseInv'
<1>0. sockfd \in Numbers /\ file \in [Fds -> Files] /\ other \in Numbers /\ overlap \in BOOLEAN
      /\ call.ret \in {"idle", "socket"}
  BY DEF Types, CallState
<1>1. ASSUME NEW t \in Threads, CloseTest(t) PROVE CloseInv'
  <2>1. sockfd' = sockfd /\ file' = file
    BY <1>1 DEF CloseTest
  <2>2. CASE t = "caller"
    <3>1. /\ pc["caller"] = "close1" /\ pc'["canceller"] = pc["canceller"] /\ other' = other
          /\ pc'["caller"] = IF sockfd # Closed THEN "close2" ELSE call.ret
          /\ overlap' = (overlap \/ (pc'["caller"] \in Connecting /\ pc["canceller"] \in Closing))
      BY <1>1, <2>2, CallerMove DEF CloseTest, AfterClose
    <3> QED
      BY <1>0, <2>1, <3>1 DEF CloseInv, SocketInv, Connecting, Closing
  <2>3. CASE t = "canceller"
    <3>1. /\ pc["canceller"] = "close1" /\ pc'["caller"] = pc["caller"] /\ other' = other
          /\ pc'["canceller"] = IF sockfd # Closed THEN "close2" ELSE "idle"
          /\ overlap' = (overlap \/ (pc["caller"] \in Connecting /\ pc'["canceller"] \in Closing))
      BY <1>1, <2>3, CancellerMove DEF CloseTest, AfterClose
    <3> QED
      BY <1>0, <2>1, <3>1 DEF CloseInv, SocketInv, Connecting, Closing
  <2> QED
    BY <2>2, <2>3 DEF Threads
<1>2. ASSUME NEW t \in Threads, CloseSocket(t) PROVE CloseInv'
  <2>1. /\ pc[t] = "close2" /\ pc'[t] = "close3" /\ other' = other /\ sockfd' = sockfd
        /\ \A u \in Threads : u # t => pc'[u] = pc[u]
        /\ overlap' = (overlap \/ (pc'["caller"] \in Connecting /\ pc'["canceller"] \in Closing))
    BY <1>2, MoveEffect DEF CloseSocket
  <2> SUFFICES ASSUME ~overlap' PROVE CloseInv'
    BY DEF CloseInv
  <2>2. /\ ~overlap /\ sockfd # Closed
        /\ ~(pc'["caller"] \in Connecting /\ pc'["canceller"] \in Closing)
    BY <2>1 DEF CloseInv, Threads
  <2>3. pc["caller"] # "close3" /\ pc["canceller"] # "close3"
    BY <2>1, <2>2 DEF CloseInv, Threads, Connecting, Closing
  <2>4. sockfd \in Fds /\ file[sockfd] \in Conns /\ file' = [file EXCEPT ![sockfd] = Nothing]
    BY <1>0, <1>2, <2>2, <2>3 DEF CloseSocket, SocketInv, Numbers
  <2>5. other # Closed => other \in Fds /\ other # sockfd /\ file[other] = Foreign
    BY <1>0, <2>2, <2>4, Bounds DEF CloseInv, Numbers
  <2>6. /\ file'[sockfd] = Nothing
        /\ \A f \in Fds : f # sockfd => file'[f] = file[f]
    BY <1>0, <2>4
  <2>7. \A f \in Fds : file'[f] \notin Conns
    BY <2>2, <2>6, Bounds DEF CloseInv
  <2>8. pc'["caller"] # "socket"
    BY <2>1, <2>2 DEF Threads, Connecting, Closing
  <2> QED
    BY <2>1, <2>2, <2>4, <2>5, <2>6, <2>7, <2>8 DEF CloseInv
<1>3. ASSUME NEW t \in Threads, CloseReset(t) PROVE CloseInv'
  <2>1. /\ pc[t] = "close3" /\ pc'[t] = AfterClose(t) /\ other' = other /\ sockfd' = Closed
        /\ file' = file
        /\ \A u \in Threads : u # t => pc'[u] = pc[u]
        /\ overlap' = (overlap \/ (pc'["caller"] \in Connecting /\ pc'["canceller"] \in Closing))
    BY <1>3, MoveEffect DEF CloseReset
  <2> SUFFICES ASSUME ~overlap' PROVE CloseInv'
    BY DEF CloseInv
  <2>2. /\ ~overlap /\ file[sockfd] \notin Conns
        /\ ~(pc'["caller"] \in Connecting /\ pc'["canceller"] \in Closing)
        /\ ~(pc["caller"] \in Connecting /\ pc["canceller"] \in Closing)
    BY <2>1 DEF CloseInv, Threads
  <2>3. \A f \in Fds : file'[f] \notin Conns
    BY <2>1, <2>2 DEF CloseInv
  <2>4. pc'["caller"] \notin {"close2", "close3"} /\ pc'["canceller"] \notin {"close2", "close3"}
    <3>1. CASE t = "caller"
      BY <1>0, <2>1, <2>2, <3>1 DEF Threads, AfterClose, Connecting, Closing
    <3>2. CASE t = "canceller"
      BY <2>1, <2>2, <3>2 DEF Threads, AfterClose, Connecting, Closing
    <3> QED
      BY <3>1, <3>2 DEF Threads
  <2> QED
    BY <2>1, <2>2, <2>3, <2>4 DEF CloseInv
<1>4. CASE Socket
  <2>1. /\ sockfd' \in Fds /\ file[sockfd'] = Nothing
        /\ file' = [file EXCEPT ![sockfd'] = used'.conns]
    BY <1>4, LowestFree DEF Socket
  <2>2. /\ pc["caller"] = "socket" /\ pc'["caller"] = "connect"
        /\ pc'["canceller"] = pc["canceller"] /\ other' = other
        /\ overlap' = (overlap \/ pc["canceller"] \in Closing)
    BY <1>4, CallerMove DEF Socket, Connecting
  <2> SUFFICES ASSUME ~overlap' PROVE CloseInv'
    BY DEF CloseInv
  <2>3. /\ ~overlap /\ pc["canceller"] \notin Closing /\ sockfd = Closed
        /\ other # Closed => file[other] = Foreign
    BY <2>2 DEF CloseInv
  <2>4. /\ \A f \in Fds : f # sockfd' => file'[f] = file[f]
        /\ \A f \in Fds : file[f] \notin Conns
    BY <1>0, <2>1, <2>3, Bounds DEF CloseInv
  <2>5. other # Closed => other \in Fds /\ other # sockfd'
    BY <1>0, <2>1, <2>3 DEF Numbers, Nothing, Foreign
  <2> QED
    BY <2>1, <2>2, <2>3, <2>4, <2>5, Bounds DEF CloseInv, Closing
<1>5. CASE SocketFails
  <2>1. pc["caller"] = "socket" /\ pc'["caller"] = "idle" /\ pc'["canceller"] = pc["canceller"]
        /\ other' = other /\ file' = file /\ sockfd' = Closed
        /\ overlap' = (overlap \/ ("idle" \in Connecting /\ pc["canceller"] \in Closing))
    BY <1>5, CallerMove DEF SocketFails
  <2> QED
    BY <1>0, <2>1 DEF CloseInv, Connecting, Closing
<1>6. CASE Close \/ ConnectOk \/ ConnectFails \/ CallMethod \/ ResetFailed \/ SigPipe
  <2>1. pc'["caller"] \in {"close1", "idle", "reset1", "reset2", "sendCall"}
        /\ pc'["canceller"] = pc["canceller"] /\ other' = other /\ file' = file /\ sockfd' = sockfd
        /\ overlap' = (overlap \/ (pc'["caller"] \in Connecting /\ pc["canceller"] \in Closing))
    BY <1>6, CallerMove
       DEF Close, ConnectOk, ConnectFails, CallMethod, ResetFailed, CallStep, SigPipe
  <2> QED
    BY <1>0, <2>1, CloseKept DEF Threads
<1>7. CASE Connect
  <2>1. pc'["caller"] = (IF sockfd # Closed THEN "close1" ELSE "socket")
        /\ pc'["canceller"] = pc["canceller"] /\ other' = other /\ file' = file /\ sockfd' = sockfd
        /\ overlap' = (overlap \/ (pc'["caller"] \in Connecting /\ pc["canceller"] \in Closing))
    BY <1>7, CallerMove DEF Connect
  <2> QED
    BY <1>0, <2>1, CloseKept DEF Threads
<1>8. CASE StartCancel \/ CancelTest \/ CancelInvoke
  <2>1. pc'["canceller"] \in {"test", "invoke", "idle", "close1"}
        /\ pc'["caller"] = pc["caller"] /\ other' = other /\ file' = file /\ sockfd' = sockfd
        /\ overlap' = (overlap \/ (pc["caller"] \in Connecting /\ pc'["canceller"] \in Closing))
    BY <1>8, CancellerMove DEF StartCancel, CancelTest, CancelInvoke
  <2>2. ~overlap' /\ pc'["caller"] = "socket" => sockfd = Closed
    BY <2>1 DEF CloseInv
  <2> QED
    BY <1>0, <2>1, <2>2 DEF CloseInv
<1>9. CASE CallAction
  <2>1. /\ pc'["caller"] \in InCall \union {"idle"} /\ pc'["canceller"] = pc["canceller"]
        /\ other' = other /\ file' = file /\ sockfd' = sockfd /\ overlap' = overlap
    BY <1>9, CallActionFrame
  <2> QED
    BY <1>0, <2>1, CloseKept DEF Threads, InCall, Connecting, Closing
<1>10. ASSUME NEW c \in Conns, PeerWrites(c) \/ PeerCloses(c) PROVE CloseInv'
  BY <1>10, PeerEffect DEF CloseInv
<1>11. CASE OtherOpens
  <2>1. /\ other' \in Fds /\ file[other'] = Nothing /\ file' = [file EXCEPT ![other'] = Foreign]
        /\ other = Closed /\ pc' = pc /\ sockfd' = sockfd /\ overlap' = overlap
    BY <1>11, LowestFree DEF OtherOpens
  <2>2. \A f \in Fds : f # other' => file'[f] = file[f]
    BY <1>0, <2>1
  <2>3. file'[other'] = Foreign
    BY <1>0, <2>1
  <2>4. \A f \in Fds : file'[f] \in Conns <=> file[f] \in Conns
    BY <2>1, <2>2, <2>3, Bounds
  <2>5. sockfd # Closed => (file'[sockfd] \in Conns <=> file[sockfd] \in Conns)
    BY <1>0, <2>4 DEF Numbers
  <2> QED
    BY <2>1, <2>3, <2>4, <2>5 DEF CloseInv
<1>12. CASE UNCHANGED vars
  BY <1>12 DEF vars, CloseInv
<1> QED
  BY <1>1, <1>2, <1>3, <1>4, <1>5, <1>6, <1>7, <1>8, <1>9, <1>10, <1>11, <1>12
  DEF Next, CallerStep, CancellerStep, CloseStep, CallAction, Threads

(* The next piece continues what a call has got. *)
LEMMA UpToNext ==
    ASSUME NEW g \in Pieces, NEW c \in Files, NEW b \in Nat, NEW r \in Nat, UpTo(g, c, b, r)
    PROVE  UpTo(Append(g, <<c, r + 1>>), c, b, r + 1)
<1> DEFINE h == Append(g, <<c, r + 1>>)
<1>1. /\ Len(g) \in Nat /\ h \in Pieces /\ Len(h) = Len(g) + 1
      /\ \A i \in 1..Len(g) : h[i] = g[i]
      /\ h[Len(g) + 1] = <<c, r + 1>>
  BY DEF Pieces
<1>2. \A i \in 1..Len(g) : g[i] = <<c, b + i>>
  BY DEF UpTo
<1>3. Len(g) = r - b
  BY DEF UpTo
<1>4. \A i \in 1..Len(h) : h[i] = <<c, b + i>>
  <2> SUFFICES ASSUME NEW i \in 1..Len(h) PROVE h[i] = <<c, b + i>>
    OBVIOUS
  <2>1. CASE i \in 1..Len(g)
    BY <1>1, <1>2, <2>1
  <2>2. CASE i = Len(g) + 1
    <3>1. b + i = r + 1
      BY <1>1, <1>3, <2>2
    <3> QED
      BY <1>1, <2>2, <3>1
  <2> QED
    BY <1>1, <2>1, <2>2
<1>5. h = [i \in 1..Len(h) |-> h[i]]
  BY <1>1 DEF Pieces
<1>6. Len(h) = (r + 1) - b
  BY <1>1, <1>3
<1> HIDE DEF h
<1>7. UpTo(h, c, b, r + 1)
  BY <1>4, <1>5, <1>6 DEF UpTo
<1> QED
  BY <1>7 DEF h

(* Nothing has been got yet. *)
LEMMA UpToEmpty == \A c : \A r \in Nat : UpTo(<<>>, c, r, r)
  BY DEF UpTo

(* While nobody disturbs a call, m_sockfd names a connection or nothing. *)
LEMMA Undisturbed ==
    ASSUME Types, SocketInv, StreamInv, ~call.disturbed, pc["caller"] \in InCall, sockfd # Closed
    PROVE  sockfd \in Fds /\ OnSocket = file[sockfd] /\ OnSocket \in Conns
<1>1. pc["canceller"] # "close3" /\ pc["caller"] # "close3"
  BY DEF StreamInv, InCall
<1> QED
  BY <1>1 DEF SocketInv, OnSocket, Types, Numbers

(* A call that ends with an error has no answer to account for. *)
LEMMA FailsStream ==
    ASSUME Types, StreamInv, NEW l, NEW k \in CallState, k.disturbed = call.disturbed, Fails(l, k)
    PROVE  StreamInv'
<1>1. /\ pc'["caller"] = "idle" /\ pc'["canceller"] = pc["canceller"]
      /\ call' = [k EXCEPT !.verdict = "failed", !.left = 0, !.got = <<>>, !.wait = Nothing]
  BY CallerMove DEF Fails, CallStep
<1>2. call'.verdict = "failed" /\ call'.disturbed = call.disturbed
  BY <1>1 DEF CallState
<1> QED
  BY <1>1, <1>2 DEF StreamInv, NoAnswerYet

(* A step between two places of a call before the answer. *)
LEMMA SendStream ==
    ASSUME Types, VerdictInv, StreamInv, NEW l, NEW next, NEW k, CallStep(l, next, k),
           k.disturbed = call.disturbed, k.got = call.got, k.verdict = call.verdict,
           k.before = call.before, \A c \in Conns : conn'[c].read = conn[c].read,
           l \in NoAnswerYet, next \in NoAnswerYet, next # "reset1",
           next \in {"sendLoop", "sendCall", "recvEnter"} =>
               l \in {"sendLoop", "sendCall"} \/ sockfd # Closed
    PROVE  StreamInv'
<1>1. /\ pc["caller"] = l /\ pc'["caller"] = next /\ pc'["canceller"] = pc["canceller"]
      /\ call' = k /\ sockfd' = sockfd
  BY CallerMove DEF CallStep
<1>2. call'.verdict = "none"
  BY <1>1 DEF VerdictInv, InCall, NoAnswerYet
<1> QED
  BY <1>1, <1>2 DEF StreamInv, NoAnswerYet

(* A step between two places of a call on its connection. *)
LEMMA RecvStream ==
    ASSUME Types, VerdictInv, StreamInv, NEW l \in {"recvEnter", "recvLoop", "recvCall", "recvWait"},
           NEW next \in {"recvLoop", "recvCall", "recvWait"}, NEW k, CallStep(l, next, k),
           k.disturbed = call.disturbed, k.verdict = call.verdict, sockfd # Closed,
           ~call.disturbed => UpTo(k.got, OnSocket, k.before[OnSocket], conn'[OnSocket].read),
           next = "recvWait" => k.wait = OnSocket
    PROVE  StreamInv'
<1>1. /\ pc["caller"] = l /\ pc'["caller"] = next /\ pc'["canceller"] = pc["canceller"]
      /\ call' = k /\ sockfd' = sockfd /\ OnSocket' = OnSocket
  BY CallerMove DEF CallStep, OnSocket
<1>2. call'.verdict = "none"
  BY <1>1 DEF VerdictInv, InCall
<1> QED
  BY <1>1, <1>2 DEF StreamInv, NoAnswerYet

(* A step outside of calls. *)
LEMMA OutsideStream ==
    ASSUME StreamInv, pc'["caller"] \notin InCall \union {"reset1"}, pc'["canceller"] = pc["canceller"], conn' = conn,
           call'.disturbed = call.disturbed, call'.verdict = call.verdict,
           call'.ended = call.ended, call'.got = call.got, call'.before = call.before
    PROVE  StreamInv'
  BY DEF StreamInv, InCall, NoAnswerYet

(* Every step of a call keeps an undisturbed call on its stream. *)
LEMMA CallStream ==
    ASSUME Types, VerdictInv, SocketInv, StreamInv, CallAction
    PROVE  StreamInv'
<1>0. call \in CallState /\ conn \in [Conns -> ConnState]
  BY DEF Types
<1>1. CASE ResetCanceled \/ ResetCallback \/ SetCancelCallback
  <2> USE DEF NoAnswerYet, InCall
  <2>1. CASE ResetCanceled
    BY <2>1, SendStream DEF ResetCanceled
  <2>2. CASE ResetCallback
    BY <2>2, SendStream DEF ResetCallback
  <2>3. CASE SetCancelCallback
    BY <2>3, SendStream DEF SetCancelCallback
  <2> QED
    BY <1>1, <2>1, <2>2, <2>3
<1>2. ASSUME NEW n \in 0..MaxRequest, Serialize(n) PROVE StreamInv'
  <2> DEFINE k == [call EXCEPT !.left = n]
  <2>1. k.disturbed = call.disturbed /\ k.got = call.got /\ k.verdict = call.verdict
        /\ k.before = call.before
    BY <1>0 DEF CallState
  <2>2. CallStep("serialize", "sendEnter", k) /\ conn' = conn
    BY <1>2 DEF Serialize
  <2> HIDE DEF k
  <2> QED
    BY <2>1, <2>2, SendStream DEF InCall, NoAnswerYet
<1>3. CASE SerializeFails \/ ParseFails \/ RecvError
  BY <1>0, <1>3, FailsStream DEF SerializeFails, ParseFails, RecvError
<1>4. CASE SendEnter
  <2>1. CASE Fails("sendEnter", call)
    BY <1>0, <2>1, FailsStream
  <2>2. CASE sockfd # Closed /\ CallStep("sendEnter", "sendLoop", call) /\ conn' = conn
    BY <2>2, SendStream DEF InCall, NoAnswerYet
  <2> QED
    BY <1>4, <2>1, <2>2 DEF SendEnter, TestSocket
<1>5. CASE SendLoop
  <2>1. CASE Fails("sendLoop", call)
    BY <1>0, <2>1, FailsStream
  <2>2. CASE CallStep("sendLoop", "sendCall", call) /\ conn' = conn
    BY <2>2, SendStream DEF InCall, NoAnswerYet
  <2>3. CASE CallStep("sendLoop", "recvEnter", call) /\ conn' = conn
    BY <2>3, SendStream DEF InCall, NoAnswerYet
  <2> QED
    BY <1>5, <2>1, <2>2, <2>3 DEF SendLoop
<1>6. CASE SendSome
  <2>1. PICK n : CallStep("sendCall", "sendLoop", [call EXCEPT !.left = n])
    BY <1>6 DEF SendSome
  <2> DEFINE k == [call EXCEPT !.left = n]
  <2>2. k.disturbed = call.disturbed /\ k.got = call.got /\ k.verdict = call.verdict
        /\ k.before = call.before
    BY <1>0 DEF CallState
  <2>3. CallStep("sendCall", "sendLoop", k)
    BY <2>1
  <2>4. \A c \in Conns : conn'[c].read = conn[c].read
    <3>1. CASE OnSocket \in Conns
      <4>1. conn[OnSocket] \in ConnState
        BY <1>0, <3>1
      <4> DEFINE h == [conn[OnSocket] EXCEPT !.rst = conn[OnSocket].eof]
      <4>2. h.read = conn[OnSocket].read
        BY <4>1 DEF ConnState
      <4>3. conn' = [conn EXCEPT ![OnSocket] = h]
        BY <1>6, <3>1 DEF SendSome
      <4> HIDE DEF h
      <4> QED
        BY <1>0, <4>2, <4>3
    <3>2. CASE OnSocket \notin Conns
      BY <1>6, <3>2 DEF SendSome
    <3> QED
      BY <3>1, <3>2
  <2> HIDE DEF k
  <2> QED
    BY <2>2, <2>3, <2>4, SendStream DEF InCall, NoAnswerYet
<1>7. CASE SendInterrupted
  BY <1>7, SendStream DEF SendInterrupted, InCall, NoAnswerYet
<1>8. CASE SendError
  BY <1>0, <1>8, FailsStream DEF SendError
<1>9. CASE RecvEnter
  <2>1. CASE Fails("recvEnter", call)
    BY <1>0, <2>1, FailsStream
  <2>2. CASE sockfd # Closed /\ CallStep("recvEnter", "recvLoop", call) /\ conn' = conn
    <3>1. pc["caller"] = "recvEnter"
      BY <2>2, CallerMove DEF CallStep
    <3>2. ASSUME ~call.disturbed
          PROVE  UpTo(call.got, OnSocket, call.before[OnSocket], conn'[OnSocket].read)
      <4>1. call.got = <<>> /\ \A c \in Conns : conn[c].read = call.before[c]
        BY <3>1, <3>2 DEF StreamInv, NoAnswerYet
      <4>2. OnSocket \in Conns
        BY <2>2, <3>1, <3>2, Undisturbed DEF InCall
      <4>3. conn[OnSocket].read \in Nat /\ conn'[OnSocket].read = call.before[OnSocket]
            /\ conn[OnSocket].read = call.before[OnSocket]
        BY <1>0, <2>2, <4>1, <4>2 DEF ConnState
      <4> QED
        BY <4>1, <4>3, UpToEmpty
    <3> QED
      BY <2>2, <3>2, RecvStream
  <2> QED
    BY <1>9, <2>1, <2>2 DEF RecvEnter, TestSocket
<1>10. ASSUME NEW l \in {"recvLoop", "recvCall", "recvWait"}, pc["caller"] = l, ~call.disturbed
       PROVE  /\ sockfd # Closed /\ UpTo(call.got, OnSocket, call.before[OnSocket], conn[OnSocket].read)
              /\ OnSocket \in Conns
              /\ l = "recvWait" => call.wait = OnSocket
  <2>1. sockfd # Closed
    BY <1>10 DEF StreamInv
  <2> QED
    BY <1>10, <2>1, Undisturbed DEF StreamInv, InCall
<1>11. ASSUME call.disturbed PROVE StreamInv'
  BY <1>11, CallActionFrame DEF StreamInv
<1>12. CASE ~call.disturbed /\ RecvLoop
  <2>1. CASE Fails("recvLoop", call)
    BY <1>0, <2>1, FailsStream
  <2>2. CASE CallStep("recvLoop", "recvCall", call) /\ conn' = conn
    <3>1. pc["caller"] = "recvLoop"
      BY <2>2, CallerMove DEF CallStep
    <3> QED
      BY <1>10, <1>12, <2>2, <3>1, RecvStream
  <2> QED
    BY <1>12, <2>1, <2>2 DEF RecvLoop
<1>13. CASE ~call.disturbed /\ RecvCall
  <2>1. CASE Fails("recvCall", call)
    BY <1>0, <2>1, FailsStream
  <2> DEFINE k == [call EXCEPT !.wait = OnSocket]
  <2>2. CASE CallStep("recvCall", "recvWait", k) /\ conn' = conn
    <3>1. pc["caller"] = "recvCall"
      BY <2>2, CallerMove DEF CallStep
    <3>2. /\ k.disturbed = call.disturbed /\ k.got = call.got /\ k.verdict = call.verdict
          /\ k.wait = OnSocket /\ k.before = call.before
      BY <1>0 DEF CallState
    <3> HIDE DEF k
    <3> QED
      BY <1>10, <1>13, <2>2, <3>1, <3>2, RecvStream
  <2> QED
    BY <1>13, <2>1, <2>2 DEF RecvCall
<1>14. CASE ~call.disturbed /\ RecvSome
  <2>1. PICK c \in Conns : /\ call.wait = c /\ Received(conn[c].read + 1)
                           /\ conn' = [conn EXCEPT ![c] = [conn[c] EXCEPT !.read = @ + 1]]
    BY <1>14 DEF RecvSome, Reads
  <2> DEFINE k == [call EXCEPT !.got = Append(@, <<call.wait, conn[c].read + 1>>), !.wait = Nothing]
  <2>2. CallStep("recvWait", "recvLoop", k)
    BY <2>1 DEF Received
  <2>3. pc["caller"] = "recvWait"
    BY <2>2, CallerMove DEF CallStep
  <2>4. c = OnSocket /\ sockfd # Closed /\ UpTo(call.got, c, call.before[c], conn[c].read)
    BY <1>10, <1>14, <2>1, <2>3
  <2>5. /\ k.disturbed = call.disturbed /\ k.verdict = call.verdict /\ k.before = call.before
        /\ k.got = Append(call.got, <<c, conn[c].read + 1>>)
    BY <1>0, <2>1 DEF CallState
  <2>6. conn[c].read \in Nat /\ conn'[c].read = conn[c].read + 1
    <3>1. conn[c] \in ConnState /\ conn'[c] = [conn[c] EXCEPT !.read = @ + 1]
      BY <1>0, <2>1
    <3> QED
      BY <3>1 DEF ConnState
  <2>7. UpTo(k.got, c, k.before[c], conn'[c].read)
    <3>1. call.got \in Pieces /\ c \in Files /\ call.before[c] \in Nat
      BY <1>0 DEF CallState, Files
    <3>2. UpTo(Append(call.got, <<c, conn[c].read + 1>>), c, call.before[c], conn[c].read + 1)
      BY <2>4, <2>6, <3>1, UpToNext
    <3> HIDE DEF k
    <3> QED
      BY <2>5, <2>6, <3>2
  <2> HIDE DEF k
  <2> QED
    BY <2>2, <2>4, <2>5, <2>7, RecvStream
<1>15. CASE ~call.disturbed /\ RecvForeign
  <2>1. call.wait = Foreign /\ pc["caller"] = "recvWait"
    BY <1>15, CallerMove DEF RecvForeign, Reads, Received, CallStep
  <2> QED
    BY <1>10, <1>15, <2>1, Bounds
<1>16. CASE ~call.disturbed /\ RecvInterrupted
  <2> DEFINE k == [call EXCEPT !.wait = Nothing]
  <2>1. CallStep("recvWait", "recvLoop", k) /\ conn' = conn
    BY <1>16 DEF RecvInterrupted
  <2>2. pc["caller"] = "recvWait"
    BY <2>1, CallerMove DEF CallStep
  <2>3. k.disturbed = call.disturbed /\ k.verdict = call.verdict /\ k.got = call.got
        /\ k.before = call.before
    BY <1>0 DEF CallState
  <2> HIDE DEF k
  <2> QED
    BY <1>10, <1>16, <2>1, <2>2, <2>3, RecvStream
<1>17. CASE ~call.disturbed /\ RecvEnd
  <2> DEFINE k == [call EXCEPT !.ended = call.wait, !.wait = Nothing]
  <2>1. CallStep("recvWait", "parse", k) /\ conn' = conn
    BY <1>17 DEF RecvEnd
  <2>2. /\ pc["caller"] = "recvWait" /\ pc'["caller"] = "parse" /\ call' = k
        /\ pc'["canceller"] = pc["canceller"]
    BY <2>1, CallerMove DEF CallStep
  <2>3. /\ call.wait = OnSocket /\ OnSocket \in Conns
        /\ UpTo(call.got, OnSocket, call.before[OnSocket], conn[OnSocket].read)
    BY <1>10, <1>17, <2>2
  <2>4. conn[OnSocket].eof /\ conn[OnSocket].read = conn[OnSocket].written
    BY <1>17, <2>3 DEF RecvEnd, Reads
  <2>5. /\ k.disturbed = call.disturbed /\ k.verdict = call.verdict /\ k.got = call.got
        /\ k.ended = OnSocket /\ k.before = call.before
    BY <1>0, <2>3 DEF CallState
  <2> HIDE DEF k
  <2> QED
    BY <2>1, <2>2, <2>3, <2>4, <2>5 DEF StreamInv, NoAnswerYet
<1>18. CASE ~call.disturbed /\ ParseOk
  <2> DEFINE k == [call EXCEPT !.verdict = "ok"]
  <2>1. CallStep("parse", "idle", k) /\ conn' = conn
    BY <1>18 DEF ParseOk, Succeeds
  <2>2. /\ pc["caller"] = "parse" /\ pc'["caller"] = "idle" /\ call' = k
        /\ pc'["canceller"] = pc["canceller"]
    BY <2>1, CallerMove DEF CallStep
  <2>3. k.disturbed = call.disturbed /\ k.ended = call.ended /\ k.got = call.got
        /\ k.before = call.before
    BY <1>0 DEF CallState
  <2> HIDE DEF k
  <2> QED
    BY <2>1, <2>2, <2>3 DEF StreamInv, NoAnswerYet
<1> QED
  BY <1>1, <1>2, <1>3, <1>4, <1>5, <1>6, <1>7, <1>8, <1>9, <1>11, <1>12, <1>13, <1>14, <1>15,
     <1>16, <1>17, <1>18
  DEF CallAction

(* Every step keeps it there. *)
LEMMA StreamStep ==
    ASSUME Types, VerdictInv, SocketInv, StreamInv, [Next]_vars
    PROVE  StreamInv'
<1>0. call \in CallState
  BY DEF Types
<1>1. CASE CloseStep("caller")
  <2>1. /\ pc'["caller"] \in {"close2", "close3", "idle", "socket"}
        /\ pc'["canceller"] = pc["canceller"] /\ conn' = conn /\ call' = call
    BY <1>0, <1>1, CallerMove
       DEF CloseStep, CloseTest, CloseSocket, CloseReset, AfterClose, CallState
  <2> QED
    BY <2>1, OutsideStream DEF InCall
<1>2. CASE Close \/ Connect \/ ConnectFails
  <2>1. /\ pc'["caller"] \in {"close1", "socket"} /\ pc'["canceller"] = pc["canceller"] /\ conn' = conn
    BY <1>2, CallerMove DEF Close, Connect, ConnectFails
  <2>2. /\ call'.disturbed = call.disturbed /\ call'.verdict = call.verdict
        /\ call'.ended = call.ended /\ call'.got = call.got /\ call'.before = call.before
    BY <1>0, <1>2 DEF Close, Connect, ConnectFails, CallState
  <2> QED
    BY <2>1, <2>2, OutsideStream DEF InCall
<1>3. CASE Socket \/ SocketFails \/ ConnectOk
  <2>1. /\ pc'["caller"] \in {"connect", "idle"} /\ pc'["canceller"] = pc["canceller"]
        /\ conn' = conn /\ call' = call
    BY <1>3, CallerMove DEF Socket, SocketFails, ConnectOk
  <2> QED
    BY <2>1, OutsideStream DEF InCall
<1>4. CASE CallMethod
  <2> DEFINE b == [c \in Conns |-> conn[c].read]
  <2>1. /\ pc'["caller"] = "reset1" /\ pc'["canceller"] = pc["canceller"] /\ conn' = conn
        /\ call' = [Fresh EXCEPT !.before = b, !.disturbed = pc["canceller"] # "idle"]
    BY <1>4, CallerMove DEF CallMethod
  <2>2. \A c \in Conns : conn'[c].read = b[c]
    BY <2>1
  <2> HIDE DEF b
  <2>3. /\ call'.verdict = "none" /\ call'.got = <<>> /\ call'.before = b
        /\ call'.disturbed = (pc["canceller"] # "idle")
    BY <2>1 DEF Fresh
  <2> QED
    BY <2>1, <2>2, <2>3 DEF StreamInv, NoAnswerYet
<1>13. CASE ResetFailed
  BY <1>13, SendStream DEF ResetFailed, InCall, NoAnswerYet
<1>5. CASE CallAction
  BY <1>5, CallStream
<1>6. CASE SigPipe
  <2>1. /\ pc'["caller"] = pc["caller"] /\ pc'["canceller"] = pc["canceller"]
        /\ conn' = conn /\ call' = call /\ sockfd' = sockfd /\ OnSocket' = OnSocket
    BY <1>6, CallerMove DEF SigPipe, OnSocket
  <2> QED
    BY <2>1 DEF StreamInv
<1>7. CASE StartCancel
  <2>1. call'.disturbed
    BY <1>0, <1>7 DEF StartCancel, CallState
  <2> QED
    BY <2>1 DEF StreamInv
<1>8. CASE CancelTest \/ CancelInvoke \/ CloseStep("canceller")
  <2>1. pc["canceller"] # "idle" /\ call' = call
    BY <1>8, CancellerMove
       DEF CancelTest, CancelInvoke, CloseStep, CloseTest, CloseSocket, CloseReset
  <2> QED
    BY <2>1 DEF StreamInv
<1>9. ASSUME pc' = pc, sockfd' = sockfd, call' = call,
             \A d \in Conns : /\ conn'[d].read = conn[d].read
                              /\ conn[d].eof => conn'[d] = conn[d],
             OnSocket \in Conns => OnSocket' = OnSocket
      PROVE  StreamInv'
  <2>1. ASSUME ~call.disturbed, pc["caller"] \in {"recvLoop", "recvCall", "recvWait"}
        PROVE  OnSocket' = OnSocket /\ conn'[OnSocket].read = conn[OnSocket].read
    <3>1. sockfd # Closed
      BY <2>1 DEF StreamInv
    <3>2. OnSocket \in Conns
      BY <2>1, <3>1, Undisturbed DEF InCall
    <3> QED
      BY <1>9, <3>2
  <2> QED
    BY <1>9, <2>1 DEF StreamInv
<1>10. ASSUME NEW c \in Conns, PeerWrites(c) \/ PeerCloses(c) PROVE StreamInv'
  <2>1. /\ pc' = pc /\ sockfd' = sockfd /\ call' = call /\ file' = file
        /\ \A d \in Conns : /\ conn'[d].read = conn[d].read
                            /\ conn[d].eof => conn'[d] = conn[d]
    BY <1>10, PeerEffect
  <2>2. OnSocket' = OnSocket
    BY <2>1 DEF OnSocket
  <2> QED
    BY <1>9, <2>1, <2>2
<1>11. CASE OtherOpens
  <2>1. /\ pc' = pc /\ sockfd' = sockfd /\ call' = call /\ conn' = conn
        /\ other' \in Fds /\ file[other'] = Nothing /\ file' = [file EXCEPT ![other'] = Foreign]
    BY <1>11, LowestFree DEF OtherOpens
  <2>2. OnSocket \in Conns => OnSocket' = OnSocket
    BY <2>1, Bounds DEF OnSocket, Types, Numbers
  <2> QED
    BY <1>9, <2>1, <2>2
<1>12. CASE UNCHANGED vars
  <2>1. pc' = pc /\ sockfd' = sockfd /\ call' = call /\ conn' = conn /\ OnSocket' = OnSocket
    BY <1>12 DEF vars, OnSocket
  <2> QED
    BY <1>9, <2>1
<1> QED
  BY <1>1, <1>2, <1>3, <1>4, <1>5, <1>6, <1>7, <1>8, <1>10, <1>11, <1>12,
     <1>13
  DEF Next, CallerStep, CancellerStep, CallAction

(* The invariant holds for a new channel. *)
LEMMA ChannelInit == Init => ChannelInv
<1> SUFFICES ASSUME Init PROVE ChannelInv
  OBVIOUS
<1>1. 0 \in 0..MaxRequest /\ <<>> \in Pieces /\ 0 \in 0..MaxConns /\ 0 \in 0..MaxCalls
      /\ 0 \in 0..MaxCancels /\ Nothing \in Files /\ Closed \in Numbers
  BY Bounds DEF Pieces, Files, Numbers
<1>2. call \in CallState /\ call.verdict = "none" /\ call.disturbed = FALSE
  BY <1>1 DEF Init, Fresh, CallState
<1>3. ctl \in CtlState /\ ctl.failed = FALSE
  BY DEF Init, NewController, CtlState
<1>4. used \in Counts
  BY <1>1 DEF Init, Counts
<1>5. conn \in [Conns -> ConnState] /\ file \in [Fds -> Files]
  BY <1>1 DEF Init, ConnState
<1>6. pc \in [Threads -> CallerAt \union CancellerAt] /\ pc["caller"] = "idle" /\ pc["canceller"] = "idle"
  BY DEF Init, Threads, CallerAt
<1>7. sockfd = Closed /\ other = Closed /\ overlap = FALSE /\ \A f \in Fds : file[f] = Nothing
  BY DEF Init
<1>8. Types
  BY <1>1, <1>2, <1>3, <1>4, <1>5, <1>6, <1>7 DEF Types
<1> QED
  BY <1>2, <1>3, <1>6, <1>7, <1>8, Bounds
  DEF ChannelInv, BoundInv, VerdictInv, SocketInv, CloseInv, StreamInv, InCall, NoAnswerYet,
      Connecting, Closing

(* Every step preserves the invariant. *)
LEMMA ChannelStep == ChannelInv /\ [Next]_vars => ChannelInv'
  BY TypesStep, BoundStep, VerdictStep, SocketStep, CloseStepInv, StreamStep DEF ChannelInv

(* The invariant holds in every reachable state. *)
THEOREM ChannelInvariant == Spec => []ChannelInv
  BY ChannelInit, ChannelStep, PTL DEF Spec

(* What CallMethod reports to done and what the controller says afterwards *)
(* agree, on every error path and with cancels at any moment.              *)
THEOREM DoneAgreesWithController == Spec => []VerdictMatchesController
<1>1. ChannelInv => VerdictMatchesController
  BY DEF ChannelInv, VerdictInv, VerdictMatchesController
<1> QED
  BY <1>1, ChannelInvariant, PTL

(* A call of CallMethod that succeeds and is not disturbed by StartCancel  *)
(* has as its response what its peer wrote to the end of the stream,       *)
(* without what earlier calls had read of it, in order and nothing else.   *)
THEOREM WholeAnswer == Spec => []SuccessIsWholeStream
<1>1. ChannelInv => SuccessIsWholeStream
  <2> SUFFICES ASSUME ChannelInv, pc["caller"] = "idle", call.verdict = "ok", ~call.disturbed
               PROVE  LET b == call.before[call.ended]
                      IN  /\ call.ended \in Conns /\ conn[call.ended].eof
                          /\ call.got = [i \in 1..conn[call.ended].written - b |-> <<call.ended, b + i>>]
    BY DEF SuccessIsWholeStream
  <2> DEFINE b == call.before[call.ended]
             w == conn[call.ended].written
  <2>1. /\ call.ended \in Conns /\ conn[call.ended].eof
        /\ Len(call.got) = w - b
        /\ call.got = [i \in 1..Len(call.got) |-> <<call.ended, b + i>>]
    BY DEF ChannelInv, StreamInv, UpTo
  <2> HIDE DEF b, w
  <2>2. call.got = [i \in 1..w - b |-> <<call.ended, b + i>>]
    BY <2>1
  <2> QED
    BY <2>1, <2>2 DEF b, w
<1> QED
  BY <1>1, ChannelInvariant, PTL

(* TcpChannel closes nobody else's descriptor and loses no open socket     *)
(* unless the canceller's Close runs into a Connect or Close.              *)
THEOREM DescriptorsSafe == Spec => []DescriptorsSafeUnlessOverlap
<1>1. ChannelInv => DescriptorsSafeUnlessOverlap
  BY DEF ChannelInv, CloseInv, DescriptorsSafeUnlessOverlap
<1> QED
  BY <1>1, ChannelInvariant, PTL
=============================================================================
