---------------------------- MODULE DrpcChannel -----------------------------
(***************************************************************************)
(* TcpChannel (Drpc/src/DrpcChannel.cpp) with its DrpcController           *)
(* (Drpc/src/DrpcController.cpp).  A caller connects, calls and closes; a  *)
(* canceller calls StartCancel, whose callback closes the channel's socket *)
(* while the caller may be anywhere.  Nothing is locked, so every read or  *)
(* write of a shared member and every system call is a step.  The channel  *)
(* is not destroyed.                                                       *)
(*                                                                         *)
(* Environment: the descriptor table, in which another thread of the       *)
(* process opens one file, and peers that write and close as they like.    *)
(* A blocked recv keeps the connection it entered with, whatever happens   *)
(* to the number; a send to a connection that was reset raises SIGPIPE,    *)
(* which nothing in Drpc ignores.                                          *)
(***************************************************************************)
EXTENDS Integers, Sequences

CONSTANTS NFds,         \* size of the descriptor table
          MaxConns,     \* bound on connections made
          MaxCalls,     \* bound on calls of CallMethod
          MaxCancels,   \* bound on calls of StartCancel
          MaxRequest,   \* largest request, in units that send may split
          MaxPieces     \* bound on what a peer writes on a connection

ASSUME DrpcChannelBounds ==
    {NFds, MaxConns, MaxCalls, MaxCancels, MaxRequest, MaxPieces} \subseteq Nat

Fds == 1..NFds
Conns == 1..MaxConns
Nothing == 0            \* the file of a free descriptor
Foreign == -1           \* the file of another thread
Closed == -1            \* the initial m_sockfd

VARIABLES pc,           \* pc[t]: where caller and canceller stand
          sockfd,       \* m_sockfd
          ctl,          \* m_failed, m_isCanceled, m_cancelCallback set or not
          call,         \* the caller's local state, see Fresh
          used,         \* connections, calls and cancels so far
          alive,        \* the process runs
          file,         \* file[f]: what descriptor f stands for
          conn,         \* conn[c]: pieces written by the peer and read here, peer closed, reset
          other,        \* the descriptor the other thread opened, or Closed
          overlap       \* history: a canceller's Close has met a Connect or Close of the caller

vars == <<pc, sockfd, ctl, call, used, alive, file, conn, other, overlap>>

Closing == {"close1", "close2", "close3"}
Connecting == Closing \union {"socket", "connect"}

(* What a call keeps: where its Close continues, the units of the request  *)
(* still to send, the pieces received as <<file, number>>, the file its    *)
(* recv is in, the file whose end completed the response, and what done    *)
(* was called with.  History: how much of each connection earlier calls    *)
(* had read, and whether StartCancel was running at some time of the call. *)
Fresh == [ret |-> "idle", left |-> 0, got |-> <<>>, wait |-> Nothing, ended |-> Nothing,
          verdict |-> "none", before |-> [c \in Conns |-> 0], disturbed |-> FALSE]

(* The state of a controller after its constructor. *)
NewController == [failed |-> FALSE, canceled |-> FALSE, callback |-> FALSE]

Init == /\ pc = [t \in {"caller", "canceller"} |-> "idle"]
        /\ sockfd = Closed
        /\ ctl = NewController
        /\ call = Fresh
        /\ used = [conns |-> 0, calls |-> 0, cancels |-> 0]
        /\ alive = TRUE
        /\ file = [f \in Fds |-> Nothing]
        /\ conn = [c \in Conns |-> [written |-> 0, read |-> 0, eof |-> FALSE, rst |-> FALSE]]
        /\ other = Closed
        /\ overlap = FALSE

Free == {f \in Fds : file[f] = Nothing}
Lowest(S) == CHOOSE f \in S : \A g \in S : f <= g
OnSocket == IF sockfd = Closed THEN Nothing ELSE file[sockfd]
Reads(c) == call.wait = c
Open(c) == Reads(c) \/ \E f \in Fds : file[f] = c

(* Thread t goes from l to next. *)
Move(t, l, next) ==
    /\ alive
    /\ pc[t] = l
    /\ pc' = [pc EXCEPT ![t] = next]
    /\ overlap' = \/ overlap
                  \/ pc'["caller"] \in Connecting /\ pc'["canceller"] \in Closing
    /\ other' = other

-----------------------------------------------------------------------------
(* Impl::Close, run by either thread: the test, the close of the number    *)
(* that m_sockfd then holds, whatever it stands for, and the reset.        *)
AfterClose(t) == IF t = "caller" THEN call.ret ELSE "idle"

CloseTest(t) ==
    /\ Move(t, "close1", IF sockfd # Closed THEN "close2" ELSE AfterClose(t))
    /\ UNCHANGED <<sockfd, ctl, call, used, alive, file, conn>>

CloseSocket(t) ==
    /\ Move(t, "close2", "close3")
    /\ file' = IF sockfd = Closed THEN file ELSE [file EXCEPT ![sockfd] = Nothing]
    /\ UNCHANGED <<sockfd, ctl, call, used, alive, conn>>

(* Mutant: the number is kept after close. *)
CloseKeeps(t) ==
    /\ Move(t, "close3", AfterClose(t))
    /\ UNCHANGED <<sockfd, ctl, call, used, alive, file, conn>>

CloseReset(t) ==
    /\ Move(t, "close3", AfterClose(t))
    /\ sockfd' = Closed
    /\ UNCHANGED <<ctl, call, used, alive, file, conn>>

(* TcpChannel::Close called by the caller. *)
Close ==
    /\ Move("caller", "idle", "close1")
    /\ call' = [call EXCEPT !.ret = "idle"]
    /\ UNCHANGED <<sockfd, ctl, used, alive, file, conn>>

-----------------------------------------------------------------------------
(* Impl::Connect: an old socket is closed first. *)
Connect ==
    /\ used.conns < MaxConns
    /\ Move("caller", "idle", IF sockfd # Closed THEN "close1" ELSE "socket")
    /\ call' = [call EXCEPT !.ret = "socket"]
    /\ UNCHANGED <<sockfd, ctl, used, alive, file, conn>>

Socket ==
    /\ Free # {}
    /\ Move("caller", "socket", "connect")
    /\ used' = [used EXCEPT !.conns = @ + 1]
    /\ sockfd' = Lowest(Free)
    /\ file' = [file EXCEPT ![Lowest(Free)] = used'.conns]
    /\ UNCHANGED <<ctl, call, alive, conn>>

(* No descriptor, or no memory for a socket. *)
SocketFails ==
    /\ Move("caller", "socket", "idle")
    /\ sockfd' = Closed
    /\ UNCHANGED <<ctl, call, used, alive, file, conn>>

ConnectOk ==
    /\ OnSocket \in Conns
    /\ Move("caller", "connect", "idle")
    /\ UNCHANGED <<sockfd, ctl, call, used, alive, file, conn>>

(* The address is not numeric, or connect fails. *)
ConnectFails ==
    /\ Move("caller", "connect", "close1")
    /\ call' = [call EXCEPT !.ret = "idle"]
    /\ UNCHANGED <<sockfd, ctl, used, alive, file, conn>>

-----------------------------------------------------------------------------
(* A step of CallMethod that leaves its local state as k. *)
CallStep(l, next, k) ==
    /\ Move("caller", l, next)
    /\ call' = k
    /\ UNCHANGED <<sockfd, used, alive, file>>

(* CallMethod ends with done(ok), which is what CallMethodSync returns. *)
Succeeds(l) == CallStep(l, "idle", [call EXCEPT !.verdict = "ok"]) /\ UNCHANGED <<ctl, conn>>

(* SetFailed and done(false). *)
Fails(l, k) ==
    /\ CallStep(l, "idle", [k EXCEPT !.verdict = "failed", !.left = 0, !.got = <<>>, !.wait = Nothing])
    /\ ctl' = [ctl EXCEPT !.failed = TRUE]
    /\ conn' = conn

(* CallMethod begins. *)
CallMethod ==
    /\ used.calls < MaxCalls
    /\ Move("caller", "idle", "reset1")
    /\ used' = [used EXCEPT !.calls = @ + 1]
    /\ call' = [Fresh EXCEPT !.before = [c \in Conns |-> conn[c].read],
                            !.disturbed = pc["canceller"] # "idle"]
    /\ UNCHANGED <<sockfd, ctl, alive, file, conn>>

(* DrpcController::Reset: one assignment after the other. *)
ResetFailed ==
    /\ CallStep("reset1", "reset2", call)
    /\ ctl' = [ctl EXCEPT !.failed = FALSE]
    /\ conn' = conn

ResetCanceled ==
    /\ CallStep("reset2", "reset3", call)
    /\ ctl' = [ctl EXCEPT !.canceled = FALSE]
    /\ conn' = conn

ResetCallback ==
    /\ CallStep("reset3", "callback", call)
    /\ ctl' = [ctl EXCEPT !.callback = FALSE]
    /\ conn' = conn

SetCancelCallback ==
    /\ CallStep("callback", "serialize", call)
    /\ ctl' = [ctl EXCEPT !.callback = TRUE]
    /\ conn' = conn

(* The request in n units; a request may be empty. *)
Serialize(n) ==
    CallStep("serialize", "sendEnter", [call EXCEPT !.left = n]) /\ UNCHANGED <<ctl, conn>>

SerializeFails == Fails("serialize", call)

(* SendRequest and ReceiveResponse begin with the same test of m_sockfd. *)
TestSocket(l, next) ==
    \/ sockfd = Closed /\ Fails(l, call)
    \/ sockfd # Closed /\ CallStep(l, next, call) /\ UNCHANGED <<ctl, conn>>

SendEnter == TestSocket("sendEnter", "sendLoop")
RecvEnter == TestSocket("recvEnter", "recvLoop")

(* The head of the send loop. *)
SendLoop ==
    \/ call.left > 0 /\ ctl.canceled /\ Fails("sendLoop", call)
    \/ call.left > 0 /\ ~ctl.canceled /\ CallStep("sendLoop", "sendCall", call) /\ UNCHANGED <<ctl, conn>>
    \/ call.left = 0 /\ CallStep("sendLoop", "recvEnter", call) /\ UNCHANGED <<ctl, conn>>

(* send takes some of the data; the first data after the peer closed is    *)
(* taken too and answered by a reset.                                      *)
SendSome ==
    /\ OnSocket # Nothing
    /\ OnSocket \in Conns => ~conn[OnSocket].rst
    /\ \E n \in 0..call.left - 1 : CallStep("sendCall", "sendLoop", [call EXCEPT !.left = n])
    /\ conn' = IF OnSocket \in Conns THEN [conn EXCEPT ![OnSocket] = [@ EXCEPT !.rst = conn[OnSocket].eof]] ELSE conn
    /\ ctl' = ctl

(* EINTR while send waits for room: back to the test of the cancel flag. *)
SendInterrupted ==
    /\ OnSocket # Nothing
    /\ OnSocket \in Conns => ~conn[OnSocket].eof
    /\ CallStep("sendCall", "sendLoop", call)
    /\ UNCHANGED <<ctl, conn>>

(* EBADF, an error of the other thread's file, or of a reset connection. *)
SendError == (OnSocket \in Conns => conn[OnSocket].rst) /\ Fails("sendCall", call)

SigPipe ==
    /\ OnSocket \in Conns
    /\ conn[OnSocket].rst
    /\ Move("caller", "sendCall", "sendCall")
    /\ alive' = FALSE
    /\ UNCHANGED <<sockfd, ctl, call, used, file, conn>>

-----------------------------------------------------------------------------
(* The head of the receive loop. *)
RecvLoop ==
    \/ ctl.canceled /\ Fails("recvLoop", call)
    \/ ~ctl.canceled /\ CallStep("recvLoop", "recvCall", call) /\ UNCHANGED <<ctl, conn>>

(* recv enters the kernel with what m_sockfd stands for now. *)
RecvCall ==
    \/ OnSocket = Nothing /\ Fails("recvCall", call)
    \/ /\ OnSocket # Nothing
       /\ CallStep("recvCall", "recvWait", [call EXCEPT !.wait = OnSocket])
       /\ UNCHANGED <<ctl, conn>>

(* recv of wait returns piece p, which is appended to what is there. *)
Received(p) ==
    CallStep("recvWait", "recvLoop", [call EXCEPT !.got = Append(@, <<call.wait, p>>), !.wait = Nothing])

(* Mutant: the piece replaces what is there. *)
RecvSomeAssigns ==
    \E c \in Conns : /\ Reads(c) /\ conn[c].read < conn[c].written
                     /\ CallStep("recvWait", "recvLoop",
                                 [call EXCEPT !.got = <<<<c, conn[c].read + 1>>>>, !.wait = Nothing])
                     /\ conn' = [conn EXCEPT ![c] = [conn[c] EXCEPT !.read = @ + 1]]
                     /\ ctl' = ctl

(* recv returns the next data of its connection. *)
RecvSome ==
    \E c \in Conns : /\ Reads(c) /\ conn[c].read < conn[c].written
                     /\ Received(conn[c].read + 1)
                     /\ conn' = [conn EXCEPT ![c] = [conn[c] EXCEPT !.read = @ + 1]]
                     /\ ctl' = ctl

(* recv returns data of the other thread's file: once, as a bound. *)
RecvForeign ==
    /\ Reads(Foreign)
    /\ \A i \in 1..Len(call.got) : call.got[i] # <<Foreign, 0>>
    /\ Received(0)
    /\ UNCHANGED <<ctl, conn>>

(* EINTR while recv waits for data. *)
RecvInterrupted ==
    /\ \A c \in Conns : Reads(c) => conn[c].read = conn[c].written /\ ~conn[c].eof
    /\ CallStep("recvWait", "recvLoop", [call EXCEPT !.wait = Nothing])
    /\ UNCHANGED <<ctl, conn>>

(* Mutant: returns false and leaves the controller alone. *)
RecvErrorSilent ==
    /\ \A c \in Conns : Reads(c) => conn[c].rst
    /\ CallStep("recvWait", "idle", [call EXCEPT !.verdict = "failed", !.got = <<>>, !.wait = Nothing])
    /\ UNCHANGED <<ctl, conn>>

RecvError == (\A c \in Conns : Reads(c) => conn[c].rst) /\ Fails("recvWait", call)

(* Mutant: zero bytes are taken for nothing yet. *)
RecvEndRetries ==
    /\ \A c \in Conns : Reads(c) => conn[c].eof /\ conn[c].read = conn[c].written
    /\ CallStep("recvWait", "recvLoop", [call EXCEPT !.wait = Nothing])
    /\ UNCHANGED <<ctl, conn>>

(* Zero bytes: the peer has closed, which is what completes a response. *)
RecvEnd ==
    /\ \A c \in Conns : Reads(c) => conn[c].eof /\ conn[c].read = conn[c].written
    /\ CallStep("recvWait", "parse", [call EXCEPT !.ended = call.wait, !.wait = Nothing])
    /\ UNCHANGED <<ctl, conn>>

(* The response type decides whether the data parses. *)
ParseOk == Succeeds("parse")
ParseFails == Fails("parse", call)

-----------------------------------------------------------------------------
(* StartCancel: the flag, the test of the callback, and its invocation,    *)
(* which throws if the next call's Reset has emptied it in between.        *)
StartCancel ==
    /\ used.cancels < MaxCancels
    /\ Move("canceller", "idle", "test")
    /\ used' = [used EXCEPT !.cancels = @ + 1]
    /\ ctl' = [ctl EXCEPT !.canceled = TRUE]
    /\ call' = [call EXCEPT !.disturbed = TRUE]
    /\ UNCHANGED <<sockfd, alive, file, conn>>

CancelTest ==
    /\ Move("canceller", "test", IF ctl.callback THEN "invoke" ELSE "idle")
    /\ UNCHANGED <<sockfd, ctl, call, used, alive, file, conn>>

CancelInvoke ==
    /\ Move("canceller", "invoke", "close1")
    /\ alive' = ctl.callback
    /\ UNCHANGED <<sockfd, ctl, call, used, file, conn>>

-----------------------------------------------------------------------------
(* Environment. *)
Peer(c, k) ==
    /\ alive /\ Open(c) /\ ~conn[c].eof /\ pc["caller"] # "connect"
    /\ conn' = [conn EXCEPT ![c] = k]
    /\ UNCHANGED <<pc, sockfd, ctl, call, used, alive, file, other, overlap>>

PeerWrites(c) == conn[c].written < MaxPieces /\ Peer(c, [conn[c] EXCEPT !.written = @ + 1])
PeerCloses(c) == \E r \in BOOLEAN : Peer(c, [conn[c] EXCEPT !.eof = TRUE, !.rst = r])

OtherOpens ==
    /\ alive /\ other = Closed /\ Free # {}
    /\ other' = Lowest(Free)
    /\ file' = [file EXCEPT ![other'] = Foreign]
    /\ UNCHANGED <<pc, sockfd, ctl, call, used, alive, conn, overlap>>

-----------------------------------------------------------------------------
(* What the threads do on their own once they are in an operation. *)
CloseStep(t) == CloseTest(t) \/ CloseSocket(t) \/ CloseReset(t)

CallerStep ==
    \/ CloseStep("caller") \/ Socket \/ SocketFails \/ ConnectOk \/ ConnectFails
    \/ ResetFailed \/ ResetCanceled \/ ResetCallback
    \/ SetCancelCallback \/ SerializeFails \/ \E n \in 0..MaxRequest : Serialize(n)
    \/ SendEnter \/ SendLoop \/ SendSome \/ SendError \/ SigPipe
    \/ RecvEnter \/ RecvLoop \/ RecvCall \/ RecvSome \/ RecvForeign \/ RecvError \/ RecvEnd
    \/ ParseOk \/ ParseFails

CancellerStep == CancelTest \/ CancelInvoke \/ CloseStep("canceller")

Next == \/ CallerStep \/ CancellerStep
        \/ Connect \/ Close \/ CallMethod \/ StartCancel
        \/ SendInterrupted \/ RecvInterrupted
        \/ \E c \in Conns : PeerWrites(c) \/ PeerCloses(c)
        \/ OtherOpens

(* The scheduler runs both threads. *)
Fairness == WF_vars(CallerStep) /\ WF_vars(CancellerStep)

Spec == Init /\ [][Next]_vars /\ Fairness

-----------------------------------------------------------------------------
(* Types of the variables, in particular of the members that both threads  *)
(* write: m_sockfd is -1 or a number in the table.                         *)
TypeOK ==
    /\ pc["caller"] \in {"idle", "reset1", "reset2", "reset3", "callback", "serialize", "sendEnter", "sendLoop", "sendCall",
                        "recvEnter", "recvLoop", "recvCall", "recvWait", "parse"} \union Connecting
    /\ pc["canceller"] \in {"idle", "test", "invoke"} \union Closing
    /\ {sockfd, other} \subseteq Fds \union {Closed}
    /\ ctl \in [failed : BOOLEAN, canceled : BOOLEAN, callback : BOOLEAN]
    /\ call.ret \in {"idle", "socket"}
    /\ call.left \in 0..MaxRequest
    /\ {call.wait, call.ended} \subseteq Conns \union {Nothing, Foreign}
    /\ call.verdict \in {"none", "ok", "failed"}
    /\ call.before \in [Conns -> 0..MaxPieces]
    /\ {call.disturbed, overlap, alive} \subseteq BOOLEAN
    /\ used \in [conns : 0..MaxConns, calls : 0..MaxCalls, cancels : 0..MaxCancels]
    /\ file \in [Fds -> Conns \union {Nothing, Foreign}]
    /\ \A c \in Conns : conn[c].read \in 0..conn[c].written /\ conn[c].written <= MaxPieces

(* When CallMethod has returned, done and the controller agree: done(false) *)
(* if and only if Failed(), on every error path and however cancels fall.  *)
VerdictMatchesController ==
    pc["caller"] = "idle" /\ call.verdict # "none" => (call.verdict = "failed" <=> ctl.failed)

(* The response of a call that succeeds while nobody cancels is all that    *)
(* the peer ever wrote on the connection and no earlier call had read, in  *)
(* order and nothing else; it is empty if earlier calls had read it all.   *)
SuccessIsWholeStream ==
    pc["caller"] = "idle" /\ call.verdict = "ok" /\ ~call.disturbed =>
        /\ call.ended \in Conns
        /\ conn[call.ended].eof
        /\ LET b == call.before[call.ended]
           IN  call.got = [i \in 1..conn[call.ended].written - b |-> <<call.ended, b + i>>]

(* As long as no Close by the canceller overlaps a Connect or Close of the *)
(* caller, the channel never closes a descriptor of another thread and     *)
(* never loses a socket that is open.                                      *)
DescriptorsSafeUnlessOverlap ==
    ~overlap => /\ other # Closed => file[other] = Foreign
                /\ \A f \in Fds : file[f] \in Conns => f = sockfd

(* A call that waits for its answer returns once the peer has closed,      *)
(* unless it is canceled or the process dies.                              *)
CallEndsWithStream ==
    \A c \in Conns : Reads(c) /\ conn[c].eof ~> pc["caller"] = "idle" \/ call.disturbed \/ ~alive
=============================================================================
