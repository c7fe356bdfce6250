------------------------------ MODULE KrpcCall ------------------------------
(***************************************************************************)
(* RPC calls from end to end: the threads of a client process, each with   *)
(* its own KrpcChannel (Krpcchannel.cc) and a KrpcController per call      *)
(* (Krpccontroller.cc), the file descriptor table of that process, TCP     *)
(* connections, and one provider process that reads requests, runs methods *)
(* and answers (OnMessage and SendRpcResponse of Krpcprovider.cc).         *)
(*                                                                         *)
(* A call makes at most one connection, so a connection is named by the    *)
(* call that made its socket.  Each system call of CallMethod on a socket  *)
(* is a step of its own: between them the thread touches only its own      *)
(* objects.  File descriptors are shared by all threads: socket takes the  *)
(* lowest free number, close frees whatever the number stands for at that  *)
(* time.                                                                   *)
(***************************************************************************)
EXTENDS KrpcWire, FiniteSets

CONSTANTS Threads,      \* the client threads; thread t owns channel t
          MaxCalls,     \* bound on the calls made through one channel
          Methods,      \* method names a client asks for
          Published,    \* the methods in the provider's service_map
          ArgValues,    \* request messages, DefaultArgs or others
          NFds,         \* size of the client process's descriptor table
          MaxCrashes,   \* bound on crashes of the provider process
          Fragmented,   \* TRUE if a send or TCP may cut a message into pieces
          Interrupts,   \* TRUE if a blocking send or recv may fail with EINTR
          SerializeFails \* TRUE if SerializeToString may fail

ASSUME KrpcCallBounds == MaxCalls \in Nat /\ NFds \in Nat /\ MaxCrashes \in Nat
ASSUME KrpcCallFlags == {Fragmented, Interrupts, SerializeFails} \subseteq BOOLEAN
ASSUME KrpcCallMethods == Published \subseteq Methods

Calls == Threads \X (1..MaxCalls)
Fds == 1..NFds
Nobody == <<>>          \* the file descriptor is closed, or a thread reads no socket
Closed == -1            \* the initial m_clientfd
Empty == ""             \* a std::string that nothing was assigned to

VARIABLES pc,           \* pc[t]: where thread t stands in CallMethod
          made,         \* made[t]: how many calls thread t has begun
          channel,      \* channel[t]: descriptor, method_name and m_idx of its KrpcChannel
          current,      \* current[t]: the request and the controller of its current call
          fdtab,        \* fdtab[f]: the connection descriptor f stands for, or Nobody
          sock,         \* sock[t]: the connection a recv of thread t is blocked on
          up,           \* up[c]: bytes on their way to the provider on connection c
          down,         \* down[c]: bytes on their way to the client
          peer,         \* peer[c]: the provider's end, "none", "open" or "closed"
          busy,         \* busy[c]: the decoded request whose method runs, or Rejected
          crashes,      \* number of crashes of the provider so far
          alive,        \* the provider process runs
          execs,        \* execs[c]: what the provider ran for call c, in order
          result        \* result[c]: what the caller of c sees after the return

clientVars == <<pc, made, channel, current, fdtab, sock, result>>
netVars == <<up, down>>
serverVars == <<peer, busy, crashes, alive, execs>>
vars == <<clientVars, netVars, serverVars>>

Pending == [returned |-> FALSE]

(* A request for method m, with a fresh controller and response. *)
NewCall(m, a) == [method |-> m, args |-> a, host |-> Empty, failed |-> FALSE, canceled |-> FALSE,
                  response |-> NoResponse]

Init == /\ pc = [t \in Threads |-> "idle"]
        /\ made = [t \in Threads |-> 0]
        /\ channel = [t \in Threads |-> [fd |-> Closed, name |-> Empty, idx |-> 0]]
        /\ current = [t \in Threads |-> NewCall(Empty, DefaultArgs)]
        /\ fdtab = [f \in Fds |-> Nobody]
        /\ sock = [t \in Threads |-> Nobody]
        /\ up = [c \in Calls |-> <<>>]
        /\ down = [c \in Calls |-> <<>>]
        /\ peer = [c \in Calls |-> "none"]
        /\ busy = [c \in Calls |-> Rejected]
        /\ crashes = 0
        /\ alive = TRUE
        /\ execs = [c \in Calls |-> <<>>]
        /\ result = [c \in Calls |-> Pending]

-----------------------------------------------------------------------------
(* The call thread t is in, its descriptor, and what that stands for. *)
Call(t) == <<t, made[t]>>
MyFd(t) == channel[t].fd
OnSocket(t) == IF MyFd(t) \in Fds THEN fdtab[MyFd(t)] ELSE Nobody

(* The client's end of c is open while a descriptor or a blocked recv      *)
(* refers to it.                                                           *)
ClientOpen(c) == \/ \E f \in Fds : fdtab[f] = c
                 \/ \E t \in Threads : sock[t] = c

Goto(t, l) == pc' = [pc EXCEPT ![t] = l]

(* How much of s one send or recv takes: all of it or, with Fragmented, a  *)
(* prefix.                                                                 *)
Moved(s) == {n \in 1..Len(s) : Fragmented \/ n = Len(s)}

(* close(m_clientfd): frees the number, whoever's connection it stands for. *)
CloseFd(t) == fdtab' = IF MyFd(t) \in Fds THEN [fdtab EXCEPT ![MyFd(t)] = Nobody] ELSE fdtab

(* CallMethod returns; failed and resp are what controller and response    *)
(* then hold.                                                              *)
Return(t, failed, resp) ==
    /\ Goto(t, "idle")
    /\ current' = [current EXCEPT ![t] = [@ EXCEPT !.failed = failed, !.response = resp]]
    /\ result' = [result EXCEPT ![Call(t)] =
                    [returned |-> TRUE, failed |-> failed, response |-> resp,
                     method |-> current[t].method, args |-> current[t].args]]

(* A stub method is called with a fresh controller.  Only a channel whose  *)
(* m_clientfd is -1 takes over the service and method names and looks up   *)
(* the provider's address.                                                 *)
BeginCall(t, m, a) ==
    /\ pc[t] = "idle"
    /\ made[t] < MaxCalls
    /\ made' = [made EXCEPT ![t] = @ + 1]
    /\ current' = [current EXCEPT ![t] = NewCall(m, a)]
    /\ \/ /\ MyFd(t) = Closed
          /\ channel' = [channel EXCEPT ![t] = [@ EXCEPT !.name = m]]
          /\ Goto(t, "lookup")
       \/ /\ MyFd(t) # Closed
          /\ channel' = channel
          /\ Goto(t, "serialize")
    /\ UNCHANGED <<fdtab, sock, result, netVars, serverVars>>

(***************************************************************************)
(* QueryServiceHost and the split at m_idx.  The position of the colon in  *)
(* an address is at least 1; 1 stands for all of them.  When the node is   *)
(* missing the function returns the one-character string " " and leaves    *)
(* m_idx alone; when the data has no colon it returns " " with m_idx = -1. *)
(* host_data.substr(m_idx + 1) throws std::out_of_range when m_idx + 1 is  *)
(* beyond the end of the string.                                           *)
(***************************************************************************)
ColonAt == 1
BlankLength == 1

QueryFound(t) == /\ pc[t] = "lookup"
                 /\ channel' = [channel EXCEPT ![t] = [@ EXCEPT !.idx = ColonAt]]
                 /\ current' = [current EXCEPT ![t] = [@ EXCEPT !.host = "address"]]
                 /\ Goto(t, "connect")
                 /\ UNCHANGED <<made, fdtab, sock, result, netVars, serverVars>>

QueryMissing(t) == /\ pc[t] = "lookup"
                   /\ current' = [current EXCEPT ![t] = [@ EXCEPT !.host = "blank"]]
                   /\ Goto(t, IF channel[t].idx + 1 > BlankLength THEN "thrown" ELSE "connect")
                   /\ UNCHANGED <<made, channel, fdtab, sock, result, netVars, serverVars>>

QueryInvalid(t) == /\ pc[t] = "lookup"
                   /\ channel' = [channel EXCEPT ![t] = [@ EXCEPT !.idx = -1]]
                   /\ current' = [current EXCEPT ![t] = [@ EXCEPT !.host = "blank"]]
                   /\ Goto(t, "connect")
                   /\ UNCHANGED <<made, fdtab, sock, result, netVars, serverVars>>

(* newConnect: socket() takes the lowest free descriptor.  channel[t].fd   *)
(* holds the local clientfd until connect() has succeeded and it becomes   *)
(* m_clientfd; nobody reads m_clientfd, which is -1, in between.           *)
LowestFree(f) == fdtab[f] = Nobody /\ \A g \in Fds : g < f => fdtab[g] # Nobody

Socket(t) == /\ pc[t] = "connect"
             /\ \E f \in Fds : /\ LowestFree(f)
                               /\ fdtab' = [fdtab EXCEPT ![f] = Call(t)]
                               /\ channel' = [channel EXCEPT ![t] = [@ EXCEPT !.fd = f]]
             /\ Goto(t, "dialing")
             /\ UNCHANGED <<made, current, sock, result, netVars, serverVars>>

(* The error is logged and CallMethod returns; the controller is not told. *)
SocketFail(t) == /\ pc[t] = "connect"
                 /\ Return(t, FALSE, NoResponse)
                 /\ UNCHANGED <<made, channel, fdtab, sock, netVars, serverVars>>

(* connect() needs a split address, a running provider and a socket that   *)
(* is not connected yet, be it this call's or the one that has got its     *)
(* number meanwhile.                                                       *)
ConnectOk(t) == /\ pc[t] = "dialing"
                /\ current[t].host = "address"
                /\ alive
                /\ OnSocket(t) # Nobody /\ peer[OnSocket(t)] = "none"
                /\ peer' = [peer EXCEPT ![OnSocket(t)] = "open"]
                /\ Goto(t, "serialize")
                /\ UNCHANGED <<made, channel, current, fdtab, sock, result, netVars, busy, crashes,
                               alive, execs>>

(* The number is closed, m_clientfd stays -1, and CallMethod returns as    *)
(* after SocketFail.                                                       *)
ConnectFail(t) == /\ pc[t] = "dialing"
                  /\ CloseFd(t)
                  /\ channel' = [channel EXCEPT ![t] = [@ EXCEPT !.fd = Closed]]
                  /\ Return(t, FALSE, NoResponse)
                  /\ UNCHANGED <<made, sock, netVars, serverVars>>

SerializeOk(t) == /\ pc[t] = "serialize"
                  /\ Goto(t, "send")
                  /\ UNCHANGED <<made, channel, current, fdtab, sock, result, netVars, serverVars>>

(* The request or the header does not serialize: SetFailed, the socket     *)
(* stays open.                                                             *)
SerializeFail(t) == /\ pc[t] = "serialize"
                    /\ SerializeFails
                    /\ Return(t, TRUE, NoResponse)
                    /\ UNCHANGED <<made, channel, fdtab, sock, netVars, serverVars>>

(* send() takes the frame, or a part of it when a signal arrives while it  *)
(* waits for room; CallMethod looks only for -1.  The method name is the   *)
(* one the channel stored, the arguments are this call's.  Bytes for a     *)
(* provider that has closed its end are accepted by the kernel and lost.   *)
SendOk(t) == /\ pc[t] = "send"
             /\ OnSocket(t) # Nobody /\ peer[OnSocket(t)] # "none"
             /\ LET frame == Frame(Call(t), channel[t].name, current[t].args)
                IN  \E n \in Moved(frame) :
                       up' = IF peer[OnSocket(t)] = "open"
                             THEN [up EXCEPT ![OnSocket(t)] = @ \o SubSeq(frame, 1, n)]
                             ELSE up
             /\ Goto(t, "recv")
             /\ UNCHANGED <<made, channel, current, fdtab, sock, result, down, serverVars>>

(* send() fails: always on a closed descriptor or a socket that is not     *)
(* connected, or because the peer reset the connection or of a signal.     *)
SendFail(t) == /\ pc[t] = "send"
               /\ OnSocket(t) # Nobody => peer[OnSocket(t)] # "open" \/ Interrupts
               /\ CloseFd(t)
               /\ Return(t, TRUE, NoResponse)
               /\ UNCHANGED <<made, channel, sock, netVars, serverVars>>

(* recv() enters the kernel, which keeps the connection it found. *)
RecvEnter(t) == /\ pc[t] = "recv"
                /\ OnSocket(t) # Nobody /\ peer[OnSocket(t)] # "none"
                /\ sock' = [sock EXCEPT ![t] = OnSocket(t)]
                /\ Goto(t, "blocked")
                /\ UNCHANGED <<made, channel, current, fdtab, result, netVars, serverVars>>

(* recv() fails at once: a closed number, or a socket not yet connected. *)
RecvClosed(t) == /\ pc[t] = "recv"
                 /\ OnSocket(t) # Nobody => peer[OnSocket(t)] = "none"
                 /\ Return(t, TRUE, NoResponse)
                 /\ UNCHANGED <<made, channel, fdtab, sock, netVars, serverVars>>

(* recv() returns bytes: all that have arrived or, when TCP fragments, a   *)
(* prefix of them.  They parse, and the socket is closed next.             *)
RecvData(t) == /\ pc[t] = "blocked"
               /\ \E n \in Moved(down[sock[t]]) :
                    /\ current' = [current EXCEPT ![t] =
                          [@ EXCEPT !.response = ParseReply(SubSeq(down[sock[t]], 1, n))]]
                    /\ down' = [down EXCEPT ![sock[t]] = SubSeq(@, n + 1, Len(@))]
               /\ sock' = [sock EXCEPT ![t] = Nobody]
               /\ Goto(t, "close")
               /\ UNCHANGED <<made, channel, fdtab, result, up, serverVars>>

(* recv() returns bytes cut inside a field, by TCP or by the 1024 bytes of *)
(* recv_buf: ParseFromArray fails.                                         *)
RecvTorn(t) == /\ pc[t] = "blocked"
               /\ Fragmented
               /\ down[sock[t]] # <<>>
               /\ down' = [down EXCEPT ![sock[t]] = <<>>]
               /\ sock' = [sock EXCEPT ![t] = Nobody]
               /\ current' = [current EXCEPT ![t] = [@ EXCEPT !.failed = TRUE]]
               /\ Goto(t, "close")
               /\ UNCHANGED <<made, channel, fdtab, result, up, serverVars>>

(* Mutant: the socket is closed here and again at the end of CallMethod. *)
RecvEofCloses(t) == /\ pc[t] = "blocked"
                    /\ peer[sock[t]] = "closed" /\ down[sock[t]] = <<>>
                    /\ current' = [current EXCEPT ![t] = [@ EXCEPT !.response = ParseReply(<<>>)]]
                    /\ sock' = [sock EXCEPT ![t] = Nobody]
                    /\ CloseFd(t)
                    /\ Goto(t, "close")
                    /\ UNCHANGED <<made, channel, result, netVars, serverVars>>

(* recv() returns 0 because the provider closed its end; zero bytes parse. *)
RecvEof(t) == /\ pc[t] = "blocked"
              /\ peer[sock[t]] = "closed" /\ down[sock[t]] = <<>>
              /\ current' = [current EXCEPT ![t] = [@ EXCEPT !.response = ParseReply(<<>>)]]
              /\ sock' = [sock EXCEPT ![t] = Nobody]
              /\ Goto(t, "close")
              /\ UNCHANGED <<made, channel, fdtab, result, netVars, serverVars>>

(* Mutants: the request is sent again; SetFailed is forgotten. *)
RecvErrorRetry(t) == /\ pc[t] = "blocked"
                     /\ peer[sock[t]] = "closed" \/ Interrupts
                     /\ sock' = [sock EXCEPT ![t] = Nobody]
                     /\ Goto(t, "send")
                     /\ UNCHANGED <<made, channel, current, fdtab, result, netVars, serverVars>>

RecvErrorSilent(t) == /\ pc[t] = "blocked"
                      /\ peer[sock[t]] = "closed" \/ Interrupts
                      /\ sock' = [sock EXCEPT ![t] = Nobody]
                      /\ Return(t, FALSE, NoResponse)
                      /\ UNCHANGED <<made, channel, fdtab, netVars, serverVars>>

(* recv() returns -1: a reset connection or a signal.  SetFailed and       *)
(* return; the socket stays open.                                          *)
RecvError(t) == /\ pc[t] = "blocked"
                /\ peer[sock[t]] = "closed" \/ Interrupts
                /\ sock' = [sock EXCEPT ![t] = Nobody]
                /\ Return(t, TRUE, NoResponse)
                /\ UNCHANGED <<made, channel, fdtab, netVars, serverVars>>

(* Mutant: the last close(m_clientfd) is forgotten. *)
CloseForgotten(t) == /\ pc[t] = "close"
                     /\ Return(t, current[t].failed, current[t].response)
                     /\ UNCHANGED <<made, channel, fdtab, sock, netVars, serverVars>>

(* The last statement of CallMethod, and the one of its parse error path.  *)
(* m_clientfd keeps the number of the closed descriptor.                   *)
Close(t) == /\ pc[t] = "close"
            /\ CloseFd(t)
            /\ Return(t, current[t].failed, current[t].response)
            /\ UNCHANGED <<made, channel, sock, netVars, serverVars>>

(* KrpcController::StartCancel from another thread while the call is under *)
(* way: it sets the flag and runs the registered callback; CallMethod      *)
(* registers none and never reads the flag.                                *)
StartCancel(t) == /\ pc[t] \notin {"idle", "thrown"}
                  /\ ~current[t].canceled
                  /\ current' = [current EXCEPT ![t] = [@ EXCEPT !.canceled = TRUE]]
                  /\ UNCHANGED <<pc, made, channel, fdtab, sock, result, netVars, serverVars>>
-----------------------------------------------------------------------------
(* OnMessage: the event loop thread of connection c has read some bytes.   *)
(* A request that cannot be decoded, or that names an unknown method, is   *)
(* dropped without an answer; otherwise the method starts.                 *)
OnMessage(c) ==
    /\ alive /\ peer[c] = "open" /\ busy[c] = Rejected
    /\ \E n \in Moved(up[c]) :
         LET req == Decode(SubSeq(up[c], 1, n))
         IN  /\ up' = [up EXCEPT ![c] = SubSeq(@, n + 1, Len(@))]
             /\ \/ /\ req.ok
                   /\ req.method \in Published
                   /\ busy' = [busy EXCEPT ![c] = req]
                   /\ execs' = [execs EXCEPT ![req.call] =
                                  Append(@, [method |-> req.method, args |-> req.args])]
                \/ /\ ~(req.ok /\ req.method \in Published)
                   /\ UNCHANGED <<busy, execs>>
    /\ UNCHANGED <<clientVars, down, peer, crashes, alive>>

(* Mutants: the answer goes to some open connection; it is never sent. *)
SendRpcResponseAnywhere(c) ==
    /\ alive /\ peer[c] = "open" /\ busy[c] # Rejected
    /\ \E d \in Calls : /\ peer[d] = "open"
                        /\ down' = [down EXCEPT ![d] =
                             @ \o Reply(busy[c].call, busy[c].method, busy[c].args)]
    /\ busy' = [busy EXCEPT ![c] = Rejected]
    /\ UNCHANGED <<clientVars, up, peer, crashes, alive, execs>>

SendRpcResponseNever(c) ==
    /\ alive /\ peer[c] = "open" /\ busy[c] # Rejected
    /\ busy' = [busy EXCEPT ![c] = Rejected]
    /\ UNCHANGED <<clientVars, netVars, peer, crashes, alive, execs>>

(* The method runs its done closure: SendRpcResponse.  A response that     *)
(* does not serialize is not sent.  The connection is left open.           *)
SendRpcResponse(c) ==
    /\ alive /\ peer[c] = "open" /\ busy[c] # Rejected
    /\ \/ down' = IF ClientOpen(c)
                  THEN [down EXCEPT ![c] = @ \o Reply(busy[c].call, busy[c].method, busy[c].args)]
                  ELSE down
       \/ SerializeFails /\ down' = down
    /\ busy' = [busy EXCEPT ![c] = Rejected]
    /\ UNCHANGED <<clientVars, up, peer, crashes, alive, execs>>

(* OnConnection, disconnected: the provider has read to the end of a       *)
(* connection the client closed.                                           *)
OnDisconnect(c) ==
    /\ alive /\ peer[c] = "open" /\ busy[c] = Rejected
    /\ ~ClientOpen(c) /\ up[c] = <<>>
    /\ peer' = [peer EXCEPT ![c] = "closed"]
    /\ UNCHANGED <<clientVars, netVars, busy, crashes, alive, execs>>

(* The provider process dies; its kernel closes every connection.  Bytes   *)
(* it had sent may still arrive.                                           *)
Crash ==
    /\ alive /\ crashes < MaxCrashes
    /\ alive' = FALSE
    /\ crashes' = crashes + 1
    /\ peer' = [c \in Calls |-> IF peer[c] = "open" THEN "closed" ELSE peer[c]]
    /\ busy' = [c \in Calls |-> Rejected]
    /\ up' = [c \in Calls |-> <<>>]
    /\ UNCHANGED <<clientVars, down, execs>>

Restart == /\ ~alive
           /\ alive' = TRUE
           /\ UNCHANGED <<clientVars, netVars, peer, busy, crashes, execs>>
-----------------------------------------------------------------------------
Receive(t) == RecvData(t) \/ RecvTorn(t) \/ RecvEof(t) \/ RecvError(t)

CallStep(t) == \/ QueryFound(t) \/ QueryMissing(t) \/ QueryInvalid(t)
               \/ Socket(t) \/ SocketFail(t) \/ ConnectOk(t) \/ ConnectFail(t)
               \/ SerializeOk(t) \/ SerializeFail(t)
               \/ SendOk(t) \/ SendFail(t)
               \/ RecvEnter(t) \/ RecvClosed(t) \/ Receive(t)
               \/ Close(t)

ServeStep(c) == OnMessage(c) \/ SendRpcResponse(c)

(* Every thread has made its calls; the program's only final states. *)
AllDone == /\ \A t \in Threads : pc[t] = "thrown" \/ (pc[t] = "idle" /\ made[t] = MaxCalls)
           /\ UNCHANGED vars

Next == \/ \E t \in Threads : \/ \E m \in Methods, a \in ArgValues : BeginCall(t, m, a)
                              \/ CallStep(t)
                              \/ StartCancel(t)
        \/ \E c \in Calls : ServeStep(c) \/ OnDisconnect(c)
        \/ Crash \/ Restart
        \/ AllDone

SafeSpec == Init /\ [][Next]_vars

(* A recv for which nothing has arrived on a connection that is up. *)
Waits(t) == pc[t] = "blocked" /\ peer[sock[t]] = "open" /\ down[sock[t]] = <<>>

(* Threads that can run do run, and so do the provider's event loops; a    *)
(* program need not call, cancel, crash or restart, and no signal need     *)
(* interrupt a recv that waits.                                            *)
Spec == /\ SafeSpec
        /\ \A t \in Threads : WF_vars(~Waits(t) /\ CallStep(t))
        /\ \A c \in Calls : WF_vars(ServeStep(c))
-----------------------------------------------------------------------------
(* Type invariant. *)
Cells == [part : {"len", "svc", "mth", "size", "args", "result", "value"},
          call : Calls, method : Methods, args : ArgValues \union {DefaultArgs}]

Channels == [fd : Fds \union {Closed}, name : Methods \union {Empty}, idx : {-1, 0, ColonAt}]

Responses == {NoResponse, [kind |-> "default"]}
                \union [kind : {"partial", "full"}, from : Cells]

TypeOK ==
    /\ pc \in [Threads -> {"idle", "lookup", "connect", "dialing", "serialize", "send",
                           "recv", "blocked", "close", "thrown"}]
    /\ made \in [Threads -> 0..MaxCalls]
    /\ channel \in [Threads -> Channels]
    /\ \A t \in Threads : /\ current[t].method \in Methods \union {Empty}
                          /\ current[t].args \in ArgValues \union {DefaultArgs}
                          /\ current[t].host \in {Empty, "address", "blank"}
                          /\ current[t].failed \in BOOLEAN /\ current[t].canceled \in BOOLEAN
                          /\ current[t].response \in Responses
    /\ fdtab \in [Fds -> Calls \union {Nobody}]
    /\ sock \in [Threads -> Calls \union {Nobody}]
    /\ \A c \in Calls : /\ \A i \in DOMAIN up[c] : up[c][i] \in Cells
                        /\ \A i \in DOMAIN down[c] : down[c][i] \in Cells
    /\ peer \in [Calls -> {"none", "open", "closed"}]
    /\ crashes \in 0..MaxCrashes
    /\ alive \in BOOLEAN

Requested(c) == IF result[c].returned THEN result[c] ELSE current[c[1]]
InCall(t) == pc[t] \in {"dialing", "serialize", "send", "recv", "blocked", "close"}

(* From its socket() on, a call's descriptor stands for the socket that    *)
(* this call made: no other thread closed it or got its number.            *)
OwnSocket == \A t \in Threads : /\ InCall(t) => OnSocket(t) = Call(t)
                                /\ pc[t] = "blocked" => sock[t] = Call(t)

(* The response a call returns with was produced for that very call, by    *)
(* the method it asked for.                                                *)
AnswersOwnRequest ==
    \A c \in Calls : result[c].returned /\ result[c].response.kind \in {"partial", "full"}
                        => /\ result[c].response.from.call = c
                           /\ result[c].response.from.method = result[c].method

(* The provider runs a call at most once, whatever TCP does with the       *)
(* pieces of its request and however the call ends.                        *)
AtMostOnce == \A c \in Calls : Len(execs[c]) <= 1

(* The provider runs a call with the arguments the client sent.            *)
ExecutedAsSent ==
    \A c \in Calls : \A i \in DOMAIN execs[c] : /\ execs[c][i].method = Requested(c).method
                                                /\ execs[c][i].args = Requested(c).args

(* A complete answer without an error proves that the provider ran the     *)
(* call, once, as it was asked to.                                         *)
CompleteAnswerProvesExecution ==
    \A c \in Calls :
        result[c].returned /\ ~result[c].failed /\ result[c].response.kind = "full"
            => execs[c] = <<[method |-> result[c].method, args |-> result[c].args]>>

(* A call that returns without an error and without touching the response  *)
(* (it could not connect) has no effect on the provider, then or later.    *)
SilentFailureHasNoEffect ==
    \A c \in Calls : result[c].returned /\ ~result[c].failed /\ result[c].response = NoResponse
                        => /\ execs[c] = <<>>
                           /\ \A d \in Calls : \A i \in DOMAIN up[d] : up[d][i].call # c

(* Sockets that stay open after their call are those of a call that failed *)
(* before it had a response.                                               *)
OpenSocketsAccountedFor ==
    \A f \in Fds : fdtab[f] # Nobody =>
        \/ \E t \in Threads : Call(t) = fdtab[f] /\ InCall(t)
        \/ /\ result[fdtab[f]].returned
           /\ result[fdtab[f]].failed
           /\ result[fdtab[f]].response = NoResponse

(* Every call returns. *)
CallReturns == \A t \in Threads : pc[t] # "idle" ~> pc[t] \in {"idle", "thrown"}
=============================================================================
