--------------------------- MODULE KrpcCallProofs ---------------------------
(***************************************************************************)
(* Proofs about KrpcCall for any number of threads, descriptors, methods   *)
(* and crashes.  However calls reuse their channel, a call runs at most    *)
(* once, open sockets are accounted for and a silent failure has no        *)
(* effect.  A program that makes one call per channel, as                  *)
(* example/caller/Kclient.cc does, always talks on the connection it made, *)
(* and gets its own answers.                                               *)
(***************************************************************************)
EXTENDS KrpcCall, WellFoundedInduction, TLAPS

(* The part of the client's state that decides who uses which descriptor. *)
ClientTypes ==
    /\ pc \in [Threads -> {"idle", "lookup", "connect", "dialing", "serialize", "send",
                           "recv", "blocked", "close", "thrown"}]
    /\ made \in [Threads -> 0..MaxCalls]
    /\ channel \in [Threads -> Channels]
    /\ fdtab \in [Fds -> Calls \union {Nobody}]
    /\ sock \in [Threads -> Calls \union {Nobody}]

(* A thread that has not called is idle and has no descriptor; one that is *)
(* looking up the provider or connecting has none yet; one that connects   *)
(* or has a descriptor knows a method name.                                *)
Before(t) == /\ made[t] = 0 => pc[t] = "idle" /\ MyFd(t) = Closed
             /\ pc[t] \in {"lookup", "connect"} => MyFd(t) = Closed
             /\ pc[t] \in {"lookup", "connect"} \/ MyFd(t) # Closed => channel[t].name \in Methods
             /\ pc[t] = "blocked" => sock[t] # Nobody
BeforeConnect == \A t \in Threads : Before(t)

ClientInv == ClientTypes /\ BeforeConnect

USE DEF Closed, Nobody

(* Strings of the model's state. *)
Names == Methods \union {Empty}
Arguments == ArgValues \union {DefaultArgs}
Streams == Seq(Cells)

(* What a call holds, what its caller sees, what the provider works on. *)
CurrentSet == [method : Names, args : Arguments, host : {Empty, "address", "blank"},
               failed : BOOLEAN, canceled : BOOLEAN, response : Responses]
Outcomes == [returned : {TRUE}, failed : BOOLEAN, response : Responses, method : Names,
             args : Arguments]
Requests == [ok : {TRUE}, call : Calls, method : Methods, args : Arguments]
Executions == [method : Methods, args : Arguments]
Runs == Seq(Executions)

DataTypes == /\ current \in [Threads -> CurrentSet]
             /\ result \in [Calls -> {Pending} \union Outcomes]
NetTypes == up \in [Calls -> Streams] /\ down \in [Calls -> Streams]
ServeTypes == /\ peer \in [Calls -> {"none", "open", "closed"}]
              /\ busy \in [Calls -> {Rejected} \union Requests]
              /\ crashes \in 0..MaxCrashes
              /\ alive \in BOOLEAN
              /\ execs \in [Calls -> Runs]
AllTypes == DataTypes /\ NetTypes /\ ServeTypes
-----------------------------------------------------------------------------
(* A connection is never mistaken for a closed descriptor, two threads     *)
(* never name the same call.                                               *)
LEMMA CallNames == ASSUME ClientTypes, NEW t \in Threads
                   PROVE  /\ Call(t) # Nobody
                          /\ \A u \in Threads : Call(u) = Call(t) => u = t
  BY DEF Call, ClientTypes

(* A thread that is in a call names one. *)
LEMMA CallIsCall == ASSUME ClientInv, NEW t \in Threads, pc[t] # "idle"
                    PROVE  Call(t) \in Calls
<1>1. made[t] \in 1..MaxCalls
  BY KrpcCallBounds DEF ClientInv, ClientTypes, BeforeConnect, Before
<1> QED
  BY <1>1 DEF Call, Calls

(* What the members of a call are. *)
LEMMA CallParts == ASSUME NEW c \in Calls
                   PROVE  /\ c[1] \in Threads /\ c[2] \in 1..MaxCalls /\ c = <<c[1], c[2]>>
                          /\ c # Nobody
  BY DEF Calls

(* Initially no channel has a descriptor. *)
LEMMA ClientInit == ASSUME Init PROVE ClientInv
<1>1. ClientTypes
  <2>1. channel \in [Threads -> Channels]
    BY DEF Init, Channels
  <2>2. made \in [Threads -> 0..MaxCalls]
    <3>1. made = [t \in Threads |-> 0]
      BY DEF Init
    <3> QED
      BY <3>1, KrpcCallBounds
  <2> QED
    BY <2>1, <2>2 DEF Init, ClientTypes
<1>2. BeforeConnect
  BY DEF Init, BeforeConnect, Before, MyFd
<1> QED
  BY <1>1, <1>2 DEF ClientInv

(* Assigning to a member of a channel gives a channel. *)
LEMMA ChannelUpdate ==
    ASSUME channel \in [Threads -> Channels], NEW t \in Threads
    PROVE  /\ \A f \in Fds \union {Closed} :
                 [channel EXCEPT ![t] = [@ EXCEPT !.fd = f]] \in [Threads -> Channels]
           /\ \A m \in Methods : [channel EXCEPT ![t] = [@ EXCEPT !.name = m]] \in [Threads -> Channels]
           /\ \A i \in {-1, 0, ColonAt} :
                 [channel EXCEPT ![t] = [@ EXCEPT !.idx = i]] \in [Threads -> Channels]
<1> DEFINE ch == channel[t]
<1>1. ch \in Channels
  OBVIOUS
<1>2. \A f \in Fds \union {Closed} : [ch EXCEPT !.fd = f] \in Channels
  BY <1>1 DEF Channels
<1>3. \A m \in Methods : [ch EXCEPT !.name = m] \in Channels
  BY <1>1 DEF Channels
<1>4. \A i \in {-1, 0, ColonAt} : [ch EXCEPT !.idx = i] \in Channels
  BY <1>1 DEF Channels
<1>5. \A c \in Channels : [channel EXCEPT ![t] = c] \in [Threads -> Channels]
  OBVIOUS
<1> QED
  BY <1>2, <1>3, <1>4, <1>5

(* Assigning to another member leaves every m_clientfd alone. *)
LEMMA FdUntouched ==
    ASSUME channel \in [Threads -> Channels], NEW t \in Threads, NEW u \in Threads
    PROVE  /\ \A m : [channel EXCEPT ![t] = [@ EXCEPT !.name = m]][u].fd = channel[u].fd
           /\ \A i : [channel EXCEPT ![t] = [@ EXCEPT !.idx = i]][u].fd = channel[u].fd
           /\ \A f : [channel EXCEPT ![t] = [@ EXCEPT !.fd = f]][t].fd = f
<1>1. \A m : [channel EXCEPT ![t] = [@ EXCEPT !.name = m]][u].fd = channel[u].fd
  BY DEF Channels
<1>2. \A i : [channel EXCEPT ![t] = [@ EXCEPT !.idx = i]][u].fd = channel[u].fd
  BY DEF Channels
<1>3. \A f : [channel EXCEPT ![t] = [@ EXCEPT !.fd = f]][t].fd = f
  <2> DEFINE ch == channel[t]
  <2>1. ch \in Channels
    OBVIOUS
  <2>2. \A f : [ch EXCEPT !.fd = f].fd = f
    BY <2>1 DEF Channels
  <2>3. \A k : [channel EXCEPT ![t] = k][t] = k
    OBVIOUS
  <2> QED
    BY <2>2, <2>3
<1> QED
  BY <1>1, <1>2, <1>3

(* Every step keeps the types of the client's state. *)
LEMMA TypesStep == ASSUME ClientInv, [Next]_vars PROVE ClientTypes'
<1> USE DEF ClientInv, ClientTypes
<1>1. ASSUME NEW t \in Threads, NEW m \in Methods, NEW a \in ArgValues, BeginCall(t, m, a)
      PROVE ClientTypes'
  <2>1. made' \in [Threads -> 0..MaxCalls]
    <3>1. made[t] < MaxCalls /\ made' = [made EXCEPT ![t] = @ + 1]
      BY <1>1 DEF BeginCall
    <3> QED
      BY <3>1, KrpcCallBounds
  <2>2. channel' \in [Threads -> Channels]
    <3>1. channel' = channel \/ channel' = [channel EXCEPT ![t] = [@ EXCEPT !.name = m]]
      BY <1>1 DEF BeginCall
    <3>2. [channel EXCEPT ![t] = [@ EXCEPT !.name = m]] \in [Threads -> Channels]
      BY ChannelUpdate
    <3> QED
      BY <3>1, <3>2
  <2> QED
    BY <1>1, <2>1, <2>2 DEF BeginCall, Goto
<1>2. ASSUME NEW t \in Threads, QueryFound(t) \/ QueryMissing(t) \/ QueryInvalid(t)
      PROVE ClientTypes'
  <2>1. channel' \in [Threads -> Channels]
    <3>1. \/ channel' = channel
          \/ channel' = [channel EXCEPT ![t] = [@ EXCEPT !.idx = ColonAt]]
          \/ channel' = [channel EXCEPT ![t] = [@ EXCEPT !.idx = -1]]
      BY <1>2 DEF QueryFound, QueryMissing, QueryInvalid
    <3>2. /\ [channel EXCEPT ![t] = [@ EXCEPT !.idx = ColonAt]] \in [Threads -> Channels]
          /\ [channel EXCEPT ![t] = [@ EXCEPT !.idx = -1]] \in [Threads -> Channels]
      BY ChannelUpdate
    <3> QED
      BY <3>1, <3>2
  <2> QED
    BY <1>2, <2>1 DEF QueryFound, QueryMissing, QueryInvalid, Goto
<1>3. ASSUME NEW t \in Threads, Socket(t) PROVE ClientTypes'
  <2>1. made[t] \in 1..MaxCalls
    BY <1>3, KrpcCallBounds DEF Socket, BeforeConnect, Before
  <2>2. Call(t) \in Calls
    BY <2>1 DEF Call, Calls
  <2>3. channel' \in [Threads -> Channels]
    <3>1. PICK f \in Fds : channel' = [channel EXCEPT ![t] = [@ EXCEPT !.fd = f]]
      BY <1>3 DEF Socket
    <3> QED
      BY <3>1, ChannelUpdate
  <2>4. fdtab' \in [Fds -> Calls \union {Nobody}]
    BY <1>3, <2>2 DEF Socket
  <2> QED
    BY <1>3, <2>3, <2>4 DEF Socket, Goto
<1>9. ASSUME NEW t \in Threads, ConnectFail(t) PROVE ClientTypes'
  <2>1. channel' \in [Threads -> Channels]
    BY <1>9, ChannelUpdate DEF ConnectFail
  <2>2. fdtab' \in [Fds -> Calls \union {Nobody}]
    BY <1>9 DEF ConnectFail, CloseFd
  <2>3. pc' = [pc EXCEPT ![t] = "idle"] /\ made' = made /\ sock' = sock
    BY <1>9 DEF ConnectFail, Return, Goto
  <2> QED
    BY <2>1, <2>2, <2>3
<1>4. ASSUME NEW t \in Threads,
             \/ SocketFail(t) \/ ConnectOk(t) \/ SerializeOk(t) \/ SerializeFail(t) \/ SendOk(t)
             \/ RecvClosed(t)
      PROVE ClientTypes'
  BY <1>4 DEF SocketFail, ConnectOk, SerializeOk, SerializeFail, SendOk, RecvClosed, Goto, Return
<1>5. ASSUME NEW t \in Threads, SendFail(t) \/ Close(t) PROVE ClientTypes'
  BY <1>5 DEF SendFail, Close, Goto, Return, CloseFd
<1>6. ASSUME NEW t \in Threads, RecvEnter(t) PROVE ClientTypes'
  BY <1>6 DEF RecvEnter, Goto, OnSocket, MyFd
<1>7. ASSUME NEW t \in Threads, Receive(t) PROVE ClientTypes'
  <2>1. /\ pc' = [pc EXCEPT ![t] = "close"] \/ pc' = [pc EXCEPT ![t] = "idle"]
        /\ sock' = [sock EXCEPT ![t] = Nobody]
        /\ made' = made /\ channel' = channel /\ fdtab' = fdtab
    BY <1>7 DEF Receive, RecvData, RecvTorn, RecvEof, RecvError, Goto, Return
  <2> QED
    BY <2>1
<1>8. CASE UNCHANGED <<pc, made, channel, fdtab, sock>>
  <2>1. pc' = pc /\ made' = made /\ channel' = channel /\ fdtab' = fdtab /\ sock' = sock
    BY <1>8
  <2> QED
    BY <2>1
<1> QED
  BY <1>1, <1>2, <1>3, <1>4, <1>5, <1>6, <1>7, <1>8, <1>9
     DEF Next, CallStep, StartCancel, ServeStep, OnMessage, SendRpcResponse, OnDisconnect,
         Crash, Restart, AllDone, vars, clientVars

(* Assigning to another member leaves the name alone, too. *)
LEMMA NameUntouched ==
    ASSUME channel \in [Threads -> Channels], NEW t \in Threads, NEW u \in Threads
    PROVE  /\ \A i : [channel EXCEPT ![t] = [@ EXCEPT !.idx = i]][u].name = channel[u].name
           /\ \A f : [channel EXCEPT ![t] = [@ EXCEPT !.fd = f]][u].name = channel[u].name
           /\ \A m : [channel EXCEPT ![t] = [@ EXCEPT !.name = m]][t].name = m
<1>1. \A i : [channel EXCEPT ![t] = [@ EXCEPT !.idx = i]][u].name = channel[u].name
  BY DEF Channels
<1>2. \A f : [channel EXCEPT ![t] = [@ EXCEPT !.fd = f]][u].name = channel[u].name
  BY DEF Channels
<1>3. \A m : [channel EXCEPT ![t] = [@ EXCEPT !.name = m]][t].name = m
  BY DEF Channels
<1> QED
  BY <1>1, <1>2, <1>3

(* A thread that moves on with the same channel and outside lookup and     *)
(* connect keeps BeforeConnect.                                            *)
LEMMA BeforeConnectKept ==
    ASSUME ClientInv, NEW t \in Threads, made[t] # 0,
           made' = made, \A u \in Threads : u # t => pc'[u] = pc[u] /\ sock'[u] = sock[u],
           \A u \in Threads : channel'[u].name = channel[u].name,
           \A u \in Threads : channel'[u].fd = channel[u].fd,
           pc'[t] \in {"lookup", "connect"} => pc[t] \in {"lookup", "connect"},
           pc'[t] = "blocked" => sock'[t] # Nobody
    PROVE  BeforeConnect'
  BY DEF ClientInv, BeforeConnect, Before, MyFd

(* Every step keeps threads that have not connected away from descriptors. *)
LEMMA BeforeConnectStep == ASSUME ClientInv, [Next]_vars PROVE BeforeConnect'
<1>0. ClientTypes /\ BeforeConnect /\ \A t \in Threads : pc[t] # "idle" => made[t] # 0
  BY DEF ClientInv, BeforeConnect, Before
<1> USE DEF ClientTypes
<1>1. ASSUME NEW t \in Threads, NEW m \in Methods, NEW a \in ArgValues, BeginCall(t, m, a)
      PROVE BeforeConnect'
  <2>1. made' = [made EXCEPT ![t] = made[t] + 1] /\ sock' = sock
    BY <1>1 DEF BeginCall
  <2>2. /\ \A u \in Threads : u # t => pc'[u] = pc[u] /\ made'[u] = made[u] /\ channel'[u] = channel[u]
        /\ made'[t] # 0
    BY <1>0, <1>1, <2>1 DEF BeginCall, Goto
  <2>3. CASE MyFd(t) = Closed
    <3>1. pc' = [pc EXCEPT ![t] = "lookup"] /\ channel' = [channel EXCEPT ![t] = [@ EXCEPT !.name = m]]
      BY <1>1, <2>3 DEF BeginCall, Goto
    <3>2. channel'[t].fd = Closed /\ channel'[t].name = m /\ pc'[t] = "lookup"
      <4>1. channel'[t].fd = channel[t].fd
        BY <1>0, <3>1, FdUntouched
      <4>2. channel'[t].name = m
        BY <1>0, <3>1, NameUntouched
      <4>3. pc'[t] = "lookup"
        BY <1>0, <3>1
      <4> QED
        BY <2>3, <4>1, <4>2, <4>3 DEF MyFd
    <3>3. Before(t)'
      BY <2>2, <3>2 DEF Before, MyFd
    <3>4. \A u \in Threads : u # t => Before(u)'
      BY <1>0, <2>1, <2>2 DEF BeforeConnect, Before, MyFd
    <3> QED
      BY <3>3, <3>4 DEF BeforeConnect
  <2>4. CASE MyFd(t) # Closed
    <3>1. pc'[t] = "serialize" /\ channel' = channel
      BY <1>0, <1>1, <2>4 DEF BeginCall, Goto
    <3> QED
      BY <1>0, <2>1, <2>2, <2>4, <3>1 DEF BeforeConnect, Before, MyFd
  <2> QED
    BY <2>3, <2>4
<1>2. ASSUME NEW t \in Threads, QueryFound(t) \/ QueryMissing(t) \/ QueryInvalid(t)
      PROVE BeforeConnect'
  <2>1. \A u \in Threads : channel'[u].fd = channel[u].fd /\ channel'[u].name = channel[u].name
    <3>1. \/ channel' = channel
          \/ channel' = [channel EXCEPT ![t] = [@ EXCEPT !.idx = ColonAt]]
          \/ channel' = [channel EXCEPT ![t] = [@ EXCEPT !.idx = -1]]
      BY <1>2 DEF QueryFound, QueryMissing, QueryInvalid
    <3>2. CASE channel' = channel
      BY <3>2
    <3>3. CASE channel' = [channel EXCEPT ![t] = [@ EXCEPT !.idx = ColonAt]]
      BY <1>0, <3>3, FdUntouched, NameUntouched
    <3>4. CASE channel' = [channel EXCEPT ![t] = [@ EXCEPT !.idx = -1]]
      BY <1>0, <3>4, FdUntouched, NameUntouched
    <3> QED
      BY <3>1, <3>2, <3>3, <3>4
  <2>2. pc[t] = "lookup" /\ made' = made /\ sock' = sock
    BY <1>2 DEF QueryFound, QueryMissing, QueryInvalid
  <2>3. /\ \A u \in Threads : u # t => pc'[u] = pc[u]
        /\ pc'[t] \in {"connect", "thrown"}
    BY <1>0, <1>2 DEF QueryFound, QueryMissing, QueryInvalid, Goto
  <2> QED
    BY <1>0, <2>1, <2>2, <2>3, BeforeConnectKept
<1>3. ASSUME NEW t \in Threads, Socket(t) \/ ConnectFail(t) PROVE BeforeConnect'
  <2>1. PICK f \in Fds \union {Closed} :
              /\ channel' = [channel EXCEPT ![t] = [@ EXCEPT !.fd = f]]
              /\ f # Closed => pc[t] = "connect"
    BY <1>3 DEF Socket, ConnectFail
  <2>2. \A u \in Threads : u # t => channel'[u] = channel[u]
    BY <1>0, <2>1
  <2>3. /\ channel'[t].name = channel[t].name /\ channel'[t].fd = f
        /\ f # Closed => channel[t].name \in Methods
    BY <1>0, <2>1, NameUntouched, FdUntouched DEF BeforeConnect, Before
  <2>4. /\ made' = made /\ made[t] # 0 /\ sock' = sock
        /\ \A u \in Threads : u # t => pc'[u] = pc[u]
        /\ pc'[t] \in {"dialing", "idle"}
    BY <1>0, <1>3 DEF Socket, ConnectFail, Return, Goto
  <2> QED
    BY <1>0, <2>2, <2>3, <2>4 DEF BeforeConnect, Before, MyFd
<1>4. ASSUME NEW t \in Threads,
             \/ SocketFail(t) \/ ConnectOk(t) \/ SerializeOk(t) \/ SerializeFail(t) \/ SendOk(t)
             \/ RecvClosed(t) \/ SendFail(t) \/ Close(t) \/ Receive(t)
      PROVE BeforeConnect'
  <2>1. made' = made /\ channel' = channel /\ pc[t] # "idle"
    BY <1>4 DEF SocketFail, ConnectOk, SerializeOk, SerializeFail, SendOk, RecvClosed, SendFail, Close, Receive,
                RecvData, RecvTorn, RecvEof, RecvError
  <2>2. \A u \in Threads : u # t => sock'[u] = sock[u]
    BY <1>0, <1>4
    DEF SocketFail, ConnectOk, SerializeOk, SerializeFail, SendOk, RecvClosed, SendFail, Close, Receive,
        RecvData, RecvTorn, RecvEof, RecvError
  <2>3. Goto(t, "idle") \/ Goto(t, "serialize") \/ Goto(t, "send") \/ Goto(t, "recv") \/ Goto(t, "close")
    BY <1>4 DEF SocketFail, ConnectOk, SerializeOk, SerializeFail, SendOk, RecvClosed, SendFail, Close, Receive,
                RecvData, RecvTorn, RecvEof, RecvError, Return
  <2>4. /\ pc'[t] \in {"idle", "serialize", "send", "recv", "close"}
        /\ \A u \in Threads : u # t => pc'[u] = pc[u]
    BY <1>0, <2>3 DEF Goto
  <2> QED
    BY <1>0, <2>1, <2>2, <2>4, BeforeConnectKept
<1>5. ASSUME NEW t \in Threads, RecvEnter(t) PROVE BeforeConnect'
  <2>1. /\ made' = made /\ channel' = channel /\ pc[t] # "idle"
        /\ OnSocket(t) # Nobody /\ sock' = [sock EXCEPT ![t] = OnSocket(t)]
        /\ pc' = [pc EXCEPT ![t] = "blocked"]
    BY <1>5 DEF RecvEnter, Goto
  <2>2. /\ \A u \in Threads : u # t => pc'[u] = pc[u] /\ sock'[u] = sock[u]
        /\ pc'[t] = "blocked" /\ sock'[t] # Nobody
    BY <1>0, <2>1
  <2> QED
    BY <1>0, <2>1, <2>2, BeforeConnectKept
<1>6. CASE UNCHANGED <<pc, made, channel, sock>>
  <2>1. pc' = pc /\ made' = made /\ channel' = channel /\ sock' = sock
    BY <1>6
  <2> QED
    BY <1>0, <2>1 DEF BeforeConnect, Before, MyFd
<1> QED
  BY <1>1, <1>2, <1>3, <1>4, <1>5, <1>6
     DEF Next, CallStep, StartCancel, ServeStep, OnMessage, SendRpcResponse, OnDisconnect,
         Crash, Restart, AllDone, vars, clientVars

-----------------------------------------------------------------------------
(* Bytes read from the front of a stream. *)
LEMMA Cut ==
    ASSUME NEW S, NEW s \in Seq(S), NEW n \in 1..Len(s)
    PROVE  /\ SubSeq(s, n + 1, Len(s)) \in Seq(S) /\ SubSeq(s, 1, n) \in Seq(S)
           /\ Len(s) \in Nat /\ Len(SubSeq(s, 1, n)) = n
           /\ Len(SubSeq(s, n + 1, Len(s))) = Len(s) - n
           /\ \A i \in 1..n : SubSeq(s, 1, n)[i] = s[i]
           /\ \A i \in 1..(Len(s) - n) : SubSeq(s, n + 1, Len(s))[i] = s[n + i]
           /\ Head(s) = s[1] /\ SubSeq(s, 1, n) # <<>> /\ Head(SubSeq(s, 1, n)) = s[1]
  OBVIOUS

(* The same of a stream of cells. *)
LEMMA StreamCut ==
    ASSUME NEW s \in Streams, NEW n \in 1..Len(s)
    PROVE  /\ SubSeq(s, n + 1, Len(s)) \in Streams /\ SubSeq(s, 1, n) \in Streams
           /\ SubSeq(s, 1, n) # <<>> /\ SubSeq(s, 1, n)[1] = s[1]
<1> DEFINE S == Cells
<1>1. s \in Seq(S)
  BY DEF Streams
<1> HIDE DEF S
<1>2. /\ SubSeq(s, n + 1, Len(s)) \in Seq(S) /\ SubSeq(s, 1, n) \in Seq(S)
      /\ SubSeq(s, 1, n) # <<>> /\ SubSeq(s, 1, n)[1] = s[1]
  BY <1>1
<1> QED
  BY <1>2 DEF S, Streams

(* Bytes appended to a stream. *)
LEMMA Joined ==
    ASSUME NEW S, NEW s \in Seq(S), NEW r \in Seq(S)
    PROVE  /\ s \o r \in Seq(S) /\ Len(s) \in Nat /\ Len(r) \in Nat
           /\ Len(s \o r) = Len(s) + Len(r)
           /\ \A i \in 1..Len(s) : (s \o r)[i] = s[i]
           /\ \A i \in (Len(s) + 1)..(Len(s) + Len(r)) : /\ (s \o r)[i] = r[i - Len(s)]
                                                        /\ i - Len(s) \in 1..Len(r)
  OBVIOUS

Parts == {"len", "svc", "mth", "size", "args", "result", "value"}

(* A cell and its members. *)
LEMMA CellFacts ==
    ASSUME NEW p \in Parts, NEW c \in Calls, NEW m \in Methods, NEW a \in Arguments
    PROVE  /\ Cell(p, c, m, a) \in Cells /\ Cell(p, c, m, a).part = p
           /\ Cell(p, c, m, a).call = c /\ Cell(p, c, m, a).method = m /\ Cell(p, c, m, a).args = a
  BY DEF Cell, Cells, Parts, Arguments

(* A request frame: cells of its call, of which the first announces it. *)
LEMMA FrameFacts ==
    ASSUME NEW c \in Calls, NEW m \in Methods, NEW a \in Arguments
    PROVE  /\ Frame(c, m, a) \in Streams /\ Len(Frame(c, m, a)) \in Nat \ {0, 1, 2}
           /\ \A i \in 1..Len(Frame(c, m, a)) : /\ Frame(c, m, a)[i].call = c
                                                /\ Frame(c, m, a)[i].method = m
                                                /\ Frame(c, m, a)[i].args = a
                                                /\ Frame(c, m, a)[i].part = "len" <=> i = 1
<1> DEFINE short == <<"len", "svc", "mth">>
           long == <<"len", "svc", "mth", "size", "args">>
           F == Frame(c, m, a)
<1>1. /\ DOMAIN short = 1..3 /\ DOMAIN long = 1..5
      /\ \A i \in 1..3 : short[i] \in Parts /\ (short[i] = "len" <=> i = 1)
      /\ \A i \in 1..5 : long[i] \in Parts /\ (long[i] = "len" <=> i = 1)
  BY DEF Parts
<1>2. CASE a = DefaultArgs
  <2>1. F = [i \in 1..3 |-> Cell(short[i], c, m, a)]
    BY <1>1, <1>2 DEF Frame
  <2>2. \A i \in 1..3 : /\ F[i] \in Cells /\ F[i].call = c /\ F[i].method = m /\ F[i].args = a
                        /\ F[i].part = "len" <=> i = 1
    <3> TAKE i \in 1..3
    <3>1. F[i] = Cell(short[i], c, m, a)
      BY <2>1
    <3> HIDE DEF F, short
    <3> QED
      BY <1>1, <3>1, CellFacts
  <2>3. F \in Seq(Cells) /\ Len(F) = 3
    BY <2>1, <2>2
  <2> QED
    BY <2>2, <2>3 DEF Streams
<1>3. CASE a # DefaultArgs
  <2>1. F = [i \in 1..5 |-> Cell(long[i], c, m, a)]
    BY <1>1, <1>3 DEF Frame
  <2>2. \A i \in 1..5 : /\ F[i] \in Cells /\ F[i].call = c /\ F[i].method = m /\ F[i].args = a
                        /\ F[i].part = "len" <=> i = 1
    <3> TAKE i \in 1..5
    <3>1. F[i] = Cell(long[i], c, m, a)
      BY <2>1
    <3> HIDE DEF F, long
    <3> QED
      BY <1>1, <3>1, CellFacts
  <2>3. F \in Seq(Cells) /\ Len(F) = 5
    BY <2>1, <2>2
  <2> QED
    BY <2>2, <2>3 DEF Streams
<1> QED
  BY <1>2, <1>3

(* A reply: two cells of its call, none of which announces a request. *)
LEMMA ReplyFacts ==
    ASSUME NEW c \in Calls, NEW m \in Methods, NEW a \in Arguments
    PROVE  /\ Reply(c, m, a) \in Streams /\ Len(Reply(c, m, a)) = 2
           /\ \A i \in 1..2 : /\ Reply(c, m, a)[i].call = c /\ Reply(c, m, a)[i].method = m
                              /\ Reply(c, m, a)[i].args = a
<1> DEFINE x == Cell("result", c, m, a)
           y == Cell("value", c, m, a)
<1>1. /\ x \in Cells /\ x.call = c /\ x.method = m /\ x.args = a
      /\ y \in Cells /\ y.call = c /\ y.method = m /\ y.args = a
  BY CellFacts DEF Parts
<1>2. Reply(c, m, a) = <<x, y>>
  BY DEF Reply
<1> HIDE DEF x, y
<1> QED
  BY <1>1, <1>2 DEF Streams

(* A request that decodes was announced by the first cell of the bytes. *)
LEMMA DecodeFacts ==
    ASSUME NEW s \in Streams, s # <<>>, Decode(s).ok
    PROVE  /\ s[1].part = "len" /\ s[1] \in Cells
           /\ Decode(s) = [ok |-> TRUE, call |-> s[1].call, method |-> s[1].method,
                           args |-> Decode(s).args]
           /\ Decode(s).args \in {DefaultArgs, s[1].args}
           /\ Decode(s) \in Requests /\ Decode(s).call = s[1].call
           /\ Decode(s).method = s[1].method
<1> DEFINE first == Head(s)
           accept(a) == [ok |-> TRUE, call |-> first.call, method |-> first.method, args |-> a]
<1>1. first = s[1] /\ first \in Cells
  BY DEF Streams
<1>2. ~Rejected.ok
  BY DEF Rejected
<1>3. Decode(s) \in {Rejected, accept(DefaultArgs), accept(first.args)}
  BY DEF Decode
<1>4. Decode(s) # Rejected
  BY <1>2
<1>5. first.part = "len"
  BY <1>4 DEF Decode
<1>6. first.call \in Calls /\ first.method \in Methods /\ first.args \in Arguments
  BY <1>1 DEF Cells, Arguments
<1> HIDE DEF first
<1>7. PICK a \in {DefaultArgs, first.args} : Decode(s) = accept(a)
  BY <1>3, <1>4
<1>8. accept(a).args = a /\ accept(a).call = first.call /\ accept(a).method = first.method
  OBVIOUS
<1>9. accept(a) \in Requests
  BY <1>6 DEF Requests, Arguments
<1> QED
  BY <1>1, <1>5, <1>7, <1>8, <1>9

(* A bounded set of numbers that is not empty has a last one. *)
LEMMA LastOne ==
    ASSUME NEW n \in Nat, NEW S, S \subseteq 1..n, S # {}
    PROVE  \E i \in S : \A j \in S : j <= i
<1> DEFINE T == {k \in Nat : n - k \in S}
<1>1. T \subseteq Nat /\ T # {}
  <2>1. PICK i \in S : i \in 1..n
    OBVIOUS
  <2>2. n - i \in Nat /\ n - (n - i) = i
    BY <2>1
  <2> QED
    BY <2>2
<1>2. PICK k \in T : \A g \in T : ~(<<g, k>> \in OpToRel(<, Nat))
  BY <1>1, NatLessThanWellFounded, WFMin, Zenon
<1>3. ASSUME NEW j \in S PROVE j <= n - k
  <2>1. j \in 1..n /\ n - j \in Nat /\ n - (n - j) = j /\ k \in Nat
    OBVIOUS
  <2>2. n - j \in T
    BY <2>1
  <2>3. ~(n - j < k)
    <3> SUFFICES ASSUME n - j < k PROVE FALSE
      OBVIOUS
    <3>1. <<n - j, k>> \in OpToRel(<, Nat)
      BY <2>1 DEF OpToRel
    <3> QED
      BY <1>2, <2>2, <3>1
  <2> QED
    BY <2>1, <2>3
<1> QED
  BY <1>3

(* What a reply is parsed to: the default message, or one of its cells. *)
LEMMA ParseFacts ==
    ASSUME NEW s \in Streams
    PROVE  /\ s = <<>> => ParseReply(s) = [kind |-> "default"]
           /\ s # <<>> => \E i \in 1..Len(s), k \in {"partial", "full"} :
                             /\ ParseReply(s) = [kind |-> k, from |-> s[i]] /\ s[i] \in Cells
                             /\ k = "full" => s[i].part = "value"
           /\ ParseReply(s) \in Responses /\ ParseReply(s) # NoResponse
<1> DEFINE V == {i \in 1..Len(s) : s[i].part = "value"}
           l == CHOOSE i \in V : \A j \in V : j <= i
<1>1. s = <<>> => ParseReply(s) = [kind |-> "default"]
  BY DEF ParseReply
<1>2. Len(s) \in Nat /\ (s # <<>> => Len(s) \in 1..Len(s)) /\ \A i \in 1..Len(s) : s[i] \in Cells
  BY DEF Streams
<1>3. ASSUME s # <<>>
      PROVE  \E i \in 1..Len(s), k \in {"partial", "full"} :
                             /\ ParseReply(s) = [kind |-> k, from |-> s[i]] /\ s[i] \in Cells
                             /\ k = "full" => s[i].part = "value"
  <2>1. CASE V = {}
    <3>1. ParseReply(s) = [kind |-> "partial", from |-> s[Len(s)]]
      BY <1>3, <2>1 DEF ParseReply
    <3> QED
      BY <1>2, <1>3, <3>1
  <2>2. CASE V # {}
    <3>1. \E i \in V : \A j \in V : j <= i
      BY <1>2, <2>2, LastOne
    <3>2. l \in V
      BY <3>1
    <3>3. ParseReply(s) = [kind |-> "full", from |-> s[l]]
      BY <1>3, <2>2 DEF ParseReply
    <3> HIDE DEF l
    <3> QED
      BY <1>2, <3>2, <3>3
  <2> QED
    BY <2>1, <2>2
<1>4. ParseReply(s) \in Responses
  BY <1>1, <1>3 DEF Responses
<1>5. ParseReply(s) # NoResponse
  <2>1. CASE s = <<>>
    BY <1>1, <2>1 DEF NoResponse
  <2>2. CASE s # <<>>
    <3>1. PICK i \in 1..Len(s), k \in {"partial", "full"} : ParseReply(s) = [kind |-> k, from |-> s[i]]
      BY <1>3, <2>2
    <3>2. ParseReply(s).kind = k /\ NoResponse.kind = "none"
      BY <3>1 DEF NoResponse
    <3> QED
      BY <3>2
  <2> QED
    BY <2>1, <2>2
<1> QED
  BY <1>1, <1>3, <1>4, <1>5

(* CallMethod returns: what changes. *)
LEMMA ReturnEffect ==
    ASSUME ClientInv, DataTypes, NEW t \in Threads, pc[t] # "idle",
           NEW b \in BOOLEAN, NEW r \in Responses, Return(t, b, r)
    PROVE  /\ DataTypes' /\ pc'[t] = "idle" /\ \A u \in Threads : u # t => pc'[u] = pc[u]
           /\ Call(t) \in Calls
           /\ result'[Call(t)] = [returned |-> TRUE, failed |-> b, response |-> r,
                                  method |-> current[t].method, args |-> current[t].args]
           /\ \A c \in Calls : c # Call(t) => result'[c] = result[c]
           /\ \A u \in Threads : current'[u].method = current[u].method
           /\ \A u \in Threads : current'[u].args = current[u].args
<1> DEFINE o == [returned |-> TRUE, failed |-> b, response |-> r,
                 method |-> current[t].method, args |-> current[t].args]
           k == [current[t] EXCEPT !.failed = b, !.response = r]
<1>1. /\ current \in [Threads -> CurrentSet] /\ result \in [Calls -> {Pending} \union Outcomes]
      /\ current[t] \in CurrentSet /\ Call(t) \in Calls
  BY CallIsCall DEF DataTypes
<1>2. o \in Outcomes
  BY <1>1 DEF CurrentSet, Outcomes
<1>3. k \in CurrentSet /\ k.method = current[t].method /\ k.args = current[t].args
  BY <1>1 DEF CurrentSet
<1>4. /\ result' = [result EXCEPT ![Call(t)] = o] /\ current' = [current EXCEPT ![t] = k]
      /\ pc' = [pc EXCEPT ![t] = "idle"]
  BY DEF Return, Goto
<1> HIDE DEF k, o
<1>5. DataTypes'
  BY <1>1, <1>2, <1>3, <1>4 DEF DataTypes
<1>6. pc'[t] = "idle" /\ \A u \in Threads : u # t => pc'[u] = pc[u]
  BY <1>4 DEF ClientInv, ClientTypes
<1>7. result'[Call(t)] = o /\ \A c \in Calls : c # Call(t) => result'[c] = result[c]
  BY <1>1, <1>4
<1>8. \A u \in Threads : current'[u].method = current[u].method /\ current'[u].args = current[u].args
  BY <1>1, <1>3, <1>4
<1> QED
  BY <1>1, <1>5, <1>6, <1>7, <1>8 DEF o

(* A call's state changes, not what it was asked. *)
LEMMA CurrentPut ==
    ASSUME DataTypes, NEW t \in Threads, NEW k \in CurrentSet, current' = [current EXCEPT ![t] = k],
           k.method = current[t].method, k.args = current[t].args
    PROVE  /\ current' \in [Threads -> CurrentSet] /\ current'[t] = k
           /\ \A u \in Threads : u # t => current'[u] = current[u]
           /\ \A u \in Threads : current'[u].method = current[u].method
           /\ \A u \in Threads : current'[u].args = current[u].args
  BY DEF DataTypes

(* The address is looked up. *)
LEMMA HostSet ==
    ASSUME DataTypes, NEW t \in Threads, NEW h \in {Empty, "address", "blank"},
           current' = [current EXCEPT ![t] = [@ EXCEPT !.host = h]]
    PROVE  /\ current' \in [Threads -> CurrentSet]
           /\ \A u \in Threads : u # t => current'[u] = current[u]
           /\ \A u \in Threads : current'[u].method = current[u].method
           /\ \A u \in Threads : current'[u].args = current[u].args
           /\ \A u \in Threads : current'[u].failed = current[u].failed
           /\ \A u \in Threads : current'[u].response = current[u].response
<1> DEFINE k == [current[t] EXCEPT !.host = h]
<1>1. current[t] \in CurrentSet
  BY DEF DataTypes
<1>2. /\ k \in CurrentSet
      /\ k.method = current[t].method /\ k.args = current[t].args
      /\ k.failed = current[t].failed /\ k.response = current[t].response
  BY <1>1 DEF CurrentSet
<1>3. current' = [current EXCEPT ![t] = k]
  OBVIOUS
<1> HIDE DEF k
<1>4. /\ current' \in [Threads -> CurrentSet] /\ current'[t] = k
      /\ \A u \in Threads : u # t => current'[u] = current[u]
      /\ \A u \in Threads : current'[u].method = current[u].method
      /\ \A u \in Threads : current'[u].args = current[u].args
  BY <1>2, <1>3, CurrentPut
<1> QED
  BY <1>2, <1>4

(* The response is parsed. *)
LEMMA ResponseSet ==
    ASSUME DataTypes, NEW t \in Threads, NEW r \in Responses,
           current' = [current EXCEPT ![t] = [@ EXCEPT !.response = r]]
    PROVE  /\ current' \in [Threads -> CurrentSet] /\ current'[t].response = r
           /\ \A u \in Threads : u # t => current'[u] = current[u]
           /\ \A u \in Threads : current'[u].method = current[u].method
           /\ \A u \in Threads : current'[u].args = current[u].args
           /\ \A u \in Threads : current'[u].failed = current[u].failed
<1> DEFINE k == [current[t] EXCEPT !.response = r]
<1>1. current[t] \in CurrentSet
  BY DEF DataTypes
<1>2. /\ k \in CurrentSet /\ k.response = r
      /\ k.method = current[t].method /\ k.args = current[t].args /\ k.failed = current[t].failed
  BY <1>1 DEF CurrentSet
<1>3. current' = [current EXCEPT ![t] = k]
  OBVIOUS
<1> HIDE DEF k
<1>4. /\ current' \in [Threads -> CurrentSet] /\ current'[t] = k
      /\ \A u \in Threads : u # t => current'[u] = current[u]
      /\ \A u \in Threads : current'[u].method = current[u].method
      /\ \A u \in Threads : current'[u].args = current[u].args
  BY <1>2, <1>3, CurrentPut
<1> QED
  BY <1>2, <1>4

(* SetFailed. *)
LEMMA FailedSet ==
    ASSUME DataTypes, NEW t \in Threads,
           current' = [current EXCEPT ![t] = [@ EXCEPT !.failed = TRUE]]
    PROVE  /\ current' \in [Threads -> CurrentSet] /\ current'[t].failed
           /\ \A u \in Threads : u # t => current'[u] = current[u]
           /\ \A u \in Threads : current'[u].method = current[u].method
           /\ \A u \in Threads : current'[u].args = current[u].args
           /\ \A u \in Threads : current'[u].response = current[u].response
<1> DEFINE k == [current[t] EXCEPT !.failed = TRUE]
<1>1. current[t] \in CurrentSet
  BY DEF DataTypes
<1>2. /\ k \in CurrentSet /\ k.failed
      /\ k.method = current[t].method /\ k.args = current[t].args /\ k.response = current[t].response
  BY <1>1 DEF CurrentSet
<1>3. current' = [current EXCEPT ![t] = k]
  OBVIOUS
<1> HIDE DEF k
<1>4. /\ current' \in [Threads -> CurrentSet] /\ current'[t] = k
      /\ \A u \in Threads : u # t => current'[u] = current[u]
      /\ \A u \in Threads : current'[u].method = current[u].method
      /\ \A u \in Threads : current'[u].args = current[u].args
  BY <1>2, <1>3, CurrentPut
<1> QED
  BY <1>2, <1>4

(* StartCancel. *)
LEMMA CanceledSet ==
    ASSUME DataTypes, NEW t \in Threads,
           current' = [current EXCEPT ![t] = [@ EXCEPT !.canceled = TRUE]]
    PROVE  /\ current' \in [Threads -> CurrentSet]
           /\ \A u \in Threads : u # t => current'[u] = current[u]
           /\ \A u \in Threads : current'[u].method = current[u].method
           /\ \A u \in Threads : current'[u].args = current[u].args
           /\ \A u \in Threads : current'[u].failed = current[u].failed
           /\ \A u \in Threads : current'[u].response = current[u].response
<1> DEFINE k == [current[t] EXCEPT !.canceled = TRUE]
<1>1. current[t] \in CurrentSet
  BY DEF DataTypes
<1>2. /\ k \in CurrentSet
      /\ k.method = current[t].method /\ k.args = current[t].args
      /\ k.failed = current[t].failed /\ k.response = current[t].response
  BY <1>1 DEF CurrentSet
<1>3. current' = [current EXCEPT ![t] = k]
  OBVIOUS
<1> HIDE DEF k
<1>4. /\ current' \in [Threads -> CurrentSet] /\ current'[t] = k
      /\ \A u \in Threads : u # t => current'[u] = current[u]
      /\ \A u \in Threads : current'[u].method = current[u].method
      /\ \A u \in Threads : current'[u].args = current[u].args
  BY <1>2, <1>3, CurrentPut
<1> QED
  BY <1>2, <1>4

(* A request is sent on the connection that m_clientfd stands for. *)
LEMMA SendEffect ==
    ASSUME ClientInv, AllTypes, NEW t \in Threads, SendOk(t)
    PROVE  \E s \in Calls :
              /\ s = OnSocket(t) /\ \E f \in Fds : fdtab[f] = s
              /\ pc[t] = "send" /\ pc'[t] = "recv" /\ \A u \in Threads : u # t => pc'[u] = pc[u]
              /\ Call(t) \in Calls /\ channel[t].name \in Methods /\ current[t].args \in Arguments
              /\ up' \in [Calls -> Streams]
              /\ \/ up' = up
                 \/ /\ \E n \in 1..Len(Frame(Call(t), channel[t].name, current[t].args)) :
                          LET frame == Frame(Call(t), channel[t].name, current[t].args)
                          IN  /\ up'[s] = up[s] \o SubSeq(frame, 1, n)
                              /\ ~Fragmented => n = Len(frame)
                    /\ \A d \in Calls : d # s => up'[d] = up[d]
<1> DEFINE F == Frame(Call(t), channel[t].name, current[t].args)
<1>1. PICK s \in Calls : s = OnSocket(t) /\ MyFd(t) \in Fds /\ fdtab[MyFd(t)] = s
  BY DEF SendOk, OnSocket, ClientInv, ClientTypes
<1>2. MyFd(t) # Closed
  BY <1>1 DEF Fds
<1>3. /\ Call(t) \in Calls /\ channel[t].name \in Methods
      /\ current[t].args \in Arguments
  BY <1>2, CallIsCall DEF SendOk, ClientInv, BeforeConnect, Before, AllTypes, DataTypes, CurrentSet
<1>4. F \in Streams
  BY <1>3, FrameFacts
<1>5. PICK n \in Moved(F) : up' = up \/ up' = [up EXCEPT ![s] = @ \o SubSeq(F, 1, n)]
  BY <1>1 DEF SendOk
<1> HIDE DEF F
<1>6. n \in 1..Len(F) /\ (~Fragmented => n = Len(F)) /\ SubSeq(F, 1, n) \in Streams
  BY <1>4, StreamCut DEF Moved
<1>7. /\ up' \in [Calls -> Streams]
      /\ up' = up \/ (up'[s] = up[s] \o SubSeq(F, 1, n) /\ \A d \in Calls : d # s => up'[d] = up[d])
  <2> DEFINE P == SubSeq(F, 1, n)
  <2>1. P \in Streams /\ (up' = up \/ up' = [up EXCEPT ![s] = @ \o P])
    BY <1>5, <1>6
  <2> HIDE DEF P
  <2>2. up \in [Calls -> Streams] /\ up[s] \o P \in Streams
    BY <2>1, Joined DEF AllTypes, NetTypes, Streams
  <2> QED
    BY <2>1, <2>2 DEF P
<1>8. /\ pc[t] = "send" /\ pc'[t] = "recv" /\ \A u \in Threads : u # t => pc'[u] = pc[u]
  BY DEF SendOk, Goto, ClientInv, ClientTypes
<1> QED
  BY <1>1, <1>3, <1>6, <1>7, <1>8 DEF F

(* The provider reads from the front of a stream and may start a method. *)
LEMMA DeliverEffect ==
    ASSUME AllTypes, NEW c \in Calls, OnMessage(c)
    PROVE  \E n \in 1..Len(up[c]) :
              /\ up' \in [Calls -> Streams] /\ up'[c] = SubSeq(up[c], n + 1, Len(up[c]))
              /\ \A d \in Calls : d # c => up'[d] = up[d]
              /\ ~Fragmented => n = Len(up[c])
              /\ \/ busy' = busy /\ execs' = execs
                 \/ LET q == Decode(SubSeq(up[c], 1, n))
                    IN  /\ q \in Requests /\ up[c][1].part = "len"
                        /\ q.call = up[c][1].call /\ q.method = up[c][1].method
                        /\ busy' = [busy EXCEPT ![c] = q]
                        /\ execs' = [execs EXCEPT ![q.call] =
                                       Append(@, [method |-> q.method, args |-> q.args])]
<1>1. PICK n \in Moved(up[c]) :
         LET req == Decode(SubSeq(up[c], 1, n))
         IN  /\ up' = [up EXCEPT ![c] = SubSeq(@, n + 1, Len(@))]
             /\ \/ /\ req.ok
                   /\ req.method \in Published
                   /\ busy' = [busy EXCEPT ![c] = req]
                   /\ execs' = [execs EXCEPT ![req.call] =
                                  Append(@, [method |-> req.method, args |-> req.args])]
                \/ UNCHANGED <<busy, execs>>
  BY DEF OnMessage
<1>2. n \in 1..Len(up[c]) /\ (~Fragmented => n = Len(up[c]))
  BY DEF Moved
<1>3. up \in [Calls -> Streams] /\ up[c] \in Streams
  BY DEF AllTypes, NetTypes
<1>4. /\ SubSeq(up[c], n + 1, Len(up[c])) \in Streams /\ SubSeq(up[c], 1, n) \in Streams
      /\ SubSeq(up[c], 1, n) # <<>> /\ SubSeq(up[c], 1, n)[1] = up[c][1]
  BY <1>2, <1>3, StreamCut
<1>5. /\ up' \in [Calls -> Streams] /\ up'[c] = SubSeq(up[c], n + 1, Len(up[c]))
      /\ \A d \in Calls : d # c => up'[d] = up[d]
  <2> DEFINE r == SubSeq(up[c], n + 1, Len(up[c]))
  <2>1. up' = [up EXCEPT ![c] = r] /\ r \in Streams
    BY <1>1, <1>4
  <2> HIDE DEF r
  <2>2. up' \in [Calls -> Streams] /\ up'[c] = r /\ \A d \in Calls : d # c => up'[d] = up[d]
    BY <1>3, <2>1
  <2> QED
    BY <2>2 DEF r
<1> DEFINE q == Decode(SubSeq(up[c], 1, n))
<1>6. q.ok => /\ q \in Requests /\ up[c][1].part = "len"
              /\ q.call = up[c][1].call /\ q.method = up[c][1].method
  BY <1>4, DecodeFacts
<1> QED
  BY <1>1, <1>2, <1>5, <1>6

(* The provider answers on the connection the request came from. *)
LEMMA AnswerEffect ==
    ASSUME AllTypes, NEW c \in Calls, SendRpcResponse(c)
    PROVE  /\ busy[c] \in Requests /\ busy'[c] = Rejected
           /\ \A d \in Calls : d # c => busy'[d] = busy[d]
           /\ down' \in [Calls -> Streams]
           /\ \/ down' = down
              \/ /\ down'[c] = down[c] \o Reply(busy[c].call, busy[c].method, busy[c].args)
                 /\ \A d \in Calls : d # c => down'[d] = down[d]
<1> DEFINE R == Reply(busy[c].call, busy[c].method, busy[c].args)
<1>1. /\ busy \in [Calls -> {Rejected} \union Requests] /\ down \in [Calls -> Streams]
      /\ down[c] \in Streams /\ busy[c] \in Requests
  BY DEF AllTypes, ServeTypes, NetTypes, SendRpcResponse
<1>2. R \in Streams
  BY <1>1, ReplyFacts DEF Requests
<1>3. /\ down' = down \/ down' = [down EXCEPT ![c] = @ \o R]
      /\ busy' = [busy EXCEPT ![c] = Rejected]
  BY DEF SendRpcResponse
<1> HIDE DEF R
<1>4. down[c] \o R \in Streams
  BY <1>1, <1>2, Joined DEF Streams
<1>5. /\ down' \in [Calls -> Streams]
      /\ down' = down \/ (down'[c] = down[c] \o R /\ \A d \in Calls : d # c => down'[d] = down[d])
  BY <1>1, <1>3, <1>4
<1> QED
  BY <1>1, <1>3, <1>5 DEF R

(* A recv returns bytes from the front of its connection. *)
LEMMA RecvEffect ==
    ASSUME ClientInv, AllTypes, NEW t \in Threads, RecvData(t)
    PROVE  \E s \in Calls : \E n \in 1..Len(down[s]) :
              /\ s = sock[t] /\ down' \in [Calls -> Streams]
              /\ down'[s] = SubSeq(down[s], n + 1, Len(down[s]))
              /\ \A d \in Calls : d # s => down'[d] = down[d]
              /\ SubSeq(down[s], 1, n) \in Streams /\ SubSeq(down[s], 1, n) # <<>>
              /\ current' = [current EXCEPT ![t] =
                    [@ EXCEPT !.response = ParseReply(SubSeq(down[s], 1, n))]]
<1>1. PICK s \in Calls : s = sock[t]
  BY DEF RecvData, ClientInv, ClientTypes, BeforeConnect, Before
<1>2. PICK n \in Moved(down[s]) :
         /\ current' = [current EXCEPT ![t] =
                          [@ EXCEPT !.response = ParseReply(SubSeq(down[s], 1, n))]]
         /\ down' = [down EXCEPT ![s] = SubSeq(@, n + 1, Len(@))]
  BY <1>1 DEF RecvData
<1>3. n \in 1..Len(down[s]) /\ down \in [Calls -> Streams] /\ down[s] \in Streams
  BY DEF Moved, AllTypes, NetTypes
<1>4. /\ SubSeq(down[s], n + 1, Len(down[s])) \in Streams /\ SubSeq(down[s], 1, n) \in Streams
      /\ SubSeq(down[s], 1, n) # <<>>
  BY <1>3, StreamCut
<1>5. /\ down' \in [Calls -> Streams] /\ down'[s] = SubSeq(down[s], n + 1, Len(down[s]))
      /\ \A d \in Calls : d # s => down'[d] = down[d]
  <2> DEFINE r == SubSeq(down[s], n + 1, Len(down[s]))
  <2>1. down' = [down EXCEPT ![s] = r] /\ r \in Streams
    BY <1>2, <1>4
  <2> HIDE DEF r
  <2>2. down' \in [Calls -> Streams] /\ down'[s] = r /\ \A d \in Calls : d # s => down'[d] = down[d]
    BY <1>3, <2>1
  <2> QED
    BY <2>2 DEF r
<1> QED
  BY <1>1, <1>2, <1>3, <1>4, <1>5

(* Every step keeps the types of what calls hold and return. *)
LEMMA DataStep == ASSUME ClientInv, AllTypes, [Next]_vars PROVE DataTypes'
<1>0. /\ DataTypes /\ current \in [Threads -> CurrentSet]
      /\ result \in [Calls -> {Pending} \union Outcomes]
      /\ NoResponse \in Responses
  BY DEF AllTypes, DataTypes, Responses
<1>1. ASSUME NEW t \in Threads, NEW m \in Methods, NEW a \in ArgValues, BeginCall(t, m, a)
      PROVE DataTypes'
  <2>1. NewCall(m, a) \in CurrentSet
    BY <1>0 DEF NewCall, CurrentSet, Names, Arguments
  <2>2. current' = [current EXCEPT ![t] = NewCall(m, a)] /\ result' = result
    BY <1>1 DEF BeginCall
  <2> QED
    BY <1>0, <2>1, <2>2 DEF DataTypes
<1>2. ASSUME NEW t \in Threads, QueryFound(t) \/ QueryMissing(t) \/ QueryInvalid(t)
      PROVE DataTypes'
  <2>1. /\ \E h \in {Empty, "address", "blank"} :
              current' = [current EXCEPT ![t] = [@ EXCEPT !.host = h]]
        /\ result' = result
    BY <1>2 DEF QueryFound, QueryMissing, QueryInvalid
  <2>2. current' \in [Threads -> CurrentSet]
    BY <1>0, <2>1, HostSet
  <2> QED
    BY <1>0, <2>1, <2>2 DEF DataTypes
<1>3. ASSUME NEW t \in Threads,
             \/ SocketFail(t) \/ ConnectFail(t) \/ SerializeFail(t) \/ SendFail(t) \/ RecvClosed(t)
             \/ RecvError(t)
      PROVE DataTypes'
  <2>1. pc[t] # "idle" /\ \E b \in BOOLEAN : Return(t, b, NoResponse)
    BY <1>3 DEF SocketFail, ConnectFail, SerializeFail, SendFail, RecvClosed, RecvError
  <2> QED
    BY <1>0, <2>1, ReturnEffect
<1>4. ASSUME NEW t \in Threads, Close(t) PROVE DataTypes'
  <2>1. pc[t] # "idle" /\ Return(t, current[t].failed, current[t].response)
    BY <1>4 DEF Close
  <2>2. current[t].failed \in BOOLEAN /\ current[t].response \in Responses
    BY <1>0 DEF CurrentSet
  <2> QED
    BY <1>0, <2>1, <2>2, ReturnEffect
<1>5. ASSUME NEW t \in Threads, RecvData(t) PROVE DataTypes'
  <2>0. PICK c \in Calls : \E n \in 1..Len(down[c]) :
           /\ SubSeq(down[c], 1, n) \in Streams
           /\ current' = [current EXCEPT ![t] =
                 [@ EXCEPT !.response = ParseReply(SubSeq(down[c], 1, n))]]
    BY <1>5, RecvEffect
  <2>1. PICK n \in 1..Len(down[c]) :
           /\ SubSeq(down[c], 1, n) \in Streams
           /\ current' = [current EXCEPT ![t] =
                 [@ EXCEPT !.response = ParseReply(SubSeq(down[c], 1, n))]]
    BY <2>0
  <2>2. ParseReply(SubSeq(down[c], 1, n)) \in Responses
    BY <2>1, ParseFacts
  <2>3. current' \in [Threads -> CurrentSet]
    BY <1>0, <2>1, <2>2, ResponseSet
  <2>4. result' = result
    BY <1>5 DEF RecvData
  <2> QED
    BY <1>0, <2>3, <2>4 DEF DataTypes
<1>6. ASSUME NEW t \in Threads, RecvEof(t) PROVE DataTypes'
  <2>0. <<>> \in Streams
    BY DEF Streams
  <2>1. ParseReply(<<>>) \in Responses
    BY <2>0, ParseFacts
  <2>2. current' = [current EXCEPT ![t] = [@ EXCEPT !.response = ParseReply(<<>>)]] /\ result' = result
    BY <1>6 DEF RecvEof
  <2>3. current' \in [Threads -> CurrentSet]
    BY <1>0, <2>1, <2>2, ResponseSet
  <2> QED
    BY <1>0, <2>2, <2>3 DEF DataTypes
<1>7. ASSUME NEW t \in Threads, RecvTorn(t) PROVE DataTypes'
  <2>1. current' = [current EXCEPT ![t] = [@ EXCEPT !.failed = TRUE]] /\ result' = result
    BY <1>7 DEF RecvTorn
  <2>2. current' \in [Threads -> CurrentSet]
    BY <1>0, <2>1, FailedSet
  <2> QED
    BY <1>0, <2>1, <2>2 DEF DataTypes
<1>8. ASSUME NEW t \in Threads, StartCancel(t) PROVE DataTypes'
  <2>1. current' = [current EXCEPT ![t] = [@ EXCEPT !.canceled = TRUE]] /\ result' = result
    BY <1>8 DEF StartCancel
  <2>2. current' \in [Threads -> CurrentSet]
    BY <1>0, <2>1, CanceledSet
  <2> QED
    BY <1>0, <2>1, <2>2 DEF DataTypes
<1>9. CASE UNCHANGED <<current, result>>
  <2>1. current' = current /\ result' = result
    BY <1>9
  <2> QED
    BY <1>0, <2>1 DEF DataTypes
<1> QED
  BY <1>1, <1>2, <1>3, <1>4, <1>5, <1>6, <1>7, <1>8, <1>9
  DEF Next, CallStep, Receive, Socket, ConnectOk, SerializeOk, SendOk, RecvEnter, ServeStep, OnMessage,
      SendRpcResponse, OnDisconnect, Crash, Restart, AllDone, vars, clientVars

(* Every step keeps the types of the streams. *)
LEMMA NetStep == ASSUME ClientInv, AllTypes, [Next]_vars PROVE NetTypes'
<1>0. up \in [Calls -> Streams] /\ down \in [Calls -> Streams] /\ <<>> \in Streams
  BY DEF AllTypes, NetTypes, Streams
<1>1. ASSUME NEW t \in Threads, SendOk(t) PROVE NetTypes'
  <2>1. up' \in [Calls -> Streams]
    BY <1>1, SendEffect
  <2>2. down' = down
    BY <1>1 DEF SendOk
  <2> QED
    BY <1>0, <2>1, <2>2 DEF NetTypes
<1>2. ASSUME NEW t \in Threads, RecvData(t) PROVE NetTypes'
  <2>1. down' \in [Calls -> Streams]
    BY <1>2, RecvEffect
  <2>2. up' = up
    BY <1>2 DEF RecvData
  <2> QED
    BY <1>0, <2>1, <2>2 DEF NetTypes
<1>3. ASSUME NEW t \in Threads, RecvTorn(t) PROVE NetTypes'
  <2>1. down' = [down EXCEPT ![sock[t]] = <<>>] /\ up' = up
    BY <1>3 DEF RecvTorn
  <2> QED
    BY <1>0, <2>1 DEF NetTypes
<1>4. ASSUME NEW c \in Calls, OnMessage(c) PROVE NetTypes'
  <2>1. up' \in [Calls -> Streams]
    BY <1>4, DeliverEffect
  <2>2. down' = down
    BY <1>4 DEF OnMessage
  <2> QED
    BY <1>0, <2>1, <2>2 DEF NetTypes
<1>5. ASSUME NEW c \in Calls, SendRpcResponse(c) PROVE NetTypes'
  <2>1. down' \in [Calls -> Streams]
    BY <1>5, AnswerEffect
  <2>2. up' = up
    BY <1>5 DEF SendRpcResponse
  <2> QED
    BY <1>0, <2>1, <2>2 DEF NetTypes
<1>6. CASE Crash
  <2>1. up' = [c \in Calls |-> <<>>] /\ down' = down
    BY <1>6 DEF Crash
  <2> QED
    BY <1>0, <2>1 DEF NetTypes
<1>7. CASE UNCHANGED netVars
  <2>1. up' = up /\ down' = down
    BY <1>7 DEF netVars
  <2> QED
    BY <1>0, <2>1 DEF NetTypes
<1>8. ASSUME NEW t \in Threads, CallStep(t)
      PROVE  SendOk(t) \/ RecvData(t) \/ RecvTorn(t) \/ UNCHANGED netVars
  BY <1>8 DEF CallStep, QueryFound, QueryMissing, QueryInvalid, Socket, SocketFail, ConnectOk, ConnectFail, SerializeOk,
              SerializeFail, SendFail, RecvEnter, RecvClosed, Receive, RecvEof, RecvError, Close
<1>9. ASSUME NEW t \in Threads,
             StartCancel(t) \/ \E m \in Methods, a \in ArgValues : BeginCall(t, m, a)
      PROVE  UNCHANGED netVars
  BY <1>9 DEF BeginCall, StartCancel
<1>10. (\E c \in Calls : OnDisconnect(c)) \/ Restart \/ AllDone \/ UNCHANGED vars => UNCHANGED netVars
  BY DEF OnDisconnect, Restart, AllDone, vars
<1> QED
  BY <1>1, <1>2, <1>3, <1>4, <1>5, <1>6, <1>7, <1>8, <1>9, <1>10 DEF Next, ServeStep

(* Every step keeps the types of the provider's state. *)
LEMMA ServeTypesStep == ASSUME ClientInv, AllTypes, [Next]_vars PROVE ServeTypes'
<1>0. /\ peer \in [Calls -> {"none", "open", "closed"}] /\ busy \in [Calls -> {Rejected} \union Requests]
      /\ crashes \in 0..MaxCrashes /\ alive \in BOOLEAN /\ execs \in [Calls -> Runs]
  BY DEF AllTypes, ServeTypes
<1>1. ASSUME NEW t \in Threads, ConnectOk(t) PROVE ServeTypes'
  <2>1. /\ peer' = [peer EXCEPT ![OnSocket(t)] = "open"] /\ busy' = busy /\ crashes' = crashes
        /\ alive' = alive /\ execs' = execs
    BY <1>1 DEF ConnectOk
  <2> QED
    BY <1>0, <2>1 DEF ServeTypes
<1>2. ASSUME NEW c \in Calls, OnMessage(c) PROVE ServeTypes'
  <2>1. peer' = peer /\ crashes' = crashes /\ alive' = alive
    BY <1>2 DEF OnMessage
  <2>2. \/ busy' = busy /\ execs' = execs
        \/ \E q \in Requests : /\ busy' = [busy EXCEPT ![c] = q]
                               /\ execs' = [execs EXCEPT ![q.call] =
                                              Append(@, [method |-> q.method, args |-> q.args])]
    BY <1>2, DeliverEffect
  <2>3. ASSUME NEW q \in Requests,
               execs' = [execs EXCEPT ![q.call] = Append(@, [method |-> q.method, args |-> q.args])]
        PROVE  execs' \in [Calls -> Runs]
    <3>1. q.call \in Calls /\ [method |-> q.method, args |-> q.args] \in Executions
      BY DEF Requests, Executions
    <3>2. Append(execs[q.call], [method |-> q.method, args |-> q.args]) \in Runs
      BY <1>0, <3>1 DEF Runs
    <3> QED
      BY <1>0, <2>3, <3>1, <3>2
  <2>4. busy' \in [Calls -> {Rejected} \union Requests] /\ execs' \in [Calls -> Runs]
    BY <1>0, <2>2, <2>3
  <2> QED
    BY <1>0, <2>1, <2>4 DEF ServeTypes
<1>3. ASSUME NEW c \in Calls, SendRpcResponse(c) \/ OnDisconnect(c) PROVE ServeTypes'
  <2>1. /\ busy' = busy \/ busy' = [busy EXCEPT ![c] = Rejected]
        /\ peer' = peer \/ peer' = [peer EXCEPT ![c] = "closed"]
        /\ crashes' = crashes /\ alive' = alive /\ execs' = execs
    BY <1>3 DEF SendRpcResponse, OnDisconnect
  <2> QED
    BY <1>0, <2>1 DEF ServeTypes
<1>4. CASE Crash
  <2>1. crashes < MaxCrashes /\ crashes' = crashes + 1 /\ alive' = FALSE /\ execs' = execs
    BY <1>4 DEF Crash
  <2>4. crashes' \in 0..MaxCrashes
    BY <1>0, <2>1, KrpcCallBounds
  <2>2. busy' = [c \in Calls |-> Rejected]
    BY <1>4 DEF Crash
  <2>3. peer' \in [Calls -> {"none", "open", "closed"}]
    BY <1>0, <1>4 DEF Crash
  <2> QED
    BY <1>0, <2>1, <2>2, <2>3, <2>4 DEF ServeTypes
<1>5. CASE Restart
  <2>1. alive' \in BOOLEAN /\ UNCHANGED <<peer, busy, crashes, execs>>
    BY <1>5 DEF Restart
  <2> QED
    BY <1>0, <2>1 DEF ServeTypes
<1>6. CASE UNCHANGED serverVars
  <2>1. peer' = peer /\ busy' = busy /\ crashes' = crashes /\ alive' = alive /\ execs' = execs
    BY <1>6 DEF serverVars
  <2> QED
    BY <1>0, <2>1 DEF ServeTypes
<1>7. ASSUME NEW t \in Threads, CallStep(t) PROVE ConnectOk(t) \/ UNCHANGED serverVars
  BY <1>7 DEF CallStep, QueryFound, QueryMissing, QueryInvalid, Socket, SocketFail, ConnectFail, SerializeOk,
              SerializeFail, SendOk, SendFail, RecvEnter, RecvClosed, Receive, RecvData, RecvTorn,
              RecvEof, RecvError, Close
<1>8. ASSUME NEW t \in Threads,
             StartCancel(t) \/ \E m \in Methods, a \in ArgValues : BeginCall(t, m, a)
      PROVE  UNCHANGED serverVars
  BY <1>8 DEF BeginCall, StartCancel
<1>9. AllDone \/ UNCHANGED vars => UNCHANGED serverVars
  BY DEF AllDone, vars
<1> QED
  BY <1>1, <1>2, <1>3, <1>4, <1>5, <1>6, <1>7, <1>8, <1>9 DEF Next, ServeStep

(* The types hold of the initial state. *)
LEMMA TypesInit == ASSUME Init PROVE AllTypes
<1>1. NewCall(Empty, DefaultArgs) \in CurrentSet
  BY DEF NewCall, CurrentSet, Names, Arguments, Responses
<1>2. current = [t \in Threads |-> NewCall(Empty, DefaultArgs)] /\ result = [c \in Calls |-> Pending]
  BY DEF Init
<1>3. DataTypes
  BY <1>1, <1>2 DEF DataTypes
<1>4. <<>> \in Streams /\ <<>> \in Runs
  BY DEF Streams, Runs
<1>5. /\ up = [c \in Calls |-> <<>>] /\ down = [c \in Calls |-> <<>>]
      /\ peer = [c \in Calls |-> "none"] /\ busy = [c \in Calls |-> Rejected]
      /\ crashes = 0 /\ alive = TRUE /\ execs = [c \in Calls |-> <<>>]
  BY DEF Init
<1>6. NetTypes
  BY <1>4, <1>5 DEF NetTypes
<1>7. ServeTypes
  BY <1>4, <1>5, KrpcCallBounds DEF ServeTypes
<1> QED
  BY <1>3, <1>6, <1>7 DEF AllTypes

-----------------------------------------------------------------------------
(* Call c returned, and its caller saw neither an error nor a response. *)
Silent(c) == result[c].returned /\ ~result[c].failed /\ result[c].response = NoResponse

(* Call c was not made yet, or is at one of the points S of CallMethod. *)
At(c, S) == c[2] > made[c[1]] \/ (c[2] = made[c[1]] /\ pc[c[1]] \in S)

Unreturned == {"lookup", "connect", "dialing", "serialize", "send", "recv", "blocked", "close", "thrown"}
Unsent == {"lookup", "connect", "dialing", "serialize", "send", "thrown"}
Unconnected == {"lookup", "connect", "thrown"}

(* A call that has not returned has no outcome, and one that is about to   *)
(* has an error or a response.                                             *)
Pends(c) == At(c, Unreturned) => ~result[c].returned
ReturnInv == /\ \A c \in Calls : Pends(c)
             /\ \A t \in Threads :
                   pc[t] = "close" => current[t].failed \/ current[t].response # NoResponse

(* No byte of call c was ever sent. *)
Unheard(c) == execs[c] = <<>> /\ \A d \in Calls : \A i \in 1..Len(up[d]) : up[d][i].call # c
SentInv == \A c \in Calls : At(c, Unsent) \/ Silent(c) => Unheard(c)

(* Connection c has no socket yet. *)
Unmade(c) == /\ peer[c] = "none" /\ busy[c] = Rejected /\ up[c] = <<>> /\ down[c] = <<>>
             /\ \A f \in Fds : fdtab[f] # c
             /\ \A t \in Threads : sock[t] # c
ConnectInv == \A c \in Calls : At(c, Unconnected) => Unmade(c)

(* The connection a thread's call made is the one its m_clientfd stands    *)
(* for, as long as a descriptor does.                                      *)
HoldInv == \A f \in Fds, t \in Threads : fdtab[f] = Call(t) /\ InCall(t) => MyFd(t) = f

(* The cell that announces a request of call c is at most at one place,    *)
(* and the call has not run while it is.                                   *)
Announces(d, i, c) == up[d][i].part = "len" /\ up[d][i].call = c
OnceInv == /\ \A c \in Calls, d, e \in Calls : \A i \in 1..Len(up[d]), j \in 1..Len(up[e]) :
                 Announces(d, i, c) /\ Announces(e, j, c) => d = e /\ i = j
           /\ \A c \in Calls, d \in Calls : \A i \in 1..Len(up[d]) :
                 Announces(d, i, c) => execs[c] = <<>>

CallInv == /\ ClientInv /\ AllTypes /\ ReturnInv /\ SentInv /\ ConnectInv /\ HoldInv /\ OnceInv
           /\ AtMostOnce /\ OpenSocketsAccountedFor

(* The steps of a thread: it begins a call, or goes on in CallMethod. *)
Moves(u) == \/ made'[u] = made[u] /\ pc'[u] = pc[u]
            \/ made'[u] = made[u] + 1 /\ pc[u] = "idle" /\ pc'[u] \in {"lookup", "serialize"}
            \/ /\ made'[u] = made[u]
               /\ \/ pc[u] = "lookup" /\ pc'[u] \in {"connect", "thrown"}
                  \/ pc[u] = "connect" /\ pc'[u] \in {"dialing", "idle"}
                  \/ pc[u] = "dialing" /\ pc'[u] \in {"serialize", "idle"}
                  \/ pc[u] = "serialize" /\ pc'[u] \in {"send", "idle"}
                  \/ pc[u] = "send" /\ pc'[u] \in {"recv", "idle"}
                  \/ pc[u] = "recv" /\ pc'[u] \in {"blocked", "idle"}
                  \/ pc[u] = "blocked" /\ pc'[u] \in {"close", "idle"}
                  \/ pc[u] = "close" /\ pc'[u] = "idle"

(* Every step moves the threads this way. *)
LEMMA AllMove == ASSUME ClientTypes, [Next]_vars PROVE \A u \in Threads : Moves(u)
<1>0. /\ pc \in [Threads -> {"idle", "lookup", "connect", "dialing", "serialize", "send",
                             "recv", "blocked", "close", "thrown"}]
      /\ made \in [Threads -> 0..MaxCalls]
  BY DEF ClientTypes
<1>1. ASSUME NEW t \in Threads, NEW m \in Methods, NEW a \in ArgValues, BeginCall(t, m, a)
      PROVE  \A u \in Threads : Moves(u)
  <2>1. /\ made' = [made EXCEPT ![t] = made[t] + 1] /\ pc[t] = "idle"
        /\ pc' = [pc EXCEPT ![t] = "lookup"] \/ pc' = [pc EXCEPT ![t] = "serialize"]
    BY <1>1 DEF BeginCall, Goto
  <2>2. /\ made'[t] = made[t] + 1 /\ pc[t] = "idle" /\ pc'[t] \in {"lookup", "serialize"}
        /\ \A u \in Threads : u # t => made'[u] = made[u] /\ pc'[u] = pc[u]
    BY <1>0, <2>1
  <2> QED
    BY <2>2 DEF Moves
<1>2. ASSUME NEW t \in Threads, CallStep(t) PROVE \A u \in Threads : Moves(u)
  <2>1. made' = made
    BY <1>2 DEF CallStep, QueryFound, QueryMissing, QueryInvalid, Socket, SocketFail, ConnectOk, ConnectFail, SerializeOk,
                SerializeFail, SendOk, SendFail, RecvEnter, RecvClosed, Receive, RecvData, RecvTorn,
                RecvEof, RecvError, Close
  <2>2. \/ pc[t] = "lookup" /\ (Goto(t, "connect") \/ Goto(t, "thrown"))
        \/ pc[t] = "connect" /\ (Goto(t, "dialing") \/ Goto(t, "idle"))
        \/ pc[t] = "dialing" /\ (Goto(t, "serialize") \/ Goto(t, "idle"))
        \/ pc[t] = "serialize" /\ (Goto(t, "send") \/ Goto(t, "idle"))
        \/ pc[t] = "send" /\ (Goto(t, "recv") \/ Goto(t, "idle"))
        \/ pc[t] = "recv" /\ (Goto(t, "blocked") \/ Goto(t, "idle"))
        \/ pc[t] = "blocked" /\ (Goto(t, "close") \/ Goto(t, "idle"))
        \/ pc[t] = "close" /\ Goto(t, "idle")
    BY <1>2 DEF CallStep, QueryFound, QueryMissing, QueryInvalid, Socket, SocketFail, ConnectOk, ConnectFail, SerializeOk,
                SerializeFail, SendOk, SendFail, RecvEnter, RecvClosed, Receive, RecvData, RecvTorn,
                RecvEof, RecvError, Close, Return
  <2>3. \A u \in Threads : u # t => pc'[u] = pc[u]
    BY <1>0, <2>2 DEF Goto
  <2>4. Moves(t)
    BY <1>0, <2>1, <2>2 DEF Goto, Moves
  <2> QED
    BY <2>1, <2>3, <2>4 DEF Moves
<1>3. CASE UNCHANGED <<pc, made>>
  BY <1>3 DEF Moves
<1> QED
  BY <1>1, <1>2, <1>3
     DEF Next, StartCancel, ServeStep, OnMessage, SendRpcResponse, OnDisconnect,
         Crash, Restart, AllDone, vars, clientVars

(* A call that is still unreturned, unsent or unconnected was so before. *)
LEMMA AtKept ==
    ASSUME ClientTypes, [Next]_vars, NEW c \in Calls,
           NEW S \in {Unreturned, Unsent, Unconnected}, At(c, S)'
    PROVE  At(c, S)
<1>1. c[1] \in Threads /\ c[2] \in Int
  BY CallParts
<1>2. Moves(c[1]) /\ made[c[1]] \in Int
  BY <1>1, AllMove, KrpcCallBounds DEF ClientTypes
<1>3. \/ c[2] > made'[c[1]]
      \/ c[2] = made'[c[1]] /\ pc'[c[1]] \in S
  BY DEF At
<1>4. CASE made'[c[1]] = made[c[1]] + 1
  BY <1>1, <1>2, <1>3, <1>4 DEF At
<1>5. CASE made'[c[1]] = made[c[1]]
  <2>1. CASE S = Unreturned
    BY <1>2, <1>3, <1>5, <2>1 DEF At, Moves, Unreturned
  <2>2. CASE S = Unsent
    BY <1>2, <1>3, <1>5, <2>2 DEF At, Moves, Unsent
  <2>3. CASE S = Unconnected
    BY <1>2, <1>3, <1>5, <2>3 DEF At, Moves, Unconnected
  <2> QED
    BY <2>1, <2>2, <2>3
<1> QED
  BY <1>2, <1>4, <1>5 DEF Moves

(* Thread t's call returns. *)
Ends(t) == /\ pc[t] # "idle" /\ pc'[t] = "idle" /\ made' = made
           /\ \A u \in Threads : u # t => pc'[u] = pc[u]
           /\ result'[Call(t)].returned
           /\ result'[Call(t)].method = current[t].method /\ result'[Call(t)].args = current[t].args
           /\ \A c \in Calls : c # Call(t) => result'[c] = result[c]
           /\ \/ pc[t] = "connect" /\ result'[Call(t)].response = NoResponse
              \/ /\ pc[t] = "dialing" /\ ConnectFail(t)
                 /\ result'[Call(t)].response = NoResponse
              \/ result'[Call(t)].failed /\ result'[Call(t)].response = NoResponse
              \/ /\ pc[t] = "close" /\ Close(t)
                 /\ result'[Call(t)].failed = current[t].failed
                 /\ result'[Call(t)].response = current[t].response

(* Outcomes change exactly when a call returns. *)
LEMMA EndsOnly == ASSUME ClientInv, AllTypes, [Next]_vars
                  PROVE  \/ \E t \in Threads : Ends(t)
                         \/ /\ result' = result
                            /\ \A u \in Threads : pc'[u] = "idle" => pc[u] = "idle"
<1>0. DataTypes
  BY DEF AllTypes
<1>1. ASSUME NEW t \in Threads, SocketFail(t) \/ ConnectFail(t) PROVE Ends(t)
  <2>1. /\ pc[t] = "connect" \/ (pc[t] = "dialing" /\ ConnectFail(t))
        /\ Return(t, FALSE, NoResponse) /\ made' = made /\ NoResponse \in Responses
    BY <1>1 DEF SocketFail, ConnectFail, Responses
  <2>2. /\ pc'[t] = "idle" /\ \A u \in Threads : u # t => pc'[u] = pc[u]
        /\ result'[Call(t)] = [returned |-> TRUE, failed |-> FALSE, response |-> NoResponse,
                               method |-> current[t].method, args |-> current[t].args]
        /\ \A c \in Calls : c # Call(t) => result'[c] = result[c]
    BY <1>0, <2>1, ReturnEffect
  <2>3. /\ result'[Call(t)].returned /\ result'[Call(t)].response = NoResponse
        /\ result'[Call(t)].method = current[t].method /\ result'[Call(t)].args = current[t].args
    BY <2>2
  <2>4. CASE pc[t] = "connect"
    BY <2>1, <2>2, <2>3, <2>4 DEF Ends
  <2>5. CASE pc[t] = "dialing" /\ ConnectFail(t)
    BY <2>1, <2>2, <2>3, <2>5 DEF Ends
  <2> QED
    BY <2>1, <2>4, <2>5
<1>2. ASSUME NEW t \in Threads, SerializeFail(t) \/ SendFail(t) \/ RecvClosed(t) \/ RecvError(t)
      PROVE  Ends(t)
  <2>1. pc[t] # "idle" /\ Return(t, TRUE, NoResponse) /\ made' = made /\ NoResponse \in Responses
    BY <1>2 DEF SerializeFail, SendFail, RecvClosed, RecvError, Responses
  <2>2. /\ pc'[t] = "idle" /\ \A u \in Threads : u # t => pc'[u] = pc[u]
        /\ result'[Call(t)] = [returned |-> TRUE, failed |-> TRUE, response |-> NoResponse,
                               method |-> current[t].method, args |-> current[t].args]
        /\ \A c \in Calls : c # Call(t) => result'[c] = result[c]
    BY <1>0, <2>1, ReturnEffect
  <2> QED
    BY <2>1, <2>2 DEF Ends
<1>3. ASSUME NEW t \in Threads, Close(t) PROVE Ends(t)
  <2>1. /\ pc[t] = "close" /\ Return(t, current[t].failed, current[t].response) /\ made' = made
    BY <1>3 DEF Close
  <2>2. current[t].failed \in BOOLEAN /\ current[t].response \in Responses
    BY <1>0 DEF DataTypes, CurrentSet
  <2>3. /\ pc'[t] = "idle" /\ \A u \in Threads : u # t => pc'[u] = pc[u]
        /\ result'[Call(t)] = [returned |-> TRUE, failed |-> current[t].failed,
                               response |-> current[t].response,
                               method |-> current[t].method, args |-> current[t].args]
        /\ \A c \in Calls : c # Call(t) => result'[c] = result[c]
    BY <1>0, <2>1, <2>2, ReturnEffect
  <2> QED
    BY <1>3, <2>1, <2>3 DEF Ends
<1>4. ASSUME NEW t \in Threads, CallStep(t)
      PROVE  \/ SocketFail(t) \/ ConnectFail(t) \/ SerializeFail(t) \/ SendFail(t) \/ RecvClosed(t)
             \/ RecvError(t) \/ Close(t)
             \/ /\ result' = result
                /\ \E l \in {"connect", "dialing", "thrown", "serialize", "send", "recv", "blocked", "close"} :
                      pc' = [pc EXCEPT ![t] = l]
  BY <1>4 DEF CallStep, QueryFound, QueryMissing, QueryInvalid, Socket, SocketFail, ConnectOk, SerializeOk, SendOk,
              RecvEnter, Receive, RecvData, RecvTorn, RecvEof, Goto
<1>5. ASSUME NEW t \in Threads, NEW m \in Methods, NEW a \in ArgValues, BeginCall(t, m, a)
      PROVE  result' = result /\ \E l \in {"lookup", "serialize"} : pc' = [pc EXCEPT ![t] = l]
  BY <1>5 DEF BeginCall, Goto
<1>6. ASSUME NEW t \in Threads,
             \E l \in {"lookup", "connect", "dialing", "thrown", "serialize", "send", "recv", "blocked",
                       "close"} :
                pc' = [pc EXCEPT ![t] = l]
      PROVE  \A u \in Threads : pc'[u] = "idle" => pc[u] = "idle"
  BY <1>6 DEF ClientInv, ClientTypes
<1>7. ASSUME NEW c \in Calls, ServeStep(c) \/ OnDisconnect(c) PROVE result' = result /\ pc' = pc
  BY <1>7 DEF ServeStep, OnMessage, SendRpcResponse, OnDisconnect, clientVars
<1>8. (\E t \in Threads : StartCancel(t)) \/ Crash \/ Restart \/ AllDone \/ UNCHANGED vars
      => result' = result /\ pc' = pc
  BY DEF StartCancel, Crash, Restart, AllDone, vars, clientVars
<1>9. ASSUME NEW t \in Threads, CallStep(t)
      PROVE  \/ Ends(t)
             \/ result' = result /\ \A u \in Threads : pc'[u] = "idle" => pc[u] = "idle"
  BY <1>1, <1>2, <1>3, <1>4, <1>6, <1>9
<1>10. ASSUME NEW t \in Threads, \E m \in Methods, a \in ArgValues : BeginCall(t, m, a)
       PROVE  result' = result /\ \A u \in Threads : pc'[u] = "idle" => pc[u] = "idle"
  BY <1>5, <1>6, <1>10
<1> QED
  BY <1>7, <1>8, <1>9, <1>10 DEF Next

(* Every step keeps ReturnInv. *)
LEMMA ReturnStep == ASSUME ClientInv, AllTypes, ReturnInv, [Next]_vars PROVE ReturnInv'
<1>0. ClientTypes
  BY DEF ClientInv
<1>1. ASSUME NEW c \in Calls, At(c, Unreturned)' PROVE ~result'[c].returned
  <2>1. At(c, Unreturned) /\ ~result[c].returned
    BY <1>0, <1>1, AtKept DEF ReturnInv, Pends
  <2>2. ASSUME NEW t \in Threads, Ends(t) PROVE c # Call(t)
    <3>1. c = Call(t) => c[1] = t /\ c[2] = made[t] /\ made[t] \in Int
      BY <1>0, KrpcCallBounds DEF Call, ClientTypes
    <3>2. made' = made /\ pc'[t] = "idle"
      BY <2>2 DEF Ends
    <3> QED
      BY <1>1, <3>1, <3>2 DEF At, Unreturned
  <2> QED
    BY <2>1, <2>2, EndsOnly DEF Ends
<1>2. ASSUME NEW t \in Threads, pc'[t] = "close"
      PROVE  current'[t].failed \/ current'[t].response # NoResponse
  <2>0. DataTypes /\ current \in [Threads -> CurrentSet]
    BY DEF AllTypes, DataTypes
  <2>1. ASSUME NEW u \in Threads, RecvData(u) PROVE u # t => current'[t] = current[t] /\ pc'[t] = pc[t]
    BY <1>0, <2>0, <2>1 DEF RecvData, Goto, ClientTypes
  <2>2. ASSUME RecvData(t) PROVE current'[t].response # NoResponse
    <3>1. PICK c \in Calls : \E n \in 1..Len(down[c]) :
             /\ SubSeq(down[c], 1, n) \in Streams
             /\ current' = [current EXCEPT ![t] =
                   [@ EXCEPT !.response = ParseReply(SubSeq(down[c], 1, n))]]
      BY <2>2, RecvEffect
    <3>2. PICK n \in 1..Len(down[c]) :
             /\ SubSeq(down[c], 1, n) \in Streams
             /\ current' = [current EXCEPT ![t] =
                   [@ EXCEPT !.response = ParseReply(SubSeq(down[c], 1, n))]]
      BY <3>1
    <3>3. /\ ParseReply(SubSeq(down[c], 1, n)) # NoResponse
          /\ ParseReply(SubSeq(down[c], 1, n)) \in Responses
      BY <3>2, ParseFacts
    <3>4. current'[t].response = ParseReply(SubSeq(down[c], 1, n))
      BY <2>0, <3>2, <3>3, ResponseSet
    <3> QED
      BY <3>3, <3>4
  <2>3. ASSUME NEW u \in Threads, RecvEof(u) PROVE u # t => current'[t] = current[t] /\ pc'[t] = pc[t]
    BY <1>0, <2>0, <2>3 DEF RecvEof, Goto, ClientTypes
  <2>4. ASSUME RecvEof(t) PROVE current'[t].response # NoResponse
    <3>0. <<>> \in Streams
      BY DEF Streams
    <3>1. ParseReply(<<>>) \in Responses /\ ParseReply(<<>>) # NoResponse
      BY <3>0, ParseFacts
    <3>2. current' = [current EXCEPT ![t] = [@ EXCEPT !.response = ParseReply(<<>>)]]
      BY <2>4 DEF RecvEof
    <3>3. current'[t].response = ParseReply(<<>>)
      BY <2>0, <3>1, <3>2, ResponseSet
    <3> QED
      BY <3>1, <3>3
  <2>5. ASSUME NEW u \in Threads, RecvTorn(u)
        PROVE  (u # t => current'[t] = current[t] /\ pc'[t] = pc[t]) /\ (u = t => current'[t].failed)
    <3>1. current' = [current EXCEPT ![u] = [@ EXCEPT !.failed = TRUE]]
      BY <2>5 DEF RecvTorn
    <3>2. current'[u].failed /\ (u # t => current'[t] = current[t])
      BY <2>0, <3>1, FailedSet
    <3> QED
      BY <1>0, <2>5, <3>2 DEF RecvTorn, Goto, ClientTypes
  <2>6. ASSUME NEW u \in Threads, StartCancel(u)
        PROVE  /\ pc' = pc /\ current'[t].failed = current[t].failed
               /\ current'[t].response = current[t].response
    BY <2>0, <2>6, CanceledSet DEF StartCancel
  <2>7. ASSUME NEW u \in Threads,
               \/ \E m \in Methods, a \in ArgValues : BeginCall(u, m, a)
               \/ QueryFound(u) \/ QueryMissing(u) \/ QueryInvalid(u) \/ SocketFail(u) \/ ConnectFail(u)
               \/ SerializeFail(u) \/ SendFail(u) \/ RecvClosed(u) \/ RecvError(u) \/ Close(u)
        PROVE  u # t /\ current'[t] = current[t] /\ pc'[t] = pc[t]
    <3>1. \E l \in {"idle", "lookup", "serialize", "connect", "thrown"} : pc' = [pc EXCEPT ![u] = l]
      BY <2>7 DEF BeginCall, QueryFound, QueryMissing, QueryInvalid, SocketFail,
                  ConnectFail, SerializeFail, SendFail, RecvClosed, RecvError, Close, Return, Goto
    <3>2. \E k : current' = [current EXCEPT ![u] = k]
      BY <2>7 DEF BeginCall, QueryFound, QueryMissing, QueryInvalid, SocketFail,
                  ConnectFail, SerializeFail, SendFail, RecvClosed, RecvError, Close, Return
    <3>3. u # t /\ pc'[t] = pc[t]
      BY <1>0, <1>2, <3>1 DEF ClientTypes
    <3> QED
      BY <2>0, <3>2, <3>3
  <2>8. ASSUME NEW u \in Threads,
               Socket(u) \/ ConnectOk(u) \/ SerializeOk(u) \/ SendOk(u) \/ RecvEnter(u)
        PROVE  current' = current /\ pc'[t] = pc[t]
    <3>1. \E l \in {"dialing", "serialize", "send", "recv", "blocked"} : pc' = [pc EXCEPT ![u] = l]
      BY <2>8 DEF Socket, ConnectOk, SerializeOk, SendOk, RecvEnter, Goto
    <3>2. current' = current
      BY <2>8 DEF Socket, ConnectOk, SerializeOk, SendOk, RecvEnter
    <3> QED
      BY <1>0, <1>2, <3>1, <3>2 DEF ClientTypes
  <2>9. CASE UNCHANGED <<pc, current>>
    BY <1>2, <2>9 DEF ReturnInv
  <2>10. \/ /\ pc'[t] = pc[t] /\ current'[t].failed = current[t].failed
            /\ current'[t].response = current[t].response
         \/ current'[t].failed \/ current'[t].response # NoResponse
    BY <2>1, <2>2, <2>3, <2>4, <2>5, <2>6, <2>7, <2>8, <2>9
       DEF Next, CallStep, Receive, ServeStep, OnMessage, SendRpcResponse, OnDisconnect,
           Crash, Restart, AllDone, vars, clientVars
  <2> QED
    BY <1>2, <2>10 DEF ReturnInv
<1> QED
  BY <1>1, <1>2 DEF ReturnInv, Pends

(* A call that returns silently could not connect. *)
LEMMA QuietKept ==
    ASSUME ClientInv, AllTypes, ReturnInv, [Next]_vars, NEW c \in Calls,
           At(c, Unsent)' \/ Silent(c)'
    PROVE  At(c, Unsent) \/ Silent(c)
<1>0. ClientTypes
  BY DEF ClientInv
<1>1. CASE At(c, Unsent)'
  BY <1>0, <1>1, AtKept
<1>2. CASE Silent(c)' /\ result'[c] = result[c]
  BY <1>2 DEF Silent
<1>3. ASSUME Silent(c)', NEW t \in Threads, Ends(t), c = Call(t) PROVE At(c, Unsent)
  <2>1. c[1] = t /\ c[2] = made[t]
    BY <1>3 DEF Call
  <2>2. pc[t] \in {"connect", "dialing"}
    BY <1>3 DEF Ends, Silent, ReturnInv
  <2> QED
    BY <2>1, <2>2 DEF At, Unsent
<1> QED
  BY <1>1, <1>2, <1>3, EndsOnly DEF Ends

(* Bytes only leave the streams to the provider, from their front. *)
Shrinks == \A d \in Calls : \E k \in Nat : \A i \in 1..Len(up'[d]) :
              i + k \in 1..Len(up[d]) /\ up'[d][i] = up[d][i + k]

(* The provider starts a method for the request at the front of stream c.  *)
(* More than that cell leaves the stream.                                  *)
Starts(c, q) == /\ 1 \in 1..Len(up[c]) /\ Announces(c, 1, q.call)
                /\ execs' = [execs EXCEPT ![q.call] =
                               Append(@, [method |-> q.method, args |-> q.args])]
                /\ \A d \in Calls : d # c => up'[d] = up[d]
                /\ \E k \in Nat \ {0} : \A i \in 1..Len(up'[c]) :
                      i + k \in 1..Len(up[c]) /\ up'[c][i] = up[c][i + k]

(* Delivery takes bytes from the front of its stream. *)
LEMMA DeliverShrinks == ASSUME AllTypes, NEW c \in Calls, OnMessage(c)
                        PROVE  /\ Shrinks
                               /\ execs' = execs \/ \E q \in Requests : Starts(c, q)
<1>1. PICK n \in 1..Len(up[c]) :
              /\ up' \in [Calls -> Streams] /\ up'[c] = SubSeq(up[c], n + 1, Len(up[c]))
              /\ \A d \in Calls : d # c => up'[d] = up[d]
              /\ \/ execs' = execs
                 \/ \E q \in Requests :
                        /\ up[c][1].part = "len" /\ q.call = up[c][1].call
                        /\ execs' = [execs EXCEPT ![q.call] =
                                       Append(@, [method |-> q.method, args |-> q.args])]
  BY DeliverEffect
<1>2. up[c] \in Seq(Cells) /\ Len(up[c]) \in Nat
  BY DEF AllTypes, NetTypes, Streams
<1>3. /\ Len(up'[c]) = Len(up[c]) - n
      /\ \A i \in 1..(Len(up[c]) - n) : up'[c][i] = up[c][n + i]
  <2> DEFINE s == up[c]
             r == up'[c]
             S == Cells
  <2>1. s \in Seq(S) /\ n \in 1..Len(s) /\ r = SubSeq(s, n + 1, Len(s))
    BY <1>1, <1>2
  <2> HIDE DEF s, r, S
  <2>2. Len(r) = Len(s) - n /\ \A i \in 1..(Len(s) - n) : r[i] = s[n + i]
    BY <2>1, Cut
  <2> QED
    BY <2>2 DEF s, r
<1>4. \A i \in 1..Len(up'[c]) : i + n \in 1..Len(up[c]) /\ up'[c][i] = up[c][i + n]
  <2> TAKE i \in 1..Len(up'[c])
  <2>1. i \in 1..(Len(up[c]) - n) /\ i + n \in 1..Len(up[c]) /\ n + i = i + n
    BY <1>2, <1>3
  <2> QED
    BY <1>3, <2>1
<1>5. n \in Nat \ {0} /\ 1 \in 1..Len(up[c])
  BY <1>2
<1>6. \A d \in Calls : d # c => \A i \in 1..Len(up'[d]) :
              i + 0 \in 1..Len(up[d]) /\ up'[d][i] = up[d][i + 0]
  BY <1>1
<1>7. Shrinks
  BY <1>4, <1>5, <1>6 DEF Shrinks
<1>8. ASSUME NEW q \in Requests, up[c][1].part = "len", q.call = up[c][1].call,
             execs' = [execs EXCEPT ![q.call] = Append(@, [method |-> q.method, args |-> q.args])]
      PROVE  Starts(c, q)
  BY <1>1, <1>4, <1>5, <1>8 DEF Starts, Announces
<1> QED
  BY <1>1, <1>7, <1>8

(* The steps that change what is on its way to the provider, or what ran. *)
LEMMA UpSteps ==
    ASSUME [Next]_vars
    PROVE  \/ (up' = up /\ execs' = execs) \/ Crash \/ (\E t \in Threads : SendOk(t))
           \/ \E c \in Calls : OnMessage(c)
<1>1. ASSUME NEW t \in Threads, CallStep(t) PROVE SendOk(t) \/ (up' = up /\ execs' = execs)
  BY <1>1 DEF CallStep, QueryFound, QueryMissing, QueryInvalid, Socket, SocketFail, ConnectOk, ConnectFail,
         SerializeOk, SerializeFail, SendFail, RecvEnter, RecvClosed, Receive, RecvData, RecvTorn,
         RecvEof, RecvError, Close, netVars, serverVars
<1>2. ASSUME NEW t \in Threads,
             StartCancel(t) \/ \E m \in Methods, a \in ArgValues : BeginCall(t, m, a)
      PROVE  up' = up /\ execs' = execs
  BY <1>2 DEF BeginCall, StartCancel, netVars, serverVars
<1>3. ASSUME NEW c \in Calls, SendRpcResponse(c) \/ OnDisconnect(c) PROVE up' = up /\ execs' = execs
  BY <1>3 DEF SendRpcResponse, OnDisconnect, netVars
<1>4. Restart \/ AllDone \/ UNCHANGED vars => up' = up /\ execs' = execs
  BY DEF Restart, AllDone, vars, netVars, serverVars
<1> QED
  BY <1>1, <1>2, <1>3, <1>4 DEF Next, ServeStep

(* Only a send adds bytes, only a delivery starts methods. *)
LEMMA SendOrShrink ==
    ASSUME ClientInv, AllTypes, [Next]_vars
    PROVE  \/ Shrinks /\ (execs' = execs \/ \E c \in Calls, q \in Requests : Starts(c, q))
           \/ execs' = execs /\ \E t \in Threads : SendOk(t)
<1>1. ASSUME up' = up, execs' = execs
      PROVE  Shrinks /\ (execs' = execs \/ \E c \in Calls, q \in Requests : Starts(c, q))
  <2>1. \A d \in Calls : Len(up[d]) \in Nat
    BY DEF AllTypes, NetTypes, Streams
  <2>2. \A d \in Calls : \A i \in 1..Len(up'[d]) : i + 0 \in 1..Len(up[d]) /\ up'[d][i] = up[d][i + 0]
    BY <1>1, <2>1
  <2> QED
    BY <1>1, <2>2 DEF Shrinks
<1>2. ASSUME Crash
      PROVE  Shrinks /\ (execs' = execs \/ \E c \in Calls, q \in Requests : Starts(c, q))
  <2>1. up' = [c \in Calls |-> <<>>] /\ execs' = execs
    BY <1>2 DEF Crash
  <2>2. \A d \in Calls : Len(up'[d]) = 0
    BY <2>1
  <2> QED
    BY <2>1, <2>2 DEF Shrinks
<1>3. ASSUME NEW t \in Threads, SendOk(t) PROVE execs' = execs
  BY <1>3 DEF SendOk, serverVars
<1> QED
  BY <1>1, <1>2, <1>3, UpSteps, DeliverShrinks

(* What a send adds: cells of the sender's call, of which the first        *)
(* announces it.                                                           *)
LEMMA SendAdds ==
    ASSUME ClientInv, AllTypes, NEW t \in Threads, SendOk(t)
    PROVE  \E s \in Calls :
              /\ s = OnSocket(t)
              /\ \A d \in Calls : d # s => up'[d] = up[d]
              /\ Len(up[s]) \in Nat
              /\ \A i \in 1..Len(up[s]) : up'[s][i] = up[s][i]
              /\ \A i \in 1..Len(up'[s]) : /\ i \in Int
                                           /\ i > Len(up[s]) => /\ up'[s][i].call = Call(t)
                                                                /\ up'[s][i].method = channel[t].name
                                           /\ i > Len(up[s]) /\ up'[s][i].part = "len" => i = Len(up[s]) + 1
<1>1. PICK s \in Calls :
              /\ s = OnSocket(t)
              /\ Call(t) \in Calls /\ channel[t].name \in Methods /\ current[t].args \in Arguments
              /\ \/ up' = up
                 \/ /\ \E n \in 1..Len(Frame(Call(t), channel[t].name, current[t].args)) :
                          up'[s] = up[s] \o SubSeq(Frame(Call(t), channel[t].name, current[t].args), 1, n)
                    /\ \A d \in Calls : d # s => up'[d] = up[d]
  BY SendEffect
<1> DEFINE F == Frame(Call(t), channel[t].name, current[t].args)
<1>2. /\ F \in Streams
      /\ \A i \in 1..Len(F) : F[i].call = Call(t) /\ F[i].method = channel[t].name /\ (F[i].part = "len" <=> i = 1)
  BY <1>1, FrameFacts
<1>3. up[s] \in Streams
  BY DEF AllTypes, NetTypes
<1>4. Len(up[s]) \in Nat
  BY <1>3 DEF Streams
<1>5. CASE up' = up
  BY <1>1, <1>4, <1>5
<1> HIDE DEF F
<1>6. ASSUME NEW n \in 1..Len(F), up'[s] = up[s] \o SubSeq(F, 1, n),
             \A d \in Calls : d # s => up'[d] = up[d]
      PROVE  /\ \A d \in Calls : d # s => up'[d] = up[d]
             /\ Len(up[s]) \in Nat
             /\ \A i \in 1..Len(up[s]) : up'[s][i] = up[s][i]
             /\ \A i \in 1..Len(up'[s]) :
                   /\ i \in Int
                   /\ i > Len(up[s]) => up'[s][i].call = Call(t) /\ up'[s][i].method = channel[t].name
                   /\ i > Len(up[s]) /\ up'[s][i].part = "len" => i = Len(up[s]) + 1
  <2> DEFINE p == up[s]
             r == up'[s]
             S == Cells
             P == SubSeq(F, 1, n)
  <2>1. p \in Seq(S) /\ P \in Seq(S) /\ r = p \o P
    BY <1>2, <1>3, <1>6, StreamCut DEF Streams
  <2>0. \A i \in 1..Len(P) : /\ P[i].call = Call(t) /\ P[i].method = channel[t].name
                             /\ P[i].part = "len" <=> i = 1
    <3> DEFINE C == Cells
    <3>1. F \in Seq(C)
      BY <1>2 DEF Streams
    <3> HIDE DEF C
    <3>2. n \in 1..Len(F) /\ Len(F) \in Nat /\ Len(P) = n /\ \A i \in 1..n : P[i] = F[i]
      BY <3>1
    <3> HIDE DEF P
    <3> QED
      BY <1>2, <3>2
  <2> HIDE DEF p, r, S, P
  <2>2. /\ Len(p) \in Nat /\ Len(P) \in Nat /\ Len(r) = Len(p) + Len(P)
        /\ \A i \in 1..Len(p) : r[i] = p[i]
        /\ \A i \in (Len(p) + 1)..(Len(p) + Len(P)) : r[i] = P[i - Len(p)] /\ i - Len(p) \in 1..Len(P)
    BY <2>1, Joined
  <2>3. \A i \in 1..Len(r) : /\ i \in Int
                             /\ i > Len(p) => r[i].call = Call(t) /\ r[i].method = channel[t].name
                             /\ i > Len(p) /\ r[i].part = "len" => i = Len(p) + 1
    <3> TAKE i \in 1..Len(r)
    <3>1. CASE i > Len(p)
      <4>1. i \in (Len(p) + 1)..(Len(p) + Len(P))
        BY <2>2, <3>1
      <4>2. r[i] = P[i - Len(p)] /\ i - Len(p) \in 1..Len(P)
        BY <2>2, <4>1
      <4>3. r[i].call = Call(t) /\ r[i].method = channel[t].name /\ (r[i].part = "len" => i - Len(p) = 1)
        BY <2>0, <4>2
      <4> QED
        BY <2>2, <4>1, <4>3
    <3>2. CASE ~(i > Len(p))
      BY <2>2, <3>2
    <3> QED
      BY <3>1, <3>2
  <2> QED
    BY <1>1, <1>6, <2>2, <2>3 DEF p, r
<1> QED
  BY <1>1, <1>5, <1>6 DEF F

(* Every step keeps SentInv. *)
LEMMA SentStep == ASSUME ClientInv, AllTypes, ReturnInv, SentInv, [Next]_vars PROVE SentInv'
<1>0. ClientTypes
  BY DEF ClientInv
<1> SUFFICES ASSUME NEW c \in Calls, At(c, Unsent)' \/ Silent(c)' PROVE Unheard(c)'
  BY DEF SentInv
<1>1. Unheard(c)
  BY QuietKept DEF SentInv
<1>2. CASE Shrinks
  <2>1. \A d \in Calls : \A i \in 1..Len(up'[d]) : up'[d][i].call # c
    <3> TAKE d \in Calls
    <3>1. PICK k \in Nat : \A i \in 1..Len(up'[d]) : i + k \in 1..Len(up[d]) /\ up'[d][i] = up[d][i + k]
      BY <1>2 DEF Shrinks
    <3> QED
      BY <1>1, <3>1 DEF Unheard
  <2>2. ASSUME NEW d \in Calls, NEW q \in Requests, Starts(d, q) PROVE execs'[c] = execs[c]
    <3>1. q.call # c
      BY <1>1, <2>2 DEF Starts, Announces, Unheard
    <3> QED
      BY <2>2, <3>1 DEF Starts, AllTypes, ServeTypes
  <2>3. (execs' = execs \/ \E d \in Calls, q \in Requests : Starts(d, q)) => execs'[c] = execs[c]
    BY <2>2
  <2>4. execs'[c] = execs[c]
    BY <2>3, SendOrShrink
  <2> QED
    BY <1>1, <2>1, <2>4 DEF Unheard
<1>3. ASSUME NEW t \in Threads, SendOk(t), execs' = execs PROVE Unheard(c)'
  <2>1. c # Call(t)
    <3>1. pc'[t] = "recv" /\ pc[t] = "send" /\ made' = made /\ result' = result
      BY <1>0, <1>3 DEF SendOk, Goto, ClientTypes
    <3>2. c = Call(t) => c[1] = t /\ c[2] = made[t] /\ made[t] \in Int
      BY <1>0, KrpcCallBounds DEF Call, ClientTypes
    <3>3. c = Call(t) => ~At(c, Unsent)'
      BY <3>1, <3>2 DEF At, Unsent
    <3>4. c = Call(t) => At(c, Unreturned)
      BY <3>1, <3>2 DEF At, Unreturned
    <3>5. c = Call(t) => ~Silent(c)'
      BY <3>1, <3>4 DEF Silent, ReturnInv, Pends
    <3> QED
      BY <3>3, <3>5
  <2>2. PICK s \in Calls :
              /\ \A d \in Calls : d # s => up'[d] = up[d]
              /\ Len(up[s]) \in Nat
              /\ \A i \in 1..Len(up[s]) : up'[s][i] = up[s][i]
              /\ \A i \in 1..Len(up'[s]) : i \in Int /\ (i > Len(up[s]) => up'[s][i].call = Call(t))
    BY <1>3, SendAdds
  <2>3. \A d \in Calls : d # s => \A i \in 1..Len(up'[d]) : up'[d][i].call # c
    BY <1>1, <2>2 DEF Unheard
  <2>4. \A i \in 1..Len(up'[s]) : up'[s][i].call # c
    <3> TAKE i \in 1..Len(up'[s])
    <3>1. i \in 1..Len(up[s]) \/ i > Len(up[s])
      BY <2>2
    <3> QED
      BY <1>1, <2>1, <2>2, <3>1 DEF Unheard
  <2> QED
    BY <1>1, <1>3, <2>3, <2>4 DEF Unheard
<1> QED
  BY <1>2, <1>3, SendOrShrink

(* Every step keeps OnceInv and AtMostOnce. *)
LEMMA OnceStep ==
    ASSUME ClientInv, AllTypes, ReturnInv, SentInv, OnceInv, AtMostOnce, [Next]_vars
    PROVE  OnceInv' /\ AtMostOnce'
<1>0. execs \in [Calls -> Runs] /\ \A c \in Calls : Len(execs[c]) \in Nat /\ execs[c] \in Runs
  BY DEF AllTypes, ServeTypes, Runs
<1>1. ASSUME Shrinks, NEW c \in Calls, NEW d \in Calls, NEW e \in Calls, NEW i \in 1..Len(up'[d]),
             NEW j \in 1..Len(up'[e]), Announces(d, i, c)', Announces(e, j, c)'
      PROVE  d = e /\ i = j
  <2>1. PICK k \in Nat : \A x \in 1..Len(up'[d]) :
              x + k \in 1..Len(up[d]) /\ up'[d][x] = up[d][x + k]
    BY <1>1 DEF Shrinks
  <2>2. PICK l \in Nat : \A x \in 1..Len(up'[e]) :
              x + l \in 1..Len(up[e]) /\ up'[e][x] = up[e][x + l]
    BY <1>1 DEF Shrinks
  <2>3. Announces(d, i + k, c) /\ Announces(e, j + l, c)
    BY <1>1, <2>1, <2>2 DEF Announces
  <2>4. d = e /\ i + k = j + l
    BY <2>1, <2>2, <2>3 DEF OnceInv
  <2>5. Announces(e, j + k, c)
    BY <1>1, <2>1, <2>4 DEF Announces
  <2>6. i + k = j + k
    BY <2>1, <2>3, <2>4, <2>5 DEF OnceInv
  <2> QED
    BY <2>4, <2>6
<1>2. ASSUME Shrinks, execs' = execs PROVE OnceInv' /\ AtMostOnce'
  <2>1. ASSUME NEW c \in Calls, NEW d \in Calls, NEW i \in 1..Len(up'[d]), Announces(d, i, c)'
        PROVE  execs'[c] = <<>>
    <3>1. PICK k \in Nat : \A x \in 1..Len(up'[d]) :
              x + k \in 1..Len(up[d]) /\ up'[d][x] = up[d][x + k]
      BY <1>2 DEF Shrinks
    <3>2. Announces(d, i + k, c)
      BY <2>1, <3>1 DEF Announces
    <3> QED
      BY <1>2, <3>1, <3>2 DEF OnceInv
  <2>2. OnceInv'
    BY <1>1, <1>2, <2>1 DEF OnceInv
  <2> QED
    BY <1>2, <2>2 DEF AtMostOnce
<1>3. ASSUME Shrinks, NEW b \in Calls, NEW q \in Requests, Starts(b, q) PROVE OnceInv' /\ AtMostOnce'
  <2>1. q.call \in Calls /\ 1 \in 1..Len(up[b]) /\ Announces(b, 1, q.call)
    BY <1>3 DEF Starts, Requests
  <2>2. execs[q.call] = <<>>
    BY <2>1 DEF OnceInv
  <2>3. /\ \A c \in Calls : c # q.call => execs'[c] = execs[c]
        /\ execs'[q.call] = <<[method |-> q.method, args |-> q.args]>>
    BY <1>0, <1>3, <2>1, <2>2 DEF Starts
  <2>4. AtMostOnce'
    <3>1. Len(execs'[q.call]) = 1
      BY <2>3
    <3> QED
      BY <2>3, <3>1 DEF AtMostOnce
  <2>5. ASSUME NEW c \in Calls, NEW d \in Calls, NEW i \in 1..Len(up'[d]), Announces(d, i, c)'
        PROVE  execs'[c] = <<>>
    <3>1. CASE d = b
      <4>1. PICK k \in Nat \ {0} : \A x \in 1..Len(up'[b]) :
              x + k \in 1..Len(up[b]) /\ up'[b][x] = up[b][x + k]
        BY <1>3 DEF Starts
      <4>2. Announces(b, i + k, c) /\ i + k \in 1..Len(up[b]) /\ i + k # 1
        BY <2>5, <3>1, <4>1 DEF Announces
      <4>3. c # q.call
        BY <2>1, <4>2 DEF OnceInv
      <4> QED
        BY <2>3, <4>2, <4>3 DEF OnceInv
    <3>2. CASE d # b
      <4>1. up'[d] = up[d]
        BY <1>3, <3>2 DEF Starts
      <4>2. Announces(d, i, c) /\ i \in 1..Len(up[d])
        BY <2>5, <4>1 DEF Announces
      <4>3. c # q.call
        BY <2>1, <3>2, <4>2 DEF OnceInv
      <4> QED
        BY <2>3, <4>2, <4>3 DEF OnceInv
    <3> QED
      BY <3>1, <3>2
  <2>6. OnceInv'
    BY <1>1, <1>3, <2>5 DEF OnceInv
  <2> QED
    BY <2>4, <2>6
<1>4. ASSUME NEW t \in Threads, SendOk(t), execs' = execs PROVE OnceInv' /\ AtMostOnce'
  <2>1. PICK s \in Calls :
              /\ \A d \in Calls : d # s => up'[d] = up[d]
              /\ Len(up[s]) \in Nat
              /\ \A i \in 1..Len(up[s]) : up'[s][i] = up[s][i]
              /\ \A i \in 1..Len(up'[s]) : /\ i \in Int
                                           /\ i > Len(up[s]) => up'[s][i].call = Call(t)
                                           /\ i > Len(up[s]) /\ up'[s][i].part = "len" => i = Len(up[s]) + 1
    BY <1>4, SendAdds
  <2>2. Unheard(Call(t)) /\ Call(t) \in Calls
    <3>1. pc[t] = "send" /\ Call(t) \in Calls
      BY <1>4, CallIsCall DEF SendOk
    <3>2. At(Call(t), Unsent)
      BY <3>1 DEF At, Unsent, Call
    <3> QED
      BY <3>1, <3>2 DEF SentInv
  <2>3. ASSUME NEW c \in Calls, NEW d \in Calls, NEW i \in 1..Len(up'[d]), Announces(d, i, c)'
        PROVE  \/ c # Call(t) /\ i \in 1..Len(up[d]) /\ Announces(d, i, c)
               \/ c = Call(t) /\ d = s /\ i = Len(up[s]) + 1
    <3>1. CASE d = s /\ i > Len(up[s])
      BY <2>1, <2>3, <3>1 DEF Announces
    <3>2. CASE d = s /\ ~(i > Len(up[s]))
      <4>1. i \in 1..Len(up[d]) /\ up'[d][i] = up[d][i]
        BY <2>1, <3>2
      <4> QED
        BY <2>2, <2>3, <4>1 DEF Announces, Unheard
    <3>3. CASE d # s
      <4>1. up'[d] = up[d]
        BY <2>1, <3>3
      <4> QED
        BY <2>2, <2>3, <4>1 DEF Announces, Unheard
    <3> QED
      BY <3>1, <3>2, <3>3
  <2>4. ASSUME NEW c \in Calls, NEW d \in Calls, NEW e \in Calls, NEW i \in 1..Len(up'[d]),
               NEW j \in 1..Len(up'[e]), Announces(d, i, c)', Announces(e, j, c)'
        PROVE  d = e /\ i = j
    <3>1. CASE c = Call(t)
      <4>1. d = s /\ i = Len(up[s]) + 1
        BY <2>3, <2>4, <3>1
      <4>2. e = s /\ j = Len(up[s]) + 1
        BY <2>3, <2>4, <3>1
      <4> QED
        BY <4>1, <4>2
    <3>2. CASE c # Call(t)
      <4>1. i \in 1..Len(up[d]) /\ Announces(d, i, c)
        BY <2>3, <2>4, <3>2
      <4>2. j \in 1..Len(up[e]) /\ Announces(e, j, c)
        BY <2>3, <2>4, <3>2
      <4> QED
        BY <4>1, <4>2 DEF OnceInv
    <3> QED
      BY <3>1, <3>2
  <2>5. ASSUME NEW c \in Calls, NEW d \in Calls, NEW i \in 1..Len(up'[d]), Announces(d, i, c)'
        PROVE  execs'[c] = <<>>
    <3>1. CASE c = Call(t)
      BY <1>4, <2>2, <3>1 DEF Unheard
    <3>2. CASE c # Call(t)
      <4>1. i \in 1..Len(up[d]) /\ Announces(d, i, c)
        BY <2>3, <2>5, <3>2
      <4> QED
        BY <1>4, <4>1 DEF OnceInv
    <3> QED
      BY <3>1, <3>2
  <2>6. OnceInv'
    BY <2>4, <2>5 DEF OnceInv
  <2> QED
    BY <1>4, <2>6 DEF AtMostOnce
<1> QED
  BY <1>2, <1>3, <1>4, SendOrShrink

(* What a step does to descriptors: a call connects, a descriptor is       *)
(* closed, or nothing.                                                     *)
LEMMA FdSteps ==
    ASSUME ClientInv, [Next]_vars
    PROVE  \/ fdtab' = fdtab
           \/ \E t \in Threads : Socket(t)
           \/ \E t \in Threads : /\ ConnectFail(t) \/ SendFail(t) \/ Close(t)
                                 /\ \A f \in Fds : fdtab'[f] \in {fdtab[f], Nobody}
<1>1. ASSUME NEW t \in Threads, ConnectFail(t) \/ SendFail(t) \/ Close(t)
      PROVE  \A f \in Fds : fdtab'[f] \in {fdtab[f], Nobody}
  BY <1>1 DEF ConnectFail, SendFail, Close, CloseFd, ClientInv, ClientTypes
<1>2. ASSUME NEW t \in Threads, CallStep(t)
      PROVE  fdtab' = fdtab \/ Socket(t) \/ ConnectFail(t) \/ SendFail(t) \/ Close(t)
  BY <1>2 DEF CallStep, QueryFound, QueryMissing, QueryInvalid, SocketFail, ConnectOk,
         SerializeOk, SerializeFail, SendOk, RecvEnter, RecvClosed, Receive, RecvData, RecvTorn,
         RecvEof, RecvError
<1>3. ASSUME NEW t \in Threads,
             StartCancel(t) \/ \E m \in Methods, a \in ArgValues : BeginCall(t, m, a)
      PROVE  fdtab' = fdtab
  BY <1>3 DEF BeginCall, StartCancel
<1>4. ASSUME NEW c \in Calls, ServeStep(c) \/ OnDisconnect(c) PROVE fdtab' = fdtab
  BY <1>4 DEF ServeStep, OnMessage, SendRpcResponse, OnDisconnect, clientVars
<1>5. Crash \/ Restart \/ AllDone \/ UNCHANGED vars => fdtab' = fdtab
  BY DEF Crash, Restart, AllDone, vars, clientVars
<1>6. fdtab' = fdtab \/ \E t \in Threads : Socket(t) \/ ConnectFail(t) \/ SendFail(t) \/ Close(t)
  BY <1>2, <1>3, <1>4, <1>5 DEF Next
<1> QED
  BY <1>1, <1>6

(* A recv blocks on what the descriptor stands for. *)
LEMMA SockSteps ==
    ASSUME ClientInv, [Next]_vars, NEW u \in Threads
    PROVE  sock'[u] \in {sock[u], Nobody} \/ \E f \in Fds : sock'[u] = fdtab[f]
<1>0. sock \in [Threads -> Calls \union {Nobody}]
  BY DEF ClientInv, ClientTypes
<1>1. ASSUME NEW t \in Threads, RecvEnter(t)
      PROVE  sock'[u] \in {sock[u], Nobody} \/ \E f \in Fds : sock'[u] = fdtab[f]
  BY <1>0, <1>1 DEF RecvEnter, OnSocket
<1>2. ASSUME NEW t \in Threads, Receive(t) PROVE sock'[u] \in {sock[u], Nobody}
  BY <1>0, <1>2 DEF Receive, RecvData, RecvTorn, RecvEof, RecvError
<1>3. ASSUME NEW t \in Threads, CallStep(t) PROVE sock' = sock \/ RecvEnter(t) \/ Receive(t)
  BY <1>3 DEF CallStep, QueryFound, QueryMissing, QueryInvalid, Socket, SocketFail, ConnectOk, ConnectFail,
         SerializeOk, SerializeFail, SendOk, SendFail, RecvClosed, Close
<1>4. ASSUME NEW t \in Threads,
             StartCancel(t) \/ \E m \in Methods, a \in ArgValues : BeginCall(t, m, a)
      PROVE  sock' = sock
  BY <1>4 DEF BeginCall, StartCancel
<1>5. ASSUME NEW c \in Calls, ServeStep(c) \/ OnDisconnect(c) PROVE sock' = sock
  BY <1>5 DEF ServeStep, OnMessage, SendRpcResponse, OnDisconnect, clientVars
<1>6. Crash \/ Restart \/ AllDone \/ UNCHANGED vars => sock' = sock
  BY DEF Crash, Restart, AllDone, vars, clientVars
<1>7. sock' = sock \/ \E t \in Threads : RecvEnter(t) \/ Receive(t)
  BY <1>3, <1>4, <1>5, <1>6 DEF Next
<1> QED
  BY <1>1, <1>2, <1>7

(* A connection stays unmade until its own call's socket().  *)
LEMMA UnmadeKept ==
    ASSUME ClientInv, AllTypes, [Next]_vars, NEW c \in Calls, Unmade(c),
           \A t \in Threads : Socket(t) => Call(t) # c
    PROVE  Unmade(c)'
<1>0. /\ peer \in [Calls -> {"none", "open", "closed"}] /\ busy \in [Calls -> {Rejected} \union Requests]
      /\ up \in [Calls -> Streams] /\ down \in [Calls -> Streams]
      /\ fdtab \in [Fds -> Calls \union {Nobody}] /\ c # Nobody
  BY CallParts DEF AllTypes, NetTypes, ServeTypes, ClientInv, ClientTypes
<1>1. /\ peer[c] = "none" /\ busy[c] = Rejected /\ up[c] = <<>> /\ down[c] = <<>>
      /\ \A f \in Fds : fdtab[f] # c
      /\ \A t \in Threads : sock[t] # c
  BY DEF Unmade
<1>2. ASSUME NEW f \in Fds PROVE fdtab'[f] # c
  <2>1. ASSUME NEW t \in Threads, Socket(t) PROVE fdtab'[f] # c
    <3>1. PICK g \in Fds : fdtab' = [fdtab EXCEPT ![g] = Call(t)]
      BY <2>1 DEF Socket
    <3>2. Call(t) # c
      BY <2>1
    <3> QED
      BY <1>0, <1>1, <3>1, <3>2
  <2> QED
    BY <1>0, <1>1, <2>1, FdSteps
<1>3. ASSUME NEW t \in Threads PROVE sock'[t] # c
  BY <1>0, <1>1, SockSteps
<1>4. /\ peer'[c] = "none" /\ busy'[c] = Rejected /\ up'[c] = <<>> /\ down'[c] = <<>>
  <2>1. ASSUME NEW t \in Threads, ConnectOk(t)
        PROVE  peer'[c] = peer[c] /\ UNCHANGED <<busy, up, down>>
    <3>1. OnSocket(t) # c /\ peer' = [peer EXCEPT ![OnSocket(t)] = "open"]
      BY <1>0, <1>1, <2>1 DEF ConnectOk, OnSocket
    <3> QED
      BY <1>0, <2>1, <3>1 DEF ConnectOk, netVars
  <2>2. ASSUME NEW t \in Threads, SendOk(t) PROVE up'[c] = up[c] /\ UNCHANGED <<peer, busy, down>>
    <3>1. PICK s \in Calls : /\ \E f \in Fds : fdtab[f] = s
                             /\ up' = up \/ \A d \in Calls : d # s => up'[d] = up[d]
      BY <2>2, SendEffect
    <3> QED
      BY <1>1, <2>2, <3>1 DEF SendOk, serverVars
  <2>3. ASSUME NEW t \in Threads, RecvData(t) \/ RecvTorn(t)
        PROVE  down'[c] = down[c] /\ UNCHANGED <<peer, busy, up>>
    <3>1. \E r : down' = [down EXCEPT ![sock[t]] = r]
      BY <2>3 DEF RecvData, RecvTorn
    <3> QED
      BY <1>0, <1>1, <2>3, <3>1 DEF RecvData, RecvTorn, serverVars
  <2>4. ASSUME NEW t \in Threads, CallStep(t)
        PROVE  \/ ConnectOk(t) \/ SendOk(t) \/ RecvData(t) \/ RecvTorn(t)
               \/ UNCHANGED <<peer, busy, up, down>>
    BY <2>4 DEF CallStep, QueryFound, QueryMissing, QueryInvalid, Socket, SocketFail, ConnectFail, SerializeOk,
                SerializeFail, SendFail, RecvEnter, RecvClosed, Receive, RecvEof, RecvError, Close,
                netVars, serverVars
  <2>5. ASSUME NEW t \in Threads,
             StartCancel(t) \/ \E m \in Methods, a \in ArgValues : BeginCall(t, m, a)
        PROVE  UNCHANGED <<peer, busy, up, down>>
    BY <2>5 DEF BeginCall, StartCancel, netVars, serverVars
  <2>6. ASSUME NEW d \in Calls, OnMessage(d)
        PROVE  peer' = peer /\ down' = down /\ busy'[c] = busy[c] /\ up'[c] = up[c]
    <3>1. c # d
      BY <1>1, <2>6 DEF OnMessage
    <3>2. /\ \E r : up' = [up EXCEPT ![d] = r]
          /\ busy' = busy \/ \E q : busy' = [busy EXCEPT ![d] = q]
      BY <2>6 DEF OnMessage
    <3> QED
      BY <1>0, <2>6, <3>1, <3>2 DEF OnMessage
  <2>7. ASSUME NEW d \in Calls, SendRpcResponse(d)
        PROVE  peer' = peer /\ up' = up /\ busy'[c] = busy[c] /\ down'[c] = down[c]
    <3>1. c # d
      BY <1>1, <2>7 DEF SendRpcResponse
    <3>2. \A e \in Calls : e # d => busy'[e] = busy[e] /\ down'[e] = down[e]
      BY <2>7, AnswerEffect
    <3> QED
      BY <2>7, <3>1, <3>2 DEF SendRpcResponse
  <2>8. ASSUME NEW d \in Calls, OnDisconnect(d)
        PROVE  peer'[c] = peer[c] /\ up' = up /\ busy' = busy /\ down' = down
    BY <1>0, <1>1, <2>8 DEF OnDisconnect, netVars
  <2>9. CASE Crash
    BY <1>0, <1>1, <2>9 DEF Crash
  <2>10. Restart \/ AllDone \/ UNCHANGED vars => UNCHANGED <<peer, busy, up, down>>
    BY DEF Restart, AllDone, vars, netVars, serverVars
  <2>11. UNCHANGED <<peer, busy, up, down>>
         => peer'[c] = "none" /\ busy'[c] = Rejected /\ up'[c] = <<>> /\ down'[c] = <<>>
    BY <1>1
  <2>12. ASSUME NEW t \in Threads, CallStep(t)
         PROVE  peer'[c] = "none" /\ busy'[c] = Rejected /\ up'[c] = <<>> /\ down'[c] = <<>>
    BY <1>1, <2>1, <2>2, <2>3, <2>4, <2>11, <2>12
  <2>13. ASSUME NEW d \in Calls, ServeStep(d) \/ OnDisconnect(d)
         PROVE  peer'[c] = "none" /\ busy'[c] = Rejected /\ up'[c] = <<>> /\ down'[c] = <<>>
    BY <1>1, <2>6, <2>7, <2>8, <2>13 DEF ServeStep
  <2> QED
    BY <2>5, <2>9, <2>10, <2>11, <2>12, <2>13 DEF Next
<1> QED
  BY <1>2, <1>3, <1>4 DEF Unmade

(* Every step keeps ConnectInv. *)
LEMMA ConnectStep == ASSUME ClientInv, AllTypes, ConnectInv, [Next]_vars PROVE ConnectInv'
<1> SUFFICES ASSUME NEW c \in Calls, At(c, Unconnected)' PROVE Unmade(c)'
  BY DEF ConnectInv
<1>0. ClientTypes
  BY DEF ClientInv
<1>1. Unmade(c)
  BY <1>0, AtKept DEF ConnectInv
<1>2. ASSUME NEW t \in Threads, Socket(t) PROVE Call(t) # c
  <2>1. pc'[t] = "dialing" /\ made' = made
    BY <1>0, <1>2 DEF Socket, Goto, ClientTypes
  <2>2. c = Call(t) => c[1] = t /\ c[2] = made[t] /\ made[t] \in Int
    BY <1>0, KrpcCallBounds DEF Call, ClientTypes
  <2> QED
    BY <2>1, <2>2 DEF At, Unconnected
<1> QED
  BY <1>1, <1>2, UnmadeKept

(* The descriptor of a channel changes only in newConnect. *)
LEMMA MyFdSteps ==
    ASSUME ClientInv, [Next]_vars, NEW u \in Threads
    PROVE  MyFd(u)' = MyFd(u) \/ Socket(u) \/ ConnectFail(u)
<1>0. channel \in [Threads -> Channels]
  BY DEF ClientInv, ClientTypes
<1>1. ASSUME NEW t \in Threads, NEW m \in Methods, NEW a \in ArgValues, BeginCall(t, m, a)
      PROVE  MyFd(u)' = MyFd(u)
  <2>1. channel' = channel \/ channel' = [channel EXCEPT ![t] = [@ EXCEPT !.name = m]]
    BY <1>1 DEF BeginCall
  <2>2. [channel EXCEPT ![t] = [@ EXCEPT !.name = m]][u].fd = channel[u].fd
    BY <1>0, FdUntouched
  <2>3. channel'[u].fd = channel[u].fd
    BY <2>1, <2>2
  <2> QED
    BY <2>3 DEF MyFd
<1>2. ASSUME NEW t \in Threads, QueryFound(t) \/ QueryMissing(t) \/ QueryInvalid(t)
      PROVE  MyFd(u)' = MyFd(u)
  <2>1. \/ channel' = channel
        \/ channel' = [channel EXCEPT ![t] = [@ EXCEPT !.idx = ColonAt]]
        \/ channel' = [channel EXCEPT ![t] = [@ EXCEPT !.idx = -1]]
    BY <1>2 DEF QueryFound, QueryMissing, QueryInvalid
  <2>2. /\ [channel EXCEPT ![t] = [@ EXCEPT !.idx = ColonAt]][u].fd = channel[u].fd
        /\ [channel EXCEPT ![t] = [@ EXCEPT !.idx = -1]][u].fd = channel[u].fd
    BY <1>0, FdUntouched
  <2>3. channel'[u].fd = channel[u].fd
    BY <2>1, <2>2
  <2> QED
    BY <2>3 DEF MyFd
<1>3. ASSUME NEW t \in Threads, Socket(t) \/ ConnectFail(t), u # t PROVE MyFd(u)' = MyFd(u)
  BY <1>0, <1>3 DEF Socket, ConnectFail, MyFd
<1>4. ASSUME NEW t \in Threads, CallStep(t)
      PROVE  \/ channel' = channel \/ QueryFound(t) \/ QueryMissing(t) \/ QueryInvalid(t) \/ Socket(t)
             \/ ConnectFail(t)
  BY <1>4 DEF CallStep, SocketFail, ConnectOk, SerializeOk, SerializeFail, SendOk, SendFail, RecvEnter,
              RecvClosed, Receive, RecvData, RecvTorn, RecvEof, RecvError, Close
<1>5. ASSUME NEW c \in Calls, ServeStep(c) \/ OnDisconnect(c) PROVE channel' = channel
  BY <1>5 DEF ServeStep, OnMessage, SendRpcResponse, OnDisconnect, clientVars
<1>6. (\E t \in Threads : StartCancel(t)) \/ Crash \/ Restart \/ AllDone \/ UNCHANGED vars
      => channel' = channel
  BY DEF StartCancel, Crash, Restart, AllDone, vars, clientVars
<1>7. channel' = channel => MyFd(u)' = MyFd(u)
  BY DEF MyFd
<1> QED
  BY <1>1, <1>2, <1>3, <1>4, <1>5, <1>6, <1>7 DEF Next

(* What it means that a thread is in a call in the next state. *)
LEMMA InCallSteps ==
    ASSUME ClientInv, [Next]_vars, NEW u \in Threads, InCall(u)'
    PROVE  \/ InCall(u) /\ Call(u)' = Call(u)
           \/ pc[u] = "connect" /\ Call(u)' = Call(u)
           \/ pc[u] = "idle" /\ made'[u] = made[u] + 1
  BY AllMove DEF ClientInv, Moves, InCall, Call

(* Every step keeps HoldInv. *)
LEMMA HoldStep ==
    ASSUME ClientInv, ClientInv', AllTypes, ConnectInv, HoldInv, [Next]_vars PROVE HoldInv'
<1> SUFFICES ASSUME NEW f \in Fds, NEW u \in Threads, fdtab'[f] = Call(u)', InCall(u)' PROVE MyFd(u)' = f
  BY DEF HoldInv
<1>0. /\ fdtab \in [Fds -> Calls \union {Nobody}] /\ ClientTypes /\ channel \in [Threads -> Channels]
      /\ made[u] \in Nat
  BY KrpcCallBounds DEF ClientInv, ClientTypes
<1>1. Call(u)' \in Calls /\ Call(u)' # Nobody
  <2>1. pc'[u] # "idle"
    BY DEF InCall
  <2>2. made'[u] \in 1..MaxCalls
    BY <2>1, KrpcCallBounds DEF ClientInv, ClientTypes, BeforeConnect, Before
  <2> QED
    BY <2>2 DEF Call, Calls
<1>2. ASSUME NEW t \in Threads, Socket(t) PROVE MyFd(u)' = f
  <2>1. PICK g \in Fds : /\ fdtab' = [fdtab EXCEPT ![g] = Call(t)]
                         /\ channel' = [channel EXCEPT ![t] = [@ EXCEPT !.fd = g]]
    BY <1>2 DEF Socket
  <2>2. made' = made /\ pc[t] = "connect" /\ pc' = [pc EXCEPT ![t] = "dialing"]
    BY <1>2 DEF Socket, Goto
  <2>3. CASE u = t
    <3>1. Call(u)' = Call(t) /\ At(Call(t), Unconnected) /\ Call(t) \in Calls
      BY <1>1, <2>2, <2>3 DEF Call, At, Unconnected
    <3>2. fdtab[f] # Call(t)
      BY <3>1 DEF ConnectInv, Unmade
    <3>3. f = g
      BY <1>0, <2>1, <3>1, <3>2
    <3>4. channel'[t].fd = g
      BY <1>0, <2>1, FdUntouched
    <3> QED
      BY <2>3, <3>3, <3>4 DEF MyFd
  <2>4. CASE u # t
    <3>1. Call(u)' = Call(u) /\ Call(u) # Call(t)
      BY <2>2, <2>4 DEF Call
    <3>2. fdtab[f] = Call(u)
      BY <1>0, <2>1, <3>1
    <3>3. InCall(u)
      BY <1>0, <2>2, <2>4 DEF InCall, ClientTypes
    <3>4. MyFd(u)' = MyFd(u)
      BY <1>0, <2>1, <2>4 DEF MyFd
    <3> QED
      BY <3>2, <3>3, <3>4 DEF HoldInv
  <2> QED
    BY <2>3, <2>4
<1>3. ASSUME \A t \in Threads : ~Socket(t) PROVE MyFd(u)' = f
  <2>1. fdtab[f] = Call(u)'
    BY <1>1, <1>3, FdSteps
  <2>2. MyFd(u)' = MyFd(u)
    <3>1. ~ConnectFail(u)
      BY <1>0 DEF ConnectFail, Return, Goto, ClientTypes, InCall
    <3> QED
      BY <1>3, <3>1, MyFdSteps
  <2>3. CASE InCall(u) /\ Call(u)' = Call(u)
    BY <2>1, <2>2, <2>3 DEF HoldInv
  <2>4. CASE pc[u] = "connect" /\ Call(u)' = Call(u)
    <3>1. At(Call(u), Unconnected) /\ Call(u) \in Calls
      BY <1>1, <2>4 DEF At, Call, Unconnected
    <3> QED
      BY <2>1, <2>4, <3>1 DEF ConnectInv, Unmade
  <2>5. CASE pc[u] = "idle" /\ made'[u] = made[u] + 1
    <3>1. PICK c \in Calls : c = Call(u)'
      BY <1>1
    <3>2. c[1] = u /\ c[2] = made[u] + 1
      BY <2>5, <3>1 DEF Call
    <3>3. At(c, Unconnected)
      BY <1>0, <3>2 DEF At
    <3> QED
      BY <2>1, <3>1, <3>3 DEF ConnectInv, Unmade
  <2> QED
    BY <2>3, <2>4, <2>5, InCallSteps
<1> QED
  BY <1>2, <1>3

(* Descriptor f is accounted for: its call is under way, or failed. *)
Accounted(c) == \/ \E t \in Threads : Call(t) = c /\ InCall(t)
                \/ result[c].returned /\ result[c].failed /\ result[c].response = NoResponse

(* Every step keeps OpenSocketsAccountedFor. *)
LEMMA AccountStep ==
    ASSUME ClientInv, ClientInv', AllTypes, ReturnInv, ConnectInv, HoldInv,
           OpenSocketsAccountedFor, [Next]_vars
    PROVE  OpenSocketsAccountedFor'
<1> SUFFICES ASSUME NEW f \in Fds, fdtab'[f] # Nobody PROVE Accounted(fdtab[f])'
  BY DEF OpenSocketsAccountedFor, Accounted
<1>0. /\ fdtab \in [Fds -> Calls \union {Nobody}] /\ fdtab' \in [Fds -> Calls \union {Nobody}]
      /\ ClientTypes
  BY DEF ClientInv, ClientTypes
<1>1. PICK c \in Calls : c = fdtab'[f]
  BY <1>0
<1> SUFFICES Accounted(c)'
  BY <1>1 DEF Accounted
<1>2. ASSUME NEW t \in Threads, Socket(t), c = Call(t) PROVE Accounted(c)'
  <2>1. made' = made /\ pc'[t] = "dialing"
    BY <1>0, <1>2 DEF Socket, Goto, ClientTypes
  <2>2. Call(t)' = c /\ InCall(t)'
    BY <1>2, <2>1 DEF Call, InCall
  <2> QED
    BY <2>2 DEF Accounted
<1>3. ASSUME \A t \in Threads : Socket(t) => c # Call(t) PROVE Accounted(c)'
  <2>1. fdtab[f] = c /\ c # Nobody
    <3>1. ASSUME NEW t \in Threads, Socket(t) PROVE fdtab[f] = c
      <4>1. PICK g \in Fds : fdtab' = [fdtab EXCEPT ![g] = Call(t)]
        BY <3>1 DEF Socket
      <4> QED
        BY <1>0, <1>1, <1>3, <3>1, <4>1
    <3>2. c # Nobody
      BY CallParts
    <3> QED
      BY <1>1, <3>1, <3>2, FdSteps
  <2>2. ~At(c, Unconnected)
    BY <2>1 DEF ConnectInv, Unmade
  <2>3. Accounted(c)
    BY <2>1 DEF OpenSocketsAccountedFor, Accounted
  <2>4. ASSUME NEW t \in Threads, Ends(t), c = Call(t) PROVE Accounted(c)'
    <3>1. c[1] = t /\ c[2] = made[t]
      BY <2>4 DEF Call
    <3>2. pc[t] # "connect"
      BY <2>2, <3>1 DEF At, Unconnected
    <3>3. ASSUME ConnectFail(t) \/ Close(t) PROVE FALSE
      <4>1. InCall(t)
        BY <3>3 DEF ConnectFail, Close, InCall
      <4>2. MyFd(t) = f
        BY <2>1, <2>4, <4>1 DEF HoldInv
      <4>3. fdtab' = [fdtab EXCEPT ![f] = Nobody]
        BY <3>3, <4>2 DEF ConnectFail, Close, CloseFd
      <4> QED
        BY <1>0, <4>3
    <3>4. result'[c].returned /\ result'[c].failed /\ result'[c].response = NoResponse
      BY <2>4, <3>2, <3>3 DEF Ends
    <3> QED
      BY <3>4 DEF Accounted
  <2>5. ASSUME result'[c] = result[c],
               \A t \in Threads : Call(t) = c /\ InCall(t) => pc'[t] # "idle"
        PROVE  Accounted(c)'
    <3>1. CASE result[c].returned /\ result[c].failed /\ result[c].response = NoResponse
      BY <2>5, <3>1 DEF Accounted
    <3>2. ASSUME NEW t \in Threads, Call(t) = c, InCall(t) PROVE Accounted(c)'
      <4>1. Moves(t) /\ pc'[t] # "idle"
        BY <1>0, <2>5, <3>2, AllMove
      <4>2. Call(t)' = c /\ InCall(t)'
        BY <3>2, <4>1 DEF Moves, InCall, Call
      <4> QED
        BY <4>2 DEF Accounted
    <3> QED
      BY <2>3, <3>1, <3>2 DEF Accounted
  <2>6. ASSUME NEW t \in Threads, Ends(t), c # Call(t) PROVE Accounted(c)'
    <3>1. \A u \in Threads : Call(u) = c /\ InCall(u) => pc'[u] # "idle"
      BY <2>6 DEF Ends, InCall
    <3> QED
      BY <2>5, <2>6, <3>1 DEF Ends
  <2>7. CASE result' = result /\ \A u \in Threads : pc'[u] = "idle" => pc[u] = "idle"
    BY <2>5, <2>7 DEF InCall
  <2> QED
    BY <2>4, <2>6, <2>7, EndsOnly
<1> QED
  BY <1>2, <1>3

(* Initially nothing was made, sent or run. *)
LEMMA CallInit == ASSUME Init PROVE CallInv
<1>1. ClientInv /\ AllTypes
  BY ClientInit, TypesInit
<1>2. /\ pc = [t \in Threads |-> "idle"] /\ result = [c \in Calls |-> Pending]
      /\ fdtab = [f \in Fds |-> Nobody] /\ sock = [t \in Threads |-> Nobody]
      /\ up = [c \in Calls |-> <<>>] /\ down = [c \in Calls |-> <<>>]
      /\ peer = [c \in Calls |-> "none"] /\ busy = [c \in Calls |-> Rejected]
      /\ execs = [c \in Calls |-> <<>>]
  BY DEF Init
<1>3. \A c \in Calls : ~result[c].returned
  BY <1>2 DEF Pending
<1>4. ReturnInv
  BY <1>2, <1>3 DEF ReturnInv, Pends
<1>5. \A c \in Calls : Len(up[c]) = 0 /\ Len(execs[c]) = 0 /\ execs[c] = <<>>
  BY <1>2
<1>6. SentInv /\ OnceInv /\ AtMostOnce
  BY <1>5 DEF SentInv, Unheard, OnceInv, AtMostOnce
<1>7. ConnectInv
  BY <1>2, CallParts DEF ConnectInv, Unmade
<1>8. HoldInv /\ OpenSocketsAccountedFor
  BY <1>2 DEF HoldInv, OpenSocketsAccountedFor, InCall
<1> QED
  BY <1>1, <1>4, <1>6, <1>7, <1>8 DEF CallInv

(* Every step keeps CallInv. *)
LEMMA CallStepKeeps == ASSUME CallInv, [Next]_vars PROVE CallInv'
<1>1. /\ ClientInv /\ AllTypes /\ ReturnInv /\ SentInv /\ ConnectInv /\ HoldInv /\ OnceInv
      /\ AtMostOnce /\ OpenSocketsAccountedFor
  BY DEF CallInv
<1>2. ClientInv'
  BY <1>1, TypesStep, BeforeConnectStep DEF ClientInv
<1>3. AllTypes'
  BY <1>1, DataStep, NetStep, ServeTypesStep DEF AllTypes
<1>4. ReturnInv' /\ SentInv' /\ ConnectInv'
  BY <1>1, ReturnStep, SentStep, ConnectStep
<1>5. OnceInv' /\ AtMostOnce'
  BY <1>1, OnceStep
<1>6. HoldInv' /\ OpenSocketsAccountedFor'
  BY <1>1, <1>2, HoldStep, AccountStep
<1> QED
  BY <1>2, <1>3, <1>4, <1>5, <1>6 DEF CallInv

(* The invariant of all calls, however they use their channels. *)
THEOREM CallInvariance == SafeSpec => []CallInv
<1>1. Init => CallInv
  BY CallInit
<1>2. CallInv /\ [Next]_vars => CallInv'
  BY CallStepKeeps
<1> QED
  BY <1>1, <1>2, PTL DEF SafeSpec

(* The provider runs no call twice: whatever TCP does to the frames, with  *)
(* any number of calls on one channel, crashes and failures.               *)
THEOREM RunsAtMostOnce == SafeSpec => []AtMostOnce
<1>1. CallInv => AtMostOnce
  BY DEF CallInv
<1> QED
  BY <1>1, CallInvariance, PTL

(* A descriptor outlives its call only when the call failed before it had  *)
(* a response; Close frees the connection of its own call even where       *)
(* m_clientfd is reused.                                                   *)
THEOREM SocketsAccounted == SafeSpec => []OpenSocketsAccountedFor
<1>1. CallInv => OpenSocketsAccountedFor
  BY DEF CallInv
<1> QED
  BY <1>1, CallInvariance, PTL

(* A call that returned without an error and without a response never      *)
(* reaches the provider, not even later.                                   *)
THEOREM SilentHasNoEffect == SafeSpec => []SilentFailureHasNoEffect
<1>1. CallInv => SilentFailureHasNoEffect
  <2> SUFFICES ASSUME AllTypes, SentInv, NEW c \in Calls, Silent(c)
               PROVE  execs[c] = <<>> /\ \A d \in Calls : \A i \in DOMAIN up[d] : up[d][i].call # c
    BY DEF CallInv, SilentFailureHasNoEffect, Silent
  <2>1. Unheard(c)
    BY DEF SentInv
  <2>2. \A d \in Calls : DOMAIN up[d] = 1..Len(up[d])
    BY DEF AllTypes, NetTypes, Streams
  <2> QED
    BY <2>1, <2>2 DEF Unheard
<1> QED
  BY <1>1, CallInvariance, PTL

-----------------------------------------------------------------------------
(* A step that keeps the descriptors, lets no thread into a call and lets  *)
(* a recv block only on what its descriptor stands for keeps OwnSocket.    *)
LEMMA OwnSocketKept ==
    ASSUME OwnSocket, UNCHANGED <<made, channel, fdtab>>,
           \A u \in Threads : InCall(u)' => InCall(u),
           \A u \in Threads : pc'[u] = "blocked" => \/ sock'[u] = sock[u] /\ pc[u] = "blocked"
                                                   \/ sock'[u] = OnSocket(u)
    PROVE  OwnSocket'
<1>1. \A u \in Threads : OnSocket(u)' = OnSocket(u) /\ Call(u)' = Call(u)
  BY DEF OnSocket, MyFd, Call
<1>2. \A u \in Threads : pc'[u] = "blocked" => InCall(u)'
  BY DEF InCall
<1> QED
  BY <1>1, <1>2 DEF OwnSocket

(* Every step keeps OwnSocket. *)
LEMMA OwnSocketStep == ASSUME MaxCalls = 1, ClientInv, OwnSocket, [Next]_vars PROVE OwnSocket'
<1> USE DEF ClientInv, ClientTypes
<1>1. ASSUME NEW t \in Threads, NEW m \in Methods, NEW a \in ArgValues, BeginCall(t, m, a)
      PROVE OwnSocket'
  <2>1. made[t] < 1 /\ made' = [made EXCEPT ![t] = made[t] + 1]
    BY <1>1 DEF BeginCall
  <2>2. made[t] = 0
    BY <2>1
  <2>3. MyFd(t) = Closed
    BY <2>2 DEF BeforeConnect, Before
  <2>4. /\ pc' = [pc EXCEPT ![t] = "lookup"]
        /\ channel' = [channel EXCEPT ![t] = [@ EXCEPT !.name = m]]
        /\ UNCHANGED <<fdtab, sock>>
    BY <1>1, <2>3 DEF BeginCall, Goto
  <2>5. \A u \in Threads : u # t => /\ pc'[u] = pc[u]
                                    /\ made'[u] = made[u]
                                    /\ channel'[u] = channel[u]
    BY <2>1, <2>4
  <2>6. pc'[t] = "lookup"
    BY <2>4
  <2> QED
    BY <2>4, <2>5, <2>6 DEF OwnSocket, InCall, OnSocket, MyFd, Call
<1>2. ASSUME NEW t \in Threads, QueryFound(t) \/ QueryMissing(t) \/ QueryInvalid(t)
      PROVE OwnSocket'
  <2>1. \A u \in Threads : u # t => pc'[u] = pc[u] /\ channel'[u] = channel[u]
    BY <1>2 DEF QueryFound, QueryMissing, QueryInvalid, Goto
  <2>2. pc'[t] \in {"connect", "thrown"} /\ UNCHANGED <<made, fdtab, sock>>
    BY <1>2 DEF QueryFound, QueryMissing, QueryInvalid, Goto
  <2> QED
    BY <2>1, <2>2 DEF OwnSocket, InCall, OnSocket, MyFd, Call
<1>3. ASSUME NEW t \in Threads, Socket(t) PROVE OwnSocket'
  <2>1. PICK f \in Fds : /\ fdtab[f] = Nobody
                         /\ fdtab' = [fdtab EXCEPT ![f] = Call(t)]
                         /\ channel' = [channel EXCEPT ![t] = [@ EXCEPT !.fd = f]]
    BY <1>3 DEF Socket, LowestFree
  <2>2. \A u \in Threads : u # t => pc'[u] = pc[u] /\ channel'[u] = channel[u]
    BY <1>3, <2>1 DEF Socket, Goto
  <2>3. pc'[t] = "dialing" /\ UNCHANGED <<made, sock>>
    BY <1>3 DEF Socket, Goto
  <2>4. OnSocket(t)' = Call(t)
    <3>1. channel'[t].fd = f
      BY <2>1, FdUntouched
    <3>2. fdtab'[f] = Call(t)
      BY <2>1
    <3> QED
      BY <3>1, <3>2 DEF OnSocket, MyFd
  <2>5. ASSUME NEW u \in Threads, u # t, InCall(u) PROVE OnSocket(u)' = Call(u)
    <3>1. OnSocket(u) = Call(u) /\ Call(u) # Nobody
      BY <2>5, CallNames DEF OwnSocket
    <3>2. channel[u].fd \in Fds /\ channel[u].fd # f
      BY <2>1, <3>1 DEF OnSocket, MyFd
    <3>3. fdtab'[channel[u].fd] = fdtab[channel[u].fd]
      BY <2>1, <3>2
    <3>4. channel'[u].fd = channel[u].fd
      BY <2>2, <2>5
    <3> QED
      BY <3>1, <3>2, <3>3, <3>4 DEF OnSocket, MyFd
  <2>6. \A u \in Threads : Call(u)' = Call(u)
    BY <2>3 DEF Call
  <2>7. \A u \in Threads : InCall(u)' => u = t \/ InCall(u)
    BY <2>2 DEF InCall
  <2> QED
    BY <2>2, <2>3, <2>4, <2>5, <2>6, <2>7 DEF OwnSocket
<1>4. ASSUME NEW t \in Threads,
             \/ SocketFail(t) \/ ConnectOk(t) \/ SerializeOk(t) \/ SerializeFail(t) \/ SendOk(t)
             \/ RecvClosed(t)
      PROVE OwnSocket'
  <2>1. made' = made /\ channel' = channel /\ fdtab' = fdtab /\ sock' = sock
    BY <1>4 DEF SocketFail, ConnectOk, SerializeOk, SerializeFail, SendOk, RecvClosed
  <2>2. \/ Goto(t, "idle")
        \/ Goto(t, "serialize") /\ pc[t] = "dialing"
        \/ Goto(t, "send") /\ pc[t] = "serialize"
        \/ Goto(t, "recv") /\ pc[t] = "send"
    BY <1>4 DEF SocketFail, ConnectOk, SerializeOk, SerializeFail, SendOk, RecvClosed, Return
  <2>3. \A u \in Threads : /\ InCall(u)' => InCall(u)
                           /\ pc'[u] = "blocked" => pc[u] = "blocked"
    BY <2>2 DEF Goto, InCall
  <2> QED
    BY <2>1, <2>3, OwnSocketKept
<1>5. ASSUME NEW t \in Threads, ConnectFail(t) \/ SendFail(t) \/ Close(t) PROVE OwnSocket'
  <2>1. InCall(t) /\ OnSocket(t) = Call(t)
    BY <1>5 DEF ConnectFail, SendFail, Close, OwnSocket, InCall
  <2>2. channel[t].fd \in Fds /\ fdtab[channel[t].fd] = Call(t)
    BY <2>1, CallNames DEF OnSocket, MyFd
  <2>3. fdtab' = [fdtab EXCEPT ![channel[t].fd] = Nobody]
    BY <1>5, <2>2 DEF ConnectFail, SendFail, Close, CloseFd, MyFd
  <2>4. /\ pc' = [pc EXCEPT ![t] = "idle"] /\ made' = made /\ sock' = sock
        /\ \A u \in Threads : u # t => channel'[u] = channel[u]
    BY <1>5 DEF ConnectFail, SendFail, Close, Return, Goto
  <2>5. \A u \in Threads : InCall(u)' => u # t /\ InCall(u)
    BY <2>4 DEF InCall
  <2>6. ASSUME NEW u \in Threads, u # t, InCall(u) PROVE OnSocket(u)' = Call(u)
    <3>1. OnSocket(u) = Call(u) /\ Call(u) # Nobody /\ Call(u) # Call(t)
      BY <2>6, CallNames DEF OwnSocket
    <3>2. channel[u].fd \in Fds /\ channel[u].fd # channel[t].fd
      BY <2>2, <3>1 DEF OnSocket, MyFd
    <3>3. fdtab'[channel[u].fd] = fdtab[channel[u].fd]
      BY <2>2, <2>3, <3>2
    <3> QED
      BY <2>4, <2>6, <3>1, <3>2, <3>3 DEF OnSocket, MyFd
  <2>7. \A u \in Threads : Call(u)' = Call(u)
    BY <2>4 DEF Call
  <2>8. \A u \in Threads : pc'[u] = "blocked" => pc[u] = "blocked"
    BY <2>4
  <2> QED
    BY <2>4, <2>5, <2>6, <2>7, <2>8 DEF OwnSocket
<1>6. ASSUME NEW t \in Threads, RecvEnter(t) PROVE OwnSocket'
  <2>1. /\ pc[t] = "recv" /\ pc' = [pc EXCEPT ![t] = "blocked"]
        /\ sock' = [sock EXCEPT ![t] = OnSocket(t)]
        /\ made' = made /\ channel' = channel /\ fdtab' = fdtab
    BY <1>6 DEF RecvEnter, Goto
  <2>2. \A u \in Threads : InCall(u)' => InCall(u)
    BY <2>1 DEF InCall
  <2>3. \A u \in Threads : pc'[u] = "blocked" => \/ sock'[u] = sock[u] /\ pc[u] = "blocked"
                                                \/ sock'[u] = OnSocket(u)
    BY <2>1
  <2> QED
    BY <2>1, <2>2, <2>3, OwnSocketKept
<1>7. ASSUME NEW t \in Threads, Receive(t) PROVE OwnSocket'
  <2>1. /\ pc[t] = "blocked"
        /\ Goto(t, "idle") \/ Goto(t, "close")
        /\ sock' = [sock EXCEPT ![t] = Nobody]
        /\ made' = made /\ channel' = channel /\ fdtab' = fdtab
    BY <1>7 DEF Receive, RecvData, RecvTorn, RecvEof, RecvError, Return
  <2>2. \A u \in Threads : /\ InCall(u)' => InCall(u)
                           /\ pc'[u] = "blocked" => u # t /\ pc[u] = "blocked"
    BY <2>1 DEF InCall, Goto
  <2>3. \A u \in Threads : u # t => sock'[u] = sock[u]
    BY <2>1
  <2> QED
    BY <2>1, <2>2, <2>3, OwnSocketKept
<1>8. CASE UNCHANGED <<pc, made, channel, fdtab, sock>>
  BY <1>8, OwnSocketKept DEF InCall
<1> QED
  BY <1>1, <1>2, <1>3, <1>4, <1>5, <1>6, <1>7, <1>8
     DEF Next, CallStep, StartCancel, ServeStep, OnMessage, SendRpcResponse, OnDisconnect,
         Crash, Restart, AllDone, vars, clientVars

-----------------------------------------------------------------------------
(* Bytes, requests and responses of call c for method m. *)
Of(x, c, m) == x.call = c /\ x.method = m
StreamOf(s, c, m) == \A i \in 1..Len(s) : Of(s[i], c, m)
ResponseOf(r, c, m) == r.kind \in {"partial", "full"} => Of(r.from, c, m)

(* What a program with one call per channel asked call c for. *)
AskedMethod(c) == current[c[1]].method
AskedArgs(c) == current[c[1]].args

(* Everything on connection c, and all that call c returns, is of call c. *)
OwnBytes(c) == /\ StreamOf(up[c], c, AskedMethod(c)) /\ StreamOf(down[c], c, AskedMethod(c))
               /\ busy[c] # Rejected => Of(busy[c], c, AskedMethod(c))
OwnAnswer(c) == /\ ResponseOf(current[c[1]].response, c, AskedMethod(c))
                /\ result[c].returned => /\ ResponseOf(result[c].response, c, AskedMethod(c))
                                         /\ result[c].method = AskedMethod(c)
                                         /\ result[c].args = AskedArgs(c)
NameInv == \A t \in Threads : made[t] # 0 => channel[t].name = current[t].method
OwnInv == OwnSocket /\ NameInv /\ \A c \in Calls : OwnBytes(c) /\ OwnAnswer(c)

(* Reading from the front of a stream leaves a part of it. *)
LEMMA TailOf == ASSUME NEW s \in Streams, NEW n \in 1..Len(s), NEW c, NEW m, StreamOf(s, c, m)
                PROVE  /\ StreamOf(SubSeq(s, n + 1, Len(s)), c, m)
                       /\ StreamOf(SubSeq(s, 1, n), c, m)
<1> DEFINE S == Cells
           r == SubSeq(s, n + 1, Len(s))
           h == SubSeq(s, 1, n)
<1>1. s \in Seq(S)
  BY DEF Streams
<1> HIDE DEF S
<1>2. /\ Len(s) \in Nat /\ Len(r) = Len(s) - n /\ \A i \in 1..(Len(s) - n) : r[i] = s[n + i]
      /\ Len(h) = n /\ \A i \in 1..n : h[i] = s[i]
  BY <1>1, Cut
<1> HIDE DEF r, h
<1>3. \A i \in 1..Len(r) : n + i \in 1..Len(s) /\ r[i] = s[n + i]
  BY <1>2
<1>4. \A i \in 1..Len(h) : i \in 1..Len(s) /\ h[i] = s[i]
  BY <1>2
<1>5. StreamOf(r, c, m) /\ StreamOf(h, c, m)
  BY <1>3, <1>4 DEF StreamOf
<1> QED
  BY <1>5 DEF r, h

(* Appending bytes of the same call. *)
LEMMA JoinOf == ASSUME NEW s \in Streams, NEW r \in Streams, NEW c, NEW m,
                       StreamOf(s, c, m), StreamOf(r, c, m)
                PROVE  StreamOf(s \o r, c, m)
<1> DEFINE S == Cells
           j == s \o r
<1>1. s \in Seq(S) /\ r \in Seq(S)
  BY DEF Streams
<1> HIDE DEF S
<1>2. /\ Len(s) \in Nat /\ Len(r) \in Nat /\ Len(j) = Len(s) + Len(r)
      /\ \A i \in 1..Len(s) : j[i] = s[i]
      /\ \A i \in (Len(s) + 1)..(Len(s) + Len(r)) : j[i] = r[i - Len(s)] /\ i - Len(s) \in 1..Len(r)
  BY <1>1, Joined
<1> HIDE DEF j
<1>3. ASSUME NEW i \in 1..Len(j) PROVE Of(j[i], c, m)
  <2>1. i \in 1..Len(s) \/ i \in (Len(s) + 1)..(Len(s) + Len(r))
    BY <1>2
  <2> QED
    BY <1>2, <2>1 DEF StreamOf
<1>4. StreamOf(j, c, m)
  BY <1>3 DEF StreamOf
<1> QED
  BY <1>4 DEF j

(* A response parsed from bytes of one call is of that call. *)
LEMMA ParseOf == ASSUME NEW s \in Streams, NEW c, NEW m, StreamOf(s, c, m)
                 PROVE  ResponseOf(ParseReply(s), c, m)
<1>1. CASE s = <<>>
  <2>1. ParseReply(s).kind = "default"
    BY <1>1, ParseFacts
  <2> QED
    BY <2>1 DEF ResponseOf
<1>2. CASE s # <<>>
  <2>1. PICK i \in 1..Len(s), k \in {"partial", "full"} : ParseReply(s) = [kind |-> k, from |-> s[i]]
    BY <1>2, ParseFacts
  <2>2. ParseReply(s).from = s[i]
    BY <2>1
  <2> QED
    BY <2>2 DEF ResponseOf, StreamOf
<1> QED
  BY <1>1, <1>2

(* A response nothing was parsed into is of any call. *)
LEMMA NoneOf == ASSUME NEW c, NEW m
                PROVE  ResponseOf(NoResponse, c, m) /\ ResponseOf([kind |-> "default"], c, m)
  BY DEF ResponseOf, NoResponse

(* What a call was asked, and the name its channel sends, change only      *)
(* where a call begins.                                                    *)
LEMMA AskedSteps ==
    ASSUME ClientInv, AllTypes, [Next]_vars, NEW t \in Threads
    PROVE  \/ \E m \in Methods, a \in ArgValues : BeginCall(t, m, a)
           \/ /\ made'[t] = made[t] /\ channel'[t].name = channel[t].name
              /\ current'[t].method = current[t].method /\ current'[t].args = current[t].args
<1>0. /\ channel \in [Threads -> Channels] /\ DataTypes /\ current \in [Threads -> CurrentSet]
      /\ made \in [Threads -> 0..MaxCalls] /\ NoResponse \in Responses
  BY DEF ClientInv, ClientTypes, AllTypes, DataTypes, Responses
<1> DEFINE Same == /\ made'[t] = made[t] /\ channel'[t].name = channel[t].name
                   /\ current'[t].method = current[t].method /\ current'[t].args = current[t].args
<1>1. ASSUME NEW u \in Threads, NEW m \in Methods, NEW a \in ArgValues, BeginCall(u, m, a), u # t
      PROVE  Same
  <2>1. /\ made' = [made EXCEPT ![u] = @ + 1] /\ current' = [current EXCEPT ![u] = NewCall(m, a)]
        /\ channel' = channel \/ channel' = [channel EXCEPT ![u] = [@ EXCEPT !.name = m]]
    BY <1>1 DEF BeginCall
  <2>2. made'[t] = made[t] /\ current'[t] = current[t] /\ channel'[t] = channel[t]
    BY <1>0, <1>1, <2>1
  <2> QED
    BY <2>2
<1>2. ASSUME NEW u \in Threads, QueryFound(u) \/ QueryMissing(u) \/ QueryInvalid(u) PROVE Same
  <2>1. /\ \/ channel' = channel
           \/ channel' = [channel EXCEPT ![u] = [@ EXCEPT !.idx = ColonAt]]
           \/ channel' = [channel EXCEPT ![u] = [@ EXCEPT !.idx = -1]]
        /\ \E h \in {Empty, "address", "blank"} :
              current' = [current EXCEPT ![u] = [@ EXCEPT !.host = h]]
        /\ made' = made
    BY <1>2 DEF QueryFound, QueryMissing, QueryInvalid
  <2>2. /\ [channel EXCEPT ![u] = [@ EXCEPT !.idx = ColonAt]][t].name = channel[t].name
        /\ [channel EXCEPT ![u] = [@ EXCEPT !.idx = -1]][t].name = channel[t].name
    BY <1>0, NameUntouched
  <2>3. channel'[t].name = channel[t].name
    BY <2>1, <2>2
  <2>4. current'[t].method = current[t].method /\ current'[t].args = current[t].args
    BY <1>0, <2>1, HostSet
  <2> QED
    BY <2>1, <2>3, <2>4
<1>3. ASSUME NEW u \in Threads, Socket(u) PROVE Same
  <2>1. PICK f \in Fds : channel' = [channel EXCEPT ![u] = [@ EXCEPT !.fd = f]]
    BY <1>3 DEF Socket
  <2>2. channel'[t].name = channel[t].name
    BY <1>0, <2>1, NameUntouched
  <2> QED
    BY <1>3, <2>2 DEF Socket
<1>15. ASSUME NEW u \in Threads, ConnectFail(u) PROVE Same
  <2>1. /\ channel' = [channel EXCEPT ![u] = [@ EXCEPT !.fd = Closed]]
        /\ pc[u] # "idle" /\ made' = made /\ Return(u, FALSE, NoResponse)
    BY <1>15 DEF ConnectFail
  <2>2. channel'[t].name = channel[t].name
    BY <1>0, <2>1, NameUntouched
  <2>3. current'[t].method = current[t].method /\ current'[t].args = current[t].args
    BY <1>0, <2>1, ReturnEffect
  <2> QED
    BY <2>1, <2>2, <2>3
<1>4. ASSUME NEW u \in Threads,
             SocketFail(u) \/ SerializeFail(u) \/ SendFail(u) \/ RecvClosed(u) \/ RecvError(u)
      PROVE  Same
  <2>1. /\ pc[u] # "idle" /\ made' = made /\ channel' = channel
        /\ \E b \in BOOLEAN : Return(u, b, NoResponse)
    BY <1>4 DEF SocketFail, SerializeFail, SendFail, RecvClosed, RecvError
  <2>2. current'[t].method = current[t].method /\ current'[t].args = current[t].args
    BY <1>0, <2>1, ReturnEffect
  <2> QED
    BY <2>1, <2>2
<1>5. ASSUME NEW u \in Threads, Close(u) PROVE Same
  <2>1. /\ pc[u] # "idle" /\ made' = made /\ channel' = channel
        /\ Return(u, current[u].failed, current[u].response)
    BY <1>5 DEF Close
  <2>2. current[u].failed \in BOOLEAN /\ current[u].response \in Responses
    BY <1>0 DEF CurrentSet
  <2>3. current'[t].method = current[t].method /\ current'[t].args = current[t].args
    BY <1>0, <2>1, <2>2, ReturnEffect
  <2> QED
    BY <2>1, <2>3
<1>6. ASSUME NEW u \in Threads, RecvData(u) PROVE Same
  <2>1. PICK s \in Calls : \E n \in 1..Len(down[s]) :
              /\ SubSeq(down[s], 1, n) \in Streams
              /\ current' = [current EXCEPT ![u] =
                    [@ EXCEPT !.response = ParseReply(SubSeq(down[s], 1, n))]]
    BY <1>6, RecvEffect
  <2>2. PICK r \in Streams : current' = [current EXCEPT ![u] = [@ EXCEPT !.response = ParseReply(r)]]
    BY <2>1
  <2>3. ParseReply(r) \in Responses
    BY ParseFacts
  <2>4. current'[t].method = current[t].method /\ current'[t].args = current[t].args
    BY <1>0, <2>2, <2>3, ResponseSet
  <2> QED
    BY <1>6, <2>4 DEF RecvData
<1>7. ASSUME NEW u \in Threads, RecvEof(u) PROVE Same
  <2>1. <<>> \in Streams
    BY DEF Streams
  <2>2. ParseReply(<<>>) \in Responses
    BY <2>1, ParseFacts
  <2>3. current' = [current EXCEPT ![u] = [@ EXCEPT !.response = ParseReply(<<>>)]]
    BY <1>7 DEF RecvEof
  <2>4. current'[t].method = current[t].method /\ current'[t].args = current[t].args
    BY <1>0, <2>2, <2>3, ResponseSet
  <2> QED
    BY <1>7, <2>4 DEF RecvEof
<1>8. ASSUME NEW u \in Threads, RecvTorn(u) PROVE Same
  <2>1. current'[t].method = current[t].method /\ current'[t].args = current[t].args
    BY <1>0, <1>8, FailedSet DEF RecvTorn
  <2> QED
    BY <1>8, <2>1 DEF RecvTorn
<1>9. ASSUME NEW u \in Threads, StartCancel(u) PROVE Same
  <2>1. current'[t].method = current[t].method /\ current'[t].args = current[t].args
    BY <1>0, <1>9, CanceledSet DEF StartCancel
  <2> QED
    BY <1>9, <2>1 DEF StartCancel
<1>10. UNCHANGED <<made, channel, current>> => Same
  OBVIOUS
<1> HIDE DEF Same
<1>11. ASSUME NEW u \in Threads, CallStep(u) PROVE Same
  <2>1. ConnectOk(u) \/ SerializeOk(u) \/ SendOk(u) \/ RecvEnter(u) => UNCHANGED <<made, channel, current>>
    BY DEF ConnectOk, SerializeOk, SendOk, RecvEnter
  <2> QED
    BY <1>2, <1>3, <1>4, <1>5, <1>6, <1>7, <1>8, <1>10, <1>11, <1>15, <2>1 DEF CallStep, Receive
<1>12. ASSUME NEW c \in Calls, ServeStep(c) \/ OnDisconnect(c) PROVE UNCHANGED <<made, channel, current>>
  BY <1>12 DEF ServeStep, OnMessage, SendRpcResponse, OnDisconnect, clientVars
<1>13. Crash \/ Restart \/ AllDone \/ UNCHANGED vars => UNCHANGED <<made, channel, current>>
  BY DEF Crash, Restart, AllDone, vars, clientVars
<1>14. (\E m \in Methods, a \in ArgValues : BeginCall(t, m, a)) \/ Same
  BY <1>1, <1>9, <1>10, <1>11, <1>12, <1>13 DEF Next
<1> QED
  BY <1>14 DEF Same

(* What a step does to the bytes on their way to the client on c. *)
LEMMA DownSteps ==
    ASSUME ClientInv, AllTypes, [Next]_vars, NEW c \in Calls
    PROVE  \/ down'[c] \in {down[c], <<>>}
           \/ \E n \in 1..Len(down[c]) : down'[c] = SubSeq(down[c], n + 1, Len(down[c]))
           \/ /\ busy[c] \in Requests
              /\ down'[c] = down[c] \o Reply(busy[c].call, busy[c].method, busy[c].args)
<1> DEFINE P == \/ down'[c] \in {down[c], <<>>}
                \/ \E n \in 1..Len(down[c]) : down'[c] = SubSeq(down[c], n + 1, Len(down[c]))
                \/ /\ busy[c] \in Requests
                   /\ down'[c] = down[c] \o Reply(busy[c].call, busy[c].method, busy[c].args)
<1>1. ASSUME NEW t \in Threads, RecvData(t) PROVE P
  <2>1. PICK s \in Calls : \E n \in 1..Len(down[s]) :
              /\ down'[s] = SubSeq(down[s], n + 1, Len(down[s]))
              /\ \A d \in Calls : d # s => down'[d] = down[d]
    BY <1>1, RecvEffect
  <2>2. CASE s = c
    BY <2>1, <2>2
  <2>3. CASE s # c
    BY <2>1, <2>3
  <2> QED
    BY <2>2, <2>3
<1>2. ASSUME NEW t \in Threads, RecvTorn(t) PROVE P
  <2>1. down' = [down EXCEPT ![sock[t]] = <<>>] /\ down \in [Calls -> Streams]
    BY <1>2 DEF RecvTorn, AllTypes, NetTypes
  <2>2. down'[c] \in {down[c], <<>>}
    BY <2>1
  <2> QED
    BY <2>2
<1>3. ASSUME NEW d \in Calls, SendRpcResponse(d) PROVE P
  <2>1. /\ busy[d] \in Requests
        /\ \/ down' = down
           \/ /\ down'[d] = down[d] \o Reply(busy[d].call, busy[d].method, busy[d].args)
              /\ \A e \in Calls : e # d => down'[e] = down[e]
    BY <1>3, AnswerEffect
  <2>2. CASE c = d
    BY <2>1, <2>2
  <2>3. CASE c # d
    BY <2>1, <2>3
  <2> QED
    BY <2>2, <2>3
<1>4. down' = down => P
  OBVIOUS
<1> HIDE DEF P
<1>5. ASSUME NEW t \in Threads, CallStep(t) PROVE RecvData(t) \/ RecvTorn(t) \/ down' = down
  BY <1>5 DEF CallStep, QueryFound, QueryMissing, QueryInvalid, Socket, SocketFail, ConnectOk, ConnectFail, SerializeOk,
              SerializeFail, SendOk, SendFail, RecvEnter, RecvClosed, Receive, RecvEof, RecvError,
              Close, netVars
<1>6. ASSUME NEW t \in Threads,
             StartCancel(t) \/ \E m \in Methods, a \in ArgValues : BeginCall(t, m, a)
      PROVE  down' = down
  BY <1>6 DEF BeginCall, StartCancel, netVars
<1>7. ASSUME NEW d \in Calls, OnMessage(d) \/ OnDisconnect(d) PROVE down' = down
  BY <1>7 DEF OnMessage, OnDisconnect, netVars
<1>8. Crash \/ Restart \/ AllDone \/ UNCHANGED vars => down' = down
  BY DEF Crash, Restart, AllDone, vars, netVars
<1>9. P
  BY <1>1, <1>2, <1>3, <1>4, <1>5, <1>6, <1>7, <1>8 DEF Next, ServeStep
<1> QED
  BY <1>9 DEF P

(* What a step does to the request the provider works on. *)
LEMMA BusySteps ==
    ASSUME ClientInv, AllTypes, [Next]_vars, NEW c \in Calls
    PROVE  \/ busy'[c] \in {busy[c], Rejected}
           \/ \E n \in 1..Len(up[c]) :
                 LET q == Decode(SubSeq(up[c], 1, n))
                 IN  /\ ~Fragmented => n = Len(up[c])
                     /\ busy'[c] = q /\ up[c][1].part = "len"
                     /\ q \in Requests /\ q.call = up[c][1].call /\ q.method = up[c][1].method
                     /\ execs' = [execs EXCEPT ![q.call] =
                                    Append(@, [method |-> q.method, args |-> q.args])]
<1>0. busy \in [Calls -> {Rejected} \union Requests]
  BY DEF AllTypes, ServeTypes
<1> DEFINE P == \/ busy'[c] \in {busy[c], Rejected}
                \/ \E n \in 1..Len(up[c]) :
                     LET q == Decode(SubSeq(up[c], 1, n))
                     IN  /\ ~Fragmented => n = Len(up[c])
                         /\ busy'[c] = q /\ up[c][1].part = "len"
                         /\ q \in Requests /\ q.call = up[c][1].call /\ q.method = up[c][1].method
                         /\ execs' = [execs EXCEPT ![q.call] =
                                        Append(@, [method |-> q.method, args |-> q.args])]
<1>1. ASSUME NEW d \in Calls, OnMessage(d) PROVE P
  <2>1. PICK n \in 1..Len(up[d]) :
              /\ ~Fragmented => n = Len(up[d])
              /\ \/ busy' = busy
                 \/ LET q == Decode(SubSeq(up[d], 1, n))
                    IN  /\ q \in Requests /\ up[d][1].part = "len"
                        /\ q.call = up[d][1].call /\ q.method = up[d][1].method
                        /\ busy' = [busy EXCEPT ![d] = q]
                        /\ execs' = [execs EXCEPT ![q.call] =
                                       Append(@, [method |-> q.method, args |-> q.args])]
    BY <1>1, DeliverEffect
  <2>2. CASE busy'[c] = busy[c]
    BY <2>2
  <2>3. CASE busy'[c] # busy[c]
    <3> DEFINE q == Decode(SubSeq(up[d], 1, n))
    <3>1. busy' = [busy EXCEPT ![d] = q]
      BY <2>1, <2>3
    <3>2. c = d /\ busy'[c] = q
      <4> HIDE DEF q
      <4> QED
        BY <1>0, <2>3, <3>1
    <3> QED
      BY <2>1, <2>3, <3>2
  <2> QED
    BY <2>2, <2>3
<1>2. ASSUME NEW d \in Calls, SendRpcResponse(d) PROVE busy'[c] \in {busy[c], Rejected}
  BY <1>2, AnswerEffect
<1>3. Crash => busy'[c] = Rejected
  BY DEF Crash
<1>4. ASSUME NEW t \in Threads, CallStep(t) PROVE busy' = busy
  BY <1>4 DEF CallStep, QueryFound, QueryMissing, QueryInvalid, Socket, SocketFail, ConnectOk, ConnectFail, SerializeOk,
              SerializeFail, SendOk, SendFail, RecvEnter, RecvClosed, Receive, RecvData, RecvTorn,
              RecvEof, RecvError, Close, serverVars
<1>5. ASSUME NEW t \in Threads,
             StartCancel(t) \/ \E m \in Methods, a \in ArgValues : BeginCall(t, m, a)
      PROVE  busy' = busy
  BY <1>5 DEF BeginCall, StartCancel, serverVars
<1>6. (\E d \in Calls : OnDisconnect(d)) \/ Restart \/ AllDone \/ UNCHANGED vars => busy' = busy
  BY DEF OnDisconnect, Restart, AllDone, vars, serverVars
<1>7. busy'[c] \in {busy[c], Rejected} => P
  OBVIOUS
<1>8. busy' = busy => busy'[c] \in {busy[c], Rejected}
  OBVIOUS
<1> HIDE DEF P
<1>9. P
  BY <1>1, <1>2, <1>3, <1>4, <1>5, <1>6, <1>7, <1>8 DEF Next, ServeStep
<1> QED
  BY <1>9 DEF P

(* What a step does to the response of a call. *)
LEMMA ResponseSteps ==
    ASSUME ClientInv, AllTypes, [Next]_vars, NEW t \in Threads
    PROVE  \/ current'[t].response \in {current[t].response, NoResponse, [kind |-> "default"]}
           \/ \E s \in Calls : \E n \in 1..Len(down[s]) :
                 /\ pc[t] = "blocked" /\ s = sock[t] /\ SubSeq(down[s], 1, n) \in Streams
                 /\ current'[t].response = ParseReply(SubSeq(down[s], 1, n))
<1>0. /\ DataTypes /\ current \in [Threads -> CurrentSet] /\ NoResponse \in Responses
  BY DEF AllTypes, DataTypes, Responses
<1> DEFINE Old == current'[t].response \in {current[t].response, NoResponse, [kind |-> "default"]}
           New == \E s \in Calls : \E n \in 1..Len(down[s]) :
                    /\ pc[t] = "blocked" /\ s = sock[t] /\ SubSeq(down[s], 1, n) \in Streams
                    /\ current'[t].response = ParseReply(SubSeq(down[s], 1, n))
<1>1. ASSUME NEW u \in Threads, NEW m \in Methods, NEW a \in ArgValues, BeginCall(u, m, a) PROVE Old
  <2>1. current' = [current EXCEPT ![u] = NewCall(m, a)] /\ NewCall(m, a).response = NoResponse
    BY <1>1 DEF BeginCall, NewCall
  <2>2. current'[t].response \in {current[t].response, NoResponse}
    BY <1>0, <2>1
  <2> QED
    BY <2>2
<1>2. ASSUME NEW u \in Threads, QueryFound(u) \/ QueryMissing(u) \/ QueryInvalid(u) PROVE Old
  <2>1. \E h \in {Empty, "address", "blank"} :
              current' = [current EXCEPT ![u] = [@ EXCEPT !.host = h]]
    BY <1>2 DEF QueryFound, QueryMissing, QueryInvalid
  <2>2. current'[t].response = current[t].response
    BY <1>0, <2>1, HostSet
  <2> QED
    BY <2>2
<1>3. ASSUME NEW u \in Threads, NEW b \in BOOLEAN, NEW r \in Responses, Return(u, b, r)
      PROVE  current'[t].response = IF u = t THEN r ELSE current[t].response
  <2> DEFINE k == [current[u] EXCEPT !.failed = b, !.response = r]
  <2>1. k.response = r
    BY <1>0 DEF CurrentSet
  <2>2. current' = [current EXCEPT ![u] = k]
    BY <1>3 DEF Return
  <2> HIDE DEF k
  <2> QED
    BY <1>0, <2>1, <2>2
<1>4. ASSUME NEW u \in Threads,
             \/ SocketFail(u) \/ ConnectFail(u) \/ SerializeFail(u) \/ SendFail(u) \/ RecvClosed(u)
             \/ RecvError(u)
      PROVE  Old
  <2>1. \E b \in BOOLEAN : Return(u, b, NoResponse)
    BY <1>4 DEF SocketFail, ConnectFail, SerializeFail, SendFail, RecvClosed, RecvError
  <2>2. current'[t].response \in {current[t].response, NoResponse}
    BY <1>0, <1>3, <2>1
  <2> QED
    BY <2>2
<1>5. ASSUME NEW u \in Threads, Close(u) PROVE Old
  <2>1. Return(u, current[u].failed, current[u].response)
    BY <1>5 DEF Close
  <2>2. current[u].failed \in BOOLEAN /\ current[u].response \in Responses
    BY <1>0 DEF CurrentSet
  <2>3. current'[t].response = current[t].response
    BY <1>3, <2>1, <2>2
  <2> QED
    BY <2>3
<1>6. ASSUME NEW u \in Threads, RecvData(u) PROVE Old \/ New
  <2>1. PICK s \in Calls : \E n \in 1..Len(down[s]) :
              /\ s = sock[u] /\ SubSeq(down[s], 1, n) \in Streams
              /\ current' = [current EXCEPT ![u] =
                    [@ EXCEPT !.response = ParseReply(SubSeq(down[s], 1, n))]]
    BY <1>6, RecvEffect
  <2>2. PICK n \in 1..Len(down[s]) :
              /\ s = sock[u] /\ SubSeq(down[s], 1, n) \in Streams
              /\ current' = [current EXCEPT ![u] =
                    [@ EXCEPT !.response = ParseReply(SubSeq(down[s], 1, n))]]
    BY <2>1
  <2>3. ParseReply(SubSeq(down[s], 1, n)) \in Responses
    BY <2>2, ParseFacts
  <2>4. /\ current'[u].response = ParseReply(SubSeq(down[s], 1, n))
        /\ u # t => current'[t] = current[t]
    BY <1>0, <2>2, <2>3, ResponseSet
  <2>5. CASE u = t
    BY <1>6, <2>2, <2>4, <2>5 DEF RecvData
  <2>6. CASE u # t
    BY <2>4, <2>6
  <2> QED
    BY <2>5, <2>6
<1>7. ASSUME NEW u \in Threads, RecvEof(u) PROVE Old
  <2>1. <<>> \in Streams
    BY DEF Streams
  <2>2. ParseReply(<<>>) \in Responses /\ ParseReply(<<>>) = [kind |-> "default"]
    BY <2>1, ParseFacts
  <2>3. current' = [current EXCEPT ![u] = [@ EXCEPT !.response = ParseReply(<<>>)]]
    BY <1>7 DEF RecvEof
  <2>4. current'[u].response = ParseReply(<<>>) /\ (u # t => current'[t] = current[t])
    BY <1>0, <2>2, <2>3, ResponseSet
  <2> QED
    BY <2>2, <2>4
<1>8. ASSUME NEW u \in Threads, RecvTorn(u) PROVE Old
  <2>1. current'[t].response = current[t].response
    BY <1>0, <1>8, FailedSet DEF RecvTorn
  <2> QED
    BY <2>1
<1>9. ASSUME NEW u \in Threads, StartCancel(u) PROVE Old
  <2>1. current'[t].response = current[t].response
    BY <1>0, <1>9, CanceledSet DEF StartCancel
  <2> QED
    BY <2>1
<1>10. current' = current => Old
  OBVIOUS
<1> HIDE DEF Old, New
<1>11. ASSUME NEW u \in Threads, CallStep(u) PROVE Old \/ New
  <2>1. Socket(u) \/ ConnectOk(u) \/ SerializeOk(u) \/ SendOk(u) \/ RecvEnter(u) => current' = current
    BY DEF Socket, ConnectOk, SerializeOk, SendOk, RecvEnter
  <2> QED
    BY <1>2, <1>4, <1>5, <1>6, <1>7, <1>8, <1>10, <1>11, <2>1 DEF CallStep, Receive
<1>12. ASSUME NEW c \in Calls, ServeStep(c) \/ OnDisconnect(c) PROVE current' = current
  BY <1>12 DEF ServeStep, OnMessage, SendRpcResponse, OnDisconnect, clientVars
<1>13. Crash \/ Restart \/ AllDone \/ UNCHANGED vars => current' = current
  BY DEF Crash, Restart, AllDone, vars, clientVars
<1>14. Old \/ New
  BY <1>1, <1>9, <1>10, <1>11, <1>12, <1>13 DEF Next
<1> QED
  BY <1>14 DEF Old, New

(* A decoded request is not a rejected one. *)
LEMMA RequestAccepted == ASSUME NEW q \in Requests PROVE q # Rejected
<1>1. q.ok /\ ~Rejected.ok
  BY DEF Requests, Rejected
<1> QED
  BY <1>1

(* With one call per channel, a call begins on an unused channel: there is *)
(* nothing of it anywhere.                                                 *)
LEMMA FirstCall ==
    ASSUME MaxCalls = 1, CallInv, NEW c \in Calls, NEW m \in Methods, NEW a \in ArgValues,
           BeginCall(c[1], m, a)
    PROVE  /\ Unmade(c) /\ Unheard(c) /\ ~result[c].returned /\ UNCHANGED <<up, down, busy, execs, result>>
           /\ channel'[c[1]].name = m /\ current'[c[1]] = NewCall(m, a)
<1>0. ClientInv /\ AllTypes /\ ClientTypes /\ c[1] \in Threads /\ c[2] = 1
  BY CallParts DEF CallInv, ClientInv
<1>1. made[c[1]] = 0
  BY <1>0 DEF BeginCall, ClientTypes
<1>2. At(c, Unconnected) /\ At(c, Unsent) /\ At(c, Unreturned)
  BY <1>0, <1>1 DEF At
<1>3. Unmade(c) /\ Unheard(c) /\ ~result[c].returned
  BY <1>2 DEF CallInv, ConnectInv, SentInv, ReturnInv, Pends
<1>4. MyFd(c[1]) = Closed
  BY <1>0, <1>1 DEF ClientInv, BeforeConnect, Before
<1>5. channel' = [channel EXCEPT ![c[1]] = [@ EXCEPT !.name = m]]
  BY <1>4 DEF BeginCall
<1>6. channel'[c[1]].name = m
  BY <1>0, <1>5, NameUntouched DEF ClientTypes
<1>7. current'[c[1]] = NewCall(m, a)
  <2>1. current' = [current EXCEPT ![c[1]] = NewCall(m, a)] /\ current \in [Threads -> CurrentSet]
    BY <1>0 DEF BeginCall, AllTypes, DataTypes
  <2> QED
    BY <1>0, <2>1
<1>8. UNCHANGED <<up, down, busy, execs, result>>
  BY DEF BeginCall, netVars, serverVars
<1> QED
  BY <1>3, <1>6, <1>7, <1>8

(* Every step keeps the bytes on a connection its own. *)
LEMMA OwnBytesStep ==
    ASSUME MaxCalls = 1, CallInv, OwnInv, [Next]_vars, NEW c \in Calls
    PROVE  OwnBytes(c)'
<1>0. ClientInv /\ AllTypes /\ ClientTypes /\ c[1] \in Threads /\ OwnBytes(c)
  BY CallParts DEF CallInv, ClientInv, OwnInv
<1>1. ASSUME NEW m \in Methods, NEW a \in ArgValues, BeginCall(c[1], m, a) PROVE OwnBytes(c)'
  <2>1. up'[c] = <<>> /\ down'[c] = <<>> /\ busy'[c] = Rejected
    BY <1>1, FirstCall DEF Unmade
  <2>2. Len(up'[c]) = 0 /\ Len(down'[c]) = 0
    BY <2>1
  <2> QED
    BY <2>1, <2>2 DEF OwnBytes, StreamOf
<1>2. ASSUME AskedMethod(c)' = AskedMethod(c) PROVE OwnBytes(c)'
  <2>1. PICK m \in Names : m = AskedMethod(c)
    BY <1>0 DEF AllTypes, DataTypes, CurrentSet, AskedMethod
  <2>2. /\ StreamOf(up[c], c, m) /\ StreamOf(down[c], c, m)
        /\ busy[c] # Rejected => Of(busy[c], c, m)
        /\ up[c] \in Streams /\ down[c] \in Streams
    BY <1>0, <2>1 DEF OwnBytes, AllTypes, NetTypes
  <2>3. StreamOf(up'[c], c, m)
    <3>1. CASE Shrinks
      BY <2>2, <3>1 DEF Shrinks, StreamOf
    <3>2. ASSUME NEW t \in Threads, SendOk(t) PROVE StreamOf(up'[c], c, m)
      <4>1. PICK s \in Calls :
              /\ s = OnSocket(t)
              /\ \A d \in Calls : d # s => up'[d] = up[d]
              /\ Len(up[s]) \in Nat
              /\ \A i \in 1..Len(up[s]) : up'[s][i] = up[s][i]
              /\ \A i \in 1..Len(up'[s]) :
                    /\ i \in Int
                    /\ i > Len(up[s]) => up'[s][i].call = Call(t) /\ up'[s][i].method = channel[t].name
        BY <1>0, <3>2, SendAdds
      <4>2. s = Call(t) /\ made[t] # 0
        BY <1>0, <3>2, <4>1 DEF SendOk, InCall, OwnInv, OwnSocket, ClientInv, BeforeConnect, Before
      <4>3. CASE c # s
        BY <2>2, <4>1, <4>3
      <4>4. CASE c = s
        <5>1. c = Call(t) /\ t = c[1]
          BY <4>2, <4>4 DEF Call
        <5>2. channel[t].name = m
          BY <2>1, <4>2, <5>1 DEF OwnInv, NameInv, AskedMethod
        <5>3. ASSUME NEW i \in 1..Len(up'[c]) PROVE Of(up'[c][i], c, m)
          <6>1. i \in 1..Len(up[c]) \/ i > Len(up[c])
            BY <4>1, <4>4
          <6> QED
            BY <2>2, <4>1, <4>4, <5>1, <5>2, <6>1 DEF StreamOf, Of
        <5> QED
          BY <5>3 DEF StreamOf
      <4> QED
        BY <4>3, <4>4
    <3> QED
      BY <1>0, <3>1, <3>2, SendOrShrink
  <2>4. StreamOf(down'[c], c, m)
    <3>1. CASE down'[c] = down[c]
      BY <2>2, <3>1
    <3>2. CASE down'[c] = <<>>
      <4>1. Len(down'[c]) = 0
        BY <3>2
      <4> QED
        BY <4>1 DEF StreamOf
    <3>3. ASSUME NEW n \in 1..Len(down[c]), down'[c] = SubSeq(down[c], n + 1, Len(down[c]))
          PROVE  StreamOf(down'[c], c, m)
      BY <2>2, <3>3, TailOf
    <3>4. ASSUME busy[c] \in Requests,
                 down'[c] = down[c] \o Reply(busy[c].call, busy[c].method, busy[c].args)
          PROVE  StreamOf(down'[c], c, m)
      <4> DEFINE R == Reply(busy[c].call, busy[c].method, busy[c].args)
      <4>1. busy[c] # Rejected /\ busy[c].call \in Calls /\ busy[c].method \in Methods /\ busy[c].args \in Arguments
        BY <3>4, RequestAccepted DEF Requests
      <4>2. busy[c].call = c /\ busy[c].method = m
        BY <2>2, <4>1 DEF Of
      <4>3. R \in Streams /\ Len(R) = 2 /\ \A i \in 1..2 : R[i].call = c /\ R[i].method = m
        BY <4>1, <4>2, ReplyFacts
      <4> HIDE DEF R
      <4>4. StreamOf(R, c, m)
        BY <4>3 DEF StreamOf, Of
      <4> QED
        BY <2>2, <3>4, <4>3, <4>4, JoinOf DEF R
    <3> QED
      BY <1>0, <3>1, <3>2, <3>3, <3>4, DownSteps
  <2>5. busy'[c] # Rejected => Of(busy'[c], c, m)
    <3>1. CASE busy'[c] \in {busy[c], Rejected}
      BY <2>2, <3>1
    <3>2. ASSUME NEW n \in 1..Len(up[c]), busy'[c].call = up[c][1].call, busy'[c].method = up[c][1].method
          PROVE  Of(busy'[c], c, m)
      <4>1. 1 \in 1..Len(up[c])
        BY <2>2 DEF Streams
      <4> QED
        BY <2>2, <3>2, <4>1 DEF StreamOf, Of
    <3> QED
      BY <1>0, <3>1, <3>2, BusySteps
  <2> QED
    BY <1>2, <2>1, <2>3, <2>4, <2>5 DEF OwnBytes
<1> QED
  BY <1>0, <1>1, <1>2, AskedSteps DEF AskedMethod

(* Every step keeps the answers of a call its own. *)
LEMMA OwnAnswerStep ==
    ASSUME MaxCalls = 1, CallInv, OwnInv, [Next]_vars, NEW c \in Calls
    PROVE  OwnAnswer(c)'
<1>0. ClientInv /\ AllTypes /\ ClientTypes /\ c[1] \in Threads /\ OwnAnswer(c)
  BY CallParts DEF CallInv, ClientInv, OwnInv
<1>1. ASSUME NEW m \in Methods, NEW a \in ArgValues, BeginCall(c[1], m, a) PROVE OwnAnswer(c)'
  <2>0. ~result[c].returned /\ result' = result /\ current'[c[1]] = NewCall(m, a)
    BY <1>1, FirstCall
  <2>1. ~result'[c].returned /\ current'[c[1]].response = NoResponse
    BY <2>0 DEF NewCall
  <2> QED
    BY <2>1, NoneOf DEF OwnAnswer
<1>2. ASSUME AskedMethod(c)' = AskedMethod(c), AskedArgs(c)' = AskedArgs(c) PROVE OwnAnswer(c)'
  <2>1. PICK m \in Names : m = AskedMethod(c)
    BY <1>0 DEF AllTypes, DataTypes, CurrentSet, AskedMethod
  <2>2. /\ ResponseOf(current[c[1]].response, c, m)
        /\ result[c].returned => /\ ResponseOf(result[c].response, c, m)
                                 /\ result[c].method = m /\ result[c].args = AskedArgs(c)
    BY <1>0, <2>1 DEF OwnAnswer
  <2>3. ResponseOf(current'[c[1]].response, c, m)
    <3>1. CASE current'[c[1]].response \in {current[c[1]].response, NoResponse, [kind |-> "default"]}
      BY <2>2, <3>1, NoneOf
    <3>2. ASSUME NEW s \in Calls, NEW n \in 1..Len(down[s]), pc[c[1]] = "blocked", s = sock[c[1]],
                 SubSeq(down[s], 1, n) \in Streams,
                 current'[c[1]].response = ParseReply(SubSeq(down[s], 1, n))
          PROVE  ResponseOf(current'[c[1]].response, c, m)
      <4>1. s = Call(c[1]) /\ s \in Calls
        BY <1>0, <3>2 DEF OwnInv, OwnSocket
      <4>2. s = c
        <5>1. s[1] = c[1] /\ s[2] = 1 /\ c[2] = 1
          BY <4>1, CallParts DEF Call
        <5> QED
          BY <5>1, CallParts
      <4>3. StreamOf(down[c], c, m) /\ down[c] \in Streams
        BY <1>0, <2>1 DEF OwnInv, OwnBytes, AllTypes, NetTypes
      <4>4. StreamOf(SubSeq(down[c], 1, n), c, m)
        BY <3>2, <4>2, <4>3, TailOf
      <4> QED
        BY <3>2, <4>2, <4>4, ParseOf
    <3> QED
      BY <1>0, <3>1, <3>2, ResponseSteps
  <2>4. result'[c].returned => /\ ResponseOf(result'[c].response, c, m)
                               /\ result'[c].method = m /\ result'[c].args = AskedArgs(c)
    <3>1. CASE result'[c] = result[c]
      BY <2>2, <3>1
    <3>2. ASSUME NEW t \in Threads, Ends(t), c = Call(t)
          PROVE  /\ ResponseOf(result'[c].response, c, m)
                 /\ result'[c].method = m /\ result'[c].args = AskedArgs(c)
      <4>1. t = c[1]
        BY <3>2 DEF Call
      <4>2. /\ result'[c].response \in {NoResponse, current[t].response}
            /\ result'[c].method = current[t].method /\ result'[c].args = current[t].args
        BY <3>2 DEF Ends
      <4>3. ResponseOf(result'[c].response, c, m)
        BY <2>2, <4>1, <4>2, NoneOf
      <4> QED
        BY <2>1, <4>1, <4>2, <4>3 DEF AskedMethod, AskedArgs
    <3> QED
      BY <1>0, <3>1, <3>2, EndsOnly DEF Ends
  <2> QED
    BY <1>2, <2>1, <2>3, <2>4 DEF OwnAnswer
<1> QED
  BY <1>0, <1>1, <1>2, AskedSteps DEF AskedMethod, AskedArgs

(* A channel sends the name of the method its only call asked for. *)
LEMMA NameStep == ASSUME MaxCalls = 1, CallInv, OwnInv, [Next]_vars PROVE NameInv'
<1> SUFFICES ASSUME NEW t \in Threads, made'[t] # 0 PROVE channel'[t].name = current'[t].method
  BY DEF NameInv
<1>0. ClientInv /\ AllTypes
  BY DEF CallInv
<1>1. ASSUME NEW m \in Methods, NEW a \in ArgValues, BeginCall(t, m, a)
      PROVE  channel'[t].name = current'[t].method
  <2>0. 1 \in 1..MaxCalls
    OBVIOUS
  <2>3. <<t, 1>> \in Calls /\ <<t, 1>>[1] = t
    BY <2>0 DEF Calls
  <2>1. PICK c \in Calls : c[1] = t
    BY <2>3, Zenon
  <2>2. channel'[t].name = m /\ current'[t] = NewCall(m, a)
    BY <1>1, <2>1, FirstCall
  <2> QED
    BY <2>2 DEF NewCall
<1>2. ASSUME made'[t] = made[t], channel'[t].name = channel[t].name,
             current'[t].method = current[t].method
      PROVE  channel'[t].name = current'[t].method
  BY <1>2 DEF OwnInv, NameInv
<1> QED
  BY <1>0, <1>1, <1>2, AskedSteps

(* With one call per channel everything on a connection is of its call. *)
THEOREM OwnInvariance == MaxCalls = 1 /\ SafeSpec => []OwnInv
<1> SUFFICES ASSUME MaxCalls = 1 PROVE SafeSpec => []OwnInv
  OBVIOUS
<1>1. ASSUME Init PROVE OwnInv
  <2>1. OwnSocket /\ NameInv
    BY <1>1 DEF Init, OwnSocket, InCall, NameInv
  <2>2. /\ up = [c \in Calls |-> <<>>] /\ down = [c \in Calls |-> <<>>]
        /\ busy = [c \in Calls |-> Rejected] /\ result = [c \in Calls |-> Pending]
        /\ current = [t \in Threads |-> NewCall(Empty, DefaultArgs)]
    BY <1>1 DEF Init
  <2>3. ASSUME NEW c \in Calls PROVE OwnBytes(c) /\ OwnAnswer(c)
    <3>1. /\ Len(up[c]) = 0 /\ Len(down[c]) = 0 /\ busy[c] = Rejected /\ ~result[c].returned
          /\ current[c[1]].response = NoResponse
      BY <2>2, CallParts DEF Pending, NewCall
    <3> QED
      BY <3>1, NoneOf DEF OwnBytes, OwnAnswer, StreamOf
  <2> QED
    BY <2>1, <2>3 DEF OwnInv
<1>2. ASSUME CallInv, OwnInv, [Next]_vars PROVE OwnInv'
  <2>1. OwnSocket'
    BY <1>2, OwnSocketStep DEF CallInv, OwnInv
  <2>2. NameInv'
    BY <1>2, NameStep
  <2>3. \A c \in Calls : OwnBytes(c)' /\ OwnAnswer(c)'
    BY <1>2, OwnBytesStep, OwnAnswerStep
  <2> QED
    BY <2>1, <2>2, <2>3 DEF OwnInv
<1> QED
  BY <1>1, <1>2, CallInvariance, PTL DEF SafeSpec

(* With one call per channel no thread ever sends on, reads from or closes *)
(* the connection of another call.                                         *)
THEOREM OneCallOwnsItsSocket == MaxCalls = 1 /\ SafeSpec => []OwnSocket
<1>1. OwnInv => OwnSocket
  BY DEF OwnInv
<1> QED
  BY <1>1, OwnInvariance, PTL

(* With one call per channel a response, whole or cut short, comes from    *)
(* the run of that very call and of the method it asked for.               *)
THEOREM AnswersAreOwn == MaxCalls = 1 /\ SafeSpec => []AnswersOwnRequest
<1>1. OwnInv => AnswersOwnRequest
  <2> SUFFICES ASSUME OwnInv, NEW c \in Calls, result[c].returned,
                      result[c].response.kind \in {"partial", "full"}
               PROVE  /\ result[c].response.from.call = c
                      /\ result[c].response.from.method = result[c].method
    BY DEF AnswersOwnRequest
  <2> QED
    BY DEF OwnInv, OwnAnswer, ResponseOf, Of
<1> QED
  BY <1>1, OwnInvariance, PTL

-----------------------------------------------------------------------------
(* Call c ran, once, as it was asked to. *)
Ran(c) == execs[c] = <<[method |-> AskedMethod(c), args |-> AskedArgs(c)]>>

(* When TCP delivers whole messages, a request is on its way as a whole,   *)
(* and there is an answer only to a call that ran.                         *)
Whole(c) == /\ up[c] # <<>> => up[c] = Frame(c, AskedMethod(c), AskedArgs(c))
            /\ busy[c] # Rejected \/ down[c] # <<>> => Ran(c)
            /\ current[c[1]].response.kind = "full" => Ran(c)
            /\ result[c].returned /\ result[c].response.kind = "full" => Ran(c)
WholeInv == \A c \in Calls : Whole(c)

(* A whole frame decodes to the request it was made from. *)
LEMMA DecodeFrame ==
    ASSUME NEW c \in Calls, NEW m \in Methods, NEW a \in Arguments
    PROVE  Decode(Frame(c, m, a)).args = a
<1> DEFINE short == <<"len", "svc", "mth">>
           long == <<"len", "svc", "mth", "size", "args">>
           F == Frame(c, m, a)
           end == HeaderEnd(Head(F))
           Has(p) == \E i \in DOMAIN F : i <= end /\ F[i].part = p
           Accept(x) == [ok |-> TRUE, call |-> Head(F).call, method |-> Head(F).method, args |-> x]
<1>1. DOMAIN short = 1..3 /\ DOMAIN long = 1..5
  OBVIOUS
<1>2. Decode(F) = IF Head(F).part # "len" \/ ~Has("mth") THEN Rejected
                  ELSE IF ~Has("size") THEN Accept(DefaultArgs)
                  ELSE IF Len(F) > end THEN Accept(Head(F).args)
                  ELSE Rejected
  BY DEF Decode
<1>3. /\ F \in Streams /\ Len(F) \in Nat \ {0, 1, 2}
      /\ F[1].args = a /\ F[1].part = "len"
  BY FrameFacts
<1>4. Head(F) = F[1]
  BY <1>3 DEF Streams
<1>5. CASE a = DefaultArgs
  <2>1. F = [i \in 1..3 |-> Cell(short[i], c, m, a)]
    BY <1>1, <1>5 DEF Frame
  <2>2. F[1].part = "len" /\ F[2].part = "svc" /\ F[3].part = "mth"
    BY <2>1 DEF Cell
  <2>3. DOMAIN F = 1..3
    BY <2>1
  <2>4. end = 3
    BY <1>3, <1>4, <1>5 DEF HeaderEnd
  <2> HIDE DEF F, end
  <2>5. Has("mth")
    BY <2>2, <2>3, <2>4
  <2>6. ~Has("size")
    BY <2>2, <2>3, <2>4
  <2> HIDE DEF Has
  <2>7. Decode(F) = Accept(DefaultArgs)
    BY <1>2, <1>3, <1>4, <2>5, <2>6
  <2> QED
    BY <1>5, <2>7 DEF F
<1>6. CASE a # DefaultArgs
  <2>1. F = [i \in 1..5 |-> Cell(long[i], c, m, a)]
    BY <1>1, <1>6 DEF Frame
  <2>2. F[1].part = "len" /\ F[3].part = "mth" /\ F[4].part = "size"
    BY <2>1 DEF Cell
  <2>3. DOMAIN F = 1..5 /\ Len(F) = 5
    BY <2>1
  <2>4. end = 4
    BY <1>3, <1>4, <1>6 DEF HeaderEnd
  <2> HIDE DEF F, end
  <2>5. Has("mth")
    BY <2>2, <2>3, <2>4
  <2>6. Has("size")
    BY <2>2, <2>3, <2>4
  <2> HIDE DEF Has
  <2>7. Decode(F) = Accept(Head(F).args)
    BY <1>2, <1>3, <1>4, <2>3, <2>4, <2>5, <2>6
  <2> QED
    BY <1>3, <1>4, <2>7 DEF F
<1> QED
  BY <1>5, <1>6

(* A call that ran does not run again, and stays as it ran. *)
LEMMA RanKept ==
    ASSUME MaxCalls = 1, CallInv, [Next]_vars, NEW c \in Calls, Ran(c),
           AskedMethod(c)' = AskedMethod(c), AskedArgs(c)' = AskedArgs(c)
    PROVE  Ran(c)'
<1>0. ClientInv /\ AllTypes /\ OnceInv /\ execs \in [Calls -> Runs] /\ execs[c] # <<>>
  BY DEF CallInv, AllTypes, ServeTypes, Ran
<1>1. ASSUME NEW d \in Calls, NEW q \in Requests, Starts(d, q) PROVE execs'[c] = execs[c]
  <2>1. q.call # c
    BY <1>0, <1>1 DEF Starts, OnceInv
  <2> QED
    BY <1>0, <1>1, <2>1 DEF Starts
<1>2. execs'[c] = execs[c]
  BY <1>0, <1>1, SendOrShrink
<1> QED
  BY <1>2 DEF Ran

(* Every step keeps WholeInv. *)
LEMMA WholeStep ==
    ASSUME MaxCalls = 1, ~Fragmented, CallInv, OwnInv, WholeInv, [Next]_vars, NEW c \in Calls
    PROVE  Whole(c)'
<1>0. /\ ClientInv /\ AllTypes /\ ClientTypes /\ c[1] \in Threads /\ Whole(c)
      /\ up[c] \in Streams /\ down[c] \in Streams /\ execs \in [Calls -> Runs]
  BY CallParts DEF CallInv, ClientInv, WholeInv, AllTypes, NetTypes, ServeTypes
<1>1. ASSUME NEW m \in Methods, NEW a \in ArgValues, BeginCall(c[1], m, a) PROVE Whole(c)'
  <2>0. /\ Unmade(c) /\ ~result[c].returned /\ UNCHANGED <<up, down, busy, result>>
        /\ current'[c[1]] = NewCall(m, a)
    BY <1>1, FirstCall
  <2>1. up'[c] = <<>> /\ down'[c] = <<>> /\ busy'[c] = Rejected /\ ~result'[c].returned
    BY <2>0 DEF Unmade
  <2>2. current'[c[1]].response.kind = "none"
    BY <2>0 DEF NewCall, NoResponse
  <2> QED
    BY <2>1, <2>2 DEF Whole
<1>2. ASSUME AskedMethod(c)' = AskedMethod(c), AskedArgs(c)' = AskedArgs(c) PROVE Whole(c)'
  <2>0. Ran(c) => Ran(c)'
    BY <1>2, RanKept
  <2>1. ASSUME up'[c] # <<>> PROVE up'[c] = Frame(c, AskedMethod(c), AskedArgs(c))
    <3>1. CASE up'[c] = up[c]
      BY <1>0, <2>1, <3>1 DEF Whole
    <3>2. ASSUME NEW t \in Threads, SendOk(t), up'[c] # up[c]
          PROVE  up'[c] = Frame(c, AskedMethod(c), AskedArgs(c))
      <4> DEFINE F == Frame(Call(t), channel[t].name, current[t].args)
      <4>1. PICK s \in Calls :
              /\ s = OnSocket(t) /\ pc[t] = "send"
              /\ Call(t) \in Calls /\ channel[t].name \in Methods /\ current[t].args \in Arguments
              /\ \/ up' = up
                 \/ /\ \E n \in 1..Len(F) : /\ up'[s] = up[s] \o SubSeq(F, 1, n)
                                            /\ ~Fragmented => n = Len(F)
                    /\ \A d \in Calls : d # s => up'[d] = up[d]
        BY <1>0, <3>2, SendEffect
      <4>8. F \in Streams
        BY <4>1, FrameFacts
      <4>9. s = c /\ s = Call(t) /\ made[t] # 0
        BY <1>0, <3>2, <4>1 DEF InCall, OwnInv, OwnSocket, ClientInv, BeforeConnect, Before
      <4> HIDE DEF F
      <4>0. \A x \in Streams : SubSeq(x, 1, Len(x)) = x
        BY DEF Streams
      <4>10. SubSeq(F, 1, Len(F)) = F
        BY <4>0, <4>8
      <4>11. up'[c] = up[c] \o F
        BY <3>2, <4>1, <4>9, <4>10
      <4>2. /\ s = c /\ s = Call(t) /\ made[t] # 0
            /\ up'[c] = up[c] \o Frame(Call(t), channel[t].name, current[t].args)
        BY <4>9, <4>11 DEF F
      <4>3. t = c[1] /\ channel[t].name = AskedMethod(c) /\ current[t].args = AskedArgs(c)
        BY <4>2 DEF Call, OwnInv, NameInv, AskedMethod, AskedArgs
      <4>4. Unheard(c)
        <5>1. At(c, Unsent)
          BY <4>1, <4>2 DEF At, Unsent, Call
        <5> QED
          BY <5>1 DEF CallInv, SentInv
      <4>5. up[c] = <<>>
        <5>1. ASSUME up[c] # <<>> PROVE 1 \in 1..Len(up[c])
          BY <1>0, <5>1 DEF Streams
        <5>2. 1 \in 1..Len(up[c]) => up[c][1].call = c /\ up[c][1].call # c
          BY <4>4 DEF Unheard, OwnInv, OwnBytes, StreamOf, Of
        <5> QED
          BY <5>1, <5>2
      <4>6. Frame(c, AskedMethod(c), AskedArgs(c)) \in Streams
        <5>1. AskedMethod(c) \in Methods /\ AskedArgs(c) \in Arguments
          BY <1>0, <3>2, <4>3, SendEffect
        <5> QED
          BY <5>1, FrameFacts
      <4>7. \A x \in Streams : <<>> \o x = x
        BY DEF Streams
      <4> QED
        BY <4>2, <4>3, <4>5, <4>6, <4>7
    <3>3. ASSUME NEW d \in Calls, OnMessage(d) PROVE up'[c] \in {up[c], <<>>}
      <4>1. PICK n \in 1..Len(up[d]) :
              /\ up'[d] = SubSeq(up[d], n + 1, Len(up[d])) /\ n = Len(up[d])
              /\ \A e \in Calls : e # d => up'[e] = up[e]
        BY <1>0, <3>3, DeliverEffect
      <4>2. d = c => up'[c] = <<>>
        <5>1. \A x \in Streams : SubSeq(x, Len(x) + 1, Len(x)) = <<>>
          BY DEF Streams
        <5> QED
          BY <1>0, <4>1, <5>1
      <4> QED
        BY <4>1, <4>2
    <3>4. Crash => up'[c] = <<>>
      BY DEF Crash
    <3>5. \/ up' = up \/ Crash \/ (\E t \in Threads : SendOk(t)) \/ \E d \in Calls : OnMessage(d)
      BY UpSteps
    <3> QED
      BY <2>1, <3>1, <3>2, <3>3, <3>4, <3>5
  <2>2. ASSUME busy'[c] # Rejected PROVE Ran(c)'
    <3>1. CASE busy'[c] = busy[c]
      BY <1>0, <2>0, <2>2, <3>1 DEF Whole
    <3>2. CASE busy'[c] # busy[c]
      <4>1. PICK n \in 1..Len(up[c]) :
                 LET q == Decode(SubSeq(up[c], 1, n))
                 IN  /\ n = Len(up[c]) /\ busy'[c] = q /\ up[c][1].part = "len"
                     /\ q \in Requests /\ q.call = up[c][1].call /\ q.method = up[c][1].method
                     /\ execs' = [execs EXCEPT ![q.call] =
                                    Append(@, [method |-> q.method, args |-> q.args])]
        BY <1>0, <2>2, <3>2, BusySteps
      <4> DEFINE q == Decode(up[c])
      <4>2. SubSeq(up[c], 1, n) = up[c] /\ up[c] # <<>> /\ 1 \in 1..Len(up[c])
        <5>1. \A x \in Streams : \A k \in 1..Len(x) : k = Len(x) => SubSeq(x, 1, k) = x /\ x # <<>> /\ 1 \in 1..Len(x)
          BY DEF Streams
        <5> QED
          BY <1>0, <4>1, <5>1
      <4>3. up[c][1].call = c /\ up[c][1].method = AskedMethod(c)
        BY <4>2 DEF OwnInv, OwnBytes, StreamOf, Of
      <4>4. /\ q \in Requests /\ q.call = c /\ q.method = AskedMethod(c)
            /\ execs' = [execs EXCEPT ![c] = Append(@, [method |-> q.method, args |-> q.args])]
        BY <4>1, <4>2, <4>3
      <4>5. execs[c] = <<>>
        BY <4>1, <4>2, <4>3 DEF CallInv, OnceInv, Announces
      <4>6. q.args = AskedArgs(c)
        <5>1. up[c] = Frame(c, AskedMethod(c), AskedArgs(c))
          BY <1>0, <4>2 DEF Whole
        <5>2. AskedMethod(c) \in Methods
          BY <4>4 DEF Requests
        <5>3. AskedArgs(c) \in Arguments
          BY <1>0 DEF AllTypes, DataTypes, CurrentSet, AskedArgs
        <5> QED
          BY <5>1, <5>2, <5>3, DecodeFrame
      <4>7. execs'[c] = <<[method |-> AskedMethod(c), args |-> AskedArgs(c)]>>
        <5> HIDE DEF q
        <5> QED
          BY <1>0, <4>4, <4>5, <4>6
      <4> QED
        BY <1>2, <4>7 DEF Ran
    <3> QED
      BY <3>1, <3>2
  <2>3. ASSUME down'[c] # <<>> PROVE Ran(c)'
    <3>1. down[c] = <<>> => 1..Len(down[c]) = {}
      OBVIOUS
    <3>2. busy[c] \in Requests => busy[c] # Rejected
      BY RequestAccepted
    <3>3. down[c] # <<>> \/ busy[c] # Rejected
      BY <1>0, <2>3, <3>1, <3>2, DownSteps
    <3> QED
      BY <1>0, <2>0, <3>3 DEF Whole
  <2>4. ASSUME current'[c[1]].response.kind = "full" PROVE Ran(c)'
    <3>1. CASE current'[c[1]].response \in {current[c[1]].response, NoResponse, [kind |-> "default"]}
      <4>1. current'[c[1]].response = current[c[1]].response
        BY <2>4, <3>1 DEF NoResponse
      <4> QED
        BY <1>0, <2>0, <2>4, <4>1 DEF Whole
    <3>2. ASSUME NEW s \in Calls, NEW n \in 1..Len(down[s]), pc[c[1]] = "blocked", s = sock[c[1]]
          PROVE  down[c] # <<>>
      <4>1. s = Call(c[1])
        BY <1>0, <3>2 DEF OwnInv, OwnSocket
      <4>2. s[1] = c[1] /\ s[2] = 1 /\ c[2] = 1
        BY <4>1, CallParts DEF Call
      <4>3. s = c
        BY <4>2, CallParts
      <4>4. down[c] = <<>> => 1..Len(down[c]) = {}
        OBVIOUS
      <4> QED
        BY <3>2, <4>3, <4>4
    <3> QED
      BY <1>0, <2>0, <3>1, <3>2, ResponseSteps DEF Whole
  <2>5. ASSUME result'[c].returned, result'[c].response.kind = "full" PROVE Ran(c)'
    <3>1. CASE result'[c] = result[c]
      BY <1>0, <2>0, <2>5, <3>1 DEF Whole
    <3>2. ASSUME NEW t \in Threads, Ends(t), c = Call(t) PROVE current[c[1]].response.kind = "full"
      <4>1. t = c[1] /\ result'[c].response \in {NoResponse, current[t].response}
        BY <3>2 DEF Call, Ends
      <4> QED
        BY <2>5, <4>1 DEF NoResponse
    <3>3. result'[c] = result[c] \/ current[c[1]].response.kind = "full"
      BY <1>0, <3>2, EndsOnly DEF Ends
    <3> QED
      BY <1>0, <2>0, <3>1, <3>3 DEF Whole
  <2> QED
    BY <1>2, <2>1, <2>2, <2>3, <2>4, <2>5 DEF Whole
<1> QED
  BY <1>0, <1>1, <1>2, AskedSteps DEF AskedMethod, AskedArgs

(* With one call per channel, and TCP delivering whole messages, a         *)
(* complete answer without an error proves that the provider ran the call, *)
(* once, with the arguments that were sent.                                *)
THEOREM AnswerProvesExecution ==
    MaxCalls = 1 /\ ~Fragmented /\ SafeSpec => []CompleteAnswerProvesExecution
<1> SUFFICES ASSUME MaxCalls = 1, ~Fragmented PROVE SafeSpec => []CompleteAnswerProvesExecution
  OBVIOUS
<1>1. ASSUME Init PROVE WholeInv
  <2>1. /\ up = [c \in Calls |-> <<>>] /\ down = [c \in Calls |-> <<>>]
        /\ busy = [c \in Calls |-> Rejected] /\ result = [c \in Calls |-> Pending]
        /\ current = [t \in Threads |-> NewCall(Empty, DefaultArgs)]
    BY <1>1 DEF Init
  <2>2. ASSUME NEW c \in Calls PROVE Whole(c)
    <3>1. current[c[1]].response.kind = "none" /\ ~result[c].returned
      BY <2>1, CallParts DEF Pending, NewCall, NoResponse
    <3> QED
      BY <2>1, <3>1 DEF Whole
  <2> QED
    BY <2>2 DEF WholeInv
<1>2. ASSUME CallInv, OwnInv, WholeInv, [Next]_vars PROVE WholeInv'
  <2>1. \A c \in Calls : Whole(c)'
    BY <1>2, WholeStep
  <2> QED
    BY <2>1 DEF WholeInv
<1>3. OwnInv /\ WholeInv => CompleteAnswerProvesExecution
  BY DEF OwnInv, OwnAnswer, WholeInv, Whole, Ran, CompleteAnswerProvesExecution
<1>4. SafeSpec => []OwnInv
  BY OwnInvariance
<1> QED
  BY <1>1, <1>2, <1>3, <1>4, CallInvariance, PTL DEF SafeSpec
=============================================================================
