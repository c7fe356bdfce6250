--------------------------- MODULE UcxHelloProofs ---------------------------
(***************************************************************************)
(* Proofs about UcxHello, for every choice of failure modes, wait modes    *)
(* and faults: the client does not miss a wake-up, and in a run without    *)
(* failures no worker is destroyed under an open endpoint.                 *)
(***************************************************************************)
EXTENDS UcxHello, TLAPS

(* The types of the parts of the state that the proofs need. *)
Labels == {"init", "connect", "accept", "sendlen", "sendaddr", "recvlen", "recvaddr", "epcreate",
           "send", "check", "progress", "arm", "asleep", "recv", "probe", "waitdown", "waitfailed",
           "flush", "epclose", "barrier", "barrierwait", "closesock", "destroy", "exited", "killed"}

Ends == {"none", "open", "closed"}
Rets == {-1, 0, 1}
State == [pc : Labels, ret : Rets, ep_status : {"ok", "failed"}, ep : Ends, sock : Ends]

StType == st \in [Procs -> State]

Oobs == [Procs -> Seq({"len", "addr", "dummy"})]
Wires == [Procs -> Seq({"address", "data", "failure"})]
QueueTypes == oob \in Oobs /\ wire \in Wires

(* While the client sleeps its event fd is armed, and readable as soon as  *)
(* there is an event.                                                      *)
SleepInv == At("client", "asleep") => armed /\ (signal \/ wire["client"] = <<>>)

(* Before there are endpoints, and after the socket is given up. *)
Exchange == {"init", "connect", "accept", "sendlen", "sendaddr", "recvlen", "recvaddr", "probe",
             "epcreate"}
Leaving == {"destroy", "exited", "killed"}

(* A run in which nothing fails and nothing is made to fail. *)
Quiet == failure_mode = "none" /\ "fault" \notin seen

(* Where a process has no endpoint or socket any more, or not yet. *)
StageInv ==
    /\ \A p \in Procs :
          /\ st[p].pc \in Exchange => st[p].ep = "none"
          /\ st[p].pc \in {"barrier", "barrierwait"} => st[p].ep = "closed"
          /\ st[p].pc \in Leaving /\ Quiet => st[p].ep # "open"
          /\ st[p].pc = "closesock" => st[p].ep # "open"
          /\ st[p].sock = "closed" => st[p].pc \in Leaving
    /\ st["client"].pc \in {"init", "connect"} => st["client"].sock = "none"
    /\ st["client"].sock = "none" =>
          st["server"].pc \in {"init", "connect", "accept"} \union Leaving

(* failure_handler runs only when the other process has ended. *)
FailureInv ==
    \A p \in Procs :
        /\ st[p].ep_status = "failed" => Ended(Peer(p))
        /\ \A i \in 1..Len(wire[p]) : wire[p][i] = "failure" => Ended(Peer(p))

(* The client once it has the server's address. *)
Past == {"epcreate", "send", "check", "progress", "arm", "asleep", "recv", "epclose", "barrier",
         "barrierwait"}

(* What a process finds in its socket after the exchange of addresses is   *)
(* the other side's barrier, for which that side has closed its endpoint.  *)
OobInv ==
    LET n == Len(oob["client"])
        s == st["server"]
        l == st["client"].pc
    IN  /\ oob["server"] # <<>> => st["client"].ep = "closed"
        /\ s.pc \in {"init", "connect", "accept", "sendlen"} => n = 0 /\ l \notin Past \union {"recvaddr"}
        /\ s.pc = "sendaddr" => /\ l \notin Past
                                /\ l = "recvlen" => n <= 1
                                /\ l = "recvaddr" => n = 0
        /\ s.ep # "closed" => /\ l = "recvlen" => n <= 2
                              /\ l = "recvaddr" => n <= 1
                              /\ l \in Past => n = 0

(* Process p has closed its endpoint, or will never have one. *)
Over(p) == \/ st[p].ep = "closed"
           \/ st[p].pc \in Leaving
           \/ /\ p = "server" /\ st["client"].sock = "none"
              /\ st["client"].pc \in {"destroy", "exited"}
              /\ st["server"].pc \in {"init", "connect", "accept"}

(* A process gives up its worker only when the other one is through. *)
OverInv ==
    Quiet => /\ \A p \in Procs :
                   /\ st[p].pc \in {"closesock"} \union Leaving => Over(Peer(p))
                   /\ st[p].pc = "epclose" /\ st[p].ret # 0 => Over(Peer(p))
             /\ st["server"].pc = "waitfailed" => st["server"].ret = 0
             /\ st["server"].pc # "waitdown"

(* Where a 0 in ret comes from: the client's from the test string, or the  *)
(* end of the exchange of addresses; the server's from what it has sent, a *)
(* client that was not to be had, or the client's barrier.                 *)
ZeroInv ==
    LET c == st["client"]
        s == st["server"]
    IN  /\ c.ret = 0 => "got" \in seen \/ "eof" \in seen
        /\ \/ c.pc \in {"barrier", "barrierwait"}
           \/ c.pc = "epclose" /\ c.ret = 0
           \/ oob["server"] # <<>>
           => "got" \in seen
        /\ s.pc \in {"init", "connect"} => s.ret = -1
        /\ s.pc \in {"waitdown", "flush"} => "sent" \in seen
        /\ s.pc \in {"waitfailed", "barrier", "barrierwait"} => failure_mode = "none"
        /\ /\ failure_mode = "none" /\ s.ret = 0
           /\ s.pc \in {"closesock", "destroy", "exited"}
           => "got" \in seen
        /\ failure_mode # "none" /\ s.ret = 0 =>
              \/ "sent" \in seen
              \/ s.ep = "none" /\ s.pc \in {"closesock"} \union Leaving

HelloInv == /\ StType /\ QueueTypes /\ SleepInv /\ StageInv /\ FailureInv /\ OobInv /\ OverInv
            /\ ZeroInv
-----------------------------------------------------------------------------
(* The two processes and their peers. *)
LEMMA ProcNames == /\ "client" \in Procs /\ "server" \in Procs
                   /\ \A p \in Procs : Peer(p) \in Procs /\ Peer(p) # p /\ Peer(Peer(p)) = p
  BY DEF Procs, Peer

(* A new state for one process. *)
LEMMA PutType ==
    ASSUME StType, NEW p \in Procs, NEW s \in State, st' = [st EXCEPT ![p] = s]
    PROVE  StType'
  BY DEF StType

(* The ways in which a step of main changes its process's state. *)
LEMMA GotoTypes ==
    ASSUME StType, NEW p \in Procs, NEW l \in Labels, NEW r \in Rets, NEW e \in Ends
    PROVE  /\ Goto(p, l) => StType'
           /\ GotoWith(p, r, l) => StType'
           /\ GotoSock(p, e, l) => StType'
           /\ GotoEp(p, e, l) => StType'
           /\ GotoFailed(p, l) => StType'
<1>0. st[p] \in State
  BY DEF StType
<1>1. ASSUME Goto(p, l) PROVE StType'
  <2> DEFINE s == [st[p] EXCEPT !.pc = l]
  <2>1. s \in State
    BY <1>0 DEF State
  <2>2. st' = [st EXCEPT ![p] = s]
    BY <1>1 DEF Goto
  <2> HIDE DEF s
  <2> QED
    BY <2>1, <2>2, PutType
<1>2. ASSUME GotoWith(p, r, l) PROVE StType'
  <2> DEFINE s == [st[p] EXCEPT !.pc = l, !.ret = r]
  <2>1. s \in State
    BY <1>0 DEF State
  <2>2. st' = [st EXCEPT ![p] = s]
    BY <1>2 DEF GotoWith
  <2> HIDE DEF s
  <2> QED
    BY <2>1, <2>2, PutType
<1>3. ASSUME GotoSock(p, e, l) PROVE StType'
  <2> DEFINE s == [st[p] EXCEPT !.pc = l, !.sock = e]
  <2>1. s \in State
    BY <1>0 DEF State
  <2>2. st' = [st EXCEPT ![p] = s]
    BY <1>3 DEF GotoSock
  <2> HIDE DEF s
  <2> QED
    BY <2>1, <2>2, PutType
<1>4. ASSUME GotoEp(p, e, l) PROVE StType'
  <2> DEFINE s == [st[p] EXCEPT !.pc = l, !.ep = e]
  <2>1. s \in State
    BY <1>0 DEF State
  <2>2. st' = [st EXCEPT ![p] = s]
    BY <1>4 DEF GotoEp
  <2> HIDE DEF s
  <2> QED
    BY <2>1, <2>2, PutType
<1>5. ASSUME GotoFailed(p, l) PROVE StType'
  <2> DEFINE s == [st[p] EXCEPT !.pc = l, !.ep_status = "failed"]
  <2>1. s \in State
    BY <1>0 DEF State
  <2>2. st' = [st EXCEPT ![p] = s]
    BY <1>5 DEF GotoFailed
  <2> HIDE DEF s
  <2> QED
    BY <2>1, <2>2, PutType
<1> QED
  BY <1>1, <1>2, <1>3, <1>4, <1>5

(* Exiting closes the socket, if there is one. *)
LEMMA ExitType == ASSUME StType, NEW p \in Procs PROVE SockAtExit(p) \in Ends
  BY DEF StType, State, SockAtExit, Ends

(* What a step of process p does to st, without EXCEPT. *)
Becomes(p, l, r, f, e, s) ==
    /\ st'[p].pc = l /\ st'[p].ret = r /\ st'[p].ep_status = f
    /\ st'[p].ep = e /\ st'[p].sock = s
    /\ st'[Peer(p)] = st[Peer(p)]

(* The same ways, field by field: what the steps below are proved from. *)
LEMMA Effects ==
    ASSUME StType
    PROVE  /\ \A p \in Procs : \A l : Goto(p, l) =>
                 Becomes(p, l, st[p].ret, st[p].ep_status, st[p].ep, st[p].sock)
           /\ \A p \in Procs : \A l, r : GotoWith(p, r, l) =>
                 Becomes(p, l, r, st[p].ep_status, st[p].ep, st[p].sock)
           /\ \A p \in Procs : \A l, e : GotoSock(p, e, l) =>
                 Becomes(p, l, st[p].ret, st[p].ep_status, st[p].ep, e)
           /\ \A p \in Procs : \A l, e : GotoEp(p, e, l) =>
                 Becomes(p, l, st[p].ret, st[p].ep_status, e, st[p].sock)
           /\ \A p \in Procs : \A l : GotoFailed(p, l) =>
                 Becomes(p, l, st[p].ret, "failed", st[p].ep, st[p].sock)
<1>1. ASSUME NEW p \in Procs, NEW l, Goto(p, l)
      PROVE  Becomes(p, l, st[p].ret, st[p].ep_status, st[p].ep, st[p].sock)
  BY <1>1, ProcNames DEF Goto, Becomes, StType, State
<1>2. ASSUME NEW p \in Procs, NEW l, NEW r, GotoWith(p, r, l)
      PROVE  Becomes(p, l, r, st[p].ep_status, st[p].ep, st[p].sock)
  BY <1>2, ProcNames DEF GotoWith, Becomes, StType, State
<1>3. ASSUME NEW p \in Procs, NEW l, NEW e, GotoSock(p, e, l)
      PROVE  Becomes(p, l, st[p].ret, st[p].ep_status, st[p].ep, e)
  BY <1>3, ProcNames DEF GotoSock, Becomes, StType, State
<1>4. ASSUME NEW p \in Procs, NEW l, NEW e, GotoEp(p, e, l)
      PROVE  Becomes(p, l, st[p].ret, st[p].ep_status, e, st[p].sock)
  BY <1>4, ProcNames DEF GotoEp, Becomes, StType, State
<1>5. ASSUME NEW p \in Procs, NEW l, GotoFailed(p, l)
      PROVE  Becomes(p, l, st[p].ret, "failed", st[p].ep, st[p].sock)
  BY <1>5, ProcNames DEF GotoFailed, Becomes, StType, State
<1> QED
  BY <1>1, <1>2, <1>3, <1>4, <1>5

(* send() puts one more message before the peer. *)
LEMMA SendOobTypes ==
    ASSUME oob \in Oobs, NEW p \in Procs, NEW x \in {"len", "addr", "dummy"}, NEW n, NEW f, SendOob(p, x, n, f)
    PROVE  oob' \in Oobs
<1>1. oob' = oob \/ oob' = [oob EXCEPT ![Peer(p)] = Append(@, x)]
  BY DEF SendOob
<1>2. Append(oob[Peer(p)], x) \in Seq({"len", "addr", "dummy"})
  BY ProcNames DEF Oobs
<1> QED
  BY <1>1, <1>2, ProcNames DEF Oobs

(* recv() takes a message from the socket. *)
LEMMA TailOob ==
    ASSUME oob \in Oobs, NEW p \in Procs, oob[p] # <<>>, oob' = [oob EXCEPT ![p] = Tail(@)]
    PROVE  oob' \in Oobs
<1>1. Tail(oob[p]) \in Seq({"len", "addr", "dummy"})
  BY DEF Oobs
<1> QED
  BY <1>1 DEF Oobs

(* ucp_worker_progress takes an event. *)
LEMMA TailWire ==
    ASSUME wire \in Wires, NEW p \in Procs, wire[p] # <<>>, wire' = [wire EXCEPT ![p] = Tail(@)]
    PROVE  wire' \in Wires
<1>1. Tail(wire[p]) \in Seq({"address", "data", "failure"})
  BY DEF Wires
<1> QED
  BY <1>1 DEF Wires

(* UCX puts one more event before a worker. *)
LEMMA DeliverWire ==
    ASSUME wire \in Wires, NEW p \in Procs, NEW x \in {"address", "data", "failure"}, Deliver(p, x)
    PROVE  wire' \in Wires
<1>1. wire' = [wire EXCEPT ![p] = IF Ended(p) THEN @ ELSE Append(@, x)]
  BY DEF Deliver
<1>2. Append(wire[p], x) \in Seq({"address", "data", "failure"})
  BY DEF Wires
<1> QED
  BY <1>1, <1>2 DEF Wires

(* A progress call runs failure_handler only for a death that UCX reported. *)
LEMMA HandleFailure ==
    ASSUME StType, QueueTypes, FailureInv, NEW p \in Procs, NEW l, Handle(p, l), ~Ended(p),
           wire[p] # <<>>, l \notin {"exited", "killed"}
    PROVE  FailureInv'
<1>1. /\ Head(wire[p]) = wire[p][1] /\ Len(wire[p]) \in Nat /\ Len(wire[p]) > 0
      /\ Len(Tail(wire[p])) = Len(wire[p]) - 1
      /\ \A i \in 1..Len(Tail(wire[p])) : Tail(wire[p])[i] = wire[p][i + 1]
  BY DEF QueueTypes, Wires
<1>2. wire'[p] = Tail(wire[p]) /\ wire'[Peer(p)] = wire[Peer(p)]
  BY ProcNames DEF Handle, QueueTypes, Wires
<1>3. /\ st'[p].pc = l /\ st'[Peer(p)] = st[Peer(p)]
      /\ st'[p].ep_status = "failed" => st[p].ep_status = "failed" \/ wire[p][1] = "failure"
  BY <1>1, Effects DEF Handle, Becomes
<1>4. Ended(Peer(p))' <=> Ended(Peer(p))
  BY <1>3 DEF Ended
<1>5. /\ st'[p].ep_status = "failed" => Ended(Peer(p))'
      /\ \A i \in 1..Len(wire'[p]) : wire'[p][i] = "failure" => Ended(Peer(p))'
  BY <1>1, <1>2, <1>3, <1>4 DEF FailureInv
<1>6. /\ st'[Peer(p)].ep_status # "failed"
      /\ \A i \in 1..Len(wire'[Peer(p)]) : wire'[Peer(p)][i] # "failure"
  BY <1>2, <1>3, ProcNames DEF FailureInv
<1> QED
  BY <1>5, <1>6, ProcNames DEF FailureInv, Procs, Peer

(* UCX reports only deaths that happened. *)
LEMMA DeliverFailure ==
    ASSUME QueueTypes, FailureInv, NEW q \in Procs, NEW x, Deliver(q, x),
           x = "failure" => Ended(Peer(q)),
           \A p \in Procs : st'[p].ep_status = st[p].ep_status /\ (Ended(p) => Ended(p)')
    PROVE  FailureInv'
<1>1. wire'[Peer(q)] = wire[Peer(q)] /\ wire'[q] \in {wire[q], Append(wire[q], x)}
  BY ProcNames DEF Deliver, QueueTypes, Wires
<1>2. \A i \in 1..Len(Append(wire[q], x)) :
          Append(wire[q], x)[i] = x \/ (i \in 1..Len(wire[q]) /\ Append(wire[q], x)[i] = wire[q][i])
  BY DEF QueueTypes, Wires
<1>3. \A i \in 1..Len(wire'[q]) : wire'[q][i] = "failure" => Ended(Peer(q))
  BY <1>1, <1>2 DEF FailureInv
<1> QED
  BY <1>1, <1>3, ProcNames DEF FailureInv, Procs, Peer

(* A step that is none of the program's. *)
LEMMA Stutter ==
    UNCHANGED vars => /\ st' = st /\ oob' = oob /\ wire' = wire /\ armed' = armed
                      /\ signal' = signal /\ seen' = seen /\ failure_mode' = failure_mode
  BY DEF vars

(* Every step gives st a value of its type. *)
LEMMA StStep ==
    ASSUME StType, [Next]_vars
    PROVE  StType'
<1> USE ProcNames, GotoTypes, ExitType DEF Labels, Rets, Ends, Killed, Procs, Peer
<1>1. ASSUME NEW p \in Procs, Setup(p) PROVE StType'
  BY <1>1 DEF Setup
<1>2. ASSUME NEW p \in Procs, EpClose(p) PROVE StType'
  BY <1>2 DEF EpClose
<1>3. ASSUME NEW p \in Procs, BarrierSend(p) PROVE StType'
  BY <1>3 DEF BarrierSend, SendOob
<1>4. ASSUME NEW p \in Procs, BarrierRecv(p) PROVE StType'
  BY <1>4 DEF BarrierRecv, AtEof
<1>5. ASSUME NEW p \in Procs, CloseSock(p) PROVE StType'
  BY <1>5 DEF CloseSock
<1>6. ASSUME NEW p \in Procs, Destroy(p) PROVE StType'
  BY <1>6 DEF Destroy
<1>7. ASSUME NEW p \in Procs, Detect(p) PROVE StType'
  BY <1>7 DEF Detect, StType
<1>8. ASSUME NEW p \in Procs, Crash(p) PROVE StType'
  BY <1>8 DEF Crash
<1>9. CASE Connect
  BY <1>9 DEF Connect
<1>10. CASE RecvLen
  BY <1>10 DEF RecvLen, RecvPeer, AtEof
<1>11. CASE RecvAddr
  BY <1>11 DEF RecvAddr, RecvPeer, AtEof
<1>12. CASE ClientEpCreate
  BY <1>12 DEF ClientEpCreate
<1>13. CASE ClientSend
  BY <1>13 DEF ClientSend, Deliver
<1>14. CASE ClientCheck
  BY <1>14 DEF ClientCheck
<1>15. CASE ClientProgress
  BY <1>15 DEF ClientProgress, Handle
<1>16. CASE WorkerWait
  BY <1>16 DEF WorkerWait
<1>17. CASE WakeUp
  BY <1>17 DEF WakeUp
<1>18. CASE ClientRecv
  BY <1>18 DEF ClientRecv
<1>19. CASE Listen
  BY <1>19 DEF Listen
<1>20. CASE Accept
  BY <1>20 DEF Accept
<1>21. CASE SendLen
  BY <1>21 DEF SendLen, SendOob
<1>22. CASE SendAddr
  BY <1>22 DEF SendAddr, SendOob
<1>23. CASE ServerProbe
  BY <1>23 DEF ServerProbe
<1>24. CASE ServerEpCreate
  BY <1>24 DEF ServerEpCreate
<1>25. CASE ServerProgress
  BY <1>25 DEF ServerProgress, Handle
<1>26. CASE ServerSend
  BY <1>26 DEF ServerSend, Deliver
<1>27. CASE WaitDown
  BY <1>27 DEF WaitDown, ServerWait, Handle
<1>28. CASE WaitFailed
  BY <1>28 DEF WaitFailed, ServerWait, Handle
<1>29. CASE Flush
  BY <1>29 DEF Flush
<1>30. CASE UNCHANGED vars
  BY <1>30 DEF vars, StType
<1> QED
  BY <1>1, <1>2, <1>3, <1>4, <1>5, <1>6, <1>7, <1>8, <1>9, <1>10, <1>11, <1>12, <1>13, <1>14,
     <1>15, <1>16, <1>17, <1>18, <1>19, <1>20, <1>21, <1>22, <1>23, <1>24, <1>25, <1>26, <1>27,
     <1>28, <1>29, <1>30
  DEF Next, Client, Server, Common, Procs

(* Every step puts only known messages into the sockets and the workers. *)
LEMMA QueueStep ==
    ASSUME QueueTypes, [Next]_vars
    PROVE  QueueTypes'
<1> USE ProcNames DEF QueueTypes, modes, ucx
<1>1. ASSUME NEW p \in Procs, Setup(p) PROVE QueueTypes'
  BY <1>1 DEF Setup
<1>2. ASSUME NEW p \in Procs, EpClose(p) PROVE QueueTypes'
  BY <1>2 DEF EpClose
<1>3. ASSUME NEW p \in Procs, BarrierSend(p) PROVE QueueTypes'
  BY <1>3, SendOobTypes DEF BarrierSend
<1>4. ASSUME NEW p \in Procs, BarrierRecv(p) PROVE QueueTypes'
  BY <1>4, TailOob DEF BarrierRecv
<1>5. ASSUME NEW p \in Procs, CloseSock(p) PROVE QueueTypes'
  BY <1>5 DEF CloseSock
<1>6. ASSUME NEW p \in Procs, Destroy(p) PROVE QueueTypes'
  BY <1>6 DEF Destroy
<1>7. ASSUME NEW p \in Procs, Detect(p) PROVE QueueTypes'
  BY <1>7, DeliverWire DEF Detect
<1>8. ASSUME NEW p \in Procs, Crash(p) PROVE QueueTypes'
  BY <1>8 DEF Crash
<1>9. CASE Connect
  BY <1>9 DEF Connect
<1>10. CASE RecvLen
  BY <1>10, TailOob DEF RecvLen, RecvPeer
<1>11. CASE RecvAddr
  BY <1>11, TailOob DEF RecvAddr, RecvPeer
<1>12. CASE ClientEpCreate
  BY <1>12 DEF ClientEpCreate
<1>13. CASE ClientSend
  BY <1>13, DeliverWire DEF ClientSend
<1>14. CASE ClientCheck
  BY <1>14 DEF ClientCheck
<1>15. CASE ClientProgress
  BY <1>15, TailWire DEF ClientProgress, Handle
<1>16. CASE WorkerWait
  BY <1>16 DEF WorkerWait
<1>17. CASE WakeUp
  BY <1>17 DEF WakeUp
<1>18. CASE ClientRecv
  BY <1>18 DEF ClientRecv
<1>19. CASE Listen
  BY <1>19 DEF Listen
<1>20. CASE Accept
  BY <1>20 DEF Accept
<1>21. CASE SendLen
  BY <1>21, SendOobTypes DEF SendLen
<1>22. CASE SendAddr
  BY <1>22, SendOobTypes DEF SendAddr
<1>23. CASE ServerProbe
  BY <1>23, TailWire DEF ServerProbe
<1>24. CASE ServerEpCreate
  BY <1>24 DEF ServerEpCreate
<1>25. CASE ServerProgress
  BY <1>25, TailWire DEF ServerProgress, Handle
<1>26. CASE ServerSend
  BY <1>26, DeliverWire DEF ServerSend
<1>27. CASE WaitDown
  BY <1>27, TailWire DEF WaitDown, ServerWait, Handle
<1>28. CASE WaitFailed
  BY <1>28, TailWire DEF WaitFailed, ServerWait, Handle
<1>29. CASE Flush
  BY <1>29 DEF Flush
<1>30. CASE UNCHANGED vars
  BY <1>30 DEF vars
<1> QED
  BY <1>1, <1>2, <1>3, <1>4, <1>5, <1>6, <1>7, <1>8, <1>9, <1>10, <1>11, <1>12, <1>13, <1>14,
     <1>15, <1>16, <1>17, <1>18, <1>19, <1>20, <1>21, <1>22, <1>23, <1>24, <1>25, <1>26, <1>27,
     <1>28, <1>29, <1>30
  DEF Next, Client, Server, Common, Procs

(* No step puts the client to sleep unarmed, or leaves it silent with an event. *)
LEMMA SleepStep ==
    ASSUME StType, QueueTypes, SleepInv, [Next]_vars
    PROVE  SleepInv'
<1>30. CASE UNCHANGED vars
  BY <1>30, Stutter DEF SleepInv, At
<1> USE Effects DEF Becomes, SockAtExit, Killed, At, Ended, Saw, Fault, modes, ucx, Procs, Peer,
        QueueTypes, Oobs, Wires, SleepInv
<1>1. ASSUME NEW p \in Procs, Setup(p) PROVE SleepInv'
  BY <1>1 DEF Setup
<1>2. ASSUME NEW p \in Procs, EpClose(p) PROVE SleepInv'
  BY <1>2 DEF EpClose
<1>3. ASSUME NEW p \in Procs, BarrierSend(p) PROVE SleepInv'
  BY <1>3 DEF BarrierSend, SendOob
<1>4. ASSUME NEW p \in Procs, BarrierRecv(p) PROVE SleepInv'
  BY <1>4 DEF BarrierRecv, AtEof
<1>5. ASSUME NEW p \in Procs, CloseSock(p) PROVE SleepInv'
  BY <1>5 DEF CloseSock
<1>6. ASSUME NEW p \in Procs, Destroy(p) PROVE SleepInv'
  BY <1>6 DEF Destroy
<1>7. ASSUME NEW p \in Procs, Detect(p) PROVE SleepInv'
  BY <1>7 DEF Detect, Deliver
<1>8. ASSUME NEW p \in Procs, Crash(p) PROVE SleepInv'
  BY <1>8 DEF Crash
<1>9. CASE Connect
  BY <1>9 DEF Connect
<1>10. CASE RecvLen
  BY <1>10 DEF RecvLen, RecvPeer, AtEof
<1>11. CASE RecvAddr
  BY <1>11 DEF RecvAddr, RecvPeer, AtEof
<1>12. CASE ClientEpCreate
  BY <1>12 DEF ClientEpCreate
<1>13. CASE ClientSend
  BY <1>13 DEF ClientSend, Deliver
<1>14. CASE ClientCheck
  BY <1>14 DEF ClientCheck
<1>15. CASE ClientProgress
  BY <1>15 DEF ClientProgress, Handle
<1>16. CASE WorkerWait
  BY <1>16 DEF WorkerWait
<1>17. CASE WakeUp
  BY <1>17 DEF WakeUp
<1>18. CASE ClientRecv
  BY <1>18 DEF ClientRecv
<1>19. CASE Listen
  BY <1>19 DEF Listen
<1>20. CASE Accept
  BY <1>20 DEF Accept
<1>21. CASE SendLen
  BY <1>21 DEF SendLen, SendOob
<1>22. CASE SendAddr
  BY <1>22 DEF SendAddr, SendOob
<1>23. CASE ServerProbe
  BY <1>23 DEF ServerProbe
<1>24. CASE ServerEpCreate
  BY <1>24 DEF ServerEpCreate
<1>25. CASE ServerProgress
  BY <1>25 DEF ServerProgress, Handle
<1>26. CASE ServerSend
  BY <1>26 DEF ServerSend, Deliver
<1>27. CASE WaitDown
  BY <1>27 DEF WaitDown, ServerWait, Handle
<1>28. CASE WaitFailed
  BY <1>28 DEF WaitFailed, ServerWait, Handle
<1>29. CASE Flush
  BY <1>29 DEF Flush
<1> QED
  BY <1>1, <1>2, <1>3, <1>4, <1>5, <1>6, <1>7, <1>8, <1>9, <1>10, <1>11, <1>12, <1>13, <1>14,
     <1>15, <1>16, <1>17, <1>18, <1>19, <1>20, <1>21, <1>22, <1>23, <1>24, <1>25, <1>26, <1>27,
     <1>28, <1>29, <1>30
  DEF Next, Client, Server, Common, Procs

(* Every step keeps endpoints and sockets in order with the progress of main. *)
LEMMA StageStep ==
    ASSUME HelloInv, [Next]_vars
    PROVE  StageInv'
<1> USE Effects DEF Becomes, SockAtExit, Killed, At, Ended, Saw, Fault, modes, ucx, Procs, Peer,
        HelloInv, StageInv, Exchange, Leaving, Quiet
<1>1. ASSUME NEW p \in Procs, Setup(p) PROVE StageInv'
  BY <1>1 DEF Setup
<1>2. ASSUME NEW p \in Procs, EpClose(p) PROVE StageInv'
  BY <1>2 DEF EpClose
<1>3. ASSUME NEW p \in Procs, BarrierSend(p) PROVE StageInv'
  BY <1>3 DEF BarrierSend, SendOob
<1>4. ASSUME NEW p \in Procs, BarrierRecv(p) PROVE StageInv'
  BY <1>4 DEF BarrierRecv, AtEof
<1>5. ASSUME NEW p \in Procs, CloseSock(p) PROVE StageInv'
  BY <1>5 DEF CloseSock
<1>6. ASSUME NEW p \in Procs, Destroy(p) PROVE StageInv'
  BY <1>6 DEF Destroy
<1>7. ASSUME NEW p \in Procs, Detect(p) PROVE StageInv'
  BY <1>7 DEF Detect, Deliver
<1>8. ASSUME NEW p \in Procs, Crash(p) PROVE StageInv'
  BY <1>8 DEF Crash
<1>9. CASE Connect
  BY <1>9 DEF Connect
<1>10. CASE RecvLen
  BY <1>10 DEF RecvLen, RecvPeer, AtEof
<1>11. CASE RecvAddr
  BY <1>11 DEF RecvAddr, RecvPeer, AtEof
<1>12. CASE ClientEpCreate
  BY <1>12 DEF ClientEpCreate
<1>13. CASE ClientSend
  BY <1>13 DEF ClientSend, Deliver
<1>14. CASE ClientCheck
  BY <1>14 DEF ClientCheck
<1>15. CASE ClientProgress
  BY <1>15 DEF ClientProgress, Handle
<1>16. CASE WorkerWait
  BY <1>16 DEF WorkerWait
<1>17. CASE WakeUp
  BY <1>17 DEF WakeUp
<1>18. CASE ClientRecv
  BY <1>18 DEF ClientRecv
<1>19. CASE Listen
  BY <1>19 DEF Listen
<1>20. CASE Accept
  BY <1>20 DEF Accept
<1>21. CASE SendLen
  BY <1>21 DEF SendLen, SendOob
<1>22. CASE SendAddr
  BY <1>22 DEF SendAddr, SendOob
<1>23. CASE ServerProbe
  BY <1>23 DEF ServerProbe
<1>24. CASE ServerEpCreate
  BY <1>24 DEF ServerEpCreate
<1>25. CASE ServerProgress
  BY <1>25 DEF ServerProgress, Handle
<1>26. CASE ServerSend
  BY <1>26 DEF ServerSend, Deliver
<1>27. CASE WaitDown
  BY <1>27 DEF WaitDown, ServerWait, Handle
<1>28. CASE WaitFailed
  BY <1>28 DEF WaitFailed, ServerWait, Handle
<1>29. CASE Flush
  BY <1>29 DEF Flush
<1>30. CASE UNCHANGED vars
  BY <1>30 DEF vars
<1> QED
  BY <1>1, <1>2, <1>3, <1>4, <1>5, <1>6, <1>7, <1>8, <1>9, <1>10, <1>11, <1>12, <1>13, <1>14,
     <1>15, <1>16, <1>17, <1>18, <1>19, <1>20, <1>21, <1>22, <1>23, <1>24, <1>25, <1>26, <1>27,
     <1>28, <1>29, <1>30
  DEF Next, Client, Server, Common, Procs

(* Every step lets failure_handler see only deaths that happened. *)
LEMMA FailureStep ==
    ASSUME HelloInv, [Next]_vars
    PROVE  FailureInv'
<1>30. CASE UNCHANGED vars
  BY <1>30, Stutter DEF HelloInv, FailureInv, Ended
<1> USE Effects DEF Becomes, SockAtExit, Killed, At, Ended, Saw, Fault, modes, ucx, Procs, Peer,
        HelloInv, QueueTypes, Wires, FailureInv
<1>1. ASSUME NEW p \in Procs, Setup(p) PROVE FailureInv'
  BY <1>1 DEF Setup
<1>2. ASSUME NEW p \in Procs, EpClose(p) PROVE FailureInv'
  BY <1>2 DEF EpClose
<1>3. ASSUME NEW p \in Procs, BarrierSend(p) PROVE FailureInv'
  BY <1>3 DEF BarrierSend, SendOob
<1>4. ASSUME NEW p \in Procs, BarrierRecv(p) PROVE FailureInv'
  BY <1>4 DEF BarrierRecv, AtEof
<1>5. ASSUME NEW p \in Procs, CloseSock(p) PROVE FailureInv'
  BY <1>5 DEF CloseSock
<1>6. ASSUME NEW p \in Procs, Destroy(p) PROVE FailureInv'
  BY <1>6 DEF Destroy
<1>7. ASSUME NEW p \in Procs, Detect(p) PROVE FailureInv'
  BY <1>7, DeliverFailure DEF Detect
<1>8. ASSUME NEW p \in Procs, Crash(p) PROVE FailureInv'
  BY <1>8 DEF Crash
<1>9. CASE Connect
  BY <1>9 DEF Connect
<1>10. CASE RecvLen
  BY <1>10 DEF RecvLen, RecvPeer, AtEof
<1>11. CASE RecvAddr
  BY <1>11 DEF RecvAddr, RecvPeer, AtEof
<1>12. CASE ClientEpCreate
  BY <1>12 DEF ClientEpCreate
<1>13. CASE ClientSend
  <2>1. CASE Deliver("server", "address")
    BY <1>13, <2>1, DeliverFailure DEF ClientSend
  <2>2. CASE UNCHANGED wire
    BY <1>13, <2>2 DEF ClientSend
  <2> QED
    BY <1>13, <2>1, <2>2 DEF ClientSend
<1>14. CASE ClientCheck
  BY <1>14 DEF ClientCheck
<1>15. CASE ClientProgress
  <2>1. CASE wire["client"] # <<>> /\ Handle("client", "check")
    BY <1>15, <2>1, HandleFailure DEF ClientProgress
  <2>2. CASE Goto("client", IF test_mode = "probe" THEN "check" ELSE "arm") /\ UNCHANGED ucx
    BY <1>15, <2>2 DEF ClientProgress
  <2> QED
    BY <1>15, <2>1, <2>2 DEF ClientProgress
<1>16. CASE WorkerWait
  BY <1>16 DEF WorkerWait
<1>17. CASE WakeUp
  BY <1>17 DEF WakeUp
<1>18. CASE ClientRecv
  BY <1>18 DEF ClientRecv
<1>19. CASE Listen
  BY <1>19 DEF Listen
<1>20. CASE Accept
  BY <1>20 DEF Accept
<1>21. CASE SendLen
  BY <1>21 DEF SendLen, SendOob
<1>22. CASE SendAddr
  BY <1>22 DEF SendAddr, SendOob
<1>23. CASE ServerProbe
  BY <1>23 DEF ServerProbe
<1>24. CASE ServerEpCreate
  BY <1>24 DEF ServerEpCreate
<1>25. CASE ServerProgress
  BY <1>25, HandleFailure DEF ServerProgress
<1>26. CASE ServerSend
  <2>1. CASE Deliver("client", "data")
    BY <1>26, <2>1, DeliverFailure DEF ServerSend
  <2>2. CASE UNCHANGED wire
    BY <1>26, <2>2 DEF ServerSend
  <2> QED
    BY <1>26, <2>1, <2>2 DEF ServerSend
<1>27. CASE WaitDown
  <2>1. CASE wire["server"] # <<>> /\ Handle("server", "waitdown")
    BY <1>27, <2>1, HandleFailure DEF WaitDown, ServerWait
  <2>2. CASE Goto("server", "flush") /\ UNCHANGED ucx
    BY <1>27, <2>2 DEF WaitDown, ServerWait
  <2> QED
    BY <1>27, <2>1, <2>2 DEF WaitDown, ServerWait
<1>28. CASE WaitFailed
  <2>1. CASE wire["server"] # <<>> /\ Handle("server", "waitfailed")
    BY <1>28, <2>1, HandleFailure DEF WaitFailed, ServerWait
  <2>2. CASE Goto("server", "epclose") /\ UNCHANGED ucx
    BY <1>28, <2>2 DEF WaitFailed, ServerWait
  <2> QED
    BY <1>28, <2>1, <2>2 DEF WaitFailed, ServerWait
<1>29. CASE Flush
  <2>1. /\ wire' = wire /\ st'["client"] = st["client"]
        /\ st'["server"].ep_status = st["server"].ep_status /\ ~Ended("server")
    BY <1>29 DEF Flush
  <2> QED
    BY <2>1
<1> QED
  BY <1>1, <1>2, <1>3, <1>4, <1>5, <1>6, <1>7, <1>8, <1>9, <1>10, <1>11, <1>12, <1>13, <1>14,
     <1>15, <1>16, <1>17, <1>18, <1>19, <1>20, <1>21, <1>22, <1>23, <1>24, <1>25, <1>26, <1>27,
     <1>28, <1>29, <1>30
  DEF Next, Client, Server, Common, Procs

(* Every step keeps the barrier's messages behind the closing of endpoints. *)
LEMMA OobStep ==
    ASSUME HelloInv, [Next]_vars
    PROVE  OobInv'
<1>30. CASE UNCHANGED vars
  BY <1>30, Stutter DEF HelloInv, OobInv
<1> USE Effects DEF Becomes, SockAtExit, Killed, At, Ended, Saw, Fault, modes, ucx, Procs, Peer,
        HelloInv, StageInv, Exchange, Leaving, Quiet, OobInv, Past
<1>1. ASSUME NEW p \in Procs, Setup(p) PROVE OobInv'
  BY <1>1 DEF Setup
<1>2. ASSUME NEW p \in Procs, EpClose(p) PROVE OobInv'
  BY <1>2 DEF EpClose
<1>3. ASSUME NEW p \in Procs, BarrierSend(p) PROVE OobInv'
  BY <1>3 DEF BarrierSend, SendOob, QueueTypes, Oobs
<1>4. ASSUME NEW p \in Procs, BarrierRecv(p) PROVE OobInv'
  BY <1>4 DEF BarrierRecv, AtEof, QueueTypes, Oobs
<1>5. ASSUME NEW p \in Procs, CloseSock(p) PROVE OobInv'
  BY <1>5 DEF CloseSock
<1>6. ASSUME NEW p \in Procs, Destroy(p) PROVE OobInv'
  BY <1>6 DEF Destroy
<1>7. ASSUME NEW p \in Procs, Detect(p) PROVE OobInv'
  BY <1>7 DEF Detect, Deliver
<1>8. ASSUME NEW p \in Procs, Crash(p) PROVE OobInv'
  BY <1>8 DEF Crash
<1>9. CASE Connect
  BY <1>9 DEF Connect
<1>10. CASE RecvLen
  BY <1>10 DEF RecvLen, RecvPeer, AtEof, QueueTypes, Oobs
<1>11. CASE RecvAddr
  BY <1>11 DEF RecvAddr, RecvPeer, AtEof, QueueTypes, Oobs
<1>12. CASE ClientEpCreate
  BY <1>12 DEF ClientEpCreate
<1>13. CASE ClientSend
  BY <1>13 DEF ClientSend, Deliver
<1>14. CASE ClientCheck
  BY <1>14 DEF ClientCheck
<1>15. CASE ClientProgress
  BY <1>15 DEF ClientProgress, Handle
<1>16. CASE WorkerWait
  BY <1>16 DEF WorkerWait
<1>17. CASE WakeUp
  BY <1>17 DEF WakeUp
<1>18. CASE ClientRecv
  BY <1>18 DEF ClientRecv
<1>19. CASE Listen
  BY <1>19 DEF Listen
<1>20. CASE Accept
  BY <1>20 DEF Accept
<1>21. CASE SendLen
  BY <1>21 DEF SendLen, SendOob, QueueTypes, Oobs
<1>22. CASE SendAddr
  BY <1>22 DEF SendAddr, SendOob, QueueTypes, Oobs
<1>23. CASE ServerProbe
  <2>1. /\ oob' = oob /\ st'["client"] = st["client"] /\ st'["server"].ep = st["server"].ep
        /\ st'["server"].pc \in {"epcreate", "closesock", "killed"}
    BY <1>23 DEF ServerProbe
  <2> QED
    BY <1>23, <2>1 DEF ServerProbe
<1>24. CASE ServerEpCreate
  BY <1>24 DEF ServerEpCreate
<1>25. CASE ServerProgress
  BY <1>25 DEF ServerProgress, Handle
<1>26. CASE ServerSend
  BY <1>26 DEF ServerSend, Deliver
<1>27. CASE WaitDown
  BY <1>27 DEF WaitDown, ServerWait, Handle
<1>28. CASE WaitFailed
  BY <1>28 DEF WaitFailed, ServerWait, Handle
<1>29. CASE Flush
  BY <1>29 DEF Flush
<1> QED
  BY <1>1, <1>2, <1>3, <1>4, <1>5, <1>6, <1>7, <1>8, <1>9, <1>10, <1>11, <1>12, <1>13, <1>14,
     <1>15, <1>16, <1>17, <1>18, <1>19, <1>20, <1>21, <1>22, <1>23, <1>24, <1>25, <1>26, <1>27,
     <1>28, <1>29, <1>30
  DEF Next, Client, Server, Common, Procs

(* In a run without failures no process gives up before the other is through. *)
LEMMA OverStep ==
    ASSUME HelloInv, [Next]_vars
    PROVE  OverInv'
<1>30. CASE UNCHANGED vars
  BY <1>30, Stutter DEF HelloInv, OverInv, Over, Quiet
<1> USE Effects DEF Becomes, SockAtExit, Killed, At, Ended, Saw, Fault, modes, ucx, Procs, Peer,
        HelloInv, StageInv, Exchange, Leaving, Quiet, FailureInv,
        OobInv, Past, OverInv, Over
<1>1. ASSUME NEW p \in Procs, Setup(p) PROVE OverInv'
  BY <1>1 DEF Setup
<1>2. ASSUME NEW p \in Procs, EpClose(p) PROVE OverInv'
  BY <1>2 DEF EpClose
<1>3. ASSUME NEW p \in Procs, BarrierSend(p) PROVE OverInv'
  BY <1>3 DEF BarrierSend, SendOob, QueueTypes, Oobs
<1>4. ASSUME NEW p \in Procs, BarrierRecv(p) PROVE OverInv'
  BY <1>4 DEF BarrierRecv, AtEof, QueueTypes, Oobs
<1>5. ASSUME NEW p \in Procs, CloseSock(p) PROVE OverInv'
  BY <1>5 DEF CloseSock
<1>6. ASSUME NEW p \in Procs, Destroy(p) PROVE OverInv'
  BY <1>6 DEF Destroy
<1>7. ASSUME NEW p \in Procs, Detect(p) PROVE OverInv'
  BY <1>7 DEF Detect, Deliver
<1>8. ASSUME NEW p \in Procs, Crash(p) PROVE OverInv'
  BY <1>8 DEF Crash
<1>9. CASE Connect
  BY <1>9 DEF Connect
<1>10. CASE RecvLen
  BY <1>10 DEF RecvLen, RecvPeer, AtEof, QueueTypes, Oobs
<1>11. CASE RecvAddr
  BY <1>11 DEF RecvAddr, RecvPeer, AtEof, QueueTypes, Oobs
<1>12. CASE ClientEpCreate
  BY <1>12 DEF ClientEpCreate
<1>13. CASE ClientSend
  BY <1>13 DEF ClientSend, Deliver
<1>14. CASE ClientCheck
  <2>1. st["client"].ep_status \in {"ok", "failed"}
    BY DEF StType, State
  <2> QED
    BY <1>14, <2>1 DEF ClientCheck
<1>15. CASE ClientProgress
  BY <1>15 DEF ClientProgress, Handle
<1>16. CASE WorkerWait
  BY <1>16 DEF WorkerWait
<1>17. CASE WakeUp
  BY <1>17 DEF WakeUp
<1>18. CASE ClientRecv
  BY <1>18 DEF ClientRecv
<1>19. CASE Listen
  BY <1>19 DEF Listen
<1>20. CASE Accept
  BY <1>20 DEF Accept
<1>21. CASE SendLen
  BY <1>21 DEF SendLen, SendOob, QueueTypes, Oobs
<1>22. CASE SendAddr
  BY <1>22 DEF SendAddr, SendOob, QueueTypes, Oobs
<1>23. CASE ServerProbe
  BY <1>23 DEF ServerProbe
<1>24. CASE ServerEpCreate
  BY <1>24 DEF ServerEpCreate
<1>25. CASE ServerProgress
  BY <1>25 DEF ServerProgress, Handle
<1>26. CASE ServerSend
  BY <1>26 DEF ServerSend, Deliver
<1>27. CASE WaitDown
  BY <1>27 DEF WaitDown, ServerWait, Handle
<1>28. CASE WaitFailed
  BY <1>28 DEF WaitFailed, ServerWait, Handle
<1>29. CASE Flush
  BY <1>29 DEF Flush
<1> QED
  BY <1>1, <1>2, <1>3, <1>4, <1>5, <1>6, <1>7, <1>8, <1>9, <1>10, <1>11, <1>12, <1>13, <1>14,
     <1>15, <1>16, <1>17, <1>18, <1>19, <1>20, <1>21, <1>22, <1>23, <1>24, <1>25, <1>26, <1>27,
     <1>28, <1>29, <1>30
  DEF Next, Client, Server, Common, Procs

(* Every step that sets ret to 0 has a reason to. *)
LEMMA ZeroStep ==
    ASSUME HelloInv, [Next]_vars
    PROVE  ZeroInv'
<1>30. CASE UNCHANGED vars
  BY <1>30, Stutter DEF HelloInv, ZeroInv
<1> USE Effects DEF Becomes, SockAtExit, Killed, At, Ended, Saw, Fault, modes, ucx, Procs, Peer,
        HelloInv, Leaving, ZeroInv
<1>1. ASSUME NEW p \in Procs, Setup(p) PROVE ZeroInv'
  BY <1>1 DEF Setup
<1>2. ASSUME NEW p \in Procs, EpClose(p) PROVE ZeroInv'
  BY <1>2 DEF EpClose
<1>3. ASSUME NEW p \in Procs, BarrierSend(p) PROVE ZeroInv'
  BY <1>3 DEF BarrierSend, SendOob, QueueTypes, Oobs, Exchange, StageInv
<1>4. ASSUME NEW p \in Procs, BarrierRecv(p) PROVE ZeroInv'
  <2>1. /\ st'[p].pc = "closesock" /\ st'[p].ret \in {0, 1} /\ st'[p].ep = st[p].ep
        /\ st'[Peer(p)] = st[Peer(p)] /\ seen' = seen /\ failure_mode' = failure_mode
        /\ st'[p].ret = 0 => oob[p] # <<>>
    BY <1>4 DEF BarrierRecv, AtEof
  <2>2. oob'["server"] # <<>> => oob["server"] # <<>>
    BY <1>4 DEF BarrierRecv, QueueTypes, Oobs
  <2>3. st[p].ep = "closed" /\ st[p].pc = "barrierwait"
    BY <1>4 DEF BarrierRecv, StageInv
  <2>4. CASE p = "client"
    BY <2>1, <2>2, <2>3, <2>4
  <2>5. CASE p = "server"
    BY <2>1, <2>2, <2>3, <2>5
  <2> QED
    BY <2>4, <2>5
<1>5. ASSUME NEW p \in Procs, CloseSock(p) PROVE ZeroInv'
  BY <1>5 DEF CloseSock
<1>6. ASSUME NEW p \in Procs, Destroy(p) PROVE ZeroInv'
  BY <1>6 DEF Destroy
<1>7. ASSUME NEW p \in Procs, Detect(p) PROVE ZeroInv'
  BY <1>7 DEF Detect, Deliver
<1>8. ASSUME NEW p \in Procs, Crash(p) PROVE ZeroInv'
  BY <1>8 DEF Crash
<1>9. CASE Connect
  BY <1>9 DEF Connect
<1>10. CASE RecvLen
  BY <1>10 DEF RecvLen, RecvPeer, AtEof, QueueTypes, Oobs, Exchange, StageInv
<1>11. CASE RecvAddr
  BY <1>11 DEF RecvAddr, RecvPeer, AtEof, QueueTypes, Oobs, Exchange, StageInv
<1>12. CASE ClientEpCreate
  BY <1>12 DEF ClientEpCreate
<1>13. CASE ClientSend
  BY <1>13 DEF ClientSend, Deliver
<1>14. CASE ClientCheck
  BY <1>14 DEF ClientCheck
<1>15. CASE ClientProgress
  BY <1>15 DEF ClientProgress, Handle
<1>16. CASE WorkerWait
  BY <1>16 DEF WorkerWait
<1>17. CASE WakeUp
  BY <1>17 DEF WakeUp
<1>18. CASE ClientRecv
  BY <1>18 DEF ClientRecv
<1>19. CASE Listen
  BY <1>19 DEF Listen
<1>20. CASE Accept
  BY <1>20 DEF Accept
<1>21. CASE SendLen
  BY <1>21 DEF SendLen, SendOob, QueueTypes, Oobs, Exchange, StageInv
<1>22. CASE SendAddr
  BY <1>22 DEF SendAddr, SendOob, QueueTypes, Oobs, Exchange, StageInv
<1>23. CASE ServerProbe
  BY <1>23 DEF ServerProbe
<1>24. CASE ServerEpCreate
  BY <1>24 DEF ServerEpCreate, StageInv, Exchange
<1>25. CASE ServerProgress
  BY <1>25 DEF ServerProgress, Handle
<1>26. CASE ServerSend
  BY <1>26 DEF ServerSend, Deliver
<1>27. CASE WaitDown
  BY <1>27 DEF WaitDown, ServerWait, Handle
<1>28. CASE WaitFailed
  BY <1>28 DEF WaitFailed, ServerWait, Handle
<1>29. CASE Flush
  BY <1>29 DEF Flush
<1> QED
  BY <1>1, <1>2, <1>3, <1>4, <1>5, <1>6, <1>7, <1>8, <1>9, <1>10, <1>11, <1>12, <1>13, <1>14,
     <1>15, <1>16, <1>17, <1>18, <1>19, <1>20, <1>21, <1>22, <1>23, <1>24, <1>25, <1>26, <1>27,
     <1>28, <1>29, <1>30
  DEF Next, Client, Server, Common, Procs

(* The invariant holds when both processes start. *)
LEMMA HelloInit == Init => HelloInv
<1> SUFFICES ASSUME Init PROVE HelloInv
  OBVIOUS
<1>1. StType
  BY DEF Init, StType, State, Labels, Rets, Ends
<1>2. QueueTypes
  BY DEF Init, QueueTypes, Oobs, Wires
<1>3. \A p \in Procs : /\ st[p].pc = "init" /\ st[p].ret = -1 /\ st[p].ep_status = "ok"
                       /\ st[p].ep = "none" /\ st[p].sock = "none"
                       /\ oob[p] = <<>> /\ wire[p] = <<>>
  BY DEF Init
<1>4. SleepInv /\ FailureInv
  BY <1>3, ProcNames DEF SleepInv, FailureInv, At
<1>5. StageInv /\ OobInv /\ OverInv /\ ZeroInv
  BY <1>3, ProcNames DEF ZeroInv, StageInv, OobInv, OverInv, Over, Exchange, Leaving, Past
<1> QED
  BY <1>1, <1>2, <1>4, <1>5 DEF HelloInv

(* Every step preserves the invariant. *)
LEMMA HelloStep == HelloInv /\ [Next]_vars => HelloInv'
  BY StStep, QueueStep, SleepStep, StageStep, FailureStep, OobStep, OverStep, ZeroStep
  DEF HelloInv

(* The invariant holds in every reachable state. *)
THEOREM Invariant == Spec => []HelloInv
  BY HelloInit, HelloStep, PTL DEF Spec

(* The client of ucp_hello_world never sleeps in epoll_wait or             *)
(* ucp_worker_wait with an event in front of its worker and no signal.     *)
THEOREM NoLostWakeup == Spec => []SleepsOnlyIdle
<1>1. HelloInv => SleepsOnlyIdle
  BY DEF HelloInv, SleepInv, SleepsOnlyIdle
<1> QED
  BY <1>1, Invariant, PTL

(* The barrier of ucp_hello_world's main does what its comment says: in a  *)
(* run without failures no worker is destroyed while the other process has *)
(* an open endpoint to it.                                                 *)
THEOREM BarrierProtectsWorker == Spec => []WorkerOutlivesPeerEndpoint
<1>1. HelloInv => WorkerOutlivesPeerEndpoint
  BY ProcNames DEF HelloInv, StageInv, OverInv, Over, Quiet, Leaving, Exchange, At,
                   WorkerOutlivesPeerEndpoint
<1> QED
  BY <1>1, Invariant, PTL

(* The exit status 0 of ucp_hello_world: the client has printed the test   *)
(* string or was told nothing by a server that closed; the server knows    *)
(* from the barrier that the client has the string, or with -e has sent it *)
(* or found no client to send it to.                                       *)
THEOREM StatusZero == Spec => []ZeroExplained
<1>1. HelloInv => ZeroExplained
  BY DEF HelloInv, ZeroInv, ZeroExplained, At
<1> QED
  BY <1>1, Invariant, PTL
=============================================================================
