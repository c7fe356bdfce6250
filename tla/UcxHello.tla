------------------------------ MODULE UcxHello ------------------------------
(***************************************************************************)
(* rdma_exp/ucp_hello_world.c, with the helpers of hello_world_util.h and  *)
(* ucp_util.h it calls: a server and a client process exchange the address *)
(* of the server's UCX worker over a TCP socket (out of band, "oob"), the  *)
(* client sends its own address through UCX, and the server answers with   *)
(* a test string.  With -e one of the two kills itself on purpose and the  *)
(* other has to notice.                                                    *)
(*                                                                         *)
(* Each process is a thread that goes through main, one system call, UCX   *)
(* call or turn of a progress loop per step.  UCX itself is external:      *)
(* wire[p] holds the events that reached the worker of p and that no       *)
(* ucp_worker_progress has handled, tags[p] the messages a probe can find. *)
(* Both processes are started with the same -e.                            *)
(***************************************************************************)
EXTENDS Integers, Sequences

CONSTANTS FailureModes,  \* values of -e that are tried, "none" for no -e
          TestModes,     \* how the client waits: "probe" (-b), "wait" (-w), "eventfd" (-f)
          Faults         \* TRUE if processes may die and UCX and socket calls may fail

ASSUME UcxHelloAssumption == /\ FailureModes \subseteq {"none", "send", "recv", "keepalive"}
                             /\ TestModes \subseteq {"probe", "wait", "eventfd"}
                             /\ Faults \in BOOLEAN

VARIABLES failure_mode,  \* err_handling_opt.failure_mode; the error mode is PEER unless "none"
          test_mode,     \* ucp_test_mode of the client
          st,            \* st[p]: pc, ret, ep_status, ep (the endpoint) and sock (oob_sock)
          oob,           \* oob[p]: what process p can read from its socket
          wire,          \* wire[p]: events for the worker of p
          tags,          \* tags[p]: messages received by progress, for ucp_tag_probe_nb
          armed,         \* the client's worker signals its event fd at the next event
          signal,        \* the event fd is readable
          seen           \* history: set of "sent", "got", "eof" and "fault"

vars == <<failure_mode, test_mode, st, oob, wire, tags, armed, signal, seen>>
modes == <<failure_mode, test_mode>>
ucx == <<wire, tags, armed, signal>>

Procs == {"client", "server"}
Peer(p) == IF p = "client" THEN "server" ELSE "client"
At(p, l) == st[p].pc = l
Ended(p) == st[p].pc \in {"exited", "killed"}

Goto(p, l) == st' = [st EXCEPT ![p] = [@ EXCEPT !.pc = l]]
GotoWith(p, r, l) == st' = [st EXCEPT ![p] = [@ EXCEPT !.pc = l, !.ret = r]]
GotoSock(p, s, l) == st' = [st EXCEPT ![p] = [@ EXCEPT !.pc = l, !.sock = s]]
GotoEp(p, e, l) == st' = [st EXCEPT ![p] = [@ EXCEPT !.pc = l, !.ep = e]]
GotoFailed(p, l) == st' = [st EXCEPT ![p] = [@ EXCEPT !.pc = l, !.ep_status = "failed"]]
Killed(p) == GotoSock(p, "closed", "killed")

(* The state of the socket of p after the process has ended. *)
SockAtExit(p) == IF st[p].sock = "open" THEN "closed" ELSE st[p].sock

Saw(e) == seen' = seen \union {e}

(* Something in the environment of the program goes wrong. *)
Fault == Faults /\ Saw("fault")

(* Both processes after parse_cmd, before ucp_init. *)
Init == /\ failure_mode \in FailureModes
        /\ test_mode \in TestModes
        /\ st = [p \in Procs |-> [pc |-> "init", ret |-> -1, ep_status |-> "ok", ep |-> "none",
                                  sock |-> "none"]]
        /\ oob = [p \in Procs |-> <<>>]
        /\ wire = [p \in Procs |-> <<>>]
        /\ tags = [p \in Procs |-> <<>>]
        /\ armed = FALSE
        /\ signal = FALSE
        /\ seen = {}
-----------------------------------------------------------------------------
(* UCX, external.  An event for q: a message, or the failure of its peer.  *)
Deliver(q, e) ==
    /\ wire' = [wire EXCEPT ![q] = IF Ended(q) THEN @ ELSE Append(@, e)]
    /\ signal' = (signal \/ (q = "client" /\ armed))
    /\ UNCHANGED <<tags, armed>>

(* Keepalive: an endpoint with error mode PEER learns of the death of the  *)
(* process at the other end.  Without that mode it may, or may not.        *)
Detect(p) == /\ st[p].ep = "open" /\ Ended(Peer(p))
             /\ st[p].ep_status = "ok"
             /\ \A i \in DOMAIN wire[p] : wire[p][i] # "failure"
             /\ Deliver(p, "failure")
             /\ UNCHANGED <<modes, st, oob, seen>>

(* ucp_worker_progress handles an event: it runs failure_handler, or makes *)
(* a message available to the probe.                                       *)
Handle(p, l) ==
    LET e == Head(wire[p])
    IN  /\ wire' = [wire EXCEPT ![p] = Tail(@)]
        /\ IF e = "failure"
             THEN /\ GotoFailed(p, l)
                  /\ UNCHANGED tags
             ELSE /\ Goto(p, l)
                  /\ tags' = [tags EXCEPT ![p] = Append(@, e)]
        /\ UNCHANGED <<armed, signal>>
-----------------------------------------------------------------------------
(* The socket, external.  What send() does to a peer that has closed: the  *)
(* bytes are lost, or it fails, or SIGPIPE ends the process.               *)
SendOob(p, what, next, failed) ==
    \/ /\ IF st[Peer(p)].sock = "open"
            THEN oob' = [oob EXCEPT ![Peer(p)] = Append(@, what)]
            ELSE UNCHANGED oob
       /\ Goto(p, next)
       /\ UNCHANGED seen
    \/ /\ st[Peer(p)].sock = "closed" \/ Faults
       /\ GotoWith(p, -1, failed)
       /\ IF st[Peer(p)].sock = "closed" THEN UNCHANGED seen ELSE Saw("fault")
       /\ UNCHANGED oob
    \/ /\ st[Peer(p)].sock = "closed"
       /\ Killed(p)
       /\ UNCHANGED <<oob, seen>>

(* recv() finds no more bytes and the other end closed. *)
AtEof(p) == oob[p] = <<>> /\ st[Peer(p)].sock = "closed"

(* ucp_init, ucp_worker_create and ucp_worker_query of main. *)
Setup(p) == /\ At(p, "init")
            /\ \/ Goto(p, "connect") /\ UNCHANGED seen
               \/ Goto(p, "exited") /\ Fault
            /\ UNCHANGED <<modes, oob, ucx>>

(* connect_common(NULL, ...): bind and listen, then accept one client.     *)
Listen == /\ At("server", "connect")
          /\ \/ Goto("server", "accept") /\ UNCHANGED seen
             \/ Goto("server", "destroy") /\ Fault
          /\ UNCHANGED <<modes, oob, ucx>>

Accept == /\ At("server", "accept") /\ st["client"].sock # "none"
          /\ GotoSock("server", "open", "sendlen")
          /\ UNCHANGED <<modes, oob, ucx, seen>>

(* connect_common(server, ...): refused unless the server is listening.    *)
Connect == /\ At("client", "connect")
           /\ IF At("server", "accept")
                THEN GotoSock("client", "open", "recvlen")
                ELSE Goto("client", "destroy")
           /\ UNCHANGED <<modes, oob, ucx, seen>>

(* The server sends its address length, then its address. *)
SendLen == /\ At("server", "sendlen")
           /\ SendOob("server", "len", "sendaddr", "destroy")
           /\ UNCHANGED <<modes, ucx>>

SendAddr == /\ At("server", "sendaddr")
            /\ SendOob("server", "addr", "probe", "destroy")
            /\ UNCHANGED <<modes, ucx>>

(* The client reads them.  main returns what the failed recv returned: 0   *)
(* where the server has closed, so that the process reports success.  A    *)
(* server that dies before it accepts resets the connection.               *)
RecvPeer(l, next) ==
    /\ At("client", l)
    /\ \/ /\ oob["client"] # <<>>
          /\ oob' = [oob EXCEPT !["client"] = Tail(@)]
          /\ Goto("client", next)
          /\ UNCHANGED seen
       \/ /\ AtEof("client")
          /\ GotoWith("client", 0, "destroy")
          /\ Saw("eof")
          /\ UNCHANGED oob
       \/ /\ Ended("server") /\ oob["client"] = <<>>
          /\ GotoWith("client", -1, "destroy")
          /\ UNCHANGED <<oob, seen>>
    /\ UNCHANGED <<modes, ucx>>

RecvLen == RecvPeer("recvlen", "recvaddr")
RecvAddr == RecvPeer("recvaddr", "epcreate")
-----------------------------------------------------------------------------
(* run_ucx_client *)
ClientEpCreate ==
    /\ At("client", "epcreate")
    /\ \/ GotoEp("client", "open", "send") /\ UNCHANGED seen
       \/ GotoWith("client", -1, "closesock") /\ Fault
    /\ UNCHANGED <<modes, oob, ucx>>

(* ucp_tag_send_nbx and ucx_wait, then the emulated failure of -e recv.    *)
ClientSend ==
    /\ At("client", "send")
    /\ \/ /\ Deliver("server", "address")
          /\ IF failure_mode = "recv" THEN Killed("client") ELSE Goto("client", "check")
          /\ UNCHANGED seen
       \/ /\ GotoWith("client", -1, "epclose") /\ Fault
          /\ UNCHANGED ucx
    /\ UNCHANGED <<modes, oob>>

(* The wait loop: the endpoint's status first, then ucp_tag_probe_nb, which *)
(* takes the message; then the emulated failure of -e keepalive.            *)
ClientCheck ==
    /\ At("client", "check")
    /\ \/ /\ st["client"].ep_status # "ok"
          /\ GotoWith("client", -1, "epclose")
          /\ UNCHANGED tags
       \/ /\ st["client"].ep_status = "ok" /\ tags["client"] # <<>>
          /\ tags' = [tags EXCEPT !["client"] = Tail(@)]
          /\ IF failure_mode = "keepalive" THEN Killed("client") ELSE Goto("client", "recv")
       \/ /\ st["client"].ep_status = "ok" /\ tags["client"] = <<>>
          /\ Goto("client", "progress")
          /\ UNCHANGED tags
    /\ UNCHANGED <<modes, oob, wire, armed, signal, seen>>

(* ucp_worker_progress; where it has handled nothing the client may sleep. *)
ClientProgress ==
    /\ At("client", "progress")
    /\ IF wire["client"] # <<>>
         THEN Handle("client", "check")
         ELSE /\ Goto("client", IF test_mode = "probe" THEN "check" ELSE "arm")
              /\ UNCHANGED ucx
    /\ UNCHANGED <<modes, oob, seen>>

(* Mutant: epoll_wait without ucp_worker_arm. *)
WorkerWaitUnarmed ==
    /\ At("client", "arm")
    /\ Goto("client", "asleep")
    /\ UNCHANGED <<modes, oob, ucx, seen>>

(* test_poll_wait, and the same inside ucp_worker_wait: ucp_worker_arm is  *)
(* refused (UCS_ERR_BUSY) while there are events, and makes the event fd   *)
(* readable at the next one.                                               *)
WorkerWait ==
    /\ At("client", "arm")
    /\ \/ /\ wire["client"] # <<>>
          /\ Goto("client", "check")
          /\ UNCHANGED <<ucx, seen>>
       \/ /\ wire["client"] = <<>>
          /\ armed' = TRUE
          /\ Goto("client", "asleep")
          /\ UNCHANGED <<wire, tags, signal, seen>>
       \/ /\ GotoWith("client", -1, "epclose") /\ Fault
          /\ UNCHANGED ucx
    /\ UNCHANGED <<modes, oob>>

(* epoll_wait returns; a signal interrupts it to no effect. *)
WakeUp ==
    /\ At("client", "asleep") /\ signal
    /\ armed' = FALSE
    /\ signal' = FALSE
    /\ Goto("client", "check")
    /\ UNCHANGED <<modes, oob, wire, tags, seen>>

(* ucp_tag_msg_recv_nbx of the probed message, and the success report. *)
ClientRecv ==
    /\ At("client", "recv")
    /\ \/ GotoWith("client", 0, "epclose") /\ Saw("got")
       \/ GotoWith("client", -1, "epclose") /\ Fault
    /\ UNCHANGED <<modes, oob, ucx>>
-----------------------------------------------------------------------------
(* run_ucx_server: progress and probe until the client's address is there, *)
(* receive it; then the emulated failure of -e send.                       *)
ServerProbe ==
    /\ At("server", "probe") /\ wire["server"] # <<>>
    /\ wire' = [wire EXCEPT !["server"] = Tail(@)]
    /\ \/ /\ IF failure_mode = "send" THEN Killed("server") ELSE Goto("server", "epcreate")
          /\ UNCHANGED seen
       \/ GotoWith("server", -1, "closesock") /\ Fault
    /\ UNCHANGED <<modes, oob, tags, armed, signal>>

(* ucp_ep_create: not to be had, perhaps, for a client that is dead, which *)
(* is a success where failures are tested.                                 *)
ServerEpCreate ==
    /\ At("server", "epcreate")
    /\ \/ GotoEp("server", "open", "send") /\ UNCHANGED seen
       \/ /\ Ended("client") \/ Faults
          /\ GotoWith("server", IF failure_mode # "none" THEN 0 ELSE -1, "closesock")
          /\ IF Ended("client") THEN UNCHANGED seen ELSE Saw("fault")
    /\ UNCHANGED <<modes, oob, ucx>>

(* The progress before the send, which may run failure_handler. *)
ServerProgress ==
    /\ At("server", "send") /\ wire["server"] # <<>>
    /\ Handle("server", "send")
    /\ UNCHANGED <<modes, oob, seen>>

(* ucp_tag_send_nbx and ucx_wait.  A failed send is an error where         *)
(* failures are tested; elsewhere ret becomes 0, after failure_handler     *)
(* has run.                                                                *)
ServerSend ==
    /\ At("server", "send")
    /\ \/ /\ st["server"].ep_status = "ok"
          /\ Deliver("client", "data")
          /\ Goto("server", IF failure_mode = "keepalive" THEN "waitdown" ELSE "flush")
          /\ Saw("sent")
       \/ /\ Ended("client") \/ Faults
          /\ IF failure_mode # "none" THEN GotoWith("server", -1, "epclose")
                                      ELSE GotoWith("server", 0, "waitfailed")
          /\ IF Ended("client") THEN UNCHANGED seen ELSE Saw("fault")
          /\ UNCHANGED ucx
    /\ UNCHANGED <<modes, oob>>

(* The loops while (ep_status == UCS_OK). *)
ServerWait(l, next) ==
    /\ At("server", l)
    /\ \/ st["server"].ep_status = "ok" /\ wire["server"] # <<>> /\ Handle("server", l)
       \/ st["server"].ep_status # "ok" /\ Goto("server", next) /\ UNCHANGED ucx
    /\ UNCHANGED <<modes, oob, seen>>

WaitDown == ServerWait("waitdown", "flush")
WaitFailed == ServerWait("waitfailed", "epclose")

(* flush_ep, whose status is only printed. *)
Flush == /\ At("server", "flush")
         /\ GotoWith("server", 0, "epclose")
         /\ UNCHANGED <<modes, oob, ucx, seen>>
-----------------------------------------------------------------------------
(* ep_close_err_mode and the test of main: only a success without -e goes  *)
(* through the barrier.                                                    *)
EpClose(p) ==
    /\ At(p, "epclose")
    /\ GotoEp(p, "closed", IF st[p].ret = 0 /\ failure_mode = "none" THEN "barrier"
                                                                     ELSE "closesock")
    /\ UNCHANGED <<modes, oob, ucx, seen>>

BarrierSend(p) == /\ At(p, "barrier")
                  /\ SendOob(p, "dummy", "barrierwait", "closesock")
                  /\ UNCHANGED <<modes, ucx>>

(* Mutant: the barrier does not wait for the other side. *)
BarrierRecvNoWait(p) ==
    /\ At(p, "barrierwait")
    /\ GotoWith(p, 0, "closesock")
    /\ UNCHANGED <<modes, oob, ucx, seen>>

(* Mutant: the count of received bytes is not compared. *)
BarrierRecvAny(p) ==
    /\ At(p, "barrierwait")
    /\ oob[p] # <<>> \/ AtEof(p)
    /\ GotoWith(p, 0, "closesock")
    /\ UNCHANGED <<modes, oob, ucx, seen>>

(* poll, with progress of the worker, until there is something to recv.    *)
BarrierRecv(p) ==
    /\ At(p, "barrierwait")
    /\ \/ /\ oob[p] # <<>>
          /\ oob' = [oob EXCEPT ![p] = Tail(@)]
          /\ GotoWith(p, 0, "closesock")
       \/ /\ AtEof(p)
          /\ GotoWith(p, 1, "closesock")
          /\ UNCHANGED oob
    /\ UNCHANGED <<modes, ucx, seen>>

(* close(oob_sock) *)
CloseSock(p) == /\ At(p, "closesock")
                /\ GotoSock(p, "closed", "destroy")
                /\ UNCHANGED <<modes, oob, ucx, seen>>

(* ucp_worker_destroy and the end of main, which closes what is open. *)
Destroy(p) == /\ At(p, "destroy")
              /\ GotoSock(p, SockAtExit(p), "exited")
              /\ UNCHANGED <<modes, oob, ucx, seen>>

(* A process dies where the program does not intend it. *)
Crash(p) == /\ ~Ended(p) /\ Fault
            /\ GotoSock(p, SockAtExit(p), "killed")
            /\ UNCHANGED <<modes, oob, ucx>>
-----------------------------------------------------------------------------
Common(p) == \/ Setup(p) \/ EpClose(p) \/ BarrierSend(p) \/ BarrierRecv(p)
             \/ CloseSock(p) \/ Destroy(p)

Client == \/ Common("client") \/ Connect \/ RecvLen \/ RecvAddr
          \/ ClientEpCreate \/ ClientSend \/ ClientCheck \/ ClientProgress
          \/ WorkerWait \/ WakeUp \/ ClientRecv

Server == \/ Common("server") \/ Listen \/ Accept \/ SendLen \/ SendAddr
          \/ ServerProbe \/ ServerEpCreate \/ ServerProgress \/ ServerSend
          \/ WaitDown \/ WaitFailed \/ Flush

Next == Client \/ Server \/ \E p \in Procs : Detect(p) \/ Crash(p)

(* The two processes run, and keepalive works where it is switched on. *)
Spec == /\ Init /\ [][Next]_vars
        /\ WF_vars(Client) /\ WF_vars(Server)
        /\ \A p \in Procs : WF_vars(failure_mode # "none" /\ Detect(p))
-----------------------------------------------------------------------------
(* Type invariant. *)
TypeOK ==
    /\ failure_mode \in FailureModes /\ test_mode \in TestModes
    /\ \A p \in Procs : /\ st[p].ret \in {-1, 0, 1}
                        /\ st[p].ep_status \in {"ok", "failed"}
                        /\ st[p].ep \in {"none", "open", "closed"}
                        /\ st[p].sock \in {"none", "open", "closed"}
    /\ oob \in [Procs -> Seq({"len", "addr", "dummy"})]
    /\ wire \in [Procs -> Seq({"address", "data", "failure"})]
    /\ tags \in [Procs -> Seq({"address", "data"})]
    /\ {armed, signal} \subseteq BOOLEAN
    /\ seen \subseteq {"sent", "got", "eof", "fault"}

(* No lost wake-up: the client never sleeps on an event fd that stays      *)
(* silent while its worker has an event, although the event may come       *)
(* between the progress that found none and the sleep.                     *)
SleepsOnlyIdle ==
    At("client", "asleep") /\ ~signal => wire["client"] = <<>>

(* "Make sure remote is disconnected before destroying local worker": a    *)
(* run without -e and without faults never destroys a worker to which the  *)
(* other process still has an open endpoint.                               *)
WorkerOutlivesPeerEndpoint ==
    failure_mode = "none" /\ "fault" \notin seen =>
        \A p \in Procs : At(p, "exited") => st[Peer(p)].ep # "open"

(* What exit status 0 tells.  The client has printed the test string, or   *)
(* the server closed the socket while addresses were exchanged.  Without   *)
(* -e a server's 0 means that the client has the string; with -e that the  *)
(* string was sent, or the endpoint not to be had.                         *)
ZeroExplained ==
    /\ At("client", "exited") /\ st["client"].ret = 0 => seen \cap {"got", "eof"} # {}
    /\ At("server", "exited") /\ st["server"].ret = 0 =>
          IF failure_mode = "none" THEN "got" \in seen
                                   ELSE "sent" \in seen \/ st["server"].ep = "none"

(* A client that has connected and its server both come to an end, in      *)
(* every failure mode and test mode, unless something fails that the test  *)
(* does not emulate.                                                       *)
Terminates ==
    st["client"].sock = "open" ~> "fault" \in seen \/ \A p \in Procs : Ended(p)
=============================================================================
