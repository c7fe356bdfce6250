----------------------------- MODULE UcxServer ------------------------------
(***************************************************************************)
(* rdma_exp/ucp_example_server.c: a server that takes one client at a time *)
(* from a UCX listener, receives num_iterations messages from it through   *)
(* the stream, tag or active message (AM) interface, sends a FIN message   *)
(* back, waits until the client has closed, and takes the next client.     *)
(*                                                                         *)
(* UCX is external: requests are the connection requests that reached the  *)
(* connection worker, chan[c] and cwire[c] the events client and server    *)
(* have caused at each other's worker.  One ucp_worker_progress handles    *)
(* one event, or several where Batch is TRUE.  With rndv messages travel   *)
(* by rendezvous: a send completes when the receiver has fetched the data; *)
(* otherwise eagerly, and a send may complete at once.                     *)
(***************************************************************************)
EXTENDS Naturals, Sequences

CONSTANTS Clients,       \* client processes
          NumIterations, \* num_iterations
          Types,         \* values of send_recv_type that are tried
          Batch,         \* TRUE if one progress call may handle several events
          Crashes,       \* TRUE if a client process may die
          Fails          \* TRUE if UCX calls and allocations may fail

ASSUME UcxServerAssumption == /\ NumIterations \in Nat \ {0}
                              /\ Types \subseteq {"stream", "tag", "am"}
                              /\ {Batch, Crashes, Fails} \subseteq BOOLEAN

None == "none"           \* a null conn_request
TheServer == "server"    \* the server process, in seen.broken

ASSUME NoneAssumption == None \notin Clients /\ TheServer \notin Clients

VARIABLES type,          \* send_recv_type, the same on both sides
          rndv,          \* messages are long enough for the rendezvous protocol
          requests,      \* connection requests, in the order of their arrival
          sv,            \* server: pc, conn_request, i, connection_closed, am_data_desc, last
          cl,            \* cl[c]: pc, i, ret, FIN arrived, AM handler registered, endpoint failed
          chan,          \* chan[c]: events from c for the server's data worker
          cwire,         \* cwire[c]: events from the server for the worker of c
          held,          \* held[c]: the buffer at the end of each iteration the server did for c
          seen           \* history: finlost; the clients refused and merged; the broken,
                         \* in whose process a call has failed

vars == <<type, rndv, requests, sv, cl, chan, cwire, held, seen>>

Msg(k) == <<"msg", k>>   \* the message of the client's k-th iteration
Ack == <<"ack", 0>>      \* a send has completed
Fin == <<"fin", 0>>      \* the FIN message
Down == <<"down", 0>>    \* the endpoint's peer has gone, or rejected the connection
Junk == <<"junk", 0>>    \* the content of a buffer fresh from malloc

Up(c) == cl[c].pc \notin {"new", "done", "dead"}

(* The number of events that one call of ucp_worker_progress handles. *)
Handled(events) == IF Batch THEN 1..Len(events) ELSE {1}

First(events, n) == SubSeq(events, 1, n)
Rest(events, n) == SubSeq(events, n + 1, Len(events))
Has(events, e) == \E k \in DOMAIN events : events[k] = e

Init == /\ type \in Types
        /\ rndv \in BOOLEAN
        /\ requests = <<>>
        /\ sv = [pc |-> "start", conn |-> None, i |-> 0, closed |-> FALSE,
                 complete |-> 0, last |-> 0, buf |-> Junk]
        /\ cl = [c \in Clients |-> [pc |-> "new", i |-> 0, ret |-> 0, fin |-> FALSE,
                                    handler |-> FALSE, failed |-> FALSE]]
        /\ chan = [c \in Clients |-> <<>>]
        /\ cwire = [c \in Clients |-> <<>>]
        /\ held = [c \in Clients |-> <<>>]
        /\ seen = [finlost |-> FALSE, refused |-> {}, merged |-> {}, broken |-> {}]
-----------------------------------------------------------------------------
(* ep_close with UCP_EP_CLOSE_FLAG_FORCE and the end of the client. *)
Close(c, r) == cl' = [cl EXCEPT ![c] = [@ EXCEPT !.pc = "done", !.ret = r]]

(* A call that depends on nobody else fails in process p. *)
Fail(p) == Fails /\ seen' = [seen EXCEPT !.broken = @ \union {p}]

(* start_client: the endpoint is created, the connection not yet made.     *)
(* Without a listener it is refused.  When ucp_ep_create fails there is no *)
(* endpoint to close.                                                      *)
StartClient(c) ==
    /\ cl[c].pc = "new"
    /\ \/ /\ cl' = [cl EXCEPT ![c] = [@ EXCEPT !.pc = "send"]]
          /\ IF sv.pc \in {"start", "exited"}
               THEN /\ cwire' = [cwire EXCEPT ![c] = Append(@, Down)]
                    /\ seen' = [seen EXCEPT !.refused = @ \union {c}]
                    /\ UNCHANGED requests
               ELSE requests' = Append(requests, c) /\ UNCHANGED <<cwire, seen>>
       \/ Fail(c) /\ Close(c, 1) /\ UNCHANGED <<requests, cwire>>
    /\ UNCHANGED <<type, rndv, sv, chan, held>>

(* The client's state after an iteration: the next one, or FIN. *)
NextIteration(r) == [r EXCEPT !.i = @ + 1,
                              !.pc = IF r.i + 1 < NumIterations THEN "send" ELSE "register"]

(* The server has accepted the connection of c. *)
Connected(c) == sv.conn = c /\ sv.pc # "exited"

(* An iteration of the client: fill_request_param and the send, which      *)
(* fails on a failed endpoint and otherwise is complete at once or in      *)
(* progress.  Before the connection is made it stays in progress.          *)
ClientSend(c) ==
    /\ cl[c].pc = "send"
    /\ \/ /\ (cl[c].failed /\ UNCHANGED seen) \/ Fail(c)
          /\ Close(c, 1)
          /\ chan' = [chan EXCEPT ![c] = Append(@, Down)]
          /\ UNCHANGED cwire
       \/ /\ ~cl[c].failed /\ UNCHANGED seen
          /\ chan' = [chan EXCEPT ![c] = Append(@, Msg(cl[c].i + 1))]
          /\ \/ /\ ~rndv /\ Connected(c)
                /\ cl' = [cl EXCEPT ![c] = NextIteration(@)]
                /\ UNCHANGED cwire
             \/ /\ cl' = [cl EXCEPT ![c] = [@ EXCEPT !.pc = "sending"]]
                /\ cwire' = IF ~rndv /\ Connected(c) THEN [cwire EXCEPT ![c] = Append(@, Ack)]
                                                     ELSE cwire
    /\ UNCHANGED <<type, rndv, requests, sv, held>>

(* A FIN that progress has handled is kept, in AM only by the handler. *)
FinKept(c, events) == cl[c].fin \/ (Has(events, Fin) /\ (type # "am" \/ cl[c].handler))

FinLost(c, events) == Has(events, Fin) /\ type = "am" /\ ~cl[c].handler

(* The client's state after the callbacks of these events. *)
AfterProgress(c, events) == [cl[c] EXCEPT !.fin = FinKept(c, events),
                                          !.failed = @ \/ Has(events, Down)]

(* request_wait of the send.  The error of a send ends the client. *)
ClientWait(c) ==
    /\ cl[c].pc = "sending"
    /\ \E n \in Handled(cwire[c]) :
         LET events == First(cwire[c], n)
             r == AfterProgress(c, events)
         IN  /\ cwire[c] # <<>>
             /\ cwire' = [cwire EXCEPT ![c] = Rest(@, n)]
             /\ seen' = [seen EXCEPT !.finlost = @ \/ FinLost(c, events)]
             /\ \/ /\ Has(events, Ack)
                   /\ cl' = [cl EXCEPT ![c] = NextIteration(r)]
                   /\ UNCHANGED chan
                \/ /\ ~Has(events, Ack) /\ Has(events, Down)
                   /\ Close(c, 1)
                   /\ chan' = [chan EXCEPT ![c] = Append(@, Down)]
                \/ /\ ~Has(events, Ack) /\ ~Has(events, Down)
                   /\ cl' = [cl EXCEPT ![c] = r]
                   /\ UNCHANGED chan
    /\ UNCHANGED <<type, rndv, requests, sv, held>>

(* After the iterations: register_am_recv_callback, in AM only, and        *)
(* fill_request_param for FIN.                                             *)
RegisterFin(c) ==
    /\ cl[c].pc = "register"
    /\ \/ /\ cl' = [cl EXCEPT ![c] = [@ EXCEPT !.pc = "finwait", !.handler = (type = "am")]]
          /\ UNCHANGED <<chan, seen>>
       \/ /\ Fail(c) /\ Close(c, 1)
          /\ chan' = [chan EXCEPT ![c] = Append(@, Down)]
    /\ UNCHANGED <<type, rndv, requests, sv, cwire, held>>

(* Mutant: the client leaves without waiting for FIN. *)
ClientFinSkipped(c) ==
    /\ cl[c].pc = "finwait"
    /\ Close(c, 0)
    /\ chan' = [chan EXCEPT ![c] = Append(@, Down)]
    /\ UNCHANGED <<type, rndv, requests, sv, cwire, held, seen>>

(* The receive of FIN, which in rendezvous tells the server that it was    *)
(* fetched.  A stream receive fails with its endpoint; the tag receive and *)
(* the loop around the AM counter do not look at the endpoint.             *)
ClientFin(c) ==
    /\ cl[c].pc = "finwait"
    /\ \/ /\ cl[c].fin
          /\ Close(c, 0)
          /\ chan' = [chan EXCEPT ![c] = @ \o IF rndv THEN <<Ack, Down>> ELSE <<Down>>]
          /\ UNCHANGED cwire
       \/ /\ ~cl[c].fin /\ cl[c].failed /\ type = "stream"
          /\ Close(c, 1)
          /\ chan' = [chan EXCEPT ![c] = Append(@, Down)]
          /\ UNCHANGED cwire
       \/ /\ ~cl[c].fin /\ cwire[c] # <<>>
          /\ \E n \in Handled(cwire[c]) :
               LET events == First(cwire[c], n)
               IN  /\ cwire' = [cwire EXCEPT ![c] = Rest(@, n)]
                   /\ cl' = [cl EXCEPT ![c] = AfterProgress(c, events)]
          /\ UNCHANGED chan
    /\ UNCHANGED <<type, rndv, requests, sv, held, seen>>

(* A client process dies; UCX tells the server. *)
Crash(c) ==
    /\ Crashes /\ Up(c)
    /\ cl' = [cl EXCEPT ![c] = [@ EXCEPT !.pc = "dead"]]
    /\ chan' = [chan EXCEPT ![c] = Append(@, Down)]
    /\ UNCHANGED <<type, rndv, requests, sv, cwire, held, seen>>
-----------------------------------------------------------------------------
(* err_ep, err_listener and err_worker of run_server, when it holds the    *)
(* request of c: endpoint, listener and workers go, and every client that  *)
(* is up learns of it.                                                     *)
ServerExit(c) ==
    /\ sv' = [sv EXCEPT !.pc = "exited", !.conn = c]
    /\ requests' = <<>>
    /\ cwire' = [d \in Clients |-> IF Up(d) THEN Append(cwire[d], Down) ELSE cwire[d]]

(* init_worker, register_am_recv_callback and start_server. *)
StartServer ==
    /\ sv.pc = "start"
    /\ \/ sv' = [sv EXCEPT !.pc = "listen"] /\ UNCHANGED <<requests, cwire, seen>>
       \/ Fail(TheServer) /\ ServerExit(None)
    /\ UNCHANGED <<type, rndv, cl, chan, held>>

(* The request that is served. *)
Accept(c) == sv' = [sv EXCEPT !.pc = "next", !.conn = c, !.i = 0, !.closed = FALSE]

(* Mutant: further requests are neither kept nor rejected. *)
ListenDropsRest ==
    /\ sv.pc = "listen" /\ requests # <<>>
    /\ \E n \in Handled(requests) : requests' = Rest(requests, n) /\ Accept(requests[1])
    /\ UNCHANGED <<type, rndv, cl, chan, cwire, held, seen>>

(* With the connection an eager send in progress goes out. *)
EagerDone(c) == IF ~rndv /\ cl[c].pc = "sending" THEN <<Ack>> ELSE <<>>

(* The progress of the connection worker runs server_conn_handle_cb: the   *)
(* first request is kept, others handled by the same call are rejected,    *)
(* unless that fails.  Then server_create_ep, which fails where the client *)
(* is gone or for a reason of its own, and the start of                    *)
(* client_server_do_work.                                                  *)
Listen ==
    /\ sv.pc = "listen" /\ requests # <<>>
    /\ \/ \E n \in Handled(requests) : \E ignored \in SUBSET {requests[k] : k \in 2..n} :
            LET rejected == {requests[k] : k \in 2..n} \ ignored
            IN  /\ Accept(requests[1])
                /\ requests' = Rest(requests, n)
                /\ cwire' = [c \in Clients |->
                                IF c \in rejected THEN Append(cwire[c], Down)
                                ELSE IF c = requests[1] THEN cwire[c] \o EagerDone(c)
                                ELSE cwire[c]]
                /\ Fails \/ ignored = {}
                /\ seen' = [seen EXCEPT !.refused = @ \union rejected,
                               !.broken = @ \union {p \in {TheServer} : ignored # {}}]
       \/ /\ (~Up(requests[1]) /\ UNCHANGED seen) \/ Fail(TheServer)
          /\ ServerExit(requests[1])
    /\ UNCHANGED <<type, rndv, cl, chan, held>>

(* Mutant: one iteration less. *)
FillRequestEarly ==
    /\ sv.pc = "next"
    /\ \/ /\ sv' = [sv EXCEPT !.pc = IF sv.i + 1 < NumIterations THEN "recv" ELSE "fin",
                               !.buf = IF rndv THEN @ ELSE Junk]
          /\ UNCHANGED <<requests, cwire, seen>>
       \/ Fail(TheServer) /\ ServerExit(sv.conn)
    /\ UNCHANGED <<type, rndv, cl, chan, held>>

(* An iteration of the server begins, or its FIN: fill_request_param, with *)
(* a new buffer, into which an eager AM will go.  It, or the operation     *)
(* that is started with it, may fail.                                      *)
FillRequest ==
    /\ sv.pc = "next"
    /\ \/ /\ sv' = [sv EXCEPT !.pc = IF sv.i < NumIterations THEN "recv" ELSE "fin",
                               !.buf = IF rndv THEN @ ELSE Junk]
          /\ UNCHANGED <<requests, cwire, seen>>
       \/ Fail(TheServer) /\ ServerExit(sv.conn)
    /\ UNCHANGED <<type, rndv, cl, chan, held>>

(* request_finalize: the end of an iteration of the server. *)
IterationDone(s) == [s EXCEPT !.i = @ + 1, !.pc = "next"]

(* The data of a rendezvous message is fetched and its send completes,     *)
(* which fails when the client is gone.                                    *)
Fetched(c) == cwire' = IF rndv /\ Up(c) THEN [cwire EXCEPT ![c] = Append(@, Ack)] ELSE cwire

FetchFails(c) == rndv /\ ~Up(c) /\ ServerExit(c)

Keep(c, m) == held' = [held EXCEPT ![c] = Append(@, m)]

(* send_recv_stream and send_recv_tag of the server: wait for the next     *)
(* message, and in rendezvous fetch it.  err_cb runs when the client has   *)
(* gone; only a stream receive that waits fails then.                      *)
Recv ==
    LET c == sv.conn
        e == Head(chan[c])
    IN  /\ sv.pc = "recv" /\ type # "am" /\ chan[c] # <<>>
        /\ \/ /\ e # Down
              /\ chan' = [chan EXCEPT ![c] = Tail(@)]
              /\ Keep(c, e)
              /\ Fetched(c)
              /\ sv' = IterationDone(sv)
              /\ UNCHANGED requests
           \/ /\ e = Down /\ type = "tag"
              /\ chan' = [chan EXCEPT ![c] = Tail(@)]
              /\ sv' = [sv EXCEPT !.closed = TRUE]
              /\ UNCHANGED <<held, cwire, requests>>
           \/ /\ (e = Down /\ type = "stream" /\ ServerExit(c)) \/ (e # Down /\ FetchFails(c))
              /\ UNCHANGED <<chan, held>>
        /\ UNCHANGED <<type, rndv, cl, seen>>

(* send_recv_am of the server while last == am_data_desc.complete: each    *)
(* event is a call of ucp_am_data_cb, which counts and stores its message  *)
(* over the one before, or of err_cb, after which nothing comes from c.    *)
RecvAm ==
    LET c == sv.conn
    IN  /\ sv.pc = "recv" /\ type = "am" /\ sv.last = sv.complete /\ chan[c] # <<>>
        /\ \E n \in Handled(chan[c]) :
             LET events == First(chan[c], n)
                 msgs == IF events[n] = Down THEN n - 1 ELSE n
             IN  /\ chan' = [chan EXCEPT ![c] = Rest(@, n)]
                 /\ sv' = [sv EXCEPT !.complete = @ + msgs,
                                     !.buf = IF msgs = 0 THEN @ ELSE events[msgs],
                                     !.closed = @ \/ Has(events, Down)]
                 /\ seen' = IF msgs > 1 THEN [seen EXCEPT !.merged = @ \union {c}] ELSE seen
        /\ UNCHANGED <<type, rndv, requests, cl, cwire, held>>

(* Mutant: last is not advanced. *)
TakeAmAgain ==
    /\ sv.pc = "recv" /\ type = "am" /\ sv.last # sv.complete
    /\ Keep(sv.conn, sv.buf)
    /\ Fetched(sv.conn)
    /\ sv' = IterationDone(sv)
    /\ UNCHANGED <<type, rndv, requests, cl, chan, seen>>

(* ... and after the loop: last++, and in rendezvous the receive. *)
TakeAm ==
    /\ sv.pc = "recv" /\ type = "am" /\ sv.last # sv.complete
    /\ \/ /\ Keep(sv.conn, sv.buf)
          /\ Fetched(sv.conn)
          /\ sv' = [IterationDone(sv) EXCEPT !.last = @ + 1]
          /\ UNCHANGED requests
       \/ FetchFails(sv.conn) /\ UNCHANGED held
    /\ UNCHANGED <<type, rndv, cl, chan, seen>>

(* The server sends FIN.  To a client that is gone it fails, unless it is  *)
(* eager and completes before that is noticed.                             *)
SendFin ==
    LET c == sv.conn
    IN  /\ sv.pc = "fin"
        /\ \/ /\ Up(c) \/ ~rndv
              /\ cwire' = IF Up(c) THEN [cwire EXCEPT ![c] = Append(@, Fin)] ELSE cwire
              /\ sv' = [sv EXCEPT !.pc = IF rndv THEN "finsend" ELSE "drain"]
              /\ UNCHANGED requests
           \/ ~Up(c) /\ ServerExit(c)
        /\ UNCHANGED <<type, rndv, cl, chan, held, seen>>

(* request_wait of a FIN in rendezvous. *)
FinWait ==
    LET c == sv.conn
    IN  /\ sv.pc = "finsend" /\ chan[c] # <<>>
        /\ \/ /\ Head(chan[c]) = Ack
              /\ chan' = [chan EXCEPT ![c] = Tail(@)]
              /\ sv' = [sv EXCEPT !.pc = "drain"]
              /\ UNCHANGED <<cwire, requests>>
           \/ Head(chan[c]) = Down /\ ServerExit(c) /\ UNCHANGED chan
        /\ UNCHANGED <<type, rndv, cl, held, seen>>

(* while (!connection_closed), ended by err_cb; then the endpoint is       *)
(* closed and conn_request reset for the next client.                      *)
Drain ==
    LET c == sv.conn
    IN  /\ sv.pc = "drain"
        /\ \/ sv.closed /\ UNCHANGED chan
           \/ /\ ~sv.closed /\ chan[c] # <<>> /\ Head(chan[c]) = Down
              /\ chan' = [chan EXCEPT ![c] = Tail(@)]
        /\ sv' = [sv EXCEPT !.pc = "listen", !.conn = None]
        /\ UNCHANGED <<type, rndv, requests, cl, cwire, held, seen>>
-----------------------------------------------------------------------------
Client(c) == ClientSend(c) \/ ClientWait(c) \/ RegisterFin(c) \/ ClientFin(c)

Server == \/ StartServer \/ Listen \/ FillRequest
          \/ Recv \/ RecvAm \/ TakeAm
          \/ SendFin \/ FinWait \/ Drain

Next == \/ Server
        \/ \E c \in Clients : StartClient(c) \/ Client(c) \/ Crash(c)

SafeSpec == Init /\ [][Next]_vars

(* Both sides poll: what progress can do it does. *)
Spec == /\ SafeSpec
        /\ WF_vars(Server)
        /\ \A c \in Clients : WF_vars(Client(c))
-----------------------------------------------------------------------------
(* In each iteration the server has the client's message of that           *)
(* iteration.  In AM this is so as long as no progress call handles two of *)
(* this client's: the callback writes the second over the first, and the  *)
(* iteration after that ends with a buffer nobody has written.             *)
HeldInOrder ==
    \A c \in Clients : \A k \in DOMAIN held[c] :
        held[c][k] = Msg(k) \/ (type = "am" /\ c \in seen.merged)

(* A client has died, or a call has failed in it. *)
Lost(c) == cl[c].pc = "dead" \/ c \in seen.broken

(* A client is served completely or not at all: one that ends well has     *)
(* had all its messages received before its FIN; of one that ends in an    *)
(* error, in which no call has failed, nothing was received, because it    *)
(* was refused or the server has ended.  Only the client that was served   *)
(* when a call failed in the server may be left in the middle.             *)
ClientVerdict ==
    \A c \in Clients : cl[c].pc = "done" =>
        IF cl[c].ret = 0 THEN Len(held[c]) = NumIterations
        ELSE \/ c \in seen.broken
             \/ held[c] = <<>> /\ (c \in seen.refused \/ sv.pc = "exited")
             \/ sv.pc = "exited" /\ sv.conn = c /\ TheServer \in seen.broken

(* "Server is always up listening": it ends only when a call has failed in *)
(* it, or when the client it holds the request of died or failed.          *)
ServerExitExplained ==
    sv.pc = "exited" => TheServer \in seen.broken \/ (sv.conn # None /\ Lost(sv.conn))

(* Every client that is started comes to its end, refused ones too, unless *)
(* a client dies, a call fails in some process, or a FIN reaches a client  *)
(* that has not registered its AM callback yet.                            *)
ClientEnds ==
    \A c \in Clients :
        cl[c].pc = "send" ~> \/ cl[c].pc = "done"
                            \/ \E d \in Clients : Lost(d)
                            \/ TheServer \in seen.broken \/ seen.finlost
=============================================================================
