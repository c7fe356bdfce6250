---------------------------- MODULE EpollServer -----------------------------
(***************************************************************************)
(* class EpollServer of src/epollServer.cc: an epoll thread that accepts   *)
(* connections and hands readable descriptors to a thread pool, the pool's *)
(* workers that read, call the message callback and close connections, and *)
(* the thread that calls stop().                                           *)
(*                                                                         *)
(* The pool appears here as TaskPool describes it (ThreadPool implements   *)
(* it): a queue of tasks, each the descriptor for handleReadEvent, started *)
(* in order.  Every system call and every block under mutex_ is one step.  *)
(* The kernel is external: the descriptor table (accept takes the lowest   *)
(* free number, close drops the descriptor from epoll), the backlog, and   *)
(* the bytes a client has sent, here numbered chunks that one read takes.  *)
(* epoll is level-triggered: a descriptor is reported again until somebody *)
(* has read what it holds.  A socket that accept returns is blocking until *)
(* fcntl has changed it: a read in between waits, and goes on waiting      *)
(* after the change and after a close of the number.                       *)
(***************************************************************************)
EXTENDS Naturals, Sequences, FiniteSets

CONSTANTS Conns,        \* client connections that may be made
          Workers,      \* the threads of threadPool_
          NFds,         \* numbers the kernel has for client sockets
          MaxChunks,    \* bound on the chunks one client sends
          MaxQueue      \* epoll_wait returns while fewer tasks wait in the pool

Fds == 1..NFds
Nobody == "nobody"      \* the connection of a closed descriptor
Listen == 0             \* stands for listenFd_ among the events
NoFd == 0               \* no descriptor is being set up

ASSUME EpollServerAssumption == /\ NFds \in Nat /\ MaxChunks \in Nat /\ MaxQueue \in Nat
                                /\ Nobody \notin Conns

VARIABLES fdtab,        \* fdtab[f]: the connection descriptor f stands for
          interest,     \* client descriptors registered with epollFd_
          freed,        \* history: the numbers closed under a client that had hung up
          clientFds,    \* clientFds_
          backlog,      \* connections waiting for accept
          client,       \* client[c]: the peer's side, "new", "open", "closed" or "reset"
          inbox,        \* inbox[c]: chunks sent on c and not read
          sent,         \* sent[c]: chunks the peer has sent
          handled,      \* handled[c]: chunks given to messageCallback_, in order
          running,      \* running_
          epc,          \* where the epoll thread stands
          events,       \* descriptors epoll_wait returned that are not dispatched
          newFd,        \* the descriptor handleNewConnection is setting up
          queue,        \* tasks of the pool that no worker has taken
          worker,       \* worker[w]: step, descriptor, the data in the callback, and the
                        \* connection a read is blocked on
          mpc,          \* progress of start() and stop()
          cursor,       \* the last descriptor the loop of stop() has closed
          torn          \* clientFds_ changed under that loop's iterator

kernel == <<fdtab, interest, freed, backlog, client, inbox, sent>>
vars == <<kernel, clientFds, handled, running, epc, events, newFd, queue, worker,
          mpc, cursor, torn>>

Idle == [pc |-> "idle", fd |-> NoFd, from |-> Nobody, chunk |-> 0, on |-> Nobody]

(* The constructor: not listening, no epoll thread, an idle pool. *)
Init == /\ fdtab = [f \in Fds |-> Nobody]
        /\ interest = {}
        /\ freed = {}
        /\ clientFds = {}
        /\ backlog = {}
        /\ client = [c \in Conns |-> "new"]
        /\ inbox = [c \in Conns |-> <<>>]
        /\ sent = [c \in Conns |-> 0]
        /\ handled = [c \in Conns |-> <<>>]
        /\ running = FALSE
        /\ epc = "exited"
        /\ events = {}
        /\ newFd = NoFd
        /\ queue = <<>>
        /\ worker = [w \in Workers |-> Idle]
        /\ mpc = "new"
        /\ cursor = 0
        /\ torn = FALSE
-----------------------------------------------------------------------------
(* The peers. *)
Connect(c) == /\ client[c] = "new" /\ mpc \in {"up", "join"}
              /\ client' = [client EXCEPT ![c] = "open"]
              /\ backlog' = backlog \union {c}
              /\ UNCHANGED <<fdtab, interest, freed, inbox, sent, clientFds, handled,
                             running, epc, events, newFd, queue, worker, mpc, cursor, torn>>

Send(c) == /\ client[c] = "open" /\ sent[c] < MaxChunks
           /\ sent' = [sent EXCEPT ![c] = @ + 1]
           /\ inbox' = [inbox EXCEPT ![c] = Append(@, sent[c] + 1)]
           /\ UNCHANGED <<fdtab, interest, freed, backlog, client, clientFds, handled,
                          running, epc, events, newFd, queue, worker, mpc, cursor, torn>>

Hangup(c) == /\ client[c] = "open"
             /\ client' = [client EXCEPT ![c] = "closed"]
             /\ UNCHANGED <<fdtab, interest, freed, backlog, inbox, sent, clientFds,
                            handled, running, epc, events, newFd, queue, worker, mpc, cursor, torn>>

(* A reset also throws away what the server has not read. *)
Reset(c) == /\ client[c] = "open"
            /\ client' = [client EXCEPT ![c] = "reset"]
            /\ inbox' = [inbox EXCEPT ![c] = <<>>]
            /\ UNCHANGED <<fdtab, interest, freed, backlog, sent, clientFds, handled,
                           running, epc, events, newFd, queue, worker, mpc, cursor, torn>>

Gone(c) == client[c] \in {"closed", "reset"}
-----------------------------------------------------------------------------
(* start(): the descriptors and the epoll thread, or false after one of    *)
(* its system calls has failed and what was opened is closed again.        *)
Start == /\ mpc = "new"
         /\ \/ mpc' = "up" /\ running' = TRUE /\ epc' = "wait"
            \/ mpc' = "failed" /\ UNCHANGED <<running, epc>>
         /\ UNCHANGED <<kernel, clientFds, handled, events, newFd, queue, worker, cursor, torn>>

(* epollLoop. *)
Readable(f) == fdtab[f] # Nobody /\ (inbox[fdtab[f]] # <<>> \/ Gone(fdtab[f]))

Ready == {f \in interest : Readable(f)} \union (IF backlog = {} THEN {} ELSE {Listen})

EpollWait == /\ epc = "wait" /\ running
             /\ Ready # {} /\ Len(queue) < MaxQueue
             /\ events' = Ready
             /\ epc' = "dispatch"
             /\ UNCHANGED <<kernel, clientFds, handled, running, newFd, queue, worker, mpc,
                            cursor, torn>>

(* The loop condition is tested again: the timeout of 100 ms and EINTR     *)
(* lead here too.                                                          *)
EpollExit == /\ epc = "wait" /\ ~running
             /\ epc' = "exited"
             /\ UNCHANGED <<kernel, clientFds, handled, running, events, newFd, queue, worker,
                            mpc, cursor, torn>>

(* epoll_wait fails, not with EINTR: the loop is left although the server  *)
(* is up.                                                                  *)
EpollFails == /\ epc = "wait" /\ running
              /\ epc' = "exited"
              /\ UNCHANGED <<kernel, clientFds, handled, running, events, newFd, queue, worker,
                             mpc, cursor, torn>>

EpollNext == /\ epc = "dispatch" /\ events = {}
             /\ epc' = "wait"
             /\ UNCHANGED <<kernel, clientFds, handled, running, events, newFd, queue, worker,
                            mpc, cursor, torn>>

(* threadPool_->enqueue(handleReadEvent(fd)). *)
Dispatch(f) == /\ epc = "dispatch" /\ f \in events
               /\ queue' = Append(queue, f)
               /\ events' = events \ {f}
               /\ UNCHANGED <<kernel, clientFds, handled, running, epc, newFd, worker, mpc,
                              cursor, torn>>

(* handleNewConnection: accept, which may fail, for want of a number or    *)
(* for another reason.                                                     *)
Accept == /\ epc = "dispatch" /\ Listen \in events
          /\ events' = events \ {Listen}
          /\ \/ \E c \in backlog, f \in Fds :
                  /\ fdtab[f] = Nobody /\ \A g \in Fds : g < f => fdtab[g] # Nobody
                  /\ fdtab' = [fdtab EXCEPT ![f] = c]
                  /\ backlog' = backlog \ {c}
                  /\ newFd' = f
                  /\ epc' = "nonblock"
             \/ UNCHANGED <<fdtab, backlog, newFd, epc>>
          /\ UNCHANGED <<interest, freed, client, inbox, sent, clientFds, handled, running,
                         queue, worker, mpc, cursor, torn>>

(* close(f): the number is free, and epoll forgets it.                     *)
CloseFd(f) == /\ fdtab' = [fdtab EXCEPT ![f] = Nobody]
              /\ interest' = interest \ {f}
              /\ freed' = freed \union {g \in {f} : fdtab[g] # Nobody /\ Gone(fdtab[g])}

(* A system call on the new socket fails, as on a number that a worker has *)
(* closed meanwhile it must: the socket is closed.                         *)
SetUpFails == /\ CloseFd(newFd)
              /\ epc' = "dispatch"
              /\ newFd' = NoFd

(* setNonBlocking. *)
NonBlock == /\ epc = "nonblock"
            /\ \/ /\ fdtab[newFd] # Nobody
                  /\ epc' = "add"
                  /\ UNCHANGED <<fdtab, interest, freed, newFd>>
               \/ SetUpFails
            /\ UNCHANGED <<backlog, client, inbox, sent, clientFds, handled, running, events,
                           queue, worker, mpc, cursor, torn>>

(* Mutant: the descriptor is not added to epoll. *)
AddUnwatched == /\ epc = "add"
                /\ epc' = "insert"
                /\ UNCHANGED <<kernel, clientFds, handled, running, events, newFd, queue, worker,
                               mpc, cursor, torn>>

(* EPOLL_CTL_ADD. *)
Add == /\ epc = "add"
       /\ \/ /\ fdtab[newFd] # Nobody
             /\ interest' = interest \union {newFd}
             /\ epc' = "insert"
             /\ UNCHANGED <<fdtab, freed, newFd>>
          \/ SetUpFails
       /\ UNCHANGED <<backlog, client, inbox, sent, clientFds, handled, running, events, queue,
                      worker, mpc, cursor, torn>>

(* Mutant: the descriptor is not stored. *)
InsertForgotten == /\ epc = "insert"
                   /\ epc' = "dispatch"
                   /\ newFd' = NoFd
                   /\ UNCHANGED <<kernel, clientFds, handled, running, events, queue,
                                  worker, mpc, cursor, torn>>

(* The insertion under mutex_ and the connection callback. *)
Insert == /\ epc = "insert"
          /\ clientFds' = clientFds \union {newFd}
          /\ epc' = "dispatch"
          /\ newFd' = NoFd
          /\ UNCHANGED <<kernel, handled, running, events, queue, worker, mpc, cursor, torn>>
-----------------------------------------------------------------------------
(* The workers: handleReadEvent and closeConnection. *)
Step(w, r) == worker' = [worker EXCEPT ![w] = r]

Take(w) == /\ worker[w].pc = "idle" /\ queue # <<>>
           /\ Step(w, [Idle EXCEPT !.pc = "read", !.fd = Head(queue)])
           /\ queue' = Tail(queue)
           /\ UNCHANGED <<kernel, clientFds, handled, running, epc, events, newFd, mpc, cursor,
                          torn>>

(* The socket that a read, begun or blocked, is on: a blocked one keeps    *)
(* its socket when the number is closed.                                   *)
ReadsFrom(w) == IF worker[w].pc = "blocked" THEN worker[w].on ELSE fdtab[worker[w].fd]

(* Mutant: the data stays in the socket. *)
ReadDataPeek(w) == LET c == ReadsFrom(w)
                   IN  /\ worker[w].pc \in {"read", "blocked"}
                       /\ c # Nobody /\ inbox[c] # <<>>
                       /\ Step(w, [Idle EXCEPT !.pc = "callback", !.fd = worker[w].fd,
                                               !.from = c, !.chunk = Head(inbox[c])])
                       /\ UNCHANGED <<kernel, clientFds, handled, running, epc, events, newFd,
                                      queue, mpc, cursor, torn>>

(* read() returns data. *)
ReadData(w) == LET c == ReadsFrom(w)
               IN  /\ worker[w].pc \in {"read", "blocked"}
                   /\ c # Nobody /\ inbox[c] # <<>>
                   /\ Step(w, [Idle EXCEPT !.pc = "callback", !.fd = worker[w].fd,
                                           !.from = c, !.chunk = Head(inbox[c])])
                   /\ inbox' = [inbox EXCEPT ![c] = Tail(@)]
                   /\ UNCHANGED <<fdtab, interest, freed, backlog, client, sent, clientFds,
                                  handled, running, epc, events, newFd, queue, mpc, cursor, torn>>

(* A socket that handleNewConnection has not made non-blocking yet. *)
Blocking(f) == newFd = f /\ epc = "nonblock"

Silent(c) == c # Nobody /\ inbox[c] = <<>> /\ client[c] = "open"

(* Mutant: EAGAIN is an error like any other. *)
ReadNothingCloses(w) == /\ worker[w].pc = "read"
                        /\ Silent(fdtab[worker[w].fd]) /\ ~Blocking(worker[w].fd)
                        /\ Step(w, [worker[w] EXCEPT !.pc = "del"])
                        /\ UNCHANGED <<kernel, clientFds, handled, running, epc, events, newFd,
                                       queue, mpc, cursor, torn>>

(* read() fails with EAGAIN: another worker has read the data before, or   *)
(* the number has become another client's.                                 *)
ReadNothing(w) == /\ worker[w].pc = "read"
                  /\ Silent(fdtab[worker[w].fd]) /\ ~Blocking(worker[w].fd)
                  /\ Step(w, Idle)
                  /\ UNCHANGED <<kernel, clientFds, handled, running, epc, events, newFd, queue,
                                 mpc, cursor, torn>>

(* read() waits: a task left from the number's last client meets a new one *)
(* before fcntl.                                                           *)
ReadBlocks(w) == /\ worker[w].pc = "read"
                 /\ Silent(fdtab[worker[w].fd]) /\ Blocking(worker[w].fd)
                 /\ Step(w, [worker[w] EXCEPT !.pc = "blocked", !.on = fdtab[worker[w].fd]])
                 /\ UNCHANGED <<kernel, clientFds, handled, running, epc, events, newFd, queue,
                                mpc, cursor, torn>>

AtEnd(c) == c # Nobody => inbox[c] = <<>> /\ Gone(c)

(* read() returns 0, or fails: ECONNRESET, or EBADF on a closed number.    *)
ReadEnd(w) == /\ worker[w].pc \in {"read", "blocked"}
              /\ AtEnd(ReadsFrom(w))
              /\ Step(w, [Idle EXCEPT !.pc = "del", !.fd = worker[w].fd])
              /\ UNCHANGED <<kernel, clientFds, handled, running, epc, events, newFd, queue,
                             mpc, cursor, torn>>

MessageCallback(w) == /\ worker[w].pc = "callback"
                      /\ handled' = [handled EXCEPT ![worker[w].from] = Append(@, worker[w].chunk)]
                      /\ Step(w, Idle)
                      /\ UNCHANGED <<kernel, clientFds, running, epc, events, newFd, queue, mpc,
                                     cursor, torn>>

(* closeConnection: EPOLL_CTL_DEL, erase under mutex_, close. *)
EpollDel(w) == /\ worker[w].pc = "del"
               /\ interest' = interest \ {worker[w].fd}
               /\ Step(w, [worker[w] EXCEPT !.pc = "erase"])
               /\ UNCHANGED <<fdtab, freed, backlog, client, inbox, sent, clientFds,
                              handled, running, epc, events, newFd, queue, mpc, cursor, torn>>

(* stop() iterates over clientFds_ without mutex_: to take an element out  *)
(* of the tree meanwhile is a data race, and its iterator may be left      *)
(* dangling.                                                               *)
Erase(w) == /\ worker[w].pc = "erase"
            /\ clientFds' = clientFds \ {worker[w].fd}
            /\ torn' = (torn \/ (mpc = "closing" /\ worker[w].fd \in clientFds))
            /\ Step(w, [worker[w] EXCEPT !.pc = "close"])
            /\ UNCHANGED <<kernel, handled, running, epc, events, newFd, queue, mpc, cursor>>

(* Mutant: the descriptor is taken out of the set and not closed. *)
CloseForgotten(w) == /\ worker[w].pc = "close"
                     /\ Step(w, Idle)
                     /\ UNCHANGED <<kernel, clientFds, handled, running, epc, events, newFd,
                                    queue, mpc, cursor, torn>>

CloseConnection(w) == /\ worker[w].pc = "close"
                      /\ CloseFd(worker[w].fd)
                      /\ Step(w, Idle)
                      /\ UNCHANGED <<backlog, client, inbox, sent, clientFds, handled, running,
                                     epc, events, newFd, queue, mpc, cursor, torn>>
-----------------------------------------------------------------------------
(* Mutant: running_ is not cleared. *)
StopKeepsRunning == /\ mpc = "up"
                    /\ mpc' = "join"
                    /\ UNCHANGED <<kernel, clientFds, handled, running, epc, events, newFd,
                                   queue, worker, cursor, torn>>

(* stop(): running_ = false, join, close epollFd_ and listenFd_, close the *)
(* clients in the order of the set, clear it.  The pool is not drained.    *)
(* Where running_ is false, stop() returns at once and changes nothing.    *)
Stop == /\ mpc = "up"
        /\ running' = FALSE
        /\ mpc' = "join"
        /\ UNCHANGED <<kernel, clientFds, handled, epc, events, newFd, queue, worker,
                       cursor, torn>> 
StopJoin == /\ mpc = "join" /\ epc = "exited"
            /\ interest' = {}
            /\ backlog' = {}
            /\ mpc' = "closing"
            /\ UNCHANGED <<fdtab, freed, client, inbox, sent, clientFds, handled, running,
                           epc, events, newFd, queue, worker, cursor, torn>>

StopCloseOne == /\ mpc = "closing"
                /\ \E f \in clientFds : /\ f > cursor
                                        /\ \A g \in clientFds : g > cursor => f <= g
                                        /\ CloseFd(f)
                                        /\ cursor' = f
                /\ UNCHANGED <<backlog, client, inbox, sent, clientFds, handled, running, epc,
                               events, newFd, queue, worker, mpc, torn>>

(* Mutant: clientFds_ is cleared before its descriptors are closed. *)
StopClearFirst == /\ mpc = "closing"
                  /\ clientFds' = {}
                  /\ mpc' = "stopped"
                  /\ UNCHANGED <<kernel, handled, running, epc, events, newFd, queue, worker,
                                 cursor, torn>>

(* The loop is at its end; a dangling iterator may end it early. *)
StopClear == /\ mpc = "closing"
             /\ torn \/ \A f \in clientFds : f <= cursor
             /\ clientFds' = {}
             /\ mpc' = "stopped"
             /\ UNCHANGED <<kernel, handled, running, epc, events, newFd, queue, worker, cursor,
                            torn>>
-----------------------------------------------------------------------------
EpollThread == \/ EpollWait \/ EpollExit \/ EpollNext \/ (\E f \in Fds : Dispatch(f))
               \/ Accept \/ NonBlock \/ Add \/ Insert

WorkerThread(w) == \/ Take(w) \/ ReadData(w) \/ ReadNothing(w) \/ ReadBlocks(w) \/ ReadEnd(w)
                   \/ MessageCallback(w) \/ EpollDel(w) \/ Erase(w) \/ CloseConnection(w)

Stopping == StopJoin \/ StopCloseOne \/ StopClear

Next == \/ \E c \in Conns : Connect(c) \/ Send(c) \/ Hangup(c) \/ Reset(c)
        \/ Start
        \/ EpollThread \/ EpollFails
        \/ \E w \in Workers : WorkerThread(w)
        \/ Stop \/ Stopping

SafeSpec == Init /\ [][Next]_vars

(* The server's threads run when they can; clients, start(), stop() and an *)
(* error of epoll_wait are free.                                           *)
Spec == /\ SafeSpec
        /\ WF_vars(EpollThread) /\ WF_vars(Stopping)
        /\ \A w \in Workers : WF_vars(WorkerThread(w))
-----------------------------------------------------------------------------
(* Type invariant. *)
TypeOK == /\ fdtab \in [Fds -> Conns \union {Nobody}]
          /\ interest \subseteq Fds /\ freed \subseteq Fds /\ clientFds \subseteq Fds
          /\ backlog \subseteq Conns
          /\ client \in [Conns -> {"new", "open", "closed", "reset"}]
          /\ inbox \in [Conns -> Seq(1..MaxChunks)]
          /\ sent \in [Conns -> 0..MaxChunks]
          /\ handled \in [Conns -> Seq(1..MaxChunks)]
          /\ running \in BOOLEAN
          /\ epc \in {"wait", "dispatch", "nonblock", "add", "insert", "exited"}
          /\ events \subseteq Fds \union {Listen}
          /\ newFd \in Fds \union {NoFd}
          /\ queue \in Seq(Fds)
          /\ worker \in [Workers -> [pc : {"idle", "read", "blocked", "callback", "del", "erase",
                                           "close"},
                                     fd : Fds \union {NoFd}, from : Conns \union {Nobody},
                                     chunk : 0..MaxChunks, on : Conns \union {Nobody}]]
          /\ mpc \in {"new", "failed", "up", "join", "closing", "stopped"}
          /\ cursor \in Fds \union {0}
          /\ torn \in BOOLEAN

Open(f) == fdtab[f] # Nobody
BeingSetUp(f) == newFd = f /\ epc \in {"nonblock", "add", "insert"}
BeingClosed(f) == \E w \in Workers : worker[w].pc = "close" /\ worker[w].fd = f

(* No socket is orphaned: an open one is in clientFds_, so that stop()     *)
(* finds it, or some thread is about to enter or to close it.              *)
NoOrphanSocket ==
    \A f \in Fds : Open(f) /\ f \notin clientFds /\ ~torn => BeingSetUp(f) \/ BeingClosed(f)

(* A connection in clientFds_ that epoll does not watch is about to be     *)
(* closed: no client is left connected and never read.                     *)
NoDeafConnection ==
    \A f \in Fds : Open(f) /\ f \notin interest /\ mpc = "up" =>
        \/ BeingSetUp(f)
        \/ \E w \in Workers : worker[w].pc \in {"erase", "close"} /\ worker[w].fd = f

(* Each chunk reaches the message callback at most once, and unless the    *)
(* peer resets the connection none is lost: what was sent is unread, in a  *)
(* worker's hands or handled.  Workers may race for one descriptor.        *)
EachChunkOnce ==
    \A c \in Conns : \A n \in 1..sent[c] :
        LET copies == Cardinality({i \in DOMAIN inbox[c] : inbox[c][i] = n})
                      + Cardinality({w \in Workers : worker[w].from = c /\ worker[w].chunk = n})
                      + Cardinality({i \in DOMAIN handled[c] : handled[c][i] = n})
        IN  copies <= 1 /\ (client[c] # "reset" => copies = 1)

(* When stop() has returned, the only client sockets still open are those  *)
(* a worker is closing, unless it changed clientFds_ under stop().         *)
StopClosesClients ==
    mpc = "stopped" /\ ~torn => \A f \in Fds : Open(f) => BeingClosed(f)

(* stop() returns, whatever clients and workers do, unless they change     *)
(* clientFds_ under its loop.                                              *)
StopReturns == mpc = "join" ~> mpc = "stopped" \/ torn

(* The server closes its end of a connection whose peer has hung up or     *)
(* reset it, unless a worker changes clientFds_ under stop()'s loop, the   *)
(* epoll thread has left its loop on an error, or every worker is blocked  *)
(* in a read of a silent client, called before that socket was made        *)
(* non-blocking.                                                           *)
Accepted(c) == \E f \in Fds : fdtab[f] = c
HangupNoticed ==
    \A c \in Conns : Accepted(c) /\ Gone(c) ~>
        \/ ~Accepted(c)
        \/ torn
        \/ running /\ epc = "exited"
        \/ \A w \in Workers : worker[w].pc = "blocked"

(* Until stop() is called, a client that has not hung up loses its         *)
(* connection in two ways only: the epoll thread could not set it up, or a *)
(* worker closes its number once more, which had been closed before for    *)
(* another client that did hang up.                                        *)
ClosedOnlyForAHangup ==
    [][\A f \in Fds : mpc = "up" /\ Open(f) /\ ~Gone(fdtab[f]) /\ fdtab'[f] = Nobody =>
            \/ newFd = f /\ epc \in {"nonblock", "add"}
            \/ f \in freed /\ BeingClosed(f)]_vars
=============================================================================
