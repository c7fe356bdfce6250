------------------------- MODULE EpollServerProofs --------------------------
(***************************************************************************)
(* Proofs about EpollServer, for any number of connections, workers,       *)
(* descriptors, chunks and tasks: no client socket is lost or left         *)
(* unwatched, no chunk is lost or handled twice, stop() leaves nothing     *)
(* open, and connections are closed for a reason.                          *)
(***************************************************************************)
EXTENDS EpollServer, FiniteSetTheorems, TLAPS

(* Descriptors in the hands of the threads. *)
ThreadInv ==
    /\ \A w \in Workers : /\ worker[w].pc # "idle" => worker[w].fd \in Fds
                          /\ worker[w].pc = "callback" <=> worker[w].from # Nobody
                          /\ worker[w].pc = "callback" => worker[w].chunk \in 1..MaxChunks
    /\ epc \in {"nonblock", "add", "insert"} => newFd \in Fds

(* stop() has the set of clients to itself and the workers, and behind its *)
(* cursor everything is closed.                                            *)
StopInv ==
    /\ mpc \in {"new", "closing", "stopped"} => epc = "exited"
    /\ mpc \notin {"closing", "stopped"} => cursor = 0
    /\ mpc = "closing" => \A f \in clientFds : f <= cursor => ~Open(f)
    /\ mpc = "stopped" => clientFds = {}

(* A worker that has taken f out of epoll goes on to close it. *)
Leaving(f) == \E w \in Workers : worker[w].pc \in {"erase", "close"} /\ worker[w].fd = f

(* A number that is on its way into epoll. *)
BeforeAdd(f) == newFd = f /\ epc \in {"nonblock", "add"}

(* Before stop(), an open descriptor that epoll does not watch is on its   *)
(* way into epoll or out of the server.                                    *)
WatchInv ==
    mpc \in {"new", "up"} =>
        \A f \in Fds : Open(f) /\ f \notin interest =>
            BeforeAdd(f) \/ Leaving(f)

(* What has been taken from the socket of c: all but the last chunks,      *)
(* which wait in order.                                                    *)
Taken(c) == sent[c] - Len(inbox[c])
Holds(w, c, n) == worker[w].from = c /\ worker[w].chunk = n

InboxOK(c) == /\ Taken(c) \in Nat
              /\ \A i \in 1..Len(inbox[c]) : inbox[c][i] = Taken(c) + i
InboxInv == \A c \in Conns : InboxOK(c)

(* What has been taken is with one worker or was handled once. *)
HeldOK(c) ==
    /\ \A w \in Workers : worker[w].from = c => worker[w].chunk \in 1..Taken(c)
    /\ \A v, w \in Workers :
          worker[v].from = c /\ worker[w].from = c /\ worker[v].chunk = worker[w].chunk => v = w
HandledOK(c) ==
    /\ \A i \in 1..Len(handled[c]) : handled[c][i] \in 1..Taken(c)
    /\ \A i, j \in 1..Len(handled[c]) : handled[c][i] = handled[c][j] => i = j
ApartOK(c) ==
    \A w \in Workers : \A i \in 1..Len(handled[c]) :
        worker[w].from = c => worker[w].chunk # handled[c][i]
KeptOK(c) ==
    client[c] # "reset" =>
        \A n \in 1..Taken(c) : \/ \E w \in Workers : Holds(w, c, n)
                               \/ \E i \in 1..Len(handled[c]) : handled[c][i] = n
TakenOK(c) == HeldOK(c) /\ HandledOK(c) /\ ApartOK(c) /\ KeptOK(c)
TakenInv == \A c \in Conns : TakenOK(c)

(* A descriptor that was reported readable and is not read yet. *)
Queued(f) == \E i \in 1..Len(queue) : queue[i] = f
Reading(f) == \E w \in Workers : worker[w].pc = "read" /\ worker[w].fd = f
Pending(f) == f \in events \/ Queued(f) \/ Reading(f)

(* Before stop(): a task is for a watched socket, or it is a late one, for *)
(* a number that was closed under a client that had hung up; only a late   *)
(* task meets a blocking socket; a worker closes a socket whose client has *)
(* hung up, or is late.                                                    *)
Watched(f) == Open(f) /\ ~BeforeAdd(f)
Ended(f) == Open(f) /\ Gone(fdtab[f])
InterestOK == \A f \in interest : Watched(f)
PendingOK == \A f \in Fds : Pending(f) => f \in freed \/ Watched(f)
BlockedOK(w) == worker[w].pc = "blocked" => worker[w].fd \in freed
ClosingOK(w) == worker[w].pc \in {"del", "erase", "close"} =>
                    worker[w].fd \in freed \/ Ended(worker[w].fd)
ReasonInv ==
    mpc \in {"new", "up"} =>
        InterestOK /\ PendingOK /\ \A w \in Workers : BlockedOK(w) /\ ClosingOK(w)

EpollInv == /\ TypeOK /\ ThreadInv /\ StopInv /\ NoOrphanSocket /\ WatchInv
            /\ InboxInv /\ TakenInv /\ ReasonInv

WorkerState == [pc : {"idle", "read", "blocked", "callback", "del", "erase", "close"},
                fd : Fds \union {NoFd}, from : Conns \union {Nobody}, chunk : 0..MaxChunks,
                on : Conns \union {Nobody}]

(* The type invariant in three parts. *)
KernelTypes == /\ fdtab \in [Fds -> Conns \union {Nobody}]
               /\ interest \subseteq Fds /\ freed \subseteq Fds
               /\ backlog \subseteq Conns
               /\ client \in [Conns -> {"new", "open", "closed", "reset"}]
               /\ inbox \in [Conns -> Seq(1..MaxChunks)]
               /\ sent \in [Conns -> 0..MaxChunks]
ServerTypes == /\ clientFds \subseteq Fds
               /\ handled \in [Conns -> Seq(1..MaxChunks)]
               /\ running \in BOOLEAN
               /\ epc \in {"wait", "dispatch", "nonblock", "add", "insert", "exited"}
               /\ events \subseteq Fds \union {Listen}
               /\ newFd \in Fds \union {NoFd}
               /\ queue \in Seq(Fds)
               /\ mpc \in {"new", "failed", "up", "join", "closing", "stopped"}
               /\ cursor \in Fds \union {0}
               /\ torn \in BOOLEAN
WorkerTypes == worker \in [Workers -> WorkerState]
-----------------------------------------------------------------------------
(* What the first element of a sequence and the rest are. *)
LEMMA HeadTail ==
    ASSUME NEW S, NEW s \in Seq(S), s # <<>>
    PROVE  /\ Head(s) \in S /\ Tail(s) \in Seq(S) /\ Head(s) = s[1]
           /\ Len(s) \in Nat \ {0} /\ Len(Tail(s)) = Len(s) - 1
           /\ \A i \in 1..Len(Tail(s)) : Tail(s)[i] = s[i + 1]
  OBVIOUS

(* What appending an element does. *)
LEMMA AppendType ==
    ASSUME NEW S, NEW s \in Seq(S), NEW e \in S
    PROVE  /\ Append(s, e) \in Seq(S)
           /\ Len(s) \in Nat /\ Len(Append(s, e)) = Len(s) + 1
           /\ Append(s, e)[Len(s) + 1] = e
           /\ \A i \in 1..Len(s) : Append(s, e)[i] = s[i]
  OBVIOUS

(* The parts make up the type invariant. *)
LEMMA TypeParts == /\ TypeOK <=> KernelTypes /\ ServerTypes /\ WorkerTypes
                   /\ TypeOK' <=> KernelTypes' /\ ServerTypes' /\ WorkerTypes'
  BY DEF TypeOK, KernelTypes, ServerTypes, WorkerTypes, WorkerState

(* A worker's step leaves the other workers alone. *)
LEMMA StepEffect ==
    ASSUME WorkerTypes, NEW w \in Workers, NEW r, Step(w, r)
    PROVE  /\ worker'[w] = r
           /\ \A v \in Workers : v # w => worker'[v] = worker[v]
           /\ r \in WorkerState => WorkerTypes'
  BY DEF WorkerTypes, Step

(* Closing a descriptor. *)
LEMMA CloseFdEffect ==
    ASSUME KernelTypes, NEW f \in Fds, CloseFd(f)
    PROVE  /\ fdtab' \in [Fds -> Conns \union {Nobody}] /\ interest' \subseteq Fds
           /\ freed' \subseteq Fds /\ freed \subseteq freed'
           /\ fdtab'[f] = Nobody /\ f \notin interest'
           /\ fdtab[f] # Nobody /\ Gone(fdtab[f]) => f \in freed'
           /\ \A g \in Fds : g # f => fdtab'[g] = fdtab[g] /\ (g \in interest' <=> g \in interest)
  BY DEF KernelTypes, CloseFd

(* An idle worker has its type, and reads, deletes and so on change pc only. *)
LEMMA IdleType == Idle \in WorkerState /\ Idle.from = Nobody /\ Idle.pc = "idle"
<1>1. 0 \in 0..MaxChunks
  BY EpollServerAssumption
<1> QED
  BY <1>1 DEF Idle, WorkerState

(* setNonBlocking and EPOLL_CTL_ADD: the socket gets further or is closed. *)
LEMMA SetUpEffect ==
    ASSUME ThreadInv, NonBlock \/ Add
    PROVE  /\ newFd \in Fds /\ epc \in {"nonblock", "add"}
           /\ worker' = worker /\ clientFds' = clientFds /\ torn' = torn /\ mpc' = mpc
           /\ queue' = queue /\ events' = events /\ backlog' = backlog /\ client' = client
           /\ inbox' = inbox /\ sent' = sent
           /\ \/ /\ fdtab[newFd] # Nobody /\ fdtab' = fdtab /\ freed' = freed /\ newFd' = newFd
                 /\ \/ epc = "nonblock" /\ epc' = "add" /\ interest' = interest
                    \/ epc = "add" /\ epc' = "insert" /\ interest' = interest \union {newFd}
              \/ CloseFd(newFd) /\ epc' = "dispatch" /\ newFd' = NoFd
  BY DEF NonBlock, Add, SetUpFails, ThreadInv

(* A read is on a connection, if on any. *)
LEMMA ReadsFromType ==
    ASSUME KernelTypes, WorkerTypes, ThreadInv, NEW w \in Workers,
           worker[w].pc \in {"read", "blocked"}, ReadsFrom(w) # Nobody
    PROVE  ReadsFrom(w) \in Conns
<1>1. worker[w].on \in Conns \union {Nobody} /\ worker[w].fd \in Fds
  BY DEF WorkerTypes, WorkerState, ThreadInv
<1> QED
  BY <1>1 DEF ReadsFrom, KernelTypes

(* Every step keeps the types of the kernel's state. *)
LEMMA KernelStep ==
    ASSUME KernelTypes, ServerTypes, WorkerTypes, ThreadInv, [Next]_vars
    PROVE  KernelTypes'
<1>0. /\ fdtab \in [Fds -> Conns \union {Nobody}] /\ interest \subseteq Fds /\ freed \subseteq Fds
      /\ backlog \subseteq Conns
      /\ client \in [Conns -> {"new", "open", "closed", "reset"}]
      /\ inbox \in [Conns -> Seq(1..MaxChunks)] /\ sent \in [Conns -> 0..MaxChunks]
  BY DEF KernelTypes
<1> USE DEF kernel
<1>1. CASE Start \/ EpollWait \/ EpollExit \/ EpollFails \/ EpollNext \/ Insert \/ Stop \/ StopClear
  BY <1>0, <1>1 DEF Start, EpollWait, EpollExit, EpollFails, EpollNext, Insert, Stop, StopClear,
      KernelTypes
<1>2. ASSUME NEW f \in Fds, Dispatch(f) PROVE KernelTypes'
  BY <1>0, <1>2 DEF Dispatch, KernelTypes
<1>3. ASSUME NEW w \in Workers, Take(w) \/ ReadNothing(w) \/ ReadBlocks(w) \/ ReadEnd(w)
        \/ MessageCallback(w) \/ Erase(w) PROVE KernelTypes'
  BY <1>0, <1>3 DEF Take, ReadNothing, ReadBlocks, ReadEnd, MessageCallback, Erase, KernelTypes
<1>4. ASSUME NEW c \in Conns, Connect(c) PROVE KernelTypes'
  BY <1>0, <1>4 DEF Connect, KernelTypes
<1>5. ASSUME NEW c \in Conns, Send(c) PROVE KernelTypes'
  <2>1. sent[c] + 1 \in 1..MaxChunks
    BY <1>0, <1>5, EpollServerAssumption DEF Send
  <2>2. sent' \in [Conns -> 0..MaxChunks]
    BY <1>0, <1>5, <2>1 DEF Send
  <2>3. Append(inbox[c], sent[c] + 1) \in Seq(1..MaxChunks)
    BY <1>0, <2>1
  <2>4. inbox' \in [Conns -> Seq(1..MaxChunks)]
    BY <1>0, <1>5, <2>3 DEF Send
  <2> QED
    BY <1>0, <1>5, <2>2, <2>4 DEF Send, KernelTypes
<1>6. ASSUME NEW c \in Conns, Hangup(c) PROVE KernelTypes'
  BY <1>0, <1>6 DEF Hangup, KernelTypes
<1>7. ASSUME NEW c \in Conns, Reset(c) PROVE KernelTypes'
  <2>1. <<>> \in Seq(1..MaxChunks)
    OBVIOUS
  <2>2. inbox' \in [Conns -> Seq(1..MaxChunks)]
    BY <1>0, <1>7, <2>1 DEF Reset
  <2> QED
    BY <1>0, <1>7, <2>2 DEF Reset, KernelTypes
<1>8. CASE Accept
  BY <1>0, <1>8 DEF Accept, KernelTypes
<1>9. CASE NonBlock \/ Add
  BY <1>0, <1>9, SetUpEffect, CloseFdEffect DEF KernelTypes
<1>10. ASSUME NEW w \in Workers, ReadData(w) PROVE KernelTypes'
  <2>1. PICK c : c = ReadsFrom(w)
    OBVIOUS
  <2>2. c \in Conns /\ inbox[c] # <<>> /\ inbox' = [inbox EXCEPT ![c] = Tail(@)]
    BY <1>10, <2>1, ReadsFromType DEF ReadData
  <2>3. Tail(inbox[c]) \in Seq(1..MaxChunks)
    BY <1>0, <2>2
  <2>4. inbox' \in [Conns -> Seq(1..MaxChunks)]
    BY <1>0, <2>2, <2>3
  <2> QED
    BY <1>0, <1>10, <2>4 DEF ReadData, KernelTypes
<1>11. ASSUME NEW w \in Workers, EpollDel(w) PROVE KernelTypes'
  BY <1>0, <1>11 DEF EpollDel, KernelTypes
<1>12. ASSUME NEW w \in Workers, CloseConnection(w) PROVE KernelTypes'
  <2>1. worker[w].fd \in Fds
    BY <1>12 DEF CloseConnection, ThreadInv
  <2> QED
    BY <1>0, <1>12, <2>1, CloseFdEffect DEF CloseConnection, KernelTypes
<1>13. CASE StopJoin
  BY <1>0, <1>13 DEF StopJoin, KernelTypes
<1>14. CASE StopCloseOne
  <2>1. PICK f \in clientFds : CloseFd(f)
    BY <1>14 DEF StopCloseOne
  <2>2. f \in Fds
    BY <2>1 DEF ServerTypes
  <2> QED
    BY <1>0, <1>14, <2>1, <2>2, CloseFdEffect DEF StopCloseOne, KernelTypes
<1>15. CASE UNCHANGED vars
  BY <1>0, <1>15 DEF vars, KernelTypes
<1> QED
  BY <1>1, <1>2, <1>3, <1>4, <1>5, <1>6, <1>7, <1>8, <1>9, <1>10, <1>11, <1>12, <1>13, <1>14,
     <1>15
  DEF Next, EpollThread, WorkerThread, Stopping

(* Every step keeps the types of the server's own state. *)
LEMMA ServerStep ==
    ASSUME KernelTypes, ServerTypes, WorkerTypes, ThreadInv, [Next]_vars
    PROVE  ServerTypes'
<1>0. /\ clientFds \subseteq Fds /\ handled \in [Conns -> Seq(1..MaxChunks)] /\ running \in BOOLEAN
      /\ epc \in {"wait", "dispatch", "nonblock", "add", "insert", "exited"}
      /\ events \subseteq Fds \union {Listen} /\ newFd \in Fds \union {NoFd} /\ queue \in Seq(Fds)
      /\ mpc \in {"new", "failed", "up", "join", "closing", "stopped"}
      /\ cursor \in Fds \union {0} /\ torn \in BOOLEAN
  BY DEF ServerTypes
<1>1. ASSUME NEW c \in Conns, Connect(c) \/ Send(c) \/ Hangup(c) \/ Reset(c) PROVE ServerTypes'
  BY <1>0, <1>1 DEF Connect, Send, Hangup, Reset, ServerTypes
<1>2. ASSUME NEW w \in Workers, ReadData(w) \/ ReadNothing(w) \/ ReadBlocks(w) \/ ReadEnd(w)
        \/ EpollDel(w) \/ CloseConnection(w) PROVE ServerTypes'
  BY <1>0, <1>2 DEF ReadNothing, ReadBlocks, ReadEnd, EpollDel, ReadData, CloseConnection,
      ServerTypes
<1>3. CASE Start \/ EpollExit \/ EpollFails \/ EpollNext \/ Stop \/ StopJoin
  BY <1>0, <1>3 DEF Start, EpollExit, EpollFails, EpollNext, Stop, StopJoin, ServerTypes
<1>4. CASE EpollWait
  <2>1. events' \subseteq Fds \union {Listen}
    BY <1>4 DEF EpollWait, Ready, KernelTypes
  <2> QED
    BY <1>0, <1>4, <2>1 DEF EpollWait, ServerTypes
<1>5. ASSUME NEW f \in Fds, Dispatch(f) PROVE ServerTypes'
  <2>1. Append(queue, f) \in Seq(Fds)
    BY <1>0
  <2> QED
    BY <1>0, <1>5, <2>1 DEF Dispatch, ServerTypes
<1>6. CASE Accept
  BY <1>0, <1>6 DEF Accept, ServerTypes
<1>7. CASE NonBlock \/ Add
  BY <1>0, <1>7 DEF NonBlock, Add, SetUpFails, ServerTypes
<1>8. CASE Insert
  <2>1. newFd \in Fds
    BY <1>8 DEF Insert, ThreadInv
  <2> QED
    BY <1>0, <1>8, <2>1 DEF Insert, ServerTypes
<1>9. ASSUME NEW w \in Workers, Take(w) PROVE ServerTypes'
  <2>1. Tail(queue) \in Seq(Fds)
    BY <1>0, <1>9 DEF Take
  <2> QED
    BY <1>0, <1>9, <2>1 DEF Take, ServerTypes
<1>10. ASSUME NEW w \in Workers, MessageCallback(w) PROVE ServerTypes'
  <2>1. worker[w].from \in Conns /\ worker[w].chunk \in 1..MaxChunks
    BY <1>10 DEF MessageCallback, ThreadInv, WorkerTypes, WorkerState
  <2>2. Append(handled[worker[w].from], worker[w].chunk) \in Seq(1..MaxChunks)
    BY <1>0, <2>1
  <2>3. handled' \in [Conns -> Seq(1..MaxChunks)]
    BY <1>0, <1>10, <2>1, <2>2 DEF MessageCallback
  <2> QED
    BY <1>0, <1>10, <2>3 DEF MessageCallback, ServerTypes
<1>11. ASSUME NEW w \in Workers, Erase(w) PROVE ServerTypes'
  BY <1>0, <1>11 DEF Erase, ServerTypes
<1>12. CASE StopCloseOne
  BY <1>0, <1>12 DEF StopCloseOne, ServerTypes
<1>13. CASE StopClear
  BY <1>0, <1>13 DEF StopClear, ServerTypes
<1>14. CASE UNCHANGED vars
  BY <1>0, <1>14 DEF vars, ServerTypes
<1> QED
  BY <1>1, <1>2, <1>3, <1>4, <1>5, <1>6, <1>7, <1>8, <1>9, <1>10, <1>11, <1>12, <1>13, <1>14
  DEF Next, EpollThread, WorkerThread, Stopping

(* A read ends: the worker is about to close its number. *)
LEMMA EndEffect ==
    ASSUME WorkerTypes, NEW w \in Workers, ReadEnd(w)
    PROVE  /\ worker'[w].pc = "del" /\ worker'[w].fd = worker[w].fd /\ worker'[w].from = Nobody
           /\ \A v \in Workers : v # w => worker'[v] = worker[v]
           /\ WorkerTypes'
<1>1. PICK r : r = [Idle EXCEPT !.pc = "del", !.fd = worker[w].fd]
  OBVIOUS
<1>2. worker[w].fd \in Fds \union {NoFd}
  BY DEF WorkerTypes, WorkerState
<1>3. r \in WorkerState /\ r.pc = "del" /\ r.fd = worker[w].fd /\ r.from = Nobody
  BY <1>1, <1>2, IdleType DEF WorkerState, Idle
<1>4. Step(w, r)
  BY <1>1 DEF ReadEnd
<1> QED
  BY <1>3, <1>4, StepEffect

(* A read blocks: the worker keeps its number and holds no data. *)
LEMMA BlocksEffect ==
    ASSUME KernelTypes, WorkerTypes, ThreadInv, NEW w \in Workers, ReadBlocks(w)
    PROVE  /\ worker'[w].pc = "blocked" /\ worker'[w].fd = worker[w].fd
           /\ worker'[w].from = Nobody
           /\ \A v \in Workers : v # w => worker'[v] = worker[v]
           /\ WorkerTypes'
<1>1. PICK r : r = [worker[w] EXCEPT !.pc = "blocked", !.on = fdtab[worker[w].fd]]
  OBVIOUS
<1>2. worker[w] \in WorkerState /\ worker[w].fd \in Fds /\ worker[w].from = Nobody
  BY DEF ReadBlocks, ThreadInv, WorkerTypes
<1>3. fdtab[worker[w].fd] \in Conns \union {Nobody}
  BY <1>2 DEF KernelTypes
<1>4. r \in WorkerState /\ r.pc = "blocked" /\ r.fd = worker[w].fd /\ r.from = worker[w].from
  BY <1>1, <1>2, <1>3 DEF WorkerState
<1>5. Step(w, r)
  BY <1>1 DEF ReadBlocks
<1> QED
  BY <1>2, <1>4, <1>5, StepEffect

(* Every step keeps the types of the workers. *)
LEMMA WorkerStep ==
    ASSUME KernelTypes, ServerTypes, WorkerTypes, ThreadInv, [Next]_vars
    PROVE  WorkerTypes'
<1>1. ASSUME NEW c \in Conns, Connect(c) \/ Send(c) \/ Hangup(c) \/ Reset(c) PROVE WorkerTypes'
  BY <1>1 DEF Connect, Send, Hangup, Reset, WorkerTypes
<1>2. ASSUME NEW f \in Fds, Dispatch(f) PROVE WorkerTypes'
  BY <1>2 DEF Dispatch, WorkerTypes
<1>3. CASE Start \/ EpollWait \/ EpollExit \/ EpollFails \/ EpollNext \/ Accept \/ NonBlock
        \/ Add \/ Insert \/ Stop
        \/ StopJoin \/ StopCloseOne \/ StopClear
  BY <1>3
  DEF Start, EpollWait, EpollExit, EpollFails, EpollNext, Accept, NonBlock, Add, SetUpFails,
      Insert, Stop, StopJoin, StopCloseOne,
      StopClear, WorkerTypes
<1>4. ASSUME NEW w \in Workers, ReadNothing(w) \/ MessageCallback(w)
        \/ CloseConnection(w) PROVE WorkerTypes'
  BY <1>4, StepEffect, IdleType DEF ReadNothing, MessageCallback, CloseConnection
<1>5. ASSUME NEW w \in Workers, EpollDel(w) \/ Erase(w) PROVE WorkerTypes'
  <2>1. worker[w] \in WorkerState
    BY DEF WorkerTypes
  <2>2. /\ [worker[w] EXCEPT !.pc = "erase"] \in WorkerState
        /\ [worker[w] EXCEPT !.pc = "close"] \in WorkerState
    BY <2>1 DEF WorkerState
  <2> QED
    BY <1>5, <2>2, StepEffect DEF EpollDel, Erase
<1>6. ASSUME NEW w \in Workers, Take(w) PROVE WorkerTypes'
  <2>1. Head(queue) \in Fds
    BY <1>6 DEF Take, ServerTypes
  <2>2. [Idle EXCEPT !.pc = "read", !.fd = Head(queue)] \in WorkerState
    BY <2>1, IdleType DEF WorkerState
  <2> QED
    BY <1>6, <2>2, StepEffect DEF Take
<1>7. ASSUME NEW w \in Workers, ReadData(w) PROVE WorkerTypes'
  <2>1. PICK c : c = ReadsFrom(w)
    OBVIOUS
  <2>2. worker[w].fd \in Fds /\ c \in Conns /\ inbox[c] # <<>>
    BY <1>7, <2>1, ReadsFromType DEF ReadData, ThreadInv
  <2>3. Head(inbox[c]) \in 0..MaxChunks
    <3>1. inbox[c] \in Seq(1..MaxChunks)
      BY <2>2 DEF KernelTypes
    <3>2. Head(inbox[c]) \in 1..MaxChunks
      BY <2>2, <3>1, HeadTail
    <3> QED
      BY <3>2, EpollServerAssumption
  <2>4. [Idle EXCEPT !.pc = "callback", !.fd = worker[w].fd, !.from = c, !.chunk = Head(inbox[c])]
            \in WorkerState
    BY <2>2, <2>3, IdleType DEF WorkerState
  <2> QED
    BY <1>7, <2>1, <2>4, StepEffect DEF ReadData
<1>9. ASSUME NEW w \in Workers, ReadEnd(w) PROVE WorkerTypes'
  BY <1>9, EndEffect
<1>10. ASSUME NEW w \in Workers, ReadBlocks(w) PROVE WorkerTypes'
  BY <1>10, BlocksEffect
<1>8. CASE UNCHANGED vars
  BY <1>8 DEF vars, WorkerTypes
<1> QED
  BY <1>1, <1>2, <1>3, <1>4, <1>5, <1>6, <1>7, <1>8, <1>9, <1>10
  DEF Next, EpollThread, WorkerThread, Stopping

(* A worker goes on with the descriptor it has. *)
LEMMA PcStep ==
    ASSUME WorkerTypes, NEW w \in Workers, NEW p, Step(w, [worker[w] EXCEPT !.pc = p])
    PROVE  /\ worker'[w].pc = p /\ worker'[w].fd = worker[w].fd
           /\ worker'[w].from = worker[w].from /\ worker'[w].chunk = worker[w].chunk
           /\ \A v \in Workers : v # w => worker'[v] = worker[v]
<1>1. worker[w] \in WorkerState
  BY DEF WorkerTypes
<1> QED
  BY <1>1, StepEffect DEF WorkerState

(* A worker is done with its task. *)
LEMMA IdleStep ==
    ASSUME WorkerTypes, NEW w \in Workers, Step(w, Idle)
    PROVE  /\ worker'[w].pc = "idle" /\ worker'[w].from = Nobody
           /\ \A v \in Workers : v # w => worker'[v] = worker[v]
  BY StepEffect, IdleType

(* A worker takes the first task of the pool. *)
LEMMA TakeEffect ==
    ASSUME TypeOK, NEW w \in Workers, Take(w)
    PROVE  /\ worker[w].pc = "idle" /\ queue # <<>> /\ queue' = Tail(queue)
           /\ worker'[w].pc = "read" /\ worker'[w].fd = Head(queue) /\ worker'[w].from = Nobody
           /\ Head(queue) \in Fds
           /\ \A v \in Workers : v # w => worker'[v] = worker[v]
<1>1. Step(w, [Idle EXCEPT !.pc = "read", !.fd = Head(queue)])
  BY DEF Take
<1>2. LET r == [Idle EXCEPT !.pc = "read", !.fd = Head(queue)]
      IN  r.pc = "read" /\ r.fd = Head(queue) /\ r.from = Nobody
  BY DEF Idle
<1>3. Head(queue) \in Fds
  BY TypeParts DEF Take, ServerTypes
<1> QED
  BY <1>1, <1>2, <1>3, StepEffect, TypeParts DEF Take

(* A worker takes the first chunk from a socket. *)
LEMMA ReadDataEffect ==
    ASSUME TypeOK, ThreadInv, NEW w \in Workers, ReadData(w)
    PROVE  \E c \in Conns :
              /\ worker[w].pc \in {"read", "blocked"} /\ worker[w].fd \in Fds
              /\ inbox[c] # <<>> /\ inbox' = [inbox EXCEPT ![c] = Tail(@)]
              /\ worker'[w].pc = "callback" /\ worker'[w].fd = worker[w].fd
              /\ worker'[w].from = c /\ worker'[w].chunk = Head(inbox[c])
              /\ Head(inbox[c]) \in 1..MaxChunks
              /\ \A v \in Workers : v # w => worker'[v] = worker[v]
<1>0. PICK c : c = ReadsFrom(w)
  OBVIOUS
<1>1. worker[w].fd \in Fds
  BY DEF ReadData, ThreadInv
<1>2. /\ c \in Conns /\ inbox[c] # <<>> /\ inbox' = [inbox EXCEPT ![c] = Tail(@)]
      /\ worker[w].pc \in {"read", "blocked"}
  BY <1>0, ReadsFromType, TypeParts DEF ReadData
<1>3. PICK r : r = [Idle EXCEPT !.pc = "callback", !.fd = worker[w].fd, !.from = c,
                              !.chunk = Head(inbox[c])]
  OBVIOUS
<1>4. r.pc = "callback" /\ r.fd = worker[w].fd /\ r.from = c /\ r.chunk = Head(inbox[c])
  BY <1>3 DEF Idle
<1>5. worker'[w] = r /\ \A v \in Workers : v # w => worker'[v] = worker[v]
  BY <1>0, <1>3, StepEffect, TypeParts DEF ReadData
<1>6. Head(inbox[c]) \in 1..MaxChunks
  <2>1. inbox[c] \in Seq(1..MaxChunks)
    BY <1>2, TypeParts DEF KernelTypes
  <2> QED
    BY <1>2, <2>1, HeadTail
<1> QED
  BY <1>1, <1>2, <1>4, <1>5, <1>6

(* Every step leaves the threads with descriptors of the table. *)
LEMMA ThreadStep ==
    ASSUME TypeOK, ThreadInv, [Next]_vars
    PROVE  ThreadInv'
<1>0. WorkerTypes /\ Nobody \notin Conns
  BY TypeParts, EpollServerAssumption
<1>1. ASSUME NEW c \in Conns, Connect(c) \/ Send(c) \/ Hangup(c) \/ Reset(c) PROVE ThreadInv'
  BY <1>1 DEF Connect, Send, Hangup, Reset, ThreadInv
<1>2. CASE Start \/ EpollWait \/ EpollExit \/ EpollFails \/ EpollNext \/ NonBlock \/ Add
        \/ Insert \/ Stop \/ StopJoin
        \/ StopCloseOne \/ StopClear
  BY <1>2
  DEF Start, EpollWait, EpollExit, EpollFails, EpollNext, NonBlock, Add, SetUpFails, Insert,
      Stop, StopJoin, StopCloseOne,
      StopClear, ThreadInv
<1>3. ASSUME NEW w \in Workers, ReadNothing(w) \/ MessageCallback(w)
        \/ CloseConnection(w) PROVE ThreadInv'
  <2>1. Step(w, Idle) /\ epc' = epc /\ newFd' = newFd
    BY <1>3 DEF ReadNothing, MessageCallback, CloseConnection
  <2> QED
    BY <1>0, <2>1, IdleStep DEF ThreadInv
<1>4. ASSUME NEW w \in Workers, EpollDel(w) \/ Erase(w) PROVE ThreadInv'
  <2>1. PICK p \in {"erase", "close"} : Step(w, [worker[w] EXCEPT !.pc = p])
    BY <1>4 DEF EpollDel, Erase
  <2>2. epc' = epc /\ newFd' = newFd /\ worker[w].pc \in {"del", "erase"}
    BY <1>4 DEF EpollDel, Erase
  <2> QED
    BY <1>0, <2>1, <2>2, PcStep DEF ThreadInv
<1>10. ASSUME NEW w \in Workers, ReadEnd(w) \/ ReadBlocks(w) PROVE ThreadInv'
  <2>1. epc' = epc /\ newFd' = newFd /\ worker[w].pc \in {"read", "blocked"}
    BY <1>10 DEF ReadEnd, ReadBlocks
  <2>2. /\ worker'[w].pc \in {"del", "blocked"} /\ worker'[w].fd = worker[w].fd
        /\ worker'[w].from = Nobody /\ \A v \in Workers : v # w => worker'[v] = worker[v]
    BY <1>0, <1>10, EndEffect, BlocksEffect, TypeParts
  <2> QED
    BY <1>0, <2>1, <2>2 DEF ThreadInv
<1>5. ASSUME NEW f \in Fds, Dispatch(f) PROVE ThreadInv'
  BY <1>5 DEF Dispatch, ThreadInv
<1>6. CASE Accept
  BY <1>6 DEF Accept, ThreadInv
<1>7. ASSUME NEW w \in Workers, Take(w) PROVE ThreadInv'
  <2>1. epc' = epc /\ newFd' = newFd
    BY <1>7 DEF Take
  <2> QED
    BY <1>7, <2>1, TakeEffect DEF ThreadInv
<1>8. ASSUME NEW w \in Workers, ReadData(w) PROVE ThreadInv'
  <2>1. epc' = epc /\ newFd' = newFd
    BY <1>8 DEF ReadData
  <2> QED
    BY <1>0, <1>8, <2>1, ReadDataEffect DEF ThreadInv
<1>9. CASE UNCHANGED vars
  BY <1>9 DEF vars, ThreadInv
<1> QED
  BY <1>1, <1>2, <1>3, <1>4, <1>5, <1>6, <1>7, <1>8, <1>9, <1>10
  DEF Next, EpollThread, WorkerThread, Stopping

(* Every step leaves closed what the loop of stop() has passed. *)
LEMMA StopStep ==
    ASSUME TypeOK, ThreadInv, StopInv, [Next]_vars
    PROVE  StopInv'
<1>0. /\ clientFds \subseteq Fds /\ cursor \in Fds \union {0} /\ Fds \subseteq Nat \ {0}
      /\ mpc \in {"new", "failed", "up", "join", "closing", "stopped"} /\ KernelTypes
  BY TypeParts DEF ServerTypes, Fds
<1> USE DEF kernel
<1>1. ASSUME NEW c \in Conns, Connect(c) \/ Send(c) \/ Hangup(c) \/ Reset(c) PROVE StopInv'
  BY <1>1 DEF Connect, Send, Hangup, Reset, StopInv, Open
<1>2. CASE Start \/ EpollWait \/ EpollExit \/ EpollFails \/ EpollNext \/ Stop
  BY <1>2 DEF Start, EpollWait, EpollExit, EpollFails, EpollNext, Stop, StopInv, Open
<1>3. ASSUME NEW w \in Workers, Take(w) \/ ReadData(w) \/ ReadNothing(w) \/ ReadBlocks(w)
    \/ ReadEnd(w)
        \/ MessageCallback(w) \/ EpollDel(w) \/ Erase(w) PROVE StopInv'
  BY <1>3
  DEF Take, ReadNothing, ReadBlocks, ReadEnd, ReadData, MessageCallback, EpollDel, Erase,
      StopInv, Open
<1>4. CASE Accept \/ NonBlock \/ Add \/ Insert
  <2>1. mpc \notin {"new", "closing", "stopped"} /\ mpc' = mpc /\ cursor' = cursor
    BY <1>4 DEF Accept, NonBlock, Add, Insert, StopInv
  <2> QED
    BY <2>1 DEF StopInv
<1>5. ASSUME NEW f \in Fds, Dispatch(f) PROVE StopInv'
  BY <1>5 DEF Dispatch, StopInv, Open
<1>6. ASSUME NEW w \in Workers, CloseConnection(w) PROVE StopInv'
  <2>1. worker[w].fd \in Fds
    BY <1>6 DEF CloseConnection, ThreadInv
  <2>2. \A g \in Fds : ~Open(g) => ~(Open(g)')
    BY <1>0, <1>6, <2>1, CloseFdEffect DEF CloseConnection, Open
  <2> QED
    BY <1>0, <1>6, <2>2 DEF CloseConnection, StopInv
<1>7. CASE StopJoin
  BY <1>0, <1>7 DEF StopJoin, StopInv
<1>8. CASE StopCloseOne
  <2>1. PICK f \in clientFds : /\ f > cursor /\ \A g \in clientFds : g > cursor => f <= g
                                /\ CloseFd(f) /\ cursor' = f
    BY <1>8 DEF StopCloseOne
  <2>2. f \in Fds
    BY <1>0, <2>1
  <2>3. \A g \in Fds : (g # f => (Open(g)' <=> Open(g))) /\ ~(Open(f)')
    BY <1>0, <2>1, <2>2, CloseFdEffect DEF Open
  <2>4. ASSUME NEW g \in clientFds, g <= f PROVE ~(Open(g)')
    <3>1. CASE g = f
      BY <2>2, <2>3, <3>1
    <3>2. CASE g # f
      <4>1. g <= cursor
        BY <1>0, <2>1, <2>2, <2>4, <3>2
      <4>2. ~Open(g)
        BY <1>8, <4>1 DEF StopCloseOne, StopInv
      <4> QED
        BY <1>0, <2>3, <3>2, <4>2
    <3> QED
      BY <3>1, <3>2
  <2> QED
    BY <1>8, <2>1, <2>4 DEF StopCloseOne, StopInv
<1>9. CASE StopClear
  BY <1>9 DEF StopClear, StopInv
<1>10. CASE UNCHANGED vars
  BY <1>10 DEF vars, StopInv, Open
<1> QED
  BY <1>1, <1>2, <1>3, <1>4, <1>5, <1>6, <1>7, <1>8, <1>9, <1>10
  DEF Next, EpollThread, WorkerThread, Stopping


(* Nothing is orphaned by a step that opens no socket, drops none from     *)
(* clientFds_ and stops no thread that holds one.                          *)
LEMMA OrphanKept ==
    ASSUME NoOrphanSocket, torn' = torn,
           \A f \in Fds : Open(f)' /\ f \notin clientFds' => Open(f) /\ f \notin clientFds,
           \A f \in Fds : BeingSetUp(f) \/ BeingClosed(f) => (BeingSetUp(f) \/ BeingClosed(f))'
    PROVE  NoOrphanSocket'
  BY DEF NoOrphanSocket

(* The sockets in the hands of the workers that do not move stay there. *)
LEMMA ClosedKept ==
    ASSUME NEW w \in Workers, NEW f \in Fds, BeingClosed(f),
           ~(worker[w].pc = "close" /\ worker[w].fd = f),
           \A v \in Workers : v # w => worker'[v] = worker[v]
    PROVE  BeingClosed(f)'
  BY DEF BeingClosed


(* Every step leaves each open socket with somebody. *)
LEMMA OrphanStep ==
    ASSUME TypeOK, ThreadInv, StopInv, NoOrphanSocket, [Next]_vars
    PROVE  NoOrphanSocket'
<1>0. WorkerTypes /\ KernelTypes /\ clientFds \subseteq Fds
  BY TypeParts DEF ServerTypes
<1> USE DEF kernel
<1>1. ASSUME NEW c \in Conns, Connect(c) \/ Send(c) \/ Hangup(c) \/ Reset(c) PROVE NoOrphanSocket'
  BY <1>1 DEF Connect, Send, Hangup, Reset, NoOrphanSocket, Open, BeingSetUp, BeingClosed
<1>2. CASE Start \/ EpollWait \/ EpollExit \/ EpollFails \/ EpollNext \/ Stop \/ StopJoin
  <2>1. /\ fdtab' = fdtab /\ clientFds' = clientFds /\ torn' = torn /\ worker' = worker
        /\ newFd' = newFd /\ (epc \in {"nonblock", "add", "insert"} => epc' = epc)
    BY <1>2 DEF Start, EpollWait, EpollExit, EpollFails, EpollNext, Stop, StopJoin, StopInv
  <2> QED
    BY <2>1 DEF NoOrphanSocket, Open, BeingSetUp, BeingClosed
<1>3. ASSUME NEW w \in Workers, Take(w) \/ ReadData(w) \/ ReadNothing(w) \/ ReadBlocks(w)
    \/ ReadEnd(w)
        \/ MessageCallback(w) \/ EpollDel(w) PROVE NoOrphanSocket'
  <2>1. /\ fdtab' = fdtab /\ clientFds' = clientFds /\ torn' = torn
        /\ newFd' = newFd /\ epc' = epc /\ worker[w].pc # "close"
    BY <1>3 DEF Take, ReadNothing, ReadBlocks, ReadData, ReadEnd, MessageCallback, EpollDel
  <2>2. \A v \in Workers : v # w => worker'[v] = worker[v]
    BY <1>0, <1>3, StepEffect DEF Take, ReadNothing, ReadBlocks, ReadData, ReadEnd,
        MessageCallback, EpollDel
  <2>3. \A f \in Fds : BeingClosed(f) => BeingClosed(f)'
    BY <2>1, <2>2, ClosedKept
  <2> QED
    BY <2>1, <2>3, OrphanKept DEF Open, BeingSetUp
<1>4. ASSUME NEW f \in Fds, Dispatch(f) PROVE NoOrphanSocket'
  BY <1>4 DEF Dispatch, NoOrphanSocket, Open, BeingSetUp, BeingClosed
<1>5. CASE Accept
  <2>1. worker' = worker /\ clientFds' = clientFds /\ torn' = torn /\ epc = "dispatch"
    BY <1>5 DEF Accept
  <2>2. \A f \in Fds : (BeingClosed(f)' <=> BeingClosed(f)) /\ ~BeingSetUp(f)
    BY <2>1 DEF BeingClosed, BeingSetUp
  <2>3. \A f \in Fds : Open(f)' => Open(f) \/ BeingSetUp(f)'
    BY <1>0, <1>5 DEF Accept, Open, BeingSetUp, KernelTypes
  <2> QED
    BY <2>1, <2>2, <2>3 DEF NoOrphanSocket
<1>6. CASE NonBlock \/ Add
  <2>1. /\ worker' = worker /\ clientFds' = clientFds /\ torn' = torn
        /\ epc \in {"nonblock", "add"} /\ newFd \in Fds
    BY <1>6, SetUpEffect
  <2>2. \A f \in Fds : BeingClosed(f)' <=> BeingClosed(f)
    BY <2>1 DEF BeingClosed
  <2>3. CASE fdtab' = fdtab /\ newFd' = newFd /\ epc' \in {"add", "insert"}
    BY <2>1, <2>2, <2>3, OrphanKept DEF Open, BeingSetUp
  <2>4. CASE CloseFd(newFd)
    <3>1. \A f \in Fds : Open(f)' => Open(f) /\ f # newFd
      BY <1>0, <2>1, <2>4, CloseFdEffect DEF Open
    <3> QED
      BY <2>1, <2>2, <3>1 DEF NoOrphanSocket, BeingSetUp
  <2> QED
    BY <1>6, <2>3, <2>4, SetUpEffect
<1>7. CASE Insert
  BY <1>7 DEF Insert, NoOrphanSocket, Open, BeingSetUp, BeingClosed
<1>8. ASSUME NEW w \in Workers, Erase(w) PROVE NoOrphanSocket'
  <2>1. /\ worker'[w].pc = "close" /\ worker'[w].fd = worker[w].fd
        /\ \A v \in Workers : v # w => worker'[v] = worker[v]
    BY <1>0, <1>8, PcStep DEF Erase
  <2>2. /\ worker[w].pc # "close" /\ clientFds' = clientFds \ {worker[w].fd} /\ (~torn' => ~torn)
        /\ fdtab' = fdtab /\ newFd' = newFd /\ epc' = epc
    BY <1>8 DEF Erase
  <2>3. \A f \in Fds : BeingClosed(f) => BeingClosed(f)'
    BY <2>1, <2>2, ClosedKept
  <2>4. \A f \in Fds : f = worker[w].fd => BeingClosed(f)'
    BY <2>1 DEF BeingClosed
  <2> QED
    BY <2>2, <2>3, <2>4 DEF NoOrphanSocket, Open, BeingSetUp
<1>9. ASSUME NEW w \in Workers, CloseConnection(w) PROVE NoOrphanSocket'
  <2>1. worker[w].fd \in Fds /\ CloseFd(worker[w].fd)
    BY <1>9 DEF CloseConnection, ThreadInv
  <2>2. \A f \in Fds : Open(f)' => Open(f) /\ f # worker[w].fd
    BY <1>0, <2>1, CloseFdEffect DEF Open
  <2>3. /\ clientFds' = clientFds /\ torn' = torn /\ newFd' = newFd /\ epc' = epc
        /\ \A v \in Workers : v # w => worker'[v] = worker[v]
    BY <1>0, <1>9, StepEffect DEF CloseConnection
  <2>4. \A f \in Fds : f # worker[w].fd /\ BeingClosed(f) => BeingClosed(f)'
    BY <2>3, ClosedKept
  <2> QED
    BY <2>2, <2>3, <2>4 DEF NoOrphanSocket, BeingSetUp
<1>10. CASE StopCloseOne
  <2>1. PICK f \in clientFds : CloseFd(f)
    BY <1>10 DEF StopCloseOne
  <2>2. \A g \in Fds : Open(g)' => Open(g)
    BY <1>0, <2>1, CloseFdEffect DEF Open
  <2> QED
    BY <1>10, <2>2, OrphanKept DEF StopCloseOne, BeingSetUp, BeingClosed
<1>11. CASE StopClear
  <2>1. /\ ~torn => \A f \in clientFds : ~Open(f)
        /\ torn' = torn /\ fdtab' = fdtab /\ newFd' = newFd /\ epc' = epc /\ worker' = worker
    BY <1>11 DEF StopClear, StopInv
  <2> QED
    BY <2>1 DEF NoOrphanSocket, Open, BeingSetUp, BeingClosed
<1>12. CASE UNCHANGED vars
  BY <1>12 DEF vars, NoOrphanSocket, Open, BeingSetUp, BeingClosed
<1> QED
  BY <1>1, <1>2, <1>3, <1>4, <1>5, <1>6, <1>7, <1>8, <1>9, <1>10, <1>11, <1>12
  DEF Next, EpollThread, WorkerThread, Stopping

(* Every open socket stays watched over a step that opens none, watches    *)
(* as many and stops no thread that holds one.                             *)
LEMMA WatchKept ==
    ASSUME WatchInv, mpc' \in {"new", "up"} => mpc \in {"new", "up"},
           \A f \in Fds : Open(f)' /\ f \notin interest' => Open(f) /\ f \notin interest,
           \A f \in Fds : BeforeAdd(f) => BeforeAdd(f)',
           \A f \in Fds : Leaving(f) => Leaving(f)'
    PROVE  WatchInv'
  BY DEF WatchInv

(* A worker that does not move keeps the socket it is closing. *)
LEMMA LeavingKept ==
    ASSUME NEW w \in Workers, NEW f \in Fds, Leaving(f),
           ~(worker[w].pc \in {"erase", "close"} /\ worker[w].fd = f),
           \A v \in Workers : v # w => worker'[v] = worker[v]
    PROVE  Leaving(f)'
  BY DEF Leaving

(* Every step leaves each open socket watched, on its way in, or on its way out. *)
LEMMA WatchStep ==
    ASSUME TypeOK, ThreadInv, StopInv, WatchInv, [Next]_vars
    PROVE  WatchInv'
<1>0. WorkerTypes /\ KernelTypes
  BY TypeParts
<1> USE DEF kernel
<1>1. ASSUME NEW c \in Conns, Connect(c) \/ Send(c) \/ Hangup(c) \/ Reset(c) PROVE WatchInv'
  BY <1>1, WatchKept DEF BeforeAdd, Connect, Send, Hangup, Reset, Open, Leaving
<1>2. CASE Start \/ EpollWait \/ EpollExit \/ EpollFails \/ EpollNext
  <2>1. /\ fdtab' = fdtab /\ interest' = interest /\ worker' = worker
        /\ newFd' = newFd /\ (epc \in {"nonblock", "add"} => epc' = epc) /\ (mpc' # mpc => mpc =
            "new")
    BY <1>2 DEF Start, EpollWait, EpollExit, EpollFails, EpollNext, StopInv
  <2> QED
    BY <2>1, WatchKept DEF BeforeAdd, Open, Leaving
<1>3. CASE Stop \/ StopJoin \/ StopCloseOne \/ StopClear
  <2>1. mpc' \notin {"new", "up"}
    BY <1>3 DEF Stop, StopJoin, StopCloseOne, StopClear
  <2> QED
    BY <2>1 DEF WatchInv
<1>4. ASSUME NEW w \in Workers, Take(w) \/ ReadData(w) \/ ReadNothing(w) \/ ReadBlocks(w)
    \/ ReadEnd(w)
        \/ MessageCallback(w) PROVE WatchInv'
  <2>1. /\ fdtab' = fdtab /\ interest' = interest /\ mpc' = mpc
        /\ newFd' = newFd /\ epc' = epc /\ worker[w].pc \notin {"erase", "close"}
    BY <1>4 DEF Take, ReadNothing, ReadBlocks, ReadData, ReadEnd, MessageCallback
  <2>2. \A v \in Workers : v # w => worker'[v] = worker[v]
    BY <1>0, <1>4, StepEffect DEF Take, ReadNothing, ReadBlocks, ReadData, ReadEnd, MessageCallback
  <2>3. \A f \in Fds : Leaving(f) => Leaving(f)'
    BY <2>1, <2>2, LeavingKept
  <2> QED
    BY <2>1, <2>3, WatchKept DEF BeforeAdd, Open
<1>5. ASSUME NEW f \in Fds, Dispatch(f) PROVE WatchInv'
  BY <1>5, WatchKept DEF BeforeAdd, Dispatch, Open, Leaving
<1>6. CASE Accept
  <2>1. worker' = worker /\ interest' = interest /\ mpc' = mpc /\ epc = "dispatch"
    BY <1>6 DEF Accept
  <2>2. \A f \in Fds : Leaving(f)' <=> Leaving(f)
    BY <2>1 DEF Leaving
  <2>3. \A f \in Fds : Open(f)' => Open(f) \/ BeforeAdd(f)'
    BY <1>0, <1>6 DEF Accept, Open, KernelTypes, BeforeAdd
  <2> QED
    BY <2>1, <2>2, <2>3 DEF WatchInv, BeforeAdd
<1>7. CASE NonBlock \/ Add
  <2>1. worker' = worker /\ mpc' = mpc /\ epc \in {"nonblock", "add"} /\ newFd \in Fds
    BY <1>7, SetUpEffect
  <2>2. \A f \in Fds : Leaving(f)' <=> Leaving(f)
    BY <2>1 DEF Leaving
  <2>3. CASE /\ fdtab' = fdtab /\ newFd' = newFd
             /\ \/ epc' = "add" /\ interest' = interest
                \/ interest' = interest \union {newFd}
    BY <2>1, <2>2, <2>3 DEF Open, WatchInv, BeforeAdd
  <2>4. CASE CloseFd(newFd)
    <3>1. \A f \in Fds : Open(f)' /\ f \notin interest' =>
                        Open(f) /\ f # newFd /\ f \notin interest
      BY <1>0, <2>1, <2>4, CloseFdEffect DEF Open
    <3> QED
      BY <2>1, <2>2, <3>1 DEF WatchInv, BeforeAdd
  <2> QED
    BY <1>7, <2>3, <2>4, SetUpEffect
<1>8. CASE Insert
  BY <1>8, WatchKept DEF BeforeAdd, Insert, Open, Leaving
<1>9. ASSUME NEW w \in Workers, EpollDel(w) PROVE WatchInv'
  <2>1. /\ worker'[w].pc = "erase" /\ worker'[w].fd = worker[w].fd
        /\ \A v \in Workers : v # w => worker'[v] = worker[v]
    BY <1>0, <1>9, PcStep DEF EpollDel
  <2>2. /\ worker[w].pc = "del" /\ interest' = interest \ {worker[w].fd}
        /\ fdtab' = fdtab /\ newFd' = newFd /\ epc' = epc /\ mpc' = mpc
    BY <1>9 DEF EpollDel
  <2>3. \A f \in Fds : Leaving(f) \/ f = worker[w].fd => Leaving(f)'
    BY <2>1, <2>2, LeavingKept DEF Leaving
  <2> QED
    BY <2>2, <2>3 DEF WatchInv, Open, BeforeAdd
<1>10. ASSUME NEW w \in Workers, Erase(w) PROVE WatchInv'
  <2>1. /\ worker'[w].pc = "close" /\ worker'[w].fd = worker[w].fd
        /\ \A v \in Workers : v # w => worker'[v] = worker[v]
    BY <1>0, <1>10, PcStep DEF Erase
  <2>2. /\ interest' = interest /\ fdtab' = fdtab /\ newFd' = newFd /\ epc' = epc /\ mpc' = mpc
        /\ worker[w].pc = "erase"
    BY <1>10 DEF Erase
  <2>3. \A f \in Fds : Leaving(f) => Leaving(f)'
    BY <2>1, <2>2, LeavingKept DEF Leaving
  <2> QED
    BY <2>2, <2>3, WatchKept DEF BeforeAdd, Open
<1>11. ASSUME NEW w \in Workers, CloseConnection(w) PROVE WatchInv'
  <2>1. worker[w].fd \in Fds /\ CloseFd(worker[w].fd)
    BY <1>11 DEF CloseConnection, ThreadInv
  <2>2. \A f \in Fds : Open(f)' /\ f \notin interest' =>
                        Open(f) /\ f # worker[w].fd /\ f \notin interest
    BY <1>0, <2>1, CloseFdEffect DEF Open
  <2>3. /\ mpc' = mpc /\ newFd' = newFd /\ epc' = epc
        /\ \A v \in Workers : v # w => worker'[v] = worker[v]
    BY <1>0, <1>11, StepEffect DEF CloseConnection
  <2>4. \A f \in Fds : f # worker[w].fd /\ Leaving(f) => Leaving(f)'
    BY <2>3, LeavingKept
  <2> QED
    BY <2>2, <2>3, <2>4 DEF WatchInv, BeforeAdd
<1>12. CASE UNCHANGED vars
  BY <1>12, WatchKept DEF BeforeAdd, vars, Open, Leaving
<1> QED
  BY <1>1, <1>2, <1>3, <1>4, <1>5, <1>6, <1>7, <1>8, <1>9, <1>10, <1>11, <1>12
  DEF Next, EpollThread, WorkerThread, Stopping

(* A connection whose unread and sent chunks stay the same. *)
LEMMA InboxKept ==
    ASSUME NEW c \in Conns, inbox'[c] = inbox[c], sent'[c] = sent[c]
    PROVE  Taken(c)' = Taken(c) /\ (InboxOK(c) => InboxOK(c)')
  BY DEF InboxOK, Taken

(* A chunk is sent: it waits behind the others. *)
LEMMA SendInbox ==
    ASSUME TypeOK, InboxInv, NEW c \in Conns, Send(c)
    PROVE  /\ \A d \in Conns : Taken(d)' = Taken(d)
           /\ InboxInv'
<1>1. /\ inbox \in [Conns -> Seq(1..MaxChunks)] /\ sent \in [Conns -> 0..MaxChunks]
  BY TypeParts DEF KernelTypes
<1>2. /\ inbox'[c] = Append(inbox[c], sent[c] + 1) /\ sent'[c] = sent[c] + 1
      /\ \A d \in Conns : d # c => inbox'[d] = inbox[d] /\ sent'[d] = sent[d]
      /\ sent[c] + 1 \in 1..MaxChunks
  BY <1>1, EpollServerAssumption DEF Send
<1>3. /\ Len(inbox[c]) \in Nat /\ Len(inbox'[c]) = Len(inbox[c]) + 1
      /\ inbox'[c][Len(inbox[c]) + 1] = sent[c] + 1
      /\ \A i \in 1..Len(inbox[c]) : inbox'[c][i] = inbox[c][i]
  BY <1>1, <1>2, AppendType
<1>4. Taken(c)' = Taken(c)
  BY <1>1, <1>2, <1>3 DEF Taken
<1>5. InboxOK(c)
  BY DEF InboxInv
<1>6. \A i \in 1..Len(inbox'[c]) : inbox'[c][i] = Taken(c) + i
  <2> SUFFICES ASSUME NEW i \in 1..(Len(inbox[c]) + 1) PROVE inbox'[c][i] = Taken(c) + i
    BY <1>3
  <2>1. CASE i = Len(inbox[c]) + 1
    BY <1>1, <1>3, <2>1 DEF Taken
  <2>2. CASE i \in 1..Len(inbox[c])
    BY <1>3, <1>5, <2>2 DEF InboxOK
  <2> QED
    BY <1>3, <2>1, <2>2
<1>7. InboxOK(c)'
  BY <1>4, <1>5, <1>6 DEF InboxOK
<1>8. \A d \in Conns : d # c => Taken(d)' = Taken(d) /\ InboxOK(d)'
  BY <1>2, InboxKept DEF InboxInv
<1> QED
  BY <1>4, <1>7, <1>8 DEF InboxInv

(* A reset discards what was not read. *)
LEMMA ResetInbox ==
    ASSUME TypeOK, InboxInv, NEW c \in Conns, Reset(c)
    PROVE  /\ Taken(c) \in Nat /\ Taken(c)' \in Nat /\ Taken(c) <= Taken(c)'
           /\ \A d \in Conns : d # c => Taken(d)' = Taken(d)
           /\ InboxInv'
<1>1. /\ inbox \in [Conns -> Seq(1..MaxChunks)] /\ sent \in [Conns -> 0..MaxChunks]
  BY TypeParts DEF KernelTypes
<1>2. /\ inbox'[c] = <<>> /\ sent' = sent
      /\ \A d \in Conns : d # c => inbox'[d] = inbox[d]
  BY <1>1 DEF Reset
<1>3. Len(inbox'[c]) = 0 /\ Len(inbox[c]) \in Nat /\ sent[c] \in Nat
  BY <1>1, <1>2
<1>4. Taken(c) \in Nat /\ Taken(c)' \in Nat /\ Taken(c) <= Taken(c)'
  BY <1>2, <1>3 DEF Taken, InboxInv, InboxOK
<1>5. InboxOK(c)'
  BY <1>3, <1>4 DEF InboxOK
<1>6. \A d \in Conns : d # c => Taken(d)' = Taken(d) /\ InboxOK(d)'
  BY <1>2, InboxKept DEF InboxInv
<1> QED
  BY <1>4, <1>5, <1>6 DEF InboxInv

(* A read takes the next chunk. *)
LEMMA ReadInbox ==
    ASSUME TypeOK, InboxInv, NEW c \in Conns, inbox[c] # <<>>, sent' = sent,
           inbox' = [inbox EXCEPT ![c] = Tail(@)]
    PROVE  /\ Taken(c) \in Nat /\ Taken(c)' = Taken(c) + 1 /\ Head(inbox[c]) = Taken(c) + 1
           /\ \A d \in Conns : d # c => Taken(d)' = Taken(d)
           /\ InboxInv'
<1>1. /\ inbox \in [Conns -> Seq(1..MaxChunks)] /\ sent \in [Conns -> 0..MaxChunks]
  BY TypeParts DEF KernelTypes
<1>2. /\ inbox'[c] = Tail(inbox[c])
      /\ \A d \in Conns : d # c => inbox'[d] = inbox[d]
  BY <1>1
<1>3. /\ Len(inbox[c]) \in Nat \ {0} /\ Len(inbox'[c]) = Len(inbox[c]) - 1
      /\ Head(inbox[c]) = inbox[c][1]
      /\ \A i \in 1..Len(inbox'[c]) : inbox'[c][i] = inbox[c][i + 1]
  BY <1>1, <1>2, HeadTail
<1>4. Taken(c) \in Nat /\ \A i \in 1..Len(inbox[c]) : inbox[c][i] = Taken(c) + i
  BY DEF InboxInv, InboxOK
<1>5. Taken(c)' = Taken(c) + 1
  BY <1>1, <1>3 DEF Taken
<1>6. Head(inbox[c]) = Taken(c) + 1
  BY <1>3, <1>4
<1>7. \A i \in 1..Len(inbox'[c]) : inbox'[c][i] = (Taken(c) + 1) + i
  BY <1>3, <1>4
<1>8. InboxOK(c)'
  BY <1>4, <1>5, <1>7 DEF InboxOK
<1>9. \A d \in Conns : d # c => Taken(d)' = Taken(d) /\ InboxOK(d)'
  BY <1>2, InboxKept DEF InboxInv
<1> QED
  BY <1>4, <1>5, <1>6, <1>8, <1>9 DEF InboxInv

(* Every step leaves the unread chunks of a connection in order. *)
LEMMA InboxStep ==
    ASSUME TypeOK, ThreadInv, InboxInv, [Next]_vars
    PROVE  InboxInv'
<1> USE DEF kernel
<1>1. ASSUME NEW c \in Conns, Connect(c) \/ Hangup(c) PROVE InboxInv'
  <2>1. inbox' = inbox /\ sent' = sent
    BY <1>1 DEF Connect, Hangup
  <2> QED
    BY <2>1, InboxKept DEF InboxInv
<1>2. CASE Start \/ EpollWait \/ EpollExit \/ EpollFails \/ EpollNext \/ Accept \/ NonBlock
        \/ Add \/ Insert \/ Stop
        \/ StopJoin \/ StopCloseOne \/ StopClear
  <2>1. inbox' = inbox /\ sent' = sent
    BY <1>2
    DEF EpollWait, EpollExit, EpollFails, EpollNext, Start, Accept, NonBlock, Add, SetUpFails,
        Insert, Stop, StopJoin,
      StopCloseOne, StopClear
  <2> QED
    BY <2>1, InboxKept DEF InboxInv
<1>3. ASSUME NEW w \in Workers, Take(w) \/ ReadNothing(w) \/ ReadBlocks(w) \/ ReadEnd(w)
        \/ MessageCallback(w) \/ EpollDel(w) \/ Erase(w) \/ CloseConnection(w) PROVE InboxInv'
  <2>1. inbox' = inbox /\ sent' = sent
    BY <1>3
    DEF Take, ReadNothing, ReadBlocks, ReadEnd, EpollDel, Erase, CloseConnection, MessageCallback
  <2> QED
    BY <2>1, InboxKept DEF InboxInv
<1>4. ASSUME NEW c \in Conns, Send(c) PROVE InboxInv'
  BY <1>4, SendInbox
<1>5. ASSUME NEW c \in Conns, Reset(c) PROVE InboxInv'
  BY <1>5, ResetInbox
<1>6. ASSUME NEW f \in Fds, Dispatch(f) PROVE InboxInv'
  <2>1. inbox' = inbox /\ sent' = sent
    BY <1>6 DEF Dispatch
  <2> QED
    BY <2>1, InboxKept DEF InboxInv
<1>7. ASSUME NEW w \in Workers, ReadData(w) PROVE InboxInv'
  <2>1. PICK c \in Conns : inbox[c] # <<>> /\ inbox' = [inbox EXCEPT ![c] = Tail(@)]
    BY <1>7, ReadDataEffect
  <2>2. sent' = sent
    BY <1>7 DEF ReadData
  <2> QED
    BY <2>1, <2>2, ReadInbox
<1>8. CASE UNCHANGED vars
  <2>1. inbox' = inbox /\ sent' = sent
    BY <1>8 DEF vars
  <2> QED
    BY <2>1, InboxKept DEF InboxInv
<1> QED
  BY <1>1, <1>2, <1>3, <1>4, <1>5, <1>6, <1>7, <1>8
  DEF Next, EpollThread, WorkerThread, Stopping

(* The workers hold the same chunks of c before and after. *)
SameHands(c) ==
    \A w \in Workers : /\ worker'[w].from = c <=> worker[w].from = c
                       /\ worker[w].from = c => worker'[w].chunk = worker[w].chunk

(* A connection of which nothing is read, handled or thrown away. *)
LEMMA TakenKept ==
    ASSUME NEW c \in Conns, TakenOK(c), SameHands(c), Taken(c)' = Taken(c),
           handled'[c] = handled[c], client'[c] # "reset" => client[c] # "reset"
    PROVE  TakenOK(c)'
<1>1. HeldOK(c)'
  BY DEF TakenOK, HeldOK, SameHands
<1>2. HandledOK(c)'
  BY DEF TakenOK, HandledOK
<1>3. ApartOK(c)'
  BY DEF TakenOK, ApartOK, SameHands
<1>4. KeptOK(c)'
  <2> SUFFICES ASSUME client'[c] # "reset", NEW n \in 1..Taken(c)
               PROVE  \/ \E w \in Workers : Holds(w, c, n)'
                      \/ \E i \in 1..Len(handled[c]) : handled[c][i] = n
    BY DEF KeptOK
  <2> QED
    BY DEF TakenOK, KeptOK, Holds, SameHands
<1> QED
  BY <1>1, <1>2, <1>3, <1>4 DEF TakenOK

(* A reset connection: what was taken is still handled once. *)
LEMMA ResetTaken ==
    ASSUME NEW c \in Conns, TakenOK(c), worker' = worker, handled' = handled, client'[c] = "reset",
           Taken(c) \in Nat, Taken(c)' \in Nat, Taken(c) <= Taken(c)'
    PROVE  TakenOK(c)'
<1>1. \A n \in 1..Taken(c) : n \in 1..Taken(c)'
  OBVIOUS
<1>2. HeldOK(c)' /\ HandledOK(c)'
  BY <1>1 DEF TakenOK, HeldOK, HandledOK
<1>3. ApartOK(c)' /\ KeptOK(c)'
  BY DEF TakenOK, ApartOK, KeptOK
<1> QED
  BY <1>2, <1>3 DEF TakenOK

(* A worker takes the chunk that follows those taken before. *)
LEMMA ReadTaken ==
    ASSUME NEW c \in Conns, NEW w \in Workers, TakenOK(c), handled' = handled, client' = client,
           worker[w].from # c, worker'[w].from = c, worker'[w].chunk = Taken(c) + 1,
           \A v \in Workers : v # w => worker'[v] = worker[v],
           Taken(c) \in Nat, Taken(c)' = Taken(c) + 1
    PROVE  TakenOK(c)'
<1> DEFINE N == Taken(c)
<1>1. /\ N \in Nat /\ Taken(c)' = N + 1 /\ worker'[w].chunk = N + 1
      /\ \A v \in Workers : worker[v].from = c => worker[v].chunk \in 1..N
      /\ \A i \in 1..Len(handled[c]) : handled[c][i] \in 1..N
  BY DEF TakenOK, HeldOK, HandledOK
<1>2. client[c] # "reset" =>
         \A n \in 1..N : \/ \E v \in Workers : Holds(v, c, n)
                         \/ \E i \in 1..Len(handled[c]) : handled[c][i] = n
  BY DEF TakenOK, KeptOK
<1> HIDE DEF N
<1>3. \A n \in 1..N : n \in 1..(N + 1) /\ n # N + 1
  BY <1>1
<1>4. N + 1 \in 1..(N + 1)
  BY <1>1
<1>5. \A n \in 1..(N + 1) : n = N + 1 \/ n \in 1..N
  BY <1>1
<1>6. \A v \in Workers : worker'[v].from = c => worker'[v].chunk \in 1..(N + 1)
  BY <1>1, <1>3, <1>4
<1>7. \A u, v \in Workers : worker'[u].from = c /\ worker'[v].from = c
                              /\ worker'[u].chunk = worker'[v].chunk => u = v
  <2> SUFFICES ASSUME NEW u \in Workers, NEW v \in Workers, worker'[u].from = c,
                      worker'[v].from = c, worker'[u].chunk = worker'[v].chunk
               PROVE  u = v
    OBVIOUS
  <2>1. CASE u = w \/ v = w
    BY <1>1, <1>3, <2>1
  <2>2. CASE u # w /\ v # w
    BY <2>2 DEF TakenOK, HeldOK
  <2> QED
    BY <2>1, <2>2
<1>8. HeldOK(c)'
  BY <1>1, <1>6, <1>7 DEF HeldOK
<1>9. HandledOK(c)'
  BY <1>1, <1>3 DEF TakenOK, HandledOK
<1>10. ApartOK(c)'
  BY <1>1, <1>3 DEF TakenOK, ApartOK
<1>11. ASSUME client[c] # "reset", NEW n \in 1..(N + 1)
       PROVE  \/ \E v \in Workers : Holds(v, c, n)'
              \/ \E i \in 1..Len(handled[c]) : handled[c][i] = n
  <2>1. CASE n = N + 1
    BY <1>1, <2>1 DEF Holds
  <2>2. CASE n \in 1..N
    <3>1. \A v \in Workers : Holds(v, c, n) => Holds(v, c, n)'
      BY DEF Holds
    <3> QED
      BY <1>2, <1>11, <2>2, <3>1
  <2> QED
    BY <1>5, <1>11, <2>1, <2>2
<1>12. KeptOK(c)'
  BY <1>1, <1>11 DEF KeptOK
<1> QED
  BY <1>8, <1>9, <1>10, <1>12 DEF TakenOK

(* A worker hands its chunk to the message callback. *)
LEMMA CallbackTaken ==
    ASSUME NEW c \in Conns, NEW w \in Workers, TakenOK(c), client' = client, c # Nobody,
           worker[w].from = c, worker'[w].from = Nobody,
           \A v \in Workers : v # w => worker'[v] = worker[v],
           Len(handled[c]) \in Nat, Len(handled'[c]) = Len(handled[c]) + 1,
           handled'[c][Len(handled[c]) + 1] = worker[w].chunk,
           \A i \in 1..Len(handled[c]) : handled'[c][i] = handled[c][i],
           Taken(c)' = Taken(c)
    PROVE  TakenOK(c)'
<1> DEFINE h == handled[c]
           g == handled'[c]
           L == Len(h)
           n0 == worker[w].chunk
<1>1. L \in Nat /\ Len(g) = L + 1 /\ g[L + 1] = n0 /\ \A i \in 1..L : g[i] = h[i]
  OBVIOUS
<1>2. /\ n0 \in 1..Taken(c)
      /\ \A i \in 1..L : h[i] \in 1..Taken(c) /\ n0 # h[i]
      /\ \A i, j \in 1..L : h[i] = h[j] => i = j
  BY DEF TakenOK, HeldOK, HandledOK, ApartOK
<1>3. HeldOK(c)'
  BY DEF TakenOK, HeldOK
<1>4. ASSUME NEW v \in Workers, worker'[v].from = c
      PROVE  /\ worker[v].from = c /\ worker'[v].chunk = worker[v].chunk
             /\ worker'[v].chunk # n0 /\ \A i \in 1..L : worker'[v].chunk # h[i]
  BY <1>4 DEF TakenOK, HeldOK, ApartOK
<1>5. client[c] # "reset" =>
         \A n \in 1..Taken(c) : \/ \E v \in Workers : Holds(v, c, n)
                                \/ \E i \in 1..L : h[i] = n
  BY DEF TakenOK, KeptOK
<1>6. handled[c] = h /\ handled'[c] = g
  OBVIOUS
<1>7. \A v \in Workers : \A n : Holds(v, c, n) => Holds(v, c, n)' \/ n = n0
  BY DEF Holds
<1> HIDE DEF h, g, L, n0
<1>8. \A i \in 1..(L + 1) : i = L + 1 \/ i \in 1..L
  BY <1>1
<1>9. HandledOK(c)'
  <2>1. \A i \in 1..(L + 1) : g[i] \in 1..Taken(c)
    BY <1>1, <1>2, <1>8
  <2>2. \A i, j \in 1..(L + 1) : g[i] = g[j] => i = j
    BY <1>1, <1>2, <1>8
  <2> QED
    BY <1>1, <1>6, <2>1, <2>2 DEF HandledOK
<1>10. ApartOK(c)'
  <2>1. ASSUME NEW v \in Workers, NEW i \in 1..(L + 1), worker'[v].from = c
        PROVE  worker'[v].chunk # g[i]
    BY <1>1, <1>4, <1>8, <2>1
  <2> QED
    BY <1>1, <1>6, <2>1 DEF ApartOK
<1>11. ASSUME client[c] # "reset", NEW n \in 1..Taken(c)
       PROVE  \/ \E v \in Workers : Holds(v, c, n)'
              \/ \E i \in 1..(L + 1) : g[i] = n
  <2>1. L + 1 \in 1..(L + 1) /\ \A i \in 1..L : i \in 1..(L + 1)
    BY <1>1
  <2>2. CASE \E v \in Workers : Holds(v, c, n)
    BY <1>1, <1>7, <2>1, <2>2
  <2>3. CASE \E i \in 1..L : h[i] = n
    BY <1>1, <2>1, <2>3
  <2> QED
    BY <1>5, <1>11, <2>2, <2>3
<1>12. KeptOK(c)'
  BY <1>1, <1>6, <1>11 DEF KeptOK
<1> QED
  BY <1>3, <1>9, <1>10, <1>12 DEF TakenOK

(* Every step leaves a chunk that was read with one worker or handled once. *)
LEMMA TakenStep ==
    ASSUME TypeOK, ThreadInv, InboxInv, TakenInv, [Next]_vars
    PROVE  TakenInv'
<1>0. /\ WorkerTypes /\ Nobody \notin Conns
      /\ KernelTypes /\ client \in [Conns -> {"new", "open", "closed", "reset"}]
      /\ handled \in [Conns -> Seq(1..MaxChunks)]
  BY TypeParts, EpollServerAssumption DEF KernelTypes, ServerTypes
<1> USE DEF kernel
<1>1. ASSUME NEW c \in Conns, Connect(c) \/ Hangup(c) PROVE TakenInv'
  <2>1. /\ inbox' = inbox /\ sent' = sent /\ worker' = worker /\ handled' = handled
        /\ \A d \in Conns : client'[d] # "reset" => client[d] # "reset"
    BY <1>0, <1>1 DEF Connect, Hangup
  <2> QED
    BY <2>1, InboxKept, TakenKept DEF TakenInv, SameHands
<1>2. CASE Start \/ EpollWait \/ EpollExit \/ EpollFails \/ EpollNext \/ Accept \/ NonBlock
        \/ Add \/ Insert \/ Stop
        \/ StopJoin \/ StopCloseOne \/ StopClear
  <2>1. inbox' = inbox /\ sent' = sent /\ worker' = worker /\ handled' = handled /\ client' = client
    BY <1>2
    DEF EpollWait, EpollExit, EpollFails, EpollNext, Start, Accept, NonBlock, Add, SetUpFails,
        Insert, Stop, StopJoin,
      StopCloseOne, StopClear
  <2> QED
    BY <2>1, InboxKept, TakenKept DEF TakenInv, SameHands
<1>3. ASSUME NEW w \in Workers, Take(w) \/ ReadNothing(w) \/ ReadBlocks(w) \/ ReadEnd(w)
    \/ EpollDel(w)
        \/ Erase(w) \/ CloseConnection(w) PROVE TakenInv'
  <2>1. inbox' = inbox /\ sent' = sent /\ handled' = handled /\ client' = client
    BY <1>3 DEF Take, ReadNothing, ReadBlocks, ReadEnd, EpollDel, Erase, CloseConnection
  <2>2. worker[w].from = Nobody
    BY <1>3 DEF Take, ReadNothing, ReadBlocks, ReadEnd, EpollDel, Erase, CloseConnection, ThreadInv
  <2>3. worker'[w].from = Nobody /\ \A v \in Workers : v # w => worker'[v] = worker[v]
    BY <1>0, <1>3, <2>2, IdleStep, PcStep, TakeEffect, EndEffect, BlocksEffect
    DEF ReadNothing, EpollDel, Erase, CloseConnection
  <2>4. \A c \in Conns : SameHands(c)
    BY <1>0, <2>2, <2>3 DEF SameHands
  <2> QED
    BY <2>1, <2>4, InboxKept, TakenKept DEF TakenInv
<1>4. ASSUME NEW c \in Conns, Send(c) PROVE TakenInv'
  <2>1. worker' = worker /\ handled' = handled /\ client' = client
    BY <1>4 DEF Send
  <2> QED
    BY <1>4, <2>1, SendInbox, TakenKept DEF TakenInv, SameHands
<1>5. ASSUME NEW c \in Conns, Reset(c) PROVE TakenInv'
  <2>1. /\ worker' = worker /\ handled' = handled /\ client'[c] = "reset"
        /\ \A d \in Conns : d # c => client'[d] = client[d]
    BY <1>0, <1>5 DEF Reset
  <2>2. TakenOK(c)'
    BY <1>5, <2>1, ResetInbox, ResetTaken DEF TakenInv
  <2>3. \A d \in Conns : d # c => TakenOK(d)'
    BY <1>5, <2>1, ResetInbox, TakenKept DEF TakenInv, SameHands
  <2> QED
    BY <2>2, <2>3 DEF TakenInv
<1>6. ASSUME NEW f \in Fds, Dispatch(f) PROVE TakenInv'
  <2>1. inbox' = inbox /\ sent' = sent /\ worker' = worker /\ handled' = handled /\ client' = client
    BY <1>6 DEF Dispatch
  <2> QED
    BY <2>1, InboxKept, TakenKept DEF TakenInv, SameHands
<1>7. ASSUME NEW w \in Workers, ReadData(w) PROVE TakenInv'
  <2>1. PICK c \in Conns :
           /\ worker[w].pc # "callback" /\ inbox[c] # <<>> /\ inbox' = [inbox EXCEPT ![c] = Tail(@)]
           /\ worker'[w].from = c /\ worker'[w].chunk = Head(inbox[c])
           /\ \A v \in Workers : v # w => worker'[v] = worker[v]
    BY <1>7, ReadDataEffect
  <2>2. sent' = sent /\ handled' = handled /\ client' = client
    BY <1>7 DEF ReadData
  <2>3. worker[w].from = Nobody
    BY <2>1 DEF ThreadInv
  <2>4. /\ Taken(c) \in Nat /\ Taken(c)' = Taken(c) + 1 /\ Head(inbox[c]) = Taken(c) + 1
        /\ \A d \in Conns : d # c => Taken(d)' = Taken(d)
    BY <2>1, <2>2, ReadInbox
  <2>5. TakenOK(c)'
    BY <1>0, <2>1, <2>2, <2>3, <2>4, ReadTaken DEF TakenInv
  <2>6. ASSUME NEW d \in Conns, d # c PROVE TakenOK(d)'
    <3>1. SameHands(d)
      BY <1>0, <2>1, <2>3, <2>6 DEF SameHands
    <3> QED
      BY <2>2, <2>4, <2>6, <3>1, TakenKept DEF TakenInv
  <2> QED
    BY <2>5, <2>6 DEF TakenInv
<1>8. ASSUME NEW w \in Workers, MessageCallback(w) PROVE TakenInv'
  <2>1. worker[w].from \in Conns /\ worker[w].chunk \in 1..MaxChunks
    BY <1>0, <1>8 DEF MessageCallback, ThreadInv, WorkerTypes, WorkerState
  <2>2. PICK c \in Conns : worker[w].from = c
    BY <2>1
  <2>3. /\ inbox' = inbox /\ sent' = sent /\ client' = client /\ Step(w, Idle)
        /\ handled' = [handled EXCEPT ![c] = Append(@, worker[w].chunk)]
    BY <1>8, <2>2 DEF MessageCallback
  <2>4. worker'[w].from = Nobody /\ \A v \in Workers : v # w => worker'[v] = worker[v]
    BY <1>0, <2>3, IdleStep
  <2>5. /\ handled'[c] = Append(handled[c], worker[w].chunk)
        /\ handled[c] \in Seq(1..MaxChunks)
        /\ \A d \in Conns : d # c => handled'[d] = handled[d]
    BY <1>0, <2>1, <2>3
  <2>6. /\ Len(handled[c]) \in Nat /\ Len(handled'[c]) = Len(handled[c]) + 1
        /\ handled'[c][Len(handled[c]) + 1] = worker[w].chunk
        /\ \A i \in 1..Len(handled[c]) : handled'[c][i] = handled[c][i]
    BY <2>1, <2>5, AppendType
  <2>7. \A d \in Conns : Taken(d)' = Taken(d)
    BY <2>3, InboxKept
  <2>8. TakenOK(c) /\ c # Nobody
    BY <1>0, <2>1 DEF TakenInv
  <2>9. TakenOK(c)'
    BY <2>1, <2>3, <2>4, <2>2, <2>6, <2>7, <2>8, CallbackTaken
  <2>10. ASSUME NEW d \in Conns, d # c PROVE TakenOK(d)'
    <3>1. SameHands(d)
      BY <1>0, <2>4, <2>2, <2>10 DEF SameHands
    <3> QED
      BY <2>3, <2>5, <2>7, <2>10, <3>1, TakenKept DEF TakenInv
  <2> QED
    BY <2>9, <2>10 DEF TakenInv
<1>9. CASE UNCHANGED vars
  <2>1. inbox' = inbox /\ sent' = sent /\ worker' = worker /\ handled' = handled /\ client' = client
    BY <1>9 DEF vars
  <2> QED
    BY <2>1, InboxKept, TakenKept DEF TakenInv, SameHands
<1> QED
  BY <1>1, <1>2, <1>3, <1>4, <1>5, <1>6, <1>7, <1>8, <1>9
  DEF Next, EpollThread, WorkerThread, Stopping


(* Before stop() a step comes from a state before stop(). *)
LEMMA EarlyStep ==
    ASSUME [Next]_vars, mpc' \in {"new", "up"}
    PROVE  mpc \in {"new", "up"}
<1>1. ASSUME NEW c \in Conns, Connect(c) \/ Send(c) \/ Hangup(c) \/ Reset(c) PROVE mpc' = mpc
  BY <1>1 DEF Connect, Send, Hangup, Reset
<1>2. ASSUME NEW w \in Workers, WorkerThread(w) PROVE mpc' = mpc
  BY <1>2 DEF WorkerThread, Take, ReadData, ReadNothing, ReadBlocks, ReadEnd, MessageCallback,
              EpollDel, Erase, CloseConnection
<1>3. EpollThread \/ EpollFails \/ UNCHANGED vars => mpc' = mpc
  BY DEF EpollThread, EpollWait, EpollExit, EpollFails, EpollNext, Dispatch, Accept, NonBlock, Add,
         Insert, vars
<1>4. Start => mpc \in {"new", "up"}
  BY DEF Start
<1>5. ~Stop /\ ~Stopping
  BY DEF Stop, Stopping, StopJoin, StopCloseOne, StopClear
<1> QED
  BY <1>1, <1>2, <1>3, <1>4, <1>5 DEF Next

(* The reasons outlast a step after which a watched socket is watched or   *)
(* its number is freed, a socket at its end is still there or its number   *)
(* is freed, and what is new has its reason.                               *)
LEMMA ReasonKept ==
    ASSUME ReasonInv, mpc \in {"new", "up"}, interest' \subseteq Fds,
           \A w \in Workers : worker'[w].pc # "idle" => worker'[w].fd \in Fds,
           freed \subseteq freed',
           \A f \in Fds : Watched(f) => Watched(f)' \/ f \in freed',
           \A f \in Fds : Ended(f) => Ended(f)' \/ f \in freed',
           \A f \in interest' : Watched(f)' \/ (f \in interest /\ (Watched(f) => Watched(f)')),
           \A f \in Fds : Pending(f)' => Pending(f) \/ Watched(f)',
           \A w \in Workers : worker'[w].pc = "blocked" =>
               \/ worker'[w].fd \in freed'
               \/ worker[w].pc = "blocked" /\ worker'[w].fd = worker[w].fd,
           \A w \in Workers : worker'[w].pc \in {"del", "erase", "close"} =>
               \/ worker'[w].fd \in freed' \/ Ended(worker[w].fd)'
               \/ worker[w].pc \in {"del", "erase", "close"} /\ worker'[w].fd = worker[w].fd
    PROVE  ReasonInv'
<1>1. /\ InterestOK /\ PendingOK
      /\ \A w \in Workers : BlockedOK(w) /\ ClosingOK(w)
  BY DEF ReasonInv
<1>2. InterestOK'
  BY <1>1 DEF InterestOK
<1>3. PendingOK'
  BY <1>1 DEF PendingOK
<1>4. ASSUME NEW w \in Workers PROVE BlockedOK(w)'
  BY <1>1 DEF BlockedOK
<1>5. ASSUME NEW w \in Workers PROVE ClosingOK(w)'
  <2> SUFFICES ASSUME worker'[w].pc \in {"del", "erase", "close"}
               PROVE  worker'[w].fd \in freed' \/ Ended(worker[w].fd)'
    BY DEF ClosingOK
  <2>1. CASE worker[w].pc \in {"del", "erase", "close"} /\ worker'[w].fd = worker[w].fd
    <3>1. worker[w].fd \in Fds
      BY <2>1
    <3>2. worker[w].fd \in freed \/ Ended(worker[w].fd)
      BY <1>1, <2>1 DEF ClosingOK
    <3>3. PICK g \in Fds : g = worker[w].fd
      BY <3>1
    <3>4. g \in freed' \/ Ended(g)'
      BY <3>2, <3>3
    <3>5. g = worker'[w].fd
      BY <2>1, <3>3
    <3> QED
      BY <3>4, <3>5 DEF Ended, Open, Gone
  <2> QED
    BY <2>1
<1> QED
  BY <1>2, <1>3, <1>4, <1>5 DEF ReasonInv

(* A worker's step that leaves the table and the tasks alone. *)
LEMMA ReasonWorker ==
    ASSUME TypeOK, ThreadInv', ReasonInv, mpc \in {"new", "up"}, NEW w \in Workers,
           \A v \in Workers : v # w => worker'[v] = worker[v],
           fdtab' = fdtab /\ freed' = freed /\ client' = client /\ epc' = epc /\ newFd' = newFd,
           interest' \subseteq interest, events' = events, queue' = queue,
           worker'[w].pc # "read",
           worker'[w].pc = "blocked" => worker'[w].fd \in freed,
           worker'[w].pc \in {"del", "erase", "close"} =>
               \/ worker'[w].fd \in freed \/ Ended(worker'[w].fd)
               \/ worker[w].pc \in {"del", "erase", "close"} /\ worker'[w].fd = worker[w].fd
    PROVE  ReasonInv'
<1>1. interest' \subseteq Fds
  BY TypeParts DEF KernelTypes
<1>2. \A f \in Fds : (Watched(f) <=> Watched(f)') /\ (Ended(f) <=> Ended(f)')
  BY DEF Watched, Ended, Open, BeforeAdd, Gone
<1>3. \A f \in Fds : Pending(f)' => Pending(f)
  BY DEF Pending, Queued, Reading
<1>4. \A v \in Workers : worker'[v].pc # "idle" => worker'[v].fd \in Fds
  BY DEF ThreadInv
<1>5. ASSUME NEW v \in Workers, worker'[v].pc \in {"del", "erase", "close"}
      PROVE  \/ worker'[v].fd \in freed' \/ Ended(worker[v].fd)'
             \/ worker[v].pc \in {"del", "erase", "close"} /\ worker'[v].fd = worker[v].fd
  <2>1. CASE v # w
    BY <1>5, <2>1
  <2>2. CASE v = w
    <3>1. PICK g \in Fds : g = worker'[w].fd
      BY <1>4, <1>5, <2>2
    <3>2. \/ g \in freed \/ Ended(g)
          \/ worker[w].pc \in {"del", "erase", "close"} /\ g = worker[w].fd
      BY <1>5, <2>2, <3>1
    <3>3. Ended(g) => Ended(worker[v].fd)'
      BY <1>2, <2>2, <3>1 DEF Ended, Open, Gone
    <3> QED
      BY <2>2, <3>1, <3>2, <3>3
  <2> QED
    BY <2>1, <2>2
<1>6. \A v \in Workers : worker'[v].pc = "blocked" =>
               \/ worker'[v].fd \in freed'
               \/ worker[v].pc = "blocked" /\ worker'[v].fd = worker[v].fd
  OBVIOUS
<1> QED
  BY <1>1, <1>2, <1>3, <1>4, <1>5, <1>6, ReasonKept

(* Every step that closes a connection, or is about to, has its reason. *)
LEMMA ReasonStep ==
    ASSUME TypeOK, TypeOK', ThreadInv, ThreadInv', ReasonInv, [Next]_vars
    PROVE  ReasonInv'
<1> SUFFICES ASSUME mpc' \in {"new", "up"} PROVE ReasonInv'
  BY DEF ReasonInv
<1>0. /\ WorkerTypes /\ KernelTypes /\ queue \in Seq(Fds) /\ interest \subseteq Fds
      /\ interest' \subseteq Fds
      /\ \A w \in Workers : worker'[w].pc # "idle" => worker'[w].fd \in Fds
  BY TypeParts DEF ServerTypes, KernelTypes, ThreadInv
<1>00. mpc \in {"new", "up"} /\ InterestOK /\ PendingOK /\ \A w \in Workers : BlockedOK(w)
        /\ ClosingOK(w)
  BY EarlyStep DEF ReasonInv
<1> USE DEF kernel
<1>1. ASSUME NEW c \in Conns, Connect(c) \/ Send(c) \/ Hangup(c) \/ Reset(c) PROVE ReasonInv'
  <2>1. /\ fdtab' = fdtab /\ freed' = freed /\ interest' = interest /\ epc' = epc /\ newFd' = newFd
        /\ events' = events /\ queue' = queue /\ worker' = worker
    BY <1>1 DEF Connect, Send, Hangup, Reset
  <2>2. \A d \in Conns : Gone(d) => Gone(d)'
    BY <1>0, <1>1 DEF Connect, Send, Hangup, Reset, Gone, KernelTypes
  <2>3. \A f \in Fds : Ended(f) => Ended(f)'
    BY <1>0, <2>1, <2>2 DEF Ended, Open, KernelTypes
  <2>4. \A f \in Fds : /\ (Watched(f) <=> Watched(f)')
                       /\ (Pending(f) <=> Pending(f)')
    BY <2>1 DEF Watched, Open, BeforeAdd, Pending, Queued, Reading
  <2> QED
    BY <1>0, <1>00, <2>1, <2>3, <2>4, ReasonKept
<1>2. CASE Start \/ EpollExit \/ EpollFails \/ EpollNext \/ Insert
  <2>1. /\ fdtab' = fdtab /\ freed' = freed /\ interest' = interest /\ client' = client
        /\ epc' \notin {"nonblock", "add"}
        /\ events' = events /\ queue' = queue /\ worker' = worker
    BY <1>2 DEF Start, EpollExit, EpollFails, EpollNext, Insert
  <2>2. \A f \in Fds : /\ (Watched(f) => Watched(f)') /\ (Ended(f) => Ended(f)')
                       /\ (Pending(f) <=> Pending(f)')
    BY <2>1 DEF Watched, Open, BeforeAdd, Pending, Queued, Reading, Ended, Gone
  <2> QED
    BY <1>0, <1>00, <2>1, <2>2, ReasonKept
<1>3. ASSUME NEW w \in Workers, ReadNothing(w) \/ MessageCallback(w) PROVE ReasonInv'
  <2>1. /\ fdtab' = fdtab /\ freed' = freed /\ interest' = interest /\ client' = client
        /\ epc' = epc /\ newFd' = newFd /\ events' = events /\ queue' = queue /\ Step(w, Idle)
    BY <1>3 DEF ReadNothing, MessageCallback
  <2>2. worker'[w].pc = "idle" /\ \A v \in Workers : v # w => worker'[v] = worker[v]
    BY <1>0, <2>1, IdleStep
  <2> QED
    BY <1>00, <2>1, <2>2, ReasonWorker
<1>4. ASSUME NEW w \in Workers, EpollDel(w) \/ Erase(w) PROVE ReasonInv'
  <2>1. /\ fdtab' = fdtab /\ freed' = freed /\ interest' \subseteq interest /\ client' = client
        /\ epc' = epc /\ newFd' = newFd /\ events' = events /\ queue' = queue
    BY <1>4 DEF EpollDel, Erase
  <2>2. /\ worker[w].pc \in {"del", "erase"} /\ worker'[w].pc \in {"erase", "close"}
        /\ worker'[w].fd = worker[w].fd
        /\ \A v \in Workers : v # w => worker'[v] = worker[v]
    BY <1>0, <1>4, PcStep DEF EpollDel, Erase
  <2> QED
    BY <1>00, <2>1, <2>2, ReasonWorker
<1>5. ASSUME NEW w \in Workers, ReadData(w) PROVE ReasonInv'
  <2>1. worker'[w].pc = "callback" /\ \A v \in Workers : v # w => worker'[v] = worker[v]
    BY <1>5, ReadDataEffect
  <2>2. /\ fdtab' = fdtab /\ freed' = freed /\ interest' = interest /\ client' = client
        /\ epc' = epc /\ newFd' = newFd /\ events' = events /\ queue' = queue
    BY <1>5 DEF ReadData
  <2> QED
    BY <1>00, <2>1, <2>2, ReasonWorker
<1>6. ASSUME NEW w \in Workers, ReadEnd(w) PROVE ReasonInv'
  <2>1. /\ fdtab' = fdtab /\ freed' = freed /\ interest' = interest /\ client' = client
        /\ epc' = epc /\ newFd' = newFd /\ events' = events /\ queue' = queue
        /\ worker[w].pc \in {"read", "blocked"} /\ worker[w].fd \in Fds
    BY <1>6 DEF ReadEnd, ThreadInv
  <2>2. /\ worker'[w].pc = "del" /\ worker'[w].fd = worker[w].fd
        /\ \A v \in Workers : v # w => worker'[v] = worker[v]
    BY <1>0, <1>6, EndEffect
  <2>3. CASE worker[w].pc = "blocked"
    BY <1>00, <2>1, <2>2, <2>3, ReasonWorker DEF BlockedOK
  <2>4. CASE worker[w].pc = "read"
    <3>1. Pending(worker[w].fd)
      BY <2>4 DEF Pending, Reading
    <3>2. Open(worker[w].fd) => Ended(worker[w].fd)
      BY <1>6, <2>4 DEF ReadEnd, AtEnd, ReadsFrom, Open, Ended
    <3>3. worker[w].fd \in freed \/ Ended(worker[w].fd)
      BY <1>00, <2>1, <3>1, <3>2 DEF PendingOK, Watched
    <3> QED
      BY <1>00, <2>1, <2>2, <3>3, ReasonWorker
  <2> QED
    BY <2>1, <2>3, <2>4
<1>7. ASSUME NEW w \in Workers, ReadBlocks(w) PROVE ReasonInv'
  <2>1. /\ fdtab' = fdtab /\ freed' = freed /\ interest' = interest /\ client' = client
        /\ epc' = epc /\ newFd' = newFd /\ events' = events /\ queue' = queue
        /\ worker[w].pc = "read" /\ worker[w].fd \in Fds /\ BeforeAdd(worker[w].fd)
    BY <1>7 DEF ReadBlocks, ThreadInv, Blocking, BeforeAdd
  <2>2. /\ worker'[w].pc = "blocked" /\ worker'[w].fd = worker[w].fd
        /\ \A v \in Workers : v # w => worker'[v] = worker[v]
    BY <1>0, <1>7, BlocksEffect
  <2>3. worker[w].fd \in freed
    BY <1>00, <2>1 DEF PendingOK, Watched, Pending, Reading
  <2> QED
    BY <1>00, <2>1, <2>2, <2>3, ReasonWorker
<1>8. ASSUME NEW w \in Workers, CloseConnection(w) PROVE ReasonInv'
  <2>1. /\ worker[w].fd \in Fds /\ worker[w].pc = "close" /\ CloseFd(worker[w].fd)
        /\ client' = client /\ epc' = epc /\ newFd' = newFd /\ events' = events /\ queue' = queue
    BY <1>8 DEF CloseConnection, ThreadInv
  <2>2. worker'[w].pc = "idle" /\ \A v \in Workers : v # w => worker'[v] = worker[v]
    BY <1>0, <1>8, IdleStep DEF CloseConnection
  <2>3. PICK g \in Fds : g = worker[w].fd
    BY <2>1
  <2>4. /\ freed \subseteq freed' /\ g \notin interest'
        /\ Ended(g) => g \in freed'
        /\ \A f \in Fds : f # g => fdtab'[f] = fdtab[f] /\ (f \in interest' <=> f \in interest)
    BY <1>0, <2>1, <2>3, CloseFdEffect DEF Ended, Open
  <2>5. g \in freed'
    BY <1>00, <2>1, <2>3, <2>4 DEF ClosingOK
  <2>6. \A f \in Fds : f # g => (Watched(f) <=> Watched(f)') /\ (Ended(f) <=> Ended(f)')
    BY <2>1, <2>4 DEF Watched, Open, BeforeAdd, Ended, Gone
  <2>7. \A f \in Fds : Pending(f)' => Pending(f)
    BY <2>1, <2>2 DEF Pending, Queued, Reading
  <2> QED
    BY <1>0, <1>00, <2>2, <2>4, <2>5, <2>6, <2>7, ReasonKept
<1>9. ASSUME NEW w \in Workers, Take(w) PROVE ReasonInv'
  <2>1. /\ queue # <<>> /\ queue' = Tail(queue)
        /\ worker'[w].pc = "read" /\ worker'[w].fd = Head(queue) /\ Head(queue) \in Fds
        /\ \A v \in Workers : v # w => worker'[v] = worker[v]
    BY <1>9, TakeEffect
  <2>2. /\ fdtab' = fdtab /\ freed' = freed /\ interest' = interest /\ client' = client
        /\ epc' = epc /\ newFd' = newFd /\ events' = events
    BY <1>9 DEF Take
  <2>3. /\ Head(queue) = queue[1] /\ Len(queue) \in Nat \ {0} /\ Len(queue') = Len(queue) - 1
        /\ \A i \in 1..Len(queue') : queue'[i] = queue[i + 1]
    BY <1>0, <2>1, HeadTail
  <2>4. \A f \in Fds : Queued(f)' => Queued(f)
    <3>1. \A i \in 1..Len(queue') : i + 1 \in 1..Len(queue)
      BY <2>3
    <3> QED
      BY <2>3, <3>1 DEF Queued
  <2>5. \A f \in Fds : Reading(f)' => Reading(f) \/ Queued(f)
    <3>1. Queued(Head(queue))
      <4>1. 1 \in 1..Len(queue)
        BY <2>3
      <4> QED
        BY <2>3, <4>1 DEF Queued
    <3> QED
      BY <2>1, <3>1 DEF Reading
  <2>6. \A f \in Fds : Pending(f)' => Pending(f)
    BY <2>2, <2>4, <2>5 DEF Pending
  <2>7. \A f \in Fds : (Watched(f) <=> Watched(f)') /\ (Ended(f) <=> Ended(f)')
    BY <2>2 DEF Watched, Open, BeforeAdd, Ended, Gone
  <2> QED
    BY <1>0, <1>00, <2>1, <2>2, <2>6, <2>7, ReasonKept
<1>10. CASE EpollWait
  <2>1. /\ fdtab' = fdtab /\ freed' = freed /\ interest' = interest /\ client' = client
        /\ newFd' = newFd /\ epc' = "dispatch" /\ queue' = queue /\ worker' = worker
        /\ \A f \in Fds : f \in events' => f \in interest
    BY <1>10 DEF EpollWait, Ready, Listen, Fds
  <2>2. \A f \in Fds : (Watched(f) => Watched(f)') /\ (Ended(f) => Ended(f)')
    BY <2>1 DEF Watched, Open, BeforeAdd, Ended, Gone
  <2>3. \A f \in Fds : f \in interest => Watched(f)'
    BY <1>00, <2>2 DEF InterestOK
  <2>4. \A f \in Fds : Pending(f)' => Pending(f) \/ Watched(f)'
    <3>1. \A f \in Fds : Pending(f)' => f \in events' \/ Pending(f)
      BY <2>1 DEF Pending, Queued, Reading
    <3> QED
      BY <2>1, <2>3, <3>1
  <2> QED
    BY <1>0, <1>00, <2>1, <2>2, <2>4, ReasonKept
<1>11. ASSUME NEW f \in Fds, Dispatch(f) PROVE ReasonInv'
  <2>1. /\ fdtab' = fdtab /\ freed' = freed /\ interest' = interest /\ client' = client
        /\ epc' = epc /\ newFd' = newFd /\ worker' = worker
        /\ f \in events /\ queue' = Append(queue, f) /\ events' \subseteq events
    BY <1>11 DEF Dispatch
  <2>2. /\ Len(queue) \in Nat /\ Len(queue') = Len(queue) + 1 /\ queue'[Len(queue) + 1] = f
        /\ \A i \in 1..Len(queue) : queue'[i] = queue[i]
    BY <1>0, <2>1, AppendType
  <2>3. \A g \in Fds : Queued(g)' => Queued(g) \/ g = f
    <3>1. \A i \in 1..Len(queue') : i \in 1..Len(queue) \/ i = Len(queue) + 1
      BY <2>2
    <3> QED
      BY <2>2, <3>1 DEF Queued
  <2>4. \A g \in Fds : Reading(g)' => Reading(g)
    BY <2>1 DEF Reading
  <2>5. \A g \in Fds : Pending(g)' => Pending(g)
    BY <2>1, <2>3, <2>4 DEF Pending
  <2>6. \A g \in Fds : (Watched(g) <=> Watched(g)') /\ (Ended(g) <=> Ended(g)')
    BY <2>1 DEF Watched, Open, BeforeAdd, Ended, Gone
  <2> QED
    BY <1>0, <1>00, <2>1, <2>5, <2>6, ReasonKept
<1>12. CASE Accept
  <2>1. /\ queue' = queue /\ worker' = worker /\ events' \subseteq events /\ freed' = freed
        /\ interest' = interest /\ client' = client /\ epc = "dispatch"
    BY <1>12 DEF Accept
  <2>2. \A f \in Fds : Pending(f)' => Pending(f)
    BY <2>1 DEF Pending, Queued, Reading
  <2>3. \A f \in Fds : Open(f) => fdtab'[f] = fdtab[f] /\ ~(BeforeAdd(f)')
    BY <1>0, <1>12 DEF Accept, Open, KernelTypes, BeforeAdd
  <2>4. \A f \in Fds : (Watched(f) => Watched(f)') /\ (Ended(f) => Ended(f)')
    BY <2>1, <2>3 DEF Watched, Ended, Open, Gone
  <2> QED
    BY <1>0, <1>00, <2>1, <2>2, <2>4, ReasonKept
<1>13. CASE NonBlock \/ Add
  <2>1. /\ newFd \in Fds /\ BeforeAdd(newFd) /\ worker' = worker /\ queue' = queue
        /\ events' = events /\ client' = client
    BY <1>13, SetUpEffect DEF BeforeAdd
  <2>2. \A f \in Fds : Pending(f)' => Pending(f)
    BY <2>1 DEF Pending, Queued, Reading
  <2>3. CASE /\ fdtab[newFd] # Nobody /\ fdtab' = fdtab /\ freed' = freed /\ newFd' = newFd
             /\ \/ epc' = "add" /\ interest' = interest
                \/ epc' = "insert" /\ interest' = interest \union {newFd}
    <3>1. \A f \in Fds : (Watched(f) => Watched(f)') /\ (Ended(f) => Ended(f)')
      BY <2>1, <2>3 DEF Watched, Ended, Open, Gone, BeforeAdd
    <3>2. \A f \in interest' : f \in interest \/ Watched(f)'
      BY <2>1, <2>3 DEF Watched, Open, BeforeAdd
    <3> QED
      BY <1>0, <1>00, <2>1, <2>2, <2>3, <3>1, <3>2, ReasonKept
  <2>4. CASE CloseFd(newFd) /\ epc' = "dispatch"
    <3>1. /\ freed \subseteq freed' /\ newFd \notin interest'
          /\ Ended(newFd) => newFd \in freed'
          /\ \A f \in Fds : f # newFd => fdtab'[f] = fdtab[f] /\ (f \in interest' <=> f \in
              interest)
      BY <1>0, <2>1, <2>4, CloseFdEffect DEF Ended, Open
    <3>2. ~Watched(newFd)
      BY <2>1 DEF Watched
    <3>3. \A f \in Fds : f # newFd => (Watched(f) => Watched(f)') /\ (Ended(f) => Ended(f)')
      BY <2>1, <2>4, <3>1 DEF Watched, Ended, Open, Gone, BeforeAdd
    <3>4. /\ \A f \in Fds : Watched(f) => Watched(f)' \/ f \in freed'
          /\ \A f \in Fds : Ended(f) => Ended(f)' \/ f \in freed'
          /\ \A f \in interest' : f \in interest /\ (Watched(f) => Watched(f)')
      BY <1>0, <3>1, <3>2, <3>3
    <3> QED
      BY <1>0, <1>00, <2>1, <2>2, <3>1, <3>4, ReasonKept
  <2> QED
    BY <1>13, <2>3, <2>4, SetUpEffect
<1>14. CASE UNCHANGED vars
  <2>1. /\ fdtab' = fdtab /\ freed' = freed /\ interest' = interest /\ client' = client
        /\ epc' = epc /\ newFd' = newFd /\ events' = events /\ queue' = queue /\ worker' = worker
    BY <1>14 DEF vars
  <2>2. \A f \in Fds : /\ (Watched(f) <=> Watched(f)') /\ (Ended(f) <=> Ended(f)')
                       /\ (Pending(f) <=> Pending(f)')
    BY <2>1 DEF Watched, Open, BeforeAdd, Pending, Queued, Reading, Ended, Gone
  <2> QED
    BY <1>0, <1>00, <2>1, <2>2, ReasonKept
<1>15. ~Stop /\ ~StopJoin /\ ~StopCloseOne /\ ~StopClear
  BY DEF Stop, StopJoin, StopCloseOne, StopClear
<1> QED
  BY <1>1, <1>2, <1>3, <1>4, <1>5, <1>6, <1>7, <1>8, <1>9, <1>10, <1>11, <1>12, <1>13, <1>14, <1>15
  DEF Next, EpollThread, WorkerThread, Stopping

(* The invariant holds of a server that was just built. *)
LEMMA EpollInit == ASSUME Init PROVE EpollInv
<1>1. <<>> \in Seq(1..MaxChunks) /\ <<>> \in Seq(Fds) /\ Len(<<>>) = 0 /\ 0 \in 0..MaxChunks
  BY EpollServerAssumption
<1>2. \A w \in Workers : worker[w] = Idle
  BY DEF Init
<1>3. \A w \in Workers : worker[w].pc = "idle" /\ worker[w].from = Nobody
  BY <1>2, IdleType
<1>4. KernelTypes
  BY <1>1 DEF Init, KernelTypes
<1>5. ServerTypes
  BY <1>1 DEF Init, ServerTypes, NoFd, Listen
<1>6. WorkerTypes
  BY IdleType DEF Init, WorkerTypes
<1>7. \A f \in Fds : ~Open(f)
  BY DEF Init, Open
<1>8. ThreadInv /\ StopInv
  BY <1>3, <1>7 DEF Init, ThreadInv, StopInv
<1>9. NoOrphanSocket /\ WatchInv
  BY <1>7 DEF NoOrphanSocket, WatchInv
<1>10. \A c \in Conns : /\ sent[c] = 0 /\ inbox[c] = <<>> /\ handled[c] = <<>>
                        /\ client[c] = "new" /\ Taken(c) = 0
  BY <1>1 DEF Init, Taken
<1>11. InboxInv
  BY <1>1, <1>10 DEF InboxInv, InboxOK
<1>12. TakenInv
  <2> SUFFICES ASSUME NEW c \in Conns PROVE TakenOK(c)
    BY DEF TakenInv
  <2>1. \A w \in Workers : worker[w].from # c
    BY <1>3, EpollServerAssumption
  <2> QED
    BY <1>1, <1>10, <2>1 DEF TakenOK, HeldOK, HandledOK, ApartOK, KeptOK
<1>14. \A f \in Fds : ~Pending(f)
  <2>1. events = {} /\ queue = <<>>
    BY DEF Init
  <2> QED
    BY <1>1, <1>3, <2>1 DEF Pending, Queued, Reading
<1>15. ReasonInv
  BY <1>3, <1>14 DEF Init, ReasonInv, InterestOK, PendingOK, BlockedOK, ClosingOK
<1> QED
  BY <1>4, <1>5, <1>6, <1>8, <1>9, <1>11, <1>12, <1>15, TypeParts DEF EpollInv

(* Every step keeps the invariant. *)
LEMMA EpollStep == ASSUME EpollInv, [Next]_vars PROVE EpollInv'
<1>1. /\ TypeOK /\ ThreadInv /\ StopInv /\ NoOrphanSocket /\ WatchInv
      /\ InboxInv /\ TakenInv /\ ReasonInv
  BY DEF EpollInv
<1>2. KernelTypes /\ ServerTypes /\ WorkerTypes
  BY <1>1, TypeParts
<1>3. TypeOK'
  BY <1>1, <1>2, KernelStep, ServerStep, WorkerStep, TypeParts
<1>4. ThreadInv' /\ StopInv' /\ NoOrphanSocket' /\ WatchInv'
  BY <1>1, ThreadStep, StopStep, OrphanStep, WatchStep
<1>5. InboxInv' /\ TakenInv' /\ ReasonInv'
  BY <1>1, <1>3, <1>4, InboxStep, TakenStep, ReasonStep
<1> QED
  BY <1>3, <1>4, <1>5 DEF EpollInv

(* The invariant of the server: its parts hold in every state.             *)
THEOREM EpollInvariant == SafeSpec => []EpollInv
  BY EpollInit, EpollStep, PTL DEF SafeSpec
-----------------------------------------------------------------------------
(* An open client socket is in clientFds_, or the epoll thread is about to *)
(* enter it, or a worker is about to close it, unless a worker has torn    *)
(* the loop of stop(): no accepted socket is forgotten.                    *)
THEOREM NoSocketOrphaned == SafeSpec => []NoOrphanSocket
<1>1. EpollInv => NoOrphanSocket
  BY DEF EpollInv
<1> QED
  BY <1>1, EpollInvariant, PTL

(* While the server runs, an open client socket that epoll does not watch  *)
(* is being set up by handleNewConnection or closed by closeConnection.    *)
THEOREM NoConnectionDeaf == SafeSpec => []NoDeafConnection
<1>1. EpollInv => NoDeafConnection
  BY DEF EpollInv, WatchInv, NoDeafConnection, BeingSetUp, BeforeAdd, Leaving
<1> QED
  BY <1>1, EpollInvariant, PTL

(* When stop() has returned and its loop was not torn, only sockets that a *)
(* worker is about to close are open.                                      *)
THEOREM StopLeavesNothing == SafeSpec => []StopClosesClients
<1>1. EpollInv => StopClosesClients
  BY DEF EpollInv, NoOrphanSocket, StopInv, StopClosesClients, BeingSetUp
<1> QED
  BY <1>1, EpollInvariant, PTL

(* A set of which any two members are equal has at most one. *)
LEMMA AtMostOne ==
    ASSUME NEW S, \A x, y \in S : x = y
    PROVE  /\ Cardinality(S) \in {0, 1}
           /\ S = {} => Cardinality(S) = 0
           /\ S # {} => Cardinality(S) = 1
<1>1. S = {} => Cardinality(S) = 0
  BY FS_EmptySet
<1>2. ASSUME S # {} PROVE Cardinality(S) = 1
  <2>1. PICK x \in S : S = {x}
    BY <1>2
  <2> QED
    BY <2>1, FS_Singleton
<1> QED
  BY <1>1, <1>2

(* A chunk that was sent is unread, with one worker, or was handled, and   *)
(* in one of these places only, however the workers raced for the socket;  *)
(* only a reset loses it.                                                  *)
THEOREM ChunksOnce == SafeSpec => []EachChunkOnce
<1>1. ASSUME EpollInv PROVE EachChunkOnce
  <2> SUFFICES ASSUME NEW c \in Conns, NEW n \in 1..sent[c]
               PROVE  LET copies == Cardinality({i \in DOMAIN inbox[c] : inbox[c][i] = n})
                            + Cardinality({w \in Workers : worker[w].from = c /\ worker[w].chunk
                                = n})
                            + Cardinality({i \in DOMAIN handled[c] : handled[c][i] = n})
                      IN  copies <= 1 /\ (client[c] # "reset" => copies = 1)
    BY DEF EachChunkOnce
  <2> DEFINE A == {i \in DOMAIN inbox[c] : inbox[c][i] = n}
             B == {w \in Workers : worker[w].from = c /\ worker[w].chunk = n}
             C == {i \in DOMAIN handled[c] : handled[c][i] = n}
             N == Taken(c)
             L == Len(inbox[c])
  <2>1. /\ inbox[c] \in Seq(1..MaxChunks) /\ handled[c] \in Seq(1..MaxChunks)
        /\ sent[c] \in 0..MaxChunks
    BY <1>1, TypeParts DEF EpollInv, KernelTypes, ServerTypes
  <2>2. /\ DOMAIN inbox[c] = 1..L /\ L \in Nat
        /\ DOMAIN handled[c] = 1..Len(handled[c])
    BY <2>1
  <2>3. /\ N \in Nat /\ sent[c] = N + L /\ \A i \in 1..L : inbox[c][i] = N + i
    BY <1>1, <2>1, <2>2 DEF EpollInv, InboxInv, InboxOK, Taken
  <2>4. TakenOK(c)
    BY <1>1 DEF EpollInv, TakenInv
  <2>5. ASSUME NEW x \in A, NEW y \in A PROVE x = y
    <3>1. x \in 1..L /\ y \in 1..L /\ N + x = N + y
      BY <2>2, <2>3
    <3> QED
      BY <2>3, <3>1
  <2>6. \A x, y \in B : x = y
    BY <2>4 DEF TakenOK, HeldOK
  <2>7. \A x, y \in C : x = y
    BY <2>2, <2>4 DEF TakenOK, HandledOK
  <2>8. A # {} => n \notin 1..N
    BY <2>2, <2>3
  <2>9. B # {} => n \in 1..N
    BY <2>4 DEF TakenOK, HeldOK
  <2>10. C # {} => n \in 1..N
    BY <2>2, <2>4 DEF TakenOK, HandledOK
  <2>11. B # {} => C = {}
    BY <2>2, <2>4 DEF TakenOK, ApartOK
  <2>12. n \notin 1..N => A # {}
    <3> SUFFICES ASSUME n \notin 1..N PROVE n - N \in A
      OBVIOUS
    <3>1. n \in 1..(N + L)
      BY <2>3
    <3>2. n - N \in 1..L
      BY <2>2, <2>3, <3>1
    <3>3. inbox[c][n - N] = n
      BY <2>2, <2>3, <3>1, <3>2
    <3> QED
      BY <2>2, <3>2, <3>3
  <2>13. client[c] # "reset" /\ n \in 1..N => B # {} \/ C # {}
    BY <2>2, <2>4 DEF TakenOK, KeptOK, Holds
  <2>14. /\ Cardinality(A) \in {0, 1} /\ Cardinality(B) \in {0, 1} /\ Cardinality(C) \in {0, 1}
         /\ Cardinality(A) = 0 <=> A = {}
         /\ Cardinality(B) = 0 <=> B = {}
         /\ Cardinality(C) = 0 <=> C = {}
    BY <2>5, <2>6, <2>7, AtMostOne
  <2> HIDE DEF A, B, C, N, L
  <2>15. LET copies == Cardinality(A) + Cardinality(B) + Cardinality(C)
         IN  copies <= 1 /\ (client[c] # "reset" => copies = 1)
    BY <2>8, <2>9, <2>10, <2>11, <2>12, <2>13, <2>14
  <2> QED
    BY <2>15 DEF A, B, C
<1> QED
  BY <1>1, EpollInvariant, PTL

(* Until stop() is called, the socket of a client that has not hung up is  *)
(* closed only by the epoll thread that could not set it up, or by a       *)
(* worker whose number was closed before under a client that had hung up.  *)
THEOREM ClosedForAReason == SafeSpec => ClosedOnlyForAHangup
<1> DEFINE P == \A f \in Fds : mpc = "up" /\ Open(f) /\ ~Gone(fdtab[f]) /\ fdtab'[f] = Nobody =>
                    \/ newFd = f /\ epc \in {"nonblock", "add"}
                    \/ f \in freed /\ BeingClosed(f)
<1>1. ASSUME EpollInv, [Next]_vars PROVE P
  <2>1. /\ KernelTypes /\ ThreadInv /\ ReasonInv /\ Nobody \notin Conns
        /\ fdtab \in [Fds -> Conns \union {Nobody}]
    BY <1>1, TypeParts, EpollServerAssumption DEF EpollInv, KernelTypes
  <2>2. SUFFICES ASSUME NEW f \in Fds, mpc = "up", fdtab[f] # Nobody, ~Gone(fdtab[f]),
                        fdtab'[f] = Nobody
                 PROVE  \/ newFd = f /\ epc \in {"nonblock", "add"}
                        \/ f \in freed /\ BeingClosed(f)
    BY DEF Open
  <2> USE DEF kernel
  <2>3. ASSUME NEW w \in Workers, CloseConnection(w) PROVE f \in freed /\ BeingClosed(f)
    <3>1. worker[w].fd \in Fds /\ worker[w].pc = "close" /\ CloseFd(worker[w].fd)
      BY <2>1, <2>3 DEF CloseConnection, ThreadInv
    <3>2. worker[w].fd = f
      BY <2>1, <2>2, <3>1, CloseFdEffect
    <3>3. f \in freed \/ Ended(f)
      BY <2>1, <2>2, <3>1, <3>2 DEF ReasonInv, ClosingOK
    <3> QED
      BY <2>2, <3>1, <3>2, <3>3 DEF Ended, BeingClosed
  <2>4. ASSUME NEW c \in Conns, Connect(c) \/ Send(c) \/ Hangup(c) \/ Reset(c)
        PROVE  fdtab' = fdtab
    BY <2>4 DEF Connect, Send, Hangup, Reset
  <2>5. ASSUME NEW w \in Workers, WorkerThread(w), ~CloseConnection(w) PROVE fdtab' = fdtab
    BY <2>5 DEF WorkerThread, Take, ReadData, ReadNothing, ReadBlocks, ReadEnd, MessageCallback,
                EpollDel, Erase
  <2>6. CASE Accept
    <3>1. backlog \subseteq Conns
      BY <2>1 DEF KernelTypes
    <3> QED
      BY <2>1, <2>2, <2>6, <3>1 DEF Accept
  <2>7. CASE NonBlock \/ Add
    BY <2>1, <2>2, <2>7, SetUpEffect, CloseFdEffect
  <2>8. CASE Start \/ EpollWait \/ EpollExit \/ EpollFails \/ EpollNext
             \/ (\E g \in Fds : Dispatch(g)) \/ Insert \/ Stop \/ UNCHANGED vars
    BY <2>2, <2>8 DEF Start, EpollWait, EpollExit, EpollFails, EpollNext, Dispatch, Insert, Stop,
        vars
  <2>9. ~StopJoin /\ ~StopCloseOne /\ ~StopClear
    BY <2>2 DEF StopJoin, StopCloseOne, StopClear
  <2> QED
    BY <1>1, <2>2, <2>3, <2>4, <2>5, <2>6, <2>7, <2>8, <2>9 DEF Next, EpollThread, Stopping
<1>2. ASSUME EpollInv, [Next]_vars PROVE [P]_vars
  BY <1>1, <1>2
<1> HIDE DEF P
<1>3. SafeSpec => [][P]_vars
  BY <1>2, EpollInvariant, PTL DEF SafeSpec
<1> QED
  BY <1>3 DEF P, ClosedOnlyForAHangup
=============================================================================
