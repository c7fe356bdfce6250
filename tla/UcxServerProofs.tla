-------------------------- MODULE UcxServerProofs ---------------------------
(***************************************************************************)
(* Proofs about UcxServer, for any clients, number of iterations and       *)
(* interfaces, with and without crashes, failing calls and several events  *)
(* per progress: what the server holds in each iteration, what the exit    *)
(* status of a client tells, and why the server ends.                      *)
(***************************************************************************)
EXTENDS UcxServer, Integers, TLAPS

Events == {"msg", "ack", "fin", "down", "junk"} \X Nat
Streams == Seq(Events)
Queues == Seq(Clients)

ClientState == [pc : {"new", "send", "sending", "register", "finwait", "done", "dead"},
                i : Nat, ret : {0, 1}, fin : BOOLEAN, handler : BOOLEAN, failed : BOOLEAN]
ServerState == [pc : {"start", "listen", "next", "recv", "fin", "finsend", "drain", "exited"},
                conn : Clients \union {None}, i : Nat, closed : BOOLEAN,
                complete : Nat, last : Nat, buf : Events]
History == [finlost : BOOLEAN, refused : SUBSET Clients, merged : SUBSET Clients,
            broken : SUBSET (Clients \union {TheServer})]

StateTypes == /\ type \in Types /\ rndv \in BOOLEAN
         /\ requests \in Queues
         /\ sv \in ServerState
         /\ cl \in [Clients -> ClientState]
         /\ chan \in [Clients -> Streams]
         /\ cwire \in [Clients -> Streams]
         /\ held \in [Clients -> Streams]
         /\ seen \in History

(* What the server has received from c: in each iteration that is over,    *)
(* and in AM by ucp_am_data_cb for the next ones.                          *)
Taken(c) == Len(held[c]) + IF sv.conn = c THEN sv.complete - sv.last ELSE 0

(* A client asks for a connection once. *)
QueueInv ==
    /\ \A j, k \in 1..Len(requests) : requests[j] = requests[k] => j = k
    /\ \A k \in 1..Len(requests) : LET c == requests[k]
                                   IN  /\ held[c] = <<>> /\ sv.conn # c
                                       /\ cl[c].pc # "new" /\ c \notin seen.refused

(* The server's iterations are what it has of the client it serves.        *)
Serving == sv.pc \in {"next", "recv", "fin", "finsend", "drain"}
ServeInv ==
    /\ sv.pc \in {"start", "listen"} => sv.conn = None
    /\ Serving => sv.conn \in Clients /\ (sv.closed => ~Up(sv.conn))
    /\ sv.conn # None => cl[sv.conn].pc # "new" /\ sv.conn \notin seen.refused
    /\ sv.pc \in {"next", "recv"} => /\ sv.i = Len(held[sv.conn])
                                     /\ sv.complete >= sv.last /\ Taken(sv.conn) <= NumIterations
    /\ sv.pc = "recv" => sv.i < NumIterations
    /\ sv.pc \in {"fin", "finsend", "drain"} => Len(held[sv.conn]) = NumIterations
    /\ sv.pc \notin {"next", "recv", "exited"} \/ type # "am" => sv.complete = sv.last
    /\ sv.pc = "finsend" => rndv

(* The messages of c that the server has not received yet follow those it  *)
(* has; then come, once c has ended, an Ack if it had its FIN, and Down.   *)
EventOK(c, k) ==
    \/ chan[c][k] = Msg(Taken(c) + k) /\ Taken(c) + k <= NumIterations
    \/ chan[c][k] = Ack /\ cl[c].pc = "done" /\ cl[c].ret = 0
    \/ chan[c][k] = Down /\ k = Len(chan[c]) /\ cl[c].pc \in {"done", "dead"}
ChanOK(c) == \A k \in 1..Len(chan[c]) : EventOK(c, k)

(* What c has sent is in its channel or received. *)
Sent(c) == Taken(c) + Len(chan[c])
SendOK(c) ==
    /\ cl[c].pc = "new" => chan[c] = <<>> /\ held[c] = <<>> /\ cl[c].i = 0
    /\ cl[c].pc = "send" => Sent(c) = cl[c].i /\ cl[c].i < NumIterations
    /\ cl[c].pc = "sending" => Sent(c) = cl[c].i + 1 /\ cl[c].i < NumIterations
    /\ cl[c].pc \in {"register", "finwait"} => Sent(c) = NumIterations

(* FIN is sent after the last iteration, and only then a client ends well. *)
EndedWell(c) == cl[c].pc = "done" /\ cl[c].ret = 0
FinOK(c) == Has(cwire[c], Fin) \/ cl[c].fin \/ EndedWell(c) =>
                /\ Len(held[c]) = NumIterations
                /\ sv.conn = c => sv.pc \notin {"next", "recv", "fin"}

(* A client in trouble was refused, or the server has ended, or a call has *)
(* failed in it.                                                           *)
EndedBadly(c) == cl[c].pc = "done" /\ cl[c].ret = 1
TroubleOK(c) == /\ Has(cwire[c], Down) \/ cl[c].failed => c \in seen.refused \/ sv.pc = "exited"
                /\ EndedBadly(c) => c \in seen.refused \/ sv.pc = "exited" \/ c \in seen.broken

(* A client that was served has come to its end. *)
PastOK(c) == held[c] # <<>> /\ sv.conn # c => EndedWell(c) \/ Lost(c)

(* The server that waits for its FIN to be fetched hears of that first. *)
FetchOK(c) == sv.pc = "finsend" /\ sv.conn = c /\ EndedWell(c) => chan[c] = <<Ack, Down>>

ClientOK(c) == ChanOK(c) /\ SendOK(c) /\ FinOK(c) /\ TroubleOK(c) /\ FetchOK(c) /\ PastOK(c)
ClientsInv == \A c \in Clients : ClientOK(c)

(* A client that was refused has not been served. *)
RefuseInv == \A c \in seen.refused : held[c] = <<>> /\ cl[c].pc # "new"

(* The AM buffer, as long as no message came over another. *)
BufferInv == type = "am" /\ sv.pc \in {"next", "recv"} /\ sv.conn \notin seen.merged =>
                 /\ sv.complete - sv.last <= 1
                 /\ sv.complete - sv.last = 1 =>
                        sv.pc = "recv" /\ sv.buf = Msg(Len(held[sv.conn]) + 1)

ServerInv == /\ StateTypes /\ QueueInv /\ ServeInv /\ ClientsInv /\ RefuseInv /\ BufferInv
             /\ ServerExitExplained /\ HeldInOrder
-----------------------------------------------------------------------------
(* Events are told apart by their kind. *)
LEMMA EventKinds ==
    /\ {Ack, Fin, Down, Junk} \subseteq Events
    /\ \A k \in Nat : Msg(k) \in Events
    /\ \A k \in Int : Msg(k) # Ack /\ Msg(k) # Down /\ Msg(k) # Fin
    /\ Ack # Down /\ Fin # Down /\ Ack # Fin
  BY DEF Events, Ack, Fin, Down, Junk, Msg

(* An event that is added at the end. *)
LEMMA AppendOne ==
    ASSUME NEW s \in Streams, NEW e \in Events
    PROVE  /\ Append(s, e) \in Streams
           /\ Len(s) \in Nat /\ Len(Append(s, e)) = Len(s) + 1
           /\ Append(s, e)[Len(s) + 1] = e
           /\ \A k \in 1..Len(s) : Append(s, e)[k] = s[k]
           /\ \A f : Has(Append(s, e), f) <=> Has(s, f) \/ f = e
<1>1. /\ s \in Seq(Events) /\ Append(s, e) \in Seq(Events)
      /\ Len(s) \in Nat /\ Len(Append(s, e)) = Len(s) + 1
      /\ Append(s, e)[Len(s) + 1] = e
      /\ \A k \in 1..Len(s) : Append(s, e)[k] = s[k]
      /\ DOMAIN s = 1..Len(s) /\ DOMAIN Append(s, e) = 1..(Len(s) + 1)
  BY DEF Streams
<1>2. ASSUME NEW f PROVE Has(Append(s, e), f) <=> Has(s, f) \/ f = e
  <2>1. ASSUME Has(s, f) PROVE Has(Append(s, e), f)
    BY <1>1, <2>1 DEF Has
  <2>2. Has(Append(s, e), e)
    BY <1>1 DEF Has
  <2>3. ASSUME Has(Append(s, e), f) PROVE Has(s, f) \/ f = e
    BY <1>1, <2>3 DEF Has
  <2> QED
    BY <2>1, <2>2, <2>3
<1> QED
  BY <1>1, <1>2 DEF Streams

(* The first event and the others. *)
LEMMA TakeOne ==
    ASSUME NEW s \in Streams, s # <<>>
    PROVE  /\ Head(s) = s[1] /\ Head(s) \in Events /\ Tail(s) \in Streams
           /\ Len(s) \in Nat \ {0} /\ Len(Tail(s)) = Len(s) - 1
           /\ \A k \in 1..Len(Tail(s)) : Tail(s)[k] = s[k + 1]
  BY DEF Streams

(* What one progress call handles, and what it leaves. *)
LEMMA TakeSome ==
    ASSUME NEW S, NEW s \in Seq(S), s # <<>>, NEW n \in Handled(s)
    PROVE  /\ Len(s) \in Nat \ {0} /\ n \in 1..Len(s)
           /\ Rest(s, n) \in Seq(S) /\ Len(Rest(s, n)) = Len(s) - n
           /\ \A k \in 1..(Len(s) - n) : Rest(s, n)[k] = s[n + k]
           /\ \A k \in 1..n : First(s, n)[k] = s[k]
           /\ \A e : Has(Rest(s, n), e) \/ Has(First(s, n), e) => Has(s, e)
<1>1. Len(s) \in Nat \ {0} /\ n \in 1..Len(s)
  BY DEF Handled
<1>2. /\ Rest(s, n) \in Seq(S) /\ Len(Rest(s, n)) = Len(s) - n
      /\ \A k \in 1..(Len(s) - n) : Rest(s, n)[k] = s[n + k]
      /\ DOMAIN Rest(s, n) = 1..(Len(s) - n)
  BY <1>1 DEF Rest
<1>3. /\ \A k \in 1..n : First(s, n)[k] = s[k]
      /\ DOMAIN First(s, n) = 1..n
  BY <1>1 DEF First
<1>4. DOMAIN s = 1..Len(s)
  OBVIOUS
<1>5. ASSUME NEW e, Has(Rest(s, n), e) PROVE Has(s, e)
  <2>1. PICK k \in 1..(Len(s) - n) : s[n + k] = e
    BY <1>2, <1>5 DEF Has
  <2>2. n + k \in 1..Len(s)
    BY <1>1
  <2> QED
    BY <1>4, <2>1, <2>2 DEF Has
<1>6. ASSUME NEW e, Has(First(s, n), e) PROVE Has(s, e)
  BY <1>1, <1>3, <1>4, <1>6 DEF Has
<1> QED
  BY <1>1, <1>2, <1>3, <1>5, <1>6

(* What is known of a client. *)
LEMMA ClientTypes ==
    ASSUME StateTypes, NEW c \in Clients
    PROVE  /\ cl[c] \in ClientState /\ chan[c] \in Streams /\ cwire[c] \in Streams
           /\ held[c] \in Streams /\ Len(chan[c]) \in Nat /\ Len(held[c]) \in Nat
           /\ Taken(c) \in Int /\ NumIterations \in Nat \ {0}
<1>1. /\ cl[c] \in ClientState /\ chan[c] \in Streams /\ cwire[c] \in Streams /\ held[c] \in Streams
  BY DEF StateTypes
<1>2. \A s \in Streams : Len(s) \in Nat
  BY DEF Streams
<1>3. sv.complete \in Nat /\ sv.last \in Nat
  BY DEF StateTypes, ServerState
<1> QED
  BY <1>1, <1>2, <1>3, UcxServerAssumption DEF Taken

(* An unchanged function is one that is changed to what it was. *)
LEMMA SameAt == ASSUME NEW S, NEW T, NEW f \in [S -> T], NEW c \in S
                PROVE  f = [f EXCEPT ![c] = f[c]]
  OBVIOUS

(* What is known of c before its step. *)
LEMMA Before ==
    ASSUME ServerInv, NEW c \in Clients
    PROVE  /\ cl[c] \in ClientState /\ chan[c] \in Streams /\ cwire[c] \in Streams
           /\ held[c] \in Streams /\ Len(chan[c]) \in Nat /\ Len(held[c]) \in Nat
           /\ Taken(c) \in Int /\ NumIterations \in Nat \ {0}
           /\ chan = [chan EXCEPT ![c] = chan[c]] /\ cwire = [cwire EXCEPT ![c] = cwire[c]]
           /\ ClientOK(c) /\ requests \in Queues /\ seen \in History
<1>1. StateTypes /\ ClientOK(c)
  BY DEF ServerInv, ClientsInv
<1>2. chan = [chan EXCEPT ![c] = chan[c]] /\ cwire = [cwire EXCEPT ![c] = cwire[c]]
  BY <1>1, SameAt DEF StateTypes
<1> QED
  BY <1>1, <1>2, ClientTypes DEF StateTypes

(* A client that has not started is unknown to the server. *)
LEMMA UnknownClient ==
    ASSUME ServerInv, NEW c \in Clients, cl[c].pc = "new"
    PROVE  /\ sv.conn # c /\ c \notin seen.refused /\ held[c] = <<>> /\ chan[c] = <<>>
           /\ \A k \in 1..Len(requests) : requests[k] # c
<1>1. c # None
  BY NoneAssumption
<1>2. sv.conn # c
  BY <1>1 DEF ServerInv, ServeInv
<1>3. c \notin seen.refused
  BY DEF ServerInv, RefuseInv
<1>4. held[c] = <<>> /\ chan[c] = <<>>
  BY Before DEF ClientOK, SendOK
<1>5. \A k \in 1..Len(requests) : requests[k] # c
  BY DEF ServerInv, QueueInv
<1> QED
  BY <1>2, <1>3, <1>4, <1>5

-----------------------------------------------------------------------------
(* What a step of client c adds to the history. *)
Notes(c) == /\ seen' \in History
            /\ seen.broken \subseteq seen'.broken /\ seen'.merged = seen.merged
            /\ \/ seen'.refused = seen.refused
               \/ cl[c].pc = "new" /\ seen'.refused = seen.refused \union {c}

(* What a step of client c, or its death, leaves alone. *)
Changes(c) ==
    /\ StateTypes'
    /\ UNCHANGED <<type, rndv, sv, held>>
    /\ \A d \in Clients \ {c} : cl'[d] = cl[d] /\ chan'[d] = chan[d] /\ cwire'[d] = cwire[d]
    /\ Notes(c) /\ (Up(c) \/ cl[c].pc = "new") /\ cl'[c].pc # "new"

(* Such a step keeps the invariant if it keeps what is said of c. *)
LEMMA ClientFrame ==
    ASSUME ServerInv, NEW c \in Clients, Changes(c), ClientOK(c)', QueueInv'
    PROVE  ServerInv'
<1>1. \A d \in Clients : Taken(d)' = Taken(d)
  BY DEF Changes, Taken
<1>2. ASSUME NEW d \in Clients \ {c} PROVE ClientOK(d)'
  <2>1. ClientOK(d)
    BY DEF ServerInv, ClientsInv
  <2>2. ChanOK(d)'
    BY <1>1, <2>1 DEF Changes, ClientOK, ChanOK, EventOK
  <2>3. SendOK(d)'
    BY <1>1, <2>1 DEF Changes, ClientOK, SendOK, Sent
  <2>4. FinOK(d)' /\ FetchOK(d)'
    BY <2>1 DEF Changes, ClientOK, FinOK, FetchOK, EndedWell
  <2>5. TroubleOK(d)'
    BY <2>1 DEF Changes, Notes, ClientOK, TroubleOK, EndedBadly
  <2>6. PastOK(d)'
    BY <2>1 DEF Changes, Notes, ClientOK, PastOK, EndedWell, Lost
  <2> QED
    BY <2>2, <2>3, <2>4, <2>5, <2>6 DEF ClientOK
<1>3. ClientsInv'
  BY <1>2 DEF ClientsInv
<1>4. \A d \in Clients : cl[d].pc # "new" => cl'[d].pc # "new"
  BY DEF Changes
<1>5. sv.conn # None => sv.conn \in Clients
  BY DEF ServerInv, StateTypes, ServerState
<1>6. ServeInv'
  <2>1. Taken(sv.conn)' = Taken(sv.conn)
    BY DEF Changes, Taken
  <2>2. ASSUME sv.conn \in Clients, ~Up(sv.conn), cl[sv.conn].pc # "new"
        PROVE  cl'[sv.conn].pc \in {"done", "dead"}
    <3>1. cl'[sv.conn] = cl[sv.conn]
      BY <2>2 DEF Changes
    <3> QED
      BY <2>2, <3>1 DEF Up
  <2>3. sv.conn # None => sv.conn \notin seen'.refused
    BY DEF Changes, Notes, ServerInv, ServeInv
  <2>4. Serving => sv.conn \in Clients /\ sv.conn # None
    BY NoneAssumption DEF ServerInv, ServeInv
  <2>5. ASSUME Serving, sv.closed PROVE ~Up(sv.conn)'
    <3>1. sv.conn \in Clients /\ ~Up(sv.conn) /\ cl[sv.conn].pc # "new"
      BY <2>4, <2>5 DEF ServerInv, ServeInv
    <3> QED
      BY <2>2, <3>1 DEF Changes, Up
  <2>6. Serving' = Serving /\ sv' = sv /\ held' = held /\ type' = type /\ rndv' = rndv
    BY DEF Changes, Serving
  <2>7. (Serving => sv.conn \in Clients /\ (sv.closed => ~Up(sv.conn)))'
    BY <2>4, <2>5, <2>6
  <2>8. (sv.conn # None => cl[sv.conn].pc # "new" /\ sv.conn \notin seen.refused)'
    BY <1>4, <1>5, <2>3, <2>6 DEF ServerInv, ServeInv
  <2> QED
    BY <2>1, <2>6, <2>7, <2>8 DEF ServerInv, ServeInv
<1>7. RefuseInv'
  <2>1. seen.refused \subseteq Clients
    BY DEF ServerInv, StateTypes, History
  <2>2. cl[c].pc = "new" => held[c] = <<>>
    BY UnknownClient
  <2> QED
    BY <1>4, <2>1, <2>2 DEF Changes, Notes, ServerInv, RefuseInv
<1>8. BufferInv' /\ HeldInOrder'
  BY DEF Changes, Notes, ServerInv, BufferInv, HeldInOrder
<1>9. ServerExitExplained'
  <2>1. ASSUME sv.conn \in Clients, Lost(sv.conn) PROVE Lost(sv.conn)'
    BY <2>1 DEF Changes, Notes, Lost, Up
  <2> QED
    BY <1>5, <2>1 DEF Changes, Notes, ServerInv, ServerExitExplained
<1> QED
  BY <1>3, <1>6, <1>7, <1>8, <1>9 DEF Changes, ServerInv

(* A step that leaves the requests alone keeps what is said of them. *)
LEMMA QueueKept ==
    ASSUME ServerInv, NEW c \in Clients, Changes(c), requests' = requests
    PROVE  QueueInv'
<1>1. \A k \in 1..Len(requests) : requests[k] \in Clients
  BY DEF ServerInv, StateTypes, Queues
<1>2. \A d \in Clients : cl[d].pc # "new" => cl'[d].pc # "new"
  BY DEF Changes
<1> QED
  BY <1>1, <1>2 DEF Changes, Notes, ServerInv, QueueInv

-----------------------------------------------------------------------------
(* A step that puts r, s and w in the place of the state of c, its channel *)
(* and its wire.                                                           *)
Sets(c, r, s, w) ==
    /\ cl' = [cl EXCEPT ![c] = r] /\ chan' = [chan EXCEPT ![c] = s] /\ cwire' = [cwire EXCEPT ![c] = w]
    /\ UNCHANGED <<type, rndv, sv, held>>
    /\ r \in ClientState /\ s \in Streams /\ w \in Streams /\ r.pc # "new"
    /\ requests' \in Queues /\ Notes(c) /\ (Up(c) \/ cl[c].pc = "new")

(* Such a step changes nothing else. *)
LEMMA ChangesOf ==
    ASSUME StateTypes, NEW c \in Clients, NEW r, NEW s, NEW w, Sets(c, r, s, w)
    PROVE  /\ Changes(c) /\ cl'[c] = r /\ chan'[c] = s /\ cwire'[c] = w
           /\ \A d \in Clients : Taken(d)' = Taken(d)
<1>1. cl'[c] = r /\ chan'[c] = s /\ cwire'[c] = w
  BY DEF StateTypes, Sets
<1>2. \A d \in Clients \ {c} : cl'[d] = cl[d] /\ chan'[d] = chan[d] /\ cwire'[d] = cwire[d]
  BY DEF StateTypes, Sets
<1>3. cl' \in [Clients -> ClientState] /\ chan' \in [Clients -> Streams] /\ cwire' \in [Clients -> Streams]
  BY DEF StateTypes, Sets
<1>4. StateTypes'
  BY <1>3 DEF StateTypes, Sets, Notes
<1>5. \A d \in Clients : Taken(d)' = Taken(d)
  BY DEF Taken, Sets
<1> QED
  BY <1>1, <1>2, <1>4, <1>5 DEF Changes, Sets

(* A client that has started. *)
LEMMA Starts ==
    ASSUME ServerInv, NEW c \in Clients, cl[c].pc = "new", NEW r, NEW w, Sets(c, r, chan[c], w),
           r.i = cl[c].i, r.fin = cl[c].fin, r.failed = cl[c].failed, Has(w, Fin) => Has(cwire[c], Fin),
           Has(w, Down) => Has(cwire[c], Down) \/ c \in seen'.refused,
           \/ r.pc = "send"
           \/ r.pc = "done" /\ r.ret = 1 /\ c \in seen'.broken
    PROVE  /\ Changes(c) /\ cl'[c] = r /\ ClientOK(c)'
<1>1. /\ Changes(c) /\ cl'[c] = r /\ chan'[c] = chan[c] /\ cwire'[c] = w /\ Taken(c)' = Taken(c)
  BY ChangesOf DEF ServerInv
<1>2. Taken(c) = 0 /\ held[c] = <<>>
  <2>1. sv.conn # c /\ held[c] = <<>>
    BY UnknownClient
  <2> QED
    BY <2>1 DEF Taken
<1>3. ClientOK(c) /\ chan[c] = <<>> /\ cl[c].i = 0
  BY Before DEF ClientOK, SendOK
<1>4. ChanOK(c)'
  BY <1>1, <1>3 DEF ChanOK
<1>5. SendOK(c)'
  BY <1>1, <1>2, <1>3, UcxServerAssumption DEF SendOK, Sent
<1>6. FinOK(c)' /\ FetchOK(c)'
  BY <1>1, <1>3 DEF Changes, ClientOK, FinOK, FetchOK, EndedWell
<1>7. TroubleOK(c)'
  BY <1>1, <1>3 DEF Changes, Notes, ClientOK, TroubleOK, EndedBadly
<1>8. PastOK(c)'
  BY <1>1, <1>2 DEF Changes, PastOK
<1> QED
  BY <1>1, <1>4, <1>5, <1>6, <1>7, <1>8 DEF ClientOK

(* start_client. *)
LEMMA StartClientStep ==
    ASSUME ServerInv, NEW c \in Clients, StartClient(c)
    PROVE  ServerInv'
<1>1. cl[c].pc = "new" /\ UNCHANGED <<type, rndv, sv, chan, held>>
  BY DEF StartClient
<1>2. /\ cl[c] \in ClientState /\ cwire[c] \in Streams /\ chan[c] \in Streams /\ seen \in History
      /\ chan = [chan EXCEPT ![c] = chan[c]] /\ cwire = [cwire EXCEPT ![c] = cwire[c]]
      /\ requests \in Queues
  BY Before
<1> DEFINE r == [cl[c] EXCEPT !.pc = "send"]
           w == Append(cwire[c], Down)
           q == [cl[c] EXCEPT !.pc = "done", !.ret = 1]
<1>3. /\ r \in ClientState /\ r.pc = "send" /\ r.i = cl[c].i /\ r.fin = cl[c].fin
      /\ r.failed = cl[c].failed
  BY <1>2 DEF ClientState
<1>4. /\ w \in Streams
      /\ Has(w, Fin) => Has(cwire[c], Fin)
  BY <1>2, AppendOne, EventKinds
<1>5. /\ q \in ClientState /\ q.pc = "done" /\ q.ret = 1 /\ q.i = cl[c].i /\ q.fin = cl[c].fin
      /\ q.failed = cl[c].failed
  BY <1>2 DEF ClientState
<1>6. ASSUME cl' = [cl EXCEPT ![c] = r], cwire' = [cwire EXCEPT ![c] = w],
             seen' = [seen EXCEPT !.refused = @ \union {c}], requests' = requests
      PROVE  ServerInv'
  <2> HIDE DEF r, w
  <2>1. Notes(c) /\ c \in seen'.refused
    BY <1>1, <1>2, <1>6 DEF Notes, History
  <2>2. Sets(c, r, chan[c], w)
    BY <1>1, <1>2, <1>3, <1>4, <1>6, <2>1 DEF Sets
  <2>3. Changes(c) /\ ClientOK(c)'
    BY <1>1, <1>3, <1>4, <2>1, <2>2, Starts
  <2> QED
    BY <1>6, <2>3, ClientFrame, QueueKept
<1>7. ASSUME Close(c, 1), Fail(c), requests' = requests, cwire' = cwire PROVE ServerInv'
  <2>1. cl' = [cl EXCEPT ![c] = q]
    BY <1>7 DEF Close
  <2> HIDE DEF q
  <2>2. Notes(c) /\ c \in seen'.broken
    BY <1>2, <1>7 DEF Fail, Notes, History
  <2>3. Sets(c, q, chan[c], cwire[c])
    BY <1>1, <1>2, <1>5, <1>7, <2>1, <2>2 DEF Sets
  <2>4. Changes(c) /\ ClientOK(c)'
    BY <1>1, <1>5, <2>2, <2>3, Starts
  <2> QED
    BY <1>7, <2>4, ClientFrame, QueueKept
<1>8. ASSUME cl' = [cl EXCEPT ![c] = r], requests' = Append(requests, c), cwire' = cwire, seen' = seen
      PROVE  ServerInv'
  <2> HIDE DEF r
  <2>1. requests' \in Queues
    <3>1. requests \in Seq(Clients)
      BY <1>2 DEF Queues
    <3> QED
      BY <1>8, <3>1 DEF Queues
  <2>2. Notes(c)
    BY <1>2, <1>8 DEF Notes
  <2>3. Sets(c, r, chan[c], cwire[c])
    BY <1>1, <1>2, <1>3, <1>8, <2>1, <2>2 DEF Sets
  <2>4. Changes(c) /\ ClientOK(c)' /\ cl'[c] = r
    BY <1>1, <1>3, <2>3, Starts
  <2>5. QueueInv'
    <3>1. /\ Len(requests) \in Nat /\ Len(requests') = Len(requests) + 1
          /\ requests'[Len(requests) + 1] = c
          /\ \A k \in 1..Len(requests) : requests'[k] = requests[k] /\ requests[k] \in Clients
      BY <1>2, <1>8 DEF Queues
    <3>2. QueueInv
      BY DEF ServerInv
    <3>3. \A k \in 1..Len(requests) : requests[k] # c
      BY <1>1, UnknownClient
    <3>4. \A j, k \in 1..Len(requests') : requests'[j] = requests'[k] => j = k
      BY <3>1, <3>2, <3>3 DEF QueueInv
    <3>5. \A d \in Clients : cl[d].pc # "new" => cl'[d].pc # "new"
      BY <2>4 DEF Changes
    <3>6. ASSUME NEW k \in 1..Len(requests')
          PROVE  /\ held'[requests'[k]] = <<>> /\ sv'.conn # requests'[k]
                 /\ cl'[requests'[k]].pc # "new" /\ requests'[k] \notin seen'.refused
      <4>1. CASE k \in 1..Len(requests)
        BY <1>1, <1>8, <3>1, <3>2, <3>5, <4>1 DEF QueueInv
      <4>2. CASE k = Len(requests) + 1
        BY <1>1, <1>3, <1>8, <2>4, <3>1, <4>2, UnknownClient
      <4> QED
        BY <3>1, <4>1, <4>2
    <3> QED
      BY <3>4, <3>6 DEF QueueInv
  <2> QED
    BY <2>4, <2>5, ClientFrame
<1> QED
  BY <1>6, <1>7, <1>8 DEF StartClient

(* What is still on the wire of c after a step, and what it remembers. *)
Hears(c, r, w) == /\ Has(w, Fin) => Has(cwire[c], Fin)
                  /\ Has(w, Down) => Has(cwire[c], Down)
                  /\ r.fin => Has(cwire[c], Fin) \/ cl[c].fin
                  /\ r.failed => Has(cwire[c], Down) \/ cl[c].failed

(* A client that is up has not been served in vain: it stays lost. *)
LEMMA PastKept ==
    ASSUME ServerInv, NEW c \in Clients, Up(c), Changes(c)
    PROVE  PastOK(c)'
<1>1. ClientOK(c)
  BY Before
<1> QED
  BY <1>1 DEF Changes, Notes, ClientOK, PastOK, EndedWell, Lost, Up

(* A client that ends in an error or dies leaves Down in its channel. *)
LEMMA LeavesDown ==
    ASSUME ServerInv, NEW c \in Clients, Up(c), NEW r, NEW w,
           Sets(c, r, Append(chan[c], Down), w), Hears(c, r, w),
           \/ /\ r.pc = "done" /\ r.ret = 1
              /\ c \in seen.refused \/ sv.pc = "exited" \/ c \in seen'.broken
           \/ r.pc = "dead"
    PROVE  ClientOK(c)'
<1>1. /\ Changes(c) /\ cl'[c] = r /\ chan'[c] = Append(chan[c], Down) /\ cwire'[c] = w
      /\ Taken(c)' = Taken(c)
  BY ChangesOf DEF ServerInv
<1>2. /\ ClientOK(c) /\ cl[c].pc \notin {"new", "done", "dead"} /\ Len(chan[c]) \in Nat
  BY Before DEF Up
<1>3. /\ Len(chan'[c]) = Len(chan[c]) + 1 /\ chan'[c][Len(chan[c]) + 1] = Down
      /\ \A k \in 1..Len(chan[c]) : chan'[c][k] = chan[c][k]
  <2>1. chan[c] \in Streams /\ Down \in Events
    BY Before, EventKinds
  <2> QED
    BY <1>1, <2>1, AppendOne
<1>4. ChanOK(c)'
  <2>1. ASSUME NEW k \in 1..Len(chan[c]) PROVE EventOK(c, k)'
    <3>1. chan[c][k] = Msg(Taken(c) + k) /\ Taken(c) + k <= NumIterations
      BY <1>2 DEF ClientOK, ChanOK, EventOK
    <3> QED
      BY <1>1, <1>3, <3>1 DEF EventOK
  <2>2. ASSUME NEW k \in {Len(chan[c]) + 1} PROVE EventOK(c, k)'
    BY <1>1, <1>3, <2>2 DEF EventOK
  <2>3. ASSUME NEW k \in 1..Len(chan'[c]) PROVE EventOK(c, k)'
    <3>1. k \in 1..Len(chan[c]) \/ k \in {Len(chan[c]) + 1}
      BY <1>2, <1>3
    <3> QED
      BY <2>1, <2>2, <3>1
  <2> QED
    BY <2>3 DEF ChanOK
<1>5. SendOK(c)'
  BY <1>1 DEF SendOK
<1>6. FinOK(c)'
  BY <1>1, <1>2 DEF Changes, ClientOK, FinOK, EndedWell, Hears
<1>7. TroubleOK(c)'
  BY <1>1, <1>2 DEF Changes, Notes, ClientOK, TroubleOK, EndedBadly, Hears
<1>8. FetchOK(c)'
  BY <1>1 DEF FetchOK, EndedWell
<1>9. PastOK(c)'
  BY <1>1, PastKept
<1> QED
  BY <1>4, <1>5, <1>6, <1>7, <1>8, <1>9 DEF ClientOK

(* A client that goes on without sending. *)
LEMMA GoesOn ==
    ASSUME ServerInv, NEW c \in Clients, Up(c), NEW r, NEW w,
           Sets(c, r, chan[c], w), Hears(c, r, w), r.pc \notin {"new", "done", "dead"},
           r.pc = "send" => Sent(c) = r.i /\ r.i < NumIterations,
           r.pc = "sending" => Sent(c) = r.i + 1 /\ r.i < NumIterations,
           r.pc \in {"register", "finwait"} => Sent(c) = NumIterations
    PROVE  ClientOK(c)'
<1>1. /\ Changes(c) /\ cl'[c] = r /\ chan'[c] = chan[c] /\ cwire'[c] = w
      /\ Taken(c)' = Taken(c)
  BY ChangesOf DEF ServerInv
<1>2. /\ ClientOK(c) /\ cl[c].pc \notin {"new", "done", "dead"}
  BY Before DEF Up
<1>3. ChanOK(c)'
  BY <1>1, <1>2 DEF ClientOK, ChanOK, EventOK
<1>4. SendOK(c)'
  BY <1>1 DEF SendOK, Sent
<1>5. FinOK(c)'
  BY <1>1, <1>2 DEF Changes, ClientOK, FinOK, EndedWell, Hears
<1>6. TroubleOK(c)'
  BY <1>1, <1>2 DEF Changes, Notes, ClientOK, TroubleOK, EndedBadly, Hears
<1>7. FetchOK(c)'
  BY <1>1 DEF FetchOK, EndedWell
<1>8. PastOK(c)'
  BY <1>1, PastKept
<1> QED
  BY <1>3, <1>4, <1>5, <1>6, <1>7, <1>8 DEF ClientOK

(* The death of a client. *)
LEMMA CrashStep ==
    ASSUME ServerInv, NEW c \in Clients, Crash(c)
    PROVE  ServerInv'
<1> DEFINE r == [cl[c] EXCEPT !.pc = "dead"]
           s == Append(chan[c], Down)
<1>1. Up(c) /\ cl' = [cl EXCEPT ![c] = r] /\ chan' = [chan EXCEPT ![c] = s] /\ requests' = requests
  BY DEF Crash
<1>2. /\ r \in ClientState /\ r.pc = "dead" /\ r.pc # "new" /\ r.fin = cl[c].fin
      /\ r.failed = cl[c].failed
  BY Before DEF ClientState
<1>3. Notes(c)
  BY Before DEF Crash, Notes
<1>4. s \in Streams
  BY Before, AppendOne, EventKinds
<1>5. Hears(c, r, cwire[c])
  BY <1>2 DEF Hears
<1>6. cwire' = [cwire EXCEPT ![c] = cwire[c]] /\ UNCHANGED <<type, rndv, sv, held>>
  BY Before DEF Crash
<1>7. Sets(c, r, s, cwire[c])
  BY <1>1, <1>2, <1>3, <1>4, <1>6, Before DEF Sets
<1> HIDE DEF r
<1>8. ClientOK(c)'
  BY <1>1, <1>2, <1>3, <1>5, <1>7, LeavesDown
<1>9. Changes(c)
  BY <1>7, ChangesOf DEF ServerInv
<1> QED
  BY <1>1, <1>8, <1>9, ClientFrame, QueueKept

(* A client that sends its next message. *)
LEMMA SendsMessage ==
    ASSUME ServerInv, NEW c \in Clients, cl[c].pc = "send", NEW r, NEW w,
           Sets(c, r, Append(chan[c], Msg(cl[c].i + 1)), w), Hears(c, r, w),
           \/ r.pc = "send" /\ r.i = cl[c].i + 1 /\ r.i < NumIterations
           \/ r.pc = "sending" /\ r.i = cl[c].i
           \/ r.pc = "register" /\ cl[c].i + 1 = NumIterations
    PROVE  ClientOK(c)'
<1> DEFINE m == Msg(cl[c].i + 1)
           n == Len(chan[c])
<1>1. /\ Changes(c) /\ cl'[c] = r /\ chan'[c] = Append(chan[c], m) /\ cwire'[c] = w
      /\ Taken(c)' = Taken(c)
  <2>1. StateTypes
    BY DEF ServerInv
  <2> HIDE DEF m
  <2>2. Sets(c, r, Append(chan[c], m), w)
    BY DEF m
  <2> QED
    BY <2>1, <2>2, ChangesOf
<1>2. /\ ClientOK(c) /\ n \in Nat /\ cl[c].i \in Nat /\ Taken(c) \in Int /\ NumIterations \in Nat
  BY Before DEF ClientState
<1>3. Taken(c) + n = cl[c].i /\ cl[c].i < NumIterations
  BY <1>2 DEF ClientOK, SendOK, Sent
<1>4. /\ Len(chan'[c]) = n + 1 /\ chan'[c][n + 1] = m
      /\ \A k \in 1..n : chan'[c][k] = chan[c][k]
  <2>1. chan[c] \in Streams /\ m \in Events
    BY <1>2, Before, EventKinds
  <2> QED
    BY <1>1, <2>1, AppendOne
<1>5. ChanOK(c)'
  <2>1. ASSUME NEW k \in 1..n PROVE EventOK(c, k)'
    <3>1. chan[c][k] = Msg(Taken(c) + k) /\ Taken(c) + k <= NumIterations
      BY <1>2 DEF ClientOK, ChanOK, EventOK
    <3> QED
      BY <1>1, <1>4, <3>1 DEF EventOK
  <2>2. ASSUME NEW k, k = n + 1 PROVE EventOK(c, k)'
    <3>1. Taken(c) + k = cl[c].i + 1 /\ Taken(c) + k <= NumIterations
      BY <1>2, <1>3, <2>2
    <3>2. chan'[c][k] = Msg(Taken(c) + k)
      BY <1>4, <2>2, <3>1
    <3> QED
      BY <1>1, <3>1, <3>2 DEF EventOK
  <2>3. ASSUME NEW k \in 1..Len(chan'[c]) PROVE EventOK(c, k)'
    <3>1. k \in 1..n \/ k = n + 1
      BY <1>2, <1>4
    <3> QED
      BY <2>1, <2>2, <3>1
  <2> QED
    BY <2>3 DEF ChanOK
<1>6. SendOK(c)'
  <2>1. Sent(c)' = cl[c].i + 1
    BY <1>1, <1>2, <1>3, <1>4 DEF Sent
  <2> QED
    BY <1>1, <1>3, <2>1 DEF SendOK
<1>7. FinOK(c)'
  BY <1>1, <1>2 DEF Changes, ClientOK, FinOK, EndedWell, Hears
<1>8. TroubleOK(c)'
  BY <1>1, <1>2 DEF Changes, Notes, ClientOK, TroubleOK, EndedBadly, Hears
<1>9. FetchOK(c)'
  BY <1>1 DEF FetchOK, EndedWell
<1>10. PastOK(c)'
  BY <1>1, PastKept DEF Up
<1> QED
  BY <1>5, <1>6, <1>7, <1>8, <1>9, <1>10 DEF ClientOK

(* The end of an iteration of the client. *)
LEMMA NextState ==
    ASSUME NEW r \in ClientState
    PROVE  /\ NextIteration(r) \in ClientState
           /\ NextIteration(r).i = r.i + 1 /\ r.i \in Nat
           /\ NextIteration(r).fin = r.fin /\ NextIteration(r).failed = r.failed
           /\ NextIteration(r).pc = IF r.i + 1 < NumIterations THEN "send" ELSE "register"
<1> DEFINE p == IF r.i + 1 < NumIterations THEN "send" ELSE "register"
           n == r.i + 1
<1>1. NextIteration(r) = [r EXCEPT !.i = n, !.pc = p]
  BY DEF NextIteration, ClientState
<1>2. p \in {"send", "register"} /\ r.i \in Nat /\ n \in Nat
  BY DEF ClientState
<1> HIDE DEF p, n
<1>3. LET q == [r EXCEPT !.i = n, !.pc = p]
      IN  q \in ClientState /\ q.i = n /\ q.fin = r.fin /\ q.failed = r.failed /\ q.pc = p
  BY <1>2 DEF ClientState
<1> QED
  BY <1>1, <1>2, <1>3 DEF p, n

(* A client that finds its endpoint failed, its send in error, or in which *)
(* a call fails.                                                           *)
LEMMA ClientFails ==
    ASSUME ServerInv, NEW c \in Clients, Up(c), Close(c, 1), Notes(c),
           cl[c].failed \/ Has(cwire[c], Down) \/ c \in seen'.broken,
           chan' = [chan EXCEPT ![c] = Append(@, Down)], NEW w \in Streams,
           cwire' = [cwire EXCEPT ![c] = w], Has(w, Fin) => Has(cwire[c], Fin),
           Has(w, Down) => Has(cwire[c], Down),
           UNCHANGED <<type, rndv, requests, sv, held>>
    PROVE  ServerInv'
<1> DEFINE r == [cl[c] EXCEPT !.pc = "done", !.ret = 1]
           s == Append(chan[c], Down)
<1>1. cl' = [cl EXCEPT ![c] = r] /\ chan' = [chan EXCEPT ![c] = s]
  BY DEF Close
<1>2. /\ r \in ClientState /\ r.pc = "done" /\ r.pc # "new" /\ r.ret = 1 /\ r.fin = cl[c].fin
      /\ r.failed = cl[c].failed
  BY Before DEF ClientState
<1>3. s \in Streams
  BY Before, AppendOne, EventKinds
<1>4. Hears(c, r, w)
  BY <1>2 DEF Hears
<1>5. Sets(c, r, s, w)
  BY <1>1, <1>2, <1>3, Before DEF Sets
<1> HIDE DEF r
<1>6. c \in seen.refused \/ sv.pc = "exited" \/ c \in seen'.broken
  BY Before DEF ClientOK, TroubleOK
<1>7. ClientOK(c)'
  BY <1>2, <1>4, <1>5, <1>6, LeavesDown
<1>8. Changes(c)
  BY <1>5, ChangesOf DEF ServerInv
<1> QED
  BY <1>7, <1>8, ClientFrame, QueueKept

(* A call that fails in c is noted. *)
LEMMA FailNoted ==
    ASSUME ServerInv, NEW c \in Clients, Fail(c) \/ seen' = seen
    PROVE  Notes(c) /\ (Fail(c) => c \in seen'.broken)
<1>1. seen \in History
  BY Before
<1> QED
  BY <1>1 DEF Fail, Notes, History

(* An iteration of the client. *)
LEMMA ClientSendStep ==
    ASSUME ServerInv, NEW c \in Clients, ClientSend(c)
    PROVE  ServerInv'
<1> DEFINE s == Append(chan[c], Msg(cl[c].i + 1))
<1>1. cl[c].pc = "send" /\ Up(c) /\ UNCHANGED <<type, rndv, requests, sv, held>>
  BY DEF ClientSend, Up
<1>2. ASSUME (cl[c].failed /\ UNCHANGED seen) \/ Fail(c), Close(c, 1),
             chan' = [chan EXCEPT ![c] = Append(@, Down)], cwire' = cwire
      PROVE  ServerInv'
  <2>1. cwire' = [cwire EXCEPT ![c] = cwire[c]] /\ cwire[c] \in Streams
    BY <1>2, Before
  <2>2. Notes(c) /\ (cl[c].failed \/ c \in seen'.broken)
    BY <1>2, FailNoted
  <2> QED
    BY <1>1, <1>2, <2>1, <2>2, ClientFails
<1>3. ASSUME seen' = seen, chan' = [chan EXCEPT ![c] = s],
             \/ cl' = [cl EXCEPT ![c] = NextIteration(cl[c])] /\ cwire' = cwire
             \/ /\ cl' = [cl EXCEPT ![c] = [cl[c] EXCEPT !.pc = "sending"]]
                /\ cwire' = cwire \/ cwire' = [cwire EXCEPT ![c] = Append(cwire[c], Ack)]
      PROVE  ServerInv'
  <2>1. /\ cl[c] \in ClientState /\ cl[c].i \in Nat /\ chan[c] \in Streams /\ cwire[c] \in Streams
        /\ cl[c].i < NumIterations /\ NumIterations \in Nat
    BY <1>1, Before DEF ClientState, ClientOK, SendOK
  <2>2. s \in Streams /\ chan' = [chan EXCEPT ![c] = s]
    <3>1. Msg(cl[c].i + 1) \in Events
      BY <2>1, EventKinds
    <3> QED
      BY <1>3, <2>1, <3>1, AppendOne
  <2> DEFINE q == [cl[c] EXCEPT !.pc = "sending"]
             a == Append(cwire[c], Ack)
  <2>3. /\ q \in ClientState /\ q.pc = "sending" /\ q.pc # "new" /\ q.i = cl[c].i
        /\ q.fin = cl[c].fin /\ q.failed = cl[c].failed
    BY <2>1 DEF ClientState
  <2>4. a \in Streams /\ (Has(a, Fin) => Has(cwire[c], Fin)) /\ (Has(a, Down) => Has(cwire[c], Down))
    BY <2>1, AppendOne, EventKinds
  <2>5. /\ NextIteration(cl[c]) \in ClientState /\ NextIteration(cl[c]).i = cl[c].i + 1
        /\ NextIteration(cl[c]).fin = cl[c].fin /\ NextIteration(cl[c]).failed = cl[c].failed
        /\ NextIteration(cl[c]).pc = IF cl[c].i + 1 < NumIterations THEN "send" ELSE "register"
    BY <2>1, NextState
  <2>6. \/ cl' = [cl EXCEPT ![c] = NextIteration(cl[c])] /\ cwire' = cwire
        \/ cl' = [cl EXCEPT ![c] = q] /\ cwire' = cwire
        \/ cl' = [cl EXCEPT ![c] = q] /\ cwire' = [cwire EXCEPT ![c] = a]
    BY <1>3
  <2>7. /\ cwire = [cwire EXCEPT ![c] = cwire[c]] /\ requests' \in Queues /\ Notes(c)
    BY <1>1, <1>3, Before, FailNoted
  <2>8. ASSUME NEW r, NEW w, Sets(c, r, s, w), Hears(c, r, w),
               \/ r.pc = "send" /\ r.i = cl[c].i + 1 /\ r.i < NumIterations
               \/ r.pc = "sending" /\ r.i = cl[c].i
               \/ r.pc = "register" /\ cl[c].i + 1 = NumIterations
        PROVE  ServerInv'
    <3>1. ClientOK(c)'
      BY <1>1, <2>8, SendsMessage
    <3>2. Changes(c)
      BY <2>8, ChangesOf DEF ServerInv
    <3> QED
      BY <1>1, <3>1, <3>2, ClientFrame, QueueKept
  <2>9. CASE cl' = [cl EXCEPT ![c] = NextIteration(cl[c])] /\ cwire' = cwire
    <3>1. Sets(c, NextIteration(cl[c]), s, cwire[c])
      BY <1>1, <2>1, <2>2, <2>5, <2>7, <2>9 DEF Sets
    <3>2. Hears(c, NextIteration(cl[c]), cwire[c])
      BY <2>5 DEF Hears
    <3> QED
      BY <2>1, <2>5, <2>8, <3>1, <3>2
  <2>10. CASE cl' = [cl EXCEPT ![c] = q] /\ cwire' = cwire
    <3>1. Sets(c, q, s, cwire[c])
      BY <1>1, <2>1, <2>2, <2>3, <2>7, <2>10 DEF Sets
    <3>2. Hears(c, q, cwire[c])
      BY <2>3 DEF Hears
    <3> QED
      BY <2>3, <2>8, <3>1, <3>2
  <2>11. CASE cl' = [cl EXCEPT ![c] = q] /\ cwire' = [cwire EXCEPT ![c] = a]
    <3>1. Sets(c, q, s, a)
      BY <1>1, <2>1, <2>2, <2>3, <2>4, <2>7, <2>11 DEF Sets
    <3>2. Hears(c, q, a)
      BY <2>3, <2>4 DEF Hears
    <3> QED
      BY <2>3, <2>8, <3>1, <3>2
  <2> QED
    BY <2>6, <2>9, <2>10, <2>11
<1> QED
  BY <1>2, <1>3 DEF ClientSend

(* What c has heard after a progress call that handles n events. *)
LEMMA Progressed ==
    ASSUME ServerInv, NEW c \in Clients, cwire[c] # <<>>, NEW n \in Handled(cwire[c])
    PROVE  LET events == First(cwire[c], n)
               r == AfterProgress(c, events)
               w == Rest(cwire[c], n)
           IN  /\ r \in ClientState /\ w \in Streams /\ Hears(c, r, w)
               /\ r.pc = cl[c].pc /\ r.i = cl[c].i /\ r.ret = cl[c].ret
               /\ Has(events, Down) => Has(cwire[c], Down)
<1> DEFINE events == First(cwire[c], n)
           r == AfterProgress(c, events)
           w == Rest(cwire[c], n)
           fin == FinKept(c, events)
           failed == cl[c].failed \/ Has(events, Down)
<1>1. cl[c] \in ClientState /\ cwire[c] \in Streams
  BY Before
<1>2. /\ w \in Streams
      /\ \A e : Has(w, e) \/ Has(events, e) => Has(cwire[c], e)
  BY <1>1, TakeSome DEF Streams
<1>3. fin \in BOOLEAN /\ failed \in BOOLEAN
  BY <1>1 DEF FinKept, Has, ClientState
<1>4. r = [cl[c] EXCEPT !.fin = fin, !.failed = failed]
  BY <1>1 DEF AfterProgress, ClientState
<1>5. (fin => cl[c].fin \/ Has(events, Fin)) /\ (failed => cl[c].failed \/ Has(events, Down))
  BY DEF FinKept
<1> HIDE DEF fin, failed, events, w, r
<1>6. /\ r \in ClientState /\ r.pc = cl[c].pc /\ r.i = cl[c].i /\ r.ret = cl[c].ret
      /\ r.fin = fin /\ r.failed = failed
  BY <1>1, <1>3, <1>4 DEF ClientState
<1>7. Hears(c, r, w)
  BY <1>2, <1>5, <1>6 DEF Hears
<1> QED
  BY <1>2, <1>6, <1>7 DEF events, w, r

(* So is a FIN that is lost. *)
LEMMA FinLostNoted ==
    ASSUME StateTypes, NEW c, NEW b \in BOOLEAN, seen' = [seen EXCEPT !.finlost = @ \/ b]
    PROVE  Notes(c)
  BY DEF StateTypes, History, Notes

(* A client that goes on keeps the invariant. *)
LEMMA GoesOnStep ==
    ASSUME ServerInv, NEW c \in Clients, Up(c), NEW r, NEW w, requests' = requests,
           Sets(c, r, chan[c], w), Hears(c, r, w), r.pc \notin {"new", "done", "dead"},
           r.pc = "send" => Sent(c) = r.i /\ r.i < NumIterations,
           r.pc = "sending" => Sent(c) = r.i + 1 /\ r.i < NumIterations,
           r.pc \in {"register", "finwait"} => Sent(c) = NumIterations
    PROVE  ServerInv'
<1>1. ClientOK(c)'
  BY GoesOn
<1>2. Changes(c)
  BY ChangesOf DEF ServerInv
<1> QED
  BY <1>1, <1>2, ClientFrame, QueueKept

(* request_wait of a send. *)
LEMMA ClientWaitStep ==
    ASSUME ServerInv, NEW c \in Clients, ClientWait(c)
    PROVE  ServerInv'
<1>1. /\ cl[c].pc = "sending" /\ Up(c) /\ UNCHANGED <<type, rndv, requests, sv, held>>
      /\ cwire[c] # <<>>
  BY DEF ClientWait, Up
<1>2. PICK n \in Handled(cwire[c]) :
         /\ cwire' = [cwire EXCEPT ![c] = Rest(cwire[c], n)]
         /\ seen' = [seen EXCEPT !.finlost = @ \/ FinLost(c, First(cwire[c], n))]
         /\ \/ /\ cl' = [cl EXCEPT ![c] = NextIteration(AfterProgress(c, First(cwire[c], n)))]
               /\ chan' = chan
            \/ /\ Has(First(cwire[c], n), Down) /\ Close(c, 1)
               /\ chan' = [chan EXCEPT ![c] = Append(@, Down)]
            \/ /\ cl' = [cl EXCEPT ![c] = AfterProgress(c, First(cwire[c], n))]
               /\ chan' = chan
  BY DEF ClientWait
<1> DEFINE events == First(cwire[c], n)
           r == AfterProgress(c, events)
           w == Rest(cwire[c], n)
<1>3. /\ r \in ClientState /\ w \in Streams /\ Hears(c, r, w)
      /\ r.pc = cl[c].pc /\ r.i = cl[c].i
      /\ Has(events, Down) => Has(cwire[c], Down)
  BY <1>1, Progressed
<1>4. Notes(c)
  <2>1. StateTypes /\ FinLost(c, events) \in BOOLEAN
    BY DEF ServerInv, FinLost, Has
  <2> QED
    BY <1>2, <2>1, FinLostNoted
<1> HIDE DEF events, r, w
<1>5. /\ chan = [chan EXCEPT ![c] = chan[c]] /\ chan[c] \in Streams /\ requests \in Queues
      /\ Sent(c) = cl[c].i + 1 /\ cl[c].i < NumIterations
      /\ cl[c].i \in Nat /\ NumIterations \in Nat
  BY <1>1, Before DEF ClientOK, SendOK, ClientState
<1>6. CASE cl' = [cl EXCEPT ![c] = NextIteration(r)] /\ chan' = chan
  <2>1. /\ NextIteration(r) \in ClientState /\ NextIteration(r).i = cl[c].i + 1
        /\ NextIteration(r).fin = r.fin /\ NextIteration(r).failed = r.failed
        /\ NextIteration(r).pc = IF cl[c].i + 1 < NumIterations THEN "send" ELSE "register"
    BY <1>3, NextState
  <2> DEFINE q == NextIteration(r)
  <2>2. q \in ClientState /\ q.fin = r.fin /\ q.failed = r.failed
    BY <2>1
  <2>3. \/ q.pc = "send" /\ q.i = cl[c].i + 1 /\ q.i < NumIterations
        \/ q.pc = "register" /\ cl[c].i + 1 = NumIterations
    BY <1>5, <2>1
  <2>4. cl' = [cl EXCEPT ![c] = q]
    BY <1>6
  <2> HIDE DEF q
  <2>5. Sets(c, q, chan[c], w) /\ Hears(c, q, w)
    BY <1>1, <1>2, <1>3, <1>4, <1>5, <1>6, <2>2, <2>3, <2>4 DEF Sets, Hears, w
  <2> QED
    BY <1>1, <1>5, <2>3, <2>5, GoesOnStep
<1>7. CASE cl' = [cl EXCEPT ![c] = r] /\ chan' = chan
  <2>1. Sets(c, r, chan[c], w)
    BY <1>1, <1>2, <1>3, <1>4, <1>5, <1>7 DEF Sets, w
  <2> QED
    BY <1>1, <1>3, <1>5, <2>1, GoesOnStep
<1>8. CASE /\ Has(events, Down) /\ Close(c, 1)
           /\ chan' = [chan EXCEPT ![c] = Append(@, Down)]
  <2>1. cwire' = [cwire EXCEPT ![c] = w]
    BY <1>2 DEF w
  <2>2. (Has(w, Fin) => Has(cwire[c], Fin)) /\ (Has(w, Down) => Has(cwire[c], Down))
    BY <1>3 DEF Hears
  <2> QED
    BY <1>1, <1>3, <1>4, <1>8, <2>1, <2>2, ClientFails
<1> QED
  BY <1>2, <1>6, <1>7, <1>8 DEF events, r

(* register_am_recv_callback. *)
LEMMA RegisterFinStep ==
    ASSUME ServerInv, NEW c \in Clients, RegisterFin(c)
    PROVE  ServerInv'
<1> DEFINE b == (type = "am")
           r == [cl[c] EXCEPT !.pc = "finwait", !.handler = b]
<1>1. /\ cl[c].pc = "register" /\ Up(c) /\ UNCHANGED <<type, rndv, requests, sv, cwire, held>>
      /\ \/ cl' = [cl EXCEPT ![c] = r] /\ UNCHANGED <<chan, seen>>
         \/ Fail(c) /\ Close(c, 1) /\ chan' = [chan EXCEPT ![c] = Append(@, Down)]
  BY DEF RegisterFin, Up
<1>2. b \in BOOLEAN
  OBVIOUS
<1> HIDE DEF b
<1>3. /\ r \in ClientState /\ r.pc = "finwait" /\ r.fin = cl[c].fin /\ r.failed = cl[c].failed
  BY <1>2, Before DEF ClientState
<1> HIDE DEF r
<1>4. /\ chan = [chan EXCEPT ![c] = chan[c]] /\ cwire = [cwire EXCEPT ![c] = cwire[c]]
      /\ chan[c] \in Streams /\ cwire[c] \in Streams /\ requests \in Queues /\ seen \in History
      /\ Sent(c) = NumIterations
  BY <1>1, Before DEF ClientOK, SendOK
<1>5. CASE cl' = [cl EXCEPT ![c] = r] /\ UNCHANGED <<chan, seen>>
  <2>1. Notes(c)
    BY <1>5, FailNoted
  <2>2. Sets(c, r, chan[c], cwire[c]) /\ Hears(c, r, cwire[c])
    BY <1>1, <1>3, <1>4, <1>5, <2>1 DEF Sets, Hears
  <2> QED
    BY <1>1, <1>3, <1>4, <2>2, GoesOnStep
<1>6. CASE Fail(c) /\ Close(c, 1) /\ chan' = [chan EXCEPT ![c] = Append(@, Down)]
  <2>1. Notes(c) /\ c \in seen'.broken
    BY <1>6, FailNoted
  <2> QED
    BY <1>1, <1>4, <1>6, <2>1, ClientFails
<1> QED
  BY <1>1, <1>5, <1>6

(* The events a client leaves that had its FIN. *)
LEMMA AppendEnd ==
    ASSUME NEW s \in Streams, NEW t \in {<<Ack, Down>>, <<Down>>}
    PROVE  /\ s \o t \in Streams /\ Len(s) \in Nat /\ Len(s \o t) \in Nat
           /\ \A k \in 1..Len(s) : (s \o t)[k] = s[k]
           /\ \A k \in 1..Len(s \o t) :
                 \/ k \in 1..Len(s) /\ (s \o t)[k] = s[k]
                 \/ (s \o t)[k] = Ack
                 \/ (s \o t)[k] = Down /\ k = Len(s \o t)
           /\ s = <<>> => s \o t = t
<1>1. Ack \in Events /\ Down \in Events
  BY EventKinds
<1>2. s \in Seq(Events) /\ Len(s) \in Nat
  BY DEF Streams
<1>3. ASSUME t = <<Ack, Down>>
      PROVE  /\ t \in Seq(Events) /\ Len(t) = 2 /\ t[1] = Ack /\ t[2] = Down
  BY <1>1, <1>3
<1>4. ASSUME t = <<Down>>
      PROVE  /\ t \in Seq(Events) /\ Len(t) = 1 /\ t[1] = Down
  BY <1>1, <1>4
<1>5. t \in Seq(Events) /\ Len(t) \in {1, 2} /\ t[Len(t)] = Down /\ (Len(t) = 2 => t[1] = Ack)
  BY <1>3, <1>4
<1>6. /\ s \o t \in Seq(Events) /\ Len(s \o t) = Len(s) + Len(t)
      /\ \A k \in 1..Len(s) : (s \o t)[k] = s[k]
      /\ \A k \in (Len(s) + 1)..(Len(s) + Len(t)) : (s \o t)[k] = t[k - Len(s)]
  BY <1>2, <1>5
<1>7. s = <<>> => s \o t = t
  BY <1>5
<1>8. ASSUME NEW k \in 1..Len(s \o t)
      PROVE  \/ k \in 1..Len(s) /\ (s \o t)[k] = s[k]
             \/ (s \o t)[k] = Ack
             \/ (s \o t)[k] = Down /\ k = Len(s \o t)
  <2>1. CASE k \in 1..Len(s)
    BY <1>6, <2>1
  <2>2. CASE k = Len(s) + Len(t)
    BY <1>2, <1>5, <1>6, <2>2
  <2>3. CASE k = Len(s) + 1 /\ Len(t) = 2
    BY <1>2, <1>5, <1>6, <2>3
  <2> QED
    BY <1>2, <1>5, <1>6, <2>1, <2>2, <2>3
<1> QED
  BY <1>2, <1>5, <1>6, <1>7, <1>8 DEF Streams

(* When the server has sent FIN, it has received everything. *)
LEMMA NothingLeft ==
    ASSUME ServerInv, sv.pc \in {"fin", "finsend", "drain"}
    PROVE  /\ sv.conn \in Clients /\ Taken(sv.conn) = NumIterations
           /\ cl[sv.conn].pc \in {"register", "finwait"} => chan[sv.conn] = <<>>
           /\ \A k \in 1..Len(chan[sv.conn]) : chan[sv.conn][k] \in {Ack, Down}
<1> DEFINE c == sv.conn
<1>1. /\ c \in Clients /\ Len(held[c]) = NumIterations /\ sv.complete = sv.last
  BY DEF ServerInv, ServeInv, Serving
<1>2. sv.complete \in Nat /\ NumIterations \in Nat
  BY UcxServerAssumption DEF ServerInv, StateTypes, ServerState
<1>3. Taken(c) = NumIterations
  BY <1>1, <1>2 DEF Taken
<1> HIDE DEF c
<1>4. Len(chan[c]) \in Nat /\ chan[c] \in Streams /\ ClientOK(c)
  BY <1>1, Before
<1>5. ASSUME cl[c].pc \in {"register", "finwait"} PROVE chan[c] = <<>>
  <2>1. Len(chan[c]) = 0
    BY <1>2, <1>3, <1>4, <1>5 DEF ClientOK, SendOK, Sent
  <2> QED
    BY <1>4, <2>1 DEF Streams
<1>6. ASSUME NEW k \in 1..Len(chan[c]) PROVE chan[c][k] \in {Ack, Down}
  <2>1. EventOK(c, k)
    BY <1>4 DEF ClientOK, ChanOK
  <2>2. ~(Taken(c) + k <= NumIterations)
    BY <1>2, <1>3, <1>4
  <2> QED
    BY <2>1, <2>2 DEF EventOK
<1> QED
  BY <1>1, <1>3, <1>5, <1>6 DEF c

(* A client that has its FIN. *)
LEMMA EndsWell ==
    ASSUME ServerInv, NEW c \in Clients, cl[c].pc = "finwait", cl[c].fin, Close(c, 0),
           NEW t, t = IF rndv THEN <<Ack, Down>> ELSE <<Down>>,
           chan' = [chan EXCEPT ![c] = @ \o t], cwire' = cwire,
           UNCHANGED <<type, rndv, requests, sv, held, seen>>
    PROVE  ServerInv'
<1> DEFINE r == [cl[c] EXCEPT !.pc = "done", !.ret = 0]
           s == chan[c] \o t
<1>1. Up(c) /\ Notes(c)
  BY FailNoted DEF Up
<1>2. cl' = [cl EXCEPT ![c] = r] /\ chan' = [chan EXCEPT ![c] = s]
  BY DEF Close
<1>3. /\ r \in ClientState /\ r.pc = "done" /\ r.pc # "new" /\ r.ret = 0 /\ r.fin = cl[c].fin
      /\ r.failed = cl[c].failed
  BY Before DEF ClientState
<1>4. t \in {<<Ack, Down>>, <<Down>>}
  OBVIOUS
<1>5. /\ chan[c] \in Streams /\ cwire = [cwire EXCEPT ![c] = cwire[c]] /\ cwire[c] \in Streams
      /\ requests \in Queues /\ seen \in History /\ ClientOK(c) /\ StateTypes
  BY Before DEF ServerInv
<1>6. /\ s \in Streams /\ Len(chan[c]) \in Nat
      /\ \A k \in 1..Len(s) : \/ k \in 1..Len(chan[c]) /\ s[k] = chan[c][k]
                              \/ s[k] = Ack
                              \/ s[k] = Down /\ k = Len(s)
      /\ chan[c] = <<>> => s = t
  BY <1>4, <1>5, AppendEnd
<1>7. Sets(c, r, s, cwire[c])
  BY <1>1, <1>2, <1>3, <1>5, <1>6 DEF Sets
<1> HIDE DEF r, s
<1>8. Changes(c) /\ cl'[c] = r /\ chan'[c] = s /\ cwire'[c] = cwire[c] /\ Taken(c)' = Taken(c)
  BY <1>5, <1>7, ChangesOf
<1>9. ChanOK(c)'
  <2>1. ASSUME NEW k \in 1..Len(s) PROVE EventOK(c, k)'
    <3>1. CASE k \in 1..Len(chan[c]) /\ s[k] = chan[c][k]
      <4>1. chan[c][k] = Msg(Taken(c) + k) /\ Taken(c) + k <= NumIterations
        BY <1>5, <3>1 DEF ClientOK, ChanOK, EventOK
      <4> QED
        BY <1>8, <3>1, <4>1 DEF EventOK
    <3>2. CASE s[k] = Ack
      BY <1>3, <1>8, <3>2 DEF EventOK
    <3>3. CASE s[k] = Down /\ k = Len(s)
      BY <1>3, <1>8, <3>3 DEF EventOK
    <3> QED
      BY <1>6, <3>1, <3>2, <3>3
  <2> QED
    BY <1>8, <2>1 DEF ChanOK
<1>10. SendOK(c)' /\ FinOK(c)' /\ TroubleOK(c)'
  BY <1>1, <1>3, <1>5, <1>8
     DEF Changes, Notes, Up, ClientOK, SendOK, FinOK, TroubleOK, EndedWell, EndedBadly
<1>11. FetchOK(c)'
  <2>1. ASSUME sv.pc = "finsend", sv.conn = c PROVE s = <<Ack, Down>>
    <3>1. chan[c] = <<>>
      BY <2>1, NothingLeft
    <3>2. rndv
      BY <2>1 DEF ServerInv, ServeInv
    <3> QED
      BY <1>6, <3>1, <3>2
  <2> QED
    BY <1>8, <2>1 DEF Changes, FetchOK
<1>12. ClientOK(c)'
  BY <1>1, <1>8, <1>9, <1>10, <1>11, PastKept DEF ClientOK
<1> QED
  BY <1>8, <1>12, ClientFrame, QueueKept

(* The receive of FIN. *)
LEMMA ClientFinStep ==
    ASSUME ServerInv, NEW c \in Clients, ClientFin(c)
    PROVE  ServerInv'
<1>1. /\ cl[c].pc = "finwait" /\ Up(c) /\ UNCHANGED <<type, rndv, requests, sv, held, seen>>
      /\ Notes(c)
  BY FailNoted DEF ClientFin, Up
<1>2. /\ chan = [chan EXCEPT ![c] = chan[c]] /\ cwire = [cwire EXCEPT ![c] = cwire[c]]
      /\ chan[c] \in Streams /\ cwire[c] \in Streams /\ requests \in Queues /\ seen \in History
      /\ Sent(c) = NumIterations
  BY <1>1, Before DEF ClientOK, SendOK
<1>3. CASE cl[c].fin
  <2>1. /\ Close(c, 0) /\ cwire' = cwire
        /\ chan' = [chan EXCEPT ![c] = @ \o IF rndv THEN <<Ack, Down>> ELSE <<Down>>]
    BY <1>3 DEF ClientFin
  <2> QED
    BY <1>1, <1>3, <2>1, EndsWell
<1>4. CASE cl[c].failed /\ Close(c, 1) /\ chan' = [chan EXCEPT ![c] = Append(@, Down)] /\ cwire' = cwire
  BY <1>1, <1>2, <1>4, ClientFails
<1>5. ASSUME NEW n \in Handled(cwire[c]), cwire[c] # <<>>,
             cwire' = [cwire EXCEPT ![c] = Rest(@, n)],
             cl' = [cl EXCEPT ![c] = AfterProgress(c, First(cwire[c], n))], chan' = chan
      PROVE  ServerInv'
  <2> DEFINE r == AfterProgress(c, First(cwire[c], n))
             w == Rest(cwire[c], n)
  <2>1. r \in ClientState /\ w \in Streams /\ Hears(c, r, w) /\ r.pc = "finwait"
    BY <1>1, <1>5, Progressed
  <2>2. cl' = [cl EXCEPT ![c] = r] /\ cwire' = [cwire EXCEPT ![c] = w]
    BY <1>5
  <2> HIDE DEF r, w
  <2>3. Sets(c, r, chan[c], w)
    BY <1>1, <1>2, <1>5, <2>1, <2>2 DEF Sets
  <2> QED
    BY <1>1, <1>2, <2>1, <2>3, GoesOnStep
<1> QED
  BY <1>3, <1>4, <1>5 DEF ClientFin

-----------------------------------------------------------------------------
(* What the server adds to the history when it ends. *)
ExitNotes == /\ seen' \in History /\ seen'.refused = seen.refused /\ seen'.merged = seen.merged
             /\ seen.broken \subseteq seen'.broken

(* The server ends, while it holds the request of c or none. *)
LEMMA ExitFrame ==
    ASSUME ServerInv, NEW c, ServerExit(c), ExitNotes, UNCHANGED <<type, rndv, cl, chan, held>>,
           \/ c = sv.conn
           \/ /\ sv.conn = None /\ c \in Clients /\ sv.complete = sv.last
              /\ cl[c].pc # "new" /\ c \notin seen.refused,
           TheServer \in seen'.broken \/ (c # None /\ Lost(c))
    PROVE  ServerInv'
<1>1. c \in Clients \union {None} /\ sv \in ServerState /\ StateTypes
  BY DEF ServerInv, StateTypes, ServerState
<1>2. /\ sv' = [sv EXCEPT !.pc = "exited", !.conn = c] /\ requests' = <<>>
      /\ cwire' = [d \in Clients |-> IF Up(d) THEN Append(cwire[d], Down) ELSE cwire[d]]
  BY DEF ServerExit
<1>3. /\ sv' \in ServerState /\ sv'.pc = "exited" /\ sv'.conn = c
      /\ sv'.complete = sv.complete /\ sv'.last = sv.last
  BY <1>1, <1>2 DEF ServerState
<1>4. ASSUME NEW d \in Clients
      PROVE  /\ cwire'[d] \in Streams
             /\ Has(cwire'[d], Fin) => Has(cwire[d], Fin)
  BY <1>2, Before, AppendOne, EventKinds
<1>5. StateTypes'
  <2>1. cwire' \in [Clients -> Streams]
    <3>1. \A d \in Clients : (IF Up(d) THEN Append(cwire[d], Down) ELSE cwire[d]) \in Streams
      BY <1>2, <1>4
    <3> QED
      BY <1>2, <3>1
  <2>2. requests' \in Queues
    BY <1>2 DEF Queues
  <2> QED
    BY <1>1, <1>3, <2>1, <2>2 DEF StateTypes, ExitNotes
<1>6. \A d \in Clients : Taken(d)' = Taken(d)
  <2>1. ASSUME NEW d \in Clients PROVE Taken(d)' = Taken(d)
    <3>1. Len(held[d]) \in Nat /\ sv.complete \in Nat /\ sv.last \in Nat /\ d # None
      BY <1>1, Before, NoneAssumption DEF ServerState
    <3>2. Taken(d)' = Len(held[d]) + IF c = d THEN sv.complete - sv.last ELSE 0
      BY <1>3 DEF Taken
    <3> QED
      BY <3>1, <3>2 DEF Taken
  <2> QED
    BY <2>1
<1>7. ASSUME NEW d \in Clients PROVE ClientOK(d)'
  <2>1. ClientOK(d) /\ d # None
    BY Before, NoneAssumption
  <2>2. ChanOK(d)'
    BY <1>6, <2>1 DEF ClientOK, ChanOK, EventOK
  <2>3. SendOK(d)'
    BY <1>6, <2>1 DEF ClientOK, SendOK, Sent
  <2>4. FinOK(d)' /\ FetchOK(d)'
    BY <1>3, <1>4, <2>1 DEF ClientOK, FinOK, FetchOK, EndedWell
  <2>5. TroubleOK(d)'
    BY <1>3 DEF TroubleOK
  <2>6. PastOK(d)'
    BY <1>3, <2>1 DEF ExitNotes, ClientOK, PastOK, EndedWell, Lost
  <2> QED
    BY <2>2, <2>3, <2>4, <2>5, <2>6 DEF ClientOK
<1>8. QueueInv'
  BY <1>2 DEF QueueInv
<1>9. ServeInv'
  <2>1. c # None => cl[c].pc # "new" /\ c \notin seen.refused
    BY DEF ServerInv, ServeInv
  <2>2. type # "am" => sv.complete = sv.last
    BY DEF ServerInv, ServeInv
  <2> QED
    BY <1>3, <2>1, <2>2 DEF ServeInv, Serving, ExitNotes
<1>10. RefuseInv' /\ BufferInv' /\ HeldInOrder'
  BY <1>3 DEF ExitNotes, ServerInv, RefuseInv, BufferInv, HeldInOrder
<1>11. ServerExitExplained'
  <2>1. Lost(c) => Lost(c)'
    BY DEF ExitNotes, Lost
  <2> QED
    BY <1>3, <2>1 DEF ServerExitExplained, Lost
<1> QED
  BY <1>5, <1>7, <1>8, <1>9, <1>10, <1>11 DEF ServerInv, ClientsInv

(* The server ends because a call fails in it. *)
LEMMA ServerFails ==
    ASSUME ServerInv, NEW c, ServerExit(c), Fail(TheServer), UNCHANGED <<type, rndv, cl, chan, held>>,
           \/ c = sv.conn
           \/ /\ sv.conn = None /\ c \in Clients /\ sv.complete = sv.last
              /\ cl[c].pc # "new" /\ c \notin seen.refused
    PROVE  ServerInv'
<1>1. seen \in History
  BY DEF ServerInv, StateTypes
<1>2. ExitNotes /\ TheServer \in seen'.broken
  BY <1>1 DEF Fail, ExitNotes, History
<1> QED
  BY <1>2, ExitFrame

(* The server ends because the client that it serves was lost. *)
LEMMA ServerLeft ==
    ASSUME ServerInv, sv.conn # None, Lost(sv.conn), ServerExit(sv.conn),
           UNCHANGED <<type, rndv, cl, chan, held, seen>>
    PROVE  ServerInv'
<1>1. ExitNotes
  BY DEF ExitNotes, ServerInv, StateTypes
<1> QED
  BY <1>1, ExitFrame

(* The start of run_server. *)
LEMMA StartServerStep ==
    ASSUME ServerInv, StartServer
    PROVE  ServerInv'
<1>1. sv.pc = "start" /\ UNCHANGED <<type, rndv, cl, chan, held>> /\ sv.conn = None
  BY DEF StartServer, ServerInv, ServeInv
<1>2. CASE Fail(TheServer) /\ ServerExit(None)
  BY <1>1, <1>2, ServerFails
<1>3. CASE sv' = [sv EXCEPT !.pc = "listen"] /\ UNCHANGED <<requests, cwire, seen>>
  <2>1. sv \in ServerState /\ StateTypes
    BY DEF ServerInv, StateTypes
  <2>2. /\ sv' \in ServerState /\ sv'.pc = "listen" /\ sv'.conn = None
        /\ sv'.complete = sv.complete /\ sv'.last = sv.last
    BY <1>1, <1>3, <2>1 DEF ServerState
  <2>3. \A d : Taken(d)' = Taken(d)
    BY <1>1, <2>2 DEF Taken
  <2>4. ASSUME NEW d \in Clients PROVE ClientOK(d)'
    <3>1. ClientOK(d) /\ d # None
      BY Before, NoneAssumption
    <3>2. ChanOK(d)' /\ SendOK(d)'
      BY <1>1, <1>3, <2>3, <3>1 DEF ClientOK, ChanOK, EventOK, SendOK, Sent
    <3>3. FinOK(d)' /\ FetchOK(d)'
      BY <1>1, <1>3, <2>2, <3>1 DEF ClientOK, FinOK, FetchOK, EndedWell
    <3>4. TroubleOK(d)' /\ PastOK(d)'
      BY <1>1, <1>3, <2>2, <3>1 DEF ClientOK, TroubleOK, PastOK, EndedWell, EndedBadly, Lost
    <3> QED
      BY <3>2, <3>3, <3>4 DEF ClientOK
  <2>5. StateTypes'
    BY <1>1, <1>3, <2>1, <2>2 DEF StateTypes
  <2>6. QueueInv'
    BY <1>1, <1>3, <2>2 DEF ServerInv, QueueInv
  <2>7. ServeInv'
    BY <1>1, <1>3, <2>2 DEF ServerInv, ServeInv, Serving
  <2>8. RefuseInv' /\ BufferInv' /\ HeldInOrder' /\ ServerExitExplained'
    BY <1>1, <1>3, <2>2 DEF ServerInv, RefuseInv, BufferInv, HeldInOrder, ServerExitExplained
  <2> QED
    BY <2>4, <2>5, <2>6, <2>7, <2>8 DEF ServerInv, ClientsInv
<1> QED
  BY <1>1, <1>2, <1>3 DEF StartServer

(* What a step that serves c leaves alone. *)
Serves(c) ==
    /\ StateTypes' /\ UNCHANGED <<type, rndv, cl, requests>>
    /\ sv'.conn \in {c, None} /\ sv'.pc # "exited"
    /\ \A d \in Clients \ {c} : chan'[d] = chan[d] /\ cwire'[d] = cwire[d] /\ held'[d] = held[d]
    /\ seen'.broken = seen.broken /\ seen'.refused = seen.refused

(* Such a step keeps the invariant if it keeps what is said of c and of    *)
(* the server.                                                             *)
LEMMA ServerFrame ==
    ASSUME ServerInv, NEW c \in Clients, sv.conn = c, Serving, Serves(c),
           ClientOK(c)', ServeInv', BufferInv', HeldInOrder'
    PROVE  ServerInv'
<1>1. \A d \in Clients \ {c} : sv.conn # d /\ sv'.conn # d
  BY NoneAssumption DEF Serves
<1>2. c \notin seen.refused /\ c # None
  BY NoneAssumption DEF ServerInv, ServeInv
<1>3. ASSUME NEW d \in Clients \ {c} PROVE ClientOK(d)'
  <2>1. ClientOK(d)
    BY DEF ServerInv, ClientsInv
  <2>2. Taken(d)' = Taken(d)
    BY <1>1 DEF Serves, Taken
  <2>3. ChanOK(d)'
    BY <2>1, <2>2 DEF Serves, ClientOK, ChanOK, EventOK
  <2>4. SendOK(d)'
    BY <2>1, <2>2 DEF Serves, ClientOK, SendOK, Sent
  <2>5. FinOK(d)' /\ FetchOK(d)'
    BY <1>1, <2>1 DEF Serves, ClientOK, FinOK, FetchOK, EndedWell
  <2>6. TroubleOK(d)' /\ PastOK(d)'
    BY <1>1, <2>1
       DEF Serves, Serving, ClientOK, TroubleOK, PastOK, EndedWell, EndedBadly, Lost
  <2> QED
    BY <2>3, <2>4, <2>5, <2>6 DEF ClientOK
<1>4. ClientsInv'
  BY <1>3 DEF ClientsInv
<1>5. QueueInv'
  <2>1. \A k \in 1..Len(requests) : requests[k] \in Clients \ {c}
    BY DEF ServerInv, StateTypes, Queues, QueueInv
  <2> QED
    BY <1>1, <2>1 DEF Serves, ServerInv, QueueInv
<1>6. RefuseInv'
  <2>1. seen.refused \subseteq Clients \ {c}
    BY <1>2 DEF ServerInv, StateTypes, History
  <2> QED
    BY <2>1 DEF Serves, ServerInv, RefuseInv
<1>7. ServerExitExplained'
  BY DEF Serves, ServerExitExplained
<1> QED
  BY <1>4, <1>5, <1>6, <1>7 DEF Serves, ServerInv

(* Receiving the first n events, all messages, leaves the others in order. *)
LEMMA ChanShift ==
    ASSUME ServerInv, NEW c \in Clients, NEW n \in Nat, cl' = cl,
           Len(chan'[c]) \in Nat, Len(chan'[c]) = Len(chan[c]) - n,
           \A k \in 1..Len(chan'[c]) : chan'[c][k] = chan[c][n + k],
           Taken(c)' = Taken(c) + n
    PROVE  ChanOK(c)' /\ Sent(c)' = Sent(c)
<1>1. Len(chan[c]) \in Nat /\ Taken(c) \in Int /\ ClientOK(c)
  BY Before
<1>2. Sent(c)' = Sent(c)
  BY <1>1 DEF Sent
<1>3. ASSUME NEW k \in 1..Len(chan'[c]) PROVE EventOK(c, k)'
  <2>1. n + k \in 1..Len(chan[c])
    BY <1>1
  <2>2. EventOK(c, n + k)
    BY <1>1, <2>1 DEF ClientOK, ChanOK
  <2>3. Taken(c)' + k = Taken(c) + (n + k) /\ (n + k = Len(chan[c]) <=> k = Len(chan'[c]))
    BY <1>1
  <2>4. chan'[c][k] = chan[c][n + k]
    OBVIOUS
  <2> HIDE DEF EventOK
  <2> QED
    BY <2>2, <2>3, <2>4 DEF EventOK
<1> QED
  BY <1>2, <1>3 DEF ChanOK

(* The client that is served. *)
LEMMA Served ==
    ASSUME ServerInv, Serving
    PROVE  /\ sv.conn \in Clients /\ sv.conn # None /\ cl[sv.conn].pc # "new"
           /\ sv.conn \notin seen.refused
           /\ sv.i \in Nat /\ sv.complete \in Nat /\ sv.last \in Nat /\ sv.buf \in Events
           /\ sv \in ServerState /\ seen \in History
           /\ Taken(sv.conn) = Len(held[sv.conn]) + (sv.complete - sv.last)
<1>1. sv.conn \in Clients
  BY DEF ServerInv, ServeInv
<1>2. /\ sv.conn # None /\ cl[sv.conn].pc # "new" /\ sv.conn \notin seen.refused
  BY <1>1, NoneAssumption DEF ServerInv, ServeInv
<1>3. /\ sv.i \in Nat /\ sv.complete \in Nat /\ sv.last \in Nat /\ sv.buf \in Events
      /\ sv \in ServerState /\ seen \in History
  BY DEF ServerInv, StateTypes, ServerState
<1>4. Taken(sv.conn) = Len(held[sv.conn]) + (sv.complete - sv.last)
  BY DEF Taken
<1> QED
  BY <1>1, <1>2, <1>3, <1>4

(* Before its FIN is sent, the client that is served does not end unless   *)
(* it dies or a call fails in it.                                          *)
LEMMA EndMeansLost ==
    ASSUME ServerInv, Serving, ~Up(sv.conn),
           sv.pc \in {"next", "recv", "fin"} \/ ~EndedWell(sv.conn)
    PROVE  Lost(sv.conn) /\ sv.conn # None
<1>1. PICK c \in Clients : c = sv.conn /\ c # None
  BY Served
<1>2. cl[c].pc # "new" /\ c \notin seen.refused
  BY <1>1, Served
<1>3. ClientOK(c) /\ cl[c].ret \in {0, 1} /\ cl[c].pc \in {"done", "dead"}
  BY <1>1, <1>2, Before DEF ClientState, Up
<1>4. ~EndedWell(c)
  BY <1>1, <1>3 DEF ClientOK, FinOK
<1>5. EndedBadly(c) \/ cl[c].pc = "dead"
  BY <1>3, <1>4 DEF EndedWell, EndedBadly
<1> QED
  BY <1>1, <1>2, <1>3, <1>5 DEF ClientOK, TroubleOK, Lost, Serving

(* A stream without events. *)
LEMMA EmptyStream == ASSUME NEW s \in Streams, Len(s) = 0 PROVE s = <<>>
  BY DEF Streams

(* The first event of the client that is served. *)
LEMMA FirstEvent ==
    ASSUME ServerInv, NEW c \in Clients, chan[c] # <<>>
    PROVE  /\ Head(chan[c]) = chan[c][1] /\ 1 \in 1..Len(chan[c]) /\ EventOK(c, 1)
           /\ Tail(chan[c]) \in Streams /\ Len(Tail(chan[c])) = Len(chan[c]) - 1
           /\ Len(Tail(chan[c])) \in Nat
           /\ \A k \in 1..Len(Tail(chan[c])) : Tail(chan[c])[k] = chan[c][1 + k]
           /\ Head(chan[c]) = Down => Tail(chan[c]) = <<>> /\ ~Up(c)
<1>1. chan[c] \in Streams /\ ClientOK(c)
  BY Before
<1>2. /\ Head(chan[c]) = chan[c][1] /\ Tail(chan[c]) \in Streams
      /\ Len(chan[c]) \in Nat \ {0} /\ Len(Tail(chan[c])) = Len(chan[c]) - 1
      /\ \A k \in 1..Len(Tail(chan[c])) : Tail(chan[c])[k] = chan[c][k + 1]
  BY <1>1, TakeOne
<1>3. 1 \in 1..Len(chan[c]) /\ Len(Tail(chan[c])) \in Nat
  BY <1>2
<1>4. EventOK(c, 1)
  BY <1>1, <1>3 DEF ClientOK, ChanOK
<1>5. ASSUME Head(chan[c]) = Down PROVE Tail(chan[c]) = <<>> /\ ~Up(c)
  <2>1. Taken(c) + 1 \in Int
    BY Before
  <2>2. 1 = Len(chan[c]) /\ cl[c].pc \in {"done", "dead"}
    BY <1>2, <1>4, <1>5, <2>1, EventKinds DEF EventOK
  <2>3. Len(Tail(chan[c])) = 0
    BY <1>2, <2>2
  <2>4. Tail(chan[c]) = <<>>
    BY <1>2, <2>3, EmptyStream
  <2> QED
    BY <2>2, <2>4 DEF Up
<1>6. \A k \in 1..Len(Tail(chan[c])) : Tail(chan[c])[k] = chan[c][1 + k]
  BY <1>2
<1> QED
  BY <1>2, <1>3, <1>4, <1>5, <1>6

(* Ending an iteration. *)
LEMMA IterationState ==
    ASSUME NEW s \in ServerState
    PROVE  /\ IterationDone(s) \in ServerState
           /\ IterationDone(s).i = s.i + 1 /\ s.i \in Nat
           /\ IterationDone(s).conn = s.conn /\ IterationDone(s).closed = s.closed
           /\ IterationDone(s).complete = s.complete /\ IterationDone(s).last = s.last
           /\ IterationDone(s).pc = "next"
<1> DEFINE n == s.i + 1
<1>1. IterationDone(s) = [s EXCEPT !.i = n, !.pc = "next"]
  BY DEF IterationDone, ServerState
<1>2. s.i \in Nat /\ n \in Nat
  BY DEF ServerState
<1> HIDE DEF n
<1>3. LET q == [s EXCEPT !.i = n, !.pc = "next"]
      IN  q \in ServerState /\ q.i = n /\ q.conn = s.conn /\ q.complete = s.complete
          /\ q.last = s.last /\ q.pc = "next" /\ q.closed = s.closed
  BY <1>2 DEF ServerState
<1> QED
  BY <1>1, <1>2, <1>3 DEF n

(* A server step that puts v, s, w and h in the place of its state and of  *)
(* what is between it and c.                                               *)
Puts(c, v, s, w, h) ==
    /\ sv' = v /\ chan' = [chan EXCEPT ![c] = s] /\ cwire' = [cwire EXCEPT ![c] = w]
    /\ held' = [held EXCEPT ![c] = h]
    /\ UNCHANGED <<type, rndv, cl, requests>>
    /\ v \in ServerState /\ s \in Streams /\ w \in Streams /\ h \in Streams
    /\ v.conn \in {c, None} /\ v.pc # "exited"
    /\ seen' \in History /\ seen'.broken = seen.broken /\ seen'.refused = seen.refused

(* Such a step changes nothing else. *)
LEMMA ServesOf ==
    ASSUME StateTypes, NEW c \in Clients, NEW v, NEW s, NEW w, NEW h, Puts(c, v, s, w, h)
    PROVE  Serves(c) /\ sv' = v /\ chan'[c] = s /\ cwire'[c] = w /\ held'[c] = h /\ cl' = cl
<1>1. chan'[c] = s /\ cwire'[c] = w /\ held'[c] = h
  BY DEF StateTypes, Puts
<1>2. \A d \in Clients \ {c} : chan'[d] = chan[d] /\ cwire'[d] = cwire[d] /\ held'[d] = held[d]
  BY DEF StateTypes, Puts
<1>3. chan' \in [Clients -> Streams] /\ cwire' \in [Clients -> Streams] /\ held' \in [Clients -> Streams]
  BY DEF StateTypes, Puts
<1>4. StateTypes'
  BY <1>3 DEF StateTypes, Puts
<1> QED
  BY <1>1, <1>2, <1>4 DEF Serves, Puts

(* The acknowledgement of a rendezvous message. *)
LEMMA FetchedWire ==
    ASSUME ServerInv, NEW c \in Clients, Fetched(c)
    PROVE  \E w \in Streams : /\ cwire' = [cwire EXCEPT ![c] = w]
                              /\ Has(w, Fin) => Has(cwire[c], Fin)
                              /\ Has(w, Down) => Has(cwire[c], Down)
<1>1. cwire[c] \in Streams /\ cwire = [cwire EXCEPT ![c] = cwire[c]]
  BY Before
<1> DEFINE a == Append(cwire[c], Ack)
<1>2. a \in Streams /\ (Has(a, Fin) => Has(cwire[c], Fin)) /\ (Has(a, Down) => Has(cwire[c], Down))
  BY <1>1, AppendOne, EventKinds
<1>3. cwire' = [cwire EXCEPT ![c] = a] \/ cwire' = [cwire EXCEPT ![c] = cwire[c]]
  BY <1>1 DEF Fetched
<1> HIDE DEF a
<1> QED
  BY <1>1, <1>2, <1>3

(* The end of an iteration in which the server has message m of c. *)
LEMMA IterationStep ==
    ASSUME ServerInv, sv.pc = "recv", NEW c \in Clients, c = sv.conn, NEW m \in Events,
           m = Msg(Len(held[c]) + 1) \/ (type = "am" /\ c \in seen.merged),
           NEW v, NEW s, NEW w, Puts(c, v, s, w, Append(held[c], m)), seen' = seen,
           v.conn = c, v.i = sv.i + 1, v.complete \in Nat, v.last \in Nat,
           v.pc = "next", v.closed = sv.closed,
           Has(w, Fin) => Has(cwire[c], Fin), Has(w, Down) => Has(cwire[c], Down),
           ChanOK(c)', Sent(c)' = Sent(c), v.complete >= v.last,
           Taken(c)' <= NumIterations, type # "am" => v.complete = v.last,
           v.complete # v.last => c \in seen.merged
    PROVE  ServerInv'
<1> DEFINE h == Append(held[c], m)
<1>1. /\ Serves(c) /\ sv' = v /\ chan'[c] = s /\ cwire'[c] = w /\ held'[c] = h /\ cl' = cl
      /\ type' = type /\ rndv' = rndv
  <2>1. StateTypes /\ Puts(c, v, s, w, h)
    BY DEF ServerInv
  <2> HIDE DEF h
  <2>2. Serves(c) /\ sv' = v /\ chan'[c] = s /\ cwire'[c] = w /\ held'[c] = h /\ cl' = cl
    BY <2>1, ServesOf
  <2> QED
    BY <2>2 DEF Serves
<1>2. /\ Len(held[c]) \in Nat /\ held[c] \in Streams /\ ClientOK(c) /\ NumIterations \in Nat
      /\ cl[c] \in ClientState
  BY Before
<1>3. /\ Len(h) = Len(held[c]) + 1 /\ h[Len(held[c]) + 1] = m
      /\ \A k \in 1..Len(held[c]) : h[k] = held[c][k]
  BY <1>2, AppendOne
<1>4. /\ sv.i = Len(held[c]) /\ sv.i < NumIterations /\ cl[c].pc # "new" /\ c \notin seen.refused
      /\ sv.i \in Nat /\ c # None
  BY Served DEF ServerInv, ServeInv, Serving
<1> HIDE DEF h
<1>5. Taken(c)' = Len(h) + (v.complete - v.last)
  BY <1>1 DEF Taken
<1>6. ServeInv'
  <2>1. v.i = Len(h) /\ v.conn \in Clients /\ v.conn # None
    BY <1>2, <1>3, <1>4
  <2>2. v.closed => ~Up(c)
    BY DEF ServerInv, ServeInv, Serving
  <2>3. Taken(sv.conn)' = Taken(c)'
    BY <1>1 DEF Taken
  <2>4. seen' = seen /\ Up(c)' = Up(c)
    BY <1>1 DEF Up
  <2> QED
    BY <1>1, <1>4, <2>1, <2>2, <2>3, <2>4 DEF ServeInv, Serving
<1>7. ClientOK(c)'
  <2>1. ~(Has(cwire[c], Fin) \/ cl[c].fin \/ EndedWell(c))
    BY <1>2 DEF ClientOK, FinOK
  <2>2. FinOK(c)' /\ FetchOK(c)'
    BY <1>1, <2>1 DEF FinOK, FetchOK, EndedWell
  <2>3. SendOK(c)'
    BY <1>1, <1>2, <1>4 DEF ClientOK, SendOK
  <2>4. TroubleOK(c)' /\ PastOK(c)'
    BY <1>1, <1>2 DEF ClientOK, TroubleOK, PastOK, EndedBadly
  <2> QED
    BY <2>2, <2>3, <2>4 DEF ClientOK
<1>8. BufferInv'
  <2>1. c \notin seen.merged => v.complete - v.last = 0
    OBVIOUS
  <2> QED
    BY <1>1, <2>1 DEF BufferInv
<1>9. HeldInOrder'
  <2>1. ASSUME NEW d \in Clients, NEW k \in DOMAIN held'[d]
        PROVE  held'[d][k] = Msg(k) \/ (type' = "am" /\ d \in seen'.merged)
    <3>1. CASE d # c
      BY <1>1, <2>1, <3>1 DEF Serves, ServerInv, HeldInOrder
    <3>2. CASE d = c /\ k \in 1..Len(held[c])
      <4>1. DOMAIN held[c] = 1..Len(held[c])
        BY <1>2 DEF Streams
      <4>2. held[c][k] = Msg(k) \/ (type = "am" /\ c \in seen.merged)
        BY <3>2, <4>1 DEF ServerInv, HeldInOrder
      <4> QED
        BY <1>1, <1>3, <3>2, <4>2
    <3>3. CASE d = c /\ k = Len(held[c]) + 1
      BY <1>1, <1>3, <3>3
    <3>4. d = c => k \in 1..(Len(held[c]) + 1)
      <4>1. h \in Streams
        BY DEF Puts, h
      <4>2. DOMAIN h = 1..Len(h)
        BY <4>1 DEF Streams
      <4> QED
        BY <1>1, <1>3, <2>1, <4>2
    <3> QED
      BY <1>2, <3>1, <3>2, <3>3, <3>4
  <2> QED
    BY <2>1 DEF HeldInOrder
<1> QED
  BY <1>1, <1>6, <1>7, <1>8, <1>9, ServerFrame DEF Serving

(* A step of the server between receives that leaves Taken and the channel *)
(* of c alone, or empties the channel after the end of c.                  *)
LEMMA PlainStep ==
    ASSUME ServerInv, Serving, NEW c \in Clients, c = sv.conn, NEW v, NEW s, NEW w,
           Puts(c, v, s, w, held[c]), ServeInv', BufferInv', seen'.merged = seen.merged,
           s = chan[c] \/ (s = <<>> /\ cl[c].pc \in {"done", "dead"}),
           v.conn = c, v.complete - v.last = sv.complete - sv.last, FinOK(c)', FetchOK(c)',
           Has(w, Down) => Has(cwire[c], Down)
    PROVE  ServerInv'
<1>1. /\ Serves(c) /\ sv' = v /\ chan'[c] = s /\ cwire'[c] = w /\ held'[c] = held[c] /\ cl' = cl
  BY ServesOf DEF ServerInv
<1>2. ClientOK(c) /\ type' = type
  BY <1>1, Before DEF Serves
<1>3. Taken(c)' = Taken(c)
  BY <1>1 DEF Taken
<1>4. ChanOK(c)'
  <2>1. CASE s = chan[c]
    BY <1>1, <1>2, <1>3, <2>1 DEF ClientOK, ChanOK, EventOK
  <2>2. CASE s = <<>>
    BY <1>1, <2>2 DEF ChanOK
  <2> QED
    BY <2>1, <2>2
<1>5. SendOK(c)'
  BY <1>1, <1>2, <1>3 DEF ClientOK, SendOK, Sent
<1>6. TroubleOK(c)' /\ PastOK(c)'
  BY <1>1, <1>2 DEF Serves, Serving, ClientOK, TroubleOK, PastOK, EndedBadly
<1>7. HeldInOrder'
  <2>1. \A d \in Clients : held'[d] = held[d]
    BY <1>1 DEF Serves
  <2> QED
    BY <1>2, <2>1 DEF ServerInv, HeldInOrder
<1> QED
  BY <1>1, <1>4, <1>5, <1>6, <1>7, ServerFrame DEF ClientOK

(* send_recv_stream and send_recv_tag of the server. *)
LEMMA RecvStep ==
    ASSUME ServerInv, Recv
    PROVE  ServerInv'
<1>1. PICK c \in Clients : c = sv.conn
  BY Served DEF Recv, Serving
<1> DEFINE e == Head(chan[c])
           s == Tail(chan[c])
<1>2. /\ sv.pc = "recv" /\ type # "am" /\ chan[c] # <<>>
      /\ UNCHANGED <<type, rndv, cl, seen>> /\ Serving
  BY <1>1 DEF Recv, Serving
<1>3. /\ e = chan[c][1] /\ EventOK(c, 1) /\ s \in Streams /\ Len(s) = Len(chan[c]) - 1
      /\ Len(s) \in Nat
      /\ \A k \in 1..Len(s) : s[k] = chan[c][1 + k]
      /\ e = Down => s = <<>> /\ ~Up(c)
  BY <1>2, FirstEvent
<1>4. /\ sv \in ServerState /\ seen \in History /\ sv.complete = sv.last /\ cl[c].pc # "new"
      /\ Taken(c) = Len(held[c]) + (sv.complete - sv.last) /\ sv.complete \in Nat /\ sv.last \in Nat
  BY <1>1, <1>2, Served DEF ServerInv, ServeInv
<1>5. /\ ClientOK(c) /\ Len(held[c]) \in Nat /\ held[c] \in Streams /\ Taken(c) \in Int
      /\ requests \in Queues /\ NumIterations \in Nat /\ cwire[c] \in Streams
      /\ cwire = [cwire EXCEPT ![c] = cwire[c]] /\ held = [held EXCEPT ![c] = held[c]]
      /\ StateTypes
  BY Before, SameAt DEF ServerInv, StateTypes
<1>6. Taken(c) = Len(held[c])
  BY <1>4, <1>5
<1> HIDE DEF e, s
<1>7. CASE /\ e # Down /\ chan' = [chan EXCEPT ![c] = s] /\ Keep(c, e) /\ Fetched(c) 
           /\ sv' = IterationDone(sv) /\ requests' = requests
  <2>1. e = Msg(Len(held[c]) + 1) /\ Taken(c) + 1 <= NumIterations
    <3>1. ~EndedWell(c)
      BY <1>1, <1>2, <1>5 DEF ClientOK, FinOK
    <3> QED
      BY <1>3, <1>6, <1>7, <3>1 DEF EventOK, EndedWell
  <2>2. e \in Events
    BY <1>5, <2>1, EventKinds
  <2>3. PICK w \in Streams : /\ cwire' = [cwire EXCEPT ![c] = w]
                             /\ Has(w, Fin) => Has(cwire[c], Fin)
                             /\ Has(w, Down) => Has(cwire[c], Down)
    BY <1>7, FetchedWire
  <2> DEFINE v == IterationDone(sv)
             h == Append(held[c], e)
  <2>4. /\ v \in ServerState /\ v.i = sv.i + 1 /\ v.conn = sv.conn /\ v.complete = sv.complete
        /\ v.last = sv.last /\ v.pc = "next" /\ v.closed = sv.closed
    BY <1>4, IterationState
  <2>5. h \in Streams /\ Len(h) = Len(held[c]) + 1
    BY <1>5, <2>2, AppendOne
  <2>6. sv' = v /\ held' = [held EXCEPT ![c] = h]
    BY <1>7 DEF Keep
  <2> HIDE DEF v, h
  <2>7. Puts(c, v, s, w, h)
    BY <1>1, <1>2, <1>3, <1>4, <1>5, <1>7, <2>3, <2>4, <2>5, <2>6 DEF Puts
  <2>8. Serves(c) /\ chan'[c] = s /\ held'[c] = h
    BY <1>5, <2>7, ServesOf
  <2>9. Taken(c)' = Taken(c) + 1
    BY <1>1, <1>4, <1>5, <1>6, <2>4, <2>5, <2>6, <2>8 DEF Taken
  <2>10. ChanOK(c)' /\ Sent(c)' = Sent(c)
    BY <1>2, <1>3, <2>8, <2>9, ChanShift
  <2>11. /\ v.complete \in Nat /\ v.last \in Nat /\ v.complete = v.last /\ v.complete >= v.last
         /\ Taken(c)' <= NumIterations
    BY <1>4, <2>1, <2>4, <2>9
  <2>12. Puts(c, v, s, w, Append(held[c], e)) /\ seen' = seen
    BY <1>2, <2>7 DEF h
  <2> QED
    BY <1>1, <1>2, <2>1, <2>2, <2>3, <2>4, <2>10, <2>11, <2>12, IterationStep
<1>8. CASE /\ e = Down /\ chan' = [chan EXCEPT ![c] = s] /\ sv' = [sv EXCEPT !.closed = TRUE]
           /\ UNCHANGED <<held, cwire, requests>>
  <2> DEFINE v == [sv EXCEPT !.closed = TRUE]
  <2>1. /\ v \in ServerState /\ v.i = sv.i /\ v.conn = sv.conn /\ v.complete = sv.complete
        /\ v.last = sv.last /\ v.pc = sv.pc /\ v.buf = sv.buf
    BY <1>4 DEF ServerState
  <2>2. sv' = v
    BY <1>8
  <2> HIDE DEF v
  <2>3. Puts(c, v, s, cwire[c], held[c])
    BY <1>1, <1>2, <1>3, <1>4, <1>5, <1>8, <2>1, <2>2 DEF Puts
  <2>4. Serves(c) /\ chan'[c] = s /\ held'[c] = held[c] /\ cwire'[c] = cwire[c] /\ cl' = cl
    BY <1>5, <2>3, ServesOf
  <2>5. s = <<>> /\ cl[c].pc \in {"done", "dead"}
    BY <1>3, <1>4, <1>8 DEF Up
  <2>6. Taken(sv.conn)' = Taken(sv.conn)
    BY <1>1, <2>1, <2>2, <2>4 DEF Taken
  <2>7. ServeInv' /\ BufferInv'
    <3>1. ~Up(c)' /\ sv'.conn = c /\ sv'.pc = "recv"
      BY <1>1, <1>2, <2>1, <2>2, <2>4, <2>5 DEF Up
    <3> QED
      BY <1>1, <1>2, <1>8, <2>1, <2>2, <2>6, <3>1 DEF ServerInv, ServeInv, Serving, BufferInv
  <2>8. FinOK(c)' /\ FetchOK(c)'
    BY <1>2, <1>5, <2>1, <2>2, <2>4 DEF ClientOK, FinOK, FetchOK, EndedWell
  <2>9. v.complete - v.last = sv.complete - sv.last /\ v.conn = c /\ seen'.merged = seen.merged
    BY <1>1, <1>2, <2>1
  <2> QED
    BY <1>1, <1>2, <2>3, <2>5, <2>7, <2>8, <2>9, PlainStep
<1>9. CASE ~Up(c) /\ ServerExit(c) /\ UNCHANGED <<chan, held>>
  BY <1>1, <1>2, <1>9, EndMeansLost, ServerLeft
<1> QED
  BY <1>1, <1>2, <1>3, <1>7, <1>8, <1>9 DEF Recv, FetchFails, e, s

(* A message more is held and one less waits. *)
LEMMA OneMore == \A h, k, j \in Nat : (h + 1) + (k - (j + 1)) = h + (k - j)
  OBVIOUS

(* The end of send_recv_am of the server. *)
LEMMA TakeAmStep ==
    ASSUME ServerInv, TakeAm
    PROVE  ServerInv'
<1>1. PICK c \in Clients : c = sv.conn
  BY Served DEF TakeAm, Serving
<1>2. /\ sv.pc = "recv" /\ type = "am" /\ sv.last # sv.complete /\ Serving
       /\ UNCHANGED <<type, rndv, cl, chan, seen>>
  BY DEF TakeAm, Serving
<1>3. CASE FetchFails(c) /\ held' = held
  BY <1>1, <1>2, <1>3, EndMeansLost, ServerLeft DEF FetchFails
<1>4. SUFFICES ASSUME Keep(c, sv.buf), Fetched(c), requests' = requests,
                       sv' = [IterationDone(sv) EXCEPT !.last = @ + 1]
                PROVE  ServerInv'
  BY <1>1, <1>3 DEF TakeAm
<1>5. /\ sv.pc = "recv" /\ type = "am" /\ sv.last # sv.complete /\ Keep(c, sv.buf) /\ Fetched(c)
      /\ sv' = [IterationDone(sv) EXCEPT !.last = @ + 1] /\ Serving
      /\ UNCHANGED <<type, rndv, requests, cl, chan, seen>>
  BY <1>2, <1>4
<1>6. /\ sv \in ServerState /\ seen \in History /\ sv.complete >= sv.last /\ sv.buf \in Events
      /\ Taken(c) = Len(held[c]) + (sv.complete - sv.last) /\ sv.complete \in Nat /\ sv.last \in Nat
      /\ Taken(c) <= NumIterations
  BY <1>1, <1>5, Served DEF ServerInv, ServeInv
<1>7. /\ Len(held[c]) \in Nat /\ held[c] \in Streams /\ chan[c] \in Streams /\ Len(chan[c]) \in Nat
      /\ requests \in Queues /\ chan = [chan EXCEPT ![c] = chan[c]] /\ StateTypes
  BY Before DEF ServerInv
<1>8. PICK w \in Streams : /\ cwire' = [cwire EXCEPT ![c] = w]
                           /\ Has(w, Fin) => Has(cwire[c], Fin)
                           /\ Has(w, Down) => Has(cwire[c], Down)
  BY <1>5, FetchedWire
<1> DEFINE u == IterationDone(sv)
           v == [u EXCEPT !.last = u.last + 1]
           h == Append(held[c], sv.buf)
<1>9. /\ u \in ServerState /\ u.i = sv.i + 1 /\ u.conn = sv.conn /\ u.complete = sv.complete
      /\ u.last = sv.last /\ u.pc = "next" /\ u.closed = sv.closed
  BY <1>6, IterationState
<1>10. sv' = v /\ held' = [held EXCEPT ![c] = h]
  <2>1. sv' = [u EXCEPT !.last = @ + 1]
    BY <1>5
  <2> HIDE DEF u
  <2> QED
    BY <1>5, <1>9, <2>1 DEF Keep, ServerState
<1>11. h \in Streams /\ Len(h) = Len(held[c]) + 1
  BY <1>6, <1>7, AppendOne
<1> HIDE DEF u, h
<1>12. /\ v \in ServerState /\ v.i = u.i /\ v.conn = u.conn /\ v.complete = u.complete
      /\ v.last = u.last + 1 /\ v.pc = u.pc /\ v.closed = u.closed
  BY <1>9 DEF ServerState
<1> HIDE DEF v
<1>13. Puts(c, v, chan[c], w, h)
  BY <1>1, <1>5, <1>6, <1>7, <1>8, <1>9, <1>10, <1>11, <1>12 DEF Puts
<1>14. Serves(c) /\ chan'[c] = chan[c] /\ held'[c] = h
  BY <1>7, <1>13, ServesOf
<1>15. Taken(c)' = Taken(c) + 0 /\ Taken(c)' <= NumIterations
  <2>1. Taken(c)' = Len(h) + (v.complete - v.last)
    BY <1>1, <1>9, <1>10, <1>12, <1>14 DEF Taken
  <2> QED
    <3>1. v.complete = sv.complete /\ v.last = sv.last + 1
      BY <1>9, <1>12
    <3>2. Taken(c)' = Taken(c)
      <4>1. Taken(c)' = (Len(held[c]) + 1) + (sv.complete - (sv.last + 1))
        BY <1>11, <2>1, <3>1
      <4>2. Taken(c) = Len(held[c]) + (sv.complete - sv.last)
        BY <1>6
      <4>3. Len(held[c]) \in Nat /\ sv.complete \in Nat /\ sv.last \in Nat
        BY <1>6, <1>7
      <4> QED
        BY <4>1, <4>2, <4>3, OneMore
    <3>3. Taken(c) \in Int /\ Taken(c) <= NumIterations
      BY <1>6, <1>7
    <3> QED
      BY <3>2, <3>3
<1>16. ChanOK(c)' /\ Sent(c)' = Sent(c)
  <2>1. \A k \in 1..Len(chan'[c]) : chan'[c][k] = chan[c][0 + k]
    BY <1>7, <1>14
  <2> QED
    BY <1>5, <1>7, <1>14, <1>15, <2>1, ChanShift
<1>17. c \in seen.merged \/ (sv.buf = Msg(Len(held[c]) + 1) /\ sv.complete - sv.last = 1)
  BY <1>1, <1>5, <1>6 DEF ServerInv, BufferInv
<1>18. /\ v.complete \in Nat /\ v.last \in Nat /\ v.complete >= v.last
       /\ v.complete # v.last => c \in seen.merged
  BY <1>5, <1>6, <1>9, <1>12, <1>17
<1>19. Puts(c, v, chan[c], w, Append(held[c], sv.buf)) /\ seen' = seen
  BY <1>5, <1>13 DEF h
<1> QED
  BY <1>1, <1>5, <1>6, <1>8, <1>9, <1>12, <1>15, <1>16, <1>17, <1>18, <1>19, IterationStep

(* ucp_am_data_cb and err_cb, for the events of one progress call. *)
LEMMA RecvAmStep ==
    ASSUME ServerInv, RecvAm
    PROVE  ServerInv'
<1>1. PICK c \in Clients : c = sv.conn
  BY Served DEF RecvAm, Serving
<1>2. /\ sv.pc = "recv" /\ type = "am" /\ sv.last = sv.complete /\ chan[c] # <<>>
      /\ UNCHANGED <<type, rndv, requests, cl, cwire, held>> /\ Serving
  BY <1>1 DEF RecvAm, Serving
<1>3. PICK n \in Handled(chan[c]) :
         LET events == First(chan[c], n)
             msgs == IF events[n] = Down THEN n - 1 ELSE n
         IN  /\ chan' = [chan EXCEPT ![c] = Rest(@, n)]
             /\ sv' = [sv EXCEPT !.complete = @ + msgs,
                                 !.buf = IF msgs = 0 THEN @ ELSE events[msgs],
                                 !.closed = @ \/ Has(events, Down)]
             /\ seen' = IF msgs > 1 THEN [seen EXCEPT !.merged = @ \union {c}] ELSE seen
  BY <1>1 DEF RecvAm
<1> DEFINE events == First(chan[c], n)
           m == IF events[n] = Down THEN n - 1 ELSE n
           s == Rest(chan[c], n)
           b == IF m = 0 THEN sv.buf ELSE events[m]
           x == sv.closed \/ Has(events, Down)
           v == [sv EXCEPT !.complete = sv.complete + m, !.buf = b, !.closed = x]
<1>4. /\ sv \in ServerState /\ seen \in History /\ sv.complete \in Nat /\ sv.last \in Nat
      /\ Taken(c) = Len(held[c]) + (sv.complete - sv.last) /\ cl[c].pc # "new"
      /\ sv.buf \in Events /\ sv.i = Len(held[c]) /\ sv.i < NumIterations /\ sv.closed \in BOOLEAN
      /\ c \notin seen.refused
  BY <1>1, <1>2, Served DEF ServerInv, ServeInv, ServerState
<1>5. /\ ClientOK(c) /\ Len(held[c]) \in Nat /\ held[c] \in Streams /\ chan[c] \in Streams
      /\ cwire[c] \in Streams /\ requests \in Queues /\ NumIterations \in Nat
      /\ cwire = [cwire EXCEPT ![c] = cwire[c]] /\ held = [held EXCEPT ![c] = held[c]] /\ StateTypes
  BY Before, SameAt DEF ServerInv, StateTypes
<1>6. /\ Len(chan[c]) \in Nat /\ n \in 1..Len(chan[c]) /\ n \in Nat \ {0}
      /\ s \in Streams /\ Len(s) = Len(chan[c]) - n /\ Len(s) \in Nat
      /\ \A k \in 1..Len(s) : s[k] = chan[c][n + k]
      /\ \A k \in 1..n : events[k] = chan[c][k]
  BY <1>2, <1>5, TakeSome DEF Streams
<1>7. Taken(c) = Len(held[c])
  BY <1>2, <1>4, <1>5
<1>8. ASSUME NEW k \in 1..Len(chan[c])
      PROVE  \/ chan[c][k] = Msg(Taken(c) + k) /\ Taken(c) + k <= NumIterations /\ chan[c][k] # Down
             \/ chan[c][k] = Down /\ k = Len(chan[c]) /\ cl[c].pc \in {"done", "dead"}
  <2>1. EventOK(c, k) /\ ~EndedWell(c)
    BY <1>1, <1>2, <1>5 DEF ClientOK, ChanOK, FinOK
  <2>2. Taken(c) + k \in Int
    BY <1>5, <1>6, <1>7
  <2> QED
    BY <2>1, <2>2, EventKinds DEF EventOK, EndedWell
<1>9. \/ m = n /\ chan[c][n] = Msg(Taken(c) + n) /\ Taken(c) + n <= NumIterations
      \/ m = n - 1 /\ n = Len(chan[c]) /\ cl[c].pc \in {"done", "dead"}
  BY <1>6, <1>8
<1>10. /\ m \in Nat /\ m <= n
       /\ m # 0 => /\ events[m] = Msg(Taken(c) + m) /\ Taken(c) + m <= NumIterations
  <2>1. m \in Nat /\ m <= n
    BY <1>6
  <2>2. ASSUME m # 0 PROVE m \in 1..Len(chan[c]) /\ events[m] = chan[c][m]
    BY <1>6, <2>1, <2>2
  <2>3. m = n - 1 /\ n = Len(chan[c]) => m # Len(chan[c])
    BY <1>6
  <2> HIDE DEF m, events
  <2> QED
    BY <1>8, <1>9, <2>1, <2>2, <2>3
<1>11. b \in Events /\ x \in BOOLEAN
  <2>1. m # 0 => Msg(Taken(c) + m) \in Events
    BY <1>5, <1>7, <1>10, EventKinds
  <2> QED
    BY <1>4, <1>10, <2>1 DEF Has
<1>12. /\ sv' = v /\ chan' = [chan EXCEPT ![c] = s]
       /\ seen' = IF m > 1 THEN [seen EXCEPT !.merged = @ \union {c}] ELSE seen
  BY <1>3, <1>4 DEF ServerState
<1>13. m # 0 => b = Msg(Taken(c) + m)
  BY <1>10
<1>14. Has(events, Down) => ~Up(c)
  <2>1. ASSUME Has(events, Down) PROVE \E k \in 1..Len(chan[c]) : chan[c][k] = Down
    <3>1. Has(chan[c], Down)
      BY <1>2, <1>5, <2>1, TakeSome DEF Streams
    <3>2. DOMAIN chan[c] = 1..Len(chan[c])
      BY <1>5 DEF Streams
    <3> QED
      BY <3>1, <3>2 DEF Has
  <2> QED
    BY <1>8, <2>1 DEF Up
<1>15. x => sv.closed \/ ~Up(c)
  BY <1>14
<1> HIDE DEF m, s, b, x, events
<1>16. /\ v \in ServerState /\ v.i = sv.i /\ v.conn = sv.conn /\ v.complete = sv.complete + m
       /\ v.last = sv.last /\ v.pc = sv.pc /\ v.buf = b /\ v.closed = x
  <2> DEFINE y == sv.complete + m
  <2>1. y \in Nat
    BY <1>4, <1>10
  <2> HIDE DEF y
  <2>2. LET q == [sv EXCEPT !.complete = y, !.buf = b, !.closed = x]
        IN  /\ q \in ServerState /\ q.i = sv.i /\ q.conn = sv.conn /\ q.complete = y
            /\ q.last = sv.last /\ q.pc = sv.pc /\ q.buf = b /\ q.closed = x
    BY <1>4, <1>11, <2>1 DEF ServerState
  <2> QED
    BY <2>2 DEF y
<1> HIDE DEF v
<1>17. v.closed => sv.closed \/ ~Up(c)
  BY <1>15, <1>16
<1>18. /\ seen' \in History /\ seen'.broken = seen.broken /\ seen'.refused = seen.refused
       /\ seen.merged \subseteq seen'.merged
       /\ m > 1 => c \in seen'.merged
  BY <1>4, <1>12 DEF History
<1>19. Puts(c, v, s, cwire[c], held[c])
  BY <1>1, <1>2, <1>5, <1>6, <1>12, <1>16, <1>18 DEF Puts
<1>20. Serves(c) /\ chan'[c] = s /\ held'[c] = held[c] /\ cwire'[c] = cwire[c] /\ cl' = cl
  BY <1>5, <1>19, ServesOf
<1>21. Taken(c)' = Taken(c) + m /\ Taken(c)' <= NumIterations
  BY <1>1, <1>2, <1>4, <1>5, <1>7, <1>10, <1>12, <1>16, <1>20 DEF Taken
<1>22. ChanOK(c)' /\ SendOK(c)'
  <2>1. CASE m = n
    <3>1. ChanOK(c)' /\ Sent(c)' = Sent(c)
      BY <1>6, <1>10, <1>20, <1>21, <2>1, ChanShift
    <3> QED
      BY <1>4, <1>5, <1>20, <3>1 DEF ClientOK, SendOK
  <2>2. CASE n = Len(chan[c]) /\ cl[c].pc \in {"done", "dead"}
    <3>1. Len(chan'[c]) = 0
      BY <1>6, <1>20, <2>2
    <3> QED
      BY <1>20, <2>2, <3>1 DEF ChanOK, SendOK
  <2> QED
    BY <1>9, <2>1, <2>2
<1>23. FinOK(c)' /\ FetchOK(c)' /\ TroubleOK(c)' /\ PastOK(c)'
  BY <1>1, <1>2, <1>5, <1>12, <1>16, <1>18, <1>20
     DEF ClientOK, FinOK, FetchOK, TroubleOK, PastOK, EndedWell, EndedBadly
<1>24. ServeInv'
  <2>1. Taken(sv.conn)' = Taken(c)'
    BY <1>1, <1>12, <1>16
  <2>2. v.closed => ~Up(c)
    <3>1. sv.closed => ~Up(c)
      BY <1>1, <1>2 DEF ServerInv, ServeInv
    <3> QED
      BY <1>17, <3>1
  <2>3. Up(c)' = Up(c) /\ c # None
    BY <1>1, <1>2, <1>20, Served DEF Up
  <2>4. /\ v.pc = "recv" /\ v.conn = c /\ v.i = Len(held[c]) /\ v.i < NumIterations
        /\ v.complete >= v.last /\ type' = "am"
    BY <1>1, <1>2, <1>4, <1>10, <1>16
  <2> QED
    BY <1>4, <1>12, <1>18, <1>20, <1>21, <2>1, <2>2, <2>3, <2>4 DEF ServeInv, Serving
<1>25. BufferInv'
  <2>1. ASSUME c \notin seen'.merged
        PROVE  m <= 1 /\ (m = 1 => b = Msg(Len(held[c]) + 1))
    BY <1>5, <1>7, <1>10, <1>13, <1>18, <2>1
  <2>2. v.complete - v.last = m
    BY <1>2, <1>4, <1>10, <1>16
  <2> QED
    BY <1>1, <1>2, <1>12, <1>16, <1>20, <2>1, <2>2 DEF BufferInv
<1>26. HeldInOrder'
  <2>1. held' = held /\ type' = type
    BY <1>2
  <2> QED
    BY <1>18, <2>1 DEF ServerInv, HeldInOrder
<1> QED
  BY <1>1, <1>2, <1>20, <1>22, <1>23, <1>24, <1>25, <1>26, ServerFrame DEF ClientOK

(* The server sends FIN. *)
LEMMA SendFinStep ==
    ASSUME ServerInv, SendFin
    PROVE  ServerInv'
<1>1. PICK c \in Clients : c = sv.conn
  BY Served DEF SendFin, Serving
<1>2. /\ sv.pc = "fin" /\ Serving /\ UNCHANGED <<type, rndv, cl, chan, held, seen>>
      /\ \/ /\ cwire' = IF Up(c) THEN [cwire EXCEPT ![c] = Append(@, Fin)] ELSE cwire
            /\ sv' = [sv EXCEPT !.pc = IF rndv THEN "finsend" ELSE "drain"]
            /\ requests' = requests
         \/ ~Up(c) /\ ServerExit(c)
  BY <1>1 DEF SendFin, Serving
<1>3. CASE ~Up(c) /\ ServerExit(c)
  BY <1>1, <1>2, <1>3, EndMeansLost, ServerLeft
<1>4. ASSUME cwire' = IF Up(c) THEN [cwire EXCEPT ![c] = Append(@, Fin)] ELSE cwire,
             sv' = [sv EXCEPT !.pc = IF rndv THEN "finsend" ELSE "drain"],
             requests' = requests
      PROVE  ServerInv'
  <2> DEFINE p == IF rndv THEN "finsend" ELSE "drain"
             v == [sv EXCEPT !.pc = p]
             w == IF Up(c) THEN Append(cwire[c], Fin) ELSE cwire[c]
  <2>1. /\ sv \in ServerState /\ seen \in History /\ sv.complete = sv.last /\ cl[c].pc # "new"
        /\ Len(held[c]) = NumIterations /\ c \notin seen.refused /\ c # None
    BY <1>1, <1>2, Served DEF ServerInv, ServeInv
  <2>2. /\ ClientOK(c) /\ chan[c] \in Streams /\ cwire[c] \in Streams /\ held[c] \in Streams
        /\ requests \in Queues /\ StateTypes
        /\ chan = [chan EXCEPT ![c] = chan[c]] /\ cwire = [cwire EXCEPT ![c] = cwire[c]]
        /\ held = [held EXCEPT ![c] = held[c]]
    BY Before, SameAt DEF ServerInv, StateTypes
  <2>3. w \in Streams /\ (Has(w, Down) => Has(cwire[c], Down))
    BY <2>2, AppendOne, EventKinds
  <2>4. cwire' = [cwire EXCEPT ![c] = w] /\ sv' = v
    BY <1>4, <2>2
  <2>5. p \in {"finsend", "drain"} /\ (p = "finsend" => rndv)
    OBVIOUS
  <2> HIDE DEF p, w
  <2>6. /\ v \in ServerState /\ v.pc = p /\ v.conn = sv.conn /\ v.complete = sv.complete
        /\ v.last = sv.last /\ v.i = sv.i /\ v.closed = sv.closed
    BY <2>1, <2>5 DEF ServerState
  <2> HIDE DEF v
  <2>7. Puts(c, v, chan[c], w, held[c])
    BY <1>1, <1>2, <1>4, <2>1, <2>2, <2>3, <2>4, <2>5, <2>6 DEF Puts
  <2>8. Serves(c) /\ chan'[c] = chan[c] /\ held'[c] = held[c] /\ cwire'[c] = w /\ cl' = cl
    BY <2>2, <2>7, ServesOf
  <2>9. ServeInv' /\ BufferInv'
    <3>1. (sv.closed => ~Up(c)) /\ Up(c)' = Up(c)
      BY <1>1, <1>2, <2>8 DEF ServerInv, ServeInv, Up
    <3> QED
      BY <1>1, <1>2, <2>1, <2>4, <2>5, <2>6, <3>1 DEF ServeInv, Serving, BufferInv
  <2>10. FinOK(c)'
    BY <1>1, <2>1, <2>4, <2>5, <2>6, <2>8 DEF FinOK
  <2>11. FetchOK(c)'
    <3>1. ~EndedWell(c)
      BY <1>1, <1>2, <2>2 DEF ClientOK, FinOK
    <3> QED
      BY <2>8, <3>1 DEF FetchOK, EndedWell
  <2>12. /\ v.complete - v.last = sv.complete - sv.last /\ v.conn = c
         /\ seen'.merged = seen.merged
    BY <1>1, <1>2, <2>6
  <2> QED
    BY <1>1, <1>2, <2>3, <2>7, <2>9, <2>10, <2>11, <2>12, PlainStep
<1> QED
  BY <1>2, <1>3, <1>4

(* A step after FIN that takes the first event of c; the server listens    *)
(* again or goes on to the end of c.                                       *)
LEMMA AfterFin ==
    ASSUME ServerInv, sv.pc \in {"finsend", "drain"}, NEW c \in Clients, c = sv.conn,
           NEW v, NEW s, Puts(c, v, s, cwire[c], held[c]), seen' = seen,
           s = chan[c] \/ (chan[c] # <<>> /\ s = Tail(chan[c])),
           v.complete = sv.complete, v.last = sv.last,
           \/ v.pc = "drain" /\ v.conn = c /\ v.closed = sv.closed
           \/ v.pc = "listen" /\ v.conn = None /\ ~Up(c)
    PROVE  ServerInv'
<1>1. Serving
  BY DEF Serving
<1>2. /\ Serves(c) /\ sv' = v /\ chan'[c] = s /\ cwire'[c] = cwire[c] /\ held'[c] = held[c]
      /\ cl' = cl
  BY ServesOf DEF ServerInv
<1>3. type' = type /\ rndv' = rndv
  BY <1>2 DEF Serves
<1>4. /\ sv.complete = sv.last /\ cl[c].pc # "new" /\ sv.complete \in Nat
      /\ Len(held[c]) = NumIterations /\ c \notin seen.refused /\ c # None
      /\ sv.closed => ~Up(c)
  BY <1>1, Served DEF ServerInv, ServeInv
<1>5. ClientOK(c) /\ NumIterations \in Nat \ {0} /\ Len(chan[c]) \in Nat /\ chan[c] \in Streams
  BY Before
<1>6. Taken(c) = NumIterations /\ Taken(c)' = NumIterations
  BY <1>2, <1>4, <1>5 DEF Taken
<1>7. ChanOK(c)'
  <2>1. CASE s = chan[c]
    BY <1>2, <1>5, <1>6, <2>1 DEF ClientOK, ChanOK, EventOK
  <2>2. CASE chan[c] # <<>> /\ s = Tail(chan[c])
    <3>1. /\ Len(s) = Len(chan[c]) - 1 /\ Len(s) \in Nat
          /\ \A k \in 1..Len(s) : s[k] = chan[c][1 + k]
      BY <2>2, FirstEvent
    <3>2. ASSUME NEW k \in 1..Len(s) PROVE EventOK(c, k)'
      <4>1. 1 + k \in 1..Len(chan[c]) /\ (1 + k = Len(chan[c]) => k = Len(s))
        BY <1>5, <3>1
      <4>2. EventOK(c, 1 + k) /\ ~(Taken(c) + (1 + k) <= NumIterations)
        BY <1>5, <1>6, <4>1 DEF ClientOK, ChanOK
      <4>3. \/ chan[c][1 + k] = Ack /\ cl[c].pc = "done" /\ cl[c].ret = 0
            \/ chan[c][1 + k] = Down /\ k = Len(s) /\ cl[c].pc \in {"done", "dead"}
        BY <4>1, <4>2 DEF EventOK
      <4> QED
        BY <1>2, <3>1, <4>3 DEF EventOK
    <3> QED
      BY <1>2, <3>2 DEF ChanOK
  <2> QED
    BY <2>1, <2>2
<1>8. SendOK(c)'
  <2>1. CASE s = chan[c]
    BY <1>2, <1>5, <1>6, <2>1 DEF ClientOK, SendOK, Sent
  <2>2. CASE chan[c] # <<>> /\ s = Tail(chan[c])
    <3>1. 1 \in 1..Len(chan[c]) /\ EventOK(c, 1)
      BY <2>2, FirstEvent
    <3>2. ~(Taken(c) + 1 <= NumIterations)
      BY <1>5, <1>6
    <3>3. cl[c].pc \in {"done", "dead"}
      BY <3>1, <3>2 DEF EventOK
    <3> QED
      BY <1>2, <3>3 DEF SendOK
  <2> QED
    BY <2>1, <2>2
<1>9. FinOK(c)' /\ FetchOK(c)' /\ TroubleOK(c)'
  BY <1>2, <1>4, <1>5 DEF ClientOK, FinOK, FetchOK, TroubleOK, EndedWell, EndedBadly
<1>10. PastOK(c)'
  <2>1. ~Up(c) => EndedWell(c) \/ Lost(c)
    BY <1>1, EndMeansLost
  <2> QED
    BY <1>2, <2>1 DEF PastOK, EndedWell, Lost
<1>11. ServeInv' /\ BufferInv'
  <2>1. Up(c)' = Up(c)
    BY <1>2 DEF Up
  <2> QED
    BY <1>2, <1>3, <1>4, <2>1 DEF ServeInv, Serving, BufferInv
<1>12. HeldInOrder'
  <2>1. \A d \in Clients : held'[d] = held[d]
    BY <1>2 DEF Serves
  <2> QED
    BY <1>3, <2>1 DEF ServerInv, HeldInOrder
<1> QED
  BY <1>1, <1>2, <1>7, <1>8, <1>9, <1>10, <1>11, <1>12, ServerFrame DEF ClientOK

(* request_wait of a FIN in rendezvous. *)
LEMMA FinWaitStep ==
    ASSUME ServerInv, FinWait
    PROVE  ServerInv'
<1>1. PICK c \in Clients : c = sv.conn
  BY Served DEF FinWait, Serving
<1> DEFINE s == Tail(chan[c])
<1>2. /\ sv.pc = "finsend" /\ Serving /\ chan[c] # <<>> /\ UNCHANGED <<type, rndv, cl, held, seen>>
      /\ \/ /\ chan' = [chan EXCEPT ![c] = s]
            /\ sv' = [sv EXCEPT !.pc = "drain"] /\ cwire' = cwire /\ requests' = requests
         \/ Head(chan[c]) = Down /\ ServerExit(c) /\ chan' = chan
  BY <1>1 DEF FinWait, Serving
<1>3. s \in Streams /\ Head(chan[c]) = chan[c][1] /\ (Head(chan[c]) = Down => s = <<>> /\ ~Up(c))
  BY <1>2, FirstEvent
<1> HIDE DEF s
<1>4. CASE Head(chan[c]) = Down /\ ServerExit(c) /\ chan' = chan
  <2>1. ~EndedWell(c)
    <3>1. ASSUME chan[c] = <<Ack, Down>> PROVE FALSE
      BY <1>3, <1>4, <3>1, EventKinds
    <3> QED
      BY <1>1, <1>2, <3>1, Before DEF ClientOK, FetchOK
  <2>2. Lost(c) /\ c # None
    BY <1>1, <1>2, <1>3, <1>4, <2>1, EndMeansLost
  <2> QED
    BY <1>1, <1>2, <1>4, <2>2, ServerLeft
<1>5. CASE /\ chan' = [chan EXCEPT ![c] = s]
           /\ sv' = [sv EXCEPT !.pc = "drain"] /\ cwire' = cwire /\ requests' = requests
  <2> DEFINE v == [sv EXCEPT !.pc = "drain"]
  <2>1. /\ cwire[c] \in Streams /\ held[c] \in Streams /\ requests \in Queues /\ seen \in History
        /\ cwire = [cwire EXCEPT ![c] = cwire[c]] /\ held = [held EXCEPT ![c] = held[c]]
    BY Before, SameAt DEF ServerInv, StateTypes
  <2>2. /\ v \in ServerState /\ v.pc = "drain" /\ v.conn = sv.conn /\ v.complete = sv.complete
        /\ v.last = sv.last /\ v.closed = sv.closed
    BY <1>2, Served DEF ServerState
  <2>3. sv' = v
    BY <1>5
  <2> HIDE DEF v
  <2>4. Puts(c, v, s, cwire[c], held[c])
    BY <1>1, <1>2, <1>3, <1>5, <2>1, <2>2, <2>3 DEF Puts
  <2>5. s = Tail(chan[c])
    BY DEF s
  <2> QED
    BY <1>1, <1>2, <2>2, <2>4, <2>5, AfterFin
<1> QED
  BY <1>2, <1>4, <1>5

(* while (!connection_closed), and the next client. *)
LEMMA DrainStep ==
    ASSUME ServerInv, Drain
    PROVE  ServerInv'
<1>1. PICK c \in Clients : c = sv.conn
  BY Served DEF Drain, Serving
<1>2. /\ sv.pc = "drain" /\ Serving /\ UNCHANGED <<type, rndv, requests, cl, cwire, held, seen>>
      /\ sv' = [sv EXCEPT !.pc = "listen", !.conn = None]
      /\ \/ sv.closed /\ chan' = chan
         \/ /\ chan[c] # <<>> /\ Head(chan[c]) = Down
            /\ chan' = [chan EXCEPT ![c] = Tail(chan[c])]
  BY <1>1 DEF Drain, Serving
<1>8. ~Up(c)
  BY <1>1, <1>2, FirstEvent DEF ServerInv, ServeInv
<1> DEFINE v == [sv EXCEPT !.pc = "listen", !.conn = None]
<1>3. /\ cwire[c] \in Streams /\ held[c] \in Streams /\ requests \in Queues /\ seen \in History
      /\ chan[c] \in Streams /\ chan = [chan EXCEPT ![c] = chan[c]]
      /\ cwire = [cwire EXCEPT ![c] = cwire[c]] /\ held = [held EXCEPT ![c] = held[c]]
  BY Before, SameAt DEF ServerInv, StateTypes
<1>4. /\ v \in ServerState /\ v.pc = "listen" /\ v.conn = None /\ v.complete = sv.complete
      /\ v.last = sv.last
  BY <1>2, Served DEF ServerState
<1>5. sv' = v
  BY <1>2
<1> HIDE DEF v
<1>6. CASE chan' = chan
  <2>1. Puts(c, v, chan[c], cwire[c], held[c])
    BY <1>2, <1>3, <1>4, <1>5, <1>6 DEF Puts
  <2> QED
    BY <1>1, <1>2, <1>4, <1>8, <2>1, AfterFin
<1>7. CASE chan[c] # <<>> /\ chan' = [chan EXCEPT ![c] = Tail(chan[c])]
  <2> DEFINE s == Tail(chan[c])
  <2>1. s \in Streams
    BY <1>7, FirstEvent
  <2>2. Puts(c, v, s, cwire[c], held[c])
    BY <1>2, <1>3, <1>4, <1>5, <1>7, <2>1 DEF Puts
  <2> QED
    BY <1>1, <1>2, <1>4, <1>7, <1>8, <2>2, AfterFin
<1> QED
  BY <1>2, <1>6, <1>7

(* fill_request_param, for a message or for FIN. *)
LEMMA FillRequestStep ==
    ASSUME ServerInv, FillRequest
    PROVE  ServerInv'
<1>1. PICK c \in Clients : c = sv.conn
  BY Served DEF FillRequest, Serving
<1>2. sv.pc = "next" /\ Serving /\ UNCHANGED <<type, rndv, cl, chan, held>>
  BY DEF FillRequest, Serving
<1>3. CASE Fail(TheServer) /\ ServerExit(sv.conn)
  BY <1>2, <1>3, ServerFails
<1>4. ASSUME sv' = [sv EXCEPT !.pc = IF sv.i < NumIterations THEN "recv" ELSE "fin",
                              !.buf = IF rndv THEN @ ELSE Junk],
             UNCHANGED <<requests, cwire, seen>>
      PROVE  ServerInv'
  <2> DEFINE p == IF sv.i < NumIterations THEN "recv" ELSE "fin"
             b == IF rndv THEN sv.buf ELSE Junk
             v == [sv EXCEPT !.pc = p, !.buf = b]
  <2>1. /\ sv \in ServerState /\ seen \in History /\ cl[c].pc # "new" /\ c \notin seen.refused
        /\ sv.i = Len(held[c]) /\ sv.complete >= sv.last /\ Taken(c) <= NumIterations
        /\ sv.complete \in Nat /\ sv.last \in Nat /\ sv.buf \in Events /\ c # None
        /\ Taken(c) = Len(held[c]) + (sv.complete - sv.last) /\ (sv.closed => ~Up(c))
        /\ type # "am" => sv.complete = sv.last
    BY <1>1, <1>2, Served DEF ServerInv, ServeInv
  <2>2. /\ ClientOK(c) /\ chan[c] \in Streams /\ cwire[c] \in Streams /\ held[c] \in Streams
        /\ requests \in Queues /\ StateTypes /\ Len(held[c]) \in Nat /\ NumIterations \in Nat
        /\ chan = [chan EXCEPT ![c] = chan[c]] /\ cwire = [cwire EXCEPT ![c] = cwire[c]]
        /\ held = [held EXCEPT ![c] = held[c]]
    BY Before, SameAt DEF ServerInv, StateTypes
  <2>3. /\ p \in {"recv", "fin"} /\ b \in Events /\ (p = "recv" => sv.i < NumIterations)
        /\ p = "fin" => Len(held[c]) = NumIterations /\ sv.complete = sv.last
    BY <2>1, <2>2, EventKinds
  <2>4. sv' = v
    BY <1>4
  <2> HIDE DEF p, b
  <2>5. /\ v \in ServerState /\ v.pc = p /\ v.conn = c /\ v.complete = sv.complete
        /\ v.last = sv.last /\ v.i = sv.i /\ v.closed = sv.closed
    BY <1>1, <2>1, <2>3 DEF ServerState
  <2> HIDE DEF v
  <2>6. Puts(c, v, chan[c], cwire[c], held[c])
    BY <1>1, <1>2, <1>4, <2>1, <2>2, <2>3, <2>4, <2>5 DEF Puts
  <2>7. Serves(c) /\ held'[c] = held[c] /\ chan'[c] = chan[c] /\ cwire'[c] = cwire[c] /\ cl' = cl
    BY <2>2, <2>6, ServesOf
  <2>8. Taken(sv.conn)' = Taken(c) /\ Up(c)' = Up(c)
    BY <1>1, <2>4, <2>5, <2>7 DEF Taken, Up
  <2>9. ServeInv'
    BY <1>1, <1>2, <1>4, <2>1, <2>3, <2>4, <2>5, <2>7, <2>8 DEF ServeInv, Serving
  <2>10. BufferInv'
    <3>1. type = "am" /\ c \notin seen.merged => sv.complete - sv.last <= 1 /\ sv.complete - sv.last # 1
      BY <1>1, <1>2 DEF ServerInv, BufferInv
    <3> QED
      BY <1>2, <1>4, <2>4, <2>5, <3>1 DEF BufferInv
  <2>11. FinOK(c)' /\ FetchOK(c)'
    <3>1. ~(Has(cwire[c], Fin) \/ cl[c].fin \/ EndedWell(c))
      BY <1>1, <1>2, <2>2 DEF ClientOK, FinOK
    <3> QED
      BY <2>7, <3>1 DEF FinOK, FetchOK, EndedWell
  <2>12. v.complete - v.last = sv.complete - sv.last /\ seen'.merged = seen.merged
    BY <1>4, <2>5
  <2> QED
    BY <1>1, <1>2, <2>5, <2>6, <2>9, <2>10, <2>11, <2>12, PlainStep
<1> QED
  BY <1>2, <1>3, <1>4 DEF FillRequest

(* The wire of a client whose connection is made. *)
LEMMA EagerWire ==
    ASSUME ServerInv, NEW c \in Clients
    PROVE  LET w == cwire[c] \o EagerDone(c)
           IN  w \in Streams /\ \A e : Has(w, e) => Has(cwire[c], e) \/ e = Ack
<1> DEFINE s == cwire[c]
           w == s \o EagerDone(c)
<1>1. s \in Seq(Events) /\ Ack \in Events
  BY Before, EventKinds DEF Streams
<1> HIDE DEF s
<1>2. EagerDone(c) = <<Ack>> \/ EagerDone(c) = <<>>
  BY DEF EagerDone
<1>3. CASE EagerDone(c) = <<>>
  <2>1. w = s
    BY <1>1, <1>3
  <2> QED
    BY <1>1, <2>1 DEF s, Streams
<1>4. CASE EagerDone(c) = <<Ack>>
  <2>1. w = Append(s, Ack)
    BY <1>1, <1>4
  <2>2. s \in Streams
    BY <1>1 DEF Streams
  <2> HIDE DEF w
  <2>3. w \in Streams /\ \A e : Has(w, e) => Has(s, e) \/ e = Ack
    BY <1>1, <2>1, <2>2, AppendOne
  <2> QED
    BY <2>3 DEF s, w
<1> QED
  BY <1>2, <1>3, <1>4

(* ucp_listener_reject: the client's endpoint fails after what was sent. *)
LEMMA CloseWire ==
    ASSUME NEW s \in Streams, NEW w, w = Append(s, Down)
    PROVE  w \in Streams /\ \A e : Has(w, e) => Has(s, e) \/ e = Down
<1>1. Down \in Events
  BY EventKinds
<1> QED
  BY <1>1, AppendOne

(* server_conn_handle_cb for the requests of one progress call, and the    *)
(* start of client_server_do_work.                                         *)
LEMMA AcceptStep ==
    ASSUME ServerInv, sv.pc = "listen", requests # <<>>, NEW n \in Handled(requests),
           UNCHANGED <<type, rndv, cl, chan, held>>,
           NEW R \in SUBSET {requests[k] : k \in 2..n}, NEW B \in SUBSET {TheServer},
           requests' = Rest(requests, n),
           Accept(requests[1]),
           cwire' = [c \in Clients |-> IF c \in R THEN Append(cwire[c], Down)
                                       ELSE IF c = requests[1] THEN cwire[c] \o EagerDone(c)
                                       ELSE cwire[c]],
           seen' = [seen EXCEPT !.refused = @ \union R, !.broken = @ \union B]
    PROVE  ServerInv'
<1>1. /\ requests \in Seq(Clients) /\ sv \in ServerState /\ seen \in History /\ StateTypes /\ QueueInv
  BY DEF ServerInv, StateTypes, Queues
<1>2. /\ Len(requests) \in Nat \ {0} /\ n \in 1..Len(requests)
      /\ Rest(requests, n) \in Seq(Clients) /\ Len(Rest(requests, n)) = Len(requests) - n
      /\ \A k \in 1..(Len(requests) - n) : Rest(requests, n)[k] = requests[n + k]
  BY <1>1, TakeSome
<1>3. \A k \in 1..Len(requests) : requests[k] \in Clients
  BY <1>1
<1>4. requests[1] \in Clients /\ 1 \in 1..Len(requests)
  BY <1>2, <1>3
<1>5. PICK c \in Clients : c = requests[1]
  BY <1>4
<1>6. /\ held[c] = <<>> /\ cl[c].pc # "new" /\ c \notin seen.refused
  BY <1>1, <1>4, <1>5 DEF QueueInv
<1>7. R \subseteq Clients /\ \A d \in R : \E k \in 2..Len(requests) : k <= n /\ d = requests[k]
  <2>1. ASSUME NEW d \in R PROVE d \in Clients /\ \E k \in 2..Len(requests) : k <= n /\ d = requests[k]
    <3>1. PICK k \in 2..n : d = requests[k]
      OBVIOUS
    <3>2. k \in 2..Len(requests) /\ k \in 1..Len(requests) /\ k <= n
      BY <1>2
    <3> QED
      BY <1>3, <3>1, <3>2
  <2> QED
    BY <2>1
<1>8. \A d \in R : held[d] = <<>> /\ cl[d].pc # "new" /\ d # c
  <2>1. ASSUME NEW d \in R PROVE held[d] = <<>> /\ cl[d].pc # "new" /\ d # c
    <3>1. PICK k \in 2..Len(requests) : k <= n /\ d = requests[k]
      BY <1>7
    <3>2. k \in 1..Len(requests) /\ k # 1
      BY <1>2
    <3> QED
      BY <1>1, <1>4, <1>5, <3>1, <3>2 DEF QueueInv
  <2> QED
    BY <2>1
<1>9. /\ sv' \in ServerState /\ sv'.pc = "next" /\ sv'.conn = c /\ sv'.i = 0 /\ ~sv'.closed
      /\ sv'.complete = sv.complete /\ sv'.last = sv.last
  BY <1>1, <1>5 DEF Accept, ServerState
<1>10. /\ seen' \in History /\ seen'.refused = seen.refused \union R
      /\ seen.broken \subseteq seen'.broken /\ seen'.merged = seen.merged
  <2> DEFINE F == seen.refused \union R
             C == seen.broken \union B
  <2>1. F \in SUBSET Clients /\ C \in SUBSET (Clients \union {TheServer})
    BY <1>1, <1>7 DEF History
  <2>2. seen' = [seen EXCEPT !.refused = F, !.broken = C]
    OBVIOUS
  <2>3. F = seen.refused \union R /\ seen.broken \subseteq C
    OBVIOUS
  <2> HIDE DEF F, C
  <2> QED
    BY <1>1, <2>1, <2>2, <2>3 DEF History
<1>11. ASSUME NEW d \in Clients
       PROVE  /\ cwire'[d] \in Streams
              /\ Has(cwire'[d], Fin) => Has(cwire[d], Fin)
              /\ Has(cwire'[d], Down) => Has(cwire[d], Down) \/ d \in R
  <2>1. CASE d \in R
    <3>1. cwire'[d] = Append(cwire[d], Down) /\ cwire[d] \in Streams
      BY <2>1, Before
    <3>2. cwire'[d] \in Streams /\ \A e : Has(cwire'[d], e) => Has(cwire[d], e) \/ e = Down
      BY <3>1, CloseWire
    <3> QED
      BY <2>1, <3>2, EventKinds
  <2>2. CASE d \notin R /\ d = c
    <3>1. cwire'[d] = cwire[d] \o EagerDone(d)
      BY <1>5, <2>2
    <3> QED
      BY <3>1, EagerWire, EventKinds
  <2>3. CASE d \notin R /\ d # c
    BY <1>5, <2>3, Before
  <2> QED
    BY <2>1, <2>2, <2>3
<1>12. StateTypes'
  <2>1. cwire' \in [Clients -> Streams]
    <3>1. cwire' = [d \in Clients |-> cwire'[d]]
      OBVIOUS
    <3> QED
      BY <1>11, <3>1
  <2>2. requests' \in Queues
    BY <1>2 DEF Queues
  <2> QED
    BY <1>1, <1>9, <1>10, <2>1, <2>2 DEF StateTypes
<1>13. sv.conn = None /\ sv.complete = sv.last /\ sv.complete \in Nat /\ None \notin Clients
  BY <1>1, NoneAssumption DEF ServerInv, ServeInv, ServerState
<1>14. \A d \in Clients : Taken(d)' = Taken(d)
  <2>1. ASSUME NEW d \in Clients PROVE Taken(d)' = Len(held[d]) /\ Taken(d) = Len(held[d])
    <3>1. Len(held[d]) \in Nat
      BY Before
    <3> QED
      BY <1>9, <1>13, <3>1 DEF Taken
  <2> QED
    BY <2>1
<1>15. ASSUME NEW d \in Clients PROVE ClientOK(d)'
  <2>1. ClientOK(d)
    BY Before
  <2>2. ChanOK(d)'
    BY <1>14, <2>1 DEF ClientOK, ChanOK, EventOK
  <2>3. SendOK(d)'
    BY <1>14, <2>1 DEF ClientOK, SendOK, Sent
  <2>4. FinOK(d)'
    <3>1. CASE d # c
      BY <1>9, <1>11, <2>1, <3>1 DEF ClientOK, FinOK, EndedWell
    <3>2. CASE d = c
      <4>1. Len(held[d]) # NumIterations
        BY <1>6, <3>2, UcxServerAssumption
      <4>2. ~(Has(cwire[d], Fin) \/ cl[d].fin \/ EndedWell(d))
        BY <2>1, <4>1 DEF ClientOK, FinOK
      <4> QED
        BY <1>11, <4>2 DEF FinOK, EndedWell
    <3> QED
      BY <3>1, <3>2
  <2>5. TroubleOK(d)'
    BY <1>10, <1>11, <2>1 DEF ClientOK, TroubleOK, EndedBadly
  <2>6. FetchOK(d)'
    BY <1>9 DEF FetchOK
  <2>7. PastOK(d)'
    BY <1>10, <1>13, <2>1 DEF ClientOK, PastOK, EndedWell, Lost
  <2> QED
    BY <2>2, <2>3, <2>4, <2>5, <2>6, <2>7 DEF ClientOK
<1>16. QueueInv'
  <2>1. Len(requests') = Len(requests) - n
    BY <1>2
  <2>2. ASSUME NEW k \in 1..Len(requests')
        PROVE  n + k \in 1..Len(requests) /\ requests'[k] = requests[n + k]
    BY <1>2, <2>1
  <2>3. ASSUME NEW j \in 1..Len(requests'), NEW k \in 1..Len(requests'), requests'[j] = requests'[k]
        PROVE  j = k
    <3>1. /\ n + j \in 1..Len(requests) /\ n + k \in 1..Len(requests)
          /\ requests[n + j] = requests[n + k]
      BY <2>2, <2>3
    <3>2. n + j = n + k
      BY <1>1, <3>1 DEF QueueInv
    <3>3. n \in Int /\ j \in Int /\ k \in Int
      BY <1>2, <2>1
    <3> QED
      BY <3>2, <3>3
  <2>4. ASSUME NEW k \in 1..Len(requests')
        PROVE  /\ held'[requests'[k]] = <<>> /\ sv'.conn # requests'[k]
               /\ cl'[requests'[k]].pc # "new" /\ requests'[k] \notin seen'.refused
    <3> DEFINE d == requests[n + k]
    <3>1. n + k \in 1..Len(requests) /\ requests'[k] = d
      BY <2>2
    <3>2. held[d] = <<>> /\ cl[d].pc # "new" /\ d \notin seen.refused
      BY <1>1, <3>1 DEF QueueInv
    <3>3. n + k # 1
      BY <1>2, <2>1
    <3>4. d # c
      BY <1>1, <1>4, <1>5, <3>1, <3>3 DEF QueueInv
    <3>5. d \notin R
      <4>1. SUFFICES ASSUME d \in R PROVE FALSE
        OBVIOUS
      <4>2. PICK j \in 2..Len(requests) : j <= n /\ d = requests[j]
        BY <1>7, <4>1
      <4>3. j \in 1..Len(requests) /\ j # n + k
        BY <1>2, <2>1, <4>2
      <4> QED
        BY <1>1, <3>1, <4>2, <4>3 DEF QueueInv
    <3> HIDE DEF d
    <3> QED
      BY <1>9, <1>10, <3>1, <3>2, <3>4, <3>5
  <2> QED
    BY <2>3, <2>4 DEF QueueInv
<1>17. ServeInv'
  <2>1. Taken(sv.conn)' = Taken(c)' /\ Taken(c) = 0
    <3>1. Len(held[c]) = 0
      BY <1>6
    <3> QED
      BY <1>5, <1>9, <1>13, <3>1 DEF Taken
  <2>2. Taken(sv.conn)' = 0 /\ Len(held[c]) = 0
    BY <1>5, <1>6, <1>14, <2>1
  <2>3. c \notin seen'.refused
    BY <1>6, <1>8, <1>10
  <2> QED
    BY <1>5, <1>6, <1>9, <1>13, <2>2, <2>3, UcxServerAssumption DEF ServeInv, Serving
<1>18. RefuseInv'
  BY <1>7, <1>8, <1>10 DEF ServerInv, RefuseInv
<1>19. BufferInv'
  BY <1>9, <1>13 DEF BufferInv
<1>20. ServerExitExplained' /\ HeldInOrder'
  BY <1>9, <1>10 DEF ServerInv, ServerExitExplained, HeldInOrder
<1> QED
  BY <1>12, <1>15, <1>16, <1>17, <1>18, <1>19, <1>20 DEF ServerInv, ClientsInv

(* The progress of the connection worker. *)
LEMMA ListenStep ==
    ASSUME ServerInv, Listen
    PROVE  ServerInv'
<1>1. sv.pc = "listen" /\ requests # <<>> /\ UNCHANGED <<type, rndv, cl, chan, held>>
  BY DEF Listen
<1>2. ASSUME NEW n \in Handled(requests), NEW ignored \in SUBSET {requests[k] : k \in 2..n},
             LET rejected == {requests[k] : k \in 2..n} \ ignored
             IN  /\ Accept(requests[1])
                 /\ requests' = Rest(requests, n)
                 /\ cwire' = [c \in Clients |->
                                 IF c \in rejected THEN Append(cwire[c], Down)
                                 ELSE IF c = requests[1] THEN cwire[c] \o EagerDone(c)
                                 ELSE cwire[c]]
                 /\ seen' = [seen EXCEPT !.refused = @ \union rejected,
                                !.broken = @ \union {p \in {TheServer} : ignored # {}}]
      PROVE  ServerInv'
  <2>1. PICK R \in SUBSET {requests[k] : k \in 2..n} : R = {requests[k] : k \in 2..n} \ ignored
    OBVIOUS
  <2>2. PICK B \in SUBSET {TheServer} : B = {p \in {TheServer} : ignored # {}}
    OBVIOUS
  <2> QED
    BY <1>1, <1>2, <2>1, <2>2, AcceptStep
<1>3. PICK c : c = requests[1]
  OBVIOUS
<1>4. /\ c \in Clients /\ held[c] = <<>> /\ cl[c].pc # "new" /\ c \notin seen.refused
      /\ sv.conn = None /\ sv.complete = sv.last /\ c # None
  <2>1. requests \in Seq(Clients)
    BY DEF ServerInv, StateTypes, Queues
  <2>2. c \in Clients /\ 1 \in 1..Len(requests)
    BY <1>1, <1>3, <2>1
  <2> QED
    BY <1>1, <1>3, <2>2, NoneAssumption DEF ServerInv, QueueInv, ServeInv
<1>5. CASE Fail(TheServer) /\ ServerExit(c)
  BY <1>1, <1>4, <1>5, ServerFails
<1>6. CASE ~Up(c) /\ UNCHANGED seen /\ ServerExit(c)
  <2>1. /\ ClientOK(c) /\ cl[c].ret \in {0, 1} /\ cl[c].pc \in {"done", "dead"}
        /\ NumIterations \in Nat \ {0}
    BY <1>4, <1>6, Before DEF ClientState, Up
  <2>2. ~EndedWell(c)
    <3>1. Len(held[c]) = 0
      BY <1>4
    <3> QED
      BY <2>1, <3>1 DEF ClientOK, FinOK
  <2>3. Lost(c)
    BY <1>1, <1>4, <2>1, <2>2 DEF ClientOK, TroubleOK, EndedWell, EndedBadly, Lost
  <2>4. ExitNotes
    BY <1>6 DEF ExitNotes, ServerInv, StateTypes
  <2> QED
    BY <1>1, <1>4, <1>6, <2>3, <2>4, ExitFrame
<1> QED
  BY <1>2, <1>3, <1>5, <1>6 DEF Listen
-----------------------------------------------------------------------------
(* Every step preserves the invariant. *)
LEMMA ServerStep == ServerInv /\ [Next]_vars => ServerInv'
<1> SUFFICES ASSUME ServerInv, [Next]_vars PROVE ServerInv'
  OBVIOUS
<1>1. CASE Server
  BY <1>1, StartServerStep, ListenStep, FillRequestStep, RecvStep, RecvAmStep, TakeAmStep,
     SendFinStep, FinWaitStep, DrainStep DEF Server
<1>2. ASSUME NEW c \in Clients, StartClient(c) \/ Client(c) \/ Crash(c) PROVE ServerInv'
  BY <1>2, StartClientStep, ClientSendStep, ClientWaitStep, RegisterFinStep, ClientFinStep, CrashStep
     DEF Client
<1>3. CASE UNCHANGED vars
  <2>1. /\ type' = type /\ rndv' = rndv /\ requests' = requests /\ sv' = sv /\ cl' = cl
        /\ chan' = chan /\ cwire' = cwire /\ held' = held /\ seen' = seen
    BY <1>3 DEF vars
  <2>2. \A c : Taken(c)' = Taken(c)
    BY <2>1 DEF Taken
  <2>3. StateTypes' /\ QueueInv' /\ RefuseInv' /\ BufferInv'
    BY <2>1 DEF ServerInv, StateTypes, QueueInv, RefuseInv, BufferInv
  <2>4. ServeInv'
    BY <2>1, <2>2 DEF ServerInv, ServeInv, Serving, Up
  <2>5. ASSUME NEW c \in Clients PROVE ClientOK(c)'
    <3>1. ClientOK(c)
      BY Before
    <3>2. ChanOK(c)' /\ SendOK(c)'
      BY <2>1, <2>2, <3>1 DEF ClientOK, ChanOK, EventOK, SendOK, Sent
    <3>3. FinOK(c)' /\ TroubleOK(c)' /\ FetchOK(c)' /\ PastOK(c)'
      BY <2>1, <3>1 DEF ClientOK, FinOK, TroubleOK, FetchOK, PastOK, EndedWell, EndedBadly, Lost
    <3> QED
      BY <3>2, <3>3 DEF ClientOK
  <2>6. ServerExitExplained' /\ HeldInOrder'
    BY <2>1 DEF ServerInv, ServerExitExplained, HeldInOrder, Lost
  <2> QED
    BY <2>3, <2>4, <2>5, <2>6 DEF ServerInv, ClientsInv
<1> QED
  BY <1>1, <1>2, <1>3 DEF Next

(* It holds at the start. *)
LEMMA ServerStart == Init => ServerInv
<1> SUFFICES ASSUME Init PROVE ServerInv
  OBVIOUS
<1>1. /\ sv = [pc |-> "start", conn |-> None, i |-> 0, closed |-> FALSE,
               complete |-> 0, last |-> 0, buf |-> Junk]
      /\ requests = <<>>
      /\ seen = [finlost |-> FALSE, refused |-> {}, merged |-> {}, broken |-> {}]
      /\ type \in Types /\ rndv \in BOOLEAN
  BY DEF Init
<1>2. sv \in ServerState /\ seen \in History /\ requests \in Queues /\ <<>> \in Streams
  BY <1>1, EventKinds DEF ServerState, History, Queues, Streams
<1>3. ASSUME NEW c \in Clients
      PROVE  /\ cl[c] \in ClientState /\ cl[c].pc = "new" /\ cl[c].i = 0 /\ ~cl[c].fin
             /\ ~cl[c].failed /\ chan[c] = <<>> /\ cwire[c] = <<>> /\ held[c] = <<>>
  BY DEF Init, ClientState
<1>4. StateTypes
  <2>1. /\ cl = [c \in Clients |-> cl[c]] /\ chan = [c \in Clients |-> <<>>]
        /\ cwire = [c \in Clients |-> <<>>] /\ held = [c \in Clients |-> <<>>]
    BY DEF Init
  <2>2. cl \in [Clients -> ClientState]
    BY <1>3, <2>1
  <2> QED
    BY <1>1, <1>2, <2>1, <2>2 DEF StateTypes
<1>5. ASSUME NEW c \in Clients PROVE ClientOK(c)
  <2>1. ~Has(cwire[c], Fin) /\ ~Has(cwire[c], Down)
    BY <1>3 DEF Has
  <2>2. ChanOK(c) /\ SendOK(c) /\ FetchOK(c) /\ PastOK(c)
    BY <1>1, <1>3 DEF ChanOK, SendOK, FetchOK, PastOK
  <2>3. FinOK(c) /\ TroubleOK(c)
    BY <1>3, <2>1 DEF FinOK, TroubleOK, EndedWell, EndedBadly
  <2> QED
    BY <2>2, <2>3 DEF ClientOK
<1>6. QueueInv /\ ServeInv /\ RefuseInv /\ BufferInv /\ ServerExitExplained
  BY <1>1 DEF QueueInv, ServeInv, Serving, RefuseInv, BufferInv, ServerExitExplained
<1>7. HeldInOrder
  BY <1>3 DEF HeldInOrder
<1> QED
  BY <1>4, <1>5, <1>6, <1>7 DEF ServerInv, ClientsInv

(* The invariant holds in every reachable state. *)
THEOREM ServerInvariant == SafeSpec => []ServerInv
  BY ServerStart, ServerStep, PTL DEF SafeSpec

(* In each iteration of client_server_do_work the server has the client's  *)
(* message of that iteration, except where ucp_am_data_cb ran twice in one *)
(* progress call for this client.                                          *)
THEOREM MessagesHeldInOrder == SafeSpec => []HeldInOrder
<1>1. ServerInv => HeldInOrder
  BY DEF ServerInv
<1> QED
  BY <1>1, ServerInvariant, PTL

(* A client that exits with 0 was served in full; one that exits with an   *)
(* error, but in which no call failed, had nothing received from it before *)
(* it was refused or the server ended, or is the one that was served when  *)
(* a call failed in the server.                                            *)
THEOREM ClientsServedOrRejected == SafeSpec => []ClientVerdict
<1>1. ASSUME ServerInv PROVE ClientVerdict
  <2> SUFFICES ASSUME NEW c \in Clients, cl[c].pc = "done"
               PROVE  IF cl[c].ret = 0 THEN Len(held[c]) = NumIterations
                      ELSE \/ c \in seen.broken
                           \/ held[c] = <<>> /\ (c \in seen.refused \/ sv.pc = "exited")
                           \/ sv.pc = "exited" /\ sv.conn = c /\ TheServer \in seen.broken
    BY DEF ClientVerdict
  <2>1. ClientOK(c) /\ cl[c].ret \in {0, 1}
    BY <1>1, Before DEF ClientState
  <2>2. CASE cl[c].ret = 0
    BY <2>1, <2>2 DEF ClientOK, FinOK, EndedWell
  <2>3. CASE cl[c].ret = 1
    <3>1. c \in seen.refused \/ sv.pc = "exited" \/ c \in seen.broken
      BY <2>1, <2>3 DEF ClientOK, TroubleOK, EndedBadly
    <3>2. ~EndedWell(c) /\ (Lost(c) => c \in seen.broken)
      BY <2>3 DEF EndedWell, Lost
    <3>3. CASE c \in seen.refused
      BY <1>1, <2>3, <3>3 DEF ServerInv, RefuseInv
    <3>4. CASE sv.pc = "exited" /\ sv.conn # c
      BY <2>1, <2>3, <3>2, <3>4 DEF ClientOK, PastOK
    <3>5. CASE sv.pc = "exited" /\ sv.conn = c
      BY <1>1, <2>3, <3>2, <3>5 DEF ServerInv, ServerExitExplained
    <3> QED
      BY <2>3, <3>1, <3>3, <3>4, <3>5
  <2> QED
    BY <2>1, <2>2, <2>3
<1> QED
  BY <1>1, ServerInvariant, PTL

(* run_server ends only when a call has failed in it, or when the client   *)
(* whose request it holds has died or a call has failed in that client,    *)
(* whatever clients come, are rejected, and close their endpoints.         *)
THEOREM ServerEndIsExplained == SafeSpec => []ServerExitExplained
<1>1. ServerInv => ServerExitExplained
  BY DEF ServerInv
<1> QED
  BY <1>1, ServerInvariant, PTL

=============================================================================
