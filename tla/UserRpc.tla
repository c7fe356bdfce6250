------------------------------ MODULE UserRpc -------------------------------
(* The example of the framework from end to end: Kclient's threads call    *)
(* the generated stub, KrpcChannel carries the bytes, KrpcProvider looks   *)
(* the method up and dispatches to UserService, and the client counts what *)
(* came back as a success or a failure.  The messages are those of         *)
(* PbCodec.  Every call has a channel and a connection of its own, named   *)
(* after the client and the number of the call.  Of the channel only the   *)
(* outcomes that KrpcCall shows are kept: no connection, a failure it      *)
(* reports, an answer or its beginning, or a connection that ends without  *)
(* one; and OnMessage may get the beginning of a request only.             *)
EXTENDS PbCodec

CONSTANTS Clients,      (* client threads *)
          MaxCalls,     (* bound on the calls of a client *)
          MaxStarts,    (* bound on the provider processes *)
          Operands,     (* what clients add *)
          Expected      (* 123 + 456 of send_add_request *)
ASSUME UserRpcAssumption == /\ Operands \subseteq Int32 /\ Expected \in Int32 \ {0}
                            /\ MaxCalls \in Nat

Connections == Clients \X (1..MaxCalls)

VARIABLES up, starts,   (* the provider process, and how many there were *)
          service_map,  (* methods NotifyService has entered *)
          cpc,          (* what a client thread does *)
          asked,        (* by connection: method and request of the call *)
          conn,         (* the provider's end: "none", "open", "closed" *)
          frame,        (* header and arguments on their way *)
          torn,         (* OnMessage got the beginning of the request only *)
          running,      (* method and request an IO thread works on *)
          answer,       (* the response on its way *)
          computed,     (* what the method answered *)
          response, failed, silent, (* by client: what CallMethod left *)
                        (* behind, and whether nothing was received at all *)
          calls, success_count, fail_count

serverVars == <<up, starts, service_map, running, computed>>
netVars == <<conn, frame, torn, answer>>
clientVars == <<cpc, asked, response, failed, silent, calls, success_count, fail_count>>
vars == <<serverVars, netVars, clientVars>>

(* method->index() counts from 0, sequences from 1. *)
Methods == 1..3
Login == 1
Register == 2
Add == 3

Service == Text(1)
MethodName(i) == Text(i)

(* UserServiceRpc::GetRequestPrototype, GetResponsePrototype. *)
RequestPrototype(i) == <<LoginRequest, RegisterRequest, AddRequest>>[i]
ResponsePrototype(i) == <<LoginResponse, RegisterResponse, AddResponse>>[i]

(* What clients send: send_request's name and password, send_add_request's *)
(* operands, a Register of any kind, each possibly with a field of a newer *)
(* user.proto.                                                             *)
Newer == {<<>>, <<Tagged(9, 0, 1)>>}
Requests(i) ==
    LET Req(fields) == {[field |-> f, unknown |-> u] : f \in fields, u \in Newer}
    IN  CASE i = Login -> Req({<<Text(1), Text(2)>>})
          [] i = Register -> Req({<<0, Text(1), <<>>>>})
          [] i = Add -> Req({<<a, b>> : a, b \in Operands})

(* A request is short enough for args_size. *)
ASSUME ArgsSizeAssumption ==
    \A i \in Methods : \A req \in Requests(i) : Len(Serialize(RequestPrototype(i), req)) < Width32

None == <<>>

(* The connection of the call a client is in. *)
At(c) == <<c, calls[c]>>

Init == /\ up = FALSE /\ starts = 0 /\ service_map = {}
        /\ cpc = [c \in Clients |-> "idle"]
        /\ asked = [k \in Connections |-> None]
        /\ conn = [k \in Connections |-> "none"]
        /\ frame = [k \in Connections |-> None]
        /\ torn = [k \in Connections |-> FALSE]
        /\ running = [k \in Connections |-> None]
        /\ answer = [k \in Connections |-> None]
        /\ computed = [k \in Connections |-> None]
        /\ response = [c \in Clients |-> None]
        /\ failed = [c \in Clients |-> FALSE]
        /\ silent = [c \in Clients |-> FALSE]
        /\ calls = [c \in Clients |-> 0]
        /\ success_count = [c \in Clients |-> 0]
        /\ fail_count = [c \in Clients |-> 0]
-----------------------------------------------------------------------------
(* Kserver's main: NotifyService enters every method of the service        *)
(* descriptor, whether UserService overrides it or not; then Run.          *)
NotifyService == /\ ~up /\ starts < MaxStarts
                 /\ up' = TRUE
                 /\ starts' = starts + 1
                 /\ service_map' = Methods
                 /\ UNCHANGED <<running, computed, netVars, clientVars>>

(* The process ends; what it was working on and its connections go.        *)
Die == /\ up' = FALSE
       /\ service_map' = {}
       /\ running' = [k \in Connections |-> None]
       /\ frame' = [k \in Connections |-> None]
       /\ conn' = [k \in Connections |-> IF conn[k] = "open" THEN "closed" ELSE conn[k]]

Crash == up /\ Die /\ UNCHANGED <<starts, computed, torn, answer, clientVars>>
-----------------------------------------------------------------------------
(* CallMethod returns to the client. *)
Returns(c, msg, fails, nothing) ==
    /\ cpc' = [cpc EXCEPT ![c] = "returned"]
    /\ response' = [response EXCEPT ![c] = <<msg>>]
    /\ failed' = [failed EXCEPT ![c] = fails]
    /\ silent' = [silent EXCEPT ![c] = nothing]

(* The stub's method hands its descriptor to the channel, which serializes *)
(* the request and sends header and arguments.  Without a connection it    *)
(* returns and tells the controller nothing; when send fails it calls      *)
(* SetFailed.                                                              *)
Stub(c, i, req) ==
    LET args == Serialize(RequestPrototype(i), req)
        header == [field |-> <<Service, MethodName(i), Len(args)>>, unknown |-> <<>>]
        empty == SharedCtor(ResponsePrototype(i))
        k == At(c)'
    IN  /\ cpc[c] = "idle" /\ calls[c] < MaxCalls
        /\ calls' = [calls EXCEPT ![c] = @ + 1]
        /\ asked' = [asked EXCEPT ![k] = <<i, req>>]
        /\ \/ /\ up
              /\ conn' = [conn EXCEPT ![k] = "open"]
              /\ frame' = [frame EXCEPT ![k] = <<Serialize(RpcHeader, header), args>>]
              /\ cpc' = [cpc EXCEPT ![c] = "recv"]
              /\ UNCHANGED <<response, failed, silent>>
           \/ Returns(c, empty, FALSE, TRUE) /\ UNCHANGED <<conn, frame>>
           \/ Returns(c, empty, TRUE, TRUE) /\ UNCHANGED <<conn, frame>>
        /\ UNCHANGED <<serverVars, torn, answer, success_count, fail_count>>

(* recv and ParseFromArray: the answer, the first tags of it, nothing at   *)
(* all when the provider has closed the connection, or an error.           *)
Received(c, bytes) ==
    LET got == Parse(ResponsePrototype(asked[At(c)][1]), bytes)
    IN  Returns(c, got.msg, ~got.ok, bytes = <<>>)

Recv(c) ==
    LET k == At(c)
    IN  /\ cpc[c] = "recv"
        /\ \/ /\ answer[k] # None
              /\ \E n \in 1..Len(answer[k][1]) : Received(c, SubSeq(answer[k][1], 1, n))
           \/ /\ answer[k] = None /\ conn[k] = "closed"
              /\ Received(c, <<>>)
           \/ Returns(c, SharedCtor(ResponsePrototype(asked[k][1])), TRUE, TRUE)
        /\ answer' = [answer EXCEPT ![k] = None]
        /\ UNCHANGED <<serverVars, conn, frame, torn, asked, calls, success_count, fail_count>>

(* The function returns: response and controller go, the provider may      *)
(* still be busy with the request.                                         *)
Leave(c) == /\ response' = [response EXCEPT ![c] = None]
            /\ failed' = [failed EXCEPT ![c] = FALSE]
            /\ silent' = [silent EXCEPT ![c] = FALSE]
            /\ UNCHANGED <<serverVars, netVars, asked, calls>>

(* response.result().errcode(): result() of a message without one is the   *)
(* default instance, whose errcode is 0.                                   *)
Errcode(m) == IF m.field[1] = <<>> THEN 0 ELSE m.field[1][1].field[1]

(* Mutant: the sum is not looked at. *)
CountErrcode(c) ==
    LET won == ~failed[c] /\ Errcode(response[c][1]) = 0
    IN  /\ cpc[c] = "returned"
        /\ cpc' = [cpc EXCEPT ![c] = "idle"]
        /\ success_count' = [success_count EXCEPT ![c] = IF won THEN @ + 1 ELSE @]
        /\ fail_count' = [fail_count EXCEPT ![c] = IF won THEN @ ELSE @ + 1]
        /\ Leave(c)

(* send_request and send_add_request after the call.  For Add the sum must *)
(* be 123 + 456 whatever the operands were.  (A Register is counted like a *)
(* Login.)                                                                 *)
Count(c) ==
    LET won == /\ ~failed[c]
               /\ Errcode(response[c][1]) = 0
               /\ asked[At(c)][1] = Add => response[c][1].field[2] = Expected
    IN  /\ cpc[c] = "returned"
        /\ cpc' = [cpc EXCEPT ![c] = "idle"]
        /\ success_count' = [success_count EXCEPT ![c] = IF won THEN @ + 1 ELSE @]
        /\ fail_count' = [fail_count EXCEPT ![c] = IF won THEN @ ELSE @ + 1]
        /\ Leave(c)
-----------------------------------------------------------------------------
(* What OnMessage may find in its buffer: the request, or its beginning,   *)
(* down to less than a header, as KrpcWire has it.                         *)
Pieces(f) == {<<SubSeq(f[1], 1, n), <<>>>> : n \in 0..Len(f[1])}
                 \union {<<f[1], SubSeq(f[2], 1, n)>> : n \in 0..Len(f[2])}

(* Header, arguments, method and request.  Whether the header was complete *)
(* is not looked at: one that is cut is read as far as it goes.            *)
Readable(f) ==
    LET header == Parse(RpcHeader, f[1])
        size == header.msg.field[3]
    IN  /\ header.ok /\ size <= Len(f[2])
        /\ header.msg.field[1] = Service
        /\ \E i \in service_map :
              /\ header.msg.field[2] = MethodName(i)
              /\ Parse(RequestPrototype(i), SubSeq(f[2], 1, size)).ok

Decoded(f) ==
    LET header == Parse(RpcHeader, f[1]).msg.field
        i == CHOOSE j \in service_map : header[2] = MethodName(j)
    IN  <<i, Parse(RequestPrototype(i), SubSeq(f[2], 1, header[3])).msg>>

(* OnMessage.  What cannot be read, or names no method of the map, is      *)
(* dropped without an answer; and so is the rest of a request that came in *)
(* pieces (or that a short send never sent), as it begins with no header.  *)
OnMessage(k) ==
    /\ up /\ frame[k] # None
    /\ \E piece \in Pieces(frame[k]) :
          /\ torn' = [torn EXCEPT ![k] = (piece # frame[k])]
          /\ running' = IF Readable(piece) THEN [running EXCEPT ![k] = Decoded(piece)] ELSE running
    /\ frame' = [frame EXCEPT ![k] = None]
    /\ UNCHANGED <<up, starts, service_map, computed, conn, answer, clientVars>>

(* UserService::Login and UserService::Add fill the response: the          *)
(* ResultCode is present and empty.  The sum wraps.                        *)
Filled(i, req) ==
    LET code == <<SharedCtor(ResultCode)>>
    IN  [field |-> IF i = Login THEN <<code, TRUE>>
                   ELSE <<code, Signed((req.field[1] + req.field[2]) % Width32)>>,
         unknown |-> <<>>]

(* Mutant: the answer goes to the connection the client has now. *)
CallMethodNow(k) ==
    LET c == k[1]
        filled == Filled(running[k][1], running[k][2])
    IN  /\ running[k] # None /\ running[k][1] \in {Login, Add}
        /\ computed' = [computed EXCEPT ![k] = <<filled>>]
        /\ answer' = [answer EXCEPT ![At(c)] =
             IF cpc[c] = "recv" THEN <<Serialize(ResponsePrototype(running[k][1]), filled)>> ELSE @]
        /\ running' = [running EXCEPT ![k] = None]
        /\ UNCHANGED <<up, starts, service_map, conn, frame, torn, clientVars>>

(* CallMethod dispatches on the index; done->Run() is SendRpcResponse,     *)
(* whose answer goes nowhere when the client has left.                     *)
CallMethod(k) ==
    /\ running[k] # None /\ running[k][1] \in {Login, Add}
    /\ LET i == running[k][1]
           filled == Filled(i, running[k][2])
           waiting == cpc[k[1]] = "recv" /\ At(k[1]) = k
       IN  /\ computed' = [computed EXCEPT ![k] = <<filled>>]
           /\ answer' = [answer EXCEPT ![k] =
                IF waiting THEN <<Serialize(ResponsePrototype(i), filled)>> ELSE @]
    /\ running' = [running EXCEPT ![k] = None]
    /\ UNCHANGED <<up, starts, service_map, conn, frame, torn, clientVars>>

(* UserService does not override Register: the base class calls SetFailed  *)
(* on the controller, which OnMessage passed as nullptr, and the process   *)
(* dies.                                                                   *)
CallUnimplemented(k) ==
    /\ running[k] # None /\ running[k][1] = Register
    /\ Die
    /\ UNCHANGED <<starts, computed, torn, answer, clientVars>>
-----------------------------------------------------------------------------
Next == \/ NotifyService \/ Crash
        \/ \E c \in Clients :
             \/ \E i \in Methods : \E req \in Requests(i) : Stub(c, i, req)
             \/ Recv(c) \/ Count(c)
        \/ \E k \in Connections : OnMessage(k) \/ CallMethod(k) \/ CallUnimplemented(k)

Spec == Init /\ [][Next]_vars
-----------------------------------------------------------------------------
(* Type invariant. *)
TypeOK == /\ up \in BOOLEAN /\ starts \in 0..MaxStarts /\ service_map \in {{}, Methods}
          /\ cpc \in [Clients -> {"idle", "recv", "returned"}]
          /\ failed \in [Clients -> BOOLEAN] /\ silent \in [Clients -> BOOLEAN]
          /\ torn \in [Connections -> BOOLEAN]
          /\ conn \in [Connections -> {"none", "open", "closed"}]
          /\ \A c \in Clients : success_count[c] + fail_count[c] \in {calls[c], calls[c] - 1}

(* What a method may be run with: what the client asked for, or, when TCP  *)
(* cut the request, the method it asked for with an empty request.         *)
AsRun(k) == IF torn[k] THEN <<asked[k][1], SharedCtor(RequestPrototype(asked[k][1]))>> ELSE asked[k]

(* A request that arrives whole, unknown fields included, is read by a     *)
(* provider that is up, which finds the method and hands it the request    *)
(* unchanged.  One that arrives in pieces is dropped, or the method that   *)
(* was asked for runs with an empty request: never another method, never   *)
(* some of the arguments.                                                  *)
DispatchedAsCalled ==
    \A k \in Connections :
        /\ up /\ frame[k] # None => Readable(frame[k]) /\ Decoded(frame[k]) = asked[k]
        /\ running[k] # None => running[k] = AsRun(k)

(* Reading a message in two pieces and merging them gives what reading it  *)
(* at once gives, wherever it was cut.                                     *)
MergeOfPieces ==
    LET Cuts(type, bytes) ==
            \A n \in 0..Len(bytes) :
                MergeFrom(type, Parse(type, SubSeq(bytes, 1, n)).msg,
                                Parse(type, SubSeq(bytes, n + 1, Len(bytes))).msg)
                    = Parse(type, bytes).msg
    IN  \A k \in Connections :
            /\ frame[k] # None => Cuts(RequestPrototype(asked[k][1]), frame[k][2])
            /\ answer[k] # None => Cuts(ResponsePrototype(asked[k][1]), answer[k][1])

(* What a client makes of an answer that arrived, even of its beginning    *)
(* only, comes from this call's method, although the provider may still be *)
(* busy with earlier calls of the client: each field is what the method    *)
(* computed, or was not received.                                          *)
AnswersAgree ==
    \A c \in Clients : cpc[c] = "returned" /\ ~failed[c] /\ ~silent[c] =>
        LET k == At(c)
            type == ResponsePrototype(asked[k][1])
        IN  /\ computed[k] # None
            /\ \A i \in DOMAIN type :
                  response[c][1].field[i] \in {Default(type[i]), computed[k][1].field[i]}

Won(c) == success_count'[c] > success_count[c]

(* What is counted as a success has run, and an Add had the expected sum,  *)
(* whatever was lost on the way; except a Login (or Register) of which     *)
(* nothing at all came back, for want of a connection or because it ended: *)
(* no error is reported and the errcode of an empty response is 0.  (A     *)
(* Login that has run may have run with an empty request, see above.)      *)
SuccessIsReal ==
    [][\A c \in Clients : Won(c) =>
            IF asked[At(c)][1] = Add
            THEN computed[At(c)] # None /\ computed[At(c)][1].field[2] = Expected
            ELSE computed[At(c)] # None \/ (silent[c] /\ ~failed[c])]_vars
=============================================================================
