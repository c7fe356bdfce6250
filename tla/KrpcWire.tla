------------------------------ MODULE KrpcWire ------------------------------
(***************************************************************************)
(* The bytes of one RPC, as KrpcChannel::CallMethod writes them and        *)
(* KrpcProvider::OnMessage reads them back.                                *)
(*                                                                         *)
(* The byte stream is a sequence of cells, one per protobuf field:         *)
(*   len   the varint with the size of the header                          *)
(*   svc   RpcHeader.service_name      mth   RpcHeader.method_name         *)
(*   size  RpcHeader.args_size         args  the serialized request        *)
(* proto3 writes no field that has its default value: a request whose      *)
(* fields are all default has args_size 0 and therefore neither a size     *)
(* nor an args cell.  A reply is a result cell and a value cell.  TCP may  *)
(* cut the stream between any two cells.  A cut inside a cell makes        *)
(* protobuf reject what it cuts, which is also what happens at some cut    *)
(* between cells (inside svc or mth: like after svc; inside args: like     *)
(* after size), so it adds no behaviour on the provider's side.            *)
(***************************************************************************)
EXTENDS Integers, Sequences

CONSTANT DefaultArgs    \* the request all of whose fields have their default value

Cell(p, c, m, a) == [part |-> p, call |-> c, method |-> m, args |-> a]

(* The request of call c: WriteVarint32, the header, the arguments. *)
Frame(c, m, a) ==
    LET parts == IF a = DefaultArgs THEN <<"len", "svc", "mth">>
                                    ELSE <<"len", "svc", "mth", "size", "args">>
    IN  [i \in DOMAIN parts |-> Cell(parts[i], c, m, a)]

(* Where the header that a len cell announces ends. *)
HeaderEnd(cell) == IF cell.args = DefaultArgs THEN 3 ELSE 4

(***************************************************************************)
(* OnMessage on the bytes the buffer holds.  The results of ReadVarint32   *)
(* and of the first ReadString are ignored, so a header that is cut short  *)
(* is parsed as far as it goes: without mth the method name is empty and   *)
(* not found, without size args_size is 0 and the empty arguments parse.   *)
(* Only missing arguments are noticed.  Bytes that do not start at a frame *)
(* do not name a registered service.  Bytes after the first frame are      *)
(* lost with the buffer that retrieveAllAsString emptied.  When a short    *)
(* send left a frame unfinished, the next one's bytes are taken for what   *)
(* is missing; the arguments that then parse are not told apart from the   *)
(* unfinished frame's.                                                     *)
(***************************************************************************)
Rejected == [ok |-> FALSE]

(* Mutant: the arguments are not read. *)
DecodeNoArgs(buf) ==
    LET first == Head(buf)
    IN  IF first.part # "len" \/ Len(buf) < 3 THEN Rejected
        ELSE [ok |-> TRUE, call |-> first.call, method |-> first.method, args |-> DefaultArgs]

Decode(buf) ==
    LET first == Head(buf)
        end == HeaderEnd(first)
        has(p) == \E i \in DOMAIN buf : i <= end /\ buf[i].part = p
        accept(a) == [ok |-> TRUE, call |-> first.call, method |-> first.method, args |-> a]
    IN  IF first.part # "len" \/ ~has("mth") THEN Rejected
        ELSE IF ~has("size") THEN accept(DefaultArgs)
        ELSE IF Len(buf) > end THEN accept(first.args)
        ELSE Rejected

(* SerializeToString of the response to call c, run on arguments a. *)
Reply(c, m, a) == <<Cell("result", c, m, a), Cell("value", c, m, a)>>

(***************************************************************************)
(* ParseFromArray of what one recv returned: no bytes are a valid message  *)
(* with default fields; a reply without its value cell parses too; of      *)
(* several replies the last value wins.                                    *)
(***************************************************************************)
NoResponse == [kind |-> "none"]

ParseReply(bytes) ==
    LET values == {i \in 1..Len(bytes) : bytes[i].part = "value"}
        last == CHOOSE i \in values : \A j \in values : j <= i
    IN  IF bytes = <<>> THEN [kind |-> "default"]
        ELSE IF values = {} THEN [kind |-> "partial", from |-> bytes[Len(bytes)]]
        ELSE [kind |-> "full", from |-> bytes[last]]
=============================================================================
