------------------------------ MODULE PbCodec -------------------------------
(* The messages of example/user.proto and src/Krpcheader.proto, as the     *)
(* code that protoc generated for them reads, writes, merges and clears    *)
(* them.  protoc unrolls the same code for every message; here a message   *)
(* type is the sequence of the kinds of its fields 1, 2, ..., and each     *)
(* generated function is one operator over that sequence.                  *)
EXTENDS Integers, Sequences, SequencesExt

(* The sign bit of an int32 (2^31); a varint on the wire has twice as many *)
(* bits as an int32 or uint32.                                             *)
CONSTANT SignBit
ASSUME SignBitAssumption == SignBit \in Nat \ {0}

Width32 == 2 * SignBit
Width64 == Width32 * Width32
Signed(n) == IF n >= SignBit THEN n - Width32 ELSE n
Int32 == {Signed(n) : n \in 0..Width32 - 1}
-----------------------------------------------------------------------------
(* The message types. *)
ResultCode == <<"int32", "bytes">>                  (* errcode, errmsg *)
LoginRequest == <<"bytes", "bytes">>                (* name, pwd *)
LoginResponse == <<"ResultCode", "bool">>           (* result, success *)
RegisterRequest == <<"uint32", "bytes", "bytes">>   (* id, name, pwd *)
RegisterResponse == <<"ResultCode", "bool">>        (* result, success *)
AddRequest == <<"int32", "int32">>                  (* a, b *)
AddResponse == <<"ResultCode", "int32">>            (* result, sum *)
RpcHeader == <<"bytes", "bytes", "uint32">>         (* service_name, method_name, args_size *)

(* A message holds the values of its fields and the fields it does not     *)
(* know.  The pointer result_ is a sequence of at most one message.        *)
Default(kind) == CASE kind = "bool" -> FALSE
                   [] kind \in {"bytes", "ResultCode"} -> <<>>
                   [] OTHER -> 0

SharedCtor(type) == [field |-> [i \in DOMAIN type |-> Default(type[i])], unknown |-> <<>>]

(* Bytes are a sequence of tagged values: tag >> 3, tag & 7, and a varint  *)
(* or, for wire type 2, the bytes in between.  Wire type 7 stands for      *)
(* bytes that cannot be read as a message, such as a text.                 *)
Tagged(num, wt, val) == [num |-> num, wt |-> wt, val |-> val]
Text(n) == <<Tagged(0, 7, n)>>
WireType(kind) == IF kind \in {"bytes", "ResultCode"} THEN 2 ELSE 0
-----------------------------------------------------------------------------
(* Mutant: a varint is not cut to the width of the field. *)
ReadWide(kind, val) == IF kind = "bool" THEN val # 0 ELSE val

(* ReadVarint64 assigned to the field, InlineGreedyStringParser. *)
ReadValue(kind, val) == CASE kind = "int32" -> Signed(val % Width32)
                          [] kind = "uint32" -> val % Width32
                          [] kind = "bool" -> val # 0
                          [] kind = "bytes" -> val

(* A scalar replaces what was there. *)
StoreScalar(type, m, tagged) ==
    LET read == ReadValue(type[tagged.num], tagged.val)
    IN  [ok |-> TRUE, msg |-> [m EXCEPT !.field = [@ EXCEPT ![tagged.num] = read]]]

(* One turn of the loop of _InternalParse, where stored is the outcome for *)
(* a known field with the wire type its tag must have.  handle_unusual:    *)
(* the tag zero and an end of group end the loop before the limit, for     *)
(* which ParseFromString fails; the rest is kept as an unknown field.      *)
Turn(type, st, tagged, stored) ==
    IF ~st.ok THEN st
    ELSE IF tagged.num \in DOMAIN type /\ tagged.wt = WireType(type[tagged.num]) THEN stored
    ELSE IF tagged.num = 0 \/ tagged.wt \in {4, 7} THEN [st EXCEPT !.ok = FALSE]
    ELSE [ok |-> TRUE, msg |-> [st.msg EXCEPT !.unknown = Append(@, tagged)]]

ParseResultCode(old, bytes) ==
    LET start == [ok |-> TRUE, msg |-> IF old = <<>> THEN SharedCtor(ResultCode) ELSE old[1]]
        st[n \in 0..Len(bytes)] ==
            IF n = 0 THEN start
            ELSE Turn(ResultCode, st[n - 1], bytes[n],
                      StoreScalar(ResultCode, st[n - 1].msg, bytes[n]))
    IN  st[Len(bytes)]

(* A ResultCode is merged into the one that is there. *)
Store(type, m, tagged) ==
    IF type[tagged.num] = "ResultCode"
    THEN LET sub == ParseResultCode(m.field[tagged.num], tagged.val)
         IN  [ok |-> sub.ok, msg |-> [m EXCEPT !.field = [@ EXCEPT ![tagged.num] = <<sub.msg>>]]]
    ELSE StoreScalar(type, m, tagged)

(* MergeFromString, and ParseFromString, which clears the message first. *)
ParseInto(type, m, bytes) ==
    LET st[n \in 0..Len(bytes)] ==
            IF n = 0 THEN [ok |-> TRUE, msg |-> m]
            ELSE Turn(type, st[n - 1], bytes[n], Store(type, st[n - 1].msg, bytes[n]))
    IN  st[Len(bytes)]

Parse(type, bytes) == ParseInto(type, SharedCtor(type), bytes)
-----------------------------------------------------------------------------
(* WriteInt32ToArray extends the sign to 64 bits. *)
WriteScalar(kind, val) == CASE kind = "int32" -> IF val < 0 THEN val + Width64 ELSE val
                            [] kind = "bool" -> IF val THEN 1 ELSE 0
                            [] OTHER -> val

(* A field that has its default value is not written.  A ResultCode that   *)
(* is present is written even when it is empty.                            *)
Field(type, m, i, written) == IF m.field[i] = Default(type[i]) THEN <<>>
                              ELSE <<Tagged(i, WireType(type[i]), written)>>

SerializeResultCode(r) ==
    FlattenSeq([i \in DOMAIN ResultCode |->
                   Field(ResultCode, r, i, WriteScalar(ResultCode[i], r.field[i]))]) \o r.unknown

WriteValue(kind, val) == IF kind = "ResultCode" THEN SerializeResultCode(val[1])
                                                ELSE WriteScalar(kind, val)

(* _InternalSerialize: fields in the order of their numbers, then the      *)
(* unknown ones.                                                           *)
Serialize(type, m) ==
    FlattenSeq([i \in DOMAIN type |-> Field(type, m, i, WriteValue(type[i], m.field[i]))])
        \o m.unknown
-----------------------------------------------------------------------------
(* A field of the other message that is set replaces this one's. *)
MergedScalar(kind, mine, theirs) == IF theirs = Default(kind) THEN mine ELSE theirs

MergeResultCode(r, from) ==
    [field |-> [i \in DOMAIN ResultCode |-> MergedScalar(ResultCode[i], r.field[i], from.field[i])],
     unknown |-> r.unknown \o from.unknown]

(* Mutant: unknown fields of the other message are dropped. *)
MergeKnown(type, m, from) ==
    [field |-> [i \in DOMAIN type |-> MergedScalar(type[i], m.field[i], from.field[i])],
     unknown |-> m.unknown]

(* MergeFrom: a message is merged, unknown fields are appended. *)
MergeFrom(type, m, from) ==
    LET Merged(i) == IF type[i] = "ResultCode" /\ m.field[i] # <<>> /\ from.field[i] # <<>>
                     THEN <<MergeResultCode(m.field[i][1], from.field[i][1])>>
                     ELSE MergedScalar(type[i], m.field[i], from.field[i])
    IN  [field |-> [i \in DOMAIN type |-> Merged(i)], unknown |-> m.unknown \o from.unknown]
=============================================================================
