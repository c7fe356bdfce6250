--------------------------- MODULE UserRpcProofs ----------------------------
(***************************************************************************)
(* Proofs about UserRpc and the messages of PbCodec, for any number of     *)
(* clients, calls and provider processes, any operands and any width of an *)
(* int32.                                                                  *)
(*                                                                         *)
(* Reading and writing are loops over the bytes and over the fields of a   *)
(* type.  What they compute is shown by induction, which is stated with    *)
(* the set of the numbers that have the property: what was written for a   *)
(* message can be read in any order and in any part (ReadAny), two parts   *)
(* merge to what reading both gives (MergeAny), and all of it gives the    *)
(* message back (ReadWritten).  The invariant RpcInv then says that what   *)
(* is on its way, runs or was answered on a connection belongs to the      *)
(* call it was made for, with the request it carried or with an empty one. *)
(***************************************************************************)
EXTENDS UserRpc, SequenceTheorems, WellFoundedInduction, TLAPS

(* A set of numbers that is not empty has a smallest one. *)
LEMMA LeastNumber ==
    ASSUME NEW T \in SUBSET Nat, T # {}
    PROVE  \E x \in T : \A y \in T : x <= y
<1> DEFINE R == OpToRel(<, Nat)
<1>1. IsWellFoundedOn(R, Nat)
  BY NatLessThanWellFounded, Zenon
<1>2. \A x, y \in Nat : <<y, x>> \in R <=> y < x
  BY DEF OpToRel
<1> HIDE DEF R
<1>3. PICK x \in T : \A y \in T : ~ (<<y, x>> \in R)
  BY <1>1, WFMin
<1>4. ASSUME NEW y \in T PROVE x <= y
  <2>1. x \in Nat /\ y \in Nat /\ ~(y < x)
    BY <1>2, <1>3
  <2> QED
    BY <2>1
<1> QED
  BY <1>4

(* Induction, with a set in the place of a predicate. *)
LEMMA Induction ==
    ASSUME NEW S, 0 \in S, \A n \in Nat : n \in S => n + 1 \in S
    PROVE  Nat \subseteq S
<1> DEFINE T == Nat \ S
<1>1. SUFFICES ASSUME T # {} PROVE FALSE
  OBVIOUS
<1>2. PICK x \in T : \A y \in T : x <= y
  BY <1>1, LeastNumber
<1>3. x # 0 /\ x \in Nat
  OBVIOUS
<1>4. x - 1 \in Nat /\ x - 1 \notin T
  BY <1>2, <1>3
<1> QED
  BY <1>3, <1>4
-----------------------------------------------------------------------------
(* One turn of _InternalParse as a whole. *)
After(type, st, tagged) == Turn(type, st, tagged, Store(type, st.msg, tagged))

(* g is what the loop of ParseInto goes through in its first N turns. *)
Run(g, type, m, bytes, N) ==
    g = [n \in 0..N |-> IF n = 0 THEN [ok |-> TRUE, msg |-> m]
                        ELSE After(type, g[n - 1], bytes[n])]

LEMMA RunStep ==
    ASSUME NEW type, NEW m, NEW bytes, NEW N \in Nat, NEW g, Run(g, type, m, bytes, N),
           NEW n \in Nat, n < N
    PROVE  g[n + 1] = After(type, g[n], bytes[n + 1])
<1>1. n + 1 \in 0..N /\ n + 1 # 0 /\ (n + 1) - 1 = n
  OBVIOUS
<1> DEFINE k == n + 1
<1> HIDE DEF k
<1>2. g[k] = After(type, g[k - 1], bytes[k])
  BY <1>1 DEF Run, k
<1> QED
  BY <1>1, <1>2 DEF k

(* The loop has such a run for every number of turns, *)
LEMMA RunExists ==
    ASSUME NEW type, NEW m, NEW bytes
    PROVE  \A N \in Nat : \E g : Run(g, type, m, bytes, N)
<1> DEFINE S == {N \in Nat : \E g : Run(g, type, m, bytes, N)}
<1>1. 0 \in S
  <2> DEFINE g == [n \in 0..0 |-> [ok |-> TRUE, msg |-> m]]
  <2>1. Run(g, type, m, bytes, 0)
    BY DEF Run
  <2> QED
    BY <2>1
<1>2. ASSUME NEW N \in Nat, N \in S PROVE N + 1 \in S
  <2>1. PICK g : Run(g, type, m, bytes, N)
    BY <1>2
  <2>6. \A k \in Nat : k < N => g[k + 1] = After(type, g[k], bytes[k + 1])
    BY <2>1, RunStep
  <2> DEFINE h == [n \in 0..(N + 1) |-> IF n <= N THEN g[n] ELSE After(type, g[N], bytes[N + 1])]
  <2>5. \A k \in 0..(N + 1) : k <= N => h[k] = g[k]
    OBVIOUS
  <2>2. ASSUME NEW n \in 0..(N + 1)
        PROVE  h[n] = IF n = 0 THEN [ok |-> TRUE, msg |-> m] ELSE After(type, h[n - 1], bytes[n])
    <3>1. CASE n = 0
      BY <2>1, <3>1 DEF Run
    <3>2. CASE n \in 1..N
      <4>4. n \in 0..(N + 1) /\ n <= N /\ n - 1 \in 0..(N + 1) /\ n - 1 <= N
        BY <3>2
      <4> HIDE DEF h
      <4>1. h[n] = g[n] /\ h[n - 1] = g[n - 1]
        BY <2>5, <4>4
      <4>2. PICK k \in Nat : k = n - 1 /\ k < N /\ k + 1 = n
        BY <3>2
      <4>3. g[k + 1] = After(type, g[k], bytes[k + 1])
        BY <2>6, <4>2
      <4> QED
        BY <3>2, <4>1, <4>2, <4>3
    <3>3. CASE n = N + 1
      <4>1. h[n] = After(type, g[N], bytes[n]) /\ h[n - 1] = g[N] /\ n # 0
        BY <3>3
      <4> HIDE DEF h
      <4> QED
        BY <3>3, <4>1
    <3> QED
      BY <3>1, <3>2, <3>3
  <2>3. h = [n \in 0..(N + 1) |-> h[n]]
    OBVIOUS
  <2> HIDE DEF h
  <2>4. Run(h, type, m, bytes, N + 1)
    BY <2>2, <2>3 DEF Run
  <2> QED
    BY <2>4
<1> HIDE DEF S
<1>3. Nat \subseteq S
  BY <1>1, <1>2, Induction
<1> QED
  BY <1>3 DEF S

(* and bytes that begin alike have runs that begin alike. *)
LEMMA RunUnique ==
    ASSUME NEW type, NEW m, NEW b, NEW d, NEW M \in Nat, NEW N \in Nat, M <= N,
           NEW g, NEW h, Run(g, type, m, b, M), Run(h, type, m, d, N),
           \A n \in 1..M : b[n] = d[n]
    PROVE  g[M] = h[M]
<1> DEFINE S == {n \in Nat : n <= M => g[n] = h[n]}
<1>1. 0 \in S
  BY DEF Run
<1>2. ASSUME NEW n \in Nat, n \in S PROVE n + 1 \in S
  <2>1. SUFFICES ASSUME n + 1 <= M PROVE g[n + 1] = h[n + 1]
    OBVIOUS
  <2>2. g[n] = h[n] /\ b[n + 1] = d[n + 1]
    BY <1>2, <2>1
  <2>3. g[n + 1] = After(type, g[n], b[n + 1]) /\ h[n + 1] = After(type, h[n], d[n + 1])
    BY <2>1, RunStep
  <2> QED
    BY <2>2, <2>3
<1> HIDE DEF S
<1>3. Nat \subseteq S
  BY <1>1, <1>2, Induction
<1> QED
  BY <1>3 DEF S

LEMMA ParseIsRun ==
    ASSUME NEW type, NEW m, NEW bytes, Len(bytes) \in Nat
    PROVE  \E g : Run(g, type, m, bytes, Len(bytes)) /\ ParseInto(type, m, bytes) = g[Len(bytes)]
<1> DEFINE g == CHOOSE st : st = [n \in 0..Len(bytes) |->
                    IF n = 0 THEN [ok |-> TRUE, msg |-> m]
                    ELSE Turn(type, st[n - 1], bytes[n], Store(type, st[n - 1].msg, bytes[n]))]
<1>1. \E st : st = [n \in 0..Len(bytes) |->
                    IF n = 0 THEN [ok |-> TRUE, msg |-> m]
                    ELSE Turn(type, st[n - 1], bytes[n], Store(type, st[n - 1].msg, bytes[n]))]
  <2>1. PICK st : Run(st, type, m, bytes, Len(bytes))
    BY RunExists
  <2>2. st = [n \in 0..Len(bytes) |->
                    IF n = 0 THEN [ok |-> TRUE, msg |-> m]
                    ELSE Turn(type, st[n - 1], bytes[n], Store(type, st[n - 1].msg, bytes[n]))]
    BY <2>1, Zenon DEF Run, After
  <2> QED
    BY <2>2, Zenon
<1>2. g = [n \in 0..Len(bytes) |->
                    IF n = 0 THEN [ok |-> TRUE, msg |-> m]
                    ELSE Turn(type, g[n - 1], bytes[n], Store(type, g[n - 1].msg, bytes[n]))]
  BY <1>1
<1>3. ParseInto(type, m, bytes) = g[Len(bytes)]
  BY DEF ParseInto
<1> HIDE DEF g
<1>4. Run(g, type, m, bytes, Len(bytes))
  BY <1>2 DEF Run, After
<1> QED
  BY <1>3, <1>4

(* What _InternalParse makes of no bytes, and of one tagged value more. *)
LEMMA ParseNone ==
    ASSUME NEW type, NEW m
    PROVE  ParseInto(type, m, <<>>) = [ok |-> TRUE, msg |-> m]
<1>1. Len(<<>>) = 0
  OBVIOUS
<1>2. PICK g : Run(g, type, m, <<>>, 0) /\ ParseInto(type, m, <<>>) = g[0]
  BY <1>1, ParseIsRun
<1> QED
  BY <1>2 DEF Run

LEMMA ParseMore ==
    ASSUME NEW type, NEW m, NEW V, NEW s \in Seq(V), NEW e \in V
    PROVE  ParseInto(type, m, Append(s, e)) = After(type, ParseInto(type, m, s), e)
<1> DEFINE N == Len(s)
           b == Append(s, e)
<1>1. N \in Nat /\ Len(b) = N + 1 /\ b[N + 1] = e /\ \A n \in 1..N : s[n] = b[n]
  OBVIOUS
<1> HIDE DEF b, N
<1>2. PICK g : Run(g, type, m, s, N) /\ ParseInto(type, m, s) = g[N]
  BY <1>1, ParseIsRun DEF N
<1>3. PICK h : Run(h, type, m, b, N + 1) /\ ParseInto(type, m, b) = h[N + 1]
  BY <1>1, ParseIsRun
<1>4. g[N] = h[N]
  BY <1>1, <1>2, <1>3, RunUnique
<1>5. h[N + 1] = After(type, h[N], b[N + 1])
  <2>1. PICK M \in Nat : M = N + 1
    BY <1>1
  <2>2. Run(h, type, m, b, M) /\ N < M /\ N \in Nat
    BY <1>1, <1>3, <2>1
  <2> QED
    BY <2>2, RunStep
<1> QED
  BY <1>1, <1>2, <1>3, <1>4, <1>5 DEF b

-----------------------------------------------------------------------------
(* The numbers: what WriteInt32ToArray extends to 64 bits is cut to the    *)
(* same 32 bits by the reader.                                             *)
LEMMA WholeMultiples ==
    ASSUME NEW w \in Nat \ {0}, NEW q \in Int, NEW r \in 0..(w - 1)
    PROVE  (q * w + r) % w = r
<1> DEFINE a == q * w + r
<1>1. a \in Int
  OBVIOUS
<1> HIDE DEF a
<1>2. PICK d \in Int, e \in 0..(w - 1) : a = d * w + e /\ e = a % w
  <2>1. a % w \in 0..(w - 1) /\ a \div w \in Int
    BY <1>1
  <2>2. a = (a \div w) * w + (a % w)
    BY <1>1
  <2> QED
    BY <2>1, <2>2
<1>3. (d - q) * w = r - e
  BY <1>2 DEF a
<1>4. PICK k \in Int : k = d - q
  OBVIOUS
<1>5. k * w = r - e /\ r - e < w /\ -w < r - e
  BY <1>3, <1>4
<1>6. k < 1
  BY <1>5
<1>7. k > -1
  BY <1>5
<1>8. r = e
  BY <1>5, <1>6, <1>7
<1> QED
  BY <1>2, <1>8 DEF a

LEMMA Widths == Width32 \in Nat \ {0} /\ Width32 = SignBit + SignBit /\ SignBit \in Nat \ {0}
  BY SignBitAssumption DEF Width32

LEMMA Int32Range == \A v \in Int32 : v \in Int /\ -SignBit <= v /\ v < SignBit
  BY Widths DEF Int32, Signed

LEMMA Int32Read ==
    ASSUME NEW v \in Int32
    PROVE  Signed((IF v < 0 THEN v + Width64 ELSE v) % Width32) = v
<1>1. v \in Int /\ -SignBit <= v /\ v < SignBit
  BY Int32Range
<1>2. CASE v < 0
  <2> DEFINE q == Width32 - 1
             r == v + Width32
  <2>1. q \in Int /\ r \in 0..(Width32 - 1) /\ r >= SignBit
    BY <1>1, <1>2, Widths
  <2>2. q * Width32 + r = v + Width64
    BY <1>1, Widths DEF Width64
  <2>3. (q * Width32 + r) % Width32 = r
    BY <2>1, Widths, WholeMultiples
  <2>4. (v + Width64) % Width32 = r
    BY <2>2, <2>3
  <2>5. Signed(r) = v
    BY <1>1, <2>1, Widths DEF Signed
  <2> QED
    BY <1>2, <2>4, <2>5
<1>3. CASE v >= 0
  <2>1. v \in 0..(Width32 - 1) /\ 0 * Width32 + v = v
    BY <1>1, <1>3, Widths
  <2>3. 0 \in Int /\ Width32 \in Nat \ {0}
    BY Widths
  <2>4. (0 * Width32 + v) % Width32 = v
    BY <2>1, <2>3, WholeMultiples
  <2>2. v % Width32 = v
    BY <2>1, <2>4
  <2> QED
    BY <1>1, <1>3, <2>2, Widths DEF Signed
<1> QED
  BY <1>1, <1>2, <1>3

Kinds == {"int32", "uint32", "bool", "bytes", "ResultCode"}
EmptyCode == SharedCtor(ResultCode)

(* What a field may hold.  Of the ResultCodes those without a field set,   *)
(* which is what UserService sends.                                        *)
Fits(kind, v) == /\ kind = "int32" => v \in Int32
                 /\ kind = "uint32" => v \in 0..(Width32 - 1)
                 /\ kind = "bool" => v \in BOOLEAN
                 /\ kind = "ResultCode" => v \in {<<>>, <<EmptyCode>>}

(* A scalar is read as it was written. *)
LEMMA ScalarRead ==
    ASSUME NEW kind \in Kinds \ {"ResultCode"}, NEW v, Fits(kind, v)
    PROVE  ReadValue(kind, WriteScalar(kind, v)) = v
<1>1. CASE kind = "int32"
  BY <1>1, Int32Read DEF ReadValue, WriteScalar, Fits
<1>2. CASE kind = "uint32"
  <2>1. v \in 0..(Width32 - 1) /\ 0 * Width32 + v = v
    BY <1>2, Widths DEF Fits
  <2>2. v % Width32 = v
    BY <2>1, Widths, WholeMultiples
  <2> QED
    BY <1>2, <2>2 DEF ReadValue, WriteScalar
<1>3. CASE kind = "bool"
  BY <1>3 DEF ReadValue, WriteScalar, Fits
<1>4. CASE kind = "bytes"
  BY <1>4 DEF ReadValue, WriteScalar
<1> QED
  BY <1>1, <1>2, <1>3, <1>4 DEF Kinds

-----------------------------------------------------------------------------
(* The same for FlattenSeq, with which the fields of a message are written *)
(* one after another.                                                      *)
Joined(g, F, N) == g = [i \in 1..N |-> IF i = 1 THEN F[i] ELSE g[i - 1] \o F[i]]

LEMMA JoinedStep ==
    ASSUME NEW F, NEW N \in Nat, NEW g, Joined(g, F, N), NEW n \in Nat \ {0}, n < N
    PROVE  g[n + 1] = g[n] \o F[n + 1]
<1>1. n + 1 \in 1..N /\ n + 1 # 1 /\ (n + 1) - 1 = n
  OBVIOUS
<1> DEFINE k == n + 1
<1> HIDE DEF k
<1>2. g[k] = g[k - 1] \o F[k]
  BY <1>1 DEF Joined, k
<1> QED
  BY <1>1, <1>2 DEF k

GrowsBy(g, F, N) == \A k \in Nat \ {0} : k < N => g[k + 1] = g[k] \o F[k + 1]

LEMMA JoinedSteps ==
    ASSUME NEW F, NEW N \in Nat, NEW g, Joined(g, F, N)
    PROVE  GrowsBy(g, F, N)
  BY JoinedStep, Zenon DEF GrowsBy

LEMMA JoinedFirst ==
    ASSUME NEW F, NEW N \in Nat \ {0}, NEW g, Joined(g, F, N)
    PROVE  g[1] = F[1]
<1>1. 1 \in 1..N
  OBVIOUS
<1> QED
  BY <1>1 DEF Joined

LEMMA JoinedExists ==
    ASSUME NEW F
    PROVE  \A N \in Nat : \E g : Joined(g, F, N)
<1> DEFINE S == {N \in Nat : \E g : Joined(g, F, N)}
<1>1. 0 \in S
  <2>1. Joined([n \in 1..0 |-> F[n]], F, 0)
    BY DEF Joined
  <2> QED
    BY <2>1
<1>2. ASSUME NEW N \in Nat, N \in S PROVE N + 1 \in S
  <2>1. PICK g : Joined(g, F, N)
    BY <1>2
  <2>2. GrowsBy(g, F, N)
    BY <2>1, JoinedSteps
  <2>3. N # 0 => g[1] = F[1]
    BY <2>1, JoinedFirst
  <2> DEFINE h == [n \in 1..(N + 1) |-> IF n <= N THEN g[n]
                                        ELSE IF N = 0 THEN F[1] ELSE g[N] \o F[N + 1]]
  <2>4. \A k \in 1..(N + 1) : k <= N => h[k] = g[k]
    OBVIOUS
  <2>5. h[N + 1] = IF N = 0 THEN F[1] ELSE g[N] \o F[N + 1]
    OBVIOUS
  <2>6. h = [n \in 1..(N + 1) |-> h[n]]
    OBVIOUS
  <2> HIDE DEF h
  <2>7. ASSUME NEW n \in 1..(N + 1)
        PROVE  h[n] = IF n = 1 THEN F[n] ELSE h[n - 1] \o F[n]
    <3>1. CASE n = 1
      BY <2>3, <2>4, <2>5, <3>1
    <3>2. CASE n # 1 /\ n <= N
      <4>1. PICK k \in Nat \ {0} : k = n - 1 /\ k < N /\ k + 1 = n /\ k <= N /\ k \in 1..(N + 1)
        BY <3>2
      <4>2. h[k + 1] = g[k + 1] /\ h[k] = g[k] /\ g[k + 1] = g[k] \o F[k + 1]
        BY <2>2, <2>4, <3>2, <4>1 DEF GrowsBy
      <4> QED
        BY <3>2, <4>1, <4>2
    <3>3. CASE n # 1 /\ n = N + 1
      <4>1. N # 0 /\ N \in 1..(N + 1) /\ n - 1 = N
        BY <3>3
      <4>2. h[N] = g[N]
        BY <2>4, <4>1
      <4>3. h[N + 1] = g[N] \o F[N + 1]
        BY <2>5, <4>1
      <4> QED
        BY <3>3, <4>1, <4>2, <4>3
    <3> QED
      BY <3>1, <3>2, <3>3
  <2>8. Joined(h, F, N + 1)
    BY <2>6, <2>7 DEF Joined
  <2> QED
    BY <2>8
<1> HIDE DEF S
<1>3. Nat \subseteq S
  BY <1>1, <1>2, Induction
<1> QED
  BY <1>3 DEF S

LEMMA FlattenIsJoined ==
    ASSUME NEW F, Len(F) \in Nat \ {0}
    PROVE  \E g : Joined(g, F, Len(F)) /\ FlattenSeq(F) = g[Len(F)]
<1> DEFINE g == CHOOSE fl : fl = [i \in 1..Len(F) |-> IF i = 1 THEN F[i] ELSE fl[i - 1] \o F[i]]
<1>1. \E fl : fl = [i \in 1..Len(F) |-> IF i = 1 THEN F[i] ELSE fl[i - 1] \o F[i]]
  BY JoinedExists DEF Joined
<1>2. g = [i \in 1..Len(F) |-> IF i = 1 THEN F[i] ELSE g[i - 1] \o F[i]]
  BY <1>1, Zenon
<1>3. FlattenSeq(F) = g[Len(F)]
  BY Zenon DEF FlattenSeq
<1> HIDE DEF g
<1>4. Joined(g, F, Len(F))
  BY <1>2, Zenon DEF Joined
<1> QED
  BY <1>3, <1>4

LEMMA Flattened ==
    ASSUME NEW F, NEW N \in Nat \ {0}, Len(F) = N
    PROVE  \E g : /\ FlattenSeq(F) = g[N] /\ g[1] = F[1]
                  /\ GrowsBy(g, F, N)
<1>1. PICK g : Joined(g, F, N) /\ FlattenSeq(F) = g[N]
  BY FlattenIsJoined
<1>2. g[1] = F[1]
  BY <1>1, JoinedFirst
<1>3. GrowsBy(g, F, N)
  <2>1. N \in Nat /\ Joined(g, F, N)
    BY <1>1
  <2> QED
    BY <2>1, JoinedSteps
<1> QED
  BY <1>1, <1>2, <1>3

(* The empty ResultCode is written as no bytes at all, *)
LEMMA EmptyCodeWritten == SerializeResultCode(EmptyCode) = <<>>
<1> DEFINE Part(i) == Field(ResultCode, EmptyCode, i,
                            WriteScalar(ResultCode[i], EmptyCode.field[i]))
           F == [i \in DOMAIN ResultCode |-> Part(i)]
<1>1. DOMAIN ResultCode = 1..2 /\ EmptyCode.unknown = <<>>
      /\ \A i \in 1..2 : EmptyCode.field[i] = Default(ResultCode[i])
  BY DEF ResultCode, EmptyCode, SharedCtor
<1>2. Part(1) = <<>> /\ Part(2) = <<>>
  BY <1>1 DEF Field
<1> HIDE DEF Part
<1>3. Len(F) = 2 /\ F[1] = <<>> /\ F[2] = <<>>
  BY <1>1, <1>2
<1> HIDE DEF F
<1>4. FlattenSeq(F) = F[1] \o F[2]
  <2>1. PICK N \in Nat \ {0}, one \in Nat \ {0} : N = Len(F) /\ one = 1 /\ one < N /\ one + 1 = N
    BY <1>3
  <2>2. PICK g : /\ FlattenSeq(F) = g[N] /\ g[1] = F[1]
                 /\ GrowsBy(g, F, N)
    BY <2>1, Flattened
  <2>3. g[one + 1] = g[one] \o F[one + 1]
    BY <2>1, <2>2 DEF GrowsBy
  <2> QED
    BY <1>3, <2>1, <2>2, <2>3
<1>6. FlattenSeq(F) = <<>>
  BY <1>3, <1>4
<1> QED
  BY <1>1, <1>6 DEF SerializeResultCode, F, Part

(* and reading no bytes leaves a ResultCode as it is. *)
LEMMA EmptyCodeRead ==
    ASSUME NEW old
    PROVE  ParseResultCode(old, <<>>) =
               [ok |-> TRUE, msg |-> IF old = <<>> THEN EmptyCode ELSE old[1]]
<1> DEFINE start == [ok |-> TRUE, msg |-> IF old = <<>> THEN SharedCtor(ResultCode) ELSE old[1]]
           b == <<>>
           Body(st, n) == IF n = 0 THEN start
                          ELSE Turn(ResultCode, st[n - 1], b[n],
                                    StoreScalar(ResultCode, st[n - 1].msg, b[n]))
           g == CHOOSE st : st = [n \in 0..Len(b) |-> Body(st, n)]
<1>1. ParseResultCode(old, <<>>) = g[Len(b)]
  BY DEF ParseResultCode
<1>2. Len(b) = 0 /\ \A st : Body(st, 0) = start
  OBVIOUS
<1> HIDE DEF Body, b, start
<1>3. 0..0 = {0}
  OBVIOUS
<1>4. [n \in 0..0 |-> start] = [n \in 0..0 |-> Body([k \in 0..0 |-> start], n)]
  BY <1>2, <1>3
<1>5. g = [n \in 0..0 |-> Body(g, n)]
  BY <1>2, <1>4
<1> HIDE DEF g
<1>6. g[0] = start
  BY <1>2, <1>5
<1> QED
  BY <1>1, <1>2, <1>6 DEF start, EmptyCode

-----------------------------------------------------------------------------
(* Tagged values that _InternalParse of a type stores in a field, and      *)
(* those that it keeps as unknown.                                         *)
Known(type, e) == e.num \in DOMAIN type /\ e.wt = WireType(type[e.num])
Kept(type, e) == ~Known(type, e) /\ e.num # 0 /\ e.wt \notin {4, 7}

Types == Seq(Kinds) \ {<<>>}
Others(m) == {m.unknown[k] : k \in DOMAIN m.unknown}

(* A message of a type. *)
Message(type, m) ==
    /\ m = [field |-> m.field, unknown |-> m.unknown]
    /\ m.field = [i \in DOMAIN type |-> m.field[i]]
    /\ \A i \in DOMAIN type : Fits(type[i], m.field[i])
    /\ m.unknown \in Seq(Others(m))
    /\ \A e \in Others(m) : Kept(type, e)

(* What Serialize writes for it: its fields that are set, and the unknown. *)
SetFields(type, m) == {i \in DOMAIN type : m.field[i] # Default(type[i])}
Entry(type, m, i) == Tagged(i, WireType(type[i]), WriteValue(type[i], m.field[i]))
Written(type, m) == {Entry(type, m, i) : i \in SetFields(type, m)} \union Others(m)

(* A part of a message: each field is the message's or not set. *)
PartOf(type, m, x) ==
    /\ x = [field |-> x.field, unknown |-> x.unknown]
    /\ x.field = [i \in DOMAIN type |-> x.field[i]]
    /\ \A i \in DOMAIN type : x.field[i] \in {Default(type[i]), m.field[i]}
    /\ x.unknown \in Seq(Others(m))

(* The part x with e of the message read, too. *)
With(type, m, x, e) ==
    IF Known(type, e) THEN [field |-> [x.field EXCEPT ![e.num] = m.field[e.num]],
                            unknown |-> x.unknown]
    ELSE [field |-> x.field, unknown |-> Append(x.unknown, e)]

LEMMA WrittenKinds ==
    ASSUME NEW type \in Types, NEW m, Message(type, m), NEW e \in Written(type, m)
    PROVE  \/ /\ Known(type, e) /\ e.num \in SetFields(type, m)
              /\ e.val = WriteValue(type[e.num], m.field[e.num])
           \/ Kept(type, e) /\ e \in Others(m)
<1>1. CASE e \in Others(m)
  BY <1>1 DEF Message
<1>2. CASE \E i \in SetFields(type, m) : e = Entry(type, m, i)
  <2>1. PICK i \in SetFields(type, m) : e = Entry(type, m, i)
    BY <1>2
  <2>2. e.num = i /\ e.wt = WireType(type[i]) /\ e.val = WriteValue(type[i], m.field[i])
    BY <2>1 DEF Entry, Tagged
  <2>3. i \in DOMAIN type
    BY DEF SetFields
  <2> QED
    BY <2>2, <2>3 DEF Known
<1> QED
  BY <1>1, <1>2 DEF Written

LEMMA TypeFacts ==
    ASSUME NEW type \in Types
    PROVE  /\ Len(type) \in Nat \ {0} /\ DOMAIN type = 1..Len(type)
           /\ \A i \in DOMAIN type : type[i] \in Kinds /\ i # 0
<1>1. type \in Seq(Kinds) /\ type # <<>>
  BY DEF Types
<1> QED
  BY <1>1

(* The store of a known field gives it the message's value. *)
LEMMA StoreWritten ==
    ASSUME NEW type \in Types, NEW m, Message(type, m), NEW x, PartOf(type, m, x),
           NEW e, Known(type, e), e.num \in SetFields(type, m),
           e.val = WriteValue(type[e.num], m.field[e.num])
    PROVE  Store(type, x, e) = [ok |-> TRUE, msg |-> With(type, m, x, e)]
<1> DEFINE i == e.num
           kind == type[i]
           v == m.field[i]
<1>1. i \in DOMAIN type /\ kind \in Kinds /\ v # Default(kind) /\ Fits(kind, v)
  BY TypeFacts DEF SetFields, Message
<1>2. \A w : [x EXCEPT !.field = [@ EXCEPT ![i] = w]]
                 = [field |-> [x.field EXCEPT ![i] = w], unknown |-> x.unknown]
  BY DEF PartOf
<1>3. With(type, m, x, e) = [field |-> [x.field EXCEPT ![i] = v], unknown |-> x.unknown]
  BY DEF With
<1>4. CASE kind # "ResultCode"
  <2>1. e.val = WriteScalar(kind, v)
    BY <1>4 DEF WriteValue
  <2>2. ReadValue(kind, e.val) = v
    BY <1>1, <1>4, <2>1, ScalarRead
  <2>3. Store(type, x, e) = StoreScalar(type, x, e)
    BY <1>4 DEF Store
  <2> QED
    BY <1>2, <1>3, <2>2, <2>3 DEF StoreScalar
<1>5. CASE kind = "ResultCode"
  <2>1. v = <<EmptyCode>> /\ Default(kind) = <<>>
    BY <1>1, <1>5 DEF Fits, Default
  <2>2. e.val = <<>>
    BY <1>5, <2>1, EmptyCodeWritten DEF WriteValue
  <2>3. x.field[i] \in {<<>>, <<EmptyCode>>}
    BY <1>1, <2>1 DEF PartOf
  <2>4. ParseResultCode(x.field[i], e.val) = [ok |-> TRUE, msg |-> EmptyCode]
    BY <2>2, <2>3, EmptyCodeRead
  <2>5. Store(type, x, e) =
            [ok |-> TRUE, msg |-> [x EXCEPT !.field = [@ EXCEPT ![i] = <<EmptyCode>>]]]
    <3>1. PICK sub : /\ sub = ParseResultCode(x.field[i], e.val)
                     /\ sub.ok = TRUE /\ sub.msg = EmptyCode
      BY <2>4
    <3>2. Store(type, x, e) =
              [ok |-> sub.ok, msg |-> [x EXCEPT !.field = [@ EXCEPT ![i] = <<sub.msg>>]]]
      BY <1>5, <3>1 DEF Store
    <3> QED
      BY <3>1, <3>2
  <2> QED
    BY <1>2, <1>3, <2>1, <2>5
<1> QED
  BY <1>4, <1>5

(* One turn for something that was written for the message. *)
LEMMA TurnWritten ==
    ASSUME NEW type \in Types, NEW m, Message(type, m), NEW x, PartOf(type, m, x),
           NEW e \in Written(type, m)
    PROVE  /\ After(type, [ok |-> TRUE, msg |-> x], e)
                  = [ok |-> TRUE, msg |-> With(type, m, x, e)]
           /\ PartOf(type, m, With(type, m, x, e))
<1> DEFINE st == [ok |-> TRUE, msg |-> x]
<1>1. st.ok = TRUE /\ st.msg = x
  OBVIOUS
<1>2. CASE Known(type, e) /\ e.num \in SetFields(type, m)
           /\ e.val = WriteValue(type[e.num], m.field[e.num])
  <2>1. Store(type, x, e) = [ok |-> TRUE, msg |-> With(type, m, x, e)]
    BY <1>2, StoreWritten
  <2>2. After(type, st, e) = Store(type, x, e)
    BY <1>1, <1>2 DEF After, Turn, Known
  <2>3. With(type, m, x, e) = [field |-> [x.field EXCEPT ![e.num] = m.field[e.num]],
                               unknown |-> x.unknown]
    BY <1>2 DEF With
  <2>4. PartOf(type, m, With(type, m, x, e))
    BY <2>3 DEF PartOf
  <2> QED
    BY <2>1, <2>2, <2>4
<1>3. CASE Kept(type, e) /\ e \in Others(m)
  <2>1. With(type, m, x, e) = [field |-> x.field, unknown |-> Append(x.unknown, e)]
    BY <1>3 DEF With, Kept
  <2>2. After(type, st, e) = [ok |-> TRUE, msg |-> [x EXCEPT !.unknown = Append(@, e)]]
    BY <1>1, <1>3 DEF After, Turn, Kept, Known
  <2>3. [x EXCEPT !.unknown = Append(@, e)] = [field |-> x.field, unknown |-> Append(x.unknown, e)]
    BY DEF PartOf
  <2>4. After(type, st, e) = [ok |-> TRUE, msg |-> With(type, m, x, e)]
    BY <2>1, <2>2, <2>3, Zenon
  <2>5. Append(x.unknown, e) \in Seq(Others(m))
    BY <1>3 DEF PartOf
  <2>6. PartOf(type, m, With(type, m, x, e))
    BY <2>1, <2>5 DEF PartOf
  <2> QED
    BY <2>4, <2>6
<1> QED
  BY <1>2, <1>3, WrittenKinds

-----------------------------------------------------------------------------
LEMMA TakeLast ==
    ASSUME NEW V, NEW n \in Nat, NEW s \in Seq(V), Len(s) = n + 1
    PROVE  \E t \in Seq(V), e \in V : Len(t) = n /\ s = Append(t, e)
<1> DEFINE t == SubSeq(s, 1, n)
           e == s[n + 1]
<1>1. t \in Seq(V) /\ Len(t) = n /\ \A k \in 1..n : t[k] = s[k]
  OBVIOUS
<1>2. e \in V
  OBVIOUS
<1>3. s = Append(t, e)
  BY <1>1
<1> QED
  BY <1>1, <1>2, <1>3

LEMMA JoinOne ==
    ASSUME NEW V, NEW s \in Seq(V), NEW e \in V
    PROVE  s \o <<>> = s /\ <<>> \o s = s /\ s \o <<e>> = Append(s, e) /\ Append(s, e) \in Seq(V)
  OBVIOUS

LEMMA JoinAppend ==
    ASSUME NEW V, NEW s \in Seq(V), NEW t \in Seq(V), NEW e \in V
    PROVE  s \o Append(t, e) = Append(s \o t, e) /\ s \o t \in Seq(V)
  OBVIOUS

LEMMA Grow ==
    ASSUME NEW V, NEW s \in Seq(V), NEW j \in Nat, j < Len(s)
    PROVE  /\ SubSeq(s, 1, j + 1) = Append(SubSeq(s, 1, j), s[j + 1])
           /\ SubSeq(s, 1, j) \in Seq(V) /\ s[j + 1] \in V
<1>1. /\ SubSeq(s, 1, j) \in Seq(V) /\ Len(SubSeq(s, 1, j)) = j /\ s[j + 1] \in V
      /\ SubSeq(s, 1, j + 1) \in Seq(V) /\ Len(SubSeq(s, 1, j + 1)) = j + 1
  OBVIOUS
<1>2. \A k \in 1..(j + 1) : SubSeq(s, 1, j + 1)[k] = Append(SubSeq(s, 1, j), s[j + 1])[k]
  BY <1>1
<1> QED
  BY <1>1, <1>2

(* What is written for a message is read without an error, in any order    *)
(* and any part of it, and gives a part of the message.                    *)
Got(type, s) == Parse(type, s).msg
ReadsPart(type, m, s) == /\ Parse(type, s) = [ok |-> TRUE, msg |-> Got(type, s)]
                         /\ PartOf(type, m, Got(type, s))

LEMMA ReadNone ==
    ASSUME NEW type \in Types, NEW m
    PROVE  ReadsPart(type, m, <<>>) /\ Got(type, <<>>) = SharedCtor(type)
<1>1. Parse(type, <<>>) = [ok |-> TRUE, msg |-> SharedCtor(type)]
  BY ParseNone DEF Parse
<1>2. PartOf(type, m, SharedCtor(type))
  <2> DEFINE c == SharedCtor(type)
  <2>1. c.field = [i \in DOMAIN type |-> Default(type[i])] /\ c.unknown = <<>>
        /\ c = [field |-> c.field, unknown |-> c.unknown]
    BY DEF SharedCtor
  <2> HIDE DEF c
  <2>2. c.unknown \in Seq(Others(m))
    BY <2>1
  <2>3. PartOf(type, m, c)
    BY <2>1, <2>2 DEF PartOf
  <2> QED
    BY <2>3 DEF c
<1> QED
  BY <1>1, <1>2 DEF ReadsPart, Got

LEMMA ReadOne ==
    ASSUME NEW type \in Types, NEW m, Message(type, m), NEW s \in Seq(Written(type, m)),
           ReadsPart(type, m, s), NEW e \in Written(type, m)
    PROVE  /\ ReadsPart(type, m, Append(s, e))
           /\ Got(type, Append(s, e)) = With(type, m, Got(type, s), e)
<1>1. Parse(type, Append(s, e)) = After(type, Parse(type, s), e)
  BY ParseMore DEF Parse
<1>2. /\ After(type, [ok |-> TRUE, msg |-> Got(type, s)], e)
             = [ok |-> TRUE, msg |-> With(type, m, Got(type, s), e)]
      /\ PartOf(type, m, With(type, m, Got(type, s), e))
  BY TurnWritten DEF ReadsPart
<1>3. Parse(type, Append(s, e)) = [ok |-> TRUE, msg |-> With(type, m, Got(type, s), e)]
  BY <1>1, <1>2 DEF ReadsPart
<1>4. Got(type, Append(s, e)) = With(type, m, Got(type, s), e)
  BY <1>3 DEF Got
<1> QED
  BY <1>2, <1>3, <1>4 DEF ReadsPart

LEMMA ReadAny ==
    ASSUME NEW type \in Types, NEW m, Message(type, m)
    PROVE  \A s \in Seq(Written(type, m)) : ReadsPart(type, m, s)
<1> DEFINE W == Written(type, m)
           S == {n \in Nat : \A s \in Seq(W) : Len(s) = n => ReadsPart(type, m, s)}
<1>1. 0 \in S
  <2>1. \A s \in Seq(W) : Len(s) = 0 => s = <<>>
    OBVIOUS
  <2> QED
    BY <2>1, ReadNone
<1>2. ASSUME NEW n \in Nat, n \in S PROVE n + 1 \in S
  <2>1. ASSUME NEW s \in Seq(W), Len(s) = n + 1 PROVE ReadsPart(type, m, s)
    <3>1. PICK t \in Seq(W), e \in W : Len(t) = n /\ s = Append(t, e)
      BY <2>1, TakeLast
    <3>2. ReadsPart(type, m, t)
      BY <1>2, <3>1
    <3> QED
      BY <3>1, <3>2, ReadOne
  <2> QED
    BY <2>1
<1> HIDE DEF S
<1>3. Nat \subseteq S
  BY <1>1, <1>2, Induction
<1>4. \A s \in Seq(W) : Len(s) \in Nat
  OBVIOUS
<1> QED
  BY <1>3, <1>4 DEF S

(* Merging a part of a message with more of it: MergeFrom after the second *)
(* message has read e is MergeFrom before, and then reading e.             *)
LEMMA MergeNone ==
    ASSUME NEW type \in Types, NEW m, NEW x, PartOf(type, m, x)
    PROVE  MergeFrom(type, x, SharedCtor(type)) = x
<1> DEFINE c == SharedCtor(type)
           z == MergeFrom(type, x, c)
<1>1. c.unknown = <<>> /\ \A i \in DOMAIN type : c.field[i] = Default(type[i])
  BY DEF SharedCtor
<1> HIDE DEF c
<1>2. z = [field |-> z.field, unknown |-> z.unknown] /\ z.unknown = x.unknown \o c.unknown
      /\ z.field = [i \in DOMAIN type |-> z.field[i]]
  BY DEF MergeFrom
<1>3. ASSUME NEW i \in DOMAIN type PROVE z.field[i] = x.field[i]
  <2>1. c.field[i] = Default(type[i]) /\ Default("ResultCode") = <<>>
    BY <1>1 DEF Default
  <2>2. z.field[i] = MergedScalar(type[i], x.field[i], c.field[i])
    BY <2>1 DEF MergeFrom
  <2> QED
    BY <2>1, <2>2 DEF MergedScalar
<1>4. x.unknown \o c.unknown = x.unknown
  BY <1>1 DEF PartOf
<1> HIDE DEF z
<1>5. z.field = x.field
  BY <1>2, <1>3 DEF PartOf
<1>6. z = x
  BY <1>2, <1>4, <1>5 DEF PartOf
<1> QED
  BY <1>6 DEF z, c

LEMMA EmptyCodesMerge == MergeResultCode(EmptyCode, EmptyCode) = EmptyCode
<1>1. /\ EmptyCode.unknown = <<>>
      /\ EmptyCode.field = [i \in DOMAIN ResultCode |-> Default(ResultCode[i])]
      /\ EmptyCode = [field |-> EmptyCode.field, unknown |-> EmptyCode.unknown]
  BY DEF EmptyCode, SharedCtor
<1>2. [i \in DOMAIN ResultCode |->
          MergedScalar(ResultCode[i], EmptyCode.field[i], EmptyCode.field[i])] = EmptyCode.field
  BY <1>1 DEF MergedScalar
<1>3. EmptyCode.unknown \o EmptyCode.unknown = EmptyCode.unknown
  BY <1>1
<1> QED
  BY <1>1, <1>2, <1>3 DEF MergeResultCode

(* The field i of a merge. *)
Both(type, x, y, i) ==
    IF type[i] = "ResultCode" /\ x.field[i] # <<>> /\ y.field[i] # <<>>
    THEN <<MergeResultCode(x.field[i][1], y.field[i][1])>>
    ELSE MergedScalar(type[i], x.field[i], y.field[i])

LEMMA MergeFields ==
    ASSUME NEW type, NEW x, NEW y
    PROVE  MergeFrom(type, x, y) = [field |-> [i \in DOMAIN type |-> Both(type, x, y, i)],
                                    unknown |-> x.unknown \o y.unknown]
  BY DEF MergeFrom, Both

LEMMA MergeOne ==
    ASSUME NEW type \in Types, NEW m, Message(type, m), NEW x, PartOf(type, m, x),
           NEW y, PartOf(type, m, y), NEW e \in Written(type, m)
    PROVE  MergeFrom(type, x, With(type, m, y, e)) = With(type, m, MergeFrom(type, x, y), e)
<1> DEFINE w == With(type, m, y, e)
           z == MergeFrom(type, x, y)
<1>1. z.field = [i \in DOMAIN type |-> Both(type, x, y, i)] /\ z.unknown = x.unknown \o y.unknown
  BY MergeFields
<1>2. MergeFrom(type, x, w) = [field |-> [i \in DOMAIN type |-> Both(type, x, w, i)],
                               unknown |-> x.unknown \o w.unknown]
  BY MergeFields
<1>3. y.field = [i \in DOMAIN type |-> y.field[i]]
  BY DEF PartOf
<1> HIDE DEF z
<1>4. CASE Known(type, e) /\ e.num \in SetFields(type, m)
  <2> DEFINE j == e.num
             v == m.field[j]
  <2>1. j \in DOMAIN type /\ v # Default(type[j]) /\ Fits(type[j], v)
    BY <1>4 DEF SetFields, Message
  <2>2. w.field = [y.field EXCEPT ![j] = v] /\ w.unknown = y.unknown
    BY <1>4 DEF With
  <2>3. With(type, m, z, e) = [field |-> [z.field EXCEPT ![j] = v], unknown |-> z.unknown]
    BY <1>4 DEF With
  <2> HIDE DEF w
  <2>4. ASSUME NEW i \in DOMAIN type, i # j PROVE Both(type, x, w, i) = Both(type, x, y, i)
    <3>1. w.field[i] = y.field[i]
      BY <1>3, <2>2, <2>4
    <3> QED
      BY <3>1 DEF Both
  <2>5. Both(type, x, w, j) = v
    <3>1. w.field[j] = v
      BY <1>3, <2>1, <2>2
    <3>2. CASE type[j] = "ResultCode" /\ x.field[j] # <<>>
      <4>1. v = <<EmptyCode>> /\ x.field[j] = <<EmptyCode>>
        BY <2>1, <3>2 DEF Fits, Default, PartOf
      <4>2. Both(type, x, w, j) = <<MergeResultCode(x.field[j][1], v[1])>>
        BY <3>1, <3>2, <4>1 DEF Both
      <4> QED
        BY <4>1, <4>2, EmptyCodesMerge
    <3>3. CASE ~(type[j] = "ResultCode" /\ x.field[j] # <<>>)
      BY <2>1, <3>1, <3>3 DEF Both, MergedScalar
    <3> QED
      BY <3>2, <3>3
  <2>6. [i \in DOMAIN type |-> Both(type, x, w, i)] = [z.field EXCEPT ![j] = v]
    BY <1>1, <2>1, <2>4, <2>5
  <2>7. MergeFrom(type, x, w) = With(type, m, z, e)
    BY <1>1, <1>2, <2>2, <2>3, <2>6
  <2> QED
    BY <2>7 DEF w, z
<1>5. CASE Kept(type, e) /\ e \in Others(m)
  <2>1. w.field = y.field /\ w.unknown = Append(y.unknown, e)
    BY <1>5 DEF With, Kept
  <2>2. With(type, m, z, e) = [field |-> z.field, unknown |-> Append(z.unknown, e)]
    BY <1>5 DEF With, Kept
  <2> HIDE DEF w
  <2>3. \A i \in DOMAIN type : Both(type, x, w, i) = Both(type, x, y, i)
    BY <2>1 DEF Both
  <2>4. x.unknown \o w.unknown = Append(z.unknown, e)
    BY <1>1, <1>5, <2>1, JoinAppend DEF PartOf
  <2>5. MergeFrom(type, x, w) = With(type, m, z, e)
    BY <1>1, <1>2, <2>2, <2>3, <2>4
  <2> QED
    BY <2>5 DEF w, z
<1> QED
  BY <1>4, <1>5, WrittenKinds

(* A message cut in two pieces anywhere. *)
LEMMA MergeAny ==
    ASSUME NEW type \in Types, NEW m, Message(type, m), NEW s \in Seq(Written(type, m))
    PROVE  \A t \in Seq(Written(type, m)) :
               MergeFrom(type, Got(type, s), Got(type, t)) = Got(type, s \o t)
<1> DEFINE W == Written(type, m)
           OK(t) == MergeFrom(type, Got(type, s), Got(type, t)) = Got(type, s \o t)
           S == {n \in Nat : \A t \in Seq(W) : Len(t) = n => OK(t)}
<1>0. \A t \in Seq(W) : ReadsPart(type, m, t)
  BY ReadAny
<1>1. OK(<<>>)
  <2>1. s \o <<>> = s
    OBVIOUS
  <2>2. PartOf(type, m, Got(type, s))
    BY <1>0 DEF ReadsPart
  <2>3. MergeFrom(type, Got(type, s), SharedCtor(type)) = Got(type, s)
    BY <2>2, MergeNone
  <2>4. Got(type, <<>>) = SharedCtor(type)
    BY ReadNone
  <2> QED
    BY <2>1, <2>3, <2>4
<1>2. ASSUME NEW t \in Seq(W), OK(t), NEW e \in W PROVE OK(Append(t, e))
  <2>1. s \o Append(t, e) = Append(s \o t, e) /\ s \o t \in Seq(W)
    BY JoinAppend
  <2>2. /\ Got(type, Append(s \o t, e)) = With(type, m, Got(type, s \o t), e)
        /\ Got(type, Append(t, e)) = With(type, m, Got(type, t), e)
    <3>1. PICK u \in Seq(W) : u = s \o t
      BY <2>1
    <3>2. ReadsPart(type, m, u) /\ ReadsPart(type, m, t)
      BY <1>0
    <3>3. Got(type, Append(u, e)) = With(type, m, Got(type, u), e)
      BY <3>2, ReadOne
    <3>4. Got(type, Append(t, e)) = With(type, m, Got(type, t), e)
      BY <3>2, ReadOne
    <3> QED
      BY <3>1, <3>3, <3>4
  <2>3. PartOf(type, m, Got(type, s)) /\ PartOf(type, m, Got(type, t))
    BY <1>0 DEF ReadsPart
  <2>4. MergeFrom(type, Got(type, s), With(type, m, Got(type, t), e))
            = With(type, m, MergeFrom(type, Got(type, s), Got(type, t)), e)
    BY <2>3, MergeOne
  <2> QED
    BY <1>2, <2>1, <2>2, <2>4
<1> HIDE DEF OK
<1>3. 0 \in S
  <2>1. \A t \in Seq(W) : Len(t) = 0 => t = <<>>
    OBVIOUS
  <2> QED
    BY <1>1, <2>1
<1>4. ASSUME NEW n \in Nat, n \in S PROVE n + 1 \in S
  <2>1. ASSUME NEW t \in Seq(W), Len(t) = n + 1 PROVE OK(t)
    <3>1. PICK f \in Seq(W), e \in W : Len(f) = n /\ t = Append(f, e)
      BY <2>1, TakeLast
    <3> QED
      BY <1>2, <1>4, <3>1
  <2> QED
    BY <2>1
<1> HIDE DEF S
<1>5. Nat \subseteq S
  BY <1>3, <1>4, Induction
<1>6. \A t \in Seq(W) : Len(t) \in Nat
  OBVIOUS
<1> QED
  BY <1>5, <1>6 DEF S, OK

-----------------------------------------------------------------------------
(* The first k fields of a message, and u of the unknown ones. *)
FirstFields(type, m, k, u) ==
    [field |-> [i \in DOMAIN type |-> IF i <= k THEN m.field[i] ELSE Default(type[i])],
     unknown |-> u]

(* What has been read of the message when s has. *)
Reads(type, m, s, x) == s \in Seq(Written(type, m)) /\ Parse(type, s) = [ok |-> TRUE, msg |-> x]

LEMMA ReadNext ==
    ASSUME NEW type \in Types, NEW m, Message(type, m), NEW s, NEW x, Reads(type, m, s, x),
           NEW e \in Written(type, m)
    PROVE  Reads(type, m, Append(s, e), With(type, m, x, e))
<1>1. s \in Seq(Written(type, m)) /\ Got(type, s) = x
  BY DEF Reads, Got
<1>2. ReadsPart(type, m, s)
  BY <1>1, ReadAny
<1>3. /\ ReadsPart(type, m, Append(s, e))
      /\ Got(type, Append(s, e)) = With(type, m, x, e)
  BY <1>1, <1>2, ReadOne
<1>4. Append(s, e) \in Seq(Written(type, m))
  BY <1>1
<1> QED
  BY <1>3, <1>4 DEF Reads, ReadsPart

FieldBytes(type, m, i) == Field(type, m, i, WriteValue(type[i], m.field[i]))

LEMMA ReadField ==
    ASSUME NEW type \in Types, NEW m, Message(type, m), NEW s, NEW k \in Nat, k + 1 \in DOMAIN type,
           Reads(type, m, s, FirstFields(type, m, k, <<>>))
    PROVE  Reads(type, m, s \o FieldBytes(type, m, k + 1), FirstFields(type, m, k + 1, <<>>))
<1> DEFINE x == FirstFields(type, m, k, <<>>)
           y == FirstFields(type, m, k + 1, <<>>)
<1>1. PICK i \in DOMAIN type : i = k + 1
  OBVIOUS
<1>2. s \in Seq(Written(type, m))
  BY DEF Reads
<1>3. \A n \in DOMAIN type : n \in Nat /\ (n <= k + 1 <=> n <= k \/ n = i)
  BY <1>1, TypeFacts
<1>4. CASE m.field[i] = Default(type[i])
  <2>1. FieldBytes(type, m, i) = <<>>
    BY <1>4 DEF FieldBytes, Field
  <2>2. x = y
    BY <1>3, <1>4 DEF FirstFields
  <2>3. s \o <<>> = s
    BY <1>2
  <2> QED
    BY <1>1, <2>1, <2>2, <2>3
<1>5. CASE m.field[i] # Default(type[i])
  <2> DEFINE e == Entry(type, m, i)
  <2>1. FieldBytes(type, m, i) = <<e>> /\ i \in SetFields(type, m)
    BY <1>5 DEF FieldBytes, Field, Entry, SetFields
  <2>2. e \in Written(type, m) /\ e.num = i /\ Known(type, e)
    BY <2>1 DEF Written, Entry, Known, Tagged
  <2> HIDE DEF e
  <2>3. Reads(type, m, Append(s, e), With(type, m, x, e))
    BY <2>2, ReadNext
  <2>4. With(type, m, x, e) = y
    <3>1. With(type, m, x, e) =
              [field |-> [x.field EXCEPT ![i] = m.field[i]], unknown |-> x.unknown]
      BY <2>2 DEF With
    <3>2. /\ x.field = [n \in DOMAIN type |-> IF n <= k THEN m.field[n] ELSE Default(type[n])]
          /\ x.unknown = <<>>
      BY DEF FirstFields
    <3>3. [x.field EXCEPT ![i] = m.field[i]]
             = [n \in DOMAIN type |-> IF n <= k + 1 THEN m.field[n] ELSE Default(type[n])]
      <4>1. ASSUME NEW n \in DOMAIN type
            PROVE  [x.field EXCEPT ![i] = m.field[i]][n]
                       = IF n <= k + 1 THEN m.field[n] ELSE Default(type[n])
        BY <1>3, <3>2
      <4> QED
        BY <3>2, <4>1
    <3> QED
      BY <3>1, <3>2, <3>3 DEF FirstFields
  <2>5. s \o <<e>> = Append(s, e)
    BY <1>2, <2>2
  <2> QED
    BY <1>1, <2>1, <2>3, <2>4, <2>5
<1> QED
  BY <1>4, <1>5

LEMMA ReadFields ==
    ASSUME NEW type \in Types, NEW m, Message(type, m),
           NEW F, Len(F) = Len(type), \A i \in DOMAIN type : F[i] = FieldBytes(type, m, i)
    PROVE  Reads(type, m, FlattenSeq(F), FirstFields(type, m, Len(type), <<>>))
<1>1. Len(type) \in Nat \ {0} /\ DOMAIN type = 1..Len(type)
  BY TypeFacts
<1>2. PICK N \in Nat \ {0} : N = Len(type)
  BY <1>1
<1>3. Len(F) = N /\ \A i \in 1..N : F[i] = FieldBytes(type, m, i)
  BY <1>1, <1>2
<1>4. PICK g : /\ FlattenSeq(F) = g[N] /\ g[1] = F[1]
               /\ GrowsBy(g, F, N)
  <2>1. Len(F) = N
    BY <1>3
  <2> QED
    BY <2>1, Flattened, Zenon
<1> DEFINE Pre(k) == IF k = 0 THEN <<>> ELSE g[k]
           OK(k) == Reads(type, m, Pre(k), FirstFields(type, m, k, <<>>))
           S == {k \in Nat : k <= N => OK(k)}
<1>5. OK(0)
  <2>1. Parse(type, <<>>) = [ok |-> TRUE, msg |-> SharedCtor(type)]
    BY ParseNone DEF Parse
  <2>2. \A i \in DOMAIN type : i \in Nat /\ ~(i <= 0)
    BY <1>1
  <2>3. FirstFields(type, m, 0, <<>>) = SharedCtor(type)
    BY <2>2 DEF FirstFields, SharedCtor
  <2> QED
    BY <2>1, <2>3 DEF Reads
<1>6. ASSUME NEW k \in Nat, k + 1 <= N, OK(k) PROVE OK(k + 1)
  <2>1. k + 1 \in DOMAIN type /\ k + 1 \in 1..N
    BY <1>1, <1>2, <1>6
  <2>2. Reads(type, m, Pre(k) \o FieldBytes(type, m, k + 1), FirstFields(type, m, k + 1, <<>>))
    BY <1>6, <2>1, ReadField
  <2>3. Pre(k + 1) = Pre(k) \o FieldBytes(type, m, k + 1)
    <3>1. FieldBytes(type, m, k + 1) = F[k + 1] /\ Pre(k + 1) = g[k + 1]
      BY <1>3, <2>1
    <3>2. CASE k = 0
      <4>1. g[1] = F[1]
        BY <1>4
      <4>2. <<>> \o F[1] = F[1]
        BY <1>3, <2>1, <3>2 DEF FieldBytes, Field
      <4> QED
        BY <3>1, <3>2, <4>1, <4>2
    <3>3. CASE k # 0
      <4>1. k \in Nat \ {0} /\ k < N /\ N \in Nat
        BY <1>6, <3>3
      <4>2. g[k + 1] = g[k] \o F[k + 1]
        BY <1>4, <4>1 DEF GrowsBy
      <4> QED
        BY <3>1, <3>3, <4>2
    <3> QED
      BY <3>2, <3>3
  <2> QED
    BY <2>2, <2>3
<1> HIDE DEF OK
<1>7. \A k \in Nat : k \in S => k + 1 \in S
  BY <1>6
<1>8. 0 \in S
  BY <1>5
<1> HIDE DEF S
<1>9. N \in S
  BY <1>7, <1>8, Induction
<1>10. OK(N)
  BY <1>9 DEF S
<1> QED
  BY <1>2, <1>4, <1>10 DEF OK

(* What is written is read again, as a whole. *)
LEMMA ReadWritten ==
    ASSUME NEW type \in Types, NEW m, Message(type, m)
    PROVE  Reads(type, m, Serialize(type, m), m)
<1> DEFINE F == [i \in DOMAIN type |-> FieldBytes(type, m, i)]
           b == FlattenSeq(F)
           u == m.unknown
           x(j) == [field |-> m.field, unknown |-> SubSeq(u, 1, j)]
           OK(j) == Reads(type, m, b \o SubSeq(u, 1, j), x(j))
           S == {j \in Nat : j <= Len(u) => OK(j)}
<1>1. Serialize(type, m) = b \o u
  BY DEF Serialize, FieldBytes
<1>2. Reads(type, m, b, FirstFields(type, m, Len(type), <<>>))
  <2>1. Len(type) \in Nat /\ DOMAIN type = 1..Len(type)
    BY TypeFacts
  <2>2. Len(F) = Len(type) /\ \A i \in DOMAIN type : F[i] = FieldBytes(type, m, i)
    BY <2>1
  <2> HIDE DEF F
  <2> QED
    BY <2>2, ReadFields
<1> HIDE DEF F, b
<1>3. u \in Seq(Others(m)) /\ Len(u) \in Nat /\ Others(m) \subseteq Written(type, m)
  BY DEF Message, Written
<1>4. u \in Seq(Written(type, m))
  BY <1>3
<1>5. b \in Seq(Written(type, m))
  BY <1>2 DEF Reads
<1>6. SubSeq(u, 1, 0) = <<>> /\ SubSeq(u, 1, Len(u)) = u
  BY <1>3
<1>7. OK(0)
  <2>1. \A i \in DOMAIN type : i <= Len(type)
    BY TypeFacts
  <2>2. FirstFields(type, m, Len(type), <<>>) = x(0)
    BY <1>6, <2>1 DEF FirstFields, Message
  <2>3. b \o SubSeq(u, 1, 0) = b
    BY <1>5, <1>6
  <2> QED
    BY <1>2, <2>2, <2>3
<1>8. ASSUME NEW j \in Nat, j + 1 <= Len(u), OK(j) PROVE OK(j + 1)
  <2> DEFINE e == u[j + 1]
             a == SubSeq(u, 1, j)
  <2>1. SubSeq(u, 1, j + 1) = Append(a, e) /\ a \in Seq(Written(type, m)) /\ e \in Written(type, m)
    BY <1>3, <1>4, <1>8, Grow
  <2>2. e \in Others(m) /\ Kept(type, e)
    BY <1>3, <1>8 DEF Message
  <2>3. b \o SubSeq(u, 1, j + 1) = Append(b \o a, e)
    <3>1. b \o Append(a, e) = Append(b \o a, e)
      BY <1>5, <2>1, JoinAppend
    <3> QED
      BY <2>1, <3>1
  <2>4. Reads(type, m, Append(b \o a, e), With(type, m, x(j), e))
    BY <1>8, <2>1, ReadNext
  <2>5. With(type, m, x(j), e) = x(j + 1)
    BY <2>1, <2>2 DEF With, Kept
  <2> QED
    BY <2>3, <2>4, <2>5
<1> HIDE DEF OK
<1>9. 0 \in S /\ \A j \in Nat : j \in S => j + 1 \in S
  BY <1>3, <1>7, <1>8
<1> HIDE DEF S
<1>10. Len(u) \in S
  BY <1>3, <1>9, Induction
<1>11. OK(Len(u))
  BY <1>3, <1>10 DEF S
<1>12. x(Len(u)) = m
  BY <1>6 DEF Message
<1> QED
  BY <1>1, <1>6, <1>11, <1>12 DEF OK

-----------------------------------------------------------------------------
(* The messages of user.proto and Krpcheader.proto that are sent. *)
LEMMA MessageTypes ==
    /\ RpcHeader \in Types /\ DOMAIN RpcHeader = 1..3
    /\ \A i \in Methods : RequestPrototype(i) \in Types /\ ResponsePrototype(i) \in Types
<1>1. /\ RpcHeader \in Seq(Kinds) /\ LoginRequest \in Seq(Kinds) /\ RegisterRequest \in Seq(Kinds)
      /\ AddRequest \in Seq(Kinds) /\ LoginResponse \in Seq(Kinds)
      /\ RegisterResponse \in Seq(Kinds) /\ AddResponse \in Seq(Kinds)
  BY DEF RpcHeader, LoginRequest, RegisterRequest, AddRequest, LoginResponse, RegisterResponse,
         AddResponse, Kinds
<1>2. /\ RpcHeader # <<>> /\ LoginRequest # <<>> /\ RegisterRequest # <<>> /\ AddRequest # <<>>
      /\ LoginResponse # <<>> /\ RegisterResponse # <<>> /\ AddResponse # <<>>
      /\ DOMAIN RpcHeader = 1..3
  BY DEF RpcHeader, LoginRequest, RegisterRequest, AddRequest, LoginResponse, RegisterResponse,
         AddResponse
<1>3. \A i \in Methods : i = 1 \/ i = 2 \/ i = 3
  BY DEF Methods
<1>4. /\ RpcHeader \in Types /\ LoginRequest \in Types /\ RegisterRequest \in Types
      /\ AddRequest \in Types /\ LoginResponse \in Types /\ RegisterResponse \in Types
      /\ AddResponse \in Types
  BY <1>1, <1>2, Zenon DEF Types
<1>5. ASSUME NEW i \in Methods
      PROVE  /\ RequestPrototype(i) \in {LoginRequest, RegisterRequest, AddRequest}
             /\ ResponsePrototype(i) \in {LoginResponse, RegisterResponse, AddResponse}
  BY <1>3 DEF RequestPrototype, ResponsePrototype
<1> QED
  BY <1>2, <1>4, <1>5, Zenon

Header(i, args) == [field |-> <<Service, MethodName(i), Len(args)>>, unknown |-> <<>>]

LEMMA HeaderMessage ==
    ASSUME NEW i \in Methods, NEW args, Len(args) \in 0..(Width32 - 1)
    PROVE  Message(RpcHeader, Header(i, args))
<1> DEFINE h == Header(i, args)
<1>1. h.field = <<Service, MethodName(i), Len(args)>> /\ h.unknown = <<>>
      /\ h = [field |-> h.field, unknown |-> h.unknown]
  BY DEF Header
<1> HIDE DEF h
<1>2. Others(h) = {}
  BY <1>1 DEF Others
<1>3. h.field = [k \in DOMAIN RpcHeader |-> h.field[k]]
  BY <1>1, MessageTypes
<1>4. \A k \in DOMAIN RpcHeader : Fits(RpcHeader[k], h.field[k])
  BY <1>1 DEF RpcHeader, Fits
<1>5. h.unknown \in Seq(Others(h))
  BY <1>1
<1>6. Message(RpcHeader, h)
  BY <1>1, <1>2, <1>3, <1>4, <1>5 DEF Message
<1> QED
  BY <1>6 DEF h

LEMMA NewerKept ==
    ASSUME NEW type \in Types, Len(type) <= 3, NEW m, m.unknown \in Newer
    PROVE  m.unknown \in Seq(Others(m)) /\ \A e \in Others(m) : Kept(type, e)
<1> DEFINE e == Tagged(9, 0, 1)
<1>1. Kept(type, e)
  <2>1. e.num = 9 /\ e.wt = 0
    BY DEF Tagged
  <2> HIDE DEF e
  <2>2. 9 \notin DOMAIN type
    BY TypeFacts
  <2> QED
    BY <2>1, <2>2 DEF Kept, Known
<1>2. m.unknown = <<>> \/ m.unknown = <<e>>
  BY DEF Newer
<1> HIDE DEF e
<1>3. CASE m.unknown = <<>>
  <2>1. Others(m) = {}
    BY <1>3 DEF Others
  <2> QED
    BY <1>3, <2>1
<1>4. CASE m.unknown = <<e>>
  <2>1. Others(m) = {e}
    BY <1>4 DEF Others
  <2> QED
    BY <1>1, <1>4, <2>1
<1> QED
  BY <1>2, <1>3, <1>4

LEMMA MakeMessage ==
    ASSUME NEW type, NEW D, NEW f, NEW u, NEW m, m = [field |-> f, unknown |-> u],
           DOMAIN type = D, f = [k \in D |-> f[k]], \A k \in D : Fits(type[k], f[k]),
           m.unknown \in Seq(Others(m)), \A e \in Others(m) : Kept(type, e)
    PROVE  Message(type, m)
<1>1. m.field = f /\ m.unknown = u
  OBVIOUS
<1>2. m = [field |-> m.field, unknown |-> m.unknown]
  BY <1>1
<1>3. /\ m.field = [k \in DOMAIN type |-> m.field[k]]
      /\ \A k \in DOMAIN type : Fits(type[k], m.field[k])
  BY <1>1
<1> QED
  BY <1>2, <1>3 DEF Message

LEMMA RequestMessage ==
    ASSUME NEW i \in Methods, NEW req \in Requests(i)
    PROVE  Message(RequestPrototype(i), req)
<1> DEFINE type == RequestPrototype(i)
           f == req.field
<1>1. req = [field |-> f, unknown |-> req.unknown] /\ req.unknown \in Newer
      /\ \/ i = Login /\ f = <<Text(1), Text(2)>>
         \/ i = Register /\ f = <<0, Text(1), <<>>>>
         \/ i = Add /\ \E a, b \in Operands : f = <<a, b>>
  BY DEF Requests, Login, Register, Add, Methods
<1>2. req.unknown \in Newer
  BY <1>1
<1>3. type \in Types
  BY MessageTypes
<1> HIDE DEF type, f
<1>4. CASE i = Login
  <2>1. type = <<"bytes", "bytes">>
    BY <1>4 DEF type, RequestPrototype, Login, LoginRequest
  <2>2. f = <<Text(1), Text(2)>>
    BY <1>1, <1>4 DEF Login, Register, Add
  <2>3. Len(type) = 2 /\ DOMAIN type = 1..2 /\ f = [k \in 1..2 |-> f[k]]
    BY <2>1, <2>2
  <2>4. \A k \in 1..2 : Fits(type[k], f[k])
    BY <2>1 DEF Fits
  <2>5. Len(type) <= 3
    BY <2>3
  <2>6. req.unknown \in Seq(Others(req)) /\ \A e \in Others(req) : Kept(type, e)
    BY <1>2, <1>3, <2>5, NewerKept
  <2>7. Message(type, req)
    BY <1>1, <2>3, <2>4, <2>6, MakeMessage, Zenon
  <2> QED
    BY <2>7 DEF type
<1>5. CASE i = Register
  <2>1. type = <<"uint32", "bytes", "bytes">>
    BY <1>5 DEF type, RequestPrototype, Register, RegisterRequest
  <2>2. f = <<0, Text(1), <<>>>>
    BY <1>1, <1>5 DEF Login, Register, Add
  <2>3. Len(type) = 3 /\ DOMAIN type = 1..3 /\ f = [k \in 1..3 |-> f[k]]
    BY <2>1, <2>2
  <2>4. 0 \in 0..(Width32 - 1)
    BY Widths
  <2>5. \A k \in 1..3 : Fits(type[k], f[k])
    BY <2>1, <2>2, <2>4 DEF Fits
  <2>6. Len(type) <= 3
    BY <2>3
  <2>7. req.unknown \in Seq(Others(req)) /\ \A e \in Others(req) : Kept(type, e)
    BY <1>2, <1>3, <2>6, NewerKept
  <2>8. Message(type, req)
    BY <1>1, <2>3, <2>5, <2>7, MakeMessage, Zenon
  <2> QED
    BY <2>8 DEF type
<1>6. CASE i = Add
  <2>1. type = <<"int32", "int32">>
    BY <1>6 DEF type, RequestPrototype, Add, AddRequest
  <2>2. PICK a, b \in Operands : f = <<a, b>>
    BY <1>1, <1>6 DEF Login, Register, Add
  <2>3. Len(type) = 2 /\ DOMAIN type = 1..2 /\ f = [k \in 1..2 |-> f[k]]
    BY <2>1, <2>2
  <2>4. \A k \in 1..2 : Fits(type[k], f[k])
    BY <2>1, <2>2, UserRpcAssumption DEF Fits
  <2>5. Len(type) <= 3
    BY <2>3
  <2>6. req.unknown \in Seq(Others(req)) /\ \A e \in Others(req) : Kept(type, e)
    BY <1>2, <1>3, <2>5, NewerKept
  <2>7. Message(type, req)
    BY <1>1, <2>3, <2>4, <2>6, MakeMessage, Zenon
  <2> QED
    BY <2>7 DEF type
<1> QED
  BY <1>1, <1>4, <1>5, <1>6

LEMMA AnswerMessage ==
    ASSUME NEW i \in {Login, Add}, NEW req, i = Add => \E a, b \in Int32 : req.field = <<a, b>>
    PROVE  i \in Methods /\ Message(ResponsePrototype(i), Filled(i, req))
<1> DEFINE type == ResponsePrototype(i)
           r == Filled(i, req)
           f == r.field
<1>1. r = [field |-> f, unknown |-> r.unknown] /\ r.unknown = <<>>
  BY DEF Filled
<1>2. i \in Methods
  BY DEF Methods, Login, Add
<1>3. Others(r) = {}
  BY <1>1 DEF Others
<1>4. r.unknown \in Seq(Others(r)) /\ \A e \in Others(r) : Kept(type, e)
  BY <1>1, <1>3
<1> HIDE DEF type, r, f
<1>5. CASE i = Login
  <2>1. type = <<"ResultCode", "bool">>
    BY <1>5 DEF type, ResponsePrototype, Login, LoginResponse
  <2>2. f = <<<<EmptyCode>>, TRUE>>
    BY <1>5 DEF f, r, Filled, EmptyCode
  <2>3. DOMAIN type = 1..2 /\ f = [k \in 1..2 |-> f[k]]
    <3>1. DOMAIN type = 1..2
      BY <2>1
    <3>2. f = [k \in 1..2 |-> f[k]]
      BY <2>2
    <3> QED
      BY <3>1, <3>2
  <2>4. \A k \in 1..2 : Fits(type[k], f[k])
    <3>1. type[1] = "ResultCode" /\ f[1] = <<EmptyCode>>
      BY <2>1, <2>2
    <3>2. type[2] = "bool"
      BY <2>1
    <3>3. f[2] \in BOOLEAN
      BY <2>2, Zenon
    <3>4. Fits(type[1], f[1])
      BY <3>1 DEF Fits
    <3>5. Fits(type[2], f[2])
      BY <3>2, <3>3 DEF Fits
    <3>6. \A k \in 1..2 : k = 1 \/ k = 2
      OBVIOUS
    <3> QED
      BY <3>4, <3>5, <3>6
  <2>5. Message(type, r)
    BY <1>1, <1>4, <2>3, <2>4, MakeMessage, Zenon
  <2> QED
    BY <1>2, <2>5 DEF type, r
<1>6. CASE i = Add
  <2>1. type = <<"ResultCode", "int32">>
    BY <1>6 DEF type, ResponsePrototype, Add, AddResponse
  <2>2. PICK a, b \in Int32 : req.field = <<a, b>>
    BY <1>6
  <2>3. a \in Int /\ b \in Int
    BY Int32Range
  <2> DEFINE n == (a + b) % Width32
  <2>4. n \in 0..(Width32 - 1)
    BY <2>3, Widths
  <2>5. f = <<<<EmptyCode>>, Signed(n)>>
    BY <1>6, <2>2 DEF f, r, Filled, EmptyCode, Login, Add
  <2>6. Signed(n) \in Int32
    BY <2>4 DEF Int32
  <2> HIDE DEF n
  <2>7. DOMAIN type = 1..2 /\ f = [k \in 1..2 |-> f[k]]
    BY <2>1, <2>5
  <2>8. \A k \in 1..2 : Fits(type[k], f[k])
    BY <2>1, <2>5, <2>6 DEF Fits
  <2>9. Message(type, r)
    BY <1>1, <1>4, <2>7, <2>8, MakeMessage, Zenon
  <2> QED
    BY <1>2, <2>9 DEF type, r
<1> QED
  BY <1>5, <1>6

-----------------------------------------------------------------------------
(* A call p is a method and a request; what the channel sends for it, and  *)
(* what UserService answers.                                               *)
IsCall(p) == \E i \in Methods : \E req \in Requests(i) : p = <<i, req>>
Args(p) == Serialize(RequestPrototype(p[1]), p[2])
Sent(p) == <<Serialize(RpcHeader, Header(p[1], Args(p))), Args(p)>>
Reply(p) == Filled(p[1], p[2])

(* What it runs, when the request came whole or not. *)
EmptyRequest(i) == SharedCtor(RequestPrototype(i))
RunOf(p, cut) == IF cut THEN <<p[1], EmptyRequest(p[1])>> ELSE p
ReplyType(p) == ResponsePrototype(p[1])

LEMMA CallParts ==
    ASSUME NEW p, IsCall(p)
    PROVE  p[1] \in Methods /\ p[2] \in Requests(p[1]) /\ p = <<p[1], p[2]>> /\ p # None
<1>1. PICK i \in Methods : \E req \in Requests(i) : p = <<i, req>>
  BY DEF IsCall
<1>2. PICK req \in Requests(i) : p = <<i, req>>
  BY <1>1
<1>3. p[1] = i /\ p[2] = req
  BY <1>2
<1>4. p # None
  BY <1>2 DEF None
<1> QED
  BY <1>2, <1>3, <1>4

(* The request arrives as it was sent, and args_size is its length. *)
LEMMA ArgsRead ==
    ASSUME NEW p, IsCall(p)
    PROVE  /\ RequestPrototype(p[1]) \in Types /\ Message(RequestPrototype(p[1]), p[2])
           /\ Args(p) \in Seq(Written(RequestPrototype(p[1]), p[2]))
           /\ Parse(RequestPrototype(p[1]), Args(p)) = [ok |-> TRUE, msg |-> p[2]]
           /\ Len(Args(p)) \in 0..(Width32 - 1)
<1>1. p[1] \in Methods /\ p[2] \in Requests(p[1])
  BY CallParts
<1>2. RequestPrototype(p[1]) \in Types
  BY <1>1, MessageTypes
<1>3. Message(RequestPrototype(p[1]), p[2])
  BY <1>1, RequestMessage
<1>4. Reads(RequestPrototype(p[1]), p[2], Args(p), p[2])
  BY <1>2, <1>3, ReadWritten DEF Args
<1>5. /\ Args(p) \in Seq(Written(RequestPrototype(p[1]), p[2]))
      /\ Parse(RequestPrototype(p[1]), Args(p)) = [ok |-> TRUE, msg |-> p[2]]
  BY <1>4 DEF Reads
<1>6. Len(Args(p)) < Width32
  BY <1>1, ArgsSizeAssumption DEF Args
<1>7. Len(Args(p)) \in Nat
  BY <1>5
<1>8. Len(Args(p)) \in 0..(Width32 - 1)
  BY <1>6, <1>7, Widths
<1> QED
  BY <1>2, <1>3, <1>5, <1>8

LEMMA HeaderRead ==
    ASSUME NEW p, IsCall(p)
    PROVE  LET h == Parse(RpcHeader, Serialize(RpcHeader, Header(p[1], Args(p))))
           IN  /\ h.ok = TRUE /\ h.msg.field[1] = Service /\ h.msg.field[2] = MethodName(p[1])
               /\ h.msg.field[3] = Len(Args(p))
<1> DEFINE m == Header(p[1], Args(p))
           h == Parse(RpcHeader, Serialize(RpcHeader, m))
<1>1. m.field = <<Service, MethodName(p[1]), Len(Args(p))>>
  BY DEF Header
<1>2. Message(RpcHeader, m)
  BY CallParts, ArgsRead, HeaderMessage
<1> HIDE DEF m
<1>3. Reads(RpcHeader, m, Serialize(RpcHeader, m), m)
  BY <1>2, MessageTypes, ReadWritten
<1>4. h = [ok |-> TRUE, msg |-> m]
  BY <1>3 DEF Reads
<1> HIDE DEF h
<1>5. h.ok = TRUE /\ h.msg = m
  BY <1>4
<1>6. /\ h.ok = TRUE /\ h.msg.field[1] = Service /\ h.msg.field[2] = MethodName(p[1])
      /\ h.msg.field[3] = Len(Args(p))
  BY <1>1, <1>5
<1> QED
  BY <1>6 DEF h, m

LEMMA WholeOf ==
    ASSUME NEW V, NEW s \in Seq(V)
    PROVE  SubSeq(s, 1, Len(s)) = s /\ Len(s) \in Nat
  OBVIOUS

LEMMA Beginning ==
    ASSUME NEW V, NEW s \in Seq(V), NEW n \in 0..Len(s)
    PROVE  /\ SubSeq(s, 1, n) \in Seq(V) /\ SubSeq(s, n + 1, Len(s)) \in Seq(V)
           /\ SubSeq(s, 1, n) \o SubSeq(s, n + 1, Len(s)) = s
           /\ n # 0 => SubSeq(s, 1, n) # <<>>
<1>1. /\ SubSeq(s, 1, n) \in Seq(V) /\ SubSeq(s, n + 1, Len(s)) \in Seq(V)
      /\ Len(SubSeq(s, 1, n)) = n /\ Len(SubSeq(s, n + 1, Len(s))) = Len(s) - n
  OBVIOUS
<1>2. SubSeq(s, 1, n) \o SubSeq(s, n + 1, Len(s)) = s
  <2>1. PICK L \in Nat : L = Len(s)
    OBVIOUS
  <2>2. PICK m \in 1..(L + 1) : m = 1
    BY <2>1
  <2>3. n \in (m - 1)..L /\ L \in n..L
    BY <2>1, <2>2
  <2>4. SubSeq(s, m, n) \o SubSeq(s, n + 1, L) = SubSeq(s, m, L)
    BY <2>1, <2>3, ConcatAdjacentSubSeq
  <2> QED
    BY <2>1, <2>2, <2>4, SubSeqFull
<1>3. Len(<<>>) = 0
  OBVIOUS
<1> QED
  BY <1>1, <1>2, <1>3

LEMMA NamesDiffer == /\ \A i, j \in Methods : MethodName(i) = MethodName(j) => i = j
                     /\ \A i : MethodName(i) # <<>>
<1>1. \A j : Text(j)[1].val = j
  BY DEF Text, Tagged
<1>2. \A j : Text(j) # <<>>
  BY DEF Text
<1> QED
  BY <1>1, <1>2 DEF MethodName

(* A provider that is up reads what was sent as the call. *)
LEMMA SentIsRead ==
    ASSUME NEW p, IsCall(p), service_map = Methods, NEW f, f = Sent(p)
    PROVE  Readable(f) /\ Decoded(f) = p
<1> DEFINE req == p[2]
           args == Args(p)
           h == Parse(RpcHeader, Serialize(RpcHeader, Header(p[1], args)))
<1>1. f[1] = Serialize(RpcHeader, Header(p[1], args)) /\ f[2] = args
  BY DEF Sent
<1>2. PICK i \in Methods : i = p[1]
  BY CallParts
<1>3. /\ h.ok = TRUE /\ h.msg.field[1] = Service /\ h.msg.field[2] = MethodName(i)
      /\ h.msg.field[3] = Len(args)
  BY <1>2, HeaderRead
<1>4. Parse(RpcHeader, f[1]) = h
  BY <1>1
<1>5. Parse(RequestPrototype(i), args) = [ok |-> TRUE, msg |-> req]
  BY <1>2, ArgsRead
<1>6. SubSeq(args, 1, Len(args)) = args /\ Len(args) \in Nat
  BY ArgsRead, WholeOf
<1>7. \A j \in Methods : MethodName(i) = MethodName(j) => i = j
  BY NamesDiffer
<1>8. p = <<i, req>>
  BY <1>2, CallParts
<1> HIDE DEF args, h, req
<1>9. Parse(RequestPrototype(i), SubSeq(f[2], 1, h.msg.field[3]))
          = [ok |-> TRUE, msg |-> req]
  BY <1>1, <1>3, <1>5, <1>6
<1>10. Readable(f)
  <2>1. Parse(RequestPrototype(i), SubSeq(f[2], 1, h.msg.field[3])).ok
    BY <1>9
  <2>2. h.msg.field[3] <= Len(f[2])
    BY <1>1, <1>3, <1>6
  <2> QED
    BY <1>3, <1>4, <2>1, <2>2 DEF Readable
<1>11. (CHOOSE j \in service_map : h.msg.field[2] = MethodName(j)) = i
  BY <1>3, <1>7
<1>12. Decoded(f) = p
  <2>1. Decoded(f) = <<i, Parse(RequestPrototype(i), SubSeq(f[2], 1, h.msg.field[3])).msg>>
    BY <1>4, <1>11, Zenon DEF Decoded
  <2>2. Parse(RequestPrototype(i), SubSeq(f[2], 1, h.msg.field[3])).msg = req
    BY <1>9
  <2> QED
    BY <1>8, <2>1, <2>2
<1> QED
  BY <1>10, <1>12

(* A part of the header says which method, or nothing; and how many bytes  *)
(* of arguments, or none.                                                  *)
LEMMA HeaderPart ==
    ASSUME NEW p, IsCall(p),
           NEW n \in 0..Len(Serialize(RpcHeader, Header(p[1], Args(p)))),
           NEW h, h = Parse(RpcHeader, SubSeq(Serialize(RpcHeader, Header(p[1], Args(p))), 1, n))
    PROVE  /\ h.msg.field[2] \in {<<>>, MethodName(p[1])}
           /\ h.msg.field[3] \in {0, Len(Args(p))}
<1> DEFINE m == Header(p[1], Args(p))
           s == Serialize(RpcHeader, m)
<1>1. m.field = <<Service, MethodName(p[1]), Len(Args(p))>>
  BY DEF Header
<1>2. Message(RpcHeader, m)
  BY CallParts, ArgsRead, HeaderMessage
<1>3. n \in 0..Len(s) /\ h = Parse(RpcHeader, SubSeq(s, 1, n))
  OBVIOUS
<1> HIDE DEF m
<1>4. s \in Seq(Written(RpcHeader, m))
  BY <1>2, MessageTypes, ReadWritten DEF Reads
<1> HIDE DEF s
<1>5. SubSeq(s, 1, n) \in Seq(Written(RpcHeader, m))
  BY <1>3, <1>4, Beginning
<1>6. ReadsPart(RpcHeader, m, SubSeq(s, 1, n))
  BY <1>2, <1>5, MessageTypes, ReadAny
<1>7. PartOf(RpcHeader, m, h.msg)
  BY <1>3, <1>6 DEF ReadsPart, Got
<1>8. \A k \in 1..3 : h.msg.field[k] \in {Default(RpcHeader[k]), m.field[k]}
  BY <1>7, MessageTypes DEF PartOf
<1>9. Default(RpcHeader[2]) = <<>> /\ Default(RpcHeader[3]) = 0
  BY DEF RpcHeader, Default
<1>10. m.field[2] = MethodName(p[1]) /\ m.field[3] = Len(Args(p))
  BY <1>1
<1> QED
  BY <1>8, <1>9, <1>10

(* OnMessage reads the beginning of a request as the method that was asked *)
(* for with an empty request, if it reads it at all.                       *)
LEMMA PieceIsRead ==
    ASSUME NEW p, IsCall(p), service_map = Methods, NEW f \in Pieces(Sent(p)), Readable(f)
    PROVE  Decoded(f) = RunOf(p, f # Sent(p))
<1> DEFINE args == Args(p)
           head == Serialize(RpcHeader, Header(p[1], args))
<1>1. Sent(p)[1] = head /\ Sent(p)[2] = args /\ Sent(p) = <<head, args>>
  BY DEF Sent
<1>2. p[1] \in Methods
  BY CallParts
<1>3. Len(args) \in Nat /\ args \in Seq(Written(RequestPrototype(p[1]), p[2]))
  <2>1. args \in Seq(Written(RequestPrototype(p[1]), p[2]))
    BY ArgsRead
  <2> QED
    BY <2>1, WholeOf
<1>4. CASE f = Sent(p)
  BY <1>4, SentIsRead DEF RunOf
<1>5. CASE f # Sent(p)
  <2>1. \/ \E n \in 0..Len(head) : f = <<SubSeq(head, 1, n), <<>>>>
        \/ \E n \in 0..Len(args) : f = <<head, SubSeq(args, 1, n)>>
    BY <1>1 DEF Pieces
  <2>2. CASE \E n \in 0..Len(head) : f = <<SubSeq(head, 1, n), <<>>>>
    <3>1. PICK n \in 0..Len(head) : f = <<SubSeq(head, 1, n), <<>>>>
      BY <2>2
    <3> DEFINE h == Parse(RpcHeader, f[1])
    <3>2. f[1] = SubSeq(head, 1, n) /\ f[2] = <<>>
      BY <3>1
    <3>3. h.msg.field[2] \in {<<>>, MethodName(p[1])} /\ h.msg.field[3] \in {0, Len(args)}
      BY <3>2, HeaderPart
    <3>4. h.msg.field[3] <= Len(<<>>)
      BY <3>2 DEF Readable
    <3>5. h.msg.field[3] = 0
      BY <1>3, <3>3, <3>4
    <3>6. PICK j \in Methods : h.msg.field[2] = MethodName(j)
      BY DEF Readable
    <3>7. h.msg.field[2] = MethodName(p[1])
      BY <3>3, <3>6, NamesDiffer
    <3>8. SubSeq(f[2], 1, h.msg.field[3]) = <<>>
      BY <3>2, <3>5
    <3> HIDE DEF h
    <3>9. (CHOOSE i \in service_map : h.msg.field[2] = MethodName(i)) = p[1]
      BY <1>2, <3>7, NamesDiffer
    <3>10. Decoded(f) = <<p[1], Parse(RequestPrototype(p[1]), SubSeq(f[2], 1, h.msg.field[3])).msg>>
      BY <3>9, Zenon DEF Decoded, h
    <3>11. Parse(RequestPrototype(p[1]), <<>>).msg = EmptyRequest(p[1])
      <4>1. RequestPrototype(p[1]) \in Types
        BY <1>2, MessageTypes
      <4> QED
        BY <4>1, ReadNone DEF Got, EmptyRequest
    <3>12. Decoded(f) = <<p[1], EmptyRequest(p[1])>>
      BY <3>8, <3>10, <3>11
    <3> QED
      BY <1>5, <3>12 DEF RunOf
  <2>3. CASE \E n \in 0..Len(args) : f = <<head, SubSeq(args, 1, n)>>
    <3>1. PICK n \in 0..Len(args) : f = <<head, SubSeq(args, 1, n)>>
      BY <2>3
    <3>2. f[1] = head /\ f[2] = SubSeq(args, 1, n)
      BY <3>1
    <3>3. Parse(RpcHeader, f[1]).msg.field[3] = Len(args)
      BY <3>2, HeaderRead
    <3>4. Len(args) <= Len(SubSeq(args, 1, n))
      BY <3>2, <3>3 DEF Readable
    <3> HIDE DEF args, head
    <3>5. Len(SubSeq(args, 1, n)) = n
      BY <1>3, <3>1
    <3>6. n = Len(args)
      BY <1>3, <3>1, <3>4, <3>5
    <3>7. SubSeq(args, 1, n) = args
      BY <1>3, <3>6, WholeOf
    <3> QED
      BY <1>1, <1>5, <3>1, <3>7
  <2> QED
    BY <2>1, <2>2, <2>3
<1> QED
  BY <1>4, <1>5

LEMMA RunParts ==
    ASSUME NEW p, IsCall(p), NEW cut
    PROVE  /\ RunOf(p, cut)[1] = p[1] /\ RunOf(p, cut) # None
           /\ p[1] = Add => \E a, b \in Int32 : RunOf(p, cut)[2].field = <<a, b>>
<1>1. p[1] \in Methods /\ p[2] \in Requests(p[1]) /\ p # None
  BY CallParts
<1>2. CASE cut
  <2>1. RunOf(p, cut) = <<p[1], EmptyRequest(p[1])>>
    BY <1>2 DEF RunOf
  <2>2. ASSUME p[1] = Add PROVE EmptyRequest(p[1]).field = <<0, 0>>
    <3>1. RequestPrototype(p[1]) = <<"int32", "int32">>
      BY <2>2 DEF RequestPrototype, Add, AddRequest
    <3>2. EmptyRequest(p[1]).field = [i \in 1..2 |-> Default(<<"int32", "int32">>[i])]
      BY <3>1 DEF EmptyRequest, SharedCtor
    <3>3. Default("int32") = 0
      BY DEF Default
    <3>4. \A i \in 1..2 : <<"int32", "int32">>[i] = "int32"
      OBVIOUS
    <3>5. EmptyRequest(p[1]).field = [i \in 1..2 |-> 0]
      BY <3>2, <3>3, <3>4
    <3> QED
      BY <3>5
  <2>3. 0 \in Int32
    BY Widths DEF Int32, Signed
  <2> QED
    BY <2>1, <2>2, <2>3 DEF None
<1>3. CASE ~cut
  <2>1. RunOf(p, cut) = p
    BY <1>3 DEF RunOf
  <2>2. ASSUME p[1] = Add PROVE \E a, b \in Int32 : p[2].field = <<a, b>>
    <3>1. PICK a, b \in Operands : p[2].field = <<a, b>>
      BY <1>1, <2>2 DEF Requests, Login, Register, Add
    <3> QED
      BY <3>1, UserRpcAssumption
  <2> QED
    BY <1>1, <2>1, <2>2
<1> QED
  BY <1>2, <1>3

(* Any part of what the method answered is read without an error and gives *)
(* a part of the answer.                                                   *)
LEMMA ReplyRead ==
    ASSUME NEW p, IsCall(p), p[1] \in {Login, Add}, NEW cut, NEW q, q = RunOf(p, cut)
    PROVE  /\ ReplyType(p) \in Types /\ Message(ReplyType(p), Reply(q))
           /\ Serialize(ReplyType(p), Reply(q)) \in Seq(Written(ReplyType(p), Reply(q)))
<1>1. p[1] \in Methods
  BY CallParts
<1>2. q[1] = p[1] /\ (p[1] = Add => \E a, b \in Int32 : q[2].field = <<a, b>>)
  BY RunParts
<1>3. Message(ReplyType(p), Reply(q))
  BY <1>2, AnswerMessage DEF ReplyType, Reply
<1>4. ReplyType(p) \in Types
  BY <1>1, MessageTypes DEF ReplyType
<1>5. Reads(ReplyType(p), Reply(q), Serialize(ReplyType(p), Reply(q)), Reply(q))
  BY <1>3, <1>4, ReadWritten
<1> QED
  BY <1>3, <1>4, <1>5 DEF Reads

-----------------------------------------------------------------------------
(* The inductive invariant, one connection at a time.  The frame, what     *)
(* runs and what was answered belong to the call the connection was made   *)
(* for, and a request is at one place at a time.                           *)
Shape == /\ DOMAIN cpc = Clients /\ DOMAIN asked = Connections /\ DOMAIN frame = Connections
         /\ DOMAIN torn = Connections /\ DOMAIN running = Connections
         /\ DOMAIN answer = Connections /\ DOMAIN computed = Connections
         /\ DOMAIN response = Clients /\ DOMAIN failed = Clients /\ DOMAIN silent = Clients
         /\ calls \in [Clients -> Nat]
         /\ \A c \in Clients : cpc[c] # "idle" => calls[c] \in 1..MaxCalls
         /\ success_count \in [Clients -> Nat]
         /\ up => service_map = Methods

OkFrame(k) ==
    frame[k] # None => /\ torn[k] = FALSE /\ IsCall(asked[k]) /\ frame[k] = Sent(asked[k])
                       /\ running[k] = None /\ answer[k] = None /\ computed[k] = None
OkRunning(k) == running[k] # None => IsCall(asked[k]) /\ running[k] = RunOf(asked[k], torn[k])

(* The method has answered the call of connection k. *)
Answered(k) == /\ asked[k][1] \in {Login, Add}
               /\ computed[k] = <<Reply(RunOf(asked[k], torn[k]))>>

OkAnswer(k) ==
    answer[k] # None =>
        /\ cpc[k[1]] = "recv" /\ k[2] = calls[k[1]] /\ Answered(k)
        /\ answer[k] = <<Serialize(ReplyType(asked[k]), Reply(RunOf(asked[k], torn[k])))>>

(* Nothing is known of a connection that was not made. *)
OkFresh(k) == k[2] > calls[k[1]] => /\ frame[k] = None /\ running[k] = None /\ answer[k] = None
                                    /\ computed[k] = None /\ torn[k] = FALSE

(* While its client is in the call: the client has nothing of the answer,  *)
(* or a part of it.                                                        *)
OkCall(k) == cpc[k[1]] # "idle" /\ k[2] = calls[k[1]] => IsCall(asked[k])
OkReturn(k) ==
    cpc[k[1]] = "returned" /\ k[2] = calls[k[1]] =>
        \/ silent[k[1]] = TRUE /\ response[k[1]] = <<SharedCtor(ReplyType(asked[k]))>>
        \/ /\ silent[k[1]] = FALSE /\ Answered(k)
           /\ \E x : /\ response[k[1]] = <<x>>
                     /\ PartOf(ReplyType(asked[k]), Reply(RunOf(asked[k], torn[k])), x)

ConnInv(k) == OkFrame(k) /\ OkRunning(k) /\ OkAnswer(k) /\ OkFresh(k) /\ OkCall(k) /\ OkReturn(k)
RpcInv == Shape /\ \A k \in Connections : ConnInv(k)

LEMMA Parts ==
    ASSUME NEW k \in Connections
    PROVE  k[1] \in Clients /\ k[2] \in 1..MaxCalls /\ k = <<k[1], k[2]>>
  BY DEF Connections

LEMMA RpcInit == Init => RpcInv
<1> SUFFICES ASSUME Init PROVE RpcInv
  OBVIOUS
<1>1. Shape
  BY DEF Init, Shape
<1>2. ASSUME NEW k \in Connections PROVE ConnInv(k)
  <2>1. /\ frame[k] = None /\ running[k] = None /\ answer[k] = None /\ computed[k] = None
        /\ torn[k] = FALSE /\ cpc[k[1]] = "idle"
    BY <1>2, Parts DEF Init
  <2> QED
    BY <2>1 DEF ConnInv, OkFrame, OkRunning, OkAnswer, OkFresh, OkCall, OkReturn
<1> QED
  BY <1>1, <1>2 DEF RpcInv

(* A step that leaves a connection alone. *)
Unmoved(k) == /\ asked'[k] = asked[k] /\ frame'[k] = frame[k] /\ torn'[k] = torn[k]
              /\ running'[k] = running[k] /\ answer'[k] = answer[k] /\ computed'[k] = computed[k]

(* The client that made it is left alone as well. *)
Same(k) == /\ Unmoved(k)
           /\ cpc'[k[1]] = cpc[k[1]] /\ calls'[k[1]] = calls[k[1]]
           /\ response'[k[1]] = response[k[1]] /\ silent'[k[1]] = silent[k[1]]

LEMMA SameConn ==
    ASSUME NEW k, ConnInv(k), Same(k)
    PROVE  ConnInv(k)'
<1>1. OkFrame(k)' /\ OkRunning(k)' /\ OkFresh(k)' /\ OkCall(k)'
  BY DEF ConnInv, OkFrame, OkRunning, OkFresh, OkCall, Same, Unmoved
<1>2. OkAnswer(k)'
  BY DEF ConnInv, OkAnswer, Answered, Same, Unmoved
<1>3. OkReturn(k)'
  BY DEF ConnInv, OkReturn, Answered, Same, Unmoved
<1> QED
  BY <1>1, <1>2, <1>3 DEF ConnInv

(* The client that made it is in no call, or in a later one. *)
Other(k) == /\ Unmoved(k) /\ answer[k] = None
            /\ k[2] > calls'[k[1]] => k[2] > calls[k[1]]
            /\ cpc'[k[1]] = "idle" \/ k[2] # calls'[k[1]]

LEMMA OtherConn ==
    ASSUME NEW k, ConnInv(k), Other(k)
    PROVE  ConnInv(k)'
  BY DEF ConnInv, OkFrame, OkRunning, OkFresh, OkCall, OkAnswer, OkReturn, Other, Unmoved

LEMMA NotifyKeeps ==
    ASSUME RpcInv, NotifyService
    PROVE  RpcInv'
<1>1. Shape'
  BY DEF RpcInv, Shape, NotifyService, netVars, clientVars
<1>2. ASSUME NEW k \in Connections PROVE Same(k)
  BY DEF NotifyService, netVars, clientVars, Same, Unmoved
<1>3. ASSUME NEW k \in Connections PROVE ConnInv(k)'
  BY <1>2, SameConn DEF RpcInv
<1> QED
  BY <1>1, <1>3 DEF RpcInv

(* Crash, CallUnimplemented. *)
LEMMA DieKeeps ==
    ASSUME RpcInv, Die, UNCHANGED <<starts, computed, torn, answer, clientVars>>
    PROVE  RpcInv'
<1>1. Shape'
  BY DEF RpcInv, Shape, Die, clientVars
<1>2. ASSUME NEW k \in Connections PROVE ConnInv(k)'
  <2>1. /\ cpc' = cpc /\ calls' = calls /\ asked' = asked /\ answer' = answer /\ torn' = torn
        /\ computed' = computed /\ response' = response /\ silent' = silent
        /\ frame'[k] = None /\ running'[k] = None
    BY <1>2 DEF Die, clientVars
  <2>2. ConnInv(k)
    BY DEF RpcInv
  <2>3. OkFrame(k)' /\ OkRunning(k)' /\ OkFresh(k)' /\ OkCall(k)'
    BY <2>1, <2>2 DEF ConnInv, OkFrame, OkRunning, OkFresh, OkCall
  <2>4. OkAnswer(k)'
    BY <2>1, <2>2 DEF ConnInv, OkAnswer, Answered
  <2>5. OkReturn(k)'
    BY <2>1, <2>2 DEF ConnInv, OkReturn, Answered
  <2> QED
    BY <2>3, <2>4, <2>5 DEF ConnInv
<1> QED
  BY <1>1, <1>2 DEF RpcInv

LEMMA StubKeeps ==
    ASSUME RpcInv, NEW c \in Clients, NEW i \in Methods, NEW req \in Requests(i), Stub(c, i, req)
    PROVE  RpcInv'
<1> DEFINE p == <<i, req>>
<1>1. calls[c] \in Nat /\ calls[c] < MaxCalls /\ cpc[c] = "idle"
  BY DEF RpcInv, Shape, Stub
<1>2. calls' = [calls EXCEPT ![c] = calls[c] + 1] /\ calls'[c] = calls[c] + 1
  BY DEF RpcInv, Shape, Stub
<1>3. PICK k : k = <<c, calls[c] + 1>>
  OBVIOUS
<1>4. k \in Connections /\ k[1] = c /\ k[2] = calls[c] + 1
  BY <1>1, <1>3, UserRpcAssumption DEF Connections
<1>5. At(c)' = k
  BY <1>2, <1>3 DEF At
<1>6. IsCall(p) /\ p[1] = i /\ p[2] = req
  BY DEF IsCall
<1>7. /\ asked' = [asked EXCEPT ![k] = p] /\ running' = running /\ answer' = answer
      /\ computed' = computed /\ torn' = torn
      /\ \/ /\ frame' = [frame EXCEPT ![k] = Sent(p)]
            /\ cpc' = [cpc EXCEPT ![c] = "recv"] /\ UNCHANGED <<response, silent>>
         \/ /\ frame' = frame /\ cpc' = [cpc EXCEPT ![c] = "returned"]
            /\ silent' = [silent EXCEPT ![c] = TRUE]
            /\ response' = [response EXCEPT ![c] = <<SharedCtor(ResponsePrototype(i))>>]
  BY <1>5, <1>6 DEF Stub, Returns, Sent, Args, Header, serverVars
<1>8. Shape'
  <2>1. UNCHANGED <<up, service_map, success_count>>
    BY DEF Stub, serverVars
  <2>2. DOMAIN failed' = Clients
    BY DEF RpcInv, Shape, Stub, Returns
  <2>3. calls' \in [Clients -> Nat]
    BY <1>1, <1>2 DEF RpcInv, Shape
  <2>4. \A d \in Clients : cpc'[d] # "idle" => calls'[d] \in 1..MaxCalls
    <3> SUFFICES ASSUME NEW d \in Clients, cpc'[d] # "idle" PROVE calls'[d] \in 1..MaxCalls
      OBVIOUS
    <3>1. CASE d = c
      BY <1>1, <1>2, <3>1, UserRpcAssumption
    <3>2. CASE d # c
      BY <1>2, <1>7, <3>2 DEF RpcInv, Shape
    <3> QED
      BY <3>1, <3>2
  <2> HIDE DEF p
  <2> QED
    BY <1>7, <2>1, <2>2, <2>3, <2>4 DEF RpcInv, Shape
<1> HIDE DEF p
<1>9. ASSUME NEW l \in Connections, l # k PROVE ConnInv(l)'
  <2>1. ConnInv(l) /\ l[1] \in Clients /\ l[2] \in Nat
    BY Parts, UserRpcAssumption DEF RpcInv
  <2>2. Unmoved(l)
    BY <1>7, <1>9 DEF RpcInv, Shape, Unmoved
  <2>3. CASE l[1] # c
    <3>1. Same(l)
      BY <1>2, <1>7, <2>1, <2>2, <2>3 DEF RpcInv, Shape, Same
    <3> QED
      BY <2>1, <3>1, SameConn
  <2>4. CASE l[1] = c
    <3>1. answer[l] = None
      BY <1>1, <2>1, <2>4 DEF ConnInv, OkAnswer
    <3>2. l[2] # calls[c] + 1
      BY <1>3, <1>9, <2>4, Parts
    <3>3. Other(l)
      BY <1>1, <1>2, <2>1, <2>2, <2>4, <3>1, <3>2 DEF Other
    <3> QED
      BY <2>1, <3>3, OtherConn
  <2> QED
    BY <2>3, <2>4
<1>10. ConnInv(k)'
  <2>1. /\ frame[k] = None /\ running[k] = None /\ answer[k] = None /\ computed[k] = None
        /\ torn[k] = FALSE
    BY <1>1, <1>4 DEF RpcInv, ConnInv, OkFresh
  <2>2. /\ asked'[k] = p /\ running'[k] = None /\ answer'[k] = None /\ computed'[k] = None
        /\ torn'[k] = FALSE
    BY <1>4, <1>7, <2>1 DEF RpcInv, Shape
  <2>3. \/ frame'[k] = Sent(p) /\ cpc'[c] = "recv"
        \/ /\ frame'[k] = None /\ cpc'[c] = "returned" /\ silent'[c] = TRUE
           /\ response'[c] = <<SharedCtor(ResponsePrototype(i))>>
    BY <1>4, <1>7, <2>1 DEF RpcInv, Shape
  <2>4. OkFrame(k)' /\ OkRunning(k)' /\ OkAnswer(k)' /\ OkCall(k)'
    BY <1>6, <2>2, <2>3 DEF OkFrame, OkRunning, OkAnswer, OkCall
  <2>5. OkFresh(k)'
    BY <1>1, <1>2, <1>4 DEF OkFresh
  <2>6. OkReturn(k)'
    BY <1>4, <1>6, <2>2, <2>3 DEF OkReturn, ReplyType
  <2> QED
    BY <2>4, <2>5, <2>6 DEF ConnInv
<1> QED
  BY <1>8, <1>9, <1>10 DEF RpcInv

(* The connection of a client that is in a call. *)
LEMMA Current ==
    ASSUME RpcInv, NEW c \in Clients, cpc[c] # "idle"
    PROVE  /\ At(c) \in Connections /\ At(c)[1] = c /\ At(c)[2] = calls[c] /\ ConnInv(At(c))
           /\ \A l \in Connections : l # At(c) /\ l[1] = c => l[2] # calls[c] /\ answer[l] = None
<1>1. calls[c] \in 1..MaxCalls
  BY DEF RpcInv, Shape
<1>2. At(c) = <<c, calls[c]>>
  BY DEF At
<1>3. At(c) \in Connections /\ At(c)[1] = c /\ At(c)[2] = calls[c]
  BY <1>1, <1>2 DEF Connections
<1>4. ASSUME NEW l \in Connections, l # At(c), l[1] = c PROVE l[2] # calls[c] /\ answer[l] = None
  <2>1. l[2] # calls[c]
    BY <1>2, <1>4, Parts
  <2> QED
    BY <1>4, <2>1 DEF RpcInv, ConnInv, OkAnswer
<1> QED
  BY <1>3, <1>4 DEF RpcInv

LEMMA RecvKeeps ==
    ASSUME RpcInv, NEW c \in Clients, Recv(c)
    PROVE  RpcInv'
<1> DEFINE p == asked[At(c)]
           q == RunOf(asked[At(c)], torn[At(c)])
           type == ReplyType(p)
           bytes == Serialize(type, Reply(q))
<1>1. cpc[c] = "recv" /\ cpc[c] # "idle"
  BY DEF Recv
<1>2. PICK k \in Connections : k = At(c)
  BY <1>1, Current
<1>3. k[1] = c /\ k[2] = calls[c] /\ ConnInv(k) /\ IsCall(p)
  BY <1>1, <1>2, Current DEF ConnInv, OkCall
<1>4. /\ asked' = asked /\ running' = running /\ frame' = frame /\ torn' = torn /\ calls' = calls
      /\ computed' = computed /\ answer' = [answer EXCEPT ![k] = None]
      /\ cpc' = [cpc EXCEPT ![c] = "returned"]
      /\ UNCHANGED <<up, service_map, success_count>>
  <2>1. PICK x, y, z : Returns(c, x, y, z)
    BY DEF Recv, Received
  <2>2. cpc' = [cpc EXCEPT ![c] = "returned"]
    BY <2>1 DEF Returns
  <2>3. /\ UNCHANGED <<serverVars, frame, torn, asked, calls, success_count>>
        /\ answer' = [answer EXCEPT ![At(c)] = None]
    BY DEF Recv
  <2> QED
    BY <1>2, <2>2, <2>3 DEF serverVars
<1>5. /\ \A d \in Clients : d # c => response'[d] = response[d] /\ silent'[d] = silent[d]
      /\ DOMAIN response' = Clients /\ DOMAIN failed' = Clients /\ DOMAIN silent' = Clients
  <2>1. PICK x, y, z : Returns(c, x, y, z)
    BY DEF Recv, Received
  <2> QED
    BY <2>1 DEF RpcInv, Shape, Returns
<1>6. Shape'
  BY <1>1, <1>4, <1>5 DEF RpcInv, Shape
<1>7. ASSUME NEW l \in Connections, l # k PROVE ConnInv(l)'
  <2>1. ConnInv(l) /\ l[1] \in Clients
    BY Parts DEF RpcInv
  <2>2. Unmoved(l)
    BY <1>4, <1>7 DEF RpcInv, Shape, Unmoved
  <2>3. CASE l[1] # c
    <3>1. Same(l)
      BY <1>4, <1>5, <2>1, <2>2, <2>3 DEF RpcInv, Shape, Same
    <3> QED
      BY <2>1, <3>1, SameConn
  <2>4. CASE l[1] = c
    <3>1. answer[l] = None /\ l[2] # calls[c]
      BY <1>1, <1>2, <1>7, <2>4, Current
    <3>2. Other(l)
      BY <1>4, <2>2, <2>4, <3>1 DEF Other
    <3> QED
      BY <2>1, <3>2, OtherConn
  <2> QED
    BY <2>3, <2>4
<1>8. OkFrame(k)' /\ OkRunning(k)' /\ OkFresh(k)' /\ OkCall(k)' /\ OkAnswer(k)'
  <2>1. answer'[k] = None
    BY <1>4 DEF RpcInv, Shape
  <2> QED
    BY <1>2, <1>3, <1>4, <2>1 DEF ConnInv, OkFrame, OkRunning, OkFresh, OkCall, OkAnswer
<1>9. type \in Types
  BY <1>3, CallParts, MessageTypes DEF ReplyType
<1>10. ASSUME NEW b, NEW x, NEW e, Parse(type, b) = [ok |-> e, msg |-> x], Received(c, b)
       PROVE  response'[c] = <<x>> /\ silent'[c] = (b = <<>>)
  <2>1. Parse(type, b).msg = x
    BY <1>10
  <2> QED
    BY <1>10, <2>1 DEF RpcInv, Shape, Received, Returns, ReplyType
<1>11. ASSUME answer[At(c)] # None, NEW n \in 1..Len(answer[At(c)][1]),
              Received(c, SubSeq(answer[At(c)][1], 1, n))
       PROVE  OkReturn(k)'
  <2>1. Answered(k) /\ answer[k] = <<bytes>>
    BY <1>2, <1>3, <1>11 DEF ConnInv, OkAnswer
  <2>2. answer[At(c)][1] = bytes
    BY <1>2, <2>1
  <2>3. n \in 1..Len(bytes) /\ Received(c, SubSeq(bytes, 1, n))
    BY <1>11, <2>2
  <2>4. p[1] \in {Login, Add}
    BY <1>2, <2>1 DEF Answered
  <2>5. Message(type, Reply(q)) /\ bytes \in Seq(Written(type, Reply(q)))
    BY <1>3, <2>4, ReplyRead
  <2> DEFINE b == SubSeq(bytes, 1, n)
  <2>6. n \in 0..Len(bytes) /\ n # 0
    BY <2>3
  <2>7. b \in Seq(Written(type, Reply(q))) /\ b # <<>>
    BY <2>5, <2>6, Beginning
  <2>8. Received(c, b)
    BY <2>3
  <2> HIDE DEF b, bytes, type, p, q
  <2>9. ReadsPart(type, Reply(q), b)
    BY <1>9, <2>5, <2>7, ReadAny
  <2>10. response'[c] = <<Got(type, b)>> /\ silent'[c] = (b = <<>>)
    BY <1>10, <2>8, <2>9 DEF ReadsPart
  <2>11. silent'[c] = FALSE
    BY <2>7, <2>10
  <2>12. Answered(k)'
    BY <1>4, <2>1 DEF Answered
  <2>13. PartOf(ReplyType(p), Reply(q), Got(type, b))
    BY <2>9 DEF ReadsPart, type
  <2>14. PartOf(ReplyType(asked[k]), Reply(RunOf(asked[k], torn[k])), Got(type, b))
    BY <1>2, <2>13 DEF p, q
  <2> QED
    BY <1>3, <1>4, <2>10, <2>11, <2>12, <2>14 DEF OkReturn
<1>12. ASSUME Received(c, <<>>) PROVE OkReturn(k)'
  <2>1. Parse(type, <<>>) = [ok |-> TRUE, msg |-> SharedCtor(type)]
    BY ParseNone DEF Parse
  <2>2. response'[c] = <<SharedCtor(type)>> /\ silent'[c] = (<<>> = <<>>)
    BY <1>10, <1>12, <2>1
  <2>3. silent'[c] = TRUE
    BY <2>2
  <2> QED
    BY <1>2, <1>3, <1>4, <2>2, <2>3 DEF OkReturn
<1>13. ASSUME Returns(c, SharedCtor(ResponsePrototype(asked[At(c)][1])), TRUE, TRUE)
       PROVE  OkReturn(k)'
  <2>1. response'[c] = <<SharedCtor(type)>> /\ silent'[c] = TRUE
    BY <1>13 DEF RpcInv, Shape, Returns, ReplyType
  <2> QED
    BY <1>2, <1>3, <1>4, <2>1 DEF OkReturn
<1>14. OkReturn(k)'
  BY <1>11, <1>12, <1>13 DEF Recv
<1>15. ConnInv(k)'
  BY <1>8, <1>14 DEF ConnInv
<1> QED
  BY <1>6, <1>7, <1>15 DEF RpcInv

LEMMA CountKeeps ==
    ASSUME RpcInv, NEW c \in Clients, Count(c)
    PROVE  RpcInv'
<1>1. cpc[c] = "returned" /\ cpc' = [cpc EXCEPT ![c] = "idle"]
  BY DEF Count
<1>2. /\ asked' = asked /\ calls' = calls /\ frame' = frame /\ torn' = torn /\ answer' = answer
      /\ running' = running /\ computed' = computed /\ up' = up /\ service_map' = service_map
      /\ response' = [response EXCEPT ![c] = None] /\ silent' = [silent EXCEPT ![c] = FALSE]
      /\ failed' = [failed EXCEPT ![c] = FALSE]
  BY DEF Count, Leave, netVars, serverVars
<1>3. Shape'
  <2>1. success_count' \in [Clients -> Nat]
    BY DEF RpcInv, Shape, Count
  <2> QED
    BY <1>1, <1>2, <2>1 DEF RpcInv, Shape
<1>4. ASSUME NEW l \in Connections PROVE ConnInv(l)'
  <2>1. ConnInv(l) /\ l[1] \in Clients
    BY Parts DEF RpcInv
  <2>2. Unmoved(l)
    BY <1>2 DEF Unmoved
  <2>3. CASE l[1] # c
    <3>1. Same(l)
      BY <1>1, <1>2, <2>1, <2>2, <2>3 DEF RpcInv, Shape, Same
    <3> QED
      BY <2>1, <3>1, SameConn
  <2>4. CASE l[1] = c
    <3>1. answer[l] = None
      BY <1>1, <2>1, <2>4 DEF ConnInv, OkAnswer
    <3>2. cpc'[c] = "idle"
      BY <1>1 DEF RpcInv, Shape
    <3>3. Other(l)
      BY <1>2, <2>2, <2>4, <3>1, <3>2 DEF Other
    <3> QED
      BY <2>1, <3>3, OtherConn
  <2> QED
    BY <2>3, <2>4
<1> QED
  BY <1>3, <1>4 DEF RpcInv

LEMMA OnMessageKeeps ==
    ASSUME RpcInv, NEW k \in Connections, OnMessage(k)
    PROVE  RpcInv'
<1>1. PICK piece \in Pieces(frame[k]) :
          /\ torn' = [torn EXCEPT ![k] = (piece # frame[k])]
          /\ running' = IF Readable(piece) THEN [running EXCEPT ![k] = Decoded(piece)] ELSE running
  BY DEF OnMessage
<1>2. /\ asked' = asked /\ calls' = calls /\ cpc' = cpc /\ answer' = answer /\ silent' = silent
      /\ computed' = computed /\ response' = response /\ failed' = failed
      /\ frame' = [frame EXCEPT ![k] = None] /\ success_count' = success_count
      /\ up' = up /\ service_map' = service_map
  BY DEF OnMessage, clientVars
<1>3. Shape'
  BY <1>1, <1>2 DEF RpcInv, Shape
<1>4. ASSUME NEW l \in Connections, l # k PROVE ConnInv(l)'
  <2>1. Same(l)
    BY <1>1, <1>2, <1>4 DEF RpcInv, Shape, Same, Unmoved
  <2> QED
    BY <2>1, SameConn DEF RpcInv
<1>5. /\ ConnInv(k) /\ frame[k] # None /\ service_map = Methods /\ IsCall(asked[k])
      /\ frame[k] = Sent(asked[k]) /\ running[k] = None /\ answer[k] = None /\ computed[k] = None
  BY DEF RpcInv, Shape, OnMessage, ConnInv, OkFrame
<1>6. frame'[k] = None /\ torn'[k] = (piece # frame[k])
  BY <1>1, <1>2 DEF RpcInv, Shape
<1>7. running'[k] # None => running'[k] = RunOf(asked[k], torn'[k])
  <2>1. CASE Readable(piece)
    <3>1. Decoded(piece) = RunOf(asked[k], piece # Sent(asked[k]))
      BY <1>5, <2>1, PieceIsRead
    <3>2. running'[k] = Decoded(piece)
      BY <1>1, <2>1 DEF RpcInv, Shape
    <3>3. torn'[k] = (piece # Sent(asked[k]))
      BY <1>5, <1>6
    <3> QED
      BY <3>1, <3>2, <3>3
  <2>2. CASE ~Readable(piece)
    BY <1>1, <1>5, <2>2
  <2> QED
    BY <2>1, <2>2
<1>8. OkFresh(k)'
  <2>1. ~(k[2] > calls[k[1]])
    BY <1>5 DEF ConnInv, OkFresh
  <2> QED
    BY <1>2, <2>1 DEF OkFresh
<1>9. OkFrame(k)' /\ OkRunning(k)' /\ OkAnswer(k)' /\ OkCall(k)'
  BY <1>2, <1>5, <1>6, <1>7 DEF ConnInv, OkFrame, OkRunning, OkAnswer, OkCall
<1>10. ~Answered(k)
  BY <1>5 DEF Answered, None
<1>11. OkReturn(k)'
  BY <1>2, <1>5, <1>10 DEF ConnInv, OkReturn
<1>12. ConnInv(k)'
  BY <1>8, <1>9, <1>11 DEF ConnInv
<1> QED
  BY <1>3, <1>4, <1>12 DEF RpcInv

LEMMA CallMethodKeeps ==
    ASSUME RpcInv, NEW k \in Connections, CallMethod(k)
    PROVE  RpcInv'
<1> DEFINE q == RunOf(asked[k], torn[k])
<1>1. /\ ConnInv(k) /\ running[k] # None /\ running[k][1] \in {Login, Add}
      /\ IsCall(asked[k]) /\ running[k] = q
  BY DEF RpcInv, CallMethod, ConnInv, OkRunning
<1>2. q[1] = asked[k][1] /\ asked[k][1] \in {Login, Add}
  BY <1>1, RunParts
<1>3. Filled(running[k][1], running[k][2]) = Reply(q)
      /\ ResponsePrototype(running[k][1]) = ReplyType(asked[k])
  BY <1>1, <1>2 DEF Reply, ReplyType
<1>4. /\ asked' = asked /\ calls' = calls /\ cpc' = cpc /\ silent' = silent /\ failed' = failed
      /\ frame' = frame /\ torn' = torn /\ response' = response /\ success_count' = success_count
      /\ up' = up /\ service_map' = service_map /\ running' = [running EXCEPT ![k] = None]
  BY DEF CallMethod, clientVars
<1>5. /\ computed' = [computed EXCEPT ![k] = <<Reply(q)>>]
      /\ \/ /\ answer' = [answer EXCEPT ![k] = <<Serialize(ReplyType(asked[k]), Reply(q))>>]
            /\ cpc[k[1]] = "recv" /\ At(k[1]) = k
         \/ answer' = [answer EXCEPT ![k] = answer[k]]
  BY <1>3 DEF CallMethod
<1>6. Shape'
  BY <1>4, <1>5 DEF RpcInv, Shape
<1>7. ASSUME NEW l \in Connections, l # k PROVE ConnInv(l)'
  <2>1. Same(l)
    BY <1>4, <1>5, <1>7 DEF RpcInv, Shape, Same, Unmoved
  <2> QED
    BY <2>1, SameConn DEF RpcInv
<1>8. frame[k] = None
  BY <1>1 DEF ConnInv, OkFrame
<1>9. running'[k] = None /\ computed'[k] = <<Reply(q)>>
  BY <1>4, <1>5 DEF RpcInv, Shape
<1>10. Answered(k)'
  BY <1>2, <1>4, <1>9 DEF Answered
<1>11. OkFrame(k)' /\ OkRunning(k)' /\ OkCall(k)'
  BY <1>1, <1>4, <1>8, <1>9 DEF ConnInv, OkFrame, OkRunning, OkCall
<1>12. OkFresh(k)'
  <2>1. ~(k[2] > calls[k[1]])
    BY <1>1 DEF ConnInv, OkFresh
  <2> QED
    BY <1>4, <2>1 DEF OkFresh
<1>13. OkAnswer(k)'
  <2>1. CASE answer' = [answer EXCEPT ![k] = <<Serialize(ReplyType(asked[k]), Reply(q))>>]
             /\ cpc[k[1]] = "recv" /\ At(k[1]) = k
    <3>1. answer'[k] = <<Serialize(ReplyType(asked[k]), Reply(q))>>
      BY <2>1 DEF RpcInv, Shape
    <3>2. k[2] = calls[k[1]]
      BY <2>1 DEF At
    <3> QED
      BY <1>4, <1>10, <2>1, <3>1, <3>2 DEF OkAnswer
  <2>2. CASE answer' = [answer EXCEPT ![k] = answer[k]]
    <3>1. answer'[k] = answer[k]
      BY <2>2 DEF RpcInv, Shape
    <3> QED
      BY <1>1, <1>4, <1>10, <3>1 DEF ConnInv, OkAnswer
  <2> QED
    BY <1>5, <2>1, <2>2
<1>14. OkReturn(k)'
  BY <1>1, <1>4, <1>10 DEF ConnInv, OkReturn
<1>15. ConnInv(k)'
  BY <1>11, <1>12, <1>13, <1>14 DEF ConnInv
<1> QED
  BY <1>6, <1>7, <1>15 DEF RpcInv

LEMMA RpcStep == RpcInv /\ [Next]_vars => RpcInv'
<1> SUFFICES ASSUME RpcInv, [Next]_vars PROVE RpcInv'
  OBVIOUS
<1>1. CASE NotifyService
  BY <1>1, NotifyKeeps
<1>2. CASE Crash
  BY <1>2, DieKeeps DEF Crash
<1>3. ASSUME NEW c \in Clients, NEW i \in Methods, NEW req \in Requests(i), Stub(c, i, req)
      PROVE  RpcInv'
  BY <1>3, StubKeeps
<1>4. ASSUME NEW c \in Clients, Recv(c) PROVE RpcInv'
  BY <1>4, RecvKeeps
<1>5. ASSUME NEW c \in Clients, Count(c) PROVE RpcInv'
  BY <1>5, CountKeeps
<1>6. ASSUME NEW k \in Connections, OnMessage(k) PROVE RpcInv'
  BY <1>6, OnMessageKeeps
<1>7. ASSUME NEW k \in Connections, CallMethod(k) PROVE RpcInv'
  BY <1>7, CallMethodKeeps
<1>8. ASSUME NEW k \in Connections, CallUnimplemented(k) PROVE RpcInv'
  BY <1>8, DieKeeps DEF CallUnimplemented
<1>9. CASE UNCHANGED vars
  <2>1. Shape'
    BY <1>9 DEF RpcInv, Shape, vars, serverVars, netVars, clientVars
  <2>2. ASSUME NEW k \in Connections PROVE Same(k)
    BY <1>9 DEF Same, Unmoved, vars, serverVars, netVars, clientVars
  <2>3. ASSUME NEW k \in Connections PROVE ConnInv(k)'
    BY <2>2, SameConn DEF RpcInv
  <2> QED
    BY <2>1, <2>3 DEF RpcInv
<1> QED
  BY <1>1, <1>2, <1>3, <1>4, <1>5, <1>6, <1>7, <1>8, <1>9 DEF Next

LEMMA RpcAlways == Spec => []RpcInv
  BY RpcInit, RpcStep, PTL DEF Spec

-----------------------------------------------------------------------------
(* A message, of any type made of the kinds of fields that the two .proto  *)
(* files use, is read by ParseFromString exactly as SerializeToString      *)
(* wrote it, unknown fields included.  Its ResultCodes are absent or, as   *)
(* UserService sends them, empty.                                          *)
THEOREM RoundTrip ==
    ASSUME NEW type \in Types, NEW m, Message(type, m)
    PROVE  Parse(type, Serialize(type, m)) = [ok |-> TRUE, msg |-> m]
  BY ReadWritten DEF Reads

LEMMA PiecesMerge ==
    ASSUME NEW type \in Types, NEW m, Message(type, m), NEW s \in Seq(Written(type, m)),
           NEW n \in 0..Len(s)
    PROVE  MergeFrom(type, Parse(type, SubSeq(s, 1, n)).msg,
                           Parse(type, SubSeq(s, n + 1, Len(s))).msg)
               = Parse(type, s).msg
<1> DEFINE t == SubSeq(s, 1, n)
           u == SubSeq(s, n + 1, Len(s))
<1>1. t \in Seq(Written(type, m)) /\ u \in Seq(Written(type, m)) /\ t \o u = s
  BY Beginning
<1> HIDE DEF t, u
<1>2. MergeFrom(type, Got(type, t), Got(type, u)) = Got(type, t \o u)
  BY <1>1, MergeAny
<1> QED
  BY <1>1, <1>2 DEF Got, t, u

(* A request that arrives whole is read by a provider that is up: it finds *)
(* the method and hands it the request that the client made.  What runs of *)
(* a request that came in pieces is the method that was asked for, with an *)
(* empty request.                                                          *)
THEOREM Dispatched == Spec => []DispatchedAsCalled
<1>1. RpcInv => DispatchedAsCalled
  <2> SUFFICES ASSUME RpcInv, NEW k \in Connections
               PROVE  /\ up /\ frame[k] # None => Readable(frame[k]) /\ Decoded(frame[k]) = asked[k]
                      /\ running[k] # None => running[k] = AsRun(k)
    BY DEF DispatchedAsCalled
  <2>1. ConnInv(k)
    BY DEF RpcInv
  <2>2. ASSUME up, frame[k] # None PROVE Readable(frame[k]) /\ Decoded(frame[k]) = asked[k]
    <3>1. IsCall(asked[k]) /\ frame[k] = Sent(asked[k])
      BY <2>1, <2>2 DEF ConnInv, OkFrame
    <3>2. service_map = Methods
      BY <2>2 DEF RpcInv, Shape
    <3> QED
      BY <3>1, <3>2, SentIsRead
  <2>3. running[k] # None => running[k] = AsRun(k)
    BY <2>1 DEF ConnInv, OkRunning, AsRun, RunOf, EmptyRequest
  <2> QED
    BY <2>2, <2>3
<1> QED
  BY <1>1, RpcAlways, PTL

(* What is on its way, a request or an answer, may be read in two pieces:  *)
(* merging them gives what reading it at once gives, wherever it was cut.  *)
THEOREM PiecesOfMessages == Spec => []MergeOfPieces
<1> DEFINE Cuts(type, bytes) ==
               \A n \in 0..Len(bytes) :
                   MergeFrom(type, Parse(type, SubSeq(bytes, 1, n)).msg,
                                   Parse(type, SubSeq(bytes, n + 1, Len(bytes))).msg)
                       = Parse(type, bytes).msg
<1>1. ASSUME NEW type \in Types, NEW m, Message(type, m), NEW s \in Seq(Written(type, m))
      PROVE  Cuts(type, s)
  BY <1>1, PiecesMerge
<1>2. RpcInv => MergeOfPieces
  <2> HIDE DEF Cuts
  <2>1. ASSUME RpcInv, NEW k \in Connections, frame[k] # None
        PROVE  Cuts(RequestPrototype(asked[k][1]), frame[k][2])
    <3>1. IsCall(asked[k]) /\ frame[k] = Sent(asked[k])
      BY <2>1 DEF RpcInv, ConnInv, OkFrame
    <3>2. frame[k][2] = Args(asked[k])
      BY <3>1 DEF Sent
    <3>3. /\ RequestPrototype(asked[k][1]) \in Types
          /\ Message(RequestPrototype(asked[k][1]), asked[k][2])
          /\ Args(asked[k]) \in Seq(Written(RequestPrototype(asked[k][1]), asked[k][2]))
      BY <3>1, ArgsRead
    <3> QED
      BY <1>1, <3>2, <3>3
  <2>2. ASSUME RpcInv, NEW k \in Connections, answer[k] # None
        PROVE  Cuts(ResponsePrototype(asked[k][1]), answer[k][1])
    <3> DEFINE q == RunOf(asked[k], torn[k])
    <3>1. /\ cpc[k[1]] = "recv" /\ k[2] = calls[k[1]] /\ asked[k][1] \in {Login, Add}
          /\ answer[k] = <<Serialize(ReplyType(asked[k]), Reply(q))>>
      BY <2>2 DEF RpcInv, ConnInv, OkAnswer, Answered
    <3>2. IsCall(asked[k])
      BY <2>2, <3>1 DEF RpcInv, ConnInv, OkCall
    <3>3. answer[k][1] = Serialize(ReplyType(asked[k]), Reply(q))
      BY <3>1
    <3>4. /\ ReplyType(asked[k]) \in Types /\ Message(ReplyType(asked[k]), Reply(q))
          /\ Serialize(ReplyType(asked[k]), Reply(q))
                 \in Seq(Written(ReplyType(asked[k]), Reply(q)))
      BY <3>1, <3>2, ReplyRead
    <3> HIDE DEF q
    <3>5. Cuts(ReplyType(asked[k]), Serialize(ReplyType(asked[k]), Reply(q)))
      BY <1>1, <3>4
    <3> QED
      BY <3>3, <3>5 DEF ReplyType
  <2> QED
    BY <2>1, <2>2 DEF MergeOfPieces, Cuts
<1> QED
  BY <1>2, RpcAlways, PTL

(* A client that received anything without an error has, in each field,    *)
(* what the method computed for this very call, or nothing, even if the    *)
(* provider still works on calls it made before.                           *)
THEOREM AnswersOfTheCall == Spec => []AnswersAgree
<1>1. RpcInv => AnswersAgree
  <2> SUFFICES ASSUME RpcInv, NEW c \in Clients, cpc[c] = "returned", ~failed[c], ~silent[c],
                      NEW k, k = At(c), NEW type, type = ResponsePrototype(asked[k][1])
               PROVE  /\ computed[k] # None
                      /\ \A i \in DOMAIN type :
                            response[c][1].field[i] \in {Default(type[i]), computed[k][1].field[i]}
    BY DEF AnswersAgree
  <2>1. silent[c] # TRUE
    OBVIOUS
  <2>2. OkReturn(k) /\ k[1] = c /\ k[2] = calls[c]
    BY Current DEF ConnInv
  <2> DEFINE r == Reply(RunOf(asked[k], torn[k]))
  <2>3. PICK x : response[c] = <<x>> /\ PartOf(ReplyType(asked[k]), r, x)
    BY <2>1, <2>2 DEF OkReturn
  <2>4. computed[k] = <<r>>
    BY <2>1, <2>2 DEF OkReturn, Answered
  <2> HIDE DEF r
  <2>5. computed[k] # None /\ computed[k][1] = r /\ response[c][1] = x
    BY <2>3, <2>4 DEF None
  <2> QED
    BY <2>3, <2>5 DEF PartOf, ReplyType
<1> QED
  BY <1>1, RpcAlways, PTL

(* The only step that raises a client's success_count is its own Count. *)
LEMMA OnlyCountWins ==
    ASSUME RpcInv, [Next]_vars, NEW c \in Clients, Won(c)
    PROVE  Count(c)
<1>1. success_count[c] \in Nat
  BY DEF RpcInv, Shape
<1>2. success_count'[c] # success_count[c]
  BY <1>1 DEF Won
<1>3. ~UNCHANGED success_count
  BY <1>2
<1>4. PICK d \in Clients : Count(d)
  BY <1>3 DEF Next, vars, serverVars, netVars, clientVars, NotifyService, Crash, Stub, Recv,
              OnMessage, CallMethod, CallUnimplemented
<1>5. d = c
  BY <1>2, <1>4 DEF RpcInv, Shape, Count
<1> QED
  BY <1>4, <1>5

(* What send_request and send_add_request count as a success has run, and  *)
(* an Add had the expected sum; a Login or Register of which nothing came  *)
(* back and no error was reported is the exception.                        *)
THEOREM RealSuccess == Spec => SuccessIsReal
<1>1. ASSUME RpcInv, [Next]_vars, NEW c \in Clients, Won(c)
      PROVE  IF asked[At(c)][1] = Add
             THEN computed[At(c)] # None /\ computed[At(c)][1].field[2] = Expected
             ELSE computed[At(c)] # None \/ (silent[c] /\ ~failed[c])
  <2>1. Count(c)
    BY <1>1, OnlyCountWins
  <2>2. success_count[c] \in Nat /\ DOMAIN success_count = Clients
    BY <1>1 DEF RpcInv, Shape
  <2>3. PICK k : k = At(c)
    OBVIOUS
  <2>4. ~failed[c] /\ (asked[k][1] = Add => response[c][1].field[2] = Expected)
    BY <1>1, <2>1, <2>2, <2>3 DEF Count, Won
  <2>5. cpc[c] = "returned" /\ OkReturn(k) /\ k[1] = c /\ k[2] = calls[c]
    <3>1. cpc[c] = "returned" /\ cpc[c] # "idle"
      BY <2>1 DEF Count
    <3> QED
      BY <1>1, <2>3, <3>1, Current DEF ConnInv
  <2> DEFINE q == RunOf(asked[k], torn[k])
  <2>6. CASE silent[c] = TRUE /\ response[c] = <<SharedCtor(ReplyType(asked[k]))>>
    <3>1. ASSUME asked[k][1] = Add PROVE FALSE
      <4>1. response[c][1] = SharedCtor(AddResponse)
        BY <2>6, <3>1 DEF ReplyType, ResponsePrototype, Add
      <4>2. 2 \in DOMAIN AddResponse /\ AddResponse[2] = "int32"
        BY DEF AddResponse
      <4>3. SharedCtor(AddResponse).field[2] = 0
        BY <4>2 DEF SharedCtor, Default
      <4> QED
        BY <2>4, <3>1, <4>1, <4>3, UserRpcAssumption
    <3> QED
      BY <2>3, <2>4, <2>6, <3>1
  <2>7. CASE silent[c] = FALSE /\ Answered(k)
             /\ \E x : response[c] = <<x>> /\ PartOf(ReplyType(asked[k]), Reply(q), x)
    <3>1. computed[k] # None /\ computed[k][1] = Reply(q)
      BY <2>7 DEF Answered, None
    <3>2. PICK x : response[c] = <<x>> /\ PartOf(ReplyType(asked[k]), Reply(q), x)
      BY <2>7
    <3> HIDE DEF q
    <3>3. ASSUME asked[k][1] = Add PROVE computed[k][1].field[2] = Expected
      <4>1. ReplyType(asked[k]) = AddResponse
        BY <3>3 DEF ReplyType, ResponsePrototype, Add
      <4>2. 2 \in DOMAIN AddResponse /\ Default(AddResponse[2]) = 0
        BY DEF AddResponse, Default
      <4>3. x.field[2] \in {0, Reply(q).field[2]}
        BY <3>2, <4>1, <4>2 DEF PartOf
      <4>4. x.field[2] = Expected
        BY <2>4, <3>2, <3>3
      <4> QED
        BY <3>1, <4>3, <4>4, UserRpcAssumption
    <3> QED
      BY <2>3, <3>1, <3>3
  <2> QED
    BY <2>5, <2>6, <2>7 DEF OkReturn
<1>2. RpcInv /\ [Next]_vars =>
          [\A c \in Clients : Won(c) =>
               IF asked[At(c)][1] = Add
               THEN computed[At(c)] # None /\ computed[At(c)][1].field[2] = Expected
               ELSE computed[At(c)] # None \/ (silent[c] /\ ~failed[c])]_vars
  BY <1>1
<1> QED
  BY <1>2, RpcAlways, PTL DEF Spec, SuccessIsReal

=============================================================================
