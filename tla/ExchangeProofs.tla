---------------------------- MODULE ExchangeProofs ----------------------------
(***************************************************************************)
(* Connection implements Exchange: every step of the shared connection is  *)
(* a step of the private channels, or none.  A chunk that parse_and_       *)
(* distribute moves from the wire to a slot stays where it is in the       *)
(* channel; what poll_frame hands out is its head; what a lost connection  *)
(* takes along is its tail.                                                *)
(***************************************************************************)
EXTENDS ConnectionExchange, DeliveryProofs, FiniteSetTheorems

-----------------------------------------------------------------------------
(* The inductive invariant *)

\* The connection loses everything that is under way or nothing: while any
\* output of a call is on the wire, the last chunk sent is.
LastOnWire ==
    \A t \in Req : pc[t] \in Live /\ OnWire(t) # {} => sent[t] \in OnWire(t)

ExchangeInv == PermitInv /\ ForwardHolds /\ FlightInv /\ SeatInv /\ DeliveryInv /\ LastOnWire

\* It holds until the application reads past a torn record.
Private == garbled = "no" => ExchangeInv

-----------------------------------------------------------------------------
(* Sequences *)

\* Two sequences of one length with the same elements are the same.
LEMMA SameSeq ==
    ASSUME NEW S, NEW a \in Seq(S), NEW b \in Seq(S), Len(a) = Len(b),
           \A i \in 1 .. Len(a) : a[i] = b[i]
    PROVE  a = b
  OBVIOUS

\* A function on an interval from 1 is a sequence.
LEMMA FunctionSeq ==
    ASSUME NEW S, NEW l \in Nat, NEW f \in [1 .. l -> S]
    PROVE  f \in Seq(S) /\ Len(f) = l
  OBVIOUS

\* The elements of a concatenation.
LEMMA Joined ==
    ASSUME NEW S, NEW a \in Seq(S), NEW b \in Seq(S)
    PROVE  /\ a \o b \in Seq(S) /\ Len(a \o b) = Len(a) + Len(b)
           /\ \A i \in 1 .. Len(a) : (a \o b)[i] = a[i]
           /\ \A i \in 1 .. Len(b) : (a \o b)[Len(a) + i] = b[i]
  OBVIOUS

\* The first chunk on the wire goes to the end of the slot's buffer.
LEMMA MoveOver ==
    ASSUME NEW S, NEW a \in Seq(S), NEW b \in Seq(S), b # <<>>
    PROVE  Append(a, Head(b)) \o Tail(b) = a \o b
<1>1. Head(b) \in S /\ Tail(b) \in Seq(S) /\ Len(Tail(b)) = Len(b) - 1 /\ Len(b) >= 1
      /\ Len(a) \in Nat /\ Len(b) \in Nat
  OBVIOUS
<1>2. Append(a, Head(b)) \in Seq(S) /\ Len(Append(a, Head(b))) = Len(a) + 1
  BY <1>1
<1>. DEFINE l == Append(a, Head(b)) \o Tail(b)
            r == a \o b
<1>3. l \in Seq(S) /\ r \in Seq(S) /\ Len(l) = Len(a) + Len(b) /\ Len(r) = Len(a) + Len(b)
  BY <1>1, <1>2, Joined
<1>4. ASSUME NEW i \in 1 .. (Len(a) + Len(b)) PROVE l[i] = r[i]
  <2>1. CASE i <= Len(a)
    BY <1>1, <1>2, <2>1
  <2>2. CASE i = Len(a) + 1
    BY <1>1, <1>2, <2>2
  <2>3. CASE i > Len(a) + 1
    BY <1>1, <1>2, <2>3
  <2>. QED  BY <1>1, <2>1, <2>2, <2>3
<1>. QED  BY <1>3, <1>4, SameSeq

\* The head of the channel is the head of the slot's buffer.
LEMMA TakeFirst ==
    ASSUME NEW S, NEW a \in Seq(S), NEW b \in Seq(S), a # <<>>
    PROVE  a \o b # <<>> /\ Head(a \o b) = Head(a) /\ Tail(a \o b) = Tail(a) \o b
<1>1. Tail(a) \in Seq(S) /\ Len(Tail(a)) = Len(a) - 1 /\ Len(a) >= 1 /\ Len(a) \in Nat /\ Len(b) \in Nat
  OBVIOUS
<1>2. a \o b \in Seq(S) /\ Len(a \o b) = Len(a) + Len(b) /\ a \o b # <<>> /\ Head(a \o b) = Head(a)
  BY <1>1
<1>. DEFINE l == Tail(a \o b)
            r == Tail(a) \o b
<1>3. /\ l \in Seq(S) /\ r \in Seq(S) /\ Len(l) = Len(a) + Len(b) - 1 /\ Len(r) = Len(a) + Len(b) - 1
  BY <1>1, <1>2
<1>4. ASSUME NEW i \in 1 .. (Len(a) + Len(b) - 1) PROVE l[i] = r[i]
  <2>1. l[i] = (a \o b)[i + 1]
    BY <1>1, <1>2
  <2>2. CASE i <= Len(a) - 1
    BY <1>1, <2>1, <2>2
  <2>3. CASE i > Len(a) - 1
    BY <1>1, <2>1, <2>3
  <2>. QED  BY <1>1, <2>2, <2>3
<1>5. l = r
  BY <1>3, <1>4, SameSeq
<1>. QED  BY <1>2, <1>5

\* Nothing is behind the only chunk.
LEMMA LastTaken ==
    ASSUME NEW S, NEW a \in Seq(S), Len(a) = 1
    PROVE  Tail(a) = <<>>
<1>1. a # <<>>
  OBVIOUS
<1>2. Tail(a) \in Seq(S) /\ Len(Tail(a)) = Len(a) - 1
  BY <1>1
<1>3. Len(Tail(a)) = 0 /\ <<>> \in Seq(S) /\ Len(<<>>) = 0 /\ 1 .. 0 = {}
  BY <1>2
<1>. QED  BY <1>2, <1>3, SameSeq

\* What is put out goes to the end of the channel.
LEMMA AddLast ==
    ASSUME NEW S, NEW a \in Seq(S), NEW b \in Seq(S), NEW c \in S
    PROVE  a \o Append(b, c) = Append(a \o b, c)
<1>1. Len(a) \in Nat /\ Len(b) \in Nat /\ Append(b, c) \in Seq(S) /\ Len(Append(b, c)) = Len(b) + 1
  OBVIOUS
<1>2. a \o b \in Seq(S) /\ Len(a \o b) = Len(a) + Len(b)
  OBVIOUS
<1>. DEFINE l == a \o Append(b, c)
            r == Append(a \o b, c)
<1>3. /\ l \in Seq(S) /\ r \in Seq(S) /\ Len(l) = Len(a) + Len(b) + 1 /\ Len(r) = Len(a) + Len(b) + 1
  BY <1>1, <1>2
<1>4. ASSUME NEW i \in 1 .. (Len(a) + Len(b) + 1) PROVE l[i] = r[i]
  <2>1. CASE i <= Len(a)
    BY <1>1, <1>2, <2>1
  <2>2. CASE i > Len(a) /\ i <= Len(a) + Len(b)
    BY <1>1, <1>2, <2>2
  <2>3. CASE i = Len(a) + Len(b) + 1
    BY <1>1, <1>2, <2>3
  <2>. QED  BY <1>1, <2>1, <2>2, <2>3
<1>. QED  BY <1>3, <1>4, SameSeq

\* The channel is the slot's buffer and then what is on the wire.
LEMMA Parts ==
    ASSUME NEW S, NEW a \in Seq(S), NEW b \in Seq(S)
    PROVE  /\ Len(a) \in 0 .. Len(a \o b)
           /\ SubSeq(a \o b, 1, Len(a)) = a
           /\ SubSeq(a \o b, Len(a) + 1, Len(a \o b)) = b
<1>1. Len(a) \in Nat /\ Len(b) \in Nat /\ a \o b \in Seq(S) /\ Len(a \o b) = Len(a) + Len(b)
  OBVIOUS
<1>. DEFINE l == SubSeq(a \o b, 1, Len(a))
            r == SubSeq(a \o b, Len(a) + 1, Len(a) + Len(b))
<1>2. l \in Seq(S) /\ Len(l) = Len(a) /\ \A i \in 1 .. Len(a) : l[i] = (a \o b)[i]
  BY <1>1
<1>3. r \in Seq(S) /\ Len(r) = Len(b) /\ \A i \in 1 .. Len(b) : r[i] = (a \o b)[Len(a) + i]
  BY <1>1
<1>4. l = a
  BY <1>2, Joined, SameSeq
<1>5. r = b
  BY <1>3, Joined, SameSeq
<1>. QED  BY <1>1, <1>4, <1>5

-----------------------------------------------------------------------------
(* What is on the wire *)

\* Output on the wire, by its place.
LEMMA WireAt == \A t, m : m \in OnWire(t) <=> \E i \in DOMAIN inbuf : Out(t, i) /\ inbuf[i].n = m
  BY DEF OnWire, Out

\* A call whose output is not at the head keeps it; the others lose the first
\* chunk, and only that: it is not sent twice.
LEMMA ConsumeWire ==
    ASSUME PermitInv, NEW t \in Req, inbuf # <<>>, inbuf' = Tail(inbuf)
    PROVE  /\ ~Out(t, 1) => OnWire(t)' = OnWire(t)
           /\ Out(t, 1) /\ Pending(t) => /\ Upto(t) \in OnWire(t)
                                         /\ OnWire(t)' = OnWire(t) \ {Upto(t)}
<1>1. /\ 1 \in DOMAIN inbuf
      /\ \A i \in DOMAIN Tail(inbuf) :
            i + 1 \in DOMAIN inbuf /\ Tail(inbuf)[i] = inbuf[i + 1] /\ i + 1 > 1
  BY WithinTail DEF PermitInv, TypeOK
<1>2. /\ Len(inbuf) \in Nat /\ DOMAIN inbuf = 1 .. Len(inbuf) /\ DOMAIN inbuf' = 1 .. (Len(inbuf) - 1)
  BY DEF PermitInv, TypeOK
<1>3. \A i \in DOMAIN inbuf' : Out(t, i)' <=> Out(t, i + 1)
  BY <1>1 DEF Out
<1>4. \A m : m \in OnWire(t)' <=> \E i \in DOMAIN inbuf' : Out(t, i)' /\ inbuf'[i].n = m
  BY DEF OnWire, Out
<1>5. ASSUME NEW m \in OnWire(t)'
      PROVE  \E i \in DOMAIN inbuf : i > 1 /\ Out(t, i) /\ inbuf[i].n = m
  BY <1>1, <1>3, <1>4
<1>6. ASSUME NEW i \in DOMAIN inbuf, i # 1, Out(t, i) PROVE inbuf[i].n \in OnWire(t)'
  <2>1. i - 1 \in DOMAIN inbuf' /\ (i - 1) + 1 = i
    BY <1>2, <1>6
  <2>2. Out(t, i - 1)' /\ inbuf'[i - 1] = inbuf[i]
    BY <1>1, <1>3, <1>6, <2>1
  <2>. QED  BY <1>4, <2>1, <2>2
<1>7. ASSUME ~Out(t, 1) PROVE OnWire(t)' = OnWire(t)
  <2>1. \A m \in OnWire(t)' : m \in OnWire(t)
    BY <1>5, WireAt
  <2>2. \A m \in OnWire(t) : m \in OnWire(t)'
    BY <1>6, <1>7, WireAt
  <2>. QED  BY <2>1, <2>2
<1>8. ASSUME Out(t, 1), Pending(t)
      PROVE  Upto(t) \in OnWire(t) /\ OnWire(t)' = OnWire(t) \ {Upto(t)}
  <2>1. inbuf[1].n = Upto(t)
    BY <1>1, <1>8, FirstRecord
  <2>2. Upto(t) \in OnWire(t)
    BY <1>1, <1>8, <2>1, WireAt
  <2>3. Upto(t) \in Nat
    BY ChunkTypes
  <2>4. ASSUME NEW m \in OnWire(t)' PROVE m \in OnWire(t) /\ m # Upto(t)
    <3>1. PICK i \in DOMAIN inbuf : i > 1 /\ Out(t, i) /\ inbuf[i].n = m
      BY <1>5, <2>4
    <3>2. inbuf[1].n < inbuf[i].n
      BY <1>1, <1>8, <3>1 DEF Pending
    <3>. QED  BY <2>1, <2>3, <3>1, <3>2, WireAt
  <2>5. ASSUME NEW m \in OnWire(t), m # Upto(t) PROVE m \in OnWire(t)'
    BY <1>6, <2>1, <2>5, WireAt
  <2>. QED  BY <2>2, <2>4, <2>5
<1>. QED  BY <1>7, <1>8

\* What the application sends is behind what it sent before.
LEMMA SendWire ==
    ASSUME PermitInv, NEW t \in Req, NEW r \in InRec, inbuf' = Append(inbuf, r)
    PROVE  OnWire(t)' = IF r.type = "stdout" /\ r.req = t THEN OnWire(t) \cup {r.n} ELSE OnWire(t)
<1>1. PICK n \in Nat : n = Len(inbuf)
  <2>1. Len(inbuf) \in Nat
    BY DEF PermitInv, TypeOK
  <2>. QED  BY <2>1
<1>2. /\ DOMAIN inbuf = 1 .. n /\ DOMAIN inbuf' = 1 .. (n + 1)
      /\ inbuf'[n + 1] = r /\ \A i \in 1 .. n : inbuf'[i] = inbuf[i]
  <2>1. inbuf \in Seq(InRec)
    BY DEF PermitInv, TypeOK
  <2>2. Len(inbuf') = Len(inbuf) + 1
    BY <2>1
  <2>. QED  BY <1>1, <2>1, <2>2, AppendAt
<1>3. \A i \in 1 .. (n + 1) : i \in 1 .. n \/ i = n + 1
  OBVIOUS
<1>4. \A m : m \in OnWire(t)' <=> \E i \in DOMAIN inbuf' : Out(t, i)' /\ inbuf'[i].n = m
  BY DEF OnWire, Out
<1>5. /\ \A i \in 1 .. n : Out(t, i)' <=> Out(t, i)
      /\ Out(t, n + 1)' <=> (r.type = "stdout" /\ r.req = t)
  BY <1>2 DEF Out
<1>6. n + 1 \in 1 .. (n + 1) /\ \A i \in 1 .. n : i \in 1 .. (n + 1)
  OBVIOUS
<1>. DEFINE S == OnWire(t) \cup (IF r.type = "stdout" /\ r.req = t THEN {r.n} ELSE {})
<1>7. ASSUME NEW m PROVE m \in OnWire(t)' <=> m \in S
  BY <1>2, <1>3, <1>4, <1>5, <1>6, WireAt
<1>. QED  BY <1>7

\* What the wire holds for a call that runs: nothing, or everything up to the
\* last chunk sent.
LEMMA WireWhole ==
    ASSUME PermitInv, DeliveryInv, LastOnWire, NEW t \in Req, pc[t] \in Live
    PROVE  /\ OnWire(t) = {} \/ OnWire(t) = Upto(t) .. sent[t]
           /\ (\E x \in active : x.req = t) => OnWire(t) = Upto(t) .. sent[t]
           /\ t \in fin => OnWire(t) = {}
<1>1. Pending(t) /\ (t \in fin => Upto(t) = sent[t] + 1)
  BY DEF DeliveryInv, CallInv
<1>2. Upto(t) \in Nat /\ sent[t] \in Nat
  BY ChunkTypes
<1>3. OnWire(t) \subseteq Upto(t) .. sent[t]
  BY <1>1, WireAt DEF Pending
<1>4. \A m, i : Has(t, m, i) => m \in OnWire(t)
  BY WireAt DEF Has
<1>5. ASSUME sent[t] \in OnWire(t) PROVE OnWire(t) = Upto(t) .. sent[t]
  <2>1. PICK i \in DOMAIN inbuf : Out(t, i) /\ inbuf[i].n = sent[t]
    BY <1>5, WireAt
  <2>2. \A m \in Upto(t) .. (sent[t] - 1) : m \in OnWire(t)
    BY <1>1, <1>4, <2>1 DEF Pending
  <2>3. \A m \in Upto(t) .. sent[t] : m \in Upto(t) .. (sent[t] - 1) \/ m = sent[t]
    BY <1>2
  <2>. QED  BY <1>3, <1>5, <2>2, <2>3
<1>6. (\E x \in active : x.req = t) => OnWire(t) = Upto(t) .. sent[t]
  BY <1>1, <1>3, <1>4 DEF Pending
<1>7. t \in fin => OnWire(t) = {}
  BY <1>1, <1>2, <1>3
<1>. QED  BY <1>5, <1>6, <1>7 DEF LastOnWire

\* Nothing is on the wire for a call that did not write its BeginRequest.
LEMMA WireBefore ==
    ASSUME TypeOK, DeliveryInv, NEW t \in Req, pc[t] \in Before
    PROVE  OnWire(t) = {}
<1>1. ASSUME NEW m \in OnWire(t) PROVE FALSE
  <2>1. PICK i \in DOMAIN inbuf : Out(t, i)
    BY <1>1, WireAt
  <2>2. Tag(inbuf[i]) \in Flight /\ Tag(inbuf[i]).req = t
    BY <2>1 DEF Flight, Answering, Tag, Out
  <2>. QED  BY <2>2 DEF DeliveryInv, FlightOfCall
<1>. QED  BY <1>1

\* How a step changes the wire: not at all, by losing all of it, by reading the
\* first record or by sending another one.
LEMMA WireStep ==
    ASSUME PermitInv, [Next]_vars
    PROVE  \/ /\ inbuf' = inbuf \/ inbuf' = <<>>
              /\ sent' = sent /\ \A u \in Req : pc'[u] \in Live => pc[u] \in Live \cup {"begin"}
           \/ inbuf # <<>> /\ inbuf' = Tail(inbuf) /\ UNCHANGED <<sent, pc>>
           \/ /\ pc' = pc
              /\ \E r \in InRec : /\ inbuf' = Append(inbuf, r)
                                  /\ r.type # "stdout" => sent' = sent
                                  /\ r.type = "stdout" => r.n = sent[r.req] + 1
                                                          /\ sent' = [sent EXCEPT ![r.req] = @ + 1]
<1>t. /\ pc \in [Req -> Stage] /\ active \subseteq [key : Nat, req : Req] /\ sent \in [Req -> Nat]
      /\ inbuf \in Seq(InRec)
  BY DEF PermitInv, TypeOK
<1>. USE DEF client, inner, wire, app, hist
<1>1. CASE PollResp
  BY <1>1, <1>t DEF PollResp, RespOut, RespEnd, RespFree, RespSkip, RespSplit, RespReady, RespPending,
                    RespClosed, RespError, Parsing, Consume
<1>2. CASE Close \/ AppRecv \/ AppTorn \/ AppClose \/ AppReset \/ UNCHANGED vars
  BY <1>2 DEF Close, AppRecv, AppTorn, AppClose, AppReset, vars
<1>3. ASSUME NEW x \in active, AppStdout(x) \/ AppNoise(x) \/ AppEnd(x)
      PROVE  /\ pc' = pc
             /\ \E r \in InRec : /\ inbuf' = Append(inbuf, r)
                                 /\ r.type # "stdout" => sent' = sent
                                 /\ r.type = "stdout" => r.n = sent[r.req] + 1
                                                         /\ sent' = [sent EXCEPT ![r.req] = @ + 1]
  <2>1. x.key \in Nat /\ x.req \in Req /\ sent[x.req] \in Nat
    BY <1>t
  <2>2. CASE AppStdout(x)
    <3>. DEFINE r == [type |-> "stdout", key |-> x.key, req |-> x.req, n |-> sent[x.req] + 1]
    <3>1. r \in InRec
      BY <2>1 DEF InRec
    <3>2. inbuf' = Append(inbuf, r) /\ pc' = pc /\ sent' = [sent EXCEPT ![r.req] = @ + 1]
      BY <2>2 DEF AppStdout, Emit
    <3>. QED  BY <3>1, <3>2
  <2>3. CASE AppNoise(x) \/ AppEnd(x)
    <3>1. PICK ty \in {"noise", "end"} :
             inbuf' = Append(inbuf, [type |-> ty, key |-> x.key, req |-> x.req, n |-> 0])
      BY <2>3 DEF AppNoise, AppEnd, Emit
    <3>2. [type |-> ty, key |-> x.key, req |-> x.req, n |-> 0] \in InRec
      BY <2>1 DEF InRec
    <3>3. pc' = pc /\ sent' = sent
      BY <2>3 DEF AppNoise, AppEnd
    <3>. QED  BY <3>1, <3>2, <3>3
  <2>. QED  BY <1>3, <2>2, <2>3
<1>4. ASSUME NEW t \in Req, Forward(t)
      PROVE  /\ inbuf' = inbuf \/ inbuf' = <<>>
             /\ sent' = sent /\ \A u \in Req : pc'[u] \in Live => pc[u] \in Live \cup {"begin"}
  BY <1>4, <1>t DEF Forward, Acquire, StartCheck, Alive, NotAlive, AliveError, Connected, ConnectFail,
                    WriteBegin, WriteParams, RejectHeader, WriteStdin, WriteFail, Live
<1>5. ASSUME NEW t \in Req, SendBody(t) \/ Response(t) \/ GiveUp(t)
      PROVE  /\ inbuf' = inbuf \/ inbuf' = <<>>
             /\ sent' = sent /\ \A u \in Req : pc'[u] \in Live => pc[u] \in Live \cup {"begin"}
  BY <1>5, <1>t DEF SendBody, BodyChunk, BodyEnd, SendLock, WriteChunk, WriteEnd, WriteAbort, SendFail,
                    Response, StartResponse, FrameLock, FrameWait, FrameEnd, FrameData, FrameHeader,
                    PushRest, Respond, GiveUp, DropBody, CancelForward, Live
<1>. QED  BY <1>1, <1>2, <1>3, <1>4, <1>5 DEF Next, App

\* Chunks are read from the front and sent at the end.
LEMMA LastNext == ExchangeInv /\ [Next]_vars => LastOnWire'
<1>. SUFFICES ASSUME ExchangeInv, [Next]_vars, NEW t \in Req, pc'[t] \in Live, OnWire(t)' # {}
              PROVE  sent'[t] \in OnWire(t)'
  BY DEF LastOnWire
<1>i. PermitInv /\ DeliveryInv /\ LastOnWire /\ TypeOK
  BY DEF ExchangeInv, PermitInv
<1>t. sent \in [Req -> Nat] /\ Upto(t) \in Nat
  BY <1>i, ChunkTypes DEF TypeOK
<1>b. pc[t] = "begin" => OnWire(t) = {}
  BY <1>i, WireBefore DEF Before
<1>1. CASE /\ inbuf' = inbuf \/ inbuf' = <<>>
           /\ sent' = sent /\ \A u \in Req : pc'[u] \in Live => pc[u] \in Live \cup {"begin"}
  <2>1. CASE inbuf' = inbuf
    <3>1. OnWire(t)' = OnWire(t)
      BY <2>1 DEF OnWire
    <3>. QED  BY <1>1, <1>b, <1>i, <3>1 DEF LastOnWire
  <2>2. CASE inbuf' = <<>>
    <3>1. DOMAIN inbuf' = {}
      BY <2>2
    <3>. QED  BY <3>1 DEF OnWire
  <2>. QED  BY <1>1, <2>1, <2>2
<1>2. CASE inbuf # <<>> /\ inbuf' = Tail(inbuf) /\ UNCHANGED <<sent, pc>>
  <2>1. CASE ~Out(t, 1)
    BY <1>2, <1>i, <2>1, ConsumeWire DEF LastOnWire
  <2>2. CASE Out(t, 1)
    <3>1. Pending(t) /\ pc[t] \in Live
      BY <1>2, <1>i DEF DeliveryInv, CallInv
    <3>2. Upto(t) \in OnWire(t) /\ OnWire(t)' = OnWire(t) \ {Upto(t)}
      BY <1>2, <1>i, <2>2, <3>1, ConsumeWire
    <3>3. OnWire(t) = Upto(t) .. sent[t]
      BY <1>i, <3>1, <3>2, WireWhole
    <3>. QED  BY <1>2, <1>t, <3>2, <3>3
  <2>. QED  BY <2>1, <2>2
<1>3. CASE /\ pc' = pc
           /\ \E r \in InRec : /\ inbuf' = Append(inbuf, r)
                               /\ r.type # "stdout" => sent' = sent
                               /\ r.type = "stdout" => r.n = sent[r.req] + 1
                                                       /\ sent' = [sent EXCEPT ![r.req] = @ + 1]
  <2>1. PICK r \in InRec : /\ inbuf' = Append(inbuf, r)
                           /\ r.type # "stdout" => sent' = sent
                           /\ r.type = "stdout" => r.n = sent[r.req] + 1
                                                   /\ sent' = [sent EXCEPT ![r.req] = @ + 1]
    BY <1>3
  <2>2. r.req \in Req
    BY DEF InRec
  <2>3. OnWire(t)' = IF r.type = "stdout" /\ r.req = t THEN OnWire(t) \cup {r.n} ELSE OnWire(t)
    BY <1>i, <2>1, SendWire
  <2>4. CASE r.type = "stdout" /\ r.req = t
    BY <1>t, <2>1, <2>3, <2>4
  <2>5. CASE ~(r.type = "stdout" /\ r.req = t)
    <3>1. sent'[t] = sent[t]
      BY <1>t, <2>1, <2>2, <2>5
    <3>. QED  BY <1>3, <1>i, <2>3, <2>5, <3>1 DEF LastOnWire
  <2>. QED  BY <2>4, <2>5
<1>. QED  BY <1>1, <1>2, <1>3, <1>i, WireStep

\* The invariants of Connection, together.
LEMMA ExchangeNext == ExchangeInv /\ [Next]_vars /\ ~AppTorn => ExchangeInv'
  BY PermitNext, HoldNext, FlightNext, SeatNext, DeliveryNext, LastNext DEF ExchangeInv, FlightKept

\* Nothing is on the wire at first.
LEMMA ExchangeInit == Init => ExchangeInv
<1>. SUFFICES ASSUME Init PROVE ExchangeInv
  OBVIOUS
<1>1. \A t \in Req : OnWire(t) = {}
  BY DEF Init, OnWire
<1>. QED  BY <1>1, PermitInit, HoldInit, FlightInit, SeatInit, DeliveryInit DEF ExchangeInv, LastOnWire

-----------------------------------------------------------------------------
(* Whom the application hears *)

\* The calls that the records of one type in s are from.
From(s, ty) == {s[i].req : i \in {j \in DOMAIN s : s[j].type = ty}}

\* The calls the application works for, will begin to work for, or answered to the end.
Heard == {x.req : x \in active} \cup From(outbuf, "begin") \cup From(inbuf, "end")

\* A call is cut off when it began, nobody works for it and it did not end.
LEMMA UnheardIs ==
    /\ \A t : Unheard(t) <=> pc[t] \notin Before /\ t \notin fin /\ t \notin Heard
    /\ \A t : Unheard(t)' <=> pc'[t] \notin Before /\ t \notin fin' /\ t \notin Heard'
  BY DEF Unheard, Heard, From, Before

\* A record more.
LEMMA FromAppend ==
    ASSUME NEW S, NEW s \in Seq(S), NEW e \in S, NEW ty
    PROVE  From(Append(s, e), ty) = From(s, ty) \cup (IF e.type = ty THEN {e.req} ELSE {})
<1>1. PICK n \in Nat : n = Len(s)
  OBVIOUS
<1>2. PICK r : r = Append(s, e)
  OBVIOUS
<1>3. /\ DOMAIN s = 1 .. n /\ DOMAIN r = 1 .. (n + 1)
      /\ r[n + 1] = e /\ \A i \in 1 .. n : r[i] = s[i]
  BY <1>1, <1>2, AppendAt
<1>4. \A i \in 1 .. (n + 1) : i \in 1 .. n \/ i = n + 1
  OBVIOUS
<1>5. n + 1 \in 1 .. (n + 1) /\ \A i \in 1 .. n : i \in 1 .. (n + 1)
  OBVIOUS
<1>6. \A c : c \in From(r, ty) <=> \E i \in 1 .. (n + 1) : r[i].type = ty /\ r[i].req = c
  BY <1>3 DEF From
<1>7. \A c : c \in From(s, ty) <=> \E i \in 1 .. n : s[i].type = ty /\ s[i].req = c
  BY <1>3 DEF From
<1>8. ASSUME NEW c \in From(r, ty)
      PROVE  c \in From(s, ty) \cup (IF e.type = ty THEN {e.req} ELSE {})
  BY <1>3, <1>4, <1>6, <1>7, <1>8
<1>9. ASSUME NEW c \in From(s, ty) \cup (IF e.type = ty THEN {e.req} ELSE {})
      PROVE  c \in From(r, ty)
  BY <1>3, <1>5, <1>6, <1>7, <1>9
<1>. QED  BY <1>2, <1>8, <1>9

\* The first record is gone.
LEMMA FromTail ==
    ASSUME NEW S, NEW s \in Seq(S), s # <<>>, NEW ty
    PROVE  From(s, ty) = From(Tail(s), ty) \cup (IF Head(s).type = ty THEN {Head(s).req} ELSE {})
<1>1. PICK n \in Nat : n = Len(s)
  OBVIOUS
<1>2. PICK r : r = Tail(s)
  OBVIOUS
<1>3. /\ DOMAIN s = 1 .. n /\ DOMAIN r = 1 .. (n - 1) /\ 1 \in 1 .. n
      /\ Head(s) = s[1] /\ \A i \in 1 .. (n - 1) : r[i] = s[i + 1] /\ i + 1 \in 1 .. n
  BY <1>1, <1>2
<1>4. \A i \in 1 .. n : i = 1 \/ (i - 1 \in 1 .. (n - 1) /\ (i - 1) + 1 = i)
  OBVIOUS
<1>5. \A c : c \in From(r, ty) <=> \E i \in 1 .. (n - 1) : r[i].type = ty /\ r[i].req = c
  BY <1>3 DEF From
<1>6. \A c : c \in From(s, ty) <=> \E i \in 1 .. n : s[i].type = ty /\ s[i].req = c
  BY <1>3 DEF From
<1>7. ASSUME NEW c \in From(s, ty)
      PROVE  c \in From(r, ty) \cup (IF Head(s).type = ty THEN {Head(s).req} ELSE {})
  <2>1. PICK i \in 1 .. n : s[i].type = ty /\ s[i].req = c
    BY <1>6, <1>7
  <2>2. CASE i = 1
    BY <1>3, <2>1, <2>2
  <2>3. CASE i # 1
    <3>1. i - 1 \in 1 .. (n - 1) /\ r[i - 1] = s[i]
      BY <1>3, <1>4, <2>3
    <3>. QED  BY <1>5, <2>1, <3>1
  <2>. QED  BY <2>2, <2>3
<1>8. ASSUME NEW c \in From(r, ty) \cup (IF Head(s).type = ty THEN {Head(s).req} ELSE {})
      PROVE  c \in From(s, ty)
  <2>1. CASE c \in From(r, ty)
    <3>1. PICK i \in 1 .. (n - 1) : r[i].type = ty /\ r[i].req = c
      BY <1>5, <2>1
    <3>. QED  BY <1>3, <1>6, <3>1
  <2>2. CASE c \notin From(r, ty)
    BY <1>3, <1>6, <1>8, <2>2
  <2>. QED  BY <2>1, <2>2
<1>. QED  BY <1>2, <1>7, <1>8

\* An empty channel has no records.
LEMMA FromNone == \A ty : From(<<>>, ty) = {}
  BY DEF From

\* A record more that begins nothing.
LEMMA NothingBegun ==
    \A r \in OutRec : outbuf \in Seq(OutRec) /\ r.type # "begin" =>
        From(Append(outbuf, r), "begin") = From(outbuf, "begin")
<1>1. ASSUME NEW r \in OutRec, outbuf \in Seq(OutRec), r.type # "begin"
      PROVE  From(Append(outbuf, r), "begin") = From(outbuf, "begin")
  <2>1. From(Append(outbuf, r), "begin")
          = From(outbuf, "begin") \cup (IF r.type = "begin" THEN {r.req} ELSE {})
    BY <1>1, FromAppend
  <2>2. (IF r.type = "begin" THEN {r.req} ELSE {}) = {}
    BY <1>1
  <2>. QED  BY <2>1, <2>2
<1>. QED  BY <1>1

\* A record is written that begins nothing, or cannot be written.
LEMMA HeardWrite ==
    ASSUME TypeOK, NEW t \in Req, NEW ty \in {"params", "stdin", "abort", "torn"},
           UNCHANGED <<active, inbuf>>,
           outbuf' \in {outbuf, Append(outbuf, [type |-> ty, key |-> key[t], req |-> t])}
    PROVE  Heard' = Heard
<1>. DEFINE r == [type |-> ty, key |-> key[t], req |-> t]
<1>1. r \in OutRec /\ r.type # "begin" /\ outbuf \in Seq(OutRec)
  BY DEF TypeOK, OutRec
<1>. HIDE DEF r
<1>2. From(Append(outbuf, r), "begin") = From(outbuf, "begin")
  BY <1>1, NothingBegun
<1>3. outbuf' = outbuf \/ outbuf' = Append(outbuf, r)
  BY DEF r
<1>. QED  BY <1>2, <1>3 DEF Heard

\* The first record from the application is read.
LEMMA HeardRead ==
    ASSUME TypeOK, inbuf # <<>>, inbuf' = Tail(inbuf), UNCHANGED <<active, outbuf>>
    PROVE  /\ Heard' \subseteq Heard
           /\ Head(inbuf).type = "end" =>
                 Head(inbuf).req \in Heard /\ Heard = Heard' \cup {Head(inbuf).req}
<1>1. inbuf \in Seq(InRec)
  BY DEF TypeOK
<1>2. From(inbuf, "end") = From(inbuf', "end")
                           \cup (IF Head(inbuf).type = "end" THEN {Head(inbuf).req} ELSE {})
  BY <1>1, FromTail
<1>. QED  BY <1>2 DEF Heard

\* The application sends a record for a request it works on.
LEMMA HeardSend ==
    ASSUME TypeOK, NEW x \in active, NEW ty \in {"stdout", "end", "noise"}, NEW n \in Nat,
           Emit(ty, x, n), outbuf' = outbuf,
           active' = IF ty = "end" THEN active \ {x} ELSE active
    PROVE  Heard' = Heard
<1>. DEFINE r == [type |-> ty, key |-> x.key, req |-> x.req, n |-> n]
<1>1. r \in InRec /\ inbuf \in Seq(InRec) /\ inbuf' = Append(inbuf, r) /\ r.type = ty /\ r.req = x.req
  BY DEF TypeOK, InRec, Emit
<1>. HIDE DEF r
<1>2. From(inbuf', "end") = From(inbuf, "end") \cup (IF ty = "end" THEN {x.req} ELSE {})
  BY <1>1, FromAppend
<1>3. x.req \in {y.req : y \in active}
  OBVIOUS
<1>4. {y.req : y \in active} \subseteq {y.req : y \in active'} \cup {x.req}
      /\ {y.req : y \in active'} \subseteq {y.req : y \in active}
  OBVIOUS
<1>5. CASE ty = "end"
  BY <1>2, <1>3, <1>4, <1>5 DEF Heard
<1>6. CASE ty # "end"
  BY <1>2, <1>6 DEF Heard
<1>. QED  BY <1>5, <1>6

\* The application takes a record, which it begins to work for if it is a beginning.
LEMMA HeardReceive == ASSUME TypeOK, AppRecv PROVE Heard' = Heard
<1>. USE DEF wire, app
<1>1. PICK r : r = Head(outbuf)
  OBVIOUS
<1>2. /\ outbuf # <<>> /\ outbuf' = Tail(outbuf) /\ inbuf' = inbuf /\ outbuf \in Seq(OutRec)
      /\ active' = IF r.type = "begin" THEN active \cup {[key |-> r.key, req |-> r.req]} ELSE active
  BY <1>1 DEF AppRecv, TypeOK
<1>3. From(outbuf, "begin") = From(outbuf', "begin") \cup (IF r.type = "begin" THEN {r.req} ELSE {})
  BY <1>1, <1>2, FromTail
<1>4. {x.req : x \in active'} = {x.req : x \in active} \cup (IF r.type = "begin" THEN {r.req} ELSE {})
  <2>1. CASE r.type = "begin"
    <3>1. active' = active \cup {[key |-> r.key, req |-> r.req]} /\ [key |-> r.key, req |-> r.req].req = r.req
      BY <1>2, <2>1
    <3>. QED  BY <2>1, <3>1
  <2>2. CASE r.type # "begin"
    BY <1>2, <2>2
  <2>. QED  BY <2>1, <2>2
<1>. QED  BY <1>2, <1>3, <1>4 DEF Heard

\* The connection is gone with everything that was on it.
LEMMA HeardNone ==
    /\ inbuf' = <<>> /\ outbuf' = <<>> /\ active' = {} => Heard' = {}
    /\ inbuf' = inbuf /\ outbuf' = <<>> /\ active' = {} => Heard' \subseteq Heard
  BY FromNone DEF Heard

\* The same requests are cut off; these and perhaps others.
SameLost == garbled' = garbled /\ \A u \in Req : Unheard(u)' <=> Unheard(u)
MoreLost == garbled' = garbled /\ \A u \in Req : Unheard(u) => Unheard(u)'

\* No call begins or is given up before it did.
LEMMA LostSame ==
    ASSUME Heard' = Heard, UNCHANGED <<fin, garbled>>,
           \A u \in Req : pc'[u] \in Before <=> pc[u] \in Before
    PROVE  SameLost
  BY UnheardIs DEF SameLost

\* A call begins, or the connection loses some.
LEMMA LostMore ==
    ASSUME \A u \in Heard' : u \in Heard \/ pc[u] \in Before, UNCHANGED <<fin, garbled>>,
           \A u \in Req : pc'[u] \in Before => pc[u] \in Before
    PROVE  MoreLost
  BY UnheardIs DEF MoreLost

-----------------------------------------------------------------------------
(* The steps of the channels *)

\* A call that a step leaves alone, as far as its channel can tell.
Still(u) == Channel(u)' = Channel(u) /\ Reads(u)' = Reads(u) /\ (Over(u)' <=> Over(u))

\* The application puts out a chunk.
LEMMA ChannelProduce ==
    ASSUME NEW t \in Req, t \notin fin, ~Unheard(t), SameLost, sent' = [sent EXCEPT ![t] = @ + 1],
           \A u \in Req \ {t} : Still(u), Reads(t)' = Reads(t), Over(t)' <=> Over(t),
           Channel(t)' = IF Over(t) THEN Channel(t)
                         ELSE Append(Channel(t), [req |-> t, n |-> sent[t] + 1]),
           UNCHANGED <<first, got, fin>>
    PROVE  E!Produce(t)
<1>l. {u \in Req : Unheard(u)}' = {u \in Req : Unheard(u)} /\ (garbled # "no")' = (garbled # "no")
  BY DEF SameLost
<1>1. [u \in Req |-> Channel(u)]' =
          IF t \in {u \in Req : Over(u)} THEN [u \in Req |-> Channel(u)]
          ELSE [[u \in Req |-> Channel(u)] EXCEPT ![t] = Append(@, [req |-> t, n |-> sent[t] + 1])]
  BY DEF Still
<1>2. [u \in Req |-> Reads(u)]' = [u \in Req |-> Reads(u)]
  BY DEF Still
<1>3. {u \in Req : Over(u)}' = {u \in Req : Over(u)}
  BY DEF Still
<1>. QED  BY <1>l, <1>1, <1>2, <1>3 DEF E!Produce, E!Chunk

\* The end of a request reaches the client.
LEMMA ChannelEnd ==
    ASSUME NEW t \in Req, t \notin fin, ~Unheard(t), SameLost, fin' = fin \cup {t}, \A u \in Req : Still(u),
           UNCHANGED <<sent, first, got>>
    PROVE  E!End(t)
<1>l. {u \in Req : Unheard(u)}' = {u \in Req : Unheard(u)} /\ (garbled # "no")' = (garbled # "no")
  BY DEF SameLost
<1>1. [u \in Req |-> Channel(u)]' = [u \in Req |-> Channel(u)]
  BY DEF Still
<1>2. [u \in Req |-> Reads(u)]' = [u \in Req |-> Reads(u)]
  BY DEF Still
<1>3. {u \in Req : Over(u)}' = {u \in Req : Over(u)}
  BY DEF Still
<1>. QED  BY <1>l, <1>1, <1>2, <1>3 DEF E!End

\* A call fails or is given up.
LEMMA ChannelGiveUp ==
    ASSUME NEW t \in Req, \A u \in Req \ {t} : Still(u) /\ (Unheard(u)' <=> Unheard(u)), MoreLost, ~Over(t), Over(t)', Channel(t)' = <<>>,
           Reads(t)' = Reads(t), UNCHANGED <<sent, first, got, fin>>
    PROVE  E!GiveUp(t)
<1>l. /\ {u \in Req : Unheard(u)}' \in {{u \in Req : Unheard(u)}, {u \in Req : Unheard(u)} \cup {t}}
      /\ (garbled # "no")' = (garbled # "no")
  <2>1. CASE Unheard(t)' = Unheard(t)
    <3>1. {u \in Req : Unheard(u)}' = {u \in Req : Unheard(u)}
      BY <2>1 DEF MoreLost
    <3>. QED  BY <3>1 DEF MoreLost
  <2>2. CASE ~Unheard(t) /\ Unheard(t)'
    <3>1. {u \in Req : Unheard(u)}' = {u \in Req : Unheard(u)} \cup {t}
      BY <2>2 DEF MoreLost
    <3>. QED  BY <3>1 DEF MoreLost
  <2>. QED  BY <2>1, <2>2 DEF MoreLost
<1>1. [u \in Req |-> Channel(u)]' = [[u \in Req |-> Channel(u)] EXCEPT ![t] = <<>>]
  BY DEF Still
<1>2. [u \in Req |-> Reads(u)]' = [u \in Req |-> Reads(u)]
  BY DEF Still
<1>3. {u \in Req : Over(u)}' = {u \in Req : Over(u)} \cup {t} /\ t \notin {u \in Req : Over(u)}
  BY DEF Still
<1>. QED  BY <1>l, <1>1, <1>2, <1>3 DEF E!GiveUp

\* The connection is lost with what is on the wire for those it cuts off.
LEMMA ChannelLose ==
    ASSUME UNCHANGED <<sent, first, got, fin>>, MoreLost,
           \A u \in Req : Reads(u)' = Reads(u) /\ (Over(u)' <=> Over(u)),
           \A u \in Req : \E n \in 0 .. Len(Channel(u)) :
               Channel(u)' = SubSeq(Channel(u), 1, n) /\ (Unheard(u)' \/ n = Len(Channel(u)))
    PROVE  E!Lose
<1>1. DOMAIN [u \in Req |-> Channel(u)]' = Req
  OBVIOUS
<1>2. [u \in Req |-> Reads(u)]' = [u \in Req |-> Reads(u)]
  OBVIOUS
<1>3. {u \in Req : Over(u)}' = {u \in Req : Over(u)} /\ (garbled # "no")' = (garbled # "no")
  BY DEF MoreLost
<1>4. ASSUME NEW u \in Req PROVE [v \in Req |-> Channel(v)]'[u] \in E!Cut(u)
  <2>1. PICK n \in 0 .. Len(Channel(u)) :
            Channel(u)' = SubSeq(Channel(u), 1, n) /\ (Unheard(u)' \/ n = Len(Channel(u)))
    OBVIOUS
  <2>2. u \in {v \in Req : Unheard(v)}' <=> Unheard(u)'
    OBVIOUS
  <2>. QED  BY <2>1, <2>2 DEF E!Cut
<1>5. {u \in Req : Unheard(u)} \subseteq {u \in Req : Unheard(u)}' /\ {u \in Req : Unheard(u)}' \subseteq Req
  BY DEF MoreLost
<1>6. ({u \in Req : Unheard(u)}' \ {u \in Req : Unheard(u)}) \cap fin = {}
  BY UnheardIs
<1>. QED  BY <1>1, <1>2, <1>3, <1>4, <1>5, <1>6 DEF E!Lose

\* create_response reads a chunk of the header.
LEMMA ChannelTakeHeader ==
    ASSUME NEW t \in Req, SameLost, \A u \in Req \ {t} : Still(u), ~Over(t), Over(t)' <=> Over(t),
           Reads(t) = "header", Channel(t) # <<>>, Channel(t)' = Tail(Channel(t)),
           NEW to \in {"header", "rest", "body"}, Reads(t)' = to,
           first' = [first EXCEPT ![t] = Head(Channel(t)).n + (IF to = "rest" THEN 0 ELSE 1)],
           UNCHANGED <<sent, got, fin>>
    PROVE  E!TakeHeader(t)
<1>l. {u \in Req : Unheard(u)}' = {u \in Req : Unheard(u)} /\ (garbled # "no")' = (garbled # "no")
  BY DEF SameLost
<1>1. [u \in Req |-> Channel(u)]' = [[u \in Req |-> Channel(u)] EXCEPT ![t] = Tail(@)]
  BY DEF Still
<1>2. [u \in Req |-> Reads(u)]' = [[u \in Req |-> Reads(u)] EXCEPT ![t] = to]
  BY DEF Still
<1>3. {u \in Req : Over(u)}' = {u \in Req : Over(u)} /\ t \notin {u \in Req : Over(u)}
  BY DEF Still
<1>4. [u \in Req |-> Reads(u)][t] = "header" /\ [u \in Req |-> Channel(u)][t] = Channel(t)
  OBVIOUS
<1>. QED  BY <1>l, <1>1, <1>2, <1>3, <1>4 DEF E!TakeHeader

\* The response is over before its header.
LEMMA ChannelNoHeader ==
    ASSUME NEW t \in Req, SameLost, \A u \in Req \ {t} : Still(u), ~Over(t), Over(t)' <=> Over(t),
           Reads(t) = "header", Reads(t)' = "body", Channel(t)' = Channel(t),
           t \in fin => Channel(t) = <<>>, UNCHANGED <<sent, first, got, fin>>
    PROVE  E!NoHeader(t)
<1>l. {u \in Req : Unheard(u)}' = {u \in Req : Unheard(u)} /\ (garbled # "no")' = (garbled # "no")
  BY DEF SameLost
<1>1. [u \in Req |-> Channel(u)]' = [u \in Req |-> Channel(u)]
  BY DEF Still
<1>2. [u \in Req |-> Reads(u)]' = [[u \in Req |-> Reads(u)] EXCEPT ![t] = "body"]
  BY DEF Still
<1>3. {u \in Req : Over(u)}' = {u \in Req : Over(u)} /\ t \notin {u \in Req : Over(u)}
  BY DEF Still
<1>4. [u \in Req |-> Reads(u)][t] = "header" /\ [u \in Req |-> Channel(u)][t] = Channel(t)
  OBVIOUS
<1>. QED  BY <1>l, <1>1, <1>2, <1>3, <1>4 DEF E!NoHeader

\* create_response gives back what it found behind the header.
LEMMA ChannelGiveBack ==
    ASSUME NEW t \in Req, SameLost, \A u \in Req \ {t} : Still(u), ~Over(t), Over(t)' <=> Over(t),
           Reads(t) = "rest", Reads(t)' = "body", NEW i \in 0 .. Len(Channel(t)),
           Channel(t)' = SubSeq(Channel(t), 1, i) \o <<[req |-> t, n |-> first[t]]>>
                         \o SubSeq(Channel(t), i + 1, Len(Channel(t))),
           UNCHANGED <<sent, first, got, fin>>
    PROVE  E!GiveBack(t)
<1>l. {u \in Req : Unheard(u)}' = {u \in Req : Unheard(u)} /\ (garbled # "no")' = (garbled # "no")
  BY DEF SameLost
<1>1. [u \in Req |-> Channel(u)]' =
          [[u \in Req |-> Channel(u)] EXCEPT ![t] =
              SubSeq(@, 1, i) \o <<[req |-> t, n |-> first[t]]>> \o SubSeq(@, i + 1, Len(@))]
  BY DEF Still
<1>2. [u \in Req |-> Reads(u)]' = [[u \in Req |-> Reads(u)] EXCEPT ![t] = "body"]
  BY DEF Still
<1>3. {u \in Req : Over(u)}' = {u \in Req : Over(u)} /\ t \notin {u \in Req : Over(u)}
  BY DEF Still
<1>4. [u \in Req |-> Reads(u)][t] = "rest" /\ [u \in Req |-> Channel(u)][t] = Channel(t)
  OBVIOUS
<1>. QED  BY <1>l, <1>1, <1>2, <1>3, <1>4 DEF E!GiveBack, E!Chunk

\* The caller takes a chunk that is not the last one, or the last one.
LEMMA ChannelDeliver ==
    ASSUME NEW t \in Req, SameLost, \A u \in Req \ {t} : Still(u), ~Over(t), Reads(t) = "body",
           Reads(t)' = "body", Channel(t) # <<>>,
           got' = [got EXCEPT ![t] = Append(@, Head(Channel(t)))],
           \/ Channel(t)' = Tail(Channel(t)) /\ ~Over(t)'
           \/ Channel(t)' = <<>> /\ Over(t)' /\ (t \in fin => Tail(Channel(t)) = <<>>),
           UNCHANGED <<sent, first, fin>>
    PROVE  E!Deliver(t)
<1>l. {u \in Req : Unheard(u)}' = {u \in Req : Unheard(u)} /\ (garbled # "no")' = (garbled # "no")
  BY DEF SameLost
<1>1. [u \in Req |-> Channel(u)]' = [[u \in Req |-> Channel(u)] EXCEPT ![t] = Channel(t)']
  BY DEF Still
<1>2. [u \in Req |-> Reads(u)]' = [u \in Req |-> Reads(u)]
  BY DEF Still
<1>3. /\ t \notin {u \in Req : Over(u)}
      /\ {u \in Req : Over(u)}' = IF Over(t)' THEN {u \in Req : Over(u)} \cup {t} ELSE {u \in Req : Over(u)}
  BY DEF Still
<1>4. [u \in Req |-> Reads(u)][t] = "body" /\ [u \in Req |-> Channel(u)][t] = Channel(t)
  OBVIOUS
<1>. QED  BY <1>l, <1>1, <1>2, <1>3, <1>4 DEF E!Deliver

\* The body is over.
LEMMA ChannelFinish ==
    ASSUME NEW t \in Req, SameLost, \A u \in Req \ {t} : Still(u), ~Over(t), Over(t)', Reads(t) = "body",
           Reads(t)' = "body", Channel(t)' = <<>>, t \in fin => Channel(t) = <<>>,
           UNCHANGED <<sent, first, got, fin>>
    PROVE  E!Finish(t)
<1>l. {u \in Req : Unheard(u)}' = {u \in Req : Unheard(u)} /\ (garbled # "no")' = (garbled # "no")
  BY DEF SameLost
<1>1. [u \in Req |-> Channel(u)]' = [[u \in Req |-> Channel(u)] EXCEPT ![t] = <<>>]
  BY DEF Still
<1>2. [u \in Req |-> Reads(u)]' = [u \in Req |-> Reads(u)]
  BY DEF Still
<1>3. {u \in Req : Over(u)}' = {u \in Req : Over(u)} \cup {t} /\ t \notin {u \in Req : Over(u)}
  BY DEF Still
<1>4. [u \in Req |-> Reads(u)][t] = "body" /\ [u \in Req |-> Channel(u)][t] = Channel(t)
  OBVIOUS
<1>. QED  BY <1>l, <1>1, <1>2, <1>3, <1>4 DEF E!Finish

-----------------------------------------------------------------------------
(* The part of a channel that is on the wire *)

\* The chunks of t with the numbers in S, of which s is the last.
Run(t, s, S) == [i \in 1 .. Cardinality(S) |-> [req |-> t, n |-> s - Cardinality(S) + i]]

\* Chunks that follow each other are in a row.
LEMMA RunOf ==
    ASSUME NEW t \in Req, NEW u \in Nat, NEW s \in Nat, u <= s + 1
    PROVE  /\ Run(t, s, u .. s) \in Seq(Chunk) /\ Len(Run(t, s, u .. s)) = s - u + 1
           /\ \A i \in 1 .. (s - u + 1) : Run(t, s, u .. s)[i] = [req |-> t, n |-> u + i - 1]
<1>1. PICK l \in Nat : l = s - u + 1
  OBVIOUS
<1>2. Cardinality(u .. s) = l
  BY <1>1, FS_Interval
<1>3. Run(t, s, u .. s) = [i \in 1 .. l |-> [req |-> t, n |-> s - l + i]]
  BY <1>2 DEF Run
<1>4. \A i \in 1 .. l : s - l + i = u + i - 1 /\ u + i - 1 \in Nat
  BY <1>1
<1>5. \A i \in 1 .. l : [req |-> t, n |-> s - l + i] \in Chunk
  BY <1>4 DEF Chunk
<1>6. Run(t, s, u .. s) \in Seq(Chunk) /\ Len(Run(t, s, u .. s)) = l
  <2>1. [i \in 1 .. l |-> [req |-> t, n |-> s - l + i]] \in [1 .. l -> Chunk]
    BY <1>5
  <2>2. Run(t, s, u .. s) \in [1 .. l -> Chunk]
    BY <1>3, <2>1
  <2>. QED  BY <2>2, FunctionSeq
<1>. QED  BY <1>1, <1>3, <1>4, <1>6

\* No number, no chunk.
LEMMA RunNone == \A t, s : Run(t, s, {}) = <<>>
  BY FS_EmptySet DEF Run

\* Without its first chunk.
LEMMA RunFirst ==
    ASSUME NEW t \in Req, NEW u \in Nat, NEW s \in Nat, u <= s
    PROVE  /\ Run(t, s, u .. s) # <<>> /\ Head(Run(t, s, u .. s)) = [req |-> t, n |-> u]
           /\ Tail(Run(t, s, u .. s)) = Run(t, s, (u .. s) \ {u})
<1>1. (u .. s) \ {u} = (u + 1) .. s
  OBVIOUS
<1>. DEFINE a == Run(t, s, u .. s)
            b == Run(t, s, (u + 1) .. s)
<1>2. /\ a \in Seq(Chunk) /\ Len(a) = s - u + 1
      /\ \A i \in 1 .. (s - u + 1) : a[i] = [req |-> t, n |-> u + i - 1]
  BY RunOf
<1>3. PICK v \in Nat : v = u + 1 /\ v <= s + 1
  OBVIOUS
<1>4. /\ Run(t, s, v .. s) \in Seq(Chunk) /\ Len(Run(t, s, v .. s)) = s - v + 1
      /\ \A i \in 1 .. (s - v + 1) : Run(t, s, v .. s)[i] = [req |-> t, n |-> v + i - 1]
  BY <1>3, RunOf
<1>5. /\ b \in Seq(Chunk) /\ Len(b) = s - u
      /\ \A i \in 1 .. (s - u) : b[i] = [req |-> t, n |-> u + i]
  <2>1. s - v + 1 = s - u /\ \A i \in 1 .. (s - u) : v + i - 1 = u + i
    BY <1>3
  <2>. QED  BY <1>3, <1>4, <2>1
<1>. HIDE DEF a, b
<1>6. a # <<>> /\ Head(a) = a[1] /\ 1 \in 1 .. (s - u + 1) /\ u + 1 - 1 = u
  BY <1>2
<1>7. Tail(a) \in Seq(Chunk) /\ Len(Tail(a)) = s - u /\ \A i \in 1 .. (s - u) : Tail(a)[i] = a[i + 1]
  BY <1>2, <1>6
<1>8. \A i \in 1 .. (s - u) : a[i + 1] = [req |-> t, n |-> u + i]
  <2>1. \A i \in 1 .. (s - u) : i + 1 \in 1 .. (s - u + 1) /\ u + (i + 1) - 1 = u + i
    OBVIOUS
  <2>. QED  BY <1>2, <2>1
<1>9. Tail(a) = b
  BY <1>5, <1>7, <1>8, SameSeq
<1>10. Head(a) = [req |-> t, n |-> u]
  BY <1>2, <1>6
<1>. QED  BY <1>1, <1>6, <1>9, <1>10 DEF a, b

\* With another chunk behind it.
LEMMA RunLast ==
    ASSUME NEW t \in Req, NEW u \in Nat, NEW s \in Nat, u <= s + 1
    PROVE  Run(t, s + 1, (u .. s) \cup {s + 1}) = Append(Run(t, s, u .. s), [req |-> t, n |-> s + 1])
<1>1. (u .. s) \cup {s + 1} = u .. (s + 1)
  OBVIOUS
<1>2. PICK w \in Nat : w = s + 1
  OBVIOUS
<1>. DEFINE a == Run(t, s, u .. s)
            b == Run(t, w, u .. w)
            c == [req |-> t, n |-> s + 1]
<1>3. /\ a \in Seq(Chunk) /\ Len(a) = s - u + 1
      /\ \A i \in 1 .. (s - u + 1) : a[i] = [req |-> t, n |-> u + i - 1]
  BY RunOf
<1>4. /\ b \in Seq(Chunk) /\ Len(b) = w - u + 1
      /\ \A i \in 1 .. (w - u + 1) : b[i] = [req |-> t, n |-> u + i - 1]
  BY <1>2, RunOf
<1>5. c \in Chunk
  BY DEF Chunk
<1>. HIDE DEF a, b, c
<1>6. /\ Append(a, c) \in Seq(Chunk) /\ Len(Append(a, c)) = s - u + 2
      /\ \A i \in 1 .. (s - u + 1) : Append(a, c)[i] = a[i]
      /\ Append(a, c)[s - u + 2] = c
  BY <1>3, <1>5
<1>7. ASSUME NEW i \in 1 .. (s - u + 2) PROVE Append(a, c)[i] = b[i]
  <2>1. i \in 1 .. (w - u + 1)
    BY <1>2
  <2>2. CASE i \in 1 .. (s - u + 1)
    BY <1>3, <1>4, <1>6, <2>1, <2>2
  <2>3. CASE i = s - u + 2
    <3>1. u + i - 1 = s + 1
      BY <2>3
    <3>2. b[i] = c
      BY <1>4, <2>1, <3>1 DEF c
    <3>. QED  BY <1>6, <2>3, <3>2, Zenon
  <2>4. i \in 1 .. (s - u + 1) \/ i = s - u + 2
    OBVIOUS
  <2>. QED  BY <2>2, <2>3, <2>4, Zenon
<1>8. Append(a, c) = b
  BY <1>2, <1>4, <1>6, <1>7, SameSeq
<1>. QED  BY <1>1, <1>2, <1>8 DEF a, b, c

-----------------------------------------------------------------------------
(* Channels that a step leaves alone *)

\* Calls before they take a slot.
Early == {"acquire", "lock", "alive", "connect"}

\* Where a call is, its channel is.
LEMMA ChannelAt ==
    ASSUME PermitInv, NEW u \in Req
    PROVE  /\ Over(u) => Channel(u) = <<>>
           /\ pc[u] \in Owning => ~Over(u) /\ Channel(u) = slab[key[u]].buf \o Run(u, sent[u], OnWire(u))
           /\ pc[u] \in Early => ~Over(u) /\ Channel(u) = Run(u, sent[u], OnWire(u))
           /\ Over(u) \/ pc[u] \in Owning \/ pc[u] \in Early
<1>1. pc[u] \in Stage
  BY DEF PermitInv, TypeOK
<1>. QED  BY <1>1 DEF Over, Channel, Underway, Run, Owning, Early, Stage

\* The same after a step.
LEMMA ChannelThen ==
    ASSUME NEW u \in Req
    PROVE  /\ Over(u)' => Channel(u)' = <<>>
           /\ pc'[u] \in Owning => ~Over(u)' /\ Channel(u)' = slab'[key'[u]].buf \o Run(u, sent'[u], OnWire(u)')
           /\ pc'[u] \in Early => ~Over(u)' /\ Channel(u)' = Run(u, sent'[u], OnWire(u)')
           /\ Over(u)' <=> pc'[u] \in {"done"} \cup Gone
  BY DEF Over, Channel, Underway, Run, Owning, Early, Gone

\* The wire is the same for everybody when it is the same.
LEMMA WireSame == inbuf' = inbuf => \A u \in Req : OnWire(u)' = OnWire(u)
  BY DEF OnWire

\* A call that stays where it is, with its chunks.
LEMMA StillView ==
    ASSUME PermitInv, NEW u \in Req, pc'[u] = pc[u], SameView(u),
           Over(u) \/ (sent'[u] = sent[u] /\ OnWire(u)' = OnWire(u))
    PROVE  Still(u)
<1>1. Reads(u)' = Reads(u) /\ (Over(u)' <=> Over(u))
  BY DEF Reads, Over, SameView
<1>2. CASE Over(u)
  BY <1>1, <1>2, ChannelAt, ChannelThen DEF Still
<1>3. CASE pc[u] \in Owning
  <2>1. sent'[u] = sent[u] /\ OnWire(u)' = OnWire(u)
    BY <1>3, ChannelAt
  <2>. QED  BY <1>1, <1>3, <2>1, ChannelAt, ChannelThen DEF Still, SameView
<1>4. CASE pc[u] \in Early
  <2>1. sent'[u] = sent[u] /\ OnWire(u)' = OnWire(u)
    BY <1>4, ChannelAt
  <2>. QED  BY <1>1, <1>4, <2>1, ChannelAt, ChannelThen DEF Still
<1>. QED  BY <1>2, <1>3, <1>4, ChannelAt

\* A call that goes on without touching its chunks.
LEMMA StillMoves ==
    ASSUME PermitInv, NEW u \in Req, Reads(u)' = Reads(u), sent'[u] = sent[u], OnWire(u)' = OnWire(u),
           \/ pc[u] \in Early /\ pc'[u] \in Early
           \/ pc[u] \in Owning /\ pc'[u] \in Owning /\ key'[u] = key[u]
              /\ slab'[key[u]].buf = slab[key[u]].buf
    PROVE  Still(u)
<1>1. CASE pc[u] \in Early /\ pc'[u] \in Early
  BY <1>1, ChannelAt, ChannelThen DEF Still
<1>2. CASE pc[u] \in Owning /\ pc'[u] \in Owning /\ key'[u] = key[u] /\ slab'[key[u]].buf = slab[key[u]].buf
  BY <1>2, ChannelAt, ChannelThen DEF Still
<1>. QED  BY <1>1, <1>2

\* The other calls, when one takes a step of its own.
LEMMA StillOthers ==
    ASSUME PermitInv, NEW t \in Req, OthersKept(t), inbuf' = inbuf, sent' = sent
    PROVE  \A u \in Req \ {t} : Still(u)
  BY WireSame, StillView DEF OthersKept

\* A call fails or is given up, at any place before its end.
LEMMA SimFail ==
    ASSUME PermitInv, NEW t \in Req, OthersKept(t), pc[t] \notin {"done"} \cup Gone, pc'[t] \in Gone,
           Heard' = Heard, UNCHANGED <<rsp, inbuf, sent, first, got, fin, garbled>>
    PROVE  E!Next
<1>l. MoreLost /\ \A u \in Req \ {t} : Unheard(u)' <=> Unheard(u)
  BY UnheardIs DEF MoreLost, OthersKept, Gone, Before
<1>1. ~Over(t) /\ Over(t)' /\ Reads(t)' = Reads(t) /\ Channel(t)' = <<>>
  BY ChannelThen DEF Over, Gone, Reads
<1>2. E!GiveUp(t)
  BY <1>l, <1>1, StillOthers, ChannelGiveUp
<1>. QED  BY <1>2 DEF E!Next

\* The channel of a call that runs is a sequence: its slot's buffer and then
\* the chunks on the wire.
LEMMA ChannelSeq ==
    ASSUME ExchangeInv, NEW t \in Req, pc[t] \in Owning
    PROVE  /\ slab[key[t]].buf \in Seq(Chunk) /\ Run(t, sent[t], OnWire(t)) \in Seq(Chunk)
           /\ t \in fin => Run(t, sent[t], OnWire(t)) = <<>>
<1>1. PermitInv /\ TypeOK /\ DeliveryInv /\ LastOnWire
  BY DEF ExchangeInv, PermitInv
<1>2. slab[key[t]].buf \in Seq(Chunk) /\ Upto(t) \in Nat /\ sent[t] \in Nat
  BY <1>1, ChunkTypes
<1>3. CASE pc[t] \in Live
  <2>1. Upto(t) <= sent[t] + 1
    BY <1>1, <1>3 DEF DeliveryInv, CallInv, Pending
  <2>2. OnWire(t) = Upto(t) .. sent[t] => Run(t, sent[t], OnWire(t)) \in Seq(Chunk)
    BY <1>2, <2>1, RunOf
  <2>3. OnWire(t) = {} => Run(t, sent[t], OnWire(t)) = <<>> /\ <<>> \in Seq(Chunk)
    BY RunNone
  <2>4. /\ OnWire(t) = {} \/ OnWire(t) = Upto(t) .. sent[t]
        /\ t \in fin => OnWire(t) = {}
    BY <1>1, <1>3, WireWhole
  <2>. QED  BY <1>2, <2>2, <2>3, <2>4
<1>4. CASE pc[t] \notin Live
  <2>1. pc[t] = "begin"
    BY <1>4 DEF Owning, Live
  <2>2. OnWire(t) = {}
    BY <1>1, <2>1, WireBefore DEF Before
  <2>3. Run(t, sent[t], OnWire(t)) = <<>> /\ <<>> \in Seq(Chunk)
    BY <2>2, RunNone
  <2>. QED  BY <1>2, <2>3
<1>. QED  BY <1>3, <1>4

\* So is the channel of every call.
LEMMA ChannelSeqs == ASSUME ExchangeInv, NEW u \in Req PROVE Channel(u) \in Seq(Chunk)
<1>i. PermitInv /\ TypeOK /\ DeliveryInv
  BY DEF ExchangeInv, PermitInv
<1>e. <<>> \in Seq(Chunk)
  OBVIOUS
<1>1. CASE Over(u)
  BY <1>1, <1>e, <1>i, ChannelAt
<1>2. CASE pc[u] \in Owning
  <2>. DEFINE b == slab[key[u]].buf
              r == Run(u, sent[u], OnWire(u))
  <2>1. b \in Seq(Chunk) /\ r \in Seq(Chunk)
    BY <1>2, ChannelSeq
  <2>2. Channel(u) = b \o r
    BY <1>2, <1>i, ChannelAt
  <2>. HIDE DEF b, r
  <2>. QED  BY <2>1, <2>2
<1>3. CASE pc[u] \in Early
  <2>1. OnWire(u) = {}
    BY <1>3, <1>i, WireBefore DEF Early, Before
  <2>. QED  BY <1>3, <1>e, <1>i, <2>1, ChannelAt, RunNone
<1>. QED  BY <1>1, <1>2, <1>3, <1>i, ChannelAt

\* Nothing happens in the channels, but that some may be cut off.
LEMMA ChannelsRest ==
    ASSUME ExchangeInv, \A u \in Req : Still(u), MoreLost, UNCHANGED <<sent, first, got, fin>>
    PROVE  E!Next
<1>1. \A u \in Req : Reads(u)' = Reads(u) /\ (Over(u)' <=> Over(u))
  BY DEF Still
<1>2. ASSUME NEW u \in Req
      PROVE  \E n \in 0 .. Len(Channel(u)) :
                 Channel(u)' = SubSeq(Channel(u), 1, n) /\ (Unheard(u)' \/ n = Len(Channel(u)))
  <2>1. PICK s \in Seq(Chunk) : s = Channel(u)
    BY ChannelSeqs
  <2>2. Len(s) \in 0 .. Len(s) /\ SubSeq(s, 1, Len(s)) = s
    BY <2>1
  <2>. QED  BY <2>1, <2>2 DEF Still
<1>3. E!Lose
  BY <1>1, <1>2, ChannelLose
<1>. QED  BY <1>3 DEF E!Next

\* The connection is lost, or stays: a channel keeps what is in its slot.
LEMMA SimLose ==
    ASSUME ExchangeInv, inbuf' = <<>>, Heard' = {}, UNCHANGED <<sent, first, got, fin, garbled>>,
           \A u \in Req : Reads(u)' = Reads(u),
           \A u \in Req : \/ pc'[u] = pc[u] /\ SameView(u)
                          \/ /\ pc[u] \in Early
                             /\ pc'[u] \in Early \/ (pc'[u] = "begin" /\ slab'[key'[u]].buf = <<>>)
    PROVE  E!Next
<1>1. PermitInv /\ TypeOK /\ DeliveryInv
  BY DEF ExchangeInv, PermitInv
<1>2. \A u \in Req : OnWire(u)' = {} /\ Run(u, sent'[u], OnWire(u)') = <<>>
  <2>1. DOMAIN inbuf' = {}
    OBVIOUS
  <2>2. \A u \in Req : OnWire(u)' = {}
    BY <2>1 DEF OnWire
  <2>. QED  BY <2>2, RunNone
<1>3. ASSUME NEW u \in Req
      PROVE  /\ Over(u)' <=> Over(u)
             /\ \E n \in 0 .. Len(Channel(u)) :
                   Channel(u)' = SubSeq(Channel(u), 1, n) /\ (Unheard(u)' \/ n = Len(Channel(u)))
  <2>1. CASE Over(u)
    <3>1. pc'[u] = pc[u] /\ Over(u)'
      BY <2>1 DEF Over, Early
    <3>2. Channel(u) = <<>> /\ Channel(u)' = <<>>
      BY <1>1, <2>1, <3>1, ChannelAt, ChannelThen
    <3>3. Len(<<>>) = 0 /\ SubSeq(<<>>, 1, 0) = <<>> /\ 0 \in 0 .. 0
      OBVIOUS
    <3>. QED  BY <2>1, <3>1, <3>2, <3>3
  <2>2. CASE pc[u] \in Early
    <3>1. Channel(u) = <<>>
      <4>1. OnWire(u) = {}
        BY <1>1, <2>2, WireBefore DEF Early, Before
      <4>. QED  BY <1>1, <2>2, <4>1, ChannelAt, RunNone
    <3>2. pc'[u] \in Early \/ (pc'[u] = "begin" /\ slab'[key'[u]].buf = <<>>)
      BY <2>2
    <3>3. Channel(u)' = <<>> /\ ~Over(u)' /\ ~Over(u)
      <4>1. CASE pc'[u] \in Early
        BY <1>1, <1>2, <2>2, <4>1, ChannelAt, ChannelThen
      <4>2. CASE pc'[u] = "begin" /\ slab'[key'[u]].buf = <<>>
        <5>1. <<>> \o <<>> = <<>>
          OBVIOUS
        <5>2. pc'[u] \in Owning
          BY <4>2 DEF Owning
        <5>. QED  BY <1>1, <1>2, <2>2, <4>2, <5>1, <5>2, ChannelAt, ChannelThen
      <4>. QED  BY <3>2, <4>1, <4>2
    <3>4. Len(<<>>) = 0 /\ SubSeq(<<>>, 1, 0) = <<>> /\ 0 \in 0 .. 0
      OBVIOUS
    <3>. QED  BY <3>1, <3>3, <3>4
  <2>3. CASE pc[u] \in Owning
    <3>1. pc'[u] = pc[u] /\ SameView(u)
      BY <2>3 DEF Owning, Early
    <3>. DEFINE b == slab[key[u]].buf
                r == Run(u, sent[u], OnWire(u))
    <3>2. b \in Seq(Chunk) /\ r \in Seq(Chunk) /\ (u \in fin => r = <<>>)
      BY <2>3, ChannelSeq
    <3>3. Channel(u) = b \o r /\ ~Over(u)
      BY <1>1, <2>3, ChannelAt
    <3>4. Channel(u)' = b \o <<>> /\ ~Over(u)'
      BY <1>2, <2>3, <3>1, ChannelThen DEF SameView
    <3>. HIDE DEF b, r
    <3>5. b \o <<>> = b
      BY <3>2
    <3>6. Len(b) \in 0 .. Len(b \o r) /\ SubSeq(b \o r, 1, Len(b)) = b
      BY <3>2, Parts
    <3>7. Unheard(u)' \/ Len(b) = Len(b \o r)
      <4>1. CASE r = <<>>
        BY <3>2, <3>5, <4>1
      <4>2. CASE r # <<>>
        <5>1. u \notin fin
          BY <3>2, <4>2
        <5>2. pc[u] \notin Before
          <6>1. pc[u] \in Before => OnWire(u) = {}
            BY <1>1, WireBefore
          <6>2. OnWire(u) = {} => r = <<>>
            BY RunNone DEF r
          <6>. QED  BY <4>2, <6>1, <6>2
        <5>. QED  BY <3>1, <5>1, <5>2, UnheardIs
      <4>. QED  BY <4>1, <4>2
    <3>. QED  BY <3>3, <3>4, <3>5, <3>6, <3>7
  <2>. QED  BY <1>1, <2>1, <2>2, <2>3, ChannelAt
<1>l. MoreLost
  BY LostMore DEF Early, Before
<1>4. E!Lose
  BY <1>l, <1>3, ChannelLose
<1>. QED  BY <1>4 DEF E!Next

-----------------------------------------------------------------------------
(* The steps of the shared connection *)

\* A record is read that is no output for u, or u does not listen any more.
LEMMA StillRead ==
    ASSUME PermitInv, NEW u \in Req, inbuf # <<>>, inbuf' = Tail(inbuf), UNCHANGED <<pc, sent>>,
           SameView(u), Over(u) \/ ~Out(u, 1)
    PROVE  Still(u)
<1>1. ~Out(u, 1) => OnWire(u)' = OnWire(u)
  BY ConsumeWire
<1>. QED  BY <1>1, StillView

\* parse_and_distribute moves a chunk within its channel: from the wire to the slot.
LEMMA SimOut == ASSUME ExchangeInv, RespOut PROVE E!Next
<1>i. PermitInv /\ FlightInv /\ SeatInv /\ DeliveryInv /\ LastOnWire
  BY DEF ExchangeInv
<1>0. PICK x : x = Head(inbuf)
  OBVIOUS
<1>. DEFINE c == [req |-> x.req, n |-> x.n]
<1>1. /\ inbuf # <<>> /\ x.type = "stdout" /\ x.key \in DOMAIN slab /\ slab' = Push(x.key, c)
      /\ inbuf' = Tail(inbuf) /\ UNCHANGED <<pc, rsp, key, sent, got, first, fin, garbled, active, outbuf>>
  BY <1>0 DEF RespOut, Parsing, Addressed, Consume, client, app, hist
<1>2. /\ x \in InRec /\ x.req \in Req /\ x = inbuf[1] /\ 1 \in DOMAIN inbuf
      /\ x.key = key[x.req] /\ pc[x.req] \in Live \cup Gone
      /\ \A w \in Req : pc[w] \in Owning /\ w # x.req => key[w] # x.key
  BY <1>0, <1>1, <1>i, FirstOwned
<1>3. c \in Chunk
  BY <1>2 DEF InRec, Chunk
<1>4. /\ \A j \in DOMAIN slab \ {x.key} : slab'[j].buf = slab[j].buf
      /\ slab'[x.key].buf = Append(slab[x.key].buf, c)
  BY <1>1, <1>3, <1>i, PushSlots DEF PermitInv, TypeOK
<1>5. ASSUME NEW u \in Req PROVE Still(u)
  <2>1. CASE u = x.req /\ pc[u] \in Live
    <3>1. Pending(u) /\ Out(u, 1) /\ pc[u] \in Owning
      BY <1>1, <1>2, <1>i, <2>1 DEF DeliveryInv, CallInv, Out, Live, Owning
    <3>2. PICK m, s : m = Upto(u) /\ s = sent[u] /\ m \in Nat /\ s \in Nat
      BY <1>i, ChunkTypes
    <3>3. x.n = m
      BY <1>2, <1>i, <3>1, <3>2, FirstRecord
    <3>4. m \in OnWire(u) /\ OnWire(u)' = OnWire(u) \ {m}
      BY <1>1, <1>i, <3>1, <3>2, ConsumeWire
    <3>5. OnWire(u) = m .. s
      BY <1>i, <2>1, <3>2, <3>4, WireWhole
    <3>6. m <= s
      BY <3>2, <3>4, <3>5
    <3>. DEFINE b == slab[key[u]].buf
                r == Run(u, s, m .. s)
    <3>7. r # <<>> /\ Head(r) = [req |-> u, n |-> m] /\ Tail(r) = Run(u, s, (m .. s) \ {m})
      BY <3>2, <3>6, RunFirst
    <3>8. b \in Seq(Chunk) /\ r \in Seq(Chunk)
      BY <3>1, <3>2, <3>5, ChannelSeq
    <3>9. Channel(u) = b \o r /\ ~Over(u)
      BY <1>i, <3>1, <3>2, <3>5, ChannelAt
    <3>10. Channel(u)' = Append(b, Head(r)) \o Tail(r) /\ ~Over(u)'
      <4>1. pc'[u] \in Owning /\ slab'[key'[u]].buf = Append(b, Head(r))
        BY <1>1, <1>2, <1>4, <2>1, <3>1, <3>3, <3>7
      <4>2. Run(u, sent'[u], OnWire(u)') = Tail(r)
        BY <1>1, <3>2, <3>4, <3>5, <3>7
      <4>. QED  BY <4>1, <4>2, ChannelThen
    <3>. HIDE DEF b, r
    <3>11. Channel(u)' = Channel(u)
      BY <3>7, <3>8, <3>9, <3>10, MoveOver
    <3>12. Reads(u)' = Reads(u)
      BY <1>1 DEF Reads
    <3>. QED  BY <3>9, <3>10, <3>11, <3>12 DEF Still
  <2>2. CASE ~(u = x.req /\ pc[u] \in Live)
    <3>1. pc[u] \in Owning => key[u] \in DOMAIN slab \ {x.key}
      <4>1. u = x.req => pc[u] \notin Owning
        BY <1>2, <2>2 DEF Gone, Owning
      <4>. QED  BY <1>2, <1>i, <4>1 DEF PermitInv, BodyHasSlot
    <3>2. SameView(u)
      BY <1>1, <1>4, <3>1 DEF SameView
    <3>3. Over(u) \/ ~Out(u, 1)
      BY <1>2, <2>2 DEF Out, Gone, Over
    <3>. QED  BY <1>1, <1>i, <3>2, <3>3, StillRead
  <2>. QED  BY <2>1, <2>2
<1>6. MoreLost
  BY <1>1, <1>i, HeardRead, LostMore DEF PermitInv
<1>. QED  BY <1>1, <1>5, <1>6, ChannelsRest

\* EndRequest is distributed when everything before it is in the slot.
LEMMA SimEnd == ASSUME ExchangeInv, RespEnd \/ RespFree PROVE E!Next
<1>i. PermitInv /\ FlightInv /\ SeatInv /\ DeliveryInv
  BY DEF ExchangeInv
<1>0. PICK x : x = Head(inbuf)
  OBVIOUS
<1>1. /\ inbuf # <<>> /\ x.type = "end" /\ x.key \in DOMAIN slab /\ fin' = fin \cup {x.req}
      /\ inbuf' = Tail(inbuf) /\ UNCHANGED <<pc, rsp, key, sent, got, first, garbled, active, outbuf>>
      /\ \/ slab' = [slab EXCEPT ![x.key].ended = TRUE]
         \/ slab' = Remove(x.key) /\ slab[x.key].aborted
  BY <1>0 DEF RespEnd, RespFree, Parsing, Addressed, Consume, client, app, hist
<1>2. /\ x.req \in Req /\ x = inbuf[1] /\ slab[x.key].owner = x.req /\ x.req \notin fin
      /\ \A w \in Req : pc[w] \in Owning /\ w # x.req => key[w] # x.key
  BY <1>0, <1>1, <1>i, FirstOwned
<1>3. ASSUME NEW u \in Req PROVE Still(u)
  <2>1. SameView(u)
    <3>1. CASE slab' = [slab EXCEPT ![x.key].ended = TRUE]
      <4>1. \A j \in DOMAIN slab : slab'[j].buf = slab[j].buf
        BY <1>1, <1>i, <3>1 DEF PermitInv, TypeOK, Slot
      <4>. QED  BY <1>1, <1>i, <4>1, SameBuffers
    <3>2. CASE slab' = Remove(x.key) /\ slab[x.key].aborted
      <4>1. pc[x.req] \in Gone
        BY <1>1, <1>2, <1>i, <3>2 DEF PermitInv, AbortedGone
      <4>2. pc[u] \in Owning => key[u] \in DOMAIN slab \ {x.key}
        BY <1>2, <1>i, <4>1 DEF PermitInv, BodyHasSlot, Gone, Owning
      <4>. QED  BY <1>1, <3>2, <4>2 DEF SameView, Remove
    <3>. QED  BY <1>1, <3>1, <3>2
  <2>2. ~Out(u, 1)
    BY <1>1, <1>2 DEF Out
  <2>. QED  BY <1>1, <1>i, <2>1, <2>2, StillRead
<1>l. SameLost /\ ~Unheard(x.req)
  <2>1. x.req \in Heard /\ Heard = Heard' \cup {x.req}
    BY <1>0, <1>1, <1>i, HeardRead DEF PermitInv
  <2>. QED  BY <1>1, <2>1, UnheardIs DEF SameLost
<1>4. E!End(x.req)
  BY <1>l, <1>1, <1>2, <1>3, ChannelEnd
<1>. QED  BY <1>2, <1>4 DEF E!Next

\* What is skipped is in no channel: nobody listens to it.
LEMMA SimSkip == ASSUME ExchangeInv, RespSkip PROVE E!Next
<1>i. PermitInv /\ FlightInv /\ SeatInv /\ DeliveryInv
  BY DEF ExchangeInv
<1>0. PICK x : x = Head(inbuf)
  OBVIOUS
<1>1. /\ inbuf # <<>> /\ inbuf' = Tail(inbuf)
      /\ UNCHANGED <<pc, rsp, key, slab, sent, got, first, fin, garbled, active, outbuf>>
      /\ x.type = "noise" \/ x.key \notin DOMAIN slab \/ slab[x.key].aborted
  BY <1>0 DEF RespSkip, Parsing, Consume, client, app, hist
<1>2. x = inbuf[1] /\ x.key = key[x.req] /\ pc[x.req] \notin Before
  BY <1>0, <1>1, <1>i, FirstOwned
<1>3. ASSUME NEW u \in Req PROVE Still(u)
  <2>1. SameView(u)
    BY <1>1, <1>i, SameBuffers
  <2>2. Over(u) \/ ~Out(u, 1)
    <3>. SUFFICES ASSUME ~Over(u), Out(u, 1) PROVE FALSE
      OBVIOUS
    <3>1. x.type = "stdout" /\ x.req = u
      BY <1>2 DEF Out
    <3>2. pc[u] \in Owning
      BY <1>2, <1>i, <3>1, ChannelAt DEF Before, Early
    <3>3. key[u] \in DOMAIN slab /\ ~slab[key[u]].aborted
      BY <1>i, <3>2, ChunkTypes
    <3>. QED  BY <1>1, <1>2, <3>1, <3>3
  <2>. QED  BY <1>1, <1>i, <2>1, <2>2, StillRead
<1>4. MoreLost
  BY <1>1, <1>i, HeardRead, LostMore DEF PermitInv
<1>. QED  BY <1>1, <1>3, <1>4, ChannelsRest

\* A step that leaves the calls, their buffers and the output on the wire alone,
\* and brings none of them to the application.
LEMMA SimQuiet ==
    ASSUME ExchangeInv, UNCHANGED <<pc, rsp, key, inbuf, sent, got, first, fin, garbled>>,
           \A j \in DOMAIN slab : slab'[j].buf = slab[j].buf, Heard' \subseteq Heard
    PROVE  E!Next
<1>i. PermitInv
  BY DEF ExchangeInv
<1>1. \A u \in Req : SameView(u) /\ OnWire(u)' = OnWire(u)
  BY <1>i, SameBuffers, WireSame
<1>2. \A u \in Req : Still(u)
  BY <1>i, <1>1, StillView
<1>3. MoreLost
  BY LostMore
<1>. QED  BY <1>2, <1>3, ChannelsRest

\* The same when the channels are left alone altogether.
LEMMA HeardSame == UNCHANGED <<inbuf, outbuf, active>> => Heard' = Heard
  BY DEF Heard

\* poll_resp, whoever runs it, ends a channel or moves a chunk within one.
LEMMA SimPollResp == ExchangeInv /\ PollResp => E!Next
<1>. SUFFICES ASSUME ExchangeInv, PollResp PROVE E!Next
  OBVIOUS
<1>1. CASE RespSplit \/ RespReady \/ RespPending \/ RespClosed \/ RespError
  <2>1. /\ UNCHANGED <<pc, rsp, key, inbuf, sent, got, first, fin, garbled, outbuf, active>>
        /\ slab' = slab \/ slab' = NotifyEveryone
    BY <1>1 DEF RespSplit, RespReady, RespPending, RespClosed, RespError, client, inner, wire, app, hist
  <2>2. PermitInv /\ TypeOK
    BY DEF ExchangeInv, PermitInv
  <2>3. \A j \in DOMAIN slab : slab'[j].buf = slab[j].buf
    BY <2>1, <2>2, NotifySlots
  <2>. QED  BY <2>1, <2>3, HeardSame, SimQuiet
<1>. QED  BY <1>1, SimOut, SimEnd, SimSkip DEF PollResp

\* A call that takes a slot had no chunk, and finds none in it.
LEMMA StillInsert ==
    ASSUME ExchangeInv, NEW t \in Req, NEW k \in Vacant, Insert(t, k), pc[t] \in {"alive", "connect"},
           pc' = [pc EXCEPT ![t] = "begin"], UNCHANGED <<rsp, first, got>>
    PROVE  OthersKept(t) /\ pc'[t] = "begin" /\ slab'[key'[t]].buf = <<>>
<1>1. PermitInv /\ TypeOK /\ pc \in [Req -> Stage] /\ key \in [Req -> Nat]
  BY DEF ExchangeInv, PermitInv, TypeOK
<1>2. k \notin DOMAIN slab /\ DOMAIN slab' = DOMAIN slab \cup {k}
  BY <1>1, InsertType
<1>3. slab'[k].buf = <<>> /\ \A j \in DOMAIN slab : slab'[j] = slab[j]
  BY <1>2 DEF Insert
<1>4. key'[t] = k /\ \A u \in Req \ {t} : key'[u] = key[u] /\ pc'[u] = pc[u]
  BY <1>1 DEF Insert
<1>5. OthersKept(t)
  BY <1>1, <1>3, <1>4 DEF OthersKept, SameView, PermitInv, BodyHasSlot
<1>. QED  BY <1>1, <1>3, <1>4, <1>5

\* forward writes the request; a connection that it replaces takes along what
\* was under way.
LEMMA SimForward == \A t \in Req : ExchangeInv /\ garbled = "no" /\ Forward(t) => E!Next
<1>. SUFFICES ASSUME NEW t \in Req, ExchangeInv, garbled = "no", Forward(t) PROVE E!Next
  OBVIOUS
<1>. USE DEF client, inner, wire, app, hist
<1>i. /\ PermitInv /\ DeliveryInv /\ TypeOK /\ pc \in [Req -> Stage] /\ slab \in [DOMAIN slab -> Slot]
      /\ rsp \in [Req -> {"none", "header", "push", "done"}]
  BY DEF ExchangeInv, PermitInv, TypeOK
<1>1. CASE AliveError(t) \/ ConnectFail(t) \/ RejectHeader(t) \/ WriteFail(t)
  <2>1. /\ UNCHANGED <<rsp, key, slab, inbuf, sent, got, first, fin, garbled, active>>
        /\ pc' = [pc EXCEPT ![t] = "failed"] /\ pc[t] \notin {"done"} \cup Gone
        /\ outbuf' \in {outbuf, Append(outbuf, [type |-> "abort", key |-> key[t], req |-> t])}
    BY <1>1 DEF AliveError, ConnectFail, RejectHeader, WriteFail, Write, Gone
  <2>2. \A u \in Req : SameView(u)
    BY <1>i, <2>1, SameBuffers
  <2>3. OthersKept(t) /\ pc'[t] \in Gone
    BY <1>i, <2>1, <2>2 DEF OthersKept, Gone
  <2>4. Heard' = Heard
    BY <1>i, <2>1, HeardWrite
  <2>. QED  BY <1>i, <2>1, <2>3, <2>4, SimFail
<1>2. CASE Acquire(t) \/ StartCheck(t) \/ WriteBegin(t) \/ WriteParams(t)
  <2>1. /\ UNCHANGED <<rsp, key, slab, inbuf, sent, got, first, fin, garbled, active>>
        /\ \E s \in Stage : /\ pc' = [pc EXCEPT ![t] = s]
                            /\ (pc[t] \in Early /\ s \in Early) \/ (pc[t] \in Owning /\ s \in Owning)
                            /\ s \in Before => pc[t] \in Before
    BY <1>2 DEF Acquire, StartCheck, WriteBegin, WriteParams, Early, Owning, Stage, Before
  <2>2. \A u \in Req : SameView(u)
    BY <1>i, <2>1, SameBuffers
  <2>3. OthersKept(t) /\ Reads(t)' = Reads(t)
    BY <1>i, <2>1, <2>2 DEF OthersKept, Reads
  <2>4. Still(t)
    BY <1>i, <2>1, <2>3, WireSame, StillMoves
  <2>5. \A u \in Heard' : u \in Heard \/ pc[u] \in Before
    <3>1. CASE WriteBegin(t)
      <4>. DEFINE r == [type |-> "begin", key |-> key[t], req |-> t]
      <4>1. /\ pc[t] \in Before /\ outbuf' \in {outbuf, Append(outbuf, r)}
            /\ r \in OutRec /\ r.req = t /\ outbuf \in Seq(OutRec)
        BY <1>i, <3>1 DEF WriteBegin, Write, Before, OutRec, TypeOK
      <4>. HIDE DEF r
      <4>2. From(Append(outbuf, r), "begin") \subseteq From(outbuf, "begin") \cup {t}
        BY <4>1, FromAppend
      <4>. QED  BY <2>1, <4>1, <4>2 DEF Heard
    <3>2. CASE ~WriteBegin(t)
      <4>1. outbuf' \in {outbuf, Append(outbuf, [type |-> "params", key |-> key[t], req |-> t])}
        BY <1>2, <3>2 DEF Acquire, StartCheck, WriteParams, Write
      <4>. QED  BY <1>i, <2>1, <4>1, HeardWrite
    <3>. QED  BY <3>1, <3>2
  <2>6. MoreLost
    BY <1>i, <2>1, <2>5, LostMore
  <2>. QED  BY <1>i, <2>1, <2>3, <2>4, <2>6, StillOthers, ChannelsRest
<1>3. CASE WriteStdin(t)
  <2>1. /\ UNCHANGED <<key, slab, inbuf, sent, got, first, fin, garbled, active>>
        /\ rsp' = [rsp EXCEPT ![t] = "header"] /\ pc[t] = "stdin" /\ pc' = [pc EXCEPT ![t] = "run"]
        /\ outbuf' \in {outbuf, Append(outbuf, [type |-> "stdin", key |-> key[t], req |-> t])}
    BY <1>3 DEF WriteStdin, Write
  <2>2. OthersKept(t) /\ rsp[t] = "none" /\ rsp'[t] = "header" /\ pc'[t] = "run"
    BY <1>i, <2>1 DEF OthersKept, SameView, DeliveryInv, CallInv, Staged
  <2>3. Reads(t)' = Reads(t) /\ pc[t] \in Owning /\ pc'[t] \in Owning
    BY <2>1, <2>2 DEF Reads, Owning
  <2>4. Still(t)
    BY <1>i, <2>1, <2>3, WireSame, StillMoves
  <2>5. Heard' = Heard /\ \A u \in Req : pc'[u] \in Before => pc[u] \in Before
    BY <1>i, <2>1, HeardWrite DEF Before
  <2>6. MoreLost
    BY <2>1, <2>5, LostMore
  <2>. QED  BY <1>i, <2>1, <2>2, <2>4, <2>6, StillOthers, ChannelsRest
<1>4. CASE Alive(t)
  <2>1. PICK k \in Vacant : Insert(t, k)
    BY <1>4 DEF Alive
  <2>2. /\ UNCHANGED <<rsp, inbuf, sent, got, first, fin, garbled, active, outbuf>>
        /\ pc[t] = "alive" /\ pc' = [pc EXCEPT ![t] = "begin"]
    BY <1>4 DEF Alive
  <2>3. OthersKept(t) /\ pc'[t] = "begin" /\ slab'[key'[t]].buf = <<>>
    BY <2>1, <2>2, StillInsert
  <2>4. OnWire(t) = {} /\ OnWire(t)' = {}
    BY <1>i, <2>2, WireBefore, WireSame DEF Before
  <2>5. Channel(t) = <<>> /\ ~Over(t)
    BY <1>i, <2>2, <2>4, ChannelAt, RunNone DEF Early
  <2>6. Channel(t)' = <<>> \o <<>> /\ ~Over(t)'
    <3>1. pc'[t] \in Owning
      BY <2>3 DEF Owning
    <3>. QED  BY <2>3, <2>4, <3>1, ChannelThen, RunNone
  <2>7. <<>> \o <<>> = <<>>
    OBVIOUS
  <2>8. Reads(t)' = Reads(t)
    BY <2>2 DEF Reads
  <2>9. Still(t)
    BY <2>5, <2>6, <2>7, <2>8 DEF Still
  <2>10. Heard' = Heard /\ \A u \in Req : pc'[u] \in Before => pc[u] \in Before
    BY <1>i, <2>2, HeardSame DEF Before
  <2>11. MoreLost
    BY <2>2, <2>10, LostMore
  <2>. QED  BY <1>i, <2>2, <2>3, <2>9, <2>11, StillOthers, ChannelsRest
<1>5. CASE NotAlive(t)
  <2>1. /\ UNCHANGED <<rsp, key, sent, got, first, fin>> /\ slab' = NotifyEveryone
        /\ inbuf' = <<>> /\ pc[t] = "alive" /\ pc' = [pc EXCEPT ![t] = "connect"]
        /\ Heard' = {} /\ garbled' = garbled
    BY <1>5, HeardNone DEF NotAlive
  <2>2. \A u \in Req : SameView(u) /\ Reads(u)' = Reads(u)
    BY <1>i, <2>1, SameBuffers, NotifySlots DEF Reads
  <2>3. pc[t] \in Early /\ pc'[t] \in Early /\ \A u \in Req \ {t} : pc'[u] = pc[u]
    BY <1>i, <2>1 DEF Early
  <2>. QED  BY <2>1, <2>2, <2>3, SimLose
<1>6. CASE Connected(t)
  <2>1. PICK k \in Vacant : Insert(t, k)
    BY <1>6 DEF Connected
  <2>2. /\ UNCHANGED <<rsp, sent, got, first, fin, garbled>> /\ inbuf' = <<>> /\ Heard' = {}
        /\ pc[t] = "connect" /\ pc' = [pc EXCEPT ![t] = "begin"]
    BY <1>6, HeardNone DEF Connected
  <2>3. OthersKept(t) /\ pc'[t] = "begin" /\ slab'[key'[t]].buf = <<>>
    BY <2>1, <2>2, StillInsert
  <2>4. pc[t] \in Early
    BY <2>2 DEF Early
  <2>5. \A u \in Req : Reads(u)' = Reads(u)
    BY <2>2 DEF Reads
  <2>. QED  BY <2>2, <2>3, <2>4, <2>5, SimLose DEF OthersKept
<1>. QED  BY <1>1, <1>2, <1>3, <1>4, <1>5, <1>6 DEF Forward

\* send_body leaves the channels alone; a call that fails or is given up closes
\* its own.
LEMMA SimSendGiveUp ==
    \A t \in Req : ExchangeInv /\ (SendBody(t) \/ GiveUp(t)) => E!Next
<1>. SUFFICES ASSUME NEW t \in Req, ExchangeInv, SendBody(t) \/ GiveUp(t) PROVE E!Next
  OBVIOUS
<1>. USE DEF client, inner, wire, app, hist
<1>i. PermitInv /\ TypeOK /\ pc \in [Req -> Stage]
  BY DEF ExchangeInv, PermitInv, TypeOK
<1>s. lock = <<t, "send">> => pc[t] = "run"
  BY <1>i DEF PermitInv, SendHolds, Queued
<1>1. CASE BodyChunk(t) \/ BodyEnd(t) \/ SendLock(t) \/ WriteChunk(t) \/ WriteEnd(t)
  <2>1. /\ UNCHANGED <<pc, rsp, key, slab, inbuf, sent, got, first, fin, garbled, active>>
        /\ outbuf' \in {outbuf, Append(outbuf, [type |-> "stdin", key |-> key[t], req |-> t])}
    BY <1>1 DEF BodyChunk, BodyEnd, SendLock, WriteChunk, WriteEnd, Write
  <2>2. Heard' = Heard
    BY <1>i, <2>1, HeardWrite
  <2>. QED  BY <2>1, <2>2, SimQuiet
<1>2. CASE WriteAbort(t) \/ SendFail(t) \/ DropBody(t)
  <2>1. /\ UNCHANGED <<rsp, key, inbuf, sent, got, first, fin, garbled, active>> /\ DropFCGIBody(t)
        /\ \E s \in Gone : pc' = [pc EXCEPT ![t] = s]
        /\ \E ty \in {"abort", "torn"} :
              outbuf' \in {outbuf, Append(outbuf, [type |-> ty, key |-> key[t], req |-> t])}
    BY <1>2 DEF WriteAbort, SendFail, DropBody, Gone, Write, Torn
  <2>2. pc[t] \notin {"done"} \cup Gone
    BY <1>2, <1>s DEF WriteAbort, SendFail, DropBody, Gone
  <2>3. \A u \in Req : SameView(u)
    BY <1>i, <2>1, DropType, SameBuffers
  <2>4. OthersKept(t) /\ pc'[t] \in Gone
    BY <1>i, <2>1, <2>3 DEF OthersKept
  <2>5. Heard' = Heard
    BY <1>i, <2>1, HeardWrite
  <2>. QED  BY <1>i, <2>1, <2>2, <2>4, <2>5, SimFail
<1>3. CASE CancelForward(t)
  <2>1. /\ UNCHANGED <<rsp, key, slab, inbuf, sent, got, first, fin, garbled, active>>
        /\ pc' = [pc EXCEPT ![t] = "dropped"] /\ pc[t] \notin {"done"} \cup Gone
        /\ outbuf' \in {outbuf, Append(outbuf, [type |-> "torn", key |-> key[t], req |-> t])}
    BY <1>3 DEF CancelForward, Gone, Torn
  <2>2. \A u \in Req : SameView(u)
    BY <1>i, <2>1, SameBuffers
  <2>3. OthersKept(t) /\ pc'[t] \in Gone
    BY <1>i, <2>1, <2>2 DEF OthersKept, Gone
  <2>4. Heard' = Heard
    BY <1>i, <2>1, HeardWrite
  <2>. QED  BY <1>i, <2>1, <2>3, <2>4, SimFail
<1>. QED  BY <1>1, <1>2, <1>3 DEF SendBody, GiveUp

\* What a call reads from its slot is the head of its channel; the rest it gives
\* back goes behind what is in the slot, before what is on the wire.
LEMMA SimResponse == \A t \in Req : ExchangeInv /\ Response(t) => E!Next
<1>. SUFFICES ASSUME NEW t \in Req, ExchangeInv, Response(t) PROVE E!Next
  OBVIOUS
<1>. USE DEF client, inner, wire, app, hist
<1>i. /\ PermitInv /\ SeatInv /\ DeliveryInv /\ TypeOK /\ pc \in [Req -> Stage]
      /\ slab \in [DOMAIN slab -> Slot] /\ rsp \in [Req -> {"none", "header", "push", "done"}]
      /\ got \in [Req -> Seq(Chunk)] /\ first \in [Req -> Nat]
  BY DEF ExchangeInv, PermitInv, TypeOK
<1>w. UNCHANGED <<key, inbuf, sent, fin, garbled>> /\ OnWire(t)' = OnWire(t) /\ Heard' = Heard
  <2>1. UNCHANGED <<key, inbuf, sent, fin, garbled, active, outbuf>>
    BY DEF Response, StartResponse, FrameLock, FrameWait, FrameEnd, FrameData, FrameHeader,
           PushRest, Respond
  <2>. QED  BY <2>1, WireSame, HeardSame
<1>o. pc[t] \in Owning /\ key[t] \in DOMAIN slab
  <2>1. pc[t] \in Owning
    BY <1>i DEF Response, StartResponse, FrameLock, FrameWait, FrameEnd, FrameData, FrameHeader,
                PushRest, Respond, Reading, Polled, SeatInv, RespHolds, Owning
  <2>. QED  BY <1>i, <2>1, ChunkTypes
<1>l. SameLost /\ MoreLost
  <2>1. pc' = pc \/ (pc[t] \in {"run", "body"} /\ \E s \in {"body", "done"} : pc' = [pc EXCEPT ![t] = s])
    BY <1>i DEF Response, StartResponse, FrameLock, FrameWait, FrameEnd, FrameData, FrameHeader,
                PushRest, Respond, Polled, SeatInv, RespHolds, Reading
  <2>2. \A u \in Req : pc'[u] \in Before <=> pc[u] \in Before
    BY <1>i, <2>1 DEF Before
  <2>. QED  BY <1>w, <2>2, LostSame DEF SameLost, MoreLost
<1>. DEFINE b == slab[key[t]].buf
            r == Run(t, sent[t], OnWire(t))
<1>c. /\ b \in Seq(Chunk) /\ r \in Seq(Chunk) /\ (t \in fin => r = <<>>)
      /\ Channel(t) = b \o r /\ ~Over(t)
  BY <1>i, <1>o, ChannelSeq, ChannelAt
<1>d. pc'[t] \in Owning => Channel(t)' = slab'[key[t]].buf \o r /\ ~Over(t)'
  BY <1>w, ChannelThen
<1>e. pc'[t] = "done" => Channel(t)' = <<>> /\ Over(t)'
  BY ChannelThen
<1>1. CASE FrameLock(t) \/ FrameWait(t) \/ Respond(t)
  <2>1. /\ UNCHANGED <<rsp, slab, got, first>>
        /\ pc' = pc \/ (pc[t] = "run" /\ pc' = [pc EXCEPT ![t] = "body"])
    BY <1>1 DEF FrameLock, FrameWait, Respond
  <2>2. \A u \in Req : SameView(u)
    BY <1>i, <1>w, <2>1, SameBuffers
  <2>3. OthersKept(t) /\ pc'[t] \in Owning /\ Reads(t)' = Reads(t)
    BY <1>i, <1>o, <2>1, <2>2 DEF OthersKept, Owning, Reads
  <2>4. Still(t)
    BY <1>c, <1>d, <2>1, <2>3 DEF Still
  <2>. QED  BY <1>i, <1>w, <1>l, <2>1, <2>3, <2>4, StillOthers, ChannelsRest
<1>2. CASE StartResponse(t)
  <2>1. /\ UNCHANGED <<pc, slab, got, first>> /\ rsp[t] = "none" /\ rsp' = [rsp EXCEPT ![t] = "header"]
    BY <1>2 DEF StartResponse
  <2>2. OthersKept(t) /\ rsp'[t] = "header"
    BY <1>i, <1>w, <2>1 DEF OthersKept, SameView
  <2>3. Reads(t)' = Reads(t)
    BY <2>1, <2>2 DEF Reads
  <2>4. Still(t)
    BY <1>c, <1>d, <1>o, <2>1, <2>3 DEF Still
  <2>. QED  BY <1>i, <1>w, <1>l, <2>1, <2>2, <2>4, StillOthers, ChannelsRest
<1>3. CASE FrameEnd(t) /\ pc[t] # "body"
  <2>1. /\ UNCHANGED <<pc, slab, got, first>> /\ pc[t] = "run" /\ rsp[t] = "header" /\ b = <<>>
        /\ rsp' = [rsp EXCEPT ![t] = "done"]
    BY <1>3, <1>i DEF FrameEnd, Slab, Polled, SeatInv, RespHolds, Reading
  <2>2. OthersKept(t) /\ rsp'[t] = "done"
    BY <1>i, <1>w, <2>1 DEF OthersKept, SameView
  <2>3. Reads(t) = "header" /\ Reads(t)' = "body"
    BY <2>1, <2>2 DEF Reads
  <2>4. Channel(t)' = Channel(t) /\ ~Over(t)'
    BY <1>c, <1>d, <1>o, <2>1
  <2>5. t \in fin => Channel(t) = <<>>
    <3>1. <<>> \o <<>> = <<>>
      OBVIOUS
    <3>. QED  BY <1>c, <2>1, <3>1
  <2>6. E!NoHeader(t)
    BY <1>c, <1>i, <1>w, <1>l, <2>1, <2>2, <2>3, <2>4, <2>5, StillOthers, ChannelNoHeader
  <2>. QED  BY <2>6 DEF E!Next
<1>4. CASE FrameEnd(t) /\ pc[t] = "body"
  <2>1. /\ UNCHANGED <<rsp, got, first>> /\ b = <<>>
        /\ slab' = Remove(key[t]) /\ pc' = [pc EXCEPT ![t] = "done"]
    BY <1>4 DEF FrameEnd, Slab
  <2>2. OthersKept(t) /\ pc'[t] = "done"
    <3>1. \A j \in DOMAIN slab \ {key[t]} : slab'[j].buf = slab[j].buf
      BY <2>1 DEF Remove
    <3>. QED  BY <1>i, <1>o, <1>w, <2>1, <3>1, Elsewhere
  <2>3. Reads(t) = "body" /\ Reads(t)' = "body"
    BY <1>4, <1>i, <2>1 DEF Reads, DeliveryInv, CallInv, Staged
  <2>4. t \in fin => Channel(t) = <<>>
    <3>1. <<>> \o <<>> = <<>>
      OBVIOUS
    <3>. QED  BY <1>c, <2>1, <3>1
  <2>5. E!Finish(t)
    BY <1>c, <1>e, <1>i, <1>w, <1>l, <2>1, <2>2, <2>3, <2>4, StillOthers, ChannelFinish
  <2>. QED  BY <2>5 DEF E!Next
<1>5. CASE FrameData(t)
  <2>1. /\ UNCHANGED <<rsp, first>> /\ pc[t] = "body" /\ b # <<>>
        /\ got' = [got EXCEPT ![t] = Append(@, Head(b))]
        /\ \/ slab' = Pop(key[t]) /\ pc' = pc
           \/ slab' = Remove(key[t]) /\ pc' = [pc EXCEPT ![t] = "done"] /\ Len(b) = 1
    BY <1>5 DEF FrameData, Slab, LastChunk
  <2>2. OthersKept(t)
    <3>1. \A j \in DOMAIN slab \ {key[t]} : slab'[j].buf = slab[j].buf
      BY <1>i, <1>o, <2>1, PopSlots DEF Remove
    <3>. QED  BY <1>i, <1>o, <1>w, <2>1, <3>1, Elsewhere
  <2>3. Reads(t) = "body" /\ Reads(t)' = "body"
    BY <1>i, <2>1 DEF Reads, DeliveryInv, CallInv, Staged
  <2>4. Channel(t) # <<>> /\ Head(Channel(t)) = Head(b) /\ Tail(Channel(t)) = Tail(b) \o r
    <3>. HIDE DEF b, r
    <3>. QED  BY <1>c, <2>1, TakeFirst
  <2>5. \/ Channel(t)' = Tail(Channel(t)) /\ ~Over(t)'
        \/ Channel(t)' = <<>> /\ Over(t)' /\ (t \in fin => Tail(Channel(t)) = <<>>)
    <3>1. CASE slab' = Pop(key[t]) /\ pc' = pc
      <4>1. slab'[key[t]].buf = Tail(b)
        BY <1>i, <1>o, <2>1, <3>1, PopSlots
      <4>. QED  BY <1>d, <1>o, <2>4, <3>1, <4>1
    <3>2. CASE pc' = [pc EXCEPT ![t] = "done"] /\ Len(b) = 1
      <4>1. pc'[t] = "done"
        BY <1>i, <3>2
      <4>2. Tail(b) = <<>> /\ <<>> \o <<>> = <<>>
        <5>. HIDE DEF b, r
        <5>. QED  BY <1>c, <3>2, LastTaken
      <4>. QED  BY <1>c, <1>e, <2>4, <4>1, <4>2
    <3>. QED  BY <2>1, <3>1, <3>2
  <2>6. got' = [got EXCEPT ![t] = Append(@, Head(Channel(t)))]
    BY <2>1, <2>4
  <2>7. E!Deliver(t)
    BY <1>c, <1>i, <1>w, <1>l, <2>1, <2>2, <2>3, <2>4, <2>5, <2>6, StillOthers, ChannelDeliver
  <2>. QED  BY <2>7 DEF E!Next
<1>6. CASE FrameHeader(t)
  <2>1. /\ UNCHANGED <<pc, got>> /\ pc[t] = "run" /\ b # <<>> /\ rsp[t] = "header"
        /\ slab' = Pop(key[t])
    BY <1>6, <1>i DEF FrameHeader, Slab, Polled, SeatInv, RespHolds, Reading
  <2>2. PICK p \in ParseResult :
           /\ rsp' = [rsp EXCEPT ![t] = p]
           /\ first' = [first EXCEPT ![t] = Head(b).n + (IF p = "push" THEN 0 ELSE 1)]
    BY <1>6 DEF FrameHeader, Slab
  <2>3. OthersKept(t)
    <3>1. \A j \in DOMAIN slab \ {key[t]} : slab'[j].buf = slab[j].buf
      BY <1>i, <1>o, <2>1, PopSlots
    <3>2. \A u \in Req \ {t} : rsp'[u] = rsp[u] /\ first'[u] = first[u]
      BY <1>i, <2>2
    <3>. QED  BY <1>i, <1>o, <1>w, <2>1, <3>1, <3>2, Elsewhere
  <2>4. PICK to \in {"header", "rest", "body"} : Reads(t)' = to /\ (to = "rest" <=> p = "push")
    <3>1. rsp'[t] = p /\ p \in {"header", "done", "push"}
      BY <1>i, <2>2 DEF ParseResult
    <3>. QED  BY <3>1 DEF Reads
  <2>5. Reads(t) = "header"
    BY <2>1 DEF Reads
  <2>6. Channel(t) # <<>> /\ Head(Channel(t)) = Head(b) /\ Tail(Channel(t)) = Tail(b) \o r
    <3>. HIDE DEF b, r
    <3>. QED  BY <1>c, <2>1, TakeFirst
  <2>7. Channel(t)' = Tail(Channel(t)) /\ ~Over(t)'
    <3>1. slab'[key[t]].buf = Tail(b)
      BY <1>i, <1>o, <2>1, PopSlots
    <3>. QED  BY <1>d, <1>o, <2>1, <2>6, <3>1
  <2>8. first' = [first EXCEPT ![t] = Head(Channel(t)).n + (IF to = "rest" THEN 0 ELSE 1)]
    BY <2>2, <2>4, <2>6
  <2>9. E!TakeHeader(t)
    BY <1>c, <1>i, <1>w, <1>l, <2>1, <2>3, <2>4, <2>5, <2>6, <2>7, <2>8, StillOthers, ChannelTakeHeader
  <2>. QED  BY <2>9 DEF E!Next
<1>7. CASE PushRest(t)
  <2>. DEFINE c == [req |-> t, n |-> first[t]]
  <2>1. /\ UNCHANGED <<pc, got, first>> /\ rsp[t] = "push" /\ rsp' = [rsp EXCEPT ![t] = "done"]
        /\ slab' = Push(key[t], c)
    BY <1>7 DEF PushRest
  <2>2. c \in Chunk
    BY <1>i DEF Chunk
  <2>3. OthersKept(t) /\ rsp'[t] = "done"
    <3>1. \A j \in DOMAIN slab \ {key[t]} : slab'[j].buf = slab[j].buf
      BY <1>i, <1>o, <2>1, <2>2, PushSlots
    <3>. QED  BY <1>i, <1>o, <1>w, <2>1, <3>1, Elsewhere
  <2>4. Reads(t) = "rest" /\ Reads(t)' = "body"
    BY <2>1, <2>3 DEF Reads
  <2>5. Channel(t)' = Append(b, c) \o r /\ ~Over(t)'
    <3>1. slab'[key[t]].buf = Append(b, c)
      BY <1>i, <1>o, <2>1, <2>2, PushSlots
    <3>. QED  BY <1>d, <1>o, <2>1, <3>1
  <2>6. PICK i : i = Len(b)
    OBVIOUS
  <2>7. /\ i \in 0 .. Len(Channel(t)) /\ SubSeq(Channel(t), 1, i) = b
        /\ SubSeq(Channel(t), i + 1, Len(Channel(t))) = r
    <3>. HIDE DEF b, r
    <3>. QED  BY <1>c, <2>6, Parts
  <2>8. Append(b, c) = b \o <<c>>
    <3>. HIDE DEF b, r, c
    <3>. QED  BY <1>c, <2>2
  <2>9. Channel(t)' = SubSeq(Channel(t), 1, i) \o <<c>> \o SubSeq(Channel(t), i + 1, Len(Channel(t)))
    BY <2>5, <2>7, <2>8
  <2>10. E!GiveBack(t)
    BY <1>c, <1>i, <1>w, <1>l, <2>1, <2>3, <2>4, <2>5, <2>7, <2>9, StillOthers, ChannelGiveBack
  <2>. QED  BY <2>10 DEF E!Next
<1>. QED  BY <1>1, <1>2, <1>3, <1>4, <1>5, <1>6, <1>7 DEF Response

\* What the application puts out goes to the end of its channel, and is not heard
\* if the call is over.
LEMMA SimStdout == ASSUME ExchangeInv, NEW x \in active, AppStdout(x) PROVE E!Next
<1>i. PermitInv /\ DeliveryInv /\ LastOnWire /\ x.req \in Req /\ x.key \in Nat /\ sent \in [Req -> Nat]
  BY DEF ExchangeInv, PermitInv, TypeOK
<1>0. PICK t \in Req : t = x.req
  BY <1>i
<1>1. PICK s \in Nat : s = sent[t]
  BY <1>i
<1>2. /\ UNCHANGED <<pc, rsp, key, slab, got, first, fin, garbled>> /\ sent' = [sent EXCEPT ![t] = @ + 1]
      /\ inbuf' = Append(inbuf, [type |-> "stdout", key |-> x.key, req |-> t, n |-> s + 1])
  BY <1>0, <1>1 DEF AppStdout, Emit, client, inner, hist
<1>3. x \in Flight /\ pc[t] \notin Before /\ t \notin fin
  BY <1>0, <1>i DEF Flight, DeliveryInv, FlightOfCall
<1>l. SameLost /\ ~Unheard(t)
  <2>1. Heard' = Heard
    <3>1. PICK m \in Nat : m = s + 1
      OBVIOUS
    <3>2. Emit("stdout", x, m) /\ UNCHANGED <<outbuf, active>>
      BY <1>0, <1>1, <3>1 DEF AppStdout, app
    <3>. QED  BY <1>i, <3>2, HeardSend DEF PermitInv
  <2>2. t \in Heard
    BY <1>0 DEF Heard
  <2>. QED  BY <1>2, <2>1, <2>2, LostSame, UnheardIs
<1>4. \A u \in Req : OnWire(u)' = IF u = t THEN OnWire(u) \cup {s + 1} ELSE OnWire(u)
  <2>. DEFINE r == [type |-> "stdout", key |-> x.key, req |-> t, n |-> s + 1]
  <2>1. r \in InRec /\ r.type = "stdout" /\ r.req = t /\ r.n = s + 1 /\ inbuf' = Append(inbuf, r)
    BY <1>2, <1>i DEF InRec
  <2>. HIDE DEF r
  <2>. QED  BY <1>i, <2>1, SendWire
<1>5. \A u \in Req : SameView(u)
  BY <1>2, <1>i, SameBuffers
<1>6. \A u \in Req \ {t} : Still(u)
  BY <1>2, <1>4, <1>5, <1>i, StillView
<1>7. Reads(t)' = Reads(t) /\ (Over(t)' <=> Over(t))
  BY <1>2 DEF Reads, Over
<1>8. CASE Over(t)
  <2>1. Channel(t)' = Channel(t)
    BY <1>7, <1>8, <1>i, ChannelAt, ChannelThen
  <2>2. E!Produce(t)
    BY <1>l, <1>2, <1>3, <1>6, <1>7, <1>8, <2>1, ChannelProduce
  <2>. QED  BY <2>2 DEF E!Next
<1>9. CASE ~Over(t)
  <2>1. pc[t] \in Live /\ pc[t] \in Owning
    BY <1>3, <1>9, <1>i, ChannelAt DEF Before, Early, Owning, Live
  <2>2. PICK m \in Nat : m = Upto(t) /\ m <= s + 1
    BY <1>1, <1>i, <2>1, ChunkTypes DEF DeliveryInv, CallInv, Pending
  <2>3. OnWire(t) = m .. s
    BY <1>0, <1>1, <1>i, <2>1, <2>2, WireWhole
  <2>. DEFINE b == slab[key[t]].buf
              r == Run(t, s, m .. s)
              c == [req |-> t, n |-> s + 1]
  <2>4. b \in Seq(Chunk) /\ r \in Seq(Chunk) /\ c \in Chunk
    <3>1. b \in Seq(Chunk) /\ r \in Seq(Chunk)
      BY <1>1, <2>1, <2>3, ChannelSeq
    <3>2. c \in Chunk
      BY DEF Chunk
    <3>. QED  BY <3>1, <3>2
  <2>5. Channel(t) = b \o r
    BY <1>1, <1>i, <2>1, <2>3, ChannelAt
  <2>6. Channel(t)' = b \o Append(r, c)
    <3>1. sent'[t] = s + 1 /\ OnWire(t)' = (m .. s) \cup {s + 1}
      BY <1>1, <1>2, <1>4, <1>i, <2>3
    <3>2. Run(t, sent'[t], OnWire(t)') = Append(r, c)
      BY <2>2, <3>1, RunLast
    <3>. QED  BY <1>2, <2>1, <3>2, ChannelThen
  <2>. HIDE DEF b, r, c
  <2>7. Channel(t)' = Append(Channel(t), c)
    BY <2>4, <2>5, <2>6, AddLast
  <2>8. E!Produce(t)
    BY <1>l, <1>1, <1>2, <1>3, <1>6, <1>7, <1>9, <2>7, ChannelProduce DEF c
  <2>. QED  BY <2>8 DEF E!Next
<1>. QED  BY <1>8, <1>9

\* The application and the socket, and close.
LEMMA SimOutside == ExchangeInv /\ (Close \/ App) /\ ~AppTorn => E!Next
<1>. SUFFICES ASSUME ExchangeInv, Close \/ App, ~AppTorn PROVE E!Next
  OBVIOUS
<1>. USE DEF client, inner, wire, app, hist
<1>i. PermitInv /\ TypeOK /\ active \subseteq [key : Nat, req : Req]
  BY DEF ExchangeInv, PermitInv, TypeOK
<1>1. CASE Close \/ AppRecv \/ AppClose \/ (AppReset /\ inbuf' = inbuf)
  <2>1. /\ UNCHANGED <<pc, rsp, key, inbuf, sent, got, first, fin, garbled>>
        /\ slab' = slab \/ slab' = NotifyEveryone
    BY <1>1 DEF Close, AppRecv, AppClose, AppReset
  <2>2. \A j \in DOMAIN slab : slab'[j].buf = slab[j].buf
    BY <1>i, <2>1, NotifySlots
  <2>3. Heard' \subseteq Heard
    <3>1. CASE AppRecv
      BY <1>i, <3>1, HeardReceive
    <3>2. CASE Close
      BY <3>2, HeardSame DEF Close
    <3>3. CASE AppClose \/ (AppReset /\ inbuf' = inbuf)
      BY <3>3, HeardNone DEF AppClose, AppReset
    <3>. QED  BY <1>1, <3>1, <3>2, <3>3
  <2>. QED  BY <2>1, <2>2, <2>3, SimQuiet
<1>2. CASE AppReset /\ inbuf' = <<>>
  <2>1. UNCHANGED <<pc, rsp, key, slab, sent, got, first, fin, garbled>> /\ Heard' = {}
    BY <1>2, HeardNone DEF AppReset
  <2>2. \A u \in Req : SameView(u) /\ Reads(u)' = Reads(u)
    BY <1>i, <2>1, SameBuffers DEF Reads
  <2>. QED  BY <1>2, <2>1, <2>2, SimLose
<1>3. ASSUME NEW x \in active, AppNoise(x) \/ AppEnd(x) PROVE E!Next
  <2>1. PICK ty \in {"noise", "end"} :
           inbuf' = Append(inbuf, [type |-> ty, key |-> x.key, req |-> x.req, n |-> 0])
    BY <1>3 DEF AppNoise, AppEnd, Emit
  <2>2. UNCHANGED <<pc, rsp, key, slab, sent, got, first, fin, garbled>>
    BY <1>3 DEF AppNoise, AppEnd
  <2>. DEFINE r == [type |-> ty, key |-> x.key, req |-> x.req, n |-> 0]
  <2>3. r \in InRec /\ r.type # "stdout" /\ inbuf' = Append(inbuf, r)
    BY <1>i, <2>1 DEF InRec
  <2>. HIDE DEF r
  <2>4. \A u \in Req : OnWire(u)' = OnWire(u)
    BY <1>i, <2>3, SendWire
  <2>5. \A u \in Req : SameView(u)
    BY <1>i, <2>2, SameBuffers
  <2>6. \A u \in Req : Still(u)
    BY <1>i, <2>2, <2>4, <2>5, StillView
  <2>7. MoreLost
    <3>1. Heard' = Heard
      BY <1>i, <1>3, HeardSend DEF AppNoise, AppEnd
    <3>. QED  BY <2>2, <3>1, LostMore
  <2>. QED  BY <2>2, <2>6, <2>7, ChannelsRest
<1>4. AppReset => inbuf' = inbuf \/ inbuf' = <<>>
  BY DEF AppReset
<1>. QED  BY <1>1, <1>2, <1>3, <1>4, SimStdout DEF App

-----------------------------------------------------------------------------
(* Refinement *)

\* At first all channels are empty.
LEMMA ChannelsInit == Init => E!Init
<1>. SUFFICES ASSUME Init PROVE E!Init
  OBVIOUS
<1>1. \A t \in Req : OnWire(t) = {} /\ pc[t] = "acquire" /\ rsp[t] = "none"
  BY DEF Init, OnWire
<1>2. PermitInv
  BY PermitInit
<1>3. \A t \in Req : Channel(t) = <<>> /\ ~Over(t)
  BY <1>1, <1>2, ChannelAt, RunNone DEF Early
<1>4. \A t \in Req : Reads(t) = "header" /\ ~Unheard(t)
  BY <1>1 DEF Reads, Unheard
<1>. QED  BY <1>3, <1>4 DEF Init, E!Init

\* Until the application reads past a torn record, every step of the connection is one
\* of the channels.
LEMMA SimNext ==
    ASSUME ExchangeInv, garbled = "no", [Next]_vars, ~AppTorn PROVE E!Next \/ UNCHANGED E!vars
<1>1. CASE UNCHANGED vars
  <2>1. UNCHANGED <<pc, rsp, key, slab, inbuf, outbuf, active, sent, got, first, fin, garbled>>
    BY <1>1 DEF vars, client, inner, wire, app, hist
  <2>. QED  BY <2>1, HeardSame, SimQuiet
<1>2. CASE Next
  BY <1>2, SimPollResp, SimForward, SimSendGiveUp, SimResponse, SimOutside DEF Next
<1>. QED  BY <1>1, <1>2

\* The invariant holds until then, and nothing is promised afterwards.
LEMMA PrivateNext ==
    ASSUME Private, [Next]_vars PROVE Private' /\ [E!Next]_(E!vars)
<1>1. garbled' # "no" => E!Next
  <2>1. garbled' # "no" => E!Spoil
    BY DEF E!Spoil
  <2>. QED  BY <2>1 DEF E!Next
<1>2. garbled' = "no" => garbled = "no" /\ ~AppTorn
  BY GarbledStep
<1>3. garbled' = "no" => ExchangeInv' /\ (E!Next \/ UNCHANGED E!vars)
  BY <1>2, ExchangeNext, SimNext DEF Private
<1>. QED  BY <1>1, <1>3 DEF Private

\* Connection implements Exchange, for any number of calls, permits, chunks and
\* lost connections: until the application reads past a torn record, a caller that
\* shares the socket, the slab and the mutex with others cannot tell it from a channel
\* of its own, which the application is cut off from only together with the connection
\* or before it heard of the call.
THEOREM ConnectionImplementsExchange == Spec => PrivateChannels
<1>1. Init => Private
  BY ExchangeInit DEF Private
<1>. QED  BY <1>1, PrivateNext, ChannelsInit, PTL DEF Spec, PrivateChannels, E!Spec
=============================================================================
