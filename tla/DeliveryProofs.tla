---------------------------- MODULE DeliveryProofs ----------------------------
(***************************************************************************)
(* A response body is neither missing a chunk nor repeating one, and one   *)
(* that was ended by EndRequest is complete.  The chunks of a call are     *)
(* followed from the application over the wire and the slot to the caller: *)
(* what the client has of them, and what of them is under way, fit without *)
(* a gap, whatever happens to the connection, as long as the application   *)
(* does not read past a torn record.                                       *)
(***************************************************************************)
EXTENDS CrosstalkProofs

Before == {"acquire", "lock", "alive", "connect", "begin"}
Live   == {"params", "stdin", "run", "body"}

\* The chunks a call got or finds in its slot, apart from a rest that
\* create_response still has to give back.
Count(t)  == Len(got[t]) + (IF pc[t] \in Live THEN Len(slab[key[t]].buf) ELSE 0)
Num(t, i) == IF i <= Len(got[t]) THEN got[t][i].n ELSE slab[key[t]].buf[i - Len(got[t])].n

\* The number of the next chunk.
Upto(t) == first[t] + Count(t) + (IF rsp[t] = "push" THEN 1 ELSE 0)

\* Chunks are numbered from the first one of the body on; the rest of the
\* header chunk, which has the number first[t], is at place p.
Shape(t, p) ==
    \A i \in 1 .. Count(t) :
        Num(t, i) = IF i < p THEN first[t] + i
                    ELSE IF i = p THEN first[t] ELSE first[t] + i - 1

Shaped(t) ==
    /\ rsp[t] \in {"none", "header"} => Shape(t, 1)
    /\ rsp[t] = "push" => Shape(t, Count(t) + 1)
    /\ rsp[t] = "done" => \E p \in 1 .. (Count(t) + 1) : Shape(t, p) /\ (p <= Count(t) \/ p = 1)

\* Chunk m of t is on its way in front of record i.
Out(t, i)    == inbuf[i].type = "stdout" /\ inbuf[i].req = t
Has(t, m, i) == \E j \in DOMAIN inbuf : j < i /\ Out(t, j) /\ inbuf[j].n = m

\* The chunks under way to t continue what it has, in order and without a gap;
\* they are all there while the application works for t, and when it has ended.
Pending(t) ==
    /\ Upto(t) <= sent[t] + 1
    /\ \A i \in DOMAIN inbuf : Out(t, i) =>
          /\ inbuf[i].n \in Upto(t) .. sent[t]
          /\ \A m \in Upto(t) .. (inbuf[i].n - 1) : Has(t, m, i)
          /\ \A j \in DOMAIN inbuf : j < i /\ Out(t, j) => inbuf[j].n < inbuf[i].n
    /\ \A i \in DOMAIN inbuf : inbuf[i].type = "end" /\ inbuf[i].req = t =>
          \A m \in Upto(t) .. sent[t] : Has(t, m, i)
    /\ (\E x \in active : x.req = t) => \A m \in Upto(t) .. sent[t] : Has(t, m, Len(inbuf) + 1)

\* What a call has before its response, before its body and after it.
Staged(t) ==
    /\ pc[t] \in Before \cup {"params", "stdin"} =>
          rsp[t] = "none" /\ first[t] = 1 /\ got[t] = <<>>
    /\ pc[t] \in Before => sent[t] = 0 /\ t \notin fin
    /\ pc[t] \notin Gone => first[t] >= 1
    /\ pc[t] = "begin" => slab[key[t]].buf = <<>>
    /\ pc[t] = "run" => got[t] = <<>>
    /\ pc[t] \in {"body", "done"} => rsp[t] = "done"

\* What is in flight is of a call that began, under its id, and did not end.
FlightOfCall ==
    \A y \in Flight : pc[y.req] \notin Before /\ y.key = key[y.req] /\ y.req \notin fin

\* Before its BeginRequest is read a request has no output.
QueuedSilent == \A y \in Queueing : sent[y.req] = 0

\* What holds of each call.
CallInv(t) ==
    /\ Staged(t)
    /\ pc[t] \in Live \cup {"done"} => Shaped(t)
    /\ pc[t] \in Live => Pending(t)
    /\ t \in fin /\ pc[t] \in Live \cup {"done"} => Upto(t) = sent[t] + 1

\* The inductive invariant.
DeliveryInv == FlightOfCall /\ QueuedSilent /\ \A t \in Req : CallInv(t)

-----------------------------------------------------------------------------
(* Slots and readers *)

\* Every slot is the one its owner knows, and its owner runs or was given up.
SlotOwned == \A k \in DOMAIN slab : key[slab[k].owner] = k /\ pc[slab[k].owner] \in Owning \cup Gone

\* The mutex is held for poll_frame only while the body or its header is read.
RespHolds == \A t \in Req : lock = <<t, "resp">> => Reading(t)

SeatInv == SlotOwned /\ RespHolds

\* Calls with a slot keep it and stay, or take it with them; readers keep reading.
SeatKept ==
    /\ OwnersKept
    /\ \A u \in Req : pc[u] \in Owning \cup Gone =>
          key'[u] = key[u] /\ (pc'[u] \in Owning \cup Gone \/ key[u] \notin DOMAIN slab')
    /\ \A u \in Req : lock' = <<u, "resp">> =>
          lock = <<u, "resp">> /\ pc'[u] = pc[u] /\ rsp'[u] = rsp[u]

\* A step that moves no slot to another call.
LEMMA KeepSeats == ASSUME TypeOK, SeatInv, SeatKept PROVE SeatInv'
<1>1. \A k \in DOMAIN slab : slab[k].owner \in Req
  BY DEF TypeOK, Slot
<1>2. SlotOwned'
  BY <1>1 DEF SeatInv, SlotOwned, SeatKept, OwnersKept
<1>3. RespHolds'
  BY DEF SeatInv, RespHolds, SeatKept, Reading
<1>. QED  BY <1>2, <1>3 DEF SeatInv

\* poll_resp ends and frees slots, and leaves the calls alone.
LEMMA SeatPollResp == PermitInv /\ SeatInv /\ PollResp => SeatInv'
<1>. SUFFICES ASSUME PermitInv, SeatInv, PollResp PROVE SeatInv'
  OBVIOUS
<1>t. TypeOK
  BY DEF PermitInv
<1>. USE DEF client, inner, wire, app, hist
<1>1. UNCHANGED <<pc, key, rsp, lock>>
  BY DEF PollResp, RespOut, RespEnd, RespFree, RespSkip, RespSplit, RespReady, RespPending,
         RespClosed, RespError
<1>2. OwnersKept
  <2>1. CASE RespOut
    <3>. DEFINE x == Head(inbuf)
                c == [req |-> x.req, n |-> x.n]
    <3>1. x \in InRec /\ x.key \in DOMAIN slab /\ slab' = Push(x.key, c)
      BY <1>t, <2>1, HeadTail DEF TypeOK, RespOut, Parsing, Addressed
    <3>2. c \in Chunk
      BY <3>1 DEF InRec, Chunk
    <3>. QED  BY <1>t, <3>1, <3>2, PushSlots DEF TypeOK, SameSlots, OwnersKept
  <2>2. CASE RespEnd
    <3>1. PICK k \in DOMAIN slab : slab' = [slab EXCEPT ![k].ended = TRUE]
      BY <2>2 DEF RespEnd, Addressed
    <3>. QED  BY <1>t, <3>1 DEF TypeOK, Slot, OwnersKept
  <2>3. CASE RespFree
    BY <2>3 DEF RespFree, Remove, OwnersKept
  <2>4. CASE RespClosed \/ RespError
    BY <1>t, <2>4, NotifySlots DEF RespClosed, RespError, OwnersKept
  <2>5. CASE RespSkip \/ RespSplit \/ RespReady \/ RespPending
    BY <2>5 DEF RespSkip, RespSplit, RespReady, RespPending, OwnersKept
  <2>. QED  BY <2>1, <2>2, <2>3, <2>4, <2>5 DEF PollResp
<1>. QED  BY <1>t, <1>1, <1>2, KeepSeats DEF SeatKept

\* forward takes a slot for a call that had none.
LEMMA SeatForward == \A t \in Req : PermitInv /\ SeatInv /\ Forward(t) => SeatInv'
<1>. SUFFICES ASSUME NEW t \in Req, PermitInv, SeatInv, Forward(t) PROVE SeatInv'
  OBVIOUS
<1>t. TypeOK /\ pc \in [Req -> Stage] /\ key \in [Req -> Nat] /\ rsp \in [Req -> {"none", "header", "push", "done"}]
  BY DEF PermitInv, TypeOK
<1>f. \A u \in Req : Free # <<u, "resp">>
  BY FreeAssumption
<1>. USE DEF client, inner, wire, app, hist
<1>1. CASE Alive(t) \/ Connected(t)
  <2>1. PICK k \in Vacant : Insert(t, k)
    BY <1>1 DEF Alive, Connected
  <2>2. pc[t] \in {"alive", "connect"} /\ pc' = [pc EXCEPT ![t] = "begin"] /\ UNCHANGED <<lock, rsp>>
    BY <1>1 DEF Alive, Connected
  <2>3. k \notin DOMAIN slab /\ DOMAIN slab' = DOMAIN slab \cup {k}
    BY <1>t, <2>1, InsertType
  <2>4. slab'[k].owner = t /\ \A j \in DOMAIN slab : slab'[j] = slab[j]
    BY <2>1, <2>3 DEF Insert
  <2>5. key'[t] = k /\ \A u \in Req \ {t} : key'[u] = key[u] /\ pc'[u] = pc[u]
    BY <1>t, <2>1, <2>2 DEF Insert
  <2>6. \A j \in DOMAIN slab : slab[j].owner \in Req \ {t}
    BY <1>t, <2>2 DEF TypeOK, Slot, SeatInv, SlotOwned, Owning, Gone
  <2>7. pc'[t] \in Owning
    BY <1>t, <2>2 DEF Owning
  <2>8. SlotOwned'
    BY <2>3, <2>4, <2>5, <2>6, <2>7 DEF SeatInv, SlotOwned
  <2>9. RespHolds'
    BY <1>t, <2>2 DEF SeatInv, RespHolds, Reading
  <2>. QED  BY <2>8, <2>9 DEF SeatInv
<1>2. CASE Acquire(t) \/ StartCheck(t) \/ NotAlive(t) \/ AliveError(t) \/ ConnectFail(t)
           \/ WriteBegin(t) \/ WriteParams(t) \/ RejectHeader(t) \/ WriteFail(t)
  <2>1. /\ key' = key /\ rsp' = rsp /\ (slab' = slab \/ slab' = NotifyEveryone)
        /\ lock' \in {lock, Free, <<t, "fwd">>}
        /\ pc[t] \notin {"run", "body"}
        /\ \E s \in Stage : pc' = [pc EXCEPT ![t] = s] /\ (pc[t] \in Owning \cup Gone => s \in Owning \cup Gone)
    BY <1>2 DEF Acquire, StartCheck, NotAlive, AliveError, ConnectFail, WriteBegin, WriteParams,
                RejectHeader, WriteFail, Stage, Owning, Gone
  <2>2. OwnersKept
    BY <1>t, <2>1, NotifySlots DEF OwnersKept
  <2>3. ASSUME NEW u \in Req, lock' = <<u, "resp">>
        PROVE  lock = <<u, "resp">> /\ pc'[u] = pc[u] /\ rsp'[u] = rsp[u]
    <3>1. lock = <<u, "resp">>
      BY <1>f, <2>1, <2>3
    <3>2. pc[u] \in {"run", "body"}
      BY <3>1 DEF SeatInv, RespHolds, Reading
    <3>. QED  BY <1>t, <2>1, <3>1, <3>2
  <2>4. \A u \in Req : pc[u] \in Owning \cup Gone => pc'[u] \in Owning \cup Gone
    BY <1>t, <2>1
  <2>. QED  BY <1>t, <2>1, <2>2, <2>3, <2>4, KeepSeats DEF SeatKept
<1>3. CASE WriteStdin(t)
  <2>1. /\ key' = key /\ slab' = slab /\ lock' = Free /\ pc' = [pc EXCEPT ![t] = "run"]
    BY <1>3 DEF WriteStdin
  <2>2. OwnersKept
    BY <2>1 DEF OwnersKept
  <2>3. \A u \in Req : pc[u] \in Owning \cup Gone => pc'[u] \in Owning \cup Gone
    BY <1>t, <2>1 DEF Owning
  <2>. QED  BY <1>t, <1>f, <2>1, <2>2, <2>3, KeepSeats DEF SeatKept
<1>. QED  BY <1>1, <1>2, <1>3 DEF Forward

\* The other steps of a call end the reading themselves.
LEMMA SeatOther ==
    \A t \in Req : PermitInv /\ SeatInv /\ (SendBody(t) \/ Response(t) \/ GiveUp(t)) => SeatInv'
<1>. SUFFICES ASSUME NEW t \in Req, PermitInv, SeatInv, SendBody(t) \/ Response(t) \/ GiveUp(t)
              PROVE  SeatInv'
  OBVIOUS
<1>t. /\ TypeOK /\ pc \in [Req -> Stage] /\ key \in [Req -> Nat]
      /\ rsp \in [Req -> {"none", "header", "push", "done"}]
      /\ slab \in [DOMAIN slab -> Slot] /\ lock \in (Req \X Future) \cup {Free}
  BY DEF PermitInv, TypeOK
<1>f. \A u \in Req : Free # <<u, "resp">>
  BY FreeAssumption
<1>. USE DEF client, inner, wire, app, hist
<1>1. CASE BodyChunk(t) \/ BodyEnd(t) \/ SendLock(t) \/ WriteChunk(t) \/ WriteEnd(t)
  <2>1. UNCHANGED <<pc, key, rsp, slab>> /\ lock' \in {lock, Free, <<t, "send">>}
    BY <1>1 DEF BodyChunk, BodyEnd, SendLock, WriteChunk, WriteEnd
  <2>. QED  BY <1>t, <1>f, <2>1, KeepSeats DEF SeatKept, OwnersKept
<1>2. CASE WriteAbort(t) \/ SendFail(t) \/ DropBody(t)
  <2>1. /\ UNCHANGED <<key, rsp>> /\ DropFCGIBody(t)
        /\ \E s \in Gone : pc' = [pc EXCEPT ![t] = s]
    BY <1>2 DEF WriteAbort, SendFail, DropBody, Gone
  <2>2. OwnersKept
    BY <1>t, <2>1, DropType DEF OwnersKept
  <2>3. \A u \in Req : lock' = <<u, "resp">> => lock = <<u, "resp">> /\ u # t
    BY <1>f, <2>1 DEF DropFCGIBody, Future
  <2>4. \A u \in Req : pc[u] \in Owning \cup Gone => pc'[u] \in Owning \cup Gone
    BY <1>t, <2>1
  <2>. QED  BY <1>t, <2>1, <2>2, <2>3, <2>4, KeepSeats DEF SeatKept
<1>3. CASE StartResponse(t) \/ Respond(t)
  <2>1. /\ UNCHANGED <<key, slab, lock>> /\ pc[t] = "run" /\ rsp[t] # "header"
        /\ pc' \in {pc, [pc EXCEPT ![t] = "body"]}
        /\ rsp' \in {rsp, [rsp EXCEPT ![t] = "header"]}
    BY <1>3 DEF StartResponse, Respond
  <2>2. \A u \in Req : lock = <<u, "resp">> => u # t
    BY <2>1 DEF SeatInv, RespHolds, Reading
  <2>3. \A u \in Req : pc[u] \in Owning \cup Gone => pc'[u] \in Owning \cup Gone
    BY <1>t, <2>1 DEF Owning
  <2>4. \A u \in Req \ {t} : pc'[u] = pc[u] /\ rsp'[u] = rsp[u]
    BY <1>t, <2>1
  <2>. QED  BY <1>t, <2>1, <2>2, <2>3, <2>4, KeepSeats DEF SeatKept, OwnersKept
<1>4. CASE FrameLock(t)
  <2>1. UNCHANGED <<pc, key, rsp, slab>> /\ lock' = <<t, "resp">> /\ Reading(t)
    BY <1>4 DEF FrameLock
  <2>2. SlotOwned'
    BY <2>1 DEF SeatInv, SlotOwned
  <2>3. RespHolds'
    BY <2>1 DEF RespHolds, Reading
  <2>. QED  BY <2>2, <2>3 DEF SeatInv
<1>5. CASE FrameWait(t) \/ FrameEnd(t) \/ FrameData(t) \/ FrameHeader(t)
  <2>1. /\ key' = key /\ lock' = Free /\ pc[t] \in Owning
        /\ \/ slab' = slab /\ pc' = pc
           \/ slab' = Pop(key[t]) /\ slab[key[t]].buf # <<>> /\ pc' = pc
           \/ slab' = Remove(key[t]) /\ pc' = [pc EXCEPT ![t] = "done"]
    <3>1. pc[t] \in Owning
      BY <1>5 DEF FrameWait, FrameEnd, FrameData, FrameHeader, Polled, SeatInv, RespHolds, Reading,
                  Owning
    <3>. QED  BY <1>5, <3>1 DEF FrameWait, FrameEnd, FrameData, FrameHeader, Release, Slab
  <2>2. key[t] \in DOMAIN slab
    BY <2>1 DEF PermitInv, BodyHasSlot
  <2>3. OwnersKept
    <3>1. CASE slab' = slab
      BY <3>1 DEF OwnersKept
    <3>2. CASE slab' = Pop(key[t]) /\ slab[key[t]].buf # <<>>
      BY <1>t, <2>2, <3>2, PopSlots DEF SameSlots, OwnersKept
    <3>3. CASE slab' = Remove(key[t])
      BY <3>3 DEF Remove, OwnersKept
    <3>. QED  BY <2>1, <3>1, <3>2, <3>3
  <2>4. \A u \in Req : pc[u] \in Owning \cup Gone =>
           pc'[u] \in Owning \cup Gone \/ key[u] \notin DOMAIN slab'
    BY <1>t, <2>1 DEF Remove
  <2>. QED  BY <1>t, <1>f, <2>1, <2>3, <2>4, KeepSeats DEF SeatKept
<1>6. CASE PushRest(t)
  <2>1. UNCHANGED <<pc, key, lock>> /\ lock = Free
    BY <1>6 DEF PushRest
  <2>2. [req |-> t, n |-> first[t]] \in Chunk /\ key[t] \in DOMAIN slab
    BY <1>6, <1>t DEF PushRest, Chunk, TypeOK, PermitInv, BodyHasSlot, Owning
  <2>3. OwnersKept
    BY <1>6, <1>t, <2>2, PushSlots DEF PushRest, SameSlots, OwnersKept
  <2>. QED  BY <1>t, <1>f, <2>1, <2>3, KeepSeats DEF SeatKept
<1>7. CASE CancelForward(t)
  <2>1. /\ UNCHANGED <<key, rsp, slab>> /\ lock' \in {lock, Free}
        /\ pc[t] \notin {"run", "body"} /\ pc' = [pc EXCEPT ![t] = "dropped"]
    BY <1>7 DEF CancelForward
  <2>2. \A u \in Req : lock = <<u, "resp">> => u # t
    BY <2>1 DEF SeatInv, RespHolds, Reading
  <2>3. \A u \in Req : pc[u] \in Owning \cup Gone => pc'[u] \in Owning \cup Gone
    BY <1>t, <2>1 DEF Gone
  <2>4. \A u \in Req \ {t} : pc'[u] = pc[u]
    BY <1>t, <2>1
  <2>. QED  BY <1>t, <1>f, <2>1, <2>2, <2>3, <2>4, KeepSeats DEF SeatKept, OwnersKept
<1>. QED  BY <1>1, <1>2, <1>3, <1>4, <1>5, <1>6, <1>7 DEF SendBody, Response, GiveUp

\* There is no slot and no reader before the first call.
LEMMA SeatInit == Init => SeatInv
<1>. SUFFICES ASSUME Init PROVE SeatInv
  OBVIOUS
<1>1. DOMAIN slab = {}
  BY DEF Init
<1>. QED  BY <1>1, FreeAssumption DEF Init, SeatInv, SlotOwned, RespHolds

\* Every step keeps slots with their owners and readers reading.
LEMMA SeatNext == PermitInv /\ SeatInv /\ [Next]_vars => SeatInv'
<1>. SUFFICES ASSUME PermitInv, SeatInv, [Next]_vars PROVE SeatInv'
  OBVIOUS
<1>t. TypeOK
  BY DEF PermitInv
<1>1. CASE PollResp
  BY <1>1, SeatPollResp
<1>2. CASE Close \/ App \/ UNCHANGED vars
  <2>1. UNCHANGED <<pc, key, rsp, lock>> /\ (slab' = slab \/ slab' = NotifyEveryone)
    BY <1>2 DEF Close, App, AppRecv, AppTorn, AppClose, AppReset, AppStdout, AppNoise, AppEnd, vars,
                client, inner
  <2>2. OwnersKept
    BY <1>t, <2>1, NotifySlots DEF OwnersKept
  <2>. QED  BY <1>t, <2>1, <2>2, KeepSeats DEF SeatKept
<1>3. ASSUME NEW t \in Req, Forward(t) PROVE SeatInv'
  BY <1>3, SeatForward
<1>4. ASSUME NEW t \in Req, SendBody(t) \/ Response(t) \/ GiveUp(t) PROVE SeatInv'
  BY <1>4, SeatOther
<1>. QED  BY <1>1, <1>2, <1>3, <1>4 DEF Next

-----------------------------------------------------------------------------
(* How a step keeps the parts of the invariant *)

\* A call's chunks are sequences of chunks.
LEMMA ChunkTypes ==
    ASSUME PermitInv, NEW t \in Req
    PROVE  /\ got[t] \in Seq(Chunk) /\ first[t] \in Nat /\ sent[t] \in Nat /\ Len(got[t]) \in Nat
           /\ pc[t] \in Owning => /\ key[t] \in DOMAIN slab /\ slab[key[t]] \in Slot
                                  /\ slab[key[t]].owner = t /\ ~slab[key[t]].aborted
                                  /\ slab[key[t]].buf \in Seq(Chunk)
                                  /\ Len(slab[key[t]].buf) \in Nat
           /\ Count(t) \in Nat /\ Upto(t) \in Nat
<1>1. got[t] \in Seq(Chunk) /\ first[t] \in Nat /\ sent[t] \in Nat
  BY DEF PermitInv, TypeOK
<1>2. ASSUME pc[t] \in Owning
      PROVE  /\ key[t] \in DOMAIN slab /\ slab[key[t]] \in Slot /\ slab[key[t]].owner = t
             /\ ~slab[key[t]].aborted /\ slab[key[t]].buf \in Seq(Chunk)
  <2>1. key[t] \in DOMAIN slab /\ slab[key[t]].owner = t /\ slab[key[t]] \in Slot
    BY <1>2 DEF PermitInv, BodyHasSlot, TypeOK
  <2>2. ~slab[key[t]].aborted
    BY <1>2, <2>1 DEF PermitInv, AbortedGone, Owning, Gone
  <2>. QED  BY <2>1, <2>2 DEF Slot
<1>3. Live \subseteq Owning
  BY DEF Live, Owning
<1>4. Len(got[t]) \in Nat /\ (pc[t] \in Owning => Len(slab[key[t]].buf) \in Nat)
  BY <1>1, <1>2
<1>5. Count(t) \in Nat
  <2>1. pc[t] \in Live => pc[t] \in Owning
    BY <1>3
  <2>2. CASE pc[t] \in Live
    <3>. DEFINE a == Len(got[t])
                b == Len(slab[key[t]].buf)
    <3>1. a \in Nat /\ b \in Nat
      BY <1>4, <2>1, <2>2
    <3>2. Count(t) = a + b
      BY <2>2 DEF Count
    <3>. HIDE DEF a, b
    <3>. QED  BY <3>1, <3>2
  <2>3. CASE pc[t] \notin Live
    BY <1>4, <2>3 DEF Count
  <2>. QED  BY <2>2, <2>3
<1>6. Upto(t) \in Nat
  BY <1>1, <1>5 DEF Upto
<1>. QED  BY <1>1, <1>2, <1>4, <1>5, <1>6

\* What is in flight is of a call.
LEMMA FlightReq == TypeOK => \A y \in Flight : y.req \in Req
<1>. SUFFICES ASSUME TypeOK, NEW y \in Flight PROVE y.req \in Req
  OBVIOUS
<1>1. CASE y \in Queueing
  <2>1. PICK i \in DOMAIN outbuf : y = Tag(outbuf[i])
    BY <1>1 DEF Queueing
  <2>2. outbuf[i] \in OutRec
    BY DEF TypeOK
  <2>. QED  BY <2>1, <2>2 DEF Tag, OutRec
<1>2. CASE y \in Answering
  <2>1. PICK i \in DOMAIN inbuf : y = Tag(inbuf[i])
    BY <1>2 DEF Answering
  <2>2. inbuf[i] \in InRec
    BY DEF TypeOK
  <2>. QED  BY <2>1, <2>2 DEF Tag, InRec
<1>3. CASE y \in active
  BY <1>3 DEF TypeOK
<1>. QED  BY <1>1, <1>2, <1>3 DEF Flight

\* A call whose chunks, under way and received, a step leaves alone.
Kept(u) ==
    /\ Staged(u)'
    /\ pc'[u] \in Live \cup {"done"} => Shaped(u)' /\ Upto(u)' = Upto(u) /\ pc[u] \in Live \cup {"done"}
    /\ pc'[u] \in Live => pc[u] \in Live

\* Losing what is under way, or nothing.
WireKept == /\ sent' = sent /\ fin' = fin /\ active' \subseteq active
            /\ inbuf' = inbuf \/ (inbuf' = <<>> /\ active' = {})

\* What was pending still is, or the connection is gone with it.
LEMMA KeepPending ==
    ASSUME NEW u \in Req, Pending(u), Upto(u)' = Upto(u), WireKept
    PROVE  Pending(u)'
<1>1. CASE inbuf' = inbuf
  BY <1>1 DEF WireKept, Pending, Out, Has
<1>2. CASE inbuf' = <<>> /\ active' = {}
  <2>1. DOMAIN inbuf' = {}
    BY <1>2
  <2>. QED  BY <1>2, <2>1 DEF WireKept, Pending
<1>. QED  BY <1>1, <1>2 DEF WireKept

\* Nobody in flight becomes new, changes its id or ends.
LEMMA KeepFlight ==
    ASSUME DeliveryInv, Flight' \subseteq Flight, Queueing' \subseteq Queueing, sent' = sent, fin' = fin,
           \A y \in Flight : pc[y.req] \notin Before =>
               pc'[y.req] \notin Before /\ key'[y.req] = key[y.req]
    PROVE  FlightOfCall' /\ QueuedSilent'
  BY DEF DeliveryInv, FlightOfCall, QueuedSilent

\* A step that keeps every call but one, which is in order by itself.
LEMMA KeepDelivery ==
    ASSUME DeliveryInv, FlightOfCall', QueuedSilent', WireKept,
           \A u \in Req : Kept(u) \/ CallInv(u)'
    PROVE  DeliveryInv'
<1>. SUFFICES ASSUME NEW u \in Req, Kept(u) PROVE CallInv(u)'
  BY DEF DeliveryInv
<1>1. CallInv(u)
  BY DEF DeliveryInv
<1>2. pc'[u] \in Live => Pending(u)'
  BY <1>1, KeepPending DEF CallInv, Kept
<1>. QED  BY <1>1, <1>2 DEF CallInv, Kept, WireKept

\* The steps of a call that concern neither its chunks nor the start of its
\* request.
PcStep(u) ==
    \/ pc'[u] = pc[u]
    \/ pc[u] \in Before /\ pc'[u] \in Before \ {"begin"}
    \/ pc[u] \in {"params", "stdin"} /\ pc'[u] \in {"stdin", "run"}
    \/ pc[u] = "run" /\ pc'[u] = "body" /\ rsp[u] = "done"

\* The chunks of a call are where they were.
SameView(u) ==
    /\ rsp'[u] = rsp[u] /\ first'[u] = first[u] /\ got'[u] = got[u] /\ key'[u] = key[u]
    /\ pc[u] \in Owning => slab'[key[u]].buf = slab[key[u]].buf

\* A call in its place keeps its chunks; one that is over has none to keep.
LEMMA KeepCall ==
    ASSUME PermitInv, NEW u \in Req, CallInv(u),
           pc'[u] \in Before => sent'[u] = sent[u] /\ (u \in fin' => u \in fin),
           pc'[u] \in Gone \/ (PcStep(u) /\ SameView(u))
    PROVE  Kept(u)
<1>1. CASE pc'[u] \in Gone
  BY <1>1 DEF Gone, Kept, Staged, Live, Before
<1>2. CASE PcStep(u) /\ SameView(u)
  <2>1. Staged(u)'
    BY <1>2 DEF PcStep, SameView, CallInv, Staged, Before, Owning, Gone
  <2>2. /\ pc'[u] \in Live => pc[u] \in Live
        /\ pc'[u] \in Live \cup {"done"} => pc[u] \in Live \cup {"done"}
        /\ pc[u] \in Live => pc'[u] \in Live
    BY <1>2 DEF PcStep, Live, Before
  <2>3. Count(u)' = Count(u)
    BY <1>2, <2>2 DEF Count, SameView, Live, Owning
  <2>4. Upto(u)' = Upto(u)
    BY <1>2, <2>3 DEF Upto, SameView
  <2>5. ASSUME NEW i \in 1 .. Count(u) PROVE Num(u, i)' = Num(u, i)
    <3>1. CASE pc[u] \in Live
      BY <1>2, <3>1 DEF Num, SameView, Live, Owning
    <3>2. CASE pc[u] \notin Live
      <4>1. i <= Len(got[u])
        BY <3>2, ChunkTypes DEF Count
      <4>. QED  BY <1>2, <4>1 DEF Num, SameView
    <3>. QED  BY <3>1, <3>2
  <2>6. \A p : Shape(u, p)' <=> Shape(u, p)
    BY <1>2, <2>3, <2>5 DEF Shape, SameView
  <2>7. Shaped(u) => Shaped(u)'
    BY <1>2, <2>3, <2>6 DEF Shaped, SameView
  <2>. QED  BY <2>1, <2>2, <2>4, <2>7 DEF Kept, CallInv
<1>. QED  BY <1>1, <1>2

-----------------------------------------------------------------------------
(* Chunks that move *)

\* What parse_and_distribute appends to the slot of a call, and what
\* create_response gives back, is its last chunk.
LEMMA ChunkAdded ==
    ASSUME PermitInv, NEW t \in Req, pc[t] \in Live, NEW c \in Chunk,
           slab' = Push(key[t], c), UNCHANGED <<pc, key, got>>, NEW k, k = Count(t)
    PROVE  /\ Count(t)' = k + 1 /\ Num(t, k + 1)' = c.n
           /\ \A i \in 1 .. k : Num(t, i)' = Num(t, i)
<1>. DEFINE g == got[t]
            b == slab[key[t]].buf
            d == slab'[key[t]].buf
<1>1. pc[t] \in Owning
  BY DEF Live, Owning
<1>2. g \in Seq(Chunk) /\ b \in Seq(Chunk) /\ Len(g) \in Nat /\ Len(b) \in Nat
  BY <1>1, ChunkTypes
<1>3. d = Append(b, c)
  BY <1>1, ChunkTypes, PushSlots DEF PermitInv, TypeOK
<1>4. Len(d) = Len(b) + 1 /\ d[Len(b) + 1] = c /\ \A i \in 1 .. Len(b) : d[i] = b[i]
  BY <1>2, <1>3
<1>5. Count(t) = Len(g) + Len(b) /\ Count(t)' = Len(g) + Len(d)
  BY DEF Count
<1>6. ASSUME NEW i
      PROVE  /\ Num(t, i) = IF i <= Len(g) THEN g[i].n ELSE b[i - Len(g)].n
             /\ Num(t, i)' = IF i <= Len(g) THEN g[i].n ELSE d[i - Len(g)].n
  BY DEF Num
<1>. DEFINE m == Len(g)
            n == Len(b)
<1>7. m \in Nat /\ n \in Nat /\ k = m + n /\ Count(t)' = m + (n + 1)
  BY <1>2, <1>4, <1>5
<1>8. /\ d[n + 1] = c /\ \A i \in 1 .. n : d[i] = b[i]
      /\ \A i : /\ Num(t, i) = IF i <= m THEN g[i].n ELSE b[i - m].n
                /\ Num(t, i)' = IF i <= m THEN g[i].n ELSE d[i - m].n
  BY <1>4, <1>6
<1>. HIDE DEF m, n, g, b, d
<1>9. Count(t)' = k + 1
  BY <1>7
<1>10. Num(t, k + 1)' = c.n
  <2>1. (k + 1) - m = n + 1 /\ ~(k + 1 <= m)
    BY <1>7
  <2>. QED  BY <1>8, <2>1
<1>11. ASSUME NEW i \in 1 .. k PROVE Num(t, i)' = Num(t, i)
  <2>1. CASE i <= m
    BY <1>8, <2>1
  <2>2. CASE ~(i <= m)
    <3>1. i - m \in 1 .. n
      BY <1>7, <2>2
    <3>. QED  BY <1>8, <2>2, <3>1
  <2>. QED  BY <2>1, <2>2
<1>. QED  BY <1>9, <1>10, <1>11

\* Output in sequence leaves no gap, wherever the rest of the header chunk is.
LEMMA OutputShaped ==
    ASSUME PermitInv, NEW t \in Req, pc[t] \in Live, NEW c \in Chunk, c.n = Upto(t), Shaped(t),
           slab' = Push(key[t], c), UNCHANGED <<pc, key, got, rsp, first>>
    PROVE  Shaped(t)' /\ Upto(t)' = Upto(t) + 1
<1>0. PICK n, f : n = Count(t) /\ f = first[t]
  OBVIOUS
<1>1. n \in Nat /\ f \in Nat /\ Upto(t) = f + n + (IF rsp[t] = "push" THEN 1 ELSE 0)
  BY <1>0, ChunkTypes DEF Upto
<1>2. /\ Count(t)' = n + 1 /\ Num(t, n + 1)' = Upto(t)
      /\ \A i \in 1 .. n : Num(t, i)' = Num(t, i)
  BY <1>0, ChunkAdded
<1>3. Upto(t)' = f + (n + 1) + (IF rsp[t] = "push" THEN 1 ELSE 0)
  BY <1>0, <1>2 DEF Upto
<1>4. \A p : /\ Shape(t, p) <=> \A i \in 1 .. n :
                  Num(t, i) = IF i < p THEN f + i ELSE IF i = p THEN f ELSE f + i - 1
             /\ Shape(t, p)' <=> \A i \in 1 .. (n + 1) :
                  Num(t, i)' = IF i < p THEN f + i ELSE IF i = p THEN f ELSE f + i - 1
  BY <1>0, <1>2 DEF Shape
<1>5. Upto(t)' = Upto(t) + 1
  BY <1>1, <1>3
<1>6. \A i \in 1 .. (n + 1) : i \in 1 .. n \/ i = n + 1
  BY <1>1
<1>7. CASE rsp[t] \in {"none", "header"}
  <2>1. Upto(t) = f + n /\ Shape(t, 1)
    BY <1>1, <1>7 DEF Shaped
  <2>2. Shape(t, 1)'
    BY <1>1, <1>2, <1>4, <1>6, <2>1
  <2>. QED  BY <1>5, <1>7, <2>2 DEF Shaped
<1>8. CASE rsp[t] = "push"
  <2>1. Upto(t) = f + n + 1 /\ Shape(t, n + 1)
    BY <1>0, <1>1, <1>8 DEF Shaped
  <2>2. Shape(t, n + 2)'
    BY <1>1, <1>2, <1>4, <1>6, <2>1
  <2>3. (n + 1) + 1 = n + 2
    BY <1>1
  <2>4. Shape(t, Count(t) + 1)'
    BY <1>2, <2>2, <2>3
  <2>. QED  BY <1>5, <1>8, <2>4 DEF Shaped
<1>9. CASE rsp[t] = "done"
  <2>1. Upto(t) = f + n
    BY <1>1, <1>9
  <2>2. PICK p \in 1 .. (n + 1) : Shape(t, p) /\ (p <= n \/ p = 1)
    BY <1>0, <1>9 DEF Shaped
  <2>3. Shape(t, p)'
    BY <1>1, <1>2, <1>4, <1>6, <2>1, <2>2
  <2>4. p \in 1 .. ((n + 1) + 1) /\ (p <= n + 1 \/ p = 1)
    BY <1>1, <2>2
  <2>. QED  BY <1>2, <1>5, <1>9, <2>3, <2>4 DEF Shaped
<1>10. rsp[t] \in {"none", "header", "push", "done"}
  BY DEF PermitInv, TypeOK
<1>. QED  BY <1>7, <1>8, <1>9, <1>10

\* The rest of the header chunk goes behind what arrived in the meantime.
LEMMA RestShaped ==
    ASSUME PermitInv, NEW t \in Req, PushRest(t), Shaped(t)
    PROVE  Shaped(t)' /\ Upto(t)' = Upto(t)
<1>0. PICK n, f : n = Count(t) /\ f = first[t]
  OBVIOUS
<1>. DEFINE c == [req |-> t, n |-> f]
<1>1. /\ pc[t] \in Live /\ rsp[t] = "push" /\ rsp'[t] = "done" /\ first' = first
      /\ slab' = Push(key[t], c) /\ UNCHANGED <<pc, key, got>>
  BY <1>0 DEF PushRest, hist, Live, PermitInv, TypeOK
<1>2. n \in Nat /\ f \in Nat /\ c \in Chunk /\ c.n = f
  BY <1>0, ChunkTypes DEF Chunk
<1>3. /\ Count(t)' = n + 1 /\ Num(t, n + 1)' = f
      /\ \A i \in 1 .. n : Num(t, i)' = Num(t, i)
  BY <1>0, <1>1, <1>2, ChunkAdded
<1>4. Shape(t, n + 1)
  BY <1>0, <1>1 DEF Shaped
<1>5. \A p : /\ Shape(t, p) <=> \A i \in 1 .. n :
                  Num(t, i) = IF i < p THEN f + i ELSE IF i = p THEN f ELSE f + i - 1
             /\ Shape(t, p)' <=> \A i \in 1 .. (n + 1) :
                  Num(t, i)' = IF i < p THEN f + i ELSE IF i = p THEN f ELSE f + i - 1
  BY <1>0, <1>1, <1>3 DEF Shape
<1>6. Upto(t) = f + n + 1 /\ Upto(t)' = f + (n + 1) + 0
  BY <1>0, <1>1, <1>3 DEF Upto
<1>. HIDE DEF c
<1>7. Shape(t, n + 1)'
  <2>1. \A i \in 1 .. (n + 1) : i \in 1 .. n \/ i = n + 1
    BY <1>2
  <2>. QED  BY <1>2, <1>3, <1>4, <1>5, <2>1
<1>8. n + 1 \in 1 .. ((n + 1) + 1) /\ n + 1 <= n + 1
  BY <1>2
<1>9. Shaped(t)'
  BY <1>1, <1>3, <1>7, <1>8 DEF Shaped
<1>. QED  BY <1>2, <1>6, <1>9

\* create_response takes the first chunk for the header; its rest, if any, counts
\* until it is given back.
LEMMA HeaderShaped ==
    ASSUME PermitInv, NEW t \in Req, FrameHeader(t), CallInv(t), rsp[t] = "header"
    PROVE  Shaped(t)' /\ Upto(t)' = Upto(t) /\ first'[t] >= first[t]
<1>0. PICK f, b : f = first[t] /\ b = slab[key[t]].buf
  OBVIOUS
<1>1. /\ pc[t] = "run" /\ got[t] = <<>> /\ b # <<>> /\ slab' = Pop(key[t])
      /\ UNCHANGED <<pc, key, got>>
  BY <1>0 DEF FrameHeader, Slab, CallInv, Staged
<1>2. f \in Nat /\ b \in Seq(Chunk) /\ key[t] \in DOMAIN slab /\ slab \in [DOMAIN slab -> Slot]
  BY <1>0, <1>1, ChunkTypes DEF Owning, PermitInv, TypeOK
<1>3. slab'[key[t]].buf = Tail(b)
  BY <1>0, <1>1, <1>2, PopSlots
<1>4. PICK n \in Nat : /\ Len(b) = n + 1 /\ Len(Tail(b)) = n /\ Head(b) = b[1]
                       /\ \A i \in 1 .. n : Tail(b)[i] = b[i + 1]
  <2>1. /\ Len(b) \in Nat \ {0} /\ Len(Tail(b)) = Len(b) - 1 /\ Head(b) = b[1]
        /\ \A i \in 1 .. (Len(b) - 1) : Tail(b)[i] = b[i + 1]
    BY <1>1, <1>2
  <2>2. Len(b) - 1 \in Nat /\ Len(b) = (Len(b) - 1) + 1
    BY <2>1
  <2>. QED  BY <2>1, <2>2
<1>5. Len(got[t]) = 0
  BY <1>1
<1>6. Count(t) = n + 1 /\ Count(t)' = n
  <2>1. Count(t) = 0 + Len(b) /\ Count(t)' = 0 + Len(Tail(b))
    BY <1>0, <1>1, <1>3, <1>5 DEF Count, Live
  <2>. QED  BY <1>4, <2>1
<1>7. /\ \A i \in 1 .. (n + 1) : Num(t, i) = b[i].n
      /\ \A i \in 1 .. n : Num(t, i)' = b[i + 1].n
  <2>1. \A i \in 1 .. (n + 1) : ~(i <= 0) /\ i - 0 = i
    BY <1>4
  <2>2. \A i \in 1 .. (n + 1) : Num(t, i) = b[i].n
    BY <1>0, <1>5, <2>1 DEF Num
  <2>3. \A i \in 1 .. n : Num(t, i)' = Tail(b)[i].n
    <3>1. \A i \in 1 .. n : ~(i <= 0) /\ i - 0 = i
      BY <1>4
    <3>. QED  BY <1>1, <1>3, <1>5, <3>1 DEF Num
  <2>. QED  BY <1>4, <2>2, <2>3
<1>8. \A i \in 1 .. (n + 1) : b[i].n = f + i - 1
  <2>1. Shape(t, 1)
    BY <1>1 DEF CallInv, Shaped, Live
  <2>2. \A i \in 1 .. (n + 1) :
           b[i].n = IF i < 1 THEN f + i ELSE IF i = 1 THEN f ELSE f + i - 1
    BY <1>0, <1>6, <1>7, <2>1 DEF Shape
  <2>. QED  BY <1>2, <1>4, <2>2
<1>9. Head(b).n = f /\ \A i \in 1 .. n : Num(t, i)' = f + i
  <2>1. 1 \in 1 .. (n + 1) /\ f + 1 - 1 = f
    BY <1>2, <1>4
  <2>2. \A i \in 1 .. n : i + 1 \in 1 .. (n + 1) /\ f + (i + 1) - 1 = f + i
    BY <1>2, <1>4
  <2>. QED  BY <1>4, <1>7, <1>8, <2>1, <2>2
<1>10. Upto(t) = f + (n + 1) + 0
  BY <1>0, <1>6 DEF Upto
<1>11. PICK to \in ParseResult : rsp' = [rsp EXCEPT ![t] = to]
          /\ first' = [first EXCEPT ![t] = Head(b).n + (IF to = "push" THEN 0 ELSE 1)]
  BY <1>0 DEF FrameHeader, Slab
<1>12. rsp'[t] = to /\ first'[t] = f + (IF to = "push" THEN 0 ELSE 1)
  BY <1>9, <1>11 DEF PermitInv, TypeOK
<1>13. CASE to = "push"
  <2>1. first'[t] = f
    BY <1>2, <1>12, <1>13
  <2>2. Upto(t)' = f + n + 1
    BY <1>6, <1>12, <1>13, <2>1 DEF Upto
  <2>3. Shape(t, Count(t) + 1)'
    <3>1. \A i \in 1 .. n : i < n + 1
      BY <1>4
    <3>. QED  BY <1>6, <1>9, <2>1, <3>1 DEF Shape
  <2>4. Shaped(t)'
    BY <1>12, <1>13, <2>3 DEF Shaped
  <2>. QED  BY <1>0, <1>2, <1>4, <1>10, <2>1, <2>2, <2>4
<1>14. CASE to # "push"
  <2>1. first'[t] = f + 1
    BY <1>2, <1>12, <1>14
  <2>2. Upto(t)' = (f + 1) + n + 0
    BY <1>6, <1>12, <1>14, <2>1 DEF Upto
  <2>3. Shape(t, 1)'
    <3>1. \A i \in 1 .. n : ~(i < 1) /\ (i = 1 => f + i = f + 1) /\ f + i = (f + 1) + i - 1
      BY <1>2, <1>4
    <3>. QED  BY <1>6, <1>9, <2>1, <3>1 DEF Shape
  <2>4. 1 \in 1 .. (n + 1)
    BY <1>4
  <2>5. Shaped(t)'
    BY <1>6, <1>11, <1>12, <1>14, <2>3, <2>4 DEF Shaped, ParseResult
  <2>. QED  BY <1>0, <1>2, <1>4, <1>10, <2>1, <2>2, <2>5
<1>. QED  BY <1>13, <1>14

\* A chunk that goes to the caller leaves its place among the chunks.
LEMMA DataShaped ==
    ASSUME PermitInv, NEW t \in Req, FrameData(t), CallInv(t)
    PROVE  Shaped(t)' /\ Upto(t)' = Upto(t)
<1>0. PICK g, b : g = got[t] /\ b = slab[key[t]].buf
  OBVIOUS
<1>1. /\ pc[t] = "body" /\ b # <<>> /\ UNCHANGED <<key, rsp, first>>
      /\ got' = [got EXCEPT ![t] = Append(@, Head(b))]
      /\ \/ slab' = Pop(key[t]) /\ pc' = pc
         \/ pc' = [pc EXCEPT ![t] = "done"] /\ Len(b) = 1
  BY <1>0 DEF FrameData, Slab, LastChunk
<1>2. /\ g \in Seq(Chunk) /\ b \in Seq(Chunk) /\ key[t] \in DOMAIN slab
      /\ slab \in [DOMAIN slab -> Slot] /\ pc \in [Req -> Stage] /\ got \in [Req -> Seq(Chunk)]
  BY <1>0, <1>1, ChunkTypes DEF Owning, PermitInv, TypeOK
<1>3. got'[t] = Append(g, Head(b))
  BY <1>0, <1>1, <1>2
<1>4. PICK m \in Nat, n \in Nat :
         /\ Len(g) = m /\ Len(b) = n + 1 /\ Len(got'[t]) = m + 1 /\ Len(Tail(b)) = n
         /\ \A i \in 1 .. m : got'[t][i] = g[i]
         /\ got'[t][m + 1] = b[1]
         /\ \A i \in 1 .. n : Tail(b)[i] = b[i + 1]
  <2>1. /\ Len(g) \in Nat /\ Len(b) \in Nat \ {0} /\ Len(got'[t]) = Len(g) + 1
        /\ Len(Tail(b)) = Len(b) - 1 /\ \A i \in 1 .. Len(g) : got'[t][i] = g[i]
        /\ got'[t][Len(g) + 1] = b[1]
        /\ \A i \in 1 .. (Len(b) - 1) : Tail(b)[i] = b[i + 1]
    BY <1>1, <1>2, <1>3
  <2>2. Len(b) - 1 \in Nat /\ Len(b) = (Len(b) - 1) + 1
    BY <2>1
  <2>. QED  BY <2>1, <2>2
<1>5. Count(t) = m + (n + 1) /\ \A i : Num(t, i) = IF i <= m THEN g[i].n ELSE b[i - m].n
  BY <1>0, <1>1, <1>4 DEF Count, Num, Live
<1>6. /\ Count(t)' = m + (n + 1)
      /\ \A i \in 1 .. (m + (n + 1)) : Num(t, i)' = IF i <= m THEN g[i].n ELSE b[i - m].n
  <2>1. CASE pc' = pc /\ slab' = Pop(key[t])
    <3>1. slab'[key[t]].buf = Tail(b)
      BY <1>0, <1>1, <1>2, <2>1, PopSlots
    <3>2. Count(t)' = (m + 1) + n
      BY <1>1, <1>4, <2>1, <3>1 DEF Count, Live
    <3>3. \A i : Num(t, i)' = IF i <= m + 1 THEN got'[t][i].n ELSE Tail(b)[i - (m + 1)].n
      <4>1. Len(got'[t]) = m + 1 /\ key'[t] = key[t]
        BY <1>1, <1>4
      <4>. QED  BY <3>1, <4>1 DEF Num
    <3>4. ASSUME NEW i \in 1 .. (m + (n + 1))
          PROVE  Num(t, i)' = IF i <= m THEN g[i].n ELSE b[i - m].n
      <4>1. CASE i <= m
        <5>1. i <= m + 1 /\ i \in 1 .. m
          BY <1>4, <4>1
        <5>. QED  BY <1>4, <3>3, <4>1, <5>1
      <4>2. CASE i = m + 1
        <5>1. i <= m + 1 /\ ~(i <= m) /\ i - m = 1
          BY <1>4, <4>2
        <5>. QED  BY <1>4, <3>3, <4>2, <5>1
      <4>3. CASE i > m + 1
        <5>1. ~(i <= m + 1) /\ ~(i <= m) /\ i - (m + 1) \in 1 .. n /\ (i - (m + 1)) + 1 = i - m
          BY <1>4, <4>3
        <5>. QED  BY <1>4, <3>3, <5>1
      <4>. QED  BY <1>4, <4>1, <4>2, <4>3
    <3>5. Count(t)' = m + (n + 1)
      BY <1>4, <3>2
    <3>. QED  BY <3>4, <3>5
  <2>2. CASE pc' = [pc EXCEPT ![t] = "done"] /\ Len(b) = 1
    <3>1. n = 0 /\ pc'[t] = "done"
      <4>1. n + 1 = 1
        BY <1>4, <2>2
      <4>2. n = 0
        BY <1>4, <4>1
      <4>. QED  BY <1>2, <2>2, <4>2
    <3>2. Count(t)' = (m + 1) + 0
      BY <1>4, <3>1 DEF Count, Live
    <3>3. \A i : i <= m + 1 => Num(t, i)' = got'[t][i].n
      BY <1>4 DEF Num
    <3>4. ASSUME NEW i \in 1 .. (m + (n + 1))
          PROVE  Num(t, i)' = IF i <= m THEN g[i].n ELSE b[i - m].n
      <4>1. CASE i <= m
        <5>1. i <= m + 1 /\ i \in 1 .. m
          BY <1>4, <4>1
        <5>. QED  BY <1>4, <3>3, <4>1, <5>1
      <4>2. CASE ~(i <= m)
        <5>1. i = m + 1 /\ i <= m + 1 /\ i - m = 1
          BY <1>4, <3>1, <4>2
        <5>. QED  BY <1>4, <3>3, <4>2, <5>1
      <4>. QED  BY <4>1, <4>2
    <3>5. Count(t)' = m + (n + 1)
      BY <1>4, <3>1, <3>2
    <3>. QED  BY <3>4, <3>5
  <2>. QED  BY <1>1, <2>1, <2>2
<1>7. Count(t)' = Count(t) /\ \A i \in 1 .. Count(t) : Num(t, i)' = Num(t, i)
  BY <1>5, <1>6
<1>8. \A p : Shape(t, p)' <=> Shape(t, p)
  BY <1>1, <1>7 DEF Shape
<1>9. Upto(t)' = Upto(t)
  BY <1>1, <1>7 DEF Upto
<1>10. Shaped(t)'
  BY <1>1, <1>7, <1>8 DEF Shaped, CallInv, Live
<1>. QED  BY <1>9, <1>10

-----------------------------------------------------------------------------
(* Records that are consumed and sent *)

\* The first record of the BufReader: output is the next chunk of its call, and
\* EndRequest comes when nothing is left.
LEMMA FirstRecord ==
    ASSUME PermitInv, NEW t \in Req, Pending(t), 1 \in DOMAIN inbuf
    PROVE  /\ Out(t, 1) => inbuf[1].n = Upto(t)
           /\ inbuf[1].type = "end" /\ inbuf[1].req = t => Upto(t) = sent[t] + 1
<1>1. \A m : ~Has(t, m, 1)
  <2>1. \A j \in DOMAIN inbuf : j \in Nat /\ j >= 1
    BY DEF PermitInv, TypeOK
  <2>. QED  BY <2>1 DEF Has
<1>2. PICK u, s : u = Upto(t) /\ s = sent[t] /\ u \in Nat /\ s \in Nat /\ u <= s + 1
  BY ChunkTypes DEF Pending
<1>3. ASSUME Out(t, 1) PROVE inbuf[1].n = u
  <2>1. inbuf[1].n \in u .. s /\ \A m \in u .. (inbuf[1].n - 1) : Has(t, m, 1)
    BY <1>2, <1>3 DEF Pending
  <2>2. u \notin u .. (inbuf[1].n - 1)
    BY <1>1, <2>1
  <2>. QED  BY <1>2, <2>1, <2>2
<1>4. ASSUME inbuf[1].type = "end", inbuf[1].req = t PROVE u = s + 1
  <2>1. \A m \in u .. s : Has(t, m, 1)
    BY <1>2, <1>4 DEF Pending
  <2>2. u \notin u .. s
    BY <1>1, <2>1
  <2>. QED  BY <1>2, <2>2
<1>. QED  BY <1>2, <1>3, <1>4

\* Consuming the next chunk of a call, or something that is not for it.
LEMMA ConsumePending ==
    ASSUME PermitInv, NEW t \in Req, Pending(t), inbuf # <<>>, inbuf' = Tail(inbuf),
           UNCHANGED <<active, sent>>,
           \/ Out(t, 1) /\ Upto(t)' = Upto(t) + 1
           \/ ~Out(t, 1) /\ Upto(t)' = Upto(t)
    PROVE  Pending(t)'
<1>1. /\ 1 \in DOMAIN inbuf
      /\ \A i \in DOMAIN Tail(inbuf) :
            i + 1 \in DOMAIN inbuf /\ Tail(inbuf)[i] = inbuf[i + 1] /\ i + 1 > 1
  BY WithinTail DEF PermitInv, TypeOK
<1>2. /\ Len(inbuf) \in Nat /\ DOMAIN inbuf = 1 .. Len(inbuf)
      /\ DOMAIN inbuf' = 1 .. (Len(inbuf) - 1) /\ Len(inbuf') = Len(inbuf) - 1
  BY DEF PermitInv, TypeOK
<1>3. PICK u, v, s, n :
         /\ u = Upto(t) /\ s = sent[t] /\ u \in Nat /\ s \in Nat /\ u <= s + 1 /\ n = Len(inbuf)
         /\ v = Upto(t)' /\ v \in {u, u + 1}
         /\ Out(t, 1) => v = u + 1 /\ inbuf[1].n = u
         /\ ~Out(t, 1) => v = u
  BY <1>1, ChunkTypes, FirstRecord DEF Pending
<1>4. \A i \in DOMAIN inbuf' : Out(t, i)' <=> Out(t, i + 1)
  BY <1>1 DEF Out
<1>5. ASSUME NEW m \in Int, m >= v, NEW i \in Int, Has(t, m, i + 1) PROVE Has(t, m, i)'
  <2>1. PICK j \in DOMAIN inbuf : j < i + 1 /\ Out(t, j) /\ inbuf[j].n = m
    BY <1>5 DEF Has
  <2>2. j # 1
    <3>1. u < v => m # u
      BY <1>3, <1>5
    <3>. QED  BY <1>3, <2>1, <3>1
  <2>3. j - 1 \in DOMAIN inbuf' /\ (j - 1) + 1 = j /\ j - 1 < i
    BY <1>2, <2>1, <2>2
  <2>4. inbuf'[j - 1] = inbuf[j]
    BY <1>1, <2>3
  <2>. QED  BY <2>1, <2>3, <2>4 DEF Has, Out
<1>6. v <= s + 1
  <2>1. CASE Out(t, 1)
    <3>1. u \in u .. s
      BY <1>1, <1>3, <2>1 DEF Pending
    <3>. QED  BY <1>3, <2>1, <3>1
  <2>2. CASE ~Out(t, 1)
    BY <1>3, <2>2
  <2>. QED  BY <2>1, <2>2
<1>7. ASSUME NEW i \in DOMAIN inbuf', Out(t, i)'
      PROVE  /\ inbuf'[i].n \in v .. s
             /\ \A m \in v .. (inbuf'[i].n - 1) : Has(t, m, i)'
             /\ \A j \in DOMAIN inbuf' : j < i /\ Out(t, j)' => inbuf'[j].n < inbuf'[i].n
  <2>1. /\ i + 1 \in DOMAIN inbuf /\ Out(t, i + 1) /\ inbuf'[i] = inbuf[i + 1] /\ 1 < i + 1
        /\ i \in Int
    BY <1>1, <1>2, <1>4, <1>7
  <2>2. /\ inbuf[i + 1].n \in u .. s
        /\ \A m \in u .. (inbuf[i + 1].n - 1) : Has(t, m, i + 1)
        /\ \A j \in DOMAIN inbuf : j < i + 1 /\ Out(t, j) => inbuf[j].n < inbuf[i + 1].n
    BY <1>3, <2>1 DEF Pending
  <2>3. inbuf'[i].n \in v .. s
    <3>1. Out(t, 1) => u < inbuf[i + 1].n
      BY <1>1, <1>3, <2>1, <2>2
    <3>. QED  BY <1>3, <2>1, <2>2, <3>1
  <2>4. ASSUME NEW m \in v .. (inbuf'[i].n - 1) PROVE Has(t, m, i)'
    <3>1. m \in u .. (inbuf[i + 1].n - 1) /\ m >= v /\ m \in Int
      BY <1>3, <2>1, <2>2
    <3>. QED  BY <1>5, <2>1, <2>2, <3>1
  <2>5. ASSUME NEW j \in DOMAIN inbuf', j < i, Out(t, j)' PROVE inbuf'[j].n < inbuf'[i].n
    <3>1. j + 1 \in DOMAIN inbuf /\ j + 1 < i + 1 /\ Out(t, j + 1) /\ inbuf'[j] = inbuf[j + 1]
      BY <1>1, <1>2, <1>4, <2>5
    <3>. QED  BY <2>1, <2>2, <3>1
  <2>. QED  BY <2>3, <2>4, <2>5
<1>8. ASSUME NEW i \in DOMAIN inbuf', inbuf'[i].type = "end", inbuf'[i].req = t,
             NEW m \in v .. s
      PROVE  Has(t, m, i)'
  <2>1. i + 1 \in DOMAIN inbuf /\ inbuf'[i] = inbuf[i + 1] /\ i \in Int
    BY <1>1, <1>2
  <2>2. m \in u .. s /\ m \in Int /\ m >= v
    BY <1>3
  <2>3. Has(t, m, i + 1)
    BY <1>3, <1>8, <2>1, <2>2 DEF Pending
  <2>. QED  BY <1>5, <2>1, <2>2, <2>3
<1>9. ASSUME NEW x \in active, x.req = t, NEW m \in v .. s PROVE Has(t, m, Len(inbuf) + 1)'
  <2>1. m \in u .. s /\ m \in Int /\ m >= v
    BY <1>3
  <2>2. Has(t, m, n + 1)
    BY <1>3, <1>9, <2>1 DEF Pending
  <2>3. n \in Int
    BY <1>2, <1>3
  <2>4. Has(t, m, n)'
    BY <1>5, <2>1, <2>2, <2>3
  <2>5. Len(inbuf') + 1 = n
    BY <1>2, <1>3
  <2>. QED  BY <2>4, <2>5 DEF Has
<1>10. /\ Upto(t)' <= sent'[t] + 1
       /\ \A i \in DOMAIN inbuf' : Out(t, i)' =>
             /\ inbuf'[i].n \in Upto(t)' .. sent'[t]
             /\ \A m \in Upto(t)' .. (inbuf'[i].n - 1) : Has(t, m, i)'
             /\ \A j \in DOMAIN inbuf' : j < i /\ Out(t, j)' => inbuf'[j].n < inbuf'[i].n
  BY <1>3, <1>6, <1>7
<1>11. \A i \in DOMAIN inbuf' : inbuf'[i].type = "end" /\ inbuf'[i].req = t =>
          \A m \in Upto(t)' .. sent'[t] : Has(t, m, i)'
  BY <1>3, <1>8
<1>12. (\E x \in active' : x.req = t) =>
          \A m \in Upto(t)' .. sent'[t] : Has(t, m, Len(inbuf) + 1)'
  BY <1>3, <1>9
<1>. QED  BY <1>10, <1>11, <1>12 DEF Pending

\* The application sends the next chunk of a request it works on, ends it, or
\* sends something that is not for the call.
LEMMA SendPending ==
    ASSUME PermitInv, NEW t \in Req, Pending(t), NEW r \in InRec, inbuf' = Append(inbuf, r),
           Upto(t)' = Upto(t), active' \subseteq active,
           \/ /\ r.type = "stdout" /\ r.req = t /\ r.n = sent[t] + 1 /\ sent'[t] = sent[t] + 1
              /\ \E x \in active : x.req = t
              /\ \A i \in DOMAIN inbuf : ~(inbuf[i].type = "end" /\ inbuf[i].req = t)
           \/ r.type = "end" /\ r.req = t /\ sent'[t] = sent[t] /\ \E x \in active : x.req = t
           \/ ~(r.type \in {"stdout", "end"} /\ r.req = t) /\ sent'[t] = sent[t]
    PROVE  Pending(t)'
<1>1. PICK u, s, n :
         /\ u = Upto(t) /\ s = sent[t] /\ u \in Nat /\ s \in Nat /\ u <= s + 1
         /\ n = Len(inbuf) /\ n \in Nat
  <2>1. Len(inbuf) \in Nat
    BY DEF PermitInv, TypeOK
  <2>2. Upto(t) \in Nat /\ sent[t] \in Nat /\ Upto(t) <= sent[t] + 1
    BY ChunkTypes DEF Pending
  <2>. QED  BY <2>1, <2>2
<1>2. /\ DOMAIN inbuf = 1 .. n /\ DOMAIN inbuf' = 1 .. (n + 1) /\ Len(inbuf') = n + 1
      /\ inbuf'[n + 1] = r /\ \A i \in 1 .. n : inbuf'[i] = inbuf[i]
  <2>1. inbuf \in Seq(InRec)
    BY DEF PermitInv, TypeOK
  <2>2. Len(inbuf') = Len(inbuf) + 1
    BY <2>1
  <2>. QED  BY <1>1, <2>1, <2>2, AppendAt
<1>3. \A i \in 1 .. n : Out(t, i)' <=> Out(t, i)
  BY <1>2 DEF Out
<1>4. ASSUME NEW m, NEW i, Has(t, m, i) PROVE Has(t, m, i)'
  <2>1. PICK j \in DOMAIN inbuf : j < i /\ Out(t, j) /\ inbuf[j].n = m
    BY <1>4 DEF Has
  <2>2. j \in 1 .. n /\ j \in DOMAIN inbuf'
    BY <1>1, <1>2
  <2>3. Out(t, j)' /\ inbuf'[j] = inbuf[j]
    BY <1>2, <1>3, <2>1, <2>2
  <2>. QED  BY <2>1, <2>2, <2>3 DEF Has
<1>5. Out(t, n + 1)' <=> r.type = "stdout" /\ r.req = t
  BY <1>2 DEF Out
<1>6. ASSUME NEW m, m = s + 1, r.type = "stdout", r.req = t, r.n = s + 1 PROVE Has(t, m, n + 2)'
  <2>1. n + 1 \in DOMAIN inbuf' /\ n + 1 < n + 2
    BY <1>1, <1>2
  <2>. QED  BY <1>2, <1>5, <1>6, <2>1 DEF Has
<1>7. ASSUME NEW m, NEW i \in Int, Has(t, m, n + 1), i >= n + 1 PROVE Has(t, m, i)'
  <2>1. PICK j \in DOMAIN inbuf : j < n + 1 /\ Out(t, j) /\ inbuf[j].n = m
    BY <1>7 DEF Has
  <2>2. j < i /\ j \in DOMAIN inbuf'
    BY <1>1, <1>2, <1>7, <2>1
  <2>. QED  BY <1>2, <1>3, <2>1, <2>2 DEF Has
<1>8. PICK w : w = sent'[t] /\ w \in {s, s + 1} /\ u <= w + 1
               /\ (w = s + 1 <=> (r.type = "stdout" /\ r.req = t))
               /\ (r.type = "stdout" /\ r.req = t => r.n = s + 1)
  BY <1>1
<1>9. \A i \in 1 .. (n + 1) : i \in 1 .. n \/ i = n + 1
  BY <1>1
<1>10. ASSUME NEW i \in DOMAIN inbuf', Out(t, i)'
       PROVE  /\ inbuf'[i].n \in u .. w
              /\ \A m \in u .. (inbuf'[i].n - 1) : Has(t, m, i)'
              /\ \A j \in DOMAIN inbuf' : j < i /\ Out(t, j)' => inbuf'[j].n < inbuf'[i].n
  <2>1. CASE i \in 1 .. n
    <3>1. i \in DOMAIN inbuf /\ Out(t, i) /\ inbuf'[i] = inbuf[i]
      BY <1>2, <1>3, <1>10, <2>1
    <3>2. /\ inbuf[i].n \in u .. s
          /\ \A m \in u .. (inbuf[i].n - 1) : Has(t, m, i)
          /\ \A j \in DOMAIN inbuf : j < i /\ Out(t, j) => inbuf[j].n < inbuf[i].n
      BY <1>1, <3>1 DEF Pending
    <3>3. inbuf[i].n \in u .. w
      BY <1>1, <1>8, <3>2
    <3>4. ASSUME NEW j \in DOMAIN inbuf', j < i, Out(t, j)' PROVE inbuf'[j].n < inbuf'[i].n
      <4>1. j \in 1 .. n
        BY <1>1, <1>2, <2>1, <3>4
      <4>. QED  BY <1>2, <1>3, <3>1, <3>2, <3>4, <4>1
    <3>. QED  BY <1>4, <3>1, <3>2, <3>3, <3>4
  <2>2. CASE i = n + 1
    <3>1. r.type = "stdout" /\ r.req = t /\ w = s + 1 /\ inbuf'[i].n = s + 1
      BY <1>2, <1>5, <1>8, <1>10, <2>2
    <3>2. \E x \in active : x.req = t
      BY <3>1
    <3>3. \A m \in u .. s : Has(t, m, n + 1)
      BY <1>1, <3>2 DEF Pending
    <3>4. (s + 1) - 1 = s /\ s + 1 \in u .. w
      BY <1>1, <1>8, <3>1
    <3>5. ASSUME NEW j \in DOMAIN inbuf', j < i, Out(t, j)' PROVE inbuf'[j].n < s + 1
      <4>1. j \in 1 .. n
        BY <1>1, <1>2, <2>2, <3>5
      <4>2. Out(t, j) /\ inbuf'[j] = inbuf[j] /\ inbuf[j].n \in u .. s
        BY <1>1, <1>2, <1>3, <3>5, <4>1 DEF Pending
      <4>. QED  BY <1>1, <4>2
    <3>. QED  BY <1>4, <2>2, <3>1, <3>3, <3>4, <3>5
  <2>. QED  BY <1>2, <1>9, <2>1, <2>2
<1>11. ASSUME NEW i \in DOMAIN inbuf', inbuf'[i].type = "end", inbuf'[i].req = t, NEW m \in u .. w
       PROVE  Has(t, m, i)'
  <2>1. CASE i \in 1 .. n
    <3>1. i \in DOMAIN inbuf /\ inbuf[i].type = "end" /\ inbuf[i].req = t
      BY <1>2, <1>11, <2>1
    <3>2. w = s
      BY <1>1, <1>8, <3>1
    <3>3. Has(t, m, i)
      BY <1>1, <3>1, <3>2 DEF Pending
    <3>. QED  BY <1>4, <3>3
  <2>2. CASE i = n + 1
    <3>1. r.type = "end" /\ r.req = t /\ w = s /\ \E x \in active : x.req = t
      BY <1>2, <1>8, <1>11, <2>2
    <3>2. Has(t, m, n + 1)
      BY <1>1, <3>1 DEF Pending
    <3>. QED  BY <1>4, <2>2, <3>2
  <2>. QED  BY <1>2, <1>9, <2>1, <2>2
<1>12. ASSUME NEW x \in active', x.req = t, NEW m \in u .. w PROVE Has(t, m, Len(inbuf) + 1)'
  <2>1. Has(t, m, n + 2)'
    <3>1. CASE m = s + 1
      <4>1. w = s + 1
        BY <1>1, <1>8, <3>1
      <4>. QED  BY <1>6, <1>8, <3>1, <4>1
    <3>2. CASE m # s + 1
      <4>1. m \in u .. s
        BY <1>1, <1>8, <3>2
      <4>2. Has(t, m, n + 1)
        BY <1>1, <1>12, <4>1 DEF Pending
      <4>3. n + 2 \in Int /\ n + 2 >= n + 1
        BY <1>1
      <4>. QED  BY <1>7, <4>2, <4>3
    <3>. QED  BY <3>1, <3>2
  <2>2. Len(inbuf') + 1 = n + 2
    BY <1>1, <1>2
  <2>. QED  BY <2>1, <2>2 DEF Has
<1>13. /\ Upto(t)' <= sent'[t] + 1
       /\ \A i \in DOMAIN inbuf' : Out(t, i)' =>
             /\ inbuf'[i].n \in Upto(t)' .. sent'[t]
             /\ \A m \in Upto(t)' .. (inbuf'[i].n - 1) : Has(t, m, i)'
             /\ \A j \in DOMAIN inbuf' : j < i /\ Out(t, j)' => inbuf'[j].n < inbuf'[i].n
  BY <1>1, <1>8, <1>10
<1>14. \A i \in DOMAIN inbuf' : inbuf'[i].type = "end" /\ inbuf'[i].req = t =>
          \A m \in Upto(t)' .. sent'[t] : Has(t, m, i)'
  BY <1>1, <1>8, <1>11
<1>15. (\E x \in active' : x.req = t) =>
          \A m \in Upto(t)' .. sent'[t] : Has(t, m, Len(inbuf) + 1)'
  BY <1>1, <1>8, <1>12
<1>. QED  BY <1>13, <1>14, <1>15 DEF Pending

-----------------------------------------------------------------------------
(* The steps of one call *)

\* All other calls stay where they are.
OthersKept(t) == \A u \in Req \ {t} : pc'[u] = pc[u] /\ SameView(u)

\* A slot belongs to one call, so the slots of the others are not touched.
LEMMA Elsewhere ==
    ASSUME PermitInv, NEW t \in Req, pc[t] \in Owning,
           \A j \in DOMAIN slab \ {key[t]} : slab'[j].buf = slab[j].buf,
           \A u \in Req \ {t} : /\ pc'[u] = pc[u] /\ rsp'[u] = rsp[u] /\ first'[u] = first[u]
                                /\ got'[u] = got[u] /\ key'[u] = key[u]
    PROVE  OthersKept(t)
<1>1. \A u \in Req \ {t} : pc[u] \in Owning => key[u] \in DOMAIN slab \ {key[t]}
  BY DEF PermitInv, BodyHasSlot
<1>. QED  BY <1>1 DEF OthersKept, SameView

\* A step of one call in which nothing comes in flight.
LEMMA TaskStep ==
    ASSUME PermitInv, DeliveryInv, NEW t \in Req, OthersKept(t), Kept(t), WireKept,
           Flight' \subseteq Flight, Queueing' \subseteq Queueing,
           pc[t] \notin Before => pc'[t] \notin Before /\ key'[t] = key[t]
    PROVE  DeliveryInv'
<1>1. ASSUME NEW y \in Flight, pc[y.req] \notin Before
      PROVE  pc'[y.req] \notin Before /\ key'[y.req] = key[y.req]
  <2>1. y.req \in Req
    BY FlightReq DEF PermitInv
  <2>. QED  BY <1>1, <2>1 DEF OthersKept, SameView
<1>2. sent' = sent /\ fin' = fin
  BY DEF WireKept
<1>3. FlightOfCall' /\ QueuedSilent'
  BY <1>1, <1>2, KeepFlight
<1>4. ASSUME NEW u \in Req \ {t} PROVE Kept(u)
  <2>1. CallInv(u) /\ PcStep(u) /\ SameView(u)
    BY DEF DeliveryInv, OthersKept, PcStep
  <2>. QED  BY <1>2, <2>1, KeepCall
<1>. QED  BY <1>3, <1>4, KeepDelivery

\* A step of one call that leaves its chunks alone.
LEMMA QuietCall ==
    ASSUME PermitInv, DeliveryInv, NEW t \in Req, OthersKept(t), WireKept,
           Flight' \subseteq Flight, Queueing' \subseteq Queueing,
           key' = key, pc'[t] \in Gone \/ (PcStep(t) /\ SameView(t))
    PROVE  DeliveryInv'
<1>1. CallInv(t) /\ sent' = sent /\ fin' = fin
  BY DEF DeliveryInv, WireKept
<1>2. Kept(t)
  BY <1>1, KeepCall
<1>3. pc[t] \notin Before => pc'[t] \notin Before
  BY DEF PcStep, Gone, Before
<1>4. key'[t] = key[t]
  OBVIOUS
<1>. QED  BY <1>2, <1>3, <1>4, TaskStep

\* The start and the end of the header change where the rest would go.
LEMMA RspStep ==
    ASSUME PermitInv, NEW t \in Req, CallInv(t), pc[t] \in {"stdin", "run"}, pc'[t] = "run",
           rsp[t] \in {"none", "header"}, rsp'[t] \in {"header", "done"},
           first'[t] = first[t], got'[t] = got[t], key'[t] = key[t],
           slab'[key[t]].buf = slab[key[t]].buf
    PROVE  Kept(t)
<1>1. pc[t] \in Live /\ pc'[t] \in Live /\ got[t] = <<>> /\ pc'[t] \notin Before /\ first[t] >= 1
  BY DEF Live, CallInv, Staged, Before, Gone
<1>2. Count(t)' = Count(t)
  BY <1>1 DEF Count
<1>3. Upto(t)' = Upto(t)
  BY <1>2 DEF Upto
<1>4. \A i : Num(t, i)' = Num(t, i)
  BY DEF Num
<1>5. Shape(t, 1)' <=> Shape(t, 1)
  BY <1>2, <1>4 DEF Shape
<1>6. Shape(t, 1)
  BY <1>1 DEF CallInv, Shaped
<1>7. 1 \in 1 .. (Count(t) + 1)
  BY ChunkTypes
<1>8. Shaped(t)'
  BY <1>2, <1>5, <1>6, <1>7 DEF Shaped
<1>9. Staged(t)'
  BY <1>1 DEF Staged, Before
<1>. QED  BY <1>1, <1>3, <1>8, <1>9 DEF Kept

\* The chunks of all calls are where they were when the buffers of all slots are.
LEMMA SameBuffers ==
    ASSUME PermitInv, \A j \in DOMAIN slab : slab'[j].buf = slab[j].buf,
           UNCHANGED <<rsp, first, got, key>>
    PROVE  \A u \in Req : SameView(u)
  BY DEF PermitInv, BodyHasSlot, SameView

\* A new slot is empty, and its call has not begun.
LEMMA InsertDelivery ==
    ASSUME PermitInv, DeliveryInv, NEW t \in Req, NEW k \in Vacant, Insert(t, k),
           pc[t] \in {"alive", "connect"}, pc' = [pc EXCEPT ![t] = "begin"],
           UNCHANGED <<rsp, first, got>>, WireKept, Flight' \subseteq Flight,
           Queueing' \subseteq Queueing
    PROVE  DeliveryInv'
<1>1. TypeOK /\ pc \in [Req -> Stage] /\ key \in [Req -> Nat]
  BY DEF PermitInv, TypeOK
<1>2. k \notin DOMAIN slab /\ DOMAIN slab' = DOMAIN slab \cup {k}
  BY <1>1, InsertType
<1>3. slab'[k].buf = <<>> /\ \A j \in DOMAIN slab : slab'[j] = slab[j]
  BY <1>2 DEF Insert
<1>4. key'[t] = k /\ \A u \in Req \ {t} : key'[u] = key[u] /\ pc'[u] = pc[u]
  BY <1>1 DEF Insert
<1>5. OthersKept(t)
  BY <1>3, <1>4 DEF OthersKept, SameView, PermitInv, BodyHasSlot
<1>6. pc'[t] = "begin" /\ pc[t] \in Before
  BY <1>1 DEF Before
<1>7. Staged(t)'
  BY <1>3, <1>4, <1>6 DEF DeliveryInv, CallInv, Staged, WireKept, Before, Gone
<1>8. Kept(t)
  BY <1>6, <1>7 DEF Kept, Live
<1>. QED  BY <1>5, <1>6, <1>8, TaskStep

\* BeginRequest: from here on the call has chunks to wait for, and none yet.
LEMMA BeginDelivery ==
    ASSUME PermitInv, FlightInv, DeliveryInv, NEW t \in Req, WriteBegin(t)
    PROVE  DeliveryInv'
<1>. DEFINE r == [type |-> "begin", key |-> key[t], req |-> t]
<1>1. /\ pc[t] = "begin" /\ pc' = [pc EXCEPT ![t] = "params"]
      /\ UNCHANGED <<rsp, key, slab, inbuf, active, sent, got, first, fin>>
      /\ outbuf' = Append(outbuf, r) \/ outbuf' = outbuf
  BY DEF WriteBegin, Write, inner, app, hist
<1>2. TypeOK /\ pc \in [Req -> Stage] /\ ChannelInv /\ r \in OutRec /\ r.type = "begin"
  BY DEF PermitInv, FlightInv, ChannelInv, TypeOK, OutRec
<1>3. pc'[t] = "params" /\ \A u \in Req \ {t} : pc'[u] = pc[u]
  BY <1>1, <1>2
<1>4. \A y \in Flight : y.key # r.key
  BY <1>1 DEF FlightInv, FreshId
<1>5. Tag(r).key = key[t] /\ Tag(r).req = t
  BY DEF Tag
<1>6. Flight' \subseteq Flight \cup {Tag(r)} /\ Queueing' \subseteq Queueing \cup {Tag(r)}
  <2>1. CASE outbuf' = Append(outbuf, r)
    BY <1>1, <1>2, <1>4, <2>1, QueueBegin
  <2>2. CASE outbuf' = outbuf
    BY <1>1, <2>2, SameChannels
  <2>. QED  BY <1>1, <2>1, <2>2
<1>. HIDE DEF r
<1>7. CallInv(t) /\ sent[t] = 0 /\ t \notin fin /\ rsp[t] = "none" /\ first[t] = 1 /\ got[t] = <<>>
      /\ slab[key[t]].buf = <<>>
  BY <1>1 DEF DeliveryInv, CallInv, Staged, Before
<1>8. FlightOfCall' /\ QueuedSilent'
  <2>1. ASSUME NEW y \in Flight' PROVE pc'[y.req] \notin Before /\ y.key = key'[y.req] /\ y.req \notin fin'
    <3>1. CASE y \in Flight
      <4>1. y.req \in Req
        BY <1>2, <3>1, FlightReq
      <4>. QED  BY <1>1, <1>3, <3>1, <4>1 DEF DeliveryInv, FlightOfCall, Before
    <3>2. CASE y = Tag(r)
      BY <1>1, <1>3, <1>5, <1>7, <3>2 DEF Before
    <3>. QED  BY <1>6, <3>1, <3>2
  <2>2. ASSUME NEW y \in Queueing' PROVE sent'[y.req] = 0
    BY <1>1, <1>5, <1>6, <1>7 DEF DeliveryInv, QueuedSilent
  <2>. QED  BY <2>1, <2>2 DEF FlightOfCall, QueuedSilent
<1>9. \A y \in Flight : y.req # t
  BY <1>1 DEF DeliveryInv, FlightOfCall, Before
<1>10. Len(got'[t]) = 0 /\ Len(slab'[key'[t]].buf) = 0
  BY <1>1, <1>7
<1>11. Count(t)' = 0
  BY <1>3, <1>10 DEF Count, Live
<1>12. Upto(t)' = 1
  BY <1>1, <1>7, <1>11 DEF Upto
<1>13. Shaped(t)'
  <2>1. 1 .. 0 = {}
    OBVIOUS
  <2>2. Shape(t, 1)'
    BY <1>11, <2>1 DEF Shape
  <2>. QED  BY <1>1, <1>7, <2>2 DEF Shaped
<1>14. Pending(t)'
  <2>1. \A i \in DOMAIN inbuf' : inbuf'[i].req # t
    BY <1>1, <1>9, InFlight
  <2>2. \A x \in active' : x.req # t
    BY <1>1, <1>9 DEF Flight
  <2>3. Upto(t)' <= sent'[t] + 1
    BY <1>1, <1>7, <1>12
  <2>. QED  BY <2>1, <2>2, <2>3 DEF Pending, Out
<1>15. Staged(t)'
  BY <1>1, <1>3, <1>7 DEF Staged, Before
<1>16. CallInv(t)'
  BY <1>1, <1>3, <1>7, <1>13, <1>14, <1>15 DEF CallInv
<1>17. WireKept
  BY <1>1 DEF WireKept
<1>18. ASSUME NEW u \in Req \ {t} PROVE Kept(u)
  <2>1. SameView(u)
    BY <1>1, SameBuffers
  <2>2. CallInv(u) /\ PcStep(u)
    BY <1>3 DEF DeliveryInv, PcStep
  <2>. QED  BY <1>1, <2>1, <2>2, KeepCall
<1>. QED  BY <1>8, <1>16, <1>17, <1>18, KeepDelivery

\* forward begins and writes its request.
LEMMA DeliveryForward ==
    \A t \in Req : PermitInv /\ FlightInv /\ DeliveryInv /\ Forward(t) => DeliveryInv'
<1>. SUFFICES ASSUME NEW t \in Req, PermitInv, FlightInv, DeliveryInv, Forward(t)
              PROVE  DeliveryInv'
  OBVIOUS
<1>. USE DEF client, inner, wire, app, hist
<1>t. /\ TypeOK /\ pc \in [Req -> Stage] /\ slab \in [DOMAIN slab -> Slot]
      /\ rsp \in [Req -> {"none", "header", "push", "done"}]
  BY DEF PermitInv, TypeOK
<1>1. CASE Acquire(t) \/ StartCheck(t) \/ AliveError(t) \/ ConnectFail(t) \/ WriteFail(t)
  <2>1. /\ UNCHANGED <<rsp, key, slab, inbuf, outbuf, active, sent, got, first, fin>>
        /\ \E s \in {"lock", "alive", "failed"} : pc' = [pc EXCEPT ![t] = s]
        /\ pc[t] \in Before \/ pc' = [pc EXCEPT ![t] = "failed"]
    BY <1>1 DEF Acquire, StartCheck, AliveError, ConnectFail, WriteFail, Before
  <2>2. \A u \in Req : SameView(u)
    BY <2>1, SameBuffers
  <2>3. OthersKept(t) /\ (pc'[t] \in Gone \/ PcStep(t))
    BY <1>t, <2>1, <2>2 DEF OthersKept, PcStep, Gone, Before
  <2>4. WireKept
    BY <2>1 DEF WireKept
  <2>. QED  BY <2>1, <2>2, <2>3, <2>4, SameChannels, QuietCall
<1>2. CASE NotAlive(t)
  <2>1. /\ UNCHANGED <<rsp, key, sent, got, first, fin>> /\ slab' = NotifyEveryone
        /\ inbuf' = <<>> /\ outbuf' = <<>> /\ active' = {}
        /\ pc[t] = "alive" /\ pc' = [pc EXCEPT ![t] = "connect"]
    BY <1>2 DEF NotAlive
  <2>2. \A u \in Req : SameView(u)
    BY <1>t, <2>1, SameBuffers, NotifySlots
  <2>3. OthersKept(t) /\ PcStep(t)
    BY <1>t, <2>1, <2>2 DEF OthersKept, PcStep, Before
  <2>4. WireKept
    BY <2>1 DEF WireKept
  <2>5. Flight' = {} /\ Queueing' = {}
    BY <2>1, EmptyChannels
  <2>. QED  BY <2>1, <2>2, <2>3, <2>4, <2>5, QuietCall
<1>3. CASE Alive(t)
  <2>1. PICK k \in Vacant : Insert(t, k)
    BY <1>3 DEF Alive
  <2>2. /\ UNCHANGED <<rsp, inbuf, outbuf, active, sent, got, first, fin>>
        /\ pc[t] = "alive" /\ pc' = [pc EXCEPT ![t] = "begin"]
    BY <1>3 DEF Alive
  <2>3. WireKept
    BY <2>2 DEF WireKept
  <2>. QED  BY <2>1, <2>2, <2>3, SameChannels, InsertDelivery
<1>4. CASE Connected(t)
  <2>1. PICK k \in Vacant : Insert(t, k)
    BY <1>4 DEF Connected
  <2>2. /\ UNCHANGED <<rsp, sent, got, first, fin>>
        /\ inbuf' = <<>> /\ outbuf' = <<>> /\ active' = {}
        /\ pc[t] = "connect" /\ pc' = [pc EXCEPT ![t] = "begin"]
    BY <1>4 DEF Connected
  <2>3. WireKept
    BY <2>2 DEF WireKept
  <2>4. Flight' = {} /\ Queueing' = {}
    BY <2>2, EmptyChannels
  <2>. QED  BY <2>1, <2>2, <2>3, <2>4, InsertDelivery
<1>5. CASE WriteBegin(t)
  BY <1>5, BeginDelivery
<1>6. CASE WriteParams(t) \/ RejectHeader(t)
  <2>1. /\ UNCHANGED <<rsp, key, slab, net, inbuf, active, sent, got, first, fin>>
        /\ pc[t] = "params"
        /\ \E s \in {"run", "stdin", "failed"} : pc' = [pc EXCEPT ![t] = s]
        /\ \E type \in {"params", "abort"} : Write(t, type)
    BY <1>6 DEF WriteParams, RejectHeader
  <2>2. Flight' \subseteq Flight /\ Queueing' \subseteq Queueing
    BY <2>1, OwnRecord DEF Write, Owning
  <2>3. \A u \in Req : SameView(u)
    BY <2>1, SameBuffers
  <2>4. OthersKept(t) /\ (pc'[t] \in Gone \/ PcStep(t))
    BY <1>t, <2>1, <2>3 DEF OthersKept, PcStep, Gone
  <2>5. WireKept
    BY <2>1 DEF WireKept
  <2>. QED  BY <2>1, <2>2, <2>3, <2>4, <2>5, QuietCall
<1>7. CASE WriteStdin(t)
  <2>1. /\ UNCHANGED <<key, slab, net, inbuf, active, sent, got, first, fin>>
        /\ pc[t] = "stdin" /\ pc' = [pc EXCEPT ![t] = "run"]
        /\ rsp' = [rsp EXCEPT ![t] = "header"] /\ Write(t, "stdin")
    BY <1>7 DEF WriteStdin
  <2>2. Flight' \subseteq Flight /\ Queueing' \subseteq Queueing
    BY <2>1, OwnRecord DEF Write, Owning
  <2>3. OthersKept(t)
    BY <1>t, <2>1 DEF OthersKept, SameView
  <2>4. CallInv(t) /\ rsp[t] = "none" /\ pc'[t] = "run" /\ rsp'[t] = "header"
    BY <1>t, <2>1 DEF DeliveryInv, CallInv, Staged
  <2>5. Kept(t)
    BY <2>1, <2>4, RspStep
  <2>6. WireKept
    BY <2>1 DEF WireKept
  <2>7. pc'[t] \notin Before /\ key'[t] = key[t]
    BY <2>1, <2>4 DEF Before
  <2>. QED  BY <2>2, <2>3, <2>5, <2>6, <2>7, TaskStep
<1>. QED  BY <1>1, <1>2, <1>3, <1>4, <1>5, <1>6, <1>7 DEF Forward

\* send_body and the calls that are given up have nothing to do with output.
LEMMA DeliverySendGiveUp ==
    \A t \in Req : PermitInv /\ FlightInv /\ DeliveryInv /\ (SendBody(t) \/ GiveUp(t)) => DeliveryInv'
<1>. SUFFICES ASSUME NEW t \in Req, PermitInv, FlightInv, DeliveryInv, SendBody(t) \/ GiveUp(t)
              PROVE  DeliveryInv'
  OBVIOUS
<1>. USE DEF client, inner, wire, app, hist
<1>t. TypeOK /\ pc \in [Req -> Stage]
  BY DEF PermitInv, TypeOK
<1>s. lock = <<t, "send">> => pc[t] = "run"
  BY DEF PermitInv, SendHolds, Queued
<1>1. CASE BodyChunk(t) \/ BodyEnd(t) \/ SendLock(t) \/ WriteChunk(t) \/ WriteEnd(t)
  <2>1. UNCHANGED <<pc, rsp, key, slab, net, inbuf, active, sent, got, first, fin>>
    BY <1>1 DEF BodyChunk, BodyEnd, SendLock, WriteChunk, WriteEnd
  <2>2. outbuf' = outbuf \/ (pc[t] \in Owning /\ Write(t, "stdin"))
    BY <1>1, <1>s DEF BodyChunk, BodyEnd, SendLock, WriteChunk, WriteEnd, Owning
  <2>3. Flight' \subseteq Flight /\ Queueing' \subseteq Queueing
    BY <2>1, <2>2, SameChannels, OwnRecord DEF Write
  <2>4. \A u \in Req : SameView(u)
    BY <2>1, SameBuffers
  <2>5. OthersKept(t) /\ PcStep(t)
    BY <2>1, <2>4 DEF OthersKept, PcStep
  <2>6. WireKept
    BY <2>1 DEF WireKept
  <2>. QED  BY <2>1, <2>3, <2>4, <2>5, <2>6, QuietCall
<1>2. CASE WriteAbort(t) \/ SendFail(t) \/ DropBody(t)
  <2>1. /\ UNCHANGED <<rsp, key, net, inbuf, active, sent, got, first, fin>> /\ DropFCGIBody(t)
        /\ \E s \in Gone : pc' = [pc EXCEPT ![t] = s]
    BY <1>2 DEF WriteAbort, SendFail, DropBody, Gone
  <2>2. outbuf' = outbuf \/ (pc[t] \in Owning /\ (Write(t, "abort") \/ Torn(t)))
    BY <1>2, <1>s DEF WriteAbort, SendFail, DropBody, Owning
  <2>3. Flight' \subseteq Flight /\ Queueing' \subseteq Queueing
    BY <2>1, <2>2, SameChannels, OwnRecord DEF Write, Torn
  <2>4. \A u \in Req : SameView(u)
    BY <1>t, <2>1, DropType, SameBuffers
  <2>5. OthersKept(t) /\ pc'[t] \in Gone
    BY <1>t, <2>1, <2>4 DEF OthersKept
  <2>6. WireKept
    BY <2>1 DEF WireKept
  <2>. QED  BY <2>1, <2>3, <2>5, <2>6, QuietCall
<1>3. CASE CancelForward(t)
  <2>1. /\ UNCHANGED <<rsp, key, slab, net, inbuf, active, sent, got, first, fin>>
        /\ pc' = [pc EXCEPT ![t] = "dropped"]
    BY <1>3 DEF CancelForward
  <2>2. outbuf' = outbuf \/ (pc[t] \in Owning /\ Torn(t))
    BY <1>3 DEF CancelForward, Owning
  <2>3. Flight' \subseteq Flight /\ Queueing' \subseteq Queueing
    BY <2>1, <2>2, SameChannels, OwnRecord DEF Torn
  <2>4. \A u \in Req : SameView(u)
    BY <2>1, SameBuffers
  <2>5. OthersKept(t) /\ pc'[t] \in Gone
    BY <1>t, <2>1, <2>4 DEF OthersKept, Gone
  <2>6. WireKept
    BY <2>1 DEF WireKept
  <2>. QED  BY <2>1, <2>3, <2>5, <2>6, QuietCall
<1>. QED  BY <1>1, <1>2, <1>3 DEF SendBody, GiveUp

\* poll_frame and create_response move chunks of their own slot.
LEMMA DeliveryResponse ==
    \A t \in Req : PermitInv /\ FlightInv /\ SeatInv /\ DeliveryInv /\ Response(t) => DeliveryInv'
<1>. SUFFICES ASSUME NEW t \in Req, PermitInv, FlightInv, SeatInv, DeliveryInv, Response(t)
              PROVE  DeliveryInv'
  OBVIOUS
<1>. USE DEF client, inner, wire, app, hist
<1>t. /\ TypeOK /\ pc \in [Req -> Stage] /\ slab \in [DOMAIN slab -> Slot]
      /\ rsp \in [Req -> {"none", "header", "push", "done"}] /\ got \in [Req -> Seq(Chunk)]
      /\ first \in [Req -> Nat]
  BY DEF PermitInv, TypeOK
<1>i. CallInv(t)
  BY DEF DeliveryInv
<1>w. /\ key' = key /\ WireKept /\ Flight' \subseteq Flight /\ Queueing' \subseteq Queueing
  <2>1. UNCHANGED <<key, inbuf, outbuf, active, sent, fin>>
    BY DEF Response, StartResponse, FrameLock, FrameWait, FrameEnd, FrameData, FrameHeader,
           PushRest, Respond
  <2>. QED  BY <2>1, SameChannels DEF WireKept
<1>1. CASE FrameLock(t) \/ FrameWait(t) \/ Respond(t)
  <2>1. /\ UNCHANGED <<rsp, key, slab, got, first>>
        /\ pc' = pc \/ (pc[t] = "run" /\ rsp[t] = "done" /\ pc' = [pc EXCEPT ![t] = "body"])
    BY <1>1 DEF FrameLock, FrameWait, Respond
  <2>2. \A u \in Req : SameView(u)
    BY <2>1, SameBuffers
  <2>3. OthersKept(t) /\ PcStep(t)
    BY <1>t, <2>1, <2>2 DEF OthersKept, PcStep
  <2>. QED  BY <1>w, <2>2, <2>3, QuietCall
<1>2. CASE StartResponse(t) \/ (FrameEnd(t) /\ pc[t] # "body")
  <2>1. /\ UNCHANGED <<pc, slab, got, first>> /\ pc[t] = "run" /\ rsp[t] \in {"none", "header"}
        /\ \E s \in {"header", "done"} : rsp' = [rsp EXCEPT ![t] = s]
    BY <1>2 DEF StartResponse, FrameEnd, Polled, SeatInv, RespHolds, Reading
  <2>2. OthersKept(t) /\ rsp'[t] \in {"header", "done"}
    BY <1>t, <1>w, <2>1 DEF OthersKept, SameView
  <2>3. Kept(t)
    BY <1>i, <1>w, <2>1, <2>2, RspStep
  <2>4. pc'[t] \notin Before
    BY <2>1 DEF Before
  <2>. QED  BY <1>w, <2>2, <2>3, <2>4, TaskStep
<1>3. CASE FrameEnd(t) /\ pc[t] = "body"
  <2>1. /\ UNCHANGED <<rsp, got, first>> /\ slab[key[t]].buf = <<>>
        /\ slab' = Remove(key[t]) /\ pc' = [pc EXCEPT ![t] = "done"]
    BY <1>3 DEF FrameEnd, Slab
  <2>2. OthersKept(t) /\ pc'[t] = "done"
    <3>1. \A j \in DOMAIN slab \ {key[t]} : slab'[j].buf = slab[j].buf
      BY <2>1 DEF Remove
    <3>2. pc[t] \in Owning
      BY <1>3 DEF Owning
    <3>. QED  BY <1>t, <1>w, <2>1, <3>1, <3>2, Elsewhere
  <2>3. Count(t)' = Count(t) /\ Count(t) = Len(got[t])
    <3>1. Len(slab[key[t]].buf) = 0 /\ Len(got[t]) \in Nat
      BY <2>1, ChunkTypes
    <3>2. Count(t) = Len(got[t]) + 0 /\ Count(t)' = Len(got[t]) + 0
      BY <1>3, <2>1, <2>2, <3>1 DEF Count, Live
    <3>. QED  BY <3>1, <3>2
  <2>4. \A i \in 1 .. Count(t) : Num(t, i)' = Num(t, i)
    BY <2>1, <2>3, ChunkTypes DEF Num
  <2>5. Upto(t)' = Upto(t) /\ Shaped(t)'
    <3>1. \A p : Shape(t, p)' <=> Shape(t, p)
      BY <2>1, <2>3, <2>4 DEF Shape
    <3>. QED  BY <1>3, <1>i, <2>1, <2>3, <3>1 DEF Upto, Shaped, CallInv, Live
  <2>6. Staged(t)'
    BY <1>3, <1>i, <2>1, <2>2 DEF CallInv, Staged, Before, Gone
  <2>7. Kept(t)
    BY <1>3, <2>2, <2>5, <2>6 DEF Kept, Live
  <2>8. pc'[t] \notin Before
    BY <2>2 DEF Before
  <2>. QED  BY <1>w, <2>2, <2>7, <2>8, TaskStep
<1>4. CASE FrameData(t)
  <2>1. /\ UNCHANGED <<rsp, first>> /\ pc[t] = "body" /\ slab[key[t]].buf # <<>>
        /\ got' = [got EXCEPT ![t] = Append(@, Head(slab[key[t]].buf))]
        /\ \/ slab' = Pop(key[t]) /\ pc' = pc
           \/ slab' = Remove(key[t]) /\ pc' = [pc EXCEPT ![t] = "done"]
    BY <1>4 DEF FrameData, Slab
  <2>2. pc[t] \in Owning /\ key[t] \in DOMAIN slab
    BY <2>1, ChunkTypes DEF Owning
  <2>3. OthersKept(t) /\ pc'[t] \in {"body", "done"}
    <3>1. \A j \in DOMAIN slab \ {key[t]} : slab'[j].buf = slab[j].buf
      BY <1>t, <2>1, <2>2, PopSlots DEF Remove
    <3>. QED  BY <1>t, <1>w, <2>1, <2>2, <3>1, Elsewhere
  <2>4. Shaped(t)' /\ Upto(t)' = Upto(t)
    BY <1>4, <1>i, DataShaped
  <2>5. Staged(t)'
    BY <1>i, <2>1, <2>3 DEF CallInv, Staged, Before, Gone
  <2>6. Kept(t)
    BY <2>1, <2>4, <2>5 DEF Kept, Live
  <2>7. pc'[t] \notin Before
    BY <2>3 DEF Before
  <2>. QED  BY <1>w, <2>3, <2>6, <2>7, TaskStep
<1>5. CASE FrameHeader(t)
  <2>1. /\ UNCHANGED <<pc, got>> /\ pc[t] = "run" /\ slab[key[t]].buf # <<>> /\ rsp[t] = "header"
        /\ slab' = Pop(key[t])
    BY <1>5 DEF FrameHeader, Slab, Polled, SeatInv, RespHolds, Reading
  <2>2. pc[t] \in Owning /\ key[t] \in DOMAIN slab
    BY <2>1, ChunkTypes DEF Owning
  <2>3. OthersKept(t)
    <3>1. \A j \in DOMAIN slab \ {key[t]} : slab'[j].buf = slab[j].buf
      BY <1>t, <2>1, <2>2, PopSlots
    <3>2. \A u \in Req \ {t} : rsp'[u] = rsp[u] /\ first'[u] = first[u]
      BY <1>5, <1>t DEF FrameHeader
    <3>. QED  BY <1>w, <2>1, <2>2, <3>1, <3>2, Elsewhere
  <2>4. Shaped(t)' /\ Upto(t)' = Upto(t) /\ first'[t] >= first[t]
    BY <1>5, <1>i, <2>1, HeaderShaped
  <2>5. Staged(t)'
    <3>1. first[t] >= 1 /\ got[t] = <<>>
      BY <1>i, <2>1 DEF CallInv, Staged, Gone
    <3>2. first'[t] \in Nat
      <4>1. PICK to : first' = [first EXCEPT ![t] = Head(Slab(t).buf).n + (IF to = "push" THEN 0 ELSE 1)]
        BY <1>5 DEF FrameHeader
      <4>2. Head(slab[key[t]].buf) \in Chunk
        BY <1>t, <2>1, <2>2, PopSlots
      <4>. QED  BY <1>t, <4>1, <4>2 DEF Slab, Chunk
    <3>3. first'[t] >= 1
      BY <1>t, <2>4, <3>1, <3>2
    <3>. QED  BY <2>1, <3>1, <3>3 DEF Staged, Before
  <2>6. Kept(t)
    BY <2>1, <2>4, <2>5 DEF Kept, Live
  <2>7. pc'[t] \notin Before
    BY <2>1 DEF Before
  <2>. QED  BY <1>w, <2>3, <2>6, <2>7, TaskStep
<1>6. CASE PushRest(t)
  <2>1. /\ UNCHANGED <<pc, got, first>> /\ pc[t] = "run" /\ rsp[t] = "push"
        /\ rsp' = [rsp EXCEPT ![t] = "done"]
        /\ slab' = Push(key[t], [req |-> t, n |-> first[t]])
    BY <1>6 DEF PushRest
  <2>2. pc[t] \in Owning /\ key[t] \in DOMAIN slab /\ [req |-> t, n |-> first[t]] \in Chunk
    BY <1>t, <2>1, ChunkTypes DEF Owning, Chunk
  <2>3. OthersKept(t)
    <3>1. \A j \in DOMAIN slab \ {key[t]} : slab'[j].buf = slab[j].buf
      BY <1>t, <2>1, <2>2, PushSlots
    <3>. QED  BY <1>t, <1>w, <2>1, <2>2, <3>1, Elsewhere
  <2>4. Shaped(t)' /\ Upto(t)' = Upto(t)
    BY <1>6, <1>i, <2>1, RestShaped DEF CallInv, Live
  <2>5. Staged(t)'
    BY <1>i, <2>1 DEF CallInv, Staged, Before, Gone
  <2>6. Kept(t)
    BY <2>1, <2>4, <2>5 DEF Kept, Live
  <2>7. pc'[t] \notin Before
    BY <2>1 DEF Before
  <2>. QED  BY <1>w, <2>3, <2>6, <2>7, TaskStep
<1>. QED  BY <1>1, <1>2, <1>3, <1>4, <1>5, <1>6 DEF Response

-----------------------------------------------------------------------------
(* The steps of poll_resp, of the application and of close *)

\* A step that touches no chunk.
LEMMA AllKept ==
    ASSUME PermitInv, DeliveryInv, UNCHANGED <<pc, key>>, \A u \in Req : SameView(u), WireKept,
           Flight' \subseteq Flight, Queueing' \subseteq Queueing
    PROVE  DeliveryInv'
<1>1. sent' = sent /\ fin' = fin
  BY DEF WireKept
<1>2. FlightOfCall' /\ QueuedSilent'
  BY <1>1, KeepFlight
<1>3. ASSUME NEW u \in Req PROVE Kept(u)
  <2>1. CallInv(u) /\ PcStep(u) /\ SameView(u)
    BY DEF DeliveryInv, PcStep
  <2>. QED  BY <1>1, <2>1, KeepCall
<1>. QED  BY <1>2, <1>3, KeepDelivery

\* A record is consumed that is no output for u.
LEMMA ConsumeCall ==
    ASSUME PermitInv, NEW u \in Req, CallInv(u), inbuf # <<>>, inbuf' = Tail(inbuf),
           UNCHANGED <<pc, active, sent>>, SameView(u), pc[u] \in Live => ~Out(u, 1),
           u \in fin' => u \in fin \/ pc[u] \in Gone \/ (pc[u] \in Live /\ Upto(u) = sent[u] + 1)
    PROVE  CallInv(u)'
<1>1. PcStep(u)
  BY DEF PcStep
<1>2. pc'[u] \in Before => sent'[u] = sent[u] /\ (u \in fin' => u \in fin)
  BY DEF Before, Gone, Live
<1>3. Kept(u)
  BY <1>1, <1>2, KeepCall
<1>4. pc[u] \in Live => Pending(u)'
  <2>. SUFFICES ASSUME pc[u] \in Live PROVE Pending(u)'
    OBVIOUS
  <2>1. Pending(u) /\ ~Out(u, 1) /\ Upto(u)' = Upto(u)
    BY <1>3 DEF CallInv, Kept
  <2>. QED  BY <2>1, ConsumePending
<1>5. u \in fin' /\ pc'[u] \in Live \cup {"done"} => Upto(u)' = sent'[u] + 1
  <2>1. pc[u] \in Live \cup {"done"} => Upto(u)' = Upto(u) /\ pc[u] \notin Gone
    BY <1>3 DEF Kept, Live, Gone
  <2>. QED  BY <2>1 DEF CallInv
<1>. QED  BY <1>3, <1>4, <1>5 DEF CallInv, Kept

\* What parse_and_distribute knows of the first record: it is of a call that began
\* under its id, and the slot of that id, if there is one, is the slot of the call.
LEMMA FirstOwned ==
    ASSUME PermitInv, FlightInv, SeatInv, DeliveryInv, inbuf # <<>>, NEW x, x = Head(inbuf)
    PROVE  /\ x \in InRec /\ x.req \in Req /\ x = inbuf[1] /\ 1 \in DOMAIN inbuf
           /\ Tag(x) \in Flight
           /\ pc[x.req] \notin Before /\ x.key = key[x.req] /\ x.req \notin fin
           /\ x.key \in DOMAIN slab => slab[x.key].owner = x.req /\ pc[x.req] \in Live \cup Gone
           /\ \A u \in Req : pc[u] \in Owning /\ u # x.req => key[u] # x.key
<1>1. x \in InRec /\ x = inbuf[1] /\ 1 \in DOMAIN inbuf
  BY WithinTail DEF PermitInv, TypeOK
<1>2. x.req \in Req
  BY <1>1 DEF InRec
<1>3. Tag(x) \in Flight /\ Tag(x).key = x.key /\ Tag(x).req = x.req
  BY <1>1, InFlight
<1>4. pc[x.req] \notin Before /\ x.key = key[x.req] /\ x.req \notin fin
  BY <1>3 DEF DeliveryInv, FlightOfCall
<1>5. x.key \in DOMAIN slab => slab[x.key].owner = x.req
  BY <1>3 DEF FlightInv, FlightOwned
<1>6. x.key \in DOMAIN slab => pc[x.req] \in Live \cup Gone
  <2>1. x.key \in DOMAIN slab => pc[x.req] \in Owning \cup Gone
    BY <1>5 DEF SeatInv, SlotOwned
  <2>. QED  BY <1>4, <2>1 DEF Owning, Live, Before
<1>7. \A u \in Req : pc[u] \in Owning /\ u # x.req => key[u] # x.key
  BY <1>5 DEF PermitInv, BodyHasSlot
<1>. QED  BY <1>1, <1>2, <1>3, <1>4, <1>5, <1>6, <1>7

\* Output goes to the call it is for, as its next chunk.
LEMMA DeliveryOut ==
    ASSUME PermitInv, FlightInv, SeatInv, DeliveryInv, RespOut, NEW u \in Req
    PROVE  CallInv(u)'
<1>0. PICK x : x = Head(inbuf)
  OBVIOUS
<1>. DEFINE c == [req |-> x.req, n |-> x.n]
<1>1. /\ inbuf # <<>> /\ x.type = "stdout" /\ x.key \in DOMAIN slab /\ slab' = Push(x.key, c)
      /\ inbuf' = Tail(inbuf) /\ UNCHANGED <<pc, rsp, key, active, sent, got, first, fin>>
  BY <1>0 DEF RespOut, Parsing, Addressed, Consume, client, app, hist
<1>2. /\ x \in InRec /\ x.req \in Req /\ x = inbuf[1] /\ 1 \in DOMAIN inbuf
      /\ x.key = key[x.req] /\ x.req \notin fin /\ pc[x.req] \in Live \cup Gone
      /\ \A w \in Req : pc[w] \in Owning /\ w # x.req => key[w] # x.key
  BY <1>0, <1>1, FirstOwned
<1>3. c \in Chunk /\ c.n = x.n
  BY <1>2 DEF InRec, Chunk
<1>4. \A j \in DOMAIN slab \ {x.key} : slab'[j].buf = slab[j].buf
  BY <1>1, <1>3, PushSlots DEF PermitInv, TypeOK
<1>. HIDE DEF c
<1>5. CallInv(u)
  BY DEF DeliveryInv
<1>6. CASE u = x.req /\ pc[u] \in Live
  <2>1. Pending(u) /\ Shaped(u) /\ Out(u, 1)
    BY <1>1, <1>2, <1>5, <1>6 DEF CallInv, Out
  <2>2. x.n = Upto(u)
    BY <1>2, <2>1, FirstRecord
  <2>3. Shaped(u)' /\ Upto(u)' = Upto(u) + 1
    BY <1>1, <1>2, <1>3, <1>6, <2>1, <2>2, OutputShaped
  <2>4. Pending(u)'
    BY <1>1, <2>1, <2>3, ConsumePending
  <2>5. Staged(u)'
    BY <1>1, <1>5, <1>6 DEF CallInv, Staged, Live, Before
  <2>6. u \notin fin'
    BY <1>1, <1>2, <1>6
  <2>. QED  BY <2>3, <2>4, <2>5, <2>6 DEF CallInv
<1>7. CASE ~(u = x.req /\ pc[u] \in Live)
  <2>1. pc[u] \in Owning => key[u] \in DOMAIN slab \ {x.key}
    <3>1. u = x.req => pc[u] \notin Owning
      BY <1>2, <1>7 DEF Gone, Owning
    <3>. QED  BY <1>2, <3>1 DEF PermitInv, BodyHasSlot
  <2>2. SameView(u)
    BY <1>1, <1>4, <2>1 DEF SameView
  <2>3. pc[u] \in Live => ~Out(u, 1)
    BY <1>2, <1>7 DEF Out
  <2>. QED  BY <1>1, <1>5, <2>2, <2>3, ConsumeCall
<1>. QED  BY <1>6, <1>7

\* EndRequest comes when its call has all chunks; the slot of a call that is over
\* goes with it.
LEMMA DeliveryEnd ==
    ASSUME PermitInv, FlightInv, SeatInv, DeliveryInv, RespEnd \/ RespFree, NEW u \in Req
    PROVE  CallInv(u)'
<1>0. PICK x : x = Head(inbuf)
  OBVIOUS
<1>1. /\ inbuf # <<>> /\ x.type = "end" /\ x.key \in DOMAIN slab /\ fin' = fin \cup {x.req}
      /\ inbuf' = Tail(inbuf) /\ UNCHANGED <<pc, rsp, key, active, sent, got, first>>
      /\ \/ slab' = [slab EXCEPT ![x.key].ended = TRUE]
         \/ slab' = Remove(x.key) /\ slab[x.key].aborted
  BY <1>0 DEF RespEnd, RespFree, Parsing, Addressed, Consume, client, app, hist
<1>2. /\ x.req \in Req /\ x = inbuf[1] /\ 1 \in DOMAIN inbuf /\ slab[x.key].owner = x.req
      /\ pc[x.req] \in Live \cup Gone
      /\ \A w \in Req : pc[w] \in Owning /\ w # x.req => key[w] # x.key
  BY <1>0, <1>1, FirstOwned
<1>3. CallInv(u)
  BY DEF DeliveryInv
<1>4. SameView(u)
  <2>1. CASE slab' = [slab EXCEPT ![x.key].ended = TRUE]
    <3>1. \A j \in DOMAIN slab : slab'[j].buf = slab[j].buf
      BY <1>1, <2>1 DEF PermitInv, TypeOK, Slot
    <3>. QED  BY <1>1, <3>1, SameBuffers
  <2>2. CASE slab' = Remove(x.key) /\ slab[x.key].aborted
    <3>1. pc[x.req] \in Gone
      BY <1>1, <1>2, <2>2 DEF PermitInv, AbortedGone
    <3>2. pc[u] \in Owning => key[u] \in DOMAIN slab \ {x.key}
      BY <1>2, <3>1 DEF PermitInv, BodyHasSlot, Gone, Owning
    <3>. QED  BY <1>1, <2>2, <3>2 DEF SameView, Remove
  <2>. QED  BY <1>1, <2>1, <2>2
<1>5. ~Out(u, 1)
  BY <1>1, <1>2 DEF Out
<1>6. u \in fin' => u \in fin \/ pc[u] \in Gone \/ (pc[u] \in Live /\ Upto(u) = sent[u] + 1)
  <2>1. ASSUME u = x.req, pc[u] \in Live PROVE Upto(u) = sent[u] + 1
    BY <1>1, <1>2, <1>3, <2>1, FirstRecord DEF CallInv
  <2>. QED  BY <1>1, <1>2, <2>1
<1>. QED  BY <1>1, <1>3, <1>4, <1>5, <1>6, ConsumeCall

\* What is skipped is not for a call that waits for it.
LEMMA DeliverySkip ==
    ASSUME PermitInv, FlightInv, SeatInv, DeliveryInv, RespSkip, NEW u \in Req
    PROVE  CallInv(u)'
<1>0. PICK x : x = Head(inbuf)
  OBVIOUS
<1>1. /\ inbuf # <<>> /\ inbuf' = Tail(inbuf)
      /\ UNCHANGED <<pc, rsp, key, slab, active, sent, got, first, fin>>
      /\ x.type = "noise" \/ x.key \notin DOMAIN slab \/ slab[x.key].aborted
  BY <1>0 DEF RespSkip, Parsing, Consume, client, app, hist
<1>2. x = inbuf[1] /\ x.key = key[x.req]
  BY <1>0, <1>1, FirstOwned
<1>3. CallInv(u)
  BY DEF DeliveryInv
<1>4. SameView(u)
  BY <1>1, SameBuffers
<1>5. pc[u] \in Live => ~Out(u, 1)
  <2>. SUFFICES ASSUME pc[u] \in Live, Out(u, 1) PROVE FALSE
    OBVIOUS
  <2>1. x.type = "stdout" /\ x.req = u
    BY <1>2 DEF Out
  <2>2. key[u] \in DOMAIN slab /\ ~slab[key[u]].aborted
    BY ChunkTypes DEF Live, Owning
  <2>. QED  BY <1>1, <1>2, <2>1, <2>2
<1>. QED  BY <1>1, <1>3, <1>4, <1>5, ConsumeCall

\* poll_resp distributes the chunks without a gap.
LEMMA DeliveryPollResp == PermitInv /\ FlightInv /\ SeatInv /\ DeliveryInv /\ PollResp => DeliveryInv'
<1>. SUFFICES ASSUME PermitInv, FlightInv, SeatInv, DeliveryInv, PollResp PROVE DeliveryInv'
  OBVIOUS
<1>. USE DEF client, inner, wire, app, hist
<1>t. TypeOK /\ ChannelInv
  BY DEF PermitInv, FlightInv, ChannelInv
<1>1. CASE RespOut \/ RespEnd \/ RespFree \/ RespSkip
  <2>0. PICK x : x = Head(inbuf)
    OBVIOUS
  <2>1. /\ inbuf # <<>> /\ inbuf' = Tail(inbuf) /\ UNCHANGED <<pc, key, active, outbuf, sent>>
        /\ fin' = fin \/ (x.type = "end" /\ fin' = fin \cup {x.req})
    BY <1>1, <2>0 DEF RespOut, RespEnd, RespFree, RespSkip, Parsing, Consume
  <2>2. /\ Flight' \subseteq Flight /\ Queueing' \subseteq Queueing
        /\ x.type = "end" => \A y \in Flight' : y.key # x.key
    BY <1>t, <2>0, <2>1, ConsumeFirst
  <2>3. x.key = key[x.req]
    BY <2>0, <2>1, FirstOwned
  <2>4. FlightOfCall' /\ QueuedSilent'
    BY <2>1, <2>2, <2>3 DEF DeliveryInv, FlightOfCall, QueuedSilent
  <2>5. ASSUME NEW u \in Req PROVE CallInv(u)'
    BY <1>1, DeliveryOut, DeliveryEnd, DeliverySkip
  <2>. QED  BY <2>4, <2>5 DEF DeliveryInv
<1>2. CASE RespSplit \/ RespReady \/ RespPending \/ RespClosed \/ RespError
  <2>1. /\ UNCHANGED <<pc, rsp, key, inbuf, outbuf, active, sent, got, first, fin>>
        /\ slab' = slab \/ slab' = NotifyEveryone
    BY <1>2 DEF RespSplit, RespReady, RespPending, RespClosed, RespError
  <2>2. \A j \in DOMAIN slab : slab'[j].buf = slab[j].buf
    BY <1>t, <2>1, NotifySlots
  <2>3. \A u \in Req : SameView(u)
    BY <2>1, <2>2, SameBuffers
  <2>4. WireKept
    BY <2>1 DEF WireKept
  <2>. QED  BY <2>1, <2>3, <2>4, SameChannels, AllKept
<1>. QED  BY <1>1, <1>2 DEF PollResp

\* A record arrives that continues the output of its request, ends it or is noise.
LEMMA DeliveryAnswer ==
    ASSUME PermitInv, FlightInv, DeliveryInv, NEW x \in active,
           AppStdout(x) \/ AppNoise(x) \/ AppEnd(x)
    PROVE  DeliveryInv'
<1>. USE DEF client, inner, wire, app, hist
<1>1. TypeOK /\ ChannelInv /\ x.req \in Req /\ x.key \in Nat /\ sent \in [Req -> Nat]
  BY DEF PermitInv, FlightInv, ChannelInv, TypeOK
<1>2. UNCHANGED <<pc, rsp, key, slab, got, first, fin, outbuf>>
  BY DEF AppStdout, AppNoise, AppEnd
<1>3. PICK type \in {"stdout", "noise", "end"}, n \in Nat :
         /\ Emit(type, x, n) /\ active' = IF type = "end" THEN active \ {x} ELSE active
         /\ type = "stdout" => n = sent[x.req] + 1 /\ sent' = [sent EXCEPT ![x.req] = @ + 1]
         /\ type # "stdout" => sent' = sent
  <2>1. sent[x.req] + 1 \in Nat /\ 0 \in Nat
    BY <1>1
  <2>2. CASE AppStdout(x)
    BY <2>1, <2>2 DEF AppStdout
  <2>3. CASE AppNoise(x)
    BY <2>3 DEF AppNoise
  <2>4. CASE AppEnd(x)
    BY <2>4 DEF AppEnd
  <2>. QED  BY <2>2, <2>3, <2>4
<1>4. Flight' \subseteq Flight /\ Queueing' \subseteq Queueing
  BY <1>1, <1>2, <1>3, SendRecord
<1>5. x \in Flight /\ pc[x.req] \notin Before /\ x.key = key[x.req] /\ x.req \notin fin
  BY DEF Flight, DeliveryInv, FlightOfCall
<1>6. \A u \in Req : sent'[u] = IF type = "stdout" /\ u = x.req THEN sent[u] + 1 ELSE sent[u]
  BY <1>1, <1>3
<1>7. FlightOfCall'
  BY <1>2, <1>4 DEF DeliveryInv, FlightOfCall
<1>8. QueuedSilent'
  <2>. SUFFICES ASSUME NEW y \in Queueing' PROVE sent'[y.req] = 0
    BY DEF QueuedSilent
  <2>1. y \in Queueing /\ y \in Flight /\ y.req \in Req
    BY <1>1, <1>4, FlightReq DEF Flight
  <2>2. PICK j \in DOMAIN outbuf : outbuf[j].type = "begin" /\ y = Tag(outbuf[j])
    BY <2>1 DEF Queueing
  <2>3. outbuf[j].key # x.key
    BY <2>2 DEF FlightInv, BeginFirst
  <2>4. y.req # x.req
    BY <1>5, <2>1, <2>2, <2>3 DEF DeliveryInv, FlightOfCall, Tag
  <2>. QED  BY <1>6, <2>1, <2>4 DEF DeliveryInv, QueuedSilent
<1>9. PICK r : r = [type |-> type, key |-> x.key, req |-> x.req, n |-> n]
  OBVIOUS
<1>10. r \in InRec /\ inbuf' = Append(inbuf, r) /\ r.type = type /\ r.req = x.req /\ r.n = n
  BY <1>1, <1>3, <1>9 DEF Emit, InRec
<1>11. ASSUME NEW i \in DOMAIN inbuf, inbuf[i].type = "end" PROVE inbuf[i].req # x.req
  <2>1. inbuf[i].key # x.key
    BY <1>11 DEF FlightInv, EndLast
  <2>2. inbuf[i].key = key[inbuf[i].req]
    BY InFlight DEF DeliveryInv, FlightOfCall
  <2>. QED  BY <1>5, <2>1, <2>2
<1>12. ASSUME NEW u \in Req PROVE CallInv(u)'
  <2>1. CallInv(u) /\ PcStep(u)
    BY <1>2 DEF DeliveryInv, PcStep
  <2>2. SameView(u)
    BY <1>2, SameBuffers
  <2>3. pc'[u] \in Before => sent'[u] = sent[u] /\ (u \in fin' => u \in fin)
    BY <1>2, <1>5, <1>6
  <2>4. Kept(u)
    BY <2>1, <2>2, <2>3, KeepCall
  <2>5. pc[u] \in Live => Pending(u)'
    <3>. SUFFICES ASSUME pc[u] \in Live PROVE Pending(u)'
      OBVIOUS
    <3>1. Pending(u) /\ Upto(u)' = Upto(u) /\ active' \subseteq active
      BY <1>2, <1>3, <2>1, <2>4 DEF CallInv, Kept
    <3>2. CASE u = x.req /\ type = "stdout"
      <4>1. /\ r.type = "stdout" /\ r.req = u /\ r.n = sent[u] + 1 /\ sent'[u] = sent[u] + 1
            /\ \E z \in active : z.req = u
            /\ \A i \in DOMAIN inbuf : ~(inbuf[i].type = "end" /\ inbuf[i].req = u)
        BY <1>3, <1>6, <1>10, <1>11, <3>2
      <4>. QED  BY <1>10, <3>1, <4>1, SendPending
    <3>3. CASE u = x.req /\ type = "end"
      <4>1. r.type = "end" /\ r.req = u /\ sent'[u] = sent[u] /\ \E z \in active : z.req = u
        BY <1>6, <1>10, <3>3
      <4>. QED  BY <1>10, <3>1, <4>1, SendPending
    <3>4. CASE u # x.req \/ type = "noise"
      <4>1. ~(r.type \in {"stdout", "end"} /\ r.req = u) /\ sent'[u] = sent[u]
        BY <1>6, <1>10, <3>4
      <4>. QED  BY <1>10, <3>1, <4>1, SendPending
    <3>. QED  BY <3>2, <3>3, <3>4
  <2>6. u \in fin' /\ pc'[u] \in Live \cup {"done"} => Upto(u)' = sent'[u] + 1
    BY <1>2, <1>5, <1>6, <2>1, <2>4 DEF CallInv, Kept
  <2>. QED  BY <1>2, <2>4, <2>5, <2>6 DEF CallInv, Kept
<1>. QED  BY <1>7, <1>8, <1>12 DEF DeliveryInv

\* The application reads what forward wrote; a request it begins has no output.
LEMMA DeliveryRecv == ASSUME PermitInv, FlightInv, DeliveryInv, AppRecv PROVE DeliveryInv'
<1>. USE DEF client, inner, wire, app, hist
<1>1. TypeOK /\ ChannelInv
  BY DEF PermitInv, FlightInv, ChannelInv
<1>2. /\ UNCHANGED <<pc, rsp, key, slab, got, first, fin, inbuf, sent>> /\ outbuf # <<>>
      /\ active' = active \/ (Head(outbuf).type = "begin" /\ active' = active \cup {Tag(Head(outbuf))})
  BY DEF AppRecv, Tag
<1>3. Flight' \subseteq Flight /\ Queueing' \subseteq Queueing
  BY <1>1, Receive
<1>4. FlightOfCall' /\ QueuedSilent'
  BY <1>2, <1>3, KeepFlight
<1>5. 1 \in DOMAIN outbuf /\ Head(outbuf) = outbuf[1]
  BY <1>1, <1>2, WithinTail DEF TypeOK
<1>6. \A x \in active' : x \in active \/ sent[x.req] = 0
  <2>1. Head(outbuf).type = "begin" => Tag(Head(outbuf)) \in Queueing
    BY <1>5, InFlight
  <2>. QED  BY <1>2, <2>1 DEF DeliveryInv, QueuedSilent
<1>7. ASSUME NEW u \in Req PROVE CallInv(u)'
  <2>1. CallInv(u) /\ PcStep(u)
    BY <1>2 DEF DeliveryInv, PcStep
  <2>2. SameView(u)
    BY <1>2, SameBuffers
  <2>3. Kept(u)
    BY <1>2, <2>1, <2>2, KeepCall
  <2>4. pc[u] \in Live => Pending(u)'
    <3>. SUFFICES ASSUME pc[u] \in Live PROVE Pending(u)'
      OBVIOUS
    <3>1. Pending(u) /\ Upto(u)' = Upto(u)
      BY <1>2, <2>1, <2>3 DEF CallInv, Kept
    <3>2. \A m, i : Has(u, m, i)' <=> Has(u, m, i)
      BY <1>2 DEF Has, Out
    <3>3. \A i : Out(u, i)' <=> Out(u, i)
      BY <1>2 DEF Out
    <3>4. Upto(u) >= 1
      <4>1. first[u] >= 1
        BY <2>1 DEF CallInv, Staged, Live, Gone
      <4>. QED  BY <4>1, ChunkTypes DEF Upto
    <3>5. sent[u] = 0 => Upto(u) .. sent[u] = {}
      BY <3>4, ChunkTypes
    <3>6. (\E x \in active' : x.req = u) => \A m \in Upto(u) .. sent[u] : Has(u, m, Len(inbuf) + 1)
      BY <1>6, <3>1, <3>5 DEF Pending
    <3>. QED  BY <1>2, <3>1, <3>2, <3>3, <3>6 DEF Pending
  <2>. QED  BY <1>2, <2>1, <2>3, <2>4 DEF CallInv, Kept
<1>. QED  BY <1>4, <1>7 DEF DeliveryInv

\* What the application and the socket do.
LEMMA DeliveryApp == PermitInv /\ FlightInv /\ DeliveryInv /\ App /\ ~AppTorn => DeliveryInv'
<1>. SUFFICES ASSUME PermitInv, FlightInv, DeliveryInv, App, ~AppTorn PROVE DeliveryInv'
  OBVIOUS
<1>. USE DEF client, inner, wire, app, hist
<1>t. TypeOK /\ ChannelInv /\ inbuf \in Seq(InRec) /\ outbuf \in Seq(OutRec)
  BY DEF PermitInv, FlightInv, ChannelInv, TypeOK
<1>1. CASE AppRecv
  BY <1>1, DeliveryRecv
<1>2. CASE AppClose \/ AppReset
  <2>1. /\ UNCHANGED <<pc, rsp, key, slab, got, first, fin, sent>>
        /\ inbuf' = inbuf \/ (inbuf' = <<>> /\ active' = {})
        /\ active' \in {active, {}}
    BY <1>2 DEF AppClose, AppReset
  <2>2. Within(outbuf', outbuf)
    BY <1>2, <1>t, WithinSelf DEF AppClose, AppReset
  <2>3. Within(inbuf', inbuf)
    BY <1>t, <2>1, WithinSelf
  <2>4. Flight' \subseteq Flight /\ Queueing' \subseteq Queueing
    BY <1>t, <2>1, <2>2, <2>3, Shrink
  <2>5. \A u \in Req : SameView(u)
    BY <2>1, SameBuffers
  <2>6. WireKept
    BY <2>1 DEF WireKept
  <2>. QED  BY <2>1, <2>4, <2>5, <2>6, AllKept
<1>3. ASSUME NEW x \in active, AppStdout(x) \/ AppNoise(x) \/ AppEnd(x) PROVE DeliveryInv'
  BY <1>3, DeliveryAnswer
<1>. QED  BY <1>1, <1>2, <1>3 DEF App

\* Before the first call there is nothing to deliver.
LEMMA DeliveryInit == Init => DeliveryInv
<1>. SUFFICES ASSUME Init PROVE DeliveryInv
  OBVIOUS
<1>1. DOMAIN inbuf = {} /\ DOMAIN outbuf = {} /\ active = {}
  BY DEF Init
<1>2. Queueing = {} /\ Answering = {}
  BY <1>1 DEF Queueing, Answering
<1>3. Flight = {}
  BY <1>1, <1>2 DEF Flight
<1>4. ASSUME NEW t \in Req PROVE CallInv(t)
  <2>1. pc[t] = "acquire" /\ rsp[t] = "none" /\ first[t] = 1 /\ got[t] = <<>> /\ sent[t] = 0
        /\ t \notin fin
    BY DEF Init
  <2>. QED  BY <2>1 DEF CallInv, Staged, Before, Live
<1>. QED  BY <1>2, <1>3, <1>4 DEF DeliveryInv, FlightOfCall, QueuedSilent

\* Every step keeps it, except that the application reads past a torn record.
LEMMA DeliveryNext ==
    PermitInv /\ FlightInv /\ SeatInv /\ DeliveryInv /\ [Next]_vars /\ ~AppTorn => DeliveryInv'
<1>. SUFFICES ASSUME PermitInv, FlightInv, SeatInv, DeliveryInv, [Next]_vars, ~AppTorn
              PROVE  DeliveryInv'
  OBVIOUS
<1>1. CASE PollResp
  BY <1>1, DeliveryPollResp
<1>2. CASE Close \/ UNCHANGED vars
  <2>1. /\ UNCHANGED <<pc, rsp, key, inbuf, outbuf, active, sent, got, first, fin>>
        /\ slab' = slab \/ slab' = NotifyEveryone
    BY <1>2 DEF Close, vars, client, inner, wire, app, hist
  <2>2. \A j \in DOMAIN slab : slab'[j].buf = slab[j].buf
    BY <2>1, NotifySlots DEF PermitInv
  <2>3. \A u \in Req : SameView(u)
    BY <2>1, <2>2, SameBuffers
  <2>4. WireKept
    BY <2>1 DEF WireKept
  <2>. QED  BY <2>1, <2>3, <2>4, SameChannels, AllKept
<1>3. CASE App
  BY <1>3, DeliveryApp
<1>4. ASSUME NEW t \in Req, Forward(t) \/ SendBody(t) \/ Response(t) \/ GiveUp(t)
      PROVE  DeliveryInv'
  BY <1>4, DeliveryForward, DeliverySendGiveUp, DeliveryResponse
<1>. QED  BY <1>1, <1>2, <1>3, <1>4 DEF Next

\* As long as the application does not read past a torn record.
Sound == garbled = "no" => DeliveryInv

\* So it holds in every reachable state.
LEMMA SoundAlways == Spec => [](PermitInv /\ SeatInv /\ Parted /\ Sound)
<1>1. PermitInv /\ SeatInv /\ Parted /\ Sound /\ [Next]_vars => Sound'
  <2>. SUFFICES ASSUME PermitInv, SeatInv, Parted, Sound, [Next]_vars, garbled' = "no"
                PROVE  DeliveryInv'
    BY DEF Sound
  <2>1. garbled = "no" /\ ~AppTorn
    BY GarbledStep
  <2>2. FlightInv /\ DeliveryInv
    BY <2>1 DEF Parted, Sound
  <2>. QED  BY <2>1, <2>2, DeliveryNext
<1>2. Init => Sound
  BY DeliveryInit DEF Sound
<1>. QED  BY <1>1, <1>2, PartedAlways, PermitInit, PermitNext, SeatInit, SeatNext, PTL DEF Spec

-----------------------------------------------------------------------------
(* What the caller gets *)

\* The parts of a concatenation.
LEMMA ConcatAt ==
    ASSUME NEW S, NEW a \in Seq(S), NEW b \in Seq(S), NEW r, r = a \o b,
           NEW m, m = Len(a), NEW n, n = Len(b)
    PROVE  /\ m \in Nat /\ n \in Nat /\ r \in Seq(S) /\ Len(r) = m + n /\ DOMAIN r = 1 .. (m + n)
           /\ \A i \in 1 .. m : r[i] = a[i]
           /\ \A i \in 1 .. n : r[m + i] = b[i]
  OBVIOUS

\* The number at place i of a body from f on, when the rest of the header chunk is
\* at place p.
Place(f, p, i) == IF i < p THEN f + i ELSE IF i = p THEN f ELSE f + i - 1

\* Wherever the rest is, the numbers are the c numbers from f on, and all others
\* are in order.
LEMMA Placed ==
    ASSUME NEW f \in Nat, NEW c \in Nat, NEW p \in 1 .. (c + 1), p <= c \/ p = 1
    PROVE  /\ {Place(f, p, i) : i \in 1 .. c} = f .. f + c - 1
           /\ \A i, j \in 1 .. c : i < j /\ Place(f, p, j) # f =>
                 Place(f, p, i) < Place(f, p, j) \/ Place(f, p, i) = f
<1>1. \A i \in 1 .. c : Place(f, p, i) \in f .. f + c - 1
  BY DEF Place
<1>2. ASSUME NEW v \in f .. f + c - 1 PROVE \E i \in 1 .. c : v = Place(f, p, i)
  <2>1. CASE v = f
    <3>1. p \in 1 .. c /\ v = Place(f, p, p)
      BY <2>1 DEF Place
    <3>. QED  BY <3>1
  <2>2. CASE v # f /\ v - f < p
    <3>1. v - f \in 1 .. c /\ v = Place(f, p, v - f)
      BY <2>2 DEF Place
    <3>. QED  BY <3>1
  <2>3. CASE v # f /\ ~(v - f < p)
    <3>1. (v - f) + 1 \in 1 .. c /\ v = Place(f, p, (v - f) + 1)
      BY <2>3 DEF Place
    <3>. QED  BY <3>1
  <2>. QED  BY <2>1, <2>2, <2>3
<1>3. {Place(f, p, i) : i \in 1 .. c} = f .. f + c - 1
  BY <1>1, <1>2
<1>4. ASSUME NEW i \in 1 .. c, NEW j \in 1 .. c, i < j, Place(f, p, j) # f
      PROVE  Place(f, p, i) < Place(f, p, j) \/ Place(f, p, i) = f
  BY <1>4 DEF Place
<1>. QED  BY <1>3, <1>4

\* What a call received, chunk by chunk.
LEMMA ReceivedPlaces ==
    ASSUME PermitInv, NEW t \in Req, CallInv(t), pc[t] \in {"run", "body", "done"},
           NEW all, all = Received(t)
    PROVE  \E c \in Nat : \E p \in 1 .. (c + 1) :
              /\ p <= c \/ p = 1
              /\ Len(all) = c /\ DOMAIN all = 1 .. c /\ Upto(t) = first[t] + c
              /\ \A i \in 1 .. c : all[i].n = Place(first[t], p, i)
              /\ DOMAIN got[t] \subseteq 1 .. c
              /\ \A i \in DOMAIN got[t] : got[t][i].n = Place(first[t], p, i)
<1>0. PICK g, b, e :
         /\ g = got[t] /\ b = (IF pc[t] \in {"run", "body"} THEN slab[key[t]].buf ELSE <<>>)
         /\ e = (IF rsp[t] = "push" THEN <<[req |-> t, n |-> first[t]]>> ELSE <<>>)
  OBVIOUS
<1>1. all = (g \o e) \o b
  BY <1>0 DEF Received
<1>2. PICK f, m, n : f = first[t] /\ m = Len(g) /\ n = Len(b)
  OBVIOUS
<1>3. g \in Seq(Chunk) /\ b \in Seq(Chunk) /\ f \in Nat /\ m \in Nat /\ n \in Nat /\ Len(<<>>) = 0
      /\ DOMAIN g = 1 .. m
  BY <1>0, <1>2, ChunkTypes DEF Owning
<1>4. Count(t) = m + n
  BY <1>0, <1>2, <1>3 DEF Count, Live
<1>5. \A i \in 1 .. m : Num(t, i) = g[i].n
  BY <1>0, <1>2, <1>3 DEF Num
<1>6. \A i \in 1 .. n : Num(t, m + i) = b[i].n
  <2>1. \A i \in 1 .. n : ~(m + i <= m) /\ (m + i) - m = i
    BY <1>3
  <2>2. n # 0 => pc[t] \in {"run", "body"}
    BY <1>0, <1>2, <1>3
  <2>. QED  BY <1>0, <1>2, <1>3, <2>1, <2>2 DEF Num
<1>7. \A p : Shape(t, p) <=> \A i \in 1 .. (m + n) : Num(t, i) = Place(f, p, i)
  BY <1>2, <1>4 DEF Shape, Place
<1>8. Shaped(t) /\ (rsp[t] = "push" => g = <<>>)
  BY <1>0 DEF CallInv, Staged, Live
<1>9. CASE rsp[t] # "push"
  <2>1. e = <<>> /\ g \o e = g
    BY <1>0, <1>3, <1>9
  <2>2. /\ Len(all) = m + n /\ DOMAIN all = 1 .. (m + n)
        /\ \A i \in 1 .. m : all[i] = g[i]
        /\ \A i \in 1 .. n : all[m + i] = b[i]
    BY <1>1, <1>2, <1>3, <2>1, ConcatAt
  <2>3. \A i \in 1 .. (m + n) : all[i].n = Num(t, i)
    <3>1. \A i \in 1 .. (m + n) : i \in 1 .. m \/ (i - m \in 1 .. n /\ m + (i - m) = i)
      BY <1>3
    <3>. QED  BY <1>5, <1>6, <2>2, <3>1
  <2>4. PICK p \in 1 .. ((m + n) + 1) : Shape(t, p) /\ (p <= m + n \/ p = 1)
    <3>1. rsp[t] \in {"none", "header", "done"}
      BY <1>9 DEF PermitInv, TypeOK
    <3>2. 1 \in 1 .. ((m + n) + 1)
      BY <1>3
    <3>. QED  BY <1>4, <1>8, <3>1, <3>2 DEF Shaped
  <2>5. Upto(t) = f + (m + n) + 0
    BY <1>2, <1>4, <1>9 DEF Upto
  <2>6. m + n \in Nat /\ 1 .. m \subseteq 1 .. (m + n) /\ f + (m + n) + 0 = f + (m + n)
    BY <1>3
  <2>7. \A i \in 1 .. (m + n) : Num(t, i) = Place(f, p, i)
    BY <1>7, <2>4
  <2>8. /\ \A i \in 1 .. (m + n) : all[i].n = Place(f, p, i)
        /\ \A i \in 1 .. m : g[i].n = Place(f, p, i)
    BY <1>5, <2>3, <2>6, <2>7
  <2>9. PICK c \in Nat : c = m + n
    BY <2>6
  <2>10. /\ p \in 1 .. (c + 1) /\ (p <= c \/ p = 1) /\ Len(all) = c /\ DOMAIN all = 1 .. c
         /\ Upto(t) = f + c /\ \A i \in 1 .. c : all[i].n = Place(f, p, i)
         /\ DOMAIN g \subseteq 1 .. c /\ \A i \in DOMAIN g : g[i].n = Place(f, p, i)
    BY <1>3, <2>2, <2>4, <2>5, <2>6, <2>8, <2>9
  <2>. QED  BY <1>0, <1>2, <2>10
<1>10. CASE rsp[t] = "push"
  <2>1. g = <<>> /\ m = 0 /\ e = <<[req |-> t, n |-> f]>>
    BY <1>0, <1>2, <1>3, <1>8, <1>10
  <2>2. e \in Seq(Chunk) /\ Len(e) = 1 /\ e[1].n = f /\ g \o e = e
    <3>1. [req |-> t, n |-> f] \in Chunk
      BY <1>3 DEF Chunk
    <3>. QED  BY <2>1, <3>1
  <2>3. /\ Len(all) = 1 + n /\ DOMAIN all = 1 .. (1 + n)
        /\ \A i \in 1 .. 1 : all[i] = e[i]
        /\ \A i \in 1 .. n : all[1 + i] = b[i]
    <3>1. all = e \o b /\ e \in Seq(Chunk) /\ b \in Seq(Chunk)
      BY <1>1, <1>3, <2>2
    <3>2. PICK k : k = Len(e)
      OBVIOUS
    <3>3. /\ Len(all) = k + n /\ DOMAIN all = 1 .. (k + n)
          /\ \A i \in 1 .. k : all[i] = e[i]
          /\ \A i \in 1 .. n : all[k + i] = b[i]
      BY <1>2, <3>1, <3>2, ConcatAt
    <3>4. k = 1
      BY <2>2, <3>2
    <3>. QED  BY <3>3, <3>4
  <2>4. \A i \in 1 .. n : b[i].n = f + i
    <3>1. Shape(t, n + 1)
      BY <1>3, <1>4, <1>8, <1>10, <2>1 DEF Shaped
    <3>2. \A i \in 1 .. n : i \in 1 .. (m + n) /\ i < n + 1 /\ m + i = i
      BY <1>3, <2>1
    <3>3. \A i \in 1 .. n : Num(t, i) = Place(f, n + 1, i)
      BY <1>7, <3>1, <3>2
    <3>4. \A i \in 1 .. n : Num(t, i) = b[i].n
      BY <1>6, <3>2
    <3>. QED  BY <3>2, <3>3, <3>4 DEF Place
  <2>5. \A i \in 1 .. (1 + n) : all[i].n = Place(f, 1, i)
    <3>1. \A i \in 1 .. (1 + n) : i = 1 \/ (i - 1 \in 1 .. n /\ 1 + (i - 1) = i /\ f + (i - 1) = f + i - 1)
      BY <1>3
    <3>2. all[1].n = f
      BY <2>2, <2>3
    <3>3. ASSUME NEW i \in 1 .. (1 + n) PROVE all[i].n = Place(f, 1, i)
      <4>1. CASE i = 1
        BY <3>2, <4>1 DEF Place
      <4>2. CASE i # 1
        <5>1. i - 1 \in 1 .. n /\ 1 + (i - 1) = i /\ f + (i - 1) = f + i - 1 /\ ~(i < 1)
          BY <1>3, <4>2
        <5>2. all[i].n = f + (i - 1)
          BY <2>3, <2>4, <5>1
        <5>. QED  BY <4>2, <5>1, <5>2 DEF Place
      <4>. QED  BY <4>1, <4>2
    <3>. QED  BY <3>3
  <2>6. Upto(t) = f + (m + n) + 1
    BY <1>2, <1>4, <1>10 DEF Upto
  <2>7. 1 + n \in Nat /\ Upto(t) = f + (1 + n) /\ 1 \in 1 .. ((1 + n) + 1)
    BY <1>3, <2>1, <2>6
  <2>8. DOMAIN got[t] = {}
    BY <1>0, <2>1
  <2>. QED  BY <1>2, <2>3, <2>5, <2>7, <2>8
<1>. QED  BY <1>9, <1>10

\* For any number of calls and chunks, reconnects and drops: what a caller got
\* and still finds in its slot are the chunks of its body, each once and without
\* a gap, and only the rest create_response gives back can be out of place, until
\* the application reads past a torn record.
THEOREM ChunksDeliveredOnce == Spec => []DeliveredOnce
<1>1. PermitInv /\ Sound => DeliveredOnce
  <2>. SUFFICES ASSUME PermitInv, DeliveryInv, NEW t \in Req, pc[t] \in {"run", "body", "done"},
                       NEW all, all = Received(t)
                PROVE  /\ {all[i].n : i \in DOMAIN all} = first[t] .. first[t] + Len(all) - 1
                       /\ \A i, j \in DOMAIN got[t] :
                             i < j /\ got[t][j].n # first[t] =>
                                got[t][i].n < got[t][j].n \/ got[t][i].n = first[t]
    BY DEF DeliveredOnce, Sound
  <2>1. CallInv(t) /\ first[t] \in Nat
    BY ChunkTypes DEF DeliveryInv
  <2>2. PICK c \in Nat : \E p \in 1 .. (c + 1) :
              /\ p <= c \/ p = 1
              /\ Len(all) = c /\ DOMAIN all = 1 .. c
              /\ \A i \in 1 .. c : all[i].n = Place(first[t], p, i)
              /\ DOMAIN got[t] \subseteq 1 .. c
              /\ \A i \in DOMAIN got[t] : got[t][i].n = Place(first[t], p, i)
    BY <2>1, ReceivedPlaces
  <2>3. PICK p \in 1 .. (c + 1) :
              /\ p <= c \/ p = 1
              /\ Len(all) = c /\ DOMAIN all = 1 .. c
              /\ \A i \in 1 .. c : all[i].n = Place(first[t], p, i)
              /\ DOMAIN got[t] \subseteq 1 .. c
              /\ \A i \in DOMAIN got[t] : got[t][i].n = Place(first[t], p, i)
    BY <2>2
  <2>4. {all[i].n : i \in DOMAIN all} = {Place(first[t], p, i) : i \in 1 .. c}
    BY <2>3
  <2>5. PICK f \in Nat : f = first[t]
    BY <2>1
  <2>6. /\ {Place(f, p, i) : i \in 1 .. c} = f .. f + c - 1
        /\ \A i, j \in 1 .. c : i < j /\ Place(f, p, j) # f =>
              Place(f, p, i) < Place(f, p, j) \/ Place(f, p, i) = f
    <3>1. p <= c \/ p = 1
      BY <2>3
    <3>. QED  BY <3>1, Placed
  <2>7. {all[i].n : i \in DOMAIN all} = first[t] .. first[t] + Len(all) - 1
    BY <2>3, <2>4, <2>5, <2>6
  <2>8. ASSUME NEW i \in DOMAIN got[t], NEW j \in DOMAIN got[t], i < j, got[t][j].n # first[t]
        PROVE  got[t][i].n < got[t][j].n \/ got[t][i].n = first[t]
    BY <2>3, <2>5, <2>6, <2>8
  <2>. QED  BY <2>7, <2>8
<1>. QED  BY <1>1, SoundAlways, PTL

\* When the EndRequest of a call was distributed, its caller has, or will find in
\* the slot, every chunk the application sent: poll_resp never ends a request
\* before its output, until the application reads past a torn record.
THEOREM BodiesComplete == Spec => []CompleteAtEnd
<1>1. PermitInv /\ Sound => CompleteAtEnd
  <2>. SUFFICES ASSUME PermitInv, DeliveryInv, NEW t \in fin, pc[t] \in {"run", "body", "done"}
                PROVE  first[t] + Len(Received(t)) - 1 = sent[t]
    BY DEF CompleteAtEnd, Sound
  <2>1. t \in Req
    BY DEF PermitInv, TypeOK
  <2>2. CallInv(t) /\ first[t] \in Nat /\ sent[t] \in Nat
    BY <2>1, ChunkTypes DEF DeliveryInv
  <2>3. Upto(t) = sent[t] + 1
    BY <2>2 DEF CallInv, Live
  <2>4. PICK c \in Nat : Len(Received(t)) = c /\ Upto(t) = first[t] + c
    BY <2>1, <2>2, ReceivedPlaces
  <2>. QED  BY <2>2, <2>3, <2>4
<1>. QED  BY <1>1, SoundAlways, PTL
=============================================================================
