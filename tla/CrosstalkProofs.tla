--------------------------- MODULE CrosstalkProofs ---------------------------
(***************************************************************************)
(* A request id may be used again while the application still has records  *)
(* of its former owner under way, or while its own are still queued.  This *)
(* module proves that it never is: the output of one request does not      *)
(* reach another, the application works on one request per id and reads    *)
(* its input from the call it works for, as long as it does not read past  *)
(* a record left torn, and again on the connection after that one.         *)
(***************************************************************************)
EXTENDS ConnectionProofs

Tag(r) == [key |-> r.key, req |-> r.req]

\* Requests that still may or do produce output on this connection: their
\* BeginRequest is queued, the application works on them, or records of them
\* are under way to the client.
Queueing  == {Tag(outbuf[i]) : i \in {j \in DOMAIN outbuf : outbuf[j].type = "begin"}}
Answering == {Tag(inbuf[i]) : i \in DOMAIN inbuf}
Flight    == Queueing \cup active \cup Answering

\* Ids are not given out any more before a new connection replaces this one:
\* it was closed, or the BufReader is stuck with part of a header and the poll
\* that left it so is over.
Sealed == closed \/ (partial /\ poll \notin {"more", "ready", "pending"})

\* A slot whose id is in flight belongs to the request in flight.
FlightOwned == \A y \in Flight : y.key \in DOMAIN slab => slab[y.key].owner = y.req

\* An id in flight is not up for reuse: its slot is there and has not ended.
FlightAnchored == Sealed \/ \A y \in Flight : y.key \in DOMAIN slab /\ ~slab[y.key].ended

\* The id of a call that has not begun its request is not in flight.
FreshId == \A t \in Req : pc[t] = "begin" => \A y \in Flight : y.key # key[t]

\* BeginRequest comes first, and what follows for the id is of the same call.
BeginFirst ==
    /\ \A i, j \in DOMAIN outbuf :
          i < j /\ outbuf[i].type = "begin" /\ outbuf[j].key = outbuf[i].key =>
             outbuf[j].type # "begin" /\ outbuf[j].req = outbuf[i].req
    /\ \A x \in active, j \in DOMAIN outbuf :
          outbuf[j].key = x.key => outbuf[j].type # "begin" /\ outbuf[j].req = x.req

\* EndRequest comes last: nothing else of its id is in flight behind it.
EndLast ==
    \A i \in DOMAIN inbuf : inbuf[i].type = "end" =>
        /\ \A j \in DOMAIN inbuf : i < j => inbuf[j].key # inbuf[i].key
        /\ \A y \in active \cup Queueing : y.key # inbuf[i].key

\* The application works on one request per id.
OneActive == \A x, y \in active : x.key = y.key => x = y

\* A lost connection carries nothing to or from the application's requests.
LostIdle == net # "open" => active = {} /\ outbuf = <<>>

\* Calls outside forward, and the end of forward for good with close.
Calm == {"acquire", "body", "done", "failed", "dropped"}
ClosedQuiet == closed => \A t \in Req : pc[t] \in Calm

\* What holds of a connection on which the application did not read past a torn record.
FlightInv ==
    /\ FlightOwned /\ FlightAnchored /\ FreshId
    /\ BeginFirst /\ EndLast /\ OneActive
    /\ LostIdle /\ ClosedQuiet

\* Slots and callers have chunks of their own request only.
Pure ==
    /\ \A k \in DOMAIN slab : \A i \in DOMAIN slab[k].buf :
          slab[k].buf[i].req = slab[k].owner
    /\ \A t \in Req : \A i \in DOMAIN got[t] : got[t][i].req = t

\* A step keeps both.
FlightKept == FlightInv' /\ (Pure => Pure')

\* The inductive invariant: what the application makes of a torn record is over with
\* the connection, the chunks it sent meanwhile are not.
Parted == /\ garbled # "now" => FlightInv
          /\ garbled = "no" => Pure
          /\ ClosedQuiet

-----------------------------------------------------------------------------
(* The mutex is held from check_alive to the end of the headers *)

Connecting == {"connect", "begin", "params", "stdin"}

\* While forward connects and writes, nobody else polls the connection, so a
\* slot does not end before its BeginRequest is written.
ForwardHolds ==
    \A t \in Req :
        /\ pc[t] \in {"alive"} \cup Connecting => lock = <<t, "fwd">>
        /\ pc[t] \in Connecting => poll = "idle"
        /\ pc[t] = "begin" => ~slab[key[t]].ended

\* Whoever is in that part of forward was there, and nobody else touched
\* the mutex, the poll or the slot.
HoldKept ==
    \A u \in Req : pc'[u] \in {"alive"} \cup Connecting =>
        /\ pc'[u] = pc[u] \/ (pc[u] = "begin" /\ pc'[u] = "params")
                          \/ (pc[u] = "params" /\ pc'[u] = "stdin")
        /\ lock' = lock
        /\ pc[u] \in Connecting => poll' = poll
        /\ pc'[u] = "begin" => key'[u] = key[u] /\ slab'[key[u]].ended = slab[key[u]].ended

\* A step that keeps whoever connects or writes in place keeps the mutex with it.
LEMMA KeepHold == ASSUME ForwardHolds, HoldKept PROVE ForwardHolds'
  BY DEF ForwardHolds, HoldKept, Connecting

\* poll_resp runs for nobody who connects or writes.
LEMMA HoldPollResp == PermitInv /\ ForwardHolds /\ PollResp => ForwardHolds'
<1>. SUFFICES ASSUME PermitInv, ForwardHolds, PollResp PROVE ForwardHolds'
  OBVIOUS
<1>1. poll # "idle" /\ UNCHANGED <<pc, key, lock>>
  BY DEF PollResp, RespOut, RespEnd, RespFree, RespSkip, RespSplit, RespReady, RespPending,
         RespClosed, RespError, Parsing, client, inner
<1>2. HoldKept
  BY <1>1 DEF ForwardHolds, HoldKept, Connecting
<1>. QED  BY <1>2, KeepHold

\* forward takes the mutex, keeps it over the headers and lets it go.
LEMMA HoldForward == \A t \in Req : PermitInv /\ ForwardHolds /\ Forward(t) => ForwardHolds'
<1>. SUFFICES ASSUME NEW t \in Req, PermitInv, ForwardHolds, Forward(t) PROVE ForwardHolds'
  OBVIOUS
<1>. USE DEF client, inner, wire, app, hist
<1>t. TypeOK /\ pc \in [Req -> Stage] /\ key \in [Req -> Nat]
  BY DEF PermitInv, TypeOK
<1>f. \A u \in Req : Free # <<u, "fwd">>
  BY FreeAssumption
<1>1. CASE Acquire(t)
  <2>1. HoldKept
    BY <1>1, <1>t DEF Acquire, HoldKept, Connecting
  <2>. QED  BY <2>1, KeepHold
<1>2. CASE StartCheck(t)
  <2>1. \A u \in Req : pc[u] \notin {"alive"} \cup Connecting
    BY <1>2, <1>f DEF StartCheck, ForwardHolds
  <2>. QED  BY <1>2, <1>t, <2>1 DEF StartCheck, ForwardHolds, Connecting
<1>3. CASE Alive(t) \/ Connected(t)
  <2>1. PICK k \in Vacant : Insert(t, k)
    BY <1>3 DEF Alive, Connected
  <2>2. pc[t] \in {"alive", "connect"} /\ pc' = [pc EXCEPT ![t] = "begin"] /\ lock' = lock
    BY <1>3 DEF Alive, Connected
  <2>3. lock = <<t, "fwd">> /\ poll' = "idle"
    BY <1>3, <2>2 DEF Alive, Connected, ForwardHolds, Connecting
  <2>4. \A u \in Req \ {t} : pc'[u] = pc[u] /\ pc[u] \notin {"alive"} \cup Connecting
    BY <1>t, <2>2, <2>3 DEF ForwardHolds
  <2>5. ~slab'[key'[t]].ended
    BY <1>t, <2>1 DEF Insert
  <2>. QED  BY <1>t, <2>2, <2>3, <2>4, <2>5 DEF ForwardHolds, Connecting
<1>4. CASE NotAlive(t)
  <2>1. lock = <<t, "fwd">> /\ pc' = [pc EXCEPT ![t] = "connect"] /\ lock' = lock /\ poll' = "idle"
    BY <1>4 DEF NotAlive, ForwardHolds
  <2>2. \A u \in Req \ {t} : pc'[u] = pc[u] /\ pc[u] \notin {"alive"} \cup Connecting
    BY <1>t, <2>1 DEF ForwardHolds
  <2>. QED  BY <1>t, <2>1, <2>2 DEF ForwardHolds, Connecting
<1>5. CASE AliveError(t) \/ ConnectFail(t) \/ RejectHeader(t) \/ WriteStdin(t) \/ WriteFail(t)
           \/ (WriteParams(t) /\ t \in WithBody)
  <2>1. /\ pc[t] \in {"alive"} \cup Connecting
        /\ \E s \in {"failed", "run"} : pc' = [pc EXCEPT ![t] = s]
    BY <1>5 DEF AliveError, ConnectFail, RejectHeader, WriteStdin, WriteFail, WriteParams,
                Connecting
  <2>2. \A u \in Req : pc'[u] \notin {"alive"} \cup Connecting
    BY <1>t, <2>1 DEF ForwardHolds, Connecting
  <2>. QED  BY <2>2 DEF ForwardHolds, Connecting
<1>6. CASE WriteBegin(t) \/ (WriteParams(t) /\ t \notin WithBody)
  <2>1. /\ UNCHANGED <<key, lock, poll, slab>>
        /\ \/ pc[t] = "begin" /\ pc' = [pc EXCEPT ![t] = "params"]
           \/ pc[t] = "params" /\ pc' = [pc EXCEPT ![t] = "stdin"]
    BY <1>6 DEF WriteBegin, WriteParams
  <2>2. HoldKept
    BY <1>t, <2>1 DEF HoldKept, Connecting
  <2>. QED  BY <2>2, KeepHold
<1>. QED  BY <1>1, <1>2, <1>3, <1>4, <1>5, <1>6 DEF Forward

\* Steps of calls beyond their headers: they hold the mutex themselves, or leave
\* it and the slots of others alone.
LEMMA HoldOther ==
    \A t \in Req : PermitInv /\ ForwardHolds /\ (SendBody(t) \/ Response(t) \/ GiveUp(t)) =>
        ForwardHolds'
<1>. SUFFICES ASSUME NEW t \in Req, PermitInv, ForwardHolds,
                     SendBody(t) \/ Response(t) \/ GiveUp(t)
              PROVE  ForwardHolds'
  OBVIOUS
<1>. USE DEF client, inner, wire, app, hist
<1>t. /\ TypeOK /\ pc \in [Req -> Stage] /\ key \in [Req -> Nat]
      /\ lock \in (Req \X Future) \cup {Free}
  BY DEF PermitInv, TypeOK
<1>f. \A u \in Req : Free # <<u, "fwd">>
  BY FreeAssumption
<1>1. CASE BodyChunk(t) \/ BodyEnd(t) \/ StartResponse(t)
  <2>1. UNCHANGED <<pc, key, lock, poll, slab>>
    BY <1>1 DEF BodyChunk, BodyEnd, StartResponse
  <2>. QED  BY <2>1 DEF ForwardHolds
<1>2. CASE SendLock(t) \/ FrameLock(t)
  <2>1. lock = Free /\ UNCHANGED <<pc, key, slab>>
    BY <1>2, <1>t DEF SendLock, FrameLock, Uncontended
  <2>2. \A u \in Req : pc[u] \notin {"alive"} \cup Connecting
    BY <1>f, <2>1 DEF ForwardHolds
  <2>. QED  BY <2>1, <2>2 DEF ForwardHolds
<1>3. CASE \/ WriteChunk(t) \/ WriteEnd(t) \/ WriteAbort(t) \/ SendFail(t)
           \/ FrameWait(t) \/ FrameEnd(t) \/ FrameData(t) \/ FrameHeader(t)
  <2>1. /\ lock \in {<<t, "send">>, <<t, "resp">>}
        /\ \/ pc' = pc
           \/ \E s \in {"failed", "done"} : pc' = [pc EXCEPT ![t] = s]
    BY <1>3 DEF WriteChunk, WriteEnd, WriteAbort, SendFail, FrameWait, FrameEnd, FrameData,
                FrameHeader, Polled
  <2>2. \A u \in Req : pc[u] \notin {"alive"} \cup Connecting
    BY <2>1 DEF ForwardHolds
  <2>3. \A u \in Req : pc'[u] \notin {"alive"} \cup Connecting
    BY <1>t, <2>1, <2>2 DEF Connecting
  <2>. QED  BY <2>3 DEF ForwardHolds, Connecting
<1>4. CASE PushRest(t)
  <2>1. lock = Free /\ pc' = pc
    BY <1>4 DEF PushRest
  <2>2. \A u \in Req : pc[u] \notin {"alive"} \cup Connecting
    BY <1>f, <2>1 DEF ForwardHolds
  <2>. QED  BY <2>1, <2>2 DEF ForwardHolds, Connecting
<1>5. CASE Respond(t)
  <2>1. pc' = [pc EXCEPT ![t] = "body"] /\ UNCHANGED <<key, lock, poll, slab>>
    BY <1>5 DEF Respond
  <2>2. HoldKept
    BY <1>t, <2>1 DEF HoldKept, Connecting
  <2>. QED  BY <2>2, KeepHold
<1>6. CASE DropBody(t)
  <2>1. /\ pc[t] \in {"run", "body"} /\ DropFCGIBody(t) /\ pc' = [pc EXCEPT ![t] = "dropped"]
        /\ UNCHANGED <<key, poll>>
    BY <1>6 DEF DropBody
  <2>2. \A j \in DOMAIN slab : slab'[j].ended = slab[j].ended
    BY <1>t, <2>1, DropType
  <2>3. \A u \in Req : pc'[u] \in {"alive"} \cup Connecting => u # t /\ pc'[u] = pc[u]
    BY <1>t, <2>1 DEF Connecting
  <2>4. \A u \in Req : pc'[u] \in {"alive"} \cup Connecting => lock' = lock
    BY <2>1, <2>3 DEF ForwardHolds, DropFCGIBody
  <2>5. \A u \in Req : pc'[u] = "begin" => key[u] \in DOMAIN slab
    BY <2>3 DEF PermitInv, BodyHasSlot, Owning, Connecting
  <2>6. HoldKept
    BY <2>1, <2>2, <2>3, <2>4, <2>5 DEF HoldKept, Connecting
  <2>. QED  BY <2>6, KeepHold
<1>7. CASE CancelForward(t)
  <2>1. /\ pc' = [pc EXCEPT ![t] = "dropped"] /\ UNCHANGED <<key, poll, slab>>
        /\ lock' = IF lock = <<t, "fwd">> THEN Free ELSE lock
    BY <1>7 DEF CancelForward
  <2>2. \A u \in Req : pc'[u] \in {"alive"} \cup Connecting => u # t /\ pc'[u] = pc[u]
    BY <1>t, <2>1 DEF Connecting
  <2>3. \A u \in Req : pc'[u] \in {"alive"} \cup Connecting => lock' = lock
    BY <2>1, <2>2 DEF ForwardHolds
  <2>4. HoldKept
    BY <2>1, <2>2, <2>3 DEF HoldKept
  <2>. QED  BY <2>4, KeepHold
<1>. QED  BY <1>1, <1>2, <1>3, <1>4, <1>5, <1>6, <1>7 DEF SendBody, Response, GiveUp

\* Nobody holds the mutex before the first call.
LEMMA HoldInit == Init => ForwardHolds
  BY DEF Init, ForwardHolds, Connecting

\* The mutex stays where it is over every step.
LEMMA HoldNext == PermitInv /\ ForwardHolds /\ [Next]_vars => ForwardHolds'
<1>. SUFFICES ASSUME PermitInv, ForwardHolds, [Next]_vars PROVE ForwardHolds'
  OBVIOUS
<1>1. CASE PollResp
  BY <1>1, HoldPollResp
<1>2. CASE Close
  <2>1. lock = Free /\ pc' = pc
    BY <1>2 DEF Close, client
  <2>2. \A u \in Req : Free # <<u, "fwd">>
    BY FreeAssumption
  <2>. QED  BY <2>1, <2>2 DEF ForwardHolds, Connecting
<1>3. CASE App \/ UNCHANGED vars
  <2>1. UNCHANGED <<pc, key, lock, poll, slab>>
    BY <1>3 DEF App, AppRecv, AppTorn, AppClose, AppReset, AppStdout, AppNoise, AppEnd, vars,
                client, inner
  <2>. QED  BY <2>1 DEF ForwardHolds
<1>4. ASSUME NEW t \in Req, Forward(t) PROVE ForwardHolds'
  BY <1>4, HoldForward
<1>5. ASSUME NEW t \in Req, SendBody(t) \/ Response(t) \/ GiveUp(t) PROVE ForwardHolds'
  BY <1>5, HoldOther
<1>. QED  BY <1>1, <1>2, <1>3, <1>4, <1>5 DEF Next

-----------------------------------------------------------------------------
(* Facts about the channels *)

ChannelInv == BeginFirst /\ EndLast /\ OneActive

\* Sequence r is what is left of s after some elements were taken out.
Within(r, s) ==
    \E f \in [DOMAIN r -> DOMAIN s] :
        /\ \A i \in DOMAIN r : r[i] = s[f[i]]
        /\ \A i, j \in DOMAIN r : i < j => f[i] < f[j]

\* Where the elements of a longer sequence are.
LEMMA AppendAt ==
    ASSUME NEW S, NEW s \in Seq(S), NEW e \in S, NEW r, r = Append(s, e)
    PROVE  /\ Len(s) \in Nat /\ DOMAIN s = 1 .. Len(s) /\ DOMAIN r = 1 .. (Len(s) + 1)
           /\ r[Len(s) + 1] = e /\ \A i \in 1 .. Len(s) : r[i] = s[i]
OBVIOUS

\* A sequence is within itself, and the empty sequence within every other.
LEMMA WithinSelf ==
    ASSUME NEW S, NEW s \in Seq(S)
    PROVE  Within(s, s) /\ Within(<<>>, s)
<1>1. Within(s, s)
  <2>. DEFINE f == [i \in DOMAIN s |-> i]
  <2>1. f \in [DOMAIN s -> DOMAIN s] /\ \A i \in DOMAIN s : s[i] = s[f[i]]
    OBVIOUS
  <2>2. \A i, j \in DOMAIN s : i < j => f[i] < f[j]
    OBVIOUS
  <2>. QED  BY <2>1, <2>2 DEF Within
<1>2. Within(<<>>, s)
  <2>. DEFINE f == [i \in DOMAIN <<>> |-> i]
  <2>1. f \in [DOMAIN <<>> -> DOMAIN s] /\ DOMAIN <<>> = {}
    OBVIOUS
  <2>. QED  BY <2>1 DEF Within
<1>. QED  BY <1>1, <1>2

\* Consuming a record leaves the others in order.
LEMMA WithinTail ==
    ASSUME NEW S, NEW s \in Seq(S), s # <<>>
    PROVE  /\ Within(Tail(s), s) /\ Tail(s) \in Seq(S) /\ Head(s) \in S
           /\ 1 \in DOMAIN s /\ Head(s) = s[1]
           /\ \A i \in DOMAIN Tail(s) : i + 1 \in DOMAIN s /\ Tail(s)[i] = s[i + 1] /\ i + 1 > 1
<1>1. /\ Len(s) \in Nat \ {0} /\ DOMAIN s = 1 .. Len(s) /\ DOMAIN Tail(s) = 1 .. (Len(s) - 1)
      /\ \A i \in 1 .. (Len(s) - 1) : Tail(s)[i] = s[i + 1]
      /\ Head(s) = s[1] /\ Head(s) \in S /\ Tail(s) \in Seq(S)
  OBVIOUS
<1>. DEFINE f == [i \in DOMAIN Tail(s) |-> i + 1]
<1>2. /\ f \in [DOMAIN Tail(s) -> DOMAIN s]
      /\ \A i \in DOMAIN Tail(s) : Tail(s)[i] = s[f[i]]
      /\ \A i, j \in DOMAIN Tail(s) : i < j => f[i] < f[j]
  BY <1>1
<1>3. Within(Tail(s), s)
  BY <1>2 DEF Within
<1>. QED  BY <1>1, <1>3

\* Records that are taken out of the channels, and requests the application is
\* done with, leave the order of the others alone.
LEMMA Shrink ==
    ASSUME ChannelInv, Within(inbuf', inbuf), Within(outbuf', outbuf), active' \subseteq active
    PROVE  ChannelInv' /\ Flight' \subseteq Flight /\ Queueing' \subseteq Queueing
<1>1. PICK f \in [DOMAIN inbuf' -> DOMAIN inbuf] :
         /\ \A i \in DOMAIN inbuf' : inbuf'[i] = inbuf[f[i]]
         /\ \A i, j \in DOMAIN inbuf' : i < j => f[i] < f[j]
  BY DEF Within
<1>2. PICK g \in [DOMAIN outbuf' -> DOMAIN outbuf] :
         /\ \A i \in DOMAIN outbuf' : outbuf'[i] = outbuf[g[i]]
         /\ \A i, j \in DOMAIN outbuf' : i < j => g[i] < g[j]
  BY DEF Within
<1>3. Answering' \subseteq Answering
  BY <1>1 DEF Answering
<1>4. Queueing' \subseteq Queueing
  BY <1>2 DEF Queueing
<1>5. BeginFirst'
  BY <1>2 DEF ChannelInv, BeginFirst
<1>6. EndLast'
  BY <1>1, <1>4 DEF ChannelInv, EndLast
<1>7. OneActive'
  BY DEF ChannelInv, OneActive
<1>. QED  BY <1>3, <1>4, <1>5, <1>6, <1>7 DEF ChannelInv, Flight

\* The first record is consumed; behind EndRequest nothing of its id is left.
LEMMA ConsumeFirst ==
    ASSUME TypeOK, ChannelInv, inbuf # <<>>, inbuf' = Tail(inbuf),
           UNCHANGED <<active, outbuf>>
    PROVE  /\ ChannelInv' /\ Flight' \subseteq Flight /\ Queueing' \subseteq Queueing
           /\ Tag(Head(inbuf)) \in Flight
           /\ Head(inbuf).type = "end" => \A y \in Flight' : y.key # Head(inbuf).key
<1>1. /\ Within(Tail(inbuf), inbuf) /\ 1 \in DOMAIN inbuf /\ Head(inbuf) = inbuf[1]
      /\ \A i \in DOMAIN Tail(inbuf) :
            i + 1 \in DOMAIN inbuf /\ Tail(inbuf)[i] = inbuf[i + 1] /\ i + 1 > 1
  BY WithinTail DEF TypeOK
<1>2. Within(outbuf', outbuf)
  BY WithinSelf DEF TypeOK
<1>3. ChannelInv' /\ Flight' \subseteq Flight /\ Queueing' \subseteq Queueing
  BY <1>1, <1>2, Shrink
<1>4. Tag(Head(inbuf)) \in Flight
  BY <1>1 DEF Flight, Answering
<1>5. ASSUME Head(inbuf).type = "end", NEW y \in Flight' PROVE y.key # Head(inbuf).key
  <2>1. CASE y \in active \cup Queueing
    BY <1>1, <1>5, <2>1 DEF ChannelInv, EndLast
  <2>2. CASE y \in Answering'
    <3>1. PICK i \in DOMAIN Tail(inbuf) : y.key = Tail(inbuf)[i].key
      BY <2>2 DEF Answering, Tag
    <3>. QED  BY <1>1, <1>5, <3>1 DEF ChannelInv, EndLast
  <2>3. Queueing' = Queueing
    BY DEF Queueing
  <2>. QED  BY <1>5, <2>1, <2>2, <2>3 DEF Flight
<1>. QED  BY <1>3, <1>4, <1>5

\* Whatever is queued, begun or answered is in flight under its id.
LEMMA InFlight ==
    /\ \A i \in DOMAIN outbuf : outbuf[i].type = "begin" =>
          /\ Tag(outbuf[i]) \in Queueing /\ Tag(outbuf[i]) \in Flight
          /\ Tag(outbuf[i]).key = outbuf[i].key /\ Tag(outbuf[i]).req = outbuf[i].req
    /\ \A i \in DOMAIN inbuf :
          /\ Tag(inbuf[i]) \in Flight
          /\ Tag(inbuf[i]).key = inbuf[i].key /\ Tag(inbuf[i]).req = inbuf[i].req
<1>1. ASSUME NEW i \in DOMAIN outbuf, outbuf[i].type = "begin" PROVE Tag(outbuf[i]) \in Queueing
  BY <1>1 DEF Queueing
<1>2. ASSUME NEW i \in DOMAIN inbuf PROVE Tag(inbuf[i]) \in Answering
  BY DEF Answering
<1>3. \A r : Tag(r).key = r.key /\ Tag(r).req = r.req
  BY DEF Tag
<1>. QED  BY <1>1, <1>2, <1>3 DEF Flight

\* A record that begins nothing is queued behind those of the same call.
LEMMA QueueMore ==
    ASSUME TypeOK, ChannelInv, NEW r \in OutRec, r.type # "begin", outbuf' = Append(outbuf, r),
           UNCHANGED <<active, inbuf>>,
           \A y \in active \cup Queueing : y.key = r.key => y.req = r.req
    PROVE  ChannelInv' /\ Flight' \subseteq Flight /\ Queueing' \subseteq Queueing
<1>. DEFINE n == Len(outbuf)
<1>1. /\ n \in Nat /\ DOMAIN outbuf = 1 .. n /\ DOMAIN outbuf' = 1 .. (n + 1)
      /\ outbuf'[n + 1] = r /\ \A i \in 1 .. n : outbuf'[i] = outbuf[i]
  BY AppendAt DEF TypeOK
<1>. HIDE DEF n
<1>2. Queueing' \subseteq Queueing
  BY <1>1 DEF Queueing
<1>3. Answering' = Answering
  BY DEF Answering
<1>4. \A i \in 1 .. n : outbuf[i].type = "begin" /\ outbuf[i].key = r.key => outbuf[i].req = r.req
  BY <1>1, InFlight
<1>5. BeginFirst'
  <2>1. ASSUME NEW i \in DOMAIN outbuf', NEW j \in DOMAIN outbuf', i < j,
               outbuf'[i].type = "begin", outbuf'[j].key = outbuf'[i].key
        PROVE  outbuf'[j].type # "begin" /\ outbuf'[j].req = outbuf'[i].req
    <3>1. i \in 1 .. n /\ outbuf'[i] = outbuf[i]
      BY <1>1, <2>1
    <3>2. CASE j = n + 1
      BY <1>1, <1>4, <2>1, <3>1, <3>2
    <3>3. CASE j \in 1 .. n
      BY <1>1, <2>1, <3>1, <3>3 DEF ChannelInv, BeginFirst
    <3>. QED  BY <1>1, <3>2, <3>3
  <2>2. ASSUME NEW x \in active', NEW j \in DOMAIN outbuf', outbuf'[j].key = x.key
        PROVE  outbuf'[j].type # "begin" /\ outbuf'[j].req = x.req
    <3>1. CASE j = n + 1
      BY <1>1, <2>2, <3>1
    <3>2. CASE j \in 1 .. n
      BY <1>1, <2>2, <3>2 DEF ChannelInv, BeginFirst
    <3>. QED  BY <1>1, <3>1, <3>2
  <2>. QED  BY <2>1, <2>2 DEF BeginFirst
<1>6. EndLast'
  BY <1>2 DEF ChannelInv, EndLast
<1>7. OneActive'
  BY DEF ChannelInv, OneActive
<1>. QED  BY <1>2, <1>3, <1>5, <1>6, <1>7 DEF ChannelInv, Flight

\* BeginRequest is queued for an id that is not in flight.
LEMMA QueueBegin ==
    ASSUME TypeOK, ChannelInv, NEW r \in OutRec, r.type = "begin", outbuf' = Append(outbuf, r),
           UNCHANGED <<active, inbuf>>, \A y \in Flight : y.key # r.key
    PROVE  /\ ChannelInv' /\ Flight' \subseteq Flight \cup {Tag(r)}
           /\ Queueing' \subseteq Queueing \cup {Tag(r)}
<1>. DEFINE n == Len(outbuf)
<1>1. /\ n \in Nat /\ DOMAIN outbuf = 1 .. n /\ DOMAIN outbuf' = 1 .. (n + 1)
      /\ outbuf'[n + 1] = r /\ \A i \in 1 .. n : outbuf'[i] = outbuf[i]
  BY AppendAt DEF TypeOK
<1>. HIDE DEF n
<1>2. Queueing' \subseteq Queueing \cup {Tag(r)}
  BY <1>1 DEF Queueing
<1>3. Answering' = Answering
  BY DEF Answering
<1>4. \A i \in 1 .. n : outbuf[i].type = "begin" => outbuf[i].key # r.key
  BY <1>1, InFlight
<1>5. BeginFirst'
  <2>1. ASSUME NEW i \in DOMAIN outbuf', NEW j \in DOMAIN outbuf', i < j,
               outbuf'[i].type = "begin", outbuf'[j].key = outbuf'[i].key
        PROVE  outbuf'[j].type # "begin" /\ outbuf'[j].req = outbuf'[i].req
    <3>1. i \in 1 .. n /\ outbuf'[i] = outbuf[i]
      BY <1>1, <2>1
    <3>2. CASE j = n + 1
      BY <1>1, <1>4, <2>1, <3>1, <3>2
    <3>3. CASE j \in 1 .. n
      BY <1>1, <2>1, <3>1, <3>3 DEF ChannelInv, BeginFirst
    <3>. QED  BY <1>1, <3>2, <3>3
  <2>2. ASSUME NEW x \in active', NEW j \in DOMAIN outbuf', outbuf'[j].key = x.key
        PROVE  outbuf'[j].type # "begin" /\ outbuf'[j].req = x.req
    <3>1. CASE j = n + 1
      BY <1>1, <2>2, <3>1 DEF Flight
    <3>2. CASE j \in 1 .. n
      BY <1>1, <2>2, <3>2 DEF ChannelInv, BeginFirst
    <3>. QED  BY <1>1, <3>1, <3>2
  <2>. QED  BY <2>1, <2>2 DEF BeginFirst
<1>6. EndLast'
  <2>1. \A i \in DOMAIN inbuf : inbuf[i].key # r.key
    BY InFlight
  <2>2. Tag(r).key = r.key
    BY DEF Tag
  <2>. QED  BY <1>2, <2>1, <2>2 DEF ChannelInv, EndLast
<1>7. OneActive'
  BY DEF ChannelInv, OneActive
<1>. QED  BY <1>2, <1>3, <1>5, <1>6, <1>7 DEF ChannelInv, Flight

\* The application takes up a request, or reads its input.
LEMMA Receive ==
    ASSUME TypeOK, ChannelInv, AppRecv
    PROVE  ChannelInv' /\ Flight' \subseteq Flight /\ Queueing' \subseteq Queueing
<1>. DEFINE r == Head(outbuf)
<1>1. /\ Within(Tail(outbuf), outbuf) /\ 1 \in DOMAIN outbuf /\ r = outbuf[1] /\ r \in OutRec
      /\ \A i \in DOMAIN Tail(outbuf) :
            i + 1 \in DOMAIN outbuf /\ Tail(outbuf)[i] = outbuf[i + 1] /\ i + 1 > 1
  BY WithinTail DEF TypeOK, AppRecv
<1>. HIDE DEF r
<1>2. outbuf' = Tail(outbuf) /\ inbuf' = inbuf
  BY DEF AppRecv
<1>3. Queueing' \subseteq Queueing
  BY <1>1, <1>2 DEF Queueing
<1>4. Answering' = Answering
  BY <1>2 DEF Answering
<1>5. CASE r.type # "begin"
  <2>1. active' = active
    BY <1>5 DEF AppRecv, r
  <2>2. Within(inbuf', inbuf)
    BY <1>2, WithinSelf DEF TypeOK
  <2>. QED  BY <1>1, <1>2, <2>1, <2>2, Shrink
<1>6. CASE r.type = "begin"
  <2>1. active' = active \cup {Tag(r)}
    BY <1>6 DEF AppRecv, Tag, r
  <2>2. Tag(r) \in Queueing /\ Tag(r).key = r.key /\ Tag(r).req = r.req
    BY <1>1, <1>6 DEF Queueing, Tag
  <2>3. BeginFirst'
    <3>1. ASSUME NEW i \in DOMAIN outbuf', NEW j \in DOMAIN outbuf', i < j,
                 outbuf'[i].type = "begin", outbuf'[j].key = outbuf'[i].key
          PROVE  outbuf'[j].type # "begin" /\ outbuf'[j].req = outbuf'[i].req
      <4>1. /\ i + 1 \in DOMAIN outbuf /\ outbuf'[i] = outbuf[i + 1]
            /\ j + 1 \in DOMAIN outbuf /\ outbuf'[j] = outbuf[j + 1]
        BY <1>1, <1>2
      <4>2. i + 1 < j + 1
        BY <3>1, <4>1, <1>2, <1>1 DEF TypeOK
      <4>. QED  BY <3>1, <4>1, <4>2 DEF ChannelInv, BeginFirst
    <3>2. ASSUME NEW x \in active', NEW j \in DOMAIN outbuf', outbuf'[j].key = x.key
          PROVE  outbuf'[j].type # "begin" /\ outbuf'[j].req = x.req
      <4>1. j + 1 \in DOMAIN outbuf /\ outbuf'[j] = outbuf[j + 1] /\ 1 < j + 1
        BY <1>1, <1>2
      <4>2. CASE x \in active
        BY <3>2, <4>1, <4>2 DEF ChannelInv, BeginFirst
      <4>3. CASE x = Tag(r)
        BY <1>1, <1>6, <2>2, <3>2, <4>1, <4>3 DEF ChannelInv, BeginFirst
      <4>. QED  BY <2>1, <4>2, <4>3
    <3>. QED  BY <3>1, <3>2 DEF BeginFirst
  <2>4. EndLast'
    BY <1>2, <1>3, <2>1, <2>2 DEF ChannelInv, EndLast
  <2>5. OneActive'
    <3>1. \A x \in active : x.key # Tag(r).key
      BY <1>1, <1>6, <2>2 DEF ChannelInv, BeginFirst
    <3>. QED  BY <2>1, <3>1 DEF ChannelInv, OneActive
  <2>. QED  BY <1>3, <1>4, <2>1, <2>2, <2>3, <2>4, <2>5 DEF ChannelInv, Flight
<1>. QED  BY <1>5, <1>6

\* The application sends a record for a request it works on; EndRequest ends
\* its work.
LEMMA SendRecord ==
    ASSUME TypeOK, ChannelInv, NEW x \in active, NEW type \in {"stdout", "end", "noise"},
           NEW n \in Nat, Emit(type, x, n), outbuf' = outbuf,
           active' = IF type = "end" THEN active \ {x} ELSE active
    PROVE  ChannelInv' /\ Flight' \subseteq Flight /\ Queueing' \subseteq Queueing
<1>. DEFINE r == [type |-> type, key |-> x.key, req |-> x.req, n |-> n]
            m == Len(inbuf)
<1>1. x \in [key : Nat, req : Req] /\ r \in InRec
  BY DEF TypeOK, InRec
<1>2. /\ m \in Nat /\ DOMAIN inbuf = 1 .. m /\ DOMAIN inbuf' = 1 .. (m + 1)
      /\ inbuf'[m + 1] = r /\ \A i \in 1 .. m : inbuf'[i] = inbuf[i]
  BY <1>1, AppendAt DEF TypeOK, Emit
<1>3. r.type = type /\ r.key = x.key /\ Tag(r) = x
  BY <1>1 DEF Tag
<1>. HIDE DEF m, r
<1>4. Queueing' = Queueing
  BY DEF Queueing
<1>5. Answering' \subseteq Answering \cup {x}
  BY <1>2, <1>3 DEF Answering
<1>6. BeginFirst'
  BY DEF ChannelInv, BeginFirst
<1>7. OneActive'
  BY DEF ChannelInv, OneActive
<1>8. EndLast'
  <2>. SUFFICES ASSUME NEW i \in DOMAIN inbuf', inbuf'[i].type = "end"
                PROVE  /\ \A j \in DOMAIN inbuf' : i < j => inbuf'[j].key # inbuf'[i].key
                       /\ \A y \in active' \cup Queueing' : y.key # inbuf'[i].key
    BY DEF EndLast
  <2>1. CASE i = m + 1
    <3>1. type = "end" /\ inbuf'[i].key = x.key
      BY <1>2, <1>3, <2>1
    <3>2. \A y \in active' : y.key # x.key
      BY <3>1 DEF ChannelInv, OneActive
    <3>3. \A y \in Queueing : y.key # x.key
      BY DEF ChannelInv, BeginFirst, Queueing, Tag
    <3>. QED  BY <1>2, <1>4, <2>1, <3>1, <3>2, <3>3
  <2>2. CASE i \in 1 .. m
    <3>1. inbuf'[i] = inbuf[i] /\ x.key # inbuf[i].key
      BY <1>2, <2>2 DEF ChannelInv, EndLast
    <3>2. \A j \in DOMAIN inbuf' : i < j => inbuf'[j].key # inbuf'[i].key
      <4>. SUFFICES ASSUME NEW j \in DOMAIN inbuf', i < j PROVE inbuf'[j].key # inbuf[i].key
        BY <3>1
      <4>1. CASE j = m + 1
        BY <1>2, <1>3, <3>1, <4>1
      <4>2. CASE j \in 1 .. m
        BY <1>2, <2>2, <3>1, <4>2 DEF ChannelInv, EndLast
      <4>. QED  BY <1>2, <4>1, <4>2
    <3>3. \A y \in active' \cup Queueing' : y.key # inbuf'[i].key
      BY <1>2, <1>4, <2>2, <3>1 DEF ChannelInv, EndLast
    <3>. QED  BY <3>2, <3>3
  <2>. QED  BY <1>2, <2>1, <2>2
<1>9. active' \subseteq active
  OBVIOUS
<1>. QED  BY <1>4, <1>5, <1>6, <1>7, <1>8, <1>9 DEF ChannelInv, Flight

-----------------------------------------------------------------------------
(* How a step keeps the parts of the invariant *)

\* The slots there are keep their owners.
OwnersKept == \A k \in DOMAIN slab' : k \in DOMAIN slab /\ slab'[k].owner = slab[k].owner

\* A slot in flight is neither ended nor removed, unless ids are sealed.
AnchorsKept ==
    \/ Sealed'
    \/ \A y \in Flight' : y.key \in DOMAIN slab /\ ~slab[y.key].ended =>
                           y.key \in DOMAIN slab' /\ ~slab'[y.key].ended

\* No call comes to a fresh id, and none starts after close.
CallsKept ==
    \A u \in Req : /\ pc'[u] = "begin" => pc[u] = "begin" /\ key'[u] = key[u]
                   /\ closed' => pc'[u] \in Calm \/ (closed /\ pc'[u] = pc[u])

\* A step that brings nothing new in flight.
LEMMA FlightStep ==
    ASSUME FlightInv, ChannelInv', Flight' \subseteq Flight, OwnersKept, AnchorsKept, CallsKept,
           Sealed => Sealed', LostIdle', Pure => Pure'
    PROVE  FlightKept
<1>1. FlightOwned'
  BY DEF FlightInv, FlightOwned, OwnersKept
<1>2. FlightAnchored'
  BY DEF FlightInv, FlightAnchored, AnchorsKept
<1>3. FreshId'
  BY DEF FlightInv, FreshId, CallsKept
<1>4. ClosedQuiet'
  BY DEF FlightInv, ClosedQuiet, CallsKept
<1>. QED  BY <1>1, <1>2, <1>3, <1>4 DEF FlightInv, ChannelInv, FlightKept

\* A step that leaves the channels alone.
LEMMA SameChannels ==
    ASSUME FlightInv, UNCHANGED <<inbuf, outbuf, active>>
    PROVE  ChannelInv' /\ Flight' = Flight /\ Queueing' = Queueing /\ (net' = net => LostIdle')
<1>1. Queueing' = Queueing /\ Answering' = Answering
  BY DEF Queueing, Answering
<1>2. BeginFirst' /\ EndLast' /\ OneActive'
  BY <1>1 DEF FlightInv, BeginFirst, EndLast, OneActive
<1>3. net' = net => LostIdle'
  BY DEF FlightInv, LostIdle
<1>. QED  BY <1>1, <1>2, <1>3 DEF ChannelInv, Flight

\* Slots keep their keys, owners and chunks and what was read stays read.
ChunksKept ==
    /\ DOMAIN slab' = DOMAIN slab /\ got' = got
    /\ \A k \in DOMAIN slab : slab'[k].owner = slab[k].owner /\ slab'[k].buf = slab[k].buf

\* A step that moves no chunk brings none to a wrong call.
LEMMA KeepChunks ==
    ASSUME ChunksKept
    PROVE  (Pure => Pure') /\ OwnersKept
  BY DEF Pure, ChunksKept, OwnersKept

\* A step of a call that leaves its slot, and what the client received, alone.
LEMMA CallStep ==
    ASSUME FlightInv, ChannelInv', Flight' \subseteq Flight, LostIdle', CallsKept, ChunksKept,
           \A k \in DOMAIN slab : slab'[k].ended = slab[k].ended,
           UNCHANGED <<partial, closed>>,
           poll' \in {"more", "ready", "pending"} => poll = "more" \/ poll' = poll \/ ~partial
    PROVE  FlightKept
<1>1. (Pure => Pure') /\ OwnersKept
  BY KeepChunks
<1>2. AnchorsKept
  BY DEF AnchorsKept, ChunksKept
<1>3. Sealed => Sealed'
  BY DEF Sealed
<1>. QED  BY <1>1, <1>2, <1>3, FlightStep

\* A call writes a record that begins nothing, or cannot.
LEMMA OwnRecord ==
    ASSUME PermitInv, FlightInv, NEW t \in Req, pc[t] \in Owning,
           NEW type \in {"params", "stdin", "abort", "torn"}, UNCHANGED <<active, inbuf, net>>,
           \/ net = "open" /\ outbuf' = Append(outbuf, [type |-> type, key |-> key[t], req |-> t])
           \/ outbuf' = outbuf
    PROVE  ChannelInv' /\ Flight' \subseteq Flight /\ Queueing' \subseteq Queueing /\ LostIdle'
<1>. DEFINE r == [type |-> type, key |-> key[t], req |-> t]
<1>1. TypeOK /\ ChannelInv /\ r \in OutRec /\ r.type # "begin"
  BY DEF PermitInv, FlightInv, ChannelInv, TypeOK, OutRec
<1>2. key[t] \in DOMAIN slab /\ slab[key[t]].owner = t
  BY DEF PermitInv, BodyHasSlot
<1>3. \A y \in active \cup Queueing : y.key = r.key => y.req = r.req
  BY <1>2 DEF FlightInv, FlightOwned, Flight
<1>4. CASE outbuf' = outbuf
  BY <1>4, SameChannels
<1>5. CASE net = "open" /\ outbuf' = Append(outbuf, r)
  <2>1. ChannelInv' /\ Flight' \subseteq Flight /\ Queueing' \subseteq Queueing
    BY <1>1, <1>3, <1>5, QueueMore
  <2>2. LostIdle'
    BY <1>5 DEF LostIdle
  <2>. QED  BY <2>1, <2>2
<1>. QED  BY <1>4, <1>5

-----------------------------------------------------------------------------
(* One lemma per group of actions *)

\* A new slot is free of chunks and of anything in flight.
LEMMA FlightInsert ==
    ASSUME PermitInv, FlightInv, NEW t \in Req, NEW k \in Vacant, Insert(t, k), got' = got,
           ChannelInv', Flight' \subseteq Flight, \A y \in Flight' : y.key # k,
           pc[t] \in {"alive", "connect"}, pc' = [pc EXCEPT ![t] = "begin"],
           closed' = closed, LostIdle', Flight' = {} \/ (~Sealed)
    PROVE  FlightKept
<1>1. TypeOK /\ pc \in [Req -> Stage] /\ key \in [Req -> Nat]
  BY DEF PermitInv, TypeOK
<1>2. k \notin DOMAIN slab /\ DOMAIN slab' = DOMAIN slab \cup {k}
  BY <1>1, InsertType
<1>3. slab'[k].buf = <<>> /\ \A j \in DOMAIN slab : slab'[j] = slab[j]
  BY <1>2 DEF Insert
<1>4. key'[t] = k /\ \A u \in Req \ {t} : key'[u] = key[u] /\ pc'[u] = pc[u]
  BY <1>1 DEF Insert
<1>5. FlightOwned'
  BY <1>2, <1>3 DEF FlightInv, FlightOwned
<1>6. FlightAnchored'
  BY <1>2, <1>3 DEF FlightInv, FlightAnchored
<1>7. FreshId'
  <2>. SUFFICES ASSUME NEW u \in Req, pc'[u] = "begin", NEW y \in Flight' PROVE y.key # key'[u]
    BY DEF FreshId
  <2>1. CASE u = t
    BY <1>4, <2>1
  <2>2. CASE u # t
    BY <1>4, <2>2 DEF FlightInv, FreshId
  <2>. QED  BY <2>1, <2>2
<1>8. ClosedQuiet'
  <2>1. ~closed
    BY DEF FlightInv, ClosedQuiet, Calm
  <2>. QED  BY <2>1 DEF ClosedQuiet
<1>9. Pure => Pure'
  <2>. SUFFICES ASSUME Pure PROVE Pure'
    OBVIOUS
  <2>1. DOMAIN slab'[k].buf = {}
    BY <1>3
  <2>2. ASSUME NEW j \in DOMAIN slab', NEW i \in DOMAIN slab'[j].buf
        PROVE  slab'[j].buf[i].req = slab'[j].owner
    BY <1>2, <1>3, <2>1 DEF Pure
  <2>3. \A u \in Req : \A i \in DOMAIN got'[u] : got'[u][i].req = u
    BY DEF Pure
  <2>. QED  BY <2>2, <2>3 DEF Pure
<1>. QED  BY <1>5, <1>6, <1>7, <1>8, <1>9 DEF FlightInv, ChannelInv, FlightKept

\* A connection that is given up or replaced carries nothing.
LEMMA EmptyChannels ==
    ASSUME inbuf' = <<>>, outbuf' = <<>>, active' = {}
    PROVE  ChannelInv' /\ Flight' = {} /\ Queueing' = {} /\ LostIdle'
<1>1. DOMAIN inbuf' = {} /\ DOMAIN outbuf' = {}
  OBVIOUS
<1>2. Queueing' = {} /\ Answering' = {}
  BY <1>1 DEF Queueing, Answering
<1>. QED  BY <1>1, <1>2 DEF ChannelInv, BeginFirst, EndLast, OneActive, Flight, LostIdle

\* BeginRequest is written under an id that is not in flight, for a slot that
\* has not ended.
LEMMA FlightBegin ==
    ASSUME PermitInv, ForwardHolds, FlightInv, NEW t \in Req, WriteBegin(t), net = "open",
           outbuf' = Append(outbuf, [type |-> "begin", key |-> key[t], req |-> t])
    PROVE  FlightKept
<1>. DEFINE r == [type |-> "begin", key |-> key[t], req |-> t]
<1>1. /\ pc[t] = "begin" /\ pc' = [pc EXCEPT ![t] = "params"]
      /\ UNCHANGED <<key, lock, poll, slab, net, partial, inbuf, closed, active, got>>
  BY DEF WriteBegin, inner, app, hist
<1>2. TypeOK /\ pc \in [Req -> Stage] /\ ChannelInv /\ r \in OutRec /\ r.type = "begin"
  BY DEF PermitInv, FlightInv, ChannelInv, TypeOK, OutRec
<1>3. key[t] \in DOMAIN slab /\ slab[key[t]].owner = t /\ ~slab[key[t]].ended /\ lock = <<t, "fwd">>
  BY <1>1 DEF PermitInv, BodyHasSlot, Owning, ForwardHolds, Connecting
<1>4. \A y \in Flight : y.key # r.key
  BY <1>1 DEF FlightInv, FreshId
<1>5. ChannelInv' /\ Flight' \subseteq Flight \cup {Tag(r)}
  BY <1>1, <1>2, <1>4, QueueBegin
<1>6. Tag(r).key = key[t] /\ Tag(r).req = t
  BY DEF Tag
<1>. HIDE DEF r
<1>7. FlightOwned'
  BY <1>1, <1>3, <1>5, <1>6 DEF FlightInv, FlightOwned
<1>8. FlightAnchored'
  <2>1. Sealed' = Sealed
    BY <1>1 DEF Sealed
  <2>. QED  BY <1>1, <1>3, <1>5, <1>6, <2>1 DEF FlightInv, FlightAnchored
<1>9. FreshId'
  <2>1. \A u \in Req : pc'[u] # "begin"
    BY <1>1, <1>2, <1>3 DEF ForwardHolds, Connecting
  <2>. QED  BY <2>1 DEF FreshId
<1>10. LostIdle'
  BY <1>1 DEF LostIdle
<1>11. ClosedQuiet'
  <2>1. ~closed
    BY <1>1 DEF FlightInv, ClosedQuiet, Calm
  <2>. QED  BY <1>1, <2>1 DEF ClosedQuiet
<1>12. Pure => Pure'
  BY <1>1 DEF Pure
<1>. QED  BY <1>5, <1>7, <1>8, <1>9, <1>10, <1>11, <1>12 DEF FlightInv, ChannelInv, FlightKept

\* forward gives out ids that are not in flight.
LEMMA FlightForward ==
    \A t \in Req : PermitInv /\ ForwardHolds /\ FlightInv /\ Forward(t) => FlightKept
<1>. SUFFICES ASSUME NEW t \in Req, PermitInv, ForwardHolds, FlightInv, Forward(t)
              PROVE  FlightKept
  OBVIOUS
<1>. USE DEF client, inner, wire, app, hist
<1>t. TypeOK /\ pc \in [Req -> Stage]
  BY DEF PermitInv, TypeOK
<1>q. closed => pc[t] \in Calm
  BY DEF FlightInv, ClosedQuiet
<1>1. CASE Acquire(t) \/ StartCheck(t) \/ AliveError(t) \/ ConnectFail(t) \/ WriteFail(t)
  <2>1. /\ UNCHANGED <<key, slab, net, partial, inbuf, outbuf, closed, active, got>>
        /\ closed => pc[t] # "acquire"
        /\ \E s \in {"lock", "alive", "failed"} : pc' = [pc EXCEPT ![t] = s]
        /\ pc[t] = "acquire" \/ pc[t] \notin Calm
    BY <1>1 DEF Acquire, StartCheck, AliveError, ConnectFail, WriteFail, Calm
  <2>2. CallsKept
    BY <1>t, <1>q, <2>1 DEF CallsKept, Calm
  <2>3. poll' \in {"idle", "start"} \/ poll' = poll
    BY <1>1 DEF Acquire, StartCheck, AliveError, ConnectFail, WriteFail
  <2>. QED  BY <2>1, <2>2, <2>3, SameChannels, CallStep DEF ChunksKept
<1>2. CASE Alive(t)
  <2>1. PICK k \in Vacant : Insert(t, k)
    BY <1>2 DEF Alive
  <2>2. /\ pc[t] = "alive" /\ poll \in {"ready", "pending"} /\ pc' = [pc EXCEPT ![t] = "begin"]
        /\ UNCHANGED <<net, partial, inbuf, outbuf, closed, active, got>>
    BY <1>2 DEF Alive
  <2>3. ~Sealed
    BY <1>q, <2>2 DEF Sealed, Calm
  <2>4. ChannelInv' /\ Flight' = Flight /\ LostIdle'
    BY <2>2, SameChannels
  <2>5. k \notin DOMAIN slab
    BY <1>t, <2>1, InsertType
  <2>6. \A y \in Flight : y.key # k
    BY <2>3, <2>5 DEF FlightInv, FlightAnchored
  <2>. QED  BY <2>1, <2>2, <2>3, <2>4, <2>6, FlightInsert
<1>3. CASE NotAlive(t)
  <2>1. /\ pc[t] = "alive" /\ pc' = [pc EXCEPT ![t] = "connect"] /\ slab' = NotifyEveryone
        /\ inbuf' = <<>> /\ outbuf' = <<>> /\ active' = {} /\ poll' = "idle"
        /\ UNCHANGED <<key, partial, closed, got>>
    BY <1>3 DEF NotAlive
  <2>2. ChannelInv' /\ Flight' = {} /\ LostIdle'
    BY <2>1, EmptyChannels
  <2>3. ChunksKept
    BY <1>t, <2>1, NotifySlots DEF ChunksKept
  <2>4. CallsKept
    BY <1>t, <1>q, <2>1 DEF CallsKept, Calm
  <2>5. AnchorsKept
    BY <2>2 DEF AnchorsKept
  <2>6. Sealed => Sealed'
    BY <2>1 DEF Sealed
  <2>. QED  BY <2>2, <2>3, <2>4, <2>5, <2>6, KeepChunks, FlightStep
<1>4. CASE Connected(t)
  <2>1. PICK k \in Vacant : Insert(t, k)
    BY <1>4 DEF Connected
  <2>2. /\ pc[t] = "connect" /\ pc' = [pc EXCEPT ![t] = "begin"]
        /\ inbuf' = <<>> /\ outbuf' = <<>> /\ active' = {} /\ UNCHANGED <<closed, got>>
    BY <1>4 DEF Connected
  <2>3. ChannelInv' /\ Flight' = {} /\ LostIdle'
    BY <2>2, EmptyChannels
  <2>. QED  BY <2>1, <2>2, <2>3, FlightInsert
<1>5. CASE WriteBegin(t)
  <2>1. CASE net = "open"
    BY <1>5, <2>1, FlightBegin DEF WriteBegin, Write
  <2>2. CASE net # "open"
    <3>1. /\ UNCHANGED <<key, slab, poll, net, partial, inbuf, outbuf, closed, active, got>>
          /\ pc[t] = "begin" /\ pc' = [pc EXCEPT ![t] = "params"]
      BY <1>5, <2>2 DEF WriteBegin, Write
    <3>2. CallsKept
      BY <1>t, <1>q, <3>1 DEF CallsKept, Calm
    <3>. QED  BY <3>1, <3>2, SameChannels, CallStep DEF ChunksKept
  <2>. QED  BY <2>1, <2>2
<1>6. CASE WriteParams(t) \/ RejectHeader(t) \/ WriteStdin(t)
  <2>1. /\ UNCHANGED <<key, slab, poll, net, partial, inbuf, closed, active, got>>
        /\ pc[t] \in {"params", "stdin"}
        /\ \E s \in {"run", "stdin", "failed"} : pc' = [pc EXCEPT ![t] = s]
        /\ \E type \in {"params", "stdin", "abort"} : Write(t, type)
    BY <1>6 DEF WriteParams, RejectHeader, WriteStdin
  <2>2. ChannelInv' /\ Flight' \subseteq Flight /\ LostIdle'
    BY <2>1, OwnRecord DEF Write, Owning
  <2>3. CallsKept
    BY <1>t, <1>q, <2>1 DEF CallsKept, Calm
  <2>. QED  BY <2>1, <2>2, <2>3, CallStep DEF ChunksKept
<1>. QED  BY <1>1, <1>2, <1>3, <1>4, <1>5, <1>6 DEF Forward

\* send_body writes under the id of its own slot.
LEMMA FlightSendBody == \A t \in Req : PermitInv /\ FlightInv /\ SendBody(t) => FlightKept
<1>. SUFFICES ASSUME NEW t \in Req, PermitInv, FlightInv, SendBody(t) PROVE FlightKept
  OBVIOUS
<1>. USE DEF client, inner, wire, app, hist
<1>t. TypeOK /\ pc \in [Req -> Stage]
  BY DEF PermitInv, TypeOK
<1>1. CASE BodyChunk(t) \/ BodyEnd(t) \/ SendLock(t)
  <2>1. UNCHANGED <<pc, key, slab, poll, net, partial, inbuf, outbuf, closed, active, got>>
    BY <1>1 DEF BodyChunk, BodyEnd, SendLock
  <2>2. CallsKept
    BY <2>1 DEF CallsKept
  <2>. QED  BY <2>1, <2>2, SameChannels, CallStep DEF ChunksKept
<1>2. CASE WriteChunk(t) \/ WriteEnd(t)
  <2>1. /\ UNCHANGED <<pc, key, slab, poll, net, partial, inbuf, closed, active, got>>
        /\ lock = <<t, "send">> /\ Write(t, "stdin")
    BY <1>2 DEF WriteChunk, WriteEnd
  <2>2. pc[t] \in Owning
    BY <2>1 DEF PermitInv, SendHolds, Queued, Owning
  <2>3. ChannelInv' /\ Flight' \subseteq Flight /\ LostIdle'
    BY <2>1, <2>2, OwnRecord DEF Write
  <2>4. CallsKept
    BY <2>1 DEF CallsKept
  <2>. QED  BY <2>1, <2>3, <2>4, CallStep DEF ChunksKept
<1>3. CASE WriteAbort(t) \/ SendFail(t)
  <2>1. /\ UNCHANGED <<key, poll, net, partial, inbuf, closed, active, got>>
        /\ lock = <<t, "send">> /\ (Write(t, "abort") \/ outbuf' = outbuf) /\ DropFCGIBody(t)
        /\ pc' = [pc EXCEPT ![t] = "failed"]
    BY <1>3 DEF WriteAbort, SendFail
  <2>2. pc[t] \in Owning
    BY <2>1 DEF PermitInv, SendHolds, Queued, Owning
  <2>3. ChannelInv' /\ Flight' \subseteq Flight /\ LostIdle'
    BY <2>1, <2>2, OwnRecord DEF Write
  <2>4. CallsKept
    BY <1>t, <2>1 DEF CallsKept, Calm
  <2>5. ChunksKept /\ \A k \in DOMAIN slab : slab'[k].ended = slab[k].ended
    BY <1>t, <2>1, DropType DEF ChunksKept
  <2>. QED  BY <2>1, <2>3, <2>4, <2>5, CallStep
<1>. QED  BY <1>1, <1>2, <1>3 DEF SendBody

\* Dropping a call leaves at most a torn record of its own behind.
LEMMA FlightGiveUp == \A t \in Req : PermitInv /\ FlightInv /\ GiveUp(t) => FlightKept
<1>. SUFFICES ASSUME NEW t \in Req, PermitInv, FlightInv, GiveUp(t) PROVE FlightKept
  OBVIOUS
<1>. USE DEF client, inner, wire, app, hist
<1>t. TypeOK /\ pc \in [Req -> Stage]
  BY DEF PermitInv, TypeOK
<1>1. CASE DropBody(t)
  <2>1. /\ UNCHANGED <<key, poll, net, partial, inbuf, closed, active, got>>
        /\ Torn(t) \/ outbuf' = outbuf
        /\ DropFCGIBody(t) /\ pc' = [pc EXCEPT ![t] = "dropped"] /\ pc[t] \in Owning
    BY <1>1 DEF DropBody, Owning
  <2>2. ChannelInv' /\ Flight' \subseteq Flight /\ LostIdle'
    BY <2>1, OwnRecord DEF Torn
  <2>3. CallsKept
    BY <1>t, <2>1 DEF CallsKept, Calm
  <2>4. ChunksKept /\ \A k \in DOMAIN slab : slab'[k].ended = slab[k].ended
    BY <1>t, <2>1, DropType DEF ChunksKept
  <2>. QED  BY <2>1, <2>2, <2>3, <2>4, CallStep
<1>2. CASE CancelForward(t)
  <2>1. /\ UNCHANGED <<key, slab, poll, net, partial, inbuf, closed, active, got>>
        /\ outbuf' = outbuf \/ (Torn(t) /\ pc[t] \in Owning)
        /\ pc' = [pc EXCEPT ![t] = "dropped"]
    BY <1>2 DEF CancelForward, Owning
  <2>2. ChannelInv' /\ Flight' \subseteq Flight /\ LostIdle'
    <3>1. CASE outbuf' = outbuf
      BY <2>1, <3>1, SameChannels
    <3>2. CASE Torn(t) /\ pc[t] \in Owning
      BY <2>1, <3>2, OwnRecord DEF Torn
    <3>. QED  BY <2>1, <3>1, <3>2
  <2>3. CallsKept
    BY <1>t, <2>1 DEF CallsKept, Calm
  <2>. QED  BY <2>1, <2>2, <2>3, CallStep DEF ChunksKept
<1>. QED  BY <1>1, <1>2 DEF GiveUp

\* A slot that is read, or removed after its end.
LEMMA FlightFrame ==
    ASSUME FlightInv, UNCHANGED <<net, partial, inbuf, outbuf, closed, active>>, CallsKept,
           poll' = "idle" \/ poll' = poll, OwnersKept, Pure => Pure',
           \A k \in DOMAIN slab : ~slab[k].ended => k \in DOMAIN slab' /\ ~slab'[k].ended
    PROVE  FlightKept
<1>1. AnchorsKept
  BY DEF AnchorsKept
<1>2. Sealed => Sealed'
  BY DEF Sealed
<1>. QED  BY <1>1, <1>2, SameChannels, FlightStep

\* The chunks that are left, and the one the caller gets, are the owner's.
LEMMA OwnChunks ==
    ASSUME PermitInv, Pure, NEW t \in Req, pc[t] \in Owning, slab[key[t]].buf # <<>>,
           slab' = Pop(key[t]) \/ slab' = Remove(key[t]),
           got' = got \/ got' = [got EXCEPT ![t] = Append(@, Head(slab[key[t]].buf))]
    PROVE  Pure'
<1>. DEFINE k == key[t]
<1>1. k \in DOMAIN slab /\ slab[k].owner = t /\ slab \in [DOMAIN slab -> Slot] /\ got \in [Req -> Seq(Chunk)]
  BY DEF PermitInv, BodyHasSlot, TypeOK
<1>2. slab[k].buf \in Seq(Chunk)
  BY <1>1 DEF Slot
<1>3. \A i \in DOMAIN slab[k].buf : slab[k].buf[i].req = t
  BY <1>1 DEF Pure
<1>4. /\ Head(slab[k].buf).req = t /\ Head(slab[k].buf) \in Chunk
      /\ \A i \in DOMAIN Tail(slab[k].buf) : Tail(slab[k].buf)[i].req = t
  BY <1>2, <1>3, WithinTail
<1>5. \A j \in DOMAIN slab' : \A i \in DOMAIN slab'[j].buf : slab'[j].buf[i].req = slab'[j].owner
  <2>1. CASE slab' = Pop(k)
    <3>1. /\ SameSlots(slab') /\ slab'[k].buf = Tail(slab[k].buf)
          /\ \A j \in DOMAIN slab \ {k} : slab'[j].buf = slab[j].buf
      BY <1>1, <2>1, PopSlots
    <3>2. \A j \in DOMAIN slab' : j \in DOMAIN slab /\ slab'[j].owner = slab[j].owner
      BY <3>1 DEF SameSlots
    <3>3. \A i \in DOMAIN slab'[k].buf : slab'[k].buf[i].req = t
      BY <1>4, <3>1
    <3>4. \A j \in DOMAIN slab \ {k} : \A i \in DOMAIN slab'[j].buf : slab'[j].buf[i].req = slab[j].owner
      BY <3>1 DEF Pure
    <3>. QED  BY <1>1, <3>2, <3>3, <3>4
  <2>2. CASE slab' = Remove(k)
    BY <2>2 DEF Remove, Pure
  <2>. QED  BY <2>1, <2>2
<1>6. \A u \in Req : \A i \in DOMAIN got'[u] : got'[u][i].req = u
  <2>1. CASE got' = got
    BY <2>1 DEF Pure
  <2>2. CASE got' = [got EXCEPT ![t] = Append(@, Head(slab[k].buf))]
    <3>1. got[t] \in Seq(Chunk) /\ got'[t] = Append(got[t], Head(slab[k].buf))
      BY <1>1, <2>2
    <3>2. /\ DOMAIN got[t] = 1 .. Len(got[t]) /\ DOMAIN got'[t] = 1 .. (Len(got[t]) + 1)
          /\ got'[t][Len(got[t]) + 1] = Head(slab[k].buf) /\ Len(got[t]) \in Nat
          /\ \A i \in 1 .. Len(got[t]) : got'[t][i] = got[t][i]
      BY <1>4, <3>1, AppendAt
    <3>3. \A i \in DOMAIN got'[t] : i \in DOMAIN got[t] \/ i = Len(got[t]) + 1
      BY <3>2
    <3>4. \A i \in DOMAIN got'[t] : got'[t][i].req = t
      BY <1>4, <3>2, <3>3 DEF Pure
    <3>5. \A u \in Req \ {t} : got'[u] = got[u]
      BY <1>1, <2>2
    <3>. QED  BY <3>4, <3>5 DEF Pure
  <2>. QED  BY <2>1, <2>2
<1>. QED  BY <1>5, <1>6 DEF Pure

\* Giving back the rest of the header chunk appends to the own slot.
LEMMA OwnRest ==
    ASSUME PermitInv, NEW t \in Req, PushRest(t)
    PROVE  (Pure => Pure') /\ SameSlots(slab')
<1>. DEFINE c == [req |-> t, n |-> first[t]]
            k == key[t]
<1>1. /\ k \in DOMAIN slab /\ slab[k].owner = t /\ slab \in [DOMAIN slab -> Slot]
      /\ slab' = Push(k, c) /\ got' = got /\ c \in Chunk
  BY DEF PushRest, hist, PermitInv, BodyHasSlot, Owning, TypeOK, Chunk
<1>2. /\ SameSlots(slab') /\ slab'[k].buf = Append(slab[k].buf, c)
      /\ \A j \in DOMAIN slab \ {k} : slab'[j].buf = slab[j].buf
  BY <1>1, PushSlots
<1>3. slab[k].buf \in Seq(Chunk) /\ c.req = t
  BY <1>1 DEF Slot
<1>4. \A i \in DOMAIN slab'[k].buf :
         (i \in DOMAIN slab[k].buf /\ slab'[k].buf[i] = slab[k].buf[i]) \/ slab'[k].buf[i] = c
  <2>. DEFINE b == slab[k].buf
              a == slab'[k].buf
  <2>1. /\ Len(b) \in Nat /\ DOMAIN b = 1 .. Len(b) /\ DOMAIN a = 1 .. (Len(b) + 1)
        /\ a[Len(b) + 1] = c /\ \A i \in 1 .. Len(b) : a[i] = b[i]
    BY <1>1, <1>2, <1>3, AppendAt
  <2>. HIDE DEF a, b, c
  <2>2. \A i \in DOMAIN a : (i \in DOMAIN b /\ a[i] = b[i]) \/ a[i] = c
    BY <2>1
  <2>. QED  BY <2>2 DEF a, b
<1>. HIDE DEF c
<1>5. ASSUME Pure PROVE Pure'
  <2>1. \A i \in DOMAIN slab'[k].buf : slab'[k].buf[i].req = t
    BY <1>1, <1>3, <1>4, <1>5 DEF Pure
  <2>2. \A j \in DOMAIN slab' : \A i \in DOMAIN slab'[j].buf : slab'[j].buf[i].req = slab'[j].owner
    BY <1>1, <1>2, <1>5, <2>1 DEF SameSlots, Pure
  <2>3. \A u \in Req : \A i \in DOMAIN got'[u] : got'[u][i].req = u
    BY <1>1, <1>5 DEF Pure
  <2>. QED  BY <2>2, <2>3 DEF Pure
<1>. QED  BY <1>2, <1>5

\* poll_frame and create_response work on the own slot; an id is free for reuse
\* only after its EndRequest.
LEMMA FlightResponse == \A t \in Req : PermitInv /\ FlightInv /\ Response(t) => FlightKept
<1>. SUFFICES ASSUME NEW t \in Req, PermitInv, FlightInv, Response(t) PROVE FlightKept
  OBVIOUS
<1>. USE DEF client, inner, wire, app, hist
<1>t. TypeOK /\ pc \in [Req -> Stage] /\ slab \in [DOMAIN slab -> Slot]
  BY DEF PermitInv, TypeOK
<1>1. CASE StartResponse(t) \/ FrameLock(t) \/ FrameWait(t) \/ Respond(t)
           \/ (FrameEnd(t) /\ pc[t] # "body")
  <2>1. /\ UNCHANGED <<key, slab, net, partial, inbuf, outbuf, closed, active, got>>
        /\ pc' = pc \/ pc' = [pc EXCEPT ![t] = "body"]
    BY <1>1 DEF StartResponse, FrameLock, FrameWait, Respond, FrameEnd
  <2>2. poll' \in {"idle", "start"} \/ poll' = poll
    BY <1>1 DEF StartResponse, FrameLock, FrameWait, Respond, FrameEnd, Release
  <2>3. CallsKept
    BY <1>t, <2>1 DEF CallsKept, Calm
  <2>. QED  BY <2>1, <2>2, <2>3, SameChannels, CallStep DEF ChunksKept
<1>2. CASE FrameEnd(t) /\ pc[t] = "body"
  <2>1. /\ slab' = Remove(key[t]) /\ slab[key[t]].ended /\ pc' = [pc EXCEPT ![t] = "done"]
        /\ poll' = "idle" /\ UNCHANGED <<key, net, partial, inbuf, outbuf, closed, active, got>>
    BY <1>2 DEF FrameEnd, Release, Slab
  <2>2. OwnersKept /\ \A k \in DOMAIN slab : ~slab[k].ended => k \in DOMAIN slab' /\ ~slab'[k].ended
    BY <2>1 DEF OwnersKept, Remove
  <2>3. Pure => Pure'
    BY <2>1 DEF Remove, Pure
  <2>4. CallsKept
    BY <1>t, <2>1 DEF CallsKept, Calm
  <2>. QED  BY <2>1, <2>2, <2>3, <2>4, FlightFrame
<1>3. CASE FrameData(t) \/ FrameHeader(t)
  <2>1. /\ poll' = "idle" /\ UNCHANGED <<key, net, partial, inbuf, outbuf, closed, active>>
        /\ pc[t] \in Owning /\ slab[key[t]].buf # <<>>
        /\ got' = got \/ got' = [got EXCEPT ![t] = Append(@, Head(slab[key[t]].buf))]
        /\ pc' = pc \/ pc' = [pc EXCEPT ![t] = "done"]
        /\ slab' = Pop(key[t]) \/ (slab' = Remove(key[t]) /\ slab[key[t]].ended)
    BY <1>3 DEF FrameData, FrameHeader, Release, Slab, Owning, LastChunk
  <2>2. Pure => Pure'
    BY <2>1, OwnChunks
  <2>3. key[t] \in DOMAIN slab
    BY <2>1 DEF PermitInv, BodyHasSlot
  <2>4. OwnersKept /\ \A k \in DOMAIN slab : ~slab[k].ended => k \in DOMAIN slab' /\ ~slab'[k].ended
    <3>1. CASE slab' = Pop(key[t])
      <4>1. SameSlots(slab')
        BY <1>t, <2>1, <2>3, <3>1, PopSlots
      <4>. QED  BY <4>1 DEF SameSlots, OwnersKept
    <3>2. CASE slab' = Remove(key[t]) /\ slab[key[t]].ended
      BY <3>2 DEF OwnersKept, Remove
    <3>. QED  BY <2>1, <3>1, <3>2
  <2>5. CallsKept
    BY <1>t, <2>1 DEF CallsKept, Calm
  <2>. QED  BY <2>1, <2>2, <2>4, <2>5, FlightFrame
<1>4. CASE PushRest(t)
  <2>1. UNCHANGED <<pc, key, poll, net, partial, inbuf, outbuf, closed, active>>
    BY <1>4 DEF PushRest
  <2>2. (Pure => Pure') /\ SameSlots(slab')
    BY <1>4, OwnRest
  <2>3. OwnersKept /\ \A k \in DOMAIN slab : ~slab[k].ended => k \in DOMAIN slab' /\ ~slab'[k].ended
    BY <2>2 DEF SameSlots, OwnersKept
  <2>4. CallsKept
    BY <2>1 DEF CallsKept
  <2>. QED  BY <2>1, <2>2, <2>3, <2>4, FlightFrame
<1>. QED  BY <1>1, <1>2, <1>3, <1>4 DEF Response

\* Output is appended to the slot of the request that produced it.
LEMMA OwnOutput ==
    ASSUME PermitInv, FlightInv, RespOut, Tag(Head(inbuf)) \in Flight
    PROVE  (Pure => Pure') /\ SameSlots(slab')
<1>. DEFINE x == Head(inbuf)
            c == [req |-> x.req, n |-> x.n]
            k == x.key
            b == slab[k].buf
            a == slab'[k].buf
<1>1. /\ x \in InRec /\ k \in DOMAIN slab /\ slab \in [DOMAIN slab -> Slot]
      /\ slab' = Push(k, c) /\ got' = got
  BY HeadTail DEF RespOut, Parsing, Addressed, hist, PermitInv, TypeOK
<1>2. c \in Chunk /\ c.req = x.req /\ b \in Seq(Chunk)
  BY <1>1 DEF InRec, Chunk, Slot
<1>3. slab[k].owner = x.req
  <2>1. Tag(x).key = k /\ Tag(x).req = x.req
    BY DEF Tag
  <2>. QED  BY <1>1, <2>1 DEF FlightInv, FlightOwned
<1>4. /\ SameSlots(slab') /\ a = Append(b, c)
      /\ \A j \in DOMAIN slab \ {k} : slab'[j].buf = slab[j].buf
  BY <1>1, <1>2, PushSlots
<1>5. /\ Len(b) \in Nat /\ DOMAIN b = 1 .. Len(b) /\ DOMAIN a = 1 .. (Len(b) + 1)
      /\ a[Len(b) + 1] = c /\ \A i \in 1 .. Len(b) : a[i] = b[i]
  BY <1>2, <1>4, AppendAt
<1>6. ASSUME Pure PROVE Pure'
  <2>1. \A i \in DOMAIN b : b[i].req = slab[k].owner
    BY <1>1, <1>6 DEF Pure
  <2>. HIDE DEF a, b, c, x, k
  <2>2. \A i \in DOMAIN a : a[i].req = slab[k].owner
    <3>1. \A i \in DOMAIN a : (i \in DOMAIN b /\ a[i] = b[i]) \/ a[i] = c
      BY <1>5
    <3>. QED  BY <1>2, <1>3, <2>1, <3>1
  <2>3. \A j \in DOMAIN slab' : j \in DOMAIN slab /\ slab'[j].owner = slab[j].owner
    BY <1>4 DEF SameSlots
  <2>4. \A j \in DOMAIN slab \ {k} : \A i \in DOMAIN slab'[j].buf : slab'[j].buf[i].req = slab[j].owner
    BY <1>4, <1>6 DEF Pure
  <2>5. \A j \in DOMAIN slab' : \A i \in DOMAIN slab'[j].buf : slab'[j].buf[i].req = slab'[j].owner
    BY <2>2, <2>3, <2>4 DEF a
  <2>6. \A u \in Req : \A i \in DOMAIN got'[u] : got'[u][i].req = u
    BY <1>1, <1>6 DEF Pure
  <2>. QED  BY <2>5, <2>6 DEF Pure
<1>. QED  BY <1>4, <1>6

\* poll_resp distributes by id; EndRequest is the last record of its id.
LEMMA FlightPollResp == PermitInv /\ FlightInv /\ PollResp => FlightKept
<1>. SUFFICES ASSUME PermitInv, FlightInv, PollResp PROVE FlightKept
  OBVIOUS
<1>. USE DEF client, inner, wire, app, hist
<1>t. TypeOK /\ ChannelInv /\ LostIdle
  BY DEF PermitInv, FlightInv, ChannelInv
<1>c. CallsKept
  <2>1. UNCHANGED <<pc, key, closed>>
    BY DEF PollResp, RespOut, RespEnd, RespFree, RespSkip, RespSplit, RespReady, RespPending,
           RespClosed, RespError
  <2>. QED  BY <2>1 DEF CallsKept
<1>. DEFINE x == Head(inbuf)
<1>1. ASSUME RespOut \/ RespEnd \/ RespFree \/ RespSkip
      PROVE  /\ ChannelInv' /\ Flight' \subseteq Flight /\ Tag(x) \in Flight /\ LostIdle'
             /\ x.type = "end" => \A y \in Flight' : y.key # x.key
             /\ Sealed => Sealed'
  <2>1. /\ inbuf # <<>> /\ inbuf' = Tail(inbuf) /\ ~partial
        /\ UNCHANGED <<active, outbuf, net, closed>>
    BY <1>1 DEF RespOut, RespEnd, RespFree, RespSkip, Parsing, Consume
  <2>2. LostIdle' /\ (Sealed => Sealed')
    BY <1>t, <2>1 DEF LostIdle, Sealed
  <2>. QED  BY <1>t, <2>1, <2>2, ConsumeFirst
<1>2. CASE RespOut
  <2>1. (Pure => Pure') /\ SameSlots(slab')
    BY <1>1, <1>2, OwnOutput
  <2>2. OwnersKept /\ AnchorsKept
    BY <2>1 DEF SameSlots, OwnersKept, AnchorsKept
  <2>. QED  BY <1>1, <1>2, <1>c, <2>1, <2>2, FlightStep
<1>3. CASE RespEnd
  <2>1. x.type = "end" /\ x.key \in DOMAIN slab /\ slab' = [slab EXCEPT ![x.key].ended = TRUE]
        /\ got' = got
    BY <1>3 DEF RespEnd, Addressed
  <2>2. /\ ChunksKept
        /\ \A k \in DOMAIN slab : k # x.key => slab'[k].ended = slab[k].ended
    BY <1>t, <2>1 DEF ChunksKept, TypeOK, Slot
  <2>3. AnchorsKept
    BY <1>1, <1>3, <2>1, <2>2 DEF AnchorsKept, ChunksKept
  <2>. QED  BY <1>1, <1>3, <1>c, <2>2, <2>3, KeepChunks, FlightStep
<1>4. CASE RespFree
  <2>1. x.type = "end" /\ x.key \in DOMAIN slab /\ slab' = Remove(x.key) /\ got' = got
    BY <1>4 DEF RespFree
  <2>2. OwnersKept /\ \A k \in DOMAIN slab : k # x.key => k \in DOMAIN slab' /\ slab'[k] = slab[k]
    BY <2>1 DEF OwnersKept, Remove
  <2>3. AnchorsKept
    BY <1>1, <1>4, <2>1, <2>2 DEF AnchorsKept
  <2>4. Pure => Pure'
    BY <2>1 DEF Remove, Pure
  <2>. QED  BY <1>1, <1>4, <1>c, <2>2, <2>3, <2>4, FlightStep
<1>5. CASE RespSkip
  <2>1. UNCHANGED <<slab, got>>
    BY <1>5 DEF RespSkip
  <2>2. ChunksKept /\ AnchorsKept
    BY <2>1 DEF ChunksKept, AnchorsKept
  <2>. QED  BY <1>1, <1>5, <1>c, <2>2, KeepChunks, FlightStep
<1>6. CASE RespSplit \/ RespReady \/ RespPending
  <2>1. /\ UNCHANGED <<slab, got, net, inbuf, outbuf, closed, active>>
        /\ \/ ~partial
           \/ UNCHANGED partial /\ poll = "more"
    BY <1>6 DEF RespSplit, RespReady, RespPending, Parsing
  <2>2. ChunksKept /\ AnchorsKept
    BY <2>1 DEF ChunksKept, AnchorsKept
  <2>3. Sealed => Sealed'
    BY <2>1 DEF Sealed
  <2>. QED  BY <1>c, <2>1, <2>2, <2>3, SameChannels, KeepChunks, FlightStep
<1>7. CASE RespClosed \/ RespError
  <2>1. /\ slab' = NotifyEveryone /\ UNCHANGED <<got, inbuf, outbuf, active, partial, closed>>
        /\ poll' \in {"closed", "error"} /\ (net' = net \/ net' = "eof")
        /\ partial \/ (inbuf = <<>> /\ net # "open")
    BY <1>7 DEF RespClosed, RespError
  <2>2. ChunksKept
    BY <1>t, <2>1, NotifySlots DEF ChunksKept
  <2>3. Sealed => Sealed'
    BY <2>1 DEF Sealed
  <2>4. CASE partial
    <3>1. net' = net
      BY <1>7, <2>4 DEF RespClosed, RespError
    <3>2. AnchorsKept
      BY <2>1, <2>4 DEF AnchorsKept, Sealed
    <3>. QED  BY <1>c, <2>1, <2>2, <2>3, <3>1, <3>2, SameChannels, KeepChunks, FlightStep
  <2>5. CASE inbuf = <<>> /\ net # "open"
    <3>1. ChannelInv' /\ Flight' = {} /\ LostIdle'
      BY <1>t, <2>1, <2>5, EmptyChannels DEF LostIdle
    <3>2. AnchorsKept
      BY <3>1 DEF AnchorsKept
    <3>. QED  BY <1>c, <2>2, <2>3, <3>1, <3>2, KeepChunks, FlightStep
  <2>. QED  BY <2>1, <2>4, <2>5
<1>. QED  BY <1>2, <1>3, <1>4, <1>5, <1>6, <1>7 DEF PollResp

\* After close no id is given out.
LEMMA FlightClose == PermitInv /\ FlightInv /\ Close => FlightKept
<1>. SUFFICES ASSUME PermitInv, FlightInv, Close PROVE FlightKept
  OBVIOUS
<1>1. /\ UNCHANGED <<pc, key, net, inbuf, outbuf, active, got>> /\ closed'
      /\ \A t \in Req : pc[t] \in Calm
      /\ slab' = NotifyEveryone \/ slab' = slab
  BY DEF Close, Calm, client, app, hist
<1>2. ChunksKept
  BY <1>1, NotifySlots DEF ChunksKept, PermitInv
<1>3. Sealed' /\ AnchorsKept /\ CallsKept
  BY <1>1 DEF Sealed, AnchorsKept, CallsKept, Calm
<1>. QED  BY <1>1, <1>2, <1>3, SameChannels, KeepChunks, FlightStep

\* The application answers the requests it works on, in any order, and sends
\* EndRequest last.
LEMMA FlightApp == PermitInv /\ FlightInv /\ App /\ ~AppTorn => FlightKept
<1>. SUFFICES ASSUME PermitInv, FlightInv, App, ~AppTorn PROVE FlightKept
  OBVIOUS
<1>. USE DEF client, inner, wire, app, hist
<1>t. /\ TypeOK /\ ChannelInv /\ LostIdle /\ inbuf \in Seq(InRec) /\ outbuf \in Seq(OutRec)
      /\ active \subseteq [key : Nat, req : Req]
  BY DEF PermitInv, FlightInv, ChannelInv, TypeOK
<1>1. UNCHANGED <<pc, key, poll, slab, partial, closed, got>>
  BY DEF App, AppRecv, AppClose, AppReset, AppStdout, AppNoise, AppEnd
<1>2. ChunksKept /\ AnchorsKept /\ CallsKept /\ (Sealed => Sealed')
  BY <1>1 DEF ChunksKept, AnchorsKept, CallsKept, Sealed
<1>. SUFFICES ChannelInv' /\ Flight' \subseteq Flight /\ LostIdle'
  BY <1>2, KeepChunks, FlightStep
<1>3. CASE AppRecv
  <2>1. LostIdle'
    BY <1>3 DEF AppRecv, LostIdle
  <2>. QED  BY <1>3, <1>t, <2>1, Receive
<1>4. CASE AppClose \/ AppReset
  <2>1. outbuf' = <<>> /\ active' = {} /\ (inbuf' = inbuf \/ inbuf' = <<>>)
    BY <1>4 DEF AppClose, AppReset
  <2>2. Within(outbuf', outbuf) /\ Within(inbuf', inbuf)
    BY <1>t, <2>1, WithinSelf
  <2>. QED  BY <1>t, <2>1, <2>2, Shrink DEF LostIdle
<1>5. ASSUME NEW x \in active, AppStdout(x) \/ AppNoise(x) \/ AppEnd(x)
      PROVE  ChannelInv' /\ Flight' \subseteq Flight /\ LostIdle'
  <2>1. net' = "open"
    BY <1>5, <1>t DEF LostIdle, AppStdout, AppNoise, AppEnd
  <2>2. sent[x.req] + 1 \in Nat /\ 0 \in Nat
    BY <1>t DEF TypeOK
  <2>3. PICK type \in {"stdout", "noise", "end"}, n \in Nat :
           /\ Emit(type, x, n) /\ outbuf' = outbuf
           /\ active' = IF type = "end" THEN active \ {x} ELSE active
    <3>1. CASE AppStdout(x)
      BY <2>2, <3>1 DEF AppStdout
    <3>2. CASE AppNoise(x)
      BY <3>2 DEF AppNoise
    <3>3. CASE AppEnd(x)
      BY <3>3 DEF AppEnd
    <3>. QED  BY <1>5, <3>1, <3>2, <3>3
  <2>4. ChannelInv' /\ Flight' \subseteq Flight
    BY <1>t, <2>3, SendRecord
  <2>. QED  BY <2>1, <2>4 DEF LostIdle
<1>. QED  BY <1>3, <1>4, <1>5 DEF App

\* Nothing is in flight before the first call.
LEMMA FlightInit == Init => FlightInv /\ Pure
<1>. SUFFICES ASSUME Init PROVE FlightInv /\ Pure
  OBVIOUS
<1>1. DOMAIN inbuf = {} /\ DOMAIN outbuf = {} /\ active = {} /\ DOMAIN slab = {}
  BY DEF Init
<1>2. Queueing = {} /\ Answering = {}
  BY <1>1 DEF Queueing, Answering
<1>3. Flight = {}
  BY <1>1, <1>2 DEF Flight
<1>4. Pure
  <2>1. \A t \in Req : DOMAIN got[t] = {}
    BY DEF Init
  <2>. QED  BY <1>1, <2>1 DEF Pure
<1>. QED  BY <1>1, <1>2, <1>3, <1>4
          DEF Init, FlightInv, FlightOwned, FlightAnchored, FreshId, BeginFirst, EndLast,
              OneActive, LostIdle, ClosedQuiet

\* Every step keeps it, except that the application reads past a torn record.
LEMMA FlightNext ==
    PermitInv /\ ForwardHolds /\ FlightInv /\ [Next]_vars /\ ~AppTorn => FlightKept
<1>. SUFFICES ASSUME PermitInv, ForwardHolds, FlightInv, [Next]_vars, ~AppTorn PROVE FlightKept
  OBVIOUS
<1>1. CASE PollResp
  BY <1>1, FlightPollResp
<1>2. CASE Close
  BY <1>2, FlightClose
<1>3. CASE App
  BY <1>3, FlightApp
<1>4. ASSUME NEW t \in Req, Forward(t) \/ SendBody(t) \/ Response(t) \/ GiveUp(t) PROVE FlightKept
  BY <1>4, FlightForward, FlightSendBody, FlightResponse, FlightGiveUp
<1>5. CASE UNCHANGED vars
  <2>1. UNCHANGED <<pc, key, poll, slab, net, partial, inbuf, outbuf, closed, active, got>>
    BY <1>5 DEF vars, client, inner, wire, app, hist
  <2>2. CallsKept /\ ChunksKept
    BY <2>1 DEF CallsKept, ChunksKept
  <2>. QED  BY <2>1, <2>2, SameChannels, CallStep
<1>. QED  BY <1>1, <1>2, <1>3, <1>4, <1>5 DEF Next

-----------------------------------------------------------------------------
(* Torn records *)

\* A connection stays clean until the application reads past a torn record, and is not
\* clean again before it is replaced.
LEMMA GarbledStep ==
    ASSUME [Next]_vars
    PROVE  /\ garbled' = "no" => garbled = "no"
           /\ garbled' # "now" => ~AppTorn
           /\ garbled = "now" /\ garbled' # "now" => \E t \in Req : NotAlive(t)
<1>. USE DEF client, inner, wire, app, hist
<1>1. CASE PollResp
  <2>1. garbled' = garbled /\ poll # "idle"
    BY <1>1 DEF PollResp, RespOut, RespEnd, RespFree, RespSkip, RespSplit, RespReady, RespPending,
                RespClosed, RespError, Parsing
  <2>. QED  BY <2>1 DEF AppTorn, Outside
<1>2. CASE Close
  BY <1>2 DEF Close, AppTorn
<1>3. CASE App
  <2>1. CASE AppTorn
    BY <2>1 DEF AppTorn
  <2>2. CASE ~AppTorn
    <3>1. garbled' = garbled
      BY <1>3, <2>2 DEF App, AppRecv, AppClose, AppReset, AppStdout, AppNoise, AppEnd
    <3>. QED  BY <2>2, <3>1
  <2>. QED  BY <2>1, <2>2
<1>4. ASSUME NEW t \in Req, Forward(t)
      PROVE  /\ garbled' = "no" => garbled = "no"
             /\ garbled' # "now" => ~AppTorn
             /\ garbled = "now" /\ garbled' # "now" => \E u \in Req : NotAlive(u)
  <2>1. garbled' = garbled \/ (NotAlive(t) /\ garbled' = IF garbled = "now" THEN "past" ELSE garbled)
    BY <1>4 DEF Forward, Acquire, StartCheck, Alive, NotAlive, AliveError, Connected, ConnectFail,
                WriteBegin, WriteParams, RejectHeader, WriteStdin, WriteFail
  <2>2. AppTorn => garbled' = "now"
    BY DEF AppTorn
  <2>. QED  BY <2>1, <2>2
<1>5. ASSUME NEW t \in Req, SendBody(t) \/ Response(t) \/ GiveUp(t) PROVE garbled' = garbled
  BY <1>5 DEF SendBody, BodyChunk, BodyEnd, SendLock, WriteChunk, WriteEnd, WriteAbort, SendFail,
              Response, StartResponse, FrameLock, FrameWait, FrameEnd, FrameData, FrameHeader,
              PushRest, Respond, GiveUp, DropBody, CancelForward
<1>6. AppTorn => garbled' = "now"
  BY DEF AppTorn
<1>. QED  BY <1>1, <1>2, <1>3, <1>4, <1>5, <1>6 DEF Next, vars

\* No call starts after close.
LEMMA ClosedNext == PermitInv /\ ClosedQuiet /\ [Next]_vars => ClosedQuiet'
<1>. SUFFICES ASSUME PermitInv, ClosedQuiet, [Next]_vars PROVE ClosedQuiet'
  OBVIOUS
<1>. USE DEF client, inner, wire, app, hist
<1>t. pc \in [Req -> Stage]
  BY DEF PermitInv, TypeOK
<1>1. CASE PollResp
  <2>1. UNCHANGED <<pc, closed>>
    BY <1>1 DEF PollResp, RespOut, RespEnd, RespFree, RespSkip, RespSplit, RespReady, RespPending,
                RespClosed, RespError
  <2>. QED  BY <2>1 DEF ClosedQuiet
<1>2. CASE Close
  BY <1>2 DEF Close, ClosedQuiet, Calm
<1>3. CASE App
  <2>1. UNCHANGED <<pc, closed>>
    BY <1>3 DEF App, AppRecv, AppTorn, AppClose, AppReset, AppStdout, AppNoise, AppEnd
  <2>. QED  BY <2>1 DEF ClosedQuiet
<1>4. ASSUME NEW t \in Req, Forward(t) PROVE ClosedQuiet'
  <2>1. closed' = closed /\ ~closed
    BY <1>4 DEF Forward, Acquire, StartCheck, Alive, NotAlive, AliveError, Connected, ConnectFail,
                WriteBegin, WriteParams, RejectHeader, WriteStdin, WriteFail, ClosedQuiet, Calm
  <2>. QED  BY <2>1 DEF ClosedQuiet
<1>5. ASSUME NEW t \in Req, SendBody(t) PROVE ClosedQuiet'
  <2>1. closed' = closed /\ (pc' = pc \/ pc' = [pc EXCEPT ![t] = "failed"])
    BY <1>5 DEF SendBody, BodyChunk, BodyEnd, SendLock, WriteChunk, WriteEnd, WriteAbort, SendFail
  <2>. QED  BY <1>t, <2>1 DEF ClosedQuiet, Calm
<1>6. ASSUME NEW t \in Req, Response(t) PROVE ClosedQuiet'
  <2>1. closed' = closed /\ \/ pc' = pc
                            \/ \E s \in {"body", "done"} : pc' = [pc EXCEPT ![t] = s]
    BY <1>6 DEF Response, StartResponse, FrameLock, FrameWait, FrameEnd, FrameData, FrameHeader,
                PushRest, Respond
  <2>. QED  BY <1>t, <2>1 DEF ClosedQuiet, Calm
<1>7. ASSUME NEW t \in Req, GiveUp(t) PROVE ClosedQuiet'
  <2>1. closed' = closed /\ pc' = [pc EXCEPT ![t] = "dropped"]
    BY <1>7 DEF GiveUp, DropBody, CancelForward
  <2>. QED  BY <1>t, <2>1 DEF ClosedQuiet, Calm
<1>8. CASE UNCHANGED vars
  BY <1>8 DEF vars, ClosedQuiet
<1>. QED  BY <1>1, <1>2, <1>3, <1>4, <1>5, <1>6, <1>7, <1>8 DEF Next

\* A replaced connection starts clean, whatever became of the old one.
LEMMA FlightAnew ==
    ASSUME ClosedQuiet', NEW t \in Req, NotAlive(t) PROVE FlightInv'
<1>. USE DEF client, inner, wire, app, hist
<1>1. /\ pc[t] = "alive" /\ pc' = [pc EXCEPT ![t] = "connect"]
      /\ inbuf' = <<>> /\ outbuf' = <<>> /\ active' = {} /\ UNCHANGED closed
  BY DEF NotAlive
<1>2. ChannelInv' /\ Flight' = {} /\ LostIdle'
  BY <1>1, EmptyChannels
<1>3. FlightOwned' /\ FlightAnchored' /\ FreshId'
  BY <1>2 DEF FlightOwned, FlightAnchored, FreshId
<1>. QED  BY <1>2, <1>3 DEF FlightInv, ChannelInv

\* The invariant holds over every step.
LEMMA PartedNext == PermitInv /\ ForwardHolds /\ Parted /\ [Next]_vars => Parted'
<1>. SUFFICES ASSUME PermitInv, ForwardHolds, Parted, [Next]_vars PROVE Parted'
  OBVIOUS
<1>. ClosedQuiet'
  BY ClosedNext DEF Parted
<1>1. CASE garbled' = "now"
  BY <1>1 DEF Parted
<1>2. CASE garbled' # "now" /\ garbled = "now"
  <2>1. FlightInv' /\ garbled' # "no"
    BY <1>2, GarbledStep, FlightAnew
  <2>. QED  BY <2>1 DEF Parted
<1>3. CASE garbled' # "now" /\ garbled # "now"
  <2>1. ~AppTorn /\ FlightInv /\ (garbled' = "no" => Pure)
    BY <1>3, GarbledStep DEF Parted
  <2>2. FlightInv' /\ (Pure => Pure')
    BY <2>1, FlightNext DEF FlightKept
  <2>. QED  BY <2>1, <2>2 DEF Parted
<1>. QED  BY <1>1, <1>2, <1>3

\* It holds in every reachable state.
LEMMA PartedAlways == Spec => [](PermitInv /\ ForwardHolds /\ Parted)
<1>1. Init => Parted
  BY FlightInit DEF Parted, FlightInv
<1>. QED  BY <1>1, PermitInit, PermitNext, HoldInit, HoldNext, PartedNext, PTL DEF Spec

-----------------------------------------------------------------------------
\* While forward checks the connection, reconnects and writes the headers it
\* holds the mutex, nobody polls the connection and its new slot does not end:
\* BeginRequest is never written for a slot that was ended or given away.
THEOREM MutexOverHeaders == Spec => []ForwardHolds
  BY PermitInit, PermitNext, HoldInit, HoldNext, PTL DEF Spec

\* For any number of calls, reuses of an id, drops, reconnects and cut headers,
\* poll_resp never delivers output of one call to another before the application
\* reads past a record that a dropped call left torn.
THEOREM NoOutputCrosstalk == Spec => []NoCrosstalk
<1>1. Parted => NoCrosstalk
  BY DEF Parted, Pure, NoCrosstalk
<1>. QED  BY <1>1, PartedAlways, PTL

\* forward never begins a request under an id the application still works on, on any
\* connection on which it did not read past a torn record.
THEOREM OneRequestPerId == Spec => []OneActivePerId
<1>1. Parted => OneActivePerId
  BY DEF Parted, FlightInv, OneActive, OneActivePerId
<1>. QED  BY <1>1, PartedAlways, PTL

\* Parameters, STDIN and aborts the application reads for a request it works on
\* come from the call that began it, also those of calls that end early, are dropped
\* or write on to a new connection; not on a connection with a torn record that
\* something was written behind, but again on the one that replaces it.
THEOREM InputReachesOwner == Spec => []InputToOwner
<1>1. PermitInv /\ Parted => InputToOwner
  <2>. SUFFICES ASSUME PermitInv, FlightInv, outbuf # <<>>, NEW x \in active,
                       Head(outbuf).key = x.key
                PROVE  Head(outbuf).type # "begin" /\ Head(outbuf).req = x.req
    BY DEF Parted, InputToOwner, HeadToOwner
  <2>1. 1 \in DOMAIN outbuf /\ Head(outbuf) = outbuf[1]
    BY WithinTail DEF PermitInv, TypeOK
  <2>. QED  BY <2>1 DEF FlightInv, BeginFirst
<1>. QED  BY <1>1, PartedAlways, PTL
=============================================================================
