-------------------------- MODULE ConnectionProofs --------------------------
(***************************************************************************)
(* Theorems about Connection, for every set of calls and every bound.      *)
(***************************************************************************)
EXTENDS Connection, FiniteSetTheorems, TLAPS

-----------------------------------------------------------------------------
(* Facts about sequences and slots the type proof needs *)

\* The head and the tail of a non-empty sequence.
LEMMA HeadTail ==
    ASSUME NEW S, NEW s \in Seq(S), s # <<>>
    PROVE  Head(s) \in S /\ Tail(s) \in Seq(S)
  OBVIOUS

\* Concatenation keeps the type of sequences.
LEMMA ConcatType ==
    ASSUME NEW S, NEW s \in Seq(S), NEW t \in Seq(S)
    PROVE  s \o t \in Seq(S)
  OBVIOUS

\* Appending keeps the type of a sequence.
LEMMA AppendType ==
    ASSUME NEW S, NEW s \in Seq(S), NEW e \in S
    PROVE  Append(s, e) \in Seq(S)
  OBVIOUS

\* Two slabs that differ in buffers only.
SameSlots(s) ==
    /\ DOMAIN s = DOMAIN slab /\ s \in [DOMAIN slab -> Slot]
    /\ \A j \in DOMAIN slab : /\ s[j].owner = slab[j].owner
                             /\ s[j].ended = slab[j].ended
                             /\ s[j].aborted = slab[j].aborted

\* BufList::push on a slot keeps slots, owners and marks.
LEMMA PushSlots ==
    ASSUME slab \in [DOMAIN slab -> Slot], NEW k \in DOMAIN slab, NEW c \in Chunk
    PROVE  /\ SameSlots(Push(k, c))
           /\ Push(k, c)[k].buf = Append(slab[k].buf, c)
           /\ \A j \in DOMAIN slab \ {k} : Push(k, c)[j].buf = slab[j].buf
<1>1. Append(slab[k].buf, c) \in Seq(Chunk)
  BY AppendType DEF Slot
<1>. QED  BY <1>1 DEF SameSlots, Push, Slot

\* BufList::oldest on a slot that has a chunk keeps slots, owners and marks.
LEMMA PopSlots ==
    ASSUME slab \in [DOMAIN slab -> Slot], NEW k \in DOMAIN slab, slab[k].buf # <<>>
    PROVE  /\ SameSlots(Pop(k))
           /\ Pop(k)[k].buf = Tail(slab[k].buf)
           /\ \A j \in DOMAIN slab \ {k} : Pop(k)[j].buf = slab[j].buf
           /\ Head(slab[k].buf) \in Chunk
<1>1. Tail(slab[k].buf) \in Seq(Chunk) /\ Head(slab[k].buf) \in Chunk
  BY HeadTail DEF Slot
<1>. QED  BY <1>1 DEF SameSlots, Pop, Slot

\* notify_everyone changes no key and keeps every slot a slot.
LEMMA NotifyType ==
    ASSUME slab \in [DOMAIN slab -> Slot]
    PROVE  NotifyEveryone \in [DOMAIN slab -> Slot]
  BY DEF NotifyEveryone, Slot

\* Slab::insert keeps the keys below the length of the vector.
LEMMA InsertType ==
    ASSUME TypeOK, NEW t \in Req, NEW k \in Vacant, Insert(t, k)
    PROVE  /\ k \in Nat /\ k \notin DOMAIN slab
           /\ DOMAIN slab' = DOMAIN slab \cup {k}
           /\ slab' \in [DOMAIN slab' -> Slot]
           /\ entries' \in Nat /\ DOMAIN slab' \subseteq 0 .. entries' - 1
           /\ key' \in [Req -> Nat]
<1>1. k \in Nat /\ k \notin DOMAIN slab /\ k \in 0 .. entries
  BY DEF TypeOK, Vacant
<1>2. [owner |-> t, buf |-> <<>>, ended |-> FALSE, aborted |-> FALSE] \in Slot
  BY DEF Slot
<1>3. DOMAIN slab' = DOMAIN slab \cup {k} /\ slab' \in [DOMAIN slab' -> Slot]
  BY <1>1, <1>2 DEF Insert, TypeOK
<1>4. entries' \in Nat /\ DOMAIN slab' \subseteq 0 .. entries' - 1
  BY <1>1, <1>3 DEF Insert, TypeOK
<1>5. key' \in [Req -> Nat]
  BY <1>1 DEF Insert, TypeOK
<1>. QED  BY <1>1, <1>3, <1>4, <1>5

-----------------------------------------------------------------------------
(* Type correctness, one lemma per group of actions *)

\* poll_resp keeps the types: it pushes to, ends or frees slots that exist.
LEMMA TypePollResp == TypeOK /\ PollResp => TypeOK'
<1>. SUFFICES ASSUME TypeOK, PollResp PROVE TypeOK'
  OBVIOUS
<1>. USE DEF TypeOK, client, inner, wire, app, hist
<1>h. inbuf # <<>> => Head(inbuf) \in InRec /\ Tail(inbuf) \in Seq(InRec)
  BY HeadTail
<1>n. NotifyEveryone \in [DOMAIN slab -> Slot]
  BY NotifyType
<1>1. CASE RespOut
  <2>. DEFINE x == Head(inbuf)
              c == [req |-> x.req, n |-> x.n]
  <2>1. x \in InRec /\ Tail(inbuf) \in Seq(InRec) /\ x.key \in DOMAIN slab
    BY <1>1, <1>h DEF RespOut, Parsing, Addressed
  <2>2. c \in Chunk
    BY <2>1 DEF InRec, Chunk
  <2>3. slab' = Push(x.key, c)
    BY <1>1 DEF RespOut
  <2>4. SameSlots(Push(x.key, c))
    BY <2>1, <2>2, PushSlots DEF TypeOK
  <2>5. slab' \in [DOMAIN slab' -> Slot] /\ DOMAIN slab' = DOMAIN slab
    BY <2>3, <2>4 DEF SameSlots
  <2>. QED  BY <1>1, <2>1, <2>5 DEF RespOut, Consume
<1>2. CASE RespEnd
  <2>1. Head(inbuf) \in InRec /\ Tail(inbuf) \in Seq(InRec) /\ Head(inbuf).key \in DOMAIN slab
    BY <1>2, <1>h DEF RespEnd, Parsing, Addressed
  <2>2. slab' \in [DOMAIN slab' -> Slot] /\ DOMAIN slab' = DOMAIN slab
    BY <1>2, <2>1 DEF RespEnd, Slot
  <2>3. fin' \subseteq Req
    BY <1>2, <2>1 DEF RespEnd, InRec
  <2>. QED  BY <1>2, <2>1, <2>2, <2>3 DEF RespEnd, Consume
<1>3. CASE RespFree
  <2>1. Head(inbuf) \in InRec /\ Tail(inbuf) \in Seq(InRec)
    BY <1>3, <1>h DEF RespFree, Parsing
  <2>2. slab' \in [DOMAIN slab' -> Slot] /\ DOMAIN slab' \subseteq DOMAIN slab
    BY <1>3 DEF RespFree, Remove
  <2>3. fin' \subseteq Req
    BY <1>3, <2>1 DEF RespFree, InRec
  <2>4. sem' \in Nat
    BY <1>3 DEF RespFree
  <2>. QED  BY <1>3, <2>1, <2>2, <2>3, <2>4 DEF RespFree, Consume
<1>4. CASE RespSkip
  BY <1>4, <1>h DEF RespSkip, Parsing, Consume
<1>5. CASE RespSplit
  BY <1>5 DEF RespSplit
<1>6. CASE RespReady
  BY <1>6 DEF RespReady, Returned
<1>7. CASE RespPending
  BY <1>7 DEF RespPending, Returned
<1>8. CASE RespClosed
  <2>1. slab' \in [DOMAIN slab' -> Slot] /\ DOMAIN slab' = DOMAIN slab
    BY <1>8, <1>n DEF RespClosed
  <2>. QED  BY <1>8, <2>1 DEF RespClosed, Returned
<1>9. CASE RespError
  <2>1. slab' \in [DOMAIN slab' -> Slot] /\ DOMAIN slab' = DOMAIN slab
    BY <1>9, <1>n DEF RespError
  <2>. QED  BY <1>9, <2>1 DEF RespError, Returned
<1>. QED  BY <1>1, <1>2, <1>3, <1>4, <1>5, <1>6, <1>7, <1>8, <1>9 DEF PollResp

\* A write keeps the output a sequence of records.
LEMMA WriteType ==
    ASSUME TypeOK, NEW t \in Req, NEW type \in {"begin", "params", "stdin", "abort"},
           Write(t, type)
    PROVE  outbuf' \in Seq(OutRec)
<1>1. [type |-> type, key |-> key[t], req |-> t] \in OutRec
  BY DEF TypeOK, OutRec
<1>2. outbuf \in Seq(OutRec)
  BY DEF TypeOK
<1>3. Append(outbuf, [type |-> type, key |-> key[t], req |-> t]) \in Seq(OutRec)
  BY <1>1, <1>2, AppendType
<1>. QED  BY <1>2, <1>3 DEF Write

\* So does a torn one.
LEMMA TornType ==
    ASSUME TypeOK, NEW t \in Req, Torn(t)
    PROVE  outbuf' \in Seq(OutRec)
<1>1. [type |-> "torn", key |-> key[t], req |-> t] \in OutRec
  BY DEF TypeOK, OutRec
<1>2. outbuf \in Seq(OutRec)
  BY DEF TypeOK
<1>3. Append(outbuf, [type |-> "torn", key |-> key[t], req |-> t]) \in Seq(OutRec)
  BY <1>1, <1>2, AppendType
<1>. QED  BY <1>2, <1>3 DEF Torn

\* forward keeps the types; a new slot lies below the new length of the slab.
LEMMA TypeForward == \A t \in Req : TypeOK /\ Forward(t) => TypeOK'
<1>. SUFFICES ASSUME NEW t \in Req, TypeOK, Forward(t) PROVE TypeOK'
  OBVIOUS
<1>. USE DEF client, inner, wire, app, hist, Stage
<1>1. CASE Acquire(t)
  <2>1. sem' \in Nat
    BY <1>1 DEF Acquire, TypeOK
  <2>2. pc' \in [Req -> Stage]
    BY <1>1 DEF Acquire, TypeOK
  <2>. QED  BY <1>1, <2>1, <2>2 DEF Acquire, TypeOK
<1>2. CASE StartCheck(t)
  BY <1>2 DEF StartCheck, TypeOK, Future
<1>3. CASE Alive(t)
  <2>1. PICK k \in Vacant : Insert(t, k)
    BY <1>3 DEF Alive
  <2>. QED  BY <1>3, <2>1, InsertType DEF Alive, TypeOK
<1>4. CASE NotAlive(t)
  <2>1. slab' \in [DOMAIN slab' -> Slot] /\ DOMAIN slab' = DOMAIN slab
    BY <1>4, NotifyType DEF NotAlive, TypeOK
  <2>2. <<>> \in Seq(InRec) /\ <<>> \in Seq(OutRec)
    OBVIOUS
  <2>. QED  BY <1>4, <2>1, <2>2 DEF NotAlive, TypeOK
<1>5. CASE AliveError(t)
  <2>1. sem' \in Nat
    BY <1>5 DEF AliveError, TypeOK
  <2>2. pc' \in [Req -> Stage]
    BY <1>5 DEF AliveError, TypeOK
  <2>. QED  BY <1>5, <2>1, <2>2 DEF AliveError, TypeOK
<1>6. CASE Connected(t)
  <2>1. PICK k \in Vacant : Insert(t, k)
    BY <1>6 DEF Connected
  <2>2. <<>> \in Seq(InRec) /\ <<>> \in Seq(OutRec)
    OBVIOUS
  <2>. QED  BY <1>6, <2>1, <2>2, InsertType DEF Connected, TypeOK
<1>7. CASE ConnectFail(t)
  <2>1. sem' \in Nat
    BY <1>7 DEF ConnectFail, TypeOK
  <2>2. pc' \in [Req -> Stage]
    BY <1>7 DEF ConnectFail, TypeOK
  <2>. QED  BY <1>7, <2>1, <2>2 DEF ConnectFail, TypeOK
<1>8. CASE WriteBegin(t)
  BY <1>8, WriteType DEF WriteBegin, TypeOK
<1>9. CASE WriteParams(t)
  BY <1>9, WriteType DEF WriteParams, TypeOK
<1>10. CASE RejectHeader(t)
  BY <1>10, WriteType DEF RejectHeader, TypeOK
<1>11. CASE WriteStdin(t)
  BY <1>11, WriteType DEF WriteStdin, TypeOK
<1>12. CASE WriteFail(t)
  BY <1>12 DEF WriteFail, TypeOK
<1>. QED  BY <1>1, <1>2, <1>3, <1>4, <1>5, <1>6, <1>7, <1>8, <1>9, <1>10, <1>11, <1>12
          DEF Forward

\* Dropping a body marks at most one slot.
LEMMA DropType ==
    ASSUME TypeOK, NEW t \in Req, DropFCGIBody(t)
    PROVE  /\ DOMAIN slab' = DOMAIN slab /\ slab' \in [DOMAIN slab -> Slot]
           /\ \A j \in DOMAIN slab : /\ slab'[j].owner = slab[j].owner
                                     /\ slab'[j].buf = slab[j].buf
                                     /\ slab'[j].ended = slab[j].ended
                                     /\ slab'[j].aborted => slab[j].aborted \/ j = key[t]
           /\ lock' \in (Req \X Future) \cup {Free}
<1>1. slab \in [DOMAIN slab -> Slot]
  BY DEF TypeOK
<1>2. CASE rsp[t] # "none" /\ Uncontended({t} \X Future) /\ key[t] \in DOMAIN slab
  <2>1. slab' = [slab EXCEPT ![key[t]].aborted = TRUE]
    BY <1>2 DEF DropFCGIBody
  <2>2. lock' \in (Req \X Future) \cup {Free}
    BY DEF DropFCGIBody, TypeOK
  <2>3. DOMAIN slab' = DOMAIN slab /\ slab' \in [DOMAIN slab -> Slot]
    BY <1>1, <1>2, <2>1 DEF Slot
  <2>4. \A j \in DOMAIN slab : j # key[t] => slab'[j] = slab[j]
    BY <1>1, <2>1
  <2>5. slab'[key[t]] = [slab[key[t]] EXCEPT !.aborted = TRUE]
    BY <1>1, <1>2, <2>1
  <2>6. slab[key[t]] \in Slot
    BY <1>1, <1>2
  <2>7. /\ slab'[key[t]].owner = slab[key[t]].owner
        /\ slab'[key[t]].buf = slab[key[t]].buf
        /\ slab'[key[t]].ended = slab[key[t]].ended
    BY <2>5, <2>6 DEF Slot
  <2>. QED  BY <2>2, <2>3, <2>4, <2>7
<1>3. CASE ~(rsp[t] # "none" /\ Uncontended({t} \X Future) /\ key[t] \in DOMAIN slab)
  BY <1>1, <1>3 DEF DropFCGIBody, TypeOK
<1>. QED  BY <1>2, <1>3

\* send_body keeps the types, also when it fails and drops the FCGIBody.
LEMMA TypeSendBody == \A t \in Req : TypeOK /\ SendBody(t) => TypeOK'
<1>. SUFFICES ASSUME NEW t \in Req, TypeOK, SendBody(t) PROVE TypeOK'
  OBVIOUS
<1>. USE DEF client, inner, wire, app, hist, Stage
<1>1. CASE BodyChunk(t)
  <2>1. fed' \in [Req -> Nat]
    BY <1>1 DEF BodyChunk, TypeOK
  <2>. QED  BY <1>1, <2>1 DEF BodyChunk, TypeOK
<1>2. CASE BodyEnd(t)
  BY <1>2 DEF BodyEnd, TypeOK
<1>3. CASE SendLock(t)
  BY <1>3 DEF SendLock, TypeOK, Future
<1>4. CASE WriteChunk(t)
  BY <1>4, WriteType DEF WriteChunk, TypeOK
<1>5. CASE WriteEnd(t)
  BY <1>5, WriteType DEF WriteEnd, TypeOK
<1>6. CASE WriteAbort(t)
  BY <1>6, WriteType, DropType DEF WriteAbort, TypeOK
<1>7. CASE SendFail(t)
  BY <1>7, DropType DEF SendFail, TypeOK
<1>. QED  BY <1>1, <1>2, <1>3, <1>4, <1>5, <1>6, <1>7 DEF SendBody

\* A body that polled its slot and finds a chunk can take it.
LEMMA TypeResponse ==
    \A t \in Req : TypeOK /\ BodyHasSlot /\ Response(t) => TypeOK'
<1>. SUFFICES ASSUME NEW t \in Req, TypeOK, BodyHasSlot, Response(t) PROVE TypeOK'
  OBVIOUS
<1>. USE DEF client, inner, wire, app, hist, Stage
<1>1. CASE FrameLock(t)
  BY <1>1 DEF FrameLock, TypeOK, Future
<1>2. CASE FrameWait(t)
  BY <1>2 DEF FrameWait, Release, TypeOK
<1>3. CASE FrameEnd(t)
  <2>1. slab' \in [DOMAIN slab' -> Slot] /\ DOMAIN slab' \subseteq DOMAIN slab /\ sem' \in Nat
    BY <1>3 DEF FrameEnd, Remove, TypeOK
  <2>2. pc' \in [Req -> Stage]
        /\ rsp' \in [Req -> {"none", "header", "push", "done"}]
    BY <1>3 DEF FrameEnd, TypeOK
  <2>. QED  BY <1>3, <2>1, <2>2 DEF FrameEnd, Release, TypeOK
<1>4. CASE FrameData(t)
  <2>1. key[t] \in DOMAIN slab /\ slab[key[t]].buf # <<>>
    BY <1>4 DEF FrameData, BodyHasSlot, Owning, Slab
  <2>2. SameSlots(Pop(key[t])) /\ Head(slab[key[t]].buf) \in Chunk
    BY <2>1, PopSlots DEF TypeOK
  <2>3. slab' \in [DOMAIN slab' -> Slot] /\ DOMAIN slab' \subseteq DOMAIN slab
    <3>1. slab' = Remove(key[t]) \/ slab' = Pop(key[t])
      BY <1>4 DEF FrameData
    <3>2. CASE slab' = Remove(key[t])
      BY <3>2 DEF Remove, TypeOK
    <3>3. CASE slab' = Pop(key[t])
      BY <2>2, <3>3 DEF SameSlots
    <3>. QED  BY <3>1, <3>2, <3>3
  <2>4. got' \in [Req -> Seq(Chunk)]
    <3>1. Append(got[t], Head(slab[key[t]].buf)) \in Seq(Chunk)
      BY <2>2, AppendType DEF TypeOK
    <3>. QED  BY <1>4, <3>1 DEF FrameData, TypeOK, Slab
  <2>5. sem' \in Nat
    BY <1>4 DEF FrameData, TypeOK
  <2>6. pc' \in [Req -> Stage]
    <3>1. pc' = [pc EXCEPT ![t] = "done"] \/ pc' = pc
      BY <1>4 DEF FrameData
    <3>. QED  BY <3>1 DEF TypeOK
  <2>. QED  BY <1>4, <2>3, <2>4, <2>5, <2>6 DEF FrameData, Release, TypeOK
<1>5. CASE FrameHeader(t)
  <2>1. key[t] \in DOMAIN slab /\ slab[key[t]].buf # <<>>
    BY <1>5 DEF FrameHeader, ParseResult, BodyHasSlot, Owning, Slab
  <2>2. SameSlots(Pop(key[t])) /\ Head(slab[key[t]].buf) \in Chunk
    BY <2>1, PopSlots DEF TypeOK
  <2>3. slab' \in [DOMAIN slab' -> Slot] /\ DOMAIN slab' = DOMAIN slab
    BY <1>5, <2>2 DEF FrameHeader, ParseResult, SameSlots
  <2>4. PICK to \in {"header", "done", "push"} :
           /\ rsp' = [rsp EXCEPT ![t] = to]
           /\ first' = [first EXCEPT ![t] = Head(Slab(t).buf).n + (IF to = "push" THEN 0 ELSE 1)]
    BY <1>5 DEF FrameHeader, ParseResult
  <2>5. Head(Slab(t).buf).n + (IF to = "push" THEN 0 ELSE 1) \in Nat
    BY <2>2 DEF Chunk, Slab
  <2>6. first' \in [Req -> Nat]
    BY <2>4, <2>5 DEF TypeOK
  <2>7. rsp' \in [Req -> {"none", "header", "push", "done"}]
    BY <2>4 DEF TypeOK
  <2>. QED  BY <1>5, <2>3, <2>6, <2>7 DEF FrameHeader, ParseResult, Release, TypeOK
<1>6. CASE PushRest(t)
  <2>. DEFINE c == [req |-> t, n |-> first[t]]
  <2>1. key[t] \in DOMAIN slab
    BY <1>6 DEF PushRest, BodyHasSlot, Owning
  <2>2. c \in Chunk
    BY DEF Chunk, TypeOK
  <2>3. SameSlots(Push(key[t], c))
    BY <2>1, <2>2, PushSlots DEF TypeOK
  <2>4. slab' = Push(key[t], c)
    BY <1>6 DEF PushRest
  <2>5. slab' \in [DOMAIN slab' -> Slot] /\ DOMAIN slab' = DOMAIN slab
    BY <2>3, <2>4 DEF SameSlots
  <2>. QED  BY <1>6, <2>5 DEF PushRest, TypeOK
<1>7. CASE Respond(t)
  BY <1>7 DEF Respond, TypeOK
<1>8. CASE StartResponse(t)
  BY <1>8 DEF StartResponse, TypeOK
<1>. QED  BY <1>1, <1>2, <1>3, <1>4, <1>5, <1>6, <1>7, <1>8 DEF Response

\* Dropping a body or cancelling forward keeps the types.
LEMMA TypeGiveUp == \A t \in Req : TypeOK /\ GiveUp(t) => TypeOK'
<1>. SUFFICES ASSUME NEW t \in Req, TypeOK, GiveUp(t) PROVE TypeOK'
  OBVIOUS
<1>. USE DEF client, inner, wire, app, hist, Stage
<1>1. CASE DropBody(t)
  <2>1. outbuf' \in Seq(OutRec)
    BY <1>1, TornType DEF DropBody, TypeOK
  <2>. QED  BY <1>1, <2>1, DropType DEF DropBody, TypeOK
<1>2. CASE CancelForward(t)
  <2>1. sem' \in Nat
    BY <1>2 DEF CancelForward, TypeOK
  <2>2. pc' \in [Req -> Stage]
    BY <1>2 DEF CancelForward, TypeOK
  <2>3. outbuf' \in Seq(OutRec)
    BY <1>2, TornType DEF CancelForward, TypeOK
  <2>. QED  BY <1>2, <2>1, <2>2, <2>3 DEF CancelForward, TypeOK
<1>. QED  BY <1>1, <1>2 DEF GiveUp

\* close and the application keep the types.
LEMMA TypeOutside == TypeOK /\ (Close \/ App) => TypeOK'
<1>. SUFFICES ASSUME TypeOK, Close \/ App PROVE TypeOK'
  OBVIOUS
<1>. USE DEF client, inner, wire, app, hist, Stage
<1>1. CASE Close
  <2>1. slab' \in [DOMAIN slab' -> Slot] /\ DOMAIN slab' = DOMAIN slab
    BY <1>1, NotifyType DEF Close, TypeOK
  <2>. QED  BY <1>1, <2>1 DEF Close, TypeOK
<1>2. CASE AppRecv
  <2>1. Head(outbuf) \in OutRec /\ Tail(outbuf) \in Seq(OutRec)
    BY <1>2, HeadTail DEF AppRecv, TypeOK
  <2>2. active' \subseteq [key : Nat, req : Req]
    <3>1. [key |-> Head(outbuf).key, req |-> Head(outbuf).req] \in [key : Nat, req : Req]
      BY <2>1 DEF OutRec
    <3>2. active \subseteq [key : Nat, req : Req]
      BY DEF TypeOK
    <3>. QED  BY <1>2, <3>1, <3>2 DEF AppRecv
  <2>. QED  BY <1>2, <2>1, <2>2 DEF AppRecv, TypeOK
<1>3. CASE AppClose
  <2>1. <<>> \in Seq(OutRec)
    OBVIOUS
  <2>2. losses' \in Nat
    BY <1>3 DEF AppClose, TypeOK
  <2>. QED  BY <1>3, <2>1, <2>2 DEF AppClose, TypeOK
<1>4. CASE AppReset
  <2>1. <<>> \in Seq(OutRec) /\ <<>> \in Seq(InRec)
    OBVIOUS
  <2>2. losses' \in Nat
    BY <1>4 DEF AppReset, TypeOK
  <2>. QED  BY <1>4, <2>1, <2>2 DEF AppReset, TypeOK
<1>5. ASSUME NEW x \in active, NEW type \in {"stdout", "end", "noise"}, NEW n \in Nat,
             Emit(type, x, n)
      PROVE  inbuf' \in Seq(InRec)
  <2>1. [type |-> type, key |-> x.key, req |-> x.req, n |-> n] \in InRec
    BY DEF TypeOK, InRec
  <2>2. inbuf \in Seq(InRec)
    BY DEF TypeOK
  <2>3. Append(inbuf, [type |-> type, key |-> x.key, req |-> x.req, n |-> n]) \in Seq(InRec)
    BY <2>1, <2>2, AppendType
  <2>. QED  BY <1>5, <2>3 DEF Emit
<1>6. ASSUME NEW x \in active, AppStdout(x) PROVE TypeOK'
  <2>1. x.req \in Req
    BY DEF TypeOK
  <2>2. sent[x.req] + 1 \in Nat /\ sent' \in [Req -> Nat]
    BY <1>6, <2>1 DEF AppStdout, TypeOK
  <2>3. inbuf' \in Seq(InRec)
    BY <1>5, <1>6, <2>2 DEF AppStdout
  <2>. QED  BY <1>6, <2>2, <2>3 DEF AppStdout, TypeOK
<1>7. ASSUME NEW x \in active, AppNoise(x) PROVE TypeOK'
  <2>1. inbuf' \in Seq(InRec)
    BY <1>5, <1>7 DEF AppNoise
  <2>. QED  BY <1>7, <2>1 DEF AppNoise, TypeOK
<1>8. ASSUME NEW x \in active, AppEnd(x) PROVE TypeOK'
  <2>1. inbuf' \in Seq(InRec)
    BY <1>5, <1>8 DEF AppEnd
  <2>. QED  BY <1>8, <2>1 DEF AppEnd, TypeOK
<1>9. CASE AppTorn
  <2>1. /\ Head(outbuf) \in OutRec /\ Tail(outbuf) \in Seq(OutRec)
        /\ Tail(outbuf) # <<>>
    BY <1>9, HeadTail DEF AppTorn, TypeOK
  <2>2. Head(Tail(outbuf)) \in OutRec /\ Tail(Tail(outbuf)) \in Seq(OutRec)
    BY <2>1, HeadTail
  <2>3. ASSUME NEW a \in OutRec PROVE <<a>> \o Tail(Tail(outbuf)) \in Seq(OutRec)
    <3>1. <<a>> \in Seq(OutRec)
      OBVIOUS
    <3>. QED  BY <2>2, <3>1, ConcatType
  <2>4. ASSUME NEW a \in OutRec, NEW b \in OutRec
        PROVE  <<a, b>> \o Tail(Tail(outbuf)) \in Seq(OutRec)
    <3>1. <<a, b>> \in Seq(OutRec)
      OBVIOUS
    <3>. QED  BY <2>2, <3>1, ConcatType
  <2>5. PICK next : next = Head(Tail(outbuf))
    OBVIOUS
  <2>6. [next EXCEPT !.type = "torn"] \in OutRec /\ Misread(next.req) \subseteq OutRec
    <3>1. next \in OutRec /\ Ids \subseteq Nat
      BY <2>2, <2>5, MaxReqAssumption DEF Ids
    <3>. QED  BY <3>1 DEF Misread, OutRec
  <2>7. outbuf' \in Seq(OutRec)
    <3>1. \/ outbuf' = <<Head(outbuf)>> \o Tail(Tail(outbuf))
          \/ \E x \in Misread(next.req) :
                \/ outbuf' = <<x>> \o Tail(Tail(outbuf))
                \/ outbuf' = <<x, [next EXCEPT !.type = "torn"]>> \o Tail(Tail(outbuf))
      BY <1>9, <2>5 DEF AppTorn
    <3>. QED  BY <2>1, <2>3, <2>4, <2>6, <3>1
  <2>. QED  BY <1>9, <2>7 DEF AppTorn, TypeOK
<1>. QED  BY <1>1, <1>2, <1>3, <1>4, <1>6, <1>7, <1>8, <1>9 DEF App

-----------------------------------------------------------------------------
(* Slots and permits *)

Gone == {"failed", "dropped"}

\* Only a call that is over has an aborted slot.
AbortedGone == \A k \in DOMAIN slab : slab[k].aborted => pc[slab[k].owner] \in Gone

\* The mutex is held for send_body only while send_body is at a write.
SendHolds == \A t \in Req : lock = <<t, "send">> => Queued(t, "send")

\* The inductive invariant.  BodyHasSlot alone is not inductive: RespFree removes
\* the slot of an aborted request, whose owner must not need it any more, and
\* an error in send_body marks the slot of a call that must still be running.
PermitInv ==
    /\ TypeOK
    /\ BodyHasSlot
    /\ AbortedGone
    /\ SendHolds
    /\ PermitConservation
    /\ RidBounded

\* The slab keeps its slots and nobody becomes an owner or comes back.
SlotsKept ==
    /\ DOMAIN slab' = DOMAIN slab /\ key' = key
    /\ \A k \in DOMAIN slab : /\ slab'[k].owner = slab[k].owner
                              /\ slab'[k].aborted => slab[k].aborted
    /\ \A u \in Req : /\ pc'[u] \in Owning => pc[u] \in Owning
                      /\ pc[u] \in Gone => pc'[u] \in Gone

\* A step that keeps slots and owners keeps every call its slot and every mark its reason.
LEMMA KeepSlots ==
    ASSUME TypeOK, BodyHasSlot, AbortedGone, SlotsKept
    PROVE  BodyHasSlot' /\ AbortedGone'
  BY DEF SlotsKept, BodyHasSlot, AbortedGone, TypeOK, Slot

\* The slot k of a finished or ended call is removed.
SlotRemoved(k) ==
    /\ k \in DOMAIN slab /\ slab' = Remove(k) /\ key' = key
    /\ \A u \in Req : /\ pc'[u] \in Owning => pc[u] \in Owning /\ slab[k].owner # u
                      /\ pc[u] \in Gone => pc'[u] \in Gone

\* Removing one slot leaves the others as they are.
LEMMA RemoveSlots ==
    ASSUME TypeOK, BodyHasSlot, AbortedGone, NEW k, SlotRemoved(k)
    PROVE  BodyHasSlot' /\ AbortedGone'
  BY DEF SlotRemoved, Remove, BodyHasSlot, AbortedGone, TypeOK, Slot

\* notify_everyone keeps slots, owners and abort marks.
LEMMA NotifySlots ==
    ASSUME TypeOK
    PROVE  /\ DOMAIN NotifyEveryone = DOMAIN slab
           /\ \A k \in DOMAIN slab : /\ NotifyEveryone[k].owner = slab[k].owner
                                     /\ NotifyEveryone[k].aborted = slab[k].aborted
                                     /\ NotifyEveryone[k].buf = slab[k].buf
  BY DEF NotifyEveryone, TypeOK, Slot

\* A new slot for a call that had none.
LEMMA InsertSlots ==
    ASSUME TypeOK, BodyHasSlot, AbortedGone, NEW t \in Req, NEW k \in Vacant, Insert(t, k),
           pc[t] \in {"alive", "connect"}, pc' = [pc EXCEPT ![t] = "begin"]
    PROVE  BodyHasSlot' /\ AbortedGone'
<1>1. k \notin DOMAIN slab /\ DOMAIN slab' = DOMAIN slab \cup {k}
  BY InsertType
<1>2. /\ slab'[k].owner = t /\ ~slab'[k].aborted
      /\ \A j \in DOMAIN slab : slab'[j] = slab[j]
  BY <1>1 DEF Insert
<1>3. key'[t] = k /\ \A u \in Req \ {t} : key'[u] = key[u]
  BY DEF Insert, TypeOK
<1>4. BodyHasSlot'
  <2>. SUFFICES ASSUME NEW u \in Req, pc'[u] \in Owning
                PROVE  key'[u] \in DOMAIN slab' /\ slab'[key'[u]].owner = u
    BY DEF BodyHasSlot
  <2>1. CASE u = t
    BY <1>1, <1>2, <1>3, <2>1
  <2>2. CASE u # t
    <3>1. pc[u] \in Owning
      BY <2>2 DEF TypeOK
    <3>. QED  BY <1>1, <1>2, <1>3, <2>2, <3>1 DEF BodyHasSlot
  <2>. QED  BY <2>1, <2>2
<1>5. AbortedGone'
  <2>. SUFFICES ASSUME NEW j \in DOMAIN slab', slab'[j].aborted
                PROVE  pc'[slab'[j].owner] \in Gone
    BY DEF AbortedGone
  <2>1. j \in DOMAIN slab /\ slab'[j] = slab[j]
    BY <1>1, <1>2
  <2>2. pc[slab[j].owner] \in Gone /\ slab[j].owner \in Req
    BY <2>1 DEF AbortedGone, TypeOK, Slot
  <2>. QED  BY <2>1, <2>2 DEF Gone, TypeOK
<1>. QED  BY <1>4, <1>5

\* Dropping the FCGIBody of a call that is over marks its own slot.
LEMMA DropSlots ==
    ASSUME TypeOK, BodyHasSlot, AbortedGone, NEW t \in Req, DropFCGIBody(t),
           pc[t] \in {"run", "body"}, key' = key,
           pc' = [pc EXCEPT ![t] = "failed"] \/ pc' = [pc EXCEPT ![t] = "dropped"]
    PROVE  BodyHasSlot' /\ AbortedGone'
<1>1. key[t] \in DOMAIN slab /\ slab[key[t]].owner = t
  BY DEF BodyHasSlot, Owning
<1>2. /\ DOMAIN slab' = DOMAIN slab
      /\ \A j \in DOMAIN slab : /\ slab'[j].owner = slab[j].owner
                                /\ slab'[j].aborted => slab[j].aborted \/ j = key[t]
  BY DropType
<1>3. \A u \in Req : /\ pc'[u] \in Owning => pc[u] \in Owning
                     /\ pc[u] \in Gone => pc'[u] \in Gone
  BY DEF TypeOK, Owning, Gone
<1>4. pc'[t] \in Gone
  BY DEF TypeOK, Gone
<1>5. \A j \in DOMAIN slab : slab[j].owner \in Req
  BY DEF TypeOK, Slot
<1>. QED  BY <1>1, <1>2, <1>3, <1>4, <1>5 DEF BodyHasSlot, AbortedGone

\* How a step moves permits: not at all, to a call, into a slot, out of a slot,
\* or back from a call.
PermitSame == sem' = sem /\ Waiting' = Waiting /\ DOMAIN slab' = DOMAIN slab /\ entries' = entries

PermitTaken(t) == /\ sem' = sem - 1 /\ Waiting' = Waiting \cup {t} /\ t \notin Waiting
                  /\ DOMAIN slab' = DOMAIN slab /\ entries' = entries

PermitSlotted(t, k) == /\ sem' = sem /\ Waiting' = Waiting \ {t} /\ t \in Waiting
                       /\ k \in Vacant /\ DOMAIN slab' = DOMAIN slab \cup {k}
                       /\ entries' = IF k = entries THEN entries + 1 ELSE entries

PermitFreed(k) == /\ sem' = sem + 1 /\ Waiting' = Waiting
                  /\ k \in DOMAIN slab /\ DOMAIN slab' = DOMAIN slab \ {k} /\ entries' = entries

PermitReturned(t) == /\ sem' = sem + 1 /\ Waiting' = Waiting \ {t} /\ t \in Waiting
                     /\ DOMAIN slab' = DOMAIN slab /\ entries' = entries

\* Each of the ways a step may move permits keeps their sum and the bound on ids.
LEMMA PermitStep ==
    ASSUME TypeOK, PermitConservation, RidBounded,
           \/ PermitSame
           \/ \E t \in Req : PermitTaken(t) \/ PermitReturned(t)
           \/ \E t \in Req, k \in Nat : PermitSlotted(t, k)
           \/ \E k \in Nat : PermitFreed(k)
    PROVE  PermitConservation' /\ RidBounded'
<1>1. IsFiniteSet(Waiting) /\ Cardinality(Waiting) \in Nat
  BY ReqAssumption, FS_Subset, FS_CardinalityType DEF Waiting
<1>2. IsFiniteSet(0 .. entries - 1) /\ Cardinality(0 .. entries - 1) = entries
  <2>1. entries \in Nat /\ entries - 1 \in Int /\ 0 \in Int
    BY DEF TypeOK
  <2>2. /\ IsFiniteSet(0 .. entries - 1)
        /\ Cardinality(0 .. entries - 1) = IF 0 > entries - 1 THEN 0 ELSE (entries - 1) - 0 + 1
    BY <2>1, FS_Interval
  <2>. QED  BY <2>1, <2>2
<1>3. IsFiniteSet(DOMAIN slab) /\ Cardinality(DOMAIN slab) \in Nat
  BY <1>2, FS_Subset, FS_CardinalityType DEF TypeOK
<1>4. MaxReq \in Nat /\ sem \in Nat /\ entries \in Nat
  BY MaxReqAssumption DEF TypeOK
<1>5. CASE PermitSame
  BY <1>5 DEF PermitSame, PermitConservation, RidBounded
<1>6. ASSUME NEW t \in Req, PermitTaken(t) PROVE PermitConservation' /\ RidBounded'
  <2>1. Cardinality(Waiting') = Cardinality(Waiting) + 1
    BY <1>1, <1>6, FS_AddElement DEF PermitTaken
  <2>. QED  BY <1>1, <1>3, <1>4, <1>6, <2>1 DEF PermitTaken, PermitConservation, RidBounded
<1>7. ASSUME NEW t \in Req, PermitReturned(t) PROVE PermitConservation' /\ RidBounded'
  <2>1. Cardinality(Waiting') = Cardinality(Waiting) - 1
    BY <1>1, <1>7, FS_RemoveElement DEF PermitReturned
  <2>. QED  BY <1>1, <1>3, <1>4, <1>7, <2>1 DEF PermitReturned, PermitConservation, RidBounded
<1>8. ASSUME NEW k \in Nat, PermitFreed(k) PROVE PermitConservation' /\ RidBounded'
  <2>1. Cardinality(DOMAIN slab') = Cardinality(DOMAIN slab) - 1
    BY <1>3, <1>8, FS_RemoveElement DEF PermitFreed
  <2>. QED  BY <1>1, <1>3, <1>4, <1>8, <2>1 DEF PermitFreed, PermitConservation, RidBounded
<1>9. ASSUME NEW t \in Req, NEW k \in Nat, PermitSlotted(t, k)
      PROVE  PermitConservation' /\ RidBounded'
  <2>1. Cardinality(Waiting') = Cardinality(Waiting) - 1 /\ Cardinality(Waiting) > 0
    <3>1. Cardinality(Waiting') = Cardinality(Waiting) - 1
      BY <1>1, <1>9, FS_RemoveElement DEF PermitSlotted
    <3>2. Waiting # {}
      BY <1>9 DEF PermitSlotted
    <3>. QED  BY <1>1, <3>1, <3>2, FS_EmptySet
  <2>2. k \notin DOMAIN slab
    BY <1>9 DEF PermitSlotted, Vacant, TypeOK
  <2>3. Cardinality(DOMAIN slab') = Cardinality(DOMAIN slab) + 1
    BY <1>3, <1>9, <2>2, FS_AddElement DEF PermitSlotted
  <2>4. PermitConservation'
    BY <1>1, <1>3, <1>4, <1>9, <2>1, <2>3 DEF PermitSlotted, PermitConservation
  <2>5. RidBounded'
    <3>1. CASE k # entries
      BY <1>9, <3>1 DEF PermitSlotted, RidBounded
    <3>2. CASE k = entries
      <4>1. DOMAIN slab = 0 .. entries - 1
        <5>1. (0 .. entries - 1) \ DOMAIN slab = {}
          <6>1. entries \notin (0 .. entries - 1) \ DOMAIN slab
            BY <1>4
          <6>2. entries \in Vacant
            BY <1>9, <3>2 DEF PermitSlotted
          <6>. QED  BY <6>1, <6>2 DEF Vacant
        <5>2. DOMAIN slab \subseteq 0 .. entries - 1
          BY DEF TypeOK
        <5>. QED  BY <5>1, <5>2
      <4>2. Cardinality(DOMAIN slab) = entries
        BY <1>2, <4>1
      <4>3. entries' = entries + 1
        BY <1>9, <3>2 DEF PermitSlotted
      <4>. QED  BY <1>1, <1>4, <2>1, <4>2, <4>3 DEF PermitConservation, RidBounded
    <3>. QED  BY <3>1, <3>2
  <2>. QED  BY <2>4, <2>5
<1>. QED  BY <1>5, <1>6, <1>7, <1>8, <1>9

\* The mutex does not change hands to a send_body, and the one that holds it
\* stays where it is.
SendKept == \A u \in Req : lock' = <<u, "send">> =>
                lock = <<u, "send">> /\ pc'[u] = pc[u] /\ snd'[u] = snd[u]

\* send_body still holds what it held if neither its progress nor the mutex changed.
LEMMA KeepSend == ASSUME SendHolds, SendKept PROVE SendHolds'
  BY DEF SendHolds, SendKept, Queued

\* All but the type invariant.
SlotInv == BodyHasSlot /\ AbortedGone /\ SendHolds /\ PermitConservation /\ RidBounded

\* A step that moves no permit and keeps the slots preserves the invariant.
LEMMA QuietStep ==
    ASSUME PermitInv, SlotsKept, SendKept, PermitSame
    PROVE  SlotInv'
  BY KeepSlots, KeepSend, PermitStep DEF PermitInv, SlotInv

\* A step that changes neither calls nor mutex nor the keys of the slab.
LEMMA SlabStep ==
    ASSUME PermitInv, UNCHANGED <<pc, snd, key, lock, sem, entries>>,
           DOMAIN slab' = DOMAIN slab,
           \A k \in DOMAIN slab : /\ slab'[k].owner = slab[k].owner
                                  /\ slab'[k].aborted => slab[k].aborted
    PROVE  SlotInv'
<1>1. SlotsKept /\ SendKept /\ PermitSame
  BY DEF SlotsKept, SendKept, PermitSame, Waiting
<1>. QED  BY <1>1, QuietStep

\* poll_resp preserves the slot invariant; the permit of a freed slot comes back.
LEMMA InvPollResp == PermitInv /\ PollResp => SlotInv'
<1>. SUFFICES ASSUME PermitInv, PollResp PROVE SlotInv'
  OBVIOUS
<1>. USE DEF client, inner, wire, app, hist
<1>t. TypeOK
  BY DEF PermitInv
<1>h. inbuf # <<>> => Head(inbuf) \in InRec
  BY <1>t, HeadTail DEF TypeOK
<1>1. CASE RespOut
  <2>. DEFINE x == Head(inbuf)
              c == [req |-> x.req, n |-> x.n]
  <2>1. x \in InRec /\ x.key \in DOMAIN slab
    BY <1>1, <1>h DEF RespOut, Parsing, Addressed
  <2>2. c \in Chunk
    BY <2>1 DEF InRec, Chunk
  <2>3. slab' = Push(x.key, c)
    BY <1>1 DEF RespOut
  <2>4. SameSlots(Push(x.key, c))
    BY <1>t, <2>1, <2>2, PushSlots DEF TypeOK
  <2>. QED  BY <1>1, <2>3, <2>4, SlabStep DEF SameSlots, RespOut
<1>2. CASE RespEnd
  <2>1. PICK k \in DOMAIN slab : slab' = [slab EXCEPT ![k].ended = TRUE]
    BY <1>2 DEF RespEnd, Addressed
  <2>2. DOMAIN slab' = DOMAIN slab /\ \A j \in DOMAIN slab : slab'[j].owner = slab[j].owner
                                        /\ slab'[j].aborted = slab[j].aborted
    BY <1>t, <2>1 DEF TypeOK, Slot
  <2>. QED  BY <1>2, <2>2, SlabStep DEF RespEnd
<1>3. CASE RespFree
  <2>1. PICK k \in DOMAIN slab : slab[k].aborted /\ slab' = Remove(k)
    BY <1>3 DEF RespFree
  <2>2. pc[slab[k].owner] \in Gone /\ slab[k].owner \in Req
    BY <1>t, <2>1 DEF PermitInv, AbortedGone, TypeOK, Slot
  <2>3. SlotRemoved(k)
    BY <1>3, <2>1, <2>2 DEF SlotRemoved, RespFree, Gone, Owning
  <2>4. BodyHasSlot' /\ AbortedGone'
    BY <2>3, RemoveSlots DEF PermitInv
  <2>5. SendKept
    BY <1>3 DEF RespFree, SendKept
  <2>6. k \in Nat
    BY <1>t DEF TypeOK
  <2>7. PermitFreed(k)
    BY <1>3, <2>1 DEF RespFree, PermitFreed, Waiting, Remove
  <2>. QED  BY <2>4, <2>5, <2>6, <2>7, KeepSend, PermitStep DEF PermitInv, SlotInv
<1>4. CASE RespSkip \/ RespSplit \/ RespReady \/ RespPending
  BY <1>4, SlabStep DEF RespSkip, RespSplit, RespReady, RespPending
<1>5. CASE RespClosed \/ RespError
  <2>1. slab' = NotifyEveryone /\ UNCHANGED <<pc, snd, key, lock, sem, entries>>
    BY <1>5 DEF RespClosed, RespError
  <2>. QED  BY <1>t, <2>1, NotifySlots, SlabStep
<1>. QED  BY <1>1, <1>2, <1>3, <1>4, <1>5 DEF PollResp

\* forward preserves the slot invariant: the permit moves from the call into its slot.
LEMMA InvForward == \A t \in Req : PermitInv /\ Forward(t) => SlotInv'
<1>. SUFFICES ASSUME NEW t \in Req, PermitInv, Forward(t) PROVE SlotInv'
  OBVIOUS
<1>. USE DEF client, inner, wire, app, hist
<1>t. TypeOK /\ pc \in [Req -> Stage] /\ FreeAssumption
  BY FreeAssumption DEF PermitInv, TypeOK
<1>1. CASE Acquire(t)
  <2>1. SlotsKept
    BY <1>1, <1>t DEF Acquire, SlotsKept, Owning, Gone
  <2>2. SendKept
    BY <1>1, <1>t DEF Acquire, SendKept, PermitInv, SendHolds, Queued
  <2>3. PermitTaken(t)
    BY <1>1, <1>t DEF Acquire, PermitTaken, Waiting
  <2>. QED  BY <2>1, <2>2, <2>3, KeepSlots, KeepSend, PermitStep DEF PermitInv, SlotInv
<1>2. CASE StartCheck(t)
  <2>1. SlotsKept
    BY <1>2, <1>t DEF StartCheck, SlotsKept, Owning, Gone
  <2>2. SendKept
    BY <1>2, <1>t DEF StartCheck, SendKept
  <2>3. PermitSame
    BY <1>2, <1>t DEF StartCheck, PermitSame, Waiting
  <2>. QED  BY <2>1, <2>2, <2>3, QuietStep
<1>3. CASE Alive(t) \/ Connected(t)
  <2>1. PICK k \in Vacant : Insert(t, k)
    BY <1>3 DEF Alive, Connected
  <2>2. pc[t] \in {"alive", "connect"} /\ pc' = [pc EXCEPT ![t] = "begin"]
    BY <1>3 DEF Alive, Connected
  <2>3. BodyHasSlot' /\ AbortedGone'
    BY <2>1, <2>2, InsertSlots DEF PermitInv
  <2>4. SendKept
    BY <1>3, <1>t, <2>2 DEF Alive, Connected, SendKept, PermitInv, SendHolds, Queued
  <2>5. k \in Nat /\ DOMAIN slab' = DOMAIN slab \cup {k}
    BY <1>t, <2>1, InsertType
  <2>6. PermitSlotted(t, k)
    BY <1>3, <1>t, <2>1, <2>2, <2>5 DEF Alive, Connected, PermitSlotted, Waiting, Insert
  <2>. QED  BY <2>3, <2>4, <2>5, <2>6, KeepSend, PermitStep DEF PermitInv, SlotInv
<1>4. CASE NotAlive(t)
  <2>1. SlotsKept
    BY <1>4, <1>t, NotifySlots DEF NotAlive, SlotsKept, Owning, Gone
  <2>2. SendKept
    BY <1>4, <1>t DEF NotAlive, SendKept, PermitInv, SendHolds, Queued
  <2>3. PermitSame
    BY <1>4, <1>t, NotifySlots DEF NotAlive, PermitSame, Waiting
  <2>. QED  BY <2>1, <2>2, <2>3, QuietStep
<1>5. CASE AliveError(t) \/ ConnectFail(t)
  <2>1. SlotsKept
    BY <1>5, <1>t DEF AliveError, ConnectFail, SlotsKept, Owning, Gone
  <2>2. SendKept
    BY <1>5, <1>t DEF AliveError, ConnectFail, SendKept, FreeAssumption
  <2>3. PermitReturned(t)
    BY <1>5, <1>t DEF AliveError, ConnectFail, PermitReturned, Waiting
  <2>. QED  BY <2>1, <2>2, <2>3, KeepSlots, KeepSend, PermitStep DEF PermitInv, SlotInv
<1>6. CASE WriteBegin(t)
  <2>1. SlotsKept
    BY <1>6, <1>t DEF WriteBegin, SlotsKept, Owning, Gone
  <2>2. SendKept
    BY <1>6, <1>t DEF WriteBegin, SendKept, PermitInv, SendHolds, Queued
  <2>3. PermitSame
    BY <1>6, <1>t DEF WriteBegin, PermitSame, Waiting
  <2>. QED  BY <2>1, <2>2, <2>3, QuietStep
<1>7. CASE WriteParams(t) \/ WriteStdin(t) \/ RejectHeader(t) \/ WriteFail(t)
  <2>0. /\ pc[t] \in {"begin", "params", "stdin"}
        /\ \E s \in {"run", "stdin", "failed"} : pc' = [pc EXCEPT ![t] = s]
        /\ \E s \in {"none", "data"} : snd' = [snd EXCEPT ![t] = s] \/ snd' = snd
        /\ lock' = lock \/ lock' = Free
        /\ UNCHANGED <<key, sem, slab, entries>>
    BY <1>7 DEF WriteParams, WriteStdin, RejectHeader, WriteFail
  <2>1. SlotsKept
    BY <1>t, <2>0 DEF SlotsKept, Owning, Gone
  <2>2. SendKept
    BY <1>t, <2>0 DEF SendKept, PermitInv, SendHolds, Queued, FreeAssumption, TypeOK
  <2>3. PermitSame
    BY <1>t, <2>0 DEF PermitSame, Waiting
  <2>. QED  BY <2>1, <2>2, <2>3, QuietStep
<1>. QED  BY <1>1, <1>2, <1>3, <1>4, <1>5, <1>6, <1>7 DEF Forward

\* send_body preserves the slot invariant; a failure marks the own slot at most.
LEMMA InvSendBody == \A t \in Req : PermitInv /\ SendBody(t) => SlotInv'
<1>. SUFFICES ASSUME NEW t \in Req, PermitInv, SendBody(t) PROVE SlotInv'
  OBVIOUS
<1>. USE DEF client, inner, wire, app, hist
<1>t. TypeOK /\ pc \in [Req -> Stage] /\ snd \in [Req -> {"none", "data", "chunk", "end", "abort", "sent"}]
  BY DEF PermitInv, TypeOK
<1>f. \A u \in Req : Free # <<u, "send">>
  BY FreeAssumption
<1>1. CASE BodyChunk(t) \/ BodyEnd(t)
  <2>1. /\ snd[t] = "data" /\ UNCHANGED <<pc, key, lock, sem, slab, entries>>
        /\ \E s \in {"chunk", "end", "abort"} : snd' = [snd EXCEPT ![t] = s]
    BY <1>1 DEF BodyChunk, BodyEnd
  <2>2. SlotsKept /\ PermitSame
    BY <2>1 DEF SlotsKept, PermitSame, Waiting
  <2>3. SendKept
    BY <1>t, <2>1 DEF SendKept, PermitInv, SendHolds, Queued
  <2>. QED  BY <2>2, <2>3, QuietStep
<1>2. CASE SendLock(t)
  <2>1. SlotsKept /\ PermitSame
    BY <1>2 DEF SendLock, SlotsKept, PermitSame, Waiting
  <2>2. SendHolds'
    BY <1>2 DEF SendLock, SendHolds, Queued
  <2>. QED  BY <2>1, <2>2, KeepSlots, PermitStep DEF PermitInv, SlotInv
<1>3. CASE WriteChunk(t) \/ WriteEnd(t)
  <2>1. lock' = Free /\ UNCHANGED <<pc, key, sem, slab, entries>>
    BY <1>3 DEF WriteChunk, WriteEnd
  <2>2. SlotsKept /\ PermitSame
    BY <2>1 DEF SlotsKept, PermitSame, Waiting
  <2>3. SendKept
    BY <1>f, <2>1 DEF SendKept
  <2>. QED  BY <2>2, <2>3, QuietStep
<1>4. CASE WriteAbort(t) \/ SendFail(t)
  <2>1. /\ lock = <<t, "send">> /\ DropFCGIBody(t) /\ pc' = [pc EXCEPT ![t] = "failed"]
        /\ UNCHANGED <<key, sem, entries>>
    BY <1>4 DEF WriteAbort, SendFail
  <2>2. pc[t] = "run"
    BY <2>1 DEF PermitInv, SendHolds, Queued
  <2>3. BodyHasSlot' /\ AbortedGone'
    BY <2>1, <2>2, DropSlots DEF PermitInv
  <2>4. lock' = Free
    BY <2>1 DEF DropFCGIBody, Future
  <2>5. SendKept
    BY <1>f, <2>4 DEF SendKept
  <2>6. PermitSame
    BY <1>t, <2>1, <2>2, DropType DEF PermitSame, Waiting
  <2>. QED  BY <2>3, <2>5, <2>6, KeepSend, PermitStep DEF PermitInv, SlotInv
<1>. QED  BY <1>1, <1>2, <1>3, <1>4 DEF SendBody

\* The owner's slot is removed when it has read everything.
LEMMA FinishStep ==
    ASSUME PermitInv, NEW t \in Req, pc[t] = "body", slab' = Remove(key[t]), sem' = sem + 1,
           pc' = [pc EXCEPT ![t] = "done"], lock' = Free, UNCHANGED <<snd, key, entries>>
    PROVE  SlotInv'
<1>t. TypeOK /\ pc \in [Req -> Stage]
  BY DEF PermitInv, TypeOK
<1>1. key[t] \in DOMAIN slab /\ slab[key[t]].owner = t
  BY DEF PermitInv, BodyHasSlot, Owning
<1>2. SlotRemoved(key[t])
  BY <1>t, <1>1 DEF SlotRemoved, Owning, Gone
<1>3. BodyHasSlot' /\ AbortedGone'
  BY <1>2, RemoveSlots DEF PermitInv
<1>4. SendKept
  BY FreeAssumption DEF SendKept
<1>5. key[t] \in Nat
  BY <1>t DEF TypeOK
<1>6. PermitFreed(key[t])
  BY <1>t, <1>1 DEF PermitFreed, Waiting, Remove
<1>. QED  BY <1>3, <1>4, <1>5, <1>6, KeepSend, PermitStep DEF PermitInv, SlotInv

\* A poll that leaves the slot in place.
LEMMA ReadStep ==
    ASSUME PermitInv, SameSlots(slab'), lock' = Free, UNCHANGED <<pc, snd, key, sem, entries>>
    PROVE  SlotInv'
<1>1. SlotsKept /\ PermitSame
  BY DEF SameSlots, SlotsKept, PermitSame, Waiting
<1>2. SendKept
  BY FreeAssumption DEF SendKept
<1>. QED  BY <1>1, <1>2, QuietStep

\* create_response and poll_frame preserve the slot invariant; only the owner removes a slot.
LEMMA InvResponse == \A t \in Req : PermitInv /\ Response(t) => SlotInv'
<1>. SUFFICES ASSUME NEW t \in Req, PermitInv, Response(t) PROVE SlotInv'
  OBVIOUS
<1>. USE DEF client, inner, wire, app, hist
<1>t. TypeOK /\ pc \in [Req -> Stage] /\ slab \in [DOMAIN slab -> Slot]
  BY DEF PermitInv, TypeOK
<1>s. SameSlots(slab)
  BY <1>t DEF SameSlots
<1>1. CASE FrameLock(t)
  <2>1. lock' = <<t, "resp">> /\ UNCHANGED <<pc, snd, key, sem, slab, entries>>
    BY <1>1 DEF FrameLock
  <2>2. SlotsKept /\ PermitSame
    BY <2>1 DEF SlotsKept, PermitSame, Waiting
  <2>3. SendKept
    BY <2>1 DEF SendKept
  <2>. QED  BY <2>2, <2>3, QuietStep
<1>2. CASE FrameWait(t)
  BY <1>2, <1>s, ReadStep DEF FrameWait, Release
<1>3. CASE FrameEnd(t)
  <2>1. CASE pc[t] = "body"
    BY <1>3, <2>1, FinishStep DEF FrameEnd, Release
  <2>2. CASE pc[t] # "body"
    BY <1>3, <1>s, <2>2, ReadStep DEF FrameEnd, Release
  <2>. QED  BY <2>1, <2>2
<1>4. CASE FrameData(t)
  <2>1. pc[t] = "body" /\ lock' = Free /\ UNCHANGED <<snd, key, entries>>
        /\ key[t] \in DOMAIN slab /\ slab[key[t]].buf # <<>>
    BY <1>4 DEF FrameData, Release, Slab, PermitInv, BodyHasSlot, Owning
  <2>2. SameSlots(Pop(key[t]))
    BY <1>t, <2>1, PopSlots
  <2>3. \/ slab' = Remove(key[t]) /\ sem' = sem + 1 /\ pc' = [pc EXCEPT ![t] = "done"]
        \/ slab' = Pop(key[t]) /\ UNCHANGED <<sem, pc>>
    BY <1>4 DEF FrameData
  <2>. QED  BY <2>1, <2>2, <2>3, FinishStep, ReadStep
<1>5. CASE FrameHeader(t)
  <2>1. /\ lock' = Free /\ UNCHANGED <<pc, snd, key, sem, entries>>
        /\ key[t] \in DOMAIN slab /\ slab[key[t]].buf # <<>> /\ slab' = Pop(key[t])
    BY <1>5 DEF FrameHeader, ParseResult, Release, Slab, PermitInv, BodyHasSlot, Owning
  <2>2. SameSlots(Pop(key[t]))
    BY <1>t, <2>1, PopSlots
  <2>. QED  BY <2>1, <2>2, ReadStep
<1>6. CASE PushRest(t)
  <2>. DEFINE c == [req |-> t, n |-> first[t]]
  <2>1. key[t] \in DOMAIN slab /\ slab' = Push(key[t], c) /\ lock = Free
        /\ UNCHANGED <<pc, snd, key, lock, sem, entries>>
    BY <1>6 DEF PushRest, PermitInv, BodyHasSlot, Owning
  <2>2. c \in Chunk
    BY <1>t DEF Chunk, TypeOK
  <2>3. SameSlots(Push(key[t], c))
    BY <1>t, <2>1, <2>2, PushSlots
  <2>. QED  BY <2>1, <2>3, ReadStep
<1>7. CASE Respond(t)
  <2>1. /\ pc[t] = "run" /\ snd[t] \in {"none", "sent"} /\ pc' = [pc EXCEPT ![t] = "body"]
        /\ UNCHANGED <<snd, key, lock, sem, slab, entries>>
    BY <1>7 DEF Respond
  <2>2. SlotsKept
    BY <1>t, <2>1 DEF SlotsKept, Owning, Gone
  <2>3. PermitSame
    BY <1>t, <2>1 DEF PermitSame, Waiting
  <2>4. SendKept
    BY <1>t, <2>1 DEF SendKept, PermitInv, SendHolds, Queued
  <2>. QED  BY <2>2, <2>3, <2>4, QuietStep
<1>8. CASE StartResponse(t)
  <2>1. UNCHANGED <<pc, snd, key, lock, sem, slab, entries>>
    BY <1>8 DEF StartResponse
  <2>2. SlotsKept /\ PermitSame
    BY <2>1 DEF SlotsKept, PermitSame, Waiting
  <2>3. SendKept
    BY <2>1 DEF SendKept
  <2>. QED  BY <2>2, <2>3, QuietStep
<1>. QED  BY <1>1, <1>2, <1>3, <1>4, <1>5, <1>6, <1>7, <1>8 DEF Response

\* Dropping preserves the slot invariant; a permit without a slot comes back.
LEMMA InvGiveUp == \A t \in Req : PermitInv /\ GiveUp(t) => SlotInv'
<1>. SUFFICES ASSUME NEW t \in Req, PermitInv, GiveUp(t) PROVE SlotInv'
  OBVIOUS
<1>. USE DEF client, inner, wire, app, hist
<1>t. TypeOK /\ pc \in [Req -> Stage]
  BY DEF PermitInv, TypeOK
<1>f. \A u \in Req : Free # <<u, "send">>
  BY FreeAssumption
<1>1. CASE DropBody(t)
  <2>1. /\ pc[t] \in {"run", "body"} /\ DropFCGIBody(t) /\ pc' = [pc EXCEPT ![t] = "dropped"]
        /\ UNCHANGED <<snd, key, sem, entries>>
    BY <1>1 DEF DropBody
  <2>2. BodyHasSlot' /\ AbortedGone'
    BY <2>1, DropSlots DEF PermitInv
  <2>3. SendKept
    <3>1. \A u \in Req : lock' = <<u, "send">> => lock = <<u, "send">> /\ u # t
      BY <1>f, <2>1 DEF DropFCGIBody, Future
    <3>. QED  BY <1>t, <2>1, <3>1 DEF SendKept
  <2>4. PermitSame
    BY <1>t, <2>1, DropType DEF PermitSame, Waiting
  <2>. QED  BY <2>2, <2>3, <2>4, KeepSend, PermitStep DEF PermitInv, SlotInv
<1>2. CASE CancelForward(t)
  <2>1. /\ pc[t] \in {"lock", "connect", "begin", "params", "stdin"}
        /\ pc' = [pc EXCEPT ![t] = "dropped"]
        /\ lock' = lock \/ lock' = Free
        /\ UNCHANGED <<snd, key, slab, entries>>
    BY <1>2 DEF CancelForward
  <2>2. SlotsKept
    BY <1>t, <2>1 DEF SlotsKept, Owning, Gone
  <2>3. SendKept
    BY <1>t, <1>f, <2>1 DEF SendKept, PermitInv, SendHolds, Queued
  <2>4. CASE pc[t] \in {"lock", "connect"}
    <3>1. PermitReturned(t)
      BY <1>2, <1>t, <2>1, <2>4 DEF CancelForward, PermitReturned, Waiting
    <3>. QED  BY <2>2, <2>3, <3>1, KeepSlots, KeepSend, PermitStep DEF PermitInv, SlotInv
  <2>5. CASE pc[t] \notin {"lock", "connect"}
    <3>1. PermitSame
      BY <1>2, <1>t, <2>1, <2>5 DEF CancelForward, PermitSame, Waiting
    <3>. QED  BY <2>2, <2>3, <3>1, QuietStep
  <2>. QED  BY <2>4, <2>5
<1>. QED  BY <1>1, <1>2 DEF GiveUp

\* close and the application preserve the slot invariant.
LEMMA InvOutside == PermitInv /\ (Close \/ App) => SlotInv'
<1>. SUFFICES ASSUME PermitInv, Close \/ App PROVE SlotInv'
  OBVIOUS
<1>. USE DEF client, inner, wire, app, hist
<1>1. CASE Close
  <2>1. UNCHANGED <<pc, snd, key, lock, sem, entries>> /\ (slab' = NotifyEveryone \/ slab' = slab)
    BY <1>1 DEF Close
  <2>. QED  BY <2>1, NotifySlots, SlabStep DEF PermitInv
<1>2. CASE App
  <2>1. UNCHANGED <<pc, snd, key, lock, sem, slab, entries>>
    BY <1>2 DEF App, AppRecv, AppTorn, AppClose, AppReset, AppStdout, AppNoise, AppEnd
  <2>. QED  BY <2>1, SlabStep
<1>. QED  BY <1>1, <1>2

\* connect_with_strategy establishes the invariant: all permits are available.
LEMMA PermitInit == Init => PermitInv
<1>. SUFFICES ASSUME Init PROVE PermitInv
  OBVIOUS
<1>1. DOMAIN slab = {} /\ slab \in [DOMAIN slab -> Slot]
  BY DEF Init
<1>2. TypeOK
  <2>1. <<>> \in Seq(InRec) /\ <<>> \in Seq(OutRec) /\ <<>> \in Seq(Chunk)
    OBVIOUS
  <2>. QED  BY <1>1, <2>1, MaxReqAssumption DEF Init, TypeOK, Stage
<1>3. BodyHasSlot /\ AbortedGone /\ SendHolds
  BY <1>1, FreeAssumption DEF Init, BodyHasSlot, AbortedGone, SendHolds, Owning
<1>4. Waiting = {}
  BY DEF Init, Waiting
<1>5. Cardinality({}) = 0
  BY FS_EmptySet
<1>6. PermitConservation /\ RidBounded
  BY <1>1, <1>4, <1>5, MaxReqAssumption DEF Init, PermitConservation, RidBounded
<1>. QED  BY <1>2, <1>3, <1>6 DEF PermitInv

\* Every step preserves the invariant.
LEMMA PermitNext == PermitInv /\ [Next]_vars => PermitInv'
<1>. SUFFICES ASSUME PermitInv, [Next]_vars PROVE PermitInv'
  OBVIOUS
<1>t. TypeOK /\ BodyHasSlot
  BY DEF PermitInv
<1>1. CASE PollResp
  BY <1>1, <1>t, TypePollResp, InvPollResp DEF PermitInv, SlotInv
<1>2. CASE Close \/ App
  BY <1>2, <1>t, TypeOutside, InvOutside DEF PermitInv, SlotInv
<1>3. ASSUME NEW t \in Req, Forward(t) PROVE PermitInv'
  BY <1>3, <1>t, TypeForward, InvForward DEF PermitInv, SlotInv
<1>4. ASSUME NEW t \in Req, SendBody(t) PROVE PermitInv'
  BY <1>4, <1>t, TypeSendBody, InvSendBody DEF PermitInv, SlotInv
<1>5. ASSUME NEW t \in Req, Response(t) PROVE PermitInv'
  BY <1>5, <1>t, TypeResponse, InvResponse DEF PermitInv, SlotInv
<1>6. ASSUME NEW t \in Req, GiveUp(t) PROVE PermitInv'
  BY <1>6, <1>t, TypeGiveUp, InvGiveUp DEF PermitInv, SlotInv
<1>7. CASE UNCHANGED vars
  <2>1. TypeOK'
    BY <1>7, <1>t DEF vars, client, inner, wire, app, hist, TypeOK
  <2>2. UNCHANGED <<pc, snd, key, lock, sem, slab, entries>>
    BY <1>7 DEF vars, client, inner
  <2>3. SlotInv'
    BY <2>2, SlabStep
  <2>. QED  BY <2>1, <2>3 DEF PermitInv, SlotInv
<1>. QED  BY <1>1, <1>2, <1>3, <1>4, <1>5, <1>6, <1>7 DEF Next

\* In every behaviour of the connection the state has its type: slab keys stay
\* below the length of the slab, buffers hold chunks, queues hold records.
THEOREM TypeCorrect == Spec => []TypeOK
<1>1. PermitInv => TypeOK
  BY DEF PermitInv
<1>. QED  BY <1>1, PermitInit, PermitNext, PTL DEF Spec

\* Permits are conserved for any number of calls, any max_req_per_con and any
\* mix of errors, drops, cancellations and reconnects.
THEOREM PermitsConserved == Spec => []PermitConservation
<1>1. PermitInv => PermitConservation
  BY DEF PermitInv
<1>. QED  BY <1>1, PermitInit, PermitNext, PTL DEF Spec

\* The slab never holds more entries than there are permits, so a request id
\* never exceeds max_req_per_con, which is a u16.
THEOREM RidsBounded == Spec => []RidBounded
<1>1. PermitInv => RidBounded
  BY DEF PermitInv
<1>. QED  BY <1>1, PermitInit, PermitNext, PTL DEF Spec

\* A running call or returned body always finds its own slot: the indexing in
\* create_response cannot panic and poll_frame never sees a missing slot.
THEOREM BodiesHaveSlots == Spec => []BodyHasSlot
<1>1. PermitInv => BodyHasSlot
  BY DEF PermitInv
<1>. QED  BY <1>1, PermitInit, PermitNext, PTL DEF Spec

=============================================================================
