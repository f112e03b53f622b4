---------------------------- MODULE WakeupsProofs ----------------------------
(***************************************************************************)
(* The executor only picks among the steps of Connection, so whatever is   *)
(* proved of Connection holds of the tasks that are polled when they are   *)
(* woken; and no waker is left in a slot with something to read.           *)
(***************************************************************************)
EXTENDS Wakeups, ExchangeProofs

-----------------------------------------------------------------------------
(* The inductive invariant *)

\* poll_resp runs under the mutex: for check_alive or for poll_frame.
PollHeld ==
    poll # "idle" =>
        \E u \in Req : lock = <<u, "resp">> \/ (lock = <<u, "fwd">> /\ pc[u] = "alive")

\* The mutex is held for poll_frame only inside a poll of the response: the
\* lock future and its guard live in poll_frame.
RespRuns == \A t \in Req : lock = <<t, "resp">> => Running(t, "resp")

\* A waker is left by a call that waits for its header or its body, or by
\* one that was given up while the mutex was taken.
WakerWaits ==
    \A t \in waker : pc[t] \in {"run", "body"} \cup Gone /\ (pc[t] = "run" => rsp[t] = "header")

WakeInv == WTypeOK /\ PollHeld /\ RespRuns /\ WakerWaits /\ SlotWakerFresh

-----------------------------------------------------------------------------
(* Every step is a step of Connection *)

\* The wake-ups are bookkeeping: they restrict the steps of Connection and
\* change nothing of its state.
LEMMA WakeStep == WNext => [Next]_vars
<1>. SUFFICES ASSUME WNext PROVE [Next]_vars
  OBVIOUS
<1>1. CASE WPollResp
  <2>1. PollResp
    BY <1>1 DEF WPollResp, WRespDistribute, WRespQuiet, WRespPending, WRespClosed, PollResp
  <2>. QED  BY <2>1 DEF Next
<1>2. CASE WClose
  <2>1. Close
    BY <1>2 DEF WClose
  <2>. QED  BY <2>1 DEF Next
<1>3. CASE WArrive \/ WRecv
  <2>1. App
    BY <1>3 DEF WArrive, WRecv, App
  <2>. QED  BY <2>1 DEF Next
<1>4. ASSUME NEW t \in Req, WTask(t) PROVE [Next]_vars
  <2>1. CASE WNotAlive(t) \/ WConnected(t) \/ WStartResponse(t) \/ WForward(t)
    <3>1. Forward(t)
      BY <2>1 DEF WNotAlive, WConnected, WStartResponse, WForward, Forward
    <3>. QED  BY <3>1 DEF Next
  <2>2. CASE WSendBody(t) \/ WSendDone(t) \/ WSendFail(t)
    <3>1. SendBody(t)
      BY <2>2 DEF WSendBody, WSendDone, WSendFail, SendBody
    <3>. QED  BY <3>1 DEF Next
  <2>3. CASE \/ WFrameLock(t) \/ WFrameWait(t) \/ WFrameReady(t) \/ WFrameHeader(t)
             \/ WPushRest(t) \/ WRespond(t)
    <3>1. Response(t)
      BY <2>3 DEF WFrameLock, WFrameWait, WFrameReady, WFrameHeader, WPushRest, WRespond, Response
    <3>. QED  BY <3>1 DEF Next
  <2>4. CASE PollTask(t) \/ Suspend(t) \/ WakeTask(t) \/ FrameMiss(t)
    BY <2>4 DEF PollTask, Suspend, WakeTask, FrameMiss
  <2>. QED  BY <1>4, <2>1, <2>2, <2>3, <2>4 DEF WTask
<1>5. ASSUME NEW t \in Req, WGiveUp(t) PROVE [Next]_vars
  <2>1. GiveUp(t)
    BY <1>5 DEF WGiveUp
  <2>. QED  BY <2>1 DEF Next
<1>. QED  BY <1>1, <1>2, <1>3, <1>4, <1>5 DEF WNext

\* A connection whose tasks are polled only when one of their wakers fired is
\* a connection: nothing that holds of Connection depends on who is polled.
THEOREM WakeupsImplementConnection == WSpec => Spec
<1>1. WInit => Init
  BY DEF WInit
<1>2. [WNext]_wvars => [Next]_vars
  BY WakeStep DEF wvars
<1>. QED  BY <1>1, <1>2, PTL DEF WSpec, Spec

\* So the tasks keep what the connection promises: no order in which the executor
\* polls them, and no waker that is lost, lets a caller see what its own channel
\* would not have given it.
THEOREM WakeupsImplementExchange == WSpec => PrivateChannels
  BY WakeupsImplementConnection, ConnectionImplementsExchange, PTL

-----------------------------------------------------------------------------
(* poll_resp runs under the mutex *)

\* The steps that take or release the mutex start or end poll_resp with it.
LEMMA PollHeldNext ==
    PermitInv /\ ForwardHolds /\ PollHeld /\ [Next]_vars => PollHeld'
<1>. SUFFICES ASSUME PermitInv, ForwardHolds, PollHeld, [Next]_vars PROVE PollHeld'
  OBVIOUS
<1>t. pc \in [Req -> Stage]
  BY DEF PermitInv, TypeOK
<1>f. \A u \in Req : \A g \in Future : Free # <<u, g>>
  BY FreeAssumption DEF Future
<1>. USE DEF client, inner, wire, app, hist
<1>1. CASE PollResp
  <2>1. poll # "idle" /\ UNCHANGED <<pc, lock>>
    BY <1>1 DEF PollResp, RespOut, RespEnd, RespFree, RespSkip, RespSplit, RespReady, RespPending,
                RespClosed, RespError, Parsing
  <2>. QED  BY <2>1 DEF PollHeld
<1>2. CASE Close \/ App \/ UNCHANGED vars
  <2>1. UNCHANGED <<pc, lock, poll>>
    BY <1>2 DEF Close, App, AppRecv, AppTorn, AppClose, AppReset, AppStdout, AppNoise, AppEnd, vars
  <2>. QED  BY <2>1 DEF PollHeld
<1>3. ASSUME NEW t \in Req, Forward(t) PROVE PollHeld'
  <2>1. CASE Acquire(t)
    <3>1. UNCHANGED <<lock, poll>> /\ pc[t] = "acquire" /\ pc' = [pc EXCEPT ![t] = "lock"]
      BY <2>1 DEF Acquire
    <3>. QED  BY <1>t, <3>1 DEF PollHeld
  <2>2. CASE StartCheck(t)
    <3>1. lock' = <<t, "fwd">> /\ pc'[t] = "alive"
      BY <1>t, <2>2 DEF StartCheck
    <3>. QED  BY <3>1 DEF PollHeld
  <2>3. CASE Alive(t) \/ NotAlive(t) \/ AliveError(t)
    BY <2>3 DEF Alive, NotAlive, AliveError, PollHeld
  <2>4. CASE Connected(t) \/ ConnectFail(t) \/ WriteBegin(t) \/ WriteParams(t) \/ RejectHeader(t)
             \/ WriteStdin(t) \/ WriteFail(t)
    <3>1. pc[t] \in Connecting /\ poll' = poll
      BY <2>4 DEF Connected, ConnectFail, WriteBegin, WriteParams, RejectHeader, WriteStdin,
                  WriteFail, Connecting
    <3>2. poll' = "idle"
      BY <3>1 DEF ForwardHolds
    <3>. QED  BY <3>2 DEF PollHeld
  <2>. QED  BY <1>3, <2>1, <2>2, <2>3, <2>4 DEF Forward
<1>4. ASSUME NEW t \in Req, SendBody(t) PROVE PollHeld'
  <2>1. CASE BodyChunk(t) \/ BodyEnd(t)
    BY <2>1 DEF BodyChunk, BodyEnd, PollHeld
  <2>2. CASE SendLock(t) \/ WriteChunk(t) \/ WriteEnd(t) \/ WriteAbort(t) \/ SendFail(t)
    <3>1. lock \in {Free, <<t, "send">>} /\ poll' = poll
      BY <2>2 DEF SendLock, WriteChunk, WriteEnd, WriteAbort, SendFail
    <3>2. poll = "idle"
      BY <1>f, <3>1 DEF PollHeld, Future
    <3>. QED  BY <3>1, <3>2 DEF PollHeld
  <2>. QED  BY <1>4, <2>1, <2>2 DEF SendBody
<1>5. ASSUME NEW t \in Req, Response(t) PROVE PollHeld'
  <2>1. CASE FrameLock(t)
    BY <2>1 DEF FrameLock, PollHeld
  <2>2. CASE FrameWait(t) \/ FrameEnd(t) \/ FrameData(t) \/ FrameHeader(t)
    BY <2>2 DEF FrameWait, FrameEnd, FrameData, FrameHeader, Release, PollHeld
  <2>3. CASE StartResponse(t) \/ PushRest(t) \/ Respond(t)
    <3>1. UNCHANGED <<lock, poll>> /\ pc[t] = "run" /\ pc' \in {pc, [pc EXCEPT ![t] = "body"]}
      BY <2>3 DEF StartResponse, PushRest, Respond
    <3>2. \A u \in Req : pc[u] = "alive" => pc'[u] = "alive"
      BY <1>t, <3>1
    <3>. QED  BY <3>1, <3>2 DEF PollHeld
  <2>. QED  BY <1>5, <2>1, <2>2, <2>3 DEF Response
<1>6. ASSUME NEW t \in Req, GiveUp(t) PROVE PollHeld'
  <2>1. /\ Suspended(t) /\ poll' = poll /\ pc' = [pc EXCEPT ![t] = "dropped"]
        /\ lock \notin {t} \X Future => lock' = lock
    BY <1>6 DEF GiveUp, DropBody, CancelForward, DropFCGIBody, Future
  <2>2. CASE poll = "idle"
    BY <2>1, <2>2 DEF PollHeld
  <2>3. CASE lock \notin {t} \X Future
    BY <1>t, <2>1, <2>3 DEF PollHeld, Future
  <2>. QED  BY <2>1, <2>2, <2>3 DEF Suspended
<1>. QED  BY <1>1, <1>2, <1>3, <1>4, <1>5, <1>6 DEF Next

-----------------------------------------------------------------------------
(* The queue of futures of each task *)

Turns == {<<>>, <<"send">>, <<"resp">>, <<"send", "resp">>, <<"resp", "send">>}

\* A future that returns leaves the rest of the turn.
LEMMA TurnTail == \A s \in Turns : s # <<>> => Tail(s) \in Turns
<1>1. Tail(<<"send">>) = <<>> /\ Tail(<<"resp">>) = <<>>
  OBVIOUS
<1>2. Tail(<<"send", "resp">>) = <<"resp">> /\ Tail(<<"resp", "send">>) = <<"send">>
  OBVIOUS
<1>. QED  BY <1>1, <1>2, Zenon DEF Turns

\* The task of the future that returns, and no other, goes on.
LEMMA ReturnType ==
    ASSUME NEW t \in Req, todo \in [Req -> Turns], todo[t] # <<>>, Return(t)
    PROVE  todo' \in [Req -> Turns] /\ \A u \in Req \ {t} : todo'[u] = todo[u]
<1>1. Tail(todo[t]) \in Turns
  BY TurnTail
<1>. QED  BY <1>1 DEF Return

\* Only try_join! or the response alone can be polled.
LEMMA FuturesType == ASSUME NEW t \in Req PROVE Futures(t) \in Turns
  BY DEF Futures, Turns

\* Whoever ends poll_frame is polled.
LEMMA FrameRuns ==
    ASSUME NEW t \in Req, RespRuns, FrameWait(t) \/ FrameEnd(t) \/ FrameData(t) \/ FrameHeader(t)
    PROVE  todo[t] # <<>>
  BY DEF FrameWait, FrameEnd, FrameData, FrameHeader, Polled, RespRuns, Running

\* Wake-ups are for tasks, the socket's reader is the task that holds the
\* mutex, and a turn gets shorter until the task is polled again.
LEMMA WakeTypes ==
    ASSUME WTypeOK, PollHeld, RespRuns, WNext
    PROVE  /\ woken' \subseteq Req /\ waker' \subseteq Req /\ rd' \in Req \cup {NoTask}
           /\ todo' \in [Req -> Turns] /\ turn' \in [Req -> BOOLEAN]
<1>t. /\ woken \subseteq Req /\ waker \subseteq Req /\ rd \in Req \cup {NoTask}
      /\ todo \in [Req -> Turns] /\ turn \in [Req -> BOOLEAN]
  BY DEF WTypeOK, Turns
<1>w. \A ks : Wake(ks) => woken' \subseteq Req /\ waker' \subseteq Req
  BY <1>t DEF Wake
<1>1. CASE WPollResp
  <2>1. CASE WRespDistribute \/ WRespQuiet \/ WRespClosed
    BY <2>1, <1>t, <1>w DEF WRespDistribute, WRespQuiet, WRespClosed, wakes
  <2>2. CASE WRespPending
    <3>1. poll # "idle" /\ rd' = lock[1] /\ UNCHANGED <<woken, waker, todo, turn>>
      BY <2>2 DEF WRespPending, RespPending
    <3>2. rd' \in Req
      BY <3>1 DEF PollHeld
    <3>. QED  BY <1>t, <3>1, <3>2
  <2>. QED  BY <1>1, <2>1, <2>2 DEF WPollResp
<1>2. CASE WClose \/ WArrive \/ WRecv
  BY <1>2, <1>t, <1>w DEF WClose, WArrive, WRecv, wakes
<1>3. ASSUME NEW t \in Req, WTask(t) \/ WGiveUp(t)
      PROVE  /\ woken' \subseteq Req /\ waker' \subseteq Req /\ rd' \in Req \cup {NoTask}
             /\ todo' \in [Req -> Turns] /\ turn' \in [Req -> BOOLEAN]
  <2>1. CASE WNotAlive(t) \/ WConnected(t) \/ WForward(t) \/ WSendBody(t) \/ WFrameLock(t)
             \/ WRespond(t) \/ WakeTask(t) \/ WGiveUp(t)
    BY <2>1, <1>t, <1>w DEF WNotAlive, WConnected, WForward, WSendBody, WFrameLock, WRespond,
                            WakeTask, WGiveUp, DropWaker, wakes
  <2>2. CASE WStartResponse(t)
    <3>1. /\ todo' \in {todo, [todo EXCEPT ![t] = <<"send", "resp">>], [todo EXCEPT ![t] = <<"resp">>]}
          /\ turn' \in {turn, [turn EXCEPT ![t] = TRUE]} /\ UNCHANGED <<woken, waker, rd>>
      BY <2>2 DEF WStartResponse
    <3>. QED  BY <1>t, <3>1 DEF Turns
  <2>3. CASE PollTask(t)
    <3>1. /\ woken' = woken \ {t} /\ UNCHANGED <<waker, rd>>
          /\ todo' = [todo EXCEPT ![t] = Futures(t)] /\ turn' = [turn EXCEPT ![t] = ~@]
      BY <2>3 DEF PollTask
    <3>. QED  BY <1>t, <3>1, FuturesType
  <2>4. CASE WSendFail(t)
    <3>1. UNCHANGED <<woken, rd, turn>> /\ waker' \subseteq waker /\ todo' = [todo EXCEPT ![t] = <<>>]
      BY <2>4 DEF WSendFail, DropWaker
    <3>. QED  BY <1>t, <3>1 DEF Turns
  <2>5. CASE \/ WSendDone(t) \/ WFrameWait(t) \/ WFrameReady(t) \/ WPushRest(t)
             \/ Suspend(t) \/ FrameMiss(t)
    <3>1. Return(t) /\ UNCHANGED <<rd, turn>> /\ woken' \subseteq woken \cup {t}
          /\ waker' \subseteq waker \cup {t}
      BY <2>5 DEF WSendDone, WFrameWait, WFrameReady, WPushRest, Suspend, FrameMiss
    <3>2. todo[t] # <<>>
      BY <2>5, FrameRuns DEF WSendDone, WFrameWait, WFrameReady, WPushRest, Suspend, FrameMiss,
                             Running
    <3>. QED  BY <1>t, <3>1, <3>2, ReturnType
  <2>6. CASE WFrameHeader(t)
    <3>1. UNCHANGED <<woken, waker, rd, turn>> /\ (Return(t) \/ todo' = todo) /\ FrameHeader(t)
      BY <2>6 DEF WFrameHeader
    <3>. QED  BY <1>t, <3>1, FrameRuns, ReturnType
  <2>. QED  BY <1>3, <2>1, <2>2, <2>3, <2>4, <2>5, <2>6 DEF WTask
<1>. QED  BY <1>1, <1>2, <1>3 DEF WNext

\* poll_frame ends before its poll does: the guard is never kept over a Pending.
LEMMA RespRunsNext ==
    ASSUME WTypeOK, ForwardHolds, SeatInv, RespRuns, WNext PROVE RespRuns'
<1>t. todo \in [Req -> Turns]
  BY DEF WTypeOK, Turns
<1>f. \A u \in Req : Free # <<u, "resp">>
  BY FreeAssumption
<1>k. ASSUME UNCHANGED todo, \A u \in Req : lock' = <<u, "resp">> => lock = lock' PROVE RespRuns'
  BY <1>k DEF RespRuns, Running
<1>n. ASSUME \A u \in Req : lock' # <<u, "resp">> PROVE RespRuns'
  BY <1>n DEF RespRuns
<1>o. ASSUME NEW t \in Req, lock # <<t, "resp">>, lock' = lock, \A u \in Req \ {t} : todo'[u] = todo[u]
      PROVE  RespRuns'
  BY <1>o DEF RespRuns, Running
<1>. USE DEF client, inner, wire, app, hist
<1>1. CASE WPollResp \/ WClose \/ WArrive \/ WRecv
  <2>1. UNCHANGED <<lock, todo>>
    BY <1>1 DEF WPollResp, WRespDistribute, WRespQuiet, WRespPending, WRespClosed, RespOut, RespEnd,
                RespFree, RespSkip, RespSplit, RespReady, RespPending, RespClosed, RespError, WClose,
                Close, WArrive, WRecv, AppRecv, AppTorn, AppClose, AppReset, AppStdout, AppNoise,
                AppEnd, wakes
  <2>. QED  BY <1>k, <2>1
<1>2. ASSUME NEW t \in Req, WTask(t) \/ WGiveUp(t) PROVE RespRuns'
  <2>1. CASE WNotAlive(t) \/ WConnected(t) \/ WForward(t)
    <3>1. UNCHANGED todo /\ lock' \in {lock, Free, <<t, "fwd">>}
      BY <2>1 DEF WNotAlive, WConnected, WForward, NotAlive, Connected, Acquire, StartCheck, Alive,
                  AliveError, ConnectFail, WriteBegin, RejectHeader, WriteFail, wakes
    <3>. QED  BY <1>f, <1>k, <3>1
  <2>2. CASE WStartResponse(t)
    <3>1. /\ pc[t] \in Connecting /\ lock' \in {lock, Free}
      BY <2>2 DEF WStartResponse, WriteParams, WriteStdin, Connecting
    <3>2. lock = <<t, "fwd">>
      BY <3>1 DEF ForwardHolds
    <3>. QED  BY <1>f, <1>n, <3>1, <3>2
  <2>3. CASE WSendBody(t) \/ WSendFail(t) \/ WSendDone(t)
    <3>1. CASE WSendBody(t)
      <4>1. UNCHANGED todo /\ lock' \in {lock, Free, <<t, "send">>}
        BY <3>1 DEF WSendBody, BodyChunk, BodyEnd, SendLock, WriteChunk, wakes
      <4>. QED  BY <1>f, <1>k, <4>1
    <3>2. CASE WSendFail(t) \/ WSendDone(t)
      <4>1. lock' = Free
        BY <3>2 DEF WSendFail, WSendDone, WriteAbort, SendFail, WriteEnd, DropFCGIBody, Future
      <4>. QED  BY <1>f, <1>n, <4>1
    <3>. QED  BY <2>3, <3>1, <3>2
  <2>4. CASE WFrameLock(t)
    <3>1. Running(t, "resp") /\ UNCHANGED todo /\ lock' \in {lock, <<t, "resp">>}
      BY <2>4 DEF WFrameLock, StartResponse, FrameLock, wakes
    <3>2. Running(t, "resp")'
      BY <3>1 DEF Running
    <3>3. CASE lock' = lock
      BY <1>k, <3>1, <3>3
    <3>4. CASE lock' = <<t, "resp">>
      BY <3>2, <3>4 DEF RespRuns
    <3>. QED  BY <3>1, <3>3, <3>4
  <2>5. CASE WFrameWait(t) \/ WFrameReady(t) \/ WFrameHeader(t) \/ WPushRest(t)
    <3>1. lock' = Free
      BY <2>5 DEF WFrameWait, WFrameReady, WFrameHeader, WPushRest, FrameWait, FrameEnd, FrameData,
                  FrameHeader, PushRest, Release
    <3>. QED  BY <1>f, <1>n, <3>1
  <2>6. CASE WRespond(t) \/ WakeTask(t)
    BY <2>6, <1>k DEF WRespond, Respond, WakeTask, vars
  <2>7. CASE PollTask(t) \/ Suspend(t) \/ FrameMiss(t)
    <3>1. lock' = lock
      BY <2>7 DEF PollTask, Suspend, FrameMiss, vars
    <3>2. lock # <<t, "resp">>
      <4>1. CASE PollTask(t)
        BY <4>1 DEF PollTask, RespRuns, Running
      <4>2. CASE Suspend(t) /\ Running(t, "send")
        BY <4>2 DEF RespRuns, Running
      <4>3. CASE Suspend(t) /\ PushBlocked(t)
        BY <4>3 DEF Suspend, PushBlocked, SeatInv, RespHolds, Reading
      <4>4. CASE FrameMiss(t)
        BY <4>4 DEF FrameMiss
      <4>. QED  BY <2>7, <4>1, <4>2, <4>3, <4>4 DEF Suspend
    <3>3. \A u \in Req \ {t} : todo'[u] = todo[u]
      BY <2>7, <1>t DEF PollTask, Suspend, FrameMiss, Return
    <3>. QED  BY <1>o, <3>1, <3>2, <3>3
  <2>8. CASE WGiveUp(t)
    <3>1. UNCHANGED todo /\ lock' \in {lock, Free}
      BY <2>8 DEF WGiveUp, GiveUp, DropBody, CancelForward, DropFCGIBody
    <3>. QED  BY <1>f, <1>k, <3>1
  <2>. QED  BY <1>2, <2>1, <2>2, <2>3, <2>4, <2>5, <2>6, <2>7, <2>8 DEF WTask
<1>. QED  BY <1>1, <1>2 DEF WNext

-----------------------------------------------------------------------------
(* Wakers and what they wait for *)

\* A call that keeps its waker keeps waiting for the same: it was not given
\* anything, or it is over.
WakersKept ==
    /\ waker' \subseteq waker
    /\ \A u \in waker' :
          \/ pc'[u] \in Gone
          \/ /\ UNCHANGED <<pc[u], rsp[u], key[u]>>
             /\ pc[u] \in {"run", "body"} =>
                   /\ slab'[key[u]].buf = slab[key[u]].buf
                   /\ slab'[key[u]].ended = slab[key[u]].ended

\* The waker that poll_frame or notify_everyone left says the same afterwards.
LEMMA KeepWakers ==
    ASSUME WakerWaits, SlotWakerFresh, WakersKept PROVE WakerWaits' /\ SlotWakerFresh'
<1>1. WakerWaits'
  BY DEF WakerWaits, WakersKept, Gone
<1>2. SlotWakerFresh'
  BY DEF SlotWakerFresh, WakersKept, Slab, Gone
<1>. QED  BY <1>1, <1>2

\* Only the owner of a slot is concerned by it.
LEMMA OneOwner ==
    ASSUME BodyHasSlot, NEW u \in Req, pc[u] \in {"run", "body"}
    PROVE  key[u] \in DOMAIN slab /\ slab[key[u]].owner = u
  BY DEF BodyHasSlot, Owning

\* Steps that touch no slot, no call that waits and no waker.
LEMMA QuietWakers ==
    ASSUME WakerWaits, SlotWakerFresh, waker' = waker, slab' = slab,
           \A u \in waker : UNCHANGED <<pc[u], rsp[u], key[u]>>
    PROVE  WakerWaits' /\ SlotWakerFresh'
  BY KeepWakers DEF WakersKept

\* notify_everyone takes the waker of every slot, ended or given up.
LEMMA NotifyWakers ==
    ASSUME WTypeOK, BodyHasSlot, WakerWaits, SlotWakerFresh, Wake(DOMAIN slab),
           \A u \in waker : UNCHANGED <<pc[u], rsp[u], key[u]>>
    PROVE  WakerWaits' /\ SlotWakerFresh'
<1>1. waker \subseteq Req /\ waker' \subseteq waker
  BY DEF WTypeOK, Wake
<1>2. ASSUME NEW u \in waker', pc[u] \in {"run", "body"} PROVE FALSE
  <2>1. key[u] \in DOMAIN slab /\ slab[key[u]].owner = u
    BY <1>1, <1>2, OneOwner
  <2>. QED  BY <1>2, <2>1 DEF Wake
<1>. QED  BY <1>1, <1>2, KeepWakers DEF WakersKept

\* parse_and_distribute wakes the owner of the slot it writes to, and frees
\* only slots whose owner is gone.
LEMMA DistributeWakers ==
    ASSUME WTypeOK, PermitInv, WakerWaits, SlotWakerFresh, WRespDistribute
    PROVE  WakerWaits' /\ SlotWakerFresh'
<1>. DEFINE x == Head(inbuf)
<1>t. TypeOK /\ slab \in [DOMAIN slab -> Slot] /\ waker \subseteq Req /\ BodyHasSlot /\ AbortedGone
  BY DEF WTypeOK, PermitInv, TypeOK
<1>. USE DEF client, inner, wire, app, hist
<1>1. /\ UNCHANGED <<pc, rsp, key>> /\ x.key \in DOMAIN slab
      /\ waker' = waker \ ({slab[k].owner : k \in {x.key}} \cap waker)
  BY DEF WRespDistribute, RespOut, RespEnd, RespFree, Addressed, Wake
<1>2. slab[x.key].owner \notin waker' /\ waker' \subseteq waker
  BY <1>1
<1>3. \A j \in DOMAIN slab : j # x.key => slab'[j] = slab[j]
  <2>1. CASE RespOut
    BY <1>t, <2>1 DEF RespOut, Push
  <2>2. CASE RespEnd
    BY <1>t, <2>2 DEF RespEnd
  <2>3. CASE RespFree
    BY <2>3 DEF RespFree, Remove
  <2>. QED  BY <2>1, <2>2, <2>3 DEF WRespDistribute
<1>4. ASSUME NEW u \in waker', pc[u] \in {"run", "body"} PROVE slab'[key[u]] = slab[key[u]]
  <2>1. key[u] \in DOMAIN slab /\ slab[key[u]].owner = u
    BY <1>t, <1>2, <1>4, OneOwner
  <2>. QED  BY <1>2, <1>3, <2>1
<1>. QED  BY <1>1, <1>2, <1>4, KeepWakers DEF WakersKept

\* A call in forward waits for no slot, and the slot it takes is nobody else's.
LEMMA InsertWakers ==
    ASSUME NEW t \in Req, WTypeOK, PermitInv, WakerWaits, SlotWakerFresh, Alive(t) \/ Connected(t),
           waker' = waker
    PROVE  WakerWaits' /\ SlotWakerFresh'
<1>t. /\ TypeOK /\ pc \in [Req -> Stage] /\ key \in [Req -> Nat] /\ waker \subseteq Req /\ BodyHasSlot
  BY DEF WTypeOK, PermitInv, TypeOK
<1>1. PICK k \in Vacant : Insert(t, k)
  BY DEF Alive, Connected
<1>2. /\ pc[t] \in {"alive", "connect"} /\ pc' = [pc EXCEPT ![t] = "begin"] /\ rsp' = rsp
  BY DEF Alive, Connected
<1>3. k \notin DOMAIN slab /\ \A j \in DOMAIN slab : slab'[j] = slab[j]
  BY <1>t, <1>1, InsertType DEF Insert
<1>4. \A u \in waker : u # t
  BY <1>2 DEF WakerWaits, Gone
<1>5. \A u \in waker : UNCHANGED <<pc[u], rsp[u], key[u]>>
  BY <1>t, <1>1, <1>2, <1>4 DEF Insert
<1>6. \A u \in waker : pc[u] \in {"run", "body"} => slab'[key[u]] = slab[key[u]]
  BY <1>t, <1>3, OneOwner
<1>. QED  BY <1>5, <1>6, KeepWakers DEF WakersKept

\* The drop of an FCGIBody touches neither the data nor the end of a slot.
LEMMA DropWakers ==
    ASSUME NEW t \in Req, WTypeOK, PermitInv, WakerWaits, SlotWakerFresh, DropFCGIBody(t),
           UNCHANGED <<rsp, key>>, waker' \subseteq waker,
           \E s \in Gone : pc' = [pc EXCEPT ![t] = s]
    PROVE  WakerWaits' /\ SlotWakerFresh'
<1>t. /\ TypeOK /\ pc \in [Req -> Stage] /\ waker \subseteq Req /\ BodyHasSlot
      /\ slab \in [DOMAIN slab -> Slot]
  BY DEF WTypeOK, PermitInv, TypeOK
<1>1. \A u \in waker : u = t => pc'[u] \in Gone
  BY <1>t
<1>2. \A u \in waker : u # t => pc'[u] = pc[u]
  BY <1>t
<1>3. \A j \in DOMAIN slab : slab'[j].buf = slab[j].buf /\ slab'[j].ended = slab[j].ended
  BY <1>t DEF DropFCGIBody, Slot
<1>4. \A u \in waker : pc[u] \in {"run", "body"} => key[u] \in DOMAIN slab
  BY <1>t, OneOwner
<1>. QED  BY <1>1, <1>2, <1>3, <1>4, KeepWakers DEF WakersKept

\* A call that finds something in its slot has no waker there, and takes it
\* from no other call.
LEMMA ReadyWakers ==
    ASSUME NEW t \in Req, WTypeOK, PermitInv, SeatInv, WakerWaits, SlotWakerFresh,
           FrameEnd(t) \/ FrameData(t) \/ FrameHeader(t), waker' \subseteq waker
    PROVE  WakerWaits' /\ SlotWakerFresh'
<1>t. /\ TypeOK /\ pc \in [Req -> Stage] /\ rsp \in [Req -> {"none", "header", "push", "done"}]
      /\ waker \subseteq Req /\ BodyHasSlot /\ slab \in [DOMAIN slab -> Slot]
  BY DEF WTypeOK, PermitInv, TypeOK
<1>1. pc[t] \in {"run", "body"}
  BY DEF FrameEnd, FrameData, FrameHeader, Polled, SeatInv, RespHolds, Reading
<1>2. t \notin waker
  BY <1>1 DEF FrameEnd, FrameData, FrameHeader, SlotWakerFresh
<1>3. /\ key' = key /\ \A u \in Req \ {t} : UNCHANGED <<pc[u], rsp[u]>>
  BY <1>t DEF FrameEnd, FrameData, FrameHeader
<1>4. key[t] \in DOMAIN slab /\ slab[key[t]].owner = t
  BY <1>t, <1>1, OneOwner
<1>5. \A j \in DOMAIN slab : j # key[t] => slab'[j] = slab[j]
  BY <1>t DEF FrameEnd, FrameData, FrameHeader, Pop, Remove
<1>6. \A u \in waker : pc[u] \in {"run", "body"} => slab'[key[u]] = slab[key[u]]
  BY <1>t, <1>2, <1>4, <1>5, OneOwner
<1>. QED  BY <1>t, <1>2, <1>3, <1>6, KeepWakers DEF WakersKept

\* create_response gives back the rest of the header chunk to its own slot; it
\* has its header and waits for nothing.
LEMMA PushWakers ==
    ASSUME NEW t \in Req, WTypeOK, PermitInv, WakerWaits, SlotWakerFresh, PushRest(t), waker' = waker
    PROVE  WakerWaits' /\ SlotWakerFresh'
<1>t. /\ TypeOK /\ rsp \in [Req -> {"none", "header", "push", "done"}]
      /\ waker \subseteq Req /\ BodyHasSlot /\ slab \in [DOMAIN slab -> Slot]
  BY DEF WTypeOK, PermitInv, TypeOK
<1>1. /\ pc[t] = "run" /\ rsp[t] = "push" /\ rsp' = [rsp EXCEPT ![t] = "done"] /\ UNCHANGED <<pc, key>>
      /\ slab' = Push(key[t], [req |-> t, n |-> first[t]])
  BY DEF PushRest
<1>2. t \notin waker
  BY <1>1 DEF WakerWaits
<1>3. key[t] \in DOMAIN slab /\ slab[key[t]].owner = t
  BY <1>t, <1>1, OneOwner
<1>4. \A j \in DOMAIN slab : j # key[t] => slab'[j] = slab[j]
  BY <1>t, <1>1 DEF Push
<1>5. \A u \in waker : pc[u] \in {"run", "body"} => slab'[key[u]] = slab[key[u]]
  BY <1>t, <1>2, <1>3, <1>4, OneOwner
<1>6. \A u \in waker : UNCHANGED <<pc[u], rsp[u], key[u]>>
  BY <1>t, <1>1, <1>2
<1>. QED  BY <1>5, <1>6, KeepWakers DEF WakersKept

\* poll_frame stores the waker when it found nothing.
LEMMA WaitWakers ==
    ASSUME NEW t \in Req, WTypeOK, SeatInv, WakerWaits, SlotWakerFresh, WFrameWait(t)
    PROVE  WakerWaits' /\ SlotWakerFresh'
<1>. USE DEF client
<1>1. /\ UNCHANGED <<pc, rsp, key, slab>> /\ waker' = waker \cup {t}
      /\ Slab(t).buf = <<>> /\ ~Slab(t).ended
  BY DEF WFrameWait, FrameWait
<1>2. Reading(t)
  BY DEF WFrameWait, FrameWait, Polled, SeatInv, RespHolds
<1>3. WakerWaits'
  BY <1>1, <1>2 DEF WakerWaits, Reading
<1>4. SlotWakerFresh'
  BY <1>1 DEF SlotWakerFresh, Slab
<1>. QED  BY <1>3, <1>4

\* No step of a task, of poll_resp, of the application or of close puts
\* anything into a slot and leaves its waker there.
LEMMA WakersNext ==
    ASSUME WTypeOK, PermitInv, SeatInv, WakerWaits, SlotWakerFresh, WNext
    PROVE  WakerWaits' /\ SlotWakerFresh'
<1>t. /\ pc \in [Req -> Stage] /\ rsp \in [Req -> {"none", "header", "push", "done"}]
      /\ waker \subseteq Req /\ BodyHasSlot
  BY DEF WTypeOK, PermitInv, TypeOK
<1>. USE DEF client, inner, wire, app, hist, wakes
<1>1. CASE WPollResp
  <2>1. CASE WRespDistribute
    BY <2>1, DistributeWakers
  <2>2. CASE WRespQuiet \/ WRespPending
    <3>1. UNCHANGED <<pc, rsp, key, slab, waker>>
      BY <2>2 DEF WRespQuiet, WRespPending, RespSkip, RespSplit, RespReady, RespPending
    <3>. QED  BY <3>1, QuietWakers
  <2>3. CASE WRespClosed
    <3>1. UNCHANGED <<pc, rsp, key>> /\ Wake(DOMAIN slab)
      BY <2>3 DEF WRespClosed, RespClosed, RespError
    <3>. QED  BY <1>t, <3>1, NotifyWakers
  <2>. QED  BY <1>1, <2>1, <2>2, <2>3 DEF WPollResp
<1>2. CASE WClose
  <2>1. UNCHANGED <<pc, rsp, key>> /\ (Wake(DOMAIN slab) \/ (slab' = slab /\ waker' = waker))
    BY <1>2 DEF WClose, Close
  <2>. QED  BY <1>t, <2>1, NotifyWakers, QuietWakers
<1>3. CASE WArrive \/ WRecv
  <2>1. UNCHANGED <<pc, rsp, key, slab, waker>>
    BY <1>3 DEF WArrive, WRecv, AppRecv, AppTorn, AppClose, AppReset, AppStdout, AppNoise, AppEnd
  <2>. QED  BY <2>1, QuietWakers
<1>4. ASSUME NEW t \in Req, WTask(t) \/ WGiveUp(t) PROVE WakerWaits' /\ SlotWakerFresh'
  <2>1. CASE WNotAlive(t)
    <3>1. /\ pc[t] = "alive" /\ pc' = [pc EXCEPT ![t] = "connect"] /\ UNCHANGED <<rsp, key>>
          /\ Wake(DOMAIN slab)
      BY <2>1 DEF WNotAlive, NotAlive
    <3>2. \A u \in waker : UNCHANGED <<pc[u], rsp[u], key[u]>>
      BY <1>t, <3>1 DEF WakerWaits, Gone
    <3>. QED  BY <1>t, <3>1, <3>2, NotifyWakers
  <2>2. CASE WConnected(t) \/ (WForward(t) /\ Alive(t))
    BY <2>2, InsertWakers DEF WConnected, WForward
  <2>3. CASE WStartResponse(t) \/ (WForward(t) /\ ~Alive(t))
    <3>1. /\ pc[t] \in {"acquire", "lock", "alive"} \cup Connecting /\ UNCHANGED <<key, slab, waker>>
          /\ \A u \in Req \ {t} : UNCHANGED <<pc[u], rsp[u]>>
      BY <2>3, <1>t DEF WStartResponse, WForward, WriteParams, WriteStdin, Acquire, StartCheck,
                        AliveError, ConnectFail, WriteBegin, RejectHeader, WriteFail, Connecting
    <3>2. t \notin waker
      BY <3>1 DEF WakerWaits, Connecting, Gone
    <3>. QED  BY <1>t, <3>1, <3>2, QuietWakers
  <2>4. CASE WSendBody(t) \/ WSendDone(t)
    <3>1. UNCHANGED <<pc, rsp, key, slab, waker>>
      BY <2>4 DEF WSendBody, WSendDone, BodyChunk, BodyEnd, SendLock, WriteChunk, WriteEnd
    <3>. QED  BY <3>1, QuietWakers
  <2>5. CASE WSendFail(t) \/ (WGiveUp(t) /\ DropBody(t))
    <3>1. /\ DropFCGIBody(t) /\ UNCHANGED <<rsp, key>> /\ waker' \subseteq waker
          /\ \E s \in Gone : pc' = [pc EXCEPT ![t] = s]
      BY <2>5 DEF WSendFail, WGiveUp, WriteAbort, SendFail, DropBody, DropWaker, Gone
    <3>. QED  BY <3>1, DropWakers
  <2>6. CASE WGiveUp(t) /\ CancelForward(t)
    <3>1. /\ pc[t] \in {"lock"} \cup Connecting /\ UNCHANGED <<rsp, key, slab>>
          /\ pc' = [pc EXCEPT ![t] = "dropped"] /\ waker' = waker
      BY <2>6 DEF WGiveUp, CancelForward, DropWaker, Connecting
    <3>2. t \notin waker
      BY <3>1 DEF WakerWaits, Connecting, Gone
    <3>. QED  BY <1>t, <3>1, <3>2, QuietWakers
  <2>7. CASE WFrameLock(t)
    <3>1. /\ UNCHANGED <<pc, key, slab, waker>>
          /\ rsp' = rsp \/ (pc[t] = "run" /\ rsp[t] = "none" /\ \A u \in Req \ {t} : rsp'[u] = rsp[u])
      BY <2>7, <1>t DEF WFrameLock, StartResponse, FrameLock
    <3>2. \A u \in waker : rsp'[u] = rsp[u]
      BY <1>t, <3>1 DEF WakerWaits
    <3>. QED  BY <3>1, <3>2, QuietWakers
  <2>8. CASE WFrameWait(t)
    BY <2>8, WaitWakers
  <2>9. CASE WFrameReady(t) \/ WFrameHeader(t)
    <3>1. (FrameEnd(t) \/ FrameData(t) \/ FrameHeader(t)) /\ waker' \subseteq waker
      BY <2>9 DEF WFrameReady, WFrameHeader
    <3>. QED  BY <3>1, ReadyWakers
  <2>10. CASE WPushRest(t)
    BY <2>10, PushWakers DEF WPushRest
  <2>11. CASE WRespond(t)
    <3>1. /\ pc[t] = "run" /\ rsp[t] = "done" /\ UNCHANGED <<rsp, key, slab, waker>>
          /\ pc' = [pc EXCEPT ![t] = "body"]
      BY <2>11 DEF WRespond, Respond
    <3>2. t \notin waker
      BY <3>1 DEF WakerWaits
    <3>. QED  BY <1>t, <3>1, <3>2, QuietWakers
  <2>12. CASE PollTask(t) \/ Suspend(t) \/ WakeTask(t) \/ FrameMiss(t)
    <3>1. UNCHANGED <<pc, rsp, key, slab, waker>>
      BY <2>12 DEF PollTask, Suspend, WakeTask, FrameMiss, vars
    <3>. QED  BY <3>1, QuietWakers
  <2>. QED  BY <1>4, <2>1, <2>2, <2>3, <2>4, <2>5, <2>6, <2>7, <2>8, <2>9, <2>10, <2>11, <2>12
            DEF WTask, WGiveUp, GiveUp
<1>. QED  BY <1>1, <1>2, <1>3, <1>4 DEF WNext

-----------------------------------------------------------------------------
(* The theorems *)

\* Nobody was polled yet.
LEMMA WakeInit == WInit => WakeInv
<1>. SUFFICES ASSUME WInit PROVE WakeInv
  OBVIOUS
<1>1. TypeOK
  BY PermitInit DEF WInit, PermitInv
<1>2. WTypeOK
  BY <1>1 DEF WTypeOK, WInit
<1>3. RespRuns
  BY FreeAssumption DEF RespRuns, WInit, Init
<1>4. PollHeld /\ WakerWaits /\ SlotWakerFresh
  BY DEF WInit, Init, PollHeld, WakerWaits, SlotWakerFresh
<1>. QED  BY <1>2, <1>3, <1>4 DEF WakeInv

\* Every step of the tasks, the connection and the application keeps the
\* wakers in order.
LEMMA WakeNext ==
    PermitInv /\ ForwardHolds /\ SeatInv /\ WakeInv /\ [WNext]_wvars => WakeInv'
<1>. SUFFICES ASSUME PermitInv, ForwardHolds, SeatInv, WakeInv, [WNext]_wvars PROVE WakeInv'
  OBVIOUS
<1>1. CASE WNext
  <2>1. [Next]_vars
    BY <1>1, WakeStep
  <2>2. TypeOK'
    BY <2>1, PermitNext DEF PermitInv
  <2>3. WTypeOK'
    BY <1>1, <2>2, WakeTypes DEF WTypeOK, WakeInv, Turns
  <2>4. PollHeld'
    BY <2>1, PollHeldNext DEF WakeInv
  <2>5. RespRuns'
    BY <1>1, RespRunsNext DEF WakeInv
  <2>6. WakerWaits' /\ SlotWakerFresh'
    BY <1>1, WakersNext DEF WakeInv
  <2>. QED  BY <2>3, <2>4, <2>5, <2>6 DEF WakeInv
<1>2. CASE UNCHANGED wvars
  <2>1. /\ UNCHANGED <<pc, rsp, key, slab, lock, poll>> /\ UNCHANGED wakes
    BY <1>2 DEF wvars, vars, client, inner
  <2>2. TypeOK'
    BY <1>2, PermitNext DEF PermitInv, wvars
  <2>3. WTypeOK'
    BY <2>1, <2>2 DEF WakeInv, WTypeOK, wakes
  <2>4. PollHeld' /\ RespRuns'
    BY <2>1 DEF WakeInv, PollHeld, RespRuns, Running, wakes
  <2>5. WakerWaits' /\ SlotWakerFresh'
    BY <2>1 DEF WakeInv, WakerWaits, SlotWakerFresh, Slab, wakes
  <2>. QED  BY <2>3, <2>4, <2>5 DEF WakeInv
<1>. QED  BY <1>1, <1>2

\* The invariant of the tasks, on top of those of the connection they share.
THEOREM WakeInvariant == WSpec => []WakeInv
<1>1. WInit => PermitInv /\ ForwardHolds /\ SeatInv /\ WakeInv
  BY PermitInit, HoldInit, SeatInit, WakeInit DEF WInit
<1>2. PermitInv /\ ForwardHolds /\ SeatInv /\ WakeInv /\ [WNext]_wvars
        => (PermitInv /\ ForwardHolds /\ SeatInv /\ WakeInv)'
  <2>1. [WNext]_wvars => [Next]_vars
    BY WakeStep DEF wvars
  <2>. QED  BY <2>1, PermitNext, HoldNext, SeatNext, WakeNext
<1>. QED  BY <1>1, <1>2, PTL DEF WSpec

\* Wakers, the socket's reader and the turns of try_join! are what they are
\* declared to be: poll_resp registers a task, not nobody, as the reader, and
\* no future returns from a poll that is over.
THEOREM WakeTypesCorrect == WSpec => []WTypeOK
<1>1. WakeInv => WTypeOK
  BY DEF WakeInv
<1>. QED  BY <1>1, WakeInvariant, PTL

\* For any number of calls on a connection: a waker left in a slot means that
\* there is nothing to read in it, whoever distributed the records.
THEOREM WakersFresh == WSpec => []SlotWakerFresh
<1>1. WakeInv => SlotWakerFresh
  BY DEF WakeInv
<1>. QED  BY <1>1, WakeInvariant, PTL

\* poll_resp and the socket behind it are used under the mutex only.
THEOREM PolledUnderMutex == WSpec => []PollHeld
<1>1. WakeInv => PollHeld
  BY DEF WakeInv
<1>. QED  BY <1>1, WakeInvariant, PTL
=============================================================================
