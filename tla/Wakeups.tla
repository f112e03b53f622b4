------------------------------ MODULE Wakeups -------------------------------
(***************************************************************************)
(* Who is woken, and when.  Connection lets a response be polled at any    *)
(* time; here a task is polled only after one of its wakers fired:         *)
(*                                                                         *)
(*   - the waker poll_frame stores in the slot, taken by                   *)
(*     parse_and_distribute and notify_everyone;                           *)
(*   - the one reader waker the socket keeps: the context of the last      *)
(*     poll_fill_buf that returned Pending, whoever called it, check_alive *)
(*     included (tokio's ScheduledIo has a single reader slot);            *)
(*   - for send_body and for the lock().await of create_response, the      *)
(*     mutex queue, the socket's writer slot and the request body.         *)
(*                                                                         *)
(* poll_frame drops the lock future it polled, so a contended mutex leaves *)
(* no waker behind.  A task polls its futures one after the other; the two *)
(* of try_join! take turns in being first.                                 *)
(*                                                                         *)
(* forward() up to the response only awaits things that wake it reliably   *)
(* and needs no bookkeeping.                                               *)
(***************************************************************************)
EXTENDS Connection

CONSTANT NoTask     \* no reader is registered at the socket
ASSUME NoTaskAssumption == NoTask \notin Req

VARIABLES
    woken,   \* tasks the executor will poll
    waker,   \* tasks whose slot holds a waker
    rd,      \* task registered as the socket's reader
    todo,    \* futures each task has yet to poll in its current turn
    turn     \* whether try_join! starts with create_response next time

wakes == <<woken, waker, rd, todo, turn>>
wvars == <<vars, wakes>>

WTypeOK ==
    /\ TypeOK
    /\ woken \subseteq Req
    /\ waker \subseteq Req
    /\ rd \in Req \cup {NoTask}
    /\ todo \in [Req -> {<<>>, <<"send">>, <<"resp">>, <<"send", "resp">>, <<"resp", "send">>}]
    /\ turn \in [Req -> BOOLEAN]

WInit ==
    /\ Init
    /\ woken = {}
    /\ waker = {}
    /\ rd = NoTask
    /\ todo = [t \in Req |-> <<>>]
    /\ turn = [t \in Req |-> FALSE]

Running(t, f) == todo[t] # <<>> /\ Head(todo[t]) = f

\* The future that is being polled returns; the task goes on with the next one.
Return(t) == todo' = [todo EXCEPT ![t] = Tail(@)]

-----------------------------------------------------------------------------
(* The executor *)

\* The futures of t that are not finished, in the order of this poll.
Futures(t) ==
    CASE pc[t] = "body"                                       -> <<"resp">>
      [] snd[t] \in {"none", "sent"} /\ rsp[t] # "done"       -> <<"resp">>
      [] snd[t] \notin {"none", "sent"} /\ rsp[t] = "done"    -> <<"send">>
      [] snd[t] \notin {"none", "sent"} /\ rsp[t] # "done"    ->
             IF turn[t] THEN <<"resp", "send">> ELSE <<"send", "resp">>
      [] OTHER                                                -> <<>>

PollTask(t) ==
    /\ pc[t] \in {"run", "body"} /\ t \in woken /\ todo[t] = <<>>
    /\ woken' = woken \ {t}
    /\ todo' = [todo EXCEPT ![t] = Futures(t)]
    /\ turn' = [turn EXCEPT ![t] = ~@]
    /\ UNCHANGED <<vars, waker, rd>>

\* send_body has to wait: for the request body, the mutex or room in the socket.
SendBlocked(t) ==
    \/ snd[t] = "data"
    \/ Queued(t, "send") /\ lock \notin {Free, <<t, "send">>}
    \/ lock = <<t, "send">> /\ net = "open" /\ Len(outbuf) >= OutCap

\* create_response waits for the mutex to give back body data.
PushBlocked(t) == rsp[t] = "push" /\ lock # Free

Suspend(t) ==
    /\ pc[t] = "run"
    /\ \/ Running(t, "send") /\ SendBlocked(t)
       \/ Running(t, "resp") /\ PushBlocked(t)
    /\ Return(t)
    /\ UNCHANGED <<vars, woken, waker, rd, turn>>

\* The body, the mutex queue or the socket's writer slot wakes the task.
WakeTask(t) ==
    /\ pc[t] = "run" /\ todo[t] = <<>> /\ t \notin woken
    /\ \/ snd[t] = "data"
       \/ Queued(t, "send") /\ ~SendBlocked(t)
       \/ rsp[t] = "push" /\ lock = Free
    /\ woken' = woken \cup {t}
    /\ UNCHANGED <<vars, waker, rd, todo, turn>>

\* poll_frame finds the mutex taken: it returns Pending and forgets its place
\* in the queue.
FrameMiss(t) ==
    /\ Running(t, "resp") /\ Reading(t) /\ lock # <<t, "resp">> /\ ~Uncontended({})
    /\ Return(t)
    /\ UNCHANGED <<vars, woken, waker, rd, turn>>

-----------------------------------------------------------------------------
(* The actions of Connection with their wake-ups *)

\* waker.take().wake() of the slots in ks
Wake(ks) ==
    LET ts == {slab[k].owner : k \in ks} \cap waker
    IN  woken' = woken \cup ts /\ waker' = waker \ ts

\* Mutant: the record is stored, its owner is not woken.
WRespDistribute_NoWake ==
    /\ RespOut \/ RespEnd \/ RespFree
    /\ UNCHANGED wakes

\* A record for a slot wakes its owner.
WRespDistribute ==
    /\ RespOut \/ RespEnd \/ RespFree
    /\ Wake({Head(inbuf).key})
    /\ UNCHANGED <<rd, todo, turn>>

WRespQuiet ==
    /\ RespSkip \/ RespSplit \/ RespReady
    /\ UNCHANGED wakes


\* Mutant: the future is registered instead of its task.
WRespPending_Holder ==
    /\ RespPending
    /\ rd' = lock
    /\ UNCHANGED <<woken, waker, todo, turn>>

\* Nothing to read: the socket will wake this task and no other.
WRespPending ==
    /\ RespPending
    /\ rd' = lock[1]
    /\ UNCHANGED <<woken, waker, todo, turn>>

WRespClosed ==
    /\ RespClosed \/ RespError
    /\ Wake(DOMAIN slab)
    /\ UNCHANGED <<rd, todo, turn>>

\* notify_everyone again; the old socket and its reader slot are replaced later.
WNotAlive(t) ==
    /\ NotAlive(t)
    /\ Wake(DOMAIN slab)
    /\ UNCHANGED <<rd, todo, turn>>

WConnected(t) ==
    /\ Connected(t)
    /\ rd' = NoTask
    /\ UNCHANGED <<woken, waker, todo, turn>>

\* The last write of forward: in the same poll the task starts on the response.
WStartResponse(t) ==
    /\ WriteParams(t) \/ WriteStdin(t)
    /\ IF pc'[t] = "run"
       THEN /\ todo' = [todo EXCEPT ![t] = IF t \in WithBody THEN <<"send", "resp">>
                                                             ELSE <<"resp">>]
            /\ turn' = [turn EXCEPT ![t] = TRUE]
       ELSE UNCHANGED <<todo, turn>>
    /\ UNCHANGED <<woken, waker, rd>>

WForward(t) ==
    /\ \/ Acquire(t) \/ StartCheck(t) \/ Alive(t) \/ AliveError(t) \/ ConnectFail(t)
       \/ WriteBegin(t) \/ RejectHeader(t) \/ WriteFail(t)
    /\ UNCHANGED wakes

WSendBody(t) ==
    /\ Running(t, "send")
    /\ BodyChunk(t) \/ BodyEnd(t) \/ SendLock(t) \/ WriteChunk(t)
    /\ UNCHANGED wakes

\* The waker of the slot goes with its FCGIBody, if the mutex can be had.
DropWaker(t) == waker' = IF slab' # slab THEN waker \ {t} ELSE waker

\* send_body fails; try_join! drops create_response.
WSendFail(t) ==
    /\ Running(t, "send")
    /\ WriteAbort(t) \/ SendFail(t)
    /\ DropWaker(t)
    /\ todo' = [todo EXCEPT ![t] = <<>>]
    /\ UNCHANGED <<woken, rd, turn>>

\* send_body returns Ready.
WSendDone(t) ==
    /\ Running(t, "send")
    /\ WriteEnd(t)
    /\ Return(t)
    /\ UNCHANGED <<woken, waker, rd, turn>>

WFrameLock(t) ==
    /\ Running(t, "resp")
    /\ StartResponse(t) \/ FrameLock(t)
    /\ UNCHANGED wakes

\* Pending: the slot keeps the waker.
WFrameWait(t) ==
    /\ FrameWait(t)
    /\ waker' = waker \cup {t}
    /\ Return(t)
    /\ UNCHANGED <<woken, rd, turn>>

\* Ready: the caller takes the chunk and polls for the next.  create_response
\* polls on inside the same poll until it has the header.
WFrameReady(t) ==
    /\ FrameEnd(t) \/ FrameData(t)
    /\ Return(t)
    /\ woken' = IF pc'[t] = "body" THEN woken \cup {t} ELSE woken
    /\ waker' = IF pc'[t] = "done" THEN waker \ {t} ELSE waker
    /\ UNCHANGED <<rd, turn>>

WFrameHeader(t) ==
    /\ FrameHeader(t)
    /\ IF rsp'[t] = "done" THEN Return(t) ELSE UNCHANGED todo
    /\ UNCHANGED <<woken, waker, rd, turn>>

WPushRest(t) ==
    /\ Running(t, "resp")
    /\ PushRest(t)
    /\ Return(t)
    /\ UNCHANGED <<woken, waker, rd, turn>>

\* Both futures are ready; the caller starts on the body.
WRespond(t) ==
    /\ Respond(t) /\ todo[t] = <<>>
    /\ woken' = woken \cup {t}
    /\ UNCHANGED <<waker, rd, todo, turn>>

WGiveUp(t) ==
    /\ todo[t] = <<>>
    /\ GiveUp(t)
    /\ DropWaker(t)
    /\ UNCHANGED <<woken, rd, todo, turn>>

WClose ==
    /\ Close
    /\ IF slab' = NotifyEveryone THEN Wake(DOMAIN slab) ELSE UNCHANGED <<woken, waker>>
    /\ UNCHANGED <<rd, todo, turn>>

\* Something arrived at the socket: its reader is woken, once.
WArrive ==
    /\ AppClose \/ AppReset \/ \E x \in active : AppStdout(x) \/ AppNoise(x) \/ AppEnd(x)
    /\ woken' = IF rd = NoTask THEN woken ELSE woken \cup {rd}
    /\ rd' = NoTask
    /\ UNCHANGED <<waker, todo, turn>>

WRecv == (AppRecv \/ AppTorn) /\ UNCHANGED wakes

-----------------------------------------------------------------------------
WPollResp == WRespDistribute \/ WRespQuiet \/ WRespPending \/ WRespClosed

WTask(t) == WNotAlive(t) \/ WConnected(t) \/ WStartResponse(t) \/ WForward(t) \/ WSendBody(t)
            \/ WSendDone(t) \/ WSendFail(t) \/ WFrameLock(t) \/ WFrameWait(t) \/ WFrameReady(t)
            \/ WFrameHeader(t) \/ WPushRest(t) \/ WRespond(t)
            \/ PollTask(t) \/ Suspend(t) \/ WakeTask(t) \/ FrameMiss(t)

WNext == WPollResp \/ WClose \/ WArrive \/ WRecv \/ \E t \in Req : WTask(t) \/ WGiveUp(t)

\* The executor polls every woken task, poll_resp ends, a request body that is
\* polled again and again gets on, the application reads its input and ends
\* every request.  Nobody has to give up, close or send output.
Fairness ==
    /\ WF_wvars(WPollResp)
    /\ \A t \in Req : WF_wvars(WTask(t))
    /\ \A t \in Req : SF_wvars(WSendBody(t) /\ (BodyChunk(t) \/ BodyEnd(t)))
    /\ WF_wvars(WRecv)
    /\ WF_wvars(WArrive /\ \E x \in active : AppEnd(x))

WSpec == WInit /\ [][WNext]_wvars /\ Fairness

\* A waker left in a slot means there is nothing to read: no record, no end of
\* the request and no loss of the connection is put into a slot without waking
\* the task that waits for it, whoever read it from the socket.
SlotWakerFresh ==
    \A t \in waker : pc[t] \in {"run", "body"} => Slab(t).buf = <<>> /\ ~Slab(t).ended

\* Violated: every response is read to its end, or the call fails or is given up.  A
\* call is made once, so this is when no response is left for good.  It fails next
\* to a second request ("Can multiplex `max_req_per_con` simultaneous request streams"),
\* next to a writer that waits with the mutex, and behind a record without output.
ResponseEnds == <>[](\A t \in Req : pc[t] \notin {"run", "body"})

\* A write under way waits for the application to read.
WriteWaits ==
    /\ \E t \in Req : lock \in {<<t, "fwd">>, <<t, "send">>}
    /\ net = "open" /\ Len(outbuf) >= OutCap

=============================================================================
