----------------------------- MODULE Connection -----------------------------
(***************************************************************************)
(* The multiplexer of async-fcgi: client::connection::Connection, the      *)
(* InnerConnection behind its mutex, the FCGIRequest slots in the slab and *)
(* the FCGIBody handed to the caller.  Several forward() calls share one   *)
(* transport connection; any of them that polls its response reads the     *)
(* socket for all of them.                                                 *)
(*                                                                         *)
(* Each call is one task t.  It runs up to two futures that compete for    *)
(* the mutex: "fwd" (forward itself) and later "send" (send_body) next to  *)
(* "resp" (create_response, then the FCGIBody).  Only what happens between *)
(* two awaits under the mutex is atomic; poll_resp is split into one step  *)
(* per record because it never awaits but handles a batch.                 *)
(*                                                                         *)
(* Data is abstracted to chunks: the n-th StdOut record the application    *)
(* sends for request r is [req |-> r, n |-> n].  Wakers are left to module *)
(* Wakeups, bytes to module RecordReader.                                  *)
(***************************************************************************)
EXTENDS Integers, Sequences, FiniteSets

CONSTANTS
    Req,        \* forward() calls, each made at most once
    WithBody,   \* those with a request body (send_body runs)
    Multiline,  \* those that may have a multi-line header, under
                \* HeaderMultilineStrategy::ReturnError
    Abandon,    \* those whose caller may drop the future or the body
    Stderr,     \* those the application also sends records for that carry no output
    MaxReq,     \* max_req_per_con
    Free,       \* the mutex has no holder
    OutCap,     \* bound: records the socket takes before a write blocks
    InCap,      \* bound: records under way to the client
    MaxChunk,   \* bound: StdOut records per request
    MaxBody,    \* bound: chunks of a request body
    MaxLoss     \* bound: connections the application closes or resets

ASSUME ReqAssumption == IsFiniteSet(Req) /\ WithBody \subseteq Req
                        /\ Multiline \subseteq Req /\ Abandon \subseteq Req
                        /\ Stderr \subseteq Req
ASSUME MaxReqAssumption == MaxReq \in Nat
ASSUME FreeAssumption == Free \notin Req \X {"fwd", "send", "resp"}
ASSUME BoundAssumption == /\ OutCap \in Nat /\ InCap \in Nat /\ MaxChunk \in Nat
                          /\ MaxBody \in Nat /\ MaxLoss \in Nat

VARIABLES
    pc,       \* progress of each forward() call, then of its FCGIBody
    snd,      \* progress of send_body
    rsp,      \* progress of create_response
    key,      \* rid - 1, the slab key of the call
    fed,      \* body chunks read by send_body
    sem,      \* available permits of the semaphore
    lock,     \* holder of Mutex<InnerConnection>: <<t, future>> or Free
    poll,     \* where the holder is in poll_resp, or what poll_resp returned
    slab,     \* running_requests: key -> FCGIRequest
    entries,  \* length of the slab's entry vector
    net,      \* what the socket reports: "open", "eof" or "reset"
    partial,  \* the BufReader holds a header cut short
    inbuf,    \* records on their way from the application
    outbuf,   \* records on their way to the application
    losses,   \* connections lost so far
    closed,   \* Connection::close was called
    active,   \* requests the application is working on, on this connection
    sent,     \* StdOut records the application sent per request
    got,      \* history: chunks the FCGIBody returned to the caller
    first,    \* history: number of the first chunk that is (partly) body
    fin,      \* history: requests whose EndRequest was distributed
    garbled   \* history: the application reads past a torn record "now", did so in the
              \* "past" on an earlier connection, or did "no" such thing

client == <<pc, snd, rsp, key, fed>>
inner  == <<sem, lock, poll, slab, entries>>
wire   == <<net, partial, inbuf, outbuf, losses, closed>>
app    == <<active, sent>>
hist   == <<got, first, fin, garbled>>
vars   == <<client, inner, wire, app, hist>>

Stage    == {"acquire", "lock", "alive", "connect", "begin", "params", "stdin", "run", "body",
             "done", "failed", "dropped"}
Owning   == {"begin", "params", "stdin", "run", "body"}
Future   == {"fwd", "send", "resp"}
Chunk    == [req : Req, n : Nat]
Slot     == [owner : Req, buf : Seq(Chunk), ended : BOOLEAN, aborted : BOOLEAN]
InRec    == [type : {"stdout", "end", "noise"}, key : Nat, req : Req, n : Nat]
OutRec   == [type : {"begin", "params", "stdin", "abort", "torn"}, key : Nat, req : Req]
Returned == {"ready", "pending", "closed", "error"}

\* Type of the state; the slab is a finite map below the length of its vector.
TypeOK ==
    /\ pc \in [Req -> Stage]
    /\ snd \in [Req -> {"none", "data", "chunk", "end", "abort", "sent"}]
    /\ rsp \in [Req -> {"none", "header", "push", "done"}]
    /\ key \in [Req -> Nat]
    /\ fed \in [Req -> Nat]
    /\ sem \in Nat
    /\ lock \in (Req \X Future) \cup {Free}
    /\ poll \in {"idle", "start", "more"} \cup Returned
    /\ slab \in [DOMAIN slab -> Slot] /\ DOMAIN slab \subseteq 0 .. entries - 1
    /\ entries \in Nat
    /\ net \in {"open", "eof", "reset"}
    /\ partial \in BOOLEAN
    /\ inbuf \in Seq(InRec)
    /\ outbuf \in Seq(OutRec)
    /\ losses \in Nat
    /\ closed \in BOOLEAN
    /\ active \subseteq [key : Nat, req : Req]
    /\ sent \in [Req -> Nat]
    /\ got \in [Req -> Seq(Chunk)]
    /\ first \in [Req -> Nat]
    /\ fin \subseteq Req
    /\ garbled \in {"no", "now", "past"}

Init ==
    /\ pc = [t \in Req |-> "acquire"]
    /\ snd = [t \in Req |-> "none"]
    /\ rsp = [t \in Req |-> "none"]
    /\ key = [t \in Req |-> 0]
    /\ fed = [t \in Req |-> 0]
    /\ sem = MaxReq
    /\ lock = Free
    /\ poll = "idle"
    /\ slab = [k \in {} |-> {}]
    /\ entries = 0
    /\ net = "open"
    /\ partial = FALSE
    /\ inbuf = <<>>
    /\ outbuf = <<>>
    /\ losses = 0
    /\ closed = FALSE
    /\ active = {}
    /\ sent = [t \in Req |-> 0]
    /\ got = [t \in Req |-> <<>>]
    /\ first = [t \in Req |-> 1]
    /\ fin = {}
    /\ garbled = "no"

-----------------------------------------------------------------------------
(* The slab, the mutex and the slots *)

\* A task that called lock().await and was not served.  The mutex of tokio is
\* fair: while somebody queues, a released mutex is handed to the queue and
\* try_lock, or a first poll of lock(), fails.
Queued(t, f) ==
    \/ f = "fwd" /\ pc[t] = "lock"
    \/ f = "send" /\ pc[t] = "run" /\ snd[t] \in {"chunk", "end", "abort"}
    \/ f = "resp" /\ pc[t] = "run" /\ rsp[t] = "push"

Uncontended(except) ==
    \A t \in Req, f \in Future : Queued(t, f) \/ lock = <<t, f>> => <<t, f>> \in except

\* Mutant: vacant entries are not reused.
Vacant_Grow == {entries}

\* Slab::insert reuses any vacant entry before it grows the vector.
Vacant ==
    LET holes == (0 .. entries - 1) \ DOMAIN slab
    IN  IF holes = {} THEN {entries} ELSE holes

\* Mutant: the vector does not grow with its entries.
Insert_Short(t, k) ==
    /\ slab' = [j \in DOMAIN slab \cup {k} |->
                  IF j = k
                  THEN [owner |-> t, buf |-> <<>>, ended |-> FALSE, aborted |-> FALSE]
                  ELSE slab[j]]
    /\ entries' = entries
    /\ key' = [key EXCEPT ![t] = k]

Insert(t, k) ==
    /\ slab' = [j \in DOMAIN slab \cup {k} |->
                  IF j = k
                  THEN [owner |-> t, buf |-> <<>>, ended |-> FALSE, aborted |-> FALSE]
                  ELSE slab[j]]
    /\ entries' = IF k = entries THEN entries + 1 ELSE entries
    /\ key' = [key EXCEPT ![t] = k]

\* Mutant: the chunk is returned and kept.
Pop_Keep(k) == slab

\* Mutant: a record is taken from the socket and not stored.
Push_Lost(k, c) == slab

\* BufList::push and BufList::oldest on the buffer of a slot
Push(k, c) == [slab EXCEPT ![k].buf = Append(slab[k].buf, c)]
Pop(k)     == [slab EXCEPT ![k].buf = Tail(slab[k].buf)]

Remove(k) == [j \in DOMAIN slab \ {k} |-> slab[j]]

\* InnerConnection::notify_everyone
NotifyEveryone ==
    [k \in DOMAIN slab |->
        IF slab[k].aborted THEN slab[k] ELSE [slab[k] EXCEPT !.ended = TRUE]]

-----------------------------------------------------------------------------
(* InnerConnection::poll_resp, run by the holder of the mutex.  poll is     *)
(* "start" until a record was parsed in this call and "more" afterwards.    *)

Parsing == poll \in {"start", "more"} /\ ~partial /\ inbuf # <<>>

\* Consume the first record of the BufReader in parse_and_distribute.
Consume == inbuf' = Tail(inbuf) /\ poll' = "more"

\* A live, not aborted slot for the first record.
Addressed(x) == x.key \in DOMAIN slab /\ ~slab[x.key].aborted

\* StdOut: append to the slot's buffer.
RespOut ==
    /\ Parsing
    /\ LET x == Head(inbuf)
       IN  /\ x.type = "stdout" /\ Addressed(x)
           /\ slab' = Push(x.key, [req |-> x.req, n |-> x.n])
    /\ Consume
    /\ UNCHANGED <<client, sem, lock, entries, net, partial, outbuf, losses, closed, app, hist>>

\* EndRequest: the slot is ended; its owner drains and removes it.
RespEnd ==
    /\ Parsing
    /\ LET x == Head(inbuf)
       IN  /\ x.type = "end" /\ Addressed(x)
           /\ slab' = [slab EXCEPT ![x.key].ended = TRUE]
           /\ fin' = fin \cup {x.req}
    /\ Consume
    /\ UNCHANGED <<client, sem, lock, entries, net, partial, outbuf, losses, closed, app,
                   got, first, garbled>>

\* Mutant: the slot goes, its permit does not come back.
RespFree_NoPermit ==
    /\ Parsing
    /\ LET x == Head(inbuf)
       IN  /\ x.type = "end" /\ x.key \in DOMAIN slab /\ slab[x.key].aborted
           /\ slab' = Remove(x.key)
           /\ fin' = fin \cup {x.req}
    /\ Consume
    /\ UNCHANGED <<client, sem, lock, entries, net, partial, outbuf, losses, closed, app, got,
                   first, garbled>>

\* EndRequest for a slot whose FCGIBody was dropped: slot and permit are freed.
RespFree ==
    /\ Parsing
    /\ LET x == Head(inbuf)
       IN  /\ x.type = "end" /\ x.key \in DOMAIN slab /\ slab[x.key].aborted
           /\ slab' = Remove(x.key)
           /\ fin' = fin \cup {x.req}
    /\ sem' = sem + 1
    /\ Consume
    /\ UNCHANGED <<client, lock, entries, net, partial, outbuf, losses, closed, app,
                   got, first, garbled>>

\* Management records, StdErr, empty StdOut, ids that are not in the slab and
\* output of aborted requests change nothing.
RespSkip ==
    /\ Parsing
    /\ LET x == Head(inbuf)
       IN  \/ x.type = "noise"
           \/ x.key \notin DOMAIN slab
           \/ x.type = "stdout" /\ x.key \in DOMAIN slab /\ slab[x.key].aborted
    /\ Consume
    /\ UNCHANGED <<client, sem, lock, slab, entries, net, partial, outbuf, losses, closed,
                   app, hist>>

\* The bytes read end inside a header (or inside padding): they stay in the
\* BufReader, which is not refilled while it holds anything.
RespSplit ==
    /\ Parsing
    /\ partial' = TRUE
    /\ UNCHANGED <<client, inner, net, inbuf, outbuf, losses, closed, app, hist>>

\* At least one record was consumed: Ready(Some(Ok)).
RespReady ==
    /\ poll = "more"
    /\ poll' = "ready"
    /\ UNCHANGED <<client, sem, lock, slab, entries, wire, app, hist>>

\* Nothing to read.
RespPending ==
    /\ poll = "start" /\ ~partial /\ inbuf = <<>> /\ net = "open"
    /\ poll' = "pending"
    /\ UNCHANGED <<client, sem, lock, slab, entries, wire, app, hist>>

\* read == 0: end of stream, or bytes that do not make up a header.
RespClosed ==
    /\ poll = "start"
    /\ partial \/ (inbuf = <<>> /\ net = "eof")
    /\ slab' = NotifyEveryone
    /\ poll' = "closed"
    /\ UNCHANGED <<client, sem, lock, entries, wire, app, hist>>

\* The read fails; the socket reports the error once.
RespError ==
    /\ poll = "start" /\ ~partial /\ inbuf = <<>> /\ net = "reset"
    /\ slab' = NotifyEveryone
    /\ poll' = "error"
    /\ net' = "eof"
    /\ UNCHANGED <<client, sem, lock, entries, partial, inbuf, outbuf, losses, closed, app, hist>>

PollResp == RespOut \/ RespEnd \/ RespFree \/ RespSkip \/ RespSplit
            \/ RespReady \/ RespPending \/ RespClosed \/ RespError

-----------------------------------------------------------------------------
(* Connection::forward up to the response *)

Acquire(t) ==
    /\ pc[t] = "acquire" /\ ~closed /\ sem > 0
    /\ sem' = sem - 1
    /\ pc' = [pc EXCEPT ![t] = "lock"]
    /\ UNCHANGED <<snd, rsp, key, fed, lock, poll, slab, entries, wire, app, hist>>

\* lock().await, then check_alive polls the connection once.
StartCheck(t) ==
    /\ pc[t] = "lock" /\ lock = Free
    /\ lock' = <<t, "fwd">>
    /\ pc' = [pc EXCEPT ![t] = "alive"]
    /\ poll' = "start"
    /\ UNCHANGED <<snd, rsp, key, fed, sem, slab, entries, wire, app, hist>>

\* The connection is alive: take a slot.
Alive(t) ==
    /\ pc[t] = "alive" /\ poll \in {"ready", "pending"}
    /\ \E k \in Vacant : Insert(t, k)
    /\ pc' = [pc EXCEPT ![t] = "begin"]
    /\ poll' = "idle"
    /\ UNCHANGED <<snd, rsp, fed, sem, lock, wire, app, hist>>

\* Closed, or an error of kind NotConnected: shut the old stream down, end
\* every running request and connect again.  What the old stream still
\* carries is never read.
NotAlive(t) ==
    /\ pc[t] = "alive" /\ poll \in {"closed", "error"}
    /\ slab' = NotifyEveryone
    /\ pc' = [pc EXCEPT ![t] = "connect"]
    /\ poll' = "idle"
    /\ net' = "eof" /\ inbuf' = <<>> /\ outbuf' = <<>> /\ active' = {}
    /\ garbled' = IF garbled = "now" THEN "past" ELSE garbled
    /\ UNCHANGED <<snd, rsp, key, fed, sem, lock, entries, partial, losses, closed, sent,
                   got, first, fin>>

\* Any other error of the poll fails the call; its permit is returned.
AliveError(t) ==
    /\ pc[t] = "alive" /\ poll = "error"
    /\ pc' = [pc EXCEPT ![t] = "failed"]
    /\ sem' = sem + 1
    /\ lock' = Free
    /\ poll' = "idle"
    /\ UNCHANGED <<snd, rsp, key, fed, slab, entries, wire, app, hist>>

\* A fresh stream and a fresh RecordReader.
Connected(t) ==
    /\ pc[t] = "connect"
    /\ \E k \in Vacant : Insert(t, k)
    /\ pc' = [pc EXCEPT ![t] = "begin"]
    /\ net' = "open" /\ partial' = FALSE /\ inbuf' = <<>> /\ outbuf' = <<>> /\ active' = {}
    /\ UNCHANGED <<snd, rsp, fed, sem, lock, poll, losses, closed, sent, hist>>

\* Mutant: a failed reconnect keeps the permit.
ConnectFail_Leak(t) ==
    /\ pc[t] = "connect"
    /\ pc' = [pc EXCEPT ![t] = "failed"]
    /\ lock' = Free
    /\ UNCHANGED <<snd, rsp, key, fed, sem, poll, slab, entries, wire, app, hist>>

ConnectFail(t) ==
    /\ pc[t] = "connect"
    /\ pc' = [pc EXCEPT ![t] = "failed"]
    /\ sem' = sem + 1
    /\ lock' = Free
    /\ UNCHANGED <<snd, rsp, key, fed, poll, slab, entries, wire, app, hist>>

\* A write on an open stream needs room.  On a stream the peer has left it may
\* still seem to succeed, and the record is gone.
Write(t, type) ==
    \/ /\ net = "open" /\ Len(outbuf) < OutCap
       /\ outbuf' = Append(outbuf, [type |-> type, key |-> key[t], req |-> t])
    \/ /\ net # "open"
       /\ UNCHANGED outbuf

WriteBegin(t) ==
    /\ pc[t] = "begin"
    /\ Write(t, "begin")
    /\ pc' = [pc EXCEPT ![t] = "params"]
    /\ UNCHANGED <<snd, rsp, key, fed, inner, net, partial, inbuf, losses, closed, app, hist>>

\* All parameters, flushed.  With a body the mutex is released and send_body and
\* create_response run side by side; send_body is polled first.
WriteParams(t) ==
    /\ pc[t] = "params"
    /\ Write(t, "params")
    /\ IF t \in WithBody
       THEN /\ pc' = [pc EXCEPT ![t] = "run"]
            /\ snd' = [snd EXCEPT ![t] = "data"]
            /\ lock' = Free
       ELSE /\ pc' = [pc EXCEPT ![t] = "stdin"]
            /\ UNCHANGED <<snd, lock>>
    /\ UNCHANGED <<rsp, key, fed, sem, poll, slab, entries, net, partial, inbuf, losses, closed,
                   app, hist>>

\* A multi-line header: abort_req, then an error.  The slot is left as it is.
RejectHeader(t) ==
    /\ pc[t] = "params" /\ t \in Multiline
    /\ Write(t, "abort")
    /\ pc' = [pc EXCEPT ![t] = "failed"]
    /\ lock' = Free
    /\ UNCHANGED <<snd, rsp, key, fed, sem, poll, slab, entries, net, partial, inbuf, losses,
                   closed, app, hist>>

\* No body: end of STDIN, then create_response alone.
WriteStdin(t) ==
    /\ pc[t] = "stdin"
    /\ Write(t, "stdin")
    /\ pc' = [pc EXCEPT ![t] = "run"]
    /\ rsp' = [rsp EXCEPT ![t] = "header"]
    /\ lock' = Free
    /\ UNCHANGED <<snd, key, fed, sem, poll, slab, entries, net, partial, inbuf, losses, closed,
                   app, hist>>

\* A write error returns from forward.  No FCGIBody exists, the slot stays.
WriteFail(t) ==
    /\ pc[t] \in {"begin", "params", "stdin"} /\ net # "open"
    /\ pc' = [pc EXCEPT ![t] = "failed"]
    /\ lock' = Free
    /\ UNCHANGED <<snd, rsp, key, fed, sem, poll, slab, entries, wire, app, hist>>

-----------------------------------------------------------------------------
(* Connection::send_body *)

\* The next chunk of the request body is there.
BodyChunk(t) ==
    /\ pc[t] = "run" /\ snd[t] = "data" /\ fed[t] < MaxBody
    /\ fed' = [fed EXCEPT ![t] = @ + 1]
    /\ snd' = [snd EXCEPT ![t] = "chunk"]
    /\ UNCHANGED <<pc, rsp, key, inner, wire, app, hist>>

\* The body ended: as long as announced, or too short.
BodyEnd(t) ==
    /\ pc[t] = "run" /\ snd[t] = "data"
    /\ \E s \in {"end", "abort"} : snd' = [snd EXCEPT ![t] = s]
    /\ UNCHANGED <<pc, rsp, key, fed, inner, wire, app, hist>>

SendLock(t) ==
    /\ Queued(t, "send") /\ lock = Free
    /\ lock' = <<t, "send">>
    /\ UNCHANGED <<client, sem, poll, slab, entries, wire, app, hist>>

WriteChunk(t) ==
    /\ lock = <<t, "send">> /\ snd[t] = "chunk"
    /\ Write(t, "stdin")
    /\ snd' = [snd EXCEPT ![t] = "data"]
    /\ lock' = Free
    /\ UNCHANGED <<pc, rsp, key, fed, sem, poll, slab, entries, net, partial, inbuf, losses,
                   closed, app, hist>>

WriteEnd(t) ==
    /\ lock = <<t, "send">> /\ snd[t] = "end"
    /\ Write(t, "stdin")
    /\ snd' = [snd EXCEPT ![t] = "sent"]
    /\ lock' = Free
    /\ UNCHANGED <<pc, rsp, key, fed, sem, poll, slab, entries, net, partial, inbuf, losses,
                   closed, app, hist>>

\* Mutant: the slot is removed although the application still works on it.
DropFCGIBody_Remove(t) ==
    /\ slab' = IF rsp[t] # "none" /\ Uncontended({t} \X Future) THEN Remove(key[t]) ELSE slab
    /\ lock' = IF lock \in {t} \X Future THEN Free ELSE lock

\* Drop of the FCGIBody of t: with the mutex at hand the slot is marked, and
\* freed when EndRequest arrives; otherwise nothing happens.  The futures of
\* t are gone before, so they do not hold or queue for the mutex any more.
\* There is no FCGIBody before the first poll of create_response.
DropFCGIBody(t) ==
    /\ slab' = IF rsp[t] # "none" /\ Uncontended({t} \X Future) /\ key[t] \in DOMAIN slab
               THEN [slab EXCEPT ![key[t]].aborted = TRUE]
               ELSE slab
    /\ lock' = IF lock \in {t} \X Future THEN Free ELSE lock

\* Body too short: abort_req and an error, which drops create_response.
WriteAbort(t) ==
    /\ lock = <<t, "send">> /\ snd[t] = "abort"
    /\ Write(t, "abort")
    /\ pc' = [pc EXCEPT ![t] = "failed"]
    /\ DropFCGIBody(t)
    /\ UNCHANGED <<snd, rsp, key, fed, sem, poll, entries, net, partial, inbuf, losses, closed,
                   app, hist>>

\* A write error in send_body makes try_join drop create_response.
SendFail(t) ==
    /\ lock = <<t, "send">> /\ net # "open"
    /\ pc' = [pc EXCEPT ![t] = "failed"]
    /\ DropFCGIBody(t)
    /\ UNCHANGED <<snd, rsp, key, fed, sem, poll, entries, wire, app, hist>>

-----------------------------------------------------------------------------
(* FCGIBody::poll_frame, driven by create_response (was_returned is FALSE,  *)
(* pc "run") and then by the caller (was_returned is TRUE, pc "body")       *)

\* The first poll of create_response makes the FCGIBody.
StartResponse(t) ==
    /\ pc[t] = "run" /\ rsp[t] = "none"
    /\ rsp' = [rsp EXCEPT ![t] = "header"]
    /\ UNCHANGED <<pc, snd, key, fed, inner, wire, app, hist>>

Reading(t) == \/ pc[t] = "run" /\ rsp[t] = "header"
              \/ pc[t] = "body"

\* The first poll of lock() succeeds and poll_resp is called.
FrameLock(t) ==
    /\ Reading(t) /\ Uncontended({})
    /\ lock' = <<t, "resp">>
    /\ poll' = "start"
    /\ UNCHANGED <<client, sem, slab, entries, wire, app, hist>>

\* poll_resp returned; its result is ignored and only the slot counts.
Polled(t) == lock = <<t, "resp">> /\ poll \in Returned

Slab(t) == slab[key[t]]

Release == lock' = Free /\ poll' = "idle"

\* Neither data nor end: Pending.
FrameWait(t) ==
    /\ Polled(t) /\ Slab(t).buf = <<>> /\ ~Slab(t).ended
    /\ Release
    /\ UNCHANGED <<client, sem, slab, entries, wire, app, hist>>

\* Mutant: the slot is removed before the body is handed over.
FrameEnd_NoHandover(t) ==
    /\ Polled(t) /\ Slab(t).buf = <<>> /\ Slab(t).ended
    /\ slab' = Remove(key[t])
    /\ sem' = sem + 1
    /\ rsp' = [rsp EXCEPT ![t] = "done"]
    /\ Release
    /\ UNCHANGED <<pc, snd, key, fed, entries, wire, app, hist>>

\* Ended and drained.  Before the handover the slot is kept for the caller.
FrameEnd(t) ==
    /\ Polled(t) /\ Slab(t).buf = <<>> /\ Slab(t).ended
    /\ IF pc[t] = "body"
       THEN /\ slab' = Remove(key[t])
            /\ sem' = sem + 1
            /\ pc' = [pc EXCEPT ![t] = "done"]
            /\ UNCHANGED rsp
       ELSE /\ rsp' = [rsp EXCEPT ![t] = "done"]
            /\ UNCHANGED <<slab, sem, pc>>
    /\ Release
    /\ UNCHANGED <<snd, key, fed, entries, wire, app, hist>>

\* Mutant: the slot is released although more chunks are buffered.
LastChunk_Early(t) == Slab(t).ended

\* The next read will not have data.
LastChunk(t) == Slab(t).ended /\ Len(Slab(t).buf) = 1

\* A chunk for the caller.  If it is the last one of an ended request the slot
\* is released at once.
FrameData(t) ==
    /\ Polled(t) /\ pc[t] = "body" /\ Slab(t).buf # <<>>
    /\ got' = [got EXCEPT ![t] = Append(@, Head(Slab(t).buf))]
    /\ IF LastChunk(t)
       THEN /\ slab' = Remove(key[t])
            /\ sem' = sem + 1
            /\ pc' = [pc EXCEPT ![t] = "done"]
       ELSE /\ slab' = Pop(key[t])
            /\ UNCHANGED <<sem, pc>>
    /\ Release
    /\ UNCHANGED <<snd, rsp, key, fed, entries, wire, app, first, fin, garbled>>

\* httpparse::parse of what was read so far: it ends inside the header (Pending,
\* the loop goes on), right after it or is no header at all (Ok without a rest and
\* Err: done); or body data follows the header and has to be given back.
ParseResult == {"header", "done", "push"}

\* A chunk for create_response.
FrameHeader(t) ==
    /\ Polled(t) /\ pc[t] = "run" /\ Slab(t).buf # <<>>
    /\ slab' = Pop(key[t])
    /\ \E to \in ParseResult :
          /\ rsp' = [rsp EXCEPT ![t] = to]
          /\ first' = [first EXCEPT ![t] = Head(Slab(t).buf).n + (IF to = "push" THEN 0 ELSE 1)]
    /\ Release
    /\ UNCHANGED <<pc, snd, key, fed, sem, entries, wire, app, got, fin, garbled>>

\* create_response takes the mutex again and appends the body data it found
\* behind the header to the slot's buffer.
PushRest(t) ==
    /\ pc[t] = "run" /\ rsp[t] = "push" /\ lock = Free
    /\ slab' = Push(key[t], [req |-> t, n |-> first[t]])
    /\ rsp' = [rsp EXCEPT ![t] = "done"]
    /\ UNCHANGED <<pc, snd, key, fed, sem, lock, poll, entries, wire, app, hist>>

\* forward returns the response.
Respond(t) ==
    /\ pc[t] = "run" /\ rsp[t] = "done" /\ snd[t] \in {"none", "sent"}
    /\ pc' = [pc EXCEPT ![t] = "body"]
    /\ UNCHANGED <<snd, rsp, key, fed, inner, wire, app, hist>>

-----------------------------------------------------------------------------
(* The caller gives up, or closes the connection *)

\* A future is dropped between two polls of its task, never inside one.
Suspended(t) == poll = "idle" \/ lock \notin {t} \X Future

\* t was between two writes of a record if it holds the mutex in such a future:
\* part of the record may be on the wire and the rest never comes.
Torn(t) ==
    \/ /\ net = "open" /\ Len(outbuf) < OutCap
       /\ outbuf' = Append(outbuf, [type |-> "torn", key |-> key[t], req |-> t])
    \/ UNCHANGED outbuf

\* The poll that ends forward's own part also starts create_response.
DropBody(t) ==
    /\ t \in Abandon /\ pc[t] \in {"run", "body"} /\ rsp[t] # "none" /\ Suspended(t)
    /\ pc' = [pc EXCEPT ![t] = "dropped"]
    /\ DropFCGIBody(t)
    /\ IF lock = <<t, "send">> THEN Torn(t) ELSE UNCHANGED outbuf
    /\ UNCHANGED <<snd, rsp, key, fed, sem, poll, entries, net, partial, inbuf, losses, closed,
                   app, hist>>

\* Before a slot is taken the permit comes back; afterwards the slot stays.
CancelForward(t) ==
    /\ t \in Abandon /\ pc[t] \in {"lock", "connect", "begin", "params", "stdin"}
    /\ Suspended(t)
    /\ pc' = [pc EXCEPT ![t] = "dropped"]
    /\ sem' = IF pc[t] \in {"lock", "connect"} THEN sem + 1 ELSE sem
    /\ lock' = IF lock = <<t, "fwd">> THEN Free ELSE lock
    /\ IF pc[t] \in {"begin", "params", "stdin"} THEN Torn(t) ELSE UNCHANGED outbuf
    /\ UNCHANGED <<snd, rsp, key, fed, poll, slab, entries, net, partial, inbuf, losses, closed,
                   app, hist>>

\* Connection::close takes the connection by value, so no forward is under way.
\* If the shutdown fails nobody is notified.
Close ==
    /\ ~closed /\ lock = Free
    /\ \A t \in Req : pc[t] \in {"acquire", "body", "done", "failed", "dropped"}
    /\ closed' = TRUE
    /\ \/ slab' = NotifyEveryone
       \/ net # "open" /\ UNCHANGED slab
    /\ UNCHANGED <<client, sem, lock, poll, entries, net, partial, inbuf, outbuf, losses, app, hist>>

-----------------------------------------------------------------------------
(* The FastCGI application and the socket, as far as the client sees them.  *)
(* poll_resp works on a snapshot, so they take no step inside it.           *)

Outside == poll = "idle"

Emit(type, x, n) ==
    /\ Len(inbuf) < InCap
    /\ inbuf' = Append(inbuf, [type |-> type, key |-> x.key, req |-> x.req, n |-> n])

AppRecv ==
    /\ Outside /\ net = "open" /\ outbuf # <<>> /\ Head(outbuf).type # "torn"
    /\ outbuf' = Tail(outbuf)
    /\ active' = IF Head(outbuf).type = "begin"
                 THEN active \cup {[key |-> Head(outbuf).key, req |-> Head(outbuf).req]}
                 ELSE active
    /\ UNCHANGED <<client, inner, net, partial, inbuf, losses, closed, sent, hist>>

\* Request ids a slot can have; what an application reads or answers under any
\* other id reaches nobody.
Ids == 0 .. MaxReq - 1

\* A record the application makes of bytes that call u wrote as something else: it
\* begins a request or belongs to one (params, stdin and abort are alike here), under
\* the id of the torn record if its header is whole, under any id otherwise.
Misread(u) == [type : {"begin", "stdin"}, key : Ids, req : {u}]

\* The missing bytes of a torn record are made up from the record behind it.  They
\* take all of it and more; or up to its end; or the torn record ends inside it, and
\* what is left of it is read where a header should be.
AppTorn ==
    /\ Outside /\ net = "open" /\ outbuf # <<>> /\ Head(outbuf).type = "torn"
    /\ Tail(outbuf) # <<>>
    /\ LET next == Head(Tail(outbuf))
           rest == Tail(Tail(outbuf))
       IN  \/ outbuf' = <<Head(outbuf)>> \o rest
           \/ \E x \in Misread(next.req) :
                 outbuf' \in {<<x>> \o rest, <<x, [next EXCEPT !.type = "torn"]>> \o rest}
    /\ garbled' = "now"
    /\ UNCHANGED <<client, inner, net, partial, inbuf, losses, closed, app, got, first, fin>>

\* Output, in any order between the requests.
AppStdout(x) ==
    /\ Outside /\ x \in active /\ sent[x.req] < MaxChunk
    /\ Emit("stdout", x, sent[x.req] + 1)
    /\ sent' = [sent EXCEPT ![x.req] = @ + 1]
    /\ UNCHANGED <<client, inner, net, partial, outbuf, losses, closed, active, hist>>

\* StdErr, an empty StdOut or a management record.
AppNoise(x) ==
    /\ Outside /\ x \in active /\ x.req \in Stderr
    /\ Emit("noise", x, 0)
    /\ UNCHANGED <<client, inner, net, partial, outbuf, losses, closed, app, hist>>

\* EndRequest.  An application may answer before it has read all its input.
AppEnd(x) ==
    /\ Outside /\ x \in active
    /\ Emit("end", x, 0)
    /\ active' = active \ {x}
    /\ UNCHANGED <<client, inner, net, partial, outbuf, losses, closed, sent, hist>>

AppClose ==
    /\ Outside /\ net = "open" /\ losses < MaxLoss
    /\ net' = "eof" /\ losses' = losses + 1
    /\ outbuf' = <<>> /\ active' = {}
    /\ UNCHANGED <<client, inner, partial, inbuf, closed, sent, hist>>

\* A reset may overtake what was sent before it.
AppReset ==
    /\ Outside /\ net \in {"open", "eof"} /\ losses < MaxLoss
    /\ net' = "reset" /\ losses' = losses + 1
    /\ inbuf' \in {inbuf, <<>>}
    /\ outbuf' = <<>> /\ active' = {}
    /\ UNCHANGED <<client, inner, partial, closed, sent, hist>>

App == AppRecv \/ AppTorn \/ AppClose \/ AppReset
       \/ \E x \in active : AppStdout(x) \/ AppNoise(x) \/ AppEnd(x)

-----------------------------------------------------------------------------
Forward(t) == Acquire(t) \/ StartCheck(t) \/ Alive(t) \/ NotAlive(t) \/ AliveError(t)
              \/ Connected(t) \/ ConnectFail(t) \/ WriteBegin(t) \/ WriteParams(t)
              \/ RejectHeader(t) \/ WriteStdin(t) \/ WriteFail(t)

SendBody(t) == BodyChunk(t) \/ BodyEnd(t) \/ SendLock(t) \/ WriteChunk(t) \/ WriteEnd(t)
               \/ WriteAbort(t) \/ SendFail(t)

Response(t) == StartResponse(t) \/ FrameLock(t) \/ FrameWait(t) \/ FrameEnd(t) \/ FrameData(t)
               \/ FrameHeader(t) \/ PushRest(t) \/ Respond(t)

GiveUp(t) == DropBody(t) \/ CancelForward(t)

Next == PollResp \/ Close \/ App
        \/ \E t \in Req : Forward(t) \/ SendBody(t) \/ Response(t) \/ GiveUp(t)

Spec == Init /\ [][Next]_vars

-----------------------------------------------------------------------------
(* Properties *)

\* Calls that hold a permit and have no slot yet.
Waiting == {t \in Req : pc[t] \in {"lock", "alive", "connect"}}

\* No permit is lost or made up: every permit is available, held by a call
\* that has no slot yet, or kept by exactly one slot (field _permit).
PermitConservation ==
    sem + Cardinality(Waiting) + Cardinality(DOMAIN slab) = MaxReq

\* The slab never outgrows the permits, so (key + 1) as u16 never wraps and no
\* two live requests get the same request id.
RidBounded == entries <= MaxReq

\* Output of one request never reaches another: neither a slot's buffer nor what
\* a caller got from its body holds a chunk of somebody else, over any number
\* of reuses of a request id and reconnects; unless the application read past a
\* record that a dropped call left torn.
NoCrosstalk ==
    garbled = "no" =>
        /\ \A k \in DOMAIN slab : \A i \in DOMAIN slab[k].buf :
              slab[k].buf[i].req = slab[k].owner
        /\ \A t \in Req : \A i \in DOMAIN got[t] : got[t][i].req = t

\* A call that writes, reads its response or returned a body still owns its slot:
\* the index in create_response ("request might already be done and gone") cannot
\* panic and the "not in slab" branch of poll_frame is dead.
BodyHasSlot ==
    \A t \in Req : pc[t] \in Owning =>
        key[t] \in DOMAIN slab /\ slab[key[t]].owner = t

\* A request id is used for one request at a time on a connection on which the
\* application did not read past a torn record.
OneActivePerId == garbled # "now" => \A x, y \in active : x.key = y.key => x = y

\* The record at the head of outbuf comes from the call the application works for
\* under its id, if it works for one.
HeadToOwner ==
    outbuf # <<>> =>
        \A x \in active : Head(outbuf).key = x.key =>
            Head(outbuf).type # "begin" /\ Head(outbuf).req = x.req

\* A record the application reads for an id it is working on comes from the call
\* it is working for, also when requests end early, are given up, or continue after
\* a reconnect.  A record left torn takes this away from its connection once
\* something is written behind it; the next connection has it again, although
\* calls of the old one go on writing there.
InputToOwner == garbled # "now" => HeadToOwner

\* The chunks of the response body of t that reached the client so far.
Received(t) ==
    got[t] \o (IF rsp[t] = "push" THEN <<[req |-> t, n |-> first[t]]>> ELSE <<>>)
           \o (IF pc[t] \in {"run", "body"} THEN slab[key[t]].buf ELSE <<>>)

\* The body is neither missing a chunk nor repeating one, and only the rest of
\* the header chunk, which create_response gives back, can be out of place; unless
\* the application read past a torn record.
DeliveredOnce ==
    garbled = "no" => \A t \in Req : pc[t] \in {"run", "body", "done"} =>
        LET all == Received(t)
            num == {all[i].n : i \in DOMAIN all}
        IN  /\ num = first[t] .. first[t] + Len(all) - 1
            /\ \A i, j \in DOMAIN got[t] :
                  i < j /\ got[t][j].n # first[t] => got[t][i].n < got[t][j].n \/ got[t][i].n = first[t]

\* A body that was ended by EndRequest and read to its end is complete, also
\* when the connection was lost or replaced in the meantime; unless the application
\* read past a torn record.
CompleteAtEnd ==
    garbled = "no" => \A t \in fin : pc[t] \in {"run", "body", "done"} =>
        first[t] + Len(Received(t)) - 1 = sent[t]

\* Violated: "Parse the Headers and return a body that streams the rest".
InOrder ==
    \A t \in Req : \A i, j \in DOMAIN got[t] : i < j => got[t][i].n < got[t][j].n
=============================================================================
