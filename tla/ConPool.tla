------------------------------ MODULE ConPool -------------------------------
(***************************************************************************)
(* ConPool::new_with_strategy: the client asks the application for its     *)
(* limits with GetValues, reads the answer with send_and_receive and       *)
(* Record::read, applies the pairs and opens a Connection with the         *)
(* negotiated max_req_per_con, the MaxReq of module Connection.            *)
(*                                                                         *)
(* The application builds its answer with this crate's NVBodyList,         *)
(* to_record and append, or answers with an UnknownType record; its bytes  *)
(* arrive in pieces of any size, or only in part if it dies.  Of a header  *)
(* the type, the content length and the padding length are modelled, a     *)
(* cell each.                                                              *)
(***************************************************************************)
EXTENDS NameValue

CONSTANTS
    MAX_CONNS, MAX_REQS, MPXS_CONNS,   \* the names asked for
    U8, U16,                           \* values of the two integer types
    UNKNOWN_LEN,                       \* bytes of an UnknownType body (8)
    ReadCap,                           \* bytes one read_buf may take (4096)
    Answers                            \* the pairs the application may answer with

ASSUME NameAssumption == /\ {MAX_CONNS, MAX_REQS, MPXS_CONNS} \subseteq Bytes
                         /\ MAX_CONNS # MAX_REQS /\ MAX_CONNS # MPXS_CONNS /\ MAX_REQS # MPXS_CONNS
ASSUME LimitAssumption == U8 \in Nat \ {0, 1} /\ U16 \in Nat \ {0, 1}
                          /\ UNKNOWN_LEN \in Nat /\ ReadCap \in Nat \ {0}
ASSUME AnswerAssumption == Answers \subseteq Seq(Pair)

HEADER_LEN == 3

\* RecordType
GetValuesResult == 10
UnknownType     == 11

VARIABLES
    \* the application
    answer,     \* pairs it answers with
    role,       \* "list" (building its NVBodyList), "record", "copy", "sent" or "panic"
    added,      \* pairs in the list so far
    bodies,     \* NVBodyList
    place,      \* history: the body each pair went into
    cur,        \* the body being serialised
    bufs,       \* what is left of its BufList in the copy loop of NVBody::drain
    \* the connection
    net,        \* "open", "eof" or "reset"
    wire,       \* bytes under way to the client
    \* the client
    stage,      \* where new_with_strategy is
    rbuf,       \* read buffer, frozen to pbuf while records are read from it
    recs,       \* records read
    kvs,        \* NVDrain: what is left of the pairs of the current record
    max_cons, max_req_per_con,
    seen        \* history: pairs taken from the answer, by record

appl   == <<answer, role, added, bodies, place, cur, bufs>>
client == <<stage, rbuf, recs, kvs, max_cons, max_req_per_con, seen>>
vars   == <<appl, net, wire, client>>

Stage == {"connect", "query", "read", "parse", "values", "pairs", "ready", "failed", "panic"}

\* Types; the limits fit their integer types.
TypeOK ==
    /\ answer \in Seq(Pair) /\ added \in 0 .. Len(answer)
    /\ role \in {"list", "record", "copy", "sent", "panic"}
    /\ bodies \in Seq([pairs : Seq(Bytes), len : Nat]) /\ cur \in 1 .. Len(bodies) + 1
    /\ place \in Seq(1 .. Len(bodies)) /\ bufs \in Seq(Bytes)
    /\ net \in {"open", "eof", "reset"}
    /\ wire \in Seq(Nat)
    /\ stage \in Stage
    /\ rbuf \in Seq(Nat)
    /\ recs \in Seq([type : {GetValuesResult, UnknownType}, body : Bytes])
    /\ kvs \in Bytes
    /\ max_cons \in 0 .. U8 - 1 /\ max_req_per_con \in 0 .. U16 - 1
    /\ seen \in Seq(Seq(Pair))

Init ==
    /\ answer \in Answers
    /\ role = "list" /\ added = 0 /\ bodies = <<EmptyBody>> /\ place = <<>>
    /\ cur = 1 /\ bufs = <<>>
    /\ net = "open" /\ wire = <<>>
    /\ stage = "connect" /\ rbuf = <<>> /\ recs = <<>> /\ kvs = <<>>
    /\ max_cons = 1 /\ max_req_per_con = 1
    /\ seen = <<>>

-----------------------------------------------------------------------------
(* The application, from the crate's own encoder *)

\* It has read GetValues.
Asked == net = "open" /\ stage = "read"

\* NVBodyList::add
AppAdd ==
    /\ Asked /\ role = "list" /\ added < Len(answer)
    /\ LET p    == answer[added + 1]
           list == IF Fits(Last(bodies), p) THEN bodies ELSE Append(bodies, EmptyBody)
       IN  /\ Fits(Last(list), p)
           /\ bodies' = [list EXCEPT ![Len(list)] = Add(@, p)]
           /\ place' = Append(place, Len(list))
    /\ added' = added + 1
    /\ UNCHANGED <<answer, role, cur, bufs, net, wire, client>>

\* NVBodyList::add: "KVPair bigger that 0xFFFF"
AppAddPanic ==
    /\ Asked /\ role = "list" /\ added < Len(answer)
    /\ ~Fits(Last(bodies), answer[added + 1]) /\ ~Fits(EmptyBody, answer[added + 1])
    /\ role' = "panic"
    /\ UNCHANGED <<answer, added, bodies, place, cur, bufs, net, wire, client>>

\* The list is complete; its bodies are serialised one after the other.
AppDone ==
    /\ Asked /\ role = "list" /\ added = Len(answer)
    /\ role' = "record"
    /\ UNCHANGED <<answer, added, bodies, place, cur, bufs, net, wire, client>>

\* NVBody::to_record, then Record::append: the header
AppHeader ==
    /\ Asked /\ role = "record" /\ cur <= Len(bodies)
    /\ wire' = wire \o <<GetValuesResult, bodies[cur].len, Padding(bodies[cur].len)>>
    /\ bufs' = bodies[cur].pairs
    /\ role' = "copy"
    /\ UNCHANGED <<answer, added, bodies, place, cur, net, client>>

\* NVBody::drain copies buffer by buffer; an empty one never goes away.
AppCopy ==
    /\ Asked /\ role = "copy" /\ Remaining(bufs) > 0
    /\ wire' = wire \o FirstBuf(bufs)
    /\ bufs' = Advance(bufs, Len(FirstBuf(bufs)))
    /\ UNCHANGED <<answer, role, added, bodies, place, cur, net, client>>

\* Record::append: the padding
AppPad ==
    /\ Asked /\ role = "copy" /\ Remaining(bufs) = 0
    /\ wire' = wire \o [i \in 1 .. Padding(bodies[cur].len) |-> 0]
    /\ cur' = cur + 1
    /\ role' = "record"
    /\ UNCHANGED <<answer, added, bodies, place, bufs, net, client>>

AppSend ==
    /\ Asked /\ role = "record" /\ cur > Len(bodies)
    /\ role' = "sent"
    /\ UNCHANGED <<answer, added, bodies, place, cur, bufs, net, wire, client>>

\* An application that does not know GetValues.
AppUnknown ==
    /\ Asked /\ role = "list" /\ added = 0 /\ answer = <<>>
    /\ wire' = <<UnknownType, UNKNOWN_LEN, Padding(UNKNOWN_LEN)>>
               \o [i \in 1 .. UNKNOWN_LEN + Padding(UNKNOWN_LEN) |-> 0]
    /\ role' = "sent"
    /\ UNCHANGED <<answer, added, bodies, place, cur, bufs, net, client>>

\* The application ends, having written its answer in whole or in part.
AppClose ==
    /\ net = "open" /\ stage # "connect"
    /\ net' = "eof"
    /\ \E n \in IF role = "sent" THEN 0 .. Len(wire) ELSE {0} : wire' = SubSeq(wire, 1, n)
    /\ UNCHANGED <<appl, client>>

AppReset ==
    /\ net = "open" /\ stage # "connect"
    /\ net' = "reset" /\ wire' = <<>>
    /\ UNCHANGED <<appl, client>>

App == AppAdd \/ AppAddPanic \/ AppDone \/ AppHeader \/ AppCopy \/ AppPad \/ AppSend \/ AppUnknown

-----------------------------------------------------------------------------
(* ConPool::new_with_strategy *)

\* Stream::connect, of the query and at the end of the Connection, and its ?.
Connect ==
    /\ stage = "connect"
    /\ stage' \in {"query", "failed"}
    /\ UNCHANGED <<appl, net, wire, rbuf, recs, kvs, max_cons, max_req_per_con, seen>>

\* The three names, each without a value, flushed; or a write fails.
Query ==
    /\ stage = "query"
    /\ stage' \in {"read"} \cup (IF net # "open" THEN {"failed"} ELSE {})
    /\ UNCHANGED <<appl, net, wire, rbuf, recs, kvs, max_cons, max_req_per_con, seen>>

\* read_buf: any part of what is under way, nothing at the end of the stream.
ReadBuf ==
    /\ stage = "read"
    /\ \/ /\ role = "sent" \/ net = "eof"
          /\ \E n \in 1 .. Min({Len(wire), ReadCap}) :
                /\ rbuf' = rbuf \o SubSeq(wire, 1, n)
                /\ wire' = SubSeq(wire, n + 1, Len(wire))
       \/ /\ net = "eof" /\ wire = <<>>
          /\ UNCHANGED <<rbuf, wire>>
    /\ stage' = "parse"
    /\ UNCHANGED <<appl, net, recs, kvs, max_cons, max_req_per_con, seen>>

ReadFail ==
    /\ stage = "read" /\ net = "reset"
    /\ stage' = "failed"
    /\ UNCHANGED <<appl, net, wire, rbuf, recs, kvs, max_cons, max_req_per_con, seen>>

\* Record::read finds a whole record, padding included.
Complete(data) ==
    Len(data) >= HEADER_LEN /\ Len(data) >= HEADER_LEN + data[2] + data[3]

\* Record::read and parse_body
ReadRecord ==
    /\ stage = "parse" /\ Complete(rbuf)
    /\ recs' = Append(recs, [type |-> rbuf[1],
                             body |-> SubSeq(rbuf, HEADER_LEN + 1, HEADER_LEN + rbuf[2])])
    /\ rbuf' = SubSeq(rbuf, HEADER_LEN + rbuf[2] + rbuf[3] + 1, Len(rbuf))
    /\ UNCHANGED <<appl, net, wire, stage, kvs, max_cons, max_req_per_con, seen>>

\* Mutant: it reads on until the stream ends.
ReadNone_More ==
    /\ stage = "parse" /\ ~Complete(rbuf)
    /\ stage' = IF rbuf = <<>> /\ net = "eof" THEN "values" ELSE "read"
    /\ UNCHANGED <<appl, net, wire, rbuf, recs, kvs, max_cons, max_req_per_con, seen>>

\* Record::read returns None.  Without a rest send_and_receive is done, whatever
\* may still come; with one it reads on behind it.
ReadNone ==
    /\ stage = "parse" /\ ~Complete(rbuf)
    /\ stage' = IF rbuf = <<>> THEN "values" ELSE "read"
    /\ UNCHANGED <<appl, net, wire, rbuf, recs, kvs, max_cons, max_req_per_con, seen>>

\* The next record; other than GetValuesResult it is skipped.
NextRecord ==
    /\ stage = "values" /\ Len(seen) < Len(recs)
    /\ LET r == recs[Len(seen) + 1]
       IN  kvs' = IF r.type = GetValuesResult THEN r.body ELSE <<>>
    /\ seen' = Append(seen, <<>>)
    /\ stage' = "pairs"
    /\ UNCHANGED <<appl, net, wire, rbuf, recs, max_cons, max_req_per_con>>

\* parse_int gave a number, or the limit stays as it is.
Chosen(now, new) == IF new = {} THEN now ELSE CHOOSE v \in new : TRUE

\* The application does not multiplex.
NoMultiplex(p) == p.name = MPXS_CONNS /\ p.value = <<0>>

MaxCons(p) ==
    IF p.name = MAX_CONNS THEN Chosen(max_cons, ParseInt(p.value, U8)) ELSE max_cons

MaxReqPerCon(p) ==
    CASE p.name = MAX_REQS -> Chosen(max_req_per_con, ParseInt(p.value, U16))
      [] NoMultiplex(p)    -> 1
      [] OTHER             -> max_req_per_con

\* Mutant: the loop goes on behind MPXS_CONNS=0.
Behind_NoBreak(p) == Rest(kvs)

\* MPXS_CONNS=0 breaks out of the pairs of this record.
Behind(p) == IF NoMultiplex(p) THEN <<>> ELSE Rest(kvs)

\* NVDrain::next and the match on the name
NextPair ==
    /\ stage = "pairs" /\ kvs # <<>> /\ Parsable(kvs)
    /\ LET p == Parse(kvs)
       IN  /\ max_cons' = MaxCons(p)
           /\ max_req_per_con' = MaxReqPerCon(p)
           /\ kvs' = Behind(p)
           /\ seen' = [seen EXCEPT ![Len(seen)] = Append(@, p)]
    /\ UNCHANGED <<appl, net, wire, stage, rbuf, recs>>

\* "might panic"
PairPanic ==
    /\ stage = "pairs" /\ kvs # <<>> /\ ~Parsable(kvs)
    /\ stage' = "panic"
    /\ UNCHANGED <<appl, net, wire, rbuf, recs, kvs, max_cons, max_req_per_con, seen>>

EndPairs ==
    /\ stage = "pairs" /\ kvs = <<>>
    /\ stage' = "values"
    /\ UNCHANGED <<appl, net, wire, rbuf, recs, kvs, max_cons, max_req_per_con, seen>>

\* Connection::connect_with_strategy with what was negotiated
Open ==
    /\ stage = "values" /\ Len(seen) = Len(recs)
    /\ stage' \in {"ready", "failed"}
    /\ UNCHANGED <<appl, net, wire, rbuf, recs, kvs, max_cons, max_req_per_con, seen>>

NewWithStrategy == Connect \/ Query \/ ReadBuf \/ ReadFail \/ ReadRecord \/ ReadNone \/ NextRecord
                   \/ NextPair \/ PairPanic \/ EndPairs \/ Open

Next == App \/ AppClose \/ AppReset \/ NewWithStrategy

\* The client is polled, the application writes its answer and the socket delivers
\* it.  Nobody has to close.
Spec == Init /\ [][Next]_vars /\ WF_vars(App) /\ WF_vars(NewWithStrategy)

-----------------------------------------------------------------------------
(* Properties *)

\* The length a record announces is the length of what NVBody collected, and a
\* record can hold it, whatever lengths names and values have.
LengthsAgree ==
    \A i \in DOMAIN bodies :
        bodies[i].len = Remaining(bodies[i].pairs) /\ bodies[i].len <= MAX_LENGTH

\* The pairs of the answer that went into record i, in order.
Sent(i) == [j \in 1 .. Cardinality({n \in DOMAIN place : place[n] = i}) |->
               answer[j + Cardinality({n \in DOMAIN place : place[n] < i})]]

\* What the client takes from a record are the pairs the application put into it,
\* in order and none of another record, however the bytes were cut.
RoundTrip ==
    \A i \in DOMAIN seen : recs[i].type = GetValuesResult => IsPrefix(seen[i], Sent(i))

\* Pairs of the records that were read, and those of them that state a limit as a
\* number of the right size.
Told == {n \in DOMAIN place : place[n] <= Len(recs)}
Stating(name, limit) ==
    {n \in Told : answer[n].name = name /\ ParseInt(answer[n].value, limit) # {}}

\* The limit pair n states, and the one the last of the pairs S states; one without any.
Limit(n)      == Number(Unsigned(answer[n].value))
LastStated(S) == IF S = {} THEN 1 ELSE Limit(Max(S))

\* What a new pool may rely on.  If the application multiplexes, or does not say, the
\* limits are the last it stated, and one where it stated none, in all records that
\* were read and however they were cut.  If it says that it does not multiplex there
\* is one request at a time, wherever in its record it says so; only MAX_REQS in a
\* later record takes this back.  MAX_CONNS is never made up.
Negotiated ==
    stage = "ready" =>
        /\ (\A n \in Told : ~NoMultiplex(answer[n])) =>
               /\ max_cons = LastStated(Stating(MAX_CONNS, U8))
               /\ max_req_per_con = LastStated(Stating(MAX_REQS, U16))
        /\ \A n \in Told :
              NoMultiplex(answer[n]) /\ (\A m \in Stating(MAX_REQS, U16) : place[m] <= place[n])
                  => max_req_per_con = 1
        /\ max_cons = 1 \/ \E n \in Stating(MAX_CONNS, U8) : max_cons = Limit(n)

\* Only a name or value that is too long for a one-byte length panics.
PanicOnlyIfLong ==
    stage = "panic" =>
        \E n \in 1 .. added : Len(answer[n].name) >= HALF \/ Len(answer[n].value) >= HALF

\* The application does not get its answer out: a pair that is too large, or an
\* empty name, on which the copy loop of BufList spins.
Mute == role = "panic" \/ (role = "copy" /\ Remaining(bufs) > 0 /\ FirstBuf(bufs) = <<>>)

\* The stream ended inside a record; send_and_receive reads nothing forever.
Truncated == stage \in {"read", "parse"} /\ net = "eof" /\ wire = <<>> /\ rbuf # <<>>

\* new_with_strategy comes to an end, however the answer is cut, unless the
\* application is mute or goes away inside a record.
Returns == <>(stage \in {"ready", "failed", "panic"} \/ Truncated \/ Mute)
=============================================================================
