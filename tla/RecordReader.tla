---------------------------- MODULE RecordReader ----------------------------
(***************************************************************************)
(* From bytes to records: fastcgi::RecordReader::read, driven by the read  *)
(* half of InnerConnection::poll_resp over tokio's BufReader.              *)
(*                                                                         *)
(* The application writes the records of a stream; its bytes arrive in     *)
(* pieces.  A byte is known by its position in the stream, so state is     *)
(* positions only: what arrived, what the BufReader holds (pos .. cap),    *)
(* how far parse_and_distribute got (dpos).  rec and base say which record *)
(* really is next in the stream and where it starts; the parser does not   *)
(* know them, the properties compare them with what it does.               *)
(***************************************************************************)
EXTENDS Integers, Sequences

CONSTANTS
    HEADER_LEN,  \* bytes of a record header (8)
    END_LEN,     \* bytes of an EndRequest body (8)
    BufCap,      \* capacity of the BufReader (8 KiB)
    Streams,     \* the streams of records the application may write
    Cuts,        \* where a piece may end, besides the end of a record:
                 \* "header", "content", "padding" (inside) or "nopad" (before padding)
    NoHeader     \* RecordReader.current is None

Record == [type : {"stdout", "stderr", "end"}, content : Nat, padding : Nat]

ASSUME LengthAssumption == HEADER_LEN \in Nat \ {0} /\ END_LEN \in Nat /\ BufCap \in Nat \ {0}
ASSUME StreamAssumption == Streams \subseteq Seq(Record)
ASSUME NoHeaderAssumption == NoHeader \notin Record

VARIABLES
    recs,     \* the stream being written
    arec,     \* record the application is writing
    aoff,     \* bytes of it that arrived
    arrived,  \* bytes that arrived at the socket
    eof,      \* the application closed the connection
    pos, cap, \* the BufReader holds the bytes from pos up to cap
    phase,    \* "idle", "parse" (in parse_and_distribute) or "panic"
    dpos,     \* next byte of data in parse_and_distribute
    current,  \* RecordReader.current: header with what is left of its record
    last,     \* what poll_resp returned last
    out,      \* record fragments returned by RecordReader::read
    rec, base \* history: the record that dpos is in, and its position

stream == <<recs, arec, aoff, arrived, eof>>
reader == <<pos, cap>>
vars   == <<stream, reader, phase, dpos, current, last, out, rec, base>>

Size(r) == HEADER_LEN + r.content + r.padding
Remaining == cap - dpos

TypeOK ==
    /\ recs \in Streams
    /\ arec \in Nat \ {0} /\ aoff \in Nat /\ arrived \in Nat /\ eof \in BOOLEAN
    /\ pos \in Nat /\ cap \in Nat /\ dpos \in Nat
    /\ phase \in {"idle", "parse", "panic"}
    /\ current \in Record \cup {NoHeader}
    /\ last \in {"none", "ok", "pending", "closed"}
    /\ out \in Seq([rec : Nat, type : {"stdout", "stderr", "end"}, from : Int, to : Int])
    /\ rec \in Nat \ {0} /\ base \in Nat

Init ==
    /\ recs \in Streams
    /\ arec = 1 /\ aoff = 0 /\ arrived = 0 /\ eof = FALSE
    /\ pos = 0 /\ cap = 0 /\ dpos = 0
    /\ phase = "idle"
    /\ current = NoHeader
    /\ last = "none"
    /\ out = <<>>
    /\ rec = 1 /\ base = 0

-----------------------------------------------------------------------------
(* The socket: the next n bytes of the stream arrive *)

Place(off, r) ==
    CASE off < HEADER_LEN                                -> "header"
      [] off >= HEADER_LEN /\ off < HEADER_LEN + r.content  -> "content"
      [] off = HEADER_LEN + r.content                       -> "nopad"
      [] OTHER                                              -> "padding"

Arrive ==
    /\ ~eof /\ arec <= Len(recs)
    /\ \E n \in 1 .. Size(recs[arec]) - aoff :
          /\ arrived' = arrived + n
          /\ IF aoff + n = Size(recs[arec])
             THEN arec' = arec + 1 /\ aoff' = 0
             ELSE arec' = arec /\ aoff' = aoff + n /\ Place(aoff + n, recs[arec]) \in Cuts
    /\ UNCHANGED <<recs, eof, reader, phase, dpos, current, last, out, rec, base>>

CloseStream ==
    /\ ~eof /\ arec > Len(recs)
    /\ eof' = TRUE
    /\ UNCHANGED <<recs, arec, aoff, arrived, reader, phase, dpos, current, last, out, rec, base>>

-----------------------------------------------------------------------------
(* poll_resp: poll_fill_buf, parse_and_distribute, consume *)

\* A BufReader that holds something returns that; an empty one is filled with
\* what arrived, up to its capacity.
Fill ==
    /\ phase = "idle"
    /\ pos < cap \/ arrived > cap
    /\ cap' = IF pos < cap THEN cap
              ELSE IF arrived - cap <= BufCap THEN arrived ELSE cap + BufCap
    /\ dpos' = pos
    /\ phase' = "parse"
    /\ UNCHANGED <<stream, pos, current, last, out, rec, base>>

\* Nothing there: Pending, or zero bytes at the end of the stream.
FillEmpty ==
    /\ phase = "idle" /\ pos = cap /\ arrived = cap
    /\ last' = IF eof THEN "closed" ELSE "pending"
    /\ UNCHANGED <<stream, reader, phase, dpos, current, out, rec, base>>

\* read returned None: consume what was used; if that is nothing, the
\* connection is taken for closed.
Done ==
    /\ pos' = dpos
    /\ last' = IF dpos = pos THEN "closed" ELSE "ok"
    /\ phase' = "idle"
    /\ UNCHANGED <<stream, cap, dpos, current, out, rec, base>>

-----------------------------------------------------------------------------
(* RecordReader::read, called until it returns None *)


\* The data holds a whole header.
HeaderFits == Remaining >= HEADER_LEN

\* Header::parse reads whatever is there as a header.
ReadHeader ==
    /\ phase = "parse" /\ current = NoHeader /\ HeaderFits
    /\ rec <= Len(recs)
    /\ IF dpos = base THEN current' = recs[rec]
                      ELSE current' \in {recs[i] : i \in DOMAIN recs}
    /\ dpos' = dpos + HEADER_LEN
    /\ UNCHANGED <<stream, reader, phase, last, out, rec, base>>

\* Record::parse_body: an EndRequest shorter than its body panics.
Emit(n) ==
    /\ out' = Append(out, [rec |-> rec, type |-> current.type,
                           from |-> dpos - base - HEADER_LEN,
                           to |-> dpos + n - base - HEADER_LEN])
    /\ phase' = IF current.type = "end" /\ n < END_LEN THEN "panic" ELSE "parse"

\* Mutant: what was handed out is still expected.
ReadFragment_NoCount ==
    /\ phase = "parse" /\ current # NoHeader
    /\ Remaining < current.content /\ Remaining > 0
    /\ Emit(Remaining)
    /\ current' = current
    /\ dpos' = cap
    /\ UNCHANGED <<stream, reader, last, rec, base>>

\* Mutant: the rest is one byte too short.
ReadFragment_Short ==
    /\ phase = "parse" /\ current # NoHeader
    /\ Remaining <= current.content /\ Remaining > 0
    /\ Emit(Remaining)
    /\ current' = [current EXCEPT !.content = @ - Remaining - 1]
    /\ dpos' = cap
    /\ UNCHANGED <<stream, reader, last, rec, base>>

\* Not all of the content is there: hand out what is.
ReadFragment ==
    /\ phase = "parse" /\ current # NoHeader
    /\ Remaining < current.content /\ Remaining > 0
    /\ Emit(Remaining)
    /\ current' = [current EXCEPT !.content = @ - Remaining]
    /\ dpos' = cap
    /\ UNCHANGED <<stream, reader, last, rec, base>>

\* Mutant: the missing padding is forgotten.
ReadNoPadding_Forget ==
    /\ phase = "parse" /\ current # NoHeader
    /\ current.content > 0 /\ Remaining >= current.content
    /\ Remaining - current.content < current.padding
    /\ Emit(current.content)
    /\ current' = NoHeader
    /\ dpos' = dpos + current.content
    /\ UNCHANGED <<stream, reader, last, rec, base>>

\* The content is there, the padding is not: hand out and remember the padding.
ReadNoPadding ==
    /\ phase = "parse" /\ current # NoHeader
    /\ current.content > 0 /\ Remaining >= current.content
    /\ Remaining - current.content < current.padding
    /\ Emit(current.content)
    /\ current' = [current EXCEPT !.content = 0]
    /\ dpos' = dpos + current.content
    /\ UNCHANGED <<stream, reader, last, rec, base>>

\* The rest of the record is there.
ReadWhole ==
    /\ phase = "parse" /\ current # NoHeader
    /\ Remaining >= current.content + current.padding
    /\ Emit(current.content)
    /\ current' = NoHeader
    /\ dpos' = dpos + current.content + current.padding
    /\ rec' = rec + 1
    /\ base' = IF rec <= Len(recs) THEN base + Size(recs[rec]) ELSE base
    /\ UNCHANGED <<stream, reader, last>>

\* None: not a whole header, no content, or only part of the padding.
ReadNone ==
    /\ phase = "parse"
    /\ \/ current = NoHeader /\ ~HeaderFits
       \/ current # NoHeader /\ current.content > 0 /\ Remaining = 0
       \/ current # NoHeader /\ current.content = 0 /\ Remaining < current.padding
    /\ Done

Read == ReadHeader \/ ReadFragment \/ ReadNoPadding \/ ReadWhole \/ ReadNone

Next == Arrive \/ CloseStream \/ Fill \/ FillEmpty \/ Read

\* Everything arrives and poll_resp is called while there is something to read.
Spec == Init /\ [][Next]_vars /\ WF_vars(Arrive) /\ WF_vars(Fill) /\ WF_vars(Read)

-----------------------------------------------------------------------------
(* Properties *)

\* However the bytes are cut, the parser is in step with the stream: it takes a
\* header only from where a record starts, and a header it remembers is what
\* is left of the record it is in.
InStep ==
    IF current = NoHeader
    THEN dpos = base
    ELSE /\ rec \in DOMAIN recs
         /\ current.type = recs[rec].type /\ current.padding = recs[rec].padding
         /\ current.content <= recs[rec].content
         /\ dpos = base + HEADER_LEN + recs[rec].content - current.content

\* What read returns is the content of the records, each byte once and in
\* order, and neither header nor padding.
Reassembled ==
    /\ out # <<>> => out[1].rec = 1 /\ out[1].from = 0
    /\ \A i \in DOMAIN out : out[i].rec \in DOMAIN recs /\ out[i].from <= out[i].to
                             /\ out[i].to <= recs[out[i].rec].content
    /\ \A i \in DOMAIN out : i + 1 \in DOMAIN out =>
          \/ out[i + 1].rec = out[i].rec /\ out[i + 1].from = out[i].to
          \/ /\ out[i + 1].rec = out[i].rec + 1 /\ out[i + 1].from = 0
             /\ out[i].to = recs[out[i].rec].content

\* Only an EndRequest panics, and only one that came in more than one piece or is
\* too short as it was sent: output is never taken for the end of a request.
PanicOnlyIfCut ==
    phase = "panic" =>
        LET l == out[Len(out)]
            r == recs[l.rec]
        IN  r.type = "end" /\ (l.to - l.from < r.content \/ r.content < END_LEN)

\* The BufReader ended inside a header, or inside the padding behind content that was
\* handed out: the rest stays in it and the connection counts as closed for good.
GaveUp ==
    /\ phase = "idle" /\ last = "closed" /\ pos < cap
    /\ IF current = NoHeader THEN cap - pos < HEADER_LEN
                             ELSE current.content = 0 /\ cap - pos < current.padding


\* Violated: poll_resp shall "return None if the connection was closed".
NoneMeansClosed == last = "closed" => eof /\ cap = arrived
=============================================================================
