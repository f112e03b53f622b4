----------------------------- MODULE FCGIWriter -----------------------------
(***************************************************************************)
(* From streams to records: codec::FCGIWriter and the loop of              *)
(* Connection::send_body around it.                                        *)
(*                                                                         *)
(*   "kv"    NameValuePairWriter (and encode_data): every piece goes       *)
(*           through append_to_stream, flush calls end_stream;             *)
(*   "data"  data_stream: the same, with an announced length;              *)
(*   "chunk" send_body: every piece of the body is written at once by      *)
(*           flush_data_chunk;                                             *)
(*   "fixed" encode of BeginRequest and EndRequest, one record.            *)
(*                                                                         *)
(* A byte is known by its position in the stream the caller writes.  The   *)
(* buffer holds the bytes from head on behind room for a header; val bytes *)
(* of the current piece, from position pos on, are still to be taken.      *)
(***************************************************************************)
EXTENDS Integers, Sequences

CONSTANTS
    HEADER_LEN,   \* bytes of a record header (8)
    ALIGN,        \* records are padded to a multiple of this (8)
    BUF_LEN,      \* one record without padding, plus a header (65536)
    FIXED_LEN,    \* content of BeginRequest and EndRequest (8)
    WORD,         \* 2^w, for the w bits of usize
    Jobs          \* what may be written

\* Pieces whose number is in bad arrive as an error of the body.
Job == [kind : {"kv", "data", "chunk", "fixed"}, pieces : Seq(Nat), bad : SUBSET Nat,
        announced : 0 .. WORD - 1]

ASSUME LengthAssumption ==
    /\ HEADER_LEN \in Nat \ {0} /\ ALIGN \in Nat \ {0} /\ WORD \in Nat \ {0}
    /\ BUF_LEN \in Nat /\ BUF_LEN > HEADER_LEN
    /\ (BUF_LEN - HEADER_LEN) % ALIGN = 0
    /\ FIXED_LEN \in 1 .. BUF_LEN - HEADER_LEN /\ FIXED_LEN % ALIGN = 0

\* A fixed record is all there is to write.
ASSUME JobAssumption ==
    Jobs \subseteq Job /\ \A j \in Jobs : j.kind = "fixed" => j.pieces = <<>>

VARIABLES
    job,     \* what is written
    next,    \* index of the next piece
    val,     \* bytes of the current piece that are left
    pos,     \* position of the first of them
    len,     \* buf.len(), the reserved header included
    cap,     \* bytes allocated from the start of buf on
    head,    \* position of the first buffered byte
    left,    \* bytes of buf still to write
    due,     \* what is left of the announced length
    phase,   \* where the writer is
    wire     \* records written; bytes counts header, content and padding

vars == <<job, next, val, pos, len, cap, head, left, due, phase, wire>>

Phase  == {"pick", "append", "drain", "part", "chunk", "end", "done", "short", "overrun",
           "failed"}
Record == [type : {"stream", "abort", "fixed"}, content : Nat, padding : Nat, from : Nat, bytes : Nat]
Full   == BUF_LEN - HEADER_LEN

\* Types; the buffer never outgrows BUF_LEN and always has room for its header.
TypeOK ==
    /\ job \in Job
    /\ next \in 1 .. Len(job.pieces) + 1
    /\ val \in Nat /\ pos \in Nat /\ head \in Nat
    /\ len \in HEADER_LEN .. BUF_LEN
    /\ cap \in Int
    /\ left \in 0 .. len
    /\ due \in 0 .. WORD - 1
    /\ phase \in Phase
    /\ wire \in Seq(Record)

Init ==
    /\ job \in Jobs
    /\ next = 1 /\ val = 0 /\ pos = 0
    /\ len = HEADER_LEN /\ cap = BUF_LEN /\ head = 0 /\ left = 0
    /\ due = job.announced
    /\ phase = "pick"
    /\ wire = <<>>

-----------------------------------------------------------------------------
(* Header *)

\* Mutant: padding by what is too much.
Padding_Over(n) == n % ALIGN

\* Header::new
Padding(n) == IF n % ALIGN = 0 THEN 0 ELSE ALIGN - (n % ALIGN)

Header(type, n, from, bytes) ==
    [type |-> type, content |-> n, padding |-> Padding(n), from |-> from, bytes |-> bytes]

\* A record written in one go, with its padding.
Whole(type, n, from) == Header(type, n, from, HEADER_LEN + n + Padding(n))

\* n more bytes of the last record.
More(n) == [wire EXCEPT ![Len(wire)].bytes = @ + n]

-----------------------------------------------------------------------------
(* append_to_stream *)

\* The next piece: a value of a pair, or a chunk of the body.  data_stream
\* subtracts its length saturating, send_body with the wrap of a release build
\* after it has skipped empty chunks.
NextPiece ==
    /\ phase = "pick" /\ next <= Len(job.pieces) /\ next \notin job.bad
    /\ LET n == job.pieces[next]
       IN  /\ val' = n
           /\ due' = CASE job.kind = "kv"    -> due
                       [] job.kind = "data"  -> IF n > due THEN 0 ELSE due - n
                       [] job.kind = "chunk" -> (due - n) % WORD
           /\ phase' = CASE job.kind # "chunk" -> "append"
                         [] OTHER              -> IF n = 0 THEN "pick" ELSE "chunk"
    /\ next' = next + 1
    /\ UNCHANGED <<job, pos, len, cap, head, left, wire>>

\* Mutant: a piece that did not arrive counts.
BadPiece_Counted ==
    /\ phase = "pick" /\ next <= Len(job.pieces) /\ next \in job.bad
    /\ due' = IF job.pieces[next] > due THEN 0 ELSE due - job.pieces[next]
    /\ next' = next + 1
    /\ UNCHANGED <<job, val, pos, len, cap, head, left, phase, wire>>

\* An error of the body is ignored; its loop goes on with the next piece.
BadPiece ==
    /\ phase = "pick" /\ next <= Len(job.pieces) /\ next \in job.bad
    /\ next' = next + 1
    /\ UNCHANGED <<job, val, pos, len, cap, head, left, due, phase, wire>>

\* The piece does not fit: a full record is made of the buffer and a part of it.
WriteFull ==
    /\ phase = "append" /\ len + val > BUF_LEN
    /\ wire' = Append(wire, Header("stream", Full, head, 0))
    /\ left' = len
    /\ phase' = "drain"
    /\ UNCHANGED <<job, next, val, pos, len, cap, head, due>>

\* write_whole_buf(buf): a write takes some bytes, and BytesMut::advance gives
\* up their space; some versions of it keep the space if nothing is left.
Drain ==
    /\ phase = "drain"
    /\ \E n \in 1 .. left :
          /\ wire' = More(n)
          /\ left' = left - n
          /\ cap' \in {cap - n} \cup (IF n = left THEN {cap} ELSE {})
          /\ phase' = IF n = left THEN "part" ELSE "drain"
    /\ UNCHANGED <<job, next, val, pos, len, head, due>>

\* Mutant: the part goes out, and stays in the piece.
WritePart_Keep ==
    /\ phase = "part"
    /\ wire' = More(BUF_LEN - len)
    /\ len' = HEADER_LEN /\ head' = pos
    /\ phase' = IF cap < HEADER_LEN THEN "overrun" ELSE "append"
    /\ UNCHANGED <<job, next, val, pos, cap, left, due>>

\* The part of the piece that fills the record.  Then set_len reserves room for
\* the next header in what is left of the allocation, unchecked.
WritePart ==
    /\ phase = "part"
    /\ LET n == BUF_LEN - len
       IN  /\ wire' = More(n)
           /\ val' = val - n /\ pos' = pos + n /\ head' = pos + n
    /\ len' = HEADER_LEN
    /\ phase' = IF cap < HEADER_LEN THEN "overrun" ELSE "append"
    /\ UNCHANGED <<job, next, cap, left, due>>

\* Mutant: the buffer takes whatever comes.
Buffer_Unchecked ==
    /\ phase = "append"
    /\ len' = len + val
    /\ cap' \in IF cap >= len + val THEN {cap} ELSE {len + val, BUF_LEN}
    /\ pos' = pos + val /\ val' = 0
    /\ phase' = "pick"
    /\ UNCHANGED <<job, next, head, left, due, wire>>

\* buf.put(val) grows the allocation if it has to.
Buffer ==
    /\ phase = "append" /\ len + val <= BUF_LEN
    /\ len' = len + val
    /\ cap' \in IF cap >= len + val THEN {cap} ELSE {len + val, BUF_LEN}
    /\ pos' = pos + val /\ val' = 0
    /\ phase' = "pick"
    /\ UNCHANGED <<job, next, head, left, due, wire>>

-----------------------------------------------------------------------------
(* flush_data_chunk *)

ChunkFull ==
    /\ phase = "chunk" /\ val > Full
    /\ wire' = Append(wire, Whole("stream", Full, pos))
    /\ val' = val - Full /\ pos' = pos + Full
    /\ UNCHANGED <<job, next, len, cap, head, left, due, phase>>

\* Mutant: a chunk that fills its records is followed by an empty one.
ChunkLast_Exact ==
    /\ phase = "chunk" /\ val <= Full
    /\ wire' = IF val = Full
               THEN wire \o <<Whole("stream", val, pos), Whole("stream", 0, pos + val)>>
               ELSE Append(wire, Whole("stream", val, pos))
    /\ val' = 0 /\ pos' = pos + val
    /\ phase' = "pick"
    /\ UNCHANGED <<job, next, len, cap, head, left, due>>

ChunkLast ==
    /\ phase = "chunk" /\ val <= Full
    /\ wire' = Append(wire, Whole("stream", val, pos))
    /\ val' = 0 /\ pos' = pos + val
    /\ phase' = "pick"
    /\ UNCHANGED <<job, next, len, cap, head, left, due>>

-----------------------------------------------------------------------------
(* The end of the stream *)

AllTaken == phase = "pick" /\ next > Len(job.pieces) /\ job.kind # "fixed"

\* Mutant: a stream longer than announced counts as short.
TooShort_Differs == job.kind # "kv" /\ due # job.announced

\* Less came than announced.
TooShort == job.kind # "kv" /\ due > 0

\* AbortRequest and an error; what is buffered is dropped.
Abort ==
    /\ AllTaken /\ TooShort
    /\ wire' = Append(wire, Whole("abort", 0, pos))
    /\ phase' = "short"
    /\ UNCHANGED <<job, next, val, pos, len, cap, head, left, due>>

\* end_stream: what is buffered, with padding.
WriteRest ==
    /\ AllTaken /\ ~TooShort
    /\ wire' = IF len > HEADER_LEN
               THEN Append(wire, Whole("stream", len - HEADER_LEN, head))
               ELSE wire
    /\ head' = pos /\ len' = HEADER_LEN
    /\ phase' = "end"
    /\ UNCHANGED <<job, next, val, pos, cap, left, due>>

\* The empty record that ends a stream.
WriteEnd ==
    /\ phase = "end"
    /\ wire' = Append(wire, Whole("stream", 0, pos))
    /\ phase' = "done"
    /\ UNCHANGED <<job, next, val, pos, len, cap, head, left, due>>

\* encode of BeginRequest and EndRequest: their body is written without padding.
WriteFixed ==
    /\ phase = "pick" /\ job.kind = "fixed"
    /\ wire' = Append(wire, Header("fixed", FIXED_LEN, pos, HEADER_LEN + FIXED_LEN))
    /\ phase' = "done"
    /\ UNCHANGED <<job, next, val, pos, len, cap, head, left, due>>

\* A write fails and the call returns, with its buffer and the rest of the piece.
WriteFail ==
    /\ \/ phase \in {"drain", "part", "chunk", "end"}
       \/ AllTaken
       \/ phase = "pick" /\ job.kind = "fixed"
    /\ phase' = "failed"
    /\ UNCHANGED <<job, next, val, pos, len, cap, head, left, due, wire>>

Next == NextPiece \/ BadPiece \/ WriteFull \/ Drain \/ WritePart \/ Buffer \/ ChunkFull \/ ChunkLast
        \/ Abort \/ WriteRest \/ WriteEnd \/ WriteFixed \/ WriteFail

Spec == Init /\ [][Next]_vars

-----------------------------------------------------------------------------
(* Properties *)

\* The application can tell the records apart: each has as many bytes as its
\* header says, however the writes were cut, and is padded to the alignment.
\* Only the last may still be under way, or cut by an error of the connection.
Framed ==
    \A i \in DOMAIN wire :
        /\ wire[i].content <= Full
        /\ (wire[i].content + wire[i].padding) % ALIGN = 0
        /\ \/ wire[i].bytes = HEADER_LEN + wire[i].content + wire[i].padding
           \/ i = Len(wire) /\ phase \in {"drain", "part", "failed"}

\* Nothing of the stream is lost, repeated or reordered: the contents of the
\* records are consecutive and what is neither written nor dropped with a failed
\* stream is in the buffer or still in the piece.
Consecutive ==
    /\ (wire # <<>> /\ wire[1].type = "stream") => wire[1].from = 0
    /\ \A i \in DOMAIN wire : i + 1 \in DOMAIN wire /\ wire[i + 1].type = "stream" =>
          wire[i + 1].from = wire[i].from + wire[i].content
    /\ (phase = "done" /\ job.kind # "fixed") => wire[Len(wire)].from = pos /\ val = 0

\* An empty record ends a stream, so there is none before the end: not for empty
\* pieces, nor behind a piece that fills its records.
EmptyIsEnd ==
    \A i \in DOMAIN wire : wire[i].content = 0 => i = Len(wire) /\ phase \in {"done", "short"}

\* The sum of the numbers in s.
Total(s) ==
    LET sum[n \in 0 .. Len(s)] == IF n = 0 THEN 0 ELSE sum[n - 1] + s[n]
    IN  sum[Len(s)]

\* Bytes of a body that really came.
Came == Total([i \in DOMAIN job.pieces |-> IF i \in job.bad THEN 0 ELSE job.pieces[i]])

\* "CGI1.1 4.2 -> at least content-length data": only a stream of which less came
\* than announced is aborted.
AbortOnlyIfShort ==
    phase = "short" => Came < job.announced

\* A body that is ended rather than aborted carries at least the announced length,
\* also if parts of it failed to arrive: as many bytes lie before the empty record
\* that ends it.
EndMeansWhole ==
    (phase = "done" /\ job.kind \in {"data", "chunk"}) =>
        wire[Len(wire)].from >= job.announced
=============================================================================
