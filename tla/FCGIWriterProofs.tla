-------------------------- MODULE FCGIWriterProofs --------------------------
(***************************************************************************)
(* The records FCGIWriter writes can be told apart and carry the stream    *)
(* without a gap: proofs for every job, every buffer size and every way    *)
(* the writes of a full record may be cut.                                 *)
(***************************************************************************)
EXTENDS FCGIWriter, TLAPS, WellFoundedInduction

Final == wire[Len(wire)]

\* Between two records of a stream: nothing of one is still to be written.
Between == {"pick", "append", "chunk", "end", "overrun"}

\* The first position of the stream that is in no record yet.
Start == IF job.kind = "chunk" THEN pos ELSE head

\* What the phases say about the job and the piece.
PhaseInv ==
    /\ job.kind = "fixed" => job.pieces = <<>>
    /\ phase \in {"pick", "end", "done", "short"} => val = 0
    /\ phase \in {"append", "drain", "part", "overrun"} => job.kind \in {"kv", "data"}
    /\ phase \in {"chunk", "end"} => job.kind # "fixed"
    /\ phase = "chunk" => val > 0 /\ job.kind = "chunk"
    /\ phase \in {"drain", "part"} => len + val > BUF_LEN

\* The buffer holds what lies between the last record and the piece; a body that
\* is written chunk by chunk leaves it empty.
BufferInv ==
    /\ job.kind = "chunk" => len = HEADER_LEN
    /\ job.kind # "chunk" => head + (len - HEADER_LEN) = pos
    /\ phase = "end" => head = pos
    /\ phase = "drain" => left > 0
    /\ phase \notin {"drain", "failed"} => left = 0

\* The last record: complete and followed by Start between two records, else a
\* full one of which len - left bytes are out.
FinalInv ==
    /\ phase \in Between => IF wire = <<>> THEN Start = 0
                            ELSE Final.type = "stream" /\ Final.from + Final.content = Start
    /\ phase \in {"drain", "part"} =>
          /\ wire # <<>>
          /\ Final.type = "stream" /\ Final.content = Full /\ Final.padding = 0
          /\ Final.from = head /\ Final.bytes = len - left

\* The inductive invariant: the properties, and how the buffer, the piece and
\* the last record fit together.
WriterInv ==
    TypeOK /\ PhaseInv /\ BufferInv /\ FinalInv /\ Framed /\ Consecutive /\ EmptyIsEnd

-----------------------------------------------------------------------------
(* Facts about headers and records *)

\* Rounding up to a multiple of b.
LEMMA RoundUp ==
    ASSUME NEW b \in Nat \ {0}, NEW n \in Nat
    PROVE  (n + (b - (n % b))) % b = 0
OBVIOUS

\* A remainder is smaller than its divisor, of a negative number too.
LEMMA Remainder ==
    ASSUME NEW b \in Nat \ {0}, NEW n \in Int
    PROVE  n % b \in 0 .. b - 1
OBVIOUS

\* Header::new pads to the alignment, by less than one unit.
LEMMA PaddingAligns ==
    ASSUME NEW n \in Nat
    PROVE  /\ Padding(n) \in 0 .. ALIGN - 1
           /\ (n + Padding(n)) % ALIGN = 0
           /\ n % ALIGN = 0 => Padding(n) = 0
<1>1. ALIGN \in Nat \ {0} /\ n % ALIGN \in 0 .. ALIGN - 1
  BY LengthAssumption
<1>2. CASE n % ALIGN = 0
  BY <1>1, <1>2 DEF Padding
<1>3. CASE n % ALIGN # 0
  <2>1. (n + (ALIGN - (n % ALIGN))) % ALIGN = 0
    BY <1>1, RoundUp
  <2>2. Padding(n) = ALIGN - (n % ALIGN)
    BY <1>1, <1>3 DEF Padding
  <2>3. ALIGN - (n % ALIGN) \in 0 .. ALIGN - 1
    BY <1>1, <1>3
  <2>. QED  BY <1>3, <2>1, <2>2, <2>3
<1>. QED  BY <1>2, <1>3

\* A full record needs no padding, and neither does a fixed one.
LEMMA FullAligned ==
    /\ Full \in Nat \ {0} /\ BUF_LEN = HEADER_LEN + Full
    /\ Padding(Full) = 0 /\ Padding(FIXED_LEN) = 0
    /\ FIXED_LEN \in Nat \ {0} /\ FIXED_LEN <= Full
    /\ HEADER_LEN \in Nat \ {0} /\ BUF_LEN \in Nat
<1>1. /\ Full \in Nat \ {0} /\ BUF_LEN = HEADER_LEN + Full
      /\ FIXED_LEN \in Nat \ {0} /\ FIXED_LEN <= Full
      /\ HEADER_LEN \in Nat \ {0} /\ BUF_LEN \in Nat
  BY LengthAssumption DEF Full
<1>2. Full % ALIGN = 0 /\ FIXED_LEN % ALIGN = 0
  BY LengthAssumption DEF Full
<1>. QED  BY <1>1, <1>2, PaddingAligns

\* A header is well-typed, and its padding aligns its content.
LEMMA HeaderType ==
    ASSUME NEW type \in {"stream", "abort", "fixed"}, NEW n \in Nat, NEW from \in Nat,
           NEW bytes \in Nat, NEW r, r = Header(type, n, from, bytes)
    PROVE  /\ r \in Record
           /\ r.type = type /\ r.content = n /\ r.padding = Padding(n)
           /\ r.from = from /\ r.bytes = bytes
           /\ (r.content + r.padding) % ALIGN = 0
<1>1. Padding(n) \in Nat /\ (n + Padding(n)) % ALIGN = 0
  BY PaddingAligns, LengthAssumption
<1>. QED  BY <1>1 DEF Header, Record

\* The header of a full record, of which nothing is written yet.
LEMMA FullHeader ==
    ASSUME NEW from \in Nat, NEW r, r = Header("stream", Full, from, 0)
    PROVE  /\ r \in Record /\ r.type = "stream" /\ r.content = Full /\ r.padding = 0
           /\ r.from = from /\ r.bytes = 0 /\ (r.content + r.padding) % ALIGN = 0
<1>1. Full \in Nat /\ Padding(Full) = 0
  BY FullAligned
<1>2. (Full + Padding(Full)) % ALIGN = 0
  BY <1>1, PaddingAligns
<1>. QED  BY <1>1, <1>2 DEF Header, Record

\* The header of BeginRequest and EndRequest, whose body needs no padding.
LEMMA FixedHeader ==
    ASSUME NEW from \in Nat, NEW r, r = Header("fixed", FIXED_LEN, from, HEADER_LEN + FIXED_LEN)
    PROVE  /\ r \in Record /\ r.type = "fixed" /\ r.content = FIXED_LEN
           /\ (r.content + r.padding) % ALIGN = 0
           /\ r.bytes = HEADER_LEN + r.content + r.padding
<1>1. FIXED_LEN \in Nat /\ HEADER_LEN \in Nat /\ Padding(FIXED_LEN) = 0
  BY FullAligned
<1>2. (FIXED_LEN + Padding(FIXED_LEN)) % ALIGN = 0
  BY <1>1, PaddingAligns
<1>. QED  BY <1>1, <1>2 DEF Header, Record

\* Whole writes as many bytes as its header announces.
LEMMA WholeType ==
    ASSUME NEW type \in {"stream", "abort", "fixed"}, NEW n \in Nat, NEW from \in Nat,
           NEW r, r = Whole(type, n, from)
    PROVE  /\ r \in Record
           /\ r.type = type /\ r.content = n /\ r.from = from
           /\ (r.content + r.padding) % ALIGN = 0
           /\ r.bytes = HEADER_LEN + r.content + r.padding
<1>. DEFINE p == Padding(n)
<1>1. p \in 0 .. ALIGN - 1 /\ ALIGN \in Nat /\ HEADER_LEN \in Nat
  BY PaddingAligns, LengthAssumption
<1>. HIDE DEF p
<1>3. HEADER_LEN + n + p \in Nat
  BY <1>1
<1>2. r = Header(type, n, from, HEADER_LEN + n + p)
  BY DEF Whole, p
<1>4. /\ r \in Record
      /\ r.type = type /\ r.content = n /\ r.padding = Padding(n)
      /\ r.from = from /\ r.bytes = HEADER_LEN + n + p
      /\ (r.content + r.padding) % ALIGN = 0
  BY <1>2, <1>3, HeaderType
<1>. QED  BY <1>4 DEF p

\* The elements of wire after a record was appended to it.
LEMMA Appended ==
    ASSUME wire \in Seq(Record), NEW r \in Record, wire' = Append(wire, r)
    PROVE  /\ wire' \in Seq(Record) /\ wire' # <<>> /\ Len(wire') = Len(wire) + 1
           /\ wire'[Len(wire')] = r /\ wire'[Len(wire) + 1] = r
           /\ \A i \in 1 .. Len(wire) : wire'[i] = wire[i]
           /\ DOMAIN wire = 1 .. Len(wire) /\ DOMAIN wire' = 1 .. (Len(wire) + 1)
           /\ Len(wire) \in Nat
OBVIOUS

\* The elements of wire after some bytes more of its last record are out.
LEMMA Grown ==
    ASSUME wire \in Seq(Record), wire # <<>>, NEW n \in Nat, wire' = More(n)
    PROVE  /\ wire' \in Seq(Record) /\ wire' # <<>> /\ Len(wire') = Len(wire)
           /\ DOMAIN wire' = DOMAIN wire /\ DOMAIN wire = 1 .. Len(wire)
           /\ Len(wire) \in Nat \ {0}
           /\ \A i \in 1 .. Len(wire) :
                 /\ wire'[i].type = wire[i].type /\ wire'[i].content = wire[i].content
                 /\ wire'[i].padding = wire[i].padding /\ wire'[i].from = wire[i].from
                 /\ wire'[i].bytes = wire[i].bytes + (IF i = Len(wire) THEN n ELSE 0)
<1>. DEFINE m == Len(wire)
<1>1. m \in Nat \ {0} /\ DOMAIN wire = 1 .. m /\ \A i \in 1 .. m : wire[i] \in Record
  OBVIOUS
<1>2. wire' = [wire EXCEPT ![m] = [wire[m] EXCEPT !.bytes = wire[m].bytes + n]]
  BY DEF More
<1>. HIDE DEF m
<1>3. [wire[m] EXCEPT !.bytes = wire[m].bytes + n] \in Record
  <2>1. wire[m] \in Record /\ wire[m].bytes + n \in Nat
    BY <1>1 DEF Record
  <2>. QED  BY <2>1 DEF Record
<1>4. wire' \in [1 .. m -> Record]
  BY <1>1, <1>2, <1>3
<1>5. wire' \in Seq(Record) /\ Len(wire') = m /\ DOMAIN wire' = 1 .. m
  BY <1>1, <1>4
<1>6. ASSUME NEW i \in 1 .. m
      PROVE  /\ wire'[i].type = wire[i].type /\ wire'[i].content = wire[i].content
             /\ wire'[i].padding = wire[i].padding /\ wire'[i].from = wire[i].from
             /\ wire'[i].bytes = wire[i].bytes + (IF i = m THEN n ELSE 0)
  <2>1. CASE i = m
    BY <1>1, <1>2, <2>1 DEF Record
  <2>2. CASE i # m
    BY <1>1, <1>2, <2>2 DEF Record
  <2>. QED  BY <2>1, <2>2
<1>. QED  BY <1>1, <1>5, <1>6 DEF m

-----------------------------------------------------------------------------
(* The properties of what was written, step by step *)

WireInv == wire \in Seq(Record) /\ Framed /\ Consecutive /\ EmptyIsEnd

\* A record is added between two others: it is complete or being written now,
\* carries on where the last one ended, and is empty only at the end.
LEMMA AddRecord ==
    ASSUME WriterInv, phase \in Between, job' = job,
           NEW r \in Record, wire' = Append(wire, r),
           r.content <= Full, (r.content + r.padding) % ALIGN = 0,
           \/ r.bytes = HEADER_LEN + r.content + r.padding
           \/ phase' \in {"drain", "part", "failed"},
           r.type = "stream" => r.from = Start,
           r.content = 0 => phase' \in {"done", "short"},
           phase' = "done" /\ job.kind # "fixed" => r.from = pos' /\ val' = 0
    PROVE  WireInv' /\ wire' # <<>> /\ Final' = r
<1>1. wire \in Seq(Record) /\ FinalInv /\ Framed /\ Consecutive /\ EmptyIsEnd
  BY DEF WriterInv, TypeOK
<1>. DEFINE m == Len(wire)
<1>2. /\ wire' \in Seq(Record) /\ wire' # <<>> /\ Len(wire') = m + 1
      /\ wire'[m + 1] = r /\ Final' = r
      /\ \A i \in 1 .. m : wire'[i] = wire[i]
      /\ DOMAIN wire = 1 .. m /\ DOMAIN wire' = 1 .. (m + 1) /\ m \in Nat
  BY <1>1, Appended DEF Final
<1>. HIDE DEF m
<1>3. phase \notin {"drain", "part", "failed", "done", "short"}
  BY DEF Between
<1>4. Framed'
  <2>. SUFFICES ASSUME NEW i \in 1 .. (m + 1)
                PROVE  /\ wire'[i].content <= Full
                       /\ (wire'[i].content + wire'[i].padding) % ALIGN = 0
                       /\ \/ wire'[i].bytes = HEADER_LEN + wire'[i].content + wire'[i].padding
                          \/ i = m + 1 /\ phase' \in {"drain", "part", "failed"}
    BY <1>2 DEF Framed
  <2>1. CASE i = m + 1
    BY <1>2, <2>1
  <2>2. CASE i \in 1 .. m
    BY <1>1, <1>2, <1>3, <2>2 DEF Framed
  <2>. QED  BY <1>2, <2>1, <2>2
<1>5. Consecutive'
  <2>1. wire'[1].type = "stream" => wire'[1].from = 0
    <3>1. CASE m = 0
      <4>1. wire = <<>>
        BY <1>1, <3>1 DEF m
      <4>. QED  BY <1>1, <1>2, <3>1, <4>1 DEF FinalInv
    <3>2. CASE m > 0
      BY <1>1, <1>2, <3>2 DEF Consecutive, m
    <3>. QED  BY <1>2, <3>1, <3>2
  <2>2. ASSUME NEW i \in 1 .. (m + 1), i + 1 \in 1 .. (m + 1), wire'[i + 1].type = "stream"
        PROVE  wire'[i + 1].from = wire'[i].from + wire'[i].content
    <3>1. CASE i = m
      <4>1. wire # <<>> /\ wire'[i] = Final /\ wire'[i + 1] = r
        BY <1>1, <1>2, <2>2, <3>1 DEF Final, m
      <4>. QED  BY <1>1, <2>2, <4>1 DEF FinalInv
    <3>2. CASE i + 1 \in 1 .. m
      BY <1>1, <1>2, <2>2, <3>2 DEF Consecutive
    <3>. QED  BY <1>2, <2>2, <3>1, <3>2
  <2>3. phase' = "done" /\ job'.kind # "fixed" => wire'[Len(wire')].from = pos' /\ val' = 0
    BY <1>2
  <2>. QED  BY <1>2, <2>1, <2>2, <2>3 DEF Consecutive
<1>6. EmptyIsEnd'
  BY <1>1, <1>2, <1>3 DEF EmptyIsEnd
<1>. QED  BY <1>2, <1>4, <1>5, <1>6 DEF WireInv

\* Nothing is written.
LEMMA KeepRecords ==
    ASSUME WriterInv, wire' = wire, job' = job, phase' # "done",
           phase \in Between \/ (phase \notin {"done", "short"} /\ phase' = "failed")
    PROVE  WireInv'
<1>1. wire \in Seq(Record) /\ Framed /\ Consecutive /\ EmptyIsEnd
  BY DEF WriterInv, TypeOK
<1>2. phase \notin {"done", "short"} /\ (phase \in {"drain", "part", "failed"} => phase' = "failed")
  BY DEF Between
<1>3. Framed'
  BY <1>1, <1>2 DEF Framed
<1>4. Consecutive'
  BY <1>1 DEF Consecutive
<1>5. EmptyIsEnd'
  BY <1>1, <1>2 DEF EmptyIsEnd
<1>. QED  BY <1>1, <1>3, <1>4, <1>5 DEF WireInv

\* More of the last record is written: it is complete once it is left.
LEMMA GrowRecord ==
    ASSUME WriterInv, phase \in {"drain", "part"}, phase' \notin {"done", "failed"}, job' = job,
           NEW n \in Nat, wire' = More(n),
           \/ phase' \in {"drain", "part"}
           \/ Final.bytes + n = HEADER_LEN + Full
    PROVE  /\ WireInv' /\ wire' # <<>>
           /\ Final'.type = "stream" /\ Final'.content = Full /\ Final'.padding = 0
           /\ Final'.from = head /\ Final'.bytes = Final.bytes + n
<1>1. wire \in Seq(Record) /\ FinalInv /\ Framed /\ Consecutive /\ EmptyIsEnd
  BY DEF WriterInv, TypeOK
<1>2. /\ wire # <<>> /\ Final.type = "stream" /\ Final.content = Full /\ Final.padding = 0
      /\ Final.from = head
  BY <1>1 DEF FinalInv
<1>. DEFINE m == Len(wire)
<1>3. /\ wire' \in Seq(Record) /\ wire' # <<>> /\ Len(wire') = m
      /\ DOMAIN wire' = 1 .. m /\ DOMAIN wire = 1 .. m /\ m \in Nat \ {0}
      /\ \A i \in 1 .. m :
            /\ wire'[i].type = wire[i].type /\ wire'[i].content = wire[i].content
            /\ wire'[i].padding = wire[i].padding /\ wire'[i].from = wire[i].from
            /\ wire'[i].bytes = wire[i].bytes + (IF i = m THEN n ELSE 0)
  BY <1>1, <1>2, Grown
<1>4. Final = wire[m] /\ Final' = wire'[m] /\ \A i \in 1 .. m : wire[i] \in Record
  <2>1. \A i \in 1 .. m : wire[i] \in Record
    BY <1>1
  <2>2. Final = wire[m] /\ Final' = wire'[m]
    BY <1>3, Zenon DEF Final
  <2>. QED  BY <2>1, <2>2, Zenon
<1>. HIDE DEF m
<1>5. /\ Final'.type = "stream" /\ Final'.content = Full /\ Final'.padding = 0
      /\ Final'.from = head /\ Final'.bytes = Final.bytes + n
  BY <1>2, <1>3, <1>4
<1>6. Framed'
  <2>. SUFFICES ASSUME NEW i \in 1 .. m
                PROVE  /\ wire'[i].content <= Full
                       /\ (wire'[i].content + wire'[i].padding) % ALIGN = 0
                       /\ \/ wire'[i].bytes = HEADER_LEN + wire'[i].content + wire'[i].padding
                          \/ i = m /\ phase' \in {"drain", "part", "failed"}
    BY <1>3 DEF Framed
  <2>1. wire'[i].content = wire[i].content /\ wire'[i].padding = wire[i].padding
    BY <1>3
  <2>2. wire[i].content <= Full /\ (wire[i].content + wire[i].padding) % ALIGN = 0
    BY <1>1, <1>3 DEF Framed
  <2>3. CASE i = m
    <3>1. Full \in Nat /\ HEADER_LEN \in Nat
      BY FullAligned
    <3>2. phase' \notin {"drain", "part"} => wire'[i].bytes = HEADER_LEN + Full + 0
      BY <1>4, <1>5, <2>3, <3>1
    <3>. QED  BY <1>4, <1>5, <2>1, <2>2, <2>3, <3>2
  <2>4. CASE i # m
    <3>1. wire'[i].bytes = wire[i].bytes + 0 /\ wire[i].bytes \in Nat
      BY <1>3, <1>4, <2>4 DEF Record
    <3>2. wire[i].bytes = HEADER_LEN + wire[i].content + wire[i].padding
      BY <1>1, <1>3, <2>4 DEF Framed, m
    <3>. QED  BY <2>1, <2>2, <3>1, <3>2
  <2>. QED  BY <2>3, <2>4
<1>7. Consecutive'
  <2>1. wire'[1].type = "stream" => wire'[1].from = 0
    BY <1>1, <1>2, <1>3 DEF Consecutive
  <2>2. ASSUME NEW i \in 1 .. m, i + 1 \in 1 .. m, wire'[i + 1].type = "stream"
        PROVE  wire'[i + 1].from = wire'[i].from + wire'[i].content
    BY <1>1, <1>3, <2>2 DEF Consecutive
  <2>. QED  BY <1>3, <2>1, <2>2 DEF Consecutive
<1>8. EmptyIsEnd'
  <2>1. \A i \in 1 .. m : wire[i].content # 0
    BY <1>1, <1>3 DEF EmptyIsEnd
  <2>. QED  BY <1>3, <2>1 DEF EmptyIsEnd
<1>. QED  BY <1>3, <1>5, <1>6, <1>7, <1>8 DEF WireInv

-----------------------------------------------------------------------------
(* The steps *)

\* The parts of the invariant that the steps use, in numbers.
WriterFacts ==
    /\ job \in Job /\ job.pieces \in Seq(Nat) /\ Len(job.pieces) \in Nat
    /\ next \in 1 .. Len(job.pieces) + 1 /\ next \in Nat
    /\ val \in Nat /\ pos \in Nat /\ head \in Nat /\ len \in Nat
    /\ HEADER_LEN <= len /\ len <= BUF_LEN /\ cap \in Int
    /\ left \in 0 .. len /\ left \in Nat /\ due \in 0 .. WORD - 1 /\ phase \in Phase
    /\ wire \in Seq(Record)
    /\ PhaseInv /\ BufferInv /\ FinalInv
    /\ Full \in Nat \ {0} /\ BUF_LEN = HEADER_LEN + Full
    /\ HEADER_LEN \in Nat \ {0} /\ BUF_LEN \in Nat

\* What the proofs below use of the invariant, as facts about numbers.
LEMMA FactsOfInv ==
    ASSUME WriterInv
    PROVE  WriterFacts
<1>1. TypeOK /\ PhaseInv /\ BufferInv /\ FinalInv
  BY DEF WriterInv
<1>2. /\ Full \in Nat \ {0} /\ BUF_LEN = HEADER_LEN + Full
      /\ HEADER_LEN \in Nat \ {0} /\ BUF_LEN \in Nat
  BY FullAligned
<1>3. /\ job \in Job /\ next \in 1 .. Len(job.pieces) + 1
      /\ val \in Nat /\ pos \in Nat /\ head \in Nat /\ cap \in Int
      /\ len \in HEADER_LEN .. BUF_LEN /\ left \in 0 .. len
      /\ due \in 0 .. WORD - 1 /\ phase \in Phase /\ wire \in Seq(Record)
  BY <1>1 DEF TypeOK
<1>4. job.pieces \in Seq(Nat) /\ Len(job.pieces) \in Nat
  BY <1>3 DEF Job
<1>5. len \in Nat /\ HEADER_LEN <= len /\ len <= BUF_LEN
  BY <1>2, <1>3
<1>6. left \in Nat /\ next \in Nat
  BY <1>3, <1>4, <1>5
<1>. QED  BY <1>1, <1>2, <1>3, <1>4, <1>5, <1>6 DEF WriterFacts

\* The next piece of the stream is taken: nothing is written yet, and an empty
\* chunk of a body is skipped.
LEMMA NextPieceInv == WriterInv /\ NextPiece => WriterInv'
<1>. SUFFICES ASSUME WriterInv, NextPiece PROVE WriterInv'
  OBVIOUS
<1>. WriterFacts
  BY FactsOfInv
<1>. USE DEF WriterFacts
<1>. DEFINE n == job.pieces[next]
<1>1. /\ phase = "pick" /\ next <= Len(job.pieces) /\ val' = n /\ next' = next + 1
      /\ UNCHANGED <<job, pos, len, cap, head, left, wire>>
  BY DEF NextPiece
<1>2. n \in Nat
  <2>1. next \in 1 .. Len(job.pieces)
    BY <1>1
  <2>. QED  BY <2>1
<1>3. job.kind \in {"kv", "data", "chunk"}
  <2>1. job.kind \in {"kv", "data", "chunk", "fixed"}
    BY DEF Job
  <2>2. job.pieces # <<>>
    BY <1>1
  <2>. QED  BY <2>1, <2>2 DEF PhaseInv
<1>4. due' \in 0 .. WORD - 1
  <2>1. WORD \in Nat \ {0} /\ due \in Nat /\ due < WORD
    BY LengthAssumption
  <2>2. CASE job.kind = "kv"
    BY <2>2 DEF NextPiece
  <2>3. CASE job.kind = "data"
    <3>1. due' = IF n > due THEN 0 ELSE due - n
      BY <2>3, Zenon DEF NextPiece
    <3>. QED  BY <1>2, <2>1, <3>1
  <2>4. CASE job.kind = "chunk"
    <3>1. due' = (due - n) % WORD
      BY <2>4, Zenon DEF NextPiece
    <3>. HIDE DEF n
    <3>2. due - n \in Int
      BY <1>2, <2>1
    <3>. QED  BY <2>1, <3>1, <3>2, Remainder
  <2>. QED  BY <1>3, <2>2, <2>3, <2>4
<1>5. \/ phase' = "append" /\ job.kind \in {"kv", "data"}
      \/ phase' = "pick" /\ job.kind = "chunk" /\ n = 0
      \/ phase' = "chunk" /\ job.kind = "chunk" /\ n > 0
  <2>1. phase' = CASE job.kind # "chunk" -> "append"
                   [] OTHER              -> IF n = 0 THEN "pick" ELSE "chunk"
    BY DEF NextPiece
  <2>. HIDE DEF n
  <2>2. CASE job.kind = "chunk" /\ n = 0
    BY <2>1, <2>2
  <2>3. CASE job.kind = "chunk" /\ n # 0
    BY <1>2, <2>1, <2>3
  <2>4. CASE job.kind # "chunk"
    BY <1>3, <2>1, <2>4
  <2>. QED  BY <2>2, <2>3, <2>4
<1>. HIDE DEF n
<1>6. TypeOK'
  <2>1. next' \in 1 .. Len(job.pieces) + 1 /\ phase' \in Phase
    BY <1>1, <1>5 DEF Phase
  <2>. QED  BY <1>1, <1>2, <1>4, <2>1 DEF TypeOK
<1>7. PhaseInv'
  BY <1>1, <1>2, <1>5 DEF PhaseInv
<1>8. BufferInv'
  BY <1>1, <1>5 DEF BufferInv
<1>9. FinalInv'
  BY <1>1, <1>5 DEF FinalInv, Final, Start, Between
<1>10. WireInv'
  <2>1. phase \in Between /\ phase' # "done"
    BY <1>1, <1>5 DEF Between
  <2>. QED  BY <1>1, <2>1, KeepRecords
<1>. QED  BY <1>6, <1>7, <1>8, <1>9, <1>10 DEF WriterInv, WireInv

\* send_body skips a piece that is an error; the stream goes on behind it.
LEMMA BadPieceInv == WriterInv /\ BadPiece => WriterInv'
<1>. SUFFICES ASSUME WriterInv, BadPiece PROVE WriterInv'
  OBVIOUS
<1>. WriterFacts
  BY FactsOfInv
<1>. USE DEF WriterFacts
<1>1. /\ phase = "pick" /\ next <= Len(job.pieces) /\ next' = next + 1
      /\ UNCHANGED <<job, val, pos, len, cap, head, left, due, phase, wire>>
  BY DEF BadPiece
<1>2. TypeOK'
  <2>1. next' \in 1 .. Len(job.pieces) + 1
    BY <1>1
  <2>. QED  BY <1>1, <2>1 DEF TypeOK
<1>3. PhaseInv' /\ BufferInv' /\ FinalInv'
  BY <1>1 DEF PhaseInv, BufferInv, FinalInv, Final, Start
<1>4. WireInv'
  <2>1. phase \in Between /\ phase' # "done"
    BY <1>1 DEF Between
  <2>. QED  BY <1>1, <2>1, KeepRecords
<1>. QED  BY <1>2, <1>3, <1>4 DEF WriterInv, WireInv

\* append_to_stream: the buffer cannot take the piece, so a full record is begun,
\* its header first.
LEMMA WriteFullInv == WriterInv /\ WriteFull => WriterInv'
<1>. SUFFICES ASSUME WriterInv, WriteFull PROVE WriterInv'
  OBVIOUS
<1>. WriterFacts
  BY FactsOfInv
<1>. USE DEF WriterFacts
<1>. DEFINE r == Header("stream", Full, head, 0)
<1>1. /\ phase = "append" /\ len + val > BUF_LEN /\ wire' = Append(wire, r)
      /\ left' = len /\ phase' = "drain"
      /\ UNCHANGED <<job, next, val, pos, len, cap, head, due>>
  BY DEF WriteFull
<1>2. /\ r \in Record /\ r.type = "stream" /\ r.content = Full /\ r.padding = 0
      /\ r.from = head /\ r.bytes = 0 /\ (r.content + r.padding) % ALIGN = 0
  BY FullHeader
<1>. HIDE DEF r
<1>3. job.kind \in {"kv", "data"}
  BY <1>1 DEF PhaseInv
<1>4. WireInv' /\ wire' # <<>> /\ Final' = r
  <2>1. phase \in Between /\ Start = head /\ r.content <= Full
    BY <1>1, <1>2, <1>3 DEF Between, Start
  <2>. QED  BY <1>1, <1>2, <2>1, AddRecord
<1>5. TypeOK'
  BY <1>1, <1>4 DEF TypeOK, WireInv, Phase
<1>6. PhaseInv' /\ BufferInv'
  BY <1>1, <1>3 DEF PhaseInv, BufferInv
<1>7. FinalInv'
  BY <1>1, <1>2, <1>4 DEF FinalInv, Between
<1>. QED  BY <1>4, <1>5, <1>6, <1>7 DEF WriterInv, WireInv

\* write_buf takes any part of the full record's buffer, until nothing is left.
LEMMA DrainInv == WriterInv /\ Drain => WriterInv'
<1>. SUFFICES ASSUME WriterInv, Drain PROVE WriterInv'
  OBVIOUS
<1>. WriterFacts
  BY FactsOfInv
<1>. USE DEF WriterFacts
<1>1. PICK n \in 1 .. left :
         /\ wire' = More(n) /\ left' = left - n
         /\ cap' \in {cap - n} \cup (IF n = left THEN {cap} ELSE {})
         /\ phase' = IF n = left THEN "part" ELSE "drain"
  BY DEF Drain
<1>2. phase = "drain" /\ UNCHANGED <<job, next, val, pos, len, head, due>>
  BY DEF Drain
<1>3. n \in Nat /\ left' \in 0 .. len /\ left' = left - n /\ cap' \in Int
  BY <1>1
<1>4. /\ WireInv' /\ wire' # <<>>
      /\ Final'.type = "stream" /\ Final'.content = Full /\ Final'.padding = 0
      /\ Final'.from = head /\ Final'.bytes = Final.bytes + n
  BY <1>1, <1>2, <1>3, GrowRecord
<1>5. TypeOK'
  BY <1>1, <1>2, <1>3, <1>4 DEF TypeOK, WireInv, Phase
<1>6. PhaseInv'
  BY <1>1, <1>2 DEF PhaseInv
<1>7. BufferInv'
  BY <1>1, <1>2, <1>3 DEF BufferInv
<1>8. FinalInv'
  <2>1. Final.bytes = len - left
    BY <1>2 DEF FinalInv
  <2>2. Final'.bytes = len - left'
    BY <1>3, <1>4, <2>1
  <2>. QED  BY <1>1, <1>2, <1>4, <2>2 DEF FinalInv, Between
<1>. QED  BY <1>4, <1>5, <1>6, <1>7, <1>8 DEF WriterInv, WireInv

\* The part of the piece that completes the full record is written from the
\* piece itself, and the buffer starts anew behind it.
LEMMA WritePartInv == WriterInv /\ WritePart => WriterInv'
<1>. SUFFICES ASSUME WriterInv, WritePart PROVE WriterInv'
  OBVIOUS
<1>. WriterFacts
  BY FactsOfInv
<1>. USE DEF WriterFacts
<1>. DEFINE n == BUF_LEN - len
<1>1. /\ phase = "part" /\ wire' = More(n) /\ val' = val - n /\ pos' = pos + n
      /\ head' = pos + n /\ len' = HEADER_LEN
      /\ phase' \in {"overrun", "append"}
      /\ UNCHANGED <<job, next, cap, left, due>>
  BY DEF WritePart
<1>2. job.kind \in {"kv", "data"} /\ left = 0 /\ len + val > BUF_LEN
  BY <1>1 DEF PhaseInv, BufferInv
<1>3. n \in Nat /\ val' \in Nat /\ pos' \in Nat /\ head' \in Nat
  BY <1>1, <1>2
<1>4. Final.bytes = len
  BY <1>1, <1>2 DEF FinalInv
<1>5. /\ WireInv' /\ wire' # <<>>
      /\ Final'.type = "stream" /\ Final'.content = Full /\ Final'.padding = 0
      /\ Final'.from = head
  <2>1. Final.bytes + n = HEADER_LEN + Full
    BY <1>4
  <2>. QED  BY <1>1, <1>3, <2>1, GrowRecord
<1>6. TypeOK'
  <2>1. len' \in HEADER_LEN .. BUF_LEN /\ left' \in 0 .. len'
    BY <1>1, <1>2
  <2>. QED  BY <1>1, <1>3, <1>5, <2>1 DEF TypeOK, WireInv, Phase
<1>7. PhaseInv'
  BY <1>1, <1>2 DEF PhaseInv
<1>8. BufferInv'
  BY <1>1, <1>2, <1>3 DEF BufferInv
<1>9. FinalInv'
  <2>1. head + Full = head'
    BY <1>1, <1>2 DEF BufferInv
  <2>. QED  BY <1>1, <1>2, <1>5, <2>1 DEF FinalInv, Between, Start
<1>. QED  BY <1>5, <1>6, <1>7, <1>8, <1>9 DEF WriterInv, WireInv

\* The rest of a piece fits and waits in the buffer.
LEMMA BufferStepInv == WriterInv /\ Buffer => WriterInv'
<1>. SUFFICES ASSUME WriterInv, Buffer PROVE WriterInv'
  OBVIOUS
<1>. WriterFacts
  BY FactsOfInv
<1>. USE DEF WriterFacts
<1>1. /\ phase = "append" /\ len + val <= BUF_LEN /\ len' = len + val
      /\ cap' \in IF cap >= len + val THEN {cap} ELSE {len + val, BUF_LEN}
      /\ pos' = pos + val /\ val' = 0 /\ phase' = "pick"
      /\ UNCHANGED <<job, next, head, left, due, wire>>
  BY DEF Buffer
<1>2. job.kind \in {"kv", "data"} /\ left = 0
  BY <1>1 DEF PhaseInv, BufferInv
<1>3. TypeOK'
  <2>1. len' \in HEADER_LEN .. BUF_LEN /\ left' \in 0 .. len' /\ cap' \in Int /\ pos' \in Nat
    BY <1>1, <1>2
  <2>. QED  BY <1>1, <2>1 DEF TypeOK, Phase
<1>4. PhaseInv'
  BY <1>1, <1>2 DEF PhaseInv
<1>5. BufferInv'
  BY <1>1, <1>2 DEF BufferInv
<1>6. FinalInv'
  BY <1>1, <1>2 DEF FinalInv, Between, Start, Final
<1>7. WireInv'
  <2>1. phase \in Between /\ phase' # "done"
    BY <1>1 DEF Between
  <2>. QED  BY <1>1, <2>1, KeepRecords
<1>. QED  BY <1>3, <1>4, <1>5, <1>6, <1>7 DEF WriterInv, WireInv

\* flush_data_chunk writes a full record of a long chunk.
LEMMA ChunkFullInv == WriterInv /\ ChunkFull => WriterInv'
<1>. SUFFICES ASSUME WriterInv, ChunkFull PROVE WriterInv'
  OBVIOUS
<1>. WriterFacts
  BY FactsOfInv
<1>. USE DEF WriterFacts
<1>. DEFINE r == Whole("stream", Full, pos)
<1>1. /\ phase = "chunk" /\ val > Full /\ wire' = Append(wire, r)
      /\ val' = val - Full /\ pos' = pos + Full
      /\ UNCHANGED <<job, next, len, cap, head, left, due, phase>>
  BY DEF ChunkFull
<1>2. /\ r \in Record /\ r.type = "stream" /\ r.content = Full /\ r.from = pos
      /\ (r.content + r.padding) % ALIGN = 0 /\ r.bytes = HEADER_LEN + r.content + r.padding
  BY WholeType
<1>. HIDE DEF r
<1>3. job.kind = "chunk"
  BY <1>1 DEF PhaseInv
<1>4. WireInv' /\ wire' # <<>> /\ Final' = r
  <2>1. phase \in Between /\ Start = pos /\ r.content <= Full /\ r.content # 0 /\ phase' # "done"
    BY <1>1, <1>2, <1>3 DEF Between, Start
  <2>. QED  BY <1>1, <1>2, <2>1, AddRecord
<1>5. TypeOK'
  <2>1. val' \in Nat /\ pos' \in Nat
    BY <1>1
  <2>. QED  BY <1>1, <1>4, <2>1 DEF TypeOK, WireInv, Phase
<1>6. PhaseInv'
  BY <1>1, <1>3 DEF PhaseInv
<1>7. BufferInv'
  BY <1>1, <1>3 DEF BufferInv
<1>8. FinalInv'
  BY <1>1, <1>2, <1>3, <1>4 DEF FinalInv, Between, Start
<1>. QED  BY <1>4, <1>5, <1>6, <1>7, <1>8 DEF WriterInv, WireInv

\* flush_data_chunk writes what is left of the chunk, padded.
LEMMA ChunkLastInv == WriterInv /\ ChunkLast => WriterInv'
<1>. SUFFICES ASSUME WriterInv, ChunkLast PROVE WriterInv'
  OBVIOUS
<1>. WriterFacts
  BY FactsOfInv
<1>. USE DEF WriterFacts
<1>. DEFINE r == Whole("stream", val, pos)
<1>1. /\ phase = "chunk" /\ val <= Full /\ wire' = Append(wire, r)
      /\ val' = 0 /\ pos' = pos + val /\ phase' = "pick"
      /\ UNCHANGED <<job, next, len, cap, head, left, due>>
  BY DEF ChunkLast
<1>2. /\ r \in Record /\ r.type = "stream" /\ r.content = val /\ r.from = pos
      /\ (r.content + r.padding) % ALIGN = 0 /\ r.bytes = HEADER_LEN + r.content + r.padding
  BY WholeType
<1>. HIDE DEF r
<1>3. job.kind = "chunk" /\ val > 0
  BY <1>1 DEF PhaseInv
<1>4. WireInv' /\ wire' # <<>> /\ Final' = r
  <2>1. phase \in Between /\ Start = pos /\ r.content <= Full /\ r.content # 0 /\ phase' # "done"
    BY <1>1, <1>2, <1>3 DEF Between, Start
  <2>. QED  BY <1>1, <1>2, <2>1, AddRecord
<1>5. TypeOK'
  <2>1. val' \in Nat /\ pos' \in Nat
    BY <1>1
  <2>. QED  BY <1>1, <1>4, <2>1 DEF TypeOK, WireInv, Phase
<1>6. PhaseInv'
  BY <1>1, <1>3 DEF PhaseInv
<1>7. BufferInv'
  BY <1>1, <1>3 DEF BufferInv
<1>8. FinalInv'
  BY <1>1, <1>2, <1>3, <1>4 DEF FinalInv, Between, Start
<1>. QED  BY <1>4, <1>5, <1>6, <1>7, <1>8 DEF WriterInv, WireInv

\* A body that is too short is aborted and its stream stays without an end.
LEMMA AbortInv == WriterInv /\ Abort => WriterInv'
<1>. SUFFICES ASSUME WriterInv, Abort PROVE WriterInv'
  OBVIOUS
<1>. WriterFacts
  BY FactsOfInv
<1>. USE DEF WriterFacts
<1>. DEFINE r == Whole("abort", 0, pos)
<1>1. /\ phase = "pick" /\ wire' = Append(wire, r) /\ phase' = "short"
      /\ UNCHANGED <<job, next, val, pos, len, cap, head, left, due>>
  BY DEF Abort, AllTaken
<1>2. /\ r \in Record /\ r.type = "abort" /\ r.content = 0
      /\ (r.content + r.padding) % ALIGN = 0 /\ r.bytes = HEADER_LEN + r.content + r.padding
  BY WholeType
<1>. HIDE DEF r
<1>3. WireInv'
  <2>1. phase \in Between /\ r.content <= Full /\ r.type # "stream" /\ phase' \in {"done", "short"}
        /\ phase' # "done"
    BY <1>1, <1>2 DEF Between
  <2>. QED  BY <1>1, <1>2, <2>1, AddRecord
<1>4. TypeOK'
  BY <1>1, <1>3 DEF TypeOK, WireInv, Phase
<1>5. PhaseInv'
  BY <1>1 DEF PhaseInv
<1>6. BufferInv'
  BY <1>1 DEF BufferInv
<1>7. FinalInv'
  BY <1>1 DEF FinalInv, Between
<1>. QED  BY <1>3, <1>4, <1>5, <1>6, <1>7 DEF WriterInv, WireInv

\* end_stream: what waits in the buffer becomes the last record with content.
LEMMA WriteRestInv == WriterInv /\ WriteRest => WriterInv'
<1>. SUFFICES ASSUME WriterInv, WriteRest PROVE WriterInv'
  OBVIOUS
<1>. WriterFacts
  BY FactsOfInv
<1>. USE DEF WriterFacts
<1>. DEFINE r == Whole("stream", len - HEADER_LEN, head)
<1>1. /\ phase = "pick" /\ job.kind # "fixed"
      /\ head' = pos /\ len' = HEADER_LEN /\ phase' = "end"
      /\ UNCHANGED <<job, next, val, pos, cap, left, due>>
  BY DEF WriteRest, AllTaken
<1>2. left = 0 /\ val = 0
  BY <1>1 DEF BufferInv, PhaseInv
<1>3. PhaseInv' /\ BufferInv'
  BY <1>1, <1>2 DEF PhaseInv, BufferInv
<1>4. WireInv' /\ FinalInv'
  <2>1. CASE len > HEADER_LEN
    <3>1. wire' = Append(wire, r) /\ len - HEADER_LEN \in Nat
      BY <2>1 DEF WriteRest
    <3>2. /\ r \in Record /\ r.type = "stream" /\ r.content = len - HEADER_LEN /\ r.from = head
          /\ (r.content + r.padding) % ALIGN = 0 /\ r.bytes = HEADER_LEN + r.content + r.padding
      BY <3>1, WholeType
    <3>. HIDE DEF r
    <3>3. job.kind # "chunk" /\ head + (len - HEADER_LEN) = pos
      BY <2>1 DEF BufferInv
    <3>4. phase \in Between /\ Start = head /\ r.content <= Full /\ r.content # 0 /\ phase' # "done"
      BY <1>1, <2>1, <3>2, <3>3 DEF Between, Start
    <3>5. WireInv' /\ wire' # <<>> /\ Final' = r
      BY <1>1, <3>1, <3>2, <3>4, AddRecord
    <3>6. FinalInv'
      BY <1>1, <3>2, <3>3, <3>5 DEF FinalInv, Between, Start
    <3>. QED  BY <3>5, <3>6
  <2>2. CASE ~(len > HEADER_LEN)
    <3>1. wire' = wire /\ len = HEADER_LEN
      BY <2>2 DEF WriteRest
    <3>2. phase \in Between /\ phase' # "done"
      BY <1>1 DEF Between
    <3>3. WireInv'
      BY <1>1, <3>1, <3>2, KeepRecords
    <3>4. job.kind # "chunk" => head = pos
      BY <3>1 DEF BufferInv
    <3>5. FinalInv'
      BY <1>1, <3>1, <3>2, <3>4 DEF FinalInv, Between, Start, Final
    <3>. QED  BY <3>3, <3>5
  <2>. QED  BY <2>1, <2>2
<1>5. TypeOK'
  <2>1. len' \in HEADER_LEN .. BUF_LEN /\ left' \in 0 .. len'
    BY <1>1, <1>2
  <2>. QED  BY <1>1, <1>4, <2>1 DEF TypeOK, WireInv, Phase
<1>. QED  BY <1>3, <1>4, <1>5 DEF WriterInv, WireInv

\* end_stream: the empty record, once everything before it is written.
LEMMA WriteEndInv == WriterInv /\ WriteEnd => WriterInv'
<1>. SUFFICES ASSUME WriterInv, WriteEnd PROVE WriterInv'
  OBVIOUS
<1>. WriterFacts
  BY FactsOfInv
<1>. USE DEF WriterFacts
<1>. DEFINE r == Whole("stream", 0, pos)
<1>1. /\ phase = "end" /\ wire' = Append(wire, r) /\ phase' = "done"
      /\ UNCHANGED <<job, next, val, pos, len, cap, head, left, due>>
  BY DEF WriteEnd
<1>2. /\ r \in Record /\ r.type = "stream" /\ r.content = 0 /\ r.from = pos
      /\ (r.content + r.padding) % ALIGN = 0 /\ r.bytes = HEADER_LEN + r.content + r.padding
  BY WholeType
<1>. HIDE DEF r
<1>3. val = 0 /\ Start = pos
  BY <1>1 DEF PhaseInv, BufferInv, Start
<1>4. WireInv'
  <2>1. phase \in Between /\ r.content <= Full /\ phase' \in {"done", "short"}
    BY <1>1, <1>2 DEF Between
  <2>. QED  BY <1>1, <1>2, <1>3, <2>1, AddRecord
<1>5. TypeOK'
  BY <1>1, <1>4 DEF TypeOK, WireInv, Phase
<1>6. PhaseInv'
  BY <1>1, <1>3 DEF PhaseInv
<1>7. BufferInv'
  BY <1>1 DEF BufferInv
<1>8. FinalInv'
  BY <1>1 DEF FinalInv, Between
<1>. QED  BY <1>4, <1>5, <1>6, <1>7, <1>8 DEF WriterInv, WireInv

\* encode writes a record of fixed length, which needs no padding.
LEMMA WriteFixedInv == WriterInv /\ WriteFixed => WriterInv'
<1>. SUFFICES ASSUME WriterInv, WriteFixed PROVE WriterInv'
  OBVIOUS
<1>. WriterFacts
  BY FactsOfInv
<1>. USE DEF WriterFacts
<1>. DEFINE r == Header("fixed", FIXED_LEN, pos, HEADER_LEN + FIXED_LEN)
<1>1. /\ phase = "pick" /\ job.kind = "fixed" /\ wire' = Append(wire, r) /\ phase' = "done"
      /\ UNCHANGED <<job, next, val, pos, len, cap, head, left, due>>
  BY DEF WriteFixed
<1>2. /\ r \in Record /\ r.type = "fixed" /\ r.content = FIXED_LEN
      /\ (r.content + r.padding) % ALIGN = 0 /\ r.bytes = HEADER_LEN + r.content + r.padding
  BY FixedHeader
<1>. HIDE DEF r
<1>3. WireInv'
  <2>1. phase \in Between /\ r.content <= Full /\ r.content # 0 /\ r.type # "stream"
    BY <1>1, <1>2, FullAligned DEF Between
  <2>. QED  BY <1>1, <1>2, <2>1, AddRecord
<1>4. TypeOK'
  BY <1>1, <1>3 DEF TypeOK, WireInv, Phase
<1>5. PhaseInv'
  BY <1>1 DEF PhaseInv
<1>6. BufferInv'
  BY <1>1 DEF BufferInv
<1>7. FinalInv'
  BY <1>1 DEF FinalInv, Between
<1>. QED  BY <1>3, <1>4, <1>5, <1>6, <1>7 DEF WriterInv, WireInv

\* A failing write may leave a record cut short; nothing is written behind it.
LEMMA WriteFailInv == WriterInv /\ WriteFail => WriterInv'
<1>. SUFFICES ASSUME WriterInv, WriteFail PROVE WriterInv'
  OBVIOUS
<1>. WriterFacts
  BY FactsOfInv
<1>. USE DEF WriterFacts
<1>1. /\ phase \in {"pick", "drain", "part", "chunk", "end"} /\ phase' = "failed"
      /\ UNCHANGED <<job, next, val, pos, len, cap, head, left, due, wire>>
  BY DEF WriteFail, AllTaken
<1>2. WireInv'
  BY <1>1, KeepRecords
<1>3. TypeOK'
  BY <1>1 DEF TypeOK, Phase
<1>4. PhaseInv'
  BY <1>1 DEF PhaseInv
<1>5. BufferInv'
  BY <1>1 DEF BufferInv
<1>6. FinalInv'
  BY <1>1 DEF FinalInv, Between
<1>. QED  BY <1>2, <1>3, <1>4, <1>5, <1>6 DEF WriterInv, WireInv

-----------------------------------------------------------------------------
(* The theorems *)

\* At first nothing is written and the buffer is empty.
LEMMA WriterInit == Init => WriterInv
<1>. SUFFICES ASSUME Init PROVE WriterInv
  OBVIOUS
<1>1. job \in Job /\ (job.kind = "fixed" => job.pieces = <<>>)
  BY JobAssumption DEF Init
<1>2. job.announced \in 0 .. WORD - 1 /\ job.pieces \in Seq(Nat) /\ Len(job.pieces) \in Nat
  BY <1>1 DEF Job
<1>3. TypeOK
  <2>1. next \in 1 .. Len(job.pieces) + 1
    BY <1>2 DEF Init
  <2>2. len \in HEADER_LEN .. BUF_LEN /\ left \in 0 .. len /\ cap \in Int
    BY LengthAssumption DEF Init
  <2>3. wire \in Seq(Record)
    BY DEF Init
  <2>. QED  BY <1>1, <1>2, <2>1, <2>2, <2>3 DEF Init, TypeOK, Phase
<1>4. PhaseInv /\ BufferInv
  BY <1>1, LengthAssumption DEF Init, PhaseInv, BufferInv
<1>5. FinalInv
  BY DEF Init, FinalInv, Start, Between
<1>6. Framed /\ Consecutive /\ EmptyIsEnd
  BY DEF Init, Framed, Consecutive, EmptyIsEnd
<1>. QED  BY <1>3, <1>4, <1>5, <1>6 DEF WriterInv

\* Every step of the writer keeps the invariant.
LEMMA WriterNext == WriterInv /\ [Next]_vars => WriterInv'
<1>. SUFFICES ASSUME WriterInv, [Next]_vars PROVE WriterInv'
  OBVIOUS
<1>1. CASE UNCHANGED vars
  BY <1>1 DEF vars, WriterInv, TypeOK, PhaseInv, BufferInv, FinalInv, Final, Start,
              Framed, Consecutive, EmptyIsEnd
<1>. QED  BY <1>1, NextPieceInv, BadPieceInv, WriteFullInv, DrainInv, WritePartInv,
             BufferStepInv, ChunkFullInv, ChunkLastInv, AbortInv, WriteRestInv, WriteEndInv,
             WriteFixedInv, WriteFailInv
          DEF Next

\* The inductive invariant holds of every behaviour of the writer.
THEOREM WriterInvariant == Spec => []WriterInv
BY WriterInit, WriterNext, PTL DEF Spec

\* What FCGIWriter keeps has its type: its buffer never outgrows BUF_LEN and
\* always has room for a header, and no length of a piece becomes negative.
THEOREM WriterTypeCorrect == Spec => []TypeOK
<1>1. WriterInv => TypeOK
  BY DEF WriterInv
<1>. QED  BY <1>1, WriterInvariant, PTL

\* append_to_stream, flush_data_chunk, end_stream and encode write records that
\* are as long as their headers say and padded to the alignment.
THEOREM RecordsFramed == Spec => []Framed
<1>1. WriterInv => Framed
  BY DEF WriterInv
<1>. QED  BY <1>1, WriterInvariant, PTL

\* The contents of the records append_to_stream, flush_data_chunk and end_stream
\* write are consecutive parts of the stream, from its first byte to its last.
THEOREM StreamConsecutive == Spec => []Consecutive
<1>1. WriterInv => Consecutive
  BY DEF WriterInv
<1>. QED  BY <1>1, WriterInvariant, PTL

\* No record before the end of a stream is empty, so the application does not
\* take one that append_to_stream or flush_data_chunk wrote for its end.
THEOREM OnlyEndEmpty == Spec => []EmptyIsEnd
<1>1. WriterInv => EmptyIsEnd
  BY DEF WriterInv
<1>. QED  BY <1>1, WriterInvariant, PTL

-----------------------------------------------------------------------------
(* The announced length *)

Body == job.kind \in {"data", "chunk"}

\* What is due and what came make up the announced length, unless more came: then
\* data_stream is owed nothing and send_body what the wrap left it.
Accounted ==
    Body =>
        /\ pos + val + due >= job.announced
        /\ pos + val <= job.announced => pos + val + due = job.announced
        /\ job.kind = "data" /\ pos + val > job.announced => due = 0

\* A stream is ended when nothing is due, and aborted when something is.
Settled ==
    /\ Body /\ phase \in {"end", "done"} => due = 0
    /\ phase = "short" => Body /\ due > 0

LengthInv == Accounted /\ Settled

\* An abort means that less came than announced, or that the body of send_body was
\* longer and wrapped the length; never that it was as long as announced.
ShortOrWrapped ==
    phase = "short" => \/ pos < job.announced
                       \/ job.kind = "chunk" /\ pos > job.announced

\* Subtraction of a release build: exact, or a wrap that leaves something due.
LEMMA Wraps ==
    ASSUME NEW w \in Nat \ {0}, NEW d \in 0 .. w - 1, NEW n \in Nat
    PROVE  /\ (d - n) % w \in 0 .. w - 1
           /\ n <= d => (d - n) % w = d - n
<1>1. (d - n) % w \in 0 .. w - 1
  BY Remainder
<1>2. ASSUME n <= d PROVE (d - n) % w = d - n
  BY <1>2
<1>. QED  BY <1>1, <1>2

\* A piece is subtracted from what is due when it is taken.
LEMMA NextPieceLength == WriterInv /\ LengthInv /\ NextPiece => LengthInv'
<1>. SUFFICES ASSUME WriterInv, LengthInv, NextPiece PROVE LengthInv'
  OBVIOUS
<1>. DEFINE n == job.pieces[next]
<1>1. /\ job' = job /\ pos' = pos /\ val' = n /\ val = 0
      /\ phase' \in {"append", "pick", "chunk"}
      /\ n \in Nat /\ pos \in Nat /\ job.announced \in Nat
  BY DEF NextPiece, WriterInv, TypeOK, PhaseInv, Job
<1>2. WORD \in Nat \ {0} /\ due \in 0 .. WORD - 1
  BY LengthAssumption DEF WriterInv, TypeOK
<1>3. CASE job.kind = "data"
  <2>1. due' = IF n > due THEN 0 ELSE due - n
    BY <1>3 DEF NextPiece
  <2>. QED  BY <1>1, <1>2, <1>3, <2>1 DEF LengthInv, Accounted, Settled, Body
<1>4. CASE job.kind = "chunk"
  <2>1. due' = (due - n) % WORD
    BY <1>4 DEF NextPiece
  <2>2. due' \in 0 .. WORD - 1 /\ (n <= due => due' = due - n)
    BY <1>1, <1>2, <2>1, Wraps
  <2>. QED  BY <1>1, <1>2, <1>4, <2>2 DEF LengthInv, Accounted, Settled, Body
<1>5. CASE ~Body
  BY <1>1, <1>5 DEF LengthInv, Accounted, Settled, Body
<1>. QED  BY <1>3, <1>4, <1>5 DEF Body

\* Writing moves bytes of the piece behind pos.
LEMMA MovedBehind ==
    ASSUME WriterInv, [Next]_vars, ~NextPiece PROVE pos' + val' = pos + val
<1>1. pos \in Nat /\ val \in Nat /\ len \in Nat /\ BUF_LEN \in Nat /\ Full \in Nat
  BY LengthAssumption, FullAligned DEF WriterInv, TypeOK
<1>2. CASE WritePart
  BY <1>1, <1>2 DEF WritePart
<1>3. CASE Buffer
  BY <1>1, <1>3 DEF Buffer
<1>4. CASE ChunkFull
  BY <1>1, <1>4 DEF ChunkFull
<1>5. CASE ChunkLast
  BY <1>1, <1>5 DEF ChunkLast
<1>6. CASE UNCHANGED <<pos, val>>
  BY <1>6
<1>. QED
  BY <1>2, <1>3, <1>4, <1>5, <1>6
     DEF Next, BadPiece, WriteFull, Drain, Abort, WriteRest, WriteEnd, WriteFixed, WriteFail, vars

\* It leaves what is due alone.
LEMMA WriteLength ==
    ASSUME WriterInv, LengthInv, [Next]_vars, ~NextPiece PROVE LengthInv'
<1>. USE DEF LengthInv
<1>1. /\ pos \in Nat /\ val \in Nat /\ due \in Nat /\ len \in Nat
      /\ job.announced \in Nat /\ job.kind \in {"kv", "data", "chunk", "fixed"}
      /\ BUF_LEN \in Nat /\ Full \in Nat
  BY LengthAssumption, FullAligned DEF WriterInv, TypeOK, Job
<1>2. job' = job /\ due' = due
  BY DEF Next, BadPiece, WriteFull, Drain, WritePart, Buffer, ChunkFull, ChunkLast, Abort,
         WriteRest, WriteEnd, WriteFixed, WriteFail, vars
<1>3. pos' + val' = pos + val
  BY MovedBehind
<1>4. Accounted'
  BY <1>1, <1>2, <1>3 DEF Accounted, Body
<1>5. Settled'
  <2>1. CASE Abort
    BY <1>1, <1>2, <2>1 DEF Abort, AllTaken, TooShort, Settled, Body
  <2>2. CASE WriteRest
    BY <1>1, <1>2, <2>2 DEF WriteRest, AllTaken, TooShort, Settled, Body
  <2>3. CASE WriteEnd
    BY <1>2, <2>3 DEF WriteEnd, Settled, Body
  <2>4. CASE WriteFixed
    BY <1>2, <2>4 DEF WriteFixed, Settled, Body
  <2>5. CASE UNCHANGED phase \/ phase' \notin {"end", "done", "short"}
    BY <1>2, <2>5 DEF Settled, Body
  <2>. QED
    BY <2>1, <2>2, <2>3, <2>4, <2>5
       DEF Next, BadPiece, WriteFull, Drain, WritePart, Buffer, ChunkFull, ChunkLast, WriteFail, vars
<1>. QED  BY <1>4, <1>5

\* The length accounting of send_body and data_stream, for every body.
THEOREM LengthInvariant == Spec => [](WriterInv /\ LengthInv)
<1>1. Init => LengthInv
  BY JobAssumption DEF Init, LengthInv, Accounted, Settled, Body, Job
<1>2. WriterInv /\ LengthInv /\ [Next]_vars => LengthInv'
  BY NextPieceLength, WriteLength
<1>. QED  BY <1>1, <1>2, WriterInit, WriterNext, PTL DEF Spec

\* The empty record that ends a body is written only behind at least as many
\* bytes as send_body or data_stream announced, whatever pieces failed to arrive.
THEOREM EndedBodiesWhole == Spec => []EndMeansWhole
<1>1. WriterInv /\ LengthInv => EndMeansWhole
  <2>. SUFFICES ASSUME WriterInv, LengthInv, phase = "done", Body
                PROVE  wire[Len(wire)].from >= job.announced
    BY DEF EndMeansWhole, Body
  <2>1. wire[Len(wire)].from = pos /\ val = 0 /\ due = 0
    BY DEF WriterInv, Consecutive, LengthInv, Settled, Body
  <2>2. pos \in Nat /\ job.announced \in Nat
    BY DEF WriterInv, TypeOK, Job
  <2>. QED  BY <2>1, <2>2 DEF LengthInv, Accounted
<1>. QED  BY <1>1, LengthInvariant, PTL

\* A body that is exactly as long as announced is never aborted, and one that is
\* longer only by send_body, where the length wraps.
THEOREM AbortedBodiesDiffer == Spec => []ShortOrWrapped
<1>1. WriterInv /\ LengthInv => ShortOrWrapped
  <2>. SUFFICES ASSUME WriterInv, LengthInv, phase = "short"
                PROVE  pos < job.announced \/ (job.kind = "chunk" /\ pos > job.announced)
    BY DEF ShortOrWrapped
  <2>1. val = 0 /\ due > 0 /\ Body
    BY DEF WriterInv, PhaseInv, LengthInv, Settled
  <2>2. pos \in Nat /\ job.announced \in Nat /\ due \in Nat
    BY LengthAssumption DEF WriterInv, TypeOK, Job
  <2>. QED  BY <2>1, <2>2 DEF LengthInv, Accounted, Body
<1>. QED  BY <1>1, LengthInvariant, PTL

-----------------------------------------------------------------------------
(* Sums *)

\* A set of numbers has a smallest one.
LEMMA SmallestOf ==
    ASSUME NEW T, T \subseteq Nat, T # {}
    PROVE  \E x \in T : \A y \in T : x <= y
<1>. DEFINE R == {ss \in Nat \X Nat : ss[1] < ss[2]}
<1>1. IsWellFoundedOn(R, Nat)
  BY NatLessThanWellFounded DEF OpToRel
<1>. HIDE DEF R
<1>2. PICK x \in T : \A y \in T : ~(<<y, x>> \in R)
  BY <1>1, WFMin
<1>3. \A y \in T : x <= y
  <2>. SUFFICES ASSUME NEW y \in T PROVE x <= y
    OBVIOUS
  <2>1. <<y, x>> \notin R /\ x \in Nat /\ y \in Nat
    BY <1>2
  <2>2. ~(y < x)
    BY <2>1 DEF R
  <2>. QED  BY <2>1, <2>2
<1>. QED  BY <1>3

\* Induction, for the set of the numbers that have the property to be shown.
LEMMA Induct ==
    ASSUME NEW S, 0 \in S, \A n \in Nat : n \in S => n + 1 \in S
    PROVE  Nat \subseteq S
<1>. SUFFICES ASSUME {n \in Nat : n \notin S} # {} PROVE FALSE
  OBVIOUS
<1>1. PICK m \in {n \in Nat : n \notin S} : \A k \in {n \in Nat : n \notin S} : m <= k
  BY SmallestOf
<1>2. m # 0 /\ m - 1 \in Nat /\ (m - 1) + 1 = m
  BY <1>1
<1>. QED  BY <1>1, <1>2

\* f has the sums of the first 0 .. m numbers of s: the equation in Total.
IsSum(f, s, m) == f = [n \in 0 .. m |-> IF n = 0 THEN 0 ELSE f[n - 1] + s[n]]

\* There is such a function, so the one that Total chooses is one.
LEMMA SumExists ==
    ASSUME NEW s \in Seq(Nat)
    PROVE  \A m \in Nat : m <= Len(s) => \E f : IsSum(f, s, m) /\ f \in [0 .. m -> Nat]
<1>. DEFINE G == {m \in Nat : m <= Len(s) => \E f : IsSum(f, s, m) /\ f \in [0 .. m -> Nat]}
<1>1. 0 \in G
  <2>. DEFINE f == [n \in 0 .. 0 |-> 0]
  <2>1. f = [n \in 0 .. 0 |-> IF n = 0 THEN 0 ELSE f[n - 1] + s[n]]
    OBVIOUS
  <2>2. f \in [0 .. 0 -> Nat]
    OBVIOUS
  <2>. HIDE DEF f
  <2>. QED  BY <2>1, <2>2 DEF IsSum
<1>2. ASSUME NEW m \in Nat, m \in G PROVE m + 1 \in G
  <2>. SUFFICES ASSUME m + 1 <= Len(s)
                PROVE  \E f : IsSum(f, s, m + 1) /\ f \in [0 .. m + 1 -> Nat]
    OBVIOUS
  <2>1. PICK f : IsSum(f, s, m) /\ f \in [0 .. m -> Nat]
    BY <1>2
  <2>. DEFINE g == [n \in 0 .. m + 1 |-> IF n = m + 1 THEN f[m] + s[m + 1] ELSE f[n]]
  <2>2. \A n \in 0 .. m : f[n] = IF n = 0 THEN 0 ELSE f[n - 1] + s[n]
    BY <2>1 DEF IsSum
  <2>3. \A n \in 0 .. m + 1 : g[n] = IF n = 0 THEN 0 ELSE g[n - 1] + s[n]
    BY <2>2
  <2>4. g \in [0 .. m + 1 -> Nat]
    BY <2>1
  <2>5. IsSum(g, s, m + 1)
    BY <2>3, <2>4 DEF IsSum
  <2>. QED  BY <2>4, <2>5
<1>. HIDE DEF G
<1>3. Nat \subseteq G
  BY <1>1, <1>2, Induct
<1>. QED  BY <1>3 DEF G

\* The total of s is the last of its sums.
LEMMA TotalIsSum ==
    ASSUME NEW s \in Seq(Nat)
    PROVE  \E f : /\ IsSum(f, s, Len(s)) /\ Total(s) = f[Len(s)]
                  /\ f[0] = 0 /\ \A n \in 1 .. Len(s) : f[n] = f[n - 1] + s[n]
<1>. DEFINE h == CHOOSE f : f = [n \in 0 .. Len(s) |-> IF n = 0 THEN 0 ELSE f[n - 1] + s[n]]
<1>1. Total(s) = h[Len(s)]
  BY DEF Total
<1>2. PICK f : IsSum(f, s, Len(s))
  BY SumExists
<1>3. IsSum(h, s, Len(s))
  BY <1>2 DEF IsSum
<1>. HIDE DEF h
<1>4. h[0] = 0 /\ \A n \in 1 .. Len(s) : h[n] = h[n - 1] + s[n]
  BY <1>3 DEF IsSum
<1>. QED  BY <1>1, <1>3, <1>4

-----------------------------------------------------------------------------
(* What came *)

\* The lengths of the pieces as they arrive.
Arriving == [i \in DOMAIN job.pieces |-> IF i \in job.bad THEN 0 ELSE job.pieces[i]]

\* Up to the next piece, what was taken is the sum of what came.
Taken ==
    \A f : IsSum(f, Arriving, Len(Arriving)) => pos + val = f[next - 1]

\* An aborted stream has no pieces left.
AllTakenShort == phase = "short" => next = Len(job.pieces) + 1

\* The pieces that arrive are as many as there are, each as long as it is.
LEMMA ArrivingType ==
    ASSUME TypeOK
    PROVE  /\ Arriving \in Seq(Nat) /\ Len(Arriving) = Len(job.pieces)
           /\ \A i \in 1 .. Len(job.pieces) :
                 Arriving[i] = IF i \in job.bad THEN 0 ELSE job.pieces[i]
<1>1. job.pieces \in Seq(Nat)
  BY DEF TypeOK, Job
<1>2. DOMAIN job.pieces = 1 .. Len(job.pieces) /\ Len(job.pieces) \in Nat
      /\ \A i \in 1 .. Len(job.pieces) : job.pieces[i] \in Nat
  BY <1>1
<1>3. Arriving = [i \in 1 .. Len(job.pieces) |-> IF i \in job.bad THEN 0 ELSE job.pieces[i]]
  BY <1>2 DEF Arriving
<1>4. Arriving \in [1 .. Len(job.pieces) -> Nat]
  BY <1>2, <1>3
<1>. QED  BY <1>2, <1>3, <1>4

\* Taking a piece, writing it and skipping one that failed keep the sum.
LEMMA TakenNext ==
    ASSUME WriterInv, Taken, [Next]_vars PROVE Taken'
<1>1. /\ TypeOK /\ job' = job
  BY DEF WriterInv, Next, NextPiece, BadPiece, WriteFull, Drain, WritePart, Buffer, ChunkFull,
         ChunkLast, Abort, WriteRest, WriteEnd, WriteFixed, WriteFail, vars
<1>2. Arriving' = Arriving
  BY <1>1 DEF Arriving
<1>3. /\ pos \in Nat /\ val \in Nat /\ len \in Nat /\ next \in 1 .. Len(job.pieces) + 1
      /\ BUF_LEN \in Nat /\ Full \in Nat /\ Len(job.pieces) \in Nat
  BY LengthAssumption, FullAligned DEF WriterInv, TypeOK, Job
<1>. SUFFICES ASSUME NEW f, IsSum(f, Arriving, Len(Arriving))
              PROVE  pos' + val' = f[next' - 1]
  BY <1>2 DEF Taken
<1>4. pos + val = f[next - 1]
  BY DEF Taken
<1>5. CASE NextPiece \/ BadPiece
  <2>1. next \in 1 .. Len(job.pieces) /\ next' = next + 1 /\ pos' = pos
    BY <1>3, <1>5 DEF NextPiece, BadPiece
  <2>2. f[next] = f[next - 1] + Arriving[next]
    <3>1. next \in 0 .. Len(Arriving) /\ next # 0
      BY <1>1, <1>3, <2>1, ArrivingType
    <3>. QED  BY <3>1 DEF IsSum
  <2>3. Arriving[next] = IF next \in job.bad THEN 0 ELSE job.pieces[next]
    BY <1>1, <2>1, ArrivingType
  <2>4. val = 0
    BY <1>5 DEF NextPiece, BadPiece, WriterInv, PhaseInv
  <2>5. val' = Arriving[next]
    BY <1>5, <2>3, <2>4 DEF NextPiece, BadPiece
  <2>6. Arriving[next] \in Nat
    BY <1>1, <2>1, ArrivingType
  <2>. QED  BY <1>3, <1>4, <2>1, <2>2, <2>4, <2>5, <2>6
<1>6. CASE ~(NextPiece \/ BadPiece)
  <2>1. next' = next
    BY <1>6 DEF Next, WriteFull, Drain, WritePart, Buffer, ChunkFull, ChunkLast, Abort,
                WriteRest, WriteEnd, WriteFixed, WriteFail, vars
  <2>2. pos' + val' = pos + val
    BY <1>3, <1>6, MovedBehind
  <2>. QED  BY <1>4, <2>1, <2>2
<1>. QED  BY <1>5, <1>6

\* A stream of which as much came as was announced, or less, is aborted only in
\* the second case; data_stream aborts no longer one either.
THEOREM AbortedBodiesShort ==
    Spec => [](job.kind = "data" \/ Came <= job.announced => AbortOnlyIfShort)
<1>1. Init => Taken
  <2>. SUFFICES ASSUME Init, NEW f, IsSum(f, Arriving, Len(Arriving)) PROVE pos + val = f[next - 1]
    BY DEF Taken
  <2>1. TypeOK
    BY WriterInit DEF WriterInv
  <2>2. Len(Arriving) \in Nat
    BY <2>1, ArrivingType
  <2>3. f[0] = 0
    BY <2>2 DEF IsSum
  <2>. QED  BY <2>3 DEF Init
<1>2. WriterInv /\ Taken /\ LengthInv /\ AllTakenShort =>
        (job.kind = "data" \/ Came <= job.announced => AbortOnlyIfShort)
  <2>. SUFFICES ASSUME WriterInv, Taken, LengthInv, AllTakenShort, phase = "short",
                       job.kind = "data" \/ Came <= job.announced
                PROVE  Came < job.announced
    BY DEF AbortOnlyIfShort
  <2>1. TypeOK
    BY DEF WriterInv
  <2>2. PICK f : /\ IsSum(f, Arriving, Len(Arriving))
                 /\ Total(Arriving) = f[Len(Arriving)]
    BY <2>1, ArrivingType, TotalIsSum
  <2>3. next - 1 = Len(Arriving) /\ val = 0
    BY <2>1, ArrivingType DEF AllTakenShort, WriterInv, PhaseInv, TypeOK, Job
  <2>4. pos + val = Came
    BY <2>2, <2>3 DEF Taken, Came, Arriving
  <2>5. Body /\ due > 0 /\ pos \in Nat /\ job.announced \in Nat /\ due \in Nat
    BY <2>1, LengthAssumption DEF LengthInv, Settled, TypeOK, Job
  <2>. QED  BY <2>3, <2>4, <2>5 DEF LengthInv, Accounted, Body
<1>3. Init => AllTakenShort
  BY DEF Init, AllTakenShort
<1>4. WriterInv /\ AllTakenShort /\ [Next]_vars => AllTakenShort'
  BY DEF WriterInv, TypeOK, AllTakenShort, AllTaken, Next, NextPiece, BadPiece, WriteFull, Drain,
         WritePart, Buffer, ChunkFull, ChunkLast, Abort, WriteRest, WriteEnd, WriteFixed, WriteFail,
         vars
<1>. QED  BY <1>1, <1>2, <1>3, <1>4, TakenNext, LengthInvariant, PTL DEF Spec
=============================================================================
