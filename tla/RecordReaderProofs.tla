------------------------- MODULE RecordReaderProofs -------------------------
(***************************************************************************)
(* However the bytes of a stream are cut, RecordReader::read stays in step *)
(* with it and hands out each byte of content once and in order: proofs    *)
(* for every stream, every buffer size and every way to cut.               *)
(***************************************************************************)
EXTENDS RecordReader, TLAPS

Fragment == [rec : Nat, type : {"stdout", "stderr", "end"}, from : Int, to : Int]

\* The parser never runs past the BufReader, and stands at its start between
\* two calls of parse_and_distribute: what it used is consumed.
Window ==
    /\ pos <= dpos /\ dpos <= cap
    /\ phase = "idle" => dpos = pos

\* What was handed out last ends where the parser is now: inside the record it
\* remembers, or at the end of the one before.
LastFragment ==
    LET l == out[Len(out)]
        untouched == current # NoHeader => current.content = recs[rec].content
    IN  IF out = <<>> THEN rec = 1 /\ untouched
        ELSE \/ l.rec = rec /\ current # NoHeader /\ l.to = recs[rec].content - current.content
             \/ l.rec + 1 = rec /\ l.to = recs[l.rec].content /\ untouched

\* The inductive invariant.  InStep and Reassembled alone are not inductive: a
\* fragment is glued to the last one by what current says is left, and that is
\* the length of the rest only while the parser is inside the buffer.
ReaderInv == TypeOK /\ Window /\ InStep /\ LastFragment /\ Reassembled

-----------------------------------------------------------------------------
(* Facts about the stream and the fragments *)

\* The header that is read is a record of the stream.
LEMMA RecordOfStream ==
    ASSUME TypeOK, NEW i \in DOMAIN recs
    PROVE  recs[i] \in Record
BY StreamAssumption DEF TypeOK

\* The size of a record is a number and at least that of its header.
LEMMA SizeType ==
    ASSUME NEW r \in Record
    PROVE  Size(r) \in Nat /\ Size(r) > 0
BY LengthAssumption DEF Size, Record

\* What Emit appends, in numbers of the record: it starts where current says
\* that the handed out content ends, and is n long.
LEMMA EmitFragment ==
    ASSUME TypeOK, InStep, current # NoHeader, NEW n \in Nat, n <= current.content, Emit(n)
    PROVE  /\ current \in Record /\ recs[rec] \in Record /\ rec \in 1 .. Len(recs)
           /\ \E f \in Fragment :
                 /\ out' = Append(out, f)
                 /\ f.rec = rec
                 /\ f.from = recs[rec].content - current.content
                 /\ f.to = recs[rec].content - (current.content - n)
           /\ phase' \in {"parse", "panic"}
<1>1. current \in Record /\ rec \in 1 .. Len(recs) /\ recs[rec] \in Record
  BY RecordOfStream, StreamAssumption DEF TypeOK, InStep
<1>2. dpos = base + HEADER_LEN + recs[rec].content - current.content
  BY DEF InStep
<1>. DEFINE f == [rec |-> rec, type |-> current.type,
                  from |-> dpos - base - HEADER_LEN,
                  to |-> dpos + n - base - HEADER_LEN]
<1>3. dpos \in Nat /\ base \in Nat /\ HEADER_LEN \in Nat /\ rec \in Nat
      /\ current.content \in Nat /\ recs[rec].content \in Nat
  BY <1>1, LengthAssumption DEF TypeOK, Record
<1>4. f \in Fragment
  BY <1>1, <1>3 DEF Fragment, Record
<1>5. f.from = recs[rec].content - current.content
      /\ f.to = recs[rec].content - (current.content - n)
  BY <1>2, <1>3
<1>6. out' = Append(out, f) /\ phase' \in {"parse", "panic"}
  BY DEF Emit
<1>. QED  BY <1>1, <1>4, <1>5, <1>6

\* A fragment that starts where the last one ended, or at the start of the next
\* record once the last one is complete, keeps what was handed out in order.
LEMMA Extend ==
    ASSUME TypeOK, LastFragment, Reassembled, recs' = recs,
           current # NoHeader, current \in Record,
           rec \in DOMAIN recs, recs[rec] \in Record, current.content <= recs[rec].content,
           NEW f \in Fragment, out' = Append(out, f),
           f.rec = rec, f.from = recs[rec].content - current.content,
           f.from <= f.to, f.to <= recs[rec].content
    PROVE  /\ Reassembled' /\ out' \in Seq(Fragment)
           /\ out' # <<>> /\ out'[Len(out')] = f
<1>. DEFINE m == Len(out)
<1>1. out \in Seq(Fragment) /\ m \in Nat
  BY DEF TypeOK, Fragment
<1>2. /\ out' \in Seq(Fragment) /\ Len(out') = m + 1 /\ out'[m + 1] = f
      /\ \A i \in 1 .. m : out'[i] = out[i]
      /\ DOMAIN out = 1 .. m /\ DOMAIN out' = 1 .. (m + 1)
  BY <1>1
<1>. HIDE DEF m
<1>3. \A i \in 1 .. m : out[i] \in Fragment
  BY <1>1, <1>2
<1>4. out' # <<>> => out'[1].rec = 1 /\ out'[1].from = 0
  <2>1. CASE m = 0
    <3>1. out = <<>>
      BY <1>1, <2>1 DEF m
    <3>. QED  BY <3>1, <1>2, <2>1 DEF LastFragment, Record
  <2>2. CASE m > 0
    BY <1>1, <1>2, <2>2 DEF Reassembled, m
  <2>. QED  BY <1>1, <2>1, <2>2
<1>5. \A i \in DOMAIN out' : out'[i].rec \in DOMAIN recs /\ out'[i].from <= out'[i].to
                             /\ out'[i].to <= recs[out'[i].rec].content
  BY <1>1, <1>2 DEF Reassembled
<1>6. ASSUME NEW i \in DOMAIN out', i + 1 \in DOMAIN out'
      PROVE  \/ out'[i + 1].rec = out'[i].rec /\ out'[i + 1].from = out'[i].to
             \/ /\ out'[i + 1].rec = out'[i].rec + 1 /\ out'[i + 1].from = 0
                /\ out'[i].to = recs[out'[i].rec].content
  <2>1. CASE i + 1 <= m
    BY <1>1, <1>2, <1>6, <2>1 DEF Reassembled
  <2>2. CASE i = m
    <3>1. out # <<>> /\ out'[i] = out[Len(out)] /\ out'[i + 1] = f
      BY <1>1, <1>2, <1>6, <2>2 DEF m
    <3>2. out[Len(out)] \in Fragment
      BY <1>1, <1>2, <1>3, <1>6, <2>2 DEF m
    <3>. QED  BY <3>1, <3>2 DEF LastFragment, Record, Fragment
  <2>. QED  BY <1>1, <1>2, <1>6, <2>1, <2>2
<1>. QED  BY <1>2, <1>4, <1>5, <1>6 DEF Reassembled

-----------------------------------------------------------------------------
(* The steps *)

\* Nothing was read: only the bytes at the socket, the buffer and the result of
\* poll_resp change.
LEMMA Quiet ==
    ASSUME ReaderInv, UNCHANGED <<recs, current, out, rec, base>>, dpos' = dpos
    PROVE  InStep' /\ LastFragment' /\ Reassembled'
BY DEF ReaderInv, InStep, LastFragment, Reassembled

\* More of the stream arrives; the reader does not see it before the next fill.
LEMMA ArriveInv == ReaderInv /\ Arrive => ReaderInv'
<1>. SUFFICES ASSUME ReaderInv, Arrive PROVE ReaderInv'
  OBVIOUS
<1>1. TypeOK /\ Window
  BY DEF ReaderInv
<1>2. arec \in DOMAIN recs /\ recs[arec] \in Record
  BY <1>1, RecordOfStream, StreamAssumption DEF Arrive, TypeOK
<1>3. Size(recs[arec]) \in Nat
  BY <1>2, SizeType
<1>4. PICK n \in 1 .. Size(recs[arec]) - aoff :
         /\ arrived' = arrived + n
         /\ \/ arec' = arec + 1 /\ aoff' = 0
            \/ arec' = arec /\ aoff' = aoff + n
  BY DEF Arrive
<1>5. UNCHANGED <<recs, eof, pos, cap, phase, dpos, current, last, out, rec, base>>
  BY DEF Arrive, reader
<1>6. arec' \in Nat \ {0} /\ aoff' \in Nat /\ arrived' \in Nat
  BY <1>1, <1>3, <1>4 DEF TypeOK
<1>7. TypeOK'
  BY <1>1, <1>5, <1>6 DEF TypeOK
<1>8. Window'
  BY <1>1, <1>5 DEF Window
<1>. QED  BY <1>5, <1>7, <1>8, Quiet DEF ReaderInv

\* fill_buf moves the end of what the BufReader holds, never its start.
LEMMA BufferInv == ReaderInv /\ (CloseStream \/ Fill \/ FillEmpty) => ReaderInv'
<1>. SUFFICES ASSUME ReaderInv, CloseStream \/ Fill \/ FillEmpty PROVE ReaderInv'
  OBVIOUS
<1>1. TypeOK /\ Window
  BY DEF ReaderInv
<1>2. UNCHANGED <<recs, current, out, rec, base>> /\ dpos' = dpos
  BY <1>1 DEF CloseStream, Fill, FillEmpty, stream, Window
<1>3. TypeOK' /\ Window'
  <2>1. CASE CloseStream
    BY <1>1, <2>1 DEF CloseStream, TypeOK, Window, reader
  <2>2. CASE Fill
    <3>1. UNCHANGED <<recs, arec, aoff, arrived, eof, pos, current, last, out, rec, base>>
      BY <2>2 DEF Fill, stream
    <3>2. cap' \in Nat /\ cap <= cap' /\ dpos' = pos /\ phase' = "parse"
      BY <1>1, <2>2, LengthAssumption DEF Fill, TypeOK, Window
    <3>. QED  BY <1>1, <3>1, <3>2 DEF TypeOK, Window
  <2>3. CASE FillEmpty
    BY <1>1, <2>3 DEF FillEmpty, TypeOK, Window, reader, stream
  <2>. QED  BY <2>1, <2>2, <2>3
<1>. QED  BY <1>2, <1>3, Quiet DEF ReaderInv

\* A header is read at the place where the stream has one.
LEMMA HeaderInv == ReaderInv /\ ReadHeader => ReaderInv'
<1>. SUFFICES ASSUME ReaderInv, ReadHeader PROVE ReaderInv'
  OBVIOUS
<1>1. TypeOK /\ Window /\ InStep /\ LastFragment /\ Reassembled
  BY DEF ReaderInv
<1>2. /\ current = NoHeader /\ dpos + HEADER_LEN <= cap /\ rec \in DOMAIN recs
      /\ recs[rec] \in Record /\ HEADER_LEN \in Nat
  BY <1>1, RecordOfStream, StreamAssumption, LengthAssumption DEF ReadHeader, TypeOK, Remaining, HeaderFits
<1>3. current' = recs[rec] /\ dpos' = dpos + HEADER_LEN /\ dpos = base
  BY <1>1, <1>2 DEF ReadHeader, InStep
<1>4. UNCHANGED <<recs, arec, aoff, arrived, eof, pos, cap, phase, last, out, rec, base>>
      /\ phase = "parse"
  BY DEF ReadHeader, stream, reader
<1>5. TypeOK'
  BY <1>1, <1>2, <1>3, <1>4 DEF TypeOK
<1>6. Window'
  BY <1>1, <1>2, <1>3, <1>4 DEF Window, TypeOK
<1>7. current' # NoHeader
  BY <1>2, <1>3, NoHeaderAssumption
<1>8. InStep'
  BY <1>1, <1>2, <1>3, <1>4, <1>7 DEF InStep, TypeOK, Record
<1>9. LastFragment'
  BY <1>1, <1>2, <1>3, <1>4, <1>7 DEF LastFragment
<1>10. Reassembled'
  BY <1>1, <1>4 DEF Reassembled
<1>. QED  BY <1>5, <1>6, <1>8, <1>9, <1>10 DEF ReaderInv

\* Handing out n of the content that is left, when the record is not finished.
LEMMA PartInv ==
    ASSUME ReaderInv, current # NoHeader, NEW n \in Nat, n <= current.content,
           n <= Remaining, Emit(n),
           current' = [current EXCEPT !.content = @ - n], dpos' = dpos + n,
           UNCHANGED <<stream, reader, last, rec, base>>
    PROVE  ReaderInv'
<1>1. TypeOK /\ Window /\ InStep /\ LastFragment /\ Reassembled
  BY DEF ReaderInv
<1>2. /\ current \in Record /\ recs[rec] \in Record /\ rec \in 1 .. Len(recs)
      /\ phase' \in {"parse", "panic"}
  BY <1>1, EmitFragment
<1>3. PICK f \in Fragment :
         /\ out' = Append(out, f) /\ f.rec = rec
         /\ f.from = recs[rec].content - current.content
         /\ f.to = recs[rec].content - (current.content - n)
  BY <1>1, EmitFragment
<1>4. UNCHANGED <<recs, arec, aoff, arrived, eof, pos, cap, last, rec, base>>
  BY DEF stream, reader
<1>5. /\ current.content <= recs[rec].content /\ rec \in DOMAIN recs
      /\ current.content \in Nat /\ recs[rec].content \in Nat
  BY <1>1, <1>2 DEF InStep, Record
<1>6. /\ Reassembled' /\ out' \in Seq(Fragment)
      /\ out' # <<>> /\ out'[Len(out')] = f
  <2>1. f.from <= f.to /\ f.to <= recs[rec].content
    BY <1>3, <1>5
  <2>. QED  BY <1>1, <1>2, <1>3, <1>4, <1>5, <2>1, Extend
<1>7. /\ current' \in Record /\ current'.content = current.content - n
      /\ current'.type = current.type /\ current'.padding = current.padding
  BY <1>2, <1>5 DEF Record
<1>8. current' # NoHeader
  BY <1>7, NoHeaderAssumption
<1>. dpos \in Nat /\ base \in Nat /\ cap \in Nat /\ HEADER_LEN \in Nat
  BY <1>1, LengthAssumption DEF TypeOK
<1>9. dpos' \in Nat /\ dpos' <= cap /\ dpos <= dpos'
  BY DEF Remaining
<1>10. TypeOK'
  BY <1>1, <1>2, <1>4, <1>6, <1>7, <1>9 DEF TypeOK, Fragment
<1>11. Window'
  BY <1>1, <1>2, <1>4, <1>9 DEF Window, TypeOK
<1>12. InStep'
  <2>1. dpos' = base + HEADER_LEN + recs[rec].content - current'.content
        /\ current'.content <= recs[rec].content
    BY <1>1, <1>5, <1>7 DEF InStep
  <2>. QED  BY <1>1, <1>4, <1>5, <1>7, <1>8, <2>1 DEF InStep
<1>13. LastFragment'
  BY <1>3, <1>4, <1>6, <1>7, <1>8 DEF LastFragment
<1>. QED  BY <1>6, <1>10, <1>11, <1>12, <1>13 DEF ReaderInv

\* The rest of a record is in the buffer: its content is handed out, its padding
\* skipped, and the parser stands at the next header.
LEMMA WholeInv == ReaderInv /\ ReadWhole => ReaderInv'
<1>. SUFFICES ASSUME ReaderInv, ReadWhole PROVE ReaderInv'
  OBVIOUS
<1>1. TypeOK /\ Window /\ InStep /\ LastFragment /\ Reassembled
  BY DEF ReaderInv
<1>2. /\ current # NoHeader /\ Emit(current.content) /\ current' = NoHeader
      /\ current \in Record /\ current.content \in Nat /\ current.padding \in Nat
  BY <1>1 DEF ReadWhole, TypeOK, Record
<1>3. /\ recs[rec] \in Record /\ rec \in 1 .. Len(recs) /\ phase' \in {"parse", "panic"}
  BY <1>1, <1>2, EmitFragment
<1>4. PICK f \in Fragment :
         /\ out' = Append(out, f) /\ f.rec = rec
         /\ f.from = recs[rec].content - current.content
         /\ f.to = recs[rec].content - (current.content - current.content)
  BY <1>1, <1>2, EmitFragment
<1>5. UNCHANGED <<recs, arec, aoff, arrived, eof, pos, cap, last>>
  BY DEF ReadWhole, stream, reader
<1>6. /\ current.content <= recs[rec].content /\ rec \in DOMAIN recs
      /\ recs[rec].content \in Nat /\ recs[rec].padding = current.padding
  BY <1>1, <1>2, <1>3 DEF InStep, Record
<1>7. f.to = recs[rec].content
  BY <1>2, <1>4, <1>6
<1>8. /\ Reassembled' /\ out' \in Seq(Fragment)
      /\ out' # <<>> /\ out'[Len(out')] = f
  <2>1. f.from <= f.to
    BY <1>2, <1>4, <1>6, <1>7
  <2>. QED  BY <1>1, <1>2, <1>3, <1>4, <1>5, <1>6, <1>7, <2>1, Extend
<1>9. /\ dpos' = dpos + current.content + current.padding
      /\ rec' = rec + 1 /\ base' = base + Size(recs[rec])
  BY <1>3 DEF ReadWhole
<1>. dpos \in Nat /\ base \in Nat /\ cap \in Nat /\ HEADER_LEN \in Nat
  BY <1>1, LengthAssumption DEF TypeOK
<1>10. dpos' \in Nat /\ dpos' <= cap /\ dpos <= dpos'
  <2>1. current.content + current.padding <= cap - dpos
    BY DEF ReadWhole, Remaining
  <2>. QED  BY <1>2, <1>9, <2>1
<1>11. base' \in Nat
  <2>1. Size(recs[rec]) \in Nat
    BY <1>3, SizeType
  <2>. QED  BY <1>9, <2>1
<1>12. TypeOK'
  <2>1. rec' \in Nat \ {0} /\ phase' \in {"idle", "parse", "panic"}
    BY <1>3, <1>9
  <2>. QED  BY <1>1, <1>2, <1>5, <1>8, <1>10, <1>11, <2>1 DEF TypeOK, Fragment
<1>13. Window'
  BY <1>1, <1>3, <1>5, <1>10 DEF Window, TypeOK
<1>14. InStep'
  <2>1. dpos' = base'
    <3>1. dpos = base + HEADER_LEN + recs[rec].content - current.content
      BY <1>1, <1>2 DEF InStep
    <3>. QED  BY <1>2, <1>6, <1>9, <3>1 DEF Size
  <2>. QED  BY <1>2, <2>1 DEF InStep
<1>15. LastFragment'
  BY <1>2, <1>4, <1>5, <1>7, <1>8, <1>9 DEF LastFragment
<1>. QED  BY <1>8, <1>12, <1>13, <1>14, <1>15 DEF ReaderInv

\* The bytes left do not make up a header, or nothing is left: read returns None.
LEMMA NoneInv == ReaderInv /\ ReadNone => ReaderInv'
<1>. SUFFICES ASSUME ReaderInv, ReadNone PROVE ReaderInv'
  OBVIOUS
<1>1. TypeOK /\ Window /\ dpos \in Nat
  BY DEF ReaderInv, TypeOK
<1>2. /\ UNCHANGED <<recs, arec, aoff, arrived, eof, cap, dpos, current, out, rec, base>>
      /\ pos' = dpos /\ phase' = "idle" /\ last' \in {"closed", "ok"}
  BY DEF ReadNone, Done, stream
<1>3. TypeOK' /\ Window'
  BY <1>1, <1>2 DEF TypeOK, Window
<1>. QED  BY <1>2, <1>3, Quiet DEF ReaderInv

-----------------------------------------------------------------------------
(* The theorems *)

\* At first the parser stands at the first header.
LEMMA ReaderInit == Init => ReaderInv
<1>. SUFFICES ASSUME Init PROVE ReaderInv
  OBVIOUS
<1>1. out \in Seq(Fragment)
  BY DEF Init
<1>2. TypeOK
  <2>1. /\ recs \in Streams /\ eof \in BOOLEAN
        /\ current \in Record \cup {NoHeader}
        /\ phase \in {"idle", "parse", "panic"}
        /\ last \in {"none", "ok", "pending", "closed"}
    BY Zenon DEF Init
  <2>2. /\ arec \in Nat \ {0} /\ aoff \in Nat /\ arrived \in Nat
        /\ pos \in Nat /\ cap \in Nat /\ dpos \in Nat
        /\ rec \in Nat \ {0} /\ base \in Nat
    BY SMT DEF Init
  <2>. QED  BY <1>1, <2>1, <2>2, Zenon DEF TypeOK, Fragment
<1>3. Window /\ InStep
  BY DEF Init, Window, InStep
<1>4. LastFragment /\ Reassembled
  BY DEF Init, LastFragment, Reassembled
<1>. QED  BY <1>2, <1>3, <1>4 DEF ReaderInv

\* Every step of poll_resp and of the stream keeps the invariant.
LEMMA ReaderNext == ReaderInv /\ [Next]_vars => ReaderInv'
<1>. SUFFICES ASSUME ReaderInv, [Next]_vars PROVE ReaderInv'
  OBVIOUS
<1>1. CASE Arrive
  BY <1>1, ArriveInv
<1>2. CASE CloseStream \/ Fill \/ FillEmpty
  BY <1>2, BufferInv
<1>3. CASE ReadHeader
  BY <1>3, HeaderInv
<1>4. CASE ReadFragment
  <2>1. Remaining \in Nat /\ Remaining <= current.content /\ cap = dpos + Remaining
    BY <1>4 DEF ReadFragment, ReaderInv, TypeOK, Window, Remaining, Record
  <2>. QED  BY <1>4, <2>1, PartInv DEF ReadFragment
<1>5. CASE ReadNoPadding
  <2>1. current.content \in Nat /\ current.content - current.content = 0
    BY <1>5 DEF ReadNoPadding, ReaderInv, TypeOK, Record
  <2>2. current' = [current EXCEPT !.content = @ - current.content]
    BY <1>5, <2>1 DEF ReadNoPadding
  <2>3. current.content <= Remaining
    BY <1>5, <2>1 DEF ReadNoPadding, Remaining, ReaderInv, TypeOK
  <2>. QED  BY <1>5, <2>1, <2>2, <2>3, PartInv DEF ReadNoPadding
<1>6. CASE ReadWhole
  BY <1>6, WholeInv
<1>7. CASE ReadNone
  BY <1>7, NoneInv
<1>8. CASE UNCHANGED vars
  BY <1>8, Quiet DEF vars, stream, reader, ReaderInv, TypeOK, Window
<1>. QED  BY <1>1, <1>2, <1>3, <1>4, <1>5, <1>6, <1>7, <1>8 DEF Next, Read

\* The inductive invariant holds of every behaviour of the reader.
THEOREM ReaderInvariant == Spec => []ReaderInv
BY ReaderInit, ReaderNext, PTL DEF Spec

\* Every value poll_resp, BufReader and RecordReader keep has its type: no offset
\* or remaining length of RecordReader.current becomes negative.
THEOREM ReaderTypeCorrect == Spec => []TypeOK
<1>1. ReaderInv => TypeOK
  BY DEF ReaderInv
<1>. QED  BY <1>1, ReaderInvariant, PTL

\* RecordReader::read takes a header only where a record starts, and what it
\* remembers in current is what is left of the record it is in.
THEOREM ReaderInStep == Spec => []InStep
<1>1. ReaderInv => InStep
  BY DEF ReaderInv
<1>. QED  BY <1>1, ReaderInvariant, PTL

\* RecordReader::read hands out the content of the records, each byte once and
\* in order, and neither header nor padding.
THEOREM ReaderReassembles == Spec => []Reassembled
<1>1. ReaderInv => Reassembled
  BY DEF ReaderInv
<1>. QED  BY <1>1, ReaderInvariant, PTL

\* The step to a panic: the fragment just handed out is of an EndRequest.
LEMMA PanicStep == ReaderInv /\ PanicOnlyIfCut /\ [Next]_vars => PanicOnlyIfCut'
<1>. SUFFICES ASSUME ReaderInv, PanicOnlyIfCut, [Next]_vars, phase' = "panic"
              PROVE  LET l == out'[Len(out')]
                         r == recs'[l.rec]
                     IN  r.type = "end" /\ (l.to - l.from < r.content \/ r.content < END_LEN)
  BY DEF PanicOnlyIfCut
<1>1. CASE phase = "panic"
  <2>1. UNCHANGED <<recs, out>>
    BY <1>1 DEF Next, Arrive, CloseStream, Fill, FillEmpty, Read, ReadHeader, ReadFragment,
                ReadNoPadding, ReadWhole, ReadNone, vars, stream
  <2>. QED  BY <1>1, <2>1 DEF PanicOnlyIfCut
<1>2. CASE phase # "panic"
  <2>1. ReadFragment \/ ReadNoPadding \/ ReadWhole
    BY <1>2 DEF Next, Arrive, CloseStream, Fill, FillEmpty, Read, ReadHeader, ReadNone, Done, vars
  <2>2. current # NoHeader /\ recs' = recs
    BY <2>1 DEF ReadFragment, ReadNoPadding, ReadWhole, stream
  <2>3. TypeOK /\ Window /\ InStep
    BY DEF ReaderInv
  <2>4. current \in Record /\ current.content \in Nat
    BY <2>2, <2>3 DEF TypeOK, Record
  <2>5. PICK n \in Nat : n <= current.content /\ Emit(n)
    <3>1. CASE ReadFragment
      <4>1. Remaining \in Nat /\ Remaining <= current.content
        BY <2>3, <2>4, <3>1 DEF ReadFragment, TypeOK, Window, Remaining
      <4>. QED  BY <3>1, <4>1 DEF ReadFragment
    <3>2. CASE ReadNoPadding \/ ReadWhole
      BY <2>4, <3>2 DEF ReadNoPadding, ReadWhole
    <3>. QED  BY <2>1, <3>1, <3>2
  <2>6. /\ recs[rec] \in Record
        /\ \E f \in Fragment :
              /\ out' = Append(out, f) /\ f.rec = rec
              /\ f.from = recs[rec].content - current.content
              /\ f.to = recs[rec].content - (current.content - n)
    BY <2>2, <2>3, <2>5, EmitFragment
  <2>7. PICK f \in Fragment :
              /\ out' = Append(out, f) /\ f.rec = rec
              /\ f.from = recs[rec].content - current.content
              /\ f.to = recs[rec].content - (current.content - n)
    BY <2>6
  <2>8. out'[Len(out')] = f
    <3>1. out \in Seq(Fragment)
      BY <2>3 DEF TypeOK, Fragment
    <3>. QED  BY <2>7, <3>1
  <2>9. recs[rec].content \in Nat /\ current.content <= recs[rec].content /\ recs[rec].type = current.type
    BY <2>2, <2>3, <2>6 DEF InStep, Record
  <2>10. current.type = "end" /\ n < END_LEN
    BY <2>5 DEF Emit
  <2>11. f.to - f.from = n
    BY <2>4, <2>5, <2>7, <2>9
  <2>12. n < recs[rec].content \/ recs[rec].content < END_LEN
    BY <2>5, <2>9, <2>10, LengthAssumption
  <2>. QED  BY <2>2, <2>7, <2>8, <2>9, <2>10, <2>11, <2>12
<1>. QED  BY <1>1, <1>2

\* Record::parse_body panics only on an EndRequest that was cut by the reads or is
\* too short as it was sent, never on output.
THEOREM ReaderPanics == Spec => []PanicOnlyIfCut
<1>1. Init => PanicOnlyIfCut
  BY DEF Init, PanicOnlyIfCut
<1>. QED  BY <1>1, PanicStep, ReaderInvariant, PTL DEF Spec
=============================================================================
