----------------------------- MODULE NameValue ------------------------------
(***************************************************************************)
(* Name-value pairs: NameValuePair, NVBody and NVBodyList of fastcgi.rs,   *)
(* the BufList they are kept in and parse_int of con_pool.rs, as           *)
(* operators.  A byte is a number below BYTE, Bytes are a sequence, and a  *)
(* BufList is a sequence of those.  Text uses the bytes below RADIX as its *)
(* digits.                                                                 *)
(***************************************************************************)
EXTENDS Integers, Sequences, SequencesExt

CONSTANTS
    BYTE,         \* values of a byte (256); lengths from BYTE / 2 on take four bytes
    RADIX,        \* digits of a number in text (10)
    PLUS,         \* the byte of a leading plus sign
    MAX_LENGTH,   \* Body::MAX_LENGTH, the longest content of a record (0xffff)
    ALIGN         \* records are padded to a multiple of this (8)

ASSUME ByteAssumption == BYTE \in Nat /\ BYTE > 1 /\ BYTE % 2 = 0 /\ RADIX \in 2 .. BYTE - 1
                         /\ PLUS \in RADIX .. BYTE - 1
ASSUME RecordAssumption == MAX_LENGTH \in Nat /\ ALIGN \in Nat \ {0}

Bytes == Seq(0 .. BYTE - 1)
Pair  == [name : Bytes, value : Bytes]
HALF  == BYTE \div 2

-----------------------------------------------------------------------------
(* BufList *)

\* BufList::remaining
Remaining(bufs) ==
    LET sum[n \in 0 .. Len(bufs)] == IF n = 0 THEN 0 ELSE sum[n - 1] + Len(bufs[n])
    IN  sum[Len(bufs)]

\* BufList::chunk
FirstBuf(bufs) == IF bufs = <<>> THEN <<>> ELSE Head(bufs)

\* BufList::advance by at most the front buffer.
Advance(bufs, cnt) ==
    CASE cnt = 0                          -> bufs
      [] cnt > 0 /\ cnt = Len(Head(bufs)) -> Tail(bufs)
      [] OTHER -> <<SubSeq(Head(bufs), cnt + 1, Len(Head(bufs)))>> \o Tail(bufs)

-----------------------------------------------------------------------------
(* Encoding *)

\* Mutant: the three more bytes of a long length are forgotten for values.
PairLen_ShortValue(p) ==
    Len(p.name) + Len(p.value) + 2 + (IF Len(p.name) >= HALF THEN 3 ELSE 0)

\* NameValuePair::len
PairLen(p) ==
    Len(p.name) + Len(p.value) + 2 + (IF Len(p.name) >= HALF THEN 3 ELSE 0)
                                   + (IF Len(p.value) >= HALF THEN 3 ELSE 0)

\* put_u8, or put_u32 with the top bit set
LengthBytes(n) ==
    IF n < HALF
    THEN <<n>>
    ELSE <<HALF + ((((n \div BYTE) \div BYTE) \div BYTE) % HALF), ((n \div BYTE) \div BYTE) % BYTE,
           (n \div BYTE) % BYTE, n % BYTE>>

\* NVBody::new; pairs is a BufList, len the u16 counted beside it.
EmptyBody == [pairs |-> <<>>, len |-> 0]

\* NVBody::fits
Fits(body, p) == PairLen(p) + body.len <= MAX_LENGTH

\* NVBody::add of a pair that fits: lengths, name, and value unless it is empty.
Add(body, p) ==
    [pairs |-> body.pairs \o <<LengthBytes(Len(p.name)) \o LengthBytes(Len(p.value)), p.name>>
                          \o (IF p.value = <<>> THEN <<>> ELSE <<p.value>>),
     len   |-> body.len + PairLen(p)]

\* NVBody::to_record
Padding(n) == IF n % ALIGN = 0 THEN 0 ELSE ALIGN - (n % ALIGN)

-----------------------------------------------------------------------------
(* Decoding *)

\* NameValuePair::param_length returns only for the short form: for the long
\* one it asks a slice of three bytes for four, and panics.
ShortLength(data, pos) == pos <= Len(data) /\ data[pos] < HALF

\* NameValuePair::parse does not panic.
Parsable(data) ==
    ShortLength(data, 1) /\ ShortLength(data, 2) /\ 2 + data[1] + data[2] <= Len(data)

\* Mutant: the two lengths are swapped.
Parse_Swapped(data) ==
    LET n == data[2]
        v == data[1]
    IN  [name |-> SubSeq(data, 3, 2 + n), value |-> SubSeq(data, 3 + n, 2 + n + v)]

\* NameValuePair::parse: the first pair, and what is left of data behind it.
Parse(data) ==
    LET n == data[1]
        v == data[2]
    IN  [name |-> SubSeq(data, 3, 2 + n), value |-> SubSeq(data, 3 + n, 2 + n + v)]

\* Mutant: the last byte of the value is left.
Rest_Behind(data) == SubSeq(data, 2 + data[1] + data[2], Len(data))

Rest(data) == SubSeq(data, 3 + data[1] + data[2], Len(data))

-----------------------------------------------------------------------------
(* parse_int *)

Number(text) == FoldLeft(LAMBDA n, d : n * RADIX + d, 0, text)

\* A leading plus sign does not count.
Unsigned(text) == IF text # <<>> /\ Head(text) = PLUS THEN Tail(text) ELSE text

IsNumber(text) == text # <<>> /\ \A i \in DOMAIN text : text[i] < RADIX

\* Mutant: the limit itself passes.
ParseInt_Limit(text, limit) ==
    IF IsNumber(Unsigned(text)) THEN {Number(Unsigned(text))} \cap (0 .. limit) ELSE {}

\* from_str of an unsigned integer type with limit values; {} is None.
ParseInt(text, limit) ==
    IF IsNumber(Unsigned(text)) THEN {Number(Unsigned(text))} \cap (0 .. limit - 1) ELSE {}
=============================================================================
