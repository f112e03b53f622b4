--------------------------- MODULE MCRecordReader ---------------------------
(* Small instances of RecordReader for TLC. *)
EXTENDS RecordReader

Rec(type, content, padding) == [type |-> type, content |-> content, padding |-> padding]

\* All streams of two output records followed by the end of the request.
Outputs  == {Rec("stdout", c, p) : c \in 0 .. 3, p \in 0 .. 2} \cup {Rec("stderr", 1, 1)}
WithEnd  == {<<a, b, Rec("end", 2, 0)>> : a \in Outputs, b \in Outputs}

\* Output alone, for what holds as long as no EndRequest is cut.
NoEnd    == {<<a, b>> : a \in Outputs, b \in Outputs}

Everywhere == {"header", "content", "padding", "nopad"}
=============================================================================
