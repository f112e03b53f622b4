---------------------------- MODULE MCFCGIWriter ----------------------------
(* Small instances of FCGIWriter for TLC. *)
EXTENDS FCGIWriter

\* Up to three pieces, empty ones and ones that fill more than a record included.
Pieces == UNION {[1 .. n -> {0, 1, 2, 5, 6, 7, 12, 13}] : n \in 0 .. 3}

MkJob(kind, pieces, bad, announced) ==
    [kind |-> kind, pieces |-> pieces, bad |-> bad, announced |-> announced]

\* Pairs; bodies that are as long as announced or one byte too short; bodies of
\* which a piece is missing, announced with it and without; a fixed record.
Exact == {MkJob("kv", p, {}, 0) : p \in Pieces}
         \cup {MkJob(k, p, {}, Total(p) + d) : k \in {"data", "chunk"}, p \in Pieces, d \in {0, 1}}
         \cup {MkJob(k, <<m, n, 2>>, {2}, m + 2 + d) :
                  k \in {"data", "chunk"}, m \in {0, 5, 7}, n \in {1, 6}, d \in {0, 1, 6}}
         \cup {MkJob("fixed", <<>>, {}, 0)}

\* Bodies that get longer than announced: size_hint().lower() of a stream.
Longer == {MkJob("chunk", p, {}, Total(p) - 1) : p \in {q \in Pieces : Total(q) > 0}}
=============================================================================
