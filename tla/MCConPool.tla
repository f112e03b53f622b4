----------------------------- MODULE MCConPool ------------------------------
(* Small instances of ConPool for TLC: bytes of 4 bits, text with two digits. *)
EXTENDS ConPool

mc_CONNS == <<5>>
mc_REQS  == <<6>>
mc_MPXS  == <<7>>

MkPair(name, value) == [name |-> name, value |-> value]

\* 0, 2, 4 (too large for U8), 8 (too large for U16), +1, + and no number
Values == {<<0>>, <<1, 0>>, <<1, 0, 0>>, <<1, 0, 0, 0>>, <<2, 1>>, <<2>>, <<>>}

Limits == {MkPair(n, v) : n \in {mc_CONNS, mc_REQS, mc_MPXS}, v \in Values}

\* Other names; a value and a name on both sides of the short length, an empty
\* name and a pair that no record can hold.
Text(n) == [i \in 1 .. n |-> 9]
Odd == {MkPair(Text(1), Text(7)), MkPair(Text(1), Text(8)), MkPair(Text(8), Text(1)),
        MkPair(<<>>, Text(1)), MkPair(Text(8), Text(8))}

Core == {x \in Limits : x.value \in {<<0>>, <<1, 0>>}}

AnyAnswer == {<<>>} \cup {<<p>> : p \in Limits \cup Odd}
             \cup {<<p, q>> : p \in Core, q \in Limits \cup Odd}
             \cup {<<p, q>> : p \in Odd, q \in Core}
             \cup {<<p, q, r>> : p, q, r \in Core}
             \cup {<<MkPair(mc_MPXS, <<0>>), q, r>> : q \in Odd, r \in Core}
=============================================================================
