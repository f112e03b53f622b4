------------------------- MODULE ConnectionExchange -------------------------
(***************************************************************************)
(* Connection implements Exchange: sharing one socket, one slab and one    *)
(* mutex between the calls cannot be told from a channel for each of them. *)
(***************************************************************************)
EXTENDS Connection

\* The output of t that was sent and not read from the socket yet, by number.
OnWire(t) == {inbuf[i].n : i \in {j \in DOMAIN inbuf : inbuf[j].type = "stdout" /\ inbuf[j].req = t}}

\* In the channel of t these are the last chunks that were put in.
Underway(t) ==
    LET left == Cardinality(OnWire(t))
    IN  [i \in 1 .. left |-> [req |-> t, n |-> sent[t] - left + i]]

Over(t) == pc[t] \in {"done", "failed", "dropped"}

Channel(t) ==
    CASE Over(t)            -> <<>>
      [] pc[t] \in Owning   -> slab[key[t]].buf \o Underway(t)
      [] OTHER              -> Underway(t)

Reads(t) ==
    CASE rsp[t] = "push" -> "rest"
      [] rsp[t] = "done" -> "body"
      [] OTHER           -> "header"

\* Nobody works on t, will begin to or has ended it, as far as its own connection goes.
Unheard(t) ==
    /\ pc[t] \notin {"acquire", "lock", "alive", "connect", "begin"} /\ t \notin fin
    /\ \A x \in active : x.req # t
    /\ \A i \in DOMAIN outbuf : outbuf[i].type = "begin" => outbuf[i].req # t
    /\ \A i \in DOMAIN inbuf : inbuf[i].type = "end" => inbuf[i].req # t

E == INSTANCE Exchange WITH
        produced <- sent,
        chan     <- [t \in Req |-> Channel(t)],
        reading  <- [t \in Req |-> Reads(t)],
        kept     <- first,
        got      <- got,
        ended    <- fin,
        gone     <- {t \in Req : Over(t)},
        lost     <- {t \in Req : Unheard(t)},
        spoilt   <- garbled # "no"

\* Every call has its own channel to the application: its caller gets the output of
\* its request, each chunk once and in order but for the rest of the header chunk,
\* which create_response gives back (GiveBack), and if the application ended the
\* request all of it, whatever the other calls and the connection do, unless the
\* application read past a torn record (Spoil).  Output stops with the connection.
PrivateChannels == E!Spec
=============================================================================
