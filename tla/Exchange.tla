------------------------------ MODULE Exchange ------------------------------
(***************************************************************************)
(* What Connection promises its callers: every request has a channel of    *)
(* its own.  The application's output for a request goes in at one end in  *)
(* order, the caller of that request takes it out at the other, first the  *)
(* header and then the body.  There is no id, no shared socket, no buffer  *)
(* and no mutex.                                                           *)
(*                                                                         *)
(* A lost connection cuts requests off: nothing comes for them any more,   *)
(* and the tail of what was under way may be gone.  A request the          *)
(* application ended is never cut off, and its caller reaches the end of   *)
(* the body only with everything that was put out.  A request that was not *)
(* ended may be taken for finished at any time.                            *)
(*                                                                         *)
(* Two irregularities of the code are part of the promise.  Body data that *)
(* shared a chunk with the header comes back into the channel anywhere, so *)
(* that one chunk may be out of order.  And once the application has read  *)
(* past a torn record nothing is promised any more.                        *)
(***************************************************************************)
EXTENDS Integers, Sequences

CONSTANT Req

VARIABLES
    produced,  \* chunks the application has put out for each request
    chan,      \* chunks under way to the caller
    reading,   \* what the call looks for: "header", "rest" (body data it holds back) or "body"
    kept,      \* number of the chunk that is held back
    got,       \* chunks of the body the caller has
    ended,     \* requests the application ended, with everything under way
    gone,      \* requests that were read to their end, failed or were given up
    lost,      \* requests cut off from the application before it ended them
    spoilt     \* the application reads what nobody wrote

vars == <<produced, chan, reading, kept, got, ended, gone, lost, spoilt>>

Chunk(r, n) == [req |-> r, n |-> n]

Init ==
    /\ produced = [r \in Req |-> 0]
    /\ chan = [r \in Req |-> <<>>]
    /\ reading = [r \in Req |-> "header"]
    /\ kept = [r \in Req |-> 1]
    /\ got = [r \in Req |-> <<>>]
    /\ ended = {}
    /\ gone = {}
    /\ lost = {}
    /\ spoilt = FALSE

-----------------------------------------------------------------------------
\* The application puts out the next chunk; without a caller it is not heard.
Produce(r) ==
    /\ r \notin ended \cup lost
    /\ produced' = [produced EXCEPT ![r] = @ + 1]
    /\ chan' = IF r \in gone THEN chan
               ELSE [chan EXCEPT ![r] = Append(@, Chunk(r, produced[r] + 1))]
    /\ UNCHANGED <<reading, kept, got, ended, gone, lost, spoilt>>

\* The end of the request reaches the caller's side.
End(r) ==
    /\ r \notin ended \cup lost
    /\ ended' = ended \cup {r}
    /\ UNCHANGED <<produced, chan, reading, kept, got, gone, lost, spoilt>>

\* The oldest chunk is header: all of it, or up to data that is held back.
TakeHeader(r) ==
    /\ r \notin gone /\ reading[r] = "header" /\ chan[r] # <<>>
    /\ chan' = [chan EXCEPT ![r] = Tail(@)]
    /\ \E to \in {"header", "rest", "body"} :
          /\ reading' = [reading EXCEPT ![r] = to]
          /\ kept' = [kept EXCEPT ![r] = Head(chan[r]).n + (IF to = "rest" THEN 0 ELSE 1)]
    /\ UNCHANGED <<produced, got, ended, gone, lost, spoilt>>

\* The response is over before its header.
NoHeader(r) ==
    /\ r \notin gone /\ reading[r] = "header" /\ (r \in ended => chan[r] = <<>>)
    /\ reading' = [reading EXCEPT ![r] = "body"]
    /\ UNCHANGED <<produced, chan, kept, got, ended, gone, lost, spoilt>>

\* What was held back goes into the channel again, somewhere.
GiveBack(r) ==
    /\ r \notin gone /\ reading[r] = "rest"
    /\ \E i \in 0 .. Len(chan[r]) :
          chan' = [chan EXCEPT ![r] = SubSeq(@, 1, i) \o <<Chunk(r, kept[r])>>
                                      \o SubSeq(@, i + 1, Len(@))]
    /\ reading' = [reading EXCEPT ![r] = "body"]
    /\ UNCHANGED <<produced, kept, got, ended, gone, lost, spoilt>>

\* The caller takes the oldest chunk, and may learn that it was the last one.
Deliver(r) ==
    /\ r \notin gone /\ reading[r] = "body" /\ chan[r] # <<>>
    /\ got' = [got EXCEPT ![r] = Append(@, Head(chan[r]))]
    /\ \/ /\ chan' = [chan EXCEPT ![r] = Tail(@)]
          /\ UNCHANGED gone
       \/ /\ r \in ended => Tail(chan[r]) = <<>>
          /\ chan' = [chan EXCEPT ![r] = <<>>]
          /\ gone' = gone \cup {r}
    /\ UNCHANGED <<produced, reading, kept, ended, lost, spoilt>>

\* The body is over.  If the application ended the request nothing is left.
Finish(r) ==
    /\ r \notin gone /\ reading[r] = "body"
    /\ r \in ended => chan[r] = <<>>
    /\ chan' = [chan EXCEPT ![r] = <<>>]
    /\ gone' = gone \cup {r}
    /\ UNCHANGED <<produced, reading, kept, got, ended, lost, spoilt>>

\* The call fails, or its caller loses interest; if nobody told the application of
\* it yet, nobody will.
GiveUp(r) ==
    /\ r \notin gone
    /\ chan' = [chan EXCEPT ![r] = <<>>]
    /\ gone' = gone \cup {r}
    /\ lost' \in {lost, lost \cup {r}}
    /\ UNCHANGED <<produced, reading, kept, got, ended, spoilt>>

\* What may be left of a channel when the connection is lost: any prefix if the
\* request is cut off, everything otherwise.
Cut(r) == {SubSeq(chan[r], 1, n) : n \in IF r \in lost' THEN 0 .. Len(chan[r]) ELSE {Len(chan[r])}}

Lose ==
    /\ lost \subseteq lost' /\ lost' \subseteq Req /\ (lost' \ lost) \cap ended = {}
    /\ DOMAIN chan' = Req
    /\ \A r \in Req : chan'[r] \in Cut(r)
    /\ UNCHANGED <<produced, reading, kept, got, ended, gone, spoilt>>

\* After this anything may happen.
Spoil == spoilt'

Next == Lose \/ Spoil \/ \E r \in Req : Produce(r) \/ End(r) \/ TakeHeader(r) \/ NoHeader(r) \/ GiveBack(r)
                                \/ Deliver(r) \/ Finish(r) \/ GiveUp(r)

Spec == Init /\ [][Next]_vars
=============================================================================
