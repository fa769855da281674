------------------------------ MODULE Pipeline ------------------------------
(***************************************************************************)
(* What a keep-alive HTTP connection with pipelining promises its client:  *)
(* requests are answered in the order they were asked, one reply each, up  *)
(* to and including the first request that ends the conversation.          *)
(***************************************************************************)
EXTENDS Naturals, Sequences

CONSTANTS Reply(_, _), \* the reply to a request, the i-th
          Ready(_),  \* enough of the request has been asked to reply
          Ends(_)    \* the conversation ends with the reply to this request

VARIABLES asked,     \* the requests, in the order they were asked
          replies,   \* the replies, in the order they were given
          cut        \* the conversation was broken off

vars == <<asked, replies, cut>>

Init == asked = <<>> /\ replies = <<>> /\ cut = FALSE

Ask == /\ Len(asked') = Len(asked) + 1
       /\ SubSeq(asked', 1, Len(asked)) = asked
       /\ UNCHANGED <<replies, cut>>

Cut == cut' = TRUE /\ UNCHANGED <<asked, replies>>

Answer ==
    LET n == Len(replies) + 1
    IN  /\ ~cut
        /\ n <= Len(asked)
        /\ Ready(asked[n])
        /\ \A j \in 1..n - 1 : ~Ends(asked[j])
        /\ replies' = Append(replies, Reply(asked[n], n))
        /\ UNCHANGED <<asked, cut>>

Next == Ask \/ Cut \/ Answer

\* Nothing else is ever answered, and what can be answered is.
Safety   == Init /\ [][Next]_vars
Liveness == WF_vars(Answer)

Spec == Safety /\ Liveness
=============================================================================
