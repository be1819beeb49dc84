--------------------------- MODULE DeltaChannels ---------------------------
(***************************************************************************)
(* What the delta queue promises (wirelog/util/lockfree_queue.h): one FIFO *)
(* channel of bounded length per worker, which loses, duplicates, reorders *)
(* and invents nothing; a message is refused only when its channel is      *)
(* full, and the queue is destroyed only when no message is left in it.    *)
(***************************************************************************)
EXTENDS Integers, Sequences

CONSTANTS Producers, Cap, Stamps

VARIABLES chan,     \* messages in flight, by producer
          next,     \* stamp of the producer's next message
          verdict,  \* what the producer's last enqueue returned
          got,      \* the message last received from each producer
          open

Init ==
    /\ chan = [w \in Producers |-> <<>>]
    /\ next = [w \in Producers |-> 0]
    /\ verdict = [w \in Producers |-> 0]
    /\ got = [w \in Producers |-> Stamps]
    /\ open = TRUE

Send(w) ==
    /\ open /\ Len(chan[w]) < Cap
    /\ chan' = [chan EXCEPT ![w] = Append(@, next[w])]
    /\ next' = [next EXCEPT ![w] = (@ + 1) % Stamps]
    /\ verdict' = [verdict EXCEPT ![w] = 0]
    /\ UNCHANGED <<got, open>>

Refuse(w) ==
    /\ open /\ Len(chan[w]) = Cap
    /\ verdict' = [verdict EXCEPT ![w] = -1]
    /\ UNCHANGED <<chan, next, got, open>>

Receive(w) ==
    /\ open /\ chan[w] # <<>>
    /\ got' = [got EXCEPT ![w] = Head(chan[w])]
    /\ chan' = [chan EXCEPT ![w] = Tail(@)]
    /\ UNCHANGED <<next, verdict, open>>

Close ==
    /\ open /\ \A w \in Producers : chan[w] = <<>>
    /\ open' = FALSE
    /\ UNCHANGED <<chan, next, verdict, got>>

Next == (\E w \in Producers : Send(w) \/ Refuse(w) \/ Receive(w)) \/ Close
Spec == Init /\ [][Next]_<<chan, next, verdict, got, open>>
=============================================================================
