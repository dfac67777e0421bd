----------------------------- MODULE BoundedFifo -----------------------------
(* What an AXI-Stream channel promises its two ends: beats leave in the order *)
(* they were accepted, none is lost or duplicated, and at most Capacity are   *)
(* inside.  axis_fifo and the chain of pipeline registers both implement it.  *)
(* One step is one clock edge: a push, a pop, both, or a reset that empties   *)
(* the channel.                                                               *)
EXTENDS Naturals, Sequences

CONSTANTS Data,      \* what a beat carries
          Capacity   \* beats the channel can hold

VARIABLE q           \* the beats inside, oldest first

Init == q = <<>>

Push(d) == /\ Len(q) < Capacity
           /\ q' = Append(q, d)

Pop == /\ q # <<>>
       /\ q' = Tail(q)

(* A full channel may accept a beat on the edge on which its oldest leaves.   *)
PushPop(d) == /\ q # <<>>
              /\ q' = Append(Tail(q), d)

Reset == q' = <<>>

Next == \/ \E d \in Data : Push(d) \/ PushPop(d)
        \/ Pop
        \/ Reset

Spec == Init /\ [][Next]_q
=============================================================================
