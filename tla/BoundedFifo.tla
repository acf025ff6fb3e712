---------------------------- MODULE BoundedFifo ----------------------------
(* What the audio ring promises its two ends: the frames that come out are  *)
(* those that were put in, in the order they were put in, each once; no     *)
(* more than Bound are held, and a clear drops all of them.  A frame is its *)
(* number.                                                                  *)
EXTENDS Naturals, Sequences

CONSTANT Bound              \* frames the queue can hold

VARIABLES accepted,         \* frames put in so far
          queue,            \* frames put in and not delivered
          delivered         \* every frame delivered so far, in order

fifo == <<accepted, queue, delivered>>

Init == accepted = 0 /\ queue = <<>> /\ delivered = <<>>

Put == \E n \in 1 .. Bound - Len(queue) :
         /\ accepted' = accepted + n
         /\ queue' = queue \o [i \in 1 .. n |-> accepted + i]
         /\ UNCHANGED delivered

Get == \E n \in 1 .. Len(queue) :
         /\ queue' = SubSeq(queue, n + 1, Len(queue))
         /\ delivered' = delivered \o SubSeq(queue, 1, n)
         /\ UNCHANGED accepted

Clear == queue' = <<>> /\ UNCHANGED <<accepted, delivered>>

Next == Put \/ Get \/ Clear
Spec == Init /\ [][Next]_fifo
=============================================================================
