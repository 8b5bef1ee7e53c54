------------------------------ MODULE FifoLink ------------------------------
(***************************************************************************)
(* What a point-to-point link promises its upper layer: the packets it     *)
(* accepted are handed up at the far end unchanged, in the order they were *)
(* accepted, each at most once; a packet may be lost (channel refusal,     *)
(* corruption) but never reordered, duplicated or altered.                 *)
(***************************************************************************)
EXTENDS Sequences, SequencesExt

CONSTANT Packets           \* what the upper layer may hand to the link

VARIABLES pending,         \* accepted, not yet handed up nor lost
          delivered        \* handed up at the far end, in order

vars == <<pending, delivered>>

Init == pending = <<>> /\ delivered = <<>>

Accept(p) == /\ pending' = Append(pending, p)
             /\ UNCHANGED delivered

Deliver == /\ pending # <<>>
           /\ delivered' = Append(delivered, Head(pending))
           /\ pending' = Tail(pending)

Lose(i) == /\ pending' = RemoveAt(pending, i)
           /\ UNCHANGED delivered

Next == \/ \E p \in Packets : Accept(p)
        \/ Deliver
        \/ \E i \in 1..Len(pending) : Lose(i)

Spec == Init /\ [][Next]_vars
=============================================================================
