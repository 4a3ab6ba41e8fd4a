------------------------------ MODULE FrameFifo ------------------------------
(***************************************************************************)
(* What the interrupt rings promise to the Scheme drivers: a ring may      *)
(* refuse a frame, but the frames that it takes come out whole, once and   *)
(* in order.                                                               *)
(***************************************************************************)
EXTENDS Sequences

CONSTANTS Rings, Frames  \* Frames[r]: what the ring r carries

VARIABLES queue, out

vars == <<queue, out>>

Init == /\ queue = [r \in Rings |-> <<>>]
        /\ out = [r \in Rings |-> <<>>]

Accept(r, f) == /\ queue' = [queue EXCEPT ![r] = Append(@, f)]
                /\ UNCHANGED out

Deliver(r) == /\ queue[r] # <<>>
              /\ queue' = [queue EXCEPT ![r] = Tail(@)]
              /\ out' = [out EXCEPT ![r] = Head(queue[r])]

Next == \E r \in Rings : Deliver(r) \/ \E f \in Frames[r] : Accept(r, f)

Spec == Init /\ [][Next]_vars

=============================================================================
