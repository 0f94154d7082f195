-------------------------------- MODULE Fifo --------------------------------
(* What a pipe promises: a bounded queue of bytes.  Each byte written is   *)
(* taken by one reader, in the order of the writes, and nothing is written *)
(* once the readers are gone or taken that was not written.                *)
EXTENDS Sequences, Naturals

CONSTANTS Byte, Reader, Capacity

VARIABLES queue,       \* the bytes written and not yet read
          ch,          \* the byte each reader took last
          readopen, writeopen

vars == <<queue, ch, readopen, writeopen>>

Init == /\ queue = <<>>
        /\ ch \in [Reader -> Byte]
        /\ readopen = TRUE /\ writeopen = TRUE

Put(b) == /\ writeopen /\ readopen
          /\ Len(queue) < Capacity
          /\ queue' = Append(queue, b)
          /\ UNCHANGED <<ch, readopen, writeopen>>

Take(r) == /\ readopen
           /\ queue # <<>>
           /\ queue' = Tail(queue)
           /\ ch' = [ch EXCEPT ![r] = Head(queue)]
           /\ UNCHANGED <<readopen, writeopen>>

Close == /\ \/ readopen /\ readopen' = FALSE /\ UNCHANGED writeopen
            \/ writeopen /\ writeopen' = FALSE /\ UNCHANGED readopen
         /\ UNCHANGED <<queue, ch>>

Next == (\E b \in Byte : Put(b)) \/ (\E r \in Reader : Take(r)) \/ Close

Spec == Init /\ [][Next]_vars
=============================================================================
