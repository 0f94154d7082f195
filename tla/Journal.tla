------------------------------ MODULE Journal ------------------------------
(***************************************************************************)
(* What the file system relies on from kernel/log.c, without any log: an   *)
(* array of blocks in which the updates of an operation (the code between  *)
(* begin_op and end_op) become durable together, at a moment when no       *)
(* operation is half done, and in which a crash throws away exactly the    *)
(* updates that are not durable yet.                                       *)
(***************************************************************************)
CONSTANTS Proc,     \* the processes that make file system calls
          Block,    \* the home blocks of the file system
          Value     \* the contents a block can have

VARIABLES mem,      \* what a read of a block returns
          durable,  \* what a read of a block would return after a crash
          open      \* the processes inside an operation

vars == <<mem, durable, open>>

Init == /\ durable \in [Block -> Value]
        /\ mem = durable
        /\ open = {}

Begin(p) == /\ p \notin open
            /\ open' = open \cup {p}
            /\ UNCHANGED <<mem, durable>>

Write(p, b, v) == /\ p \in open
                  /\ mem' = [mem EXCEPT ![b] = v]
                  /\ UNCHANGED <<durable, open>>

End(p) == /\ p \in open
          /\ open' = open \ {p}
          /\ UNCHANGED <<mem, durable>>

Commit == /\ open = {}
          /\ durable' = mem
          /\ UNCHANGED <<mem, open>>

Crash == /\ mem' = durable
         /\ open' = {}
         /\ UNCHANGED durable

Next == \/ \E p \in Proc : Begin(p) \/ End(p)
        \/ \E p \in Proc, b \in Block, v \in Value : Write(p, b, v)
        \/ Commit
        \/ Crash

Spec == Init /\ [][Next]_vars
=============================================================================
