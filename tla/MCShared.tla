------------------------------ MODULE MCShared ------------------------------
(***************************************************************************)
(* The kernel objects that processes share through locks and interrupts,   *)
(* side by side: the buffer cache, the disk driver, the console and a pipe. *)
(* They have no state in common; each behaviour is one of theirs (part     *)
(* says which), and the others stay as they were at first.                 *)
(***************************************************************************)
EXTENDS Bio, VirtioDisk, Console, Pipe

VARIABLE part

sharedvars == <<part, vars, vvars, convars, pvars>>

(* Keys typed ahead of one reader, and of two reads; a writer against an    *)
(* echoing handler; two writers.                                           *)
MCBudgets == {[keys |-> 4, reads |-> 1, writes |-> 0],
              [keys |-> 3, reads |-> 2, writes |-> 0],
              [keys |-> 1, reads |-> 0, writes |-> 1],
              [keys |-> 0, reads |-> 0, writes |-> 2]}

SharedInit ==
    /\ part \in {"bio", "virtio", "console", "pipe"}
    /\ Init /\ VirtioInit /\ ConsoleInit /\ PipeInit
    /\ part # "bio" => \E k \in {CHOOSE l \in [1 .. NBUF -> Buf] : Range(l) = Buf} : list = k
    /\ part # "bio" => \A b \in Buf, k \in Block : disk[k] = data[b] /\ data[b] = CHOOSE v \in Value : TRUE
    /\ part # "console" => budget = CHOOSE m \in Budgets : TRUE
    /\ part # "pipe" => \A j \in DOMAIN pipedata, t \in Reader :
                           pipedata[j] = ch[t] /\ ch[t] = CHOOSE c \in Byte : TRUE

SharedNext ==
    /\ part' = part
    /\ \/ part = "bio" /\ Next /\ UNCHANGED <<vvars, convars, pvars>>
       \/ part = "virtio" /\ VirtioNext /\ UNCHANGED <<vars, convars, pvars>>
       \/ part = "console" /\ ConsoleNext /\ UNCHANGED <<vars, vvars, pvars>>
       \/ part = "pipe" /\ PipeNext /\ UNCHANGED <<vars, vvars, convars>>

SharedSpec == SharedInit /\ [][SharedNext]_sharedvars
=============================================================================
