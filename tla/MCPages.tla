------------------------------ MODULE MCPages -------------------------------
(***************************************************************************)
(* Side by side: the contents of files in the blocks of the disk, and the  *)
(* contents of address spaces in the pages of memory.  The two have no     *)
(* state in common; each behaviour is one of theirs (part says which), and *)
(* the other stays as it was at first.                                     *)
(***************************************************************************)
EXTENDS Blocks, Vm, TLC

CONSTANTS f1, f2, o1, o2

VARIABLE part

-----------------------------------------------------------------------------
(* Two files, each open once; both empty, or the first long. *)
MCipof == (o1 :> f1) @@ (o2 :> f2)
MCLengths == {(f1 :> 0) @@ (f2 :> 0), (f1 :> 5) @@ (f2 :> 1)}

(* Programs for exec: with two good segments; whose second segment is not  *)
(* all in the file; and whose second segment is not aligned.               *)
Seg(v, f, m, fl, s) ==
    [vaddr |-> v, filesz |-> f, memsz |-> m, flags |-> fl, byte |-> 7, short |-> s]
MCImages ==
    {<<Seg(0, 2, 2, {}, FALSE), Seg(2, 1, 2, {"W"}, FALSE)>>,
     <<Seg(0, 1, 3, {"W"}, FALSE), Seg(2, 2, 3, {"W"}, TRUE)>>,
     <<Seg(0, 1, 2, {}, FALSE), Seg(1, 1, 1, {}, FALSE)>>}
MCGrowths == {-3, -1, 1, 5}

-----------------------------------------------------------------------------
pagevars == <<part, wvars, vmvars>>

(* Memory before userinit. *)
VmBoot ==
    /\ vm = [mem |-> [pa \in Page |-> Filled(1)], free |-> Page, panic |-> {}]
    /\ space = [p \in VProc |-> NoSpace] /\ vmcalls = 0

PagesInit ==
    /\ part \in {"blocks", "vm"}
    /\ BlocksInit /\ (part # "blocks" => incore[f1].size = 0)
    /\ IF part = "vm" THEN VmInit ELSE VmBoot

(* Calls on memory end at their bound. *)
Exhausted == part = "vm" /\ UNCHANGED pagevars

PagesNext ==
    \/ part' = part /\ part = "blocks" /\ BlocksNext /\ UNCHANGED vmvars
    \/ part' = part /\ part = "vm" /\ VmNext /\ UNCHANGED wvars
    \/ Exhausted

PagesSpec == PagesInit /\ [][PagesNext]_pagevars
=============================================================================
