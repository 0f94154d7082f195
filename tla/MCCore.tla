------------------------------- MODULE MCCore -------------------------------
(***************************************************************************)
(* Side by side: spinlocks, the log, the file table, the library, and the  *)
(* algorithms of user programs (malloc, grep, the shell's parser).  They   *)
(* have no state in common; each behaviour is one of theirs (part says     *)
(* which), and the others stay as they were at first.                      *)
(***************************************************************************)
EXTENDS Spinlock, Log, FileTable, Umalloc, Grep, ShParse, Lib

VARIABLE part

-----------------------------------------------------------------------------
MCPatterns == UNION {[1 .. n -> {"a", ".", "*", "^", "$"}] : n \in 0 .. 2}
              \cup {<<"^">> \o re : re \in [1 .. 2 -> {"a", ".", "*", "$"}]}
              \cup {<<c, "*">> \o <<d>> : c \in {"a", "."}, d \in {"a", "*", "$"}}
MCInputs == [1 .. 4 -> {"a", "b", "n"}]

MCLexemes == {<<"a", "b">>, <<" ", "c">>, <<"|">>, <<"<", " ", "f">>, <<">", ">">>,
              <<"&">>, <<";">>, <<"(">>, <<")">>}

-----------------------------------------------------------------------------
corevars == <<part, slvars, vars, filevars, umvars, grepvars, parsevars, arg>>

(* No grep is running. *)
GrepIdle == /\ pattern = <<>> /\ input = <<>> /\ given = 0 /\ gbuf = <<>>
            /\ printed = <<>> /\ gdone = FALSE

v0 == CHOOSE v \in Value : TRUE

CoreInit ==
    /\ part \in {"spinlock", "log", "files", "umalloc", "grep", "parse", "lib"}
    /\ SpinInit
    /\ part # "spinlock" => sie = [c \in CPU |-> TRUE] /\ \A x \in Ctx : lk[x] = 1
    /\ IF part = "log" THEN Init ELSE LogInit([b \in Block |-> v0]) /\ dlog[1] = v0
    /\ FileInit /\ UmallocInit /\ ParseInit
    /\ IF part = "grep" THEN GrepInit ELSE GrepIdle
    /\ IF part = "lib" THEN LibInit ELSE arg = [kind |-> "none"]

(* These end: at the bound on the calls, or when the input is exhausted. *)
Exhausted == part \in {"grep", "parse", "lib"} /\ UNCHANGED corevars

CoreNext ==
    \/ /\ part' = part
       /\ \/ /\ part = "spinlock" /\ SpinNext
             /\ UNCHANGED <<vars, filevars, umvars, grepvars, parsevars, arg>>
          \/ /\ part = "log" /\ Next
             /\ UNCHANGED <<slvars, filevars, umvars, grepvars, parsevars, arg>>
          \/ /\ part = "files" /\ FileNext
             /\ UNCHANGED <<slvars, vars, umvars, grepvars, parsevars, arg>>
          \/ /\ part = "umalloc" /\ UmallocNext
             /\ UNCHANGED <<slvars, vars, filevars, grepvars, parsevars, arg>>
          \/ /\ part = "grep" /\ GrepNext
             /\ UNCHANGED <<slvars, vars, filevars, umvars, parsevars, arg>>
          \/ /\ part = "parse" /\ type_more
             /\ UNCHANGED <<slvars, vars, filevars, umvars, grepvars, arg>>
    \/ Exhausted

CoreSpec == CoreInit /\ [][CoreNext]_corevars
=============================================================================
