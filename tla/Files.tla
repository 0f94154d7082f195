------------------------------- MODULE Files --------------------------------
(***************************************************************************)
(* What the block layer of the file system promises: a file is a sequence  *)
(* of bytes; a write puts bytes at the position of the open file, however  *)
(* many processes share it, and moves the position past them; and a crash  *)
(* takes every file back to the contents it had at the last commit.        *)
(***************************************************************************)
EXTENDS Integers, Sequences

CONSTANTS File, Handle,   \* files and open files
          fileof,         \* the file of an open file
          Char            \* the bytes

VARIABLES text, pos,      \* the contents of files, the positions of handles
          stable          \* the contents at the last commit

FilesInit == /\ text \in [File -> Seq(Char)] /\ stable = text
             /\ pos = [h \in Handle |-> 0]

Moves(h, k) == pos' = [pos EXCEPT ![h] = k]

(* The bytes of s from k on, up to e, become the same byte, or are new. *)
Overlaid(s, t, k, e) ==
    /\ k <= Len(s) /\ Len(t) = IF e > Len(s) THEN e ELSE Len(s)
    /\ \A j \in 1 .. Len(t) : t[j] = IF j > k /\ j <= e THEN t[e] ELSE s[j]

(* One step, from the contents old to new: a commit, a write, a read, a    *)
(* truncation or a crash.                                                  *)
FilesStep(old, new) ==
    \/ UNCHANGED pos /\ stable' = old /\ new = old
    \/ \E h \in Handle :
        /\ pos'[h] > pos[h] /\ Moves(h, pos'[h])
        /\ UNCHANGED stable
        /\ \/ /\ Overlaid(old[fileof[h]], new[fileof[h]], pos[h], pos'[h])
              /\ \A g \in File \ {fileof[h]} : new[g] = old[g]
           \/ pos'[h] <= Len(old[fileof[h]]) /\ new = old
    \/ /\ \E f \in File : new = [old EXCEPT ![f] = << >>]
       /\ UNCHANGED <<pos, stable>>
    \/ new = stable /\ pos' = [h \in Handle |-> 0] /\ UNCHANGED stable

FilesNext == \E old \in {text}, new \in {text'} : FilesStep(old, new)

filesvars == <<text, pos, stable>>

FilesSpec == FilesInit /\ [][FilesNext]_filesvars
=============================================================================
