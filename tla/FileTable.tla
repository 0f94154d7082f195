------------------------------ MODULE FileTable -----------------------------
(***************************************************************************)
(* Open files: the table of kernel/file.c, the descriptor tables of the    *)
(* processes, and the calls of kernel/sysfile.c and kernel/proc.c that     *)
(* take and drop references to it.  A section under ftable.lock or a       *)
(* pipe's lock is one action; between two of them other processes run.     *)
(* What a process still has to do in the kernel is its sequence kern.      *)
(***************************************************************************)
EXTENDS Integers, Sequences, FiniteSets

CONSTANTS FProc,        \* processes
          NFILE, NOFILE,
          NPIPE         \* bound: pages for pipes

ASSUME FileAssumption == NFILE \in Nat /\ NOFILE \in Nat /\ NPIPE \in Nat

VARIABLES
    ftable,      \* file -> ref, type, pipe, writable
    ofile,       \* process -> descriptor -> file, 0 if closed
    pipes,       \* page of a pipe -> which ends are open; {} if the page is free
    kern,        \* process -> what its call has still to do
    held         \* process -> the files its call has allocated, not yet in ofile

filevars == <<ftable, ofile, pipes, kern, held>>

File == 1 .. NFILE
Fd == 0 .. NOFILE - 1
PipeId == 1 .. NPIPE
NoFile == [ref |-> 0, type |-> "none", pipe |-> 0, writable |-> FALSE]
Closed == [fd \in Fd |-> 0]

FileInit ==
    /\ ftable = [f \in File |-> NoFile]
    /\ ofile = [p \in FProc |-> Closed]
    /\ pipes = [i \in PipeId |-> {}]
    /\ kern = [p \in FProc |-> <<>>]
    /\ held = [p \in FProc |-> <<>>]

Lowest(S) == CHOOSE x \in S : \A y \in S : x <= y
FreeFds(p) == {fd \in Fd : ofile[p][fd] = 0}

InKernel(p, name) == kern[p] # <<>> /\ Head(kern[p]).op = name
Done(p) == kern' = [kern EXCEPT ![p] = Tail(@)]

Do(name) == [op |-> name]
Closes(fs) == [i \in 1 .. Len(fs) |-> [op |-> "fileclose", file |-> fs[i]]]

(* The error paths of pipealloc, sys_pipe and sys_open: close what was     *)
(* allocated and return -1.                                                *)
Fail(p) ==
    /\ kern' = [kern EXCEPT ![p] = Closes(held[p])]
    /\ held' = [held EXCEPT ![p] = <<>>]

filealloc(p) ==
    /\ InKernel(p, "filealloc")
    /\ LET free == {f \in File : ftable[f].ref = 0}
       IN  IF free = {} THEN Fail(p) /\ UNCHANGED <<ftable, ofile, pipes>>
           ELSE /\ ftable' = [ftable EXCEPT ![Lowest(free)].ref = 1]
                /\ held' = [held EXCEPT ![p] = Append(@, Lowest(free))]
                /\ Done(p)
                /\ UNCHANGED <<ofile, pipes>>

(* The last reference is dropped: ref and type are cleared, and with them  *)
(* the other fields, which nothing reads until they are set again.         *)
Emptied(ff) == NoFile

(* fileclose; the copy ff of the last reference's file is what is closed   *)
(* after the lock is released.                                             *)
fileclose(p) ==
    /\ InKernel(p, "fileclose")
    /\ LET f == Head(kern[p]).file
           ff == ftable[f]
           after == IF ff.ref = 1 /\ ff.type = "pipe"
                    THEN <<[op |-> "pipeclose", pipe |-> ff.pipe, end |-> ff.writable]>>
                    ELSE <<>>
       IN  /\ ftable' = [ftable EXCEPT ![f] =
                            IF @.ref > 1 THEN [@ EXCEPT !.ref = @ - 1] ELSE Emptied(@)]
           /\ kern' = [kern EXCEPT ![p] = after \o Tail(@)]
    /\ UNCHANGED <<ofile, pipes, held>>

(* The set of open ends: TRUE for writeopen, FALSE for readopen; the page  *)
(* is freed when both are closed.                                          *)
pipeclose(p) ==
    /\ InKernel(p, "pipeclose")
    /\ pipes' = [pipes EXCEPT ![Head(kern[p]).pipe] = @ \ {Head(kern[p]).end}]
    /\ Done(p)
    /\ UNCHANGED <<ftable, ofile, held>>

(* sys_open: it may fail before it allocates a file; type is FD_INODE or   *)
(* FD_DEVICE.                                                              *)
sys_open(p, type) ==
    /\ kern[p] = <<>>
    /\ \/ kern' = [kern EXCEPT ![p] = <<Do("filealloc"), [op |-> "open", type |-> type]>>]
       \/ UNCHANGED kern
    /\ UNCHANGED <<ftable, ofile, pipes, held>>

open_fd(p) ==
    /\ InKernel(p, "open")
    /\ IF FreeFds(p) = {} THEN Fail(p) /\ UNCHANGED <<ftable, ofile, pipes>>
       ELSE LET fd == Lowest(FreeFds(p))
                f == held[p][1]
            IN  /\ ofile' = [ofile EXCEPT ![p][fd] = f]
                /\ ftable' = [ftable EXCEPT ![f].type = Head(kern[p]).type,
                                            ![f].writable = TRUE]
                /\ held' = [held EXCEPT ![p] = <<>>]
                /\ Done(p)
                /\ UNCHANGED pipes

sys_pipe(p) ==
    /\ kern[p] = <<>>
    /\ kern' = [kern EXCEPT ![p] = <<Do("filealloc"), Do("filealloc"), Do("kalloc"), Do("fds")>>]
    /\ UNCHANGED <<ftable, ofile, pipes, held>>

(* pipealloc once it has both files; kalloc may fail. *)
pipealloc(p) ==
    /\ InKernel(p, "kalloc")
    /\ \/ \E i \in {j \in PipeId : pipes[j] = {}} :
             /\ \A j \in PipeId : pipes[j] = {} => i <= j
             /\ pipes' = [pipes EXCEPT ![i] = BOOLEAN]
             /\ LET end(w) == [ref |-> 1, type |-> "pipe", pipe |-> i, writable |-> w]
                IN  ftable' = [ftable EXCEPT ![held[p][1]] = end(FALSE),
                                             ![held[p][2]] = end(TRUE)]
             /\ Done(p)
             /\ UNCHANGED <<ofile, held>>
       \/ Fail(p) /\ UNCHANGED <<ftable, ofile, pipes>>

(* The two fdallocs and copyouts of sys_pipe, which no other process sees; *)
(* a copyout may fail.                                                     *)
pipe_fds(p) ==
    /\ InKernel(p, "fds")
    /\ \/ LET fd0 == Lowest(FreeFds(p))
              fd1 == Lowest(FreeFds(p) \ {fd0})
          IN  /\ Cardinality(FreeFds(p)) >= 2
              /\ ofile' = [ofile EXCEPT ![p][fd0] = held[p][1], ![p][fd1] = held[p][2]]
              /\ held' = [held EXCEPT ![p] = <<>>]
              /\ Done(p)
       \/ Fail(p) /\ UNCHANGED ofile
    /\ UNCHANGED <<ftable, pipes>>

(* argfd, fdalloc and filedup. *)
sys_dup(p, fd) ==
    /\ kern[p] = <<>>
    /\ IF ofile[p][fd] = 0 \/ FreeFds(p) = {}
       THEN UNCHANGED <<ofile, ftable>>
       ELSE /\ ofile' = [ofile EXCEPT ![p][Lowest(FreeFds(p))] = ofile[p][fd]]
            /\ ftable' = [ftable EXCEPT ![ofile[p][fd]].ref = @ + 1]
    /\ UNCHANGED <<pipes, kern, held>>

sys_close(p, fd) ==
    /\ kern[p] = <<>>
    /\ IF ofile[p][fd] = 0 THEN UNCHANGED <<ofile, kern>>
       ELSE /\ ofile' = [ofile EXCEPT ![p][fd] = 0]
            /\ kern' = [kern EXCEPT ![p] = Closes(<<ofile[p][fd]>>)]
    /\ UNCHANGED <<ftable, pipes, held>>

(* Variant: the child's descriptors are copied, not duplicated. *)
fork_files_copy(p, q) ==
    /\ ofile' = [ofile EXCEPT ![q] = ofile[p]]
    /\ UNCHANGED ftable

(* The loop of fork over ofile, and its filedup. *)
fork_files(p, q) ==
    /\ ofile' = [ofile EXCEPT ![q] = ofile[p]]
    /\ ftable' = [f \in File |-> [ftable[f] EXCEPT
                     !.ref = @ + Cardinality({fd \in Fd : ofile[p][fd] = f})]]

(* The loop of exit over ofile: the files are closed in its order. *)
exit_files(p) ==
    /\ kern[p] = <<>>
    /\ LET open == {fd \in Fd : ofile[p][fd] # 0}
           nth[i \in 1 .. Cardinality(open)] ==
               CHOOSE fd \in open : Cardinality({x \in open : x <= fd}) = i
       IN  kern' = [kern EXCEPT ![p] = Closes([i \in DOMAIN nth |-> ofile[p][nth[i]]])]
    /\ ofile' = [ofile EXCEPT ![p] = Closed]
    /\ UNCHANGED <<ftable, pipes, held>>

FileCall(p) ==
    \/ filealloc(p) \/ fileclose(p) \/ pipeclose(p)
    \/ open_fd(p) \/ pipealloc(p) \/ pipe_fds(p)

(* Any calls in any order.  A process that has nothing open is a free slot *)
(* for fork.                                                               *)
sys_fork_files(p) ==
    /\ kern[p] = <<>>
    /\ \E q \in FProc \ {p} :
          /\ ofile[q] = Closed /\ kern[q] = <<>>
          /\ fork_files(p, q)
    /\ UNCHANGED <<pipes, kern, held>>

FileNext ==
    \E p \in FProc :
       \/ FileCall(p)
       \/ sys_open(p, "inode") \/ sys_pipe(p)
       \/ \E fd \in Fd : sys_dup(p, fd) \/ sys_close(p, fd)
       \/ sys_fork_files(p)
       \/ exit_files(p)

FileSpec == FileInit /\ [][FileNext]_filevars

-----------------------------------------------------------------------------
ClosedBy(k) == IF k.op = "fileclose" THEN k.file ELSE 0

(* file.c, struct file: ref is the number of descriptors, of whatever      *)
(* processes, that name the file, and of the references a call in progress *)
(* still holds or has still to drop.  So filedup and fileclose never find  *)
(* a free file, and no error path leaks or drops one twice.                *)
FileRefIsExact ==
    \A f \in File :
       ftable[f].ref =
           Cardinality({c \in FProc \X Fd : ofile[c[1]][c[2]] = f})
         + Cardinality(UNION {{<<p, "held", i>> : i \in {i \in DOMAIN held[p] : held[p][i] = f}} : p \in FProc})
         + Cardinality(UNION {{<<p, "kern", i>> : i \in {i \in DOMAIN kern[p] : ClosedBy(kern[p][i]) = f}} : p \in FProc})

(* pipe.c, readopen and writeopen: an end of a pipe is open exactly as     *)
(* long as one file in use names it, or the process that dropped the       *)
(* file's last reference is about to close it.  So a reader gets its end   *)
(* of file when the last writer is gone and not before, an error path      *)
(* closes no end of somebody else's pipe, and the page is freed once.      *)
PipeEndsFollowFiles ==
    \A i \in PipeId, w \in BOOLEAN :
       LET names == {f \in File : /\ ftable[f].ref > 0 /\ ftable[f].type = "pipe"
                                  /\ ftable[f].pipe = i /\ ftable[f].writable = w}
           closers == {p \in FProc : \E k \in DOMAIN kern[p] :
                          kern[p][k] = [op |-> "pipeclose", pipe |-> i, end |-> w]}
       IN  Cardinality(names) + Cardinality(closers) = IF w \in pipes[i] THEN 1 ELSE 0

(* file.c and pipe.c: the counts of the file table are those of the        *)
(* descriptors and calls that hold a file, and the ends of a pipe are open *)
(* exactly while a file names them.                                        *)
RefsAreExact == FileRefIsExact /\ PipeEndsFollowFiles
=============================================================================
