-------------------------------- MODULE Shell -------------------------------
(***************************************************************************)
(* The processes of a session: init (user/init.c), the shell and the       *)
(* processes runcmd of user/sh.c makes for a command, over the files of    *)
(* FileTable.  A program is the sequence of system calls it has still to   *)
(* make; fork gives the child its own.  A command is the tree parsecmd     *)
(* returns.                                                                *)
(***************************************************************************)
EXTENDS FileTable

CONSTANTS Commands,     \* the lines typed at the prompt, parsed
          MaxLines      \* bound: lines before end of file

ASSUME ShellAssumption == 1 \in FProc /\ FProc \subseteq Nat /\ MaxLines \in Nat

VARIABLES
    todo,        \* process -> the calls it has still to make
    parentof,      \* process -> its parent, 0 for a free slot
    dead,        \* processes that are zombies
    got,         \* process -> the descriptors its last open, dup or pipe gave
    pfd,         \* process -> p[0] and p[1] of runcmd
    lines        \* lines still to be typed

shvars == <<filevars, todo, parentof, dead, got, pfd, lines>>

initpid == 1

Close(fd) == [op |-> "close", fd |-> fd]
CloseP(i) == [op |-> "closep", i |-> i]
DupP(i) == [op |-> "dupp", i |-> i]
Fork(child) == [op |-> "fork", child |-> child]
Wait == Do("wait")
Exit == Do("exit")

(* Variant: dup before close. *)
LeftEnd_dup == <<DupP(2), Close(1), CloseP(1), CloseP(2)>>

(* The case PIPE of runcmd: the two children, and the parent. *)
LeftEnd == <<Close(1), DupP(2), CloseP(1), CloseP(2)>>

RightEnd == <<Close(0), DupP(1), CloseP(1), CloseP(2)>>

(* Variant: the parent keeps the write end. *)
NoEnd_kept == <<CloseP(1), Wait, Wait, Exit>>

NoEnd == <<CloseP(1), CloseP(2), Wait, Wait, Exit>>

(* runcmd; "check" is the test of a call's result, which exits if it       *)
(* failed.  src and dst are what the standard input and output of the      *)
(* command are meant to be.                                                *)
RECURSIVE runcmd(_, _, _)
runcmd(c, src, dst) ==
    CASE c.type = "EXEC" -> <<[op |-> "exec", reads |-> c.reads, src |-> src, dst |-> dst], Exit>>
      [] c.type = "REDIR" ->
            <<Close(c.fd), Do("open"), Do("check")>>
            \o runcmd(c.cmd, IF c.fd = 0 THEN "inode" ELSE src, IF c.fd = 1 THEN "inode" ELSE dst)
      [] c.type = "LIST" ->
            <<Fork(runcmd(c.left, src, dst)), Wait>> \o runcmd(c.right, src, dst)
      [] c.type = "PIPE" ->
            <<Do("pipe"), Do("check"),
              Fork(LeftEnd \o runcmd(c.left, src, "pipe")),
              Fork(RightEnd \o runcmd(c.right, "pipe", dst))>> \o NoEnd
      [] c.type = "BACK" -> <<Fork(runcmd(c.cmd, src, dst)), Exit>>

(* main of sh and of init, at the head of their loops. *)
sh == <<Do("console"), Do("getcmd")>>
init == <<Fork(sh), Do("waitsh")>>

(* init has opened the console and dup'ed it twice. *)
ShellInit ==
    /\ ftable = [[f \in File |-> NoFile] EXCEPT
                    ![1] = [ref |-> 3, type |-> "device", pipe |-> 0, writable |-> TRUE]]
    /\ ofile = [p \in FProc |-> [fd \in Fd |-> IF p = initpid /\ fd < 3 THEN 1 ELSE 0]]
    /\ pipes = [i \in PipeId |-> {}]
    /\ kern = [p \in FProc |-> <<>>]
    /\ held = [p \in FProc |-> <<>>]
    /\ todo = [p \in FProc |-> IF p = initpid THEN init ELSE <<>>]
    /\ parentof = [p \in FProc |-> 0]
    /\ dead = {}
    /\ got = [p \in FProc |-> {}]
    /\ pfd = [p \in FProc |-> <<0, 0>>]
    /\ lines = MaxLines

Slots == {p \in FProc \ {initpid} : parentof[p] = 0}
Kids(p) == {q \in FProc : parentof[q] = p}

(* p is in user space and its next call is op. *)
Calls(p, op) == kern[p] = <<>> /\ todo[p] # <<>> /\ Head(todo[p]).op = op
Then(p, rest) == todo' = [todo EXCEPT ![p] = rest]
Goes(p) == Then(p, Tail(todo[p]))
Opened(p) == got' = [got EXCEPT ![p] = {fd \in Fd : ofile[p][fd] = 0 /\ ofile'[p][fd] # 0}]

(* A step in the kernel; the descriptors it opens are what the call        *)
(* returns.                                                                *)
sh_kernel(p) ==
    /\ FileCall(p)
    /\ IF ofile'[p] = ofile[p] THEN UNCHANGED got ELSE Opened(p)
    /\ UNCHANGED <<todo, parentof, dead, pfd, lines>>

sh_close(p) ==
    /\ \/ Calls(p, "close") /\ sys_close(p, Head(todo[p]).fd)
       \/ Calls(p, "closep") /\ sys_close(p, pfd[p][Head(todo[p]).i])
    /\ Goes(p)
    /\ UNCHANGED <<parentof, dead, got, pfd, lines>>

sh_dup(p) ==
    /\ Calls(p, "dupp")
    /\ sys_dup(p, pfd[p][Head(todo[p]).i])
    /\ Goes(p)
    /\ UNCHANGED <<parentof, dead, got, pfd, lines>>

(* open and pipe: "check" follows, with what they returned in got. *)
sh_open(p) ==
    /\ \/ Calls(p, "open") /\ sys_open(p, "inode")
       \/ Calls(p, "pipe") /\ sys_pipe(p)
    /\ Goes(p)
    /\ got' = [got EXCEPT ![p] = {}]
    /\ UNCHANGED <<parentof, dead, pfd, lines>>

sh_check(p) ==
    /\ Calls(p, "check")
    /\ IF got[p] = {} THEN Then(p, <<Exit>>) ELSE Goes(p)
    /\ pfd' = IF Cardinality(got[p]) = 2
              THEN [pfd EXCEPT ![p] = <<Lowest(got[p]), Lowest(got[p] \ {Lowest(got[p])})>>]
              ELSE pfd
    /\ UNCHANGED <<filevars, parentof, dead, got, lines>>

(* fork1 and the fork of init.  Memory or slots may run out, and then the  *)
(* caller exits; init would panic the kernel, so it is taken to succeed.   *)
sh_fork(p) ==
    /\ Calls(p, "fork")
    /\ \/ LET q == Lowest(Slots)
          IN  /\ Slots # {}
              /\ fork_files(p, q)
              /\ todo' = [todo EXCEPT ![p] = Tail(@), ![q] = Head(todo[p]).child]
              /\ parentof' = [parentof EXCEPT ![q] = p]
              /\ pfd' = [pfd EXCEPT ![q] = pfd[p]]
              /\ got' = [got EXCEPT ![p] = {q}]
              /\ UNCHANGED <<pipes, kern, held>>
       \/ /\ p # initpid
          /\ Then(p, <<Exit>>)
          /\ UNCHANGED <<filevars, parentof, got, pfd>>
    /\ UNCHANGED <<dead, lines>>

(* wait(0): -1 without children, else it reaps one; init goes on waiting   *)
(* until the one it forked, which is in got, has exited.                   *)
sh_wait(p) ==
    /\ Calls(p, "wait") \/ Calls(p, "waitsh")
    /\ \/ /\ Kids(p) = {}
          /\ IF Calls(p, "wait") THEN Goes(p) ELSE Then(p, <<Exit>>)
          /\ UNCHANGED <<parentof, dead, pfd>>
       \/ \E q \in Kids(p) \cap dead :
             /\ parentof' = [parentof EXCEPT ![q] = 0]
             /\ dead' = dead \ {q}
             /\ pfd' = [pfd EXCEPT ![q] = <<0, 0>>]
             /\ IF Calls(p, "wait") THEN Goes(p)
                ELSE IF got[p] = {q} THEN Then(p, init) ELSE UNCHANGED todo
    /\ UNCHANGED <<filevars, got, lines>>

(* exec of a command, and what it does: a filter reads to the end of its   *)
(* input, which for a pipe comes when the write end is closed.             *)
AtEOF(p) == LET f == ftable[ofile[p][0]]
            IN  f.type = "pipe" => TRUE \notin pipes[f.pipe]

sh_exec(p) ==
    /\ Calls(p, "exec")
    /\ Head(todo[p]).reads => AtEOF(p)
    /\ Goes(p)
    /\ UNCHANGED <<filevars, parentof, dead, got, pfd, lines>>

(* main of sh: a console is opened until it is descriptor 3 or more. *)
sh_console(p) ==
    /\ Calls(p, "console")
    /\ sys_open(p, "device")
    /\ Then(p, <<Do("fd3")>> \o Tail(todo[p]))
    /\ got' = [got EXCEPT ![p] = {}]
    /\ UNCHANGED <<parentof, dead, pfd, lines>>

sh_fd3(p) ==
    /\ Calls(p, "fd3")
    /\ Then(p, IF got[p] = {} THEN Tail(todo[p])
               ELSE IF Lowest(got[p]) >= 3 THEN <<Close(Lowest(got[p]))>> \o Tail(todo[p])
               ELSE <<Do("console")>> \o Tail(todo[p]))
    /\ UNCHANGED <<filevars, parentof, dead, got, pfd, lines>>

(* The loop of main: a line, or end of file. *)
sh_getcmd(p) ==
    /\ Calls(p, "getcmd")
    /\ \/ \E c \in Commands :
             /\ lines > 0 /\ lines' = lines - 1
             /\ Then(p, <<Fork(runcmd(c, "device", "device")), Wait, Do("getcmd")>>)
       \/ lines = 0 /\ UNCHANGED lines /\ Then(p, <<Exit>>)
    /\ UNCHANGED <<filevars, parentof, dead, got, pfd>>

(* exit: the files are closed, the children given to init, the parent      *)
(* finds a zombie.                                                         *)
sh_exit(p) ==
    /\ Calls(p, "exit")
    /\ exit_files(p)
    /\ Then(p, <<Do("zombie")>>)
    /\ UNCHANGED <<parentof, dead, got, pfd, lines>>

sh_zombie(p) ==
    /\ Calls(p, "zombie")
    /\ parentof' = [q \in FProc |-> IF parentof[q] = p THEN initpid ELSE parentof[q]]
    /\ dead' = dead \cup {p}
    /\ Then(p, <<>>)
    /\ got' = [got EXCEPT ![p] = {}]
    /\ UNCHANGED <<filevars, pfd, lines>>

ShellStep(p) ==
    \/ sh_kernel(p) \/ sh_close(p) \/ sh_dup(p) \/ sh_open(p) \/ sh_check(p)
    \/ sh_fork(p) \/ sh_wait(p) \/ sh_exec(p) \/ sh_console(p) \/ sh_fd3(p)
    \/ sh_getcmd(p) \/ sh_exit(p) \/ sh_zombie(p)

ShellNext == \E p \in FProc : ShellStep(p)

ShellSpec == ShellInit /\ [][ShellNext]_shvars

-----------------------------------------------------------------------------
(* sh.c, runcmd: a command is executed with exactly its three standard     *)
(* descriptors open, its input and output being the file, the pipe end or  *)
(* the console that the command line says: dup and open, after the close,  *)
(* get the descriptor they are meant to get, and no pipe end is left       *)
(* behind in a process that would keep a reader from its end of file.      *)
CommandsGetTheirFiles ==
    \A p \in FProc : Calls(p, "exec") =>
       LET c == Head(todo[p])
           f(fd) == ftable[ofile[p][fd]]
       IN  /\ {fd \in Fd : ofile[p][fd] # 0} = 0 .. 2
           /\ f(0).type = c.src /\ (c.src = "pipe" => ~f(0).writable)
           /\ f(1).type = c.dst /\ (c.dst = "pipe" => f(1).writable)
           /\ f(2).type = "device"

(* sh.c, main: whatever the command line, and whichever of its open, pipe  *)
(* and fork calls fail, the shell gets back to its prompt: every filter of *)
(* a pipeline gets its end of file and no wait is for a process that never *)
(* exits.                                                                  *)
PromptComesBack ==
    \A n \in 1 .. MaxLines : (lines = n - 1) ~> (\E p \in FProc : Calls(p, "getcmd"))

=============================================================================
