-------------------------------- MODULE MCFs --------------------------------
(* The instances of Fs that TLC checks. *)
EXTENDS Fs, TLC

CONSTANTS na, nb, nd

Symm == Permutations(Proc)

Path(names) == [abs |-> TRUE, names |-> names]
Relative(names) == [abs |-> FALSE, names |-> names]

(* Files come and go in the root and in the directory nd, which is         *)
(* removed and made again; a process may be inside it.                     *)
MCCalls ==
    {[op |-> "open", path |-> Path(<<nd, na>>), creat |-> TRUE, rdonly |-> FALSE],
     [op |-> "open", path |-> Path(<<nd>>), creat |-> FALSE, rdonly |-> TRUE],
     [op |-> "open", path |-> Path(<<nd>>), creat |-> FALSE, rdonly |-> FALSE],
     [op |-> "close"],
     [op |-> "link", path |-> Path(<<na>>), new |-> Path(<<nd, na>>)],
     [op |-> "link", path |-> Path(<<nd>>), new |-> Path(<<nb>>)],
     [op |-> "unlink", path |-> Path(<<na>>)],
     [op |-> "unlink", path |-> Path(<<nd>>)],
     [op |-> "unlink", path |-> Relative(<<".">>)],
     [op |-> "mkdir", path |-> Path(<<nd>>)],
     [op |-> "mkdir", path |-> Relative(<<nb>>)],
     [op |-> "mknod", path |-> Path(<<nd, nd>>)],
     [op |-> "chdir", path |-> Path(<<nd>>)],
     [op |-> "chdir", path |-> Path(<<na>>)]}

(* A file is unlinked while another process creates one. *)
ReuseCalls ==
    {[op |-> "unlink", path |-> Path(<<na>>)], [op |-> "mkdir", path |-> Path(<<na>>)]}

(* A file is created in a directory while the directory is removed. *)
RemovedCalls ==
    {[op |-> "open", path |-> Path(<<nd, na>>), creat |-> TRUE, rdonly |-> FALSE],
     [op |-> "unlink", path |-> Path(<<nd>>)]}
=============================================================================
