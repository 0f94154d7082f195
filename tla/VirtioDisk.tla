----------------------------- MODULE VirtioDisk -----------------------------
(***************************************************************************)
(* The disk driver, kernel/virtio_disk.c: processes in virtio_disk_rw, the *)
(* interrupt handler virtio_disk_intr, and the device, which takes         *)
(* requests from the avail ring, completes them in any order into the used *)
(* ring, and interrupts.  Each process does I/O on a buffer of its own,    *)
(* which it has locked (bio.c), so that a process stands for its buffer.   *)
(* A section under vdisk_lock is one action, but the device does not take  *)
(* the lock: the handler holds it from action to action.                   *)
(***************************************************************************)
EXTENDS Integers, Sequences, FiniteSets

CONSTANTS IOProc,
          NoProc,
          NUM,       \* descriptors, and entries of each ring
          UINT16,    \* 2^16: the ring indices are unsigned 16-bit integers
          FirstIdx,  \* the ring indices at first
          MaxRequests\* bound: requests after that, or 0 for any number

ASSUME VirtioAssumption ==
    /\ NUM \in Nat /\ NUM >= 3
    /\ UINT16 \in Nat /\ UINT16 > NUM /\ UINT16 % NUM = 0
    /\ FirstIdx \in 0 .. UINT16 - 1 /\ MaxRequests \in Nat
    /\ NoProc \notin IOProc /\ NoProc \notin 0 .. NUM - 1

VARIABLES
    free,        \* the descriptors that are free
    desc,        \* for each descriptor the next of its chain and its buffer
    info,        \* info[i].b
    avail, avail_idx,   \* the avail ring, written by the driver
    used, used_head,    \* the used ring and used->idx, written by the device
    used_idx,    \* how far the driver has looked in the used ring
    handling,    \* virtio_disk_intr is running, and has vdisk_lock
    bdisk,       \* the processes whose b->disk is 1
    vchan,       \* what a process sleeps on: "none", "free" or "buf"
    vpc,
    head,        \* idx[0] of each process
    dev_idx,     \* device: how far it has looked in the avail ring
    dev_busy,    \* device: the requests it is processing
    dev_intr,    \* device: it has raised an interrupt
    served,      \* the processes whose present request the device has done
    requests

drvvars == <<free, desc, info, avail, avail_idx>>
devvars == <<used, used_head, dev_idx, dev_busy, dev_intr, served>>
procvars == <<bdisk, vchan, vpc, head>>
vvars == <<drvvars, devvars, procvars, used_idx, handling, requests>>

Desc == 0 .. NUM - 1
NoDesc == [next |-> NoProc, buf |-> NoProc]

(* virtio_disk_init, and FirstIdx requests made one after the other, which *)
(* all use the chain 0, 1, 2.                                              *)
VirtioInit ==
    /\ free = Desc
    /\ desc = [d \in Desc |-> NoDesc]
    /\ info = [d \in Desc |-> NoProc]
    /\ avail = [d \in Desc |-> 0] /\ avail_idx = FirstIdx
    /\ used = [d \in Desc |-> 0] /\ used_head = FirstIdx
    /\ used_idx = FirstIdx
    /\ handling = FALSE
    /\ bdisk = {}
    /\ vchan = [p \in IOProc |-> "none"]
    /\ vpc = [p \in IOProc |-> "idle"]
    /\ head = [p \in IOProc |-> 0]
    /\ dev_idx = FirstIdx /\ dev_busy = {} /\ dev_intr = FALSE
    /\ served = {} /\ requests = 0

-----------------------------------------------------------------------------
RingInc(k) == (k + 1) % UINT16
VirtioGoto(p, l) == vpc' = [vpc EXCEPT ![p] = l]

(* The process can run and vdisk_lock is free. *)
Ready(p, l) == vpc[p] = l /\ vchan[p] = "none" /\ ~handling

(* wakeup(c), by any thread but those in S. *)
vwakeup(c, S) == [p \in IOProc |-> IF vchan[p] = c /\ p \notin S THEN "none" ELSE vchan[p]]

(* alloc_desc: the free descriptor with the lowest index. *)
alloc_desc(S) == CHOOSE d \in S : \A e \in S : d <= e

(* The caller of bread or bwrite enters virtio_disk_rw. *)
vcall(p) ==
    /\ vpc[p] = "idle"
    /\ MaxRequests = 0 \/ requests < MaxRequests
    /\ requests' = IF MaxRequests = 0 THEN 0 ELSE requests + 1
    /\ VirtioGoto(p, "rw")
    /\ served' = served \ {p}
    /\ UNCHANGED <<drvvars, used, used_head, dev_idx, dev_busy, dev_intr, bdisk,
                   vchan, head, used_idx, handling>>

Enough == Cardinality(free) >= 3

(* virtio_disk_rw: alloc3_desc fails, gives back what it got, waking the   *)
(* others who wait for descriptors, and the process sleeps.                *)
alloc3_fail(p) ==
    /\ Ready(p, "rw")
    /\ ~Enough
    /\ vchan' = [IF free = {} THEN vchan ELSE vwakeup("free", {p}) EXCEPT ![p] = "free"]
    /\ UNCHANGED <<requests, drvvars, devvars, bdisk, vpc, head, used_idx, handling>>

(* virtio_disk_rw: allocate and format three descriptors, put the chain in *)
(* the avail ring, notify the device, and sleep on the buffer.             *)
submit(p) ==
    LET d0 == alloc_desc(free)
        d1 == alloc_desc(free \ {d0})
        d2 == alloc_desc(free \ {d0, d1})
    IN
    /\ Ready(p, "rw")
    /\ Enough
    /\ free' = free \ {d0, d1, d2}
    /\ desc' = [desc EXCEPT ![d0] = [next |-> d1, buf |-> NoProc],
                            ![d1] = [next |-> d2, buf |-> p],
                            ![d2] = NoDesc]
    /\ info' = [info EXCEPT ![d0] = p]
    /\ bdisk' = bdisk \cup {p}
    /\ avail' = [avail EXCEPT ![avail_idx % NUM] = d0]
    /\ avail_idx' = RingInc(avail_idx)
    /\ head' = [head EXCEPT ![p] = d0]
    /\ vchan' = [vchan EXCEPT ![p] = "buf"]
    /\ VirtioGoto(p, "wait")
    /\ UNCHANGED <<requests, devvars, used_idx, handling>>

(* The descriptors of the chain that starts at d, as the device and        *)
(* free_chain follow it.                                                   *)
Chain(d) == LET e == desc[d].next IN
            IF e = NoProc THEN {d}
            ELSE IF desc[e].next = NoProc THEN {d, e}
            ELSE {d, e, desc[e].next}

Freed(d) == Chain(d)

(* Variant: the buffer is not checked again after sleep. *)
Pending_unchecked(p) == FALSE

Pending(p) == p \in bdisk

(* virtio_disk_rw: woken up.  The request is still pending, so sleep       *)
(* again; or it is done, so free_chain, and return.                        *)
again(p) ==
    /\ Ready(p, "wait")
    /\ Pending(p)
    /\ vchan' = [vchan EXCEPT ![p] = "buf"]
    /\ UNCHANGED <<requests, drvvars, devvars, bdisk, vpc, head, used_idx, handling>>

finish(p) ==
    /\ Ready(p, "wait")
    /\ ~Pending(p)
    /\ info' = [info EXCEPT ![head[p]] = NoProc]
    /\ free' = free \cup Freed(head[p])
    /\ desc' = [d \in Desc |-> IF d \in Freed(head[p]) THEN NoDesc ELSE desc[d]]
    /\ vchan' = vwakeup("free", {p})
    /\ head' = [head EXCEPT ![p] = 0]
    /\ VirtioGoto(p, "idle")
    /\ UNCHANGED <<requests, avail, avail_idx, devvars, bdisk, used_idx, handling>>

-----------------------------------------------------------------------------
(* virtio_disk_intr: acquire vdisk_lock and acknowledge the interrupt. *)
intr_start ==
    /\ dev_intr /\ ~handling
    /\ handling' = TRUE
    /\ dev_intr' = FALSE
    /\ UNCHANGED <<requests, drvvars, procvars, used, used_head, dev_idx, dev_busy,
                   served, used_idx>>

UsedEntry == used[used_idx % NUM]

WakeBuf(p) == [vchan EXCEPT ![p] = "none"]

DiskDone(p) == bdisk \ {p}

(* virtio_disk_intr: one completed request. *)
intr_one ==
    /\ handling
    /\ used_idx # used_head
    /\ LET p == info[UsedEntry] IN
       /\ bdisk' = DiskDone(p)
       /\ vchan' = WakeBuf(p)
    /\ used_idx' = RingInc(used_idx)
    /\ UNCHANGED <<requests, drvvars, devvars, vpc, head, handling>>

(* Variant: the handler looks at one entry per interrupt. *)
Drained_one == TRUE

Drained == used_idx = used_head

intr_end ==
    /\ handling
    /\ Drained
    /\ handling' = FALSE
    /\ UNCHANGED <<requests, drvvars, devvars, procvars, used_idx>>

-----------------------------------------------------------------------------
(* The device takes the next request of the avail ring. *)
dev_take ==
    /\ dev_idx # avail_idx
    /\ dev_busy' = dev_busy \cup {avail[dev_idx % NUM]}
    /\ dev_idx' = RingInc(dev_idx)
    /\ UNCHANGED <<requests, drvvars, procvars, used, used_head, dev_intr, served,
                   used_idx, handling>>

(* The device does the transfer that the chain describes, then reports it. *)
dev_complete(d) ==
    /\ d \in dev_busy
    /\ dev_busy' = dev_busy \ {d}
    /\ served' = served \cup ({desc[e].buf : e \in Chain(d)} \ {NoProc})
    /\ used' = [used EXCEPT ![used_head % NUM] = d]
    /\ used_head' = RingInc(used_head)
    /\ dev_intr' = TRUE
    /\ UNCHANGED <<requests, drvvars, procvars, dev_idx, used_idx, handling>>

(* kill (proc.c) ends any sleep of its victim. *)
vkill(p) ==
    /\ vchan[p] # "none"
    /\ vchan' = [vchan EXCEPT ![p] = "none"]
    /\ UNCHANGED <<requests, drvvars, devvars, bdisk, vpc, head, used_idx, handling>>

Driver(p) == alloc3_fail(p) \/ submit(p) \/ again(p) \/ finish(p)
Intr == intr_start \/ intr_one \/ intr_end
Device == dev_take \/ \E d \in Desc : dev_complete(d)

(* The bound on the requests is reached. *)
VirtioQuiet ==
    /\ MaxRequests > 0 /\ requests = MaxRequests /\ \A p \in IOProc : vpc[p] = "idle"
    /\ UNCHANGED vvars

VirtioNext ==
    \/ \E p \in IOProc : vcall(p) \/ vkill(p) \/ Driver(p)
    \/ Intr \/ Device \/ VirtioQuiet

VirtioSpec == VirtioInit /\ [][VirtioNext]_vvars

-----------------------------------------------------------------------------
(* The rings, the descriptors and the processes have their types. *)
VirtioTypeOK ==
    /\ free \subseteq Desc
    /\ desc \in [Desc -> [next : Desc \cup {NoProc}, buf : IOProc \cup {NoProc}]]
    /\ info \in [Desc -> IOProc \cup {NoProc}]
    /\ avail \in [Desc -> Desc] /\ used \in [Desc -> Desc]
    /\ {avail_idx, used_head, used_idx, dev_idx} \subseteq 0 .. UINT16 - 1
    /\ handling \in BOOLEAN /\ dev_intr \in BOOLEAN
    /\ bdisk \subseteq IOProc /\ served \subseteq IOProc
    /\ vchan \in [IOProc -> {"none", "free", "buf"}]
    /\ vpc \in [IOProc -> {"idle", "rw", "wait"}]
    /\ head \in [IOProc -> Desc]
    /\ dev_busy \subseteq Desc

Waiting == {p \in IOProc : vpc[p] = "wait"}

(* Every descriptor is free or in the chain of one waiting process, and    *)
(* none is in two: alloc3_desc and free_chain neither leak nor share one   *)
(* (so free_desc never panics).                                            *)
DescriptorsAreConserved ==
    /\ \A p \in Waiting : Chain(head[p]) \cap free = {} /\ Cardinality(Chain(head[p])) = 3
    /\ \A p, q \in Waiting : p # q => Chain(head[p]) \cap Chain(head[q]) = {}
    /\ free \cup UNION {Chain(head[p]) : p \in Waiting} = Desc

(* A process leaves virtio_disk_rw only after the device has transferred   *)
(* its own buffer, in whatever order requests complete, however many one   *)
(* interrupt reports, and even if kill wakes the process too early.        *)
DoneMeansServed ==
    [][\A p \in IOProc : vpc[p] = "wait" /\ vpc'[p] = "idle" => p \in served]_vvars

(* The next entry the handler looks at names a process that waits for just *)
(* that request: no completion is handled twice, or after its chain was    *)
(* freed, when info[id].b is null.                                         *)
CompletionsAreFresh ==
    used_idx # used_head => info[UsedEntry] \in Waiting \cap bdisk

(* The entries of a ring from index i up to index j, and what they hold. *)
Ahead(i, j) == (j - i) % UINT16
Entries(i, j) == {(i + k) % NUM : k \in 0 .. Ahead(i, j) - 1}
Queue(ring, i, j) == {ring[s] : s \in Entries(i, j)}

(* No two of these entries hold the same chain. *)
OnceEach(ring, i, j) == \A s, t \in Entries(i, j) : ring[s] = ring[t] => s = t

(* The requests the device has not taken from the avail ring, and those    *)
(* the driver has not taken from the used ring.                            *)
Todo == Queue(avail, dev_idx, avail_idx)
Completed == Queue(used, used_idx, used_head)

(* A request that is not finished is in just one place, and once: the      *)
(* avail ring, the device, or the used ring.  Nothing else is there, so    *)
(* neither ring overruns, also when its index wraps around.                *)
RequestsAreTracked ==
    /\ OnceEach(avail, dev_idx, avail_idx) /\ OnceEach(used, used_idx, used_head)
    /\ Todo \cup dev_busy \cup Completed = {head[p] : p \in bdisk}
    /\ Todo \cap dev_busy = {} /\ Todo \cap Completed = {} /\ dev_busy \cap Completed = {}

(* While vdisk_lock is free, a completed request that the driver has not   *)
(* seen has an interrupt pending: acknowledging first loses none.          *)
NoLostInterrupt == ~handling /\ used_idx # used_head => dev_intr

(* While vdisk_lock is free, a process sleeps only on a request that is    *)
(* not complete, or because fewer than three descriptors are free.         *)
NoLostDiskWakeup ==
    ~handling => \A p \in IOProc : /\ vchan[p] = "buf" => p \in bdisk
                                   /\ vchan[p] = "free" => Cardinality(free) < 3

(* Every request given to the device completes and its process returns. *)
RequestsReturn == \A p \in IOProc : vpc[p] = "wait" ~> vpc[p] = "idle"

(* virtio_disk.c: descriptors are free or in one chain, a request is in    *)
(* one ring once, the driver takes each completion once, and neither an    *)
(* interrupt nor a wakeup is lost however completions and the handler      *)
(* interleave.                                                             *)
RingsAreSound ==
    /\ VirtioTypeOK /\ DescriptorsAreConserved /\ CompletionsAreFresh
    /\ RequestsAreTracked /\ NoLostInterrupt /\ NoLostDiskWakeup
=============================================================================
