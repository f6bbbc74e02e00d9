------------------------------- MODULE Bcache -------------------------------
(***************************************************************************)
(* bio.c, sleeplock.c and ide.c: the buffer cache, the sleep lock of each  *)
(* buffer, and the disk driver below it.                                   *)
(*                                                                         *)
(* What runs under bcache.lock, under the spin lock inside a sleep lock,   *)
(* or under idelock is one step.  The list of buffers is the sequence      *)
(* order, most recently released first.  The device takes one command at a *)
(* time and interrupts when it is done.                                    *)
(***************************************************************************)
EXTENDS Integers, Sequences, FiniteSets, Functions

CONSTANTS
    Proc, NoProc,
    Buf, NoBuf,
    Block, NoBlock, \* NoBlock: the buffer was never used
    Val,
    MaxPinned,      \* bound on the blocks in the log transaction
    ReadErrors      \* whether the device may report errors

ASSUME BcacheConstants ==
    /\ NoProc \notin Proc /\ NoBuf \notin Buf /\ NoBlock \notin Block
    /\ IsFiniteSet(Buf) /\ IsFiniteSet(Proc)
    /\ MaxPinned \in Nat /\ ReadErrors \in BOOLEAN

(* NBUF is enough for the transaction and one buffer for each process. *)
ASSUME BuffersSuffice == Cardinality(Buf) >= MaxPinned + Cardinality(Proc)

VARIABLES
    order,
    blockno, valid, dirty, data, refcnt,    \* struct buf
    locked, pid,                            \* b->lock
    pc, buf,        \* each process: where it is, and the buffer it got
    idequeue,
    disk,           \* the sectors
    cmd,            \* the device: the buffer and kind of its command
    irq,            \* an interrupt is pending
    error           \* the status register has IDE_ERR

list == <<order, blockno, refcnt>>
flags == <<valid, dirty>>
lock == <<locked, pid>>
ide == <<idequeue, disk, cmd, irq, error>>
vars == <<list, flags, data, lock, pc, buf, ide>>

Idle == [kind |-> "none", buf |-> NoBuf]

-----------------------------------------------------------------------------

(* binit(). *)
Init ==
    /\ order = CHOOSE s \in [1 .. Cardinality(Buf) -> Buf] : IsInjective(s)
    /\ blockno = [b \in Buf |-> NoBlock]
    /\ valid = [b \in Buf |-> FALSE] /\ dirty = [b \in Buf |-> FALSE]
    /\ \E v \in Val : data = [b \in Buf |-> v]
    /\ refcnt = [b \in Buf |-> 0]
    /\ locked = [b \in Buf |-> FALSE] /\ pid = [b \in Buf |-> NoProc]
    /\ disk \in [Block -> Val]
    /\ pc = [p \in Proc |-> "out"] /\ buf = [p \in Proc |-> NoBuf]
    /\ idequeue = <<>> /\ cmd = Idle /\ irq = FALSE /\ error = FALSE

Goto(p, l) == pc' = [pc EXCEPT ![p] = l]

(* Operators named Bad..., Worse... and Worst... are faulty variants of what *)
(* follows them.                                                             *)
BadFree(b) == refcnt[b] = 0                 \* a logged block is recycled
WorseFree(b) == ~dirty[b] /\ ~locked[b]     \* a buffer someone waits for too
Free(b) == refcnt[b] = 0 /\ ~dirty[b]

Cached(k) == \E b \in Buf : blockno[b] = k

BgetHit(p, k) ==
    /\ pc[p] = "out"
    /\ \E b \in Buf :
          /\ blockno[b] = k
          /\ refcnt' = [refcnt EXCEPT ![b] = @ + 1]
          /\ buf' = [buf EXCEPT ![p] = b]
    /\ Goto(p, "acquire")
    /\ UNCHANGED <<order, blockno, flags, data, lock, ide>>

(* The least recently released free buffer is recycled. *)
BgetMiss(p, k) ==
    /\ pc[p] = "out" /\ ~Cached(k)
    /\ \E i \in DOMAIN order :
          /\ Free(order[i]) /\ \A j \in DOMAIN order : j > i => ~Free(order[j])
          /\ blockno' = [blockno EXCEPT ![order[i]] = k]
          /\ valid' = [valid EXCEPT ![order[i]] = FALSE]
          /\ dirty' = [dirty EXCEPT ![order[i]] = FALSE]
          /\ refcnt' = [refcnt EXCEPT ![order[i]] = 1]
          /\ buf' = [buf EXCEPT ![p] = order[i]]
    /\ Goto(p, "acquire")
    /\ UNCHANGED <<order, data, lock, ide>>

AcquireSleep(p) ==
    /\ pc[p] = "acquire"
    /\ IF locked[buf[p]]
       THEN Goto(p, "asleep") /\ UNCHANGED lock
       ELSE /\ Goto(p, "got")
            /\ locked' = [locked EXCEPT ![buf[p]] = TRUE]
            /\ pid' = [pid EXCEPT ![buf[p]] = p]
    /\ UNCHANGED <<list, flags, data, buf, ide>>

(* kill() makes a sleeper look again; acquiresleep() and iderw() ignore it. *)
KillWakes(p) ==
    /\ \/ pc[p] = "asleep" /\ Goto(p, "acquire")
       \/ pc[p] = "ideAsleep" /\ Goto(p, "iderw")
    /\ UNCHANGED <<list, flags, data, lock, buf, ide>>

(* bread() calls iderw() for a buffer that is not valid. *)
BreadValid(p) ==
    /\ pc[p] = "got" /\ valid[buf[p]]
    /\ Goto(p, "use")
    /\ UNCHANGED <<list, flags, data, lock, buf, ide>>

(* iderw(), up to its sleep.  Dirty buffers are written, others read. *)
Command(b, isDirty) == [kind |-> IF isDirty THEN "write" ELSE "read", buf |-> b]

Enqueue(p, isDirty) ==
    /\ idequeue' = Append(idequeue, buf[p])
    /\ cmd' = IF idequeue = <<>> THEN Command(buf[p], isDirty) ELSE cmd
    /\ Goto(p, "ideAsleep")
    /\ UNCHANGED <<disk, irq, error>>

BreadDisk(p) ==
    /\ pc[p] = "got" /\ ~valid[buf[p]]
    /\ Enqueue(p, dirty[buf[p]])
    /\ UNCHANGED <<list, flags, data, lock, buf>>

(* The loop of iderw() after a wakeup. *)
Awake(p) ==
    /\ pc[p] = "iderw"
    /\ Goto(p, IF valid[buf[p]] /\ ~dirty[buf[p]] THEN "use" ELSE "ideAsleep")
    /\ UNCHANGED <<list, flags, data, lock, buf, ide>>

(* The holder changes the data and logs the block: log_write() sets B_DIRTY. *)
Update(p, v) ==
    /\ pc[p] = "use"
    /\ dirty[buf[p]] \/ Cardinality({b \in Buf : dirty[b]}) < MaxPinned
    /\ data' = [data EXCEPT ![buf[p]] = v]
    /\ dirty' = [dirty EXCEPT ![buf[p]] = TRUE]
    /\ UNCHANGED <<list, valid, lock, pc, buf, ide>>

Bwrite(p) ==
    /\ pc[p] = "use"
    /\ dirty' = [dirty EXCEPT ![buf[p]] = TRUE]
    /\ Enqueue(p, TRUE)
    /\ UNCHANGED <<list, valid, data, lock, buf>>

Wakeup(b, p) ==
    [q \in Proc |-> CASE q = p -> "release"
                      [] pc[q] = "asleep" /\ buf[q] = b -> "acquire"
                      [] OTHER -> pc[q]]

(* brelse(): releasesleep(), then the reference count and the list. *)
ReleaseSleep(p) ==
    /\ pc[p] = "use"
    /\ locked' = [locked EXCEPT ![buf[p]] = FALSE]
    /\ pid' = [pid EXCEPT ![buf[p]] = NoProc]
    /\ pc' = Wakeup(buf[p], p)
    /\ UNCHANGED <<list, flags, data, buf, ide>>

(* b goes to the front of the list, and what was before it moves up one. *)
ToFront(b) ==
    LET k == CHOOSE i \in DOMAIN order : order[i] = b IN
    [i \in DOMAIN order |-> IF i = 1 THEN b ELSE IF i <= k THEN order[i-1] ELSE order[i]]

Brelse(p) ==
    /\ pc[p] = "release"
    /\ refcnt' = [refcnt EXCEPT ![buf[p]] = @ - 1]
    /\ order' = IF refcnt[buf[p]] = 1 THEN ToFront(buf[p]) ELSE order
    /\ Goto(p, "out")
    /\ buf' = [buf EXCEPT ![p] = NoBuf]
    /\ UNCHANGED <<blockno, flags, data, lock, ide>>

-----------------------------------------------------------------------------
(* The device does a command and raises its interrupt. *)

DeviceDone ==
    /\ cmd # Idle /\ ~irq
    /\ disk' = IF cmd.kind = "write"
               THEN [disk EXCEPT ![blockno[cmd.buf]] = data[cmd.buf]] ELSE disk
    /\ irq' = TRUE
    /\ error' \in (IF ReadErrors THEN BOOLEAN ELSE {FALSE})
    /\ UNCHANGED <<list, flags, data, lock, pc, buf, idequeue, cmd>>

ReadData(b) == IF ~dirty[b] /\ ~error THEN disk[blockno[b]] ELSE data[b]

StartNext(rest) == IF rest = <<>> THEN Idle ELSE Command(Head(rest), dirty[Head(rest)])

ideintr ==
    LET b == Head(idequeue) IN
    /\ irq /\ idequeue # <<>>
    /\ irq' = FALSE
    /\ idequeue' = Tail(idequeue)
    /\ data' = [data EXCEPT ![b] = ReadData(b)]
    /\ valid' = [valid EXCEPT ![b] = TRUE]
    /\ dirty' = [dirty EXCEPT ![b] = FALSE]
    /\ pc' = [p \in Proc |->
                IF pc[p] = "ideAsleep" /\ buf[p] = b THEN "iderw" ELSE pc[p]]
    /\ cmd' = StartNext(Tail(idequeue))
    /\ UNCHANGED <<list, lock, buf, disk, error>>

-----------------------------------------------------------------------------

Next ==
    \/ \E p \in Proc :
        \/ \E k \in Block : BgetHit(p, k) \/ BgetMiss(p, k)
        \/ AcquireSleep(p) \/ KillWakes(p) \/ BreadValid(p) \/ BreadDisk(p) \/ Awake(p)
        \/ Bwrite(p) \/ ReleaseSleep(p) \/ Brelse(p)
        \/ \E v \in Val : Update(p, v)
    \/ DeviceDone \/ ideintr

Spec == Init /\ [][Next]_vars

-----------------------------------------------------------------------------

InUse(p) == pc[p] \in {"got", "iderw", "ideAsleep", "use"}

(* The cache is what the holder sees: the buffer if it is valid, else disk. *)
Content == [k \in Block |->
    IF \E b \in Buf : blockno[b] = k /\ valid[b]
    THEN data[CHOOSE b \in Buf : blockno[b] = k /\ valid[b]]
    ELSE disk[k]]

Holder == [k \in Block |->
    IF \E p \in Proc : InUse(p) /\ blockno[buf[p]] = k
    THEN CHOOSE p \in Proc : InUse(p) /\ blockno[buf[p]] = k
    ELSE NoProc]

BS == INSTANCE BlockStore WITH content <- Content, holder <- Holder

(***************************************************************************)
(* The cache is transparent: whatever is read, recycled and written back,  *)
(* each block has one content, no update is lost, and "only one process at *)
(* a time can use a buffer" (bio.c:13).                                    *)
(***************************************************************************)
IsBlockStore == BS!Spec

(* No block is in two buffers, also when two processes miss it at once. *)
OneBufferPerBlock ==
    \A b, c \in Buf : blockno[b] = blockno[c] /\ blockno[b] # NoBlock => b = c

(***************************************************************************)
(* refcnt counts exactly the processes that hold, wait for or are about to *)
(* lock the buffer, so a buffer is recycled only when nobody has it; and   *)
(* the sleep lock says who uses it.                                        *)
(***************************************************************************)
RefsAndLocksAgree ==
    /\ \A b \in Buf : refcnt[b] = Cardinality({p \in Proc : buf[p] = b})
    /\ \A b \in Buf : locked[b] <=> \E p \in Proc : InUse(p) /\ buf[p] = b
    /\ \A p \in Proc : InUse(p) => pid[buf[p]] = p

(* A waiter is asleep only while the lock is taken. *)
NoLostWakeup == \A p \in Proc : pc[p] = "asleep" => locked[buf[p]]

(***************************************************************************)
(* A buffer that may be recycled holds nothing that is not on the disk.    *)
(***************************************************************************)
CleanIsOnDisk ==
    \A b \in Buf : valid[b] /\ ~dirty[b] => data[b] = disk[blockno[b]]

(***************************************************************************)
(* bget() finds a free buffer in the list and does not panic for want of   *)
(* one, as long as the transaction and the other processes leave one.      *)
(***************************************************************************)
NeverOutOfBuffers ==
    \A p \in Proc, k \in Block :
        pc[p] = "out" /\ ~Cached(k) => \E i \in DOMAIN order : Free(order[i])

(***************************************************************************)
(* The command the device works on is the first in the queue, with the     *)
(* kind its flags ask for, so the interrupt is credited to the right       *)
(* buffer ("First queued buffer is the active request", ide.c:108), and    *)
(* the device never idles while requests wait.                             *)
(***************************************************************************)
DeviceServesHead ==
    /\ cmd = IF idequeue = <<>> THEN Idle ELSE Command(Head(idequeue), dirty[Head(idequeue)])
    /\ irq => idequeue # <<>>

(***************************************************************************)
(* Whoever sleeps in iderw() has its buffer in the queue, once, and nobody *)
(* leaves while it is there: iderw() returns when the transfer is done.    *)
(***************************************************************************)
QueueIsWaiters ==
    /\ IsInjective(idequeue)
    /\ \A p \in Proc : pc[p] = "ideAsleep" => buf[p] \in Range(idequeue)
    /\ \A b \in Range(idequeue) :
        \E p \in Proc : buf[p] = b /\ pc[p] \in {"iderw", "ideAsleep"}

(***************************************************************************)
(* All of it: buffers, locks, disk and request queue agree, whatever       *)
(* processes and the device do in between.                                 *)
(***************************************************************************)
CacheInvariant ==
    /\ OneBufferPerBlock /\ RefsAndLocksAgree /\ NoLostWakeup
    /\ CleanIsOnDisk /\ NeverOutOfBuffers /\ DeviceServesHead /\ QueueIsWaiters

=============================================================================
