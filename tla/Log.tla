--------------------------------- MODULE Log --------------------------------
(***************************************************************************)
(* log.c: the redo log that makes file system operations atomic under      *)
(* crashes.                                                                *)
(*                                                                         *)
(* Every write of a disk block is a step, and the machine may crash        *)
(* between any two steps, also while it recovers.  A step that holds       *)
(* log.lock is atomic.  The buffer cache is represented by the contents    *)
(* of the home blocks in it (mem) and by B_DIRTY (dirty); a buffer that is *)
(* not dirty may be evicted and read again at any time.                    *)
(***************************************************************************)
EXTENDS Integers, Sequences, FiniteSets

CONSTANTS
    Op,             \* file system calls that may be in progress
    Block, Val,     \* home blocks and their contents
    NotCached,
    LOGSIZE, MAXOPBLOCKS,
    nlog,           \* superblock.nlog: blocks of the log, its header included
    OpBlocks        \* blocks that one call writes, at most

ASSUME LogConstants ==
    /\ IsFiniteSet(Op)
    /\ LOGSIZE \in Nat /\ MAXOPBLOCKS \in Nat /\ nlog \in Nat /\ OpBlocks \in Nat
    /\ MAXOPBLOCKS <= LOGSIZE /\ OpBlocks <= MAXOPBLOCKS
    /\ nlog <= LOGSIZE + 1
    /\ NotCached \notin Val

VARIABLES
    home, head, logdata,    \* the disk: home blocks, log header, log blocks
    mem, dirty,             \* the buffer cache
    lh, outstanding, committing,    \* struct log
    stage, tail,            \* the place in commit() or recover_from_log()
    pc, wrote               \* each call: where it is, the blocks it wrote

disk == <<home, head, logdata>>
cache == <<mem, dirty>>
calls == <<pc, wrote>>
vars == <<disk, cache, lh, outstanding, committing, stage, tail, calls>>

Commits == {"write_log", "install", "done"}
Recovers == {"read_head", "reinstall"}

TypeOK ==
    /\ home \in [Block -> Val] /\ mem \in [Block -> Val \cup {NotCached}]
    /\ logdata \in [1..LOGSIZE -> Val]
    /\ head \in Seq(Block) /\ lh \in Seq(Block)
    /\ dirty \subseteq Block
    /\ outstanding \in Nat /\ committing \in BOOLEAN
    /\ stage \in Commits \cup Recovers \cup {"none"}
    /\ tail \in 0..LOGSIZE
    /\ pc \in [Op -> {"out", "begin", "asleep", "op", "commit"}]
    /\ wrote \in [Op -> SUBSET Block]

-----------------------------------------------------------------------------

(* The machine is off; the disk is what mkfs or a clean stop left. *)
Init ==
    /\ home \in [Block -> Val] /\ mem = [b \in Block |-> NotCached] /\ dirty = {}
    /\ logdata \in [1..LOGSIZE -> Val]
    /\ head = <<>> /\ lh = <<>>
    /\ outstanding = 0 /\ committing = FALSE
    /\ stage = "read_head" /\ tail = 0
    /\ pc = [o \in Op |-> "out"] /\ wrote = [o \in Op |-> {}]

(* Memory is lost, and with it everything but the disk. *)
Crash ==
    /\ mem' = [b \in Block |-> NotCached] /\ dirty' = {}
    /\ lh' = <<>> /\ outstanding' = 0 /\ committing' = FALSE
    /\ stage' = "read_head" /\ tail' = 0
    /\ pc' = [o \in Op |-> "out"] /\ wrote' = [o \in Op |-> {}]
    /\ UNCHANGED disk

(* What bread() returns. *)
bread == [b \in Block |-> IF mem[b] = NotCached THEN home[b] ELSE mem[b]]

Running == stage \notin Recovers

(* Operators named Bad... and Worse... are faulty variants of what follows. *)
wakeup == [o \in Op |-> IF pc[o] = "asleep" THEN "begin" ELSE pc[o]]

NoRoom == Len(lh) + (outstanding + 1) * MAXOPBLOCKS > LOGSIZE

-----------------------------------------------------------------------------
(* begin_op() *)

BeginCall(o) ==
    /\ Running /\ pc[o] = "out"
    /\ pc' = [pc EXCEPT ![o] = "begin"]
    /\ UNCHANGED <<disk, cache, lh, outstanding, committing, stage, tail, wrote>>

BeginSleep(o) ==
    /\ Running /\ pc[o] = "begin"
    /\ committing \/ NoRoom
    /\ pc' = [pc EXCEPT ![o] = "asleep"]
    /\ UNCHANGED <<disk, cache, lh, outstanding, committing, stage, tail, wrote>>

BeginGo(o) ==
    /\ Running /\ pc[o] = "begin"
    /\ ~committing /\ ~NoRoom
    /\ outstanding' = outstanding + 1
    /\ pc' = [pc EXCEPT ![o] = "op"] /\ wrote' = [wrote EXCEPT ![o] = {}]
    /\ UNCHANGED <<disk, cache, lh, committing, stage, tail>>

-----------------------------------------------------------------------------
(***************************************************************************)
(* log_write(): the call has changed block b, whose buffer it holds        *)
(* locked, to v.  A block already in the transaction is absorbed.          *)
(***************************************************************************)
Logged(b) == \E k \in 1..Len(lh) : lh[k] = b

MayWrite(o, b) == pc[o] = "op" /\ (b \in wrote[o] \/ Cardinality(wrote[o]) < OpBlocks)

TooBig == Len(lh) >= LOGSIZE \/ Len(lh) >= nlog - 1

BadLogWrite(o, b, v) ==                 \* B_DIRTY is not set
    /\ Running /\ MayWrite(o, b) /\ ~TooBig /\ outstanding >= 1
    /\ mem' = [mem EXCEPT ![b] = v]
    /\ lh' = IF Logged(b) THEN lh ELSE Append(lh, b)
    /\ wrote' = [wrote EXCEPT ![o] = @ \cup {b}]
    /\ UNCHANGED <<disk, dirty, outstanding, committing, stage, tail, pc>>

LogWrite(o, b, v) ==
    /\ Running /\ MayWrite(o, b) /\ ~TooBig /\ outstanding >= 1
    /\ mem' = [mem EXCEPT ![b] = v]
    /\ lh' = IF Logged(b) THEN lh ELSE Append(lh, b)
    /\ dirty' = dirty \cup {b}
    /\ wrote' = [wrote EXCEPT ![o] = @ \cup {b}]
    /\ UNCHANGED <<disk, outstanding, committing, stage, tail, pc>>

(* bget() recycles the buffer of a block that is not dirty. *)
Evict(b) ==
    /\ b \notin dirty /\ mem[b] # NotCached
    /\ mem' = [mem EXCEPT ![b] = NotCached]
    /\ UNCHANGED <<disk, dirty, lh, outstanding, committing, stage, tail, calls>>

-----------------------------------------------------------------------------
(* end_op() *)

EndMore(o) ==
    /\ Running /\ pc[o] = "op" /\ ~committing /\ outstanding # 1
    /\ outstanding' = outstanding - 1
    /\ pc' = [wakeup EXCEPT ![o] = "out"]
    /\ UNCHANGED <<disk, cache, lh, committing, stage, tail, wrote>>

(* The last call out commits, if there is anything to commit. *)
EndLast(o) ==
    /\ Running /\ pc[o] = "op" /\ ~committing /\ outstanding = 1
    /\ outstanding' = 0 /\ committing' = TRUE
    /\ pc' = [pc EXCEPT ![o] = "commit"]
    /\ stage' = IF lh = <<>> THEN "done" ELSE "write_log"
    /\ tail' = 0
    /\ UNCHANGED <<disk, cache, lh, wrote>>

WorseEndCommit(o) ==                    \* committing stays set
    /\ Running /\ pc[o] = "commit" /\ stage = "done"
    /\ stage' = "none"
    /\ pc' = [wakeup EXCEPT ![o] = "out"]
    /\ UNCHANGED <<disk, cache, lh, outstanding, committing, tail, wrote>>

EndCommit(o) ==
    /\ Running /\ pc[o] = "commit" /\ stage = "done"
    /\ committing' = FALSE /\ stage' = "none"
    /\ pc' = [wakeup EXCEPT ![o] = "out"]
    /\ UNCHANGED <<disk, cache, lh, outstanding, tail, wrote>>

-----------------------------------------------------------------------------
(* commit() and recover_from_log(), one disk write at a time *)

WriteLog ==
    /\ stage = "write_log" /\ tail < Len(lh)
    /\ logdata' = [logdata EXCEPT ![tail + 1] = bread[lh[tail + 1]]]
    /\ tail' = tail + 1
    /\ UNCHANGED <<home, head, cache, lh, outstanding, committing, stage, calls>>

WriteHead ==
    /\ stage = "write_log" /\ tail = Len(lh)
    /\ head' = lh
    /\ stage' = "install" /\ tail' = 0
    /\ UNCHANGED <<home, logdata, cache, lh, outstanding, committing, calls>>

ReadHead ==
    /\ stage = "read_head"
    /\ lh' = head
    /\ stage' = "reinstall" /\ tail' = 0
    /\ UNCHANGED <<disk, cache, outstanding, committing, calls>>

InstallTrans ==
    /\ stage \in {"install", "reinstall"} /\ tail < Len(lh)
    /\ home' = [home EXCEPT ![lh[tail + 1]] = logdata[tail + 1]]
    /\ mem' = [mem EXCEPT ![lh[tail + 1]] = logdata[tail + 1]]
    /\ dirty' = dirty \ {lh[tail + 1]}
    /\ tail' = tail + 1
    /\ UNCHANGED <<head, logdata, lh, outstanding, committing, stage, calls>>

(* log.lh.n = 0, in memory first, then on disk. *)
EraseHead ==
    /\ stage \in {"install", "reinstall"} /\ tail = Len(lh)
    /\ lh' = <<>> /\ head' = <<>>
    /\ stage' = IF stage = "install" THEN "done" ELSE "none"
    /\ tail' = 0
    /\ UNCHANGED <<home, logdata, cache, outstanding, committing, calls>>

-----------------------------------------------------------------------------

CallStep(o) ==
    \/ BeginSleep(o) \/ BeginGo(o)
    \/ EndMore(o) \/ EndLast(o) \/ EndCommit(o)

LogStep == WriteLog \/ WriteHead \/ ReadHead \/ InstallTrans \/ EraseHead

Next ==
    \/ \E o \in Op :
          \/ BeginCall(o) \/ CallStep(o)
          \/ \E b \in Block : (\E v \in Val : LogWrite(o, b, v))
    \/ LogStep
    \/ \E b \in Block : Evict(b)
    \/ Crash

Spec == Init /\ [][Next]_vars

(***************************************************************************)
(* Every call in progress goes on, the thread in commit() or in recovery   *)
(* too; a process that tests again and again in begin_op() while others    *)
(* come and go finds room some day.                                        *)
(***************************************************************************)
FairSpec ==
    /\ Spec
    /\ WF_vars(LogStep)
    /\ \A o \in Op : WF_vars(CallStep(o)) /\ SF_vars(BeginGo(o))

-----------------------------------------------------------------------------

(* The home blocks as recovery would leave them. *)
InHead(b) == \E k \in 1..Len(head) : head[k] = b
Recovered == [b \in Block |->
    IF InHead(b) THEN logdata[CHOOSE k \in 1..Len(head) : head[k] = b] ELSE home[b]]

(* What the file system sees, once it runs. *)
Current == IF stage \in Recovers THEN Recovered ELSE bread

Active == {o \in Op : pc[o] = "op"}

AD == INSTANCE AtomicDisk WITH durable <- Recovered, current <- Current, active <- Active

(***************************************************************************)
(* The log makes the disk atomic: whatever calls run together and wherever *)
(* the machine crashes, also again during recovery, the disk recovers to   *)
(* the state of a moment when no call was in progress ("there is never any *)
(* reasoning required about whether a commit might write an uncommitted    *)
(* system call's updates to disk", log.c:13).                              *)
(***************************************************************************)
IsAtomicDisk == AD!Spec

(***************************************************************************)
(* When the last call returns from end_op() everything written is in its   *)
(* home block and the log is empty.                                        *)
(***************************************************************************)
QuiescentIsDurable ==
    (stage = "none" /\ outstanding = 0) => (bread = home /\ head = <<>> /\ lh = <<>>)

(* Nobody sleeps in begin_op() while there is room and no commit. *)
NoLostWakeup == \A o \in Op : pc[o] = "asleep" => committing \/ NoRoom

(***************************************************************************)
(* begin_op() and end_op() return, unless the machine crashes: the calls   *)
(* that wait for log space are not all waiting for each other.             *)
(***************************************************************************)
CallsReturn ==
    \A o \in Op :
        /\ []<>(pc[o] \notin {"begin", "asleep"})
        /\ []<>(pc[o] # "commit")

=============================================================================
