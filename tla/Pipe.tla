-------------------------------- MODULE Pipe --------------------------------
(***************************************************************************)
(* pipe.c: pipewrite, piperead and pipeclose by several processes.         *)
(*                                                                         *)
(* p->lock is held from call to return, except while asleep.  Each byte,   *)
(* each test of a loop condition and each sleep() is a step, because       *)
(* kill() does not need p->lock and may come between any two of them.      *)
(* sleep() itself is atomic towards wakeup() and kill() (ptable.lock).     *)
(***************************************************************************)
EXTENDS Integers

CONSTANTS
    Proc,           \* processes that share the pipe
    NoProc,         \* p->lock is free
    Byte,
    PIPESIZE,
    UintMod,        \* nread and nwrite are uint and wrap
    Counts          \* the byte counts of reads and writes

ASSUME PipeConstants ==
    /\ NoProc \notin Proc
    /\ PIPESIZE \in Nat \ {0}
    /\ UintMod \in Nat /\ UintMod > PIPESIZE /\ UintMod % PIPESIZE = 0
    /\ Counts \subseteq Nat \ {0}

VARIABLES
    data, nread, nwrite, readopen, writeopen,   \* struct pipe
    freed,          \* the page was given back to kfree
    lock,           \* the process in the pipe's critical section
    fds,            \* the ends each process has open: "r", "w"
    pc, n, i,       \* each process: place in the code, argument, loop variable
    killed,
    chan            \* what the process sleeps on: "nread", "nwrite" or "none"

pipe == <<data, nread, nwrite>>
ends == <<readopen, writeopen, freed, fds>>
procs == <<n, killed>>
vars == <<pipe, ends, lock, pc, i, procs, chan>>

-----------------------------------------------------------------------------

(* pipealloc() has made the pipe and its ends have been passed on by fork. *)
Init ==
    /\ data \in [0..(PIPESIZE - 1) -> Byte]
    /\ nread = 0 /\ nwrite = 0
    /\ readopen = TRUE /\ writeopen = TRUE /\ freed = FALSE
    /\ lock = NoProc
    /\ fds \in [Proc -> SUBSET {"r", "w"}]
    /\ \A e \in {"r", "w"} : \E q \in Proc : e \in fds[q]
    /\ pc = [q \in Proc |-> "out"]
    /\ n = [q \in Proc |-> 0] /\ i = [q \in Proc |-> 0]
    /\ killed = [q \in Proc |-> FALSE]
    /\ chan = [q \in Proc |-> "none"]

(* Operators named Bad... and Worse... are faulty variants of what follows. *)
BadFull == nwrite = nread + PIPESIZE                \* no wrap-around
Full == nwrite = (nread + PIPESIZE) % UintMod
Empty == nread = nwrite

BadWakeup(ch) == chan                               \* nobody is woken
wakeup(ch) == [q \in Proc |-> IF chan[q] = ch THEN "none" ELSE chan[q]]

In(q, l) == pc[q] = l /\ lock = q
Goto(q, l) == pc' = [pc EXCEPT ![q] = l]

Enter(q, l, count) ==
    /\ pc[q] = "out" /\ lock = NoProc
    /\ lock' = q
    /\ Goto(q, l)
    /\ n' = [n EXCEPT ![q] = count] /\ i' = [i EXCEPT ![q] = 0]
    /\ UNCHANGED <<pipe, ends, killed, chan>>

Leave(q) ==
    /\ lock' = NoProc
    /\ Goto(q, "out")
    /\ n' = [n EXCEPT ![q] = 0] /\ i' = [i EXCEPT ![q] = 0]     \* locals end
    /\ UNCHANGED <<pipe, ends, killed>>

(* sleep(ch, &p->lock), and the way back to the loop condition. *)
Sleep(q, l, ch) ==
    /\ In(q, l) /\ lock' = NoProc
    /\ chan' = [chan EXCEPT ![q] = ch]
    /\ UNCHANGED <<pipe, ends, pc, i, procs>>

Awake(q, from, to) ==
    /\ pc[q] = from /\ lock = NoProc /\ chan[q] = "none"
    /\ lock' = q
    /\ Goto(q, to)
    /\ UNCHANGED <<pipe, ends, i, procs, chan>>

-----------------------------------------------------------------------------

WriteCall(q, count) == "w" \in fds[q] /\ Enter(q, "write", count)

WriteByte(q, v) ==
    /\ In(q, "write") /\ i[q] < n[q] /\ ~Full
    /\ data' = [data EXCEPT ![nwrite % PIPESIZE] = v]
    /\ nwrite' = (nwrite + 1) % UintMod
    /\ i' = [i EXCEPT ![q] = @ + 1]
    /\ UNCHANGED <<nread, ends, lock, pc, procs, chan>>

BadWriteFail(q) ==                      \* p->readopen is not tested
    /\ In(q, "write") /\ i[q] < n[q] /\ Full
    /\ killed[q]
    /\ Leave(q)
    /\ UNCHANGED chan

WriteFail(q) ==
    /\ In(q, "write") /\ i[q] < n[q] /\ Full
    /\ ~readopen \/ killed[q]
    /\ Leave(q)
    /\ UNCHANGED chan

WriteFull(q) ==
    /\ In(q, "write") /\ i[q] < n[q] /\ Full
    /\ readopen /\ ~killed[q]
    /\ chan' = wakeup("nread")
    /\ Goto(q, "full")
    /\ UNCHANGED <<pipe, ends, lock, i, procs>>

WriteSleep(q) == Sleep(q, "full", "nwrite")
WriteAwake(q) == Awake(q, "full", "write")

WriteDone(q) ==
    /\ In(q, "write") /\ i[q] = n[q]
    /\ chan' = wakeup("nread")
    /\ Leave(q)

ReadCall(q, count) == "r" \in fds[q] /\ Enter(q, "read", count)

ReadFail(q) ==
    /\ In(q, "read") /\ Empty /\ writeopen
    /\ killed[q]
    /\ Leave(q)
    /\ UNCHANGED chan

ReadEmpty(q) ==
    /\ In(q, "read") /\ Empty /\ writeopen
    /\ ~killed[q]
    /\ Goto(q, "empty")
    /\ UNCHANGED <<pipe, ends, lock, i, procs, chan>>

ReadSleep(q) == Sleep(q, "empty", "nread")
ReadAwake(q) == Awake(q, "empty", "read")

ReadStart(q) ==
    /\ In(q, "read") /\ ~(Empty /\ writeopen)
    /\ Goto(q, "copy")
    /\ UNCHANGED <<pipe, ends, lock, i, procs, chan>>

ReadByte(q) ==
    /\ In(q, "copy") /\ i[q] < n[q] /\ ~Empty
    /\ nread' = (nread + 1) % UintMod
    /\ i' = [i EXCEPT ![q] = @ + 1]
    /\ UNCHANGED <<data, nwrite, ends, lock, pc, procs, chan>>

ReadDone(q) ==
    /\ In(q, "copy") /\ (i[q] = n[q] \/ Empty)
    /\ chan' = wakeup("nwrite")
    /\ Leave(q)

(***************************************************************************)
(* A process that is in no call closes an end; fileclose() calls           *)
(* pipeclose() when nobody else has that end open.                         *)
(***************************************************************************)
BadLastRef(q, e) == TRUE
LastRef(q, e) == \A r \in Proc \ {q} : e \notin fds[r]

Close(q, e) ==
    /\ pc[q] = "out" /\ e \in fds[q]
    /\ fds' = [fds EXCEPT ![q] = @ \ {e}]
    /\ IF LastRef(q, e)
       THEN /\ lock = NoProc
            /\ IF e = "w"
               THEN /\ writeopen' = FALSE /\ UNCHANGED readopen
                    /\ chan' = wakeup("nread")
               ELSE /\ readopen' = FALSE /\ UNCHANGED writeopen
                    /\ chan' = wakeup("nwrite")
            /\ freed' = (~readopen' /\ ~writeopen')
       ELSE UNCHANGED <<readopen, writeopen, freed, chan>>
    /\ UNCHANGED <<pipe, lock, pc, i, procs>>

(* kill(), which holds ptable.lock only. *)
Kill(q) ==
    /\ ~killed[q]
    /\ killed' = [killed EXCEPT ![q] = TRUE]
    /\ chan' = [chan EXCEPT ![q] = "none"]
    /\ UNCHANGED <<pipe, ends, lock, pc, n, i>>

-----------------------------------------------------------------------------

WriteStep(q) ==
    \/ \E v \in Byte : WriteByte(q, v)
    \/ WriteFail(q) \/ WriteFull(q) \/ WriteSleep(q) \/ WriteAwake(q) \/ WriteDone(q)

ReadStep(q) ==
    \/ ReadFail(q) \/ ReadEmpty(q) \/ ReadSleep(q) \/ ReadAwake(q)
    \/ ReadStart(q) \/ ReadByte(q) \/ ReadDone(q)

Next == \E q \in Proc :
    \/ \E count \in Counts : WriteCall(q, count) \/ ReadCall(q, count)
    \/ WriteStep(q) \/ ReadStep(q)
    \/ \E e \in {"r", "w"} : Close(q, e)
    \/ Kill(q)

Spec == Init /\ [][Next]_vars

(***************************************************************************)
(* A process inside a call that is not asleep keeps executing, since       *)
(* interrupts are off and it holds the lock; one that has been woken and   *)
(* spins on p->lock, which is free again and again, gets it some day.      *)
(***************************************************************************)
FairSpec ==
    /\ Spec
    /\ \A q \in Proc :
          /\ WF_vars(WriteStep(q)) /\ WF_vars(ReadStep(q))
          /\ SF_vars(WriteAwake(q)) /\ SF_vars(ReadAwake(q))

-----------------------------------------------------------------------------

(* The bytes in the pipe, oldest first. *)
Count == (nwrite - nread) % UintMod
Buffer == [k \in 1..Count |-> data[(nread + k - 1) % PIPESIZE]]

Ch == INSTANCE Channel WITH Capacity <- PIPESIZE, buf <- Buffer

(***************************************************************************)
(* The circular buffer with its wrapping counters is a bounded FIFO queue: *)
(* no byte is lost, duplicated or reordered, whoever reads, writes, closes *)
(* or is killed.                                                           *)
(***************************************************************************)
IsChannel == Ch!Spec

(***************************************************************************)
(* Nobody sleeps without a reason: a reader asleep on nread faces an empty *)
(* pipe that can still be written, a writer asleep on nwrite a full one    *)
(* that can still be read (the lock is free, so all wakeups are done).     *)
(* The one exception is in the code: a writer that fills the pipe and then *)
(* finds itself killed returns without waking the readers.                 *)
(***************************************************************************)
NoLostWakeup ==
    lock = NoProc => \A q \in Proc :
        /\ chan[q] = "nread" => (Empty \/ \E w \in Proc : killed[w]) /\ writeopen
        /\ chan[q] = "nwrite" => Full /\ readopen

(* The page is freed only when no process is, or can get, inside. *)
NoUseAfterFree ==
    freed => lock = NoProc /\ \A q \in Proc : pc[q] = "out" /\ fds[q] = {}

(* A call that nobody is left to unblock, and one that could go on. *)
Abandoned(q) ==
    \/ ~writeopen /\ pc[q] \in {"read", "empty", "copy"}
    \/ ~readopen /\ pc[q] \in {"write", "full"}

Servable(q) ==
    \/ ~Empty /\ pc[q] \in {"read", "empty"} /\ \A w \in Proc : ~killed[w]
    \/ ~Full /\ pc[q] = "full"

(***************************************************************************)
(* Blocked calls end: a read once the write end is closed, a write once    *)
(* the read end is closed.  Until then a reader that finds bytes, or a     *)
(* writer that finds room, is served, or another process takes them first, *)
(* unless a writer was killed.                                             *)
(***************************************************************************)
BlockedCallsEnd ==
    \A q \in Proc : []<>(~Abandoned(q)) /\ []<>(~Servable(q))

=============================================================================
