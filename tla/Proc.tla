-------------------------------- MODULE Proc --------------------------------
(***************************************************************************)
(* The process table of proc.c on several CPUs: allocproc, fork, exit,     *)
(* wait, kill, sleep, wakeup, yield, the per-CPU scheduler with its        *)
(* context switches, sys_assign_tickets, and the parts of trap() that act  *)
(* on the current process.                                                 *)
(*                                                                         *)
(* A critical section that takes and releases ptable.lock without          *)
(* switching stacks is one step.  The switches are taken apart, because    *)
(* there the lock is acquired by one thread and released by another:       *)
(*                                                                         *)
(*   thread   acquire, change its state    cpc = "switching"               *)
(*            swtch in sched()             cpc = "back"    (CPU's stack)   *)
(*   CPU      c->proc = 0, release         cpc = "loop"                    *)
(*            acquire, pick p              cpc = "picked"                  *)
(*            swtch in scheduler()         cpc = "resumed" (p's stack)     *)
(*   thread   release (forkret, yield,                                     *)
(*            sleep) or go on holding (wait)  cpc = "run"                  *)
(*                                                                         *)
(* Steps of fork() between its two critical sections run without the lock  *)
(* and so are steps of their own.  A timer interrupt may preempt a thread  *)
(* wherever it holds no lock.                                              *)
(***************************************************************************)
EXTENDS Integers

CONSTANTS
    NPROC,              \* slots of ptable.proc
    CPU,                \* the CPUs
    NoCpu,              \* not a CPU: ptable.lock is free
    Chan,               \* sleep channels of the rest of the kernel
    DEFAULT_TICKETS,    \* 100
    AssignValues,       \* ticket counts passed to assign_tickets
    KillPids,           \* pids passed to kill and assign_tickets
    MaxPid              \* bound on the pids handed out

Slots == 1..NPROC
NULL == 0                       \* the null struct proc pointer
initproc == 1                   \* userinit takes the first slot

ASSUME ProcConstants ==
    /\ NPROC \in Nat \ {0}
    /\ NoCpu \notin CPU
    /\ Chan \cap (0..NPROC) = {}
    /\ DEFAULT_TICKETS \in Nat \ {0}
    /\ AssignValues \subseteq Nat \ {0}
    /\ KillPids \subseteq Nat
    /\ MaxPid \in Nat \ {0}

VARIABLES
    state, pid, parent, chan, killed, tickets, kstack,  \* struct proc fields
    nextpid,
    pc,         \* where in the kernel, or in user code, each thread is
    np,         \* the local np of a thread inside fork()
    resume,     \* who called swtch: where a thread continues when picked
    lock,       \* the CPU that holds ptable.lock
    cproc,      \* c->proc
    stk,        \* whose kernel stack the CPU is on; NULL: the scheduler's
    cpc         \* phase of the context switch on each CPU, see above

fields == <<state, pid, parent, chan, killed, tickets, kstack, nextpid>>
threads == <<pc, np, resume>>
cpus == <<lock, cproc, stk, cpc>>
vars == <<fields, threads, cpus>>

States == {"UNUSED", "EMBRYO", "SLEEPING", "RUNNABLE", "RUNNING", "ZOMBIE"}

(***************************************************************************)
(* "user"     in user mode                                                 *)
(* "sys"      inside a system call, no ptable.lock held                    *)
(* "ret"      the system call is done, trap() is about to test killed      *)
(* "kalloc", "copy", "publish"   inside fork(), after allocproc's section  *)
(* "scan"     inside wait(), at the top of its for(;;), lock held          *)
(* "exit"     inside exit(), before acquire                                *)
(***************************************************************************)
Labels == {"user", "sys", "ret", "kalloc", "copy", "publish", "scan", "exit"}

TypeOK ==
    /\ state \in [Slots -> States]
    /\ pid \in [Slots -> 0..MaxPid]
    /\ parent \in [Slots -> Slots \cup {NULL}]
    /\ chan \in [Slots -> Slots \cup Chan \cup {NULL}]
    /\ killed \in [Slots -> BOOLEAN]
    /\ tickets \in [Slots -> Nat]
    /\ kstack \in [Slots -> BOOLEAN]
    /\ nextpid \in 1..(MaxPid + 1)
    /\ pc \in [Slots -> Labels]
    /\ np \in [Slots -> Slots \cup {NULL}]
    /\ resume \in [Slots -> {"forkret", "yield", "sleep", "wait", "never"}]
    /\ lock \in CPU \cup {NoCpu}
    /\ cproc \in [CPU -> Slots \cup {NULL}]
    /\ stk \in [CPU -> Slots \cup {NULL}]
    /\ cpc \in [CPU -> {"loop", "picked", "resumed", "run", "switching", "back", "panic"}]

-----------------------------------------------------------------------------

(***************************************************************************)
(* After userinit(): init is RUNNABLE and every CPU is in scheduler().     *)
(***************************************************************************)
Init ==
    /\ state = [p \in Slots |-> IF p = initproc THEN "RUNNABLE" ELSE "UNUSED"]
    /\ pid = [p \in Slots |-> IF p = initproc THEN 1 ELSE 0]
    /\ parent = [p \in Slots |-> NULL]
    /\ chan = [p \in Slots |-> NULL]
    /\ killed = [p \in Slots |-> FALSE]
    /\ tickets = [p \in Slots |-> IF p = initproc THEN DEFAULT_TICKETS ELSE 0]
    /\ kstack = [p \in Slots |-> p = initproc]
    /\ nextpid = 2
    /\ pc = [p \in Slots |-> "user"]
    /\ np = [p \in Slots |-> NULL]
    /\ resume = [p \in Slots |-> "forkret"]
    /\ lock = NoCpu
    /\ cproc = [c \in CPU |-> NULL]
    /\ stk = [c \in CPU |-> NULL]
    /\ cpc = [c \in CPU |-> "loop"]

(* Thread p executes on CPU c. *)
Runs(c, p) == cpc[c] = "run" /\ stk[c] = p

(* acquire(&ptable.lock) and release(&ptable.lock) by CPU c. *)
Acquire(c) == lock = NoCpu /\ lock' = c
Release(c) == lock' = NoCpu

(* A critical section that does not switch stacks. *)
Locked == lock = NoCpu /\ UNCHANGED cpus

Goto(p, l) == pc' = [pc EXCEPT ![p] = l]

(***************************************************************************)
(* Operators named Bad... are faulty variants of an operation, kept beside *)
(* it: the properties at the end of the module tell them from the code.    *)
(***************************************************************************)
BadWakeup1(st, ch) == st                \* nobody is woken

(* The process states after wakeup1(ch), from states st. *)
wakeup1(st, ch) ==
    [q \in Slots |-> IF st[q] = "SLEEPING" /\ chan[q] = ch THEN "RUNNABLE" ELSE st[q]]

(* The tail of every blocking operation: sched() saves the context. *)
Sched(c, p, how) ==
    /\ resume' = [resume EXCEPT ![p] = how]
    /\ cpc' = [cpc EXCEPT ![c] = "switching"]
    /\ UNCHANGED <<cproc, stk>>

-----------------------------------------------------------------------------
(***************************************************************************)
(* The scheduler and the context switches.                                 *)
(***************************************************************************)

(***************************************************************************)
(* One lottery round that finds a winner.  Module Lottery shows that the   *)
(* winner is some RUNNABLE slot with tickets, and that each of them can    *)
(* win.                                                                    *)
(***************************************************************************)
SchedPick(c, p) ==
    /\ cpc[c] = "loop"
    /\ state[p] = "RUNNABLE" /\ tickets[p] > 0
    /\ Acquire(c)
    /\ cproc' = [cproc EXCEPT ![c] = p]
    /\ state' = [state EXCEPT ![p] = "RUNNING"]
    /\ cpc' = [cpc EXCEPT ![c] = "picked"]
    /\ UNCHANGED <<pid, parent, chan, killed, tickets, kstack, nextpid, threads, stk>>

(* swtch(&c->scheduler, p->context): onto the process's kernel stack. *)
SwtchTo(c) ==
    /\ cpc[c] = "picked"
    /\ stk' = [stk EXCEPT ![c] = cproc[c]]
    /\ cpc' = [cpc EXCEPT ![c] = "resumed"]
    /\ UNCHANGED <<fields, threads, lock, cproc>>

(* swtch(&p->context, mycpu()->scheduler) in sched(). *)
SwtchBack(c) ==
    /\ cpc[c] = "switching"
    /\ stk' = [stk EXCEPT ![c] = NULL]
    /\ cpc' = [cpc EXCEPT ![c] = "back"]
    /\ UNCHANGED <<fields, threads, lock, cproc>>

(* scheduler() after its swtch returns. *)
SchedBack(c) ==
    /\ cpc[c] = "back"
    /\ cproc' = [cproc EXCEPT ![c] = NULL]
    /\ Release(c)
    /\ cpc' = [cpc EXCEPT ![c] = "loop"]
    /\ UNCHANGED <<fields, threads, stk>>

(* sleep() leaves ptable.lock held if it was called with that lock. *)
BadKeepsLock(p) == FALSE
KeepsLock(p) == resume[p] = "wait"

(***************************************************************************)
(* The thread goes on behind its swtch: forkret, yield and sleep release   *)
(* the lock that the scheduler acquired; sleep clears chan first; wait     *)
(* slept on ptable.lock itself and keeps it.                               *)
(***************************************************************************)
ReturnFromSwtch(c, p) ==
    /\ cpc[c] = "resumed" /\ stk[c] = p
    /\ cpc' = [cpc EXCEPT ![c] = "run"]
    /\ IF resume[p] \in {"sleep", "wait"} THEN chan' = [chan EXCEPT ![p] = NULL]
                                          ELSE UNCHANGED chan
    /\ IF KeepsLock(p) THEN UNCHANGED lock ELSE Release(c)
    /\ UNCHANGED <<state, pid, parent, killed, tickets, kstack, nextpid, threads, cproc, stk>>

(***************************************************************************)
(* A timer interrupt makes a thread that holds no lock yield.              *)
(***************************************************************************)
Yield(c, p) ==
    /\ Runs(c, p)
    /\ Acquire(c)
    /\ state' = [state EXCEPT ![p] = "RUNNABLE"]
    /\ Sched(c, p, "yield")
    /\ UNCHANGED <<pid, parent, chan, killed, tickets, kstack, nextpid, pc, np>>

(***************************************************************************)
(* sleep(ch, lk) with lk # &ptable.lock, from a system call or from the    *)
(* file closing at the start of exit().                                    *)
(***************************************************************************)
SleepOn(c, p, ch) ==
    /\ Runs(c, p)
    /\ pc[p] = "sys" \/ (pc[p] = "exit" /\ p # initproc)
    /\ Acquire(c)
    /\ chan' = [chan EXCEPT ![p] = ch]
    /\ state' = [state EXCEPT ![p] = "SLEEPING"]
    /\ Sched(c, p, "sleep")
    /\ UNCHANGED <<pid, parent, killed, tickets, kstack, nextpid, pc, np>>

(* wakeup(ch), from a system call of another thread or from an interrupt. *)
Wakeup(ch) ==
    /\ Locked
    /\ state' = wakeup1(state, ch)
    /\ UNCHANGED <<pid, parent, chan, killed, tickets, kstack, nextpid, threads>>

-----------------------------------------------------------------------------
(***************************************************************************)
(* trap(): entering and leaving the kernel.                                *)
(***************************************************************************)

(* A system call of a process not killed yet. *)
Syscall(c, p) ==
    /\ Runs(c, p) /\ pc[p] = "user" /\ ~killed[p]
    /\ Goto(p, "sys")
    /\ UNCHANGED <<fields, np, resume, cpus>>

(* A system call that leaves the process table alone, or is done sleeping. *)
SyscallDone(c, p) ==
    /\ Runs(c, p) /\ pc[p] = "sys"
    /\ Goto(p, "ret")
    /\ UNCHANGED <<fields, np, resume, cpus>>

SyscallReturn(c, p) ==
    /\ Runs(c, p) /\ pc[p] = "ret"
    /\ Goto(p, IF killed[p] THEN "exit" ELSE "user")
    /\ UNCHANGED <<fields, np, resume, cpus>>

(* Any trap from user mode of a process that has been killed. *)
KilledExit(c, p) ==
    /\ Runs(c, p) /\ pc[p] = "user" /\ killed[p]
    /\ Goto(p, "exit")
    /\ UNCHANGED <<fields, np, resume, cpus>>

(* An unexpected trap in user mode kills the process. *)
UserFault(c, p) ==
    /\ Runs(c, p) /\ pc[p] = "user"
    /\ killed' = [killed EXCEPT ![p] = TRUE]
    /\ Goto(p, "exit")
    /\ UNCHANGED <<state, pid, parent, chan, tickets, kstack, nextpid, np, resume, cpus>>

-----------------------------------------------------------------------------
(***************************************************************************)
(* fork().                                                                 *)
(***************************************************************************)

FirstUnused(q) == state[q] = "UNUSED" /\ \A r \in Slots : r < q => state[r] # "UNUSED"

(* allocproc(), its critical section. *)
ForkAlloc(c, p) ==
    /\ Runs(c, p) /\ pc[p] = "sys"
    /\ nextpid <= MaxPid
    /\ Locked
    /\ \E q \in Slots :
          /\ FirstUnused(q)
          /\ state' = [state EXCEPT ![q] = "EMBRYO"]
          /\ pid' = [pid EXCEPT ![q] = nextpid]
          /\ tickets' = [tickets EXCEPT ![q] = DEFAULT_TICKETS]
          /\ np' = [np EXCEPT ![p] = q]
    /\ nextpid' = nextpid + 1
    /\ Goto(p, "kalloc")
    /\ UNCHANGED <<parent, chan, killed, kstack, resume>>

(* allocproc() with every slot in use: fork returns -1. *)
ForkNoSlot(c, p) ==
    /\ Runs(c, p) /\ pc[p] = "sys"
    /\ Locked
    /\ \A q \in Slots : state[q] # "UNUSED"
    /\ Goto(p, "ret")
    /\ UNCHANGED <<fields, np, resume>>

(***************************************************************************)
(* allocproc() after release: kalloc of the kernel stack and the context   *)
(* that starts at forkret.  On failure the slot is given back without the  *)
(* lock, and only its state is reset.                                      *)
(***************************************************************************)
ForkKstack(c, p) ==
    /\ Runs(c, p) /\ pc[p] = "kalloc"
    /\ \/ /\ kstack' = [kstack EXCEPT ![np[p]] = TRUE]
          /\ resume' = [resume EXCEPT ![np[p]] = "forkret"]
          /\ Goto(p, "copy")
          /\ UNCHANGED <<state, np>>
       \/ /\ state' = [state EXCEPT ![np[p]] = "UNUSED"]
          /\ np' = [np EXCEPT ![p] = NULL]
          /\ Goto(p, "ret")
          /\ UNCHANGED <<kstack, resume>>
    /\ UNCHANGED <<pid, parent, chan, killed, tickets, nextpid, cpus>>

(* copyuvm and the copying of the parent's fields; it may run out of memory. *)
ForkCopy(c, p) ==
    /\ Runs(c, p) /\ pc[p] = "copy"
    /\ \/ /\ parent' = [parent EXCEPT ![np[p]] = p]
          /\ pc' = [pc EXCEPT ![p] = "publish", ![np[p]] = "user"]
          /\ UNCHANGED <<state, kstack, np>>
       \/ /\ kstack' = [kstack EXCEPT ![np[p]] = FALSE]
          /\ state' = [state EXCEPT ![np[p]] = "UNUSED"]
          /\ np' = [np EXCEPT ![p] = NULL]
          /\ Goto(p, "ret")
          /\ UNCHANGED parent
    /\ UNCHANGED <<pid, chan, killed, tickets, nextpid, resume, cpus>>

ForkPublish(c, p) ==
    /\ Runs(c, p) /\ pc[p] = "publish"
    /\ Locked
    /\ state' = [state EXCEPT ![np[p]] = "RUNNABLE"]
    /\ np' = [np EXCEPT ![p] = NULL]
    /\ Goto(p, "ret")
    /\ UNCHANGED <<pid, parent, chan, killed, tickets, kstack, nextpid, resume>>

-----------------------------------------------------------------------------
(***************************************************************************)
(* exit() and wait().                                                      *)
(***************************************************************************)

ExitCall(c, p) ==
    /\ Runs(c, p) /\ pc[p] = "sys"
    /\ Goto(p, "exit")
    /\ UNCHANGED <<fields, np, resume, cpus>>

(* panic("init exiting"): this CPU spins with interrupts off. *)
InitExiting(c) ==
    /\ Runs(c, initproc) /\ pc[initproc] = "exit"
    /\ cpc' = [cpc EXCEPT ![c] = "panic"]
    /\ UNCHANGED <<fields, threads, lock, cproc, stk>>

(* "Pass abandoned children to init." *)
BadReparented(p) == parent
Reparented(p) == [q \in Slots |-> IF parent[q] = p THEN initproc ELSE parent[q]]

(***************************************************************************)
(* exit() from acquire to sched(): wake the parent, hand the children to   *)
(* init, wake init if one of them is a zombie already, become a ZOMBIE.    *)
(***************************************************************************)
Exit(c, p) ==
    /\ Runs(c, p) /\ pc[p] = "exit" /\ p # initproc
    /\ Acquire(c)
    /\ LET children == {q \in Slots : parent[q] = p}
           st1 == wakeup1(state, parent[p])
           st2 == IF \E q \in children : st1[q] = "ZOMBIE"
                  THEN wakeup1(st1, initproc) ELSE st1
       IN  /\ state' = [st2 EXCEPT ![p] = "ZOMBIE"]
           /\ parent' = Reparented(p)
    /\ Sched(c, p, "never")
    /\ UNCHANGED <<pid, chan, killed, tickets, kstack, nextpid, pc, np>>

(* wait() takes the lock once, before its loop. *)
WaitCall(c, p) ==
    /\ Runs(c, p) /\ pc[p] = "sys"
    /\ Acquire(c)
    /\ Goto(p, "scan")
    /\ UNCHANGED <<fields, np, resume, cproc, stk, cpc>>

BadZombieChild(p, q) == parent[q] = p /\ state[q] # "UNUSED"

ZombieChild(p, q) == parent[q] = p /\ state[q] = "ZOMBIE"

(* The scan meets a zombie child, the first one in table order. *)
WaitReap(c, p, q) ==
    /\ Runs(c, p) /\ pc[p] = "scan"
    /\ ZombieChild(p, q) /\ \A r \in Slots : r < q => ~ZombieChild(p, r)
    /\ kstack' = [kstack EXCEPT ![q] = FALSE]
    /\ pid' = [pid EXCEPT ![q] = 0]
    /\ tickets' = [tickets EXCEPT ![q] = 0]
    /\ parent' = [parent EXCEPT ![q] = NULL]
    /\ killed' = [killed EXCEPT ![q] = FALSE]
    /\ state' = [state EXCEPT ![q] = "UNUSED"]
    /\ Release(c)
    /\ Goto(p, "ret")
    /\ UNCHANGED <<chan, nextpid, np, resume, cproc, stk, cpc>>

HasChildren(p) == \E q \in Slots : parent[q] = p

(* No zombie, and no children or killed: wait returns -1. *)
WaitFail(c, p) ==
    /\ Runs(c, p) /\ pc[p] = "scan"
    /\ \A q \in Slots : ~ZombieChild(p, q)
    /\ ~HasChildren(p) \/ killed[p]
    /\ Release(c)
    /\ Goto(p, "ret")
    /\ UNCHANGED <<fields, np, resume, cproc, stk, cpc>>

(* sleep(curproc, &ptable.lock). *)
WaitSleep(c, p) ==
    /\ Runs(c, p) /\ pc[p] = "scan"
    /\ \A q \in Slots : ~ZombieChild(p, q)
    /\ HasChildren(p) /\ ~killed[p]
    /\ chan' = [chan EXCEPT ![p] = p]
    /\ state' = [state EXCEPT ![p] = "SLEEPING"]
    /\ Sched(c, p, "wait")
    /\ UNCHANGED <<pid, parent, killed, tickets, kstack, nextpid, pc, np, lock>>

-----------------------------------------------------------------------------
(***************************************************************************)
(* kill() and sys_assign_tickets(): the first slot with that pid, whatever *)
(* its state.                                                              *)
(***************************************************************************)

Finds(q, k) == pid[q] = k /\ \A r \in Slots : r < q => pid[r] # k

(* "Wake process from sleep if necessary." *)
BadWoken(s) == s
Woken(s) == IF s = "SLEEPING" THEN "RUNNABLE" ELSE s

Kill(c, p, k) ==
    /\ Runs(c, p) /\ pc[p] = "sys"
    /\ Locked
    /\ \E q \in Slots :
          /\ Finds(q, k)
          /\ killed' = [killed EXCEPT ![q] = TRUE]
          /\ state' = [state EXCEPT ![q] = Woken(@)]
    /\ Goto(p, "ret")
    /\ UNCHANGED <<pid, parent, chan, tickets, kstack, nextpid, np, resume>>

AssignTickets(c, p, k, t) ==
    /\ Runs(c, p) /\ pc[p] = "sys"
    /\ k >= 1 /\ t >= 1
    /\ Locked
    /\ \E q \in Slots : Finds(q, k) /\ tickets' = [tickets EXCEPT ![q] = t]
    /\ Goto(p, "ret")
    /\ UNCHANGED <<state, pid, parent, chan, killed, kstack, nextpid, np, resume>>

-----------------------------------------------------------------------------

SchedulerStep(c) ==
    \/ \E p \in Slots : SchedPick(c, p)
    \/ SwtchTo(c)
    \/ SwtchBack(c)
    \/ SchedBack(c)
    \/ \E p \in Slots : ReturnFromSwtch(c, p)

TrapStep(c, p) ==
    \/ Syscall(c, p)
    \/ SyscallDone(c, p)
    \/ SyscallReturn(c, p)
    \/ KilledExit(c, p)
    \/ UserFault(c, p)
    \/ Yield(c, p)

ForkStep(c, p) ==
    \/ ForkAlloc(c, p)
    \/ ForkNoSlot(c, p)
    \/ ForkKstack(c, p)
    \/ ForkCopy(c, p)
    \/ ForkPublish(c, p)

ExitWaitStep(c, p) ==
    \/ ExitCall(c, p)
    \/ Exit(c, p)
    \/ WaitCall(c, p)
    \/ \E q \in Slots : WaitReap(c, p, q)
    \/ WaitFail(c, p)
    \/ WaitSleep(c, p)

SignalStep(c, p) ==
    \/ \E ch \in Chan : SleepOn(c, p, ch)
    \/ \E k \in KillPids : Kill(c, p, k)
    \/ \E k \in KillPids, t \in AssignValues : AssignTickets(c, p, k, t)

Next ==
    \/ \E c \in CPU : SchedulerStep(c) \/ InitExiting(c)
    \/ \E c \in CPU, p \in Slots :
          TrapStep(c, p) \/ ForkStep(c, p) \/ ExitWaitStep(c, p) \/ SignalStep(c, p)
    \/ \E ch \in Chan : Wakeup(ch)

Spec == Init /\ [][Next]_vars

(***************************************************************************)
(* Fairness.  A CPU in the middle of a switch holds the lock and goes on.  *)
(* The timer of each CPU interrupts it again and again.                    *)
(* A thread that gets the CPU and the lock again and again executes its    *)
(* code.  The lottery gives a RUNNABLE process with a ticket its turn      *)
(* again and again.  init returns to wait() for ever (init.c).             *)
(***************************************************************************)
SwitchStep(c) ==
    SwtchTo(c) \/ SwtchBack(c) \/ SchedBack(c) \/ \E p \in Slots : ReturnFromSwtch(c, p)

ThreadStep(c, p) ==
    \/ Syscall(c, p) \/ SyscallReturn(c, p) \/ KilledExit(c, p)
    \/ ForkStep(c, p) \/ ExitWaitStep(c, p)
    \/ p = initproc /\ InitExiting(c)

Fairness ==
    /\ \A c \in CPU : WF_vars(SwitchStep(c))
    /\ \A c \in CPU : SF_vars(\E p \in Slots : Yield(c, p))
    /\ \A p \in Slots : SF_vars(\E c \in CPU : SchedPick(c, p))
    /\ \A p \in Slots : SF_vars(\E c \in CPU : ThreadStep(c, p))
    /\ SF_vars(\E c \in CPU : WaitCall(c, initproc))

FairSpec == Spec /\ Fairness

-----------------------------------------------------------------------------

(* CPU c executes code that holds ptable.lock. *)
InLockedCode(c) ==
    \/ cpc[c] \in {"picked", "resumed", "switching", "back"}
    \/ cpc[c] = "run" /\ pc[stk[c]] = "scan"

(* The phases in which CPU c is on its way to, on, or leaving c->proc. *)
Engaged(c) == cpc[c] \in {"picked", "resumed", "run", "switching", "panic"}

(***************************************************************************)
(* No two CPUs are ever on the same kernel stack, and a CPU is only on a   *)
(* stack that is allocated: an exiting process is not reaped, nor a        *)
(* yielding or sleeping one picked elsewhere, before it has switched away. *)
(***************************************************************************)
StackExclusive ==
    \A c \in CPU : stk[c] # NULL =>
        /\ kstack[stk[c]]
        /\ \A d \in CPU \ {c} : stk[d] # stk[c]

(***************************************************************************)
(* RUNNING means being c->proc of exactly one CPU that has picked the      *)
(* process and not yet begun to switch away from it, and myproc() is then  *)
(* the process whose stack is in use.                                      *)
(***************************************************************************)
RunningOnOneCpu ==
    /\ \A p \in Slots : state[p] = "RUNNING" <=>
          \E c \in CPU : cproc[c] = p /\ Engaged(c) /\ cpc[c] # "switching"
    /\ \A c, d \in CPU : c # d /\ Engaged(c) /\ Engaged(d) => cproc[c] # cproc[d]
    /\ \A c \in CPU : stk[c] # NULL => stk[c] = cproc[c]

(***************************************************************************)
(* ptable.lock is held by exactly the CPU that is in the middle of a       *)
(* context switch or scanning in wait(), although it is acquired on one    *)
(* stack and released on another: release() never panics for want of       *)
(* holding, and sched() is entered with the lock and a state other than    *)
(* RUNNING (its panics "sched ptable.lock" and "sched running").           *)
(***************************************************************************)
LockFollowsSwitch ==
    \A c \in CPU :
        /\ lock = c <=> InLockedCode(c)
        /\ cpc[c] = "switching" => state[cproc[c]] # "RUNNING"

(***************************************************************************)
(* No wakeup of wait() is lost: a process asleep in wait() has a child,    *)
(* none of its children is a zombie, and it has not been killed.           *)
(***************************************************************************)
NoLostWait ==
    \A p \in Slots : state[p] = "SLEEPING" /\ chan[p] = p =>
        /\ HasChildren(p) /\ ~killed[p]
        /\ \A q \in Slots : ~ZombieChild(p, q)

(***************************************************************************)
(* Every process except init has a parent that can still reap it: neither  *)
(* a free slot, nor a half-built process, nor a zombie.                    *)
(***************************************************************************)
ParentCanReap ==
    \A p \in Slots \ {initproc} :
        state[p] \in {"SLEEPING", "RUNNABLE", "RUNNING", "ZOMBIE"} =>
            /\ parent[p] # NULL
            /\ state[parent[p]] \in {"SLEEPING", "RUNNABLE", "RUNNING"}

(***************************************************************************)
(* Two slots never carry the same pid, free slots with a left-over pid     *)
(* included: kill() and assign_tickets() take the first slot that matches. *)
(***************************************************************************)
UniquePids ==
    \A p, q \in Slots : p # q /\ pid[p] # 0 => pid[p] # pid[q]

(***************************************************************************)
(* A process that exists has tickets, so that a RUNNABLE process makes     *)
(* total_tickets positive.                                                 *)
(***************************************************************************)
LiveHaveTickets == \A p \in Slots : state[p] # "UNUSED" => tickets[p] > 0

(***************************************************************************)
(* A zombie stays a zombie until its parent's wait() frees the slot with   *)
(* all its fields reset; nothing revives it.                               *)
(***************************************************************************)
ZombieOnlyReaped ==
    [][\A p \in Slots : state[p] = "ZOMBIE" /\ state'[p] # "ZOMBIE" =>
          /\ state'[p] = "UNUSED" /\ pid'[p] = 0 /\ ~killed'[p] /\ parent'[p] = NULL
          /\ pc[parent[p]] = "scan"]_vars

(* init's CPU has stopped in panic("init exiting"). *)
InitDown == \E c \in CPU : cpc[c] = "panic"

(***************************************************************************)
(* A zombie whose parent is init, by birth or because its own parent left  *)
(* it behind, is reaped ("the init process cleans its struct proc",        *)
(* README.md:121), unless init itself was made to exit.                    *)
(***************************************************************************)
OrphansReaped ==
    \A p \in Slots : []<>(state[p] = "ZOMBIE" /\ parent[p] = initproc => InitDown)

(***************************************************************************)
(* A killed process gets to exit: it leaves the kernel or its sleep in     *)
(* wait() and dies ("Process won't exit until it returns to user space",   *)
(* proc.c:562).                                                            *)
(***************************************************************************)
KilledProcessExits ==
    \A p \in Slots :
        []<>(killed[p] /\ state[p] \in {"SLEEPING", "RUNNABLE", "RUNNING"} => InitDown)

=============================================================================
