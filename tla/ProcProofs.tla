----------------------------- MODULE ProcProofs -----------------------------
(***************************************************************************)
(* What is proved about the process table, for every number of slots and   *)
(* CPUs and every set of pids, channels and ticket counts.                 *)
(***************************************************************************)
EXTENDS Proc, TLAPS

LEMMA ProcTypeStep == TypeOK /\ [Next]_vars => TypeOK'
<1> SUFFICES ASSUME TypeOK, [Next]_vars PROVE TypeOK'
  OBVIOUS
<1>1. ASSUME NEW c \in CPU, NEW p \in Slots, SchedPick(c, p) PROVE TypeOK'
  BY <1>1 DEF SchedPick, TypeOK, States, Acquire, threads
<1>2. ASSUME NEW c \in CPU, SwtchTo(c) PROVE TypeOK'
  BY <1>2 DEF SwtchTo, TypeOK, fields, threads
<1>3. ASSUME NEW c \in CPU, SwtchBack(c) PROVE TypeOK'
  BY <1>3 DEF SwtchBack, TypeOK, fields, threads
<1>4. ASSUME NEW c \in CPU, SchedBack(c) PROVE TypeOK'
  BY <1>4 DEF SchedBack, TypeOK, fields, threads, Release
<1>5. ASSUME NEW c \in CPU, NEW p \in Slots, ReturnFromSwtch(c, p) PROVE TypeOK'
  BY <1>5 DEF ReturnFromSwtch, KeepsLock, TypeOK, Release, threads
<1>6. ASSUME NEW c \in CPU, InitExiting(c) PROVE TypeOK'
  BY <1>6 DEF InitExiting, TypeOK, fields, threads
<1>7. ASSUME NEW c \in CPU, NEW p \in Slots, Syscall(c, p) PROVE TypeOK'
  BY <1>7 DEF Syscall, TypeOK, fields, cpus, Goto, Labels
<1>8. ASSUME NEW c \in CPU, NEW p \in Slots, SyscallDone(c, p) PROVE TypeOK'
  BY <1>8 DEF SyscallDone, TypeOK, fields, cpus, Goto, Labels
<1>9. ASSUME NEW c \in CPU, NEW p \in Slots, SyscallReturn(c, p) PROVE TypeOK'
  BY <1>9 DEF SyscallReturn, TypeOK, fields, cpus, Goto, Labels
<1>10. ASSUME NEW c \in CPU, NEW p \in Slots, KilledExit(c, p) PROVE TypeOK'
  BY <1>10 DEF KilledExit, TypeOK, fields, cpus, Goto, Labels
<1>11. ASSUME NEW c \in CPU, NEW p \in Slots, UserFault(c, p) PROVE TypeOK'
  BY <1>11 DEF UserFault, TypeOK, cpus, Goto, Labels
<1>12. ASSUME NEW c \in CPU, NEW p \in Slots, Yield(c, p) PROVE TypeOK'
  BY <1>12 DEF Yield, TypeOK, States, Acquire, Sched
<1>13. ASSUME NEW c \in CPU, NEW p \in Slots, ForkAlloc(c, p) PROVE TypeOK'
  <2>1. PICK q \in Slots :
          /\ state' = [state EXCEPT ![q] = "EMBRYO"]
          /\ pid' = [pid EXCEPT ![q] = nextpid]
          /\ tickets' = [tickets EXCEPT ![q] = DEFAULT_TICKETS]
          /\ np' = [np EXCEPT ![p] = q]
    BY Zenon, <1>13 DEF ForkAlloc
  <2>2. nextpid \in 0..MaxPid /\ nextpid' \in 1..(MaxPid + 1)
    BY <1>13, ProcConstants DEF ForkAlloc, TypeOK
  <2>3. state' \in [Slots -> States]
    BY <2>1 DEF TypeOK, States
  <2>4. pid' \in [Slots -> 0..MaxPid]
    BY <2>1, <2>2 DEF TypeOK
  <2>5. tickets' \in [Slots -> Nat] /\ np' \in [Slots -> Slots \cup {NULL}]
    BY <2>1, ProcConstants DEF TypeOK
  <2> QED
    BY <1>13, <2>2, <2>3, <2>4, <2>5 DEF ForkAlloc, TypeOK, Locked, cpus, Goto, Labels
<1>14. ASSUME NEW c \in CPU, NEW p \in Slots, ForkNoSlot(c, p) PROVE TypeOK'
  BY <1>14 DEF ForkNoSlot, TypeOK, fields, Locked, cpus, Goto, Labels
<1>15. ASSUME NEW c \in CPU, NEW p \in Slots, ForkKstack(c, p) PROVE TypeOK'
  <2>1. state' \in [Slots -> States] /\ kstack' \in [Slots -> BOOLEAN]
    BY Zenon, <1>15 DEF ForkKstack, TypeOK, States
  <2>2. np' \in [Slots -> Slots \cup {NULL}] /\ pc' \in [Slots -> Labels]
    BY <1>15 DEF ForkKstack, TypeOK, Goto, Labels
  <2>3. resume' \in [Slots -> {"forkret", "yield", "sleep", "wait", "never"}]
    BY <1>15 DEF ForkKstack, TypeOK
  <2> QED
    BY <1>15, <2>1, <2>2, <2>3 DEF ForkKstack, TypeOK, cpus
<1>16. ASSUME NEW c \in CPU, NEW p \in Slots, ForkCopy(c, p) PROVE TypeOK'
  <2>1. state' \in [Slots -> States] /\ kstack' \in [Slots -> BOOLEAN]
    BY Zenon, <1>16 DEF ForkCopy, TypeOK, States
  <2>2. np' \in [Slots -> Slots \cup {NULL}] /\ parent' \in [Slots -> Slots \cup {NULL}]
    BY <1>16 DEF ForkCopy, TypeOK
  <2>3. pc' \in [Slots -> Labels]
    BY <1>16 DEF ForkCopy, TypeOK, Goto, Labels
  <2> QED
    BY <1>16, <2>1, <2>2, <2>3 DEF ForkCopy, TypeOK, cpus
<1>17. ASSUME NEW c \in CPU, NEW p \in Slots, ForkPublish(c, p) PROVE TypeOK'
  BY Zenon, <1>17 DEF ForkPublish, TypeOK, States, Locked, cpus, Goto, Labels
<1>18. ASSUME NEW c \in CPU, NEW p \in Slots, ExitCall(c, p) PROVE TypeOK'
  BY <1>18 DEF ExitCall, TypeOK, fields, cpus, Goto, Labels
<1>19. ASSUME NEW c \in CPU, NEW p \in Slots, Exit(c, p) PROVE TypeOK'
  <2>1. initproc \in Slots
    BY ProcConstants DEF initproc, Slots
  <2>2. \A ch, st : st \in [Slots -> States] => wakeup1(st, ch) \in [Slots -> States]
    BY DEF wakeup1, States
  <2>3. state' \in [Slots -> States]
    BY <1>19, <2>2 DEF Exit, TypeOK, States
  <2>4. parent' \in [Slots -> Slots \cup {NULL}]
    BY <1>19, <2>1 DEF Exit, Reparented, TypeOK
  <2> QED
    BY Zenon, <1>19, <2>3, <2>4 DEF Exit, TypeOK, Acquire, Sched
<1>20. ASSUME NEW c \in CPU, NEW p \in Slots, WaitCall(c, p) PROVE TypeOK'
  BY <1>20 DEF WaitCall, TypeOK, fields, Acquire, Goto, Labels
<1>21. ASSUME NEW c \in CPU, NEW p \in Slots, NEW q \in Slots, WaitReap(c, p, q) PROVE TypeOK'
  <2>1. state' \in [Slots -> States] /\ kstack' \in [Slots -> BOOLEAN]
    BY <1>21 DEF WaitReap, TypeOK, States
  <2>2. pid' \in [Slots -> 0..MaxPid] /\ tickets' \in [Slots -> Nat]
    BY <1>21, ProcConstants DEF WaitReap, TypeOK
  <2>3. parent' \in [Slots -> Slots \cup {NULL}] /\ killed' \in [Slots -> BOOLEAN]
    BY <1>21 DEF WaitReap, TypeOK
  <2> QED
    BY <1>21, <2>1, <2>2, <2>3 DEF WaitReap, TypeOK, Release, Goto, Labels
<1>22. ASSUME NEW c \in CPU, NEW p \in Slots, WaitFail(c, p) PROVE TypeOK'
  BY <1>22 DEF WaitFail, TypeOK, fields, Release, Goto, Labels
<1>23. ASSUME NEW c \in CPU, NEW p \in Slots, WaitSleep(c, p) PROVE TypeOK'
  BY <1>23 DEF WaitSleep, TypeOK, States, Sched
<1>24. ASSUME NEW c \in CPU, NEW p \in Slots, NEW ch \in Chan, SleepOn(c, p, ch) PROVE TypeOK'
  BY <1>24 DEF SleepOn, TypeOK, States, Acquire, Sched
<1>25. ASSUME NEW c \in CPU, NEW p \in Slots, NEW k \in KillPids, Kill(c, p, k) PROVE TypeOK'
  <2>1. PICK q \in Slots :
          /\ killed' = [killed EXCEPT ![q] = TRUE]
          /\ state' = [state EXCEPT ![q] = IF @ = "SLEEPING" THEN "RUNNABLE" ELSE @]
    BY Zenon, <1>25 DEF Kill, Woken
  <2>2. state' \in [Slots -> States] /\ killed' \in [Slots -> BOOLEAN]
    BY <2>1 DEF TypeOK, States
  <2> QED
    BY <1>25, <2>2 DEF Kill, TypeOK, Locked, cpus, Goto, Labels
<1>26. ASSUME NEW c \in CPU, NEW p \in Slots, NEW k \in KillPids, NEW t \in AssignValues, AssignTickets(c, p, k, t) PROVE TypeOK'
  <2>1. PICK q \in Slots : tickets' = [tickets EXCEPT ![q] = t]
    BY Zenon, <1>26 DEF AssignTickets
  <2>2. tickets' \in [Slots -> Nat]
    BY <2>1, ProcConstants DEF TypeOK
  <2> QED
    BY <1>26, <2>2 DEF AssignTickets, TypeOK, Locked, cpus, Goto, Labels
<1>27. ASSUME NEW ch \in Chan, Wakeup(ch) PROVE TypeOK'
  BY <1>27 DEF Wakeup, TypeOK, States, Locked, cpus, threads, wakeup1
<1>28. CASE UNCHANGED vars
  BY <1>28 DEF vars, fields, threads, cpus, TypeOK
<1> QED
  BY <1>1, <1>2, <1>3, <1>4, <1>5, <1>6, <1>7, <1>8, <1>9, <1>10, <1>11, <1>12, <1>13, <1>14, <1>15, <1>16, <1>17, <1>18, <1>19, <1>20, <1>21, <1>22, <1>23, <1>24, <1>25, <1>26, <1>27, <1>28
  DEF Next, SchedulerStep, TrapStep, ForkStep, ExitWaitStep, SignalStep

(***************************************************************************)
(* The inductive invariant behind mutual exclusion on kernel stacks.       *)
(***************************************************************************)
OnCpu == {"picked", "resumed", "run", "panic"}
ForkLabels == {"kalloc", "copy", "publish"}
Awake == {"RUNNABLE", "RUNNING"}
Exists == {"SLEEPING", "RUNNABLE", "RUNNING", "ZOMBIE"}

(* What each phase of a CPU says about its stack and about c->proc. *)
PhaseInv ==
  \A c \in CPU :
    /\ cpc[c] \in {"loop", "picked", "back"} => stk[c] = NULL
    /\ cpc[c] \in {"resumed", "run", "panic", "switching"} => stk[c] = cproc[c]
    /\ cpc[c] \in OnCpu => cproc[c] \in Slots /\ state[cproc[c]] = "RUNNING"
    /\ cpc[c] = "switching" =>
          cproc[c] \in Slots /\ state[cproc[c]] \in {"SLEEPING", "RUNNABLE", "ZOMBIE"}

LockInv == \A c \in CPU : lock = c <=> InLockedCode(c)

DistinctInv ==
  \A c, d \in CPU : c # d /\ Engaged(c) /\ Engaged(d) => cproc[c] # cproc[d]

RunningInv ==
  \A p \in Slots : state[p] = "RUNNING" => \E c \in CPU : cproc[c] = p /\ cpc[c] \in OnCpu

(* A thread that is not executing resumes with the lock kept exactly if it *)
(* is inside wait().                                                       *)
ResumeInv ==
  \A p \in Slots :
    (\/ state[p] \in {"SLEEPING", "RUNNABLE"}
     \/ \E c \in CPU : cproc[c] = p /\ cpc[c] \in {"picked", "resumed"})
    => (pc[p] = "scan" <=> resume[p] = "wait")

(* A thread between the critical sections of fork() owns an EMBRYO slot. *)
ForkInv ==
  /\ \A p \in Slots : pc[p] \in ForkLabels =>
       /\ state[p] \in Awake
       /\ np[p] \in Slots /\ state[np[p]] = "EMBRYO"
       /\ pc[p] # "kalloc" => kstack[np[p]] /\ resume[np[p]] = "forkret"
       /\ pc[p] = "publish" => pc[np[p]] = "user"
  /\ \A p, q \in Slots :
       p # q /\ pc[p] \in ForkLabels /\ pc[q] \in ForkLabels => np[p] # np[q]

KstackInv == \A p \in Slots : state[p] \in Exists => kstack[p]

StackInv ==
  /\ TypeOK
  /\ PhaseInv /\ LockInv /\ DistinctInv /\ RunningInv /\ ResumeInv
  /\ ForkInv /\ KstackInv

-----------------------------------------------------------------------------
(***************************************************************************)
(* Steps that keep StackInv, grouped by what they do to the state.         *)
(***************************************************************************)

(* Some sleepers may be woken; nothing else happens to the states. *)
OnlyWakes ==
  \A q \in Slots : \/ state'[q] = state[q]
                   \/ state[q] = "SLEEPING" /\ state'[q] = "RUNNABLE"

(* A thread moves between labels outside fork() and wait()'s loop. *)
PlainMove(c, p) ==
  /\ Runs(c, p) /\ pc[p] \in {"user", "sys", "ret"}
  /\ \E l \in {"user", "sys", "ret", "exit"} : pc' = [pc EXCEPT ![p] = l]

LEMMA QuietStep ==
  ASSUME StackInv, TypeOK', OnlyWakes,
         pc' = pc \/ \E c \in CPU, p \in Slots : PlainMove(c, p),
         UNCHANGED <<kstack, np, resume, cpus>>
  PROVE  StackInv'
<1> USE DEF StackInv, OnlyWakes
<1>1. UNCHANGED <<lock, cproc, stk, cpc>>
  BY DEF cpus
<1>2. \A q \in Slots : /\ pc'[q] = "scan" <=> pc[q] = "scan"
                       /\ pc'[q] \in ForkLabels <=> pc[q] \in ForkLabels
                       /\ pc[q] \in ForkLabels => pc'[q] = pc[q]
  BY DEF PlainMove, TypeOK, ForkLabels
<1>3. PhaseInv'
  BY <1>1 DEF PhaseInv, OnCpu
<1>4. LockInv'
  BY <1>1, <1>2 DEF LockInv, InLockedCode, PhaseInv, OnCpu
<1>5. DistinctInv' /\ RunningInv'
  BY <1>1 DEF DistinctInv, RunningInv, Engaged
<1>6. ResumeInv'
  BY <1>1, <1>2 DEF ResumeInv
<1>7. ForkInv'
  <2>1. \A p \in Slots : pc[p] \in ForkLabels /\ pc[p] = "publish" => pc'[np[p]] = pc[np[p]]
    BY DEF PlainMove, Runs, ForkInv, PhaseInv, OnCpu, TypeOK, ForkLabels
  <2> QED
    BY <1>2, <2>1 DEF ForkInv, Awake
<1>8. KstackInv'
  BY DEF KstackInv, Exists
<1> QED
  BY <1>3, <1>4, <1>5, <1>6, <1>7, <1>8

(* A running thread gives up the CPU: yield, sleep, exit. *)
BlockStep(c, p, how) ==
  /\ Runs(c, p) /\ lock' = c
  /\ lock = NoCpu \/ (lock = c /\ pc[p] = "scan")
  /\ pc[p] = "scan" <=> how = "wait"
  /\ state'[p] \in {"SLEEPING", "RUNNABLE", "ZOMBIE"}
  /\ pc[p] \in ForkLabels => state'[p] = "RUNNABLE"
  /\ \A q \in Slots \ {p} : \/ state'[q] = state[q]
                            \/ state[q] = "SLEEPING" /\ state'[q] = "RUNNABLE"
  /\ Sched(c, p, how)
  /\ UNCHANGED <<kstack, pc, np>>

LEMMA BlockStepKeepsInv ==
  ASSUME StackInv, TypeOK', NEW c \in CPU, NEW p \in Slots, NEW how, BlockStep(c, p, how)
  PROVE  StackInv'
<1> USE DEF StackInv, BlockStep, Runs, Sched
<1>1. cproc[c] = p /\ state[p] = "RUNNING"
  BY DEF PhaseInv, OnCpu
<1>2. \A d \in CPU \ {c} : Engaged(d) => cproc[d] # p
  BY <1>1 DEF DistinctInv, Engaged
<1>3. \A d \in CPU \ {c} : cpc'[d] = cpc[d]
  BY DEF TypeOK
<1>4. cpc'[c] = "switching" /\ stk'[c] = p /\ cproc'[c] = p
  BY <1>1 DEF TypeOK
<1>5. PhaseInv'
  BY <1>2, <1>3, <1>4 DEF PhaseInv, OnCpu, Engaged
<1>6. LockInv'
  BY <1>3, <1>4, ProcConstants DEF LockInv, InLockedCode
<1>7. DistinctInv'
  BY <1>2, <1>3, <1>4 DEF DistinctInv, Engaged
<1>8. RunningInv'
  BY <1>1, <1>3, <1>4 DEF RunningInv, OnCpu
<1>9. ResumeInv'
  <2>1. resume'[p] = how /\ \A q \in Slots \ {p} : resume'[q] = resume[q]
    BY DEF TypeOK
  <2> QED
    BY <2>1, <1>2, <1>3, <1>4 DEF ResumeInv, Engaged
<1>10. ForkInv'
  <2>1. \A q \in Slots : pc[q] \in ForkLabels => np[q] # p
    BY <1>1 DEF ForkInv
  <2>2. \A q \in Slots \ {p} : resume'[q] = resume[q]
    BY DEF TypeOK
  <2> QED
    BY <1>1, <2>1, <2>2 DEF ForkInv, Awake
<1>11. KstackInv'
  BY <1>1 DEF KstackInv, Exists
<1> QED
  BY <1>5, <1>6, <1>7, <1>8, <1>9, <1>10, <1>11

LEMMA SchedPickKeepsInv ==
  ASSUME StackInv, TypeOK', NEW c \in CPU, NEW p \in Slots, SchedPick(c, p)
  PROVE  StackInv'
<1> USE DEF StackInv, SchedPick, Acquire, threads
<1>1. \A d \in CPU \ {c} : cpc'[d] = cpc[d] /\ cproc'[d] = cproc[d]
  BY DEF TypeOK
<1>2. cpc'[c] = "picked" /\ cproc'[c] = p /\ stk'[c] = NULL
  BY DEF TypeOK, PhaseInv
<1>3. \A q \in Slots : state'[q] = IF q = p THEN "RUNNING" ELSE state[q]
  BY DEF TypeOK
<1>4. \A d \in CPU : Engaged(d) => cproc[d] # p
  <2> SUFFICES ASSUME NEW d \in CPU, Engaged(d), cproc[d] = p PROVE FALSE
    OBVIOUS
  <2>1. cpc[d] = "switching"
    BY DEF PhaseInv, Engaged, OnCpu
  <2> QED
    BY <2>1, ProcConstants DEF LockInv, InLockedCode
<1>5. PhaseInv'
  BY <1>1, <1>2, <1>3, <1>4 DEF PhaseInv, OnCpu, Engaged
<1>6. LockInv'
  BY <1>1, <1>2, ProcConstants DEF LockInv, InLockedCode
<1>7. DistinctInv'
  BY <1>1, <1>2, <1>4 DEF DistinctInv, Engaged
<1>8. RunningInv'
  BY <1>1, <1>2, <1>3 DEF RunningInv, OnCpu
<1>9. ResumeInv'
  BY <1>1, <1>2, <1>3 DEF ResumeInv
<1>10. ForkInv'
  BY <1>3 DEF ForkInv, Awake
<1>11. KstackInv'
  BY <1>3 DEF KstackInv, Exists
<1> QED
  BY <1>5, <1>6, <1>7, <1>8, <1>9, <1>10, <1>11

(* swtch in either direction: only the CPU's stack and phase change. *)
LEMMA SwtchKeepsInv ==
  ASSUME StackInv, TypeOK', NEW c \in CPU, SwtchTo(c) \/ SwtchBack(c)
  PROVE  StackInv'
<1> USE DEF StackInv, SwtchTo, SwtchBack, fields, threads
<1>1. \A d \in CPU \ {c} : cpc'[d] = cpc[d] /\ stk'[d] = stk[d]
  BY DEF TypeOK
<1>2. \/ cpc[c] = "picked" /\ cpc'[c] = "resumed" /\ stk'[c] = cproc[c]
      \/ cpc[c] = "switching" /\ cpc'[c] = "back" /\ stk'[c] = NULL
  BY DEF TypeOK
<1>3. PhaseInv'
  BY <1>1, <1>2 DEF PhaseInv, OnCpu
<1>4. LockInv'
  BY <1>1, <1>2 DEF LockInv, InLockedCode
<1>5. DistinctInv'
  BY <1>1, <1>2 DEF DistinctInv, Engaged
<1>6. RunningInv' /\ ResumeInv'
  BY SMTT(20), ZenonT(20), <1>1, <1>2 DEF RunningInv, ResumeInv, OnCpu, PhaseInv
<1>7. ForkInv' /\ KstackInv'
  BY DEF ForkInv, KstackInv
<1> QED
  BY <1>3, <1>4, <1>5, <1>6, <1>7

LEMMA SchedBackKeepsInv ==
  ASSUME StackInv, TypeOK', NEW c \in CPU, SchedBack(c)
  PROVE  StackInv'
<1> USE DEF StackInv, SchedBack, Release, fields, threads
<1>1. \A d \in CPU \ {c} : cpc'[d] = cpc[d] /\ cproc'[d] = cproc[d]
  BY DEF TypeOK
<1>2. cpc[c] = "back" /\ cpc'[c] = "loop" /\ cproc'[c] = NULL /\ stk'[c] = NULL
  BY DEF TypeOK, PhaseInv
<1>3. PhaseInv'
  BY <1>1, <1>2 DEF PhaseInv, OnCpu
<1>4. LockInv'
  BY <1>1, <1>2, ProcConstants DEF LockInv, InLockedCode
<1>5. DistinctInv'
  BY <1>1, <1>2 DEF DistinctInv, Engaged
<1>6. RunningInv' /\ ResumeInv'
  BY <1>1, <1>2 DEF RunningInv, ResumeInv, OnCpu
<1>7. ForkInv' /\ KstackInv'
  BY SMTT(20), ZenonT(20) DEF ForkInv, KstackInv
<1> QED
  BY <1>3, <1>4, <1>5, <1>6, <1>7

LEMMA ReturnFromSwtchKeepsInv ==
  ASSUME StackInv, TypeOK', NEW c \in CPU, NEW p \in Slots, ReturnFromSwtch(c, p)
  PROVE  StackInv'
<1> USE DEF StackInv, ReturnFromSwtch, KeepsLock, Release, threads
<1>1. \A d \in CPU \ {c} : cpc'[d] = cpc[d]
  BY DEF TypeOK
<1>2. cpc[c] = "resumed" /\ cpc'[c] = "run" /\ cproc[c] = p /\ stk[c] = p
  BY DEF TypeOK, PhaseInv
<1>3. lock = c /\ lock' = IF pc[p] = "scan" THEN c ELSE NoCpu
  BY <1>2 DEF LockInv, InLockedCode, ResumeInv
<1>4. PhaseInv'
  BY <1>1, <1>2 DEF PhaseInv, OnCpu
<1>5. LockInv'
  BY <1>1, <1>2, <1>3, ProcConstants DEF LockInv, InLockedCode
<1>6. DistinctInv'
  BY <1>1, <1>2 DEF DistinctInv, Engaged
<1>7. RunningInv' /\ ResumeInv'
  BY <1>1, <1>2 DEF RunningInv, ResumeInv, OnCpu
<1>8. ForkInv' /\ KstackInv'
  BY DEF ForkInv, KstackInv
<1> QED
  BY <1>4, <1>5, <1>6, <1>7, <1>8

LEMMA InitExitingKeepsInv ==
  ASSUME StackInv, TypeOK', NEW c \in CPU, InitExiting(c)
  PROVE  StackInv'
<1> USE DEF StackInv, InitExiting, Runs, fields, threads
<1>1. \A d \in CPU \ {c} : cpc'[d] = cpc[d]
  BY DEF TypeOK
<1>2. cpc[c] = "run" /\ cpc'[c] = "panic" /\ pc[stk[c]] # "scan"
  BY SMTT(20), ZenonT(20) DEF TypeOK
<1>3. PhaseInv'
  BY <1>1, <1>2 DEF PhaseInv, OnCpu
<1>4. LockInv'
  BY <1>1, <1>2 DEF LockInv, InLockedCode
<1>5. DistinctInv'
  BY <1>1, <1>2 DEF DistinctInv, Engaged
<1>6. RunningInv' /\ ResumeInv'
  BY <1>1, <1>2 DEF RunningInv, ResumeInv, OnCpu
<1>7. ForkInv' /\ KstackInv'
  BY DEF ForkInv, KstackInv
<1> QED
  BY <1>3, <1>4, <1>5, <1>6, <1>7

(* wait() takes the lock or, without sleeping, gives it back. *)
LEMMA WaitEdgeKeepsInv ==
  ASSUME StackInv, TypeOK', NEW c \in CPU, NEW p \in Slots, WaitCall(c, p) \/ WaitFail(c, p)
  PROVE  StackInv'
<1> USE DEF StackInv, WaitCall, WaitFail, Runs, Acquire, Release, Goto, fields
<1>1. cproc[c] = p /\ state[p] = "RUNNING" /\ stk[c] = p
  BY DEF PhaseInv, OnCpu
<1>2. \A q \in Slots \ {p} : pc'[q] = pc[q]
  BY DEF TypeOK
<1>3. \/ lock = NoCpu /\ lock' = c /\ pc[p] = "sys" /\ pc'[p] = "scan"
      \/ lock = c /\ lock' = NoCpu /\ pc[p] = "scan" /\ pc'[p] = "ret"
  BY SMTT(20), ZenonT(20) DEF TypeOK, LockInv, InLockedCode
<1>4. \A d \in CPU \ {c} : Engaged(d) => cproc[d] # p
  BY ZenonT(40), <1>1 DEF DistinctInv, Engaged
<1>5. PhaseInv' /\ DistinctInv' /\ RunningInv' /\ KstackInv'
  <2>1. UNCHANGED <<state, kstack, cproc, stk, cpc>>
    BY ZenonT(40)
  <2>2. PhaseInv'
    BY ZenonT(40), <2>1 DEF PhaseInv
  <2>3. DistinctInv'
    BY ZenonT(40), <2>1 DEF DistinctInv, Engaged
  <2> QED
    BY ZenonT(40), <2>1, <2>2, <2>3 DEF RunningInv, KstackInv
<1>6. LockInv'
  <2>1. \A d \in CPU \ {c} : cpc[d] = "run" => stk[d] \in Slots \ {p}
    BY Zenon, <1>4 DEF PhaseInv, OnCpu, Engaged
  <2>2. UNCHANGED <<stk, cpc>> /\ cpc[c] = "run" /\ LockInv
    BY Zenon
  <2> HIDE DEF StackInv, WaitCall, WaitFail
  <2>3. \A d \in CPU \ {c} : InLockedCode(d)' <=> InLockedCode(d)
    BY <1>2, <2>1, <2>2 DEF InLockedCode
  <2>4. lock' = c <=> InLockedCode(c)'
    BY <1>1, <1>3, <2>2, ProcConstants DEF InLockedCode
  <2>5. \A d \in CPU \ {c} : lock # d /\ lock' # d
    BY <1>3, ProcConstants
  <2> QED
    BY <2>2, <2>3, <2>4, <2>5 DEF LockInv
<1>7. ResumeInv'
  BY <1>1, <1>2, <1>4 DEF ResumeInv, Engaged
<1>8. ForkInv'
  <2>1. \A q \in Slots : pc[q] \in ForkLabels => np[q] # p
    BY <1>1 DEF ForkInv
  <2>2. \A q \in Slots : pc'[q] \in ForkLabels => q # p
    BY <1>3 DEF ForkLabels
  <2> QED
    BY <1>2, <2>1, <2>2 DEF ForkInv
<1> QED
  BY <1>5, <1>6, <1>7, <1>8

(* A zombie is reaped only after it has left its stack: its last switch *)
(* still holds the lock that wait() needs.                              *)
LEMMA WaitReapKeepsInv ==
  ASSUME StackInv, TypeOK', NEW c \in CPU, NEW p \in Slots, NEW q \in Slots, WaitReap(c, p, q)
  PROVE  StackInv'
<1> USE DEF StackInv, WaitReap, Runs, Release, Goto, ZombieChild
<1>1. cproc[c] = p /\ state[p] = "RUNNING" /\ stk[c] = p /\ p # q
  BY DEF PhaseInv, OnCpu
<1>2. \A r \in Slots \ {p} : pc'[r] = pc[r]
  BY DEF TypeOK
<1>3. lock = c /\ lock' = NoCpu /\ pc[p] = "scan" /\ pc'[p] = "ret"
  BY DEF TypeOK, LockInv, InLockedCode
<1>4. \A d \in CPU \ {c} : Engaged(d) => cproc[d] # p
  BY <1>1 DEF DistinctInv, Engaged
<1>5. \A r \in Slots \ {q} : state'[r] = state[r] /\ kstack'[r] = kstack[r]
  BY DEF TypeOK
<1>6. state'[q] = "UNUSED"
  BY DEF TypeOK
<1>7. \A d \in CPU : Engaged(d) => cproc[d] # q
  <2> SUFFICES ASSUME NEW d \in CPU, Engaged(d), cproc[d] = q PROVE FALSE
    OBVIOUS
  <2>1. cpc[d] = "switching"
    BY DEF PhaseInv, Engaged, OnCpu
  <2> QED
    BY <1>3, <2>1 DEF LockInv, InLockedCode
<1>8. PhaseInv'
  BY <1>5, <1>7 DEF PhaseInv, Engaged, OnCpu
<1>9. DistinctInv' /\ RunningInv'
  BY <1>5, <1>6 DEF DistinctInv, RunningInv, Engaged
<1>10. KstackInv'
  BY <1>5, <1>6 DEF KstackInv, Exists
<1>11. LockInv'
  <2>1. \A d \in CPU \ {c} : cpc[d] = "run" => stk[d] \in Slots \ {p}
    BY <1>4 DEF PhaseInv, OnCpu, Engaged
  <2> QED
    BY <1>1, <1>2, <1>3, <2>1, ProcConstants DEF LockInv, InLockedCode
<1>12. ResumeInv'
  BY <1>1, <1>2, <1>4, <1>5, <1>6 DEF ResumeInv, Engaged
<1>13. ForkInv'
  <2>1. \A r \in Slots : pc[r] \in ForkLabels => np[r] # p /\ np[r] # q
    BY <1>1 DEF ForkInv
  <2>2. \A r \in Slots : pc'[r] \in ForkLabels => r # p /\ pc[r] \in ForkLabels /\ r # q
    BY SMTT(20), ZenonT(20), <1>2, <1>3 DEF ForkLabels, ForkInv, Awake
  <2> QED
    BY <1>2, <1>5, <2>1, <2>2 DEF ForkInv
<1> QED
  BY <1>8, <1>9, <1>10, <1>11, <1>12, <1>13

LEMMA ForkAllocKeepsInv ==
  ASSUME StackInv, TypeOK', NEW c \in CPU, NEW p \in Slots, ForkAlloc(c, p)
  PROVE  StackInv'
<1> USE DEF StackInv, ForkAlloc, Runs, Goto, Locked, cpus
<1>1. PICK q \in Slots : /\ FirstUnused(q)
                         /\ state' = [state EXCEPT ![q] = "EMBRYO"]
                         /\ np' = [np EXCEPT ![p] = q]
  BY Zenon
<1>2. cproc[c] = p /\ state[p] = "RUNNING" /\ stk[c] = p /\ state[q] = "UNUSED" /\ p # q
  BY ZenonT(40), <1>1 DEF PhaseInv, OnCpu, FirstUnused
<1>3. \A r \in Slots \ {p} : pc'[r] = pc[r] /\ np'[r] = np[r]
  BY SMTT(20), ZenonT(20), <1>1 DEF TypeOK
<1>4. pc'[p] = "kalloc" /\ np'[p] = q
  BY SMTT(20), ZenonT(20), <1>1 DEF TypeOK
<1>5. \A r \in Slots \ {q} : state'[r] = state[r]
  BY SMTT(20), ZenonT(20), <1>1 DEF TypeOK
<1>6. state'[q] = "EMBRYO"
  BY <1>1 DEF TypeOK
<1>7. PhaseInv'
  BY <1>2, <1>5 DEF PhaseInv, OnCpu
<1>8. DistinctInv' /\ RunningInv'
  BY <1>5, <1>6 DEF DistinctInv, RunningInv, Engaged
<1>9. KstackInv'
  BY <1>5, <1>6 DEF KstackInv, Exists
<1>10. \A r \in Slots : pc'[r] = "scan" <=> pc[r] = "scan"
  BY <1>3, <1>4
<1>11. LockInv'
  BY <1>10 DEF LockInv, InLockedCode, PhaseInv, OnCpu
<1>12. ResumeInv'
  BY SMTT(20), ZenonT(20), <1>5, <1>6, <1>10 DEF ResumeInv
<1>13. ForkInv'
  <2>1. \A r \in Slots : pc[r] \in ForkLabels => np[r] # p /\ np[r] # q /\ r # q /\ r # p
    BY <1>2 DEF ForkInv, Awake, ForkLabels
  <2> QED
    BY <1>2, <1>3, <1>4, <1>5, <1>6, <2>1 DEF ForkInv, Awake, ForkLabels
<1> QED
  BY SMTT(20), ZenonT(20), <1>7, <1>8, <1>9, <1>11, <1>12, <1>13

(* The later steps of fork() touch the forking thread and its EMBRYO only. *)
LEMMA ForkTailKeepsInv ==
  ASSUME StackInv, TypeOK', NEW c \in CPU, NEW p \in Slots,
         ForkKstack(c, p) \/ ForkCopy(c, p) \/ ForkPublish(c, p)
  PROVE  StackInv'
<1> USE DEF StackInv, Runs, Goto, Locked, cpus
<1> DEFINE e == np[p]
<1>0. cpc[c] = "run" /\ stk[c] = p
  BY DEF ForkKstack, ForkCopy, ForkPublish
<1>1. cproc[c] = p /\ state[p] = "RUNNING" /\ stk[c] = p
  BY SMTT(20), ZenonT(20), <1>0 DEF PhaseInv, OnCpu
<1>2. pc[p] \in ForkLabels /\ e \in Slots /\ state[e] = "EMBRYO" /\ e # p
  BY ZenonT(40), <1>1 DEF ForkInv, ForkLabels, ForkKstack, ForkCopy, ForkPublish
<1>3. UNCHANGED <<lock, cproc, stk, cpc>>
  BY SMTT(20), ZenonT(20) DEF ForkKstack, ForkCopy, ForkPublish
<1>4. \A r \in Slots \ {e} : state'[r] = state[r] /\ kstack'[r] = kstack[r] /\ resume'[r] = resume[r]
  BY SMTT(20), ZenonT(20), <1>2 DEF TypeOK, ForkKstack, ForkCopy, ForkPublish
<1>5. \A r \in Slots \ {e, p} : pc'[r] = pc[r] /\ np'[r] = np[r]
  BY SMTT(20), ZenonT(20), <1>2 DEF TypeOK, ForkKstack, ForkCopy, ForkPublish
<1>6. \A r \in Slots \ {p} : np'[r] = np[r]
  BY SMTT(20), ZenonT(20), <1>2 DEF TypeOK, ForkKstack, ForkCopy, ForkPublish
<1>7. \/ /\ pc[p] = "kalloc" /\ pc'[p] = "copy" /\ np' = np /\ state' = state
         /\ kstack'[e] = TRUE /\ resume'[e] = "forkret" /\ pc'[e] = pc[e]
      \/ /\ pc[p] = "copy" /\ pc'[p] = "publish" /\ np' = np /\ state' = state
         /\ kstack' = kstack /\ resume' = resume /\ pc'[e] = "user"
      \/ /\ pc[p] = "publish" /\ pc'[p] = "ret" /\ state'[e] = "RUNNABLE"
         /\ kstack' = kstack /\ resume' = resume /\ pc'[e] = pc[e]
      \/ /\ pc'[p] = "ret" /\ state'[e] = "UNUSED" /\ pc'[e] = pc[e]
  BY <1>2 DEF TypeOK, ForkKstack, ForkCopy, ForkPublish
<1>8. PhaseInv'
  BY <1>2, <1>3, <1>4 DEF PhaseInv, OnCpu
<1>9. DistinctInv'
  BY SMTT(20), ZenonT(20), <1>3 DEF DistinctInv, Engaged
<1>10. RunningInv'
  <2>1. state'[e] # "RUNNING"
    BY SMTT(20), ZenonT(20), <1>2, <1>7
  <2>2. \A r \in Slots : state'[r] = "RUNNING" => state[r] = "RUNNING"
    BY SMTT(20), ZenonT(20), <2>1, <1>4
  <2> QED
    BY <2>2, <1>3 DEF RunningInv
<1>11. KstackInv'
  BY ZenonT(40), <1>2, <1>4, <1>7 DEF KstackInv, Exists, ForkInv
<1>12. \A r \in Slots \ {e} : pc'[r] = "scan" <=> pc[r] = "scan"
  BY SMTT(20), ZenonT(20), <1>2, <1>5, <1>7 DEF ForkLabels
<1>13. \A d \in CPU : Engaged(d) => cproc[d] # e
  BY SMTT(20), ZenonT(20), <1>2 DEF PhaseInv, Engaged, OnCpu
<1>14. LockInv'
  <2>1. \A d \in CPU : cpc[d] = "run" => stk[d] \in Slots \ {e}
    BY <1>13 DEF PhaseInv, OnCpu, Engaged
  <2> QED
    BY ZenonT(40), <1>3, <1>12, <2>1 DEF LockInv, InLockedCode
<1>15. ResumeInv'
  <2>1. state'[e] \in {"SLEEPING", "RUNNABLE"} => pc'[e] = "user" /\ resume'[e] = "forkret"
    BY <1>2, <1>7 DEF ForkInv
  <2>2. \A d \in CPU : cpc[d] \in {"picked", "resumed"} => cproc[d] # e
    BY <1>13 DEF Engaged
  <2> SUFFICES ASSUME NEW r \in Slots,
                      \/ state'[r] \in {"SLEEPING", "RUNNABLE"}
                      \/ \E d \in CPU : cproc[d] = r /\ cpc[d] \in {"picked", "resumed"}
               PROVE  pc'[r] = "scan" <=> resume'[r] = "wait"
    BY SMTT(20), ZenonT(20), <1>3 DEF ResumeInv
  <2>3. CASE r = e
    BY <2>1, <2>2, <2>3
  <2>4. CASE r # e
    <3>1. state'[r] = state[r] /\ resume'[r] = resume[r] /\ (pc'[r] = "scan" <=> pc[r] = "scan")
      BY SMTT(20), ZenonT(20), <1>4, <1>12, <2>4
    <3> QED
      BY SMTT(20), ZenonT(20), <3>1 DEF ResumeInv
  <2> QED
    BY <2>3, <2>4
<1>16. ForkInv'
  <2>1. \A r \in Slots \ {p} : pc[r] \in ForkLabels => np[r] # p /\ np[r] # e /\ r # e
    BY SMTT(20), ZenonT(20), <1>1, <1>2 DEF ForkInv, Awake
  <2>2. ASSUME NEW r \in Slots \ {p}, pc'[r] \in ForkLabels
        PROVE  /\ r # e /\ pc'[r] = pc[r] /\ np'[r] = np[r] /\ np[r] \in Slots \ {e, p}
               /\ state'[r] = state[r] /\ state'[np[r]] = state[np[r]]
               /\ kstack'[np[r]] = kstack[np[r]] /\ resume'[np[r]] = resume[np[r]]
               /\ pc'[np[r]] = pc[np[r]]
    <3>1. pc[e] \notin ForkLabels
      BY ZenonT(40), <1>2 DEF ForkInv, Awake
    <3>2. r # e
      BY <1>7, <2>2, <3>1 DEF ForkLabels
    <3>3. pc'[r] = pc[r] /\ np'[r] = np[r]
      BY <1>5, <3>2
    <3>4. np[r] \in Slots \ {e, p}
      BY SMTT(20), ZenonT(20), <2>1, <2>2, <3>3 DEF ForkInv
    <3> QED
      BY ZenonT(40), <1>4, <1>5, <3>2, <3>3, <3>4
  <2>3. pc'[p] \in ForkLabels =>
          /\ np'[p] = e /\ state'[p] = state[p] /\ state'[e] = "EMBRYO"
          /\ pc'[p] # "kalloc" /\ kstack'[e] /\ resume'[e] = "forkret"
          /\ pc'[p] = "publish" => pc'[e] = "user"
    BY ZenonT(40), <1>2, <1>7 DEF ForkInv, ForkLabels
  <2>4. \A r \in Slots : pc'[r] \in ForkLabels =>
          /\ state'[r] \in Awake
          /\ np'[r] \in Slots /\ state'[np'[r]] = "EMBRYO"
          /\ pc'[r] # "kalloc" => kstack'[np'[r]] /\ resume'[np'[r]] = "forkret"
          /\ pc'[r] = "publish" => pc'[np'[r]] = "user"
    <3> SUFFICES ASSUME NEW r \in Slots, pc'[r] \in ForkLabels
                 PROVE  /\ state'[r] \in Awake
                        /\ np'[r] \in Slots /\ state'[np'[r]] = "EMBRYO"
                        /\ pc'[r] # "kalloc" => kstack'[np'[r]] /\ resume'[np'[r]] = "forkret"
                        /\ pc'[r] = "publish" => pc'[np'[r]] = "user"
      OBVIOUS
    <3>1. CASE r = p
      BY SMTT(20), ZenonT(20), <1>1, <1>2, <2>3, <3>1 DEF Awake
    <3>2. CASE r # p
      <4>1. pc[r] \in ForkLabels
        BY ZenonT(40), <2>2, <3>2
      <4>2. /\ state[r] \in Awake /\ np[r] \in Slots /\ state[np[r]] = "EMBRYO"
            /\ pc[r] # "kalloc" => kstack[np[r]] /\ resume[np[r]] = "forkret"
            /\ pc[r] = "publish" => pc[np[r]] = "user"
        BY ZenonT(40), <4>1 DEF ForkInv
      <4> QED
        BY SMTT(20), ZenonT(20), <2>2, <3>2, <4>2
    <3> QED
      BY ZenonT(40), <3>1, <3>2
  <2>5. \A r, q \in Slots :
          r # q /\ pc'[r] \in ForkLabels /\ pc'[q] \in ForkLabels => np'[r] # np'[q]
    <3> SUFFICES ASSUME NEW r \in Slots, NEW q \in Slots, r # q,
                        pc'[r] \in ForkLabels, pc'[q] \in ForkLabels
                 PROVE  np'[r] # np'[q]
      OBVIOUS
    <3>1. CASE r # p /\ q # p
      <4>1. pc'[r] = pc[r] /\ np'[r] = np[r] /\ pc'[q] = pc[q] /\ np'[q] = np[q]
        BY ZenonT(40), <2>2, <3>1
      <4>2. pc[r] \in ForkLabels /\ pc[q] \in ForkLabels => np[r] # np[q]
        BY SMTT(20), ZenonT(20) DEF ForkInv
      <4> QED
        BY SMTT(20), ZenonT(20), <4>1, <4>2
    <3>2. CASE r = p
      <4>1. np'[r] = e
        BY ZenonT(40), <2>3, <3>2
      <4>2. np'[q] \in Slots \ {e, p}
        BY SMTT(20), ZenonT(20), <2>2, <3>2
      <4> QED
        BY SMTT(20), ZenonT(20), <4>1, <4>2
    <3>3. CASE q = p
      <4>1. np'[q] = e
        BY SMTT(20), ZenonT(20), <2>3, <3>3
      <4>2. np'[r] \in Slots \ {e, p}
        BY <2>2, <3>3
      <4> QED
        BY SMTT(20), ZenonT(20), <4>1, <4>2
    <3> QED
      BY ZenonT(40), <3>1, <3>2, <3>3
  <2> QED
    BY ZenonT(40), <2>4, <2>5 DEF ForkInv
<1> QED
  BY <1>8, <1>9, <1>10, <1>11, <1>14, <1>15, <1>16

-----------------------------------------------------------------------------

(***************************************************************************)
(* StackInv is inductive: one case per action.                             *)
(***************************************************************************)
LEMMA StackInit == Init => StackInv
<1> SUFFICES ASSUME Init PROVE StackInv
  OBVIOUS
<1> USE ProcConstants DEF Init, Slots, NULL, initproc
<1>1. TypeOK
  BY DEF TypeOK, States, Labels
<1>2. PhaseInv /\ DistinctInv /\ RunningInv /\ KstackInv
  BY Zenon DEF PhaseInv, DistinctInv, RunningInv, KstackInv, OnCpu, Engaged, Exists
<1>3. LockInv
  BY DEF LockInv, InLockedCode
<1>4. ResumeInv /\ ForkInv
  BY DEF ResumeInv, ForkInv, ForkLabels
<1> QED
  BY <1>1, <1>2, <1>3, <1>4 DEF StackInv

LEMMA StackStep == StackInv /\ [Next]_vars => StackInv'
<1> SUFFICES ASSUME StackInv, [Next]_vars PROVE StackInv'
  OBVIOUS
<1>1. TypeOK'
  BY ProcTypeStep DEF StackInv
<1>2. CASE UNCHANGED vars
  <2>1. OnlyWakes /\ pc' = pc /\ UNCHANGED <<kstack, np, resume, cpus>>
    BY <1>2 DEF vars, fields, threads, OnlyWakes
  <2> QED
    BY <1>1, <2>1, QuietStep
<1>3. CASE \E c \in CPU : SchedulerStep(c) \/ InitExiting(c)
  BY <1>1, <1>3, SchedPickKeepsInv, SwtchKeepsInv, SchedBackKeepsInv,
     ReturnFromSwtchKeepsInv, InitExitingKeepsInv DEF SchedulerStep
<1>4. ASSUME NEW c \in CPU, NEW p \in Slots,
             TrapStep(c, p) \/ ForkStep(c, p) \/ ExitWaitStep(c, p) \/ SignalStep(c, p)
      PROVE  StackInv'
  <2>1. CASE \/ Syscall(c, p) \/ SyscallDone(c, p) \/ SyscallReturn(c, p)
             \/ KilledExit(c, p) \/ ExitCall(c, p) \/ ForkNoSlot(c, p)
    <3>1. UNCHANGED fields /\ UNCHANGED <<np, resume, cpus>>
      BY <2>1 DEF Syscall, SyscallDone, SyscallReturn, KilledExit, ExitCall, ForkNoSlot, Locked
    <3>2. PlainMove(c, p)
      BY <2>1 DEF Syscall, SyscallDone, SyscallReturn, KilledExit, ExitCall, ForkNoSlot,
                  PlainMove, Goto
    <3>3. OnlyWakes /\ UNCHANGED kstack
      BY <3>1 DEF fields, OnlyWakes
    <3> QED
      BY <1>1, <3>1, <3>2, <3>3, QuietStep
  <2>2. CASE UserFault(c, p) \/ \E k \in KillPids, t \in AssignValues : AssignTickets(c, p, k, t)
    <3>1. OnlyWakes /\ UNCHANGED <<kstack, np, resume, cpus>>
      BY <2>2 DEF UserFault, AssignTickets, OnlyWakes, Locked
    <3>2. PlainMove(c, p)
      BY <2>2 DEF UserFault, AssignTickets, PlainMove, Goto
    <3> QED
      BY SMTT(20), ZenonT(20), <1>1, <3>1, <3>2, QuietStep
  <2>3. ASSUME NEW k \in KillPids, Kill(c, p, k) PROVE StackInv'
    <3>1. PICK q \in Slots : state' = [state EXCEPT ![q] = IF @ = "SLEEPING" THEN "RUNNABLE" ELSE @]
      BY ZenonT(40), <2>3 DEF Kill, Woken
    <3>2. OnlyWakes
      BY <3>1 DEF OnlyWakes, StackInv, TypeOK
    <3>3. PlainMove(c, p) /\ UNCHANGED <<kstack, np, resume, cpus>>
      BY <2>3 DEF Kill, PlainMove, Goto, Locked
    <3> QED
      BY <1>1, <3>2, <3>3, QuietStep
  <2>4. CASE Yield(c, p)
    <3>1. BlockStep(c, p, "yield")
      <4>1. state'[p] = "RUNNABLE" /\ \A q \in Slots \ {p} : state'[q] = state[q]
        BY <2>4 DEF Yield, StackInv, TypeOK
      <4>2. pc[p] # "scan"
        BY <2>4, ProcConstants DEF Yield, Acquire, Runs, StackInv, LockInv, InLockedCode
      <4> QED
        BY <2>4, <4>1, <4>2 DEF Yield, BlockStep, Acquire
    <3> QED
      BY <1>1, <3>1, BlockStepKeepsInv
  <2>5. ASSUME NEW ch \in Chan, SleepOn(c, p, ch) PROVE StackInv'
    <3>1. BlockStep(c, p, "sleep")
      <4>1. state'[p] = "SLEEPING" /\ \A q \in Slots \ {p} : state'[q] = state[q]
        BY <2>5 DEF SleepOn, StackInv, TypeOK
      <4> QED
        BY <2>5, <4>1 DEF SleepOn, BlockStep, Acquire, ForkLabels
    <3> QED
      BY <1>1, <3>1, BlockStepKeepsInv
  <2>6. CASE Exit(c, p)
    <3> DEFINE children == {q \in Slots : parent[q] = p}
               st1 == wakeup1(state, parent[p])
               st2 == IF \E q \in children : st1[q] = "ZOMBIE"
                      THEN wakeup1(st1, initproc) ELSE st1
    <3>1. state' = [st2 EXCEPT ![p] = "ZOMBIE"]
      BY ZenonT(40), <2>6 DEF Exit
    <3>2. \A q \in Slots : st2[q] = state[q] \/ (state[q] = "SLEEPING" /\ st2[q] = "RUNNABLE")
      BY ZenonT(40) DEF wakeup1
    <3>3. DOMAIN st2 = Slots
      BY DEF wakeup1
    <3> HIDE DEF st2
    <3>4. state'[p] = "ZOMBIE" /\ \A q \in Slots \ {p} : state'[q] = st2[q]
      BY SMTT(20), ZenonT(20), <3>1, <3>3
    <3>5. BlockStep(c, p, "never")
      BY <2>6, <3>2, <3>4 DEF Exit, BlockStep, Acquire, ForkLabels
    <3> QED
      BY SMTT(20), ZenonT(20), <1>1, <3>5, BlockStepKeepsInv
  <2>7. CASE WaitSleep(c, p)
    <3>1. lock = c
      BY ZenonT(40), <2>7 DEF WaitSleep, Runs, StackInv, LockInv, InLockedCode
    <3>2. state'[p] = "SLEEPING" /\ \A q \in Slots \ {p} : state'[q] = state[q]
      BY SMTT(20), ZenonT(20), <2>7 DEF WaitSleep, StackInv, TypeOK
    <3>3. BlockStep(c, p, "wait")
      BY Zenon, <2>7, <3>1, <3>2 DEF WaitSleep, BlockStep, ForkLabels
    <3> QED
      BY SMTT(20), ZenonT(20), <1>1, <3>3, BlockStepKeepsInv
  <2>8. CASE ForkAlloc(c, p)
    BY <1>1, <2>8, ForkAllocKeepsInv
  <2>9. CASE ForkKstack(c, p) \/ ForkCopy(c, p) \/ ForkPublish(c, p)
    BY <1>1, <2>9, ForkTailKeepsInv
  <2>10. CASE WaitCall(c, p) \/ WaitFail(c, p)
    BY <1>1, <2>10, WaitEdgeKeepsInv
  <2>11. CASE \E q \in Slots : WaitReap(c, p, q)
    BY <1>1, <2>11, WaitReapKeepsInv
  <2> QED
    BY <1>4, <2>1, <2>2, <2>3, <2>4, <2>5, <2>6, <2>7, <2>8, <2>9, <2>10, <2>11
    DEF TrapStep, ForkStep, ExitWaitStep, SignalStep
<1>5. ASSUME NEW ch \in Chan, Wakeup(ch) PROVE StackInv'
  <2>1. OnlyWakes /\ pc' = pc /\ UNCHANGED <<kstack, np, resume, cpus>>
    BY Zenon, <1>5 DEF Wakeup, wakeup1, OnlyWakes, Locked, threads
  <2> QED
    BY SMTT(20), ZenonT(20), <1>1, <2>1, QuietStep
<1> QED
  BY <1>2, <1>3, <1>4, <1>5 DEF Next

(* Type correctness of the process table and the CPUs. *)
THEOREM ProcTypeCorrect == Spec => []TypeOK
<1>1. StackInv => TypeOK
  BY DEF StackInv
<1> QED
  BY StackInit, StackStep, <1>1, PTL DEF Spec

(***************************************************************************)
(* For any number of CPUs and slots: no kernel stack is shared by two CPUs *)
(* or freed under one, across swtch() in scheduler() and sched(), exit()   *)
(* and the reaping in wait().                                              *)
(***************************************************************************)
THEOREM StacksAreExclusive == Spec => []StackExclusive
<1>1. StackInv => StackExclusive
  <2> SUFFICES ASSUME StackInv, NEW c \in CPU, stk[c] # NULL
               PROVE  kstack[stk[c]] /\ \A d \in CPU \ {c} : stk[d] # stk[c]
    BY DEF StackExclusive
  <2> USE DEF StackInv
  <2>1. \A d \in CPU : stk[d] # NULL => Engaged(d) /\ stk[d] = cproc[d]
    BY DEF PhaseInv, Engaged, TypeOK
  <2>2. stk[c] \in Slots /\ state[stk[c]] \in Exists
    BY <2>1 DEF PhaseInv, Engaged, OnCpu, Exists
  <2>3. kstack[stk[c]]
    BY <2>2 DEF KstackInv
  <2>4. \A d \in CPU \ {c} : stk[d] # stk[c]
    BY <2>1 DEF DistinctInv
  <2> QED
    BY <2>3, <2>4
<1> QED
  BY StackInit, StackStep, <1>1, PTL DEF Spec

(* scheduler() and sched() keep RUNNING and c->proc in step on every CPU. *)
THEOREM RunningMeansOneCpu == Spec => []RunningOnOneCpu
<1>1. StackInv => RunningOnOneCpu
  <2> SUFFICES ASSUME StackInv PROVE RunningOnOneCpu
    OBVIOUS
  <2> USE DEF StackInv
  <2>1. \A p \in Slots : state[p] = "RUNNING" <=>
          \E c \in CPU : cproc[c] = p /\ Engaged(c) /\ cpc[c] # "switching"
    BY DEF PhaseInv, RunningInv, Engaged, OnCpu
  <2>2. \A c \in CPU : stk[c] # NULL => stk[c] = cproc[c]
    BY DEF PhaseInv, TypeOK
  <2> QED
    BY <2>1, <2>2 DEF DistinctInv, RunningOnOneCpu
<1> QED
  BY StackInit, StackStep, <1>1, PTL DEF Spec

(***************************************************************************)
(* ptable.lock, acquired on one stack and released on another, is held     *)
(* exactly where the code needs it; sched()'s panics never fire.           *)
(***************************************************************************)
THEOREM LockFollowsTheSwitch == Spec => []LockFollowsSwitch
<1>1. StackInv => LockFollowsSwitch
  BY DEF StackInv, LockFollowsSwitch, LockInv, PhaseInv
<1> QED
  BY StackInit, StackStep, <1>1, PTL DEF Spec

=============================================================================
