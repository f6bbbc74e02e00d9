----------------------------- MODULE SchedOrder -----------------------------
(***************************************************************************)
(* The report of the scheduling order (SCHED_TEST): proc_sched, which the  *)
(* schedulers of all CPUs write and sys_change_schedorder_flag() switches. *)
(*                                                                         *)
(* A scheduler holds ptable.lock from its choice to the switch.  Which     *)
(* process it chooses is the matter of Lottery: here any that does not run.*)
(***************************************************************************)
EXTENDS Integers, Sequences, Sums

CONSTANTS
    Cpu, NoCpu,
    Pid, NoPid,
    Booted,         \* the CPUs that are past their initlock() at the start
    MaxDispatches   \* bound on the dispatches of a behaviour

VARIABLES
    ptable,         \* who holds ptable.lock
    lock,           \* who holds proc_sched.lock
    startflag, pid, ticks,      \* the fields of proc_sched
    printed,        \* the lines printed: <<pid, ticks>>
    pc,
    proc,           \* c->proc
    flag,           \* the argument of the system call
    dispatches,     \* the number of dispatches, up to the bound
    recorded        \* (history) the processes dispatched while the flag was on

proc_sched == <<startflag, pid, ticks, printed, dispatches, recorded>>
vars == <<ptable, lock, proc_sched, pc, proc, flag>>

Init ==
    /\ ptable = NoCpu /\ lock = NoCpu
    /\ startflag = FALSE /\ pid = NoPid /\ ticks = 0
    /\ printed = <<>> /\ dispatches = 0 /\ recorded = <<>>
    /\ pc = [c \in Cpu |-> IF c \in Booted THEN "loop" ELSE "boot"]
    /\ proc = [c \in Cpu |-> NoPid]
    /\ flag = [c \in Cpu |-> FALSE]

-----------------------------------------------------------------------------

Step(c, from, to) == pc[c] = from /\ pc' = [pc EXCEPT ![c] = to]

acquire(c) == lock = NoCpu /\ lock' = c

release(c) == lock = c /\ lock' = NoCpu     \* or panic

-----------------------------------------------------------------------------
(* scheduler() *)

Boot(c) ==
    /\ Step(c, "boot", "loop")
    /\ lock' = NoCpu            \* initlock()
    /\ UNCHANGED <<ptable, proc_sched, proc, flag>>

Choose(c, p) ==
    /\ Step(c, "loop", "acquire")
    /\ ptable = NoCpu /\ ptable' = c
    /\ \A d \in Cpu : proc[d] # p
    /\ dispatches < MaxDispatches
    /\ proc' = [proc EXCEPT ![c] = p]
    /\ UNCHANGED <<lock, proc_sched, flag>>

RecordAcquire(c) ==
    /\ Step(c, "acquire", "test")
    /\ acquire(c)
    /\ UNCHANGED <<ptable, proc_sched, proc, flag>>

Off(c) ==
    /\ ~startflag
    /\ Step(c, "test", "release")
    /\ dispatches' = dispatches + 1
    /\ UNCHANGED <<ptable, lock, startflag, pid, ticks, printed, recorded, proc, flag>>

On(c) ==
    /\ startflag
    /\ Step(c, "test", "record")
    /\ UNCHANGED <<ptable, lock, proc_sched, proc, flag>>

(* Operators named Bad... are faulty variants of what follows. *)
BadPrints(p) == IF pid \in {p, NoPid} THEN printed ELSE Append(printed, <<p, ticks>>)

Prints(p) == IF pid \in {p, NoPid} THEN printed ELSE Append(printed, <<pid, ticks>>)

Ticks(p) == IF pid \in {p, NoPid} THEN ticks + 1 ELSE 1

Record(c) ==
    /\ Step(c, "record", "release")
    /\ printed' = Prints(proc[c])
    /\ ticks' = Ticks(proc[c])
    /\ pid' = proc[c]
    /\ dispatches' = dispatches + 1 /\ recorded' = Append(recorded, proc[c])
    /\ UNCHANGED <<ptable, lock, startflag, proc, flag>>

(* ... and the switch to the process, which releases ptable.lock *)
RecordRelease(c) ==
    /\ Step(c, "release", "run")
    /\ release(c)
    /\ ptable' = NoCpu
    /\ UNCHANGED <<proc_sched, proc, flag>>

(* yield(), sleep() or exit(): the scheduler takes over, c->proc = 0 *)
Yield(c) ==
    /\ Step(c, "run", "loop")
    /\ ptable = NoCpu
    /\ dispatches < MaxDispatches
    /\ proc' = [proc EXCEPT ![c] = NoPid]
    /\ UNCHANGED <<ptable, lock, proc_sched, flag>>

-----------------------------------------------------------------------------

sys_change_schedorder_flag(c, b) ==
    /\ Step(c, "run", "set")
    /\ acquire(c)
    /\ flag' = [flag EXCEPT ![c] = b]
    /\ UNCHANGED <<ptable, proc_sched, proc>>

SetFlag(c) ==
    /\ Step(c, "set", "setRelease")
    /\ startflag' = flag[c]
    /\ UNCHANGED <<ptable, lock, pid, ticks, printed, dispatches, recorded, proc, flag>>

SetRelease(c) ==
    /\ Step(c, "setRelease", "run")
    /\ release(c)
    /\ UNCHANGED <<ptable, proc_sched, proc, flag>>

(* release() of a lock that the initlock() of a late CPU has freed panics. *)
ReleasePanics(c) == pc[c] \in {"release", "setRelease"} /\ lock # c /\ UNCHANGED vars

(* The bound on a behaviour. *)
Bounded == dispatches >= MaxDispatches /\ UNCHANGED vars

Next ==
    \/ \E c \in Cpu :
        \/ Boot(c)
        \/ \E p \in Pid : Choose(c, p)
        \/ RecordAcquire(c) \/ Off(c) \/ On(c) \/ Record(c) \/ RecordRelease(c)
        \/ Yield(c)
        \/ \E b \in BOOLEAN : sys_change_schedorder_flag(c, b)
        \/ SetFlag(c) \/ SetRelease(c) \/ ReleasePanics(c)
    \/ Bounded

Spec == Init /\ [][Next]_vars

-----------------------------------------------------------------------------

(* Ends(runs)[n] is the number of dispatches in the first n of the runs. *)
Ends(runs) == PrefixSums([n \in DOMAIN runs |-> runs[n][2]], Len(runs))

(***************************************************************************)
(* The lines printed and the run in progress, read one after the other,    *)
(* are exactly the processes dispatched while the flag was on, in order,   *)
(* whichever CPU dispatched them; and a line ends only when another        *)
(* process has its turn.                                                   *)
(***************************************************************************)
ReportIsExact ==
    LET runs == IF pid = NoPid THEN printed ELSE Append(printed, <<pid, ticks>>)
        ends == Ends(runs)
    IN
    /\ Len(recorded) = ends[Len(runs)]
    /\ \A n \in 1 .. Len(runs) : \A k \in ends[n - 1] + 1 .. ends[n] :
          recorded[k] = runs[n][1]
    /\ \A n \in 1 .. Len(runs) - 1 : runs[n][1] # runs[n + 1][1]

=============================================================================
