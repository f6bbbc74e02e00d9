------------------------------ MODULE Spinlock ------------------------------
(***************************************************************************)
(* Spin locks, the interrupt flag and the switches between threads:        *)
(* spinlock.c (acquire, release, holding, pushcli, popcli) with sched(),   *)
(* scheduler(), forkret() and the interrupt gates of trap.c.               *)
(*                                                                         *)
(* A kernel thread is a stack of frames: the user process (or, for the     *)
(* scheduler of a CPU, its loop) and on top of it the trap frames, each of *)
(* which is left by an iret that turns interrupts on again.  The code of a *)
(* frame takes and gives back any locks, taking them in the order of their *)
(* numbers; ptable.lock is the last.  A thread that is not running has     *)
(* "off" in its top frame.                                                 *)
(*                                                                         *)
(* What a CPU does with interrupts off and only to its own state, or to a  *)
(* lock it holds, is part of the step it belongs to.                       *)
(***************************************************************************)
EXTENDS Integers, Sequences, FiniteSets

CONSTANTS
    CPU, NoCpu, Thread,
    NLock,          \* the locks are 1 .. NLock
    MaxFrames       \* bound on the nesting of interrupts

ASSUME SpinlockConstants ==
    /\ NoCpu \notin CPU /\ CPU \cap Thread = {}
    /\ NLock \in Nat \ {0} /\ MaxFrames \in Nat \ {0, 1}

Lock == 1 .. NLock
ptable == NLock
NoLock == 0

VARIABLES
    locked,                 \* lk->locked and lk->cpu: the CPU that holds it
    FL_IF, ncli, intena,    \* per CPU; FL_IF is the flag of eflags
    cur,                    \* the thread on the CPU, or the CPU: its scheduler
    frames,                 \* the stack of a thread
    saved                   \* the local intena of sched()

cpus == <<FL_IF, ncli, intena>>
spinvars == <<locked, cpus, cur, frames, saved>>

Frame(kind, at) == [kind |-> kind, at |-> at, lk |-> NoLock, eflags |-> FALSE]

FrameType ==
    [kind : {"user", "irq", "fork", "sched"},
     at : {"code", "push", "spin", "off", "new", "loop", "back"},
     lk : Lock \cup {NoLock}, eflags : BOOLEAN]

SpinType ==
    /\ locked \in [Lock -> CPU \cup {NoCpu}]
    /\ FL_IF \in [CPU -> BOOLEAN] /\ ncli \in [CPU -> Int] /\ intena \in [CPU -> BOOLEAN]
    /\ cur \in [CPU -> Thread \cup CPU]
    /\ frames \in [Thread \cup CPU -> Seq(FrameType) \ {<<>>}]
    /\ saved \in [Thread -> BOOLEAN]

(* What allocproc() prepares: forkret(), returning to user space by trapret. *)
NewStack == <<Frame("fork", "new"), Frame("user", "code")>>

SpinInit ==
    /\ locked = [l \in Lock |-> NoCpu]
    /\ FL_IF = [c \in CPU |-> FALSE]
    /\ ncli = [c \in CPU |-> 0] /\ intena = [c \in CPU |-> FALSE]
    /\ cur = [c \in CPU |-> c]
    /\ frames = [k \in Thread \cup CPU |->
                    IF k \in CPU THEN <<Frame("sched", "loop")>>
                    ELSE NewStack]
    /\ saved = [t \in Thread |-> FALSE]

-----------------------------------------------------------------------------

Top(c) == Head(frames[cur[c]])
Replace(c, frame) == frames' = [frames EXCEPT ![cur[c]] = <<frame>> \o Tail(@)]
Held(c) == {l \in Lock : locked[l] = c}

(* pushcli() of acquire(): readeflags() ... *)
acquire(c, l) ==
    /\ Top(c).at = "code"
    /\ \A m \in Held(c) : m < l
    /\ Top(c).kind = "sched" => l = ptable /\ Held(c) = {}
    /\ Replace(c, [Top(c) EXCEPT !.at = "push", !.lk = l, !.eflags = FL_IF[c]])
    /\ UNCHANGED <<locked, cpus, cur, saved>>

(* Operators named Bad... and Worse... are faulty variants of what follows. *)
WorsePushcli(c) ==                      \* no cli()
    /\ Top(c).at = "push"
    /\ intena' = [intena EXCEPT ![c] = IF ncli[c] = 0 THEN Top(c).eflags ELSE @]
    /\ ncli' = [ncli EXCEPT ![c] = @ + 1]
    /\ Replace(c, [Top(c) EXCEPT !.at = "spin"])
    /\ UNCHANGED <<locked, FL_IF, cur, saved>>

(* ... cli() and the count *)
pushcli(c) ==
    /\ Top(c).at = "push"
    /\ FL_IF' = [FL_IF EXCEPT ![c] = FALSE]
    /\ intena' = [intena EXCEPT ![c] = IF ncli[c] = 0 THEN Top(c).eflags ELSE @]
    /\ ncli' = [ncli EXCEPT ![c] = @ + 1]
    /\ Replace(c, [Top(c) EXCEPT !.at = "spin"])
    /\ UNCHANGED <<locked, cur, saved>>

(* the xchg that finds the lock free *)
Xchg(c) ==
    /\ Top(c).at = "spin" /\ locked[Top(c).lk] = NoCpu
    /\ locked' = [locked EXCEPT ![Top(c).lk] = c]
    /\ Replace(c, Frame(Top(c).kind, "code"))
    /\ UNCHANGED <<cpus, cur, saved>>

popcli(c) ==
    /\ ncli' = [ncli EXCEPT ![c] = @ - 1]
    /\ FL_IF' = [FL_IF EXCEPT ![c] = @ \/ (ncli[c] = 1 /\ intena[c])]
    /\ UNCHANGED intena

BadRelease(c, l) ==                     \* the scheduler loops on with ptable.lock
    /\ Top(c).at \in {"code", "back"} /\ l \in Held(c)
    /\ IF Top(c).at = "back" THEN UNCHANGED spinvars
       ELSE /\ locked' = [locked EXCEPT ![l] = NoCpu]
            /\ popcli(c)
            /\ Replace(c, [Top(c) EXCEPT !.at = IF Top(c).kind = "sched" THEN "loop" ELSE "code"])
            /\ UNCHANGED <<cur, saved>>

release(c, l) ==
    /\ Top(c).at \in {"code", "back"} /\ l \in Held(c)
    /\ locked' = [locked EXCEPT ![l] = NoCpu]
    /\ popcli(c)
    /\ Replace(c, [Top(c) EXCEPT !.at = IF Top(c).kind = "sched" THEN "loop" ELSE "code"])
    /\ UNCHANGED <<cur, saved>>

-----------------------------------------------------------------------------
(* Interrupts: the gate turns them off, iret restores the flag. *)

Interrupt(c) ==
    /\ FL_IF[c] /\ Len(frames[cur[c]]) < MaxFrames
    /\ FL_IF' = [FL_IF EXCEPT ![c] = FALSE]
    /\ frames' = [frames EXCEPT ![cur[c]] = <<Frame("irq", "code")>> \o @]
    /\ UNCHANGED <<locked, ncli, intena, cur, saved>>

Iret(c) ==
    /\ Top(c).kind \in {"irq", "fork"} /\ Top(c).at = "code" /\ Held(c) = {}
    /\ FL_IF' = [FL_IF EXCEPT ![c] = TRUE]
    /\ frames' = [frames EXCEPT ![cur[c]] = Tail(@)]
    /\ UNCHANGED <<locked, ncli, intena, cur, saved>>

-----------------------------------------------------------------------------
(* The switches.  Both scheduler() and sched() run with ptable.lock. *)

sched(c) ==
    /\ cur[c] \in Thread /\ Top(c).at = "code" /\ Held(c) = {ptable}
    /\ saved' = [saved EXCEPT ![cur[c]] = intena[c]]
    /\ Replace(c, Frame(Top(c).kind, "off"))
    /\ cur' = [cur EXCEPT ![c] = c]
    /\ UNCHANGED <<locked, cpus>>

exit(c) ==
    /\ cur[c] \in Thread /\ Top(c).at = "code" /\ Held(c) = {ptable}
    /\ frames' = [frames EXCEPT ![cur[c]] = NewStack]
    /\ cur' = [cur EXCEPT ![c] = c]
    /\ UNCHANGED <<locked, cpus, saved>>

(* intena = intena after sched(); forkret() takes what the scheduler left. *)
BadResume(c, t) == intena' = intena     \* left to the CPU

Resume(c, t) ==
    intena' = [intena EXCEPT ![c] = IF Head(frames[t]).at = "new" THEN @ ELSE saved[t]]

scheduler(c, t) ==
    /\ cur[c] = c /\ Top(c).kind = "sched" /\ Top(c).at = "code" /\ Held(c) = {ptable}
    /\ Head(frames[t]).at \in {"off", "new"}
    /\ cur' = [cur EXCEPT ![c] = t]
    /\ frames' = [frames EXCEPT ![c] = <<Frame("sched", "back")>>,
                                ![t] = <<Frame(Head(@).kind, "code")>> \o Tail(@)]
    /\ Resume(c, t)
    /\ saved' = [saved EXCEPT ![t] = FALSE]
    /\ UNCHANGED <<locked, FL_IF, ncli>>

Sti(c) ==
    /\ Top(c).at = "loop"
    /\ FL_IF' = [FL_IF EXCEPT ![c] = TRUE]
    /\ Replace(c, Frame("sched", "code"))
    /\ UNCHANGED <<locked, ncli, intena, cur, saved>>

-----------------------------------------------------------------------------

Step(c) ==
    \/ \E l \in Lock : acquire(c, l) \/ release(c, l)
    \/ pushcli(c) \/ Xchg(c)
    \/ Interrupt(c) \/ Iret(c)
    \/ sched(c) \/ exit(c) \/ Sti(c)
    \/ \E t \in Thread : scheduler(c, t)

SpinNext == \E c \in CPU : Step(c)

SpinSpec == SpinInit /\ [][SpinNext]_spinvars

(***************************************************************************)
(* A CPU goes on; who spins wins the xchg at last if the lock is free      *)
(* again and again; and no code keeps a lock for ever.                     *)
(***************************************************************************)
FairSpin ==
    /\ SpinSpec
    /\ \A c \in CPU :
        /\ WF_spinvars(pushcli(c)) /\ SF_spinvars(Xchg(c))
        /\ \A l \in Lock : SF_spinvars(release(c, l))

-----------------------------------------------------------------------------

Spinning(c) == Top(c).at = "spin"

(***************************************************************************)
(* ncli counts the locks of the CPU, also when the thread that took one    *)
(* has been switched out: the panics of popcli() ("popcli") and of sched() *)
(* ("sched locks") do not happen.                                          *)
(***************************************************************************)
NcliCountsLocks ==
    \A c \in CPU : ncli[c] = Cardinality(Held(c)) + (IF Spinning(c) THEN 1 ELSE 0)

(***************************************************************************)
(* Interrupts are off while a CPU holds or waits for a lock, and it never  *)
(* waits for a lock it holds: "disable interrupts to avoid deadlock"       *)
(* (spinlock.c:27).  The panics of acquire(), of popcli() ("popcli -       *)
(* interruptible") and of sched() ("sched interruptible") do not happen.   *)
(***************************************************************************)
NoSelfDeadlock ==
    \A c \in CPU :
        /\ Held(c) # {} \/ Spinning(c) => ~FL_IF[c]
        /\ Spinning(c) => Top(c).lk \notin Held(c)

(***************************************************************************)
(* Code that holds no lock finds the interrupt flag as it was before it    *)
(* took locks, on whatever CPU it runs now: a user process or system call  *)
(* is interruptible, an interrupt handler is not, so that handlers do not  *)
(* nest.  "intena is a property of this kernel thread, not this CPU"       *)
(* (proc.c:444).                                                           *)
(***************************************************************************)
FlagRestored ==
    \A c \in CPU : Top(c).at \in {"code", "push"} /\ Held(c) = {} =>
        (FL_IF[c] <=> Top(c).kind # "irq")

(***************************************************************************)
(* Every acquire() gets its lock: with interrupts off and the locks taken  *)
(* in their order, CPUs never wait for each other in a circle.             *)
(***************************************************************************)
SpinEnds == \A c \in CPU : []<>(~Spinning(c))

=============================================================================
