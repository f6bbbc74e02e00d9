-------------------------------- MODULE Ticks -------------------------------
(***************************************************************************)
(* Time: the tick counter of trap.c, a 32-bit unsigned integer that wraps  *)
(* around, and sys_sleep(), which compares it with a signed argument.      *)
(* tickslock is held from the test of the loop until sleep() has           *)
(* ptable.lock, so a tick cannot come in between; kill(), which takes only *)
(* ptable.lock, can.                                                       *)
(***************************************************************************)
EXTENDS Integers

CONSTANTS
    Proc, NoProc,
    UintMod,        \* 2^32 in the code
    Arg,            \* arguments of sleep(), negative ones too
    MaxLag          \* ticks a runnable process may have to wait for a CPU

VARIABLES
    ticks,
    tickslock,      \* its holder
    pc,             \* "user", "loop", "checked", "asleep", "woken"
    ticks0, n,      \* locals of sys_sleep
    killed,
    elapsed,        \* history: the ticks since the call, up to a cap
    lag             \* history: the ticks since the process was woken

locals == <<ticks0, n>>
vars == <<ticks, tickslock, pc, locals, killed, elapsed, lag>>

ElapsedCap == UintMod

Init ==
    /\ ticks = 0 /\ tickslock = NoProc
    /\ pc = [p \in Proc |-> "user"]
    /\ ticks0 = [p \in Proc |-> 0] /\ n = [p \in Proc |-> 0]
    /\ killed = [p \in Proc |-> FALSE]
    /\ elapsed = [p \in Proc |-> 0] /\ lag = [p \in Proc |-> 0]

-----------------------------------------------------------------------------

acquire(p) == tickslock = NoProc /\ tickslock' = p
release == tickslock' = NoProc

(* The comparison converts n to unsigned: sleep(-1) waits for 2^32-1 ticks. *)
sys_sleep(p, arg) ==
    /\ pc[p] = "user" /\ ~killed[p]
    /\ acquire(p)
    /\ ticks0' = [ticks0 EXCEPT ![p] = ticks]
    /\ n' = [n EXCEPT ![p] = arg % UintMod]
    /\ pc' = [pc EXCEPT ![p] = "loop"]
    /\ UNCHANGED <<ticks, killed, elapsed, lag>>

Return(p) ==
    /\ release
    /\ pc' = [pc EXCEPT ![p] = "user"]
    /\ ticks0' = [ticks0 EXCEPT ![p] = 0] /\ n' = [n EXCEPT ![p] = 0]
    /\ elapsed' = [elapsed EXCEPT ![p] = 0]
    /\ UNCHANGED <<ticks, killed, lag>>

(* Operators named Bad... and Worse... are faulty variants of what follows. *)
StillEarly(p) == (ticks - ticks0[p]) % UintMod < n[p]

BadLoop(p) ==                               \* no test of killed
    /\ pc[p] = "loop"
    /\ IF StillEarly(p)
       THEN /\ pc' = [pc EXCEPT ![p] = "checked"]
            /\ UNCHANGED <<ticks, tickslock, locals, killed, elapsed, lag>>
       ELSE Return(p)

Loop(p) ==
    /\ pc[p] = "loop"
    /\ IF StillEarly(p) /\ ~killed[p]
       THEN /\ pc' = [pc EXCEPT ![p] = "checked"]
            /\ UNCHANGED <<ticks, tickslock, locals, killed, elapsed, lag>>
       ELSE Return(p)

(* sleep(&ticks, &tickslock), to the switch *)
Sleep(p) ==
    /\ pc[p] = "checked"
    /\ release
    /\ pc' = [pc EXCEPT ![p] = "asleep"]
    /\ UNCHANGED <<ticks, locals, killed, elapsed, lag>>

(* ... and from the switch *)
Reacquire(p) ==
    /\ pc[p] = "woken"
    /\ acquire(p)
    /\ pc' = [pc EXCEPT ![p] = "loop"]
    /\ lag' = [lag EXCEPT ![p] = 0]
    /\ UNCHANGED <<ticks, locals, killed, elapsed>>

(***************************************************************************)
(* The timer interrupt of CPU 0.  No process that has been woken is still  *)
(* waiting after MaxLag ticks: the scheduling the model assumes.           *)
(***************************************************************************)
Passes ==
    /\ \A p \in Proc : lag[p] < MaxLag \/ pc[p] # "woken"
    /\ elapsed' = [p \in Proc |-> IF pc[p] = "user" \/ elapsed[p] = ElapsedCap
                                  THEN elapsed[p] ELSE elapsed[p] + 1]
    /\ lag' = [p \in Proc |-> IF pc[p] = "woken" THEN lag[p] + 1 ELSE lag[p]]

BadTick ==                                  \* tickslock not taken
    /\ Passes
    /\ ticks' = (ticks + 1) % UintMod
    /\ pc' = [p \in Proc |-> IF pc[p] = "asleep" THEN "woken" ELSE pc[p]]
    /\ UNCHANGED <<tickslock, locals, killed>>

Tick ==
    /\ Passes
    /\ tickslock = NoProc
    /\ ticks' = (ticks + 1) % UintMod
    /\ pc' = [p \in Proc |-> IF pc[p] = "asleep" THEN "woken" ELSE pc[p]]
    /\ UNCHANGED <<tickslock, locals, killed>>

kill(p) ==
    /\ ~killed[p]
    /\ killed' = [killed EXCEPT ![p] = TRUE]
    /\ pc' = [pc EXCEPT ![p] = IF @ = "asleep" THEN "woken" ELSE @]
    /\ UNCHANGED <<ticks, tickslock, locals, elapsed, lag>>

(* trap() lets a killed process exit; its slot goes to another process. *)
Exit(p) ==
    /\ pc[p] = "user" /\ killed[p]
    /\ killed' = [killed EXCEPT ![p] = FALSE]
    /\ UNCHANGED <<ticks, tickslock, pc, locals, elapsed, lag>>

-----------------------------------------------------------------------------

Call(p) == Loop(p) \/ Sleep(p)

Next ==
    \/ Tick
    \/ \E p \in Proc :
        \/ \E arg \in Arg : sys_sleep(p, arg)
        \/ Call(p) \/ Reacquire(p) \/ kill(p) \/ Exit(p)

Spec == Init /\ [][Next]_vars

(***************************************************************************)
(* The clock ticks, processes that can go on do, and who spins for         *)
(* tickslock gets it at last.                                              *)
(***************************************************************************)
FairSpec ==
    /\ Spec /\ SF_vars(Tick)
    /\ \A p \in Proc : WF_vars(Call(p)) /\ SF_vars(Reacquire(p))

-----------------------------------------------------------------------------

(* A sleep whose wakeup cannot be missed by more than a wrap of the counter. *)
Ordinary(p) == n[p] + MaxLag < UintMod

(***************************************************************************)
(* sys_sleep() does not oversleep: nobody is still asleep when its time is *)
(* over (no tick falls between the test and the sleep), and nobody is      *)
(* later than the scheduling delay.                                        *)
(***************************************************************************)
NoOversleep ==
    \A p \in Proc : Ordinary(p) =>
        /\ pc[p] \in {"checked", "asleep"} => elapsed[p] < n[p]
        /\ elapsed[p] <= n[p] + MaxLag

(* Process p is not in sleep() with killed set. *)
Answered(p) == killed[p] => pc[p] = "user"

(***************************************************************************)
(* A killed process returns, whatever its argument: when kill() falls      *)
(* between the test of killed and the sleep the next tick wakes it.        *)
(***************************************************************************)
KilledSleepReturns == \A p \in Proc : []<>Answered(p)

=============================================================================
