------------------------------- MODULE MCSync -------------------------------
(***************************************************************************)
(* Spin locks and sys_sleep(), each on a small instance of its own: part   *)
(* says which of them a behaviour is of, and the other keeps its initial   *)
(* state.                                                                  *)
(***************************************************************************)
EXTENDS Spinlock

CONSTANT NoProc

VARIABLES part,
    ticks, tickslock, pc, ticks0, n, killed, elapsed, lag

(* A negative argument, and one below the wrap of the counter. *)
Ticks == INSTANCE Ticks WITH Proc <- CPU, UintMod <- 3, Arg <- {-1, 1}, MaxLag <- 1
tickvars == <<ticks, tickslock, pc, ticks0, n, killed, elapsed, lag>>
allvars == <<part, spinvars, tickvars>>

PartsInit ==
    /\ part \in {"locks", "ticks"}
    /\ SpinInit /\ Ticks!Init

InLocks(A) == part = "locks" /\ A /\ UNCHANGED <<part, tickvars>>
InTicks(A) == part = "ticks" /\ A /\ UNCHANGED <<part, spinvars>>

(***************************************************************************)
(* The fairness of Spinlock for the behaviours of the first part, that of  *)
(* Ticks, whose processes bear the names of the CPUs, for those of the     *)
(* second: part never changes, so fairness of "A in the one or B in the    *)
(* other" is the fairness of A, and of B, where it belongs.                *)
(***************************************************************************)
PartsSpec ==
    /\ PartsInit
    /\ [][InLocks(SpinNext) \/ InTicks(Ticks!Next)]_allvars
    /\ \A c \in CPU :
        /\ WF_allvars(InLocks(pushcli(c)) \/ InTicks(Ticks!Call(c)))
        /\ SF_allvars(InLocks(Xchg(c)) \/ InTicks(Ticks!Reacquire(c)))
        /\ \A l \in Lock : SF_allvars(InLocks(release(c, l)) \/ InTicks(Ticks!Tick))

-----------------------------------------------------------------------------
(* Nobody is still asleep when its time is over (Ticks). *)
NoOversleep == part = "ticks" => Ticks!NoOversleep

(* A killed process returns from sleep() (Ticks). *)
KilledSleepReturns == \A p \in CPU : []<>(part = "ticks" => Ticks!Answered(p))
=============================================================================
