------------------------------ MODULE Lottery ------------------------------
(***************************************************************************)
(* The lottery inside scheduler() of proc.c, loop iteration by loop        *)
(* iteration: sum the tickets of the RUNNABLE processes, draw a number,    *)
(* walk the table again to the process that holds it.                      *)
(*                                                                         *)
(* One CPU's scheduler is modelled.  It holds ptable.lock from Acquire to  *)
(* the end of the round, except while the chosen process runs; whenever it *)
(* does not hold the lock the rest of the kernel (forks, exits, wakeups,   *)
(* assign_tickets, other CPUs: module Proc) may change the table, which is *)
(* the action Environment.  The number drawn is any number below the limit *)
(* passed to generate_random_number: module Rand proves that range.        *)
(***************************************************************************)
EXTENDS Integers, Sums

CONSTANTS
    NPROC,          \* slots of ptable.proc
    TicketValues,   \* ticket counts sys_assign_tickets may have stored
    MAX_TICKETS_PER_PROCESS,    \* the cap of param.h
    LimitMod,       \* 2^16: the parameter of generate_random_number is ushort
    IntMax          \* 2^31 - 1: total_tickets and tickets_passed are int

ASSUME LotteryConstants ==
    /\ NPROC \in Nat \ {0}
    /\ TicketValues \subseteq Nat \ {0}
    /\ MAX_TICKETS_PER_PROCESS \in Nat
    /\ LimitMod \in Nat \ {0}
    /\ IntMax \in Nat /\ LimitMod <= IntMax

Slots == 1..NPROC

VARIABLES
    runnable,       \* the slots whose state is RUNNABLE
    tickets,        \* the tickets field of every slot
    total_tickets, tickets_passed, ticket_no,   \* locals of scheduler()
    p,              \* the loop variable; NPROC + 1 is &ptable.proc[NPROC]
    pc              \* where this CPU's scheduler() is

locals == <<total_tickets, tickets_passed, ticket_no, p>>
table == <<runnable, tickets>>
vars == <<table, locals, pc>>

(***************************************************************************)
(* int addition of a non-negative ticket count, wrapping past IntMax as    *)
(* the compiled code does.                                                 *)
(***************************************************************************)
AddInt(a, b) == IF a + b > IntMax THEN a + b - 2 * (IntMax + 1) ELSE a + b

TypeOK ==
    /\ runnable \subseteq Slots
    /\ tickets \in [Slots -> TicketValues]
    /\ total_tickets \in -(IntMax + 1)..IntMax
    /\ tickets_passed \in -(IntMax + 1)..IntMax
    /\ ticket_no \in 0..(LimitMod - 1)
    /\ p \in 1..(NPROC + 1)
    /\ pc \in {"unlocked", "sum", "draw", "find", "switch", "running", "fault"}

-----------------------------------------------------------------------------

Init ==
    /\ runnable = {1}
    /\ tickets \in [Slots -> TicketValues]
    /\ total_tickets = 0 /\ tickets_passed = 0 /\ ticket_no = 0
    /\ p = 1
    /\ pc = "unlocked"

(***************************************************************************)
(* What the others do to the table while they can have the lock, one slot  *)
(* at a time and as often as they like.  A slot that is not free has at    *)
(* least one ticket (LiveHaveTickets of module Proc).                      *)
(***************************************************************************)
Environment ==
    /\ pc \in {"unlocked", "running"}
    /\ \E q \in Slots :
          \/ /\ runnable' \in {runnable \cup {q}, runnable \ {q}}
             /\ UNCHANGED tickets
          \/ /\ \E t \in TicketValues : tickets' = [tickets EXCEPT ![q] = t]
             /\ UNCHANGED runnable
    /\ UNCHANGED <<locals, pc>>

Acquire ==
    /\ pc = "unlocked"
    /\ p' = 1
    /\ pc' = "sum"
    /\ UNCHANGED <<table, total_tickets, tickets_passed, ticket_no>>

(* The loops' conditions and the test for a winner.  Operators named Bad... *)
(* are faulty variants that the properties at the end tell from the code.  *)
InTable == p <= NPROC

WorseTicketsFound == total_tickets > 1
TicketsFound == total_tickets > 0

Drawn(limit) == 0..(limit - 1)

BadWins(passed) == passed >= ticket_no
Wins(passed) == passed > ticket_no

(***************************************************************************)
(* One iteration of the summing loop.                                      *)
(***************************************************************************)
SumSlot ==
    /\ pc = "sum" /\ InTable
    /\ total_tickets' = IF p \in runnable THEN AddInt(total_tickets, tickets[p])
                                          ELSE total_tickets
    /\ p' = p + 1
    /\ UNCHANGED <<table, tickets_passed, ticket_no, pc>>

(***************************************************************************)
(* After the summing loop: with no ticket the lock is released and the     *)
(* loop starts again.  total_tickets is not reset on this path.            *)
(***************************************************************************)
SumDone ==
    /\ pc = "sum" /\ ~InTable
    /\ pc' = IF TicketsFound THEN "draw" ELSE "unlocked"
    /\ UNCHANGED <<table, locals>>

(***************************************************************************)
(* generate_random_number(total_tickets): the argument is truncated to a   *)
(* ushort; a limit of zero divides by zero in the kernel.                  *)
(***************************************************************************)
Draw ==
    /\ pc = "draw"
    /\ LET limit == total_tickets % LimitMod IN
       IF limit = 0
       THEN /\ pc' = "fault"
            /\ UNCHANGED <<p, ticket_no>>
       ELSE /\ ticket_no' \in Drawn(limit)
            /\ p' = 1
            /\ pc' = "find"
    /\ UNCHANGED <<table, total_tickets, tickets_passed>>

(***************************************************************************)
(* One iteration of the search for the winner.  A search that runs off the *)
(* table goes on with p one past it.                                       *)
(***************************************************************************)
FindSlot ==
    /\ pc = "find"
    /\ LET passed == IF p \in runnable THEN AddInt(tickets_passed, tickets[p])
                                        ELSE tickets_passed
           won == p \in runnable /\ Wins(passed)
       IN  /\ tickets_passed' = passed
           /\ p' = IF won THEN p ELSE p + 1
           /\ pc' = IF won \/ p = NPROC THEN "switch" ELSE "find"
    /\ UNCHANGED <<table, total_tickets, ticket_no>>

(***************************************************************************)
(* c->proc = p, p->state = RUNNING, swtch.                                 *)
(***************************************************************************)
Dispatch ==
    /\ pc = "switch"
    /\ runnable' = runnable \ {p}
    /\ pc' = "running"
    /\ UNCHANGED <<tickets, locals>>

(***************************************************************************)
(* The process switched back: reset the counters, release the lock.        *)
(***************************************************************************)
SwitchedBack ==
    /\ pc = "running"
    /\ total_tickets' = 0 /\ tickets_passed' = 0
    /\ pc' = "unlocked"
    /\ UNCHANGED <<table, ticket_no, p>>

Next ==
    \/ Environment
    \/ Acquire \/ SumSlot \/ SumDone \/ Draw \/ FindSlot \/ Dispatch \/ SwitchedBack

Spec == Init /\ [][Next]_vars

-----------------------------------------------------------------------------

(***************************************************************************)
(* No process has more tickets than param.h allows, and a full table of    *)
(* such processes fits the ushort parameter: 64 * 1000 < 65536.            *)
(***************************************************************************)
CapFits ==
    /\ \A t \in TicketValues : t <= MAX_TICKETS_PER_PROCESS
    /\ NPROC * MAX_TICKETS_PER_PROCESS < LimitMod

(***************************************************************************)
(* The search ends on a RUNNABLE slot of the table: scheduler() uses p     *)
(* after the loop without testing that the loop found anything.            *)
(***************************************************************************)
WinnerRunnable == pc = "switch" => p \in runnable

(* The tickets every slot has in the lottery, those of the slots up to q,  *)
(* and the numbers with which a slot wins.                                 *)
Weights == [q \in Slots |-> IF q \in runnable THEN tickets[q] ELSE 0]
Sum == PrefixSums(Weights, NPROC)
Winning(q) == Sum[q - 1]..(Sum[q] - 1)

(***************************************************************************)
(* The slot chosen is the one whose interval of ticket numbers holds the   *)
(* number drawn, and these intervals partition 0..total-1: out of          *)
(* total_tickets numbers a process wins with exactly as many as it has     *)
(* tickets (README.md, "Algorithm for Scheduling").                        *)
(***************************************************************************)
WinnerHoldsTicket ==
    pc = "switch" =>
        /\ p \in runnable /\ ticket_no \in Winning(p)
        /\ UNION {Winning(q) : q \in runnable} = 0..(total_tickets - 1)
        /\ \A q1, q2 \in runnable : q1 # q2 => Winning(q1) \cap Winning(q2) = {}

(***************************************************************************)
(* The draw never divides by zero, although total_tickets, an int, is      *)
(* truncated to a ushort.                                                  *)
(***************************************************************************)
NoDivideError == pc # "fault"

(***************************************************************************)
(* A round that ends without switching to a process found no RUNNABLE      *)
(* process ("This is case when no RUNNABLE process is found",              *)
(* proc.c:436).                                                            *)
(***************************************************************************)
IdleOnlyIfNothingRunnable ==
    [][pc = "sum" /\ pc' = "unlocked" => runnable = {}]_vars

=============================================================================
