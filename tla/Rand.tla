-------------------------------- MODULE Rand --------------------------------
(***************************************************************************)
(* generate_random_number() of rand.c: the 16-bit linear feedback shift    *)
(* register that draws the lottery's ticket number.                        *)
(*                                                                         *)
(* scheduler() calls it with ptable.lock held, so calls never overlap and  *)
(* the static start_state needs no lock of its own.  One action per call,  *)
(* per iteration of the do-while loop and per return.                      *)
(***************************************************************************)
EXTENDS Integers

CONSTANTS
    Limits      \* the arguments scheduler() passes (total_tickets as ushort)

(***************************************************************************)
(* ushort is 16 bits wide (types.h); every arithmetic result is stored     *)
(* into a ushort and so taken modulo 2^16.                                 *)
(***************************************************************************)
UshortMod == 65536

START_STATE == 44257            \* 0xACE1

VARIABLES
    start_state,    \* the static variable, carried from call to call
    lfsr,           \* the shift register of the current call
    i,              \* iterations done in the current call
    limit,          \* the argument of the current call
    result,         \* the value last returned
    pc              \* "idle": no call in progress, "loop": in the do-while

vars == <<start_state, lfsr, i, limit, result, pc>>

-----------------------------------------------------------------------------

(* Operators named Bad... are faulty variants of the one that follows them; *)
(* the properties at the end tell them from the code.                      *)
(***************************************************************************)
(* One shift.  bit is the XOR of four right shifts of lfsr, but only its   *)
(* lowest bit survives "bit << 15" in 16 bits: the parity of the register  *)
(* bits 0, 2, 3 and 5.                                                     *)
(***************************************************************************)
TapBit(r) == (r + (r \div 4) + (r \div 8) + (r \div 32)) % 2

Shift(r) == (r \div 2) + 32768 * TapBit(r)

(***************************************************************************)
(* The register's content before a shift, from its content after it: the   *)
(* reference that Shift is checked against.                                *)
(***************************************************************************)
Unshift(r) ==
    LET high == 2 * (r % 32768)
    IN  high + (((r \div 32768) + (high \div 4) + (high \div 8) + (high \div 32)) % 2)

BadSeed(s) == s                                             \* no test for zero

(***************************************************************************)
(* The start state a call loads: zero is bumped to one.                    *)
(***************************************************************************)
Seed(s) == IF s = 0 THEN 1 ELSE s

BadNextStart(s) == (Seed(s) + 2) % UshortMod

(* The start state a call leaves for the next one. *)
NextStart(s) == (Seed(s) + 1) % UshortMod

-----------------------------------------------------------------------------

Init ==
    /\ start_state = START_STATE
    /\ lfsr = START_STATE
    /\ i = 0
    /\ limit = 1
    /\ result = 0
    /\ pc = "idle"

Call(n) ==
    /\ pc = "idle"
    /\ limit' = n
    /\ lfsr' = Seed(start_state)
    /\ start_state' = NextStart(start_state)
    /\ i' = 0
    /\ pc' = "loop"
    /\ UNCHANGED result

(***************************************************************************)
(* The loop body runs at least once; the condition is tested after it.     *)
(***************************************************************************)
Iterate ==
    /\ pc = "loop"
    /\ i = 0 \/ i < limit
    /\ lfsr' = Shift(lfsr)
    /\ i' = (i + 1) % UshortMod
    /\ UNCHANGED <<start_state, limit, result, pc>>

Return ==
    /\ pc = "loop"
    /\ i # 0 /\ i >= limit
    /\ result' = lfsr % limit
    /\ pc' = "idle"
    /\ UNCHANGED <<start_state, lfsr, i, limit>>

Next ==
    \/ \E n \in Limits : Call(n)
    \/ Iterate
    \/ Return

Spec == Init /\ [][Next]_vars

-----------------------------------------------------------------------------

Ushort == 0..(UshortMod - 1)

TypeOK ==
    /\ start_state \in Ushort
    /\ lfsr \in Ushort
    /\ i \in Ushort
    /\ limit \in Ushort \ {0}
    /\ result \in Ushort
    /\ pc \in {"idle", "loop"}

(***************************************************************************)
(* The register is never zero, whatever start_state has wrapped around to: *)
(* a zero register shifts to zero for ever and would always draw ticket 0, *)
(* that is the first RUNNABLE slot ("Only non-zero values are acceptable", *)
(* rand.c:20).                                                             *)
(***************************************************************************)
NonzeroRegister == lfsr # 0

(***************************************************************************)
(* A returned number is below the limit of its call: scheduler()'s second  *)
(* loop relies on ticket_no < total_tickets to find a winner.              *)
(***************************************************************************)
ResultInRange == pc = "idle" => result < limit

(***************************************************************************)
(* The feedback keeps every bit of information: the shift can be undone    *)
(* from its result, so different start states never give the same draw.    *)
(***************************************************************************)
ShiftInvertible == Unshift(Shift(lfsr)) = lfsr

=============================================================================
