---------------------------- MODULE MCScheduler -----------------------------
(***************************************************************************)
(* The lottery, the generator of its numbers and the schedorder report,    *)
(* each on a small instance of its own: part says which of them a          *)
(* behaviour is of, and the others keep their initial state.               *)
(*                                                                         *)
(* In a behaviour of rand.c every call has the same argument, asked.  The  *)
(* calls step through the loop, enough of them for start_state to wrap     *)
(* around; with the argument PeriodLimit a step is a whole call, so that a *)
(* period of 65535 calls can be explored.  drawn counts how often each     *)
(* number was returned.                                                    *)
(***************************************************************************)
EXTENDS Lottery, TLC

CONSTANTS Cpu, NoCpu, Pid, NoPid, Booted, MaxDispatches,
          Limits, PeriodLimit

ASSUME OrderConstants == NoCpu \notin Cpu /\ NoPid \notin Pid

VARIABLES part,
  ptable, lock, startflag, pid, ticks, printed, opc, proc, flag, dispatches, recorded,
  start_state, lfsr, iter, bound, result, gpc, asked, calls, drawn, seed

Order == INSTANCE SchedOrder WITH pc <- opc
ordervars == <<ptable, lock, startflag, pid, ticks, printed, opc, proc, flag, dispatches, recorded>>

Gen == INSTANCE Rand WITH i <- iter, limit <- bound, pc <- gpc

(* total_tickets is positive when it is drawn from, and converted to ushort. *)
ASSUME LimitsFit == Limits \subseteq 1..(Gen!UshortMod - 1)

randvars == <<start_state, lfsr, iter, bound, result, gpc, asked, calls, drawn, seed>>

-----------------------------------------------------------------------------
(* start_state has this many different non-zero values: a period of calls. *)
Period == Gen!UshortMod - 1

(* Bound on the number of calls. *)
MaxCalls ==
  CASE asked = PeriodLimit -> Period
    [] asked = Period      -> 1
    [] OTHER               -> Gen!UshortMod - Gen!START_STATE + 20

RandInit ==
  /\ Gen!Init
  /\ asked \in Limits /\ (part # "rand" => asked = PeriodLimit)
  /\ calls = 0 /\ drawn = [t \in 0..(PeriodLimit - 1) |-> 0] /\ seed = Gen!START_STATE

RandCall ==
  /\ calls < MaxCalls /\ asked # PeriodLimit
  /\ Gen!Call(asked)
  /\ calls' = calls + 1 /\ seed' = lfsr'
  /\ UNCHANGED <<asked, drawn>>

RandIterate == Gen!Iterate /\ UNCHANGED <<asked, calls, drawn, seed>>

RandReturn == Gen!Return /\ UNCHANGED <<asked, calls, drawn, seed>>

(* n shifts of register reg. *)
ShiftTimes(reg, n) ==
  LET f[k \in 0..n] == IF k = 0 THEN reg ELSE Gen!Shift(f[k - 1])
  IN  f[n]

(* Call, its iterations and Return in one step. *)
WholeCall ==
  /\ calls < MaxCalls /\ asked = PeriodLimit
  /\ start_state' = Gen!NextStart(start_state)
  /\ lfsr' = ShiftTimes(Gen!Seed(start_state), asked)
  /\ iter' = asked /\ bound' = asked
  /\ result' = lfsr' % asked
  /\ calls' = calls + 1 /\ seed' = Gen!Seed(start_state)
  /\ drawn' = [drawn EXCEPT ![result'] = @ + 1]
  /\ UNCHANGED <<asked, gpc>>

RandDone == calls = MaxCalls /\ gpc = "idle" /\ UNCHANGED randvars

-----------------------------------------------------------------------------
PartsInit ==
  /\ part \in {"lottery", "order", "rand"}
  /\ Init /\ (part # "lottery" => \A s \in Slots : tickets[s] = 1)
  /\ Order!Init /\ RandInit

LotteryNext == part = "lottery" /\ Next /\ UNCHANGED <<part, ordervars, randvars>>
OrderNext == part = "order" /\ Order!Next /\ UNCHANGED <<part, vars, randvars>>
RandNext ==
  /\ part = "rand" /\ (RandCall \/ RandIterate \/ RandReturn \/ WholeCall \/ RandDone)
  /\ UNCHANGED <<part, vars, ordervars>>

PartsSpec ==
  /\ PartsInit
  /\ [][LotteryNext \/ OrderNext \/ RandNext]_<<part, vars, ordervars, randvars>>

-----------------------------------------------------------------------------
(* The report names every dispatch while the flag was on (SchedOrder). *)
ReportIsExact == part = "order" => Order!ReportIsExact

(* The shift register is never zero (Rand). *)
NonzeroRegister == part = "rand" => Gen!NonzeroRegister

(***************************************************************************)
(* Over one period of calls with the same limit every number below it is   *)
(* returned equally often, up to one: no ticket is favoured or starved by  *)
(* the generator (README.md: the process with more tickets gets more       *)
(* ticks).  The period is of whole calls, each the closed form of the loop *)
(* of rand.c: the do-while of the calls that step through it shifts        *)
(* exactly limit times (compared for the limits that are cheap).           *)
(***************************************************************************)
EvenOverPeriod ==
  /\ (calls > 0 /\ gpc = "idle" /\ asked # Period) => result = ShiftTimes(seed, bound) % bound
  /\ calls = Period =>
      \A t \in DOMAIN drawn :
          drawn[t] \in {Period \div PeriodLimit, (Period \div PeriodLimit) + 1}

OrderSymmetry == Permutations(Pid)
=============================================================================
