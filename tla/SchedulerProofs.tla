-------------------------- MODULE SchedulerProofs --------------------------
(***************************************************************************)
(* The lottery gives every process exactly the numbers it has tickets for  *)
(* and always finds the winner, for every size of the process table and    *)
(* every ticket assignment within the cap.  The report of schedorder names *)
(* every dispatch while the flag was on, for any number of CPUs and        *)
(* processes.  The generator stays within its 16 bits and never gets stuck *)
(* at zero.                                                                *)
(*                                                                         *)
(* The first argument compares the two loops: both add up the tickets of   *)
(* the same RUNNABLE slots in the same order, so that each is at a prefix  *)
(* sum of the same table; the second one reaches the total of the first    *)
(* unless it stops before, and the number drawn is below that total.       *)
(***************************************************************************)
EXTENDS MCScheduler, Sequences, WellFoundedInduction, TLAPS

(* Every nonempty set of natural numbers has a least element: the form in  *)
(* which induction is used below.                                          *)
LEMMA LeastNumber ==
  ASSUME NEW T, T \subseteq Nat, T # {}
  PROVE  \E x \in T : \A y \in T : x <= y
<1>1. PICK x \in T : \A y \in T : ~ (<<y, x>> \in OpToRel(<, Nat))
  BY Zenon, NatLessThanWellFounded, WFMin
<1>2. \A y \in T : <<y, x>> \in OpToRel(<, Nat) <=> y < x
  BY DEF OpToRel
<1>3. \A y \in T : ~ (y < x)
  BY Zenon, <1>1, <1>2
<1> QED
  BY <1>3

(* Running sums of wt over the first n places. *)
RunningSums(a, wt, N, n) ==
  /\ a \in [0..N -> Nat] /\ a[0] = 0
  /\ \A k \in 1..n : a[k] = a[k - 1] + wt[k]

LEMMA RunningSumsExist ==
  ASSUME NEW N \in Nat, NEW wt \in [1..N -> Nat]
  PROVE  \E a : RunningSums(a, wt, N, N)
<1> DEFINE T == {n \in 0..N : ~ \E a : RunningSums(a, wt, N, n)}
<1>0. N \in 0..N
  OBVIOUS
<1>1. SUFFICES ASSUME T # {} PROVE FALSE
  BY Zenon, <1>0
<1>2. PICK n \in T : \A y \in T : n <= y
  <2>1. T \subseteq Nat
    OBVIOUS
  <2> HIDE DEF T
  <2> QED
    BY Zenon, <1>1, <2>1, LeastNumber
<1>3. n \in 0..N /\ ~ \E a : RunningSums(a, wt, N, n)
  OBVIOUS
<1>4. n # 0
  <2> DEFINE z == [k \in 0..N |-> 0]
  <2>1. RunningSums(z, wt, N, 0)
    BY DEF RunningSums
  <2> QED
    BY Zenon, <1>3, <2>1
<1>5. PICK a : RunningSums(a, wt, N, n - 1)
  <2>1. n - 1 \in 0..N /\ ~ (n <= n - 1)
    BY <1>3, <1>4
  <2> QED
    BY Zenon, <1>2, <2>1
<1> DEFINE b == [a EXCEPT ![n] = a[n - 1] + wt[n]]
<1>6. n \in 1..N /\ n - 1 \in 0..N /\ wt[n] \in Nat
  BY <1>3, <1>4
<1>7. b \in [0..N -> Nat] /\ b[0] = 0 /\ b[n] = a[n - 1] + wt[n]
      /\ \A k \in 0..(n - 1) : b[k] = a[k]
  BY <1>5, <1>6 DEF RunningSums
<1>8. \A k \in 1..n : b[k] = b[k - 1] + wt[k]
  <2> SUFFICES ASSUME NEW k \in 1..n PROVE b[k] = b[k - 1] + wt[k]
    OBVIOUS
  <2> HIDE DEF b
  <2>1. CASE k = n
    BY <1>6, <1>7, <2>1
  <2>2. CASE k < n
    <3>1. k \in 1..(n - 1) /\ k \in 0..(n - 1) /\ k - 1 \in 0..(n - 1)
      BY <1>6, <2>2
    <3> QED
      BY <1>5, <1>7, <3>1 DEF RunningSums
  <2> QED
    BY <1>6, <2>1, <2>2
<1>9. RunningSums(b, wt, N, n)
  BY <1>7, <1>8 DEF RunningSums
<1> QED
  BY Zenon, <1>3, <1>9

LEMMA PrefixSumsDef ==
  ASSUME NEW N \in Nat, NEW wt \in [1..N -> Nat]
  PROVE  RunningSums(PrefixSums(wt, N), wt, N, N)
<1> DEFINE Eqn(f) == f = [q \in 0..N |-> IF q = 0 THEN 0 ELSE f[q - 1] + wt[q]]
<1>1. PICK a : RunningSums(a, wt, N, N)
  BY RunningSumsExist
<1>2. Eqn(a)
  BY <1>1 DEF RunningSums
<1>3. PrefixSums(wt, N) = CHOOSE f : Eqn(f)
  BY DEF PrefixSums
<1>4. Eqn(PrefixSums(wt, N))
  BY <1>2, <1>3, Zenon
<1> DEFINE f == PrefixSums(wt, N)
           T == {k \in 0..N : f[k] # a[k]}
<1>5. T = {}
  <2>1. SUFFICES ASSUME T # {} PROVE FALSE
    OBVIOUS
  <2>2. PICK n \in T : \A y \in T : n <= y
    <3>1. T \subseteq Nat
      OBVIOUS
    <3> HIDE DEF T
    <3> QED
      BY Zenon, <2>1, <3>1, LeastNumber
  <2>3. f = [q \in 0..N |-> IF q = 0 THEN 0 ELSE f[q - 1] + wt[q]]
    BY Zenon, <1>4
  <2> HIDE DEF f
  <2>4. n \in 1..N /\ f[n] # a[n] /\ f[n] = f[n - 1] + wt[n] /\ n - 1 \in 0..N
    BY <1>1, <2>3 DEF RunningSums
  <2>5. f[n - 1] = a[n - 1]
    BY <2>2, <2>4
  <2> QED
    BY <1>1, <2>4, <2>5 DEF RunningSums
<1>6. f = a
  <2>1. f = [q \in 0..N |-> IF q = 0 THEN 0 ELSE f[q - 1] + wt[q]]
    BY Zenon, <1>4
  <2>2. \A k \in 0..N : f[k] = a[k]
    BY <1>5
  <2> HIDE DEF f
  <2>3. DOMAIN f = 0..N /\ f = [k \in 0..N |-> f[k]] /\ a = [k \in 0..N |-> a[k]]
    BY <1>1, <2>1 DEF RunningSums
  <2> QED
    BY Zenon, <2>2, <2>3
<1> QED
  BY <1>1, <1>6

-----------------------------------------------------------------------------
(* The loops of scheduler().                                               *)

LotteryInv ==
  /\ TypeOK
  /\ pc = "unlocked" => total_tickets = 0 /\ tickets_passed = 0
  /\ pc = "sum" => tickets_passed = 0 /\ total_tickets = Sum[p - 1]
  /\ pc \in {"draw", "find", "switch"} => total_tickets > 0 /\ total_tickets = Sum[NPROC]
  /\ pc = "draw" => tickets_passed = 0
  /\ pc = "find" => /\ p <= NPROC /\ tickets_passed = Sum[p - 1]
                    /\ tickets_passed <= ticket_no /\ ticket_no < total_tickets
  /\ pc = "switch" => p \in runnable /\ ticket_no \in Winning(p)
  /\ NoDivideError

(* Multiples of the cap, in the form the steps below need. *)
LEMMA CapMultiples ==
  ASSUME NEW m \in Nat, NEW n \in Nat, NEW k \in 0..n
  PROVE  /\ k * m \in Nat /\ n * m \in Nat /\ k * m <= n * m
         /\ (k + 1) * m = k * m + m
<1>1. PICK d \in Nat : n = k + d
  BY SMT
<1>2. n * m = k * m + d * m /\ d * m >= 0 /\ d * m \in Nat /\ k * m \in Nat
  BY <1>1, SMT
<1> QED
  BY <1>2, SMT

(* Prefix sums of a table within the cap grow by at most the cap. *)
LEMMA SumsWithinCap ==
  ASSUME NEW wt \in [Slots -> 0..MAX_TICKETS_PER_PROCESS], NEW k \in 0..NPROC
  PROVE  PrefixSums(wt, NPROC)[k] <= k * MAX_TICKETS_PER_PROCESS
<1> USE LotteryConstants
<1> DEFINE m == MAX_TICKETS_PER_PROCESS
           a == PrefixSums(wt, NPROC)
           T == {j \in 0..NPROC : ~ (a[j] <= j * m)}
<1>0. RunningSums(a, wt, NPROC, NPROC) /\ m \in Nat
  BY PrefixSumsDef DEF Slots
<1> HIDE DEF a
<1>1. SUFFICES ASSUME T # {} PROVE FALSE
  BY DEF a
<1>2. PICK n \in T : \A y \in T : n <= y
  <2>1. T \subseteq Nat
    OBVIOUS
  <2> HIDE DEF T
  <2> QED
    BY Zenon, <1>1, <2>1, LeastNumber
<1>3. n \in 1..NPROC /\ n - 1 \in 0..NPROC /\ ~ (a[n] <= n * m)
  BY <1>0 DEF RunningSums
<1>4. a[n - 1] <= (n - 1) * m
  BY <1>2, <1>3
<1>5. n * m = (n - 1) * m + m /\ (n - 1) * m \in Nat
  <2>1. ((n - 1) + 1) * m = (n - 1) * m + m /\ (n - 1) * m \in Nat
    BY <1>0, <1>3, CapMultiples
  <2> QED
    BY <1>3, <2>1
<1>6. a[n] = a[n - 1] + wt[n] /\ wt[n] \in Nat /\ wt[n] <= m /\ a[n - 1] \in Nat
  BY <1>0, <1>3 DEF RunningSums, Slots
<1> HIDE DEF m
<1> QED
  BY <1>0, <1>3, <1>4, <1>5, <1>6 DEF m

(* Prefix sums of natural numbers do not decrease. *)
LEMMA SumsGrow ==
  ASSUME NEW N \in Nat, NEW wt \in [1..N -> Nat], NEW j \in 0..N, NEW k \in j..N
  PROVE  PrefixSums(wt, N)[j] <= PrefixSums(wt, N)[k]
<1> DEFINE a == PrefixSums(wt, N)
           T == {i \in j..N : ~ (a[j] <= a[i])}
<1>0. RunningSums(a, wt, N, N)
  BY PrefixSumsDef
<1> HIDE DEF a
<1>1. SUFFICES ASSUME T # {} PROVE FALSE
  BY DEF a
<1>2. PICK n \in T : \A y \in T : n <= y
  <2>1. T \subseteq Nat
    OBVIOUS
  <2> HIDE DEF T
  <2> QED
    BY Zenon, <1>1, <2>1, LeastNumber
<1>3. n \in j..N /\ n # j /\ n \in 1..N /\ n - 1 \in j..N /\ ~ (a[j] <= a[n])
  BY SMTT(20), ZenonT(20), <1>0 DEF RunningSums
<1>4. a[j] <= a[n - 1]
  BY <1>2, <1>3
<1>5. a[n] = a[n - 1] + wt[n] /\ wt[n] \in Nat /\ a[n - 1] \in Nat /\ a[j] \in Nat
  BY <1>0, <1>3 DEF RunningSums, Slots
<1> QED
  BY <1>3, <1>4, <1>5

(* The table of a well-typed state within the cap, and its sums. *)
LEMMA SumFacts ==
  ASSUME CapFits, TypeOK
  PROVE  /\ Weights \in [Slots -> Nat]
         /\ \A q \in Slots : /\ q \in runnable => Weights[q] = tickets[q] /\ Weights[q] > 0
                             /\ q \notin runnable => Weights[q] = 0
         /\ Sum \in [0..NPROC -> Nat] /\ Sum[0] = 0
         /\ \A q \in Slots : Sum[q] = Sum[q - 1] + Weights[q]
         /\ \A k \in 0..NPROC : Sum[k] < LimitMod /\ Sum[k] <= IntMax
         /\ \A j \in 0..NPROC, k \in 0..NPROC : j <= k => Sum[j] <= Sum[k]
<1> USE LotteryConstants
<1> DEFINE m == MAX_TICKETS_PER_PROCESS
<1>1. \A q \in Slots : tickets[q] \in Nat /\ tickets[q] > 0 /\ tickets[q] <= m
  <2> SUFFICES ASSUME NEW q \in Slots PROVE tickets[q] \in Nat /\ tickets[q] > 0 /\ tickets[q] <= m
    OBVIOUS
  <2>1. tickets[q] \in TicketValues
    BY DEF TypeOK
  <2>2. tickets[q] \in Nat \ {0} /\ tickets[q] <= m
    BY Zenon, <2>1 DEF CapFits
  <2> QED
    BY <2>2
<1>2. Weights \in [Slots -> Nat] /\ Weights \in [Slots -> 0..m]
  BY <1>1 DEF Weights
<1>3. \A q \in Slots : /\ q \in runnable => Weights[q] = tickets[q] /\ Weights[q] > 0
                       /\ q \notin runnable => Weights[q] = 0
  BY <1>1 DEF Weights
<1>4. /\ Sum \in [0..NPROC -> Nat] /\ Sum[0] = 0
      /\ \A q \in Slots : Sum[q] = Sum[q - 1] + Weights[q]
  BY Zenon, <1>2, PrefixSumsDef DEF Sum, RunningSums, Slots
<1>5. \A k \in 0..NPROC : Sum[k] <= k * m
  BY <1>2, SumsWithinCap DEF Sum
<1>6. \A k \in 0..NPROC : Sum[k] < LimitMod /\ Sum[k] <= IntMax
  <2> SUFFICES ASSUME NEW k \in 0..NPROC PROVE Sum[k] < LimitMod /\ Sum[k] <= IntMax
    OBVIOUS
  <2>1. k * m <= NPROC * m /\ k * m \in Nat /\ NPROC * m \in Nat
    BY CapMultiples
  <2>2. NPROC * m < LimitMod
    BY DEF CapFits
  <2>3. Sum[k] \in Nat /\ Sum[k] <= k * m
    BY <1>4, <1>5
  <2> HIDE DEF m
  <2> QED
    BY <2>1, <2>2, <2>3
<1>7. \A j \in 0..NPROC, k \in 0..NPROC : j <= k => Sum[j] <= Sum[k]
  <2> SUFFICES ASSUME NEW j \in 0..NPROC, NEW k \in 0..NPROC, j <= k PROVE Sum[j] <= Sum[k]
    OBVIOUS
  <2>1. k \in j..NPROC
    OBVIOUS
  <2> QED
    BY <1>2, <2>1, SumsGrow DEF Sum, Slots
<1> QED
  BY <1>2, <1>3, <1>4, <1>6, <1>7

-----------------------------------------------------------------------------
(* The inductive invariant.                                                *)

LEMMA LotteryInit == Init => LotteryInv
BY LotteryConstants
   DEF Init, LotteryInv, TypeOK, NoDivideError, Slots

(* A step that leaves the table alone keeps the sums. *)
LEMMA SumUnchanged ==
  ASSUME UNCHANGED table
  PROVE  Weights' = Weights /\ Sum' = Sum /\ \A q : Winning(q)' = Winning(q)
<1>1. Weights' = Weights
  BY DEF Weights, table
<1> QED
  BY <1>1 DEF Sum, Winning

LEMMA LotteryStep == CapFits /\ LotteryInv /\ [Next]_vars => LotteryInv'
<1> SUFFICES ASSUME CapFits, LotteryInv, [Next]_vars
             PROVE  LotteryInv'
  OBVIOUS
<1> USE LotteryConstants
<1>0. TypeOK /\ NoDivideError
  BY DEF LotteryInv
<1>s. /\ Weights \in [Slots -> Nat]
      /\ \A q \in Slots : /\ q \in runnable => Weights[q] = tickets[q] /\ Weights[q] > 0
                          /\ q \notin runnable => Weights[q] = 0
      /\ Sum \in [0..NPROC -> Nat] /\ Sum[0] = 0
      /\ \A q \in Slots : Sum[q] = Sum[q - 1] + Weights[q]
      /\ \A k \in 0..NPROC : Sum[k] < LimitMod /\ Sum[k] <= IntMax
  BY <1>0, SumFacts
<1>a. \A q \in Slots : (IF q \in runnable THEN AddInt(Sum[q - 1], tickets[q]) ELSE Sum[q - 1]) = Sum[q]
  <2> SUFFICES ASSUME NEW q \in Slots
               PROVE  (IF q \in runnable THEN AddInt(Sum[q - 1], tickets[q]) ELSE Sum[q - 1]) = Sum[q]
    OBVIOUS
  <2>1. /\ Sum[q - 1] \in Nat /\ Sum[q] <= IntMax /\ Sum[q] = Sum[q - 1] + Weights[q]
        /\ Weights[q] \in Nat
        /\ q \in runnable => tickets[q] = Weights[q]
        /\ q \notin runnable => Weights[q] = 0
    BY <1>s DEF Slots
  <2> QED
    BY <2>1 DEF AddInt
<1>1. CASE Environment
  <2>1. TypeOK'
    BY Zenon, <1>0, <1>1 DEF Environment, TypeOK, locals, Slots
  <2> QED
    BY <1>1, <2>1 DEF Environment, LotteryInv, NoDivideError, locals
<1>2. CASE Acquire
  <2>1. TypeOK'
    BY <1>0, <1>2 DEF Acquire, TypeOK, table
  <2>2. total_tickets' = 0 /\ tickets_passed' = 0 /\ p' = 1 /\ pc' = "sum" /\ Sum' = Sum
    BY <1>2, SumUnchanged DEF Acquire, LotteryInv
  <2> QED
    BY <1>s, <2>1, <2>2 DEF LotteryInv, NoDivideError
<1>3. CASE SumSlot
  <2>1. p \in Slots /\ pc = "sum" /\ total_tickets = Sum[p - 1] /\ tickets_passed = 0
    BY <1>0, <1>3 DEF SumSlot, InTable, TypeOK, LotteryInv, Slots
  <2>2. total_tickets' = Sum[p]
    BY <1>a, <1>3, <2>1, Zenon DEF SumSlot
  <2>3. p' = p + 1 /\ p' - 1 = p /\ pc' = "sum" /\ Sum' = Sum /\ tickets_passed' = 0
    BY <1>3, <2>1, SumUnchanged DEF SumSlot, InTable, Slots
  <2>4. TypeOK'
    <3>1. total_tickets' \in -(IntMax + 1)..IntMax
      BY <1>s, <2>1, <2>2 DEF Slots
    <3> QED
      BY <1>0, <1>3, <2>1, <3>1 DEF SumSlot, InTable, TypeOK, table, Slots
  <2> QED
    BY <2>2, <2>3, <2>4 DEF LotteryInv, NoDivideError
<1>4. CASE SumDone
  <2>1. p - 1 = NPROC /\ total_tickets = Sum[NPROC] /\ tickets_passed = 0 /\ total_tickets \in Nat
    BY <1>0, <1>s, <1>4 DEF SumDone, InTable, TypeOK, LotteryInv
  <2>2. TypeOK'
    BY <1>0, <1>4 DEF SumDone, InTable, TicketsFound, TypeOK, table, locals
  <2>3. Sum' = Sum
    BY <1>4, SumUnchanged DEF SumDone
  <2> QED
    BY <1>4, <2>1, <2>2, <2>3 DEF SumDone, TicketsFound, LotteryInv, NoDivideError, locals
<1>5. CASE Draw
  <2>1. /\ pc = "draw" /\ tickets_passed = 0 /\ total_tickets > 0 /\ total_tickets = Sum[NPROC]
        /\ total_tickets \in Nat /\ total_tickets < LimitMod
    BY <1>s, <1>5 DEF Draw, LotteryInv
  <2>2. total_tickets % LimitMod = total_tickets
    BY <2>1
  <2>3. /\ ticket_no' \in 0..(total_tickets - 1) /\ p' = 1 /\ pc' = "find"
        /\ UNCHANGED <<table, total_tickets, tickets_passed>>
    BY <1>5, <2>1, <2>2 DEF Draw, Drawn
  <2>4. TypeOK'
    BY <1>0, <2>1, <2>3 DEF TypeOK, table
  <2>5. Sum' = Sum
    BY <2>3, SumUnchanged
  <2> QED
    BY <1>s, <2>1, <2>3, <2>4, <2>5 DEF LotteryInv, NoDivideError
<1>6. CASE FindSlot
  <2>1. /\ pc = "find" /\ p \in Slots /\ tickets_passed = Sum[p - 1]
        /\ tickets_passed <= ticket_no /\ ticket_no < total_tickets
        /\ total_tickets > 0 /\ total_tickets = Sum[NPROC] /\ ticket_no \in Nat
    BY <1>0, <1>6 DEF FindSlot, LotteryInv, TypeOK, Slots
  <2>2. tickets_passed' = Sum[p] /\ Sum[p] \in Nat /\ Sum[p - 1] \in Nat
    <3>1. tickets_passed' = Sum[p]
      BY <1>a, <1>6, <2>1, Zenon DEF FindSlot
    <3> QED
      BY <1>s, <2>1, <3>1 DEF Slots
  <2> DEFINE won == p \in runnable /\ Sum[p] > ticket_no
  <2>3. /\ p' = IF won THEN p ELSE p + 1
        /\ pc' = IF won \/ p = NPROC THEN "switch" ELSE "find"
        /\ UNCHANGED <<table, total_tickets, ticket_no>>
    BY <1>6, <2>2 DEF FindSlot, Wins
  <2>4. ~won => Sum[p] <= ticket_no /\ p # NPROC
    <3>1. p \notin runnable => Sum[p] = Sum[p - 1]
      BY <1>s, <2>1, <2>2
    <3> QED
      BY <2>1, <2>2, <3>1
  <2>5. won => ticket_no \in Winning(p)
    BY <2>1, <2>2 DEF Winning, Sum
  <2>6. TypeOK'
    <3>1. tickets_passed' \in -(IntMax + 1)..IntMax
      BY <1>s, <2>1, <2>2 DEF Slots
    <3>2. p' \in 1..(NPROC + 1)
      BY <2>1, <2>3, <2>4 DEF Slots
    <3> QED
      BY <1>0, <2>3, <3>1, <3>2 DEF TypeOK, table
  <2>7. Sum' = Sum /\ \A q : Winning(q)' = Winning(q)
    BY <2>3, SumUnchanged
  <2> HIDE DEF won
  <2>8. CASE won
    <3>1. p' = p /\ pc' = "switch" /\ p \in runnable'
      BY <2>3, <2>8 DEF won, table
    <3>2. (ticket_no \in Winning(p))'
      BY <2>3, <2>5, <2>7, <2>8, <3>1 DEF Winning, Sum
    <3> QED
      BY <2>1, <2>3, <2>6, <2>7, <3>1, <3>2 DEF LotteryInv, NoDivideError
  <2>9. CASE ~won
    <3>1. p' = p + 1 /\ p' - 1 = p /\ pc' = "find" /\ p' <= NPROC
      BY <2>1, <2>3, <2>4, <2>9 DEF Slots
    <3> QED
      BY <2>1, <2>2, <2>3, <2>4, <2>6, <2>7, <2>9, <3>1 DEF LotteryInv, NoDivideError
  <2> QED
    BY <2>8, <2>9
<1>7. CASE Dispatch
  BY <1>0, <1>7 DEF Dispatch, LotteryInv, TypeOK, NoDivideError, locals
<1>8. CASE SwitchedBack
  BY <1>0, <1>8 DEF SwitchedBack, LotteryInv, TypeOK, NoDivideError, table
<1>9. CASE UNCHANGED vars
  <2>1. UNCHANGED table /\ UNCHANGED locals /\ pc' = pc
    BY <1>9 DEF vars
  <2>2. Sum' = Sum /\ (ticket_no \in Winning(p))' = (ticket_no \in Winning(p))
    BY <2>1, SumUnchanged DEF locals, Winning, Sum
  <2> QED
    BY <1>0, <2>1, <2>2 DEF LotteryInv, TypeOK, NoDivideError, table, locals
<1> QED
  BY <1>1, <1>2, <1>3, <1>4, <1>5, <1>6, <1>7, <1>8, <1>9 DEF Next

(* The intervals of the RUNNABLE slots partition the numbers below the sum *)
(* of all.                                                                 *)
LEMMA IntervalsPartition ==
  ASSUME CapFits, TypeOK
  PROVE  /\ UNION {Winning(q) : q \in runnable} = 0..(Sum[NPROC] - 1)
         /\ \A q1, q2 \in runnable : q1 # q2 => Winning(q1) \cap Winning(q2) = {}
<1> USE LotteryConstants
<1>1. /\ \A q \in Slots : q \notin runnable => Weights[q] = 0
      /\ Sum \in [0..NPROC -> Nat] /\ Sum[0] = 0
      /\ \A q \in Slots : Sum[q] = Sum[q - 1] + Weights[q]
      /\ \A j \in 0..NPROC, k \in 0..NPROC : j <= k => Sum[j] <= Sum[k]
      /\ Weights \in [Slots -> Nat]
  BY SumFacts
<1>2. /\ runnable \subseteq Slots
      /\ \A q : Winning(q) = Sum[q - 1]..(Sum[q] - 1)
  BY DEF TypeOK, Winning, Sum
<1>3. ASSUME NEW q \in runnable, NEW t \in Winning(q) PROVE t \in 0..(Sum[NPROC] - 1)
  <2>1. q \in 0..NPROC /\ q - 1 \in 0..NPROC /\ q <= NPROC /\ NPROC \in 0..NPROC
    BY <1>2 DEF Slots
  <2>2. Sum[q] <= Sum[NPROC] /\ Sum[q - 1] \in Nat /\ Sum[q] \in Nat /\ Sum[NPROC] \in Nat
    BY <1>1, <2>1
  <2> QED
    BY <1>2, <1>3, <2>2
<1>4. ASSUME NEW t \in 0..(Sum[NPROC] - 1) PROVE \E q \in runnable : t \in Winning(q)
  <2> DEFINE T == {q \in 0..NPROC : Sum[q] > t}
  <2>1. T \subseteq Nat /\ NPROC \in T
    BY <1>1
  <2>2. PICK q \in T : \A y \in T : q <= y
    <3> HIDE DEF T
    <3> QED
      BY Zenon, <2>1, LeastNumber
  <2>3. q \in Slots /\ q - 1 \in 0..NPROC /\ Sum[q] > t
    BY <1>1 DEF Slots
  <2>4. ~ (Sum[q - 1] > t)
    BY <2>2, <2>3 DEF Slots
  <2>5. Sum[q - 1] \in Nat /\ Sum[q] \in Nat /\ Sum[q] = Sum[q - 1] + Weights[q]
    BY <1>1, <2>3 DEF Slots
  <2>6. q \in runnable
    BY <1>1, <2>3, <2>4, <2>5
  <2>7. t \in Winning(q)
    BY <1>2, <2>3, <2>4, <2>5
  <2> QED
    BY <2>6, <2>7
<1>5. ASSUME NEW q1 \in runnable, NEW q2 \in runnable, q1 < q2, NEW t \in Winning(q1) \cap Winning(q2)
      PROVE  FALSE
  <2>1. q1 \in 0..NPROC /\ q2 \in 0..NPROC /\ q1 - 1 \in 0..NPROC /\ q2 - 1 \in 0..NPROC /\ q1 <= q2 - 1
    BY <1>2, <1>5 DEF Slots
  <2>2. Sum[q1] <= Sum[q2 - 1] /\ Sum[q1] \in Nat /\ Sum[q2] \in Nat /\ Sum[q1 - 1] \in Nat /\ Sum[q2 - 1] \in Nat
    BY <1>1, <2>1
  <2>3. t \in Sum[q1 - 1]..(Sum[q1] - 1) /\ t \in Sum[q2 - 1]..(Sum[q2] - 1)
    BY Zenon, <1>2, <1>5
  <2> QED
    BY <2>2, <2>3
<1>6. \A q1, q2 \in runnable : q1 # q2 => q1 < q2 \/ q2 < q1
  BY <1>2 DEF Slots
<1>7. UNION {Winning(q) : q \in runnable} = 0..(Sum[NPROC] - 1)
  BY Zenon, <1>3, <1>4
<1> QED
  BY <1>5, <1>6, <1>7

(***************************************************************************)
(* With the cap of param.h respected, the slot dispatched is the one whose *)
(* tickets hold the number drawn, and every number below the total is the  *)
(* winning number of exactly one RUNNABLE slot: a process wins with as     *)
(* many of the total_tickets numbers as it has tickets.                    *)
(***************************************************************************)
THEOREM LotteryIsFair == ASSUME CapFits PROVE Spec => []WinnerHoldsTicket
<1>1. LotteryInv => WinnerHoldsTicket
  BY IntervalsPartition DEF LotteryInv, WinnerHoldsTicket
<1>2. LotteryInv /\ [Next]_vars => LotteryInv'
  BY LotteryStep
<1> QED
  BY <1>1, <1>2, LotteryInit, PTL DEF Spec

(***************************************************************************)
(* With the cap of param.h respected, the search for the winner ends on a  *)
(* RUNNABLE slot, whatever the size of the table and the number drawn.     *)
(***************************************************************************)
THEOREM SearchFindsWinner == ASSUME CapFits PROVE Spec => []WinnerRunnable
<1>1. LotteryInv => WinnerRunnable
  BY DEF LotteryInv, WinnerRunnable
<1>2. LotteryInv /\ [Next]_vars => LotteryInv'
  BY LotteryStep
<1> QED
  BY <1>1, <1>2, LotteryInit, PTL DEF Spec

(***************************************************************************)
(* With the cap respected, the ushort limit of the draw is never zero.     *)
(***************************************************************************)
THEOREM DrawNeverDividesByZero == ASSUME CapFits PROVE Spec => []NoDivideError
<1>1. LotteryInv => NoDivideError
  BY DEF LotteryInv
<1>2. LotteryInv /\ [Next]_vars => LotteryInv'
  BY LotteryStep
<1> QED
  BY <1>1, <1>2, LotteryInit, PTL DEF Spec

(***************************************************************************)
(* With the cap respected, a scheduling round stays idle only if no        *)
(* process is RUNNABLE.                                                    *)
(***************************************************************************)
THEOREM IdleMeansNothingRunnable == ASSUME CapFits PROVE Spec => IdleOnlyIfNothingRunnable
<1>1. LotteryInv /\ [Next]_vars => [pc = "sum" /\ pc' = "unlocked" => runnable = {}]_vars
  <2> SUFFICES ASSUME LotteryInv, Next, pc = "sum", pc' = "unlocked", NEW q \in runnable PROVE FALSE
    OBVIOUS
  <2>1. SumDone
    BY DEF Next, Environment, Acquire, SumSlot, InTable, Draw, Drawn, FindSlot, Wins, Dispatch, SwitchedBack
  <2>2. ~(Sum[NPROC] > 0) /\ TypeOK /\ q \in Slots
    BY <2>1, LotteryConstants DEF SumDone, InTable, TicketsFound, LotteryInv, TypeOK
  <2>3. /\ Weights[q] > 0 /\ Sum[q] = Sum[q - 1] + Weights[q] /\ Sum[q] <= Sum[NPROC]
        /\ Sum[q - 1] \in Nat /\ Sum[NPROC] \in Nat /\ Weights[q] \in Nat
    BY <2>2, SumFacts, LotteryConstants DEF Slots
  <2> QED
    BY <2>2, <2>3
<1>2. LotteryInv /\ [Next]_vars => LotteryInv'
  BY LotteryStep
<1> QED
  BY <1>1, <1>2, LotteryInit, PTL DEF Spec, IdleOnlyIfNothingRunnable

-----------------------------------------------------------------------------
(* The report of the scheduling order.                                     *)

(* Sums over tables that begin alike begin alike. *)
LEMMA PrefixesAgree ==
  ASSUME NEW N \in Nat, NEW M \in Nat, NEW m \in Nat, m <= N, m <= M,
         NEW wt \in [1..N -> Nat], NEW wu \in [1..M -> Nat],
         \A k \in 1..m : wt[k] = wu[k]
  PROVE  \A k \in 0..m : PrefixSums(wt, N)[k] = PrefixSums(wu, M)[k]
<1> DEFINE a == PrefixSums(wt, N)
           b == PrefixSums(wu, M)
           T == {k \in 0..m : a[k] # b[k]}
<1>0. RunningSums(a, wt, N, N) /\ RunningSums(b, wu, M, M)
  BY PrefixSumsDef
<1> HIDE DEF a, b
<1>1. SUFFICES ASSUME T # {} PROVE FALSE
  BY DEF a, b
<1>2. PICK n \in T : \A y \in T : n <= y
  <2>1. T \subseteq Nat
    OBVIOUS
  <2> HIDE DEF T
  <2> QED
    BY Zenon, <1>1, <2>1, LeastNumber
<1>3. n \in 1..m /\ n - 1 \in 0..m /\ n \in 1..N /\ n \in 1..M /\ a[n] # b[n]
  BY <1>0 DEF RunningSums
<1>4. a[n - 1] = b[n - 1]
  BY SMTT(20), ZenonT(20), <1>2, <1>3
<1>5. a[n] = a[n - 1] + wt[n] /\ b[n] = b[n - 1] + wu[n] /\ wt[n] = wu[n]
  BY <1>0, <1>3 DEF RunningSums
<1> QED
  BY <1>3, <1>4, <1>5

(* What ReportIsExact says of N runs and L dispatches. *)
Lengths(runs) == [n \in DOMAIN runs |-> runs[n][2]]

Exact(runs, N, rec, L) ==
  LET ends == PrefixSums(Lengths(runs), N)
  IN  /\ L = ends[N]
      /\ \A n \in 1..N : \A k \in ends[n - 1] + 1 .. ends[n] : rec[k] = runs[n][1]
      /\ \A n \in 1..(N - 1) : runs[n][1] # runs[n + 1][1]

LEMMA LengthsType ==
  ASSUME NEW N \in Nat, NEW runs \in [1..N -> Pid \X Nat]
  PROVE  Lengths(runs) \in [1..N -> Nat] /\ \A n \in 1..N : Lengths(runs)[n] = runs[n][2]
BY DEF Lengths

(* A dispatch of q after m runs that stay as they are: the last run, of    *)
(* length t, becomes one longer; t is 0 if the run is new.                 *)
RunStep(old, M, cur, m, q, t) ==
  /\ old \in [1..M -> Pid \X Nat] /\ cur \in [1..(m + 1) -> Pid \X Nat]
  /\ \A k \in 1..m : cur[k] = old[k]
  /\ (M = m /\ t = 0) \/ (M = m + 1 /\ old[m + 1] = <<q, t>>)
  /\ cur[m + 1] = <<q, t + 1>>
  /\ m > 0 => cur[m][1] # q

Appended(rec, L, q, rec2) == rec2[L + 1] = q /\ \A k \in 1..L : rec2[k] = rec[k]

LEMMA RunGrows ==
  ASSUME NEW m \in Nat, NEW M \in Nat, NEW t \in Nat, NEW L \in Nat, NEW q,
         NEW old, NEW cur, RunStep(old, M, cur, m, q, t),
         NEW rec, NEW rec2, Appended(rec, L, q, rec2),
         Exact(old, M, rec, L)
  PROVE  Exact(cur, m + 1, rec2, L + 1)
<1> DEFINE N == m + 1
<1>0. /\ N \in Nat /\ N - 1 = m /\ N \in 1..N /\ m \in 0..m /\ m \in 0..M
      /\ (M = m /\ t = 0) \/ M = N
      /\ N = m + 1
  BY DEF RunStep
<1>t. old \in [1..M -> Pid \X Nat] /\ cur \in [1..N -> Pid \X Nat]
  BY DEF RunStep
<1> HIDE DEF N
<1> DEFINE a == PrefixSums(Lengths(old), M)
           b == PrefixSums(Lengths(cur), N)
<1>1. /\ Lengths(old) \in [1..M -> Nat] /\ \A k \in 1..M : Lengths(old)[k] = old[k][2]
      /\ Lengths(cur) \in [1..N -> Nat] /\ \A k \in 1..N : Lengths(cur)[k] = cur[k][2]
  BY Zenon, <1>0, <1>t, LengthsType
<1>2. \A k \in 1..m : k \in 1..M /\ k \in 1..N /\ Lengths(old)[k] = Lengths(cur)[k]
  BY <1>0, <1>1 DEF RunStep
<1>3. \A k \in 0..m : a[k] = b[k]
  <2>1. m <= M /\ m <= N /\ \A k \in 1..m : Lengths(old)[k] = Lengths(cur)[k]
    BY <1>0, <1>2
  <2>2. Lengths(old) \in [1..M -> Nat] /\ Lengths(cur) \in [1..N -> Nat] /\ N \in Nat
    BY <1>0, <1>1
  <2> HIDE DEF a, b
  <2> DEFINE u == Lengths(old)
             v == Lengths(cur)
  <2>3. u \in [1..M -> Nat] /\ v \in [1..N -> Nat] /\ \A k \in 1..m : u[k] = v[k]
    BY Zenon, <2>1, <2>2
  <2> HIDE DEF u, v
  <2>4. \A k \in 0..m : PrefixSums(u, M)[k] = PrefixSums(v, N)[k]
    <3>1. N \in Nat /\ m <= M /\ m <= N
      BY <2>1, <2>2
    <3> QED
      BY ZenonT(60), <2>3, <3>1, PrefixesAgree
  <2> QED
    BY Zenon, <2>4 DEF a, b, u, v
<1>4. RunningSums(a, Lengths(old), M, M) /\ RunningSums(b, Lengths(cur), N, N)
  BY Zenon, <1>0, <1>1, PrefixSumsDef
<1>5. /\ L = a[M]
      /\ \A n \in 1..M : \A k \in a[n - 1] + 1 .. a[n] : rec[k] = old[n][1]
      /\ \A n \in 1..(M - 1) : old[n][1] # old[n + 1][1]
  BY DEF Exact
<1>g. \A n \in 1..m : a[n] <= a[m]
  <2> SUFFICES ASSUME NEW n \in 1..m PROVE a[n] <= a[m]
    OBVIOUS
  <2>1. n \in 0..M /\ m \in n..M
    BY <1>0
  <2> QED
    BY Zenon, <1>1, <2>1, SumsGrow
<1> HIDE DEF a, b
<1>6. /\ L = a[m] + t /\ b[N] = L + 1 /\ b[m] = a[m] /\ a[m] \in Nat
      /\ b \in [0..N -> Nat]
  <2>2. /\ a \in [0..M -> Nat] /\ b \in [0..N -> Nat]
        /\ b[N] = b[m] + Lengths(cur)[N]
        /\ M = N => a[N] = a[m] + Lengths(old)[N]
    BY <1>0, <1>4 DEF RunningSums
  <2>3. a[m] \in Nat /\ b[m] = a[m] /\ Lengths(cur)[N] = t + 1 /\ (M = N => Lengths(old)[N] = t)
    <3>1. cur[N] = <<q, t + 1>> /\ (M = N => old[N] = <<q, t>>)
      BY <1>0 DEF RunStep
    <3>2. a[m] \in Nat /\ b[m] = a[m]
      BY <1>0, <1>3, <2>2
    <3>3. Lengths(cur)[N] = cur[N][2] /\ (M = N => Lengths(old)[N] = old[N][2])
      BY Zenon, <1>0, <1>1
    <3> QED
      BY <3>1, <3>2, <3>3
  <2>4. L = a[M]
    BY <1>5
  <2> QED
    BY SMTT(20), ZenonT(20), <1>0, <2>2, <2>3, <2>4
<1>7. \A n \in 1..N : \A k \in b[n - 1] + 1 .. b[n] : rec2[k] = cur[n][1]
  <2> SUFFICES ASSUME NEW n \in 1..N, NEW k \in b[n - 1] + 1 .. b[n]
               PROVE  rec2[k] = cur[n][1]
    OBVIOUS
  <2>0. b[n - 1] \in Nat /\ b[n] \in Nat /\ k \in Nat /\ k >= 1 /\ k > b[n - 1] /\ k <= b[n]
    <3>1. n - 1 \in 0..N /\ n \in 0..N
      BY <1>0
    <3>2. b[n - 1] \in Nat /\ b[n] \in Nat
      BY <1>6, <3>1
    <3> QED
      BY <3>2
  <2>1. CASE n \in 1..m
    <3>1. n - 1 \in 0..m /\ n \in 0..m /\ a[n - 1] = b[n - 1] /\ a[n] = b[n] /\ n \in 1..M
      BY <1>0, <1>3, <2>1
    <3>2. rec[k] = old[n][1] /\ old[n] = cur[n] /\ a[n] <= a[m]
      BY Zenon, <1>5, <1>g, <2>1, <3>1 DEF RunStep
    <3>3. k \in 1..L
      BY <1>6, <2>0, <3>1, <3>2
    <3> QED
      BY <3>2, <3>3 DEF Appended
  <2>2. CASE n = N
    <3>1. n - 1 = m /\ cur[n][1] = q /\ k > b[m] /\ k <= L + 1
      <4>1. cur[N][1] = q
        BY <1>0 DEF RunStep
      <4> QED
        BY <1>0, <1>6, <2>0, <2>2, <4>1
    <3>2. CASE k = L + 1
      BY <3>1, <3>2 DEF Appended
    <3>3. CASE k # L + 1
      <4>1. k \in 1..L /\ t > 0 /\ k > a[m]
        BY <1>6, <2>0, <3>1, <3>3
      <4>2. M = N /\ N - 1 = m /\ old[N][1] = q
        BY <1>0, <4>1 DEF RunStep
      <4>3. k \in a[N - 1] + 1 .. a[N] /\ N \in 1..M
        <5>1. L = a[M]
          BY <1>5
        <5>2. a[N - 1] = a[m] /\ a[N] = L /\ L \in Nat /\ a[m] \in Nat
          BY <1>0, <1>6, <4>2, <5>1
        <5>3. N \in 1..M
          BY <1>0, <4>2
        <5> QED
          BY <4>1, <5>2, <5>3
      <4>4. rec[k] = old[N][1]
        BY Zenon, <1>5, <4>3
      <4> QED
        BY <3>1, <4>1, <4>2, <4>4 DEF Appended
    <3> QED
      BY <3>2, <3>3
  <2> QED
    BY <1>0, <2>1, <2>2
<1>8. \A n \in 1..(N - 1) : cur[n][1] # cur[n + 1][1]
  <2> SUFFICES ASSUME NEW n \in 1..m PROVE cur[n][1] # cur[n + 1][1]
    BY <1>0
  <2>1. CASE n = m
    BY <2>1 DEF RunStep
  <2>2. CASE n # m
    <3>1. n \in 1..(M - 1) /\ n + 1 \in 1..m
      BY <1>0, <2>2
    <3>2. old[n][1] # old[n + 1][1]
      BY Zenon, <1>5, <3>1
    <3> QED
      BY <3>1, <3>2 DEF RunStep
  <2> QED
    BY <2>1, <2>2
<1> QED
  BY Zenon, <1>6, <1>7, <1>8 DEF Exact, b, N

(* The lines printed and the run in progress. *)
Runs == IF pid = NoPid THEN printed ELSE Append(printed, <<pid, ticks>>)

(***************************************************************************)
(* proc_sched is written by the holder of ptable.lock, that is between the *)
(* choice and the switch; before the first record nothing is printed.      *)
(***************************************************************************)
OrderInv ==
  /\ opc \in [Cpu -> {"boot", "loop", "acquire", "test", "record", "release", "run", "set", "setRelease"}]
  /\ proc \in [Cpu -> Pid \cup {NoPid}]
  /\ \A c \in Cpu : opc[c] \in {"acquire", "test", "record", "release"} => ptable = c /\ proc[c] \in Pid
  /\ pid \in Pid \cup {NoPid} /\ ticks \in Nat
  /\ printed \in Seq(Pid \X Nat) /\ recorded \in Seq(Pid)
  /\ pid = NoPid => printed = <<>> /\ ticks = 0
  /\ Exact(Runs, Len(Runs), recorded, Len(recorded))

LEMMA ReportMeansExact ==
  Order!ReportIsExact <=> Exact(Runs, Len(Runs), recorded, Len(recorded))
<1>1. \A wt, n : Order!PrefixSums(wt, n) = PrefixSums(wt, n)
  BY Zenon DEF Order!PrefixSums, PrefixSums
<1> QED
  BY Zenon, <1>1 DEF Order!ReportIsExact, Order!Ends, Exact, Lengths, Runs

LEMMA SeqIsFunction == \A S : \A s \in Seq(S) : s \in [1..Len(s) -> S]
OBVIOUS

(* r is the sequence s with e after its last element. *)
Extended(S, s, e, r) ==
  /\ r \in Seq(S) /\ Len(r) = Len(s) + 1
  /\ r \in [1..(Len(s) + 1) -> S]
  /\ \A k \in 1..Len(s) : r[k] = s[k]
  /\ r[Len(s) + 1] = e

LEMMA AppendFacts ==
  ASSUME NEW S, NEW s, NEW e, s \in Seq(S), e \in S
  PROVE  Extended(S, s, e, Append(s, e))
<1> DEFINE r == Append(s, e)
<1>a. r \in Seq(S)
  OBVIOUS
<1>b. Len(r) = Len(s) + 1
  OBVIOUS
<1>1. r \in Seq(S) /\ Len(r) = Len(s) + 1
  BY <1>a, <1>b
<1>c. r \in [1..Len(r) -> S]
  BY Zenon, <1>a, SeqIsFunction
<1>2. r \in [1..(Len(s) + 1) -> S]
  BY <1>b, <1>c
<1>3. \A k \in 1..Len(s) : r[k] = s[k]
  OBVIOUS
<1>4. r[Len(s) + 1] = e
  OBVIOUS
<1> QED
  BY Zenon, <1>1, <1>2, <1>3, <1>4 DEF Extended

LEMMA OrderInit == Order!Init => OrderInv
<1> SUFFICES ASSUME Order!Init PROVE OrderInv
  OBVIOUS
<1>1. Runs = <<>> /\ Len(Runs) = 0 /\ Len(recorded) = 0
  BY DEF Order!Init, Runs
<1>2. PrefixSums(Lengths(Runs), 0)[0] = 0
  <2>1. Lengths(Runs) \in [1..0 -> Nat]
    BY <1>1 DEF Lengths
  <2> QED
    BY Zenon, <2>1, PrefixSumsDef DEF RunningSums
<1>3. Exact(Runs, Len(Runs), recorded, Len(recorded))
  BY <1>1, <1>2 DEF Exact
<1> QED
  BY <1>3 DEF Order!Init, OrderInv

LEMMA OrderStep == OrderInv /\ [Order!Next]_ordervars => OrderInv'
<1> SUFFICES ASSUME OrderInv, [Order!Next]_ordervars
             PROVE  OrderInv'
  OBVIOUS
<1> USE OrderConstants
<1>k. ASSUME UNCHANGED <<pid, ticks, printed, recorded>>
      PROVE  UNCHANGED <<Runs, pid, ticks, printed, recorded>>
  BY <1>k DEF Runs
<1>1. ASSUME NEW c \in Cpu, Order!Boot(c) PROVE OrderInv'
  BY <1>1, <1>k DEF Order!Boot, Order!Step, Order!proc_sched, OrderInv
<1>2. ASSUME NEW c \in Cpu, NEW q \in Pid, Order!Choose(c, q) PROVE OrderInv'
  BY <1>2, <1>k DEF Order!Choose, Order!Step, Order!proc_sched, OrderInv
<1>3. ASSUME NEW c \in Cpu, Order!RecordAcquire(c) PROVE OrderInv'
  BY <1>3, <1>k DEF Order!RecordAcquire, Order!Step, Order!proc_sched, OrderInv
<1>4. ASSUME NEW c \in Cpu, Order!Off(c) PROVE OrderInv'
  BY <1>4, <1>k DEF Order!Off, Order!Step, OrderInv
<1>5. ASSUME NEW c \in Cpu, Order!On(c) PROVE OrderInv'
  BY <1>5, <1>k DEF Order!On, Order!Step, Order!proc_sched, OrderInv
<1>6. ASSUME NEW c \in Cpu, Order!Record(c) PROVE OrderInv'
  <2> DEFINE q == proc[c]
  <2>1. /\ opc[c] = "record" /\ q \in Pid /\ ptable = c
        /\ opc' = [opc EXCEPT ![c] = "release"] /\ UNCHANGED <<ptable, proc>>
        /\ pid' = q /\ recorded' = Append(recorded, q)
        /\ printed' = IF pid \in {q, NoPid} THEN printed ELSE Append(printed, <<pid, ticks>>)
        /\ ticks' = IF pid \in {q, NoPid} THEN ticks + 1 ELSE 1
    BY <1>6 DEF Order!Record, Order!Step, Order!Prints, Order!Ticks, OrderInv
  <2>2. /\ pid \in Pid \cup {NoPid} /\ ticks \in Nat
        /\ printed \in Seq(Pid \X Nat) /\ recorded \in Seq(Pid)
        /\ pid = NoPid => printed = <<>> /\ ticks = 0
    BY DEF OrderInv
  <2> HIDE DEF q
  <2>3. /\ pid' \in Pid /\ ticks' \in Nat /\ pid' # NoPid
        /\ printed' \in Seq(Pid \X Nat) /\ recorded' \in Seq(Pid)
    <3>1. recorded' \in Seq(Pid)
      BY Zenon, <2>1, <2>2, AppendFacts DEF Extended
    <3>2. pid # NoPid => <<pid, ticks>> \in Pid \X Nat
      BY <2>2
    <3>3. pid # NoPid => Append(printed, <<pid, ticks>>) \in Seq(Pid \X Nat)
      BY Zenon, <2>2, <3>2, AppendFacts DEF Extended
    <3>4. printed' \in Seq(Pid \X Nat)
      BY Zenon, <2>1, <2>2, <3>3
    <3>5. pid' \in Pid /\ ticks' \in Nat /\ pid' # NoPid
      BY <2>1, <2>2
    <3> QED
      BY <3>1, <3>4, <3>5
  <2> DEFINE m == Len(printed')
             t == ticks' - 1
             L == Len(recorded)
  <2>4. m \in Nat /\ t \in Nat /\ L \in Nat /\ Len(Runs) \in Nat
    BY <2>1, <2>2, <2>3 DEF Runs
  <2>5. Appended(recorded, L, q, recorded') /\ Len(recorded') = L + 1
    BY <2>1, <2>2 DEF Appended
  <2>6. /\ Runs' = Append(printed', <<q, t + 1>>) /\ Len(Runs') = m + 1
        /\ Runs' \in [1..(m + 1) -> Pid \X Nat]
        /\ \A k \in 1..m : Runs'[k] = printed'[k]
        /\ Runs'[m + 1] = <<q, t + 1>>
    <3>1. Runs' = Append(printed', <<q, t + 1>>) /\ <<q, t + 1>> \in Pid \X Nat
      BY <2>1, <2>3 DEF Runs
    <3> DEFINE e == <<q, t + 1>>
    <3>2. e \in Pid \X Nat /\ Runs' = Append(printed', e) /\ printed' \in Seq(Pid \X Nat)
      BY <2>3, <3>1
    <3> HIDE DEF e
    <3>3. Extended(Pid \X Nat, printed', e, Runs')
      BY Zenon, <3>2, AppendFacts
    <3> QED
      BY Zenon, <3>2, <3>3 DEF e, Extended
  <2>7. RunStep(Runs, Len(Runs), Runs', m, q, t)
    <3>1. CASE pid = q
      <4>1. /\ printed' = printed /\ t = ticks /\ Runs = Append(printed, <<q, t>>)
            /\ <<q, t>> \in Pid \X Nat
        BY <2>1, <2>2, <3>1 DEF Runs
      <4> DEFINE e == <<q, t>>
      <4>e. e \in Pid \X Nat /\ Runs = Append(printed, e) /\ m = Len(printed) /\ e = <<q, t>>
        BY <4>1
      <4> HIDE DEF e, m, t
      <4>2. /\ Len(Runs) = m + 1 /\ Runs \in [1..(m + 1) -> Pid \X Nat]
            /\ Runs[m + 1] = <<q, t>> /\ \A k \in 1..m : Runs[k] = printed'[k]
        <5>1. Extended(Pid \X Nat, printed, e, Runs)
          BY Zenon, <2>2, <4>e, AppendFacts
        <5> QED
          BY Zenon, <4>1, <4>e, <5>1 DEF Extended
      <4>3. m > 0 => Runs[m][1] # q
        <5>1. Exact(Runs, Len(Runs), recorded, Len(recorded))
          BY DEF OrderInv
        <5>2. \A n \in 1..(Len(Runs) - 1) : Runs[n][1] # Runs[n + 1][1]
          BY Zenon, <5>1 DEF Exact
        <5>3. m > 0 => m \in 1..(Len(Runs) - 1)
          BY <2>4, <4>2
        <5> QED
          BY <4>2, <5>2, <5>3
      <4>4. m > 0 => m \in 1..m
        BY SMTT(20), ZenonT(20), <2>4
      <4> QED
        BY Zenon, <2>6, <4>2, <4>3, <4>4 DEF RunStep
    <3>2. CASE pid # q
      <4>1. printed' = Runs /\ t = 0 /\ Len(Runs) = m
        BY <2>1, <2>2, <3>2 DEF Runs
      <4>2. Runs \in [1..m -> Pid \X Nat]
        BY <2>3, <4>1
      <4>3. m > 0 => Runs[m][1] # q
        <5>1. CASE pid = NoPid
          BY <2>2, <4>1, <5>1 DEF Runs
        <5>2. CASE pid # NoPid
          <6>1. Runs = Append(printed, <<pid, ticks>>)
            BY <5>2 DEF Runs
          <6>2. Runs[m] = <<pid, ticks>>
            BY <2>2, <4>1, <6>1
          <6> QED
            BY <3>2, <6>2
        <5> QED
          BY <5>1, <5>2
      <4>4. m > 0 => m \in 1..m
        BY <2>4
      <4> QED
        BY Zenon, <2>6, <4>1, <4>2, <4>3, <4>4 DEF RunStep
    <3> QED
      BY <3>1, <3>2
  <2>8. Exact(Runs', m + 1, recorded', L + 1)
    <3>1. Exact(Runs, Len(Runs), recorded, L)
      BY DEF OrderInv
    <3> HIDE DEF m, t, L
    <3> QED
      BY <2>4, <2>5, <2>7, <3>1, RunGrows
  <2>9. Exact(Runs, Len(Runs), recorded, Len(recorded))'
    BY Zenon, <2>5, <2>6, <2>8
  <2>10. /\ opc' \in [Cpu -> {"boot", "loop", "acquire", "test", "record", "release", "run", "set", "setRelease"}]
         /\ proc' \in [Cpu -> Pid \cup {NoPid}]
         /\ \A d \in Cpu : opc'[d] \in {"acquire", "test", "record", "release"} => ptable' = d /\ proc'[d] \in Pid
    BY <2>1 DEF OrderInv, q
  <2> QED
    BY <2>3, <2>9, <2>10 DEF OrderInv
<1>7. ASSUME NEW c \in Cpu, Order!RecordRelease(c) PROVE OrderInv'
  BY <1>7, <1>k DEF Order!RecordRelease, Order!Step, Order!proc_sched, OrderInv
<1>8. ASSUME NEW c \in Cpu, Order!Yield(c) PROVE OrderInv'
  BY <1>8, <1>k DEF Order!Yield, Order!Step, Order!proc_sched, OrderInv
<1>9. ASSUME NEW c \in Cpu, NEW b \in BOOLEAN, Order!sys_change_schedorder_flag(c, b) PROVE OrderInv'
  BY <1>9, <1>k DEF Order!sys_change_schedorder_flag, Order!Step, Order!proc_sched, OrderInv
<1>10. ASSUME NEW c \in Cpu, Order!SetFlag(c) PROVE OrderInv'
  BY <1>10, <1>k DEF Order!SetFlag, Order!Step, OrderInv
<1>11. ASSUME NEW c \in Cpu, Order!SetRelease(c) PROVE OrderInv'
  BY <1>11, <1>k DEF Order!SetRelease, Order!Step, Order!proc_sched, OrderInv
<1>12. CASE UNCHANGED ordervars
  BY <1>12, <1>k DEF ordervars, OrderInv
<1>13. CASE \E c \in Cpu : Order!ReleasePanics(c)
  BY <1>13, <1>12 DEF Order!ReleasePanics, Order!vars, Order!proc_sched, ordervars
<1>14. CASE Order!Bounded
  BY <1>14, <1>12 DEF Order!Bounded, Order!vars, Order!proc_sched, ordervars
<1> QED
  BY <1>1, <1>2, <1>3, <1>4, <1>5, <1>6, <1>7, <1>8, <1>9, <1>10, <1>11, <1>12, <1>13, <1>14
  DEF Order!Next

(***************************************************************************)
(* Whatever the CPUs, the processes and the length of the behaviour, the   *)
(* lines sched prints under SCHED_TEST are exactly what the schedulers of  *)
(* all CPUs dispatched while startflag was set.                            *)
(***************************************************************************)
THEOREM ReportStaysExact == PartsSpec => []ReportIsExact
<1>1. PartsInit => OrderInv
  BY OrderInit DEF PartsInit
<1>2. OrderInv /\ [LotteryNext \/ OrderNext \/ RandNext]_<<part, vars, ordervars, randvars>> => OrderInv'
  <2>1. ASSUME [LotteryNext \/ OrderNext \/ RandNext]_<<part, vars, ordervars, randvars>>
        PROVE  [Order!Next]_ordervars
    BY <2>1 DEF LotteryNext, OrderNext, RandNext
  <2> QED
    BY Zenon, <2>1, OrderStep
<1>3. OrderInv => ReportIsExact
  BY Zenon, ReportMeansExact DEF OrderInv, ReportIsExact
<1> QED
  BY <1>1, <1>2, <1>3, PTL DEF PartsSpec

-----------------------------------------------------------------------------
(***************************************************************************)
(* The generator that the draw calls (rand.c).                             *)
(***************************************************************************)

LEMMA UshortRange ==
  /\ \A r : r \in Gen!Ushort <=> r \in Nat /\ r < 65536
  /\ Gen!UshortMod \in Nat /\ Gen!UshortMod <= 65536 /\ Gen!UshortMod >= 65536
<1>1. Gen!UshortMod \in Nat /\ Gen!UshortMod <= 65536 /\ Gen!UshortMod >= 65536
  BY SMT DEF Gen!UshortMod
<1> QED
  BY <1>1, SMT DEF Gen!Ushort

LEMMA TapBitRange == ASSUME NEW r \in Nat PROVE Gen!TapBit(r) \in 0..1
BY SMT DEF Gen!TapBit

(* A non-zero register never becomes zero: the only value whose upper      *)
(* fifteen bits are all zero is 1, and its tap parity is odd.              *)
LEMMA ShiftRange ==
  ASSUME NEW r \in Gen!Ushort, r # 0
  PROVE  Gen!Shift(r) \in Gen!Ushort /\ Gen!Shift(r) # 0
<1>1. r \in Nat /\ 0 < r /\ r < 65536
  BY UshortRange, SMT
<1>2. Gen!Shift(r) \in Nat /\ 0 < Gen!Shift(r) /\ Gen!Shift(r) < 65536
  BY <1>1, SMT DEF Gen!Shift, Gen!TapBit
<1> QED
  BY <1>2, UshortRange, SMT

LEMMA SplitTopBit ==
  ASSUME NEW h \in Nat, h < 32768, NEW b \in 0..1
  PROVE  /\ (h + 32768 * b) % 32768 = h
         /\ (h + 32768 * b) \div 32768 = b
BY SMT

(* Shifting loses nothing: Unshift recovers the register.  k is the part   *)
(* of the tap sum that depends only on the bits the shift keeps.           *)
LEMMA ShiftInverse == ASSUME NEW r \in Gen!Ushort PROVE Gen!Unshift(Gen!Shift(r)) = r
<1> DEFINE h == r \div 2
           k == (r \div 4) + (r \div 8) + (r \div 32)
           b == Gen!TapBit(r)
<1>1. r \in Nat /\ h \in Nat /\ h < 32768 /\ r = 2 * h + (r % 2) /\ k \in Nat
  BY UshortRange, SMT
<1>2. b \in 0..1 /\ b = (r + k) % 2
  BY <1>1, TapBitRange, SMT DEF Gen!TapBit
<1>3. ((2*h) \div 4) + ((2*h) \div 8) + ((2*h) \div 32) = k
  BY <1>1, SMT
<1>4. Gen!Shift(r) % 32768 = h /\ Gen!Shift(r) \div 32768 = b
  BY <1>1, <1>2, SplitTopBit, SMT DEF Gen!Shift
<1>5. Gen!Unshift(Gen!Shift(r)) = 2*h + ((b + ((2*h) \div 4) + ((2*h) \div 8) + ((2*h) \div 32)) % 2)
  BY <1>4, SMT DEF Gen!Unshift
<1>6. b + ((2*h) \div 4) + ((2*h) \div 8) + ((2*h) \div 32) = b + k
  BY <1>1, <1>2, <1>3, SMT
<1>7. (b + k) % 2 = r % 2
  <2> HIDE DEF h, k, b
  <2> QED
    BY <1>1, <1>2, SMT
<1> QED
  BY <1>1, <1>5, <1>6, <1>7, SMT

(***************************************************************************)
(* The inductive invariant: beside the types and the two properties it     *)
(* bounds the iterator by the limit of the call, so that i + 1 never wraps.*)
(***************************************************************************)
RandInv ==
  /\ Gen!TypeOK
  /\ Gen!NonzeroRegister
  /\ Gen!ResultInRange
  /\ iter <= bound

LEMMA SeedRange ==
  ASSUME NEW s \in Gen!Ushort
  PROVE  /\ Gen!Seed(s) \in Gen!Ushort /\ Gen!Seed(s) # 0
         /\ Gen!NextStart(s) \in Gen!Ushort
<1>1. Gen!Seed(s) \in Nat /\ Gen!Seed(s) < 65536 /\ Gen!Seed(s) # 0
  BY UshortRange, SMT DEF Gen!Seed
<1>2. (Gen!Seed(s) + 1) % Gen!UshortMod \in Nat /\ (Gen!Seed(s) + 1) % Gen!UshortMod < 65536
  BY <1>1, UshortRange, SMT
<1> QED
  BY <1>1, <1>2, UshortRange, SMT DEF Gen!NextStart

LEMMA RandStart == Gen!Init => RandInv
<1>1. 44257 \in Gen!Ushort /\ 0 \in Gen!Ushort /\ 1 \in Gen!Ushort
  BY UshortRange, SMT
<1> QED
  BY <1>1, SMT DEF Gen!Init, Gen!START_STATE, RandInv, Gen!TypeOK, Gen!NonzeroRegister, Gen!ResultInRange

LEMMA RandStep == RandInv /\ [Gen!Next]_Gen!vars => RandInv'
<1> SUFFICES ASSUME RandInv, [Gen!Next]_Gen!vars PROVE RandInv'
  OBVIOUS
<1> USE DEF RandInv, Gen!TypeOK, Gen!NonzeroRegister, Gen!ResultInRange
<1>1. ASSUME NEW n \in Limits, Gen!Call(n) PROVE RandInv'
  <2>1. n \in Gen!Ushort \ {0} /\ n \in Nat /\ n > 0
    BY LimitsFit, UshortRange, SMT
  <2>2. 0 \in Gen!Ushort
    BY UshortRange, SMT
  <2> QED
    BY <1>1, <2>1, <2>2, SeedRange, SMT DEF Gen!Call
<1>2. CASE Gen!Iterate
  <2>1. iter \in Nat /\ bound \in Nat /\ bound < 65536 /\ bound > 0 /\ iter < bound
    BY <1>2, UshortRange, SMT DEF Gen!Iterate
  <2>2. iter' = iter + 1
    BY <1>2, <2>1, UshortRange, SMT DEF Gen!Iterate
  <2>3. iter' \in Gen!Ushort /\ iter' <= bound'
    BY <1>2, <2>1, <2>2, UshortRange, SMT DEF Gen!Iterate
  <2> QED
    BY <1>2, <2>3, ShiftRange, SMT DEF Gen!Iterate
<1>3. CASE Gen!Return
  <2>1. bound \in Nat /\ bound > 0 /\ bound < 65536 /\ lfsr \in Nat
    BY UshortRange, SMT
  <2>2. lfsr % bound \in Nat /\ lfsr % bound < bound
    BY <2>1, SMT
  <2>3. lfsr % bound \in Gen!Ushort
    BY <2>1, <2>2, UshortRange, SMT
  <2> QED
    BY <1>3, <2>2, <2>3, SMT DEF Gen!Return
<1>4. CASE UNCHANGED Gen!vars
  BY <1>4, SMT DEF Gen!vars
<1> QED
  BY <1>1, <1>2, <1>3, <1>4 DEF Gen!Next

(***************************************************************************)
(* The variables of generate_random_number stay in 16 bits and the         *)
(* iterator does not wrap, for every set of limits.                        *)
(***************************************************************************)
THEOREM RandTypeCorrect == Gen!Spec => []Gen!TypeOK
<1>1. RandInv => Gen!TypeOK
  BY DEF RandInv
<1> QED
  BY <1>1, RandStart, RandStep, PTL DEF Gen!Spec

(***************************************************************************)
(* The shift register never becomes zero, in however long a sequence of    *)
(* calls.                                                                  *)
(***************************************************************************)
THEOREM RegisterNeverZero == Gen!Spec => []NonzeroRegister
<1>1. RandInv => NonzeroRegister
  BY DEF RandInv, NonzeroRegister
<1> QED
  BY <1>1, RandStart, RandStep, PTL DEF Gen!Spec

(***************************************************************************)
(* Every number returned is below the limit the caller asked for.          *)
(***************************************************************************)
THEOREM ResultBelowLimit == Gen!Spec => []Gen!ResultInRange
<1>1. RandInv => Gen!ResultInRange
  BY DEF RandInv
<1> QED
  BY <1>1, RandStart, RandStep, PTL DEF Gen!Spec

(***************************************************************************)
(* The register can always be recovered from its shifted value.            *)
(***************************************************************************)
THEOREM ShiftAlwaysInvertible == Gen!Spec => []Gen!ShiftInvertible
<1>1. Gen!TypeOK => Gen!ShiftInvertible
  BY ShiftInverse DEF Gen!TypeOK, Gen!ShiftInvertible
<1> QED
  BY <1>1, RandTypeCorrect, PTL

(***************************************************************************)
(* The lottery draws from Drawn: what generate_random_number returns       *)
(* between two calls is always one of the numbers that Draw may assign to  *)
(* ticket_no for the same limit, so the choice in Draw covers the          *)
(* generator.                                                              *)
(***************************************************************************)
THEOREM GeneratorDrawsATicket ==
  Gen!Spec => [](gpc = "idle" => result \in Drawn(bound))
<1>1. RandInv => (gpc = "idle" => result \in Drawn(bound))
  BY UshortRange, SMT DEF RandInv, Gen!TypeOK, Gen!ResultInRange, Drawn
<1> QED
  BY <1>1, RandStart, RandStep, PTL DEF Gen!Spec

=============================================================================
