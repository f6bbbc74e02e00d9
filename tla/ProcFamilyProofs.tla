-------------------------- MODULE ProcFamilyProofs --------------------------
(***************************************************************************)
(* What fork(), exit(), wait() and kill() promise to each other, for every *)
(* number of CPUs and slots: parents that can reap, sleeping parents that  *)
(* miss no zombie, unique pids, processes with tickets.  The invariants    *)
(* rest on StackInv (module ProcProofs).                                   *)
(***************************************************************************)
EXTENDS ProcProofs

Live == {"SLEEPING", "RUNNABLE", "RUNNING"}

(***************************************************************************)
(* FamilyInv strengthens ParentCanReap.  A free slot has no parent; a      *)
(* half-built process has one only between fork()'s unlocked copying and   *)
(* its last critical section, while the forking thread is there.           *)
(***************************************************************************)
InitLives == state[initproc] \in Live

FreeHasNoParent == \A p \in Slots : state[p] = "UNUSED" => parent[p] = NULL

EmbryoInv ==
  \A e \in Slots : state[e] = "EMBRYO" /\ parent[e] # NULL =>
    pc[parent[e]] = "publish" /\ np[parent[e]] = e

PublishInv == \A p \in Slots : pc[p] = "publish" => parent[np[p]] = p

(* init has no parent, and nobody is his own. *)
Rooted == parent[initproc] = NULL /\ \A p \in Slots : parent[p] # p

FamilyInv ==
  InitLives /\ Rooted /\ FreeHasNoParent /\ EmbryoInv /\ PublishInv /\ ParentCanReap

LEMMA RunsRunning ==
  ASSUME StackInv, NEW c \in CPU, NEW p \in Slots, Runs(c, p)
  PROVE  state[p] = "RUNNING"
BY DEF StackInv, PhaseInv, OnCpu, Runs

LEMMA InitIsSlot == initproc \in Slots /\ NULL \notin Slots
BY ProcConstants DEF initproc, Slots, NULL

(* Every process stays what it is, alive, dead or half-built. *)
Settled ==
  /\ parent' = parent /\ np' = np
  /\ \A q \in Slots : state'[q] = state[q] \/ (state[q] \in Live /\ state'[q] \in Live)
  /\ \A q \in Slots : pc'[q] = "publish" <=> pc[q] = "publish"

LEMMA SettledKeepsFamily ==
  ASSUME StackInv, FamilyInv, Settled, TypeOK'
  PROVE  FamilyInv'
<1> USE InitIsSlot DEF FamilyInv, Settled
<1>1. InitLives' /\ Rooted'
  BY DEF InitLives, Rooted, Live
<1>2. FreeHasNoParent'
  BY DEF FreeHasNoParent, Live
<1>3. EmbryoInv'
  BY DEF EmbryoInv, Live, StackInv, TypeOK
<1>4. PublishInv'
  BY DEF PublishInv
<1>5. ParentCanReap'
  BY DEF ParentCanReap, Live, StackInv, TypeOK
<1> QED
  BY <1>1, <1>2, <1>3, <1>4, <1>5

(***************************************************************************)
(* The actions that change no process's place in the family.               *)
(***************************************************************************)
LEMMA SwitchIsSettled ==
  ASSUME StackInv, NEW c \in CPU, SchedulerStep(c) \/ InitExiting(c)
  PROVE  Settled
<1> USE DEF StackInv, TypeOK, Settled, Live, fields, threads
<1>1. ASSUME NEW p \in Slots, SchedPick(c, p) PROVE Settled
  BY <1>1 DEF SchedPick
<1>2. CASE SwtchTo(c) \/ SwtchBack(c) \/ SchedBack(c) \/ InitExiting(c)
  BY <1>2 DEF SwtchTo, SwtchBack, SchedBack, InitExiting
<1>3. ASSUME NEW p \in Slots, ReturnFromSwtch(c, p) PROVE Settled
  BY <1>3 DEF ReturnFromSwtch
<1> QED
  BY <1>1, <1>2, <1>3 DEF SchedulerStep

LEMMA TrapIsSettled ==
  ASSUME StackInv, NEW c \in CPU, NEW p \in Slots,
         TrapStep(c, p) \/ ExitCall(c, p) \/ ForkNoSlot(c, p) \/ SignalStep(c, p)
  PROVE  Settled
<1> USE DEF StackInv, TypeOK, Settled, Live
<1>1. CASE \/ Syscall(c, p) \/ SyscallDone(c, p) \/ SyscallReturn(c, p)
           \/ KilledExit(c, p) \/ ExitCall(c, p) \/ ForkNoSlot(c, p)
  BY <1>1 DEF Syscall, SyscallDone, SyscallReturn, KilledExit, ExitCall, ForkNoSlot, Goto, fields
<1>2. CASE UserFault(c, p)
  BY <1>2 DEF UserFault, Goto
<1>3. CASE Yield(c, p)
  <2>1. state[p] = "RUNNING"
    BY <1>3, RunsRunning DEF Yield
  <2> QED
    BY <1>3, <2>1 DEF Yield
<1>4. ASSUME NEW ch \in Chan, SleepOn(c, p, ch) PROVE Settled
  <2>1. state[p] = "RUNNING"
    BY <1>4, RunsRunning DEF SleepOn
  <2> QED
    BY <1>4, <2>1 DEF SleepOn
<1>5. ASSUME NEW k \in KillPids, Kill(c, p, k) PROVE Settled
  <2>1. PICK q \in Slots : state' = [state EXCEPT ![q] = Woken(@)]
    BY Zenon, <1>5 DEF Kill
  <2>2. \A r \in Slots : state'[r] = state[r] \/ (state[r] \in Live /\ state'[r] \in Live)
    BY <2>1 DEF Woken
  <2>3. parent' = parent /\ np' = np /\ \A r \in Slots : pc'[r] = "publish" <=> pc[r] = "publish"
    BY <1>5 DEF Kill, Goto
  <2> QED
    BY <2>2, <2>3
<1>6. ASSUME NEW k \in KillPids, NEW t \in AssignValues, AssignTickets(c, p, k, t) PROVE Settled
  BY <1>6 DEF AssignTickets, Goto
<1> QED
  BY <1>1, <1>2, <1>3, <1>4, <1>5, <1>6 DEF TrapStep, SignalStep

LEMMA WaitIsSettled ==
  ASSUME StackInv, NEW c \in CPU, NEW p \in Slots,
         WaitCall(c, p) \/ WaitFail(c, p) \/ WaitSleep(c, p)
  PROVE  Settled
<1> USE DEF StackInv, TypeOK, Settled, Live
<1>1. CASE WaitCall(c, p) \/ WaitFail(c, p)
  BY <1>1 DEF WaitCall, WaitFail, Goto, fields
<1>2. CASE WaitSleep(c, p)
  <2>1. state[p] = "RUNNING"
    BY <1>2, RunsRunning DEF WaitSleep
  <2> QED
    BY <1>2, <2>1 DEF WaitSleep
<1> QED
  BY <1>1, <1>2

LEMMA WakeupIsSettled ==
  ASSUME StackInv, NEW ch \in Chan, Wakeup(ch)
  PROVE  Settled
BY DEF StackInv, TypeOK, Settled, Live, Wakeup, wakeup1, threads

LEMMA StutterIsSettled ==
  ASSUME UNCHANGED vars PROVE Settled
BY DEF Settled, vars, fields, threads

(***************************************************************************)
(* The actions that do: fork(), exit() and the reaping in wait().          *)
(***************************************************************************)
LEMMA ForkKeepsFamily ==
  ASSUME StackInv, FamilyInv, TypeOK', NEW c \in CPU, NEW p \in Slots, ForkStep(c, p)
  PROVE  FamilyInv'
<1> USE InitIsSlot DEF FamilyInv
<1>1. CASE ForkAlloc(c, p)
  <2>1. PICK q \in Slots : /\ FirstUnused(q)
                           /\ state' = [state EXCEPT ![q] = "EMBRYO"]
                           /\ np' = [np EXCEPT ![p] = q]
    BY Zenon, <1>1 DEF ForkAlloc
  <2>2. state[q] = "UNUSED" /\ parent[q] = NULL /\ parent' = parent /\ state'[q] = "EMBRYO"
    BY <1>1, <2>1 DEF FirstUnused, FreeHasNoParent, ForkAlloc, StackInv, TypeOK
  <2>3. \A r \in Slots \ {q} : state'[r] = state[r]
    BY <2>1 DEF StackInv, TypeOK
  <2>4. \A r \in Slots : pc'[r] = "publish" <=> pc[r] = "publish"
    BY <1>1 DEF ForkAlloc, Goto, StackInv, TypeOK
  <2>5. \A r \in Slots : pc[r] = "publish" => np'[r] = np[r]
    BY <1>1, <2>1 DEF ForkAlloc, StackInv, TypeOK
  <2>6. q # initproc
    BY <2>2 DEF InitLives, Live
  <2>7. InitLives' /\ Rooted' /\ FreeHasNoParent'
    BY <2>2, <2>3, <2>6 DEF InitLives, Rooted, FreeHasNoParent
  <2>8. EmbryoInv' /\ PublishInv'
    BY <2>2, <2>3, <2>4, <2>5 DEF EmbryoInv, PublishInv, StackInv, TypeOK
  <2>9. ParentCanReap'
    BY <2>2, <2>3 DEF ParentCanReap, StackInv, TypeOK
  <2> QED
    BY <2>7, <2>8, <2>9
<1>2. CASE ForkNoSlot(c, p)
  BY <1>2, TrapIsSettled, SettledKeepsFamily
<1>3. CASE ForkKstack(c, p) \/ ForkCopy(c, p) \/ ForkPublish(c, p)
  <2> DEFINE e == np[p]
  <2>1. state[p] = "RUNNING"
    BY <1>3, RunsRunning DEF ForkKstack, ForkCopy, ForkPublish
  <2>2. pc[p] \in ForkLabels /\ e \in Slots /\ state[e] = "EMBRYO" /\ e # p
    BY <1>3, <2>1 DEF ForkKstack, ForkCopy, ForkPublish, StackInv, ForkInv, ForkLabels
  <2>3. pc[p] # "publish" => parent[e] = NULL
    <3>1. parent[e] \in Slots => pc[parent[e]] = "publish" /\ np[parent[e]] = e
      BY <2>2 DEF EmbryoInv
    <3> QED
      BY <2>2, <3>1 DEF StackInv, TypeOK, ForkInv, ForkLabels
  <2>4. \A r \in Slots \ {e} : state'[r] = state[r] /\ parent'[r] = parent[r]
    BY <1>3, <2>2 DEF ForkKstack, ForkCopy, ForkPublish, StackInv, TypeOK
  <2>5. \A r \in Slots \ {p} : np'[r] = np[r] /\ (pc'[r] = "publish" => pc[r] = "publish")
    BY <1>3, <2>2 DEF ForkKstack, ForkCopy, ForkPublish, Goto, StackInv, TypeOK
  <2>6. e # initproc
    BY <2>2 DEF InitLives, Live
  <2>7. InitLives'
    BY <2>4, <2>6 DEF InitLives
  <2>8. \/ /\ pc[p] = "kalloc" /\ pc'[p] = "copy" /\ np' = np
           /\ state'[e] = "EMBRYO" /\ parent'[e] = NULL
        \/ /\ pc[p] = "copy" /\ pc'[p] = "publish" /\ np' = np
           /\ state'[e] = "EMBRYO" /\ parent'[e] = p
        \/ /\ pc[p] = "publish" /\ pc'[p] = "ret"
           /\ state'[e] = "RUNNABLE" /\ parent'[e] = p
        \/ /\ pc[p] \in {"kalloc", "copy"} /\ pc'[p] = "ret"
           /\ state'[e] = "UNUSED" /\ parent'[e] = NULL
    BY <1>3, <2>2, <2>3 DEF ForkKstack, ForkCopy, ForkPublish, Goto, StackInv, TypeOK, PublishInv
  <2>9. FreeHasNoParent'
    BY <2>4, <2>8 DEF FreeHasNoParent
  <2>10. \A r \in Slots \ {p} : pc[r] = "publish" => np[r] # e /\ r # e
    BY <2>2 DEF StackInv, ForkInv, ForkLabels, Awake
  <2>11. PublishInv'
    BY <2>2, <2>4, <2>5, <2>8, <2>10 DEF PublishInv, StackInv, ForkInv, ForkLabels
  <2>12. EmbryoInv'
    <3>1. ASSUME NEW f \in Slots \ {e}, state'[f] = "EMBRYO", parent'[f] # NULL
          PROVE  pc'[parent'[f]] = "publish" /\ np'[parent'[f]] = f
      <4>1. parent'[f] = parent[f] /\ parent[f] \in Slots
            /\ pc[parent[f]] = "publish" /\ np[parent[f]] = f
        BY <2>4, <3>1 DEF EmbryoInv, StackInv, TypeOK
      <4>2. parent[f] # p /\ parent[f] # e
        BY <2>2, <2>10, <4>1
      <4>3. pc'[parent[f]] = "publish"
        BY SMTT(20), ZenonT(20), <1>3, <2>2, <4>1, <4>2
        DEF ForkKstack, ForkCopy, ForkPublish, Goto, StackInv, TypeOK
      <4> QED
        BY <2>5, <4>1, <4>2, <4>3
    <3>2. state'[e] = "EMBRYO" /\ parent'[e] # NULL =>
            pc'[parent'[e]] = "publish" /\ np'[parent'[e]] = e
      BY SMTT(20), ZenonT(20), <2>8
    <3> QED
      BY <2>2, <3>1, <3>2 DEF EmbryoInv
  <2>13. ParentCanReap'
    <3>1. ASSUME NEW r \in Slots \ {initproc, e}, state'[r] \in Exists
          PROVE  parent'[r] # NULL /\ state'[parent'[r]] \in Live
      <4>1. parent[r] \in Slots /\ state[parent[r]] \in Live
        BY <2>4, <3>1 DEF ParentCanReap, Exists, Live, StackInv, TypeOK
      <4> QED
        BY <2>2, <2>4, <4>1 DEF Live
    <3>2. state'[e] \in Exists => parent'[e] # NULL /\ state'[parent'[e]] \in Live
      BY <2>1, <2>2, <2>4, <2>8 DEF Exists, Live
    <3> QED
      BY <3>1, <3>2 DEF ParentCanReap, Exists, Live
  <2>14. Rooted'
    BY <2>2, <2>4, <2>6, <2>8 DEF Rooted
  <2> QED
    BY <2>7, <2>9, <2>11, <2>12, <2>13, <2>14
<1> QED
  BY <1>1, <1>2, <1>3 DEF ForkStep

(* What Exit(c, p) does to the states, wakeups included. *)
LEMMA ExitStates ==
  ASSUME StackInv, NEW c \in CPU, NEW p \in Slots, Exit(c, p)
  PROVE  /\ state[p] = "RUNNING" /\ state'[p] = "ZOMBIE" /\ p # initproc /\ pc[p] = "exit"
         /\ \A q \in Slots \ {p} :
              \/ state'[q] = state[q]
              \/ state[q] = "SLEEPING" /\ state'[q] = "RUNNABLE"
         /\ \A q \in Slots \ {p} :
              state[q] = "SLEEPING" /\ chan[q] = parent[p] => state'[q] = "RUNNABLE"
         /\ \A q \in Slots \ {p} :
              state[q] = "SLEEPING" /\ chan[q] = initproc
              /\ (\E r \in Slots : parent[r] = p /\ state[r] = "ZOMBIE")
              => state'[q] = "RUNNABLE"
         /\ \A q \in Slots : parent'[q] = IF parent[q] = p THEN initproc ELSE parent[q]
         /\ pc' = pc /\ np' = np /\ chan' = chan /\ killed' = killed
<1> DEFINE children == {q \in Slots : parent[q] = p}
           st1 == wakeup1(state, parent[p])
           st2 == IF \E q \in children : st1[q] = "ZOMBIE"
                  THEN wakeup1(st1, initproc) ELSE st1
<1>1. state' = [st2 EXCEPT ![p] = "ZOMBIE"] /\ parent' = Reparented(p)
  BY DEF Exit
<1>2. \A q \in Slots : st1[q] = IF state[q] = "SLEEPING" /\ chan[q] = parent[p]
                                 THEN "RUNNABLE" ELSE state[q]
  BY DEF wakeup1
<1>3. \A q \in Slots : st1[q] = "ZOMBIE" <=> state[q] = "ZOMBIE"
  BY <1>2
<1>4. \A q \in Slots :
        /\ st2[q] = state[q] \/ (state[q] = "SLEEPING" /\ st2[q] = "RUNNABLE")
        /\ state[q] = "SLEEPING" /\ chan[q] = parent[p] => st2[q] = "RUNNABLE"
        /\ state[q] = "SLEEPING" /\ chan[q] = initproc
           /\ (\E r \in Slots : parent[r] = p /\ state[r] = "ZOMBIE") => st2[q] = "RUNNABLE"
  BY <1>3 DEF wakeup1
<1>5. DOMAIN st2 = Slots
  BY DEF wakeup1
<1> HIDE DEF st2
<1>6. state'[p] = "ZOMBIE" /\ \A q \in Slots \ {p} : state'[q] = st2[q]
  BY <1>1, <1>5
<1>7. state[p] = "RUNNING"
  BY RunsRunning DEF Exit
<1>8. pc' = pc /\ np' = np /\ chan' = chan /\ killed' = killed /\ p # initproc /\ pc[p] = "exit"
  BY DEF Exit
<1>9. \A q \in Slots : parent'[q] = IF parent[q] = p THEN initproc ELSE parent[q]
  BY <1>1 DEF Reparented
<1> HIDE DEF st1, children
<1> QED
  BY <1>4, <1>6, <1>7, <1>8, <1>9

LEMMA ExitKeepsFamily ==
  ASSUME StackInv, FamilyInv, TypeOK', NEW c \in CPU, NEW p \in Slots, Exit(c, p)
  PROVE  FamilyInv'
<1> USE InitIsSlot DEF FamilyInv
<1>1. /\ state[p] = "RUNNING" /\ state'[p] = "ZOMBIE" /\ p # initproc /\ pc[p] = "exit"
      /\ pc' = pc /\ np' = np
      /\ \A q \in Slots : parent'[q] = IF parent[q] = p THEN initproc ELSE parent[q]
      /\ \A q \in Slots \ {p} : \/ state'[q] = state[q]
                                \/ state[q] = "SLEEPING" /\ state'[q] = "RUNNABLE"
  BY ExitStates
<1>2. InitLives'
  BY <1>1 DEF InitLives, Live
<1>3. FreeHasNoParent' /\ Rooted'
  BY <1>1 DEF FreeHasNoParent, Rooted
<1>4. EmbryoInv'
  <2> SUFFICES ASSUME NEW e \in Slots, state'[e] = "EMBRYO", parent'[e] # NULL
               PROVE  pc[parent'[e]] = "publish" /\ np[parent'[e]] = e
    BY <1>1 DEF EmbryoInv
  <2>1. state[e] = "EMBRYO" /\ parent[e] # NULL
    BY <1>1
  <2>2. parent[e] # p
    BY <1>1, <2>1 DEF EmbryoInv
  <2> QED
    BY <1>1, <2>1, <2>2 DEF EmbryoInv
<1>5. PublishInv'
  BY <1>1 DEF PublishInv, StackInv, ForkInv, ForkLabels
<1>6. ParentCanReap'
  <2> SUFFICES ASSUME NEW r \in Slots \ {initproc}, state'[r] \in Exists
               PROVE  parent'[r] # NULL /\ state'[parent'[r]] \in Live
    BY DEF ParentCanReap, Exists, Live
  <2>1. parent[r] \in Slots /\ state[parent[r]] \in Live
    BY <1>1 DEF ParentCanReap, Exists, Live, StackInv, TypeOK
  <2>2. CASE parent[r] = p
    BY <1>1, <1>2, <2>2 DEF InitLives
  <2>3. CASE parent[r] # p
    BY <1>1, <2>1, <2>3 DEF Live
  <2> QED
    BY <2>2, <2>3
<1> QED
  BY <1>2, <1>3, <1>4, <1>5, <1>6

LEMMA ReapKeepsFamily ==
  ASSUME StackInv, FamilyInv, TypeOK', NEW c \in CPU, NEW p \in Slots, NEW q \in Slots,
         WaitReap(c, p, q)
  PROVE  FamilyInv'
<1> USE InitIsSlot DEF FamilyInv
<1>1. /\ state[q] = "ZOMBIE" /\ state'[q] = "UNUSED" /\ parent'[q] = NULL
      /\ \A r \in Slots \ {q} : state'[r] = state[r] /\ parent'[r] = parent[r]
  BY DEF WaitReap, ZombieChild, StackInv, TypeOK
<1>2. np' = np /\ \A r \in Slots : pc'[r] = "publish" <=> pc[r] = "publish"
  BY DEF WaitReap, Goto, StackInv, TypeOK
<1>3. InitLives' /\ FreeHasNoParent' /\ Rooted'
  BY <1>1 DEF InitLives, FreeHasNoParent, Rooted, Live
<1>4. EmbryoInv'
  BY <1>1, <1>2 DEF EmbryoInv, StackInv, TypeOK
<1>5. PublishInv'
  BY <1>1, <1>2 DEF PublishInv, StackInv, ForkInv, ForkLabels
<1>6. ParentCanReap'
  <2> SUFFICES ASSUME NEW r \in Slots \ {initproc}, state'[r] \in Exists
               PROVE  parent'[r] # NULL /\ state'[parent'[r]] \in Live
    BY DEF ParentCanReap, Exists, Live
  <2>1. r # q /\ parent[r] \in Slots /\ state[parent[r]] \in Live
    BY <1>1 DEF ParentCanReap, Exists, Live, StackInv, TypeOK
  <2> QED
    BY <1>1, <2>1 DEF Live
<1> QED
  BY <1>3, <1>4, <1>5, <1>6

LEMMA FamilyInit == Init => FamilyInv
<1> SUFFICES ASSUME Init PROVE FamilyInv
  OBVIOUS
<1> QED
  BY InitIsSlot DEF Init, FamilyInv, InitLives, Rooted, FreeHasNoParent, EmbryoInv, PublishInv,
                    ParentCanReap, Live

LEMMA FamilyStep == StackInv /\ FamilyInv /\ [Next]_vars => FamilyInv'
<1> SUFFICES ASSUME StackInv, FamilyInv, [Next]_vars PROVE FamilyInv'
  OBVIOUS
<1>1. TypeOK'
  BY ProcTypeStep DEF StackInv
<1>2. CASE Settled
  BY <1>1, <1>2, SettledKeepsFamily
<1>3. ASSUME NEW c \in CPU, SchedulerStep(c) \/ InitExiting(c) PROVE FamilyInv'
  BY <1>2, <1>3, SwitchIsSettled
<1>4. ASSUME NEW c \in CPU, NEW p \in Slots,
             TrapStep(c, p) \/ ForkStep(c, p) \/ ExitWaitStep(c, p) \/ SignalStep(c, p)
      PROVE  FamilyInv'
  <2>1. CASE TrapStep(c, p) \/ ExitCall(c, p) \/ SignalStep(c, p)
    BY <1>2, <2>1, TrapIsSettled
  <2>2. CASE ForkStep(c, p)
    BY <1>1, <2>2, ForkKeepsFamily
  <2>3. CASE Exit(c, p)
    BY <1>1, <2>3, ExitKeepsFamily
  <2>4. CASE WaitCall(c, p) \/ WaitFail(c, p) \/ WaitSleep(c, p)
    BY <1>2, <2>4, WaitIsSettled
  <2>5. CASE \E q \in Slots : WaitReap(c, p, q)
    BY <1>1, <2>5, ReapKeepsFamily
  <2> QED
    BY <1>4, <2>1, <2>2, <2>3, <2>4, <2>5 DEF ExitWaitStep
<1>5. CASE \E ch \in Chan : Wakeup(ch)
  BY <1>2, <1>5, WakeupIsSettled
<1>6. CASE UNCHANGED vars
  BY <1>2, <1>6, StutterIsSettled
<1> QED
  BY <1>3, <1>4, <1>5, <1>6 DEF Next

(***************************************************************************)
(* exit()'s hand-over of children to init, and fork()'s late publication   *)
(* of the child, leave no process without a parent that can wait() for it. *)
(***************************************************************************)
THEOREM EveryParentCanReap == Spec => []ParentCanReap
<1>1. Init => StackInv /\ FamilyInv
  BY StackInit, FamilyInit
<1>2. (StackInv /\ FamilyInv) /\ [Next]_vars => (StackInv /\ FamilyInv)'
  BY StackStep, FamilyStep
<1>3. StackInv /\ FamilyInv => ParentCanReap
  BY DEF FamilyInv
<1> QED
  BY <1>1, <1>2, <1>3, PTL DEF Spec

-----------------------------------------------------------------------------
(***************************************************************************)
(* No lost wakeup in wait().                                               *)
(***************************************************************************)

(* Nobody falls asleep in wait(), dies, changes parents, or is killed *)
(* while asleep.                                                      *)
Undisturbed ==
  /\ parent' = parent
  /\ \A q \in Slots : state'[q] = "SLEEPING" /\ chan'[q] = q =>
       state[q] = "SLEEPING" /\ chan[q] = q /\ (killed'[q] => killed[q])
  /\ \A q \in Slots : state'[q] = "ZOMBIE" => state[q] = "ZOMBIE"

LEMMA UndisturbedKeepsWait ==
  ASSUME NoLostWait, Undisturbed PROVE NoLostWait'
BY DEF NoLostWait, Undisturbed, HasChildren, ZombieChild

LEMMA WaitStep == StackInv /\ FamilyInv /\ NoLostWait /\ [Next]_vars => NoLostWait'
<1> SUFFICES ASSUME StackInv, FamilyInv, NoLostWait, [Next]_vars PROVE NoLostWait'
  OBVIOUS
<1> USE DEF StackInv, TypeOK
<1>1. CASE Undisturbed
  BY <1>1, UndisturbedKeepsWait
<1>2. ASSUME NEW c \in CPU, SchedulerStep(c) \/ InitExiting(c) PROVE NoLostWait'
  <2>1. ASSUME NEW p \in Slots, SchedPick(c, p) PROVE Undisturbed
    BY <2>1 DEF SchedPick, Undisturbed
  <2>2. ASSUME NEW p \in Slots, ReturnFromSwtch(c, p) PROVE Undisturbed
    <3>1. p # NULL
      BY InitIsSlot
    <3> QED
      BY <2>2, <3>1 DEF ReturnFromSwtch, Undisturbed
  <2>3. CASE SwtchTo(c) \/ SwtchBack(c) \/ SchedBack(c) \/ InitExiting(c)
    <3>1. UNCHANGED <<state, parent, chan, killed>>
      BY <2>3 DEF SwtchTo, SwtchBack, SchedBack, InitExiting, fields
    <3> QED
      BY <1>1, <3>1 DEF Undisturbed
  <2> QED
    BY <1>1, <1>2, <2>1, <2>2, <2>3 DEF SchedulerStep
<1>3. ASSUME NEW c \in CPU, NEW p \in Slots, TrapStep(c, p) \/ SignalStep(c, p)
      PROVE  NoLostWait'
  <2>1. CASE Syscall(c, p) \/ SyscallDone(c, p) \/ SyscallReturn(c, p) \/ KilledExit(c, p)
    BY <1>1, <2>1 DEF Syscall, SyscallDone, SyscallReturn, KilledExit, Undisturbed, fields
  <2>2. CASE UserFault(c, p)
    <3>1. state[p] = "RUNNING"
      BY <2>2, RunsRunning DEF UserFault
    <3> QED
      BY <1>1, <2>2, <3>1 DEF UserFault, Undisturbed
  <2>3. CASE Yield(c, p)
    BY <1>1, <2>3 DEF Yield, Undisturbed
  <2>4. ASSUME NEW ch \in Chan, SleepOn(c, p, ch) PROVE Undisturbed
    <3>1. ch # p
      BY ProcConstants DEF Slots
    <3> QED
      BY <2>4, <3>1 DEF SleepOn, Undisturbed
  <2>5. ASSUME NEW k \in KillPids, Kill(c, p, k) PROVE Undisturbed
    <3>1. PICK q \in Slots : /\ killed' = [killed EXCEPT ![q] = TRUE]
                             /\ state' = [state EXCEPT ![q] = Woken(@)]
      BY ZenonT(40), <2>5 DEF Kill
    <3>2. parent' = parent /\ chan' = chan
      BY <2>5 DEF Kill
    <3> QED
      BY <3>1, <3>2 DEF Undisturbed, Woken
  <2>6. ASSUME NEW k \in KillPids, NEW t \in AssignValues, AssignTickets(c, p, k, t)
        PROVE  Undisturbed
    BY <2>6 DEF AssignTickets, Undisturbed
  <2> QED
    BY <1>1, <1>3, <2>1, <2>2, <2>3, <2>4, <2>5, <2>6 DEF TrapStep, SignalStep
<1>4. ASSUME NEW c \in CPU, NEW p \in Slots, ForkStep(c, p) PROVE NoLostWait'
  <2>1. CASE ForkAlloc(c, p) \/ ForkNoSlot(c, p) \/ ForkKstack(c, p) \/ ForkPublish(c, p)
    BY SMTT(20), ZenonT(20), <1>1, <2>1 DEF ForkAlloc, ForkNoSlot, ForkKstack, ForkPublish, Undisturbed, fields
  <2>2. CASE ForkCopy(c, p)
    <3> DEFINE e == np[p]
    <3>1. state[p] = "RUNNING"
      BY <2>2, RunsRunning DEF ForkCopy
    <3>2. e \in Slots /\ state[e] = "EMBRYO"
      BY <2>2 DEF ForkCopy, ForkInv, ForkLabels
    <3>3. parent[e] = NULL
      <4>1. parent[e] \in Slots => pc[parent[e]] = "publish" /\ np[parent[e]] = e
        BY <3>2, InitIsSlot DEF FamilyInv, EmbryoInv
      <4> QED
        BY <2>2, <4>1 DEF ForkCopy, ForkInv, ForkLabels
    <3>4. /\ chan' = chan /\ killed' = killed
          /\ \A q \in Slots \ {e} : parent'[q] = parent[q] /\ state'[q] = state[q]
          /\ state'[e] \in {"EMBRYO", "UNUSED"} /\ parent'[e] \in {NULL, p}
      BY <2>2, <3>2, <3>3 DEF ForkCopy
    <3>5. \A q \in Slots : HasChildren(q) => HasChildren(q)'
      BY <3>3, <3>4, InitIsSlot DEF HasChildren
    <3> HIDE DEF StackInv, TypeOK, e
    <3>6. \A q, r \in Slots : ZombieChild(q, r)' => ZombieChild(q, r)
      BY <3>4 DEF ZombieChild
    <3>7. \A q \in Slots : state'[q] = "SLEEPING" => state[q] = "SLEEPING"
      BY <3>4
    <3> QED
      BY ZenonT(40), <3>4, <3>5, <3>6, <3>7 DEF NoLostWait
  <2> QED
    BY <1>4, <2>1, <2>2 DEF ForkStep
<1>5. ASSUME NEW c \in CPU, NEW p \in Slots, ExitWaitStep(c, p) PROVE NoLostWait'
  <2>1. CASE ExitCall(c, p) \/ WaitCall(c, p) \/ WaitFail(c, p)
    BY SMTT(20), ZenonT(20), <1>1, <2>1 DEF ExitCall, WaitCall, WaitFail, Undisturbed, fields
  <2>2. CASE WaitSleep(c, p)
    <3>1. /\ state'[p] = "SLEEPING" /\ parent' = parent /\ killed' = killed
          /\ \A q \in Slots \ {p} : state'[q] = state[q] /\ chan'[q] = chan[q]
      BY <2>2 DEF WaitSleep
    <3>2. HasChildren(p) /\ ~killed[p] /\ \A q \in Slots : ~ZombieChild(p, q)
      BY <2>2 DEF WaitSleep
    <3> HIDE DEF StackInv, TypeOK
    <3>3. \A q \in Slots : HasChildren(q) => HasChildren(q)'
      BY <3>1 DEF HasChildren
    <3>4. \A q, r \in Slots : ZombieChild(q, r)' => ZombieChild(q, r)
      BY <3>1 DEF ZombieChild
    <3>5. \A q \in Slots \ {p} : state'[q] = "SLEEPING" /\ chan'[q] = q =>
            state[q] = "SLEEPING" /\ chan[q] = q
      BY SMTT(20), ZenonT(20), <3>1
    <3> QED
      BY ZenonT(40), <3>1, <3>2, <3>3, <3>4, <3>5 DEF NoLostWait
  <2>3. ASSUME NEW q \in Slots, WaitReap(c, p, q) PROVE NoLostWait'
    <3>1. state[p] = "RUNNING"
      BY ZenonT(40), <2>3, RunsRunning DEF WaitReap
    <3>2. /\ state[q] = "ZOMBIE" /\ parent[q] = p /\ state'[q] = "UNUSED"
          /\ chan' = chan
          /\ \A r \in Slots \ {q} : /\ state'[r] = state[r] /\ parent'[r] = parent[r]
                                    /\ killed'[r] = killed[r]
      BY <2>3 DEF WaitReap, ZombieChild
    <3>3. \A r \in Slots \ {p} : HasChildren(r) => HasChildren(r)'
      BY <3>2 DEF HasChildren
    <3> HIDE DEF StackInv, TypeOK
    <3>4. \A r, s \in Slots : ZombieChild(r, s)' => ZombieChild(r, s)
      BY <3>2 DEF ZombieChild
    <3>5. \A r \in Slots : state'[r] = "SLEEPING" =>
            state[r] = "SLEEPING" /\ r # p /\ killed'[r] = killed[r]
      BY <3>1, <3>2
    <3> QED
      BY ZenonT(40), <3>2, <3>3, <3>4, <3>5 DEF NoLostWait
  <2>4. CASE Exit(c, p)
    <3> SUFFICES ASSUME NEW q \in Slots, state'[q] = "SLEEPING", chan'[q] = q
                 PROVE  /\ HasChildren(q)' /\ ~killed'[q]
                        /\ \A r \in Slots : ~(parent'[r] = q /\ state'[r] = "ZOMBIE")
      BY SMTT(20), ZenonT(20) DEF NoLostWait, ZombieChild
    <3> HIDE DEF StackInv, TypeOK
    <3>1. /\ state'[p] = "ZOMBIE" /\ chan' = chan /\ killed' = killed
          /\ \A r \in Slots : parent'[r] = IF parent[r] = p THEN initproc ELSE parent[r]
          /\ \A r \in Slots \ {p} : \/ state'[r] = state[r]
                                    \/ state[r] = "SLEEPING" /\ state'[r] = "RUNNABLE"
      BY ZenonT(40), <2>4, ExitStates
    <3>2. q # p /\ state[q] = "SLEEPING" /\ chan[q] = q /\ parent[p] # q
      BY <2>4, <3>1, ExitStates
    <3>3. HasChildren(q) /\ ~killed[q] /\ \A r \in Slots : ~ZombieChild(q, r)
      BY <3>2 DEF NoLostWait
    <3>4. HasChildren(q)'
      BY <3>1, <3>2, <3>3 DEF HasChildren
    <3>5. q = initproc => ~\E r \in Slots : parent[r] = p /\ state[r] = "ZOMBIE"
      <4>1. \A r \in Slots \ {p} :
              state[r] = "SLEEPING" /\ chan[r] = initproc
              /\ (\E s \in Slots : parent[s] = p /\ state[s] = "ZOMBIE")
              => state'[r] = "RUNNABLE"
        BY <2>4, ExitStates
      <4>2. state'[q] # "RUNNABLE"
        OBVIOUS
      <4> QED
        BY <3>2, <4>1, <4>2
    <3>6. ASSUME NEW r \in Slots, parent'[r] = q, state'[r] = "ZOMBIE" PROVE FALSE
      <4>1. CASE r = p
        BY ZenonT(40), <3>1, <3>2, <3>6, <4>1 DEF FamilyInv, Rooted
      <4>2. CASE r # p
        BY <3>1, <3>3, <3>5, <3>6, <4>2 DEF ZombieChild
      <4> QED
        BY SMTT(20), ZenonT(20), <4>1, <4>2
    <3> QED
      BY SMTT(20), ZenonT(20), <3>1, <3>3, <3>4, <3>6
  <2> QED
    BY SMTT(20), ZenonT(20), <1>5, <2>1, <2>2, <2>3, <2>4 DEF ExitWaitStep
<1>6. ASSUME NEW ch \in Chan, Wakeup(ch) PROVE NoLostWait'
  BY <1>1, <1>6 DEF Wakeup, wakeup1, Undisturbed
<1>7. CASE UNCHANGED vars
  BY <1>1, <1>7 DEF vars, fields, Undisturbed
<1> QED
  BY <1>2, <1>3, <1>4, <1>5, <1>6, <1>7 DEF Next

(***************************************************************************)
(* A process asleep in wait() always has a reason to be: exit() and kill() *)
(* wake it, whatever the interleaving of forks, exits and reparenting.     *)
(***************************************************************************)
THEOREM NoWaitIsLost == Spec => []NoLostWait
<1>1. Init => StackInv /\ FamilyInv /\ NoLostWait
  <2>1. Init => NoLostWait
    BY DEF Init, NoLostWait
  <2> QED
    BY <2>1, StackInit, FamilyInit
<1>2. (StackInv /\ FamilyInv /\ NoLostWait) /\ [Next]_vars => (StackInv /\ FamilyInv /\ NoLostWait)'
  BY SMTT(20), ZenonT(20), StackStep, FamilyStep, WaitStep
<1> QED
  BY <1>1, <1>2, PTL DEF Spec

-----------------------------------------------------------------------------
(***************************************************************************)
(* Pids and tickets.                                                       *)
(***************************************************************************)
PidInv == UniquePids /\ \A p \in Slots : pid[p] < nextpid

(***************************************************************************)
(* Only allocproc() hands out pids and default tickets, only wait() takes  *)
(* them back, only assign_tickets replaces tickets; nothing else makes a   *)
(* free slot a process.                                                    *)
(***************************************************************************)
LEMMA NextEffects ==
  ASSUME StackInv, [Next]_vars
  PROVE  \/ /\ UNCHANGED <<pid, nextpid>>
            /\ \A q \in Slots : tickets'[q] = tickets[q] \/ tickets'[q] > 0
            /\ \A q \in Slots : state[q] = "UNUSED" => state'[q] = "UNUSED"
            /\ \A q \in Slots : state[q] = "ZOMBIE" => state'[q] = "ZOMBIE"
         \/ \E c \in CPU, p \in Slots : ForkAlloc(c, p)
         \/ \E c \in CPU, p, q \in Slots : WaitReap(c, p, q)
<1> DEFINE Same == /\ UNCHANGED <<pid, nextpid>>
                   /\ \A q \in Slots : tickets'[q] = tickets[q] \/ tickets'[q] > 0
                   /\ \A q \in Slots : state[q] = "UNUSED" => state'[q] = "UNUSED"
                   /\ \A q \in Slots : state[q] = "ZOMBIE" => state'[q] = "ZOMBIE"
<1> USE DEF StackInv, TypeOK
<1>1. ASSUME NEW c \in CPU, SchedulerStep(c) \/ InitExiting(c) PROVE Same
  <2>1. ASSUME NEW p \in Slots, SchedPick(c, p) PROVE Same
    BY SMTT(20), ZenonT(20), <2>1 DEF SchedPick
  <2>2. CASE \/ SwtchTo(c) \/ SwtchBack(c) \/ SchedBack(c) \/ InitExiting(c)
             \/ \E p \in Slots : ReturnFromSwtch(c, p)
    BY SMTT(20), ZenonT(20), <2>2 DEF SwtchTo, SwtchBack, SchedBack, InitExiting, ReturnFromSwtch, fields
  <2> QED
    BY ZenonT(40), <1>1, <2>1, <2>2 DEF SchedulerStep
<1>2. ASSUME NEW c \in CPU, NEW p \in Slots, TrapStep(c, p) PROVE Same
  <2>1. CASE Yield(c, p)
    BY SMTT(20), ZenonT(20), <2>1, RunsRunning DEF Yield
  <2>2. CASE \/ Syscall(c, p) \/ SyscallDone(c, p) \/ SyscallReturn(c, p)
             \/ KilledExit(c, p) \/ UserFault(c, p)
    BY SMTT(20), ZenonT(20), <2>2 DEF Syscall, SyscallDone, SyscallReturn, KilledExit, UserFault, fields
  <2> QED
    BY ZenonT(40), <1>2, <2>1, <2>2 DEF TrapStep
<1>3. ASSUME NEW c \in CPU, NEW p \in Slots,
             ForkNoSlot(c, p) \/ ForkKstack(c, p) \/ ForkCopy(c, p) \/ ForkPublish(c, p)
      PROVE  Same
  <2>1. CASE ForkNoSlot(c, p)
    BY SMTT(20), ZenonT(20), <2>1 DEF ForkNoSlot, fields
  <2>2. CASE ForkKstack(c, p) \/ ForkCopy(c, p) \/ ForkPublish(c, p)
    <3>1. np[p] \in Slots /\ state[np[p]] = "EMBRYO"
      BY SMTT(20), ZenonT(20), <2>2 DEF ForkKstack, ForkCopy, ForkPublish, ForkInv, ForkLabels
    <3> QED
      BY SMTT(20), ZenonT(20), <2>2, <3>1 DEF ForkKstack, ForkCopy, ForkPublish
  <2> QED
    BY ZenonT(40), <1>3, <2>1, <2>2
<1>4. ASSUME NEW c \in CPU, NEW p \in Slots,
             \/ ExitCall(c, p) \/ Exit(c, p)
             \/ WaitCall(c, p) \/ WaitFail(c, p) \/ WaitSleep(c, p)
      PROVE  Same
  <2>1. CASE ExitCall(c, p) \/ WaitCall(c, p) \/ WaitFail(c, p)
    BY SMTT(20), ZenonT(20), <2>1 DEF ExitCall, WaitCall, WaitFail, fields
  <2>2. CASE WaitSleep(c, p)
    BY SMTT(20), ZenonT(20), <2>2, RunsRunning DEF WaitSleep
  <2>3. CASE Exit(c, p)
    <3>1. UNCHANGED <<pid, nextpid, tickets>>
      BY SMTT(20), ZenonT(20), <2>3 DEF Exit
    <3> QED
      BY ZenonT(40), <2>3, <3>1, ExitStates
  <2> QED
    BY ZenonT(40), <1>4, <2>1, <2>2, <2>3
<1>5. ASSUME NEW c \in CPU, NEW p \in Slots, SignalStep(c, p) PROVE Same
  <2>1. ASSUME NEW ch \in Chan, SleepOn(c, p, ch) PROVE Same
    BY <2>1, RunsRunning DEF SleepOn
  <2>2. ASSUME NEW k \in KillPids, Kill(c, p, k) PROVE Same
    BY <2>2 DEF Kill, Woken
  <2>3. ASSUME NEW k \in KillPids, NEW t \in AssignValues, AssignTickets(c, p, k, t) PROVE Same
    BY <2>3, ProcConstants DEF AssignTickets
  <2> QED
    BY ZenonT(40), <1>5, <2>1, <2>2, <2>3 DEF SignalStep
<1>6. ASSUME NEW ch \in Chan, Wakeup(ch) PROVE Same
  BY <1>6 DEF Wakeup, wakeup1
<1>7. CASE UNCHANGED vars
  BY <1>7 DEF vars, fields
<1> QED
  BY ZenonT(40), <1>1, <1>2, <1>3, <1>4, <1>5, <1>6, <1>7 DEF Next, ForkStep, ExitWaitStep

(* Pids are unique, left-over pids of free slots included. *)
THEOREM PidsAreUnique == Spec => []UniquePids
<1>1. Init => PidInv
  BY SMTT(20), ZenonT(20) DEF Init, PidInv, UniquePids
<1>2. StackInv /\ PidInv /\ [Next]_vars => PidInv'
  <2> SUFFICES ASSUME StackInv, PidInv, [Next]_vars PROVE PidInv'
    OBVIOUS
  <2> USE DEF StackInv, TypeOK, PidInv, UniquePids
  <2>1. CASE UNCHANGED <<pid, nextpid>>
    BY <2>1
  <2>2. ASSUME NEW c \in CPU, NEW p \in Slots, ForkAlloc(c, p) PROVE PidInv'
    <3>1. PICK q \in Slots : pid' = [pid EXCEPT ![q] = nextpid]
      BY ZenonT(40), <2>2 DEF ForkAlloc
    <3>2. /\ nextpid' = nextpid + 1 /\ nextpid \in Nat
          /\ DOMAIN pid = Slots /\ \A r \in Slots : pid[r] \in Nat
      BY <2>2 DEF ForkAlloc
    <3> HIDE DEF StackInv, TypeOK
    <3>3. pid'[q] = nextpid /\ \A r \in Slots \ {q} : pid'[r] = pid[r]
      BY <3>1, <3>2
    <3> QED
      BY <3>2, <3>3
  <2>3. ASSUME NEW c \in CPU, NEW p \in Slots, NEW q \in Slots, WaitReap(c, p, q) PROVE PidInv'
    <3> HIDE DEF PidInv, UniquePids
    <3>1. nextpid > 0 /\ pid \in [Slots -> 0..MaxPid]
      OBVIOUS
    <3> HIDE DEF StackInv, TypeOK
    <3>2. pid' = [pid EXCEPT ![q] = 0] /\ nextpid' = nextpid
      BY <2>3 DEF WaitReap
    <3>3. pid'[q] = 0 /\ \A r \in Slots \ {q} : pid'[r] = pid[r]
      BY <3>1, <3>2
    <3> QED
      BY <3>1, <3>2, <3>3 DEF PidInv, UniquePids
  <2> QED
    BY ZenonT(40), <2>1, <2>2, <2>3, NextEffects
<1>3. PidInv => UniquePids
  BY DEF PidInv
<1> QED
  BY <1>1, <1>2, <1>3, StackInit, StackStep, PTL DEF Spec

(* Every process has a ticket: assign_tickets and allocproc see to it. *)
THEOREM ProcessesHaveTickets == Spec => []LiveHaveTickets
<1>1. Init => LiveHaveTickets
  BY SMTT(20), ZenonT(20), ProcConstants DEF Init, LiveHaveTickets
<1>2. StackInv /\ LiveHaveTickets /\ [Next]_vars => LiveHaveTickets'
  <2> SUFFICES ASSUME StackInv, LiveHaveTickets, [Next]_vars PROVE LiveHaveTickets'
    BY SMTT(20), ZenonT(20)
  <2> USE DEF StackInv, TypeOK, LiveHaveTickets
  <2>1. CASE /\ \A q \in Slots : tickets'[q] = tickets[q] \/ tickets'[q] > 0
             /\ \A q \in Slots : state[q] = "UNUSED" => state'[q] = "UNUSED"
    BY ZenonT(40), <2>1
  <2>2. ASSUME NEW c \in CPU, NEW p \in Slots, ForkAlloc(c, p) PROVE LiveHaveTickets'
    BY SMTT(20), ZenonT(20), <2>2, ProcConstants DEF ForkAlloc
  <2>3. ASSUME NEW c \in CPU, NEW p \in Slots, NEW q \in Slots, WaitReap(c, p, q)
        PROVE  LiveHaveTickets'
    BY Zenon, <2>3 DEF WaitReap
  <2> QED
    BY Zenon, <2>1, <2>2, <2>3, NextEffects
<1> QED
  BY <1>1, <1>2, StackInit, StackStep, PTL DEF Spec

(***************************************************************************)
(* A zombie leaves its state only through its parent's wait(), with the    *)
(* slot's fields reset.                                                    *)
(***************************************************************************)
THEOREM ZombiesAreOnlyReaped == Spec => ZombieOnlyReaped
<1> DEFINE A == \A p \in Slots : state[p] = "ZOMBIE" /\ state'[p] # "ZOMBIE" =>
                  /\ state'[p] = "UNUSED" /\ pid'[p] = 0 /\ ~killed'[p] /\ parent'[p] = NULL
                  /\ pc[parent[p]] = "scan"
<1>1. StackInv /\ [Next]_vars => [A]_vars
  <2> SUFFICES ASSUME StackInv, [Next]_vars PROVE A
    BY ZenonT(40)
  <2>1. CASE \A q \in Slots : state[q] = "ZOMBIE" => state'[q] = "ZOMBIE"
    BY ZenonT(40), <2>1
  <2>2. ASSUME NEW c \in CPU, NEW p \in Slots, ForkAlloc(c, p) PROVE A
    BY SMTT(20), ZenonT(20), <2>2 DEF ForkAlloc, FirstUnused, StackInv, TypeOK
  <2>3. ASSUME NEW c \in CPU, NEW p \in Slots, NEW q \in Slots, WaitReap(c, p, q) PROVE A
    BY Zenon, <2>3 DEF WaitReap, ZombieChild, StackInv, TypeOK
  <2> QED
    BY Zenon, <2>1, <2>2, <2>3, NextEffects
<1> QED
  BY <1>1, StackInit, StackStep, PTL DEF Spec, ZombieOnlyReaped

=============================================================================
