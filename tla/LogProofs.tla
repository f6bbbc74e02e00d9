----------------------------- MODULE LogProofs ------------------------------
(***************************************************************************)
(* The log implements AtomicDisk for any number of calls, blocks and       *)
(* contents and any size of the log.                                       *)
(***************************************************************************)
EXTENDS Log, FiniteSetTheorems, TLAPS

Distinct(s) == \A j, k \in 1..Len(s) : s[j] = s[k] => j = k

(* Each block is in the log once, and the log fits. *)
HeadersInv ==
    /\ Distinct(lh) /\ Len(lh) <= LOGSIZE
    /\ Distinct(head) /\ Len(head) <= LOGSIZE

(* outstanding counts the calls in progress; none is during a commit. *)
CallsInv ==
    /\ outstanding = Cardinality(Active)
    /\ committing <=> stage \in Commits
    /\ stage \in Commits \cup Recovers => outstanding = 0

Pinned(b) == b \in dirty /\ mem[b] # NotCached

(* What is where, in each stage. *)
CleanInv == \A b \in Block : ~Logged(b) \/ stage \in Recovers => bread[b] = home[b]

StageInv ==
    /\ stage \in {"none", "write_log"} =>
         head = <<>> /\ \A k \in 1..Len(lh) : Pinned(lh[k])
    /\ stage = "none" /\ outstanding = 0 => lh = <<>>
    /\ stage = "write_log" =>
         tail <= Len(lh) /\ \A k \in 1..tail : logdata[k] = mem[lh[k]]
    /\ stage \in {"install", "reinstall"} =>
         /\ lh = head /\ tail <= Len(lh)
         /\ \A k \in 1..tail : home[lh[k]] = logdata[k]
    /\ stage = "install" =>
         /\ \A k \in 1..Len(lh) : bread[lh[k]] = logdata[k]
         /\ \A k \in 1..Len(lh) : k > tail => Pinned(lh[k])
    /\ stage = "done" => lh = <<>> /\ head = <<>>

LogInv == TypeOK /\ HeadersInv /\ CallsInv /\ CleanInv /\ StageInv

-----------------------------------------------------------------------------

(* Recovery puts the k-th log block into the k-th block of the header. *)
LEMMA RecoveredBlock ==
    ASSUME TypeOK, HeadersInv, NEW k \in 1..Len(head)
    PROVE  head[k] \in Block /\ Recovered[head[k]] = logdata[k]
<1>1. head[k] \in Block
  BY DEF TypeOK
<1>2. InHead(head[k])
  BY DEF InHead
<1>3. PICK j \in 1..Len(head) : j = CHOOSE i \in 1..Len(head) : head[i] = head[k]
  OBVIOUS
<1>4. head[j] = head[k]
  BY <1>3
<1>5. j = k
  BY <1>4 DEF HeadersInv, Distinct
<1> QED
  BY Zenon, <1>1, <1>2, <1>3, <1>5 DEF Recovered

LEMMA RecoveredOther ==
    ASSUME NEW b \in Block, ~InHead(b)
    PROVE  Recovered[b] = home[b]
  BY DEF Recovered

(* With an empty header there is nothing to recover. *)
LEMMA RecoveredEmpty ==
    ASSUME TypeOK, head = <<>>
    PROVE  Recovered = home
<1>1. \A b \in Block : ~InHead(b)
  BY DEF InHead
<1>2. \A b \in Block : Recovered[b] = home[b]
  BY <1>1 DEF Recovered
<1> QED
  BY <1>2 DEF Recovered, TypeOK

(* Recovered depends on the disk only. *)
LEMMA RecoveredStable ==
    ASSUME UNCHANGED disk
    PROVE  Recovered' = Recovered
  BY DEF Recovered, InHead, disk

LEMMA ActiveFinite == IsFiniteSet(Active)
  BY LogConstants, FS_Subset DEF Active

-----------------------------------------------------------------------------

LEMMA LogInit == Init => LogInv
<1> SUFFICES ASSUME Init PROVE LogInv
  OBVIOUS
<1>1. TypeOK
  <2>1. mem \in [Block -> Val \cup {NotCached}] /\ wrote \in [Op -> SUBSET Block]
    BY DEF Init
  <2>2. pc \in [Op -> {"out", "begin", "asleep", "op", "commit"}]
    BY DEF Init
  <2>3. stage \in Recovers /\ tail \in 0..LOGSIZE /\ head \in Seq(Block) /\ lh \in Seq(Block)
    BY LogConstants DEF Init, Recovers
  <2> QED
    BY Zenon, <2>1, <2>2, <2>3 DEF Init, TypeOK
<1>2. HeadersInv
  BY LogConstants DEF Init, HeadersInv, Distinct
<1>3. CallsInv
  <2>1. Active = {}
    BY DEF Init, Active
  <2>2. Cardinality(Active) = 0
    BY <2>1, FS_EmptySet
  <2> QED
    BY <2>2 DEF Init, CallsInv, Commits, Recovers
<1>4. CleanInv /\ StageInv
  BY SMTT(20), ZenonT(20) DEF Init, CleanInv, StageInv, bread, Recovers
<1> QED
  BY <1>1, <1>2, <1>3, <1>4 DEF LogInv

LEMMA TypeStep == LogInv /\ [Next]_vars => TypeOK'
<1> SUFFICES ASSUME LogInv, [Next]_vars PROVE TypeOK'
  OBVIOUS
<1> USE DEF LogInv, TypeOK
<1>1. ASSUME NEW o \in Op, BeginCall(o) PROVE TypeOK'
  BY <1>1 DEF BeginCall, disk, cache
<1>2. ASSUME NEW o \in Op, BeginSleep(o) PROVE TypeOK'
  BY <1>2 DEF BeginSleep, disk, cache
<1>3. ASSUME NEW o \in Op, BeginGo(o) PROVE TypeOK'
  BY <1>3 DEF BeginGo, disk, cache
<1>4. ASSUME NEW o \in Op, EndMore(o) PROVE TypeOK'
  <2>1. outstanding - 1 \in Nat
    <3>1. o \in Active
      BY <1>4 DEF EndMore, Active
    <3>2. Cardinality(Active) # 0
      BY <3>1, ActiveFinite, FS_EmptySet
    <3> QED
      BY <3>2 DEF CallsInv
  <2> QED
    BY <1>4, <2>1 DEF EndMore, disk, cache, wakeup
<1>5. ASSUME NEW o \in Op, EndLast(o) PROVE TypeOK'
  BY <1>5, LogConstants DEF EndLast, disk, cache, Commits
<1>6. ASSUME NEW o \in Op, EndCommit(o) PROVE TypeOK'
  BY Zenon, <1>6 DEF EndCommit, disk, cache, wakeup
<1>7. ASSUME NEW o \in Op, NEW b \in Block, NEW v \in Val, LogWrite(o, b, v) PROVE TypeOK'
  BY <1>7 DEF LogWrite, disk
<1>8. CASE WriteLog
  <2>1. tail + 1 \in 1..Len(lh) /\ Len(lh) <= LOGSIZE
    BY <1>8 DEF WriteLog, HeadersInv
  <2>2. lh[tail + 1] \in Block
    BY <2>1
  <2>3. bread[lh[tail + 1]] \in Val
    BY <2>2 DEF bread
  <2> QED
    BY <1>8, <2>1, <2>3, LogConstants DEF WriteLog, cache, calls
<1>9. CASE WriteHead
  BY <1>9, LogConstants DEF WriteHead, cache, calls, Commits
<1>10. CASE ReadHead
  BY <1>10, LogConstants DEF ReadHead, disk, cache, calls, Recovers
<1>11. CASE InstallTrans
  <2>1. tail + 1 \in 1..Len(lh) /\ Len(lh) <= LOGSIZE
    BY <1>11 DEF InstallTrans, HeadersInv
  <2>2. lh[tail + 1] \in Block /\ logdata[tail + 1] \in Val
    BY <2>1, LogConstants
  <2> QED
    BY <1>11, <2>1, <2>2, LogConstants DEF InstallTrans, calls
<1>12. CASE EraseHead
  BY <1>12, LogConstants DEF EraseHead, cache, calls, Commits
<1>13. ASSUME NEW b \in Block, Evict(b) PROVE TypeOK'
  BY <1>13 DEF Evict, disk, calls
<1>14. CASE Crash
  <2>1. mem' \in [Block -> Val \cup {NotCached}] /\ wrote' \in [Op -> SUBSET Block]
    BY <1>14 DEF Crash
  <2>2. pc' \in [Op -> {"out", "begin", "asleep", "op", "commit"}]
    BY <1>14 DEF Crash
  <2>3. stage' \in Recovers /\ tail' \in 0..LOGSIZE /\ lh' \in Seq(Block)
    BY <1>14, LogConstants DEF Crash, Recovers
  <2> QED
    BY Zenon, <1>14, <2>1, <2>2, <2>3 DEF Crash, disk
<1>15. CASE UNCHANGED vars
  BY <1>15 DEF vars, disk, cache, calls
<1> QED
  BY <1>1, <1>2, <1>3, <1>4, <1>5, <1>6, <1>7, <1>8, <1>9, <1>10, <1>11, <1>12,
     <1>13, <1>14, <1>15 DEF Next, CallStep, LogStep

LEMMA HeadersStep == LogInv /\ [Next]_vars => HeadersInv'
<1> SUFFICES ASSUME LogInv, [Next]_vars PROVE HeadersInv'
  OBVIOUS
<1> USE DEF LogInv, HeadersInv
<1>1. CASE UNCHANGED <<lh, head>>
  BY <1>1 DEF Distinct
<1>2. ASSUME NEW o \in Op, NEW b \in Block, NEW v \in Val, LogWrite(o, b, v) PROVE HeadersInv'
  <2>1. CASE Logged(b)
    BY <1>2, <2>1 DEF LogWrite, disk, Distinct
  <2>2. CASE ~Logged(b)
    <3>1. lh' = Append(lh, b) /\ head' = head
      BY <1>2, <2>2 DEF LogWrite, disk
    <3>2. lh \in Seq(Block) /\ Len(lh) < LOGSIZE /\ Len(lh) \in Nat
      BY <1>2, LogConstants DEF LogWrite, TooBig, TypeOK
    <3>3. Len(lh') = Len(lh) + 1
      BY <3>1, <3>2
    <3>4. \A k \in 1..Len(lh) : lh'[k] = lh[k] /\ lh[k] # b
      BY <3>1, <3>2, <2>2 DEF Logged
    <3>5. lh'[Len(lh) + 1] = b
      BY <3>1, <3>2
    <3>6. ASSUME NEW j \in 1..Len(lh'), NEW k \in 1..Len(lh'), lh'[j] = lh'[k] PROVE j = k
      <4>1. CASE j \in 1..Len(lh) /\ k \in 1..Len(lh)
        BY <4>1, <3>4, <3>6 DEF Distinct
      <4>2. CASE j = Len(lh) + 1 \/ k = Len(lh) + 1
        <5>1. j \in 1..Len(lh) \/ j = Len(lh) + 1
          BY <3>2, <3>3
        <5>2. k \in 1..Len(lh) \/ k = Len(lh) + 1
          BY <3>2, <3>3
        <5> QED
          BY <5>1, <5>2, <4>2, <3>4, <3>5, <3>6
      <4> QED
        BY <4>1, <4>2, <3>2, <3>3
    <3> QED
      BY <3>1, <3>2, <3>3, <3>6, LogConstants DEF Distinct
  <2> QED
    BY <2>1, <2>2
<1>3. CASE WriteHead
  BY <1>3 DEF WriteHead, Distinct
<1>4. CASE ReadHead
  BY <1>4 DEF ReadHead, disk, Distinct
<1>5. CASE EraseHead
  BY <1>5, LogConstants DEF EraseHead, Distinct
<1>6. CASE Crash
  BY <1>6, LogConstants DEF Crash, disk, Distinct
<1> QED
  BY <1>1, <1>2, <1>3, <1>4, <1>5, <1>6
  DEF Next, CallStep, LogStep, BeginCall, BeginSleep, BeginGo, EndMore, EndLast, EndCommit,
      WriteLog, InstallTrans, Evict, vars, disk

LEMMA CallsStep == LogInv /\ [Next]_vars => CallsInv'
<1> SUFFICES ASSUME LogInv, [Next]_vars PROVE CallsInv'
  OBVIOUS
<1> USE DEF LogInv, CallsInv
<1>1. pc \in [Op -> {"out", "begin", "asleep", "op", "commit"}] /\ outstanding \in Nat
  BY DEF TypeOK
<1>2. Active = {} <=> outstanding = 0
  BY ActiveFinite, FS_EmptySet
<1>3. CASE UNCHANGED <<outstanding, committing, stage>> /\ Active' = Active
  BY <1>3
<1>4. ASSUME NEW o \in Op, BeginCall(o) \/ BeginSleep(o) PROVE CallsInv'
  <2>1. Active' = Active
    BY <1>1, <1>4 DEF BeginCall, BeginSleep, Active
  <2> QED
    BY <2>1, <1>3, <1>4 DEF BeginCall, BeginSleep
<1>5. ASSUME NEW o \in Op, BeginGo(o) PROVE CallsInv'
  <2>1. o \notin Active /\ Active' = Active \cup {o}
    BY <1>1, <1>5 DEF BeginGo, Active
  <2>2. Cardinality(Active') = Cardinality(Active) + 1
    BY Zenon, <2>1, ActiveFinite, FS_AddElement
  <2>3. stage \notin Commits \cup Recovers
    BY <1>5 DEF BeginGo, Running
  <2> QED
    BY <1>5, <2>2, <2>3 DEF BeginGo
<1>6. ASSUME NEW o \in Op, EndMore(o) \/ EndLast(o) PROVE CallsInv'
  <2>1. o \in Active /\ Active' = Active \ {o}
    BY Zenon, <1>1, <1>6 DEF EndMore, EndLast, Active, wakeup
  <2>2. Cardinality(Active') = Cardinality(Active) - 1
    BY Zenon, <2>1, ActiveFinite, FS_RemoveElement
  <2>3. CASE EndMore(o)
    BY <2>2, <2>3, <1>1 DEF EndMore, Running
  <2>4. CASE EndLast(o)
    BY <2>2, <2>4, <1>1 DEF EndLast, Commits
  <2> QED
    BY <1>6, <2>3, <2>4
<1>7. ASSUME NEW o \in Op, EndCommit(o) PROVE CallsInv'
  <2>1. Active' = Active
    BY <1>1, <1>7 DEF EndCommit, Active, wakeup
  <2> QED
    BY <2>1, <1>7 DEF EndCommit, Commits, Recovers
<1>8. ASSUME NEW o \in Op, NEW b \in Block, NEW v \in Val, LogWrite(o, b, v) PROVE CallsInv'
  BY <1>3, <1>8 DEF LogWrite, Active
<1>9. CASE LogStep
  <2>1. Active' = Active /\ outstanding' = outstanding /\ committing' = committing
    BY <1>9 DEF LogStep, WriteLog, WriteHead, ReadHead, InstallTrans, EraseHead, Active, calls
  <2>2. stage \in Commits <=> stage' \in Commits
    BY <1>9 DEF LogStep, WriteLog, WriteHead, ReadHead, InstallTrans, EraseHead, Commits
  <2>3. stage \in Commits \cup Recovers
    BY <1>9 DEF LogStep, WriteLog, WriteHead, ReadHead, InstallTrans, EraseHead, Commits, Recovers
  <2> QED
    BY <2>1, <2>2, <2>3
<1>10. ASSUME NEW b \in Block, Evict(b) PROVE CallsInv'
  BY <1>3, <1>10 DEF Evict, calls, Active
<1>11. CASE Crash
  <2>1. Active' = {}
    BY <1>11 DEF Crash, Active
  <2>2. Cardinality(Active') = 0
    BY <2>1, FS_EmptySet
  <2> QED
    BY <2>2, <1>11 DEF Crash, Commits
<1>12. CASE UNCHANGED vars
  BY <1>3, <1>12 DEF vars, calls, Active
<1> QED
  BY <1>4, <1>5, <1>6, <1>7, <1>8, <1>9, <1>10, <1>11, <1>12 DEF Next, CallStep

(* The actions that leave the blocks, the headers and the stage alone. *)
LEMMA BreadStable ==
    ASSUME UNCHANGED <<mem, home>>
    PROVE  bread' = bread
  BY DEF bread

(* InstallTrans copies a log block to its home block, in memory and on disk. *)
LEMMA InstallEffect ==
    ASSUME LogInv, InstallTrans
    PROVE  /\ tail + 1 \in 1..Len(lh) /\ Len(lh) \in Nat /\ tail \in Nat
           /\ lh[tail + 1] \in Block /\ logdata[tail + 1] \in Val
           /\ home'[lh[tail + 1]] = logdata[tail + 1]
           /\ mem'[lh[tail + 1]] = logdata[tail + 1]
           /\ bread'[lh[tail + 1]] = logdata[tail + 1]
           /\ \A b \in Block \ {lh[tail + 1]} :
                home'[b] = home[b] /\ mem'[b] = mem[b] /\ bread'[b] = bread[b]
<1>1. tail + 1 \in 1..Len(lh) /\ Len(lh) \in Nat /\ tail \in Nat
  BY LogConstants DEF InstallTrans, LogInv, TypeOK
<1>2. lh[tail + 1] \in Block /\ logdata[tail + 1] \in Val
  BY <1>1, LogConstants DEF LogInv, TypeOK, HeadersInv
<1>3. /\ home' = [home EXCEPT ![lh[tail + 1]] = logdata[tail + 1]]
      /\ mem' = [mem EXCEPT ![lh[tail + 1]] = logdata[tail + 1]]
  BY DEF InstallTrans
<1>4. home \in [Block -> Val] /\ mem \in [Block -> Val \cup {NotCached}]
  BY DEF LogInv, TypeOK
<1>5. /\ home'[lh[tail + 1]] = logdata[tail + 1] /\ mem'[lh[tail + 1]] = logdata[tail + 1]
      /\ \A b \in Block \ {lh[tail + 1]} : home'[b] = home[b] /\ mem'[b] = mem[b]
  BY SMTT(20), ZenonT(20), <1>2, <1>3, <1>4
<1> QED
  BY <1>1, <1>2, <1>5, LogConstants DEF bread

LEMMA CleanStep == LogInv /\ [Next]_vars => CleanInv'
<1> SUFFICES ASSUME LogInv, [Next]_vars PROVE CleanInv'
  OBVIOUS
<1> USE DEF LogInv, CleanInv
<1>1. CASE UNCHANGED <<mem, home, lh>> /\ (stage' \in Recovers => stage \in Recovers)
  BY <1>1, BreadStable DEF Logged
<1>2. ASSUME NEW o \in Op, NEW b \in Block, NEW v \in Val, LogWrite(o, b, v) PROVE CleanInv'
  <2>1. stage' \notin Recovers
    BY <1>2 DEF LogWrite, Running
  <2>2. \A c \in Block : ~Logged(c)' => ~Logged(c) /\ c # b
    BY <1>2 DEF LogWrite, Logged, TypeOK
  <2>3. \A c \in Block \ {b} : bread'[c] = bread[c] /\ home'[c] = home[c]
    BY <1>2 DEF LogWrite, bread, disk, TypeOK
  <2> QED
    BY SMTT(20), ZenonT(20), <2>1, <2>2, <2>3
<1>3. CASE ReadHead
  BY <1>3, BreadStable DEF ReadHead, Recovers, disk, cache
<1>4. CASE InstallTrans
  <2>1. ASSUME NEW b \in Block, ~Logged(b)' \/ stage' \in Recovers PROVE bread'[b] = home'[b]
    <3>1. CASE b = lh[tail + 1]
      BY <3>1, <1>4, InstallEffect
    <3>2. CASE b # lh[tail + 1]
      <4>1. ~Logged(b) \/ stage \in Recovers
        BY <2>1, <1>4 DEF InstallTrans, Logged
      <4> QED
        BY <4>1, <3>2, <1>4, InstallEffect
    <3> QED
      BY SMTT(20), ZenonT(20), <3>1, <3>2
  <2> QED
    BY <2>1
<1>5. CASE EraseHead
  <2>1. \A b \in Block : bread[b] = home[b]
    <3>1. CASE stage = "reinstall"
      BY <3>1 DEF Recovers
    <3>2. CASE stage = "install"
      <4>1. \A k \in 1..Len(lh) : bread[lh[k]] = home[lh[k]]
        BY <1>5, <3>2 DEF EraseHead, StageInv
      <4> QED
        BY <4>1 DEF Logged
    <3> QED
      BY <1>5, <3>1, <3>2 DEF EraseHead
  <2>2. UNCHANGED <<mem, home>>
    BY <1>5 DEF EraseHead, cache
  <2> QED
    BY <2>1, <2>2, BreadStable
<1>6. ASSUME NEW b \in Block, Evict(b) PROVE CleanInv'
  <2>1. \A c \in Block : bread'[c] = home[c] \/ bread'[c] = bread[c]
    BY <1>6 DEF Evict, bread, disk, TypeOK
  <2> QED
    BY <1>6, <2>1 DEF Evict, disk, Logged
<1>7. CASE Crash
  BY <1>7 DEF Crash, bread, disk
<1>8. ASSUME NEW o \in Op, BeginCall(o) \/ CallStep(o) PROVE CleanInv'
  <2>1. UNCHANGED <<mem, home, lh>>
    BY <1>8 DEF CallStep, BeginCall, BeginSleep, BeginGo, EndMore, EndLast, EndCommit, disk, cache
  <2>2. stage' \notin Recovers
    BY SMTT(20), ZenonT(20), <1>8 DEF CallStep, BeginCall, BeginSleep, BeginGo, EndMore, EndLast, EndCommit, Running, Recovers
  <2> QED
    BY <1>1, <2>1, <2>2
<1>9. CASE WriteLog \/ WriteHead
  BY <1>1, <1>9 DEF WriteLog, WriteHead, cache, Recovers
<1>10. CASE UNCHANGED vars
  BY <1>1, <1>10 DEF vars, disk, cache
<1> QED
  BY <1>2, <1>3, <1>4, <1>5, <1>6, <1>7, <1>8, <1>9, <1>10 DEF Next, LogStep

LEMMA StageStep == LogInv /\ [Next]_vars => StageInv'
<1> SUFFICES ASSUME LogInv, [Next]_vars PROVE StageInv'
  OBVIOUS
<1> USE DEF LogInv
<1>t. /\ lh \in Seq(Block) /\ Len(lh) \in Nat /\ outstanding \in Nat /\ tail \in Nat
      /\ mem \in [Block -> Val \cup {NotCached}] /\ dirty \subseteq Block
      /\ \A k \in 1..Len(lh) : lh[k] \in Block
  BY LogConstants DEF TypeOK
<1>1. CASE UNCHANGED <<disk, cache, lh, stage, tail>> /\ (outstanding' = 0 => outstanding = 0)
  BY <1>1, BreadStable DEF StageInv, Pinned, disk, cache
<1>2. ASSUME NEW o \in Op, BeginCall(o) \/ BeginSleep(o) \/ BeginGo(o) \/ EndMore(o)
      PROVE  StageInv'
  BY <1>1, <1>2, <1>t DEF BeginCall, BeginSleep, BeginGo, EndMore
<1>3. ASSUME NEW o \in Op, EndLast(o) PROVE StageInv'
  <2>1. stage = "none"
    BY <1>3 DEF EndLast, Running, CallsInv, TypeOK
  <2>2. UNCHANGED <<disk, cache, lh>> /\ tail' = 0 /\ stage' \in {"done", "write_log"}
    BY <1>3 DEF EndLast
  <2>3. stage' = "done" => lh = <<>>
    BY <1>3 DEF EndLast
  <2>4. head = <<>> /\ \A k \in 1..Len(lh) : Pinned(lh[k])
    BY <2>1 DEF StageInv
  <2> QED
    BY <2>2, <2>3, <2>4, <1>t DEF StageInv, Pinned, disk, cache
<1>4. ASSUME NEW o \in Op, EndCommit(o) PROVE StageInv'
  <2>1. lh' = <<>> /\ head' = <<>> /\ stage' = "none"
    BY <1>4 DEF EndCommit, StageInv, disk
  <2> QED
    BY <2>1 DEF StageInv
<1>5. ASSUME NEW o \in Op, NEW b \in Block, NEW v \in Val, LogWrite(o, b, v) PROVE StageInv'
  <2>1. stage = "none" /\ stage' = "none" /\ outstanding' # 0
    BY <1>5, <1>t DEF LogWrite, CallsInv, TypeOK
  <2>2. head' = <<>>
    BY <1>5, <2>1 DEF LogWrite, StageInv, disk
  <2>3. \A k \in 1..Len(lh) : Pinned(lh[k])
    BY <2>1 DEF StageInv
  <2>4. mem' = [mem EXCEPT ![b] = v] /\ dirty' = dirty \cup {b} /\ v # NotCached
    BY <1>5, LogConstants DEF LogWrite
  <2>5. \A k \in 1..Len(lh') : (k \in 1..Len(lh) /\ lh'[k] = lh[k]) \/ lh'[k] = b
    BY <1>5, <1>t DEF LogWrite
  <2>6. \A k \in 1..Len(lh') : lh'[k] \in dirty' /\ mem'[lh'[k]] # NotCached
    BY <2>3, <2>5, <2>4, <1>t DEF Pinned
  <2> QED
    BY <2>1, <2>2, <2>6 DEF StageInv, Pinned
<1>6. CASE WriteLog
  <2>1. UNCHANGED <<home, head, mem, dirty, lh, stage, outstanding>> /\ stage = "write_log"
    BY <1>6 DEF WriteLog, cache
  <2>2. tail + 1 \in 1..Len(lh) /\ tail' = tail + 1
    BY <1>6, <1>t DEF WriteLog
  <2>3. bread[lh[tail + 1]] = mem[lh[tail + 1]]
    BY SMTT(20), ZenonT(20), <2>1, <2>2, <1>t DEF StageInv, Pinned, bread
  <2>4. logdata' = [logdata EXCEPT ![tail + 1] = mem[lh[tail + 1]]]
    BY <1>6, <2>3 DEF WriteLog
  <2>5. logdata \in [1..LOGSIZE -> Val] /\ Len(lh) <= LOGSIZE /\ LOGSIZE \in Nat
    BY LogConstants DEF TypeOK, HeadersInv
  <2>6. \A k \in 1..tail' : logdata'[k] = mem[lh[k]]
    BY <2>1, <2>2, <2>4, <2>5, <1>t DEF StageInv
  <2>7. head' = <<>> /\ \A k \in 1..Len(lh') : Pinned(lh[k])'
    BY <2>1 DEF StageInv, Pinned
  <2> QED
    BY <2>1, <2>2, <2>6, <2>7, <1>t DEF StageInv, Pinned
<1>7. CASE WriteHead
  <2>1. UNCHANGED <<home, logdata, mem, dirty, lh, outstanding>> /\ stage = "write_log"
    BY <1>7 DEF WriteHead, cache
  <2>2. head' = lh /\ stage' = "install" /\ tail' = 0 /\ tail = Len(lh)
    BY <1>7 DEF WriteHead
  <2>3. \A k \in 1..Len(lh) : Pinned(lh[k]) /\ logdata[k] = mem[lh[k]]
    BY <2>1, <2>2 DEF StageInv
  <2>4. \A k \in 1..Len(lh) : bread[lh[k]] = logdata[k]
    BY <2>3, <1>t DEF bread, Pinned
  <2>5. bread' = bread
    BY <2>1, BreadStable
  <2> QED
    BY <2>1, <2>2, <2>3, <2>4, <2>5, <1>t DEF StageInv, Pinned
<1>8. CASE ReadHead
  <2>1. head \in Seq(Block)
    BY DEF TypeOK
  <2>2. lh' = head /\ head' = head /\ tail' = 0 /\ stage' = "reinstall" /\ Len(head) \in Nat
    BY <1>8, <2>1 DEF ReadHead, disk
  <2> QED
    BY <2>2 DEF StageInv
<1>9. CASE InstallTrans
  <2> DEFINE x == lh[tail + 1]
  <2>1. UNCHANGED <<head, logdata, lh, stage, outstanding>> /\ tail' = tail + 1
    BY <1>9 DEF InstallTrans
  <2>2. stage \in {"install", "reinstall"} /\ dirty' = dirty \ {x}
    BY <1>9 DEF InstallTrans
  <2>3. /\ tail + 1 \in 1..Len(lh) /\ x \in Block
        /\ home'[x] = logdata[tail + 1] /\ bread'[x] = logdata[tail + 1]
        /\ \A b \in Block \ {x} : home'[b] = home[b] /\ mem'[b] = mem[b] /\ bread'[b] = bread[b]
    BY <1>9, InstallEffect
  <2>4. \A k \in 1..Len(lh) : k # tail + 1 => lh[k] \in Block \ {x}
    BY <2>3, <1>t DEF HeadersInv, Distinct
  <2>5. \A k \in 1..tail' : home'[lh[k]] = logdata[k]
    <3>1. ASSUME NEW k \in 1..tail' PROVE home'[lh[k]] = logdata[k]
      <4>1. k \in 1..Len(lh) /\ (k # tail + 1 => k \in 1..tail)
        BY <2>1, <2>3, <1>t
      <4>2. CASE k = tail + 1
        BY <4>2, <2>3
      <4>3. CASE k # tail + 1
        BY <4>1, <4>3, <2>2, <2>3, <2>4 DEF StageInv
      <4> QED
        BY <4>2, <4>3
    <3> QED
      BY <3>1
  <2>6. lh = head /\ tail' <= Len(lh)
    BY <2>1, <2>2, <2>3, <1>t DEF StageInv
  <2>7. ASSUME stage = "install", NEW k \in 1..Len(lh)
        PROVE  /\ bread'[lh[k]] = logdata[k]
               /\ k > tail' => lh[k] \in dirty' /\ mem'[lh[k]] # NotCached
    <3>1. CASE k = tail + 1
      BY <3>1, <2>1, <2>3, <1>t
    <3>2. CASE k # tail + 1
      <4>1. lh[k] \in Block \ {x}
        BY <3>2, <2>4
      <4>2. bread[lh[k]] = logdata[k] /\ (k > tail => Pinned(lh[k]))
        BY <2>7 DEF StageInv
      <4> QED
        BY <4>1, <4>2, <2>1, <2>2, <2>3, <1>t DEF Pinned
    <3> QED
      BY <3>1, <3>2
  <2> HIDE DEF x
  <2> QED
    BY <2>1, <2>2, <2>5, <2>6, <2>7 DEF StageInv, Pinned
<1>10. CASE EraseHead
  <2>1. lh' = <<>> /\ head' = <<>> /\ stage' \in {"done", "none"}
    BY <1>10 DEF EraseHead
  <2> QED
    BY <2>1 DEF StageInv
<1>11. ASSUME NEW b \in Block, Evict(b) PROVE StageInv'
  <2>1. UNCHANGED <<home, head, logdata, dirty, lh, stage, tail, outstanding>>
    BY <1>11 DEF Evict, disk
  <2>2. b \notin dirty /\ mem' = [mem EXCEPT ![b] = NotCached]
    BY <1>11 DEF Evict
  <2>3. \A c \in Block : Pinned(c) => c # b /\ mem'[c] = mem[c]
    BY <2>2, <1>t DEF Pinned
  <2>4. \A c \in Block : bread'[c] = bread[c] \/ (c = b /\ bread'[c] = home[c])
    BY <2>1, <2>2, <1>t DEF bread
  <2>5. stage \in {"none", "write_log"} =>
           head' = <<>> /\ \A k \in 1..Len(lh) : lh[k] \in dirty' /\ mem'[lh[k]] # NotCached
    BY <2>1, <2>3, <1>t DEF StageInv, Pinned
  <2>6. stage = "write_log" => \A k \in 1..tail : logdata[k] = mem'[lh[k]]
    BY <2>3, <1>t DEF StageInv
  <2>7. ASSUME stage = "install", NEW k \in 1..Len(lh)
        PROVE  /\ bread'[lh[k]] = logdata[k]
               /\ k > tail => lh[k] \in dirty' /\ mem'[lh[k]] # NotCached
    <3>1. /\ bread[lh[k]] = logdata[k] /\ (k > tail => Pinned(lh[k]))
          /\ (k <= tail => home[lh[k]] = logdata[k])
      BY <2>7, <1>t DEF StageInv
    <3> QED
      BY SMTT(20), ZenonT(20), <3>1, <2>1, <2>3, <2>4, <1>t DEF Pinned
  <2> QED
    BY <2>1, <2>5, <2>6, <2>7 DEF StageInv, Pinned
<1>12. CASE Crash
  BY <1>12 DEF Crash, StageInv
<1>13. CASE UNCHANGED vars
  BY <1>1, <1>13 DEF vars
<1> QED
  BY <1>2, <1>3, <1>4, <1>5, <1>6, <1>7, <1>8, <1>9, <1>10, <1>11, <1>12, <1>13
  DEF Next, CallStep, LogStep

LEMMA LogStepKeepsInv == LogInv /\ [Next]_vars => LogInv'
  BY TypeStep, HeadersStep, CallsStep, CleanStep, StageStep DEF LogInv

LEMMA LogInvariant == Spec => []LogInv
  BY LogInit, LogStepKeepsInv, PTL DEF Spec

-----------------------------------------------------------------------------
(* Refinement *)

LEMMA RefinesInit == Init => AD!Init
<1> SUFFICES ASSUME Init PROVE AD!Init
  OBVIOUS
<1>1. TypeOK /\ head = <<>>
  BY LogInit DEF Init, LogInv
<1>2. Recovered = home
  BY <1>1, RecoveredEmpty
<1>3. Current = Recovered /\ Active = {}
  BY DEF Init, Current, Active, Recovers
<1> QED
  BY <1>1, <1>2, <1>3 DEF AD!Init, TypeOK

(* An installed log block changes nothing that recovery would see. *)
LEMMA InstallIsInvisible ==
    ASSUME LogInv, InstallTrans
    PROVE  Recovered' = Recovered /\ Current' = Current
<1> DEFINE x == lh[tail + 1]
<1>1. lh = head /\ UNCHANGED <<head, logdata, stage>>
  BY DEF InstallTrans, LogInv, StageInv
<1>2. /\ tail + 1 \in 1..Len(lh) /\ x \in Block
      /\ bread'[x] = logdata[tail + 1]
      /\ \A b \in Block \ {x} : home'[b] = home[b] /\ bread'[b] = bread[b]
  BY InstallEffect
<1>3. InHead(x)
  BY <1>1, <1>2 DEF InHead
<1> HIDE DEF x
<1>4. \A b \in Block : InHead(b)' = InHead(b)
  BY <1>1 DEF InHead
<1>5. \A b \in Block : Recovered'[b] = Recovered[b]
  BY <1>1, <1>2, <1>3, <1>4 DEF Recovered
<1>6. Recovered' = Recovered
  BY Zenon, <1>5 DEF Recovered
<1>7. stage = "install" => bread' = bread
  <2> SUFFICES ASSUME stage = "install" PROVE bread' = bread
    OBVIOUS
  <2>1. bread[x] = logdata[tail + 1]
    BY <1>2 DEF LogInv, StageInv, x
  <2>2. \A b \in Block : bread'[b] = bread[b]
    BY <2>1, <1>2
  <2> QED
    BY <2>2 DEF bread
<1> QED
  BY SMTT(20), ZenonT(20), <1>1, <1>6, <1>7 DEF Current, InstallTrans, Recovers

(* Once every block is installed the header can go. *)
LEMMA EraseIsInvisible ==
    ASSUME LogInv, EraseHead
    PROVE  Recovered' = Recovered /\ Current' = Current
<1>1. /\ lh = head /\ tail = Len(lh) /\ \A k \in 1..Len(head) : home[head[k]] = logdata[k]
      /\ stage \in {"install", "reinstall"} /\ UNCHANGED <<mem, home>> /\ head' = <<>>
  BY DEF EraseHead, LogInv, StageInv, cache
<1>2. TypeOK' /\ TypeOK /\ HeadersInv
  BY TypeStep DEF LogInv, Next, LogStep
<1>3. Recovered' = home'
  <2>1. \A b \in Block : ~InHead(b)'
    BY <1>1 DEF InHead
  <2>2. \A b \in Block : Recovered'[b] = home'[b]
    BY <2>1 DEF Recovered
  <2> QED
    BY <2>2, <1>2 DEF Recovered, TypeOK
<1>4. \A b \in Block : Recovered[b] = home[b]
  <2> TAKE b \in Block
  <2>1. CASE InHead(b)
    <3>1. PICK k \in 1..Len(head) : head[k] = b
      BY <2>1 DEF InHead
    <3> QED
      BY <3>1, <1>1, <1>2, RecoveredBlock
  <2>2. CASE ~InHead(b)
    BY <2>2, RecoveredOther
  <2> QED
    BY <2>1, <2>2
<1>5. Recovered = home
  BY Zenon, <1>2, <1>4 DEF Recovered, TypeOK
<1>6. bread' = home
  <2>1. lh' = <<>> /\ CleanInv'
    BY CleanStep DEF EraseHead, Next, LogStep
  <2>2. \A b \in Block : bread'[b] = home[b]
    BY <2>1, <1>1 DEF CleanInv, Logged
  <2> QED
    BY <2>2, <1>2 DEF bread, TypeOK
<1>7. stage = "install" => bread = home
  BY <1>1, <1>6, BreadStable
<1>8. stage' = IF stage = "install" THEN "done" ELSE "none"
  BY DEF EraseHead
<1> QED
  BY <1>1, <1>3, <1>5, <1>6, <1>7, <1>8 DEF Current, Recovers

(* The header write is the commit. *)
LEMMA WriteHeadCommits ==
    ASSUME LogInv, WriteHead
    PROVE  Recovered' = bread /\ bread' = bread
<1>1. /\ head' = lh /\ UNCHANGED <<home, logdata, mem, lh>> /\ stage = "write_log"
      /\ stage' = "install"
  BY DEF WriteHead, cache
<1>2. bread' = bread
  BY <1>1, BreadStable
<1>3. TypeOK' /\ HeadersInv' /\ StageInv' /\ CleanInv'
  BY TypeStep, HeadersStep, StageStep, CleanStep DEF Next, LogStep
<1>4. \A b \in Block : Recovered'[b] = bread[b]
  <2> TAKE b \in Block
  <2>1. CASE InHead(b)'
    <3>1. PICK k \in 1..Len(head') : head'[k] = b
      BY <2>1 DEF InHead
    <3>2. Recovered'[b] = logdata'[k]
      <4>1. PICK j \in 1..Len(head') : j = CHOOSE m \in 1..Len(head') : head'[m] = b
        BY <3>1
      <4>2. head'[j] = b
        BY <4>1, <3>1
      <4>3. j = k
        BY <4>2, <3>1, <1>3 DEF HeadersInv, Distinct
      <4> QED
        BY Zenon, <4>1, <4>3, <2>1 DEF Recovered
    <3>3. bread'[lh'[k]] = logdata'[k]
      BY <3>1, <1>1, <1>3 DEF StageInv
    <3> QED
      BY <3>1, <3>2, <3>3, <1>1, <1>2
  <2>2. CASE ~InHead(b)'
    <3>1. Recovered'[b] = home'[b]
      BY <2>2 DEF Recovered
    <3>2. ~Logged(b)'
      BY <2>2, <1>1 DEF InHead, Logged
    <3> QED
      BY <3>1, <3>2, <1>2, <1>3 DEF CleanInv
  <2> QED
    BY <2>1, <2>2
<1> QED
  BY <1>2, <1>4 DEF Recovered, bread

LEMMA RefinesStep ==
    ASSUME LogInv, [Next]_vars
    PROVE  [AD!Next]_(AD!advars)
<1> USE DEF AD!advars
<1>1. CASE UNCHANGED <<disk, mem>> /\ Active' = Active /\ (stage' \in Recovers <=> stage \in Recovers)
  <2>1. Recovered' = Recovered /\ bread' = bread
    BY <1>1, RecoveredStable, BreadStable DEF disk
  <2> QED
    BY <1>1, <2>1 DEF Current
<1>2. ASSUME NEW o \in Op, BeginCall(o) \/ BeginSleep(o) \/ EndCommit(o)
      PROVE  [AD!Next]_(AD!advars)
  <2>1. Active' = Active
    BY Zenon, <1>2 DEF BeginCall, BeginSleep, EndCommit, Active, LogInv, TypeOK, wakeup
  <2>2. UNCHANGED <<disk, mem>> /\ (stage' \in Recovers <=> stage \in Recovers)
    BY <1>2 DEF BeginCall, BeginSleep, EndCommit, cache, Recovers
  <2> QED
    BY <1>1, <2>1, <2>2
<1>3. ASSUME NEW o \in Op, BeginGo(o) \/ EndMore(o) \/ EndLast(o)
      PROVE  [AD!Next]_(AD!advars)
  <2>1. UNCHANGED <<disk, mem>> /\ stage' \notin Recovers /\ stage \notin Recovers
    BY <1>3 DEF BeginGo, EndMore, EndLast, cache, Recovers, Running
  <2>2. Recovered' = Recovered /\ bread' = bread
    BY <2>1, RecoveredStable, BreadStable DEF disk
  <2>3. Current' = Current
    BY <2>1, <2>2 DEF Current
  <2>4. CASE BeginGo(o)
    <3>1. o \notin Active /\ Active' = Active \cup {o}
      BY <2>4 DEF BeginGo, Active, LogInv, TypeOK
    <3> QED
      BY <3>1, <2>2, <2>3 DEF AD!Next, AD!Begin
  <2>5. CASE EndMore(o) \/ EndLast(o)
    <3>1. o \in Active /\ Active' = Active \ {o}
      BY Zenon, <2>5 DEF EndMore, EndLast, Active, LogInv, TypeOK, wakeup
    <3> QED
      BY <3>1, <2>2, <2>3 DEF AD!Next, AD!End
  <2> QED
    BY <1>3, <2>4, <2>5
<1>4. ASSUME NEW o \in Op, NEW b \in Block, NEW v \in Val, LogWrite(o, b, v)
      PROVE  [AD!Next]_(AD!advars)
  <2>1. Recovered' = Recovered /\ Active' = Active /\ o \in Active
    BY <1>4, RecoveredStable DEF LogWrite, Active, MayWrite
  <2>2. Current = bread /\ Current' = bread'
    BY <1>4 DEF LogWrite, Running, Current
  <2>3. bread' = [bread EXCEPT ![b] = v]
    BY Zenon, <1>4, LogConstants DEF LogWrite, bread, disk, LogInv, TypeOK
  <2> QED
    BY Zenon, <2>1, <2>2, <2>3 DEF AD!Next, AD!Write
<1>5. CASE WriteLog
  <2>1. head = <<>> /\ UNCHANGED <<home, head, mem, stage>> /\ stage \notin Recovers
    BY <1>5 DEF WriteLog, LogInv, StageInv, cache, Recovers
  <2>2. Recovered = home
    BY <2>1, RecoveredEmpty DEF LogInv
  <2>3. Recovered' = home
    <3>1. \A b \in Block : ~InHead(b)'
      BY <2>1 DEF InHead
    <3>2. \A b \in Block : Recovered'[b] = home[b]
      BY <3>1, <2>1 DEF Recovered
    <3> QED
      BY Zenon, <3>2 DEF Recovered, LogInv, TypeOK
  <2>4. Active' = Active /\ Current' = Current
    BY <1>5, <2>1, BreadStable DEF WriteLog, calls, Active, Current
  <2> QED
    BY <2>2, <2>3, <2>4
<1>6. CASE WriteHead
  <2>1. Recovered' = bread /\ bread' = bread
    BY <1>6, WriteHeadCommits
  <2>2. Current = bread /\ Current' = bread
    BY <1>6, <2>1 DEF WriteHead, Current, Recovers
  <2>3. Active' = Active
    BY <1>6 DEF WriteHead, calls, Active
  <2>4. Active = {}
    <3>1. Cardinality(Active) = 0
      BY <1>6 DEF WriteHead, LogInv, CallsInv, Commits
    <3> QED
      BY <3>1, ActiveFinite, FS_EmptySet
  <2> QED
    BY <2>1, <2>2, <2>3, <2>4 DEF AD!Next, AD!Commit
<1>7. CASE ReadHead
  <2>1. Active' = Active
    BY <1>7 DEF ReadHead, calls, Active
  <2> QED
    BY <1>1, <1>7, <2>1 DEF ReadHead, cache, Recovers
<1>8. CASE InstallTrans
  <2>1. Active' = Active
    BY <1>8 DEF InstallTrans, calls, Active
  <2> QED
    BY <1>8, <2>1, InstallIsInvisible
<1>9. CASE EraseHead
  <2>1. Active' = Active
    BY <1>9 DEF EraseHead, calls, Active
  <2> QED
    BY <1>9, <2>1, EraseIsInvisible
<1>10. ASSUME NEW b \in Block, Evict(b) PROVE [AD!Next]_(AD!advars)
  <2>1. Recovered' = Recovered /\ Active' = Active /\ stage' = stage
    BY <1>10, RecoveredStable DEF Evict, Active, calls
  <2>2. bread[b] = home[b] \/ stage \in Recovers
    <3>1. CASE ~Logged(b)
      BY <3>1 DEF LogInv, CleanInv
    <3>2. CASE Logged(b) /\ stage \notin Recovers
      <4>1. PICK k \in 1..Len(lh) : lh[k] = b
        BY <3>2 DEF Logged
      <4>2. ~Pinned(b)
        BY <1>10 DEF Evict, Pinned
      <4>3. stage = "install" /\ ~(k > tail)
        <5>1. stage \in {"none", "write_log", "install", "done"}
          BY <3>2 DEF LogInv, TypeOK, Commits, Recovers
        <5>2. stage # "done"
          BY <4>1 DEF LogInv, StageInv
        <5> QED
          BY <5>1, <5>2, <4>1, <4>2 DEF LogInv, StageInv
      <4>4. k \in 1..tail
        BY <4>3, LogConstants DEF LogInv, TypeOK
      <4> QED
        BY <4>1, <4>3, <4>4 DEF LogInv, StageInv
    <3> QED
      BY <3>1, <3>2
  <2>3. bread[b] = home[b] => bread' = bread
    <3> SUFFICES ASSUME bread[b] = home[b] PROVE bread' = bread
      OBVIOUS
    <3>1. \A c \in Block : bread'[c] = bread[c]
      BY <1>10 DEF Evict, bread, disk, LogInv, TypeOK
    <3> QED
      BY SMTT(20), ZenonT(20), <3>1 DEF bread
  <2>4. Current' = Current
    BY <2>1, <2>2, <2>3 DEF Current
  <2> QED
    BY <2>1, <2>4
<1>11. CASE Crash
  <2>1. Recovered' = Recovered /\ Active' = {}
    BY <1>11, RecoveredStable DEF Crash, Active
  <2>2. Current' = Recovered
    BY <1>11, <2>1 DEF Crash, Current, Recovers
  <2> QED
    BY <2>1, <2>2 DEF AD!Next, AD!Crash
<1>12. CASE UNCHANGED vars
  BY <1>1, <1>12 DEF vars, cache, calls, Active
<1> QED
  BY <1>2, <1>3, <1>4, <1>5, <1>6, <1>7, <1>8, <1>9, <1>10, <1>11, <1>12
  DEF Next, CallStep, LogStep

(***************************************************************************)
(* The log implements the atomic disk: after a crash anywhere in log.c,    *)
(* recover_from_log() restores the blocks of a moment when no call was in  *)
(* progress, whatever the number of calls, blocks and crashes.             *)
(***************************************************************************)
THEOREM LogIsAtomicDisk == Spec => IsAtomicDisk
<1>1. LogInv /\ [Next]_vars => [AD!Next]_(AD!advars)
  BY RefinesStep
<1> QED
  BY <1>1, RefinesInit, LogInvariant, PTL DEF Spec, IsAtomicDisk, AD!Spec

(***************************************************************************)
(* Between calls everything is in its home block and the log is empty:     *)
(* the last end_op() does not return before its commit is on disk.         *)
(***************************************************************************)
THEOREM QuiescentStateIsOnDisk == Spec => []QuiescentIsDurable
<1>1. LogInv => QuiescentIsDurable
  <2> SUFFICES ASSUME LogInv, stage = "none", outstanding = 0
               PROVE  bread = home /\ head = <<>> /\ lh = <<>>
    BY DEF QuiescentIsDurable
  <2>1. head = <<>> /\ lh = <<>>
    BY DEF LogInv, StageInv
  <2>2. \A b \in Block : bread[b] = home[b]
    BY <2>1 DEF LogInv, CleanInv, Logged
  <2> QED
    BY <2>1, <2>2 DEF bread, LogInv, TypeOK
<1> QED
  BY <1>1, LogInvariant, PTL

(* No call is in begin_op() or further while the log is recovered. *)
RecoveryAlone == stage \in Recovers => \A o \in Op : pc[o] = "out"

LEMMA RecoveryIsAlone == Spec => []RecoveryAlone
<1>1. Init => RecoveryAlone
  BY DEF Init, RecoveryAlone
<1>2. RecoveryAlone /\ [Next]_vars => RecoveryAlone'
  <2> SUFFICES ASSUME RecoveryAlone, [Next]_vars PROVE RecoveryAlone'
    OBVIOUS
  <2>1. CASE pc' = pc /\ (stage' \in Recovers => stage \in Recovers)
    BY <2>1 DEF RecoveryAlone
  <2>2. ASSUME NEW o \in Op, BeginCall(o) \/ CallStep(o) PROVE RecoveryAlone'
    BY <2>2 DEF CallStep, BeginCall, BeginSleep, BeginGo, EndMore, EndLast, EndCommit,
                Running, Recovers, RecoveryAlone
  <2>3. ASSUME NEW o \in Op, NEW b \in Block, NEW v \in Val, LogWrite(o, b, v)
        PROVE  RecoveryAlone'
    BY SMTT(20), ZenonT(20), <2>1, <2>3 DEF LogWrite
  <2>4. CASE LogStep
    BY <2>1, <2>4 DEF LogStep, WriteLog, WriteHead, ReadHead, InstallTrans, EraseHead,
                      calls, Recovers
  <2>5. ASSUME NEW b \in Block, Evict(b) PROVE RecoveryAlone'
    BY <2>1, <2>5 DEF Evict, calls
  <2>6. CASE Crash
    BY <2>6 DEF Crash, RecoveryAlone
  <2>7. CASE UNCHANGED vars
    BY <2>1, <2>7 DEF vars, calls
  <2> QED
    BY <2>2, <2>3, <2>4, <2>5, <2>6, <2>7 DEF Next
<1> QED
  BY <1>1, <1>2, PTL DEF Spec

(***************************************************************************)
(* No process is left asleep in begin_op(): whoever sleeps there sees a    *)
(* commit in progress or too little room, for any sizes of the log.        *)
(***************************************************************************)
THEOREM NoSleeperIsLost == Spec => []NoLostWakeup
<1>1. Init => NoLostWakeup
  BY DEF Init, NoLostWakeup
<1>2. LogInv /\ RecoveryAlone /\ NoLostWakeup /\ [Next]_vars => NoLostWakeup'
  <2> SUFFICES ASSUME LogInv, RecoveryAlone, NoLostWakeup, [Next]_vars, NEW p \in Op, pc'[p] = "asleep"
               PROVE  (committing \/ NoRoom)'
    BY DEF NoLostWakeup
  <2>t. /\ outstanding \in Nat /\ Len(lh) \in Nat /\ MAXOPBLOCKS \in Nat /\ LOGSIZE \in Nat
        /\ pc \in [Op -> {"out", "begin", "asleep", "op", "commit"}] /\ lh \in Seq(Block)
    BY LogConstants DEF LogInv, TypeOK
  <2>1. CASE UNCHANGED <<lh, outstanding, committing, pc>>
    BY <2>1 DEF NoLostWakeup, NoRoom
  <2>2. ASSUME NEW o \in Op, BeginCall(o) \/ BeginSleep(o) PROVE (committing \/ NoRoom)'
    BY <2>2, <2>t DEF BeginCall, BeginSleep, NoLostWakeup, NoRoom
  <2>3. ASSUME NEW o \in Op, BeginGo(o) PROVE (committing \/ NoRoom)'
    <3>1. pc[p] = "asleep" /\ lh' = lh /\ outstanding' = outstanding + 1
      BY <2>3, <2>t DEF BeginGo
    <3>2. NoRoom
      BY <2>3, <3>1 DEF NoLostWakeup, BeginGo
    <3>3. (outstanding' + 1) * MAXOPBLOCKS = (outstanding + 1) * MAXOPBLOCKS + MAXOPBLOCKS
      BY <3>1, <2>t
    <3>4. (outstanding + 1) * MAXOPBLOCKS \in Nat
      BY <2>t
    <3> QED
      BY <3>1, <3>2, <3>3, <3>4, <2>t DEF NoRoom
  <2>4. ASSUME NEW o \in Op, EndMore(o) \/ EndCommit(o) PROVE (committing \/ NoRoom)'
    BY ZenonT(40), <2>4, <2>t DEF EndMore, EndCommit, wakeup
  <2>5. ASSUME NEW o \in Op, EndLast(o) PROVE (committing \/ NoRoom)'
    BY <2>5 DEF EndLast
  <2>6. ASSUME NEW o \in Op, NEW b \in Block, NEW v \in Val, LogWrite(o, b, v)
        PROVE (committing \/ NoRoom)'
    <3>1. pc[p] = "asleep" /\ UNCHANGED <<outstanding, committing>>
      BY <2>6 DEF LogWrite
    <3>2. Len(lh') \in Nat /\ Len(lh') >= Len(lh)
      BY <2>6, <2>t DEF LogWrite
    <3>3. (outstanding + 1) * MAXOPBLOCKS \in Nat
      BY <2>t
    <3> QED
      BY <3>1, <3>2, <3>3, <2>t DEF NoLostWakeup, NoRoom
  <2>7. CASE LogStep
    <3>1. pc' = pc /\ committing' = committing /\ outstanding' = outstanding
      BY <2>7 DEF LogStep, WriteLog, WriteHead, ReadHead, InstallTrans, EraseHead, calls
    <3>2. CASE stage \in Commits
      BY <3>1, <3>2 DEF LogInv, CallsInv
    <3>3. CASE stage \in Recovers
      BY <3>1, <3>3 DEF RecoveryAlone
    <3> QED
      BY SMTT(20), ZenonT(20), <2>7, <3>2, <3>3
      DEF LogStep, WriteLog, WriteHead, ReadHead, InstallTrans, EraseHead, Commits, Recovers
  <2>8. ASSUME NEW b \in Block, Evict(b) PROVE (committing \/ NoRoom)'
    BY <2>1, <2>8 DEF Evict, calls
  <2>9. CASE Crash
    BY <2>9 DEF Crash
  <2>10. CASE UNCHANGED vars
    BY <2>1, <2>10 DEF vars, calls
  <2> QED
    BY <2>2, <2>3, <2>4, <2>5, <2>6, <2>7, <2>8, <2>9, <2>10 DEF Next, CallStep
<1> QED
  BY <1>1, <1>2, LogInvariant, RecoveryIsAlone, PTL DEF Spec

=============================================================================
