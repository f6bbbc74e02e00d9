---------------------------- MODULE BcacheProofs ----------------------------
(***************************************************************************)
(* The buffer cache, for any number of processes, buffers and blocks: what *)
(* bio.c, sleeplock.c and ide.c keep true of it, device errors included.   *)
(* BcacheStoreProofs goes on from here to what the cache stores.           *)
(***************************************************************************)
EXTENDS Bcache, FiniteSetTheorems, TLAPS

Place == {"out", "acquire", "asleep", "got", "iderw", "ideAsleep", "use", "release"}

TypeOK ==
    /\ order \in Seq(Buf) /\ Range(order) = Buf
    /\ blockno \in [Buf -> Block \cup {NoBlock}]
    /\ valid \in [Buf -> BOOLEAN] /\ dirty \in [Buf -> BOOLEAN]
    /\ data \in [Buf -> Val] /\ refcnt \in [Buf -> Int]
    /\ locked \in [Buf -> BOOLEAN] /\ pid \in [Buf -> Proc \cup {NoProc}]
    /\ pc \in [Proc -> Place] /\ buf \in [Proc -> Buf \cup {NoBuf}]
    /\ idequeue \in Seq(Buf) /\ disk \in [Block -> Val]
    /\ irq \in BOOLEAN /\ error \in BOOLEAN

(* A process has a buffer between bget() and brelse(), with a block in it. *)
HasBuffer ==
    \A p \in Proc :
        /\ pc[p] = "out" <=> buf[p] = NoBuf
        /\ buf[p] # NoBuf => blockno[buf[p]] \in Block

(* The lock of a buffer names its only user, and is what the others wait for. *)
LockIsUser ==
    /\ \A b \in Buf : locked[b] <=> \E p \in Proc : InUse(p) /\ buf[p] = b
    /\ \A p \in Proc : InUse(p) => pid[buf[p]] = p
    /\ NoLostWakeup

CountIsUsers == \A b \in Buf : refcnt[b] = Cardinality({p \in Proc : buf[p] = b})

(* Only what was read is used or written. *)
ValidFirst ==
    /\ \A b \in Buf : (valid[b] => blockno[b] \in Block) /\ (dirty[b] => valid[b])
    /\ \A p \in Proc : pc[p] = "use" => valid[buf[p]]

(* iderw() waits until the flags say that the transfer is done. *)
WaitsForTransfer ==
    /\ \A b \in Range(idequeue) : ~valid[b] \/ dirty[b]
    /\ \A p \in Proc : pc[p] = "iderw" =>
        buf[p] \in Range(idequeue) \/ (valid[buf[p]] /\ ~dirty[buf[p]])

(* When the interrupt is pending, what is to be written is on the disk. *)
Transferred ==
    irq /\ dirty[Head(idequeue)] => data[Head(idequeue)] = disk[blockno[Head(idequeue)]]

(* The blocks of the transaction, not counting those that are being written. *)
Pinned == {b \in Buf : dirty[b] /\ b \notin Range(idequeue)}

PinnedBounded == Cardinality(Pinned) <= MaxPinned

(* Everything but what a device error would change: an inductive invariant. *)
Structure ==
    /\ TypeOK /\ HasBuffer /\ OneBufferPerBlock /\ LockIsUser /\ CountIsUsers
    /\ ValidFirst /\ QueueIsWaiters /\ WaitsForTransfer /\ DeviceServesHead
    /\ PinnedBounded

-----------------------------------------------------------------------------
(* Queues and lists without duplicates. *)

(* What is in a queue after iderw() appends to it. *)
LEMMA AppendToQueue ==
    ASSUME NEW S, NEW s \in Seq(S), NEW x \in S
    PROVE  /\ Append(s, x) \in Seq(S) /\ Append(s, x) # <<>>
           /\ Range(Append(s, x)) = Range(s) \cup {x}
           /\ IsInjective(s) /\ x \notin Range(s) => IsInjective(Append(s, x))
           /\ s # <<>> => Head(Append(s, x)) = Head(s)
           /\ s = <<>> => Head(Append(s, x)) = x
<1> DEFINE t == Append(s, x)
<1>1. /\ t \in Seq(S) /\ Len(t) = Len(s) + 1 /\ Len(s) \in Nat
      /\ \A i \in 1 .. Len(s) : t[i] = s[i]
      /\ t[Len(s) + 1] = x
    OBVIOUS
<1>2. DOMAIN t = 1 .. Len(s) + 1 /\ DOMAIN s = 1 .. Len(s)
    BY <1>1
<1> HIDE DEF t
<1>3. Range(t) = Range(s) \cup {x}
    BY <1>1, <1>2 DEF Range
<1>4. IsInjective(s) /\ x \notin Range(s) => IsInjective(t)
    BY <1>1, <1>2 DEF Range, IsInjective
<1>5. t # <<>> /\ Head(t) = t[1]
    BY <1>1
<1>6. s # <<>> => Head(t) = Head(s)
    BY <1>1, <1>5
<1>7. s = <<>> => Head(t) = x
    BY <1>1, <1>5
<1> QED  BY <1>1, <1>3, <1>4, <1>5, <1>6, <1>7 DEF t

(* What is in a queue after ideintr() takes its head. *)
LEMMA TakeFromQueue ==
    ASSUME NEW S, NEW s \in Seq(S), s # <<>>, IsInjective(s)
    PROVE  /\ Tail(s) \in Seq(S) /\ Head(s) \in S /\ Head(s) \in Range(s)
           /\ Range(Tail(s)) = Range(s) \ {Head(s)}
           /\ IsInjective(Tail(s))
           /\ Tail(s) # <<>> => Head(Tail(s)) \in Range(Tail(s))
<1> DEFINE t == Tail(s)
<1>1. /\ Head(s) \in S /\ Head(s) = s[1] /\ t \in Seq(S)
      /\ Len(t) = Len(s) - 1 /\ Len(s) \in Nat /\ Len(s) # 0
      /\ \A i \in 1 .. Len(t) : t[i] = s[i + 1]
    OBVIOUS
<1>2. DOMAIN t = 1 .. Len(s) - 1 /\ DOMAIN s = 1 .. Len(s)
    BY <1>1
<1>3. t # <<>> => Head(t) = t[1] /\ Len(t) # 0
    BY <1>1
<1> HIDE DEF t
<1>4. Head(s) \in Range(s)
    BY <1>1, <1>2 DEF Range
<1>5. IsInjective(t)
    BY SMTT(20), Zenon, <1>1, <1>2 DEF IsInjective
<1>6. ASSUME NEW y \in Range(t) PROVE y \in Range(s) /\ y # Head(s)
  <2>1. PICK i \in 1 .. Len(s) - 1 : y = t[i]
      BY <1>2 DEF Range
  <2>2. i + 1 \in 1 .. Len(s) /\ 1 \in 1 .. Len(s) /\ i + 1 # 1 /\ y = s[i + 1]
      BY <2>1, <1>1
  <2> QED  BY Zenon, <2>2, <1>1, <1>2 DEF Range, IsInjective
<1>7. ASSUME NEW y \in Range(s), y # Head(s) PROVE y \in Range(t)
  <2>1. PICK i \in 1 .. Len(s) : y = s[i]
      BY <1>2 DEF Range
  <2>2. i - 1 \in 1 .. Len(s) - 1 /\ (i - 1) + 1 = i
      BY <2>1, <1>1, <1>7
  <2>3. y = t[i - 1]
      BY <2>1, <2>2, <1>1
  <2> QED  BY <2>2, <2>3, <1>2 DEF Range
<1>8. Range(t) = Range(s) \ {Head(s)}
    BY <1>6, <1>7
<1>9. t # <<>> => Head(t) \in Range(t)
    BY <1>1, <1>2, <1>3 DEF Range
<1> QED  BY <1>1, <1>4, <1>5, <1>8, <1>9 DEF t

LEMMA QueueElements ==
    ASSUME NEW S, NEW s \in Seq(S)
    PROVE  Range(s) \subseteq S /\ (s # <<>> => Head(s) \in Range(s))
<1>1. Len(s) \in Nat /\ DOMAIN s = 1 .. Len(s) /\ \A i \in 1 .. Len(s) : s[i] \in S
    OBVIOUS
<1>2. s # <<>> => Head(s) = s[1] /\ Len(s) # 0
    OBVIOUS
<1> QED  BY <1>1, <1>2 DEF Range

(* The list of binit() has every buffer. *)
LEMMA ListOfSet ==
    ASSUME NEW S, IsFiniteSet(S)
    PROVE  LET f == CHOOSE s \in [1 .. Cardinality(S) -> S] : IsInjective(s)
           IN  f \in Seq(S) /\ Range(f) = S
<1> DEFINE n == Cardinality(S)
           f == CHOOSE s \in [1 .. n -> S] : IsInjective(s)
<1>1. n \in Nat /\ ExistsBijection(1 .. n, S)
    BY FS_CardinalityType
<1>2. \E g \in [1 .. n -> S] : IsInjective(g)
    BY <1>1 DEF ExistsBijection, Bijection, Injection, IsInjective
<1>3. f \in [1 .. n -> S] /\ IsInjective(f)
    BY <1>2
<1>4. f \in Injection(1 .. n, S)
    BY <1>3 DEF Injection, IsInjective
<1>5. Cardinality(1 .. n) = n
    BY <1>1, FS_Interval
<1>6. f \in Surjection(1 .. n, S)
    BY <1>1, <1>4, <1>5, FS_Injection
<1>7. f \in Seq(S)
    BY <1>1, <1>3
<1>8. Range(f) = S
    BY Zenon, <1>3, <1>6 DEF Surjection, Range
<1> QED  BY <1>7, <1>8

(* brelse() keeps every buffer in the list. *)
LEMMA MoveToFront ==
    ASSUME order \in Seq(Buf), Range(order) = Buf, NEW b \in Buf
    PROVE  ToFront(b) \in Seq(Buf) /\ Range(ToFront(b)) = Buf
<1> DEFINE k == CHOOSE i \in DOMAIN order : order[i] = b
           t == ToFront(b)
           n == Len(order)
<1>1. n \in Nat /\ DOMAIN order = 1 .. n /\ \A i \in 1 .. n : order[i] \in Buf
    OBVIOUS
<1>2. \E i \in DOMAIN order : order[i] = b
    BY DEF Range
<1>3. k \in 1 .. n /\ order[k] = b
    BY <1>1, <1>2
<1>4. t = [i \in 1 .. n |-> IF i = 1 THEN b ELSE IF i <= k THEN order[i-1] ELSE order[i]]
    BY <1>1 DEF ToFront
<1> HIDE DEF k, t, n
<1>5. \A i \in 1 .. n : t[i] \in Buf
  <2> TAKE i \in 1 .. n
  <2>1. i # 1 => i - 1 \in 1 .. n
      BY <1>1
  <2> QED  BY <1>1, <1>4, <2>1
<1>6. DOMAIN t = 1 .. n /\ t \in [1 .. n -> Buf]
    BY <1>4, <1>5
<1>7. t \in Seq(Buf)
    BY <1>1, <1>6
<1>8. ASSUME NEW c \in Buf PROVE \E i \in 1 .. n : t[i] = c
  <2>1. PICK i \in 1 .. n : order[i] = c
      BY <1>1 DEF Range
  <2>2. CASE i = k
    <3>1. 1 \in 1 .. n /\ t[1] = b
        BY <1>1, <1>3, <1>4
    <3> QED  BY <3>1, <2>1, <2>2, <1>3
  <2>3. CASE i < k
    <3>1. i + 1 \in 1 .. n /\ i + 1 # 1 /\ i + 1 <= k /\ (i + 1) - 1 = i
        BY <1>1, <1>3, <2>3
    <3>2. t[i + 1] = order[i]
        BY <3>1, <1>4
    <3> QED  BY <3>1, <3>2, <2>1
  <2>4. CASE i > k
    <3>1. i # 1 /\ ~(i <= k)
        BY <1>1, <1>3, <2>4
    <3> QED  BY <3>1, <1>4, <2>1
  <2> QED  BY <1>1, <1>3, <2>2, <2>3, <2>4
<1> QED  BY <1>5, <1>6, <1>7, <1>8 DEF Range, t

-----------------------------------------------------------------------------
(* Facts about every state. *)

(* What is in the request queue has a block, and belongs to the process that *)
(* waits for the transfer.                                                   *)
LEMMA Queued ==
    ASSUME Structure, NEW b \in Range(idequeue)
    PROVE  /\ b \in Buf /\ blockno[b] \in Block /\ locked[b]
           /\ \A p \in Proc : InUse(p) /\ buf[p] = b => pc[p] \in {"iderw", "ideAsleep"}
<1>1. b \in Buf
    BY QueueElements DEF Structure, TypeOK
<1>2. PICK p \in Proc : buf[p] = b /\ pc[p] \in {"iderw", "ideAsleep"}
    BY DEF Structure, QueueIsWaiters
<1>3. blockno[b] \in Block /\ b # NoBuf
    BY <1>1, <1>2, BcacheConstants DEF Structure, HasBuffer
<1>4. InUse(p) /\ locked[b]
    BY <1>1, <1>2 DEF InUse, Structure, LockIsUser
<1>5. ASSUME NEW q \in Proc, InUse(q), buf[q] = b PROVE q = p
    BY <1>2, <1>4, <1>5 DEF Structure, LockIsUser
<1> QED  BY <1>1, <1>2, <1>3, <1>4, <1>5

LEMMA AtHead ==
    ASSUME Structure, idequeue # <<>>
    PROVE  Head(idequeue) \in Range(idequeue) /\ Head(idequeue) \in Buf
BY QueueElements DEF Structure, TypeOK

(* A sleep lock has one holder. *)
LEMMA Exclusive ==
    ASSUME Structure, NEW p \in Proc, NEW q \in Proc, InUse(p), InUse(q), buf[p] = buf[q]
    PROVE  p = q
BY DEF Structure, LockIsUser

(* A process past bget() has a buffer of the cache. *)
LEMMA Holds ==
    ASSUME Structure, NEW p \in Proc, pc[p] # "out"
    PROVE  buf[p] \in Buf /\ blockno[buf[p]] \in Block
BY DEF Structure, TypeOK, HasBuffer

(* A process that is not waiting for the disk has its buffer out of the queue. *)
LEMMA NotQueued ==
    ASSUME Structure, NEW p \in Proc, pc[p] \in {"got", "use"}
    PROVE  buf[p] \notin Range(idequeue)
BY Queued DEF InUse

(* A buffer nobody has is free of users, of its lock and of the queue. *)
LEMMA NobodyHas ==
    ASSUME Structure, NEW b \in Buf, refcnt[b] = 0
    PROVE  /\ \A p \in Proc : buf[p] # b
           /\ ~locked[b] /\ b \notin Range(idequeue)
<1>1. IsFiniteSet({p \in Proc : buf[p] = b})
    BY FS_Subset, BcacheConstants
<1>2. {p \in Proc : buf[p] = b} = {}
    BY <1>1, FS_EmptySet DEF Structure, CountIsUsers
<1>3. \A p \in Proc : buf[p] # b
    BY <1>2
<1> QED  BY <1>3, QueueElements DEF Structure, TypeOK, LockIsUser, QueueIsWaiters

(* A process that gets a buffer is counted. *)
LEMMA CountGet ==
    ASSUME TypeOK, CountIsUsers, NEW p \in Proc, NEW b \in Buf, buf[p] = NoBuf,
           buf' = [buf EXCEPT ![p] = b], refcnt' = [refcnt EXCEPT ![b] = refcnt[b] + 1]
    PROVE  CountIsUsers'
<1> SUFFICES ASSUME NEW c \in Buf
             PROVE  refcnt'[c] = Cardinality({q \in Proc : buf'[q] = c})
    BY DEF CountIsUsers
<1> DEFINE U == {q \in Proc : buf[q] = c}
<1>1. IsFiniteSet(U) /\ refcnt[c] = Cardinality(U) /\ p \notin U
    BY FS_Subset, BcacheConstants DEF CountIsUsers
<1>2. CASE c = b
  <2>1. {q \in Proc : buf'[q] = c} = U \cup {p}
      BY <1>2 DEF TypeOK
  <2>2. Cardinality(U \cup {p}) = Cardinality(U) + 1
      BY SMTT(20), Zenon, <1>1, FS_AddElement
  <2> QED  BY Zenon, <1>1, <1>2, <2>1, <2>2 DEF TypeOK
<1>3. CASE c # b
  <2>1. {q \in Proc : buf'[q] = c} = U
      BY <1>3, BcacheConstants DEF TypeOK
  <2> QED  BY Zenon, <1>1, <1>3, <2>1 DEF TypeOK
<1> QED  BY <1>2, <1>3

(* A process that gives its buffer back is no longer counted. *)
LEMMA CountPut ==
    ASSUME TypeOK, CountIsUsers, NEW p \in Proc, buf[p] \in Buf,
           buf' = [buf EXCEPT ![p] = NoBuf],
           refcnt' = [refcnt EXCEPT ![buf[p]] = refcnt[buf[p]] - 1]
    PROVE  CountIsUsers'
<1> SUFFICES ASSUME NEW c \in Buf
             PROVE  refcnt'[c] = Cardinality({q \in Proc : buf'[q] = c})
    BY DEF CountIsUsers
<1> DEFINE U == {q \in Proc : buf[q] = c}
<1>1. IsFiniteSet(U) /\ refcnt[c] = Cardinality(U)
    BY Zenon, FS_Subset, BcacheConstants DEF CountIsUsers
<1>2. CASE c = buf[p]
  <2>1. {q \in Proc : buf'[q] = c} = U \ {p} /\ p \in U
      BY <1>2, BcacheConstants DEF TypeOK
  <2>2. Cardinality(U \ {p}) = Cardinality(U) - 1
      BY SMTT(20), Zenon, <1>1, <2>1, FS_RemoveElement
  <2> QED  BY Zenon, <1>1, <1>2, <2>1, <2>2 DEF TypeOK
<1>3. CASE c # buf[p]
  <2>1. {q \in Proc : buf'[q] = c} = U
      BY <1>3, BcacheConstants DEF TypeOK
  <2> QED  BY Zenon, <1>1, <1>3, <2>1 DEF TypeOK
<1> QED  BY <1>2, <1>3

(* The locks agree with their users when neither they nor the users change. *)
LEMMA LocksKept ==
    ASSUME LockIsUser, locked' = locked, pid' = pid,
           \A q \in Proc :
              /\ InUse(q)' <=> InUse(q)
              /\ InUse(q) \/ pc'[q] = "asleep" => buf'[q] = buf[q]
              /\ pc'[q] = "asleep" => pc[q] = "asleep"
    PROVE  LockIsUser'
BY DEF LockIsUser, NoLostWakeup

(* Nobody joins those who wait for the device, and nobody leaves them. *)
LEMMA QueueKept ==
    ASSUME QueueIsWaiters, WaitsForTransfer,
           valid' = valid, dirty' = dirty, idequeue' = idequeue,
           \A q \in Proc :
              /\ pc[q] \in {"iderw", "ideAsleep"} => pc'[q] \in {"iderw", "ideAsleep"}
              /\ pc'[q] \in {"iderw", "ideAsleep"} => buf'[q] = buf[q]
              /\ pc'[q] = "ideAsleep" => pc[q] = "ideAsleep"
              /\ pc'[q] = "iderw" => pc[q] \in {"iderw", "ideAsleep"}
    PROVE  QueueIsWaiters' /\ WaitsForTransfer'
<1>1. QueueIsWaiters'
  <2>1. \A q \in Proc : pc'[q] = "ideAsleep" => buf'[q] \in Range(idequeue)
      BY DEF QueueIsWaiters
  <2>2. ASSUME NEW b \in Range(idequeue)
        PROVE  \E q \in Proc : buf'[q] = b /\ pc'[q] \in {"iderw", "ideAsleep"}
    <3>1. PICK q \in Proc : buf[q] = b /\ pc[q] \in {"iderw", "ideAsleep"}
        BY DEF QueueIsWaiters
    <3> QED  BY <3>1
  <2> QED  BY <2>1, <2>2 DEF QueueIsWaiters
<1>2. WaitsForTransfer'
  <2>1. ASSUME NEW q \in Proc, pc'[q] = "iderw"
        PROVE  buf'[q] \in Range(idequeue) \/ (valid[buf'[q]] /\ ~dirty[buf'[q]])
    <3>1. CASE pc[q] = "iderw"
        BY <2>1, <3>1 DEF WaitsForTransfer
    <3>2. CASE pc[q] = "ideAsleep"
        BY <2>1, <3>2 DEF QueueIsWaiters
    <3> QED  BY <2>1, <3>1, <3>2
  <2> QED  BY <2>1 DEF WaitsForTransfer
<1> QED  BY <1>1, <1>2

(* The transaction does not grow when no block is added to it. *)
LEMMA NothingPinned ==
    ASSUME PinnedBounded, Pinned' \subseteq Pinned
    PROVE  PinnedBounded'
<1>1. IsFiniteSet(Pinned) /\ Cardinality(Pinned) \in Nat
    BY FS_Subset, FS_CardinalityType, BcacheConstants DEF Pinned
<1>2. IsFiniteSet(Pinned') /\ Cardinality(Pinned') <= Cardinality(Pinned) /\ Cardinality(Pinned') \in Nat
    BY <1>1, FS_Subset, FS_CardinalityType
<1> HIDE DEF Pinned
<1> QED  BY <1>1, <1>2, BcacheConstants DEF PinnedBounded

-----------------------------------------------------------------------------
(* The structure of the cache is an invariant, device errors or not. *)

(* binit() establishes it. *)
LEMMA InitStructure == Init => Structure
<1> SUFFICES ASSUME Init PROVE Structure
    OBVIOUS
<1>1. Range(idequeue) = {} /\ idequeue \in Seq(Buf) /\ IsInjective(idequeue)
    BY DEF Init, Range, IsInjective
<1>2. TypeOK
  <2>1. order \in Seq(Buf) /\ Range(order) = Buf
      BY Zenon, ListOfSet, BcacheConstants DEF Init
  <2>2. data \in [Buf -> Val]
      BY DEF Init
  <2>3. pc \in [Proc -> Place]
      BY DEF Init, Place
  <2>4. /\ valid \in [Buf -> BOOLEAN] /\ dirty \in [Buf -> BOOLEAN]
        /\ locked \in [Buf -> BOOLEAN] /\ irq \in BOOLEAN /\ error \in BOOLEAN
      BY Zenon DEF Init
  <2>5. /\ blockno \in [Buf -> Block \cup {NoBlock}] /\ refcnt \in [Buf -> Int]
        /\ pid \in [Buf -> Proc \cup {NoProc}] /\ buf \in [Proc -> Buf \cup {NoBuf}]
        /\ disk \in [Block -> Val]
      BY DEF Init
  <2> QED  BY <1>1, <2>1, <2>2, <2>3, <2>4, <2>5 DEF TypeOK
<1>3. HasBuffer /\ OneBufferPerBlock /\ ValidFirst
    BY DEF Init, HasBuffer, OneBufferPerBlock, ValidFirst
<1>4. LockIsUser
    BY DEF Init, LockIsUser, NoLostWakeup, InUse
<1>5. CountIsUsers
  <2>1. \A b \in Buf : {p \in Proc : buf[p] = b} = {}
      BY BcacheConstants DEF Init
  <2> QED  BY Zenon, <2>1, FS_EmptySet DEF Init, CountIsUsers
<1>6. QueueIsWaiters /\ WaitsForTransfer
    BY <1>1 DEF Init, QueueIsWaiters, WaitsForTransfer
<1>7. DeviceServesHead
    BY DEF Init, DeviceServesHead
<1>8. PinnedBounded
  <2>1. Pinned = {}
      BY DEF Init, Pinned
  <2> QED  BY <2>1, FS_EmptySet, BcacheConstants DEF PinnedBounded
<1> QED  BY <1>2, <1>3, <1>4, <1>5, <1>6, <1>7, <1>8 DEF Structure

(* bget() that finds the block: one more user. *)
LEMMA BgetHitStep ==
    ASSUME Structure, NEW p \in Proc, NEW k \in Block, BgetHit(p, k)
    PROVE  Structure'
<1>1. PICK b \in Buf : /\ blockno[b] = k
                       /\ refcnt' = [refcnt EXCEPT ![b] = refcnt[b] + 1]
                       /\ buf' = [buf EXCEPT ![p] = b]
    BY Zenon DEF BgetHit
<1>2. pc[p] = "out" /\ pc' = [pc EXCEPT ![p] = "acquire"] /\ buf[p] = NoBuf
    BY DEF BgetHit, Goto, Structure, HasBuffer
<1>3. /\ order' = order /\ blockno' = blockno /\ valid' = valid /\ dirty' = dirty
      /\ data' = data /\ locked' = locked /\ pid' = pid
      /\ idequeue' = idequeue /\ disk' = disk /\ cmd' = cmd /\ irq' = irq /\ error' = error
    BY DEF BgetHit, flags, lock, ide
<1>4. TypeOK'
    BY <1>1, <1>2, <1>3 DEF Structure, TypeOK, Place
<1>5. HasBuffer'
    BY <1>1, <1>2, <1>3, BcacheConstants DEF Structure, TypeOK, HasBuffer
<1>6. OneBufferPerBlock'
    BY <1>3 DEF Structure, OneBufferPerBlock
<1>7. LockIsUser'
  <2>1. \A q \in Proc :
            /\ InUse(q)' <=> InUse(q)
            /\ InUse(q) \/ pc'[q] = "asleep" => buf'[q] = buf[q]
            /\ pc'[q] = "asleep" => pc[q] = "asleep"
      BY <1>1, <1>2 DEF Structure, TypeOK, InUse
  <2> QED  BY <1>3, <2>1, LocksKept DEF Structure
<1>8. CountIsUsers'
    BY Zenon, <1>1, <1>2, CountGet DEF Structure
<1>9. ValidFirst'
    BY SMTT(20), ZenonT(20), <1>1, <1>2, <1>3 DEF Structure, TypeOK, ValidFirst
<1>10. QueueIsWaiters' /\ WaitsForTransfer'
  <2>1. \A q \in Proc :
            /\ pc[q] \in {"iderw", "ideAsleep"} => pc'[q] \in {"iderw", "ideAsleep"}
            /\ pc'[q] \in {"iderw", "ideAsleep"} => buf'[q] = buf[q]
            /\ pc'[q] = "ideAsleep" => pc[q] = "ideAsleep"
            /\ pc'[q] = "iderw" => pc[q] \in {"iderw", "ideAsleep"}
      BY <1>1, <1>2 DEF Structure, TypeOK
  <2> QED  BY Zenon, <1>3, <2>1, QueueKept DEF Structure
<1>11. DeviceServesHead'
    BY <1>3 DEF Structure, DeviceServesHead
<1>12. PinnedBounded'
    BY <1>3 DEF Structure, PinnedBounded, Pinned
<1> QED  BY <1>4, <1>5, <1>6, <1>7, <1>8, <1>9, <1>10, <1>11, <1>12 DEF Structure

(* bget() that recycles a buffer: it takes one that nobody has. *)
LEMMA BgetMissStep ==
    ASSUME Structure, NEW p \in Proc, NEW k \in Block, BgetMiss(p, k)
    PROVE  Structure'
<1>1. PICK i \in DOMAIN order :
          /\ Free(order[i])
          /\ blockno' = [blockno EXCEPT ![order[i]] = k]
          /\ valid' = [valid EXCEPT ![order[i]] = FALSE]
          /\ dirty' = [dirty EXCEPT ![order[i]] = FALSE]
          /\ refcnt' = [refcnt EXCEPT ![order[i]] = 1]
          /\ buf' = [buf EXCEPT ![p] = order[i]]
    BY Zenon DEF BgetMiss
<1> DEFINE b == order[i]
<1>2. b \in Buf
    BY DEF Structure, TypeOK, Range
<1>3. refcnt[b] = 0 /\ ~dirty[b]
    BY <1>1 DEF Free
<1> HIDE DEF b
<1>4. /\ \A q \in Proc : buf[q] # b
      /\ b \notin Range(idequeue)
    BY <1>2, <1>3, NobodyHas
<1>5. /\ blockno' = [blockno EXCEPT ![b] = k]
      /\ valid' = [valid EXCEPT ![b] = FALSE] /\ dirty' = [dirty EXCEPT ![b] = FALSE]
      /\ refcnt' = [refcnt EXCEPT ![b] = refcnt[b] + 1]
      /\ buf' = [buf EXCEPT ![p] = b]
    BY <1>1, <1>3 DEF b
<1>6. pc[p] = "out" /\ pc' = [pc EXCEPT ![p] = "acquire"] /\ buf[p] = NoBuf
    BY DEF BgetMiss, Goto, Structure, HasBuffer
<1>7. /\ order' = order /\ data' = data /\ locked' = locked /\ pid' = pid
      /\ idequeue' = idequeue /\ disk' = disk /\ cmd' = cmd /\ irq' = irq /\ error' = error
    BY DEF BgetMiss, lock, ide
<1>8. TypeOK'
    BY <1>2, <1>5, <1>6, <1>7 DEF Structure, TypeOK, Place
<1>9. HasBuffer'
    BY <1>2, <1>4, <1>5, <1>6, BcacheConstants DEF Structure, TypeOK, HasBuffer
<1>10. OneBufferPerBlock'
  <2>1. \A c \in Buf : blockno[c] # k
      BY DEF BgetMiss, Cached
  <2> QED  BY <1>2, <1>5, <2>1 DEF Structure, TypeOK, OneBufferPerBlock
<1>11. LockIsUser'
  <2>1. \A q \in Proc :
            /\ InUse(q)' <=> InUse(q)
            /\ InUse(q) \/ pc'[q] = "asleep" => buf'[q] = buf[q]
            /\ pc'[q] = "asleep" => pc[q] = "asleep"
      BY <1>5, <1>6 DEF Structure, TypeOK, InUse
  <2> QED  BY <1>7, <2>1, LocksKept DEF Structure
<1>12. CountIsUsers'
    BY Zenon, <1>2, <1>5, <1>6, CountGet DEF Structure
<1>13. ValidFirst'
    BY <1>2, <1>4, <1>5, <1>6 DEF Structure, TypeOK, ValidFirst
<1>14. QueueIsWaiters' /\ WaitsForTransfer'
  <2>1. \A q \in Proc : pc'[q] \in {"iderw", "ideAsleep"} => buf'[q] = buf[q] /\ pc'[q] = pc[q]
      BY <1>5, <1>6 DEF Structure, TypeOK
  <2>2. \A q \in Proc : pc[q] \in {"iderw", "ideAsleep"} => buf'[q] = buf[q] /\ pc'[q] = pc[q]
      BY <1>5, <1>6 DEF Structure, TypeOK
  <2>3. \A c \in Buf \ {b} : valid'[c] = valid[c] /\ dirty'[c] = dirty[c]
      BY <1>5 DEF Structure, TypeOK
  <2>4. QueueIsWaiters'
      BY <1>7, <2>1, <2>2 DEF Structure, QueueIsWaiters
  <2>5. \A q \in Proc : pc[q] = "iderw" => buf[q] \in Buf \ {b}
      BY <1>4, Holds
  <2>6. Range(idequeue) \subseteq Buf \ {b}
      BY <1>4, Queued
  <2>7. WaitsForTransfer'
      BY <1>7, <2>1, <2>3, <2>5, <2>6 DEF Structure, WaitsForTransfer
  <2> QED  BY <2>4, <2>7
<1>15. DeviceServesHead'
  <2>1. \A c \in Buf \ {b} : dirty'[c] = dirty[c]
      BY <1>5 DEF Structure, TypeOK
  <2>2. idequeue # <<>> => dirty'[Head(idequeue)] = dirty[Head(idequeue)]
      BY <1>4, <2>1, AtHead
  <2> QED  BY <1>7, <2>2 DEF Structure, DeviceServesHead
<1>16. PinnedBounded'
  <2>1. Pinned' \subseteq Pinned
      BY <1>2, <1>5, <1>7 DEF Structure, TypeOK, Pinned
  <2> QED  BY <2>1, NothingPinned DEF Structure
<1> QED
    BY <1>8, <1>9, <1>10, <1>11, <1>12, <1>13, <1>14, <1>15, <1>16 DEF Structure

(* What is not about a process's place follows from what stays unchanged. *)
LEMMA OnlyPlaces ==
    ASSUME Structure, UNCHANGED <<list, flags, data, buf, ide>>,
           pc' \in [Proc -> Place], \A q \in Proc : pc'[q] = "out" <=> pc[q] = "out",
           locked' \in [Buf -> BOOLEAN], pid' \in [Buf -> Proc \cup {NoProc}]
    PROVE  /\ TypeOK' /\ HasBuffer' /\ OneBufferPerBlock' /\ CountIsUsers'
           /\ DeviceServesHead' /\ PinnedBounded'
<1>1. /\ order' = order /\ blockno' = blockno /\ refcnt' = refcnt /\ valid' = valid
      /\ dirty' = dirty /\ data' = data /\ buf' = buf
      /\ idequeue' = idequeue /\ disk' = disk /\ cmd' = cmd /\ irq' = irq /\ error' = error
    BY DEF list, flags, ide
<1>2. TypeOK'
    BY <1>1 DEF Structure, TypeOK
<1>3. HasBuffer'
    BY <1>1 DEF Structure, HasBuffer
<1>4. OneBufferPerBlock' /\ CountIsUsers'
    BY <1>1 DEF Structure, OneBufferPerBlock, CountIsUsers
<1>5. DeviceServesHead' /\ PinnedBounded'
    BY <1>1 DEF Structure, DeviceServesHead, PinnedBounded, Pinned
<1> QED  BY <1>2, <1>3, <1>4, <1>5

(* acquiresleep(): the lock is taken from nobody, or its holder is waited for. *)
LEMMA AcquireSleepStep ==
    ASSUME Structure, NEW p \in Proc, AcquireSleep(p)
    PROVE  Structure'
<1>1. pc[p] = "acquire" /\ UNCHANGED <<list, flags, data, buf, ide>>
    BY DEF AcquireSleep
<1>2. buf[p] \in Buf
    BY <1>1, Holds
<1>3. /\ valid' = valid /\ dirty' = dirty /\ buf' = buf /\ idequeue' = idequeue
      /\ blockno' = blockno
    BY <1>1 DEF list, flags, ide
<1>4. /\ pc' \in [Proc -> Place]
      /\ \A q \in Proc \ {p} : pc'[q] = pc[q]
      /\ pc'[p] \in {"asleep", "got"}
    BY ZenonT(40) DEF AcquireSleep, Goto, Structure, TypeOK, Place
<1>5. locked' \in [Buf -> BOOLEAN] /\ pid' \in [Buf -> Proc \cup {NoProc}]
    BY ZenonT(40) DEF AcquireSleep, lock, Structure, TypeOK
<1>6. LockIsUser'
  <2>1. CASE locked[buf[p]]
    <3>1. locked' = locked /\ pid' = pid /\ pc'[p] = "asleep"
        BY <2>1 DEF AcquireSleep, Goto, lock, Structure, TypeOK
    <3>2. \A q \in Proc : InUse(q)' <=> InUse(q)
        BY <1>1, <1>4, <3>1 DEF InUse
    <3> QED  BY <1>3, <1>4, <2>1, <3>1, <3>2 DEF Structure, LockIsUser, NoLostWakeup
  <2>2. CASE ~locked[buf[p]]
    <3>1. /\ locked' = [locked EXCEPT ![buf[p]] = TRUE] /\ pid' = [pid EXCEPT ![buf[p]] = p]
          /\ pc'[p] = "got"
        BY <2>2 DEF AcquireSleep, Goto, Structure, TypeOK
    <3>2. InUse(p)' /\ \A q \in Proc \ {p} : InUse(q)' <=> InUse(q)
        BY <1>1, <1>4, <3>1 DEF InUse
    <3>3. \A q \in Proc : InUse(q) => buf[q] # buf[p] /\ buf[q] \in Buf
      <4>1. \A q \in Proc : InUse(q) => buf[q] \in Buf
          BY Holds DEF InUse
      <4> QED  BY <1>2, <2>2, <4>1 DEF Structure, LockIsUser
    <3>4. \A b \in Buf : locked'[b] <=> \E q \in Proc : InUse(q)' /\ buf'[q] = b
      <4> TAKE b \in Buf
      <4>1. CASE b = buf[p]
          BY <1>2, <1>3, <3>1, <3>2, <4>1 DEF Structure, TypeOK
      <4>2. CASE b # buf[p]
          BY <1>2, <1>3, <3>1, <3>2, <4>2 DEF Structure, TypeOK, LockIsUser
      <4> QED  BY <4>1, <4>2
    <3>5. \A q \in Proc : InUse(q)' => pid'[buf'[q]] = q
        BY <1>2, <1>3, <3>1, <3>2, <3>3 DEF Structure, TypeOK, LockIsUser
    <3>6. NoLostWakeup'
        BY <1>2, <1>3, <1>4, <3>1 DEF Structure, TypeOK, LockIsUser, NoLostWakeup
    <3> QED  BY <3>4, <3>5, <3>6 DEF LockIsUser
  <2> QED  BY <2>1, <2>2
<1>7. ValidFirst'
    BY <1>3, <1>4 DEF Structure, ValidFirst
<1>8. QueueIsWaiters' /\ WaitsForTransfer'
  <2>1. \A q \in Proc :
            /\ pc[q] \in {"iderw", "ideAsleep"} => pc'[q] \in {"iderw", "ideAsleep"}
            /\ pc'[q] \in {"iderw", "ideAsleep"} => buf'[q] = buf[q]
            /\ pc'[q] = "ideAsleep" => pc[q] = "ideAsleep"
            /\ pc'[q] = "iderw" => pc[q] \in {"iderw", "ideAsleep"}
      BY <1>1, <1>3, <1>4
  <2> QED  BY <1>3, <2>1, QueueKept DEF Structure
<1>9. \A q \in Proc : pc'[q] = "out" <=> pc[q] = "out"
    BY <1>1, <1>4
<1> QED  BY <1>1, <1>4, <1>5, <1>6, <1>7, <1>8, <1>9, OnlyPlaces DEF Structure

(* Processes only go on, to places where the same is true of them. *)
LEMMA WalkStep ==
    ASSUME Structure, UNCHANGED <<list, flags, data, lock, buf, ide>>,
           pc' \in [Proc -> Place],
           \A q \in Proc :
              /\ pc'[q] = "out" <=> pc[q] = "out"
              /\ InUse(q)' <=> InUse(q)
              /\ pc'[q] = "asleep" => pc[q] = "asleep"
              /\ pc'[q] = "use" => valid[buf[q]],
           \A q \in Proc :
              /\ pc[q] \in {"iderw", "ideAsleep"} => pc'[q] \in {"iderw", "ideAsleep"}
              /\ pc'[q] = "ideAsleep" => pc[q] = "ideAsleep"
              /\ pc'[q] = "iderw" => pc[q] \in {"iderw", "ideAsleep"}
    PROVE  Structure'
<1>1. /\ valid' = valid /\ dirty' = dirty /\ buf' = buf /\ idequeue' = idequeue
      /\ blockno' = blockno /\ locked' = locked /\ pid' = pid
    BY DEF list, flags, lock, ide
<1>2. LockIsUser'
    BY <1>1, LocksKept DEF Structure
<1>3. ValidFirst'
    BY <1>1 DEF Structure, ValidFirst
<1>4. QueueIsWaiters' /\ WaitsForTransfer'
    BY <1>1, QueueKept DEF Structure
<1>5. locked' \in [Buf -> BOOLEAN] /\ pid' \in [Buf -> Proc \cup {NoProc}]
    BY <1>1 DEF Structure, TypeOK
<1> QED  BY SMTT(20), ZenonT(20), <1>2, <1>3, <1>4, <1>5, OnlyPlaces DEF Structure

(* A process that looks again after kill() waits for the same thing. *)
LEMMA KillWakesStep ==
    ASSUME Structure, NEW p \in Proc, KillWakes(p)
    PROVE  Structure'
<1>1. /\ \/ pc[p] = "asleep" /\ pc'[p] = "acquire"
         \/ pc[p] = "ideAsleep" /\ pc'[p] = "iderw"
      /\ pc' \in [Proc -> Place]
      /\ \A q \in Proc \ {p} : pc'[q] = pc[q]
    BY Zenon DEF KillWakes, Goto, Structure, TypeOK, Place
<1>2. \A q \in Proc : pc'[q] = "use" => valid[buf[q]]
    BY <1>1 DEF Structure, ValidFirst
<1>3. \A q \in Proc : InUse(q)' <=> InUse(q)
    BY <1>1 DEF InUse
<1> QED  BY <1>1, <1>2, <1>3, WalkStep DEF KillWakes

(* bread() of a buffer that is valid. *)
LEMMA BreadValidStep ==
    ASSUME Structure, NEW p \in Proc, BreadValid(p)
    PROVE  Structure'
<1>1. /\ pc[p] = "got" /\ pc'[p] = "use" /\ valid[buf[p]]
      /\ pc' \in [Proc -> Place]
      /\ \A q \in Proc \ {p} : pc'[q] = pc[q]
    BY DEF BreadValid, Goto, Structure, TypeOK, Place
<1>2. \A q \in Proc : pc'[q] = "use" => valid[buf[q]]
    BY <1>1 DEF Structure, ValidFirst
<1>3. \A q \in Proc : InUse(q)' <=> InUse(q)
    BY <1>1 DEF InUse
<1> QED  BY <1>1, <1>2, <1>3, WalkStep DEF BreadValid

(* iderw() returns when the flags say so, which they do not for a buffer that *)
(* is in the queue.                                                           *)
LEMMA AwakeStep ==
    ASSUME Structure, NEW p \in Proc, Awake(p)
    PROVE  Structure'
<1>1. /\ pc[p] = "iderw"
      /\ \/ pc'[p] = "use" /\ valid[buf[p]] /\ ~dirty[buf[p]]
         \/ pc'[p] = "ideAsleep" /\ ~(valid[buf[p]] /\ ~dirty[buf[p]])
      /\ pc' \in [Proc -> Place]
      /\ \A q \in Proc \ {p} : pc'[q] = pc[q]
    BY DEF Awake, Goto, Structure, TypeOK, Place
<1>2. /\ valid' = valid /\ dirty' = dirty /\ buf' = buf /\ idequeue' = idequeue
      /\ blockno' = blockno /\ locked' = locked /\ pid' = pid
    BY DEF Awake, list, flags, lock, ide
<1>3. LockIsUser'
  <2>1. \A q \in Proc : (InUse(q)' <=> InUse(q)) /\ (pc'[q] = "asleep" => pc[q] = "asleep")
      BY SMTT(20), Zenon, <1>1 DEF InUse
  <2> QED  BY <1>2, <2>1, LocksKept DEF Structure
<1>4. ValidFirst'
    BY Zenon, <1>1, <1>2 DEF Structure, ValidFirst
<1>5. buf[p] \in Range(idequeue) <=> pc'[p] = "ideAsleep"
    BY <1>1 DEF Structure, WaitsForTransfer
<1>6. QueueIsWaiters' /\ WaitsForTransfer'
  <2>1. QueueIsWaiters'
    <3>1. ASSUME NEW b \in Range(idequeue)
          PROVE  \E q \in Proc : buf[q] = b /\ pc'[q] \in {"iderw", "ideAsleep"}
      <4>1. PICK q \in Proc : buf[q] = b /\ pc[q] \in {"iderw", "ideAsleep"}
          BY DEF Structure, QueueIsWaiters
      <4> QED  BY <1>1, <1>5, <4>1
    <3> QED  BY <1>1, <1>2, <1>5, <3>1 DEF Structure, QueueIsWaiters
  <2>2. WaitsForTransfer'
      BY <1>1, <1>2 DEF Structure, WaitsForTransfer
  <2> QED  BY <2>1, <2>2
<1>7. \A q \in Proc : pc'[q] = "out" <=> pc[q] = "out"
    BY <1>1
<1>8. locked' \in [Buf -> BOOLEAN] /\ pid' \in [Buf -> Proc \cup {NoProc}]
    BY <1>2 DEF Structure, TypeOK
<1>9. UNCHANGED <<list, flags, data, buf, ide>>
    BY DEF Awake
<1> QED  BY <1>1, <1>3, <1>4, <1>6, <1>7, <1>8, <1>9, OnlyPlaces DEF Structure

(* releasesleep() wakes everyone who waits for the lock. *)
LEMMA ReleaseSleepStep ==
    ASSUME Structure, NEW p \in Proc, ReleaseSleep(p)
    PROVE  Structure'
<1>1. /\ pc[p] = "use" /\ pc'[p] = "release"
      /\ pc' \in [Proc -> Place]
      /\ \A q \in Proc \ {p} :
            pc'[q] = IF pc[q] = "asleep" /\ buf[q] = buf[p] THEN "acquire" ELSE pc[q]
    BY DEF ReleaseSleep, Wakeup, Structure, TypeOK, Place
<1>2. /\ valid' = valid /\ dirty' = dirty /\ buf' = buf /\ idequeue' = idequeue
      /\ blockno' = blockno
    BY DEF ReleaseSleep, list, flags, ide
<1>3. /\ locked' = [locked EXCEPT ![buf[p]] = FALSE] /\ pid' = [pid EXCEPT ![buf[p]] = NoProc]
      /\ buf[p] \in Buf
    BY <1>1, Holds DEF ReleaseSleep
<1>4. locked' \in [Buf -> BOOLEAN] /\ pid' \in [Buf -> Proc \cup {NoProc}]
    BY <1>3 DEF Structure, TypeOK
<1>5. LockIsUser'
  <2>1. ~InUse(p)' /\ InUse(p) /\ \A q \in Proc \ {p} : InUse(q)' <=> InUse(q)
      BY <1>1 DEF InUse
  <2>2. \A q \in Proc \ {p} : InUse(q) => buf[q] # buf[p] /\ buf[q] \in Buf
    <3>1. \A q \in Proc : InUse(q) => buf[q] \in Buf
        BY Holds DEF InUse
    <3> QED  BY <2>1, <3>1, Exclusive
  <2>3. \A b \in Buf : locked'[b] <=> \E q \in Proc : InUse(q)' /\ buf'[q] = b
    <3> TAKE b \in Buf
    <3>1. CASE b = buf[p]
        BY Zenon, <1>2, <1>3, <2>1, <2>2, <3>1 DEF Structure, TypeOK
    <3>2. CASE b # buf[p]
        BY <1>2, <1>3, <2>1, <3>2 DEF Structure, TypeOK, LockIsUser
    <3> QED  BY <3>1, <3>2
  <2>4. \A q \in Proc : InUse(q)' => pid'[buf'[q]] = q
      BY <1>2, <1>3, <2>1, <2>2 DEF Structure, TypeOK, LockIsUser
  <2>5. NoLostWakeup'
    <3> SUFFICES ASSUME NEW q \in Proc, pc'[q] = "asleep" PROVE locked'[buf[q]]
        BY <1>2 DEF NoLostWakeup
    <3>1. pc[q] = "asleep" /\ buf[q] # buf[p]
        BY <1>1
    <3>2. locked[buf[q]] /\ buf[q] \in Buf
        BY <3>1, Holds DEF Structure, LockIsUser, NoLostWakeup
    <3> QED  BY <1>3, <3>1, <3>2 DEF Structure, TypeOK
  <2> QED  BY <2>3, <2>4, <2>5 DEF LockIsUser
<1>6. ValidFirst'
    BY <1>1, <1>2 DEF Structure, ValidFirst
<1>7. QueueIsWaiters' /\ WaitsForTransfer'
  <2>1. \A q \in Proc :
            /\ pc[q] \in {"iderw", "ideAsleep"} => pc'[q] \in {"iderw", "ideAsleep"}
            /\ pc'[q] \in {"iderw", "ideAsleep"} => buf'[q] = buf[q]
            /\ pc'[q] = "ideAsleep" => pc[q] = "ideAsleep"
            /\ pc'[q] = "iderw" => pc[q] \in {"iderw", "ideAsleep"}
      BY <1>1, <1>2
  <2> QED  BY <1>2, <2>1, QueueKept DEF Structure
<1>8. \A q \in Proc : pc'[q] = "out" <=> pc[q] = "out"
    BY <1>1
<1>9. UNCHANGED <<list, flags, data, buf, ide>>
    BY SMTT(20), ZenonT(20) DEF ReleaseSleep
<1> QED  BY <1>1, <1>4, <1>5, <1>6, <1>7, <1>8, <1>9, OnlyPlaces DEF Structure

(* iderw() queues a buffer that was not in the queue, to be read when it is *)
(* not valid and to be written when it is.                                  *)
LEMMA EnqueueStep ==
    ASSUME Structure, NEW p \in Proc, pc[p] \in {"got", "use"},
           dirty' \in [Buf -> BOOLEAN], dirty'[buf[p]] <=> valid[buf[p]],
           Enqueue(p, dirty'[buf[p]]),
           \A c \in Buf \ {buf[p]} : dirty'[c] <=> dirty[c],
           UNCHANGED <<list, valid, data, lock, buf>>
    PROVE  Structure'
<1> DEFINE b == buf[p]
<1>1. b \in Buf /\ blockno[b] \in Block /\ b \notin Range(idequeue)
    BY Holds, NotQueued
<1>2. /\ order' = order /\ blockno' = blockno /\ refcnt' = refcnt /\ valid' = valid
      /\ data' = data /\ buf' = buf /\ locked' = locked /\ pid' = pid
      /\ disk' = disk /\ irq' = irq /\ error' = error
    BY DEF Enqueue, list, lock
<1>3. /\ pc' \in [Proc -> Place] /\ pc'[p] = "ideAsleep"
      /\ \A q \in Proc \ {p} : pc'[q] = pc[q]
    BY DEF Enqueue, Goto, Structure, TypeOK, Place
<1>4. /\ idequeue' = Append(idequeue, b)
      /\ cmd' = IF idequeue = <<>> THEN Command(b, dirty'[b]) ELSE cmd
    BY DEF Enqueue
<1> HIDE DEF b
<1>5. /\ idequeue' \in Seq(Buf) /\ idequeue' # <<>>
      /\ Range(idequeue') = Range(idequeue) \cup {b}
      /\ IsInjective(idequeue')
      /\ idequeue # <<>> => Head(idequeue') = Head(idequeue)
      /\ idequeue = <<>> => Head(idequeue') = b
  <2>1. idequeue \in Seq(Buf) /\ IsInjective(idequeue)
      BY DEF Structure, TypeOK, QueueIsWaiters
  <2> QED  BY <1>1, <1>4, <2>1, AppendToQueue
<1>6. TypeOK'
    BY <1>2, <1>3, <1>5 DEF Structure, TypeOK
<1>7. HasBuffer' /\ OneBufferPerBlock' /\ CountIsUsers'
    BY SMTT(20), ZenonT(20), <1>2, <1>3 DEF Structure, HasBuffer, OneBufferPerBlock, CountIsUsers
<1>8. LockIsUser'
  <2>1. \A q \in Proc : (InUse(q)' <=> InUse(q)) /\ (pc'[q] = "asleep" => pc[q] = "asleep")
      BY <1>3 DEF InUse
  <2> QED  BY ZenonT(40), <1>2, <2>1, LocksKept DEF Structure
<1>9. ValidFirst'
  <2>1. \A c \in Buf : dirty'[c] => valid[c]
      BY DEF b, Structure, ValidFirst
  <2>2. \A c \in Buf : valid[c] => blockno[c] \in Block
      BY Zenon DEF Structure, ValidFirst
  <2>3. \A q \in Proc : pc'[q] = "use" => pc[q] = "use"
      BY <1>3
  <2>4. \A q \in Proc : pc'[q] = "use" => valid[buf[q]]
      BY Zenon, <2>3 DEF Structure, ValidFirst
  <2> QED  BY Zenon, <1>2, <2>1, <2>2, <2>4 DEF ValidFirst
<1>10. QueueIsWaiters'
  <2>1. \A q \in Proc : pc'[q] = "ideAsleep" => buf[q] \in Range(idequeue')
      BY <1>3, <1>5 DEF b, Structure, QueueIsWaiters
  <2>2. \A c \in Range(idequeue') : \E q \in Proc : buf[q] = c /\ pc'[q] \in {"iderw", "ideAsleep"}
      BY <1>3, <1>5 DEF b, Structure, QueueIsWaiters
  <2> QED  BY <1>2, <1>5, <2>1, <2>2 DEF QueueIsWaiters
<1>11. WaitsForTransfer'
  <2>1. Range(idequeue) \subseteq Buf \ {b}
      BY SMTT(20), ZenonT(20), <1>1, Queued
  <2>2. \A c \in Range(idequeue') : ~valid[c] \/ dirty'[c]
      BY SMTT(20), ZenonT(20), <1>5, <2>1 DEF b, Structure, WaitsForTransfer
  <2>3. \A q \in Proc : pc'[q] = "iderw" =>
            buf[q] \in Range(idequeue') \/ (valid[buf[q]] /\ ~dirty'[buf[q]])
    <3> SUFFICES ASSUME NEW q \in Proc, pc'[q] = "iderw", buf[q] # b
                 PROVE  buf[q] \in Range(idequeue) \/ (valid[buf[q]] /\ ~dirty'[buf[q]])
        BY ZenonT(40), <1>5
    <3>1. pc[q] = "iderw" /\ buf[q] \in Buf \ {b}
        BY <1>3, Holds
    <3> QED  BY ZenonT(40), <3>1 DEF b, Structure, WaitsForTransfer
  <2> QED  BY <1>2, <2>2, <2>3 DEF WaitsForTransfer
<1>12. DeviceServesHead'
  <2>1. CASE idequeue = <<>>
    <3>1. cmd' = Command(b, dirty'[b]) /\ Head(idequeue') = b
        BY SMTT(20), ZenonT(20), <1>1, <1>4, <1>5, <2>1 DEF b
    <3> QED  BY <1>5, <3>1 DEF DeviceServesHead
  <2>2. CASE idequeue # <<>>
    <3>1. Head(idequeue) \in Buf \ {b}
        BY <1>1, <2>2, AtHead
    <3>2. dirty'[Head(idequeue)] = dirty[Head(idequeue)]
        BY Zenon, <3>1 DEF b, Structure, TypeOK
    <3> QED  BY <1>2, <1>4, <1>5, <2>2, <3>2 DEF Structure, DeviceServesHead
  <2> QED  BY <2>1, <2>2
<1>13. PinnedBounded'
  <2>1. Pinned' \subseteq Pinned
      BY <1>5 DEF b, Pinned
  <2> QED  BY <2>1, NothingPinned DEF Structure
<1> QED
    BY ZenonT(40), <1>6, <1>7, <1>8, <1>9, <1>10, <1>11, <1>12, <1>13 DEF Structure

(* bread() of a buffer that is not valid queues a read. *)
LEMMA BreadDiskStep ==
    ASSUME Structure, NEW p \in Proc, BreadDisk(p)
    PROVE  Structure'
<1>1. /\ pc[p] = "got" /\ ~valid[buf[p]] /\ Enqueue(p, dirty[buf[p]]) /\ dirty' = dirty
      /\ UNCHANGED <<list, valid, data, lock, buf>>
    BY DEF BreadDisk, flags
<1>2. buf[p] \in Buf
    BY <1>1, Holds
<1>3. dirty \in [Buf -> BOOLEAN] /\ ~dirty[buf[p]] /\ dirty[buf[p]] \in BOOLEAN
    BY <1>1, <1>2 DEF Structure, TypeOK, ValidFirst
<1> QED  BY <1>1, <1>2, <1>3, EnqueueStep

(* bwrite() queues a write. *)
LEMMA BwriteStep ==
    ASSUME Structure, NEW p \in Proc, Bwrite(p)
    PROVE  Structure'
<1>1. /\ pc[p] = "use" /\ Enqueue(p, TRUE) /\ dirty' = [dirty EXCEPT ![buf[p]] = TRUE]
      /\ UNCHANGED <<list, valid, data, lock, buf>>
    BY Zenon DEF Bwrite
<1>2. buf[p] \in Buf /\ valid[buf[p]]
    BY <1>1, Holds DEF Structure, ValidFirst
<1>3. /\ dirty' \in [Buf -> BOOLEAN] /\ dirty'[buf[p]]
      /\ \A c \in Buf \ {buf[p]} : dirty'[c] <=> dirty[c]
    BY <1>1, <1>2 DEF Structure, TypeOK
<1> QED  BY Zenon, <1>1, <1>2, <1>3, EnqueueStep

(* log_write() of a buffer: the transaction has room, or has the block. *)
LEMMA UpdateStep ==
    ASSUME Structure, NEW p \in Proc, NEW v \in Val, Update(p, v)
    PROVE  Structure'
<1> DEFINE b == buf[p]
<1>1. /\ pc[p] = "use" /\ data' = [data EXCEPT ![b] = v]
      /\ dirty' = [dirty EXCEPT ![b] = TRUE]
    BY SMTT(20), ZenonT(20) DEF Update
<1>2. b \in Buf /\ valid[b] /\ b \notin Range(idequeue)
    BY <1>1, Holds, NotQueued DEF Structure, ValidFirst
<1>3. /\ order' = order /\ blockno' = blockno /\ refcnt' = refcnt /\ valid' = valid
      /\ buf' = buf /\ pc' = pc /\ locked' = locked /\ pid' = pid
      /\ idequeue' = idequeue /\ disk' = disk /\ cmd' = cmd /\ irq' = irq /\ error' = error
    BY DEF Update, list, lock, ide
<1>4. dirty' \in [Buf -> BOOLEAN] /\ dirty'[b] /\ \A c \in Buf \ {b} : dirty'[c] = dirty[c]
    BY <1>1, <1>2 DEF Structure, TypeOK
<1>5. data' \in [Buf -> Val]
    BY Zenon, <1>1 DEF Structure, TypeOK
<1>6. TypeOK'
    BY SMTT(20), ZenonT(20), <1>3, <1>4, <1>5 DEF Structure, TypeOK
<1>7. HasBuffer' /\ OneBufferPerBlock' /\ CountIsUsers'
    BY ZenonT(40), <1>3 DEF Structure, HasBuffer, OneBufferPerBlock, CountIsUsers
<1>8. LockIsUser'
  <2>1. \A q \in Proc : InUse(q)' <=> InUse(q)
      BY <1>3 DEF InUse
  <2> QED  BY <1>3, <2>1, LocksKept DEF Structure
<1>9. ValidFirst'
    BY SMTT(20), ZenonT(20), <1>2, <1>3, <1>4 DEF Structure, ValidFirst
<1>10. QueueIsWaiters'
    BY <1>3 DEF Structure, QueueIsWaiters
<1>11. WaitsForTransfer'
  <2>1. Range(idequeue) \subseteq Buf \ {b}
      BY <1>2, Queued
  <2>2. \A q \in Proc : pc[q] = "iderw" => buf[q] \in Buf \ {b}
    <3> SUFFICES ASSUME NEW q \in Proc, pc[q] = "iderw" PROVE buf[q] \in Buf \ {b}
        OBVIOUS
    <3>1. q # p /\ InUse(q) /\ InUse(p) /\ buf[q] \in Buf
        BY SMTT(20), Zenon, <1>1, Holds DEF InUse
    <3> QED  BY <3>1, Exclusive
  <2> QED  BY <1>3, <1>4, <2>1, <2>2 DEF Structure, WaitsForTransfer
<1>12. DeviceServesHead'
  <2>1. idequeue # <<>> => dirty'[Head(idequeue)] = dirty[Head(idequeue)]
      BY <1>2, <1>4, AtHead
  <2> QED  BY Zenon, <1>3, <2>1 DEF Structure, DeviceServesHead
<1>13. PinnedBounded'
  <2>1. CASE dirty[b]
    <3>1. Pinned' \subseteq Pinned
        BY <1>2, <1>3, <1>4, <2>1 DEF Pinned
    <3> QED  BY <3>1, NothingPinned DEF Structure
  <2>2. CASE ~dirty[b]
    <3> DEFINE D == {c \in Buf : dirty[c]}
    <3>1. Cardinality(D) < MaxPinned
        BY <2>2 DEF Update
    <3>2. IsFiniteSet(D) /\ Cardinality(D) \in Nat
        BY FS_Subset, FS_CardinalityType, BcacheConstants
    <3>3. Pinned' \subseteq D \cup {b}
        BY <1>4 DEF Pinned
    <3> HIDE DEF D
    <3>4. /\ IsFiniteSet(D \cup {b}) /\ Cardinality(D \cup {b}) <= Cardinality(D) + 1
          /\ Cardinality(D \cup {b}) \in Nat
        BY <3>2, FS_AddElement, FS_CardinalityType
    <3>5. Cardinality(Pinned') <= Cardinality(D \cup {b}) /\ Cardinality(Pinned') \in Nat
        BY <3>3, <3>4, FS_Subset, FS_CardinalityType
    <3> QED  BY <3>1, <3>2, <3>4, <3>5, BcacheConstants DEF PinnedBounded
  <2> QED  BY <2>1, <2>2
<1> QED
    BY <1>6, <1>7, <1>8, <1>9, <1>10, <1>11, <1>12, <1>13 DEF Structure

(* brelse() drops the reference: nobody else loses the buffer. *)
LEMMA BrelseStep ==
    ASSUME Structure, NEW p \in Proc, Brelse(p)
    PROVE  Structure'
<1>1. /\ pc[p] = "release" /\ buf[p] \in Buf
      /\ refcnt' = [refcnt EXCEPT ![buf[p]] = refcnt[buf[p]] - 1]
      /\ buf' = [buf EXCEPT ![p] = NoBuf] /\ pc' = [pc EXCEPT ![p] = "out"]
    BY Holds DEF Brelse, Goto
<1>2. /\ blockno' = blockno /\ valid' = valid /\ dirty' = dirty /\ data' = data
      /\ locked' = locked /\ pid' = pid
      /\ idequeue' = idequeue /\ disk' = disk /\ cmd' = cmd /\ irq' = irq /\ error' = error
    BY DEF Brelse, flags, lock, ide
<1>3. order' \in Seq(Buf) /\ Range(order') = Buf
  <2>1. order' = ToFront(buf[p]) \/ order' = order
      BY DEF Brelse
  <2> QED  BY <1>1, <2>1, MoveToFront DEF Structure, TypeOK
<1>4. /\ \A q \in Proc \ {p} : pc'[q] = pc[q] /\ buf'[q] = buf[q]
      /\ pc'[p] = "out" /\ buf'[p] = NoBuf
      /\ pc' \in [Proc -> Place] /\ buf' \in [Proc -> Buf \cup {NoBuf}]
      /\ refcnt' \in [Buf -> Int]
    BY <1>1 DEF Structure, TypeOK, Place
<1>5. TypeOK'
    BY <1>2, <1>3, <1>4 DEF Structure, TypeOK
<1>6. HasBuffer' /\ OneBufferPerBlock'
    BY <1>2, <1>4 DEF Structure, HasBuffer, OneBufferPerBlock
<1>7. CountIsUsers'
    BY Zenon, <1>1, CountPut DEF Structure
<1>8. LockIsUser'
  <2>1. \A q \in Proc :
            /\ InUse(q)' <=> InUse(q)
            /\ InUse(q) \/ pc'[q] = "asleep" => buf'[q] = buf[q]
            /\ pc'[q] = "asleep" => pc[q] = "asleep"
      BY <1>1, <1>4 DEF InUse
  <2> QED  BY ZenonT(40), <1>2, <2>1, LocksKept DEF Structure
<1>9. ValidFirst'
    BY SMTT(20), ZenonT(20), <1>2, <1>4 DEF Structure, ValidFirst
<1>10. QueueIsWaiters' /\ WaitsForTransfer'
  <2>1. \A q \in Proc :
            /\ pc[q] \in {"iderw", "ideAsleep"} => pc'[q] \in {"iderw", "ideAsleep"}
            /\ pc'[q] \in {"iderw", "ideAsleep"} => buf'[q] = buf[q]
            /\ pc'[q] = "ideAsleep" => pc[q] = "ideAsleep"
            /\ pc'[q] = "iderw" => pc[q] \in {"iderw", "ideAsleep"}
      BY <1>1, <1>4
  <2> QED  BY <1>2, <2>1, QueueKept DEF Structure
<1>11. DeviceServesHead' /\ PinnedBounded'
    BY <1>2 DEF Structure, DeviceServesHead, PinnedBounded, Pinned
<1> QED
    BY <1>5, <1>6, <1>7, <1>8, <1>9, <1>10, <1>11 DEF Structure

(* The device works only when there is a request. *)
LEMMA DeviceDoneStep ==
    ASSUME Structure, DeviceDone
    PROVE  Structure'
<1>1. /\ order' = order /\ blockno' = blockno /\ refcnt' = refcnt /\ valid' = valid
      /\ dirty' = dirty /\ data' = data /\ buf' = buf /\ pc' = pc /\ locked' = locked
      /\ pid' = pid /\ idequeue' = idequeue /\ cmd' = cmd /\ irq' = TRUE
    BY DEF DeviceDone, list, flags, lock
<1>2. idequeue # <<>> /\ cmd = Command(Head(idequeue), dirty[Head(idequeue)])
    BY DEF DeviceDone, Structure, DeviceServesHead
<1>3. cmd.buf \in Buf
    BY <1>2, AtHead DEF Command
<1>4. disk' \in [Block -> Val] /\ error' \in BOOLEAN
    BY Zenon, <1>3 DEF DeviceDone, Structure, TypeOK
<1>5. TypeOK'
    BY <1>1, <1>4 DEF Structure, TypeOK
<1>6. HasBuffer' /\ OneBufferPerBlock' /\ CountIsUsers' /\ ValidFirst'
    BY <1>1 DEF Structure, HasBuffer, OneBufferPerBlock, CountIsUsers, ValidFirst
<1>7. LockIsUser'
  <2>1. \A q \in Proc : InUse(q)' <=> InUse(q)
      BY <1>1 DEF InUse
  <2> QED  BY <1>1, <2>1, LocksKept DEF Structure
<1>8. QueueIsWaiters' /\ WaitsForTransfer' /\ PinnedBounded'
    BY <1>1 DEF Structure, QueueIsWaiters, WaitsForTransfer, PinnedBounded, Pinned
<1>9. DeviceServesHead'
    BY <1>1, <1>2 DEF Structure, DeviceServesHead
<1> QED  BY <1>5, <1>6, <1>7, <1>8, <1>9 DEF Structure

(* ideintr() finishes the request at the head, and its process is awake. *)
LEMMA ideintrStep ==
    ASSUME Structure, ideintr
    PROVE  Structure'
<1> DEFINE b == Head(idequeue)
<1>1. /\ idequeue # <<>> /\ idequeue' = Tail(idequeue) /\ irq' = FALSE
      /\ data' = [data EXCEPT ![b] = ReadData(b)]
      /\ valid' = [valid EXCEPT ![b] = TRUE] /\ dirty' = [dirty EXCEPT ![b] = FALSE]
      /\ pc' = [p \in Proc |->
                  IF pc[p] = "ideAsleep" /\ buf[p] = b THEN "iderw" ELSE pc[p]]
      /\ cmd' = StartNext(idequeue')
    BY DEF ideintr
<1>2. /\ order' = order /\ blockno' = blockno /\ refcnt' = refcnt /\ buf' = buf
      /\ locked' = locked /\ pid' = pid /\ disk' = disk /\ error' = error
    BY DEF ideintr, list, lock
<1>3. b \in Buf /\ blockno[b] \in Block /\ b \in Range(idequeue)
    BY <1>1, AtHead, Queued
<1>4. /\ idequeue' \in Seq(Buf) /\ Range(idequeue') = Range(idequeue) \ {b}
      /\ IsInjective(idequeue')
      /\ idequeue' # <<>> => Head(idequeue') \in Range(idequeue')
    BY <1>1, TakeFromQueue DEF Structure, TypeOK, QueueIsWaiters
<1> HIDE DEF b
<1>5. /\ valid' \in [Buf -> BOOLEAN] /\ dirty' \in [Buf -> BOOLEAN]
      /\ valid'[b] /\ ~dirty'[b]
      /\ \A c \in Buf \ {b} : valid'[c] = valid[c] /\ dirty'[c] = dirty[c]
    BY <1>1, <1>3 DEF Structure, TypeOK
<1>6. data' \in [Buf -> Val]
  <2>1. ReadData(b) \in Val
      BY <1>3 DEF ReadData, Structure, TypeOK
  <2> QED  BY Zenon, <1>1, <2>1 DEF Structure, TypeOK
<1>7. /\ pc' \in [Proc -> Place]
      /\ \A q \in Proc : pc'[q] = IF pc[q] = "ideAsleep" /\ buf[q] = b THEN "iderw" ELSE pc[q]
    BY <1>1 DEF Structure, TypeOK, Place
<1>8. TypeOK'
    BY ZenonT(40), <1>1, <1>2, <1>4, <1>5, <1>6, <1>7 DEF Structure, TypeOK
<1>9. HasBuffer' /\ OneBufferPerBlock' /\ CountIsUsers'
    BY ZenonT(40), <1>2, <1>7 DEF Structure, HasBuffer, OneBufferPerBlock, CountIsUsers
<1>10. LockIsUser'
  <2>1. \A q \in Proc : (InUse(q)' <=> InUse(q)) /\ (pc'[q] = "asleep" => pc[q] = "asleep")
      BY SMTT(20), Zenon, <1>7 DEF InUse
  <2> QED  BY <1>2, <2>1, LocksKept DEF Structure
<1>11. ValidFirst'
  <2>1. \A q \in Proc : pc'[q] = "use" => pc[q] = "use" /\ buf[q] \in Buf
      BY SMTT(20), Zenon, <1>7, Holds
  <2> QED  BY ZenonT(40), <1>2, <1>3, <1>5, <2>1 DEF Structure, ValidFirst
<1>12. QueueIsWaiters'
  <2>1. \A q \in Proc : pc'[q] = "ideAsleep" => buf[q] \in Range(idequeue')
      BY <1>4, <1>7 DEF Structure, QueueIsWaiters
  <2>2. \A c \in Range(idequeue') : \E q \in Proc : buf[q] = c /\ pc'[q] \in {"iderw", "ideAsleep"}
      BY <1>4, <1>7 DEF Structure, QueueIsWaiters
  <2> QED  BY ZenonT(40), <1>2, <1>4, <2>1, <2>2 DEF QueueIsWaiters
<1>13. WaitsForTransfer'
  <2>1. Range(idequeue') \subseteq Buf \ {b}
      BY <1>4, Queued
  <2>2. \A c \in Range(idequeue') : ~valid'[c] \/ dirty'[c]
      BY <1>4, <1>5, <2>1 DEF Structure, WaitsForTransfer
  <2>3. ASSUME NEW q \in Proc, pc'[q] = "iderw"
        PROVE  buf[q] \in Range(idequeue') \/ (valid'[buf[q]] /\ ~dirty'[buf[q]])
    <3>1. CASE buf[q] = b
        BY <1>5, <3>1
    <3>2. CASE buf[q] # b
      <4>1. pc[q] = "iderw" /\ buf[q] \in Buf
          BY <1>7, <2>3, <3>2, Holds
      <4> QED  BY <1>4, <1>5, <3>2, <4>1 DEF Structure, WaitsForTransfer
    <3> QED  BY <3>1, <3>2
  <2> QED  BY <1>2, <2>2, <2>3 DEF WaitsForTransfer
<1>14. DeviceServesHead'
  <2>1. idequeue' # <<>> => dirty'[Head(idequeue')] = dirty[Head(idequeue')]
    <3>1. idequeue' # <<>> => Head(idequeue') \in Buf \ {b}
        BY <1>4, Queued
    <3> QED  BY <1>5, <3>1
  <2> QED  BY Zenon, <1>1, <2>1 DEF DeviceServesHead, StartNext
<1>15. PinnedBounded'
  <2>1. Pinned' \subseteq Pinned
      BY SMTT(20), ZenonT(20), <1>4, <1>5 DEF Pinned
  <2> QED  BY <2>1, NothingPinned DEF Structure
<1> QED
    BY <1>8, <1>9, <1>10, <1>11, <1>12, <1>13, <1>14, <1>15 DEF Structure

(* Nothing happens. *)
LEMMA StutterStep ==
    ASSUME Structure, UNCHANGED vars
    PROVE  Structure'
<1>1. pc' = pc /\ UNCHANGED <<list, flags, data, lock, buf, ide>>
    BY DEF vars
<1>2. pc' \in [Proc -> Place] /\ \A q \in Proc : pc'[q] = "use" => valid[buf[q]]
    BY <1>1 DEF Structure, TypeOK, ValidFirst
<1>3. \A q \in Proc : InUse(q)' <=> InUse(q)
    BY <1>1 DEF InUse
<1> QED  BY <1>1, <1>2, <1>3, WalkStep

LEMMA StructureStep == Structure /\ [Next]_vars => Structure'
<1> SUFFICES ASSUME Structure, [Next]_vars PROVE Structure'
    OBVIOUS
<1>1. ASSUME NEW p \in Proc, NEW k \in Block, BgetHit(p, k) \/ BgetMiss(p, k)
      PROVE  Structure'
    BY <1>1, BgetHitStep, BgetMissStep
<1>2. ASSUME NEW p \in Proc,
             \/ AcquireSleep(p) \/ KillWakes(p) \/ BreadValid(p) \/ BreadDisk(p)
             \/ Awake(p) \/ Bwrite(p) \/ ReleaseSleep(p) \/ Brelse(p)
      PROVE  Structure'
    BY <1>2, AcquireSleepStep, KillWakesStep, BreadValidStep, BreadDiskStep, AwakeStep,
       BwriteStep, ReleaseSleepStep, BrelseStep
<1>3. ASSUME NEW p \in Proc, NEW v \in Val, Update(p, v) PROVE Structure'
    BY <1>3, UpdateStep
<1>4. CASE DeviceDone \/ ideintr
    BY <1>4, DeviceDoneStep, ideintrStep
<1>5. CASE UNCHANGED vars
    BY <1>5, StutterStep
<1> QED  BY <1>1, <1>2, <1>3, <1>4, <1>5 DEF Next

LEMMA StructureInvariance == Spec => []Structure
BY InitStructure, StructureStep, PTL DEF Spec

-----------------------------------------------------------------------------

(***************************************************************************)
(* bget() finds a buffer: those that are in no transaction and that no     *)
(* other process has are at least one.                                     *)
(***************************************************************************)
LEMMA BufferIsLeft == Structure => NeverOutOfBuffers
<1> SUFFICES ASSUME Structure, NEW p \in Proc, pc[p] = "out",
                    \A i \in DOMAIN order : ~Free(order[i])
             PROVE  FALSE
    BY SMTT(20), ZenonT(20) DEF NeverOutOfBuffers
<1> DEFINE Others == Proc \ {p}
           U == {buf[q] : q \in Others}
           f == [q \in Others |-> buf[q]]
<1>1. \A b \in Buf : ~Free(b)
    BY SMTT(20), Zenon DEF Structure, TypeOK, Range
<1>2. buf[p] = NoBuf
    BY ZenonT(40) DEF Structure, HasBuffer
<1>3. ASSUME NEW b \in Buf PROVE b \in Pinned \cup U
  <2>1. CASE refcnt[b] # 0
    <3>1. {q \in Proc : buf[q] = b} # {}
        BY <2>1, FS_EmptySet DEF Structure, CountIsUsers
    <3>2. PICK q \in Proc : buf[q] = b
        BY <3>1
    <3> QED  BY <1>2, <3>2, BcacheConstants
  <2>2. CASE dirty[b] /\ b \in Range(idequeue)
    <3>1. PICK q \in Proc : buf[q] = b /\ pc[q] \in {"iderw", "ideAsleep"}
        BY <2>2 DEF Structure, QueueIsWaiters
    <3> QED  BY <3>1
  <2>3. CASE dirty[b] /\ b \notin Range(idequeue)
      BY <2>3 DEF Pinned
  <2> QED  BY <1>1, <2>1, <2>2, <2>3 DEF Free
<1>4. IsFiniteSet(Others) /\ Cardinality(Others) = Cardinality(Proc) - 1
    BY SMTT(20), Zenon, FS_RemoveElement, BcacheConstants
<1>5. f \in Surjection(Others, U)
    BY DEF Surjection
<1>6. IsFiniteSet(U) /\ Cardinality(U) <= Cardinality(Others)
  <2> HIDE DEF f, U, Others
  <2> QED  BY <1>4, <1>5, FS_Surjection
<1>7. IsFiniteSet(Pinned) /\ Cardinality(Pinned) <= MaxPinned
  <2>1. Pinned \in SUBSET Buf
      BY DEF Pinned
  <2> QED  BY <2>1, FS_Subset, BcacheConstants DEF Structure, PinnedBounded
<1> HIDE DEF f, U, Others
<1>8. /\ IsFiniteSet(Pinned \cup U)
      /\ Cardinality(Pinned \cup U)
            = Cardinality(Pinned) + Cardinality(U) - Cardinality(Pinned \cap U)
      /\ IsFiniteSet(Pinned \cap U)
    BY Zenon, <1>6, <1>7, FS_Union, FS_Intersection
<1>9. Cardinality(Buf) <= Cardinality(Pinned \cup U)
    BY <1>3, <1>8, FS_Subset
<1>10. /\ Cardinality(Buf) \in Nat /\ Cardinality(Proc) \in Nat /\ Cardinality(Pinned) \in Nat
       /\ Cardinality(U) \in Nat /\ Cardinality(Pinned \cap U) \in Nat
    BY <1>6, <1>7, <1>8, FS_CardinalityType, BcacheConstants
<1> QED  BY <1>4, <1>6, <1>7, <1>8, <1>9, <1>10, BuffersSuffice, BcacheConstants

(***************************************************************************)
(* Whatever the device reports: no block is in two buffers, a buffer is    *)
(* counted, locked and queued exactly as the processes use it, bget()      *)
(* finds one when it needs one, and the device serves the head.            *)
(***************************************************************************)
THEOREM CacheIsConsistent ==
    Spec => [](/\ OneBufferPerBlock /\ RefsAndLocksAgree /\ NoLostWakeup
               /\ NeverOutOfBuffers /\ DeviceServesHead /\ QueueIsWaiters)
<1>1. Structure => /\ OneBufferPerBlock /\ RefsAndLocksAgree /\ NoLostWakeup
                   /\ NeverOutOfBuffers /\ DeviceServesHead /\ QueueIsWaiters
    BY BufferIsLeft DEF Structure, RefsAndLocksAgree, LockIsUser, CountIsUsers
<1> QED  BY <1>1, StructureInvariance, PTL

=============================================================================
