------------------------- MODULE BcacheStoreProofs -------------------------
(***************************************************************************)
(* What the buffer cache stores when the device reports no error: a clean  *)
(* buffer holds what is on the disk, and the cache is the store of blocks  *)
(* that BlockStore describes.  Structure, of BcacheProofs, is the          *)
(* invariant it rests on.                                                  *)
(***************************************************************************)
EXTENDS BcacheProofs

(* What is in the buffers, when the device makes no errors. *)

OnDisk == Transferred /\ ~error /\ CleanIsOnDisk

LEMMA InitOnDisk == Init => OnDisk
BY DEF Init, OnDisk, Transferred, CleanIsOnDisk

(* Nothing changes in the buffers, the queue and the disk. *)
LEMMA DataKept ==
    ASSUME OnDisk, blockno' = blockno, flags' = flags, data' = data, ide' = ide
    PROVE  OnDisk'
<1>1. /\ valid' = valid /\ dirty' = dirty /\ idequeue' = idequeue /\ disk' = disk
      /\ irq' = irq /\ error' = error
    BY DEF flags, ide
<1> QED  BY <1>1 DEF OnDisk, Transferred, CleanIsOnDisk

(* A recycled buffer is not valid, and is not in the queue. *)
LEMMA BgetMissOnDisk ==
    ASSUME Structure, OnDisk, NEW p \in Proc, NEW k \in Block, BgetMiss(p, k)
    PROVE  OnDisk'
<1>1. PICK i \in DOMAIN order :
          /\ Free(order[i])
          /\ blockno' = [blockno EXCEPT ![order[i]] = k]
          /\ valid' = [valid EXCEPT ![order[i]] = FALSE]
          /\ dirty' = [dirty EXCEPT ![order[i]] = FALSE]
    BY Zenon DEF BgetMiss
<1> DEFINE b == order[i]
<1>2. b \in Buf /\ b \notin Range(idequeue)
  <2>1. b \in Buf
      BY DEF Structure, TypeOK, Range
  <2> QED  BY <1>1, <2>1, NobodyHas DEF Free
<1>3. /\ ~valid'[b]
      /\ \A c \in Buf \ {b} : /\ valid'[c] = valid[c] /\ dirty'[c] = dirty[c]
                              /\ blockno'[c] = blockno[c]
    BY <1>1, <1>2 DEF Structure, TypeOK
<1>4. data' = data /\ disk' = disk /\ irq' = irq /\ error' = error /\ idequeue' = idequeue
    BY DEF BgetMiss, ide
<1> HIDE DEF b
<1>5. irq => Head(idequeue) \in Buf \ {b}
    BY <1>2, AtHead DEF Structure, DeviceServesHead
<1> QED  BY <1>3, <1>4, <1>5 DEF OnDisk, Transferred, CleanIsOnDisk

(* A buffer that is queued or changed while the device works is not the one  *)
(* that the device works on.                                                 *)
LEMMA HolderOnDisk ==
    ASSUME Structure, OnDisk, NEW p \in Proc, pc[p] \in {"got", "use"},
           blockno' = blockno, valid' = valid, disk' = disk, irq' = irq, error' = error,
           idequeue' = idequeue \/ idequeue' = Append(idequeue, buf[p]),
           dirty'[buf[p]] \/ ~valid[buf[p]],
           \A c \in Buf \ {buf[p]} : (dirty'[c] <=> dirty[c]) /\ data'[c] = data[c]
    PROVE  OnDisk'
<1>1. buf[p] \in Buf /\ buf[p] \notin Range(idequeue)
    BY Holds, NotQueued
<1>2. irq => Head(idequeue) \in Buf \ {buf[p]} /\ Head(idequeue') = Head(idequeue)
  <2>1. irq => idequeue # <<>>
      BY DEF Structure, DeviceServesHead
  <2>2. idequeue # <<>> => Head(Append(idequeue, buf[p])) = Head(idequeue)
      BY <1>1, AppendToQueue DEF Structure, TypeOK
  <2>3. idequeue # <<>> => Head(idequeue) \in Buf \ {buf[p]}
      BY <1>1, AtHead
  <2> QED  BY <2>1, <2>2, <2>3
<1>3. Transferred'
    BY <1>2 DEF OnDisk, Transferred
<1>4. CleanIsOnDisk'
    BY <1>1 DEF OnDisk, CleanIsOnDisk
<1> QED  BY <1>3, <1>4 DEF OnDisk

(* The device writes the block of the buffer it works on, and no other. *)
LEMMA DeviceDoneOnDisk ==
    ASSUME Structure, OnDisk, ~ReadErrors, DeviceDone
    PROVE  OnDisk'
<1> DEFINE h == Head(idequeue)
<1>1. /\ blockno' = blockno /\ valid' = valid /\ dirty' = dirty /\ data' = data
      /\ idequeue' = idequeue /\ error' = FALSE
    BY DEF DeviceDone, list, flags
<1>2. idequeue # <<>> /\ cmd = Command(h, dirty[h])
    BY DEF DeviceDone, Structure, DeviceServesHead
<1>3. h \in Buf /\ blockno[h] \in Block
    BY <1>2, AtHead, Queued
<1> HIDE DEF h
<1>4. disk' = IF dirty[h] THEN [disk EXCEPT ![blockno[h]] = data[h]] ELSE disk
    BY <1>2 DEF DeviceDone, Command
<1>5. dirty[h] => data[h] = disk'[blockno[h]]
    BY <1>3, <1>4 DEF Structure, TypeOK
<1>6. CleanIsOnDisk'
  <2> SUFFICES ASSUME NEW c \in Buf, valid[c], ~dirty[c] PROVE data[c] = disk'[blockno[c]]
      BY <1>1 DEF CleanIsOnDisk
  <2>1. data[c] = disk[blockno[c]] /\ blockno[c] \in Block
      BY DEF OnDisk, CleanIsOnDisk, Structure, ValidFirst
  <2>2. dirty[h] => blockno[c] # blockno[h]
      BY <1>3, BcacheConstants DEF Structure, OneBufferPerBlock
  <2> QED  BY <1>3, <1>4, <2>1, <2>2 DEF Structure, TypeOK
<1> QED  BY <1>1, <1>5, <1>6 DEF OnDisk, Transferred, h

(* What was written is on the disk, and what was read is what is there. *)
LEMMA ideintrOnDisk ==
    ASSUME Structure, OnDisk, ideintr
    PROVE  OnDisk'
<1> DEFINE b == Head(idequeue)
<1>1. /\ idequeue # <<>> /\ irq /\ irq' = FALSE
      /\ data' = [data EXCEPT ![b] = ReadData(b)]
      /\ valid' = [valid EXCEPT ![b] = TRUE] /\ dirty' = [dirty EXCEPT ![b] = FALSE]
    BY DEF ideintr
<1>2. blockno' = blockno /\ disk' = disk /\ error' = error
    BY DEF ideintr, list
<1>3. b \in Buf
    BY <1>1, AtHead
<1>4. ReadData(b) = disk[blockno[b]]
    BY <1>1 DEF ReadData, OnDisk, Transferred
<1> HIDE DEF b
<1>5. /\ data'[b] = disk[blockno[b]]
      /\ \A c \in Buf \ {b} : /\ data'[c] = data[c]
                              /\ valid'[c] = valid[c] /\ dirty'[c] = dirty[c]
    BY <1>1, <1>3, <1>4 DEF Structure, TypeOK
<1>6. CleanIsOnDisk'
    BY <1>2, <1>5 DEF OnDisk, CleanIsOnDisk
<1> QED  BY <1>1, <1>2, <1>6 DEF OnDisk, Transferred

LEMMA OnDiskStep == ~ReadErrors /\ Structure /\ OnDisk /\ [Next]_vars => OnDisk'
<1> SUFFICES ASSUME ~ReadErrors, Structure, OnDisk, [Next]_vars PROVE OnDisk'
    OBVIOUS
<1>1. ASSUME NEW p \in Proc, NEW k \in Block, BgetHit(p, k) PROVE OnDisk'
    BY <1>1, DataKept DEF BgetHit
<1>2. ASSUME NEW p \in Proc, NEW k \in Block, BgetMiss(p, k) PROVE OnDisk'
    BY <1>2, BgetMissOnDisk
<1>3. ASSUME NEW p \in Proc, AcquireSleep(p) PROVE OnDisk'
    BY <1>3, DataKept DEF AcquireSleep, list
<1>4. ASSUME NEW p \in Proc, KillWakes(p) PROVE OnDisk'
    BY <1>4, DataKept DEF KillWakes, list
<1>5. ASSUME NEW p \in Proc, BreadValid(p) PROVE OnDisk'
    BY <1>5, DataKept DEF BreadValid, list
<1>6. ASSUME NEW p \in Proc, Awake(p) PROVE OnDisk'
    BY <1>6, DataKept DEF Awake, list
<1>7. ASSUME NEW p \in Proc, ReleaseSleep(p) PROVE OnDisk'
    BY <1>7, DataKept DEF ReleaseSleep, list
<1>8. ASSUME NEW p \in Proc, Brelse(p) PROVE OnDisk'
    BY <1>8, DataKept DEF Brelse
<1>9. ASSUME NEW p \in Proc, BreadDisk(p) PROVE OnDisk'
  <2>1. /\ pc[p] = "got" /\ ~valid[buf[p]]
        /\ blockno' = blockno /\ valid' = valid /\ disk' = disk /\ irq' = irq /\ error' = error
        /\ idequeue' = Append(idequeue, buf[p]) /\ dirty' = dirty /\ data' = data
      BY <1>9 DEF BreadDisk, Enqueue, list, flags
  <2> QED  BY <2>1, HolderOnDisk
<1>10. ASSUME NEW p \in Proc, Bwrite(p) PROVE OnDisk'
  <2>1. /\ pc[p] = "use" /\ dirty' = [dirty EXCEPT ![buf[p]] = TRUE] /\ data' = data
        /\ blockno' = blockno /\ valid' = valid /\ disk' = disk /\ irq' = irq /\ error' = error
        /\ idequeue' = Append(idequeue, buf[p])
      BY <1>10 DEF Bwrite, Enqueue, list
  <2>2. dirty'[buf[p]] /\ \A c \in Buf \ {buf[p]} : dirty'[c] <=> dirty[c]
      BY <2>1, Holds DEF Structure, TypeOK
  <2> QED  BY <2>1, <2>2, HolderOnDisk
<1>11. ASSUME NEW p \in Proc, NEW v \in Val, Update(p, v) PROVE OnDisk'
  <2>1. /\ pc[p] = "use" /\ dirty' = [dirty EXCEPT ![buf[p]] = TRUE]
        /\ data' = [data EXCEPT ![buf[p]] = v]
        /\ blockno' = blockno /\ valid' = valid /\ disk' = disk /\ irq' = irq /\ error' = error
        /\ idequeue' = idequeue
      BY <1>11 DEF Update, list, ide
  <2>2. /\ dirty'[buf[p]]
        /\ \A c \in Buf \ {buf[p]} : (dirty'[c] <=> dirty[c]) /\ data'[c] = data[c]
      BY <2>1, Holds DEF Structure, TypeOK
  <2> QED  BY <2>1, <2>2, HolderOnDisk
<1>12. CASE DeviceDone
    BY <1>12, DeviceDoneOnDisk
<1>13. CASE ideintr
    BY <1>13, ideintrOnDisk
<1>14. CASE UNCHANGED vars
    BY <1>14, DataKept DEF vars, list
<1> QED
    BY <1>1, <1>2, <1>3, <1>4, <1>5, <1>6, <1>7, <1>8, <1>9, <1>10, <1>11, <1>12, <1>13, <1>14
    DEF Next

(***************************************************************************)
(* On a device without errors the whole invariant holds: also what may be  *)
(* recycled is on the disk.                                                *)
(***************************************************************************)
THEOREM CacheKeepsInvariant == ~ReadErrors => (Spec => []CacheInvariant)
<1> SUFFICES ASSUME ~ReadErrors PROVE Spec => []CacheInvariant
    OBVIOUS
<1>1. Init => Structure /\ OnDisk
    BY InitStructure, InitOnDisk
<1>2. Structure /\ OnDisk /\ [Next]_vars => Structure' /\ OnDisk'
    BY StructureStep, OnDiskStep
<1>3. Structure /\ OnDisk => CacheInvariant
    BY BufferIsLeft
    DEF Structure, OnDisk, CacheInvariant, RefsAndLocksAgree, LockIsUser, CountIsUsers
<1> QED  BY <1>1, <1>2, <1>3, PTL DEF Spec

-----------------------------------------------------------------------------
(* The cache implements BlockStore. *)

(* The content of a block, as any buffer with it tells. *)
ContentIs ==
    /\ Content \in [Block -> Val]
    /\ \A b \in Buf : blockno[b] \in Block /\ valid[b] => Content[blockno[b]] = data[b]
    /\ \A k \in Block :
          (\A b \in Buf : blockno[b] = k => ~valid[b]) => Content[k] = disk[k]

LEMMA ContentDetermined == Structure => ContentIs
<1> SUFFICES ASSUME Structure PROVE ContentIs
    OBVIOUS
<1>1. ASSUME NEW b \in Buf, blockno[b] \in Block, valid[b]
      PROVE  Content[blockno[b]] = data[b]
  <2> DEFINE k == blockno[b]
             c == CHOOSE c \in Buf : blockno[c] = k /\ valid[c]
  <2>1. c \in Buf /\ blockno[c] = k
      BY <1>1
  <2>2. c = b
    <3> HIDE DEF c
    <3> QED  BY <1>1, <2>1, BcacheConstants DEF Structure, OneBufferPerBlock
  <2>3. Content[k] = data[c]
      BY <1>1 DEF Content
  <2> QED  BY Zenon, <2>2, <2>3
<1>2. ASSUME NEW k \in Block, \A b \in Buf : blockno[b] = k => ~valid[b]
      PROVE  Content[k] = disk[k]
    BY <1>2 DEF Content
<1>3. ASSUME NEW k \in Block PROVE Content[k] \in Val
  <2>1. CASE \E b \in Buf : blockno[b] = k /\ valid[b]
    <3>1. PICK b \in Buf : blockno[b] = k /\ valid[b]
        BY <2>1
    <3>2. Content[k] = data[b]
        BY <1>1, <3>1
    <3> QED  BY <3>2 DEF Structure, TypeOK
  <2>2. CASE \A b \in Buf : blockno[b] = k => ~valid[b]
      BY Zenon, <1>2, <2>2 DEF Structure, TypeOK
  <2> QED  BY <2>1, <2>2
<1>4. Content \in [Block -> Val]
    BY <1>3 DEF Content
<1> QED  BY <1>1, <1>2, <1>4 DEF ContentIs

(* Who holds a block, as the process that uses its buffer tells. *)
HolderIs ==
    /\ Holder \in [Block -> Proc \cup {NoProc}]
    /\ \A p \in Proc : InUse(p) => Holder[blockno[buf[p]]] = p
    /\ \A k \in Block :
          (\A p \in Proc : InUse(p) => blockno[buf[p]] # k) => Holder[k] = NoProc

LEMMA HolderDetermined == Structure => HolderIs
<1> SUFFICES ASSUME Structure PROVE HolderIs
    OBVIOUS
<1>1. ASSUME NEW p \in Proc, InUse(p) PROVE Holder[blockno[buf[p]]] = p
  <2> DEFINE k == blockno[buf[p]]
             q == CHOOSE q \in Proc : InUse(q) /\ blockno[buf[q]] = k
  <2>1. q \in Proc /\ InUse(q) /\ blockno[buf[q]] = k
      BY <1>1
  <2>2. buf[p] \in Buf /\ k \in Block
      BY <1>1, Holds DEF InUse
  <2>3. q = p
    <3> HIDE DEF q
    <3>1. buf[q] \in Buf
        BY <2>1, Holds DEF InUse
    <3>2. buf[q] = buf[p]
        BY <2>1, <2>2, <3>1, BcacheConstants DEF Structure, OneBufferPerBlock
    <3> QED  BY <1>1, <2>1, <3>2, Exclusive
  <2>4. Holder[k] = q
      BY <1>1, <2>2 DEF Holder
  <2> QED  BY <2>3, <2>4
<1>2. ASSUME NEW k \in Block, \A p \in Proc : InUse(p) => blockno[buf[p]] # k
      PROVE  Holder[k] = NoProc
    BY <1>2 DEF Holder
<1>3. \A k \in Block : Holder[k] \in Proc \cup {NoProc}
    BY <1>1, <1>2
<1>4. Holder \in [Block -> Proc \cup {NoProc}]
    BY <1>3 DEF Holder
<1> QED  BY <1>1, <1>2, <1>4 DEF HolderIs

(* The holders stay when the users and their blocks do. *)
LEMMA HolderKept ==
    ASSUME HolderIs, HolderIs',
           \A q \in Proc : /\ InUse(q)' <=> InUse(q)
                           /\ InUse(q) => blockno'[buf'[q]] = blockno[buf[q]]
    PROVE  Holder' = Holder
<1>1. ASSUME NEW k \in Block PROVE Holder'[k] = Holder[k]
  <2>1. CASE \E p \in Proc : InUse(p) /\ blockno[buf[p]] = k
      BY <2>1 DEF HolderIs
  <2>2. CASE \A p \in Proc : InUse(p) => blockno[buf[p]] # k
      BY <2>2 DEF HolderIs
  <2> QED  BY <2>1, <2>2
<1> QED  BY <1>1 DEF HolderIs

(* The content stays when buffers and disk do. *)
LEMMA ContentKept ==
    ASSUME blockno' = blockno, valid' = valid, data' = data, disk' = disk
    PROVE  Content' = Content
BY DEF Content

LEMMA RefinesInit == Init => BS!Init
<1> SUFFICES ASSUME Init PROVE BS!Init
    OBVIOUS
<1>1. Content = [k \in Block |-> disk[k]]
    BY DEF Init, Content
<1>2. Holder = [k \in Block |-> NoProc]
    BY DEF Init, Holder, InUse
<1> QED  BY <1>1, <1>2 DEF Init, BS!Init

(* A buffer is recycled only when its block is on the disk. *)
LEMMA BgetMissRefines ==
    ASSUME Structure, OnDisk, ContentIs, ContentIs', HolderIs, HolderIs',
           NEW p \in Proc, NEW k \in Block, BgetMiss(p, k)
    PROVE  Content' = Content /\ Holder' = Holder
<1>1. PICK i \in DOMAIN order :
          /\ Free(order[i])
          /\ blockno' = [blockno EXCEPT ![order[i]] = k]
          /\ valid' = [valid EXCEPT ![order[i]] = FALSE]
          /\ buf' = [buf EXCEPT ![p] = order[i]]
    BY Zenon DEF BgetMiss
<1> DEFINE b == order[i]
<1>2. b \in Buf
    BY DEF Structure, TypeOK, Range
<1>3. ~dirty[b] /\ \A q \in Proc : buf[q] # b
    BY <1>1, <1>2, NobodyHas DEF Free
<1>4. /\ blockno'[b] = k /\ ~valid'[b]
      /\ \A c \in Buf \ {b} : valid'[c] = valid[c] /\ blockno'[c] = blockno[c]
    BY <1>1, <1>2 DEF Structure, TypeOK
<1>5. /\ data' = data /\ disk' = disk
      /\ pc[p] = "out" /\ pc' = [pc EXCEPT ![p] = "acquire"]
      /\ buf' = [buf EXCEPT ![p] = b]
    BY ZenonT(40), <1>1 DEF BgetMiss, ide, Goto
<1> HIDE DEF b
<1>6. Content' = Content
  <2>1. ASSUME NEW j \in Block PROVE Content'[j] = Content[j]
    <3>1. CASE \E c \in Buf \ {b} : blockno[c] = j /\ valid[c]
        BY <1>4, <1>5, <3>1 DEF ContentIs
    <3>2. CASE \A c \in Buf \ {b} : blockno[c] = j => ~valid[c]
      <4>1. Content'[j] = disk[j]
          BY <1>4, <1>5, <3>2 DEF ContentIs
      <4>2. Content[j] = disk[j]
        <5>1. CASE blockno[b] = j /\ valid[b]
          <6>1. Content[j] = data[b]
              BY <1>2, <5>1 DEF ContentIs
          <6>2. data[b] = disk[j]
              BY <1>2, <1>3, <5>1 DEF OnDisk, CleanIsOnDisk
          <6> QED  BY <6>1, <6>2
        <5>2. CASE ~(blockno[b] = j /\ valid[b])
            BY <3>2, <5>2 DEF ContentIs
        <5> QED  BY <5>1, <5>2
      <4> QED  BY <4>1, <4>2
    <3> QED  BY <3>1, <3>2
  <2> QED  BY <2>1 DEF ContentIs
<1>7. \A q \in Proc : (InUse(q)' <=> InUse(q)) /\ (InUse(q) => buf'[q] = buf[q])
    BY <1>5 DEF Structure, TypeOK, InUse
<1>8. \A q \in Proc : InUse(q) => buf[q] \in Buf \ {b}
    BY <1>3, Holds DEF InUse
<1>9. Holder' = Holder
    BY <1>4, <1>7, <1>8, HolderKept
<1> QED  BY <1>6, <1>9

(* acquiresleep() is the abstract Get, or waits. *)
LEMMA AcquireSleepRefines ==
    ASSUME Structure, HolderIs, HolderIs', NEW p \in Proc, AcquireSleep(p)
    PROVE  \/ (Content' = Content /\ Holder' = Holder)
           \/ \E k \in Block : BS!Get(p, k)
<1> DEFINE k == blockno[buf[p]]
<1>1. /\ pc[p] = "acquire" /\ buf[p] \in Buf /\ k \in Block
      /\ blockno' = blockno /\ valid' = valid /\ data' = data /\ disk' = disk /\ buf' = buf
    BY Holds DEF AcquireSleep, list, flags, ide
<1>2. Content' = Content
    BY <1>1, ContentKept
<1>3. CASE locked[buf[p]]
  <2>1. \A q \in Proc : InUse(q)' <=> InUse(q)
      BY <1>1, <1>3 DEF AcquireSleep, Goto, InUse, Structure, TypeOK
  <2> QED  BY <1>1, <1>2, <2>1, HolderKept
<1>4. CASE ~locked[buf[p]]
  <2>1. InUse(p)' /\ \A q \in Proc \ {p} : InUse(q)' <=> InUse(q)
      BY <1>4 DEF AcquireSleep, Goto, InUse, Structure, TypeOK
  <2>2. \A q \in Proc : InUse(q) => blockno[buf[q]] # k
    <3> SUFFICES ASSUME NEW q \in Proc, InUse(q), blockno[buf[q]] = k PROVE FALSE
        OBVIOUS
    <3>1. buf[q] \in Buf
        BY Holds DEF InUse
    <3>2. buf[q] = buf[p]
        BY <1>1, <3>1, BcacheConstants DEF Structure, OneBufferPerBlock
    <3> QED  BY <1>1, <1>4, <3>2 DEF Structure, LockIsUser
  <2>3. Holder[k] = NoProc
      BY <1>1, <2>2 DEF HolderIs
  <2>4. Holder'[k] = p
      BY <1>1, <2>1 DEF HolderIs
  <2>5. ASSUME NEW j \in Block, j # k PROVE Holder'[j] = Holder[j]
    <3>1. CASE \E q \in Proc : InUse(q) /\ blockno[buf[q]] = j
      <4>1. PICK q \in Proc : InUse(q) /\ blockno[buf[q]] = j
          BY <3>1
      <4>2. InUse(q)'
          BY <1>1, <2>1, <4>1
      <4> QED  BY <1>1, <4>1, <4>2 DEF HolderIs
    <3>2. CASE \A q \in Proc : InUse(q) => blockno[buf[q]] # j
      <4>1. \A q \in Proc : InUse(q)' => blockno[buf[q]] # j
          BY <2>1, <2>5, <3>2
      <4> QED  BY <1>1, <3>2, <4>1 DEF HolderIs
    <3> QED  BY <3>1, <3>2
  <2>6. Holder' = [Holder EXCEPT ![k] = p]
    <3> HIDE DEF k
    <3> QED  BY <1>1, <2>4, <2>5 DEF HolderIs
  <2> QED  BY ZenonT(40), <1>1, <1>2, <2>3, <2>6 DEF BS!Get
<1> QED  BY <1>3, <1>4

(* The holder changes the block, and nobody else's. *)
LEMMA UpdateRefines ==
    ASSUME Structure, ContentIs, ContentIs', HolderIs, HolderIs',
           NEW p \in Proc, NEW v \in Val, Update(p, v)
    PROVE  \E k \in Block : BS!Change(p, k, v)
<1> DEFINE b == buf[p]
           k == blockno[b]
<1>1. /\ pc[p] = "use" /\ data' = [data EXCEPT ![b] = v]
      /\ blockno' = blockno /\ valid' = valid /\ disk' = disk /\ buf' = buf /\ pc' = pc
    BY DEF Update, list, ide
<1>2. b \in Buf /\ k \in Block /\ valid[b]
    BY <1>1, Holds DEF Structure, ValidFirst
<1>3. InUse(p) /\ \A q \in Proc : InUse(q)' <=> InUse(q)
    BY <1>1 DEF InUse
<1>4. Holder' = Holder /\ Holder[k] = p
    BY <1>1, <1>3, HolderKept DEF HolderIs
<1>5. data'[b] = v /\ \A c \in Buf \ {b} : data'[c] = data[c]
    BY <1>1, <1>2 DEF Structure, TypeOK
<1>6. Content'[k] = v
    BY <1>1, <1>2, <1>5 DEF ContentIs
<1>7. ASSUME NEW j \in Block, j # k PROVE Content'[j] = Content[j]
  <2>1. CASE \E c \in Buf : blockno[c] = j /\ valid[c]
      BY <1>1, <1>5, <1>7, <2>1 DEF ContentIs
  <2>2. CASE \A c \in Buf : blockno[c] = j => ~valid[c]
      BY <1>1, <2>2 DEF ContentIs
  <2> QED  BY <2>1, <2>2
<1>8. Content' = [Content EXCEPT ![k] = v]
  <2> HIDE DEF k
  <2> QED  BY <1>2, <1>6, <1>7 DEF ContentIs
<1> QED  BY Zenon, <1>2, <1>4, <1>8 DEF BS!Change

(* releasesleep() is the abstract Release. *)
LEMMA ReleaseSleepRefines ==
    ASSUME Structure, HolderIs, HolderIs', NEW p \in Proc, ReleaseSleep(p)
    PROVE  \E k \in Block : BS!Release(p, k)
<1> DEFINE k == blockno[buf[p]]
<1>1. /\ pc[p] = "use" /\ buf[p] \in Buf /\ k \in Block
      /\ blockno' = blockno /\ valid' = valid /\ data' = data /\ disk' = disk /\ buf' = buf
    BY Holds DEF ReleaseSleep, list, flags, ide
<1>2. Content' = Content
    BY <1>1, ContentKept
<1>3. InUse(p) /\ ~InUse(p)' /\ \A q \in Proc \ {p} : InUse(q)' <=> InUse(q)
    BY <1>1 DEF ReleaseSleep, Wakeup, InUse, Structure, TypeOK
<1>4. Holder[k] = p
    BY <1>3 DEF HolderIs
<1>5. Holder'[k] = NoProc
  <2>1. \A q \in Proc \ {p} : InUse(q) => blockno[buf[q]] # k
      BY <1>4 DEF HolderIs
  <2> QED  BY <1>1, <1>3, <2>1 DEF HolderIs
<1>6. ASSUME NEW j \in Block, j # k PROVE Holder'[j] = Holder[j]
  <2>1. CASE \E q \in Proc : InUse(q) /\ blockno[buf[q]] = j
    <3>1. PICK q \in Proc : InUse(q) /\ blockno[buf[q]] = j
        BY <2>1
    <3>2. InUse(q)'
        BY <1>3, <1>6, <3>1
    <3> QED  BY <1>1, <3>1, <3>2 DEF HolderIs
  <2>2. CASE \A q \in Proc : InUse(q) => blockno[buf[q]] # j
    <3>1. \A q \in Proc : InUse(q)' => blockno[buf[q]] # j
        BY <1>3, <2>2
    <3> QED  BY <1>1, <2>2, <3>1 DEF HolderIs
  <2> QED  BY <2>1, <2>2
<1>7. Holder' = [Holder EXCEPT ![k] = NoProc]
  <2> HIDE DEF k
  <2> QED  BY <1>1, <1>5, <1>6 DEF HolderIs
<1> QED  BY ZenonT(40), <1>1, <1>2, <1>4, <1>7 DEF BS!Release

(* What the device writes is in a valid buffer already. *)
LEMMA DeviceDoneRefines ==
    ASSUME Structure, ContentIs, ContentIs', HolderIs, HolderIs', DeviceDone
    PROVE  Content' = Content /\ Holder' = Holder
<1> DEFINE h == Head(idequeue)
<1>1. /\ blockno' = blockno /\ valid' = valid /\ data' = data /\ buf' = buf /\ pc' = pc
    BY DEF DeviceDone, list, flags
<1>2. idequeue # <<>> /\ cmd = Command(h, dirty[h])
    BY DEF DeviceDone, Structure, DeviceServesHead
<1>3. h \in Buf /\ blockno[h] \in Block
    BY <1>2, AtHead, Queued
<1> HIDE DEF h
<1>4. disk' = IF dirty[h] THEN [disk EXCEPT ![blockno[h]] = data[h]] ELSE disk
    BY <1>2 DEF DeviceDone, Command
<1>5. dirty[h] => valid[h]
    BY <1>3 DEF Structure, ValidFirst
<1>6. ASSUME NEW j \in Block PROVE Content'[j] = Content[j]
  <2>1. CASE \E c \in Buf : blockno[c] = j /\ valid[c]
      BY <1>1, <2>1 DEF ContentIs
  <2>2. CASE \A c \in Buf : blockno[c] = j => ~valid[c]
    <3>1. disk'[j] = disk[j]
        BY <1>3, <1>4, <1>5, <2>2 DEF Structure, TypeOK
    <3> QED  BY <1>1, <2>2, <3>1 DEF ContentIs
  <2> QED  BY <2>1, <2>2
<1>7. Content' = Content
    BY <1>6 DEF ContentIs
<1>8. \A q \in Proc : InUse(q)' <=> InUse(q)
    BY <1>1 DEF InUse
<1> QED  BY <1>1, <1>7, <1>8, HolderKept

(* What ideintr() puts into the buffer is what the block held. *)
LEMMA ideintrRefines ==
    ASSUME Structure, OnDisk, OnDisk', ContentIs, ContentIs', HolderIs, HolderIs', ideintr
    PROVE  Content' = Content /\ Holder' = Holder
<1> DEFINE b == Head(idequeue)
           k == blockno[b]
<1>1. /\ idequeue # <<>> /\ irq
      /\ data' = [data EXCEPT ![b] = ReadData(b)]
      /\ valid' = [valid EXCEPT ![b] = TRUE] /\ dirty' = [dirty EXCEPT ![b] = FALSE]
      /\ blockno' = blockno /\ disk' = disk /\ buf' = buf
      /\ pc' = [p \in Proc |->
                  IF pc[p] = "ideAsleep" /\ buf[p] = b THEN "iderw" ELSE pc[p]]
    BY DEF ideintr, list
<1>2. b \in Buf /\ k \in Block /\ b \in Range(idequeue)
    BY <1>1, AtHead, Queued
<1>3. Transferred /\ (~valid[b] \/ dirty[b])
    BY <1>2 DEF OnDisk, Structure, WaitsForTransfer
<1>4. dirty[b] => data[b] = disk[k]
    BY <1>1, <1>3 DEF Transferred
<1> HIDE DEF b
<1>5. /\ valid'[b] /\ ~dirty'[b]
      /\ \A c \in Buf \ {b} : data'[c] = data[c] /\ valid'[c] = valid[c]
    BY <1>1, <1>2 DEF Structure, TypeOK
<1>6. Content'[k] = disk[k]
    BY <1>1, <1>2, <1>5 DEF ContentIs, OnDisk, CleanIsOnDisk
<1>7. Content[k] = disk[k]
  <2>1. CASE valid[b]
      BY ZenonT(40), <1>2, <1>3, <1>4, <2>1 DEF ContentIs
  <2>2. CASE ~valid[b]
    <3>1. \A c \in Buf : blockno[c] = k => c = b
        BY <1>2, BcacheConstants DEF Structure, OneBufferPerBlock
    <3> QED  BY <1>2, <2>2, <3>1 DEF ContentIs
  <2> QED  BY SMTT(20), ZenonT(20), <2>1, <2>2
<1>8. ASSUME NEW j \in Block, j # k PROVE Content'[j] = Content[j]
  <2>1. CASE \E c \in Buf : blockno[c] = j /\ valid[c]
      BY <1>1, <1>5, <1>8, <2>1 DEF ContentIs
  <2>2. CASE \A c \in Buf : blockno[c] = j => ~valid[c]
      BY <1>1, <1>5, <1>8, <2>2 DEF ContentIs
  <2> QED  BY <2>1, <2>2
<1>9. Content' = Content
    BY <1>6, <1>7, <1>8 DEF ContentIs
<1>10. \A q \in Proc : InUse(q)' <=> InUse(q)
    BY <1>1 DEF InUse
<1> QED  BY <1>1, <1>9, <1>10, HolderKept

LEMMA RefinesStep ==
    /\ Structure /\ OnDisk /\ OnDisk' /\ [Next]_vars
    /\ ContentIs /\ ContentIs' /\ HolderIs /\ HolderIs'
    => [BS!Next]_BS!bsvars
<1> SUFFICES ASSUME Structure, OnDisk, OnDisk', [Next]_vars,
                    ContentIs, ContentIs', HolderIs, HolderIs'
             PROVE  BS!Next \/ (Content' = Content /\ Holder' = Holder)
    BY DEF BS!bsvars
<1>1. ASSUME NEW p \in Proc, blockno' = blockno, valid' = valid, data' = data,
             disk' = disk, \A q \in Proc : /\ InUse(q)' <=> InUse(q)
                                           /\ InUse(q) => buf'[q] = buf[q]
      PROVE  Content' = Content /\ Holder' = Holder
    BY <1>1, ContentKept, HolderKept
<1>2. ASSUME NEW p \in Proc, NEW k \in Block, BgetHit(p, k)
      PROVE  Content' = Content /\ Holder' = Holder
  <2>1. blockno' = blockno /\ valid' = valid /\ data' = data /\ disk' = disk
      BY <1>2 DEF BgetHit, flags, ide
  <2>2. \A q \in Proc : (InUse(q)' <=> InUse(q)) /\ (InUse(q) => buf'[q] = buf[q])
      BY <1>2 DEF BgetHit, Goto, InUse, Structure, TypeOK
  <2> QED  BY <1>1, <2>1, <2>2
<1>3. ASSUME NEW p \in Proc, NEW k \in Block, BgetMiss(p, k)
      PROVE  Content' = Content /\ Holder' = Holder
    BY <1>3, BgetMissRefines
<1>4. ASSUME NEW p \in Proc, AcquireSleep(p)
      PROVE  BS!Next \/ (Content' = Content /\ Holder' = Holder)
    BY <1>4, AcquireSleepRefines DEF BS!Next
<1>5. ASSUME NEW p \in Proc, KillWakes(p) \/ BreadValid(p) \/ Awake(p)
      PROVE  Content' = Content /\ Holder' = Holder
  <2>1. blockno' = blockno /\ valid' = valid /\ data' = data /\ disk' = disk /\ buf' = buf
      BY <1>5 DEF KillWakes, BreadValid, Awake, list, flags, ide
  <2>2. \A q \in Proc : InUse(q)' <=> InUse(q)
      BY SMTT(20), ZenonT(20), <1>5 DEF KillWakes, BreadValid, Awake, Goto, InUse, Structure, TypeOK
  <2> QED  BY <1>1, <2>1, <2>2
<1>6. ASSUME NEW p \in Proc, BreadDisk(p) \/ Bwrite(p)
      PROVE  Content' = Content /\ Holder' = Holder
  <2>1. blockno' = blockno /\ valid' = valid /\ data' = data /\ disk' = disk /\ buf' = buf
      BY Zenon, <1>6 DEF BreadDisk, Bwrite, Enqueue, list, flags
  <2>2. \A q \in Proc : InUse(q)' <=> InUse(q)
      BY ZenonT(40), <1>6 DEF BreadDisk, Bwrite, Enqueue, Goto, InUse, Structure, TypeOK
  <2> QED  BY <1>1, <2>1, <2>2
<1>7. ASSUME NEW p \in Proc, ReleaseSleep(p) PROVE BS!Next
    BY <1>7, ReleaseSleepRefines DEF BS!Next
<1>8. ASSUME NEW p \in Proc, Brelse(p)
      PROVE  Content' = Content /\ Holder' = Holder
  <2>1. blockno' = blockno /\ valid' = valid /\ data' = data /\ disk' = disk
      BY <1>8 DEF Brelse, flags, ide
  <2>2. \A q \in Proc : (InUse(q)' <=> InUse(q)) /\ (InUse(q) => buf'[q] = buf[q])
      BY <1>8 DEF Brelse, Goto, InUse, Structure, TypeOK
  <2> QED  BY <1>1, <2>1, <2>2
<1>9. ASSUME NEW p \in Proc, NEW v \in Val, Update(p, v) PROVE BS!Next
    BY <1>9, UpdateRefines DEF BS!Next
<1>10. CASE DeviceDone
    BY <1>10, DeviceDoneRefines
<1>11. CASE ideintr
    BY <1>11, ideintrRefines
<1>12. CASE UNCHANGED vars
  <2>1. /\ blockno' = blockno /\ valid' = valid /\ data' = data /\ disk' = disk
        /\ buf' = buf /\ pc' = pc
      BY <1>12 DEF vars, list, flags, ide
  <2>2. \A q \in Proc : InUse(q)' <=> InUse(q)
      BY <2>1 DEF InUse
  <2> QED  BY <2>1, <2>2, ContentKept, HolderKept
<1> QED
    BY <1>2, <1>3, <1>4, <1>5, <1>6, <1>7, <1>8, <1>9, <1>10, <1>11, <1>12 DEF Next

(***************************************************************************)
(* On a device without errors the cache is the store of BlockStore: its    *)
(* users see one content for each block, changed only by the one process   *)
(* that has it, whatever is recycled, written back or read again.          *)
(***************************************************************************)
THEOREM CacheIsBlockStore == ~ReadErrors => (Spec => IsBlockStore)
<1> SUFFICES ASSUME ~ReadErrors PROVE Spec => IsBlockStore
    OBVIOUS
<1>1. Init => Structure /\ OnDisk /\ BS!Init
    BY InitStructure, InitOnDisk, RefinesInit
<1>2. Structure /\ OnDisk /\ [Next]_vars => Structure' /\ OnDisk'
    BY StructureStep, OnDiskStep
<1>3. Structure => ContentIs /\ HolderIs
    BY ContentDetermined, HolderDetermined
<1>4. /\ Structure /\ OnDisk /\ OnDisk' /\ [Next]_vars
      /\ ContentIs /\ ContentIs' /\ HolderIs /\ HolderIs'
      => [BS!Next]_BS!bsvars
    BY RefinesStep
<1> QED  BY <1>1, <1>2, <1>3, <1>4, PTL DEF Spec, IsBlockStore, BS!Spec

=============================================================================
