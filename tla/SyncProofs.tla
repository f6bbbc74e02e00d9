----------------------------- MODULE SyncProofs -----------------------------
(***************************************************************************)
(* What the kernel's threads rely on when they wait for each other, for    *)
(* every value of the constants: the interrupt flag and the spin locks     *)
(* (Spinlock), and the sleeping readers and writers of a pipe (Pipe).      *)
(***************************************************************************)
EXTENDS Spinlock, Pipe, FiniteSetTheorems, TLAPS

-----------------------------------------------------------------------------
(***************************************************************************)
(* The interrupt discipline of spinlock.c and sched(), for any numbers of  *)
(* CPUs, threads and locks.                                                *)
(*                                                                         *)
(* The properties of Spinlock speak of the top frame of the thread on a    *)
(* CPU.  The inductive invariant adds what the code relies on to get them  *)
(* back after a return from an interrupt or a switch: intena says, while   *)
(* locks are held, whether the frame is interruptible; the frames below    *)
(* the top one are interruptible code; and a thread that is off has saved  *)
(* what its top frame needs.                                               *)
(***************************************************************************)

(* What holds of a CPU that is in frame f and holds the locks held. *)
CpuInv(f, isSched, held, fl, cnt, ena) ==
    /\ f.at \notin {"off", "new"}
    /\ f.kind = "sched" => isSched
    /\ f.at \in {"loop", "back"} => f.kind = "sched"
    /\ f.at = "loop" => held = {}
    /\ f.at = "back" => held # {}
    /\ f.kind = "sched" => held \subseteq {ptable}
    /\ f.at \in {"push", "spin"} =>
        f.lk \in Lock /\ (\A m \in held : m < f.lk) /\ (f.kind = "sched" => f.lk = ptable)
    /\ held # {} \/ f.at = "spin" => ~fl
    /\ (held # {} \/ f.at = "spin") /\ f.at # "back" => (ena <=> f.kind # "irq")
    /\ held = {} /\ f.at \in {"code", "push"} => (fl <=> f.kind # "irq")
    /\ f.at = "push" => (f.eflags <=> fl)
    /\ cnt = Cardinality(held) + (IF f.at = "spin" THEN 1 ELSE 0)

CpusInv == \A c \in CPU : CpuInv(Top(c), cur[c] = c, Held(c), FL_IF[c], ncli[c], intena[c])

(* A frame that an iret returns to. *)
Waiting(f) ==
    /\ f.at \in {"code", "push", "loop"} /\ f.kind # "irq"
    /\ f.at = "push" => f.eflags /\ f.lk \in Lock /\ (f.kind = "sched" => f.lk = ptable)
    /\ f.at = "loop" => f.kind = "sched"

StackInv(s, k) ==
    /\ s \in Seq(FrameType) \ {<<>>}
    /\ \A j \in 1 .. Len(s) :
        /\ s[j].kind \in {"irq", "fork"} => j < Len(s)
        /\ s[j].kind = "sched" => k \notin Thread
        /\ j > 1 => Waiting(s[j])

StacksInv == \A k \in Thread \cup CPU : StackInv(frames[k], k)

OffInv ==
    /\ \A t \in Thread : (\A c \in CPU : cur[c] # t) =>
        /\ Head(frames[t]).at \in {"off", "new"}
        /\ Head(frames[t]).at = "off" => (saved[t] <=> Head(frames[t]).kind # "irq")
        /\ Head(frames[t]).at = "new" => Head(frames[t]).kind # "irq"
    /\ \A c \in CPU : cur[c] # c => Head(frames[c]) = Frame("sched", "back")

CurInv ==
    /\ \A c \in CPU : cur[c] \in Thread \cup {c}
    /\ \A c, d \in CPU : cur[c] = cur[d] => c = d

Inv == SpinType /\ CpusInv /\ StacksInv /\ OffInv /\ CurInv

-----------------------------------------------------------------------------
(* Stacks. *)

(* Replacing the top frame. *)
LEMMA TopReplaced ==
    ASSUME NEW s \in Seq(FrameType), s # <<>>, NEW f \in FrameType
    PROVE  LET r == <<f>> \o Tail(s) IN
           /\ r \in Seq(FrameType) \ {<<>>} /\ Len(r) = Len(s)
           /\ Head(r) = f /\ \A j \in 2 .. Len(s) : r[j] = s[j]
  OBVIOUS

(* Pushing a frame. *)
LEMMA FramePushed ==
    ASSUME NEW s \in Seq(FrameType), NEW f \in FrameType
    PROVE  LET r == <<f>> \o s IN
           /\ r \in Seq(FrameType) \ {<<>>} /\ Len(r) = Len(s) + 1
           /\ Head(r) = f /\ \A j \in 1 .. Len(s) : r[j + 1] = s[j]
  OBVIOUS

(* Popping one. *)
LEMMA FramePopped ==
    ASSUME NEW s \in Seq(FrameType), Len(s) > 1
    PROVE  LET r == Tail(s) IN
           /\ r \in Seq(FrameType) \ {<<>>} /\ Len(r) = Len(s) - 1
           /\ Head(r) = s[2] /\ \A j \in 1 .. Len(s) - 1 : r[j] = s[j + 1]
  <1>1. Tail(s) \in Seq(FrameType) /\ Len(Tail(s)) = Len(s) - 1
    OBVIOUS
  <1>2. ASSUME NEW j \in 1 .. Len(s) - 1 PROVE Tail(s)[j] = s[j + 1]
    OBVIOUS
  <1>3. Tail(s) # <<>>
    <2> DEFINE r == Tail(s)
    <2>1. r \in Seq(FrameType) /\ Len(r) = Len(s) - 1 BY <1>1
    <2> HIDE DEF r
    <2>2. r # <<>> BY <2>1
    <2> QED BY <2>2 DEF r
  <1>4. Head(Tail(s)) = Tail(s)[1]
    BY <1>1, <1>3
  <1> QED BY <1>1, <1>2, <1>3, <1>4

(* A new top frame of the same kind leaves a stack in order. *)
LEMMA GotoStack ==
    ASSUME NEW s, NEW k, StackInv(s, k), NEW f \in FrameType, f.kind = Head(s).kind
    PROVE  StackInv(<<f>> \o Tail(s), k) /\ Head(<<f>> \o Tail(s)) = f
  <1> DEFINE r == <<f>> \o Tail(s)
  <1>1. /\ r \in Seq(FrameType) \ {<<>>} /\ Len(r) = Len(s)
        /\ Head(r) = f /\ \A j \in 2 .. Len(s) : r[j] = s[j]
    BY TopReplaced DEF StackInv
  <1>2. s \in Seq(FrameType) /\ s # <<>> /\ Head(s) = s[1] /\ r[1] = f
    BY <1>1 DEF StackInv
  <1> HIDE DEF r
  <1>3. ASSUME NEW j \in 1 .. Len(r)
        PROVE  /\ r[j].kind \in {"irq", "fork"} => j < Len(r)
               /\ r[j].kind = "sched" => k \notin Thread
               /\ j > 1 => Waiting(r[j])
    <2>1. CASE j = 1 BY <1>1, <1>2, <2>1 DEF StackInv
    <2>2. CASE j # 1 BY <1>1, <2>2 DEF StackInv
    <2> QED BY <2>1, <2>2
  <1>4. StackInv(r, k) BY <1>1, <1>3 DEF StackInv
  <1> QED BY <1>1, <1>4 DEF r

-----------------------------------------------------------------------------

(***************************************************************************)
(* A step of CPU c that changes only its own flags, its locks and the      *)
(* stack of its thread has to restore the invariant only there.            *)
(***************************************************************************)
LEMMA LocalStep ==
    ASSUME Inv, NEW c \in CPU, NEW s,
           cur' = cur, saved' = saved, frames' = [frames EXCEPT ![cur[c]] = s],
           SpinType', StackInv(s, cur[c]),
           \A d \in CPU \ {c} : /\ Held(d)' = Held(d) /\ FL_IF'[d] = FL_IF[d]
                                /\ ncli'[d] = ncli[d] /\ intena'[d] = intena[d],
           CpuInv(Head(s), cur[c] = c, Held(c)', FL_IF'[c], ncli'[c], intena'[c])
    PROVE  Inv'
  <1>1. cur[c] \in Thread \cup CPU BY DEF Inv, SpinType
  <1>2. frames'[cur[c]] = s /\ \A k \in Thread \cup CPU : k # cur[c] => frames'[k] = frames[k]
    BY <1>1 DEF Inv, SpinType
  <1>3. \A d \in CPU : d # c => cur[d] # cur[c] BY DEF Inv, CurInv
  <1>4. CpusInv'
    <2>1. SUFFICES ASSUME NEW d \in CPU
                   PROVE  CpuInv(Top(d)', cur'[d] = d, Held(d)', FL_IF'[d], ncli'[d], intena'[d])
      BY DEF CpusInv
    <2>2. CASE d = c BY <1>2, <2>2 DEF Top
    <2>3. CASE d # c
      <3>1. Top(d)' = Top(d) BY <1>2, <1>3, <2>3 DEF Top, Inv, SpinType
      <3>2. CpuInv(Top(d), cur[d] = d, Held(d), FL_IF[d], ncli[d], intena[d])
        BY DEF Inv, CpusInv
      <3> QED BY <2>3, <3>1, <3>2
    <2> QED BY <2>2, <2>3
  <1>5. StacksInv' BY <1>2 DEF Inv, StacksInv
  <1>6. OffInv'
    <2>1. \A t \in Thread : (\A d \in CPU : cur[d] # t) => frames'[t] = frames[t]
      BY <1>2
    <2>2. \A d \in CPU : cur[d] # d => frames'[d] = frames[d]
      BY <1>2, SpinlockConstants DEF Inv, CurInv
    <2> QED BY <2>1, <2>2 DEF Inv, OffInv
  <1>7. CurInv' BY DEF Inv, CurInv
  <1> QED BY <1>4, <1>5, <1>6, <1>7 DEF Inv

(* What every action of CPU c starts from. *)
LEMMA Start ==
    ASSUME Inv, NEW c \in CPU
    PROVE  /\ cur[c] \in Thread \cup CPU
           /\ StackInv(frames[cur[c]], cur[c])
           /\ Top(c) \in FrameType
           /\ CpuInv(Top(c), cur[c] = c, Held(c), FL_IF[c], ncli[c], intena[c])
           /\ ncli[c] \in Int /\ FL_IF[c] \in BOOLEAN /\ intena[c] \in BOOLEAN
           /\ IsFiniteSet(Held(c)) /\ Cardinality(Held(c)) \in Nat
           /\ \A l \in Held(c) : l \in Lock
           /\ \A d \in CPU \ {c} : Held(c) \cap Held(d) = {}
  <1>1. cur[c] \in Thread \cup CPU BY DEF Inv, SpinType
  <1>2. StackInv(frames[cur[c]], cur[c]) BY <1>1 DEF Inv, StacksInv
  <1>3. Top(c) \in FrameType BY <1>2 DEF StackInv, Top
  <1>4. IsFiniteSet(Lock) BY SpinlockConstants, FS_Interval DEF Lock
  <1>5. IsFiniteSet(Held(c)) BY <1>4, FS_Subset DEF Held
  <1>6. Cardinality(Held(c)) \in Nat BY <1>5, FS_CardinalityType
  <1>7. CpuInv(Top(c), cur[c] = c, Held(c), FL_IF[c], ncli[c], intena[c]) BY DEF Inv, CpusInv
  <1>8. ncli[c] \in Int /\ FL_IF[c] \in BOOLEAN /\ intena[c] \in BOOLEAN BY DEF Inv, SpinType
  <1>9. /\ \A l \in Held(c) : l \in Lock
        /\ \A d \in CPU \ {c} : Held(c) \cap Held(d) = {}
    BY DEF Held
  <1> QED BY <1>1, <1>2, <1>3, <1>5, <1>6, <1>7, <1>8, <1>9

(* acquire(), up to readeflags(): the flag is read as it is. *)
LEMMA AcquireStep ==
    ASSUME Inv, NEW c \in CPU, NEW l \in Lock, acquire(c, l)
    PROVE  Inv'
  <1> DEFINE f == [Top(c) EXCEPT !.at = "push", !.lk = l, !.eflags = FL_IF[c]]
             s == <<f>> \o Tail(frames[cur[c]])
  <1>0. Top(c) \in FrameType /\ FL_IF[c] \in BOOLEAN /\ StackInv(frames[cur[c]], cur[c])
    BY Start
  <1>1. f \in FrameType /\ f.kind = Top(c).kind /\ f.at = "push" /\ f.lk = l /\ f.eflags = FL_IF[c]
    BY Zenon, <1>0 DEF FrameType
  <1> HIDE DEF f
  <1>2. StackInv(s, cur[c]) /\ Head(s) = f BY <1>0, <1>1, GotoStack DEF Top
  <1>3. frames' = [frames EXCEPT ![cur[c]] = s] BY DEF acquire, Replace, f
  <1>4. cur' = cur /\ saved' = saved /\ locked' = locked /\ FL_IF' = FL_IF /\ ncli' = ncli /\ intena' = intena
    BY DEF acquire, cpus
  <1> HIDE DEF s
  <1>5. SpinType' BY <1>2, <1>3, <1>4 DEF Inv, SpinType, StackInv
  <1>6. \A d \in CPU : Held(d)' = Held(d) BY <1>4 DEF Held
  <1>7. CpuInv(f, cur[c] = c, Held(c), FL_IF[c], ncli[c], intena[c])
    BY <1>1, Start DEF acquire, CpuInv
  <1> QED BY Zenon, <1>2, <1>3, <1>4, <1>5, <1>6, <1>7, LocalStep

(* pushcli(): the first level remembers the flag. *)
LEMMA PushcliStep ==
    ASSUME Inv, NEW c \in CPU, pushcli(c)
    PROVE  Inv'
  <1> DEFINE f == [Top(c) EXCEPT !.at = "spin"]
             s == <<f>> \o Tail(frames[cur[c]])
  <1>0. Top(c) \in FrameType /\ StackInv(frames[cur[c]], cur[c])
    BY Start
  <1>1. f \in FrameType /\ f.kind = Top(c).kind /\ f.at = "spin" /\ f.lk = Top(c).lk
    BY <1>0 DEF FrameType
  <1> HIDE DEF f
  <1>2. StackInv(s, cur[c]) /\ Head(s) = f BY <1>0, <1>1, GotoStack DEF Top
  <1>3. frames' = [frames EXCEPT ![cur[c]] = s] BY DEF pushcli, Replace, f
  <1> HIDE DEF s
  <1>4. cur' = cur /\ saved' = saved /\ locked' = locked BY DEF pushcli
  <1>5. /\ FL_IF'[c] = FALSE /\ ncli'[c] = ncli[c] + 1
        /\ intena'[c] = IF ncli[c] = 0 THEN Top(c).eflags ELSE intena[c]
        /\ \A d \in CPU \ {c} : FL_IF'[d] = FL_IF[d] /\ ncli'[d] = ncli[d] /\ intena'[d] = intena[d]
    BY DEF pushcli, Inv, SpinType
  <1>6. /\ FL_IF' \in [CPU -> BOOLEAN] /\ ncli' \in [CPU -> Int] /\ intena' \in [CPU -> BOOLEAN]
    BY <1>0 DEF pushcli, Inv, SpinType, FrameType
  <1>7. SpinType' BY <1>2, <1>3, <1>4, <1>6 DEF Inv, SpinType, StackInv
  <1>8. \A d \in CPU : Held(d)' = Held(d) BY <1>4 DEF Held
  <1>9. CpuInv(f, cur[c] = c, Held(c), FL_IF'[c], ncli'[c], intena'[c])
    <2>1. Top(c).at = "push" BY DEF pushcli
    <2>2. ncli[c] = Cardinality(Held(c)) BY <2>1, Start DEF CpuInv
    <2>3. ncli[c] = 0 <=> Held(c) = {} BY <2>2, Start, FS_EmptySet
    <2> QED BY <1>1, <1>5, <2>1, <2>2, <2>3, Start DEF CpuInv
  <1> QED BY Zenon, <1>2, <1>3, <1>4, <1>5, <1>7, <1>8, <1>9, LocalStep

(* The xchg: the count was made in pushcli(), the lock joins it now. *)
LEMMA XchgStep ==
    ASSUME Inv, NEW c \in CPU, Xchg(c)
    PROVE  Inv'
  <1> DEFINE f == Frame(Top(c).kind, "code")
             s == <<f>> \o Tail(frames[cur[c]])
             m == Top(c).lk
  <1>0. Top(c) \in FrameType /\ StackInv(frames[cur[c]], cur[c]) /\ Top(c).at = "spin"
    BY Start DEF Xchg
  <1>1. f \in FrameType /\ f.kind = Top(c).kind /\ f.at = "code"
    BY <1>0 DEF FrameType, Frame
  <1> HIDE DEF f
  <1>2. StackInv(s, cur[c]) /\ Head(s) = f BY <1>0, <1>1, GotoStack DEF Top
  <1>3. frames' = [frames EXCEPT ![cur[c]] = s] BY DEF Xchg, Replace, f
  <1> HIDE DEF s
  <1>4. cur' = cur /\ saved' = saved /\ FL_IF' = FL_IF /\ ncli' = ncli /\ intena' = intena
    BY DEF Xchg, cpus
  <1>5. m \in Lock /\ locked[m] = NoCpu /\ locked' = [locked EXCEPT ![m] = c]
    BY <1>0, Start DEF Xchg, CpuInv
  <1>6. m \notin Held(c) BY <1>5, SpinlockConstants DEF Held
  <1> HIDE DEF m
  <1>7. locked' \in [Lock -> CPU \cup {NoCpu}] BY <1>5 DEF Inv, SpinType
  <1>8. SpinType' BY <1>2, <1>3, <1>4, <1>7 DEF Inv, SpinType, StackInv
  <1>9. Held(c)' = Held(c) \cup {m} /\ \A d \in CPU \ {c} : Held(d)' = Held(d)
    BY <1>5, SpinlockConstants DEF Held, Inv, SpinType
  <1>10. Cardinality(Held(c) \cup {m}) = Cardinality(Held(c)) + 1
    BY Zenon, <1>6, Start, FS_AddElement
  <1>11. CpuInv(f, cur[c] = c, Held(c) \cup {m}, FL_IF[c], ncli[c], intena[c])
    BY <1>0, <1>1, <1>10, Start DEF CpuInv, m
  <1> QED BY Zenon, <1>2, <1>3, <1>4, <1>8, <1>9, <1>11, LocalStep

(* release(): the last level restores the flag from intena. *)
LEMMA ReleaseStep ==
    ASSUME Inv, NEW c \in CPU, NEW l \in Lock, release(c, l)
    PROVE  Inv'
  <1> DEFINE f == [Top(c) EXCEPT !.at = IF Top(c).kind = "sched" THEN "loop" ELSE "code"]
             s == <<f>> \o Tail(frames[cur[c]])
  <1>0. /\ Top(c) \in FrameType /\ StackInv(frames[cur[c]], cur[c]) /\ l \in Held(c)
        /\ Top(c).at \in {"code", "back"}
    BY Start DEF release
  <1>1. /\ f \in FrameType /\ f.kind = Top(c).kind
        /\ f.at = IF Top(c).kind = "sched" THEN "loop" ELSE "code"
    BY SMTT(20), ZenonT(20), <1>0 DEF FrameType
  <1> HIDE DEF f
  <1>2. StackInv(s, cur[c]) /\ Head(s) = f BY <1>0, <1>1, GotoStack DEF Top
  <1>3. frames' = [frames EXCEPT ![cur[c]] = s] BY DEF release, Replace, f
  <1> HIDE DEF s
  <1>4. cur' = cur /\ saved' = saved /\ intena' = intena BY DEF release, popcli
  <1>5. /\ ncli'[c] = ncli[c] - 1 /\ (FL_IF'[c] <=> FL_IF[c] \/ (ncli[c] = 1 /\ intena[c]))
        /\ \A d \in CPU \ {c} : FL_IF'[d] = FL_IF[d] /\ ncli'[d] = ncli[d]
    BY DEF release, popcli, Inv, SpinType
  <1>6. /\ FL_IF' \in [CPU -> BOOLEAN] /\ ncli' \in [CPU -> Int]
        /\ locked' \in [Lock -> CPU \cup {NoCpu}]
    BY SMTT(20), ZenonT(20), Start DEF release, popcli, Inv, SpinType
  <1>7. SpinType' BY <1>2, <1>3, <1>4, <1>6 DEF Inv, SpinType, StackInv
  <1>8. Held(c)' = Held(c) \ {l} /\ \A d \in CPU \ {c} : Held(d)' = Held(d)
    BY <1>0, SpinlockConstants DEF release, Held, Inv, SpinType
  <1>9. Cardinality(Held(c) \ {l}) = Cardinality(Held(c)) - 1
    BY ZenonT(40), <1>0, Start, FS_RemoveElement
  <1>10. ncli[c] = 1 <=> Held(c) \ {l} = {}
    <2>1. ncli[c] = Cardinality(Held(c)) BY <1>0, Start DEF CpuInv
    <2>2. IsFiniteSet(Held(c) \ {l}) BY Start, FS_RemoveElement
    <2>3. Cardinality(Held(c) \ {l}) = 0 <=> Held(c) \ {l} = {} BY <2>2, FS_EmptySet
    <2> QED BY <1>9, <2>1, <2>3, Start
  <1>11. Top(c).kind = "sched" => Held(c) \ {l} = {}
    BY SMTT(20), ZenonT(20), <1>0, Start DEF CpuInv
  <1>12. CpuInv(f, cur[c] = c, Held(c) \ {l}, FL_IF'[c], ncli'[c], intena[c])
    BY SMTT(20), ZenonT(20), <1>0, <1>1, <1>5, <1>9, <1>10, <1>11, Start DEF CpuInv
  <1> QED BY Zenon, <1>2, <1>3, <1>4, <1>5, <1>7, <1>8, <1>12, LocalStep

(* sti() at the head of the scheduler's loop. *)
LEMMA StiStep ==
    ASSUME Inv, NEW c \in CPU, Sti(c)
    PROVE  Inv'
  <1> DEFINE f == Frame("sched", "code")
             s == <<f>> \o Tail(frames[cur[c]])
  <1>0. /\ Top(c) \in FrameType /\ StackInv(frames[cur[c]], cur[c]) /\ Top(c).at = "loop"
        /\ Top(c).kind = "sched"
    BY Start DEF Sti, CpuInv
  <1>1. f \in FrameType /\ f.kind = Top(c).kind /\ f.at = "code"
    BY <1>0 DEF FrameType, Frame
  <1> HIDE DEF f
  <1>2. StackInv(s, cur[c]) /\ Head(s) = f BY <1>0, <1>1, GotoStack DEF Top
  <1>3. frames' = [frames EXCEPT ![cur[c]] = s] BY DEF Sti, Replace, f
  <1> HIDE DEF s
  <1>4. cur' = cur /\ saved' = saved /\ locked' = locked /\ ncli' = ncli /\ intena' = intena
    BY DEF Sti
  <1>5. FL_IF'[c] = TRUE /\ \A d \in CPU \ {c} : FL_IF'[d] = FL_IF[d]
    BY DEF Sti, Inv, SpinType
  <1>6. FL_IF' \in [CPU -> BOOLEAN] BY DEF Sti, Inv, SpinType
  <1>7. SpinType' BY <1>2, <1>3, <1>4, <1>6 DEF Inv, SpinType, StackInv
  <1>8. \A d \in CPU : Held(d)' = Held(d) BY SMTT(20), ZenonT(20), <1>4 DEF Held
  <1>9. CpuInv(f, cur[c] = c, Held(c), FL_IF'[c], ncli[c], intena[c])
    BY <1>0, <1>1, <1>5, Start DEF CpuInv
  <1> QED BY Zenon, <1>2, <1>3, <1>4, <1>5, <1>7, <1>8, <1>9, LocalStep

(* An interrupt: only interruptible code is interrupted. *)
LEMMA InterruptStep ==
    ASSUME Inv, NEW c \in CPU, Interrupt(c)
    PROVE  Inv'
  <1> DEFINE f == Frame("irq", "code")
             o == frames[cur[c]]
             s == <<f>> \o o
  <1>0. Top(c) \in FrameType /\ StackInv(o, cur[c]) /\ FL_IF[c]
    BY Start DEF Interrupt
  <1>1. f \in FrameType /\ f.kind = "irq" /\ f.at = "code"
    BY DEF FrameType, Frame
  <1>2. Waiting(Top(c)) /\ Held(c) = {} /\ Top(c).at # "spin"
    BY <1>0, Start DEF CpuInv, Waiting, FrameType
  <1>3. frames' = [frames EXCEPT ![cur[c]] = s] BY DEF Interrupt
  <1>4. o \in Seq(FrameType) /\ o # <<>> /\ Top(c) = o[1] BY <1>0 DEF StackInv, Top
  <1> HIDE DEF f, o
  <1>5. /\ s \in Seq(FrameType) \ {<<>>} /\ Len(s) = Len(o) + 1
        /\ Head(s) = f /\ s[1] = f /\ \A j \in 1 .. Len(o) : s[j + 1] = o[j]
    BY <1>1, <1>4, FramePushed
  <1> HIDE DEF s
  <1>6. StackInv(s, cur[c])
    <2>1. ASSUME NEW j \in 1 .. Len(s)
          PROVE  /\ s[j].kind \in {"irq", "fork"} => j < Len(s)
                 /\ s[j].kind = "sched" => cur[c] \notin Thread
                 /\ j > 1 => Waiting(s[j])
      <3>0. Len(o) \in Nat \ {0} BY <1>4
      <3>1. CASE j = 1 BY <1>1, <1>5, <3>0, <3>1
      <3>2. CASE j # 1
        <4>1. j - 1 \in 1 .. Len(o) /\ s[j] = o[j - 1] BY <1>5, <3>0, <3>2
        <4>2. Waiting(o[j - 1]) BY <1>0, <1>2, <1>4, <4>1 DEF StackInv
        <4> QED BY <1>0, <1>5, <3>0, <4>1, <4>2 DEF StackInv
      <3> QED BY <3>1, <3>2
    <2> QED BY <1>5, <2>1 DEF StackInv
  <1>7. cur' = cur /\ saved' = saved /\ locked' = locked /\ ncli' = ncli /\ intena' = intena
    BY DEF Interrupt
  <1>8. FL_IF'[c] = FALSE /\ \A d \in CPU \ {c} : FL_IF'[d] = FL_IF[d]
    BY DEF Interrupt, Inv, SpinType
  <1>9. FL_IF' \in [CPU -> BOOLEAN] BY DEF Interrupt, Inv, SpinType
  <1>10. SpinType' BY <1>3, <1>6, <1>7, <1>9 DEF Inv, SpinType, StackInv
  <1>11. \A d \in CPU : Held(d)' = Held(d) BY <1>7 DEF Held
  <1>12. CpuInv(f, cur[c] = c, Held(c), FL_IF'[c], ncli[c], intena[c])
    BY Zenon, <1>1, <1>2, <1>8, Start DEF CpuInv
  <1> QED BY Zenon, <1>3, <1>5, <1>6, <1>7, <1>8, <1>10, <1>11, <1>12, LocalStep

(* iret: the frame below was interruptible and is so again. *)
LEMMA IretStep ==
    ASSUME Inv, NEW c \in CPU, Iret(c)
    PROVE  Inv'
  <1> DEFINE o == frames[cur[c]]
             s == Tail(o)
  <1>0. Top(c) \in FrameType /\ StackInv(o, cur[c]) /\ Held(c) = {}
    BY Start DEF Iret
  <1>1. o \in Seq(FrameType) /\ o # <<>> /\ Top(c) = o[1] /\ Len(o) \in Nat \ {0}
    BY <1>0 DEF StackInv, Top
  <1>2. Top(c).kind \in {"irq", "fork"} /\ Top(c).at = "code" BY DEF Iret
  <1>3. frames' = [frames EXCEPT ![cur[c]] = s] BY DEF Iret
  <1> HIDE DEF o
  <1>4. Len(o) > 1 BY <1>0, <1>1, <1>2 DEF StackInv
  <1>5. /\ s \in Seq(FrameType) \ {<<>>} /\ Len(s) = Len(o) - 1
        /\ Head(s) = o[2] /\ \A j \in 1 .. Len(o) - 1 : s[j] = o[j + 1]
    BY <1>1, <1>4, FramePopped
  <1> HIDE DEF s
  <1>6. StackInv(s, cur[c])
    <2>1. ASSUME NEW j \in 1 .. Len(s)
          PROVE  /\ s[j].kind \in {"irq", "fork"} => j < Len(s)
                 /\ s[j].kind = "sched" => cur[c] \notin Thread
                 /\ j > 1 => Waiting(s[j])
      <3>1. j + 1 \in 1 .. Len(o) /\ j + 1 > 1 /\ s[j] = o[j + 1] BY <1>1, <1>5
      <3> QED BY <1>0, <1>1, <1>5, <3>1 DEF StackInv
    <2> QED BY <1>5, <2>1 DEF StackInv
  <1>7. cur' = cur /\ saved' = saved /\ locked' = locked /\ ncli' = ncli /\ intena' = intena
    BY DEF Iret
  <1>8. FL_IF'[c] = TRUE /\ \A d \in CPU \ {c} : FL_IF'[d] = FL_IF[d]
    BY DEF Iret, Inv, SpinType
  <1>9. FL_IF' \in [CPU -> BOOLEAN] BY SMTT(20), ZenonT(20) DEF Iret, Inv, SpinType
  <1>10. SpinType' BY <1>3, <1>6, <1>7, <1>9 DEF Inv, SpinType, StackInv
  <1>11. \A d \in CPU : Held(d)' = Held(d) BY <1>7 DEF Held
  <1>12. CpuInv(o[2], cur[c] = c, Held(c), FL_IF'[c], ncli[c], intena[c])
    <2>1. 2 \in 1 .. Len(o) BY <1>1, <1>4
    <2>2. Waiting(o[2]) /\ (o[2].kind = "sched" => cur[c] \notin Thread)
      BY <1>0, <2>1 DEF StackInv
    <2>3. cur[c] \in Thread \cup {c} BY SMTT(20), ZenonT(20) DEF Inv, CurInv
    <2>4. ncli[c] = Cardinality(Held(c)) /\ Cardinality(Held(c)) \in Nat
      BY SMTT(20), ZenonT(20), <1>2, Start DEF CpuInv
    <2> QED BY <1>0, <1>8, <2>2, <2>3, <2>4 DEF CpuInv, Waiting
  <1> QED BY Zenon, <1>3, <1>5, <1>6, <1>7, <1>8, <1>10, <1>11, <1>12, LocalStep

-----------------------------------------------------------------------------

(***************************************************************************)
(* A thread that leaves its CPU with only ptable.lock held, its stack now  *)
(* s: the scheduler of the CPU goes on with the lock.                      *)
(***************************************************************************)
LEMMA SwitchOut ==
    ASSUME Inv, NEW c \in CPU, NEW s,
           cur[c] \in Thread, Held(c) = {ptable}, Top(c).at = "code",
           cur' = [cur EXCEPT ![c] = c], frames' = [frames EXCEPT ![cur[c]] = s],
           locked' = locked, FL_IF' = FL_IF, ncli' = ncli, intena' = intena,
           saved' \in [Thread -> BOOLEAN],
           \A t \in Thread \ {cur[c]} : saved'[t] = saved[t],
           StackInv(s, cur[c]), Head(s).at \in {"off", "new"},
           Head(s).at = "off" => (saved'[cur[c]] <=> Head(s).kind # "irq"),
           Head(s).at = "new" => Head(s).kind # "irq"
    PROVE  Inv'
  <1>1. frames'[cur[c]] = s /\ \A k \in Thread \cup CPU : k # cur[c] => frames'[k] = frames[k]
    BY DEF Inv, SpinType
  <1>2. cur'[c] = c /\ \A d \in CPU : d # c => cur'[d] = cur[d] BY DEF Inv, SpinType
  <1>3. \A d \in CPU : d # c => cur[d] # cur[c] BY SMTT(20), ZenonT(20) DEF Inv, CurInv
  <1>4. c # cur[c] /\ Head(frames[c]) = Frame("sched", "back")
    BY SpinlockConstants DEF Inv, OffInv
  <1>5. SpinType' BY SMTT(20), ZenonT(20) DEF Inv, SpinType, StackInv
  <1>6. \A d \in CPU : Held(d)' = Held(d) BY SMTT(20), ZenonT(20) DEF Held
  <1>7. CpusInv'
    <2>1. SUFFICES ASSUME NEW d \in CPU
                   PROVE  CpuInv(Top(d)', cur'[d] = d, Held(d)', FL_IF'[d], ncli'[d], intena'[d])
      BY SMTT(20), ZenonT(20) DEF CpusInv
    <2>2. CASE d = c
      <3>1. Top(c)' = Frame("sched", "back") BY <1>1, <1>2, <1>4 DEF Top
      <3>2. /\ Frame("sched", "back").kind = "sched" /\ Frame("sched", "back").at = "back"
        BY SMTT(20), ZenonT(20) DEF Frame
      <3>3. CpuInv(Frame("sched", "back"), cur'[c] = c, Held(c), FL_IF[c], ncli[c], intena[c])
        BY ZenonT(40), <1>2, <3>2, Start DEF CpuInv
      <3> QED BY SMTT(20), ZenonT(20), <1>6, <2>2, <3>1, <3>3
    <2>3. CASE d # c
      <3>1. Top(d)' = Top(d) BY SMTT(20), ZenonT(20), <1>1, <1>2, <1>3, <2>3 DEF Top, Inv, SpinType
      <3>2. CpuInv(Top(d), cur[d] = d, Held(d), FL_IF[d], ncli[d], intena[d])
        BY DEF Inv, CpusInv
      <3> QED BY <1>2, <1>6, <2>3, <3>1, <3>2
    <2> QED BY ZenonT(40), <2>2, <2>3
  <1>8. StacksInv' BY <1>1 DEF Inv, StacksInv
  <1>9. OffInv'
    <2>1. ASSUME NEW t \in Thread, \A d \in CPU : cur'[d] # t
          PROVE  /\ Head(frames'[t]).at \in {"off", "new"}
                 /\ Head(frames'[t]).at = "off" => (saved'[t] <=> Head(frames'[t]).kind # "irq")
                 /\ Head(frames'[t]).at = "new" => Head(frames'[t]).kind # "irq"
      <3>1. CASE t = cur[c] BY SMTT(20), ZenonT(20), <1>1, <3>1
      <3>2. CASE t # cur[c]
        <4>1. \A d \in CPU : cur[d] # t BY SMTT(20), ZenonT(20), <1>2, <2>1, <3>2
        <4> QED BY <1>1, <3>2, <4>1 DEF Inv, OffInv
      <3> QED BY <3>1, <3>2
    <2>2. ASSUME NEW d \in CPU, cur'[d] # d PROVE Head(frames'[d]) = Frame("sched", "back")
      BY SMTT(20), ZenonT(20), <1>1, <1>2, <2>2, SpinlockConstants DEF Inv, OffInv
    <2> QED BY SMTT(20), ZenonT(20), <2>1, <2>2 DEF OffInv
  <1>10. CurInv' BY <1>2, SpinlockConstants DEF Inv, CurInv
  <1> QED BY ZenonT(40), <1>5, <1>7, <1>8, <1>9, <1>10 DEF Inv

(* sched() saves intena, which says whether the caller is interruptible. *)
LEMMA SchedStep ==
    ASSUME Inv, NEW c \in CPU, sched(c)
    PROVE  Inv'
  <1> DEFINE f == Frame(Top(c).kind, "off")
             s == <<f>> \o Tail(frames[cur[c]])
  <1>0. Top(c) \in FrameType /\ StackInv(frames[cur[c]], cur[c]) BY Start
  <1>1. f \in FrameType /\ f.kind = Top(c).kind /\ f.at = "off"
    BY <1>0 DEF FrameType, Frame
  <1> HIDE DEF f
  <1>2. StackInv(s, cur[c]) /\ Head(s) = f BY SMTT(20), ZenonT(20), <1>0, <1>1, GotoStack DEF Top
  <1>3. frames' = [frames EXCEPT ![cur[c]] = s] BY SMTT(20), ZenonT(20) DEF sched, Replace, f
  <1> HIDE DEF s
  <1>4. /\ cur[c] \in Thread /\ Held(c) = {ptable} /\ Top(c).at = "code"
        /\ cur' = [cur EXCEPT ![c] = c] /\ saved' = [saved EXCEPT ![cur[c]] = intena[c]]
        /\ locked' = locked /\ FL_IF' = FL_IF /\ ncli' = ncli /\ intena' = intena
    BY DEF sched, cpus
  <1>5. /\ saved' \in [Thread -> BOOLEAN] /\ saved'[cur[c]] = intena[c]
        /\ \A t \in Thread \ {cur[c]} : saved'[t] = saved[t]
    BY <1>4, Start DEF Inv, SpinType
  <1>6. intena[c] <=> Top(c).kind # "irq" BY Zenon, <1>4, Start DEF CpuInv
  <1> QED BY ZenonT(40), <1>1, <1>2, <1>3, <1>4, <1>5, <1>6, SwitchOut

(* exit(): the slot gets a new process. *)
LEMMA ExitStep ==
    ASSUME Inv, NEW c \in CPU, exit(c)
    PROVE  Inv'
  <1>1. /\ StackInv(NewStack, cur[c]) /\ Head(NewStack).at = "new" /\ Head(NewStack).kind = "fork"
    BY DEF StackInv, NewStack, Frame, FrameType, Waiting
  <1>2. /\ cur[c] \in Thread /\ Held(c) = {ptable} /\ Top(c).at = "code"
        /\ cur' = [cur EXCEPT ![c] = c] /\ frames' = [frames EXCEPT ![cur[c]] = NewStack]
        /\ locked' = locked /\ FL_IF' = FL_IF /\ ncli' = ncli /\ intena' = intena /\ saved' = saved
    BY DEF exit, cpus
  <1>3. saved' \in [Thread -> BOOLEAN] BY <1>2 DEF Inv, SpinType
  <1> QED BY Zenon, <1>1, <1>2, <1>3, SwitchOut

(* scheduler() switches to a thread, which restores its intena. *)
LEMMA SchedulerStep ==
    ASSUME Inv, NEW c \in CPU, NEW t \in Thread, scheduler(c, t)
    PROVE  Inv'
  <1> DEFINE f == Frame(Head(frames[t]).kind, "code")
             s == <<f>> \o Tail(frames[t])
             g == Frame("sched", "back")
  <1>0. /\ cur[c] = c /\ Top(c).kind = "sched" /\ Top(c).at = "code" /\ Held(c) = {ptable}
        /\ Head(frames[t]).at \in {"off", "new"} /\ cur' = [cur EXCEPT ![c] = t]
        /\ frames' = [frames EXCEPT ![c] = <<g>>, ![t] = s]
        /\ intena' = [intena EXCEPT ![c] = IF Head(frames[t]).at = "new" THEN @ ELSE saved[t]]
        /\ saved' = [saved EXCEPT ![t] = FALSE]
        /\ locked' = locked /\ FL_IF' = FL_IF /\ ncli' = ncli
    BY DEF scheduler, Resume, f
  <1>1. StackInv(frames[t], t) /\ Head(frames[t]) \in FrameType
    BY DEF Inv, StacksInv, StackInv
  <1>2. f \in FrameType /\ f.kind = Head(frames[t]).kind /\ f.at = "code"
    BY <1>1 DEF FrameType, Frame
  <1>3. g \in FrameType /\ g.kind = "sched" /\ g.at = "back" BY DEF FrameType, Frame
  <1> HIDE DEF f, g
  <1>4. StackInv(s, t) /\ Head(s) = f BY <1>1, <1>2, GotoStack
  <1> HIDE DEF s
  <1>5. t # c /\ t \notin CPU /\ c \notin Thread BY SpinlockConstants
  <1>6. StackInv(<<g>>, c) /\ Head(<<g>>) = g BY <1>3, <1>5 DEF StackInv, Waiting
  <1>7. /\ frames'[c] = <<g>> /\ frames'[t] = s
        /\ \A k \in Thread \cup CPU : k \notin {c, t} => frames'[k] = frames[k]
    BY <1>0, <1>5 DEF Inv, SpinType
  <1>8. cur'[c] = t /\ \A d \in CPU : d # c => cur'[d] = cur[d] BY <1>0 DEF Inv, SpinType
  <1>9. \A d \in CPU : cur[d] # t
    <2>1. ASSUME NEW d \in CPU, cur[d] = t PROVE FALSE
      BY <1>0, <2>1, Start DEF CpuInv, Top
    <2> QED BY SMTT(20), ZenonT(20), <2>1
  <1>10. SpinType'
    <2>1. frames' \in [Thread \cup CPU -> Seq(FrameType) \ {<<>>}]
      BY Zenon, <1>0, <1>4, <1>6 DEF Inv, SpinType, StackInv
    <2>2. intena' \in [CPU -> BOOLEAN] /\ saved' \in [Thread -> BOOLEAN] /\ cur' \in [CPU -> Thread \cup CPU]
      BY <1>0 DEF Inv, SpinType
    <2> QED BY Zenon, <1>0, <2>1, <2>2 DEF Inv, SpinType
  <1>11. \A d \in CPU : Held(d)' = Held(d) BY SMTT(20), ZenonT(20), <1>0 DEF Held
  <1>12. CpusInv'
    <2>1. SUFFICES ASSUME NEW d \in CPU
                   PROVE  CpuInv(Top(d)', cur'[d] = d, Held(d)', FL_IF'[d], ncli'[d], intena'[d])
      BY DEF CpusInv
    <2>2. CASE d = c
      <3>1. Top(c)' = f BY <1>4, <1>7, <1>8 DEF Top
      <3>2. f.kind # "sched" BY <1>1, <1>2 DEF StackInv
      <3>3. intena'[c] <=> f.kind # "irq"
        <4>1. intena'[c] = IF Head(frames[t]).at = "new" THEN intena[c] ELSE saved[t]
          BY <1>0 DEF Inv, SpinType
        <4>2. CASE Head(frames[t]).at = "new"
          <5>1. intena[c] BY SMTT(20), ZenonT(20), <1>0, Start DEF CpuInv
          <5>2. f.kind # "irq" BY ZenonT(40), <1>2, <1>9, <4>2 DEF Inv, OffInv
          <5> QED BY SMTT(20), ZenonT(20), <4>1, <4>2, <5>1, <5>2
        <4>3. CASE Head(frames[t]).at = "off"
          BY SMTT(20), ZenonT(20), <1>2, <1>9, <4>1, <4>3 DEF Inv, OffInv
        <4> QED BY <1>0, <4>2, <4>3
      <3>4. CpuInv(f, cur'[c] = c, Held(c), FL_IF[c], ncli[c], intena'[c])
        BY ZenonT(40), <1>0, <1>2, <3>2, <3>3, Start DEF CpuInv
      <3> QED BY <1>0, <1>11, <2>2, <3>1, <3>4
    <2>3. CASE d # c
      <3>1. Top(d)' = Top(d)
        <4>1. cur[d] \in Thread \cup {d} BY DEF Inv, CurInv
        <4>2. cur[d] \notin {c, t} BY SMTT(20), ZenonT(20), <1>0, <1>5, <1>9, <2>3, <4>1
        <4> QED BY <1>7, <1>8, <2>3, <4>1, <4>2 DEF Top
      <3>2. CpuInv(Top(d), cur[d] = d, Held(d), FL_IF[d], ncli[d], intena[d])
        BY DEF Inv, CpusInv
      <3>3. intena'[d] = intena[d] BY SMTT(20), ZenonT(20), <1>0, <2>3 DEF Inv, SpinType
      <3> QED BY SMTT(20), ZenonT(20), <1>0, <1>8, <1>11, <2>3, <3>1, <3>2, <3>3
    <2> QED BY SMTT(20), ZenonT(20), <2>2, <2>3
  <1>13. StacksInv' BY SMTT(20), ZenonT(20), <1>4, <1>6, <1>7 DEF Inv, StacksInv
  <1>14. OffInv'
    <2>1. ASSUME NEW u \in Thread, \A d \in CPU : cur'[d] # u
          PROVE  /\ Head(frames'[u]).at \in {"off", "new"}
                 /\ Head(frames'[u]).at = "off" => (saved'[u] <=> Head(frames'[u]).kind # "irq")
                 /\ Head(frames'[u]).at = "new" => Head(frames'[u]).kind # "irq"
      <3>1. u # t /\ u # c BY <1>5, <1>8, <2>1
      <3>2. \A d \in CPU : cur[d] # u BY SMTT(20), ZenonT(20), <1>0, <1>8, <2>1, <3>1
      <3>3. frames'[u] = frames[u] /\ saved'[u] = saved[u] BY SMTT(20), ZenonT(20), <1>0, <1>7, <3>1 DEF Inv, SpinType
      <3> QED BY <3>2, <3>3 DEF Inv, OffInv
    <2>2. ASSUME NEW d \in CPU, cur'[d] # d PROVE Head(frames'[d]) = g
      BY <1>5, <1>6, <1>7, <1>8, <2>2 DEF Inv, OffInv, g
    <2> QED BY <2>1, <2>2 DEF OffInv, g
  <1>15. CurInv'
    <2>1. \A d \in CPU : cur'[d] \in Thread \cup {d} BY <1>8 DEF Inv, CurInv
    <2>2. ASSUME NEW d \in CPU, NEW e \in CPU, cur'[d] = cur'[e] PROVE d = e
      BY <1>8, <1>9, <2>2 DEF Inv, CurInv
    <2> QED BY <2>1, <2>2 DEF CurInv
  <1> QED BY <1>10, <1>12, <1>13, <1>14, <1>15 DEF Inv

-----------------------------------------------------------------------------

LEMMA InitInv == SpinInit => Inv
  <1> SUFFICES ASSUME SpinInit PROVE Inv OBVIOUS
  <1> DEFINE g == Frame("sched", "loop")
  <1>1. g \in FrameType /\ g.kind = "sched" /\ g.at = "loop" BY DEF FrameType, Frame
  <1> HIDE DEF g
  <1>2. \A t \in Thread : frames[t] = NewStack
    BY SpinlockConstants DEF SpinInit
  <1>3. \A c \in CPU : frames[c] = <<g>> BY DEF SpinInit, g
  <1>4. \A k : StackInv(NewStack, k)
    BY DEF StackInv, NewStack, Frame, FrameType, Waiting
  <1>5. \A c \in CPU : StackInv(<<g>>, c) /\ Head(<<g>>) = g
    BY <1>1, SpinlockConstants DEF StackInv, Waiting
  <1>6. Head(NewStack).at = "new" /\ Head(NewStack).kind = "fork" BY DEF NewStack, Frame
  <1>7. StacksInv BY <1>2, <1>3, <1>4, <1>5 DEF StacksInv
  <1>8. SpinType
    <2>1. frames \in [Thread \cup CPU -> Seq(FrameType) \ {<<>>}]
      BY Zenon, <1>7 DEF SpinInit, StacksInv, StackInv
    <2> QED BY <2>1 DEF SpinInit, SpinType
  <1>9. CpusInv
    <2>1. SUFFICES ASSUME NEW c \in CPU
                   PROVE  CpuInv(Top(c), cur[c] = c, Held(c), FL_IF[c], ncli[c], intena[c])
      BY DEF CpusInv
    <2>2. Top(c) = g /\ cur[c] = c /\ ncli[c] = 0 BY <1>3, <1>5 DEF Top, SpinInit
    <2>3. Held(c) = {} BY SpinlockConstants DEF Held, SpinInit
    <2>4. Cardinality({}) = 0 BY FS_EmptySet
    <2> QED BY SMTT(20), ZenonT(20), <1>1, <2>2, <2>3, <2>4 DEF CpuInv
  <1>10. OffInv BY <1>2, <1>6 DEF OffInv, SpinInit
  <1>11. CurInv BY DEF CurInv, SpinInit
  <1> QED BY <1>7, <1>8, <1>9, <1>10, <1>11 DEF Inv

(* Inv is inductive. *)
LEMMA NextInv == Inv /\ [SpinNext]_spinvars => Inv'
  <1> SUFFICES ASSUME Inv, [SpinNext]_spinvars PROVE Inv' OBVIOUS
  <1>1. CASE UNCHANGED spinvars
    <2> USE <1>1 DEF spinvars, cpus, Inv
    <2>1. SpinType' BY SMTT(20), ZenonT(20) DEF SpinType
    <2>2. CpusInv' BY DEF CpusInv, Top, Held
    <2>3. StacksInv' BY SMTT(20), ZenonT(20) DEF StacksInv
    <2>4. OffInv' BY DEF OffInv
    <2>5. CurInv' BY DEF CurInv
    <2> QED BY <2>1, <2>2, <2>3, <2>4, <2>5
  <1>2. ASSUME NEW c \in CPU, Step(c) PROVE Inv'
    BY <1>2, AcquireStep, PushcliStep, XchgStep, ReleaseStep, InterruptStep, IretStep,
       SchedStep, ExitStep, SchedulerStep, StiStep DEF Step
  <1> QED BY <1>1, <1>2 DEF SpinNext

(***************************************************************************)
(* The count of pushcli() is the number of locks the CPU holds or waits    *)
(* for, for any numbers of CPUs, threads and locks and any nesting.        *)
(***************************************************************************)
THEOREM NcliIsTheLocks == SpinSpec => []NcliCountsLocks
  <1>1. Inv => NcliCountsLocks BY SMTT(20), ZenonT(20) DEF Inv, CpusInv, CpuInv, NcliCountsLocks, Spinning
  <1> QED BY <1>1, InitInv, NextInv, PTL DEF SpinSpec

(***************************************************************************)
(* No CPU holds or waits for a spin lock with interrupts on, and none      *)
(* waits for a lock it holds.                                              *)
(***************************************************************************)
THEOREM LocksKeepInterruptsOff == SpinSpec => []NoSelfDeadlock
  <1>1. Inv => NoSelfDeadlock
    <2> SUFFICES ASSUME Inv, NEW c \in CPU
                 PROVE  /\ Held(c) # {} \/ Spinning(c) => ~FL_IF[c]
                        /\ Spinning(c) => Top(c).lk \notin Held(c)
      BY SMTT(20), ZenonT(20) DEF NoSelfDeadlock
    <2>1. CpuInv(Top(c), cur[c] = c, Held(c), FL_IF[c], ncli[c], intena[c])
      BY DEF Inv, CpusInv
    <2> QED BY <2>1, SpinlockConstants DEF CpuInv, Spinning, Lock
  <1> QED BY <1>1, InitInv, NextInv, PTL DEF SpinSpec

(***************************************************************************)
(* Code without locks has the interrupt flag its frame began with,         *)
(* whatever CPUs it was switched over.                                     *)
(***************************************************************************)
THEOREM FlagIsRestored == SpinSpec => []FlagRestored
  <1>1. Inv => FlagRestored BY DEF Inv, CpusInv, CpuInv, FlagRestored
  <1> QED BY <1>1, InitInv, NextInv, PTL DEF SpinSpec

(* Type correctness of Spinlock. *)
THEOREM SpinlockTypeCorrect == SpinSpec => []SpinType
  <1>1. Inv => SpinType BY DEF Inv
  <1> QED BY <1>1, InitInv, NextInv, PTL DEF SpinSpec

-----------------------------------------------------------------------------
(* Division with a divisor that is not a number but a constant. *)

(* What \div and % return. *)
LEMMA DivMod ==
  ASSUME NEW a \in Int, NEW m \in Nat \ {0}
  PROVE  a \div m \in Int /\ a % m \in 0 .. m - 1 /\ a = m * (a \div m) + (a % m)
OBVIOUS

LEMMA ModRange ==
  ASSUME NEW a \in Int, NEW m \in Nat \ {0}
  PROVE  a % m \in 0 .. m - 1
OBVIOUS

LEMMA ProductAtLeast ==
  ASSUME NEW m \in Nat, NEW d \in Int, d >= 1
  PROVE  m * d \in Int /\ m * d >= m
OBVIOUS

(* A number has one remainder. *)
LEMMA OneRemainder ==
  ASSUME NEW m \in Nat \ {0}, NEW q1 \in Int, NEW q2 \in Int,
         NEW r1 \in 0 .. m - 1, NEW r2 \in 0 .. m - 1,
         m * q1 + r1 = m * q2 + r2
  PROVE  r1 = r2
<1>1. CASE q1 >= q2 + 1
  <2>1. m * (q1 - q2) >= m
    BY <1>1, ProductAtLeast
  <2>2. m * (q1 - q2) = m * q1 - m * q2
    OBVIOUS
  <2> QED
    BY <2>1, <2>2
<1>2. CASE q2 >= q1 + 1
  <2>1. m * (q2 - q1) >= m
    BY <1>2, ProductAtLeast
  <2>2. m * (q2 - q1) = m * q2 - m * q1
    OBVIOUS
  <2> QED
    BY <2>1, <2>2
<1>3. CASE q1 = q2
  BY <1>3
<1> QED
  BY <1>1, <1>2, <1>3

LEMMA ModIs ==
  ASSUME NEW a \in Int, NEW m \in Nat \ {0}, NEW q \in Int, NEW r \in 0 .. m - 1,
         a = m * q + r
  PROVE  a % m = r
BY DivMod, OneRemainder

(* A multiple of the divisor does not matter. *)
LEMMA ModShift ==
  ASSUME NEW a \in Int, NEW m \in Nat \ {0}, NEW k \in Int
  PROVE  (a + m * k) % m = a % m
<1> DEFINE b == a + m * k
           q == (a \div m) + k
           r == a % m
<1>1. a = m * (a \div m) + r /\ r \in 0 .. m - 1 /\ a \div m \in Int
  BY DivMod
<1>2. m * q = m * (a \div m) + m * k
  BY <1>1
<1>3. b = m * q + r
  BY <1>1, <1>2
<1>4. b \in Int /\ q \in Int
  BY <1>1
<1> HIDE DEF b, q, r
<1>5. b % m = r
  BY <1>1, <1>3, <1>4, ModIs
<1> QED
  BY <1>5 DEF b, r

(* A number that has wrapped at most once. *)
LEMMA ModWrap ==
  ASSUME NEW a \in Nat, NEW m \in Nat \ {0}
  PROVE  /\ a < m => a % m = a
         /\ a >= m /\ a < m + m => a % m = a - m
<1>1. ASSUME a < m PROVE a % m = a
  <2>1. a = m * 0 + a
    OBVIOUS
  <2> QED
    BY <1>1, <2>1, ModIs
<1>2. ASSUME a >= m, a < m + m PROVE a % m = a - m
  <2>1. a = m * 1 + (a - m)
    OBVIOUS
  <2> QED
    BY <1>2, <2>1, ModIs
<1> QED
  BY <1>1, <1>2

(* Fewer than m consecutive numbers have different remainders. *)
LEMMA ModDistinct ==
  ASSUME NEW m \in Nat \ {0}, NEW x \in Nat, NEW y \in Nat, x < y, y < x + m
  PROVE  x % m # y % m
<1> SUFFICES ASSUME x % m = y % m PROVE FALSE
  OBVIOUS
<1> DEFINE d == (y \div m) - (x \div m)
<1>1. x = m * (x \div m) + (x % m) /\ x \div m \in Int /\ x % m \in 0 .. m - 1
  BY DivMod
<1>2. y = m * (y \div m) + (y % m) /\ y \div m \in Int /\ y % m \in 0 .. m - 1
  BY DivMod
<1>3. y - x = m * d /\ d \in Int
  <2>1. m * d = m * (y \div m) - m * (x \div m)
    BY <1>1, <1>2
  <2> QED
    BY <1>1, <1>2, <2>1
<1> HIDE DEF d
<1>4. CASE d >= 1
  BY <1>3, <1>4, ProductAtLeast
<1>5. CASE d <= 0
  <2>1. m * d <= 0
    BY <1>3, <1>5
  <2> QED
    BY <2>1, <1>3
<1> QED
  BY <1>3, <1>4, <1>5

(* A counter that wraps at a multiple of m has the remainder it would have   *)
(* without wrapping.                                                         *)
LEMMA ModMod ==
  ASSUME NEW m \in Nat \ {0}, NEW u \in Nat \ {0}, u % m = 0, NEW a \in Nat
  PROVE  (a % u) % m = a % m
<1> DEFINE k == u \div m
           q == a \div u
<1>1. k \in Int /\ u = m * k
  BY DivMod
<1>2. q \in Int /\ a % u \in 0 .. u - 1 /\ a = u * q + (a % u)
  BY DivMod
<1>3. u * q = m * (k * q) /\ k * q \in Int
  BY <1>1, <1>2
<1> DEFINE r == a % u
           j == k * q
<1>4. a = r + m * j /\ r \in Int /\ j \in Int
  <2> HIDE DEF k, q
  <2> QED
    BY <1>2, <1>3
<1> HIDE DEF j, r
<1>5. (r + m * j) % m = r % m
  BY Zenon, <1>4, ModShift
<1> QED
  BY <1>4, <1>5 DEF r

-----------------------------------------------------------------------------
(* Counters, descriptors, places in the code and channels are of their types. *)
TypeOK ==
    /\ data \in [0..(PIPESIZE - 1) -> Byte]
    /\ nread \in 0..(UintMod - 1) /\ nwrite \in 0..(UintMod - 1)
    /\ readopen \in BOOLEAN /\ writeopen \in BOOLEAN /\ freed \in BOOLEAN
    /\ lock \in Proc \cup {NoProc}
    /\ fds \in [Proc -> SUBSET {"r", "w"}]
    /\ pc \in [Proc -> {"out", "write", "full", "read", "empty", "copy"}]
    /\ n \in [Proc -> Nat] /\ i \in [Proc -> Nat]
    /\ killed \in [Proc -> BOOLEAN]
    /\ chan \in [Proc -> {"none", "nread", "nwrite"}]

(* The writers are ahead of the readers by at most the size of the buffer. *)
Bounded == \E c \in 0..PIPESIZE : nwrite = (nread + c) % UintMod

(* An end of the pipe is open as long as a process has it; the page is freed *)
(* when both are closed.                                                     *)
EndsAreHeld ==
    /\ readopen <=> \E q \in Proc : "r" \in fds[q]
    /\ writeopen <=> \E q \in Proc : "w" \in fds[q]
    /\ freed <=> ~readopen /\ ~writeopen

(* A process in a call has the end it uses.  It holds the lock, except while *)
(* it sleeps or comes back from sleep().                                     *)
Inside ==
    \A q \in Proc :
        /\ pc[q] \in {"write", "full"} => "w" \in fds[q]
        /\ pc[q] \in {"read", "empty", "copy"} => "r" \in fds[q]
        /\ pc[q] \in {"write", "read", "copy"} => lock = q
        /\ lock = q => pc[q] # "out"
        /\ chan[q] = "nread" => pc[q] = "empty" /\ lock # q
        /\ chan[q] = "nwrite" => pc[q] = "full" /\ lock # q

(* What the process that is about to sleep has tested still holds. *)
TestedHolds ==
    \A q \in Proc : lock = q =>
        /\ pc[q] = "full" => Full /\ readopen
        /\ pc[q] = "empty" => Empty /\ writeopen

(* A sleeper's condition holds, or the process that has made it false is     *)
(* still in the loop behind which it calls wakeup().                         *)
WakeupIsDue ==
    \A q \in Proc :
        /\ chan[q] = "nread" =>
              /\ writeopen
              /\ \/ Empty
                 \/ \E w \in Proc : killed[w]
                 \/ \E w \in Proc : lock = w /\ pc[w] = "write"
        /\ chan[q] = "nwrite" =>
              /\ readopen
              /\ Full \/ \E r \in Proc : lock = r /\ pc[r] = "copy"

IInv == TypeOK /\ Bounded /\ EndsAreHeld /\ Inside /\ TestedHolds /\ WakeupIsDue

-----------------------------------------------------------------------------
(* The counters. *)

(* The sum of a counter and a number of bytes wraps at most once. *)
LEMMA CounterSum ==
  ASSUME NEW a \in 0 .. UintMod - 1, NEW c \in 0 .. PIPESIZE
  PROVE  (a + c) % UintMod = IF a + c < UintMod THEN a + c ELSE a + c - UintMod
<1> DEFINE s == a + c
<1>1. s \in Nat /\ UintMod \in Nat \ {0} /\ s < UintMod + UintMod
  BY PipeConstants
<1>2. s % UintMod = IF s < UintMod THEN s ELSE s - UintMod
  <2> HIDE DEF s
  <2> QED
    BY <1>1, ModWrap
<1> QED
  BY <1>1, <1>2, PipeConstants

(* The distance of the counters decides the two tests of the code. *)
LEMMA Distance ==
  ASSUME NEW r \in 0 .. UintMod - 1, NEW c \in 0 .. PIPESIZE, NEW w, w = (r + c) % UintMod
  PROVE  /\ w = (r + PIPESIZE) % UintMod <=> c = PIPESIZE
         /\ r = w <=> c = 0
         /\ (w - r) % UintMod = c
<1>1. w = IF r + c < UintMod THEN r + c ELSE r + c - UintMod
  BY CounterSum
<1>2. (r + PIPESIZE) % UintMod
      = IF r + PIPESIZE < UintMod THEN r + PIPESIZE ELSE r + PIPESIZE - UintMod
  <2>1. PIPESIZE \in 0 .. PIPESIZE
    BY PipeConstants
  <2> QED
    BY <2>1, CounterSum
<1>3. w = (r + PIPESIZE) % UintMod <=> c = PIPESIZE
  BY <1>1, <1>2, PipeConstants
<1>4. r = w <=> c = 0
  BY <1>1, PipeConstants
<1>5. (w - r) % UintMod = c
  <2>1. CASE r + c < UintMod
    <3>1. w - r = c /\ c < UintMod
      BY <1>1, <2>1, PipeConstants
    <3> QED
      BY <3>1, ModWrap, PipeConstants
  <2>2. CASE r + c >= UintMod
    <3>1. w - r = UintMod * (-1) + c /\ c < UintMod /\ w - r \in Int
      BY <1>1, <2>2, PipeConstants
    <3> QED
      BY <3>1, ModIs, PipeConstants
  <2> QED
    BY <2>1, <2>2, PipeConstants
<1> QED
  BY <1>3, <1>4, <1>5

LEMMA CountTests ==
  ASSUME nread \in 0 .. UintMod - 1, NEW c \in 0 .. PIPESIZE,
         nwrite = (nread + c) % UintMod
  PROVE  (Full <=> c = PIPESIZE) /\ (Empty <=> c = 0) /\ Count = c
BY Distance DEF Full, Empty, Count

(* One byte more, one byte less. *)
LEMMA CountSteps ==
  ASSUME nread \in 0 .. UintMod - 1, NEW c \in 0 .. PIPESIZE,
         nwrite = (nread + c) % UintMod
  PROVE  /\ c < PIPESIZE => (nwrite + 1) % UintMod = (nread + (c + 1)) % UintMod
         /\ c > 0 => nwrite = (((nread + 1) % UintMod) + (c - 1)) % UintMod
         /\ nwrite \in 0 .. UintMod - 1
         /\ (nwrite + 1) % UintMod \in 0 .. UintMod - 1
         /\ (nread + 1) % UintMod \in 0 .. UintMod - 1
<1>1. nwrite = IF nread + c < UintMod THEN nread + c ELSE nread + c - UintMod
  BY CounterSum
<1>2. nwrite \in 0 .. UintMod - 1
  BY <1>1, PipeConstants
<1>3. 1 \in 0 .. PIPESIZE
  BY PipeConstants
<1>4. /\ (nwrite + 1) % UintMod = IF nwrite + 1 < UintMod THEN nwrite + 1 ELSE nwrite + 1 - UintMod
      /\ (nread + 1) % UintMod = IF nread + 1 < UintMod THEN nread + 1 ELSE nread + 1 - UintMod
  BY <1>2, <1>3, CounterSum
<1>5. ASSUME c < PIPESIZE PROVE (nwrite + 1) % UintMod = (nread + (c + 1)) % UintMod
  <2> DEFINE d == c + 1
  <2>1. d \in 0 .. PIPESIZE
    BY <1>5, PipeConstants
  <2>2. (nread + d) % UintMod = IF nread + d < UintMod THEN nread + d ELSE nread + d - UintMod
    <3> HIDE DEF d
    <3> QED
      BY <2>1, CounterSum
  <2> QED
    BY <1>1, <1>4, <1>5, <2>2, PipeConstants
<1>6. ASSUME c > 0 PROVE nwrite = (((nread + 1) % UintMod) + (c - 1)) % UintMod
  <2> DEFINE d == c - 1
             r == (nread + 1) % UintMod
  <2>1. d \in 0 .. PIPESIZE /\ r \in 0 .. UintMod - 1
    BY <1>4, <1>6, PipeConstants
  <2>2. (r + d) % UintMod = IF r + d < UintMod THEN r + d ELSE r + d - UintMod
    <3> HIDE DEF d, r
    <3> QED
      BY <2>1, CounterSum
  <2>3. r = IF nread + 1 < UintMod THEN nread + 1 ELSE nread + 1 - UintMod
    BY <1>4
  <2>4. d = c - 1
    OBVIOUS
  <2>5. nwrite = (r + d) % UintMod
    <3> HIDE DEF d, r
    <3> QED
      BY <1>1, <1>6, <2>1, <2>2, <2>3, <2>4, PipeConstants
  <2> QED
    BY <2>5
<1> QED
  BY <1>2, <1>4, <1>5, <1>6, PipeConstants

-----------------------------------------------------------------------------
(* The invariant. *)

LEMMA InitIInv == Init => IInv
<1> SUFFICES ASSUME Init PROVE IInv
  OBVIOUS
<1>1. TypeOK
  <2>1. 0 \in 0 .. UintMod - 1
    BY PipeConstants
  <2>2. n \in [Proc -> Nat] /\ i \in [Proc -> Nat]
    BY DEF Init
  <2> QED
    BY Zenon, <2>1, <2>2 DEF Init, TypeOK
<1>2. Bounded
  <2>1. 0 \in 0 .. PIPESIZE /\ 0 \in 0 .. UintMod - 1
    BY PipeConstants
  <2>2. (0 + 0) % UintMod = 0
    BY <2>1, CounterSum, PipeConstants
  <2> QED
    BY <2>1, <2>2 DEF Init, Bounded
<1>3. EndsAreHeld /\ Inside /\ TestedHolds /\ WakeupIsDue
  BY PipeConstants DEF Init, EndsAreHeld, Inside, TestedHolds, WakeupIsDue
<1> QED
  BY <1>1, <1>2, <1>3 DEF IInv

(* The types, and the distance of the counters. *)
LEMMA TypeStep ==
  ASSUME TypeOK, Bounded, [Next]_vars
  PROVE  TypeOK' /\ Bounded'
<1> USE DEF TypeOK, pipe, ends, procs
<1>1. PICK c \in 0 .. PIPESIZE : nwrite = (nread + c) % UintMod
  BY DEF Bounded
<1>2. (Full <=> c = PIPESIZE) /\ (Empty <=> c = 0)
  BY <1>1, CountTests
<1>3. ASSUME UNCHANGED pipe PROVE Bounded'
  BY <1>1, <1>3 DEF Bounded
<1>4. ASSUME NEW q \in Proc, NEW count \in Counts, WriteCall(q, count) PROVE TypeOK' /\ Bounded'
  <2>1. n' \in [Proc -> Nat] /\ i' \in [Proc -> Nat]
    BY <1>4, PipeConstants DEF WriteCall, Enter
  <2> QED
    BY SMTT(20), ZenonT(20), <1>3, <1>4, <2>1 DEF WriteCall, Enter, Goto
<1>5. ASSUME NEW q \in Proc, NEW count \in Counts, ReadCall(q, count) PROVE TypeOK' /\ Bounded'
  <2>1. n' \in [Proc -> Nat] /\ i' \in [Proc -> Nat]
    BY <1>5, PipeConstants DEF ReadCall, Enter
  <2> QED
    BY <1>3, <1>5, <2>1 DEF ReadCall, Enter, Goto
<1>6. ASSUME NEW q \in Proc, NEW v \in Byte, WriteByte(q, v) PROVE TypeOK' /\ Bounded'
  <2>1. ~Full
    BY <1>6 DEF WriteByte
  <2>2. c < PIPESIZE
    BY <1>2, <2>1, PipeConstants
  <2>3. nwrite' = (nread + (c + 1)) % UintMod /\ nwrite' \in 0 .. UintMod - 1 /\ nread' = nread
    BY <1>1, <1>6, <2>2, CountSteps DEF WriteByte
  <2>4. c + 1 \in 0 .. PIPESIZE
    BY <2>2, PipeConstants
  <2>5. Bounded'
    BY <2>3, <2>4 DEF Bounded
  <2>6. data' \in [0..(PIPESIZE - 1) -> Byte]
    BY Zenon, <1>6 DEF WriteByte
  <2>7. i' \in [Proc -> Nat]
    BY SMTT(20), ZenonT(20), <1>6 DEF WriteByte
  <2> QED
    BY <1>6, <2>3, <2>5, <2>6, <2>7 DEF WriteByte
<1>7. ASSUME NEW q \in Proc, ReadByte(q) PROVE TypeOK' /\ Bounded'
  <2>1. ~Empty
    BY <1>7 DEF ReadByte
  <2>2. c > 0
    BY <1>2, <2>1, PipeConstants
  <2>3. nwrite = (nread' + (c - 1)) % UintMod /\ nread' \in 0 .. UintMod - 1 /\ nwrite' = nwrite
    BY <1>1, <1>7, <2>2, CountSteps DEF ReadByte
  <2>4. c - 1 \in 0 .. PIPESIZE
    BY <2>2, PipeConstants
  <2>5. Bounded'
    BY <2>3, <2>4 DEF Bounded
  <2>6. i' \in [Proc -> Nat]
    BY <1>7 DEF ReadByte
  <2> QED
    BY SMTT(20), ZenonT(20), <1>7, <2>3, <2>5, <2>6 DEF ReadByte
<1>8. ASSUME NEW q \in Proc, WriteFail(q) PROVE TypeOK' /\ Bounded'
  BY <1>3, <1>8 DEF WriteFail, Leave, Goto, In
<1>9. ASSUME NEW q \in Proc, WriteFull(q) PROVE TypeOK' /\ Bounded'
  BY <1>3, <1>9 DEF WriteFull, Goto, In, wakeup
<1>10. ASSUME NEW q \in Proc, WriteSleep(q) PROVE TypeOK' /\ Bounded'
  BY <1>3, <1>10 DEF WriteSleep, Sleep, In
<1>11. ASSUME NEW q \in Proc, WriteAwake(q) PROVE TypeOK' /\ Bounded'
  BY SMTT(20), ZenonT(20), <1>3, <1>11 DEF WriteAwake, Awake, Goto
<1>12. ASSUME NEW q \in Proc, WriteDone(q) PROVE TypeOK' /\ Bounded'
  BY <1>3, <1>12 DEF WriteDone, Leave, Goto, In, wakeup
<1>13. ASSUME NEW q \in Proc, ReadFail(q) PROVE TypeOK' /\ Bounded'
  BY <1>3, <1>13 DEF ReadFail, Leave, Goto, In
<1>14. ASSUME NEW q \in Proc, ReadEmpty(q) PROVE TypeOK' /\ Bounded'
  BY <1>3, <1>14 DEF ReadEmpty, Goto, In
<1>15. ASSUME NEW q \in Proc, ReadSleep(q) PROVE TypeOK' /\ Bounded'
  BY SMTT(20), ZenonT(20), <1>3, <1>15 DEF ReadSleep, Sleep, In
<1>16. ASSUME NEW q \in Proc, ReadAwake(q) PROVE TypeOK' /\ Bounded'
  BY <1>3, <1>16 DEF ReadAwake, Awake, Goto
<1>17. ASSUME NEW q \in Proc, ReadStart(q) PROVE TypeOK' /\ Bounded'
  BY <1>3, <1>17 DEF ReadStart, Goto, In
<1>18. ASSUME NEW q \in Proc, ReadDone(q) PROVE TypeOK' /\ Bounded'
  BY <1>3, <1>18 DEF ReadDone, Leave, Goto, In, wakeup
<1>19. ASSUME NEW q \in Proc, NEW e \in {"r", "w"}, Close(q, e) PROVE TypeOK' /\ Bounded'
  BY Zenon, <1>3, <1>19 DEF Close, wakeup
<1>20. ASSUME NEW q \in Proc, Kill(q) PROVE TypeOK' /\ Bounded'
  BY SMTT(20), ZenonT(20), <1>3, <1>20 DEF Kill
<1>21. CASE UNCHANGED vars
  BY SMTT(20), ZenonT(20), <1>3, <1>21 DEF vars
<1> HIDE DEF TypeOK, pipe, ends, procs
<1> QED
  BY Zenon, <1>4, <1>5, <1>6, <1>7, <1>8, <1>9, <1>10, <1>11, <1>12, <1>13, <1>14, <1>15, <1>16, <1>17, <1>18, <1>19, <1>20, <1>21
  DEF Next, WriteStep, ReadStep

(* Only pipeclose() changes the ends, under the lock. *)
LEMMA EndsStep ==
  ASSUME TypeOK, EndsAreHeld, [Next]_vars
  PROVE  EndsAreHeld'
<1>1. ASSUME UNCHANGED ends PROVE EndsAreHeld'
  BY <1>1 DEF ends, EndsAreHeld
<1>2. ASSUME NEW q \in Proc, NEW e \in {"r", "w"}, Close(q, e) PROVE EndsAreHeld'
  <2>1. \A r \in Proc : fds'[r] = IF r = q THEN fds[q] \ {e} ELSE fds[r]
    BY <1>2 DEF Close, TypeOK
  <2>2. CASE LastRef(q, e)
    BY <1>2, <2>1, <2>2 DEF Close, LastRef, EndsAreHeld, TypeOK
  <2>3. CASE ~LastRef(q, e)
    BY SMTT(20), ZenonT(20), <1>2, <2>1, <2>3 DEF Close, LastRef, EndsAreHeld, TypeOK
  <2> QED
    BY <2>2, <2>3
<1>3. CASE UNCHANGED vars
  BY <1>1, <1>3 DEF vars
<1> QED
  BY ZenonT(40), <1>1, <1>2, <1>3 DEF Next, WriteStep, ReadStep, WriteCall, ReadCall, Enter, WriteByte,
    WriteFail, WriteFull, WriteSleep, WriteAwake, WriteDone, ReadFail, ReadEmpty, ReadSleep,
    ReadAwake, ReadStart, ReadByte, ReadDone, Leave, Sleep, Awake, Kill

(* A call begins with the end open and the lock, and keeps both. *)
LEMMA InsideStep ==
  ASSUME TypeOK, Inside, [Next]_vars
  PROVE  Inside'
<1> USE PipeConstants DEF TypeOK, Inside, pipe, ends, procs
<1>1. ASSUME NEW q \in Proc, NEW count \in Counts, WriteCall(q, count) PROVE Inside'
  BY SMTT(20), ZenonT(20), <1>1 DEF WriteCall, Enter, Goto
<1>2. ASSUME NEW q \in Proc, NEW count \in Counts, ReadCall(q, count) PROVE Inside'
  BY SMTT(20), ZenonT(20), <1>2 DEF ReadCall, Enter, Goto
<1>3. ASSUME NEW q \in Proc, NEW v \in Byte, WriteByte(q, v) PROVE Inside'
  BY SMTT(20), ZenonT(20), <1>3 DEF WriteByte, In
<1>4. ASSUME NEW q \in Proc, WriteFail(q) PROVE Inside'
  BY SMTT(20), ZenonT(20), <1>4 DEF WriteFail, Leave, Goto, In
<1>5. ASSUME NEW q \in Proc, WriteFull(q) PROVE Inside'
  BY SMTT(20), ZenonT(20), <1>5 DEF WriteFull, Goto, In, wakeup
<1>6. ASSUME NEW q \in Proc, WriteSleep(q) PROVE Inside'
  BY <1>6 DEF WriteSleep, Sleep, In
<1>7. ASSUME NEW q \in Proc, WriteAwake(q) PROVE Inside'
  BY SMTT(20), ZenonT(20), <1>7 DEF WriteAwake, Awake, Goto
<1>8. ASSUME NEW q \in Proc, WriteDone(q) PROVE Inside'
  BY SMTT(20), ZenonT(20), <1>8 DEF WriteDone, Leave, Goto, In, wakeup
<1>9. ASSUME NEW q \in Proc, ReadFail(q) PROVE Inside'
  BY SMTT(20), ZenonT(20), <1>9 DEF ReadFail, Leave, Goto, In
<1>10. ASSUME NEW q \in Proc, ReadEmpty(q) PROVE Inside'
  BY SMTT(20), ZenonT(20), <1>10 DEF ReadEmpty, Goto, In
<1>11. ASSUME NEW q \in Proc, ReadSleep(q) PROVE Inside'
  BY SMTT(20), ZenonT(20), <1>11 DEF ReadSleep, Sleep, In
<1>12. ASSUME NEW q \in Proc, ReadAwake(q) PROVE Inside'
  BY SMTT(20), ZenonT(20), <1>12 DEF ReadAwake, Awake, Goto
<1>13. ASSUME NEW q \in Proc, ReadStart(q) PROVE Inside'
  BY SMTT(20), ZenonT(20), <1>13 DEF ReadStart, Goto, In
<1>14. ASSUME NEW q \in Proc, ReadByte(q) PROVE Inside'
  BY SMTT(20), ZenonT(20), <1>14 DEF ReadByte, In
<1>15. ASSUME NEW q \in Proc, ReadDone(q) PROVE Inside'
  BY SMTT(20), ZenonT(20), <1>15 DEF ReadDone, Leave, Goto, In, wakeup
<1>16. ASSUME NEW q \in Proc, NEW e \in {"r", "w"}, Close(q, e) PROVE Inside'
  BY SMTT(20), ZenonT(20), <1>16 DEF Close, LastRef, wakeup
<1>17. ASSUME NEW q \in Proc, Kill(q) PROVE Inside'
  BY SMTT(20), ZenonT(20), <1>17 DEF Kill
<1>18. CASE UNCHANGED vars
  BY SMTT(20), ZenonT(20), <1>18 DEF vars
<1> HIDE DEF TypeOK, Inside, pipe, ends, procs
<1> QED
  BY ZenonT(30), <1>1, <1>2, <1>3, <1>4, <1>5, <1>6, <1>7, <1>8, <1>9, <1>10, <1>11, <1>12, <1>13, <1>14, <1>15, <1>16, <1>17, <1>18
  DEF Next, WriteStep, ReadStep

(* Nobody changes counters or ends between the test and sleep(). *)
LEMMA TestedStep ==
  ASSUME TypeOK, Inside, TestedHolds, [Next]_vars
  PROVE  TestedHolds'
<1> USE PipeConstants DEF TypeOK, Inside, TestedHolds, pipe, ends, procs, Full, Empty
<1>1. ASSUME NEW q \in Proc, NEW count \in Counts, WriteCall(q, count) PROVE TestedHolds'
  BY SMTT(20), ZenonT(20), <1>1 DEF WriteCall, Enter, Goto
<1>2. ASSUME NEW q \in Proc, NEW count \in Counts, ReadCall(q, count) PROVE TestedHolds'
  BY SMTT(20), ZenonT(20), <1>2 DEF ReadCall, Enter, Goto
<1>3. ASSUME NEW q \in Proc, NEW v \in Byte, WriteByte(q, v) PROVE TestedHolds'
  BY SMTT(20), ZenonT(20), <1>3 DEF WriteByte, In
<1>4. ASSUME NEW q \in Proc, WriteFail(q) PROVE TestedHolds'
  BY SMTT(20), ZenonT(20), <1>4 DEF WriteFail, Leave, Goto, In
<1>5. ASSUME NEW q \in Proc, WriteFull(q) PROVE TestedHolds'
  BY <1>5 DEF WriteFull, Goto, In, wakeup
<1>6. ASSUME NEW q \in Proc, WriteSleep(q) PROVE TestedHolds'
  BY SMTT(20), ZenonT(20), <1>6 DEF WriteSleep, Sleep, In
<1>7. ASSUME NEW q \in Proc, WriteAwake(q) PROVE TestedHolds'
  BY SMTT(20), ZenonT(20), <1>7 DEF WriteAwake, Awake, Goto
<1>8. ASSUME NEW q \in Proc, WriteDone(q) PROVE TestedHolds'
  BY SMTT(20), ZenonT(20), <1>8 DEF WriteDone, Leave, Goto, In, wakeup
<1>9. ASSUME NEW q \in Proc, ReadFail(q) PROVE TestedHolds'
  BY SMTT(20), ZenonT(20), <1>9 DEF ReadFail, Leave, Goto, In
<1>10. ASSUME NEW q \in Proc, ReadEmpty(q) PROVE TestedHolds'
  BY SMTT(20), ZenonT(20), <1>10 DEF ReadEmpty, Goto, In
<1>11. ASSUME NEW q \in Proc, ReadSleep(q) PROVE TestedHolds'
  BY SMTT(20), ZenonT(20), <1>11 DEF ReadSleep, Sleep, In
<1>12. ASSUME NEW q \in Proc, ReadAwake(q) PROVE TestedHolds'
  BY SMTT(20), ZenonT(20), <1>12 DEF ReadAwake, Awake, Goto
<1>13. ASSUME NEW q \in Proc, ReadStart(q) PROVE TestedHolds'
  BY SMTT(20), ZenonT(20), <1>13 DEF ReadStart, Goto, In
<1>14. ASSUME NEW q \in Proc, ReadByte(q) PROVE TestedHolds'
  BY SMTT(20), ZenonT(20), <1>14 DEF ReadByte, In
<1>15. ASSUME NEW q \in Proc, ReadDone(q) PROVE TestedHolds'
  BY SMTT(20), ZenonT(20), <1>15 DEF ReadDone, Leave, Goto, In, wakeup
<1>16. ASSUME NEW q \in Proc, NEW e \in {"r", "w"}, Close(q, e) PROVE TestedHolds'
  BY SMTT(20), ZenonT(20), <1>16 DEF Close, LastRef, wakeup
<1>17. ASSUME NEW q \in Proc, Kill(q) PROVE TestedHolds'
  BY SMTT(20), ZenonT(20), <1>17 DEF Kill
<1>18. CASE UNCHANGED vars
  BY <1>18 DEF vars
<1> HIDE DEF TypeOK, Inside, TestedHolds, pipe, ends, procs, Full, Empty
<1> QED
  BY ZenonT(30), <1>1, <1>2, <1>3, <1>4, <1>5, <1>6, <1>7, <1>8, <1>9, <1>10, <1>11, <1>12, <1>13, <1>14, <1>15, <1>16, <1>17, <1>18
  DEF Next, WriteStep, ReadStep

(* Whoever makes a sleeper's condition false wakes it before the lock is free. *)
LEMMA WakeupStep ==
  ASSUME TypeOK, EndsAreHeld, Inside, TestedHolds, WakeupIsDue, [Next]_vars
  PROVE  WakeupIsDue'
<1> USE PipeConstants DEF TypeOK, EndsAreHeld, Inside, TestedHolds, WakeupIsDue, pipe, ends, procs, Full, Empty
<1>1. ASSUME NEW q \in Proc, NEW count \in Counts, WriteCall(q, count) PROVE WakeupIsDue'
  BY SMTT(20), ZenonT(20), <1>1 DEF WriteCall, Enter, Goto
<1>2. ASSUME NEW q \in Proc, NEW count \in Counts, ReadCall(q, count) PROVE WakeupIsDue'
  BY SMTT(20), ZenonT(20), <1>2 DEF ReadCall, Enter, Goto
<1>3. ASSUME NEW q \in Proc, NEW v \in Byte, WriteByte(q, v) PROVE WakeupIsDue'
  BY SMTT(20), ZenonT(20), <1>3 DEF WriteByte, In
<1>4. ASSUME NEW q \in Proc, WriteFail(q) PROVE WakeupIsDue'
  BY SMTT(20), ZenonT(20), <1>4 DEF WriteFail, Leave, Goto, In
<1>5. ASSUME NEW q \in Proc, WriteFull(q) PROVE WakeupIsDue'
  BY <1>5 DEF WriteFull, Goto, In, wakeup
<1>6. ASSUME NEW q \in Proc, WriteSleep(q) PROVE WakeupIsDue'
  BY Zenon, <1>6 DEF WriteSleep, Sleep, In
<1>7. ASSUME NEW q \in Proc, WriteAwake(q) PROVE WakeupIsDue'
  BY SMTT(20), ZenonT(20), <1>7 DEF WriteAwake, Awake, Goto
<1>8. ASSUME NEW q \in Proc, WriteDone(q) PROVE WakeupIsDue'
  BY SMTT(20), ZenonT(20), <1>8 DEF WriteDone, Leave, Goto, In, wakeup
<1>9. ASSUME NEW q \in Proc, ReadFail(q) PROVE WakeupIsDue'
  BY SMTT(20), ZenonT(20), <1>9 DEF ReadFail, Leave, Goto, In
<1>10. ASSUME NEW q \in Proc, ReadEmpty(q) PROVE WakeupIsDue'
  BY <1>10 DEF ReadEmpty, Goto, In
<1>11. ASSUME NEW q \in Proc, ReadSleep(q) PROVE WakeupIsDue'
  BY Zenon, <1>11 DEF ReadSleep, Sleep, In
<1>12. ASSUME NEW q \in Proc, ReadAwake(q) PROVE WakeupIsDue'
  BY <1>12 DEF ReadAwake, Awake, Goto
<1>13. ASSUME NEW q \in Proc, ReadStart(q) PROVE WakeupIsDue'
  BY Zenon, <1>13 DEF ReadStart, Goto, In
<1>14. ASSUME NEW q \in Proc, ReadByte(q) PROVE WakeupIsDue'
  BY <1>14 DEF ReadByte, In
<1>15. ASSUME NEW q \in Proc, ReadDone(q) PROVE WakeupIsDue'
  BY ZenonT(40), <1>15 DEF ReadDone, Leave, Goto, In, wakeup
<1>16. ASSUME NEW q \in Proc, NEW e \in {"r", "w"}, Close(q, e) PROVE WakeupIsDue'
  BY SMTT(20), ZenonT(20), <1>16 DEF Close, LastRef, wakeup
<1>17. ASSUME NEW q \in Proc, Kill(q) PROVE WakeupIsDue'
  BY SMTT(20), ZenonT(20), <1>17 DEF Kill
<1>18. CASE UNCHANGED vars
  BY <1>18 DEF vars
<1> HIDE DEF TypeOK, EndsAreHeld, Inside, TestedHolds, WakeupIsDue
<1> QED
  BY ZenonT(30), <1>1, <1>2, <1>3, <1>4, <1>5, <1>6, <1>7, <1>8, <1>9, <1>10, <1>11, <1>12, <1>13, <1>14, <1>15, <1>16, <1>17, <1>18
  DEF Next, WriteStep, ReadStep

LEMMA IInvStep == IInv /\ [Next]_vars => IInv'
BY TypeStep, EndsStep, InsideStep, TestedStep, WakeupStep DEF IInv

LEMMA Invariance == Spec => []IInv
BY InitIInv, IInvStep, PTL DEF Spec

(***************************************************************************)
(* The page of a pipe is freed by the last pipeclose() only, when no       *)
(* process is in piperead() or pipewrite(), sleeps there or has a          *)
(* descriptor with which it could still get in.                            *)
(***************************************************************************)
THEOREM NeverUsedAfterFree == Spec => []NoUseAfterFree
<1>1. ASSUME IInv, freed PROVE lock = NoProc /\ \A q \in Proc : pc[q] = "out" /\ fds[q] = {}
  <2>1. \A q \in Proc : "r" \notin fds[q] /\ "w" \notin fds[q]
    BY Zenon, <1>1 DEF IInv, EndsAreHeld
  <2>2. \A q \in Proc : pc[q] = "out"
    BY Zenon, <1>1, <2>1 DEF IInv, TypeOK, Inside
  <2>3. \A q \in Proc : fds[q] = {}
    BY Zenon, <1>1, <2>1 DEF IInv, TypeOK
  <2>4. lock = NoProc
    BY <1>1, <2>2 DEF IInv, TypeOK, Inside
  <2> QED
    BY <2>2, <2>3, <2>4
<1>2. IInv => NoUseAfterFree
  BY <1>1 DEF NoUseAfterFree
<1> QED
  BY <1>2, Invariance, PTL

(***************************************************************************)
(* When the lock of the pipe is free, a reader asleep faces an empty pipe  *)
(* with an open write end and a writer asleep a full one with an open read *)
(* end, with the exception the code makes for a killed writer.             *)
(***************************************************************************)
THEOREM NoWakeupIsLost == Spec => []NoLostWakeup
<1>1. IInv => NoLostWakeup
  BY Zenon, PipeConstants DEF IInv, WakeupIsDue, NoLostWakeup
<1> QED
  BY <1>1, Invariance, PTL

-----------------------------------------------------------------------------
(* The refinement of Channel. *)

(* c bytes of a buffer d from the place that the counter r stands for. *)
Ring(d, r, c) == [k \in 1..c |-> d[(r + k - 1) % PIPESIZE]]

LEMMA RingIsSeq ==
  ASSUME NEW d \in [0..(PIPESIZE - 1) -> Byte], NEW r \in Nat, NEW c \in Nat
  PROVE  /\ Ring(d, r, c) \in Seq(Byte) /\ Len(Ring(d, r, c)) = c
         /\ \A k \in 1..c : Ring(d, r, c)[k] = d[(r + k - 1) % PIPESIZE]
<1>1. ASSUME NEW k \in 1..c PROVE d[(r + k - 1) % PIPESIZE] \in Byte
  <2>1. r + k - 1 \in Int
    OBVIOUS
  <2>2. (r + k - 1) % PIPESIZE \in 0 .. PIPESIZE - 1
    BY <2>1, DivMod, PipeConstants
  <2> QED
    BY <2>2
<1>2. Ring(d, r, c) \in [1..c -> Byte]
  BY Zenon, <1>1 DEF Ring
<1>3. Ring(d, r, c) \in Seq(Byte)
  BY <1>2
<1>4. Len(Ring(d, r, c)) = c
  BY <1>2
<1>5. \A k \in 1..c : Ring(d, r, c)[k] = d[(r + k - 1) % PIPESIZE]
  BY DEF Ring
<1> QED
  BY <1>3, <1>4, <1>5

(* pipewrite() stores a byte behind the others. *)
LEMMA RingPut ==
  ASSUME NEW d \in [0..(PIPESIZE - 1) -> Byte], NEW r \in 0 .. UintMod - 1,
         NEW c \in 0 .. PIPESIZE, c < PIPESIZE, NEW w, w = (r + c) % UintMod, NEW v \in Byte
  PROVE  Ring([d EXCEPT ![w % PIPESIZE] = v], r, c + 1) = Append(Ring(d, r, c), v)
<1> DEFINE e == [d EXCEPT ![w % PIPESIZE] = v]
           s == Ring(d, r, c)
           t == Ring(e, r, c + 1)
<1>1. e \in [0..(PIPESIZE - 1) -> Byte]
  BY Zenon
<1>2. /\ s \in Seq(Byte) /\ Len(s) = c
      /\ \A k \in 1..c : s[k] = d[(r + k - 1) % PIPESIZE]
  <2>1. c \in Nat /\ r \in Nat
    BY PipeConstants
  <2> QED
    BY Zenon, <2>1, RingIsSeq
<1>3. /\ t \in Seq(Byte) /\ Len(t) = c + 1
      /\ \A k \in 1..(c + 1) : t[k] = e[(r + k - 1) % PIPESIZE]
  <2> HIDE DEF e
  <2>1. c + 1 \in Nat /\ r \in Nat
    BY PipeConstants
  <2> QED
    BY Zenon, <1>1, <2>1, RingIsSeq
<1>4. w % PIPESIZE = (r + c) % PIPESIZE /\ w % PIPESIZE \in 0 .. PIPESIZE - 1
  <2> DEFINE x == r + c
  <2>1. x \in Nat /\ UintMod \in Nat \ {0} /\ PIPESIZE \in Nat \ {0} /\ UintMod % PIPESIZE = 0
    BY PipeConstants
  <2> HIDE DEF x
  <2>2. (x % UintMod) % PIPESIZE = x % PIPESIZE
    BY Zenon, <2>1, ModMod
  <2>3. x % PIPESIZE \in 0 .. PIPESIZE - 1
    BY SMTT(20), ZenonT(20), <2>1, DivMod
  <2> QED
    BY <2>2, <2>3 DEF x
<1>5. ASSUME NEW k \in 1..c PROVE t[k] = s[k]
  <2> DEFINE x == r + k - 1
             y == r + c
  <2>1. x \in Nat /\ y \in Nat /\ x < y /\ y < x + PIPESIZE
    BY PipeConstants
  <2>2. x % PIPESIZE # y % PIPESIZE /\ x % PIPESIZE \in 0 .. PIPESIZE - 1
    <3> HIDE DEF x, y
    <3>1. PIPESIZE \in Nat \ {0}
      BY PipeConstants
    <3>2. x % PIPESIZE # y % PIPESIZE
      BY Zenon, <2>1, <3>1, ModDistinct
    <3>3. x % PIPESIZE \in 0 .. PIPESIZE - 1
      <4>1. x \in Int
        BY <2>1
      <4> QED
        BY Zenon, <3>1, <4>1, ModRange
    <3> QED
      BY <3>2, <3>3
  <2>3. e[x % PIPESIZE] = d[x % PIPESIZE]
    BY <1>4, <2>2
  <2>4. t[k] = e[x % PIPESIZE] /\ s[k] = d[x % PIPESIZE]
    <3>1. k \in 1..(c + 1)
      BY PipeConstants
    <3> HIDE DEF e, s, t
    <3> QED
      BY <1>2, <1>3, <3>1
  <2> QED
    BY <2>3, <2>4
<1>6. t[c + 1] = v
  <2>1. c + 1 \in 1..(c + 1) /\ r + (c + 1) - 1 = r + c
    BY PipeConstants
  <2>2. t[c + 1] = e[(r + c) % PIPESIZE]
    <3> HIDE DEF e, s, t
    <3> QED
      BY <1>3, <2>1
  <2>3. e[w % PIPESIZE] = v
    BY <1>4
  <2> QED
    BY <1>4, <2>2, <2>3
<1> HIDE DEF e, s, t
<1>7. /\ Append(s, v) \in Seq(Byte) /\ Len(Append(s, v)) = c + 1
      /\ \A k \in 1..c : Append(s, v)[k] = s[k]
      /\ Append(s, v)[c + 1] = v
  BY <1>2
<1>8. \A k \in 1..(c + 1) : t[k] = Append(s, v)[k]
  BY <1>5, <1>6, <1>7
<1>9. t = Append(s, v)
  BY <1>3, <1>7, <1>8
<1> QED
  BY Zenon, <1>9 DEF e, s, t

(* piperead() takes the first byte. *)
LEMMA RingGet ==
  ASSUME NEW d \in [0..(PIPESIZE - 1) -> Byte], NEW r \in 0 .. UintMod - 1,
         NEW c \in 0 .. PIPESIZE, c > 0
  PROVE  /\ Ring(d, r, c) # <<>>
         /\ Ring(d, (r + 1) % UintMod, c - 1) = Tail(Ring(d, r, c))
<1> DEFINE r1 == (r + 1) % UintMod
           s == Ring(d, r, c)
           t == Ring(d, r1, c - 1)
<1>1. r1 = IF r + 1 < UintMod THEN r + 1 ELSE r + 1 - UintMod
  <2>1. 1 \in 0 .. PIPESIZE
    BY PipeConstants
  <2> QED
    BY <2>1, CounterSum
<1>2. r \in Nat /\ c \in Nat /\ r1 \in Nat /\ c - 1 \in Nat
  BY <1>1, PipeConstants
<1>3. /\ s \in Seq(Byte) /\ Len(s) = c
      /\ \A k \in 1..c : s[k] = d[(r + k - 1) % PIPESIZE]
  BY Zenon, <1>2, RingIsSeq
<1>4. /\ t \in Seq(Byte) /\ Len(t) = c - 1
      /\ \A k \in 1..(c - 1) : t[k] = d[(r1 + k - 1) % PIPESIZE]
  <2> HIDE DEF r1
  <2> QED
    BY Zenon, <1>2, RingIsSeq
<1>5. s # <<>>
  <2> HIDE DEF s
  <2> QED
    BY <1>3
<1>6. ASSUME NEW k \in 1..(c - 1) PROVE (r1 + k - 1) % PIPESIZE = (r + (k + 1) - 1) % PIPESIZE
  <2>1. CASE r + 1 < UintMod
    <3>1. r1 + k - 1 = r + (k + 1) - 1
      BY <1>1, <2>1, PipeConstants
    <3> QED
      BY <3>1
  <2>2. CASE r + 1 >= UintMod
    <3> DEFINE m == UintMod \div PIPESIZE
               x == k - 1
    <3>1. r1 + k - 1 = x /\ r + (k + 1) - 1 = x + UintMod /\ x \in Int
      BY <1>1, <2>2, PipeConstants
    <3>2. m \in Int /\ UintMod = PIPESIZE * m /\ PIPESIZE \in Nat \ {0}
      BY DivMod, PipeConstants
    <3>3. (x + PIPESIZE * m) % PIPESIZE = x % PIPESIZE
      <4>1. x \in Int
        BY <3>1
      <4> HIDE DEF m, x
      <4> QED
        BY Zenon, <3>2, <4>1, ModShift
    <3> HIDE DEF m, x, r1
    <3> QED
      BY <3>1, <3>2, <3>3
  <2> QED
    BY <2>1, <2>2, <1>2, PipeConstants
<1>7. ASSUME NEW k \in 1..(c - 1) PROVE t[k] = s[k + 1]
  <2>1. k + 1 \in 1..c
    BY <1>2
  <2> HIDE DEF s, t, r1
  <2>2. t[k] = d[(r1 + k - 1) % PIPESIZE]
    BY <1>4
  <2>3. s[k + 1] = d[(r + (k + 1) - 1) % PIPESIZE]
    BY <1>3, <2>1
  <2> QED
    BY <1>6, <2>2, <2>3
<1> HIDE DEF s, t, r1
<1>8. /\ Tail(s) \in Seq(Byte) /\ Len(Tail(s)) = c - 1
      /\ \A k \in 1..(c - 1) : Tail(s)[k] = s[k + 1]
  BY <1>3, <1>5
<1>9. t = Tail(s)
  BY <1>4, <1>7, <1>8
<1> QED
  BY <1>5, <1>9 DEF s, t, r1

(* The initial pipe is the empty queue. *)
LEMMA ChannelInit == Init => Ch!Init
<1> SUFFICES ASSUME Init PROVE Ch!Init
  OBVIOUS
<1>1. Count = 0
  <2>1. 0 \in 0 .. UintMod - 1 /\ 0 \in 0 .. PIPESIZE
    BY PipeConstants
  <2>2. nwrite = (nread + 0) % UintMod /\ nread = 0
    BY <2>1, CounterSum, PipeConstants DEF Init
  <2> QED
    BY <2>1, <2>2, CountTests
<1>2. Buffer = <<>>
  BY <1>1 DEF Buffer
<1> QED
  BY <1>2 DEF Init, Ch!Init

(* A step that moves no byte and closes no end is no step of the queue. *)
LEMMA ChannelStutter ==
  ASSUME UNCHANGED <<pipe, readopen, writeopen>>
  PROVE  UNCHANGED Ch!chvars
BY DEF pipe, Ch!chvars, Buffer, Count

(* The steps of pipewrite(), piperead() and pipeclose() that move a byte or  *)
(* close an end are Put, Get, CloseRead and CloseWrite.                      *)
LEMMA ChannelStep == IInv /\ [Next]_vars => [Ch!Next]_(Ch!chvars)
<1> SUFFICES ASSUME IInv, [Next]_vars PROVE [Ch!Next]_(Ch!chvars)
  OBVIOUS
<1>1. PICK c \in 0 .. PIPESIZE : nwrite = (nread + c) % UintMod
  BY DEF IInv, Bounded
<1>2. nread \in 0 .. UintMod - 1 /\ data \in [0..(PIPESIZE - 1) -> Byte]
  BY DEF IInv, TypeOK
<1>3. (Full <=> c = PIPESIZE) /\ (Empty <=> c = 0) /\ Count = c
  BY <1>1, <1>2, CountTests
<1>4. Buffer = Ring(data, nread, c) /\ Len(Buffer) = c
  <2>1. c \in Nat /\ nread \in Nat
    BY <1>2, PipeConstants
  <2>2. Buffer = Ring(data, nread, c)
    BY <1>3 DEF Buffer, Ring
  <2> QED
    BY <1>2, <2>1, <2>2, RingIsSeq
<1>5. ASSUME NEW q \in Proc, NEW v \in Byte, WriteByte(q, v) PROVE Ch!Put(v)
  <2>1. pc[q] = "write" /\ ~Full /\ data' = [data EXCEPT ![nwrite % PIPESIZE] = v]
        /\ nwrite' = (nwrite + 1) % UintMod /\ nread' = nread /\ UNCHANGED <<readopen, writeopen>>
    BY <1>5 DEF WriteByte, In, ends
  <2>2. writeopen
    BY <2>1 DEF IInv, Inside, EndsAreHeld
  <2>3. c < PIPESIZE
    BY <1>3, <2>1, PipeConstants
  <2>4. nwrite' = (nread' + (c + 1)) % UintMod /\ c + 1 \in 0 .. PIPESIZE
    <3>1. (nwrite + 1) % UintMod = (nread + (c + 1)) % UintMod
      BY <1>1, <1>2, <2>3, CountSteps
    <3>2. c + 1 \in 0 .. PIPESIZE
      BY <2>3, PipeConstants
    <3> QED
      BY SMTT(20), ZenonT(20), <2>1, <3>1, <3>2
  <2>5. Count' = c + 1
    <3> DEFINE d == c + 1
    <3> HIDE DEF d
    <3>1. d \in 0 .. PIPESIZE /\ nwrite' = (nread' + d) % UintMod /\ nread' \in 0 .. UintMod - 1
      BY <1>2, <2>1, <2>4 DEF d
    <3>2. (nwrite' - nread') % UintMod = d
      BY <3>1, Distance
    <3> QED
      BY <3>2 DEF Count, d
  <2>6. Buffer' = Ring(data', nread, c + 1)
    BY <2>1, <2>5 DEF Buffer, Ring
  <2>7. Buffer' = Append(Buffer, v)
    BY ZenonT(40), <1>1, <1>2, <1>4, <2>1, <2>3, <2>6, RingPut
  <2> QED
    BY SMTT(20), ZenonT(20), <1>4, <2>1, <2>2, <2>3, <2>7 DEF Ch!Put
<1>6. ASSUME NEW q \in Proc, ReadByte(q) PROVE Ch!Get
  <2>1. pc[q] = "copy" /\ ~Empty /\ data' = data /\ nwrite' = nwrite
        /\ nread' = (nread + 1) % UintMod /\ UNCHANGED <<readopen, writeopen>>
    BY SMTT(20), ZenonT(20), <1>6 DEF ReadByte, In, ends
  <2>2. readopen
    BY <2>1 DEF IInv, Inside, EndsAreHeld
  <2>3. c > 0
    BY <1>3, <2>1
  <2>4. nwrite' = (nread' + (c - 1)) % UintMod /\ nread' \in 0 .. UintMod - 1
        /\ c - 1 \in 0 .. PIPESIZE
    <3>1. /\ nwrite = (((nread + 1) % UintMod) + (c - 1)) % UintMod
          /\ (nread + 1) % UintMod \in 0 .. UintMod - 1
      BY <1>1, <1>2, <2>3, CountSteps
    <3>2. c - 1 \in 0 .. PIPESIZE
      BY <2>3, PipeConstants
    <3> QED
      BY <2>1, <3>1, <3>2
  <2>5. Count' = c - 1
    <3> DEFINE d == c - 1
    <3> HIDE DEF d
    <3>1. d \in 0 .. PIPESIZE /\ nwrite' = (nread' + d) % UintMod /\ nread' \in 0 .. UintMod - 1
      BY <2>4 DEF d
    <3>2. (nwrite' - nread') % UintMod = d
      BY <3>1, Distance
    <3> QED
      BY <3>2 DEF Count, d
  <2>6. Buffer' = Ring(data, (nread + 1) % UintMod, c - 1)
    BY <2>1, <2>5 DEF Buffer, Ring
  <2>7. Buffer # <<>> /\ Buffer' = Tail(Buffer)
    BY <1>2, <1>4, <2>3, <2>6, RingGet
  <2> QED
    BY <2>1, <2>2, <2>7 DEF Ch!Get
<1>7. ASSUME NEW q \in Proc, NEW e \in {"r", "w"}, Close(q, e)
      PROVE  Ch!CloseRead \/ Ch!CloseWrite \/ UNCHANGED Ch!chvars
  <2>1. UNCHANGED pipe /\ e \in fds[q]
    BY <1>7 DEF Close
  <2>2. Buffer' = Buffer
    BY <2>1 DEF pipe, Buffer, Count
  <2>3. (e = "r" => readopen) /\ (e = "w" => writeopen)
    BY SMTT(20), ZenonT(20), <2>1 DEF IInv, EndsAreHeld
  <2>4. CASE LastRef(q, e) /\ e = "w"
    BY SMTT(20), ZenonT(20), <1>7, <2>2, <2>3, <2>4 DEF Close, Ch!CloseWrite
  <2>5. CASE LastRef(q, e) /\ e = "r"
    BY SMTT(20), ZenonT(20), <1>7, <2>2, <2>3, <2>5 DEF Close, Ch!CloseRead
  <2>6. CASE ~LastRef(q, e)
    BY <1>7, <2>1, <2>6, ChannelStutter DEF Close
  <2> QED
    BY SMTT(20), ZenonT(20), <2>4, <2>5, <2>6
<1>8. ASSUME NEW q \in Proc,
             \/ \E count \in Counts : WriteCall(q, count) \/ ReadCall(q, count)
             \/ WriteFail(q) \/ WriteFull(q) \/ WriteSleep(q) \/ WriteAwake(q) \/ WriteDone(q)
             \/ ReadFail(q) \/ ReadEmpty(q) \/ ReadSleep(q) \/ ReadAwake(q) \/ ReadStart(q)
             \/ ReadDone(q) \/ Kill(q)
      PROVE  UNCHANGED Ch!chvars
  <2>1. UNCHANGED <<pipe, readopen, writeopen>>
    BY Zenon, <1>8 DEF ends, WriteCall, ReadCall, Enter, WriteFail, WriteFull, WriteSleep, WriteAwake,
      WriteDone, ReadFail, ReadEmpty, ReadSleep, ReadAwake, ReadStart, ReadDone, Leave, Sleep,
      Awake, Kill
  <2> QED
    BY SMTT(20), ZenonT(20), <2>1, ChannelStutter
<1>9. CASE UNCHANGED vars
  BY <1>9, ChannelStutter DEF vars, ends
<1> QED
  BY <1>5, <1>6, <1>7, <1>8, <1>9 DEF Next, WriteStep, ReadStep, Ch!Next

(***************************************************************************)
(* pipe.c implements the bounded queue: what is read is what was written,  *)
(* in that order, whoever reads, writes, closes or is killed, and for      *)
(* counters that wrap.                                                     *)
(***************************************************************************)
THEOREM PipeIsChannel == Spec => IsChannel
BY ChannelInit, ChannelStep, Invariance, PTL DEF Spec, IsChannel, Ch!Spec

=============================================================================
