---------------------------- MODULE MemoryProofs ----------------------------
(***************************************************************************)
(* No page of memory is lost or shared by fork, exec, sbrk, exit and wait, *)
(* on any of their error paths, and a process that runs has its image      *)
(* whole.                                                                  *)
(***************************************************************************)
EXTENDS Memory, TLAPS

PageOrNone == Page \cup {0}
Space == [dir : PageOrNone, tab : [Table -> PageOrNone], pg : [User -> PageOrNone]]
Job == [op : {"none", "fork", "exec", "stack", "grow"}, child : Proc \cup {0},
        a : 0..MaxPages, goal : 0..MaxPages, mem : PageOrNone]

MemType ==
  /\ freelist \subseteq Page
  /\ state \in [Proc -> {"UNUSED", "EMBRYO", "LIVE", "ZOMBIE"}]
  /\ kstack \in [Proc -> PageOrNone] /\ sz \in [Proc -> 0..MaxPages]
  /\ own \in [Proc -> Space] /\ new \in [Proc -> Space]
  /\ job \in [Proc -> Job]

(* The pages of the space s are mapped below n and nowhere else. *)
MappedBelow(s, n) == \A b \in User : s.pg[b] # 0 <=> b < n

(* A slot without a process has no memory; a call without a fork or an exec builds nothing. *)
Slot(p) ==
  /\ state[p] \in {"UNUSED", "EMBRYO"} => own[p] = NoSpace
  /\ state[p] = "UNUSED" => kstack[p] = 0
  /\ job[p].op = "none" => job[p] = NoJob
  /\ job[p].op \in {"none", "grow"} => new[p] = NoSpace
  /\ job[p].op # "none" => state[p] = "LIVE"

(* How far the call of p is. *)
Progress(p) ==
  /\ job[p].a <= job[p].goal
  /\ job[p].mem # 0 => job[p].a < job[p].goal
  /\ job[p].op = "fork" => job[p].goal = sz[p]
  /\ job[p].op \in {"fork", "exec", "stack"} => MappedBelow(new[p], job[p].a)
  /\ job[p].op = "grow" => MappedBelow(own[p], job[p].a) /\ sz[p] <= job[p].a
  /\ state[p] = "LIVE" /\ job[p].op # "grow" => MappedBelow(own[p], sz[p]) \/ MappedBelow(own[p], 0)

(* The child of a fork is a slot of its own until the fork returns. *)
Children ==
  /\ \A p \in Proc : job[p].op = "fork" => job[p].child \in Proc /\ state[job[p].child] = "EMBRYO"
  /\ \A p, q \in Proc : job[p].op = "fork" /\ job[q].op = "fork" /\ job[p].child = job[q].child => p = q

MemShape == MemType /\ Children /\ \A p \in Proc : Slot(p) /\ Progress(p)

LEMMA NothingBuilt ==
  /\ NoSpace \in Space /\ NoSpace.dir = 0
  /\ \A t \in Table : NoSpace.tab[t] = 0
  /\ \A b \in User : NoSpace.pg[b] = 0
  /\ MappedBelow(NoSpace, 0)
  /\ NoJob \in Job /\ NoJob.op = "none" /\ NoJob.mem = 0
  /\ NoJob.a = 0 /\ NoJob.goal = 0
BY MemoryConstants DEF NoSpace, NoJob, Call, None, MappedBelow, Space, Job, PageOrNone, Table, User

LEMMA MemInit == Init => MemShape
<1> SUFFICES ASSUME Init PROVE MemShape
  OBVIOUS
<1> USE MemoryConstants, NothingBuilt
<1>1. FirstSpace \in Space /\ MappedBelow(FirstSpace, 1)
  BY DEF FirstSpace, Space, PageOrNone, Page, Table, User, Kernel, NoSpace, None, MappedBelow
<1>2. MemType
  BY <1>1 DEF Init, MemType, PageOrNone, Page, None
<1>3. Children
  BY Zenon DEF Init, Children
<1>4. ASSUME NEW p \in Proc PROVE Slot(p) /\ Progress(p)
  BY <1>1 DEF Init, Slot, Progress, None
<1> QED
  BY <1>2, <1>3, <1>4 DEF MemShape

Same(p) == /\ state'[p] = state[p] /\ kstack'[p] = kstack[p] /\ sz'[p] = sz[p]
           /\ own'[p] = own[p] /\ new'[p] = new[p] /\ job'[p] = job[p]

LEMMA Frame ==
  ASSUME NEW p \in Proc, Slot(p), Progress(p), Same(p)
  PROVE  Slot(p)' /\ Progress(p)'
BY DEF Same, Slot, Progress, MappedBelow

LEMMA DirUpdate ==
  ASSUME NEW s \in Space, NEW x \in PageOrNone
  PROVE  [s EXCEPT !.dir = x] \in Space /\ [s EXCEPT !.dir = x].pg = s.pg
BY DEF Space

LEMMA TabUpdate ==
  ASSUME NEW s \in Space, NEW x \in PageOrNone, NEW t \in Table
  PROVE  [s EXCEPT !.tab[t] = x] \in Space /\ [s EXCEPT !.tab[t] = x].pg = s.pg
BY DEF Space

LEMMA PgUpdate ==
  ASSUME NEW s \in Space, NEW x \in PageOrNone, NEW b \in User
  PROVE  [s EXCEPT !.pg[b] = x] \in Space /\ [s EXCEPT !.pg[b] = x].pg = [s.pg EXCEPT ![b] = x]
BY DEF Space

LEMMA MemUpdate ==
  ASSUME NEW j \in Job, NEW x \in PageOrNone
  PROVE  /\ [j EXCEPT !.mem = x] \in Job
         /\ [j EXCEPT !.mem = x].op = j.op /\ [j EXCEPT !.mem = x].child = j.child /\ [j EXCEPT !.mem = x].a = j.a
         /\ [j EXCEPT !.mem = x].goal = j.goal /\ [j EXCEPT !.mem = x].mem = x
BY DEF Job

LEMMA NextPage ==
  ASSUME NEW j \in Job, NEW n \in 0..MaxPages
  PROVE  /\ [j EXCEPT !.mem = 0, !.a = n] \in Job
         /\ [j EXCEPT !.mem = 0, !.a = n].op = j.op /\ [j EXCEPT !.mem = 0, !.a = n].child = j.child
         /\ [j EXCEPT !.mem = 0, !.a = n].a = n /\ [j EXCEPT !.mem = 0, !.a = n].goal = j.goal
         /\ [j EXCEPT !.mem = 0, !.a = n].mem = 0
BY Zenon DEF Job, PageOrNone

LEMMA FreedArePages ==
  ASSUME NEW s \in Space, NEW n
  PROVE  UserPages(s, n) \subseteq PageOrNone /\ PagesOf(s) \subseteq PageOrNone
BY DEF Space, UserPages, PagesOf

LEMMA FreeListGrows ==
  ASSUME freelist \subseteq Page, NEW S, S \subseteq PageOrNone, kfree(S)
  PROVE  freelist' \subseteq Page
BY DEF kfree, PageOrNone, None

LEMMA MemStep == MemShape /\ [Next]_vars => MemShape'
<1> SUFFICES ASSUME MemShape, [Next]_vars
             PROVE  MemShape'
  OBVIOUS
<1>max. MaxPages \in Nat \ {0}
  BY MemoryConstants
<1> USE DEF None
<1>k. \A x \in Page : x \in PageOrNone /\ x # 0
  BY DEF PageOrNone, Page
<1>type. MemType
  BY DEF MemShape
<1>chld. Children
  BY DEF MemShape
<1>slot. \A q \in Proc : Slot(q)
  BY DEF MemShape
<1>prog. \A q \in Proc : Progress(q)
  BY DEF MemShape
<1>q. ASSUME MemType', Children', \A q \in Proc : Same(q) \/ (Slot(q)' /\ Progress(q)')
      PROVE  MemShape'
  BY Zenon, <1>slot, <1>prog, <1>q, Frame DEF MemShape
<1>r. /\ \A q \in Proc : own[q] \in Space /\ new[q] \in Space /\ job[q] \in Job /\ sz[q] \in 0..MaxPages
      /\ \A q \in Proc : /\ job[q].op \in {"none", "fork", "exec", "stack", "grow"}
                         /\ job[q].a \in 0..MaxPages /\ job[q].goal \in 0..MaxPages /\ job[q].mem \in PageOrNone
  BY <1>type DEF MemType, Job
<1>1. ASSUME NEW p \in Proc, NEW c \in Proc, fork(p, c) PROVE MemShape'
  <2>i. Slot(p) /\ Progress(p)
    BY <1>slot, <1>prog
  <2>c. Slot(c) /\ Progress(c)
    BY <1>slot, <1>prog
  <2> DEFINE j == Call("fork", c, 0, sz[p])
  <2>1. PICK x \in Page :
          /\ freelist' = freelist \ {x} /\ kstack' = [kstack EXCEPT ![c] = x]
          /\ state' = [state EXCEPT ![c] = "EMBRYO"]
          /\ job' = [job EXCEPT ![p] = Call("fork", c, 0, sz[p])]
    BY Zenon, <1>1 DEF fork, kalloc
  <2>2. /\ UNCHANGED <<sz, own, new>> /\ state[p] = "LIVE" /\ job[p] = NoJob
        /\ state[c] = "UNUSED" /\ own[p].pg[0] # 0
    BY <1>1 DEF fork, Running
  <2>a. j \in Job /\ j.op = "fork" /\ j.child = c /\ j.a = 0 /\ j.goal = sz[p] /\ j.mem = 0
    BY <1>max, <1>r DEF Call, Job, PageOrNone
  <2>3. job' = [job EXCEPT ![p] = j] /\ job[p].op = "none"
    BY <2>1, <2>2, NothingBuilt
  <2> HIDE DEF j
  <2>4. MemType'
    <3>2. x \in PageOrNone /\ freelist' \subseteq Page
      BY <1>k, <1>type, <2>1 DEF MemType
    <3> QED
      BY <1>type, <2>a, <2>1, <2>2, <2>3, <3>2 DEF MemType
  <2>5. Children'
    BY <1>type, <1>chld, <2>a, <2>1, <2>2, <2>3 DEF Children, MemType
  <2>6. ASSUME NEW q \in Proc, q # p, q # c PROVE Same(q)
    BY <1>type, <2>1, <2>2, <2>3, <2>6 DEF Same, MemType
  <2>7. /\ state'[p] = "LIVE" /\ job'[p] = j /\ own'[p] = own[p] /\ new'[p] = new[p] /\ sz'[p] = sz[p]
        /\ new[p] = NoSpace /\ p # c /\ state'[c] = "EMBRYO" /\ job'[c] = job[c] /\ sz'[c] = sz[c]
        /\ own'[c] = own[c] /\ new'[c] = new[c]
    BY <1>type, <2>i, <2>1, <2>2, <2>3 DEF MemType, Slot
  <2>8. Slot(p)' /\ Progress(p)'
    BY <1>r, <2>i, <2>a, <2>2, <2>3, <2>7, NothingBuilt DEF Slot, Progress
  <2>9. Slot(c)' /\ Progress(c)'
    BY <2>c, <2>2, <2>7 DEF Slot, Progress
  <2> QED
    BY Zenon, <1>q, <2>4, <2>5, <2>6, <2>8, <2>9
<1>2. ASSUME NEW p \in Proc, NEW n \in Images, exec(p, n) PROVE MemShape'
  <2>i. Slot(p) /\ Progress(p)
    BY <1>slot, <1>prog
  <2> DEFINE j == Call("exec", 0, 0, n)
  <2>n. n \in 0..MaxPages
    BY MemoryConstants
  <2>1. /\ UNCHANGED <<freelist, state, kstack, sz, own, new>> /\ state[p] = "LIVE" /\ job[p] = NoJob
        /\ job' = [job EXCEPT ![p] = Call("exec", 0, 0, n)]
    BY <1>2 DEF exec, Running
  <2>a. j \in Job /\ j.op = "exec" /\ j.a = 0 /\ j.goal = n /\ j.mem = 0
    BY <1>max, <2>n DEF Call, Job, PageOrNone
  <2>2. job' = [job EXCEPT ![p] = j] /\ job[p].op = "none"
    BY <2>1, NothingBuilt
  <2> HIDE DEF j
  <2>3. MemType'
    BY <1>type, <2>a, <2>1, <2>2 DEF MemType
  <2>4. Children'
    BY <1>type, <1>chld, <2>a, <2>1, <2>2 DEF Children, MemType
  <2>5. ASSUME NEW q \in Proc, q # p PROVE Same(q)
    BY <1>type, <2>1, <2>2, <2>5 DEF Same, MemType
  <2>6. new[p] = NoSpace /\ job'[p] = j
    BY <1>type, <2>i, <2>2 DEF MemType, Slot
  <2>7. Slot(p)' /\ Progress(p)'
    BY <2>n, <2>i, <2>a, <2>1, <2>2, <2>6, NothingBuilt DEF Slot, Progress
  <2> QED
    BY Zenon, <1>q, <2>3, <2>4, <2>5, <2>7
<1>3. ASSUME NEW p \in Proc, NEW n \in Growths, growproc(p, n) PROVE MemShape'
  <2>i. Slot(p) /\ Progress(p)
    BY <1>slot, <1>prog
  <2>0. ASSUME Running(p)
        PROVE  /\ state[p] = "LIVE" /\ job[p] = NoJob /\ job[p].op = "none"
               /\ own[p].pg[0] # 0 /\ 0 \in User /\ MappedBelow(own[p], sz[p])
    <3>1. state[p] = "LIVE" /\ job[p].op = "none" /\ own[p].pg[0] # 0 /\ job[p] = NoJob
      BY <2>0, NothingBuilt DEF Running
    <3>2. 0 \in User /\ ~ MappedBelow(own[p], 0)
      BY <1>max, <3>1 DEF User, MappedBelow
    <3> QED
      BY <2>i, <3>1, <3>2 DEF Progress
  <2>1. CASE /\ Running(p) /\ n > sz[p]
             /\ job' = [job EXCEPT ![p] = Call("grow", 0, sz[p], n)]
             /\ UNCHANGED <<freelist, state, kstack, sz, own, new>>
    <3> DEFINE j == Call("grow", 0, sz[p], n)
    <3>2. sz[p] \in 0..MaxPages /\ n \in 0..MaxPages
      BY <1>r, MemoryConstants
    <3>a. j \in Job /\ j.op = "grow" /\ j.a = sz[p] /\ j.goal = n /\ j.mem = 0
      BY <1>max, <3>2 DEF Call, Job, PageOrNone
    <3>1. job' = [job EXCEPT ![p] = j]
      BY <2>1
    <3> HIDE DEF j
    <3>3. MemType'
      BY <1>type, <2>1, <3>a, <3>1, <3>2 DEF MemType
    <3>4. Children'
      BY <1>type, <1>chld, <2>0, <2>1, <3>a, <3>1 DEF Children, MemType
    <3>5. ASSUME NEW q \in Proc, q # p PROVE Same(q)
      BY <1>type, <2>1, <3>1, <3>5 DEF Same, MemType
    <3>6. new[p] = NoSpace /\ job'[p] = j
      BY <1>type, <2>i, <2>0, <2>1, <3>1 DEF MemType, Slot
    <3>7. Slot(p)' /\ Progress(p)'
      BY <2>0, <2>1, <3>a, <3>2, <3>6 DEF Slot, Progress
    <3> QED
      BY Zenon, <1>q, <3>3, <3>4, <3>5, <3>7
  <2>2. CASE /\ Running(p) /\ n < sz[p]
             /\ kfree(UserPages(own[p], n))
             /\ own' = [own EXCEPT ![p].pg = [a \in User |-> IF a >= n THEN None ELSE @[a]]]
             /\ sz' = IF n = 0 THEN sz ELSE [sz EXCEPT ![p] = n]
             /\ UNCHANGED <<state, kstack, new, job>>
    <3>8. sz[p] \in Nat /\ n \in Nat /\ n \in 0..MaxPages
      BY <1>r, MemoryConstants
    <3> DEFINE f == [a \in User |-> IF a >= n THEN 0 ELSE own[p].pg[a]]
    <3>1. own' = [own EXCEPT ![p] = [own[p] EXCEPT !.pg = f]]
      BY <1>type, <2>2 DEF MemType
    <3>2. own[p] \in Space /\ f \in [User -> PageOrNone]
      BY <1>type DEF MemType, Space, PageOrNone
    <3>3. freelist' \subseteq Page
      BY <1>type, <2>2, <3>2 DEF MemType, kfree, UserPages, Space, PageOrNone
    <3>a. [own[p] EXCEPT !.pg = f] \in Space /\ [own[p] EXCEPT !.pg = f].pg = f
      BY <3>2 DEF Space
    <3>4. MemType'
      BY <1>type, <2>2, <3>1, <3>a, <3>3, <3>8 DEF MemType
    <3>5. Children'
      BY <1>chld, <2>2 DEF Children
    <3>6. ASSUME NEW q \in Proc, q # p PROVE Same(q)
      BY <1>type, <2>2, <3>1, <3>6 DEF Same, MemType
    <3>7. own'[p].pg = f /\ (sz'[p] = n \/ n = 0)
      BY <1>type, <2>2, <3>1, <3>a DEF MemType
    <3>9. MappedBelow(own'[p], n)
      BY <1>max, <2>0, <2>2, <3>7, <3>8 DEF MappedBelow, User
    <3>10. Slot(p)' /\ Progress(p)'
      BY <2>i, <2>0, <2>2, <3>7, <3>9, NothingBuilt DEF Slot, Progress
    <3> QED
      BY Zenon, <1>q, <3>4, <3>5, <3>6, <3>10
  <2> QED
    BY <1>3, <2>1, <2>2 DEF growproc
<1>4. ASSUME NEW p \in Proc, NEW x \in Page, NEW s \in Space,
             job[p].op \in {"fork", "exec", "stack"}, s.pg = new[p].pg,
             freelist' = freelist \ {x}, new' = [new EXCEPT ![p] = s],
             UNCHANGED <<state, kstack, sz, own, job>>
      PROVE  MemShape'
  <2>i. Slot(p) /\ Progress(p)
    BY <1>slot, <1>prog
  <2>1. MemType'
    BY <1>type, <1>4 DEF MemType
  <2>2. Children'
    BY <1>chld, <1>4 DEF Children
  <2>3. ASSUME NEW q \in Proc, q # p PROVE Same(q)
    BY <1>type, <1>4, <2>3 DEF Same, MemType
  <2>4. new'[p] = s
    BY <1>type, <1>4 DEF MemType
  <2>5. Slot(p)' /\ Progress(p)'
    BY <2>i, <1>4, <2>4 DEF Slot, Progress, MappedBelow
  <2> QED
    BY Zenon, <1>q, <2>1, <2>2, <2>3, <2>5
<1>5. ASSUME NEW p \in Proc, SetupDir(p) \/ SetupKernel(p) PROVE MemShape'
  <2>i. Slot(p) /\ Progress(p)
    BY <1>slot, <1>prog
  <2>1. PICK x \in Page, s \in Space :
          /\ job[p].op \in {"fork", "exec", "stack"} /\ s.pg = new[p].pg
          /\ freelist' = freelist \ {x} /\ new' = [new EXCEPT ![p] = s]
          /\ UNCHANGED <<state, kstack, sz, own, job>>
    <3>1. CASE SetupDir(p)
      <4>1. PICK x \in Page : freelist' = freelist \ {x} /\ new' = [new EXCEPT ![p].dir = x]
        BY Zenon, <3>1 DEF SetupDir, kalloc
      <4>2. [new[p] EXCEPT !.dir = x] \in Space /\ [new[p] EXCEPT !.dir = x].pg = new[p].pg
        BY <1>k, <1>r, DirUpdate
      <4>3. new' = [new EXCEPT ![p] = [new[p] EXCEPT !.dir = x]]
        BY <1>type, <4>1 DEF MemType
      <4> QED
        BY Zenon, <3>1, <4>1, <4>2, <4>3 DEF SetupDir
    <3>2. CASE SetupKernel(p)
      <4>1. PICK x \in Page : freelist' = freelist \ {x} /\ new' = [new EXCEPT ![p].tab[Kernel] = x]
        BY Zenon, <3>2 DEF SetupKernel, kalloc
      <4>2. Kernel \in Table
        BY <1>max DEF Kernel, Table
      <4>3. [new[p] EXCEPT !.tab[Kernel] = x] \in Space /\ [new[p] EXCEPT !.tab[Kernel] = x].pg = new[p].pg
        BY Zenon, <1>k, <1>r, <4>2, TabUpdate
      <4>4. new' = [new EXCEPT ![p] = [new[p] EXCEPT !.tab[Kernel] = x]]
        BY <1>type, <4>1 DEF MemType
      <4> QED
        BY Zenon, <3>2, <4>1, <4>3, <4>4 DEF SetupKernel
    <3> QED
      BY <1>5, <3>1, <3>2
  <2> QED
    BY Zenon, <1>4, <2>1
<1>6. ASSUME NEW p \in Proc, GetPage(p) PROVE MemShape'
  <2>i. Slot(p) /\ Progress(p)
    BY <1>slot, <1>prog
  <2>1. PICK x \in Page : freelist' = freelist \ {x} /\ job' = [job EXCEPT ![p].mem = x]
    BY Zenon, <1>6 DEF GetPage, kalloc
  <2> DEFINE j == [job[p] EXCEPT !.mem = x]
  <2>2. /\ UNCHANGED <<state, kstack, sz, own, new>> /\ job[p].op # "none" /\ job[p].a < job[p].goal
    BY <1>6 DEF GetPage, Building
  <2>3. /\ j \in Job /\ j.op = job[p].op /\ j.child = job[p].child /\ j.a = job[p].a
        /\ j.goal = job[p].goal /\ j.mem = x
    BY <1>k, <1>r, MemUpdate
  <2>4. job' = [job EXCEPT ![p] = j]
    BY <1>type, <2>1 DEF MemType
  <2> HIDE DEF j
  <2>5. job'[p] = j /\ \A q \in Proc : q # p => job'[q] = job[q]
    BY <1>type, <2>4 DEF MemType
  <2>6. MemType'
    BY <1>type, <2>1, <2>2, <2>3, <2>4 DEF MemType
  <2>7. Children'
    BY <1>chld, <2>2, <2>3, <2>5 DEF Children
  <2>8. ASSUME NEW q \in Proc, q # p PROVE Same(q)
    BY <2>2, <2>5, <2>8 DEF Same
  <2>9. Slot(p)' /\ Progress(p)'
    BY <2>i, <2>2, <2>3, <2>5 DEF Slot, Progress
  <2> QED
    BY Zenon, <1>q, <2>6, <2>7, <2>8, <2>9
<1>7. ASSUME NEW p \in Proc, NEW x \in Page \cup {0}, NEW s \in Space,
             job[p].op = "grow", s.pg = own[p].pg,
             freelist' = freelist \ {x}, own' = [own EXCEPT ![p] = s],
             UNCHANGED <<state, kstack, sz, new, job>>
      PROVE  MemShape'
  <2>i. Slot(p) /\ Progress(p)
    BY <1>slot, <1>prog
  <2>1. MemType'
    BY <1>type, <1>7 DEF MemType
  <2>2. Children'
    BY <1>chld, <1>7 DEF Children
  <2>3. ASSUME NEW q \in Proc, q # p PROVE Same(q)
    BY <1>type, <1>7, <2>3 DEF Same, MemType
  <2>4. own'[p] = s
    BY <1>type, <1>7 DEF MemType
  <2>5. Slot(p)' /\ Progress(p)'
    BY <2>i, <1>7, <2>4 DEF Slot, Progress, MappedBelow
  <2> QED
    BY Zenon, <1>q, <2>1, <2>2, <2>3, <2>5
<1>8. ASSUME NEW p \in Proc, GetTable(p) PROVE MemShape'
  <2>i. Slot(p) /\ Progress(p)
    BY <1>slot, <1>prog
  <2> DEFINE t == job[p].a \div SPAN
             s(x) == [Target(p) EXCEPT !.tab[t] = x]
  <2>1. PICK x \in Page : freelist' = freelist \ {x} /\ SetTarget(p, s(x))
    BY <1>8 DEF GetTable, kalloc
  <2>2. /\ UNCHANGED <<state, kstack, sz, job>> /\ job[p].op # "none" /\ job[p].a < job[p].goal
    BY <1>8 DEF GetTable, Building
  <2>3. t \in Table
    <3>1. job[p].a \in 0..MaxPages /\ SPAN \in Nat \ {0}
      BY <1>r, MemoryConstants
    <3>2. job[p].a \div SPAN \in 0..MaxPages
      BY <1>max, <3>1
    <3> QED
      BY <3>2 DEF Table
  <2>4. Target(p) \in Space
    BY <1>r DEF Target
  <2>5. s(x) \in Space /\ s(x).pg = Target(p).pg
    <3> HIDE DEF t
    <3> QED
      BY <1>k, <2>3, <2>4, TabUpdate
  <2> HIDE DEF s
  <2>6. CASE job[p].op = "grow"
    BY <1>7, <2>1, <2>2, <2>5, <2>6 DEF Target, SetTarget
  <2>7. CASE job[p].op # "grow"
    <3>1. job[p].op \in {"fork", "exec", "stack"}
      BY <1>r, <2>2, <2>7
    <3> QED
      BY <1>4, <2>1, <2>2, <2>5, <2>7, <3>1 DEF Target, SetTarget
  <2> QED
    BY <2>6, <2>7
<1>9. ASSUME NEW p \in Proc, MapPage(p) PROVE MemShape'
  <2>i. Slot(p) /\ Progress(p)
    BY <1>slot, <1>prog
  <2> DEFINE a == job[p].a
             s == [Target(p) EXCEPT !.pg[a] = job[p].mem]
             j == [job[p] EXCEPT !.mem = 0, !.a = a + 1]
  <2>1. /\ job[p].op # "none" /\ a < job[p].goal /\ job[p].mem # 0 /\ SetTarget(p, s)
        /\ job' = [job EXCEPT ![p].mem = 0, ![p].a = a + 1]
        /\ UNCHANGED <<freelist, state, kstack, sz>>
    BY <1>9 DEF MapPage, Building
  <2>2. a \in User /\ a + 1 \in 0..MaxPages /\ a \in Nat
    BY <1>max, <1>r, <2>1 DEF User
  <2>3. job' = [job EXCEPT ![p] = j]
    BY Zenon, <1>type, <2>1 DEF MemType
  <2>4. Target(p) \in Space
    BY <1>r DEF Target
  <2> HIDE DEF a
  <2>5. s \in Space /\ s.pg = [Target(p).pg EXCEPT ![a] = job[p].mem]
    BY Zenon, <1>r, <2>2, <2>4, PgUpdate
  <2>6. /\ j \in Job /\ j.op = job[p].op /\ j.child = job[p].child
        /\ j.a = a + 1 /\ j.goal = job[p].goal /\ j.mem = 0
    BY ZenonT(40), <1>r, <2>2, NextPage
  <2>7. ASSUME MappedBelow(Target(p), a) PROVE MappedBelow(s, a + 1)
    <3>1. Target(p).pg \in [User -> PageOrNone]
      BY <2>4 DEF Space
    <3> HIDE DEF s, j
    <3> QED
      BY <1>max, <2>1, <2>2, <2>5, <2>7, <3>1 DEF MappedBelow, User
  <2> HIDE DEF s, j
  <2>x. s \in Space /\ j \in Job
    BY <2>5, <2>6
  <2>8. Children'
    BY <1>type, <1>chld, <2>1, <2>3, <2>6 DEF Children, MemType
  <2>9. job'[p] = j /\ \A q \in Proc : q # p => job'[q] = job[q]
    BY <1>type, <2>3 DEF MemType
  <2>10. CASE job[p].op = "grow"
    <3>1. own' = [own EXCEPT ![p] = s] /\ new' = new /\ Target(p) = own[p]
      BY <2>1, <2>10 DEF SetTarget, Target
    <3>2. MemType'
      BY ZenonT(40), <1>type, <2>1, <2>3, <2>x, <3>1 DEF MemType
    <3>3. own'[p] = s /\ MappedBelow(s, a + 1)
      BY <1>type, <2>i, <2>7, <2>10, <3>1 DEF MemType, Progress, a
    <3>4. ASSUME NEW q \in Proc, q # p PROVE Same(q)
      BY <1>type, <2>1, <2>9, <3>1, <3>4 DEF Same, MemType
    <3>5. sz[p] \in Nat /\ sz[p] <= a /\ job[p].goal \in Nat
      BY <2>i, <1>r, <2>10 DEF Progress, a
    <3>6. Slot(p)' /\ Progress(p)'
      BY <2>i, <2>1, <2>2, <2>6, <2>9, <2>10, <3>1, <3>3, <3>5 DEF Slot, Progress
    <3> QED
      BY Zenon, <1>q, <2>8, <3>2, <3>4, <3>6
  <2>11. CASE job[p].op # "grow"
    <3>1. new' = [new EXCEPT ![p] = s] /\ own' = own /\ Target(p) = new[p]
      BY <2>1, <2>11 DEF SetTarget, Target
    <3>2. MemType'
      BY ZenonT(40), <1>type, <2>1, <2>3, <2>x, <3>1 DEF MemType
    <3>a. job[p].op \in {"fork", "exec", "stack"}
      BY <1>r, <2>1, <2>11
    <3>3. new'[p] = s /\ MappedBelow(s, a + 1)
      BY <1>type, <2>i, <2>7, <3>a, <3>1 DEF MemType, Progress, a
    <3>4. ASSUME NEW q \in Proc, q # p PROVE Same(q)
      BY <1>type, <2>1, <2>9, <3>1, <3>4 DEF Same, MemType
    <3>5. job[p].goal \in Nat
      BY <1>r
    <3>6. Slot(p)' /\ Progress(p)'
      BY <2>i, <2>1, <2>2, <2>6, <2>9, <3>a, <3>1, <3>3, <3>5 DEF Slot, Progress
    <3> QED
      BY Zenon, <1>q, <2>8, <3>2, <3>4, <3>6
  <2> QED
    BY <2>10, <2>11
<1>10. ASSUME NEW p \in Proc, ForkDone(p) PROVE MemShape'
  <2>i. Slot(p) /\ Progress(p)
    BY <1>slot, <1>prog
  <2>0. PICK c \in Proc : c = job[p].child
    BY <1>chld, <1>10 DEF Children, ForkDone, Built
  <2>c. Slot(c) /\ Progress(c)
    BY <1>slot, <1>prog
  <2>1. /\ job[p].op = "fork" /\ job[p].a = job[p].goal
        /\ own' = [own EXCEPT ![c] = new[p]] /\ new' = [new EXCEPT ![p] = NoSpace]
        /\ sz' = [sz EXCEPT ![c] = sz[p]] /\ state' = [state EXCEPT ![c] = "LIVE"]
        /\ job' = [job EXCEPT ![p] = NoJob] /\ UNCHANGED <<freelist, kstack>>
    BY <1>10, <2>0 DEF ForkDone, Built
  <2>2. /\ c \in Proc /\ state[c] = "EMBRYO" /\ state[p] = "LIVE" /\ p # c
        /\ job[c].op = "none" /\ job[p].goal = sz[p] /\ MappedBelow(new[p], sz[p])
        /\ \A q \in Proc : q # p /\ job[q].op = "fork" => job[q].child # c
    BY <1>chld, <2>i, <2>c, <2>0, <2>1 DEF Children, Slot, Progress
  <2>3. MemType'
    BY <1>type, <1>r, <2>1, <2>2, NothingBuilt DEF MemType
  <2>4. Children'
    BY <1>type, <1>chld, <2>1, <2>2, NothingBuilt DEF Children, MemType
  <2>5. ASSUME NEW q \in Proc, q # p, q # c PROVE Same(q)
    BY <1>type, <2>1, <2>2, <2>5 DEF Same, MemType
  <2>6. /\ state'[p] = "LIVE" /\ job'[p] = NoJob /\ new'[p] = NoSpace
        /\ own'[p] = own[p] /\ sz'[p] = sz[p] /\ kstack'[p] = kstack[p]
        /\ state'[c] = "LIVE" /\ job'[c] = job[c] /\ new'[c] = new[c]
        /\ own'[c] = new[p] /\ sz'[c] = sz[p]
    BY <1>type, <2>1, <2>2 DEF MemType
  <2>7. Slot(p)' /\ Progress(p)'
    BY <2>i, <2>1, <2>2, <2>6, NothingBuilt DEF Slot, Progress
  <2>8. Slot(c)' /\ Progress(c)'
    BY <2>c, <2>1, <2>2, <2>6, NothingBuilt DEF Slot, Progress
  <2> QED
    BY Zenon, <1>q, <2>3, <2>4, <2>5, <2>7, <2>8
<1>11. ASSUME NEW p \in Proc, NEW s \in Space, NEW n \in 0..MaxPages, freelist' \subseteq Page,
              job[p].op \in {"exec", "stack", "grow"},
              own' = [own EXCEPT ![p] = s], sz' = [sz EXCEPT ![p] = n],
              new' = [new EXCEPT ![p] = NoSpace], job' = [job EXCEPT ![p] = NoJob],
              MappedBelow(s, n) \/ MappedBelow(s, 0), UNCHANGED <<state, kstack>>
       PROVE  MemShape'
  <2>i. Slot(p) /\ Progress(p)
    BY <1>slot, <1>prog
  <2>1. MemType'
    BY <1>type, <1>11, NothingBuilt DEF MemType
  <2>2. /\ job'[p] = NoJob /\ new'[p] = NoSpace /\ own'[p] = s /\ sz'[p] = n
        /\ \A q \in Proc : q # p => job'[q] = job[q] /\ new'[q] = new[q] /\ own'[q] = own[q] /\ sz'[q] = sz[q]
    BY <1>type, <1>11 DEF MemType
  <2>3. Children'
    BY <1>chld, <1>11, <2>2, NothingBuilt DEF Children
  <2>4. ASSUME NEW q \in Proc, q # p PROVE Same(q)
    BY <1>11, <2>2, <2>4 DEF Same
  <2>5. state[p] = "LIVE"
    BY <2>i, <1>11 DEF Slot
  <2>6. Slot(p)' /\ Progress(p)'
    <3>1. Slot(p)'
      BY <1>11, <2>2, <2>5, NothingBuilt DEF Slot
    <3>2. Progress(p)'
      BY <1>11, <2>2, <2>5, NothingBuilt DEF Progress, MappedBelow
    <3> QED
      BY <3>1, <3>2
  <2> QED
    BY Zenon, <1>q, <2>1, <2>3, <2>4, <2>6
<1>12. ASSUME NEW p \in Proc, GrowDone(p) PROVE MemShape'
  <2>i. Slot(p) /\ Progress(p)
    BY <1>slot, <1>prog
  <2>1. /\ job[p].op = "grow" /\ job[p].a = job[p].goal
        /\ sz' = [sz EXCEPT ![p] = job[p].goal] /\ job' = [job EXCEPT ![p] = NoJob]
        /\ UNCHANGED <<freelist, state, kstack, own, new>>
    BY <1>12 DEF GrowDone, Built
  <2>2. MappedBelow(own[p], job[p].goal) /\ new[p] = NoSpace
    BY <2>i, <2>1 DEF Progress, Slot
  <2>3. own' = [own EXCEPT ![p] = own[p]] /\ new' = [new EXCEPT ![p] = NoSpace] /\ freelist' \subseteq Page
    BY <1>type, <2>1, <2>2 DEF MemType
  <2> QED
    BY Zenon, <1>r, <1>11, <2>1, <2>2, <2>3
<1>13. ASSUME NEW p \in Proc, ExecStack(p) PROVE MemShape'
  <2>i. Slot(p) /\ Progress(p)
    BY <1>slot, <1>prog
  <2>1. /\ job[p].op = "exec" /\ job[p].a = job[p].goal /\ job[p].goal + 2 <= MaxPages
        /\ UNCHANGED <<freelist, state, kstack, sz, own, new>>
    BY <1>13 DEF ExecStack, Built
  <2>2. PICK n \in 0..MaxPages : n = job[p].goal + 2 /\ job[p].a \in Nat /\ job[p].a < n
    BY <1>r, <2>1
  <2>3. job' = [job EXCEPT ![p] = [job[p] EXCEPT !.op = "stack", !.goal = n]]
    BY <1>13, <1>type, <2>2 DEF MemType, Job, ExecStack
  <2>4. PICK j \in Job : /\ job' = [job EXCEPT ![p] = j]
                         /\ j.op = "stack" /\ j.a = job[p].a /\ j.goal = n /\ j.mem = job[p].mem
    <3> DEFINE j == [job[p] EXCEPT !.op = "stack", !.goal = n]
    <3>1. j \in Job /\ j.op = "stack" /\ j.a = job[p].a /\ j.goal = n /\ j.mem = job[p].mem
      BY Zenon, <1>r DEF Job
    <3> HIDE DEF j
    <3>2. job' = [job EXCEPT ![p] = j]
      BY <2>3 DEF j
    <3> QED
      BY Zenon, <3>1, <3>2
  <2>5. MemType'
    BY <1>type, <2>1, <2>4 DEF MemType
  <2>6. job'[p] = j /\ \A q \in Proc : q # p => job'[q] = job[q]
    BY <1>type, <2>4 DEF MemType
  <2>7. Children'
    BY <1>chld, <2>1, <2>4, <2>6 DEF Children
  <2>8. ASSUME NEW q \in Proc, q # p PROVE Same(q)
    BY <2>1, <2>6, <2>8 DEF Same
  <2>9. Slot(p)' /\ Progress(p)'
    BY <2>i, <2>1, <2>2, <2>4, <2>6 DEF Slot, Progress
  <2> QED
    BY Zenon, <1>q, <2>5, <2>7, <2>8, <2>9
<1>14. ASSUME NEW p \in Proc, ExecDone(p) PROVE MemShape'
  <2>i. Slot(p) /\ Progress(p)
    BY <1>slot, <1>prog
  <2>1. /\ job[p].op = "stack" /\ job[p].a = job[p].goal /\ kfree(PagesOf(own[p]))
        /\ own' = [own EXCEPT ![p] = new[p]] /\ new' = [new EXCEPT ![p] = NoSpace]
        /\ sz' = [sz EXCEPT ![p] = job[p].goal] /\ job' = [job EXCEPT ![p] = NoJob]
        /\ UNCHANGED <<state, kstack>>
    BY <1>14 DEF ExecDone, Built
  <2>2. MappedBelow(new[p], job[p].goal)
    BY <2>i, <2>1 DEF Progress
  <2>3. freelist' \subseteq Page
    BY Zenon, <1>type, <1>r, <2>1, FreedArePages, FreeListGrows DEF MemType
  <2> QED
    BY Zenon, <1>r, <1>11, <2>1, <2>2, <2>3
<1>15. ASSUME NEW p \in Proc, ForkFails(p) PROVE MemShape'
  <2>i. Slot(p) /\ Progress(p)
    BY <1>slot, <1>prog
  <2>0. PICK c \in Proc : c = job[p].child
    BY <1>chld, <1>15 DEF Children, ForkFails
  <2>c. Slot(c) /\ Progress(c)
    BY <1>slot, <1>prog
  <2>1. /\ job[p].op = "fork" /\ kfree(PagesOf(new[p]) \cup {job[p].mem, kstack[c]})
        /\ new' = [new EXCEPT ![p] = NoSpace] /\ kstack' = [kstack EXCEPT ![c] = 0]
        /\ state' = [state EXCEPT ![c] = "UNUSED"]
        /\ job' = [job EXCEPT ![p] = NoJob] /\ UNCHANGED <<sz, own>>
    BY <1>15, <2>0 DEF ForkFails
  <2>2. /\ state[c] = "EMBRYO" /\ state[p] = "LIVE" /\ p # c /\ job[c].op = "none"
        /\ \A q \in Proc : q # p /\ job[q].op = "fork" => job[q].child # c
    BY <1>chld, <2>i, <2>c, <2>0, <2>1 DEF Children, Slot
  <2>3. freelist' \subseteq Page
    <3>1. PagesOf(new[p]) \cup {job[p].mem, kstack[c]} \subseteq PageOrNone
      BY ZenonT(40), <1>type, <1>r, FreedArePages DEF MemType
    <3> QED
      BY <1>type, <2>1, <3>1, FreeListGrows DEF MemType
  <2>4. MemType'
    BY <1>type, <2>1, <2>3, NothingBuilt DEF MemType, PageOrNone
  <2>5. /\ job'[p] = NoJob /\ new'[p] = NoSpace /\ state'[p] = state[p]
        /\ state'[c] = "UNUSED" /\ kstack'[c] = 0 /\ job'[c] = job[c] /\ new'[c] = new[c]
        /\ \A q \in Proc : q # p => job'[q] = job[q] /\ new'[q] = new[q]
        /\ \A q \in Proc : q # c => state'[q] = state[q] /\ kstack'[q] = kstack[q]
        /\ \A q \in Proc : own'[q] = own[q] /\ sz'[q] = sz[q]
    BY <1>type, <2>1, <2>2 DEF MemType
  <2>6. Children'
    BY <1>chld, <2>2, <2>5, NothingBuilt DEF Children
  <2>7. ASSUME NEW q \in Proc, q # p, q # c PROVE Same(q)
    BY <2>5, <2>7 DEF Same
  <2>8. Slot(p)' /\ Progress(p)'
    BY <2>i, <2>1, <2>2, <2>5, NothingBuilt DEF Slot, Progress
  <2>9. Slot(c)' /\ Progress(c)'
    BY <2>c, <2>1, <2>2, <2>5, NothingBuilt DEF Slot, Progress
  <2> QED
    BY Zenon, <1>q, <2>4, <2>6, <2>7, <2>8, <2>9
<1>16. ASSUME NEW p \in Proc, ExecFails(p) PROVE MemShape'
  <2>i. Slot(p) /\ Progress(p)
    BY <1>slot, <1>prog
  <2>1. /\ job[p].op \in {"exec", "stack"} /\ kfree(PagesOf(new[p]) \cup {job[p].mem})
        /\ new' = [new EXCEPT ![p] = NoSpace] /\ job' = [job EXCEPT ![p] = NoJob]
        /\ UNCHANGED <<state, kstack, sz, own>>
    BY <1>16 DEF ExecFails
  <2>2. MappedBelow(own[p], sz[p]) \/ MappedBelow(own[p], 0)
    BY <2>i, <2>1 DEF Progress, Slot
  <2>3. freelist' \subseteq Page
    <3>1. PagesOf(new[p]) \cup {job[p].mem} \subseteq PageOrNone
      BY <1>r, FreedArePages
    <3> QED
      BY <1>type, <2>1, <3>1, FreeListGrows DEF MemType
  <2>4. own' = [own EXCEPT ![p] = own[p]] /\ sz' = [sz EXCEPT ![p] = sz[p]]
    BY <1>type, <2>1 DEF MemType
  <2> QED
    BY Zenon, <1>r, <1>11, <2>1, <2>2, <2>3, <2>4
<1>17. ASSUME NEW p \in Proc, GrowFails(p) PROVE MemShape'
  <2>i. Slot(p) /\ Progress(p)
    BY <1>slot, <1>prog
  <2> DEFINE s == [own[p] EXCEPT !.pg = Kept(p)]
  <2>1. /\ job[p].op = "grow" /\ kfree(UserPages(own[p], sz[p]) \cup {job[p].mem})
        /\ own' = [own EXCEPT ![p].pg = Kept(p)] /\ sz' = sz
        /\ job' = [job EXCEPT ![p] = NoJob] /\ UNCHANGED <<state, kstack, new>>
    BY <1>17 DEF GrowFails, Ungrown
  <2>2. /\ MappedBelow(own[p], job[p].a) /\ sz[p] <= job[p].a /\ new[p] = NoSpace
        /\ own[p].pg \in [User -> PageOrNone]
    BY <2>i, <1>r, <2>1 DEF Progress, Slot, Space
  <2>3. s \in Space /\ s.pg = Kept(p)
    <3>1. Kept(p) \in [User -> PageOrNone]
      BY <2>2 DEF Kept, PageOrNone
    <3> QED
      BY <1>r, <3>1 DEF Space
  <2>4. own' = [own EXCEPT ![p] = s] /\ sz' = [sz EXCEPT ![p] = sz[p]] /\ new' = [new EXCEPT ![p] = NoSpace]
    BY <1>type, <2>1, <2>2 DEF MemType
  <2> HIDE DEF s
  <2>5. MappedBelow(s, sz[p])
    BY <1>r, <2>2, <2>3 DEF MappedBelow, Kept, User
  <2>6. freelist' \subseteq Page
    <3>1. UserPages(own[p], sz[p]) \cup {job[p].mem} \subseteq PageOrNone
      BY <1>r, FreedArePages
    <3> QED
      BY <1>type, <2>1, <3>1, FreeListGrows DEF MemType
  <2> QED
    BY Zenon, <1>r, <1>11, <2>1, <2>3, <2>4, <2>5, <2>6
<1>18. ASSUME NEW p \in Proc, exit(p) PROVE MemShape'
  <2>i. Slot(p) /\ Progress(p)
    BY <1>slot, <1>prog
  <2>1. /\ state[p] = "LIVE" /\ job[p] = NoJob /\ state' = [state EXCEPT ![p] = "ZOMBIE"]
        /\ UNCHANGED <<freelist, kstack, sz, own, new, job>>
    BY <1>18 DEF exit
  <2>2. MemType'
    BY <1>type, <2>1 DEF MemType
  <2>3. state'[p] = "ZOMBIE" /\ \A q \in Proc : q # p => state'[q] = state[q]
    BY <1>type, <2>1 DEF MemType
  <2>4. Children'
    BY <1>chld, <2>1, <2>3 DEF Children
  <2>5. ASSUME NEW q \in Proc, q # p PROVE Same(q)
    BY <2>1, <2>3, <2>5 DEF Same
  <2>6. Slot(p)' /\ Progress(p)'
    BY <2>i, <2>1, <2>3, NothingBuilt DEF Slot, Progress
  <2> QED
    BY Zenon, <1>q, <2>2, <2>4, <2>5, <2>6
<1>19. ASSUME NEW p \in Proc, wait(p) PROVE MemShape'
  <2>i. Slot(p) /\ Progress(p)
    BY <1>slot, <1>prog
  <2>1. /\ state[p] = "ZOMBIE" /\ kfree(PagesOf(own[p]) \cup {kstack[p]})
        /\ kstack' = [kstack EXCEPT ![p] = 0] /\ own' = [own EXCEPT ![p] = NoSpace]
        /\ sz' = [sz EXCEPT ![p] = 0] /\ state' = [state EXCEPT ![p] = "UNUSED"] /\ UNCHANGED <<new, job>>
    BY <1>19 DEF wait
  <2>2. freelist' \subseteq Page
    <3>1. PagesOf(own[p]) \cup {kstack[p]} \subseteq PageOrNone
      BY Zenon, <1>type, <1>r, FreedArePages DEF MemType
    <3> QED
      BY <1>type, <2>1, <3>1, FreeListGrows DEF MemType
  <2>3. MemType'
    BY <1>max, <1>type, <2>1, <2>2, NothingBuilt DEF MemType, PageOrNone
  <2>4. /\ state'[p] = "UNUSED" /\ own'[p] = NoSpace /\ kstack'[p] = 0 /\ job'[p] = job[p] /\ new'[p] = new[p]
        /\ \A q \in Proc : q # p => /\ state'[q] = state[q] /\ own'[q] = own[q] /\ kstack'[q] = kstack[q]
                                    /\ sz'[q] = sz[q]
    BY <1>type, <2>1 DEF MemType
  <2>5. Children'
    BY <1>chld, <2>1, <2>4 DEF Children
  <2>6. ASSUME NEW q \in Proc, q # p PROVE Same(q)
    BY <2>1, <2>4, <2>6 DEF Same
  <2>7. Slot(p)' /\ Progress(p)'
    BY <2>i, <2>1, <2>4, NothingBuilt DEF Slot, Progress
  <2> QED
    BY Zenon, <1>q, <2>3, <2>5, <2>6, <2>7
<1>20. CASE UNCHANGED vars
  <2>1. MemType'
    BY <1>type, <1>20 DEF MemType, vars
  <2>2. Children'
    BY <1>chld, <1>20 DEF Children, vars
  <2>3. ASSUME NEW q \in Proc PROVE Same(q)
    BY <1>20 DEF Same, vars
  <2> QED
    BY Zenon, <1>q, <2>1, <2>2, <2>3
<1> QED
  BY Zenon, <1>1, <1>2, <1>3, <1>5, <1>6, <1>8, <1>9, <1>10, <1>12, <1>13, <1>14, <1>15, <1>16,
     <1>17, <1>18, <1>19, <1>20 DEF Next

(* Where the image of a process is complete, so is its shape. *)
LEMMA ShapeIsComplete == MemShape => ImageComplete
<1> SUFFICES ASSUME MemShape, NEW p \in Proc, state[p] = "LIVE", job[p].op # "grow"
             PROVE  \/ {b \in User : own[p].pg[b] # 0} = {b \in User : b < sz[p]}
                    \/ {b \in User : own[p].pg[b] # 0} = {}
  BY DEF ImageComplete, None
<1>1. MappedBelow(own[p], sz[p]) \/ MappedBelow(own[p], 0)
  BY DEF MemShape, Progress
<1>2. \A b \in User : ~ (b < 0)
  BY MemoryConstants DEF User
<1> QED
  BY <1>1, <1>2 DEF MappedBelow
(***************************************************************************)
(* Pages are on the list F or at one place: H says what each place holds.  *)
(***************************************************************************)
Apart(H, F) ==
  /\ H \in [Place -> PageOrNone] /\ F \subseteq Page
  /\ \A x \in Page : x \in F \/ \E k \in Place : H[k] = x
  /\ \A k \in Place : H[k] \notin F
  /\ \A k, l \in Place : H[k] = H[l] /\ H[k] # 0 => k = l

PageMap == [k \in Place |-> Held(k)]

LEMMA ZeroIsNoPage == 0 \notin Page /\ PageOrNone = Page \cup {0}
BY DEF Page, PageOrNone

(* A page is taken off the list and put at the place k. *)
LEMMA Take ==
  ASSUME NEW H, NEW F, Apart(H, F), NEW x \in F, NEW k \in Place, H[k] = 0,
         NEW G \in [Place -> PageOrNone], G[k] = x,
         \A l \in Place : l # k => G[l] = H[l]
  PROVE  Apart(G, F \ {x})
BY ZeroIsNoPage DEF Apart

(* The pages at the places K go back to the list. *)
LEMMA GiveBack ==
  ASSUME NEW H, NEW F, Apart(H, F), NEW K \in SUBSET Place,
         NEW G \in [Place -> PageOrNone],
         \A k \in Place : G[k] = IF k \in K THEN 0 ELSE H[k],
         NEW S, \A k \in K : H[k] \in S, \A x \in S : x # 0 => \E k \in K : H[k] = x
  PROVE  Apart(G, F \cup (S \ {0}))
<1>1. F \cup (S \ {0}) \subseteq Page
  BY ZeroIsNoPage DEF Apart
<1>2. ASSUME NEW x \in Page, x \notin F \cup (S \ {0}) PROVE \E k \in Place : G[k] = x
  BY <1>2, ZeroIsNoPage DEF Apart
<1>3. ASSUME NEW k \in Place PROVE G[k] \notin F \cup (S \ {0})
  BY ZeroIsNoPage DEF Apart
<1>4. ASSUME NEW k \in Place, NEW l \in Place, G[k] = G[l], G[k] # 0 PROVE k = l
  BY <1>4 DEF Apart
<1> QED
  BY <1>1, <1>2, <1>3, <1>4 DEF Apart

(* Pages change places. *)
LEMMA Exchange ==
  ASSUME NEW H, NEW F, Apart(H, F), NEW m \in [Place -> Place],
         \A k \in Place : m[m[k]] = k,
         NEW G \in [Place -> PageOrNone], \A k \in Place : G[k] = H[m[k]]
  PROVE  Apart(G, F)
<1>1. ASSUME NEW x \in Page, x \notin F PROVE \E k \in Place : G[k] = x
  <2>1. PICK k \in Place : H[k] = x
    BY <1>1 DEF Apart
  <2>2. m[k] \in Place /\ G[m[k]] = x
    BY <2>1
  <2> QED
    BY <2>2
<1>2. ASSUME NEW k \in Place PROVE G[k] \notin F
  BY DEF Apart
<1>3. ASSUME NEW k \in Place, NEW l \in Place, G[k] = G[l], G[k] # 0 PROVE k = l
  <2>1. m[k] = m[l]
    BY <1>3 DEF Apart
  <2> QED
    BY <2>1
<1> QED
  BY <1>1, <1>2, <1>3 DEF Apart

LEMMA PlaceParts ==
  ASSUME NEW k \in Place
  PROVE  /\ k[2] \in Proc /\ k = <<k[1], k[2], k[3]>>
         /\ \/ k[1] \in {"kstack", "mem", "dir", "newdir"} /\ k[3] = 0
            \/ k[1] \in {"tab", "newtab"} /\ k[3] \in Table
            \/ k[1] \in {"pg", "newpg"} /\ k[3] \in User
BY DEF Place

LEMMA PlaceIs ==
  ASSUME NEW p \in Proc
  PROVE  /\ \A x \in {"kstack", "mem", "dir", "newdir"} : <<x, p, 0>> \in Place
         /\ \A t \in Table : <<"tab", p, t>> \in Place /\ <<"newtab", p, t>> \in Place
         /\ \A b \in User : <<"pg", p, b>> \in Place /\ <<"newpg", p, b>> \in Place
BY DEF Place

LEMMA HeldIs ==
  \A k \in Place :
    /\ k[1] = "kstack" => PageMap[k] = kstack[k[2]]
    /\ k[1] = "mem" => PageMap[k] = job[k[2]].mem
    /\ k[1] = "dir" => PageMap[k] = own[k[2]].dir
    /\ k[1] = "newdir" => PageMap[k] = new[k[2]].dir
    /\ k[1] = "tab" => PageMap[k] = own[k[2]].tab[k[3]]
    /\ k[1] = "newtab" => PageMap[k] = new[k[2]].tab[k[3]]
    /\ k[1] = "pg" => PageMap[k] = own[k[2]].pg[k[3]]
    /\ k[1] = "newpg" => PageMap[k] = new[k[2]].pg[k[3]]
BY DEF PageMap, Held

LEMMA PageMapType == MemType => PageMap \in [Place -> PageOrNone]
<1> SUFFICES ASSUME MemType, NEW k \in Place PROVE PageMap[k] \in PageOrNone
  BY DEF PageMap
<1>1. k[2] \in Proc
  BY PlaceParts
<1>2. own[k[2]] \in Space /\ new[k[2]] \in Space /\ job[k[2]] \in Job /\ kstack[k[2]] \in PageOrNone
  BY <1>1 DEF MemType
<1> QED
  BY <1>2, PlaceParts, HeldIs DEF Space, Job

LEMMA ApartIsAccounted == Apart(PageMap, freelist) => PagesAccounted
<1> SUFFICES ASSUME Apart(PageMap, freelist) PROVE PagesAccounted
  OBVIOUS
<1> DEFINE held == {h \in {<<Held(k), k>> : k \in Place} : h[1] # 0}
<1>1. \A k \in Place : PageMap[k] = Held(k)
  BY DEF PageMap
<1>2. \A h \in held : h[2] \in Place /\ h = <<Held(h[2]), h[2]>> /\ h[1] = PageMap[h[2]] /\ h[1] # 0
  BY <1>1
<1>3. {h[1] : h \in held} = Page \ freelist
  <2>1. ASSUME NEW h \in held PROVE h[1] \in Page \ freelist
    BY <1>2, ZeroIsNoPage DEF Apart
  <2>2. ASSUME NEW x \in Page \ freelist PROVE \E h \in held : h[1] = x
    <3>1. PICK k \in Place : PageMap[k] = x
      BY <2>2 DEF Apart
    <3>2. <<Held(k), k>> \in held /\ <<Held(k), k>>[1] = x
      BY <1>1, <3>1, ZeroIsNoPage
    <3> QED
      BY <3>2
  <2> QED
    BY <2>1, <2>2
<1>4. ASSUME NEW g \in held, NEW h \in held, g[1] = h[1] PROVE g = h
  <2>1. g[2] = h[2]
    BY <1>2, <1>4 DEF Apart
  <2> QED
    BY <1>2, <1>4, <2>1
<1> QED
  BY <1>3, <1>4 DEF Apart, PagesAccounted, None

LEMMA ApartInit == Init => Apart(PageMap, freelist)
<1> SUFFICES ASSUME Init PROVE Apart(PageMap, freelist)
  OBVIOUS
<1> DEFINE i == InitProc
<1>0. Page = 1..NPAGE /\ 1..5 \subseteq Page /\ freelist = Page \ 1..5
  BY MemoryConstants DEF Page, Init
<1>1. PageMap \in [Place -> PageOrNone]
  BY MemInit, PageMapType DEF MemShape
<1>2. 0 \in Table /\ 0 \in User /\ MaxPages \in Table /\ MaxPages # 0
  BY MemoryConstants DEF Table, User
<1>3. /\ own[i].dir = 2
      /\ \A t \in Table : own[i].tab[t] = IF t = 0 THEN 4 ELSE IF t = MaxPages THEN 3 ELSE 0
      /\ \A b \in User : own[i].pg[b] = IF b = 0 THEN 5 ELSE 0
      /\ kstack[i] = 1
  BY Zenon, <1>2, MemoryConstants DEF Init, FirstSpace, NoSpace, Kernel, None
<1>4. \A q \in Proc : q # i => own[q] = NoSpace /\ kstack[q] = 0
  BY DEF Init, None
<1>5. \A q \in Proc : new[q] = NoSpace /\ job[q].mem = 0
  BY NothingBuilt DEF Init
<1>6. /\ PageMap[<<"kstack", i, 0>>] = 1 /\ PageMap[<<"dir", i, 0>>] = 2 /\ PageMap[<<"tab", i, MaxPages>>] = 3
      /\ PageMap[<<"tab", i, 0>>] = 4 /\ PageMap[<<"pg", i, 0>>] = 5
  BY ZenonT(40), <1>2, <1>3, PlaceIs, HeldIs, MemoryConstants
<1>7. ASSUME NEW k \in Place, PageMap[k] # 0
      PROVE  \/ k = <<"kstack", i, 0>> \/ k = <<"dir", i, 0>> \/ k = <<"tab", i, MaxPages>>
             \/ k = <<"tab", i, 0>> \/ k = <<"pg", i, 0>>
  BY <1>3, <1>4, <1>5, <1>7, PlaceParts, HeldIs, NothingBuilt
<1>8. ASSUME NEW x \in Page PROVE x \in freelist \/ \E k \in Place : PageMap[k] = x
  <2>1. x \notin freelist => x \in {1, 2, 3, 4, 5}
    BY <1>0
  <2> QED
    BY Zenon, <1>2, <1>6, <2>1, PlaceIs, MemoryConstants
<1>9. ASSUME NEW k \in Place PROVE PageMap[k] \notin freelist
  BY <1>0, <1>6, <1>7, ZeroIsNoPage
<1>10. ASSUME NEW k \in Place, NEW l \in Place, PageMap[k] = PageMap[l], PageMap[k] # 0 PROVE k = l
  BY <1>6, <1>7, <1>10
<1>11. freelist \subseteq Page
  BY <1>0
<1> QED
  BY <1>1, <1>8, <1>9, <1>10, <1>11 DEF Apart

(* The kinds of places of the space that a process has and of the one it builds. *)
Own == {"dir", "tab", "pg"}
New == {"newdir", "newtab", "newpg"}

(* What the places of the process q hold does not change. *)
StillHeld(q) == own'[q] = own[q] /\ new'[q] = new[q] /\ kstack'[q] = kstack[q] /\ job'[q].mem = job[q].mem

LEMMA HeldIsNext ==
  \A k \in Place :
    /\ k[1] = "kstack" => PageMap'[k] = kstack'[k[2]]
    /\ k[1] = "mem" => PageMap'[k] = job'[k[2]].mem
    /\ k[1] = "dir" => PageMap'[k] = own'[k[2]].dir
    /\ k[1] = "newdir" => PageMap'[k] = new'[k[2]].dir
    /\ k[1] = "tab" => PageMap'[k] = own'[k[2]].tab[k[3]]
    /\ k[1] = "newtab" => PageMap'[k] = new'[k[2]].tab[k[3]]
    /\ k[1] = "pg" => PageMap'[k] = own'[k[2]].pg[k[3]]
    /\ k[1] = "newpg" => PageMap'[k] = new'[k[2]].pg[k[3]]
<1>1. (\A k \in Place :
    /\ k[1] = "kstack" => PageMap[k] = kstack[k[2]]
    /\ k[1] = "mem" => PageMap[k] = job[k[2]].mem
    /\ k[1] = "dir" => PageMap[k] = own[k[2]].dir
    /\ k[1] = "newdir" => PageMap[k] = new[k[2]].dir
    /\ k[1] = "tab" => PageMap[k] = own[k[2]].tab[k[3]]
    /\ k[1] = "newtab" => PageMap[k] = new[k[2]].tab[k[3]]
    /\ k[1] = "pg" => PageMap[k] = own[k[2]].pg[k[3]]
    /\ k[1] = "newpg" => PageMap[k] = new[k[2]].pg[k[3]])'
  BY HeldIs, PTL
<1> QED
  BY <1>1

LEMMA HeldStays ==
  \A k \in Place :
    /\ StillHeld(k[2]) => PageMap'[k] = PageMap[k]
    /\ k[1] = "kstack" /\ kstack'[k[2]] = kstack[k[2]] => PageMap'[k] = PageMap[k]
    /\ k[1] = "mem" /\ job'[k[2]].mem = job[k[2]].mem => PageMap'[k] = PageMap[k]
    /\ k[1] \in Own /\ own'[k[2]] = own[k[2]] => PageMap'[k] = PageMap[k]
    /\ k[1] \in New /\ new'[k[2]] = new[k[2]] => PageMap'[k] = PageMap[k]
BY HeldIsNext, HeldIs, PlaceParts DEF StillHeld, Own, New

OwnPlaces(p) == {k \in Place : k[1] \in Own /\ k[2] = p}
NewPlaces(p) == {k \in Place : k[1] \in New /\ k[2] = p}

LEMMA SpaceIsFreed ==
  ASSUME NEW p \in Proc
  PROVE  /\ \A k \in OwnPlaces(p) : PageMap[k] \in PagesOf(own[p])
         /\ \A x \in PagesOf(own[p]) : \E k \in OwnPlaces(p) : PageMap[k] = x
         /\ \A k \in NewPlaces(p) : PageMap[k] \in PagesOf(new[p])
         /\ \A x \in PagesOf(new[p]) : \E k \in NewPlaces(p) : PageMap[k] = x
<1>0. \A b \in User : b >= 0
  BY MemoryConstants DEF User
<1>1. ASSUME NEW s
      PROVE  /\ s.dir \in PagesOf(s)
             /\ \A t \in Table : s.tab[t] \in PagesOf(s)
             /\ \A b \in User : s.pg[b] \in PagesOf(s)
             /\ \A x \in PagesOf(s) : \/ x = s.dir \/ \E t \in Table : x = s.tab[t]
                                      \/ \E b \in User : x = s.pg[b]
  <2>1. {b \in User : b >= 0} = User
    BY <1>0
  <2>2. PagesOf(s) = {s.pg[b] : b \in User} \cup {s.tab[t] : t \in Table} \cup {s.dir}
    BY <2>1 DEF PagesOf, UserPages
  <2> QED
    BY Zenon, <2>2
<1>2. ASSUME NEW k \in OwnPlaces(p) PROVE PageMap[k] \in PagesOf(own[p])
  BY <1>1, PlaceParts, HeldIs DEF OwnPlaces, Own
<1>3. ASSUME NEW k \in NewPlaces(p) PROVE PageMap[k] \in PagesOf(new[p])
  BY <1>1, PlaceParts, HeldIs DEF NewPlaces, New
<1>4. /\ <<"dir", p, 0>> \in OwnPlaces(p) /\ PageMap[<<"dir", p, 0>>] = own[p].dir
      /\ \A t \in Table : <<"tab", p, t>> \in OwnPlaces(p) /\ PageMap[<<"tab", p, t>>] = own[p].tab[t]
      /\ \A b \in User : <<"pg", p, b>> \in OwnPlaces(p) /\ PageMap[<<"pg", p, b>>] = own[p].pg[b]
  BY Zenon, PlaceIs, HeldIs DEF OwnPlaces, Own
<1>5. /\ <<"newdir", p, 0>> \in NewPlaces(p) /\ PageMap[<<"newdir", p, 0>>] = new[p].dir
      /\ \A t \in Table : <<"newtab", p, t>> \in NewPlaces(p) /\ PageMap[<<"newtab", p, t>>] = new[p].tab[t]
      /\ \A b \in User : <<"newpg", p, b>> \in NewPlaces(p) /\ PageMap[<<"newpg", p, b>>] = new[p].pg[b]
  BY Zenon, PlaceIs, HeldIs DEF NewPlaces, New
<1>6. \A x \in PagesOf(own[p]) : \E k \in OwnPlaces(p) : PageMap[k] = x
  <2> SUFFICES ASSUME NEW x \in PagesOf(own[p]) PROVE \E k \in OwnPlaces(p) : PageMap[k] = x
    OBVIOUS
  <2>1. \/ x = own[p].dir \/ \E t \in Table : x = own[p].tab[t]
        \/ \E b \in User : x = own[p].pg[b]
    BY Zenon, <1>1
  <2> QED
    BY Zenon, <1>4, <2>1
<1>7. \A x \in PagesOf(new[p]) : \E k \in NewPlaces(p) : PageMap[k] = x
  <2> SUFFICES ASSUME NEW x \in PagesOf(new[p]) PROVE \E k \in NewPlaces(p) : PageMap[k] = x
    OBVIOUS
  <2>1. \/ x = new[p].dir \/ \E t \in Table : x = new[p].tab[t]
        \/ \E b \in User : x = new[p].pg[b]
    BY Zenon, <1>1
  <2> QED
    BY Zenon, <1>5, <2>1
<1> QED
  BY <1>2, <1>3, <1>6, <1>7

(* The places of the space that p builds for those of the space of c. *)
Swap(c, p) ==
  [k \in Place |->
     CASE k[2] = c /\ k[1] = "dir" -> <<"newdir", p, k[3]>>
       [] k[2] = c /\ k[1] = "tab" -> <<"newtab", p, k[3]>>
       [] k[2] = c /\ k[1] = "pg" -> <<"newpg", p, k[3]>>
       [] k[2] = p /\ k[1] = "newdir" -> <<"dir", c, k[3]>>
       [] k[2] = p /\ k[1] = "newtab" -> <<"tab", c, k[3]>>
       [] k[2] = p /\ k[1] = "newpg" -> <<"pg", c, k[3]>>
       [] OTHER -> k]

LEMMA SwapIsInvolution ==
  ASSUME NEW c \in Proc, NEW p \in Proc
  PROVE  Swap(c, p) \in [Place -> Place] /\ \A k \in Place : Swap(c, p)[Swap(c, p)[k]] = k
<1>1. ASSUME NEW k \in Place PROVE Swap(c, p)[k] \in Place
  BY Zenon, PlaceParts, PlaceIs DEF Swap
<1>2. ASSUME NEW k \in Place PROVE Swap(c, p)[Swap(c, p)[k]] = k
  BY ZenonT(40), <1>1, PlaceParts DEF Swap
<1>3. Swap(c, p) = [k \in Place |-> Swap(c, p)[k]]
  BY DEF Swap
<1> QED
  BY <1>1, <1>2, <1>3

(* A space that is built is handed over to a process without one. *)
Trades(c, p) ==
  /\ own[c] = NoSpace /\ own'[c] = new[p] /\ new'[p] = NoSpace
  /\ kstack' = kstack /\ \A q \in Proc : job'[q].mem = job[q].mem
  /\ \A q \in Proc : q # c => own'[q] = own[q]
  /\ \A q \in Proc : q # p => new'[q] = new[q]

LEMMA Swapped ==
  ASSUME NEW c \in Proc, NEW p \in Proc, Trades(c, p)
  PROVE  \A k \in Place : PageMap'[k] = PageMap[Swap(c, p)[k]]
<1> SUFFICES ASSUME NEW k \in Place PROVE PageMap'[k] = PageMap[Swap(c, p)[k]]
  OBVIOUS
<1>1. Swap(c, p)[k] \in Place
  BY SwapIsInvolution
<1>2. CASE k \in OwnPlaces(c)
  BY <1>1, <1>2, PlaceParts, HeldIs, HeldIsNext DEF Swap, OwnPlaces, Own, Trades
<1>3. CASE k \in NewPlaces(p)
  BY <1>1, <1>3, PlaceParts, HeldIs, HeldIsNext, NothingBuilt DEF Swap, NewPlaces, New, Trades
<1>4. CASE k \notin OwnPlaces(c) /\ k \notin NewPlaces(p)
  <2>1. Swap(c, p)[k] = k
    BY <1>4 DEF Swap, NewPlaces, OwnPlaces, New, Own
  <2> QED
    BY <1>4, <2>1, PlaceParts, HeldStays DEF Trades, StillHeld, Own, New, OwnPlaces, NewPlaces
<1> QED
  BY <1>2, <1>3, <1>4

LEMMA ApartStep ==
  ASSUME MemShape, MemType', Apart(PageMap, freelist), [Next]_vars
  PROVE  Apart(PageMap, freelist)'
<1> USE DEF None
<1>type. MemType
  BY DEF MemShape
<1>chld. Children
  BY DEF MemShape
<1>slot. \A q \in Proc : Slot(q)
  BY DEF MemShape
<1>prog. \A q \in Proc : Progress(q)
  BY DEF MemShape
<1>r. /\ \A q \in Proc : own[q] \in Space /\ new[q] \in Space /\ job[q] \in Job /\ sz[q] \in 0..MaxPages
      /\ \A q \in Proc : /\ job[q].op \in {"none", "fork", "exec", "stack", "grow"}
                         /\ job[q].a \in 0..MaxPages /\ job[q].goal \in 0..MaxPages /\ job[q].mem \in PageOrNone
  BY <1>type DEF MemType, Job
<1>t. PageMap \in [Place -> PageOrNone] /\ PageMap' \in [Place -> PageOrNone]
  <2>1. (MemType => PageMap \in [Place -> PageOrNone])'
    BY PageMapType, PTL
  <2> QED
    BY <1>type, <2>1, PageMapType DEF Place, Table, User, PageOrNone, Page
<1>z. ASSUME Apart(PageMap', freelist') PROVE Apart(PageMap, freelist)'
  BY <1>z DEF Apart, Place, Table, User, PageOrNone, Page
<1>s. ASSUME \A q \in Proc : StillHeld(q), UNCHANGED freelist PROVE Apart(PageMap', freelist')
  <2>1. \A k \in Place : PageMap'[k] = PageMap[k]
    BY <1>s, HeldStays, PlaceParts
  <2>2. PageMap' = PageMap
    BY <1>t, <2>1
  <2> QED
    BY <1>s, <2>2
<1>n. job \in [Proc -> Job] /\ own \in [Proc -> Space] /\ new \in [Proc -> Space] /\ kstack \in [Proc -> PageOrNone]
  BY <1>type DEF MemType
<1>1. ASSUME NEW p \in Proc, NEW c \in Proc, fork(p, c) PROVE Apart(PageMap', freelist')
  <2>1. PICK x \in freelist :
          /\ freelist' = freelist \ {x} /\ kstack' = [kstack EXCEPT ![c] = x]
          /\ job' = [job EXCEPT ![p] = Call("fork", c, 0, sz[p])]
    BY ZenonT(40), <1>1 DEF fork, kalloc, First
  <2>2. UNCHANGED <<own, new>> /\ job[p] = NoJob /\ state[c] = "UNUSED"
    BY <1>1 DEF fork, Running
  <2>3. kstack[c] = 0 /\ kstack'[c] = x /\ \A q \in Proc : q # c => kstack'[q] = kstack[q]
    BY <1>slot, <1>n, <2>1, <2>2 DEF Slot
  <2>4. \A q \in Proc : job'[q].mem = job[q].mem
    BY <1>n, <2>1, <2>2, NothingBuilt DEF Call
  <2> DEFINE k == <<"kstack", c, 0>>
  <2>5. k \in Place /\ PageMap[k] = 0 /\ PageMap'[k] = x
    BY ZenonT(40), <2>3, PlaceIs, HeldIs, HeldIsNext
  <2>6. ASSUME NEW l \in Place, l # k PROVE PageMap'[l] = PageMap[l]
    BY <2>2, <2>3, <2>4, <2>6, PlaceParts, HeldStays DEF StillHeld, Own, New
  <2> HIDE DEF k
  <2> QED
    BY <1>t, <2>1, <2>5, <2>6, Take
<1>2. ASSUME NEW p \in Proc, NEW n \in Images, exec(p, n) PROVE Apart(PageMap', freelist')
  BY <1>2, <1>n, <1>s, NothingBuilt DEF exec, Running, Call, StillHeld
<1>b. ASSUME NEW K \in SUBSET Place, NEW S, kfree(S),
             \A k \in K : PageMap[k] \in S, \A x \in S : x # 0 => \E k \in K : PageMap[k] = x,
             \A k \in Place : PageMap'[k] = IF k \in K THEN 0 ELSE PageMap[k]
      PROVE  Apart(PageMap', freelist')
  <2>1. freelist' = freelist \cup (S \ {0})
    BY <1>b DEF kfree
  <2>2. Apart(PageMap', freelist \cup (S \ {0}))
    BY Zenon, <1>b, <1>t, GiveBack
  <2> QED
    BY <2>1, <2>2
<1>3. ASSUME NEW p \in Proc, NEW n \in Growths, growproc(p, n) PROVE Apart(PageMap', freelist')
  <2>1. CASE /\ Running(p)
             /\ job' = [job EXCEPT ![p] = Call("grow", 0, sz[p], n)]
             /\ UNCHANGED <<freelist, state, kstack, sz, own, new>>
    BY <2>1, <1>n, <1>s, NothingBuilt DEF Running, Call, StillHeld
  <2>2. CASE /\ kfree(UserPages(own[p], n))
             /\ own' = [own EXCEPT ![p].pg = [a \in User |-> IF a >= n THEN None ELSE @[a]]]
             /\ UNCHANGED <<state, kstack, new, job>>
    <3> DEFINE K == {k \in Place : k[1] = "pg" /\ k[2] = p /\ k[3] >= n}
    <3>0. UNCHANGED <<kstack, new, job>>
      BY <2>2
    <3>1. /\ own'[p].dir = own[p].dir /\ own'[p].tab = own[p].tab
          /\ \A b \in User : own'[p].pg[b] = IF b >= n THEN 0 ELSE own[p].pg[b]
          /\ \A q \in Proc : q # p => own'[q] = own[q]
      BY <1>n, <1>r, <2>2 DEF Space
    <3>2. ASSUME NEW k \in Place PROVE PageMap'[k] = IF k \in K THEN 0 ELSE PageMap[k]
      <4>1. CASE k[1] = "pg" /\ k[2] = p
        <5>1. k[3] \in User /\ PageMap[k] = own[p].pg[k[3]] /\ PageMap'[k] = own'[p].pg[k[3]]
          BY <4>1, PlaceParts, HeldIs, HeldIsNext
        <5> QED
          BY <3>1, <4>1, <5>1
      <4>2. CASE k[1] # "pg" \/ k[2] # p
        <5>1. k \notin K
          BY <4>2
        <5>2. PageMap'[k] = PageMap[k]
          BY <3>0, <3>1, <4>2, PlaceParts, HeldIs, HeldIsNext, HeldStays DEF StillHeld, Own, New
        <5> QED
          BY <5>1, <5>2
      <4> QED
        BY <4>1, <4>2
    <3>3. ASSUME NEW b \in User, b >= n PROVE \E k \in K : PageMap[k] = own[p].pg[b]
      <4> DEFINE k == <<"pg", p, b>>
      <4>1. k \in K /\ PageMap[k] = own[p].pg[b]
        BY Zenon, <3>3, PlaceIs, HeldIs
      <4> QED
        BY <4>1
    <3>4. ASSUME NEW k \in K PROVE k[3] \in User /\ k[3] >= n /\ PageMap[k] = own[p].pg[k[3]]
      BY PlaceParts, HeldIs
    <3>5. /\ \A k \in K : PageMap[k] \in UserPages(own[p], n)
          /\ \A x \in UserPages(own[p], n) : \E k \in K : PageMap[k] = x
      BY <3>3, <3>4 DEF UserPages
    <3>6. kfree(UserPages(own[p], n))
      BY <2>2
    <3> HIDE DEF K
    <3>7. K \in SUBSET Place
      BY DEF K
    <3> QED
      BY <1>b, <3>2, <3>5, <3>6, <3>7
  <2> QED
    BY <1>3, <2>1, <2>2 DEF growproc
<1>4. ASSUME NEW p \in Proc, SetupDir(p) PROVE Apart(PageMap', freelist')
  <2>1. PICK x \in freelist : freelist' = freelist \ {x} /\ new' = [new EXCEPT ![p].dir = x]
    BY Zenon, <1>4 DEF SetupDir, kalloc, First
  <2>2. UNCHANGED <<own, kstack, job>> /\ new[p].dir = 0
    BY <1>4 DEF SetupDir
  <2>3. /\ new'[p].dir = x /\ new'[p].tab = new[p].tab /\ new'[p].pg = new[p].pg
        /\ \A q \in Proc : q # p => new'[q] = new[q]
    BY <1>n, <1>r, <2>1 DEF Space
  <2> DEFINE k == <<"newdir", p, 0>>
  <2>5. k \in Place /\ PageMap[k] = 0 /\ PageMap'[k] = x
    BY Zenon, <2>2, <2>3, PlaceIs, HeldIs, HeldIsNext
  <2>6. ASSUME NEW l \in Place, l # k PROVE PageMap'[l] = PageMap[l]
    BY <2>2, <2>3, <2>6, PlaceParts, HeldIs, HeldIsNext, HeldStays DEF StillHeld, Own, New
  <2> HIDE DEF k
  <2> QED
    BY <1>t, <2>1, <2>5, <2>6, Take
<1>5. ASSUME NEW p \in Proc, NEW t \in Table, new[p].tab[t] = 0, NEW x \in freelist,
             freelist' = freelist \ {x}, new' = [new EXCEPT ![p] = [new[p] EXCEPT !.tab[t] = x]],
             UNCHANGED <<own, kstack, job>>
      PROVE  Apart(PageMap', freelist')
  <2>1. /\ new'[p].dir = new[p].dir /\ new'[p].pg = new[p].pg
        /\ \A u \in Table : new'[p].tab[u] = IF u = t THEN x ELSE new[p].tab[u]
        /\ \A q \in Proc : q # p => new'[q] = new[q]
    BY <1>n, <1>r, <1>5 DEF Space
  <2> DEFINE k == <<"newtab", p, t>>
  <2>5. k \in Place /\ PageMap[k] = 0 /\ PageMap'[k] = x
    <3>1. k \in Place /\ k[1] = "newtab" /\ k[2] = p /\ k[3] = t
      BY Zenon, PlaceIs
    <3>2. PageMap[k] = new[p].tab[t] /\ PageMap'[k] = new'[p].tab[t]
      BY Zenon, <3>1, HeldIs, HeldIsNext
    <3> QED
      BY <1>5, <2>1, <3>1, <3>2
  <2>6. ASSUME NEW l \in Place, l # k PROVE PageMap'[l] = PageMap[l]
    BY <1>5, <2>1, <2>6, PlaceParts, HeldIs, HeldIsNext, HeldStays DEF StillHeld, Own, New
  <2> HIDE DEF k
  <2> QED
    BY <1>5, <1>t, <2>5, <2>6, Take
<1>6. ASSUME NEW p \in Proc, NEW t \in Table, own[p].tab[t] = 0, NEW x \in freelist,
             freelist' = freelist \ {x}, own' = [own EXCEPT ![p] = [own[p] EXCEPT !.tab[t] = x]],
             UNCHANGED <<new, kstack, job>>
      PROVE  Apart(PageMap', freelist')
  <2>1. /\ own'[p].dir = own[p].dir /\ own'[p].pg = own[p].pg
        /\ \A u \in Table : own'[p].tab[u] = IF u = t THEN x ELSE own[p].tab[u]
        /\ \A q \in Proc : q # p => own'[q] = own[q]
    BY <1>n, <1>r, <1>6 DEF Space
  <2> DEFINE k == <<"tab", p, t>>
  <2>5. k \in Place /\ PageMap[k] = 0 /\ PageMap'[k] = x
    <3>1. k \in Place /\ k[1] = "tab" /\ k[2] = p /\ k[3] = t
      BY Zenon, PlaceIs
    <3>2. PageMap[k] = own[p].tab[t] /\ PageMap'[k] = own'[p].tab[t]
      BY Zenon, <3>1, HeldIs, HeldIsNext
    <3> QED
      BY <1>6, <2>1, <3>1, <3>2
  <2>6. ASSUME NEW l \in Place, l # k PROVE PageMap'[l] = PageMap[l]
    BY <1>6, <2>1, <2>6, PlaceParts, HeldIs, HeldIsNext, HeldStays DEF StillHeld, Own, New
  <2> HIDE DEF k
  <2> QED
    BY <1>6, <1>t, <2>5, <2>6, Take
<1>7. ASSUME NEW p \in Proc, SetupKernel(p) PROVE Apart(PageMap', freelist')
  <2>1. PICK x \in freelist : freelist' = freelist \ {x} /\ new' = [new EXCEPT ![p].tab[Kernel] = x]
    BY Zenon, <1>7 DEF SetupKernel, kalloc, First
  <2>2. UNCHANGED <<own, kstack, job>> /\ new[p].tab[Kernel] = 0
    BY <1>7 DEF SetupKernel
  <2>3. Kernel \in Table
    BY MemoryConstants DEF Kernel, Table
  <2>4. new' = [new EXCEPT ![p] = [new[p] EXCEPT !.tab[Kernel] = x]]
    BY <1>n, <2>1
  <2> QED
    BY Zenon, <1>5, <2>1, <2>2, <2>3, <2>4
<1>8. ASSUME NEW p \in Proc, GetTable(p) PROVE Apart(PageMap', freelist')
  <2> DEFINE t == job[p].a \div SPAN
  <2>1. PICK x \in freelist : freelist' = freelist \ {x} /\ SetTarget(p, [Target(p) EXCEPT !.tab[t] = x])
    BY <1>8 DEF GetTable, kalloc, First
  <2>2. UNCHANGED <<kstack, job>> /\ Target(p).tab[t] = 0
    BY <1>8 DEF GetTable
  <2>3. t \in Table
    <3>1. job[p].a \in 0..MaxPages /\ SPAN \in Nat \ {0} /\ MaxPages \in Nat
      BY <1>r, MemoryConstants
    <3>2. job[p].a \div SPAN \in 0..MaxPages
      BY <3>1
    <3> QED
      BY <3>2 DEF Table
  <2> HIDE DEF t
  <2>4. CASE job[p].op = "grow"
    <3>1. Target(p) = own[p] /\ own' = [own EXCEPT ![p] = [own[p] EXCEPT !.tab[t] = x]] /\ new' = new
      BY <2>1, <2>4 DEF Target, SetTarget
    <3> QED
      BY Zenon, <1>6, <2>1, <2>2, <2>3, <3>1
  <2>5. CASE job[p].op # "grow"
    <3>1. Target(p) = new[p] /\ new' = [new EXCEPT ![p] = [new[p] EXCEPT !.tab[t] = x]] /\ own' = own
      BY <2>1, <2>5 DEF Target, SetTarget
    <3> QED
      BY Zenon, <1>5, <2>1, <2>2, <2>3, <3>1
  <2> QED
    BY <2>4, <2>5
<1>9. ASSUME NEW p \in Proc, GetPage(p) PROVE Apart(PageMap', freelist')
  <2>1. PICK x \in freelist : freelist' = freelist \ {x} /\ job' = [job EXCEPT ![p].mem = x]
    BY Zenon, <1>9 DEF GetPage, kalloc, First
  <2>2. UNCHANGED <<own, kstack, new>> /\ job[p].mem = 0
    BY <1>9 DEF GetPage
  <2>3. job'[p].mem = x /\ \A q \in Proc : q # p => job'[q] = job[q]
    BY <1>n, <1>r, <2>1 DEF Job
  <2> DEFINE k == <<"mem", p, 0>>
  <2>5. k \in Place /\ PageMap[k] = 0 /\ PageMap'[k] = x
    BY ZenonT(40), <2>2, <2>3, PlaceIs, HeldIs, HeldIsNext
  <2>6. ASSUME NEW l \in Place, l # k PROVE PageMap'[l] = PageMap[l]
    BY <2>2, <2>3, <2>6, PlaceParts, HeldIs, HeldIsNext, HeldStays DEF StillHeld, Own, New
  <2> HIDE DEF k
  <2> QED
    BY <1>t, <2>1, <2>5, <2>6, Take
<1>10. ASSUME NEW p \in Proc, MapPage(p) PROVE Apart(PageMap', freelist')
  <2>1. PICK a \in User : a = job[p].a /\ job[p].op # "none"
    BY <1>10, <1>r, MemoryConstants DEF MapPage, Building, User
  <2>2. /\ SetTarget(p, [Target(p) EXCEPT !.pg[a] = job[p].mem])
        /\ UNCHANGED <<freelist, kstack>>
    BY <1>10, <2>1 DEF MapPage
  <2>3. job'[p].mem = 0 /\ \A q \in Proc : q # p => job'[q] = job[q]
    BY <1>10, <1>n, <1>r DEF MapPage, Job
  <2>4. ASSUME NEW x \in {"pg", "newpg"}, PageMap[<<x, p, a>>] = 0, PageMap'[<<x, p, a>>] = job[p].mem,
               \A k \in Place : k # <<x, p, a>> /\ k # <<"mem", p, 0>> => PageMap'[k] = PageMap[k]
        PROVE  Apart(PageMap', freelist')
    <3> DEFINE k == <<x, p, a>>
               l == <<"mem", p, 0>>
               m == [i \in Place |-> IF i = k THEN l ELSE IF i = l THEN k ELSE i]
    <3>1. k \in Place /\ l \in Place /\ k # l
      BY Zenon, PlaceIs
    <3>2. PageMap[l] = job[p].mem /\ PageMap'[l] = 0
      BY <2>3, <3>1, HeldIs, HeldIsNext
    <3>3. PageMap[k] = 0 /\ PageMap'[k] = job[p].mem /\ \A i \in Place : i # k /\ i # l => PageMap'[i] = PageMap[i]
      BY <2>4
    <3> HIDE DEF k, l
    <3>4. m \in [Place -> Place] /\ \A i \in Place : m[m[i]] = i
      BY <3>1
    <3>5. \A i \in Place : PageMap'[i] = PageMap[m[i]]
      BY <3>1, <3>2, <3>3
    <3> HIDE DEF m
    <3>6. Apart(PageMap', freelist)
      BY <1>t, <3>4, <3>5, Exchange
    <3> QED
      BY <2>2, <3>6
  <2>5. CASE job[p].op = "grow"
    <3>1. Target(p) = own[p] /\ own' = [own EXCEPT ![p] = [own[p] EXCEPT !.pg[a] = job[p].mem]] /\ new' = new
      BY <2>2, <2>5 DEF Target, SetTarget
    <3>2. own[p].pg[a] = 0
      BY <1>prog, <1>r, <2>1, <2>5 DEF Progress, MappedBelow
    <3>3. /\ own'[p].dir = own[p].dir /\ own'[p].tab = own[p].tab
          /\ \A b \in User : own'[p].pg[b] = IF b = a THEN job[p].mem ELSE own[p].pg[b]
          /\ \A q \in Proc : q # p => own'[q] = own[q]
      BY <1>n, <1>r, <3>1 DEF Space
    <3> DEFINE k == <<"pg", p, a>>
    <3>4. k \in Place /\ k[1] = "pg" /\ k[2] = p /\ k[3] = a
      BY Zenon, PlaceIs
    <3>5. PageMap[k] = 0 /\ PageMap'[k] = job[p].mem
      BY <3>2, <3>3, <3>4, HeldIs, HeldIsNext
    <3>6. ASSUME NEW i \in Place, i # k, i # <<"mem", p, 0>> PROVE PageMap'[i] = PageMap[i]
      <4>1. kstack' = kstack /\ new' = new
        BY <2>2, <3>1
      <4> QED
        BY <2>3, <3>3, <3>6, <4>1, PlaceParts, HeldIs, HeldIsNext, HeldStays DEF StillHeld, Own, New
    <3> QED
      BY <2>4, <3>5, <3>6
  <2>6. CASE job[p].op # "grow"
    <3>1. Target(p) = new[p] /\ new' = [new EXCEPT ![p] = [new[p] EXCEPT !.pg[a] = job[p].mem]] /\ own' = own
      BY <2>2, <2>6 DEF Target, SetTarget
    <3>2. new[p].pg[a] = 0
      BY <1>prog, <1>r, <2>1, <2>6 DEF Progress, MappedBelow
    <3>3. /\ new'[p].dir = new[p].dir /\ new'[p].tab = new[p].tab
          /\ \A b \in User : new'[p].pg[b] = IF b = a THEN job[p].mem ELSE new[p].pg[b]
          /\ \A q \in Proc : q # p => new'[q] = new[q]
      BY <1>n, <1>r, <3>1 DEF Space
    <3> DEFINE k == <<"newpg", p, a>>
    <3>4. k \in Place /\ k[1] = "newpg" /\ k[2] = p /\ k[3] = a
      BY Zenon, PlaceIs
    <3>5. PageMap[k] = 0 /\ PageMap'[k] = job[p].mem
      BY <3>2, <3>3, <3>4, HeldIs, HeldIsNext
    <3>6. ASSUME NEW i \in Place, i # k, i # <<"mem", p, 0>> PROVE PageMap'[i] = PageMap[i]
      <4>1. kstack' = kstack /\ own' = own
        BY <2>2, <3>1
      <4> QED
        BY <2>3, <3>3, <3>6, <4>1, PlaceParts, HeldIs, HeldIsNext, HeldStays DEF StillHeld, Own, New
    <3> QED
      BY <2>4, <3>5, <3>6
  <2> QED
    BY <2>5, <2>6
<1>11. ASSUME NEW p \in Proc, ForkDone(p) PROVE Apart(PageMap', freelist')
  <2>0. PICK c \in Proc : c = job[p].child
    BY <1>chld, <1>11 DEF Children, ForkDone, Built
  <2>1. /\ job[p].op = "fork" /\ job[p].a = job[p].goal
        /\ own' = [own EXCEPT ![c] = new[p]] /\ new' = [new EXCEPT ![p] = NoSpace]
        /\ job' = [job EXCEPT ![p] = NoJob] /\ UNCHANGED <<freelist, kstack>>
    BY <1>11, <2>0 DEF ForkDone, Built
  <2>2. job[p].mem = 0 /\ own[c] = NoSpace
    BY <1>chld, <1>slot, <1>prog, <1>r, <2>0, <2>1 DEF Children, Slot, Progress
  <2>3. /\ own'[c] = new[p] /\ new'[p] = NoSpace /\ \A q \in Proc : job'[q].mem = job[q].mem
        /\ \A q \in Proc : q # c => own'[q] = own[q]
        /\ \A q \in Proc : q # p => new'[q] = new[q]
    BY <1>n, <2>1, <2>2, NothingBuilt
  <2>4. \A k \in Place : PageMap'[k] = PageMap[Swap(c, p)[k]]
    BY <2>1, <2>2, <2>3, Swapped DEF Trades
  <2>5. Apart(PageMap', freelist)
    <3> DEFINE m == Swap(c, p)
    <3>1. /\ m \in [Place -> Place] /\ \A k \in Place : m[m[k]] = k
          /\ \A k \in Place : PageMap'[k] = PageMap[m[k]]
      BY <2>4, SwapIsInvolution
    <3> HIDE DEF m
    <3> QED
      BY <1>t, <3>1, Exchange
  <2> QED
    BY <2>1, <2>5
<1>12. ASSUME NEW p \in Proc, GrowDone(p) \/ ExecStack(p) PROVE Apart(PageMap', freelist')
  <2>1. UNCHANGED <<freelist, kstack, own, new>>
    BY <1>12 DEF GrowDone, ExecStack
  <2>2. \A q \in Proc : job'[q].mem = job[q].mem
    <3>1. CASE GrowDone(p)
      <4>1. job[p].mem = 0
        BY <1>prog, <1>r, <3>1 DEF GrowDone, Built, Progress
      <4> QED
        BY <1>n, <3>1, <4>1, NothingBuilt DEF GrowDone
    <3>2. CASE ExecStack(p)
      BY <1>n, <1>r, <3>2 DEF ExecStack, Job
    <3> QED
      BY <1>12, <3>1, <3>2
  <2> QED
    BY <1>s, <2>1, <2>2 DEF StillHeld
<1>13. ASSUME NEW p \in Proc, ExecDone(p) PROVE Apart(PageMap', freelist')
  <2>1. /\ job[p].op = "stack" /\ job[p].a = job[p].goal /\ kfree(PagesOf(own[p]))
        /\ own' = [own EXCEPT ![p] = new[p]] /\ new' = [new EXCEPT ![p] = NoSpace]
        /\ job' = [job EXCEPT ![p] = NoJob] /\ UNCHANGED kstack
    BY <1>13 DEF ExecDone, Built
  <2>2. job[p].mem = 0
    BY <1>prog, <1>r, <2>1 DEF Progress
  <2>3. /\ own'[p] = new[p] /\ new'[p] = NoSpace /\ \A q \in Proc : job'[q].mem = job[q].mem
        /\ \A q \in Proc : q # p => own'[q] = own[q] /\ new'[q] = new[q]
    BY <1>n, <2>1, <2>2, NothingBuilt
  <2> DEFINE H == [k \in Place |-> IF k \in OwnPlaces(p) THEN 0 ELSE PageMap[k]]
  <2>4. Apart(H, freelist')
    <3>1. H \in [Place -> PageOrNone] /\ OwnPlaces(p) \in SUBSET Place
      BY <1>t DEF PageOrNone, OwnPlaces
    <3>2. \A k \in Place : H[k] = IF k \in OwnPlaces(p) THEN 0 ELSE PageMap[k]
      OBVIOUS
    <3> HIDE DEF H
    <3>3. Apart(H, freelist \cup (PagesOf(own[p]) \ {0}))
      <4> DEFINE K == OwnPlaces(p)
                 S == PagesOf(own[p])
      <4>1. /\ K \in SUBSET Place /\ \A k \in Place : H[k] = IF k \in K THEN 0 ELSE PageMap[k]
            /\ \A k \in K : PageMap[k] \in S
        BY <3>1, <3>2, SpaceIsFreed
      <4>2. \A x \in S : x # 0 => \E l \in K : PageMap[l] = x
        BY SpaceIsFreed
      <4> HIDE DEF K, S
      <4>3. Apart(H, freelist \cup (S \ {0}))
        BY ZenonT(40), <3>1, <4>1, <4>2, GiveBack
      <4> QED
        BY <4>3 DEF S
    <3> QED
      BY <2>1, <3>3 DEF kfree
  <2>5. \A k \in Place : PageMap'[k] = H[Swap(p, p)[k]]
    <3>1. ASSUME NEW k \in Place PROVE PageMap'[k] = H[Swap(p, p)[k]]
      <4>1. Swap(p, p)[k] \in Place
        BY SwapIsInvolution
      <4>2. CASE k \in NewPlaces(p)
        <5>1. Swap(p, p)[k] \in OwnPlaces(p)
          BY <4>1, <4>2, PlaceParts DEF Swap, NewPlaces, OwnPlaces, New, Own
        <5>2. PageMap'[k] = 0
          BY <2>3, <4>2, PlaceParts, HeldIsNext, NothingBuilt DEF NewPlaces, New
        <5> QED
          BY <4>1, <5>1, <5>2
      <4>3. CASE k \notin NewPlaces(p)
        <5>1. Swap(p, p)[k] \notin OwnPlaces(p)
          BY <4>1, <4>3, PlaceParts DEF Swap, NewPlaces, OwnPlaces, New, Own
        <5>2. PageMap'[k] = PageMap[Swap(p, p)[k]]
          <6>1. CASE k \in OwnPlaces(p)
            BY <2>3, <4>1, <6>1, PlaceParts, HeldIs, HeldIsNext DEF Swap, OwnPlaces, Own
          <6>2. CASE k \notin OwnPlaces(p)
            <7>1. Swap(p, p)[k] = k
              BY <4>3, <6>2 DEF Swap, NewPlaces, OwnPlaces, New, Own
            <7> QED
              BY <2>1, <2>3, <4>3, <6>2, <7>1, PlaceParts, HeldStays DEF StillHeld, Own, New, OwnPlaces, NewPlaces
          <6> QED
            BY <6>1, <6>2
        <5> QED
          BY <4>1, <5>1, <5>2
      <4> QED
        BY <4>2, <4>3
    <3> QED
      BY <3>1
  <2> HIDE DEF H
  <2> QED
    <3> DEFINE m == Swap(p, p)
    <3>1. /\ m \in [Place -> Place] /\ \A k \in Place : m[m[k]] = k
          /\ \A k \in Place : PageMap'[k] = H[m[k]]
      BY <2>5, SwapIsInvolution
    <3> HIDE DEF m
    <3> QED
      BY <1>t, <2>4, <3>1, Exchange
<1>14. ASSUME NEW p \in Proc, ForkFails(p) PROVE Apart(PageMap', freelist')
  <2>0. PICK c \in Proc : c = job[p].child
    BY <1>chld, <1>14 DEF Children, ForkFails
  <2> DEFINE K == NewPlaces(p) \cup {<<"mem", p, 0>>, <<"kstack", c, 0>>}
             S == PagesOf(new[p]) \cup {job[p].mem, kstack[c]}
  <2>1. /\ kfree(S) /\ new' = [new EXCEPT ![p] = NoSpace] /\ kstack' = [kstack EXCEPT ![c] = 0]
        /\ job' = [job EXCEPT ![p] = NoJob] /\ UNCHANGED own
    BY <1>14, <2>0 DEF ForkFails
  <2>2. /\ new'[p] = NoSpace /\ kstack'[c] = 0 /\ job'[p].mem = 0 /\ own' = own
        /\ \A q \in Proc : q # p => new'[q] = new[q] /\ job'[q] = job[q]
        /\ \A q \in Proc : q # c => kstack'[q] = kstack[q]
    BY <1>n, <2>1, NothingBuilt
  <2>3. /\ <<"mem", p, 0>> \in Place /\ PageMap[<<"mem", p, 0>>] = job[p].mem
        /\ <<"kstack", c, 0>> \in Place /\ PageMap[<<"kstack", c, 0>>] = kstack[c]
    BY ZenonT(40), PlaceIs, HeldIs
  <2>4. /\ K \in SUBSET Place /\ \A k \in K : PageMap[k] \in S
        /\ \A x \in S : \E k \in K : PageMap[k] = x
    <3>1. K \in SUBSET Place
      BY <2>3 DEF NewPlaces
    <3>2. \A k \in K : PageMap[k] \in S
      BY <2>3, SpaceIsFreed
    <3>3. \A x \in S : \E k \in K : PageMap[k] = x
      BY <2>3, SpaceIsFreed
    <3> QED
      BY <3>1, <3>2, <3>3
  <2>5. ASSUME NEW k \in Place PROVE PageMap'[k] = IF k \in K THEN 0 ELSE PageMap[k]
    <3>1. CASE k \in K
      BY <2>2, <3>1, PlaceParts, HeldIsNext, NothingBuilt DEF NewPlaces, New
    <3>2. CASE k \notin K
      BY <2>2, <3>2, PlaceParts, HeldStays DEF StillHeld, Own, New, NewPlaces
    <3> QED
      BY <3>1, <3>2
  <2>6. kfree(S)
    BY <2>1
  <2> HIDE DEF K, S
  <2> QED
    BY <1>b, <2>4, <2>5, <2>6
<1>15. ASSUME NEW p \in Proc, ExecFails(p) PROVE Apart(PageMap', freelist')
  <2> DEFINE K == NewPlaces(p) \cup {<<"mem", p, 0>>}
             S == PagesOf(new[p]) \cup {job[p].mem}
  <2>1. /\ kfree(S) /\ new' = [new EXCEPT ![p] = NoSpace]
        /\ job' = [job EXCEPT ![p] = NoJob] /\ UNCHANGED <<own, kstack>>
    BY <1>15 DEF ExecFails
  <2>2. /\ new'[p] = NoSpace /\ job'[p].mem = 0 /\ own' = own /\ kstack' = kstack
        /\ \A q \in Proc : q # p => new'[q] = new[q] /\ job'[q] = job[q]
    BY <1>n, <2>1, NothingBuilt
  <2>3. <<"mem", p, 0>> \in Place /\ PageMap[<<"mem", p, 0>>] = job[p].mem
    BY ZenonT(40), PlaceIs, HeldIs
  <2>4. /\ K \in SUBSET Place /\ \A k \in K : PageMap[k] \in S
        /\ \A x \in S : \E k \in K : PageMap[k] = x
    <3>1. K \in SUBSET Place
      BY <2>3 DEF NewPlaces
    <3>2. \A k \in K : PageMap[k] \in S
      BY <2>3, SpaceIsFreed
    <3>3. \A x \in S : \E k \in K : PageMap[k] = x
      BY <2>3, SpaceIsFreed
    <3> QED
      BY <3>1, <3>2, <3>3
  <2>5. ASSUME NEW k \in Place PROVE PageMap'[k] = IF k \in K THEN 0 ELSE PageMap[k]
    <3>1. CASE k \in K
      BY <2>2, <3>1, PlaceParts, HeldIsNext, NothingBuilt DEF NewPlaces, New
    <3>2. CASE k \notin K
      BY <2>2, <3>2, PlaceParts, HeldStays DEF StillHeld, Own, New, NewPlaces
    <3> QED
      BY <3>1, <3>2
  <2>6. kfree(S)
    BY <2>1
  <2> HIDE DEF K, S
  <2> QED
    BY <1>b, <2>4, <2>5, <2>6
<1>16. ASSUME NEW p \in Proc, GrowFails(p) PROVE Apart(PageMap', freelist')
  <2> DEFINE K == {k \in Place : k[1] = "pg" /\ k[2] = p /\ k[3] >= sz[p]} \cup {<<"mem", p, 0>>}
             S == UserPages(own[p], sz[p]) \cup {job[p].mem}
  <2>1. /\ kfree(S) /\ own' = [own EXCEPT ![p].pg = Kept(p)]
        /\ job' = [job EXCEPT ![p] = NoJob] /\ UNCHANGED <<new, kstack>>
    BY <1>16 DEF GrowFails
  <2>2. /\ own'[p].dir = own[p].dir /\ own'[p].tab = own[p].tab /\ new' = new /\ kstack' = kstack
        /\ \A b \in User : own'[p].pg[b] = IF b >= sz[p] THEN 0 ELSE own[p].pg[b]
        /\ \A q \in Proc : q # p => own'[q] = own[q] /\ job'[q] = job[q]
        /\ job'[p].mem = 0
    BY <1>n, <1>r, <2>1, NothingBuilt DEF Space, Kept
  <2>3. <<"mem", p, 0>> \in Place /\ PageMap[<<"mem", p, 0>>] = job[p].mem
    BY Zenon, PlaceIs, HeldIs
  <2>4. ASSUME NEW b \in User, b >= sz[p] PROVE \E k \in K : PageMap[k] = own[p].pg[b]
    <3> DEFINE k == <<"pg", p, b>>
    <3>1. k \in K /\ PageMap[k] = own[p].pg[b]
      BY Zenon, <2>4, PlaceIs, HeldIs
    <3> QED
      BY <3>1
  <2>5. ASSUME NEW k \in K PROVE \/ k = <<"mem", p, 0>>
                                 \/ k[3] \in User /\ k[3] >= sz[p] /\ PageMap[k] = own[p].pg[k[3]]
    BY PlaceParts, HeldIs
  <2>6. /\ K \in SUBSET Place /\ \A k \in K : PageMap[k] \in S
        /\ \A x \in S : \E k \in K : PageMap[k] = x
    <3>1. K \in SUBSET Place
      BY <2>3
    <3>2. \A k \in K : PageMap[k] \in S
      BY <2>3, <2>5 DEF UserPages
    <3>3. \A x \in S : \E k \in K : PageMap[k] = x
      BY <2>3, <2>4 DEF UserPages
    <3> QED
      BY <3>1, <3>2, <3>3
  <2>7. ASSUME NEW k \in Place PROVE PageMap'[k] = IF k \in K THEN 0 ELSE PageMap[k]
    <3>1. CASE k \in K
      BY SMTT(20), ZenonT(20), <2>2, <3>1, PlaceParts, HeldIsNext
    <3>2. CASE k \notin K
      BY <2>2, <3>2, PlaceParts, HeldIs, HeldIsNext, HeldStays DEF StillHeld, Own, New
    <3> QED
      BY <3>1, <3>2
  <2>8. kfree(S)
    BY <2>1
  <2> HIDE DEF K, S
  <2> QED
    BY <1>b, <2>6, <2>7, <2>8
<1>17. ASSUME NEW p \in Proc, wait(p) PROVE Apart(PageMap', freelist')
  <2> DEFINE K == OwnPlaces(p) \cup {<<"kstack", p, 0>>}
             S == PagesOf(own[p]) \cup {kstack[p]}
  <2>1. /\ kfree(S) /\ own' = [own EXCEPT ![p] = NoSpace]
        /\ kstack' = [kstack EXCEPT ![p] = 0] /\ UNCHANGED <<new, job>>
    BY <1>17 DEF wait
  <2>2. /\ own'[p] = NoSpace /\ kstack'[p] = 0 /\ new' = new /\ job' = job
        /\ \A q \in Proc : q # p => own'[q] = own[q] /\ kstack'[q] = kstack[q]
    BY <1>n, <2>1, NothingBuilt
  <2>3. <<"kstack", p, 0>> \in Place /\ PageMap[<<"kstack", p, 0>>] = kstack[p]
    BY ZenonT(40), PlaceIs, HeldIs
  <2>4. /\ K \in SUBSET Place /\ \A k \in K : PageMap[k] \in S
        /\ \A x \in S : \E k \in K : PageMap[k] = x
    <3>1. K \in SUBSET Place
      BY <2>3 DEF OwnPlaces
    <3>2. \A k \in K : PageMap[k] \in S
      BY <2>3, SpaceIsFreed
    <3>3. \A x \in S : \E k \in K : PageMap[k] = x
      BY <2>3, SpaceIsFreed
    <3> QED
      BY <3>1, <3>2, <3>3
  <2>5. ASSUME NEW k \in Place PROVE PageMap'[k] = IF k \in K THEN 0 ELSE PageMap[k]
    <3>1. CASE k \in K
      BY <2>2, <3>1, PlaceParts, HeldIsNext, NothingBuilt DEF OwnPlaces, Own
    <3>2. CASE k \notin K
      BY <2>2, <3>2, PlaceParts, HeldStays DEF StillHeld, Own, New, OwnPlaces
    <3> QED
      BY <3>1, <3>2
  <2>6. kfree(S)
    BY <2>1
  <2> HIDE DEF K, S
  <2> QED
    BY <1>b, <2>4, <2>5, <2>6
<1>18. ASSUME NEW p \in Proc, exit(p) PROVE Apart(PageMap', freelist')
  BY <1>18, <1>s DEF exit, StillHeld
<1>19. CASE UNCHANGED vars
  BY <1>19, <1>s DEF vars, StillHeld
<1>20. Apart(PageMap', freelist')
  BY Zenon, <1>1, <1>2, <1>3, <1>4, <1>7, <1>8, <1>9, <1>10, <1>11, <1>12, <1>13, <1>14, <1>15, <1>16,
     <1>17, <1>18, <1>19 DEF Next
<1> QED
  BY Zenon, <1>z, <1>20

MemInv == MemShape /\ Apart(PageMap, freelist)

LEMMA MemInvariant == Spec => []MemInv
<1>1. Init => MemInv
  BY Zenon, MemInit, ApartInit DEF MemInv
<1>2. MemInv /\ [Next]_vars => MemInv'
  <2>1. MemShape' => MemType'
    BY DEF MemShape
  <2> QED
    BY Zenon, <2>1, MemStep, ApartStep DEF MemInv
<1> QED
  BY <1>1, <1>2, PTL DEF Spec

(***************************************************************************)
(* However many processes and pages there are and wherever kalloc() finds  *)
(* the list empty, fork(), exec(), sbrk() and wait() neither lose a page   *)
(* nor give back one that is still in use.                                 *)
(***************************************************************************)
THEOREM NoPageIsLost == Spec => []PagesAccounted
<1>1. MemInv => PagesAccounted
  BY Zenon, ApartIsAccounted DEF MemInv
<1> QED
  BY <1>1, MemInvariant, PTL

(***************************************************************************)
(* A process has the pages below its size, whole calls that failed half    *)
(* way included.                                                           *)
(***************************************************************************)
THEOREM ImagesAreComplete == Spec => []ImageComplete
<1>1. MemInv => ImageComplete
  BY Zenon, ShapeIsComplete DEF MemInv
<1> QED
  BY <1>1, MemInvariant, PTL

=============================================================================
