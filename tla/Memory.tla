------------------------------- MODULE Memory -------------------------------
(* Physical pages: the free list (kalloc.c), page directories, page tables   *)
(* and user pages (vm.c), and the calls that take and return them: fork,     *)
(* exec, sbrk (growproc) and wait.  Any kalloc may find the list empty; the  *)
(* processes interleave between any two of them.  Sizes are in pages, and a  *)
(* page table maps SPAN user pages; the kernel part of an address space      *)
(* takes one table.  Returning pages one by one is one step: in between      *)
(* there is only less memory free.                                           *)
EXTENDS Naturals

CONSTANTS Proc, InitProc, NPAGE, SPAN,
          MaxPages,   \* KERNBASE: limit of an address space
          Images,     \* sizes of the programs exec loads, without the stack
          Growths     \* sizes sbrk changes a process to

\* The first process takes five pages; a program and an address space that
\* sbrk makes fit below KERNBASE.
ASSUME MemoryConstants ==
  /\ InitProc \in Proc /\ NPAGE \in Nat /\ NPAGE >= 5
  /\ SPAN \in Nat \ {0} /\ MaxPages \in Nat \ {0}
  /\ Images \subseteq 0 .. MaxPages /\ Growths \subseteq 0 .. MaxPages

Page == 1 .. NPAGE
None == 0
User == 0 .. MaxPages - 1
Table == 0 .. MaxPages     \* index of a user page table; MaxPages: the kernel's
Kernel == MaxPages
NoSpace == [dir |-> None, tab |-> [t \in Table |-> None], pg |-> [a \in User |-> None]]

VARIABLES freelist,   \* the pages on it
          state,      \* [Proc -> {"UNUSED", "EMBRYO", "LIVE", "ZOMBIE"}]
          kstack, sz, \* of the processes
          own, new,   \* address spaces: p->pgdir, and one being built
          job         \* [Proc -> the kernel operation in progress]

vars == <<freelist, state, kstack, sz, own, new, job>>

Call(op, c, from, to) == [op |-> op, child |-> c, a |-> from, goal |-> to, mem |-> None]
NoJob == Call("none", None, 0, 0)
\* userinit: the first process has a page of code.
FirstSpace == [dir |-> 2, tab |-> [NoSpace.tab EXCEPT ![Kernel] = 3, ![0] = 4],
               pg |-> [NoSpace.pg EXCEPT ![0] = 5]]
Init ==
  /\ freelist = Page \ 1 .. 5
  /\ state = [p \in Proc |-> IF p = InitProc THEN "LIVE" ELSE "UNUSED"]
  /\ kstack = [p \in Proc |-> IF p = InitProc THEN 1 ELSE None]
  /\ sz = [p \in Proc |-> IF p = InitProc THEN 1 ELSE 0]
  /\ own = [p \in Proc |-> IF p = InitProc THEN FirstSpace ELSE NoSpace]
  /\ new = [p \in Proc |-> NoSpace]
  /\ job = [p \in Proc |-> NoJob]

-----------------------------------------------------------------------------
\* kalloc: a page off the list, or nothing.  Which page it is does not matter;
\* taking the first by number keeps the states few.
First(x) == x \in freelist /\ \A y \in freelist : x <= y
kalloc(x) == First(x) /\ freelist' = freelist \ {x}
kfree(S) == freelist' = freelist \cup (S \ {None})

\* What freevm returns: user pages, tables, the directory.
UserPages(s, from) == {s.pg[a] : a \in {b \in User : b >= from}}
BadPagesOf(s) == UserPages(s, 0) \cup {s.dir}                \* no tables
PagesOf(s) == UserPages(s, 0) \cup {s.tab[t] : t \in Table} \cup {s.dir}

\* The process can make a system call: it has its code.  Without, it faults,
\* is killed and exits.
Running(p) == state[p] = "LIVE" /\ job[p] = NoJob /\ own[p].pg[0] # None

\* allocproc: a slot and a kernel stack.
fork(p, c) ==
  /\ Running(p) /\ state[c] = "UNUSED"
  /\ \E x \in Page :
       /\ kalloc(x)
       /\ kstack' = [kstack EXCEPT ![c] = x]
       /\ state' = [state EXCEPT ![c] = "EMBRYO"]
       /\ job' = [job EXCEPT ![p] = Call("fork", c, 0, sz[p])]
  /\ UNCHANGED <<sz, own, new>>

exec(p, n) ==
  /\ Running(p)
  /\ job' = [job EXCEPT ![p] = Call("exec", None, 0, n)]
  /\ UNCHANGED <<freelist, state, kstack, sz, own, new>>

\* growproc: growing goes page by page, shrinking is deallocuvm.  A shrink to
\* nothing frees the pages, fails and leaves the size.
growproc(p, n) ==
  \/ /\ Running(p) /\ n > sz[p]
     /\ job' = [job EXCEPT ![p] = Call("grow", None, sz[p], n)]
     /\ UNCHANGED <<freelist, state, kstack, sz, own, new>>
  \/ /\ Running(p) /\ n < sz[p] /\ (n = 0 => p # InitProc)  \* init never does
     /\ kfree(UserPages(own[p], n))
     /\ own' = [own EXCEPT ![p].pg = [a \in User |-> IF a >= n THEN None ELSE @[a]]]
     /\ sz' = IF n = 0 THEN sz ELSE [sz EXCEPT ![p] = n]
     /\ UNCHANGED <<state, kstack, new, job>>

-----------------------------------------------------------------------------
\* setupkvm, for fork and exec: the directory, then the kernel's table.
SetupDir(p) ==
  /\ job[p].op \in {"fork", "exec"} /\ new[p].dir = None
  /\ \E x \in Page : kalloc(x) /\ new' = [new EXCEPT ![p].dir = x]
  /\ UNCHANGED <<state, kstack, sz, own, job>>

SetupKernel(p) ==
  /\ job[p].op \in {"fork", "exec"} /\ new[p].dir # None /\ new[p].tab[Kernel] = None
  /\ \E x \in Page : kalloc(x) /\ new' = [new EXCEPT ![p].tab[Kernel] = x]
  /\ UNCHANGED <<state, kstack, sz, own, job>>

\* The loops of allocuvm and copyuvm: a page ...
Target(p) == IF job[p].op = "grow" THEN own[p] ELSE new[p]
SetTarget(p, s) ==
  IF job[p].op = "grow" THEN own' = [own EXCEPT ![p] = s] /\ UNCHANGED new
                        ELSE new' = [new EXCEPT ![p] = s] /\ UNCHANGED own
Building(p) ==
  /\ job[p].op # "none" /\ job[p].a < job[p].goal
  /\ Target(p).dir # None /\ Target(p).tab[Kernel] # None

GetPage(p) ==
  /\ Building(p) /\ job[p].mem = None
  /\ \E x \in Page : kalloc(x) /\ job' = [job EXCEPT ![p].mem = x]
  /\ UNCHANGED <<state, kstack, sz, own, new>>

\* ... a table for it if there is none (walkpgdir) ...
GetTable(p) ==
  LET t == job[p].a \div SPAN IN
  /\ Building(p) /\ job[p].mem # None /\ Target(p).tab[t] = None
  /\ \E x \in Page :
       kalloc(x) /\ SetTarget(p, [Target(p) EXCEPT !.tab[t] = x])
  /\ UNCHANGED <<state, kstack, sz, job>>

\* ... and the entry (mappages).
MapPage(p) ==
  LET a == job[p].a IN
  /\ Building(p) /\ job[p].mem # None /\ Target(p).tab[a \div SPAN] # None
  /\ SetTarget(p, [Target(p) EXCEPT !.pg[a] = job[p].mem])
  /\ job' = [job EXCEPT ![p].mem = None, ![p].a = a + 1]
  /\ UNCHANGED <<freelist, state, kstack, sz>>

Built(p, op) == job[p].op = op /\ job[p].a = job[p].goal /\ Target(p).tab[Kernel] # None

\* fork returns: the child has its image.
ForkDone(p) ==
  LET c == job[p].child IN
  /\ Built(p, "fork")
  /\ own' = [own EXCEPT ![c] = new[p]] /\ new' = [new EXCEPT ![p] = NoSpace]
  /\ sz' = [sz EXCEPT ![c] = sz[p]]
  /\ state' = [state EXCEPT ![c] = "LIVE"]
  /\ job' = [job EXCEPT ![p] = NoJob]
  /\ UNCHANGED <<freelist, kstack>>

GrowDone(p) ==
  /\ Built(p, "grow")
  /\ sz' = [sz EXCEPT ![p] = job[p].goal]
  /\ job' = [job EXCEPT ![p] = NoJob]
  /\ UNCHANGED <<freelist, state, kstack, own, new>>

\* exec: the program is loaded, two more pages for guard and stack ...
ExecStack(p) ==
  /\ Built(p, "exec") /\ job[p].goal + 2 <= MaxPages
  /\ job' = [job EXCEPT ![p].op = "stack", ![p].goal = @ + 2]
  /\ UNCHANGED <<freelist, state, kstack, sz, own, new>>

\* ... and the new image replaces the old.
ExecDone(p) ==
  /\ Built(p, "stack")
  /\ kfree(PagesOf(own[p]))
  /\ own' = [own EXCEPT ![p] = new[p]] /\ new' = [new EXCEPT ![p] = NoSpace]
  /\ sz' = [sz EXCEPT ![p] = job[p].goal]
  /\ job' = [job EXCEPT ![p] = NoJob]
  /\ UNCHANGED <<state, kstack>>

-----------------------------------------------------------------------------
\* The error paths: kalloc returned 0, or the program cannot be loaded.
OutOfMemory(p) ==
  /\ freelist = {} /\ job[p].op # "none"
  /\ \/ ~ Building(p) /\ Target(p).tab[Kernel] = None
     \/ Building(p) /\ job[p].mem = None
     \/ Building(p) /\ job[p].mem # None /\ Target(p).tab[job[p].a \div SPAN] = None
BadProgram(p) ==
  /\ job[p].op \in {"exec", "stack"} /\ job[p].mem = None
  /\ new[p].dir = None \/ new[p].tab[Kernel] # None
  /\ job[p].op = "stack" => job[p].a = job[p].goal

ForkFails(p) ==
  LET c == job[p].child IN
  /\ job[p].op = "fork" /\ OutOfMemory(p)
  /\ kfree(PagesOf(new[p]) \cup {job[p].mem, kstack[c]})
  /\ new' = [new EXCEPT ![p] = NoSpace]
  /\ kstack' = [kstack EXCEPT ![c] = None]
  /\ state' = [state EXCEPT ![c] = "UNUSED"]
  /\ job' = [job EXCEPT ![p] = NoJob]
  /\ UNCHANGED <<sz, own>>

ExecFails(p) ==
  /\ job[p].op \in {"exec", "stack"} /\ (OutOfMemory(p) \/ BadProgram(p))
  /\ kfree(PagesOf(new[p]) \cup {job[p].mem})
  /\ new' = [new EXCEPT ![p] = NoSpace]
  /\ job' = [job EXCEPT ![p] = NoJob]
  /\ UNCHANGED <<state, kstack, sz, own>>

\* allocuvm gives back the pages above the old size; tables stay.
Kept(p) == [a \in User |-> IF a >= sz[p] THEN None ELSE own[p].pg[a]]

BadUngrown(p) == [sz EXCEPT ![p] = job[p].goal]             \* the size is set first
Ungrown(p) == sz

GrowFails(p) ==
  /\ job[p].op = "grow" /\ OutOfMemory(p)
  /\ kfree(UserPages(own[p], sz[p]) \cup {job[p].mem})
  /\ own' = [own EXCEPT ![p].pg = Kept(p)]
  /\ sz' = Ungrown(p)
  /\ job' = [job EXCEPT ![p] = NoJob]
  /\ UNCHANGED <<state, kstack, new>>

exit(p) ==
  /\ p # InitProc /\ state[p] = "LIVE" /\ job[p] = NoJob
  /\ state' = [state EXCEPT ![p] = "ZOMBIE"]
  /\ UNCHANGED <<freelist, kstack, sz, own, new, job>>

\* wait, by whoever is the parent: stack and address space go back.
wait(p) ==
  /\ state[p] = "ZOMBIE"
  /\ kfree(PagesOf(own[p]) \cup {kstack[p]})
  /\ kstack' = [kstack EXCEPT ![p] = None]
  /\ own' = [own EXCEPT ![p] = NoSpace]
  /\ sz' = [sz EXCEPT ![p] = 0]
  /\ state' = [state EXCEPT ![p] = "UNUSED"]
  /\ UNCHANGED <<new, job>>

Next ==
  \E p \in Proc :
    \/ \E c \in Proc : fork(p, c)
    \/ \E n \in Images : exec(p, n)
    \/ \E n \in Growths : growproc(p, n)
    \/ SetupDir(p) \/ SetupKernel(p) \/ GetPage(p) \/ GetTable(p) \/ MapPage(p)
    \/ ForkDone(p) \/ GrowDone(p) \/ ExecStack(p) \/ ExecDone(p)
    \/ ForkFails(p) \/ ExecFails(p) \/ GrowFails(p)
    \/ exit(p) \/ wait(p)

Spec == Init /\ [][Next]_vars

-----------------------------------------------------------------------------
(* Properties.                                                               *)

\* The places that may hold a page: the stack of a process, the page that a call
\* has just got, and the directory, the tables and the pages of a space.
Place == ({"kstack", "mem", "dir", "newdir"} \X Proc \X {0})
           \cup ({"tab", "newtab"} \X Proc \X Table) \cup ({"pg", "newpg"} \X Proc \X User)
Held(k) ==
  LET p == k[2]
      i == k[3]
  IN  CASE k[1] = "kstack" -> kstack[p]     [] k[1] = "mem" -> job[p].mem
        [] k[1] = "dir" -> own[p].dir       [] k[1] = "newdir" -> new[p].dir
        [] k[1] = "tab" -> own[p].tab[i]    [] k[1] = "newtab" -> new[p].tab[i]
        [] k[1] = "pg" -> own[p].pg[i]      [] k[1] = "newpg" -> new[p].pg[i]

\* Every page is on the free list or in exactly one place of one process: no
\* failure on the way through fork, exec or sbrk leaks a page or returns one
\* that is still mapped, however the calls interleave.
PagesAccounted ==
  LET held == {h \in {<<Held(k), k>> : k \in Place} : h[1] # None} IN
  /\ freelist \subseteq Page
  /\ {h[1] : h \in held} = Page \ freelist
  /\ \A g, h \in held : g[1] = h[1] => g = h

\* A process that is not growing has exactly the pages below its size, also
\* after a call that failed half way (or none: sbrk down to zero frees them,
\* reports an error and keeps the size).
ImageComplete ==
  \A p \in Proc : state[p] = "LIVE" /\ job[p].op # "grow" =>
    LET mapped == {a \in User : own[p].pg[a] # None} IN
    mapped = {a \in User : a < sz[p]} \/ mapped = {}
=============================================================================
