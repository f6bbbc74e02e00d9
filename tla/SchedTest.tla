------------------------------ MODULE SchedTest -----------------------------
(* scheduler-test.c and sched_test_utils.c: six tests, each of which builds  *)
(* trees of processes that assign themselves tickets and loop, collects      *)
(* their pids through pipes, measures, kills them all and waits.             *)
(*                                                                           *)
(* The kernel is abstracted to what the program sees of it: fork, pipes,     *)
(* kill, exit with reparenting to init, wait.  fork does not fail here, and  *)
(* the parent's 1000 polls suffice (README, Assumptions).  A process is the  *)
(* head of a tree over the rows lo .. lo + n - 1 of the table of children.   *)
EXTENDS Naturals, Sequences, FiniteSets, FiniteSetsExt

CONSTANTS N           \* no_of_children

InitPid == 1
MainPid == 2

VARIABLES procs,      \* [pids in the table -> process]
          nextpid,
          pipe,       \* [pid -> what it wrote to its creator's pipe, not yet read]
          test, group, row,    \* of main: test, group and child_pids filled
          phase,      \* of main
          child_pids  \* of main: [1 .. N -> pid], kept from test to test

vars == <<procs, nextpid, pipe, test, group, row, phase, child_pids>>
main == <<test, group, row, phase, child_pids>>

-----------------------------------------------------------------------------
(* The tests: groups <<kind, first row, rows>> and the number of wait()s.    *)

Third == N \div 3
Second == (N - Third) \div 2
Test1 == [groups |-> [i \in 1 .. N |-> <<"leaf", i, 1>>], waits |-> N]
Test2 == [groups |-> << <<"more", 1, N \div 2>>,
                        <<"more", 1 + (N \div 2), N - (N \div 2)>> >>, waits |-> 2]
Test3 == [groups |-> << <<"more", 1, Third>>, <<"more", 1 + Third, Second>>,
                        <<"more", 1 + Third + Second, N - Third - Second>> >>, waits |-> 3]
Test4 == [groups |-> << <<"nested", 1, N>> >>, waits |-> 1]
Test5 == [groups |-> << <<"nested", 1, Third>>, <<"nested", 1 + Third, Second>>,
                        <<"nested", 1 + Third + Second, N - Third - Second>> >>, waits |-> 1]
Test6 == [groups |-> << <<"nested", 1, Third>>, <<"nested", 1 + Third, Third>>,
                        <<"more", 1 + 2 * Third, N - 2 * Third>> >>, waits |-> 1]
Tests == <<Test1, Test2, Test3, Test4, Test5, Test6>>
Enough(t) == N >= <<1, 2, 3, 1, 3, 3>>[t]

Groups == Tests[test].groups

-----------------------------------------------------------------------------
(* The kernel, as the program sees it.                                       *)

NewProc(parent, kind, lo, n) ==
  [parent |-> parent, kind |-> kind, lo |-> lo, n |-> n, pc |-> "start",
   tickets |-> 0, pids |-> <<>>, sent |-> 0, killed |-> FALSE]

\* fork of a process, and the pipe it inherits the write end of.
Fork(parent, kind, lo, n, r) ==
  /\ nextpid' = nextpid + 1
  /\ procs' = [q \in DOMAIN procs \cup {nextpid} |->
                 IF q = nextpid THEN NewProc(parent, kind, lo, n)
                 ELSE IF q = parent THEN r ELSE procs[q]]
  /\ pipe' = [q \in DOMAIN pipe \cup {nextpid} |->
                IF q = nextpid THEN <<>> ELSE pipe[q]]

Children(p) == {q \in DOMAIN procs : procs[q].parent = p}
ZombieChildren(p) == {q \in Children(p) : procs[q].pc = "zombie"}
Without(f, q) == [x \in DOMAIN f \ {q} |-> f[x]]
Reap(q) == procs' = Without(procs, q) /\ pipe' = Without(pipe, q)

Init ==
  /\ procs = [q \in {MainPid} |-> [NewProc(InitPid, "main", 1, N) EXCEPT !.pc = "main"]]
  /\ nextpid = MainPid + 1 /\ pipe = [q \in {MainPid} |-> <<>>]
  /\ test = 1 /\ group = 1 /\ row = 0 /\ phase = "create"
  /\ child_pids = [i \in 1 .. N |-> 0]

\* A killed process exits on its way back to user space.
Exit(p) ==
  /\ procs[p].killed /\ procs[p].pc # "zombie"
  /\ procs' = [q \in DOMAIN procs |->
                 IF q = p THEN [NewProc(procs[q].parent, "leaf", 1, 1) EXCEPT !.pc = "zombie"]
                 ELSE IF procs[q].parent = p THEN [procs[q] EXCEPT !.parent = InitPid]
                 ELSE procs[q]]
  /\ UNCHANGED <<nextpid, pipe, main>>

InitReaps == \E q \in ZombieChildren(InitPid) : Reap(q) /\ UNCHANGED <<nextpid, main>>

-----------------------------------------------------------------------------
(* The children.                                                             *)

\* assign_tickets(getpid(), ...)
Assign(p) ==
  LET r == procs[p] IN
  /\ r.pc = "start"
  /\ procs' = [procs EXCEPT ![p].tickets = r.lo,
                            ![p].pc = IF r.n = 1 THEN "loop" ELSE "create"]
  /\ UNCHANGED <<nextpid, pipe, main>>

\* create_more_processes: a leaf, its pid into the pipe, the next leaf.
CreateLeaf(p) ==
  LET r == procs[p] IN
  /\ r.pc = "create" /\ r.kind = "more"
  /\ Fork(p, "leaf", r.lo + 1 + Len(r.pids), 1,
          [r EXCEPT !.pids = Append(@, nextpid), !.pc = "send"])
  /\ UNCHANGED main

\* create_nested_processes: the rest of the rows go to one child, whose pids
\* are then read from its pipe.
CreateNested(p) ==
  LET r == procs[p] IN
  /\ r.pc = "create" /\ r.kind = "nested"
  /\ Fork(p, "nested", r.lo + 1, r.n - 1,
          [r EXCEPT !.pids = <<nextpid>>, !.pc = "collect"])
  /\ UNCHANGED main

Collect(p) ==
  LET r == procs[p]
      c == r.pids[1] IN
  /\ r.pc = "collect"
  /\ IF Len(r.pids) = r.n - 1
       THEN procs' = [procs EXCEPT ![p].pc = "send"] /\ UNCHANGED pipe
       ELSE /\ pipe[c] # <<>>
            /\ procs' = [procs EXCEPT ![p].pids = Append(@, Head(pipe[c]))]
            /\ pipe' = [pipe EXCEPT ![c] = Tail(@)]
  /\ UNCHANGED <<nextpid, main>>

\* The pids go up the pipe in order; after the last the process loops.
BadNextSent(r) == r.pids[Len(r.pids) - r.sent]       \* last first
NextSent(r) == r.pids[r.sent + 1]

Send(p) ==
  LET r == procs[p]
      more == r.sent + 1 < Len(r.pids) IN
  /\ r.pc = "send"
  /\ pipe' = [pipe EXCEPT ![p] = Append(@, NextSent(r))]
  /\ procs' = [procs EXCEPT ![p].sent = @ + 1,
                 ![p].pc = IF more THEN "send"
                           ELSE IF Len(r.pids) = r.n - 1 THEN "loop" ELSE "create"]
  /\ UNCHANGED <<nextpid, main>>

-----------------------------------------------------------------------------
(* main.                                                                     *)

\* The group's process is forked ...
CreateGroup ==
  LET g == Groups[group] IN
  /\ phase = "create" /\ row = g[2] - 1
  /\ Fork(MainPid, g[1], g[2], g[3], procs[MainPid])
  /\ child_pids' = [child_pids EXCEPT ![g[2]] = nextpid]
  /\ row' = row + 1
  /\ UNCHANGED <<test, group, phase>>

\* ... and the pids of its descendants are read from its pipe.
ReadPid ==
  LET g == Groups[group]
      c == child_pids[g[2]] IN
  /\ phase = "create" /\ row >= g[2] /\ row < g[2] + g[3] - 1
  /\ pipe[c] # <<>>
  /\ child_pids' = [child_pids EXCEPT ![row + 1] = Head(pipe[c])]
  /\ pipe' = [pipe EXCEPT ![c] = Tail(@)]
  /\ row' = row + 1
  /\ UNCHANGED <<procs, nextpid, test, group, phase>>

GroupDone ==
  LET g == Groups[group] IN
  /\ phase = "create" /\ row = g[2] + g[3] - 1
  /\ IF group < Len(Groups)
       THEN group' = group + 1 /\ UNCHANGED <<row, phase>>
       ELSE group' = 1 /\ row' = 0 /\ phase' = "settle"
  /\ UNCHANGED <<procs, nextpid, pipe, test, child_pids>>

\* wait_for_tickets_to_set: a pid that is not in the table counts as set.
BadIsSet(i) == TRUE
IsSet(i) ==
  child_pids[i] \in DOMAIN procs => procs[child_pids[i]].tickets = i
WaitForTickets ==
  /\ phase = "settle"
  /\ phase' = IF \A i \in 1 .. N : IsSet(i) THEN "measure" ELSE phase
  /\ UNCHANGED <<procs, nextpid, pipe, test, group, row, child_pids>>

\* proc_info, sleep, proc_info, with the scheduling order printed meanwhile.
Measure ==
  /\ phase = "measure"
  /\ phase' = "kill"
  /\ UNCHANGED <<procs, nextpid, pipe, test, group, row, child_pids>>

Kill ==
  /\ phase = "kill"
  /\ IF row < N
       THEN /\ row' = row + 1
            /\ procs' = [q \in DOMAIN procs |->
                           IF q = child_pids[row + 1] THEN [procs[q] EXCEPT !.killed = TRUE]
                           ELSE procs[q]]
            /\ UNCHANGED phase
       ELSE row' = 0 /\ phase' = "wait" /\ UNCHANGED procs
  /\ UNCHANGED <<nextpid, pipe, test, group, child_pids>>

\* One wait(): blocks while there are children and none has exited.
Wait ==
  /\ phase = "wait" /\ row < Tests[test].waits
  /\ row' = row + 1
  /\ \/ Children(MainPid) = {} /\ UNCHANGED <<procs, pipe>>
     \/ \E q \in ZombieChildren(MainPid) : Reap(q)
  /\ UNCHANGED <<nextpid, test, group, phase, child_pids>>

Later == {t \in DOMAIN Tests : t > test /\ Enough(t)}
NextTest ==
  /\ phase = "wait" /\ row = Tests[test].waits
  /\ row' = 0
  /\ IF Later # {}
       THEN test' = Min(Later) /\ phase' = "create" /\ UNCHANGED procs
       ELSE phase' = "exit" /\ procs' = [procs EXCEPT ![MainPid].killed = TRUE] /\ UNCHANGED test
  /\ UNCHANGED <<nextpid, pipe, group, child_pids>>

Done == phase = "exit" /\ DOMAIN procs = {} /\ UNCHANGED vars

Step(p) ==
  \/ Assign(p) \/ CreateLeaf(p) \/ CreateNested(p) \/ Collect(p) \/ Send(p) \/ Exit(p)
MainStep ==
  \/ CreateGroup \/ ReadPid \/ GroupDone \/ WaitForTickets \/ Measure
  \/ Kill \/ Wait \/ NextTest
Next == (\E p \in DOMAIN procs : Step(p)) \/ MainStep \/ InitReaps \/ Done

Spec == Init /\ [][Next]_vars

\* The scheduler is never idle while a process can run; which one it runs is
\* left open.
FairSpec == Spec /\ WF_vars(Next)

-----------------------------------------------------------------------------
(* Properties.                                                               *)

\* While the test measures, row i of its report is about a process of this
\* test that has the tickets of row i, and no two rows are about the same
\* one, although the pids came through pipes from several levels of
\* processes (print_test_result, README.md's tables).
RowsMatch ==
  phase \in {"measure", "kill"} =>
    \A i \in 1 .. N :
      /\ phase = "measure" => child_pids[i] \in DOMAIN procs /\ procs[child_pids[i]].tickets = i
      /\ \A j \in 1 .. N : child_pids[i] = child_pids[j] => i = j

\* The program has exited and the table of processes has nothing of it.
Gone == phase = "exit" /\ DOMAIN procs = {}

\* The test program ends and leaves no process behind: each of its children
\* is killed, exits and is reaped, by the parent or by init.
NothingLeftBehind == <>[]Gone
=============================================================================
