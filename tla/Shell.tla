------------------------------- MODULE Shell --------------------------------
(***************************************************************************)
(* The shell at run time, sh.c and init.c: main reads a line, forks a      *)
(* child that parses and runs it, and waits; runcmd forks, pipes and       *)
(* redirects its way down the tree.  Each process is the list of system    *)
(* calls it still has to make, so that runcmd is the operator that turns a *)
(* tree into calls and there is one action per call.  Calls of different   *)
(* processes interleave in every order.                                    *)
(*                                                                         *)
(* The kernel is what the shell sees of it: descriptors are the lowest     *)
(* free ones, a pipe is a count of unread bytes, a read of an empty pipe   *)
(* waits while anyone can still write and a write to a full one while      *)
(* anyone can still read.  Programs are external: a program writes some    *)
(* bytes to descriptor 1, or reads descriptor 0 to its end, or neither.    *)
(***************************************************************************)
EXTENDS ShellParse

CONSTANTS
  Pid,          \* slots of processes, 1 .. n; slot 1 is the shell
  NFD,          \* descriptors of a process
  NPIPE,        \* pipes open at once
  CAP,          \* bytes a pipe holds
  Lines,        \* the lines the user may type
  Programs      \* [name -> sequence of "put", "drain"]: what a program does

VARIABLES
  proc,         \* [Pid -> process]; init is the parent 0
  bytes,        \* [pipe -> unread bytes]
  panicked      \* a fork or a pipe has failed (history)
vars == <<proc, bytes, panicked>>

Sh == 1
Init0 == 0
Closed == <<"closed", 0>>
Console == <<"console", 0>>
OnDisk == <<"file", 0>>
Op(op, arg) == [op |-> op, arg |-> arg]
Exit == Op("exit", 0)
Free == [st |-> "free", parent |-> 0, code |-> <<>>, fd |-> <<>>, p |-> <<>>, bg |-> FALSE]

\* main: the console is open on 0, 1 and 2, the loop's fourth open is closed.
Std == [k \in 0 .. NFD - 1 |-> IF k < 3 THEN Console ELSE Closed]
Fresh == [st |-> "run", parent |-> Init0, code |-> <<Op("prompt", 0)>>, fd |-> Std,
          p |-> <<>>, bg |-> FALSE]

Init == /\ proc = [x \in Pid |-> IF x = Sh THEN Fresh ELSE Free]
        /\ bytes = [i \in 1 .. NPIPE |-> 0]
        /\ panicked = FALSE

\* Names for the two ends of the pipe a process has just made: p[0] and p[1].
P0 == NFD
P1 == NFD + 1
Fork(code) == Op("fork", [code |-> code, bg |-> FALSE])
Run(cmd) == <<Op("run", cmd)>>

RightEnd == <<Op("close", 0), Op("dup", P0), Op("close", P0), Op("close", P1)>>
LeftEnd == <<Op("close", 1), Op("dup", P1), Op("close", P0), Op("close", P1)>>

BadListed(cmd) == <<Fork(Run(cmd.left))>> \o Run(cmd.right)
Listed(cmd) == <<Fork(Run(cmd.left)), Op("wait", 0)>> \o Run(cmd.right)

runcmd(cmd) ==
    CASE cmd.type = "PANIC" -> <<Exit>>
      [] cmd.type = "EXEC" ->
           IF cmd.argv = <<>> THEN <<Exit>> ELSE <<Op("exec", cmd.argv[1]), Exit>>
      [] cmd.type = "REDIR" -> <<Op("close", cmd.fd), Op("open", 0)>> \o Run(cmd.cmd)
      [] cmd.type = "LIST" -> Listed(cmd)
      [] cmd.type = "PIPE" ->
           <<Op("pipe", 0), Fork(LeftEnd \o Run(cmd.left)), Fork(RightEnd \o Run(cmd.right)),
             Op("close", P0), Op("close", P1), Op("wait", 0), Op("wait", 0), Exit>>
      [] cmd.type = "BACK" ->
           <<Op("fork", [code |-> Run(cmd.cmd), bg |-> TRUE]), Exit>>

-----------------------------------------------------------------------------
At1(x, op) == proc[x].st = "run" /\ Head(proc[x].code).op = op
Arg(x) == Head(proc[x].code).arg
Then(x, code) == [proc EXCEPT ![x].code = code]
Rest(x) == Tail(proc[x].code)
Dies(x) == Then(x, <<Exit>>)

Number(x, k) == IF k = P0 THEN proc[x].p[1] ELSE IF k = P1 THEN proc[x].p[2] ELSE k
FreeFds(x) == {k \in 0 .. NFD - 1 : proc[x].fd[k] = Closed}
Holders(end) == {x \in Pid : proc[x].st = "run" /\ \E k \in 0 .. NFD - 1 : proc[x].fd[k] = end}
Readers(i) == Holders(<<"read", i>>)
Writers(i) == Holders(<<"write", i>>)
NewPipe == {i \in 1 .. NPIPE : Readers(i) \cup Writers(i) = {}}
Kids(x) == {y \in Pid : proc[y].st # "free" /\ proc[y].parent = x}

\* getcmd and the loop of main; a line whose first word is cd never forks.
IsCd(l) == Len(l) >= 2 /\ l[1] = "cd"
Prompt == /\ At1(Sh, "prompt")
          /\ \/ \E l \in Lines :
                  proc' = IF IsCd(l) THEN proc
                          ELSE Then(Sh, <<Fork(Run(parsecmd(l))), Op("wait", 0), Op("prompt", 0)>>)
             \/ proc' = Dies(Sh)                           \* end of input
          /\ UNCHANGED <<bytes, panicked>>

RunTree(x) == /\ At1(x, "run")
              /\ proc' = Then(x, runcmd(Arg(x)))
              /\ UNCHANGED <<bytes, panicked>>

\* fork1: the child gets a copy of the descriptors and of p; failure is a
\* panic, which ends the caller.
ForkOk(x) ==
    LET free == {y \in Pid : proc[y].st = "free"}
        child == [st |-> "run", parent |-> x, code |-> Arg(x).code, fd |-> proc[x].fd,
                  p |-> proc[x].p, bg |-> proc[x].bg \/ Arg(x).bg]
    IN  /\ At1(x, "fork") /\ free # {}
        /\ proc' = [Then(x, Rest(x)) EXCEPT ![Min(free)] = child]
        /\ UNCHANGED <<bytes, panicked>>
ForkFails(x) == /\ At1(x, "fork")
                /\ proc' = Dies(x) /\ panicked' = TRUE /\ UNCHANGED bytes

PipeOk(x) ==
    LET i == Min(NewPipe)
        r == Min(FreeFds(x))
        w == Min(FreeFds(x) \ {r})
    IN  /\ At1(x, "pipe") /\ NewPipe # {} /\ Cardinality(FreeFds(x)) >= 2
        /\ proc' = [Then(x, Rest(x)) EXCEPT ![x].p = <<r, w>>, ![x].fd[r] = <<"read", i>>,
                                            ![x].fd[w] = <<"write", i>>]
        /\ bytes' = [bytes EXCEPT ![i] = 0]
        /\ UNCHANGED panicked
PipeFails(x) == /\ At1(x, "pipe") /\ (NewPipe = {} \/ Cardinality(FreeFds(x)) < 2)
                /\ proc' = Dies(x) /\ panicked' = TRUE /\ UNCHANGED bytes

Close(x) == /\ At1(x, "close")
            /\ proc' = [Then(x, Rest(x)) EXCEPT ![x].fd[Number(x, Arg(x))] = Closed]
            /\ UNCHANGED <<bytes, panicked>>

Dup(x) == /\ At1(x, "dup")
          /\ proc' = [Then(x, Rest(x)) EXCEPT
                        ![x].fd[Min(FreeFds(x))] = proc[x].fd[Number(x, Arg(x))]]
          /\ UNCHANGED <<bytes, panicked>>

\* The open of a redirection, which ends the process when it fails.
Open(x) == /\ At1(x, "open")
           /\ \/ proc' = [Then(x, Rest(x)) EXCEPT ![x].fd[Min(FreeFds(x))] = OnDisk]
              \/ proc' = Dies(x)
           /\ UNCHANGED <<bytes, panicked>>

\* A program replaces the list; a failed exec falls through to exit.
Exec(x) == /\ At1(x, "exec")
           /\ \/ /\ Arg(x) \in DOMAIN Programs
                 /\ proc' = Then(x, [i \in DOMAIN Programs[Arg(x)] |-> Op(Programs[Arg(x)][i], 0)]
                                    \o <<Exit>>)
              \/ proc' = Then(x, Rest(x))
           /\ UNCHANGED <<bytes, panicked>>

WaitOk(x) == /\ At1(x, "wait")
             /\ \/ \E y \in Kids(x) : /\ proc[y].st = "zombie"
                                      /\ proc' = [Then(x, Rest(x)) EXCEPT ![y] = Free]
                \/ Kids(x) = {} /\ proc' = Then(x, Rest(x))
             /\ UNCHANGED <<bytes, panicked>>

ExitOk(x) == /\ At1(x, "exit")
             /\ proc' = [y \in Pid |->
                  IF y = x THEN [Free EXCEPT !.st = "zombie", !.parent = proc[x].parent]
                  ELSE IF y \in Kids(x) THEN [proc[y] EXCEPT !.parent = Init0]
                  ELSE proc[y]]
             /\ UNCHANGED <<bytes, panicked>>

\* init.c: reap orphans, and start the shell again when it has exited.
BadInitReaps(x) == /\ x = Sh /\ proc[x].st = "zombie" /\ proc[x].parent = Init0
                   /\ proc' = [proc EXCEPT ![x] = Fresh]
                   /\ UNCHANGED <<bytes, panicked>>
InitReaps(x) == /\ proc[x].st = "zombie" /\ proc[x].parent = Init0
                /\ proc' = [proc EXCEPT ![x] = IF x = Sh THEN Fresh ELSE Free]
                /\ UNCHANGED <<bytes, panicked>>

\* One write to descriptor 1.  A program whose write fails gives up.
Put(x) ==
    LET f == proc[x].fd[1]
    IN  /\ At1(x, "put")
        /\ \/ /\ f[1] = "write" /\ Readers(f[2]) # {} /\ bytes[f[2]] < CAP
              /\ bytes' = [bytes EXCEPT ![f[2]] = @ + 1] /\ proc' = Then(x, Rest(x))
           \/ /\ f[1] = "write" /\ Readers(f[2]) = {}
              /\ proc' = Dies(x) /\ UNCHANGED bytes
           \/ /\ f[1] # "write"
              /\ proc' = Then(x, Rest(x)) /\ UNCHANGED bytes
        /\ UNCHANGED panicked

\* Reads descriptor 0 to its end.  The console and a file do end.
Drain(x) ==
    LET f == proc[x].fd[0]
    IN  /\ At1(x, "drain")
        /\ \/ /\ f[1] = "read" /\ bytes[f[2]] > 0
              /\ bytes' = [bytes EXCEPT ![f[2]] = @ - 1] /\ UNCHANGED proc
           \/ /\ f[1] = "read" => bytes[f[2]] = 0 /\ Writers(f[2]) = {}
              /\ proc' = Then(x, Rest(x)) /\ UNCHANGED bytes
        /\ UNCHANGED panicked

Step(x) == \/ RunTree(x) \/ ForkOk(x) \/ ForkFails(x) \/ PipeOk(x) \/ PipeFails(x)
           \/ Close(x) \/ Dup(x) \/ Open(x) \/ Exec(x) \/ WaitOk(x) \/ ExitOk(x)
           \/ InitReaps(x) \/ Put(x) \/ Drain(x)

Next == Prompt \/ \E x \in Pid : Step(x)
Spec == Init /\ [][Next]_vars
Fairness == \A x \in Pid : WF_vars(Step(x))
FairSpec == Spec /\ Fairness

-----------------------------------------------------------------------------
(* The shell is at its prompt; another process has exited and been reaped. *)
Ended(x) == IF x = Sh THEN At1(Sh, "prompt") ELSE proc[x].st = "free"

(***************************************************************************)
(* Every command line ends: the shell comes back to its prompt and every   *)
(* process that a line started exits, since no process keeps an end of a   *)
(* pipe that would leave a reader waiting for the end of the data or a     *)
(* writer waiting for room (runcmd, case PIPE).                            *)
(***************************************************************************)
LinesEnd == \A x \in Pid : []<>Ended(x)

(***************************************************************************)
(* At the prompt only background commands are still running: each process  *)
(* of a line has been waited for by the one that forked it, unless a fork  *)
(* or a pipe failed on the way (runcmd, cases LIST and PIPE, main).        *)
(***************************************************************************)
ForegroundIsOver ==
    At1(Sh, "prompt") /\ ~panicked => \A x \in Pid \ {Sh} : proc[x].st = "run" => proc[x].bg
=============================================================================
