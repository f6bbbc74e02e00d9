------------------------------ MODULE FileTable -----------------------------
(***************************************************************************)
(* Open files: ftable of file.c, the descriptors of the processes          *)
(* (sysfile.c, fork, exit), and what the files hold on to: the two ends of *)
(* a pipe and the references of inodes.                                    *)
(*                                                                         *)
(* What runs under ftable.lock is one step, together with what the process *)
(* does to its own descriptors.  fileclose() drops the pipe or the inode   *)
(* after it has released the lock, from a copy of the file; an error path  *)
(* closes what the call has opened so far.                                 *)
(***************************************************************************)
EXTENDS Integers, Sequences, FiniteSets, Functions

CONSTANTS
    Proc, InitProc,     \* the process that never exits
    NOFILE, NFILE,
    Page,               \* what kalloc() returns for a pipe
    Inode, Dir,         \* the inodes, and those that are directories
    Lookups,            \* <<inode, call>>: what may be given to "open" and "chdir"
    NoObj

VARIABLES
    file,       \* ftable.file: ref, and what the type, pipe or ip, and mode of
                \* a pipe's end say
    ofile,      \* the descriptors; 0 is a free one
    cwd,
    pipe,       \* the open ends of the pipe in a page, none when it is free
    iref,       \* the reference counts of the inodes
    pc,
    closing,    \* the files the process still has to close with fileclose() ...
    after,      \* ... and where its call goes on then
    ff,         \* the copy in fileclose()
    ip,         \* the inode sys_open() has looked up
    new,        \* the files the call has allocated and not given descriptors
    child       \* the process being forked, and the next descriptor to copy

locals == <<closing, after, ff, ip, new, child>>
objects == <<pipe, iref>>
vars == <<file, ofile, cwd, objects, pc, locals>>

Fd == 1 .. NOFILE
Slot == 1 .. NFILE

None == [type |-> "FD_NONE", obj |-> NoObj, writable |-> FALSE]
Init ==
    /\ file = [f \in Slot |-> [ref |-> 0, is |-> None]]
    /\ ofile = [p \in Proc |-> [fd \in Fd |-> 0]]
    /\ \E i \in Dir :
        /\ cwd = [p \in Proc |-> IF p = InitProc THEN i ELSE NoObj]
        /\ iref = [j \in Inode |-> IF j = i THEN 1 ELSE 0]
    /\ pipe = [k \in Page |-> {}]
    /\ pc = [p \in Proc |-> IF p = InitProc THEN "user" ELSE "unused"]
    /\ closing = [p \in Proc |-> <<>>] /\ new = [p \in Proc |-> <<>>]
    /\ ff = [p \in Proc |-> None] /\ ip = [p \in Proc |-> NoObj]
    /\ child = [p \in Proc |-> [to |-> p, fd |-> 1]]
    /\ after = [p \in Proc |-> "user"]

-----------------------------------------------------------------------------

Goto(p, at) == pc' = [pc EXCEPT ![p] = at]

FreeSlots == {f \in Slot : file[f].ref = 0}
FreeFds(p) == {fd \in Fd : ofile[p][fd] = 0}
First(S) == CHOOSE x \in S : \A y \in S : x <= y

(* Operators named Bad... and Worse... are faulty variants of what follows. *)
filealloc(f) == file' = [file EXCEPT ![f].ref = 1]

filedup(f) == file' = [file EXCEPT ![f].ref = @ + 1]

iput(i) == iref' = [iref EXCEPT ![i] = @ - 1]

(* The process closes files, and then goes on with its call. *)
CloseAll(p, files, then) ==
    /\ closing' = [closing EXCEPT ![p] = files]
    /\ after' = [after EXCEPT ![p] = then]
    /\ Goto(p, IF files = <<>> THEN then ELSE "close")

-----------------------------------------------------------------------------
(* fileclose(f) *)

LastClosed(f) == IF file[f].ref > 1 THEN None ELSE file[f].is

fileclose(p) ==
    LET f == Head(closing[p]) IN
    /\ pc[p] = "close"
    /\ file' = [file EXCEPT ![f].ref = @ - 1,
                            ![f].is = IF file[f].ref > 1 THEN @ ELSE None]
    /\ ff' = [ff EXCEPT ![p] = LastClosed(f)]
    /\ closing' = [closing EXCEPT ![p] = Tail(@)]
    /\ Goto(p, "drop")
    /\ UNCHANGED <<ofile, cwd, objects, after, ip, new, child>>

pipeclose(k, writable) ==
    pipe' = [pipe EXCEPT ![k] = @ \ {IF writable THEN "w" ELSE "r"}]

Drop(p) ==
    /\ pc[p] = "drop"
    /\ \/ /\ ff[p].type = "FD_PIPE" /\ pipeclose(ff[p].obj, ff[p].writable)
          /\ UNCHANGED iref
       \/ /\ ff[p].type = "FD_INODE" /\ iput(ff[p].obj)
          /\ UNCHANGED pipe
       \/ /\ ff[p].type = "FD_NONE"
          /\ UNCHANGED objects
    /\ ff' = [ff EXCEPT ![p] = None]
    /\ CloseAll(p, closing[p], after[p])
    /\ UNCHANGED <<file, ofile, cwd, ip, new, child>>

-----------------------------------------------------------------------------
(* sys_open and sys_chdir look up an inode. *)

Lookup(p, i, call) ==
    /\ pc[p] = "user"
    /\ iref' = [iref EXCEPT ![i] = @ + 1]
    /\ ip' = [ip EXCEPT ![p] = i]
    /\ Goto(p, call)
    /\ UNCHANGED <<file, ofile, cwd, pipe, closing, after, ff, new, child>>

(* sys_open: a directory cannot be opened for writing; no file or descriptor *)
(* may be left.                                                              *)
OpenFails(p) ==
    /\ pc[p] = "open"
    /\ \/ /\ FreeSlots = {} \/ ip[p] \in Dir
          /\ CloseAll(p, <<>>, "undo")
          /\ UNCHANGED file
       \/ /\ FreeSlots # {} /\ FreeFds(p) = {}
          /\ filealloc(First(FreeSlots))
          /\ CloseAll(p, <<First(FreeSlots)>>, "undo")
    /\ UNCHANGED <<ofile, cwd, objects, ff, ip, new, child>>

Undo(p) ==
    /\ pc[p] = "undo"
    /\ iput(ip[p])
    /\ ip' = [ip EXCEPT ![p] = NoObj]
    /\ CloseAll(p, <<>>, "user")
    /\ UNCHANGED <<file, ofile, cwd, pipe, ff, new, child>>

Open(p) ==
    /\ pc[p] = "open" /\ FreeSlots # {} /\ FreeFds(p) # {}
    /\ filealloc(First(FreeSlots))
    /\ ofile' = [ofile EXCEPT ![p][First(FreeFds(p))] = First(FreeSlots)]
    /\ new' = [new EXCEPT ![p] = <<First(FreeSlots)>>]
    /\ Goto(p, "set")
    /\ UNCHANGED <<cwd, objects, closing, after, ff, ip, child>>

InodeFile(i) == [type |-> "FD_INODE", obj |-> i, writable |-> FALSE]

(* the assignments after end_op() *)
OpenDone(p) ==
    /\ pc[p] = "set"
    /\ file' = [file EXCEPT ![Head(new[p])].is = InodeFile(ip[p])]
    /\ ip' = [ip EXCEPT ![p] = NoObj] /\ new' = [new EXCEPT ![p] = <<>>]
    /\ Goto(p, "user")
    /\ UNCHANGED <<ofile, cwd, objects, closing, after, ff, child>>

-----------------------------------------------------------------------------
(* sys_pipe: two files, a page, two descriptors *)

PipeFile(p) ==
    /\ pc[p] = "user" \/ (pc[p] = "pipe" /\ Len(new[p]) = 1)
    /\ FreeSlots # {}
    /\ filealloc(First(FreeSlots))
    /\ new' = [new EXCEPT ![p] = Append(@, First(FreeSlots))]
    /\ Goto(p, "pipe")
    /\ UNCHANGED <<ofile, cwd, objects, closing, after, ff, ip, child>>

BadPipeFails(p) ==              \* forgets the first file
    /\ pc[p] = "pipe"
    /\ Len(new[p]) = 1 => FreeSlots = {}
    /\ CloseAll(p, Tail(new[p]), "user")
    /\ new' = [new EXCEPT ![p] = <<>>]
    /\ UNCHANGED <<file, ofile, cwd, objects, ff, ip, child>>

(* filealloc() finds no second file, or kalloc() no page *)
PipeFails(p) ==
    /\ pc[p] = "pipe"
    /\ Len(new[p]) = 1 => FreeSlots = {}
    /\ CloseAll(p, new[p], "user")
    /\ new' = [new EXCEPT ![p] = <<>>]
    /\ UNCHANGED <<file, ofile, cwd, objects, ff, ip, child>>

PipeEnd(k, w) == [type |-> "FD_PIPE", obj |-> k, writable |-> w]

(* pipealloc() succeeds; the descriptors may still be missing *)
PipeMade(p, k) ==
    LET rf == new[p][1]
        wf == new[p][2]
        fd0 == First(FreeFds(p))
        fd1 == First(FreeFds(p) \ {fd0})
        full == Cardinality(FreeFds(p)) < 2
    IN
    /\ pc[p] = "pipe" /\ Len(new[p]) = 2
    /\ pipe[k] = {} /\ pipe' = [pipe EXCEPT ![k] = {"r", "w"}]
    /\ file' = [file EXCEPT ![rf].is = PipeEnd(k, FALSE), ![wf].is = PipeEnd(k, TRUE)]
    /\ new' = [new EXCEPT ![p] = <<>>]
    /\ \/ /\ ~full
          /\ ofile' = [ofile EXCEPT ![p][fd0] = rf, ![p][fd1] = wf]
          /\ CloseAll(p, <<>>, "user")
       \/ /\ full
          /\ CloseAll(p, <<rf, wf>>, "user")
          /\ UNCHANGED ofile
    /\ UNCHANGED <<cwd, iref, ff, ip, child>>

-----------------------------------------------------------------------------

sys_dup(p, fd) ==
    /\ pc[p] = "user" /\ ofile[p][fd] # 0 /\ FreeFds(p) # {}
    /\ ofile' = [ofile EXCEPT ![p][First(FreeFds(p))] = ofile[p][fd]]
    /\ filedup(ofile[p][fd])
    /\ UNCHANGED <<cwd, objects, pc, locals>>

sys_close(p, fd) ==
    /\ pc[p] = "user" /\ ofile[p][fd] # 0
    /\ ofile' = [ofile EXCEPT ![p][fd] = 0]
    /\ CloseAll(p, <<ofile[p][fd]>>, "user")
    /\ UNCHANGED <<file, cwd, objects, ff, ip, new, child>>

sys_chdir(p) ==
    /\ pc[p] = "chdir"
    /\ \/ /\ ip[p] \notin Dir
          /\ Goto(p, "undo")
          /\ UNCHANGED <<cwd, iref, ip>>
       \/ /\ ip[p] \in Dir
          /\ iput(cwd[p])
          /\ cwd' = [cwd EXCEPT ![p] = ip[p]]
          /\ ip' = [ip EXCEPT ![p] = NoObj]
          /\ Goto(p, "user")
    /\ UNCHANGED <<file, ofile, pipe, closing, after, ff, new, child>>

(* fork() copies the descriptors one by one, then the current directory. *)
fork(p, np) ==
    /\ pc[p] = "user" /\ pc[np] = "unused"
    /\ child' = [child EXCEPT ![p] = [to |-> np, fd |-> 1]]
    /\ pc' = [pc EXCEPT ![p] = "fork", ![np] = "embryo"]
    /\ UNCHANGED <<file, ofile, cwd, objects, closing, after, ff, ip, new>>

MoreFds(fd) == fd < NOFILE

ForkFile(p) ==
    LET np == child[p].to
        fd == child[p].fd
        f == ofile[p][fd]
    IN
    /\ pc[p] = "fork"
    /\ \/ f = 0 /\ UNCHANGED file
       \/ f # 0 /\ filedup(f)
    /\ ofile' = [ofile EXCEPT ![np][fd] = f]
    /\ \/ /\ MoreFds(fd)
          /\ child' = [child EXCEPT ![p].fd = @ + 1]
          /\ UNCHANGED <<cwd, iref, pc>>
       \/ /\ ~MoreFds(fd)
          /\ child' = [child EXCEPT ![p] = [to |-> p, fd |-> 1]]
          /\ cwd' = [cwd EXCEPT ![np] = cwd[p]]
          /\ iref' = [iref EXCEPT ![cwd[p]] = @ + 1]
          /\ pc' = [pc EXCEPT ![p] = "user", ![np] = "user"]
    /\ UNCHANGED <<pipe, closing, after, ff, ip, new>>

(* exit() closes all, then puts the directory; the entry is free when the  *)
(* parent has waited.                                                       *)
exit(p) ==
    /\ pc[p] = "user" /\ p # InitProc
    /\ CloseAll(p, SelectSeq(ofile[p], LAMBDA f : f # 0), "exit")
    /\ ofile' = [ofile EXCEPT ![p] = [fd \in Fd |-> 0]]
    /\ UNCHANGED <<file, cwd, objects, ff, ip, new, child>>

ExitDone(p) ==
    /\ pc[p] = "exit"
    /\ iput(cwd[p])
    /\ cwd' = [cwd EXCEPT ![p] = NoObj]
    /\ after' = [after EXCEPT ![p] = "user"]
    /\ Goto(p, "unused")
    /\ UNCHANGED <<file, ofile, pipe, closing, ff, ip, new, child>>

-----------------------------------------------------------------------------

Next == \E p \in Proc :
    \/ fileclose(p) \/ Drop(p)
    \/ \E l \in Lookups : Lookup(p, l[1], l[2])
    \/ sys_chdir(p) \/ OpenFails(p) \/ Undo(p) \/ Open(p)
    \/ OpenDone(p) \/ PipeFile(p) \/ PipeFails(p)
    \/ \E k \in Page : PipeMade(p, k)
    \/ \E fd \in Fd : sys_dup(p, fd) \/ sys_close(p, fd)
    \/ \E np \in Proc : fork(p, np)
    \/ ForkFile(p) \/ exit(p) \/ ExitDone(p)

Spec == Init /\ [][Next]_vars

-----------------------------------------------------------------------------

Occurrences(s, x) == Cardinality({n \in DOMAIN s : s[n] = x})

(* What process p has of file f: descriptors, and what its call still owns. *)
Owns(p, f) ==
    Occurrences(ofile[p], f) + Occurrences(closing[p], f)
    + (IF pc[p] = "set" THEN 0 ELSE Occurrences(new[p], f))

(***************************************************************************)
(* The reference count of every file is the number of descriptors and of   *)
(* calls in progress that own it, so no error path of open and pipe, no    *)
(* fork and no exit leaks a file or frees one in use, and the panics of    *)
(* filedup() and fileclose() do not happen.  A free file has no type: an   *)
(* error path that closes a new file touches no pipe or inode.             *)
(***************************************************************************)
RefsAreOwners ==
    \A f \in Slot :
        /\ file[f].ref = FoldFunction(LAMBDA x, y : x + y, 0, [p \in Proc |-> Owns(p, f)])
        /\ file[f].ref = 0 => file[f].is = None

(* The files, closed files still to be dropped included, that are of kind k. *)
Holders(k) ==
    Cardinality({f \in Slot : file[f].is = k}) + Cardinality({p \in Proc : ff[p] = k})

(***************************************************************************)
(* An end of a pipe is open as long as one file stands for it, and only    *)
(* one does: a reader gets end of file when the last writer has closed,    *)
(* and not before, and the page is freed once, after both.                 *)
(***************************************************************************)
PipeEndsAreFiles ==
    \A k \in Page, w \in BOOLEAN :
        Holders(PipeEnd(k, w)) = IF (IF w THEN "w" ELSE "r") \in pipe[k] THEN 1 ELSE 0

(***************************************************************************)
(* The references of an inode are the open files, the current directories  *)
(* and the lookups in progress.                                            *)
(***************************************************************************)
InodeRefsAreUses ==
    \A i \in Inode :
        iref[i] = Cardinality({p \in Proc : cwd[p] = i}) + Cardinality({p \in Proc : ip[p] = i})
            + Holders(InodeFile(i))

(***************************************************************************)
(* All of it: nothing an open file stands for is leaked or lost, on any    *)
(* path through open, pipe, dup, close, chdir, fork and exit.              *)
(***************************************************************************)
OpenFilesAccounted == RefsAreOwners /\ PipeEndsAreFiles /\ InodeRefsAreUses

=============================================================================
