------------------------------- MODULE Inodes -------------------------------
(* The inode cache, directories, path lookup and the system calls that       *)
(* change the tree (fs.c: ialloc, iget, idup, ilock, iunlock, iput,          *)
(* dirlookup, dirlink, namex; sysfile.c: link, unlink, create, open, mkdir,  *)
(* mknod, chdir; file.c: the iput of a close).                               *)
(*                                                                           *)
(* Processes interleave wherever the code lets go of an inode lock or waits  *)
(* for one.  A section that holds one inode lock and waits for no other is   *)
(* one step, guarded by the lock being free; a lock kept across a wait is in *)
(* lock.  iput is two steps, because it drops the lock before it takes       *)
(* icache.lock to decrement ref.  The on-disk inode and its cached copy are  *)
(* one: every change is followed by iupdate under the same lock.  Contents   *)
(* of files are left to FileData, transactions to Log.                       *)
EXTENDS Naturals, Sequences, FiniteSets, FiniteSetsExt, TLC

CONSTANTS Proc, Inum, Name,
          Calls      \* system calls: [op, path, new], "/" first if absolute

Root == 1
None == 0
Free == "none"        \* owner of a lock nobody holds

VARIABLES type,       \* [Inum -> {"free", "dir", "file", "dev"}]
          nlink,      \* [Inum -> Nat]
          ents,       \* [Inum -> [Name -> Inum \cup {None}]]
          up,         \* [Inum -> Inum \cup {None}]: the entry ".."
          ref,        \* [Inum -> Nat]
          valid,      \* cache entries whose contents have been read
          lock,       \* [Inum -> Proc \cup {Free}]
          cwd,        \* [Proc -> Inum]
          open,       \* [Proc -> Inum \cup {None}]: its one file descriptor
          th          \* [Proc -> where the process is in its system call]

disk == <<type, nlink, ents, up>>
vars == <<type, nlink, ents, up, ref, valid, lock, cwd, open, th>>

NoEntries == [n \in Name |-> None]
Idle == [pc |-> "idle", op |-> "none", path |-> <<>>, new |-> <<>>,
         at |-> None, ip |-> None, put |-> <<>>, checked |-> FALSE]

Init ==
  /\ type = [i \in Inum |-> IF i = Root THEN "dir" ELSE "free"]
  /\ nlink = [i \in Inum |-> IF i = Root THEN 1 ELSE 0]
  /\ ents = [i \in Inum |-> NoEntries]
  /\ up = [i \in Inum |-> IF i = Root THEN Root ELSE None]
  /\ ref = [i \in Inum |-> IF i = Root THEN Cardinality(Proc) ELSE 0]
  /\ valid = {Root}
  /\ lock = [i \in Inum |-> Free]
  /\ cwd = [p \in Proc |-> Root]
  /\ open = [p \in Proc |-> None]
  /\ th = [p \in Proc |-> Idle]

-----------------------------------------------------------------------------
(* The inode layer.                                                          *)

\* p is at pc and has no iput to finish first.
At(p, pc) == th[p].pc = pc /\ th[p].put = <<>>

\* p moves on: r overrides the fields of its record.
Go(p, r) == th' = [th EXCEPT ![p] = r @@ @]

\* p's call returns once it has put back the inodes of s.
Finish(p, s) == th' = [th EXCEPT ![p] = [Idle EXCEPT !.put = s]]

iget(i) == ref' = [ref EXCEPT ![i] = @ + 1]

\* The lock is free and the inode, if it has to be read, has a type.
Lockable(i) == lock[i] = Free /\ (i \in valid \/ type[i] # "free")
ilock(i) == Lockable(i) /\ valid' = valid \cup {i}

\* No links, and no reference but the caller's.
BadUnused(i) == i \in valid /\ nlink[i] = 0
Unused(i) == i \in valid /\ nlink[i] = 0 /\ ref[i] = 1

\* iput, under the inode's lock: truncate and free an unused inode.
IputCheck(p) ==
  LET i == Head(th[p].put) IN
  /\ th[p].put # <<>> /\ ~ th[p].checked
  /\ lock[i] = Free
  /\ IF Unused(i)
       THEN /\ type' = [type EXCEPT ![i] = "free"]
            /\ ents' = [ents EXCEPT ![i] = NoEntries]
            /\ up' = [up EXCEPT ![i] = None]
            /\ valid' = valid \ {i}
       ELSE UNCHANGED <<type, ents, up, valid>>
  /\ Go(p, [checked |-> TRUE])
  /\ UNCHANGED <<nlink, ref, lock, cwd, open>>

\* iput, under icache.lock: an entry without references will be read again.
IputDrop(p) ==
  LET i == Head(th[p].put) IN
  /\ th[p].checked
  /\ ref' = [ref EXCEPT ![i] = @ - 1]
  /\ valid' = IF ref[i] = 1 THEN valid \ {i} ELSE valid
  /\ Go(p, [put |-> Tail(th[p].put), checked |-> FALSE])
  /\ UNCHANGED <<disk, lock, cwd, open>>

dirlookup(d, n) == IF n = "." THEN d ELSE IF n = ".." THEN up[d] ELSE ents[d][n]

isdirempty(d) == ents[d] = NoEntries

-----------------------------------------------------------------------------
(* namex: one directory of the path per step, pc = "namei" or "parent".      *)

StartOf(p, path) == IF Head(path) = "/" THEN Root ELSE cwd[p]
Elements(path) == IF Head(path) = "/" THEN Tail(path) ELSE path

\* Where a lookup that fails leaves the caller: sys_link's second lookup has
\* an incremented link count to undo, every other call returns -1.
Missing(p, s) ==
  IF th[p].pc = "parent" /\ th[p].op = "link"
    THEN Go(p, [pc |-> "linkbad", put |-> s])
    ELSE Finish(p, s)

Call(p, c) ==
  /\ At(p, "idle")
  /\ LET i == StartOf(p, c.path) IN
     /\ iget(i)
     /\ Go(p, [pc |-> IF c.op \in {"open", "write", "chdir", "link"}
                        THEN "namei" ELSE "parent",
               op |-> c.op, at |-> i, path |-> Elements(c.path), new |-> c.new])
  /\ UNCHANGED <<disk, valid, lock, cwd, open>>

\* The loop is over: the inode, or nothing if a parent was asked for.
WalkEnd(p) ==
  /\ th[p].path = <<>>
  /\ \/ At(p, "namei") /\ Go(p, [pc |-> "found", ip |-> th[p].at, at |-> None])
     \/ At(p, "parent") /\ Missing(p, <<th[p].at>>)
  /\ UNCHANGED <<disk, ref, valid, lock, cwd, open>>

\* Stop one level early.
WalkParent(p) ==
  LET d == th[p].at IN
  /\ At(p, "parent") /\ Len(th[p].path) = 1
  /\ ilock(d) /\ type[d] = "dir"
  /\ Go(p, [pc |-> "enter"])
  /\ UNCHANGED <<disk, ref, lock, cwd, open>>

\* One element: look it up, drop the directory, go on with what was found.
WalkStep(p) ==
  LET t == th[p]
      d == t.at
      next == dirlookup(d, Head(t.path)) IN
  /\ \/ At(p, "namei") /\ t.path # <<>>
     \/ At(p, "parent") /\ Len(t.path) > 1
     \/ At(p, "parent") /\ t.path # <<>> /\ type[d] # "dir"
  /\ ilock(d)
  /\ IF type[d] # "dir" \/ next = None
       THEN Missing(p, <<d>>) /\ UNCHANGED ref
       ELSE iget(next) /\ Go(p, [at |-> next, path |-> Tail(t.path), put |-> <<d>>])
  /\ UNCHANGED <<disk, lock, cwd, open>>

-----------------------------------------------------------------------------
(* The calls on an existing inode, pc = "found".                             *)

\* sys_open without O_CREATE, for reading ("open") or writing ("write"); one
\* descriptor per process stands for NOFILE.
OpenFound(p) ==
  LET i == th[p].ip IN
  /\ At(p, "found") /\ th[p].op \in {"open", "write"}
  /\ ilock(i)
  /\ IF (type[i] = "dir" /\ th[p].op = "write") \/ open[p] # None
       THEN Finish(p, <<i>>) /\ UNCHANGED open
       ELSE Finish(p, <<>>) /\ open' = [open EXCEPT ![p] = i]
  /\ UNCHANGED <<disk, ref, lock, cwd>>

sys_chdir(p) ==
  LET i == th[p].ip IN
  /\ At(p, "found") /\ th[p].op = "chdir"
  /\ ilock(i)
  /\ IF type[i] # "dir"
       THEN Finish(p, <<i>>) /\ UNCHANGED cwd
       ELSE Finish(p, <<cwd[p]>>) /\ cwd' = [cwd EXCEPT ![p] = i]
  /\ UNCHANGED <<disk, ref, lock, open>>

\* sys_link: the link is counted before the entry exists ...
BadLinked(i) == nlink
Linked(i) == [nlink EXCEPT ![i] = @ + 1]

LinkFound(p) ==
  LET i == th[p].ip
      start == StartOf(p, th[p].new) IN
  /\ At(p, "found") /\ th[p].op = "link"
  /\ ilock(i)
  /\ IF type[i] = "dir"
       THEN Finish(p, <<i>>) /\ UNCHANGED <<nlink, ref>>
       ELSE /\ nlink' = Linked(i)
            /\ iget(start)
            /\ Go(p, [pc |-> "parent", at |-> start, path |-> Elements(th[p].new)])
  /\ UNCHANGED <<type, ents, up, lock, cwd, open>>

\* ... then dirlink makes the entry; if the name is taken it puts the inode
\* it found back while the directory is still locked.
LinkEnter(p) ==
  LET d == th[p].at
      n == Head(th[p].path)
      old == dirlookup(d, n) IN
  /\ At(p, "enter") /\ th[p].op = "link"
  /\ ilock(d)
  /\ IF old = None
       THEN /\ ents' = [ents EXCEPT ![d][n] = th[p].ip]
            /\ Finish(p, <<d, th[p].ip>>)
            /\ UNCHANGED <<ref, lock>>
       ELSE /\ lock' = [lock EXCEPT ![d] = p]
            /\ iget(old)
            /\ Go(p, [pc |-> "linkexists", put |-> <<old>>])
            /\ UNCHANGED ents
  /\ UNCHANGED <<type, nlink, up, cwd, open>>

LinkExists(p) ==
  LET d == th[p].at IN
  /\ At(p, "linkexists")
  /\ lock' = [lock EXCEPT ![d] = Free]
  /\ Go(p, [pc |-> "linkbad", at |-> None, put |-> <<d>>])
  /\ UNCHANGED <<disk, ref, valid, cwd, open>>

\* The label bad of sys_link.
BadLinkBad(p) ==
  /\ At(p, "linkbad")
  /\ Finish(p, <<>>)
  /\ UNCHANGED <<disk, ref, valid, lock, cwd, open>>

LinkBad(p) ==
  LET i == th[p].ip IN
  /\ At(p, "linkbad")
  /\ ilock(i)
  /\ nlink' = [nlink EXCEPT ![i] = @ - 1]
  /\ Finish(p, <<i>>)
  /\ UNCHANGED <<type, ents, up, ref, lock, cwd, open>>

-----------------------------------------------------------------------------
(* unlink: the directory stays locked while the inode's lock is awaited, and *)
(* the inode stays locked while the directory is put back.                   *)

UnlinkEnter(p) ==
  LET d == th[p].at
      n == Head(th[p].path)
      i == dirlookup(d, n) IN
  /\ At(p, "enter") /\ th[p].op = "unlink"
  /\ ilock(d)
  /\ IF n \in {".", ".."} \/ i = None
       THEN Finish(p, <<d>>) /\ UNCHANGED <<ref, lock>>
       ELSE /\ lock' = [lock EXCEPT ![d] = p]
            /\ iget(i)
            /\ Go(p, [pc |-> "unlinking", ip |-> i])
  /\ UNCHANGED <<disk, cwd, open>>

\* The entry goes, and with a directory's entry the link of its "..".
Unlinking(p) ==
  LET d == th[p].at
      i == th[p].ip IN
  /\ At(p, "unlinking")
  /\ ilock(i) /\ nlink[i] >= 1
  /\ IF type[i] = "dir" /\ ~ isdirempty(i)
       THEN /\ Go(p, [pc |-> "unlinkbad", ip |-> None, put |-> <<i>>])
            /\ UNCHANGED <<nlink, ents, lock>>
       ELSE /\ ents' = [ents EXCEPT ![d][Head(th[p].path)] = None]
            /\ nlink' = IF type[i] = "dir" THEN [nlink EXCEPT ![d] = @ - 1] ELSE nlink
            /\ lock' = [lock EXCEPT ![d] = Free, ![i] = p]
            /\ Go(p, [pc |-> "unlinked", at |-> None, put |-> <<d>>])
  /\ UNCHANGED <<type, up, ref, cwd, open>>

\* The directory is put back; the inode loses its link and is put back too.
Unlinked(p) ==
  LET i == th[p].ip IN
  /\ At(p, "unlinked")
  /\ nlink' = [nlink EXCEPT ![i] = @ - 1]
  /\ lock' = [lock EXCEPT ![i] = Free]
  /\ Finish(p, <<i>>)
  /\ UNCHANGED <<type, ents, up, ref, valid, cwd, open>>

\* The label bad of sys_unlink, the directory still locked.
UnlinkBad(p) ==
  LET d == th[p].at IN
  /\ At(p, "unlinkbad")
  /\ lock' = [lock EXCEPT ![d] = Free]
  /\ Finish(p, <<d>>)
  /\ UNCHANGED <<disk, ref, valid, cwd, open>>

-----------------------------------------------------------------------------
(* create, for open(O_CREATE) ("creat"), mkdir and mknod.                    *)

Creating == {"creat", "mkdir", "mknod"}
TypeFor(op) == CASE op = "creat" -> "file" [] op = "mkdir" -> "dir" [] op = "mknod" -> "dev"

\* The name exists: drop the directory, then look at the inode.
CreateOld(p) ==
  LET d == th[p].at
      i == dirlookup(d, Head(th[p].path)) IN
  /\ At(p, "enter") /\ th[p].op \in Creating
  /\ ilock(d)
  /\ i # None
  /\ iget(i)
  /\ Go(p, [pc |-> "old", ip |-> i, at |-> None, put |-> <<d>>])
  /\ UNCHANGED <<disk, lock, cwd, open>>

\* ialloc takes the first free inode; it stays locked while the directory is
\* put back.  Out of inodes is a panic.
ialloc == {i \in Inum : type[i] = "free" /\ \A j \in Inum : type[j] = "free" => i <= j}

CreateNew(p) ==
  LET d == th[p].at
      n == Head(th[p].path)
      t == TypeFor(th[p].op) IN
  /\ At(p, "enter") /\ th[p].op \in Creating
  /\ Lockable(d)
  /\ dirlookup(d, n) = None
  /\ \E i \in ialloc :
       /\ lock[i] = Free
       /\ iget(i)
       /\ valid' = valid \cup {d, i}
       /\ lock' = [lock EXCEPT ![i] = p]
       /\ type' = [type EXCEPT ![i] = t]
       /\ nlink' = [nlink EXCEPT ![i] = 1, ![d] = IF t = "dir" THEN @ + 1 ELSE @]
       /\ up' = IF t = "dir" THEN [up EXCEPT ![i] = d] ELSE up
       /\ ents' = [ents EXCEPT ![d][n] = i]
       /\ Go(p, [pc |-> "made", ip |-> i, at |-> None, put |-> <<d>>])
  /\ UNCHANGED <<cwd, open>>

\* What create's caller does with the inode: open keeps it in a descriptor if
\* there is one, mkdir and mknod put it back.
Created(p) ==
  LET i == th[p].ip
      keep == th[p].op = "creat" /\ type[i] = "file" /\ open[p] = None IN
  /\ \/ At(p, "old") /\ ilock(i) /\ UNCHANGED lock
     \/ At(p, "made") /\ lock' = [lock EXCEPT ![i] = Free] /\ UNCHANGED valid
  /\ IF keep THEN Finish(p, <<>>) ELSE Finish(p, <<i>>)
  /\ open' = IF keep THEN [open EXCEPT ![p] = i] ELSE open
  /\ UNCHANGED <<disk, ref, cwd>>

\* The close of an inode's last descriptor.
Close(p) ==
  /\ At(p, "idle") /\ open[p] # None
  /\ Finish(p, <<open[p]>>)
  /\ open' = [open EXCEPT ![p] = None]
  /\ UNCHANGED <<disk, ref, valid, lock, cwd>>

Next ==
  \E p \in Proc :
    \/ \E c \in Calls : Call(p, c)
    \/ WalkEnd(p) \/ WalkParent(p) \/ WalkStep(p)
    \/ OpenFound(p) \/ sys_chdir(p) \/ Close(p)
    \/ LinkFound(p) \/ LinkEnter(p) \/ LinkExists(p) \/ LinkBad(p)
    \/ UnlinkEnter(p) \/ Unlinking(p) \/ Unlinked(p) \/ UnlinkBad(p)
    \/ CreateOld(p) \/ CreateNew(p) \/ Created(p)
    \/ IputCheck(p) \/ IputDrop(p)

Spec == Init /\ [][Next]_vars

-----------------------------------------------------------------------------
(* Properties.                                                               *)

\* The references p holds, one per pointer of the code: its directory, its
\* open file, the inodes it is about to put back, and the locals ip and dp.
Held(p) ==
  LET t == th[p]
      one(i) == IF i = None THEN <<>> ELSE <<i>> IN
  <<cwd[p]>> \o one(open[p]) \o t.put \o one(t.at) \o one(t.ip)

UsesBy(p, i) == Cardinality({k \in DOMAIN Held(p) : Held(p)[k] = i})

\* ref counts exactly the pointers to the inode, on every path through every
\* call (fs.c: "ip->ref tracks the number of in-memory pointers"): a path
\* that forgets an iput leaks the entry, one iput too many frees it in use.
RefsAreUses ==
  \A i \in Inum : ref[i] = MapThenSumSet(LAMBDA p : UsesBy(p, i), Proc)

\* The directories that the names lead to from the root.
RECURSIVE Below(_)
Below(S) ==
  LET more == {i \in Inum : type[i] = "dir" /\ \E d \in S, n \in Name : ents[d][n] = i} IN
  IF more \subseteq S THEN S ELSE Below(S \cup more)
Reachable == Below({Root})

EntriesFor(i) == {e \in Inum \X Name : type[e[1]] = "dir" /\ ents[e[1]][e[2]] = i}
ChildrenOf(i) == {d \in Reachable \ {Root} : up[d] = i}

\* An inode has at least as many links as there are entries naming it, ".."
\* of the directories in the tree included, whatever link, unlink and create
\* have half done: so iput never frees an inode that a name still leads to.
LinksCoverEntries ==
  \A i \in Inum :
    nlink[i] >= Cardinality(EntriesFor(i)) + Cardinality(ChildrenOf(i))

\* What a process works in or has open is not freed under it by another
\* process's unlink and iput.
HeldStaysAlive ==
  \A p \in Proc : type[cwd[p]] = "dir" /\ (open[p] # None => type[open[p]] # "free")

\* fs.c:327, of iput: "If that was the last reference and the inode has no
\* links to it, free the inode (and its content) on disk."
UnusedAreFreed == \A i \in Inum : nlink[i] = 0 /\ ref[i] = 0 => type[i] = "free"
=============================================================================
