------------------------------ MODULE MCFiles -------------------------------
(***************************************************************************)
(* Inodes and the contents of files, each on a small instance of its own:  *)
(* part says which of them a behaviour is of, and the other keeps its      *)
(* initial state.                                                          *)
(***************************************************************************)
EXTENDS Naturals, TLC

CONSTANTS p1, p2, Parts

VARIABLES part,
  type, nlink, ents, up, ref, valid, lock, cwd, open, th,
  bitmap, data, addrs, size, dlock, off, wr, roff, got, written

(* Two processes on three inodes and two names. *)
C(op, path) == [op |-> op, path |-> path, new |-> <<>>]
InodeCalls ==
  { C("creat", <<"a">>), C("mkdir", <<"b">>), C("mknod", <<"b", "a">>), C("chdir", <<"b">>),
    C("unlink", <<"/", "b">>), C("write", <<"..", "a">>),
    [op |-> "link", path |-> <<"a">>, new |-> <<"b">>] }
Inodes == INSTANCE Inodes WITH
  Proc <- {p1, p2}, Inum <- {1, 2, 3}, Name <- {"a", "b"}, Calls <- InodeCalls
inodevars == <<type, nlink, ents, up, ref, valid, lock, cwd, open, th>>

FileData == INSTANCE FileData WITH
  Proc <- {1, 2}, Ino <- {1, 2}, NBLOCK <- 6, BSIZE <- 2, NDIRECT <- 1, ChunkMax <- 3,
  Watched <- {1}, Reads <- {2}, Writes <- {<<1, 1, 4>>, <<2, 1, 1>>, <<2, 2, 5>>},
  lock <- dlock
datavars == <<bitmap, data, addrs, size, dlock, off, wr, roff, got, written>>

Init == /\ part \in Parts
        /\ Inodes!Init /\ FileData!Init

InodesNext == part = "inodes" /\ Inodes!Next /\ UNCHANGED <<part, datavars>>
DataNext == part = "data" /\ FileData!Next /\ UNCHANGED <<part, inodevars>>

Spec == Init /\ [][InodesNext \/ DataNext]_<<part, inodevars, datavars>>

ProcSymmetry == Permutations({p1, p2})

-----------------------------------------------------------------------------
(* ref counts the pointers to the inode (Inodes). *)
RefsAreUses == part = "inodes" => Inodes!RefsAreUses

(* An inode has a link for every entry that leads to it (Inodes). *)
LinksCoverEntries == part = "inodes" => Inodes!LinksCoverEntries

(* Nothing is freed that a process works in or has open (Inodes). *)
HeldStaysAlive == part = "inodes" => Inodes!HeldStaysAlive

(* iput() frees an inode without links and references (Inodes). *)
UnusedAreFreed == part = "inodes" => Inodes!UnusedAreFreed

(* The bitmap marks exactly the blocks that inodes name (FileData). *)
BlocksAccounted == part = "data" => FileData!BlocksAccounted

(* A file is the concatenation of what was written to it (FileData). *)
WritesAppend == part = "data" => FileData!WritesAppend
=============================================================================
