------------------------------ MODULE MCKernel ------------------------------
(***************************************************************************)
(* The memory of the processes, the open files and the console, each on a  *)
(* small instance of its own: part says which of them a behaviour is of,   *)
(* and the others keep their initial state.                                *)
(***************************************************************************)
EXTENDS Memory

CONSTANTS NoObj, Reader, INPUT_BUF, WRAP, Sizes

(* The buffer is not empty and its size divides 2^32. *)
ASSUME ConsoleConstants ==
  /\ INPUT_BUF \in Nat \ {0} /\ WRAP \in Nat /\ WRAP > INPUT_BUF /\ WRAP % INPUT_BUF = 0
  /\ Sizes \subseteq Nat \ {0}

VARIABLES part,
  file, ofile, cwd, pipe, iref, fpc, closing, after, ff, ip, fresh, child,
  buf, cr, cw, ce, left, target, asleep, killed

FileTable == INSTANCE FileTable WITH
  Proc <- {1, 2}, InitProc <- 1, NOFILE <- 2, NFILE <- 3, Page <- {"page"},
  Inode <- {"dir", "file"}, Dir <- {"dir"}, pc <- fpc, new <- fresh,
  Lookups <- {<<"dir", "open">>, <<"dir", "chdir">>, <<"file", "chdir">>}
filevars == <<file, ofile, cwd, pipe, iref, fpc, closing, after, ff, ip, fresh, child>>

Console == INSTANCE Console WITH r <- cr, w <- cw, e <- ce
consvars == <<buf, cr, cw, ce, left, target, asleep, killed>>

PartsInit ==
  /\ part \in {"memory", "files", "console"}
  /\ Init /\ FileTable!Init /\ Console!Init

MemoryNext == part = "memory" /\ Next /\ UNCHANGED <<part, filevars, consvars>>
FilesNext == part = "files" /\ FileTable!Next /\ UNCHANGED <<part, vars, consvars>>
ConsoleNext == part = "console" /\ Console!Next /\ UNCHANGED <<part, vars, filevars>>

PartsSpec ==
  PartsInit /\ [][MemoryNext \/ FilesNext \/ ConsoleNext]_<<part, vars, filevars, consvars>>

-----------------------------------------------------------------------------
(* No open file, pipe end or inode reference is leaked or lost (FileTable). *)
OpenFilesAccounted == part = "files" => FileTable!OpenFilesAccounted

(* Editing the line being typed leaves committed input alone (Console). *)
CommittedIsSafe == [][Console!CommittedStep]_consvars

(* No reader sleeps on input, no full buffer is left uncommitted (Console). *)
InputIsServed == part = "console" => Console!InputIsServed
=============================================================================
