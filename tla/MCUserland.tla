----------------------------- MODULE MCUserland -----------------------------
(***************************************************************************)
(* The shell, its parser, the user heap and the test program of the        *)
(* scheduler, each on a small instance of its own: part says which of them *)
(* a behaviour is of, and the others keep their initial state.             *)
(***************************************************************************)
EXTENDS Naturals, Sequences, SequencesExt

CONSTANT N

VARIABLES part,
  procs, nextpid, pipe, test, group, row, phase, child_pids,
  proc, bytes, panicked, line,
  ptr, size, freep, brk, live, want

SchedTest == INSTANCE SchedTest
Umalloc == INSTANCE Umalloc WITH HEAP <- 12, CHUNK <- 3, Requests <- {2, 3, 4}

ShLines == {<<"g", "|", "c">>, <<"g", "|", "t", ">", "f">>, <<"g", "&">>, <<"g", ";", "t">>,
            <<"g", "|", "c", "|", "t">>, <<"|", ")">>, <<"cd", "f">>}
ShPrograms == [w \in {"g", "c", "t"} |->
                 CASE w = "g" -> <<"put", "put">> [] w = "c" -> <<"drain">> [] w = "t" -> <<>>]
Shell == INSTANCE Shell WITH
  MAXARGS <- 3, Pid <- 1 .. 4, NFD <- 5, NPIPE <- 1, CAP <- 1,
  Lines <- ShLines, Programs <- ShPrograms

testvars == <<procs, nextpid, pipe, test, group, row, phase, child_pids>>
shvars == <<proc, bytes, panicked>>
heapvars == <<ptr, size, freep, brk, live, want>>
allvars == <<part, testvars, shvars, line, heapvars>>

\* The lines given to the parser: up to LineLength phrases, one after another.
LineLength == 4
Phrases == {<<"a">>, <<"|", "a">>, <<";">>, <<"&">>, <<"(">>, <<")">>, <<">">>, <<">", "a">>}
TypePhrase == \/ Len(line) < LineLength /\ \E t \in Phrases : line' = Append(line, t)
              \/ Len(line) = LineLength /\ UNCHANGED line

Init == /\ part \in {"test", "shell", "parser", "heap"}
        /\ SchedTest!Init /\ Shell!Init /\ line = <<>> /\ Umalloc!Init

TestNext == part = "test" /\ SchedTest!Next /\ UNCHANGED <<part, shvars, line, heapvars>>
ShellNext == part = "shell" /\ Shell!Next /\ UNCHANGED <<part, testvars, line, heapvars>>
ParserNext == part = "parser" /\ TypePhrase /\ UNCHANGED <<part, testvars, shvars, heapvars>>
HeapNext == part = "heap" /\ Umalloc!Next /\ UNCHANGED <<part, testvars, shvars, line>>

Spec == /\ Init /\ [][TestNext \/ ShellNext \/ ParserNext \/ HeapNext]_allvars
        /\ WF_testvars(part = "test" /\ SchedTest!Next)
        /\ \A x \in 1 .. 4 : WF_shvars(part = "shell" /\ Shell!Step(x))

-----------------------------------------------------------------------------
(* The test's tables show each child with its own tickets (SchedTest). *)
RowsMatch == part = "test" => SchedTest!RowsMatch

(* The test program leaves no process behind (SchedTest). *)
NothingLeftBehind == <>[](part = "test" => SchedTest!Gone)

(* Every command line ends, pipelines included (Shell). *)
LinesEnd == \A x \in 1 .. 4 : []<>(part = "shell" => Shell!Ended(x))

(* At the prompt only background commands still run (Shell). *)
ForegroundIsOver == part = "shell" => Shell!ForegroundIsOver

(* parsecmd gives every line the tree of the grammar (ShellParse). *)
LineParses == part = "parser" => Shell!Parses(FlattenSeq(line))

(* No unit of the heap is lost or given out twice (Umalloc). *)
UnitsAccounted == part = "heap" => Umalloc!UnitsAccounted
=============================================================================
