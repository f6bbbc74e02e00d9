------------------------------- MODULE Console ------------------------------
(***************************************************************************)
(* Console input, console.c: consoleintr puts the characters of the        *)
(* keyboard and the serial line into a ring buffer and edits the line      *)
(* being typed, consoleread hands committed input to readers.  The indices *)
(* run free and are reduced when the buffer is accessed: r <= w <= e, the  *)
(* committed input is [r, w) and the line being typed [w, e).              *)
(*                                                                         *)
(* cons.lock is held by consoleintr for each character and by consoleread  *)
(* except while it sleeps, so one pass of the reader's loop is one step.   *)
(* Echo and screen (consputc, cgaputc) are left out.                       *)
(***************************************************************************)
EXTENDS Naturals, Sequences, FiniteSets, FiniteSetsExt

CONSTANTS
  Reader,       \* processes that read the console
  INPUT_BUF,    \* console.c:181, 128 in the code
  WRAP,         \* where the unsigned indices wrap: a multiple of INPUT_BUF
  Sizes         \* the sizes n of the read calls

NL == "nl"
CtrlD == "^D"
Chars == {"x", NL, CtrlD}

VARIABLES
  buf, r, w, e, \* struct input
  left,         \* [Reader -> n of consoleread, 0 when not in a call]
  target,       \* [Reader -> the n the call began with]
  asleep,       \* readers in sleep(&input.r)
  killed        \* readers that have been killed
vars == <<buf, r, w, e, left, target, asleep, killed>>
Line == <<buf, r, w, e>>

Minus(a, b) == (a + WRAP - b) % WRAP
Plus(a, k) == (a + k) % WRAP
Window == [i \in 1 .. Minus(w, r) |-> buf[Plus(r, i - 1) % INPUT_BUF]]

Init == /\ buf = [i \in 0 .. INPUT_BUF - 1 |-> "x"]
        /\ r = 0 /\ w = 0 /\ e = 0
        /\ left = [p \in Reader |-> 0] /\ target = [p \in Reader |-> 0]
        /\ asleep = {} /\ killed = {}

-----------------------------------------------------------------------------
\* consoleintr, the cases of its switch.
BadCommits(c, end) == c \in {NL, CtrlD}
Commits(c, end) == c \in {NL, CtrlD} \/ end = Plus(r, INPUT_BUF)

Type(c) == /\ Minus(e, r) < INPUT_BUF
           /\ buf' = [buf EXCEPT ![e % INPUT_BUF] = c]
           /\ e' = Plus(e, 1)
           /\ w' = IF Commits(c, e') THEN e' ELSE w
           /\ asleep' = IF Commits(c, e') THEN {} ELSE asleep
           /\ UNCHANGED <<r, left, target, killed>>

BadErasable == e # r
Erasable == e # w
Backspace == /\ Erasable
             /\ e' = Minus(e, 1)
             /\ UNCHANGED <<buf, r, w, left, target, asleep, killed>>

KillLine ==
    LET stops == {k \in 0 .. Minus(e, w) :
                    k = Minus(e, w) \/ buf[Minus(e, k + 1) % INPUT_BUF] = NL}
    IN  /\ e' = Minus(e, Min(stops))
        /\ UNCHANGED <<buf, r, w, left, target, asleep, killed>>

-----------------------------------------------------------------------------
Start(p) == /\ left[p] = 0 /\ p \notin killed
            /\ \E n \in Sizes : /\ left' = [left EXCEPT ![p] = n]
                                /\ target' = [target EXCEPT ![p] = n]
            /\ UNCHANGED <<Line, asleep, killed>>

Returns(p) == left' = [left EXCEPT ![p] = 0] /\ target' = [target EXCEPT ![p] = 0]

\* The buffer is empty: give up when killed, else sleep.
ReadEmpty(p) == /\ left[p] > 0 /\ p \notin asleep /\ Window = <<>>
                /\ \/ p \in killed /\ Returns(p) /\ UNCHANGED asleep
                   \/ p \notin killed /\ asleep' = asleep \cup {p} /\ UNCHANGED <<left, target>>
                /\ UNCHANGED <<Line, killed>>

\* Takes characters up to the end of a line, of the request or of the buffer.
\* A ^D behind other characters is put back for the next call.
ReadSome(p) ==
    LET ends == {i \in DOMAIN Window : Window[i] \in {NL, CtrlD}}
        k == Min({left[p], Len(Window)} \cup ends)
        putback == Window[k] = CtrlD /\ left[p] - (k - 1) < target[p]
    IN  /\ left[p] > 0 /\ p \notin asleep /\ Window # <<>>
        /\ r' = Plus(r, IF putback THEN k - 1 ELSE k)
        /\ \/ (k \in ends \/ k = left[p]) /\ Returns(p)
           \/ k \notin ends /\ k < left[p] /\ left' = [left EXCEPT ![p] = @ - k] /\ UNCHANGED target
        /\ UNCHANGED <<buf, w, e, asleep, killed>>

\* kill() of proc.c marks the process and wakes it.
Kill(p) == /\ killed' = killed \cup {p}
           /\ asleep' = asleep \ {p}
           /\ UNCHANGED <<Line, left, target>>

Next == \/ \E c \in Chars : Type(c)
        \/ Backspace \/ KillLine
        \/ \E p \in Reader : Start(p) \/ ReadEmpty(p) \/ ReadSome(p) \/ Kill(p)
Spec == Init /\ [][Next]_vars

-----------------------------------------------------------------------------
(***************************************************************************)
(* Committed input is safe: typing, erasing and killing a line only ever   *)
(* add whole lines behind it, and a read only takes characters from its    *)
(* front, one line at most (consoleintr's tests of e against w and r).     *)
(***************************************************************************)
CommittedStep ==
  \/ /\ Len(Window') >= Len(Window) /\ r' = r
     /\ SubSeq(Window', 1, Len(Window)) = Window
  \/ LET k == Minus(r', r)
     IN  /\ k <= Len(Window) /\ Window' = SubSeq(Window, k + 1, Len(Window))
         /\ \A i \in 1 .. k - 1 : Window[i] \notin {NL, CtrlD}
CommittedIsSafe == [][CommittedStep]_vars

(***************************************************************************)
(* A reader never sleeps on committed input, and a full buffer is always   *)
(* committed, so that a line longer than the buffer cannot leave the       *)
(* readers asleep and the keyboard ignored (the wakeup of consoleintr).    *)
(***************************************************************************)
InputIsServed == /\ asleep # {} => r = w
                 /\ Minus(e, r) = INPUT_BUF => w = e
=============================================================================
