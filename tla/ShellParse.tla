----------------------------- MODULE ShellParse -----------------------------
(***************************************************************************)
(* The parser of the shell, sh.c: the parse functions build a tree from a  *)
(* line by recursive descent.  A line is a sequence of tokens: one of the  *)
(* operators, with "+" for >>, or a word.  Where the blanks of the line    *)
(* are and where nulterminate cuts its words out is left out: the pointer  *)
(* s of the code is the index of the next token, and the index after the   *)
(* last one reads as NUL.                                                  *)
(*                                                                         *)
(* Every parse function returns [cmd, s]: the tree and the place it        *)
(* stopped at.  A panic() of the parser ends the child that parses, so it  *)
(* makes the whole result Panic and nothing more is read.                  *)
(***************************************************************************)
EXTENDS Integers, Sequences, FiniteSets, FiniteSetsExt, TLC

CONSTANT MAXARGS        \* sh.c:14: argv has room for MAXARGS pointers

NUL == "NUL"
Symbols == {"<", "|", ">", "+", "&", ";", "(", ")"}
gettoken(l, s) == IF s <= Len(l) THEN l[s] ELSE NUL
IsWord(tok) == tok \notin Symbols \cup {NUL}
peek(l, s, toks) == gettoken(l, s) \in toks

\* The constructors.
execcmd(argv) == [type |-> "EXEC", argv |-> argv]
redircmd(sub, file, fd) == [type |-> "REDIR", cmd |-> sub, file |-> file, fd |-> fd]
pipecmd(left, right) == [type |-> "PIPE", left |-> left, right |-> right]
listcmd(left, right) == [type |-> "LIST", left |-> left, right |-> right]
backcmd(sub) == [type |-> "BACK", cmd |-> sub]

NoTree == [type |-> "PANIC"]
Panic == [cmd |-> NoTree, s |-> 0]
Failed(r) == r.s = 0
At(cmd, s) == [cmd |-> cmd, s |-> s]

Pos(l) == 1 .. Len(l) + 1

(***************************************************************************)
(* parseredirs wraps its argument in the redirections that stand at s, the *)
(* first one innermost.  parseexec calls it with ret, the wrapped command  *)
(* so far, so its redirections are collected over the whole command.       *)
(***************************************************************************)
Redirs(l, s) ==
    LET R[x \in Pos(l)] ==
          IF ~peek(l, x, {"<", ">", "+"}) THEN [redirs |-> <<>>, s |-> x]
          ELSE IF ~IsWord(gettoken(l, x + 1)) THEN [redirs |-> <<>>, s |-> 0]
          ELSE [R[x + 2] EXCEPT
                  !.redirs = <<[file |-> l[x + 1], fd |-> IF l[x] = "<" THEN 0 ELSE 1]>> \o @]
    IN  R[s]

Wrap(cmd, redirs) ==
    LET W[i \in 0 .. Len(redirs)] ==
          IF i = 0 THEN cmd ELSE redircmd(W[i - 1], redirs[i].file, redirs[i].fd)
    IN  W[Len(redirs)]

parseredirs(cmd, l, s) ==
    LET r == Redirs(l, s) IN IF Failed(r) THEN Panic ELSE At(Wrap(cmd, r.redirs), r.s)

\* The loop of parseexec: words and redirections up to a stop or the end.
BadStops == {"|", ")", "&", NUL}
Stops == {"|", ")", "&", ";", NUL}

\* A is the loop as a function of the place, r what stands at this one.
Argument(l, A, r) ==
    LET rest == A[r.s + 1]
    IN  IF Failed(r) \/ peek(l, r.s, Stops) THEN [argv |-> <<>>] @@ r
        ELSE IF ~IsWord(gettoken(l, r.s)) THEN [argv |-> <<>>, redirs |-> <<>>, s |-> 0]
        ELSE [argv |-> <<l[r.s]>> \o rest.argv, redirs |-> r.redirs \o rest.redirs, s |-> rest.s]
Arguments(l, s) == LET A[x \in Pos(l)] == Argument(l, A, Redirs(l, x)) IN A[s]

(***************************************************************************)
(* The parse functions that call each other.  P is the function they are   *)
(* all values of: P["line", s] is parseline at s, P["pipe", s] parsepipe.  *)
(***************************************************************************)
parseblock(l, P, s) ==
    LET body == P["line", s + 1]
    IN  IF Failed(body) \/ ~peek(l, body.s, {")"}) THEN Panic
        ELSE parseredirs(body.cmd, l, body.s + 1)

Executes(a) ==
    IF Failed(a) \/ Len(a.argv) >= MAXARGS THEN Panic ELSE At(Wrap(execcmd(a.argv), a.redirs), a.s)
parseexec(l, P, s) ==
    IF peek(l, s, {"("}) THEN parseblock(l, P, s) ELSE Executes(Arguments(l, s))

PipedOn(l, P, left) ==
    LET right == P["pipe", left.s + 1]
    IN  IF Failed(left) \/ ~peek(l, left.s, {"|"}) THEN left
        ELSE IF Failed(right) THEN Panic
        ELSE At(pipecmd(left.cmd, right.cmd), right.s)
parsepipe(l, P, s) == PipedOn(l, P, parseexec(l, P, s))

\* The while loop of parseline: every & wraps what came before it.
Backs(l, r) ==
    LET B[n \in Nat] == IF n = 0 THEN r.cmd ELSE backcmd(B[n - 1])
        n == Min({k \in 0 .. Len(l) : ~peek(l, r.s + k, {"&"})})
    IN  At(B[n], r.s + n)

parseline(l, P, s) ==
    LET left == Backs(l, P["pipe", s])
        right == P["line", left.s + 1]
    IN  IF Failed(P["pipe", s]) THEN Panic
        ELSE IF ~peek(l, left.s, {";"}) THEN left
        ELSE IF Failed(right) THEN Panic
        ELSE At(listcmd(left.cmd, right.cmd), right.s)

Parse(l) ==
    LET P[k \in {"line", "pipe"}, s \in Pos(l)] ==
          IF k = "line" THEN parseline(l, P, s) ELSE parsepipe(l, P, s)
    IN  P["line", 1]

Complete(l, r) == IF Failed(r) \/ r.s # Len(l) + 1 THEN NoTree ELSE r.cmd
parsecmd(l) == Complete(l, Parse(l))

-----------------------------------------------------------------------------
(***************************************************************************)
(* The grammar the parser is meant to accept, stated by splitting a line's *)
(* tokens instead of by walking them: a line is cut at its first top-level *)
(* semicolon, what is left at trailing ampersands, then at its first       *)
(* top-level bar; a piece is a parenthesised line with redirections or     *)
(* words and redirections in any order.                                    *)
(***************************************************************************)
Depth(t, i) == Cardinality({j \in 1 .. i - 1 : t[j] = "("})
               - Cardinality({j \in 1 .. i - 1 : t[j] = ")"})
Top(t, c) == {i \in DOMAIN t : t[i] = c /\ Depth(t, i) = 0}
Over(cmd, F(_)) == IF cmd = NoTree THEN NoTree ELSE F(cmd)
Make(type, left, right) ==
    IF NoTree \in {left, right} THEN NoTree
    ELSE [type |-> type, left |-> left, right |-> right]

\* In a piece of words and redirections, the operators and what they name.
Operators(t) == {i \in DOMAIN t : t[i] \in {"<", ">", "+"}}
Simple(t) == /\ \A i \in DOMAIN t : IsWord(t[i]) \/ i \in Operators(t)
             /\ \A i \in Operators(t) : i < Len(t) /\ IsWord(t[i + 1])
WordsOf(t) ==
    LET words == SelectSeq([i \in DOMAIN t |-> <<i, t[i]>>],
                           LAMBDA w : w[1] \notin Operators(t) /\ w[1] - 1 \notin Operators(t))
    IN  [i \in DOMAIN words |-> words[i][2]]
Redirected(cmd, t) ==
    LET W[n \in 0 .. Len(t)] ==
          IF n = 0 THEN cmd
          ELSE IF n \in Operators(t)
               THEN redircmd(W[n - 1], t[n + 1], IF t[n] = "<" THEN 0 ELSE 1)
               ELSE W[n - 1]
    IN  W[Len(t)]

\* G[k, i, j] is what the tokens i .. j mean as a line, as a part that may be
\* put in the background, as a pipeline or as a piece of one.
Grammar(all) ==
    LET G[k \in {"line", "back", "pipe", "piece"}, i \in 1 .. Len(all) + 1, j \in 0 .. Len(all)] ==
          LET t == SubSeq(all, i, j)
              cut == IF k = "line" THEN Top(t, ";") ELSE Top(t, "|")
              at == i + Min(cut) - 1
              close == {c \in DOMAIN t : t[c] = ")" /\ Depth(t, c + 1) = 0}
              rest == SubSeq(t, Min(close) + 1, Len(t))
          IN  CASE k = "line" -> IF cut = {} THEN G["back", i, j]
                                 ELSE Make("LIST", G["back", i, at - 1], G["line", at + 1, j])
                [] k = "back" -> IF t = <<>> \/ all[j] # "&" THEN G["pipe", i, j]
                                 ELSE Over(G["back", i, j - 1], LAMBDA c : backcmd(c))
                [] k = "pipe" -> IF cut = {} THEN G["piece", i, j]
                                 ELSE Make("PIPE", G["piece", i, at - 1], G["pipe", at + 1, j])
                [] k = "piece" ->
                     IF t # <<>> /\ t[1] = "("
                     THEN IF close = {} THEN NoTree
                          ELSE IF ~Simple(rest) \/ WordsOf(rest) # <<>> THEN NoTree
                          ELSE Over(G["line", i + 1, i + Min(close) - 2],
                                    LAMBDA c : Redirected(c, rest))
                     ELSE IF ~Simple(t) \/ Len(WordsOf(t)) >= MAXARGS THEN NoTree
                     ELSE Redirected(execcmd(WordsOf(t)), t)
    IN  G["line", 1, Len(all)]

(***************************************************************************)
(* The tree a line is run as is the one the grammar gives it, and a line   *)
(* outside the grammar is refused (parsecmd).                              *)
(***************************************************************************)
Parses(l) == parsecmd(l) = Grammar(l)
=============================================================================
