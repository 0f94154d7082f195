------------------------------- MODULE ShParse ------------------------------
(***************************************************************************)
(* The parser of user/sh.c.  A line is a sequence of characters, and s a   *)
(* position in it, Len(line) + 1 being es.  A parser returns the command   *)
(* and the position it got to; a panic is the command Panicked, at es.     *)
(***************************************************************************)
EXTENDS Integers, Sequences, FiniteSets

CONSTANTS Lexemes,      \* pieces lines are made of
          MaxLexemes,   \* bound: pieces of a line
          MAXARGS

ASSUME ShParseAssumption == MaxLexemes \in Nat /\ MAXARGS \in Nat

VARIABLES line, pieces

parsevars == <<line, pieces>>

ParseInit == line = <<>> /\ pieces = 0
type_more == /\ pieces < MaxLexemes
             /\ \E x \in Lexemes : line' = line \o x
             /\ pieces' = pieces + 1
ParseSpec == ParseInit /\ [][type_more]_parsevars

whitespace == {" "}
symbols == {"<", "|", ">", "&", ";", "(", ")"}

ES == Len(line) + 1
At(s) == IF s < ES THEN line[s] ELSE "0"

RECURSIVE skip(_)
skip(s) == IF At(s) \in whitespace THEN skip(s + 1) ELSE s

RECURSIVE skipword(_)
skipword(s) == IF s < ES /\ At(s) \notin whitespace \cup symbols THEN skipword(s + 1) ELSE s

(* gettoken: its result, q and eq, and the new *ps. *)
Token(tok, q, eq) == [tok |-> tok, q |-> q, eq |-> eq, s |-> skip(eq)]

TokenAt(q) ==
    IF At(q) = "0" THEN Token("0", q, q)
    ELSE IF At(q) = ">" /\ At(q + 1) = ">" THEN Token("+", q, q + 2)
    ELSE IF At(q) \in symbols THEN Token(At(q), q, q + 1)
    ELSE Token("a", q, skipword(q))
gettoken(s) == TokenAt(skip(s))

peek(s, toks) == At(skip(s)) \in toks

(* The constructors.  A string is its place q .. eq - 1 in the line.       *)
Str(t) == [q |-> t.q, eq |-> t.eq]
execcmd(argv) == [type |-> "EXEC", argv |-> argv]
redircmd(cmd, file, mode) == [type |-> "REDIR", cmd |-> cmd, file |-> file, mode |-> mode]
pipecmd(left, right) == [type |-> "PIPE", left |-> left, right |-> right]
listcmd(left, right) == [type |-> "LIST", left |-> left, right |-> right]
backcmd(cmd) == [type |-> "BACK", cmd |-> cmd]
Panicked == [type |-> "panic"]
Stop == [cmd |-> Panicked, s |-> ES]
Is(r, type) == r.cmd.type = type

(* parseredirs; r is the command so far and where it ends.  What it is     *)
(* wrapped around is kept apart, for parseexec: a list of redirections,    *)
(* the first of them innermost.                                            *)
RECURSIVE Redirs(_, _)
RedirTo(list, mode, file) ==
    IF file.tok # "a" THEN [list |-> <<Panicked>>, s |-> ES]
    ELSE Redirs(Append(list, [file |-> Str(file), mode |-> mode]), file.s)
Redirs(list, s) ==
    IF ~peek(s, {"<", ">"}) THEN [list |-> list, s |-> skip(s)]
    ELSE RedirTo(list, gettoken(s).tok, gettoken(gettoken(s).s))

RECURSIVE Wrap(_, _)
Wrap(cmd, list) ==
    IF list = <<>> THEN cmd ELSE Wrap(redircmd(cmd, Head(list).file, Head(list).mode), Tail(list))
parseredirs(cmd, r) ==
    IF r.list # <<>> /\ r.list[1] = Panicked THEN Stop ELSE [cmd |-> Wrap(cmd, r.list), s |-> r.s]

(* The loop of parseexec over the arguments. *)
RECURSIVE Args(_, _)
ArgAt(argv, t, r) ==
    IF t.tok = "0" THEN parseredirs(execcmd(argv), r)
    ELSE IF t.tok # "a" \/ Len(argv) + 1 >= MAXARGS THEN Stop
    ELSE Args(Append(argv, Str(t)), Redirs(r.list, t.s))
Args(argv, r) ==
    IF r.list # <<>> /\ r.list[1] = Panicked THEN Stop
    ELSE IF peek(r.s, {"|", ")", "&", ";"}) THEN parseredirs(execcmd(argv), r)
    ELSE ArgAt(argv, gettoken(r.s), r)

RECURSIVE parseline(_)
CloseBlock(r) ==
    IF Is(r, "panic") \/ ~peek(r.s, {")"}) THEN Stop
    ELSE parseredirs(r.cmd, Redirs(<<>>, gettoken(r.s).s))
parseblock(s) == CloseBlock(parseline(gettoken(s).s))

parseexec(s) == IF peek(s, {"("}) THEN parseblock(s) ELSE Args(<<>>, Redirs(<<>>, s))

(* Variant: a pipeline is read as a line. *)
RightSide_line(s) == parseline(s)

RECURSIVE parsepipe(_)
RightSide(s) == parsepipe(s)

PipeOf(l, r) == IF Is(r, "panic") THEN Stop ELSE [cmd |-> pipecmd(l.cmd, r.cmd), s |-> r.s]
PipeFrom(l) ==
    IF Is(l, "panic") \/ ~peek(l.s, {"|"}) THEN l
    ELSE PipeOf(l, RightSide(gettoken(l.s).s))
parsepipe(s) == PipeFrom(parseexec(s))

RECURSIVE Backs(_)
Backs(r) ==
    IF Is(r, "panic") \/ ~peek(r.s, {"&"}) THEN r
    ELSE Backs([cmd |-> backcmd(r.cmd), s |-> gettoken(r.s).s])
ListOf(l, r) == IF Is(r, "panic") THEN Stop ELSE [cmd |-> listcmd(l.cmd, r.cmd), s |-> r.s]
ListFor(l) ==
    IF Is(l, "panic") \/ ~peek(l.s, {";"}) THEN l ELSE ListOf(l, parseline(gettoken(l.s).s))
parseline(s) == ListFor(Backs(parsepipe(s)))

(* parsecmd, before nulterminate: leftovers are a panic. *)
Whole(r) == IF skip(r.s) # ES THEN Panicked ELSE r.cmd
parsecmd == Whole(parseline(1))

(* The ends where nulterminate writes a NUL. *)
RECURSIVE Strings(_)
Strings(cmd) ==
    CASE cmd.type = "EXEC" -> {cmd.argv[i] : i \in DOMAIN cmd.argv}
      [] cmd.type = "REDIR" -> Strings(cmd.cmd) \cup {cmd.file}
      [] cmd.type \in {"PIPE", "LIST"} -> Strings(cmd.left) \cup Strings(cmd.right)
      [] cmd.type = "BACK" -> Strings(cmd.cmd)
      [] OTHER -> {}
nulterminate(cmd) == {t.eq : t \in Strings(cmd)}

-----------------------------------------------------------------------------
(* What a line means, by splitting its tokens from the outside: at the     *)
(* first ";", then the "&"s at the end, at the first "|", all outside of   *)
(* parentheses; then a block or a simple command.                          *)
RECURSIVE TokensFrom(_)
TokensFrom(s) ==
    LET t == gettoken(s) IN IF t.tok = "0" THEN <<>> ELSE <<t>> \o TokensFrom(t.s)

Count(ts, n, tok) == Cardinality({i \in 1 .. n : ts[i].tok = tok})
Outside(ts, i) == Count(ts, i, "(") = Count(ts, i, ")")
Splits(ts, tok) == {i \in DOMAIN ts : ts[i].tok = tok /\ Outside(ts, i)}
FirstOf(S) == CHOOSE i \in S : \A j \in S : i <= j
Before(ts, i) == SubSeq(ts, 1, i - 1)
After(ts, i) == SubSeq(ts, i + 1, Len(ts))

(* Redirections and words of a simple command: a word after a redirection  *)
(* is its file.                                                            *)
IsRedir(t) == t.tok \in {"<", ">", "+"}
FileOf(ts, i) == i > 1 /\ ts[i].tok = "a" /\ IsRedir(ts[i - 1])
RECURSIVE Meaning(_, _)
Places(S) == [n \in 1 .. Cardinality(S) |-> CHOOSE i \in S : Cardinality({j \in S : j <= i}) = n]
Redirections(ts) ==
    LET at == Places({i \in DOMAIN ts : FileOf(ts, i)})
    IN  [n \in DOMAIN at |-> [file |-> Str(ts[at[n]]), mode |-> ts[at[n] - 1].tok]]
Words(ts) ==
    LET at == Places({i \in DOMAIN ts : ts[i].tok = "a" /\ ~FileOf(ts, i)})
    IN  [n \in DOMAIN at |-> Str(ts[at[n]])]
(* Every redirection has its file, and there is nothing else but words. *)
Simple(ts) ==
    /\ \A i \in DOMAIN ts : ts[i].tok = "a" \/ IsRedir(ts[i])
    /\ \A i \in DOMAIN ts : IsRedir(ts[i]) => i < Len(ts) /\ ts[i + 1].tok = "a"

Failed(c) == c = Panicked
Meaning(ts, as) ==
    CASE as = "line" ->
            LET S == Splits(ts, ";")
                l == Meaning(Before(ts, FirstOf(S)), "back")
                r == Meaning(After(ts, FirstOf(S)), "line")
            IN  IF S = {} THEN Meaning(ts, "back")
                ELSE IF Failed(l) \/ Failed(r) THEN Panicked ELSE listcmd(l, r)
      [] as = "back" ->
            IF ts # <<>> /\ ts[Len(ts)].tok = "&"
            THEN LET c == Meaning(Before(ts, Len(ts)), "back")
                 IN  IF Failed(c) THEN c ELSE backcmd(c)
            ELSE Meaning(ts, "pipe")
      [] as = "pipe" ->
            LET S == Splits(ts, "|")
                l == Meaning(Before(ts, FirstOf(S)), "exec")
                r == Meaning(After(ts, FirstOf(S)), "pipe")
            IN  IF S = {} THEN Meaning(ts, "exec")
                ELSE IF Failed(l) \/ Failed(r) THEN Panicked ELSE pipecmd(l, r)
      [] as = "exec" ->
            IF ts # <<>> /\ ts[1].tok = "("
            THEN LET S == Splits(ts, ")")
                     c == Meaning(After(Before(ts, FirstOf(S)), 1), "line")
                     rest == After(ts, FirstOf(S))
                 IN  IF S = {} THEN Panicked
                     ELSE IF Failed(c) \/ ~Simple(rest) \/ Words(rest) # <<>> THEN Panicked
                     ELSE Wrap(c, Redirections(rest))
            ELSE IF Simple(ts) /\ Len(Words(ts)) < MAXARGS
            THEN Wrap(execcmd(Words(ts)), Redirections(ts)) ELSE Panicked

(* sh.c, nulterminate: the NULs it writes end every string where its token *)
(* ends; none falls inside another word or file name.                      *)
StringsStayWhole ==
    \A t \in Strings(parsecmd) : t.q < t.eq /\ \A e \in nulterminate(parsecmd) : e \notin t.q .. t.eq - 1

(* sh.c, parsecmd: a line is parsed into the command its tokens mean, and  *)
(* every other line is refused: no token is dropped, a redirection         *)
(* belongs to the command it stands in, and nulterminate cuts no string.   *)
ParsesWhatIsMeant == parsecmd = Meaning(TokensFrom(1), "line") /\ StringsStayWhole
=============================================================================
