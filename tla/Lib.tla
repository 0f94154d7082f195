--------------------------------- MODULE Lib --------------------------------
(***************************************************************************)
(* Functions without state of their own: path names and directory entries  *)
(* (skipelem, namecmp of kernel/fs.c; strncpy, strncmp, safestrcpy of      *)
(* kernel/string.c), moves of memory (both memmoves), and numbers          *)
(* (printint of both printf.c, atoi).  A state is one input to them.       *)
(***************************************************************************)
EXTENDS Integers, Sequences

CONSTANTS DIRSIZ,       \* 14: characters of a name
          PathChars,    \* characters of a path other than NUL
          MaxPath,      \* bound: length of a path
          Cells,        \* bound: size of the memory moved in
          WIDTH, UWIDTH,  \* bits of a long long, and of user/printf.c's uint
          Base

ASSUME LibAssumption == DIRSIZ \in Nat /\ WIDTH >= UWIDTH /\ UWIDTH > 0 /\ Base > 1

VARIABLE arg

Paths == UNION {[1 .. n -> PathChars] : n \in 0 .. MaxPath}
Long == -(2 ^ (WIDTH - 1)) .. 2 ^ (WIDTH - 1) - 1

LibInit ==
    \/ \E p \in Paths : arg = [kind |-> "path", path |-> p]
    \/ \E d, s \in 1 .. Cells, n \in 0 .. Cells :
          d + n - 1 <= Cells /\ s + n - 1 <= Cells /\ arg = [kind |-> "move", d |-> d, s |-> s, n |-> n]
    \/ \E x \in Long : arg = [kind |-> "number", x |-> x]

-----------------------------------------------------------------------------
(* Strings in memory: NUL is "0"; reading past the end of a path is NUL.   *)
NUL == "0"
CharAt(s, i) == IF i <= Len(s) THEN s[i] ELSE NUL

RECURSIVE Slashes(_, _)
Slashes(s, i) == IF CharAt(s, i) = "/" THEN Slashes(s, i + 1) ELSE i

RECURSIVE ElemEnd(_, _)
ElemEnd(s, i) == IF CharAt(s, i) \in {"/", NUL} THEN i ELSE ElemEnd(s, i + 1)

(* The memmove of skipelem into name, which keeps what it held after it. *)
Named(name, s, from, len) ==
    [k \in 1 .. DIRSIZ |-> IF k <= len THEN s[from + k - 1]
                           ELSE IF k = len + 1 THEN NUL ELSE name[k]]

(* skipelem from position i: the new position, 0 at the end, and name. *)
Elem(s, from, to, name) ==
    [at |-> Slashes(s, to), name |-> Named(name, s, from, to - from)]
skipelem(s, i, name) ==
    IF CharAt(s, Slashes(s, i)) = NUL THEN [at |-> 0, name |-> name]
    ELSE Elem(s, Slashes(s, i), ElemEnd(s, Slashes(s, i)), name)

(* The names the loop of namex gets, in one buffer. *)
RECURSIVE NamesFrom(_, _, _)
NamesNext(s, r) == IF r.at = 0 THEN <<>> ELSE <<r.name>> \o NamesFrom(s, r.at, r.name)
NamesFrom(s, i, name) == NamesNext(s, skipelem(s, i, name))

(* strncmp and strncpy of n characters. *)
RECURSIVE StrncmpFrom(_, _, _, _)
StrncmpFrom(p, q, i, n) ==
    IF i > n THEN TRUE
    ELSE IF CharAt(p, i) # CharAt(q, i) THEN FALSE
    ELSE CharAt(p, i) = NUL \/ StrncmpFrom(p, q, i + 1, n)
namecmp(p, q) == StrncmpFrom(p, q, 1, DIRSIZ)

StrLen(t, n) ==
    IF \E i \in 1 .. n : CharAt(t, i) = NUL
    THEN (CHOOSE i \in 1 .. n : CharAt(t, i) = NUL /\ \A j \in 1 .. i - 1 : CharAt(t, j) # NUL) - 1
    ELSE n
strncpy(t, n) == [i \in 1 .. n |-> IF i <= StrLen(t, n) THEN t[i] ELSE NUL]
safestrcpy(old, t, n) ==
    [i \in 1 .. n |-> IF i <= StrLen(t, n - 1) THEN t[i]
                      ELSE IF i = StrLen(t, n - 1) + 1 THEN NUL ELSE old[i]]

(* memmove of the kernel and of user programs, a byte at a time. *)
RECURSIVE Upward(_, _, _, _)
Upward(m, d, s, n) == IF n = 0 THEN m ELSE Upward([m EXCEPT ![d] = m[s]], d + 1, s + 1, n - 1)
RECURSIVE Downward(_, _, _, _)
Downward(m, d, s, n) ==
    IF n = 0 THEN m ELSE Downward([m EXCEPT ![d + n - 1] = m[s + n - 1]], d, s, n - 1)

(* Variant: always upward. *)
MustGoDown_never(d, s, n) == FALSE

MustGoDown(d, s, n) == s < d /\ s + n > d

memmove(m, d, s, n) == IF MustGoDown(d, s, n) THEN Downward(m, d, s, n) ELSE Upward(m, d, s, n)
umemmove(m, d, s, n) == IF s > d THEN Upward(m, d, s, n) ELSE Downward(m, d, s, n)

(* printint: the digits of x, the last first, and '-' as -1. *)
RECURSIVE DigitsOf(_)
DigitsOf(x) == <<x % Base>> \o IF x \div Base # 0 THEN DigitsOf(x \div Base) ELSE <<>>

(* -xx or xx in an unsigned type of w bits. *)
Magnitude(xx, w) == (IF xx < 0 THEN -xx ELSE xx) % 2 ^ w

printint(xx, w) == DigitsOf(Magnitude(xx, w)) \o IF xx < 0 THEN <<-1>> ELSE <<>>

(* atoi of digits, the first first. *)
RECURSIVE Atoi(_, _)
Atoi(digits, n) == IF digits = <<>> THEN n ELSE Atoi(Tail(digits), n * Base + Head(digits))

-----------------------------------------------------------------------------
(* The elements of a path, each between slashes. *)
Element(p, i, j) ==
    /\ i <= j /\ \A k \in i .. j : p[k] # "/"
    /\ i = 1 \/ p[i - 1] = "/"
    /\ j = Len(p) \/ p[j + 1] = "/"
Ends(p) == {j \in DOMAIN p : \E i \in 1 .. j : Element(p, i, j)}

(* fs.c, namex: the loop sees the elements of the path, in order, cut to   *)
(* DIRSIZ characters: whatever the buffer held before, an entry that       *)
(* dirlink made of an element (strncpy) is found under it (namecmp), and   *)
(* under no other name.                                                    *)
NamesAreFound ==
    arg.kind = "path" =>
       LET p == arg.path
           names == NamesFrom(p, 1, [k \in 1 .. DIRSIZ |-> "x"])
           ends == Ends(p)
           nth == [n \in 1 .. Len(names) |-> CHOOSE j \in ends :
                      n = Len(SelectSeq([k \in 1 .. j |-> k], LAMBDA k : k \in ends))]
           elem == [n \in 1 .. Len(names) |->
                      SubSeq(p, CHOOSE i \in 1 .. nth[n] : Element(p, i, nth[n]), nth[n])]
           cut(s) == SubSeq(s, 1, IF Len(s) > DIRSIZ THEN DIRSIZ ELSE Len(s))
       IN  /\ Len(names) = Len(SelectSeq([k \in 1 .. Len(p) |-> k], LAMBDA k : k \in ends))
           /\ \A m, n \in 1 .. Len(names) :
                 namecmp(names[m], strncpy(names[n], DIRSIZ)) <=> cut(elem[m]) = cut(elem[n])
           /\ \A n \in 1 .. Len(names) :
                 safestrcpy(names[n], elem[n], DIRSIZ)[StrLen(SubSeq(elem[n], 1, DIRSIZ - 1), DIRSIZ - 1) + 1] = NUL

(* string.c, ulib.c: memmove copies as if at once, however the two areas   *)
(* overlap.                                                                *)
MovesAsIfAtOnce ==
    arg.kind = "move" =>
       LET m == [i \in 1 .. Cells |-> i]
           moved == [i \in 1 .. Cells |->
                        IF i \in arg.d .. arg.d + arg.n - 1 THEN m[arg.s + i - arg.d] ELSE m[i]]
       IN  memmove(m, arg.d, arg.s, arg.n) = moved /\ umemmove(m, arg.d, arg.s, arg.n) = moved

(* printf.c: printint writes the number, the most negative one included;   *)
(* that of user programs, whose x is a uint, the low word of it.  atoi     *)
(* reads back what was written.                                            *)
PrintsTheNumber ==
    arg.kind = "number" =>
       LET value(ds) == Atoi([i \in 1 .. Len(ds) |-> ds[Len(ds) + 1 - i]], 0)
           digits(w) == SelectSeq(printint(arg.x, w), LAMBDA d : d # -1)
           abs == IF arg.x < 0 THEN -arg.x ELSE arg.x
       IN  /\ value(digits(WIDTH)) = abs
           /\ value(digits(UWIDTH)) = abs % 2 ^ UWIDTH
           /\ (-1 \in {printint(arg.x, WIDTH)[i] : i \in DOMAIN printint(arg.x, WIDTH)}) <=> arg.x < 0

(* fs.c skipelem, string.c memmove and strlen, printf.c and ulib.c: the    *)
(* library routines compute what their reference definitions say.          *)
LibraryComputes == NamesAreFound /\ MovesAsIfAtOnce /\ PrintsTheNumber
=============================================================================
