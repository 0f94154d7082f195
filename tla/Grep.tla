-------------------------------- MODULE Grep --------------------------------
(***************************************************************************)
(* user/grep.c: the matcher, and the loop that cuts what read returns into *)
(* lines.  Texts are sequences of characters; the input arrives in pieces  *)
(* of any size, as from a pipe.                                            *)
(***************************************************************************)
EXTENDS Integers, Sequences, FiniteSets

CONSTANTS Patterns,     \* the pattern argument
          Inputs,       \* what the file holds, with "n" for a newline
          GBUF          \* sizeof(buf) - 1

ASSUME GrepAssumption == GBUF \in Nat \ {0}

VARIABLES
    pattern,
    input,       \* the file
    given,       \* characters that read has returned
    gbuf,        \* buf[0 .. m - 1]
    printed,     \* lines written
    gdone        \* read has returned 0

grepvars == <<pattern, input, given, gbuf, printed, gdone>>

Rest(s, n) == SubSeq(s, n + 1, Len(s))

RECURSIVE matchhere(_, _)
RECURSIVE matchstar(_, _, _)

(* The loop of matchstar goes on to the next character. *)
Goes(c, text) == text # <<>> /\ (text[1] = c \/ c = ".")

matchstar(c, re, text) ==
    \/ matchhere(re, text)
    \/ Goes(c, text) /\ matchstar(c, re, Rest(text, 1))

matchhere(re, text) ==
    IF re = <<>> THEN TRUE
    ELSE IF Len(re) > 1 /\ re[2] = "*" THEN matchstar(re[1], Rest(re, 2), text)
    ELSE IF re = <<"$">> THEN text = <<>>
    ELSE /\ text # <<>> /\ (re[1] = "." \/ re[1] = text[1])
         /\ matchhere(Rest(re, 1), Rest(text, 1))

match(re, text) ==
    IF re # <<>> /\ re[1] = "^" THEN matchhere(Rest(re, 1), text)
    ELSE \E i \in 0 .. Len(text) : matchhere(re, Rest(text, i))

(* The loop over the lines of the buffer: those that match, and what       *)
(* follows the last newline.                                               *)
RECURSIVE Cut(_, _, _)
CutAt(re, buf, q, out) ==
    Cut(re, Rest(buf, q),
        IF match(re, SubSeq(buf, 1, q - 1)) THEN Append(out, SubSeq(buf, 1, q - 1)) ELSE out)
Cut(re, buf, out) ==
    IF \A i \in DOMAIN buf : buf[i] # "n" THEN [left |-> buf, out |-> out]
    ELSE CutAt(re, buf, CHOOSE i \in DOMAIN buf : buf[i] = "n" /\ \A j \in 1 .. i - 1 : buf[j] # "n", out)

(* Variant: the buffer is read from its start again. *)
Kept_not(left) == <<>>

(* memmove(buf, p, m) *)
Kept(left) == left

(* A round of grep: read returns n > 0 characters, as many as there is     *)
(* room for at most.                                                       *)
grep(n) ==
    /\ ~gdone
    /\ n <= Len(input) - given /\ n <= GBUF - Len(gbuf)
    /\ \E c \in {Cut(pattern, gbuf \o SubSeq(input, given + 1, given + n), printed)} :
          printed' = c.out /\ gbuf' = Kept(c.left)
    /\ given' = given + n
    /\ UNCHANGED <<pattern, input, gdone>>

(* read returns 0 at the end, or when it is asked for 0 characters. *)
grep_end ==
    /\ ~gdone
    /\ given = Len(input) \/ Len(gbuf) = GBUF
    /\ gdone' = TRUE
    /\ UNCHANGED <<pattern, input, given, gbuf, printed>>

GrepInit ==
    /\ pattern \in Patterns /\ input \in Inputs
    /\ given = 0 /\ gbuf = <<>> /\ printed = <<>> /\ gdone = FALSE

GrepNext == (\E n \in 1 .. GBUF : grep(n)) \/ grep_end

GrepSpec == GrepInit /\ [][GrepNext]_grepvars

-----------------------------------------------------------------------------
(* A pattern as a sequence of items, each one character or a starred one,  *)
(* and what it means: text from i on begins with item k and those after it.*)
Anchored == pattern # <<>> /\ pattern[1] = "^"
Body == IF Anchored THEN Rest(pattern, 1) ELSE pattern
RECURSIVE Items(_)
Items(re) ==
    IF re = <<>> THEN <<>>
    ELSE IF Len(re) > 1 /\ re[2] = "*" THEN <<[c |-> re[1], star |-> TRUE]>> \o Items(Rest(re, 2))
    ELSE <<[c |-> re[1], star |-> FALSE]>> \o Items(Rest(re, 1))

(* There are places at[1] <= at[2] <= ... in the text such that item k     *)
(* takes the characters between at[k] and at[k + 1].                       *)
Means(text) ==
    LET items == Items(Body)
        ok(c, ch) == c = "." \/ c = ch
        last(k) == k = Len(items) /\ items[k] = [c |-> "$", star |-> FALSE]
    IN  \E at \in [1 .. Len(items) + 1 -> 0 .. Len(text)] :
           /\ Anchored => at[1] = 0
           /\ \A k \in 1 .. Len(items) :
                 IF last(k) THEN at[k] = Len(text)
                 ELSE /\ at[k] <= at[k + 1]
                      /\ ~items[k].star => at[k + 1] = at[k] + 1
                      /\ \A i \in at[k] + 1 .. at[k + 1] : ok(items[k].c, text[i])

(* The complete lines among the first n characters of the input. *)
RECURSIVE LinesOf(_)
LinesOf(s) ==
    LET ends == {i \in DOMAIN s : s[i] = "n"}
        e == CHOOSE i \in ends : \A j \in ends : i <= j
    IN  IF ends = {} THEN <<>> ELSE <<SubSeq(s, 1, e - 1)>> \o LinesOf(Rest(s, e))

(* grep.c: however read cuts the input into pieces, what has been written  *)
(* are the complete lines read so far that match, in order, where a line   *)
(* matches if the pattern's characters and stars can be laid along it; and *)
(* when grep stops, all lines have been read, unless one does not fit in   *)
(* its buffer.                                                             *)
GrepPrintsTheMatches ==
    /\ printed = SelectSeq(LinesOf(SubSeq(input, 1, given)), Means)
    /\ gdone => given = Len(input) \/ \E i \in DOMAIN input : \A j \in i .. i + GBUF - 1 :
                                         j \in DOMAIN input /\ input[j] # "n"

=============================================================================
