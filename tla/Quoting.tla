------------------------------- MODULE Quoting -------------------------------
(***************************************************************************)
(* dequote() of pkg-config.c (lines 1121-1193) with shellmeta()            *)
(* (1108-1117), pathencode() and pathdecode() (281-326): how a field is    *)
(* split into words that are printed for a shell to read, and how paths    *)
(* put into variables are kept apart from the syntax around them; with the *)
(* variables that hold the paths of a package (454-481, 1073, 1344-1352).  *)
(*                                                                         *)
(* Abstractions: a byte is an atom; "&" stands for the shell's other       *)
(* special characters, "(" for both parentheses, " " for all white space.  *)
(* The variable escaped of the code is left out: only a backslash could    *)
(* set it, and shellmeta() takes every backslash before.                   *)
(*                                                                         *)
(* Definitions marked "mutant" are no part of the model: each is a slip in *)
(* the definition below it that a property must notice.                    *)
(***************************************************************************)
EXTENDS Integers, Sequences, SequencesExt

Blank == " "
Single == "single quote"
Double == "double quote"
Slash == "backslash"

(* The bytes UTF-8 does not use stand for what a path may have in it.      *)
Encoding == [b \in {Blank, "$", "("} |-> CASE b = Blank -> "0xfb" [] b = "$" -> "0xfc"
                                           [] OTHER -> "0xfd"]
PathEncode(c) == IF c \in DOMAIN Encoding THEN Encoding[c] ELSE c
PathDecode(c) ==
  IF \E b \in DOMAIN Encoding : Encoding[b] = c
  THEN CHOOSE b \in DOMAIN Encoding : Encoding[b] = c
  ELSE c

S8PathEncode(path) == [i \in DOMAIN path |-> PathEncode(path[i])]

(* A package's file, and the variables its place gives it: pcfiledir in    *)
(* findpackage(), prefix in setprefix() if the file is in a directory of   *)
(* the usual name, which is an atom here.                                  *)
PathSep == {Slash, "/"}
LastSep(path) ==
  CHOOSE i \in 0..Len(path) :
    /\ i > 0 => path[i] \in PathSep
    /\ \A k \in (i + 1)..Len(path) : path[k] \notin PathSep
DirName(path) == SubSeq(path, 1, LastSep(path) - 1)
BaseName(path) == SubSeq(path, LastSep(path) + 1, Len(path))
BuildPath(dir, pc) == dir \o <<"/">> \o pc
PcFileDir(path) == S8PathEncode(DirName(path))
SetsPrefix(path) == BaseName(DirName(path)) = <<"pkgconfig">>
Prefix(path) == S8PathEncode(DirName(DirName(DirName(path))))

Meta == {Single, Double, Slash, "&"}
ShellMetaListed(c) == c \in Meta                       \* mutant
ShellMeta(c) == c \in Meta \/ PathDecode(c) # c

(* What is printed of a byte that is no quote.                             *)
Protect(c) ==
  IF c = Blank \/ ShellMeta(c) THEN <<Slash, PathDecode(c)>> ELSE <<PathDecode(c)>>

(* One iteration of the loop; used counts them.                            *)
Scan(s, c) ==
  IF s.ended THEN s
  ELSE IF s.quote = "none" /\ c = Blank THEN [s EXCEPT !.ended = TRUE]
  ELSE IF c = s.quote THEN [s EXCEPT !.quote = "none", !.used = @ + 1]
  ELSE IF s.quote = "none" /\ c \in {Single, Double} THEN [s EXCEPT !.quote = c, !.used = @ + 1]
  ELSE [s EXCEPT !.arg = @ \o Protect(c), !.used = @ + 1]

Blanks(s) == CHOOSE n \in 0..Len(s) :
               /\ \A j \in 1..n : s[j] = Blank
               /\ n < Len(s) => s[n + 1] # Blank

Dequote(text) ==
  LET s == SubSeq(text, Blanks(text) + 1, Len(text))
      r == FoldLeft(Scan, [quote |-> "none", arg |-> <<>>, used |-> 0, ended |-> FALSE], s)
  IN [ok |-> r.quote = "none", arg |-> r.arg, tail |-> SubSeq(s, r.used + 1, Len(s))]

(* appendfield(): all words of a field, up to an unmatched quote.          *)
RECURSIVE Words(_)
Words(field) ==
  IF field = <<>> THEN [ok |-> TRUE, words |-> <<>>]
  ELSE LET r == Dequote(field)
           more == Words(r.tail)
       IN IF ~r.ok THEN [ok |-> FALSE, words |-> <<>>]
          ELSE [ok |-> more.ok, words |-> <<r.arg>> \o more.words]
=============================================================================
