----------------------------- MODULE CommandLine -----------------------------
(***************************************************************************)
(* cmdline_to_argv8() of pkg-config.c (lines 2080-2204): how the program   *)
(* splits the one string it is started with into arguments.                *)
(*                                                                         *)
(* Abstractions: a character is an atom, one Blank stands for blanks and   *)
(* tabs; the encoding of a character as UTF-8 is left out.                 *)
(*                                                                         *)
(* Definitions marked "mutant" are no part of the model: each is a slip in *)
(* the definition below it that a property must notice.                    *)
(***************************************************************************)
EXTENDS Integers, Sequences, SequencesExt

Blank == " "
Quote == "quote"
Slash == "backslash"

(* The automaton: the words so far, the last of them still open unless the *)
(* state is "outside", and the backslashes just seen.                      *)
Start == [words |-> <<<<>>>>, state |-> "begin", slash |-> 0]
Go(w, state) == [w EXCEPT !.state = state]
Open(w) == [w EXCEPT !.words = Append(@, <<>>)]
Put(w, c) == [w EXCEPT !.words[Len(w.words)] = Append(@, c)]
Chop(w, n) == [w EXCEPT !.words[Len(w.words)] = SubSeq(@, 1, Len(@) - n)]
FirstSlash(w, state) == Put([w EXCEPT !.state = state, !.slash = 1], Slash)

Outside(w, c) ==
  CASE c = Blank -> w
    [] c = Quote -> Go(Open(w), "quoted")
    [] c = Slash -> FirstSlash(Open(w), "slashes")
    [] OTHER -> Go(Put(Open(w), c), "unquoted")

Unquoted(w, c) ==
  CASE c = Blank -> Go(w, "outside")
    [] c = Quote -> Go(w, "quoted")
    [] c = Slash -> FirstSlash(w, "slashes")
    [] OTHER -> Put(w, c)

Quoted(w, c) ==
  CASE c = Quote -> Go(w, "exit")
    [] c = Slash -> FirstSlash(w, "quoted slashes")
    [] OTHER -> Put(w, c)

HalfFloor(n) == n \div 2                               \* mutant

(* Of n backslashes before a quote this many are taken back: half of them, *)
(* and the one that escapes the quote.                                     *)
Half(n) == (1 + n) \div 2

(* Behind backslashes: before a quote they count in pairs, elsewhere they  *)
(* stand for themselves and c is looked at again in the state before them. *)
Slashes(w, c, state) ==
  LET Resume(v) == IF state = "quoted" THEN Quoted(v, c) ELSE Unquoted(v, c)
      odd == w.slash % 2 = 1
  IN CASE c = Slash -> Put([w EXCEPT !.slash = @ + 1], c)
       [] c = Quote /\ odd -> Put(Go(Chop(w, Half(w.slash)), state), c)
       [] c = Quote /\ ~odd -> Resume(Go(Chop(w, Half(w.slash)), state))
       [] OTHER -> Resume(Go(w, state))

(* Behind the quote that ends a quoted part; a second one is literal.      *)
Exit(w, c) ==
  IF c = Quote THEN Put(Go(w, "unquoted"), c) ELSE Unquoted(Go(w, "unquoted"), c)

(* argv[0] knows no backslashes.                                           *)
Begin(w, c) ==
  CASE c = Blank -> Go(w, "outside")
    [] c = Quote -> Go(w, "quoted name")
    [] OTHER -> Go(Put(w, c), "name")
Name(w, c) == IF c = Blank THEN Go(w, "outside") ELSE Put(w, c)
QuotedName(w, c) == IF c = Quote THEN Go(w, "outside") ELSE Put(w, c)

Step(w, c) ==
  CASE w.state = "outside" -> Outside(w, c)
    [] w.state = "unquoted" -> Unquoted(w, c)
    [] w.state = "quoted" -> Quoted(w, c)
    [] w.state = "slashes" -> Slashes(w, c, "unquoted")
    [] w.state = "quoted slashes" -> Slashes(w, c, "quoted")
    [] w.state = "exit" -> Exit(w, c)
    [] w.state = "begin" -> Begin(w, c)
    [] w.state = "name" -> Name(w, c)
    [] w.state = "quoted name" -> QuotedName(w, c)

Split(cmd) == FoldLeft(Step, Start, cmd).words

(* CMDLINE_ARGV_MAX reserves half of CMDLINE_CMD_MAX pointers, 16384 of    *)
(* 32767, the bytes of the arguments follow them (line 2105).              *)
PointerMax(cmdmax) == (cmdmax + 1) \div 2
=============================================================================
