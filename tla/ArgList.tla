------------------------------- MODULE ArgList -------------------------------
(***************************************************************************)
(* How pkg-config.c turns fields into output arguments: fieldwriter and    *)
(* args (lines 1494-1713) and the --cflags / --libs part of uconfig()      *)
(* (lines 1998-2035).                                                      *)
(*                                                                         *)
(* A writer collects the words of a field of every package, in load order, *)
(* and remembers for each word that may be dropped when repeated the one   *)
(* position where it is to be printed: the last for -l, the first for the  *)
(* others, and none for the directories the compiler searches anyway.      *)
(*                                                                         *)
(* Abstractions: a word is an atom, a field is the sequence of words       *)
(* dequote() splits it into, and Unmatched where it finds no closing       *)
(* quote.  Kind is the option letter of a word.  --msvc-syntax, which      *)
(* rewrites a word as it is printed, is left out.                          *)
(*                                                                         *)
(* Definitions marked "mutant" are no part of the model: each is a slip in *)
(* the definition below it that a property must notice.                    *)
(***************************************************************************)
EXTENDS Integers, Sequences

CONSTANTS
  Arg,         \* the words that occur in fields and as system directories
  Kind,        \* [Arg -> option letter]
  Dedupable,   \* the words of three or more bytes that dedupable() accepts
  Jobs,        \* what the command line and the packages ask for
  Unmatched,   \* a word whose quote is never closed
  Delim,       \* what separates two arguments: a blank or a newline
  Newline      \* the end of the output

Filter == {"ANY", "I", "L", "l", "OTHERC", "OTHERL"}
Library == {a \in Arg : Kind[a] = "l"}

(* One --cflags or --libs: the system directories as arguments (none with  *)
(* --keep-system-...), and the words of the packages' fields.              *)
Writer == [filter : Filter, system : Seq(Arg \ Library), words : Seq(Arg \cup {Unmatched})]

ASSUME ArgListAssumption ==
  /\ Unmatched \notin Arg
  /\ Delim \notin Arg /\ Newline \notin Arg /\ Delim # Newline
  /\ Kind \in [Arg -> {"I", "L", "l", "other"}]
  /\ Dedupable \subseteq Arg
  /\ Jobs \subseteq Seq(Writer)

VARIABLES
  job,        \* the writers to run: --cflags, --libs or both, in this order
  current,    \* the index of the writer being run; 0 before the first
  system,     \* its system directories still to be excluded
  words,      \* its words still to be appended
  list,       \* args.list: the words appended
  positions,  \* args.positions: 1 + where a word is printed, -1 never, 0 no entry
  position,   \* the loop variable of writeargs()
  argcount,   \* arguments printed by all writers
  out,        \* the bytes printed, one element per word or separator
  status      \* "between" two writers, "filling", "writing", "done", "unmatched quote"

vars == <<job, current, system, words, list, positions, position, argcount, out, status>>

(* filterok() *)
FilterOk(f, a) ==
  CASE f = "ANY" -> TRUE
    [] f \in {"I", "L", "l"} -> Kind[a] = f
    [] f = "OTHERC" -> Kind[a] # "I"
    [] f = "OTHERL" -> Kind[a] \notin {"L", "l"}

(* inposition(): i counts from 1 here, position from 0 in the code.        *)
InPosition(i) == positions[list[i]] \in {0, i}

-----------------------------------------------------------------------------
(* newfieldwriter() on a fresh scratch arena.                              *)
NewWriter ==
  /\ status = "between" /\ current < Len(job)
  /\ current' = current + 1
  /\ system' = job[current'].system
  /\ words' = job[current'].words
  /\ list' = <<>>
  /\ positions' = [a \in Arg |-> 0]
  /\ status' = "filling"
  /\ UNCHANGED <<job, position, argcount, out>>

(* insertsyspath(), one directory: excludearg().                           *)
ExcludeArg ==
  /\ status = "filling" /\ system # <<>>
  /\ positions' = [positions EXCEPT ![Head(system)] = -1]
  /\ system' = Tail(system)
  /\ UNCHANGED <<job, current, words, list, position, argcount, out, status>>

PositionedFirst(a) ==                                  \* mutant
  IF a \in Dedupable /\ positions[a] = 0
  THEN [positions EXCEPT ![a] = Len(list) + 1] ELSE positions
PositionedLast(a) ==                                   \* mutant
  IF a \in Dedupable THEN [positions EXCEPT ![a] = Len(list) + 1] ELSE positions

(* appendarg(): a repeated word that may be dropped keeps its first        *)
(* position, a library gets the new one.                                   *)
Positioned(a) ==
  IF a \in Dedupable /\ (positions[a] = 0 \/ a \in Library)
  THEN [positions EXCEPT ![a] = Len(list) + 1] ELSE positions

(* appendfield(), one word: filterok() and appendarg().                    *)
AppendArg ==
  /\ status = "filling" /\ system = <<>> /\ words # <<>>
  /\ Head(words) # Unmatched
  /\ words' = Tail(words)
  /\ IF FilterOk(job[current].filter, Head(words))
     THEN LET a == Head(words)
          IN /\ list' = Append(list, a)
             /\ positions' = Positioned(a)
     ELSE UNCHANGED <<list, positions>>
  /\ UNCHANGED <<job, current, system, position, argcount, out, status>>

UnmatchedQuote ==
  /\ status = "filling" /\ system = <<>> /\ words # <<>>
  /\ Head(words) = Unmatched
  /\ status' = "unmatched quote"
  /\ UNCHANGED <<job, current, system, words, list, positions, position, argcount, out>>

BeginWriteOn ==                                        \* mutant
  /\ status = "filling" /\ system = <<>> /\ words = <<>>
  /\ status' = "writing"
  /\ UNCHANGED <<job, current, system, words, list, positions, position, argcount, out>>

BeginWrite ==
  /\ status = "filling" /\ system = <<>> /\ words = <<>>
  /\ position' = 0
  /\ status' = "writing"
  /\ UNCHANGED <<job, current, system, words, list, positions, argcount, out>>

(* writeargs(), one word.                                                  *)
WriteArg ==
  /\ status = "writing" /\ position < Len(list)
  /\ position' = position + 1
  /\ IF InPosition(position')
     THEN /\ out' = out \o (IF argcount > 0 THEN <<Delim>> ELSE <<>>) \o <<list[position']>>
          /\ argcount' = argcount + 1
     ELSE UNCHANGED <<out, argcount>>
  /\ UNCHANGED <<job, current, system, words, list, positions, status>>

EndWrite ==
  /\ status = "writing" /\ position = Len(list)
  /\ status' = "between"
  /\ UNCHANGED <<job, current, system, words, list, positions, position, argcount, out>>

Finish ==
  /\ status = "between" /\ current = Len(job)
  /\ out' = IF job = <<>> THEN out ELSE Append(out, Newline)
  /\ status' = "done"
  /\ UNCHANGED <<job, current, system, words, list, positions, position, argcount>>

-----------------------------------------------------------------------------
Init ==
  /\ job \in Jobs
  /\ current = 0
  /\ system = <<>>
  /\ words = <<>>
  /\ list = <<>>
  /\ positions = [a \in Arg |-> 0]
  /\ position = 0
  /\ argcount = 0
  /\ out = <<>>
  /\ status = "between"

Next ==
  \/ NewWriter
  \/ ExcludeArg
  \/ AppendArg
  \/ UnmatchedQuote
  \/ BeginWrite
  \/ WriteArg
  \/ EndWrite
  \/ Finish

Spec == Init /\ [][Next]_vars

-----------------------------------------------------------------------------
(* The current writer's list, positions and printed part.                  *)

Excluded == IF current = 0 THEN {}
            ELSE {job[current].system[i] :
                    i \in 1..(Len(job[current].system) - Len(system))}

(* The word at i is the occurrence that counts in a list.                  *)
Counts(l, i) ==
  l[i] \in Dedupable =>
    IF l[i] \in Library
    THEN \A k \in DOMAIN l : k > i => l[k] # l[i]
    ELSE \A k \in DOMAIN l : k < i => l[k] # l[i]

Kept(i) == list[i] \notin Excluded /\ Counts(list, i)

(* Types; argcount says whether something has been printed.                *)
TypeOK ==
  /\ job \in Seq(Writer)
  /\ current \in 0..Len(job)
  /\ system \in Seq(Arg \ Library)
  /\ words \in Seq(Arg \cup {Unmatched})
  /\ list \in Seq(Arg)
  /\ positions \in [Arg -> Int]
  /\ position \in Nat /\ (status = "writing" => position <= Len(list))
  /\ argcount \in Nat
  /\ out \in Seq(Arg \cup {Delim, Newline})
  /\ status \in {"between", "filling", "writing", "done", "unmatched quote"}
  /\ status \in {"filling", "writing"} => current > 0

(* The one position kept per word in a map of words to positions selects   *)
(* exactly the intended occurrences out of the whole list: repeated words  *)
(* that may be dropped are printed once, all others every time, and        *)
(* directories the compiler searches anyway never.                         *)
PositionsSelect ==
  status \in {"filling", "writing"} => \A i \in DOMAIN list : InPosition(i) <=> Kept(i)

(* Linking with static archives needs a library after everything that uses *)
(* it.  If every -lx of the packages is followed by a -ly (y is a          *)
(* requirement of x, wherever else it occurs), y is printed after x.       *)
LinkOrder ==
  status = "writing" =>
    \A x, y \in Library \cap Dedupable :
      x # y /\ (\A i \in DOMAIN list : list[i] = x =>
                  \E j \in DOMAIN list : j > i /\ list[j] = y)
      => \A i, j \in DOMAIN list :
           list[i] = x /\ list[j] = y /\ InPosition(i) /\ InPosition(j) => i < j

(* Search directories keep the precedence of their first occurrence: a     *)
(* repeated -I or -L is printed before every word that is printed and      *)
(* followed one of its occurrences.                                        *)
SearchOrder ==
  status = "writing" =>
    \A i, j, k \in DOMAIN list :
      /\ i < j /\ list[i] \in Dedupable \ Library /\ list[k] = list[i]
      /\ InPosition(k) /\ InPosition(j)
      => k < j

-----------------------------------------------------------------------------
(* What the writers should print.                                          *)

(* The elements of s at the places in T, in order, among the first n of s. *)
Keeping(s, T) ==
  LET Of[n \in 0..Len(s)] ==
        IF n = 0 THEN <<>>
        ELSE IF n \in T THEN Append(Of[n - 1], s[n]) ELSE Of[n - 1]
  IN Of

(* A writer should print, of the words its filter accepts, the occurrence  *)
(* that counts of each, and no system directory.                           *)
Accepted(w) == {i \in DOMAIN w.words : w.words[i] # Unmatched /\ FilterOk(w.filter, w.words[i])}
Selected(w) == Keeping(w.words, Accepted(w))[Len(w.words)]
Due(w) ==
  LET l == Selected(w)
  IN {i \in DOMAIN l : Counts(l, i) /\ \A k \in DOMAIN w.system : w.system[k] # l[i]}
WriterOutput(w) == Keeping(Selected(w), Due(w))[Len(Selected(w))]

(* The words of the first n writers.                                       *)
Words[n \in 0..Len(job)] ==
  IF n = 0 THEN <<>> ELSE Words[n - 1] \o WriterOutput(job[n])

Separated(s) ==
  [n \in 1..(2 * Len(s) - 1) |-> IF n % 2 = 1 THEN s[(n + 1) \div 2] ELSE Delim]

(* The whole output is the arguments of --cflags, then those of --libs,    *)
(* with one separator between any two, none before the first or after the  *)
(* last, and one newline at the end.                                       *)
OutputExact ==
  status = "done" =>
    LET line == Separated(Words[Len(job)])
    IN out = IF job = <<>> THEN line ELSE Append(line, Newline)

-----------------------------------------------------------------------------
(* The invariant behind them: what is left of the system directories is a  *)
(* suffix of them, and positions holds for every word the position of the  *)
(* occurrence that counts so far.                                          *)
SystemIsSuffix ==
  LET all == job[current].system
      n == Len(all) - Len(system)
  IN /\ Len(system) <= Len(all)
     /\ \A i \in 1..Len(system) : system[i] = all[n + i]

PositionRight(a) ==
  LET p == positions[a]
  IN IF a \in Excluded THEN p = -1
     ELSE IF a \notin Dedupable \/ \A i \in DOMAIN list : list[i] # a THEN p = 0
     ELSE /\ p \in DOMAIN list /\ list[p] = a
          /\ \A k \in DOMAIN list : list[k] = a => IF a \in Library THEN k <= p ELSE p <= k

ListInv ==
  /\ TypeOK
  /\ status \in {"filling", "writing"} =>
       /\ SystemIsSuffix
       /\ system # <<>> => list = <<>>
       /\ \A a \in Arg : PositionRight(a)

(* Between any two steps the output is what the writers should have        *)
(* printed so far, and the count says how many words that was.             *)
Now == job[current]
WordsAreSuffix ==
  /\ Len(words) <= Len(Now.words)
  /\ \A i \in 1..Len(words) : words[i] = Now.words[Len(Now.words) - Len(words) + i]

Printed ==
  IF status \in {"between", "done"} THEN Words[current]
  ELSE IF status = "writing" THEN Words[current - 1] \o Keeping(list, Due(Now))[position]
  ELSE Words[current - 1]

PrintInv ==
  /\ status = "filling" =>
       WordsAreSuffix /\ list = Keeping(Now.words, Accepted(Now))[Len(Now.words) - Len(words)]
  /\ status = "writing" => system = <<>> /\ list = Selected(Now)
  /\ status = "done" => current = Len(job)
  /\ argcount = Len(Printed)
  /\ out = IF status = "done" /\ job # <<>> THEN Append(Separated(Printed), Newline)
           ELSE Separated(Printed)
=============================================================================
