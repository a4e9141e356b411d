-------------------------------- MODULE Alias --------------------------------
(***************************************************************************)
(* What alias.c (lines 88-153, 176-211) and busybox-alias.c (50-108) build *)
(* for the process they start: the path of the program and, in alias.c,    *)
(* its command line.                                                       *)
(*                                                                         *)
(* Abstractions: as in CommandLine a character is an atom, one Slash       *)
(* stands for both kinds of separators of a path; GetFullPathNameW(), which *)
(* writes the same path without its dots, is left out.                     *)
(*                                                                         *)
(* Definitions marked "mutant" are no part of the model: each is a slip in *)
(* the definition below it that a property must notice.                    *)
(***************************************************************************)
EXTENDS CommandLine, FiniteSetsExt

Null == "null"
Colon == ":"

(* c16buf: what does not fit is cut off and remembered.                    *)
Buffer(cap) == [text |-> <<>>, cap |-> cap, err |-> FALSE]
Add(b, s) ==
  LET avail == b.cap - Len(b.text)
  IN [b EXCEPT !.text = @ \o SubSeq(s, 1, Min({avail, Len(s)})), !.err = @ \/ avail < Len(s)]

FindArgsBlank(line) ==                                 \* mutant
  LET ends == {k \in DOMAIN line : line[k] = Blank}
  IN IF ends = {} THEN <<>> ELSE SubSeq(line, Min(ends), Len(line))

(* A command line from the end of argv[0] on: behind its second quote, or  *)
(* from the first blank.                                                   *)
FindArgs(line) ==
  IF line # <<>> /\ line[1] = Quote
  THEN LET ends == {k \in 2..Len(line) : line[k] = Quote}
       IN IF ends = {} THEN <<>> ELSE SubSeq(line, Min(ends) + 1, Len(line))
  ELSE LET ends == {k \in DOMAIN line : line[k] = Blank}
       IN IF ends = {} THEN <<>> ELSE SubSeq(line, Min(ends), Len(line))

(* CMD and the arguments, with the null terminator.                        *)
Command(cmd, line, cap) == Add(Add(Buffer(cap), cmd), FindArgs(line) \o <<Null>>)

(* GetModuleFileNameW() cuts off a path of PathMax characters or more.     *)
ModulePath(path, pathmax) == SubSeq(path, 1, Min({pathmax, Len(path)}))
LastSlash(path) == Max({0} \cup {k \in DOMAIN path : path[k] = Slash})

(* getmoduledir() with its slash.                                          *)
ModuleDir(path, pathmax) ==
  LET p == ModulePath(path, pathmax) IN SubSeq(p, 1, LastSlash(p))

Absolute(exe) == Len(exe) > 1 /\ exe[2] = Colon
ExePath(path, exe, pathmax) ==
  LET b == Buffer(2 * pathmax)
  IN Add(IF Absolute(exe) THEN b ELSE Add(b, ModuleDir(path, pathmax)), Append(exe, Null))

(* The same in busybox-alias.c, with one buffer of PathMax and the slash   *)
(* in the name.                                                            *)
BusyboxDir(path, pathmax) ==
  LET p == ModulePath(path, pathmax) IN SubSeq(p, 1, Max({1, LastSlash(p)}) - 1)
BusyboxPath(path, pathmax) ==
  Add(Add(Buffer(pathmax), BusyboxDir(path, pathmax)), <<Slash, "b", Null>>)
==============================================================================
