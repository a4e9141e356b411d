-------------------------------- MODULE Arena --------------------------------
(***************************************************************************)
(* The arena of pkg-config.c, all the memory it has: alloc() (lines        *)
(* 122-137) takes from its end; memory buffers (353-378), mapped files     *)
(* (2560-2607) and texts on their way from UTF-16 (2417-2479) grow from    *)
(* its beginning into whatever is free.  uconfig() works on a copy of the  *)
(* arena for each of --cflags and --libs (2000, 2014), which gives all of  *)
(* its memory back.                                                        *)
(*                                                                         *)
(* What the program still uses is recorded in "held" next to the memory:   *)
(* the two must agree.  A text is a run of one tag, so that any byte of    *)
(* another text in it shows.                                               *)
(*                                                                         *)
(* Definitions marked "mutant" are no part of the model: each is a slip in *)
(* the definition below it that a property must notice.                    *)
(***************************************************************************)
EXTENDS Integers, SequencesExt

CONSTANTS
  Room,   \* the bytes of the arena, 2^22 in the code
  Align   \* what alloc() aligns to, 8 in the code

Zero == 0
Run(n, tag) == [i \in 1..n |-> tag]
Free(a) == a.end - a.beg

New ==
  [mem |-> [i \in 0..(Room - 1) |-> Zero], beg |-> 0, end |-> Room,
   held |-> {}, saved |-> <<>>, oom |-> FALSE]
OutOfMemory(a) == [a EXCEPT !.oom = TRUE]

Write(a, at, text) ==
  [a EXCEPT !.mem = [i \in DOMAIN @ |-> IF i \in at..(at + Len(text) - 1)
                                        THEN text[i - at + 1] ELSE @[i]]]
Hold(a, at, text) == [a EXCEPT !.held = @ \cup {[at |-> at, text |-> text]}]

-----------------------------------------------------------------------------
Padding(n) == (-n) % Align
FitsUnpadded(a, n) == n <= Free(a)                     \* mutant
Fits(a, n) == n <= Free(a) - Padding(n)

(* alloc(): n zeros at the end of what is free.                            *)
Reserve(a, n) ==
  LET at == a.end - n - Padding(n)
  IN IF Fits(a, n) THEN [Write(a, at, Run(n, Zero)) EXCEPT !.end = at] ELSE OutOfMemory(a)

(* An object or a copy of a text, filled in by whoever asked for it.       *)
Alloc(a, n, tag) ==
  LET b == Reserve(a, n)
  IN IF b.oom THEN b ELSE Hold(Write(b, b.end, Run(n, tag)), b.end, Run(n, tag))

(* A full buffer is flushed, and flush() has nowhere to put it.            *)
BufferFull(a, n) == n > 0 /\ n >= Free(a)

(* newmembuf(), a text printed into it, finalize(), as dequote() does.     *)
MemBuf(a, n, tag) ==
  LET b == [Write(a, a.beg, Run(n, tag)) EXCEPT !.beg = @ + n]
  IN IF BufferFull(a, n) THEN OutOfMemory(a) ELSE Hold(b, a.beg, Run(n, tag))

(* expandmerge(): one buffer after another for the fields of a package.    *)
MergeFields(a, sizes, tag) ==
  FoldLeft(LAMBDA b, n : IF b.oom THEN b ELSE MemBuf(b, n, tag), a, sizes)

(* os_mapfile(): the wide path is forgotten as soon as the file is open;   *)
(* a file that would leave nothing free counts as unreadable.              *)
MapFile(a, path, n, tag) ==
  LET opened == Reserve(a, 2 * path)
      b == [a EXCEPT !.mem = opened.mem]
  IN IF opened.oom THEN opened
     ELSE IF n >= Free(a) THEN Write(b, b.beg, Run(Free(a), tag))
     ELSE [Hold(Write(b, b.beg, Run(n, tag)), b.beg, Run(n, tag)) EXCEPT !.beg = @ + n]

-----------------------------------------------------------------------------
(* A wide text of len units lies unallocated at the beginning; the arena   *)
(* is made to start behind it while fromwide_() copies it to the end,      *)
(* every unit as w bytes.                                                  *)
FromWide(a, len, w, tag) ==
  LET wide == Write(a, a.beg, Run(2 * len, tag))
      b == Reserve([wide EXCEPT !.beg = @ + 2 * len], w * len)
      text == [k \in 1..(w * len) |-> b.mem[a.beg + 2 * ((k - 1) \div w)]]
  IN IF b.oom THEN b
     ELSE [Hold(Write(b, b.end, text), b.end, Run(w * len, tag)) EXCEPT !.beg = a.beg]

(* fromenv_(): the length is asked for first, with the null terminator.    *)
FromEnv(a, len, w, tag) ==
  IF len + 1 > Free(a) \div 2 THEN OutOfMemory(a) ELSE FromWide(a, len, w, tag)

(* installdir_(): all that is free is offered, and a longer name cut off.  *)
InstallDir(a, len, w, tag) ==
  LET cap == Free(a) \div 2
  IN FromWide(a, IF len < cap THEN len ELSE cap, w, tag)

-----------------------------------------------------------------------------
(* arena scratch = *perm, and its end.                                     *)
Scratch(a) == [a EXCEPT !.saved = <<[beg |-> a.beg, end |-> a.end, held |-> a.held]>>]
Return(a) ==
  [a EXCEPT !.beg = a.saved[1].beg, !.end = a.saved[1].end, !.held = a.saved[1].held]

Apply(a, op, tag) ==
  IF a.oom THEN a
  ELSE CASE op.op = "alloc" -> Alloc(a, op.n, tag)
         [] op.op = "buffer" -> MemBuf(a, op.n, tag)
         [] op.op = "fields" -> MergeFields(a, <<op.n, op.w>>, tag)
         [] op.op = "file" -> MapFile(a, op.w, op.n, tag)
         [] op.op = "env" -> FromEnv(a, op.n, op.w, tag)
         [] op.op = "module" -> InstallDir(a, op.n, op.w, tag)
         [] op.op = "scratch" -> Scratch(a)
         [] op.op = "return" -> Return(a)
=============================================================================
