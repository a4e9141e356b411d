------------------------------- MODULE Runtime -------------------------------
(***************************************************************************)
(* What the programs are linked with in place of a C library: libmemory.c  *)
(* (memory functions as x86 string instructions) and libchkstk.S (the      *)
(* probe of a large stack frame).  Addresses and registers wrap around at  *)
(* a size that is a constant here.                                         *)
(*                                                                         *)
(* Definitions marked "mutant" are no part of the model: each is a slip in *)
(* the definition below it that a property must notice.                    *)
(***************************************************************************)
EXTENDS Integers, Sequences

CONSTANTS
  Size,   \* the address space, 2^32 or 2^64
  Page    \* the size of a page, 4096

Address == 0..(Size - 1)
Wrap(n) == n % Size

(* rep stosb *)
MemSet(mem, dst, c, len) ==
  [a \in Address |-> IF a \in {Wrap(dst + i) : i \in 0..(len - 1)} THEN c ELSE mem[a]]

(* rep movsb: byte after byte, upwards or (std) downwards.                 *)
Move(mem, d, s, len, step) ==
  LET after[n \in 0..len] ==
        IF n = 0 THEN mem
        ELSE [after[n - 1] EXCEPT ![Wrap(d + step * (n - 1))] =
                                    after[n - 1][Wrap(s + step * (n - 1))]]
  IN after[len]

MemCpy(mem, dst, src, len) == Move(mem, dst, src, len, 1)

DownNever(d, s) == FALSE                               \* mutant

(* A copy to higher addresses runs from the last byte down; the pointers   *)
(* may wrap around when there is none.                                     *)
Down(d, s) == d > s
MemMove(mem, dst, src, len) ==
  IF Down(dst, src)
  THEN Move(mem, Wrap(dst + len - 1), Wrap(src + len - 1), len, -1)
  ELSE Move(mem, dst, src, len, 1)

(* repz cmpsb: the flags are those of the last comparison, equal (xor) if  *)
(* there was none.                                                         *)
MemCmp(mem, s1, s2, len) ==
  LET Differ(i) == mem[Wrap(s1 + i)] # mem[Wrap(s2 + i)]
      last == CHOOSE i \in -1..(len - 1) :
                /\ \A k \in 0..(i - 1) : ~Differ(k)
                /\ i = len - 1 \/ (i >= 0 /\ Differ(i))
      above == last >= 0 /\ mem[Wrap(s1 + last)] > mem[Wrap(s2 + last)]
      below == last >= 0 /\ mem[Wrap(s1 + last)] < mem[Wrap(s2 + last)]
  IN (IF above THEN 1 ELSE 0) - (IF below THEN 1 ELSE 0)

(* repne scasb: n counts down from -1, once for every byte and the null.   *)
StrLen(mem, s) ==
  LET null == CHOOSE i \in 0..(Size - 1) :
                /\ mem[Wrap(s + i)] = 0
                /\ \A k \in 0..(i - 1) : mem[Wrap(s + k)] # 0
      n == Wrap(-1 - (null + 1))
  IN Wrap(-n - 2)

(* ___chkstk_ms: below the committed part of the stack, which begins at    *)
(* low, one byte in every page down to the frame is touched.  neg and add  *)
(* leave no carry when the frame is larger than the address of the stack   *)
(* (or, as well, when it is empty): it then goes down to null, into the    *)
(* end of the stack.                                                       *)
FrameLow(sp, size) == IF size # 0 /\ size <= sp THEN sp - size ELSE 0
Touched(low, sp, size) ==
  LET pages == CHOOSE n \in 0..low :
                 /\ low - n * Page <= FrameLow(sp, size)
                 /\ \A k \in 0..(n - 1) : low - k * Page > FrameLow(sp, size)
  IN [k \in 1..pages |-> low - k * Page]
=============================================================================
