------------------------------- MODULE PeImage -------------------------------
(***************************************************************************)
(* A PE file as processpe() of peports.c sees it: the sections mapped into *)
(* one address space (lines 353-382) and what loadrva() (247-260), the     *)
(* bounded reads (123-154) and nullterm() (156-163) find at an address.    *)
(*                                                                         *)
(* Abstractions: one cell stands for every unit the tables are made of (a  *)
(* 32-bit word, an ordinal, a hint, a character); addresses and sizes      *)
(* count cells.  The headers in front of the section table are the outcome *)
(* of reading them and the fields the program takes from them.             *)
(*                                                                         *)
(* Definitions marked "mutant" are no part of the model: each is a slip in *)
(* the definition below it that a property must notice.                    *)
(***************************************************************************)
EXTENDS Integers, SequencesExt, FiniteSetsExt

CONSTANTS
  Bits,        \* width of a word, 32 in the code
  SectionMax   \* sections beyond this many are ignored, 96 in the code

ASSUME PeImageAssumption == Bits \in Nat \ {0} /\ SectionMax \in Nat

MaxWord == 2 ^ Bits - 1
Word == 0..MaxWord
Sign == 2 ^ (Bits - 1)     \* makes a count negative and an import an ordinal

Ok == "ok"
Eof == "unexpected end of input"
Overflow == "overflow computing 32-bit offset"

Section == [vaddr : Word, vsize : Word, raddr : Word, rsize : Word]
Directory == [rva : Word, len : Word]
Image ==
  [header : {Ok, "could not load file", Eof, "not a PE file", "unknown PE magic"},
   pe64 : BOOLEAN, sections : Seq(Section), exports : Directory, imports : Directory,
   raw : Seq(Word)]

(* checkadd() does not throw.                                              *)
Adds(a, b) == a <= MaxWord - b

(* The two halves of a 64-bit import entry are joined bit by bit.          *)
Or(a, b) ==
  LET Bit(x, k) == (x \div 2 ^ k) % 2
  IN MapThenSumSet(LAMBDA k : 2 ^ k * Max({Bit(a, k), Bit(b, k)}), 0..(Bits - 1))

-----------------------------------------------------------------------------
(* The address space: regions [beg, end) backed by the file from at on.    *)

SectionCount(img) == Min({Len(img.sections), SectionMax})

Region(s) == [beg |-> s.vaddr, end |-> s.vaddr + s.vsize, at |-> s.raddr]

SectionFaultUnordered(img, map, s) ==                  \* mutant
  IF ~Adds(s.vaddr, s.vsize) THEN Overflow
  ELSE IF map # <<>> /\ Last(map).beg >= s.vaddr THEN "invalid section order"
  ELSE IF ~Adds(s.raddr, s.rsize) THEN Overflow
  ELSE IF s.raddr + s.rsize > Len(img.raw) THEN Eof ELSE Ok

(* Why a section is refused after those in map; a section is checked       *)
(* before it is known whether it will be kept.                             *)
SectionFault(img, map, s) ==
  IF ~Adds(s.vaddr, s.vsize) THEN Overflow
  ELSE IF map # <<>> /\ (Last(map).beg >= s.vaddr \/ Last(map).end > s.vaddr)
  THEN "invalid section order"
  ELSE IF ~Adds(s.raddr, s.rsize) THEN Overflow
  ELSE IF s.raddr + s.rsize > Len(img.raw) THEN Eof ELSE Ok

(* A section padded beyond what is in the file is discarded, what is in    *)
(* the file beyond the section is cut off.                                 *)
WithSection(map, s) == IF s.vsize > s.rsize THEN map ELSE Append(map, Region(s))

(* A view of the cells from an address to the end of its region, empty for *)
(* an address in none.                                                     *)
Nowhere == [at |-> 0, len |-> 0]
LoadRva(map, rva) ==
  LET in == {k \in DOMAIN map : map[k].beg <= rva /\ rva < map[k].end}
      r == map[Min(in)]
  IN IF in = {} THEN Nowhere
     ELSE [at |-> r.at + (rva - r.beg), len |-> r.end - rva]

Has(view, k) == k < view.len
Cell(img, view, k) == img.raw[view.at + k + 1]
From(view, k) == [at |-> view.at + k, len |-> view.len - k]

(* nullterm(): the text up to a zero or the end of the region.             *)
Text(img, view) ==
  LET zeros == {k \in 0..(view.len - 1) : Cell(img, view, k) = 0}
      len == Min(zeros \cup {view.len})
  IN [k \in 1..len |-> Cell(img, view, k - 1)]

(* The address space is sound: regions in ascending order that do not      *)
(* overlap, so that an address means one cell of the file at most, and no  *)
(* region is longer than its part of the file.                             *)
Sound(img, map) ==
  /\ \A k \in DOMAIN map :
       map[k].beg <= map[k].end /\ map[k].at + (map[k].end - map[k].beg) <= Len(img.raw)
  /\ \A k, l \in DOMAIN map : k < l => map[k].beg < map[l].beg /\ map[k].end <= map[l].beg
==============================================================================
