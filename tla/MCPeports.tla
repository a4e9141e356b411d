------------------------------ MODULE MCPeports ------------------------------
(***************************************************************************)
(* Small instances of Peports.                                             *)
(***************************************************************************)
EXTENDS PeportsListing

-----------------------------------------------------------------------------
(* Instances: words of Bits bits, and files of a dozen cells.              *)

SeqsUpTo(S, n) == UNION {[1..m -> S] : m \in 0..n}
File == <<"f">>
Dir(rva, len) == [rva |-> rva, len |-> len]
NoDir == Dir(0, 0)
Sec(vaddr, vsize, raddr, rsize) ==
  [vaddr |-> vaddr, vsize |-> vsize, raddr |-> raddr, rsize |-> rsize]
Bad(header) ==
  [header |-> header, pe64 |-> FALSE, sections |-> <<>>, exports |-> NoDir,
   imports |-> NoDir, raw |-> <<>>]
Reads(images) ==
  [args : {<<File>>}, files : [{File} -> images], room : {99}, deaf : {FALSE}]

(* Section tables of all kinds: out of order, overlapping, padded, cut     *)
(* off, beyond the end of the file, around the end of the address space.   *)
SectionTables ==
  [header : {Ok}, pe64 : {FALSE}, exports : {NoDir, Dir(MaxWord, 1)}, imports : {NoDir},
   raw : {<<1, 1, 1>>},
   sections :
     SeqsUpTo({Sec(va, vs, ra, rs) : va \in {1, 2}, vs \in {0, 1, 2}, ra \in {0, 2}, rs \in {1, 2}}, 2)
     \cup {<<Sec(a, 1, 0, 1), Sec(b, v, 0, 3), Sec(c, w, r, 1)>> :
            a \in {1, 2}, b \in {2, 3}, c \in {3, 4, MaxWord}, v \in {1, 2, 4}, w \in {1, 0},
            r \in {0, MaxWord}}]

(* One section at address 2 that holds the whole file.                     *)
One(pe64, exports, imports, raw) ==
  [header |-> Ok, pe64 |-> pe64, exports |-> exports, imports |-> imports, raw |-> raw,
   sections |-> <<Sec(2, Len(raw), 0, Len(raw))>>]

(* Import directories in arbitrary memory.                                 *)
GarbageImports ==
  {One(pe64, NoDir, Dir(rva, 1), raw) :
     pe64 \in BOOLEAN, rva \in {2, 3}, raw \in [1..6 -> {0, 2, 4, 6, Sign + 1}]}

(* Two modules with their lookup tables t and u behind the directory, in   *)
(* either order, with and without the null entry; an entry Hinted is for   *)
(* the hint 5 and the name 7 at the end.                                   *)
Hinted == 9
Modules(pe64, null, t, u, swap) ==
  LET word == IF pe64 THEN 2 ELSE 1
      Tab_(at, s) ==
        FlattenSeq([k \in DOMAIN s |->
                      LET e == IF s[k] = Hinted THEN at ELSE s[k]
                      IN IF pe64 THEN <<e % Sign, e - (e % Sign)>> ELSE <<e>>])
        \o [k \in 1..word |-> 0]
      a == 6 + Len(null)
      b == a + word * (Len(t) + 1)
      c == b + word * (Len(u) + 1)
      tables == IF swap THEN <<b, a>> ELSE <<a, b>>
  IN One(pe64, NoDir, Dir(2, 4),
         <<tables[1], c + 1, tables[2], c + 2>> \o null \o Tab_(c, t) \o Tab_(c, u) \o <<5, 7, 0>>)
ModuleImages ==
  LET tables == {<<>>, <<Hinted>>, <<Sign + 3>>, <<Hinted, Sign>>, <<1>>}
  IN {Modules(pe64, null, t, u, swap) :
        pe64 \in BOOLEAN, null \in {<<>>, <<0, 0>>, <<0, 9>>, <<9, 0>>},
        t \in tables, u \in tables, swap \in BOOLEAN}

(* An export directory, a forwarder in it, and the three tables behind.    *)
ExportImage(base, naddrs, nnames, tables, addrs, names, ordinals, size) ==
  One(FALSE, Dir(2, 8), NoDir,
      SubSeq(<<base, naddrs, nnames, tables[1], tables[2], tables[3], 7, 0>>
               \o addrs \o names \o ordinals \o <<8, 0>>, 1, size))
Placed == <<10, 12, 14>>
ExportImages ==
  {ExportImage(base, naddrs, nnames, tables, <<8, 16>>, <<16, 17>>, ordinals, size) :
     base \in {0, 1, MaxWord}, naddrs \in {0, 1, 2, Room, Sign}, nnames \in {0, 1, 2, 3, Sign},
     tables \in {Placed, <<17, 12, 14>>, <<10, 1, 14>>, <<10, 12, 17>>},
     ordinals \in {<<0, 1>>, <<1, 1>>}, size \in {2, 5, 16}}
    \cup {ExportImage(1, 2, 2, Placed, addrs, names, ordinals, 16) :
           addrs \in {<<8, 9>>, <<1, 10>>, <<16, 2>>}, names \in {<<16, 16>>, <<1, 8>>},
           ordinals \in {<<a, b>> : a, b \in {0, 1, 2, 3}}}

(* Command lines: a file to list, one that fails in the middle of a line,  *)
(* and one that cannot be read, on streams that take everything or break.  *)
Listable == Modules(FALSE, <<0, 0>>, <<Hinted>>, <<>>, FALSE)
Broken == Modules(FALSE, <<0, 0>>, <<Sign, 1>>, <<>>, FALSE)
CommandLines ==
  [args : {o \o f : o \in {<<>>, <<<<"-", "e">>>>, <<<<"-", "i", "e">>>>, <<Stdin>>,
                           <<<<"-", "i">>, <<"-", "h">>>>, <<<<"-", "i", "x">>>>},
                    f \in {<<>>, <<File>>, <<File, <<"g">>>>, <<File, Stdin>>,
                           <<<<"g">>, File, File>>}},
   files : [{File, <<"g">>, Stdin} -> {Listable, Broken, Bad("not a PE file")}],
   room : {0, 1, 2, 99}, deaf : BOOLEAN]

SmallJobs ==
  Reads(SectionTables) \cup Reads(GarbageImports) \cup Reads(ModuleImages)
    \cup Reads(ExportImages) \cup CommandLines
==============================================================================
