------------------------------- MODULE Peports -------------------------------
(***************************************************************************)
(* peports.c: options (lines 294-327), the files on the command line       *)
(* (524-575), and for each of them the walk over its sections, its export  *)
(* table (384-447) and its import table (449-521).                         *)
(*                                                                         *)
(* Whatever is wrong with a file, from anywhere in the walk, is thrown to  *)
(* the loop over the files, which reports it and goes on with the next.    *)
(* Lines are printed while the tables are read, through a buffer that is   *)
(* written out whenever it is full.                                        *)
(*                                                                         *)
(* Abstractions: see PeImage; what is printed is a sequence of atoms and   *)
(* the capacity of the buffer is counted in them; an import directory      *)
(* entry is its two fields that are read; standard input is named once.    *)
(*                                                                         *)
(* Definitions marked "mutant" are no part of the model: each is a slip in *)
(* the definition below it that a property must notice.                    *)
(***************************************************************************)
EXTENDS PeImage

CONSTANTS
  OutCap,   \* capacity of the buffer of stdout, 4096 bytes in the code
  Room,     \* cells the arena has left for the table of exports seen
  Jobs      \* the command lines, files and streams to start from

ASSUME PeportsAssumption == OutCap \in Nat \ {0} /\ Room \in Nat

(* An argument is a sequence of characters, for an option "-" and letters. *)
Argument == Seq({"-", "e", "i", "h", "x", "f", "g"})
Stdin == <<"-">>
IsOption(arg) == arg # <<>> /\ arg[1] = "-"

(* There is a file for every argument from the first that is no option on, *)
(* and for standard input if there is none.                                *)
ASSUME JobsAssumption ==
  \A x \in Jobs :
    /\ x.args \in Seq(Argument)
    /\ \A file \in DOMAIN x.files : x.files[file] \in Image
    /\ \A k \in DOMAIN x.args :
         x.args[k] \in DOMAIN x.files \/ \A n \in 1..k : IsOption(x.args[n])
    /\ Stdin \in DOMAIN x.files \/ \E k \in DOMAIN x.args : ~IsOption(x.args[k])
    /\ x.room \in Nat /\ x.deaf \in BOOLEAN

VARIABLES
  job,     \* the command line, the files, and what the streams will take
  args,    \* arguments not yet consumed
  conf,    \* the tables asked for
  phase,   \* where the program is
  map,     \* the address space of the file
  i, j,    \* loop counters
  seen,    \* exports with a name
  first,   \* the earliest lookup table
  error,   \* what was thrown
  io,      \* the output buffer, and what has left the program
  said,    \* all that was printed, in order, for the properties
  start,   \* the table being listed and where in said it begins, likewise
  exit     \* "running", or the exit status

options == <<args, conf>>
walk == <<map, i, j, seen, first>>
output == <<io, said>>
vars == <<job, options, phase, walk, error, output, start, exit>>

-----------------------------------------------------------------------------
(* Output.                                                                 *)

On(fd, text) == [k \in DOMAIN text |-> <<fd, text[k]>>]

(* print(): the buffer is written out whenever it is full, until a write   *)
(* fails; io.room more writes will not.                                    *)
Buffered(atoms) ==
  LET all == io.buf \o atoms
      full == Len(all) \div OutCap
      done == Min({full, io.room})
  IN IF io.broken THEN io
     ELSE [io EXCEPT !.log = @ \o SubSeq(all, 1, done * OutCap),
                     !.room = @ - done,
                     !.broken = done < full,
                     !.buf = IF done < full THEN <<>>
                             ELSE SubSeq(all, full * OutCap + 1, Len(all))]

Flushed ==
  IF io.broken \/ io.buf = <<>> THEN io
  ELSE IF io.room > 0
  THEN [io EXCEPT !.log = @ \o io.buf, !.room = @ - 1, !.buf = <<>>]
  ELSE [io EXCEPT !.broken = TRUE, !.buf = <<>>]

(* A message on stderr; nobody looks whether it could be written.          *)
Message(o, text) == IF job.deaf THEN o ELSE [o EXCEPT !.log = @ \o On(2, text)]

Say(text) ==
  /\ io' = Buffered(On(1, text))
  /\ said' = said \o On(1, text)

Tab == <<"tab">>
Number(n) == <<"number", n>>
Name(text) == <<"name", text>>
Forward(text) == <<"forward", text>>
NoName == <<"no name">>

(* throw(), with what was printed before.                                  *)
Throw(e, text) ==
  /\ Say(text)
  /\ error' = e
  /\ phase' = "caught"
  /\ UNCHANGED <<job, options, walk, start, exit>>

Enter(p) == phase' = p /\ UNCHANGED <<job, options, error, exit>>
Go(p) == Enter(p) /\ UNCHANGED start

Mark(part) == [part |-> part, at |-> Len(said)]

-----------------------------------------------------------------------------
(* Options.                                                                *)

AtOption == args # <<>> /\ IsOption(Head(args))

(* The letters of an option up to the first that ends the program.         *)
TakeOption ==
  /\ phase = "options" /\ exit = "running" /\ AtOption
  /\ LET letters == Tail(Head(args))
         last == {k \in DOMAIN letters : letters[k] \notin {"e", "i"}}
     IN IF last = {}
        THEN /\ conf' = conf \cup Range(letters)
             /\ args' = Tail(args)
             /\ UNCHANGED <<phase, output, exit>>
        ELSE IF letters[Min(last)] = "h"
        THEN /\ Say(<<<<"usage">>>>)
             /\ args' = <<>>
             /\ phase' = "files"
             /\ UNCHANGED <<conf, exit>>
        ELSE /\ io' = Message(io, <<<<"usage">>>>)
             /\ said' = said \o On(2, <<<<"usage">>>>)
             /\ exit' = "failure"
             /\ UNCHANGED <<options, phase>>
  /\ UNCHANGED <<job, walk, error, start>>

(* The rest are files; without any, standard input is read.                *)
EndOptions ==
  /\ phase = "options" /\ exit = "running" /\ ~AtOption
  /\ conf' = IF conf = {} THEN {"e", "i"} ELSE conf
  /\ args' = IF args = <<>> THEN <<Stdin>> ELSE args
  /\ phase' = "files"
  /\ UNCHANGED <<job, walk, error, output, start, exit>>

-----------------------------------------------------------------------------
(* The loop over the files.                                                *)

Img == job.files[Head(args)]

OpenFile ==
  /\ phase = "files" /\ args # <<>>
  /\ IF Img.header # Ok
     THEN Throw(Img.header, <<>>)
     ELSE /\ Enter("sections")
          /\ start' = Mark("sections")
          /\ map' = <<>> /\ i' = 0
          /\ UNCHANGED <<j, seen, first, output>>

NextFile ==
  /\ phase = "listed"
  /\ args' = Tail(args)
  /\ phase' = "files"
  /\ UNCHANGED <<job, conf, walk, error, output, start, exit>>

Caught(out) ==
  /\ phase = "caught"
  /\ io' = Message(out, <<<<"error", error, Head(args)>>>>)
  /\ said' = said \o On(2, <<<<"error", error, Head(args)>>>>)
  /\ args' = Tail(args)
  /\ phase' = "files"
  /\ UNCHANGED <<job, conf, walk, error, start, exit>>
CatchUnflushed == Caught(io)                           \* mutant

(* setjmp() returns again: what the file has printed goes out before the   *)
(* message about it.  "ok &= 1" leaves the status as it is.                *)
Catch == Caught(Flushed)

FinishEarly ==                                         \* mutant
  /\ phase = "files" /\ args = <<>> /\ exit = "running"
  /\ io' = Flushed
  /\ exit' = IF io.broken THEN "failure" ELSE "success"
  /\ UNCHANGED <<job, options, phase, walk, error, said, start>>

Finish ==
  /\ phase = "files" /\ args = <<>> /\ exit = "running"
  /\ io' = Flushed
  /\ exit' = IF Flushed.broken THEN "failure" ELSE "success"
  /\ UNCHANGED <<job, options, phase, walk, error, said, start>>

LoadSection ==
  /\ phase = "sections" /\ i < SectionCount(Img)
  /\ LET s == Img.sections[i + 1]
     IN IF SectionFault(Img, map, s) # Ok
        THEN Throw(SectionFault(Img, map, s), <<>>)
        ELSE /\ map' = WithSection(map, s)
             /\ i' = i + 1
             /\ UNCHANGED <<job, options, phase, j, seen, first, error, output, start, exit>>

EndSections ==
  /\ phase = "sections" /\ i = SectionCount(Img)
  /\ IF ~Adds(Img.exports.rva, Img.exports.len)
     THEN Throw(Overflow, <<>>)
     ELSE Go("exports") /\ UNCHANGED <<walk, output>>

-----------------------------------------------------------------------------
(* Exports.                                                                *)

Edata == LoadRva(map, Img.exports.rva)
Ordbase == Cell(Img, Edata, 0)
Naddrs == Cell(Img, Edata, 1)
Nnames == Cell(Img, Edata, 2)
Addrs == LoadRva(map, Cell(Img, Edata, 3))
Names == LoadRva(map, Cell(Img, Edata, 4))
Ordinals == LoadRva(map, Cell(Img, Edata, 5))

ExportsWanted == "e" \in conf /\ Img.exports.len # 0

ExportFault ==
  IF ~Has(Edata, 2) THEN Eof
  ELSE IF Naddrs >= Sign \/ Nnames >= Sign THEN "invalid export count"
  ELSE IF Naddrs >= Room THEN "out of memory"
  ELSE IF ~Has(Edata, 5) THEN Eof ELSE Ok

BeginExports ==
  /\ phase = "exports"
  /\ IF ~ExportsWanted
     THEN Go("imports") /\ UNCHANGED <<walk, output>>
     ELSE IF ExportFault # Ok
     THEN Throw(ExportFault, <<<<"EXPORTS">>>>)
     ELSE /\ Enter("names") /\ Say(<<<<"EXPORTS">>>>)
          /\ start' = Mark("exports")
          /\ i' = 0 /\ seen' = {}
          /\ UNCHANGED <<map, j, first>>

(* An address inside the export directory is the name of a forwarder.      *)
Forwarder(addr) ==
  LET view == LoadRva(map, addr)
  IN IF Img.exports.rva <= addr /\ addr < Img.exports.rva + Img.exports.len /\ Has(view, 0)
     THEN <<Forward(Text(Img, view))>> ELSE <<>>

OrdinalTooLate(n) == n > Naddrs                        \* mutant
OrdinalTooBig(n) == n >= Naddrs

NameExport ==
  /\ phase = "names" /\ i < Nnames
  /\ LET ordinal == Cell(Img, Ordinals, i)
     IN IF ~Has(Ordinals, i) THEN Throw(Eof, <<>>)
        ELSE IF OrdinalTooBig(ordinal) THEN Throw("invalid export ordinal", <<>>)
        ELSE IF ~Has(Addrs, ordinal) THEN Throw(Eof, <<>>)
        ELSE IF ~Adds(ordinal, Ordbase) THEN Throw(Overflow, <<Tab>>)
        ELSE IF ~Has(Names, i) THEN Throw(Eof, <<Tab, Number(ordinal + Ordbase)>>)
        ELSE /\ Go("names")
             /\ Say(<<Tab, Number(ordinal + Ordbase),
                      Name(Text(Img, LoadRva(map, Cell(Img, Names, i))))>>
                      \o Forwarder(Cell(Img, Addrs, ordinal)))
             /\ seen' = seen \cup {ordinal}
             /\ i' = i + 1
             /\ UNCHANGED <<map, j, first>>

EndNames ==
  /\ phase = "names" /\ i = Nnames
  /\ Go("nameless")
  /\ i' = 0
  /\ UNCHANGED <<map, j, seen, first, output>>

NamelessExport ==
  /\ phase = "nameless" /\ i < Naddrs
  /\ IF i \in seen
     THEN Go("nameless") /\ UNCHANGED output /\ i' = i + 1 /\ UNCHANGED <<map, j, seen, first>>
     ELSE IF ~Adds(i, Ordbase) THEN Throw(Overflow, <<Tab>>)
     ELSE /\ Go("nameless")
          /\ Say(<<Tab, Number(i + Ordbase), NoName>>)
          /\ i' = i + 1 /\ UNCHANGED <<map, j, seen, first>>

EndExports ==
  /\ phase = "nameless" /\ i = Naddrs
  /\ Go("imports")
  /\ UNCHANGED <<walk, output>>

-----------------------------------------------------------------------------
(* Imports.                                                                *)

EntrySize == 2
Idata == LoadRva(map, Img.imports.rva)
Table(k) == Cell(Img, Idata, EntrySize * k)
NameRva(k) == Cell(Img, Idata, EntrySize * k + 1)
HasEntry(k) == Has(Idata, EntrySize * k + 1)

ImportsWanted == "i" \in conf /\ Img.imports.len # 0

BeginImports ==
  /\ phase = "imports"
  /\ Enter(IF ImportsWanted THEN "modules" ELSE "listed")
  /\ start' = Mark(IF ImportsWanted THEN "imports" ELSE "none")
  /\ i' = 0 /\ first' = MaxWord
  /\ UNCHANGED <<map, j, seen, output>>

(* The sum may wrap.                                                       *)
EntryAddress(k) == (Img.imports.rva + EntrySize * k) % (MaxWord + 1)

OverlapsNever == FALSE                                 \* mutant
(* "We're now overlapping an import lookup table".                         *)
Overlaps == EntryAddress(i) = first

(* One round over the directory: it ends before a lookup table, with an    *)
(* entry that has a null in it, or with one that makes no sense.           *)
ReadModule ==
  /\ phase = "modules"
  /\ IF Overlaps THEN Go("listed") /\ UNCHANGED <<walk, output>>
     ELSE IF ~HasEntry(i) THEN Throw(Eof, <<>>)
     ELSE IF Table(i) = 0 \/ NameRva(i) = 0 \/ ~Has(LoadRva(map, NameRva(i)), 0)
     THEN Go("listed") /\ UNCHANGED <<walk, output>>
     ELSE /\ Say(<<Name(Text(Img, LoadRva(map, NameRva(i))))>>)
          /\ IF Has(LoadRva(map, Table(i)), 0)
             THEN Go("entries") /\ first' = Min({first, Table(i)}) /\ j' = 0
             ELSE Go("listed") /\ UNCHANGED <<first, j>>
          /\ UNCHANGED <<map, i, seen>>

Lookup == LoadRva(map, Table(i))
Width == IF Img.pe64 THEN 2 ELSE 1
Import(view, k) ==
  IF Img.pe64 THEN Or(Cell(Img, view, 2 * k + 1), Cell(Img, view, 2 * k)) ELSE Cell(Img, view, k)

ReadEntry ==
  /\ phase = "entries"
  /\ LET addr == Import(Lookup, j)
         entry == LoadRva(map, addr)
         More == j' = j + 1 /\ Go("entries") /\ UNCHANGED <<map, i, seen, first>>
     IN IF ~Has(Lookup, Width * (j + 1) - 1) THEN Throw(Eof, <<>>)
        ELSE IF addr = 0
        THEN /\ Go("modules")
             /\ i' = i + 1
             /\ UNCHANGED <<map, j, seen, first, output>>
        ELSE IF addr >= Sign
        THEN Say(<<Tab, Number(addr - Sign), NoName>>) /\ More
        ELSE IF ~Has(entry, 0) THEN Throw(Eof, <<Tab>>)
        ELSE /\ Say(<<Tab, Number(Cell(Img, entry, 0)), Name(Text(Img, From(entry, 1)))>>)
             /\ More

-----------------------------------------------------------------------------
Init ==
  /\ job \in Jobs
  /\ args = job.args /\ conf = {}
  /\ phase = "options"
  /\ map = <<>> /\ i = 0 /\ j = 0 /\ seen = {} /\ first = MaxWord
  /\ error = Ok
  /\ io = [buf |-> <<>>, log |-> <<>>, room |-> job.room, broken |-> FALSE]
  /\ said = <<>>
  /\ start = [part |-> "none", at |-> 0]
  /\ exit = "running"

(* The process is gone.                                                    *)
Exited == exit # "running" /\ UNCHANGED vars

Next ==
  \/ Exited
  \/ TakeOption \/ EndOptions
  \/ OpenFile \/ NextFile \/ Catch \/ Finish
  \/ LoadSection \/ EndSections
  \/ BeginExports \/ NameExport \/ EndNames \/ NamelessExport \/ EndExports
  \/ BeginImports \/ ReadModule \/ ReadEntry

Spec == Init /\ [][Next]_vars

-----------------------------------------------------------------------------
(* However the section table is made up, and whichever of its entries are  *)
(* discarded, an address means at most one place of the file and no read   *)
(* through the map leaves the file (353-382).                              *)
MapSound == (phase \notin {"options", "files"} /\ Img.header = Ok) => Sound(Img, map)
==============================================================================
