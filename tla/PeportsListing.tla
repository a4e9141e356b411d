--------------------------- MODULE PeportsListing ---------------------------
(***************************************************************************)
(* What peports.c should print: the tables of a file as they lie in the    *)
(* address space, in full, and a message about every file that cannot be   *)
(* read, in the order of the command line.                                 *)
(***************************************************************************)
EXTENDS Peports

(* A table that is complete is listed in full and exactly, and nothing is  *)
(* listed as complete that is not: each export once for every name it has, *)
(* or once as nameless, with its forwarder (389-447).                      *)
ExportsWellFormed ==
  /\ ExportFault = Ok
  /\ \A k \in 0..(Nnames - 1) :
       /\ Has(Names, k) /\ Has(Ordinals, k)
       /\ LET ordinal == Cell(Img, Ordinals, k) IN ordinal < Naddrs /\ Has(Addrs, ordinal)
  /\ \A ordinal \in 0..(Naddrs - 1) : ordinal + Ordbase \in Word

NamedLine(k) ==
  LET ordinal == Cell(Img, Ordinals, k)
      target == Cell(Img, Addrs, ordinal)
      to == LoadRva(map, target)
      inside == Img.exports.rva <= target /\ target < Img.exports.rva + Img.exports.len
  IN <<Tab, Number(ordinal + Ordbase), Name(Text(Img, LoadRva(map, Cell(Img, Names, k))))>>
     \o (IF inside /\ to # Nowhere THEN <<Forward(Text(Img, to))>> ELSE <<>>)
NamelessLine(ordinal) ==
  IF \E k \in 0..(Nnames - 1) : ordinal = Cell(Img, Ordinals, k) THEN <<>>
  ELSE <<Tab, Number(ordinal + Ordbase), NoName>>
ExportListing ==
  <<<<"EXPORTS">>>> \o FlattenSeq([k \in 1..Nnames |-> NamedLine(k - 1)])
    \o FlattenSeq([k \in 1..Naddrs |-> NamelessLine(k - 1)])

Listed == SubSeq(said, start.at + 1, Len(said))

ExportsExact ==
  start.part = "exports" =>
    /\ phase = "caught" /\ Img.header = Ok => ~ExportsWellFormed
    /\ phase = "imports" => ExportsWellFormed /\ Listed = On(1, ExportListing)

(* The import directory ends at a null entry or, as link.exe leaves it     *)
(* out, where the earliest lookup table begins; if everything before is    *)
(* intact it is listed exactly, garbage behind it changes nothing and is   *)
(* no reason to give up (449-521).                                         *)
TableView(k) == LoadRva(map, Table(k))
Ends(k, n) ==
  /\ Has(TableView(k), Width * (n + 1) - 1)
  /\ Import(TableView(k), n) = 0
  /\ \A m \in 0..(n - 1) : Import(TableView(k), m) # 0
Intact(k, n) ==
  /\ HasEntry(k) /\ Table(k) # 0 /\ NameRva(k) # 0
  /\ Has(LoadRva(map, NameRva(k)), 0) /\ Ends(k, n)
  /\ \A m \in 0..(n - 1) :
       LET addr == Import(TableView(k), m) IN addr >= Sign \/ Has(LoadRva(map, addr), 0)
Length(k) == {n \in 0..Len(Img.raw) : Ends(k, n)}

StopsAt(n) ==
  \/ n > 0 /\ Img.imports.rva + EntrySize * n = Min({Table(k) : k \in 0..(n - 1)})
  \/ HasEntry(n) /\ (Table(n) = 0 \/ NameRva(n) = 0)
Directories ==
  {n \in 0..Len(Img.raw) :
     /\ \A k \in 0..(n - 1) : \E m \in Length(k) : Intact(k, m)
     /\ StopsAt(n) /\ \A k \in 0..(n - 1) : ~StopsAt(k)}

ImportLine(k, m) ==
  LET addr == Import(TableView(k), m)
      entry == LoadRva(map, addr)
  IN IF addr >= Sign THEN <<Tab, Number(addr - Sign), NoName>>
     ELSE <<Tab, Number(Cell(Img, entry, 0)), Name(Text(Img, From(entry, 1)))>>
ModuleLines(k) ==
  <<Name(Text(Img, LoadRva(map, NameRva(k))))>>
  \o FlattenSeq([m \in 1..Min(Length(k)) |-> ImportLine(k, m - 1)])
ImportListing(n) == FlattenSeq([k \in 1..n |-> ModuleLines(k - 1)])

ImportsExact ==
  (start.part = "imports" /\ phase \in {"listed", "caught"} /\ Img.header = Ok) =>
    \A n \in Directories : phase = "listed" /\ Listed = On(1, ImportListing(n))

(* Output is never lost, repeated or reordered: while the streams hold,    *)
(* what has been written and what is buffered is what was printed, lines   *)
(* of a file that was given up on in front of the message about it; when   *)
(* stdout breaks what was written is a prefix (182-202, 558-568).          *)
OnStream(fd, log) ==
  FlattenSeq([k \in DOMAIN log |-> IF log[k][1] = fd THEN <<log[k]>> ELSE <<>>])

OutputInOrder ==
  LET all == io.log \o io.buf
  IN /\ ~io.broken /\ ~job.deaf => all = said
     /\ ~io.broken => OnStream(1, all) = OnStream(1, said)
     /\ IsPrefix(OnStream(1, all), OnStream(1, said))

(* The status tells whether the output is complete, not whether the files  *)
(* could be read ("ok &= 1", 566): of each that could not there is a       *)
(* message, in their order.                                                *)
Operands ==
  LET operand == {k \in DOMAIN job.args : ~IsOption(job.args[k])}
  IN IF operand = {} THEN <<Stdin>> ELSE SubSeq(job.args, Min(operand), Len(job.args))
Unreadable(files) ==
  FlattenSeq([k \in DOMAIN files |->
                IF job.files[files[k]].header # Ok THEN <<files[k]>> ELSE <<>>])
Asked(fd) == <<fd, <<"usage">>>> \in Range(said)
Reported ==
  LET messages == OnStream(2, said) IN [k \in DOMAIN messages |-> messages[k][2][3]]
StatusTells ==
  exit # "running" =>
    /\ (exit = "success") = (~Asked(2) /\ OnStream(1, io.log) = OnStream(1, said))
    /\ Asked(1) \/ Asked(2) \/ Unreadable(Reported) = Unreadable(Operands)
==============================================================================
