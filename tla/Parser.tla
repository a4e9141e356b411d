-------------------------------- MODULE Parser --------------------------------
(***************************************************************************)
(* parsepackage() of pkg-config.c (lines 613-717) with escaped() and       *)
(* stripescapes() (578-611): how the text of a .pc file becomes variables  *)
(* ("name=value") and fields ("Name: value"), and which of them            *)
(* findpackage() (1048-1095) demands.                                      *)
(*                                                                         *)
(* Abstractions: a byte is an atom, a field has a name of one byte.  The   *)
(* flag cleanup of the code is left out: without an escape in it           *)
(* stripescapes() would copy a value as it is.                             *)
(*                                                                         *)
(* Definitions marked "mutant" are no part of the model: each is a slip in *)
(* the definition below it that a property must notice.                    *)
(***************************************************************************)
EXTENDS Integers, Sequences

Blank == " "
Newline == "newline"
Return == "return"
Slash == "backslash"
White == {Blank, Newline, Return}

FieldName == {<<"F">>, <<"G">>}     \* fieldbyname() knows these

StartsAt(s, p, t) == p + Len(t) - 1 <= Len(s) /\ SubSeq(s, p, p + Len(t) - 1) = t

EscapedUnix(s, p) ==                                   \* mutant
  IF StartsAt(s, p, <<Slash, Newline>>) THEN 2 ELSE 0

(* The bytes of an escaped end of line.                                    *)
Escaped(s, p) ==
  CASE StartsAt(s, p, <<Slash, Newline>>) -> 2
    [] StartsAt(s, p, <<Slash, Return, Newline>>) -> 3
    [] OTHER -> 0
EscapedHash(s, p) == StartsAt(s, p, <<Slash, "#">>)

RECURSIVE StripEscapes(_)
StripEscapes(s) ==
  IF s = <<>> THEN <<>>
  ELSE IF Escaped(s, 1) > 0 THEN StripEscapes(SubSeq(s, Escaped(s, 1) + 1, Len(s)))
  ELSE (IF EscapedHash(s, 1) THEN <<>> ELSE <<Head(s)>>) \o StripEscapes(Tail(s))

(* The first place from p on with a byte in S, or the end.                 *)
First(s, p, S) ==
  CHOOSE i \in p..(Len(s) + 1) :
    /\ i <= Len(s) => s[i] \in S
    /\ \A j \in p..(i - 1) : s[j] \notin S
Past(s, i) == IF i > Len(s) THEN i ELSE i + 1
EndComment(s, p) == Past(s, First(s, p, {Newline}))

SkipWhite(s, p) ==
  CHOOSE i \in p..(Len(s) + 1) :
    /\ i <= Len(s) => s[i] \notin White
    /\ \A j \in p..(i - 1) : s[j] \in White

(* The text from p up to i, without white space at its end.                *)
Trim(s, p, i) ==
  LET last == CHOOSE k \in (p - 1)..(i - 1) :
                /\ k >= p => s[k] \notin White
                /\ \A j \in (k + 1)..(i - 1) : s[j] \in White
  IN SubSeq(s, p, last)

(* White space and escaped newlines in front of a value.                   *)
RECURSIVE SkipLeading(_, _)
SkipLeading(s, p) ==
  IF p > Len(s) THEN p
  ELSE IF Escaped(s, p) > 0 THEN SkipLeading(s, p + Escaped(s, p))
  ELSE IF s[p] \in White \ {Newline} THEN SkipLeading(s, p + 1)
  ELSE p

(* From p to the end of the value: end is behind its last byte that counts,*)
(* next is where the parser goes on.                                       *)
RECURSIVE ScanValue(_, _, _)
ScanValue(s, p, end) ==
  IF p > Len(s) \/ s[p] = Newline THEN [end |-> end, next |-> p]
  ELSE CASE s[p] = "#" -> [end |-> end, next |-> EndComment(s, p)]
         [] EscapedHash(s, p) -> ScanValue(s, p + 2, p + 2)
         [] Escaped(s, p) > 0 -> ScanValue(s, p + Escaped(s, p), end)
         [] s[p] \in White \cup {Slash} /\ Escaped(s, p) = 0 /\ ~EscapedHash(s, p) ->
              ScanValue(s, p + 1, end)
         [] OTHER -> ScanValue(s, p + 1, p + 1)

(* One iteration after another; pkg is the set of what was assigned.       *)
RECURSIVE ParseFrom(_, _, _)
ParseFrom(s, p, pkg) ==
  LET beg == SkipWhite(s, p)
      sep == First(s, beg, {Newline, "=", ":"})
      name == Trim(s, beg, sep)
      value == SkipLeading(s, sep + 1)
      scanned == ScanValue(s, value, value)
      entry == [kind |-> s[sep], name |-> name,
                value |-> StripEscapes(SubSeq(s, value, scanned.end - 1))]
  IN IF beg > Len(s) THEN [err |-> "OK", pkg |-> pkg]
     ELSE IF s[beg] = "#" THEN ParseFrom(s, EndComment(s, beg), pkg)
     ELSE IF sep > Len(s) \/ s[sep] = Newline THEN ParseFrom(s, Past(s, sep), pkg)
     ELSE IF \E e \in pkg : e.kind = entry.kind /\ e.name = name
     THEN [err |-> <<"duplicate", entry.kind, name>>, pkg |-> {}]
     ELSE ParseFrom(s, scanned.next,
                    IF entry.kind = "=" \/ name \in FieldName THEN pkg \cup {entry} ELSE pkg)

ParsePackage(src) == ParseFrom(src, 1, {})

(* findpackage() demands Name, Version and Description, in this order; here*)
(* two fields stand for them.                                              *)
Required == <<<<"F">>, <<"G">>>>
Missing(pkg) == SelectSeq(Required, LAMBDA f : ~\E e \in pkg : e.kind = ":" /\ e.name = f)
FindPackage(src) ==
  LET r == ParsePackage(src)
  IN IF r.err # "OK" \/ Missing(r.pkg) = <<>> THEN r
     ELSE [r EXCEPT !.err = <<"missing", Head(Missing(r.pkg))>>]
=============================================================================
