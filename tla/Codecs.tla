-------------------------------- MODULE Codecs --------------------------------
(***************************************************************************)
(* The encodings at the borders of the programs: UTF-8 inside, UTF-16 for  *)
(* Windows.  The codecs of pkg-config.c (lines 2250-2415) and the same in  *)
(* vc++filt.c (115-175), and how text reaches a console through them:      *)
(* os_write() (2618-2679), flushconsole() of vc++filt.c (226-242).         *)
(*                                                                         *)
(* Bytes, code units and code points are numbers; bits are taken apart and *)
(* put together by arithmetic.                                             *)
(*                                                                         *)
(* Definitions marked "mutant" are no part of the model: each is a slip in *)
(* the definition below it that a property must notice.                    *)
(***************************************************************************)
EXTENDS Integers, SequencesExt

Replacement == 65533
Surrogate == 55296..57343
High == 55296..56319
Low == 56320..57343
RuneMax == 1114111

(* The first rune of a text and how many units it takes; what is no rune   *)
(* costs one unit.                                                         *)
Read(rune, n) == [rune |-> rune, len |-> n]
Reject == Read(Replacement, 1)

AcceptableLong(rune, least) == rune <= RuneMax /\ rune \notin Surrogate   \* mutant

(* No sequence is longer than it need be, none is a surrogate.             *)
Acceptable(rune, least) == rune >= least /\ rune <= RuneMax /\ rune \notin Surrogate

(* A sequence of n bytes, head the bits of the first.                      *)
Sequence(s, n, head, least) ==
  LET rune == FoldLeft(LAMBDA r, c : 64 * r + (c % 64), head, SubSeq(s, 2, n))
  IN IF Len(s) >= n /\ (\A k \in 2..n : s[k] \div 64 = 2) /\ Acceptable(rune, least)
     THEN Read(rune, n) ELSE Reject

Utf8Decode(s) ==
  LET b == s[1]
  IN CASE b < 128 -> Read(b, 1)
       [] b \div 32 = 6 -> Sequence(s, 2, b % 32, 128)
       [] b \div 16 = 14 -> Sequence(s, 3, b % 16, 2048)
       [] b \div 16 = 15 -> Sequence(s, 4, b % 16, 65536)
       [] OTHER -> Reject

Valid(rune) == IF rune \in 0..RuneMax /\ rune \notin Surrogate THEN rune ELSE Replacement

Utf8Encode(r) ==
  LET rune == Valid(r)
      Tail6(k) == 128 + ((rune \div (64 ^ k)) % 64)
  IN CASE rune < 128 -> <<rune>>
       [] rune \in 128..2047 -> <<192 + (rune \div 64), Tail6(0)>>
       [] rune \in 2048..65535 -> <<224 + (rune \div 4096), Tail6(1), Tail6(0)>>
       [] OTHER -> <<240 + (rune \div 262144), Tail6(2), Tail6(1), Tail6(0)>>

Utf16Decode(w) ==
  CASE w[1] \in Low -> Reject
    [] w[1] \in High ->
         IF Len(w) < 2 THEN Reject
         ELSE IF w[2] \notin Low THEN Reject
         ELSE Read(65536 + ((w[1] - 55296) * 1024) + (w[2] - 56320), 2)
    [] OTHER -> Read(w[1], 1)

Utf16Encode(r) ==
  LET rune == Valid(r)
      rest == rune - 65536
  IN IF rune < 65536 THEN <<rune>> ELSE <<55296 + (rest \div 1024), 56320 + (rest % 1024)>>

(* The runes of a whole text.                                              *)
From(s, i) == SubSeq(s, i, Len(s))
Utf8Runes(s) ==
  LET runes[i \in 1..(Len(s) + 1)] ==
        IF i > Len(s) THEN <<>>
        ELSE LET r == Utf8Decode(From(s, i)) IN <<r.rune>> \o runes[i + r.len]
  IN runes[1]
Utf16Runes(w) ==
  LET runes[i \in 1..(Len(w) + 1)] ==
        IF i > Len(w) THEN <<>>
        ELSE LET r == Utf16Decode(From(w, i)) IN <<r.rune>> \o runes[i + r.len]
  IN runes[1]

ToWide(s) == FlattenSeq([k \in DOMAIN Utf8Runes(s) |-> Utf16Encode(Utf8Runes(s)[k])])
FromWide(w) == FlattenSeq([k \in DOMAIN Utf16Runes(w) |-> Utf8Encode(Utf16Runes(w)[k])])

-----------------------------------------------------------------------------
(* The writes to a console that one flush of bytes becomes.                *)

(* printc32_(): the units collected are written while there may be no room *)
(* for two more, and what is left is written at the end.                   *)
Written(writes) == SelectSeq(writes, LAMBDA w : w # <<>>)
Console(s, cap) ==
  LET Put(writes, rune) ==
        LET full == Len(Last(writes)) > cap - 2
        IN (IF full THEN Append(writes, Utf16Encode(rune))
            ELSE Front(writes) \o <<Last(writes) \o Utf16Encode(rune)>>)
  IN Written(FoldLeft(Put, <<<<>>>>, Utf8Runes(s)))

(* flushconsole() of vc++filt.c looks behind each rune instead, and at the *)
(* last one.                                                               *)
FilterConsole(s, cap) ==
  LET Put(writes, rune) ==
        LET more == Front(writes) \o <<Last(writes) \o Utf16Encode(rune)>>
        IN IF Len(Last(more)) >= cap - 1 THEN Append(more, <<>>) ELSE more
  IN Written(FoldLeft(Put, <<<<>>>>, Utf8Runes(s)))
=============================================================================
