----------------------------- MODULE VersionOrder -----------------------------
(***************************************************************************)
(* compareversions() of pkg-config.c (lines 1195-1238) with digits()       *)
(* (223-231): the order in which versions are compared, for a constraint   *)
(* in a Requires field or on the command line and for --atleast-version    *)
(* and its like.  A version is a sequence of byte values.                  *)
(*                                                                         *)
(* Definitions marked "mutant" are no part of the model: each is a slip in *)
(* the definition below it that a property must notice.                    *)
(***************************************************************************)
EXTENDS Integers, Sequences

Digit == 48..57
Sign(m, n) == IF m < n THEN -1 ELSE IF m > n THEN 1 ELSE 0

(* digits(): how many there are from the start of s.                       *)
DigitCount(s) ==
  CHOOSE n \in 0..Len(s) :
    /\ \A j \in 1..n : s[j] \in Digit
    /\ n < Len(s) => s[n + 1] \notin Digit

BothDigits(a, b) == a \in Digit /\ b \in Digit

(* One of them is used up: the longer one is greater.                      *)
CompareRest(va, vb) == Sign(Len(va), Len(vb))

CompareNumbersDigits(na, nb) ==                        \* mutant
  LET differ == {k \in DOMAIN na \cap DOMAIN nb : na[k] # nb[k]}
      first == CHOOSE k \in differ : \A j \in differ : k <= j
  IN IF differ # {} THEN Sign(na[first], nb[first]) ELSE Sign(Len(na), Len(nb))

(* Two numbers, by their length and then by their first different digit.   *)
CompareNumbers(na, nb) ==
  LET differ == {k \in DOMAIN na : na[k] # nb[k]}
      first == CHOOSE k \in differ : \A j \in differ : k <= j
  IN IF Len(na) # Len(nb) THEN Sign(Len(na), Len(nb))
     ELSE IF differ # {} THEN Sign(na[first], nb[first])
     ELSE 0

(* The loop: byte by byte up to a place where both have a digit, number by *)
(* number there.  What has been compared is cut off.                       *)
RECURSIVE CompareVersions(_, _)
CompareVersions(va, vb) ==
  IF va = <<>> \/ vb = <<>> THEN CompareRest(va, vb)
  ELSE LET both == BothDigits(va[1], vb[1])
           m == IF both THEN DigitCount(va) ELSE 1
           n == IF both THEN DigitCount(vb) ELSE 1
           r == CompareNumbers(SubSeq(va, 1, m), SubSeq(vb, 1, n))
       IN IF r # 0 THEN r
          ELSE CompareVersions(SubSeq(va, m + 1, Len(va)), SubSeq(vb, n + 1, Len(vb)))
=============================================================================
