-------------------------- MODULE SymbolFilterProofs --------------------------
(***************************************************************************)
(* vc++filt.c prints its input with the decorated symbols replaced, for    *)
(* any input and command line, any sizes of its buffers, and whatever the  *)
(* cache has memory for.                                                   *)
(***************************************************************************)
EXTENDS SymbolFilter, Recursion

Atom == {<<c>> : c \in Byte} \cup {Undecorated(s) : s \in Seq(Byte)} \cup {Unspecified}

LEMMA Atoms ==
  /\ \A c \in Byte : <<c>> \in Atom
  /\ \A s \in Seq(Byte) : Undecorated(s) \in Atom
  /\ Unspecified \in Atom
BY DEF Atom

-----------------------------------------------------------------------------
(* What stands for the first n bytes of a text.                            *)

Plain(text, n) == FlattenSeq([i \in 1..n |-> Rewritten(text, i)])

(* A text of the symbols is bytes, at places that are numbers.             *)
LEMMA Places ==
  ASSUME NEW text \in Seq(Byte)
  PROVE  /\ Len(text) \in Nat /\ DOMAIN text = 1..Len(text)
         /\ \A i \in 1..Len(text) : text[i] \in Byte
BY LenProperties, ElementOfSeq

LEMMA Segment ==
  ASSUME NEW text \in Seq(Byte), NEW n \in 0..Len(text), NEW m \in 0..n
  PROVE  /\ SubSeq(text, m + 1, n) \in Seq(Byte)
         /\ Len(SubSeq(text, m + 1, n)) = n - m
         /\ \A i \in 1..(n - m) : SubSeq(text, m + 1, n)[i] = text[m + i]
<1>1. Len(text) \in Nat /\ n \in Nat /\ m \in Nat /\ m <= n /\ n <= Len(text)
  BY Places
<1>2. PICK k \in Nat : k = m + 1
  BY <1>1
<1>3. \A i \in k..n : text[i] \in Byte
  BY <1>1, <1>2, Places
<1>4. /\ SubSeq(text, k, n) \in Seq(Byte)
      /\ Len(SubSeq(text, k, n)) = IF k <= n THEN n - k + 1 ELSE 0
      /\ \A i \in 1..(n - k + 1) : SubSeq(text, k, n)[i] = text[k + i - 1]
  BY <1>1, <1>2, <1>3, SubSeqProperties
<1>5. n - k + 1 = n - m /\ \A i \in 1..(n - m) : k + i - 1 = m + i
  BY <1>1, <1>2
<1>6. Len(SubSeq(text, k, n)) = n - m
  BY <1>1, <1>2, <1>4
<1> QED  BY <1>2, <1>4, <1>5, <1>6

LEMMA RewrittenType ==
  ASSUME NEW text \in Seq(Byte), NEW i \in 1..Len(text)
  PROVE  Rewritten(text, i) \in Seq(Atom)
<1>1. Len(text) \in Nat /\ text[i] \in Byte
  BY Places
<1>2. CASE Copied(text, i)
  <2>1. PICK a \in Atom : a = <<text[i]>>
    BY <1>1, Atoms
  <2>2. <<a>> \in Seq(Atom)
    OBVIOUS
  <2> QED  BY <1>2, <2>1, <2>2 DEF Rewritten
<1>3. CASE ~Copied(text, i) /\ \E b \in 1..i : Decorated(text, b, i)
  <2>1. PICK b \in 1..i : b = CHOOSE k \in 1..i : Decorated(text, k, i)
    BY <1>3
  <2>2. SubSeq(text, b, i) \in Seq(Byte)
    BY <1>1, Places, SubSeqProperties
  <2>3. PICK a \in Atom : a = Undecorated(SubSeq(text, b, i))
    BY <2>2, Atoms
  <2>4. <<a>> \in Seq(Atom)
    OBVIOUS
  <2> QED  BY <1>3, <2>1, <2>3, <2>4 DEF Rewritten
<1>4. CASE ~Copied(text, i) /\ ~\E b \in 1..i : Decorated(text, b, i)
  <2>1. <<>> \in Seq(Atom)
    OBVIOUS
  <2> QED  BY <1>4, <2>1 DEF Rewritten
<1> QED  BY <1>2, <1>3, <1>4

(* A text up to n is the text up to m, and what stands for the bytes       *)
(* between them.                                                           *)
Between(text, m, n) == FlattenSeq([i \in 1..(n - m) |-> Rewritten(text, m + i)])

LEMMA PlainSplit ==
  ASSUME NEW text \in Seq(Byte), NEW n \in 0..Len(text), NEW m \in 0..n
  PROVE  /\ Plain(text, m) \in Seq(Atom) /\ Between(text, m, n) \in Seq(Atom)
         /\ Plain(text, n) = Plain(text, m) \o Between(text, m, n)
<1>1. Len(text) \in Nat /\ n \in Nat /\ m \in Nat /\ m <= n /\ n <= Len(text)
  BY Places
<1> DEFINE f == [i \in 1..n |-> Rewritten(text, i)]
           g == [i \in 1..m |-> Rewritten(text, i)]
           h == [i \in 1..(n - m) |-> Rewritten(text, m + i)]
<1>2. f \in [1..n -> Seq(Atom)]
  BY <1>1, RewrittenType
<1>3. /\ n - m \in Nat /\ m + (n - m) = n
      /\ g \in [1..m -> Seq(Atom)] /\ h \in [1..(n - m) -> Seq(Atom)]
      /\ \A i \in 1..m : g[i] = f[i]
      /\ \A i \in 1..(n - m) : h[i] = f[m + i]
  BY <1>1, <1>2
<1>4. /\ FlattenSeq(g) \in Seq(Atom) /\ FlattenSeq(h) \in Seq(Atom)
      /\ FlattenSeq(f) = FlattenSeq(g) \o FlattenSeq(h)
  <2> DEFINE k == n - m
  <2>1. k \in Nat /\ n = m + k
    BY <1>3
  <2>2. g \in [1..m -> Seq(Atom)] /\ \A i \in 1..m : g[i] = f[i]
    BY <1>3
  <2>3. h \in [1..k -> Seq(Atom)] /\ \A i \in 1..k : h[i] = f[m + i]
    BY <1>3
  <2>4. m \in Nat
    BY <1>1
  <2> HIDE DEF f, g, h, k
  <2>5. InParts(f, n, g, m, h, k, Atom)
    BY <1>2, <2>1, <2>2, <2>3, <2>4 DEF InParts
  <2> QED  BY <2>5, FlattenSplit
<1> QED  BY <1>4 DEF Plain, Between

(* Bytes that are copied stand for themselves.                             *)
LEMMA BetweenCopied ==
  ASSUME NEW text \in Seq(Byte), NEW n \in 0..Len(text), NEW m \in 0..n,
         \A i \in (m + 1)..n : Copied(text, i)
  PROVE  Between(text, m, n) = Verbatim(SubSeq(text, m + 1, n))
<1>1. Len(text) \in Nat /\ n \in Nat /\ m \in Nat /\ m <= n /\ n <= Len(text)
  BY Places
<1>2. PICK s \in Seq(Byte) : s = SubSeq(text, m + 1, n)
  BY <1>1, Segment
<1>3. Len(s) = n - m /\ \A i \in 1..(n - m) : s[i] = text[m + i]
  BY <1>1, <1>2, Segment
<1>4. /\ Verbatim(s) \in Seq(Atom) /\ Len(Verbatim(s)) = n - m
      /\ \A i \in 1..(n - m) : Verbatim(s)[i] = <<text[m + i]>>
  <2> DEFINE v == [i \in 1..(n - m) |-> <<s[i]>>]
  <2>1. v \in [1..(n - m) -> Atom]
    BY <1>1, <1>3, Places, Atoms
  <2>2. v \in Seq(Atom) /\ Len(v) = n - m
    <3> HIDE DEF v
    <3>1. n - m \in Nat
      BY <1>1
    <3> QED  BY <2>1, <3>1, FunctionIsSeq
  <2>3. Verbatim(s) = v
    BY <1>3, Places DEF Verbatim
  <2>4. \A i \in 1..(n - m) : v[i] = <<text[m + i]>>
    BY <1>3
  <2> QED  BY <2>2, <2>3, <2>4
<1> DEFINE h == [i \in 1..(n - m) |-> Rewritten(text, m + i)]
<1>5. h \in [1..(n - m) -> Seq(Atom)]
  BY <1>1, RewrittenType
<1>6. h \in Seq(Seq(Atom)) /\ Len(h) = n - m
  <2> HIDE DEF h
  <2>1. n - m \in Nat
    BY <1>1
  <2> QED  BY <1>5, <2>1, FunctionIsSeq
<1>7. \A i \in 1..(n - m) : h[i] = <<Verbatim(s)[i]>>
  <2> TAKE i \in 1..(n - m)
  <2>1. Copied(text, m + i)
    BY <1>1
  <2> QED  BY <1>4, <2>1 DEF Rewritten
<1>8. FlattenSeq(h) = Verbatim(s)
  <2> HIDE DEF h
  <2> QED  BY <1>4, <1>6, <1>7, FlattenSingles
<1> QED  BY <1>2, <1>8 DEF Between

(* A decorated symbol is replaced as a whole.                              *)
LEMMA OneSymbol ==
  ASSUME NEW text \in Seq(Byte), NEW e \in 1..Len(text), NEW b \in 1..e, Decorated(text, b, e)
  PROVE  /\ \A i \in b..(e - 1) : Rewritten(text, i) = <<>>
         /\ Rewritten(text, e) = <<Undecorated(SubSeq(text, b, e))>>
<1>1. Len(text) \in Nat /\ e \in Nat /\ b \in Nat /\ DOMAIN text = 1..Len(text)
  BY Places
<1>2. \A i \in b..e : ~Copied(text, i)
  <2>1. b \in DOMAIN text /\ e \in DOMAIN text
    BY <1>1
  <2> QED  BY <2>1 DEF Copied
<1>3. ASSUME NEW i \in b..(e - 1), NEW k \in 1..i, Decorated(text, k, i) PROVE FALSE
  <2>1. i < Len(text) /\ text[i + 1] \in Ident
    BY <1>1 DEF Decorated
  <2> QED  BY <1>3, <2>1 DEF Decorated
<1>4. ASSUME NEW k \in 1..e, Decorated(text, k, e) PROVE k = b
  <2>1. CASE k < b
    <3>1. b > 1 /\ b - 1 \in k..e
      BY <1>1, <2>1
    <3> QED  BY <1>4, <3>1 DEF Decorated
  <2>2. CASE b < k
    <3>1. k > 1 /\ k - 1 \in b..e
      BY <1>1, <2>2
    <3> QED  BY <1>4, <3>1 DEF Decorated
  <2> QED  BY <1>1, <2>1, <2>2
<1>5. \A i \in b..(e - 1) : Rewritten(text, i) = <<>>
  <2> TAKE i \in b..(e - 1)
  <2>1. i \in b..e
    BY <1>1
  <2> QED  BY <1>2, <1>3, <2>1 DEF Rewritten
<1>6. (CHOOSE k \in 1..e : Decorated(text, k, e)) = b
  BY <1>4
<1>7. e \in b..e
  BY <1>1
<1> QED  BY <1>2, <1>5, <1>6, <1>7 DEF Rewritten

LEMMA BetweenSymbol ==
  ASSUME NEW text \in Seq(Byte), NEW e \in 1..Len(text), NEW b \in 1..e, Decorated(text, b, e)
  PROVE  Between(text, b - 1, e) = <<Undecorated(SubSeq(text, b, e))>>
<1>1. Len(text) \in Nat /\ e \in Nat /\ b \in Nat /\ b - 1 \in 0..e /\ e \in 0..Len(text)
      /\ e - 1 \in Nat /\ b - 1 \in 0..(e - 1)
  BY Places
<1>2. SubSeq(text, b, e) \in Seq(Byte)
  BY <1>1, Places, SubSeqProperties
<1>3. PICK a \in Atom : a = Undecorated(SubSeq(text, b, e))
  BY <1>2, Atoms
<1>4. <<a>> \in Seq(Atom)
  OBVIOUS
<1> DEFINE n == e - b
           m == n + 1
           h == [i \in 1..m |-> Rewritten(text, (b - 1) + i)]
           g == [i \in 1..n |-> Rewritten(text, (b - 1) + i)]
<1>5. n \in Nat /\ m = n + 1 /\ m = e - (b - 1) /\ (b - 1) + m = e /\ m \in 1..m
  BY <1>1
<1>6. \A i \in 1..n : (b - 1) + i \in b..(e - 1)
  BY <1>1
<1>7. h \in [1..m -> Seq(Atom)]
  <2>1. \A i \in 1..m : (b - 1) + i \in 1..Len(text)
    BY <1>1
  <2> QED  BY <2>1, RewrittenType
<1>8. \A i \in 1..n : g[i] = h[i]
  BY <1>5
<1>9. \A i \in 1..n : g[i] = <<>>
  BY <1>6, OneSymbol
<1>10. h[m] = <<a>>
  BY <1>3, <1>5, OneSymbol
<1>11. Between(text, b - 1, e) = FlattenSeq(h)
  BY <1>5 DEF Between
<1>12. g \in [1..n -> Seq(Atom)]
  <2>1. \A i \in 1..n : (b - 1) + i \in 1..Len(text)
    BY <1>1
  <2> QED  BY <2>1, RewrittenType
<1> HIDE DEF g, h, n, m
<1>13. FlattenSeq(h) = FlattenSeq(g) \o <<a>> /\ FlattenSeq(g) \in Seq(Atom)
  <2>1. n \in Nat /\ m = n + 1
    BY <1>5
  <2>2. OneMore(h, m, g, n, Atom)
    BY <1>7, <1>8, <1>12, <2>1 DEF OneMore
  <2>3. FlattenSeq(h) = FlattenSeq(g) \o h[m] /\ FlattenSeq(g) \in Seq(Atom)
    BY <2>2, FlattenGrows
  <2> QED  BY <1>10, <2>3
<1>14. FlattenSeq(g) = <<>>
  <2>1. g \in Seq(Seq(Atom)) /\ Len(g) = n
    BY <1>5, <1>12, FunctionIsSeq
  <2> QED  BY <1>9, <2>1, FlattenNothing
<1> QED  BY <1>3, <1>4, <1>11, <1>13, <1>14, ConcatEmptySeq

-----------------------------------------------------------------------------
(* The scanner.                                                            *)

(* Of the text, n bytes have been scanned, and s are the last of them: the *)
(* beginning of what may become a decorated symbol.  Where there is none,  *)
(* the identifier that is going on cannot become one.                      *)
Scans(text, n, s, at, starts) ==
  LET d == n - Len(s)
  IN /\ s \in Seq(Byte) /\ Len(s) < SymbolMax /\ d \in Nat
     /\ \A k \in 1..Len(s) : s[k] = text[d + k] /\ s[k] \in Ident
     /\ at = (\E k \in 1..Len(s) : s[k] = "@")
     /\ starts = (n = 0 \/ text[n] \notin Ident)
     /\ s # <<>> => s[1] = "?" /\ (d > 0 => text[d] \notin Ident)
     /\ s = <<>> => \A b \in 1..n :
                      \/ b > 1 /\ text[b - 1] \in Ident
                      \/ \E k \in b..n : text[k] \notin Ident
                      \/ text[b] # "?" \/ (n - b) + 1 >= SymbolMax

(* What has been scanned may go on in any way.                             *)
Continues(t, text, n) ==
  t \in Seq(Byte) /\ n <= Len(t) /\ \A k \in 1..n : t[k] = text[k]

AllCopied(t, m, n) == \A i \in (m + 1)..n : Copied(t, i)

LEMMA NotEmpty ==
  ASSUME NEW s \in Seq(Byte)
  PROVE  s # <<>> <=> Len(s) > 0
BY EmptySeq, LenProperties

LEMMA AppendedByte ==
  ASSUME NEW s \in Seq(Byte), NEW c \in Byte
  PROVE  /\ Append(s, c) \in Seq(Byte) /\ Len(Append(s, c)) = Len(s) + 1 /\ Append(s, c) # <<>>
         /\ \A k \in 1..Len(s) : Append(s, c)[k] = s[k]
         /\ Append(s, c)[Len(s) + 1] = c
<1>1. /\ Append(s, c) \in Seq(Byte) /\ Len(Append(s, c)) = Len(s) + 1
      /\ \A k \in 1..Len(s) : Append(s, c)[k] = s[k]
      /\ Append(s, c)[Len(s) + 1] = c
  BY AppendProperties
<1> QED  BY <1>1, LenProperties, NotEmpty

LEMMA ScanStart ==
  ASSUME NEW text \in Seq(Byte), NEW n \in Nat, n < Len(text),
         NEW s, NEW at, Scans(text, n, s, at, TRUE), text[n + 1] = "?"
  PROVE  s = <<>> /\ Scans(text, n + 1, Append(s, "?"), at, FALSE)
<1>1. Len(text) \in Nat /\ s \in Seq(Byte) /\ Len(s) \in Nat /\ Len(s) <= n /\ "?" \in Ident
      /\ "?" \in Byte
  BY Places, FilterAssumption DEF Scans, Byte
<1>2. Len(s) = 0
  <2> SUFFICES ASSUME Len(s) > 0 PROVE FALSE
    BY <1>1
  <2>1. Len(s) \in 1..Len(s) /\ (n - Len(s)) + Len(s) = n /\ n # 0
    BY <1>1
  <2>2. s[Len(s)] = text[n] /\ s[Len(s)] \in Ident
    BY <2>1 DEF Scans
  <2> QED  BY <2>1, <2>2 DEF Scans
<1>3. s = <<>> /\ ~at
  BY <1>1, <1>2, NotEmpty DEF Scans
<1>4. PICK t : t = Append(s, "?")
  OBVIOUS
<1>5. t \in Seq(Byte) /\ Len(t) = 1 /\ t # <<>> /\ t[1] = "?"
  <2>1. /\ t \in Seq(Byte) /\ Len(t) = Len(s) + 1 /\ t # <<>>
        /\ t[Len(s) + 1] = "?"
    BY <1>1, <1>4, AppendedByte
  <2> QED  BY <1>2, <2>1
<1>6. (n + 1) - Len(t) = n /\ n + 1 # 0 /\ n + 1 > 0
  BY <1>5
<1>7. n > 0 => text[n] \notin Ident
  BY DEF Scans
<1>8. \A k \in 1..Len(t) : t[k] = text[n + k] /\ t[k] \in Ident /\ t[k] # "@"
  BY <1>1, <1>5
<1> QED
  BY <1>1, <1>3, <1>4, <1>5, <1>6, <1>7, <1>8, FilterAssumption DEF Scans

LEMMA ScanContinue ==
  ASSUME NEW text \in Seq(Byte), NEW n \in Nat, n < Len(text),
         NEW s, NEW at \in BOOLEAN, NEW starts, Scans(text, n, s, at, starts), s # <<>>,
         text[n + 1] \in Ident, Len(s) + 1 < SymbolMax
  PROVE  Scans(text, n + 1, Append(s, text[n + 1]), at \/ text[n + 1] = "@", FALSE)
<1>1. PICK c \in Ident : c = text[n + 1]
  OBVIOUS
<1>2. Len(text) \in Nat /\ s \in Seq(Byte) /\ Len(s) \in Nat /\ Len(s) <= n /\ c \in Byte
      /\ Len(s) > 0
  BY <1>1, Places, NotEmpty DEF Scans, Byte
<1>3. PICK t : t = Append(s, c)
  OBVIOUS
<1>4. t \in Seq(Byte) /\ Len(t) = Len(s) + 1 /\ t # <<>>
      /\ (\A k \in 1..Len(s) : t[k] = s[k]) /\ t[Len(s) + 1] = c
  BY <1>2, <1>3, AppendedByte
<1>5. PICK d \in Nat : d = n - Len(s) /\ d = (n + 1) - Len(t) /\ d + (Len(s) + 1) = n + 1
  BY <1>2, <1>4
<1>6. /\ \A k \in 1..Len(s) : s[k] = text[d + k] /\ s[k] \in Ident
      /\ at = (\E k \in 1..Len(s) : s[k] = "@")
      /\ s[1] = "?" /\ (d > 0 => text[d] \notin Ident)
  BY <1>5 DEF Scans
<1>7. \A k \in 1..Len(t) : k \in 1..Len(s) \/ k = Len(s) + 1
  BY <1>2, <1>4
<1>8. \A k \in 1..Len(t) : t[k] = text[d + k] /\ t[k] \in Ident
  BY <1>1, <1>4, <1>5, <1>6, <1>7
<1>9. (at \/ c = "@") = (\E k \in 1..Len(t) : t[k] = "@")
  <2>1. Len(s) + 1 \in 1..Len(t) /\ \A k \in 1..Len(s) : k \in 1..Len(t)
    BY <1>2, <1>4
  <2> QED  BY <1>4, <1>6, <1>7, <2>1
<1>10. t[1] = "?" /\ Len(t) < SymbolMax /\ n + 1 # 0
  BY <1>2, <1>4, <1>6
<1> QED
  BY <1>1, <1>3, <1>4, <1>5, <1>6, <1>8, <1>9, <1>10 DEF Scans

(* Where a decorated symbol may be.                                        *)
LEMMA DecoratedPlaces ==
  ASSUME NEW t, Len(t) \in Nat, NEW b, NEW e, Decorated(t, b, e)
  PROVE  /\ b \in Nat /\ e \in Nat /\ b >= 1 /\ b <= e /\ e <= Len(t)
         /\ (e - b) + 1 < SymbolMax
<1>1. b \in 1..e /\ e \in 1..Len(t) /\ (e - b) + 1 < SymbolMax
  BY DEF Decorated
<1>2. e \in Nat /\ e <= Len(t)
  BY <1>1
<1> QED  BY <1>1, <1>2

(* A decorated symbol that has a byte of s begins with s.                  *)
LEMMA SymbolAhead ==
  ASSUME NEW text \in Seq(Byte), NEW n \in 0..Len(text),
         NEW s, NEW at, NEW starts, Scans(text, n, s, at, starts), s # <<>>,
         NEW t, Continues(t, text, n), NEW b, NEW e, Decorated(t, b, e),
         NEW i \in (n - Len(s) + 1)..n, i \in b..e
  PROVE  b = n - Len(s) + 1 /\ e >= n
<1>1. Len(text) \in Nat /\ n \in Nat /\ s \in Seq(Byte) /\ Len(s) \in Nat /\ Len(s) <= n
      /\ Len(s) > 0 /\ Len(t) \in Nat /\ n <= Len(t)
  BY Places, NotEmpty DEF Scans, Continues
<1>2. PICK d \in Nat : d = n - Len(s) /\ d + Len(s) = n /\ d < n
  <2>1. n - Len(s) \in Nat /\ (n - Len(s)) + Len(s) = n /\ n - Len(s) < n
    BY <1>1
  <2> QED  BY <2>1
<1>3. b \in Nat /\ e \in Nat /\ b >= 1 /\ b <= e /\ e <= Len(t)
  BY <1>1, DecoratedPlaces
<1>4. \A k \in (d + 1)..n : t[k] \in Ident
  <2> TAKE k \in (d + 1)..n
  <2>1. k - d \in 1..Len(s) /\ d + (k - d) = k /\ k \in 1..n
    BY <1>1, <1>2
  <2>2. s[k - d] = text[k] /\ s[k - d] \in Ident
    BY <1>2, <2>1 DEF Scans
  <2> QED  BY <2>1, <2>2 DEF Continues
<1>5. d > 0 => t[d] \notin Ident
  BY <1>1, <1>2 DEF Scans, Continues
<1>6. ~(b <= d)
  <2> SUFFICES ASSUME b <= d PROVE FALSE
    OBVIOUS
  <2>1. d \in b..e /\ d > 0
    BY <1>1, <1>2, <1>3
  <2> QED  BY <1>5, <2>1 DEF Decorated
<1>7. ~(b > d + 1)
  <2> SUFFICES ASSUME b > d + 1 PROVE FALSE
    OBVIOUS
  <2>1. b - 1 \in (d + 1)..n /\ b > 1
    BY <1>1, <1>2, <1>3
  <2> QED  BY <1>4, <2>1 DEF Decorated
<1>8. ~(e < n)
  <2> SUFFICES ASSUME e < n PROVE FALSE
    OBVIOUS
  <2>1. e + 1 \in (d + 1)..n /\ e < Len(t)
    BY <1>1, <1>2, <1>3
  <2> QED  BY <1>4, <2>1 DEF Decorated
<1> QED  BY <1>1, <1>2, <1>3, <1>6, <1>7, <1>8

(* The scanner without a symbol: what is going on cannot become one.       *)
Hopeless(text, n) ==
  \A b \in 1..n : \/ b > 1 /\ text[b - 1] \in Ident
                  \/ \E k \in b..n : text[k] \notin Ident
                  \/ text[b] # "?" \/ (n - b) + 1 >= SymbolMax

LEMMA NoSymbol ==
  ASSUME NEW text, NEW n \in Nat, Hopeless(text, n)
  PROVE  Scans(text, n, <<>>, FALSE, n = 0 \/ text[n] \notin Ident)
<1>1. <<>> \in Seq(Byte) /\ Len(<<>>) = 0 /\ n - 0 = n /\ 1..0 = {} /\ 0 < SymbolMax
  BY FilterAssumption
<1>2. \A k \in 1..0 : FALSE
  OBVIOUS
<1> QED  BY <1>1, <1>2 DEF Scans, Hopeless

(* An identifier that has become too long.                                 *)
LEMMA GiveUp ==
  ASSUME NEW text \in Seq(Byte), NEW n \in Nat, n < Len(text),
         NEW s, NEW at, NEW starts, Scans(text, n, s, at, starts), s # <<>>,
         text[n + 1] \in Ident, Len(s) + 1 >= SymbolMax
  PROVE  /\ Hopeless(text, n + 1)
         /\ \A t : Continues(t, text, n + 1) => AllCopied(t, n - Len(s), n + 1)
<1>1. Len(text) \in Nat /\ s \in Seq(Byte) /\ Len(s) \in Nat /\ Len(s) <= n
      /\ Len(s) > 0 /\ SymbolMax \in Nat /\ n \in 0..Len(text)
  BY Places, NotEmpty, FilterAssumption DEF Scans
<1>2. PICK d \in Nat : d = n - Len(s)
  BY <1>1
<1>3. d + Len(s) = n /\ d < n /\ (n + 1) - d >= SymbolMax
  BY <1>1, <1>2
<1>4. \A k \in (d + 1)..(n + 1) : text[k] \in Ident
  <2> TAKE k \in (d + 1)..(n + 1)
  <2>1. CASE k = n + 1
    BY <2>1
  <2>2. CASE k # n + 1
    <3>1. k - d \in 1..Len(s) /\ d + (k - d) = k
      BY <1>1, <1>3, <2>2
    <3> QED  BY <1>2, <3>1 DEF Scans
  <2> QED  BY <2>1, <2>2
<1>5. d > 0 => text[d] \notin Ident
  BY <1>1, <1>2 DEF Scans
<1>6. Hopeless(text, n + 1)
  <2> SUFFICES ASSUME NEW b \in 1..(n + 1)
               PROVE  \/ b > 1 /\ text[b - 1] \in Ident
                      \/ \E k \in b..(n + 1) : text[k] \notin Ident
                      \/ ((n + 1) - b) + 1 >= SymbolMax
    BY DEF Hopeless
  <2>1. CASE b <= d
    <3>1. d \in b..(n + 1) /\ d > 0
      BY <1>3, <2>1
    <3> QED  BY <1>5, <3>1
  <2>2. CASE b = d + 1
    <3>1. ((n + 1) - b) + 1 = (n + 1) - d
      BY <2>2
    <3> QED  BY <1>3, <3>1
  <2>3. CASE b > d + 1
    <3>1. b - 1 \in (d + 1)..(n + 1) /\ b > 1
      BY <2>3
    <3> QED  BY <1>4, <3>1
  <2> QED  BY <2>1, <2>2, <2>3
<1>7. ASSUME NEW t, Continues(t, text, n + 1), NEW i \in (d + 1)..(n + 1),
             NEW b \in DOMAIN t, NEW e \in DOMAIN t, Decorated(t, b, e), i \in b..e
      PROVE  FALSE
  <2>1. /\ Continues(t, text, n) /\ n + 1 <= Len(t) /\ Len(t) \in Nat
        /\ \A k \in (d + 1)..(n + 1) : t[k] \in Ident
    BY <1>4, <1>7, Places DEF Continues
  <2>2. b \in Nat /\ e \in Nat /\ b >= 1 /\ b <= e /\ e <= Len(t)
    BY <2>1, <1>7, DecoratedPlaces
  <2>3. b <= n
    <3> SUFFICES ASSUME b > n PROVE FALSE
      BY <2>2
    <3>1. b > 1 /\ b - 1 \in (d + 1)..(n + 1)
      BY <1>1, <1>3, <1>7, <2>2
    <3> QED  BY <1>7, <2>1, <3>1 DEF Decorated
  <2>4. b = d + 1 /\ e >= n
    <3>1. \E k \in (d + 1)..n : k \in b..e
      <4>1. CASE i <= n
        BY <1>7, <4>1
      <4>2. CASE i = n + 1
        <5>1. n \in b..e /\ n \in (d + 1)..n
          BY <1>3, <1>7, <2>2, <2>3, <4>2
        <5> QED  BY <5>1
      <4> QED  BY <4>1, <4>2
    <3>2. n - Len(s) + 1 = d + 1
      BY <1>1, <1>2
    <3> QED  BY <1>1, <1>7, <2>1, <3>1, <3>2, SymbolAhead
  <2>5. e >= n + 1
    <3> SUFFICES ASSUME e = n PROVE FALSE
      BY <2>2, <2>4
    <3>1. n + 1 \in (d + 1)..(n + 1) /\ e < Len(t)
      BY <1>3, <2>1
    <3> QED  BY <1>7, <2>1, <3>1 DEF Decorated
  <2>6. (e - b) + 1 >= SymbolMax
    BY <1>1, <1>3, <2>2, <2>4, <2>5
  <2>7. (e - b) + 1 < SymbolMax
    BY <1>7, <2>1, DecoratedPlaces
  <2> QED  BY <1>1, <2>2, <2>6, <2>7
<1> QED  BY <1>2, <1>6, <1>7 DEF AllCopied, Copied

(* An identifier s that ends at n: of the text t the bytes after d.        *)
Ends(t, s, at, d, n) ==
  /\ d + 1 \in 1..n /\ n \in 1..Len(t) /\ SubSeq(t, d + 1, n) = s
  /\ at => Decorated(t, d + 1, n)
  /\ ~at => AllCopied(t, d, n)

(* An identifier that ends in front of another byte or with the text.      *)
LEMMA EndDecides ==
  ASSUME NEW text \in Seq(Byte), NEW n \in 0..Len(text),
         NEW s, NEW at, NEW starts, Scans(text, n, s, at, starts), s # <<>>,
         NEW t, Continues(t, text, n), n < Len(t) => t[n + 1] \notin Ident,
         NEW d0, d0 = n - Len(s)
  PROVE  Ends(t, s, at, d0, n)
<1>1. Len(text) \in Nat /\ n \in Nat /\ s \in Seq(Byte) /\ Len(s) \in Nat /\ Len(s) <= n
      /\ Len(s) > 0 /\ Len(t) \in Nat /\ n <= Len(t) /\ SymbolMax \in Nat /\ t \in Seq(Byte)
  BY Places, NotEmpty, FilterAssumption DEF Scans, Continues
<1>2. PICK d \in Nat : d = n - Len(s)
  BY <1>1
<1>3. d + Len(s) = n /\ d < n /\ n - Len(s) + 1 = d + 1 /\ d + 1 \in 1..n /\ n \in 1..Len(t)
  BY <1>1, <1>2
<1>4. \A k \in 1..Len(s) : s[k] = t[d + k] /\ s[k] \in Ident
  <2> TAKE k \in 1..Len(s)
  <2>1. d + k \in 1..n
    BY <1>1, <1>3
  <2> QED  BY <1>2, <2>1 DEF Scans, Continues
<1>5. d > 0 => t[d] \notin Ident
  BY <1>1, <1>2 DEF Scans, Continues
<1>6. SubSeq(t, d + 1, n) = s
  <2>1. d \in 0..n /\ n \in 0..Len(t) /\ n - d = Len(s)
    BY <1>1, <1>3
  <2>2. PICK u \in Seq(Byte) : u = SubSeq(t, d + 1, n)
    BY <1>1, <2>1, Segment
  <2>3. Len(u) = Len(s) /\ \A k \in 1..Len(s) : u[k] = t[d + k]
    BY <1>1, <2>1, <2>2, Segment
  <2> QED  BY <1>1, <1>4, <2>2, <2>3, SeqEqual
<1>7. ASSUME at PROVE Decorated(t, d + 1, n)
  <2>1. PICK j \in 1..Len(s) : s[j] = "@"
    BY <1>7 DEF Scans
  <2>2. d + j \in (d + 1)..n /\ t[d + j] = "@"
    BY <1>1, <1>3, <1>4, <2>1
  <2>3. \A k \in (d + 1)..n : t[k] \in Ident
    <3> TAKE k \in (d + 1)..n
    <3>1. k - d \in 1..Len(s) /\ d + (k - d) = k
      BY <1>1, <1>3
    <3> QED  BY <1>4, <3>1
  <2>4. t[d + 1] = "?"
    <3>1. 1 \in 1..Len(s)
      BY <1>1
    <3> QED  BY <1>4, <3>1 DEF Scans
  <2>5. (n - (d + 1)) + 1 < SymbolMax /\ (d + 1) - 1 = d
    BY <1>1, <1>2 DEF Scans
  <2> QED  BY <1>3, <1>5, <2>2, <2>3, <2>4, <2>5 DEF Decorated
<1>8. ASSUME ~at, NEW i \in (d + 1)..n, NEW b \in DOMAIN t, NEW e \in DOMAIN t,
             Decorated(t, b, e), i \in b..e
      PROVE  FALSE
  <2>0. b \in Nat /\ e \in Nat /\ e <= Len(t)
    BY <1>1, <1>8, DecoratedPlaces
  <2>1. b = d + 1 /\ e >= n
    BY <1>3, <1>8, SymbolAhead
  <2>2. e = n
    <3> SUFFICES ASSUME e > n PROVE FALSE
      BY <1>1, <2>0, <2>1
    <3>1. n + 1 \in b..e /\ n < Len(t)
      BY <1>1, <1>3, <2>0, <2>1
    <3> QED  BY <1>8, <3>1 DEF Decorated
  <2>3. PICK k \in (d + 1)..n : t[k] = "@"
    BY <1>8, <2>1, <2>2 DEF Decorated
  <2>4. k - d \in 1..Len(s) /\ d + (k - d) = k
    BY <1>1, <1>3
  <2>5. s[k - d] = "@"
    BY <1>4, <2>3, <2>4
  <2> QED  BY <1>8, <2>4, <2>5 DEF Scans
<1>9. ~at => AllCopied(t, d, n)
  BY <1>8 DEF AllCopied, Copied
<1>10. d0 = d
  BY <1>2
<1> QED  BY <1>3, <1>6, <1>7, <1>9, <1>10 DEF Ends

(* A byte outside of what may become a symbol.                             *)
LEMMA PassCopies ==
  ASSUME NEW text \in Seq(Byte), NEW n \in Nat, n < Len(text),
         NEW at, NEW starts, Scans(text, n, <<>>, at, starts),
         ~(starts /\ text[n + 1] = "?")
  PROVE  /\ Hopeless(text, n + 1)
         /\ \A t : Continues(t, text, n + 1) => Copied(t, n + 1)
<1>1. Len(text) \in Nat /\ SymbolMax \in Nat
  BY Places, FilterAssumption
<1>2. starts = (n = 0 \/ text[n] \notin Ident) /\ Hopeless(text, n)
  BY DEF Scans, Hopeless
<1>3. Hopeless(text, n + 1)
  <2> SUFFICES ASSUME NEW b \in 1..(n + 1)
               PROVE  \/ b > 1 /\ text[b - 1] \in Ident
                      \/ \E k \in b..(n + 1) : text[k] \notin Ident
                      \/ text[b] # "?" \/ ((n + 1) - b) + 1 >= SymbolMax
    BY DEF Hopeless
  <2>1. CASE b = n + 1
    <3>1. b > 1 <=> n # 0
      BY <2>1
    <3>2. b - 1 = n
      BY <2>1
    <3> QED  BY <1>2, <2>1, <3>1, <3>2
  <2>2. CASE b # n + 1
    <3>1. b \in 1..n /\ \A k \in b..n : k \in b..(n + 1)
      BY <2>2
    <3>2. (n - b) + 1 >= SymbolMax => ((n + 1) - b) + 1 >= SymbolMax
      BY <1>1, <3>1
    <3> QED  BY <1>2, <3>1, <3>2 DEF Hopeless
  <2> QED  BY <2>1, <2>2
<1>4. ASSUME NEW t, Continues(t, text, n + 1), NEW b \in DOMAIN t, NEW e \in DOMAIN t,
             Decorated(t, b, e), n + 1 \in b..e
      PROVE  FALSE
  <2>1. t \in Seq(Byte) /\ Len(t) \in Nat /\ \A k \in 1..(n + 1) : t[k] = text[k]
    BY <1>4, Places DEF Continues
  <2>2. b \in Nat /\ e \in Nat /\ b >= 1 /\ b <= n + 1 /\ e >= n + 1
    <3>1. b \in Nat /\ e \in Nat /\ b >= 1
      BY <1>4, <2>1, DecoratedPlaces
    <3> QED  BY <1>4, <3>1
  <2>3. b \in 1..(n + 1) /\ \A k \in b..(n + 1) : k \in b..e /\ k \in 1..(n + 1)
    BY <2>2
  <2>4. \A k \in b..(n + 1) : text[k] \in Ident
    BY <1>4, <2>1, <2>3 DEF Decorated
  <2>5. text[b] = "?" /\ (e - b) + 1 < SymbolMax
    BY <1>4, <2>1, <2>3 DEF Decorated
  <2>6. ((n + 1) - b) + 1 < SymbolMax
    BY <1>1, <2>2, <2>5
  <2>7. b > 1 => text[b - 1] \notin Ident
    <3> SUFFICES ASSUME b > 1 PROVE text[b - 1] \notin Ident
      OBVIOUS
    <3>1. b - 1 \in 1..(n + 1)
      BY <2>2
    <3> QED  BY <1>4, <2>1, <3>1 DEF Decorated
  <2>8. ~(((n + 1) - b) + 1 >= SymbolMax)
    BY <1>1, <2>2, <2>6
  <2> QED  BY <1>3, <2>3, <2>4, <2>5, <2>7, <2>8 DEF Hopeless
<1> QED  BY <1>3, <1>4 DEF Copied

-----------------------------------------------------------------------------
(* What the scanner puts out for what it takes from its position d to d2.  *)

Puts(text, n, d, d2, said) ==
  /\ said \in Seq(Atom)
  /\ \A t : Continues(t, text, n) =>
              Plain(t, d2) = Plain(t, d) \o said /\ Plain(t, d) \in Seq(Atom)

LEMMA VerbatimType ==
  ASSUME NEW s \in Seq(Byte)
  PROVE  Verbatim(s) \in Seq(Atom)
<1>1. PICK n \in Nat : n = Len(s)
  BY Places
<1> DEFINE v == [i \in 1..n |-> <<s[i]>>]
<1>2. v \in [1..n -> Atom]
  BY <1>1, Places, Atoms
<1>3. v \in Seq(Atom)
  <2> HIDE DEF v
  <2> QED  BY <1>1, <1>2, FunctionIsSeq
<1> QED  BY <1>1, <1>3, Places DEF Verbatim

LEMMA VerbatimOne ==
  ASSUME NEW c \in Byte
  PROVE  Verbatim(<<c>>) = <<<<c>>>>
BY DEF Verbatim

LEMMA PutsNothing ==
  ASSUME NEW text \in Seq(Byte), NEW n \in 0..Len(text), NEW d \in 0..n
  PROVE  Puts(text, n, d, d, <<>>)
<1>1. ASSUME NEW t, Continues(t, text, n)
      PROVE  Plain(t, d) = Plain(t, d) \o <<>> /\ Plain(t, d) \in Seq(Atom)
  <2>1. t \in Seq(Byte) /\ Len(t) \in Nat /\ n <= Len(t) /\ Len(text) \in Nat
    BY <1>1, Places DEF Continues
  <2>2. d \in 0..Len(t) /\ d \in 0..d
    BY <2>1
  <2>3. Plain(t, d) \in Seq(Atom)
    BY <2>1, <2>2, PlainSplit
  <2> QED  BY <2>3, ConcatEmptySeq
<1>2. <<>> \in Seq(Atom)
  OBVIOUS
<1> QED  BY <1>1, <1>2 DEF Puts

(* Bytes that are copied.                                                  *)
LEMMA PutsCopies ==
  ASSUME NEW text \in Seq(Byte), NEW n \in 0..Len(text), NEW d \in 0..n,
         \A t : Continues(t, text, n) => AllCopied(t, d, n),
         NEW s \in Seq(Byte), s = SubSeq(text, d + 1, n)
  PROVE  Puts(text, n, d, n, Verbatim(s))
<1>1. ASSUME NEW t, Continues(t, text, n)
      PROVE  Plain(t, n) = Plain(t, d) \o Verbatim(s) /\ Plain(t, d) \in Seq(Atom)
  <2>1. t \in Seq(Byte) /\ Len(t) \in Nat /\ n <= Len(t) /\ Len(text) \in Nat
        /\ \A k \in 1..n : t[k] = text[k]
    BY <1>1, Places DEF Continues
  <2>2. n \in 0..Len(t)
    BY <2>1
  <2>3. /\ Plain(t, d) \in Seq(Atom)
        /\ Plain(t, n) = Plain(t, d) \o Between(t, d, n)
    BY <2>1, <2>2, PlainSplit
  <2>4. Between(t, d, n) = Verbatim(SubSeq(t, d + 1, n))
    <3>1. \A i \in (d + 1)..n : Copied(t, i)
      BY <1>1 DEF AllCopied
    <3> QED  BY <2>1, <2>2, <3>1, BetweenCopied
  <2>5. SubSeq(t, d + 1, n) = s
    <3>1. PICK u \in Seq(Byte) : u = SubSeq(t, d + 1, n)
      BY <2>1, <2>2, Segment
    <3>2. PICK m \in Nat : m = n - d
      BY <2>1
    <3>3. Len(u) = m /\ \A k \in 1..m : u[k] = t[d + k]
      BY <2>1, <2>2, <3>1, <3>2, Segment
    <3>4. Len(s) = m /\ \A k \in 1..m : s[k] = text[d + k]
      BY <3>2, Segment
    <3>5. \A k \in 1..m : d + k \in 1..n
      BY <2>1, <3>2
    <3>6. \A k \in 1..m : u[k] = s[k]
      BY <2>1, <3>3, <3>4, <3>5
    <3> QED  BY <3>1, <3>3, <3>4, <3>6, SeqEqual
  <2> QED  BY <2>3, <2>4, <2>5
<1> QED  BY <1>1, VerbatimType DEF Puts

(* One byte that is copied.                                                *)
LEMMA PutsByte ==
  ASSUME NEW text \in Seq(Byte), NEW n \in Nat, n < Len(text), NEW c \in Byte, text[n + 1] = c,
         \A t : Continues(t, text, n + 1) => Copied(t, n + 1)
  PROVE  Puts(text, n + 1, n, n + 1, <<<<c>>>>)
<1>1. \A t : Continues(t, text, n + 1) => AllCopied(t, n, n + 1)
  <2>1. \A i \in (n + 1)..(n + 1) : i = n + 1
    OBVIOUS
  <2> QED  BY <2>1 DEF AllCopied
<1>2. n + 1 \in 0..Len(text) /\ n \in 0..(n + 1)
  BY Places
<1>3. PICK u \in Seq(Byte) : u = SubSeq(text, n + 1, n + 1)
  BY <1>2, Segment
<1>4. u = <<c>>
  <2>1. Len(u) = 1 /\ u[1] = text[n + 1]
    <3>1. Len(u) = (n + 1) - n /\ \A i \in 1..((n + 1) - n) : u[i] = text[n + i]
      BY <1>2, <1>3, Segment
    <3> QED  BY <3>1
  <2>2. <<c>> \in Seq(Byte) /\ Len(<<c>>) = 1 /\ <<c>>[1] = c
    OBVIOUS
  <2>3. \A i \in 1..1 : u[i] = <<c>>[i]
    BY <2>1, <2>2
  <2> QED  BY <1>3, <2>1, <2>2, <2>3, SeqEqual
<1> QED  BY <1>1, <1>2, <1>3, <1>4, PutsCopies, VerbatimOne

(* One thing after the other.                                              *)
LEMMA PutsBoth ==
  ASSUME NEW text \in Seq(Byte), NEW n, NEW d, NEW m, NEW e, NEW s, NEW t,
         Puts(text, n, d, m, s), Puts(text, n, m, e, t)
  PROVE  Puts(text, n, d, e, s \o t)
<1>1. s \in Seq(Atom) /\ t \in Seq(Atom) /\ s \o t \in Seq(Atom)
  BY ConcatProperties DEF Puts
<1>2. ASSUME NEW u, Continues(u, text, n)
      PROVE  Plain(u, e) = Plain(u, d) \o (s \o t) /\ Plain(u, d) \in Seq(Atom)
  <2>1. PICK p \in Seq(Atom) : p = Plain(u, d)
    BY <1>2 DEF Puts
  <2>2. Plain(u, e) = (p \o s) \o t
    BY <1>2, <2>1 DEF Puts
  <2>3. Associates(p, s, t)
    BY <1>1, Association
  <2> QED  BY <2>1, <2>2, <2>3 DEF Associates
<1> QED  BY <1>1, <1>2 DEF Puts

(* A decorated symbol.                                                     *)
LEMMA PutsSymbol ==
  ASSUME NEW text \in Seq(Byte), NEW n \in 0..Len(text), NEW e \in 1..n, NEW b \in 1..e,
         NEW s \in Seq(Byte),
         \A t : Continues(t, text, n) => Decorated(t, b, e) /\ SubSeq(t, b, e) = s
  PROVE  Puts(text, n, b - 1, e, <<Undecorated(s)>>)
<1>1. PICK a \in Atom : a = Undecorated(s)
  BY Atoms
<1>2. <<a>> \in Seq(Atom)
  OBVIOUS
<1>3. ASSUME NEW t, Continues(t, text, n)
      PROVE  Plain(t, e) = Plain(t, b - 1) \o <<a>> /\ Plain(t, b - 1) \in Seq(Atom)
  <2>1. t \in Seq(Byte) /\ Len(t) \in Nat /\ n <= Len(t) /\ Len(text) \in Nat
    BY <1>3, Places DEF Continues
  <2>2. e \in 0..Len(t) /\ e \in 1..Len(t) /\ b - 1 \in 0..e
    BY <2>1
  <2>3. /\ Plain(t, b - 1) \in Seq(Atom)
        /\ Plain(t, e) = Plain(t, b - 1) \o Between(t, b - 1, e)
    BY <2>1, <2>2, PlainSplit
  <2>4. Between(t, b - 1, e) = <<Undecorated(SubSeq(t, b, e))>>
    BY <1>3, <2>1, <2>2, BetweenSymbol
  <2> QED  BY <1>1, <1>3, <2>3, <2>4
<1> QED  BY <1>1, <1>2, <1>3 DEF Puts

-----------------------------------------------------------------------------
(* What is on its way: what has left as o, what is buffered as b and what  *)
(* is still to be put into the buffer as t are together the text due; an   *)
(* error e drops the rest.                                                 *)
Sends(o, b, t, e, due) ==
  /\ o \in Seq(Atom) /\ b \in Seq(Atom) /\ t \in Seq(Atom) /\ due \in Seq(Atom)
  /\ ~e => due = (o \o b) \o t
  /\ IsPrefix(o, due)

LEMMA SendsMore ==
  ASSUME NEW o, NEW b, NEW e, NEW due, Sends(o, b, <<>>, e, due), NEW t \in Seq(Atom)
  PROVE  Sends(o, b, t, e, due \o t)
<1>1. o \in Seq(Atom) /\ b \in Seq(Atom) /\ due \in Seq(Atom) /\ IsPrefix(o, due)
  BY DEF Sends
<1>2. o \o b \in Seq(Atom) /\ due \o t \in Seq(Atom)
  BY <1>1, ConcatProperties
<1>3. ~e => due = o \o b
  BY <1>2, ConcatEmptySeq DEF Sends
<1>4. IsPrefix(o, due \o t)
  BY <1>1, PrefixKept
<1> QED  BY <1>1, <1>2, <1>3, <1>4 DEF Sends

LEMMA SendsOn ==
  ASSUME NEW o, NEW b, NEW t, NEW due, Sends(o, b, t, FALSE, due), t # <<>>
  PROVE  Sends(o, Append(b, Head(t)), Tail(t), FALSE, due)
<1>1. o \in Seq(Atom) /\ b \in Seq(Atom) /\ t \in Seq(Atom) /\ due \in Seq(Atom)
      /\ IsPrefix(o, due) /\ due = (o \o b) \o t
  BY DEF Sends
<1>2. PICK h \in Atom, r \in Seq(Atom) : h = Head(t) /\ r = Tail(t) /\ t = <<h>> \o r
  BY <1>1, HeadThenTail, HeadTailProperties
<1>3. <<h>> \in Seq(Atom)
  OBVIOUS
<1>4. Append(b, h) = b \o <<h>> /\ b \o <<h>> \in Seq(Atom)
  BY <1>1, <1>3, AppendIsConcat, ConcatProperties
<1>5. (o \o b) \o (<<h>> \o r) = (o \o (b \o <<h>>)) \o r
  <2>1. o \o b \in Seq(Atom)
    BY <1>1, ConcatProperties
  <2>2. (o \o b) \o (<<h>> \o r) = ((o \o b) \o <<h>>) \o r
    <3>1. Associates(o \o b, <<h>>, r)
      BY <1>2, <1>3, <2>1, Association
    <3> QED  BY <3>1 DEF Associates
  <2>3. (o \o b) \o <<h>> = o \o (b \o <<h>>)
    BY <1>1, <1>3, ConcatAssociative
  <2> QED  BY <2>2, <2>3
<1> QED  BY <1>1, <1>2, <1>4, <1>5 DEF Sends

LEMMA SendsFlushed ==
  ASSUME NEW o, NEW b, NEW t, NEW due, Sends(o, b, t, FALSE, due)
  PROVE  /\ Sends(o \o b, <<>>, t, FALSE, due)
         /\ \A n \in 0..Len(b) : Sends(o \o SubSeq(b, 1, n), <<>>, t, TRUE, due)
<1>1. o \in Seq(Atom) /\ b \in Seq(Atom) /\ t \in Seq(Atom) /\ due \in Seq(Atom)
      /\ due = (o \o b) \o t /\ <<>> \in Seq(Atom)
  BY DEF Sends
<1>2. PICK p \in Seq(Atom) : p = o \o b
  BY <1>1, ConcatProperties
<1>3. Sends(o \o b, <<>>, t, FALSE, due)
  <2>1. p \o <<>> = p /\ IsPrefix(p, p \o t)
    BY <1>1, <1>2, ConcatEmptySeq, PrefixOfConcat
  <2> QED  BY <1>1, <1>2, <2>1 DEF Sends
<1>4. ASSUME NEW n \in 0..Len(b) PROVE Sends(o \o SubSeq(b, 1, n), <<>>, t, TRUE, due)
  <2>1. Len(b) \in Nat /\ \A i \in 1..Len(b) : b[i] \in Atom
    BY <1>1, LenProperties, ElementOfSeq
  <2>2. PICK x \in Seq(Atom), y \in Seq(Atom) : x = SubSeq(b, 1, n) /\ b = x \o y
    <3>1. SubSeq(b, 1, n) \in Seq(Atom) /\ SubSeq(b, n + 1, Len(b)) \in Seq(Atom)
      BY <2>1, SubSeqProperties
    <3>2. SubSeq(b, 1, n) \o SubSeq(b, n + 1, Len(b)) = SubSeq(b, 1, Len(b))
      <4>1. 1 \in 1..(Len(b) + 1) /\ n \in (1 - 1)..Len(b) /\ Len(b) \in n..Len(b)
        BY <2>1
      <4> QED  BY <1>1, <4>1, ConcatAdjacentSubSeq
    <3>3. SubSeq(b, 1, Len(b)) = b
      BY <1>1, SubSeqFull
    <3> QED  BY <3>1, <3>2, <3>3
  <2>3. o \o x \in Seq(Atom) /\ o \o b = (o \o x) \o y /\ y \o t \in Seq(Atom)
    <3>1. Associates(o, x, y)
      BY <1>1, <2>2, Association
    <3> QED  BY <1>1, <2>2, <3>1, ConcatProperties DEF Associates
  <2>4. due = (o \o x) \o (y \o t)
    <3>1. Associates(o \o x, y, t)
      BY <1>1, <2>2, <2>3, Association
    <3> QED  BY <1>1, <2>3, <3>1 DEF Associates
  <2>5. IsPrefix(o \o x, due)
    BY <2>3, <2>4, PrefixOfConcat
  <2> QED  BY <1>1, <2>2, <2>3, <2>5 DEF Sends
<1> QED  BY <1>3, <1>4

-----------------------------------------------------------------------------
(* The invariant.                                                          *)

(* What n of the symbols on the command line are answered.                 *)
AnswersUpTo(n) == FlattenSeq([i \in 1..n |-> Answer(first + i)])

AnswerOf(s) == IF s = <<NoText>> THEN Unspecified ELSE Undecorated(s)

Consumed == Len(job.input) - (Len(rest) + Len(unread))

(* What is still to be scanned is the end of the input.                    *)
Ahead(text, n, u, r) ==
  /\ text \in Seq(Byte) /\ u \in Seq(Byte) /\ r \in Seq(Byte)
  /\ n \in Nat /\ n + (Len(u) + Len(r)) = Len(text)
  /\ \A k \in 1..Len(u) : u[k] = text[n + k]
  /\ \A k \in 1..Len(r) : r[k] = text[n + Len(u) + k]

Scanning == phase \in {"options", "symbols", "input"}

FilterInv ==
  /\ job \in Job
  /\ index \in Nat /\ first \in Nat /\ first <= index /\ index <= Len(job.argv)
  /\ phase \in {"options", "symbols", "input", "flush", "ended"}
  /\ err \in BOOLEAN
  /\ Ahead(job.input, Consumed, unread, rest)
  /\ eof \in BOOLEAN /\ (eof => unread = <<>>)
  /\ Len(sym) < SymbolMax /\ Len(buffer) < OutCap
  /\ \A s \in DOMAIN seen : seen[s] \in {NoOutput, AnswerOf(s)}
  /\ Scanning => /\ sym_at \in BOOLEAN
                  /\ Scans(job.input, Consumed, sym, sym_at, sym_start)
  /\ phase \in {"options", "symbols"} => Consumed = 0 /\ sym = <<>> /\ ~eof
  /\ phase = "options" => todo = <<>> /\ Sends(out, buffer, todo, err, <<>>)
  /\ phase = "symbols" => Sends(out, buffer, todo, err, AnswersUpTo(index - first))
  /\ phase = "input" =>
       /\ first = Len(job.argv)
       /\ \A t : Continues(t, job.input, Consumed) =>
                    Sends(out, buffer, todo, err, Plain(t, Consumed - Len(sym)))
  /\ phase \in {"flush", "ended"} => Sends(out, buffer, todo, err, Complete)
  /\ phase = "ended" => todo = <<>> /\ (~err => buffer = <<>>)
  /\ exit = "success" => phase = "options" \/ (phase = "ended" /\ ~err)
  /\ exit = "failure" => phase = "options" \/ err

LEMMA FilterInit == Init => FilterInv
<1> SUFFICES ASSUME Init PROVE FilterInv
  OBVIOUS
<1>1. job \in Job /\ job.input \in Seq(Byte) /\ Len(job.argv) \in Nat
  BY FilterAssumption, LenProperties DEF Init, Job
<1>2. PICK text \in Seq(Byte) : text = job.input
  BY <1>1
<1>3. rest = text /\ unread = <<>> /\ Len(unread) = 0 /\ Len(text) \in Nat /\ Consumed = 0
  <2>1. rest = text /\ unread = <<>> /\ Len(<<>>) = 0 /\ Len(text) \in Nat
    BY <1>2, Places DEF Init
  <2>2. Len(text) - (Len(text) + 0) = 0
    BY <2>1
  <2> QED  BY <1>2, <2>1, <2>2 DEF Consumed
<1>4. Ahead(text, 0, unread, rest)
  BY <1>3 DEF Ahead
<1>5. Hopeless(text, 0)
  BY DEF Hopeless
<1>6. Scans(text, 0, <<>>, FALSE, TRUE)
  <2>1. PICK n \in Nat : n = 0
    OBVIOUS
  <2>2. (n = 0 \/ text[n] \notin Ident) = TRUE
    BY <2>1
  <2>3. Scans(text, n, <<>>, FALSE, n = 0 \/ text[n] \notin Ident)
    BY <1>5, <2>1, NoSymbol
  <2> QED  BY <2>1, <2>2, <2>3
<1>7. Sends(<<>>, <<>>, <<>>, FALSE, <<>>)
  <2>1. <<>> \in Seq(Atom) /\ <<>> \o <<>> = <<>>
    BY ConcatEmptySeq
  <2>2. IsPrefix(<<>>, <<>> \o <<>>)
    BY <2>1, PrefixOfConcat
  <2> QED  BY <2>1, <2>2 DEF Sends
<1>8. Len(<<>>) = 0 /\ 0 < SymbolMax /\ 0 < OutCap
  BY FilterAssumption
<1>9. Ahead(job.input, Consumed, unread, rest)
  BY <1>2, <1>3, <1>4
<1>10. Scans(job.input, Consumed, sym, sym_at, sym_start)
  BY <1>2, <1>3, <1>6 DEF Init
<1>11. Sends(out, buffer, todo, err, <<>>)
  BY <1>7 DEF Init
<1>12. \A s \in DOMAIN seen : FALSE
  BY DEF Init
<1>13. /\ phase = "options" /\ index = 0 /\ first = 0 /\ err = FALSE /\ eof = FALSE
       /\ sym = <<>> /\ buffer = <<>> /\ todo = <<>> /\ sym_at = FALSE /\ exit = "running"
  BY DEF Init
<1>14. 0 <= index /\ index <= Len(job.argv) /\ first <= index /\ index \in Nat /\ first \in Nat
  BY <1>1, <1>13
<1>15. Len(sym) < SymbolMax /\ Len(buffer) < OutCap
  BY <1>8, <1>13
<1> QED
  BY <1>1, <1>3, <1>9, <1>10, <1>11, <1>12, <1>13, <1>14, <1>15 DEF FilterInv, Scanning

-----------------------------------------------------------------------------
(* Steps of the scanner.                                                   *)

LEMMA AheadNext ==
  ASSUME NEW text, NEW n, NEW u, NEW r, Ahead(text, n, u, r), u # <<>>
  PROVE  n < Len(text) /\ text[n + 1] = Head(u) /\ Ahead(text, n + 1, Tail(u), r)
<1>1. /\ text \in Seq(Byte) /\ u \in Seq(Byte) /\ r \in Seq(Byte)
      /\ n \in Nat /\ n + (Len(u) + Len(r)) = Len(text)
      /\ \A k \in 1..Len(u) : u[k] = text[n + k]
      /\ \A k \in 1..Len(r) : r[k] = text[n + Len(u) + k]
  BY DEF Ahead
<1>2. Len(u) \in Nat /\ Len(r) \in Nat /\ Len(u) > 0 /\ Len(text) \in Nat
  BY <1>1, Places, NotEmpty
<1>3. PICK v \in Seq(Byte) : v = Tail(u)
  BY <1>1, HeadTailProperties
<1>4. Len(v) = Len(u) - 1 /\ \A k \in 1..Len(v) : v[k] = u[k + 1]
  BY <1>1, <1>3, HeadTailProperties
<1>5. 1 \in 1..Len(u) /\ Head(u) = u[1]
  BY <1>1, <1>2
<1>6. n + 1 + (Len(v) + Len(r)) = Len(text) /\ n + 1 \in Nat /\ n < Len(text)
  <2>1. PICK x \in Nat, y \in Nat, z \in Nat : x = Len(u) /\ y = Len(r) /\ z = Len(text)
    BY <1>2
  <2>2. x > 0 /\ n + (x + y) = z /\ n \in Nat
    BY <1>1, <1>2, <2>1
  <2>3. n + 1 + ((x - 1) + y) = z /\ n < z
    BY <2>2
  <2> QED  BY <1>1, <1>4, <2>1, <2>3
<1>7. \A k \in 1..Len(v) : v[k] = text[(n + 1) + k]
  <2> TAKE k \in 1..Len(v)
  <2>1. k + 1 \in 1..Len(u) /\ n + (k + 1) = (n + 1) + k
    BY <1>1, <1>2, <1>4
  <2>2. u[k + 1] = text[n + (k + 1)]
    BY <1>1, <2>1
  <2> QED  BY <1>4, <2>1, <2>2
<1>8. \A k \in 1..Len(r) : r[k] = text[(n + 1) + Len(v) + k]
  <2>1. (n + 1) + Len(v) = n + Len(u)
    BY <1>1, <1>2, <1>4
  <2> QED  BY <1>1, <2>1
<1>9. u[1] = text[n + 1]
  BY <1>1, <1>5
<1> QED  BY <1>1, <1>3, <1>5, <1>6, <1>7, <1>8, <1>9 DEF Ahead

LEMMA ConsumedOne ==
  ASSUME FilterInv, NEW c \in Byte, Consume(c)
  PROVE  /\ phase = "input" /\ exit = "running" /\ todo = <<>> /\ ~eof
         /\ UNCHANGED <<options, phase, rest, eof, output, exit>>
         /\ sym_start' = (c \notin Ident)
         /\ Consumed \in Nat /\ Consumed < Len(job.input) /\ job.input[Consumed + 1] = c
         /\ Consumed' = Consumed + 1
         /\ Ahead(job.input, Consumed + 1, unread', rest)
<1>1. /\ phase = "input" /\ exit = "running" /\ todo = <<>> /\ unread # <<>> /\ c = Head(unread)
      /\ unread' = Tail(unread) /\ sym_start' = (c \notin Ident)
      /\ UNCHANGED <<options, phase, rest, eof, output, exit>>
  BY DEF Consume, Ready
<1>2. PICK text, n, u, r : text = job.input /\ n = Consumed /\ u = unread /\ r = rest
  OBVIOUS
<1>3. Ahead(text, n, u, r) /\ u # <<>>
  BY <1>1, <1>2 DEF FilterInv
<1>4. n < Len(text) /\ text[n + 1] = Head(u) /\ Ahead(text, n + 1, Tail(u), r)
  BY <1>3, AheadNext
<1>5. Consumed' = Len(text) - (Len(r) + Len(Tail(u)))
  BY <1>1, <1>2 DEF Consumed, options
<1>6. Consumed' = n + 1 /\ n \in Nat
  <2>1. /\ n \in Nat /\ Len(Tail(u)) \in Nat /\ Len(r) \in Nat /\ Len(text) \in Nat
        /\ n + 1 + (Len(Tail(u)) + Len(r)) = Len(text)
    BY <1>3, <1>4, Places DEF Ahead
  <2>2. PICK x \in Nat, y \in Nat, z \in Nat : x = Len(Tail(u)) /\ y = Len(r) /\ z = Len(text)
    BY <2>1
  <2>3. z - (y + x) = n + 1
    <3>1. n \in Nat /\ n + 1 + (x + y) = z
      BY <2>1, <2>2, Zenon
    <3> QED  BY <3>1
  <2> QED  BY <1>5, <2>1, <2>2, <2>3
<1>7. ~eof
  BY <1>1 DEF FilterInv
<1> QED  BY <1>1, <1>2, <1>4, <1>6, <1>7

CacheIsRight == \A s \in DOMAIN seen : seen[s] \in {NoOutput, AnswerOf(s)}

(* Whatever the scanner does with a byte, it comes to this.                *)
LEMMA ScannerStep ==
  ASSUME FilterInv, NEW c \in Byte, Consume(c), sym_at' \in BOOLEAN,
         Scans(job.input, Consumed + 1, sym', sym_at', sym_start'),
         Puts(job.input, Consumed + 1, Consumed - Len(sym), Consumed + 1 - Len(sym'), todo'),
         CacheIsRight'
  PROVE  FilterInv'
<1>1. /\ phase = "input" /\ exit = "running" /\ todo = <<>> /\ ~eof
      /\ UNCHANGED <<options, phase, rest, eof, output, exit>>
      /\ Consumed \in Nat /\ Consumed' = Consumed + 1
      /\ Ahead(job.input, Consumed + 1, unread', rest)
  BY ConsumedOne
<1>2. UNCHANGED <<job, index, first, buffer, out, err>>
  BY <1>1 DEF options, output
<1>3. PICK text, n, o, b, e, d, x : /\ text = job.input /\ n = Consumed /\ o = out /\ b = buffer
                                    /\ e = err /\ d = n - Len(sym) /\ x = todo'
  OBVIOUS
<1>4. PICK m : m = n + 1 - Len(sym')
  OBVIOUS
<1>5. \A t : Continues(t, text, n + 1) => Sends(o, b, x, e, Plain(t, m))
  <2> SUFFICES ASSUME NEW t, Continues(t, text, n + 1) PROVE Sends(o, b, x, e, Plain(t, m))
    OBVIOUS
  <2>1. Continues(t, text, n)
    <3>1. n \in Nat
      BY <1>1, <1>3
    <3> QED  BY <3>1, Places DEF Continues
  <2>2. Sends(o, b, <<>>, e, Plain(t, d))
    BY <1>1, <1>3, <2>1 DEF FilterInv
  <2>3. x \in Seq(Atom) /\ Plain(t, m) = Plain(t, d) \o x
    BY <1>3, <1>4 DEF Puts
  <2> QED  BY <2>2, <2>3, SendsMore
<1>6. \A t : Continues(t, job.input, Consumed)' =>
               Sends(out, buffer, todo, err, Plain(t, Consumed - Len(sym)))'
  BY <1>1, <1>2, <1>3, <1>4, <1>5
<1>7. Scans(job.input, Consumed, sym, sym_at, sym_start)' /\ Len(sym') < SymbolMax
  BY <1>1, <1>2 DEF Scans
<1>8. Ahead(job.input, Consumed, unread, rest)'
  BY <1>1, <1>2
<1>9. job' \in Job /\ index' \in Nat /\ first' \in Nat /\ first' <= index'
      /\ index' <= Len(job.argv)' /\ err' \in BOOLEAN /\ first' = Len(job.argv)'
      /\ Len(buffer') < OutCap /\ eof' \in BOOLEAN /\ phase' = "input" /\ exit' = "running"
      /\ ~eof'
  BY <1>1, <1>2 DEF FilterInv
<1> QED
  BY <1>6, <1>7, <1>8, <1>9 DEF FilterInv, Scanning, CacheIsRight

(* The cache: whatever there is memory for, it holds answers.              *)
LEMMA Cached ==
  ASSUME CacheIsRight, NEW s, NEW r, Undecorate(s, AnswerOf(s), r)
  PROVE  r = AnswerOf(s) /\ CacheIsRight'
<1>1. CASE Found(s)
  BY <1>1 DEF Undecorate, Found, CacheIsRight
<1>2. CASE ~Found(s)
  <2>1. r = AnswerOf(s)
    BY <1>2 DEF Undecorate
  <2>2. ASSUME NEW a \in {r, NoOutput}, seen' = Bind(s, a) PROVE CacheIsRight'
    BY <2>1, <2>2 DEF Bind, CacheIsRight
  <2>3. seen' \in {Bind(s, r), Bind(s, NoOutput)} \/ UNCHANGED seen
    BY <1>2 DEF Undecorate
  <2>4. UNCHANGED seen => CacheIsRight'
    BY DEF CacheIsRight
  <2> QED  BY <2>1, <2>2, <2>3, <2>4
<1> QED  BY <1>1, <1>2

LEMMA BytesAreText ==
  ASSUME NEW s \in Seq(Byte)
  PROVE  AnswerOf(s) = Undecorated(s)
<1>1. s # <<NoText>>
  <2> SUFFICES ASSUME s = <<NoText>> PROVE FALSE
    OBVIOUS
  <2>1. Len(s) = 1 /\ s[1] = NoText
    OBVIOUS
  <2>2. s[1] \in Byte
    BY <2>1, Places
  <2> QED  BY <2>1, <2>2, FilterAssumption
<1> QED  BY <1>1 DEF AnswerOf

LEMMA StartStep ==
  ASSUME FilterInv, NEW c \in Byte, StartSymbol(c)
  PROVE  FilterInv'
<1>1. /\ Consume(c) /\ sym_start /\ c = "?" /\ sym' = Append(sym, c)
      /\ UNCHANGED <<sym_at, seen, todo>>
  BY DEF StartSymbol, Starts
<1>2. PICK text, n, s, at : text = job.input /\ n = Consumed /\ s = sym /\ at = sym_at
  OBVIOUS
<1>3. /\ phase = "input" /\ todo = <<>> /\ sym_start' = (c \notin Ident)
      /\ n \in Nat /\ n < Len(text) /\ text[n + 1] = c /\ text \in Seq(Byte)
  BY <1>1, <1>2, ConsumedOne DEF Ahead
<1>4. Scans(text, n, s, at, TRUE) /\ at \in BOOLEAN
  <2>1. sym_start = TRUE
    BY <1>1, <1>3 DEF FilterInv, Scanning, Scans
  <2> QED  BY <1>2, <1>3, <2>1 DEF FilterInv, Scanning
<1>5. s = <<>> /\ Scans(text, n + 1, Append(s, "?"), at, FALSE)
  BY <1>1, <1>3, <1>4, ScanStart
<1>6. sym_start' = FALSE
  BY <1>1, <1>3, FilterAssumption
<1>7. Scans(text, n + 1, sym', sym_at', sym_start')
  BY <1>1, <1>2, <1>5, <1>6
<1>8. n + 1 - Len(sym') = n /\ n - Len(sym) = n
  <2>1. Len(s) = 0 /\ Len(sym') = 1
    BY <1>1, <1>2, <1>5
  <2> QED  BY <1>2, <1>3, <2>1
<1>9. Puts(text, n + 1, n, n, <<>>)
  <2>1. n + 1 \in 0..Len(text) /\ n \in 0..(n + 1)
    BY <1>3, Places
  <2> QED  BY <1>3, <2>1, PutsNothing
<1>10. Puts(text, n + 1, n - Len(sym), n + 1 - Len(sym'), todo')
  BY <1>1, <1>3, <1>8, <1>9
<1>11. CacheIsRight'
  BY <1>1 DEF FilterInv, CacheIsRight
<1>12. sym_at' \in BOOLEAN
  BY <1>1, <1>2, <1>4
<1> QED  BY <1>1, <1>2, <1>7, <1>10, <1>11, <1>12, ScannerStep

(* What has been taken of an identifier, with the byte that follows.       *)
LEMMA WithNext ==
  ASSUME NEW text \in Seq(Byte), NEW n \in Nat, n < Len(text),
         NEW s, NEW at, NEW starts, Scans(text, n, s, at, starts)
  PROVE  /\ Append(s, text[n + 1]) \in Seq(Byte)
         /\ Append(s, text[n + 1]) = SubSeq(text, n - Len(s) + 1, n + 1)
<1>1. /\ s \in Seq(Byte) /\ Len(s) \in Nat /\ Len(s) <= n /\ Len(text) \in Nat
      /\ text[n + 1] \in Byte
  BY Places DEF Scans
<1>2. PICK d \in Nat : d = n - Len(s) /\ d <= n /\ n + 1 - d = Len(s) + 1
  <2>1. n - Len(s) \in Nat /\ n - Len(s) <= n /\ n + 1 - (n - Len(s)) = Len(s) + 1
    BY <1>1
  <2> QED  BY <2>1
<1>3. PICK u : u = Append(s, text[n + 1])
  OBVIOUS
<1>4. /\ u \in Seq(Byte) /\ Len(u) = Len(s) + 1
      /\ \A k \in 1..Len(s) : u[k] = s[k]
      /\ u[Len(s) + 1] = text[n + 1]
  BY <1>1, <1>3, AppendedByte
<1>5. d \in 0..(n + 1) /\ n + 1 \in 0..Len(text)
  BY <1>1, <1>2
<1>6. PICK v \in Seq(Byte) : v = SubSeq(text, d + 1, n + 1)
  BY <1>5, Segment
<1>7. Len(v) = Len(s) + 1 /\ \A k \in 1..(Len(s) + 1) : v[k] = text[d + k]
  <2>1. PICK m \in Nat : m = Len(s) + 1
    BY <1>1
  <2>2. m = (n + 1) - d
    BY <1>2, <2>1
  <2>3. Len(v) = m /\ \A k \in 1..m : v[k] = text[d + k]
    BY <1>5, <1>6, <2>2, Segment
  <2> QED  BY <2>1, <2>3
<1>8. \A k \in 1..(Len(s) + 1) : u[k] = text[d + k]
  <2> TAKE k \in 1..(Len(s) + 1)
  <2>1. CASE k \in 1..Len(s)
    BY <1>2, <1>4, <2>1 DEF Scans
  <2>2. CASE k \notin 1..Len(s)
    <3>1. k = Len(s) + 1
      BY <1>1, <2>2
    <3>2. d + (Len(s) + 1) = n + 1
      BY <1>1, <1>2
    <3> QED  BY <1>4, <3>1, <3>2
  <2> QED  BY <2>1, <2>2
<1>9. u = v
  <2>1. PICK m \in Nat : m = Len(s) + 1
    BY <1>1
  <2>2. Len(u) = m /\ Len(v) = m /\ \A k \in 1..m : u[k] = v[k]
    BY <1>4, <1>7, <1>8, <2>1
  <2> QED  BY <1>4, <1>6, <2>2, SeqEqual
<1>10. n - Len(s) + 1 = d + 1
  BY <1>1, <1>2
<1> QED  BY <1>3, <1>4, <1>6, <1>9, <1>10

LEMMA ContinueStep ==
  ASSUME FilterInv, NEW c \in Byte, ContinueSymbol(c)
  PROVE  FilterInv'
<1>1. /\ Consume(c) /\ sym # <<>> /\ c \in Ident /\ UNCHANGED seen
      /\ IF TooLong(Append(sym, c))
         THEN todo' = Verbatim(Append(sym, c)) /\ sym' = <<>> /\ sym_at' = FALSE
         ELSE sym' = Append(sym, c) /\ sym_at' = (sym_at \/ c = "@") /\ UNCHANGED todo
  BY DEF ContinueSymbol
<1>2. PICK text, n, s, at, starts :
        text = job.input /\ n = Consumed /\ s = sym /\ at = sym_at /\ starts = sym_start
  OBVIOUS
<1>3. /\ phase = "input" /\ todo = <<>> /\ sym_start' = FALSE
      /\ n \in Nat /\ n < Len(text) /\ text[n + 1] = c /\ text \in Seq(Byte)
  BY <1>1, <1>2, ConsumedOne DEF Ahead
<1>4. Scans(text, n, s, at, starts) /\ at \in BOOLEAN /\ s # <<>> /\ s \in Seq(Byte)
  BY <1>1, <1>2, <1>3 DEF FilterInv, Scanning, Scans
<1>5. /\ Len(s) \in Nat /\ Len(s) <= n /\ Len(Append(s, c)) = Len(s) + 1 /\ SymbolMax \in Nat
      /\ Len(s) < SymbolMax /\ Len(text) \in Nat
  BY <1>3, <1>4, AppendedByte, Places, FilterAssumption DEF Scans
<1>6. CacheIsRight'
  BY <1>1 DEF FilterInv, CacheIsRight
<1>7. n + 1 \in 0..Len(text) /\ n - Len(s) \in 0..(n + 1)
  BY <1>3, <1>5
<1>8. CASE ~TooLong(Append(sym, c))
  <2>1. Len(s) + 1 < SymbolMax
    BY <1>2, <1>5, <1>8 DEF TooLong
  <2>2. sym' = Append(s, c) /\ sym_at' = (at \/ c = "@") /\ todo' = <<>>
    BY <1>1, <1>2, <1>3, <1>8
  <2>3. Scans(text, n + 1, Append(s, c), at \/ c = "@", FALSE)
    BY <1>1, <1>3, <1>4, <2>1, ScanContinue
  <2>4. Scans(text, n + 1, sym', sym_at', sym_start')
    BY <1>3, <2>2, <2>3
  <2>5. n + 1 - Len(sym') = n - Len(s)
    BY <1>3, <1>5, <2>2
  <2>6. Puts(text, n + 1, n - Len(sym), n + 1 - Len(sym'), todo')
    BY <1>2, <1>3, <1>7, <2>2, <2>5, PutsNothing
  <2>7. sym_at' \in BOOLEAN
    BY <2>2
  <2> QED  BY <1>1, <1>2, <1>6, <2>4, <2>6, <2>7, ScannerStep
<1>9. CASE TooLong(Append(sym, c))
  <2>1. Len(s) + 1 >= SymbolMax
    BY <1>2, <1>5, <1>9 DEF TooLong
  <2>2. sym' = <<>> /\ sym_at' = FALSE /\ todo' = Verbatim(Append(s, c))
    BY <1>1, <1>2, <1>9
  <2>3. /\ Hopeless(text, n + 1)
        /\ \A t : Continues(t, text, n + 1) => AllCopied(t, n - Len(s), n + 1)
    BY <1>1, <1>3, <1>4, <2>1, GiveUp
  <2>4. Scans(text, n + 1, <<>>, FALSE, FALSE)
    <3>1. (n + 1 = 0 \/ text[n + 1] \notin Ident) = FALSE /\ n + 1 \in Nat
      BY <1>1, <1>3
    <3>2. Scans(text, n + 1, <<>>, FALSE, n + 1 = 0 \/ text[n + 1] \notin Ident)
      BY <2>3, <3>1, NoSymbol
    <3> QED  BY <3>1, <3>2
  <2>5. Scans(text, n + 1, sym', sym_at', sym_start')
    BY <1>3, <2>2, <2>4
  <2>6. n + 1 - Len(sym') = n + 1
    BY <1>3, <2>2
  <2>7. Puts(text, n + 1, n - Len(s), n + 1, Verbatim(Append(s, c)))
    <3>1. PICK u \in Seq(Byte) : u = Append(s, c) /\ u = SubSeq(text, n - Len(s) + 1, n + 1)
      BY <1>3, <1>4, WithNext
    <3> QED  BY <1>3, <1>7, <2>3, <3>1, PutsCopies
  <2>8. Puts(text, n + 1, n - Len(sym), n + 1 - Len(sym'), todo')
    BY <1>2, <2>2, <2>6, <2>7
  <2>9. sym_at' \in BOOLEAN
    BY <2>2
  <2> QED  BY <1>1, <1>2, <1>6, <2>5, <2>8, <2>9, ScannerStep
<1> QED  BY <1>8, <1>9

LEMMA PassStep ==
  ASSUME FilterInv, NEW c \in Byte, PassByte(c)
  PROVE  FilterInv'
<1>1. /\ Consume(c) /\ ~(sym_start /\ c = "?") /\ sym = <<>> /\ todo' = <<<<c>>>>
      /\ UNCHANGED <<sym, sym_at, seen>>
  BY DEF PassByte, Starts
<1>2. PICK text, n, at, starts :
        text = job.input /\ n = Consumed /\ at = sym_at /\ starts = sym_start
  OBVIOUS
<1>3. /\ phase = "input" /\ todo = <<>> /\ sym_start' = (c \notin Ident)
      /\ n \in Nat /\ n < Len(text) /\ text[n + 1] = c /\ text \in Seq(Byte)
  BY <1>1, <1>2, ConsumedOne DEF Ahead
<1>4. Scans(text, n, <<>>, at, starts) /\ at = FALSE
  <2>1. Scans(text, n, <<>>, at, starts) /\ at \in BOOLEAN
    BY <1>1, <1>2, <1>3 DEF FilterInv, Scanning
  <2>2. ~at
    BY <2>1 DEF Scans
  <2> QED  BY <2>1, <2>2
<1>5. /\ Hopeless(text, n + 1)
      /\ \A t : Continues(t, text, n + 1) => Copied(t, n + 1)
  BY <1>1, <1>2, <1>3, <1>4, PassCopies
<1>6. Scans(text, n + 1, sym', sym_at', sym_start')
  <2>1. (n + 1 = 0 \/ text[n + 1] \notin Ident) = (c \notin Ident) /\ n + 1 \in Nat
    BY <1>3
  <2>2. Scans(text, n + 1, <<>>, FALSE, n + 1 = 0 \/ text[n + 1] \notin Ident)
    BY <1>5, <2>1, NoSymbol
  <2> QED  BY <1>1, <1>2, <1>3, <1>4, <2>1, <2>2
<1>7. Puts(text, n + 1, n, n + 1, <<<<c>>>>)
  BY <1>3, <1>5, PutsByte
<1>8. n - Len(sym) = n /\ n + 1 - Len(sym') = n + 1
  BY <1>1, <1>3
<1>9. Puts(text, n + 1, n - Len(sym), n + 1 - Len(sym'), todo')
  BY <1>1, <1>7, <1>8
<1>10. CacheIsRight' /\ sym_at' \in BOOLEAN
  BY <1>1, <1>2, <1>4 DEF FilterInv, CacheIsRight
<1> QED  BY <1>1, <1>2, <1>6, <1>9, <1>10, ScannerStep

LEMMA TwoOfThem ==
  ASSUME NEW x, NEW y
  PROVE  <<x>> \o <<y>> = <<x, y>>
<1>1. PICK S : S = {x, y}
  OBVIOUS
<1>2. <<x>> \in Seq(S) /\ <<y>> \in Seq(S) /\ <<x, y>> \in Seq(S) /\ y \in S
  BY <1>1
<1>3. <<x>> \o <<y>> = Append(<<x>>, y)
  BY <1>2, AppendIsConcat
<1>4. PICK u : u = Append(<<x>>, y)
  OBVIOUS
<1>5. u \in Seq(S) /\ Len(u) = 2 /\ u[1] = x /\ u[2] = y
  BY <1>2, <1>4
<1>6. \A k \in 1..2 : u[k] = <<x, y>>[k]
  BY <1>5
<1>7. Len(<<x, y>>) = 2
  OBVIOUS
<1> QED  BY <1>2, <1>3, <1>4, <1>5, <1>6, <1>7, SeqEqual

LEMMA EndStep ==
  ASSUME FilterInv, NEW c \in Byte, EndSymbol(c)
  PROVE  FilterInv'
<1>1. /\ Consume(c) /\ sym # <<>> /\ c \notin Ident /\ sym' = <<>> /\ sym_at' = FALSE
      /\ IF sym_at
         THEN \E r \in {Undecorated(sym)} \cup {seen[k] : k \in DOMAIN seen} :
                Undecorate(sym, Undecorated(sym), r) /\ todo' = <<r, <<c>>>>
         ELSE todo' = Verbatim(Append(sym, c)) /\ UNCHANGED seen
  BY DEF EndSymbol
<1>2. PICK text, n, s, at, starts :
        text = job.input /\ n = Consumed /\ s = sym /\ at = sym_at /\ starts = sym_start
  OBVIOUS
<1>3. /\ phase = "input" /\ todo = <<>> /\ sym_start' = TRUE
      /\ n \in Nat /\ n < Len(text) /\ text[n + 1] = c /\ text \in Seq(Byte)
  BY <1>1, <1>2, ConsumedOne DEF Ahead
<1>4. Scans(text, n, s, at, starts) /\ at \in BOOLEAN /\ s # <<>> /\ s \in Seq(Byte)
  BY <1>1, <1>2, <1>3 DEF FilterInv, Scanning, Scans
<1>5. Len(s) \in Nat /\ Len(s) <= n /\ Len(text) \in Nat
  BY <1>3, <1>4, Places DEF Scans
<1>6. n + 1 \in 0..Len(text) /\ n \in 0..Len(text) /\ n - Len(s) \in 0..(n + 1)
  BY <1>3, <1>5
<1>7. Scans(text, n + 1, sym', sym_at', sym_start')
  <2>1. Hopeless(text, n + 1)
    <3>1. \A b \in 1..(n + 1) : n + 1 \in b..(n + 1)
      BY <1>3
    <3> QED  BY <1>1, <1>3, <3>1 DEF Hopeless
  <2>2. (n + 1 = 0 \/ text[n + 1] \notin Ident) = TRUE /\ n + 1 \in Nat
    BY <1>1, <1>3
  <2>3. Scans(text, n + 1, <<>>, FALSE, n + 1 = 0 \/ text[n + 1] \notin Ident)
    BY <2>1, <2>2, NoSymbol
  <2> QED  BY <1>1, <1>3, <2>2, <2>3
<1>8. n + 1 - Len(sym') = n + 1
  BY <1>1, <1>3
<1>9. ASSUME NEW t, Continues(t, text, n + 1)
      PROVE  Ends(t, s, at, n - Len(s), n) /\ Copied(t, n + 1)
  <2>1. /\ Continues(t, text, n) /\ t \in Seq(Byte) /\ Len(t) \in Nat /\ n + 1 <= Len(t)
        /\ t[n + 1] = c
    <3>1. n + 1 \in 1..(n + 1)
      BY <1>3
    <3> QED  BY <1>3, <1>9, <3>1, Places DEF Continues
  <2>2. Copied(t, n + 1)
    BY <1>1, <2>1 DEF Copied, Decorated
  <2>3. n < Len(t) => t[n + 1] \notin Ident
    BY <1>1, <2>1
  <2>4. Ends(t, s, at, n - Len(s), n)
    BY <1>3, <1>4, <1>6, <2>1, <2>3, EndDecides
  <2> QED  BY <2>2, <2>4
<1>10. CASE at
  <2>1. PICK r : Undecorate(sym, Undecorated(sym), r) /\ todo' = <<r, <<c>>>>
    BY <1>1, <1>2, <1>10
  <2>2. CacheIsRight' /\ r = Undecorated(s)
    BY <1>2, <1>4, <2>1, Cached, BytesAreText DEF FilterInv, CacheIsRight
  <2>3. PICK b \in 1..n : b = n - Len(s) + 1 /\ b - 1 = n - Len(s)
    <3>1. Continues(text, text, n + 1)
      BY <1>3, <1>6 DEF Continues
    <3>2. n - Len(s) + 1 \in 1..n
      BY <1>9, <3>1 DEF Ends
    <3>3. (n - Len(s) + 1) - 1 = n - Len(s)
      BY <1>3, <1>5
    <3> QED  BY <3>2, <3>3
  <2>4. Puts(text, n + 1, n - Len(s), n, <<Undecorated(s)>>)
    <3>1. n \in 1..(n + 1) /\ b \in 1..n
      BY <1>3, <2>3
    <3>2. \A t : Continues(t, text, n + 1) => Decorated(t, b, n) /\ SubSeq(t, b, n) = s
      BY <1>9, <1>10, <2>3 DEF Ends
    <3>3. Puts(text, n + 1, b - 1, n, <<Undecorated(s)>>)
      BY <1>3, <1>4, <1>6, <3>1, <3>2, PutsSymbol
    <3> QED  BY <2>3, <3>3
  <2>5. Puts(text, n + 1, n, n + 1, <<<<c>>>>)
    BY <1>3, <1>9, PutsByte
  <2>6. Puts(text, n + 1, n - Len(s), n + 1, <<Undecorated(s)>> \o <<<<c>>>>)
    BY <1>3, <2>4, <2>5, PutsBoth
  <2>7. <<Undecorated(s)>> \o <<<<c>>>> = <<Undecorated(s), <<c>>>>
    <3>1. PICK x, y : x = Undecorated(s) /\ y = <<c>>
      OBVIOUS
    <3>2. <<x>> \o <<y>> = <<x, y>>
      BY TwoOfThem
    <3> QED  BY <3>1, <3>2
  <2>8. Puts(text, n + 1, n - Len(sym), n + 1 - Len(sym'), todo')
    BY <1>2, <1>8, <2>1, <2>2, <2>6, <2>7
  <2>9. sym_at' \in BOOLEAN
    BY <1>1
  <2> QED  BY <1>1, <1>2, <1>7, <2>2, <2>8, <2>9, ScannerStep
<1>11. CASE ~at
  <2>1. todo' = Verbatim(Append(s, c)) /\ UNCHANGED seen
    BY <1>1, <1>2, <1>11
  <2>2. \A t : Continues(t, text, n + 1) => AllCopied(t, n - Len(s), n + 1)
    <3>1. \A i \in (n - Len(s) + 1)..(n + 1) : i \in (n - Len(s) + 1)..n \/ i = n + 1
      BY <1>3, <1>5
    <3> QED  BY <1>9, <1>11, <3>1 DEF AllCopied, Ends
  <2>3. PICK u \in Seq(Byte) : u = Append(s, c) /\ u = SubSeq(text, n - Len(s) + 1, n + 1)
    BY <1>3, <1>4, WithNext
  <2>4. Puts(text, n + 1, n - Len(s), n + 1, Verbatim(u))
    BY <1>3, <1>6, <2>2, <2>3, PutsCopies
  <2>5. Puts(text, n + 1, n - Len(sym), n + 1 - Len(sym'), todo')
    BY <1>2, <1>8, <2>1, <2>3, <2>4
  <2>6. CacheIsRight' /\ sym_at' \in BOOLEAN
    BY <1>1, <2>1 DEF FilterInv, CacheIsRight
  <2> QED  BY <1>1, <1>2, <1>7, <2>5, <2>6, ScannerStep
<1> QED  BY <1>4, <1>10, <1>11

LEMMA FilteredIsPlain ==
  ASSUME NEW text \in Seq(Byte)
  PROVE  Filtered(text) = Plain(text, Len(text))
BY Places DEF Filtered, Plain

LEMMA EndInputStep ==
  ASSUME FilterInv, EndInput
  PROVE  FilterInv'
<1>1. /\ phase = "input" /\ exit = "running" /\ todo = <<>> /\ eof /\ phase' = "flush"
      /\ UNCHANGED <<job, index, first, rest, unread, eof, sym, sym_at, sym_start, buffer, out, err, exit>>
      /\ IF sym_at
         THEN \E r \in {Undecorated(sym)} \cup {seen[k] : k \in DOMAIN seen} :
                Undecorate(sym, Undecorated(sym), r) /\ todo' = <<r>>
         ELSE todo' = Verbatim(sym) /\ UNCHANGED seen
  BY DEF EndInput, Ready, options, input, scanner, output
<1>2. PICK text, n, s, at, starts, r0 :
        /\ text = job.input /\ n = Consumed /\ s = sym /\ at = sym_at /\ starts = sym_start
        /\ r0 = rest
  OBVIOUS
<1>3. /\ Scans(text, n, s, at, starts) /\ at \in BOOLEAN /\ s \in Seq(Byte)
      /\ unread = <<>> /\ Ahead(text, n, <<>>, r0)
  BY <1>1, <1>2 DEF FilterInv, Scanning, Scans
<1>4. /\ text \in Seq(Byte) /\ n \in Nat /\ Len(r0) \in Nat /\ Len(text) \in Nat /\ n + Len(r0) = Len(text)
      /\ Len(s) \in Nat /\ Len(s) <= n
  <2>1. /\ text \in Seq(Byte) /\ n \in Nat /\ r0 \in Seq(Byte)
        /\ n + (Len(<<>>) + Len(r0)) = Len(text) /\ Len(<<>>) = 0
    BY <1>3 DEF Ahead
  <2> QED  BY <1>3, <2>1, Places DEF Scans
<1>5. PICK t : t = Taken
  OBVIOUS
<1>6. t \in Seq(Byte) /\ Len(t) = n /\ Continues(t, text, n)
  <2>1. n \in 0..Len(text) /\ 0 \in 0..n /\ Len(text) - Len(r0) = n
    BY <1>4
  <2>2. t = SubSeq(text, 0 + 1, n)
    BY <1>2, <1>5, <2>1 DEF Taken
  <2>3. t \in Seq(Byte) /\ Len(t) = n - 0 /\ \A k \in 1..(n - 0) : t[k] = text[0 + k]
    BY <1>4, <2>1, <2>2, Segment
  <2> QED  BY <1>4, <2>3 DEF Continues
<1>7. PICK d \in 0..n : d = n - Len(s)
  <2>1. n - Len(s) \in 0..n
    BY <1>4
  <2> QED  BY <2>1
<1>8. Sends(out, buffer, <<>>, err, Plain(t, d))
  BY <1>1, <1>2, <1>6, <1>7 DEF FilterInv
<1>9. Complete' = Plain(t, n)
  <2>1. Complete' = Filtered(t)
    <3>1. ~(Len(job.argv) > first) /\ Len(job.argv) \in Nat
      BY <1>1 DEF FilterInv
    <3>2. Complete' = IF Len(job.argv) > first THEN Answers' ELSE Filtered(Taken')
      BY <1>1 DEF Complete
    <3>3. Taken' = Taken
      BY <1>1 DEF Taken
    <3> QED  BY <1>5, <3>1, <3>2, <3>3
  <2> QED  BY <1>6, <2>1, FilteredIsPlain
<1>10. PICK b : b = Between(t, d, n)
  OBVIOUS
<1>11. b \in Seq(Atom) /\ Plain(t, n) = Plain(t, d) \o b
  <2>1. n \in 0..Len(t)
    BY <1>4, <1>6
  <2> QED  BY <1>6, <1>7, <1>10, <2>1, PlainSplit
<1>12. todo' = b /\ CacheIsRight'
  <2>1. CASE s = <<>>
    <3>1. ~at /\ Len(s) = 0
      BY <1>3, <2>1 DEF Scans
    <3>2. todo' = Verbatim(<<>>) /\ UNCHANGED seen
      BY <1>1, <1>2, <2>1, <3>1
    <3>3. d = n
      BY <1>4, <1>7, <3>1
    <3>4. b = Verbatim(SubSeq(t, n + 1, n))
      <4>1. n \in 0..Len(t) /\ n \in 0..n /\ \A i \in (n + 1)..n : Copied(t, i)
        BY <1>4, <1>6
      <4> QED  BY <1>6, <1>10, <3>3, <4>1, BetweenCopied
    <3>5. SubSeq(t, n + 1, n) = <<>>
      <4>1. n + 1 \in Int /\ n \in Int /\ n < n + 1
        BY <1>4
      <4> QED  BY <4>1, SubSeqEmpty
    <3> QED  BY <3>2, <3>4, <3>5 DEF FilterInv, CacheIsRight
  <2>2. CASE s # <<>> /\ at
    <3>1. PICK r : Undecorate(sym, Undecorated(sym), r) /\ todo' = <<r>>
      BY <1>1, <1>2, <2>2
    <3>2. CacheIsRight' /\ r = Undecorated(s)
      BY <1>2, <1>3, <3>1, Cached, BytesAreText DEF FilterInv, CacheIsRight
    <3>3. Ends(t, s, at, d, n)
      <4>1. n \in 0..Len(text) /\ ~(n < Len(t))
        BY <1>4, <1>6
      <4> QED  BY <1>3, <1>4, <1>6, <1>7, <2>2, <4>1, EndDecides
    <3>4. d + 1 \in 1..n /\ (d + 1) - 1 = d
      BY <1>7, <3>3 DEF Ends
    <3>5. PICK e \in 1..n : e = d + 1 /\ e - 1 = d
      BY <3>4
    <3>6. n \in 1..Len(t) /\ Decorated(t, e, n) /\ SubSeq(t, e, n) = s
      BY <2>2, <3>3, <3>5 DEF Ends
    <3>7. Between(t, e - 1, n) = <<Undecorated(SubSeq(t, e, n))>>
      BY <1>6, <3>6, BetweenSymbol
    <3> QED  BY <1>10, <3>1, <3>2, <3>5, <3>6, <3>7
  <2>3. CASE s # <<>> /\ ~at
    <3>1. todo' = Verbatim(s) /\ UNCHANGED seen
      BY <1>1, <1>2, <2>3
    <3>2. AllCopied(t, d, n) /\ SubSeq(t, d + 1, n) = s
      <4>1. n \in 0..Len(text) /\ ~(n < Len(t))
        BY <1>4, <1>6
      <4>2. Ends(t, s, at, d, n)
        BY <1>3, <1>4, <1>6, <1>7, <2>3, <4>1, EndDecides
      <4> QED  BY <2>3, <4>2 DEF Ends
    <3>3. b = Verbatim(SubSeq(t, d + 1, n))
      <4>1. n \in 0..Len(t) /\ \A i \in (d + 1)..n : Copied(t, i)
        BY <1>4, <1>6, <1>7, <3>2 DEF AllCopied
      <4> QED  BY <1>6, <1>10, <4>1, BetweenCopied
    <3> QED  BY <1>7, <3>1, <3>2, <3>3 DEF FilterInv, CacheIsRight
  <2> QED  BY <1>3, <2>1, <2>2, <2>3
<1>13. Sends(out, buffer, todo, err, Complete)'
  <2>1. PICK o, f, e : o = out /\ f = buffer /\ e = err
    OBVIOUS
  <2>2. Sends(o, f, b, e, Plain(t, d) \o b)
    BY <1>8, <1>11, <2>1, SendsMore
  <2> QED  BY <1>1, <1>9, <1>11, <1>12, <2>1, <2>2
<1>14. Consumed' = Consumed
  BY <1>1 DEF Consumed
<1> QED  BY <1>1, <1>12, <1>13, <1>14 DEF FilterInv, Scanning, CacheIsRight

LEMMA ReadAhead ==
  ASSUME NEW text, NEW n, NEW r, Ahead(text, n, <<>>, r), NEW k \in 1..Len(r)
  PROVE  /\ Ahead(text, n, SubSeq(r, 1, k), SubSeq(r, k + 1, Len(r)))
         /\ Len(SubSeq(r, k + 1, Len(r))) + Len(SubSeq(r, 1, k)) = Len(r)
<1>1. /\ text \in Seq(Byte) /\ r \in Seq(Byte) /\ n \in Nat /\ n + (0 + Len(r)) = Len(text)
      /\ \A i \in 1..Len(r) : r[i] = text[n + 0 + i]
  <2>1. Len(<<>>) = 0
    OBVIOUS
  <2> QED  BY <2>1 DEF Ahead
<1>2. PICK m \in Nat : m = Len(r)
  BY <1>1, Places
<1>3. k \in 1..m /\ k \in 0..m /\ 0 \in 0..k /\ m \in 0..m /\ n + m = Len(text) /\ k \in Nat
  BY <1>1, <1>2
<1>4. PICK x \in Seq(Byte) : x = SubSeq(r, 0 + 1, k)
  BY <1>1, <1>2, <1>3, Segment
<1>5. PICK y \in Seq(Byte) : y = SubSeq(r, k + 1, m)
  BY <1>1, <1>2, <1>3, Segment
<1>6. Len(x) = k /\ \A i \in 1..k : x[i] = r[i]
  <2>1. Len(x) = k - 0 /\ \A i \in 1..(k - 0) : x[i] = r[0 + i]
    BY <1>1, <1>2, <1>3, <1>4, Segment
  <2> QED  BY <1>3, <2>1
<1>7. Len(y) = m - k /\ \A i \in 1..(m - k) : y[i] = r[k + i]
  BY <1>1, <1>2, <1>3, <1>5, Segment
<1>8. n + (k + (m - k)) = Len(text) /\ (m - k) + k = m
  <2>1. k + (m - k) = m /\ (m - k) + k = m
    BY <1>3
  <2> QED  BY <1>3, <2>1
<1>9. \A i \in 1..k : x[i] = text[n + i]
  <2> TAKE i \in 1..k
  <2>1. i \in 1..m /\ n + 0 + i = n + i
    BY <1>1, <1>3
  <2> QED  BY <1>1, <1>2, <1>6, <2>1
<1>10. \A i \in 1..(m - k) : y[i] = text[n + k + i]
  <2> TAKE i \in 1..(m - k)
  <2>1. k + i \in 1..m /\ n + 0 + (k + i) = n + k + i
    BY <1>1, <1>3
  <2> QED  BY <1>1, <1>2, <1>7, <2>1
<1>11. Ahead(text, n, x, y)
  BY <1>1, <1>6, <1>7, <1>8, <1>9, <1>10 DEF Ahead
<1>12. x = SubSeq(r, 1, k) /\ y = SubSeq(r, k + 1, Len(r))
  BY <1>2, <1>4, <1>5
<1> QED  BY <1>2, <1>6, <1>7, <1>8, <1>11, <1>12

LEMMA ReadStep ==
  ASSUME FilterInv, ReadFile
  PROVE  FilterInv'
<1>1. /\ phase = "input" /\ exit = "running" /\ todo = <<>> /\ unread = <<>>
      /\ UNCHANGED <<job, index, first, phase, sym, sym_at, sym_start, seen, todo,
                     buffer, out, err, exit>>
      /\ \/ \E k \in 1..Len(rest) :
              /\ unread' = SubSeq(rest, 1, k)
              /\ rest' = SubSeq(rest, k + 1, Len(rest))
              /\ UNCHANGED eof
         \/ eof' = TRUE /\ UNCHANGED <<rest, unread>>
      /\ ~eof
  BY DEF ReadFile, Ready, options, scanner, output
<1>2. PICK text, n, r : text = job.input /\ n = Consumed /\ r = rest
  OBVIOUS
<1>3. Ahead(text, n, <<>>, r)
  BY <1>1, <1>2 DEF FilterInv
<1>4. Ahead(text, n, unread', rest') /\ Consumed' = n /\ eof' \in BOOLEAN
      /\ (eof' => unread' = <<>>)
  <2>1. CASE eof' = TRUE /\ UNCHANGED <<rest, unread>>
    BY <1>1, <1>2, <1>3, <2>1 DEF Consumed
  <2>2. ASSUME NEW k \in 1..Len(rest), unread' = SubSeq(rest, 1, k),
               rest' = SubSeq(rest, k + 1, Len(rest)), UNCHANGED eof
        PROVE  Ahead(text, n, unread', rest') /\ Consumed' = n
    <3>1. Ahead(text, n, unread', rest') /\ Len(rest') + Len(unread') = Len(r)
      BY <1>2, <1>3, <2>2, ReadAhead
    <3>2. Consumed = Len(text) - (Len(r) + 0) /\ Len(r) \in Nat
      BY <1>1, <1>2, <1>3, Places DEF Consumed, Ahead
    <3>3. Consumed' = Len(text) - Len(r)
      BY <1>1, <1>2, <3>1 DEF Consumed
    <3> QED  BY <1>2, <3>1, <3>2, <3>3
  <2>3. ASSUME UNCHANGED eof PROVE eof' \in BOOLEAN /\ ~eof'
    BY <1>1, <2>3 DEF FilterInv
  <2>4. Ahead(text, n, unread', rest') /\ Consumed' = n
    BY <1>1, <2>1, <2>2
  <2>5. eof' \in BOOLEAN /\ (eof' => unread' = <<>>)
    BY <1>1, <2>3
  <2> QED  BY <2>4, <2>5
<1>5. Ahead(job.input, Consumed, unread, rest)'
  BY <1>1, <1>2, <1>4
<1>6. Scans(job.input, Consumed, sym, sym_at, sym_start)' /\ sym_at' \in BOOLEAN
  BY <1>1, <1>2, <1>4 DEF FilterInv, Scanning
<1>7. \A t : Continues(t, job.input, Consumed)' =>
               Sends(out, buffer, todo, err, Plain(t, Consumed - Len(sym)))'
  BY <1>1, <1>2, <1>4 DEF FilterInv
<1> QED  BY <1>1, <1>4, <1>5, <1>6, <1>7 DEF FilterInv, Scanning

-----------------------------------------------------------------------------
(* Steps of the command line.                                              *)

LEMMA AnswersKept ==
  ASSUME UNCHANGED <<job, first>>, NEW n
  PROVE  AnswersUpTo(n)' = AnswersUpTo(n)
<1>1. \A i \in 1..n : Answer(first + i)' = Answer(first + i)
  BY DEF Answer
<1>2. [i \in 1..n |-> Answer(first + i)]' = [i \in 1..n |-> Answer(first + i)]
  BY <1>1
<1> QED  BY <1>2 DEF AnswersUpTo

LEMMA NoAnswers == AnswersUpTo(0) = <<>>
<1>1. [i \in 1..0 |-> Answer(first + i)] = <<>>
  OBVIOUS
<1> QED  BY <1>1, FlattenEmpty DEF AnswersUpTo

(* The symbol s is converted before it is looked up.                       *)
Converted(s) == IF Len(s) < SymbolMax THEN s ELSE <<NoText>>

LEMMA AnswerType ==
  ASSUME job \in Job, NEW i \in 1..Len(job.argv)
  PROVE  /\ job.argv[i].sym \in Seq(Byte)
         /\ Answer(i) = <<AnswerOf(Converted(job.argv[i].sym)), <<Newline>>>>
         /\ Answer(i) \in Seq(Atom)
<1>1. job.argv \in Seq(Argument)
  BY DEF Job
<1>2. job.argv[i] \in Argument
  BY <1>1, ElementOfSeq
<1>3. PICK s \in Seq(Byte) : s = job.argv[i].sym
  <2>1. <<>> \in Seq(Byte)
    OBVIOUS
  <2> QED  BY <1>2, <2>1 DEF Argument
<1>4. (IF Len(s) < SymbolMax THEN Undecorated(s) ELSE Unspecified) = AnswerOf(Converted(s))
  BY BytesAreText DEF Converted, AnswerOf
<1>5. Answer(i) = <<AnswerOf(Converted(s)), <<Newline>>>>
  BY <1>3, <1>4 DEF Answer
<1>6. PICK a \in Atom : a = AnswerOf(Converted(s))
  <2>1. AnswerOf(Converted(s)) \in Atom
    BY <1>4, Atoms
  <2> QED  BY <2>1
<1>7. PICK b \in Atom : b = <<Newline>>
  <2>1. <<Newline>> \in Atom
    BY Atoms, FilterAssumption DEF Byte
  <2> QED  BY <2>1
<1>8. <<a, b>> \in Seq(Atom)
  OBVIOUS
<1> QED  BY <1>3, <1>5, <1>6, <1>7, <1>8

(* One more answer.                                                        *)
LEMMA AnswersGrow ==
  ASSUME job \in Job, first \in Nat, NEW n \in Nat, first + n < Len(job.argv)
  PROVE  AnswersUpTo(n + 1) = AnswersUpTo(n) \o Answer((first + n) + 1)
<1>1. PICK m : m = n + 1
  OBVIOUS
<1> DEFINE f == [i \in 1..m |-> Answer(first + i)]
           g == [i \in 1..n |-> Answer(first + i)]
<1>2. Len(job.argv) \in Nat
  BY LenProperties DEF Job
<1>3. \A i \in 1..m : first + i \in 1..Len(job.argv)
  BY <1>1, <1>2
<1>4. f \in [1..m -> Seq(Atom)]
  BY <1>3, AnswerType
<1>5. \A i \in 1..n : i \in 1..m
  BY <1>1
<1>6. g \in [1..n -> Seq(Atom)]
  BY <1>3, <1>5, AnswerType
<1>7. \A i \in 1..n : g[i] = f[i]
  BY <1>5
<1>8. f[m] = Answer((first + n) + 1)
  <2>1. m \in 1..m /\ first + m = (first + n) + 1
    BY <1>1
  <2> QED  BY <2>1
<1>9. FlattenSeq(f) = FlattenSeq(g) \o f[m]
  <2> HIDE DEF f, g
  <2>1. OneMore(f, m, g, n, Atom)
    BY <1>1, <1>4, <1>6, <1>7 DEF OneMore
  <2> QED  BY <2>1, FlattenGrows
<1>10. AnswersUpTo(m) = FlattenSeq(f) /\ AnswersUpTo(n) = FlattenSeq(g)
  BY DEF AnswersUpTo
<1> QED  BY <1>1, <1>8, <1>9, <1>10

LEMMA AnswerStep ==
  ASSUME FilterInv, AnswerSymbol
  PROVE  FilterInv'
<1>1. PICK i, s, k : i = index + 1 /\ s = job.argv[index + 1].sym /\ k = index - first
  OBVIOUS
<1>2. PICK r : /\ Undecorate(Converted(s), IF Len(s) < SymbolMax THEN Undecorated(s)
                                           ELSE Unspecified, r)
               /\ todo' = <<r, <<Newline>>>>
  BY <1>1 DEF AnswerSymbol, Converted
<1>3. /\ phase = "symbols" /\ exit = "running" /\ todo = <<>> /\ index < Len(job.argv)
      /\ index' = index + 1
      /\ UNCHANGED <<job, first, phase, rest, unread, eof, sym, sym_at, sym_start,
                     buffer, out, err, exit>>
  BY DEF AnswerSymbol, Ready, input, scanner, output
<1>4. job \in Job /\ Len(job.argv) \in Nat /\ index \in Nat /\ first \in Nat /\ first <= index
  BY LenProperties DEF FilterInv, Job
<1>5. i \in 1..Len(job.argv) /\ k \in Nat /\ first + k < Len(job.argv) /\ (first + k) + 1 = i
      /\ index' - first' = k + 1
  BY <1>1, <1>3, <1>4
<1>6. /\ s \in Seq(Byte) /\ Answer(i) = <<AnswerOf(Converted(s)), <<Newline>>>>
      /\ Answer(i) \in Seq(Atom)
  BY <1>1, <1>4, <1>5, AnswerType
<1>7. r = AnswerOf(Converted(s)) /\ CacheIsRight'
  <2>1. (IF Len(s) < SymbolMax THEN Undecorated(s) ELSE Unspecified) = AnswerOf(Converted(s))
    BY <1>6, BytesAreText DEF Converted, AnswerOf
  <2> QED  BY <1>2, <2>1, Cached DEF FilterInv, CacheIsRight
<1>8. todo' = Answer(i)
  BY <1>2, <1>6, <1>7
<1>9. AnswersUpTo(k + 1)' = AnswersUpTo(k) \o Answer(i)
  <2>1. AnswersUpTo(k + 1)' = AnswersUpTo(k + 1)
    BY <1>3, AnswersKept
  <2> QED  BY <1>4, <1>5, <2>1, AnswersGrow
<1>10. Sends(out, buffer, todo, err, AnswersUpTo(index - first))'
  <2>1. PICK a, o, b, e, x :
          /\ a = AnswersUpTo(k) /\ o = out /\ b = buffer /\ e = err /\ x = Answer(i)
    OBVIOUS
  <2>2. Sends(o, b, <<>>, e, a)
    BY <1>1, <1>3, <2>1 DEF FilterInv
  <2>3. Sends(o, b, x, e, a \o x)
    BY <1>6, <2>1, <2>2, SendsMore
  <2> QED  BY <1>3, <1>5, <1>8, <1>9, <2>1, <2>3
<1>11. Consumed' = Consumed
  BY <1>3 DEF Consumed
<1>12. /\ index' \in Nat /\ first' \in Nat /\ first' <= index' /\ index' <= Len(job.argv)'
  BY <1>3, <1>4
<1>13. Scans(job.input, Consumed, sym, sym_at, sym_start)' /\ sym_at' \in BOOLEAN
  BY <1>3, <1>11 DEF FilterInv, Scanning
<1>14. Ahead(job.input, Consumed, unread, rest)'
  BY <1>3, <1>11 DEF FilterInv
<1> QED
  BY <1>3, <1>7, <1>10, <1>11, <1>12, <1>13, <1>14 DEF FilterInv, Scanning, CacheIsRight

LEMMA LettersStep ==
  ASSUME FilterInv, ParseLetters
  PROVE  FilterInv'
<1>1. /\ phase = "options" /\ exit = "running" /\ todo = <<>> /\ index < Len(job.argv)
      /\ index' = index + 1
      /\ UNCHANGED <<job, first, phase, rest, unread, eof, sym, sym_at, sym_start, seen, todo,
                     buffer, out, err, exit>>
  BY DEF ParseLetters, Ready, input, scanner, output
<1>2. Consumed' = Consumed
  BY <1>1 DEF Consumed
<1>3. Len(job.argv) \in Nat
  BY LenProperties DEF FilterInv, Job
<1>4. /\ index' \in Nat /\ first' \in Nat /\ first' <= index' /\ index' <= Len(job.argv)'
  BY <1>1, <1>3 DEF FilterInv
<1> QED  BY <1>1, <1>2, <1>4 DEF FilterInv, Scanning

(* Neither what is due nor what is left of the input changes.              *)
LEMMA DueKept ==
  ASSUME UNCHANGED <<job, index, first, rest, unread>>
  PROVE  /\ Consumed' = Consumed /\ Complete' = Complete
         /\ \A n : AnswersUpTo(n)' = AnswersUpTo(n)
<1>1. Consumed' = Consumed
  BY DEF Consumed
<1>2. Taken' = Taken
  BY DEF Taken
<1>3. \A n : AnswersUpTo(n)' = AnswersUpTo(n)
  BY AnswersKept
<1>4. Answers' = Answers
  <2>1. PICK n : n = Len(job.argv) - first
    OBVIOUS
  <2>2. Answers = AnswersUpTo(n) /\ Answers' = AnswersUpTo(n)'
    BY <2>1 DEF Answers, AnswersUpTo
  <2> QED  BY <1>3, <2>2
<1> QED  BY <1>1, <1>2, <1>3, <1>4 DEF Complete

LEMMA LeaveStep ==
  ASSUME FilterInv, ParseLeave \/ Leave
  PROVE  FilterInv'
<1>1. /\ exit = "running"
      /\ UNCHANGED <<job, index, first, phase, rest, unread, eof, sym, sym_at, sym_start, seen,
                     todo, buffer, out, err>>
      /\ \/ phase = "options"
         \/ phase = "ended" /\ exit' = IF err THEN "failure" ELSE "success"
  BY DEF ParseLeave, Leave, Ready, options, input, scanner, output
<1>2. Consumed' = Consumed
  BY <1>1 DEF Consumed
<1>3. Complete' = Complete
  BY <1>1, DueKept
<1>4. /\ exit' = "success" => phase = "options" \/ (phase = "ended" /\ ~err)
      /\ exit' = "failure" => phase = "options" \/ err
  BY <1>1
<1>5. phase = "options" => ~(phase \in {"flush", "ended"}) /\ phase # "input" /\ phase # "symbols"
  OBVIOUS
<1>6. phase = "ended" => ~Scanning /\ phase # "input" /\ phase # "symbols" /\ phase # "options"
  BY DEF Scanning
<1>7. CASE phase = "options"
  BY <1>1, <1>2, <1>4, <1>5, <1>7 DEF FilterInv, Scanning
<1>8. CASE phase = "ended"
  BY <1>1, <1>2, <1>3, <1>4, <1>6, <1>8 DEF FilterInv, Scanning
<1> QED  BY <1>1, <1>7, <1>8

LEMMA OptionsStep ==
  ASSUME FilterInv, EndOptions
  PROVE  FilterInv'
<1>1. /\ phase = "options" /\ exit = "running" /\ todo = <<>> /\ phase' = "symbols"
      /\ index' = IF index < Len(job.argv) /\ job.argv[index + 1].kind = "--" THEN index + 1
                  ELSE index
      /\ first' = index'
      /\ UNCHANGED <<job, rest, unread, eof, sym, sym_at, sym_start, seen, todo,
                     buffer, out, err, exit>>
  BY DEF EndOptions, Ready, input, scanner, output
<1>2. Consumed' = Consumed
  BY <1>1 DEF Consumed
<1>3. Len(job.argv) \in Nat
  BY LenProperties DEF FilterInv, Job
<1>4. index' \in Nat /\ index' <= Len(job.argv)' /\ index' - first' = 0 /\ first' <= index'
      /\ first' \in Nat
  <2>1. index \in Nat /\ index <= Len(job.argv)
    BY DEF FilterInv
  <2>2. index' \in Nat /\ index' <= Len(job.argv)
    BY <1>1, <1>3, <2>1
  <2> QED  BY <1>1, <2>2
<1>5. Sends(out, buffer, todo, err, AnswersUpTo(index - first))'
  <2>1. Sends(out, buffer, todo, err, <<>>)'
    BY <1>1 DEF FilterInv
  <2>2. AnswersUpTo(0)' = <<>>
    <3>1. [i \in 1..0 |-> Answer(first + i)]' = <<>>
      OBVIOUS
    <3> QED  BY <3>1, FlattenEmpty DEF AnswersUpTo
  <2> QED  BY <1>4, <2>1, <2>2
<1>6. Scans(job.input, Consumed, sym, sym_at, sym_start)' /\ sym_at' \in BOOLEAN
  BY <1>1, <1>2 DEF FilterInv, Scanning
<1>7. Ahead(job.input, Consumed, unread, rest)'
  BY <1>1, <1>2 DEF FilterInv
<1> QED  BY <1>1, <1>2, <1>4, <1>5, <1>6, <1>7 DEF FilterInv, Scanning

LEMMA NothingPlain ==
  ASSUME NEW t
  PROVE  Plain(t, 0) = <<>>
<1>1. [i \in 1..0 |-> Rewritten(t, i)] = <<>>
  OBVIOUS
<1> QED  BY <1>1, FlattenEmpty DEF Plain

LEMMA SymbolsStep ==
  ASSUME FilterInv, EndSymbols
  PROVE  FilterInv'
<1>1. /\ phase = "symbols" /\ exit = "running" /\ todo = <<>> /\ index = Len(job.argv)
      /\ phase' = IF index > first THEN "flush" ELSE "input"
      /\ UNCHANGED <<job, index, first, rest, unread, eof, sym, sym_at, sym_start, seen, todo,
                     buffer, out, err, exit>>
  BY DEF EndSymbols, Ready, options, input, scanner, output
<1>2. Consumed' = 0 /\ Consumed = 0
  BY <1>1 DEF Consumed, FilterInv
<1>3. index \in Nat /\ first \in Nat /\ first <= index /\ Len(job.argv)' = Len(job.argv)
  BY <1>1 DEF FilterInv
<1>4. Sends(out, buffer, todo, err, AnswersUpTo(index - first))
  BY <1>1 DEF FilterInv
<1>5. CASE index > first
  <2>1. Complete' = AnswersUpTo(index - first)
    <3>1. Complete' = Answers'
      BY <1>1, <1>5 DEF Complete
    <3>2. Answers' = AnswersUpTo(index - first)'
      BY <1>1 DEF Answers, AnswersUpTo
    <3>3. PICK n : n = index - first
      OBVIOUS
    <3>4. AnswersUpTo(n)' = AnswersUpTo(n)
      BY <1>1, AnswersKept
    <3>5. AnswersUpTo(index - first)' = AnswersUpTo(n)'
      BY <1>1, <3>3
    <3> QED  BY <3>1, <3>2, <3>3, <3>4, <3>5
  <2>2. Sends(out, buffer, todo, err, Complete)'
    BY <1>1, <1>4, <2>1
  <2>3. phase' = "flush" /\ ~Scanning'
    BY <1>1, <1>5 DEF Scanning
  <2>4. Ahead(job.input, Consumed, unread, rest)'
    BY <1>1, <1>2 DEF FilterInv
  <2> QED  BY <1>1, <1>3, <2>2, <2>3, <2>4 DEF FilterInv
<1>6. CASE ~(index > first)
  <2>1. index - first = 0 /\ first = index /\ phase' = "input"
    BY <1>1, <1>3, <1>6
  <2>2. Sends(out, buffer, todo, err, <<>>)
    BY <1>4, <2>1, NoAnswers
  <2>3. Consumed' - Len(sym') = 0
    <3>1. sym' = <<>> /\ Len(<<>>) = 0
      BY <1>1 DEF FilterInv
    <3>2. Consumed' = 0 /\ Len(sym') = 0
      BY <1>2, <3>1
    <3> QED  BY <3>2
  <2>4. \A t : Continues(t, job.input, Consumed)' =>
                 Sends(out, buffer, todo, err, Plain(t, Consumed - Len(sym)))'
    BY <1>1, <2>2, <2>3, NothingPlain
  <2>5. Scans(job.input, Consumed, sym, sym_at, sym_start)' /\ sym_at' \in BOOLEAN
    BY <1>1, <1>2 DEF FilterInv, Scanning
  <2>6. Ahead(job.input, Consumed, unread, rest)'
    BY <1>1, <1>2 DEF FilterInv
  <2> QED  BY <1>1, <1>3, <2>1, <2>4, <2>5, <2>6 DEF FilterInv
<1> QED  BY <1>5, <1>6

-----------------------------------------------------------------------------
(* Steps of the output buffer.                                             *)

LEMMA WriteSends ==
  ASSUME FilterInv, WriteByte, NEW due, Sends(out, buffer, todo, err, due)
  PROVE  Sends(out, buffer, todo, err, due)'
<1> SUFFICES Sends(out', buffer', todo', err', due)
  OBVIOUS
<1>1. PICK o, b, t, e : o = out /\ b = buffer /\ t = todo /\ e = err
  OBVIOUS
<1>2. Sends(o, b, t, e, due) /\ e \in BOOLEAN /\ t # <<>>
  BY <1>1 DEF FilterInv, WriteByte
<1>3. CASE e
  <2>1. todo' = <<>> /\ out' = o /\ buffer' = b /\ err' = e
    BY <1>1, <1>3 DEF WriteByte, output
  <2>2. Sends(o, b, <<>>, e, due)
    <3>1. <<>> \in Seq(Atom)
      OBVIOUS
    <3> QED  BY <1>2, <1>3, <3>1 DEF Sends
  <2> QED  BY <2>1, <2>2
<1>4. CASE ~e
  <2>1. PICK c : c = Append(b, Head(t))
    OBVIOUS
  <2>2. e = FALSE
    BY <1>2, <1>4
  <2>3. Sends(o, c, Tail(t), FALSE, due)
    BY <1>2, <2>1, <2>2, SendsOn
  <2>4. /\ todo' = Tail(t)
        /\ IF Len(c) = OutCap THEN Flush(c) ELSE buffer' = c /\ UNCHANGED <<out, err>>
    BY <1>1, <1>4, <2>1 DEF WriteByte
  <2>5. CASE Len(c) # OutCap
    BY <1>1, <2>2, <2>3, <2>4, <2>5
  <2>6. CASE Len(c) = OutCap
    <3>1. Flush(c)
      BY <2>4, <2>6
    <3>2. /\ Sends(o \o c, <<>>, Tail(t), FALSE, due)
          /\ \A n \in 0..Len(c) : Sends(o \o SubSeq(c, 1, n), <<>>, Tail(t), TRUE, due)
      BY <2>3, SendsFlushed
    <3> QED  BY <1>1, <2>2, <2>4, <3>1, <3>2 DEF Flush
  <2> QED  BY <2>5, <2>6
<1> QED  BY <1>3, <1>4

LEMMA WriteStep ==
  ASSUME FilterInv, WriteByte
  PROVE  FilterInv'
<1>1. /\ exit = "running" /\ todo # <<>>
      /\ UNCHANGED <<job, index, first, phase, rest, unread, eof, sym, sym_at, sym_start, seen,
                     exit>>
  BY DEF WriteByte, options, input, scanner
<1>2. /\ Consumed' = Consumed /\ Complete' = Complete
      /\ \A n : AnswersUpTo(n)' = AnswersUpTo(n)
  BY <1>1, DueKept
<1>3. \A due : Sends(out, buffer, todo, err, due) => Sends(out', buffer', todo', err', due)
  BY WriteSends
<1>4. Len(buffer') < OutCap /\ err' \in BOOLEAN
  <2>1. CASE err
    BY <2>1 DEF WriteByte, output, FilterInv
  <2>2. CASE ~err
    <3>1. PICK b, t : b = Append(buffer, Head(todo)) /\ t = todo
      OBVIOUS
    <3>2. \/ Len(b) = OutCap /\ Flush(b)
          \/ Len(b) # OutCap /\ buffer' = b /\ UNCHANGED <<out, err>>
      BY <2>2, <3>1 DEF WriteByte
    <3>3. Len(b) = Len(buffer) + 1 /\ Len(buffer) \in Nat
      <4>1. buffer \in Seq(Atom) /\ todo \in Seq(Atom)
        <5>1. \E due : Sends(out, buffer, todo, err, due)
          <6>1. phase = "input" => Continues(job.input, job.input, Consumed)
            <7>1. PICK text, n, u, r : text = job.input /\ n = Consumed /\ u = unread /\ r = rest
              OBVIOUS
            <7>2. Ahead(text, n, u, r)
              BY <7>1 DEF FilterInv
            <7>3. n \in Nat /\ Len(u) \in Nat /\ Len(r) \in Nat /\ n + (Len(u) + Len(r)) = Len(text)
                  /\ text \in Seq(Byte)
              BY <7>2, Places DEF Ahead
            <7>4. n <= Len(text)
              BY <7>3
            <7> QED  BY <7>1, <7>3, <7>4 DEF Continues
          <6> QED  BY <6>1 DEF FilterInv
        <5> QED  BY <5>1 DEF Sends
      <4>2. Head(todo) \in Atom
        BY <1>1, <4>1, HeadTailProperties
      <4> QED  BY <3>1, <4>1, <4>2, AppendProperties, LenProperties
    <3>4. Len(buffer) < OutCap /\ OutCap \in Nat /\ OutCap > 0 /\ Len(<<>>) = 0
      BY FilterAssumption DEF FilterInv
    <3>5. err \in BOOLEAN
      BY DEF FilterInv
    <3>6. Flush(b) => buffer' = <<>> /\ err' \in BOOLEAN
      BY <3>5 DEF Flush
    <3> QED  BY <3>2, <3>3, <3>4, <3>5, <3>6
  <2> QED  BY <2>1, <2>2
<1>5. phase = "options" => FALSE
  BY <1>1 DEF FilterInv
<1>6. phase = "symbols" => Sends(out, buffer, todo, err, AnswersUpTo(index - first))'
  <2>1. PICK n : n = index - first
    OBVIOUS
  <2> QED  BY <1>1, <1>2, <1>3, <2>1 DEF FilterInv
<1>7. phase = "input" => \A t : Continues(t, job.input, Consumed)' =>
                 Sends(out, buffer, todo, err, Plain(t, Consumed - Len(sym)))'
  BY <1>1, <1>2, <1>3 DEF FilterInv
<1>8. phase \in {"flush", "ended"} => Sends(out, buffer, todo, err, Complete)'
  BY <1>1, <1>2, <1>3 DEF FilterInv
<1>9. phase # "ended" /\ exit' = "running"
  BY <1>1 DEF FilterInv
<1>10. Ahead(job.input, Consumed, unread, rest)'
  BY <1>1, <1>2 DEF FilterInv
<1>11. Scanning' => Scans(job.input, Consumed, sym, sym_at, sym_start)' /\ sym_at' \in BOOLEAN
  BY <1>1, <1>2 DEF FilterInv, Scanning
<1> QED
  BY <1>1, <1>2, <1>4, <1>5, <1>6, <1>7, <1>8, <1>9, <1>10, <1>11 DEF FilterInv

LEMMA FlushStep ==
  ASSUME FilterInv, FlushRest
  PROVE  FilterInv'
<1>1. /\ phase = "flush" /\ exit = "running" /\ todo = <<>> /\ phase' = "ended"
      /\ IF ~err /\ buffer # <<>> THEN Flush(buffer) ELSE UNCHANGED <<buffer, out, err>>
      /\ UNCHANGED <<job, index, first, rest, unread, eof, sym, sym_at, sym_start, seen, todo,
                     exit>>
  BY DEF FlushRest, Ready, options, input, scanner, output
<1>2. Consumed' = Consumed /\ Complete' = Complete
  BY <1>1, DueKept
<1>3. PICK o, b, e, due : o = out /\ b = buffer /\ e = err /\ due = Complete
  OBVIOUS
<1>4. Sends(o, b, <<>>, e, due) /\ e \in BOOLEAN
  BY <1>1, <1>3 DEF FilterInv
<1>5. Sends(out', buffer', <<>>, err', due) /\ (~err' => buffer' = <<>>) /\ err' \in BOOLEAN
      /\ Len(buffer') < OutCap
  <2>1. CASE ~e /\ b # <<>>
    <3>1. Flush(b) /\ e = FALSE
      BY <1>1, <1>3, <1>4, <2>1
    <3>2. /\ Sends(o \o b, <<>>, <<>>, FALSE, due)
          /\ \A n \in 0..Len(b) : Sends(o \o SubSeq(b, 1, n), <<>>, <<>>, TRUE, due)
      BY <1>4, <3>1, SendsFlushed
    <3>3. Len(<<>>) = 0 /\ 0 < OutCap
      BY FilterAssumption
    <3> QED  BY <1>3, <3>1, <3>2, <3>3 DEF Flush
  <2>2. CASE ~(~e /\ b # <<>>)
    <3>1. UNCHANGED <<buffer, out, err>>
      BY <1>1, <1>3, <2>2
    <3> QED  BY <1>3, <1>4, <2>2, <3>1 DEF FilterInv
  <2> QED  BY <2>1, <2>2
<1>6. Sends(out, buffer, todo, err, Complete)'
  BY <1>1, <1>2, <1>3, <1>5
<1>7. Ahead(job.input, Consumed, unread, rest)'
  BY <1>1, <1>2 DEF FilterInv
<1> QED  BY <1>1, <1>2, <1>5, <1>6, <1>7 DEF FilterInv, Scanning

LEMMA FilterStep == FilterInv /\ [Next]_vars => FilterInv'
<1> SUFFICES ASSUME FilterInv, [Next]_vars PROVE FilterInv'
  OBVIOUS
<1>1. CASE ParseLetters
  BY <1>1, LettersStep
<1>2. CASE ParseLeave \/ Leave
  BY <1>2, LeaveStep
<1>3. CASE EndOptions
  BY <1>3, OptionsStep
<1>4. CASE AnswerSymbol
  BY <1>4, AnswerStep
<1>5. CASE EndSymbols
  BY <1>5, SymbolsStep
<1>6. CASE ReadFile
  BY <1>6, ReadStep
<1>7. CASE EndInput
  BY <1>7, EndInputStep
<1>8. ASSUME NEW c \in Byte, StartSymbol(c) \/ ContinueSymbol(c) \/ EndSymbol(c) \/ PassByte(c)
      PROVE  FilterInv'
  BY <1>8, StartStep, ContinueStep, EndStep, PassStep
<1>9. CASE WriteByte
  BY <1>9, WriteStep
<1>10. CASE FlushRest
  BY <1>10, FlushStep
<1>11. CASE UNCHANGED vars
  <2>1. UNCHANGED <<job, index, first, phase, rest, unread, eof, sym, sym_at, sym_start, seen,
                    todo, buffer, out, err, exit>>
    BY <1>11 DEF vars, options, input, scanner, output
  <2>2. /\ Consumed' = Consumed /\ Complete' = Complete
        /\ \A n : AnswersUpTo(n)' = AnswersUpTo(n)
    BY <2>1, DueKept
  <2>3. AnswersUpTo(index - first)' = AnswersUpTo(index - first)
    <3>1. PICK n : n = index - first
      OBVIOUS
    <3>2. AnswersUpTo(index - first)' = AnswersUpTo(n)'
      BY <2>1, <3>1
    <3> QED  BY <2>2, <3>1, <3>2
  <2>4. Scanning' = Scanning
    BY <2>1 DEF Scanning
  <2> QED  BY <2>1, <2>2, <2>3, <2>4 DEF FilterInv
<1> QED
  BY <1>1, <1>2, <1>3, <1>4, <1>5, <1>6, <1>7, <1>8, <1>9, <1>10, <1>11 DEF Next

LEMMA FilterInvShows == FilterInv => OutputIsFiltered
<1> SUFFICES ASSUME FilterInv PROVE OutputIsFiltered
  OBVIOUS
<1>1. phase \in {"flush", "ended"} => IsPrefix(out, Complete)
  BY DEF FilterInv, Sends
<1>2. ASSUME phase = "ended", exit = "success" \/ ~err PROVE out = Complete
  <2>1. ~err
    BY <1>2 DEF FilterInv
  <2>2. Sends(out, <<>>, <<>>, err, Complete)
    BY <1>2, <2>1 DEF FilterInv
  <2>3. out \in Seq(Atom) /\ Complete = (out \o <<>>) \o <<>>
    BY <2>1, <2>2 DEF Sends
  <2> QED  BY <2>3, ConcatEmptySeq
<1>3. ASSUME phase = "input" PROVE IsPrefix(out, Filtered(job.input))
  <2>1. PICK text, n, u, r, s :
          text = job.input /\ n = Consumed /\ u = unread /\ r = rest /\ s = sym
    OBVIOUS
  <2>2. Ahead(text, n, u, r) /\ s \in Seq(Byte) /\ n - Len(s) \in Nat
    BY <1>3, <2>1 DEF FilterInv, Scanning, Scans
  <2>3. /\ text \in Seq(Byte) /\ Len(text) \in Nat /\ n \in Nat /\ Len(s) \in Nat
        /\ Len(u) \in Nat /\ Len(r) \in Nat /\ n + (Len(u) + Len(r)) = Len(text)
    BY <2>2, Places DEF Ahead
  <2>4. n <= Len(text)
    BY <2>3
  <2>5. Continues(text, text, n)
    BY <2>3, <2>4 DEF Continues
  <2>6. PICK d \in Nat : d = n - Len(s) /\ d \in 0..Len(text)
    <3>1. n - Len(s) \in 0..Len(text)
      BY <2>2, <2>3, <2>4
    <3> QED  BY <3>1
  <2>7. Sends(out, buffer, todo, err, Plain(text, d))
    BY <1>3, <2>1, <2>5, <2>6 DEF FilterInv
  <2>8. PICK o \in Seq(Atom), p \in Seq(Atom) :
          o = out /\ p = Plain(text, d) /\ IsPrefix(o, p)
    BY <2>7 DEF Sends
  <2>9. PICK q \in Seq(Atom) : q = Between(text, d, Len(text)) /\ Plain(text, Len(text)) = p \o q
    <3>1. Len(text) \in 0..Len(text) /\ d \in 0..Len(text)
      BY <2>3, <2>6
    <3> QED  BY <2>3, <2>8, <3>1, PlainSplit
  <2> QED  BY <2>1, <2>3, <2>8, <2>9, PrefixKept, FilteredIsPlain
<1>4. exit = "failure" => err \/ phase = "options"
  BY DEF FilterInv
<1>5. Len(sym) < SymbolMax /\ Len(buffer) < OutCap
  BY DEF FilterInv
<1> QED  BY <1>1, <1>2, <1>3, <1>4, <1>5 DEF OutputIsFiltered

(* For any input and command line, any sizes of the buffers and of the     *)
(* longest symbol, however the input arrives, whatever the cache has       *)
(* memory for and wherever a write fails: what leaves the program is the   *)
(* text with its decorated symbols replaced, up to a failed write, and a   *)
(* status of success means that all of it has left.  (run() of vc++filt.c, *)
(* lines 429-514, with the two buffers and the cache.)                     *)
THEOREM PrintsFilteredText == Spec => []OutputIsFiltered
<1>1. Init => FilterInv
  BY FilterInit
<1>2. FilterInv /\ [Next]_vars => FilterInv'
  BY FilterStep
<1>3. FilterInv => OutputIsFiltered
  BY FilterInvShows
<1> QED  BY <1>1, <1>2, <1>3, PTL DEF Spec
=============================================================================
