--------------------------- MODULE PeportsProofs ---------------------------
(***************************************************************************)
(* What peports.c promises, for words of any width and any command line,   *)
(* files and streams: the address space it builds of a section table is    *)
(* sound, its output keeps the order it was printed in, its status and its *)
(* messages tell of every file, and a file it can read is listed exactly.  *)
(***************************************************************************)
EXTENDS PeportsListing, Recursion

Span == [beg : Nat, end : Word, at : Nat]

LEMMA WordIsNat ==
  /\ MaxWord \in Int
  /\ \A x \in Word : x \in Nat /\ x <= MaxWord
BY PeImageAssumption DEF Word, MaxWord

(* The options have been consumed in order, and nothing else.              *)
OptionsLeft ==
  LET c == Len(job.args) - Len(args)
  IN /\ c >= 0
     /\ \A n \in 1..Len(args) : args[n] = job.args[c + n]
     /\ \A n \in 1..c : IsOption(job.args[n])

Opened == phase \notin {"options", "files"}

(* The operands are the files at hand, and once a file is open the regions *)
(* kept of it are sound, while they are built as afterwards.               *)
MapInv ==
  /\ job \in Jobs
  /\ args \in Seq(Argument)
  /\ phase = "options" => OptionsLeft
  /\ phase # "options" => \A n \in 1..Len(args) : args[n] \in DOMAIN job.files
  /\ Opened => args # <<>>
  /\ phase = "sections" => i \in Nat
  /\ Opened /\ Img.header = Ok => map \in Seq(Span) /\ Sound(Img, map)

LEMMA MapInit == Init => MapInv
<1> SUFFICES ASSUME Init PROVE MapInv
  OBVIOUS
<1>1. job \in Jobs /\ args = job.args /\ phase = "options"
  BY DEF Init
<1>2. args \in Seq(Argument)
  BY <1>1, JobsAssumption
<1>3. OptionsLeft
  BY <1>1, <1>2, LenProperties DEF OptionsLeft
<1> QED  BY <1>1, <1>2, <1>3 DEF MapInv, Opened

(* The image of the first operand is one of those at hand, and its fields  *)
(* are words.                                                              *)
LEMMA ImageOpened ==
  ASSUME MapInv, phase # "options", args # <<>>
  PROVE  Img \in Image
<1>1. Len(args) \in Nat /\ Len(args) > 0 /\ Head(args) = args[1]
  BY EmptySeq, LenProperties DEF MapInv
<1>2. Head(args) \in DOMAIN job.files
  BY <1>1 DEF MapInv
<1> QED  BY <1>2, JobsAssumption DEF Img, MapInv

(* A map stays sound with a section that is not refused.                   *)
LEMMA SectionAdded ==
  ASSUME NEW img \in Image, NEW m \in Seq(Span), Sound(img, m), NEW s \in Section,
         SectionFault(img, m, s) = Ok
  PROVE  WithSection(m, s) \in Seq(Span) /\ Sound(img, WithSection(m, s))
<1> DEFINE r == Region(s)
           t == Append(m, r)
           n == Len(m)
<1>1. CASE s.vsize > s.rsize
  BY <1>1 DEF WithSection
<1>2. CASE ~(s.vsize > s.rsize)
  <2>1. /\ s.vaddr \in Nat /\ s.vsize \in Nat /\ s.raddr \in Nat /\ s.rsize \in Nat
    BY DEF Section, Word
  <2>2. r \in Span /\ r.beg = s.vaddr /\ r.end = s.vaddr + s.vsize /\ r.at = s.raddr
    <3>1. Adds(s.vaddr, s.vsize)
      BY DEF SectionFault, Ok, Overflow
    <3>2. s.vaddr + s.vsize \in Word
      BY <2>1, <3>1, WordIsNat DEF Adds, Word
    <3> QED  BY <2>1, <3>2 DEF Region, Span
  <2>3. /\ m # <<>> => Last(m).beg < s.vaddr /\ Last(m).end <= s.vaddr
        /\ s.raddr + s.rsize <= Len(img.raw)
    <3>1. Ok # Overflow /\ Ok # Eof /\ Ok # "invalid section order"
      BY DEF Ok, Overflow, Eof
    <3>2. Len(img.raw) \in Nat
      BY LenProperties DEF Image
    <3>3. m # <<>> => Last(m) \in Span
      BY LenProperties, EmptySeq, ElementOfSeq DEF Last
    <3>4. /\ ~(m # <<>> /\ (Last(m).beg >= s.vaddr \/ Last(m).end > s.vaddr))
          /\ ~(s.raddr + s.rsize > Len(img.raw))
      BY <3>1 DEF SectionFault
    <3>5. m # <<>> => Last(m).beg < s.vaddr /\ Last(m).end <= s.vaddr
      <4>1. m # <<>> => Last(m).beg \in Nat /\ Last(m).end \in Word
        BY <3>3 DEF Span
      <4>2. m # <<>> => Last(m).beg \in Nat /\ Last(m).end \in Nat
        BY <4>1, WordIsNat
      <4> QED  BY <2>1, <3>4, <4>2
    <3>6. s.raddr + s.rsize <= Len(img.raw)
      BY <2>1, <3>2, <3>4
    <3> QED  BY <3>5, <3>6
  <2>4. /\ n \in Nat /\ t \in Seq(Span) /\ Len(t) = n + 1
        /\ \A k \in 1..n : t[k] = m[k]
        /\ t[n + 1] = r
    BY <2>2, LenProperties, AppendProperties
  <2>5. DOMAIN m = 1..n /\ DOMAIN t = 1..(n + 1)
    BY <2>4, LenProperties
  <2>6. \A k \in 1..n : m[k] \in Span
    BY ElementOfSeq
  <2>7. ASSUME NEW k \in 1..n PROVE m[k].beg < r.beg /\ m[k].end <= r.beg
    <3>1. m # <<>> /\ Last(m) = m[n]
      BY <2>4, EmptySeq DEF Last
    <3>2. CASE k = n
      BY <2>2, <2>3, <3>1, <3>2
    <3>3. CASE k # n
      <4>1. n \in 1..n /\ k < n
        BY <2>4, <3>3
      <4>2. m[k].beg < m[n].beg /\ m[k].end <= m[n].beg
        BY <2>5, <4>1 DEF Sound
      <4>3. m[n].beg < s.vaddr
        BY <2>3, <3>1
      <4>4. /\ m[k].beg \in Nat /\ m[k].end \in Nat /\ m[n].beg \in Nat
            /\ r.beg \in Nat /\ r.beg = s.vaddr
        BY <2>1, <2>2, <2>6, <4>1, WordIsNat DEF Span
      <4> HIDE DEF r
      <4> QED  BY <4>2, <4>3, <4>4
    <3> QED  BY <3>2, <3>3
  <2>8. r.beg <= r.end /\ r.at + (r.end - r.beg) <= Len(img.raw)
    <3>1. Len(img.raw) \in Nat
      BY LenProperties DEF Image
    <3> QED  BY <1>2, <2>1, <2>2, <2>3, <3>1
  <2>9. WithSection(m, s) = t
    BY <1>2 DEF WithSection
  <2>10. \A k \in DOMAIN t :
           t[k].beg <= t[k].end /\ t[k].at + (t[k].end - t[k].beg) <= Len(img.raw)
    <3> SUFFICES ASSUME NEW k \in DOMAIN t
                 PROVE  t[k].beg <= t[k].end /\ t[k].at + (t[k].end - t[k].beg) <= Len(img.raw)
      OBVIOUS
    <3>1. k \in 1..n \/ k = n + 1
      BY <2>4, <2>5
    <3> HIDE DEF t, r
    <3> QED  BY <2>4, <2>5, <2>8, <3>1 DEF Sound
  <2>11. \A k, l \in DOMAIN t : k < l => t[k].beg < t[l].beg /\ t[k].end <= t[l].beg
    <3> SUFFICES ASSUME NEW k \in DOMAIN t, NEW l \in DOMAIN t, k < l
                 PROVE  t[k].beg < t[l].beg /\ t[k].end <= t[l].beg
      OBVIOUS
    <3>1. k \in 1..n /\ (l \in 1..n \/ l = n + 1)
      BY <2>4, <2>5
    <3> HIDE DEF t, r
    <3> QED  BY <2>4, <2>5, <2>7, <3>1 DEF Sound
  <2> QED  BY <2>4, <2>9, <2>10, <2>11 DEF Sound
<1> QED  BY <1>1, <1>2

(* Most steps of the walk stay in the file and leave its map alone.        *)
LEMMA MapKept ==
  ASSUME MapInv, Opened, Opened', phase' # "sections", UNCHANGED <<job, args, map>>
  PROVE  MapInv'
BY DEF MapInv, Opened, Img

LEMMA CountBelow ==
  ASSUME NEW a \in Nat, NEW b \in Nat, NEW k \in Nat, k < Min({a, b})
  PROVE  k < a
<1>1. \E x \in {a, b} : \A y \in {a, b} : x <= y
  OBVIOUS
<1>2. Min({a, b}) \in {a, b} /\ \A y \in {a, b} : Min({a, b}) <= y
  BY <1>1 DEF Min
<1> QED  BY <1>2

LEMMA OptionStep ==
  ASSUME MapInv, TakeOption
  PROVE  MapInv'
<1>1. phase = "options" /\ args # <<>> /\ IsOption(Head(args)) /\ UNCHANGED <<job, map>>
  BY DEF TakeOption, AtOption, walk
<1>2. CASE args' = <<>> /\ phase' = "files"
  <2>1. <<>> \in Seq(Argument) /\ Len(<<>>) = 0
    BY EmptySeq
  <2> QED  BY <1>1, <1>2, <2>1 DEF MapInv, Opened
<1>3. CASE args' = args /\ phase' = phase
  BY <1>1, <1>3 DEF MapInv, Opened, OptionsLeft
<1>4. CASE args' = Tail(args) /\ phase' = phase
  <2> DEFINE c == Len(job.args) - Len(args)
  <2>1. /\ args \in Seq(Argument) /\ Len(args) \in Nat /\ Len(args) > 0 /\ Head(args) = args[1]
        /\ OptionsLeft /\ Len(job.args) \in Nat
    BY <1>1, JobsAssumption, LenProperties, EmptySeq DEF MapInv
  <2>2. /\ args' \in Seq(Argument) /\ Len(args') = Len(args) - 1
        /\ \A n \in 1..Len(args') : args'[n] = args[n + 1]
    BY <1>1, <1>4, <2>1, HeadTailProperties
  <2>3. Len(job'.args) - Len(args') = c + 1 /\ c \in Nat
    BY <1>1, <2>1, <2>2 DEF OptionsLeft
  <2>4. \A n \in 1..Len(args') : args'[n] = job.args[c + 1 + n]
    <3> TAKE n \in 1..Len(args')
    <3>1. n + 1 \in 1..Len(args) /\ c + (n + 1) = c + 1 + n
      <4> HIDE DEF c
      <4> QED  BY <2>1, <2>2, <2>3
    <3>2. args[n + 1] = job.args[c + (n + 1)]
      BY <2>1, <3>1 DEF OptionsLeft
    <3> HIDE DEF c
    <3> QED  BY <2>2, <3>1, <3>2
  <2>5. \A n \in 1..(c + 1) : IsOption(job.args[n])
    <3> TAKE n \in 1..(c + 1)
    <3>1. CASE n = c + 1
      <4>1. args[1] = job.args[c + 1]
        BY <2>1 DEF OptionsLeft
      <4> QED  BY <1>1, <2>1, <3>1, <4>1
    <3>2. CASE n # c + 1
      <4>1. n \in 1..c
        BY <2>3, <3>2
      <4> QED  BY <2>1, <4>1 DEF OptionsLeft
    <3> QED  BY <3>1, <3>2
  <2>6. OptionsLeft'
    <3> HIDE DEF c
    <3> QED  BY <1>1, <2>3, <2>4, <2>5 DEF OptionsLeft
  <2> QED  BY <1>1, <1>4, <2>2, <2>6 DEF MapInv, Opened
<1>5. \/ args' = <<>> /\ phase' = "files"
      \/ args' = args /\ phase' = phase
      \/ args' = Tail(args) /\ phase' = phase
  BY DEF TakeOption, options
<1> QED  BY <1>2, <1>3, <1>4, <1>5

LEMMA EndOptionsStep ==
  ASSUME MapInv, EndOptions
  PROVE  MapInv'
<1>1. /\ phase = "options" /\ phase' = "files" /\ ~AtOption /\ UNCHANGED job
      /\ args' = IF args = <<>> THEN <<Stdin>> ELSE args
  BY DEF EndOptions
<1> DEFINE c == Len(job.args) - Len(args)
<1>2. /\ args \in Seq(Argument) /\ OptionsLeft /\ job \in Jobs
      /\ job.args \in Seq(Argument) /\ Len(job.args) \in Nat /\ DOMAIN job.args = 1..Len(job.args)
      /\ Len(args) \in Nat
  BY <1>1, JobsAssumption, LenProperties DEF MapInv
<1>3. c \in Nat
  BY <1>2 DEF OptionsLeft
<1>4. CASE args = <<>>
  <2>1. Len(args) = 0
    BY <1>2, <1>4, EmptySeq
  <2>2. \A n \in 1..Len(job.args) : IsOption(job.args[n])
    BY <1>2, <2>1 DEF OptionsLeft
  <2>3. Stdin \in DOMAIN job.files
    BY <1>2, <2>2, JobsAssumption
  <2>4. Stdin \in Argument
    BY DEF Stdin, Argument
  <2>5. args' \in Seq(Argument) /\ Len(args') = 1 /\ args'[1] = Stdin
    BY <1>1, <1>4, <2>4
  <2> QED  BY <1>1, <1>2, <2>3, <2>5 DEF MapInv, Opened
<1>5. CASE args # <<>>
  <2>1. Len(args) > 0 /\ Head(args) = args[1] /\ args' = args
    BY <1>1, <1>2, <1>5, EmptySeq
  <2>2. ~IsOption(args[1]) /\ args[1] = job.args[c + 1] /\ c + 1 \in DOMAIN job.args
    BY <1>1, <1>2, <1>3, <1>5, <2>1 DEF AtOption, OptionsLeft
  <2>3. ASSUME NEW n \in 1..Len(args) PROVE args[n] \in DOMAIN job.files
    <3>1. args[n] = job.args[c + n] /\ c + n \in DOMAIN job.args /\ c + 1 \in 1..(c + n)
      BY <1>2, <1>3, <2>3 DEF OptionsLeft
    <3>2. ~IsOption(job.args[c + 1])
      BY <2>2
    <3> HIDE DEF c
    <3> QED  BY <1>2, <3>1, <3>2, JobsAssumption
  <2> QED  BY <1>1, <1>2, <2>1, <2>3 DEF MapInv, Opened
<1> QED  BY <1>4, <1>5

LEMMA MapStep == MapInv /\ [Next]_vars => MapInv'
<1> SUFFICES ASSUME MapInv, [Next]_vars PROVE MapInv'
  OBVIOUS
<1>1. CASE TakeOption \/ EndOptions
  BY <1>1, OptionStep, EndOptionsStep
<1>2. CASE OpenFile
  <2>1. phase = "files" /\ args # <<>> /\ UNCHANGED <<job, args>> /\ Img' = Img
    BY <1>2 DEF OpenFile, Throw, Enter, options, Img
  <2>2. CASE Img.header # Ok
    BY <1>2, <2>1, <2>2 DEF OpenFile, Throw, MapInv, Opened
  <2>3. CASE Img.header = Ok
    <3>1. map' = <<>> /\ i' = 0 /\ phase' = "sections"
      BY <1>2, <2>3 DEF OpenFile, Enter
    <3>2. <<>> \in Seq(Span) /\ DOMAIN <<>> = {}
      BY EmptySeq
    <3>3. Sound(Img, <<>>)
      BY <3>2 DEF Sound
    <3> QED  BY <2>1, <3>1, <3>2, <3>3 DEF MapInv, Opened
  <2> QED  BY <2>2, <2>3
<1>3. CASE NextFile \/ Catch
  <2>1. args # <<>> /\ args' = Tail(args) /\ phase' = "files" /\ phase # "options" /\ UNCHANGED job
    BY <1>3 DEF NextFile, Catch, Caught, MapInv, Opened
  <2>2. /\ args' \in Seq(Argument) /\ Len(args') = Len(args) - 1 /\ Len(args) \in Nat
        /\ \A n \in 1..Len(args') : args'[n] = args[n + 1]
    BY <2>1, HeadTailProperties, LenProperties DEF MapInv
  <2>3. \A n \in 1..Len(args') : n + 1 \in 1..Len(args)
    BY <2>2
  <2> QED  BY <2>1, <2>2, <2>3 DEF MapInv, Opened
<1>4. CASE Finish \/ Exited
  BY <1>4 DEF Finish, Exited, options, walk, vars, MapInv, Opened, OptionsLeft, Img
<1>5. CASE LoadSection
  <2>1. phase = "sections" /\ i < SectionCount(Img) /\ i \in Nat /\ args # <<>> /\ Img \in Image
    BY <1>5, ImageOpened DEF LoadSection, MapInv, Opened
  <2> DEFINE s == Img.sections[i + 1]
  <2>2. s \in Section
    <3>1. Img.sections \in Seq(Section) /\ Len(Img.sections) \in Nat
      BY <2>1, LenProperties DEF Image
    <3>2. i < Len(Img.sections)
      BY <2>1, <3>1, CountBelow, PeImageAssumption DEF SectionCount
    <3> QED  BY <2>1, <3>1, <3>2, ElementOfSeq
  <2>3. CASE SectionFault(Img, map, s) # Ok
    <3>1. Throw(SectionFault(Img, map, s), <<>>)
      BY <1>5, <2>3 DEF LoadSection
    <3> QED  BY <2>1, <3>1, MapKept DEF Throw, options, walk, Opened
  <2>4. CASE SectionFault(Img, map, s) = Ok
    <3>1. map' = WithSection(map, s) /\ i' = i + 1 /\ UNCHANGED <<job, args, phase>> /\ Img' = Img
      BY <1>5, <2>4 DEF LoadSection, options, Img
    <3>2. Img.header = Ok => map \in Seq(Span) /\ Sound(Img, map)
      BY <2>1 DEF MapInv, Opened
    <3>3. Img.header = Ok => map' \in Seq(Span) /\ Sound(Img, map')
      <4> HIDE DEF s
      <4> QED  BY <2>1, <2>2, <2>4, <3>1, <3>2, SectionAdded
    <3> QED  BY <2>1, <3>1, <3>3 DEF MapInv, Opened
  <2> QED  BY <2>3, <2>4
<1>6. CASE EndSections \/ BeginExports \/ NameExport \/ EndNames \/ NamelessExport \/ EndExports
  BY <1>6, MapKept
     DEF EndSections, BeginExports, NameExport, EndNames, NamelessExport, EndExports,
         Throw, Go, Enter, options, walk, Opened
<1>7. CASE BeginImports \/ ReadModule \/ ReadEntry
  BY <1>7, MapKept DEF BeginImports, ReadModule, ReadEntry, Throw, Go, Enter, options, walk, Opened
<1>8. CASE UNCHANGED vars
  BY <1>8 DEF vars, options, walk, MapInv, Opened, OptionsLeft, Img
<1> QED
  BY <1>1, <1>2, <1>3, <1>4, <1>5, <1>6, <1>7, <1>8 DEF Next

(* Whatever the section table says, the regions kept of it are ascending   *)
(* and apart, and each is backed by the file (peports.c 353-382), for      *)
(* words of any width and any number of sections.                          *)
THEOREM MapIsSound == Spec => []MapSound
<1>1. MapInv => MapSound
  BY DEF MapInv, MapSound, Opened
<1> QED  BY <1>1, MapInit, MapStep, PTL DEF Spec

(***************************************************************************)
(* Output.                                                                 *)
(***************************************************************************)

Atom(S) == {1, 2} \X S

LEMMA OnTyped ==
  ASSUME NEW S, NEW text \in Seq(S), NEW fd \in {1, 2}
  PROVE  /\ On(fd, text) \in Seq(Atom(S)) /\ Len(On(fd, text)) = Len(text)
         /\ \A k \in 1..Len(text) : On(fd, text)[k] = <<fd, text[k]>>
<1>1. PICK n \in Nat : n = Len(text) /\ DOMAIN text = 1..n /\ \A k \in 1..n : text[k] \in S
  BY LenProperties, ElementOfSeq
<1>2. On(fd, text) = [k \in 1..n |-> <<fd, text[k]>>]
  BY <1>1 DEF On
<1>3. On(fd, text) \in [1..n -> Atom(S)]
  BY <1>1, <1>2 DEF Atom
<1>4. On(fd, text) \in Seq(Atom(S)) /\ Len(On(fd, text)) = n
  BY <1>3, FunctionIsSeq
<1>5. \A k \in 1..n : On(fd, text)[k] = <<fd, text[k]>>
  BY <1>2
<1> QED  BY <1>1, <1>4, <1>5

LEMMA OnConcat ==
  ASSUME NEW S, NEW s \in Seq(S), NEW t \in Seq(S), NEW fd \in {1, 2}
  PROVE  On(fd, s \o t) = On(fd, s) \o On(fd, t)
<1>1. s \o t \in Seq(S) /\ Len(s) \in Nat /\ Len(t) \in Nat /\ Len(s \o t) = Len(s) + Len(t)
  BY ConcatProperties, LenProperties
<1> DEFINE a == On(fd, s)  b == On(fd, t)  c == On(fd, s \o t)
<1>2. /\ a \in Seq(Atom(S)) /\ b \in Seq(Atom(S)) /\ c \in Seq(Atom(S))
      /\ Len(a) = Len(s) /\ Len(b) = Len(t) /\ Len(c) = Len(s) + Len(t)
      /\ \A k \in 1..Len(s) : a[k] = <<fd, s[k]>>
      /\ \A k \in 1..Len(t) : b[k] = <<fd, t[k]>>
      /\ \A k \in 1..(Len(s) + Len(t)) : c[k] = <<fd, (s \o t)[k]>>
  BY <1>1, OnTyped
<1> HIDE DEF a, b, c
<1>3. a \o b \in Seq(Atom(S)) /\ Len(a \o b) = Len(c)
  <2>1. a \o b \in Seq(Atom(S)) /\ Len(a \o b) = Len(a) + Len(b)
    BY <1>2, ConcatProperties
  <2> QED  BY <1>2, <2>1
<1>4. ASSUME NEW k \in 1..Len(c) PROVE c[k] = (a \o b)[k]
  <2>1. /\ (s \o t)[k] = IF k <= Len(s) THEN s[k] ELSE t[k - Len(s)]
        /\ (a \o b)[k] = IF k <= Len(s) THEN a[k] ELSE b[k - Len(s)]
    BY <1>1, <1>2, ConcatProperties
  <2>2. k <= Len(s) => k \in 1..Len(s)
    BY <1>1, <1>2
  <2>3. ~(k <= Len(s)) => k - Len(s) \in 1..Len(t)
    BY <1>1, <1>2
  <2> QED  BY <1>1, <1>2, <2>1, <2>2, <2>3
<1>5. c = a \o b
  BY <1>2, <1>3, <1>4, SeqEqual
<1> QED  BY <1>5 DEF a, b, c

(* The elements of a sequence that are in a set.                           *)
Picks(s, K) == [k \in DOMAIN s |-> IF s[k] \in K THEN <<s[k]>> ELSE <<>>]
Picked(s, K) == FlattenSeq(Picks(s, K))

LEMMA PicksTyped ==
  ASSUME NEW S, NEW s \in Seq(S), NEW K
  PROVE  /\ Picks(s, K) \in Seq(Seq(S)) /\ Len(Picks(s, K)) = Len(s)
         /\ \A k \in 1..Len(s) : Picks(s, K)[k] = IF s[k] \in K THEN <<s[k]>> ELSE <<>>
<1>1. PICK n \in Nat : n = Len(s) /\ DOMAIN s = 1..n /\ \A k \in 1..n : s[k] \in S
  BY LenProperties, ElementOfSeq
<1>2. Picks(s, K) = [k \in 1..n |-> IF s[k] \in K THEN <<s[k]>> ELSE <<>>]
  BY <1>1 DEF Picks
<1>3. \A k \in 1..n : <<s[k]>> \in Seq(S) /\ <<>> \in Seq(S)
  BY <1>1
<1>4. [k \in 1..n |-> IF s[k] \in K THEN <<s[k]>> ELSE <<>>] \in [1..n -> Seq(S)]
  BY <1>3
<1> QED  BY <1>1, <1>2, <1>4, FunctionIsSeq

PicksSplit(a, b, K, S) ==
  /\ Picked(a, K) \in Seq(S) /\ Picked(b, K) \in Seq(S)
  /\ Picked(a \o b, K) = Picked(a, K) \o Picked(b, K)

LEMMA PickedConcat ==
  ASSUME NEW S, NEW a \in Seq(S), NEW b \in Seq(S), NEW K
  PROVE  PicksSplit(a, b, K, S)
<1>1. PICK c \in Seq(S) :
        /\ c = a \o b /\ Len(a) \in Nat /\ Len(b) \in Nat /\ Len(c) = Len(a) + Len(b)
        /\ \A k \in 1..Len(c) : c[k] = IF k <= Len(a) THEN a[k] ELSE b[k - Len(a)]
  <2>1. a \o b \in Seq(S) /\ Len(a \o b) = Len(a) + Len(b) /\ Len(a) \in Nat /\ Len(b) \in Nat
    BY ConcatProperties, LenProperties
  <2>2. \A k \in 1..(Len(a) + Len(b)) : (a \o b)[k] = IF k <= Len(a) THEN a[k] ELSE b[k - Len(a)]
    BY ConcatProperties
  <2> QED  BY <2>1, <2>2
<1>2. PICK p \in Seq(Seq(S)) :
        /\ p = Picks(a, K) /\ Len(p) = Len(a)
        /\ \A k \in 1..Len(a) : p[k] = IF a[k] \in K THEN <<a[k]>> ELSE <<>>
  BY PicksTyped
<1>3. PICK q \in Seq(Seq(S)) :
        /\ q = Picks(b, K) /\ Len(q) = Len(b)
        /\ \A k \in 1..Len(b) : q[k] = IF b[k] \in K THEN <<b[k]>> ELSE <<>>
  BY PicksTyped
<1>4. PICK r \in Seq(Seq(S)) :
        /\ r = Picks(c, K) /\ Len(r) = Len(c)
        /\ \A k \in 1..Len(c) : r[k] = IF c[k] \in K THEN <<c[k]>> ELSE <<>>
  BY PicksTyped
<1>5. /\ p \o q \in Seq(Seq(S)) /\ Len(p \o q) = Len(p) + Len(q)
      /\ \A k \in 1..(Len(p) + Len(q)) :
           (p \o q)[k] = IF k <= Len(p) THEN p[k] ELSE q[k - Len(p)]
  BY ConcatProperties
<1>6. ASSUME NEW k \in 1..Len(r) PROVE r[k] = (p \o q)[k]
  <2>1. k \in 1..Len(c) /\ k \in 1..(Len(p) + Len(q))
    BY <1>1, <1>2, <1>3, <1>4
  <2>2. k <= Len(a) => k \in 1..Len(a)
    BY <1>1, <2>1
  <2>3. ~(k <= Len(a)) => k - Len(a) \in 1..Len(b)
    BY <1>1, <2>1
  <2>4. (p \o q)[k] = IF k <= Len(a) THEN p[k] ELSE q[k - Len(a)]
    BY <1>2, <1>5, <2>1
  <2>5. r[k] = IF c[k] \in K THEN <<c[k]>> ELSE <<>>
    BY <1>4, <2>1
  <2>6. CASE k <= Len(a)
    BY <1>1, <1>2, <2>1, <2>2, <2>4, <2>5, <2>6
  <2>7. CASE ~(k <= Len(a))
    BY <1>1, <1>3, <2>1, <2>3, <2>4, <2>5, <2>7
  <2> QED  BY <2>6, <2>7
<1>7. r = p \o q
  <2>1. Len(r) = Len(p \o q)
    BY <1>1, <1>2, <1>3, <1>4, <1>5
  <2> QED  BY <1>5, <1>6, <2>1, SeqEqual
<1>8. FlattenSeq(p) \in Seq(S) /\ FlattenSeq(q) \in Seq(S)
      /\ FlattenSeq(p \o q) = FlattenSeq(p) \o FlattenSeq(q)
  BY FlattenConcat
<1> QED  BY <1>1, <1>2, <1>3, <1>4, <1>7, <1>8 DEF Picked, PicksSplit

LEMMA PickedAll ==
  ASSUME NEW S, NEW a \in Seq(S), NEW K, \A k \in 1..Len(a) : a[k] \in K
  PROVE  Picked(a, K) = a
<1>1. /\ Picks(a, K) \in Seq(Seq(S)) /\ Len(Picks(a, K)) = Len(a)
      /\ \A k \in 1..Len(a) : Picks(a, K)[k] = IF a[k] \in K THEN <<a[k]>> ELSE <<>>
  BY PicksTyped
<1>2. \A k \in 1..Len(a) : Picks(a, K)[k] = <<a[k]>>
  BY <1>1
<1> QED  BY <1>1, <1>2, FlattenSingles DEF Picked

LEMMA PickedNone ==
  ASSUME NEW S, NEW a \in Seq(S), NEW K, \A k \in 1..Len(a) : a[k] \notin K
  PROVE  Picked(a, K) = <<>>
<1>1. /\ Picks(a, K) \in Seq(Seq(S)) /\ Len(Picks(a, K)) = Len(a)
      /\ \A k \in 1..Len(a) : Picks(a, K)[k] = IF a[k] \in K THEN <<a[k]>> ELSE <<>>
  BY PicksTyped
<1>2. \A k \in 1..Len(Picks(a, K)) : Picks(a, K)[k] = <<>>
  BY <1>1
<1> QED  BY <1>1, <1>2, FlattenNothing DEF Picked

(* What a stream receives of a sequence of atoms.                          *)
LEMMA StreamPicked ==
  ASSUME NEW S, NEW log \in Seq(S), NEW fd
  PROVE  OnStream(fd, log) = Picked(log, {x \in S : x[1] = fd})
<1> DEFINE K == {x \in S : x[1] = fd}
<1>1. \A k \in DOMAIN log : log[k] \in K <=> log[k][1] = fd
  BY ElementOfSeq, LenProperties
<1>2. [k \in DOMAIN log |-> IF log[k][1] = fd THEN <<log[k]>> ELSE <<>>] = Picks(log, K)
  <2> HIDE DEF K
  <2> QED  BY <1>1 DEF Picks
<1> QED  BY <1>2 DEF OnStream, Picked

Splits(fd, a, b, S) ==
  /\ OnStream(fd, a) \in Seq(S) /\ OnStream(fd, b) \in Seq(S)
  /\ OnStream(fd, a \o b) = OnStream(fd, a) \o OnStream(fd, b)

LEMMA StreamConcat ==
  ASSUME NEW S, NEW a \in Seq(S), NEW b \in Seq(S), NEW fd
  PROVE  Splits(fd, a, b, S)
<1>1. PICK c \in Seq(S) : c = a \o b
  BY ConcatProperties
<1>2. PICK K : K = {x \in S : x[1] = fd}
  OBVIOUS
<1>3. /\ OnStream(fd, a) = Picked(a, K) /\ OnStream(fd, b) = Picked(b, K)
      /\ OnStream(fd, c) = Picked(c, K)
  BY <1>2, StreamPicked
<1>4. PicksSplit(a, b, K, S)
  BY PickedConcat
<1> QED  BY <1>1, <1>3, <1>4 DEF PicksSplit, Splits

LEMMA StreamOwn ==
  ASSUME NEW S, NEW a \in Seq(S), NEW fd, \A k \in 1..Len(a) : a[k][1] = fd
  PROVE  OnStream(fd, a) = a
<1> DEFINE K == {x \in S : x[1] = fd}
<1>1. OnStream(fd, a) = Picked(a, K)
  BY StreamPicked
<1>2. \A k \in 1..Len(a) : a[k] \in K
  BY ElementOfSeq
<1> HIDE DEF K
<1> QED  BY <1>1, <1>2, PickedAll

LEMMA StreamOther ==
  ASSUME NEW S, NEW a \in Seq(S), NEW fd, \A k \in 1..Len(a) : a[k][1] # fd
  PROVE  OnStream(fd, a) = <<>>
<1> DEFINE K == {x \in S : x[1] = fd}
<1>1. OnStream(fd, a) = Picked(a, K)
  BY StreamPicked
<1>2. \A k \in 1..Len(a) : a[k] \notin K
  OBVIOUS
<1> HIDE DEF K
<1> QED  BY <1>1, <1>2, PickedNone

(* The streams o after s has been printed.                                 *)
Ordered(o, s, S) ==
  /\ o \in [buf : Seq(Atom(S)), log : Seq(Atom(S)), room : Nat, broken : BOOLEAN]
  /\ s \in Seq(Atom(S))
  /\ \A k \in 1..Len(o.buf) : o.buf[k][1] = 1
  /\ o.broken => o.buf = <<>> /\ Len(OnStream(1, o.log)) < Len(OnStream(1, s))
  /\ ~o.broken /\ ~job.deaf => o.log \o o.buf = s
  /\ ~o.broken => OnStream(1, o.log \o o.buf) = OnStream(1, s)
  /\ IsPrefix(OnStream(1, o.log \o o.buf), OnStream(1, s))

LEMMA MinPair ==
  ASSUME NEW a \in Nat, NEW b \in Nat
  PROVE  Min({a, b}) = IF a <= b THEN a ELSE b
<1>1. \E x \in {a, b} : \A y \in {a, b} : x <= y
  OBVIOUS
<1>2. Min({a, b}) \in {a, b} /\ \A y \in {a, b} : Min({a, b}) <= y
  BY <1>1 DEF Min
<1> QED  BY <1>2

LEMMA WholeBuffers ==
  ASSUME NEW n \in Nat, NEW c \in Nat \ {0}, NEW room \in Nat
  PROVE  /\ n \div c \in Nat
         /\ Min({n \div c, room}) \in Nat /\ Min({n \div c, room}) <= n \div c
         /\ Min({n \div c, room}) <= room
         /\ Min({n \div c, room}) * c \in 0..n
         /\ Min({n \div c, room}) < n \div c => Min({n \div c, room}) * c < n
<1>1. PICK q \in Nat : q = n \div c
  OBVIOUS
<1>2. c * q <= n
  BY <1>1
<1>3. PICK d \in Nat : d = Min({q, room}) /\ d <= q /\ d <= room
  <2>1. Min({q, room}) = IF q <= room THEN q ELSE room
    BY MinPair
  <2> QED  BY <2>1
<1>4. d * c <= q * c /\ d * c \in Nat
  BY <1>3
<1>5. d < q => d * c < q * c
  BY <1>3
<1>6. q * c = c * q
  BY <1>1
<1> QED  BY <1>1, <1>2, <1>3, <1>4, <1>5, <1>6

LEMMA StreamEmpty ==
  ASSUME NEW fd
  PROVE  OnStream(fd, <<>>) = <<>>
<1>1. <<>> \in Seq({}) /\ \A k \in 1..Len(<<>>) : <<>>[k][1] # fd
  BY EmptySeq
<1> QED  BY <1>1, StreamOther

(* More is printed on stdout.                                              *)
LEMMA BufferedOrdered ==
  ASSUME NEW S, Ordered(io, said, S), NEW a \in Seq(Atom(S)), \A k \in 1..Len(a) : a[k][1] = 1
  PROVE  Ordered(Buffered(a), said \o a, S)
<1> DEFINE A == Atom(S)
<1>1. PICK l \in Seq(A), b \in Seq(A), s \in Seq(A), room \in Nat, broken \in BOOLEAN :
        /\ l = io.log /\ b = io.buf /\ s = said /\ room = io.room /\ broken = io.broken
  BY DEF Ordered
<1>2. io = [buf |-> b, log |-> l, room |-> room, broken |-> broken]
  BY <1>1 DEF Ordered
<1>3. /\ \A k \in 1..Len(b) : b[k][1] = 1
      /\ broken => b = <<>> /\ Len(OnStream(1, l)) < Len(OnStream(1, s))
      /\ ~broken /\ ~job.deaf => l \o b = s
      /\ ~broken => OnStream(1, l \o b) = OnStream(1, s)
      /\ IsPrefix(OnStream(1, l \o b), OnStream(1, s))
  BY <1>1 DEF Ordered
<1> HIDE DEF A
<1>4. OnStream(1, s) \in Seq(A) /\ OnStream(1, l) \in Seq(A) /\ OnStream(1, s \o a) = OnStream(1, s) \o a
  <2>1. OnStream(1, a) = a
    BY StreamOwn DEF A
  <2>2. Splits(1, s, a, A) /\ Splits(1, l, a, A)
    BY StreamConcat DEF A
  <2> QED  BY <2>1, <2>2 DEF Splits
<1>5. s \o a \in Seq(A) /\ l \o b \in Seq(A) /\ a \in Seq(A)
  BY ConcatProperties DEF A
<1>6. CASE broken
  <2>1. Buffered(a) = io
    BY <1>1, <1>6 DEF Buffered
  <2>2. Len(OnStream(1, l)) < Len(OnStream(1, s) \o a)
    <3>1. Len(OnStream(1, s) \o a) = Len(OnStream(1, s)) + Len(a)
      BY <1>4, <1>5, ConcatProperties
    <3>2. Len(a) \in Nat /\ Len(OnStream(1, s)) \in Nat /\ Len(OnStream(1, l)) \in Nat
      BY <1>4, <1>5, LenProperties
    <3> QED  BY <1>3, <1>6, <3>1, <3>2
  <2>3. IsPrefix(OnStream(1, l \o b), OnStream(1, s) \o a)
    <3>1. Splits(1, l \o b, a, A)
      BY <1>5, StreamConcat
    <3>2. OnStream(1, l \o b) \in Seq(A) /\ IsPrefix(OnStream(1, l \o b), OnStream(1, s))
      BY <1>3, <3>1 DEF Splits
    <3> QED  BY <1>4, <1>5, <3>2, PrefixKept
  <2>4. Ordered(io, s \o a, S)
    BY <1>1, <1>2, <1>3, <1>4, <1>5, <1>6, <2>2, <2>3 DEF Ordered, A
  <2> QED  BY <1>1, <2>1, <2>4
<1>7. CASE ~broken
  <2>1. PICK all \in Seq(A) : all = b \o a
    BY <1>5, ConcatProperties
  <2>2. PICK n \in Nat : n = Len(all)
    BY LenProperties
  <2>3. \A k \in 1..n : all[k] \in A /\ all[k][1] = 1
    <3> TAKE k \in 1..n
    <3>1. all[k] \in A
      BY <2>2, ElementOfSeq
    <3>2. /\ n = Len(b) + Len(a) /\ Len(b) \in Nat /\ Len(a) \in Nat
          /\ all[k] = IF k <= Len(b) THEN b[k] ELSE a[k - Len(b)]
      BY <1>5, <2>1, <2>2, ConcatProperties, LenProperties
    <3>3. (k <= Len(b) => k \in 1..Len(b)) /\ (~(k <= Len(b)) => k - Len(b) \in 1..Len(a))
      BY <3>2
    <3> QED  BY <1>3, <3>1, <3>2, <3>3
  <2>4. PICK full \in Nat, done \in Nat, c \in 0..n :
          /\ full = n \div OutCap /\ done = Min({full, room}) /\ c = done * OutCap
          /\ done <= full /\ done <= room /\ (done < full => c < n)
    <3>1. OutCap \in Nat \ {0}
      BY PeportsAssumption
    <3> DEFINE q == n \div OutCap
               d == Min({q, room})
    <3>2. /\ q \in Nat /\ d \in Nat /\ d <= q /\ d <= room
          /\ d * OutCap \in 0..n /\ (d < q => d * OutCap < n)
      BY <3>1, WholeBuffers
    <3> QED  BY <3>2
  <2>5. PICK x \in Seq(A), y \in Seq(A) :
          /\ x = SubSeq(all, 1, c) /\ y = SubSeq(all, c + 1, n) /\ x \o y = all
          /\ Len(y) = n - c
          /\ \A k \in 1..Len(x) : x[k][1] = 1
          /\ \A k \in 1..Len(y) : y[k][1] = 1
    <3> DEFINE u == SubSeq(all, 1, c)  v == SubSeq(all, c + 1, n)
    <3>1. /\ u \in Seq(A) /\ Len(u) = c
          /\ \A k \in 1..c : u[k] = all[k]
      <4>1. c \in Int /\ 1 \in Int /\ \A k \in 1..c : all[k] \in A
        BY <2>3
      <4>2. u \in Seq(A) /\ Len(u) = (IF 1 <= c THEN c - 1 + 1 ELSE 0)
            /\ \A k \in 1..(c - 1 + 1) : u[k] = all[1 + k - 1]
        BY <4>1, SubSeqProperties
      <4> QED  BY <4>2
    <3>2. /\ v \in Seq(A) /\ Len(v) = n - c
          /\ \A k \in 1..(n - c) : v[k] = all[c + k]
      <4>1. c + 1 \in Int /\ n \in Int /\ \A k \in (c + 1)..n : all[k] \in A
        BY <2>3
      <4>2. v \in Seq(A) /\ Len(v) = (IF c + 1 <= n THEN n - (c + 1) + 1 ELSE 0)
            /\ \A k \in 1..(n - (c + 1) + 1) : v[k] = all[(c + 1) + k - 1]
        BY <4>1, SubSeqProperties
      <4> QED  BY <4>2
    <3>3. u \o v = all
      <4>1. 1 \in 1..(Len(all) + 1) /\ c \in (1 - 1)..Len(all) /\ n \in c..Len(all)
        BY <2>2
      <4>2. u \o v = SubSeq(all, 1, n)
        BY <4>1, ConcatAdjacentSubSeq
      <4> QED  BY <2>2, <4>2, SubSeqFull
    <3> HIDE DEF u, v
    <3>4. (\A k \in 1..Len(u) : u[k][1] = 1) /\ \A k \in 1..Len(v) : v[k][1] = 1
      <4>1. \A k \in 1..Len(u) : k \in 1..n /\ u[k] = all[k]
        BY <3>1
      <4>2. \A k \in 1..Len(v) : c + k \in 1..n /\ v[k] = all[c + k]
        BY <3>2
      <4>3. \A m \in 1..n : all[m][1] = 1
        BY <2>3
      <4>4. \A k \in 1..Len(u) : u[k][1] = 1
        BY <4>1, <4>3
      <4>5. ASSUME NEW k \in 1..Len(v) PROVE v[k][1] = 1
        <5>1. PICK m : m = c + k
          OBVIOUS
        <5> QED  BY <4>2, <4>3, <5>1
      <4> QED  BY <4>4, <4>5
    <3>5. u = SubSeq(all, 1, c) /\ v = SubSeq(all, c + 1, n)
      BY DEF u, v
    <3> QED  BY <3>1, <3>2, <3>3, <3>4, <3>5
  <2>6. /\ OnStream(1, l \o x) = OnStream(1, l) \o x
        /\ OnStream(1, l \o b) = OnStream(1, l) \o b
    <3>1. OnStream(1, x) = x /\ OnStream(1, b) = b
      BY <1>3, <2>5, StreamOwn
    <3>2. Splits(1, l, x, A) /\ Splits(1, l, b, A)
      BY StreamConcat
    <3> QED  BY <3>1, <3>2 DEF Splits
  <2>7. OnStream(1, s \o a) = (OnStream(1, l) \o x) \o y
    <3>1. OnStream(1, s) = OnStream(1, l) \o b
      BY <1>3, <1>7, <2>6
    <3>2. Regrouped(OnStream(1, l), b, a, x, y)
      BY <1>4, <1>5, <2>1, <2>5, Regroup
    <3> QED  BY <1>4, <3>1, <3>2 DEF Regrouped
  <2>8. /\ l \o x \in Seq(A) /\ (l \o x) \o y \in Seq(A) /\ OnStream(1, l) \o x \in Seq(A)
        /\ (l \o b) \o a = (l \o x) \o y
    <3>1. Regrouped(l, b, a, x, y)
      BY <1>5, <2>1, <2>5, Regroup
    <3>2. l \o x \in Seq(A) /\ OnStream(1, l) \o x \in Seq(A)
      BY <1>4, ConcatProperties
    <3>3. (l \o x) \o y \in Seq(A)
      BY <3>2, ConcatProperties
    <3> QED  BY <3>1, <3>2, <3>3 DEF Regrouped
  <2>9. CASE done < full
    <3>1. Buffered(a) = [buf |-> <<>>, log |-> l \o x, room |-> room - done, broken |-> TRUE]
      BY <1>1, <1>2, <1>7, <2>1, <2>2, <2>4, <2>5, <2>9 DEF Buffered
    <3>2. PICK p : p = OnStream(1, l) \o x
      OBVIOUS
    <3>3. p \in Seq(A) /\ IsPrefix(p, p \o y) /\ Len(p) < Len(p \o y)
      <4>1. p \in Seq(A)
        BY <2>8, <3>2
      <4>2. Len(p \o y) = Len(p) + Len(y) /\ Len(p) \in Nat
        BY <4>1, ConcatProperties, LenProperties
      <4>3. Len(y) \in Nat /\ Len(y) > 0
        <5>1. c < n
          BY <2>4, <2>9, Zenon
        <5>2. Len(y) = n - c
          BY <2>5
        <5> QED  BY <5>1, <5>2
      <4> QED  BY <4>1, <4>2, <4>3, PrefixOfConcat
    <3>4. (l \o x) \o <<>> = l \o x
      BY <2>8, ConcatEmptySeq
    <3>5. room - done \in Nat /\ <<>> \in Seq(A) /\ Len(<<>>) = 0
      BY <2>4, EmptySeq
    <3>6. /\ OnStream(1, l \o x) = p /\ OnStream(1, s \o a) = p \o y
      BY <2>6, <2>7, <3>2
    <3>7. PICK o : o = Buffered(a) /\ o = [buf |-> <<>>, log |-> l \o x, room |-> room - done, broken |-> TRUE]
      BY <3>1
    <3>8. /\ o \in [buf : Seq(A), log : Seq(A), room : Nat, broken : BOOLEAN]
          /\ o.buf = <<>> /\ o.log = l \o x /\ o.broken
      BY <2>8, <3>5, <3>7
    <3>9. \A k \in 1..Len(o.buf) : o.buf[k][1] = 1
      BY <3>5, <3>8
    <3>10. Ordered(o, s \o a, S)
      BY <1>5, <3>3, <3>4, <3>6, <3>8, <3>9 DEF Ordered, A
    <3> QED  BY <1>1, <3>7, <3>10
  <2>10. CASE ~(done < full)
    <3>1. Buffered(a) = [buf |-> y, log |-> l \o x, room |-> room - done, broken |-> FALSE]
      <4>1. done = full /\ full * OutCap = c /\ ~(done < full)
        BY <2>4, <2>10
      <4>2. /\ Len(io.buf \o a) \div OutCap = full
            /\ Min({Len(io.buf \o a) \div OutCap, io.room}) = done
            /\ SubSeq(io.buf \o a, 1, done * OutCap) = x
            /\ SubSeq(io.buf \o a, full * OutCap + 1, Len(io.buf \o a)) = y
        BY <1>1, <2>1, <2>2, <2>4, <2>5, <4>1
      <4>3. ~io.broken
        BY <1>1, <1>7
      <4> DEFINE F == Len(io.buf \o a) \div OutCap
                 D == Min({F, io.room})
      <4>4. Buffered(a) =
              [io EXCEPT !.log = @ \o SubSeq(io.buf \o a, 1, D * OutCap), !.room = @ - D,
                         !.broken = D < F,
                         !.buf = IF D < F THEN <<>>
                                 ELSE SubSeq(io.buf \o a, F * OutCap + 1, Len(io.buf \o a))]
        BY <4>3 DEF Buffered
      <4>5. F = full /\ D = done
        BY <4>2
      <4> HIDE DEF F, D
      <4>6. (D < F) = FALSE
        BY <4>1, <4>5
      <4>7. Buffered(a) = [io EXCEPT !.log = @ \o x, !.room = @ - done, !.broken = FALSE, !.buf = y]
        BY <4>2, <4>4, <4>5, <4>6
      <4> QED  BY <1>2, <4>7
    <3>2. room - done \in Nat
      BY <2>4
    <3>3. OnStream(1, (l \o x) \o y) = OnStream(1, s \o a)
      <4>1. OnStream(1, y) = y
        BY <2>5, StreamOwn
      <4>2. Splits(1, l \o x, y, A)
        BY <2>8, StreamConcat
      <4> QED  BY <2>6, <2>7, <4>1, <4>2 DEF Splits
    <3>4. IsPrefix(OnStream(1, s \o a), OnStream(1, s \o a))
      <4>1. PICK p \in Seq(A) : p = OnStream(1, s \o a)
        BY <1>4, <1>5, ConcatProperties
      <4>2. <<>> \in Seq(A) /\ p \o <<>> = p
        BY ConcatEmptySeq
      <4> QED  BY <4>1, <4>2, PrefixOfConcat
    <3>5. ~job.deaf => (l \o x) \o y = s \o a
      BY <1>3, <1>7, <2>8
    <3>6. PICK o : o = Buffered(a) /\ o = [buf |-> y, log |-> l \o x, room |-> room - done, broken |-> FALSE]
      BY <3>1
    <3>7. /\ o \in [buf : Seq(A), log : Seq(A), room : Nat, broken : BOOLEAN]
          /\ o.buf = y /\ o.log = l \o x /\ ~o.broken
      BY <2>8, <3>2, <3>6
    <3>8. Ordered(o, s \o a, S)
      BY <1>5, <2>5, <3>3, <3>4, <3>5, <3>7 DEF Ordered, A
    <3> QED  BY <1>1, <3>6, <3>8
  <2> QED  BY <2>9, <2>10
<1> QED  BY <1>6, <1>7

LEMMA FlushedOrdered ==
  ASSUME NEW S, Ordered(io, said, S)
  PROVE  Ordered(Flushed, said, S) /\ Flushed.buf = <<>>
<1> DEFINE A == Atom(S)
<1>1. PICK l \in Seq(A), b \in Seq(A), s \in Seq(A), room \in Nat, broken \in BOOLEAN :
        /\ l = io.log /\ b = io.buf /\ s = said /\ room = io.room /\ broken = io.broken
  BY DEF Ordered
<1>2. io = [buf |-> b, log |-> l, room |-> room, broken |-> broken]
  BY <1>1 DEF Ordered
<1>3. /\ \A k \in 1..Len(b) : b[k][1] = 1
      /\ broken => b = <<>>
      /\ ~broken /\ ~job.deaf => l \o b = s
      /\ ~broken => OnStream(1, l \o b) = OnStream(1, s)
  BY <1>1 DEF Ordered
<1> HIDE DEF A
<1>4. CASE broken \/ b = <<>>
  BY <1>1, <1>3, <1>4 DEF Flushed
<1>5. CASE ~(broken \/ b = <<>>)
  <2>1. OnStream(1, l) \in Seq(A) /\ OnStream(1, s) = OnStream(1, l) \o b
    <3>1. OnStream(1, b) = b
      BY <1>3, StreamOwn
    <3>2. Splits(1, l, b, A)
      BY StreamConcat
    <3> QED  BY <1>3, <1>5, <3>1, <3>2 DEF Splits
  <2>2. PICK p \in Seq(A) : p = OnStream(1, l)
    BY <2>1
  <2>3. IsPrefix(p, p \o b) /\ IsPrefix(p \o b, p \o b) /\ Len(p) < Len(p \o b)
    <3>1. Len(p \o b) = Len(p) + Len(b) /\ Len(p) \in Nat /\ p \o b \in Seq(A)
      BY ConcatProperties, LenProperties
    <3>2. Len(b) \in Nat /\ Len(b) # 0
      BY <1>5, LenProperties, EmptySeq
    <3>3. PICK q \in Seq(A) : q = p \o b
      BY <3>1
    <3>4. <<>> \in Seq(A) /\ q \o <<>> = q
      BY ConcatEmptySeq
    <3>5. IsPrefix(q, q)
      BY <3>4, PrefixOfConcat
    <3>6. IsPrefix(p, p \o b)
      BY PrefixOfConcat
    <3> QED  BY <3>1, <3>2, <3>3, <3>5, <3>6
  <2>4. <<>> \in Seq(A) /\ Len(<<>>) = 0 /\ l \o <<>> = l
    BY EmptySeq, ConcatEmptySeq
  <2>5. l \o b \in Seq(A) /\ (l \o b) \o <<>> = l \o b
    BY ConcatProperties, ConcatEmptySeq
  <2>6. CASE room > 0
    <3>1. PICK o : o = Flushed /\ o = [buf |-> <<>>, log |-> l \o b, room |-> room - 1, broken |-> FALSE]
      <4>1. Flushed = [io EXCEPT !.log = @ \o io.buf, !.room = @ - 1, !.buf = <<>>]
        BY <1>1, <1>5, <2>6 DEF Flushed
      <4> QED  BY <1>2, <1>5, <4>1
    <3>2. /\ o \in [buf : Seq(A), log : Seq(A), room : Nat, broken : BOOLEAN]
          /\ o.buf = <<>> /\ o.log = l \o b /\ ~o.broken
      BY <2>4, <2>5, <2>6, <3>1
    <3>3. \A k \in 1..Len(o.buf) : o.buf[k][1] = 1
      BY <2>4, <3>2
    <3>4. OnStream(1, l \o b) = p \o b /\ OnStream(1, s) = p \o b
      BY <1>3, <1>5, <2>1, <2>2
    <3>5. Ordered(o, s, S)
      BY <1>3, <1>5, <2>3, <2>5, <3>2, <3>3, <3>4 DEF Ordered, A
    <3> QED  BY <1>1, <3>1, <3>2, <3>5
  <2>7. CASE ~(room > 0)
    <3>1. PICK o : o = Flushed /\ o = [buf |-> <<>>, log |-> l, room |-> room, broken |-> TRUE]
      <4>1. Flushed = [io EXCEPT !.broken = TRUE, !.buf = <<>>]
        BY <1>1, <1>5, <2>7 DEF Flushed
      <4> QED  BY <1>2, <4>1
    <3>2. /\ o \in [buf : Seq(A), log : Seq(A), room : Nat, broken : BOOLEAN]
          /\ o.buf = <<>> /\ o.log = l /\ o.broken
      BY <2>4, <3>1
    <3>3. \A k \in 1..Len(o.buf) : o.buf[k][1] = 1
      BY <2>4, <3>2
    <3>4. OnStream(1, l) = p /\ OnStream(1, s) = p \o b
      BY <2>1, <2>2
    <3>5. Ordered(o, s, S)
      BY <2>3, <2>4, <3>2, <3>3, <3>4 DEF Ordered, A
    <3> QED  BY <1>1, <3>1, <3>2, <3>5
  <2> QED  BY <2>6, <2>7
<1> QED  BY <1>4, <1>5

LEMMA MessageOrdered ==
  ASSUME NEW S, NEW o, Ordered(o, said, S), o.buf = <<>>, NEW text \in Seq(S)
  PROVE  /\ Ordered(Message(o, text), said \o On(2, text), S)
         /\ Message(o, text).buf = <<>>
<1> DEFINE A == Atom(S)
<1>1. PICK l \in Seq(A), s \in Seq(A), room \in Nat, broken \in BOOLEAN :
        /\ l = o.log /\ s = said /\ room = o.room /\ broken = o.broken
        /\ o = [buf |-> <<>>, log |-> l, room |-> room, broken |-> broken]
  BY DEF Ordered
<1>2. l \o <<>> = l
  BY ConcatEmptySeq
<1>3. /\ broken => Len(OnStream(1, l)) < Len(OnStream(1, s))
      /\ ~broken /\ ~job.deaf => l = s
      /\ ~broken => OnStream(1, l) = OnStream(1, s)
      /\ IsPrefix(OnStream(1, l), OnStream(1, s))
  BY <1>1, <1>2 DEF Ordered
<1>4. PICK t \in Seq(A) : t = On(2, text) /\ \A k \in 1..Len(t) : t[k][1] # 1
  <2>1. /\ On(2, text) \in Seq(A) /\ Len(On(2, text)) = Len(text)
        /\ \A k \in 1..Len(text) : On(2, text)[k] = <<2, text[k]>>
    BY OnTyped
  <2> QED  BY <2>1
<1> HIDE DEF A
<1>5. ASSUME NEW u \in Seq(A) PROVE OnStream(1, u \o t) = OnStream(1, u) /\ u \o t \in Seq(A)
  <2>1. OnStream(1, t) = <<>>
    BY <1>4, StreamOther
  <2>2. Splits(1, u, t, A)
    BY StreamConcat
  <2>3. OnStream(1, u) \in Seq(A) /\ OnStream(1, u \o t) = OnStream(1, u) \o <<>>
    BY <2>1, <2>2 DEF Splits
  <2>4. OnStream(1, u) \o <<>> = OnStream(1, u)
    BY <2>3, ConcatEmptySeq
  <2>5. u \o t \in Seq(A)
    BY ConcatProperties
  <2> QED  BY <2>3, <2>4, <2>5
<1>6. OnStream(1, l \o t) = OnStream(1, l) /\ OnStream(1, s \o t) = OnStream(1, s)
      /\ l \o t \in Seq(A) /\ s \o t \in Seq(A) /\ (l \o t) \o <<>> = l \o t
  BY <1>5, ConcatEmptySeq
<1>7. <<>> \in Seq(A) /\ Len(<<>>) = 0
  BY EmptySeq
<1>8. CASE job.deaf
  <2>1. Message(o, text) = o
    BY <1>8 DEF Message
  <2>2. Ordered(o, s \o t, S)
    BY <1>1, <1>2, <1>3, <1>6, <1>7, <1>8 DEF Ordered, A
  <2> QED  BY <1>1, <1>4, <2>1, <2>2
<1>9. CASE ~job.deaf
  <2>1. PICK m : /\ m = Message(o, text)
                 /\ m = [buf |-> <<>>, log |-> l \o t, room |-> room, broken |-> broken]
    BY <1>1, <1>4, <1>9 DEF Message
  <2>2. /\ m \in [buf : Seq(A), log : Seq(A), room : Nat, broken : BOOLEAN]
        /\ m.buf = <<>> /\ m.log = l \o t /\ m.broken = broken
    BY <1>6, <1>7, <2>1
  <2>3. Ordered(m, s \o t, S)
    BY <1>3, <1>6, <1>7, <1>9, <2>2 DEF Ordered, A
  <2> QED  BY <1>1, <1>4, <2>1, <2>2, <2>3
<1> QED  BY <1>8, <1>9

LEMMA OrderedWidens ==
  ASSUME NEW S, NEW T, NEW o, NEW s, Ordered(o, s, S)
  PROVE  Ordered(o, s, S \cup T)
<1> DEFINE A == Atom(S)
           B == Atom(S \cup T)
<1>1. A \subseteq B
  BY DEF Atom
<1>2. \A x \in Seq(A) : x \in Seq(B)
  <2> HIDE DEF A, B
  <2> QED  BY <1>1, SeqMonotonic
<1>3. o \in [buf : Seq(B), log : Seq(B), room : Nat, broken : BOOLEAN] /\ s \in Seq(B)
  <2>1. o \in [buf : Seq(A), log : Seq(A), room : Nat, broken : BOOLEAN] /\ s \in Seq(A)
    BY DEF Ordered
  <2> HIDE DEF A, B
  <2> QED  BY <1>2, <2>1
<1> QED  BY <1>3 DEF Ordered

(* Whatever has been printed is on its way in order, and nothing is        *)
(* printed before the options have been read.                              *)
OutputInv ==
  /\ \E S : Ordered(io, said, S)
  /\ phase = "options" => io.buf = <<>>

(* A text of pieces of whatever kind.                                      *)
IsText(text) == \E T : text \in Seq(T)

LEMMA Texts ==
  ASSUME NEW a, NEW b, NEW c
  PROVE  IsText(<<>>) /\ IsText(<<a>>) /\ IsText(<<a, b>>) /\ IsText(<<a, b, c>>)
<1>1. <<>> \in Seq({a}) /\ <<a>> \in Seq({a}) /\ <<a, b>> \in Seq({a, b})
      /\ <<a, b, c>> \in Seq({a, b, c})
  OBVIOUS
<1> QED  BY <1>1 DEF IsText

LEMMA TextConcat ==
  ASSUME NEW s, NEW t, IsText(s), IsText(t)
  PROVE  IsText(s \o t)
<1>1. PICK S, T : s \in Seq(S) /\ t \in Seq(T)
  BY DEF IsText
<1>2. S \subseteq S \cup T /\ T \subseteq S \cup T
  OBVIOUS
<1>3. s \in Seq(S \cup T) /\ t \in Seq(S \cup T)
  BY <1>1, <1>2, SeqMonotonic
<1>4. s \o t \in Seq(S \cup T)
  BY <1>3, ConcatProperties
<1> QED  BY <1>4 DEF IsText

LEMMA OutputInit == Init => OutputInv
<1> SUFFICES ASSUME Init PROVE OutputInv
  OBVIOUS
<1>1. io = [buf |-> <<>>, log |-> <<>>, room |-> job.room, broken |-> FALSE] /\ said = <<>>
  BY DEF Init
<1>2. job.room \in Nat
  BY JobsAssumption DEF Init
<1>3. <<>> \in Seq(Atom({})) /\ <<>> \o <<>> = <<>> /\ Len(<<>>) = 0
  BY ConcatEmptySeq, EmptySeq
<1>4. IsPrefix(<<>>, <<>>)
  BY <1>3, PrefixOfConcat
<1>5. Ordered(io, said, {})
  BY <1>1, <1>2, <1>3, <1>4, StreamEmpty DEF Ordered
<1> QED  BY <1>1, <1>5 DEF OutputInv

(* Whatever is printed in a step, the output stays in order.               *)
LEMMA OutputSays ==
  ASSUME OutputInv, NEW text, IsText(text), Say(text), job' = job, phase' # "options"
  PROVE  OutputInv'
<1>1. PICK S : Ordered(io, said, S)
  BY DEF OutputInv
<1>2. PICK T : text \in Seq(T)
  BY DEF IsText
<1> DEFINE U == S \cup T
<1>3. Ordered(io, said, U)
  BY <1>1, OrderedWidens
<1>4. text \in Seq(U)
  BY <1>2, SeqMonotonic
<1>5. On(1, text) \in Seq(Atom(U)) /\ \A k \in 1..Len(On(1, text)) : On(1, text)[k][1] = 1
  <2> HIDE DEF U
  <2>1. /\ On(1, text) \in Seq(Atom(U)) /\ Len(On(1, text)) = Len(text)
        /\ \A k \in 1..Len(text) : On(1, text)[k] = <<1, text[k]>>
    BY <1>4, OnTyped
  <2> QED  BY <2>1
<1>6. Ordered(Buffered(On(1, text)), said \o On(1, text), U)
  <2> HIDE DEF U
  <2> QED  BY <1>3, <1>5, BufferedOrdered
<1>7. Ordered(io, said, U)'
  <2> HIDE DEF U
  <2>1. io' = Buffered(On(1, text)) /\ said' = said \o On(1, text) /\ job' = job
    BY DEF Say
  <2> QED  BY <1>6, <2>1 DEF Ordered
<1> QED  BY <1>7 DEF OutputInv

LEMMA OutputKept ==
  ASSUME OutputInv, UNCHANGED <<io, said, job>>, phase' = "options" => phase = "options"
  PROVE  OutputInv'
<1>1. PICK S : Ordered(io, said, S)
  BY DEF OutputInv
<1>2. Ordered(io, said, S)'
  BY <1>1 DEF Ordered
<1> QED  BY <1>2 DEF OutputInv

(* A message, in front of which everything else has been written out.      *)
LEMMA OutputMessage ==
  ASSUME OutputInv, NEW o \in {io, Flushed}, o.buf = <<>>, NEW text, IsText(text),
         io' = Message(o, text), said' = said \o On(2, text), job' = job
  PROVE  OutputInv'
<1>1. PICK S : Ordered(io, said, S)
  BY DEF OutputInv
<1>2. PICK T : text \in Seq(T)
  BY DEF IsText
<1> DEFINE U == S \cup T
<1>3. Ordered(io, said, U)
  BY <1>1, OrderedWidens
<1>4. text \in Seq(U)
  BY <1>2, SeqMonotonic
<1> HIDE DEF U
<1>5. Ordered(o, said, U)
  BY <1>3, FlushedOrdered
<1>6. Ordered(Message(o, text), said \o On(2, text), U) /\ Message(o, text).buf = <<>>
  BY <1>4, <1>5, MessageOrdered
<1>7. Ordered(io, said, U)'
  BY <1>6 DEF Ordered
<1> QED  BY <1>6, <1>7 DEF OutputInv

LEMMA ThrowSays ==
  ASSUME OutputInv, NEW e, NEW text, IsText(text), Throw(e, text)
  PROVE  OutputInv'
BY OutputSays DEF Throw

LEMMA ForwarderText ==
  ASSUME NEW addr
  PROVE  IsText(Forwarder(addr))
<1> PICK f : f = Forward(Text(Img, LoadRva(map, addr)))
  OBVIOUS
<1>1. Forwarder(addr) = <<f>> \/ Forwarder(addr) = <<>>
  BY DEF Forwarder
<1> QED  BY <1>1, Texts

LEMMA OutputStep == MapInv /\ OutputInv /\ [Next]_vars => OutputInv'
<1> SUFFICES ASSUME MapInv, OutputInv, [Next]_vars PROVE OutputInv'
  OBVIOUS
<1> USE Texts
<1>1. CASE TakeOption
  <2>1. phase = "options" /\ job' = job /\ io.buf = <<>>
    BY <1>1 DEF TakeOption, OutputInv
  <2>2. CASE UNCHANGED output /\ phase' = phase
    BY <2>1, <2>2, OutputKept DEF output
  <2>3. CASE Say(<<<<"usage">>>>) /\ phase' = "files"
    BY <2>1, <2>3, OutputSays
  <2>4. CASE /\ io' = Message(io, <<<<"usage">>>>)
             /\ said' = said \o On(2, <<<<"usage">>>>)
    BY <2>1, <2>4, OutputMessage
  <2> QED  BY <1>1, <2>2, <2>3, <2>4 DEF TakeOption, options
<1>2. CASE EndOptions \/ NextFile \/ EndNames \/ EndExports \/ BeginImports \/ Exited
  BY <1>2, OutputKept
     DEF EndOptions, NextFile, EndNames, EndExports, BeginImports, Exited, vars, output, Go, Enter
<1>3. CASE OpenFile
  <2>1. CASE Throw(Img.header, <<>>)
    BY <2>1, ThrowSays
  <2>2. CASE Enter("sections") /\ UNCHANGED output
    BY <2>2, OutputKept DEF Enter, output
  <2> QED  BY <1>3, <2>1, <2>2 DEF OpenFile
<1>4. CASE Catch
  <2>1. PICK S : Ordered(io, said, S)
    BY DEF OutputInv
  <2>2. Flushed.buf = <<>>
    BY <2>1, FlushedOrdered
  <2> QED  BY <1>4, <2>2, OutputMessage DEF Catch, Caught
<1>5. CASE Finish
  <2>1. PICK S : Ordered(io, said, S)
    BY DEF OutputInv
  <2>2. Ordered(Flushed, said, S) /\ io' = Flushed /\ said' = said /\ job' = job /\ phase' = "files"
    BY <1>5, <2>1, FlushedOrdered DEF Finish
  <2>3. Ordered(io, said, S)'
    BY <2>2 DEF Ordered
  <2> QED  BY <2>2, <2>3 DEF OutputInv
<1>6. CASE LoadSection
  <2>1. CASE \E e : Throw(e, <<>>)
    BY <2>1, ThrowSays
  <2>2. CASE UNCHANGED <<job, phase, output>>
    BY <2>2, OutputKept DEF output
  <2> QED  BY <1>6, <2>1, <2>2 DEF LoadSection
<1>7. CASE EndSections
  <2>1. CASE Throw(Overflow, <<>>)
    BY <2>1, ThrowSays
  <2>2. CASE Go("exports") /\ UNCHANGED output
    BY <2>2, OutputKept DEF Go, Enter, output
  <2> QED  BY <1>7, <2>1, <2>2 DEF EndSections
<1>8. CASE BeginExports
  <2>1. CASE Go("imports") /\ UNCHANGED output
    BY <2>1, OutputKept DEF Go, Enter, output
  <2>2. CASE Throw(ExportFault, <<<<"EXPORTS">>>>)
    BY <2>2, ThrowSays
  <2>3. CASE Enter("names") /\ Say(<<<<"EXPORTS">>>>)
    BY <2>3, OutputSays DEF Enter
  <2> QED  BY <1>8, <2>1, <2>2, <2>3 DEF BeginExports
<1>9. CASE NameExport
  <2> DEFINE ordinal == Cell(Img, Ordinals, i)
             line == <<Tab, Number(ordinal + Ordbase),
                       Name(Text(Img, LoadRva(map, Cell(Img, Names, i))))>>
                     \o Forwarder(Cell(Img, Addrs, ordinal))
  <2>1. CASE \E e : Throw(e, <<>>) \/ Throw(e, <<Tab>>) \/ Throw(e, <<Tab, Number(ordinal + Ordbase)>>)
    <3> HIDE DEF ordinal
    <3> QED  BY <2>1, ThrowSays
  <2>2. CASE Go("names") /\ Say(line)
    <3>1. IsText(line)
      BY ForwarderText, TextConcat
    <3> HIDE DEF line
    <3> QED  BY <2>2, <3>1, OutputSays DEF Go, Enter
  <2> QED  BY <1>9, <2>1, <2>2 DEF NameExport
<1>10. CASE NamelessExport
  <2>1. CASE Go("nameless") /\ UNCHANGED output
    BY <2>1, OutputKept DEF Go, Enter, output
  <2>2. CASE Throw(Overflow, <<Tab>>)
    BY <2>2, ThrowSays
  <2>3. CASE Go("nameless") /\ Say(<<Tab, Number(i + Ordbase), NoName>>)
    BY <2>3, OutputSays DEF Go, Enter
  <2> QED  BY <1>10, <2>1, <2>2, <2>3 DEF NamelessExport
<1>11. CASE ReadModule
  <2> DEFINE name == Name(Text(Img, LoadRva(map, NameRva(i))))
  <2>1. CASE Go("listed") /\ UNCHANGED output
    BY <2>1, OutputKept DEF Go, Enter, output
  <2>2. CASE Throw(Eof, <<>>)
    BY <2>2, ThrowSays
  <2>3. CASE Say(<<name>>) /\ (Go("entries") \/ Go("listed"))
    <3> HIDE DEF name
    <3> QED  BY <2>3, OutputSays DEF Go, Enter
  <2> QED  BY <1>11, <2>1, <2>2, <2>3 DEF ReadModule
<1>12. CASE ReadEntry
  <2> DEFINE addr == Import(Lookup, j)
             entry == LoadRva(map, addr)
             hinted == <<Tab, Number(Cell(Img, entry, 0)), Name(Text(Img, From(entry, 1)))>>
  <2>1. CASE Go("modules") /\ UNCHANGED output
    BY <2>1, OutputKept DEF Go, Enter, output
  <2>2. CASE Throw(Eof, <<>>) \/ Throw(Eof, <<Tab>>)
    BY <2>2, ThrowSays
  <2>3. CASE Go("entries") /\ (Say(<<Tab, Number(addr - Sign), NoName>>) \/ Say(hinted))
    <3>1. IsText(<<Tab, Number(addr - Sign), NoName>>) /\ IsText(hinted)
      BY Texts
    <3> HIDE DEF addr, hinted
    <3> QED  BY <2>3, <3>1, OutputSays DEF Go, Enter
  <2> QED  BY <1>12, <2>1, <2>2, <2>3 DEF ReadEntry
<1>13. CASE UNCHANGED vars
  BY <1>13, OutputKept DEF vars, output
<1> QED
  BY <1>1, <1>2, <1>3, <1>4, <1>5, <1>6, <1>7, <1>8, <1>9, <1>10, <1>11, <1>12, <1>13 DEF Next

(* Nothing printed is lost, repeated or reordered: flushing when the       *)
(* buffer is full, at the end and in front of a message to stderr          *)
(* (peports.c 182-202, 558-568) keeps the lines of each stream in the      *)
(* order they were printed, and what stdout has taken when it breaks is a  *)
(* prefix, whatever the size of the buffer and of the stream.              *)
THEOREM OutputKeepsOrder == Spec => []OutputInOrder
<1>1. OutputInv => OutputInOrder
  BY DEF OutputInv, Ordered, OutputInOrder
<1> QED  BY <1>1, MapInit, MapStep, OutputInit, OutputStep, PTL DEF Spec

(***************************************************************************)
(* Messages.                                                               *)
(***************************************************************************)

LEMMA UnreadablePicked ==
  ASSUME NEW X, NEW files \in Seq(X)
  PROVE  Unreadable(files) = Picked(files, {f \in X : job.files[f].header # Ok})
<1> DEFINE K == {f \in X : job.files[f].header # Ok}
<1>1. \A k \in DOMAIN files : files[k] \in K <=> job.files[files[k]].header # Ok
  BY ElementOfSeq, LenProperties
<1>2. [k \in DOMAIN files |-> IF job.files[files[k]].header # Ok THEN <<files[k]>> ELSE <<>>]
        = Picks(files, K)
  <2> HIDE DEF K
  <2> QED  BY <1>1 DEF Picks
<1> QED  BY <1>2 DEF Unreadable, Picked

UnreadableSplits(a, b, X) ==
  /\ Unreadable(a) \in Seq(X) /\ Unreadable(b) \in Seq(X)
  /\ Unreadable(a \o b) = Unreadable(a) \o Unreadable(b)

LEMMA UnreadableConcat ==
  ASSUME NEW X, NEW a \in Seq(X), NEW b \in Seq(X)
  PROVE  UnreadableSplits(a, b, X)
<1> DEFINE K == {f \in X : job.files[f].header # Ok}
<1>1. PICK c \in Seq(X) : c = a \o b
  BY ConcatProperties
<1>2. /\ Unreadable(a) = Picked(a, K) /\ Unreadable(b) = Picked(b, K)
      /\ Unreadable(c) = Picked(c, K)
  BY UnreadablePicked
<1> HIDE DEF K
<1>3. PicksSplit(a, b, K, X)
  BY PickedConcat
<1> QED  BY <1>1, <1>2, <1>3 DEF PicksSplit, UnreadableSplits

LEMMA UnreadableOne ==
  ASSUME NEW f
  PROVE  Unreadable(<<f>>) = IF job.files[f].header # Ok THEN <<f>> ELSE <<>>
<1>1. <<f>> \in Seq({f}) /\ Len(<<f>>) = 1 /\ <<f>>[1] = f
  OBVIOUS
<1> DEFINE K == {g \in {f} : job.files[g].header # Ok}
<1>2. Unreadable(<<f>>) = Picked(<<f>>, K)
  BY <1>1, UnreadablePicked
<1>3. job.files[f].header # Ok => f \in K
  OBVIOUS
<1>4. ~(job.files[f].header # Ok) => f \notin K
  OBVIOUS
<1> HIDE DEF K
<1>0. PICK s \in Seq({f}) : s = <<f>> /\ Len(s) = 1 /\ s[1] = f
  BY <1>1
<1>5. CASE job.files[f].header # Ok
  <2>1. \A k \in 1..Len(s) : s[k] \in K
    BY <1>0, <1>3, <1>5
  <2>2. Picked(s, K) = s
    BY <2>1, PickedAll
  <2> QED  BY <1>0, <1>2, <1>5, <2>2
<1>6. CASE ~(job.files[f].header # Ok)
  <2>1. \A k \in 1..Len(s) : s[k] \notin K
    BY <1>0, <1>4, <1>6
  <2>2. Picked(s, K) = <<>>
    BY <2>1, PickedNone
  <2> QED  BY <1>0, <1>2, <1>6, <2>2
<1> QED  BY <1>5, <1>6

LEMMA UnreadableNone == Unreadable(<<>>) = <<>>
<1>1. <<>> \in Seq({}) /\ \A K : \A k \in 1..Len(<<>>) : <<>>[k] \notin K
  BY EmptySeq
<1>2. Unreadable(<<>>) = Picked(<<>>, {f \in {} : job.files[f].header # Ok})
  BY <1>1, UnreadablePicked
<1> QED  BY <1>1, <1>2, PickedNone

(* A line on stdout is no message, and asking for help is not undone.      *)
LineOnly ==
  /\ Reported' = Reported
  /\ Asked(1) => Asked(1)'
  /\ Asked(2)' => Asked(2)

LEMMA RangeConcat ==
  ASSUME NEW S, NEW s \in Seq(S), NEW t \in Seq(S)
  PROVE  Range(s \o t) = Range(s) \cup Range(t)
<1>1. PICK c \in Seq(S) : c = s \o t
  BY ConcatProperties
<1>2. PICK m \in Nat, n \in Nat :
        /\ m = Len(s) /\ n = Len(t) /\ DOMAIN s = 1..m /\ DOMAIN t = 1..n /\ DOMAIN c = 1..(m + n)
        /\ \A k \in 1..(m + n) : c[k] = IF k <= m THEN s[k] ELSE t[k - m]
  <2>1. Len(c) = Len(s) + Len(t) /\ Len(s) \in Nat /\ Len(t) \in Nat
    BY <1>1, ConcatProperties, LenProperties
  <2>2. DOMAIN s = 1..Len(s) /\ DOMAIN t = 1..Len(t) /\ DOMAIN c = 1..Len(c)
    BY LenProperties
  <2>3. \A k \in 1..(Len(s) + Len(t)) : c[k] = IF k <= Len(s) THEN s[k] ELSE t[k - Len(s)]
    BY <1>1, ConcatProperties
  <2> QED  BY <2>1, <2>2, <2>3
<1>3. \A k \in 1..(m + n) : c[k] \in Range(s) \cup Range(t)
  <2> TAKE k \in 1..(m + n)
  <2>1. CASE k <= m
    BY <1>2, <2>1 DEF Range
  <2>2. CASE ~(k <= m)
    <3>1. k - m \in 1..n
      BY <2>2
    <3> QED  BY <1>2, <2>2, <3>1 DEF Range
  <2> QED  BY <2>1, <2>2
<1>4. \A k \in 1..m : s[k] \in Range(c)
  <2> TAKE k \in 1..m
  <2>1. k \in 1..(m + n) /\ k <= m
    OBVIOUS
  <2> QED  BY <1>2, <2>1 DEF Range
<1>5. \A k \in 1..n : t[k] \in Range(c)
  <2> TAKE k \in 1..n
  <2>1. k + m \in 1..(m + n) /\ ~(k + m <= m) /\ (k + m) - m = k
    OBVIOUS
  <2>2. c[k + m] = t[k]
    BY <1>2, <2>1
  <2> QED  BY <1>2, <2>1, <2>2 DEF Range
<1>6. Range(c) \subseteq Range(s) \cup Range(t)
  BY <1>2, <1>3 DEF Range
<1>7. Range(s) \subseteq Range(c) /\ Range(t) \subseteq Range(c)
  BY <1>2, <1>4, <1>5 DEF Range
<1> QED  BY <1>1, <1>6, <1>7

LEMMA SaysLine ==
  ASSUME OutputInv, NEW text, IsText(text), said' = said \o On(1, text)
  PROVE  LineOnly
<1>1. PICK S, T : Ordered(io, said, S) /\ text \in Seq(T)
  BY DEF OutputInv, IsText
<1> DEFINE U == S \cup T
<1>2. Ordered(io, said, U)
  BY <1>1, OrderedWidens
<1>3. text \in Seq(U)
  BY <1>1, SeqMonotonic
<1> HIDE DEF U
<1>4. PICK A : A = Atom(U)
  OBVIOUS
<1>5. PICK s \in Seq(A) : s = said
  BY <1>2, <1>4 DEF Ordered
<1>6. PICK t \in Seq(A) : t = On(1, text) /\ \A k \in 1..Len(t) : t[k][1] = 1 /\ t[k][1] # 2
  <2>1. /\ On(1, text) \in Seq(A) /\ Len(On(1, text)) = Len(text)
        /\ \A k \in 1..Len(text) : On(1, text)[k] = <<1, text[k]>>
    BY <1>3, <1>4, OnTyped
  <2> QED  BY <2>1
<1>7. OnStream(2, s \o t) = OnStream(2, s)
  <2>1. OnStream(2, t) = <<>>
    BY <1>6, StreamOther
  <2>2. Splits(2, s, t, A)
    BY StreamConcat
  <2>3. OnStream(2, s) \in Seq(A) /\ OnStream(2, s \o t) = OnStream(2, s) \o <<>>
    BY <2>1, <2>2 DEF Splits
  <2> QED  BY <2>3, ConcatEmptySeq
<1>8. OnStream(2, said)' = OnStream(2, said)
  BY <1>5, <1>6, <1>7 DEF OnStream
<1>9. Reported' = Reported
  BY <1>8 DEF Reported
<1>10. Range(s \o t) = Range(s) \cup Range(t)
  BY RangeConcat
<1>11. <<2, <<"usage">>>> \notin Range(t)
  <2>1. \A k \in DOMAIN t : t[k][1] # 2
    BY <1>6, LenProperties
  <2> QED  BY <2>1 DEF Range
<1> QED  BY <1>5, <1>6, <1>9, <1>10, <1>11 DEF LineOnly, Asked

(* A message about a file.                                                 *)
LEMMA SaysMessage ==
  ASSUME OutputInv, NEW e, NEW f, said' = said \o On(2, <<<<"error", e, f>>>>)
  PROVE  /\ \A X : Reported \in Seq(X) /\ f \in X => Reported' = Append(Reported, f)
         /\ Asked(1) => Asked(1)'
         /\ Asked(2)' => Asked(2)
<1> DEFINE text == <<<<"error", e, f>>>>
<1>1. PICK S : Ordered(io, said, S)
  BY DEF OutputInv
<1>2. PICK T : text \in Seq(T)
  BY Texts DEF IsText
<1> DEFINE U == S \cup T
<1>3. Ordered(io, said, U)
  BY <1>1, OrderedWidens
<1>4. text \in Seq(U)
  BY <1>2, SeqMonotonic
<1> HIDE DEF U
<1>5. PICK A : A = Atom(U)
  OBVIOUS
<1>6. PICK s \in Seq(A) : s = said
  BY <1>3, <1>5 DEF Ordered
<1>7. PICK m : m = <<2, <<"error", e, f>>>>
  OBVIOUS
<1>8. m[1] = 2 /\ m[2] = <<"error", e, f>> /\ m[2][3] = f /\ m # <<2, <<"usage">>>>
      /\ m # <<1, <<"usage">>>>
  <2>1. Len(<<"error", e, f>>) = 3 /\ Len(<<"usage">>) = 1
    OBVIOUS
  <2> QED  BY <1>7, <2>1
<1>9. PICK t \in Seq(A) : t = On(2, text) /\ Len(t) = 1 /\ t[1] = m
  <2>1. /\ On(2, text) \in Seq(A) /\ Len(On(2, text)) = Len(text)
        /\ \A k \in 1..Len(text) : On(2, text)[k] = <<2, text[k]>>
    BY <1>4, <1>5, OnTyped
  <2>2. Len(text) = 1 /\ text[1] = <<"error", e, f>>
    OBVIOUS
  <2> HIDE DEF text
  <2> QED  BY <1>7, <2>1, <2>2
<1>10. PICK l \in Seq(A) : l = OnStream(2, s) /\ OnStream(2, s \o t) = l \o t
  <2>1. OnStream(2, t) = t
    BY <1>8, <1>9, StreamOwn
  <2>2. Splits(2, s, t, A)
    BY StreamConcat
  <2> QED  BY <2>1, <2>2 DEF Splits
<1>11. l \o t = Append(l, m) /\ m \in A
  <2>1. m \in A /\ t = <<m>>
    BY <1>9, ElementOfSeq
  <2> QED  BY <2>1, AppendIsConcat
<1>12. OnStream(2, said)' = Append(l, m) /\ OnStream(2, said) = l
  BY <1>6, <1>9, <1>10, <1>11 DEF OnStream
<1>13. ASSUME NEW X, Reported \in Seq(X), f \in X
       PROVE  Reported' = Append(Reported, f)
  <2>1. PICK n \in Nat : n = Len(l) /\ DOMAIN l = 1..n
    BY LenProperties
  <2>2. /\ Append(l, m) \in Seq(A) /\ DOMAIN Append(l, m) = 1..(n + 1)
        /\ \A k \in 1..n : Append(l, m)[k] = l[k]
        /\ Append(l, m)[n + 1] = m
    BY <1>11, <2>1, AppendProperties, LenProperties
  <2>3. Reported = [k \in 1..n |-> l[k][2][3]]
    BY <1>12, <2>1 DEF Reported
  <2>4. Reported' = [k \in 1..(n + 1) |-> Append(l, m)[k][2][3]]
    BY <1>12, <2>2 DEF Reported
  <2>5. Len(Reported) = n
    <3>1. DOMAIN Reported = 1..n /\ DOMAIN Reported = 1..Len(Reported) /\ Len(Reported) \in Nat
      BY <1>13, <2>3, LenProperties
    <3>2. \A p \in Nat : 1..p = 1..n => p = n
      OBVIOUS
    <3> QED  BY <3>1, <3>2
  <2>6. PICK r \in Seq(X) : r = Reported
    BY <1>13
  <2>7. Append(r, f) = [k \in 1..(n + 1) |-> IF k = n + 1 THEN f ELSE r[k]]
    <3>1. /\ Append(r, f) \in Seq(X) /\ DOMAIN Append(r, f) = 1..(n + 1)
          /\ \A k \in 1..n : Append(r, f)[k] = r[k]
          /\ Append(r, f)[n + 1] = f
      BY <1>13, <2>5, <2>6, AppendProperties, LenProperties
    <3>2. Append(r, f) = [k \in DOMAIN Append(r, f) |-> Append(r, f)[k]]
      <4>1. Append(r, f) \in [1..(n + 1) -> X]
        BY <3>1, LenProperties
      <4> QED  BY <3>1, <4>1
    <3>3. \A k \in 1..(n + 1) : Append(r, f)[k] = IF k = n + 1 THEN f ELSE r[k]
      BY <3>1
    <3> QED  BY <3>1, <3>2, <3>3
  <2>8. \A k \in 1..(n + 1) : Append(l, m)[k][2][3] = IF k = n + 1 THEN f ELSE r[k]
    <3> TAKE k \in 1..(n + 1)
    <3>1. CASE k = n + 1
      BY <1>8, <2>2, <3>1
    <3>2. CASE k # n + 1
      <4>1. k \in 1..n
        BY <3>2
      <4> QED  BY <2>2, <2>3, <2>6, <3>2, <4>1
    <3> QED  BY <3>1, <3>2
  <2> QED  BY <2>4, <2>6, <2>7, <2>8
<1>14. Range(s \o t) = Range(s) \cup Range(t)
  BY RangeConcat
<1>15. \A x \in Range(t) : x = m
  <2>1. \A k \in DOMAIN t : t[k] = m
    BY <1>9, LenProperties
  <2> QED  BY <2>1 DEF Range
<1>16. (Asked(1) => Asked(1)') /\ (Asked(2)' => Asked(2))
  BY <1>6, <1>8, <1>9, <1>14, <1>15 DEF Asked
<1> QED  BY <1>13, <1>16

(* What is left to be reported of the command line.                        *)
AllReported ==
  /\ Reported \in Seq(Argument)
  /\ Unreadable(Reported) \o Unreadable(args) = Unreadable(Operands)

(* There is a message about each file that could not be read, of those     *)
(* that are done with; and the program ends after the last, or for an      *)
(* option it does not know.                                                *)
ReportInv ==
  /\ phase = "options" /\ exit = "running" => said = <<>>
  /\ Asked(2) => phase = "options" /\ exit = "failure"
  /\ exit # "running" =>
       \/ phase = "options" /\ exit = "failure" /\ Asked(2)
       \/ /\ phase = "files" /\ args = <<>> /\ io.buf = <<>>
          /\ exit = IF io.broken THEN "failure" ELSE "success"
  /\ phase # "options" => Asked(1) \/ AllReported
  /\ Opened /\ phase # "caught" => Img.header = Ok

LEMMA NothingSaid ==
  ASSUME said = <<>>
  PROVE  Reported = <<>> /\ ~Asked(1) /\ ~Asked(2)
<1>1. OnStream(2, said) = <<>>
  BY StreamEmpty
<1>2. DOMAIN <<>> = {}
  BY EmptySeq
<1>3. \A f, g : DOMAIN <<>> = {} => [k \in DOMAIN <<>> |-> f] = <<>>
  OBVIOUS
<1>4. Reported = <<>>
  BY <1>1, <1>2 DEF Reported
<1>5. Range(said) = {}
  BY <1>2 DEF Range
<1> QED  BY <1>4, <1>5 DEF Asked

LEMMA ReportInit == Init => ReportInv
<1> SUFFICES ASSUME Init PROVE ReportInv
  OBVIOUS
<1>1. phase = "options" /\ exit = "running" /\ said = <<>>
  BY DEF Init
<1>2. ~Asked(2)
  BY <1>1, NothingSaid
<1> QED  BY <1>1, <1>2 DEF ReportInv, Opened

LEMMA SaysNothing ==
  ASSUME said' = said
  PROVE  LineOnly
BY DEF LineOnly, Reported, OnStream, Asked

(* The walk over a file says nothing about it.                             *)
LEMMA ReportKept ==
  ASSUME ReportInv, LineOnly, UNCHANGED <<job, args, exit>>,
         phase # "options", args # <<>>, Opened', phase' = "caught" \/ Img.header = Ok
  PROVE  ReportInv'
<1>1. ~Asked(2) /\ exit = "running"
  BY DEF ReportInv
<1>2. AllReported => AllReported'
  BY DEF AllReported, LineOnly, Unreadable, Operands
<1>3. Asked(1) \/ AllReported
  BY DEF ReportInv
<1>4. Asked(1)' \/ AllReported'
  BY <1>2, <1>3 DEF LineOnly
<1>5. ~Asked(2)'
  BY <1>1 DEF LineOnly
<1> QED  BY <1>1, <1>4, <1>5 DEF ReportInv, Opened, Img

(* What is said on stdout changes no message.                              *)
LEMMA ReportSays ==
  ASSUME MapInv, OutputInv, ReportInv, Opened, Opened', UNCHANGED <<job, args, exit>>,
         phase' = "caught" \/ Img.header = Ok,
         UNCHANGED said \/ \E text : IsText(text) /\ said' = said \o On(1, text)
  PROVE  ReportInv'
<1>1. phase # "options" /\ args # <<>>
  BY DEF MapInv, Opened
<1>2. LineOnly
  BY SaysNothing, SaysLine
<1> QED  BY <1>1, <1>2, ReportKept

(* The files still to come, without the one that is done.                  *)
LEMMA UnreadableTail ==
  ASSUME MapInv, args # <<>>
  PROVE  /\ Unreadable(<<Head(args)>>) \in Seq(Argument)
         /\ Unreadable(Tail(args)) \in Seq(Argument)
         /\ Unreadable(args) = Unreadable(<<Head(args)>>) \o Unreadable(Tail(args))
         /\ Head(args) \in Argument
<1>1. PICK s \in Seq(Argument) : s = args
  BY DEF MapInv
<1>2. PICK a \in Seq(Argument), b \in Seq(Argument) :
        a = <<Head(s)>> /\ b = Tail(s) /\ s = a \o b /\ Head(s) \in Argument
  BY <1>1, HeadThenTail, HeadTailProperties
<1>3. UnreadableSplits(a, b, Argument)
  BY UnreadableConcat
<1> QED  BY <1>1, <1>2, <1>3 DEF UnreadableSplits

LEMMA ReportNext ==
  ASSUME MapInv, ReportInv, NextFile
  PROVE  ReportInv'
<1>1. /\ phase = "listed" /\ phase' = "files" /\ args' = Tail(args)
      /\ UNCHANGED <<job, said, exit>>
  BY DEF NextFile, output
<1>2. args # <<>> /\ Img.header = Ok /\ exit = "running" /\ ~Asked(2)
  BY <1>1 DEF MapInv, ReportInv, Opened
<1>3. LineOnly
  BY <1>1, SaysNothing
<1>4. Unreadable(args) = Unreadable(Tail(args))
  <2>1. Unreadable(<<Head(args)>>) = <<>>
    BY <1>2, UnreadableOne DEF Img
  <2>2. PICK t \in Seq(Argument) : t = Unreadable(Tail(args)) /\ Unreadable(args) = <<>> \o t
    BY <1>2, <2>1, UnreadableTail
  <2> QED  BY <2>2, ConcatEmptySeq
<1>5. AllReported => AllReported'
  <2>1. Unreadable(args)' = Unreadable(Tail(args)) /\ Unreadable(Reported)' = Unreadable(Reported)
        /\ Unreadable(Operands)' = Unreadable(Operands)
    BY <1>1, <1>3 DEF Unreadable, LineOnly, Operands
  <2> QED  BY <1>3, <1>4, <2>1 DEF AllReported, LineOnly
<1>6. (Asked(1) \/ AllReported)' /\ ~Asked(2)'
  BY <1>1, <1>2, <1>3, <1>5 DEF ReportInv, LineOnly
<1> QED  BY <1>1, <1>2, <1>6 DEF ReportInv, Opened

(* The message about the file that is given up on is the next one due.     *)
LEMMA ReportCatch ==
  ASSUME MapInv, OutputInv, ReportInv, Catch
  PROVE  ReportInv'
<1>1. /\ phase = "caught" /\ phase' = "files" /\ args' = Tail(args)
      /\ UNCHANGED <<job, exit>>
      /\ said' = said \o On(2, <<<<"error", error, Head(args)>>>>)
  BY DEF Catch, Caught
<1>2. args # <<>> /\ exit = "running" /\ ~Asked(2)
  BY <1>1 DEF MapInv, ReportInv, Opened
<1> PICK f : f = Head(args)
  OBVIOUS
<1>3. PICK e : e = error
  OBVIOUS
<1>4. /\ \A X : Reported \in Seq(X) /\ f \in X => Reported' = Append(Reported, f)
      /\ Asked(1) => Asked(1)'
      /\ Asked(2)' => Asked(2)
  <2>1. said' = said \o On(2, <<<<"error", e, f>>>>)
    BY <1>1, <1>3
  <2> QED  BY <2>1, SaysMessage
<1>5. ASSUME AllReported PROVE AllReported'
  <2>1. PICK r \in Seq(Argument) : r = Reported
    BY <1>5 DEF AllReported
  <2>2. PICK u \in Seq(Argument), t \in Seq(Argument) :
          /\ u = Unreadable(<<f>>) /\ t = Unreadable(Tail(args)) /\ f \in Argument
          /\ Unreadable(args) = u \o t
    BY <1>2, UnreadableTail
  <2>3. Reported' = Append(r, f)
    BY <1>4, <2>1, <2>2
  <2>4. <<f>> \in Seq(Argument) /\ Append(r, f) = r \o <<f>> /\ Append(r, f) \in Seq(Argument)
    BY <2>2, AppendIsConcat, AppendProperties
  <2>5. UnreadableSplits(r, <<f>>, Argument)
    BY <2>4, UnreadableConcat
  <2>6. PICK v \in Seq(Argument) : v = Unreadable(r) /\ Unreadable(Append(r, f)) = v \o u
    BY <2>2, <2>4, <2>5 DEF UnreadableSplits
  <2>7. (v \o u) \o t = v \o (u \o t)
    BY ConcatAssociative
  <2>8. v \o (u \o t) = Unreadable(Operands)
    BY <1>5, <2>1, <2>2, <2>6 DEF AllReported
  <2>9. /\ Unreadable(args)' = Unreadable(Tail(args))
        /\ Unreadable(Reported)' = Unreadable(Append(r, f))
        /\ Unreadable(Operands)' = Unreadable(Operands)
    BY <1>1, <2>3 DEF Unreadable, Operands
  <2> QED  BY <2>2, <2>3, <2>4, <2>6, <2>7, <2>8, <2>9 DEF AllReported
<1>6. (Asked(1) \/ AllReported)' /\ ~Asked(2)'
  BY <1>1, <1>2, <1>4, <1>5 DEF ReportInv
<1> QED  BY <1>1, <1>2, <1>6 DEF ReportInv, Opened

(* The rest of the arguments, when no option is left, is the operands.     *)
LEMMA OperandsLeft ==
  ASSUME MapInv, phase = "options", ~AtOption
  PROVE  Operands = IF args = <<>> THEN <<Stdin>> ELSE args
<1> DEFINE operand == {k \in DOMAIN job.args : ~IsOption(job.args[k])}
<1>1. PICK all \in Seq(Argument), rest \in Seq(Argument), m \in Nat, n \in Nat :
        /\ all = job.args /\ rest = args /\ m = Len(all) /\ n = Len(rest)
        /\ DOMAIN all = 1..m
  BY JobsAssumption, LenProperties DEF MapInv
<1>2. PICK c \in Nat :
        /\ c = m - n
        /\ \A k \in 1..n : rest[k] = all[c + k]
        /\ \A k \in 1..c : IsOption(all[k])
  <2>1. OptionsLeft
    BY DEF MapInv
  <2>2. Len(job.args) - Len(args) = m - n
    BY <1>1
  <2>3. /\ m - n >= 0
        /\ \A k \in 1..n : rest[k] = all[(m - n) + k]
        /\ \A k \in 1..(m - n) : IsOption(all[k])
    BY <1>1, <2>1, <2>2 DEF OptionsLeft
  <2>4. m - n \in Nat
    BY <2>3
  <2> QED  BY <2>3, <2>4
<1>3. CASE rest = <<>>
  <2>1. n = 0 /\ c = m
    BY <1>1, <1>2, <1>3, EmptySeq
  <2>2. operand = {}
    BY <1>1, <1>2, <2>1
  <2> QED  BY <1>1, <1>3, <2>2 DEF Operands
<1>4. CASE rest # <<>>
  <2>1. n > 0 /\ Head(rest) = rest[1] /\ c + 1 \in 1..m
    BY <1>1, <1>2, <1>4, EmptySeq
  <2>2. c + 1 \in operand /\ \A k \in operand : c + 1 <= k
    <3>1. ~IsOption(rest[1]) /\ rest[1] = all[c + 1]
      BY <1>1, <1>2, <1>4, <2>1 DEF AtOption
    <3>2. c + 1 \in operand
      BY <1>1, <2>1, <3>1
    <3>3. ASSUME NEW k \in operand PROVE c + 1 <= k
      BY <1>1, <1>2
    <3> QED  BY <3>2, <3>3
  <2>3. operand \subseteq Nat
    BY <1>1
  <2>4. Min(operand) = c + 1
    <3> HIDE DEF operand
    <3>1. Min(operand) \in operand /\ \A k \in operand : Min(operand) <= k
      BY <2>2 DEF Min
    <3>2. Min(operand) \in Nat /\ Min(operand) <= c + 1 /\ c + 1 <= Min(operand)
      BY <2>2, <2>3, <3>1
    <3> QED  BY <3>2
  <2>5. SubSeq(all, c + 1, m) = rest
    <3>1. PICK t : t = SubSeq(all, c + 1, m)
      OBVIOUS
    <3>2. \A k \in (c + 1)..m : all[k] \in Argument
      BY <1>1, ElementOfSeq
    <3>3. /\ t \in Seq(Argument)
          /\ Len(t) = IF c + 1 <= m THEN m - (c + 1) + 1 ELSE 0
          /\ \A k \in 1..(m - (c + 1) + 1) : t[k] = all[c + 1 + k - 1]
      BY <3>1, <3>2, SubSeqProperties
    <3>4. Len(t) = n /\ m - (c + 1) + 1 = n
      BY <1>2, <2>1, <3>3
    <3>5. ASSUME NEW k \in 1..n PROVE t[k] = rest[k]
      <4>1. c + 1 + k - 1 = c + k
        OBVIOUS
      <4> QED  BY <1>2, <3>3, <3>4, <4>1
    <3> QED  BY <1>1, <3>1, <3>3, <3>4, <3>5, SeqEqual
  <2>6. operand # {}
    BY <2>2
  <2> QED  BY <1>1, <1>4, <2>4, <2>5, <2>6 DEF Operands
<1> QED  BY <1>3, <1>4

LEMMA ReportEndOptions ==
  ASSUME MapInv, ReportInv, EndOptions
  PROVE  ReportInv'
<1>1. /\ phase = "options" /\ phase' = "files" /\ exit = "running" /\ ~AtOption
      /\ args' = IF args = <<>> THEN <<Stdin>> ELSE args
      /\ UNCHANGED <<job, said, exit>>
  BY DEF EndOptions, output
<1>2. args' = Operands
  BY <1>1, OperandsLeft
<1>3. args' \in Seq(Argument)
  <2>1. args \in Seq(Argument) /\ Stdin \in Argument
    BY DEF MapInv, Stdin, Argument
  <2> QED  BY <1>1, <2>1
<1>4. Reported = <<>> /\ ~Asked(1) /\ ~Asked(2)
  BY <1>1, NothingSaid DEF ReportInv
<1>5. LineOnly
  BY <1>1, SaysNothing
<1>6. AllReported'
  <2>1. PICK u \in Seq(Argument) : u = Unreadable(Operands) /\ <<>> \o u = u
    <3>1. PICK a \in Seq(Argument) : a = Operands
      BY <1>2, <1>3
    <3>2. UnreadableSplits(a, a, Argument)
      BY UnreadableConcat
    <3> QED  BY <3>1, <3>2, ConcatEmptySeq DEF UnreadableSplits
  <2>2. Unreadable(args)' = Unreadable(Operands) /\ Unreadable(Operands)' = Unreadable(Operands)
    BY <1>1, <1>2 DEF Unreadable, Operands
  <2>3. Reported' = <<>> /\ Unreadable(Reported)' = Unreadable(<<>>)
    BY <1>1, <1>4, <1>5 DEF LineOnly, Unreadable
  <2>4. <<>> \in Seq(Argument)
    BY EmptySeq
  <2> QED  BY <2>1, <2>2, <2>3, <2>4, UnreadableNone DEF AllReported
<1>7. ~Asked(2)'
  BY <1>4, <1>5 DEF LineOnly
<1> QED  BY <1>1, <1>6, <1>7 DEF ReportInv, Opened

(* The usage is printed to be read, or as a complaint.                     *)
LEMMA AsksOnce ==
  ASSUME NEW fd \in {1, 2}, said = <<>>, said' = said \o On(fd, <<<<"usage">>>>)
  PROVE  Asked(fd)' /\ \A other \in {1, 2} \ {fd} : ~Asked(other)'
<1>1. PICK u : u = <<"usage">>
  OBVIOUS
<1>2. PICK t \in Seq({u}) : t = <<u>> /\ Len(t) = 1 /\ t[1] = u
  <2>1. <<u>> \in Seq({u}) /\ Len(<<u>>) = 1 /\ <<u>>[1] = u
    OBVIOUS
  <2> QED  BY <2>1
<1>3. PICK a \in Seq(Atom({u})) : a = On(fd, t) /\ Len(a) = 1 /\ a[1] = <<fd, u>>
  <2>1. /\ On(fd, t) \in Seq(Atom({u})) /\ Len(On(fd, t)) = Len(t)
        /\ \A k \in 1..Len(t) : On(fd, t)[k] = <<fd, t[k]>>
    BY OnTyped
  <2> QED  BY <1>2, <2>1
<1>4. said' = a
  BY <1>1, <1>2, <1>3, ConcatEmptySeq
<1>5. DOMAIN a = 1..1 /\ Range(a) = {<<fd, u>>}
  <2>1. DOMAIN a = 1..1
    BY <1>3, LenProperties
  <2>2. \A k \in 1..1 : k = 1
    OBVIOUS
  <2>3. 1 \in 1..1
    OBVIOUS
  <2> QED  BY <1>3, <2>1, <2>2, <2>3 DEF Range
<1> QED  BY <1>1, <1>4, <1>5 DEF Asked

LEMMA ReportOption ==
  ASSUME MapInv, ReportInv, TakeOption
  PROVE  ReportInv'
<1>1. /\ phase = "options" /\ exit = "running" /\ said = <<>>
  BY DEF TakeOption, ReportInv
<1>2. CASE phase' = phase /\ UNCHANGED <<said, exit>>
  <2>1. LineOnly /\ ~Asked(2)
    BY <1>1, <1>2, NothingSaid, SaysNothing
  <2> QED  BY <1>1, <1>2, <2>1 DEF ReportInv, LineOnly, Opened
<1>3. CASE phase' = "files" /\ exit' = exit /\ said' = said \o On(1, <<<<"usage">>>>)
  <2>1. Asked(1)' /\ ~Asked(2)'
    BY <1>1, <1>3, AsksOnce
  <2> QED  BY <1>1, <1>3, <2>1 DEF ReportInv, Opened
<1>4. CASE phase' = phase /\ exit' = "failure" /\ said' = said \o On(2, <<<<"usage">>>>)
  <2>1. Asked(2)'
    BY <1>1, <1>4, AsksOnce
  <2> QED  BY <1>1, <1>4, <2>1 DEF ReportInv, Opened
<1>5. \/ phase' = phase /\ UNCHANGED <<said, exit>>
      \/ phase' = "files" /\ exit' = exit /\ said' = said \o On(1, <<<<"usage">>>>)
      \/ phase' = phase /\ exit' = "failure" /\ said' = said \o On(2, <<<<"usage">>>>)
  BY DEF TakeOption, Say, output, options
<1> QED  BY <1>2, <1>3, <1>4, <1>5

LEMMA ReportStep == MapInv /\ OutputInv /\ ReportInv /\ [Next]_vars => ReportInv'
<1> SUFFICES ASSUME MapInv, OutputInv, ReportInv, [Next]_vars PROVE ReportInv'
  OBVIOUS
<1> USE Texts
<1>1. CASE TakeOption \/ EndOptions \/ NextFile \/ Catch
  BY <1>1, ReportOption, ReportEndOptions, ReportNext, ReportCatch
<1>2. CASE OpenFile
  <2>1. phase = "files" /\ args # <<>> /\ UNCHANGED <<job, args, exit>>
    BY <1>2 DEF OpenFile, Throw, Enter, options
  <2>2. CASE Throw(Img.header, <<>>)
    <3>1. phase' = "caught" /\ said' = said \o On(1, <<>>)
      BY <2>2 DEF Throw, Say
    <3>2. LineOnly
      BY <3>1, SaysLine
    <3> QED  BY <2>1, <3>1, <3>2, ReportKept DEF Opened
  <2>3. CASE Img.header = Ok /\ Enter("sections") /\ UNCHANGED output
    <3>1. phase' = "sections" /\ said' = said
      BY <2>3 DEF Enter, output
    <3> QED  BY <2>1, <2>3, <3>1, SaysNothing, ReportKept DEF Opened
  <2> QED  BY <1>2, <2>2, <2>3 DEF OpenFile
<1>3. CASE Finish
  <2>1. PICK S : Ordered(io, said, S)
    BY DEF OutputInv
  <2>2. Flushed.buf = <<>>
    BY <2>1, FlushedOrdered
  <2>3. /\ phase = "files" /\ args = <<>> /\ io' = Flushed /\ exit = "running"
        /\ exit' = IF Flushed.broken THEN "failure" ELSE "success"
        /\ UNCHANGED <<job, args, phase, said>>
    BY <1>3 DEF Finish, options
  <2>4. LineOnly /\ ~Asked(2)
    BY <2>3, SaysNothing DEF ReportInv
  <2>5. AllReported => AllReported'
    BY <2>3, <2>4 DEF AllReported, LineOnly, Unreadable, Operands
  <2>6. (Asked(1) \/ AllReported)' /\ ~Asked(2)'
    BY <2>3, <2>4, <2>5 DEF ReportInv, LineOnly
  <2> QED  BY <2>2, <2>3, <2>6 DEF ReportInv, Opened
<1>4. ASSUME Opened, Opened', UNCHANGED <<job, args, exit>>,
             phase' = "caught" \/ phase # "caught",
             UNCHANGED said \/ \E text : IsText(text) /\ Say(text)
      PROVE  ReportInv'
  <2>1. phase' = "caught" \/ Img.header = Ok
    BY <1>4 DEF ReportInv
  <2>2. UNCHANGED said \/ \E text : IsText(text) /\ said' = said \o On(1, text)
    BY <1>4 DEF Say
  <2> QED  BY <1>4, <2>1, <2>2, ReportSays
<1>5. ASSUME NEW e, NEW text, IsText(text), Throw(e, text), Opened PROVE ReportInv'
  BY <1>4, <1>5 DEF Throw, Opened, options
<1>6. CASE LoadSection
  <2>1. CASE \E e : Throw(e, <<>>)
    BY <1>5, <1>6, <2>1 DEF LoadSection, Opened
  <2>2. CASE UNCHANGED <<job, options, phase, output, exit>>
    BY <1>4, <1>6, <2>2 DEF LoadSection, Opened, options, output
  <2> QED  BY <1>6, <2>1, <2>2 DEF LoadSection
<1>7. CASE EndSections
  <2>1. CASE Throw(Overflow, <<>>)
    BY <1>5, <1>7, <2>1 DEF EndSections, Opened
  <2>2. CASE Go("exports") /\ UNCHANGED output
    BY <1>4, <1>7, <2>2 DEF EndSections, Opened, options, output, Go, Enter
  <2> QED  BY <1>7, <2>1, <2>2 DEF EndSections
<1>8. CASE BeginExports
  <2>1. CASE Go("imports") /\ UNCHANGED output
    BY <1>4, <1>8, <2>1 DEF BeginExports, Opened, options, output, Go, Enter
  <2>2. CASE Throw(ExportFault, <<<<"EXPORTS">>>>)
    BY <1>5, <1>8, <2>2 DEF BeginExports, Opened
  <2>3. CASE Enter("names") /\ Say(<<<<"EXPORTS">>>>)
    <3>1. IsText(<<<<"EXPORTS">>>>)
      OBVIOUS
    <3> QED  BY <1>4, <1>8, <2>3, <3>1 DEF BeginExports, Opened, options, Enter
  <2> QED  BY <1>8, <2>1, <2>2, <2>3 DEF BeginExports
<1>9. CASE NameExport
  <2> DEFINE ordinal == Cell(Img, Ordinals, i)
             line == <<Tab, Number(ordinal + Ordbase),
                       Name(Text(Img, LoadRva(map, Cell(Img, Names, i))))>>
                     \o Forwarder(Cell(Img, Addrs, ordinal))
  <2>0. phase = "names"
    BY <1>9 DEF NameExport
  <2>1. CASE \E e : Throw(e, <<>>) \/ Throw(e, <<Tab>>) \/ Throw(e, <<Tab, Number(ordinal + Ordbase)>>)
    <3> HIDE DEF ordinal
    <3> QED  BY <1>5, <2>0, <2>1 DEF Opened
  <2>2. CASE Go("names") /\ Say(line)
    <3>1. IsText(line)
      BY ForwarderText, TextConcat
    <3> HIDE DEF line
    <3> QED  BY <1>4, <2>0, <2>2, <3>1 DEF Go, Enter, Opened, options
  <2> QED  BY <1>9, <2>1, <2>2 DEF NameExport
<1>10. CASE NamelessExport
  <2>0. phase = "nameless"
    BY <1>10 DEF NamelessExport
  <2>1. CASE Go("nameless") /\ UNCHANGED output
    BY <1>4, <2>0, <2>1 DEF Go, Enter, output, Opened, options
  <2>2. CASE Throw(Overflow, <<Tab>>)
    BY <1>5, <2>0, <2>2 DEF Opened
  <2>3. CASE Go("nameless") /\ Say(<<Tab, Number(i + Ordbase), NoName>>)
    BY <1>4, <2>0, <2>3 DEF Go, Enter, Opened, options
  <2> QED  BY <1>10, <2>1, <2>2, <2>3 DEF NamelessExport
<1>11. CASE EndNames \/ EndExports \/ BeginImports
  BY <1>4, <1>11 DEF EndNames, EndExports, BeginImports, output, Go, Enter, Opened, options
<1>12. CASE ReadModule
  <2> DEFINE name == Name(Text(Img, LoadRva(map, NameRva(i))))
  <2>0. phase = "modules"
    BY <1>12 DEF ReadModule
  <2>1. CASE Go("listed") /\ UNCHANGED output
    BY <1>4, <2>0, <2>1 DEF Go, Enter, output, Opened, options
  <2>2. CASE Throw(Eof, <<>>)
    BY <1>5, <2>0, <2>2 DEF Opened
  <2>3. CASE Say(<<name>>) /\ (Go("entries") \/ Go("listed"))
    <3> HIDE DEF name
    <3> QED  BY <1>4, <2>0, <2>3 DEF Go, Enter, Opened, options
  <2> QED  BY <1>12, <2>1, <2>2, <2>3 DEF ReadModule
<1>13. CASE ReadEntry
  <2> DEFINE addr == Import(Lookup, j)
             entry == LoadRva(map, addr)
             hinted == <<Tab, Number(Cell(Img, entry, 0)), Name(Text(Img, From(entry, 1)))>>
  <2>0. phase = "entries"
    BY <1>13 DEF ReadEntry
  <2>1. CASE Go("modules") /\ UNCHANGED output
    BY <1>4, <2>0, <2>1 DEF Go, Enter, output, Opened, options
  <2>2. CASE Throw(Eof, <<>>) \/ Throw(Eof, <<Tab>>)
    BY <1>5, <2>0, <2>2 DEF Opened
  <2>3. CASE Go("entries") /\ (Say(<<Tab, Number(addr - Sign), NoName>>) \/ Say(hinted))
    <3>1. IsText(<<Tab, Number(addr - Sign), NoName>>) /\ IsText(hinted)
      BY Texts
    <3> HIDE DEF addr, hinted
    <3> QED  BY <1>4, <2>0, <2>3, <3>1 DEF Go, Enter, Opened, options
  <2> QED  BY <1>13, <2>1, <2>2, <2>3 DEF ReadEntry
<1>14. CASE Exited \/ UNCHANGED vars
  <2>1. UNCHANGED <<job, args, phase, io, said, exit>>
    BY <1>14 DEF Exited, vars, output, options
  <2>2. LineOnly
    BY <2>1, SaysNothing
  <2>3. AllReported => AllReported'
    BY <2>1, <2>2 DEF AllReported, LineOnly, Unreadable, Operands
  <2>4. (Asked(1) => Asked(1)') /\ (Asked(2) => Asked(2)')
    BY <2>1 DEF Asked
  <2> QED  BY <2>1, <2>2, <2>3, <2>4 DEF ReportInv, LineOnly, Opened, Img
<1> QED
  BY <1>1, <1>2, <1>3, <1>6, <1>7, <1>8, <1>9, <1>10, <1>11, <1>12, <1>13, <1>14 DEF Next

(* The program succeeds exactly if stdout took all that was printed,       *)
(* whether or not the files could be read (ok &= 1, 566); and unless it    *)
(* was asked for its usage or misused, there is a message about each file  *)
(* that could not be read and about no other, in the order of the command  *)
(* line (539-568).                                                         *)
THEOREM StatusIsTruthful == Spec => []StatusTells
<1>1. OutputInv /\ ReportInv => StatusTells
  <2> SUFFICES ASSUME OutputInv, ReportInv, exit # "running"
               PROVE  /\ (exit = "success") = (~Asked(2) /\ OnStream(1, io.log) = OnStream(1, said))
                      /\ Asked(1) \/ Asked(2) \/ Unreadable(Reported) = Unreadable(Operands)
    BY DEF StatusTells
  <2>1. CASE phase = "options" /\ exit = "failure" /\ Asked(2)
    BY <2>1
  <2>2. CASE /\ phase = "files" /\ args = <<>> /\ io.buf = <<>>
             /\ exit = IF io.broken THEN "failure" ELSE "success"
    <3>1. ~Asked(2) /\ (Asked(1) \/ AllReported)
      BY <2>2 DEF ReportInv
    <3>2. PICK S : Ordered(io, said, S)
      BY DEF OutputInv
    <3>3. io.log \o io.buf = io.log
      BY <2>2, <3>2, ConcatEmptySeq DEF Ordered
    <3>4. io.broken = (OnStream(1, io.log) # OnStream(1, said))
      <4>1. CASE io.broken
        <5>1. PICK a \in Seq(Atom(S)), b \in Seq(Atom(S)) :
                a = OnStream(1, io.log) /\ b = OnStream(1, said)
          <6>1. io.log \in Seq(Atom(S)) /\ said \in Seq(Atom(S))
            BY <3>2 DEF Ordered
          <6> QED  BY <6>1, StreamConcat DEF Splits
        <5>2. Len(a) < Len(b) /\ Len(a) \in Nat /\ Len(b) \in Nat
          BY <3>2, <4>1, <5>1, LenProperties DEF Ordered
        <5>3. a # b
          BY <5>2
        <5> QED  BY <4>1, <5>1, <5>3
      <4>2. CASE ~io.broken
        BY <3>2, <3>3, <4>2 DEF Ordered
      <4> QED  BY <3>2, <4>1, <4>2 DEF Ordered
    <3>5. AllReported => Unreadable(Reported) = Unreadable(Operands)
      <4> SUFFICES ASSUME AllReported PROVE Unreadable(Reported) = Unreadable(Operands)
        OBVIOUS
      <4>1. PICK r \in Seq(Argument) : r = Reported
        BY DEF AllReported
      <4>2. UnreadableSplits(r, r, Argument)
        BY UnreadableConcat
      <4>3. Unreadable(r) \o <<>> = Unreadable(r)
        BY <4>2, ConcatEmptySeq DEF UnreadableSplits
      <4> QED  BY <2>2, <4>1, <4>3, UnreadableNone DEF AllReported
    <3>6. (exit = "success") = ~io.broken
      BY <2>2
    <3> QED  BY <3>1, <3>4, <3>5, <3>6
  <2> QED  BY <2>1, <2>2 DEF ReportInv
<1> QED
  BY <1>1, MapInit, MapStep, OutputInit, OutputStep, ReportInit, ReportStep, PTL DEF Spec

(***************************************************************************)
(* Reading through the map.                                                *)
(***************************************************************************)

(* A view is a part of the file.                                           *)
Inside(img, v) == v \in [at : Nat, len : Nat] /\ v.at + v.len <= Len(img.raw)

LEMMA RestOfRegion ==
  ASSUME NEW at \in Nat, NEW beg \in Nat, NEW end \in Nat, NEW size \in Nat, NEW rva \in Int,
         at + (end - beg) <= size, beg <= rva, rva < end
  PROVE  /\ at + (rva - beg) \in Nat /\ end - rva \in Nat /\ end - rva > 0
         /\ (at + (rva - beg)) + (end - rva) <= size
OBVIOUS

LEMMA ViewInside ==
  ASSUME NEW img \in Image, NEW m \in Seq(Span), Sound(img, m), NEW rva \in Int
  PROVE  /\ Inside(img, LoadRva(m, rva))
         /\ Has(LoadRva(m, rva), 0) <=> LoadRva(m, rva) # Nowhere
         /\ LoadRva(m, rva) # Nowhere => rva + LoadRva(m, rva).len <= MaxWord
<1>1. PICK n \in Nat : n = Len(m) /\ DOMAIN m = 1..n /\ \A k \in 1..n : m[k] \in Span
  BY LenProperties, ElementOfSeq
<1>2. Len(img.raw) \in Nat
  BY LenProperties DEF Image
<1>3. Inside(img, Nowhere) /\ ~Has(Nowhere, 0)
  BY <1>2 DEF Inside, Nowhere, Has
<1> DEFINE in == {k \in DOMAIN m : m[k].beg <= rva /\ rva < m[k].end}
<1>4. CASE in = {}
  BY <1>3, <1>4 DEF LoadRva
<1>5. CASE in # {}
  <2>1. in \in SUBSET Nat
    BY <1>1
  <2>2. \E k \in in : \A l \in in : k <= l
    <3> HIDE DEF in
    <3> QED  BY <1>5, <2>1, LeastNat
  <2>3. PICK k \in in : k = Min(in)
    <3> HIDE DEF in
    <3> QED  BY <2>2 DEF Min
  <2>4. PICK r \in Span : r = m[k] /\ r.beg <= rva /\ rva < r.end
    BY <1>1
  <2>5. r.at + (r.end - r.beg) <= Len(img.raw)
    BY <2>4 DEF Sound
  <2>6. PICK v : v = [at |-> r.at + (rva - r.beg), len |-> r.end - rva]
    OBVIOUS
  <2>7. LoadRva(m, rva) = v
    BY <1>5, <2>3, <2>4, <2>6 DEF LoadRva
  <2>8. /\ v.at \in Nat /\ v.len \in Nat /\ v.len > 0
        /\ v.at + v.len <= Len(img.raw)
    <3>1. PICK l \in Nat, x \in Nat, y \in Nat, z \in Nat :
            /\ l = Len(img.raw) /\ x = r.at /\ y = r.beg /\ z = r.end
            /\ x + (z - y) <= l /\ y <= rva /\ rva < z
      BY <1>2, <2>4, <2>5, WordIsNat DEF Span
    <3>2. PICK p, q : p = v.at /\ q = v.len /\ p = x + (rva - y) /\ q = z - rva
      BY <2>6, <3>1
    <3> HIDE DEF in
    <3>3. p = x + (rva - y) /\ q = z - rva /\ x + (z - y) <= l /\ y <= rva /\ rva < z
      BY <3>1, <3>2
    <3>4. q \in Int
      BY <3>3
    <3>5. q > 0
      BY <3>3
    <3>6. p \in Nat /\ q \in Nat /\ q > 0 /\ p + q <= l
      BY <3>3, RestOfRegion
    <3> QED  BY <3>1, <3>2, <3>6
  <2>9. v # Nowhere
    BY <2>8 DEF Nowhere
  <2>10. rva + v.len <= MaxWord
    <3>1. PICK z \in Nat : z = r.end /\ z <= MaxWord
      BY WordIsNat DEF Span
    <3>2. v.len = z - rva
      BY <2>6, <3>1
    <3>3. rva + (z - rva) = z
      BY <3>1
    <3> QED  BY <3>1, <3>2, <3>3
  <2> QED  BY <2>6, <2>7, <2>8, <2>9, <2>10 DEF Inside, Has
<1> QED  BY <1>4, <1>5

LEMMA CellInside ==
  ASSUME NEW img \in Image, NEW v, Inside(img, v), NEW k \in Nat, Has(v, k)
  PROVE  Cell(img, v, k) \in Word
<1>1. Len(img.raw) \in Nat /\ \A n \in 1..Len(img.raw) : img.raw[n] \in Word
  BY LenProperties, ElementOfSeq DEF Image
<1>2. v.at + k + 1 \in 1..Len(img.raw)
  BY <1>1 DEF Inside, Has
<1> QED  BY <1>1, <1>2 DEF Cell

(***************************************************************************)
(* Lines one after the other.                                              *)
(***************************************************************************)

LEMMA OwnType ==
  ASSUME NEW t, IsText(t), NEW U, Range(t) \subseteq U
  PROVE  t \in Seq(U)
<1>1. PICK T : t \in Seq(T)
  BY DEF IsText
<1>2. Len(t) \in Nat /\ DOMAIN t = 1..Len(t)
  BY <1>1, LenProperties
<1>3. \A k \in 1..Len(t) : t[k] \in U
  BY <1>2 DEF Range
<1>4. PICK n \in Nat : n = Len(t)
  BY <1>2
<1>5. t \in [1..n -> U]
  BY <1>1, <1>2, <1>3, <1>4
<1> QED  BY <1>5, FunctionIsSeq

(* Finitely many texts have a common alphabet.                             *)
LEMMA CommonType ==
  ASSUME NEW n \in Nat, NEW f, f = [k \in 1..n |-> f[k]], \A k \in 1..n : IsText(f[k])
  PROVE  \E S : f \in Seq(Seq(S)) /\ Len(f) = n
<1> DEFINE S == UNION {Range(f[k]) : k \in 1..n}
<1>1. \A k \in 1..n : f[k] \in Seq(S)
  <2> TAKE k \in 1..n
  <2>1. Range(f[k]) \subseteq S
    OBVIOUS
  <2> HIDE DEF S
  <2> QED  BY <2>1, OwnType
<1> HIDE DEF S
<1>2. f \in [1..n -> Seq(S)]
  BY <1>1
<1> QED  BY <1>2, FunctionIsSeq

Grouped(x, y, z) == x \o (y \o z) = (x \o y) \o z

LEMMA TextsAssociate ==
  ASSUME NEW x, NEW y, NEW z, IsText(x), IsText(y), IsText(z)
  PROVE  Grouped(x, y, z)
<1>1. PICK S, T, U : x \in Seq(S) /\ y \in Seq(T) /\ z \in Seq(U)
  BY DEF IsText
<1>2. x \in Seq(S \cup T \cup U) /\ y \in Seq(S \cup T \cup U) /\ z \in Seq(S \cup T \cup U)
  BY <1>1, SeqMonotonic
<1> QED  BY <1>2, ConcatAssociative DEF Grouped

FlattensOn(f, g, line) ==
  FlattenSeq(f) = FlattenSeq(g) \o line /\ IsText(FlattenSeq(g))

LEMMA FlattenMore ==
  ASSUME NEW n \in Nat, NEW f, f = [k \in 1..(n + 1) |-> f[k]],
         \A k \in 1..(n + 1) : IsText(f[k]),
         NEW g, g = [k \in 1..n |-> f[k]]
  PROVE  FlattensOn(f, g, f[n + 1])
<1>1. n + 1 \in Nat /\ n + 1 \in 1..(n + 1) /\ \A k \in 1..n : k \in 1..(n + 1)
  OBVIOUS
<1>2. PICK S : f \in Seq(Seq(S)) /\ Len(f) = n + 1
  BY <1>1, CommonType
<1>3. \A k \in 1..(n + 1) : f[k] \in Seq(S)
  BY <1>2, ElementOfSeq
<1>4. g \in [1..n -> Seq(S)]
  BY <1>1, <1>3
<1>5. g \in Seq(Seq(S)) /\ Len(g) = n
  BY <1>4, FunctionIsSeq
<1>6. f = Append(g, f[n + 1])
  <2>1. PICK h : h = Append(g, f[n + 1])
    OBVIOUS
  <2>2. /\ h \in Seq(Seq(S)) /\ Len(h) = n + 1
        /\ \A k \in 1..n : h[k] = g[k]
        /\ h[n + 1] = f[n + 1]
    BY <1>1, <1>3, <1>5, <2>1, AppendProperties
  <2>3. \A k \in 1..(n + 1) : h[k] = f[k]
    <3> TAKE k \in 1..(n + 1)
    <3>1. k \in 1..n \/ k = n + 1
      OBVIOUS
    <3>2. \A l \in 1..n : g[l] = f[l]
      OBVIOUS
    <3> QED  BY <2>2, <3>1, <3>2
  <2> QED  BY <1>2, <2>1, <2>2, <2>3, SeqEqual
<1>7. PICK line \in Seq(S) : line = f[n + 1]
  BY <1>1, <1>3
<1>8. FlattenSeq(g) \in Seq(S) /\ FlattenSeq(Append(g, line)) = FlattenSeq(g) \o line
  BY <1>5, FlattenAppend
<1> QED  BY <1>6, <1>7, <1>8 DEF FlattensOn, IsText

(***************************************************************************)
(* What has been listed of a table.                                        *)
(***************************************************************************)

ListedAs(text) ==
  /\ start.at \in 0..Len(said)
  /\ IsText(text)
  /\ Listed = On(1, text)

LEMMA ListedMore ==
  ASSUME OutputInv, NEW text, ListedAs(text), NEW line, IsText(line),
         said' = said \o On(1, line), UNCHANGED start
  PROVE  ListedAs(text \o line)'
<1>1. PICK S, T, U : Ordered(io, said, S) /\ text \in Seq(T) /\ line \in Seq(U)
  BY DEF OutputInv, IsText, ListedAs
<1> DEFINE V == S \cup T \cup U
<1>2. Ordered(io, said, S \cup (T \cup U)) /\ S \cup (T \cup U) = V
  BY <1>1, OrderedWidens
<1>3. text \in Seq(V) /\ line \in Seq(V) /\ Ordered(io, said, V)
  BY <1>1, <1>2, SeqMonotonic
<1> HIDE DEF V
<1>4. PICK A : A = Atom(V)
  OBVIOUS
<1>5. PICK s \in Seq(A), a \in Nat : s = said /\ a = start.at /\ a <= Len(s)
  BY <1>3, <1>4, LenProperties DEF Ordered, ListedAs
<1>6. PICK x \in Seq(A) : x = On(1, line)
  BY <1>3, <1>4, OnTyped
<1>7. PICK c \in Seq(A) :
        /\ c = s \o x /\ Len(c) = Len(s) + Len(x) /\ Len(s) \in Nat /\ Len(x) \in Nat
        /\ \A k \in 1..Len(s) : c[k] = s[k]
        /\ \A k \in 1..Len(x) : c[Len(s) + k] = x[k]
  <2>1. s \o x \in Seq(A) /\ Len(s \o x) = Len(s) + Len(x) /\ Len(s) \in Nat /\ Len(x) \in Nat
    BY ConcatProperties, LenProperties
  <2>2. \A k \in 1..(Len(s) + Len(x)) : (s \o x)[k] = IF k <= Len(s) THEN s[k] ELSE x[k - Len(s)]
    BY ConcatProperties
  <2>3. \A k \in 1..Len(s) : (s \o x)[k] = s[k]
    BY <2>1, <2>2
  <2>4. \A k \in 1..Len(x) : (s \o x)[Len(s) + k] = x[k]
    <3> TAKE k \in 1..Len(x)
    <3>1. PICK p : p = Len(s) + k
      OBVIOUS
    <3>2. p \in 1..(Len(s) + Len(x)) /\ ~(p <= Len(s)) /\ p - Len(s) = k
      BY <2>1, <3>1
    <3> QED  BY <2>2, <3>1, <3>2
  <2> QED  BY <2>1, <2>3, <2>4
<1>8. SubSeq(c, a + 1, Len(c)) = SubSeq(s, a + 1, Len(s)) \o x
  <2>1. SubSeq(c, a + 1, Len(s)) \o SubSeq(c, Len(s) + 1, Len(c)) = SubSeq(c, a + 1, Len(c))
    <3>1. a + 1 \in 1..(Len(c) + 1) /\ Len(s) \in ((a + 1) - 1)..Len(c) /\ Len(c) \in Len(s)..Len(c)
      BY <1>5, <1>7
    <3> QED  BY <3>1, ConcatAdjacentSubSeq
  <2>2. SubSeq(c, a + 1, Len(s)) = SubSeq(s, a + 1, Len(s))
    <3>1. PICK y, z : y = SubSeq(c, a + 1, Len(s)) /\ z = SubSeq(s, a + 1, Len(s))
      OBVIOUS
    <3>2. PICK l \in Nat : l = Len(s)
      BY <1>7
    <3>3. a + 1 \in Int /\ \A k \in (a + 1)..l : c[k] \in A /\ s[k] \in A /\ c[k] = s[k]
      BY <1>7, <3>2, ElementOfSeq
    <3>4. /\ y \in Seq(A) /\ Len(y) = IF a + 1 <= l THEN l - (a + 1) + 1 ELSE 0
          /\ \A k \in 1..(l - (a + 1) + 1) : y[k] = c[(a + 1) + k - 1]
      BY <3>1, <3>2, <3>3, SubSeqProperties
    <3>5. /\ z \in Seq(A) /\ Len(z) = IF a + 1 <= l THEN l - (a + 1) + 1 ELSE 0
          /\ \A k \in 1..(l - (a + 1) + 1) : z[k] = s[(a + 1) + k - 1]
      BY <3>1, <3>2, <3>3, SubSeqProperties
    <3>6. \A k \in 1..(l - (a + 1) + 1) : y[k] = z[k]
      <4> TAKE k \in 1..(l - (a + 1) + 1)
      <4>1. (a + 1) + k - 1 \in (a + 1)..l
        BY <3>2
      <4> QED  BY <3>3, <3>4, <3>5, <4>1
    <3>7. Len(y) = Len(z) /\ \A k \in 1..Len(y) : k \in 1..(l - (a + 1) + 1)
      BY <3>2, <3>4, <3>5
    <3> QED  BY <3>1, <3>4, <3>5, <3>6, <3>7, SeqEqual
  <2>3. SubSeq(c, Len(s) + 1, Len(c)) = x
    <3>1. PICK y : y = SubSeq(c, Len(s) + 1, Len(c))
      OBVIOUS
    <3>2. PICK l \in Nat, n \in Nat : l = Len(s) /\ n = Len(x) /\ Len(c) = l + n
      BY <1>7
    <3>3. \A k \in (l + 1)..(l + n) : c[k] \in A
      BY <3>2, ElementOfSeq
    <3>4. /\ y \in Seq(A) /\ Len(y) = IF l + 1 <= l + n THEN (l + n) - (l + 1) + 1 ELSE 0
          /\ \A k \in 1..((l + n) - (l + 1) + 1) : y[k] = c[(l + 1) + k - 1]
      BY <3>1, <3>2, <3>3, SubSeqProperties
    <3>5. Len(y) = n /\ (l + n) - (l + 1) + 1 = n
      BY <3>4
    <3>6. \A k \in 1..n : y[k] = x[k]
      <4> TAKE k \in 1..n
      <4>1. (l + 1) + k - 1 = l + k
        OBVIOUS
      <4> QED  BY <1>7, <3>2, <3>4, <3>5, <4>1
    <3> QED  BY <3>1, <3>2, <3>4, <3>5, <3>6, SeqEqual
  <2> QED  BY <2>1, <2>2, <2>3
<1>9. On(1, text \o line) = On(1, text) \o x
  BY <1>3, <1>6, OnConcat
<1>10. Listed' = On(1, text \o line)
  <2>1. Listed' = SubSeq(c, a + 1, Len(c)) /\ Listed = SubSeq(s, a + 1, Len(s))
    BY <1>5, <1>6, <1>7 DEF Listed
  <2> QED  BY <1>8, <1>9, <2>1 DEF ListedAs
<1>11. (start.at \in 0..Len(said))'
  BY <1>5, <1>6, <1>7
<1>12. IsText(text \o line)
  BY TextConcat DEF ListedAs
<1> QED  BY <1>10, <1>11, <1>12 DEF ListedAs, On, IsText

(* A table that is begun with or without a heading.                        *)
LEMMA ListedFromHere ==
  ASSUME OutputInv, NEW line, IsText(line), said' = said \o On(1, line), start'.at = Len(said)
  PROVE  ListedAs(line)'
<1>1. PICK S, U : Ordered(io, said, S) /\ line \in Seq(U)
  BY DEF OutputInv, IsText
<1> DEFINE V == S \cup U
<1>2. line \in Seq(V) /\ Ordered(io, said, V)
  BY <1>1, SeqMonotonic, OrderedWidens
<1> HIDE DEF V
<1>3. PICK A : A = Atom(V)
  OBVIOUS
<1>4. PICK s \in Seq(A), x \in Seq(A) : s = said /\ x = On(1, line)
  BY <1>2, <1>3, OnTyped DEF Ordered
<1>5. PICK l \in Nat, n \in Nat : l = Len(s) /\ n = Len(x)
  BY LenProperties
<1>6. PICK c \in Seq(A) : c = s \o x /\ Len(c) = l + n
  BY <1>5, ConcatProperties
<1>7. \A k \in 1..(l + n) : c[k] = IF k <= l THEN s[k] ELSE x[k - l]
  BY <1>5, <1>6, ConcatProperties
<1>8. SubSeq(c, l + 1, Len(c)) = x
  <2>1. PICK y : y = SubSeq(c, l + 1, l + n)
    OBVIOUS
  <2>2. \A k \in (l + 1)..(l + n) : c[k] \in A
    BY <1>6, ElementOfSeq
  <2>3. /\ y \in Seq(A) /\ Len(y) = IF l + 1 <= l + n THEN (l + n) - (l + 1) + 1 ELSE 0
        /\ \A k \in 1..((l + n) - (l + 1) + 1) : y[k] = c[(l + 1) + k - 1]
    BY <2>1, <2>2, SubSeqProperties
  <2>4. Len(y) = n /\ (l + n) - (l + 1) + 1 = n
    BY <2>3
  <2>5. \A k \in 1..n : y[k] = x[k]
    <3> TAKE k \in 1..n
    <3>1. PICK p : p = (l + 1) + k - 1
      OBVIOUS
    <3>2. p \in 1..(l + n) /\ ~(p <= l) /\ p - l = k
      BY <3>1
    <3> QED  BY <1>7, <2>3, <2>4, <3>1, <3>2
  <2> QED  BY <1>5, <1>6, <2>1, <2>3, <2>4, <2>5, SeqEqual
<1>9. Listed' = On(1, line)
  BY <1>4, <1>5, <1>6, <1>8 DEF Listed
<1>10. (start.at \in 0..Len(said))'
  BY <1>4, <1>5, <1>6
<1> QED  BY <1>9, <1>10 DEF ListedAs, On, IsText

(* The first n names of the export table can be read and are exports.      *)
NamesRead(n) ==
  \A k \in 0..(n - 1) :
    /\ Has(Names, k) /\ Has(Ordinals, k)
    /\ LET ordinal == Cell(Img, Ordinals, k)
       IN ordinal < Naddrs /\ Has(Addrs, ordinal) /\ ordinal + Ordbase \in Word

SeenOf(n) == {Cell(Img, Ordinals, k) : k \in 0..(n - 1)}

(* The listing up to the n-th name, and up to the n-th nameless export.    *)
NamedText(n) == <<<<"EXPORTS">>>> \o FlattenSeq([k \in 1..n |-> NamedLine(k - 1)])
NamelessText(n) == NamedText(Nnames) \o FlattenSeq([k \in 1..n |-> NamelessLine(k - 1)])

(* While the names and the nameless exports are printed, what has been     *)
(* listed of this file is the beginning of its listing, and what has been  *)
(* read was in its place: so the walk ends at imports only for a table     *)
(* that is well formed.                                                    *)
ExportInv ==
  /\ phase \in {"sections", "exports"} => start.part = "sections"
  /\ phase \in {"modules", "entries", "listed"} => start.part # "exports"
  /\ phase = "names" =>
       /\ start.part = "exports" /\ ExportFault = Ok /\ i \in 0..Nnames
       /\ NamesRead(i) /\ seen = SeenOf(i)
       /\ ListedAs(NamedText(i))
  /\ phase = "nameless" =>
       /\ start.part = "exports" /\ ExportFault = Ok /\ i \in 0..Naddrs
       /\ NamesRead(Nnames) /\ seen = SeenOf(Nnames)
       /\ \A ordinal \in 0..(i - 1) : ordinal + Ordbase \in Word
       /\ ListedAs(NamelessText(i))
  /\ Opened => ExportsExact

LEMMA TablesKept ==
  ASSUME UNCHANGED <<job, args, map>>
  PROVE  /\ Img' = Img /\ Nnames' = Nnames /\ Naddrs' = Naddrs /\ Ordbase' = Ordbase
         /\ ExportFault' = ExportFault
         /\ \A n : NamesRead(n)' = NamesRead(n)
         /\ \A n : SeenOf(n)' = SeenOf(n)
         /\ \A n : NamedText(n)' = NamedText(n)
         /\ \A n : NamelessText(n)' = NamelessText(n)
         /\ ExportListing' = ExportListing
         /\ ExportsWellFormed' = ExportsWellFormed
<1>1. Img' = Img
  BY DEF Img
<1>2. /\ Nnames' = Nnames /\ Naddrs' = Naddrs /\ Ordbase' = Ordbase
      /\ Names' = Names /\ Ordinals' = Ordinals /\ Addrs' = Addrs
      /\ ExportFault' = ExportFault
  BY <1>1 DEF Nnames, Naddrs, Ordbase, Names, Ordinals, Addrs, ExportFault, Edata
<1>3. \A k : NamedLine(k)' = NamedLine(k)
  BY <1>1, <1>2 DEF NamedLine
<1>4. \A k : NamelessLine(k)' = NamelessLine(k)
  BY <1>1, <1>2 DEF NamelessLine
<1>5. \A n : NamedText(n)' = NamedText(n)
  BY <1>3 DEF NamedText
<1>6. \A n : NamelessText(n)' = NamelessText(n)
  BY <1>2, <1>4, <1>5 DEF NamelessText
<1>7. ExportListing' = ExportListing
  BY <1>2, <1>3, <1>4 DEF ExportListing
<1>8. ExportsWellFormed' = ExportsWellFormed
  BY <1>1, <1>2 DEF ExportsWellFormed
<1>9. \A n : NamesRead(n)' = NamesRead(n)
  BY <1>1, <1>2 DEF NamesRead
<1>10. \A n : SeenOf(n)' = SeenOf(n)
  BY <1>1, <1>2 DEF SeenOf
<1> QED  BY <1>1, <1>2, <1>5, <1>6, <1>7, <1>8, <1>9, <1>10

LEMMA DirectoryWords ==
  ASSUME NEW img \in Image
  PROVE  img.exports.rva \in Word /\ img.exports.len \in Word /\ img.imports.rva \in Word
<1>1. img.exports \in Directory /\ img.imports \in Directory
  BY DEF Image
<1> QED  BY <1>1 DEF Directory

LEMMA ExportTables ==
  ASSUME Img \in Image, map \in Seq(Span), Sound(Img, map), ExportFault = Ok
  PROVE  /\ Ordbase \in Word /\ Naddrs \in Word /\ Nnames \in Word
         /\ Inside(Img, Names) /\ Inside(Img, Addrs) /\ Inside(Img, Ordinals)
<1>1. Inside(Img, Edata)
  <2>1. Img.exports.rva \in Int
    BY WordIsNat, DirectoryWords
  <2> QED  BY <2>1, ViewInside DEF Edata
<1>2. Has(Edata, 5)
  BY DEF ExportFault, Ok, Eof
<1>3. \A k \in 0..5 : k \in Nat /\ Has(Edata, k)
  BY <1>1, <1>2 DEF Has, Inside
<1>4. \A k \in 0..5 : Cell(Img, Edata, k) \in Word
  BY <1>1, <1>3, CellInside
<1>5. \A k \in 0..5 : Inside(Img, LoadRva(map, Cell(Img, Edata, k)))
  BY <1>4, WordIsNat, ViewInside
<1> QED  BY <1>4, <1>5 DEF Ordbase, Naddrs, Nnames, Names, Addrs, Ordinals

LEMMA LineTexts ==
  ASSUME NEW k
  PROVE  IsText(NamedLine(k)) /\ IsText(NamelessLine(k))
<1> DEFINE ordinal == Cell(Img, Ordinals, k)
           target == Cell(Img, Addrs, ordinal)
           to == LoadRva(map, target)
           inside == Img.exports.rva <= target /\ target < Img.exports.rva + Img.exports.len
<1>1. PICK a, b, c, f : /\ a = Tab /\ b = Number(ordinal + Ordbase) /\ f = Forward(Text(Img, to))
                        /\ c = Name(Text(Img, LoadRva(map, Cell(Img, Names, k))))
  OBVIOUS
<1>2. NamedLine(k) = <<a, b, c>> \o (IF inside /\ to # Nowhere THEN <<f>> ELSE <<>>)
  BY <1>1 DEF NamedLine
<1>3. NamedLine(k) = <<a, b, c>> \o <<f>> \/ NamedLine(k) = <<a, b, c>> \o <<>>
  <2> HIDE DEF inside, to
  <2> QED  BY <1>2
<1>4. IsText(NamedLine(k))
  <2>1. IsText(<<a, b, c>>) /\ IsText(<<f>>) /\ IsText(<<>>)
    BY Texts
  <2> QED  BY <1>3, <2>1, TextConcat
<1>5. PICK d, e : d = Number(k + Ordbase) /\ e = NoName
  OBVIOUS
<1>6. NamelessLine(k) = <<>> \/ NamelessLine(k) = <<a, d, e>>
  BY <1>1, <1>5 DEF NamelessLine
<1> QED  BY <1>4, <1>6, Texts

(* One line more.                                                          *)
LEMMA NamedMore ==
  ASSUME NEW n \in Nat
  PROVE  IsText(NamedText(n)) /\ NamedText(n + 1) = NamedText(n) \o NamedLine(n)
<1> DEFINE f == [k \in 1..(n + 1) |-> NamedLine(k - 1)]
           g == [k \in 1..n |-> NamedLine(k - 1)]
<1>1. \A k \in 1..(n + 1) : IsText(f[k])
  BY LineTexts
<1>2. f = [k \in 1..(n + 1) |-> f[k]] /\ g = [k \in 1..n |-> f[k]] /\ f[n + 1] = NamedLine(n)
  <2>1. (n + 1) - 1 = n /\ n + 1 \in 1..(n + 1) /\ \A k \in 1..n : k \in 1..(n + 1)
    OBVIOUS
  <2>2. f[n + 1] = NamedLine((n + 1) - 1)
    BY <2>1
  <2> QED  BY <2>1, <2>2
<1>3. NamedText(n) = <<<<"EXPORTS">>>> \o FlattenSeq(g)
      /\ NamedText(n + 1) = <<<<"EXPORTS">>>> \o FlattenSeq(f)
  BY DEF NamedText
<1> HIDE DEF f, g
<1>4. FlattensOn(f, g, NamedLine(n))
  BY <1>1, <1>2, FlattenMore
<1>5. PICK h : h = <<<<"EXPORTS">>>>
  OBVIOUS
<1>6. Grouped(h, FlattenSeq(g), NamedLine(n))
  BY <1>4, <1>5, Texts, LineTexts, TextsAssociate DEF FlattensOn
<1>7. IsText(h \o FlattenSeq(g))
  BY <1>4, <1>5, Texts, TextConcat DEF FlattensOn
<1> QED  BY <1>3, <1>4, <1>5, <1>6, <1>7 DEF FlattensOn, Grouped

LEMMA NamelessMore ==
  ASSUME NEW n \in Nat, IsText(NamedText(Nnames))
  PROVE  NamelessText(n + 1) = NamelessText(n) \o NamelessLine(n)
<1> DEFINE f == [k \in 1..(n + 1) |-> NamelessLine(k - 1)]
           g == [k \in 1..n |-> NamelessLine(k - 1)]
<1>1. \A k \in 1..(n + 1) : IsText(f[k])
  BY LineTexts
<1>2. f = [k \in 1..(n + 1) |-> f[k]] /\ g = [k \in 1..n |-> f[k]] /\ f[n + 1] = NamelessLine(n)
  <2>1. (n + 1) - 1 = n /\ n + 1 \in 1..(n + 1) /\ \A k \in 1..n : k \in 1..(n + 1)
    OBVIOUS
  <2>2. f[n + 1] = NamelessLine((n + 1) - 1)
    BY <2>1
  <2> QED  BY <2>1, <2>2
<1>3. /\ NamelessText(n) = NamedText(Nnames) \o FlattenSeq(g)
      /\ NamelessText(n + 1) = NamedText(Nnames) \o FlattenSeq(f)
  BY DEF NamelessText
<1> HIDE DEF f, g
<1>4. FlattensOn(f, g, NamelessLine(n))
  BY <1>1, <1>2, FlattenMore
<1>5. Grouped(NamedText(Nnames), FlattenSeq(g), NamelessLine(n))
  BY <1>4, LineTexts, TextsAssociate DEF FlattensOn
<1> QED  BY <1>3, <1>4, <1>5 DEF FlattensOn, Grouped

LEMMA ListingBegins ==
  /\ NamedText(0) = <<<<"EXPORTS">>>>
  /\ IsText(NamedText(Nnames)) => NamelessText(0) = NamedText(Nnames)
<1>1. PICK e : e = <<<<"EXPORTS">>>>
  OBVIOUS
<1>2. IsText(e)
  BY <1>1, Texts
<1>3. \A t : IsText(t) => t \o <<>> = t
  BY ConcatEmptySeq DEF IsText
<1>4. FlattenSeq([k \in 1..0 |-> NamedLine(k - 1)]) = <<>>
      /\ FlattenSeq([k \in 1..0 |-> NamelessLine(k - 1)]) = <<>>
  <2>1. \A k \in 1..0 : FALSE
    OBVIOUS
  <2>2. [k \in 1..0 |-> NamedLine(k - 1)] = <<>> /\ [k \in 1..0 |-> NamelessLine(k - 1)] = <<>>
    BY <2>1
  <2> QED  BY <2>2, FlattenEmpty
<1> QED  BY <1>1, <1>2, <1>3, <1>4 DEF NamedText, NamelessText

LEMMA ListingEnds ==
  ASSUME ExportFault = Ok, NamesRead(Nnames),
         \A ordinal \in 0..(Naddrs - 1) : ordinal + Ordbase \in Word
  PROVE  ExportsWellFormed /\ NamelessText(Naddrs) = ExportListing
<1>1. ExportsWellFormed
  BY DEF NamesRead, ExportsWellFormed
<1>2. NamelessText(Naddrs) = ExportListing
  BY DEF NamelessText, NamedText, ExportListing
<1> QED  BY <1>1, <1>2

(* Where no export table is being listed.                                  *)
LEMMA NoExports ==
  ASSUME phase' \notin {"names", "nameless"}, Opened' => (start.part)' # "exports",
         phase' \in {"sections", "exports"} => (start.part)' = "sections"
  PROVE  ExportInv'
BY DEF ExportInv, ExportsExact, Opened

(* What is known of the file while its tables are read.                    *)
LEMMA ReadingFile ==
  ASSUME MapInv, ReportInv, Opened, phase # "caught"
  PROVE  Img \in Image /\ Img.header = Ok /\ map \in Seq(Span) /\ Sound(Img, map)
<1>1. phase # "options" /\ args # <<>> /\ Img.header = Ok
  BY DEF MapInv, ReportInv, Opened
<1> QED  BY <1>1, ImageOpened DEF MapInv

LEMMA ExportsBegin ==
  ASSUME MapInv, OutputInv, ReportInv, ExportInv, BeginExports
  PROVE  ExportInv'
<1>1. phase = "exports" /\ start.part = "sections"
  BY DEF BeginExports, ExportInv
<1>2. CASE Go("imports") \/ Throw(ExportFault, <<<<"EXPORTS">>>>)
  <2>1. phase' \in {"imports", "caught"} /\ start' = start
    BY <1>2 DEF Go, Enter, Throw
  <2> QED  BY <1>1, <2>1, NoExports DEF Opened
<1>3. CASE /\ ExportFault = Ok /\ Enter("names") /\ Say(<<<<"EXPORTS">>>>)
           /\ start' = Mark("exports") /\ i' = 0 /\ seen' = {} /\ UNCHANGED map
  <2>1. UNCHANGED <<job, args, map>> /\ phase' = "names"
    BY <1>3 DEF Enter, options
  <2>2. Img \in Image /\ map \in Seq(Span) /\ Sound(Img, map)
    BY <1>1, ReadingFile DEF Opened
  <2>3. Nnames \in Nat
    BY <1>3, <2>2, ExportTables, WordIsNat
  <2>4. NamesRead(0) /\ SeenOf(0) = {}
    <3>1. \A k \in 0..(0 - 1) : FALSE
      OBVIOUS
    <3> QED  BY <3>1 DEF NamesRead, SeenOf
  <2>5. PICK h : h = <<<<"EXPORTS">>>> /\ h = NamedText(0)
    BY ListingBegins
  <2>6. ListedAs(h)'
    <3>1. start'.at = Len(said)
      BY <1>3 DEF Mark
    <3>2. said' = said \o On(1, h)
      BY <1>3, <2>5 DEF Say
    <3>3. IsText(h)
      BY <2>5, Texts
    <3> QED  BY <3>1, <3>2, <3>3, ListedFromHere
  <2>7. /\ ExportFault' = Ok /\ Nnames' \in Nat /\ NamesRead(0)' /\ SeenOf(0)' = {}
        /\ NamedText(0)' = h
    BY <1>3, <2>1, <2>3, <2>4, <2>5, TablesKept
  <2>8. (start.part)' = "exports"
    BY <1>3 DEF Mark
  <2>9. i' \in 0..Nnames' /\ NamesRead(i)' /\ seen' = SeenOf(i)' /\ NamedText(i)' = h
    BY <1>3, <2>7
  <2>10. ListedAs(NamedText(i))'
    BY <2>6, <2>9 DEF ListedAs
  <2>11. ExportsExact'
    BY <2>1 DEF ExportsExact
  <2> QED  BY <2>1, <2>7, <2>8, <2>9, <2>10, <2>11 DEF ExportInv
<1> QED  BY <1>2, <1>3 DEF BeginExports, walk

(* Reading is given up only on a table that is not well-formed.            *)
LEMMA ExportsGivenUp ==
  ASSUME phase \in {"names", "nameless"}, ~ExportsWellFormed, phase' = "caught",
         UNCHANGED <<job, args, map>>
  PROVE  ExportInv'
<1>1. ~ExportsWellFormed'
  BY TablesKept
<1> QED  BY <1>1 DEF ExportInv, ExportsExact

LEMMA NameStep ==
  ASSUME MapInv, OutputInv, ReportInv, ExportInv, NameExport
  PROVE  ExportInv'
<1>1. /\ phase = "names" /\ start.part = "exports" /\ ExportFault = Ok /\ i \in 0..Nnames /\ i < Nnames
      /\ NamesRead(i) /\ seen = SeenOf(i) /\ ListedAs(NamedText(i))
  BY DEF NameExport, ExportInv
<1>2. Img \in Image /\ map \in Seq(Span) /\ Sound(Img, map)
  BY <1>1, ReadingFile DEF Opened
<1>3. /\ Ordbase \in Nat /\ Naddrs \in Nat /\ Nnames \in Nat
      /\ Inside(Img, Names) /\ Inside(Img, Addrs) /\ Inside(Img, Ordinals)
  BY <1>1, <1>2, ExportTables, WordIsNat
<1> DEFINE ordinal == Cell(Img, Ordinals, i)
           target == Cell(Img, Addrs, ordinal)
           line == <<Tab, Number(ordinal + Ordbase),
                     Name(Text(Img, LoadRva(map, Cell(Img, Names, i))))>> \o Forwarder(target)
           fine == /\ Has(Ordinals, i) /\ ordinal < Naddrs /\ Has(Addrs, ordinal)
                   /\ Adds(ordinal, Ordbase) /\ Has(Names, i)
<1>4. i \in Nat /\ i \in 0..(Nnames - 1)
  BY <1>1, <1>3
<1>5. Has(Ordinals, i) => ordinal \in Nat
  BY <1>2, <1>3, <1>4, CellInside, WordIsNat
<1>6. Has(Ordinals, i) => (Adds(ordinal, Ordbase) <=> ordinal + Ordbase \in Word)
  <2> HIDE DEF ordinal
  <2> QED  BY <1>3, <1>5, WordIsNat DEF Adds, Word
<1>7. CASE ~fine
  <2>1. ~ExportsWellFormed
    <3> SUFFICES ASSUME ExportsWellFormed PROVE FALSE
      OBVIOUS
    <3>1. Has(Names, i) /\ Has(Ordinals, i) /\ ordinal < Naddrs /\ Has(Addrs, ordinal)
      BY <1>4 DEF ExportsWellFormed
    <3>2. ordinal \in 0..(Naddrs - 1)
      <4> HIDE DEF ordinal
      <4> QED  BY <1>3, <1>5, <3>1
    <3>3. ordinal + Ordbase \in Word
      <4> HIDE DEF ordinal
      <4> QED  BY <3>2 DEF ExportsWellFormed
    <3> QED  BY <1>6, <1>7, <3>1, <3>3
  <2>2. phase' = "caught" /\ UNCHANGED <<job, args, map>>
    <3>1. Has(Ordinals, i) => (OrdinalTooBig(ordinal) <=> ~(ordinal < Naddrs))
      <4> HIDE DEF ordinal
      <4> QED  BY <1>3, <1>5 DEF OrdinalTooBig
    <3>2. \/ Throw(Eof, <<>>) \/ Throw("invalid export ordinal", <<>>)
          \/ Throw(Overflow, <<Tab>>) \/ Throw(Eof, <<Tab, Number(ordinal + Ordbase)>>)
      BY <1>7, <3>1, Zenon DEF NameExport
    <3> QED  BY <3>2 DEF Throw, options, walk
  <2> QED  BY <1>1, <2>1, <2>2, ExportsGivenUp
<1>8. CASE fine
  <2>1. /\ phase' = "names" /\ UNCHANGED <<job, args, map, start>>
        /\ said' = said \o On(1, line)
        /\ seen' = seen \cup {ordinal} /\ i' = i + 1
    <3>1. ~OrdinalTooBig(ordinal)
      <4> HIDE DEF ordinal
      <4> QED  BY <1>3, <1>5, <1>8 DEF OrdinalTooBig
    <3> QED  BY <1>8, <3>1 DEF NameExport, Go, Enter, Say, options
  <2>2. NamesRead(i + 1)
    <3> SUFFICES ASSUME NEW k \in 0..((i + 1) - 1)
                 PROVE  /\ Has(Names, k) /\ Has(Ordinals, k)
                        /\ Cell(Img, Ordinals, k) < Naddrs /\ Has(Addrs, Cell(Img, Ordinals, k))
                        /\ Cell(Img, Ordinals, k) + Ordbase \in Word
      BY DEF NamesRead
    <3>1. CASE k = i
      BY <1>6, <1>8, <3>1
    <3>2. CASE k # i
      <4>1. k \in 0..(i - 1)
        BY <1>4, <3>2
      <4> QED  BY <1>1, <4>1 DEF NamesRead
    <3> QED  BY <3>1, <3>2
  <2>3. SeenOf(i + 1) = SeenOf(i) \cup {ordinal}
    <3>1. 0..((i + 1) - 1) = (0..(i - 1)) \cup {i}
      BY <1>4
    <3> QED  BY <3>1 DEF SeenOf
  <2>4. line = NamedLine(i)
    <3>1. target \in Word
      <4> HIDE DEF ordinal
      <4> QED  BY <1>2, <1>3, <1>5, <1>8, CellInside
    <3>2. Has(LoadRva(map, target), 0) <=> LoadRva(map, target) # Nowhere
      <4>1. target \in Int
        <5> HIDE DEF target
        <5> QED  BY <3>1, WordIsNat
      <4> HIDE DEF target
      <4> QED  BY <1>2, <4>1, ViewInside
    <3>3. Forwarder(target) =
            IF /\ Img.exports.rva <= target /\ target < Img.exports.rva + Img.exports.len
               /\ LoadRva(map, target) # Nowhere
            THEN <<Forward(Text(Img, LoadRva(map, target)))>> ELSE <<>>
      <4> HIDE DEF target
      <4> QED  BY <3>2 DEF Forwarder
    <3> QED  BY <3>3 DEF NamedLine
  <2>5. IsText(NamedLine(i)) /\ NamedText(i + 1) = NamedText(i) \o NamedLine(i)
    BY <1>4, LineTexts, NamedMore
  <2>6. PICK t, l : t = NamedText(i) /\ l = NamedLine(i)
    OBVIOUS
  <2>7. ListedAs(t \o l)'
    <3>1. said' = said \o On(1, l)
      <4> HIDE DEF line
      <4> QED  BY <2>1, <2>4, <2>6
    <3>2. ListedAs(t) /\ IsText(l) /\ UNCHANGED start
      BY <1>1, <2>1, <2>5, <2>6
    <3> QED  BY <3>1, <3>2, ListedMore
  <2> HIDE DEF ordinal, line
  <2>8. PICK n : n = i + 1
    OBVIOUS
  <2>9. /\ ExportFault' = Ok /\ Nnames' = Nnames /\ NamesRead(n)' /\ SeenOf(n)' = seen'
        /\ NamedText(n)' = t \o l
    BY <1>1, <2>1, <2>2, <2>3, <2>5, <2>6, <2>8, TablesKept
  <2>10. /\ i' \in 0..Nnames' /\ NamesRead(i)' /\ seen' = SeenOf(i)' /\ NamedText(i)' = t \o l
    <3>1. i + 1 \in 0..Nnames
      BY <1>3, <1>4
    <3> QED  BY <2>1, <2>8, <2>9, <3>1
  <2>11. ListedAs(NamedText(i))'
    BY <2>7, <2>10 DEF ListedAs
  <2>12. ExportsExact' /\ (start.part)' = "exports"
    BY <1>1, <2>1 DEF ExportsExact
  <2> QED  BY <2>1, <2>9, <2>10, <2>11, <2>12 DEF ExportInv
<1> QED  BY <1>7, <1>8

LEMMA NamesEnd ==
  ASSUME MapInv, ReportInv, ExportInv, EndNames
  PROVE  ExportInv'
<1>1. /\ phase = "names" /\ start.part = "exports" /\ ExportFault = Ok /\ i = Nnames
      /\ NamesRead(i) /\ seen = SeenOf(i) /\ ListedAs(NamedText(i))
  BY DEF EndNames, ExportInv
<1>2. /\ phase' = "nameless" /\ i' = 0
      /\ UNCHANGED <<job, args, map, seen, said, start>>
  BY DEF EndNames, Go, Enter, options, output
<1>3. Naddrs \in Nat
  BY <1>1, ReadingFile, ExportTables, WordIsNat DEF Opened
<1>4. PICK t : t = NamedText(Nnames) /\ t = NamelessText(0) /\ ListedAs(t)
  BY <1>1, ListingBegins DEF ListedAs
<1>5. /\ ExportFault' = Ok /\ Naddrs' = Naddrs /\ NamesRead(Nnames)' /\ SeenOf(Nnames)' = seen
      /\ NamelessText(0)' = t
  <2>1. PICK n : n = Nnames
    OBVIOUS
  <2>2. NamesRead(n)' /\ SeenOf(n)' = seen /\ n' = n /\ Nnames' = n
    BY <1>1, <1>2, <2>1, TablesKept
  <2> QED  BY <1>1, <1>2, <1>4, <2>2, TablesKept
<1>6. i' \in 0..Naddrs' /\ NamelessText(i)' = t
  BY <1>2, <1>3, <1>5
<1>7. ListedAs(NamelessText(i))'
  <2>1. ListedAs(t)'
    BY <1>2, <1>4 DEF ListedAs, Listed
  <2> QED  BY <1>6, <2>1 DEF ListedAs
<1>8. (\A ordinal \in 0..(i - 1) : ordinal + Ordbase \in Word)'
  <2>1. \A ordinal \in 0..(0 - 1) : FALSE
    OBVIOUS
  <2> QED  BY <1>2, <2>1
<1> QED  BY <1>1, <1>2, <1>5, <1>6, <1>7, <1>8 DEF ExportInv, ExportsExact

LEMMA NamelessStep ==
  ASSUME MapInv, OutputInv, ReportInv, ExportInv, NamelessExport
  PROVE  ExportInv'
<1>1. /\ phase = "nameless" /\ start.part = "exports" /\ ExportFault = Ok
      /\ i \in 0..Naddrs /\ i < Naddrs /\ NamesRead(Nnames) /\ seen = SeenOf(Nnames)
      /\ \A ordinal \in 0..(i - 1) : ordinal + Ordbase \in Word
      /\ ListedAs(NamelessText(i))
  BY DEF NamelessExport, ExportInv
<1>2. Ordbase \in Nat /\ Naddrs \in Nat
  BY <1>1, ReadingFile, ExportTables, WordIsNat DEF Opened
<1>3. i \in Nat /\ i \in 0..(Naddrs - 1) /\ i + 1 \in 0..Naddrs
  BY <1>1, <1>2
<1>4. i \in seen <=> \E k \in 0..(Nnames - 1) : i = Cell(Img, Ordinals, k)
  BY <1>1 DEF SeenOf
<1>5. Adds(i, Ordbase) <=> i + Ordbase \in Word
  BY <1>2, <1>3, WordIsNat DEF Adds, Word
<1>6. CASE i \notin seen /\ ~Adds(i, Ordbase)
  <2>1. ~ExportsWellFormed
    BY <1>3, <1>5, <1>6 DEF ExportsWellFormed
  <2>2. phase' = "caught" /\ UNCHANGED <<job, args, map>>
    BY <1>6 DEF NamelessExport, Throw, options, walk
  <2> QED  BY <1>1, <2>1, <2>2, ExportsGivenUp
<1>7. CASE i \in seen \/ Adds(i, Ordbase)
  <2>1. /\ phase' = "nameless" /\ UNCHANGED <<job, args, map, start, seen>> /\ i' = i + 1
    BY <1>7 DEF NamelessExport, Go, Enter, options
  <2>2. i + Ordbase \in Word
    <3>1. CASE i \in seen
      <4>1. PICK k \in 0..(Nnames - 1) : i = Cell(Img, Ordinals, k)
        BY <1>4, <3>1
      <4> QED  BY <1>1, <4>1 DEF NamesRead
    <3> QED  BY <1>5, <1>7, <3>1
  <2>3. \A ordinal \in 0..((i + 1) - 1) : ordinal + Ordbase \in Word
    <3> TAKE ordinal \in 0..((i + 1) - 1)
    <3>1. ordinal = i \/ ordinal \in 0..(i - 1)
      BY <1>3
    <3> QED  BY <1>1, <2>2, <3>1
  <2>4. /\ IsText(NamelessLine(i)) /\ IsText(NamedText(Nnames))
        /\ NamelessText(i + 1) = NamelessText(i) \o NamelessLine(i)
    <3>1. Nnames \in Nat
      BY <1>1, ReadingFile, ExportTables, WordIsNat DEF Opened
    <3>2. IsText(NamedText(Nnames))
      BY <3>1, NamedMore
    <3> QED  BY <1>3, <3>2, LineTexts, NamelessMore
  <2>5. PICK t, l : t = NamelessText(i) /\ l = NamelessLine(i)
    OBVIOUS
  <2>6. ListedAs(t \o l)'
    <3>1. CASE i \in seen
      <4>1. l = <<>> /\ said' = said
        BY <1>4, <2>5, <3>1 DEF NamelessLine, NamelessExport, output
      <4>2. t \o l = t
        BY <1>1, <2>5, <4>1, ConcatEmptySeq DEF ListedAs, IsText
      <4> QED  BY <1>1, <2>1, <2>5, <4>1, <4>2 DEF ListedAs, Listed
    <3>2. CASE i \notin seen
      <4>1. l = <<Tab, Number(i + Ordbase), NoName>>
        BY <1>4, <2>5, <3>2 DEF NamelessLine
      <4>2. said' = said \o On(1, l)
        BY <1>7, <3>2, <4>1 DEF NamelessExport, Say
      <4>3. ListedAs(t) /\ IsText(l)
        BY <1>1, <2>4, <2>5
      <4> QED  BY <2>1, <4>2, <4>3, ListedMore
    <3> QED  BY <3>1, <3>2
  <2>7. PICK n : n = i + 1
    OBVIOUS
  <2>8. /\ ExportFault' = Ok /\ Naddrs' = Naddrs /\ Ordbase' = Ordbase
        /\ NamesRead(Nnames)' /\ SeenOf(Nnames)' = seen'
        /\ NamelessText(n)' = t \o l
    <3>1. PICK m : m = Nnames
      OBVIOUS
    <3>2. NamesRead(m)' /\ SeenOf(m)' = seen' /\ m' = m /\ Nnames' = m
      BY <1>1, <2>1, <3>1, TablesKept
    <3> QED  BY <1>1, <2>1, <2>4, <2>5, <2>7, <3>2, TablesKept
  <2>9. i' \in 0..Naddrs' /\ NamelessText(i)' = t \o l
    BY <1>3, <2>1, <2>7, <2>8
  <2>10. ListedAs(NamelessText(i))'
    BY <2>6, <2>9 DEF ListedAs
  <2>11. (\A ordinal \in 0..(i - 1) : ordinal + Ordbase \in Word)'
    BY <2>1, <2>3, <2>8
  <2> QED  BY <1>1, <2>1, <2>8, <2>9, <2>10, <2>11 DEF ExportInv, ExportsExact
<1> QED  BY <1>6, <1>7

LEMMA ExportsEnd ==
  ASSUME MapInv, ReportInv, ExportInv, EndExports
  PROVE  ExportInv'
<1>1. /\ phase = "nameless" /\ start.part = "exports" /\ ExportFault = Ok /\ i = Naddrs
      /\ NamesRead(Nnames) /\ ListedAs(NamelessText(i))
      /\ \A ordinal \in 0..(i - 1) : ordinal + Ordbase \in Word
  BY DEF EndExports, ExportInv
<1>2. phase' = "imports" /\ UNCHANGED <<job, args, map, said, start>>
  BY DEF EndExports, Go, Enter, options, output, walk
<1>3. ExportsWellFormed /\ Listed = On(1, ExportListing)
  BY <1>1, ListingEnds DEF ListedAs
<1>4. PICK t : t = ExportListing
  OBVIOUS
<1>5. ExportsWellFormed' /\ ExportListing' = t /\ Listed' = On(1, t)
  BY <1>2, <1>3, <1>4, TablesKept DEF Listed
<1>6. ExportsExact'
  BY <1>2, <1>5 DEF ExportsExact, On
<1> QED  BY <1>2, <1>6 DEF ExportInv

LEMMA ExportInit == Init => ExportInv
<1> SUFFICES ASSUME Init PROVE ExportInv
  OBVIOUS
<1>1. phase = "options"
  BY DEF Init
<1> QED  BY <1>1 DEF ExportInv, Opened

LEMMA ExportStep == MapInv /\ OutputInv /\ ReportInv /\ ExportInv /\ [Next]_vars => ExportInv'
<1> SUFFICES ASSUME MapInv, OutputInv, ReportInv, ExportInv, [Next]_vars PROVE ExportInv'
  OBVIOUS
<1>1. CASE TakeOption \/ EndOptions \/ NextFile \/ Catch \/ Finish
  <2>1. phase' \in {"options", "files"}
    BY <1>1 DEF TakeOption, EndOptions, NextFile, Catch, Caught, Finish, options
  <2> QED  BY <2>1, NoExports DEF Opened
<1>2. CASE OpenFile
  <2>1. CASE Img.header # Ok /\ Throw(Img.header, <<>>)
    <3>1. phase' = "caught" /\ Img' = Img
      BY <2>1 DEF Throw, options, Img
    <3> QED  BY <2>1, <3>1 DEF ExportInv, ExportsExact
  <2>2. CASE Enter("sections") /\ start' = Mark("sections")
    BY <2>2, NoExports DEF Enter, Mark
  <2> QED  BY <1>2, <2>1, <2>2 DEF OpenFile
<1>3. CASE LoadSection \/ EndSections
  <2>1. /\ start.part = "sections" /\ UNCHANGED start
        /\ phase' \in {"sections", "exports", "caught"}
    BY <1>3 DEF LoadSection, EndSections, Throw, Go, Enter, ExportInv
  <2> QED  BY <2>1, NoExports
<1>4. CASE BeginExports \/ NameExport \/ EndNames \/ NamelessExport \/ EndExports
  BY <1>4, ExportsBegin, NameStep, NamesEnd, NamelessStep, ExportsEnd
<1>5. CASE BeginImports
  <2>1. phase' \in {"modules", "listed"} /\ (start.part)' \in {"imports", "none"}
    BY <1>5 DEF BeginImports, Enter, Mark
  <2> QED  BY <2>1, NoExports
<1>6. CASE ReadModule \/ ReadEntry
  <2>1. /\ start.part # "exports" /\ UNCHANGED start
        /\ phase' \in {"modules", "entries", "listed", "caught"}
    BY <1>6 DEF ReadModule, ReadEntry, Throw, Go, Enter, ExportInv
  <2> QED  BY <2>1, NoExports
<1>7. CASE Exited \/ UNCHANGED vars
  <2>1. UNCHANGED <<job, args, map, phase, i, seen, said, start>>
    BY <1>7 DEF Exited, vars, options, walk, output
  <2>2. CASE phase \in {"names", "nameless", "imports", "caught"}
    <3>1. PICK m, n, t, u, v :
            m = Nnames /\ n = i /\ t = NamedText(i) /\ u = NamelessText(i) /\ v = ExportListing
      OBVIOUS
    <3>2. /\ NamedText(n)' = t /\ NamelessText(n)' = u /\ ExportListing' = v
          /\ NamesRead(n)' = NamesRead(n) /\ NamesRead(m)' = NamesRead(m)
          /\ SeenOf(n)' = SeenOf(n) /\ SeenOf(m)' = SeenOf(m)
          /\ Nnames' = m /\ Naddrs' = Naddrs /\ ExportFault' = ExportFault /\ Ordbase' = Ordbase
          /\ ExportsWellFormed' = ExportsWellFormed /\ Img' = Img /\ i' = n
      BY <2>1, <3>1, TablesKept
    <3>3. \A text : ListedAs(text)' = ListedAs(text)
      BY <2>1 DEF ListedAs, Listed, On, IsText
    <3>4. ListedAs(NamedText(i))' = ListedAs(NamedText(i))
      BY <3>1, <3>2, <3>3 DEF ListedAs
    <3>5. ListedAs(NamelessText(i))' = ListedAs(NamelessText(i))
      BY <3>1, <3>2, <3>3 DEF ListedAs
    <3>6. (Listed = On(1, ExportListing))' = (Listed = On(1, ExportListing))
      BY <2>1, <3>1, <3>2 DEF Listed, On
    <3> QED
      BY <2>1, <2>2, <3>1, <3>2, <3>4, <3>5, <3>6 DEF ExportInv, ExportsExact, Opened
  <2>3. CASE phase \notin {"names", "nameless", "imports", "caught"}
    BY <2>1, <2>3 DEF ExportInv, ExportsExact, Opened
  <2> QED  BY <2>2, <2>3
<1> QED  BY <1>1, <1>2, <1>3, <1>4, <1>5, <1>6, <1>7 DEF Next

(* The exports of a file are listed as complete only if its table is well  *)
(* formed, and then exactly: a line for each name and one for each export  *)
(* without a name, with its ordinal, and its forwarder where the address   *)
(* is in the directory (384-447). No well-formed table is given up on.     *)
THEOREM ExportsAreExact == Spec => []ExportsExact
<1>1. ExportInv => ExportsExact
  BY DEF ExportInv, ExportsExact, Opened
<1> QED
  BY <1>1, MapInit, MapStep, OutputInit, OutputStep, ReportInit, ReportStep,
     ExportInit, ExportStep, PTL DEF Spec

(* The listing of a module up to its n-th entry.                           *)
ModuleText(k, n) ==
  <<Name(Text(Img, LoadRva(map, NameRva(k))))>>
  \o FlattenSeq([m \in 1..n |-> ImportLine(k, m - 1)])

(* x is the earliest of the first n lookup tables.                         *)
EarliestOf(x, n) ==
  /\ x \in Word
  /\ \A k \in 0..(n - 1) : x <= Table(k)
  /\ x = MaxWord \/ \E k \in 0..(n - 1) : x = Table(k)

(* How far a directory of n modules has been listed.                       *)
ListingModules(n) ==
  i \in 0..n /\ EarliestOf(first, i) /\ ListedAs(ImportListing(i))
ListingEntries(n) ==
  /\ i \in 0..(n - 1) /\ EarliestOf(first, i + 1)
  /\ j \in 0..Min(Length(i))
  /\ ListedAs(ImportListing(i) \o ModuleText(i, j))

(* While the import directory is walked, and if it ends properly at all,   *)
(* what has been listed of it is the beginning of its listing, and the     *)
(* walk is not beyond its end.                                             *)
ImportInv ==
  /\ phase \in {"sections", "exports", "names", "nameless", "imports"} => start.part # "imports"
  /\ phase \in {"modules", "entries"} => start.part = "imports"
  /\ phase = "modules" => \A n \in Directories : ListingModules(n)
  /\ phase = "entries" => \A n \in Directories : ListingEntries(n)
  /\ Opened => ImportsExact

LEMMA ImportsKept ==
  ASSUME UNCHANGED <<job, args, map>>
  PROVE  /\ Img' = Img /\ Directories' = Directories
         /\ \A k : Table(k)' = Table(k)
         /\ \A k : Length(k)' = Length(k)
         /\ \A k, n : ModuleText(k, n)' = ModuleText(k, n)
         /\ \A n : ImportListing(n)' = ImportListing(n)
<1>1. Img' = Img
  BY DEF Img
<1>2. Idata' = Idata /\ Width' = Width
  BY <1>1 DEF Idata, Width
<1>3. \A k : Table(k)' = Table(k) /\ NameRva(k)' = NameRva(k) /\ HasEntry(k)' = HasEntry(k)
  BY <1>1, <1>2 DEF Table, NameRva, HasEntry
<1>4. \A k : TableView(k)' = TableView(k)
  BY <1>3 DEF TableView
<1>5. \A view, k : Import(view, k)' = Import(view, k)
  BY <1>1 DEF Import
<1>6. \A k, n : Ends(k, n)' = Ends(k, n)
  BY <1>2, <1>4, <1>5 DEF Ends
<1>7. \A k, n : Intact(k, n)' = Intact(k, n)
  BY <1>3, <1>4, <1>5, <1>6 DEF Intact
<1>8. \A k : Length(k)' = Length(k)
  BY <1>1, <1>6 DEF Length
<1>9. \A n : StopsAt(n)' = StopsAt(n)
  BY <1>1, <1>3 DEF StopsAt
<1>10. Directories' = Directories
  BY <1>1, <1>7, <1>8, <1>9 DEF Directories
<1>11. \A k, m : ImportLine(k, m)' = ImportLine(k, m)
  BY <1>1, <1>4, <1>5 DEF ImportLine
<1>12. \A k, n : ModuleText(k, n)' = ModuleText(k, n)
  BY <1>1, <1>3, <1>11 DEF ModuleText
<1>13. \A k : ModuleLines(k)' = ModuleLines(k)
  BY <1>1, <1>3, <1>8, <1>11 DEF ModuleLines
<1>14. \A n : ImportListing(n)' = ImportListing(n)
  BY <1>13 DEF ImportListing
<1> QED  BY <1>1, <1>3, <1>8, <1>10, <1>12, <1>14

(* The length of an intact module.                                         *)
LEMMA ModuleLength ==
  ASSUME NEW n \in Directories, NEW k \in 0..(n - 1)
  PROVE  /\ Min(Length(k)) \in Nat /\ Intact(k, Min(Length(k))) /\ ~StopsAt(k)
<1>1. n \in Int /\ (\E m \in Length(k) : Intact(k, m)) /\ ~StopsAt(k)
  BY DEF Directories
<1>2. PICK m \in Length(k) : Intact(k, m)
  BY <1>1
<1>3. PICK l : l = Len(Img.raw)
  OBVIOUS
<1>4. Length(k) = {x \in 0..l : Ends(k, x)}
  BY <1>3 DEF Length
<1>5. m \in Nat /\ Ends(k, m)
  BY <1>4
<1>6. ASSUME NEW p \in Length(k) PROVE p = m
  <2>1. p \in Nat /\ Ends(k, p)
    BY <1>4
  <2>2. ~(m < p)
    <3> SUFFICES ASSUME m < p PROVE FALSE
      OBVIOUS
    <3>1. m \in 0..(p - 1)
      BY <1>5, <2>1
    <3> QED  BY <1>5, <2>1, <3>1 DEF Ends
  <2>3. ~(p < m)
    <3> SUFFICES ASSUME p < m PROVE FALSE
      OBVIOUS
    <3>1. p \in 0..(m - 1)
      BY <1>5, <2>1
    <3> QED  BY <1>5, <2>1, <3>1 DEF Ends
  <2> QED  BY <1>5, <2>1, <2>2, <2>3
<1>7. Min(Length(k)) = m
  <2>1. \E x \in Length(k) : \A y \in Length(k) : x <= y
    BY <1>2, <1>5, <1>6
  <2>2. Min(Length(k)) \in Length(k)
    BY <2>1 DEF Min
  <2> QED  BY <1>6, <2>2
<1> QED  BY <1>1, <1>2, <1>5, <1>7

LEMMA ImportTexts ==
  ASSUME NEW k, NEW m
  PROVE  IsText(ImportLine(k, m))
<1>1. PICK a, b, c, d, e :
        LET addr == Import(TableView(k), m)
            entry == LoadRva(map, addr)
        IN a = Tab /\ b = Number(addr - Sign) /\ c = NoName
           /\ d = Number(Cell(Img, entry, 0)) /\ e = Name(Text(Img, From(entry, 1)))
  OBVIOUS
<1>2. ImportLine(k, m) = <<a, b, c>> \/ ImportLine(k, m) = <<a, d, e>>
  BY <1>1 DEF ImportLine
<1> QED  BY <1>2, Texts

LEMMA ModuleMore ==
  ASSUME NEW k, NEW n \in Nat
  PROVE  /\ IsText(ModuleText(k, n))
         /\ ModuleText(k, n + 1) = ModuleText(k, n) \o ImportLine(k, n)
<1> DEFINE f == [m \in 1..(n + 1) |-> ImportLine(k, m - 1)]
           g == [m \in 1..n |-> ImportLine(k, m - 1)]
<1>1. \A m \in 1..(n + 1) : IsText(f[m])
  BY ImportTexts
<1>2. f = [m \in 1..(n + 1) |-> f[m]] /\ g = [m \in 1..n |-> f[m]] /\ f[n + 1] = ImportLine(k, n)
  <2>1. (n + 1) - 1 = n /\ n + 1 \in 1..(n + 1) /\ \A m \in 1..n : m \in 1..(n + 1)
    OBVIOUS
  <2>2. f[n + 1] = ImportLine(k, (n + 1) - 1)
    BY <2>1
  <2> QED  BY <2>1, <2>2
<1>3. PICK h, a : h = <<a>> /\ a = Name(Text(Img, LoadRva(map, NameRva(k))))
  OBVIOUS
<1>4. ModuleText(k, n) = h \o FlattenSeq(g) /\ ModuleText(k, n + 1) = h \o FlattenSeq(f)
  BY <1>3 DEF ModuleText
<1> HIDE DEF f, g
<1>5. FlattensOn(f, g, ImportLine(k, n))
  BY <1>1, <1>2, FlattenMore
<1>6. IsText(h)
  BY <1>3, Texts
<1>7. Grouped(h, FlattenSeq(g), ImportLine(k, n)) /\ IsText(h \o FlattenSeq(g))
  BY <1>5, <1>6, ImportTexts, TextsAssociate, TextConcat DEF FlattensOn
<1> QED  BY <1>4, <1>5, <1>7 DEF FlattensOn, Grouped

LEMMA ModulesMore ==
  ASSUME NEW n \in Nat, \A k \in 0..n : IsText(ModuleLines(k))
  PROVE  /\ IsText(ImportListing(n))
         /\ ImportListing(n + 1) = ImportListing(n) \o ModuleLines(n)
<1> DEFINE f == [k \in 1..(n + 1) |-> ModuleLines(k - 1)]
           g == [k \in 1..n |-> ModuleLines(k - 1)]
<1>1. \A k \in 1..(n + 1) : IsText(f[k])
  BY DEF IsText
<1>2. f = [k \in 1..(n + 1) |-> f[k]] /\ g = [k \in 1..n |-> f[k]] /\ f[n + 1] = ModuleLines(n)
  <2>1. (n + 1) - 1 = n /\ n + 1 \in 1..(n + 1) /\ \A k \in 1..n : k \in 1..(n + 1)
    OBVIOUS
  <2>2. f[n + 1] = ModuleLines((n + 1) - 1)
    BY <2>1
  <2> QED  BY <2>1, <2>2
<1>3. ImportListing(n) = FlattenSeq(g) /\ ImportListing(n + 1) = FlattenSeq(f)
  BY DEF ImportListing
<1> HIDE DEF f, g
<1>4. FlattensOn(f, g, ModuleLines(n))
  BY <1>1, <1>2, FlattenMore
<1> QED  BY <1>3, <1>4 DEF FlattensOn

LEMMA NothingListed ==
  /\ ImportListing(0) = <<>>
  /\ \A k : ModuleText(k, 0) = <<Name(Text(Img, LoadRva(map, NameRva(k))))>>
<1>1. \A k \in 1..0 : FALSE
  OBVIOUS
<1>2. ImportListing(0) = <<>>
  <2>1. [k \in 1..0 |-> ModuleLines(k - 1)] = <<>>
    BY <1>1
  <2> QED  BY <2>1, FlattenEmpty DEF ImportListing
<1>3. ASSUME NEW k PROVE ModuleText(k, 0) = <<Name(Text(Img, LoadRva(map, NameRva(k))))>>
  <2>1. [m \in 1..0 |-> ImportLine(k, m - 1)] = <<>>
    BY <1>1
  <2>2. FlattenSeq([m \in 1..0 |-> ImportLine(k, m - 1)]) = <<>>
    BY <2>1, FlattenEmpty
  <2>3. PICK h, a : h = <<a>> /\ a = Name(Text(Img, LoadRva(map, NameRva(k)))) /\ h \o <<>> = h
    <3>1. PICK a : a = Name(Text(Img, LoadRva(map, NameRva(k))))
      OBVIOUS
    <3>2. <<a>> \in Seq({a})
      OBVIOUS
    <3> QED  BY <3>1, <3>2, ConcatEmptySeq
  <2> QED  BY <2>2, <2>3 DEF ModuleText
<1> QED  BY <1>2, <1>3

(***************************************************************************)
(* The earliest lookup table.                                              *)
(***************************************************************************)

LEMMA FirstIsLeast ==
  ASSUME NEW n \in Nat, n > 0, EarliestOf(first, n), \A k \in 0..(n - 1) : Table(k) \in Word
  PROVE  first = Min({Table(k) : k \in 0..(n - 1)})
<1> DEFINE T == {Table(k) : k \in 0..(n - 1)}
<1>1. 0 \in 0..(n - 1)
  OBVIOUS
<1>2. T \in SUBSET Nat /\ first \in Nat /\ \A x \in T : first <= x
  BY WordIsNat DEF EarliestOf
<1>3. first \in T
  <2>1. CASE first = MaxWord
    <3>1. Table(0) \in Word /\ first <= Table(0) /\ Table(0) \in T
      BY <1>1 DEF EarliestOf
    <3>2. Table(0) = first
      BY <1>2, <2>1, <3>1, WordIsNat
    <3> QED  BY <3>1, <3>2
  <2>2. CASE first # MaxWord
    BY <2>2 DEF EarliestOf
  <2> QED  BY <2>1, <2>2
<1> HIDE DEF T
<1>4. Min(T) \in T /\ \A y \in T : Min(T) <= y
  BY <1>2, <1>3 DEF Min
<1>5. Min(T) \in Nat /\ Min(T) <= first /\ first <= Min(T)
  BY <1>2, <1>3, <1>4
<1>6. Min(T) = first
  BY <1>2, <1>5
<1> QED  BY <1>6 DEF T

LEMMA FirstMore ==
  ASSUME NEW n \in Nat, EarliestOf(first, n), \A k \in 0..n : Table(k) \in Word
  PROVE  EarliestOf(Min({first, Table(n)}), n + 1)
<1>1. first \in Nat /\ Table(n) \in Nat /\ first \in Word /\ Table(n) \in Word
  BY WordIsNat DEF EarliestOf
<1>2. PICK x : x = Min({first, Table(n)}) /\ x = IF first <= Table(n) THEN first ELSE Table(n)
  BY <1>1, MinPair
<1>3. x \in Word
  BY <1>1, <1>2
<1>4. (n + 1) - 1 = n /\ \A k \in 0..n : k = n \/ k \in 0..(n - 1)
  OBVIOUS
<1>5. ASSUME NEW k \in 0..n PROVE x <= Table(k)
  <2>1. Table(k) \in Nat
    BY WordIsNat
  <2>2. first <= Table(k) \/ k = n
    BY <1>4 DEF EarliestOf
  <2> QED  BY <1>1, <1>2, <2>1, <2>2
<1>6. x = MaxWord \/ \E k \in 0..n : x = Table(k)
  <2>1. n \in 0..n /\ \A k \in 0..(n - 1) : k \in 0..n
    OBVIOUS
  <2> QED  BY <1>2, <2>1 DEF EarliestOf
<1> QED  BY <1>2, <1>3, <1>4, <1>5, <1>6 DEF EarliestOf

LEMMA SmallModulo ==
  ASSUME NEW x \in Nat, NEW y \in Int, x < y
  PROVE  x % y = x
OBVIOUS

(* An entry that is in the address space ends before the space does.       *)
LEMMA EntryFits ==
  ASSUME Img \in Image, map \in Seq(Span), Sound(Img, map), NEW k \in Nat, HasEntry(k)
  PROVE  /\ Table(k) \in Word /\ NameRva(k) \in Word
         /\ EntryAddress(k) = Img.imports.rva + EntrySize * k /\ EntryAddress(k) < MaxWord
<1>1. PICK rva \in Nat : rva = Img.imports.rva
  BY DirectoryWords, WordIsNat
<1>2. /\ Inside(Img, Idata)
      /\ Idata # Nowhere => rva + Idata.len <= MaxWord
  BY <1>1, ViewInside DEF Idata
<1>3. PICK l \in Nat : l = Idata.len
  BY <1>2 DEF Inside
<1>4. 2 * k + 1 < l /\ 2 * k < l /\ Has(Idata, 2 * k) /\ Has(Idata, 2 * k + 1)
  BY <1>3 DEF HasEntry, EntrySize, Has
<1>5. Idata # Nowhere
  BY <1>3, <1>4 DEF Nowhere
<1>6. rva + 2 * k < MaxWord /\ MaxWord \in Int
  BY <1>2, <1>3, <1>4, <1>5, WordIsNat
<1>7. (rva + 2 * k) % (MaxWord + 1) = rva + 2 * k
  <2>1. rva + 2 * k \in Nat /\ MaxWord + 1 \in Int /\ rva + 2 * k < MaxWord + 1
    BY <1>6
  <2> QED  BY <2>1, SmallModulo
<1>8. Table(k) \in Word /\ NameRva(k) \in Word
  <2>1. 2 * k \in Nat /\ 2 * k + 1 \in Nat
    OBVIOUS
  <2> QED  BY <1>2, <1>4, <2>1, CellInside DEF Table, NameRva, EntrySize
<1> QED  BY <1>1, <1>6, <1>7, <1>8 DEF EntryAddress, EntrySize

LEMMA DirectoryCounts == \A n \in Directories : n \in Nat /\ StopsAt(n)
<1>1. \A n \in Directories : n \in 0..Len(Img.raw) /\ StopsAt(n)
  BY DEF Directories
<1>2. PICK l : l = Len(Img.raw)
  OBVIOUS
<1>3. \A n \in 0..l : n \in Nat
  OBVIOUS
<1> QED  BY <1>1, <1>2, <1>3

LEMMA DirectoryEntry ==
  ASSUME Img \in Image, map \in Seq(Span), Sound(Img, map),
         NEW n \in Directories, NEW k \in 0..(n - 1)
  PROVE  /\ k \in Nat /\ n \in Nat /\ HasEntry(k) /\ Table(k) \in Word /\ Table(k) # 0 /\ NameRva(k) # 0
         /\ Has(LoadRva(map, NameRva(k)), 0) /\ Has(TableView(k), 0)
<1>1. n \in Nat /\ k \in Nat
  BY DirectoryCounts
<1>2. PICK m \in Nat : m = Min(Length(k)) /\ Intact(k, m)
  BY ModuleLength
<1>3. /\ HasEntry(k) /\ Table(k) # 0 /\ NameRva(k) # 0
      /\ Has(LoadRva(map, NameRva(k)), 0) /\ Ends(k, m)
  BY <1>2 DEF Intact
<1>4. Table(k) \in Word
  BY <1>1, <1>3, EntryFits
<1>5. PICK l \in Nat : l = TableView(k).len
  BY <1>4, ViewInside, WordIsNat DEF TableView, Inside
<1>6. Has(TableView(k), 0)
  <2>1. Width \in {1, 2} /\ Width * (m + 1) - 1 < l
    BY <1>3, <1>5 DEF Ends, Has, Width
  <2>2. 0 < l
    <3>1. CASE Width = 1
      BY <1>5, <2>1, <3>1
    <3>2. CASE Width = 2
      BY <1>5, <2>1, <3>2
    <3> QED  BY <2>1, <3>1, <3>2
  <2> QED  BY <1>5, <2>2 DEF Has
<1> QED  BY <1>1, <1>3, <1>4, <1>6

(* The directory ends where the program stops, and not before.             *)
LEMMA OverlapEnds ==
  ASSUME Img \in Image, map \in Seq(Span), Sound(Img, map),
         NEW n \in Directories, i \in 0..n, EarliestOf(first, i)
  PROVE  /\ Overlaps => i = n
         /\ ~Overlaps /\ i = n => HasEntry(i) /\ (Table(i) = 0 \/ NameRva(i) = 0)
<1>1. n \in Nat /\ i \in Nat /\ StopsAt(n)
  BY DirectoryCounts
<1>2. \A k \in 0..(i - 1) : k \in 0..(n - 1) /\ Table(k) \in Word
  <2> TAKE k \in 0..(i - 1)
  <2>1. k \in 0..(n - 1)
    BY <1>1
  <2> QED  BY <2>1, DirectoryEntry
<1>3. i > 0 => first = Min({Table(k) : k \in 0..(i - 1)})
  BY <1>1, <1>2, FirstIsLeast
<1>4. PICK rva \in Nat : rva = Img.imports.rva
  BY DirectoryWords, WordIsNat
<1>5. first \in Nat /\ first <= MaxWord /\ MaxWord \in Int
  BY WordIsNat DEF EarliestOf
<1>6. ASSUME Overlaps, i # n PROVE FALSE
  <2>1. i \in 0..(n - 1)
    BY <1>1, <1>6
  <2>2. ~StopsAt(i) /\ HasEntry(i)
    BY <2>1, ModuleLength, DirectoryEntry
  <2>3. /\ EntryAddress(i) = Img.imports.rva + EntrySize * i /\ EntryAddress(i) < MaxWord
        /\ EntryAddress(i) = first
    BY <1>1, <1>6, <2>2, EntryFits DEF Overlaps
  <2>4. CASE i = 0
    <3>1. \A k \in 0..(0 - 1) : FALSE
      OBVIOUS
    <3>2. first = MaxWord
      BY <2>4, <3>1 DEF EarliestOf
    <3> QED  BY <1>5, <2>3, <3>2
  <2>5. CASE i # 0
    <3>1. i > 0
      BY <1>1, <2>5
    <3> QED  BY <1>3, <2>2, <2>3, <3>1 DEF StopsAt
  <2> QED  BY <2>4, <2>5
<1>7. ASSUME ~Overlaps, i = n PROVE HasEntry(i) /\ (Table(i) = 0 \/ NameRva(i) = 0)
  <2>1. CASE n > 0 /\ Img.imports.rva + EntrySize * n = Min({Table(k) : k \in 0..(n - 1)})
    <3>1. rva + EntrySize * i = first
      BY <1>3, <1>4, <1>7, <2>1
    <3>2. EntryAddress(i) = first % (MaxWord + 1)
      BY <1>4, <3>1 DEF EntryAddress
    <3>3. first % (MaxWord + 1) = first
      <4>1. MaxWord + 1 \in Int /\ first < MaxWord + 1
        BY <1>5
      <4> QED  BY <1>5, <4>1, SmallModulo
    <3> QED  BY <1>7, <3>2, <3>3 DEF Overlaps
  <2>2. CASE HasEntry(n) /\ (Table(n) = 0 \/ NameRva(n) = 0)
    BY <1>7, <2>2
  <2> QED  BY <1>1, <2>1, <2>2 DEF StopsAt
<1> QED  BY <1>6, <1>7

LEMMA LinesOfModule ==
  ASSUME NEW n \in Directories, NEW k \in 0..(n - 1)
  PROVE  ModuleLines(k) = ModuleText(k, Min(Length(k))) /\ IsText(ModuleLines(k))
<1>1. ModuleLines(k) = ModuleText(k, Min(Length(k)))
  BY DEF ModuleLines, ModuleText
<1> QED  BY <1>1, ModuleLength, ModuleMore

(* Where no import table is being listed.                                  *)
LEMMA NoImports ==
  ASSUME phase' \notin {"modules", "entries"}, Opened' => (start.part)' # "imports"
  PROVE  ImportInv'
BY DEF ImportInv, ImportsExact, Opened

LEMMA ImportsBegin ==
  ASSUME MapInv, OutputInv, ReportInv, BeginImports
  PROVE  ImportInv'
<1>1. CASE ~ImportsWanted
  <2>1. phase' = "listed" /\ (start.part)' = "none"
    BY <1>1 DEF BeginImports, Enter, Mark
  <2> QED  BY <2>1, NoImports
<1>2. CASE ImportsWanted
  <2>1. /\ phase = "imports" /\ phase' = "modules" /\ (start.part)' = "imports"
        /\ (start.at)' = Len(said) /\ i' = 0 /\ first' = MaxWord
        /\ UNCHANGED <<job, args, map, said>>
    BY <1>2 DEF BeginImports, Enter, Mark, options, output
  <2>2. Img \in Image
    BY <2>1, ReadingFile DEF Opened
  <2>3. ListedAs(<<>>)'
    <3>1. PICK S : Ordered(io, said, S)
      BY DEF OutputInv
    <3>2. DOMAIN <<>> = {} /\ On(1, <<>>) = <<>>
      BY DEF On
    <3>3. said \o On(1, <<>>) = said
      BY <3>1, <3>2, ConcatEmptySeq DEF Ordered
    <3> QED  BY <2>1, <3>3, Texts, ListedFromHere
  <2>4. ImportListing(0)' = <<>>
    BY <2>1, ImportsKept, NothingListed
  <2>5. ASSUME NEW n \in Directories PROVE ListingModules(n)'
    <3>1. n \in Nat
      BY DirectoryCounts
    <3>2. (\A k \in 0..(i - 1) : FALSE)' /\ (i \in 0..n)'
      BY <2>1, <3>1
    <3>3. MaxWord \in Word
      <4>1. Img.imports.rva \in Word
        BY <2>2, DirectoryWords
      <4> QED  BY <4>1, WordIsNat DEF Word
    <3>4. EarliestOf(first, i)'
      BY <2>1, <3>2, <3>3 DEF EarliestOf
    <3>5. ListedAs(ImportListing(i))'
      BY <2>1, <2>3, <2>4 DEF ListedAs
    <3> QED  BY <3>2, <3>4, <3>5 DEF ListingModules
  <2>6. Directories' = Directories
    BY <2>1, ImportsKept
  <2>7. ImportsExact'
    BY <2>1 DEF ImportsExact
  <2> QED  BY <2>1, <2>5, <2>6, <2>7 DEF ImportInv
<1> QED  BY <1>1, <1>2

LEMMA ModuleStep ==
  ASSUME MapInv, OutputInv, ReportInv, ImportInv, ReadModule
  PROVE  ImportInv'
<1>1. /\ phase = "modules" /\ start.part = "imports"
      /\ \A n \in Directories : ListingModules(n)
  BY DEF ReadModule, ImportInv
<1>2. Img \in Image /\ map \in Seq(Span) /\ Sound(Img, map)
  BY <1>1, ReadingFile DEF Opened
<1> DEFINE name == <<Name(Text(Img, LoadRva(map, NameRva(i))))>>
           ends == Table(i) = 0 \/ NameRva(i) = 0 \/ ~Has(LoadRva(map, NameRva(i)), 0)
<1>3. ASSUME NEW n \in Directories
      PROVE  /\ i \in 0..n /\ n \in Nat /\ EarliestOf(first, i) /\ ListedAs(ImportListing(i))
             /\ Overlaps => i = n
             /\ ~Overlaps /\ i = n => HasEntry(i) /\ (Table(i) = 0 \/ NameRva(i) = 0)
             /\ i # n => /\ i \in 0..(n - 1) /\ i \in Nat /\ HasEntry(i) /\ ~ends
                         /\ Table(i) \in Word /\ Has(TableView(i), 0)
  <2>1. i \in 0..n /\ n \in Nat /\ EarliestOf(first, i) /\ ListedAs(ImportListing(i))
    BY <1>1, DirectoryCounts DEF ListingModules
  <2>2. /\ Overlaps => i = n
        /\ ~Overlaps /\ i = n => HasEntry(i) /\ (Table(i) = 0 \/ NameRva(i) = 0)
    BY <1>2, <2>1, OverlapEnds
  <2>3. i # n => i \in 0..(n - 1)
    BY <2>1
  <2>4. i # n => /\ i \in Nat /\ HasEntry(i) /\ ~ends
                 /\ Table(i) \in Word /\ Has(TableView(i), 0)
    BY <1>2, <2>3, DirectoryEntry
  <2> QED  BY <2>1, <2>2, <2>3, <2>4
<1>4. CASE Overlaps \/ (HasEntry(i) /\ ends)
  <2>1. phase' = "listed" /\ UNCHANGED <<job, args, map, said, start>>
    BY <1>4 DEF ReadModule, Go, Enter, options, walk, output
  <2>2. \A n \in Directories : Listed = On(1, ImportListing(n))
    <3> TAKE n \in Directories
    <3>1. i = n
      BY <1>3, <1>4
    <3> QED  BY <1>3, <3>1 DEF ListedAs
  <2>3. \A n \in Directories' : (Listed = On(1, ImportListing(n)))'
    <3>1. Directories' = Directories /\ \A n : ImportListing(n)' = ImportListing(n)
      BY <2>1, ImportsKept
    <3> QED  BY <2>1, <2>2, <3>1 DEF Listed, On
  <2>4. ImportsExact'
    BY <2>1, <2>3 DEF ImportsExact
  <2> QED  BY <2>1, <2>4 DEF ImportInv
<1>5. CASE ~Overlaps /\ ~HasEntry(i)
  <2>1. phase' = "caught" /\ UNCHANGED <<job, args, map>>
    BY <1>5 DEF ReadModule, Throw, options, walk
  <2>2. Directories = {}
    BY <1>3, <1>5
  <2>3. Directories' = {}
    BY <2>1, <2>2, ImportsKept
  <2>4. ImportsExact'
    BY <2>1, <2>3 DEF ImportsExact
  <2> QED  BY <2>1, <2>4 DEF ImportInv
<1>6. CASE ~Overlaps /\ HasEntry(i) /\ ~ends
  <2>1. /\ UNCHANGED <<job, args, map, start>> /\ i' = i
        /\ said' = said \o On(1, name)
        /\ phase' \in {"entries", "listed"}
        /\ Has(TableView(i), 0) =>
             phase' = "entries" /\ first' = Min({first, Table(i)}) /\ j' = 0
        /\ ~Has(TableView(i), 0) => phase' = "listed"
    BY <1>6 DEF ReadModule, Say, Go, Enter, options, TableView
  <2>2. Directories' = Directories
    BY <2>1, ImportsKept
  <2>3. \A n \in Directories : i # n
    BY <1>3, <1>6
  <2>4. CASE ~Has(TableView(i), 0)
    <3>1. Directories' = {} /\ phase' = "listed"
      BY <1>3, <2>1, <2>2, <2>3, <2>4
    <3>2. ImportsExact'
      BY <3>1 DEF ImportsExact
    <3> QED  BY <3>1, <3>2 DEF ImportInv
  <2>5. CASE Has(TableView(i), 0)
    <3>1. ASSUME NEW n \in Directories PROVE ListingEntries(n)'
      <4>1. /\ i \in 0..(n - 1) /\ i \in Nat /\ n \in Nat /\ EarliestOf(first, i)
            /\ ListedAs(ImportListing(i))
        BY <1>3, <2>3
      <4>2. \A k \in 0..i : Table(k) \in Word
        <5> TAKE k \in 0..i
        <5>1. k \in 0..(n - 1)
          BY <4>1
        <5> QED  BY <1>2, <5>1, DirectoryEntry
      <4>3. PICK x : x = Min({first, Table(i)}) /\ EarliestOf(x, i + 1)
        BY <4>1, <4>2, FirstMore
      <4>4. EarliestOf(first, i + 1)'
        <5>1. \A k : Table(k)' = Table(k)
          BY <2>1, ImportsKept
        <5>2. first' = x /\ i' = i
          BY <2>1, <2>5, <4>3
        <5> QED  BY <4>3, <5>1, <5>2 DEF EarliestOf
      <4>5. PICK k, l, t, h : k = i /\ l = Min(Length(i)) /\ t = ImportListing(i) /\ h = name
        OBVIOUS
      <4>6. ListedAs(t \o h)'
        <5>1. IsText(h)
          BY <4>5, Texts
        <5> QED  BY <2>1, <4>1, <4>5, <5>1, ListedMore
      <4>7. ModuleText(k, 0) = h
        BY <4>5, NothingListed
      <4>8. /\ ImportListing(k)' = t /\ ModuleText(k, 0)' = h /\ Length(k)' = Length(k) /\ k' = k
        BY <2>1, <4>5, <4>7, ImportsKept
      <4>9. l \in Nat /\ 0 \in 0..l
        BY <4>1, <4>5, ModuleLength
      <4>10. /\ ImportListing(i)' = t /\ ModuleText(i, j)' = h /\ Min(Length(i))' = l
             /\ i' = i /\ j' = 0
        BY <2>1, <2>5, <4>5, <4>8 DEF Min
      <4>11. ListedAs(ImportListing(i) \o ModuleText(i, j))'
        BY <4>6, <4>10 DEF ListedAs
      <4> QED  BY <4>1, <4>4, <4>9, <4>10, <4>11 DEF ListingEntries
    <3>2. phase' = "entries" /\ (start.part)' = "imports"
      BY <1>1, <2>1, <2>5
    <3>3. ImportsExact'
      BY <3>2 DEF ImportsExact
    <3> QED  BY <2>2, <3>1, <3>2, <3>3 DEF ImportInv
  <2> QED  BY <2>4, <2>5
<1> QED  BY <1>4, <1>5, <1>6

LEMMA EntryStep ==
  ASSUME MapInv, OutputInv, ReportInv, ImportInv, ReadEntry
  PROVE  ImportInv'
<1>1. /\ phase = "entries" /\ start.part = "imports"
      /\ \A n \in Directories : ListingEntries(n)
  BY DEF ReadEntry, ImportInv
<1>2. Img \in Image /\ map \in Seq(Span) /\ Sound(Img, map)
  BY <1>1, ReadingFile DEF Opened
<1> DEFINE addr == Import(TableView(i), j)
           entry == LoadRva(map, addr)
           there == Has(TableView(i), Width * (j + 1) - 1)
<1>3. ASSUME NEW n \in Directories
      PROVE  /\ i \in 0..(n - 1) /\ i \in Nat /\ n \in Nat /\ i + 1 \in 0..n
             /\ EarliestOf(first, i + 1)
             /\ j \in Nat /\ Min(Length(i)) \in Nat /\ j <= Min(Length(i))
             /\ ListedAs(ImportListing(i) \o ModuleText(i, j))
             /\ there
             /\ addr = 0 <=> j = Min(Length(i))
             /\ addr # 0 => addr >= Sign \/ Has(entry, 0)
  <2>1. /\ i \in 0..(n - 1) /\ n \in Nat /\ EarliestOf(first, i + 1)
        /\ j \in 0..Min(Length(i))
        /\ ListedAs(ImportListing(i) \o ModuleText(i, j))
    BY <1>1, DirectoryCounts DEF ListingEntries
  <2>2. PICK m \in Nat : m = Min(Length(i)) /\ Intact(i, m)
    BY <2>1, ModuleLength
  <2>3. i \in Nat /\ i + 1 \in 0..n /\ j \in Nat /\ j <= m /\ (j < m => j \in 0..(m - 1))
    BY <2>1, <2>2
  <2>4. Ends(i, m) /\ (j < m => addr >= Sign \/ Has(entry, 0))
    BY <2>2, <2>3 DEF Intact
  <2>5. there
    <3>1. PICK l \in Nat : l = TableView(i).len
      <4>1. Table(i) \in Int
        BY <1>2, <2>1, DirectoryEntry, WordIsNat
      <4> QED  BY <1>2, <4>1, ViewInside DEF TableView, Inside
    <3>2. Width * (m + 1) - 1 < l
      BY <2>4, <3>1 DEF Ends, Has
    <3>3. Width * (j + 1) - 1 < l
      <4>1. CASE Width = 1
        BY <2>3, <3>2, <4>1
      <4>2. CASE Width = 2
        BY <2>3, <3>2, <4>2
      <4> QED  BY <4>1, <4>2 DEF Width
    <3> QED  BY <3>1, <3>3 DEF Has
  <2>6. addr = 0 <=> j = m
    <3>1. j = m => addr = 0
      BY <2>4 DEF Ends
    <3>2. j < m => addr # 0
      BY <2>3, <2>4 DEF Ends
    <3> QED  BY <2>3, <3>1, <3>2
  <2> HIDE DEF addr, entry, there
  <2> QED  BY <2>1, <2>2, <2>3, <2>4, <2>5, <2>6
<1>4. CASE ~there \/ (addr # 0 /\ ~(addr >= Sign) /\ ~Has(entry, 0))
  <2>1. phase' = "caught" /\ UNCHANGED <<job, args, map>>
    BY <1>4 DEF ReadEntry, Throw, options, walk, TableView, Lookup
  <2>2. Directories = {}
    BY <1>3, <1>4
  <2>3. Directories' = {}
    BY <2>1, <2>2, ImportsKept
  <2>4. ImportsExact'
    BY <2>1, <2>3 DEF ImportsExact
  <2> QED  BY <2>1, <2>4 DEF ImportInv
<1>5. CASE there /\ addr = 0
  <2>1. /\ phase' = "modules" /\ i' = i + 1
        /\ UNCHANGED <<job, args, map, first, said, start>>
    BY <1>5 DEF ReadEntry, Go, Enter, options, output, TableView, Lookup
  <2>2. Directories' = Directories
    BY <2>1, ImportsKept
  <2>3. ASSUME NEW n \in Directories PROVE ListingModules(n)'
    <3>1. /\ i \in 0..(n - 1) /\ i \in Nat /\ n \in Nat /\ i + 1 \in 0..n
          /\ EarliestOf(first, i + 1)
          /\ j = Min(Length(i))
          /\ ListedAs(ImportListing(i) \o ModuleText(i, j))
      BY <1>3, <1>5
    <3>2. ModuleText(i, j) = ModuleLines(i)
      BY <3>1, LinesOfModule
    <3>3. ImportListing(i + 1) = ImportListing(i) \o ModuleLines(i)
      <4>1. \A k \in 0..i : IsText(ModuleLines(k))
        <5> TAKE k \in 0..i
        <5>1. k \in 0..(n - 1)
          BY <3>1
        <5> QED  BY <5>1, LinesOfModule
      <4> QED  BY <3>1, <4>1, ModulesMore
    <3>4. PICK k, t : k = i + 1 /\ t = ImportListing(i + 1)
      OBVIOUS
    <3>5. ListedAs(t)'
      <4>1. ListedAs(t)
        BY <3>1, <3>2, <3>3, <3>4
      <4> QED  BY <2>1, <4>1 DEF ListedAs, Listed, On, IsText
    <3>6. ImportListing(k)' = t /\ (\A l : Table(l)' = Table(l)) /\ i' = k
      BY <2>1, <3>4, ImportsKept
    <3>7. ListedAs(ImportListing(i))'
      BY <3>5, <3>6 DEF ListedAs
    <3>8. EarliestOf(first, i)'
      BY <2>1, <3>1, <3>6 DEF EarliestOf
    <3>9. (i \in 0..n)'
      BY <2>1, <3>1
    <3> QED  BY <3>7, <3>8, <3>9 DEF ListingModules
  <2>4. ImportsExact' /\ (start.part)' = "imports"
    BY <1>1, <2>1 DEF ImportsExact
  <2> QED  BY <2>1, <2>2, <2>3, <2>4 DEF ImportInv
<1>6. CASE there /\ addr # 0 /\ (addr >= Sign \/ Has(entry, 0))
  <2>1. /\ phase' = "entries" /\ j' = j + 1
        /\ UNCHANGED <<job, args, map, i, first, start>>
    BY <1>6 DEF ReadEntry, Go, Enter, options, TableView, Lookup
  <2>2. said' = said \o On(1, ImportLine(i, j))
    <3>1. PICK a, b, c, d, e :
            /\ a = Tab /\ b = Number(addr - Sign) /\ c = NoName
            /\ d = Number(Cell(Img, entry, 0)) /\ e = Name(Text(Img, From(entry, 1)))
      OBVIOUS
    <3>3. ImportLine(i, j) = IF addr >= Sign THEN <<a, b, c>> ELSE <<a, d, e>>
      BY <3>1 DEF ImportLine
    <3>4. said' = said \o On(1, IF addr >= Sign THEN <<a, b, c>> ELSE <<a, d, e>>)
      BY <1>6, <3>1 DEF ReadEntry, Say, TableView, Lookup
    <3> QED  BY <3>3, <3>4
  <2>3. Directories' = Directories
    BY <2>1, ImportsKept
  <2>4. ASSUME NEW n \in Directories PROVE ListingEntries(n)'
    <3>1. /\ i \in 0..(n - 1) /\ i \in Nat /\ EarliestOf(first, i + 1)
          /\ j \in Nat /\ Min(Length(i)) \in Nat /\ j + 1 \in 0..Min(Length(i))
          /\ ListedAs(ImportListing(i) \o ModuleText(i, j))
      BY <1>3, <1>6
    <3>2. IsText(ImportLine(i, j)) /\ IsText(ModuleText(i, j)) /\ IsText(ImportListing(i))
      <4>1. \A k \in 0..i : IsText(ModuleLines(k))
        <5> TAKE k \in 0..i
        <5>1. k \in 0..(n - 1)
          BY <1>3
        <5> QED  BY <5>1, LinesOfModule
      <4> QED  BY <3>1, <4>1, ModulesMore, ImportTexts, ModuleMore
    <3>3. PICK k, l, q, s, t, h :
            /\ k = i /\ l = j + 1 /\ q = Min(Length(i))
            /\ s = ImportListing(i) /\ t = ModuleText(i, j) /\ h = ImportLine(i, j)
      OBVIOUS
    <3>4. Grouped(s, t, h) /\ ModuleText(k, l) = t \o h
      BY <3>1, <3>2, <3>3, TextsAssociate, ModuleMore
    <3>5. ListedAs((s \o t) \o h)'
      <4>1. ListedAs(s \o t) /\ IsText(h) /\ said' = said \o On(1, h)
        BY <2>2, <3>1, <3>2, <3>3
      <4>2. PICK u : u = s \o t
        OBVIOUS
      <4>3. ListedAs(u \o h)'
        BY <2>1, <4>1, <4>2, ListedMore
      <4> QED  BY <4>2, <4>3
    <3>6. /\ ImportListing(k)' = s /\ ModuleText(k, l)' = t \o h /\ Length(k)' = Length(k)
          /\ \A x : Table(x)' = Table(x)
      BY <2>1, <3>3, <3>4, ImportsKept
    <3>7. /\ ImportListing(i)' = s /\ ModuleText(i, j)' = t \o h /\ Min(Length(i))' = q
          /\ i' = k /\ j' = l
      BY <2>1, <3>3, <3>6 DEF Min
    <3>8. ListedAs(ImportListing(i) \o ModuleText(i, j))'
      BY <3>4, <3>5, <3>7 DEF ListedAs, Grouped
    <3>9. EarliestOf(first, i + 1)'
      BY <2>1, <3>1, <3>6 DEF EarliestOf
    <3> QED  BY <3>1, <3>3, <3>7, <3>8, <3>9 DEF ListingEntries
  <2>5. ImportsExact' /\ (start.part)' = "imports"
    BY <1>1, <2>1 DEF ImportsExact
  <2> QED  BY <2>1, <2>3, <2>4, <2>5 DEF ImportInv
<1> QED  BY <1>4, <1>5, <1>6

LEMMA ImportInit == Init => ImportInv
<1> SUFFICES ASSUME Init PROVE ImportInv
  OBVIOUS
<1>1. phase = "options"
  BY DEF Init
<1> QED  BY <1>1 DEF ImportInv, Opened

LEMMA ImportStep ==
  MapInv /\ OutputInv /\ ReportInv /\ ExportInv /\ ImportInv /\ [Next]_vars => ImportInv'
<1> SUFFICES ASSUME MapInv, OutputInv, ReportInv, ExportInv, ImportInv, [Next]_vars
             PROVE  ImportInv'
  OBVIOUS
<1>1. CASE TakeOption \/ EndOptions \/ Catch \/ Finish \/ NextFile
  <2>1. phase' \in {"options", "files"}
    BY <1>1 DEF TakeOption, EndOptions, NextFile, Catch, Caught, Finish, options
  <2> QED  BY <2>1, NoImports DEF Opened
<1>2. CASE OpenFile
  <2>1. CASE Img.header # Ok /\ Throw(Img.header, <<>>)
    <3>1. phase' = "caught" /\ Img' = Img
      BY <2>1 DEF Throw, options, Img
    <3> QED  BY <2>1, <3>1 DEF ImportInv, ImportsExact
  <2>2. CASE Enter("sections") /\ start' = Mark("sections")
    BY <2>2, NoImports DEF Enter, Mark
  <2> QED  BY <1>2, <2>1, <2>2 DEF OpenFile
<1>3. CASE \/ LoadSection \/ EndSections \/ BeginExports \/ NameExport \/ EndNames
           \/ NamelessExport \/ EndExports
  <2>1. start.part # "imports"
    BY <1>3
       DEF LoadSection, EndSections, BeginExports, NameExport, EndNames, NamelessExport, EndExports,
           ImportInv
  <2>2. (start.part)' # "imports"
    <3>1. start' = start \/ start' = Mark("exports")
      BY <1>3
         DEF LoadSection, EndSections, BeginExports, NameExport, EndNames, NamelessExport,
             EndExports, Throw, Go
    <3> QED  BY <2>1, <3>1 DEF Mark
  <2>3. phase' \notin {"modules", "entries"}
    BY <1>3
       DEF LoadSection, EndSections, BeginExports, NameExport, EndNames, NamelessExport, EndExports,
           Throw, Go, Enter
  <2> QED  BY <2>2, <2>3, NoImports
<1>4. CASE BeginImports \/ ReadModule \/ ReadEntry
  BY <1>4, ImportsBegin, ModuleStep, EntryStep
<1>5. CASE Exited \/ UNCHANGED vars
  <2>1. UNCHANGED <<job, args, map, phase, i, j, first, said, start>>
    BY <1>5 DEF Exited, vars, options, walk, output
  <2>2. PICK k, l : k = i /\ l = j
    OBVIOUS
  <2>3. /\ Directories' = Directories /\ Img' = Img
        /\ \A n : Table(n)' = Table(n)
        /\ \A n : ImportListing(n)' = ImportListing(n)
        /\ ModuleText(k, l)' = ModuleText(k, l) /\ Length(k)' = Length(k)
    BY <2>1, ImportsKept
  <2>4. /\ ImportListing(i)' = ImportListing(i) /\ ModuleText(i, j)' = ModuleText(i, j)
        /\ Min(Length(i))' = Min(Length(i))
    BY <2>1, <2>2, <2>3 DEF Min
  <2>5. \A x, n : EarliestOf(x, n)' = EarliestOf(x, n)
    BY <2>3 DEF EarliestOf
  <2>6. \A text : ListedAs(text)' = ListedAs(text)
    BY <2>1 DEF ListedAs, Listed, On, IsText
  <2>7. ListedAs(ImportListing(i))' = ListedAs(ImportListing(i))
    BY <2>4, <2>6 DEF ListedAs
  <2>8. ListedAs(ImportListing(i) \o ModuleText(i, j))'
          = ListedAs(ImportListing(i) \o ModuleText(i, j))
    BY <2>4, <2>6 DEF ListedAs
  <2>9. /\ EarliestOf(first, i)' = EarliestOf(first, i)
        /\ EarliestOf(first, i + 1)' = EarliestOf(first, i + 1)
    BY <2>1, <2>3 DEF EarliestOf
  <2>10. \A n : ListingModules(n)' = ListingModules(n)
    BY <2>1, <2>7, <2>9 DEF ListingModules
  <2>11. \A n : ListingEntries(n)' = ListingEntries(n)
    BY <2>1, <2>4, <2>8, <2>9 DEF ListingEntries
  <2>12. ImportsExact' = ImportsExact
    BY <2>1, <2>3 DEF ImportsExact, Listed, On
  <2> QED  BY <2>1, <2>3, <2>10, <2>11, <2>12 DEF ImportInv, Opened
<1> QED  BY <1>1, <1>2, <1>3, <1>4, <1>5 DEF Next

(* An import directory that ends, at a null entry or where the earliest    *)
(* lookup table begins, and whose entries before are intact is listed      *)
(* exactly, and nothing behind its end is read or is a reason to give up   *)
(* (449-521).                                                              *)
THEOREM ImportsAreExact == Spec => []ImportsExact
<1>1. ImportInv => ImportsExact
  BY DEF ImportInv, ImportsExact, Opened
<1> QED
  BY <1>1, MapInit, MapStep, OutputInit, OutputStep, ReportInit, ReportStep,
     ExportInit, ExportStep, ImportInit, ImportStep, PTL DEF Spec
=============================================================================
