---------------------------- MODULE DriverProofs ----------------------------
(***************************************************************************)
(* Proofs about Driver and Launch, for buffers of any capacity, any        *)
(* command lines and any number of interrupts.                             *)
(***************************************************************************)
EXTENDS Launch, SequenceTheorems, TLAPS

Stream == {"out", "err"}
Target == {"out", "err", "null"}
Atom == {"nl", "package", "operator", "no package", "version", "value", "undefined", "unmatched",
         "cflags", "libs", "no value", "bad option", "--help", "--version"}
Texts == Seq(Atom)
Do == [op : {"print", "flush", "fail", "exit"}, to : Target, text : Texts]

TypeInv ==
  /\ job \in Job
  /\ err \in Target
  /\ todo \in Seq(Do)
  /\ buffer \in [Stream -> Texts]
  /\ stream \in [Stream -> Texts]
  /\ printed \in [Stream -> Texts]
  /\ failed \in [Stream -> BOOLEAN]

LEMMA ShortSeqs ==
  ASSUME NEW S, NEW a \in S, NEW b \in S
  PROVE  <<>> \in Seq(S) /\ <<a>> \in Seq(S) /\ <<a, b>> \in Seq(S)
OBVIOUS

LEMMA Ops ==
  ASSUME NEW b \in Target, NEW t \in Texts
  PROVE  /\ Put(b, t) \in Do /\ Flush(b) \in Do /\ Exit \in Do
         /\ <<Put(b, t)>> \in Seq(Do) /\ Fail(b, t) \in Seq(Do)
         /\ <<Put(b, t), Flush(b), Exit>> \in Seq(Do) /\ <<Flush(b), Exit>> \in Seq(Do)
         /\ <<Exit>> \in Seq(Do) /\ <<>> \in Seq(Do)
<1>1. <<>> \in Texts
  BY DEF Texts
<1>2. Put(b, t) \in Do /\ Flush(b) \in Do /\ Exit \in Do
  BY <1>1 DEF Do, Put, Flush, Exit, Target
<1>3. [op |-> "fail", to |-> b, text |-> <<>>] \in Do
  BY <1>1 DEF Do
<1> QED  BY <1>2, <1>3 DEF Fail

LEMMA Messages ==
  /\ "out" \in Target /\ "err" \in Target
  /\ <<"package", "nl">> \in Texts /\ <<"operator", "nl">> \in Texts
  /\ <<"no package", "nl">> \in Texts /\ <<"version", "nl">> \in Texts
  /\ <<"value", "nl">> \in Texts /\ <<"undefined", "nl">> \in Texts
  /\ <<"unmatched", "nl">> \in Texts /\ <<"no value", "nl">> \in Texts
  /\ <<"bad option", "nl">> \in Texts
  /\ <<"--help", "nl">> \in Texts /\ <<"--version", "nl">> \in Texts
  /\ <<"value">> \in Texts /\ <<"cflags">> \in Texts /\ <<"libs">> \in Texts
  /\ <<"nl">> \in Texts /\ <<>> \in Texts
BY DEF Texts, Atom, Target

LEMMA TypeInit == Init => TypeInv
<1> SUFFICES ASSUME Init PROVE TypeInv
  OBVIOUS
<1>1. job \in Job /\ err \in Target /\ todo \in Seq(Do)
  BY JobsAssumption, Messages, Ops DEF Init, Target
<1>2. <<>> \in Texts
  BY Messages
<1> QED  BY <1>1, <1>2 DEF Init, TypeInv, Stream

(* What is left to do after a step that takes or shortens the first item.  *)
LEMMA TodoStep ==
  ASSUME TypeInv, todo # <<>>
  PROVE  /\ Head(todo) \in Do /\ Tail(todo) \in Seq(Do)
         /\ Head(todo).text # <<>> =>
              /\ Head(Head(todo).text) \in Atom /\ Tail(Head(todo).text) \in Texts
              /\ [Head(todo) EXCEPT !.text = Tail(@)] \in Do
              /\ <<[Head(todo) EXCEPT !.text = Tail(@)]>> \o Tail(todo) \in Seq(Do)
<1>1. Head(todo) \in Do /\ Tail(todo) \in Seq(Do)
  BY HeadTailProperties DEF TypeInv
<1>2. ASSUME Head(todo).text # <<>>
      PROVE  /\ Head(Head(todo).text) \in Atom /\ Tail(Head(todo).text) \in Texts
             /\ [Head(todo) EXCEPT !.text = Tail(@)] \in Do
             /\ <<[Head(todo) EXCEPT !.text = Tail(@)]>> \o Tail(todo) \in Seq(Do)
  <2>1. Head(todo).text \in Seq(Atom)
    BY <1>1 DEF Do, Texts
  <2>2. Head(Head(todo).text) \in Atom /\ Tail(Head(todo).text) \in Texts
    BY <1>2, <2>1, HeadTailProperties DEF Texts
  <2>3. [Head(todo) EXCEPT !.text = Tail(@)] \in Do
    BY <1>1, <2>2 DEF Do
  <2>4. <<[Head(todo) EXCEPT !.text = Tail(@)]>> \in Seq(Do)
    BY <2>3, ShortSeqs
  <2> QED  BY <1>1, <2>2, <2>3, <2>4, ConcatProperties
<1> QED  BY <1>1, <1>2

(* The stages send only messages and texts.                                *)
LEMMA StageTodo ==
  ASSUME TypeInv,
         ProcessArgs \/ Check \/ Modversion \/ Variable \/ Cflags \/ Libs \/ End
  PROVE  todo' \in Seq(Do)
<1>0. err \in Target /\ ProcErr \in Target
  BY Messages DEF TypeInv, ProcErr
<1>1. CASE ProcessArgs
  BY <1>0, <1>1, Messages, Ops DEF ProcessArgs, Then
<1>2. CASE Check
  BY <1>0, <1>2, Messages, Ops DEF Check, Then
<1>3. CASE Modversion
  BY <1>3, Messages, Ops DEF Modversion, Then
<1>4. CASE Variable
  <2>1. <<Put("out", <<"value">>)>> \in Seq(Do) /\ Fail(err, <<"undefined", "nl">>) \in Seq(Do)
    BY <1>0, Messages, Ops
  <2>2. <<Put("out", <<"value">>)>> \o Fail(err, <<"undefined", "nl">>) \in Seq(Do)
    BY <2>1, ConcatProperties
  <2> QED  BY <1>4, <2>2, Messages, Ops DEF Variable, Then
<1>5. CASE Cflags
  BY <1>0, <1>5, Messages, Ops DEF Cflags, Then
<1>6. CASE Libs
  BY <1>0, <1>6, Messages, Ops DEF Libs, Then
<1>7. CASE End
  <2>1. <<Put("out", <<"nl">>)>> \in Seq(Do) /\ <<>> \in Seq(Do)
        /\ <<Flush("out"), Exit>> \in Seq(Do)
    BY Messages, Ops
  <2>2. /\ <<Put("out", <<"nl">>)>> \o <<Flush("out"), Exit>> \in Seq(Do)
        /\ <<>> \o <<Flush("out"), Exit>> \in Seq(Do)
    BY <2>1, ConcatProperties
  <2> QED  BY <1>7, <2>1, <2>2 DEF End, Then
<1> QED  BY <1>1, <1>2, <1>3, <1>4, <1>5, <1>6, <1>7

LEMMA OptionTodo ==
  ASSUME TypeInv, TakeOption \/ RefuseOption
  PROVE  todo' \in Seq(Do)
<1>0. err \in Target
  BY DEF TypeInv
<1>1. CASE TakeOption
  BY <1>0, <1>1, Messages, Ops DEF TakeOption, Act
<1>2. CASE RefuseOption
  BY <1>0, <1>2, Messages, Ops DEF RefuseOption
<1> QED  BY <1>1, <1>2

LEMMA TypeStep == TypeInv /\ [Next]_vars => TypeInv'
<1> SUFFICES ASSUME TypeInv, [Next]_vars PROVE TypeInv'
  OBVIOUS
<1>1. CASE PrintByte
  <2> DEFINE b == Head(todo).to
             byte == Head(Head(todo).text)
  <2>1. todo # <<>> /\ Head(todo).text # <<>>
    BY <1>1 DEF PrintByte, Running
  <2>2. todo' \in Seq(Do) /\ UNCHANGED <<job, err>>
    BY <1>1, <2>1, TodoStep DEF PrintByte, progress
  <2>3. CASE b = "null"
    BY <1>1, <2>2, <2>3 DEF PrintByte, io, TypeInv
  <2>4. CASE b # "null"
    <3>1. b \in Stream /\ byte \in Atom
      BY <2>1, <2>4, TodoStep DEF Do, Target, Stream
    <3>2. /\ Append(buffer[b], byte) \in Texts
          /\ Append(printed[b], byte) \in Texts
          /\ stream[b] \o Append(buffer[b], byte) \in Texts
      BY <3>1, AppendProperties, ConcatProperties DEF TypeInv, Texts
    <3>3. printed' \in [Stream -> Texts] /\ buffer' \in [Stream -> Texts]
      BY <1>1, <2>4, <3>1, <3>2, Messages DEF PrintByte, TypeInv
    <3>4. stream' \in [Stream -> Texts] /\ failed' \in [Stream -> BOOLEAN]
      BY <1>1, <2>4, <3>1, <3>2 DEF PrintByte, Write, TypeInv
    <3> QED  BY <2>2, <3>3, <3>4 DEF TypeInv
  <2> QED  BY <2>3, <2>4
<1>2. CASE PrintEnd
  BY <1>2, TodoStep DEF PrintEnd, Running, progress, io, TypeInv
<1>3. CASE FlushBuffer
  <2> DEFINE b == Head(todo).to
  <2>1. todo # <<>>
    BY <1>3 DEF FlushBuffer, Running
  <2>2. todo' \in Seq(Do) /\ UNCHANGED <<job, err>>
    BY <1>3, <2>1, TodoStep DEF FlushBuffer, progress
  <2>3. CASE b = "null"
    BY <1>3, <2>2, <2>3 DEF FlushBuffer, io, TypeInv
  <2>4. CASE b # "null"
    <3>1. b \in Stream
      BY <2>1, <2>4, TodoStep DEF Do, Target, Stream
    <3>2. stream[b] \o buffer[b] \in Texts
      BY <3>1, ConcatProperties DEF TypeInv, Texts
    <3>3. stream' \in [Stream -> Texts] /\ failed' \in [Stream -> BOOLEAN]
      BY <1>3, <2>4, <3>1, <3>2 DEF FlushBuffer, Write, TypeInv
    <3>4. buffer' \in [Stream -> Texts] /\ UNCHANGED printed
      BY <1>3, <2>4, <3>1, Messages DEF FlushBuffer, TypeInv
    <3> QED  BY <2>2, <3>3, <3>4 DEF TypeInv
  <2> QED  BY <2>3, <2>4
<1>4. CASE Leaves
  BY <1>4, TodoStep DEF Leaves, Running, progress, io, TypeInv
<1>5. CASE EndOptions \/ TakeDashDash \/ TakePackage
  BY <1>5, Messages
     DEF EndOptions, TakeDashDash, TakePackage, Stay, io, TypeInv, Target
<1>6. CASE TakeOption \/ RefuseOption
  BY <1>6, OptionTodo DEF TakeOption, RefuseOption, Stay, io, TypeInv
<1>7. CASE ProcessArgs \/ Check \/ Modversion \/ Variable \/ Cflags \/ Libs \/ End
  <2>1. UNCHANGED <<progress, io>>
    BY <1>7 DEF ProcessArgs, Check, Modversion, Variable, Cflags, Libs, End, Then
  <2> QED  BY <1>7, <2>1, StageTodo DEF progress, io, TypeInv
<1>8. CASE UNCHANGED vars
  BY <1>8 DEF vars, progress, io, TypeInv
<1> QED
  BY <1>1, <1>2, <1>3, <1>4, <1>5, <1>6, <1>7, <1>8 DEF Next

-----------------------------------------------------------------------------
(* Streams.                                                                *)

LEMMA PrefixElements ==
  ASSUME NEW S, NEW s \in Seq(S), NEW t \in Seq(S)
  PROVE  IsPrefixOf(s, t) <=> Len(s) <= Len(t) /\ \A i \in 1..Len(s) : s[i] = t[i]
<1>1. Len(s) \in Nat /\ Len(t) \in Nat
  BY LenProperties
<1>2. ASSUME Len(s) <= Len(t)
      PROVE  SubSeq(t, 1, Len(s)) = s <=> \A i \in 1..Len(s) : s[i] = t[i]
  <2>1. \A i \in 1..Len(s) : t[i] \in S
    BY <1>1, <1>2, ElementOfSeq
  <2>2. /\ SubSeq(t, 1, Len(s)) \in Seq(S)
        /\ Len(SubSeq(t, 1, Len(s))) = Len(s)
        /\ \A i \in 1..Len(s) : SubSeq(t, 1, Len(s))[i] = t[i]
    BY <1>1, <2>1, SubSeqProperties
  <2> QED  BY <2>2, SeqEqual
<1> QED  BY <1>2 DEF IsPrefixOf

LEMMA PrefixSelf ==
  ASSUME NEW S, NEW s \in Seq(S)
  PROVE  IsPrefixOf(s, s)
BY LenProperties, PrefixElements

LEMMA AppendInside ==
  ASSUME NEW S, NEW s \in Seq(S), NEW t \in Seq(S), NEW x \in S
  PROVE  s \o Append(t, x) = Append(s \o t, x)
BY AppendIsConcat, ConcatAssociative, ConcatProperties, ShortSeqs

LEMMA PrefixGrows ==
  ASSUME NEW S, NEW s \in Seq(S), NEW t \in Seq(S), NEW x \in S
  PROVE  IsPrefixOf(s, t) => IsPrefixOf(s, Append(t, x))
<1>1. Len(s) \in Nat /\ Len(t) \in Nat
  BY LenProperties
<1>3. /\ Append(t, x) \in Seq(S) /\ Len(Append(t, x)) = Len(t) + 1
      /\ \A i \in 1..Len(t) : Append(t, x)[i] = t[i]
  BY <1>1, AppendProperties
<1>4. ASSUME IsPrefixOf(s, t) PROVE IsPrefixOf(s, Append(t, x))
  <2>1. Len(s) <= Len(t) /\ \A i \in 1..Len(s) : s[i] = t[i]
    BY <1>4, PrefixElements
  <2>2. Len(s) <= Len(Append(t, x)) /\ \A i \in 1..Len(s) : s[i] = Append(t, x)[i]
    BY <1>1, <1>3, <2>1
  <2> HIDE DEF IsPrefixOf
  <2> QED  BY <1>3, <2>2, PrefixElements
<1> QED  BY <1>4

(* One stream, after one write of what its buffer is to hold.              *)
Streams(b) ==
  /\ Len(buffer[b]) < Cap(b)
  /\ IsPrefixOf(stream[b], printed[b])
  /\ ~failed[b] => stream[b] \o buffer[b] = printed[b]

LEMMA StreamsInit == Init => StreamsArePrefixes
<1> SUFFICES ASSUME Init, NEW b \in Stream PROVE Streams(b)
  BY DEF StreamsArePrefixes, Streams, Stream
<1>1. buffer[b] = <<>> /\ stream[b] = <<>> /\ printed[b] = <<>>
  BY DEF Init, Stream
<1>2. <<>> \in Texts /\ Len(<<>>) = 0
  BY Messages, EmptySeq
<1>3. <<>> \o <<>> = <<>>
  BY <1>2, ConcatEmptySeq DEF Texts
<1>5. IsPrefixOf(<<>>, <<>>)
  BY <1>2, ShortSeqs, PrefixSelf DEF Texts
<1>4. 0 < Cap(b)
  BY DriverAssumption DEF Cap
<1> QED  BY <1>1, <1>2, <1>3, <1>4, <1>5 DEF Streams

(* A write takes all of the text or fails; a stream that failed is left.   *)
LEMMA WriteOutcome ==
  ASSUME TypeInv, NEW b \in Stream, NEW c \in Stream, NEW text, Write(c, text)
  PROVE  /\ b # c => stream'[b] = stream[b] /\ failed'[b] = failed[b]
         /\ b = c =>
              \/ stream'[b] = stream[b] /\ (failed'[b] \/ (text = <<>> /\ failed'[b] = failed[b]))
              \/ ~failed[b] /\ stream'[b] = stream[b] \o text /\ failed'[b] = failed[b]
<1>1. stream \in [Stream -> Texts] /\ failed \in [Stream -> BOOLEAN]
  BY DEF TypeInv
<1> QED  BY <1>1 DEF Write

LEMMA StreamsStep ==
  TypeInv /\ StreamsArePrefixes /\ [Next]_vars => StreamsArePrefixes'
<1> SUFFICES ASSUME TypeInv, StreamsArePrefixes, [Next]_vars, NEW b \in Stream
             PROVE  Streams(b)'
  BY DEF StreamsArePrefixes, Streams, Stream
<1>0. Streams(b)
  BY DEF StreamsArePrefixes, Streams, Stream
<1>t. buffer[b] \in Texts /\ stream[b] \in Texts /\ printed[b] \in Texts /\ failed[b] \in BOOLEAN
  BY DEF TypeInv
<1>c. Cap(b) \in Nat \ {0} /\ Cap(b)' = Cap(b)
  BY DriverAssumption DEF Cap
<1>l. Len(buffer[b]) \in Nat
  BY <1>t, LenProperties DEF Texts
<1>e. <<>> \in Texts /\ Len(<<>>) = 0 /\ stream[b] \o <<>> = stream[b]
  BY <1>t, Messages, EmptySeq, ConcatEmptySeq DEF Texts
<1>u. UNCHANGED io => Streams(b)'
  BY <1>0 DEF io, Streams, Cap
<1>1. CASE PrintByte
  <2> DEFINE c == Head(todo).to
             byte == Head(Head(todo).text)
  <2>1. todo # <<>> /\ Head(todo).text # <<>>
    BY <1>1 DEF PrintByte, Running
  <2>2. CASE c = "null"
    BY <1>1, <1>u, <2>2 DEF PrintByte
  <2>3. CASE c # "null" /\ c # b
    <3>1. c \in Stream
      BY <2>1, <2>3, TodoStep DEF Do, Target, Stream
    <3>2. printed'[b] = printed[b] /\ buffer'[b] = buffer[b]
      BY <1>1, <2>3, <3>1 DEF PrintByte, TypeInv
    <3>3. stream'[b] = stream[b] /\ failed'[b] = failed[b]
      BY <1>1, <2>3, <3>1, WriteOutcome DEF PrintByte
    <3> QED  BY <1>0, <1>c, <3>2, <3>3 DEF Streams
  <2>4. CASE c = b
    <3>0. byte \in Atom /\ b # "null"
      BY <2>1, TodoStep DEF Stream
    <3> DEFINE more == Append(buffer[b], byte)
    <3>1. printed'[b] = Append(printed[b], byte)
      BY <1>1, <2>4, <3>0 DEF PrintByte, TypeInv
    <3>2. more \in Texts /\ Len(more) = Len(buffer[b]) + 1 /\ Append(printed[b], byte) \in Texts
      BY <1>t, <3>0, AppendProperties DEF Texts
    <3>3. /\ IsPrefixOf(stream[b], Append(printed[b], byte))
          /\ ~failed[b] => stream[b] \o more = Append(printed[b], byte)
          /\ IsPrefixOf(Append(printed[b], byte), Append(printed[b], byte))
      <4>1. IsPrefixOf(stream[b], printed[b]) /\ (~failed[b] => stream[b] \o buffer[b] = printed[b])
        BY <1>0 DEF Streams
      <4>2. IsPrefixOf(stream[b], Append(printed[b], byte))
        BY <4>1, <1>t, <3>0, PrefixGrows DEF Texts
      <4>3. stream[b] \o more = Append(stream[b] \o buffer[b], byte)
        <5>1. \A s, t \in Seq(Atom) : \A x \in Atom : s \o Append(t, x) = Append(s \o t, x)
          BY AppendInside
        <5>2. stream[b] \in Seq(Atom) /\ buffer[b] \in Seq(Atom) /\ byte \in Atom
          BY <1>t, <3>0 DEF Texts
        <5> HIDE DEF byte
        <5> QED  BY <5>1, <5>2, Zenon DEF more
      <4>4. IsPrefixOf(Append(printed[b], byte), Append(printed[b], byte))
        BY <3>2, PrefixSelf DEF Texts
      <4> HIDE DEF more, byte
      <4> QED  BY <4>1, <4>2, <4>3, <4>4
    <3>4. CASE Fills(b)
      <4>1. Write(b, more) /\ buffer'[b] = <<>>
        BY <1>1, <2>4, <3>0, <3>4 DEF PrintByte, TypeInv
      <4>2. more # <<>>
        BY <1>l, <3>2, EmptySeq
      <4>3. \/ stream'[b] = stream[b] /\ failed'[b]
            \/ ~failed[b] /\ stream'[b] = Append(printed[b], byte)
        BY <3>3, <4>1, <4>2, WriteOutcome
      <4>4. Append(printed[b], byte) \o <<>> = Append(printed[b], byte)
        BY <3>2, ConcatEmptySeq DEF Texts
      <4>5. IsPrefixOf(stream'[b], printed'[b])
        <5> HIDE DEF byte
        <5> QED  BY <3>1, <3>3, <4>3
      <4>6. ~failed'[b] => stream'[b] \o buffer'[b] = printed'[b]
        <5> HIDE DEF byte
        <5> QED  BY <3>1, <4>1, <4>3, <4>4
      <4> QED  BY <1>c, <1>e, <4>1, <4>5, <4>6 DEF Streams
    <3>5. CASE ~Fills(b)
      <4>1. buffer'[b] = more /\ stream'[b] = stream[b] /\ failed'[b] = failed[b]
        BY <1>1, <2>4, <3>0, <3>5 DEF PrintByte, TypeInv
      <4>2. Len(more) < Cap(b)
        BY <1>0, <1>c, <1>l, <3>2, <3>5 DEF Fills, Streams
      <4> QED  BY <1>c, <3>1, <3>3, <4>1, <4>2 DEF Streams
    <3> QED  BY <3>4, <3>5
  <2> QED  BY <2>2, <2>3, <2>4
<1>2. CASE FlushBuffer
  <2> DEFINE c == Head(todo).to
  <2>1. todo # <<>>
    BY <1>2 DEF FlushBuffer, Running
  <2>2. CASE c = "null"
    BY <1>2, <1>u, <2>2 DEF FlushBuffer
  <2>3. CASE c # "null" /\ c # b
    <3>1. c \in Stream
      BY <2>1, <2>3, TodoStep DEF Do, Target, Stream
    <3>2. printed'[b] = printed[b] /\ buffer'[b] = buffer[b]
      BY <1>2, <2>3, <3>1 DEF FlushBuffer, TypeInv
    <3>3. stream'[b] = stream[b] /\ failed'[b] = failed[b]
      BY <1>2, <2>3, <3>1, WriteOutcome DEF FlushBuffer
    <3> QED  BY <1>0, <1>c, <3>2, <3>3 DEF Streams
  <2>4. CASE c = b
    <3>0. b # "null"
      BY DEF Stream
    <3>1. Write(b, buffer[b]) /\ buffer'[b] = <<>> /\ printed'[b] = printed[b]
      BY <1>2, <2>4, <3>0 DEF FlushBuffer, TypeInv
    <3>2. \/ stream'[b] = stream[b] /\ (failed'[b] \/ (buffer[b] = <<>> /\ failed'[b] = failed[b]))
          \/ ~failed[b] /\ stream'[b] = printed[b]
      BY <1>0, <3>1, WriteOutcome DEF Streams
    <3>3. IsPrefixOf(printed[b], printed[b]) /\ printed[b] \o <<>> = printed[b]
      BY <1>t, PrefixElements, LenProperties, ConcatEmptySeq DEF Texts
    <3>4. IsPrefixOf(stream'[b], printed'[b])
      BY <1>0, <3>1, <3>2, <3>3 DEF Streams
    <3>5. ~failed'[b] => stream'[b] \o <<>> = printed'[b]
      BY <1>0, <3>1, <3>2, <3>3 DEF Streams
    <3> QED  BY <1>c, <1>e, <3>1, <3>4, <3>5 DEF Streams
  <2> QED  BY <2>2, <2>3, <2>4
<1>3. CASE PrintEnd \/ Leaves \/ EndOptions \/ TakeDashDash \/ TakePackage
  BY <1>3, <1>u DEF PrintEnd, Leaves, EndOptions, TakeDashDash, TakePackage, Stay
<1>4. CASE TakeOption \/ RefuseOption
  BY <1>4, <1>u DEF TakeOption, RefuseOption, Stay
<1>5. CASE ProcessArgs \/ Check \/ Modversion \/ Variable \/ Cflags \/ Libs \/ End
  BY <1>5, <1>u DEF ProcessArgs, Check, Modversion, Variable, Cflags, Libs, End, Then
<1>6. CASE UNCHANGED vars
  BY <1>6, <1>u DEF vars
<1> QED
  BY <1>1, <1>2, <1>3, <1>4, <1>5, <1>6 DEF Next

(* A stream never shows anything but a beginning of what was printed to it,*)
(* all of it unless a write failed, and no buffer is left full (404,       *)
(* 2639-2679), for buffers of any capacity.                                *)
THEOREM StreamsHold == Spec => []StreamsArePrefixes
<1>1. Init => TypeInv /\ StreamsArePrefixes
  BY TypeInit, StreamsInit
<1>2. TypeInv /\ StreamsArePrefixes /\ [Next]_vars => (TypeInv /\ StreamsArePrefixes)'
  BY TypeStep, StreamsStep
<1> QED  BY <1>1, <1>2, PTL DEF Spec

(* The same of a pkg-config that an alias started and ctrl-C may end: what *)
(* the alias and the console do leaves the two streams alone.              *)
THEOREM StreamsHoldLaunched == LaunchSpec => []StreamsArePrefixes
<1>1. LaunchInit => TypeInv /\ StreamsArePrefixes
  BY TypeInit, StreamsInit DEF LaunchInit
<1>2. ASSUME UNCHANGED <<progress, todo, phase, io>>, TypeInv, StreamsArePrefixes
      PROVE  (TypeInv /\ StreamsArePrefixes)'
  BY <1>2 DEF progress, io, TypeInv, StreamsArePrefixes, Cap
<1>3. LaunchNext => Next \/ UNCHANGED <<progress, todo, phase, io>>
  BY DEF LaunchNext, Refuse, Shield, StartFails, Start, Relay, Press, HandleInAlias,
         HandleInChild, Attach, RunChild, vars
<1>4. TypeInv /\ StreamsArePrefixes /\ [LaunchNext]_<<vars, launch>>
        => (TypeInv /\ StreamsArePrefixes)'
  BY <1>2, <1>3, TypeStep, StreamsStep DEF vars
<1> QED  BY <1>1, <1>4, PTL DEF LaunchSpec

-----------------------------------------------------------------------------
(* The alias and its child.                                                *)

RelayInv ==
  /\ alias \in {"building", "starting", "waiting", "ended"}
  /\ child \in {"none", "loading", "attached"}
  /\ child # "attached" => exit = "running" /\ index = 0 /\ "child" \notin pending
  /\ alias \in {"building", "starting"} => child = "none"
  /\ alias = "waiting" => child # "none"
  /\ alias \in {"starting", "waiting"} => shielded
  /\ AliasRelays

LEMMA OnlyRunning == Next => exit = "running"
<1>1. Leaves \/ PrintByte \/ PrintEnd \/ FlushBuffer => exit = "running"
  BY DEF Leaves, PrintByte, PrintEnd, FlushBuffer, Running
<1>2. EndOptions \/ TakeDashDash \/ TakePackage \/ TakeOption \/ RefuseOption => exit = "running"
  BY DEF EndOptions, TakeDashDash, TakePackage, TakeOption, RefuseOption, AtOption
<1>3. ProcessArgs \/ Check \/ Modversion \/ Variable \/ Cflags \/ Libs \/ End => exit = "running"
  BY DEF ProcessArgs, Check, Modversion, Variable, Cflags, Libs, End, At
<1> QED  BY <1>1, <1>2, <1>3 DEF Next

LEMMA RelayStep == RelayInv /\ [LaunchNext]_<<vars, launch>> => RelayInv'
<1> SUFFICES ASSUME RelayInv, [LaunchNext]_<<vars, launch>> PROVE RelayInv'
  OBVIOUS
<1> USE DEF RelayInv, AliasRelays, Ended
<1>1. CASE Refuse \/ Shield \/ StartFails \/ Start
  BY <1>1 DEF Refuse, Shield, StartFails, Start, vars, progress
<1>2. CASE Relay
  BY <1>2 DEF Relay, vars, progress
<1>3. CASE Press
  BY <1>3 DEF Press, Attached, vars, progress
<1>4. CASE HandleInAlias
  BY <1>4 DEF HandleInAlias, vars, progress
<1>5. CASE HandleInChild
  BY <1>5 DEF HandleInChild, progress
<1>6. CASE Attach
  BY <1>6 DEF Attach, vars, progress
<1>7. CASE RunChild
  BY <1>7, OnlyRunning DEF RunChild, launch
<1>8. CASE UNCHANGED <<vars, launch>>
  BY <1>8 DEF vars, launch, progress
<1> QED
  BY <1>1, <1>2, <1>3, <1>4, <1>5, <1>6, <1>7, <1>8 DEF LaunchNext

(* However often and whenever ctrl-C is pressed, an alias that ends before *)
(* it starts a child says so, and otherwise ends only with the status of   *)
(* the child and after it (alias.c 176-227).                               *)
THEOREM AliasAlwaysRelays == LaunchSpec => []AliasRelays
<1>1. LaunchInit => RelayInv
  BY DEF LaunchInit, Init, RelayInv, AliasRelays
<1>2. RelayInv => AliasRelays
  BY DEF RelayInv
<1> QED  BY <1>1, <1>2, RelayStep, PTL DEF LaunchSpec

-----------------------------------------------------------------------------
(***************************************************************************)
(* What the exit status of Driver, by itself and under an alias, says of   *)
(* what it printed, for buffers of any capacity and any command lines.     *)
(***************************************************************************)

FromEnd == {"end", "ended"}
FromLibs == {"libs"} \cup FromEnd
FromCflags == {"cflags"} \cup FromLibs
FromModversion == {"modversion", "variable"} \cup FromCflags
FromCheck == {"check"} \cup FromModversion
Phase == {"options", "process"} \cup FromCheck

(* Where the options send messages.                                        *)
ErrOf ==
  IF Quiet \cap given # {} THEN "null"
  ELSE IF "--errors-to-stdout" \in given THEN "out" ELSE "err"

Settings ==
  /\ phase \in Phase
  /\ "none" \notin given
  /\ nargs \in Nat
  /\ err = IF phase = "options" THEN "err" ELSE ErrOf

(* What is known not to have failed once a stage is passed.                *)
Settled ==
  /\ phase # "options" => index = Len(job.args) /\ given \cap Leave = {}
  /\ job.fault = "--define-variable" => job.fault \notin given
  /\ phase \in FromCheck => job.fault # "package" \/ nargs = 0
  /\ phase \in FromModversion => /\ nargs > 0
                                 /\ job.fault \notin {"package", "dangling operator"}
                                 /\ job.fault = "--atleast-version" => job.fault \notin given
  /\ phase \in FromCflags => (job.fault = "--variable" => job.fault \notin given)
  /\ phase \in FromLibs => (job.fault = "--cflags" => job.fault \notin given)
  /\ phase \in FromEnd => (job.fault = "--libs" => job.fault \notin given)

(* The texts of the stages, and what is printed when a stage begins.       *)
M == IF "--modversion" \in given THEN <<"version", "nl">> ELSE <<>>
V == IF "--variable" \in given THEN <<"value", "nl">> ELSE <<>>
C == IF "--cflags" \in given THEN <<"cflags">> ELSE <<>>
L == IF "--libs" \in given THEN <<"libs">> ELSE <<>>
N == IF {"--cflags", "--libs"} \cap given # {} THEN <<"nl">> ELSE <<>>

Goal ==
  CASE phase = "variable" -> M
    [] phase = "cflags" -> M \o V
    [] phase = "libs" -> M \o V \o C
    [] phase = "end" -> M \o V \o C \o L
    [] phase = "ended" -> M \o V \o C \o L \o N
    [] OTHER -> <<>>

Prints(b, t) ==
  todo # <<>> /\ Head(todo).op = "print" /\ Head(todo).to = b /\ Head(todo).text = t

Ending == phase = "ended" \/ given \cap Leave # {}

(* Nothing has failed: no message was sent, and with t, the rest of what   *)
(* is being printed, there is on stdout what was asked for so far.         *)
OnCourse(t) ==
  /\ Settled
  /\ printed["err"] = <<>>
  /\ given \cap Leave = {} => printed["out"] \o t = Goal
  /\ \/ todo = <<>> /\ t = <<>> /\ given \cap Leave = {} /\ phase # "ended"
     \/ /\ Prints("out", t) /\ Tail(todo) = <<>>
        /\ given \cap Leave = {} /\ phase \notin {"options", "ended"}
     \/ Ending /\ Prints("out", t) /\ Tail(todo) = <<Flush("out"), Exit>>
     \/ Ending /\ t = <<>> /\ todo = <<Flush("out"), Exit>>
     \/ Ending /\ t = <<>> /\ todo = <<Exit>> /\ (buffer["out"] = <<>> \/ failed["out"])

FailOp(b) == [op |-> "fail", to |-> b, text |-> <<>>]

(* A message goes, or went, to b, and then the program fails.              *)
Failing(b, t) ==
  /\ b = "null" => Quiet \cap given # {}
  /\ b = "out" => "--errors-to-stdout" \in given
  /\ phase # "options" /\ job.fault # "package" => b = err
  /\ b # "err" => printed["err"] = <<>>
  /\ \/ /\ Prints("out", t)
        /\ \E m \in Texts : m # <<>> /\ Tail(todo) = Fail(b, m)
     \/ /\ Prints(b, t) /\ Tail(todo) = <<Flush(b), FailOp(b)>>
        /\ b # "null" => t # <<>> \/ printed[b] # <<>>
     \/ /\ todo = <<Flush(b), FailOp(b)>>
        /\ b # "null" => printed[b] # <<>>
     \/ /\ todo = <<FailOp(b)>>
        /\ b # "null" => printed[b] # <<>> /\ (buffer[b] = <<>> \/ failed[b])

Going == \E t \in Texts : OnCourse(t) \/ \E b \in Target : Failing(b, t)

OutcomeInv ==
  /\ Settings
  /\ exit = "running" => Going
  /\ SuccessMeansDone /\ FailureIsExplained /\ OwnChecksObey

-----------------------------------------------------------------------------
LEMMA OutcomeInit == Init => OutcomeInv
<1> SUFFICES ASSUME Init PROVE OutcomeInv
  OBVIOUS
<1>1. Settings
  BY DEF Init, Settings, Phase
<1>2. OnCourse(<<>>)
  <2>1. Settled
    BY DEF Init, Settled, FromEnd, FromLibs, FromCflags, FromModversion, FromCheck
  <2>2. <<>> \o <<>> = <<>>
    BY Messages, ConcatEmptySeq DEF Texts
  <2> QED  BY <2>1, <2>2 DEF Init, OnCourse, Goal
<1>3. <<>> \in Texts
  BY Messages
<1>4. SuccessMeansDone /\ FailureIsExplained /\ OwnChecksObey
  BY DEF Init, SuccessMeansDone, FailureIsExplained, OwnChecksObey
<1> QED  BY <1>1, <1>2, <1>3, <1>4 DEF OutcomeInv, Going

(* While nothing has failed no message is on stderr; when something has,   *)
(* it is one the options allow there.                                      *)
LEMMA GoingObeys == Settings /\ Going => OwnChecksObey
BY DEF Settings, Going, OnCourse, Failing, OwnChecksObey, ErrOf, Quiet

LEMMA ConsParts ==
  ASSUME NEW S, NEW a \in S, NEW s \in Seq(S)
  PROVE  <<a>> \o s # <<>> /\ Head(<<a>> \o s) = a /\ Tail(<<a>> \o s) = s
<1>1. <<a>> \in Seq(S) /\ Len(<<a>>) = 1 /\ Len(s) \in Nat
  BY LenProperties
<1>2. /\ <<a>> \o s \in Seq(S) /\ Len(<<a>> \o s) = 1 + Len(s)
      /\ \A i \in 1..Len(s) : (<<a>> \o s)[i + 1] = s[i]
      /\ (<<a>> \o s)[1] = a
  BY <1>1, ConcatProperties
<1>3. <<a>> \o s # <<>>
  BY <1>1, <1>2, EmptySeq
<1>4. Head(<<a>> \o s) = a
  BY <1>2, <1>3, HeadTailProperties
<1>5. /\ Tail(<<a>> \o s) \in Seq(S) /\ Len(Tail(<<a>> \o s)) = Len(s)
      /\ \A i \in 1..Len(s) : Tail(<<a>> \o s)[i] = s[i]
  BY <1>1, <1>2, <1>3, HeadTailProperties
<1> QED  BY <1>3, <1>4, <1>5, SeqEqual

LEMMA MoveHead ==
  ASSUME NEW S, NEW s \in Seq(S), NEW t \in Seq(S), t # <<>>
  PROVE  Append(s, Head(t)) \o Tail(t) = s \o t
<1>1. Head(t) \in S /\ Tail(t) \in Seq(S) /\ Len(Tail(t)) = Len(t) - 1
      /\ \A i \in 1..Len(Tail(t)) : Tail(t)[i] = t[i + 1]
  BY HeadTailProperties
<1>2. Head(t) = t[1] /\ Len(t) \in Nat /\ Len(t) > 0 /\ Len(s) \in Nat
  BY EmptySeq, LenProperties
<1>3. /\ Append(s, Head(t)) \in Seq(S) /\ Len(Append(s, Head(t))) = Len(s) + 1
      /\ \A i \in 1..Len(s) : Append(s, Head(t))[i] = s[i]
      /\ Append(s, Head(t))[Len(s) + 1] = Head(t)
  BY <1>1, AppendProperties
<1> DEFINE u == Append(s, Head(t))
<1>4. /\ u \o Tail(t) \in Seq(S) /\ Len(u \o Tail(t)) = Len(u) + Len(Tail(t))
      /\ \A i \in 1..Len(u) : (u \o Tail(t))[i] = u[i]
      /\ \A i \in 1..Len(Tail(t)) : (u \o Tail(t))[Len(u) + i] = Tail(t)[i]
  BY <1>1, <1>3, ConcatProperties
<1>5. /\ s \o t \in Seq(S) /\ Len(s \o t) = Len(s) + Len(t)
      /\ \A i \in 1..Len(s) : (s \o t)[i] = s[i]
      /\ \A i \in 1..Len(t) : (s \o t)[Len(s) + i] = t[i]
  BY ConcatProperties
<1>6. ASSUME NEW i \in 1..Len(s \o t) PROVE (u \o Tail(t))[i] = (s \o t)[i]
  <2>1. CASE i \in 1..Len(s)
    BY <1>2, <1>3, <1>4, <1>5, <2>1
  <2>2. CASE i = Len(s) + 1
    BY <1>2, <1>3, <1>4, <1>5, <2>2
  <2>3. CASE i > Len(s) + 1
    <3>1. i - Len(s) - 1 \in 1..Len(Tail(t)) /\ i - Len(s) \in 1..Len(t)
      BY <1>1, <1>2, <1>5, <2>3
    <3>2. (u \o Tail(t))[Len(u) + (i - Len(s) - 1)] = Tail(t)[i - Len(s) - 1]
      BY <1>4, <3>1
    <3>3. (s \o t)[Len(s) + (i - Len(s))] = t[i - Len(s)]
      BY <1>5, <3>1
    <3>4. Tail(t)[i - Len(s) - 1] = t[(i - Len(s) - 1) + 1]
      BY <1>1, <3>1
    <3>5. Len(u) + (i - Len(s) - 1) = i /\ Len(s) + (i - Len(s)) = i
          /\ (i - Len(s) - 1) + 1 = i - Len(s)
      BY <1>2, <1>3, <1>5
    <3> QED  BY <3>2, <3>3, <3>4, <3>5
  <2> QED  BY <1>2, <1>5, <2>1, <2>2, <2>3
<1>7. Len(u \o Tail(t)) = Len(s \o t)
  BY <1>1, <1>2, <1>3, <1>4, <1>5
<1> QED  BY <1>4, <1>5, <1>6, <1>7, SeqEqual

-----------------------------------------------------------------------------
(* The output steps.                                                       *)

LEMMA PrintByteEffect ==
  ASSUME TypeInv, PrintByte, NEW c, NEW t, Prints(c, t)
  PROVE  /\ t # <<>> /\ Prints(c, Tail(t))' /\ Tail(todo)' = Tail(todo)
         /\ Head(t) \in Atom /\ Tail(t) \in Texts
         /\ UNCHANGED <<progress, phase, exit>>
         /\ \A b \in Stream : printed'[b] = IF b = c THEN Append(printed[b], Head(t)) ELSE printed[b]
<1>1. todo # <<>> /\ t # <<>> /\ Head(todo).to = c /\ Head(todo).text = t /\ Head(todo).op = "print"
  BY DEF PrintByte, Running, Prints
<1> DEFINE r == [Head(todo) EXCEPT !.text = Tail(@)]
<1>2. /\ r \in Do /\ Tail(todo) \in Seq(Do) /\ Head(todo) \in Do
      /\ Head(t) \in Atom /\ Tail(t) \in Texts
  BY <1>1, TodoStep
<1>3. r.op = "print" /\ r.to = c /\ r.text = Tail(t)
  BY <1>1, <1>2 DEF Do
<1>4. todo' = <<r>> \o Tail(todo)
  BY DEF PrintByte
<1>5. todo' # <<>> /\ Head(todo') = r /\ Tail(todo') = Tail(todo)
  <2> HIDE DEF r
  <2> QED  BY <1>2, <1>4, ConsParts
<1>6. UNCHANGED <<progress, phase, exit>>
  BY DEF PrintByte
<1>7. \A b \in Stream : printed'[b] = IF b = c THEN Append(printed[b], Head(t)) ELSE printed[b]
  <2>1. CASE c = "null"
    BY <1>1, <2>1 DEF PrintByte, io, Stream
  <2>2. CASE c # "null"
    BY <1>1, <2>2 DEF PrintByte, TypeInv
  <2> QED  BY <2>1, <2>2
<1> HIDE DEF r
<1> QED  BY <1>1, <1>2, <1>3, <1>5, <1>6, <1>7 DEF Prints

LEMMA Unsettled ==
  ASSUME UNCHANGED <<progress, phase>>
  PROVE  Settings' = Settings /\ Settled' = Settled /\ Goal' = Goal /\ Ending' = Ending
<1>1. UNCHANGED <<job, index, given, nargs, err, phase>>
  BY DEF progress
<1>2. Settings' = Settings
  BY <1>1 DEF Settings, ErrOf
<1>3. Settled' = Settled
  BY <1>1 DEF Settled
<1>4. Goal' = Goal
  BY <1>1 DEF Goal, M, V, C, L, N
<1>5. Ending' = Ending
  BY <1>1 DEF Ending
<1> QED  BY <1>2, <1>3, <1>4, <1>5

LEMMA PrintByteOnCourse ==
  ASSUME TypeInv, PrintByte, NEW t \in Texts, OnCourse(t)
  PROVE  OnCourse(Tail(t))' /\ Tail(t) \in Texts
<1>1. todo # <<>> /\ Head(todo).op = "print"
  BY DEF PrintByte, Running
<1>2. Prints("out", t)
  BY <1>1 DEF OnCourse, Flush, Exit
<1>3. /\ t # <<>> /\ Prints("out", Tail(t))' /\ Tail(todo)' = Tail(todo)
      /\ Head(t) \in Atom /\ Tail(t) \in Texts
      /\ UNCHANGED <<progress, phase>>
      /\ printed'["out"] = Append(printed["out"], Head(t)) /\ printed'["err"] = printed["err"]
  BY <1>2, PrintByteEffect DEF Stream
<1>4. Append(printed["out"], Head(t)) \o Tail(t) = printed["out"] \o t
  BY <1>3, MoveHead DEF TypeInv, Texts, Stream
<1>5. UNCHANGED given /\ Settled' = Settled /\ Goal' = Goal /\ Ending' = Ending
  BY <1>3, Unsettled DEF progress
<1> QED
  BY <1>1, <1>3, <1>4, <1>5 DEF OnCourse, Flush, Exit

LEMMA PrintByteFailing ==
  ASSUME TypeInv, PrintByte, NEW t \in Texts, NEW b \in Target, Failing(b, t)
  PROVE  Failing(b, Tail(t))' /\ Tail(t) \in Texts
<1>1. todo # <<>> /\ Head(todo).op = "print"
  BY DEF PrintByte, Running
<1>2. Prints("out", t) \/ Prints(b, t)
  BY <1>1 DEF Failing, Flush, FailOp
<1>3. PICK c \in {"out", b} :
        /\ Prints(c, t)
        /\ \/ c = "out" /\ \E m \in Texts : m # <<>> /\ Tail(todo) = Fail(b, m)
           \/ c = b /\ Tail(todo) = <<Flush(b), FailOp(b)>>
  BY <1>1 DEF Failing, Flush, FailOp
<1>4. /\ t # <<>> /\ Prints(c, Tail(t))' /\ Tail(todo)' = Tail(todo)
      /\ Head(t) \in Atom /\ Tail(t) \in Texts
      /\ UNCHANGED <<progress, phase>>
      /\ \A d \in Stream : printed'[d] = IF d = c THEN Append(printed[d], Head(t)) ELSE printed[d]
  BY <1>3, PrintByteEffect
<1>5. UNCHANGED <<given, job, err, phase>>
  BY <1>4 DEF progress
<1>6. b # "err" => printed'["err"] = <<>>
  BY <1>3, <1>4 DEF Failing, Stream
<1>7. CASE \E m \in Texts : m # <<>> /\ Tail(todo) = Fail(b, m) /\ c = "out"
  BY <1>4, <1>5, <1>6, <1>7 DEF Failing, Fail
<1>8. CASE c = b /\ Tail(todo) = <<Flush(b), FailOp(b)>>
  <2>1. b # "null" => printed'[b] # <<>>
    <3>1. b # "null" => b \in Stream
      BY DEF Target, Stream
    <3>2. \A d \in Stream : Append(printed[d], Head(t)) # <<>>
      <4>1. \A q \in Seq(Atom) : Append(q, Head(t)) # <<>>
        BY <1>4, AppendProperties, EmptySeq, LenProperties
      <4>2. \A d \in Stream : printed[d] \in Seq(Atom)
        BY DEF TypeInv, Texts
      <4> QED  BY <4>1, <4>2
    <3> QED  BY <1>4, <1>8, <3>1, <3>2
  <2> QED  BY <1>4, <1>5, <1>6, <1>8, <2>1 DEF Failing, Flush, FailOp
<1> QED  BY <1>3, <1>4, <1>7, <1>8

LEMMA PrintEndGoes ==
  ASSUME TypeInv, PrintEnd, Going
  PROVE  Going'
<1>1. todo # <<>> /\ Head(todo).op = "print" /\ Head(todo).text = <<>> /\ todo' = Tail(todo)
  BY DEF PrintEnd, Running
<1>2. UNCHANGED <<progress, phase>> /\ UNCHANGED <<job, given, err, phase>> /\ UNCHANGED io
  BY DEF PrintEnd, progress
<1>3. UNCHANGED <<printed, buffer, failed>>
  BY <1>2 DEF io
<1>4. Settled' = Settled /\ Goal' = Goal /\ Ending' = Ending
  BY <1>2, Unsettled
<1>5. PICK t \in Texts : OnCourse(t) \/ \E b \in Target : Failing(b, t)
  BY DEF Going
<1>6. ASSUME OnCourse(t) PROVE OnCourse(<<>>)'
  <2>1. t = <<>> /\ Prints("out", t)
    BY <1>1, <1>6 DEF OnCourse, Flush, Exit, Prints
  <2> QED  BY <1>1, <1>2, <1>3, <1>4, <1>6, <2>1 DEF OnCourse, Flush, Exit
<1>7. ASSUME NEW b \in Target, Failing(b, t) PROVE \E u \in Texts : Failing(b, u)'
  <2>1. CASE Prints("out", t) /\ \E m \in Texts : m # <<>> /\ Tail(todo) = Fail(b, m)
    <3>1. PICK m \in Texts : m # <<>> /\ todo' = Fail(b, m)
      BY <1>1, <2>1
    <3>2. Prints(b, m)' /\ Tail(todo)' = <<Flush(b), FailOp(b)>>
      BY <3>1 DEF Fail, Prints, Put, FailOp
    <3>3. Failing(b, m)'
      BY <1>2, <1>3, <1>7, <3>1, <3>2 DEF Failing
    <3> QED  BY <3>3
  <2>2. CASE Prints(b, t) /\ Tail(todo) = <<Flush(b), FailOp(b)>>
             /\ (b # "null" => t # <<>> \/ printed[b] # <<>>)
    <3>1. t = <<>>
      BY <1>1, <2>2 DEF Prints
    <3>2. Failing(b, t)'
      BY <1>1, <1>2, <1>3, <1>7, <2>2, <3>1 DEF Failing
    <3> QED  BY <3>2
  <2> QED  BY <1>1, <1>7, <2>1, <2>2 DEF Failing, Flush, FailOp
<1>8. <<>> \in Texts
  BY Messages
<1> QED  BY <1>5, <1>6, <1>7, <1>8 DEF Going

LEMMA FlushGoes ==
  ASSUME TypeInv, FlushBuffer, Going
  PROVE  Going'
<1> DEFINE c == Head(todo).to
<1>1. todo # <<>> /\ Head(todo).op = "flush" /\ todo' = Tail(todo)
  BY DEF FlushBuffer, Running
<1>2. UNCHANGED <<progress, phase>> /\ UNCHANGED <<job, given, err, phase>>
  BY DEF FlushBuffer, progress
<1>3. UNCHANGED printed /\ (c \in Stream => buffer'[c] = <<>>)
  <2>1. CASE c = "null"
    BY <2>1 DEF FlushBuffer, io, Stream
  <2>2. CASE c # "null"
    BY <2>2 DEF FlushBuffer, TypeInv
  <2> QED  BY <2>1, <2>2
<1>4. Settled' = Settled /\ Goal' = Goal /\ Ending' = Ending
  BY <1>2, Unsettled
<1>5. PICK t \in Texts : OnCourse(t) \/ \E b \in Target : Failing(b, t)
  BY DEF Going
<1>6. ASSUME OnCourse(t) PROVE OnCourse(t)'
  <2>1. t = <<>> /\ todo = <<Flush("out"), Exit>> /\ Ending
    BY <1>1, <1>6 DEF OnCourse, Flush, Exit, Prints
  <2>2. todo' = <<Exit>> /\ buffer'["out"] = <<>>
    BY <1>1, <1>3, <2>1 DEF Flush, Stream
  <2> QED  BY <1>2, <1>3, <1>4, <1>6, <2>1, <2>2 DEF OnCourse
<1>7. ASSUME NEW b \in Target, Failing(b, t) PROVE Failing(b, t)'
  <2>1. todo = <<Flush(b), FailOp(b)>> /\ (b # "null" => printed[b] # <<>>)
    BY <1>1, <1>7 DEF Failing, Prints, FailOp
  <2>2. todo' = <<FailOp(b)>> /\ (b # "null" => buffer'[b] = <<>>)
    BY <1>1, <1>3, <2>1 DEF Flush, Stream, Target
  <2> QED  BY <1>2, <1>3, <1>7, <2>1, <2>2 DEF Failing
<1> QED  BY <1>5, <1>6, <1>7 DEF Going

(* How the program ends.                                                   *)
LEMMA EmptyParts ==
  ASSUME NEW s \in Seq(Atom), NEW t \in Seq(Atom), s \o t = <<>>
  PROVE  s = <<>> /\ t = <<>>
<1>1. Len(s) \in Nat /\ Len(t) \in Nat /\ Len(s) + Len(t) = 0
  BY ConcatProperties, LenProperties, EmptySeq
<1> QED  BY <1>1, EmptySeq

LEMMA LeavesSuccess ==
  ASSUME TypeInv, StreamsArePrefixes, Settings, Leaves, NEW t \in Texts, OnCourse(t)
  PROVE  SuccessMeansDone' /\ FailureIsExplained'
<1>1. todo # <<>> /\ Head(todo).op \in {"fail", "exit"}
  BY DEF Leaves, Running
<1>2. Ending /\ t = <<>> /\ todo = <<Exit>> /\ (buffer["out"] = <<>> \/ failed["out"])
  BY <1>1 DEF OnCourse, Flush, Prints
<1>3. UNCHANGED <<job, index, given, nargs, buffer, stream, failed, printed>>
  BY DEF Leaves, progress, io
<1>4. exit' = IF failed["out"] \/ failed["err"] THEN "failure" ELSE "success"
  BY <1>2 DEF Leaves, Exit
<1>5. ASSUME ~failed["out"], ~failed["err"]
      PROVE  SuccessMeansDone'
  <2>1. /\ stream["out"] \in Seq(Atom) /\ stream["err"] \in Seq(Atom) /\ buffer["err"] \in Seq(Atom)
        /\ printed["out"] \in Seq(Atom)
    BY DEF TypeInv, Texts, Stream
  <2>2. stream["out"] \o buffer["out"] = printed["out"] /\ stream["err"] \o buffer["err"] = <<>>
    BY <1>5 DEF StreamsArePrefixes, OnCourse
  <2>3. stream["err"] = <<>> /\ printed["err"] = <<>>
    BY <2>1, <2>2, EmptyParts DEF OnCourse
  <2>4. stream["out"] = printed["out"]
    BY <1>2, <1>5, <2>1, <2>2, ConcatEmptySeq
  <2>5. stream = printed
    BY <2>3, <2>4 DEF TypeInv, Stream
  <2>6. ASSUME given \cap Leave = {}
        PROVE  /\ stream["out"] = Wanted
               /\ index = Len(job.args) /\ nargs > 0
               /\ job.fault \notin {"package", "dangling operator"} \cup given
    <3>1. phase = "ended"
      BY <1>2, <2>6 DEF Ending
    <3>2. printed["out"] = Goal
      <4>1. printed["out"] \o <<>> = Goal
        BY <1>2, <2>6 DEF OnCourse
      <4> QED  BY <2>1, <4>1, ConcatEmptySeq
    <3>3. Goal = Wanted
      BY <3>1 DEF Goal, Wanted, M, V, C, L, N
    <3>4. job.fault \in Fault
      BY DEF TypeInv, Job
    <3>5. Settled
      BY DEF OnCourse
    <3>6. job.fault \notin given
      BY <3>1, <3>4, <3>5
         DEF Settled, Settings, Fault, FromEnd, FromLibs, FromCflags, FromModversion, FromCheck
    <3> QED  BY <2>4, <3>1, <3>2, <3>3, <3>5, <3>6
             DEF Settled, FromEnd, FromLibs, FromCflags, FromModversion, FromCheck
  <2>7. Wanted' = Wanted
    BY <1>3 DEF Wanted
  <2> QED  BY <1>3, <2>3, <2>5, <2>6, <2>7 DEF SuccessMeansDone
<1> QED  BY <1>3, <1>4, <1>5 DEF SuccessMeansDone, FailureIsExplained

LEMMA LeavesFailure ==
  ASSUME TypeInv, StreamsArePrefixes, Leaves, NEW t \in Texts, NEW b \in Target, Failing(b, t)
  PROVE  SuccessMeansDone' /\ FailureIsExplained'
<1>1. todo # <<>> /\ Head(todo).op \in {"fail", "exit"}
  BY DEF Leaves, Running
<1>2. todo = <<FailOp(b)>> /\ (b # "null" => printed[b] # <<>> /\ (buffer[b] = <<>> \/ failed[b]))
  BY <1>1 DEF Failing, Flush, Prints
<1>3. exit' = "failure"
  BY <1>2 DEF Leaves, FailOp
<1>4. UNCHANGED <<given, buffer, stream, failed, printed>>
  BY DEF Leaves, progress, io
<1>5. ASSUME ~failed["out"], ~failed["err"], b # "null"
      PROVE  stream[b] # <<>>
  <2>1. b \in Stream
    BY <1>5 DEF Target, Stream
  <2>2. stream[b] \o <<>> = printed[b]
    BY <1>2, <1>5, <2>1 DEF StreamsArePrefixes, Stream
  <2>3. stream[b] \in Seq(Atom)
    BY <2>1 DEF TypeInv, Texts
  <2> QED  BY <1>2, <1>5, <2>2, <2>3, ConcatEmptySeq
<1> QED  BY <1>3, <1>4, <1>5 DEF SuccessMeansDone, FailureIsExplained, Failing, Target

-----------------------------------------------------------------------------
(* The options and the stages.                                             *)

LEMMA Idle ==
  ASSUME TypeInv, Going, todo = <<>>
  PROVE  /\ Settled /\ printed["err"] = <<>> /\ printed["out"] = Goal
         /\ given \cap Leave = {} /\ phase # "ended"
<1>1. PICK t \in Texts : OnCourse(t)
  BY DEF Going, Failing, Prints
<1>2. t = <<>> /\ given \cap Leave = {} /\ phase # "ended"
  BY <1>1 DEF OnCourse, Prints
<1>3. printed["out"] \o <<>> = Goal
  BY <1>1, <1>2 DEF OnCourse
<1>4. printed["out"] \in Seq(Atom)
  BY DEF TypeInv, Texts, Stream
<1>5. printed["out"] = Goal
  BY <1>3, <1>4, ConcatEmptySeq
<1> QED  BY <1>1, <1>2, <1>5 DEF OnCourse

LEMMA FailGoes ==
  ASSUME NEW b \in Target, NEW m \in Texts, m # <<>>,
         todo' = Fail(b, m), printed'["err"] = <<>>,
         b = "null" => Quiet \cap given' # {},
         b = "out" => "--errors-to-stdout" \in given',
         phase' # "options" /\ job'.fault # "package" => b = err'
  PROVE  Going'
<1>1. Prints(b, m)' /\ Tail(todo)' = <<Flush(b), FailOp(b)>>
  BY DEF Fail, Prints, Put, FailOp
<1>2. Failing(b, m)'
  BY <1>1 DEF Failing
<1> QED  BY <1>2 DEF Going

LEMMA EndOptionsGoes ==
  ASSUME TypeInv, Settings, EndOptions, Going
  PROVE  Settings' /\ Going'
<1>1. todo = <<>> /\ phase = "options" /\ phase' = "process" /\ index = Len(job.args)
      /\ UNCHANGED <<job, index, given, nargs, todo, printed>>
  BY DEF EndOptions, AtOption, io
<1>2. /\ Settled /\ printed["err"] = <<>> /\ printed["out"] = Goal
      /\ given \cap Leave = {}
  BY <1>1, Idle
<1>3. Settings'
  BY <1>1 DEF EndOptions, Settings, ErrOf, Phase
<1>4. Settled'
  BY <1>1, <1>2 DEF Settled, FromEnd, FromLibs, FromCflags, FromModversion, FromCheck
<1>5. Goal = <<>> /\ Goal' = <<>>
  BY <1>1 DEF Goal
<1>6. <<>> \in Texts /\ <<>> \o <<>> = <<>>
  BY Messages, ConcatEmptySeq DEF Texts
<1>7. OnCourse(<<>>)'
  BY <1>1, <1>2, <1>4, <1>5, <1>6 DEF OnCourse
<1> QED  BY <1>3, <1>6, <1>7 DEF Going

LEMMA ArgumentGoes ==
  ASSUME TypeInv, Settings, TakeDashDash \/ TakePackage, Going
  PROVE  Settings' /\ Going'
<1>1. todo = <<>> /\ phase = "options" /\ UNCHANGED <<job, phase, given, err, todo, printed>>
      /\ nargs' \in {nargs, nargs + 1}
  BY DEF TakeDashDash, TakePackage, AtOption, Stay, io
<1>2. /\ Settled /\ printed["err"] = <<>> /\ printed["out"] = Goal
      /\ given \cap Leave = {}
  BY <1>1, Idle
<1>3. Settings'
  BY <1>1 DEF Settings, ErrOf
<1>4. Settled'
  BY <1>1, <1>2 DEF Settled, FromEnd, FromLibs, FromCflags, FromModversion, FromCheck
<1>5. Goal = <<>> /\ Goal' = <<>>
  BY <1>1 DEF Goal
<1>6. <<>> \in Texts /\ <<>> \o <<>> = <<>>
  BY Messages, ConcatEmptySeq DEF Texts
<1>7. OnCourse(<<>>)'
  BY <1>1, <1>2, <1>4, <1>5, <1>6 DEF OnCourse
<1> QED  BY <1>3, <1>6, <1>7 DEF Going

LEMMA TakeOptionGoes ==
  ASSUME TypeInv, StreamsArePrefixes, Settings, TakeOption, Going
  PROVE  Settings' /\ Going'
<1> DEFINE name == Arg.name
<1>1. todo = <<>> /\ phase = "options" /\ name \in Option /\ given' = given \cup {name}
      /\ UNCHANGED <<job, phase, nargs, err, io>>
  BY DEF TakeOption, AtOption, Stay, Act
<1>2. /\ Settled /\ printed["err"] = <<>> /\ printed["out"] = Goal
      /\ given \cap Leave = {}
  BY <1>1, Idle
<1>p. UNCHANGED <<printed, buffer, failed>>
  BY <1>1 DEF io
<1>3. Settings'
  <2>1. "none" \notin Option
    BY DEF Option, Report, Quiet, Leave, Valued, Other, OtherValue
  <2> QED  BY <1>1, <2>1 DEF Settings, ErrOf
<1>5. Goal = <<>> /\ Goal' = <<>>
  BY <1>1 DEF Goal
<1>6. <<>> \in Texts /\ <<>> \o <<>> = <<>>
  BY Messages, ConcatEmptySeq DEF Texts
<1>7. CASE name = "--define-variable" /\ job.fault = name
  <2>1. todo' = Fail(err, <<"no value", "nl">>) /\ err = "err"
    BY <1>1, <1>7 DEF TakeOption, Act, Settings
  <2>2. <<"no value", "nl">> # <<>> /\ <<"no value", "nl">> \in Texts
    BY Messages
  <2> QED  BY <1>1, <1>2, <1>3, <1>p, <2>1, <2>2, Messages, FailGoes
<1>8. CASE ~(name = "--define-variable" /\ job.fault = name)
  <2>1. Settled'
    BY <1>1, <1>2, <1>8 DEF Settled, FromEnd, FromLibs, FromCflags, FromModversion, FromCheck
  <2>2. CASE name \in {"--help", "--version"}
    <3>1. PICK t \in Texts : todo' = <<Put("out", t), Flush("out"), Exit>>
      BY <1>1, <2>2, Messages DEF TakeOption, Act
    <3>2. Ending' /\ given' \cap Leave # {}
      BY <1>1, <2>2 DEF Ending, Leave
    <3>3. /\ todo' # <<>> /\ Head(todo') = Put("out", t)
          /\ Tail(todo') = <<Flush("out"), Exit>>
      BY <3>1
    <3>4. Prints("out", t)'
      BY <3>3 DEF Prints, Put
    <3>5. OnCourse(t)'
      BY <1>2, <1>p, <2>1, <3>2, <3>3, <3>4 DEF OnCourse
    <3> QED  BY <1>3, <3>1, <3>5 DEF Going
  <2>3. CASE name = "--atleast-pkgconfig-version"
    <3>1. todo' = <<Exit>>
      BY <1>1, <2>3 DEF TakeOption, Act
    <3>2. Ending' /\ given' \cap Leave # {}
      BY <1>1, <2>3 DEF Ending, Leave
    <3>3. buffer["out"] = <<>> \/ failed["out"]
      <4>1. CASE ~failed["out"]
        <5>1. stream["out"] \o buffer["out"] = <<>>
          BY <1>2, <1>5, <4>1 DEF StreamsArePrefixes
        <5>2. stream["out"] \in Seq(Atom) /\ buffer["out"] \in Seq(Atom)
          BY DEF TypeInv, Texts, Stream
        <5> QED  BY <5>1, <5>2, EmptyParts
      <4> QED  BY <4>1
    <3>4. OnCourse(<<>>)'
      BY <1>2, <1>p, <2>1, <3>1, <3>2, <3>3 DEF OnCourse
    <3> QED  BY <1>3, <1>6, <3>4 DEF Going
  <2>4. CASE name \notin Leave
    <3>1. todo' = <<>> /\ given' \cap Leave = {}
      BY <1>1, <1>2, <1>8, <2>4 DEF TakeOption, Act, Leave
    <3>2. OnCourse(<<>>)'
      BY <1>1, <1>2, <1>p, <1>5, <1>6, <2>1, <3>1 DEF OnCourse
    <3> QED  BY <1>3, <1>6, <3>2 DEF Going
  <2> QED  BY <2>2, <2>3, <2>4 DEF Leave
<1> QED  BY <1>7, <1>8

LEMMA RefuseOptionGoes ==
  ASSUME TypeInv, Settings, RefuseOption, Going
  PROVE  Settings' /\ Going'
<1>1. todo = <<>> /\ phase = "options" /\ err = "err" /\ todo' = Fail(err, <<"bad option", "nl">>)
      /\ UNCHANGED <<job, phase, given, nargs, err, io>>
  BY DEF RefuseOption, AtOption, Stay, Settings
<1>2. printed["err"] = <<>> /\ UNCHANGED printed
  BY <1>1, Idle DEF io
<1>3. Settings'
  BY <1>1 DEF Settings, ErrOf
<1>4. <<"bad option", "nl">> # <<>> /\ <<"bad option", "nl">> \in Texts
  BY Messages
<1> QED  BY <1>1, <1>2, <1>3, <1>4, Messages, FailGoes

(* A stage that prints a text, or none.                                    *)
LEMMA StageGoes ==
  ASSUME TypeInv, Going, todo = <<>>, UNCHANGED <<progress, io>>,
         NEW x \in Texts,
         \/ todo' = <<Put("out", x)>> /\ Goal' = Goal \o x
         \/ todo' = <<>> /\ Goal' = Goal \o <<>>,
         Settled', phase' \notin {"options", "ended"}
  PROVE  Going'
<1>1. /\ printed["err"] = <<>> /\ printed["out"] = Goal /\ given \cap Leave = {}
  BY Idle
<1>2. UNCHANGED <<given, printed>>
  BY DEF progress, io
<1>3. <<>> \in Texts
  BY Messages
<1>4. CASE todo' = <<Put("out", x)>> /\ Goal' = Goal \o x
  <2>1. Prints("out", x)' /\ Tail(todo)' = <<>>
    BY <1>4 DEF Prints, Put
  <2>2. OnCourse(x)'
    BY <1>1, <1>2, <1>4, <2>1 DEF OnCourse
  <2> QED  BY <2>2 DEF Going
<1>5. CASE todo' = <<>> /\ Goal' = Goal \o <<>>
  <2>1. OnCourse(<<>>)'
    BY <1>1, <1>2, <1>5 DEF OnCourse
  <2> QED  BY <1>3, <2>1 DEF Going
<1> QED  BY <1>4, <1>5

LEMMA TextsOfStages ==
  /\ M \in Seq(Atom) /\ V \in Seq(Atom) /\ C \in Seq(Atom) /\ L \in Seq(Atom) /\ N \in Seq(Atom)
  /\ M \o V \in Seq(Atom) /\ M \o V \o C \in Seq(Atom) /\ M \o V \o C \o L \in Seq(Atom)
<1>1. M \in Seq(Atom) /\ V \in Seq(Atom) /\ C \in Seq(Atom) /\ L \in Seq(Atom) /\ N \in Seq(Atom)
  BY Messages DEF Texts, M, V, C, L, N
<1>2. M \o V \in Seq(Atom)
  BY <1>1, ConcatProperties
<1>3. M \o V \o C \in Seq(Atom)
  BY <1>1, <1>2, ConcatProperties
<1>4. M \o V \o C \o L \in Seq(Atom)
  BY <1>1, <1>3, ConcatProperties
<1> QED  BY <1>1, <1>2, <1>3, <1>4

(* A stage leaves the settings alone; of the goal it has the next text.    *)
LEMMA StageSettings ==
  ASSUME Settings, UNCHANGED <<progress, io>>, phase # "options", phase' \in Phase \ {"options"}
  PROVE  Settings' /\ M' = M /\ V' = V /\ C' = C /\ L' = L /\ N' = N
BY DEF Settings, ErrOf, progress, M, V, C, L, N

LEMMA ProcessGoes ==
  ASSUME TypeInv, Settings, ProcessArgs, Going
  PROVE  Settings' /\ Going'
<1>1. /\ todo = <<>> /\ phase = "process" /\ phase' = "check" /\ UNCHANGED <<progress, io>>
      /\ UNCHANGED <<job, index, given, nargs, err, printed>>
  BY DEF ProcessArgs, At, Then, progress, io
<1>2. /\ Settled /\ printed["err"] = <<>>
  BY <1>1, Idle
<1>3. Settings'
  BY <1>1, StageSettings DEF Phase, FromCheck
<1>4. CASE job.fault = "package" /\ nargs > 0
  <2>1. todo' = Fail("err", <<"package", "nl">>)
    BY <1>4 DEF ProcessArgs, Then, ProcErr
  <2>2. <<"package", "nl">> # <<>> /\ <<"package", "nl">> \in Texts
    BY Messages
  <2> QED  BY <1>1, <1>2, <1>3, <1>4, <2>1, <2>2, Messages, FailGoes
<1>5. CASE ~(job.fault = "package" /\ nargs > 0)
  <2>1. Settled'
    BY <1>1, <1>2, <1>5
       DEF Settings, Settled, FromEnd, FromLibs, FromCflags, FromModversion, FromCheck
  <2>2. todo' = <<>>
    BY <1>5 DEF ProcessArgs, Then
  <2>3. Goal = <<>> /\ Goal' = <<>> /\ <<>> \o <<>> = <<>> /\ <<>> \in Texts
    BY <1>1, Messages, ConcatEmptySeq DEF Goal, Texts
  <2> QED  BY <1>1, <1>3, <2>1, <2>2, <2>3, StageGoes
<1> QED  BY <1>4, <1>5

LEMMA CheckGoes ==
  ASSUME TypeInv, Settings, Check, Going
  PROVE  Settings' /\ Going'
<1>1. /\ todo = <<>> /\ phase = "check" /\ phase' = "modversion" /\ UNCHANGED <<progress, io>>
      /\ UNCHANGED <<job, index, given, nargs, err, printed>>
  BY DEF Check, At, Then, progress, io
<1>2. /\ Settled /\ printed["err"] = <<>> /\ err = ErrOf /\ err \in Target
  BY <1>1, Idle DEF Settings, TypeInv
<1>3. Settings'
  BY <1>1, StageSettings DEF Phase, FromCheck, FromModversion
<1>4. CASE todo' # <<>>
  <2>1. PICK m \in Texts : m # <<>> /\ todo' = Fail(err, m)
    BY <1>4, Messages DEF Check, Then
  <2> QED  BY <1>1, <1>2, <1>3, <2>1, FailGoes DEF ErrOf
<1>5. CASE todo' = <<>>
  <2>1. /\ ~(job.fault = "dangling operator" /\ nargs > 0)
        /\ nargs # 0
        /\ ~(job.fault = "--atleast-version" /\ job.fault \in given)
    <3>1. \A b, m : Fail(b, m) # <<>>
      BY DEF Fail
    <3> QED  BY <1>5, <3>1 DEF Check, Then
  <2>2. nargs > 0 /\ job.fault # "package" /\ job.fault # "dangling operator"
    <3>1. nargs \in Nat
      BY DEF Settings
    <3>2. nargs > 0
      <4>1. nargs # 0
        BY <2>1
      <4> QED  BY <3>1, <4>1
    <3>3. job.fault # "package" \/ nargs = 0
      BY <1>1, <1>2 DEF Settled, FromCheck
    <3> QED  BY <2>1, <3>2, <3>3
  <2>3. Settled'
    BY <1>1, <1>2, <2>1, <2>2
       DEF Settled, FromEnd, FromLibs, FromCflags, FromModversion, FromCheck
  <2>4. Goal = <<>> /\ Goal' = <<>> /\ <<>> \o <<>> = <<>> /\ <<>> \in Texts
    BY <1>1, Messages, ConcatEmptySeq DEF Goal, Texts
  <2> QED  BY <1>1, <1>3, <1>5, <2>3, <2>4, StageGoes
<1> QED  BY <1>4, <1>5

LEMMA ModversionGoes ==
  ASSUME TypeInv, Settings, Modversion, Going
  PROVE  Settings' /\ Going'
<1>1. /\ todo = <<>> /\ phase = "modversion" /\ phase' = "variable" /\ UNCHANGED <<progress, io>>
      /\ UNCHANGED <<job, index, given, nargs, err, printed>>
  BY DEF Modversion, At, Then, progress, io
<1>2. Settled
  BY <1>1, Idle
<1>3. Settings' /\ M' = M
  BY <1>1, StageSettings DEF Phase, FromCheck, FromModversion
<1>4. Settled'
  BY <1>1, <1>2 DEF Settled, FromEnd, FromLibs, FromCflags, FromModversion, FromCheck
<1> DEFINE x == <<"version", "nl">>
<1>5. x \in Texts
  BY Messages
<1>6. \/ todo' = <<Put("out", x)>> /\ M = x
      \/ todo' = <<>> /\ M = <<>>
  BY DEF Modversion, Then, M
<1>7. Goal' = Goal \o M
  <2>1. Goal = <<>> /\ Goal' = M
    BY <1>1, <1>3 DEF Goal
  <2>2. <<>> \o M = M
    BY TextsOfStages, ConcatEmptySeq
  <2> QED  BY <2>1, <2>2
<1> QED  BY <1>1, <1>3, <1>4, <1>5, <1>6, <1>7, StageGoes

LEMMA VariableGoes ==
  ASSUME TypeInv, Settings, Variable, Going
  PROVE  Settings' /\ Going'
<1>1. /\ todo = <<>> /\ phase = "variable" /\ phase' = "cflags" /\ UNCHANGED <<progress, io>>
      /\ UNCHANGED <<job, index, given, nargs, err, printed>>
  BY DEF Variable, At, Then, progress, io
<1>2. /\ Settled /\ printed["err"] = <<>> /\ err = ErrOf /\ err \in Target
  BY <1>1, Idle DEF Settings, TypeInv
<1>3. Settings' /\ M' = M /\ V' = V
  BY <1>1, StageSettings DEF Phase, FromCheck, FromModversion, FromCflags
<1>4. CASE "--variable" \in given /\ job.fault = "--variable"
  <2> DEFINE m == <<"undefined", "nl">>
             x == <<"value">>
  <2>1. todo' = <<Put("out", x)>> \o Fail(err, m)
    BY <1>4 DEF Variable, Then
  <2>2. m # <<>> /\ m \in Texts /\ x \in Texts
    BY Messages
  <2>3. Put("out", x) \in Do /\ Fail(err, m) \in Seq(Do)
    BY <1>2, <2>2, Messages, Ops
  <2>4. todo' # <<>> /\ Head(todo') = Put("out", x) /\ Tail(todo') = Fail(err, m)
    BY <2>1, <2>3, ConsParts
  <2>5. Prints("out", x)'
    BY <2>4 DEF Prints, Put
  <2>6. PICK b \in Target : b = err
    BY <1>2
  <2>7. Failing(b, x)'
    BY <1>1, <1>2, <2>2, <2>4, <2>5, <2>6 DEF Failing, ErrOf
  <2> QED  BY <1>3, <2>2, <2>7 DEF Going
<1>5. CASE ~("--variable" \in given /\ job.fault = "--variable")
  <2> DEFINE x == <<"value", "nl">>
  <2>1. Settled'
    BY <1>1, <1>2, <1>5 DEF Settled, FromEnd, FromLibs, FromCflags, FromModversion, FromCheck
  <2>2. x \in Texts
    BY Messages
  <2>3. \/ todo' = <<Put("out", x)>> /\ V = x
        \/ todo' = <<>> /\ V = <<>>
    BY <1>5 DEF Variable, Then, V
  <2>4. Goal' = Goal \o V
    BY <1>1, <1>3 DEF Goal
  <2> QED  BY <1>1, <1>3, <2>1, <2>2, <2>3, <2>4, StageGoes
<1> QED  BY <1>4, <1>5

LEMMA CflagsGoes ==
  ASSUME TypeInv, Settings, Cflags, Going
  PROVE  Settings' /\ Going'
<1>1. /\ todo = <<>> /\ phase = "cflags" /\ phase' = "libs" /\ UNCHANGED <<progress, io>>
      /\ UNCHANGED <<job, index, given, nargs, err, printed>>
  BY DEF Cflags, At, Then, progress, io
<1>2. /\ Settled /\ printed["err"] = <<>> /\ err = ErrOf /\ err \in Target
  BY <1>1, Idle DEF Settings, TypeInv
<1>3. Settings' /\ M' = M /\ V' = V /\ C' = C
  BY <1>1, StageSettings DEF Phase, FromCheck, FromModversion, FromCflags, FromLibs
<1>4. CASE "--cflags" \in given /\ job.fault = "--cflags"
  <2>1. todo' = Fail(err, <<"unmatched", "nl">>)
    BY <1>4 DEF Cflags, Then
  <2>2. <<"unmatched", "nl">> # <<>> /\ <<"unmatched", "nl">> \in Texts
    BY Messages
  <2> QED  BY <1>1, <1>2, <1>3, <2>1, <2>2, FailGoes DEF ErrOf
<1>5. CASE ~("--cflags" \in given /\ job.fault = "--cflags")
  <2> DEFINE x == <<"cflags">>
  <2>1. Settled'
    BY <1>1, <1>2, <1>5 DEF Settled, FromEnd, FromLibs, FromCflags, FromModversion, FromCheck
  <2>2. x \in Texts
    BY Messages
  <2>3. \/ todo' = <<Put("out", x)>> /\ C = x
        \/ todo' = <<>> /\ C = <<>>
    BY <1>5 DEF Cflags, Then, C
  <2>4. Goal' = Goal \o C
    BY <1>1, <1>3 DEF Goal
  <2> QED  BY <1>1, <1>3, <2>1, <2>2, <2>3, <2>4, StageGoes
<1> QED  BY <1>4, <1>5

LEMMA LibsGoes ==
  ASSUME TypeInv, Settings, Libs, Going
  PROVE  Settings' /\ Going'
<1>1. /\ todo = <<>> /\ phase = "libs" /\ phase' = "end" /\ UNCHANGED <<progress, io>>
      /\ UNCHANGED <<job, index, given, nargs, err, printed>>
  BY DEF Libs, At, Then, progress, io
<1>2. /\ Settled /\ printed["err"] = <<>> /\ err = ErrOf /\ err \in Target
  BY <1>1, Idle DEF Settings, TypeInv
<1>3. Settings' /\ M' = M /\ V' = V /\ C' = C /\ L' = L
  BY <1>1, StageSettings DEF Phase, FromCheck, FromModversion, FromCflags, FromLibs, FromEnd
<1>4. CASE "--libs" \in given /\ job.fault = "--libs"
  <2>1. todo' = Fail(err, <<"unmatched", "nl">>)
    BY <1>4 DEF Libs, Then
  <2>2. <<"unmatched", "nl">> # <<>> /\ <<"unmatched", "nl">> \in Texts
    BY Messages
  <2> QED  BY <1>1, <1>2, <1>3, <2>1, <2>2, FailGoes DEF ErrOf
<1>5. CASE ~("--libs" \in given /\ job.fault = "--libs")
  <2> DEFINE x == <<"libs">>
  <2>1. Settled'
    BY <1>1, <1>2, <1>5 DEF Settled, FromEnd, FromLibs, FromCflags, FromModversion, FromCheck
  <2>2. x \in Texts
    BY Messages
  <2>3. \/ todo' = <<Put("out", x)>> /\ L = x
        \/ todo' = <<>> /\ L = <<>>
    BY <1>5 DEF Libs, Then, L
  <2>4. Goal' = Goal \o L
    BY <1>1, <1>3 DEF Goal
  <2> QED  BY <1>1, <1>3, <2>1, <2>2, <2>3, <2>4, StageGoes
<1> QED  BY <1>4, <1>5

LEMMA EndGoes ==
  ASSUME TypeInv, Settings, End, Going
  PROVE  Settings' /\ Going'
<1>1. /\ todo = <<>> /\ phase = "end" /\ phase' = "ended" /\ UNCHANGED <<progress, io>>
      /\ UNCHANGED <<job, index, given, nargs, err, printed>>
  BY DEF End, At, Then, progress, io
<1>2. /\ Settled /\ printed["err"] = <<>> /\ printed["out"] = Goal /\ given \cap Leave = {}
  BY <1>1, Idle
<1>3. Settings' /\ M' = M /\ V' = V /\ C' = C /\ L' = L /\ N' = N
  BY <1>1, StageSettings DEF Phase, FromCheck, FromModversion, FromCflags, FromLibs, FromEnd
<1>4. Settled' /\ Ending'
  BY <1>1, <1>2 DEF Settled, Ending, FromEnd, FromLibs, FromCflags, FromModversion, FromCheck
<1>5. Goal' = Goal \o N
  BY <1>1, <1>3 DEF Goal
<1>6. CASE {"--cflags", "--libs"} \cap given # {}
  <2> DEFINE x == <<"nl">>
  <2>1. todo' = <<Put("out", x)>> \o <<Flush("out"), Exit>>
    BY <1>6 DEF End, Then
  <2>2. x \in Texts /\ Put("out", x) \in Do /\ <<Flush("out"), Exit>> \in Seq(Do)
    BY Messages, Ops
  <2>3. todo' # <<>> /\ Head(todo') = Put("out", x) /\ Tail(todo') = <<Flush("out"), Exit>>
    BY <2>1, <2>2, ConsParts
  <2>4. Prints("out", x)'
    BY <2>3 DEF Prints, Put
  <2>5. OnCourse(x)'
    BY <1>1, <1>2, <1>4, <1>5, <1>6, <2>3, <2>4 DEF OnCourse, N
  <2> QED  BY <1>3, <2>2, <2>5 DEF Going
<1>7. CASE {"--cflags", "--libs"} \cap given = {}
  <2>1. <<Flush("out"), Exit>> \in Seq(Do) /\ <<>> \in Texts
    BY Messages, Ops
  <2>2. todo' = <<Flush("out"), Exit>>
    BY <1>7, <2>1, ConcatEmptySeq DEF End, Then
  <2>3. OnCourse(<<>>)'
    BY <1>1, <1>2, <1>4, <1>5, <1>7, <2>2 DEF OnCourse, N
  <2> QED  BY <1>3, <2>1, <2>3 DEF Going
<1> QED  BY <1>6, <1>7

-----------------------------------------------------------------------------
LEMMA GoingStill ==
  ASSUME Settings, UNCHANGED <<progress, todo, phase, io>>
  PROVE  Settings' /\ Going' = Going
<1>1. UNCHANGED <<job, given, err, phase, todo, buffer, failed, printed>>
  BY DEF progress, io
<1>2. Settings' = Settings /\ Settled' = Settled /\ Goal' = Goal /\ Ending' = Ending
  BY Unsettled
<1>3. ASSUME NEW t \in Texts PROVE OnCourse(t)' = OnCourse(t)
  BY <1>1, <1>2 DEF OnCourse, Prints
<1>4. ASSUME NEW t \in Texts, NEW b \in Target PROVE Failing(b, t)' = Failing(b, t)
  BY <1>1 DEF Failing, Prints
<1> QED  BY <1>2, <1>3, <1>4 DEF Going

LEMMA OutcomeStill ==
  ASSUME OutcomeInv, UNCHANGED <<progress, todo, phase, io>>, exit' \in {exit, "interrupted"}
  PROVE  OutcomeInv'
<1>1. Settings' /\ Going' = Going
  BY GoingStill DEF OutcomeInv
<1>2. SuccessMeansDone' /\ FailureIsExplained' /\ OwnChecksObey'
  BY DEF OutcomeInv, SuccessMeansDone, FailureIsExplained, OwnChecksObey, Wanted, progress, io
<1> QED  BY <1>1, <1>2 DEF OutcomeInv

LEMMA OutcomeStep ==
  TypeInv /\ StreamsArePrefixes /\ OutcomeInv /\ [Next]_vars => OutcomeInv'
<1> SUFFICES ASSUME TypeInv, StreamsArePrefixes, OutcomeInv, [Next]_vars PROVE OutcomeInv'
  OBVIOUS
<1>1. CASE Leaves
  <2>1. Settings /\ Going
    BY <1>1 DEF OutcomeInv, Leaves, Running
  <2>2. exit' # "running"
    BY <1>1 DEF Leaves
  <2>3. SuccessMeansDone' /\ FailureIsExplained'
    BY <1>1, <2>1, LeavesSuccess, LeavesFailure DEF Going
  <2>4. Settings'
    BY <1>1, <2>1, Unsettled DEF Leaves
  <2>5. OwnChecksObey'
    BY <1>1 DEF OutcomeInv, OwnChecksObey, Leaves, progress, io
  <2> QED  BY <2>2, <2>3, <2>4, <2>5 DEF OutcomeInv
<1>2. CASE Next /\ ~Leaves
  <2>1. Settings /\ Going
    BY <1>2, OnlyRunning DEF OutcomeInv
  <2>2. Settings' /\ Going'
    <3>1. CASE PrintByte
      <4>1. Settings'
        BY <2>1, <3>1, Unsettled DEF PrintByte
      <4> QED  BY <2>1, <3>1, <4>1, PrintByteOnCourse, PrintByteFailing DEF Going
    <3>2. CASE PrintEnd \/ FlushBuffer
      <4>1. Settings'
        BY <2>1, <3>2, Unsettled DEF PrintEnd, FlushBuffer
      <4> QED  BY <2>1, <3>2, <4>1, PrintEndGoes, FlushGoes
    <3>3. CASE EndOptions \/ TakeDashDash \/ TakePackage \/ TakeOption \/ RefuseOption
      BY <2>1, <3>3, EndOptionsGoes, ArgumentGoes, TakeOptionGoes, RefuseOptionGoes
    <3>4. CASE ProcessArgs \/ Check \/ Modversion \/ Variable
      BY <2>1, <3>4, ProcessGoes, CheckGoes, ModversionGoes, VariableGoes
    <3>5. CASE Cflags \/ Libs \/ End
      BY <2>1, <3>5, CflagsGoes, LibsGoes, EndGoes
    <3> QED  BY <1>2, <3>1, <3>2, <3>3, <3>4, <3>5 DEF Next
  <2>3. exit' \in {"running", "out of bounds"}
    <3>1. exit = "running"
      BY <1>2, OnlyRunning
    <3>2. CASE PrintByte \/ PrintEnd \/ FlushBuffer
      BY <3>1, <3>2 DEF PrintByte, PrintEnd, FlushBuffer
    <3>3. CASE EndOptions \/ TakeDashDash \/ TakePackage \/ TakeOption \/ RefuseOption
      BY <3>1, <3>3 DEF EndOptions, TakeDashDash, TakePackage, TakeOption, RefuseOption
    <3>4. CASE ProcessArgs \/ Check \/ Modversion \/ Variable \/ Cflags \/ Libs \/ End
      BY <3>1, <3>4 DEF ProcessArgs, Check, Modversion, Variable, Cflags, Libs, End, Then
    <3> QED  BY <1>2, <3>2, <3>3, <3>4 DEF Next
  <2>4. OwnChecksObey'
    BY <2>2, GoingObeys, PTL
  <2>5. SuccessMeansDone' /\ FailureIsExplained'
    BY <2>3 DEF SuccessMeansDone, FailureIsExplained
  <2> QED  BY <2>2, <2>4, <2>5 DEF OutcomeInv
<1>3. CASE UNCHANGED vars
  BY <1>3, OutcomeStill DEF vars
<1> QED
  BY <1>1, <1>2, <1>3

(* The child of an alias, which ctrl-C may end, keeps the same invariant.  *)
LEMMA OutcomeInvariant == LaunchSpec => [](TypeInv /\ StreamsArePrefixes /\ OutcomeInv)
<1> DEFINE I == TypeInv /\ StreamsArePrefixes /\ OutcomeInv
<1>1. LaunchInit => I
  BY TypeInit, StreamsInit, OutcomeInit DEF LaunchInit
<1>2. ASSUME I, UNCHANGED <<progress, todo, phase, io>>, exit' \in {exit, "interrupted"}
      PROVE  I'
  <2>1. TypeInv' /\ StreamsArePrefixes'
    BY <1>2 DEF progress, io, TypeInv, StreamsArePrefixes, Cap
  <2> QED  BY <1>2, <2>1, OutcomeStill
<1>3. LaunchNext => \/ Next
                    \/ /\ UNCHANGED <<progress, todo, phase, io>>
                       /\ exit' \in {exit, "interrupted"}
  BY DEF LaunchNext, Refuse, Shield, StartFails, Start, Relay, Press, HandleInAlias,
         HandleInChild, Attach, RunChild, vars
<1>4. I /\ [Next]_vars => I'
  BY TypeStep, StreamsStep, OutcomeStep
<1>5. I /\ [LaunchNext]_<<vars, launch>> => I'
  BY <1>2, <1>3, <1>4 DEF vars
<1> QED  BY <1>1, <1>5, PTL DEF LaunchSpec

(* An exit status of success stands for the whole output, delivered, and   *)
(* no message (64-65, 1730-2037, 2556, 2639-2679), whatever the capacities *)
(* of the buffers, the command line and the writes that fail.              *)
THEOREM SuccessIsDone == LaunchSpec => []SuccessMeansDone
<1>1. OutcomeInv => SuccessMeansDone
  BY DEF OutcomeInv
<1> QED  BY <1>1, OutcomeInvariant, PTL

(* A failure comes with a message on a stream, unless a write failed or    *)
(* the options silence it (1730-2037).                                     *)
THEOREM FailureHasMessage == LaunchSpec => []FailureIsExplained
<1>1. OutcomeInv => FailureIsExplained
  BY DEF OutcomeInv
<1> QED  BY <1>1, OutcomeInvariant, PTL

(* The checks of uconfig() send no message to stderr when the options      *)
(* redirect or silence it (1935-2010).                                   *)
THEOREM ChecksObeyOptions == LaunchSpec => []OwnChecksObey
<1>1. OutcomeInv => OwnChecksObey
  BY DEF OutcomeInv
<1> QED  BY <1>1, OutcomeInvariant, PTL
=============================================================================
