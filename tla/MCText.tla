-------------------------------- MODULE MCText --------------------------------
(***************************************************************************)
(* The pure algorithms of pkg-config.c on small inputs, compared with what *)
(* they are for.  A behaviour picks a task and carries it out.             *)
(***************************************************************************)
EXTENDS VersionOrder, CommandLine

Q == INSTANCE Quoting
P == INSTANCE Parser
C == INSTANCE Codecs
A == INSTANCE Alias
T == INSTANCE HashTrie
M == INSTANCE Arena WITH Room <- 12, Align <- 4
R == INSTANCE Runtime WITH Size <- 6, Page <- 2

CONSTANTS
  Triples, Lines, Fields, Dirs, Files, Texts, Wides, Launches,
  Bindings, Uses, Calls,   \* the inputs of every kind of task
  CmdMax

VARIABLES
  task,    \* which algorithm to run, and on what
  result   \* what it returned

Pending == <<>>
vars == <<task, result>>

SeqsUpTo(S, n) == UNION {[1..m -> S] : m \in 0..n}

-----------------------------------------------------------------------------
(* Versions.                                                               *)

Compare ==
  /\ task.kind = "versions" /\ result = Pending
  /\ LET a == task.of[1]
         b == task.of[2]
         c == task.of[3]
     IN result' = <<CompareVersions(a, b), CompareVersions(b, c), CompareVersions(a, c),
                    CompareVersions(b, a)>>
  /\ UNCHANGED task

Compared == task.kind = "versions" /\ result # Pending

(* The numbers between the dots of a version.                              *)
Dot == 46
Components(v) ==
  FoldLeft(LAMBDA ns, c :
             IF c = Dot THEN Append(ns, 0) ELSE [ns EXCEPT ![Len(ns)] = 10 * @ + (c - 48)],
           <<0>>, v)

(* Dotted numbers, none of them empty or written with a leading zero.      *)
Canonical(v) ==
  /\ v # <<>> /\ \A k \in DOMAIN v : v[k] \in Digit \cup {Dot}
  /\ \A k \in DOMAIN v :
       k = 1 \/ v[k - 1] = Dot =>
         v[k] # Dot /\ (v[k] = 48 => k = Len(v) \/ v[k + 1] = Dot)
  /\ v[Len(v)] # Dot

Lexicographic(s, t) ==
  LET differ == {k \in DOMAIN s \cap DOMAIN t : s[k] # t[k]}
      first == CHOOSE k \in differ : \A j \in differ : k <= j
  IN IF differ # {} THEN Sign(s[first], t[first]) ELSE Sign(Len(s), Len(t))

(* Versions can be put in a line: a swap of the arguments reverses the     *)
(* comparison, and it is transitive, equal ones included, although it      *)
(* switches between bytes and numbers of any length in midstring.  The     *)
(* constraints on one package then name an interval, whatever order they   *)
(* are checked in.  Dotted numbers come in the order of RPM, which the     *)
(* comment at 1195 names: 1.10 is after 1.9 and before 1.10.0, although no *)
(* number is ever computed.  With leading zeros, letters or empty numbers  *)
(* the code leaves that order (README, section 4); nothing is said of      *)
(* these but that they have a place in the line.                           *)
VersionsOrdered ==
  Compared =>
    LET ab == result[1]
        bc == result[2]
        ac == result[3]
    IN /\ result[4] = -ab
       /\ ab <= 0 /\ bc <= 0 => ac <= 0 /\ (ac = 0 => ab = 0 /\ bc = 0)
       /\ Canonical(task.of[1]) /\ Canonical(task.of[2]) =>
            ab = Lexicographic(Components(task.of[1]), Components(task.of[2]))

-----------------------------------------------------------------------------
(* Command lines.                                                          *)

(* The rules of CommandLineToArgvW() for writing an argument: in quotes,   *)
(* with the backslashes before a quote doubled and the quote escaped.      *)
Trailing(s) == Cardinality({i \in DOMAIN s : \A j \in i..Len(s) : s[j] = Slash})
Slashed(n) == [i \in 1..n |-> Slash]
Quoted1(arg) ==
  <<Quote>>
    \o FoldLeft(LAMBDA s, c : IF c = Quote THEN s \o Slashed(Trailing(s) + 1) \o <<c>>
                              ELSE Append(s, c), <<>>, arg)
    \o Slashed(Trailing(arg)) \o <<Quote>>

SplitLine ==
  /\ task.kind = "line" /\ result = Pending
  /\ result' = Split(FoldLeft(LAMBDA s, a : s \o <<Blank>> \o Quoted1(a), <<"p">>, task.of))
  /\ UNCHANGED task

(* Arguments written by those rules are read back exactly, with any blanks,*)
(* quotes and backslashes in them, be they empty, and none is made up.     *)
SplitReadsBack ==
  task.kind = "line" /\ result # Pending => result = <<<<"p">>>> \o task.of

SplitRaw ==
  /\ task.kind = "raw" /\ result = Pending
  /\ result' = Split(task.of)
  /\ UNCHANGED task

(* "This covers the worst possible cases for a Windows command string"     *)
(* (lines 2090-2091): the argument pointers and the null pointer behind    *)
(* them stay in the half of argv that is theirs.                           *)
PointersFit ==
  task.kind = "raw" /\ result # Pending => Len(result) + 1 <= PointerMax(CmdMax)

-----------------------------------------------------------------------------
(* Fields.                                                                 *)

(* What a shell makes of a printed word: it removes the backslashes, and   *)
(* anything in Special that has none is no part of the word.               *)
ShellReads(word, Special) ==
  FoldLeft(LAMBDA s, c :
             IF s.escaped THEN [s EXCEPT !.escaped = FALSE, !.text = Append(@, c)]
             ELSE IF c = Q!Slash THEN [s EXCEPT !.escaped = TRUE]
             ELSE IF c \in Special THEN [s EXCEPT !.ok = FALSE]
             ELSE [s EXCEPT !.text = Append(@, c)],
           [ok |-> TRUE, escaped |-> FALSE, text |-> <<>>], word)
Reads(word, Special, text) ==
  ShellReads(word, Special) = [ok |-> TRUE, escaped |-> FALSE, text |-> text]

DequoteField ==
  /\ task.kind = "field" /\ result = Pending
  /\ result' = Q!Words(task.of)
  /\ UNCHANGED task

(* A package found in a directory that uses its pcfiledir and prefix.      *)
PlacePackage ==
  /\ task.kind = "dir" /\ result = Pending
  /\ LET path == Q!BuildPath(task.of, <<"x">>)
         Flag(value) == Q!Words(<<"-I">> \o value \o <<Blank, "x">>)
     IN result' = [dir |-> Flag(Q!PcFileDir(path)), prefixed |-> Q!SetsPrefix(path),
                   prefix |-> Flag(Q!Prefix(path))]
  /\ UNCHANGED task

(* The byte at i is in quotes, or is one.                                  *)
RECURSIVE QuoteAt(_, _)
QuoteAt(s, i) ==
  IF i = 0 THEN "none"
  ELSE LET q == QuoteAt(s, i - 1)
       IN IF q = "none" /\ s[i] \in {Q!Single, Q!Double} THEN s[i]
          ELSE IF q = s[i] THEN "none" ELSE q

(* A field without unmatched quotes is printed so that a shell reads from  *)
(* it, word by word, the text of the field without its quotes: blanks in   *)
(* quotes are kept, those outside separate words, a backslash is itself.   *)
WordsSurvive ==
  LET s == task.of
      Separator(i) == s[i] = Blank /\ QuoteAt(s, i) = "none"
      IsQuote(i) == QuoteAt(s, i) # QuoteAt(s, i - 1)
      spoken == FoldLeft(LAMBDA t, i :
                           IF Separator(i) THEN Append(t, "|")
                           ELSE IF IsQuote(i) THEN t ELSE Append(t, s[i]),
                         <<>>, [i \in DOMAIN s |-> i])
      read == FoldLeft(LAMBDA t, w : t \o ShellReads(w, Q!Meta \cup {Blank}).text \o <<"|">>,
                       <<>>, result.words)
      Text(t) == SelectSeq([i \in DOMAIN t |->
                   IF t[i] = "|" /\ (i = 1 \/ t[i - 1] = "|") THEN "" ELSE t[i]],
                   LAMBDA c : c # "")
  IN /\ result.ok <=> QuoteAt(s, Len(s)) = "none"
     /\ result.ok => Text(read \o <<"|">>) = Text(spoken \o <<"|">>)

(* The directory of a package is one word in its flags whatever is in its  *)
(* name (but quotes, which are not encoded), and the shell reads that      *)
(* directory: "Reversed by dequote() when printed" (line 283).  So it is   *)
(* with the prefix, two directories up from one called pkgconfig.          *)
PathsSurvive ==
  LET Survives(words, path) ==
        /\ words.ok /\ Len(words.words) = 2
        /\ Reads(words.words[1], Q!Meta \cup {Blank, "$", "("}, <<"-I">> \o path)
      Seps == {i \in DOMAIN task.of : task.of[i] \in Q!PathSep}
      last == Max(Seps \cup {0})
      above == Max((Seps \ {last}) \cup {0})
  IN /\ Survives(result.dir, task.of)
     /\ result.prefixed <=> SubSeq(task.of, last + 1, Len(task.of)) = <<"pkgconfig">>
     /\ result.prefixed => Survives(result.prefix, SubSeq(task.of, 1, above - 1))

FlagsSurvive ==
  /\ task.kind = "field" /\ result # Pending => WordsSurvive
  /\ task.kind = "dir" /\ result # Pending => PathsSurvive

-----------------------------------------------------------------------------
(* Files.                                                                  *)

(* An entry of a .pc file as somebody may write it: after other lines, the *)
(* value broken in two by an escaped end of line, every # in it escaped,   *)
(* and behind it blanks or a comment.                                      *)
Written(e) ==
  LET Hashes(v) == FoldLeft(LAMBDA s, c : s \o (IF c = "#" THEN <<Slash, c>> ELSE <<c>>),
                            <<>>, v)
      end == IF e.dos THEN <<P!Return, P!Newline>> ELSE <<P!Newline>>
  IN e.before \o e.name \o <<e.kind, Blank>>
       \o Hashes(SubSeq(e.value, 1, e.cut))
       \o (IF e.broken THEN <<Slash>> \o end ELSE <<>>)
       \o Hashes(SubSeq(e.value, e.cut + 1, Len(e.value)))
       \o e.behind \o end

ParseFile ==
  /\ task.kind = "file" /\ result = Pending
  /\ result' = P!FindPackage(FoldLeft(LAMBDA s, e : s \o Written(e), <<>>, task.of))
  /\ UNCHANGED task

(* A file reads as it was written: every entry with its value, wherever it *)
(* was broken and whatever comment is next to it, fields nobody knows left *)
(* out, and the second of two entries of one name reported, or else the    *)
(* first required field that was not written, as a field and not as a      *)
(* variable.                                                               *)
FileReadsBack ==
  task.kind = "file" /\ result # Pending =>
    LET of == task.of
        Known(i) == of[i].kind = "=" \/ of[i].name \in P!FieldName
        Same(i, j) == of[i].kind = of[j].kind /\ of[i].name = of[j].name
        repeated == {j \in DOMAIN of : Known(j) /\ \E i \in 1..(j - 1) : Same(i, j)}
        Absent(f) == \A i \in DOMAIN of : of[i].kind = "=" \/ of[i].name # f
    IN IF repeated # {}
       THEN \E j \in repeated : result.err = <<"duplicate", of[j].kind, of[j].name>>
       ELSE /\ result.pkg = {[kind |-> of[i].kind, name |-> of[i].name, value |-> of[i].value] :
                               i \in {i \in DOMAIN of : Known(i)}}
            /\ result.err = IF Absent(<<"F">>) THEN <<"missing", <<"F">>>>
                            ELSE IF Absent(<<"G">>) THEN <<"missing", <<"G">>>> ELSE "OK"

-----------------------------------------------------------------------------
(* Encodings.                                                              *)

(* The well-formed sequences of bytes, as the Unicode standard lists them. *)
Tail_ == 128..191
WellFormed ==
  {<<0..127>>, <<194..223, Tail_>>, <<{224}, 160..191, Tail_>>,
   <<(225..236) \cup {238, 239}, Tail_, Tail_>>, <<{237}, 128..159, Tail_>>,
   <<{240}, 144..191, Tail_, Tail_>>, <<241..243, Tail_, Tail_, Tail_>>,
   <<{244}, 128..143, Tail_, Tail_>>}
Match(s) == {r \in WellFormed : Len(r) <= Len(s) /\ \A k \in DOMAIN r : s[k] \in r[k]}

(* A text in its characters; a byte of none is one by itself.              *)
Characters(s) ==
  LET from[i \in 1..(Len(s) + 1)] ==
        LET match == Match(SubSeq(s, i, Len(s)))
            len == IF match = {} THEN 1 ELSE Len(CHOOSE r \in match : TRUE)
        IN IF i > Len(s) THEN <<>> ELSE <<SubSeq(s, i, i + len - 1)>> \o from[i + len]
  IN from[1]
Bytes(chars) == FlattenSeq(chars)
ReplacementBytes == <<239, 191, 189>>
Repaired(s) ==
  Bytes([k \in DOMAIN Characters(s) |->
           IF Match(Characters(s)[k]) = {} THEN ReplacementBytes ELSE Characters(s)[k]])

(* What a reader sees of texts written to a console in this order.         *)
Shown(writes) == Bytes([k \in DOMAIN writes |-> C!FromWide(writes[k])])
ConsoleMax == 3

Recode ==
  /\ task.kind \in {"text", "wide"} /\ result = Pending
  /\ result' =
       IF task.kind = "wide" THEN C!ToWide(C!FromWide(task.of))
       ELSE LET s == task.of.bytes
                head == SubSeq(s, 1, task.of.cut)
                tail == SubSeq(s, task.of.cut + 1, Len(s))
            IN [wide |-> C!ToWide(s),
                writes |-> C!Console(head, ConsoleMax) \o C!Console(tail, ConsoleMax),
                filter |-> C!FilterConsole(head, ConsoleMax) \o C!FilterConsole(tail, ConsoleMax)]
  /\ UNCHANGED task

(* Text keeps every character on its way to a file name or a console and   *)
(* back, and each byte or unit that belongs to none becomes a replacement  *)
(* character; no write overruns its buffer or halves a surrogate pair.     *)
(* Only a character that "spans flushes from the application" (2650-2653)  *)
(* is lost on a console, and nothing around it.                            *)
EncodingsExact ==
  /\ task.kind = "wide" /\ result # Pending =>
       LET Lone(i) ==
             \/ task.of[i] \in C!High /\ (i = Len(task.of) \/ task.of[i + 1] \notin C!Low)
             \/ task.of[i] \in C!Low /\ (i = 1 \/ task.of[i - 1] \notin C!High)
       IN result = [i \in DOMAIN task.of |-> IF Lone(i) THEN C!Replacement ELSE task.of[i]]
  /\ task.kind = "text" /\ result # Pending =>
       LET s == task.of.bytes
           chars == Characters(s)
           End(k) == Len(Bytes(SubSeq(chars, 1, k)))
           split == {k \in DOMAIN chars : End(k - 1) < task.of.cut /\ task.of.cut < End(k)}
           Damaged(k) == IF k \in split THEN Bytes([j \in DOMAIN chars[k] |-> ReplacementBytes])
                         ELSE Repaired(chars[k])
           seen == Bytes([k \in DOMAIN chars |-> Damaged(k)])
       IN /\ C!FromWide(result.wide) = Repaired(s)
          /\ Shown(result.writes) = seen /\ Shown(result.filter) = seen
          /\ \A k \in DOMAIN result.writes : Len(result.writes[k]) <= ConsoleMax
          /\ \A k \in DOMAIN result.filter : Len(result.filter[k]) <= ConsoleMax

-----------------------------------------------------------------------------
(* Aliases.                                                                *)

PathMax == 4
BuildLaunch ==
  /\ task.kind = "launch" /\ result = Pending
  /\ result' = [command |-> A!Command(task.of.cmd, task.of.line, CmdMax),
                exe |-> A!ExePath(task.of.path, task.of.exe, PathMax),
                busybox |-> A!BusyboxPath(task.of.path, PathMax)]
  /\ UNCHANGED task

(* The program an alias starts is the one named, next to the alias unless  *)
(* the name is absolute, and it gets the words of CMD in front of the      *)
(* arguments of the alias, each as it was; or the launch is refused.  Left *)
(* out: the directory of an alias whose own path was cut off, and a line   *)
(* that goes on behind the quote that ends argv[0].                        *)
AliasPassesOn ==
  task.kind = "launch" /\ result # Pending =>
    LET line == task.of.line
        path == task.of.path
        dir == SubSeq(path, 1, Max({0} \cup {k \in DOMAIN path : path[k] = Slash}))
        Is(b, text) == IF b.err THEN Len(text) >= b.cap ELSE b.text = Append(text, A!Null)
        rest == A!FindArgs(line)
    IN /\ (rest = <<>> \/ rest[1] = Blank) =>
            /\ result.command.err <=> Len(task.of.cmd) + Len(rest) >= CmdMax
            /\ ~result.command.err =>
                 /\ Last(result.command.text) = A!Null
                 /\ Split(Front(result.command.text)) = Split(task.of.cmd) \o Tail(Split(line))
       /\ Len(path) < PathMax =>
            /\ Is(result.exe, IF A!Absolute(task.of.exe) THEN task.of.exe ELSE dir \o task.of.exe)
            /\ dir # <<>> => Is(result.busybox, dir \o <<"b">>)

-----------------------------------------------------------------------------
(* Hash tries.                                                             *)

(* Keys with two digits of hash, two of every hash.                        *)
Keys == [hash : [1..2 -> 0..1], id : 1..2]

(* The n-th binding gives its key the value n.                             *)
BindAll ==
  /\ task.kind = "bindings" /\ result = Pending
  /\ result' = FoldLeft(LAMBDA t, n : T!Bind(t, task.of[n], n), T!Empty,
                        [n \in DOMAIN task.of |-> n])
  /\ UNCHANGED task

(* A trie is a map, also for keys whose whole hash is the same: it has one *)
(* node for each key bound, with the value bound last, no matter which     *)
(* others were put in its way before; a key never bound is not found, and  *)
(* the list behind it has the keys in the order they came first.           *)
TrieIsMap ==
  task.kind = "bindings" /\ result # Pending =>
    LET of == task.of
        Firsts == SelectSeq([n \in DOMAIN of |-> n], LAMBDA n : \A m \in 1..(n - 1) : of[m] # of[n])
        Bound(key) == Max({T!Unbound} \cup {n \in DOMAIN of : of[n] = key})
    IN /\ \A key \in Keys : T!Value(result, key) = Bound(key)
       /\ Cardinality(DOMAIN result.nodes) = Len(result.list)
       /\ [i \in DOMAIN result.list |-> result.nodes[result.list[i]].key]
            = [i \in DOMAIN Firsts |-> of[Firsts[i]]]

-----------------------------------------------------------------------------
(* Memory.                                                                 *)

UseArena ==
  /\ task.kind = "uses" /\ result = Pending
  /\ result' = FoldLeft(LAMBDA a, n : M!Apply(a, task.of[n], n), M!New,
                        [n \in DOMAIN task.of |-> n])
  /\ UNCHANGED task

(* Whatever grows from either end of the arena, the texts and objects the  *)
(* program still uses keep every byte, until there is no memory and the    *)
(* program ends; objects stay aligned, and what is used for --cflags is    *)
(* gone when --libs begins.                                                *)
ArenaSafe ==
  task.kind = "uses" /\ result # Pending =>
    /\ \A h \in result.held : \A k \in DOMAIN h.text :
         h.at + k - 1 \in DOMAIN result.mem /\ result.mem[h.at + k - 1] = h.text[k]
    /\ result.beg <= result.end /\ result.end % 4 = 0

CallRuntime ==
  /\ task.kind = "call" /\ result = Pending
  /\ LET c == task.of
     IN result' = <<CASE c.f = "memset" -> R!MemSet(c.mem, c.dst, 9, c.len)
                      [] c.f = "memcpy" -> R!MemCpy(c.mem, c.dst, c.src, c.len)
                      [] c.f = "memmove" -> R!MemMove(c.mem, c.dst, c.src, c.len)
                      [] c.f = "memcmp" -> R!MemCmp(c.mem, c.dst, c.src, c.len)
                      [] c.f = "strlen" -> R!StrLen(c.mem, c.src)
                      [] c.f = "chkstk" -> R!Touched(c.low, c.sp, c.len)>>
  /\ UNCHANGED task

(* The memory functions do what C says, however two areas to be moved      *)
(* overlap, and touch nothing else; and the probe commits the stack one    *)
(* page after another down to the last byte of a frame that is not empty,  *)
(* so that the guard page is never stepped over.                           *)
RuntimeExact ==
  task.kind = "call" /\ result # Pending =>
    LET c == task.of
        In(a) == a \in c.dst..(c.dst + c.len - 1)
        differ == {i \in 0..(c.len - 1) : c.mem[c.dst + i] # c.mem[c.src + i]}
        first == CHOOSE i \in differ : \A k \in differ : i <= k
        zeros == {i \in c.src..5 : c.mem[i] = 0}
    IN CASE c.f = "memset" -> result[1] = [a \in R!Address |-> IF In(a) THEN 9 ELSE c.mem[a]]
         [] c.f \in {"memcpy", "memmove"} ->
              result[1] = [a \in R!Address |-> IF In(a) THEN c.mem[c.src + a - c.dst] ELSE c.mem[a]]
         [] c.f = "memcmp" ->
              result[1] = IF differ = {} THEN 0
                          ELSE Sign(c.mem[c.dst + first], c.mem[c.src + first])
         [] c.f = "strlen" -> result[1] = (CHOOSE z \in zeros : \A y \in zeros : z <= y) - c.src
         [] c.f = "chkstk" ->
              LET last == IF result[1] = <<>> THEN c.low ELSE Last(result[1])
                  frame == IF c.len <= c.sp THEN c.sp - c.len ELSE 0
              IN /\ last <= frame \/ last = 0
                 /\ result[1] # <<>> => last + 2 > frame
                 /\ \A k \in DOMAIN result[1] :
                      result[1][k] = (IF k = 1 THEN c.low ELSE result[1][k - 1]) - 2

-----------------------------------------------------------------------------
Init ==
  /\ result = Pending
  /\ \/ \E t \in Triples : task = [kind |-> "versions", of |-> t]
     \/ \E l \in Lines : task = [kind |-> "line", of |-> l]
     \/ \E f \in Fields : task = [kind |-> "field", of |-> f]
     \/ \E d \in Dirs : task = [kind |-> "dir", of |-> d]
     \/ \E f \in Files : task = [kind |-> "file", of |-> f]
     \/ \E t \in Texts : task = [kind |-> "text", of |-> t]
     \/ \E w \in Wides : task = [kind |-> "wide", of |-> w]
     \/ \E l \in Launches : task = [kind |-> "launch", of |-> l]
     \/ \E b \in Bindings : task = [kind |-> "bindings", of |-> b]
     \/ \E u \in Uses : task = [kind |-> "uses", of |-> u]
     \/ \E c \in Calls : task = [kind |-> "call", of |-> c]

Next ==
  \/ Compare \/ SplitLine \/ DequoteField \/ PlacePackage \/ ParseFile
  \/ Recode \/ BuildLaunch \/ BindAll \/ UseArena \/ CallRuntime
Spec == Init /\ [][Next]_vars

(* Every command line of fewer than CmdMax characters.                     *)
RawInit ==
  /\ result = Pending
  /\ \E s \in SeqsUpTo({Blank, Quote, "a"}, CmdMax - 1) : task = [kind |-> "raw", of |-> s]
RawSpec == RawInit /\ [][SplitRaw]_vars

-----------------------------------------------------------------------------
(* All triples of the strings over "." "0" "1" of up to three bytes, and   *)
(* of short strings with a letter and a few longer versions.               *)
LongVersions ==
  {<<49, 46, 57>>, <<49, 46, 49, 48>>, <<49, 46, 49, 48, 97>>, <<49, 46, 49, 97>>,
   <<49, 46, 49, 48, 46, 48>>, <<49, 97, 49>>, <<49, 97, 49, 48>>, <<49, 46, 57, 97>>}
SomeTriples ==
  LET Cube(V) == V \X V \X V
  IN Cube(SeqsUpTo({46, 48, 49}, 3)) \cup Cube(SeqsUpTo({46, 49, 97}, 2) \cup LongVersions)

(* Up to two arguments of up to three characters with all that is special, *)
(* and one of up to five.                                                  *)
SomeLines == SeqsUpTo(SeqsUpTo({"a", Blank, Quote, Slash}, 3), 2)
               \cup SeqsUpTo(SeqsUpTo({"a", Quote, Slash}, 5), 1)
SomeFields == SeqsUpTo({"a", Blank, Q!Single, Q!Double, "&", Slash, "$", "("}, 4)
SomeDirs == SeqsUpTo({"a", Blank, "&", Slash, "$", "(", "/", "pkgconfig"}, 4)
                \cup {<<"/">> \o s \o <<"/", "pkgconfig">> : s \in SeqsUpTo({"a", Blank, "/"}, 4)}

(* One entry in every layout with a value of up to three bytes, and two in *)
(* a few.  No value begins or ends with a blank, or ends with a backslash: *)
(* such a value cannot be written.                                         *)
Values(n) ==
  {v \in SeqsUpTo({"a", Blank, "#", Slash, ":"}, n) :
     v # <<>> => v[1] # Blank /\ v[Len(v)] \notin {Blank, Slash}}
Entries(names, values, befores) ==
  {e \in [kind : {"=", ":"}, name : names, value : values, cut : 0..3, broken : BOOLEAN,
          dos : BOOLEAN, before : befores, behind : {<<>>, <<Blank>>, <<Blank, "#", "a", "=", Slash>>}] :
     e.cut <= IF e.broken THEN Len(e.value) ELSE 0}
SomeFiles ==
  {<<e>> : e \in Entries({<<"F">>}, Values(3), {<<>>})}
    \cup {<<e>> : e \in Entries({<<"F">>, <<"u">>, <<"u", Blank, "#">>}, Values(1),
                              {<<>>, <<"#", "F", ":", Slash, P!Newline>>,
                               <<Blank, P!Newline, "F", P!Newline>>})}
    \cup {<<d, e>> : d \in Entries({<<"F">>, <<"u">>}, {<<>>, <<"a">>}, {<<>>}),
                     e \in Entries({<<"F">>, <<"G">>, <<"u">>}, {<<"#">>}, {<<>>})}

(* Bytes at every boundary of the encoding, cut at every place, and units  *)
(* at every boundary of UTF-16.                                            *)
Boundary == {65, 127, 128, 143, 144, 159, 160, 191, 193, 194, 224, 237, 239, 240, 244}
SomeTexts ==
  LET Cut(S) == {[bytes |-> s, cut |-> c] : s \in S, c \in 0..5}
      long == {<<a, b, c, d>> : a \in {240, 243, 244, 245}, b \in {128, 143, 144, 191, 192},
                               c \in {128, 191, 65}, d \in {128, 191, 65}}
  IN {t \in Cut(SeqsUpTo(Boundary, 3) \cup long \cup {<<195>> \o s \o <<240, 159>> : s \in long}
               \cup {s \o <<65>> \o s : s \in long}) :
        t.cut <= Len(t.bytes)}
SomeWides ==
  SeqsUpTo({65, 127, 128, 2047, 2048, 55295, 55296, 56319, 56320, 57343, 57344, 65535}, 3)

(* Command lines of up to five characters, and paths up to what is cut off.*)
SomeLaunches ==
  [cmd : {<<"x">>, <<"x", Blank, "y">>, <<"x", Blank, Quote, Blank, Quote>>, <<"x", Blank, Slash>>},
   line : SeqsUpTo({"a", Blank, Quote, Slash}, 5),
   path : {<<"a">>}, exe : {<<"e">>}]
  \cup
  [cmd : {<<"x">>}, line : {<<"a">>}, path : SeqsUpTo({"a", Slash}, 5),
   exe : {<<"e">>, <<"c", A!Colon, "e">>, <<"e", Slash, "e">>, <<"e", "e", "e", "e", "e", "e">>}]

(* Up to four bindings, of any of the keys.                                *)
SomeBindings == SeqsUpTo(Keys, 4)

(* What starts the program, what packages ask for and what the lists of    *)
(* arguments ask for; in an arena of three units of alignment.             *)
Use(op, ns, ws) == [op : {op}, n : ns, w : ws]
StartUses == SeqsUpTo(Use("env", 0..1, {1, 3}) \cup Use("module", {1, 3, 9}, {1}), 2)
PackageUses ==
  SeqsUpTo(Use("file", {0, 5, 12}, {1}) \cup Use("alloc", {0, 3, 5}, {0})
             \cup Use("buffer", {1, 4}, {0}) \cup Use("fields", {0, 3}, {2}), 3)
ListUses ==
  LET some == SeqsUpTo(Use("alloc", {1, 4}, {0}) \cup Use("buffer", {1, 3}, {0}), 2)
      Scratched(s) == <<[op |-> "scratch"]>> \o s \o <<[op |-> "return"]>>
  IN {Scratched(s) \o Scratched(<<>>) : s \in some}
       \cup {SubSeq(Scratched(s), 1, Len(s) + 1) : s \in some}
SomeUses ==
  LET Few(uses, n) == {u \in uses : Len(u) <= n}
  IN {s \o p : s \in Few(StartUses, 1), p \in PackageUses}
       \cup {s \o p : s \in StartUses, p \in Few(PackageUses, 2)}
       \cup {s \o p \o l : s \in SeqsUpTo(Use("env", {1}, {1}), 1),
                           p \in Few(PackageUses, 2), l \in ListUses}

(* Every area that does not wrap around, in memories of a few kinds; every *)
(* frame that is not empty.                                                *)
Memories == {<<1, 2, 3, 4, 5, 0>>, <<1, 1, 2, 1, 1, 0>>, <<0, 255, 1, 0, 255, 0>>}
SomeCalls ==
  LET calls == [f : {"memset", "memcpy", "memmove", "memcmp", "strlen", "chkstk"},
                mem : {[a \in 0..5 |-> m[a + 1]] : m \in Memories},
                dst : 0..5, src : 0..5, len : 0..6, low : {0}, sp : {0}]
      Apart(c) == c.dst + c.len <= c.src \/ c.src + c.len <= c.dst
      probes == [f : {"chkstk"}, mem : {[a \in 0..5 |-> 0]}, dst : {0}, src : {0},
                 len : 1..12, low : {0, 2, 4, 6}, sp : 1..8]
  IN {c \in calls : /\ c.f # "chkstk" /\ c.dst + c.len <= 6 /\ c.src + c.len <= 6
                    /\ c.f = "memcpy" => Apart(c)}
       \cup {c \in probes : c.low <= c.sp}
=============================================================================
