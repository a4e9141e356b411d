----------------------------- MODULE SymbolFilter -----------------------------
(***************************************************************************)
(* vc++filt.c: run() (lines 429-514) with parseargs() (381-427), the call  *)
(* cache (299-353), the input buffer (192-205) and the output buffer       *)
(* (226-290).                                                              *)
(*                                                                         *)
(* The program copies its input and replaces the decorated symbols in it,  *)
(* found by a scanner that sees one byte at a time, or it answers the      *)
(* symbols on its command line.  Undecorated symbols are cached as long as *)
(* memory lasts.                                                           *)
(*                                                                         *)
(* Abstractions: a byte is an atom; what UnDecorateSymbolName() makes of a *)
(* symbol (under flags that never change once parsed) is one atom of       *)
(* output; any allocation of the cache may fail; a write that fails may    *)
(* have written a part.  The conversion to UTF-16 for a console is left    *)
(* out.                                                                    *)
(*                                                                         *)
(* Definitions marked "mutant" are no part of the model: each is a slip in *)
(* the definition below it that a property must notice.                    *)
(***************************************************************************)
EXTENDS Integers, Sequences, SequencesExt

CONSTANTS
  Ident,      \* the bytes of identifiers, "?" and "@" among them
  Other,      \* all other bytes, with Newline
  SymbolMax,  \* SYMBOL_MAX, 65536 in the code
  InCap,      \* BUFFER_CAP of the input buffer, 16384
  OutCap,     \* BUFFER_CAP of the output buffer
  Jobs        \* the command lines and inputs to start from

Newline == "newline"
Byte == Ident \cup Other
NoText == "no text"
Argument == [kind : {"letters", "help", "unknown", "--"}, sym : {<<>>}]
              \cup [kind : {"symbol"}, sym : Seq(Byte)]
Job == [argv : Seq(Argument), input : Seq(Byte)]

ASSUME FilterAssumption ==
  /\ {"?", "@"} \subseteq Ident /\ Newline \in Other /\ Ident \cap Other = {}
  /\ NoText \notin Byte
  /\ SymbolMax \in Nat /\ SymbolMax > 1
  /\ InCap \in Nat \ {0} /\ OutCap \in Nat \ {0}
  /\ Jobs \subseteq Job

VARIABLES
  job,        \* the command line and the input
  index,      \* arguments read
  first,      \* args.index: the options before the symbols
  phase,      \* where run() is: "options", "symbols", "input", "flush", "ended"
  rest,       \* bytes of the input still to come
  unread,     \* bytes in the input buffer
  eof,        \* stdin->eof
  sym,        \* the current symbol
  sym_at,     \* it contains "@"
  sym_start,  \* the next byte may start an identifier
  seen,       \* cache->seen: from symbols to their output, or to NoOutput
  todo,       \* output still to be put into the buffer
  buffer,     \* stdout->buf
  out,        \* what has left the program
  err,        \* stdout->err
  exit        \* "running" or the exit status

options == <<job, index, first>>
input == <<rest, unread, eof>>
scanner == <<sym, sym_at, sym_start>>
output == <<buffer, out, err>>
vars == <<options, phase, input, scanner, seen, todo, output, exit>>

(* Atoms of output are tuples, so that one byte and a whole answer differ. *)
Verbatim(s) == [i \in DOMAIN s |-> <<s[i]>>]
Undecorated(s) == <<"undecorated">> \o s
NoOutput == <<>>
Unspecified == <<"unspecified">>

Ready(p) == exit = "running" /\ phase = p /\ todo = <<>>

-----------------------------------------------------------------------------
(* parseargs(), one argument.                                              *)

ParseLetters ==
  /\ Ready("options") /\ index < Len(job.argv) /\ job.argv[index + 1].kind = "letters"
  /\ index' = index + 1
  /\ UNCHANGED <<job, first, phase, input, scanner, seen, todo, output, exit>>

(* -h, which ends the program as its write ends, and unknown letters.      *)
ParseLeave ==
  /\ Ready("options") /\ index < Len(job.argv)
  /\ \/ job.argv[index + 1].kind = "help" /\ exit' \in {"success", "failure"}
     \/ job.argv[index + 1].kind = "unknown" /\ exit' = "failure"
  /\ UNCHANGED <<options, phase, input, scanner, seen, todo, output>>

EndOptions ==
  /\ Ready("options")
  /\ index < Len(job.argv) => job.argv[index + 1].kind \in {"--", "symbol"}
  /\ index' = IF index < Len(job.argv) /\ job.argv[index + 1].kind = "--" THEN index + 1
              ELSE index
  /\ first' = index'
  /\ phase' = "symbols"
  /\ UNCHANGED <<job, input, scanner, seen, todo, output, exit>>

-----------------------------------------------------------------------------
(* The cache.                                                              *)

FoundEmpty(s) == s \in DOMAIN seen                     \* mutant
Found(s) == s \in DOMAIN seen /\ seen[s] # NoOutput
Bind(s, r) == [k \in DOMAIN seen \cup {s} |-> IF k = s THEN r ELSE seen[k]]

(* undecorate() and upsert(): r is returned for the symbol s, which        *)
(* UnDecorateSymbolName() makes answer of.  There may be no memory for a   *)
(* new entry, or for the output of an entry.                               *)
Undecorate(s, answer, r) ==
  IF Found(s) THEN r = seen[s] /\ UNCHANGED seen
  ELSE /\ r = answer
       /\ \/ seen' \in {Bind(s, r), Bind(s, NoOutput)}
          \/ s \notin DOMAIN seen /\ UNCHANGED seen

-----------------------------------------------------------------------------
(* Symbols on the command line.  A symbol that leaves no room for its null *)
(* terminator is not converted: its length is 0 and the buffer may hold    *)
(* anything.                                                               *)

AnswerSymbol ==
  LET s == job.argv[index + 1].sym
      known == Len(s) < SymbolMax
      converted == IF known THEN s ELSE <<NoText>>
  IN /\ Ready("symbols") /\ index < Len(job.argv)
     /\ \E r \in {Undecorated(s), Unspecified} \cup {seen[k] : k \in DOMAIN seen} :
          /\ Undecorate(converted, IF known THEN Undecorated(s) ELSE Unspecified, r)
          /\ todo' = <<r, <<Newline>>>>
     /\ index' = index + 1
     /\ UNCHANGED <<job, first, phase, input, scanner, output, exit>>

EndSymbols ==
  /\ Ready("symbols") /\ index = Len(job.argv)
  /\ phase' = IF index > first THEN "flush" ELSE "input"
  /\ UNCHANGED <<options, input, scanner, seen, todo, output, exit>>

-----------------------------------------------------------------------------
(* The scanner of standard input.                                          *)

(* readu8() with an empty buffer.  ReadFile() returns what there is; its   *)
(* failure looks like the end of the input.                                *)
ReadFile ==
  /\ Ready("input") /\ unread = <<>> /\ ~eof
  /\ \/ \E n \in 1..Len(rest) :
          /\ n <= InCap
          /\ unread' = SubSeq(rest, 1, n)
          /\ rest' = SubSeq(rest, n + 1, Len(rest))
          /\ UNCHANGED eof
     \/ eof' = TRUE /\ UNCHANGED <<rest, unread>>
  /\ UNCHANGED <<options, phase, scanner, seen, todo, output, exit>>

(* The next byte c is consumed and sym_start says whether it ended an      *)
(* identifier.                                                             *)
Consume(c) ==
  /\ Ready("input") /\ unread # <<>> /\ c = Head(unread)
  /\ unread' = Tail(unread)
  /\ sym_start' = (c \notin Ident)
  /\ UNCHANGED <<options, phase, rest, eof, output, exit>>

Starts(c) == sym_start /\ c = "?"

StartSymbol(c) ==
  /\ Consume(c) /\ Starts(c)
  /\ sym' = Append(sym, c)
  /\ UNCHANGED <<sym_at, seen, todo>>

TooLong(s) == Len(s) = SymbolMax

ContinueSymbol(c) ==
  /\ Consume(c) /\ ~Starts(c) /\ sym # <<>> /\ c \in Ident
  /\ IF TooLong(Append(sym, c))
     THEN /\ todo' = Verbatim(Append(sym, c))
          /\ sym' = <<>> /\ sym_at' = FALSE
     ELSE /\ sym' = Append(sym, c)
          /\ sym_at' = (sym_at \/ c = "@")
          /\ UNCHANGED todo
  /\ UNCHANGED seen

(* A byte that ends the symbol: it is undecorated if it contains "@".      *)
EndSymbol(c) ==
  /\ Consume(c) /\ ~Starts(c) /\ sym # <<>> /\ c \notin Ident
  /\ IF sym_at
     THEN \E r \in {Undecorated(sym)} \cup {seen[k] : k \in DOMAIN seen} :
            /\ Undecorate(sym, Undecorated(sym), r)
            /\ todo' = <<r, <<c>>>>
     ELSE todo' = Verbatim(Append(sym, c)) /\ UNCHANGED seen
  /\ sym' = <<>> /\ sym_at' = FALSE

PassByte(c) ==
  /\ Consume(c) /\ ~Starts(c) /\ sym = <<>>
  /\ todo' = <<<<c>>>>
  /\ UNCHANGED <<sym, sym_at, seen>>

EndInput ==
  /\ Ready("input") /\ eof
  /\ IF sym_at
     THEN \E r \in {Undecorated(sym)} \cup {seen[k] : k \in DOMAIN seen} :
            Undecorate(sym, Undecorated(sym), r) /\ todo' = <<r>>
     ELSE todo' = Verbatim(sym) /\ UNCHANGED seen
  /\ phase' = "flush"
  /\ UNCHANGED <<options, input, scanner, output, exit>>

-----------------------------------------------------------------------------
(* The output buffer.                                                      *)

(* flush() of the text b.                                                  *)
Flush(b) ==
  /\ \/ out' = out \o b /\ UNCHANGED err
     \/ err' = TRUE /\ \E n \in 0..Len(b) : out' = out \o SubSeq(b, 1, n)
  /\ buffer' = <<>>

(* writes8(), one byte; after an error the rest is dropped.                *)
WriteByte ==
  /\ exit = "running" /\ todo # <<>>
  /\ IF err THEN todo' = <<>> /\ UNCHANGED output
     ELSE /\ todo' = Tail(todo)
          /\ LET b == Append(buffer, Head(todo))
             IN IF Len(b) = OutCap THEN Flush(b)
                ELSE buffer' = b /\ UNCHANGED <<out, err>>
  /\ UNCHANGED <<options, phase, input, scanner, seen, exit>>

FlushRest ==
  /\ Ready("flush")
  /\ IF ~err /\ buffer # <<>> THEN Flush(buffer) ELSE UNCHANGED output
  /\ phase' = "ended"
  /\ UNCHANGED <<options, input, scanner, seen, todo, exit>>

Leave ==
  /\ Ready("ended")
  /\ exit' = IF err THEN "failure" ELSE "success"
  /\ UNCHANGED <<options, phase, input, scanner, seen, todo, output>>

-----------------------------------------------------------------------------
Init ==
  /\ job \in Jobs
  /\ index = 0 /\ first = 0
  /\ phase = "options"
  /\ rest = job.input /\ unread = <<>> /\ eof = FALSE
  /\ sym = <<>> /\ sym_at = FALSE /\ sym_start = TRUE
  /\ seen = [k \in {} |-> NoOutput]
  /\ todo = <<>>
  /\ buffer = <<>> /\ out = <<>> /\ err = FALSE
  /\ exit = "running"

Next ==
  \/ ParseLetters \/ ParseLeave \/ EndOptions
  \/ AnswerSymbol \/ EndSymbols
  \/ ReadFile \/ EndInput
  \/ \E c \in Byte : StartSymbol(c) \/ ContinueSymbol(c) \/ EndSymbol(c) \/ PassByte(c)
  \/ WriteByte \/ FlushRest \/ Leave

Spec == Init /\ [][Next]_vars

-----------------------------------------------------------------------------
(* What it should print.                                                   *)

(* A text has a decorated symbol from b to e: an identifier that begins    *)
(* with "?", contains "@" and fits with its null terminator.               *)
Decorated(text, b, e) ==
  /\ b \in 1..e /\ e \in 1..Len(text) /\ (e - b) + 1 < SymbolMax
  /\ \A k \in b..e : text[k] \in Ident
  /\ b > 1 => text[b - 1] \notin Ident
  /\ e < Len(text) => text[e + 1] \notin Ident
  /\ text[b] = "?" /\ \E k \in b..e : text[k] = "@"

(* Such a symbol is replaced where it ends, and all else is copied.        *)
Copied(text, i) == \A b, e \in DOMAIN text : Decorated(text, b, e) => i \notin b..e
Rewritten(text, i) ==
  IF Copied(text, i) THEN <<<<text[i]>>>>
  ELSE IF \E b \in 1..i : Decorated(text, b, i)
       THEN <<Undecorated(SubSeq(text, CHOOSE b \in 1..i : Decorated(text, b, i), i))>>
       ELSE <<>>
Filtered(text) == FlattenSeq([i \in DOMAIN text |-> Rewritten(text, i)])

(* A symbol on the command line is answered with a line.                   *)
Answer(i) ==
  LET s == job.argv[i].sym
  IN <<IF Len(s) < SymbolMax THEN Undecorated(s) ELSE Unspecified, <<Newline>>>>
Answers == FlattenSeq([i \in 1..(Len(job.argv) - first) |-> Answer(first + i)])

Taken == SubSeq(job.input, 1, Len(job.input) - Len(rest))
Complete == IF Len(job.argv) > first THEN Answers ELSE Filtered(Taken)

(* However the input arrives in pieces, whatever the cache had memory for  *)
(* and whenever the buffer fills up: what leaves the program is the text   *)
(* with its decorated symbols replaced, up to a failed write, and the exit *)
(* status is success only if all of it has left.  While the input goes on  *)
(* its last identifier may still change its meaning.  The symbol always    *)
(* has room for the null terminator of line 483 and the buffer for a byte. *)
OutputIsFiltered ==
  /\ phase \in {"flush", "ended"} => IsPrefix(out, Complete)
  /\ phase = "ended" /\ (exit = "success" \/ ~err) => out = Complete
  /\ phase = "input" => IsPrefix(out, Filtered(job.input))
  /\ exit = "failure" => err \/ phase = "options"
  /\ Len(sym) < SymbolMax /\ Len(buffer) < OutCap
=============================================================================
