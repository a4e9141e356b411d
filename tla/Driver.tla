------------------------------- MODULE Driver -------------------------------
(***************************************************************************)
(* pkg-config.c as a command: uconfig() (lines 1730-2037) with             *)
(* nextoption() (751-785) and getargopt() (787-793), the buffered output   *)
(* of u8buf (328-387), os_write() (2639-2679), os_fail() and the exit      *)
(* status of mainCRTStartup() (2556).                                      *)
(*                                                                         *)
(* Output and messages go through two buffers, err may come to denote      *)
(* another one than the one the processor was given, a full buffer is      *)
(* written out in the middle of a text, and any write may fail.            *)
(*                                                                         *)
(* Abstractions: an option is an atom, those that only change what is      *)
(* resolved or printed are one (Other); what process(), expand() and       *)
(* appendfield() do is whether they succeed (job.fault names the step that *)
(* does not) and a text; a text is a sequence of atoms, and a buffer's     *)
(* capacity is counted in them.                                            *)
(*                                                                         *)
(* Definitions marked "mutant" are no part of the model: each is a slip in *)
(* the definition below it that a property must notice.                    *)
(***************************************************************************)
EXTENDS Integers, Sequences

CONSTANTS
  OutCap,  \* capacity of the buffer of stdout, 4096 bytes in the code
  ErrCap,  \* capacity of the buffer of stderr, 128 bytes
  Jobs     \* the command lines and faults to start from

ASSUME DriverAssumption == OutCap \in Nat \ {0} /\ ErrCap \in Nat \ {0}

Report == {"--modversion", "--variable", "--cflags", "--libs"}
Quiet == {"--exists", "--silence-errors", "--atleast-version", "--validate"}
Leave == {"--help", "--version", "--atleast-pkgconfig-version"}
Other == "--other"        \* --define-prefix, --static, --newlines, --print-errors, ...
OtherValue == "--other-value"   \* --with-path, --maximum-traverse-depth
Valued == {"--variable", "--atleast-version", "--atleast-pkgconfig-version",
           "--define-variable", OtherValue}
Option == Report \cup Quiet \cup Leave \cup Valued \cup {Other, "--errors-to-stdout"}
Package == "package"      \* an argument that is no option, among them "-"
DashDash == "--"
Unknown == "--unknown"

(* A value may be attached to any option, as in --variable=prefix.         *)
Argument == [name : Option \cup {Unknown}, attached : BOOLEAN]
              \cup [name : {Package, DashDash}, attached : {FALSE}]

(* The step that fails: one of process(), or the one an option asks for    *)
(* (the value of --define-variable has no "=").                            *)
Fault == {"none", "package", "dangling operator", "--atleast-version", "--variable",
          "--cflags", "--libs", "--define-variable"}
Job == [args : Seq(Argument), fault : Fault]

ASSUME JobsAssumption == Jobs \subseteq Job

VARIABLES
  job,      \* the command line and the step that fails
  index,    \* opts.index, arguments consumed
  dashdash, \* opts.dashdash
  given,    \* the options seen, as far as they matter later
  nargs,    \* non-option arguments collected
  err,      \* the buffer uconfig() sends messages to: "err", "out", "null"
  todo,     \* output still to be done before uconfig() goes on
  phase,    \* where uconfig() is
  buffer,   \* [{"out", "err"} -> the text in the buffer]
  stream,   \* [{"out", "err"} -> the text that has left the program]
  failed,   \* [{"out", "err"} -> BOOLEAN], handles[fd].err
  printed,  \* [{"out", "err"} -> all text printed to it], for the properties
  exit      \* "running", the exit status, or "out of bounds"

progress == <<job, index, dashdash, given, nargs, err>>
io == <<buffer, stream, failed, printed>>
vars == <<progress, todo, phase, io, exit>>

ProcErr == "err"  \* proc->err, set by newprocessor() and never changed
Cap(b) == IF b = "out" THEN OutCap ELSE ErrCap

Put(b, text) == [op |-> "print", to |-> b, text |-> text]
Flush(b) == [op |-> "flush", to |-> b, text |-> <<>>]
Exit == [op |-> "exit", to |-> "null", text |-> <<>>]
FailUnflushed(b, message) ==                           \* mutant
  <<Put(b, message), [op |-> "fail", to |-> b, text |-> <<>>]>>
Fail(b, message) == <<Put(b, message), Flush(b), [op |-> "fail", to |-> b, text |-> <<>>]>>

-----------------------------------------------------------------------------
(* Output.                                                                 *)

WriteOn(b, text) ==                                    \* mutant
  IF text = <<>> THEN UNCHANGED <<stream, failed>>
  ELSE \/ stream' = [stream EXCEPT ![b] = @ \o text] /\ UNCHANGED failed
       \/ failed' = [failed EXCEPT ![b] = TRUE] /\ UNCHANGED stream

(* os_write(): once a write to a stream has failed nothing more is written *)
(* to it.                                                                  *)
Write(b, text) ==
  IF failed[b] \/ text = <<>> THEN UNCHANGED <<stream, failed>>
  ELSE \/ stream' = [stream EXCEPT ![b] = @ \o text] /\ UNCHANGED failed
       \/ failed' = [failed EXCEPT ![b] = TRUE] /\ UNCHANGED stream

Running == exit = "running" /\ todo # <<>>

(* One byte more and the buffer is full.                                   *)
Fills(b) == Len(buffer[b]) + 1 = Cap(b)

(* prints8(), one byte: a full buffer is flushed.                          *)
PrintByte ==
  /\ Running /\ Head(todo).op = "print" /\ Head(todo).text # <<>>
  /\ LET b == Head(todo).to
         byte == Head(Head(todo).text)
     IN /\ todo' = <<[Head(todo) EXCEPT !.text = Tail(@)]>> \o Tail(todo)
        /\ IF b = "null" THEN UNCHANGED io
           ELSE /\ printed' = [printed EXCEPT ![b] = Append(@, byte)]
                /\ IF Fills(b)
                   THEN /\ Write(b, Append(buffer[b], byte))
                        /\ buffer' = [buffer EXCEPT ![b] = <<>>]
                   ELSE /\ buffer' = [buffer EXCEPT ![b] = Append(@, byte)]
                        /\ UNCHANGED <<stream, failed>>
  /\ UNCHANGED <<progress, phase, exit>>

PrintEnd ==
  /\ Running /\ Head(todo).op = "print" /\ Head(todo).text = <<>>
  /\ todo' = Tail(todo)
  /\ UNCHANGED <<progress, phase, io, exit>>

FlushBuffer ==
  /\ Running /\ Head(todo).op = "flush"
  /\ LET b == Head(todo).to
     IN IF b = "null" THEN UNCHANGED io
        ELSE /\ Write(b, buffer[b])
             /\ buffer' = [buffer EXCEPT ![b] = <<>>]
             /\ UNCHANGED printed
  /\ todo' = Tail(todo)
  /\ UNCHANGED <<progress, phase, exit>>

LeavesAnyhow ==                                        \* mutant
  /\ Running /\ Head(todo).op \in {"fail", "exit"}
  /\ exit' = IF Head(todo).op = "fail" THEN "failure" ELSE "success"
  /\ todo' = Tail(todo)
  /\ UNCHANGED <<progress, phase, io>>

(* os_fail(), or the return of uconfig() to mainCRTStartup().              *)
Leaves ==
  /\ Running /\ Head(todo).op \in {"fail", "exit"}
  /\ exit' = IF Head(todo).op = "fail" \/ failed["out"] \/ failed["err"]
             THEN "failure" ELSE "success"
  /\ todo' = Tail(todo)
  /\ UNCHANGED <<progress, phase, io>>

-----------------------------------------------------------------------------
(* Options.                                                                *)

AtOption == exit = "running" /\ todo = <<>> /\ phase = "options"
Stay == UNCHANGED <<job, phase, io>>
Arg == job.args[index + 1]
HasArg == index < Len(job.args)

EndOptionsLoud ==                                      \* mutant
  /\ AtOption /\ index = Len(job.args)
  /\ phase' = "process"
  /\ UNCHANGED <<job, index, dashdash, given, nargs, err, todo, io, exit>>

EndOptions ==
  /\ AtOption /\ index = Len(job.args)
  /\ phase' = "process"
  /\ err' = IF Quiet \cap given # {} THEN "null"
            ELSE IF "--errors-to-stdout" \in given THEN "out" ELSE err
  /\ UNCHANGED <<job, index, dashdash, given, nargs, todo, io, exit>>

(* The loop of nextoption() reads on without looking whether there is      *)
(* another argument: behind a last "--" there is none.                     *)
TakeDashDash ==
  /\ AtOption /\ HasArg /\ ~dashdash /\ Arg.name = DashDash
  /\ dashdash' = TRUE
  /\ index' = index + 1
  /\ exit' = IF index + 1 = Len(job.args) THEN "out of bounds" ELSE exit
  /\ UNCHANGED <<given, nargs, err, todo>> /\ Stay

TakePackage ==
  /\ AtOption /\ HasArg /\ (dashdash \/ Arg.name = Package)
  /\ index' = index + 1
  /\ nargs' = nargs + 1
  /\ UNCHANGED <<dashdash, given, err, todo, exit>> /\ Stay

Detached == Arg.name \in Valued /\ ~Arg.attached

(* What an option leaves behind or has printed.                            *)
Act(name) ==
  /\ given' = given \cup {name}
  /\ todo' = CASE name \in {"--help", "--version"} -> <<Put("out", <<name, "nl">>), Flush("out"), Exit>>
               [] name = "--atleast-pkgconfig-version" -> <<Exit>>
               [] name = "--define-variable" /\ job.fault = name -> Fail(err, <<"no value", "nl">>)
               [] OTHER -> <<>>

TakeOption ==
  /\ AtOption /\ HasArg /\ ~dashdash /\ Arg.name \in Option
  /\ Detached => index + 1 < Len(job.args)
  /\ index' = index + (IF Detached THEN 2 ELSE 1)
  /\ Act(Arg.name)
  /\ UNCHANGED <<dashdash, nargs, err, exit>> /\ Stay

RefuseOption ==
  /\ AtOption /\ HasArg /\ ~dashdash
  /\ Arg.name = Unknown \/ (Detached /\ index + 1 = Len(job.args))
  /\ index' = index + 1
  /\ todo' = Fail(err, <<"bad option", "nl">>)
  /\ UNCHANGED <<dashdash, given, nargs, err, exit>> /\ Stay

-----------------------------------------------------------------------------
(* The stages after the options.                                           *)

At(p) == exit = "running" /\ todo = <<>> /\ phase = p
Then(next, actions) ==
  /\ phase' = next
  /\ todo' = actions
  /\ UNCHANGED <<progress, io, exit>>

(* process() for every argument, with proc->err; endprocessor(), with err; *)
(* the package count; and --atleast-version and its like.                  *)
ProcessArgs ==
  /\ At("process")
  /\ Then("check", IF job.fault = "package" /\ nargs > 0
                   THEN Fail(ProcErr, <<"package", "nl">>) ELSE <<>>)

Check ==
  /\ At("check")
  /\ Then("modversion",
          IF job.fault = "dangling operator" /\ nargs > 0 THEN Fail(err, <<"operator", "nl">>)
          ELSE IF nargs = 0 THEN Fail(err, <<"no package", "nl">>)
          ELSE IF job.fault = "--atleast-version" /\ job.fault \in given
          THEN Fail(err, <<"version", "nl">>)
          ELSE <<>>)

Modversion ==
  /\ At("modversion")
  /\ Then("variable", IF "--modversion" \in given
                      THEN <<Put("out", <<"version", "nl">>)>> ELSE <<>>)

(* expand() prints into the output buffer and may fail halfway.            *)
Variable ==
  /\ At("variable")
  /\ Then("cflags",
          IF "--variable" \notin given THEN <<>>
          ELSE IF job.fault = "--variable"
          THEN <<Put("out", <<"value">>)>> \o Fail(err, <<"undefined", "nl">>)
          ELSE <<Put("out", <<"value", "nl">>)>>)

(* A field writer collects all words before it prints any.                 *)
Cflags ==
  /\ At("cflags")
  /\ Then("libs", IF "--cflags" \notin given THEN <<>>
                  ELSE IF job.fault = "--cflags" THEN Fail(err, <<"unmatched", "nl">>)
                  ELSE <<Put("out", <<"cflags">>)>>)

Libs ==
  /\ At("libs")
  /\ Then("end", IF "--libs" \notin given THEN <<>>
                 ELSE IF job.fault = "--libs" THEN Fail(err, <<"unmatched", "nl">>)
                 ELSE <<Put("out", <<"libs">>)>>)

End ==
  /\ At("end")
  /\ Then("ended", (IF {"--cflags", "--libs"} \cap given # {}
                    THEN <<Put("out", <<"nl">>)>> ELSE <<>>)
                   \o <<Flush("out"), Exit>>)

-----------------------------------------------------------------------------
Init ==
  /\ job \in Jobs
  /\ index = 0
  /\ dashdash = FALSE
  /\ given = {}
  /\ nargs = 0
  /\ err = "err"
  /\ todo = <<>>
  /\ phase = "options"
  /\ buffer = [b \in {"out", "err"} |-> <<>>]
  /\ stream = [b \in {"out", "err"} |-> <<>>]
  /\ failed = [b \in {"out", "err"} |-> FALSE]
  /\ printed = [b \in {"out", "err"} |-> <<>>]
  /\ exit = "running"

Next ==
  \/ PrintByte \/ PrintEnd \/ FlushBuffer \/ Leaves
  \/ EndOptions \/ TakeDashDash \/ TakePackage \/ TakeOption \/ RefuseOption
  \/ ProcessArgs \/ Check \/ Modversion \/ Variable \/ Cflags \/ Libs \/ End

Spec == Init /\ [][Next]_vars

-----------------------------------------------------------------------------
IsPrefixOf(s, t) == Len(s) <= Len(t) /\ SubSeq(t, 1, Len(s)) = s

(* Whatever is sent to which buffer, and wherever a buffer happens to fill *)
(* up, a stream shows what was printed to it in that order, without gaps:  *)
(* all of it up to a moment, or up to its first failed write.  No buffer   *)
(* is ever left full.                                                      *)
StreamsArePrefixes ==
  \A b \in {"out", "err"} :
    /\ Len(buffer[b]) < Cap(b)
    /\ IsPrefixOf(stream[b], printed[b])
    /\ ~failed[b] => stream[b] \o buffer[b] = printed[b]

(* Success means that all that was asked for, and no message, was printed  *)
(* and has really left the program: "the platform must detect write errors *)
(* and arrange for an eventual non-zero exit status" (lines 64-65), also   *)
(* of an error met by the last write of all or on the other stream.        *)
Wanted ==
  (IF "--modversion" \in given THEN <<"version", "nl">> ELSE <<>>)
    \o (IF "--variable" \in given THEN <<"value", "nl">> ELSE <<>>)
    \o (IF "--cflags" \in given THEN <<"cflags">> ELSE <<>>)
    \o (IF "--libs" \in given THEN <<"libs">> ELSE <<>>)
    \o (IF {"--cflags", "--libs"} \cap given # {} THEN <<"nl">> ELSE <<>>)

SuccessMeansDone ==
  exit = "success" =>
    /\ stream = printed /\ stream["err"] = <<>>
    /\ given \cap Leave = {} =>
         /\ stream["out"] = Wanted
         /\ index = Len(job.args) /\ nargs > 0
         /\ job.fault \notin {"package", "dangling operator"} \cup given

(* A failure that is not a failed write is explained on one of the streams *)
(* unless the user asked for silence.                                      *)
FailureIsExplained ==
  exit = "failure" /\ ~failed["out"] /\ ~failed["err"] =>
    \/ Quiet \cap given # {}
    \/ stream["err"] # <<>>
    \/ "--errors-to-stdout" \in given /\ stream["out"] # <<>>

(* The checks uconfig() makes itself respect the options about messages:   *)
(* when every package was found, the only messages on stderr are those     *)
(* about the command line, which come first.                               *)
OwnChecksObey ==
  phase # "options" /\ job.fault # "package" =>
    printed["err"] = <<>> \/ given \cap (Quiet \cup {"--errors-to-stdout"}) = {}

(* A command line without a package "requires at least one package name"   *)
(* (line 1963): it is refused with that message.                           *)
NoPackageIsRefused == exit # "out of bounds"
=============================================================================
