------------------------------ MODULE Traverse ------------------------------
(***************************************************************************)
(* Dependency resolution of pkg-config.c: process() (lines 1380-1485) with *)
(* locate(), endprocessor() and the part of uconfig() that drives them.    *)
(*                                                                         *)
(* Every command line argument and every Requires/Requires.private field   *)
(* is a list of tokens.  process() walks these lists with an explicit      *)
(* stack of 256 frames instead of recursion, loads each package once, and  *)
(* marks it DIRECT (named on the command line) and PUBLIC (reached through *)
(* Requires only).  A package first met on a private branch and later on a *)
(* public one is promoted, and its public requirements with it.            *)
(*                                                                         *)
(* Abstractions: a token is an atom; RealName stands for pathtorealname(), *)
(* Rank for the order compareversions() puts strings in; a file is the     *)
(* three fields process() reads, or NoPackage when findpackage() (search,  *)
(* parse, expansion) ends the program.                                     *)
(*                                                                         *)
(* Definitions marked "mutant" are no part of the model: each is a slip in *)
(* the definition below it that a property must notice.                    *)
(***************************************************************************)
EXTENDS Integers, Sequences

CONSTANTS
  Token,      \* the words that occur on command lines and in Requires fields
  RealName,   \* [Token -> realname], the name a package is filed under
  Rank,       \* [Token -> Int], order of the tokens under compareversions()
  Jobs,       \* the command lines, options and file systems to start from
  Cap,        \* countof(proc->stack), 256 in the code
  NoPackage,  \* the outcome of a findpackage() that fails
  Null        \* a null pkg pointer

Name == {RealName[t] : t \in Token}
OpToken == {"<", "<=", "=", ">=", ">"}
NoOp == "none"                            \* versop_ERR
Op == OpToken \cup {NoOp}
Flag == {"DIRECT", "PUBLIC"}
TokenList == Seq(Token)
File == [version : Token, requires : TokenList, requiresprivate : TokenList]
Job ==
  [args : Seq(TokenList), files : [Token -> File \cup {NoPackage}],
   recursive : BOOLEAN, maxdepth : Nat, ignoreVersions : BOOLEAN]

ASSUME TraverseAssumption ==
  /\ Cap \in Nat /\ Cap >= 2
  /\ RealName \in [Token -> Name]
  /\ Rank \in [Token -> Int]
  /\ Null \notin Name
  /\ Null \notin File
  /\ NoPackage \notin File
  /\ Jobs \subseteq Job

VARIABLES
  job,        \* the job being run: arguments, files, traversal options
  args,       \* arguments process() has not been called with yet
  stack,      \* proc->stack[0..top], bottom first; empty between two calls
  procLast,   \* proc->last: package a trailing operator would apply to
  procOp,     \* proc->op: operator still waiting for its version
  order,      \* pkgs->head: the packages in load order
  contents,   \* the loaded package of a realname, or Null
  flags,      \* p->flags
  status      \* "running", "done", or the error the program ended with

vars == <<job, args, stack, procLast, procOp, order, contents, flags, status>>

Frame(list, last, depth, fl, op) ==
  [list |-> list, pos |-> 1, last |-> last, depth |-> depth,
   flags |-> fl, op |-> op]

Top == stack[Len(stack)]
Below == SubSeq(stack, 1, Len(stack) - 1)
HasToken == stack # <<>> /\ Top.pos <= Len(Top.list)
Tok == Top.list[Top.pos]
ConsumedNot == Top                                     \* mutant
Consumed == [Top EXCEPT !.pos = @ + 1]

(* validcompare(op, compareversions(got, want)) *)
ValidCompare(op, got, want) ==
  \/ op \in {"<", "<="}      /\ Rank[got] < Rank[want]
  \/ op \in {"<=", "=", ">="} /\ Rank[got] = Rank[want]
  \/ op \in {">", ">="}      /\ Rank[got] > Rank[want]

FullLate(frames) == Len(stack) > Cap                   \* mutant

(* top >= cap - frames: no room to push that many frames.                  *)
Full(frames) == Len(stack) > Cap - frames

Fail(reason) ==
  /\ status' = reason
  /\ UNCHANGED <<job, args, stack, procLast, procOp, order, contents, flags>>

-----------------------------------------------------------------------------
(* A call of process() and its return.                                     *)

BeginArg ==
  /\ status = "running" /\ stack = <<>> /\ args # <<>>
  /\ stack' = <<Frame(Head(args), procLast, 0, Flag, procOp)>>
  /\ args' = Tail(args)
  /\ UNCHANGED <<job, procLast, procOp, order, contents, flags, status>>

(* The outermost frame is exhausted: its operator state is carried over to *)
(* the next argument, so that "a" ">=" "1" may be three arguments.         *)
EndArg ==
  /\ status = "running" /\ Len(stack) = 1 /\ ~HasToken
  /\ procLast' = Top.last
  /\ procOp' = Top.op
  /\ stack' = <<>>
  /\ UNCHANGED <<job, args, order, contents, flags, status>>

EndField ==
  /\ status = "running" /\ Len(stack) > 1 /\ ~HasToken
  /\ IF Top.op # NoOp
     THEN Fail("expected version")
     ELSE /\ stack' = Below
          /\ UNCHANGED <<job, args, procLast, procOp, order, contents, flags,
                         status>>

-----------------------------------------------------------------------------
(* One iteration of the loop that consumes a token.                        *)

VersionOkSwapped ==                                    \* mutant
  job.ignoreVersions \/ ValidCompare(Top.op, Tok, contents[Top.last].version)
VersionOkOutermost ==                                  \* mutant
  job.ignoreVersions \/ Len(stack) > 1
    \/ ValidCompare(Top.op, contents[Top.last].version, Tok)

VersionOk ==
  job.ignoreVersions \/ ValidCompare(Top.op, contents[Top.last].version, Tok)

CheckVersion ==
  /\ status = "running" /\ HasToken /\ Top.op # NoOp
  /\ IF VersionOk
     THEN /\ stack' = Append(Below, [Consumed EXCEPT !.last = Null, !.op = NoOp])
          /\ UNCHANGED <<job, args, procLast, procOp, order, contents, flags,
                         status>>
     ELSE Fail("version conflict")

TakeOperatorAnywhere ==                                \* mutant
  /\ status = "running" /\ HasToken /\ Top.op = NoOp /\ Tok \in OpToken
  /\ stack' = Append(Below, [Consumed EXCEPT !.op = Tok])
  /\ UNCHANGED <<job, args, procLast, procOp, order, contents, flags, status>>

TakeOperator ==
  /\ status = "running" /\ HasToken /\ Top.op = NoOp /\ Tok \in OpToken
  /\ IF Top.last = Null
     THEN Fail("unexpected operator")
     ELSE /\ stack' = Append(Below, [Consumed EXCEPT !.op = Tok])
          /\ UNCHANGED <<job, args, procLast, procOp, order, contents, flags,
                         status>>

AtPackage ==
  /\ status = "running" /\ HasToken /\ Top.op = NoOp /\ Tok \notin OpToken

DescendsPast(depth) == job.recursive /\ depth <= job.maxdepth    \* mutant
Descends(depth) == job.recursive /\ depth < job.maxdepth

PromotesNever(p) == FALSE                              \* mutant
PromotesAgain(p) == "PUBLIC" \in Top.flags             \* mutant

(* A package that was private is met on a public branch.                   *)
Promotes(p) == "PUBLIC" \in Top.flags /\ "PUBLIC" \notin flags[p]

MarkOnly(p) == [flags EXCEPT ![p] = Top.flags]         \* mutant
MarkPromoted(p) ==                                     \* mutant
  IF Promotes(p) THEN [flags EXCEPT ![p] = @ \cup Top.flags] ELSE flags

Mark(p) == [flags EXCEPT ![p] = @ \cup Top.flags]

(* The package is loaded already.  On a public branch a private package    *)
(* becomes public, and its Requires are walked again.                      *)
Revisit ==
  LET p == RealName[Tok]
      depth == Top.depth + 1
      descend == Promotes(p) /\ Descends(depth)
      pushed == IF descend
                THEN <<Frame(contents[p].requires, Null, depth,
                             Top.flags \ {"DIRECT"}, NoOp)>>
                ELSE <<>>
  IN /\ AtPackage /\ contents[p] # Null
     /\ IF descend /\ Full(1)
        THEN Fail("max recursion")
        ELSE /\ stack' = Append(Below, [Consumed EXCEPT !.last = p]) \o pushed
             /\ flags' = Mark(p)
             /\ UNCHANGED <<job, args, procLast, procOp, order, contents,
                            status>>

FieldFramesSwapped(file, depth) ==                     \* mutant
  <<Frame(file.requires, Null, depth, Top.flags \ {"DIRECT"}, NoOp),
    Frame(file.requiresprivate, Null, depth, {}, NoOp)>>
FieldFramesAlike(file, depth) ==                       \* mutant
  <<Frame(file.requiresprivate, Null, depth, Top.flags \ {"DIRECT"}, NoOp),
    Frame(file.requires, Null, depth, Top.flags \ {"DIRECT"}, NoOp)>>

(* The private requirements of a package go under its public ones.         *)
FieldFrames(file, depth) ==
  <<Frame(file.requiresprivate, Null, depth, {}, NoOp),
    Frame(file.requires, Null, depth, Top.flags \ {"DIRECT"}, NoOp)>>

(* First sight of the package: load it, list it, and push its              *)
(* requirements.                                                           *)
Load ==
  LET p == RealName[Tok]
      file == job.files[Tok]
      depth == Top.depth + 1
      pushed == IF Descends(depth) THEN FieldFrames(file, depth) ELSE <<>>
  IN /\ AtPackage /\ contents[p] = Null
     /\ IF file = NoPackage
        THEN Fail("could not find package")
        ELSE IF Descends(depth) /\ Full(2)
        THEN Fail("max recursion")
        ELSE /\ stack' = Append(Below, [Consumed EXCEPT !.last = p]) \o pushed
             /\ order' = Append(order, p)
             /\ contents' = [contents EXCEPT ![p] = file]
             /\ flags' = [flags EXCEPT ![p] = Top.flags]
             /\ UNCHANGED <<job, args, procLast, procOp, status>>

(* All arguments processed: endprocessor(), then the package count test.   *)
Finish ==
  /\ status = "running" /\ stack = <<>> /\ args = <<>>
  /\ Fail(IF procOp # NoOp THEN "expected version"
          ELSE IF order = <<>> THEN "no package name"
          ELSE "done")

-----------------------------------------------------------------------------
Init ==
  /\ job \in Jobs
  /\ args = job.args
  /\ stack = <<>>
  /\ procLast = Null
  /\ procOp = NoOp
  /\ order = <<>>
  /\ contents = [n \in Name |-> Null]
  /\ flags = [n \in Name |-> {}]
  /\ status = "running"

Next ==
  \/ BeginArg
  \/ EndArg
  \/ EndField
  \/ CheckVersion
  \/ TakeOperator
  \/ Revisit
  \/ Load
  \/ Finish

Spec == Init /\ [][Next]_vars

(* The program is sequential: it runs until it returns or exits.           *)
FairSpec == Spec /\ WF_vars(Next)

-----------------------------------------------------------------------------
(* What the lists mean.  In a list that is walked to its end without an    *)
(* error an operator always follows the package it constrains, so the      *)
(* token after it is a version; every other token names a package.         *)

VersionAt(l, i) ==
  i >= 3 /\ l[i - 1] \in OpToken /\ l[i - 2] \notin OpToken

PkgAt(l) == {i \in DOMAIN l : l[i] \notin OpToken /\ ~VersionAt(l, i)}
Named(l) == {RealName[l[i]] : i \in PkgAt(l)}

Loaded == {p \in Name : contents[p] # Null}
Direct == {p \in Name : "DIRECT" \in flags[p]}
Public == {p \in Name : "PUBLIC" \in flags[p]}
Unlimited == job.recursive /\ job.maxdepth > Cap

(* S has everything its loaded members require publicly.                   *)
RequiresClosed(S) == \A p \in S \cap Loaded : Named(contents[p].requires) \subseteq S

-----------------------------------------------------------------------------
FrameType ==
  [list : TokenList, pos : Nat \ {0}, last : Name \cup {Null}, depth : Nat,
   flags : SUBSET Flag, op : Op]

Status ==
  {"running", "done", "expected version", "version conflict",
   "unexpected operator", "max recursion", "could not find package",
   "no package name"}

(* A frame between two iterations.                                         *)
SoundFrame ==
  {f \in FrameType :
     /\ f.pos <= Len(f.list) + 1
     /\ f.last \in Loaded \cup {Null}
     /\ f.op # NoOp => f.last # Null}

(* Types of the walk's state, with the two facts the code relies on        *)
(* without testing them: the stack array is never overrun, and s->last is  *)
(* a loaded package whenever an operator waits for a version (line 1411    *)
(* dereferences it).                                                       *)
TypeOK ==
  /\ job \in Job
  /\ args \in Seq(TokenList)
  /\ stack \in Seq(SoundFrame) /\ Len(stack) <= Cap
  /\ procLast \in Loaded \cup {Null}
  /\ procOp \in Op /\ (procOp # NoOp => procLast # Null)
  /\ order \in Seq(Name)
  /\ contents \in [Name -> File \cup {Null}]
  /\ flags \in [Name -> SUBSET Flag]
  /\ status \in Status

(* Only what the command line needs publicly is ever marked PUBLIC: the    *)
(* mark stays inside every set that holds the named packages and is closed *)
(* under Requires.  A package reached through Requires.private alone never *)
(* adds its Libs to a dynamic link.                                        *)
PublicSound ==
  \A S \in SUBSET Name : Direct \subseteq S /\ RequiresClosed(S) => Public \subseteq S

(* And nothing is missed: whichever branch met a package first, a walk     *)
(* with no depth limit ends with every public requirement of a PUBLIC      *)
(* package marked PUBLIC (the promotion in lines 1437-1454).               *)
PublicClosed ==
  status = "done" /\ Unlimited => RequiresClosed(Public)

(* --static prints every loaded package: a complete walk has loaded both   *)
(* kinds of requirements of everything it loaded.                          *)
LoadedClosed ==
  status = "done" /\ Unlimited =>
    \A p \in Loaded :
      Named(contents[p].requires) \cup Named(contents[p].requiresprivate)
        \subseteq Loaded

(* Every version constraint of every list that was walked holds: of each   *)
(* Requires and Requires.private of a loaded package in a complete walk.   *)
SatisfiedAt(l, i) ==
  LET p == RealName[l[i - 2]]
  IN p \in Loaded /\ ValidCompare(l[i - 1], contents[p].version, l[i])
Satisfied(l) == \A i \in DOMAIN l : VersionAt(l, i) => SatisfiedAt(l, i)

ConstraintsChecked ==
  status = "done" /\ Unlimited /\ ~job.ignoreVersions =>
    \A p \in Loaded :
      Satisfied(contents[p].requires) /\ Satisfied(contents[p].requiresprivate)

(* The whole command line as one list: operators and versions may be       *)
(* arguments of their own, as in  pkg-config a ">=" 1                      *)
Given[n \in 0..Len(job.args)] ==
  IF n = 0 THEN <<>> ELSE Given[n - 1] \o job.args[n]
CommandLine == Given[Len(job.args)]

(* DIRECT marks exactly the packages named on the command line: not an     *)
(* operator, not a version, nor a requirement of theirs, however the line  *)
(* is split into arguments.  --modversion and --variable print these.      *)
DirectExact ==
  status = "done" => Direct = Named(CommandLine)

(* Every constraint of the command line holds, also one spread over        *)
(* several arguments.                                                      *)
CommandLineChecked ==
  status = "done" /\ ~job.ignoreVersions => Satisfied(CommandLine)

(* The packages at most d levels below the command line's.                 *)
Within[d \in Nat] ==
  IF d <= 1 THEN Named(CommandLine)
  ELSE LET S == Within[d - 1]
       IN S \cup UNION {Named(contents[p].requires)
                          \cup Named(contents[p].requiresprivate) : p \in S \cap Loaded}

(* --maximum-traverse-depth and the non-recursive modes keep the walk      *)
(* within that many levels of the command line; what no option limits is   *)
(* limited by the stack, which has a frame for each level.                 *)
Levels == IF ~job.recursive THEN 1 ELSE IF Unlimited THEN Cap ELSE job.maxdepth
DepthBounded ==
  status = "done" => Loaded \subseteq Within[Levels]

(* A cycle costs nothing: the stack holds at most two frames per loaded    *)
(* package above the argument's own, so "exceeded max recursion depth" is  *)
(* only ever said of a set of packages that is really that large.          *)
StackWithinNeed ==
  /\ Len(stack) <= 1 + 2 * Len(order)
  /\ status = "max recursion" => 2 * Len(order) + 3 > Cap

(* Once loaded a package stays, is never loaded again (whatever spelling   *)
(* names it), keeps its place in the output order, and its flags only      *)
(* grow.                                                                   *)
NothingRevoked ==
  [][/\ \A p \in Loaded : contents'[p] = contents[p] /\ flags[p] \subseteq flags'[p]
     /\ order' = order \/ \E p \in Name \ Loaded : order' = Append(order, p)]_vars

(* Whatever the dependency graph, cyclic or not, the walk ends.            *)
Terminates == <>(status # "running")

-----------------------------------------------------------------------------
(* Why the walk is complete: the invariant behind the properties above.    *)
(* Everything a loaded package asks for is there already, or is still      *)
(* ahead in some frame of the stack.                                       *)

(* The frame reads a field of a loaded package; a public one reads the     *)
(* Requires of a PUBLIC package.                                           *)
ReadsField(f) ==
  \E p \in Loaded :
    \/ f.list = contents[p].requires /\ ("PUBLIC" \in f.flags => p \in Public)
    \/ f.list = contents[p].requiresprivate /\ f.flags = {}

(* The operator state agrees with the tokens just consumed.                *)
InStep(f) ==
  /\ f.op # NoOp => /\ VersionAt(f.list, f.pos)
                    /\ f.op = f.list[f.pos - 1]
                    /\ f.last = RealName[f.list[f.pos - 2]]
  /\ f.op = NoOp => ~VersionAt(f.list, f.pos)
  /\ f.op = NoOp /\ f.last # Null => /\ f.pos >= 2
                                     /\ f.list[f.pos - 1] \notin OpToken
                                     /\ f.last = RealName[f.list[f.pos - 1]]

(* A frame of the command line, or of a field; only the former is DIRECT.  *)
WalkFrame ==
  {f \in SoundFrame :
     \/ f.flags = Flag
     \/ "DIRECT" \notin f.flags /\ ReadsField(f) /\ InStep(f)}

(* Position i of list l is still to be read, with at least the flags fl.   *)
Pending(l, i, fl) ==
  \E k \in DOMAIN stack :
    /\ stack[k].list = l /\ stack[k].pos <= i
    /\ "DIRECT" \notin stack[k].flags /\ fl \subseteq stack[k].flags

FieldCovered(l) ==
  \A i \in DOMAIN l :
    /\ i \in PkgAt(l) => RealName[l[i]] \in Loaded \/ Pending(l, i, {})
    /\ VersionAt(l, i) /\ ~job.ignoreVersions => SatisfiedAt(l, i) \/ Pending(l, i, {})

Covered ==
  \A p \in Loaded :
    LET l == contents[p].requires
    IN /\ FieldCovered(l)
       /\ FieldCovered(contents[p].requiresprivate)
       /\ p \in Public =>
            \A i \in PkgAt(l) : RealName[l[i]] \in Public \/ Pending(l, i, {"PUBLIC"})

(* The inductive invariant.                                                *)
WalkInv ==
  /\ TypeOK
  /\ stack \in Seq(WalkFrame)
  /\ stack # <<>> => stack[1].flags = Flag
  /\ \A k \in DOMAIN stack : stack[k].depth < k
  /\ Public \cup Direct \subseteq Loaded
  /\ PublicSound
  /\ status = "done" => stack = <<>>
  /\ Unlimited /\ status \in {"running", "done"} => Covered
=============================================================================
