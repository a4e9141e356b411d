------------------------------- MODULE Expand -------------------------------
(***************************************************************************)
(* Variable expansion of pkg-config.c: expand() (lines 940-999), with      *)
(* lookup() (444-452), as expandmerge() runs it on every field of a        *)
(* package and uconfig() on a --variable.                                  *)
(*                                                                         *)
(* Instead of recursion the code keeps a stack of strings still to be      *)
(* printed.  A reference pushes what follows it and then its value, even   *)
(* when nothing follows: the depth of the stack is the depth of the        *)
(* references, and its limit is what ends a cyclic definition.             *)
(*                                                                         *)
(* Abstractions: a string is a sequence of literals (Lit), "$$" (Escape)   *)
(* and references; a reference is written as the variable's name.  A       *)
(* literal stands for text in which nothing is expanded.                   *)
(*                                                                         *)
(* Definitions marked "mutant" are no part of the model: each is a slip in *)
(* the definition below it that a property must notice.                    *)
(***************************************************************************)
EXTENDS Integers, Sequences

CONSTANTS
  Lit,      \* literals
  Dollar,   \* "$", a literal
  Escape,   \* "$$"
  Var,      \* variable names
  Undefined,\* the value of a variable that is not defined
  Cap,      \* countof(stack), 128 in the code
  Jobs      \* the strings and environments to start from

Str == Seq(Lit \cup {Escape} \cup Var)
Env == [Var -> Str \cup {Undefined}]
Job == [global : Env, env : Env, str : Str]

ASSUME ExpandAssumption ==
  /\ Cap \in Nat /\ Cap >= 3
  /\ Dollar \in Lit
  /\ Escape \notin Lit /\ Var \cap (Lit \cup {Escape}) = {}
  /\ Undefined \notin Str
  /\ Jobs \subseteq Job

VARIABLES
  job,    \* the global environment, the package's, and the string
  stack,  \* stack[0..top], bottom first
  out,    \* what has been printed
  status  \* "running", "done", or the error the program ended with

vars == <<job, stack, out, status>>

(* lookup(): --define-variable and built-in values win over the package's. *)
Lookup(j, v) == IF j.global[v] # Undefined THEN j.global[v] ELSE j.env[v]

Top == stack[Len(stack)]
Below == SubSeq(stack, 1, Len(stack) - 1)

(* The text before the first "$" that means something, and the rest.       *)
Plain(s) == \A i \in DOMAIN s : s[i] \in Lit
FirstMark(s) == CHOOSE i \in DOMAIN s : s[i] \notin Lit /\ \A k \in 1..(i - 1) : s[k] \in Lit
Before(s) == SubSeq(s, 1, FirstMark(s) - 1)
Mark(s) == s[FirstMark(s)]
AfterNothing(s) == <<>>                                \* mutant
After(s) == SubSeq(s, FirstMark(s) + 1, Len(s))

-----------------------------------------------------------------------------
PrintPlainAgain ==                                     \* mutant
  /\ status = "running" /\ stack # <<>> /\ Plain(Top)
  /\ out' = out \o Top
  /\ stack' = IF Top = <<>> THEN stack ELSE Below
  /\ UNCHANGED <<job, status>>

(* A string without references: printed whole.                             *)
PrintPlain ==
  /\ status = "running" /\ stack # <<>> /\ Plain(Top)
  /\ out' = out \o Top
  /\ stack' = Below
  /\ UNCHANGED <<job, status>>

PrintDollar ==
  /\ status = "running" /\ stack # <<>> /\ ~Plain(Top) /\ Mark(Top) = Escape
  /\ out' = out \o Append(Before(Top), Dollar)
  /\ stack' = Append(Below, After(Top))
  /\ UNCHANGED <<job, status>>

DeepEarly == Len(stack) >= Cap - 1                     \* mutant

(* The two pushes of a reference would not fit: top, one less after the    *)
(* pop, >= countof(stack)-2.                                               *)
Deep == Len(stack) >= Cap

(* A reference.  The limit is tested before anything is printed, the       *)
(* variable is looked up after.                                            *)
Refer ==
  /\ status = "running" /\ stack # <<>> /\ ~Plain(Top) /\ Mark(Top) \in Var
  /\ IF Deep
     THEN status' = "max recursion" /\ UNCHANGED <<out, stack>>
     ELSE LET value == Lookup(job, Mark(Top))
          IN /\ out' = out \o Before(Top)
             /\ IF value = Undefined
                THEN status' = "undefined variable" /\ UNCHANGED stack
                ELSE /\ stack' = Below \o <<After(Top), value>>
                     /\ UNCHANGED status
  /\ UNCHANGED job

Return ==
  /\ status = "running" /\ stack = <<>>
  /\ status' = "done"
  /\ UNCHANGED <<job, stack, out>>

-----------------------------------------------------------------------------
Init ==
  /\ job \in Jobs
  /\ stack = <<job.str>>
  /\ out = <<>>
  /\ status = "running"

Next == PrintPlain \/ PrintDollar \/ Refer \/ Return

Spec == Init /\ [][Next]_vars
FairSpec == Spec /\ WF_vars(Next)   \* sequential code, always running

-----------------------------------------------------------------------------
(* What a string refers to.                                                *)

Refs(s) == {s[i] : i \in DOMAIN s} \cap Var
ValueRefs(v) == IF Lookup(job, v) = Undefined THEN {} ELSE Refs(Lookup(job, v))

(* The variables at the end of a chain of n + 1 references from the        *)
(* string.                                                                 *)
RefsAt ==
  LET At[n \in Nat] == IF n = 0 THEN Refs(job.str)
                       ELSE UNION {ValueRefs(v) : v \in At[n - 1]}
  IN At

-----------------------------------------------------------------------------
(* The text a string stands for, written the way recursion would compute   *)
(* it: all of it (whole), or as far as the first reference that cannot be  *)
(* followed.                                                               *)
Texts == [text : Seq(Lit), whole : BOOLEAN]
Whole(t) == [text |-> t, whole |-> TRUE]
Cut == [text |-> <<>>, whole |-> FALSE]

Join(a, b) == IF a.whole THEN [text |-> a.text \o b.text, whole |-> b.whole] ELSE a

Joined(texts) ==
  LET UpTo[i \in 0..Len(texts)] ==
        IF i = 0 THEN Whole(<<>>) ELSE Join(UpTo[i - 1], texts[i])
  IN UpTo[Len(texts)]

PartText(p, of) ==
  CASE p \in Lit -> Whole(<<p>>)
    [] p = Escape -> Whole(<<Dollar>>)
    [] OTHER -> IF Lookup(job, p) = Undefined THEN Cut ELSE of[Lookup(job, p)]

(* The text of a string with n levels of strings allowed, its own counted. *)
Expansion ==
  LET Of[n \in Nat] ==
        [s \in Str |-> IF n = 0 THEN Cut
                       ELSE Joined([i \in 1..Len(s) |-> PartText(s[i], Of[n - 1])])]
  IN Of

(* What the stack stands for, read from its top.                           *)
Remaining ==
  LET L == Len(stack)
  IN Joined([k \in 1..L |-> Expansion[Cap - L + k][stack[L + 1 - k]]])

-----------------------------------------------------------------------------
(* The limit is on the nesting of references and on nothing else: a string *)
(* is refused only when Cap references are nested in each other, however   *)
(* many there are one after the other, and accepted only when no such      *)
(* nesting exists.  In particular a cyclic definition that is met is       *)
(* always refused.  The stack array is never overrun.                      *)
LimitExact ==
  /\ status = "max recursion" => RefsAt[Cap - 1] # {}
  /\ status = "done" => RefsAt[Cap - 1] = {}
  /\ Len(stack) <= Cap

(* The loop over the stack prints what recursion would: at every moment    *)
(* what has been printed and what the stack still stands for make up the   *)
(* text of the string, so a finished expansion is exactly that text.  A    *)
(* failing one has printed all text in front of the offending reference,   *)
(* except that of the string the limit was met in.                         *)
OutputPreserved ==
  LET text == Expansion[Cap][job.str]
  IN /\ status = "running" => text = Join(Whole(out), Remaining)
     /\ status = "done" => text = Whole(out)
     /\ status = "undefined variable" => text = [text |-> out, whole |-> FALSE]
     /\ status = "max recursion" => text = [text |-> out \o Before(Top), whole |-> FALSE]

(* Values that refer to each other do not keep the program running.        *)
Terminates == <>(status # "running")
=============================================================================
