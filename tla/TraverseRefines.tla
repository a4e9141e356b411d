-------------------------- MODULE TraverseRefines ---------------------------
(***************************************************************************)
(* The walk of process() implements Resolution.                            *)
(***************************************************************************)
EXTENDS Traverse

(* What a package is known to require: nothing until it is loaded.         *)
KnownRequires ==
  [p \in Name |-> IF contents[p] = Null THEN {} ELSE Named(contents[p].requires)]
KnownPrivate ==
  [p \in Name |-> IF contents[p] = Null THEN {} ELSE Named(contents[p].requiresprivate)]

Verdict == CASE status = "running" -> "open"
             [] status = "done" -> "accepted"
             [] OTHER -> "refused"

Limited == IF Unlimited THEN FALSE ELSE TRUE

R == INSTANCE Resolution WITH
       Package <- Name,
       requires <- KnownRequires,
       private <- KnownPrivate,
       loaded <- Loaded,
       roots <- Direct,
       public <- Public,
       limited <- Limited,
       verdict <- Verdict

(* The explicit-stack walk resolves dependencies: every step of process()  *)
(* either changes nothing a user can see or is justified by what is known  *)
(* so far, and it never accepts a resolution that misses something.        *)
Resolves == R!Spec
=============================================================================
