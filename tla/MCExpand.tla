------------------------------ MODULE MCExpand ------------------------------
(***************************************************************************)
(* Small instances of Expand: two variables with every value of up to two  *)
(* parts.                                                                  *)
(***************************************************************************)
EXTENDS Expand

SeqsUpTo(S, n) == UNION {[1..m -> S] : m \in 0..n}
SmallStr == SeqsUpTo({"l", Escape, "x", "y"}, 2)
NoEnv == [v \in Var |-> Undefined]
SmallJobs ==
  [global : {NoEnv, [NoEnv EXCEPT !["x"] = <<"g">>]},
   env : [Var -> SeqsUpTo({"l", "x", "y"}, 2) \cup {Undefined}], str : SmallStr]
=============================================================================
