------------------------------ MODULE MCDriver ------------------------------
(***************************************************************************)
(* Small instances of Driver, run by themselves and by an alias.           *)
(***************************************************************************)
EXTENDS Launch

SeqsUpTo(S, n) == UNION {[1..m -> S] : m \in 0..n}
Word(name) == [name |-> name, attached |-> FALSE]
Words == {w \in Argument : w.name # DashDash /\ (w.attached => w.name \in Valued)}
Line(names) == [i \in DOMAIN names |-> Word(names[i])]

(* A last "--" is left to the run about it.                                *)
Lines ==
  {l \o t : l \in SeqsUpTo(Words, 2), t \in {<<>>, Line(<<Package>>)}}
    \cup {Line(<<"--errors-to-stdout", "--modversion", "--variable", Package, "--cflags",
                 "--libs", Package>>),
          Line(<<"--libs", "--cflags", DashDash, "--exists">>),
          Line(<<"--modversion", DashDash, DashDash, Unknown>>)}

CommandJobs == [args : Lines, fault : Fault]

DashDashJobs == [args : {l \o Line(<<DashDash>>) : l \in SeqsUpTo(Words, 1)}, fault : {"none"}]

(* Ctrl-C is pressed once at most, in some command lines three times.      *)
SomePresses ==
  [j \in CommandJobs \cup DashDashJobs |->
     IF Len(j.args) > 3 \/ \A k \in DOMAIN j.args : j.args[k].name = Package THEN 3 ELSE 1]
=============================================================================
