---------------------------- MODULE MCSymbolFilter ----------------------------
(***************************************************************************)
(* Small instances of SymbolFilter.                                        *)
(***************************************************************************)
EXTENDS SymbolFilter

-----------------------------------------------------------------------------
SeqsUpTo(S, n) == UNION {[1..m -> S] : m \in 0..n}

Symbol(s) == [kind |-> "symbol", sym |-> s]
Option(k) == [kind |-> k, sym |-> <<>>]

(* All short inputs, a symbol that comes back, and one that is too long.   *)
Inputs ==
  SeqsUpTo({"?", "@", "a", " "}, 5)
    \cup {<<"?", "@", " ", "?", "@", " ", "?", "@">>,
          <<"?", "a", "@", "a", "?", "@", " ", "?", "a", "@">>}

(* Symbols that come back, with and without an answer, and too long ones.  *)
SymbolLines ==
  {<<Option("--"), Symbol(s), Symbol(t), Symbol(s)>> :
     s \in {<<"a">>, <<"?", "@", "a", "a">>}, t \in {<<"?", "a", "a", "@", "@">>, <<>>}}
SmallJobs ==
  [argv : {<<>>, <<Option("letters"), Option("--")>>}, input : Inputs]
    \cup [argv : SymbolLines \cup {<<Option("letters"), Symbol(<<"?">>)>>,
                                   <<Option("letters"), Option("help")>>,
                                   <<Option("unknown")>>},
          input : {<<>>}]
=============================================================================
