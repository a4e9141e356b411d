------------------------------ MODULE MCArgList ------------------------------
(***************************************************************************)
(* Small instances of ArgList, and the words that matter in them.          *)
(***************************************************************************)
EXTENDS ArgList

SeqsUpTo(S, n) == UNION {[1..m -> S] : m \in 0..n}

(* -L and -I are the bare options, whose argument is a word of its own.    *)
MCArg == {"-Ia", "-I", "-La", "-Lsys", "-lx", "-ly", "-Wl"}
MCKind == [a \in MCArg |-> CASE a \in {"-Ia", "-I"} -> "I" [] a \in {"-La", "-Lsys"} -> "L"
                             [] a \in {"-lx", "-ly"} -> "l" [] OTHER -> "other"]
MCDedupable == MCArg \ {"-I", "-Wl"}

(* One writer with up to five words of the kinds that matter to --libs.    *)
LinkWords == {"-La", "-Lsys", "-lx", "-ly", "-Wl"}
LinkJobs ==
  {<<[filter |-> f, system |-> s, words |-> l]>> :
     f \in {"ANY", "OTHERL", "l"}, s \in {<<>>, <<"-Lsys">>}, l \in SeqsUpTo(LinkWords, 5)}

(* Both writers, every filter, and unmatched quotes.                       *)
CflagsWriter ==
  [filter : {"ANY", "I", "OTHERC"}, system : {<<>>, <<"-Ia">>},
   words : SeqsUpTo({"-Ia", "-I", "-Wl", Unmatched}, 2)]
LibsWriter ==
  [filter : {"ANY", "L", "l", "OTHERL"}, system : {<<"-Lsys">>},
   words : SeqsUpTo({"-Lsys", "-La", "-lx"}, 3) \cup {<<"-La", Unmatched>>}]
BothJobs ==
  {<<>>} \cup {<<c>> : c \in CflagsWriter} \cup {<<c, l>> : c \in CflagsWriter, l \in LibsWriter}

AllJobs == LinkJobs \cup BothJobs
=============================================================================
