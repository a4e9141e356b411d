---------------------------- MODULE MCSearchPath ----------------------------
(***************************************************************************)
(* Small instances of SearchPath.                                          *)
(***************************************************************************)
EXTENDS SearchPath

SeqsUpTo(S, n) == UNION {[1..m -> S] : m \in 0..n}

HasDir(path) == \E i \in DOMAIN path : path[i] # Empty

(* Paths of up to two components, with repeated directories and stray      *)
(* delimiters, and a file system of every kind.                            *)
Unset == [set |-> FALSE, value |-> <<>>]
Set(path) == [set |-> TRUE, value |-> path]
MCDefaultPath == <<"d2", "d3">>

SmallPath == SeqsUpTo({"d1", "d2", Empty}, 2)
SpliceJobs ==
  [envpath : {Unset} \cup {Set(p) : p \in SmallPath},
   libdir : {Unset, Set(<<>>), Set(<<"d1">>), Set(<<"d2">>)},
   withpaths : SeqsUpTo({p \in SmallPath : HasDir(p)}, 2),
   isPath : BOOLEAN, disk : {[d \in Dir \cup {Itself} |-> "ok"]}]

(* Every file system below a few search lists, one of which is never       *)
(* finished.                                                               *)
DiskJobs ==
  [envpath : {Unset, Set(<<"d1", Empty, "d2">>)},
   libdir : {Unset, Set(<<>>), Set(<<"d3">>), Set(<<"d2", "d1">>)},
   withpaths : {<<>>, <<<<"d2">>>>, <<<<"d1", "d3">>, <<Empty, "d2">>>>, <<<<Empty>>>>},
   isPath : BOOLEAN, disk : [Dir \cup {Itself} -> Outcome]]

AllJobs == SpliceJobs \cup DiskJobs

(* --with-path values that name no directory.                              *)
BlankJobs ==
  [envpath : {Unset, Set(<<"d1">>)}, libdir : {Set(<<"d2">>)},
   withpaths : SeqsUpTo(SeqsUpTo({Empty, "d1"}, 1), 2),
   isPath : BOOLEAN, disk : [Dir \cup {Itself} -> Outcome]]
=============================================================================
