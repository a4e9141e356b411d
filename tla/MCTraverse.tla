----------------------------- MODULE MCTraverse -----------------------------
(***************************************************************************)
(* Small instances of Traverse, and the properties that need a recursive   *)
(* reference definition of what the explicit stack computes.               *)
(***************************************************************************)
EXTENDS TraverseRefines, SequencesExt

-----------------------------------------------------------------------------
(* Reference definitions.                                                  *)

(* The recursive walk: a package is listed when first met, then comes      *)
(* everything its Requires leads to, then its Requires.private.  The       *)
(* promotion of an already listed package loads nothing new.               *)
RECURSIVE Preorder(_, _)
Preorder(names, seen) ==
  IF names = <<>> THEN seen
  ELSE LET p == Head(names)
           NamesOf(l) == SelectSeq([i \in DOMAIN l |-> IF i \in PkgAt(l) THEN RealName[l[i]]
                                                       ELSE Null],
                                   LAMBDA n : n # Null)
       IN IF p \in ToSet(seen) THEN Preorder(Tail(names), seen)
          ELSE Preorder(Tail(names),
                        Preorder(NamesOf(contents[p].requiresprivate),
                                 Preorder(NamesOf(contents[p].requires),
                                          Append(seen, p))))

(* The packages, and with them the flags of --cflags and --libs, come out  *)
(* in the depth-first order of the declarations.                           *)
LoadOrderIsPreorder ==
  status = "done" /\ Unlimited =>
    LET cl == CommandLine
    IN order = Preorder(SelectSeq([i \in DOMAIN cl |-> IF i \in PkgAt(cl) THEN RealName[cl[i]]
                                                       ELSE Null],
                                  LAMBDA n : n # Null), <<>>)

-----------------------------------------------------------------------------
(* Instances.                                                              *)

SeqsUpTo(S, n) == UNION {[1..m -> S] : m \in 0..n}

(* Three packages with every graph of up to two public and one private     *)
(* requirement each.                                                       *)
GraphToken == {"a", "b", "c"}
GraphName == [t \in GraphToken |-> t]
GraphRank == [t \in GraphToken |-> 0]
AtMostOne == SeqsUpTo(GraphToken, 1)
AtMostTwo == AtMostOne \cup {<<"b", "a">>, <<"c", "b">>, <<"a", "c">>}
GraphFiles == [version : {"a"}, requires : AtMostTwo, requiresprivate : AtMostOne]
SparseFiles == [version : {"a"}, requires : AtMostOne, requiresprivate : AtMostOne]
GraphJobs ==
  [args : {<< <<"a">> >>, << <<"a">>, <<"b">> >>},
   files : [GraphToken -> GraphFiles], recursive : {TRUE}, maxdepth : {100},
   ignoreVersions : {FALSE}]

(* The traversal limits, and a package named in two ways: x/b.pc is filed  *)
(* under the realname b, and whichever spelling comes first is loaded.     *)
Package == {"a", "b", "c", "x/b.pc"}
MixedToken == Package \cup {"d"} \cup OpToken \cup {"1", "2"}
MixedName == [t \in MixedToken |-> IF t = "x/b.pc" THEN "b" ELSE t]
MixedRank == [t \in MixedToken |-> CASE t = "1" -> 1 [] t = "2" -> 2 [] OTHER -> 0]
LimitFiles ==
  [version : {"1"}, requires : SeqsUpTo(Package, 1),
   requiresprivate : {<<>>, <<"b">>, <<"c">>}]
LimitLeaf == [version : {"2"}, requires : {<<>>, <<"a">>}, requiresprivate : {<<>>}]
LimitDisk ==
  {[t \in MixedToken |-> CASE t = "a" -> f [] t = "b" -> g [] t = "c" -> h
                          [] t = "x/b.pc" -> x [] OTHER -> NoPackage] :
     f \in LimitFiles, g \in LimitFiles, h \in LimitLeaf \cup {NoPackage}, x \in LimitLeaf}
LimitArgs == {<< <<"a">> >>, << <<"b", "a">> >>, << <<"a">>, <<"x/b.pc">> >>}
LimitJobs ==
  [args : LimitArgs, files : LimitDisk, recursive : {TRUE}, maxdepth : {1, 2, 3, 100},
   ignoreVersions : {FALSE}]
    \cup [args : LimitArgs, files : LimitDisk, recursive : {FALSE}, maxdepth : {100},
          ignoreVersions : {TRUE}]

(* A chain that fills the stack just where c, which d has loaded           *)
(* privately, would be walked again.                                       *)
ChainDisk ==
  LET Pkg(pub, priv) == [version |-> "1", requires |-> pub, requiresprivate |-> priv]
  IN {[t \in MixedToken |->
         CASE t = "a" -> Pkg(<<"b">>, <<>>) [] t = "b" -> Pkg(<<"c">>, <<>>)
           [] t = "c" -> Pkg(pub, <<>>) [] t = "d" -> Pkg(<<>>, priv) [] OTHER -> NoPackage] :
        pub \in {<<>>, <<"d">>, <<"a">>}, priv \in {<<"c">>, <<"b">>}}
ChainJobs ==
  [args : {<< <<"d">>, <<"a">> >>, << <<"d", "a">> >>}, files : ChainDisk,
   recursive : {TRUE}, maxdepth : {2, 3, 4, 100}, ignoreVersions : {FALSE}]

(* Version constraints, well formed or not, in one argument or spread over *)
(* several, with the options that skip them.                               *)
OneByOne(l) == [i \in DOMAIN l |-> <<l[i]>>]
VersionArgs ==
  SeqsUpTo({"a", ">=", "2"}, 3)
    \cup {<<"b", "a", ">=", "2">>, <<"a", "<=", "1", "b">>, <<"a", ">", "1", "b">>,
          <<"b", "<", "2", "a", ">=">>}
VersionDisk ==
  {[t \in MixedToken |-> CASE t = "a" -> f [] t = "b" -> g [] OTHER -> NoPackage] :
     f \in [version : {"1", "2"},
            requires : SeqsUpTo({"b", "<", "2"}, 3),
            requiresprivate : {<<>>, <<"b", "=", "1">>}],
     g \in [version : {"1"}, requires : {<<>>, <<"a", "<=", "1">>, <<"a", "=">>},
            requiresprivate : {<<>>}]}
VersionJobs ==
  [args : {<<m>> : m \in VersionArgs} \cup {OneByOne(m) : m \in VersionArgs},
   files : VersionDisk, recursive : {TRUE}, maxdepth : {100}, ignoreVersions : BOOLEAN]

MixedJobs == LimitJobs \cup ChainJobs \cup VersionJobs
=============================================================================
