------------------------------- MODULE HashTrie -------------------------------
(***************************************************************************)
(* The four-way hash tries of pkg-config.c: variables (insert(), lines     *)
(* 415-439), packages (locate(), 552-568) and the positions of words       *)
(* (findargpos(), 1559-1576), and the call cache of vc++filt.c (upsert(),  *)
(* 299-313).  The other modules use functions in their place.              *)
(*                                                                         *)
(* A node is found by following two bits of the hash at each level; once   *)
(* they are used up h is 0 and the walk goes on along the first children.  *)
(*                                                                         *)
(* Abstractions: a key is its hash, a sequence of two-bit digits, and an   *)
(* id that tells it from other keys with that hash.  A trie is a function  *)
(* from places, which are sequences of digits, to nodes.                   *)
(*                                                                         *)
(* Definitions marked "mutant" are no part of the model: each is a slip in *)
(* the definition below it that a property must notice.                    *)
(***************************************************************************)
EXTENDS Integers, FiniteSets, Sequences

Empty == [nodes |-> <<>>, list |-> <<>>]

(* Where the walk for a key is after n steps.                              *)
Digit(key, n) == IF n <= Len(key.hash) THEN key.hash[n] ELSE 0
Place(key, n) == [i \in 1..n |-> Digit(key, i)]

IsKeyByHash(node, key) == node.key.hash = key.hash     \* mutant

(* s8equals() on the whole key.                                            *)
IsKey(node, key) == node.key = key

(* The walk: past every node of another key, up to that of the key or to   *)
(* a place without a node.                                                 *)
Slot(trie, key) ==
  LET Passes(n) == /\ Place(key, n) \in DOMAIN trie.nodes
                   /\ ~IsKey(trie.nodes[Place(key, n)], key)
      steps == CHOOSE n \in 0..Cardinality(DOMAIN trie.nodes) :
                 ~Passes(n) /\ \A m \in 0..(n - 1) : Passes(m)
  IN Place(key, steps)

Found(trie, key) == Slot(trie, key) \in DOMAIN trie.nodes

(* With an arena the key gets a node, which also ends the list of locate().*)
Insert(trie, key) ==
  LET slot == Slot(trie, key)
      new == [key |-> key, value |-> 0]
  IN IF Found(trie, key) THEN trie
     ELSE [nodes |-> [place \in DOMAIN trie.nodes \cup {slot} |->
                        IF place = slot THEN new ELSE trie.nodes[place]],
           list |-> Append(trie.list, slot)]

(* *insert(e, name, perm) = value                                          *)
Bind(trie, key, value) ==
  LET with == Insert(trie, key)
  IN [with EXCEPT !.nodes[Slot(with, key)].value = value]

(* Without an arena: the value, or no binding.                             *)
Unbound == -1
Value(trie, key) == IF Found(trie, key) THEN trie.nodes[Slot(trie, key)].value ELSE Unbound
=============================================================================
