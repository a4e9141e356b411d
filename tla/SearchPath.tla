----------------------------- MODULE SearchPath -----------------------------
(***************************************************************************)
(* Where pkg-config.c looks for a package: s8list and search (lines        *)
(* 827-906), their use in newprocessor() and by --with-path, and the       *)
(* lookup in findpackage() (1016-1047) with readpackage() (908-938); and   *)
(* what the environment has to do with it (2417-2443, 2539-2546).          *)
(*                                                                         *)
(* The directories form a linked list that is appended to through a tail   *)
(* pointer and, once for every --with-path, has a second list spliced in   *)
(* front of it.                                                            *)
(*                                                                         *)
(* Abstractions: a directory is an atom, a path the sequence of what its   *)
(* delimiters separate, and a file the outcome of os_mapfile().  The       *)
(* package called pkg-config, which readpackage() makes up, exists in      *)
(* every directory.                                                        *)
(*                                                                         *)
(* Definitions marked "mutant" are no part of the model: each is a slip in *)
(* the definition below it that a property must notice.                    *)
(***************************************************************************)
EXTENDS Integers, Sequences

CONSTANTS
  Dir,    \* the directories that occur in search paths
  Empty,  \* an empty path component
  Itself, \* stands for the path given by the user, as opposed to a Dir
  DefaultPath, \* lib/pkgconfig and share/pkgconfig of the installation
  Jobs    \* the search paths, options and file systems to start from

Path == Seq(Dir \cup {Empty})
Outcome == {"notfound", "readerr", "ok"}

(* One run: PKG_CONFIG_PATH and PKG_CONFIG_LIBDIR, which may be set or not,*)
(* the --with-path values, and a package name that may end in ".pc", with  *)
(* what the file system says of it in every directory and (Itself) at its  *)
(* own path.                                                               *)
Variable == [set : BOOLEAN, value : Path]
Job == [envpath : Variable, libdir : Variable, withpaths : Seq(Path),
        isPath : BOOLEAN, disk : [Dir \cup {Itself} -> Outcome]]

ASSUME SearchPathAssumption ==
  /\ Empty \notin Dir /\ Itself \notin Dir
  /\ DefaultPath \in Path
  /\ Jobs \subseteq Job

Null == 0

VARIABLES
  job,     \* the run
  todo,    \* paths not yet added to the search list
  rest,    \* components of the current path not yet added
  nodes,   \* the s8nodes allocated so far, a pointer to one is its index
  dirs,    \* proc->search.list
  temp,    \* the list a prepended path is collected in
  target,  \* the list components are appended to, "none" between two paths
  node,    \* the cursor of findpackage()
  origin,  \* where the package was found
  status

vars == <<job, todo, rest, nodes, dirs, temp, target, node, origin, status>>

NewList == [head |-> Null, tail |-> Null]

(* fromenv_() tells a variable set to an empty text from one that is not   *)
(* set, and only the second gives PKG_CONFIG_LIBDIR its default.           *)
FromEnv(v, default) == IF v.set THEN v.value ELSE default

FixedPath(j) == FromEnv(j.libdir, DefaultPath)

(* The two paths of newprocessor() and then every --with-path.             *)
Paths(j) ==
  <<[how |-> "append", path |-> FromEnv(j.envpath, <<>>)],
    [how |-> "append", path |-> FixedPath(j)]>>
    \o [i \in DOMAIN j.withpaths |-> [how |-> "prepend", path |-> j.withpaths[i]]]

-----------------------------------------------------------------------------
(* Building the list.                                                      *)

BeginAppend ==
  /\ status = "building" /\ target = "none" /\ todo # <<>>
  /\ Head(todo).how = "append" \/ dirs.head = Null
  /\ rest' = Head(todo).path
  /\ todo' = Tail(todo)
  /\ target' = "dirs"
  /\ UNCHANGED <<job, nodes, dirs, temp, node, origin, status>>

BeginPrepend ==
  /\ status = "building" /\ target = "none" /\ todo # <<>>
  /\ Head(todo).how = "prepend" /\ dirs.head # Null
  /\ rest' = Head(todo).path
  /\ todo' = Tail(todo)
  /\ temp' = NewList
  /\ target' = "temp"
  /\ UNCHANGED <<job, nodes, dirs, node, origin, status>>

(* One round of the loop of appendpath().                                  *)
SkipEmpty ==
  /\ status = "building" /\ rest # <<>> /\ Head(rest) = Empty
  /\ rest' = Tail(rest)
  /\ UNCHANGED <<job, todo, nodes, dirs, temp, target, node, origin, status>>

(* append(): the new node is stored through the tail pointer, which is set *)
(* to the head of a list still empty.  A tail is modelled by the node it   *)
(* points into.                                                            *)
Appended(list, new) ==
  [head |-> IF list.tail = Null THEN new ELSE list.head, tail |-> new]

Linked(list, new, str) ==
  Append([i \in DOMAIN nodes |-> IF i = list.tail THEN [nodes[i] EXCEPT !.next = new]
                                 ELSE nodes[i]],
         [str |-> str, next |-> Null])

AppendDir ==
  LET new == Len(nodes) + 1
      list == IF target = "dirs" THEN dirs ELSE temp
  IN /\ status = "building" /\ rest # <<>> /\ Head(rest) # Empty
     /\ nodes' = Linked(list, new, Head(rest))
     /\ IF target = "dirs"
        THEN dirs' = Appended(dirs, new) /\ UNCHANGED temp
        ELSE temp' = Appended(temp, new) /\ UNCHANGED dirs
     /\ rest' = Tail(rest)
     /\ UNCHANGED <<job, todo, target, node, origin, status>>

EndAppend ==
  /\ status = "building" /\ target = "dirs" /\ rest = <<>>
  /\ target' = "none"
  /\ UNCHANGED <<job, todo, rest, nodes, dirs, temp, node, origin, status>>

TransplantTail ==                                      \* mutant
  /\ status = "building" /\ target = "temp" /\ rest = <<>> /\ temp.tail # Null
  /\ nodes' = [nodes EXCEPT ![temp.tail].next = dirs.head]
  /\ dirs' = temp
  /\ target' = "none"
  /\ UNCHANGED <<job, todo, rest, temp, node, origin, status>>

(* *temp.list.tail = dirs->list.head.  The tail pointer of a list nothing  *)
(* was appended to is still null, and the store through it faults.         *)
Transplant ==
  /\ status = "building" /\ target = "temp" /\ rest = <<>>
  /\ IF temp.tail = Null
     THEN /\ status' = "null store"
          /\ UNCHANGED <<nodes, dirs>>
     ELSE /\ nodes' = [nodes EXCEPT ![temp.tail].next = dirs.head]
          /\ dirs' = [dirs EXCEPT !.head = temp.head]
          /\ UNCHANGED status
  /\ target' = "none"
  /\ UNCHANGED <<job, todo, rest, temp, node, origin>>

-----------------------------------------------------------------------------
(* Looking a package up.                                                   *)

ReadOn(place, elsewhere) ==                            \* mutant
  IF job.disk[place] = "ok" THEN status' = "found" /\ origin' = place
  ELSE status' = elsewhere /\ UNCHANGED origin

(* readpackage() at one place: found, go on elsewhere, or give up.         *)
Read(place, elsewhere) ==
  CASE job.disk[place] = "ok"       -> status' = "found" /\ origin' = place
    [] job.disk[place] = "readerr"  -> status' = "read error" /\ origin' = place
    [] job.disk[place] = "notfound" -> status' = elsewhere /\ UNCHANGED origin

BeginLookup ==
  /\ status = "building" /\ target = "none" /\ todo = <<>>
  /\ node' = dirs.head
  /\ IF job.isPath THEN Read(Itself, "searching")
                   ELSE status' = "searching" /\ UNCHANGED origin
  /\ UNCHANGED <<job, todo, rest, nodes, dirs, temp, target>>

TryDir ==
  /\ status = "searching" /\ node # Null
  /\ Read(nodes[node].str, "searching")
  /\ node' = nodes[node].next
  /\ UNCHANGED <<job, todo, rest, nodes, dirs, temp, target>>

NotFound ==
  /\ status = "searching" /\ node = Null
  /\ status' = "not found"
  /\ UNCHANGED <<job, todo, rest, nodes, dirs, temp, target, node, origin>>

-----------------------------------------------------------------------------
Init ==
  /\ job \in Jobs
  /\ todo = Paths(job)
  /\ rest = <<>>
  /\ nodes = <<>>
  /\ dirs = NewList
  /\ temp = NewList
  /\ target = "none"
  /\ node = Null
  /\ origin = Empty
  /\ status = "building"

Next ==
  \/ BeginAppend
  \/ BeginPrepend
  \/ SkipEmpty
  \/ AppendDir
  \/ EndAppend
  \/ Transplant
  \/ BeginLookup
  \/ TryDir
  \/ NotFound

Spec == Init /\ [][Next]_vars

-----------------------------------------------------------------------------
(* What the linked list stands for.                                        *)

Added == Len(Paths(job)) - Len(todo)    \* paths added, or being added

(* The directories among the first components of a path.                   *)
Named(path) ==
  LET Of[n \in 0..Len(path)] ==
        IF n = 0 THEN <<>>
        ELSE IF path[n] = Empty THEN Of[n - 1] ELSE Append(Of[n - 1], path[n])
  IN Of

(* The search order after n paths: the last --with-path first, then        *)
(* PKG_CONFIG_PATH, then the fixed path.                                   *)
Precedence(j) ==
  LET paths == Paths(j)
      All(n) == Named(paths[n].path)[Len(paths[n].path)]
      After[n \in 0..Len(paths)] ==
        IF n = 0 THEN <<>>
        ELSE IF paths[n].how = "append" THEN After[n - 1] \o All(n)
        ELSE All(n) \o After[n - 1]
  IN After

(* The i-th node from the head of a list, Null past its end.               *)
Nth(list) ==
  LET At[i \in Nat \ {0}] ==
        IF i = 1 THEN list.head
        ELSE IF At[i - 1] = Null THEN Null ELSE nodes[At[i - 1]].next
  IN At

(* The list holds exactly the directories of s, in order; its tail pointer *)
(* is the last node.                                                       *)
Holds(list, s) ==
  LET at == Nth(list)
  IN /\ \A i \in 1..Len(s) : at[i] # Null /\ nodes[at[i]].str = s[i]
     /\ at[Len(s) + 1] = Null
     /\ list.tail = IF s = <<>> THEN Null ELSE at[Len(s)]

-----------------------------------------------------------------------------
(* Types; a pointer is Null or points to an allocated node.                *)
List == [head : 0..Len(nodes), tail : 0..Len(nodes)]

TypeOK ==
  /\ job \in Job
  /\ todo \in Seq([how : {"append", "prepend"}, path : Path])
  /\ rest \in Path
  /\ nodes \in Seq([str : Dir, next : 0..Len(nodes)])
  /\ dirs \in List /\ temp \in List
  /\ target \in {"none", "dirs", "temp"}
  /\ node \in 0..Len(nodes)
  /\ origin \in Dir \cup {Itself, Empty}
  /\ status \in {"building", "searching", "found", "not found", "read error", "null store"}

(* The linked list is the search order of the paths added so far, however  *)
(* many lists were spliced in front of it, and its tail still ends it, so  *)
(* that appending to it later is possible.  While a path is collected the  *)
(* list in use and the one still being built share no node.                *)
ListIsPrecedence ==
  status # "null store" =>
    CASE target = "none" -> Holds(dirs, Precedence(job)[Added])
      [] target = "temp" ->
           LET path == Paths(job)[Added].path
           IN /\ Holds(dirs, Precedence(job)[Added - 1])
              /\ Holds(temp, Named(path)[Len(path) - Len(rest)])
      [] OTHER -> TRUE

(* All of the state of the list: its types and its meaning between any two *)
(* steps of appending, splicing and searching.                             *)
SearchInv == TypeOK /\ ListIsPrecedence

(* The package comes from the first place that has it, where the path      *)
(* given by the user goes first and the directories follow in the order of *)
(* precedence; a file that cannot be read is an error there and is never   *)
(* passed over for one further down; and not finding it means that no      *)
(* place has it.  PKG_CONFIG_LIBDIR "or default" (line 35): when it is set,*)
(* even to nothing, no default directory is looked in.                     *)
LookupExact ==
  LET all == (IF job.isPath THEN <<Itself>> ELSE <<>>) \o Precedence(job)[Len(Paths(job))]
      First(outcome) ==
        \E i \in DOMAIN all : /\ origin = all[i] /\ job.disk[all[i]] = outcome
                              /\ \A k \in 1..(i - 1) : job.disk[all[k]] = "notfound"
  IN /\ status = "found" => First("ok")
     /\ status = "read error" => First("readerr")
     /\ status = "not found" => \A i \in DOMAIN all : job.disk[all[i]] = "notfound"
     /\ status = "found" /\ job.libdir.set =>
          \/ origin = Itself
          \/ \E path \in {job.withpaths[i] : i \in DOMAIN job.withpaths}
                           \cup {job.envpath.value, job.libdir.value} :
               \E i \in DOMAIN path : path[i] = origin

(* What prependpath() says of itself (line 879): it appends to an empty    *)
(* search and transplants that in front, for any path.                     *)
Transplants == status # "null store"
=============================================================================
