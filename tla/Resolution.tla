----------------------------- MODULE Resolution -----------------------------
(***************************************************************************)
(* What dependency resolution promises, whatever walks the graph: packages *)
(* are loaded only when something needs them, are public only when the     *)
(* user named them or a public package requires them, and a resolution     *)
(* that was not limited is accepted only when nothing is missing.          *)
(* Traverse implements this specification.                                 *)
(***************************************************************************)
EXTENDS Naturals

CONSTANT Package

VARIABLES
  requires,  \* [Package -> the packages it requires publicly], {} until loaded
  private,   \* [Package -> the packages it requires privately], {} until loaded
  loaded,    \* the packages known
  roots,     \* the packages the user named
  public,    \* the packages a dynamic link needs
  limited,   \* the user asked for a partial resolution
  verdict    \* "open", "accepted" or "refused"

vars == <<requires, private, loaded, roots, public, limited, verdict>>

NeededPublicly(p) == \E q \in public : p \in requires[q]
Needed(p) == \E q \in loaded : p \in requires[q] \cup private[q]

(* A new package turns up with its requirements.                           *)
Learn(p) ==
  /\ verdict = "open" /\ p \notin loaded
  /\ loaded' = loaded \cup {p}
  /\ \E R, S \in SUBSET Package : /\ requires' = [requires EXCEPT ![p] = R]
                                  /\ private' = [private EXCEPT ![p] = S]

LoadRoot(p) ==
  /\ Learn(p)
  /\ roots' = roots \cup {p}
  /\ public' = public \cup {p}
  /\ UNCHANGED <<limited, verdict>>

LoadPublic(p) ==
  /\ Learn(p) /\ NeededPublicly(p)
  /\ public' = public \cup {p}
  /\ UNCHANGED <<roots, limited, verdict>>

LoadPrivate(p) ==
  /\ Learn(p) /\ Needed(p)
  /\ UNCHANGED <<roots, public, limited, verdict>>

(* A package known already gets a new role.                                *)
MakeRoot(p) ==
  /\ verdict = "open" /\ p \in loaded \ roots
  /\ roots' = roots \cup {p}
  /\ public' = public \cup {p}
  /\ UNCHANGED <<requires, private, loaded, limited, verdict>>

MakePublic(p) ==
  /\ verdict = "open" /\ p \in loaded \ public /\ NeededPublicly(p)
  /\ public' = public \cup {p}
  /\ UNCHANGED <<requires, private, loaded, roots, limited, verdict>>

Accept ==
  /\ verdict = "open"
  /\ roots # {}
  /\ limited \/ \A p \in Package : /\ Needed(p) => p \in loaded
                                   /\ NeededPublicly(p) => p \in public
  /\ verdict' = "accepted"
  /\ UNCHANGED <<requires, private, loaded, roots, public, limited>>

Refuse ==
  /\ verdict = "open"
  /\ verdict' = "refused"
  /\ UNCHANGED <<requires, private, loaded, roots, public, limited>>

Init ==
  /\ requires = [p \in Package |-> {}]
  /\ private = [p \in Package |-> {}]
  /\ loaded = {}
  /\ roots = {}
  /\ public = {}
  /\ limited \in BOOLEAN
  /\ verdict = "open"

Next ==
  \/ \E p \in Package :
       LoadRoot(p) \/ LoadPublic(p) \/ LoadPrivate(p) \/ MakeRoot(p) \/ MakePublic(p)
  \/ Accept
  \/ Refuse

Spec == Init /\ [][Next]_vars
=============================================================================
