------------------------------- MODULE Launch -------------------------------
(***************************************************************************)
(* A command that is an alias: aliasmain() of alias.c (lines 167-227) and, *)
(* with the same steps, run() of busybox-alias.c (95-124).  The program it *)
(* stands for is pkg-config as Driver has it; build.sh (443-446) makes     *)
(* such an alias.  Alias.tla has what is passed to it.                     *)
(*                                                                         *)
(* The two are processes of one console.  Ctrl-C is an event for each of   *)
(* the processes attached when it is pressed, handled by each in its own   *)
(* time: one without a handler ends.                                       *)
(*                                                                         *)
(* Definitions marked "mutant" are no part of the model: each is a slip in *)
(* the definition below it that a property must notice.                    *)
(***************************************************************************)
EXTENDS Driver

CONSTANT Presses   \* a command line -> how often ctrl-C is pressed at most

VARIABLES
  alias,    \* "building", "starting", "waiting", "ended"
  child,    \* "none", "loading", "attached"
  shielded, \* SetConsoleCtrlHandler(ignorectrlc, 1) was called
  pressed,  \* ctrl-C so far
  pending,  \* processes that have yet to handle one
  status    \* exit status of the alias

launch == <<alias, child, shielded, pressed, pending, status>>

Ended(s) == alias' = "ended" /\ status' = s

(* fatal(): out of memory, the path or the command line too long.          *)
Refuse ==
  /\ alias = "building"
  /\ Ended("not started")
  /\ UNCHANGED <<vars, child, shielded, pressed, pending>>

ShieldNot ==                                           \* mutant
  /\ alias = "building"
  /\ alias' = "starting"
  /\ UNCHANGED <<vars, child, shielded, pressed, pending, status>>

(* "NOTE: set as late a possible".                                         *)
Shield ==
  /\ alias = "building"
  /\ alias' = "starting"
  /\ shielded' = TRUE
  /\ UNCHANGED <<vars, child, pressed, pending, status>>

(* CreateProcessW() may fail.                                              *)
StartFails ==
  /\ alias = "starting"
  /\ Ended("not started")
  /\ UNCHANGED <<vars, child, shielded, pressed, pending>>

Start ==
  /\ alias = "starting"
  /\ alias' = "waiting"
  /\ child' = "loading"
  /\ UNCHANGED <<vars, shielded, pressed, pending, status>>

(* WaitForSingleObject(), GetExitCodeProcess().                            *)
Relay ==
  /\ alias = "waiting" /\ exit # "running"
  /\ Ended(exit)
  /\ UNCHANGED <<vars, child, shielded, pressed, pending>>

-----------------------------------------------------------------------------
(* The console and the child.                                              *)

Attached ==
  {p \in {"alias", "child"} : IF p = "alias" THEN alias # "ended"
                              ELSE child = "attached" /\ exit = "running"}

Press ==
  /\ pressed < Presses[job]
  /\ pressed' = pressed + 1
  /\ pending' = pending \cup Attached
  /\ UNCHANGED <<vars, alias, child, shielded, status>>

HandleInAlias ==
  /\ "alias" \in pending /\ alias # "ended"
  /\ pending' = pending \ {"alias"}
  /\ IF shielded THEN UNCHANGED <<alias, status>> ELSE Ended("interrupted")
  /\ UNCHANGED <<vars, child, shielded, pressed>>

HandleInChild ==
  /\ "child" \in pending /\ exit = "running"
  /\ pending' = pending \ {"child"}
  /\ exit' = "interrupted"
  /\ UNCHANGED <<progress, todo, phase, io, alias, child, shielded, pressed, status>>

Attach ==
  /\ child = "loading"
  /\ child' = "attached"
  /\ UNCHANGED <<vars, alias, shielded, pressed, pending, status>>

RunChild == child = "attached" /\ Next /\ UNCHANGED launch

LaunchInit ==
  /\ Init
  /\ alias = "building" /\ child = "none" /\ shielded = FALSE
  /\ pressed = 0 /\ pending = {} /\ status = "running"

LaunchNext ==
  \/ Refuse \/ Shield \/ StartFails \/ Start \/ Relay
  \/ Press \/ HandleInAlias \/ HandleInChild
  \/ Attach \/ RunChild

LaunchSpec == LaunchInit /\ [][LaunchNext]_<<vars, launch>>

-----------------------------------------------------------------------------
(* Whenever ctrl-C arrives, before the child, in its loading, its work or  *)
(* after its end, the alias never leaves a child behind, says what the     *)
(* child said, and has a status of its own only if nothing was started.    *)
AliasRelays ==
  alias = "ended" =>
    IF child = "none"
    THEN status \in {"not started", "interrupted"} /\ exit = "running" /\ index = 0
    ELSE exit # "running" /\ status = exit
=============================================================================
