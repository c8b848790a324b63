------------------------------ MODULE MCImplement ------------------------------
(***************************************************************************)
(* An instance for the run of the implement step: two overlapping starts   *)
(* on the server, the page that follows a run, and the project's           *)
(* extensions, which bring its workflow.  RunPage has the server's part of *)
(* its own, by what RunScheduler does, so they share no variable and are   *)
(* explored one at a time: `part` says which one moves.                    *)
(***************************************************************************)
EXTENDS MCRunScheduler, RunPage, ProjectExtensions

\* What the page shows in its last run is of no interest once it may be wrong.
Telling == ~astray \/ runs < MaxRuns

VARIABLE part
implementVars == <<part, vars, runPageVars, projectExtVars>>

MCWanted == [i \in ExtInstalls |-> IF i = "both" THEN <<"wf", "kit">> ELSE <<"kit">>]
MCRemovalOf == [r \in ExtRemovals |-> "kit"]

ImplementInit ==
  /\ part \in {"server", "page", "extensions"} /\ Init /\ RunPageInit /\ ProjectExtInit
  /\ part # "extensions" => entries = {} /\ \A e \in Exts : orgExt[e] = "none"
ImplementNext ==
  /\ UNCHANGED part
  /\ \/ part = "server" /\ Next /\ UNCHANGED <<runPageVars, projectExtVars>>
     \/ part = "page" /\ RunPageNext /\ UNCHANGED <<vars, projectExtVars>>
     \/ part = "extensions" /\ ProjectExtNext /\ UNCHANGED <<vars, runPageVars>>
ImplementSpec == ImplementInit /\ [][ImplementNext]_implementVars
===============================================================================
