------------------------------ MODULE MCWorkflows ------------------------------
(***************************************************************************)
(* An instance for the run of what leads a project through its stages: an  *)
(* implement run with retries and skips of its tasks, and the orchestrator *)
(* of the command line.  They share no variable, so they are explored one  *)
(* at a time: `part` says which one moves.                                 *)
(***************************************************************************)
EXTENDS MCRunScheduler, WorkflowOrchestrator

VARIABLE part
stagesVars == <<part, vars, workflowVars>>

StagesInit ==
  /\ part \in {"server", "orchestrator"} /\ Init
  /\ WorkflowInit /\ (part # "orchestrator" => ~dir.made)
StagesNext ==
  /\ UNCHANGED part
  /\ \/ part = "server" /\ Next /\ UNCHANGED workflowVars
     \/ part = "orchestrator" /\ WorkflowNext /\ UNCHANGED vars
StagesSpec == StagesInit /\ [][StagesNext]_stagesVars

===============================================================================
