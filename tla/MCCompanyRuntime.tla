-------------------------- MODULE MCCompanyRuntime --------------------------
(* Instances of CompanyRuntime for TLC.                                    *)
EXTENDS CompanyRuntime, TLC

CONSTANTS brief, ticket

(* One role and one task, which is in the queue before the start.          *)
OnlyTask == brief :> 1

(* Two roles; a task of the CEO and the ticket that may come meanwhile.    *)
CeoTasks == (ticket :> 1) @@ (brief :> 1)
=============================================================================
