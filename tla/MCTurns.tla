-------------------------------- MODULE MCTurns --------------------------------
(***************************************************************************)
(* An instance for the run of the turns of a session, on the server and on *)
(* the page that shows them, and of the page that lists the sessions of a  *)
(* step.  ChatView has the server's part of its own, by what TurnBroker    *)
(* promises, so the three share no variable and are explored one at a      *)
(* time: `part` says which one moves.  The page of a chat is explored      *)
(* twice: with one message whatever the user does, and with two messages   *)
(* as long as the page keeps track.                                        *)
(***************************************************************************)
EXTENDS MCTurnBroker, ChatView, StepPage

VARIABLE part
turnsVars == <<part, vars, chatVars, pageVars>>

First == CHOOSE t \in Sends : TRUE
\* One update in all, whichever turn it reaches.
OneUpdate == \A t, u \in Turns : updates'[t] > 0 /\ updates'[u] > 0 => t = u
\* Turns differ by nothing before they are posted: one is always the first.
FirstTurn == CHOOSE t \in Turns : TRUE
InOrder == pc'[FirstTurn] = "idle" => \A t \in Turns : pc'[t] = "idle"
TurnsInit ==
  /\ part \in {"server", "page", "talk", "step"} /\ Init /\ ChatInit
  /\ PageInit /\ (part # "step" => \A s \in PageSteps : kept[s] = <<>>)
TurnsNext ==
  /\ UNCHANGED part
  /\ \/ part = "server" /\ Next /\ InOrder /\ OneUpdate /\ UNCHANGED <<chatVars, pageVars>>
     \/ /\ ChatNext /\ UNCHANGED <<vars, pageVars>>
        /\ \/ part = "page" /\ \A t \in Sends \ {First} : posts'[t] = posts[t]
           \/ part = "talk" /\ ~adrift'
     \/ part = "step" /\ PageNext /\ UNCHANGED <<vars, chatVars>>
TurnsSpec == TurnsInit /\ [][TurnsNext]_turnsVars

TurnsTypeOK == TypeOK /\ ChatTypeOK /\ PageTypeOK
===============================================================================
