------------------------------ MODULE MCAgents ------------------------------
(***************************************************************************)
(* The agents service for TLC: AgentRuns and Conversations, which model its *)
(* runs and its lists.  The two share no variable, so that it is enough to  *)
(* let one of them move in a behaviour.                                     *)
(***************************************************************************)
EXTENDS AgentRuns, Conversations

CONSTANT u1

VARIABLE part

MCOwnerOf == [t \in Threads |-> u1]
MCOffsets == {-1, 0, 1}
MCInputChoices == {{"approve", "edit"}}

\* What a behaviour is about: a run and the stream of its events, failures beside a
\* second run, questions of two runs, or the lists.
Parts == {"stream", "failures", "questions", "lists"}

AgentsInit ==
    /\ part \in Parts /\ Init /\ ListsInit
    /\ part # "lists" => localOffset = 1

\* Run r is about order r, whatever the answers to other questions name.
OwnOrders ==
    /\ \A r \in Runs : \A i \in DOMAIN db[r].tools : db[r].tools[i].order \in {0, r}
    /\ latest.question.order \in {0, latest.question.run}
    /\ \A t \in tasks : t.answer.action = "edit" => t.answer.order = t.run

AgentsNext ==
    /\ \/ part = "stream" /\ Next /\ db'[2] = NoRows /\ UNCHANGED listVars
       \/ part = "failures" /\ Next /\ ToolCalls' <= 1 /\ UNCHANGED <<reader, listVars>>
       \/ /\ part = "questions" /\ Next /\ UNCHANGED <<faults, reader, listVars>>
          /\ \A i \in DOMAIN db'[2].tools : db'[2].tools[i].kind = "approval"
       \/ part = "lists" /\ ListsNext /\ UNCHANGED vars
    /\ OwnOrders'
    /\ UNCHANGED part

AgentsSpec == AgentsInit /\ [][AgentsNext]_<<part, vars, listVars>> /\ Fairness
=============================================================================
