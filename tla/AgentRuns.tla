------------------------------ MODULE AgentRuns ------------------------------
(***************************************************************************)
(* The runs of one conversation thread of the agents service: creation, the *)
(* background task that executes the LangGraph graph and projects its chunks*)
(* into MySQL, the checkpoint of the graph that all runs of the thread share,*)
(* human interrupts and their resumption, cancellation, and the event       *)
(* streams of the clients.  The service is one asyncio process: what  *)
(* a coroutine does between two suspensions is one step, a sequence of      *)
(* commits that a failure of the database can cut off anywhere.             *)
(***************************************************************************)
EXTENDS Integers, Sequences, FiniteSets, SequencesExt

CONSTANTS
    Runs,                   \* runs of the thread, numbered as created
    Orders,                 \* the orders a refund can be asked for
    Watched,                \* the runs whose events a client reads
    InputChoices,           \* what the model may name as allowed actions of human_input
    MaxTools, MaxCancels, MaxFaults \* bounds of the instance, for all runs

Actions == {"approve", "reject", "edit"}

ASSUME AgentBounds ==
    /\ Runs \subseteq Nat /\ Watched \subseteq Runs
    /\ InputChoices \subseteq SUBSET Actions
    /\ {MaxTools, MaxCancels, MaxFaults} \subseteq Nat

VARIABLES
    db,       \* run -> its rows: run, output message, tool calls and events
    tasks,    \* coroutines that execute a run
    latest,   \* the latest checkpoint of the thread in Redis
    refunds,  \* <<run, tool call, order>> of the refund_order calls, a set
    reader,   \* run -> the event stream of a client
    cancels, faults,
    answers,  \* history: <<run, tool call, action>> accepted by resume, a sequence
    impaired, \* history: runs that lost their task or the rest of an update
    undone,   \* history: runs whose cancellation a task has overwritten
    crossed   \* history: runs whose answer met another question than its own

graphVars == <<latest, refunds, crossed>>
vars == <<db, tasks, graphVars, reader, cancels, faults, answers, impaired, undone>>

\* The allowed actions of the policy of refund_order (human_approval); those of
\* the tool human_input are an argument of the model's call.
AllowedActions(kind) == IF kind = "approval" THEN {Actions} ELSE InputChoices

NoAnswer == [action |-> "none", order |-> 0]

ActiveStatuses == {"queued", "running", "requires_action"}
EndStatuses == {"completed", "failed", "cancelled"}

\* TERMINAL_EVENT_TYPES and the event that asks for a human close a stream.
Closing == {"run.completed", "run.failed", "run.cancelled", "tool_call.waiting_human"}

\* The question an interrupt leaves at a checkpoint: who asked it, as which of its
\* tool calls, and what for.
NoQuestion == [run |-> 0, tool |-> 0, kind |-> "none", order |-> 0]

\* A checkpoint: the runs whose loop goes on from it, the node that comes next
\* and the pending question.
Checkpoint(by, node, question) == [by |-> by, at |-> node, question |-> question]
NoCheckpoint == Checkpoint({}, "none", NoQuestion)

NoRows == [run |-> "none", message |-> "none", tools |-> <<>>, events |-> <<>>]

Init ==
    /\ db = [r \in Runs |-> NoRows]
    /\ tasks = {}
    /\ latest = NoCheckpoint
    /\ refunds = {}
    /\ crossed = {}
    /\ reader = [r \in Runs |-> [open |-> FALSE, after |-> 0]]
    /\ cancels = 0
    /\ faults = 0
    /\ answers = <<>>
    /\ impaired = {}
    /\ undone = {}

-----------------------------------------------------------------------------
(* The rows of a run and the writes of the repositories.                    *)

SetRun(status) == [table |-> "run", at |-> 0, value |-> status]
SetMessage(status) == [table |-> "message", at |-> 0, value |-> status]
SetTool(i, status) == [table |-> "tool", at |-> i, value |-> status]
NewTool(kind, order, allowed) ==
    [table |-> "tools", at |-> 0,
     value |-> [status |-> "waiting_human", kind |-> kind, order |-> order,
                allowed |-> allowed]]
Event(type) == [table |-> "events", at |-> 0, value |-> type]

\* The writes to one column, which is that of tool call i in the table "tool".
To(writes, table, i) == {n \in DOMAIN writes : writes[n].table = table /\ writes[n].at = i}

\* Of several updates the last one stays.
Updated(old, writes, table, i) ==
    IF To(writes, table, i) = {} THEN old ELSE writes[Max(To(writes, table, i))].value

\* New rows are added in the order of their writes.
Added(writes, table) ==
    LET rank(n) == Cardinality({m \in To(writes, table, 0) : m <= n})
    IN  [k \in 1 .. Cardinality(To(writes, table, 0)) |->
            writes[CHOOSE n \in To(writes, table, 0) : rank(n) = k].value]

Write(rows, writes) ==
    [run |-> Updated(rows.run, writes, "run", 0),
     message |-> Updated(rows.message, writes, "message", 0),
     tools |-> [i \in DOMAIN rows.tools |->
                   [rows.tools[i] EXCEPT !.status = Updated(@, writes, "tool", i)]]
               \o Added(writes, "tools"),
     events |-> rows.events \o Added(writes, "events")]

\* Only the last event matters of a run that nobody watches.
Trim(r, rows) ==
    IF r \in Watched \/ rows.events = <<>> THEN rows
    ELSE [rows EXCEPT !.events = <<Last(@)>>]

\* Commits, in order.
Commit(r, writes) == db' = [db EXCEPT ![r] = Trim(r, Write(@, writes))]

\* find_waiting_by_run
Waiting(r) == {i \in DOMAIN db[r].tools : db[r].tools[i].status = "waiting_human"}

ToolCalls == MapThenSumSet(LAMBDA r : Len(db[r].tools), Runs)

ActiveRuns == {r \in Runs : db[r].run \in ActiveStatuses}

-----------------------------------------------------------------------------
(* The run service and the projector.                                       *)

UpdateStatus(status) == SetRun(status)

MarkRunning == UpdateStatus("running")
MarkRequiresAction == UpdateStatus("requires_action")
MarkCompleted == UpdateStatus("completed")
MarkFailed == UpdateStatus("failed")
MarkCancelled == UpdateStatus("cancelled")

OnRunCreated == <<Event("run.created"), Event("message.created")>>

OnRunStarted == <<MarkRunning, Event("run.running")>>

OnToolCallStarted(kind, order, allowed) ==
    <<NewTool(kind, order, allowed), Event("tool_call.created")>>

OnToolCallRequiresHuman ==
    <<MarkRequiresAction, Event("run.requires_action"), Event("tool_call.waiting_human")>>

OnToolCallCompleted(i) == <<SetTool(i, "completed"), Event("tool_call.completed")>>

OnToolCallFailed(i) == <<SetTool(i, "failed"), Event("tool_call.failed")>>

FinalizeRun ==
    <<SetMessage("completed"), Event("message.completed"),
      MarkCompleted, Event("run.completed")>>

FailRun ==
    <<SetMessage("error"), Event("message.failed"), MarkFailed, Event("run.failed")>>

\* Faulty: the output message stays in progress.
CancelRunKeepsMessage(r) ==
    (IF Waiting(r) = {} THEN <<>>
     ELSE <<SetTool(CHOOSE i \in Waiting(r) : TRUE, "cancelled"), Event("tool_call.updated")>>)
    \o <<MarkCancelled, Event("run.cancelled")>>

CancelRun(r) ==
    (IF Waiting(r) = {} THEN <<>>
     ELSE <<SetTool(CHOOSE i \in Waiting(r) : TRUE, "cancelled"), Event("tool_call.updated")>>)
    \o <<MarkCancelled, SetMessage("cancelled"),
         Event("message.cancelled"), Event("run.cancelled")>>

-----------------------------------------------------------------------------
(* Requests.                                                                *)

Quiet == UNCHANGED <<reader, cancels, answers>>

\* What background_tasks keeps of a request once its response has been sent.
Task(r, i, at, answer) == [run |-> r, tool |-> i, at |-> at, asked |-> FALSE, answer |-> answer]

\* Faulty: a run that waits for a human does not count as active.
CreateRunBesideWaiting(r) ==
    /\ db[r] = NoRows
    /\ \A s \in Runs : s < r => db[s] # NoRows
    /\ \A s \in Runs : db[s].run \notin {"queued", "running"}
    /\ db' = [db EXCEPT ![r] = [@ EXCEPT !.run = "queued", !.message = "in_progress"]]
    /\ tasks' = tasks \cup {Task(r, 0, "queued", NoAnswer)}
    /\ Quiet /\ UNCHANGED <<graphVars, faults, impaired, undone>>

\* POST /agent/runs: one transaction, after which the background task starts
\* once the response has been sent.
CreateRun(r) ==
    /\ db[r] = NoRows
    /\ \A s \in Runs : s < r => db[s] # NoRows
    /\ ActiveRuns = {}
    /\ db' = [db EXCEPT ![r] = [@ EXCEPT !.run = "queued", !.message = "in_progress"]]
    /\ tasks' = tasks \cup {Task(r, 0, "queued", NoAnswer)}
    /\ Quiet /\ UNCHANGED <<graphVars, faults, impaired, undone>>

\* The writes of a request are cut off: the client gets an error.
CutOff(r, writes) ==
    /\ faults < MaxFaults
    /\ faults' = faults + 1
    /\ \E k \in 0 .. Len(writes) - 1 : Commit(r, SubSeq(writes, 1, k))
    /\ impaired' = IF db' = db THEN impaired ELSE impaired \cup {r}
    /\ UNCHANGED tasks

\* POST .../cancel
Cancel(r) ==
    /\ db[r].run \in {"queued", "running"}
    /\ cancels < MaxCancels
    /\ cancels' = cancels + 1
    /\ \/ Commit(r, CancelRun(r)) /\ UNCHANGED <<tasks, faults, impaired>>
       \/ CutOff(r, CancelRun(r))
    /\ UNCHANGED <<graphVars, reader, answers, undone>>

\* build_command_resume_payload: a decision in the form of the approval wrapper.
BuildCommandResumePayload(action, order) ==
    [action |-> action, order |-> IF action = "edit" THEN order ELSE 0]

\* How the tool that asked reads it: human_input looks for other keys and finds a
\* rejection; an approval is of the tool's own arguments.
NormalizeDecision(question, decision) ==
    IF question.kind = "input" THEN [action |-> "reject", order |-> 0]
    ELSE [decision EXCEPT !.order = IF decision.action = "edit" THEN @ ELSE question.order]

\* The task that carries an answer into the graph.
ResumeTask(r, i, action, order) ==
    Task(r, i, "load", BuildCommandResumePayload(action, order))

Resumable(r, i) ==
    /\ db[r].run = "requires_action"
    /\ i \in DOMAIN db[r].tools
    /\ db[r].tools[i].status = "waiting_human"

\* POST .../resume: the run is set to running before the action is compared
\* with the allowed ones; a refused action raises and leaves it running.
Resume(r, i, action, order) ==
    /\ Resumable(r, i)
    /\ \/ /\ action \in db[r].tools[i].allowed
          /\ Commit(r, OnRunStarted)
          /\ tasks' = tasks \cup {ResumeTask(r, i, action, order)}
          /\ answers' = Append(answers, <<r, i, action>>)
          /\ UNCHANGED <<faults, impaired>>
       \/ /\ action \notin db[r].tools[i].allowed
          /\ Commit(r, OnRunStarted)
          /\ impaired' = impaired \cup {r}
          /\ UNCHANGED <<tasks, faults, answers>>
       \/ CutOff(r, OnRunStarted) /\ UNCHANGED answers
    /\ UNCHANGED <<graphVars, reader, cancels, undone>>

-----------------------------------------------------------------------------
(* The task that executes a run: RunExecutor.start (tool 0) and resume.     *)

Handles(t) == IF t.tool = 0 THEN FailRun ELSE OnToolCallFailed(t.tool) \o FailRun

\* Its writes, then it goes on as "next"; a failing write raises into the
\* except branch, whose own writes fail as well if the database stays away.
Work(t, writes, next) ==
    \/ /\ Commit(t.run, writes)
       /\ tasks' = (tasks \ {t}) \cup next
       /\ UNCHANGED <<faults, impaired>>
    \/ /\ faults < MaxFaults
       /\ faults' = faults + 1
       /\ tasks' = tasks \ {t}
       /\ \E k \in 0 .. Len(writes) - 1 :
            \/ /\ Commit(t.run, SubSeq(writes, 1, k) \o Handles(t))
               /\ impaired' = impaired
            \/ /\ Commit(t.run, SubSeq(writes, 1, k))
               /\ impaired' = impaired \cup {t.run}

\* RedisCheckpointSaver.put, after a node; the checkpoints of a thread are one
\* hash, whose largest id is the latest.
Put(t, node) == Checkpoint({t.run}, node, NoQuestion)

\* put_writes: a question goes to the checkpoint the loop itself is at.
PutWrites(t, kind, order) ==
    IF t.run \in latest.by
    THEN [latest EXCEPT !.question = [run |-> t.run, tool |-> Len(db[t.run].tools) + 1,
                                      kind |-> kind, order |-> order]]
    ELSE latest

\* A node ends with these writes; when one of them fails the loop is left before
\* or after its put.
Advance(t, writes, node) ==
    /\ Work(t, writes, {[t EXCEPT !.at = node]})
    /\ latest' = Put(t, node) \/ (faults' # faults /\ latest' = latest)
    /\ Quiet /\ UNCHANGED <<refunds, crossed>>

Start(t) ==
    /\ t.at = "queued"
    /\ Work(t, OnRunCreated \o OnRunStarted, {[t EXCEPT !.at = "load"]})
    /\ Quiet /\ UNCHANGED graphVars

\* A new message is a new checkpoint, whatever the latest one waits for.
LoadInput(t) ==
    /\ t.at = "load" /\ t.tool = 0
    /\ tasks' = (tasks \ {t}) \cup {[t EXCEPT !.at = "coordinator"]}
    /\ latest' = Put(t, "coordinator")
    /\ Quiet /\ UNCHANGED <<db, refunds, faults, impaired, crossed>>

Questions == {[kind |-> "approval", order |-> o] : o \in Orders} \cup {[kind |-> "input", order |-> 0]}

\* The question an answer meets: the pending one, or the next the specialist asks.
Met == IF latest.question = NoQuestion THEN Questions ELSE {latest.question}

\* A node other than a specialist has no use for an answer.
Taken(t, question) ==
    IF latest.at = "specialist" THEN NormalizeDecision(question, t.answer) ELSE NoAnswer

\* get_tuple: an answer is carried to the latest checkpoint of the thread, whichever
\* run has put it there, and the task goes on from it.
LoadCheckpoint(t) ==
    /\ t.at = "load" /\ t.tool # 0 /\ latest # NoCheckpoint
    /\ \E q \in Met :
         tasks' = (tasks \ {t}) \cup {[t EXCEPT !.at = latest.at, !.answer = Taken(t, q)]}
    /\ latest' = [latest EXCEPT !.by = @ \cup {t.run}]
    /\ crossed' = IF latest.question.run = t.run /\ latest.question.tool = t.tool
                  THEN crossed ELSE crossed \cup {t.run}
    /\ Quiet /\ UNCHANGED <<db, refunds, faults, impaired>>

\* The checkpoints have expired.
NothingToResume(t) ==
    /\ t.at = "load" /\ t.tool # 0 /\ latest = NoCheckpoint
    /\ Work(t, Handles(t), {})
    /\ Quiet /\ UNCHANGED graphVars

\* The runs whose cancellation this step overwrites.
Undone == {r \in Runs : db[r].run = "cancelled" /\ db'[r].run # "cancelled"}

\* _should_stop, asked for each chunk.
ShouldStop(t) == db[t.run].run = "cancelled"

Streaming(t) == t.at \notin {"queued", "load"}
Streams(t) == Streaming(t) /\ ~ShouldStop(t) /\ ~t.asked

Goto(t, node) == /\ tasks' = (tasks \ {t}) \cup {[t EXCEPT !.at = node]}
                 /\ latest' = Put(t, node)
                 /\ Quiet /\ UNCHANGED <<db, refunds, crossed, faults, impaired>>

\* The text of a reply; its chunks are one.
OnMessageDelta == <<Event("message.delta")>>

\* What a chunk of the stream writes, by its mode.  No node of this graph emits
\* the other updates (run, message) or custom chunks (tool, progress).
ProjectChunk(mode, kind, order, allowed) ==
    CASE mode = "messages" -> OnMessageDelta
      [] mode = "updates" -> OnToolCallStarted(kind, order, allowed) \o OnToolCallRequiresHuman

\* The decision of the model, and where it leads.
CoordinatorDecisions == {"respond", "delegate"}

NextFromCoordinator(action) == IF action = "delegate" THEN "supervisor" ELSE "end"

CoordinatorNode(t) ==
    /\ t.at = "coordinator" /\ Streams(t)
    /\ \E action \in CoordinatorDecisions :
        IF action = "respond"
        THEN Advance(t, ProjectChunk("messages", "", 0, {}), NextFromCoordinator(action))
        ELSE Goto(t, NextFromCoordinator(action))

\* Faulty: the supervisor does not look at specialist_result.
SupervisorNodeAsksAgain(t) ==
    /\ t.at \in {"supervisor", "back"} /\ Streams(t)
    /\ \E next \in {"specialist", "end"} : Goto(t, next)

\* The model names a specialist or "finish"; once a specialist has completed it is
\* not asked again.
NextAgents(t) == IF t.at = "back" THEN {"finish"} ELSE {"specialist", "finish"}

NextFromSupervisor(agent) == IF agent = "specialist" THEN agent ELSE "end"

SupervisorNode(t) ==
    /\ t.at \in {"supervisor", "back"} /\ Streams(t)
    /\ \E agent \in NextAgents(t) : Goto(t, NextFromSupervisor(agent))

\* The agent loop of a specialist ends with a reply of the model.
RunToolAgent == ProjectChunk("messages", "", 0, {})

\* The specialist for activities or orders has called its tools and replies.
SpecialistNode(t) ==
    /\ t.at = "specialist" /\ Streams(t)
    /\ t.answer = NoAnswer
    /\ Advance(t, RunToolAgent, "back")

\* After the stream resume completes its tool call in every case.
Completed(t) == IF t.tool = 0 THEN <<>> ELSE OnToolCallCompleted(t.tool)

\* An interrupt chunk.  With a tool call pending it raises ACTIVE_RUN_EXISTS:
\* start fails the run, resume passes the ApiError on.
Interrupt(t, kind, order) ==
    /\ Streams(t)
    /\ \/ /\ Waiting(t.run) = {}
          /\ ToolCalls < MaxTools
          /\ \E allowed \in AllowedActions(kind) :
               Work(t, ProjectChunk("updates", kind, order, allowed),
                    {[t EXCEPT !.asked = TRUE, !.answer = NoAnswer]})
       \/ Waiting(t.run) # {} /\ t.tool = 0 /\ Work(t, FailRun, {})
       \/ /\ Waiting(t.run) # {} /\ t.tool # 0
          /\ tasks' = tasks \ {t}
          /\ impaired' = impaired \cup {t.run}
          /\ UNCHANGED <<db, faults>>
    /\ latest' = PutWrites(t, kind, order)
    /\ Quiet /\ UNCHANGED <<refunds, crossed>>

\* The order specialist calls refund_order, whose preview allows the refund, or
\* human_input.
CallTool(t) ==
    /\ t.at = "specialist" /\ t.answer = NoAnswer
    /\ \E q \in Questions : Interrupt(t, q.kind, q.order)

\* The tool is run again with the answer and finds the refund no longer allowed,
\* or was told to leave it.
Decline(t) ==
    /\ t.at = "specialist" /\ t.answer # NoAnswer
    /\ tasks' = (tasks \ {t}) \cup {[t EXCEPT !.answer = NoAnswer]}
    /\ Quiet /\ UNCHANGED <<db, graphVars, faults, impaired>>

\* The tool refund_order of order-rpc's MCP server.
RefundOrder(t) == refunds' = refunds \cup {<<t.run, t.tool, t.answer.order>>}

\* Faulty: edited values are carried out.
InvokeApprovedToolEdited(t) ==
    /\ t.at = "specialist" /\ t.answer.action \in {"approve", "edit"}
    /\ RefundOrder(t)
    /\ tasks' = (tasks \ {t}) \cup {[t EXCEPT !.answer = NoAnswer]}
    /\ Quiet /\ UNCHANGED <<db, latest, crossed, faults, impaired>>

\* refund_order is called; nobody asks whether the run has been cancelled.
InvokeApprovedTool(t) ==
    /\ t.at = "specialist" /\ t.answer.action = "approve"
    /\ RefundOrder(t)
    /\ tasks' = (tasks \ {t}) \cup {[t EXCEPT !.answer = NoAnswer]}
    /\ Quiet /\ UNCHANGED <<db, latest, crossed, faults, impaired>>

\* Edited values are previewed and have to be approved in turn.
AskAgain(t) ==
    /\ t.at = "specialist" /\ t.answer.action = "edit"
    /\ Interrupt(t, "approval", t.answer.order)

\* Where a node that is under way may lead.
Successors == [coordinator |-> {"supervisor", "end"}, supervisor |-> {"specialist", "end"},
               specialist |-> {"back"}, back |-> {"end"}, end |-> {}]

\* The checkpoints the node under way may leave behind.
Left(t) ==
    IF t.asked THEN {}
    ELSE {Put(t, n) : n \in Successors[t.at]}
         \cup {PutWrites(t, q.kind, q.order) : q \in IF t.at = "specialist" THEN Questions ELSE {}}

\* A chunk that finds the run cancelled ends the stream, in the middle of a node or
\* after it.
Stop(t) ==
    /\ Streaming(t)
    /\ ShouldStop(t)
    /\ Work(t, Completed(t), {})
    /\ latest' \in {latest} \cup Left(t)
    /\ Quiet /\ UNCHANGED <<refunds, crossed>>

\* The stream ends by itself; the status is not looked at again.
Finish(t) ==
    /\ t.at = "end" \/ t.asked
    /\ Work(t, Completed(t) \o (IF t.asked THEN <<>> ELSE FinalizeRun), {})
    /\ Quiet /\ UNCHANGED graphVars

\* The graph raises: a model error, or an ApiError of the MCP interceptor,
\* which resume passes on.
GraphFails(t) ==
    /\ t.at # "queued"
    /\ faults < MaxFaults
    /\ faults' = faults + 1
    /\ tasks' = tasks \ {t}
    /\ \/ Commit(t.run, Handles(t)) /\ impaired' = impaired
       \/ t.tool # 0 /\ db' = db /\ impaired' = impaired \cup {t.run}
    /\ undone' = undone \cup Undone
    /\ Quiet /\ UNCHANGED graphVars

\* The keys of the checkpoints live for SESSION_TTL_SECONDS after the last write.
CheckpointExpires ==
    /\ \E r \in Runs : db[r].run = "requires_action"
    /\ latest # NoCheckpoint
    /\ faults < MaxFaults
    /\ faults' = faults + 1
    /\ latest' = NoCheckpoint
    /\ UNCHANGED <<db, tasks, refunds, crossed, reader, cancels, answers, impaired, undone>>

\* The process dies; nothing takes its runs up again.
Crash ==
    /\ faults < MaxFaults
    /\ tasks # {}
    /\ faults' = faults + 1
    /\ tasks' = {}
    /\ impaired' = impaired \cup {t.run : t \in tasks}
    /\ reader' = [r \in Runs |-> [reader[r] EXCEPT !.open = FALSE]]
    /\ UNCHANGED <<db, graphVars, cancels, answers, undone>>

-----------------------------------------------------------------------------
(* GET /agent/runs/{id}/events?after=                                       *)

OpenStream(r) ==
    /\ r \in Watched
    /\ db[r] # NoRows
    /\ ~reader[r].open
    /\ reader' = [reader EXCEPT ![r].open = TRUE]
    /\ UNCHANGED <<db, tasks, graphVars, cancels, faults, answers, impaired, undone>>

\* The events of list_after, up to the first that closes the stream.
Unread(r) == {n \in DOMAIN db[r].events : n > reader[r].after}

Closes(r, n) == db[r].events[n] \in Closing

\* Faulty: only a new event can close the stream.
StreamEventsNewOnly(r) ==
    /\ reader[r].open
    /\ \E n \in Unread(r) :
         /\ \A m \in Unread(r) : m < n => ~Closes(r, m)
         /\ Closes(r, n) \/ n = Len(db[r].events)
         /\ reader' = [reader EXCEPT ![r] = [open |-> ~Closes(r, n), after |-> n]]
    /\ UNCHANGED <<db, tasks, graphVars, cancels, faults, answers, impaired, undone>>

StreamEvents(r) ==
    /\ reader[r].open
    /\ \/ \E n \in Unread(r) :
            /\ \A m \in Unread(r) : m < n => ~Closes(r, m)
            /\ Closes(r, n) \/ n = Len(db[r].events)
            /\ reader' = [reader EXCEPT ![r] = [open |-> ~Closes(r, n), after |-> n]]
       \/ /\ Unread(r) = {}
          /\ db[r].events # <<>>
          /\ Closes(r, Len(db[r].events))
          /\ reader' = [reader EXCEPT ![r].open = FALSE]
    /\ UNCHANGED <<db, tasks, graphVars, cancels, faults, answers, impaired, undone>>

-----------------------------------------------------------------------------
Graph(t) ==
    \/ LoadInput(t) \/ LoadCheckpoint(t) \/ NothingToResume(t)
    \/ CoordinatorNode(t) \/ SupervisorNode(t) \/ SpecialistNode(t)
    \/ Decline(t) \/ InvokeApprovedTool(t)

Step(t) ==
    /\ \/ Start(t) \/ Graph(t) \/ CallTool(t) \/ AskAgain(t)
       \/ Stop(t) \/ Finish(t)
    /\ undone' = undone \cup Undone

Proceed(r) ==
    \E t \in tasks :
        /\ t.run = r
        /\ Start(t) \/ Graph(t) \/ Stop(t) \/ Finish(t)
        /\ undone' = undone \cup Undone

Next ==
    \/ Crash \/ CheckpointExpires
    \/ \E t \in tasks : Step(t) \/ GraphFails(t)
    \/ \E r \in Runs :
         \/ CreateRun(r) \/ Cancel(r)
         \/ \E i \in 1 .. MaxTools, a \in Actions, o \in Orders : Resume(r, i, a, o)
         \/ OpenStream(r) \/ StreamEvents(r)

Spec == Init /\ [][Next]_vars

\* Background tasks start, and the model and the tools answer, so that the
\* chunks of a run come to an end.
Fairness == \A r \in Runs : WF_vars(Proceed(r)) /\ WF_vars(StreamEvents(r))

FairSpec == Spec /\ Fairness

-----------------------------------------------------------------------------
\* create_run refuses a second active run of a thread, and no interleaving of
\* tasks, answers and cancellations brings an earlier one back beside it, unless
\* its cancellation was overwritten or it lost its task or part of an update.
OneActiveRun ==
    \A r, s \in ActiveRuns : r < s => r \in undone \cup impaired

\* However often and however late the requests come.
AnsweredOnce ==
    \A m, n \in DOMAIN answers :
        answers[m][1] = answers[n][1] /\ answers[m][2] = answers[n][2] => m = n

\* An order is refunded only after a human was asked by this very tool call and
\* approved, and every tool call is answered at most once, so that neither edited
\* values nor a repeated request start a refund.  The order is the one the human was
\* asked about, unless the answer was carried to another question: the runs of a
\* thread share its latest checkpoint.  That takes two loops on one thread, and so
\* a cancellation or a failure before it.
RefundsApproved ==
    /\ AnsweredOnce
    /\ \A x \in refunds :
          /\ \E n \in DOMAIN answers : answers[n] = <<x[1], x[2], "approve">>
          /\ x[1] \in crossed \/ (/\ db[x[1]].tools[x[2]].kind = "approval"
                                  /\ db[x[1]].tools[x[2]].order = x[3])
    /\ crossed # {} => cancels + faults > 0

MessageOf == [completed |-> "completed", failed |-> "error", cancelled |-> "cancelled"]

EventOf ==
    [completed |-> "run.completed", failed |-> "run.failed", cancelled |-> "run.cancelled"]

Executing(r) == \E t \in tasks : t.run = r

\* The row of a run that has ended, its output message and, when nothing executes
\* the run any more, its last event tell the same end, whichever writes failed,
\* unless the run lost its task or part of an update.  Only the tool call that
\* resume completes after the stream can come after the event of the end.
EndsAgree ==
    \A r \in Runs \ impaired : db[r].run \in EndStatuses =>
        /\ db[r].message = MessageOf[db[r].run]
        /\ Executing(r) \/ Last(db[r].events) \in {EventOf[db[r].run], "tool_call.completed"}

\* A started run ends or asks for a human, unless its task was lost.
RunsEnd ==
    \A r \in Runs : db[r].run \in {"queued", "running"} ~>
        (db[r].run \notin {"queued", "running"} \/ r \in impaired)

Told(r) == \E n \in 1 .. reader[r].after : db[r].events[n] \in Closing \ {"tool_call.waiting_human"}

\* A stream whose client has not been told the end of the run ends: the poll
\* finds a closing event whatever the client has read before.
StreamsEnd ==
    \A r \in Watched : reader[r].open /\ ~Told(r) ~> (~reader[r].open \/ r \in impaired)
=============================================================================
