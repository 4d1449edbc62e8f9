---------------------------- MODULE Conversations ----------------------------
(***************************************************************************)
(* The threads of the agents service and their messages, and the two paged  *)
(* lists a client walks through with a cursor while threads are created,    *)
(* patched and continued.  A request is one step: the service is one        *)
(* asyncio process and no handler suspends between its statements.  What a  *)
(* run does after its creation is AgentRuns.                                *)
(***************************************************************************)
EXTENDS Integers, FiniteSets

CONSTANTS
    Users,
    Threads, Messages,  \* numbers in the order of the random ids
    OwnerOf,            \* who creates the thread
    Unit,               \* clock ticks in a unit of datetime(3)
    Offsets,            \* possible values of local time less UTC
    Limit,              \* page size
    MaxClock            \* bound

ASSUME ConversationAssumption ==
    /\ Threads \cup Messages \subseteq Nat
    /\ IsFiniteSet(Threads) /\ IsFiniteSet(Messages)
    /\ OwnerOf \in [Threads -> Users]
    /\ {Unit, Limit} \subseteq Nat \ {0}
    /\ Offsets \subseteq Int /\ MaxClock \in Nat

VARIABLES
    clock,
    thread,   \* rows of agent_threads
    message,  \* rows of agent_messages
    walk,     \* user -> the list he pages through
    localOffset  \* local time of the host less UTC: nothing sets TZ

listVars == <<clock, thread, message, walk, localOffset>>

NoRow == [status |-> "none"]

Contents == {"text", "blank", "image"}

NoWalk == [list |-> "none"]

ListsInit ==
    /\ clock = 0
    /\ thread = [t \in Threads |-> NoRow]
    /\ message = [i \in Messages |-> NoRow]
    /\ walk = [u \in Users |-> NoWalk]
    /\ localOffset \in Offsets

-----------------------------------------------------------------------------
(* Rows.                                                                    *)

\* A datetime(3) column rounds the microseconds away.
Recorded(time) == (time + Unit \div 2) \div Unit

\* COALESCE(last_message_at, created_at); last is -1 for NULL.
SortAt(t) == IF thread[t].last = -1 THEN thread[t].created ELSE thread[t].last

ThreadSortKey(t) == <<SortAt(t), thread[t].created, t>>

MessageSortKey(i) == <<message[i].created, i>>

SortKey(list, x) == IF list = "threads" THEN ThreadSortKey(x) ELSE MessageSortKey(x)

\* k comes before the cursor c in the order of the first difference.
Less(k, c) ==
    \E n \in DOMAIN k : k[n] < c[n] /\ \A m \in 1 .. n - 1 : k[m] = c[m]

\* A thread of another user is not found.
GetThread(u, t) == thread[t] # NoRow /\ thread[t].user = u

\* _ensure_thread_access makes the same test for messages and runs.
EnsureThreadAccess(u, t) == GetThread(u, t)

\* extract_text: an image or an empty text is refused.
ExtractText(content) == content = "text"

-----------------------------------------------------------------------------
(* Requests that write.                                                     *)

Tick ==
    /\ clock < MaxClock
    /\ clock' = clock + 1
    /\ UNCHANGED <<thread, message, walk>>

\* POST /agent/threads
CreateThread(t) ==
    /\ thread[t] = NoRow
    /\ thread' = [thread EXCEPT ![t] =
          [user |-> OwnerOf[t], status |-> "active",
           created |-> Recorded(clock), last |-> -1]]
    /\ UNCHANGED <<clock, message, walk>>

\* A thread that is continued or patched need not be found at its place.
Moved(t) ==
    walk' = [u \in Users |-> IF walk[u].list = "threads"
                             THEN [walk[u] EXCEPT !.due = @ \ {t}] ELSE walk[u]]

UpdateThread(t, status) == [thread EXCEPT ![t].status = status]

\* PATCH /agent/threads/{id}; a new title changes no list.
PatchThread(u, t) ==
    /\ GetThread(u, t)
    /\ \E status \in {"active", "archived"} : thread' = UpdateThread(t, status)
    /\ Moved(t)
    /\ UNCHANGED <<clock, message>>

\* Bound: a new id is the lowest or the highest of those left, so that it can
\* come before and after the ones in use.
Free == {i \in Messages : message[i] = NoRow}

Draw(S) == {i \in S : (\A k \in S : i <= k) \/ (\A k \in S : k <= i)}

NewMessage(t, role, time) ==
    [thread |-> t, status |-> "saved", role |-> role, created |-> Recorded(time)]

\* A new run: the answer is dated one tick after the question.  The run before it
\* has ended, which AgentRuns is about.
CreateWithMessages(u, t, content, i, j) ==
    /\ ExtractText(content)
    /\ EnsureThreadAccess(u, t)
    /\ i \in Draw(Free) /\ j \in Draw(Free \ {i})
    /\ message' = [message EXCEPT ![i] = NewMessage(t, "user", clock),
                                  ![j] = NewMessage(t, "assistant", clock + 1)]
    /\ thread' = [thread EXCEPT ![t].last = Recorded(clock)]
    /\ Moved(t)
    /\ UNCHANGED clock

-----------------------------------------------------------------------------
(* The lists.  A cursor is the sort key of the last row of a page, the      *)
(* empty sequence stands for none.                                          *)

\* Faulty: the cursor of a thread is the time alone.
BeforeThreadByTime(t, cursor) == cursor = <<>> \/ SortAt(t) < cursor[1]

BeforeThread(t, cursor) == cursor = <<>> \/ Less(ThreadSortKey(t), cursor)

BeforeMessage(i, cursor) == cursor = <<>> \/ Less(MessageSortKey(i), cursor)

\* _build_cursor: the times of a row are UTC without a zone; _isoformat takes
\* them for local times and turns them into UTC once more.
BuildCursor(t) ==
    <<SortAt(t) - localOffset, thread[t].created - localOffset, t>>

BuildMessageCursor(i) == MessageSortKey(i)

\* list_by_user with include_empty = False
ListByUser(u, cursor) ==
    {t \in Threads : /\ EnsureThreadAccess(u, t)
                     /\ thread[t].status = "active"
                     /\ thread[t].last # -1
                     /\ BeforeThread(t, cursor)}

ListByThread(u, t, cursor) ==
    {i \in Messages : /\ message[i] # NoRow /\ message[i].thread = t
                      /\ EnsureThreadAccess(u, t)
                      /\ BeforeMessage(i, cursor)}

\* The rows of a page: of the candidates the first in the descending order of the
\* query.
Page(list, S) ==
    {p \in SUBSET S :
        /\ \A x \in p, y \in S \ p : Less(SortKey(list, y), SortKey(list, x))
        /\ Cardinality(p) <= Limit
        /\ p = S \/ Cardinality(p) = Limit}

LastRow(list, p) == {x \in p : \A y \in p : ~Less(SortKey(list, y), SortKey(list, x))}

\* due: the rows of the list when the walk began, as long as they keep their
\* place; got: the rows of the pages so far; again: those in two pages.
NewWalk(list, t, due) ==
    [list |-> list, thread |-> t, due |-> due, got |-> {}, again |-> {},
     cursor |-> <<>>, done |-> FALSE]

\* Without a next cursor the walk is over.
Fetched(w, S, page, cursor) ==
    [w EXCEPT !.got = @ \cup page, !.again = @ \cup (page \cap w.got),
              !.cursor = cursor, !.done = Cardinality(S) <= Limit]

ThreadWalk(u) ==
    IF walk[u] = NoWalk THEN NewWalk("threads", 0, ListByUser(u, <<>>)) ELSE walk[u]

\* GET /agent/threads
ListThreads(u) ==
    LET w == ThreadWalk(u)
        S == ListByUser(u, w.cursor)
    IN  /\ w.list = "threads" /\ ~w.done
        /\ \E page \in Page("threads", S) :
           \E cursor \in IF page = {} THEN {<<>>} ELSE {BuildCursor(x) : x \in LastRow("threads", page)} :
              walk' = [walk EXCEPT ![u] = Fetched(w, S, page, cursor)]
        /\ UNCHANGED <<clock, thread, message>>

MessageWalk(u, t) ==
    IF walk[u] = NoWalk THEN NewWalk("messages", t, ListByThread(u, t, <<>>)) ELSE walk[u]

\* GET /agent/threads/{id}/messages; the service turns a page round.
ListMessages(u, t) ==
    LET w == MessageWalk(u, t)
        S == ListByThread(u, t, w.cursor)
    IN  /\ EnsureThreadAccess(u, t)
        /\ w.list = "messages" /\ w.thread = t /\ ~w.done
        /\ \E page \in Page("messages", S) :
           \E cursor \in IF page = {} THEN {<<>>}
                         ELSE {BuildMessageCursor(x) : x \in LastRow("messages", page)} :
              walk' = [walk EXCEPT ![u] = Fetched(w, S, page, cursor)]
        /\ UNCHANGED <<clock, thread, message>>

ListsNext ==
    /\ \/ Tick
       \/ \E t \in Threads : CreateThread(t)
       \/ \E u \in Users : ListThreads(u)
       \/ \E u \in Users, t \in Threads :
            \/ PatchThread(u, t) \/ ListMessages(u, t)
            \/ \E content \in Contents, i, j \in Messages : CreateWithMessages(u, t, content, i, j)
    /\ UNCHANGED localOffset

ListsSpec == ListsInit /\ [][ListsNext]_listVars

-----------------------------------------------------------------------------
(* Properties                                                               *)

\* Where the cursor of the list is not later, and not earlier, than the last
\* row it was made from.
NotLater(list) == list = "messages" \/ localOffset >= 0
NotEarlier(list) == list = "messages" \/ localOffset <= 0

\* What a client that pages through a list gets, while threads of the same
\* millisecond and the two messages of a run tie and other threads move to the
\* front of the list under its hands.  Back through a conversation: each message
\* once and none left out.  Through its threads, at UTC the same; east of UTC no
\* thread twice (though some may be left out), west of UTC no thread is left out
\* (though some may come twice), but for those continued or archived meanwhile.
ListedOnce ==
    \A u \in Users : walk[u] # NoWalk =>
        /\ NotLater(walk[u].list) => walk[u].again = {}
        /\ NotEarlier(walk[u].list) /\ walk[u].done => walk[u].due \subseteq walk[u].got
=============================================================================
