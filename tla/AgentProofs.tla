----------------------------- MODULE AgentProofs -----------------------------
(***************************************************************************)
(* Proofs about the agents service: about AgentRuns for any runs, orders,   *)
(* watched runs and numbers of tool calls, cancellations and failures, and  *)
(* about Conversations for any users, threads, messages and page size.      *)
(*                                                                          *)
(* The runs: first what a list of writes does to the rows of a run, then    *)
(* what each request and each step of a task does to them, then the         *)
(* inductive invariant and how each of them keeps it.  The lists: the order *)
(* of the rows, what a page adds to a walk, and what a write leaves of it.  *)
(***************************************************************************)
EXTENDS AgentRuns, Conversations, FiniteSetTheorems, SequenceTheorems, WellFoundedInduction, TLAPS

-----------------------------------------------------------------------------
(* Rows and writes.                                                         *)

RunStatuses == {"none"} \cup ActiveStatuses \cup EndStatuses
MessageStatuses == {"none", "in_progress", "completed", "error", "cancelled"}
EventTypes ==
    {"run.created", "run.running", "run.requires_action", "run.completed", "run.failed",
     "run.cancelled", "message.created", "message.delta", "message.completed",
     "message.failed", "message.cancelled", "tool_call.created", "tool_call.waiting_human",
     "tool_call.completed", "tool_call.failed", "tool_call.updated"}
ToolRows == [status : {"waiting_human", "completed", "failed", "cancelled"},
             kind : {"approval", "input"}, order : Orders \cup {0}, allowed : SUBSET Actions]
Rows == [run : RunStatuses, message : MessageStatuses,
         tools : Seq(ToolRows), events : Seq(EventTypes)]

\* The writes of the repositories: no update brings a tool call back to waiting,
\* and none takes a run back to its state before the creation.
Writes ==
    [table : {"run"}, at : {0}, value : RunStatuses \ {"none"}]
    \cup [table : {"message"}, at : {0}, value : MessageStatuses]
    \cup [table : {"tool"}, at : Nat \ {0}, value : {"completed", "failed", "cancelled"}]
    \cup [table : {"tools"}, at : {0}, value : ToolRows]
    \cup [table : {"events"}, at : {0}, value : EventTypes]

\* A nonempty set of positions has a last one.
LEMMA LastPosition ==
    ASSUME NEW n \in Nat, NEW S, S \subseteq 1 .. n, S # {}
    PROVE  Max(S) \in S /\ \A m \in S : m <= Max(S)
  <1> DEFINE R == {p \in Nat \X Nat : p[1] < p[2]}
             T == {n - m : m \in S}
  <1>1. IsWellFoundedOn(R, Nat)
    BY NatLessThanWellFounded DEF OpToRel
  <1>2. T \subseteq Nat /\ T # {}
    <2>1. \A m \in S : n - m \in Nat
      OBVIOUS
    <2> QED
      BY <2>1
  <1> HIDE DEF R
  <1>3. PICK k \in T : \A j \in T : ~(<<j, k>> \in R)
    BY <1>1, <1>2, WFMin
  <1>4. PICK x \in S : k = n - x
    OBVIOUS
  <1>5. ASSUME NEW m \in S PROVE m <= x
    <2>1. n - m \in T /\ n - m \in Nat /\ k \in Nat
      BY <1>2
    <2>2. ~(<<n - m, k>> \in R)
      BY <1>3, <2>1
    <2>3. ~(n - m < k)
      BY <2>1, <2>2 DEF R
    <2> QED
      BY <2>3, <1>4
  <1>6. \E y \in S : \A m \in S : y >= m
    <2>1. \A m \in S : x >= m
      BY <1>5
    <2> QED
      BY <2>1
  <1>7. Max(S) \in S /\ \A m \in S : Max(S) >= m
    BY <1>6, Zenon DEF Max
  <1> QED
    BY <1>7

LEMMA ToPositions ==
    ASSUME NEW ws \in Seq(Writes), NEW table, NEW i
    PROVE  /\ To(ws, table, i) \subseteq 1 .. Len(ws)
           /\ Len(ws) \in Nat
           /\ IsFiniteSet(To(ws, table, i))
           /\ Cardinality(To(ws, table, i)) \in Nat
  <1>1. To(ws, table, i) \subseteq 1 .. Len(ws) /\ Len(ws) \in Nat
    BY LenProperties DEF To
  <1>2. IsFiniteSet(To(ws, table, i))
    <2>1. IsFiniteSet(1 .. Len(ws))
      BY <1>1, FS_Interval
    <2> QED
      BY <1>1, <2>1, FS_Subset
  <1> QED
    BY <1>1, <1>2, FS_CardinalityType

\* An update leaves the value of the last write to the column, if there is one.
LEMMA UpdatedLast ==
    ASSUME NEW ws \in Seq(Writes), NEW table, NEW i, NEW old
    PROVE  \/ To(ws, table, i) = {} /\ Updated(old, ws, table, i) = old
           \/ \E n \in To(ws, table, i) :
                /\ Updated(old, ws, table, i) = ws[n].value
                /\ \A m \in To(ws, table, i) : m <= n
  <1>1. CASE To(ws, table, i) = {}
    BY <1>1 DEF Updated
  <1>2. CASE To(ws, table, i) # {}
    <2>1. /\ Max(To(ws, table, i)) \in To(ws, table, i)
          /\ \A m \in To(ws, table, i) : m <= Max(To(ws, table, i))
      BY <1>2, ToPositions, LastPosition
    <2> QED
      BY <1>2, <2>1 DEF Updated
  <1> QED
    BY <1>1, <1>2

\* The write that settles a column: no later one goes to it.
Settles(ws, n, table, i) == n \in To(ws, table, i) /\ \A m \in To(ws, table, i) : m <= n

LEMMA UpdatedBy ==
    ASSUME NEW ws \in Seq(Writes), NEW table, NEW i, NEW old, NEW n, Settles(ws, n, table, i)
    PROVE  Updated(old, ws, table, i) = ws[n].value
  <1>1. PICK k \in To(ws, table, i) :
            /\ Updated(old, ws, table, i) = ws[k].value
            /\ \A m \in To(ws, table, i) : m <= k
    BY UpdatedLast DEF Settles
  <1>2. k = n
    BY <1>1, ToPositions DEF Settles
  <1> QED
    BY <1>1, <1>2

\* The rows added are as many as their writes, and have their values.
LEMMA AddedRows ==
    ASSUME NEW ws \in Seq(Writes), NEW table
    PROVE  LET S == To(ws, table, 0)
               rank(n) == Cardinality({m \in S : m <= n})
           IN  /\ \A n \in S : rank(n) \in 1 .. Cardinality(S)
               /\ \A m, n \in S : rank(m) = rank(n) => m = n
               /\ \A k \in 1 .. Cardinality(S) : \E n \in S : rank(n) = k
  <1> DEFINE S == To(ws, table, 0)
             upto(n) == {m \in S : m <= n}
             rank(n) == Cardinality(upto(n))
             c == Cardinality(S)
  <1>1. S \subseteq Nat /\ IsFiniteSet(S) /\ c \in Nat
    BY ToPositions
  <1>2. ASSUME NEW n \in S
        PROVE  /\ IsFiniteSet(upto(n))
               /\ rank(n) \in 1 .. c
    <2>1. upto(n) \subseteq S /\ n \in upto(n)
      BY <1>1
    <2>2. IsFiniteSet(upto(n)) /\ rank(n) <= c /\ rank(n) \in Nat
      BY <1>1, <2>1, FS_Subset, FS_CardinalityType
    <2>3. rank(n) # 0
      BY <2>1, <2>2, FS_EmptySet
    <2> QED
      BY <1>1, <2>2, <2>3
  <1>3. ASSUME NEW m \in S, NEW n \in S, m <= n, rank(m) = rank(n)
        PROVE  m = n
    <2>1. upto(m) \subseteq upto(n) /\ n \in upto(n)
      BY <1>1, <1>3
    <2>2. upto(m) = upto(n)
      BY <1>2, <1>3, <2>1, FS_Subset
    <2> QED
      BY <1>1, <1>3, <2>1, <2>2
  <1>4. ASSUME NEW m \in S, NEW n \in S, rank(m) = rank(n)
        PROVE  m = n
    <2>1. m <= n \/ n <= m
      BY <1>1
    <2> QED
      BY <2>1, <1>3, <1>4
  <1> DEFINE f == [n \in S |-> rank(n)]
  <1>5. f \in Injection(S, 1 .. c)
    BY <1>2, <1>4 DEF Injection, IsInjective
  <1>6. f \in Surjection(S, 1 .. c)
    <2>1. IsFiniteSet(1 .. c) /\ Cardinality(1 .. c) = c
      BY <1>1, FS_Interval
    <2> QED
      BY <1>5, <2>1, FS_Injection
  <1>7. \A k \in 1 .. c : \E n \in S : rank(n) = k
    BY <1>6 DEF Surjection
  <1> QED
    BY <1>2, <1>4, <1>7

LEMMA FunctionIsSeq ==
    ASSUME NEW n \in Nat, NEW V, NEW f \in [1 .. n -> V]
    PROVE  f \in Seq(V) /\ Len(f) = n
  OBVIOUS

LEMMA AddedType ==
    ASSUME NEW ws \in Seq(Writes), NEW table, NEW V,
           \A n \in To(ws, table, 0) : ws[n].value \in V
    PROVE  /\ Added(ws, table) \in Seq(V)
           /\ Len(Added(ws, table)) = Cardinality(To(ws, table, 0))
  <1> DEFINE S == To(ws, table, 0)
             rank(n) == Cardinality({m \in S : m <= n})
             at(k) == CHOOSE n \in S : rank(n) = k
             c == Cardinality(S)
  <1>1. c \in Nat
    BY ToPositions
  <1>2. \A k \in 1 .. c : \E n \in S : rank(n) = k
    BY AddedRows
  <1>3. \A k \in 1 .. c : at(k) \in S
    BY <1>2
  <1>4. Added(ws, table) = [k \in 1 .. c |-> ws[at(k)].value]
    BY DEF Added
  <1>5. Added(ws, table) \in [1 .. c -> V]
    BY <1>3, <1>4
  <1> QED
    BY <1>1, <1>5, FunctionIsSeq

\* The last row added is that of the last write.
LEMMA AddedLast ==
    ASSUME NEW ws \in Seq(Writes), NEW table,
           NEW n \in To(ws, table, 0), \A m \in To(ws, table, 0) : m <= n
    PROVE  /\ Len(Added(ws, table)) \in Nat \ {0}
           /\ Last(Added(ws, table)) = ws[n].value
  <1> DEFINE S == To(ws, table, 0)
             rank(m) == Cardinality({j \in S : j <= m})
             at(k) == CHOOSE m \in S : rank(m) = k
             c == Cardinality(S)
  <1>1. c \in Nat /\ rank(n) \in 1 .. c /\ \A m \in S : rank(m) = rank(n) => m = n
    BY ToPositions, AddedRows
  <1>2. {j \in S : j <= n} = S
    OBVIOUS
  <1>3. rank(n) = c
    BY <1>2
  <1>4. \E m \in S : rank(m) = c
    BY <1>3
  <1>5. at(c) \in S /\ rank(at(c)) = c
    BY <1>4
  <1>6. at(c) = n
    BY <1>1, <1>3, <1>5
  <1>7. Added(ws, table) = [k \in 1 .. c |-> ws[at(k)].value]
    BY DEF Added
  <1>8. Len(Added(ws, table)) = c
    <2> DEFINE V == {ws[m].value : m \in S}
    <2>1. \A m \in S : ws[m].value \in V
      OBVIOUS
    <2> HIDE DEF V
    <2> QED
      BY <2>1, AddedType
  <1>9. Added(ws, table)[c] = ws[n].value
    BY <1>1, <1>6, <1>7
  <1> HIDE DEF c
  <1> QED
    BY <1>1, <1>8, <1>9 DEF Last

\* The tool calls that a sequence of writes adds are among these.
AddsOnly(V, ws) == \A n \in To(ws, "tools", 0) : ws[n].value \in V

\* What a sequence of writes makes of the rows of a run.
Rewritten(old, new, ws) ==
    /\ new \in Rows
    /\ new.run = Updated(old.run, ws, "run", 0)
    /\ new.message = Updated(old.message, ws, "message", 0)
    /\ Len(old.tools) \in Nat /\ Len(new.tools) \in Nat
    /\ Len(new.tools) = Len(old.tools) + Cardinality(To(ws, "tools", 0))
    /\ \A i \in 1 .. Len(old.tools) :
          /\ new.tools[i].kind = old.tools[i].kind
          /\ new.tools[i].order = old.tools[i].order
          /\ new.tools[i].status = Updated(old.tools[i].status, ws, "tool", i)
    /\ \A V : AddsOnly(V, ws) => \A i \in Len(old.tools) + 1 .. Len(new.tools) : new.tools[i] \in V
    /\ To(ws, "events", 0) = {} /\ old.events # <<>> =>
          new.events # <<>> /\ Last(new.events) = Last(old.events)
    /\ \A n \in To(ws, "events", 0) : Settles(ws, n, "events", 0) =>
              new.events # <<>> /\ Last(new.events) = ws[n].value

LEMMA WriteValues ==
    ASSUME NEW ws \in Seq(Writes)
    PROVE  /\ \A n \in To(ws, "run", 0) : ws[n].value \in RunStatuses \ {"none"}
           /\ \A n \in To(ws, "message", 0) : ws[n].value \in MessageStatuses
           /\ \A i \in Nat : \A n \in To(ws, "tool", i) :
                  ws[n].value \in {"completed", "failed", "cancelled"}
           /\ \A n \in To(ws, "tools", 0) : ws[n].value \in ToolRows
           /\ \A n \in To(ws, "events", 0) : ws[n].value \in EventTypes
  <1>1. \A n \in DOMAIN ws : ws[n] \in Writes
    BY ElementOfSeq, LenProperties
  <1> QED
    BY <1>1 DEF To, Writes

\* Trimming keeps the last event.
LEMMA TrimEffect ==
    ASSUME NEW w \in Rows, NEW r
    PROVE  LET new == Trim(r, w)
           IN  /\ new \in Rows
               /\ new.run = w.run /\ new.message = w.message /\ new.tools = w.tools
               /\ w.events # <<>> => new.events # <<>> /\ Last(new.events) = Last(w.events)
  <1>1. CASE r \in Watched \/ w.events = <<>>
    BY <1>1 DEF Trim
  <1>2. CASE ~(r \in Watched \/ w.events = <<>>)
    <2>1. PICK e : e = Last(w.events)
      OBVIOUS
    <2>2. w.events \in Seq(EventTypes) /\ e \in EventTypes
      BY <1>2, <2>1 DEF Last, Rows
    <2>3. Trim(r, w) = [w EXCEPT !.events = <<e>>]
      BY <1>2, <2>1 DEF Trim
    <2>4. <<e>> \in Seq(EventTypes) /\ <<e>> # <<>> /\ Last(<<e>>) = e
      BY <2>2 DEF Last
    <2> QED
      BY <2>1, <2>3, <2>4 DEF Rows
  <1> QED
    BY <1>1, <1>2

\* Writes take well-formed rows to well-formed rows.
LEMMA WriteEffect ==
    ASSUME NEW old \in Rows, NEW ws \in Seq(Writes), NEW r
    PROVE  Rewritten(old, Trim(r, Write(old, ws)), ws)
  <1> DEFINE w == Write(old, ws)
             new == Trim(r, w)
             kept == [i \in DOMAIN old.tools |->
                         [old.tools[i] EXCEPT !.status = Updated(@, ws, "tool", i)]]
             tools == Added(ws, "tools")
             events == Added(ws, "events")
             n == Len(old.tools)
  <1>1. /\ old.tools \in Seq(ToolRows) /\ old.events \in Seq(EventTypes)
        /\ old.run \in RunStatuses /\ old.message \in MessageStatuses
    BY DEF Rows
  <1>2. n \in Nat /\ DOMAIN old.tools = 1 .. n /\ \A i \in 1 .. n : old.tools[i] \in ToolRows
    BY <1>1, LenProperties, ElementOfSeq
  <1>3. ASSUME NEW i \in 1 .. n
        PROVE  Updated(old.tools[i].status, ws, "tool", i)
                 \in {"waiting_human", "completed", "failed", "cancelled"}
    BY <1>2, WriteValues, UpdatedLast DEF ToolRows
  <1>4. /\ kept \in Seq(ToolRows) /\ Len(kept) = n
        /\ \A i \in 1 .. n : /\ kept[i].kind = old.tools[i].kind
                             /\ kept[i].order = old.tools[i].order
                             /\ kept[i].status = Updated(old.tools[i].status, ws, "tool", i)
    <2>1. ASSUME NEW i \in 1 .. n
          PROVE  /\ kept[i] \in ToolRows
                 /\ kept[i].kind = old.tools[i].kind
                 /\ kept[i].order = old.tools[i].order
                 /\ kept[i].status = Updated(old.tools[i].status, ws, "tool", i)
      <3>1. kept[i] = [old.tools[i] EXCEPT !.status = Updated(old.tools[i].status, ws, "tool", i)]
        BY <1>2
      <3> QED
        BY <3>1, <1>2, <1>3 DEF ToolRows
    <2>2. kept \in [1 .. n -> ToolRows]
      BY <1>2, <2>1
    <2> HIDE DEF kept
    <2>3. kept \in Seq(ToolRows) /\ Len(kept) = n
      BY <1>2, <2>2
    <2> QED
      BY <2>1, <2>3
  <1>5. tools \in Seq(ToolRows) /\ Len(tools) = Cardinality(To(ws, "tools", 0))
    BY WriteValues, AddedType
  <1>6. events \in Seq(EventTypes) /\ Len(events) = Cardinality(To(ws, "events", 0))
    BY WriteValues, AddedType
  <1>7. /\ w.run = Updated(old.run, ws, "run", 0)
        /\ w.message = Updated(old.message, ws, "message", 0)
        /\ w.tools = kept \o tools
        /\ w.events = old.events \o events
    BY DEF Write
  <1>8. w.run \in RunStatuses /\ w.message \in MessageStatuses
    <2>1. Updated(old.run, ws, "run", 0) \in RunStatuses
      BY <1>1, WriteValues, UpdatedLast
    <2>2. Updated(old.message, ws, "message", 0) \in MessageStatuses
      BY <1>1, WriteValues, UpdatedLast
    <2> QED
      BY <1>7, <2>1, <2>2
  <1>9. /\ w.tools \in Seq(ToolRows) /\ Len(w.tools) = n + Len(tools)
        /\ \A i \in 1 .. n : w.tools[i] = kept[i]
    BY <1>2, <1>4, <1>5, <1>7, ConcatProperties
  <1>10. w.events \in Seq(EventTypes) /\ Len(w.events) = Len(old.events) + Len(events)
    BY <1>1, <1>6, <1>7, ConcatProperties
  <1>11. w \in Rows
    BY <1>8, <1>9, <1>10 DEF Rows, Write
  <1>12. /\ new \in Rows /\ new.run = w.run /\ new.message = w.message /\ new.tools = w.tools
         /\ w.events # <<>> => new.events # <<>> /\ Last(new.events) = Last(w.events)
    BY <1>11, TrimEffect
  <1>13. ASSUME To(ws, "events", 0) = {}, old.events # <<>>
         PROVE  new.events # <<>> /\ Last(new.events) = Last(old.events)
    <2>1. Len(events) = 0
      BY <1>13, <1>6, FS_EmptySet
    <2>2. w.events = old.events
      BY <1>1, <1>6, <1>7, <2>1, ConcatEmptySeq
    <2> QED
      BY <1>12, <1>13, <2>2
  <1>14. ASSUME NEW k \in To(ws, "events", 0), \A m \in To(ws, "events", 0) : m <= k
         PROVE  new.events # <<>> /\ Last(new.events) = ws[k].value
    <2>1. Len(events) \in Nat \ {0} /\ Last(events) = ws[k].value
      BY <1>14, AddedLast
    <2>2. w.events # <<>> /\ w.events[Len(w.events)] = events[Len(events)]
      <3>1. Len(old.events) \in Nat
        BY <1>1
      <3>2. \A i \in 1 .. Len(old.events) + Len(events) : (old.events \o events)[i] =
                IF i <= Len(old.events) THEN old.events[i] ELSE events[i - Len(old.events)]
        BY <1>1, <1>6, ConcatProperties
      <3> QED
        BY <1>7, <1>10, <2>1, <3>1, <3>2
    <2> QED
      BY <1>12, <2>1, <2>2 DEF Last
  <1>19. ASSUME NEW V, AddsOnly(V, ws), NEW i \in n + 1 .. Len(w.tools)
         PROVE  w.tools[i] \in V
    <2>1. tools \in Seq(V)
      BY <1>19, AddedType DEF AddsOnly
    <2>2. Len(kept) = n /\ kept \in Seq(ToolRows) /\ Len(tools) \in Nat
      BY <1>4, <2>1
    <2>3. \A j \in 1 .. Len(kept) + Len(tools) : (kept \o tools)[j] =
              IF j <= Len(kept) THEN kept[j] ELSE tools[j - Len(kept)]
      BY <1>5, <2>2, ConcatProperties
    <2>4. i \in n + 1 .. n + Len(tools) /\ w.tools = kept \o tools
      BY <1>7, <1>9
    <2> HIDE DEF w, tools, kept
    <2>5. i - n \in 1 .. Len(tools) /\ w.tools[i] = tools[i - n]
      BY <1>2, <2>2, <2>3, <2>4
    <2> QED
      BY <2>1, <2>5, ElementOfSeq
  <1> HIDE DEF new, w, tools, kept
  <1>15. \A i \in 1 .. Len(old.tools) :
          /\ new.tools[i].kind = old.tools[i].kind
          /\ new.tools[i].order = old.tools[i].order
          /\ new.tools[i].status = Updated(old.tools[i].status, ws, "tool", i)
    BY <1>4, <1>9, <1>12
  <1>16. Len(old.tools) \in Nat /\ Len(new.tools) = Len(old.tools) + Cardinality(To(ws, "tools", 0))
    BY <1>2, <1>5, <1>9, <1>12
  <1>17. Len(new.tools) \in Nat
    BY <1>9, <1>12
  <1>20. \A V : AddsOnly(V, ws) => \A i \in Len(old.tools) + 1 .. Len(new.tools) : new.tools[i] \in V
    BY <1>12, <1>19
  <1>18. Rewritten(old, new, ws)
    BY <1>7, <1>12, <1>13, <1>14, <1>15, <1>16, <1>17, <1>20 DEF Rewritten, Settles
  <1> QED
    BY <1>18 DEF new, w

-----------------------------------------------------------------------------
(* Where the writes of a sequence go.                                       *)

\* One sequence of writes after another.
Then(p, e) == p \o e

\* The last write to a column in the second of two sequences settles it.
LEMMA SuffixWrite ==
    ASSUME NEW p \in Seq(Writes), NEW e \in Seq(Writes), NEW table, NEW i, NEW k \in Nat,
           Settles(e, k, table, i)
    PROVE  /\ Then(p, e) \in Seq(Writes)
           /\ Settles(Then(p, e), Len(p) + k, table, i)
           /\ Then(p, e)[Len(p) + k] = e[k]
  <1>1. /\ Then(p, e) \in Seq(Writes) /\ Len(Then(p, e)) = Len(p) + Len(e)
        /\ \A m \in 1 .. Len(p) + Len(e) :
              Then(p, e)[m] = IF m <= Len(p) THEN p[m] ELSE e[m - Len(p)]
        /\ Len(p) \in Nat /\ Len(e) \in Nat
    BY ConcatProperties, LenProperties DEF Then
  <1>2. DOMAIN Then(p, e) = 1 .. Len(p) + Len(e) /\ DOMAIN e = 1 .. Len(e)
    BY <1>1, LenProperties
  <1>3. k \in 1 .. Len(e) /\ e[k].table = table /\ e[k].at = i
    BY <1>2 DEF Settles, To
  <1>4. Then(p, e)[Len(p) + k] = e[k]
    BY <1>1, <1>3
  <1>5. ASSUME NEW m \in To(Then(p, e), table, i), m > Len(p) + k PROVE FALSE
    <2>1. /\ m \in 1 .. Len(p) + Len(e)
          /\ Then(p, e)[m].table = table /\ Then(p, e)[m].at = i
      BY <1>2 DEF To
    <2>2. Then(p, e)[m] = e[m - Len(p)] /\ m - Len(p) \in 1 .. Len(e) /\ m - Len(p) > k
      BY <1>1, <1>3, <1>5, <2>1
    <2>3. m - Len(p) \in To(e, table, i)
      BY <1>2, <2>1, <2>2 DEF To
    <2> QED
      BY <1>1, <1>3, <2>2, <2>3 DEF Settles
  <1>6. \A m \in To(Then(p, e), table, i) : m \in Nat
    BY <1>1, <1>2 DEF To
  <1>7. Len(p) + k \in To(Then(p, e), table, i)
    BY <1>1, <1>2, <1>3, <1>4 DEF To
  <1>8. Len(p) + k \in Nat
    BY <1>1
  <1>9. \A m \in To(Then(p, e), table, i) : m <= Len(p) + k
    BY <1>5, <1>6, <1>8
  <1> QED
    BY <1>1, <1>4, <1>7, <1>9 DEF Settles

LEMMA ToConcat ==
    ASSUME NEW p \in Seq(Writes), NEW e \in Seq(Writes), NEW table, NEW i,
           To(p, table, i) = {}, To(e, table, i) = {}
    PROVE  p \o e \in Seq(Writes) /\ To(p \o e, table, i) = {}
  <1>1. /\ p \o e \in Seq(Writes) /\ Len(p \o e) = Len(p) + Len(e)
        /\ \A m \in 1 .. Len(p) + Len(e) :
              (p \o e)[m] = IF m <= Len(p) THEN p[m] ELSE e[m - Len(p)]
        /\ Len(p) \in Nat /\ Len(e) \in Nat
    BY ConcatProperties, LenProperties
  <1>2. /\ DOMAIN (p \o e) = 1 .. Len(p) + Len(e)
        /\ DOMAIN p = 1 .. Len(p) /\ DOMAIN e = 1 .. Len(e)
    BY <1>1, LenProperties
  <1>3. ASSUME NEW m \in To(p \o e, table, i) PROVE FALSE
    <2>1. /\ m \in 1 .. Len(p) + Len(e)
          /\ (p \o e)[m].table = table /\ (p \o e)[m].at = i
      BY <1>2 DEF To
    <2>2. CASE m <= Len(p)
      BY <1>1, <1>2, <2>1, <2>2 DEF To
    <2>3. CASE ~(m <= Len(p))
      <3>1. m - Len(p) \in 1 .. Len(e) /\ (p \o e)[m] = e[m - Len(p)]
        BY <1>1, <2>1, <2>3
      <3> QED
        BY <1>2, <2>1, <3>1 DEF To
    <2> QED
      BY <2>2, <2>3
  <1> QED
    BY <1>1, <1>3

\* What is cut off is a shorter sequence of the same writes.
LEMMA PrefixWrites ==
    ASSUME NEW ws \in Seq(Writes), NEW k \in 0 .. Len(ws) - 1
    PROVE  /\ SubSeq(ws, 1, k) \in Seq(Writes)
           /\ \A table, i : To(SubSeq(ws, 1, k), table, i) \subseteq To(ws, table, i)
           /\ \A n \in DOMAIN SubSeq(ws, 1, k) : SubSeq(ws, 1, k)[n] = ws[n]
  <1>1. Len(ws) \in Nat /\ DOMAIN ws = 1 .. Len(ws) /\ \A n \in 1 .. Len(ws) : ws[n] \in Writes
    BY LenProperties, ElementOfSeq
  <1>2. k \in Int /\ \A n \in 1 .. k : ws[n] \in Writes
    BY <1>1
  <1>3. /\ SubSeq(ws, 1, k) \in Seq(Writes)
        /\ Len(SubSeq(ws, 1, k)) = IF 1 <= k THEN k - 1 + 1 ELSE 0
        /\ \A n \in 1 .. k - 1 + 1 : SubSeq(ws, 1, k)[n] = ws[1 + n - 1]
    BY <1>2, SubSeqProperties
  <1>4. DOMAIN SubSeq(ws, 1, k) = 1 .. k
    BY <1>1, <1>3, LenProperties
  <1>5. \A n \in 1 .. k : SubSeq(ws, 1, k)[n] = ws[n] /\ n \in DOMAIN ws
    BY <1>1, <1>3
  <1> QED
    BY <1>3, <1>4, <1>5 DEF To

-----------------------------------------------------------------------------
(* The updates of the projector.                                            *)

\* The writes of a task go to its own tool call, if to any.
Own(i, ws) == ws \in Seq(Writes) /\ \A j \in Nat \ {0} : j # i => To(ws, "tool", j) = {}

\* None of them sets the run to requires_action or adds a tool call.
AsksNot(ws) ==
    /\ \A n \in To(ws, "run", 0) : ws[n].value # "requires_action"
    /\ To(ws, "tools", 0) = {}

LEMMA OwnConcat ==
    ASSUME NEW i, NEW p, NEW e, Own(i, p), Own(i, e)
    PROVE  Own(i, p \o e)
  BY ToConcat, ConcatProperties DEF Own

LEMMA AsksNotConcat ==
    ASSUME NEW p \in Seq(Writes), NEW e \in Seq(Writes), AsksNot(p), AsksNot(e)
    PROVE  AsksNot(p \o e)
  <1>1. /\ Len(p \o e) = Len(p) + Len(e) /\ p \o e \in Seq(Writes)
        /\ \A m \in 1 .. Len(p) + Len(e) :
              (p \o e)[m] = IF m <= Len(p) THEN p[m] ELSE e[m - Len(p)]
        /\ Len(p) \in Nat /\ Len(e) \in Nat
    BY ConcatProperties, LenProperties
  <1>2. /\ DOMAIN (p \o e) = 1 .. Len(p) + Len(e)
        /\ DOMAIN p = 1 .. Len(p) /\ DOMAIN e = 1 .. Len(e)
    BY <1>1, LenProperties
  <1>6. To(p \o e, "tools", 0) = {}
    BY ToConcat DEF AsksNot
  <1> SUFFICES ASSUME NEW m \in To(p \o e, "run", 0)
               PROVE  (p \o e)[m].value # "requires_action"
    BY <1>6 DEF AsksNot
  <1>3. m \in 1 .. Len(p) + Len(e) /\ (p \o e)[m].table = "run" /\ (p \o e)[m].at = 0
    BY <1>2 DEF To
  <1>4. CASE m <= Len(p)
    BY <1>1, <1>2, <1>3, <1>4 DEF To, AsksNot
  <1>5. CASE ~(m <= Len(p))
    <2>1. m - Len(p) \in 1 .. Len(e) /\ (p \o e)[m] = e[m - Len(p)]
      BY <1>1, <1>3, <1>5
    <2> QED
      BY <1>2, <1>3, <2>1 DEF To, AsksNot
  <1> QED
    BY <1>4, <1>5

LEMMA PrefixOwn ==
    ASSUME NEW i, NEW ws, Own(i, ws), NEW k \in 0 .. Len(ws) - 1
    PROVE  /\ Own(i, SubSeq(ws, 1, k)) /\ (AsksNot(ws) => AsksNot(SubSeq(ws, 1, k)))
           /\ \A V : AddsOnly(V, ws) => AddsOnly(V, SubSeq(ws, 1, k))
  <1>1. ws \in Seq(Writes)
    BY DEF Own
  <1>2. /\ SubSeq(ws, 1, k) \in Seq(Writes)
        /\ \A table, j : To(SubSeq(ws, 1, k), table, j) \subseteq To(ws, table, j)
        /\ \A n \in DOMAIN SubSeq(ws, 1, k) : SubSeq(ws, 1, k)[n] = ws[n]
    BY <1>1, PrefixWrites
  <1>3. Own(i, SubSeq(ws, 1, k))
    <2> SUFFICES ASSUME NEW j \in Nat \ {0}, j # i PROVE To(SubSeq(ws, 1, k), "tool", j) = {}
      BY <1>2 DEF Own
    <2>1. To(ws, "tool", j) = {}
      BY DEF Own
    <2> QED
      BY <1>2, <2>1
  <1>4. ASSUME AsksNot(ws) PROVE AsksNot(SubSeq(ws, 1, k))
    <2>0. To(ws, "tools", 0) = {}
      BY <1>4 DEF AsksNot
    <2>2. To(SubSeq(ws, 1, k), "tools", 0) = {}
      BY <1>2, <2>0
    <2> SUFFICES ASSUME NEW n \in To(SubSeq(ws, 1, k), "run", 0)
                 PROVE  SubSeq(ws, 1, k)[n].value # "requires_action"
      BY <2>2 DEF AsksNot
    <2>1. n \in To(ws, "run", 0) /\ n \in DOMAIN SubSeq(ws, 1, k)
      BY <1>2 DEF To
    <2> QED
      BY <1>2, <1>4, <2>1 DEF AsksNot
  <1>5. ASSUME NEW V, AddsOnly(V, ws) PROVE AddsOnly(V, SubSeq(ws, 1, k))
    <2> SUFFICES ASSUME NEW n \in To(SubSeq(ws, 1, k), "tools", 0)
                 PROVE  SubSeq(ws, 1, k)[n].value \in V
      BY DEF AddsOnly
    <2>1. n \in To(ws, "tools", 0) /\ n \in DOMAIN SubSeq(ws, 1, k)
      BY <1>2 DEF To
    <2> QED
      BY <1>2, <1>5, <2>1 DEF AddsOnly
  <1> QED
    BY <1>3, <1>4, <1>5

LEMMA AddsOnlyConcat ==
    ASSUME NEW V, NEW p \in Seq(Writes), NEW e \in Seq(Writes), AddsOnly(V, p), AddsOnly(V, e)
    PROVE  AddsOnly(V, p \o e)
  <1>1. /\ Len(p \o e) = Len(p) + Len(e) /\ p \o e \in Seq(Writes)
        /\ \A m \in 1 .. Len(p) + Len(e) :
              (p \o e)[m] = IF m <= Len(p) THEN p[m] ELSE e[m - Len(p)]
        /\ Len(p) \in Nat /\ Len(e) \in Nat
    BY ConcatProperties, LenProperties
  <1>2. /\ DOMAIN (p \o e) = 1 .. Len(p) + Len(e)
        /\ DOMAIN p = 1 .. Len(p) /\ DOMAIN e = 1 .. Len(e)
    BY <1>1, LenProperties
  <1> SUFFICES ASSUME NEW m \in To(p \o e, "tools", 0)
               PROVE  (p \o e)[m].value \in V
    BY DEF AddsOnly
  <1>3. m \in 1 .. Len(p) + Len(e) /\ (p \o e)[m].table = "tools" /\ (p \o e)[m].at = 0
    BY <1>2 DEF To
  <1>4. CASE m <= Len(p)
    BY <1>1, <1>2, <1>3, <1>4 DEF To, AddsOnly
  <1>5. CASE ~(m <= Len(p))
    <2>1. m - Len(p) \in 1 .. Len(e) /\ (p \o e)[m] = e[m - Len(p)]
      BY <1>1, <1>3, <1>5
    <2> QED
      BY <1>2, <1>3, <2>1 DEF To, AddsOnly
  <1> QED
    BY <1>4, <1>5

\* Single writes.
LEMMA WriteType ==
    /\ \A v \in RunStatuses \ {"none"} : SetRun(v) \in Writes
    /\ \A v \in MessageStatuses : SetMessage(v) \in Writes
    /\ \A i \in Nat \ {0}, v \in {"completed", "failed", "cancelled"} : SetTool(i, v) \in Writes
    /\ \A kind \in {"approval", "input"}, order \in Orders \cup {0}, allowed \in SUBSET Actions :
          NewTool(kind, order, allowed) \in Writes
    /\ \A v \in EventTypes : Event(v) \in Writes
  <1>1. \A v \in RunStatuses \ {"none"} : SetRun(v) \in Writes
    BY DEF SetRun, Writes
  <1>2. \A v \in MessageStatuses : SetMessage(v) \in Writes
    BY DEF SetMessage, Writes
  <1>3. \A i \in Nat \ {0}, v \in {"completed", "failed", "cancelled"} : SetTool(i, v) \in Writes
    BY DEF SetTool, Writes
  <1>4. \A kind \in {"approval", "input"}, order \in Orders \cup {0}, allowed \in SUBSET Actions :
          NewTool(kind, order, allowed) \in Writes
    BY DEF NewTool, Writes, ToolRows
  <1>5. \A v \in EventTypes : Event(v) \in Writes
    BY DEF Event, Writes
  <1> QED
    BY <1>1, <1>2, <1>3, <1>4, <1>5

\* Which tables a write is to.
LEMMA WriteTable ==
    /\ \A v : /\ SetRun(v).table = "run" /\ SetRun(v).at = 0 /\ SetRun(v).value = v
              /\ SetMessage(v).table = "message" /\ SetMessage(v).at = 0 /\ SetMessage(v).value = v
              /\ Event(v).table = "events" /\ Event(v).at = 0 /\ Event(v).value = v
    /\ \A i, v : SetTool(i, v).table = "tool" /\ SetTool(i, v).at = i /\ SetTool(i, v).value = v
    /\ \A k, o, a : /\ NewTool(k, o, a).table = "tools" /\ NewTool(k, o, a).at = 0
                    /\ NewTool(k, o, a).value.kind = k /\ NewTool(k, o, a).value.order = o
  BY DEF SetRun, SetMessage, SetTool, NewTool, Event

USE DEF UpdateStatus, MarkRunning, MarkRequiresAction, MarkCompleted, MarkFailed, MarkCancelled

\* Short sequences, element by element.
LEMMA ShortLists ==
    ASSUME NEW S, NEW a \in S, NEW b \in S, NEW c \in S, NEW d \in S
    PROVE  /\ <<a>> \in Seq(S) /\ Len(<<a>>) = 1 /\ DOMAIN <<a>> = {1} /\ <<a>>[1] = a
           /\ /\ <<a, b>> \in Seq(S) /\ Len(<<a, b>>) = 2 /\ DOMAIN <<a, b>> = {1, 2}
              /\ <<a, b>>[1] = a /\ <<a, b>>[2] = b
           /\ /\ <<a, b, c>> \in Seq(S) /\ Len(<<a, b, c>>) = 3 /\ DOMAIN <<a, b, c>> = {1, 2, 3}
              /\ <<a, b, c>>[1] = a /\ <<a, b, c>>[2] = b /\ <<a, b, c>>[3] = c
           /\ /\ <<a, b, c, d>> \in Seq(S) /\ Len(<<a, b, c, d>>) = 4
              /\ DOMAIN <<a, b, c, d>> = {1, 2, 3, 4}
              /\ <<a, b, c, d>>[1] = a /\ <<a, b, c, d>>[2] = b
              /\ <<a, b, c, d>>[3] = c /\ <<a, b, c, d>>[4] = d
  OBVIOUS

Harmless(i, w) ==
    /\ w \in Writes
    /\ w.table = "tool" => w.at = i
    /\ w.table = "run" => w.value # "requires_action"
    /\ w.table # "tools"

\* A sequence of writes each of which is harmless.
LEMMA HarmlessList ==
    ASSUME NEW i \in Nat, NEW ws \in Seq(Writes), \A n \in DOMAIN ws : Harmless(i, ws[n])
    PROVE  Own(i, ws) /\ AsksNot(ws)
  BY DEF Harmless, Own, AsksNot, To

LEMMA HarmlessWrites ==
    ASSUME NEW i \in Nat
    PROVE  /\ \A v \in RunStatuses \ {"none", "requires_action"} : Harmless(i, SetRun(v))
           /\ \A v \in MessageStatuses : Harmless(i, SetMessage(v))
           /\ \A v \in {"completed", "failed", "cancelled"} : i # 0 => Harmless(i, SetTool(i, v))
           /\ \A v \in EventTypes : Harmless(i, Event(v))
  BY WriteType, WriteTable DEF Harmless

LEMMA HarmlessLists ==
    ASSUME NEW i \in Nat, NEW a, NEW b, NEW c, NEW d,
           Harmless(i, a), Harmless(i, b), Harmless(i, c), Harmless(i, d)
    PROVE  /\ Own(i, <<a>>) /\ AsksNot(<<a>>)
           /\ Own(i, <<a, b>>) /\ AsksNot(<<a, b>>)
           /\ Own(i, <<a, b, c, d>>) /\ AsksNot(<<a, b, c, d>>)
  <1>1. a \in Writes /\ b \in Writes /\ c \in Writes /\ d \in Writes
    BY DEF Harmless
  <1>2. <<a>> \in Seq(Writes) /\ \A n \in DOMAIN <<a>> : Harmless(i, <<a>>[n])
    BY <1>1, ShortLists
  <1>3. <<a, b>> \in Seq(Writes) /\ \A n \in DOMAIN <<a, b>> : Harmless(i, <<a, b>>[n])
    BY <1>1, ShortLists
  <1>4. <<a, b, c, d>> \in Seq(Writes) /\ \A n \in DOMAIN <<a, b, c, d>> : Harmless(i, <<a, b, c, d>>[n])
    BY <1>1, ShortLists
  <1> QED
    BY <1>2, <1>3, <1>4, HarmlessList

LEMMA ListTypes ==
    ASSUME NEW i \in Nat
    PROVE  /\ Own(i, FailRun) /\ AsksNot(FailRun)
           /\ Own(i, FinalizeRun) /\ AsksNot(FinalizeRun)
           /\ Own(i, OnRunStarted) /\ AsksNot(OnRunStarted)
           /\ Own(i, OnRunCreated) /\ AsksNot(OnRunCreated)
           /\ Own(i, OnMessageDelta) /\ AsksNot(OnMessageDelta)
  <1>1. /\ {"running", "completed", "failed", "cancelled"} \subseteq RunStatuses \ {"none", "requires_action"}
        /\ {"completed", "error", "cancelled"} \subseteq MessageStatuses
    BY DEF RunStatuses, MessageStatuses, ActiveStatuses, EndStatuses
  <1>2. Own(i, FailRun) /\ AsksNot(FailRun)
    BY <1>1, HarmlessWrites, HarmlessLists DEF EventTypes, FailRun
  <1>3. Own(i, FinalizeRun) /\ AsksNot(FinalizeRun)
    BY <1>1, HarmlessWrites, HarmlessLists DEF EventTypes, FinalizeRun
  <1>4. Own(i, OnRunStarted) /\ AsksNot(OnRunStarted)
    BY <1>1, HarmlessWrites, HarmlessLists DEF EventTypes, OnRunStarted
  <1>5. Own(i, OnRunCreated) /\ AsksNot(OnRunCreated)
    BY <1>1, HarmlessWrites, HarmlessLists DEF EventTypes, OnRunCreated
  <1>6. Own(i, OnMessageDelta) /\ AsksNot(OnMessageDelta)
    BY <1>1, HarmlessWrites, HarmlessLists DEF EventTypes, OnMessageDelta
  <1> QED
    BY <1>2, <1>3, <1>4, <1>5, <1>6

LEMMA ToolListTypes ==
    ASSUME NEW i \in Nat
    PROVE  /\ i # 0 => Own(i, OnToolCallFailed(i)) /\ AsksNot(OnToolCallFailed(i))
           /\ i # 0 => Own(i, OnToolCallCompleted(i)) /\ AsksNot(OnToolCallCompleted(i))
           /\ \A kind \in {"approval", "input"}, order \in Orders \cup {0}, allowed \in SUBSET Actions :
                  /\ Own(i, OnToolCallStarted(kind, order, allowed))
                  /\ To(OnToolCallStarted(kind, order, allowed), "tools", 0) = {1}
                  /\ OnToolCallStarted(kind, order, allowed)[1] = NewTool(kind, order, allowed)
           /\ Own(i, OnToolCallRequiresHuman) /\ To(OnToolCallRequiresHuman, "tools", 0) = {}
  <1>1. i # 0 => Own(i, OnToolCallFailed(i)) /\ AsksNot(OnToolCallFailed(i))
    BY HarmlessWrites, HarmlessLists DEF EventTypes, OnToolCallFailed
  <1>2. i # 0 => Own(i, OnToolCallCompleted(i)) /\ AsksNot(OnToolCallCompleted(i))
    BY HarmlessWrites, HarmlessLists DEF EventTypes, OnToolCallCompleted
  <1>3. ASSUME NEW kind \in {"approval", "input"}, NEW order \in Orders \cup {0},
               NEW allowed \in SUBSET Actions
        PROVE  /\ Own(i, OnToolCallStarted(kind, order, allowed))
               /\ To(OnToolCallStarted(kind, order, allowed), "tools", 0) = {1}
               /\ OnToolCallStarted(kind, order, allowed)[1] = NewTool(kind, order, allowed)
    <2> DEFINE a == NewTool(kind, order, allowed)
               b == Event("tool_call.created")
    <2>1. a \in Writes /\ b \in Writes
      BY WriteType DEF EventTypes
    <2>2. a.table = "tools" /\ a.at = 0 /\ b.table = "events"
      BY WriteTable
    <2> HIDE DEF a, b
    <2>3. Own(i, <<a, b>>) /\ To(<<a, b>>, "tools", 0) = {1} /\ <<a, b>>[1] = a
      BY <2>1, <2>2, ShortLists DEF Own, To
    <2> QED
      BY <2>3 DEF OnToolCallStarted, a, b
  <1>4. Own(i, OnToolCallRequiresHuman) /\ To(OnToolCallRequiresHuman, "tools", 0) = {}
    <2> DEFINE a == SetRun("requires_action")
               b == Event("run.requires_action")
               c == Event("tool_call.waiting_human")
    <2>1. a \in Writes /\ b \in Writes /\ c \in Writes
      BY WriteType DEF EventTypes, RunStatuses, ActiveStatuses
    <2>2. \A w \in {a, b, c} : w.table \notin {"tool", "tools"}
      BY WriteTable
    <2> HIDE DEF a, b, c
    <2>3. Own(i, <<a, b, c>>) /\ To(<<a, b, c>>, "tools", 0) = {}
      BY <2>1, <2>2, ShortLists DEF Own, To
    <2> QED
      BY <2>3 DEF OnToolCallRequiresHuman, a, b, c
  <1> QED
    BY <1>1, <1>2, <1>3, <1>4

-----------------------------------------------------------------------------
(* What the updates make of a run.                                          *)

\* Row, message and last event tell the same end.
Ended(rows, status) ==
    /\ rows.run = status
    /\ rows.message = MessageOf[status]
    /\ rows.events # <<>> /\ Last(rows.events) = EventOf[status]

LEMMA SuffixUpdate ==
    ASSUME NEW p \in Seq(Writes), NEW e \in Seq(Writes), NEW table, NEW i, NEW k \in Nat,
           Settles(e, k, table, i), NEW old
    PROVE  Updated(old, Then(p, e), table, i) = e[k].value
  <1>1. /\ Then(p, e) \in Seq(Writes)
        /\ Settles(Then(p, e), Len(p) + k, table, i)
        /\ Then(p, e)[Len(p) + k] = e[k]
    BY SuffixWrite
  <1> QED
    BY <1>1, UpdatedBy

LEMMA SuffixEvent ==
    ASSUME NEW p \in Seq(Writes), NEW e \in Seq(Writes), NEW k \in Nat,
           Settles(e, k, "events", 0), NEW old, NEW new, Rewritten(old, new, Then(p, e))
    PROVE  new.events # <<>> /\ Last(new.events) = e[k].value
  <1>1. /\ Then(p, e) \in Seq(Writes)
        /\ Settles(Then(p, e), Len(p) + k, "events", 0)
        /\ Then(p, e)[Len(p) + k] = e[k]
    BY SuffixWrite
  <1> QED
    BY <1>1 DEF Rewritten, Settles

LEMMA FailEffect ==
    ASSUME NEW old, NEW new, NEW p \in Seq(Writes), Rewritten(old, new, Then(p, FailRun))
    PROVE  Ended(new, "failed")
  <1>1. /\ FailRun \in Seq(Writes) /\ DOMAIN FailRun = {1, 2, 3, 4}
        /\ FailRun[1] = SetMessage("error") /\ FailRun[2] = Event("message.failed")
        /\ FailRun[3] = SetRun("failed") /\ FailRun[4] = Event("run.failed")
    BY ListTypes DEF FailRun, Own
  <1>2. /\ Settles(FailRun, 3, "run", 0) /\ FailRun[3].value = "failed"
        /\ Settles(FailRun, 1, "message", 0) /\ FailRun[1].value = "error"
        /\ Settles(FailRun, 4, "events", 0) /\ FailRun[4].value = "run.failed"
    BY <1>1, WriteTable DEF Settles, To
  <1>3. Updated(old.run, Then(p, FailRun), "run", 0) = "failed"
    BY <1>1, <1>2, SuffixUpdate
  <1>4. Updated(old.message, Then(p, FailRun), "message", 0) = "error"
    BY <1>1, <1>2, SuffixUpdate
  <1>5. new.events # <<>> /\ Last(new.events) = "run.failed"
    BY <1>1, <1>2, SuffixEvent
  <1> QED
    BY <1>3, <1>4, <1>5 DEF Rewritten, Ended, MessageOf, EventOf

LEMMA FinalizeEffect ==
    ASSUME NEW old, NEW new, NEW p \in Seq(Writes), Rewritten(old, new, Then(p, FinalizeRun))
    PROVE  Ended(new, "completed")
  <1>1. /\ FinalizeRun \in Seq(Writes) /\ DOMAIN FinalizeRun = {1, 2, 3, 4}
        /\ FinalizeRun[1] = SetMessage("completed") /\ FinalizeRun[2] = Event("message.completed")
        /\ FinalizeRun[3] = SetRun("completed") /\ FinalizeRun[4] = Event("run.completed")
    BY ListTypes DEF FinalizeRun, Own
  <1>2. /\ Settles(FinalizeRun, 3, "run", 0) /\ FinalizeRun[3].value = "completed"
        /\ Settles(FinalizeRun, 1, "message", 0) /\ FinalizeRun[1].value = "completed"
        /\ Settles(FinalizeRun, 4, "events", 0) /\ FinalizeRun[4].value = "run.completed"
    BY <1>1, WriteTable DEF Settles, To
  <1>3. Updated(old.run, Then(p, FinalizeRun), "run", 0) = "completed"
    BY <1>1, <1>2, SuffixUpdate
  <1>4. Updated(old.message, Then(p, FinalizeRun), "message", 0) = "completed"
    BY <1>1, <1>2, SuffixUpdate
  <1>5. new.events # <<>> /\ Last(new.events) = "run.completed"
    BY <1>1, <1>2, SuffixEvent
  <1> QED
    BY <1>3, <1>4, <1>5 DEF Rewritten, Ended, MessageOf, EventOf

\* Well-formed variables.
Nodes == {"coordinator", "supervisor", "specialist", "back", "end"}

Answers == [action : Actions \cup {"none"}, order : Orders \cup {0}]

\* A task that asked waits for the end of its stream; only the task of an answer
\* carries one.
TaskRows ==
    {t \in [run : Runs, tool : Nat, asked : BOOLEAN, at : Nodes \cup {"queued", "load"},
            answer : Answers] :
        /\ t.at = "queued" => t.tool = 0
        /\ t.asked => t.at = "specialist" /\ t.answer = NoAnswer
        /\ t.tool = 0 => t.answer = NoAnswer}

PendingQuestions ==
    [run : Runs, tool : Nat \ {0}, kind : {"approval", "input"}, order : Orders \cup {0}]

Checkpoints ==
    {NoCheckpoint} \cup
    [by : SUBSET Runs, at : Nodes, question : {NoQuestion} \cup PendingQuestions]

TypeOK ==
    /\ db \in [Runs -> Rows]
    /\ tasks \subseteq TaskRows
    /\ latest \in Checkpoints
    /\ refunds \subseteq Runs \X Nat \X (Orders \cup {0})
    /\ reader \in [Runs -> [open : BOOLEAN, after : Nat]]
    /\ cancels \in 0 .. MaxCancels /\ faults \in 0 .. MaxFaults
    /\ answers \in Seq(Runs \X Nat \X Actions)
    /\ impaired \subseteq Runs /\ undone \subseteq Runs /\ crossed \subseteq Runs

LEMMA CommitEffect ==
    ASSUME db \in [Runs -> Rows], NEW r \in Runs, NEW ws \in Seq(Writes), Commit(r, ws)
    PROVE  /\ db' \in [Runs -> Rows]
           /\ \A s \in Runs : s # r => db'[s] = db[s]
           /\ Rewritten(db[r], db'[r], ws)
  <1>1. PICK new : new = Trim(r, Write(db[r], ws))
    OBVIOUS
  <1>2. db[r] \in Rows /\ db' = [db EXCEPT ![r] = new]
    BY <1>1 DEF Commit
  <1>3. Rewritten(db[r], new, ws)
    BY <1>1, <1>2, WriteEffect
  <1>4. new \in Rows
    BY <1>3 DEF Rewritten
  <1> QED
    BY <1>2, <1>3, <1>4

\* Whatever is written to a run, its tool calls keep what they are about, an
\* answered one does not wait again, and it waits for a human only because of a
\* write that says so.
Kept(r) ==
    /\ \A i \in DOMAIN db[r].tools :
          /\ i \in DOMAIN db'[r].tools
          /\ db'[r].tools[i].kind = db[r].tools[i].kind
          /\ db'[r].tools[i].order = db[r].tools[i].order
          /\ db'[r].tools[i].status = "waiting_human" => db[r].tools[i].status = "waiting_human"
    /\ db[r].run # "none" => db'[r].run # "none"

\* The tool calls that are new.
NewIn(r, V) == \A i \in DOMAIN db'[r].tools \ DOMAIN db[r].tools : db'[r].tools[i] \in V

LEMMA CommitKeeps ==
    ASSUME db \in [Runs -> Rows], NEW r \in Runs, NEW ws \in Seq(Writes), Commit(r, ws)
    PROVE  /\ Kept(r)
           /\ \A V : AddsOnly(V, ws) => NewIn(r, V)
           /\ AsksNot(ws) => NewIn(r, {})
           /\ AsksNot(ws) /\ db'[r].run = "requires_action" => db[r].run = "requires_action"
  <1> DEFINE n == Len(db[r].tools)
  <1>1. /\ db[r].tools \in Seq(ToolRows) /\ db'[r].tools \in Seq(ToolRows)
        /\ Rewritten(db[r], db'[r], ws)
    BY CommitEffect DEF Rows
  <1>2. Cardinality(To(ws, "tools", 0)) \in Nat
    BY ToPositions
  <1>3. n \in Nat /\ DOMAIN db[r].tools = 1 .. n /\ DOMAIN db'[r].tools = 1 .. Len(db'[r].tools)
    BY <1>1, LenProperties
  <1>4. Len(db'[r].tools) \in Nat /\ n <= Len(db'[r].tools)
    BY <1>1, <1>2, <1>3 DEF Rewritten
  <1>5. ASSUME NEW i \in 1 .. n, db'[r].tools[i].status = "waiting_human"
        PROVE  db[r].tools[i].status = "waiting_human"
    <2>1. Updated(db[r].tools[i].status, ws, "tool", i) = "waiting_human"
      BY <1>1, <1>5 DEF Rewritten
    <2> QED
      BY <2>1, <1>3, WriteValues, UpdatedLast
  <1>6. \A i \in DOMAIN db[r].tools :
          /\ i \in DOMAIN db'[r].tools
          /\ db'[r].tools[i].kind = db[r].tools[i].kind
          /\ db'[r].tools[i].order = db[r].tools[i].order
    BY <1>1, <1>3, <1>4 DEF Rewritten
  <1>7. db'[r].run = Updated(db[r].run, ws, "run", 0)
    BY <1>1 DEF Rewritten
  <1>8. db[r].run # "none" => db'[r].run # "none"
    BY <1>7, WriteValues, UpdatedLast
  <1>9. AsksNot(ws) /\ db'[r].run = "requires_action" => db[r].run = "requires_action"
    BY <1>7, UpdatedLast DEF AsksNot
  <1>10. ASSUME NEW V, AddsOnly(V, ws) PROVE NewIn(r, V)
    <2>1. \A i \in n + 1 .. Len(db'[r].tools) : db'[r].tools[i] \in V
      BY <1>1, <1>10 DEF Rewritten
    <2> QED
      BY <1>3, <1>4, <2>1 DEF NewIn
  <1>11. AsksNot(ws) => NewIn(r, {})
    BY <1>10 DEF AsksNot, AddsOnly
  <1> QED
    BY <1>3, <1>5, <1>6, <1>8, <1>9, <1>10, <1>11 DEF Kept

\* What stays as it was.
SameStatus(r, i) == i \in DOMAIN db[r].tools =>
    i \in DOMAIN db'[r].tools /\ db'[r].tools[i].status = db[r].tools[i].status

LEMMA CommitOwn ==
    ASSUME db \in [Runs -> Rows], NEW r \in Runs, NEW j, NEW ws, Own(j, ws), Commit(r, ws)
    PROVE  /\ \A i \in DOMAIN db[r].tools : i # j => SameStatus(r, i)
           /\ To(ws, "tool", j) = {} => \A i \in DOMAIN db[r].tools : SameStatus(r, i)
  <1>1. ws \in Seq(Writes)
    BY DEF Own
  <1>2. Rewritten(db[r], db'[r], ws) /\ Kept(r) /\ db[r].tools \in Seq(ToolRows)
    BY <1>1, CommitEffect, CommitKeeps DEF Rows
  <1>3. DOMAIN db[r].tools = 1 .. Len(db[r].tools) /\ Len(db[r].tools) \in Nat
    BY <1>2, LenProperties
  <1>4. ASSUME NEW i \in DOMAIN db[r].tools, To(ws, "tool", i) = {}
        PROVE  SameStatus(r, i)
    <2>1. Updated(db[r].tools[i].status, ws, "tool", i) = db[r].tools[i].status
      BY <1>1, <1>4, UpdatedLast
    <2> QED
      BY <1>2, <1>3, <2>1 DEF Rewritten, SameStatus, Kept
  <1> QED
    BY <1>3, <1>4 DEF Own

LEMMA CancelEffect ==
    ASSUME db \in [Runs -> Rows], NEW r \in Runs
    PROVE  /\ CancelRun(r) \in Seq(Writes) /\ AsksNot(CancelRun(r))
           /\ \A old, new : Rewritten(old, new, CancelRun(r)) => Ended(new, "cancelled")
  <1> DEFINE tool == CHOOSE i \in Waiting(r) : TRUE
             p == IF Waiting(r) = {} THEN <<>>
                  ELSE <<SetTool(tool, "cancelled"), Event("tool_call.updated")>>
             a == SetRun("cancelled")
             b == SetMessage("cancelled")
             c == Event("message.cancelled")
             d == Event("run.cancelled")
             e == <<a, b, c, d>>
  <1>1. db[r].tools \in Seq(ToolRows)
    BY DEF Rows
  <1>2. Waiting(r) \subseteq Nat \ {0}
    BY <1>1, LenProperties DEF Waiting
  <1>3. p \in Seq(Writes) /\ AsksNot(p)
    <2>1. CASE Waiting(r) = {}
      <3>1. p = <<>>
        BY <2>1
      <3> QED
        BY <3>1 DEF AsksNot, To
    <2>2. CASE Waiting(r) # {}
      <3>1. tool \in Nat \ {0}
        BY <1>2, <2>2
      <3> HIDE DEF tool
      <3>2. Harmless(tool, SetTool(tool, "cancelled")) /\ Harmless(tool, Event("tool_call.updated"))
        BY <3>1, HarmlessWrites DEF EventTypes
      <3>3. p = <<SetTool(tool, "cancelled"), Event("tool_call.updated")>>
        BY <2>2
      <3> QED
        BY <3>1, <3>2, <3>3, HarmlessLists DEF Own
    <2> QED
      BY <2>1, <2>2
  <1>4. Harmless(0, a) /\ Harmless(0, b) /\ Harmless(0, c) /\ Harmless(0, d)
    BY HarmlessWrites DEF EventTypes, RunStatuses, MessageStatuses, EndStatuses
  <1>5. e \in Seq(Writes) /\ AsksNot(e)
    BY <1>4, HarmlessLists DEF Own
  <1>6. CancelRun(r) = Then(p, e)
    BY DEF CancelRun, Then
  <1>7. /\ DOMAIN e = {1, 2, 3, 4}
        /\ e[1] = a /\ e[2] = b /\ e[3] = c /\ e[4] = d
    OBVIOUS
  <1>8. /\ a.table = "run" /\ a.at = 0 /\ a.value = "cancelled"
        /\ b.table = "message" /\ b.at = 0 /\ b.value = "cancelled"
        /\ c.table = "events" /\ d.table = "events" /\ d.at = 0 /\ d.value = "run.cancelled"
    BY WriteTable
  <1> HIDE DEF a, b, c, d, e, p
  <1>9. /\ Settles(e, 1, "run", 0) /\ Settles(e, 2, "message", 0) /\ Settles(e, 4, "events", 0)
        /\ e[1].value = "cancelled" /\ e[2].value = "cancelled" /\ e[4].value = "run.cancelled"
    BY <1>7, <1>8 DEF Settles, To
  <1>10. ASSUME NEW old, NEW new, Rewritten(old, new, CancelRun(r))
         PROVE  Ended(new, "cancelled")
    <2>1. Rewritten(old, new, Then(p, e))
      BY <1>6, <1>10
    <2>2. Updated(old.run, Then(p, e), "run", 0) = "cancelled"
      BY <1>3, <1>5, <1>9, SuffixUpdate
    <2>3. Updated(old.message, Then(p, e), "message", 0) = "cancelled"
      BY <1>3, <1>5, <1>9, SuffixUpdate
    <2>4. new.events # <<>> /\ Last(new.events) = "run.cancelled"
      BY <1>3, <1>5, <1>9, <2>1, SuffixEvent
    <2> QED
      BY <2>1, <2>2, <2>3, <2>4 DEF Rewritten, Ended, MessageOf, EventOf
  <1>11. CancelRun(r) \in Seq(Writes) /\ AsksNot(CancelRun(r))
    BY <1>3, <1>5, <1>6, ConcatProperties, AsksNotConcat DEF Then
  <1> QED
    BY <1>10, <1>11

-----------------------------------------------------------------------------
(* The steps of a task.                                                     *)

\* Whatever is written to the rows of run r.
Bounded(r) ==
    /\ db' \in [Runs -> Rows]
    /\ \A s \in Runs : s # r => db'[s] = db[s]
    /\ Kept(r)
    /\ db'[r].run = "requires_action" =>
          db[r].run = "requires_action" \/ Waiting(r) = {}

OthersKept(t) == \A i \in DOMAIN db[t.run].tools : i # t.tool => SameStatus(t.run, i)
ToolsKept(t) == \A i \in DOMAIN db[t.run].tools : SameStatus(t.run, i)
SameEnd(t) == db'[t.run].run = db[t.run].run /\ db'[t.run].message = db[t.run].message

\* A new tool call is the question that the thread's checkpoint is left with.
NewRows(t) ==
    \A i \in DOMAIN db'[t.run].tools \ DOMAIN db[t.run].tools :
        latest' = PutWrites(t, db'[t.run].tools[i].kind, db'[t.run].tools[i].order)

\* The task is gone, with the rest of an update.
Lost(t) ==
    /\ tasks' = tasks \ {t} /\ impaired' = impaired \cup {t.run}
    /\ faults' # faults \/ (~t.asked /\ db' = db)

\* The task has ended its run.
EndsRun(t, status) ==
    /\ tasks' = tasks \ {t} /\ impaired' = impaired
    /\ Ended(db'[t.run], status)
    /\ OthersKept(t)
    /\ faults' # faults \/ ~t.asked

\* The task is over and leaves the run as it is.
LeavesRun(t) ==
    /\ t.asked \/ db[t.run].run = "cancelled"
    /\ tasks' = tasks \ {t} /\ impaired' = impaired
    /\ SameEnd(t) /\ OthersKept(t) /\ NewIn(t.run, {})
    /\ db[t.run].events # <<>> =>
          /\ db'[t.run].events # <<>>
          /\ Last(db'[t.run].events) \in {Last(db[t.run].events), "tool_call.completed"}

\* An approval that the task carries from the checkpoint was given to it, and the
\* question it meets is its own unless the run is among the crossed ones.
Loads(t, u) ==
    u.answer.action = "approve" =>
        /\ t.answer.action = "approve"
        /\ \/ t.run \in crossed'
           \/ /\ latest.question.run = t.run /\ latest.question.tool = t.tool
              /\ latest.question.kind = "approval" /\ latest.question.order = u.answer.order

Replaced(t, u) ==
    /\ u \in TaskRows /\ tasks' = (tasks \ {t}) \cup {u} /\ impaired' = impaired
    /\ u.run = t.run /\ u.tool = t.tool /\ u.at # "queued"
    /\ u.at = "load" <=> t.at = "queued"
    /\ t.at = "load" => t.run \in latest'.by /\ Loads(t, u)
    /\ t.at # "load" => u.answer \in {t.answer, NoAnswer}

\* The graph has taken a step.
GoesOn(t) ==
    /\ t.at # "queued"
    /\ \E u : Replaced(t, u) /\ u.asked = t.asked
    /\ SameEnd(t) /\ ToolsKept(t)
    /\ db[t.run].events # <<>> => db'[t.run].events # <<>>
    /\ ~t.asked /\ (db' = db \/ db[t.run].run # "cancelled")

Starts(t) ==
    /\ t.at = "queued"
    /\ \E u : Replaced(t, u) /\ u.asked = t.asked
    /\ db'[t.run].run = "running" /\ ToolsKept(t)

Asks(t) ==
    /\ t.at # "queued" /\ ~t.asked /\ db[t.run].run # "cancelled" /\ Waiting(t.run) = {}
    /\ \E u : Replaced(t, u) /\ u.asked
    /\ db'[t.run].run = "requires_action"
    /\ DOMAIN db'[t.run].tools = DOMAIN db[t.run].tools \cup {Len(db[t.run].tools) + 1}

TaskStep(t) ==
    /\ Bounded(t.run) /\ NewRows(t)
    /\ \/ Lost(t) \/ EndsRun(t, "failed") \/ EndsRun(t, "completed") \/ LeavesRun(t)
       \/ GoesOn(t) \/ Starts(t) \/ Asks(t)

\* The writes of a commit keep within bounds.
LEMMA CommitBounded ==
    ASSUME TypeOK, NEW t \in tasks, NEW ws, Own(t.tool, ws), Commit(t.run, ws),
           AsksNot(ws) \/ Waiting(t.run) = {}
    PROVE  /\ Bounded(t.run) /\ OthersKept(t) /\ Rewritten(db[t.run], db'[t.run], ws)
           /\ AsksNot(ws) => NewRows(t)
           /\ \A V : AddsOnly(V, ws) => NewIn(t.run, V)
  <1>1. t.run \in Runs /\ db \in [Runs -> Rows] /\ ws \in Seq(Writes)
    BY DEF TypeOK, TaskRows, Own
  <1>2. /\ db' \in [Runs -> Rows]
        /\ \A s \in Runs : s # t.run => db'[s] = db[s]
        /\ Rewritten(db[t.run], db'[t.run], ws)
    BY <1>1, CommitEffect
  <1>3. /\ Kept(t.run)
        /\ AsksNot(ws) /\ db'[t.run].run = "requires_action" => db[t.run].run = "requires_action"
        /\ \A V : AddsOnly(V, ws) => NewIn(t.run, V)
        /\ AsksNot(ws) => NewIn(t.run, {})
    BY <1>1, CommitKeeps
  <1>5. AsksNot(ws) => NewRows(t)
    BY <1>3 DEF NewIn, NewRows
  <1>4. OthersKept(t)
    BY <1>1, CommitOwn DEF OthersKept
  <1> QED
    BY <1>2, <1>3, <1>4, <1>5 DEF Bounded

LEMMA ThenAssociative ==
    ASSUME NEW p \in Seq(Writes), NEW q \in Seq(Writes), NEW e \in Seq(Writes)
    PROVE  Then(p, Then(q, e)) = Then(Then(p, q), e)
  BY ConcatAssociative, SMTT(30) DEF Then

LEMMA EmptyWrites ==
    ASSUME NEW i
    PROVE  Own(i, <<>>) /\ AsksNot(<<>>) /\ \A ws \in Seq(Writes) : Then(<<>>, ws) = ws
  BY ConcatEmptySeq DEF Own, AsksNot, To, Then

LEMMA ThenOwn ==
    ASSUME NEW i, NEW p, NEW e, Own(i, p), Own(i, e)
    PROVE  Own(i, Then(p, e)) /\ (AsksNot(p) /\ AsksNot(e) => AsksNot(Then(p, e)))
  BY OwnConcat, AsksNotConcat DEF Then, Own

\* The except branch fails the run, whatever was written before.
LEMMA HandlesWrites ==
    ASSUME NEW t \in TaskRows
    PROVE  \E h : Own(t.tool, h) /\ AsksNot(h) /\ Handles(t) = Then(h, FailRun)
  <1>1. t.tool \in Nat
    BY DEF TaskRows
  <1>2. CASE t.tool = 0
    <2>1. Handles(t) = FailRun /\ FailRun \in Seq(Writes)
      BY <1>1, <1>2, ListTypes DEF Handles, Own
    <2> QED
      BY <2>1, EmptyWrites
  <1>3. CASE t.tool # 0
    <2>1. Own(t.tool, OnToolCallFailed(t.tool)) /\ AsksNot(OnToolCallFailed(t.tool))
      BY <1>1, <1>3, ToolListTypes
    <2>2. Handles(t) = Then(OnToolCallFailed(t.tool), FailRun)
      BY <1>3 DEF Handles, Then
    <2> QED
      BY <2>1, <2>2
  <1> QED
    BY <1>2, <1>3

LEMMA HandlesEffect ==
    ASSUME TypeOK, NEW t \in tasks, NEW p, Own(t.tool, p),
           AsksNot(p) \/ Waiting(t.run) = {}, Commit(t.run, Then(p, Handles(t)))
    PROVE  /\ Bounded(t.run) /\ OthersKept(t) /\ Ended(db'[t.run], "failed")
           /\ AsksNot(p) => NewRows(t)
           /\ \A V : AddsOnly(V, p) => NewIn(t.run, V)
  <1>1. t \in TaskRows /\ t.tool \in Nat
    BY DEF TypeOK, TaskRows
  <1>2. PICK h : Own(t.tool, h) /\ AsksNot(h) /\ Handles(t) = Then(h, FailRun)
    BY <1>1, HandlesWrites
  <1>3. Own(t.tool, FailRun) /\ AsksNot(FailRun)
    BY <1>1, ListTypes
  <1>4. Own(t.tool, Then(p, h)) /\ (AsksNot(p) => AsksNot(Then(p, h)))
    BY <1>2, ThenOwn
  <1>5. Then(p, Handles(t)) = Then(Then(p, h), FailRun)
    BY <1>2, <1>3, ThenAssociative DEF Own
  <1>6. /\ Own(t.tool, Then(Then(p, h), FailRun))
        /\ AsksNot(p) => AsksNot(Then(Then(p, h), FailRun))
    BY <1>3, <1>4, ThenOwn
  <1>7. /\ Bounded(t.run) /\ OthersKept(t)
        /\ Rewritten(db[t.run], db'[t.run], Then(Then(p, h), FailRun))
        /\ AsksNot(p) => NewRows(t)
        /\ \A V : AddsOnly(V, Then(Then(p, h), FailRun)) => NewIn(t.run, V)
    BY <1>5, <1>6, CommitBounded
  <1>8. Then(p, h) \in Seq(Writes) /\ p \in Seq(Writes) /\ h \in Seq(Writes) /\ FailRun \in Seq(Writes)
    BY <1>2, <1>3, <1>4 DEF Own
  <1>9. ASSUME NEW V, AddsOnly(V, p) PROVE NewIn(t.run, V)
    <2>1. AddsOnly(V, h) /\ AddsOnly(V, FailRun)
      BY <1>2, <1>3 DEF AsksNot, AddsOnly
    <2>2. AddsOnly(V, Then(p, h))
      BY <1>8, <1>9, <2>1, AddsOnlyConcat DEF Then
    <2>3. AddsOnly(V, Then(Then(p, h), FailRun))
      BY <1>8, <2>1, <2>2, AddsOnlyConcat DEF Then
    <2> QED
      BY <1>7, <2>3
  <1> QED
    BY <1>7, <1>8, <1>9, FailEffect

\* The writes of a task succeed, or the run fails, or the task is lost.
LEMMA WorkEffect ==
    ASSUME TypeOK, NEW t \in tasks, NEW ws, NEW next, Own(t.tool, ws),
           AsksNot(ws) \/ Waiting(t.run) = {}, Work(t, ws, next)
    PROVE  /\ Bounded(t.run)
           /\ AsksNot(ws) => NewRows(t)
           /\ \A V : AddsOnly(V, ws) => NewIn(t.run, V)
           /\ \/ /\ tasks' = (tasks \ {t}) \cup next /\ impaired' = impaired
                 /\ Commit(t.run, ws) /\ OthersKept(t) /\ Rewritten(db[t.run], db'[t.run], ws)
              \/ EndsRun(t, "failed")
              \/ Lost(t)
  <1>1. CASE /\ Commit(t.run, ws)
             /\ tasks' = (tasks \ {t}) \cup next
             /\ UNCHANGED <<faults, impaired>>
    BY <1>1, CommitBounded
  <1>0. faults \in Nat
    BY DEF TypeOK
  <1>2. CASE /\ faults' = faults + 1
             /\ tasks' = tasks \ {t}
             /\ \E k \in 0 .. Len(ws) - 1 :
                  \/ /\ Commit(t.run, SubSeq(ws, 1, k) \o Handles(t))
                     /\ impaired' = impaired
                  \/ /\ Commit(t.run, SubSeq(ws, 1, k))
                     /\ impaired' = impaired \cup {t.run}
    <2>1. PICK k \in 0 .. Len(ws) - 1 :
                  \/ /\ Commit(t.run, SubSeq(ws, 1, k) \o Handles(t))
                     /\ impaired' = impaired
                  \/ /\ Commit(t.run, SubSeq(ws, 1, k))
                     /\ impaired' = impaired \cup {t.run}
      BY <1>2
    <2>2. PICK p : p = SubSeq(ws, 1, k)
      OBVIOUS
    <2>3. /\ Own(t.tool, p) /\ (AsksNot(p) \/ Waiting(t.run) = {})
          /\ AsksNot(ws) => AsksNot(p)
          /\ \A V : AddsOnly(V, ws) => AddsOnly(V, p)
      BY <2>2, PrefixOwn
    <2>4. CASE Commit(t.run, SubSeq(ws, 1, k) \o Handles(t)) /\ impaired' = impaired
      <3>1. Commit(t.run, Then(p, Handles(t)))
        BY <2>2, <2>4 DEF Then
      <3> QED
        BY <1>0, <1>2, <2>3, <2>4, <3>1, HandlesEffect DEF EndsRun
    <2>5. CASE Commit(t.run, SubSeq(ws, 1, k)) /\ impaired' = impaired \cup {t.run}
      <3>1. Commit(t.run, p)
        BY <2>2, <2>5
      <3> QED
        BY <1>0, <1>2, <2>3, <2>5, <3>1, CommitBounded DEF Lost
    <2> QED
      BY <2>1, <2>4, <2>5
  <1> QED
    BY <1>1, <1>2 DEF Work

LEMMA QuietStep ==
    ASSUME TypeOK, NEW t \in tasks, db' = db
    PROVE  Bounded(t.run) /\ OthersKept(t) /\ ToolsKept(t) /\ SameEnd(t) /\ NewRows(t)
  BY DEF TypeOK, TaskRows, Bounded, Kept, OthersKept, ToolsKept, SameEnd, SameStatus, NewRows

\* Writes that go to no tool call leave all of them alone.
LEMMA CommitNoTool ==
    ASSUME TypeOK, NEW t \in tasks, NEW ws, Own(0, ws), Commit(t.run, ws)
    PROVE  ToolsKept(t)
  <1>1. t.run \in Runs /\ db \in [Runs -> Rows] /\ db[t.run].tools \in Seq(ToolRows)
    BY DEF TypeOK, TaskRows, Rows
  <1>2. \A i \in DOMAIN db[t.run].tools : i # 0
    BY <1>1, LenProperties
  <1>3. \A i \in DOMAIN db[t.run].tools : i # 0 => SameStatus(t.run, i)
    BY <1>1, CommitOwn
  <1> QED
    BY <1>2, <1>3 DEF ToolsKept

LEMMA StartStep ==
    ASSUME TypeOK, NEW t \in tasks, Start(t)
    PROVE  TaskStep(t)
  <1> DEFINE ws == Then(OnRunCreated, OnRunStarted)
             u == [t EXCEPT !.at = "load"]
  <1>1. t \in TaskRows /\ t.tool \in Nat /\ t.run \in Runs
    BY DEF TypeOK, TaskRows
  <1>2. Own(t.tool, ws) /\ AsksNot(ws) /\ Own(0, ws)
    BY <1>1, ListTypes, ThenOwn
  <1>3. OnRunCreated \in Seq(Writes) /\ OnRunStarted \in Seq(Writes)
    BY <1>1, ListTypes DEF Own
  <1>4. Settles(OnRunStarted, 1, "run", 0) /\ OnRunStarted[1].value = "running"
    BY WriteTable DEF OnRunStarted, Settles, To
  <1>5. \A old : Updated(old, ws, "run", 0) = "running"
    BY <1>3, <1>4, SuffixUpdate
  <1>6. t.at = "queued" /\ Work(t, ws, {u})
    BY DEF Start, Then
  <1> HIDE DEF ws
  <1>7. u \in TaskRows /\ u.run = t.run /\ u.tool = t.tool /\ u.at = "load"
        /\ u.asked = t.asked /\ u.answer = t.answer
    BY <1>1, <1>6 DEF TaskRows
  <1> HIDE DEF u
  <1>8. /\ Bounded(t.run) /\ NewRows(t)
        /\ \/ /\ tasks' = (tasks \ {t}) \cup {u} /\ impaired' = impaired
              /\ Commit(t.run, ws) /\ Rewritten(db[t.run], db'[t.run], ws)
           \/ EndsRun(t, "failed")
           \/ Lost(t)
    BY <1>2, <1>6, WorkEffect
  <1>9. CASE /\ tasks' = (tasks \ {t}) \cup {u} /\ impaired' = impaired
             /\ Commit(t.run, ws) /\ Rewritten(db[t.run], db'[t.run], ws)
    <2>1. db'[t.run].run = "running"
      BY <1>5, <1>9 DEF Rewritten
    <2>2. ToolsKept(t)
      BY <1>2, <1>9, CommitNoTool
    <2>3. Replaced(t, u) /\ u.asked = t.asked
      BY <1>6, <1>7, <1>9 DEF Replaced
    <2> QED
      BY <1>6, <1>8, <2>1, <2>2, <2>3 DEF TaskStep, Starts
  <1> QED
    BY <1>8, <1>9 DEF TaskStep

LEMMA DeltaColumns ==
    /\ To(OnMessageDelta, "run", 0) = {} /\ To(OnMessageDelta, "message", 0) = {}
    /\ Settles(OnMessageDelta, 1, "events", 0)
  <1>1. PICK e : e = Event("message.delta")
    OBVIOUS
  <1>2. OnMessageDelta = <<e>> /\ e.table = "events" /\ e.at = 0
    BY <1>1, WriteTable DEF OnMessageDelta
  <1>3. DOMAIN <<e>> = {1} /\ <<e>>[1] = e
    OBVIOUS
  <1> QED
    BY <1>2, <1>3 DEF To, Settles

\* A reply of the model: an event and nothing else.
LEMMA ReplyStep ==
    ASSUME TypeOK, NEW t \in tasks, Streams(t),
           NEW node \in {"end", "back"},
           Advance(t, ProjectChunk("messages", "", 0, {}), node)
    PROVE  TaskStep(t)
  <1> DEFINE u == [t EXCEPT !.at = node]
  <1>1. t \in TaskRows /\ t.tool \in Nat /\ t.run \in Runs
    BY DEF TypeOK, TaskRows
  <1>2. /\ Own(t.tool, OnMessageDelta) /\ AsksNot(OnMessageDelta) /\ Own(0, OnMessageDelta)
        /\ OnMessageDelta \in Seq(Writes)
    BY <1>1, ListTypes DEF Own
  <1>3. /\ To(OnMessageDelta, "run", 0) = {} /\ To(OnMessageDelta, "message", 0) = {}
        /\ Settles(OnMessageDelta, 1, "events", 0)
    BY DeltaColumns
  <1>4. Work(t, OnMessageDelta, {u})
    BY DEF ProjectChunk, Advance
  <1>6. t.at \notin {"queued", "load"} /\ ~t.asked /\ db[t.run].run # "cancelled"
    BY DEF Streams, Streaming, ShouldStop
  <1>5. u \in TaskRows /\ u.run = t.run /\ u.tool = t.tool /\ u.at = node
        /\ u.asked = t.asked /\ u.answer = t.answer
    BY <1>1, <1>6 DEF TaskRows, Nodes
  <1> HIDE DEF u
  <1>7. /\ Bounded(t.run) /\ NewRows(t)
        /\ \/ /\ tasks' = (tasks \ {t}) \cup {u} /\ impaired' = impaired
              /\ Commit(t.run, OnMessageDelta) /\ Rewritten(db[t.run], db'[t.run], OnMessageDelta)
           \/ EndsRun(t, "failed")
           \/ Lost(t)
    BY <1>2, <1>4, WorkEffect
  <1>8. CASE /\ tasks' = (tasks \ {t}) \cup {u} /\ impaired' = impaired
             /\ Commit(t.run, OnMessageDelta) /\ Rewritten(db[t.run], db'[t.run], OnMessageDelta)
    <2>1. SameEnd(t)
      BY <1>2, <1>3, <1>8, UpdatedLast DEF Rewritten, SameEnd
    <2>2. ToolsKept(t)
      BY <1>2, <1>8, CommitNoTool
    <2>3. Replaced(t, u) /\ u.asked = t.asked
      BY <1>5, <1>6, <1>8 DEF Replaced
    <2>4. db'[t.run].events # <<>>
      BY <1>3, <1>8 DEF Rewritten, Settles
    <2> QED
      BY <1>6, <1>7, <2>1, <2>2, <2>3, <2>4 DEF TaskStep, GoesOn
  <1> QED
    BY <1>7, <1>8 DEF TaskStep

\* A step of the graph that writes nothing.
LEMMA QuietGraphStep ==
    ASSUME TypeOK, NEW t \in tasks, t.at \notin {"queued", "load"}, ~t.asked,
           db' = db, impaired' = impaired,
           NEW node \in {"supervisor", "specialist", "end", t.at},
           NEW answer \in {t.answer, NoAnswer},
           tasks' = (tasks \ {t}) \cup {[t EXCEPT !.at = node, !.answer = answer]}
    PROVE  TaskStep(t)
  <1> DEFINE u == [t EXCEPT !.at = node, !.answer = answer]
  <1>1. t \in TaskRows
    BY DEF TypeOK
  <1>2. NoAnswer \in Answers
    BY DEF NoAnswer, Answers
  <1>3. /\ u \in TaskRows /\ u.run = t.run /\ u.tool = t.tool /\ u.at \notin {"queued", "load"}
        /\ u.asked = t.asked /\ u.answer = answer
    BY <1>1, <1>2 DEF TaskRows, Nodes
  <1>4. Replaced(t, u) /\ u.asked = t.asked
    BY <1>3 DEF Replaced
  <1> QED
    BY <1>4, QuietStep DEF TaskStep, GoesOn

LEMMA CoordinatorStep ==
    ASSUME TypeOK, NEW t \in tasks, CoordinatorNode(t) \/ SupervisorNode(t) \/ SpecialistNode(t)
    PROVE  TaskStep(t)
  <1>1. ASSUME NEW node \in {"supervisor", "specialist", "end"}, Goto(t, node), Streams(t)
        PROVE  TaskStep(t)
    <2>1. t \in TaskRows
      BY DEF TypeOK
    <2>2. [t EXCEPT !.at = node] = [t EXCEPT !.at = node, !.answer = t.answer]
      BY <2>1 DEF TaskRows
    <2> QED
      BY <1>1, <2>2, QuietGraphStep DEF Goto, Streams, Streaming
  <1>2. CASE CoordinatorNode(t)
    <2>1. CASE Advance(t, ProjectChunk("messages", "", 0, {}), "end")
      BY <1>2, <2>1, ReplyStep DEF CoordinatorNode
    <2>2. CASE Goto(t, "supervisor")
      BY <1>1, <1>2, <2>2 DEF CoordinatorNode
    <2> QED
      BY <1>2, <2>1, <2>2 DEF CoordinatorNode, CoordinatorDecisions, NextFromCoordinator
  <1>3. CASE SupervisorNode(t)
    BY <1>1, <1>3 DEF SupervisorNode, NextAgents, NextFromSupervisor
  <1>4. CASE SpecialistNode(t)
    BY <1>4, ReplyStep DEF SpecialistNode, RunToolAgent
  <1> QED
    BY <1>2, <1>3, <1>4

LEMMA AnswerStep ==
    ASSUME TypeOK, NEW t \in tasks, Decline(t) \/ InvokeApprovedTool(t)
    PROVE  TaskStep(t)
  <1>1. t \in TaskRows /\ t.at = "specialist" /\ db' = db /\ impaired' = impaired
    BY DEF TypeOK, Decline, InvokeApprovedTool
  <1>4. ~t.asked
    <2>1. t.answer # NoAnswer
      BY DEF Decline, InvokeApprovedTool, NoAnswer
    <2> QED
      BY <1>1, <2>1 DEF TaskRows
  <1>2. tasks' = (tasks \ {t}) \cup {[t EXCEPT !.answer = NoAnswer]}
    BY DEF Decline, InvokeApprovedTool
  <1>3. [t EXCEPT !.answer = NoAnswer] = [t EXCEPT !.at = t.at, !.answer = NoAnswer]
    BY <1>1 DEF TaskRows
  <1> QED
    BY <1>1, <1>2, <1>3, <1>4, QuietGraphStep

\* A task that gives up.
LEMMA FailStep ==
    ASSUME TypeOK, NEW t \in tasks, ~t.asked, NEW h,
           Own(t.tool, h), AsksNot(h), Work(t, Then(h, FailRun), {})
    PROVE  TaskStep(t)
  <1>1. t.tool \in Nat
    BY DEF TypeOK, TaskRows
  <1>2. Own(t.tool, FailRun) /\ AsksNot(FailRun) /\ h \in Seq(Writes)
    BY <1>1, ListTypes DEF Own
  <1>3. Own(t.tool, Then(h, FailRun)) /\ AsksNot(Then(h, FailRun))
    BY <1>2, ThenOwn
  <1>4. /\ Bounded(t.run) /\ NewRows(t)
        /\ \/ /\ tasks' = (tasks \ {t}) \cup {} /\ impaired' = impaired
              /\ OthersKept(t) /\ Rewritten(db[t.run], db'[t.run], Then(h, FailRun))
           \/ EndsRun(t, "failed")
           \/ Lost(t)
    BY <1>3, WorkEffect
  <1>5. CASE /\ tasks' = (tasks \ {t}) \cup {} /\ impaired' = impaired
             /\ OthersKept(t) /\ Rewritten(db[t.run], db'[t.run], Then(h, FailRun))
    <2>1. Ended(db'[t.run], "failed")
      BY <1>2, <1>5, FailEffect
    <2>2. EndsRun(t, "failed")
      BY <1>5, <2>1 DEF EndsRun
    <2> QED
      BY <1>4, <2>2 DEF TaskStep
  <1> QED
    BY <1>4, <1>5 DEF TaskStep

LEMMA NothingToResumeStep ==
    ASSUME TypeOK, NEW t \in tasks, NothingToResume(t)
    PROVE  TaskStep(t)
  <1>1. t \in TaskRows /\ ~t.asked
    BY DEF TypeOK, TaskRows, NothingToResume
  <1>2. PICK h : Own(t.tool, h) /\ AsksNot(h) /\ Handles(t) = Then(h, FailRun)
    BY <1>1, HandlesWrites
  <1> QED
    BY <1>1, <1>2, FailStep DEF NothingToResume

\* The first step of a task in the graph.
LEMMA LoadInputStep ==
    ASSUME TypeOK, NEW t \in tasks, LoadInput(t)
    PROVE  TaskStep(t)
  <1> DEFINE u == [t EXCEPT !.at = "coordinator"]
  <1>1. t \in TaskRows /\ t.at = "load" /\ t.tool = 0 /\ db' = db /\ impaired' = impaired
    BY DEF TypeOK, LoadInput
  <1>2. ~t.asked /\ t.answer = NoAnswer
    BY <1>1 DEF TaskRows
  <1>3. /\ u \in TaskRows /\ u.run = t.run /\ u.tool = t.tool /\ u.at = "coordinator"
        /\ u.asked = t.asked /\ u.answer = NoAnswer
    BY <1>1, <1>2 DEF TaskRows, Nodes
  <1>4. tasks' = (tasks \ {t}) \cup {u} /\ t.run \in latest'.by
    BY DEF LoadInput, Put, Checkpoint
  <1> HIDE DEF u
  <1>5. Replaced(t, u) /\ u.asked = t.asked
    BY <1>1, <1>3, <1>4 DEF Replaced, Loads, NoAnswer
  <1> QED
    BY <1>1, <1>2, <1>5, QuietStep DEF TaskStep, GoesOn

LEMMA LoadCheckpointStep ==
    ASSUME TypeOK, NEW t \in tasks, LoadCheckpoint(t)
    PROVE  TaskStep(t)
  <1>1. /\ t \in TaskRows /\ t.at = "load" /\ t.tool # 0 /\ latest # NoCheckpoint
        /\ db' = db /\ impaired' = impaired
    BY DEF TypeOK, LoadCheckpoint
  <1>2. /\ latest.at \in Nodes /\ latest.by \subseteq Runs
        /\ latest.question \in {NoQuestion} \cup PendingQuestions
        /\ latest \in [by : SUBSET Runs, at : Nodes, question : {NoQuestion} \cup PendingQuestions]
    BY <1>1 DEF TypeOK, Checkpoints
  <1>3. PICK q \in Met : tasks' = (tasks \ {t}) \cup {[t EXCEPT !.at = latest.at, !.answer = Taken(t, q)]}
    BY DEF LoadCheckpoint
  <1>4. q.kind \in {"approval", "input"} /\ q.order \in Orders \cup {0}
    BY <1>2 DEF Met, Questions, PendingQuestions
  <1>5. PICK a : a = Taken(t, q)
    OBVIOUS
  <1>6. t.answer \in Answers /\ NoAnswer \in Answers
    BY <1>1 DEF TaskRows, NoAnswer, Answers
  <1>7. /\ a \in Answers
        /\ a.action = "approve" => /\ t.answer.action = "approve"
                                   /\ q.kind = "approval" /\ a.order = q.order
    BY <1>4, <1>5, <1>6 DEF Taken, NormalizeDecision, NoAnswer, Answers, Actions
  <1> DEFINE u == [t EXCEPT !.at = latest.at, !.answer = a]
  <1>8. /\ u \in TaskRows /\ u.run = t.run /\ u.tool = t.tool /\ u.at = latest.at
        /\ u.asked = t.asked /\ u.answer = a /\ ~t.asked
    BY <1>1, <1>2, <1>7 DEF TaskRows, Nodes
  <1>9. tasks' = (tasks \ {t}) \cup {u}
    BY <1>3, <1>5
  <1> HIDE DEF u
  <1>10. t.run \in latest'.by
    BY <1>2 DEF LoadCheckpoint
  <1>11. Loads(t, u)
    <2> SUFFICES ASSUME a.action = "approve", t.run \notin crossed'
                 PROVE  /\ t.answer.action = "approve"
                        /\ latest.question.run = t.run /\ latest.question.tool = t.tool
                        /\ latest.question.kind = "approval" /\ latest.question.order = a.order
      BY <1>7, <1>8 DEF Loads
    <2>1. latest.question.run = t.run /\ latest.question.tool = t.tool
      BY DEF LoadCheckpoint
    <2>2. latest.question # NoQuestion
      BY <1>1, <2>1 DEF NoQuestion
    <2>3. q = latest.question
      BY <2>2 DEF Met
    <2> QED
      BY <1>7, <2>1, <2>3
  <1>12. Replaced(t, u) /\ u.asked = t.asked
    BY <1>1, <1>2, <1>8, <1>9, <1>10, <1>11 DEF Replaced, Nodes
  <1> QED
    BY <1>1, <1>8, <1>12, QuietStep DEF TaskStep, GoesOn

\* The graph raises.
LEMMA GraphFailsStep ==
    ASSUME TypeOK, NEW t \in tasks, GraphFails(t)
    PROVE  TaskStep(t)
  <1>1. tasks' = tasks \ {t} /\ t \in TaskRows /\ faults' # faults
    BY DEF GraphFails, TypeOK
  <1>2. CASE Commit(t.run, Handles(t)) /\ impaired' = impaired
    <2>1. Own(t.tool, <<>>) /\ AsksNot(<<>>)
      BY EmptyWrites
    <2>2. Handles(t) \in Seq(Writes)
      <3>1. PICK h : Own(t.tool, h) /\ AsksNot(h) /\ Handles(t) = Then(h, FailRun)
        BY <1>1, HandlesWrites
      <3>2. h \in Seq(Writes) /\ FailRun \in Seq(Writes)
        BY <3>1, ListTypes DEF Own
      <3> QED
        BY <3>1, <3>2, ConcatProperties DEF Then
    <2>3. Then(<<>>, Handles(t)) = Handles(t)
      BY <2>2, EmptyWrites
    <2>4. Commit(t.run, Then(<<>>, Handles(t)))
      BY <1>2, <2>3
    <2> QED
      BY <1>1, <1>2, <2>1, <2>4, HandlesEffect DEF TaskStep, EndsRun
  <1>3. CASE t.tool # 0 /\ db' = db /\ impaired' = impaired \cup {t.run}
    BY <1>1, <1>3, QuietStep DEF TaskStep, Lost
  <1> QED
    BY <1>2, <1>3 DEF GraphFails

\* A task that ends with what its stream left.
LEMMA CompletedWrites ==
    ASSUME NEW t \in TaskRows
    PROVE  /\ Own(t.tool, Completed(t)) /\ AsksNot(Completed(t))
           /\ To(Completed(t), "run", 0) = {} /\ To(Completed(t), "message", 0) = {}
           /\ \/ To(Completed(t), "events", 0) = {}
              \/ Settles(Completed(t), 2, "events", 0) /\ Completed(t)[2].value = "tool_call.completed"
  <1>1. t.tool \in Nat
    BY DEF TaskRows
  <1>2. CASE t.tool = 0
    BY <1>2, EmptyWrites DEF Completed, To
  <1>3. CASE t.tool # 0
    <2>1. Own(t.tool, OnToolCallCompleted(t.tool)) /\ AsksNot(OnToolCallCompleted(t.tool))
      BY <1>1, <1>3, ToolListTypes
    <2>2. Completed(t) = OnToolCallCompleted(t.tool)
      BY <1>3 DEF Completed
    <2>3. PICK a, b : /\ OnToolCallCompleted(t.tool) = <<a, b>>
                      /\ a.table = "tool" /\ b.table = "events" /\ b.at = 0
                      /\ b.value = "tool_call.completed"
      BY WriteTable DEF OnToolCallCompleted
    <2>4. DOMAIN <<a, b>> = {1, 2} /\ <<a, b>>[1] = a /\ <<a, b>>[2] = b
      OBVIOUS
    <2>5. To(<<a, b>>, "run", 0) = {} /\ To(<<a, b>>, "message", 0) = {}
      BY <2>3, <2>4 DEF To
    <2>6. Settles(<<a, b>>, 2, "events", 0) /\ <<a, b>>[2].value = "tool_call.completed"
      BY <2>3, <2>4 DEF To, Settles
    <2> QED
      BY <2>1, <2>2, <2>3, <2>5, <2>6
  <1> QED
    BY <1>2, <1>3

LEMMA LeaveStep ==
    ASSUME TypeOK, NEW t \in tasks, Work(t, Completed(t), {}),
           t.asked \/ db[t.run].run = "cancelled"
    PROVE  TaskStep(t)
  <1>1. t \in TaskRows
    BY DEF TypeOK
  <1>2. /\ Own(t.tool, Completed(t)) /\ AsksNot(Completed(t)) /\ Completed(t) \in Seq(Writes)
        /\ To(Completed(t), "run", 0) = {} /\ To(Completed(t), "message", 0) = {}
        /\ \/ To(Completed(t), "events", 0) = {}
           \/ Settles(Completed(t), 2, "events", 0) /\ Completed(t)[2].value = "tool_call.completed"
    BY <1>1, CompletedWrites DEF Own
  <1>5. AddsOnly({}, Completed(t))
    BY <1>2 DEF AsksNot, AddsOnly
  <1>3. /\ Bounded(t.run) /\ NewRows(t) /\ NewIn(t.run, {})
        /\ \/ /\ tasks' = (tasks \ {t}) \cup {} /\ impaired' = impaired
              /\ OthersKept(t) /\ Rewritten(db[t.run], db'[t.run], Completed(t))
           \/ EndsRun(t, "failed")
           \/ Lost(t)
    BY <1>2, <1>5, WorkEffect
  <1>4. CASE /\ tasks' = (tasks \ {t}) \cup {} /\ impaired' = impaired
             /\ OthersKept(t) /\ Rewritten(db[t.run], db'[t.run], Completed(t))
    <2>1. SameEnd(t)
      BY <1>2, <1>4, UpdatedLast DEF Rewritten, SameEnd
    <2>2. db[t.run].events # <<>> =>
          /\ db'[t.run].events # <<>>
          /\ Last(db'[t.run].events) \in {Last(db[t.run].events), "tool_call.completed"}
      BY <1>2, <1>4 DEF Rewritten, Settles
    <2>3. LeavesRun(t)
      BY <1>3, <1>4, <2>1, <2>2 DEF LeavesRun
    <2> QED
      BY <1>3, <2>3 DEF TaskStep
  <1> QED
    BY <1>3, <1>4 DEF TaskStep

LEMMA StopStep ==
    ASSUME TypeOK, NEW t \in tasks, Stop(t)
    PROVE  TaskStep(t)
  BY LeaveStep DEF Stop, ShouldStop

LEMMA FinishStep ==
    ASSUME TypeOK, NEW t \in tasks, Finish(t)
    PROVE  TaskStep(t)
  <1>1. t \in TaskRows /\ t.tool \in Nat /\ t.asked \in BOOLEAN
    BY DEF TypeOK, TaskRows
  <1>2. Own(t.tool, Completed(t)) /\ AsksNot(Completed(t)) /\ Completed(t) \in Seq(Writes)
    BY <1>1, CompletedWrites DEF Own
  <1>3. CASE t.asked
    <2>1. Completed(t) \o <<>> = Completed(t)
      BY <1>2, ConcatEmptySeq
    <2> QED
      BY <1>3, <2>1, LeaveStep DEF Finish
  <1>4. CASE ~t.asked
    <2>1. Own(t.tool, FinalizeRun) /\ AsksNot(FinalizeRun)
      BY <1>1, ListTypes
    <2>2. Own(t.tool, Then(Completed(t), FinalizeRun)) /\ AsksNot(Then(Completed(t), FinalizeRun))
      BY <1>2, <2>1, ThenOwn
    <2>3. Work(t, Then(Completed(t), FinalizeRun), {})
      BY <1>4 DEF Finish, Then
    <2>4. /\ Bounded(t.run) /\ NewRows(t)
          /\ \/ /\ tasks' = (tasks \ {t}) \cup {} /\ impaired' = impaired /\ OthersKept(t)
                /\ Rewritten(db[t.run], db'[t.run], Then(Completed(t), FinalizeRun))
             \/ EndsRun(t, "failed")
             \/ Lost(t)
      BY <2>2, <2>3, WorkEffect
    <2>5. CASE /\ tasks' = (tasks \ {t}) \cup {} /\ impaired' = impaired /\ OthersKept(t)
               /\ Rewritten(db[t.run], db'[t.run], Then(Completed(t), FinalizeRun))
      <3>1. Ended(db'[t.run], "completed")
        BY <1>2, <2>5, FinalizeEffect
      <3>2. EndsRun(t, "completed")
        BY <1>4, <2>5, <3>1 DEF EndsRun
      <3> QED
        BY <2>4, <3>2 DEF TaskStep
    <2> QED
      BY <2>4, <2>5 DEF TaskStep
  <1> QED
    BY <1>1, <1>3, <1>4

\* The one tool call that a question adds.
LEMMA QuestionWrites ==
    ASSUME NEW i \in Nat, NEW kind \in {"approval", "input"}, NEW order \in Orders \cup {0},
           NEW allowed \in SUBSET Actions
    PROVE  LET ws == Then(OnToolCallStarted(kind, order, allowed), OnToolCallRequiresHuman)
           IN  /\ Own(i, ws)
               /\ AddsOnly({row \in ToolRows : row.kind = kind /\ row.order = order}, ws)
               /\ Cardinality(To(ws, "tools", 0)) = 1
               /\ \A old : Updated(old, ws, "run", 0) = "requires_action"
  <1> DEFINE p == OnToolCallStarted(kind, order, allowed)
             e == OnToolCallRequiresHuman
             V == {row \in ToolRows : row.kind = kind /\ row.order = order}
  <1>1. /\ Own(i, p) /\ To(p, "tools", 0) = {1} /\ p[1] = NewTool(kind, order, allowed)
        /\ Own(i, e) /\ To(e, "tools", 0) = {}
    BY ToolListTypes
  <1>2. p \in Seq(Writes) /\ e \in Seq(Writes)
    BY <1>1 DEF Own
  <1>3. AddsOnly(V, p) /\ AddsOnly(V, e)
    <2>1. p[1].value \in ToolRows
      BY <1>1, <1>2, WriteValues
    <2>2. p[1].value.kind = kind /\ p[1].value.order = order
      BY <1>1, WriteTable
    <2> QED
      BY <1>1, <2>1, <2>2 DEF AddsOnly
  <1>4. AddsOnly(V, Then(p, e)) /\ Own(i, Then(p, e))
    BY <1>1, <1>2, <1>3, AddsOnlyConcat, ThenOwn DEF Then
  <1>5. To(Then(p, e), "tools", 0) = {1}
    <2>1. /\ Len(p \o e) = Len(p) + Len(e) /\ p \o e \in Seq(Writes)
          /\ \A m \in 1 .. Len(p) + Len(e) :
                (p \o e)[m] = IF m <= Len(p) THEN p[m] ELSE e[m - Len(p)]
          /\ Len(p) \in Nat /\ Len(e) \in Nat
      BY <1>2, ConcatProperties, LenProperties
    <2>2. /\ DOMAIN (p \o e) = 1 .. Len(p) + Len(e)
          /\ DOMAIN p = 1 .. Len(p) /\ DOMAIN e = 1 .. Len(e)
      BY <1>2, <2>1, LenProperties
    <2>3. 1 \in DOMAIN p /\ p[1].table = "tools" /\ p[1].at = 0
      BY <1>1 DEF To
    <2> HIDE DEF p, e
    <2>4. 1 \in To(p \o e, "tools", 0)
      BY <2>1, <2>2, <2>3 DEF To
    <2>5. ASSUME NEW m \in To(p \o e, "tools", 0) PROVE m = 1
      <3>1. /\ m \in 1 .. Len(p) + Len(e)
            /\ (p \o e)[m].table = "tools" /\ (p \o e)[m].at = 0
        BY <2>2 DEF To
      <3>2. CASE m <= Len(p)
        <4>1. m \in To(p, "tools", 0)
          BY <2>1, <2>2, <3>1, <3>2 DEF To
        <4> QED
          BY <1>1, <4>1
      <3>3. CASE ~(m <= Len(p))
        <4>1. m - Len(p) \in 1 .. Len(e) /\ (p \o e)[m] = e[m - Len(p)]
          BY <2>1, <3>1, <3>3
        <4>2. m - Len(p) \in To(e, "tools", 0)
          BY <2>2, <3>1, <4>1 DEF To
        <4> QED
          BY <1>1, <4>2
      <3> QED
        BY <3>2, <3>3
    <2> QED
      BY <2>4, <2>5 DEF Then
  <1>6. Cardinality(To(Then(p, e), "tools", 0)) = 1
    BY <1>5, FS_Singleton
  <1>7. Settles(e, 1, "run", 0) /\ e[1].value = "requires_action"
    BY WriteTable DEF OnToolCallRequiresHuman, Settles, To
  <1>8. \A old : Updated(old, Then(p, e), "run", 0) = "requires_action"
    BY <1>2, <1>7, SuffixUpdate
  <1> QED
    BY <1>4, <1>6, <1>8

\* A question of the graph to a human.
LEMMA InterruptStep ==
    ASSUME TypeOK, NEW t \in tasks, NEW kind \in {"approval", "input"}, NEW order \in Orders \cup {0},
           t.at = "specialist", Interrupt(t, kind, order)
    PROVE  TaskStep(t)
  <1>1. t \in TaskRows /\ t.tool \in Nat /\ t.run \in Runs
    BY DEF TypeOK, TaskRows
  <1>2. ~t.asked /\ db[t.run].run # "cancelled" /\ latest' = PutWrites(t, kind, order)
    BY DEF Interrupt, Streams, Streaming, ShouldStop
  <1>3. ASSUME Waiting(t.run) = {}, NEW allowed \in AllowedActions(kind),
               Work(t, ProjectChunk("updates", kind, order, allowed),
                    {[t EXCEPT !.asked = TRUE, !.answer = NoAnswer]})
        PROVE  TaskStep(t)
    <2> DEFINE ws == Then(OnToolCallStarted(kind, order, allowed), OnToolCallRequiresHuman)
               u == [t EXCEPT !.asked = TRUE, !.answer = NoAnswer]
               V == {row \in ToolRows : row.kind = kind /\ row.order = order}
    <2>1. allowed \in SUBSET Actions
      BY <1>3, AgentBounds DEF AllowedActions
    <2>2. /\ Own(t.tool, ws) /\ AddsOnly(V, ws) /\ Cardinality(To(ws, "tools", 0)) = 1
          /\ \A old : Updated(old, ws, "run", 0) = "requires_action"
      BY <1>1, <2>1, QuestionWrites
    <2>6. Work(t, ws, {u})
      BY <1>3 DEF ProjectChunk, Then
    <2> HIDE DEF ws
    <2>7. NoAnswer \in Answers
      BY DEF NoAnswer, Answers
    <2>8. /\ u \in TaskRows /\ u.run = t.run /\ u.tool = t.tool /\ u.at = t.at
          /\ u.asked /\ u.answer = NoAnswer
      BY <1>1, <2>7 DEF TaskRows
    <2> HIDE DEF u
    <2>9. /\ Bounded(t.run) /\ NewIn(t.run, V)
          /\ \/ /\ tasks' = (tasks \ {t}) \cup {u} /\ impaired' = impaired
                /\ Rewritten(db[t.run], db'[t.run], ws)
             \/ EndsRun(t, "failed")
             \/ Lost(t)
      BY <1>3, <2>2, <2>6, WorkEffect
    <2>11. NewRows(t)
      BY <1>2, <2>9 DEF NewIn, NewRows
    <2>10. CASE /\ tasks' = (tasks \ {t}) \cup {u} /\ impaired' = impaired
                /\ Rewritten(db[t.run], db'[t.run], ws)
      <3>1. db'[t.run].run = "requires_action"
        BY <2>2, <2>10 DEF Rewritten
      <3>2. Replaced(t, u)
        BY <2>8, <2>10 DEF Replaced
      <3>3. db[t.run].tools \in Seq(ToolRows) /\ db'[t.run].tools \in Seq(ToolRows)
        BY <1>1, <2>9 DEF TypeOK, Bounded, Rows
      <3>4. Len(db'[t.run].tools) = Len(db[t.run].tools) + 1
        BY <2>2, <2>10 DEF Rewritten
      <3>5. DOMAIN db'[t.run].tools = DOMAIN db[t.run].tools \cup {Len(db[t.run].tools) + 1}
        BY <3>3, <3>4, LenProperties
      <3> QED
        BY <1>2, <1>3, <2>8, <2>9, <2>11, <3>1, <3>2, <3>5 DEF TaskStep, Asks
    <2> QED
      BY <2>9, <2>10, <2>11 DEF TaskStep
  <1>4. CASE Work(t, FailRun, {})
    <2>1. Own(t.tool, <<>>) /\ AsksNot(<<>>)
      BY EmptyWrites
    <2>2. FailRun \in Seq(Writes)
      BY <1>1, ListTypes DEF Own
    <2>3. Work(t, Then(<<>>, FailRun), {})
      BY <1>4, <2>2, EmptyWrites
    <2> QED
      BY <1>2, <2>1, <2>3, FailStep
  <1>5. CASE /\ tasks' = tasks \ {t}
             /\ impaired' = impaired \cup {t.run}
             /\ UNCHANGED <<db, faults>>
    BY <1>2, <1>5, QuietStep DEF TaskStep, Lost
  <1> QED
    BY <1>3, <1>4, <1>5 DEF Interrupt

LEMMA ToolStep ==
    ASSUME TypeOK, NEW t \in tasks, CallTool(t) \/ AskAgain(t)
    PROVE  TaskStep(t)
  <1>1. CASE CallTool(t)
    BY <1>1, InterruptStep DEF CallTool, Questions
  <1>2. CASE AskAgain(t)
    <2>1. t.answer.order \in Orders \cup {0}
      BY DEF TypeOK, TaskRows, Answers
    <2> QED
      BY <1>2, <2>1, InterruptStep DEF AskAgain
  <1> QED
    BY <1>1, <1>2

\* What a step of a task may do to the refunds.
Refunds(t) ==
    \/ refunds' = refunds
    \/ /\ t.at = "specialist" /\ t.answer.action = "approve"
       /\ refunds' = refunds \cup {<<t.run, t.tool, t.answer.order>>}

\* What it may do to the thread's checkpoint, and whose answer it carries astray.
Saves(t) ==
    /\ \/ latest' = latest
       \/ \E node \in Nodes : latest' = Put(t, node)
       \/ \E kind \in {"approval", "input"}, order \in Orders \cup {0} :
             latest' = PutWrites(t, kind, order)
       \/ /\ t.at = "load" /\ latest # NoCheckpoint
          /\ latest' = [latest EXCEPT !.by = @ \cup {t.run}]
    /\ \/ crossed' = crossed
       \/ /\ t.at = "load" /\ t.tool # 0 /\ crossed' = crossed \cup {t.run}
          /\ ~(latest.question.run = t.run /\ latest.question.tool = t.tool)
    /\ t.asked => latest' = latest

LEMMA StopSaves ==
    ASSUME TypeOK, NEW t \in tasks, Stop(t)
    PROVE  Saves(t)
  <1>1. t \in TaskRows /\ t.at \in Nodes
    BY DEF TypeOK, TaskRows, Stop, Streaming
  <1>2. Successors[t.at] \subseteq Nodes
    BY <1>1 DEF Successors, Nodes
  <1>3. latest' \in {latest} \cup Left(t) /\ crossed' = crossed
    BY DEF Stop
  <1>4. CASE latest' = latest
    BY <1>3, <1>4 DEF Saves
  <1>5. CASE latest' \in Left(t) /\ ~t.asked
    <2>1. CASE \E n \in Successors[t.at] : latest' = Put(t, n)
      BY <1>2, <1>3, <1>5, <2>1 DEF Saves
    <2>2. CASE \E q \in Questions : latest' = PutWrites(t, q.kind, q.order)
      <3>1. PICK q \in Questions : latest' = PutWrites(t, q.kind, q.order)
        BY <2>2
      <3>2. q.kind \in {"approval", "input"} /\ q.order \in Orders \cup {0}
        BY DEF Questions
      <3> QED
        BY <1>3, <1>5, <3>1, <3>2 DEF Saves
    <2> QED
      BY <1>5, <2>1, <2>2 DEF Left
  <1> QED
    BY <1>3, <1>4, <1>5 DEF Left

\* Every step of a task, with what it leaves alone.
LEMMA StepIsTaskStep ==
    ASSUME TypeOK, NEW t \in tasks, Step(t) \/ GraphFails(t)
    PROVE  /\ TaskStep(t) /\ Refunds(t) /\ Saves(t)
           /\ undone' = undone \cup Undone
           /\ UNCHANGED <<reader, cancels, answers>>
           /\ faults' \in {faults, faults + 1} /\ faults' <= MaxFaults
  <1> USE DEF Refunds, Quiet, graphVars
  <1> DEFINE Counts == faults' \in {faults, faults + 1} /\ faults' <= MaxFaults
             Rest == /\ UNCHANGED <<reader, cancels, answers>> /\ Refunds(t)
                     /\ Saves(t) /\ Counts
  <1>0. faults \in Nat /\ MaxFaults \in Nat /\ faults <= MaxFaults
    BY AgentBounds DEF TypeOK
  <1>1. \A ws, next : Work(t, ws, next) => Counts
    BY <1>0 DEF Work
  <1>2. faults' = faults => Counts
    BY <1>0
  <1>3. faults < MaxFaults /\ faults' = faults + 1 => Counts
    BY <1>0
  <1>13. t \in TaskRows /\ (t.asked => t.at = "specialist" /\ t.answer = NoAnswer)
    BY DEF TypeOK, TaskRows
  <1>14. latest' = latest /\ crossed' = crossed => Saves(t)
    BY DEF Saves
  <1> HIDE DEF Counts
  <1>4. ASSUME Start(t) PROVE TaskStep(t) /\ Rest
    BY <1>1, <1>4, <1>14, StartStep DEF Start
  <1>5. ASSUME CoordinatorNode(t) \/ SupervisorNode(t) \/ SpecialistNode(t)
        PROVE  TaskStep(t) /\ Rest
    <2>0. ~t.asked
      BY <1>5 DEF CoordinatorNode, SupervisorNode, SpecialistNode, Streams
    <2>1. \A node \in Nodes : Goto(t, node) => Rest
      BY <1>2, <2>0 DEF Goto, Saves
    <2>2. \A ws, node : node \in Nodes /\ Advance(t, ws, node) => Rest
      BY <1>1, <2>0 DEF Advance, Saves
    <2>3. CASE CoordinatorNode(t)
      <3>1. PICK action \in {"respond", "delegate"} :
              IF action = "respond"
              THEN Advance(t, ProjectChunk("messages", "", 0, {}), NextFromCoordinator(action))
              ELSE Goto(t, NextFromCoordinator(action))
        BY <2>3 DEF CoordinatorNode, CoordinatorDecisions
      <3>2. NextFromCoordinator(action) \in Nodes
        BY DEF NextFromCoordinator, Nodes
      <3> QED
        BY <1>5, <2>1, <2>2, <3>1, <3>2, CoordinatorStep
    <2>4. CASE SupervisorNode(t)
      <3>1. PICK agent \in NextAgents(t) : Goto(t, NextFromSupervisor(agent))
        BY <2>4 DEF SupervisorNode
      <3>2. NextFromSupervisor(agent) \in Nodes
        BY DEF NextFromSupervisor, Nodes
      <3> QED
        BY <1>5, <2>1, <3>1, <3>2, CoordinatorStep
    <2>5. CASE SpecialistNode(t)
      BY <1>5, <2>2, <2>5, CoordinatorStep DEF SpecialistNode, Nodes
    <2> QED
      BY <1>5, <2>3, <2>4, <2>5
  <1>6. ASSUME Decline(t) \/ InvokeApprovedTool(t) PROVE TaskStep(t) /\ Rest
    BY <1>2, <1>6, <1>14, AnswerStep DEF Decline, InvokeApprovedTool, RefundOrder
  <1>7. ASSUME NothingToResume(t) PROVE TaskStep(t) /\ Rest
    BY <1>1, <1>7, <1>14, NothingToResumeStep DEF NothingToResume
  <1>15. ASSUME LoadInput(t) PROVE TaskStep(t) /\ Rest
    BY <1>2, <1>13, <1>15, LoadInputStep DEF LoadInput, Saves, Nodes
  <1>16. ASSUME LoadCheckpoint(t) PROVE TaskStep(t) /\ Rest
    <2>1. Saves(t)
      BY <1>13, <1>16 DEF LoadCheckpoint, Saves
    <2> QED
      BY <1>2, <1>16, <2>1, LoadCheckpointStep DEF LoadCheckpoint
  <1>8. ASSUME CallTool(t) \/ AskAgain(t) PROVE TaskStep(t) /\ Rest
    <2>1. ASSUME NEW kind \in {"approval", "input"}, NEW order \in Orders \cup {0},
                 Interrupt(t, kind, order)
          PROVE  Rest
      BY <1>1, <1>2, <2>1 DEF Interrupt, Saves, Streams
    <2>2. t.answer.order \in Orders \cup {0}
      BY <1>13 DEF TaskRows, Answers
    <2> QED
      BY <1>8, <2>1, <2>2, ToolStep DEF CallTool, AskAgain, Questions
  <1>9. ASSUME Stop(t) PROVE TaskStep(t) /\ Rest
    BY <1>1, <1>9, StopStep, StopSaves DEF Stop
  <1>10. ASSUME Finish(t) PROVE TaskStep(t) /\ Rest
    BY <1>1, <1>10, <1>14, FinishStep DEF Finish
  <1>11. ASSUME GraphFails(t) PROVE TaskStep(t) /\ Rest /\ undone' = undone \cup Undone
    BY <1>3, <1>11, <1>14, GraphFailsStep DEF GraphFails
  <1>12. TaskStep(t) /\ Rest /\ undone' = undone \cup Undone
    <2> HIDE DEF Rest
    <2> QED
      BY <1>4, <1>5, <1>6, <1>7, <1>8, <1>9, <1>10, <1>11, <1>15, <1>16 DEF Step, Graph
  <1> QED
    BY <1>12 DEF Counts

-----------------------------------------------------------------------------
(* The requests.                                                            *)

\* A request whose writes are cut off has done nothing or has impaired its run.
LEMMA CutOffEffect ==
    ASSUME TypeOK, NEW r \in Runs, NEW ws \in Seq(Writes), AsksNot(ws), CutOff(r, ws)
    PROVE  /\ Bounded(r) /\ (db'[r].run = "requires_action" => db[r].run = "requires_action")
           /\ NewIn(r, {})
           /\ tasks' = tasks /\ faults' \in 0 .. MaxFaults /\ faults' = faults + 1
           /\ (db' = db /\ impaired' = impaired) \/ impaired' = impaired \cup {r}
  <1>1. PICK k \in 0 .. Len(ws) - 1 : Commit(r, SubSeq(ws, 1, k))
    BY DEF CutOff
  <1>2. PICK p : p = SubSeq(ws, 1, k)
    OBVIOUS
  <1>3. Own(0, <<>>)
    BY EmptyWrites
  <1>4. p \in Seq(Writes) /\ AsksNot(p)
    <2>1. /\ SubSeq(ws, 1, k) \in Seq(Writes)
          /\ \A table, j : To(SubSeq(ws, 1, k), table, j) \subseteq To(ws, table, j)
          /\ \A n \in DOMAIN SubSeq(ws, 1, k) : SubSeq(ws, 1, k)[n] = ws[n]
      BY PrefixWrites
    <2>2. /\ p \in Seq(Writes)
          /\ To(p, "run", 0) \subseteq To(ws, "run", 0)
          /\ To(p, "tools", 0) \subseteq To(ws, "tools", 0)
          /\ \A n \in DOMAIN p : p[n] = ws[n]
      BY <1>2, <2>1
    <2>3. \A n \in To(p, "run", 0) : n \in DOMAIN p
      BY DEF To
    <2> QED
      BY <2>2, <2>3 DEF AsksNot
  <1>5. db \in [Runs -> Rows] /\ Commit(r, p)
    BY <1>1, <1>2 DEF TypeOK
  <1>6. /\ db' \in [Runs -> Rows]
        /\ \A s \in Runs : s # r => db'[s] = db[s]
        /\ Kept(r)
        /\ db'[r].run = "requires_action" => db[r].run = "requires_action"
        /\ NewIn(r, {})
    BY <1>4, <1>5, CommitEffect, CommitKeeps
  <1>7. faults' \in 0 .. MaxFaults /\ faults' = faults + 1 /\ tasks' = tasks
    BY AgentBounds DEF CutOff, TypeOK
  <1>8. (db' = db /\ impaired' = impaired) \/ impaired' = impaired \cup {r}
    BY DEF CutOff
  <1> QED
    BY <1>6, <1>7, <1>8 DEF Bounded

LEMMA CancelStep ==
    ASSUME TypeOK, NEW r \in Runs, Cancel(r)
    PROVE  /\ Bounded(r) /\ db[r].run \in {"queued", "running"} /\ db'[r].run # "requires_action"
           /\ NewIn(r, {}) /\ cancels' = cancels + 1
           /\ tasks' = tasks /\ cancels' \in 0 .. MaxCancels /\ faults' \in 0 .. MaxFaults
           /\ UNCHANGED <<graphVars, reader, answers, undone>>
           /\ \/ Ended(db'[r], "cancelled") /\ impaired' = impaired
              \/ db' = db /\ impaired' = impaired
              \/ impaired' = impaired \cup {r}
  <1> DEFINE ws == CancelRun(r)
  <1>1. db \in [Runs -> Rows]
    BY DEF TypeOK
  <1>2. ws \in Seq(Writes) /\ AsksNot(ws) /\ \A old, new : Rewritten(old, new, ws) => Ended(new, "cancelled")
    BY <1>1, CancelEffect
  <1>3. /\ db[r].run \in {"queued", "running"} /\ cancels' \in 0 .. MaxCancels
        /\ cancels' = cancels + 1
        /\ UNCHANGED <<graphVars, reader, answers, undone>>
    BY AgentBounds DEF Cancel, TypeOK
  <1>4. \/ Commit(r, ws) /\ UNCHANGED <<tasks, faults, impaired>>
        \/ CutOff(r, ws)
    BY DEF Cancel
  <1> HIDE DEF ws
  <1>5. CASE Commit(r, ws) /\ UNCHANGED <<tasks, faults, impaired>>
    <2>1. /\ db' \in [Runs -> Rows]
          /\ \A s \in Runs : s # r => db'[s] = db[s]
          /\ Kept(r) /\ Rewritten(db[r], db'[r], ws) /\ NewIn(r, {})
          /\ db'[r].run = "requires_action" => db[r].run = "requires_action"
      BY <1>1, <1>2, <1>5, CommitEffect, CommitKeeps
    <2>2. Ended(db'[r], "cancelled")
      BY <1>2, <2>1
    <2>3. faults' \in 0 .. MaxFaults
      BY <1>5 DEF TypeOK
    <2> QED
      BY <1>3, <1>5, <2>1, <2>2, <2>3 DEF Bounded
  <1>6. CASE CutOff(r, ws)
    <2>1. /\ Bounded(r) /\ (db'[r].run = "requires_action" => db[r].run = "requires_action")
          /\ NewIn(r, {})
          /\ tasks' = tasks /\ faults' \in 0 .. MaxFaults
          /\ (db' = db /\ impaired' = impaired) \/ impaired' = impaired \cup {r}
      BY <1>2, <1>6, CutOffEffect
    <2> QED
      BY <1>3, <2>1
  <1> QED
    BY <1>4, <1>5, <1>6

\* What the task of an answer carries into the graph.
LEMMA ResumeTaskType ==
    ASSUME TypeOK, NEW r \in Runs, NEW i, NEW action \in Actions, NEW order \in Orders, Resumable(r, i)
    PROVE  LET u == ResumeTask(r, i, action, order)
           IN  /\ u \in TaskRows /\ u.run = r /\ u.tool = i /\ i # 0
               /\ u.at = "load" /\ ~u.asked
               /\ u.answer.action = action
  <1> DEFINE decision == BuildCommandResumePayload(action, order)
  <1>1. db[r].tools \in Seq(ToolRows) /\ i \in DOMAIN db[r].tools
    BY DEF TypeOK, Rows, Resumable
  <1>2. i \in Nat /\ i # 0
    BY <1>1, LenProperties
  <1>3. decision \in Answers /\ decision.action = action
    BY DEF BuildCommandResumePayload, Answers
  <1>4. ResumeTask(r, i, action, order) = Task(r, i, "load", decision)
    BY DEF ResumeTask
  <1> HIDE DEF decision
  <1>5. LET u == Task(r, i, "load", decision)
        IN  /\ u \in TaskRows /\ u.run = r /\ u.tool = i /\ u.at = "load" /\ ~u.asked
            /\ u.answer = decision
    BY <1>2, <1>3 DEF Task, TaskRows
  <1> QED
    BY <1>2, <1>3, <1>4, <1>5

\* An answer is accepted, or refused in one way or another.
Accepts(r, i, action) ==
    /\ db'[r].run = "running" /\ impaired' = impaired
    /\ \A j \in DOMAIN db[r].tools : SameStatus(r, j)
    /\ answers' = Append(answers, <<r, i, action>>)
    /\ \E u \in TaskRows :
          /\ tasks' = tasks \cup {u}
          /\ u.run = r /\ u.tool = i /\ i # 0 /\ u.at = "load" /\ ~u.asked
          /\ u.answer.action = action

Refuses(r) ==
    /\ tasks' = tasks /\ answers' = answers
    /\ (db' = db /\ impaired' = impaired) \/ impaired' = impaired \cup {r}
    /\ faults' # faults \/ db'[r].run = "running"

LEMMA ResumeStep ==
    ASSUME TypeOK, NEW r \in Runs, NEW i, NEW action \in Actions, NEW order \in Orders,
           Resume(r, i, action, order)
    PROVE  /\ Bounded(r) /\ Resumable(r, i) /\ faults' \in 0 .. MaxFaults
           /\ NewIn(r, {}) /\ faults' \in {faults, faults + 1}
           /\ UNCHANGED <<graphVars, reader, cancels, undone>>
           /\ Accepts(r, i, action) \/ Refuses(r)
  <1>1. db \in [Runs -> Rows] /\ Resumable(r, i) /\ UNCHANGED <<graphVars, reader, cancels, undone>>
    BY DEF TypeOK, Resume
  <1>2. Own(0, OnRunStarted) /\ AsksNot(OnRunStarted) /\ OnRunStarted \in Seq(Writes)
    BY ListTypes DEF Own
  <1>3. ASSUME Commit(r, OnRunStarted)
        PROVE  /\ Bounded(r) /\ db'[r].run = "running" /\ NewIn(r, {})
               /\ \A j \in DOMAIN db[r].tools : SameStatus(r, j)
    <2>1. /\ db' \in [Runs -> Rows]
          /\ \A s \in Runs : s # r => db'[s] = db[s]
          /\ Kept(r) /\ Rewritten(db[r], db'[r], OnRunStarted) /\ NewIn(r, {})
          /\ db'[r].run = "requires_action" => db[r].run = "requires_action"
      BY <1>1, <1>2, <1>3, CommitEffect, CommitKeeps
    <2>2. Settles(OnRunStarted, 1, "run", 0) /\ OnRunStarted[1].value = "running"
      BY WriteTable DEF OnRunStarted, Settles, To
    <2>3. Updated(db[r].run, OnRunStarted, "run", 0) = "running"
      BY <1>2, <2>2, UpdatedBy
    <2>4. \A j \in DOMAIN db[r].tools : j # 0
      <3>1. db[r].tools \in Seq(ToolRows)
        BY <1>1 DEF Rows
      <3> QED
        BY <3>1, LenProperties
    <2>5. \A j \in DOMAIN db[r].tools : SameStatus(r, j)
      BY <1>1, <1>2, <1>3, <2>4, CommitOwn
    <2> QED
      BY <2>1, <2>3, <2>5 DEF Bounded, Rewritten
  <1>4. faults \in 0 .. MaxFaults
    BY DEF TypeOK
  <1>5. CASE /\ Commit(r, OnRunStarted)
             /\ tasks' = tasks \cup {ResumeTask(r, i, action, order)}
             /\ answers' = Append(answers, <<r, i, action>>)
             /\ UNCHANGED <<faults, impaired>>
    <2>1. Accepts(r, i, action)
      BY <1>1, <1>3, <1>5, ResumeTaskType DEF Accepts
    <2> QED
      BY <1>1, <1>3, <1>4, <1>5, <2>1
  <1>6. CASE /\ Commit(r, OnRunStarted)
             /\ impaired' = impaired \cup {r}
             /\ UNCHANGED <<tasks, faults, answers>>
    BY <1>1, <1>3, <1>4, <1>6 DEF Refuses
  <1>7. CASE CutOff(r, OnRunStarted) /\ UNCHANGED answers
    <2>1. /\ Bounded(r) /\ tasks' = tasks /\ faults' \in 0 .. MaxFaults /\ faults' = faults + 1
          /\ NewIn(r, {})
          /\ (db' = db /\ impaired' = impaired) \/ impaired' = impaired \cup {r}
      BY <1>2, <1>7, CutOffEffect
    <2> QED
      BY <1>1, <1>4, <1>7, <2>1 DEF Refuses
  <1> QED
    BY <1>5, <1>6, <1>7 DEF Resume

LEMMA CreateStep ==
    ASSUME TypeOK, NEW r \in Runs, CreateRun(r)
    PROVE  /\ db' \in [Runs -> Rows] /\ \A s \in Runs : s # r => db'[s] = db[s]
           /\ db[r] = NoRows /\ db'[r].run = "queued" /\ db'[r].tools = <<>>
           /\ \A s \in Runs : (s < r => db[s] # NoRows) /\ db[s].run \notin ActiveStatuses
           /\ \E u \in TaskRows :
                /\ tasks' = tasks \cup {u} /\ u.run = r /\ u.tool = 0
                /\ u.at = "queued" /\ ~u.asked /\ u.answer.action = "none"
           /\ UNCHANGED <<graphVars, reader, cancels, faults, answers, impaired, undone>>
  <1> DEFINE u == Task(r, 0, "queued", NoAnswer)
             row == [NoRows EXCEPT !.run = "queued", !.message = "in_progress"]
  <1>1. u \in TaskRows /\ u.run = r /\ u.tool = 0 /\ u.at = "queued" /\ ~u.asked /\ u.answer.action = "none"
    BY DEF Task, NoAnswer, TaskRows, Answers
  <1>2. row \in Rows /\ row.run = "queued" /\ row.tools = <<>>
    <2>1. <<>> \in Seq(ToolRows) /\ <<>> \in Seq(EventTypes)
      OBVIOUS
    <2>2. /\ "none" \in RunStatuses /\ "none" \in MessageStatuses
          /\ "queued" \in RunStatuses /\ "in_progress" \in MessageStatuses
      BY DEF RunStatuses, MessageStatuses, ActiveStatuses
    <2>3. NoRows \in Rows /\ NoRows.tools = <<>>
      BY <2>1, <2>2 DEF NoRows, Rows
    <2> QED
      BY <2>2, <2>3 DEF Rows
  <1>3. db \in [Runs -> Rows] /\ db' = [db EXCEPT ![r] = row] /\ db[r] = NoRows
    BY DEF TypeOK, CreateRun
  <1> HIDE DEF row
  <1>4. /\ db' \in [Runs -> Rows] /\ \A s \in Runs : s # r => db'[s] = db[s]
        /\ db'[r] = row
    BY <1>2, <1>3
  <1>5. \A s \in Runs : (s < r => db[s] # NoRows) /\ db[s].run \notin ActiveStatuses
    BY DEF CreateRun, ActiveRuns
  <1>6. tasks' = tasks \cup {u} /\ UNCHANGED <<graphVars, reader, cancels, faults, answers, impaired, undone>>
    BY DEF CreateRun, Quiet
  <1> HIDE DEF u
  <1> QED
    BY <1>1, <1>2, <1>3, <1>4, <1>5, <1>6

-----------------------------------------------------------------------------
(* The inductive invariant.                                                 *)

TasksOf(r) == {t \in tasks : t.run = r}

\* Runs are created one after the other, and a task executes a run that exists.
RowsInv ==
    /\ \A r \in Runs : db[r].run = "none" => db[r] = NoRows
    /\ \A r, s \in Runs : r < s /\ db[s].run # "none" => db[r].run # "none"
    /\ \A t \in tasks : db[t.run].run # "none"

\* A human has approved, and what.
Accepted(r, i) ==
    /\ \E n \in DOMAIN answers : answers[n] = <<r, i, "approve">>
    /\ i \in DOMAIN db[r].tools

Approved(r, i, order) ==
    /\ Accepted(r, i)
    /\ r \in crossed \/ (db[r].tools[i].kind = "approval" /\ db[r].tools[i].order = order)

\* A tool call that was answered cannot be answered again, and what a task is
\* about to refund, or has refunded, was approved.
Answered ==
    \A n \in DOMAIN answers :
        /\ answers[n][2] \in DOMAIN db[answers[n][1]].tools
        /\ ~Resumable(answers[n][1], answers[n][2])

ApprovalInv ==
    /\ AnsweredOnce
    /\ Answered
    /\ \A t \in tasks : t.answer.action = "approve" =>
          /\ Accepted(t.run, t.tool)
          /\ t.at # "load" => Approved(t.run, t.tool, t.answer.order)
    /\ \A x \in refunds : Approved(x[1], x[2], x[3])

\* The tasks of a run: at most one that goes on, beside tasks whose stream has
\* ended with a question.
Solo(r) ==
    /\ db[r].run = "requires_action" => \A t \in TasksOf(r) : t.asked
    /\ \A t \in TasksOf(r) :
         /\ t.asked => t.tool = 0 /\ t.at # "queued"
         /\ t.tool = 0 /\ ~t.asked =>
              /\ \A u \in TasksOf(r) : u = t
              /\ db[r].run \in {"cancelled", IF t.at = "queued" THEN "queued" ELSE "running"}
         /\ t.tool # 0 =>
              /\ t.at # "queued"
              /\ t.tool \in DOMAIN db[r].tools
              /\ db[r].tools[t.tool].status = "waiting_human" \/ db[r].run = "cancelled"
              /\ \A u \in TasksOf(r) : u.tool # 0 => u = t

SoloInv == \A r \in Runs : r \notin impaired \cup undone => Solo(r)

\* A run that is active although a later one exists.
OneInv ==
    \A r, s \in Runs :
        r < s /\ db[s].run # "none" /\ db[r].run \in ActiveStatuses => r \in undone \cup impaired

\* The last event of a run that has ended, unless a task still adds to it.
Ends(r) ==
    db[r].run \in EndStatuses =>
        /\ db[r].message = MessageOf[db[r].run]
        /\ db[r].events # <<>>
        /\ \/ Last(db[r].events) \in {EventOf[db[r].run], "tool_call.completed"}
           \/ /\ db[r].run # "cancelled"
              /\ \E t \in TasksOf(r) : ~t.asked /\ t.at # "queued"

EndsInv == \A r \in Runs : r \notin impaired => Ends(r)

Inv == TypeOK /\ RowsInv /\ ApprovalInv /\ SoloInv /\ OneInv /\ EndsInv

\* The question at the thread's checkpoint was asked by a loop that goes on from
\* there, and the tool call it names, if there is one, is about it.
QuestionInv ==
    latest.question.tool # 0 =>
        /\ latest.question.run \in latest.by
        /\ latest.question.tool \in DOMAIN db[latest.question.run].tools =>
              /\ db[latest.question.run].tools[latest.question.tool].kind = latest.question.kind
              /\ db[latest.question.run].tools[latest.question.tool].order = latest.question.order

\* Without a cancellation and without a failure there is one loop on the thread, and
\* every question that waits for an answer is the one at its checkpoint.
Asker(r, i) == latest.question.run = r /\ latest.question.tool = i

Calm ==
    /\ crossed = {}
    /\ \A r \in Runs : db[r].run # "cancelled"
    /\ \A r, s \in Runs : {db[r].run, db[s].run} \subseteq ActiveStatuses => r = s
    /\ \A t \in tasks : ~t.asked => db[t.run].run \in {"queued", "running"}
    /\ \A t, u \in tasks : ~t.asked /\ ~u.asked => t = u
    /\ \A t \in tasks : ~t.asked /\ t.at \notin {"queued", "load"} => t.run \in latest.by
    /\ \A t \in tasks : t.at = "load" /\ t.tool # 0 => Asker(t.run, t.tool)
    /\ \A r \in Runs, i \in Nat :
          db[r].run = "requires_action" /\ i \in Waiting(r) => Asker(r, i)

CalmInv == cancels = 0 /\ faults = 0 => Calm

-----------------------------------------------------------------------------
(* What several actions have in common.                                     *)

\* An action on one run that exists.
Acts(r) ==
    /\ Bounded(r) /\ db[r].run # "none"
    /\ impaired \subseteq impaired' /\ undone \subseteq undone'
    /\ \A t \in tasks' : t.run # r => t \in tasks
    /\ \A t \in tasks : t.run # r => t \in tasks'

LEMMA RowsKept ==
    ASSUME TypeOK, RowsInv, NEW r \in Runs, Acts(r), TypeOK'
    PROVE  RowsInv'
  <1>1. /\ \A s \in Runs : s # r => db'[s] = db[s]
        /\ db[r].run # "none" /\ db'[r].run # "none"
    BY DEF Acts, Bounded, Kept
  <1>2. \A t \in tasks' : t.run \in Runs
    BY DEF TypeOK, TaskRows
  <1> QED
    BY <1>1, <1>2 DEF RowsInv, Acts

LEMMA OneKept ==
    ASSUME OneInv, NEW r \in Runs, Acts(r),
           db'[r].run \in ActiveStatuses => db[r].run \in ActiveStatuses \/ r \in undone' \cup impaired'
    PROVE  OneInv'
  <1>1. /\ \A s \in Runs : s # r => db'[s] = db[s]
        /\ db[r].run # "none" /\ db'[r].run # "none"
    BY DEF Acts, Bounded, Kept
  <1> QED
    BY <1>1 DEF OneInv, Acts

\* The other runs.
LEMMA SoloKept ==
    ASSUME SoloInv, NEW r \in Runs, Acts(r), r \notin (impaired \cup undone)' => Solo(r)'
    PROVE  SoloInv'
  <1> SUFFICES ASSUME NEW s \in Runs, s \notin (impaired \cup undone)'
               PROVE  Solo(s)'
    BY DEF SoloInv
  <1>1. CASE s = r
    BY <1>1
  <1>2. CASE s # r
    <2>1. db'[s] = db[s] /\ TasksOf(s)' = TasksOf(s)
      BY <1>2 DEF Acts, Bounded, TasksOf
    <2>2. Solo(s)
      BY DEF SoloInv, Acts
    <2> QED
      BY <2>1, <2>2 DEF Solo
  <1> QED
    BY <1>1, <1>2

LEMMA EndsKept ==
    ASSUME EndsInv, NEW r \in Runs, Acts(r), r \notin impaired' => Ends(r)'
    PROVE  EndsInv'
  <1> SUFFICES ASSUME NEW s \in Runs, s \notin impaired'
               PROVE  Ends(s)'
    BY DEF EndsInv
  <1>1. CASE s = r
    BY <1>1
  <1>2. CASE s # r
    <2>1. db'[s] = db[s] /\ TasksOf(s)' = TasksOf(s)
      BY <1>2 DEF Acts, Bounded, TasksOf
    <2>2. Ends(s)
      BY DEF EndsInv, Acts
    <2> QED
      BY <2>1, <2>2 DEF Ends
  <1> QED
    BY <1>1, <1>2

\* What was approved stays approved, what was answered stays answered.
LEMMA AnswersKept ==
    ASSUME TypeOK, NEW r \in Runs, Acts(r), crossed \subseteq crossed',
           answers' = answers \/ \E x : x \in Runs \X Nat \X Actions /\ answers' = Append(answers, x)
    PROVE  /\ \A s \in Runs : \A i, order : Approved(s, i, order) => Approved(s, i, order)'
           /\ \A s \in Runs : \A i : Accepted(s, i) => Accepted(s, i)'
           /\ \A s \in Runs : \A i : i \in DOMAIN db[s].tools =>
                 i \in DOMAIN db'[s].tools /\ (Resumable(s, i)' => Resumable(s, i))
  <1>1. \A n \in DOMAIN answers : n \in DOMAIN answers' /\ answers'[n] = answers[n]
    <2>1. CASE answers' = answers
      BY <2>1
    <2>2. CASE \E x : x \in Runs \X Nat \X Actions /\ answers' = Append(answers, x)
      <3>1. PICK x : x \in Runs \X Nat \X Actions /\ answers' = Append(answers, x)
        BY <2>2
      <3>2. answers \in Seq(Runs \X Nat \X Actions)
        BY DEF TypeOK
      <3> QED
        BY <3>1, <3>2, AppendProperties, LenProperties
    <2> QED
      BY <2>1, <2>2
  <1>2. /\ \A s \in Runs : s # r => db'[s] = db[s]
        /\ Kept(r)
        /\ db'[r].run = "requires_action" => db[r].run = "requires_action" \/ Waiting(r) = {}
    BY DEF Acts, Bounded
  <1>3. ASSUME NEW s \in Runs, NEW i, i \in DOMAIN db[s].tools
        PROVE  /\ i \in DOMAIN db'[s].tools
               /\ db'[s].tools[i].kind = db[s].tools[i].kind
               /\ db'[s].tools[i].order = db[s].tools[i].order
    BY <1>2, <1>3 DEF Kept
  <1>6. ASSUME NEW s \in Runs, NEW i, Accepted(s, i)
        PROVE  Accepted(s, i)'
    BY <1>1, <1>3, <1>6 DEF Accepted
  <1>4. ASSUME NEW s \in Runs, NEW i, NEW order, Approved(s, i, order)
        PROVE  Approved(s, i, order)'
    <2>1. Accepted(s, i) /\ i \in DOMAIN db[s].tools
      BY <1>4 DEF Approved, Accepted
    <2>2. Accepted(s, i)'
      BY <1>6, <2>1
    <2> QED
      BY <1>3, <1>4, <2>1, <2>2 DEF Approved
  <1>5. ASSUME NEW s \in Runs, NEW i, i \in DOMAIN db[s].tools, Resumable(s, i)'
        PROVE  Resumable(s, i)
    <2>1. CASE s # r
      BY <1>2, <1>5, <2>1 DEF Resumable
    <2>2. CASE s = r
      <3>1. /\ db'[r].run = "requires_action"
            /\ db'[r].tools[i].status = "waiting_human"
        BY <1>5, <2>2 DEF Resumable
      <3>2. db[r].tools[i].status = "waiting_human"
        BY <1>2, <1>5, <2>2, <3>1 DEF Kept
      <3>3. i \in Waiting(r)
        BY <1>5, <2>2, <3>2 DEF Waiting
      <3>4. db[r].run = "requires_action"
        BY <1>2, <3>1, <3>3
      <3> QED
        BY <1>5, <2>2, <3>2, <3>4 DEF Resumable
    <2> QED
      BY <2>1, <2>2
  <1> QED
    BY <1>3, <1>4, <1>5, <1>6

-----------------------------------------------------------------------------
(* The steps of a task keep the invariant.                                  *)

\* A task disappears or is replaced by what becomes of it.
LEMMA TaskActs ==
    ASSUME TypeOK, RowsInv, NEW t \in tasks, TaskStep(t), undone \subseteq undone'
    PROVE  /\ t.run \in Runs /\ t \in TaskRows /\ Acts(t.run) /\ tasks' \subseteq TaskRows
           /\ impaired' \in {impaired, impaired \cup {t.run}}
           /\ \A u \in tasks' : u \in tasks \/ Replaced(t, u)
  <1>1. t \in TaskRows /\ t.run \in Runs /\ tasks \subseteq TaskRows
    BY DEF TypeOK, TaskRows
  <1>2. Bounded(t.run) /\ db[t.run].run # "none"
    BY DEF TaskStep, RowsInv
  <1>3. ASSUME tasks' = tasks \ {t}, impaired' \in {impaired, impaired \cup {t.run}}
        PROVE  /\ Acts(t.run) /\ tasks' \subseteq TaskRows
               /\ \A u \in tasks' : u \in tasks
    BY <1>1, <1>2, <1>3 DEF Acts
  <1>4. ASSUME NEW u, Replaced(t, u)
        PROVE  /\ Acts(t.run) /\ tasks' \subseteq TaskRows
               /\ \A v \in tasks' : v \in tasks \/ v = u
               /\ impaired' = impaired
    BY <1>1, <1>2, <1>4 DEF Acts, Replaced
  <1>5. \/ tasks' = tasks \ {t} /\ impaired' \in {impaired, impaired \cup {t.run}}
        \/ \E u : Replaced(t, u)
    BY DEF TaskStep, Lost, EndsRun, LeavesRun, GoesOn, Starts, Asks
  <1>6. CASE tasks' = tasks \ {t} /\ impaired' \in {impaired, impaired \cup {t.run}}
    BY <1>1, <1>3, <1>6
  <1>7. CASE \E u : Replaced(t, u)
    <2>1. PICK u : Replaced(t, u)
      BY <1>7
    <2> QED
      BY <1>1, <1>4, <2>1
  <1> QED
    BY <1>5, <1>6, <1>7

LEMMA TaskApproval ==
    ASSUME TypeOK, RowsInv, ApprovalInv, QuestionInv, NEW t \in tasks, TaskStep(t),
           undone \subseteq undone', Refunds(t), Saves(t), answers' = answers
    PROVE  ApprovalInv'
  <1>1. /\ t.run \in Runs /\ t \in TaskRows /\ Acts(t.run)
        /\ \A u \in tasks' : u \in tasks \/ Replaced(t, u)
    BY TaskActs
  <1>0. crossed \subseteq crossed'
    BY DEF Saves
  <1>2. /\ \A s \in Runs : \A i, order : Approved(s, i, order) => Approved(s, i, order)'
        /\ \A s \in Runs : \A i : Accepted(s, i) => Accepted(s, i)'
        /\ \A s \in Runs : \A i : i \in DOMAIN db[s].tools =>
              i \in DOMAIN db'[s].tools /\ (Resumable(s, i)' => Resumable(s, i))
    BY <1>0, <1>1, AnswersKept
  <1>3. AnsweredOnce'
    BY DEF ApprovalInv, AnsweredOnce
  <1>4. Answered'
    <2>1. \A n \in DOMAIN answers : answers[n][1] \in Runs
      <3>1. answers \in Seq(Runs \X Nat \X Actions)
        BY DEF TypeOK
      <3>2. \A n \in DOMAIN answers : answers[n] \in Runs \X Nat \X Actions
        BY <3>1, ElementOfSeq, LenProperties
      <3> QED
        BY <3>2
    <2>2. ASSUME NEW n \in DOMAIN answers
          PROVE  /\ answers[n][2] \in DOMAIN db'[answers[n][1]].tools
                 /\ ~Resumable(answers[n][1], answers[n][2])'
      <3>1. PICK s, i : s = answers[n][1] /\ i = answers[n][2]
        OBVIOUS
      <3>2. s \in Runs /\ i \in DOMAIN db[s].tools /\ ~Resumable(s, i)
        BY <2>1, <3>1 DEF ApprovalInv, Answered
      <3>3. i \in DOMAIN db'[s].tools /\ ~Resumable(s, i)'
        BY <1>2, <3>2
      <3> QED
        BY <3>1, <3>3 DEF Resumable
    <2> QED
      BY <2>2 DEF Answered
  <1>7. ASSUME NEW s \in Runs, NEW i, NEW order, Approved(s, i, order)
        PROVE  Approved(s, i, order)'
    BY <1>2, <1>7
  <1>5. ASSUME NEW u \in tasks', u.answer.action = "approve"
        PROVE  Accepted(u.run, u.tool)' /\ (u.at # "load" => Approved(u.run, u.tool, u.answer.order)')
    <2>1. PICK s, i, order : s = u.run /\ i = u.tool /\ order = u.answer.order
      OBVIOUS
    <2>2. Accepted(s, i)' /\ (u.at # "load" => Approved(s, i, order)')
      <3>1. CASE u \in tasks
        <4>1. s \in Runs /\ Accepted(s, i) /\ (u.at # "load" => Approved(s, i, order))
          BY <1>5, <2>1, <3>1 DEF ApprovalInv, TypeOK, TaskRows
        <4> QED
          BY <1>2, <4>1
      <3>2. CASE Replaced(t, u)
        <4>1. s = t.run /\ i = t.tool /\ s \in Runs /\ (u.at = "load" <=> t.at = "queued")
          BY <1>1, <2>1, <3>2 DEF Replaced
        <4>2. CASE t.at = "load"
          <5>1. Loads(t, u) /\ t.answer.action = "approve"
            BY <1>5, <3>2, <4>2 DEF Replaced, Loads
          <5>2. Accepted(s, i)
            BY <4>1, <5>1 DEF ApprovalInv
          <5>3. Accepted(s, i)'
            BY <1>2, <4>1, <5>2
          <5>4. i \in DOMAIN db[s].tools
            BY <5>2 DEF Accepted
          <5>5. i # 0
            <6>1. db[s].tools \in Seq(ToolRows)
              BY <4>1 DEF TypeOK, Rows
            <6> QED
              BY <5>4, <6>1, LenProperties
          <5>6. CASE s \in crossed'
            BY <5>3, <5>6 DEF Approved
          <5>7. CASE s \notin crossed'
            <6>1. /\ latest.question.run = s /\ latest.question.tool = i
                  /\ latest.question.kind = "approval" /\ latest.question.order = order
              BY <1>5, <2>1, <4>1, <5>1, <5>7 DEF Loads
            <6>2. db[s].tools[i].kind = "approval" /\ db[s].tools[i].order = order
              BY <5>4, <5>5, <6>1 DEF QuestionInv
            <6>3. Approved(s, i, order)
              BY <5>2, <6>2 DEF Approved
            <6> QED
              BY <1>7, <4>1, <5>3, <6>3
          <5> QED
            BY <5>3, <5>6, <5>7
        <4>3. CASE t.at # "load"
          <5>1. u.answer = t.answer
            BY <1>5, <3>2, <4>3 DEF Replaced, NoAnswer
          <5>2. Accepted(s, i) /\ Approved(s, i, order)
            BY <1>5, <2>1, <4>1, <4>3, <5>1 DEF ApprovalInv
          <5> QED
            BY <1>2, <1>7, <4>1, <5>2
        <4> QED
          BY <4>2, <4>3
      <3> QED
        BY <1>1, <3>1, <3>2
    <2> QED
      BY <2>1, <2>2 DEF Approved, Accepted
  <1>6. ASSUME NEW x \in refunds'
        PROVE  Approved(x[1], x[2], x[3])'
    <2>1. \/ x \in refunds
          \/ /\ x = <<t.run, t.tool, t.answer.order>> /\ t.answer.action = "approve"
             /\ t.at = "specialist"
      BY <1>6 DEF Refunds
    <2>2. Approved(x[1], x[2], x[3]) /\ x[1] \in Runs
      BY <1>1, <2>1 DEF ApprovalInv, TypeOK
    <2>3. PICK s, i, order : s = x[1] /\ i = x[2] /\ order = x[3]
      OBVIOUS
    <2>4. Approved(s, i, order) /\ s \in Runs
      BY <2>2, <2>3
    <2>5. Approved(s, i, order)'
      BY <1>2, <2>4
    <2> QED
      BY <2>3, <2>5 DEF Approved, Accepted
  <1> QED
    BY <1>3, <1>4, <1>5, <1>6 DEF ApprovalInv

\* A task that is gone leaves the others as they were.
LEMMA SoloGone ==
    ASSUME NEW r, NEW t \in TasksOf(r), Solo(r), t.run = r, tasks' = tasks \ {t}, OthersKept(t),
           db'[r].run # "requires_action" \/ db'[r].run = db[r].run,
           db[r].run = "cancelled" => db'[r].run = "cancelled"
    PROVE  Solo(r)'
  <1>1. TasksOf(r)' = TasksOf(r) \ {t}
    BY DEF TasksOf
  <1>2. ASSUME NEW u \in TasksOf(r), u # t
        PROVE  ~(u.tool = 0 /\ ~u.asked)
    BY <1>2 DEF Solo
  <1>3. ASSUME NEW u \in TasksOf(r), u # t, u.tool # 0
        PROVE  /\ u.at # "queued" /\ u.tool \in DOMAIN db'[r].tools
               /\ db'[r].tools[u.tool].status = "waiting_human" \/ db'[r].run = "cancelled"
               /\ \A v \in TasksOf(r) : v.tool # 0 => v = u
    <2>1. /\ u.at # "queued" /\ u.tool \in DOMAIN db[r].tools
          /\ db[r].tools[u.tool].status = "waiting_human" \/ db[r].run = "cancelled"
          /\ \A v \in TasksOf(r) : v.tool # 0 => v = u
      BY <1>3 DEF Solo
    <2>2. t.tool = 0
      BY <1>3, <2>1
    <2>3. SameStatus(r, u.tool)
      BY <1>3, <2>1, <2>2 DEF OthersKept
    <2> QED
      BY <2>1, <2>3 DEF SameStatus
  <1>4. \A u \in TasksOf(r) : u.asked => u.tool = 0 /\ u.at # "queued"
    BY DEF Solo
  <1>5. db'[r].run = "requires_action" => \A u \in TasksOf(r) : u.asked
    BY DEF Solo
  <1> QED
    BY <1>1, <1>2, <1>3, <1>4, <1>5 DEF Solo

LEMMA TaskSolo ==
    ASSUME TypeOK, RowsInv, SoloInv, NEW t \in tasks, TaskStep(t), undone' = undone \cup Undone
    PROVE  SoloInv'
  <1>1. /\ t.run \in Runs /\ t \in TaskRows /\ Acts(t.run)
    BY TaskActs
  <1>2. PICK r : r = t.run
    OBVIOUS
  <1>3. SUFFICES ASSUME r \notin impaired', r \notin undone' PROVE Solo(r)'
    BY <1>1, <1>2, SoloKept
  <1>4. r \in Runs /\ Solo(r) /\ t \in TasksOf(r)
    BY <1>1, <1>2, <1>3 DEF SoloInv, Acts, TasksOf
  <1>5. db[r].run = "cancelled" => db'[r].run = "cancelled"
    BY <1>3, <1>4 DEF Undone
  <1>6. ~Lost(t)
    BY <1>2, <1>3 DEF Lost
  <1>7. ASSUME EndsRun(t, "failed") \/ EndsRun(t, "completed") PROVE Solo(r)'
    <2>1. db'[r].run \in {"failed", "completed"} /\ tasks' = tasks \ {t} /\ OthersKept(t)
      BY <1>2, <1>7 DEF EndsRun, Ended
    <2> QED
      BY <1>2, <1>4, <1>5, <2>1, SoloGone
  <1>8. ASSUME LeavesRun(t) PROVE Solo(r)'
    <2>1. db'[r].run = db[r].run /\ tasks' = tasks \ {t} /\ OthersKept(t)
      BY <1>2, <1>8 DEF LeavesRun, SameEnd
    <2> QED
      BY <1>2, <1>4, <1>5, <2>1, SoloGone
  <1>9. ASSUME GoesOn(t) PROVE Solo(r)'
    <2>1. PICK u : Replaced(t, u) /\ u.asked = t.asked
      BY <1>9 DEF GoesOn
    <2>2. /\ t.at # "queued" /\ u.at # "queued" /\ u.run = r /\ u.tool = t.tool
          /\ TasksOf(r)' = (TasksOf(r) \ {t}) \cup {u}
          /\ db'[r].run = db[r].run
      BY <1>2, <1>9, <2>1 DEF GoesOn, Replaced, TasksOf, SameEnd
    <2>3. \A i \in DOMAIN db[r].tools :
            i \in DOMAIN db'[r].tools /\ db'[r].tools[i].status = db[r].tools[i].status
      BY <1>2, <1>9 DEF GoesOn, ToolsKept, SameStatus
    <2>4. db'[r].run = "requires_action" => \A v \in TasksOf(r)' : v.asked
      BY <1>4, <2>1, <2>2 DEF Solo
    <2>5. ASSUME NEW v \in TasksOf(r)', v.asked PROVE v.tool = 0 /\ v.at # "queued"
      BY <1>4, <2>1, <2>2, <2>5 DEF Solo
    <2>6. ASSUME NEW v \in TasksOf(r)', v.tool = 0, ~v.asked
          PROVE  /\ \A w \in TasksOf(r)' : w = v
                 /\ db'[r].run \in {"cancelled", IF v.at = "queued" THEN "queued" ELSE "running"}
      <3>1. CASE v = u
        <4>1. t.tool = 0 /\ ~t.asked
          BY <2>1, <2>2, <2>6, <3>1
        <4>2. /\ \A w \in TasksOf(r) : w = t
              /\ db[r].run \in {"cancelled", "running"}
          BY <1>4, <2>2, <4>1 DEF Solo
        <4> QED
          BY <2>2, <3>1, <4>2
      <3>2. CASE v # u
        <4>1. v \in TasksOf(r) /\ v # t
          BY <2>2, <3>2
        <4> QED
          BY <1>4, <2>6, <4>1 DEF Solo
      <3> QED
        BY <3>1, <3>2
    <2>7. ASSUME NEW v \in TasksOf(r)', v.tool # 0
          PROVE  /\ v.at # "queued"
                 /\ v.tool \in DOMAIN db'[r].tools
                 /\ db'[r].tools[v.tool].status = "waiting_human" \/ db'[r].run = "cancelled"
                 /\ \A w \in TasksOf(r)' : w.tool # 0 => w = v
      <3>1. PICK x \in TasksOf(r) : x.tool = v.tool /\ (IF v = u THEN x = t ELSE x = v)
        BY <1>4, <2>2
      <3>2. /\ x.at # "queued" /\ x.tool \in DOMAIN db[r].tools
            /\ db[r].tools[x.tool].status = "waiting_human" \/ db[r].run = "cancelled"
            /\ \A w \in TasksOf(r) : w.tool # 0 => w = x
        BY <1>4, <2>7, <3>1 DEF Solo
      <3>3. \A w \in TasksOf(r)' : w.tool # 0 => w = v
        BY <1>4, <2>2, <3>1, <3>2
      <3> QED
        BY <2>2, <2>3, <3>1, <3>2, <3>3
    <2> QED
      BY <2>4, <2>5, <2>6, <2>7 DEF Solo
  <1>10. ASSUME Starts(t) PROVE Solo(r)'
    <2>1. PICK u : Replaced(t, u) /\ u.asked = t.asked
      BY <1>10 DEF Starts
    <2>2. t.tool = 0 /\ ~t.asked
      BY <1>4, <1>10 DEF Solo, Starts
    <2>3. \A v \in TasksOf(r) : v = t
      BY <1>4, <2>2 DEF Solo
    <2>4. /\ u.at # "queued" /\ u.tool = 0 /\ ~u.asked
          /\ TasksOf(r)' = {u} /\ db'[r].run = "running"
      BY <1>2, <1>10, <2>1, <2>2, <2>3 DEF Starts, Replaced, TasksOf
    <2> QED
      BY <2>4 DEF Solo
  <1>11. ASSUME Asks(t) PROVE Solo(r)'
    <2>1. PICK u : Replaced(t, u) /\ u.asked
      BY <1>11 DEF Asks
    <2>2. t.tool = 0 /\ ~t.asked
      BY <1>2, <1>4, <1>11 DEF Solo, Asks, Waiting
    <2>3. \A v \in TasksOf(r) : v = t
      BY <1>4, <2>2 DEF Solo
    <2>4. /\ u.at # "queued" /\ u.tool = 0 /\ u.asked
          /\ TasksOf(r)' = {u} /\ db'[r].run = "requires_action"
      BY <1>2, <1>11, <2>1, <2>2, <2>3 DEF Asks, Replaced, TasksOf
    <2> QED
      BY <2>4 DEF Solo
  <1> QED
    BY <1>6, <1>7, <1>8, <1>9, <1>10, <1>11 DEF TaskStep

LEMMA TaskOne ==
    ASSUME TypeOK, RowsInv, SoloInv, OneInv, NEW t \in tasks, TaskStep(t), undone' = undone \cup Undone
    PROVE  OneInv'
  <1>1. /\ t.run \in Runs /\ t \in TaskRows /\ Acts(t.run)
    BY TaskActs
  <1>2. PICK r : r = t.run
    OBVIOUS
  <1>3. SUFFICES ASSUME r \notin impaired', r \notin undone', db'[r].run \in ActiveStatuses
                 PROVE  db[r].run \in ActiveStatuses
    BY <1>1, <1>2, OneKept
  <1>4. r \in Runs /\ Solo(r) /\ t \in TasksOf(r)
    BY <1>1, <1>2, <1>3 DEF SoloInv, Acts, TasksOf
  <1>5. db[r].run # "cancelled"
    BY <1>3, <1>4 DEF Undone, ActiveStatuses
  <1>6. ~Lost(t)
    BY <1>2, <1>3 DEF Lost
  <1>7. ~EndsRun(t, "failed") /\ ~EndsRun(t, "completed")
    BY <1>2, <1>3 DEF EndsRun, Ended, ActiveStatuses
  <1>8. CASE LeavesRun(t) \/ GoesOn(t)
    BY <1>2, <1>3, <1>8 DEF LeavesRun, GoesOn, SameEnd
  <1>9. CASE Starts(t)
    <2>1. t.at = "queued" /\ t.tool = 0 /\ ~t.asked
      BY <1>4, <1>9 DEF Solo, Starts
    <2> QED
      BY <1>4, <1>5, <2>1 DEF Solo, ActiveStatuses
  <1>10. CASE Asks(t)
    <2>1. t.tool = 0 /\ ~t.asked
      BY <1>2, <1>4, <1>10 DEF Solo, Asks, Waiting
    <2> QED
      BY <1>4, <1>5, <2>1 DEF Solo, ActiveStatuses
  <1> QED
    BY <1>6, <1>7, <1>8, <1>9, <1>10 DEF TaskStep

LEMMA TaskEnds ==
    ASSUME TypeOK, RowsInv, EndsInv, NEW t \in tasks, TaskStep(t), undone \subseteq undone'
    PROVE  EndsInv'
  <1>1. /\ t.run \in Runs /\ t \in TaskRows /\ Acts(t.run)
    BY TaskActs
  <1>2. PICK r : r = t.run
    OBVIOUS
  <1>3. SUFFICES ASSUME r \notin impaired', db'[r].run \in EndStatuses PROVE Ends(r)'
    BY <1>1, <1>2, EndsKept DEF Ends
  <1>4. r \in Runs /\ Ends(r) /\ t \in TasksOf(r)
    BY <1>1, <1>2, <1>3 DEF EndsInv, Acts, TasksOf
  <1>5. ~Lost(t) /\ ~Starts(t) /\ ~Asks(t)
    BY <1>2, <1>3 DEF Lost, Starts, Asks, EndStatuses
  <1>6. CASE EndsRun(t, "failed") \/ EndsRun(t, "completed")
    BY <1>2, <1>6 DEF EndsRun, Ended, Ends
  <1>7. CASE LeavesRun(t)
    <2>1. /\ db[r].run = db'[r].run /\ db'[r].message = db[r].message
          /\ db'[r].events # <<>>
          /\ Last(db'[r].events) \in {Last(db[r].events), "tool_call.completed"}
      BY <1>2, <1>3, <1>4, <1>7 DEF LeavesRun, SameEnd, Ends
    <2>2. \A u \in TasksOf(r) : u # t => u \in TasksOf(r)'
      BY <1>7 DEF LeavesRun, TasksOf
    <2>3. t.asked \/ db[r].run = "cancelled"
      BY <1>2, <1>7 DEF LeavesRun
    <2> QED
      BY <1>3, <1>4, <2>1, <2>2, <2>3 DEF Ends
  <1>8. CASE GoesOn(t)
    <2>1. PICK u : Replaced(t, u) /\ u.asked = t.asked
      BY <1>8 DEF GoesOn
    <2>2. /\ u.at # "queued" /\ u \in TasksOf(r)'
          /\ \A v \in TasksOf(r) : v # t => v \in TasksOf(r)'
      BY <1>2, <2>1 DEF Replaced, TasksOf
    <2>3. /\ db[r].run = db'[r].run /\ db'[r].message = db[r].message
          /\ ~t.asked /\ (db' = db \/ db[r].run # "cancelled")
      BY <1>2, <1>8 DEF GoesOn, SameEnd
    <2>4. CASE db' = db
      BY <1>3, <1>4, <2>1, <2>2, <2>4 DEF Ends
    <2>5. CASE db[r].run # "cancelled"
      <3>1. db'[r].events # <<>>
        BY <1>2, <1>3, <1>4, <1>8, <2>3 DEF GoesOn, Ends
      <3> QED
        BY <1>3, <1>4, <2>1, <2>2, <2>3, <2>5, <3>1 DEF Ends
    <2> QED
      BY <2>3, <2>4, <2>5
  <1> QED
    BY <1>5, <1>6, <1>7, <1>8 DEF TaskStep

-----------------------------------------------------------------------------
(* The invariant and the theorems.                                          *)

LEMMA AgentInit == Init => Inv
  <1> SUFFICES ASSUME Init PROVE Inv
    OBVIOUS
  <1>1. TypeOK
    <2>1. NoRows \in Rows
      <3>1. <<>> \in Seq(ToolRows) /\ <<>> \in Seq(EventTypes)
        OBVIOUS
      <3>2. "none" \in RunStatuses /\ "none" \in MessageStatuses
        BY DEF RunStatuses, MessageStatuses
      <3> QED
        BY <3>1, <3>2 DEF NoRows, Rows
    <2>2. db \in [Runs -> Rows]
      BY <2>1 DEF Init
    <2>3. reader \in [Runs -> [open : BOOLEAN, after : Nat]]
      BY DEF Init
    <2>4. cancels \in 0 .. MaxCancels /\ faults \in 0 .. MaxFaults
      BY AgentBounds DEF Init
    <2>5. answers \in Seq(Runs \X Nat \X Actions)
      BY DEF Init
    <2> QED
      BY <2>2, <2>3, <2>4, <2>5 DEF Init, TypeOK, Checkpoints
  <1>2. \A r \in Runs : db[r] = NoRows /\ db[r].run = "none"
    BY DEF Init, NoRows
  <1>3. RowsInv /\ OneInv
    BY <1>2 DEF Init, RowsInv, OneInv
  <1>4. ApprovalInv
    BY DEF Init, ApprovalInv, AnsweredOnce, Answered
  <1>5. SoloInv
    BY <1>2 DEF Init, SoloInv, Solo, TasksOf
  <1>6. EndsInv
    BY <1>2 DEF EndsInv, Ends, EndStatuses
  <1> QED
    BY <1>1, <1>3, <1>4, <1>5, <1>6 DEF Inv

\* The checkpoint of the thread after a step of a task.
LEMMA SavedType ==
    ASSUME TypeOK, NEW t \in tasks, Saves(t)
    PROVE  latest' \in Checkpoints
  <1>1. t.run \in Runs /\ latest \in Checkpoints /\ db \in [Runs -> Rows]
    BY DEF TypeOK, TaskRows
  <1>2. ASSUME NEW node \in Nodes PROVE Put(t, node) \in Checkpoints
    BY <1>1 DEF Put, Checkpoint, Checkpoints
  <1>3. ASSUME NEW kind \in {"approval", "input"}, NEW order \in Orders \cup {0}
        PROVE  PutWrites(t, kind, order) \in Checkpoints
    <2>1. CASE t.run \notin latest.by
      BY <1>1, <2>1 DEF PutWrites
    <2>2. CASE t.run \in latest.by
      <3>1. latest \in [by : SUBSET Runs, at : Nodes, question : {NoQuestion} \cup PendingQuestions]
        BY <1>1, <2>2 DEF Checkpoints, NoCheckpoint, Checkpoint
      <3>2. db[t.run].tools \in Seq(ToolRows)
        BY <1>1 DEF Rows
      <3>3. Len(db[t.run].tools) + 1 \in Nat \ {0}
        BY <3>2, LenProperties
      <3>4. [run |-> t.run, tool |-> Len(db[t.run].tools) + 1, kind |-> kind, order |-> order]
               \in PendingQuestions
        BY <1>1, <3>3 DEF PendingQuestions
      <3> QED
        BY <2>2, <3>1, <3>4 DEF PutWrites, Checkpoints
    <2> QED
      BY <2>1, <2>2
  <1>4. CASE latest # NoCheckpoint /\ latest' = [latest EXCEPT !.by = @ \cup {t.run}]
    <2>1. latest \in [by : SUBSET Runs, at : Nodes, question : {NoQuestion} \cup PendingQuestions]
      BY <1>1, <1>4 DEF Checkpoints
    <2> QED
      BY <1>1, <1>4, <2>1 DEF Checkpoints
  <1> QED
    BY <1>1, <1>2, <1>3, <1>4 DEF Saves

LEMMA TaskInv ==
    ASSUME Inv, QuestionInv, NEW t \in tasks, Step(t) \/ GraphFails(t)
    PROVE  Inv'
  <1>1. /\ TypeOK /\ RowsInv /\ ApprovalInv /\ SoloInv /\ OneInv /\ EndsInv
    BY DEF Inv
  <1>2. /\ TaskStep(t) /\ Refunds(t) /\ Saves(t)
        /\ undone' = undone \cup Undone
        /\ UNCHANGED <<reader, cancels, answers>>
        /\ faults' \in {faults, faults + 1} /\ faults' <= MaxFaults
    BY <1>1, StepIsTaskStep
  <1>3. /\ t.run \in Runs /\ t \in TaskRows /\ Acts(t.run) /\ tasks' \subseteq TaskRows
        /\ impaired' \in {impaired, impaired \cup {t.run}}
    BY <1>1, <1>2, TaskActs
  <1>4. TypeOK'
    <2>1. db' \in [Runs -> Rows]
      BY <1>3 DEF Acts, Bounded
    <2>2. /\ impaired' \subseteq Runs /\ undone' \subseteq Runs /\ crossed' \subseteq Runs
          /\ latest' \in Checkpoints
      BY <1>1, <1>2, <1>3, SavedType DEF TypeOK, Undone, Saves
    <2>3. refunds' \subseteq Runs \X Nat \X (Orders \cup {0})
      <3>1. t.tool \in Nat /\ t.answer.order \in Orders \cup {0}
        BY <1>3 DEF TaskRows, Answers
      <3> QED
        BY <1>1, <1>2, <1>3, <3>1 DEF TypeOK, Refunds
    <2>4. faults' \in 0 .. MaxFaults
      BY <1>1, <1>2, AgentBounds DEF TypeOK
    <2> QED
      BY <1>1, <1>2, <1>3, <2>1, <2>2, <2>3, <2>4 DEF TypeOK
  <1>5. RowsInv'
    BY <1>1, <1>3, <1>4, RowsKept
  <1>6. ApprovalInv'
    BY <1>1, <1>2, TaskApproval
  <1>7. SoloInv' /\ OneInv'
    BY <1>1, <1>2, TaskSolo, TaskOne
  <1>8. EndsInv'
    BY <1>1, <1>2, TaskEnds
  <1> QED
    BY <1>4, <1>5, <1>6, <1>7, <1>8 DEF Inv

\* Approvals, answers and tool calls after an action that accepts no answer.
LEMMA ApprovalKept ==
    ASSUME TypeOK, ApprovalInv, NEW r \in Runs, Acts(r), UNCHANGED <<answers, refunds, crossed>>,
           \A t \in tasks' : t \in tasks \/ t.answer.action # "approve"
    PROVE  ApprovalInv'
  <1>1. /\ \A s \in Runs : \A i, order : Approved(s, i, order) => Approved(s, i, order)'
        /\ \A s \in Runs : \A i : Accepted(s, i) => Accepted(s, i)'
        /\ \A s \in Runs : \A i : i \in DOMAIN db[s].tools =>
              i \in DOMAIN db'[s].tools /\ (Resumable(s, i)' => Resumable(s, i))
    BY AnswersKept
  <1>2. \A n \in DOMAIN answers : answers[n][1] \in Runs
    <2>1. answers \in Seq(Runs \X Nat \X Actions)
      BY DEF TypeOK
    <2>2. \A n \in DOMAIN answers : answers[n] \in Runs \X Nat \X Actions
      BY <2>1, ElementOfSeq, LenProperties
    <2> QED
      BY <2>2
  <1>3. AnsweredOnce'
    BY DEF ApprovalInv, AnsweredOnce
  <1>4. ASSUME NEW n \in DOMAIN answers
        PROVE  /\ answers[n][2] \in DOMAIN db'[answers[n][1]].tools
               /\ ~Resumable(answers[n][1], answers[n][2])'
    <2>1. PICK s, i : s = answers[n][1] /\ i = answers[n][2]
      OBVIOUS
    <2>2. s \in Runs /\ i \in DOMAIN db[s].tools /\ ~Resumable(s, i)
      BY <1>2, <2>1 DEF ApprovalInv, Answered
    <2>3. i \in DOMAIN db'[s].tools /\ ~Resumable(s, i)'
      BY <1>1, <2>2
    <2> QED
      BY <2>1, <2>3 DEF Resumable
  <1>5. ASSUME NEW u \in tasks', u.answer.action = "approve"
        PROVE  Accepted(u.run, u.tool)' /\ (u.at # "load" => Approved(u.run, u.tool, u.answer.order)')
    <2>1. PICK s, i, order : s = u.run /\ i = u.tool /\ order = u.answer.order
      OBVIOUS
    <2>2. s \in Runs /\ Accepted(s, i) /\ (u.at # "load" => Approved(s, i, order))
      BY <1>5, <2>1 DEF ApprovalInv, TypeOK, TaskRows
    <2>3. Accepted(s, i)' /\ (u.at # "load" => Approved(s, i, order)')
      BY <1>1, <2>2
    <2> QED
      BY <2>1, <2>3 DEF Approved, Accepted
  <1>6. ASSUME NEW x \in refunds'
        PROVE  Approved(x[1], x[2], x[3])'
    <2>1. Approved(x[1], x[2], x[3]) /\ x[1] \in Runs
      BY <1>6 DEF ApprovalInv, TypeOK
    <2>2. PICK s, i, order : s = x[1] /\ i = x[2] /\ order = x[3]
      OBVIOUS
    <2>3. Approved(s, i, order)'
      BY <1>1, <2>1, <2>2
    <2> QED
      BY <2>2, <2>3 DEF Approved, Accepted
  <1> QED
    BY <1>3, <1>4, <1>5, <1>6 DEF ApprovalInv, Answered

\* A request that leaves the rows of the run alone, or impairs the run.
LEMMA ImpairedKept ==
    ASSUME TypeOK, RowsInv, ApprovalInv, SoloInv, OneInv, EndsInv, TypeOK',
           NEW r \in Runs, Bounded(r), db[r].run # "none",
           UNCHANGED <<tasks, answers, refunds, crossed, undone>>,
           (db' = db /\ impaired' = impaired) \/ impaired' = impaired \cup {r}
    PROVE  Inv'
  <1>1. Acts(r)
    BY DEF Acts
  <1>2. RowsInv' /\ ApprovalInv'
    BY <1>1, RowsKept, ApprovalKept
  <1>3. OneInv'
    BY <1>1, OneKept
  <1>4. r \notin impaired' => db' = db /\ impaired' = impaired
    OBVIOUS
  <1>5. r \notin (impaired \cup undone)' => Solo(r)'
    <2> SUFFICES ASSUME r \notin impaired', r \notin undone' PROVE Solo(r)'
      OBVIOUS
    <2>1. Solo(r)
      BY <1>4 DEF SoloInv
    <2> QED
      BY <1>4, <2>1 DEF Solo, TasksOf
  <1>6. r \notin impaired' => Ends(r)'
    <2> SUFFICES ASSUME r \notin impaired' PROVE Ends(r)'
      OBVIOUS
    <2>1. Ends(r)
      BY <1>4 DEF EndsInv
    <2> QED
      BY <1>4, <2>1 DEF Ends, TasksOf
  <1>7. SoloInv' /\ EndsInv'
    BY <1>1, <1>5, <1>6, SoloKept, EndsKept
  <1> QED
    BY <1>2, <1>3, <1>7 DEF Inv

LEMMA CancelInv ==
    ASSUME Inv, NEW r \in Runs, Cancel(r)
    PROVE  Inv'
  <1>1. TypeOK /\ RowsInv /\ ApprovalInv /\ SoloInv /\ OneInv /\ EndsInv
    BY DEF Inv
  <1>2. /\ Bounded(r) /\ db[r].run \in {"queued", "running"} /\ db'[r].run # "requires_action"
        /\ tasks' = tasks /\ cancels' \in 0 .. MaxCancels /\ faults' \in 0 .. MaxFaults
        /\ UNCHANGED <<graphVars, reader, answers, undone>>
        /\ \/ Ended(db'[r], "cancelled") /\ impaired' = impaired
           \/ db' = db /\ impaired' = impaired
           \/ impaired' = impaired \cup {r}
    BY <1>1, CancelStep
  <1>3. TypeOK'
    BY <1>1, <1>2 DEF TypeOK, Bounded, graphVars
  <1>4. CASE (db' = db /\ impaired' = impaired) \/ impaired' = impaired \cup {r}
    BY <1>1, <1>2, <1>3, <1>4, ImpairedKept DEF graphVars
  <1>5. CASE Ended(db'[r], "cancelled") /\ impaired' = impaired
    <2>1. Acts(r) /\ db'[r].run = "cancelled"
      BY <1>2, <1>5 DEF Acts, Ended
    <2>2. RowsInv' /\ ApprovalInv'
      BY <1>1, <1>2, <1>3, <2>1, RowsKept, ApprovalKept DEF graphVars
    <2>3. OneInv'
      BY <1>1, <2>1, OneKept DEF ActiveStatuses
    <2>4. r \notin (impaired \cup undone)' => Solo(r)'
      <3> SUFFICES ASSUME r \notin impaired', r \notin undone' PROVE Solo(r)'
        OBVIOUS
      <3>1. Solo(r) /\ TasksOf(r)' = TasksOf(r)
        BY <1>1, <1>2, <1>5 DEF SoloInv, TasksOf
      <3>2. \A i \in DOMAIN db[r].tools : i \in DOMAIN db'[r].tools
        BY <1>2 DEF Bounded, Kept
      <3> QED
        BY <2>1, <3>1, <3>2 DEF Solo
    <2>5. Ends(r)'
      BY <1>5 DEF Ends, Ended
    <2>6. SoloInv' /\ EndsInv'
      BY <1>1, <2>1, <2>4, <2>5, SoloKept, EndsKept
    <2> QED
      BY <1>3, <2>2, <2>3, <2>6 DEF Inv
  <1> QED
    BY <1>2, <1>4, <1>5

\* An answer is accepted once.
LEMMA AcceptApproval ==
    ASSUME TypeOK, ApprovalInv, NEW r \in Runs, NEW i, NEW action \in Actions, Acts(r),
           Resumable(r, i), Accepts(r, i, action), UNCHANGED <<refunds, crossed>>
    PROVE  ApprovalInv'
  <1> DEFINE x == <<r, i, action>>
             len == Len(answers)
  <1>1. db[r].tools \in Seq(ToolRows) /\ i \in DOMAIN db[r].tools /\ db[r].run = "requires_action"
    BY DEF TypeOK, Rows, Resumable
  <1>2. x \in Runs \X Nat \X Actions /\ x[1] = r /\ x[2] = i
    BY <1>1, LenProperties
  <1>3. answers \in Seq(Runs \X Nat \X Actions) /\ answers' = Append(answers, x)
    BY DEF TypeOK, Accepts
  <1> HIDE DEF x
  <1>4. /\ len \in Nat /\ DOMAIN answers = 1 .. len /\ DOMAIN answers' = 1 .. len + 1
        /\ answers'[len + 1] = x
        /\ \A n \in 1 .. len : answers'[n] = answers[n] /\ answers[n] \in Runs \X Nat \X Actions
    BY <1>2, <1>3, AppendProperties, LenProperties, ElementOfSeq
  <1> HIDE DEF len
  <1>5. /\ \A s \in Runs : \A j, order : Approved(s, j, order) => Approved(s, j, order)'
        /\ \A s \in Runs : \A j : Accepted(s, j) => Accepted(s, j)'
        /\ \A s \in Runs : \A j : j \in DOMAIN db[s].tools =>
              j \in DOMAIN db'[s].tools /\ (Resumable(s, j)' => Resumable(s, j))
    BY <1>2, <1>3, AnswersKept
  <1>6. ASSUME NEW n \in 1 .. len
        PROVE  /\ answers'[n][2] \in DOMAIN db'[answers'[n][1]].tools
               /\ ~Resumable(answers[n][1], answers[n][2])'
               /\ ~(answers[n][1] = r /\ answers[n][2] = i)
    <2>1. PICK s, j : s = answers[n][1] /\ j = answers[n][2]
      OBVIOUS
    <2>2. s \in Runs /\ j \in DOMAIN db[s].tools /\ ~Resumable(s, j)
      BY <1>4, <2>1 DEF ApprovalInv, Answered
    <2>3. j \in DOMAIN db'[s].tools /\ ~Resumable(s, j)'
      BY <1>5, <2>2
    <2>4. ~(s = r /\ j = i)
      BY <2>2
    <2>5. Resumable(answers[n][1], answers[n][2])' => Resumable(s, j)'
      BY <1>4, <2>1 DEF Resumable
    <2> QED
      BY <1>4, <2>1, <2>3, <2>4, <2>5
  <1>7. AnsweredOnce'
    <2> SUFFICES ASSUME NEW m \in 1 .. len + 1, NEW n \in 1 .. len + 1,
                        answers'[m][1] = answers'[n][1], answers'[m][2] = answers'[n][2]
                 PROVE  m = n
      BY <1>4 DEF AnsweredOnce
    <2>1. CASE m \in 1 .. len /\ n \in 1 .. len
      BY <1>4, <2>1 DEF ApprovalInv, AnsweredOnce
    <2>2. CASE m = len + 1 /\ n \in 1 .. len
      BY <1>2, <1>4, <1>6, <2>2
    <2>3. CASE n = len + 1 /\ m \in 1 .. len
      BY <1>2, <1>4, <1>6, <2>3
    <2> QED
      BY <1>4, <2>1, <2>2, <2>3
  <1>8. Answered'
    <2>1. i \in DOMAIN db'[r].tools
      BY <1>1, <1>5
    <2>2. db'[r].run # "requires_action"
      BY DEF Accepts
    <2> SUFFICES ASSUME NEW n \in 1 .. len + 1
                 PROVE  /\ answers'[n][2] \in DOMAIN db'[answers'[n][1]].tools
                        /\ ~(/\ db'[answers'[n][1]].run = "requires_action"
                             /\ answers'[n][2] \in DOMAIN db'[answers'[n][1]].tools
                             /\ db'[answers'[n][1]].tools[answers'[n][2]].status = "waiting_human")
      BY <1>4 DEF Answered, Resumable
    <2>3. CASE n = len + 1
      BY <1>2, <1>4, <2>1, <2>2, <2>3
    <2>4. CASE n \in 1 .. len
      BY <1>4, <1>6, <2>4 DEF Resumable
    <2> QED
      BY <1>4, <2>3, <2>4
  <1>9. ASSUME NEW u \in tasks', u.answer.action = "approve"
        PROVE  Accepted(u.run, u.tool)' /\ (u.at # "load" => Approved(u.run, u.tool, u.answer.order)')
    <2>1. CASE u \in tasks
      <3>1. PICK s, j, order : s = u.run /\ j = u.tool /\ order = u.answer.order
        OBVIOUS
      <3>2. s \in Runs /\ Accepted(s, j) /\ (u.at # "load" => Approved(s, j, order))
        BY <1>9, <2>1, <3>1 DEF ApprovalInv, TypeOK, TaskRows
      <3>3. Accepted(s, j)' /\ (u.at # "load" => Approved(s, j, order)')
        BY <1>5, <3>2
      <3> QED
        BY <3>1, <3>3 DEF Approved, Accepted
    <2>2. CASE u \notin tasks
      <3>1. u.run = r /\ u.tool = i /\ action = "approve" /\ u.at = "load"
        BY <1>9, <2>2 DEF Accepts
      <3>2. i \in DOMAIN db'[r].tools
        BY <1>1, <1>5
      <3>3. len + 1 \in DOMAIN answers' /\ answers'[len + 1] = <<r, i, "approve">>
        BY <1>4, <3>1 DEF x
      <3> QED
        BY <3>1, <3>2, <3>3 DEF Accepted
    <2> QED
      BY <2>1, <2>2
  <1>10. ASSUME NEW y \in refunds'
         PROVE  Approved(y[1], y[2], y[3])'
    <2>1. Approved(y[1], y[2], y[3]) /\ y[1] \in Runs
      BY <1>10 DEF ApprovalInv, TypeOK
    <2>2. PICK s, j, order : s = y[1] /\ j = y[2] /\ order = y[3]
      OBVIOUS
    <2>3. Approved(s, j, order)'
      BY <1>5, <2>1, <2>2
    <2> QED
      BY <2>2, <2>3 DEF Approved, Accepted
  <1> QED
    BY <1>7, <1>8, <1>9, <1>10 DEF ApprovalInv

LEMMA ResumeInv ==
    ASSUME Inv, NEW r \in Runs, NEW i, NEW action \in Actions, NEW order \in Orders,
           Resume(r, i, action, order)
    PROVE  Inv'
  <1>1. TypeOK /\ RowsInv /\ ApprovalInv /\ SoloInv /\ OneInv /\ EndsInv
    BY DEF Inv
  <1>2. /\ Bounded(r) /\ Resumable(r, i) /\ faults' \in 0 .. MaxFaults
        /\ UNCHANGED <<graphVars, reader, cancels, undone>>
        /\ Accepts(r, i, action) \/ Refuses(r)
    BY <1>1, ResumeStep
  <1>3. /\ db[r].run = "requires_action" /\ i \in DOMAIN db[r].tools
        /\ db[r].tools[i].status = "waiting_human"
    BY <1>2 DEF Resumable
  <1>4. CASE Refuses(r)
    <2>1. TypeOK'
      BY <1>1, <1>2, <1>4 DEF TypeOK, Bounded, graphVars, Refuses
    <2> QED
      BY <1>1, <1>2, <1>3, <1>4, <2>1, ImpairedKept DEF graphVars, Refuses
  <1>5. CASE Accepts(r, i, action)
    <2>1. PICK u \in TaskRows :
            /\ tasks' = tasks \cup {u}
            /\ u.run = r /\ u.tool = i /\ i # 0 /\ u.at = "load" /\ ~u.asked
      BY <1>5 DEF Accepts
    <2>2. impaired' = impaired /\ db'[r].run = "running"
      BY <1>5 DEF Accepts
    <2>3. Acts(r)
      BY <1>2, <1>3, <2>1, <2>2 DEF Acts
    <2>4. TypeOK'
      <3>1. answers \in Seq(Runs \X Nat \X Actions) /\ answers' = Append(answers, <<r, i, action>>)
        BY <1>1, <1>5 DEF TypeOK, Accepts
      <3>2. i \in Nat
        BY <2>1 DEF TaskRows
      <3>3. answers' \in Seq(Runs \X Nat \X Actions)
        BY <3>1, <3>2, AppendProperties
      <3> QED
        BY <1>1, <1>2, <2>1, <2>2, <3>3 DEF TypeOK, Bounded, graphVars
    <2>5. RowsInv' /\ ApprovalInv'
      BY <1>1, <1>2, <1>5, <2>3, <2>4, RowsKept, AcceptApproval DEF graphVars
    <2>6. OneInv'
      BY <1>1, <1>3, <2>3, OneKept DEF ActiveStatuses
    <2>7. r \notin (impaired \cup undone)' => Solo(r)'
      <3> SUFFICES ASSUME r \notin impaired', r \notin undone' PROVE Solo(r)'
        OBVIOUS
      <3>1. Solo(r) /\ TasksOf(r)' = TasksOf(r) \cup {u}
        BY <1>1, <1>2, <2>1, <2>2 DEF SoloInv, TasksOf
      <3>2. \A t \in TasksOf(r) : t.asked /\ t.tool = 0 /\ t.at # "queued"
        BY <1>3, <3>1 DEF Solo
      <3>3. i \in DOMAIN db'[r].tools /\ db'[r].tools[i].status = "waiting_human"
        BY <1>3, <1>5 DEF Accepts, SameStatus
      <3> QED
        BY <2>1, <2>2, <3>1, <3>2, <3>3 DEF Solo
    <2>8. Ends(r)'
      BY <2>2 DEF Ends, EndStatuses
    <2>9. SoloInv' /\ EndsInv'
      BY <1>1, <2>3, <2>7, <2>8, SoloKept, EndsKept
    <2> QED
      BY <2>4, <2>5, <2>6, <2>9 DEF Inv
  <1> QED
    BY <1>2, <1>4, <1>5

LEMMA CreateInv ==
    ASSUME Inv, NEW r \in Runs, CreateRun(r)
    PROVE  Inv'
  <1>1. TypeOK /\ RowsInv /\ ApprovalInv /\ SoloInv /\ OneInv /\ EndsInv
    BY DEF Inv
  <1>2. /\ db' \in [Runs -> Rows] /\ \A s \in Runs : s # r => db'[s] = db[s]
        /\ db[r] = NoRows /\ db'[r].run = "queued" /\ db'[r].tools = <<>>
        /\ \A s \in Runs : (s < r => db[s] # NoRows) /\ db[s].run \notin ActiveStatuses
        /\ UNCHANGED <<graphVars, reader, cancels, faults, answers, impaired, undone>>
    BY <1>1, CreateStep
  <1>3. PICK u \in TaskRows :
            /\ tasks' = tasks \cup {u} /\ u.run = r /\ u.tool = 0
            /\ u.at = "queued" /\ ~u.asked /\ u.answer.action = "none"
    BY <1>1, CreateStep
  <1>4. db[r].run = "none" /\ db[r].tools = <<>> /\ \A t \in tasks : t.run # r
    BY <1>1, <1>2 DEF NoRows, RowsInv
  <1>5. TypeOK'
    BY <1>1, <1>2, <1>3 DEF TypeOK, graphVars
  <1>6. Runs \subseteq Nat
    BY AgentBounds
  <1>7. \A s \in Runs : s < r => db[s].run # "none"
    BY <1>1, <1>2 DEF RowsInv
  <1>8. RowsInv'
    <2>1. \A s \in Runs : db'[s].run = "none" => db'[s] = NoRows
      BY <1>1, <1>2 DEF RowsInv
    <2>2. ASSUME NEW p \in Runs, NEW q \in Runs, p < q, db'[q].run # "none"
          PROVE  db'[p].run # "none"
      BY <1>1, <1>2, <1>7, <2>2 DEF RowsInv
    <2>3. \A t \in tasks' : db'[t.run].run # "none"
      BY <1>1, <1>2, <1>3, <1>4, <1>5 DEF RowsInv, TypeOK, TaskRows
    <2> QED
      BY <2>1, <2>2, <2>3 DEF RowsInv
  <1>9. OneInv'
    <2>1. \A s \in Runs : s # r => db'[s].run \notin ActiveStatuses
      BY <1>2
    <2>2. \A s \in Runs : r < s => db'[s].run = "none"
      BY <1>1, <1>2, <1>4, <1>6 DEF RowsInv
    <2> QED
      BY <2>1, <2>2 DEF OneInv
  <1>10. ApprovalInv'
    <2>1. \A s \in Runs : db'[s].tools = db[s].tools
      BY <1>2, <1>4
    <2>2. \A n \in DOMAIN answers : answers[n][1] \in Runs
      <3>1. answers \in Seq(Runs \X Nat \X Actions)
        BY <1>1 DEF TypeOK
      <3>2. \A n \in DOMAIN answers : answers[n] \in Runs \X Nat \X Actions
        BY <3>1, ElementOfSeq, LenProperties
      <3> QED
        BY <3>2
    <2>3. Answered'
      <3> SUFFICES ASSUME NEW n \in DOMAIN answers
                   PROVE  /\ answers[n][2] \in DOMAIN db'[answers[n][1]].tools
                          /\ ~(/\ db'[answers[n][1]].run = "requires_action"
                               /\ answers[n][2] \in DOMAIN db'[answers[n][1]].tools
                               /\ db'[answers[n][1]].tools[answers[n][2]].status = "waiting_human")
        BY <1>2 DEF Answered, Resumable
      <3>1. answers[n][1] # r
        BY <1>1, <1>4 DEF ApprovalInv, Answered
      <3> QED
        BY <1>1, <1>2, <2>2, <3>1 DEF ApprovalInv, Answered, Resumable
    <2>4. AnsweredOnce'
      BY <1>1, <1>2 DEF ApprovalInv, AnsweredOnce
    <2>5. /\ \A s \in Runs : \A i, order : Approved(s, i, order) => Approved(s, i, order)'
          /\ \A s \in Runs : \A i : Accepted(s, i) => Accepted(s, i)'
      BY <1>2, <2>1 DEF Approved, Accepted, graphVars
    <2>6. ASSUME NEW t \in tasks', t.answer.action = "approve"
          PROVE  Accepted(t.run, t.tool)' /\ (t.at # "load" => Approved(t.run, t.tool, t.answer.order)')
      <3>1. t \in tasks
        BY <1>3, <2>6
      <3>2. PICK s, j, order : s = t.run /\ j = t.tool /\ order = t.answer.order
        OBVIOUS
      <3>3. s \in Runs /\ Accepted(s, j) /\ (t.at # "load" => Approved(s, j, order))
        BY <1>1, <2>6, <3>1, <3>2 DEF ApprovalInv, TypeOK, TaskRows
      <3>4. Accepted(s, j)' /\ (t.at # "load" => Approved(s, j, order)')
        BY <2>5, <3>3
      <3> QED
        BY <3>2, <3>4 DEF Approved, Accepted
    <2>7. ASSUME NEW y \in refunds' PROVE Approved(y[1], y[2], y[3])'
      <3>1. Approved(y[1], y[2], y[3]) /\ y[1] \in Runs
        BY <1>1, <1>2, <2>7 DEF ApprovalInv, TypeOK, graphVars
      <3>2. PICK s, j, order : s = y[1] /\ j = y[2] /\ order = y[3]
        OBVIOUS
      <3>3. Approved(s, j, order)'
        BY <2>5, <3>1, <3>2
      <3> QED
        BY <3>2, <3>3 DEF Approved, Accepted
    <2> QED
      BY <2>3, <2>4, <2>6, <2>7 DEF ApprovalInv
  <1>11. ASSUME NEW s \in Runs, s # r
         PROVE  db'[s] = db[s] /\ TasksOf(s)' = TasksOf(s)
    BY <1>2, <1>3, <1>11 DEF TasksOf
  <1>12. TasksOf(r)' = {u}
    BY <1>3, <1>4 DEF TasksOf
  <1>13. Solo(r)' /\ Ends(r)'
    BY <1>2, <1>3, <1>12 DEF Solo, Ends, EndStatuses
  <1>14. SoloInv'
    <2> SUFFICES ASSUME NEW s \in Runs, s \notin impaired', s \notin undone', s # r PROVE Solo(s)'
      BY <1>13 DEF SoloInv
    <2>1. Solo(s)
      BY <1>1, <1>2 DEF SoloInv
    <2> QED
      BY <1>11, <2>1 DEF Solo
  <1>15. EndsInv'
    <2> SUFFICES ASSUME NEW s \in Runs, s \notin impaired', s # r PROVE Ends(s)'
      BY <1>13 DEF EndsInv
    <2>1. Ends(s)
      BY <1>1, <1>2 DEF EndsInv
    <2> QED
      BY <1>11, <2>1 DEF Ends
  <1> QED
    BY <1>5, <1>8, <1>9, <1>10, <1>14, <1>15 DEF Inv

\* The runs and their tasks as they were.
LEMMA StillInv ==
    ASSUME Inv, TypeOK', UNCHANGED <<db, tasks, refunds, crossed, answers, impaired, undone>>
    PROVE  Inv'
  <1>1. RowsInv' /\ OneInv'
    BY DEF Inv, RowsInv, OneInv
  <1>2. ApprovalInv'
    BY DEF Inv, ApprovalInv, AnsweredOnce, Answered, Approved, Accepted, Resumable
  <1>3. SoloInv'
    BY DEF Inv, SoloInv, Solo, TasksOf
  <1>4. EndsInv'
    BY DEF Inv, EndsInv, Ends, TasksOf
  <1> QED
    BY <1>1, <1>2, <1>3, <1>4 DEF Inv

LEMMA CrashInv ==
    ASSUME Inv, Crash
    PROVE  Inv'
  <1>1. TypeOK /\ RowsInv /\ ApprovalInv /\ SoloInv /\ OneInv /\ EndsInv
    BY DEF Inv
  <1>2. /\ tasks' = {} /\ impaired' = impaired \cup {t.run : t \in tasks}
        /\ UNCHANGED <<db, graphVars, cancels, answers, undone>>
    BY DEF Crash
  <1>3. TypeOK'
    <2>1. faults' \in 0 .. MaxFaults
      BY <1>1, AgentBounds DEF Crash, TypeOK
    <2>2. impaired' \subseteq Runs
      BY <1>1, <1>2 DEF TypeOK, TaskRows
    <2>3. reader' \in [Runs -> [open : BOOLEAN, after : Nat]]
      BY <1>1 DEF Crash, TypeOK
    <2> QED
      BY <1>1, <1>2, <2>1, <2>2, <2>3 DEF TypeOK, graphVars
  <1>4. RowsInv' /\ OneInv'
    BY <1>1, <1>2 DEF RowsInv, OneInv
  <1>5. ApprovalInv'
    BY <1>1, <1>2 DEF ApprovalInv, AnsweredOnce, Answered, Approved, Accepted, Resumable, graphVars
  <1>6. \A r \in Runs : TasksOf(r)' = {} /\ (r \notin impaired' => TasksOf(r) = {} /\ r \notin impaired)
    BY <1>2 DEF TasksOf
  <1>7. SoloInv'
    BY <1>6 DEF SoloInv, Solo
  <1>8. EndsInv'
    <2> SUFFICES ASSUME NEW r \in Runs, r \notin impaired' PROVE Ends(r)'
      BY DEF EndsInv
    <2>1. Ends(r)
      BY <1>1, <1>6 DEF EndsInv
    <2> QED
      BY <1>2, <1>6, <2>1 DEF Ends
  <1> QED
    BY <1>3, <1>4, <1>5, <1>7, <1>8 DEF Inv

LEMMA StreamInv ==
    ASSUME Inv, NEW r \in Runs, OpenStream(r) \/ StreamEvents(r)
    PROVE  Inv'
  <1>1. TypeOK /\ db[r].events \in Seq(EventTypes)
    BY DEF Inv, TypeOK, Rows
  <1>2. DOMAIN db[r].events \subseteq Nat
    BY <1>1, LenProperties
  <1>3. reader' \in [Runs -> [open : BOOLEAN, after : Nat]]
    <2>1. reader \in [Runs -> [open : BOOLEAN, after : Nat]]
      BY <1>1 DEF TypeOK
    <2>2. \A n : [open |-> ~Closes(r, n), after |-> n].open \in BOOLEAN
      BY DEF Closes
    <2>3. \A n \in Nat : [open |-> ~Closes(r, n), after |-> n] \in [open : BOOLEAN, after : Nat]
      BY DEF Closes
    <2>4. [reader[r] EXCEPT !.open = TRUE] \in [open : BOOLEAN, after : Nat]
      BY <2>1
    <2>5. [reader[r] EXCEPT !.open = FALSE] \in [open : BOOLEAN, after : Nat]
      BY <2>1
    <2>6. CASE OpenStream(r)
      BY <2>1, <2>4, <2>6 DEF OpenStream
    <2>7. CASE \E n \in Unread(r) : reader' = [reader EXCEPT ![r] = [open |-> ~Closes(r, n), after |-> n]]
      BY <1>2, <2>1, <2>3, <2>7 DEF Unread
    <2>8. CASE reader' = [reader EXCEPT ![r].open = FALSE]
      BY <2>1, <2>5, <2>8
    <2> QED
      BY <2>6, <2>7, <2>8 DEF StreamEvents
  <1>4. UNCHANGED <<db, tasks, graphVars, cancels, faults, answers, impaired, undone>>
    BY DEF OpenStream, StreamEvents
  <1>5. TypeOK'
    BY <1>1, <1>3, <1>4 DEF TypeOK, graphVars
  <1> QED
    BY <1>4, <1>5, StillInv DEF graphVars

LEMMA ExpiryInv ==
    ASSUME Inv, CheckpointExpires
    PROVE  Inv'
  <1>1. TypeOK
    BY DEF Inv
  <1>2. faults' \in 0 .. MaxFaults /\ latest' \in Checkpoints
    BY <1>1, AgentBounds DEF CheckpointExpires, TypeOK, Checkpoints
  <1>3. UNCHANGED <<db, tasks, refunds, crossed, reader, cancels, answers, impaired, undone>>
    BY DEF CheckpointExpires
  <1>4. TypeOK'
    BY <1>1, <1>2, <1>3 DEF TypeOK
  <1> QED
    BY <1>3, <1>4, StillInv

LEMMA AgentNext == Inv /\ QuestionInv /\ [Next]_vars => Inv'
  <1> SUFFICES ASSUME Inv, QuestionInv, [Next]_vars PROVE Inv'
    OBVIOUS
  <1>1. CASE Crash
    BY <1>1, CrashInv
  <1>2. ASSUME NEW t \in tasks, Step(t) \/ GraphFails(t) PROVE Inv'
    BY <1>2, TaskInv
  <1>3. ASSUME NEW r \in Runs, CreateRun(r) PROVE Inv'
    BY <1>3, CreateInv
  <1>4. ASSUME NEW r \in Runs, Cancel(r) PROVE Inv'
    BY <1>4, CancelInv
  <1>5. CASE CheckpointExpires
    BY <1>5, ExpiryInv
  <1>6. ASSUME NEW r \in Runs, NEW i \in 1 .. MaxTools, NEW a \in Actions, NEW o \in Orders,
               Resume(r, i, a, o)
        PROVE  Inv'
    BY <1>6, ResumeInv
  <1>7. ASSUME NEW r \in Runs, OpenStream(r) \/ StreamEvents(r) PROVE Inv'
    BY <1>7, StreamInv
  <1>8. CASE UNCHANGED vars
    <2>1. TypeOK'
      BY <1>8 DEF vars, graphVars, Inv, TypeOK
    <2> QED
      BY <1>8, <2>1, StillInv DEF vars, graphVars
  <1> QED
    BY <1>1, <1>2, <1>3, <1>4, <1>5, <1>6, <1>7, <1>8 DEF Next

-----------------------------------------------------------------------------
(* The checkpoint of the thread.                                            *)

LEMMA QuestionType ==
    ASSUME TypeOK
    PROVE  /\ latest.question \in {NoQuestion} \cup PendingQuestions
           /\ latest.question.tool # 0 => latest.question.run \in Runs
           /\ latest.question.tool \in Nat
           /\ latest.by \subseteq Runs
  BY DEF TypeOK, Checkpoints, NoCheckpoint, Checkpoint, NoQuestion, PendingQuestions

\* A request neither moves the checkpoint nor adds a tool call.
LEMMA QuestionKept ==
    ASSUME TypeOK, QuestionInv, NEW r \in Runs, Bounded(r), NewIn(r, {}), latest' = latest
    PROVE  QuestionInv'
  <1> SUFFICES ASSUME latest.question.tool # 0,
                      latest.question.tool \in DOMAIN db'[latest.question.run].tools
               PROVE  /\ latest.question.run \in latest.by
                      /\ LET row == db'[latest.question.run].tools[latest.question.tool]
                         IN  row.kind = latest.question.kind /\ row.order = latest.question.order
    BY DEF QuestionInv
  <1>1. PICK s, i : s = latest.question.run /\ i = latest.question.tool
    OBVIOUS
  <1>2. s \in Runs /\ i \in DOMAIN db'[s].tools
    BY <1>1, QuestionType
  <1>3. i \in DOMAIN db[s].tools
    BY <1>2 DEF Bounded, NewIn
  <1>4. /\ db'[s].tools[i].kind = db[s].tools[i].kind
        /\ db'[s].tools[i].order = db[s].tools[i].order
    BY <1>2, <1>3 DEF Bounded, Kept
  <1> QED
    BY <1>1, <1>3, <1>4 DEF QuestionInv

LEMMA QuestionTask ==
    ASSUME TypeOK, QuestionInv, NEW t \in tasks, TaskStep(t), Saves(t)
    PROVE  QuestionInv'
  <1> DEFINE n == Len(db[t.run].tools)
  <1>1. t.run \in Runs /\ db[t.run].tools \in Seq(ToolRows) /\ Bounded(t.run) /\ NewRows(t)
    BY DEF TypeOK, TaskRows, Rows, TaskStep
  <1>2. n \in Nat /\ DOMAIN db[t.run].tools = 1 .. n
    BY <1>1, LenProperties
  <1>3. ASSUME latest'.question = latest.question, latest.by \subseteq latest'.by,
               latest.question.tool # 0,
               \/ latest.question.run # t.run
               \/ DOMAIN db'[t.run].tools = DOMAIN db[t.run].tools
        PROVE  QuestionInv'
    <2>1. PICK s, i : s = latest.question.run /\ i = latest.question.tool
      OBVIOUS
    <2>2. s \in Runs /\ s \in latest'.by
      BY <1>3, <2>1, QuestionType DEF QuestionInv
    <2>3. ASSUME i \in DOMAIN db'[s].tools
          PROVE  /\ db'[s].tools[i].kind = latest.question.kind
                 /\ db'[s].tools[i].order = latest.question.order
      <3>1. i \in DOMAIN db[s].tools
        BY <1>1, <1>3, <2>1, <2>2, <2>3 DEF Bounded
      <3>2. /\ db'[s].tools[i].kind = db[s].tools[i].kind
            /\ db'[s].tools[i].order = db[s].tools[i].order
        BY <1>1, <2>2, <3>1 DEF Bounded, Kept
      <3> QED
        BY <1>3, <2>1, <3>1, <3>2 DEF QuestionInv
    <2> QED
      BY <1>3, <2>1, <2>2, <2>3 DEF QuestionInv
  <1>4. ASSUME latest'.question.tool = 0 PROVE QuestionInv'
    BY <1>4 DEF QuestionInv
  <1>5. ASSUME NEW kind, NEW order, latest' = PutWrites(t, kind, order), t.run \in latest.by,
               latest \in [by : SUBSET Runs, at : Nodes, question : {NoQuestion} \cup PendingQuestions],
               n + 1 \in DOMAIN db'[t.run].tools =>
                    /\ db'[t.run].tools[n + 1].kind = kind
                    /\ db'[t.run].tools[n + 1].order = order
        PROVE  QuestionInv'
    <2>1. /\ latest'.by = latest.by /\ latest'.question.run = t.run
          /\ latest'.question.tool = n + 1
          /\ latest'.question.kind = kind /\ latest'.question.order = order
      BY <1>5 DEF PutWrites
    <2> QED
      BY <1>5, <2>1 DEF QuestionInv
  <1>6. t.run \in latest.by =>
          latest \in [by : SUBSET Runs, at : Nodes, question : {NoQuestion} \cup PendingQuestions]
    BY DEF TypeOK, Checkpoints, NoCheckpoint, Checkpoint
  <1>7. CASE DOMAIN db'[t.run].tools = DOMAIN db[t.run].tools
    <2>1. CASE latest' = latest
      BY <1>3, <1>4, <1>7, <2>1
    <2>2. CASE \E node \in Nodes : latest' = Put(t, node)
      BY <1>4, <2>2 DEF Put, Checkpoint, NoQuestion
    <2>3. ASSUME NEW kind, NEW order, latest' = PutWrites(t, kind, order) PROVE QuestionInv'
      <3>1. CASE t.run \in latest.by
        <4>1. n + 1 \notin DOMAIN db'[t.run].tools
          BY <1>2, <1>7
        <4> QED
          BY <1>5, <1>6, <2>3, <3>1, <4>1
      <3>2. CASE t.run \notin latest.by
        BY <2>1, <2>3, <3>2 DEF PutWrites
      <3> QED
        BY <3>1, <3>2
    <2>4. CASE latest # NoCheckpoint /\ latest' = [latest EXCEPT !.by = @ \cup {t.run}]
      <3>1. latest \in [by : SUBSET Runs, at : Nodes, question : {NoQuestion} \cup PendingQuestions]
        BY <2>4 DEF TypeOK, Checkpoints
      <3>2. latest'.question = latest.question /\ latest.by \subseteq latest'.by
        BY <2>4, <3>1
      <3> QED
        BY <1>3, <1>4, <1>7, <3>2
    <2> QED
      BY <2>1, <2>2, <2>3, <2>4 DEF Saves
  <1>8. CASE DOMAIN db'[t.run].tools # DOMAIN db[t.run].tools
    <2>1. PICK i : i \in DOMAIN db'[t.run].tools \ DOMAIN db[t.run].tools
      BY <1>1, <1>8 DEF Bounded, Kept
    <2>2. latest' = PutWrites(t, db'[t.run].tools[i].kind, db'[t.run].tools[i].order)
      BY <1>1, <2>1 DEF NewRows
    <2>3. CASE t.run \notin latest.by
      <3>1. latest' = latest
        BY <2>2, <2>3 DEF PutWrites
      <3>2. latest.question.tool # 0 => latest.question.run # t.run
        BY <2>3 DEF QuestionInv
      <3> QED
        BY <1>3, <1>4, <3>1, <3>2
    <2>4. CASE t.run \in latest.by
      <3>1. CASE n + 1 \in DOMAIN db'[t.run].tools
        <4>1. n + 1 \notin DOMAIN db[t.run].tools
          BY <1>2
        <4>2. latest' = PutWrites(t, db'[t.run].tools[n + 1].kind, db'[t.run].tools[n + 1].order)
          BY <1>1, <3>1, <4>1 DEF NewRows
        <4> QED
          BY <1>5, <1>6, <2>4, <4>2
      <3>2. CASE n + 1 \notin DOMAIN db'[t.run].tools
        BY <1>5, <1>6, <2>2, <2>4, <3>2
      <3> QED
        BY <3>1, <3>2
    <2> QED
      BY <2>3, <2>4
  <1> QED
    BY <1>7, <1>8

LEMMA QuestionNext == Inv /\ QuestionInv /\ [Next]_vars => QuestionInv'
  <1> SUFFICES ASSUME Inv, QuestionInv, [Next]_vars PROVE QuestionInv'
    OBVIOUS
  <1>1. TypeOK /\ RowsInv
    BY DEF Inv
  <1>2. ASSUME UNCHANGED <<db, latest>> PROVE QuestionInv'
    BY <1>2 DEF QuestionInv
  <1>3. CASE Crash
    BY <1>2, <1>3 DEF Crash, graphVars
  <1>4. ASSUME NEW t \in tasks, Step(t) \/ GraphFails(t) PROVE QuestionInv'
    BY <1>1, <1>4, StepIsTaskStep, QuestionTask
  <1>5. ASSUME NEW r \in Runs, CreateRun(r) PROVE QuestionInv'
    <2>1. /\ \A s \in Runs : s # r => db'[s] = db[s]
          /\ db'[r].tools = <<>> /\ latest' = latest
      BY <1>1, <1>5, CreateStep DEF graphVars
    <2>2. latest.question.tool # 0 => latest.question.run \in Runs
      BY <1>1, QuestionType
    <2>3. DOMAIN db'[r].tools = {}
      BY <2>1
    <2> QED
      BY <2>1, <2>2, <2>3 DEF QuestionInv
  <1>6. ASSUME NEW r \in Runs, Cancel(r) PROVE QuestionInv'
    BY <1>1, <1>6, CancelStep, QuestionKept DEF graphVars
  <1>7. CASE CheckpointExpires
    BY <1>7 DEF CheckpointExpires, QuestionInv, NoCheckpoint, Checkpoint, NoQuestion
  <1>8. ASSUME NEW r \in Runs, NEW i \in 1 .. MaxTools, NEW a \in Actions, NEW o \in Orders,
               Resume(r, i, a, o)
        PROVE  QuestionInv'
    BY <1>1, <1>8, ResumeStep, QuestionKept DEF graphVars
  <1>9. ASSUME NEW r \in Runs, OpenStream(r) \/ StreamEvents(r) PROVE QuestionInv'
    BY <1>2, <1>9 DEF OpenStream, StreamEvents, graphVars
  <1>10. CASE UNCHANGED vars
    BY <1>2, <1>10 DEF vars, graphVars
  <1> QED
    BY <1>3, <1>4, <1>5, <1>6, <1>7, <1>8, <1>9, <1>10 DEF Next

-----------------------------------------------------------------------------
(* One loop on the thread.                                                  *)

\* A run whose tool calls are what they were, or fewer of them wait.
LEMMA CalmWaiting ==
    ASSUME TypeOK, NEW r \in Runs, Bounded(r), NewIn(r, {}), NEW s \in Runs, NEW i \in Waiting(s)'
    PROVE  i \in Waiting(s) /\ i \in Nat
  <1>1. db[s].tools \in Seq(ToolRows)
    BY DEF TypeOK, Rows
  <1>2. i \in DOMAIN db[s].tools
    BY DEF Bounded, NewIn, Waiting
  <1>3. i \in Waiting(s)
    BY <1>2 DEF Bounded, Kept, Waiting
  <1> QED
    BY <1>1, <1>2, <1>3, LenProperties

\* A task whose question was asked only leaves.
LEMMA CalmLeaves ==
    ASSUME TypeOK, Calm, NEW t \in tasks, t.asked, TaskStep(t), Saves(t), faults' = faults
    PROVE  Calm'
  <1>1. t.run \in Runs /\ Bounded(t.run) /\ latest' = latest /\ t.at = "specialist"
    BY DEF TypeOK, TaskRows, TaskStep, Saves
  <1>2. LeavesRun(t)
    BY DEF TaskStep, Lost, EndsRun, GoesOn, Starts, Asks, Replaced, TaskRows
  <1>3. tasks' = tasks \ {t} /\ \A r \in Runs : db'[r].run = db[r].run
    BY <1>1, <1>2 DEF LeavesRun, SameEnd, Bounded
  <1>4. crossed' = crossed
    BY <1>1 DEF Saves
  <1>5. ASSUME NEW r \in Runs, NEW i \in Waiting(r)', db'[r].run = "requires_action"
        PROVE  Asker(r, i)
    BY <1>1, <1>2, <1>3, <1>5, CalmWaiting DEF LeavesRun, Calm
  <1>6. \A r \in Runs, i \in Nat :
           db'[r].run = "requires_action" /\ i \in Waiting(r)' => Asker(r, i)'
    BY <1>1, <1>5 DEF Asker
  <1>7. \A u \in tasks' : u \in tasks /\ u.run \in Runs
    BY <1>3 DEF TypeOK, TaskRows
  <1>8. \A u \in tasks' : u.at = "load" /\ u.tool # 0 => Asker(u.run, u.tool)'
    BY <1>1, <1>7 DEF Calm, Asker
  <1> QED
    BY <1>1, <1>3, <1>4, <1>6, <1>7, <1>8 DEF Calm

\* The one loop goes on, asks or ends.
LEMMA CalmLoop ==
    ASSUME TypeOK, Calm, NEW t \in tasks, ~t.asked, TaskStep(t), Saves(t), faults' = faults
    PROVE  Calm'
  <1>1. t.run \in Runs /\ t \in TaskRows /\ Bounded(t.run) /\ NewRows(t)
    BY DEF TypeOK, TaskRows, TaskStep
  <1>2. /\ db[t.run].run \in {"queued", "running"}
        /\ \A u \in tasks : ~u.asked => u = t
    BY DEF Calm
  <1>3. \A s \in Runs : s # t.run => db'[s] = db[s] /\ db[s].run \notin ActiveStatuses
    BY <1>1, <1>2 DEF Bounded, Calm, ActiveStatuses
  <1>4. crossed' = {}
    BY DEF Saves, Calm, Asker
  <1>5. \A u \in tasks \ {t} : u.asked /\ u.at = "specialist"
    BY <1>2 DEF TypeOK, TaskRows
  <1>6. ASSUME db'[t.run].run # "cancelled"
        PROVE  /\ \A r \in Runs : db'[r].run # "cancelled"
               /\ \A r, s \in Runs : {db'[r].run, db'[s].run} \subseteq ActiveStatuses => r = s
    BY <1>3, <1>6 DEF Calm
  <1>7. ASSUME tasks' = tasks \ {t}, db'[t.run].run \notin {"cancelled", "requires_action"}
        PROVE  Calm'
    <2>1. \A r \in Runs : db'[r].run # "requires_action"
      BY <1>3, <1>7 DEF ActiveStatuses
    <2> QED
      BY <1>4, <1>5, <1>6, <1>7, <2>1 DEF Calm
  <1>8. ASSUME NEW u, Replaced(t, u), t.run \in latest'.by \/ u.at = "load",
               db'[t.run].run # "cancelled",
               ~u.asked => db'[t.run].run \in {"queued", "running"},
               \A i \in Nat : db'[t.run].run = "requires_action" /\ i \in Waiting(t.run)'
                                 => Asker(t.run, i)'
        PROVE  Calm'
    <2>1. /\ tasks' = (tasks \ {t}) \cup {u} /\ u.run = t.run /\ u.tool = t.tool
          /\ u.at = "load" => t.tool = 0
      BY <1>1, <1>8 DEF Replaced, TaskRows
    <2>2. \A v \in tasks' : ~v.asked => v = u
      BY <1>5, <2>1
    <2>3. \A v \in tasks' : v.at = "load" => v = u
      BY <1>5, <2>1
    <2>4. \A r \in Runs, i \in Nat :
             db'[r].run = "requires_action" /\ i \in Waiting(r)' => Asker(r, i)'
      BY <1>3, <1>8 DEF ActiveStatuses
    <2> QED
      BY <1>4, <1>6, <1>8, <2>1, <2>2, <2>3, <2>4 DEF Calm
  <1>9. t.run \in latest.by => t.run \in latest'.by
    <2> SUFFICES ASSUME t.run \in latest.by PROVE t.run \in latest'.by
      OBVIOUS
    <2>1. latest \in [by : SUBSET Runs, at : Nodes, question : {NoQuestion} \cup PendingQuestions]
      BY DEF TypeOK, Checkpoints, NoCheckpoint, Checkpoint
    <2> QED
      BY <2>1 DEF Saves, Put, PutWrites, Checkpoint
  <1>10. CASE Lost(t)
    BY <1>2, <1>7, <1>10 DEF Lost
  <1>11. CASE EndsRun(t, "failed") \/ EndsRun(t, "completed")
    BY <1>7, <1>11 DEF EndsRun, Ended
  <1>12. CASE LeavesRun(t)
    BY <1>2, <1>12 DEF LeavesRun
  <1>13. CASE GoesOn(t)
    <2>1. PICK u : Replaced(t, u) /\ u.asked = t.asked
      BY <1>13 DEF GoesOn
    <2>2. db'[t.run].run = db[t.run].run /\ t.at # "queued"
      BY <1>13 DEF GoesOn, SameEnd
    <2>3. t.run \in latest'.by
      BY <1>9, <2>1, <2>2 DEF Replaced, Calm
    <2> QED
      BY <1>2, <1>8, <2>1, <2>2, <2>3
  <1>14. CASE Starts(t)
    BY <1>8, <1>14 DEF Starts, Replaced
  <1>15. CASE Asks(t)
    <2> DEFINE n == Len(db[t.run].tools)
    <2>1. PICK u : Replaced(t, u) /\ u.asked
      BY <1>15 DEF Asks
    <2>2. /\ t.at # "queued" /\ Waiting(t.run) = {} /\ db'[t.run].run = "requires_action"
          /\ DOMAIN db'[t.run].tools = DOMAIN db[t.run].tools \cup {n + 1}
      BY <1>15 DEF Asks
    <2>3. n + 1 \in DOMAIN db'[t.run].tools \ DOMAIN db[t.run].tools
      <3>1. db[t.run].tools \in Seq(ToolRows)
        BY <1>1 DEF TypeOK, Rows
      <3> QED
        BY <2>2, <3>1, LenProperties
    <2>4. latest' = PutWrites(t, db'[t.run].tools[n + 1].kind, db'[t.run].tools[n + 1].order)
      BY <1>1, <2>3 DEF NewRows
    <2>5. t.run \in latest'.by
      BY <1>9, <2>1, <2>2 DEF Replaced, Calm
    <2>6. t.run \in latest.by
      BY <2>4, <2>5 DEF PutWrites
    <2>7. latest \in [by : SUBSET Runs, at : Nodes, question : {NoQuestion} \cup PendingQuestions]
      BY <2>6 DEF TypeOK, Checkpoints, NoCheckpoint, Checkpoint
    <2>8. latest'.question.run = t.run /\ latest'.question.tool = n + 1
      BY <2>4, <2>6, <2>7 DEF PutWrites
    <2>9. ASSUME NEW i \in Waiting(t.run)' PROVE i = n + 1
      BY <1>1, <2>2, <2>9 DEF Waiting, Bounded, Kept
    <2> QED
      BY <1>8, <2>1, <2>2, <2>5, <2>8, <2>9 DEF Asker
  <1> QED
    BY <1>10, <1>11, <1>12, <1>13, <1>14, <1>15 DEF TaskStep

\* A new run finds no loop under way.
LEMMA CalmCreate ==
    ASSUME TypeOK, RowsInv, Calm, NEW r \in Runs, CreateRun(r)
    PROVE  Calm'
  <1>1. PICK u \in TaskRows :
          /\ tasks' = tasks \cup {u} /\ u.run = r /\ u.tool = 0 /\ u.at = "queued" /\ ~u.asked
    BY CreateStep
  <1>2. /\ \A s \in Runs : s # r => db'[s] = db[s]
        /\ db'[r].run = "queued"
        /\ \A s \in Runs : db[s].run \notin ActiveStatuses
        /\ latest' = latest /\ crossed' = crossed
    BY CreateStep DEF graphVars
  <1>3. \A t \in tasks : t.asked /\ t.at = "specialist"
    BY <1>2 DEF Calm, TypeOK, TaskRows, ActiveStatuses
  <1>4. \A s \in Runs : db'[s].run # "requires_action" /\ db'[s].run # "cancelled"
    BY <1>2 DEF Calm, ActiveStatuses
  <1>5. \A s \in Runs : db'[s].run \in ActiveStatuses => s = r
    BY <1>2
  <1> QED
    BY <1>1, <1>2, <1>3, <1>4, <1>5 DEF Calm

\* An answer is carried to its own question.
LEMMA CalmResume ==
    ASSUME TypeOK, Calm, NEW r \in Runs, NEW i \in Nat, NEW a \in Actions, NEW o \in Orders,
           Resume(r, i, a, o), faults' = faults
    PROVE  Calm'
  <1>1. /\ Bounded(r) /\ Resumable(r, i) /\ latest' = latest /\ crossed' = crossed
        /\ Accepts(r, i, a) \/ Refuses(r)
    BY ResumeStep DEF graphVars
  <1>2. db[r].run = "requires_action" /\ i \in Waiting(r) /\ Asker(r, i)
    BY <1>1 DEF Resumable, Waiting, Calm
  <1>3. \A s \in Runs : s # r => db'[s] = db[s] /\ db[s].run \notin ActiveStatuses
    BY <1>1, <1>2 DEF Bounded, Calm, ActiveStatuses
  <1>4. \A t \in tasks : t.asked /\ t.at = "specialist"
    <2>1. \A t \in tasks : t.run \in Runs /\ (t.asked => t.at = "specialist")
      BY DEF TypeOK, TaskRows
    <2> QED
      BY <1>2, <1>3, <2>1 DEF Calm, ActiveStatuses
  <1>5. db'[r].run = "running"
    BY <1>1 DEF Accepts, Refuses
  <1>6. /\ \A s \in Runs : db'[s].run # "requires_action" /\ db'[s].run # "cancelled"
        /\ \A s \in Runs : db'[s].run \in ActiveStatuses => s = r
    BY <1>3, <1>5 DEF Calm, ActiveStatuses
  <1>7. CASE tasks' = tasks
    BY <1>1, <1>4, <1>6, <1>7 DEF Calm
  <1>8. ASSUME NEW u, tasks' = tasks \cup {u}, u.run = r, u.tool = i, u.at = "load", ~u.asked
        PROVE  Calm'
    BY <1>1, <1>2, <1>4, <1>5, <1>6, <1>8 DEF Calm, Asker
  <1> QED
    BY <1>1, <1>7, <1>8 DEF Accepts, Refuses

LEMMA CalmNext == Inv /\ CalmInv /\ [Next]_vars => CalmInv'
  <1> SUFFICES ASSUME Inv, CalmInv, [Next]_vars, cancels' = 0, faults' = 0 PROVE Calm'
    BY DEF CalmInv
  <1>1. TypeOK /\ RowsInv /\ cancels \in Nat /\ faults \in Nat
    BY AgentBounds DEF Inv, TypeOK
  <1>2. ASSUME UNCHANGED <<db, tasks, latest, crossed, cancels, faults>> PROVE Calm'
    BY <1>2 DEF CalmInv, Calm, Asker, Waiting
  <1>3. CASE Crash
    BY <1>1, <1>3 DEF Crash
  <1>4. ASSUME NEW t \in tasks, Step(t) \/ GraphFails(t) PROVE Calm'
    <2>1. TaskStep(t) /\ Saves(t) /\ cancels' = cancels /\ faults' \in {faults, faults + 1}
      BY <1>1, <1>4, StepIsTaskStep
    <2>2. faults' = faults /\ Calm
      BY <1>1, <2>1 DEF CalmInv
    <2>3. t.asked \in BOOLEAN
      BY <1>1 DEF TypeOK, TaskRows
    <2> QED
      BY <1>1, <2>1, <2>2, <2>3, CalmLeaves, CalmLoop
  <1>5. ASSUME NEW r \in Runs, CreateRun(r) PROVE Calm'
    BY <1>1, <1>5, CreateStep, CalmCreate DEF CalmInv
  <1>6. ASSUME NEW r \in Runs, Cancel(r) PROVE Calm'
    BY <1>1, <1>6, CancelStep
  <1>7. CASE CheckpointExpires
    BY <1>1, <1>7 DEF CheckpointExpires
  <1>8. ASSUME NEW r \in Runs, NEW i \in 1 .. MaxTools, NEW a \in Actions, NEW o \in Orders,
               Resume(r, i, a, o)
        PROVE  Calm'
    <2>1. faults' \in {faults, faults + 1} /\ cancels' = cancels
      BY <1>1, <1>8, ResumeStep
    <2>2. faults' = faults /\ Calm /\ i \in Nat
      BY <1>1, <2>1, AgentBounds DEF CalmInv
    <2> QED
      BY <1>1, <1>8, <2>2, CalmResume
  <1>9. ASSUME NEW r \in Runs, OpenStream(r) \/ StreamEvents(r) PROVE Calm'
    BY <1>2, <1>9 DEF OpenStream, StreamEvents, graphVars
  <1>10. CASE UNCHANGED vars
    BY <1>2, <1>10 DEF vars, graphVars
  <1> QED
    BY <1>3, <1>4, <1>5, <1>6, <1>7, <1>8, <1>9, <1>10 DEF Next

LEMMA AgentInvariant == Spec => []Inv /\ []CalmInv
  <1>1. Init => QuestionInv
    BY DEF Init, QuestionInv, NoCheckpoint, Checkpoint, NoQuestion
  <1>2. Init => CalmInv
    BY DEF Init, CalmInv, Calm, NoRows, ActiveStatuses
  <1> QED
    BY <1>1, <1>2, AgentInit, AgentNext, QuestionNext, CalmNext, PTL DEF Spec

\* Rows, tasks, checkpoints, streams and histories keep their types, and the writes
\* of the repositories go to rows that exist, for any runs, orders and bounds.
THEOREM AgentTypeCorrect == Spec => []TypeOK
  <1>1. Inv => TypeOK
    BY DEF Inv
  <1> QED
    BY <1>1, AgentInvariant, PTL

\* create_run keeps a thread to one active run: an earlier run that is active beside
\* a later one has lost its task or part of an update, or its task has overwritten
\* its cancellation.
THEOREM AgentOneActiveRun == Spec => []OneActiveRun
  <1>1. Inv => OneActiveRun
    <2> SUFFICES ASSUME Inv, NEW r \in ActiveRuns, NEW s \in ActiveRuns, r < s
                 PROVE  r \in undone \cup impaired
      BY DEF OneActiveRun
    <2>1. r \in Runs /\ s \in Runs /\ db[s].run # "none" /\ db[r].run \in ActiveStatuses
      BY DEF ActiveRuns, ActiveStatuses
    <2> QED
      BY <2>1 DEF Inv, OneInv
  <1> QED
    BY <1>1, AgentInvariant, PTL

\* The approval wrapper of refund_order lets no refund pass without an approval of
\* this tool call, and resume takes one answer for a tool call.  The refund is of the
\* order that was approved unless the answer met another question at the checkpoint
\* the runs of the thread share, which takes a cancellation or a failure.
THEOREM AgentRefundsApproved == Spec => []RefundsApproved
  <1>1. Inv /\ CalmInv => RefundsApproved
    <2> SUFFICES ASSUME Inv, CalmInv PROVE RefundsApproved
      OBVIOUS
    <2>1. cancels \in Nat /\ faults \in Nat
      BY AgentBounds DEF Inv, TypeOK
    <2>2. crossed # {} => cancels + faults > 0
      BY <2>1 DEF CalmInv, Calm
    <2> QED
      BY <2>2 DEF Inv, ApprovalInv, Approved, Accepted, RefundsApproved
  <1> QED
    BY <1>1, AgentInvariant, PTL

\* The projector and cancel_run tell one end of a run in its row, its output message
\* and its last event, as long as no update of the run was cut off.
THEOREM AgentEndsAgree == Spec => []EndsAgree
  <1>1. Inv => EndsAgree
    BY DEF Inv, EndsInv, Ends, EndsAgree, Executing, TasksOf
  <1> QED
    BY <1>1, AgentInvariant, PTL

-----------------------------------------------------------------------------
(* The order of the rows.                                                   *)

\* Later times are not recorded as earlier ones.
LEMMA RecordedMonotone ==
    ASSUME NEW a \in Nat, NEW b \in Nat, a <= b
    PROVE  Recorded(a) \in Nat /\ Recorded(a) <= Recorded(b)
  <1>1. Unit \in Nat /\ Unit > 0 /\ Unit \div 2 \in Nat
    BY ConversationAssumption
  <1>2. ASSUME NEW x \in Nat, NEW y \in Nat, x <= y
        PROVE  x \div Unit \in Nat /\ x \div Unit <= y \div Unit
    BY <1>1, <1>2
  <1> QED
    BY <1>1, <1>2 DEF Recorded

LEMMA LessThree ==
    ASSUME NEW a \in Int, NEW b \in Int, NEW c \in Int, NEW x \in Int, NEW y \in Int, NEW z \in Int
    PROVE  Less(<<a, b, c>>, <<x, y, z>>) <=>
              a < x \/ (a = x /\ b < y) \/ (a = x /\ b = y /\ c < z)
  BY DEF Less

LEMMA LessTwo ==
    ASSUME NEW a \in Int, NEW b \in Int, NEW x \in Int, NEW y \in Int
    PROVE  Less(<<a, b>>, <<x, y>>) <=> a < x \/ (a = x /\ b < y)
  BY DEF Less

Keys(list) == IF list = "threads" THEN Int \X Int \X Int ELSE Int \X Int

\* The order of the keys is transitive.
LEMMA LessTransitive ==
    ASSUME NEW list, NEW a \in Keys(list), NEW b \in Keys(list), NEW c \in Keys(list),
           Less(a, b), Less(b, c)
    PROVE  Less(a, c)
  <1>1. CASE list = "threads"
    <2>1. PICK a1 \in Int, a2 \in Int, a3 \in Int : a = <<a1, a2, a3>>
      BY <1>1 DEF Keys
    <2>2. PICK b1 \in Int, b2 \in Int, b3 \in Int : b = <<b1, b2, b3>>
      BY <1>1 DEF Keys
    <2>3. PICK c1 \in Int, c2 \in Int, c3 \in Int : c = <<c1, c2, c3>>
      BY <1>1 DEF Keys
    <2>4. a1 < b1 \/ (a1 = b1 /\ a2 < b2) \/ (a1 = b1 /\ a2 = b2 /\ a3 < b3)
      BY <2>1, <2>2, LessThree
    <2>5. b1 < c1 \/ (b1 = c1 /\ b2 < c2) \/ (b1 = c1 /\ b2 = c2 /\ b3 < c3)
      BY <2>2, <2>3, LessThree
    <2>6. a1 < c1 \/ (a1 = c1 /\ a2 < c2) \/ (a1 = c1 /\ a2 = c2 /\ a3 < c3)
      BY <2>4, <2>5
    <2> QED
      BY <2>1, <2>3, <2>6, LessThree
  <1>2. CASE list # "threads"
    <2>1. PICK a1 \in Int, a2 \in Int : a = <<a1, a2>>
      BY <1>2 DEF Keys
    <2>2. PICK b1 \in Int, b2 \in Int : b = <<b1, b2>>
      BY <1>2 DEF Keys
    <2>3. PICK c1 \in Int, c2 \in Int : c = <<c1, c2>>
      BY <1>2 DEF Keys
    <2>4. a1 < b1 \/ (a1 = b1 /\ a2 < b2)
      BY <2>1, <2>2, LessTwo
    <2>5. b1 < c1 \/ (b1 = c1 /\ b2 < c2)
      BY <2>2, <2>3, LessTwo
    <2>6. a1 < c1 \/ (a1 = c1 /\ a2 < c2)
      BY <2>4, <2>5
    <2> QED
      BY <2>1, <2>3, <2>6, LessTwo
  <1> QED
    BY <1>1, <1>2

\* Times shifted forth or back move a cursor in their direction.
LEMMA ShiftedCursor ==
    ASSUME NEW a \in Int, NEW b \in Int, NEW x \in Int, NEW d \in Int
    PROVE  /\ <<a - d, b - d, x>> \in Keys("threads")
           /\ d >= 0 => \A k \in Keys("threads") :
                 Less(k, <<a - d, b - d, x>>) => Less(k, <<a, b, x>>)
           /\ d <= 0 => \A k \in Keys("threads") :
                 Less(k, <<a, b, x>>) => Less(k, <<a - d, b - d, x>>)
  <1>1. a - d \in Int /\ b - d \in Int
    OBVIOUS
  <1>2. ASSUME NEW k \in Keys("threads")
        PROVE  /\ d >= 0 /\ Less(k, <<a - d, b - d, x>>) => Less(k, <<a, b, x>>)
               /\ d <= 0 /\ Less(k, <<a, b, x>>) => Less(k, <<a - d, b - d, x>>)
    <2>1. PICK k1 \in Int, k2 \in Int, k3 \in Int : k = <<k1, k2, k3>>
      BY DEF Keys
    <2>2. Less(k, <<a, b, x>>) <=>
              k1 < a \/ (k1 = a /\ k2 < b) \/ (k1 = a /\ k2 = b /\ k3 < x)
      BY <2>1, LessThree
    <2>3. Less(k, <<a - d, b - d, x>>) <=>
              \/ k1 < a - d \/ (k1 = a - d /\ k2 < b - d)
              \/ (k1 = a - d /\ k2 = b - d /\ k3 < x)
      BY <1>1, <2>1, LessThree
    <2> QED
      BY <2>2, <2>3
  <1> QED
    BY <1>1, <1>2 DEF Keys

-----------------------------------------------------------------------------
(* The invariant.                                                           *)

ThreadRows == [user : Users, status : {"active", "archived"}, created : Int, last : Int]
MessageRows ==
    [thread : Threads, status : {"saved"}, role : {"user", "assistant"}, created : Int]
Walks ==
    [list : {"threads", "messages"}, thread : Threads \cup {0},
     due : SUBSET (Threads \cup Messages), got : SUBSET (Threads \cup Messages),
     again : SUBSET (Threads \cup Messages),
     cursor : {<<>>} \cup Keys("threads") \cup Keys("messages"), done : BOOLEAN]

\* Rows and walks are well formed.
ListsTypeOK ==
    /\ clock \in 0 .. MaxClock
    /\ thread \in [Threads -> {NoRow} \cup ThreadRows]
    /\ message \in [Messages -> {NoRow} \cup MessageRows]
    /\ walk \in [Users -> {NoWalk} \cup Walks]
    /\ localOffset \in Int

\* No thread is dated later than now.
DatesInv ==
    \A t \in Threads : thread[t] # NoRow =>
        thread[t].created <= Recorded(clock) /\ thread[t].last <= Recorded(clock)

Present(list, x) ==
    IF list = "threads" THEN x \in Threads /\ thread[x] # NoRow
                        ELSE x \in Messages /\ message[x] # NoRow

Listed(u, list, t, x) ==
    IF list = "threads" THEN x \in ListByUser(u, <<>>) ELSE x \in ListByThread(u, t, <<>>)

\* What was got is not behind the cursor, what is still due is, and is listed, as
\* far as the cursor is where it should be.
Walking(u, w) ==
    /\ NotLater(w.list) => w.again = {}
    /\ \A x \in w.got : Present(w.list, x)
    /\ \A x \in w.due : Listed(u, w.list, w.thread, x)
    /\ NotEarlier(w.list) /\ w.done => w.due \subseteq w.got
    /\ ~w.done =>
          /\ w.cursor \in Keys(w.list)
          /\ NotLater(w.list) => \A x \in w.got : ~Less(SortKey(w.list, x), w.cursor)
          /\ NotEarlier(w.list) =>
                \A x \in w.due : x \in w.got \/ Less(SortKey(w.list, x), w.cursor)

ListsInv ==
    /\ ListsTypeOK
    /\ DatesInv
    /\ \A u \in Users : walk[u] # NoWalk => Walking(u, walk[u])

\* Rows that are there have keys.
LEMMA KeysOfRows ==
    ASSUME ListsTypeOK, NEW list \in {"threads", "messages"}, NEW x, Present(list, x)
    PROVE  SortKey(list, x) \in Keys(list)
  <1>1. Threads \subseteq Int /\ Messages \subseteq Int
    BY ConversationAssumption
  <1>2. CASE list = "threads"
    <2>1. x \in Int /\ thread[x] \in ThreadRows
      BY <1>1, <1>2 DEF Present, ListsTypeOK
    <2>2. SortAt(x) \in Int /\ thread[x].created \in Int
      BY <2>1 DEF ThreadRows, SortAt
    <2> QED
      BY <1>2, <2>1, <2>2 DEF SortKey, ThreadSortKey, Keys
  <1>3. CASE list # "threads"
    <2>1. x \in Int /\ message[x] \in MessageRows
      BY <1>1, <1>3 DEF Present, ListsTypeOK
    <2>2. message[x].created \in Int
      BY <2>1 DEF MessageRows
    <2> QED
      BY <1>3, <2>1, <2>2 DEF SortKey, MessageSortKey, Keys
  <1> QED
    BY <1>2, <1>3

-----------------------------------------------------------------------------
(* A page.                                                                  *)

\* The candidates of a page: what is due and has not been got is among them, they
\* are in no earlier page, and no row of an earlier page comes behind them.
Candidates(w, S) ==
    /\ \A x \in S : Present(w.list, x)
    /\ NotEarlier(w.list) => w.due \subseteq w.got \cup S
    /\ NotLater(w.list) =>
          /\ w.got \cap S = {}
          /\ \A x \in w.got, y \in S : ~Less(SortKey(w.list, x), SortKey(w.list, y))

\* A cursor made from row z.
CursorOf(list, cursor, z) ==
    /\ cursor \in Keys(list)
    /\ NotLater(list) => \A k \in Keys(list) : Less(k, cursor) => Less(k, SortKey(list, z))
    /\ NotEarlier(list) => \A k \in Keys(list) : Less(k, SortKey(list, z)) => Less(k, cursor)

LEMMA PageWalks ==
    ASSUME ListsTypeOK, NEW u \in Users, NEW w \in Walks, NEW S, Candidates(w, S),
           NotLater(w.list) => w.again = {}, \A x \in w.got : Present(w.list, x),
           \A x \in w.due : Listed(u, w.list, w.thread, x),
           NEW page \in Page(w.list, S), NEW cursor,
           \/ page = {} /\ cursor = <<>>
           \/ page # {} /\ \E z \in LastRow(w.list, page) : CursorOf(w.list, cursor, z)
    PROVE  LET new == Fetched(w, S, page, cursor)
           IN  new \in Walks /\ Walking(u, new)
  <1> DEFINE new == Fetched(w, S, page, cursor)
  <1>1. /\ page \subseteq S
        /\ \A x \in page, y \in S \ page : Less(SortKey(w.list, y), SortKey(w.list, x))
        /\ page = S \/ Cardinality(page) = Limit
    BY DEF Page
  <1>2. w.list \in {"threads", "messages"} /\ S \subseteq Threads \cup Messages
    BY DEF Walks, Candidates, Present
  <1>3. IsFiniteSet(S) /\ IsFiniteSet(page)
    <2>1. IsFiniteSet(Threads \cup Messages)
      BY ConversationAssumption, FS_Union
    <2> QED
      BY <1>1, <1>2, <2>1, FS_Subset
  <1>4. Limit \in Nat /\ Limit # 0
    BY ConversationAssumption
  <1>5. page = {} => S = {}
    BY <1>1, <1>4, FS_EmptySet
  <1>6. Cardinality(S) <= Limit => page = S
    <2> SUFFICES ASSUME page # S, Cardinality(S) <= Limit PROVE FALSE
      OBVIOUS
    <2>1. Cardinality(page) < Cardinality(S)
      BY <1>1, <1>3, FS_Subset, FS_CardinalityType
    <2> QED
      BY <1>1, <1>3, <1>4, <2>1, FS_CardinalityType
  <1>7. S = {} => Cardinality(S) <= Limit
    BY <1>4, FS_EmptySet
  <1>8. /\ new.list = w.list /\ new.thread = w.thread /\ new.due = w.due
        /\ new.got = w.got \cup page /\ new.again = w.again \cup (page \cap w.got)
        /\ new.cursor = cursor /\ new.done = (Cardinality(S) <= Limit)
    BY DEF Fetched, Walks
  <1>9. page = {} \/ (\E z \in page :
                          /\ CursorOf(w.list, cursor, z)
                          /\ \A y \in page : ~Less(SortKey(w.list, y), SortKey(w.list, z)))
    BY DEF LastRow
  <1>10. page # {} => cursor \in Keys(w.list)
    BY <1>9 DEF CursorOf
  <1>11. new \in Walks
    <2>1. cursor \in {<<>>} \cup Keys("threads") \cup Keys("messages")
      BY <1>2, <1>10
    <2>2. (Cardinality(S) <= Limit) \in BOOLEAN
      BY <1>3, <1>4, FS_CardinalityType
    <2> QED
      BY <1>1, <1>2, <2>1, <2>2 DEF Fetched, Walks
  <1>12. NotLater(new.list) => new.again = {}
    BY <1>1, <1>8 DEF Candidates
  <1>13. \A x \in new.got : Present(new.list, x)
    BY <1>1, <1>8 DEF Candidates
  <1>14. \A x \in new.due : Listed(u, new.list, new.thread, x)
    BY <1>8
  <1>15. NotEarlier(new.list) /\ new.done => new.due \subseteq new.got
    BY <1>6, <1>8 DEF Candidates
  <1>16. ASSUME ~new.done
         PROVE  /\ new.cursor \in Keys(new.list)
                /\ NotLater(new.list) =>
                      \A x \in new.got : ~Less(SortKey(new.list, x), new.cursor)
                /\ NotEarlier(new.list) =>
                      \A x \in new.due : x \in new.got \/ Less(SortKey(new.list, x), new.cursor)
    <2>1. page # {}
      BY <1>5, <1>7, <1>8, <1>16
    <2>2. PICK z \in page : /\ CursorOf(w.list, cursor, z)
                            /\ \A y \in page : ~Less(SortKey(w.list, y), SortKey(w.list, z))
      BY <1>9, <2>1
    <2>3. ASSUME NotLater(w.list), NEW x \in w.got \cup page
          PROVE  ~Less(SortKey(w.list, x), cursor)
      <3>1. ~Less(SortKey(w.list, x), SortKey(w.list, z))
        BY <1>1, <2>2, <2>3 DEF Candidates
      <3>2. SortKey(w.list, x) \in Keys(w.list)
        BY <1>1, <1>2, KeysOfRows DEF Candidates
      <3> QED
        BY <2>2, <2>3, <3>1, <3>2 DEF CursorOf
    <2>4. ASSUME NotEarlier(w.list), NEW x \in w.due, x \notin w.got \cup page
          PROVE  Less(SortKey(w.list, x), cursor)
      <3>1. x \in S /\ Less(SortKey(w.list, x), SortKey(w.list, z))
        BY <1>1, <2>2, <2>4 DEF Candidates
      <3>2. SortKey(w.list, x) \in Keys(w.list)
        BY <1>2, <3>1, KeysOfRows DEF Candidates
      <3> QED
        BY <2>2, <2>4, <3>1, <3>2 DEF CursorOf
    <2> QED
      BY <1>8, <1>10, <2>1, <2>3, <2>4
  <1> HIDE DEF new
  <1>17. Walking(u, new)
    BY <1>12, <1>13, <1>14, <1>15, <1>16 DEF Walking
  <1> QED
    BY <1>11, <1>17 DEF new

LEMMA ListedPresent ==
    ASSUME NEW u, NEW list \in {"threads", "messages"}, NEW t, NEW x, Listed(u, list, t, x)
    PROVE  Present(list, x)
  BY DEF Listed, Present, ListByUser, ListByThread, EnsureThreadAccess, GetThread

\* The first page.
LEMMA FirstCandidates ==
    ASSUME NEW u \in Users, NEW list \in {"threads", "messages"}, NEW t \in Threads \cup {0},
           NEW S, \A x : x \in S <=> Listed(u, list, t, x)
    PROVE  LET w == NewWalk(list, t, S)
           IN  /\ w \in Walks /\ Candidates(w, S) /\ w.list = list /\ w.thread = t
               /\ w.again = {} /\ w.got = {}
               /\ \A x \in w.due : Listed(u, w.list, w.thread, x)
  <1> DEFINE w == NewWalk(list, t, S)
  <1>1. \A x \in S : Present(list, x)
    BY ListedPresent
  <1>2. S \subseteq Threads \cup Messages
    BY <1>1 DEF Present
  <1>3. w \in Walks
    BY <1>2 DEF NewWalk, Walks
  <1>4. /\ w.list = list /\ w.thread = t /\ w.due = S /\ w.got = {} /\ w.again = {}
    BY DEF NewWalk
  <1> HIDE DEF w
  <1>5. Candidates(w, S)
    BY <1>1, <1>4 DEF Candidates
  <1> QED
    BY <1>3, <1>4, <1>5 DEF w

\* A later page.
LEMMA NextCandidates ==
    ASSUME ListsTypeOK, NEW u \in Users, NEW w \in Walks, Walking(u, w), ~w.done,
           NEW S, \A x : x \in S <=> Listed(u, w.list, w.thread, x) /\ Less(SortKey(w.list, x), w.cursor)
    PROVE  Candidates(w, S)
  <1>1. w.list \in {"threads", "messages"}
    BY DEF Walks
  <1>2. \A x \in S : Present(w.list, x)
    BY <1>1, ListedPresent
  <1>3. NotEarlier(w.list) => w.due \subseteq w.got \cup S
    BY DEF Walking
  <1>4. NotLater(w.list) => w.got \cap S = {}
    BY DEF Walking
  <1>5. ASSUME NotLater(w.list), NEW x \in w.got, NEW y \in S, Less(SortKey(w.list, x), SortKey(w.list, y))
        PROVE  FALSE
    <2>1. /\ SortKey(w.list, x) \in Keys(w.list) /\ SortKey(w.list, y) \in Keys(w.list)
          /\ w.cursor \in Keys(w.list)
      BY <1>1, <1>2, KeysOfRows DEF Walking
    <2>2. Less(SortKey(w.list, x), w.cursor)
      BY <1>5, <2>1, LessTransitive
    <2> QED
      BY <1>5, <2>2 DEF Walking
  <1> QED
    BY <1>2, <1>3, <1>4, <1>5 DEF Candidates

\* One walk goes on, the rows stay.
LEMMA WalkStep ==
    ASSUME ListsInv, NEW u \in Users, NEW new \in Walks, Walking(u, new),
           walk' = [walk EXCEPT ![u] = new], UNCHANGED <<clock, thread, message, localOffset>>
    PROVE  ListsInv'
  <1>1. ListsTypeOK'
    BY DEF ListsInv, ListsTypeOK
  <1>2. DatesInv'
    BY DEF ListsInv, DatesInv
  <1>3. ASSUME NEW v \in Users, walk'[v] # NoWalk
        PROVE  Walking(v, walk'[v])
    BY <1>3 DEF ListsInv, ListsTypeOK
  <1>4. ASSUME NEW v \in Users, NEW w, Walking(v, w)
        PROVE  Walking(v, w)'
    BY <1>4 DEF Walking, NotLater, NotEarlier, Present, Listed, ListByUser, ListByThread,
                EnsureThreadAccess, GetThread, BeforeThread, BeforeMessage, SortKey, ThreadSortKey, MessageSortKey, SortAt
  <1>5. ASSUME NEW v \in Users, walk'[v] # NoWalk
        PROVE  Walking(v, walk[v])'
    <2>1. PICK w : w = walk'[v]
      OBVIOUS
    <2>2. Walking(v, w)'
      BY <1>3, <1>4, <1>5, <2>1
    <2> QED
      BY <2>1, <2>2 DEF Walking, NotLater, NotEarlier, Present, Listed
  <1> QED
    BY <1>1, <1>2, <1>5 DEF ListsInv

LEMMA ListThreadsInv ==
    ASSUME ListsInv, UNCHANGED localOffset, NEW u \in Users, ListThreads(u)
    PROVE  ListsInv'
  <1> DEFINE w == ThreadWalk(u)
             S == ListByUser(u, w.cursor)
  <1>1. ListsTypeOK
    BY DEF ListsInv
  <1>2. /\ w.list = "threads" /\ ~w.done /\ UNCHANGED <<clock, thread, message>>
    BY DEF ListThreads
  <1>3. PICK page \in Page("threads", S) :
            \E cursor \in IF page = {} THEN {<<>>} ELSE {BuildCursor(x) : x \in LastRow("threads", page)} :
                walk' = [walk EXCEPT ![u] = Fetched(w, S, page, cursor)]
    BY DEF ListThreads
  <1>4. PICK cursor \in IF page = {} THEN {<<>>} ELSE {BuildCursor(x) : x \in LastRow("threads", page)} :
            walk' = [walk EXCEPT ![u] = Fetched(w, S, page, cursor)]
    BY <1>3
  <1>5. /\ w \in Walks /\ Candidates(w, S)
        /\ NotLater(w.list) => w.again = {}
        /\ \A x \in w.got : Present(w.list, x)
        /\ \A x \in w.due : Listed(u, w.list, w.thread, x)
    <2>1. CASE walk[u] = NoWalk
      <3>1. w = NewWalk("threads", 0, ListByUser(u, <<>>))
        BY <2>1 DEF ThreadWalk
      <3>2. S = ListByUser(u, <<>>)
        BY <3>1 DEF NewWalk
      <3>3. \A x : x \in S <=> Listed(u, "threads", 0, x)
        BY <3>2 DEF Listed
      <3> HIDE DEF S
      <3> QED
        BY <3>1, <3>2, <3>3, FirstCandidates
    <2>2. CASE walk[u] # NoWalk
      <3>1. w = walk[u] /\ w \in Walks /\ Walking(u, w)
        BY <1>1, <2>2 DEF ThreadWalk, ListsInv, ListsTypeOK
      <3>2. w.cursor # <<>>
        BY <1>2, <3>1 DEF Walking, Keys
      <3>3. \A x : x \in S <=> Listed(u, w.list, w.thread, x) /\ Less(SortKey(w.list, x), w.cursor)
        BY <1>2, <3>2 DEF Listed, ListByUser, BeforeThread, SortKey
      <3> HIDE DEF S, w
      <3>4. Candidates(w, S)
        BY <1>1, <1>2, <3>1, <3>3, NextCandidates
      <3> QED
        BY <3>1, <3>4 DEF Walking
    <2> QED
      BY <2>1, <2>2
  <1>6. ASSUME NEW x \in page
        PROVE  CursorOf("threads", BuildCursor(x), x)
    <2>1. x \in Threads /\ thread[x] \in ThreadRows
      BY <1>1 DEF Page, ListByUser, EnsureThreadAccess, GetThread, ListsTypeOK
    <2>2. SortAt(x) \in Int /\ thread[x].created \in Int
      BY <2>1 DEF ThreadRows, SortAt
    <2>3. x \in Int /\ localOffset \in Int
      BY <1>1, <2>1, ConversationAssumption DEF ListsTypeOK
    <2>4. PICK a \in Int, b \in Int, d \in Int :
              /\ a = SortAt(x) /\ b = thread[x].created /\ d = localOffset
              /\ BuildCursor(x) = <<a - d, b - d, x>> /\ SortKey("threads", x) = <<a, b, x>>
      BY <2>2, <2>3 DEF BuildCursor, SortKey, ThreadSortKey
    <2>5. /\ <<a - d, b - d, x>> \in Keys("threads")
          /\ d >= 0 => \A k \in Keys("threads") :
                Less(k, <<a - d, b - d, x>>) => Less(k, <<a, b, x>>)
          /\ d <= 0 => \A k \in Keys("threads") :
                Less(k, <<a, b, x>>) => Less(k, <<a - d, b - d, x>>)
      BY <2>3, ShiftedCursor
    <2>6. (NotLater("threads") <=> d >= 0) /\ (NotEarlier("threads") <=> d <= 0)
      BY <2>4 DEF NotLater, NotEarlier
    <2> HIDE DEF NotLater, NotEarlier
    <2> QED
      BY <2>4, <2>5, <2>6, Zenon DEF CursorOf
  <1>7. \/ page = {} /\ cursor = <<>>
        \/ page # {} /\ \E z \in LastRow(w.list, page) : CursorOf(w.list, cursor, z)
    BY <1>2, <1>4, <1>6 DEF LastRow
  <1> HIDE DEF S, w
  <1>8. Fetched(w, S, page, cursor) \in Walks /\ Walking(u, Fetched(w, S, page, cursor))
    BY <1>1, <1>2, <1>5, <1>7, PageWalks
  <1> QED
    BY <1>2, <1>4, <1>8, WalkStep

LEMMA ListMessagesInv ==
    ASSUME ListsInv, UNCHANGED localOffset, NEW u \in Users, NEW t \in Threads, ListMessages(u, t)
    PROVE  ListsInv'
  <1> DEFINE w == MessageWalk(u, t)
             S == ListByThread(u, t, w.cursor)
  <1>1. ListsTypeOK
    BY DEF ListsInv
  <1>2. /\ w.list = "messages" /\ w.thread = t /\ ~w.done /\ UNCHANGED <<clock, thread, message>>
    BY DEF ListMessages
  <1>3. PICK page \in Page("messages", S) :
            \E cursor \in IF page = {} THEN {<<>>}
                         ELSE {BuildMessageCursor(x) : x \in LastRow("messages", page)} :
                walk' = [walk EXCEPT ![u] = Fetched(w, S, page, cursor)]
    BY DEF ListMessages
  <1>4. PICK cursor \in IF page = {} THEN {<<>>}
                       ELSE {BuildMessageCursor(x) : x \in LastRow("messages", page)} :
            walk' = [walk EXCEPT ![u] = Fetched(w, S, page, cursor)]
    BY <1>3
  <1>5. /\ w \in Walks /\ Candidates(w, S)
        /\ NotLater(w.list) => w.again = {}
        /\ \A x \in w.got : Present(w.list, x)
        /\ \A x \in w.due : Listed(u, w.list, w.thread, x)
    <2>1. CASE walk[u] = NoWalk
      <3>1. w = NewWalk("messages", t, ListByThread(u, t, <<>>))
        BY <2>1 DEF MessageWalk
      <3>2. S = ListByThread(u, t, <<>>)
        BY <3>1 DEF NewWalk
      <3>3. \A x : x \in S <=> Listed(u, "messages", t, x)
        BY <3>2 DEF Listed
      <3> HIDE DEF S
      <3> QED
        BY <3>1, <3>2, <3>3, FirstCandidates
    <2>2. CASE walk[u] # NoWalk
      <3>1. w = walk[u] /\ w \in Walks /\ Walking(u, w)
        BY <1>1, <2>2 DEF MessageWalk, ListsInv, ListsTypeOK
      <3>2. w.cursor # <<>>
        BY <1>2, <3>1 DEF Walking, Keys
      <3>3. \A x : x \in S <=> Listed(u, w.list, w.thread, x) /\ Less(SortKey(w.list, x), w.cursor)
        BY <1>2, <3>2 DEF Listed, ListByThread, BeforeMessage, SortKey
      <3> HIDE DEF S, w
      <3>4. Candidates(w, S)
        BY <1>1, <1>2, <3>1, <3>3, NextCandidates
      <3> QED
        BY <3>1, <3>4 DEF Walking
    <2> QED
      BY <2>1, <2>2
  <1>6. ASSUME NEW x \in page
        PROVE  CursorOf("messages", BuildMessageCursor(x), x)
    <2>1. Present("messages", x)
      BY DEF Page, ListByThread, Present
    <2>2. BuildMessageCursor(x) = SortKey("messages", x) /\ SortKey("messages", x) \in Keys("messages")
      BY <1>1, <2>1, KeysOfRows DEF BuildMessageCursor, SortKey
    <2> QED
      BY <2>2 DEF CursorOf
  <1>7. \/ page = {} /\ cursor = <<>>
        \/ page # {} /\ \E z \in LastRow(w.list, page) : CursorOf(w.list, cursor, z)
    BY <1>2, <1>4, <1>6 DEF LastRow
  <1> HIDE DEF S, w
  <1>8. Fetched(w, S, page, cursor) \in Walks /\ Walking(u, Fetched(w, S, page, cursor))
    BY <1>1, <1>2, <1>5, <1>7, PageWalks
  <1> QED
    BY <1>2, <1>4, <1>8, WalkStep

-----------------------------------------------------------------------------
(* Writes under a walk.                                                     *)

\* A thread whose time grows comes behind no cursor that it was not behind.
LEMMA LaterKey ==
    ASSUME NEW a \in Int, NEW b \in Int, NEW c \in Int, NEW later \in Int, a <= later,
           NEW k \in Keys("threads"), Less(<<later, b, c>>, k)
    PROVE  Less(<<a, b, c>>, k)
  <1>1. PICK x \in Int, y \in Int, z \in Int : k = <<x, y, z>>
    BY DEF Keys
  <1>2. later < x \/ (later = x /\ b < y) \/ (later = x /\ b = y /\ c < z)
    BY <1>1, LessThree
  <1>3. a < x \/ (a = x /\ b < y) \/ (a = x /\ b = y /\ c < z)
    BY <1>2
  <1> QED
    BY <1>1, <1>3, LessThree

\* What a write leaves alone: messages stay as they are, threads too unless they
\* are in T, which keep their owner and their birth and get no earlier, and a
\* walk no longer waits for those.
Touched(T) ==
    /\ \A i \in Messages : message[i] # NoRow => message'[i] = message[i]
    /\ \A t \in Threads : thread[t] # NoRow =>
          /\ thread'[t] # NoRow /\ thread'[t].user = thread[t].user
          /\ thread'[t].created = thread[t].created /\ SortAt(t) <= SortAt(t)'
          /\ t \notin T => thread'[t] = thread[t]
    /\ \A u \in Users : walk'[u] = IF walk[u].list = "threads"
                                   THEN [walk[u] EXCEPT !.due = @ \ T] ELSE walk[u]

\* Rows stay and come behind no cursor anew.
LEMMA TouchedRows ==
    ASSUME ListsTypeOK, ListsTypeOK', NEW T, Touched(T),
           NEW list \in {"threads", "messages"}, NEW x, Present(list, x)
    PROVE  /\ Present(list, x)'
           /\ \A k \in Keys(list) : Less(SortKey(list, x), k)' => Less(SortKey(list, x), k)
  <1>1. CASE list = "threads"
    <2>1. x \in Threads /\ thread[x] # NoRow /\ thread'[x] # NoRow
      BY <1>1 DEF Present, Touched
    <2>2. thread[x] \in ThreadRows /\ thread'[x] \in ThreadRows /\ x \in Int
      BY <2>1, ConversationAssumption DEF ListsTypeOK
    <2>3. SortAt(x) \in Int /\ SortAt(x)' \in Int /\ thread[x].created \in Int
      BY <2>2 DEF SortAt, ThreadRows
    <2>4. SortAt(x) <= SortAt(x)' /\ thread'[x].created = thread[x].created
      BY <2>1 DEF Touched
    <2>5. /\ SortKey(list, x) = <<SortAt(x), thread[x].created, x>>
          /\ SortKey(list, x)' = <<SortAt(x)', thread[x].created, x>>
      BY <1>1, <2>4 DEF SortKey, ThreadSortKey
    <2>6. ASSUME NEW k \in Keys(list), Less(SortKey(list, x), k)'
          PROVE  Less(SortKey(list, x), k)
      <3>1. Less(<<SortAt(x)', thread[x].created, x>>, k)
        BY <2>5, <2>6 DEF Less
      <3> QED
        BY <1>1, <2>2, <2>3, <2>4, <2>5, <3>1, LaterKey
    <2> QED
      BY <1>1, <2>1, <2>6 DEF Present
  <1>2. CASE list # "threads"
    <2>1. x \in Messages /\ message[x] # NoRow /\ message'[x] = message[x]
      BY <1>2 DEF Present, Touched
    <2>2. SortKey(list, x)' = SortKey(list, x)
      BY <1>2, <2>1 DEF SortKey, MessageSortKey
    <2>3. ASSUME NEW k, Less(SortKey(list, x), k)'
          PROVE  Less(SortKey(list, x), k)
      BY <2>2, <2>3 DEF Less
    <2> QED
      BY <1>2, <2>1, <2>3 DEF Present
  <1> QED
    BY <1>1, <1>2

\* A listed row that is not touched stays listed, at its place.
LEMMA UntouchedRows ==
    ASSUME ListsTypeOK, ListsTypeOK', NEW T, Touched(T), NEW u \in Users,
           NEW list \in {"threads", "messages"}, NEW t, NEW x, Listed(u, list, t, x),
           list = "threads" => x \notin T
    PROVE  Listed(u, list, t, x)' /\ SortKey(list, x)' = SortKey(list, x)
  <1>1. CASE list = "threads"
    <2>1. x \in Threads /\ thread[x] # NoRow /\ thread'[x] = thread[x]
      BY <1>1 DEF Listed, ListByUser, EnsureThreadAccess, GetThread, Touched
    <2>2. SortKey(list, x)' = SortKey(list, x)
      BY <1>1, <2>1 DEF SortKey, ThreadSortKey, SortAt
    <2>3. Listed(u, list, t, x)'
      BY <1>1, <2>1 DEF Listed, ListByUser, EnsureThreadAccess, GetThread, BeforeThread
    <2> QED
      BY <2>2, <2>3
  <1>2. CASE list # "threads"
    <2>1. x \in Messages /\ message[x] # NoRow /\ message'[x] = message[x] /\ message[x].thread = t
      BY <1>2 DEF Listed, ListByThread, Touched
    <2>2. t \in Threads
      BY <2>1 DEF ListsTypeOK, MessageRows
    <2>3. thread[t] # NoRow /\ thread[t].user = u
      BY <1>2 DEF Listed, ListByThread, EnsureThreadAccess, GetThread
    <2>4. thread'[t] # NoRow /\ thread'[t].user = u
      BY <2>2, <2>3 DEF Touched
    <2>5. SortKey(list, x)' = SortKey(list, x)
      BY <1>2, <2>1 DEF SortKey, MessageSortKey
    <2>6. Listed(u, list, t, x)'
      BY <1>2, <2>1, <2>4 DEF Listed, ListByThread, EnsureThreadAccess, GetThread, BeforeMessage
    <2> QED
      BY <2>5, <2>6
  <1> QED
    BY <1>1, <1>2

\* The walks survive a write.
LEMMA TouchedInv ==
    ASSUME ListsInv, ListsTypeOK', DatesInv', NEW T, Touched(T), UNCHANGED localOffset
    PROVE  ListsInv'
  <1>1. ListsTypeOK
    BY DEF ListsInv
  <1>2. ASSUME NEW u \in Users, walk'[u] # NoWalk
        PROVE  Walking(u, walk[u])'
    <2>1. PICK w : w = walk[u]
      OBVIOUS
    <2>2. PICK new : new = walk'[u]
      OBVIOUS
    <2>3. new = IF w.list = "threads" THEN [w EXCEPT !.due = @ \ T] ELSE w
      BY <2>1, <2>2 DEF Touched
    <2>4. w # NoWalk
      BY <1>2, <2>2, <2>3 DEF NoWalk
    <2>5. w \in Walks /\ Walking(u, w)
      BY <1>1, <2>1, <2>4 DEF ListsInv, ListsTypeOK
    <2>6. /\ new.list = w.list /\ new.thread = w.thread /\ new.got = w.got
          /\ new.again = w.again /\ new.cursor = w.cursor /\ new.done = w.done
          /\ new.due \subseteq w.due
          /\ w.list = "threads" => new.due \cap T = {}
          /\ w.list \in {"threads", "messages"}
      BY <2>3, <2>5 DEF Walks
    <2>7. \A x \in w.got : Present(w.list, x) /\ Present(w.list, x)'
      BY <1>1, <2>5, <2>6, TouchedRows DEF Walking
    <2>8. \A x \in new.due : Listed(u, w.list, w.thread, x)' /\ SortKey(w.list, x)' = SortKey(w.list, x)
      BY <1>1, <2>5, <2>6, UntouchedRows DEF Walking
    <2>9. ASSUME ~w.done
          PROVE  /\ w.cursor \in Keys(w.list)
                 /\ NotLater(w.list) => \A x \in w.got : ~Less(SortKey(w.list, x), w.cursor)'
                 /\ NotEarlier(w.list) =>
                       \A x \in new.due : x \in w.got \/ Less(SortKey(w.list, x), w.cursor)'
      <3>1. w.cursor \in Keys(w.list)
        BY <2>5, <2>9 DEF Walking
      <3>2. ASSUME NotLater(w.list), NEW x \in w.got
            PROVE  ~Less(SortKey(w.list, x), w.cursor)'
        <4>1. ~Less(SortKey(w.list, x), w.cursor) /\ Present(w.list, x)
          BY <2>5, <2>7, <2>9, <3>2 DEF Walking
        <4> QED
          BY <1>1, <2>6, <3>1, <4>1, TouchedRows
      <3>3. ASSUME NotEarlier(w.list), NEW x \in new.due, x \notin w.got
            PROVE  Less(SortKey(w.list, x), w.cursor)'
        <4>1. Less(SortKey(w.list, x), w.cursor)
          BY <2>5, <2>6, <2>9, <3>3 DEF Walking
        <4> QED
          BY <2>8, <4>1 DEF Less
      <3> QED
        BY <3>1, <3>2, <3>3
    <2>10. Walking(u, new)'
      BY <2>5, <2>6, <2>7, <2>8, <2>9 DEF Walking, NotLater, NotEarlier
    <2> QED
      BY <2>2, <2>10 DEF Walking, NotLater, NotEarlier, Present, Listed
  <1> QED
    BY <1>2 DEF ListsInv

-----------------------------------------------------------------------------
(* The steps.                                                               *)

LEMMA ListsInitInv == ListsInit => ListsInv
  <1> SUFFICES ASSUME ListsInit PROVE ListsInv
    OBVIOUS
  <1>1. ListsTypeOK
    BY ConversationAssumption DEF ListsInit, ListsTypeOK
  <1> QED
    BY <1>1 DEF ListsInit, ListsInv, DatesInv

\* The clock.
LEMMA TickInv ==
    ASSUME ListsInv, Tick, UNCHANGED localOffset
    PROVE  ListsInv'
  <1>1. ListsTypeOK /\ DatesInv
    BY DEF ListsInv
  <1>2. /\ clock \in Nat /\ clock' \in Nat /\ clock <= clock'
        /\ UNCHANGED <<thread, message, walk>>
    BY <1>1, ConversationAssumption DEF Tick, ListsTypeOK
  <1>3. ListsTypeOK'
    BY <1>1, ConversationAssumption DEF Tick, ListsTypeOK
  <1>4. DatesInv'
    <2>1. /\ Recorded(clock) \in Nat /\ Recorded(clock') \in Nat
          /\ Recorded(clock) <= Recorded(clock')
      BY <1>2, RecordedMonotone
    <2>2. ASSUME NEW t \in Threads, thread[t] # NoRow
          PROVE  thread[t].created <= Recorded(clock') /\ thread[t].last <= Recorded(clock')
      <3>1. thread[t].created \in Int /\ thread[t].last \in Int
        BY <1>1, <2>2 DEF ListsTypeOK, ThreadRows
      <3> QED
        BY <1>1, <2>1, <2>2, <3>1 DEF DatesInv
    <2> QED
      BY <1>2, <2>2 DEF DatesInv, Recorded
  <1>5. ASSUME NEW u \in Users, walk'[u] # NoWalk
        PROVE  Walking(u, walk[u])'
    BY <1>2, <1>5 DEF ListsInv, Walking, NotLater, NotEarlier, Present, Listed, ListByUser, ListByThread, EnsureThreadAccess,
                GetThread, BeforeThread, BeforeMessage, SortKey, ThreadSortKey, MessageSortKey, SortAt
  <1> QED
    BY <1>3, <1>4, <1>5 DEF ListsInv

LEMMA NowRecorded ==
    ASSUME ListsTypeOK
    PROVE  Recorded(clock) \in Nat
  BY ConversationAssumption, RecordedMonotone DEF ListsTypeOK

LEMMA SortAtTyped ==
    ASSUME ListsTypeOK, NEW t \in Threads, thread[t] # NoRow
    PROVE  SortAt(t) \in Int /\ thread[t] \in ThreadRows
  BY DEF ListsTypeOK, ThreadRows, SortAt

\* Walks that wait for nothing less are as before.
LEMMA SameWalks ==
    ASSUME ListsTypeOK, UNCHANGED walk, NEW u \in Users
    PROVE  walk'[u] = IF walk[u].list = "threads" THEN [walk[u] EXCEPT !.due = @ \ {}] ELSE walk[u]
  <1>1. CASE walk[u] = NoWalk
    BY <1>1 DEF NoWalk
  <1>2. CASE walk[u] \in Walks
    BY <1>2 DEF Walks
  <1> QED
    BY <1>1, <1>2 DEF ListsTypeOK

LEMMA MovedWalks ==
    ASSUME ListsTypeOK, NEW t \in Threads, Moved(t)
    PROVE  walk' \in [Users -> {NoWalk} \cup Walks]
  <1>1. ASSUME NEW u \in Users
        PROVE  (IF walk[u].list = "threads" THEN [walk[u] EXCEPT !.due = @ \ {t}] ELSE walk[u])
                   \in {NoWalk} \cup Walks
    <2>1. CASE walk[u] = NoWalk
      BY <2>1 DEF NoWalk
    <2>2. CASE walk[u] \in Walks
      BY <2>2 DEF Walks
    <2> QED
      BY <2>1, <2>2 DEF ListsTypeOK
  <1> QED
    BY <1>1 DEF Moved

\* A new thread is in no walk.
LEMMA CreateThreadInv ==
    ASSUME ListsInv, UNCHANGED localOffset, NEW t \in Threads, CreateThread(t)
    PROVE  ListsInv'
  <1>1. ListsTypeOK /\ DatesInv
    BY DEF ListsInv
  <1> DEFINE row == [user |-> OwnerOf[t], status |-> "active", created |-> Recorded(clock), last |-> -1]
  <1>2. /\ thread[t] = NoRow /\ thread' = [thread EXCEPT ![t] = row]
        /\ UNCHANGED <<clock, message, walk>>
    BY DEF CreateThread
  <1>3. row \in ThreadRows /\ row.created <= Recorded(clock) /\ row.last <= Recorded(clock)
    BY <1>1, NowRecorded, ConversationAssumption DEF ThreadRows
  <1> HIDE DEF row
  <1>4. ListsTypeOK'
    BY <1>1, <1>2, <1>3 DEF ListsTypeOK
  <1>5. DatesInv'
    <2>1. ASSUME NEW s \in Threads, thread'[s] # NoRow
          PROVE  thread'[s].created <= Recorded(clock) /\ thread'[s].last <= Recorded(clock)
      BY <1>1, <1>2, <1>3, <2>1 DEF ListsTypeOK, DatesInv
    <2> QED
      BY <1>2, <2>1 DEF DatesInv, Recorded
  <1>6. Touched({})
    <2>1. ASSUME NEW s \in Threads, thread[s] # NoRow
          PROVE  thread'[s] = thread[s] /\ SortAt(s)' = SortAt(s)
      BY <1>1, <1>2, <2>1 DEF ListsTypeOK, SortAt
    <2> QED
      BY <1>1, <1>2, <2>1, SameWalks, SortAtTyped DEF Touched
  <1> QED
    BY <1>4, <1>5, <1>6, TouchedInv

\* A patched thread keeps its time and leaves the walks.
LEMMA PatchThreadInv ==
    ASSUME ListsInv, UNCHANGED localOffset, NEW u \in Users, NEW t \in Threads, PatchThread(u, t)
    PROVE  ListsInv'
  <1>1. ListsTypeOK /\ DatesInv
    BY DEF ListsInv
  <1>2. /\ thread[t] # NoRow /\ Moved(t) /\ UNCHANGED <<clock, message>>
    BY DEF PatchThread, GetThread
  <1>3. PICK status \in {"active", "archived"} : thread' = [thread EXCEPT ![t].status = status]
    BY DEF PatchThread, UpdateThread
  <1>4. /\ thread[t] \in ThreadRows /\ thread'[t] \in ThreadRows
        /\ thread'[t].user = thread[t].user /\ thread'[t].created = thread[t].created
        /\ thread'[t].last = thread[t].last
    BY <1>1, <1>2, <1>3, SortAtTyped DEF ListsTypeOK, ThreadRows
  <1>5. thread' \in [Threads -> {NoRow} \cup ThreadRows] /\ \A s \in Threads \ {t} : thread'[s] = thread[s]
    BY <1>1, <1>3, <1>4 DEF ListsTypeOK
  <1>6. ListsTypeOK'
    BY <1>1, <1>2, <1>5, MovedWalks DEF ListsTypeOK
  <1>7. DatesInv'
    <2>1. ASSUME NEW s \in Threads, thread'[s] # NoRow
          PROVE  thread'[s].created <= Recorded(clock) /\ thread'[s].last <= Recorded(clock)
      BY <1>1, <1>2, <1>4, <1>5, <2>1 DEF DatesInv
    <2> QED
      BY <1>2, <2>1 DEF DatesInv, Recorded
  <1>8. Touched({t})
    <2>1. ASSUME NEW s \in Threads, thread[s] # NoRow
          PROVE  /\ thread'[s] # NoRow /\ thread'[s].user = thread[s].user
                 /\ thread'[s].created = thread[s].created /\ SortAt(s)' = SortAt(s)
                 /\ s \notin {t} => thread'[s] = thread[s]
      <3>1. CASE s = t
        BY <1>4, <3>1 DEF SortAt, NoRow, ThreadRows
      <3>2. CASE s # t
        BY <1>5, <2>1, <3>2 DEF SortAt
      <3> QED
        BY <3>1, <3>2
    <2> QED
      BY <1>1, <1>2, <2>1, SortAtTyped DEF Touched, Moved
  <1> QED
    BY <1>6, <1>7, <1>8, TouchedInv

\* A continued thread is dated now and leaves the walks, the two new messages are
\* in none.
LEMMA CreateWithMessagesInv ==
    ASSUME ListsInv, UNCHANGED localOffset, NEW u \in Users, NEW t \in Threads, NEW content,
           NEW i \in Messages, NEW j \in Messages, CreateWithMessages(u, t, content, i, j)
    PROVE  ListsInv'
  <1>1. ListsTypeOK /\ DatesInv
    BY DEF ListsInv
  <1>2. /\ thread[t] # NoRow /\ Moved(t) /\ UNCHANGED clock
        /\ message[i] = NoRow /\ message[j] = NoRow
        /\ thread' = [thread EXCEPT ![t].last = Recorded(clock)]
    BY DEF CreateWithMessages, EnsureThreadAccess, GetThread, Draw, Free
  <1> DEFINE question == NewMessage(t, "user", clock)
             answer == NewMessage(t, "assistant", clock + 1)
  <1>3. message' = [message EXCEPT ![i] = question, ![j] = answer]
    BY DEF CreateWithMessages
  <1>4. question \in MessageRows /\ answer \in MessageRows
    <2>1. clock \in Nat /\ clock + 1 \in Nat
      BY <1>1, ConversationAssumption DEF ListsTypeOK
    <2>2. Recorded(clock) \in Int /\ Recorded(clock + 1) \in Int
      BY <2>1, RecordedMonotone
    <2> QED
      BY <2>2 DEF NewMessage, MessageRows
  <1> HIDE DEF question, answer
  <1>5. Recorded(clock) \in Nat
    BY <1>1, NowRecorded
  <1>6. /\ thread[t] \in ThreadRows /\ thread'[t] \in ThreadRows
        /\ thread'[t].user = thread[t].user /\ thread'[t].created = thread[t].created
        /\ thread'[t].last = Recorded(clock)
    BY <1>1, <1>2, <1>5, SortAtTyped DEF ListsTypeOK, ThreadRows
  <1>7. thread' \in [Threads -> {NoRow} \cup ThreadRows] /\ \A s \in Threads \ {t} : thread'[s] = thread[s]
    BY <1>1, <1>2, <1>6 DEF ListsTypeOK
  <1>8. /\ message' \in [Messages -> {NoRow} \cup MessageRows]
        /\ \A k \in Messages \ {i, j} : message'[k] = message[k]
    BY <1>1, <1>3, <1>4 DEF ListsTypeOK
  <1>9. ListsTypeOK'
    BY <1>1, <1>2, <1>7, <1>8, MovedWalks DEF ListsTypeOK
  <1>10. DatesInv'
    <2>1. ASSUME NEW s \in Threads, thread'[s] # NoRow
          PROVE  thread'[s].created <= Recorded(clock) /\ thread'[s].last <= Recorded(clock)
      BY <1>1, <1>2, <1>5, <1>6, <1>7, <2>1 DEF DatesInv
    <2> QED
      BY <1>2, <2>1 DEF DatesInv, Recorded
  <1>11. SortAt(t) <= SortAt(t)'
    <2>1. SortAt(t)' = Recorded(clock)
      BY <1>5, <1>6 DEF SortAt
    <2>2. SortAt(t) <= Recorded(clock)
      BY <1>1, <1>2 DEF DatesInv, SortAt
    <2> QED
      BY <2>1, <2>2
  <1>12. Touched({t})
    <2>1. ASSUME NEW s \in Threads, thread[s] # NoRow
          PROVE  /\ thread'[s] # NoRow /\ thread'[s].user = thread[s].user
                 /\ thread'[s].created = thread[s].created /\ SortAt(s) <= SortAt(s)'
                 /\ s \notin {t} => thread'[s] = thread[s]
      <3>1. CASE s = t
        BY <1>6, <1>11, <3>1 DEF NoRow, ThreadRows
      <3>2. CASE s # t
        <4>1. thread'[s] = thread[s]
          BY <1>7, <3>2
        <4>2. SortAt(s)' = SortAt(s) /\ SortAt(s) \in Int
          BY <1>1, <2>1, <4>1, SortAtTyped DEF SortAt
        <4> QED
          BY <2>1, <3>2, <4>1, <4>2
      <3> QED
        BY <3>1, <3>2
    <2>2. \A k \in Messages : message[k] # NoRow => message'[k] = message[k]
      BY <1>2, <1>8
    <2> QED
      BY <1>2, <2>1, <2>2 DEF Touched, Moved
  <1> QED
    BY <1>9, <1>10, <1>12, TouchedInv

\* Every request keeps the invariant of the walks.
LEMMA ListsNextInv == ListsInv /\ [ListsNext]_listVars => ListsInv'
  <1> SUFFICES ASSUME ListsInv, [ListsNext]_listVars PROVE ListsInv'
    OBVIOUS
  <1>0. UNCHANGED localOffset
    BY DEF ListsNext, listVars
  <1>1. CASE Tick
    BY <1>0, <1>1, TickInv
  <1>2. ASSUME NEW t \in Threads, CreateThread(t) PROVE ListsInv'
    BY <1>0, <1>2, CreateThreadInv
  <1>3. ASSUME NEW u \in Users, ListThreads(u) PROVE ListsInv'
    BY <1>0, <1>3, ListThreadsInv
  <1>4. ASSUME NEW u \in Users, NEW t \in Threads, PatchThread(u, t) PROVE ListsInv'
    BY <1>0, <1>4, PatchThreadInv
  <1>5. ASSUME NEW u \in Users, NEW t \in Threads, ListMessages(u, t) PROVE ListsInv'
    BY <1>0, <1>5, ListMessagesInv
  <1>6. ASSUME NEW u \in Users, NEW t \in Threads, NEW content \in Contents,
               NEW i \in Messages, NEW j \in Messages, CreateWithMessages(u, t, content, i, j)
        PROVE  ListsInv'
    BY <1>0, <1>6, CreateWithMessagesInv
  <1>7. CASE UNCHANGED listVars
    BY <1>7 DEF listVars, ListsInv, ListsTypeOK, DatesInv, Walking, NotLater, NotEarlier, Present, Listed, ListByUser,
                ListByThread, EnsureThreadAccess, GetThread, BeforeThread, BeforeMessage, SortKey,
                ThreadSortKey, MessageSortKey, SortAt, Recorded
  <1> QED
    BY <1>1, <1>2, <1>3, <1>4, <1>5, <1>6, <1>7 DEF ListsNext

\* The cursors do what they are for, whatever is written under the client's hands:
\* for messages on every host, for threads as far as its local time allows.
THEOREM WalksListOnce == ListsSpec => []ListedOnce
  <1>1. ListsInv => ListedOnce
    BY DEF ListsInv, Walking, ListedOnce
  <1> QED
    BY <1>1, ListsInitInv, ListsNextInv, PTL DEF ListsSpec
=============================================================================
