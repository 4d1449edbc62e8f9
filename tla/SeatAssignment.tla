--------------------------- MODULE SeatAssignment ---------------------------
(***************************************************************************)
(* Which seats a freeze takes.  SeatLedger lets a freeze take any seats of  *)
(* its ticket category; here is the choice: the freeze script goes through  *)
(* the available seats in the order of the sorted set and looks, row by     *)
(* row, for seats side by side.  assignSeats is the same choice written in  *)
(* Go over seats sorted by row, column and id.                              *)
(***************************************************************************)
EXTENDS Integers, Sequences, FiniteSets, SequencesExt

CONSTANTS
    DSeats,   \* rows of d_seat: id, category, row, col, price
    Stride,   \* the score of a seat is row * Stride + col
    Tokens, CountOf

SeatsAssumption ==
    /\ \A s \in DSeats : s.id \in Nat /\ s.row \in Nat /\ s.col \in 0..(Stride - 1)
    /\ \A s, t \in DSeats : s # t => s.id # t.id /\ <<s.row, s.col>> # <<t.row, t.col>>
    /\ CountOf \in [Tokens -> Nat \ {0}]

VARIABLES
    available,  \* the sorted set of the available seats: member -> score, a function
    frozen,     \* token -> its sorted set
    answer      \* token -> the seats that its last freeze answered with

vars == <<available, frozen, answer>>

-----------------------------------------------------------------------------
(* Members of the sorted sets                                               *)

NewSeatFromModel(s) ==
    [id |-> s.id, category |-> s.category, row |-> s.row, col |-> s.col, price |-> s.price]

EncodeSeatMember(s) == <<s.id, s.category, s.row, s.col, s.price>>

DecodeSeatMember(m) == [id |-> m[1], category |-> m[2], row |-> m[3], col |-> m[4], price |-> m[5]]

SeatSortScore(row, col) == row * Stride + col

AddSeat(z, s) ==
    [m \in DOMAIN z \cup {EncodeSeatMember(s)} |->
        IF m = EncodeSeatMember(s) THEN SeatSortScore(s.row, s.col) ELSE z[m]]

NoSeats == [m \in {} |-> 0]

SortBy(S, Less(_, _)) ==
    [i \in 1..Cardinality(S) |-> CHOOSE x \in S : Cardinality({y \in S : Less(y, x)}) = i - 1]

ZRange(z) == SortBy(DOMAIN z, LAMBDA m, n : z[m] < z[n])

\* The seats of a sorted set, as listSeats decodes them.
ListSeats(z) == LET s == ZRange(z) IN [i \in DOMAIN s |-> DecodeSeatMember(s[i])]

ToSeatCandidatesFromLedger(seats) ==
    [i \in DOMAIN seats |->
        [id |-> seats[i].id, category |-> seats[i].category, row |-> seats[i].row,
         col |-> seats[i].col, price |-> seats[i].price]]

\* The seats as the reply names them.
ToSeatInfoList(seats) ==
    [i \in DOMAIN seats |->
        [seatId |-> seats[i].id, category |-> seats[i].category, row |-> seats[i].row,
         col |-> seats[i].col, price |-> seats[i].price]]

-----------------------------------------------------------------------------
(* The loop over a row: seats start .. i - 1 are side by side.              *)
RECURSIVE Consecutive(_, _, _, _)
Consecutive(s, need, start, i) ==
    IF i <= Len(s) /\ s[i].col = s[i - 1].col + 1 THEN Consecutive(s, need, start, i + 1)
    ELSE IF i - start >= need THEN SubSeq(s, start, start + need - 1)
    ELSE IF i > Len(s) THEN <<>>
    ELSE Consecutive(s, need, i, i + 1)

\* Faulty: a row of just as many seats is passed by.
FirstConsecutiveSeatsShort(s, need) == IF Len(s) <= need THEN <<>> ELSE Consecutive(s, need, 1, 2)

FirstConsecutiveSeats(s, need) == IF Len(s) < need THEN <<>> ELSE Consecutive(s, need, 1, 2)

\* The last of the seats from "start" on that are in its row.
RowEnd(s, start) ==
    CHOOSE i \in start..Len(s) :
        /\ \A j \in start..i : s[j].row = s[start].row
        /\ i < Len(s) => s[i + 1].row # s[start].row

\* The rows of sorted seats one after the other.
RECURSIVE FirstRow(_, _, _)
FirstRow(s, need, start) ==
    IF start > Len(s) THEN <<>>
    ELSE LET found == FirstConsecutiveSeats(SubSeq(s, start, RowEnd(s, start)), need)
         IN IF found # <<>> THEN found ELSE FirstRow(s, need, RowEnd(s, start) + 1)

Selected(s, need) == IF FirstRow(s, need, 1) # <<>> THEN FirstRow(s, need, 1) ELSE SubSeq(s, 1, need)

Before(s, t) ==
    \/ s.row < t.row
    \/ s.row = t.row /\ s.col < t.col
    \/ s.row = t.row /\ s.col = t.col /\ s.id < t.id

\* The candidates are a set, their order in the table does not matter.
AssignSeats(candidates, need) == Selected(SortBy(candidates, Before), need)

\* The choice of freeze_auto_assigned_seats.lua.
SelectedByScript(z, need) == Selected(ListSeats(z), need)

-----------------------------------------------------------------------------
Init ==
    /\ available = FoldSet(LAMBDA s, z : AddSeat(z, NewSeatFromModel(s)), NoSeats, DSeats)
    /\ frozen = [t \in Tokens |-> NoSeats]
    /\ answer = [t \in Tokens |-> <<>>]

Without(z, S) == [m \in DOMAIN z \ S |-> z[m]]

Sorted(seats) == FoldSet(LAMBDA s, z : AddSeat(z, s), NoSeats, ToSet(seats))

\* freeze_auto_assigned_seats.lua and what the store makes of its answer.
FreezeAutoAssignedSeats(t) ==
    LET chosen == SelectedByScript(available, CountOf[t])
        members == {EncodeSeatMember(s) : s \in ToSet(chosen)}
    IN /\ Cardinality(DOMAIN available) >= CountOf[t]
       /\ IF DOMAIN frozen[t] # {}
          THEN /\ answer' = [answer EXCEPT ![t] =
                              ToSeatInfoList(ToSeatCandidatesFromLedger(ListSeats(frozen[t])))]
               /\ UNCHANGED <<available, frozen>>
          ELSE /\ available' = Without(available, members)
               /\ frozen' = [frozen EXCEPT ![t] = Sorted(chosen)]
               /\ answer' = [answer EXCEPT ![t] =
                              ToSeatInfoList(ToSeatCandidatesFromLedger(chosen))]

Union(y, z) == [m \in DOMAIN y \cup DOMAIN z |-> IF m \in DOMAIN y THEN y[m] ELSE z[m]]

\* release_frozen_seats.lua
ReleaseFrozenSeats(t) ==
    /\ DOMAIN frozen[t] # {}
    /\ available' = Union(available, frozen[t])
    /\ frozen' = [frozen EXCEPT ![t] = NoSeats]
    /\ answer' = [answer EXCEPT ![t] = <<>>]

\* confirm_frozen_seats.lua, the seats are sold.
ConfirmFrozenSeats(t) ==
    /\ DOMAIN frozen[t] # {}
    /\ frozen' = [frozen EXCEPT ![t] = NoSeats]
    /\ answer' = [answer EXCEPT ![t] = <<>>]
    /\ UNCHANGED available

Next == \E t \in Tokens :
    FreezeAutoAssignedSeats(t) \/ ReleaseFrozenSeats(t) \/ ConfirmFrozenSeats(t)

Spec == Init /\ [][Next]_vars

-----------------------------------------------------------------------------
(* What a choice of "need" seats should be, without a loop: the seats side  *)
(* by side that come first, and only if there are none, the first seats.    *)
Candidates == {DecodeSeatMember(m) : m \in DOMAIN available}

SideBySide(S) ==
    \A s \in S : \A t \in S :
        s.row = t.row /\ \A c \in s.col..t.col : \E x \in S : x.row = s.row /\ x.col = c

Blocks(need) == {S \in kSubset(need, Candidates) : SideBySide(S)}

Starts(S, T) == \E s \in S : \A t \in T : s = t \/ Before(s, t)

\* The script, which goes by the score, and assignSeats choose the same seats.
ScriptAgrees(need) == SelectedByScript(available, need) = AssignSeats(Candidates, need)

\* A freeze takes seats side by side in one row whenever there are any, the ones
\* nearest to the front, and else the first seats, as assignSeats does: whatever
\* was frozen, released and sold before, and though the script compares neighbours
\* of a sorted set.  A call that is repeated freezes nothing, and answers with the
\* seats that the first one froze, in the same order.
BestSeats ==
    [][\A t \in Tokens : answer'[t] # <<>> =>
         IF answer[t] # <<>> THEN answer'[t] = answer[t] /\ frozen'[t] = frozen[t]
         ELSE LET S == {s \in Candidates : \E a \in ToSet(answer'[t]) : a.seatId = s.id} IN
              /\ Cardinality(S) = CountOf[t]
              /\ ScriptAgrees(CountOf[t])
              /\ IF Blocks(CountOf[t]) = {}
                 THEN \A s \in S, x \in Candidates \ S : Before(s, x)
                 ELSE SideBySide(S) /\ \A T \in Blocks(CountOf[t]) : Starts(S, T)]_vars
=============================================================================
