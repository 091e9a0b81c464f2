------------------------------ MODULE AsofColumns ------------------------------
(***************************************************************************)
(* What the two as-of joins share: a left and a right column of times, the *)
(* result (for each left row the right row it takes its values from, 0 for *)
(* none), and what the as-of match of an instant is.                       *)
(***************************************************************************)
EXTENDS Integers, Sequences

CONSTANTS
    Times,              \* the instants in the columns
    MaxLeft, MaxRight   \* bounds on their lengths

ASSUME ColumnsAssumption == Times \subseteq Int /\ MaxLeft \in Nat /\ MaxRight \in Nat

VARIABLES
    left, right,  \* left_times and right_times
    out,
    pc

\* Sorted as the callers have to provide it, ties allowed.
Ascending(s) == \A i, j \in 1..Len(s) : i < j => s[i] <= s[j]

\* Columns of at most len rows.
ColumnsUpTo(len) == UNION {[1..l -> Times] : l \in 0..len}

\* Row r is the as-of match of instant t: the last right row at or before t, and
\* none later in the column is; 0 if no row is.
IsAsof(t, r) ==
    /\ r # 0 => right[r] <= t
    /\ \A b \in 1..Len(right) : right[b] <= t => b <= r

\* What the library's join promises: if the right times ascend, every left time,
\* wherever it stood in the input, gets its as-of match: of equal right times the
\* last, and none before the first.  The table function is no exception, but does
\* not see to the premise.
EveryLeftMatched ==
    pc = "done" /\ Ascending(right) => \A a \in 1..Len(left) : IsAsof(left[a], out[a])
================================================================================
