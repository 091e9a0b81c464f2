-------------------------------- MODULE AsofJoin --------------------------------
(***************************************************************************)
(* gtv-array: the as-of join, and the SQL table function over it.  Both    *)
(* variants walk the left times in ascending order and advance one pointer *)
(* into the right times: asof_join_sorted_* takes the left times as they   *)
(* come, asof_join_* sorts their indices first and writes each result back *)
(* to its place.                                                           *)
(*                                                                         *)
(* A result is the position of the right row (0 for None), so that equal   *)
(* values cannot hide a wrong row.  The two right columns are equally      *)
(* long: the code asserts it on entry.                                     *)
(***************************************************************************)
EXTENDS AsofColumns

CONSTANT Calls   \* the entry points called

ASSUME CallsAssumption == Calls \subseteq {"sorted", "any_order", "table"}

VARIABLES
    call,
    order,       \* the indices of left in the order they are visited
    p,           \* visited so far, plus one
    j, last      \* the right pointer and the row last passed

input == <<call, left, right>>
vars  == <<input, order, p, j, last, out, pc>>

n == Len(left)
m == Len(right)

TypeOK ==
    /\ call \in Calls /\ left \in ColumnsUpTo(MaxLeft) /\ right \in ColumnsUpTo(MaxRight)
    /\ order \in [1..n -> 1..n]
    /\ p \in 1..(n + 1) /\ j \in 0..m /\ last \in 0..m
    /\ out \in [1..n -> 0..m]
    /\ pc \in {"begin", "merge", "done"}

-------------------------------------------------------------------------------
\* The table function takes the right columns it was registered with, and
\* registering checks nothing but their lengths.
TableCall == call = "table"

\* What each library entry point asks of its caller.
Init ==
    /\ call \in Calls /\ left \in ColumnsUpTo(MaxLeft) /\ right \in ColumnsUpTo(MaxRight)
    /\ call = "sorted" => Ascending(left)
    /\ ~TableCall => Ascending(right)
    /\ order = [a \in 1..n |-> a]
    /\ p = 1 /\ j = 0 /\ last = 0
    /\ out = [a \in 1..n |-> 0]
    /\ pc = "begin"

\* The permutations an unstable sort by left time can produce.
Argsorts ==
    {f \in [1..n -> 1..n] :
        /\ \A a \in 1..n : \E b \in 1..n : f[b] = a
        /\ \A a, b \in 1..n : a < b => left[f[a]] <= left[f[b]]}

Begin ==
    /\ pc = "begin"
    /\ order' \in IF call = "sorted" THEN {order} ELSE Argsorts
    /\ pc' = "merge"
    /\ UNCHANGED <<input, p, j, last, out>>

\* The condition of the inner loop.
Passes == j < m /\ right[j + 1] <= left[order[p]]

Advance ==
    /\ pc = "merge" /\ p <= n /\ Passes
    /\ last' = j + 1 /\ j' = j + 1
    /\ UNCHANGED <<input, order, p, out, pc>>

\* Fault: the results stay in sorted order.
EmitFault ==
    /\ pc = "merge" /\ p <= n /\ ~Passes
    /\ out' = [out EXCEPT ![p] = last]
    /\ p' = p + 1
    /\ UNCHANGED <<input, order, j, last, pc>>

Emit ==
    /\ pc = "merge" /\ p <= n /\ ~Passes
    /\ out' = [out EXCEPT ![order[p]] = last]
    /\ p' = p + 1
    /\ UNCHANGED <<input, order, j, last, pc>>

Finish ==
    /\ pc = "merge" /\ p > n
    /\ pc' = "done"
    /\ UNCHANGED <<input, order, p, j, last, out>>

Finished == pc = "done" /\ UNCHANGED vars

Next == Begin \/ Advance \/ Emit \/ Finish \/ Finished

Spec == Init /\ [][Next]_vars

-------------------------------------------------------------------------------
\* The pointer never has to move back: what it has passed is at or before every
\* left time still to come, and the left times behind it are settled.
MergeSound ==
    pc = "merge" =>
        /\ last = j
        /\ \A b \in 1..j : \A q \in p..n : right[b] <= left[order[q]]
        /\ Ascending(right) => \A q \in 1..(p - 1) : IsAsof(left[order[q]], out[order[q]])

================================================================================
