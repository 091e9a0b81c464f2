------------------------------ MODULE RollingWindow ------------------------------
(***************************************************************************)
(* gtv-array: mavg, msum and deltas, and the SQL window functions over     *)
(* them.  One pass keeps a running sum: each value is added as it enters   *)
(* the window and subtracted as it leaves.                                 *)
(*                                                                         *)
(* A number is finite, infinite or not a number.  Floating-point rounding  *)
(* is left out; an i64 wraps around, as a release build does.  An average  *)
(* is kept as its sum and its divisor.                                     *)
(***************************************************************************)
EXTENDS Integers, Sequences, FiniteSets

CONSTANTS
    Floats, Ints,    \* the values of an f64 and of an i64 column
    Half,            \* 2^63: an i64 lies in -Half..Half-1
    Windows,         \* the window sizes asked for in SQL
    MaxLen           \* bound on the length of the column

Fin(x) == [tag |-> "fin", v |-> x]
Inf(s) == [tag |-> "inf", v |-> s]
NaN    == [tag |-> "nan", v |-> 0]

Numbers == [tag : {"fin"}, v : Int] \cup [tag : {"inf"}, v : {-1, 1}] \cup [tag : {"nan"}, v : {0}]

ASSUME WindowAssumption ==
    /\ Half \in Nat \ {0} /\ Ints \subseteq -Half..(Half - 1)
    /\ Windows \subseteq Int /\ MaxLen \in Nat
    /\ Floats \subseteq Numbers

VARIABLES
    op, type,        \* the function and the type of its column
    values, n,       \* the column and the window size
    windowSum, outs

rollInput == <<op, type, values, n>>
rollVars  == <<rollInput, windowSum, outs>>

RollTypeOK ==
    /\ op \in {"mavg", "msum", "deltas"} /\ type \in {"f64", "i64"}
    /\ n \in Nat \ {0}
    /\ windowSum.tag \in {"fin", "inf", "nan"} /\ windowSum.v \in Int
    /\ Len(outs) <= Len(values)
    /\ type = "i64" =>
          /\ windowSum.tag = "fin" /\ windowSum.v \in -Half..(Half - 1)
          /\ \A i \in DOMAIN outs : outs[i].sum.v \in -Half..(Half - 1)

-------------------------------------------------------------------------------
Wrap(x) == ((x + Half) % (2 * Half)) - Half

FloatAdd(a, b) ==
    CASE a.tag = "nan" \/ b.tag = "nan"                -> NaN
      [] a.tag = "inf" /\ b.tag = "inf" /\ a.v # b.v   -> NaN
      [] a.tag = "inf" /\ b.tag = "inf" /\ a.v = b.v   -> a
      [] a.tag = "inf" /\ b.tag = "fin"                -> a
      [] a.tag = "fin" /\ b.tag = "inf"                -> b
      [] OTHER                                         -> Fin(a.v + b.v)

Negated(a) == [a EXCEPT !.v = -@]

Add(a, b) == IF type = "i64" THEN Fin(Wrap(a.v + b.v)) ELSE FloatAdd(a, b)
Sub(a, b) == IF type = "i64" THEN Fin(Wrap(a.v - b.v)) ELSE FloatAdd(a, Negated(b))

\* window_size: a window below one is one.
WindowSize(w) == IF w < 1 THEN 1 ELSE w

RollInit ==
    /\ type \in {"f64", "i64"}
    /\ op \in IF type = "f64" THEN {"mavg", "msum", "deltas"} ELSE {"msum", "deltas"}
    /\ \E len \in 0..MaxLen :
          values \in [1..len -> IF type = "f64" THEN Floats ELSE {Fin(x) : x \in Ints}]
    /\ \E w \in Windows : n = WindowSize(w)
    /\ windowSum = Fin(0) /\ outs = <<>>

Here    == Len(outs) + 1
HasNext == Len(outs) < Len(values)

\* Fault: the value before the window is subtracted one step late.
SlideFault ==
    IF Here > n + 1 THEN Sub(Add(windowSum, values[Here]), values[Here - n])
    ELSE Add(windowSum, values[Here])

\* The running sum once this value is added and, from the n+1st on, the one
\* that leaves the window is subtracted.
Slide ==
    IF Here > n THEN Sub(Add(windowSum, values[Here]), values[Here - n])
    ELSE Add(windowSum, values[Here])

Mavg ==
    /\ op = "mavg" /\ HasNext
    /\ windowSum' = Slide
    /\ outs' = Append(outs, [sum |-> Slide, count |-> IF Here < n THEN Here ELSE n])
    /\ UNCHANGED rollInput

Msum ==
    /\ op = "msum" /\ HasNext
    /\ windowSum' = Slide
    /\ outs' = Append(outs, [sum |-> Slide, count |-> 1])
    /\ UNCHANGED rollInput

Deltas ==
    /\ op = "deltas" /\ HasNext
    /\ LET delta == IF Here = 1 THEN values[1] ELSE Sub(values[Here], values[Here - 1])
       IN  outs' = Append(outs, [sum |-> delta, count |-> 1])
    /\ UNCHANGED <<rollInput, windowSum>>

RollEnds == ~HasNext /\ UNCHANGED rollVars

RollNext == Mavg \/ Msum \/ Deltas \/ RollEnds

RollSpec == RollInit /\ [][RollNext]_rollVars

-------------------------------------------------------------------------------
\* The window that ends at i.
WindowStart(i) == IF i > n THEN i - n + 1 ELSE 1
Window(i)      == WindowStart(i)..i

Tags(S) == {values[x].tag : x \in S}
Infinities(S) == {values[x].v : x \in {y \in S : values[y].tag = "inf"}}

\* f[lo] + ... + f[hi], for positions of the column.
RangeSum(f, lo, hi) ==
    LET upTo[k \in 0..Len(values)] == IF k < lo THEN 0 ELSE upTo[k - 1] + f[k] IN upTo[hi]

Amounts == [x \in DOMAIN values |-> values[x].v]

\* The sum of the values at lo..hi, from the definition.
SumOver(lo, hi) ==
    IF "nan" \in Tags(lo..hi) \/ Infinities(lo..hi) = {-1, 1} THEN NaN
    ELSE IF "inf" \in Tags(lo..hi) THEN Inf(CHOOSE s \in Infinities(lo..hi) : TRUE)
    ELSE LET sum == RangeSum(Amounts, lo, hi)
         IN  Fin(IF type = "i64" THEN Wrap(sum) ELSE sum)

Divisor(i) == IF op = "mavg" THEN Cardinality(Window(i)) ELSE 1

\* If what has left the window is finite, each output is the sum (or, with its
\* divisor, the average) over its window: what was added is subtracted exactly
\* once, and an i64 sum that overflowed on the way is right again once the
\* window's own sum fits.
WindowExact ==
    op # "deltas" =>
        \A i \in DOMAIN outs :
            (\A x \in 1..(i - n) : values[x].tag = "fin") =>
                outs[i] = [sum |-> SumOver(WindowStart(i), i), count |-> Divisor(i)]

\* deltas loses nothing: added up to any position, they give the value there.
DeltasTelescope ==
    op = "deltas" /\ Tags(DOMAIN values) \subseteq {"fin"} =>
        \A i \in DOMAIN outs :
            LET sum == RangeSum([x \in DOMAIN outs |-> outs[x].sum.v], 1, i)
            IN  values[i].v = IF type = "i64" THEN Wrap(sum) ELSE sum

\* The variables have their types, i64 sums their width included, and whatever
\* mavg, msum or deltas has put out so far is what its definition says.
OutputsExact == RollTypeOK /\ WindowExact /\ DeltasTelescope
================================================================================
