-------------------------------- MODULE ZoneMap --------------------------------
(***************************************************************************)
(* gtv-core: zone maps.  build_zone_maps walks the validity columns chunk  *)
(* by chunk and keeps the smallest valid_from and the largest valid_to of  *)
(* each; temporal_mask_pruned then sets the bits of the rows active at T,  *)
(* skipping the chunks whose bounds exclude T.                             *)
(*                                                                         *)
(* The mask is the set of rows whose bit is set; bit packing is left out.  *)
(* Nothing makes an interval non-empty: to <= from is an allowed row.      *)
(***************************************************************************)
EXTENDS Integers, Sequences

CONSTANTS
    I64Min, I64Max,   \* i64::MIN and i64::MAX
    Times,            \* the instants in the columns and in queries
    MaxLen,           \* bound on the length of the columns
    MaxChunk          \* bound on chunk_size

\* chunk_size > 0 is asserted by build_zone_maps.
ASSUME ZoneAssumption ==
    /\ I64Min \in Int /\ I64Max \in Int
    /\ Times \subseteq I64Min..I64Max
    /\ MaxLen \in Nat /\ MaxChunk \in Nat \ {0}

VARIABLES
    n,               \* length of the columns
    from, to,        \* valid_from and valid_to, indexed from 0
    chunkSize,
    at,              \* valid_at of the query
    zones,           \* the zones pushed so far
    offset, len,     \* the current chunk
    minFrom, maxTo,  \* its running bounds
    j,               \* rows of the chunk scanned, then zones visited
    mask,            \* rows whose bit is set
    phase

input == <<n, from, to, chunkSize, at>>
vars  == <<input, zones, offset, len, minFrom, maxTo, j, mask, phase>>

I64  == I64Min..I64Max
Zone == [offset : Nat, len : Nat, min_from : I64, max_to : I64]

TypeOK ==
    /\ n \in 0..MaxLen /\ from \in [0..(n - 1) -> Times] /\ to \in [0..(n - 1) -> Times]
    /\ chunkSize \in 1..MaxChunk /\ at \in Times
    /\ zones \in Seq(Zone)
    /\ offset \in 0..n /\ len \in 0..n /\ offset + len <= n
    /\ minFrom \in I64 /\ maxTo \in I64
    /\ j \in Nat
    /\ mask \subseteq 0..(n - 1)
    /\ phase \in {"chunk", "scan", "mask", "done"}

-------------------------------------------------------------------------------
Least(a, b)    == IF a <= b THEN a ELSE b
Greatest(a, b) == IF a >= b THEN a ELSE b

Active(r) == from[r] <= at /\ at < to[r]

ZoneRows(z) == z.offset..(z.offset + z.len - 1)

\* Fault: a chunk that begins exactly at the queried instant is skipped.
ExcludesFault(z) == at <= z.min_from \/ at >= z.max_to

\* ZoneMap::excludes
Excludes(z) == at < z.min_from \/ at >= z.max_to

Init ==
    /\ n \in 0..MaxLen
    /\ from \in [0..(n - 1) -> Times] /\ to \in [0..(n - 1) -> Times]
    /\ chunkSize \in 1..MaxChunk /\ at \in Times
    /\ zones = <<>>
    /\ offset = 0 /\ len = 0 /\ minFrom = I64Max /\ maxTo = I64Min
    /\ j = 0 /\ mask = {} /\ phase = "chunk"

\* while offset < n: a chunk of chunk_size rows, or of what is left.
StartChunk ==
    /\ phase = "chunk" /\ offset < n
    /\ len' = Least(chunkSize, n - offset)
    /\ minFrom' = I64Max /\ maxTo' = I64Min /\ j' = 0
    /\ phase' = "scan"
    /\ UNCHANGED <<input, zones, offset, mask>>

\* Fault: both bounds are taken from valid_from.
ScanRowFault ==
    /\ phase = "scan" /\ j < len
    /\ minFrom' = Least(minFrom, from[offset + j])
    /\ maxTo' = Greatest(maxTo, from[offset + j])
    /\ j' = j + 1
    /\ UNCHANGED <<input, zones, offset, len, mask, phase>>

ScanRow ==
    /\ phase = "scan" /\ j < len
    /\ minFrom' = Least(minFrom, from[offset + j])
    /\ maxTo' = Greatest(maxTo, to[offset + j])
    /\ j' = j + 1
    /\ UNCHANGED <<input, zones, offset, len, mask, phase>>

PushZone ==
    /\ phase = "scan" /\ j = len
    /\ zones' = Append(zones, [offset |-> offset, len |-> len,
                               min_from |-> minFrom, max_to |-> maxTo])
    /\ offset' = offset + len /\ len' = 0
    /\ phase' = "chunk"
    /\ UNCHANGED <<input, minFrom, maxTo, j, mask>>

StartMask ==
    /\ phase = "chunk" /\ offset >= n
    /\ j' = 0 /\ phase' = "mask"
    /\ UNCHANGED <<input, zones, offset, len, minFrom, maxTo, mask>>

MaskZone ==
    /\ phase = "mask" /\ j < Len(zones)
    /\ mask' = IF Excludes(zones[j + 1]) THEN mask
               ELSE mask \cup {r \in ZoneRows(zones[j + 1]) : Active(r)}
    /\ j' = j + 1
    /\ UNCHANGED <<input, zones, offset, len, minFrom, maxTo, phase>>

Finish ==
    /\ phase = "mask" /\ j = Len(zones)
    /\ phase' = "done"
    /\ UNCHANGED <<input, zones, offset, len, minFrom, maxTo, j, mask>>

Finished == phase = "done" /\ UNCHANGED vars

Next == StartChunk \/ ScanRow \/ PushZone \/ StartMask \/ MaskZone \/ Finish \/ Finished

Spec == Init /\ [][Next]_vars
-------------------------------------------------------------------------------
\* temporal_mask_full: every row, no zone map.
FullMask == {r \in 0..(n - 1) : Active(r)}

\* Pruning does not change the result: the mask is the one of the full scan.
PrunedIsFull == phase = "done" => mask = FullMask

\* The zones tile the columns: every row already cut off belongs to a zone, and
\* a zone's bounds contain the interval of each of its rows, the rows of a last
\* partial chunk and rows that end before they begin included.
ZonesSound ==
    /\ \A r \in 0..(offset - 1) : \E k \in DOMAIN zones : r \in ZoneRows(zones[k])
    /\ \A k \in DOMAIN zones : \A r \in ZoneRows(zones[k]) :
          /\ r \in 0..(offset - 1)
          /\ zones[k].min_from <= from[r] /\ to[r] <= zones[k].max_to

================================================================================
