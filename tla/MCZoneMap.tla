------------------------------- MODULE MCZoneMap -------------------------------
(* Instance of ZoneMap for TLC: -1 and 1 stand for the ends of i64.          *)
EXTENDS ZoneMap

MCI64Min == -1
MCTimes  == MCI64Min..I64Max
================================================================================
