------------------------------- MODULE MCAsofJoin -------------------------------
(* Instance of AsofJoin for TLC.                                             *)
EXTENDS AsofJoin

MCTimes == 0..2
================================================================================
