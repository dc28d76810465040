------------------------------ MODULE ShimTime ------------------------------
(***************************************************************************)
(* utils/date_utils.py on a clock that counts half seconds: the coarsest   *)
(* unit in which the floor of get_system_time_in_seconds and the rounding  *)
(* of get_epoch_seconds_in_future, (ms + 500) // 1000 + s, differ.         *)
(***************************************************************************)
EXTENDS Integers

Seconds(t) == t \div 2

SecondsInFuture(t, s) == (t + 1) \div 2 + s
=============================================================================
