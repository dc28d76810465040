------------------------------ MODULE Throttler ------------------------------
(***************************************************************************)
(* utils/throttler.py with the event it waits on, utils/signal_event.py:   *)
(* add_invocation calls from many threads become few calls of the caller   *)
(* (the pollers re-invoke their Lambda function through it), made by one   *)
(* worker thread that close asks to end.  The steps of the worker are the  *)
(* stretches between the points where it takes or gives up the mutex.      *)
(***************************************************************************)
EXTENDS Integers

CONSTANT MaxAdds        \* bound on the calls of add_invocation

ASSUME AddsAssumption == MaxAdds \in Nat

VARIABLES
    anyWaiting, shutdown,       \* __any_waiting, __shutdown
    signalled, manualReset,     \* the SignalEvent
    pc,                         \* the worker thread ("none": not started)
    started,                    \* its start_time is set
    elapsed,                    \* ... and throttle_millis have gone by since
    adds, calls                 \* history: requests accepted, calls made

throttlerVars == <<anyWaiting, shutdown, signalled, manualReset, pc, started, elapsed, adds, calls>>

ThrottlerTypeOK ==
    /\ {anyWaiting, shutdown, signalled, manualReset, started, elapsed} \subseteq BOOLEAN
    /\ elapsed => started
    /\ pc \in {"none", "wait", "check", "call", "exit", "done"}
    /\ adds \in 0..MaxAdds /\ calls \in Nat

ThrottlerInit ==
    /\ anyWaiting = FALSE /\ shutdown = FALSE
    /\ signalled = FALSE /\ manualReset = FALSE
    /\ pc = "none" /\ started = FALSE /\ elapsed = FALSE
    /\ adds = 0 /\ calls = 0

(* add_invocation, which asserts that close has not been called. *)
AddInvocation ==
    /\ ~shutdown /\ adds < MaxAdds
    /\ anyWaiting' = TRUE /\ adds' = adds + 1
    /\ pc' = IF pc = "none" THEN "wait" ELSE pc
    /\ signalled' = TRUE
    /\ UNCHANGED <<shutdown, manualReset, started, elapsed, calls>>

(* close, up to its join, which waits for the worker ten seconds at most. *)
Close ==
    /\ ~shutdown
    /\ shutdown' = TRUE
    /\ signalled' = (signalled \/ pc # "none")
    /\ manualReset' = (pc # "none")
    /\ UNCHANGED <<anyWaiting, pc, started, elapsed, adds, calls>>

-----------------------------------------------------------------------------
(* __worker *)

(* SignalEvent.wait: the signal, consumed unless the reset is manual, or   *)
(* the time-out.                                                           *)
Wait ==
    /\ pc = "wait"
    /\ \/ signalled /\ signalled' = manualReset
       \/ ~signalled /\ UNCHANGED signalled
    /\ pc' = "check"
    /\ UNCHANGED <<anyWaiting, shutdown, manualReset, started, elapsed, adds, calls>>

(* A fault for Take: the request is not reset. *)
TakeAndKeep == started' = FALSE /\ elapsed' = FALSE /\ UNCHANGED anyWaiting

(* The worker takes what is waiting. *)
Take == anyWaiting' = FALSE /\ started' = FALSE /\ elapsed' = FALSE

(* A fault for StartClock: start_time is never set. *)
NoClock == UNCHANGED started

StartClock == started' = TRUE

(* The block under the mutex. *)
Check ==
    /\ pc = "check"
    /\ \/ anyWaiting /\ (shutdown \/ elapsed) /\ Take /\ pc' = "call"
       \/ /\ anyWaiting /\ ~shutdown /\ ~elapsed
          /\ StartClock
          /\ pc' = "exit"
          /\ UNCHANGED <<anyWaiting, elapsed>>
       \/ /\ ~anyWaiting
          /\ pc' = "exit"
          /\ UNCHANGED <<anyWaiting, started, elapsed>>
    /\ UNCHANGED <<shutdown, signalled, manualReset, adds, calls>>

(* The caller runs; what it raises is printed. *)
Call ==
    /\ pc = "call"
    /\ calls' = calls + 1
    /\ pc' = "exit"
    /\ UNCHANGED <<anyWaiting, shutdown, signalled, manualReset, started, elapsed, adds>>

(* A fault for ExitCheck: the loop does not break. *)
NoExit ==
    /\ pc = "exit"
    /\ pc' = "wait"
    /\ UNCHANGED <<anyWaiting, shutdown, signalled, manualReset, started, elapsed, adds, calls>>

(* The second reading of __shutdown, outside the mutex. *)
ExitCheck ==
    /\ pc = "exit"
    /\ pc' = IF shutdown THEN "done" ELSE "wait"
    /\ UNCHANGED <<anyWaiting, shutdown, signalled, manualReset, started, elapsed, adds, calls>>

(* throttle_millis pass. *)
Elapse ==
    /\ started /\ ~elapsed
    /\ elapsed' = TRUE
    /\ UNCHANGED <<anyWaiting, shutdown, signalled, manualReset, pc, started, adds, calls>>

-----------------------------------------------------------------------------
Worker == Wait \/ Check \/ Call \/ ExitCheck

ThrottlerNext == AddInvocation \/ Close \/ Worker \/ Elapse

ThrottlerSpec == ThrottlerInit /\ [][ThrottlerNext]_throttlerVars

(* The worker thread runs (its waits have time-outs), and time passes. *)
ThrottlerFairSpec == ThrottlerSpec /\ WF_throttlerVars(Worker) /\ WF_throttlerVars(Elapse)

-----------------------------------------------------------------------------
(* Properties *)

(* The caller is called for requests only, and never twice for the same. *)
OneCallPerRequest == ThrottlerTypeOK /\ calls + (IF pc = "call" THEN 1 ELSE 0) <= adds

(* As long as the throttler is open a request leads to a call, also one    *)
(* that arrives while the worker is between its wait and its check.        *)
RequestServed == (anyWaiting /\ ~shutdown) ~> (~anyWaiting \/ shutdown)

(* close ends the worker thread, wherever it finds it. *)
WorkerEnds == (shutdown /\ pc # "none") ~> (pc = "done")
=============================================================================
