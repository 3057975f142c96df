------------------------------ MODULE MCFailover ------------------------------
(***************************************************************************)
(* An instance of Failover for TLC.                                        *)
(***************************************************************************)
EXTENDS Failover

\* The default durations, in ticks of five seconds.
MCConfig == [LeaseDuration |-> 0, RenewDeadline |-> 0, RetryPeriod |-> 0]
===============================================================================
