--------------------------- MODULE MCLeaderElection ---------------------------
(***************************************************************************)
(* Instances of LeaderElection for TLC.                                    *)
(***************************************************************************)
EXTENDS LeaderElection

\* What runMain gives: nothing, so that a tick of five seconds makes 3, 2 and 1.
MCConfig == [LeaseDuration |-> 0, RenewDeadline |-> 0, RetryPeriod |-> 0]
=============================================================================
