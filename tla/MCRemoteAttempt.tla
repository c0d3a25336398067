--------------------------- MODULE MCRemoteAttempt ---------------------------
(* Instances of RemoteAttempt for TLC: one ticket and two runners.  The runners *)
(* are interchangeable; the reconcile and the canceller are processes that may  *)
(* run again and again.                                                         *)
EXTENDS RemoteAttempt, TLC

Symmetric == Permutations(Runner)
=============================================================================
