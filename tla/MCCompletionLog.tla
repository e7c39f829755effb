-------------------------- MODULE MCCompletionLog --------------------------
(* Finite instances of CompletionLog.                                      *)
EXTENDS CompletionLog

(* Every day of the clock but the second is scheduled.                     *)
AllButSecond == Days \ {1}
=============================================================================
