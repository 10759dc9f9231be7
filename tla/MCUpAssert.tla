------------------------------ MODULE MCUpAssert ------------------------------
(* Four tasks besides the idle task.                                       *)
EXTENDS UpAssert, TLC

CONSTANTS t1, t2, t3, t4

MCTasks == {t1, t2, t3, t4}

=============================================================================
