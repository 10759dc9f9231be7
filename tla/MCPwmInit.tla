------------------------------ MODULE MCPwmInit ------------------------------
(* Tasks running the pwm command.                                         *)
EXTENDS PwmInit, TLC

CONSTANTS c1, c2

\* One task that runs the command again after a failure.
MCOneCaller == {c1}

\* Two tasks that run the command at the same time.
MCTwoCallers == {c1, c2}

=============================================================================
