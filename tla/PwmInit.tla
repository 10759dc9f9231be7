------------------------------- MODULE PwmInit -------------------------------
(***************************************************************************)
(* pwm_devinit of the mbed board, configs/mbed/src/up_pwm.c: the first     *)
(* call registers three PWM drivers, /dev/pwm0, /dev/mcpwm0 and            *)
(* /dev/timer0, in that order, and sets the static flag initialized; later *)
(* calls see the flag and return OK.  examples/pwm calls it each time the  *)
(* command runs, so calls may come from several tasks and may follow a     *)
(* failed one.                                                             *)
(*                                                                         *)
(* Nothing serialises the calls: the test of initialized and each          *)
(* registration are separate steps.  pwm_register (not under src/) is one  *)
(* step under the inode lock: it fails with -EEXIST when the path is       *)
(* already registered, and may fail with -ENOMEM when its allocation       *)
(* fails, at most MaxNoMem times in a run.  The lower halves of timer 0    *)
(* exist, so lpc17_*initialize(0) never returns NULL.                     *)
(***************************************************************************)
EXTENDS Naturals, Sequences

CONSTANTS
    Callers,    \* tasks that call pwm_devinit
    MaxNoMem    \* allocation failures of pwm_register in a run, a natural

\* The drivers, in the order pwm_devinit registers them.
Devs == <<"pwm0", "mcpwm0", "timer0">>
DevSet == {Devs[k] : k \in DOMAIN Devs}

VARIABLES
    initialized,    \* the static flag of pwm_devinit
    registered,     \* the paths registered in the pseudo file system
    pc,             \* pc[c]: 0 when idle, or k: c is about to register Devs[k]
    ret,            \* ret[c]: what c's last call returned
    nomem           \* allocation failures so far

vars == <<initialized, registered, pc, ret, nomem>>

Results == {"none", "OK", "ENOMEM", "EEXIST"}

TypeOK ==
    /\ initialized \in BOOLEAN
    /\ registered \subseteq DevSet
    /\ pc \in [Callers -> 0..Len(Devs)]
    /\ ret \in [Callers -> Results]
    /\ nomem \in 0..MaxNoMem

Init ==
    /\ initialized = FALSE
    /\ registered = {}
    /\ pc = [c \in Callers |-> 0]
    /\ ret = [c \in Callers |-> "none"]
    /\ nomem = 0

\* A call of pwm_devinit tests initialized (up_pwm.c:94): set, it returns
\* OK (151); clear, it goes on to the first registration.
Call(c) ==
    /\ pc[c] = 0
    /\ \/ /\ initialized
          /\ ret' = [ret EXCEPT ![c] = "OK"]
          /\ UNCHANGED <<initialized, registered, pc, nomem>>
       \/ /\ ~initialized
          /\ pc' = [pc EXCEPT ![c] = 1]
          /\ UNCHANGED <<initialized, registered, ret, nomem>>

\* After registration k succeeds: on to the next one, or, after the last,
\* set initialized and return OK (up_pwm.c:146-151).
Finish(c, k) ==
    IF k = Len(Devs)
    THEN /\ initialized' = TRUE
         /\ pc' = [pc EXCEPT ![c] = 0]
         /\ ret' = [ret EXCEPT ![c] = "OK"]
    ELSE /\ pc' = [pc EXCEPT ![c] = k + 1]
         /\ UNCHANGED <<initialized, ret>>

\* Registration k of caller c (up_pwm.c:98-112, 114-128, 130-144): get the
\* lower half, pwm_register its path; on an error return it at once.
Register(c) ==
    LET k == pc[c] IN
    /\ k \in DOMAIN Devs
    /\ \/ /\ Devs[k] \in registered
          /\ pc' = [pc EXCEPT ![c] = 0]
          /\ ret' = [ret EXCEPT ![c] = "EEXIST"]
          /\ UNCHANGED <<initialized, registered, nomem>>
       \/ /\ Devs[k] \notin registered
          /\ nomem < MaxNoMem
          /\ nomem' = nomem + 1
          /\ pc' = [pc EXCEPT ![c] = 0]
          /\ ret' = [ret EXCEPT ![c] = "ENOMEM"]
          /\ UNCHANGED <<initialized, registered>>
       \/ /\ Devs[k] \notin registered
          /\ registered' = registered \cup {Devs[k]}
          /\ Finish(c, k)
          /\ UNCHANGED nomem

Next == \E c \in Callers : Call(c) \/ Register(c)

Spec == Init /\ [][Next]_vars

(* Properties.                                                             *)

(* pwm_devinit can be called again: a call never fails because of what an *)
(* earlier or a concurrent call already registered.  The test of the      *)
(* static flag (up_pwm.c:92-94) is there so that a second call is         *)
(* harmless.                                                               *)
NoSpuriousFailure ==
    \A c \in Callers : ret[c] # "EEXIST"

=============================================================================
