---------------------------- MODULE SessionKeeper ----------------------------
(***************************************************************************)
(* What init promises about terminal sessions, without saying how: each    *)
(* service has at most one session process at a time, sessions start only  *)
(* while the machine is up, and going down is not undone.  Launchd is      *)
(* shown to implement this specification.                                  *)
(***************************************************************************)
EXTENDS Naturals

CONSTANTS Pids,  \* process identifiers
          Names  \* services, none of which is 0

VARIABLES session,  \* session[p]: the service process p works for, 0 for none
          stage     \* "up", "stopping" or "off"

Init == session = [p \in Pids |-> 0] /\ stage = "up"

\* Service s, which has no session, gets one.
Start(s, p) ==
    /\ stage = "up"
    /\ session[p] = 0
    /\ \A q \in Pids : session[q] # s
    /\ session' = [session EXCEPT ![p] = s]
    /\ UNCHANGED stage

\* The session process p has ended and init has noticed.
End(p) ==
    /\ stage # "off"
    /\ session' = [session EXCEPT ![p] = 0]
    /\ UNCHANGED stage

Stop == stage = "up" /\ stage' = "stopping" /\ UNCHANGED session

PowerOff == stage = "stopping" /\ stage' = "off" /\ UNCHANGED session

Next ==
    \/ \E p \in Pids : End(p) \/ \E s \in Names : Start(s, p)
    \/ Stop
    \/ PowerOff

Spec == Init /\ [][Next]_<<session, stage>>
==============================================================================
