--------------------------------- MODULE Replay ---------------------------------
(***************************************************************************)
(* What the entanglement promises, without sites, probes or patches: Spike   *)
(* runs the draft once and the states it goes through are logged; the final  *)
(* program then goes through exactly these, one after the other, to the end  *)
(* of the log, and is accepted.  There is no other outcome: no program is    *)
(* given up, and none leaves the planned path.                               *)
(*                                                                         *)
(* Entangle implements it (src/src/orchestrator.rs, resolve_self_check).     *)
(***************************************************************************)
EXTENDS Naturals, Sequences

VARIABLES
    phase,            \* "plan", "record", "recorded", "replay" or "accepted"
    log,              \* the states of the draft, in order
    replayed,         \* how many of them the final program has reached
    current           \* the state it is in, or <<>> while it does not run

replayVars == <<phase, log, replayed, current>>

ReplayInit == phase = "plan" /\ log = <<>> /\ replayed = 0 /\ current = <<>>

\* The draft is linked and started.
Start ==
    /\ phase = "plan" /\ phase' = "record"
    /\ UNCHANGED <<log, replayed, current>>

\* The log never changes but at its end.
LogOne ==
    LET new == log'
    IN  new # <<>> /\ new = Append(log, new[Len(new)])

Record ==
    /\ phase = "record" /\ phase' \in {"record", "recorded"}
    /\ LogOne
    /\ UNCHANGED <<replayed, current>>

\* The final program is in the next state of the log.
Reach ==
    /\ replayed' = replayed + 1
    /\ LET states == log
       IN  /\ replayed' \in DOMAIN states /\ current' = states[replayed']
           /\ log' = states

StartReplay == phase = "recorded" /\ phase' = "replay" /\ Reach

Replay == phase = "replay" /\ phase' = "replay" /\ Reach

Accept ==
    /\ phase = "replay" /\ replayed = Len(log)
    /\ phase' = "accepted" /\ current' = <<>>
    /\ UNCHANGED <<log, replayed>>

ReplayNext == Start \/ Record \/ StartReplay \/ Replay \/ Accept

Accepted == <>(phase = "accepted")

\* No step but these, whether or not the end is reached.
ReplaySafety == ReplayInit /\ [][ReplayNext]_replayVars

ReplaySpec == ReplaySafety /\ Accepted
================================================================================
