---------------------------- MODULE CoreSession ----------------------------
(***************************************************************************)
(* What the run_* loops of main.rs promise whoever called start(): a        *)
(* session may give up only while it looks for its first peer.  Once it has *)
(* tried a tunnel it never ends by itself: it pauses, looks again and tries *)
(* again until it is stopped.                                               *)
(***************************************************************************)
VARIABLES phase,   \* "idle", "choosing", "trying", "up", "pausing", "failed"
          tried    \* has this session tried a tunnel

coreVars == <<phase, tried>>

CoreInit == phase = "idle" /\ tried = FALSE

CoreBegin == phase \in {"idle", "failed"} /\ phase' = "choosing" /\ tried' = FALSE
CoreFail == phase = "choosing" /\ ~tried /\ phase' = "failed" /\ UNCHANGED tried
CoreFoundNothing == phase = "choosing" /\ phase' = "pausing" /\ UNCHANGED tried
CoreTry == phase = "choosing" /\ phase' = "trying" /\ tried' = TRUE
CoreUp == phase = "trying" /\ phase' = "up" /\ UNCHANGED tried
CoreLose == phase \in {"trying", "up"} /\ phase' = "pausing" /\ UNCHANGED tried
CoreResume == phase = "pausing" /\ phase' = "choosing" /\ UNCHANGED tried
CoreStop == phase # "idle" /\ phase' = "idle" /\ tried' = FALSE

CoreNext == \/ CoreBegin \/ CoreFail \/ CoreFoundNothing \/ CoreTry \/ CoreUp
            \/ CoreLose \/ CoreResume \/ CoreStop

(* The session's own task keeps running: it does not look for ever, a       *)
(* tunnel comes up or is given up, and a pause ends.                        *)
CoreFairness == /\ WF_coreVars(CoreFail \/ CoreFoundNothing \/ CoreTry)
                /\ WF_coreVars(CoreUp \/ (phase = "trying" /\ CoreLose))
                /\ WF_coreVars(CoreResume)

CoreSafe == CoreInit /\ [][CoreNext]_coreVars
CoreSpec == CoreSafe /\ CoreFairness

=============================================================================
