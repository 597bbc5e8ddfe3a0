--------------------------- MODULE AetherFfiProofs ---------------------------
(***************************************************************************)
(* The safety of AetherFfi for every number of threads.                    *)
(*                                                                         *)
(* OneRun is not inductive alone: that a compare_exchange finds RUNNING    *)
(* false says nothing about the other threads unless RUNNING is exactly    *)
(* "some thread holds the guard".  That in turn survives a guard's drop    *)
(* only because no second thread holds one.  Safety is their conjunction   *)
(* with the place of the tasks that announce readiness.                    *)
(***************************************************************************)
EXTENDS AetherFfi, TLAPS

(* A task inside mark_ready() keeps its runtime from being dropped. *)
MarkingHasRuntime == \A t \in marking : pc[t] \in HasRuntime

Safety ==
    /\ TypeOK
    /\ OneRun
    /\ RunningIsTheGuard
    /\ MarkingHasRuntime
    /\ NoTaskOutlivesItsRun
    /\ ReadyHasARun

USE DEF Preamble, InSelect, HasRuntime, Guarded, StarterPC, StopperPC, Codes,
        NoCode, Goto, flags

(* The first state: no thread is in a call. *)
LEMMA InitSafety == Init => Safety
  BY DEF Init, Safety, TypeOK, OneRun, RunningIsTheGuard, MarkingHasRuntime,
         NoTaskOutlivesItsRun, ReadyHasARun

(* Steps of a starter that move only its pc, inside the guarded region or  *)
(* outside it, and perhaps its return code, woken and STOP_REQUESTED.      *)
LEMMA StarterKeepsRegion ==
  ASSUME Safety, NEW t \in Starters,
         \/ StartCall(t) \/ RejectOptions(t) \/ AcceptOptions(t)
         \/ AlreadyRunning(t) \/ ResetStop(t)
         \/ RuntimeFails(t) \/ RuntimeBuilt(t)
         \/ Register(t) \/ CheckFindsStop(t) \/ CheckFindsNoStop(t) \/ Wake(t)
  PROVE  Safety'
<1> USE ThreadsAssumption
<1>1. TypeOK'
  <2>1. CASE StartCall(t) \/ RejectOptions(t) \/ AcceptOptions(t) \/ AlreadyRunning(t)
    BY <2>1 DEF Safety, TypeOK, StartCall, RejectOptions, AcceptOptions,
       AlreadyRunning
  <2>2. CASE ResetStop(t) \/ RuntimeFails(t) \/ RuntimeBuilt(t)
    BY <2>2 DEF Safety, TypeOK, ResetStop, RuntimeFails, RuntimeBuilt
  <2>3. CASE Register(t) \/ CheckFindsStop(t) \/ CheckFindsNoStop(t) \/ Wake(t)
    BY <2>3 DEF Safety, TypeOK, Register, CheckFindsStop, CheckFindsNoStop, Wake
  <2> QED BY <2>1, <2>2, <2>3
<1>2. /\ RUNNING' = RUNNING /\ READY' = READY
      /\ marking' = marking /\ announced' = announced
      /\ \A u \in Starters : pc'[u] \in Guarded <=> pc[u] \in Guarded
      /\ \A u \in Starters : pc[u] \in HasRuntime => pc'[u] \in HasRuntime
      /\ \A u \in Starters : pc'[u] = "dropReady" <=> pc[u] = "dropReady"
  BY DEF Safety, TypeOK, StartCall, RejectOptions, AcceptOptions,
         AlreadyRunning, ResetStop, RuntimeFails, RuntimeBuilt, Register,
         CheckFindsStop, CheckFindsNoStop, Wake
<1> QED
  BY <1>1, <1>2 DEF Safety, TypeOK, OneRun, RunningIsTheGuard,
     MarkingHasRuntime, NoTaskOutlivesItsRun, ReadyHasARun

(* The steps that decide the guard: claiming it and giving it up. *)
LEMMA GuardSteps ==
  ASSUME Safety, NEW t \in Starters, ClaimRunning(t) \/ DropRunning(t)
  PROVE  Safety'
<1> USE ThreadsAssumption
<1>1. TypeOK'
  BY DEF Safety, TypeOK, ClaimRunning, DropRunning
<1>2. CASE ClaimRunning(t)
  <2>1. \A u \in Starters : pc[u] \notin Guarded
    BY <1>2 DEF Safety, RunningIsTheGuard, ClaimRunning
  <2>2. /\ RUNNING' /\ READY' = READY
        /\ marking' = marking /\ announced' = announced
        /\ pc[t] = "cas" /\ pc'[t] = "resetStop"
        /\ \A u \in Starters \ {t} : pc'[u] = pc[u]
    BY <1>2 DEF Safety, TypeOK, ClaimRunning
  <2> QED
    BY <1>1, <2>1, <2>2 DEF Safety, TypeOK, OneRun, RunningIsTheGuard,
       MarkingHasRuntime, NoTaskOutlivesItsRun, ReadyHasARun
<1>3. CASE DropRunning(t)
  <2>1. \A u \in Starters \ {t} : pc[u] \notin Guarded
    BY <1>3 DEF Safety, OneRun, DropRunning
  <2>2. /\ ~RUNNING' /\ READY' = READY
        /\ marking' = marking /\ announced' = announced \ {t}
        /\ pc[t] = "dropRunning" /\ pc'[t] = "dropReady"
        /\ \A u \in Starters \ {t} : pc'[u] = pc[u]
    BY <1>3 DEF Safety, TypeOK, DropRunning
  <2> QED
    BY <1>1, <2>1, <2>2 DEF Safety, TypeOK, OneRun, RunningIsTheGuard,
       MarkingHasRuntime, NoTaskOutlivesItsRun, ReadyHasARun
<1> QED BY <1>2, <1>3

(* The steps that store to READY, announce it, or wait for who announces. *)
LEMMA ReadySteps ==
  ASSUME Safety, NEW t \in Starters,
         \/ ResetReady(t) \/ MarkReadyStore(t) \/ MarkReadyEmit(t)
         \/ DropRuntime(t) \/ DropReady(t)
  PROVE  Safety'
<1> USE ThreadsAssumption
<1>1. TypeOK'
  BY DEF Safety, TypeOK, ResetReady, MarkReadyStore, MarkReadyEmit,
         DropRuntime, DropReady
<1>2. CASE ResetReady(t) \/ DropReady(t)
  <2>1. /\ RUNNING' = RUNNING /\ ~READY'
        /\ marking' = marking /\ announced' = announced
        /\ \A u \in Starters : pc'[u] \in Guarded <=> pc[u] \in Guarded
        /\ \A u \in Starters : pc[u] \in HasRuntime => pc'[u] \in HasRuntime
    BY <1>2 DEF Safety, TypeOK, ResetReady, DropReady
  <2> QED
    BY <1>1, <2>1 DEF Safety, TypeOK, OneRun, RunningIsTheGuard,
       MarkingHasRuntime, NoTaskOutlivesItsRun, ReadyHasARun
<1>3. CASE MarkReadyStore(t) \/ MarkReadyEmit(t)
  <2>1. /\ RUNNING' = RUNNING /\ pc' = pc /\ pc[t] \in HasRuntime
        /\ marking' \subseteq marking \cup {t}
        /\ announced' \subseteq announced \cup {t}
    BY <1>3 DEF Safety, MarkingHasRuntime, MarkReadyStore, MarkReadyEmit
  <2> QED
    BY <1>1, <2>1 DEF Safety, TypeOK, OneRun, RunningIsTheGuard,
       MarkingHasRuntime, NoTaskOutlivesItsRun, ReadyHasARun
<1>4. CASE DropRuntime(t)
  <2>1. /\ RUNNING' = RUNNING /\ READY' = READY
        /\ marking' = marking /\ announced' = announced /\ t \notin marking
        /\ pc[t] = "dropRuntime" /\ pc'[t] = "dropRunning"
        /\ \A u \in Starters \ {t} : pc'[u] = pc[u]
    BY <1>4 DEF Safety, TypeOK, DropRuntime
  <2> QED
    BY <1>1, <2>1 DEF Safety, TypeOK, OneRun, RunningIsTheGuard,
       MarkingHasRuntime, NoTaskOutlivesItsRun, ReadyHasARun
<1> QED BY <1>2, <1>3, <1>4

(* CoreEnds moves a run from the select! to the drop of its runtime. *)
LEMMA CoreEndsStep ==
  ASSUME Safety, NEW t \in Starters, NEW c \in {0, -2, -3}, CoreEnds(t, c)
  PROVE  Safety'
<1> USE ThreadsAssumption
<1>1. TypeOK'
  BY DEF Safety, TypeOK, CoreEnds
<1>2. /\ RUNNING' = RUNNING /\ READY' = READY
      /\ marking' = marking /\ announced' = announced
      /\ pc[t] \in InSelect /\ pc'[t] = "dropRuntime"
      /\ \A u \in Starters \ {t} : pc'[u] = pc[u]
  BY DEF Safety, TypeOK, CoreEnds
<1> QED
  BY <1>1, <1>2 DEF Safety, TypeOK, OneRun, RunningIsTheGuard,
     MarkingHasRuntime, NoTaskOutlivesItsRun, ReadyHasARun

(* A stopper moves no starter and neither RUNNING nor READY. *)
LEMMA StopperSteps ==
  ASSUME Safety, NEW s \in Stoppers,
         StopLoad(s) \/ StopNotRunning(s) \/ StopStore(s) \/ StopNotify(s)
  PROVE  Safety'
<1> USE ThreadsAssumption
<1> USE DEF StopLoad, StopNotRunning, StopStore, StopNotify, vars
<1>1. woken' \subseteq Starters /\ stored' \subseteq Starters
  BY DEF Safety, TypeOK
<1>2. /\ pc' \in [Starters \cup Stoppers -> StarterPC \cup StopperPC]
      /\ \A u \in Starters : pc'[u] = pc[u]
      /\ \A u \in Stoppers : pc'[u] \in StopperPC
  BY DEF Safety, TypeOK
<1>3. /\ RUNNING' = RUNNING /\ READY' = READY /\ STOP_REQUESTED' \in BOOLEAN
      /\ marking' = marking /\ announced' = announced /\ code' = code
  BY DEF Safety, TypeOK
<1> HIDE DEF StopLoad, StopNotRunning, StopStore, StopNotify, vars
<1>4. TypeOK'
  BY <1>1, <1>2, <1>3 DEF Safety, TypeOK
<1> QED
  BY <1>2, <1>3, <1>4 DEF Safety, TypeOK, OneRun, RunningIsTheGuard,
     MarkingHasRuntime, NoTaskOutlivesItsRun, ReadyHasARun

LEMMA NextSafety == Safety /\ [Next]_vars => Safety'
<1> SUFFICES ASSUME Safety, [Next]_vars PROVE Safety'
  OBVIOUS
<1>1. CASE UNCHANGED vars
  BY <1>1 DEF vars, Safety, TypeOK, OneRun, RunningIsTheGuard,
     MarkingHasRuntime, NoTaskOutlivesItsRun, ReadyHasARun
<1>2. ASSUME NEW t \in Starters,
             \/ StartCall(t) \/ StarterProceeds(t)
             \/ MarkReadyStore(t) \/ MarkReadyEmit(t)
             \/ \E c \in {0, -2, -3} : CoreEnds(t, c)
      PROVE  Safety'
  BY <1>2, StarterKeepsRegion, GuardSteps, ReadySteps, CoreEndsStep
     DEF StarterProceeds
<1>3. ASSUME NEW s \in Stoppers,
             StopLoad(s) \/ StopNotRunning(s) \/ StopperProceeds(s)
      PROVE  Safety'
  BY <1>3, StopperSteps DEF StopperProceeds
<1> QED
  BY <1>1, <1>2, <1>3 DEF Next

(* The runs that have reset STOP_REQUESTED and not yet dropped the runtime. *)
AfterReset == {"resetReady", "build"} \cup HasRuntime

(* Only the run that holds the guard resets the request, so what it reads  *)
(* afterwards was stored by a stop that found the guard held.              *)
LEMMA NextNoStaleStop == Safety /\ NoStaleStop /\ [Next]_vars => NoStaleStop'
<1> SUFFICES ASSUME Safety, NoStaleStop, [Next]_vars,
                    NEW t \in Starters, pc'[t] \in AfterReset, STOP_REQUESTED'
             PROVE  t \in stored'
  BY DEF NoStaleStop, AfterReset
<1> USE ThreadsAssumption DEF AfterReset
<1>1. CASE UNCHANGED vars
  BY <1>1 DEF vars, NoStaleStop
<1>2. ASSUME NEW u \in Starters, ResetStop(u) PROVE t \in stored'
  BY <1>2 DEF ResetStop
<1>3. ASSUME NEW u \in Starters, DropRunning(u) PROVE t \in stored'
  BY <1>3 DEF Safety, TypeOK, NoStaleStop, DropRunning
<1>4. ASSUME NEW u \in Starters, StartCall(u) \/ RejectOptions(u)
               \/ AcceptOptions(u) \/ ClaimRunning(u) \/ AlreadyRunning(u)
               \/ ResetReady(u) \/ RuntimeFails(u) \/ RuntimeBuilt(u)
      PROVE t \in stored'
  <2>1. CASE StartCall(u) \/ RejectOptions(u) \/ AcceptOptions(u)
    BY <1>4, <2>1 DEF Safety, TypeOK, NoStaleStop, StartCall, RejectOptions, AcceptOptions
  <2>2. CASE ClaimRunning(u) \/ AlreadyRunning(u)
    BY <1>4, <2>2 DEF Safety, TypeOK, NoStaleStop, ClaimRunning, AlreadyRunning
  <2>3. CASE ResetReady(u) \/ RuntimeFails(u) \/ RuntimeBuilt(u)
    BY <1>4, <2>3 DEF Safety, TypeOK, NoStaleStop, ResetReady, RuntimeFails, RuntimeBuilt
  <2> QED
    BY <1>4, <2>1, <2>2, <2>3
<1>5. ASSUME NEW u \in Starters, Register(u) \/ CheckFindsStop(u)
               \/ CheckFindsNoStop(u) \/ Wake(u) \/ MarkReadyStore(u)
               \/ MarkReadyEmit(u) \/ DropRuntime(u) \/ DropReady(u)
      PROVE t \in stored'
  BY <1>5 DEF Safety, TypeOK, NoStaleStop, Register, CheckFindsStop,
     CheckFindsNoStop, Wake, MarkReadyStore, MarkReadyEmit, DropRuntime,
     DropReady
<1>6. ASSUME NEW u \in Starters, NEW c \in {0, -2, -3}, CoreEnds(u, c)
      PROVE t \in stored'
  BY <1>6 DEF Safety, TypeOK, NoStaleStop, CoreEnds
<1>7. ASSUME NEW s \in Stoppers, StopLoad(s) \/ StopNotRunning(s) \/ StopNotify(s)
      PROVE t \in stored'
  BY <1>7 DEF Safety, TypeOK, NoStaleStop, StopLoad, StopNotRunning,
     StopNotify, vars
<1>8. ASSUME NEW s \in Stoppers, StopStore(s) PROVE t \in stored'
  BY <1>8 DEF Safety, TypeOK, StopStore
<1> QED
  BY <1>1, <1>2, <1>3, <1>4, <1>5, <1>6, <1>7, <1>8
     DEF Next, StarterProceeds, StopperProceeds

(* Every reachable state of the C ABI satisfies the inductive invariant. *)
THEOREM FfiSafety == Spec => []Safety
  BY InitSafety, NextSafety, PTL DEF Spec

(* The flags and the program counters keep their types. *)
THEOREM FfiTypeOK == Spec => []TypeOK
  BY FfiSafety, PTL DEF Safety

(* However many threads call aether_start_json, the compare_exchange and   *)
(* the guard's drop let at most one tunnel exist.                          *)
THEOREM FfiOneRun == Spec => []OneRun
  BY FfiSafety, PTL DEF Safety

(* aether_is_running() is true exactly while a run holds the guard. *)
THEOREM FfiRunningIsTheGuard == Spec => []RunningIsTheGuard
  BY FfiSafety, PTL DEF Safety

(* No task of a run is alive, and none of its announcements stands, once   *)
(* RUNNING has gone false.                                                 *)
THEOREM FfiNoTaskOutlivesItsRun == Spec => []NoTaskOutlivesItsRun
  BY FfiSafety, PTL DEF Safety

(* READY is never left standing by a run that has completed its return. *)
THEOREM FfiReadyHasARun == Spec => []ReadyHasARun
  BY FfiSafety, PTL DEF Safety

(* No run of the core is ended by a stop request left over from before it  *)
(* claimed RUNNING.                                                        *)
THEOREM FfiNoStaleStop == Spec => []NoStaleStop
<1>1. Init => NoStaleStop
  BY DEF Init, NoStaleStop
<1> QED
  BY <1>1, FfiSafety, NextNoStaleStop, PTL DEF Spec
=============================================================================
