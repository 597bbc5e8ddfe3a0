------------------------------ MODULE AetherFfi ------------------------------
(***************************************************************************)
(* The C ABI of the Rust core, core/aether/src/ffi.rs: the process-wide    *)
(* flags RUNNING, READY and STOP_REQUESTED, the STOP_NOTIFY wake-up, and   *)
(* the calls that move them, one atomic operation per step.                *)
(*                                                                         *)
(* A starter is a thread that calls aether_start_json[_with_tun]: the      *)
(* service's worker, the chain-outer thread.  A stopper is a thread that   *)
(* calls aether_stop: the main thread, the ladder scheduler, the core's    *)
(* event thread.  Each may call again as soon as it has returned.          *)
(*                                                                         *)
(* One variable records history and guides no step: stored.                *)
(***************************************************************************)
EXTENDS Integers

CONSTANTS Starters, Stoppers

ASSUME ThreadsAssumption == Starters \cap Stoppers = {}

VARIABLES
    RUNNING,          \* static RUNNING: AtomicBool
    READY,            \* static READY: AtomicBool
    STOP_REQUESTED,   \* static STOP_REQUESTED: AtomicBool
    pc,               \* where each thread is
    woken,            \* starters whose Notified future has been notified
    code,             \* what each starter's call returns (NoCode while it runs)
    marking,          \* starters with a task between mark_ready's store and its event
    announced,        \* starters whose run has emitted "connected"
    stored            \* runs during which an aether_stop stored its request

flags == <<RUNNING, READY, STOP_REQUESTED>>
vars == <<flags, pc, woken, code, marking, announced, stored>>

NoCode == 1
Codes == {0, -1, -2, -3}

(* Between the compare_exchange and block_on. *)
Preamble == {"resetStop", "resetReady", "build"}
(* Inside block_on's select!: where the wait_for_stop() branch is. *)
InSelect == {"register", "check", "await"}
(* The tokio runtime exists, with the tunnel's tasks on it. *)
HasRuntime == InSelect \cup {"dropRuntime"}
(* The RunningGuard exists and has not stored to RUNNING yet. *)
Guarded == Preamble \cup HasRuntime \cup {"dropRunning"}

StarterPC == {"idle", "parse", "cas", "dropReady"} \cup Guarded
StopperPC == {"idle", "store", "notify"}

Goto(t, label) == pc' = [pc EXCEPT ![t] = label]

Init ==
    /\ RUNNING = FALSE
    /\ READY = FALSE
    /\ STOP_REQUESTED = FALSE
    /\ pc = [t \in Starters \cup Stoppers |-> "idle"]
    /\ woken = {}
    /\ code = [t \in Starters |-> NoCode]
    /\ marking = {}
    /\ announced = {}
    /\ stored = {}

-----------------------------------------------------------------------------
(* aether_start_json_inner, in program order *)

StartCall(t) ==
    /\ pc[t] = "idle"
    /\ Goto(t, "parse")
    /\ code' = [code EXCEPT ![t] = NoCode]
    /\ UNCHANGED <<flags, woken, marking, announced, stored>>

(* options_from_json fails: -1 before any flag is touched. *)
RejectOptions(t) ==
    /\ pc[t] = "parse"
    /\ Goto(t, "idle")
    /\ code' = [code EXCEPT ![t] = -1]
    /\ UNCHANGED <<flags, woken, marking, announced, stored>>

AcceptOptions(t) ==
    /\ pc[t] = "parse"
    /\ Goto(t, "cas")
    /\ UNCHANGED <<flags, woken, code, marking, announced, stored>>

(* Mutant: the claim as a load and a store, so two calls find it free. *)
ClaimWithoutCas(t) ==
    /\ pc[t] = "cas"
    /\ Goto(t, "resetStop")
    /\ RUNNING' = TRUE
    /\ UNCHANGED <<READY, STOP_REQUESTED, woken, code, marking, announced, stored>>

(* RUNNING.compare_exchange(false, true) succeeds. *)
ClaimRunning(t) ==
    /\ pc[t] = "cas"
    /\ ~RUNNING
    /\ RUNNING' = TRUE
    /\ Goto(t, "resetStop")
    /\ UNCHANGED <<READY, STOP_REQUESTED, woken, code, marking, announced, stored>>

(* Mutant: a code of its own for a second start. *)
AlreadyRunningOtherCode(t) ==
    /\ pc[t] = "cas"
    /\ RUNNING
    /\ Goto(t, "idle")
    /\ code' = [code EXCEPT ![t] = -4]
    /\ UNCHANGED <<flags, woken, marking, announced, stored>>

(* RUNNING.compare_exchange fails: "Aether tunnel already running". *)
AlreadyRunning(t) ==
    /\ pc[t] = "cas"
    /\ RUNNING
    /\ Goto(t, "idle")
    /\ code' = [code EXCEPT ![t] = -2]
    /\ UNCHANGED <<flags, woken, marking, announced, stored>>

(* Mutant: the old stop request is not reset. *)
SkipResetStop(t) ==
    /\ pc[t] = "resetStop"
    /\ Goto(t, "resetReady")
    /\ UNCHANGED <<flags, woken, code, marking, announced, stored>>

ResetStop(t) ==
    /\ pc[t] = "resetStop"
    /\ STOP_REQUESTED' = FALSE
    /\ Goto(t, "resetReady")
    /\ UNCHANGED <<RUNNING, READY, woken, code, marking, announced, stored>>

ResetReady(t) ==
    /\ pc[t] = "resetReady"
    /\ READY' = FALSE
    /\ Goto(t, "build")
    /\ UNCHANGED <<RUNNING, STOP_REQUESTED, woken, code, marking, announced, stored>>

RuntimeFails(t) ==
    /\ pc[t] = "build"
    /\ Goto(t, "dropRunning")
    /\ code' = [code EXCEPT ![t] = -2]
    /\ UNCHANGED <<flags, woken, marking, announced, stored>>

RuntimeBuilt(t) ==
    /\ pc[t] = "build"
    /\ Goto(t, "register")
    /\ UNCHANGED <<flags, woken, code, marking, announced, stored>>

-----------------------------------------------------------------------------
(* The two branches of the select!: wait_for_stop() and crate::start() *)

(* let notified = stop_notify().notified(): a future that every later      *)
(* notify_waiters() completes, polled or not.                              *)
Register(t) ==
    /\ pc[t] = "register"
    /\ woken' = woken \ {t}
    /\ Goto(t, "check")
    /\ UNCHANGED <<flags, code, marking, announced, stored>>

(* STOP_REQUESTED is set: the branch returns, the select! yields 0. *)
CheckFindsStop(t) ==
    /\ pc[t] = "check"
    /\ STOP_REQUESTED
    /\ code' = [code EXCEPT ![t] = 0]
    /\ Goto(t, "dropRuntime")
    /\ UNCHANGED <<flags, woken, marking, announced, stored>>

CheckFindsNoStop(t) ==
    /\ pc[t] = "check"
    /\ ~STOP_REQUESTED
    /\ Goto(t, "await")
    /\ UNCHANGED <<flags, woken, code, marking, announced, stored>>

(* notified.await completes and the loop goes round. *)
Wake(t) ==
    /\ pc[t] = "await"
    /\ t \in woken
    /\ Goto(t, "register")
    /\ UNCHANGED <<flags, woken, code, marking, announced, stored>>

(* crate::start() finishes first: Ok is 0, Err is -2, a panic is -3.  The  *)
(* two branches share one task, so it cannot finish in the middle of a     *)
(* poll of the other.                                                      *)
CoreEnds(t, c) ==
    /\ pc[t] \in {"register", "await"}
    /\ code' = [code EXCEPT ![t] = c]
    /\ Goto(t, "dropRuntime")
    /\ UNCHANGED <<flags, woken, marking, announced, stored>>

(* mark_ready(), from any task of the runtime: the store, then the event. *)
MarkReadyStore(t) ==
    /\ pc[t] \in HasRuntime
    /\ t \notin marking
    /\ READY' = TRUE
    /\ marking' = marking \cup {t}
    /\ UNCHANGED <<RUNNING, STOP_REQUESTED, pc, woken, code, announced, stored>>

MarkReadyEmit(t) ==
    /\ t \in marking
    /\ marking' = marking \ {t}
    /\ announced' = announced \cup {t}
    /\ UNCHANGED <<flags, pc, woken, code, stored>>

-----------------------------------------------------------------------------
(* The way out: locals are dropped in reverse order of declaration, the    *)
(* runtime (which joins its tasks) first and the RunningGuard last.        *)

(* Mutant: the runtime is abandoned (shutdown_background), not joined. *)
AbandonRuntime(t) ==
    /\ pc[t] = "dropRuntime"
    /\ Goto(t, "dropRunning")
    /\ UNCHANGED <<flags, woken, code, marking, announced, stored>>

DropRuntime(t) ==
    /\ pc[t] = "dropRuntime"
    /\ t \notin marking
    /\ Goto(t, "dropRunning")
    /\ UNCHANGED <<flags, woken, code, marking, announced, stored>>

(* RunningGuard::drop, first store; the run is over for every observer. *)
DropRunning(t) ==
    /\ pc[t] = "dropRunning"
    /\ RUNNING' = FALSE
    /\ Goto(t, "dropReady")
    /\ announced' = announced \ {t}
    /\ stored' = stored \ {t}
    /\ UNCHANGED <<READY, STOP_REQUESTED, woken, code, marking>>

(* Mutant: the guard clears RUNNING only. *)
ForgetReady(t) ==
    /\ pc[t] = "dropReady"
    /\ Goto(t, "idle")
    /\ UNCHANGED <<flags, woken, code, marking, announced, stored>>

(* RunningGuard::drop, second store. *)
DropReady(t) ==
    /\ pc[t] = "dropReady"
    /\ READY' = FALSE
    /\ Goto(t, "idle")
    /\ UNCHANGED <<RUNNING, STOP_REQUESTED, woken, code, marking, announced, stored>>

-----------------------------------------------------------------------------
(* aether_stop *)

(* RUNNING is false: 0, and nothing is recorded for a later run. *)
StopNotRunning(s) ==
    /\ pc[s] = "idle"
    /\ ~RUNNING
    /\ UNCHANGED vars

StopLoad(s) ==
    /\ pc[s] = "idle"
    /\ RUNNING
    /\ Goto(s, "store")
    /\ UNCHANGED <<flags, woken, code, marking, announced, stored>>

StopStore(s) ==
    /\ pc[s] = "store"
    /\ STOP_REQUESTED' = TRUE
    /\ Goto(s, "notify")
    /\ stored' = stored \cup {t \in Starters : pc[t] \in Guarded}
    /\ UNCHANGED <<RUNNING, READY, woken, code, marking, announced>>

(* Mutant: the flag is set and nobody is woken. *)
StopWithoutNotify(s) ==
    /\ pc[s] = "notify"
    /\ Goto(s, "idle")
    /\ UNCHANGED <<flags, woken, code, marking, announced, stored>>

(* notify_waiters() completes every Notified that exists; the call then    *)
(* returns 1.                                                              *)
StopNotify(s) ==
    /\ pc[s] = "notify"
    /\ woken' = woken \cup {t \in Starters : pc[t] \in {"check", "await"}}
    /\ Goto(s, "idle")
    /\ UNCHANGED <<flags, code, marking, announced, stored>>

-----------------------------------------------------------------------------
(* The steps a started call takes by itself. *)
StarterProceeds(t) ==
    \/ RejectOptions(t) \/ AcceptOptions(t)
    \/ ClaimRunning(t) \/ AlreadyRunning(t)
    \/ ResetStop(t) \/ ResetReady(t)
    \/ RuntimeFails(t) \/ RuntimeBuilt(t)
    \/ Register(t) \/ CheckFindsStop(t) \/ CheckFindsNoStop(t) \/ Wake(t)
    \/ DropRuntime(t) \/ DropRunning(t) \/ DropReady(t)

StopperProceeds(s) == StopStore(s) \/ StopNotify(s)

Next ==
    \/ \E t \in Starters :
        \/ StartCall(t)
        \/ StarterProceeds(t)
        \/ MarkReadyStore(t)
        \/ MarkReadyEmit(t)
        \/ \E c \in {0, -2, -3} : CoreEnds(t, c)
    \/ \E s \in Stoppers :
        \/ StopLoad(s)
        \/ StopNotRunning(s)
        \/ StopperProceeds(s)

(* A thread that has entered a call goes on; nobody has to call, and the   *)
(* tunnel itself may run for ever.  A runtime that shuts down polls no     *)
(* task twice, so tasks that announce cannot hold its drop off for ever.   *)
Fairness ==
    /\ \A t \in Starters : WF_vars(StarterProceeds(t))
    /\ \A t \in Starters : WF_vars(MarkReadyEmit(t))
    /\ \A t \in Starters : SF_vars(DropRuntime(t))
    /\ \A s \in Stoppers : WF_vars(StopperProceeds(s))

Spec == Init /\ [][Next]_vars
FairSpec == Spec /\ Fairness

-----------------------------------------------------------------------------
(* The flags, the threads' places and the history stay within the values   *)
(* the calls give them; what a start returns is one of its codes.          *)
TypeOK ==
    /\ RUNNING \in BOOLEAN
    /\ READY \in BOOLEAN
    /\ STOP_REQUESTED \in BOOLEAN
    /\ pc \in [Starters \cup Stoppers -> StarterPC \cup StopperPC]
    /\ \A t \in Starters : pc[t] \in StarterPC
    /\ \A s \in Stoppers : pc[s] \in StopperPC
    /\ woken \subseteq Starters
    /\ code \in [Starters -> Codes \cup {NoCode}]
    /\ marking \subseteq Starters
    /\ announced \subseteq Starters
    /\ stored \subseteq Starters

(* At most one call of aether_start_json is between its compare_exchange   *)
(* and its guard's drop: two tunnels never exist at once, although the     *)
(* callers are several threads and a run outlives the stop that ended it.  *)
OneRun ==
    \A t, u \in Starters : pc[t] \in Guarded /\ pc[u] \in Guarded => t = u

(* aether_is_running() answers exactly "some run holds the guard". *)
RunningIsTheGuard ==
    RUNNING <=> \E t \in Starters : pc[t] \in Guarded

(* The tunnel's tasks are gone before RUNNING reads false: no task of an   *)
(* old run can call mark_ready(), and report "connected", when another     *)
(* start may already have been let in.                                     *)
NoTaskOutlivesItsRun ==
    \A t \in Starters : t \in marking \cup announced => pc[t] \in Guarded

(* aether_is_ready() is never left true by a run that is gone: when READY  *)
(* reads true, a run is alive or its guard is about to clear the flag.     *)
ReadyHasARun ==
    READY => \E t \in Starters : pc[t] \in Guarded \cup {"dropReady"}

(* A run is never ended by a request made before it started: past the      *)
(* reset, a STOP_REQUESTED it reads was stored while it held the guard.    *)
NoStaleStop ==
    \A t \in Starters :
        pc[t] \in {"resetReady", "build"} \cup HasRuntime /\ STOP_REQUESTED
            => t \in stored

(* Once the select! is polled, a stop request is not lost between the test *)
(* of STOP_REQUESTED and the wait: the run leaves the select!.             *)
StopIsHeard ==
    \A t \in Starters :
        (pc[t] \in InSelect /\ STOP_REQUESTED) ~> (pc[t] \notin InSelect)
=============================================================================
