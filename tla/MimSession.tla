----------------------------- MODULE MimSession -----------------------------
(***************************************************************************)
(* run_mim (main.rs): one MASQUE tunnel inside another.  The outer hop is   *)
(* the edge that worked before, or one select_peer finds; through it the    *)
(* inner hop walks a short list of other edges.  A failure is blamed on one *)
(* hop: only an outer edge that failed MAX_OUTER_FAILS times is replaced.   *)
(*                                                                          *)
(* The identities are loaded (Identity) before this begins.  The network    *)
(* says over which transports an edge is reached as an outer hop, and which *)
(* inner edges an outer hop carries.                                        *)
(***************************************************************************)
EXTENDS Lists, SequencesExt

CONSTANTS Edges, NoEdge, Torn,
          GatewayPeers,     \* masque_gateway_peers(), every address once
          Users,            \* settings [h2, forced, quick, cache] to try
          Networks,         \* network states [reach, carries] to try
          MaxOuterFails,    \* MAX_OUTER_FAILS
          InnerTries,       \* MIM_INNER_TRIES
          MaxCached,        \* MAX_CACHED_MASQUE_GATEWAYS
          WarmEnough,       \* MASQUE_CACHE_WARM_ENOUGH
          MaxTopUps         \* bound: more background scans than this count as this many

ASSUME MimAssumption ==
    /\ GatewayPeers \in Seq(Edges) /\ Cardinality(ToSet(GatewayPeers)) >= 2
    /\ NoEdge \notin Edges /\ Torn \notin Edges
    /\ Users \subseteq [h2 : BOOLEAN, forced : Edges \cup {NoEdge}, quick : BOOLEAN,
                       cache : BOOLEAN]
    /\ {MaxOuterFails, InnerTries, MaxCached, MaxTopUps} \subseteq Nat \ {0}

VARIABLES pc, user, net,
          fallback,   \* H2_FALLBACK
          cachedPeer, lastPeer, lastInner, outerFails,
          lastconn,   \* the mim-lastconn file
          cache,      \* the gateway cache, fastest first
          topUps,     \* running spawn_masque_cache_refresh tasks
          peer,       \* the outer edge of this round
          inners,     \* the inner edges still to be tried
          inner,      \* the inner edge that carries the session
          outerUp,    \* is the outer hop of this round alive
          checked,    \* the edge last seen to answer, NoEdge once it was given up
          tried       \* has this session tried a tunnel

vars == <<pc, user, net, fallback, cachedPeer, lastPeer, lastInner, outerFails, lastconn, cache,
          topUps, peer, inners, inner, outerUp, checked, tried>>

Transport == IF user.h2 \/ fallback THEN "h2" ELSE "h3"
Answers(e) == Transport \in net.reach[e]

-----------------------------------------------------------------------------
(* Mutant: the old entry of the edge is not removed. *)
cache_masque_gateway_Twice(e, place) ==
    Take(InsertAt(cache, place, e), MaxCached)

(* cache_masque_gateway: an edge is moved to the place its round-trip time  *)
(* gives it, and the slowest beyond the limit are dropped.                  *)
Others(e) == Picked(cache, {i \in 1..Len(cache) : cache[i] # e})
cache_masque_gateway(e, place) == Take(InsertAt(Others(e), place, e), MaxCached)

Cached(e) ==
    \E place \in 1..(Len(Others(e)) + 1) : cache' = cache_masque_gateway(e, place)

(* spawn_masque_cache_refresh, after the edge was cached.                   *)
TopUp == topUps' = IF user.cache /\ Len(cache') < WarmEnough /\ topUps < MaxTopUps
                   THEN topUps + 1 ELSE topUps

(* inner_masque_candidates, the remembered inner edge first; the outer edge *)
(* itself is never tried.                                                   *)
inner_masque_candidates(outer) ==
    LET all == cache \o GatewayPeers
    IN Take(Picked(all, {i \in FirstSeen(all) : all[i] # outer}), InnerTries)

candidates(outer) ==
    LET pool == inner_masque_candidates(outer)
    IN IF lastInner \in Edges \ (ToSet(pool) \cup {outer}) THEN <<lastInner>> \o pool ELSE pool

(* join_outcome: a tunnel task that returned is an error, however it ended. *)
join_outcome(ended) == "Err"

-----------------------------------------------------------------------------
(* start() clears an old fallback, and load_cached_mim_peer verifies the    *)
(* remembered outer edge.                                                   *)
Begin ==
    /\ pc = "off"
    /\ fallback' = FALSE
    /\ cachedPeer' = IF /\ user.forced = NoEdge /\ user.quick /\ lastconn \in Edges
                        /\ (IF user.h2 THEN "h2" ELSE "h3") \in net.reach[lastconn]
                     THEN lastconn ELSE NoEdge
    /\ checked' = cachedPeer'
    /\ pc' = "loop"
    /\ UNCHANGED <<user, net, lastPeer, lastInner, outerFails, lastconn, cache, topUps, peer,
                   inners, inner, outerUp, tried>>

Use(e) == peer' = e /\ pc' = "use"

(* Mutant: off by one, the edge is given one more try. *)
Choose_OnceMore ==
    /\ pc = "loop"
    /\ LET known == IF lastPeer # NoEdge THEN lastPeer ELSE cachedPeer IN
       \/ /\ outerFails <= MaxOuterFails /\ known # NoEdge
          /\ Use(known)
          /\ UNCHANGED <<cachedPeer, outerFails>>
       \/ /\ outerFails > MaxOuterFails \/ known = NoEdge
          /\ cachedPeer' = IF outerFails >= MaxOuterFails THEN NoEdge ELSE cachedPeer
          /\ IF user.forced # NoEdge
             THEN Use(user.forced) /\ outerFails' = 0
             ELSE pc' = "select" /\ UNCHANGED <<peer, outerFails>>
    /\ UNCHANGED <<user, net, fallback, lastPeer, lastInner, lastconn, cache, topUps, inners,
                   inner, outerUp, checked, tried>>

(* The head of the loop: the edge of the last round or the cached one,      *)
(* until it has failed too often.                                           *)
Choose ==
    /\ pc = "loop"
    /\ LET known == IF lastPeer # NoEdge THEN lastPeer ELSE cachedPeer IN
       \/ /\ outerFails < MaxOuterFails /\ known # NoEdge
          /\ Use(known)
          /\ UNCHANGED <<cachedPeer, outerFails>>
       \/ /\ outerFails >= MaxOuterFails \/ known = NoEdge
          /\ cachedPeer' = IF outerFails >= MaxOuterFails THEN NoEdge ELSE cachedPeer
          /\ IF user.forced # NoEdge
             THEN Use(user.forced) /\ outerFails' = 0
             ELSE pc' = "select" /\ UNCHANGED <<peer, outerFails>>
    /\ UNCHANGED <<user, net, fallback, lastPeer, lastInner, lastconn, cache, topUps, inners,
                   inner, outerUp, checked, tried>>

(* Mutant: a new edge starts with the failures of the old one. *)
Select_NoReset(e) ==
    /\ Use(e) /\ checked' = e /\ UNCHANGED outerFails
    /\ Cached(e) /\ TopUp

(* select_peer found an outer edge: it is cached, and the cache topped up.  *)
Select(e) ==
    /\ Use(e) /\ checked' = e /\ outerFails' = 0
    /\ Cached(e) /\ TopUp

(* The cached gateways first, when the user wants them. *)
SelectCached ==
    /\ pc = "select"
    /\ LET found == IF user.cache THEN {e \in ToSet(cache) : Answers(e)} ELSE {} IN
       \/ \E e \in found : Select(e)
       \/ /\ found = {} /\ pc' = "hunt"
          /\ UNCHANGED <<peer, checked, outerFails, cache, topUps>>
    /\ UNCHANGED <<user, net, fallback, cachedPeer, lastPeer, lastInner, lastconn, inners, inner,
                   outerUp, tried>>

SelectHunt ==
    /\ pc = "hunt"
    /\ LET found == {e \in Edges : Answers(e)} IN
       \/ \E e \in found : Select(e) /\ UNCHANGED fallback
       \/ /\ found = {}
          /\ IF Transport = "h2" THEN pc' = "sleep" /\ UNCHANGED fallback
             ELSE pc' = "anycast" /\ fallback' = TRUE
          /\ UNCHANGED <<peer, checked, outerFails, cache, topUps>>
    /\ UNCHANGED <<user, net, cachedPeer, lastPeer, lastInner, lastconn, inners, inner, outerUp,
                   tried>>

SelectAnycast ==
    /\ pc = "anycast"
    /\ LET found == {e \in ToSet(GatewayPeers) : Answers(e)} IN
       \/ \E e \in found : Select(e) /\ UNCHANGED fallback
       \/ /\ found = {} /\ pc' = "sleep" /\ fallback' = FALSE
          /\ UNCHANGED <<peer, checked, outerFails, cache, topUps>>
    /\ UNCHANGED <<user, net, cachedPeer, lastPeer, lastInner, lastconn, inners, inner, outerUp,
                   tried>>

(* lastconn::save, written in place, unless forced; then the inner edges to *)
(* try, of which the pool always has one.                                   *)
Remember ==
    /\ pc = "use"
    /\ \/ user.forced = NoEdge /\ lastconn' = Torn /\ pc' = "saving"
       \/ UNCHANGED lastconn /\ pc' = "outer"
    /\ lastPeer' = peer /\ inners' = candidates(peer) /\ tried' = TRUE
    /\ UNCHANGED <<user, net, fallback, cachedPeer, lastInner, outerFails, cache, topUps, peer,
                   inner, outerUp, checked>>

Remembered ==
    /\ pc = "saving"
    /\ lastconn' = peer /\ pc' = "outer"
    /\ UNCHANGED <<user, net, fallback, cachedPeer, lastPeer, lastInner, outerFails, cache,
                   topUps, peer, inners, inner, outerUp, checked, tried>>

-----------------------------------------------------------------------------
(* Mutant: nothing is counted against the outer edge. *)
BlameOuter_Forgiven == UNCHANGED <<outerFails, lastInner, checked>>

(* Mutant: no pause between two sessions. *)
EndSession_NoPause == pc' = "loop" /\ inners' = <<>> /\ inner' = NoEdge /\ outerUp' = FALSE

(* The two verdicts of run_masque_in_masque, and what run_mim does on each. *)
BlameOuter == /\ outerFails' = outerFails + 1 /\ UNCHANGED lastInner
              /\ checked' = IF outerFails' >= MaxOuterFails THEN NoEdge ELSE checked
BlameInner == lastInner' = NoEdge /\ UNCHANGED <<outerFails, checked>>
EndSession == pc' = "sleep" /\ inners' = <<>> /\ inner' = NoEdge /\ outerUp' = FALSE

RaiseOuter ==
    /\ pc = "outer"
    /\ \/ /\ Answers(peer)
          /\ pc' = "inner" /\ outerUp' = TRUE
          /\ UNCHANGED <<outerFails, lastInner, checked, inners, inner>>
       \/ /\ ~Answers(peer)
          /\ BlameOuter /\ EndSession
    /\ UNCHANGED <<user, net, fallback, cachedPeer, lastPeer, lastconn, cache, topUps, peer,
                   tried>>

(* One inner edge after another.  An outer hop that died in the meantime is *)
(* noticed only as edges that do not answer.                                *)
TryInner ==
    /\ pc = "inner" /\ inners # <<>>
    /\ IF outerUp /\ Head(inners) \in net.carries[peer]
       THEN pc' = "up" /\ inner' = Head(inners) /\ inners' = <<>>
       ELSE inners' = Tail(inners) /\ UNCHANGED <<pc, inner>>
    /\ UNCHANGED <<user, net, fallback, cachedPeer, lastPeer, lastInner, outerFails, lastconn,
                   cache, topUps, peer, outerUp, checked, tried>>

(* Mutant: an inner pool that fails counts against the outer edge. *)
NoInner_BlameOuter ==
    /\ pc = "inner" /\ inners = <<>>
    /\ BlameOuter /\ EndSession
    /\ UNCHANGED <<user, net, fallback, cachedPeer, lastPeer, lastconn, cache, topUps, peer,
                   tried>>

NoInner ==
    /\ pc = "inner" /\ inners = <<>>
    /\ BlameInner /\ EndSession
    /\ UNCHANGED <<user, net, fallback, cachedPeer, lastPeer, lastconn, cache, topUps, peer,
                   tried>>

(* A task of the session ended: the outer hop's, the inner hop's or the     *)
(* local server's.  The select is unbiased: when the outer hop is down the   *)
(* inner hop's end may be seen first.                                       *)
SessionEnds ==
    /\ pc = "up"
    /\ \E winner \in {"Outer", "Inner", "Local"}, ended \in {"Ok", "Err"} :
         /\ winner = "Outer" => ~outerUp
         /\ IF join_outcome(ended) = "Ok"
            THEN lastInner' = inner /\ outerFails' = 0 /\ UNCHANGED checked
            ELSE IF winner = "Outer" THEN BlameOuter ELSE BlameInner
    /\ EndSession
    /\ UNCHANGED <<user, net, fallback, cachedPeer, lastPeer, lastconn, cache, topUps, peer,
                   tried>>

Sleep ==
    /\ pc = "sleep"
    /\ pc' = "loop" /\ peer' = NoEdge
    /\ UNCHANGED <<user, net, fallback, cachedPeer, lastPeer, lastInner, outerFails, lastconn,
                   cache, topUps, inners, inner, outerUp, checked, tried>>

-----------------------------------------------------------------------------
(* The outer hop's task ends on its own; a background scan caches what      *)
(* answers over the transport now in use, or nothing.                       *)
OuterDies ==
    /\ outerUp /\ outerUp' = FALSE
    /\ UNCHANGED <<pc, user, net, fallback, cachedPeer, lastPeer, lastInner, outerFails, lastconn,
                   cache, topUps, peer, inners, inner, checked, tried>>

TopUpDone ==
    /\ topUps > 0 /\ topUps' = topUps - 1
    /\ \/ \E e \in Edges : Answers(e) /\ Cached(e)
       \/ UNCHANGED cache
    /\ UNCHANGED <<pc, user, net, fallback, cachedPeer, lastPeer, lastInner, outerFails, lastconn,
                   peer, inners, inner, outerUp, checked, tried>>

NetworkChanges ==
    /\ net' \in Networks
    /\ UNCHANGED <<pc, user, fallback, cachedPeer, lastPeer, lastInner, outerFails, lastconn,
                   cache, topUps, peer, inners, inner, outerUp, checked, tried>>

(* aether_stop drops the runtime and every task with it.                    *)
Stopped ==
    /\ pc # "off" /\ pc' = "off"
    /\ cachedPeer' = NoEdge /\ lastPeer' = NoEdge /\ lastInner' = NoEdge /\ outerFails' = 0
    /\ topUps' = 0 /\ peer' = NoEdge /\ inners' = <<>> /\ inner' = NoEdge /\ outerUp' = FALSE
    /\ checked' = NoEdge /\ tried' = FALSE
    /\ UNCHANGED <<user, net, fallback, lastconn, cache>>

run_mim == \/ Choose \/ SelectCached \/ SelectHunt \/ SelectAnycast \/ Remember \/ Remembered
           \/ RaiseOuter \/ TryInner \/ NoInner \/ Sleep
           \/ ~outerUp /\ SessionEnds

Init ==
    /\ pc = "off" /\ user \in Users /\ net \in Networks /\ fallback = FALSE
    /\ cachedPeer = NoEdge /\ lastPeer = NoEdge /\ lastInner = NoEdge /\ outerFails = 0
    /\ lastconn \in Edges \cup {NoEdge} /\ cache = <<>> /\ topUps = 0
    /\ peer = NoEdge /\ inners = <<>> /\ inner = NoEdge /\ outerUp = FALSE
    /\ checked = NoEdge /\ tried = FALSE

Next == \/ Begin \/ run_mim \/ SessionEnds \/ OuterDies \/ TopUpDone \/ NetworkChanges \/ Stopped

(* The task runs while the process does; so does a background scan.         *)
Fairness == WF_vars(run_mim) /\ WF_vars(TopUpDone)

Spec == Init /\ [][Next]_vars /\ Fairness

-----------------------------------------------------------------------------
TypeOK ==
    /\ user \in Users /\ net \in Networks /\ fallback \in BOOLEAN
    /\ {cachedPeer, lastPeer, lastInner, peer, inner, checked} \subseteq Edges \cup {NoEdge}
    /\ lastconn \in Edges \cup {NoEdge, Torn}
    /\ cache \in Seq(Edges) /\ inners \in Seq(Edges)
    /\ outerFails \in 0..MaxOuterFails /\ topUps \in 0..MaxTopUps
    /\ outerUp \in BOOLEAN /\ tried \in BOOLEAN

(* Only a hop that failed pays: a healthy outer edge is never counted down   *)
(* because of its inner edges.                                              *)
HealthyOuterKept ==
    [][outerFails' > outerFails => ~outerUp /\ (pc = "outer" => ~Answers(peer))]_vars

(* An outer edge is dialled only if it answered since it was last given up:  *)
(* the memory of the loop, the lastconn file and the cache cannot bring back *)
(* one that failed too often.                                               *)
DialsWhatAnswered ==
    (pc \in {"use", "saving", "outer"} /\ user.forced = NoEdge) => peer = checked

(* The gateway cache never holds an edge twice, nor more than its limit,     *)
(* whoever writes it; and a session never runs through one edge twice.       *)
CacheSound ==
    /\ IsInjective(cache) /\ Len(cache) <= MaxCached
    /\ pc = "up" => inner # peer

(* What run_mim remembers is sound: the fields keep their types, no edge is  *)
(* counted past MAX_OUTER_FAILS, and neither the memory nor the cache leads  *)
(* to an edge it should not.                                                *)
MimSafety == TypeOK /\ DialsWhatAnswered /\ CacheSound

(* When the network settles, every outer edge that answers carries every     *)
(* inner edge, and outer hops stop dying while they are raised, the session  *)
(* gets through again and again until it is stopped.                         *)
Served(e) == net.reach[e] = {"h2", "h3"} /\ net.carries[e] = Edges
Settled == <>[][net' = net]_vars /\ <>[][~(OuterDies /\ pc = "inner")]_vars
Recovers ==
    Settled /\ <>[](/\ \A e \in Edges : net.reach[e] = {} \/ Served(e)
                    /\ \E e \in ToSet(GatewayPeers) : Served(e)
                    /\ (user.forced # NoEdge => Served(user.forced)))
      => []<>(pc \in {"up", "off"})

Phase == CASE pc = "off" -> "idle"
           [] pc \in {"saving", "outer", "inner"} -> "trying"
           [] pc = "up" -> "up"
           [] pc = "sleep" -> "pausing"
           [] OTHER -> "choosing"
Core == INSTANCE CoreSession WITH phase <- Phase

(* run_mim keeps the promise of CoreSession: it gives up only before the     *)
(* first tunnel, and afterwards keeps trying.                               *)
ImplementsCore == Core!CoreSpec

=============================================================================
