------------------------------ MODULE MimProofs ------------------------------
(***************************************************************************)
(* run_mim, proved for every set of edges, every pool, cache size and       *)
(* network: what it remembers and caches stays sound, an outer edge that    *)
(* works is never blamed, and the session is the abstract one.              *)
(*                                                                          *)
(* DialsWhatAnswered is not inductive: the edge of the next round comes     *)
(* from one of two memories, which hold the edge that last answered except  *)
(* between its selection and its being remembered, or after it was given    *)
(* up.  That no edge is cached twice rests on facts about the lists.        *)
(***************************************************************************)
EXTENDS MimSession, FiniteSetTheorems, TLAPS

(* A nonempty set of natural numbers has a least element. *)
LEMMA NatMin ==
    ASSUME NEW S \in SUBSET Nat, S # {}
    PROVE  \E m \in S : \A n \in S : m <= n
<1>1. PICK m \in S : \A n \in S : ~(<<n, m>> \in OpToRel(<, Nat))
  BY NatLessThanWellFounded, WFMin, Zenon
<1>2. \A n \in S : ~(n < m)
  BY <1>1 DEF OpToRel
<1> QED
  BY <1>2

(* The k-th smallest of a set of positions exists: the least bound below     *)
(* which there are k of them is one of them.                                 *)
LEMMA KthSmallest ==
    ASSUME NEW n \in Nat, NEW I \in SUBSET (1..n), NEW k \in 1..Cardinality(I)
    PROVE  \E i \in I : Cardinality({j \in I : j <= i}) = k
<1> DEFINE Upto(b) == {j \in I : j <= b}
           B == {b \in Nat : Cardinality(Upto(b)) >= k}
<1>0. \A j \in I : j \in Nat /\ 1 <= j /\ j <= n
  OBVIOUS
<1>1. \A b \in Nat : IsFiniteSet(Upto(b)) /\ Cardinality(Upto(b)) \in Nat
  <2>1. IsFiniteSet(I)
    <3>1. IsFiniteSet(1..n)
      BY FS_Interval
    <3> QED
      BY <3>1, FS_Subset
  <2>2. \A b \in Nat : Upto(b) \in SUBSET I
    OBVIOUS
  <2> QED
    BY <2>1, <2>2, FS_Subset, FS_CardinalityType
<1>2. Upto(n) = I /\ Upto(0) = {}
  <2>1. \A j \in I : j <= n /\ ~(j <= 0)
    BY <1>0
  <2> QED
    BY <2>1, Zenon
<1>3. n \in B /\ 0 \notin B /\ k \in Nat /\ Cardinality(I) \in Nat
  BY <1>1, <1>2, FS_EmptySet
<1> HIDE DEF Upto
<1>4. PICK m \in B : \A b \in B : m <= b
  BY <1>3, NatMin
<1>5. m \in Nat /\ m - 1 \in Nat /\ m - 1 \notin B
  BY <1>3, <1>4
<1>6. Upto(m) = IF m \in I THEN Upto(m - 1) \cup {m} ELSE Upto(m - 1)
  <2>1. \A j \in I : j <= m <=> (j <= m - 1 \/ j = m)
    BY <1>0, <1>5
  <2> QED
    BY <2>1 DEF Upto
<1>7. m \notin Upto(m - 1)
  BY <1>5 DEF Upto
<1>8. m \in I /\ Cardinality(Upto(m)) = Cardinality(Upto(m - 1)) + 1
  BY <1>1, <1>4, <1>5, <1>6, <1>7, FS_AddElement
<1>9. Cardinality(Upto(m)) = k
  BY <1>1, <1>3, <1>4, <1>5, <1>8
<1> QED
  BY <1>8, <1>9 DEF Upto

(* What is picked comes from a position of its own; nothing is invented, and *)
(* nothing is picked twice from a list that has it once.                     *)
LEMMA PickedFrom ==
    ASSUME NEW P, NEW s \in Seq(P), NEW I \in SUBSET (1..Len(s))
    PROVE  /\ Cardinality(I) \in Nat /\ Cardinality(I) <= Len(s)
           /\ Picked(s, I) \in Seq(P) /\ Len(Picked(s, I)) = Cardinality(I)
           /\ \A k \in 1..Cardinality(I) : \E i \in I : Picked(s, I)[k] = s[i]
           /\ (\A i, j \in 1..Len(s) : s[i] = s[j] => i = j) =>
                \A k, l \in 1..Cardinality(I) : Picked(s, I)[k] = Picked(s, I)[l] => k = l
<1> DEFINE Rank(i) == Cardinality({j \in I : j <= i})
           At(k) == CHOOSE i \in I : Rank(i) = k
           p == Picked(s, I)
<1>1. Len(s) \in Nat
  OBVIOUS
<1>2. Cardinality(I) \in Nat /\ Cardinality(I) <= Len(s)
  <2>1. /\ IsFiniteSet(1..Len(s))
        /\ Cardinality(1..Len(s)) = IF 1 > Len(s) THEN 0 ELSE Len(s) - 1 + 1
    BY <1>1, FS_Interval
  <2>2. Cardinality(1..Len(s)) = Len(s)
    BY <1>1, <2>1
  <2>3. IsFiniteSet(I) /\ Cardinality(I) <= Cardinality(1..Len(s))
    BY <2>1, FS_Subset
  <2> QED
    BY <2>2, <2>3, FS_CardinalityType
<1>3. ASSUME NEW k \in 1..Cardinality(I)
      PROVE  At(k) \in I /\ Rank(At(k)) = k
  <2>1. \E i \in I : Rank(i) = k
    BY <1>1, KthSmallest
  <2> HIDE DEF Rank
  <2> QED
    BY <2>1
<1>4. p = [k \in 1..Cardinality(I) |-> s[At(k)]]
  BY DEF Picked
<1> HIDE DEF At, Rank, p
<1>5. ASSUME NEW k \in 1..Cardinality(I)
      PROVE  At(k) \in I /\ At(k) \in 1..Len(s) /\ p[k] = s[At(k)] /\ p[k] \in P
  <2>1. At(k) \in I /\ At(k) \in 1..Len(s) /\ p[k] = s[At(k)]
    BY <1>3, <1>4
  <2> QED
    BY <2>1
<1>6. p \in [1..Cardinality(I) -> P]
  BY <1>4, <1>5
<1>7. p \in Seq(P) /\ Len(p) = Cardinality(I)
  BY <1>2, <1>6
<1>8. ASSUME \A i, j \in 1..Len(s) : s[i] = s[j] => i = j,
             NEW k \in 1..Cardinality(I), NEW l \in 1..Cardinality(I), p[k] = p[l]
      PROVE  k = l
  <2>1. At(k) = At(l)
    BY <1>5, <1>8
  <2> QED
    BY <1>3, <2>1
<1> QED
  BY <1>2, <1>5, <1>7, <1>8 DEF p

(* An entry is put somewhere into a list that does not have it. *)
LEMMA InsertOnce ==
    ASSUME NEW P, NEW s \in Seq(P), NEW e \in P, NEW place \in 1..(Len(s) + 1)
    PROVE  /\ InsertAt(s, place, e) \in Seq(P)
           /\ (/\ \A i \in 1..Len(s) : s[i] # e
               /\ \A i, j \in 1..Len(s) : s[i] = s[j] => i = j) =>
                \A i, j \in 1..Len(InsertAt(s, place, e)) :
                    InsertAt(s, place, e)[i] = InsertAt(s, place, e)[j] => i = j
<1> DEFINE t == InsertAt(s, place, e)
           Old(i) == IF i < place THEN i ELSE i - 1
           front == SubSeq(s, 1, place - 1)
           back == SubSeq(s, place, Len(s))
<1>0. /\ front \in Seq(P) /\ Len(front) = place - 1
      /\ \A i \in 1..(place - 1) : front[i] = s[i]
      /\ back \in Seq(P) /\ Len(back) = Len(s) - place + 1
      /\ \A i \in 1..(Len(s) - place + 1) : back[i] = s[i + place - 1]
  <2>1. /\ front \in Seq(P) /\ Len(front) = place - 1
        /\ \A i \in 1..(place - 1) : front[i] = s[i]
    OBVIOUS
  <2>2. back \in Seq(P) /\ Len(back) = Len(s) - place + 1
    OBVIOUS
  <2>3. \A i \in 1..(Len(s) - place + 1) : back[i] = s[i + place - 1]
    OBVIOUS
  <2> QED
    BY <2>1, <2>2, <2>3
<1> DEFINE head == front \o <<e>>
<1>t. t = head \o back
  BY DEF InsertAt
<1> HIDE DEF front, back, t
<1>h. /\ head \in Seq(P) /\ Len(head) = place
      /\ \A i \in 1..place : head[i] = IF i = place THEN e ELSE s[i]
  BY <1>0
<1> HIDE DEF head
<1>1. t \in Seq(P) /\ Len(t) = Len(s) + 1
  <2>1. t \in Seq(P) /\ Len(t) = Len(head) + Len(back)
    <3>1. head \in Seq(P) /\ back \in Seq(P)
      BY <1>0, <1>h
    <3> QED
      BY <1>t, <3>1
  <2>2. Len(s) \in Nat /\ place \in Nat
    OBVIOUS
  <2> QED
    BY <1>0, <1>h, <2>1, <2>2
<1>2. \A i \in 1..Len(t) : t[i] = IF i = place THEN e ELSE s[Old(i)]
  <2>1. ASSUME NEW i \in 1..place
        PROVE  t[i] = IF i = place THEN e ELSE s[i]
    BY <1>0, <1>t, <1>h
  <2>2. ASSUME NEW i \in (place + 1)..Len(t)
        PROVE  t[i] = s[i - 1]
    <3>1. t[i] = back[i - place] /\ i - place \in 1..(Len(s) - place + 1)
      BY <1>0, <1>1, <1>t, <1>h
    <3>2. back[i - place] = s[(i - place) + place - 1]
      BY <1>0, <3>1
    <3>3. (i - place) + place - 1 = i - 1
      BY <1>1
    <3> QED
      BY <3>1, <3>2, <3>3
  <2> QED
    BY <1>1, <2>1, <2>2
<1>3. \A i \in 1..Len(t) : i # place => Old(i) \in 1..Len(s)
  BY <1>1
<1>4. ASSUME \A i \in 1..Len(s) : s[i] # e,
             \A i, j \in 1..Len(s) : s[i] = s[j] => i = j,
             NEW i \in 1..Len(t), NEW j \in 1..Len(t), t[i] = t[j]
      PROVE  i = j
  <2>1. i = place <=> j = place
    BY <1>2, <1>3, <1>4
  <2>2. (i # place /\ j # place) => Old(i) = Old(j)
    BY <1>2, <1>3, <1>4
  <2> QED
    BY <1>1, <2>1, <2>2
<1> QED
  BY <1>1, <1>4 DEF t

(* The front of a list. *)
LEMMA TakeFront ==
    ASSUME NEW P, NEW s \in Seq(P), NEW n \in Nat
    PROVE  /\ Take(s, n) \in Seq(P) /\ Len(Take(s, n)) <= n /\ Len(Take(s, n)) <= Len(s)
           /\ \A i \in 1..Len(Take(s, n)) : Take(s, n)[i] = s[i]
  BY DEF Take

-----------------------------------------------------------------------------
(* The session.  The properties are two of the parts of its invariant; the    *)
(* others say where the memories, the counter and the outer hop stand.        *)

(* The places of a round at which an outer edge is chosen. *)
InRound == {"use", "saving", "outer", "inner", "up"}

SessionTypes ==
    /\ user \in Users /\ net \in Networks /\ fallback \in BOOLEAN
    /\ cachedPeer \in Edges \cup {NoEdge} /\ lastPeer \in Edges \cup {NoEdge}
    /\ lastInner \in Edges \cup {NoEdge} /\ peer \in Edges \cup {NoEdge}
    /\ inner \in Edges \cup {NoEdge} /\ checked \in Edges \cup {NoEdge}
    /\ lastconn \in Edges \cup {NoEdge, Torn}
    /\ outerFails \in Nat /\ topUps \in 0..MaxTopUps
    /\ outerUp \in BOOLEAN /\ tried \in BOOLEAN

(* A round begins below the limit of failures, so the one failure it can add *)
(* does not exceed it.                                                       *)
FailsBounded ==
    /\ outerFails <= MaxOuterFails
    /\ pc \in InRound => outerFails < MaxOuterFails

(* What the head of the loop takes up again. *)
Known == IF lastPeer # NoEdge THEN lastPeer ELSE cachedPeer

(* What would be taken up again is the edge that last answered; a round's    *)
(* edge becomes that when it is remembered.                                  *)
MemoryChecked ==
    /\ (/\ user.forced = NoEdge /\ outerFails < MaxOuterFails
        /\ pc \notin {"off", "use"} /\ Known # NoEdge) => Known = checked
    /\ pc \in InRound => peer \in Edges
    /\ pc \in InRound \ {"use"} => lastPeer = peer
    /\ pc = "off" => lastPeer = NoEdge /\ outerFails = 0 /\ ~tried

(* The inner edges still to be tried are others than the outer one. *)
OthersInside ==
    /\ inners \in Seq(Edges)
    /\ pc \in {"saving", "outer", "inner"} => \A i \in 1..Len(inners) : inners[i] # peer
    /\ pc = "up" => inner # peer

(* The outer hop lives only while inner edges are tried or the session runs. *)
OuterPlaced == outerUp => pc \in {"inner", "up"}

CacheKept ==
    /\ cache \in Seq(Edges) /\ Len(cache) <= MaxCached
    /\ \A i, j \in 1..Len(cache) : cache[i] = cache[j] => i = j

MimInv ==
    /\ SessionTypes /\ FailsBounded /\ MemoryChecked /\ OthersInside /\ OuterPlaced /\ CacheKept
    /\ DialsWhatAnswered

-----------------------------------------------------------------------------
(* An edge that is cached is moved: the cache has it once, at most MaxCached  *)
(* edges, and only edges.                                                     *)
LEMMA CachedSound ==
    ASSUME CacheKept, NEW e \in Edges, Cached(e)
    PROVE  CacheKept'
<1> DEFINE I == {i \in 1..Len(cache) : cache[i] # e}
           others == Others(e)
<1>1. /\ cache \in Seq(Edges) /\ \A i, j \in 1..Len(cache) : cache[i] = cache[j] => i = j
      /\ I \in SUBSET (1..Len(cache)) /\ \A i \in I : cache[i] # e
  BY DEF CacheKept
<1>o. others = Picked(cache, I)
  BY DEF Others
<1> HIDE DEF I, others
<1>2. /\ others \in Seq(Edges)
      /\ \A k \in 1..Len(others) : \E i \in I : others[k] = cache[i]
      /\ \A k, l \in 1..Len(others) : others[k] = others[l] => k = l
  <2>1. /\ others \in Seq(Edges) /\ Len(others) = Cardinality(I)
        /\ \A k \in 1..Cardinality(I) : \E i \in I : others[k] = cache[i]
        /\ (\A i, j \in 1..Len(cache) : cache[i] = cache[j] => i = j) =>
             \A k, l \in 1..Cardinality(I) : others[k] = others[l] => k = l
    BY <1>1, <1>o, PickedFrom, SMTT(30)
  <2> QED
    BY <1>1, <2>1, Zenon
<1>3. \A k \in 1..Len(others) : others[k] # e
  BY <1>1, <1>2
<1>4. PICK place \in 1..(Len(others) + 1) : cache' = Take(InsertAt(others, place, e), MaxCached)
  BY DEF Cached, cache_masque_gateway, others
<1> DEFINE all == InsertAt(others, place, e)
<1>5. all \in Seq(Edges) /\ \A i, j \in 1..Len(all) : all[i] = all[j] => i = j
  <2>0. others \in Seq(Edges)
    BY <1>2
  <2>1. /\ all \in Seq(Edges)
        /\ (/\ \A i \in 1..Len(others) : others[i] # e
            /\ \A i, j \in 1..Len(others) : others[i] = others[j] => i = j) =>
             \A i, j \in 1..Len(all) : all[i] = all[j] => i = j
    BY <2>0, InsertOnce, Zenon
  <2> HIDE DEF all
  <2> QED
    BY <1>2, <1>3, <2>1, Zenon
<1> HIDE DEF all
<1>6. cache' = Take(all, MaxCached) /\ MaxCached \in Nat
  BY <1>4, MimAssumption DEF all
<1>7. /\ cache' \in Seq(Edges) /\ Len(cache') <= MaxCached /\ Len(cache') <= Len(all)
      /\ \A i \in 1..Len(cache') : cache'[i] = all[i]
  BY <1>5, <1>6, TakeFront
<1>8. ASSUME NEW i \in 1..Len(cache'), NEW j \in 1..Len(cache'), cache'[i] = cache'[j]
      PROVE  i = j
  <2>1. i \in 1..Len(all) /\ j \in 1..Len(all) /\ all[i] = all[j]
    BY <1>5, <1>7, <1>8
  <2> QED
    BY <1>5, <2>1
<1> QED
  BY <1>7, <1>8 DEF CacheKept

(* The inner edges to try leave out the outer one. *)
LEMMA CandidatesOthers ==
    ASSUME SessionTypes, CacheKept, NEW outer \in Edges
    PROVE  /\ candidates(outer) \in Seq(Edges)
           /\ \A i \in 1..Len(candidates(outer)) : candidates(outer)[i] # outer
<1> DEFINE all == cache \o GatewayPeers
           I == {i \in FirstSeen(all) : all[i] # outer}
           picked == Picked(all, I)
           pool == inner_masque_candidates(outer)
<1>1. all \in Seq(Edges)
  BY MimAssumption DEF CacheKept
<1>p. pool = Take(picked, InnerTries) /\ InnerTries \in Nat
  BY MimAssumption DEF inner_masque_candidates
<1> HIDE DEF all
<1>2. I \in SUBSET (1..Len(all)) /\ \A i \in I : all[i] # outer
  BY DEF FirstSeen
<1> HIDE DEF I
<1>3. picked \in Seq(Edges) /\ \A k \in 1..Len(picked) : \E i \in I : picked[k] = all[i]
  BY <1>1, <1>2, PickedFrom
<1> HIDE DEF picked, pool
<1>4. picked \in Seq(Edges) /\ \A k \in 1..Len(picked) : picked[k] # outer
  BY <1>2, <1>3
<1>5. /\ pool \in Seq(Edges) /\ Len(pool) <= Len(picked)
      /\ \A i \in 1..Len(pool) : pool[i] = picked[i]
  BY <1>4, <1>p, TakeFront
<1>6. \A i \in 1..Len(pool) : pool[i] # outer
  BY <1>4, <1>5
<1>7. CASE lastInner \in Edges \ (ToSet(pool) \cup {outer})
  <2>1. candidates(outer) = <<lastInner>> \o pool
    BY <1>7 DEF candidates, pool
  <2>2. /\ candidates(outer) \in Seq(Edges) /\ Len(candidates(outer)) = Len(pool) + 1
        /\ \A i \in 1..(Len(pool) + 1) :
             candidates(outer)[i] = IF i = 1 THEN lastInner ELSE pool[i - 1]
    BY <1>5, <1>7, <2>1
  <2> QED
    BY <1>5, <1>6, <1>7, <2>2
<1>8. CASE lastInner \notin Edges \ (ToSet(pool) \cup {outer})
  <2>1. candidates(outer) = pool
    BY <1>8 DEF candidates, pool
  <2> QED
    BY <1>5, <1>6, <2>1
<1> QED
  BY <1>7, <1>8

-----------------------------------------------------------------------------
(* The remembered edge is taken only if it answers now. *)
LEMMA BeginSound ==
    ASSUME MimInv, Begin
    PROVE  MimInv'
  BY MimAssumption DEF Begin, MimInv, SessionTypes, FailsBounded, Known, MemoryChecked,
     OthersInside, OuterPlaced, CacheKept, DialsWhatAnswered, InRound

(* The round's edge: the known one below the limit, or the forced one. *)
LEMMA ChooseSound ==
    ASSUME MimInv, Choose
    PROVE  MimInv'
  BY MimAssumption DEF Choose, Use, MimInv, SessionTypes, FailsBounded, Known, MemoryChecked,
     OthersInside, OuterPlaced, CacheKept, DialsWhatAnswered, InRound

(* Selecting an edge makes it the checked one, clears the failures and caches *)
(* it.                                                                        *)
LEMMA SelectSound ==
    ASSUME MimInv, NEW e \in Edges, Select(e), fallback' = fallback,
           pc \in {"select", "hunt", "anycast"},
           UNCHANGED <<user, net, cachedPeer, lastPeer, lastInner, lastconn, inners, inner,
                       outerUp, tried>>
    PROVE  MimInv'
<1>1. CacheKept'
  BY CachedSound DEF MimInv, Select
<1>2. topUps' \in 0..MaxTopUps
  BY MimAssumption DEF MimInv, SessionTypes, Select, TopUp
<1>3. peer' = e /\ pc' = "use" /\ checked' = e /\ outerFails' = 0
  BY DEF Select, Use
<1> QED
  BY <1>1, <1>2, <1>3, MimAssumption DEF MimInv, SessionTypes, FailsBounded, Known, MemoryChecked,
     OthersInside, OuterPlaced, DialsWhatAnswered, InRound

(* A search that finds nothing goes on or pauses. *)
LEMMA NothingFound ==
    ASSUME MimInv, pc \in {"select", "hunt", "anycast"}, pc' \in {"hunt", "anycast", "sleep"},
           fallback' \in BOOLEAN,
           UNCHANGED <<user, net, cachedPeer, lastPeer, lastInner, outerFails, lastconn, cache,
                       topUps, peer, inners, inner, outerUp, checked, tried>>
    PROVE  MimInv'
  BY DEF MimInv, SessionTypes, FailsBounded, Known, MemoryChecked,
     OthersInside, OuterPlaced, CacheKept, DialsWhatAnswered, InRound

LEMMA SearchSound ==
    ASSUME MimInv, SelectCached \/ SelectHunt \/ SelectAnycast
    PROVE  MimInv'
<1>0. /\ ToSet(cache) \subseteq Edges /\ ToSet(GatewayPeers) \subseteq Edges
      /\ fallback \in BOOLEAN
  BY MimAssumption DEF MimInv, SessionTypes, CacheKept, ToSet
<1>1. CASE SelectCached
  BY <1>0, <1>1, SelectSound, NothingFound DEF SelectCached
<1>2. CASE SelectHunt
  BY <1>0, <1>2, SelectSound, NothingFound DEF SelectHunt
<1>3. CASE SelectAnycast
  BY <1>0, <1>3, SelectSound, NothingFound DEF SelectAnycast
<1> QED
  BY <1>1, <1>2, <1>3

(* The round's edge is remembered, and others are lined up behind it. *)
LEMMA RememberSound ==
    ASSUME MimInv, Remember
    PROVE  MimInv'
<1>1. peer \in Edges /\ pc = "use"
  BY DEF MimInv, MemoryChecked, InRound, Remember
<1>2. inners' \in Seq(Edges) /\ \A i \in 1..Len(inners') : inners'[i] # peer
  BY <1>1, CandidatesOthers DEF MimInv, Remember
<1>3. /\ pc' \in {"saving", "outer"} /\ lastconn' \in {lastconn, Torn}
      /\ lastPeer' = peer /\ tried' = TRUE
      /\ UNCHANGED <<user, net, fallback, cachedPeer, lastInner, outerFails, cache, topUps, peer,
                     inner, outerUp, checked>>
  BY DEF Remember
<1> QED
  BY <1>1, <1>2, <1>3, MimAssumption DEF MimInv, SessionTypes, FailsBounded, Known, MemoryChecked,
     OthersInside, OuterPlaced, CacheKept, DialsWhatAnswered, InRound

(* The file catches up. *)
LEMMA RememberedSound ==
    ASSUME MimInv, Remembered
    PROVE  MimInv'
  BY MimAssumption DEF Remembered, MimInv, SessionTypes, FailsBounded, Known, MemoryChecked,
     OthersInside, OuterPlaced, CacheKept, DialsWhatAnswered, InRound

(* A round ends: at most one failure is added, and an edge at the limit is    *)
(* given up.                                                                  *)
LEMMA EndSessionSound ==
    ASSUME MimInv, EndSession, BlameOuter \/ BlameInner, pc \in {"outer", "inner", "up"},
           UNCHANGED <<user, net, fallback, cachedPeer, lastPeer, lastconn, cache, topUps, peer,
                       tried>>
    PROVE  MimInv'
<1>1. /\ pc' = "sleep" /\ inners' = <<>> /\ inner' = NoEdge /\ outerUp' = FALSE
      /\ <<>> \in Seq(Edges)
  BY DEF EndSession
<1>2. /\ outerFails' \in Nat /\ outerFails' <= MaxOuterFails /\ outerFails <= outerFails'
      /\ lastInner' \in Edges \cup {NoEdge} /\ checked' \in Edges \cup {NoEdge}
      /\ outerFails' < MaxOuterFails => checked' = checked
  BY MimAssumption DEF BlameOuter, BlameInner, MimInv, SessionTypes, FailsBounded, InRound
<1>3. SessionTypes'
  BY <1>1, <1>2 DEF MimInv, SessionTypes
<1>4. FailsBounded'
  BY <1>1, <1>2 DEF FailsBounded, InRound
<1>5. MemoryChecked'
  BY <1>1, <1>2, MimAssumption DEF MimInv, SessionTypes, MemoryChecked, Known, InRound
<1>6. OthersInside' /\ OuterPlaced' /\ DialsWhatAnswered'
  BY <1>1 DEF OthersInside, OuterPlaced, DialsWhatAnswered
<1>7. CacheKept'
  BY DEF MimInv, CacheKept
<1> QED
  BY <1>3, <1>4, <1>5, <1>6, <1>7 DEF MimInv

(* The outer hop comes up or is blamed. *)
LEMMA RaiseOuterSound ==
    ASSUME MimInv, RaiseOuter
    PROVE  MimInv'
<1>1. CASE Answers(peer)
  <2>1. /\ pc = "outer" /\ pc' = "inner" /\ outerUp' = TRUE
        /\ UNCHANGED <<user, net, fallback, cachedPeer, lastPeer, lastconn, cache, topUps, peer,
                       tried, outerFails, lastInner, checked, inners, inner>>
    BY <1>1 DEF RaiseOuter
  <2> QED
    BY <2>1 DEF MimInv, SessionTypes, FailsBounded, Known, MemoryChecked,
       OthersInside, OuterPlaced, CacheKept, DialsWhatAnswered, InRound
<1>2. CASE ~Answers(peer)
  BY <1>2, EndSessionSound DEF RaiseOuter
<1> QED
  BY <1>1, <1>2

(* The next inner edge carries the session or is passed over. *)
LEMMA TryInnerSound ==
    ASSUME MimInv, TryInner
    PROVE  MimInv'
<1>1. /\ inners \in Seq(Edges) /\ inners # <<>> /\ pc = "inner"
      /\ \A i \in 1..Len(inners) : inners[i] # peer
  BY DEF MimInv, OthersInside, TryInner
<1>2. /\ Head(inners) \in Edges /\ Head(inners) # peer /\ Tail(inners) \in Seq(Edges)
      /\ \A i \in 1..Len(Tail(inners)) : Tail(inners)[i] # peer
  BY <1>1
<1>3. /\ \/ pc' = "up" /\ inner' = Head(inners) /\ inners' = <<>>
         \/ inners' = Tail(inners) /\ UNCHANGED <<pc, inner>>
      /\ UNCHANGED <<user, net, fallback, cachedPeer, lastPeer, lastInner, outerFails, lastconn,
                     cache, topUps, peer, outerUp, checked, tried>>
  BY DEF TryInner
<1>4. OthersInside'
  <2>1. CASE pc' = "up" /\ inner' = Head(inners) /\ inners' = <<>>
    <3>1. <<>> \in Seq(Edges)
      OBVIOUS
    <3> QED
      BY <1>2, <1>3, <2>1, <3>1 DEF OthersInside
  <2>2. CASE inners' = Tail(inners) /\ UNCHANGED <<pc, inner>>
    BY <1>1, <1>2, <1>3, <2>2 DEF OthersInside
  <2> QED
    BY <1>3, <2>1, <2>2
<1>5. SessionTypes' /\ FailsBounded' /\ OuterPlaced'
  BY <1>1, <1>2, <1>3 DEF MimInv, SessionTypes, FailsBounded, OuterPlaced, InRound
<1>6. MemoryChecked' /\ CacheKept' /\ DialsWhatAnswered'
  BY <1>1, <1>3 DEF MimInv, MemoryChecked, Known, CacheKept, DialsWhatAnswered, InRound
<1> QED
  BY <1>4, <1>5, <1>6 DEF MimInv

(* No inner edge works: the outer one keeps its record. *)
LEMMA NoInnerSound ==
    ASSUME MimInv, NoInner
    PROVE  MimInv'
  BY EndSessionSound DEF NoInner

(* The end of a session is blamed on one hop: join_outcome never returns Ok. *)
LEMMA SessionEndsSound ==
    ASSUME MimInv, SessionEnds
    PROVE  MimInv'
<1>1. EndSession /\ (BlameOuter \/ BlameInner) /\ pc = "up"
  BY DEF SessionEnds, join_outcome
<1> QED
  BY <1>1, EndSessionSound DEF SessionEnds

(* A pause forgets only the round's edge. *)
LEMMA SleepSound ==
    ASSUME MimInv, Sleep
    PROVE  MimInv'
  BY MimAssumption DEF Sleep, MimInv, SessionTypes, FailsBounded, Known, MemoryChecked,
     OthersInside, OuterPlaced, CacheKept, DialsWhatAnswered, InRound

(* What happens beside the session. *)
LEMMA BesideSound ==
    ASSUME MimInv, OuterDies \/ TopUpDone \/ NetworkChanges
    PROVE  MimInv'
<1>1. CASE OuterDies
  <2>1. /\ outerUp' = FALSE
        /\ UNCHANGED <<pc, user, net, fallback, cachedPeer, lastPeer, lastInner, outerFails,
                       lastconn, cache, topUps, peer, inners, inner, checked, tried>>
    BY <1>1 DEF OuterDies
  <2>2. SessionTypes' /\ OuterPlaced'
    BY <2>1 DEF MimInv, SessionTypes, OuterPlaced
  <2>3. FailsBounded' /\ MemoryChecked' /\ OthersInside' /\ CacheKept' /\ DialsWhatAnswered'
    BY <2>1 DEF MimInv, FailsBounded, Known, MemoryChecked, OthersInside, CacheKept,
       DialsWhatAnswered, InRound
  <2> QED
    BY <2>2, <2>3 DEF MimInv
<1>2. CASE TopUpDone
  <2>1. CacheKept'
    BY <1>2, CachedSound DEF TopUpDone, MimInv, CacheKept
  <2>2. topUps' \in 0..MaxTopUps
    BY <1>2, MimAssumption DEF TopUpDone, MimInv, SessionTypes
  <2> QED
    BY <1>2, <2>1, <2>2 DEF TopUpDone, MimInv, SessionTypes, FailsBounded, Known, MemoryChecked,
     OthersInside, OuterPlaced, DialsWhatAnswered, InRound
<1>3. CASE NetworkChanges
  BY <1>3 DEF NetworkChanges, MimInv, SessionTypes, FailsBounded, Known, MemoryChecked,
     OthersInside, OuterPlaced, CacheKept, DialsWhatAnswered, InRound
<1> QED
  BY <1>1, <1>2, <1>3

(* A stop clears the session, the files stay. *)
LEMMA StoppedSound ==
    ASSUME MimInv, Stopped
    PROVE  MimInv'
<1>1. /\ pc' = "off" /\ cachedPeer' = NoEdge /\ lastPeer' = NoEdge /\ lastInner' = NoEdge
      /\ outerFails' = 0 /\ topUps' = 0 /\ peer' = NoEdge /\ inners' = <<>> /\ inner' = NoEdge
      /\ outerUp' = FALSE /\ checked' = NoEdge /\ tried' = FALSE /\ <<>> \in Seq(Edges)
      /\ UNCHANGED <<user, net, fallback, lastconn, cache>>
  BY DEF Stopped
<1>0. MaxTopUps \in Nat /\ MaxOuterFails \in Nat
  BY MimAssumption
<1>2. SessionTypes' /\ FailsBounded'
  <2>1. topUps' \in 0..MaxTopUps /\ outerFails' \in Nat /\ outerFails' <= MaxOuterFails
    BY <1>0, <1>1
  <2>2. SessionTypes'
    BY <1>1, <2>1 DEF MimInv, SessionTypes
  <2> QED
    BY <1>1, <2>1, <2>2 DEF FailsBounded, InRound
<1>3. MemoryChecked' /\ OthersInside' /\ OuterPlaced' /\ DialsWhatAnswered'
  BY <1>1 DEF MemoryChecked, Known, OthersInside, OuterPlaced, DialsWhatAnswered, InRound
<1>4. CacheKept'
  BY <1>1 DEF MimInv, CacheKept
<1> QED
  BY <1>2, <1>3, <1>4 DEF MimInv

(* A process starts with an empty memory and an empty cache. *)
LEMMA MimInitInv ==
    ASSUME Init
    PROVE  MimInv
<1>1. /\ pc = "off" /\ user \in Users /\ net \in Networks /\ fallback = FALSE
      /\ cachedPeer = NoEdge /\ lastPeer = NoEdge /\ lastInner = NoEdge /\ outerFails = 0
      /\ lastconn \in Edges \cup {NoEdge} /\ cache = <<>> /\ topUps = 0
      /\ peer = NoEdge /\ inners = <<>> /\ inner = NoEdge /\ outerUp = FALSE
      /\ checked = NoEdge /\ tried = FALSE
      /\ <<>> \in Seq(Edges) /\ Len(<<>>) = 0
  BY DEF Init
<1>0. MaxTopUps \in Nat /\ MaxOuterFails \in Nat
  BY MimAssumption
<1>2. SessionTypes /\ FailsBounded
  <2>1. topUps \in 0..MaxTopUps /\ outerFails \in Nat /\ outerFails <= MaxOuterFails
    BY <1>0, <1>1
  <2>2. SessionTypes
    BY <1>1, <2>1 DEF SessionTypes
  <2> QED
    BY <1>1, <2>1, <2>2 DEF FailsBounded, InRound
<1>3. MemoryChecked /\ OthersInside /\ OuterPlaced /\ DialsWhatAnswered
  BY <1>1 DEF MemoryChecked, Known, OthersInside, OuterPlaced, DialsWhatAnswered, InRound
<1>4. CacheKept
  BY <1>1, MimAssumption DEF CacheKept
<1> QED
  BY <1>2, <1>3, <1>4 DEF MimInv

(* The invariant is kept by every step. *)
LEMMA MimStep ==
    ASSUME MimInv, [Next]_vars
    PROVE  MimInv'
<1>1. CASE UNCHANGED vars
  BY <1>1 DEF vars, MimInv, SessionTypes, FailsBounded, Known, MemoryChecked,
     OthersInside, OuterPlaced, CacheKept, DialsWhatAnswered, InRound
<1>2. CASE Next
  BY <1>2, BeginSound, ChooseSound, SearchSound, RememberSound, RememberedSound, RaiseOuterSound,
     TryInnerSound, NoInnerSound, SessionEndsSound, SleepSound, BesideSound, StoppedSound
  DEF Next, run_mim
<1> QED
  BY <1>1, <1>2

(* The invariant holds in every state of every session. *)
THEOREM MimInvariant == Spec => []MimInv
<1>1. Init => MimInv
  BY MimInitInv
<1>2. MimInv /\ [Next]_vars => MimInv'
  BY MimStep
<1> QED
  BY <1>1, <1>2, PTL DEF Spec

(* What run_mim remembers is sound: an outer edge is dialled only if it        *)
(* answered since it was last given up, no edge is counted past                *)
(* MAX_OUTER_FAILS, the cache has no edge twice and keeps its limit, and no    *)
(* session runs through one edge twice.                                        *)
THEOREM MimIsSafe == Spec => []MimSafety
<1>1. MimInv => MimSafety
  <2> SUFFICES ASSUME MimInv PROVE MimSafety
    OBVIOUS
  <2>1. TypeOK
    <3>1. outerFails \in 0..MaxOuterFails
      BY MimAssumption DEF MimInv, SessionTypes, FailsBounded
    <3>2. {cachedPeer, lastPeer, lastInner, peer, inner, checked} \subseteq Edges \cup {NoEdge}
      BY DEF MimInv, SessionTypes
    <3> QED
      BY <3>1, <3>2 DEF MimInv, SessionTypes, OthersInside, CacheKept, TypeOK
  <2>2. IsInjective(cache)
    BY DEF MimInv, CacheKept, IsInjective
  <2> QED
    BY <2>1, <2>2 DEF MimInv, OthersInside, CacheKept, CacheSound, MimSafety
<1> QED
  BY <1>1, MimInvariant, PTL

(* A failure is counted against the outer edge only when the edge does not     *)
(* answer or its hop has died: a working outer edge is never given up because  *)
(* of the inner edges behind it.                                               *)
THEOREM MimHealthyOuterKept == Spec => HealthyOuterKept
<1> DEFINE Kept == outerFails' > outerFails => ~outerUp /\ (pc = "outer" => ~Answers(peer))
<1>1. MimInv /\ [Next]_vars => [Kept]_vars
  <2> SUFFICES ASSUME MimInv, Next PROVE Kept
    BY DEF vars
  <2>0. outerFails \in Nat
    BY DEF MimInv, SessionTypes
  <2>1. CASE RaiseOuter
    BY <2>0, <2>1 DEF RaiseOuter, MimInv, OuterPlaced
  <2>2. CASE SessionEnds
    BY <2>0, <2>2 DEF SessionEnds, join_outcome, BlameInner
  <2>3. CASE SelectCached \/ SelectHunt \/ SelectAnycast \/ Choose \/ Stopped
    <3>1. outerFails' \in {outerFails, 0}
      BY <2>3 DEF SelectCached, SelectHunt, SelectAnycast, Select, Choose, Stopped
    <3> QED
      BY <2>0, <3>1
  <2>4. CASE \/ Begin \/ Remember \/ Remembered \/ TryInner \/ NoInner \/ Sleep
             \/ OuterDies \/ TopUpDone \/ NetworkChanges
    <3>1. outerFails' = outerFails
      BY <2>4 DEF Begin, Remember, Remembered, TryInner, NoInner, BlameInner, Sleep, OuterDies,
         TopUpDone, NetworkChanges
    <3> QED
      BY <2>0, <3>1
  <2> QED
    BY <2>1, <2>2, <2>3, <2>4 DEF Next, run_mim
<1> QED
  BY <1>1, MimInvariant, PTL DEF Spec, HealthyOuterKept

-----------------------------------------------------------------------------
(* The session's steps are those of CoreSession.  What the phase is, by place. *)
PhaseIs(at, phase) ==
    phase = IF at = "off" THEN "idle"
            ELSE IF at \in {"saving", "outer", "inner"} THEN "trying"
            ELSE IF at = "up" THEN "up"
            ELSE IF at = "sleep" THEN "pausing" ELSE "choosing"

LEMMA PhaseByPlace == PhaseIs(pc, Phase) /\ PhaseIs(pc', Phase')
<1>1. PhaseIs(pc, Phase)
  <2>1. CASE pc \in {"off", "saving", "outer", "inner", "up", "sleep"}
    BY <2>1, Zenon DEF PhaseIs, Phase
  <2>2. CASE pc \notin {"off", "saving", "outer", "inner", "up", "sleep"}
    BY <2>2, Zenon DEF PhaseIs, Phase
  <2> QED
    BY <2>1, <2>2
<1>2. PhaseIs(pc', Phase')
  <2>1. CASE pc' \in {"off", "saving", "outer", "inner", "up", "sleep"}
    BY <2>1, Zenon DEF PhaseIs, Phase
  <2>2. CASE pc' \notin {"off", "saving", "outer", "inner", "up", "sleep"}
    BY <2>2, Zenon DEF PhaseIs, Phase
  <2> QED
    BY <2>1, <2>2
<1> QED
  BY <1>1, <1>2

(* Every step of run_mim, and of what runs beside it, is a step of the         *)
(* abstract session or one it does not see.                                    *)
LEMMA NextIsCore ==
    ASSUME MimInv, [Next]_vars
    PROVE  [Core!CoreNext]_(Core!coreVars)
<1>0. pc = "off" => tried = FALSE
  BY DEF MimInv, SessionTypes, MemoryChecked
<1>1. CASE Begin
  <2>1. pc = "off" /\ pc' = "loop" /\ tried = FALSE /\ tried' = FALSE
    BY <1>0, <1>1 DEF Begin
  <2> QED
    BY <2>1, PhaseByPlace DEF PhaseIs, Core!CoreNext, Core!CoreBegin
<1>2. CASE Choose \/ SelectCached \/ SelectHunt \/ SelectAnycast
  <2>1. /\ pc \in {"loop", "select", "hunt", "anycast"}
        /\ pc' \in {"use", "select", "hunt", "anycast", "sleep"} /\ tried' = tried
    BY <1>2 DEF Choose, SelectCached, SelectHunt, SelectAnycast, Select, Use
  <2> QED
    BY <2>1, PhaseByPlace DEF PhaseIs, Core!coreVars, Core!CoreNext, Core!CoreFoundNothing
<1>3. CASE Remember
  <2>1. pc = "use" /\ pc' \in {"saving", "outer"} /\ tried' = TRUE
    BY <1>3 DEF Remember
  <2> QED
    BY <2>1, PhaseByPlace DEF PhaseIs, Core!CoreNext, Core!CoreTry
<1>4. CASE Remembered \/ RaiseOuter \/ TryInner \/ NoInner \/ SessionEnds
  <2>1. /\ tried' = tried
        /\ \/ pc \in {"saving", "outer", "inner"} /\ pc' \in {"outer", "inner", "up", "sleep"}
           \/ pc = "up" /\ pc' = "sleep"
    BY <1>4 DEF Remembered, RaiseOuter, TryInner, NoInner, SessionEnds, EndSession
  <2> QED
    BY <2>1, PhaseByPlace DEF PhaseIs, Core!coreVars, Core!CoreNext, Core!CoreUp, Core!CoreLose
<1>5. CASE Sleep
  <2>1. pc = "sleep" /\ pc' = "loop" /\ tried' = tried
    BY <1>5 DEF Sleep
  <2> QED
    BY <2>1, PhaseByPlace DEF PhaseIs, Core!CoreNext, Core!CoreResume
<1>6. CASE Stopped
  <2>1. pc # "off" /\ pc' = "off" /\ tried' = FALSE
    BY <1>6 DEF Stopped
  <2> QED
    BY <2>1, PhaseByPlace DEF PhaseIs, Core!CoreNext, Core!CoreStop
<1>7. CASE OuterDies \/ TopUpDone \/ NetworkChanges \/ UNCHANGED vars
  <2>1. pc' = pc /\ tried' = tried
    BY <1>7 DEF OuterDies, TopUpDone, NetworkChanges, vars
  <2> QED
    BY <2>1, PhaseByPlace DEF PhaseIs, Core!coreVars
<1> QED
  BY <1>1, <1>2, <1>3, <1>4, <1>5, <1>6, <1>7 DEF Next, run_mim

(* The safety half of ImplementsCore: run_mim never gives up by itself, and    *)
(* every attempt, loss and pause is one of the abstract session's.             *)
THEOREM MimRefinesCore == Spec => Core!CoreSafe
<1>1. Init => Core!CoreInit
  BY PhaseByPlace DEF Init, Core!CoreInit, PhaseIs
<1>2. MimInv /\ [Next]_vars => [Core!CoreNext]_(Core!coreVars)
  BY NextIsCore
<1> QED
  BY <1>1, <1>2, MimInvariant, PTL DEF Spec, Core!CoreSafe

=============================================================================
