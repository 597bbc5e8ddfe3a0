---------------------------- MODULE MasqueProofs ----------------------------
(***************************************************************************)
(* A MASQUE session, proved for every set of devices, gateways, settings    *)
(* and networks.  The invariant of IdentityProofs is kept by the steps of   *)
(* run_masque as well, the renewal of a refused certificate among them;     *)
(* the session's own invariant gives its safety; and the session implements *)
(* the abstract one.                                                        *)
(*                                                                          *)
(* TunnelAsVerified is not inductive: between the probe that accepted a     *)
(* gateway and the tunnel the gateway passes through the list of ready      *)
(* ones, the quick-reconnect memory and the choice, so the invariant says   *)
(* of each of them what was verified and over which transport.              *)
(***************************************************************************)
EXTENDS MasqueSession, IdentityProofs

(* The steps of run_masque that leave the identity alone. *)
Untouched ==
    \/ Begin \/ DialNext \/ DialDone \/ Rejected \/ ToHttp2 \/ BackToHttp3 \/ Choose \/ Hunt
    \/ HuntAnycast \/ Remember \/ Remembered \/ TunnelUp \/ TunnelDown \/ Sleep

(* A session's own steps stay inside the session or fail it. *)
LEMMA UntouchedPlace ==
    ASSUME Untouched
    PROVE  /\ UNCHANGED idVars
           /\ pc \notin {"off", "failed", "load", "register"}
           /\ pc' \notin Provisioning \cup {"register", "run"}
<1> USE DEF Provisioning
<1>1. CASE Begin
  BY <1>1 DEF Begin
<1>2. CASE DialNext
  BY <1>2 DEF DialNext
<1>3. CASE DialDone
  BY <1>3 DEF DialDone
<1>4. CASE Rejected
  BY <1>4 DEF Rejected
<1>5. CASE ToHttp2
  BY <1>5 DEF ToHttp2
<1>6. CASE BackToHttp3
  BY <1>6 DEF BackToHttp3
<1>7. CASE Choose
  BY <1>7 DEF Choose
<1>8. CASE Hunt
  BY <1>8 DEF Hunt
<1>9. CASE HuntAnycast
  BY <1>9 DEF HuntAnycast
<1>10. CASE Remember
  BY <1>10 DEF Remember
<1>11. CASE Remembered
  BY <1>11 DEF Remembered
<1>12. CASE TunnelUp
  BY <1>12 DEF TunnelUp
<1>13. CASE TunnelDown
  BY <1>13 DEF TunnelDown
<1>14. CASE Sleep
  BY <1>14 DEF Sleep
<1> QED
  BY <1>1, <1>2, <1>3, <1>4, <1>5, <1>6, <1>7, <1>8, <1>9, <1>10, <1>11, <1>12, <1>13, <1>14
  DEF Untouched

LEMMA UntouchedKeeps ==
    ASSUME IdInv, Untouched, UNCHANGED settings
    PROVE  IdInv' /\ live' = live
<1>1. /\ UNCHANGED idVars
      /\ pc \notin {"off", "failed", "load", "register"}
      /\ pc' \notin Provisioning \cup {"register", "run"}
  BY UntouchedPlace
<1>2. mem \in Ids /\ disk \in Ids \cup {NoId, Damaged}
  BY <1>1 DEF IdInv, Loaded, IdTypes
<1> QED
  BY <1>1, <1>2, SessionKeeps DEF idVars

(* refresh_refused_masque_identity: the renewed certificate may reach the    *)
(* disk or not, the two copies stay identities of the same device.           *)
LEMMA RefreshKeeps ==
    ASSUME IdInv, Refresh, UNCHANGED settings
    PROVE  IdInv' /\ live' = live
<1>1. /\ pc = "refresh" /\ pc' \in {"dial", "failed"} /\ UNCHANGED <<refused, live, told>>
  BY DEF Refresh
<1>2. mem \in Ids /\ disk \in Ids \cup {NoId, Damaged}
  BY <1>1 DEF IdInv, Loaded, IdTypes
<1>3. PICK direct \in Answers(mem.dev), fronted \in Answers(mem.dev) :
        IF enroll_key(direct, fronted) = "ok"
        THEN /\ mem' = [mem EXCEPT !.cert = "current", !.age = "fresh"]
             /\ disk' \in {mem', Outdate(disk, mem.dev)}
        ELSE EnrollEffect(enroll_key(direct, fronted))
  BY DEF Refresh
<1>4. mem' \in Ids /\ disk' \in Ids \cup {NoId, Damaged}
  <2>1. CASE enroll_key(direct, fronted) = "ok"
    BY <1>2, <1>3, <2>1 DEF Ids, Outdate
  <2>2. CASE enroll_key(direct, fronted) # "ok"
    BY <1>2, <1>3, <2>2, RefusalKept, EnrollKeeps
  <2> QED
    BY <2>1, <2>2
<1> QED
  BY <1>1, <1>4, SessionKeeps DEF Provisioning

(* What a step of Next is to the identity. *)
LEMMA StepKinds ==
    ASSUME Next
    PROVE  /\ UNCHANGED settings
           /\ \/ Start \/ load_or_provision \/ DeviceDeleted \/ TimePasses \/ Killed
              \/ Untouched \/ Refresh
              \/ UNCHANGED <<pc, idVars>>
  BY DEF Next, Identify, run_masque, Stopped, NetworkChanges, Untouched, idVars

LEMMA StepKeeps ==
    ASSUME IdInv, [Next]_vars
    PROVE  IdInv' /\ (live' \subseteq live \/ disk = NoId \/ told # {})
<1>1. CASE UNCHANGED <<pc, idVars>> /\ UNCHANGED settings
  BY <1>1 DEF idVars, settings, IdInv, IdTypes, Loaded, Untold, WhyRegister, Certified,
     RefusalActedOn, RunsOnWhatIsSaved, RunsOnUsableCertificate
<1>2. CASE UNCHANGED vars
  BY <1>1, <1>2 DEF vars
<1>3. CASE Next
  BY <1>1, <1>3, StepKinds, IdentityStep, IdentityChurn, UntouchedKeeps, RefreshKeeps
<1> QED
  BY <1>2, <1>3

-----------------------------------------------------------------------------
(* Every state of a MASQUE session, from the first start on and across        *)
(* crashes, satisfies the identity's invariant.                               *)
THEOREM MasqueIdentity == Spec => []IdInv
<1>1. Init => IdInv
  BY IdentityInitInv DEF Init
<1>2. IdInv /\ [Next]_vars => IdInv'
  BY StepKeeps
<1> QED
  BY <1>1, <1>2, PTL DEF Spec

(* load_or_provision_masque never goes on with a device whose enrolment was   *)
(* refused over either route, unless AETHER_REPROVISION=0 asks for it (a      *)
(* team's profile refused over the direct route only is not covered, see      *)
(* RefusalActedOn); what a session starts with has been saved, since config::save comes before it on every path that was not  *)
(* refused; and cert_still_usable holds of it.                                *)
THEOREM MasqueRunsOnSoundIdentity == Spec => []RunsOnSoundIdentity
<1>1. IdInv => RunsOnSoundIdentity
  BY DEF IdInv, RunsOnSoundIdentity
<1> QED
  BY <1>1, MasqueIdentity, PTL

(* provision_account is reached for want of a saved identity or after the     *)
(* account said that the saved device is gone, never because the API could    *)
(* not be reached.                                                            *)
THEOREM MasqueNoChurn == Spec => NoChurn
<1>1. IdInv /\ [Next]_vars =>
        [live' \subseteq live \/ disk = NoId \/ told # {}]_<<pc, idVars>>
  BY StepKeeps
<1> QED
  BY <1>1, MasqueIdentity, PTL DEF Spec, NoChurn
-----------------------------------------------------------------------------
(* What a session carries from one attempt to the next.  The parts of its      *)
(* invariant that the properties do not name say at which places a field can  *)
(* hold what it holds: without them no property is kept by the step that      *)
(* follows.                                                                   *)

(* Where run_masque is: in one of the dialling passes, or in its loop. *)
Dialling == {"dial", "rejected", "refresh", "exhausted"}
Looping == {"loop", "hunt", "anycast", "use", "saving", "connect", "up", "sleep"}
Stages == {"none", "first", "firstAgain", "h2", "h2Again"}
Dials == [stage : Stages, list : Seq(Peers), at : Nat \ {0}, count : Nat]

SessionTypes ==
    /\ user \in Users /\ net \in Networks /\ org \in OrgPeers /\ account \in AccountPeers
    /\ fallback \in BOOLEAN /\ status \in {"connecting", "connected"}
    /\ quick \in Peers \cup {NoPeer} /\ lastGood \in Peers \cup {NoPeer}
    /\ peer \in Peers \cup {NoPeer} /\ lastconn \in Peers \cup {NoPeer, Torn}
    /\ dial \in Dials
    /\ renewed \in Nat

(* A pass goes on only below the limit of refusals; only its first run, and  *)
(* the HTTP/2 pass's, can lead to a renewal.                                 *)
PassBounds ==
    /\ dial.count <= IdentityRejectedLimit
    /\ pc \in {"dial", "exhausted"} => dial.count < IdentityRejectedLimit
    /\ pc \in Dialling => dial.stage # "none"
    /\ pc = "refresh" => dial.stage \in {"first", "h2"}

(* How often the certificate can have been renewed, by the pass. *)
Renewals ==
    /\ dial.stage = "first" => renewed = 0
    /\ dial.stage \in {"firstAgain", "h2"} => renewed <= 1
    /\ renewed <= 2

(* The fallback is off in the first pass and on in the check that follows an *)
(* empty HTTP/3 scan.                                                        *)
FallbackPlaced ==
    /\ (pc \in Dialling /\ dial.stage \in {"first", "firstAgain"}) => ~fallback
    /\ pc = "anycast" => fallback

(* The peer of the passes waits only for the next step of the loop, and is   *)
(* the one the last probe accepted, on the transport still in use.           *)
QuickAsVerified == quick # NoPeer => (pc = "loop" /\ verified = <<quick, Transport>>)

(* A tunnel has a peer, which is the one that is remembered; what is         *)
(* remembered belongs to this session.                                       *)
PeerChosen ==
    /\ pc \in {"use", "saving", "connect", "up"} => peer \in Peers
    /\ pc \in {"saving", "connect", "up"} => lastGood = peer
    /\ lastGood # NoPeer => pc \in Looping
    /\ pc \in Dialling \cup Looping => proto = "masque"

MasqueInv ==
    /\ SessionTypes /\ PassBounds /\ Renewals /\ FallbackPlaced /\ QuickAsVerified /\ PeerChosen
    /\ FallbackEarned /\ RetriesWithNewCertificate /\ ConnectedMeansTunnel /\ TunnelAsVerified

-----------------------------------------------------------------------------
(* The candidate lists.  The k-th smallest of a set of positions exists:     *)
(* the least bound below which there are k of them is one of them.           *)
LEMMA KthSmallest ==
    ASSUME NEW n \in Nat, NEW I \in SUBSET (1..n), NEW k \in 1..Cardinality(I)
    PROVE  \E i \in I : Cardinality({j \in I : j <= i}) = k
<1> DEFINE Upto(b) == {j \in I : j <= b}
           B == {b \in Nat : Cardinality(Upto(b)) >= k}
<1>0. \A j \in I : j \in Nat /\ 1 <= j /\ j <= n
  OBVIOUS
<1>1. \A b \in Nat : IsFiniteSet(Upto(b)) /\ Cardinality(Upto(b)) \in Nat
  <2>1. IsFiniteSet(I)
    <3>1. IsFiniteSet(1..n)
      BY FS_Interval
    <3> QED
      BY <3>1, FS_Subset
  <2>2. \A b \in Nat : Upto(b) \in SUBSET I
    OBVIOUS
  <2> QED
    BY <2>1, <2>2, FS_Subset, FS_CardinalityType
<1>2. Upto(n) = I /\ Upto(0) = {}
  <2>1. \A j \in I : j <= n /\ ~(j <= 0)
    BY <1>0
  <2> QED
    BY <2>1, Zenon
<1>3. n \in B /\ 0 \notin B /\ k \in Nat /\ Cardinality(I) \in Nat
  BY <1>1, <1>2, FS_EmptySet
<1> HIDE DEF Upto
<1>4. PICK m \in B : \A b \in B : m <= b
  BY <1>3, NatMin
<1>5. m \in Nat /\ m - 1 \in Nat /\ m - 1 \notin B
  BY <1>3, <1>4
<1>6. Upto(m) = IF m \in I THEN Upto(m - 1) \cup {m} ELSE Upto(m - 1)
  <2>1. \A j \in I : j <= m <=> (j <= m - 1 \/ j = m)
    BY <1>0, <1>5
  <2> QED
    BY <2>1 DEF Upto
<1>7. m \notin Upto(m - 1)
  BY <1>5 DEF Upto
<1>8. m \in I /\ Cardinality(Upto(m)) = Cardinality(Upto(m - 1)) + 1
  BY <1>1, <1>4, <1>5, <1>6, <1>7, FS_AddElement
<1>9. Cardinality(Upto(m)) = k
  BY <1>1, <1>3, <1>4, <1>5, <1>8
<1> QED
  BY <1>8, <1>9 DEF Upto

(* No address is invented by leaving out its repetitions. *)
LEMMA DedupType ==
    ASSUME NEW P, NEW s \in Seq(P)
    PROVE  Dedup(s) \in Seq(P)
<1> DEFINE I == FirstSeen(s)
           At(k) == CHOOSE i \in I : Cardinality({j \in I : j <= i}) = k
<1>1. I \in SUBSET (1..Len(s)) /\ Len(s) \in Nat
  BY DEF FirstSeen
<1>2. Cardinality(I) \in Nat
  <2>1. IsFiniteSet(1..Len(s))
    BY <1>1, FS_Interval
  <2> QED
    BY <1>1, <2>1, FS_Subset, FS_CardinalityType
<1> HIDE DEF I
<1>3. \A k \in 1..Cardinality(I) : At(k) \in I
  BY <1>1, KthSmallest
<1> HIDE DEF At
<1>4. ASSUME NEW k \in 1..Cardinality(I)
      PROVE  s[At(k)] \in P
  <2>1. At(k) \in 1..Len(s)
    BY <1>1, <1>3
  <2> QED
    BY <2>1
<1>5. Dedup(s) \in [1..Cardinality(I) -> P]
  BY <1>4 DEF Dedup, Picked, I, At
<1> QED
  BY <1>2, <1>5

LEMMA CandidatesType ==
    ASSUME SessionTypes
    PROVE  h3_candidates \in Seq(Peers) /\ h2_candidates \in Seq(Peers)
<1>1. \A q : Opt(q) \in Seq(Peers)
  BY DEF Opt
<1>2. KnownPeers \in Seq(Peers)
  <2>1. /\ (IF user.cache /\ user.quick THEN Opt(lastconn) ELSE <<>>) \in Seq(Peers)
        /\ (IF user.cache THEN CachedPeers ELSE <<>>) \in Seq(Peers)
    BY <1>1, MasqueAssumption
  <2>2. \A a, b \in Seq(Peers) : a \o b \in Seq(Peers)
    OBVIOUS
  <2>3. LET known == Opt(org) \o (IF user.cache /\ user.quick THEN Opt(lastconn) ELSE <<>>)
        IN  known \in Seq(Peers) /\ known \o Opt(account) \in Seq(Peers)
    BY <1>1, <2>1, <2>2
  <2> QED
    BY <2>1, <2>2, <2>3, DedupType DEF KnownPeers
<1>3. \A s \in Seq(Peers), n \in Nat : Take(s, n) \in Seq(Peers)
  BY DEF Take
<1>4. /\ KnownPeers \o Take(GatewayPeers, H3ProbeLimit) \in Seq(Peers)
      /\ KnownPeers \o Take(H2GatewayPeers, H2ProbeLimit) \in Seq(Peers)
  BY <1>2, <1>3, MasqueAssumption
<1> QED
  BY <1>4, DedupType DEF h3_candidates, h2_candidates

(* No pass, and the place in one. *)
LEMMA NoDialType == NoDial \in Dials
<1>1. <<>> \in Seq(Peers)
  OBVIOUS
<1> QED
  BY <1>1 DEF NoDial, Dials, Stages

-----------------------------------------------------------------------------
(* A session begins with nothing verified and the fallback cleared. *)
LEMMA BeginSound ==
    ASSUME MasqueInv, Begin, UNCHANGED settings
    PROVE  MasqueInv'
<1> USE MasqueAssumption DEF Begin, idVars, settings, NoDial, Accept, Dialling, Looping, Stages, Dials
<1>1. SessionTypes'
  <2>1. h3_candidates \in Seq(Peers)
    BY CandidatesType DEF MasqueInv
  <2>2. dial' \in Dials
    BY <2>1, NoDialType
  <2> QED
    BY <2>2 DEF MasqueInv, SessionTypes
<1>2. PassBounds' /\ Renewals'
  BY DEF MasqueInv, SessionTypes, PassBounds, Renewals
<1>3. FallbackPlaced'
  BY DEF MasqueInv, SessionTypes, FallbackPlaced, PassBounds
<1>4. QuickAsVerified' /\ TunnelAsVerified'
  BY DEF MasqueInv, SessionTypes, QuickAsVerified, TunnelAsVerified, Transport
<1>5. PeerChosen' /\ ConnectedMeansTunnel'
  BY DEF MasqueInv, SessionTypes, PeerChosen, ConnectedMeansTunnel
<1>6. FallbackEarned' /\ RetriesWithNewCertificate'
  BY DEF MasqueInv, SessionTypes, FallbackEarned, FallbackPlaced, PassBounds,
     RetriesWithNewCertificate, Transport
<1> QED
  BY <1>1, <1>2, <1>3, <1>4, <1>5, <1>6 DEF MasqueInv

(* An accepted candidate is the verified one; a refusal counts. *)
LEMMA DialNextSound ==
    ASSUME MasqueInv, DialNext, UNCHANGED settings
    PROVE  MasqueInv'
<1> DEFINE p == dial.list[dial.at]
<1>1. p \in Peers /\ p # NoPeer /\ pc = "dial"
  BY MasqueAssumption DEF DialNext, MasqueInv, SessionTypes, Dials
<1>2. UNCHANGED <<idVars, user, net, org, account, fallback, lastGood, lastconn, peer,
                  status, renewed>>
  BY DEF DialNext
<1>3. CASE verified' = <<p, Transport>> /\ quick' = p /\ dial' = NoDial /\ pc' = "loop"
  <2>1. SessionTypes'
    BY <1>1, <1>2, <1>3, NoDialType DEF MasqueInv, SessionTypes
  <2>2. PassBounds' /\ Renewals' /\ FallbackPlaced'
    BY <1>2, <1>3, MasqueAssumption
    DEF NoDial, MasqueInv, SessionTypes, PassBounds, Renewals, FallbackPlaced, Dialling
  <2>3. Transport' = Transport
    BY <1>2 DEF Transport
  <2>4. QuickAsVerified' /\ TunnelAsVerified' /\ RetriesWithNewCertificate'
    BY <1>3, <2>3 DEF QuickAsVerified, TunnelAsVerified, RetriesWithNewCertificate
  <2>5. FallbackEarned' /\ PeerChosen' /\ ConnectedMeansTunnel'
    BY <1>1, <1>2, <1>3
    DEF MasqueInv, FallbackEarned, PeerChosen, ConnectedMeansTunnel, Transport, Dialling,
        Looping, settings
  <2> QED
    BY <2>1, <2>2, <2>4, <2>5 DEF MasqueInv
<1>4. CASE /\ dial' = [dial EXCEPT !.at = @ + 1, !.count = @ + 1]
           /\ pc' = IF dial.count + 1 >= IdentityRejectedLimit THEN "rejected" ELSE "dial"
           /\ UNCHANGED <<quick, verified>>
  <2>0. dial \in Dials /\ dial' = [dial EXCEPT !.at = @ + 1, !.count = @ + 1]
    BY <1>4 DEF MasqueInv, SessionTypes
  <2>1. /\ dial' \in Dials /\ dial.count \in Nat
        /\ dial'.stage = dial.stage /\ dial'.count = dial.count + 1
    <3>1. /\ dial.stage \in Stages /\ dial.list \in Seq(Peers) /\ dial.at \in Nat \ {0}
          /\ dial.count \in Nat
      BY <2>0 DEF Dials
    <3>2. dial' = [stage |-> dial.stage, list |-> dial.list, at |-> dial.at + 1,
                   count |-> dial.count + 1]
      BY <2>0 DEF Dials
    <3> QED
      BY <3>1, <3>2 DEF Dials
  <2>2. pc' = "dial" => dial'.count < IdentityRejectedLimit
    BY <1>4, <2>1, MasqueAssumption
  <2> QED
    BY <1>1, <1>2, <1>4, <2>1, <2>2, MasqueAssumption DEF idVars, settings,
     MasqueInv, SessionTypes, PassBounds, Renewals, FallbackPlaced,
     QuickAsVerified, PeerChosen, FallbackEarned, RetriesWithNewCertificate,
     ConnectedMeansTunnel, TunnelAsVerified, Transport, Dialling, Looping
<1>5. CASE /\ dial' = [dial EXCEPT !.at = @ + 1] /\ UNCHANGED <<pc, quick, verified>>
  <2>1. dial' \in Dials /\ dial'.stage = dial.stage /\ dial'.count = dial.count
    BY <1>5 DEF MasqueInv, SessionTypes, Dials
  <2> QED
    BY <1>1, <1>2, <1>5, <2>1 DEF idVars, settings,
     MasqueInv, SessionTypes, PassBounds, Renewals, FallbackPlaced,
     QuickAsVerified, PeerChosen, FallbackEarned, RetriesWithNewCertificate,
     ConnectedMeansTunnel, TunnelAsVerified, Transport, Dialling, Looping
<1> QED
  BY <1>3, <1>4, <1>5 DEF DialNext, Accept

(* A pass that is over has stayed below the limit. *)
LEMMA DialDoneSound ==
    ASSUME MasqueInv, DialDone, UNCHANGED settings
    PROVE  MasqueInv'
  BY MasqueAssumption DEF DialDone, idVars, settings, NoDial, masqueVars, Accept, MasqueInv, SessionTypes, PassBounds, Renewals, FallbackPlaced,
     QuickAsVerified, PeerChosen, FallbackEarned, RetriesWithNewCertificate,
     ConnectedMeansTunnel, TunnelAsVerified, Transport, Dialling, Looping, Stages, Dials

(* Only a first run of a pass leads to a renewal. *)
LEMMA RejectedSound ==
    ASSUME MasqueInv, Rejected, UNCHANGED settings
    PROVE  MasqueInv'
  BY MasqueAssumption DEF Rejected, idVars, settings, NoDial, masqueVars, Accept, MasqueInv, SessionTypes, PassBounds, Renewals, FallbackPlaced,
     QuickAsVerified, PeerChosen, FallbackEarned, RetriesWithNewCertificate,
     ConnectedMeansTunnel, TunnelAsVerified, Transport, Dialling, Looping, Stages, Dials

(* The HTTP/2 pass sets the fallback and may carry the refusals along. *)
LEMMA ToHttp2Sound ==
    ASSUME MasqueInv, ToHttp2, UNCHANGED settings
    PROVE  MasqueInv'
<1> USE MasqueAssumption DEF ToHttp2, idVars, settings, NoDial, Accept, Dialling, Looping, Stages, Dials
<1>1. SessionTypes'
  <2>1. h2_candidates \in Seq(Peers)
    BY CandidatesType DEF MasqueInv
  <2>2. dial' \in Dials
    <3>1. CASE Transport = "h2"
      BY <3>1, NoDialType
    <3>2. CASE Transport # "h2"
      BY <2>1, <3>2 DEF MasqueInv, SessionTypes
    <3> QED
      BY <3>1, <3>2
  <2> QED
    BY <2>2 DEF MasqueInv, SessionTypes
<1>2. PassBounds' /\ Renewals'
  BY DEF MasqueInv, SessionTypes, PassBounds, Renewals
<1>3. FallbackPlaced'
  BY DEF MasqueInv, SessionTypes, FallbackPlaced, PassBounds
<1>4. QuickAsVerified' /\ TunnelAsVerified'
  BY DEF MasqueInv, SessionTypes, QuickAsVerified, TunnelAsVerified, Transport
<1>5. PeerChosen' /\ ConnectedMeansTunnel'
  BY DEF MasqueInv, SessionTypes, PeerChosen, ConnectedMeansTunnel
<1>6. FallbackEarned' /\ RetriesWithNewCertificate'
  BY DEF MasqueInv, SessionTypes, FallbackEarned, FallbackPlaced, PassBounds,
     RetriesWithNewCertificate, Transport
<1> QED
  BY <1>1, <1>2, <1>3, <1>4, <1>5, <1>6 DEF MasqueInv

(* An HTTP/2 pass without success takes the fallback back. *)
LEMMA BackToHttp3Sound ==
    ASSUME MasqueInv, BackToHttp3, UNCHANGED settings
    PROVE  MasqueInv'
<1> USE MasqueAssumption DEF BackToHttp3, idVars, settings, NoDial, Accept, Dialling, Looping, Stages, Dials
<1>1. SessionTypes'
  <2>1. dial' \in Dials
    BY NoDialType
  <2> QED
    BY <2>1 DEF MasqueInv, SessionTypes
<1>2. PassBounds' /\ Renewals'
  BY DEF MasqueInv, SessionTypes, PassBounds, Renewals
<1>3. FallbackPlaced'
  BY DEF MasqueInv, SessionTypes, FallbackPlaced, PassBounds
<1>4. QuickAsVerified' /\ TunnelAsVerified'
  BY DEF MasqueInv, SessionTypes, QuickAsVerified, TunnelAsVerified, Transport
<1>5. PeerChosen' /\ ConnectedMeansTunnel'
  BY DEF MasqueInv, SessionTypes, PeerChosen, ConnectedMeansTunnel
<1>6. FallbackEarned' /\ RetriesWithNewCertificate'
  BY DEF MasqueInv, SessionTypes, FallbackEarned, FallbackPlaced, PassBounds,
     RetriesWithNewCertificate, Transport
<1> QED
  BY <1>1, <1>2, <1>3, <1>4, <1>5, <1>6 DEF MasqueInv

(* The loop's peer is the verified one or the forced one. *)
LEMMA ChooseSound ==
    ASSUME MasqueInv, Choose, UNCHANGED settings
    PROVE  MasqueInv'
  BY MasqueAssumption DEF Choose, idVars, settings, NoDial, Accept, MasqueInv, SessionTypes, PassBounds, Renewals, FallbackPlaced,
     QuickAsVerified, PeerChosen, FallbackEarned, RetriesWithNewCertificate,
     ConnectedMeansTunnel, TunnelAsVerified, Transport, Dialling, Looping, Stages, Dials

(* A scan's find is the verified one. *)
LEMMA HuntSound ==
    ASSUME MasqueInv, Hunt, UNCHANGED settings
    PROVE  MasqueInv'
<1> USE MasqueAssumption DEF Hunt, idVars, settings, NoDial, Accept, Found, Announced, Dialling, Looping, Stages, Dials
<1>1. SessionTypes'
  BY DEF MasqueInv, SessionTypes
<1>2. PassBounds' /\ Renewals'
  BY DEF MasqueInv, SessionTypes, PassBounds, Renewals
<1>3. FallbackPlaced'
  BY DEF MasqueInv, SessionTypes, FallbackPlaced, PassBounds
<1>4. QuickAsVerified' /\ TunnelAsVerified'
  BY DEF MasqueInv, SessionTypes, QuickAsVerified, TunnelAsVerified, Transport
<1>5. PeerChosen' /\ ConnectedMeansTunnel'
  BY DEF MasqueInv, SessionTypes, PeerChosen, ConnectedMeansTunnel
<1>6. FallbackEarned' /\ RetriesWithNewCertificate'
  BY DEF MasqueInv, SessionTypes, FallbackEarned, FallbackPlaced, PassBounds,
     RetriesWithNewCertificate, Transport
<1> QED
  BY <1>1, <1>2, <1>3, <1>4, <1>5, <1>6 DEF MasqueInv

(* The HTTP/2 check keeps the fallback only with a find. *)
LEMMA HuntAnycastSound ==
    ASSUME MasqueInv, HuntAnycast, UNCHANGED settings
    PROVE  MasqueInv'
<1> USE MasqueAssumption DEF HuntAnycast, idVars, settings, NoDial, Accept, Found, Dialling, Looping, Stages, Dials
<1>0. ToSet(GatewayPeers) \subseteq Peers /\ fallback /\ pc = "anycast"
  BY DEF ToSet, MasqueInv, FallbackPlaced
<1>1. SessionTypes'
  BY <1>0 DEF MasqueInv, SessionTypes
<1>2. PassBounds' /\ Renewals'
  BY DEF MasqueInv, SessionTypes, PassBounds, Renewals
<1>3. FallbackPlaced'
  BY DEF MasqueInv, SessionTypes, FallbackPlaced, PassBounds
<1>4. QuickAsVerified' /\ TunnelAsVerified'
  BY DEF MasqueInv, SessionTypes, QuickAsVerified, TunnelAsVerified, Transport
<1>5. PeerChosen' /\ ConnectedMeansTunnel'
  BY <1>0 DEF MasqueInv, SessionTypes, PeerChosen, ConnectedMeansTunnel
<1>6. FallbackEarned' /\ RetriesWithNewCertificate'
  <2>1. Transport = "h2"
    BY <1>0 DEF Transport
  <2>2. fallback' => \E p \in Peers : verified' = <<p, "h2">>
    BY <1>0, <2>1
  <2>3. pc' \in {"use", "sleep"}
    OBVIOUS
  <2> QED
    BY <2>2, <2>3 DEF FallbackEarned, RetriesWithNewCertificate
<1> QED
  BY <1>1, <1>2, <1>3, <1>4, <1>5, <1>6 DEF MasqueInv

(* The peer of the tunnel is the one remembered. *)
LEMMA RememberSound ==
    ASSUME MasqueInv, Remember, UNCHANGED settings
    PROVE  MasqueInv'
  BY MasqueAssumption DEF Remember, idVars, settings, NoDial, Accept, MasqueInv, SessionTypes, PassBounds, Renewals, FallbackPlaced,
     QuickAsVerified, PeerChosen, FallbackEarned, RetriesWithNewCertificate,
     ConnectedMeansTunnel, TunnelAsVerified, Transport, Dialling, Looping, Stages, Dials

(* The file catches up. *)
LEMMA RememberedSound ==
    ASSUME MasqueInv, Remembered, UNCHANGED settings
    PROVE  MasqueInv'
  BY MasqueAssumption DEF Remembered, idVars, settings, NoDial, Accept, MasqueInv, SessionTypes, PassBounds, Renewals, FallbackPlaced,
     QuickAsVerified, PeerChosen, FallbackEarned, RetriesWithNewCertificate,
     ConnectedMeansTunnel, TunnelAsVerified, Transport, Dialling, Looping, Stages, Dials

(* The app is told of a tunnel that is up. *)
LEMMA TunnelUpSound ==
    ASSUME MasqueInv, TunnelUp, UNCHANGED settings
    PROVE  MasqueInv'
  BY MasqueAssumption DEF TunnelUp, idVars, settings, NoDial, Accept, MasqueInv, SessionTypes, PassBounds, Renewals, FallbackPlaced,
     QuickAsVerified, PeerChosen, FallbackEarned, RetriesWithNewCertificate,
     ConnectedMeansTunnel, TunnelAsVerified, Transport, Dialling, Looping, Stages, Dials

(* And of its end. *)
LEMMA TunnelDownSound ==
    ASSUME MasqueInv, TunnelDown, UNCHANGED settings
    PROVE  MasqueInv'
  BY MasqueAssumption DEF TunnelDown, idVars, settings, NoDial, Accept, MasqueInv, SessionTypes, PassBounds, Renewals, FallbackPlaced,
     QuickAsVerified, PeerChosen, FallbackEarned, RetriesWithNewCertificate,
     ConnectedMeansTunnel, TunnelAsVerified, Transport, Dialling, Looping, Stages, Dials

(* A pause forgets nothing. *)
LEMMA SleepSound ==
    ASSUME MasqueInv, Sleep, UNCHANGED settings
    PROVE  MasqueInv'
  BY MasqueAssumption DEF Sleep, idVars, settings, NoDial, masqueVars, Accept, MasqueInv, SessionTypes, PassBounds, Renewals, FallbackPlaced,
     QuickAsVerified, PeerChosen, FallbackEarned, RetriesWithNewCertificate,
     ConnectedMeansTunnel, TunnelAsVerified, Transport, Dialling, Looping, Stages, Dials

(* The network is not the session's. *)
LEMMA NetworkChangesSound ==
    ASSUME MasqueInv, NetworkChanges, UNCHANGED settings
    PROVE  MasqueInv'
  BY MasqueAssumption DEF NetworkChanges, idVars, settings, NoDial, Accept, MasqueInv, SessionTypes, PassBounds, Renewals, FallbackPlaced,
     QuickAsVerified, PeerChosen, FallbackEarned, RetriesWithNewCertificate,
     ConnectedMeansTunnel, TunnelAsVerified, Transport, Dialling, Looping, Stages, Dials

(* A stop clears the session. *)
LEMMA StoppedSound ==
    ASSUME MasqueInv, Stopped, UNCHANGED settings
    PROVE  MasqueInv'
  BY MasqueAssumption DEF Stopped, idVars, settings, NoDial, Killed, Accept, MasqueInv, SessionTypes, PassBounds, Renewals, FallbackPlaced,
     QuickAsVerified, PeerChosen, FallbackEarned, RetriesWithNewCertificate,
     ConnectedMeansTunnel, TunnelAsVerified, Transport, Dialling, Looping, Stages, Dials

(* A renewal happens once in each pass and leaves the new certificate in     *)
(* memory.                                                                   *)
LEMMA RefreshSound ==
    ASSUME MasqueInv, IdInv, Refresh, UNCHANGED settings
    PROVE  MasqueInv'
<1>1. mem \in Ids /\ pc = "refresh"
  BY DEF Refresh, IdInv, Loaded
<1>2. \/ /\ mem' = [mem EXCEPT !.cert = "current", !.age = "fresh"]
         /\ renewed' = renewed + 1 /\ pc' = "dial"
         /\ dial' = [dial EXCEPT !.at = 1, !.count = 0,
                           !.stage = IF @ = "first" THEN "firstAgain" ELSE "h2Again"]
      \/ pc' = "failed" /\ UNCHANGED <<dial, renewed>>
  BY DEF Refresh
<1>3. UNCHANGED <<user, net, org, account, fallback, quick, lastGood, lastconn, peer, status,
                  verified>>
  BY DEF Refresh
<1>4. CASE pc' = "failed" /\ UNCHANGED <<dial, renewed>>
  BY <1>1, <1>3, <1>4 DEF settings, MasqueInv, SessionTypes, PassBounds, Renewals, FallbackPlaced,
     QuickAsVerified, PeerChosen, FallbackEarned, RetriesWithNewCertificate,
     ConnectedMeansTunnel, TunnelAsVerified, Transport, Dialling, Looping, Stages, Dials
<1>5. CASE ~(pc' = "failed" /\ UNCHANGED <<dial, renewed>>)
  <2>0. /\ dial \in Dials
        /\ dial' = [dial EXCEPT !.at = 1, !.count = 0,
                        !.stage = IF @ = "first" THEN "firstAgain" ELSE "h2Again"]
    BY <1>2, <1>5 DEF MasqueInv, SessionTypes
  <2>1. /\ dial' \in Dials /\ dial'.count = 0
        /\ dial'.stage = IF dial.stage = "first" THEN "firstAgain" ELSE "h2Again"
    <3>1. dial.stage \in Stages /\ dial.list \in Seq(Peers)
      BY <2>0 DEF Dials
    <3>2. dial' = [stage |-> IF dial.stage = "first" THEN "firstAgain" ELSE "h2Again",
                   list |-> dial.list, at |-> 1, count |-> 0]
      BY <2>0 DEF Dials
    <3> QED
      BY <3>1, <3>2 DEF Dials, Stages
  <2>2. mem'.cert = "current" /\ renewed' = renewed + 1 /\ pc' = "dial"
    BY <1>1, <1>2, <1>5 DEF Ids
  <2>3. dial.stage \in {"first", "h2"} /\ quick = NoPeer
    BY <1>1 DEF MasqueInv, PassBounds, QuickAsVerified
  <2>4. SessionTypes' /\ PassBounds' /\ Renewals'
    BY <1>1, <1>3, <2>1, <2>2, <2>3, MasqueAssumption
    DEF MasqueInv, SessionTypes, PassBounds, Renewals, Dialling
  <2>5. FallbackPlaced' /\ QuickAsVerified' /\ PeerChosen'
    BY <1>1, <1>3, <2>1, <2>2, <2>3
    DEF settings, MasqueInv, FallbackPlaced, QuickAsVerified, PeerChosen, Dialling, Looping
  <2>6. /\ FallbackEarned' /\ RetriesWithNewCertificate' /\ ConnectedMeansTunnel'
        /\ TunnelAsVerified'
    BY <1>1, <1>3, <2>2
    DEF MasqueInv, FallbackEarned, RetriesWithNewCertificate, ConnectedMeansTunnel, TunnelAsVerified
  <2> QED
    BY <2>4, <2>5, <2>6 DEF MasqueInv
<1> QED
  BY <1>2, <1>4, <1>5

(* The steps of a start and of its surroundings leave the session alone. *)
LEMMA OutsideSound ==
    ASSUME MasqueInv, Start \/ load_or_provision \/ DeviceDeleted \/ TimePasses,
           UNCHANGED masqueVars, UNCHANGED settings
    PROVE  MasqueInv'
<1>1. CASE Start \/ load_or_provision
  BY <1>1, StartPlace DEF masqueVars, settings, StartPlaces, Provisioning, MasqueInv, SessionTypes, PassBounds, Renewals, FallbackPlaced,
     QuickAsVerified, PeerChosen, FallbackEarned, RetriesWithNewCertificate,
     ConnectedMeansTunnel, TunnelAsVerified, Transport, Dialling, Looping, Stages, Dials
<1>2. CASE DeviceDeleted \/ TimePasses
  BY <1>2 DEF DeviceDeleted, TimePasses, masqueVars, settings, MasqueInv, SessionTypes, PassBounds, Renewals, FallbackPlaced,
     QuickAsVerified, PeerChosen, FallbackEarned, RetriesWithNewCertificate,
     ConnectedMeansTunnel, TunnelAsVerified, Transport, Dialling, Looping, Stages, Dials
<1> QED
  BY <1>1, <1>2

(* A session that has not begun remembers nothing. *)
LEMMA MasqueInitInv == Init => MasqueInv
<1> SUFFICES ASSUME Init PROVE MasqueInv
  OBVIOUS
<1>1. SessionTypes
  BY NoDialType DEF Init, SessionTypes
<1>2. dial.count = 0 /\ dial.stage = "none"
  BY DEF Init, NoDial
<1> QED
  BY <1>1, <1>2, MasqueAssumption DEF Init, IdentityInit, MasqueInv, PassBounds, Renewals,
     FallbackPlaced, QuickAsVerified, PeerChosen, FallbackEarned, RetriesWithNewCertificate,
     ConnectedMeansTunnel, TunnelAsVerified, Dialling, Looping

(* Every step of run_masque, of load_or_provision_masque and of the user    *)
(* keeps the session's invariant.                                            *)
LEMMA MasqueStep ==
    ASSUME MasqueInv, IdInv, [Next]_vars
    PROVE  MasqueInv'
<1>1. CASE UNCHANGED vars
  BY <1>1 DEF vars, masqueVars, idVars, settings, MasqueInv, SessionTypes, PassBounds, Renewals, FallbackPlaced,
     QuickAsVerified, PeerChosen, FallbackEarned, RetriesWithNewCertificate,
     ConnectedMeansTunnel, TunnelAsVerified, Transport, Dialling, Looping, Stages, Dials
<1>2. CASE Next
  BY <1>2, OutsideSound, BeginSound, DialNextSound, DialDoneSound, RejectedSound, RefreshSound,
     ToHttp2Sound, BackToHttp3Sound, ChooseSound, HuntSound, HuntAnycastSound, RememberSound,
     RememberedSound, TunnelUpSound, TunnelDownSound, SleepSound, NetworkChangesSound,
     StoppedSound
  DEF Next, Identify, run_masque
<1> QED
  BY <1>1, <1>2

(* The invariant holds in every state of every session: it is inductive       *)
(* beside that of the identity, which says that a renewal has an identity to  *)
(* renew.                                                                     *)
THEOREM MasqueInvariant == Spec => [](MasqueInv /\ IdInv)
<1>1. Init => MasqueInv
  BY MasqueInitInv
<1>2. MasqueInv /\ IdInv /\ [Next]_vars => MasqueInv'
  BY MasqueStep
<1> QED
  BY <1>1, <1>2, MasqueIdentity, PTL DEF Spec

(* run_masque leaves the HTTP/2 fallback set only after HTTP/2 worked, dials   *)
(* again after a renewal only with the new certificate, renews at most twice   *)
(* and tells the app "connected" only while its tunnel is up, unless Ironclad  *)
(* probes announce themselves.                                                 *)
THEOREM MasqueIsSafe == Spec => []MasqueSafety
<1>1. MasqueInv /\ IdInv => MasqueSafety
  <2> SUFFICES ASSUME MasqueInv, IdInv PROVE MasqueSafety
    OBVIOUS
  <2>1. IdentityTypeOK
    BY DEF IdInv, IdTypes, Loaded, IdentityTypeOK
  <2>2. renewed \in 0..2
    BY DEF MasqueInv, SessionTypes, Renewals
  <2> QED
    BY <2>1, <2>2 DEF MasqueInv, SessionTypes, PassBounds, MasqueSafety, TypeOK
<1> QED
  BY <1>1, MasqueInvariant, PTL

(* Whatever is scanned, chosen or remembered in between, run_masque_tunnel is  *)
(* called with the gateway and over the transport of the last probe that was   *)
(* accepted.                                                                   *)
THEOREM MasqueTunnelAsVerified == Spec => []TunnelAsVerified
<1>1. MasqueInv => TunnelAsVerified
  BY DEF MasqueInv
<1> QED
  BY <1>1, MasqueInvariant, PTL

-----------------------------------------------------------------------------
(* The session's steps are those of CoreSession.  What the phase is, by place; *)
(* the provers take a CASE apart once and not in every step.                   *)
PhaseIs(at, protocol, phase) ==
    phase = IF at = "off" \/ protocol # "masque" THEN "idle"
            ELSE IF at = "failed" THEN "failed"
            ELSE IF at \in {"saving", "connect"} THEN "trying"
            ELSE IF at = "up" THEN "up"
            ELSE IF at = "sleep" THEN "pausing" ELSE "choosing"

LEMMA PhaseByPlace == PhaseIs(pc, proto, Phase) /\ PhaseIs(pc', proto', Phase')
<1>1. PhaseIs(pc, proto, Phase)
  <2>1. CASE pc = "off" \/ proto # "masque"
    BY <2>1, Zenon DEF PhaseIs, Phase
  <2>2. CASE pc \in {"failed", "saving", "connect", "up", "sleep"} /\ proto = "masque"
    BY <2>2, Zenon DEF PhaseIs, Phase
  <2>3. CASE pc \notin {"off", "failed", "saving", "connect", "up", "sleep"} /\ proto = "masque"
    BY <2>3, Zenon DEF PhaseIs, Phase
  <2> QED
    BY <2>1, <2>2, <2>3
<1>2. PhaseIs(pc', proto', Phase')
  <2>1. CASE pc' = "off" \/ proto' # "masque"
    BY <2>1, Zenon DEF PhaseIs, Phase
  <2>2. CASE pc' \in {"failed", "saving", "connect", "up", "sleep"} /\ proto' = "masque"
    BY <2>2, Zenon DEF PhaseIs, Phase
  <2>3. CASE pc' \notin {"off", "failed", "saving", "connect", "up", "sleep"} /\ proto' = "masque"
    BY <2>3, Zenon DEF PhaseIs, Phase
  <2> QED
    BY <2>1, <2>2, <2>3
<1> QED
  BY <1>1, <1>2

(* A start leads from idle or failed to a session that looks for a peer, and  *)
(* may fail before one was tried.                                             *)
LEMMA StartIsCore ==
    ASSUME MasqueInv, Start \/ load_or_provision, UNCHANGED masqueVars, UNCHANGED settings
    PROVE  [Core!CoreNext]_(Core!coreVars)
<1>1. /\ pc \in StartPlaces /\ pc' \in StartPlaces
      /\ lastGood = NoPeer /\ lastGood' = NoPeer /\ proto' = proto
      /\ pc' # "off"
      /\ pc \in {"off", "failed"} => pc' = "load"
  BY StartPlace DEF StartPlaces, Provisioning, Looping, MasqueInv, PeerChosen, masqueVars, settings,
     Start, load_or_provision, LoadNothing, LoadDamaged, LoadSaved, AdoptSaved, EnrollSaved,
     Register, EnrollNew, AdoptNew, Save
<1> QED
  BY <1>1, PhaseByPlace DEF PhaseIs, StartPlaces, Provisioning, Core!coreVars, Core!CoreNext,
     Core!CoreBegin, Core!CoreFail

(* Looking for a peer: nothing is seen of it but its end. *)
LEMMA LookingIsCore ==
    ASSUME MasqueInv, UNCHANGED settings,
           \/ Begin \/ DialNext \/ DialDone \/ Rejected \/ Refresh \/ ToHttp2 \/ BackToHttp3
           \/ Choose \/ Hunt \/ HuntAnycast
    PROVE  [Core!CoreNext]_(Core!coreVars)
<1>1. /\ pc \in Dialling \cup {"run", "loop", "hunt", "anycast"}
      /\ pc' \in Dialling \cup {"loop", "hunt", "anycast", "use", "failed", "sleep"}
      /\ pc' = "failed" => pc \in Dialling
  BY Zenon DEF Dialling, Begin, DialNext, DialDone, Rejected, Refresh, ToHttp2, BackToHttp3, Choose,
     Hunt, HuntAnycast
<1>2. lastGood' = lastGood /\ (pc \in Dialling => lastGood = NoPeer) /\ proto' = proto
  BY DEF MasqueInv, PeerChosen, Dialling, Looping, settings, masqueVars, Begin, DialNext, DialDone,
     Rejected, Refresh, ToHttp2, BackToHttp3, Choose, Hunt, HuntAnycast
<1> QED
  BY <1>1, <1>2, PhaseByPlace DEF PhaseIs, Dialling, Core!coreVars, Core!CoreNext, Core!CoreFail,
     Core!CoreFoundNothing

(* Trying the peer, and what comes of it. *)
LEMMA TryingIsCore ==
    ASSUME MasqueInv, UNCHANGED settings,
           Remember \/ Remembered \/ TunnelUp \/ TunnelDown \/ Sleep
    PROVE  [Core!CoreNext]_(Core!coreVars)
<1>1. /\ pc \in Looping /\ proto = "masque" /\ proto' = "masque"
      /\ \/ pc = "use" /\ pc' \in {"saving", "connect"} /\ lastGood' # NoPeer
         \/ pc = "saving" /\ pc' = "connect" /\ lastGood' = lastGood
         \/ pc = "connect" /\ pc' = "up" /\ lastGood' = lastGood
         \/ pc \in {"connect", "up"} /\ pc' = "sleep" /\ lastGood' = lastGood
         \/ pc = "sleep" /\ pc' = "loop" /\ lastGood' = lastGood
  BY MasqueAssumption DEF MasqueInv, PeerChosen, Dialling, Looping, settings, masqueVars, Remember,
     Remembered, TunnelUp, TunnelDown, Sleep
<1> QED
  BY <1>1, PhaseByPlace DEF PhaseIs, Core!coreVars, Core!CoreNext, Core!CoreTry, Core!CoreUp,
     Core!CoreLose, Core!CoreResume

(* A stop, and what happens around the session. *)
LEMMA AroundIsCore ==
    ASSUME MasqueInv, UNCHANGED settings,
           \/ Stopped \/ NetworkChanges
           \/ (DeviceDeleted \/ TimePasses) /\ UNCHANGED masqueVars
    PROVE  [Core!CoreNext]_(Core!coreVars)
<1>1. \/ pc # "off" /\ pc' = "off" /\ lastGood' = NoPeer
      \/ pc' = pc /\ lastGood' = lastGood
  BY DEF Stopped, Killed, NetworkChanges, DeviceDeleted, TimePasses, masqueVars
<1>2. proto' = proto /\ (proto # "masque" => lastGood = NoPeer)
  BY DEF settings, MasqueInv, PeerChosen
<1> QED
  BY <1>1, <1>2, PhaseByPlace DEF PhaseIs, Core!coreVars, Core!CoreNext, Core!CoreStop

(* Every step is a step of the abstract session or leaves it alone. *)
LEMMA NextIsCore ==
    ASSUME MasqueInv, [Next]_vars
    PROVE  [Core!CoreNext]_(Core!coreVars)
<1>1. CASE UNCHANGED vars
  BY <1>1 DEF vars, masqueVars, settings, Phase, Core!coreVars
<1>2. CASE Next
  BY <1>2, StartIsCore, LookingIsCore, TryingIsCore, AroundIsCore DEF Next, Identify, run_masque
<1> QED
  BY <1>1, <1>2

(* The safety half of ImplementsCore, step by step: run_masque gives up only   *)
(* before the first tunnel was tried, and every attempt, loss and pause is one *)
(* of the abstract session's.                                                  *)
THEOREM MasqueRefinesCore == Spec => Core!CoreSafe
<1>1. Init => Core!CoreInit
  BY PhaseByPlace DEF Init, IdentityInit, Core!CoreInit, PhaseIs
<1>2. MasqueInv /\ [Next]_vars => [Core!CoreNext]_(Core!coreVars)
  BY NextIsCore
<1> QED
  BY <1>1, <1>2, MasqueInvariant, PTL DEF Spec, Core!CoreSafe

=============================================================================
