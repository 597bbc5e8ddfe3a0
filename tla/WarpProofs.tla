----------------------------- MODULE WarpProofs -----------------------------
(***************************************************************************)
(* run_wireguard and run_gool, proved for every set of endpoints, every     *)
(* list of profiles, every setting and network: what a loop dials has       *)
(* passed a check since it was last given up, an endpoint that failed too   *)
(* often is left alone until its cooldown is over, and the session is the   *)
(* abstract one.                                                            *)
(*                                                                          *)
(* Neither property is inductive: what is dialled may come from the start's *)
(* check, from the memory of the last round or from a scan, so the          *)
(* invariant says of each source where it may still be used and what is     *)
(* known of it there.                                                       *)
(***************************************************************************)
EXTENDS WarpSession, IdentityProofs

(* Where a session is once its identity is loaded, and where it has a target. *)
Looping == {"loop", "pick", "use", "saving", "connect", "up", "sleep"}
InRound == {"use", "saving", "connect", "up"}

SessionTypes ==
    /\ user \in Users /\ net \in Networks /\ org \in OrgAddrs
    /\ quick \in Targets \cup {NoTarget} /\ lastGood \in Targets \cup {NoTarget}
    /\ target \in Targets \cup {NoTarget} /\ checked \in Targets \cup {NoTarget}
    /\ lastconn \in Targets \cup {NoTarget, Torn}
    /\ cooldowns \subseteq Addrs /\ cooling \subseteq cooldowns
    /\ fails \in Nat /\ tried \in BOOLEAN

(* A round begins below the limit of failures, so the one failure it can add *)
(* does not exceed it.                                                       *)
FailsBounded ==
    /\ fails <= MaxConsecutiveFails
    /\ pc \in InRound \cup {"pick"} => fails < MaxConsecutiveFails

(* A session begins with an empty memory. *)
BeginsFresh ==
    pc \notin Looping =>
        /\ quick = NoTarget /\ lastGood = NoTarget /\ fails = 0
        /\ cooldowns = {} /\ cooling = {} /\ ~tried

RoundTarget ==
    /\ pc \in InRound => target \in Targets
    /\ pc \in InRound \ {"use"} => lastGood = target

(* run_wireguard: the endpoint verified at the start is taken by the first    *)
(* round, before anything was remembered or put aside.                        *)
QuickFirst ==
    (~user.gool /\ quick # NoTarget) =>
        pc \in {"loop", "pick"} /\ quick = checked /\ lastGood = NoTarget /\ cooling = {}

(* run_gool: what the next round takes up unchecked has passed since it was   *)
(* last given up, except between a selection and its being remembered.        *)
Known == IF lastGood # NoTarget THEN lastGood ELSE quick
KnownPassed ==
    (/\ user.gool /\ user.forced = NoTarget /\ fails < MaxConsecutiveFails
     /\ pc \in Looping \ {"use"} /\ Known # NoTarget) => Known = checked

(* What is remembered is not put aside. *)
MemoryNotCooling ==
    (~user.gool /\ user.forced = NoTarget /\ lastGood # NoTarget) => lastGood[1] \notin cooling

WarpInv ==
    /\ SessionTypes /\ FailsBounded /\ BeginsFresh /\ RoundTarget /\ QuickFirst /\ KnownPassed
    /\ MemoryNotCooling /\ DialsWhatPassed /\ CooledDownLeftAlone

-----------------------------------------------------------------------------
(* The searches.  There is a first profile, and the profiles are candidates. *)
LEMMA ProfilesType ==
    ASSUME user \in Users
    PROVE  /\ DOMAIN profiles \in SUBSET Nat /\ 1 \in DOMAIN profiles
           /\ \A i \in DOMAIN profiles : profiles[i] \in ToSet(Candidates)
<1> DEFINE P == ToSet(Candidates)
<1>1. Candidates \in Seq(P) /\ Candidates # <<>>
  BY WarpAssumption
<1> HIDE DEF P
<1>2. Len(Candidates) \in Nat /\ Len(Candidates) >= 1
  BY <1>1
<1>3. SubSeq(Candidates, 1, 1) \in Seq(P) /\ Len(SubSeq(Candidates, 1, 1)) = 1
  BY <1>1, <1>2
<1>4. profiles \in Seq(P) /\ Len(profiles) >= 1 /\ Len(profiles) \in Nat
  BY <1>1, <1>2, <1>3 DEF profiles
<1>5. DOMAIN profiles = 1..Len(profiles)
  BY <1>4
<1> QED
  BY <1>4, <1>5 DEF P

(* An address passes with one of the profiles, or not at all. *)
LEMMA FirstPassingType ==
    ASSUME user \in Users, NEW a \in Addrs
    PROVE  \/ FirstPassing(a) = NoTarget
           \/ FirstPassing(a) \in Targets /\ FirstPassing(a)[1] = a
<1> DEFINE passing == {i \in DOMAIN profiles : Verified(<<a, profiles[i]>>)}
           first == CHOOSE i \in passing : \A j \in passing : i <= j
<1>1. FirstPassing(a) = IF passing = {} THEN NoTarget ELSE <<a, profiles[first]>>
  BY DEF FirstPassing
<1>2. passing \in SUBSET DOMAIN profiles
  OBVIOUS
<1> HIDE DEF passing
<1>3. ASSUME passing # {}
      PROVE  first \in passing
  <2>1. passing \in SUBSET Nat
    BY <1>2, ProfilesType
  <2>2. \E i \in passing : \A j \in passing : i <= j
    BY <1>3, <2>1, NatMin
  <2> QED
    BY <2>2
<1> HIDE DEF first
<1>4. passing # {} => profiles[first] \in ToSet(Candidates)
  BY <1>2, <1>3, ProfilesType
<1>5. passing # {} => <<a, profiles[first]>> \in Targets /\ <<a, profiles[first]>>[1] = a
  BY <1>4 DEF Targets
<1>6. CASE passing = {}
  BY <1>1, <1>6
<1>7. CASE passing # {}
  <2>1. FirstPassing(a) = <<a, profiles[first]>>
    BY <1>1, <1>7
  <2> QED
    BY <1>5, <1>7, <2>1
<1> QED
  BY <1>6, <1>7

(* A scan leaves out what it is told to. *)
LEMMA HuntedType ==
    ASSUME user \in Users, NEW excluded, NEW t \in Hunted(excluded)
    PROVE  t \in Targets /\ t[1] \notin excluded
<1> DEFINE hits(i) == {a \in Addrs \ excluded : Verified(<<a, profiles[i]>>)}
           good == {i \in DOMAIN profiles : hits(i) # {}}
           first == CHOOSE j \in good : \A k \in good : j <= k
<1>1. Hunted(excluded) = IF good = {} THEN {} ELSE {<<a, profiles[first]>> : a \in hits(first)}
  BY DEF Hunted
<1>2. good \in SUBSET DOMAIN profiles /\ hits(first) \subseteq Addrs \ excluded
  OBVIOUS
<1> HIDE DEF good, hits
<1>3. good # {}
  BY <1>1
<1>4. first \in good
  <2>1. good \in SUBSET Nat
    BY <1>2, ProfilesType
  <2>2. \E j \in good : \A k \in good : j <= k
    BY <1>3, <2>1, NatMin
  <2> QED
    BY <2>2
<1> HIDE DEF first
<1>5. profiles[first] \in ToSet(Candidates)
  BY <1>2, <1>4, ProfilesType
<1>6. PICK a \in hits(first) : t = <<a, profiles[first]>>
  BY <1>1, <1>3
<1> QED
  BY <1>2, <1>5, <1>6 DEF Targets

LEMMA TargetFacts ==
    /\ NoTarget \notin Targets /\ Torn \notin Targets
    /\ NoTarget \notin Addrs
    /\ \A t \in Targets : t[1] \in Addrs /\ <<t[1], GoolProfile>> \in Targets
    /\ \A a \in Addrs : <<a, GoolProfile>> \in Targets
    /\ Selected \subseteq Targets
    /\ MaxConsecutiveFails \in Nat /\ 0 < MaxConsecutiveFails
<1>1. \A t \in Targets : t[1] \in Addrs
  BY DEF Targets
<1>2. \A a \in Addrs : <<a, GoolProfile>> \in Targets
  BY DEF Targets
<1>3. Selected \subseteq Targets
  BY <1>2 DEF Selected
<1>4. NoTarget \notin Targets /\ Torn \notin Targets /\ NoTarget \notin Addrs
  BY WarpAssumption DEF Targets
<1>5. MaxConsecutiveFails \in Nat /\ 0 < MaxConsecutiveFails
  BY WarpAssumption
<1> QED
  BY <1>1, <1>2, <1>3, <1>4, <1>5

(* What the settings are. *)
LEMMA UserFacts ==
    ASSUME user \in Users
    PROVE  user.gool \in BOOLEAN /\ user.forced \in Addrs \cup {NoTarget}
  BY WarpAssumption

-----------------------------------------------------------------------------
(* Nothing of the session moves: its memory is kept or begins fresh. *)
LEMMA OutsideSound ==
    ASSUME WarpInv, UNCHANGED warpVars,
           \/ pc' = pc
           \/ pc' \notin Looping /\ pc \notin Looping
    PROVE  WarpInv'
  BY DEF warpVars, Targets, WarpInv, SessionTypes, FailsBounded, BeginsFresh, RoundTarget, QuickFirst,
     KnownPassed, Known, MemoryNotCooling, DialsWhatPassed, CooledDownLeftAlone, Looping, InRound

(* Loading the identity comes before the session. *)
LEMMA IdentifySound ==
    ASSUME WarpInv, Identify
    PROVE  WarpInv'
<1>1. pc' \notin Looping /\ pc \notin Looping
  BY StartPlace, Zenon DEF Identify, StartPlaces, Provisioning, Looping
<1> QED
  BY <1>1, OutsideSound DEF Identify

(* The first candidate was just verified. *)
LEMMA BeginSound ==
    ASSUME WarpInv, BeginWireGuard \/ BeginGool
    PROVE  WarpInv'
<1> USE TargetFacts
<1>0. user \in Users /\ user.gool \in BOOLEAN /\ user.forced \in Addrs \cup {NoTarget}
  BY UserFacts DEF WarpInv, SessionTypes
<1>1. quick' \in Targets \cup {NoTarget}
  <2>1. CASE BeginWireGuard
    <3>1. org \in Addrs => FirstPassing(org) \in Targets \cup {NoTarget}
      BY <1>0, FirstPassingType
    <3> QED
      BY <2>1, <3>1 DEF BeginWireGuard, QuickReconnect
  <2>2. CASE BeginGool
    BY <2>2 DEF BeginGool, QuickReconnect
  <2> QED
    BY <2>1, <2>2
<1>2. /\ pc = "run" /\ pc' = "loop" /\ checked' = quick'
      /\ UNCHANGED <<user, net, org, lastGood, fails, cooldowns, cooling, lastconn, target, tried>>
  BY DEF BeginWireGuard, BeginGool
<1>3. /\ lastGood = NoTarget /\ fails = 0 /\ cooldowns = {} /\ cooling = {}
  BY <1>2 DEF WarpInv, BeginsFresh, Looping
<1> QED
  BY <1>1, <1>2, <1>3 DEF WarpInv, SessionTypes, FailsBounded, BeginsFresh, RoundTarget, QuickFirst,
     KnownPassed, Known, MemoryNotCooling, DialsWhatPassed, CooledDownLeftAlone, Looping, InRound

(* An endpoint is put aside and forgotten in one step. *)
LEMMA GiveUpSound ==
    ASSUME WarpInv, GiveUp
    PROVE  WarpInv'
<1> USE TargetFacts
<1>1. /\ pc = "loop" /\ ~user.gool /\ pc' = "pick"
      /\ UNCHANGED <<user, net, org, quick, lastconn, target, checked, tried>>
  BY DEF GiveUp
<1>2. CASE fails >= MaxConsecutiveFails
  <2> DEFINE bad == IF lastGood = NoTarget THEN {} ELSE {lastGood[1]}
  <2>1. /\ lastGood' = NoTarget /\ fails' = 0
        /\ cooldowns' = (cooldowns \cap cooling) \cup bad /\ cooling' = cooling \cup bad
    BY <1>2 DEF GiveUp
  <2>2. bad \subseteq Addrs /\ (quick # NoTarget => bad = {})
    BY <1>1 DEF WarpInv, SessionTypes, QuickFirst
  <2> HIDE DEF bad
  <2> QED
    BY <1>1, <2>1, <2>2 DEF WarpInv, SessionTypes, FailsBounded, BeginsFresh, RoundTarget, QuickFirst,
     KnownPassed, Known, MemoryNotCooling, DialsWhatPassed, CooledDownLeftAlone, Looping, InRound
<1>3. CASE ~(fails >= MaxConsecutiveFails)
  <2>1. cooldowns' = cooldowns \cap cooling /\ UNCHANGED <<lastGood, fails, cooling>>
    BY <1>3 DEF GiveUp
  <2>2. fails < MaxConsecutiveFails
    BY <1>3 DEF WarpInv, SessionTypes
  <2> QED
    BY <1>1, <2>1, <2>2 DEF WarpInv, SessionTypes, FailsBounded, BeginsFresh, RoundTarget, QuickFirst,
     KnownPassed, Known, MemoryNotCooling, DialsWhatPassed, CooledDownLeftAlone, Looping, InRound
<1> QED
  BY <1>2, <1>3

(* The target of run_wireguard's round: the one of the start, the last good   *)
(* one, the forced one or one a scan found outside the cooldowns.             *)
LEMMA PickSound ==
    ASSUME WarpInv, Pick, user.gool = FALSE
    PROVE  WarpInv'
<1> USE TargetFacts
<1>0. user \in Users /\ user.forced \in Addrs \cup {NoTarget}
  BY UserFacts DEF WarpInv, SessionTypes
<1>1. /\ pc = "pick" /\ quick' = NoTarget
      /\ UNCHANGED <<user, net, org, lastGood, fails, cooldowns, cooling, lastconn, tried>>
  BY DEF Pick
<1>2. \/ /\ pc' = "use" /\ target' \in Targets /\ checked' = target'
         /\ user.forced = NoTarget => target'[1] \notin cooling
      \/ pc' = "sleep" /\ UNCHANGED <<target, checked>>
  <2> DEFINE retry == quick = NoTarget /\ lastGood # NoTarget /\ Verified(lastGood)
             pin == IF user.forced = NoTarget THEN NoTarget ELSE FirstPassing(user.forced)
  <2>1. \/ quick # NoTarget /\ Use(quick) /\ UNCHANGED checked
        \/ retry /\ Use(lastGood) /\ checked' = lastGood
        \/ pin # NoTarget /\ Use(pin) /\ checked' = pin
        \/ Scan(Hunted(cooldowns))
    BY DEF Pick
  <2>2. CASE quick # NoTarget /\ Use(quick) /\ UNCHANGED checked
    BY <1>1, <2>2 DEF WarpInv, SessionTypes, QuickFirst, Use
  <2>3. CASE retry /\ Use(lastGood) /\ checked' = lastGood
    BY <1>1, <2>3 DEF WarpInv, SessionTypes, MemoryNotCooling, Use
  <2>4. CASE pin # NoTarget /\ Use(pin) /\ checked' = pin
    <3>1. user.forced \in Addrs /\ pin = FirstPassing(user.forced)
      BY <1>0, <2>4
    <3>2. pin \in Targets
      BY <1>0, <2>4, <3>1, FirstPassingType
    <3> QED
      BY <2>4, <3>1, <3>2 DEF Use
  <2>5. CASE Scan(Hunted(cooldowns))
    <3>1. \A t \in Hunted(cooldowns) : t \in Targets /\ t[1] \notin cooldowns
      BY <1>0, HuntedType
    <3>2. cooling \subseteq cooldowns
      BY DEF WarpInv, SessionTypes
    <3> QED
      BY <2>5, <3>1, <3>2 DEF Scan, Use
  <2> QED
    BY <2>1, <2>2, <2>3, <2>4, <2>5
<1>3. SessionTypes' /\ FailsBounded' /\ BeginsFresh' /\ RoundTarget'
  BY <1>1, <1>2 DEF WarpInv, SessionTypes, FailsBounded, BeginsFresh, RoundTarget, Looping, InRound
<1>4. QuickFirst' /\ KnownPassed' /\ MemoryNotCooling'
  BY <1>1, <1>2 DEF WarpInv, QuickFirst, KnownPassed, MemoryNotCooling
<1>5. DialsWhatPassed' /\ CooledDownLeftAlone'
  BY <1>1, <1>2 DEF DialsWhatPassed, CooledDownLeftAlone
<1> QED
  BY <1>3, <1>4, <1>5 DEF WarpInv

(* run_gool's: what it knows, below the limit of failures, or a fresh one. *)
LEMMA PickGoolSound ==
    ASSUME WarpInv, PickGool
    PROVE  WarpInv'
<1> USE TargetFacts
<1>0. user \in Users /\ user.gool = TRUE /\ user.forced \in Addrs \cup {NoTarget}
  BY UserFacts DEF WarpInv, SessionTypes, PickGool
<1>1. /\ pc = "loop"
      /\ UNCHANGED <<user, net, org, lastGood, cooldowns, cooling, lastconn, tried>>
  BY DEF PickGool
<1>2. \/ /\ pc' = "use" /\ target' \in Targets /\ fails' \in Nat /\ fails' < MaxConsecutiveFails
         /\ user.forced = NoTarget => checked' = target'
         /\ checked' \in Targets \cup {NoTarget} /\ quick' \in {quick, NoTarget}
      \/ /\ pc' = "sleep" /\ UNCHANGED <<target, checked, fails>>
         /\ quick' = IF fails >= MaxConsecutiveFails THEN NoTarget ELSE quick
  <2>1. CASE /\ fails < MaxConsecutiveFails /\ Known # NoTarget /\ Use(Known)
             /\ UNCHANGED <<fails, quick, checked>>
    BY <1>0, <1>1, <2>1 DEF WarpInv, SessionTypes, KnownPassed, Known, Looping, Use
  <2>2. CASE /\ quick' = IF fails >= MaxConsecutiveFails THEN NoTarget ELSE quick
             /\ user.forced # NoTarget
             /\ Use(<<user.forced, GoolProfile>>) /\ fails' = 0 /\ UNCHANGED checked
    BY <1>0, <2>2 DEF WarpInv, SessionTypes, Use
  <2>3. CASE /\ quick' = IF fails >= MaxConsecutiveFails THEN NoTarget ELSE quick
             /\ Scan(Selected) /\ fails' = IF pc' = "use" THEN 0 ELSE fails
    BY <2>3 DEF Scan, Use
  <2> QED
    BY <2>1, <2>2, <2>3 DEF PickGool, Known
<1>3. SessionTypes' /\ FailsBounded' /\ BeginsFresh' /\ RoundTarget'
  BY <1>1, <1>2 DEF WarpInv, SessionTypes, FailsBounded, BeginsFresh, RoundTarget, Looping, InRound
<1>4. KnownPassed'
  BY <1>0, <1>1, <1>2 DEF WarpInv, SessionTypes, KnownPassed, Known, Looping
<1>5. QuickFirst' /\ MemoryNotCooling' /\ CooledDownLeftAlone' /\ DialsWhatPassed'
  BY <1>0, <1>1, <1>2 DEF QuickFirst, MemoryNotCooling, CooledDownLeftAlone, DialsWhatPassed
<1> QED
  BY <1>3, <1>4, <1>5 DEF WarpInv

(* The target becomes the last good one. *)
LEMMA RememberSound ==
    ASSUME WarpInv, Remember
    PROVE  WarpInv'
<1> USE TargetFacts
<1>0. user.gool \in BOOLEAN
  BY UserFacts DEF WarpInv, SessionTypes
<1>1. /\ pc = "use" /\ pc' \in {"saving", "connect"} /\ lastconn' \in {lastconn, Torn}
      /\ lastGood' = target /\ tried' = TRUE
      /\ UNCHANGED <<user, net, org, quick, cooldowns, cooling, target, checked>>
  BY DEF Remember
<1>2. target \in Targets /\ fails \in Nat /\ fails < MaxConsecutiveFails
  BY <1>1 DEF WarpInv, SessionTypes, FailsBounded, RoundTarget, InRound
<1>3. fails' \in Nat /\ fails' < MaxConsecutiveFails
  BY <1>2 DEF Remember
<1>4. SessionTypes' /\ FailsBounded' /\ BeginsFresh' /\ RoundTarget'
  BY <1>1, <1>2, <1>3 DEF WarpInv, SessionTypes, FailsBounded, BeginsFresh, RoundTarget, Looping,
     InRound
<1>5. DialsWhatPassed' /\ CooledDownLeftAlone'
  BY <1>1 DEF WarpInv, DialsWhatPassed, CooledDownLeftAlone
<1>6. KnownPassed' /\ MemoryNotCooling' /\ QuickFirst'
  BY <1>0, <1>1, <1>2 DEF WarpInv, KnownPassed, Known, MemoryNotCooling, QuickFirst,
     DialsWhatPassed, CooledDownLeftAlone
<1> QED
  BY <1>4, <1>5, <1>6 DEF WarpInv

(* The file catches up; the tunnel comes up. *)
LEMMA ConnectSound ==
    ASSUME WarpInv, Remembered \/ TunnelUp
    PROVE  WarpInv'
<1> USE TargetFacts
<1>1. /\ \/ pc = "saving" /\ pc' = "connect" /\ lastconn' = target
         \/ pc = "connect" /\ pc' = "up" /\ lastconn' = lastconn
      /\ UNCHANGED <<user, net, org, quick, lastGood, fails, cooldowns, cooling, target, checked,
                     tried>>
  BY DEF Remembered, TunnelUp, warpVars
<1> QED
  BY <1>1 DEF WarpInv, SessionTypes, FailsBounded, BeginsFresh, RoundTarget, QuickFirst,
     KnownPassed, Known, MemoryNotCooling, DialsWhatPassed, CooledDownLeftAlone, Looping, InRound

(* A lost tunnel counts against its endpoint. *)
LEMMA TunnelDownSound ==
    ASSUME WarpInv, TunnelDown
    PROVE  WarpInv'
<1> USE TargetFacts
<1>1. /\ pc \in {"connect", "up"} /\ pc' = "sleep" /\ fails' = fails + 1
      /\ checked' = IF fails' >= MaxConsecutiveFails THEN NoTarget ELSE checked
      /\ UNCHANGED <<user, net, org, quick, lastGood, cooldowns, cooling, lastconn, target, tried>>
  BY DEF TunnelDown
<1>2. fails \in Nat /\ fails' \in Nat /\ fails < MaxConsecutiveFails /\ fails' <= MaxConsecutiveFails
  BY <1>1 DEF WarpInv, SessionTypes, FailsBounded, InRound
<1>3. SessionTypes' /\ FailsBounded' /\ BeginsFresh' /\ RoundTarget'
  BY <1>1, <1>2 DEF WarpInv, SessionTypes, FailsBounded, BeginsFresh, RoundTarget, Looping, InRound
<1>4. KnownPassed'
  BY <1>1, <1>2 DEF WarpInv, KnownPassed, Known, Looping
<1>5. QuickFirst' /\ MemoryNotCooling' /\ DialsWhatPassed' /\ CooledDownLeftAlone'
  BY <1>1 DEF WarpInv, QuickFirst, MemoryNotCooling, DialsWhatPassed, CooledDownLeftAlone
<1> QED
  BY <1>3, <1>4, <1>5 DEF WarpInv

(* A pause forgets only the target; a cooldown runs out; the network changes. *)
LEMMA BesideSound ==
    ASSUME WarpInv, Sleep \/ CooldownEnds \/ NetworkChanges
    PROVE  WarpInv'
<1>1. CASE Sleep
  BY <1>1 DEF Sleep, WarpInv, SessionTypes, FailsBounded, BeginsFresh, RoundTarget, QuickFirst,
     KnownPassed, Known, MemoryNotCooling, DialsWhatPassed, CooledDownLeftAlone, Looping, InRound
<1>2. CASE CooldownEnds
  <2>1. /\ cooling' \subseteq cooling
        /\ UNCHANGED <<pc, user, net, org, quick, lastGood, fails, cooldowns, lastconn, target,
                       checked, tried>>
    BY <1>2 DEF CooldownEnds
  <2> QED
    BY <2>1 DEF WarpInv, SessionTypes, FailsBounded, BeginsFresh, RoundTarget, QuickFirst,
     KnownPassed, Known, MemoryNotCooling, DialsWhatPassed, CooledDownLeftAlone, Looping, InRound
<1>3. CASE NetworkChanges
  BY <1>3 DEF NetworkChanges, WarpInv, SessionTypes, FailsBounded, BeginsFresh, RoundTarget, QuickFirst,
     KnownPassed, Known, MemoryNotCooling, DialsWhatPassed, CooledDownLeftAlone, Looping, InRound
<1> QED
  BY <1>1, <1>2, <1>3

(* A stop clears the session, the file stays. *)
LEMMA StoppedSound ==
    ASSUME WarpInv, Stopped
    PROVE  WarpInv'
<1> USE TargetFacts
<1>1. /\ pc' = "off" /\ quick' = NoTarget /\ lastGood' = NoTarget /\ fails' = 0
      /\ target' = NoTarget /\ cooldowns' = {} /\ cooling' = {} /\ checked' = NoTarget
      /\ tried' = FALSE /\ UNCHANGED <<user, net, org, lastconn>>
  BY DEF Stopped, Killed
<1>2. SessionTypes'
  BY <1>1 DEF WarpInv, SessionTypes
<1>3. FailsBounded' /\ BeginsFresh' /\ RoundTarget'
  BY <1>1 DEF FailsBounded, BeginsFresh, RoundTarget, Looping, InRound
<1>4. QuickFirst' /\ KnownPassed' /\ MemoryNotCooling' /\ DialsWhatPassed' /\ CooledDownLeftAlone'
  BY <1>1 DEF QuickFirst, KnownPassed, MemoryNotCooling, DialsWhatPassed, CooledDownLeftAlone, Looping
<1> QED
  BY <1>2, <1>3, <1>4 DEF WarpInv

(* A process starts with an empty memory and any lastconn file. *)
LEMMA WarpInitInv ==
    ASSUME Init
    PROVE  WarpInv
<1> USE TargetFacts
<1>1. /\ pc = "off" /\ user \in Users /\ net \in Networks /\ org \in OrgAddrs
      /\ quick = NoTarget /\ lastGood = NoTarget /\ target = NoTarget /\ fails = 0
      /\ cooldowns = {} /\ cooling = {} /\ checked = NoTarget /\ tried = FALSE
  BY DEF Init, IdentityInit
<1>2. lastconn \in Targets \cup {NoTarget}
  BY <1>1, ProfilesType DEF Init, Targets
<1>3. SessionTypes
  BY <1>1, <1>2 DEF SessionTypes
<1>4. FailsBounded /\ BeginsFresh /\ RoundTarget
  BY <1>1 DEF FailsBounded, BeginsFresh, RoundTarget, Looping, InRound
<1>5. QuickFirst /\ KnownPassed /\ MemoryNotCooling /\ DialsWhatPassed /\ CooledDownLeftAlone
  BY <1>1 DEF QuickFirst, KnownPassed, MemoryNotCooling, DialsWhatPassed, CooledDownLeftAlone, Looping
<1> QED
  BY <1>3, <1>4, <1>5 DEF WarpInv

(* The loop that picks is run_wireguard's. *)
PickIsWireGuards == pc = "pick" => user.gool = FALSE

(* The invariant is kept by every step. *)
LEMMA WarpStep ==
    ASSUME WarpInv, PickIsWireGuards, [Next]_vars
    PROVE  WarpInv' /\ PickIsWireGuards'
<1>1. CASE UNCHANGED vars
  BY <1>1, OutsideSound DEF vars, PickIsWireGuards, warpVars
<1>2. CASE Next
  <2>1. WarpInv'
    <3>1. (DeviceDeleted \/ TimePasses) => pc' = pc
      BY DEF DeviceDeleted, TimePasses
    <3>2. Pick => user.gool = FALSE
      BY DEF Pick, PickIsWireGuards
    <3> QED
      BY <1>2, <3>1, <3>2, OutsideSound, IdentifySound, BeginSound, GiveUpSound, PickSound,
         PickGoolSound, RememberSound, ConnectSound, TunnelDownSound, BesideSound, StoppedSound
      DEF Next, run_warp
  <2>2. PickIsWireGuards'
    <3>1. user' = user
      BY <1>2 DEF Next, Identify, run_warp, warpVars, BeginWireGuard, BeginGool, GiveUp, Pick,
         PickGool, Remember, Remembered, TunnelUp, TunnelDown, Sleep, CooldownEnds,
         NetworkChanges, Stopped
    <3>2. user.gool \in BOOLEAN
      BY UserFacts DEF WarpInv, SessionTypes
    <3>3. CASE Identify
      BY <3>3, StartPlace, Zenon DEF Identify, StartPlaces, Provisioning, PickIsWireGuards
    <3>4. CASE GiveUp
      BY <3>1, <3>2, <3>4 DEF GiveUp, PickIsWireGuards
    <3>5. CASE \/ BeginWireGuard \/ BeginGool \/ Pick \/ PickGool \/ Remember \/ Remembered
               \/ TunnelUp \/ TunnelDown \/ Sleep \/ Stopped
      <4>1. pc' # "pick"
        BY <3>5 DEF BeginWireGuard, BeginGool, Pick, PickGool, Scan, Use, Remember, Remembered,
           TunnelUp, TunnelDown, Sleep, Stopped, Killed
      <4> QED
        BY <4>1 DEF PickIsWireGuards
    <3>6. CASE CooldownEnds \/ NetworkChanges \/ DeviceDeleted \/ TimePasses
      BY <3>1, <3>6 DEF CooldownEnds, NetworkChanges, DeviceDeleted, TimePasses, PickIsWireGuards
    <3> QED
      BY <1>2, <3>3, <3>4, <3>5, <3>6 DEF Next, run_warp
  <2> QED
    BY <2>1, <2>2
<1> QED
  BY <1>1, <1>2

-----------------------------------------------------------------------------
(* The session's own steps leave the identity alone. *)
LEMMA StepKinds ==
    ASSUME Next
    PROVE  /\ UNCHANGED settings
           /\ \/ Start \/ load_or_provision \/ DeviceDeleted \/ TimePasses \/ Killed
              \/ UNCHANGED idVars /\ pc \in Looping \cup {"run"} /\ pc' \in Looping
              \/ UNCHANGED <<pc, idVars>>
<1>1. CASE run_warp \/ TunnelDown
  BY <1>1 DEF Next, Looping, run_warp, BeginWireGuard, BeginGool, GiveUp, Pick, PickGool, Scan, Use,
     Remember, Remembered, TunnelUp, TunnelDown, Sleep
<1>2. CASE ~(run_warp \/ TunnelDown)
  BY <1>2 DEF Next, Identify, Stopped, CooldownEnds, NetworkChanges
<1> QED
  BY <1>1, <1>2

LEMMA StepKeeps ==
    ASSUME IdInv, [Next]_vars
    PROVE  IdInv' /\ (live' \subseteq live \/ disk = NoId \/ told # {})
<1>1. CASE UNCHANGED <<pc, idVars>> /\ UNCHANGED settings
  BY <1>1 DEF idVars, settings, IdInv, IdTypes, Loaded, Untold, WhyRegister, Certified,
     RefusalActedOn, RunsOnWhatIsSaved, RunsOnUsableCertificate
<1>2. CASE UNCHANGED vars
  BY <1>1, <1>2 DEF vars
<1>3. CASE UNCHANGED idVars /\ pc \in Looping \cup {"run"} /\ pc' \in Looping /\ UNCHANGED settings
  <2>1. mem \in Ids /\ disk \in Ids \cup {NoId, Damaged}
    BY <1>3 DEF IdInv, Loaded, IdTypes, Looping
  <2>2. pc' \notin Provisioning \cup {"register", "run"}
    BY <1>3 DEF Provisioning, Looping
  <2> QED
    BY <1>3, <2>1, <2>2, SessionKeeps DEF idVars
<1>4. CASE Next
  BY <1>1, <1>3, <1>4, StepKinds, IdentityStep, IdentityChurn
<1> QED
  BY <1>2, <1>4

(* The invariant of the identity holds beside that of the session. *)
THEOREM WarpInvariant == Spec => [](WarpInv /\ PickIsWireGuards /\ IdInv)
<1>1. Init => WarpInv /\ PickIsWireGuards /\ IdInv
  <2>1. Init => PickIsWireGuards
    BY DEF Init, IdentityInit, PickIsWireGuards
  <2>2. Init => IdInv
    BY IdentityInitInv DEF Init
  <2> QED
    BY <2>1, <2>2, WarpInitInv
<1>2. WarpInv /\ PickIsWireGuards /\ IdInv /\ [Next]_vars
        => (WarpInv /\ PickIsWireGuards /\ IdInv)'
  BY WarpStep, StepKeeps
<1> QED
  BY <1>1, <1>2, PTL DEF Spec

(* What run_wireguard and run_gool remember is sound: no endpoint is counted   *)
(* past MAX_CONSECUTIVE_FAILS, and what is dialled and saved has passed a      *)
(* check since it was last given up, with the profile it is dialled with.      *)
THEOREM WarpIsSafe == Spec => []WarpSafety
<1>1. WarpInv /\ IdInv => WarpSafety
  <2> SUFFICES ASSUME WarpInv, IdInv PROVE WarpSafety
    OBVIOUS
  <2>1. IdentityTypeOK
    BY DEF IdInv, IdTypes, Loaded, IdentityTypeOK
  <2>2. fails \in 0..MaxConsecutiveFails /\ cooling \subseteq Addrs
    BY TargetFacts DEF WarpInv, SessionTypes, FailsBounded
  <2>3. {quick, lastGood, target, checked} \subseteq Targets \cup {NoTarget}
    BY DEF WarpInv, SessionTypes
  <2> QED
    BY <2>1, <2>2, <2>3 DEF WarpInv, SessionTypes, WarpSafety, TypeOK
<1> QED
  BY <1>1, WarpInvariant, PTL

(* An endpoint that failed too often in a row is not dialled before its        *)
(* cooldown is over, whichever memory or scan proposes it.                     *)
THEOREM WarpCooledDownLeftAlone == Spec => []CooledDownLeftAlone
<1>1. WarpInv => CooledDownLeftAlone
  BY DEF WarpInv
<1> QED
  BY <1>1, WarpInvariant, PTL

(* load_or_provision_warp hands a session nothing that is not on disk:         *)
(* config::save comes first on every path, except for a refused identity that  *)
(* AETHER_REPROVISION=0 keeps.                                                 *)
THEOREM WarpRunsOnWhatIsSaved == Spec => []RunsOnWhatIsSaved
<1>1. IdInv => RunsOnWhatIsSaved
  BY DEF IdInv
<1> QED
  BY <1>1, WarpInvariant, PTL

(* A WARP start, too, registers a device only for want of a saved one or after *)
(* the team's profile was refused: provision_account is never reached because  *)
(* the account API was out of reach.                                           *)
THEOREM WarpNoChurn == Spec => NoChurn
<1>1. IdInv /\ [Next]_vars =>
        [live' \subseteq live \/ disk = NoId \/ told # {}]_<<pc, idVars>>
  BY StepKeeps
<1>2. Spec => []IdInv
  BY WarpInvariant, PTL
<1> QED
  BY <1>1, <1>2, PTL DEF Spec, NoChurn

-----------------------------------------------------------------------------
(* The session's steps are those of CoreSession.  What the phase is, by place. *)
PhaseIs(at, phase) ==
    phase = IF at = "off" THEN "idle"
            ELSE IF at = "failed" THEN "failed"
            ELSE IF at \in {"saving", "connect"} THEN "trying"
            ELSE IF at = "up" THEN "up"
            ELSE IF at = "sleep" THEN "pausing" ELSE "choosing"

LEMMA PhaseByPlace == PhaseIs(pc, Phase) /\ PhaseIs(pc', Phase')
<1>1. PhaseIs(pc, Phase)
  <2>1. CASE pc \in {"off", "failed", "saving", "connect", "up", "sleep"}
    BY <2>1, Zenon DEF PhaseIs, Phase
  <2>2. CASE pc \notin {"off", "failed", "saving", "connect", "up", "sleep"}
    BY <2>2, Zenon DEF PhaseIs, Phase
  <2> QED
    BY <2>1, <2>2
<1>2. PhaseIs(pc', Phase')
  <2>1. CASE pc' \in {"off", "failed", "saving", "connect", "up", "sleep"}
    BY <2>1, Zenon DEF PhaseIs, Phase
  <2>2. CASE pc' \notin {"off", "failed", "saving", "connect", "up", "sleep"}
    BY <2>2, Zenon DEF PhaseIs, Phase
  <2> QED
    BY <2>1, <2>2
<1> QED
  BY <1>1, <1>2

(* A start leads from idle or failed to a session that looks for an endpoint, *)
(* and may fail before one was tried.                                         *)
LEMMA StartIsCore ==
    ASSUME WarpInv, Identify
    PROVE  [Core!CoreNext]_(Core!coreVars)
<1>1. pc \in StartPlaces /\ pc' \in StartPlaces /\ pc' # "off"
  BY StartPlace DEF Identify
<1>2. pc \in {"off", "failed"} => pc' = "load"
  BY DEF Identify, Start, load_or_provision, LoadNothing, LoadDamaged, LoadSaved, AdoptSaved,
     EnrollSaved, Register, EnrollNew, AdoptNew, Save
<1>3. tried = FALSE /\ tried' = FALSE
  BY <1>1 DEF WarpInv, SessionTypes, BeginsFresh, Looping, StartPlaces, Provisioning, Identify,
     warpVars
<1> QED
  BY <1>1, <1>2, <1>3, PhaseByPlace DEF PhaseIs, StartPlaces, Provisioning, Core!coreVars,
     Core!CoreNext, Core!CoreBegin, Core!CoreFail

(* Every step is a step of the abstract session or one it does not see. *)
LEMMA NextIsCore ==
    ASSUME WarpInv, [Next]_vars
    PROVE  [Core!CoreNext]_(Core!coreVars)
<1>1. CASE Identify
  BY <1>1, StartIsCore
<1>2. CASE BeginWireGuard \/ BeginGool \/ GiveUp \/ Pick \/ PickGool
  <2>1. /\ pc \in {"run", "loop", "pick"} /\ pc' \in {"loop", "pick", "use", "sleep"}
        /\ tried' = tried
    BY <1>2 DEF BeginWireGuard, BeginGool, GiveUp, Pick, PickGool, Scan, Use
  <2> QED
    BY <2>1, PhaseByPlace DEF PhaseIs, Core!coreVars, Core!CoreNext, Core!CoreFoundNothing
<1>3. CASE Remember
  <2>1. pc = "use" /\ pc' \in {"saving", "connect"} /\ tried' = TRUE
    BY <1>3 DEF Remember
  <2> QED
    BY <2>1, PhaseByPlace DEF PhaseIs, Core!CoreNext, Core!CoreTry
<1>4. CASE Remembered \/ TunnelUp \/ TunnelDown
  <2>1. /\ tried' = tried
        /\ \/ pc \in {"saving", "connect"} /\ pc' \in {"connect", "up", "sleep"}
           \/ pc = "up" /\ pc' = "sleep"
    BY <1>4 DEF Remembered, TunnelUp, TunnelDown, warpVars
  <2> QED
    BY <2>1, PhaseByPlace DEF PhaseIs, Core!coreVars, Core!CoreNext, Core!CoreUp, Core!CoreLose
<1>5. CASE Sleep
  <2>1. pc = "sleep" /\ pc' = "loop" /\ tried' = tried
    BY <1>5 DEF Sleep
  <2> QED
    BY <2>1, PhaseByPlace DEF PhaseIs, Core!CoreNext, Core!CoreResume
<1>6. CASE Stopped
  <2>1. pc # "off" /\ pc' = "off" /\ tried' = FALSE
    BY <1>6 DEF Stopped, Killed
  <2> QED
    BY <2>1, PhaseByPlace DEF PhaseIs, Core!CoreNext, Core!CoreStop
<1>7. CASE \/ CooldownEnds \/ NetworkChanges \/ UNCHANGED vars
           \/ (DeviceDeleted \/ TimePasses) /\ UNCHANGED warpVars
  <2>1. pc' = pc /\ tried' = tried
    BY <1>7 DEF CooldownEnds, NetworkChanges, DeviceDeleted, TimePasses, warpVars, vars
  <2> QED
    BY <2>1, PhaseByPlace DEF PhaseIs, Core!coreVars
<1> QED
  BY <1>1, <1>2, <1>3, <1>4, <1>5, <1>6, <1>7 DEF Next, run_warp

(* The safety half of ImplementsCore: run_wireguard and run_gool give up only  *)
(* before the first tunnel was tried, and every attempt, loss and pause is one *)
(* of the abstract session's.                                                  *)
THEOREM WarpRefinesCore == Spec => Core!CoreSafe
<1>1. Init => Core!CoreInit
  BY PhaseByPlace DEF Init, IdentityInit, Core!CoreInit, PhaseIs
<1>2. WarpInv /\ [Next]_vars => [Core!CoreNext]_(Core!coreVars)
  BY NextIsCore
<1> QED
  BY <1>1, <1>2, WarpInvariant, PTL DEF Spec, Core!CoreSafe

=============================================================================
