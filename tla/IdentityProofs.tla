--------------------------- MODULE IdentityProofs ---------------------------
(***************************************************************************)
(* Every step of load_or_provision keeps an invariant from which the        *)
(* properties of Identity follow, for any set of devices, either protocol,  *)
(* with or without a team, whatever the account API answers.  The sessions  *)
(* that go on from "run" are proved to keep it in MasqueProofs.             *)
(*                                                                          *)
(* None of the properties is inductive by itself.  That a session runs on a *)
(* usable certificate needs the certificate of everything that may still be *)
(* saved; that a refusal is acted on needs that no enrolment on the way to  *)
(* "run" has heard one; that only a lost device is replaced needs why the start   *)
(* is registering at all.                                                   *)
(***************************************************************************)
EXTENDS Identity, FiniteSetTheorems, TLAPS

(* The steps of a start at which the identity in memory is the one that     *)
(* will be saved, and no enrolment has refused it.                          *)
Provisioning == {"load", "adopt", "enroll", "enrollNew", "adoptNew", "save"}

IdTypes ==
    /\ mem \in Ids \cup {NoId} /\ disk \in Ids \cup {NoId, Damaged}
    /\ live \subseteq Devices
    /\ proto \in Protocols /\ team \in Teams /\ reprovision \in Reprovisions

Loaded == pc \notin {"off", "failed", "load", "register"} => mem \in Ids
Untold == pc \in Provisioning => "enrolment" \notin told
WhyRegister == pc = "register" => disk = NoId \/ told # {}
Certified ==
    (proto = "masque" /\ pc \in {"adopt", "adoptNew", "save"}) => cert_still_usable(mem)

IdInv ==
    /\ IdTypes /\ Loaded /\ Untold /\ WhyRegister /\ Certified
    /\ RefusalActedOn /\ RunsOnWhatIsSaved /\ RunsOnUsableCertificate
    /\ refused \in BOOLEAN /\ told \subseteq {"enrolment", "profile"}

-----------------------------------------------------------------------------
(* The API contradicts itself over no device: if either route said that it  *)
(* is gone, the enrolment as a whole is refused.                            *)
LEMMA RefusalKept ==
    ASSUME NEW d, NEW direct \in Answers(d), NEW fronted \in Answers(d)
    PROVE  /\ enroll_key(direct, fronted) \in {"ok", "refused", "error"}
           /\ SaidGone(direct, fronted) => enroll_key(direct, fronted) = "refused"
           /\ enroll_key(direct, fronted) = "refused" => SaidGone(direct, fronted)
  BY DEF Answers, SaidGone, enroll_key

(* enroll_key's effect on the two copies of the identity keeps them         *)
(* identities, and makes a certificate no worse than it was.                *)
LEMMA EnrollKeeps ==
    ASSUME NEW result \in {"ok", "refused", "error"}, EnrollEffect(result),
           mem \in Ids, disk \in Ids \cup {NoId, Damaged}
    PROVE  /\ mem' \in Ids /\ disk' \in Ids \cup {NoId, Damaged}
           /\ disk = NoId => disk' = NoId
           /\ result = "ok" => cert_still_usable(mem')
           /\ cert_still_usable(mem) => cert_still_usable(mem')
<1> USE IdentityAssumption DEF Ids
<1>1. PICK took \in BOOLEAN :
        /\ disk' = IF took THEN Outdate(disk, mem.dev) ELSE disk
        /\ mem' = IF result = "ok" THEN [mem EXCEPT !.cert = "current", !.age = "fresh"]
                  ELSE IF took THEN Outdate(mem, mem.dev) ELSE mem
  BY DEF EnrollEffect
<1>2. Outdate(mem, mem.dev) \in Ids
  BY DEF Outdate
<1>3. Outdate(disk, mem.dev) \in Ids \cup {NoId, Damaged}
  BY DEF Outdate
<1>4. disk = NoId => Outdate(disk, mem.dev) = NoId
  BY DEF Outdate
<1>5. cert_still_usable(mem) => cert_still_usable(Outdate(mem, mem.dev))
  BY DEF Outdate, cert_still_usable
<1>6. cert_still_usable([mem EXCEPT !.cert = "current", !.age = "fresh"])
  BY DEF cert_still_usable
<1> QED
  BY <1>1, <1>2, <1>3, <1>4, <1>5, <1>6

(* A phone starts with no file, a damaged one or the identity of a device   *)
(* the account knows.                                                       *)
LEMMA IdentityInitInv == IdentityInit => IdInv
<1> SUFFICES ASSUME IdentityInit PROVE IdInv
  OBVIOUS
<1> DEFINE d == CHOOSE e \in Devices : TRUE
<1>1. d \in Devices
  BY IdentityAssumption, FS_EmptySet
<1>2. disk \in Ids \cup {NoId, Damaged} /\ live \subseteq Devices
  BY <1>1 DEF IdentityInit, Ids
<1>3. pc = "off" /\ mem = NoId /\ proto \in Protocols /\ team \in Teams /\ reprovision \in Reprovisions
  BY DEF IdentityInit
<1>4. refused \in BOOLEAN /\ told \subseteq {"enrolment", "profile"}
  BY DEF IdentityInit
<1>5. IdTypes
  BY <1>2, <1>3 DEF IdTypes
<1>6. Loaded /\ Untold /\ WhyRegister /\ Certified
  BY <1>3 DEF Loaded, Untold, WhyRegister, Certified, Provisioning
<1>7. RefusalActedOn /\ RunsOnWhatIsSaved /\ RunsOnUsableCertificate
  BY <1>3 DEF RefusalActedOn, RunsOnWhatIsSaved, RunsOnUsableCertificate
<1> QED
  BY <1>4, <1>5, <1>6, <1>7 DEF IdInv

-----------------------------------------------------------------------------
(* The steps of a start, one lemma each. *)

(* start() forgets the identity in memory. *)
LEMMA StartKeeps ==
    ASSUME IdInv, Start, UNCHANGED settings
    PROVE  IdInv'
  BY IdentityAssumption DEF Start, IdInv, IdTypes, Loaded, Untold, WhyRegister, Certified, Provisioning, RefusalActedOn,
     RunsOnWhatIsSaved, RunsOnUsableCertificate, settings, idVars

(* No file: the start registers because there is none. *)
LEMMA LoadNothingKeeps ==
    ASSUME IdInv, LoadNothing, UNCHANGED settings
    PROVE  IdInv'
  BY IdentityAssumption DEF LoadNothing, IdInv, IdTypes, Loaded, Untold, WhyRegister, Certified, Provisioning, RefusalActedOn,
     RunsOnWhatIsSaved, RunsOnUsableCertificate, settings, idVars

(* A damaged file fails the start. *)
LEMMA LoadDamagedKeeps ==
    ASSUME IdInv, LoadDamaged, UNCHANGED settings
    PROVE  IdInv'
  BY IdentityAssumption DEF LoadDamaged, IdInv, IdTypes, Loaded, Untold, WhyRegister, Certified, Provisioning, RefusalActedOn,
     RunsOnWhatIsSaved, RunsOnUsableCertificate, settings, idVars

(* A saved identity is adopted with a fresh certificate or enrolled first. *)
LEMMA LoadSavedKeeps ==
    ASSUME IdInv, LoadSaved, UNCHANGED settings
    PROVE  IdInv'
  BY IdentityAssumption DEF LoadSaved, IdInv, IdTypes, Loaded, Untold, WhyRegister, Certified, Provisioning, RefusalActedOn,
     RunsOnWhatIsSaved, RunsOnUsableCertificate, settings, idVars, has_masque_credentials,
     cert_still_usable

(* What runs has been written. *)
LEMMA SaveKeeps ==
    ASSUME IdInv, Save, UNCHANGED settings
    PROVE  IdInv'
  BY IdentityAssumption DEF Save, IdInv, IdTypes, Loaded, Untold, WhyRegister, Certified, Provisioning, RefusalActedOn,
     RunsOnWhatIsSaved, RunsOnUsableCertificate, settings, idVars

(* The account forgets a device. *)
LEMMA DeviceDeletedKeeps ==
    ASSUME IdInv, DeviceDeleted, UNCHANGED settings
    PROVE  IdInv'
  BY IdentityAssumption DEF DeviceDeleted, IdInv, IdTypes, Loaded, Untold, WhyRegister, Certified, Provisioning, RefusalActedOn,
     RunsOnWhatIsSaved, RunsOnUsableCertificate, settings, idVars

(* The saved certificate ages while nothing runs. *)
LEMMA TimePassesKeeps ==
    ASSUME IdInv, TimePasses, UNCHANGED settings
    PROVE  IdInv'
  BY IdentityAssumption DEF TimePasses, IdInv, IdTypes, Loaded, Untold, WhyRegister, Certified, Provisioning, RefusalActedOn,
     RunsOnWhatIsSaved, RunsOnUsableCertificate, settings, idVars, Ids

(* The process dies. *)
LEMMA KilledKeeps ==
    ASSUME IdInv, Killed, UNCHANGED settings
    PROVE  IdInv'
  BY IdentityAssumption DEF Killed, IdInv, IdTypes, Loaded, Untold, WhyRegister, Certified, Provisioning, RefusalActedOn,
     RunsOnWhatIsSaved, RunsOnUsableCertificate, settings, idVars

(* A refusal of the team's profile leads away from "save". *)
LEMMA AdoptSavedKeeps ==
    ASSUME IdInv, AdoptSaved, UNCHANGED settings
    PROVE  IdInv'
<1>1. CASE ~team
  BY <1>1, IdentityAssumption DEF AdoptSaved, IdInv, IdTypes, Loaded, Untold, WhyRegister, Certified, Provisioning, RefusalActedOn,
     RunsOnWhatIsSaved, RunsOnUsableCertificate, settings, idVars
<1>2. CASE team
  <2>1. PICK direct, fronted \in Answers(mem.dev) :
          /\ refused' = (fetch_device(direct, fronted) = "refused")
          /\ told' = Told("profile", direct, fronted)
    BY <1>2 DEF AdoptSaved
  <2>2. /\ refused' \in BOOLEAN /\ told' \subseteq {"enrolment", "profile"}
        /\ "enrolment" \in told' => "enrolment" \in told
        /\ refused' => told' # {}
    BY <2>1 DEF Told, SaidGone, fetch_device, IdInv
  <2>3. pc = "adopt" /\ pc' = (IF refused' THEN AfterRefusal ELSE "save")
    BY <1>2 DEF AdoptSaved
  <2> QED
    BY <2>1, <2>2, <2>3 DEF AdoptSaved, AfterRefusal, IdInv, IdTypes, Loaded, Untold, WhyRegister, Certified, Provisioning, RefusalActedOn,
     RunsOnWhatIsSaved, RunsOnUsableCertificate, settings, idVars
<1> QED
  BY <1>1, <1>2

(* An enrolment goes on with the certificate it obtained, with one that is   *)
(* still usable, or not at all; a refusal leads to a registration.           *)
LEMMA EnrollSavedKeeps ==
    ASSUME IdInv, EnrollSaved, UNCHANGED settings
    PROVE  IdInv'
<1>1. pc = "enroll" /\ mem \in Ids /\ disk \in Ids \cup {NoId, Damaged} /\ "enrolment" \notin told
  BY DEF EnrollSaved, IdInv, IdTypes, Loaded, Untold, WhyRegister, Certified, Provisioning, RefusalActedOn,
     RunsOnWhatIsSaved, RunsOnUsableCertificate, settings, idVars
<1>2. PICK direct \in Answers(mem.dev), fronted \in Answers(mem.dev) :
        LET result == enroll_key(direct, fronted) IN
        /\ EnrollEffect(result)
        /\ told' = Told("enrolment", direct, fronted)
        /\ refused' = (result = "refused")
        /\ pc' = CASE result = "ok" -> "save"
                   [] result = "refused" -> AfterRefusal
                   [] result = "error" /\ cert_still_usable(mem) -> "save"
                   [] OTHER -> "failed"
  BY DEF EnrollSaved
<1> DEFINE result == enroll_key(direct, fronted)
<1>3. result \in {"ok", "refused", "error"} /\ (SaidGone(direct, fronted) <=> result = "refused")
  BY RefusalKept
<1>4. /\ mem' \in Ids /\ disk' \in Ids \cup {NoId, Damaged}
      /\ result = "ok" => cert_still_usable(mem')
      /\ cert_still_usable(mem) => cert_still_usable(mem')
  BY <1>1, <1>2, <1>3, EnrollKeeps
<1>5. "enrolment" \in told' <=> result = "refused"
  BY <1>1, <1>2, <1>3 DEF Told
<1>6. refused' <=> result = "refused"
  BY <1>2
<1>7. refused' \in BOOLEAN /\ told' \subseteq {"enrolment", "profile"}
  BY <1>2 DEF Told, IdInv
<1>8. live' = live
  BY DEF EnrollSaved
<1> HIDE DEF result
<1>9. CASE result = "refused"
  BY <1>2, <1>4, <1>5, <1>6, <1>7, <1>8, <1>9 DEF result, AfterRefusal, IdInv, IdTypes, Loaded, Untold, WhyRegister, Certified, Provisioning, RefusalActedOn,
     RunsOnWhatIsSaved, RunsOnUsableCertificate, settings, idVars
<1>10. CASE result # "refused"
  <2>1. pc' = "failed" \/ (pc' = "save" /\ cert_still_usable(mem'))
    BY <1>2, <1>3, <1>4, <1>10 DEF result
  <2> QED
    BY <2>1, <1>4, <1>5, <1>7, <1>8, <1>10 DEF IdInv, IdTypes, Loaded, Untold, WhyRegister, Certified, Provisioning, RefusalActedOn,
     RunsOnWhatIsSaved, RunsOnUsableCertificate, settings, idVars
<1> QED
  BY <1>9, <1>10

(* A new device is nobody's, and nothing has been said of it. *)
LEMMA RegisterKeeps ==
    ASSUME IdInv, Register, UNCHANGED settings
    PROVE  IdInv'
<1>1. CASE pc' = "failed" /\ UNCHANGED <<mem, live, refused, told>>
  BY <1>1 DEF Register, IdInv, IdTypes, Loaded, Untold, WhyRegister, Certified, Provisioning, RefusalActedOn,
     RunsOnWhatIsSaved, RunsOnUsableCertificate, settings, idVars
<1>2. CASE ~(pc' = "failed" /\ UNCHANGED <<mem, live, refused, told>>)
  <2>1. PICK d \in Devices \ Held :
          mem' = finish_provision(d) /\ live' = (live \cap Held) \cup {d}
    BY <1>2 DEF Register
  <2>2. mem' \in Ids /\ live' \subseteq Devices
    BY <2>1 DEF finish_provision, Ids, IdInv, IdTypes
  <2>3. /\ refused' = FALSE /\ told' = {} /\ disk' = disk
        /\ pc' = (IF proto = "masque" THEN "enrollNew" ELSE "adoptNew")
    BY <1>2 DEF Register
  <2> QED
    BY <2>2, <2>3 DEF IdInv, IdTypes, Loaded, Untold, WhyRegister, Certified, Provisioning, RefusalActedOn,
     RunsOnWhatIsSaved, RunsOnUsableCertificate, settings, idVars
<1> QED
  BY <1>1, <1>2

(* The new device's certificate is fresh, or the start fails. *)
LEMMA EnrollNewKeeps ==
    ASSUME IdInv, EnrollNew, UNCHANGED settings
    PROVE  IdInv'
<1>1. pc = "enrollNew" /\ mem \in Ids /\ disk \in Ids \cup {NoId, Damaged} /\ "enrolment" \notin told
  BY DEF EnrollNew, IdInv, IdTypes, Loaded, Untold, WhyRegister, Certified, Provisioning, RefusalActedOn,
     RunsOnWhatIsSaved, RunsOnUsableCertificate, settings, idVars
<1>2. PICK direct \in Answers(mem.dev), fronted \in Answers(mem.dev) :
        /\ EnrollEffect(enroll_key(direct, fronted))
        /\ told' = Told("enrolment", direct, fronted)
        /\ pc' = IF enroll_key(direct, fronted) = "ok" THEN "adoptNew" ELSE "failed"
  BY DEF EnrollNew
<1> DEFINE result == enroll_key(direct, fronted)
<1>3. result \in {"ok", "refused", "error"} /\ (SaidGone(direct, fronted) <=> result = "refused")
  BY RefusalKept
<1>4. /\ mem' \in Ids /\ disk' \in Ids \cup {NoId, Damaged}
      /\ result = "ok" => cert_still_usable(mem')
  BY <1>1, <1>2, <1>3, EnrollKeeps
<1>5. "enrolment" \in told' <=> result = "refused"
  BY <1>1, <1>2, <1>3 DEF Told
<1>6. told' \subseteq {"enrolment", "profile"} /\ live' = live /\ refused' = refused
  BY <1>2 DEF EnrollNew, Told, IdInv
<1> HIDE DEF result
<1>7. pc' = "failed" \/ (pc' = "adoptNew" /\ result = "ok")
  BY <1>2 DEF result
<1> QED
  BY <1>4, <1>5, <1>6, <1>7 DEF IdInv, IdTypes, Loaded, Untold, WhyRegister, Certified, Provisioning, RefusalActedOn,
     RunsOnWhatIsSaved, RunsOnUsableCertificate, settings, idVars

(* Nobody looks at what the team's profile says of the new device. *)
LEMMA AdoptNewKeeps ==
    ASSUME IdInv, AdoptNew, UNCHANGED settings
    PROVE  IdInv'
<1>1. /\ refused' \in BOOLEAN /\ told' \subseteq {"enrolment", "profile"}
      /\ "enrolment" \in told' => "enrolment" \in told
  BY DEF AdoptNew, IdInv, Told
<1>2. pc = "adoptNew" /\ pc' = "save" /\ UNCHANGED <<mem, disk, live>>
  BY DEF AdoptNew
<1> QED
  BY <1>1, <1>2 DEF IdInv, IdTypes, Loaded, Untold, WhyRegister, Certified, Provisioning, RefusalActedOn,
     RunsOnWhatIsSaved, RunsOnUsableCertificate, settings, idVars

(* Every step of a start, and whatever happens to its files and its account. *)
LEMMA IdentityStep ==
    ASSUME IdInv, UNCHANGED settings,
           Start \/ load_or_provision \/ DeviceDeleted \/ TimePasses \/ Killed
    PROVE  IdInv'
  BY StartKeeps, LoadNothingKeeps, LoadDamagedKeeps, LoadSavedKeeps, AdoptSavedKeeps,
     EnrollSavedKeeps, RegisterKeeps, EnrollNewKeeps, AdoptNewKeeps, SaveKeeps,
     DeviceDeletedKeeps, TimePassesKeeps, KilledKeeps
  DEF load_or_provision

(* A device joins the account's only in Register, which the invariant says   *)
(* is reached for want of a file or after a refusal.                         *)
LEMMA IdentityChurn ==
    ASSUME IdInv, Start \/ load_or_provision \/ DeviceDeleted \/ TimePasses \/ Killed
    PROVE  live' \subseteq live \/ disk = NoId \/ told # {}
  BY DEF IdInv, WhyRegister, idVars, load_or_provision, Start, LoadNothing, LoadDamaged, LoadSaved,
     AdoptSaved, EnrollSaved, Register, EnrollNew, AdoptNew, Save, DeviceDeleted, TimePasses, Killed

(* A session that has begun, and leads neither back into a start nor to      *)
(* "run", keeps the invariant whatever it does to its identity's certificate. *)
LEMMA SessionKeeps ==
    ASSUME IdInv, UNCHANGED settings, UNCHANGED <<refused, live, told>>,
           pc' \notin Provisioning \cup {"register", "run"},
           mem' \in Ids, disk' \in Ids \cup {NoId, Damaged}
    PROVE  IdInv'
  BY DEF IdInv, IdTypes, Loaded, Untold, WhyRegister, Certified, Provisioning, RefusalActedOn,
     RunsOnWhatIsSaved, RunsOnUsableCertificate, settings, idVars

-----------------------------------------------------------------------------
(* A nonempty set of natural numbers has a least element: what the proofs    *)
(* about searches and candidate lists use in the place of induction.         *)
LEMMA NatMin ==
    ASSUME NEW S \in SUBSET Nat, S # {}
    PROVE  \E m \in S : \A n \in S : m <= n
<1>1. PICK m \in S : \A n \in S : ~(<<n, m>> \in OpToRel(<, Nat))
  BY NatLessThanWellFounded, WFMin, Zenon
<1>2. \A n \in S : ~(n < m)
  BY <1>1 DEF OpToRel
<1> QED
  BY <1>2

(* Where a start is before its session begins, or after it failed. *)
StartPlaces == Provisioning \cup {"off", "failed", "register", "run"}

LEMMA StartPlace ==
    ASSUME Start \/ load_or_provision
    PROVE  /\ pc \in StartPlaces /\ pc' \in StartPlaces
           /\ pc \notin {"run"} /\ pc' # "off"
<1> USE DEF StartPlaces, Provisioning, AfterRefusal
<1>1. CASE Start \/ LoadNothing \/ LoadDamaged \/ LoadSaved \/ Register \/ AdoptNew \/ Save
  BY <1>1 DEF Start, LoadNothing, LoadDamaged, LoadSaved, Register, AdoptNew, Save
<1>2. CASE AdoptSaved
  BY <1>2 DEF AdoptSaved
<1>3. CASE EnrollSaved
  BY <1>3 DEF EnrollSaved
<1>4. CASE EnrollNew
  BY <1>4 DEF EnrollNew
<1> QED
  BY <1>1, <1>2, <1>3, <1>4 DEF load_or_provision

=============================================================================
