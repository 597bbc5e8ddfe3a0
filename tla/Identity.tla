------------------------------ MODULE Identity ------------------------------
(***************************************************************************)
(* The device identity of the core: what load_or_provision_warp and        *)
(* load_or_provision_masque (main.rs) do with the saved file, with the     *)
(* account API (account.rs) and with a process that may die between the    *)
(* API's effect and the write of the file.                                 *)
(*                                                                         *)
(* An identity is [dev, cert, age].  dev is the registered device.  cert   *)
(* says how the MASQUE certificate relates to the key the account has      *)
(* enrolled for that device: "none", "current", or "stale" when a later    *)
(* enrolment took effect that this copy does not know of.  age is what     *)
(* masque_cert_expiring and cert_still_usable tell apart: "fresh",         *)
(* "expiring" (inside the renewal window) or "unusable" (past its life, no *)
(* issue time, or issued in the future by the phone's clock).              *)
(***************************************************************************)
EXTENDS Naturals, FiniteSets

CONSTANTS Protocols,   \* subset of {"masque", "warp"}: whose identity is wanted
          Teams,       \* subset of BOOLEAN: is AETHER_TEAM set
          Reprovisions,\* subset of BOOLEAN: keep_saved_identity() of main.rs
          Devices,     \* device ids the account API may hand out
          NoId,        \* no identity: no file, nothing in memory
          Damaged      \* a file that does not parse

ASSUME IdentityAssumption ==
    /\ Protocols \subseteq {"masque", "warp"}
    /\ Teams \subseteq BOOLEAN
    /\ Reprovisions \subseteq BOOLEAN
    /\ Cardinality(Devices) >= 2
    /\ NoId # Damaged
    /\ {NoId, Damaged} \cap [dev : Devices, cert : {"none", "current", "stale"},
                             age : {"fresh", "expiring", "unusable"}] = {}

VARIABLES pc,       \* where start() is; the sessions continue it from "run"
          mem,      \* the identity in memory
          refused,  \* Identity.refused of the one in memory
          disk,     \* the saved file: an identity, NoId or Damaged
          live,     \* devices the account still knows
          told,     \* which calls of this start were answered, over either route,
                    \* that the device of mem is gone: "enrolment", "profile"
          proto, team, reprovision   \* the user's settings, fixed

idVars == <<mem, refused, disk, live, told>>
settings == <<proto, team, reprovision>>

Ids == [dev : Devices, cert : {"none", "current", "stale"},
        age : {"fresh", "expiring", "unusable"}]

-----------------------------------------------------------------------------
(* The certificate of an identity, as account.rs judges it. *)

has_masque_credentials(id) == id.cert # "none" /\ id.age = "fresh"
cert_still_usable(id) == id.cert # "none" /\ id.age # "unusable"

(* One answer of the account API about device d, over one route, after      *)
(* send_with_retry has used up its attempts: only a device that is gone is  *)
(* answered with 401, 404 or 410, and any answer may fail to arrive.        *)
Answers(d) == {"error"} \cup (IF d \in live THEN {"ok"} ELSE {"refused"})

(* Mutant: the last route asked decides. *)
enroll_key_LastAnswer(direct, fronted) == IF direct = "ok" THEN "ok" ELSE fronted

(* enroll_key: the direct route, then the camouflaged one; a refusal by     *)
(* either is kept.                                                          *)
enroll_key(direct, fronted) ==
    IF "ok" \in {direct, fronted} THEN "ok"
    ELSE IF "refused" \in {direct, fronted} THEN "refused" ELSE "error"

(* fetch_device: the answer of the camouflaged route replaces a direct one  *)
(* that was not a success, a refusal included.                              *)
fetch_device(direct, fronted) == IF direct = "ok" THEN "ok" ELSE fronted

(* Did either route of a call say the device is gone?  The fronted one is   *)
(* asked only when the direct one did not succeed.  What the call made of   *)
(* it is enroll_key's and fetch_device's result, another matter.            *)
SaidGone(direct, fronted) ==
    direct = "refused" \/ (direct # "ok" /\ fronted = "refused")

(* What a start has been told, after one more call and its answers.         *)
Told(call, direct, fronted) ==
    told \cup (IF SaidGone(direct, fronted) THEN {call} ELSE {})

(* The devices this phone knows of.  One it registered and forgot plays no  *)
(* part any more, so its name may be used again.                            *)
Held == {i.dev : i \in {mem, disk} \cap Ids}

(* The copies of the device's identity after another key was enrolled.      *)
Outdate(id, d) ==
    IF id \in Ids /\ id.dev = d /\ id.cert = "current"
    THEN [id EXCEPT !.cert = "stale"] ELSE id

-----------------------------------------------------------------------------
(* start() and prepare() begin by loading the file. *)
Start ==
    /\ pc \in {"off", "failed"}
    /\ pc' = "load"
    /\ mem' = NoId /\ refused' = FALSE /\ told' = {}
    /\ UNCHANGED <<disk, live>>

(* config::load: no file is a first start; a damaged one is quarantined and *)
(* fails this start, so that the next one provisions.                       *)
LoadNothing ==
    /\ pc = "load" /\ disk = NoId
    /\ pc' = "register"
    /\ UNCHANGED idVars

LoadDamaged ==
    /\ pc = "load" /\ disk = Damaged
    /\ disk' \in {NoId, Damaged}   \* the rename may fail
    /\ pc' = "failed"
    /\ UNCHANGED <<mem, refused, live, told>>

(* Mutant: a certificate is trusted however old it is. *)
LoadSaved_NoExpiry ==
    /\ pc = "load" /\ disk \in Ids
    /\ mem' = disk /\ refused' = FALSE
    /\ pc' = IF proto = "masque" /\ disk.cert = "none" THEN "enroll" ELSE "adopt"
    /\ UNCHANGED <<disk, live, told>>

LoadSaved ==
    /\ pc = "load" /\ disk \in Ids
    /\ mem' = disk /\ refused' = FALSE
    /\ pc' = IF proto = "masque" /\ ~has_masque_credentials(disk)
             THEN "enroll" ELSE "adopt"
    /\ UNCHANGED <<disk, live, told>>

(* What happens to a refused identity: replaced by a new registration,      *)
(* unless AETHER_REPROVISION=0 keeps it, unsaved.                           *)
AfterRefusal == IF reprovision THEN "register" ELSE "run"

(* adopt_team_profile on the saved identity: the account is asked only for  *)
(* a team, and only a refusal that fetch_device returns changes the course. *)
AdoptSaved ==
    /\ pc = "adopt"
    /\ \/ /\ ~team
          /\ pc' = "save"
          /\ UNCHANGED <<refused, told>>
       \/ /\ team
          /\ \E direct, fronted \in Answers(mem.dev) :
               /\ refused' = (fetch_device(direct, fronted) = "refused")
               /\ told' = Told("profile", direct, fronted)
          /\ pc' = IF refused' THEN AfterRefusal ELSE "save"
    /\ UNCHANGED <<mem, disk, live>>

(* The API's side of enroll_key: the device's key is replaced when the      *)
(* request arrives, also when its answer is lost.                           *)
EnrollEffect(result) ==
    \E took \in IF result = "ok" THEN {TRUE}
                ELSE IF mem.dev \in live THEN BOOLEAN ELSE {FALSE} :
        /\ disk' = IF took THEN Outdate(disk, mem.dev) ELSE disk
        /\ mem' = IF result = "ok" THEN [mem EXCEPT !.cert = "current", !.age = "fresh"]
                  ELSE IF took THEN Outdate(mem, mem.dev) ELSE mem

(* Mutant: any failure to enrol registers a new device. *)
EnrollSaved_RegisterOnError ==
    /\ pc = "enroll"
    /\ \E direct, fronted \in Answers(mem.dev) :
         LET result == enroll_key(direct, fronted) IN
         /\ EnrollEffect(result)
         /\ told' = Told("enrolment", direct, fronted)
         /\ refused' = (result = "refused")
         /\ pc' = CASE result = "ok" -> "save"
                    [] result = "error" /\ cert_still_usable(mem) -> "save"
                    [] OTHER -> "register"
    /\ UNCHANGED live

(* ensure_masque_enrolled and renew_masque_certificate on a saved identity  *)
(* without a fresh certificate: a refusal re-registers, an API out of reach *)
(* leaves the certificate already on disk if its life is not over.          *)
EnrollSaved ==
    /\ pc = "enroll"
    /\ \E direct, fronted \in Answers(mem.dev) :
         LET result == enroll_key(direct, fronted) IN
         /\ EnrollEffect(result)
         /\ told' = Told("enrolment", direct, fronted)
         /\ refused' = (result = "refused")
         /\ pc' = CASE result = "ok" -> "save"
                    [] result = "refused" -> AfterRefusal
                    [] result = "error" /\ cert_still_usable(mem) -> "save"
                    [] OTHER -> "failed"
    /\ UNCHANGED live

(* finish_provision: a device without a MASQUE certificate. *)
finish_provision(d) == [dev |-> d, cert |-> "none", age |-> "unusable"]

(* provision_account: /reg over both routes (and a team's sign-in) may fail *)
(* as a whole; a success is a device nobody has used yet.                   *)
Register ==
    /\ pc = "register"
    /\ \/ /\ \E d \in Devices \ Held :
               /\ mem' = finish_provision(d)
               /\ live' = (live \cap Held) \cup {d}
          /\ refused' = FALSE /\ told' = {}
          /\ pc' = IF proto = "masque" THEN "enrollNew" ELSE "adoptNew"
       \/ /\ pc' = "failed"
          /\ UNCHANGED <<mem, live, refused, told>>
    /\ UNCHANGED disk

(* The MASQUE key of the new device: any failure fails the start, and the   *)
(* device just registered is forgotten.                                     *)
EnrollNew ==
    /\ pc = "enrollNew"
    /\ \E direct, fronted \in Answers(mem.dev) :
         LET result == enroll_key(direct, fronted) IN
         /\ EnrollEffect(result)
         /\ told' = Told("enrolment", direct, fronted)
         /\ pc' = IF result = "ok" THEN "adoptNew" ELSE "failed"
    /\ UNCHANGED <<live, refused>>

(* adopt_team_profile on the new identity; nobody looks at its refusal.     *)
AdoptNew ==
    /\ pc = "adoptNew"
    /\ pc' = "save"
    /\ \/ ~team /\ UNCHANGED <<refused, told>>
       \/ /\ team
          /\ \E direct, fronted \in Answers(mem.dev) :
               /\ refused' = (fetch_device(direct, fronted) = "refused")
               /\ told' = Told("profile", direct, fronted)
    /\ UNCHANGED <<mem, disk, live>>

(* Mutant: an identity that could not be written is used all the same. *)
Save_Lossy ==
    /\ pc = "save"
    /\ pc' = "run"
    /\ disk' \in {mem, disk}
    /\ UNCHANGED <<mem, refused, live, told>>

(* config::save: written to a temporary file and renamed, so the file is    *)
(* the old identity or the new one; a failure fails the start.              *)
Save ==
    /\ pc = "save"
    /\ \/ disk' = mem /\ pc' = "run"
       \/ disk' = disk /\ pc' = "failed"
    /\ UNCHANGED <<mem, refused, live, told>>

-----------------------------------------------------------------------------
(* The environment: a device is deleted upstream, a certificate ages or the *)
(* clock is set while nothing runs, the process is killed or stopped.       *)
DeviceDeleted ==
    /\ \E d \in live \cap Held : live' = live \ {d}
    /\ UNCHANGED <<pc, mem, refused, disk, told>>

TimePasses ==
    /\ pc = "off" /\ disk \in Ids /\ disk.cert # "none"
    /\ \E a \in {"fresh", "expiring", "unusable"} : disk' = [disk EXCEPT !.age = a]
    /\ UNCHANGED <<pc, mem, refused, live, told>>

Killed ==
    /\ pc # "off"
    /\ pc' = "off"
    /\ mem' = NoId /\ refused' = FALSE /\ told' = {}
    /\ UNCHANGED <<disk, live>>

load_or_provision ==
    \/ LoadNothing \/ LoadDamaged \/ LoadSaved \/ AdoptSaved \/ EnrollSaved
    \/ Register \/ EnrollNew \/ AdoptNew \/ Save

(* A phone's first start, one with a saved identity, or a damaged file.     *)
IdentityInit ==
    /\ pc = "off" /\ mem = NoId /\ refused = FALSE /\ told = {}
    /\ proto \in Protocols /\ team \in Teams /\ reprovision \in Reprovisions
    /\ LET d == CHOOSE e \in Devices : TRUE IN
       \/ disk \in {NoId, Damaged} /\ live = {}
       \/ /\ disk \in {[dev |-> d, cert |-> c, age |-> a] :
                         c \in {"none", "current", "stale"}, a \in {"fresh", "unusable"}}
          /\ disk.cert = "none" => disk.age = "unusable"
          /\ proto = "warp" => disk.cert = "none"
          /\ live = {d}

IdentityTypeOK ==
    /\ mem \in Ids \cup {NoId}
    /\ disk \in Ids \cup {NoId, Damaged}
    /\ refused \in BOOLEAN /\ told \subseteq {"enrolment", "profile"}
    /\ live \subseteq Devices
    /\ proto \in Protocols /\ team \in Teams /\ reprovision \in Reprovisions
    /\ pc \in {"load", "adopt", "enroll", "enrollNew", "adoptNew", "save"} =>
         (mem \in Ids \/ pc = "load")

-----------------------------------------------------------------------------
(* A start whose enrolment was told, over either route, that the device is  *)
(* gone does not go on with that device, unless the user asked to keep it   *)
(* (AETHER_REPROVISION=0): the tunnel would handshake and carry nothing.    *)
(* The same is not true of a team's profile.  fetch_device drops a refusal  *)
(* of the direct route when the camouflaged one then fails, and nobody      *)
(* looks at a refusal of the device just registered: such a start goes on.  *)
RefusalActedOn == (pc = "run" /\ reprovision) => "enrolment" \notin told

(* What a session runs on is what the next process would load: no crash     *)
(* after this point loses the registration or the enrolled key.  Only a     *)
(* refused identity kept on purpose is not written.                         *)
RunsOnWhatIsSaved == (pc = "run" /\ ~refused) => disk = mem

(* A MASQUE session never starts without a certificate, nor with one whose  *)
(* life is over.                                                            *)
RunsOnUsableCertificate ==
    (pc = "run" /\ proto = "masque" /\ ~refused) => cert_still_usable(mem)

(* Whatever the account API answered, whichever file was found and wherever *)
(* an earlier process died, the identity a session begins to run on is one  *)
(* whose enrolment was not refused, that is saved, and whose certificate's  *)
(* life is not over.  It may still be a certificate the account has since   *)
(* replaced, by an enrolment whose answer was lost: that one the edge       *)
(* refuses, and the session renews it.                                      *)
RunsOnSoundIdentity == RefusalActedOn /\ RunsOnWhatIsSaved /\ RunsOnUsableCertificate

(* A new device is registered only when there is no saved one to use, or    *)
(* the account has said that the saved one is gone: an API that is merely   *)
(* out of reach never costs the user a registration.                        *)
NoChurn == [][live' \subseteq live \/ disk = NoId \/ told # {}]_<<pc, idVars>>

=============================================================================
