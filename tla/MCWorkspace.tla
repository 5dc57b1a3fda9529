---------------------------- MODULE MCWorkspace ----------------------------
(***************************************************************************)
(* One instance of each part of the workspace for TLC: vehicles and their  *)
(* owners, logins and sessions, odometer readings, the centers a vehicle   *)
(* lets in, invitations, services and reviews of a center, documents,      *)
(* organizations, roles, spoken job cards, plans, cached answers, what a   *)
(* tenant sees and the stand-in for Redis.  Each is a specification of its *)
(* own and they share no state, so a behaviour exercises one of them:      *)
(* their states add up instead of multiplying.                             *)
(***************************************************************************)
EXTENDS Integers, FiniteSets, TLC

CONSTANTS
  Requests,  \* slots for concurrent requests, and applications to sign up
  Things,    \* owners, centers, names, accounts, roles, permissions, tenants
  None,
  Vehicles, MaxHistory, MaxListed, MayFail, LockAfter, MaxFailures,
  Rows, MaxValue, MaxEntries, Invites, MaxUses, MaxReminders,
  MaxServices, MaxRating, Docs, Emails, Registrations, MaxSlug,
  MaxSaves, Phones, Plates, MaxJobs, MaxPrice, Ttl, MaxWait, MaxVersions,
  HashFields, MaxTtl, MaxScore, MaxReach

VARIABLES
  part,  \* what moves
  vehicle, garage, total, vehicleReq, vehicleStale, typed,
  account, profile, loginReq, guesses,
  user, marker, access, refresh, challenge, sessionReq, shut,
  current, readings, recordReq, loose,
  entries, accessReq,
  inv, acceptReq, grants, spared, muddled,
  center, services, serviceReq,
  reviews, stats, reviewReq, reviewStale,
  documents, files, documentReq,
  form, at, written, stored, review, deleted, taken,
  active, staff, staffReq,
  draft, intakeReq, accounts, profiles, linked, vehicles, jobs,
  plan, planReq, mixed,
  version, changed, entry, cacheReq,
  scoped, scopeReq, torn,
  kind, strings, hashes, zsets, answer

V == INSTANCE VehicleOwnership WITH req <- vehicleReq, stale <- vehicleStale, Owners <- Things
L == INSTANCE SignIn WITH req <- loginReq
S == INSTANCE Sessions WITH account <- user, req <- sessionReq
O == INSTANCE OdometerReadings WITH rows <- readings, req <- recordReq
A == INSTANCE CenterAccess WITH req <- accessReq, Centers <- Things
I == INSTANCE Invitations WITH req <- acceptReq
C == INSTANCE ServiceCenters WITH req <- serviceReq, Names <- Things
R == INSTANCE Reviews WITH req <- reviewReq, stale <- reviewStale, Accounts <- Things
D == INSTANCE Documents WITH rows <- documents, req <- documentReq
N == INSTANCE Onboarding WITH Signups <- Requests
P == INSTANCE Permissions WITH req <- staffReq, Roles <- Things, Perms <- Things
T == INSTANCE VoiceIntake WITH req <- intakeReq, Registrations <- Plates
G == INSTANCE PlanCatalog WITH req <- planReq, Names <- Things
H == INSTANCE ResponseCache WITH req <- cacheReq
X == INSTANCE TenantScope WITH docs <- scoped, req <- scopeReq, Tenants <- Things
K == INSTANCE InMemoryRedis
  WITH Texts <- Things, Members <- Things, Fields <- HashFields

ASSUME WorkspaceConstants ==
  /\ V!VehicleConstants
  /\ L!SignInConstants
  /\ O!OdometerConstants
  /\ A!CenterAccessConstants
  /\ I!InvitationConstants
  /\ C!ServiceCenterConstants
  /\ R!ReviewConstants
  /\ D!DocumentConstants
  /\ N!OnboardingConstants
  /\ P!PermissionConstants
  /\ T!VoiceConstants
  /\ G!PlanConstants
  /\ H!CacheConstants
  /\ X!TenantConstants
  /\ K!StandInConstants

vehiclesVars == <<vehicle, garage, total, vehicleReq, vehicleStale, typed>>
loginsVars == <<account, profile, loginReq, guesses>>
sessionsVars == <<user, marker, access, refresh, challenge, sessionReq, shut>>
readingsVars == <<current, readings, recordReq, loose>>
accessVars == <<entries, accessReq>>
invitationsVars == <<inv, acceptReq, grants, spared, muddled>>
servicesVars == <<center, services, serviceReq>>
reviewsVars == <<reviews, stats, reviewReq, reviewStale>>
documentsVars == <<documents, files, documentReq>>
onboardingVars == <<form, at, written, stored, review, deleted, taken>>
permissionsVars == <<active, staff, staffReq>>
intakeVars == <<draft, intakeReq, accounts, profiles, linked, vehicles, jobs>>
plansVars == <<plan, planReq, mixed>>
cacheVars == <<version, changed, entry, cacheReq>>
tenantsVars == <<scoped, scopeReq, torn>>
standInVars == <<kind, strings, hashes, zsets, answer>>
vars == <<part, vehiclesVars, loginsVars, sessionsVars, readingsVars,
  accessVars, invitationsVars, servicesVars, reviewsVars, documentsVars,
  onboardingVars, permissionsVars, intakeVars, plansVars, cacheVars,
  tenantsVars, standInVars>>

Parts ==
  {"vehicles", "logins", "sessions", "readings", "access", "invitations",
   "services", "reviews", "documents", "onboarding", "permissions", "intake",
   "plans", "cache", "tenants", "standIn"}

Symmetry == Permutations(Requests) \cup Permutations(Things)

Init ==
  /\ part \in Parts
  /\ V!Init /\ L!Init /\ S!Init /\ O!Init /\ A!Init /\ I!Init
  /\ C!Init /\ R!Init /\ D!Init /\ N!Init /\ P!Init /\ T!Init
  /\ G!Init /\ H!Init /\ X!Init /\ K!Init
  /\ part # "readings" => current = 0
  /\ part # "standIn" => kind = "strings"

Next ==
  \/ /\ part = "vehicles" /\ V!Next
     /\ UNCHANGED <<part, loginsVars, sessionsVars, readingsVars, accessVars,
                   invitationsVars, servicesVars, reviewsVars, documentsVars,
                   onboardingVars, permissionsVars, intakeVars, plansVars,
                   cacheVars, tenantsVars, standInVars>>
  \/ /\ part = "logins" /\ L!Next
     /\ UNCHANGED <<part, vehiclesVars, sessionsVars, readingsVars,
                   accessVars, invitationsVars, servicesVars, reviewsVars,
                   documentsVars, onboardingVars, permissionsVars, intakeVars,
                   plansVars, cacheVars, tenantsVars, standInVars>>
  \/ /\ part = "sessions" /\ S!Next
     /\ UNCHANGED <<part, vehiclesVars, loginsVars, readingsVars, accessVars,
                   invitationsVars, servicesVars, reviewsVars, documentsVars,
                   onboardingVars, permissionsVars, intakeVars, plansVars,
                   cacheVars, tenantsVars, standInVars>>
  \/ /\ part = "readings" /\ O!Next
     /\ UNCHANGED <<part, vehiclesVars, loginsVars, sessionsVars, accessVars,
                   invitationsVars, servicesVars, reviewsVars, documentsVars,
                   onboardingVars, permissionsVars, intakeVars, plansVars,
                   cacheVars, tenantsVars, standInVars>>
  \/ /\ part = "access" /\ A!Next
     /\ UNCHANGED <<part, vehiclesVars, loginsVars, sessionsVars,
                   readingsVars, invitationsVars, servicesVars, reviewsVars,
                   documentsVars, onboardingVars, permissionsVars, intakeVars,
                   plansVars, cacheVars, tenantsVars, standInVars>>
  \/ /\ part = "invitations" /\ I!Next
     /\ UNCHANGED <<part, vehiclesVars, loginsVars, sessionsVars,
                   readingsVars, accessVars, servicesVars, reviewsVars,
                   documentsVars, onboardingVars, permissionsVars, intakeVars,
                   plansVars, cacheVars, tenantsVars, standInVars>>
  \/ /\ part = "services" /\ C!Next
     /\ UNCHANGED <<part, vehiclesVars, loginsVars, sessionsVars,
                   readingsVars, accessVars, invitationsVars, reviewsVars,
                   documentsVars, onboardingVars, permissionsVars, intakeVars,
                   plansVars, cacheVars, tenantsVars, standInVars>>
  \/ /\ part = "reviews" /\ R!Next
     /\ UNCHANGED <<part, vehiclesVars, loginsVars, sessionsVars,
                   readingsVars, accessVars, invitationsVars, servicesVars,
                   documentsVars, onboardingVars, permissionsVars, intakeVars,
                   plansVars, cacheVars, tenantsVars, standInVars>>
  \/ /\ part = "documents" /\ D!Next
     /\ UNCHANGED <<part, vehiclesVars, loginsVars, sessionsVars,
                   readingsVars, accessVars, invitationsVars, servicesVars,
                   reviewsVars, onboardingVars, permissionsVars, intakeVars,
                   plansVars, cacheVars, tenantsVars, standInVars>>
  \/ /\ part = "onboarding" /\ N!Next
     /\ UNCHANGED <<part, vehiclesVars, loginsVars, sessionsVars,
                   readingsVars, accessVars, invitationsVars, servicesVars,
                   reviewsVars, documentsVars, permissionsVars, intakeVars,
                   plansVars, cacheVars, tenantsVars, standInVars>>
  \/ /\ part = "permissions" /\ P!Next
     /\ UNCHANGED <<part, vehiclesVars, loginsVars, sessionsVars,
                   readingsVars, accessVars, invitationsVars, servicesVars,
                   reviewsVars, documentsVars, onboardingVars, intakeVars,
                   plansVars, cacheVars, tenantsVars, standInVars>>
  \/ /\ part = "intake" /\ T!Next
     /\ UNCHANGED <<part, vehiclesVars, loginsVars, sessionsVars,
                   readingsVars, accessVars, invitationsVars, servicesVars,
                   reviewsVars, documentsVars, onboardingVars,
                   permissionsVars, plansVars, cacheVars, tenantsVars,
                   standInVars>>
  \/ /\ part = "plans" /\ G!Next
     /\ UNCHANGED <<part, vehiclesVars, loginsVars, sessionsVars,
                   readingsVars, accessVars, invitationsVars, servicesVars,
                   reviewsVars, documentsVars, onboardingVars,
                   permissionsVars, intakeVars, cacheVars, tenantsVars,
                   standInVars>>
  \/ /\ part = "cache" /\ H!Next
     /\ UNCHANGED <<part, vehiclesVars, loginsVars, sessionsVars,
                   readingsVars, accessVars, invitationsVars, servicesVars,
                   reviewsVars, documentsVars, onboardingVars,
                   permissionsVars, intakeVars, plansVars, tenantsVars,
                   standInVars>>
  \/ /\ part = "tenants" /\ X!Next
     /\ UNCHANGED <<part, vehiclesVars, loginsVars, sessionsVars,
                   readingsVars, accessVars, invitationsVars, servicesVars,
                   reviewsVars, documentsVars, onboardingVars,
                   permissionsVars, intakeVars, plansVars, cacheVars,
                   standInVars>>
  \/ /\ part = "standIn" /\ K!Next
     /\ UNCHANGED <<part, vehiclesVars, loginsVars, sessionsVars,
                   readingsVars, accessVars, invitationsVars, servicesVars,
                   reviewsVars, documentsVars, onboardingVars,
                   permissionsVars, intakeVars, plansVars, cacheVars,
                   tenantsVars>>

Spec == Init /\ [][Next]_vars

-----------------------------------------------------------------------------
(* Every variable of every part holds a value of its type.                 *)
TypeOK ==
  CASE part = "vehicles" -> V!TypeOK
    [] part = "logins" -> L!TypeOK
    [] part = "sessions" -> S!TypeOK
    [] part = "readings" -> O!TypeOK
    [] part = "access" -> A!TypeOK
    [] part = "invitations" -> I!TypeOK
    [] part = "services" -> C!TypeOK
    [] part = "reviews" -> R!TypeOK
    [] part = "documents" -> D!TypeOK
    [] part = "onboarding" -> N!TypeOK
    [] part = "permissions" -> P!TypeOK
    [] part = "intake" -> T!TypeOK
    [] part = "plans" -> G!TypeOK
    [] part = "cache" -> H!TypeOK
    [] part = "tenants" -> X!TypeOK
    [] part = "standIn" -> K!TypeOK

(* The owner of a vehicle is the last one of its history.                  *)
HistoryMatchesOwner == V!HistoryMatchesOwner

(* What is written down twice agrees: an owner's total and a center's      *)
(* rating with what they were last counted from, the value on a vehicle    *)
(* with a row of the log, a plan with the one that its subscribers are     *)
(* charged for, and a cached answer, once its time is up, with the plans.  *)
CopiesAgree ==
  /\ V!TotalsExact /\ R!RatingExact
  /\ O!CurrentIsLogged
  /\ G!ChargedAsTold
  /\ H!StalenessBounded

(* Passwords cannot be tried more often than the lock allows.              *)
GuessesBounded == L!GuessesBounded

(* A login does not take away a lock or a status set while it ran.         *)
LockKept == L!LockKept

(* Who is suspended gets no further with tokens from before.               *)
SuspendedShutOut == S!SuspendedShutOut

(* Who belongs to a tenant works on documents of that tenant, unless he    *)
(* names another.                                                          *)
AskedTenantOnly == X!AskedTenantOnly

(* What stops half-way leaves nothing without what belongs to it: a        *)
(* document has its file, an organization all its parts, a job card its    *)
(* customer, and an invitation that says "accepted" has granted, once, or  *)
(* found nothing to grant.                                                 *)
NothingHalfDone ==
  /\ D!LiveHasFile /\ N!NoHalfOrganization /\ T!JobHasCustomer
  /\ I!GrantBeforeAccepted /\ I!GrantedOnce

(* A request that changes one entry of a list, or one field of a draft,    *)
(* leaves those alone that others have written since it read it.           *)
OthersKept ==
  /\ A!OwnEntriesKept /\ C!OnlyItsService
  /\ P!GrantsKept /\ T!CapturedIsKept

(* The stand-in for Redis answers as a Redis server does.                  *)
ActsLikeRedis == K!ActsLikeRedis
=============================================================================
