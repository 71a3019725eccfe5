-------------------------- MODULE OperationsProofs --------------------------
(***************************************************************************)
(* The operators' side for any number of requests, sockets, bags, tasks    *)
(* and clients: each part's inductive invariant, what it implies, and for  *)
(* the composition that each of its steps is a step of one part and a      *)
(* stutter of the others.                                                  *)
(***************************************************************************)
EXTENDS MCOperations, FiniteSetTheorems, SequenceTheorems, NaturalsInduction, WellFoundedInduction,
        Sums, TLAPS

-----------------------------------------------------------------------------
(* Partnership: whoever writes ACTIVE or SUSPENDED either approves or read *)
(* a row that some approval had made ACTIVE before.                        *)

Working == {"ACTIVE", "SUSPENDED"}

PartnershipInv ==
    /\ everApproved \in BOOLEAN
    /\ deciding \in [PartnerRequests -> [writes : PartnerStatus, opens : BOOLEAN,
                                         creates : BOOLEAN, approves : BOOLEAN]]
    /\ NeverActiveUnapproved
    /\ \A q \in PartnerRequests :
         deciding[q].writes \in Working => everApproved \/ deciding[q].approves

\* Nobody decides at first, and an active pair has been approved.
LEMMA PartnershipInitially == PartnershipInit => PartnershipInv
  <1> SUFFICES ASSUME PartnershipInit PROVE PartnershipInv
    OBVIOUS
  <1>1. Undecided \in [writes : PartnerStatus, opens : BOOLEAN, creates : BOOLEAN, approves : BOOLEAN]
    BY DEF Undecided, PartnerStatus
  <1>2. everApproved \in BOOLEAN
    BY Zenon DEF PartnershipInit
  <1>3. NeverActiveUnapproved /\ Undecided.writes \notin Working
    BY DEF PartnershipInit, NeverActiveUnapproved, Undecided, Working
  <1> QED
    BY <1>1, <1>2, <1>3, Zenon DEF PartnershipInit, PartnershipInv

\* Reading the row for an invitation or a request keeps the invariant.
LEMMA OpenReadsKeeps ==
    ASSUME PartnershipInv, NEW q \in PartnerRequests, NEW role, OpenReads(q, role)
    PROVE  PartnershipInv'
  <1>1. PICK d \in [writes : {"INVITED", "REQUESTED"}, opens : BOOLEAN, creates : BOOLEAN, approves : BOOLEAN] :
          deciding' = [deciding EXCEPT ![q] = d]
    BY DEF OpenReads, Undecided
  <1>2. d \in [writes : PartnerStatus, opens : BOOLEAN, creates : BOOLEAN, approves : BOOLEAN]
        /\ d.writes \notin Working
    BY DEF PartnerStatus, Working
  <1>3. UNCHANGED <<partnership, everApproved>>
    BY DEF OpenReads
  <1> QED
    BY <1>1, <1>2, <1>3, Zenon DEF PartnershipInv, NeverActiveUnapproved

\* A decision taken on a row read earlier keeps the invariant.
LEMMA PatchDecidesKeeps ==
    ASSUME PartnershipInv, NEW q \in PartnerRequests, NEW role, NEW rule \in RULES,
           PatchDecides(q, role, rule)
    PROVE  PartnershipInv'
  <1>1. rule.to \in PartnerStatus
    BY DEF RULES, Rule, PartnerStatus
  <1>2. rule.to \in Working => rule.action = "approve" \/ rule.from \subseteq Working
    BY DEF RULES, Rule, PartnerStatus, Working
  <1> QED
    BY <1>1, <1>2 DEF PartnershipInv, PatchDecides, NeverActiveUnapproved, Undecided, Working

\* Writing the decision keeps the invariant.
LEMMA DecisionWritesKeeps ==
    ASSUME PartnershipInv, NEW q \in PartnerRequests, DecisionWrites(q)
    PROVE  PartnershipInv'
  BY DEF PartnershipInv, DecisionWrites, NeverActiveUnapproved, Undecided, PartnerStatus, Working

\* Every step of the partnership keeps the invariant.
LEMMA PartnershipKeeps == PartnershipInv /\ [PartnershipNext]_partnershipVars => PartnershipInv'
  <1> SUFFICES ASSUME PartnershipInv, [PartnershipNext]_partnershipVars PROVE PartnershipInv'
    OBVIOUS
  <1>1. CASE PartnershipNext
    BY <1>1, OpenReadsKeeps, PatchDecidesKeeps, DecisionWritesKeeps DEF PartnershipNext
  <1>2. CASE UNCHANGED partnershipVars
    BY <1>2 DEF partnershipVars, PartnershipInv, NeverActiveUnapproved
  <1> QED
    BY <1>1, <1>2

-----------------------------------------------------------------------------
(* RealtimeGateway: an identity is vouched for as of the start of the       *)
(* request it came from, because the verifier read the account no earlier,  *)
(* and an instant at which the account was entitled is never forgotten.     *)

Roles  == {"USER", "ADMIN", "SUPERADMIN"}
Answers == [status : {"valid", "revoked", "unavailable"}, role : Roles, org : Orgs]
Metas ==
    [state : {"new", "upgrading", "open", "closed"}, cookie : BOOLEAN, token : BOOLEAN,
     verified : BOOLEAN, identified : BOOLEAN, role : Roles, org : Orgs,
     validatedAt : Int, revalidateAt : Int, timer : BOOLEAN,
     request : {"none", "asked", "read", "answered"}, startedAt : Int, answer : Answers]

\* The alerts of o are for a holder of the role in the organization.
Grants(role, org, o) == role = "SUPERADMIN" \/ (role = "ADMIN" /\ org = o)

\* What the role gives, the account was entitled to at since or later, when
\* was[o] is the last instant at which it was entitled to the alerts of o.
VouchedSince(role, org, since, was) ==
    \A o \in Orgs : Grants(role, org, o) => was[o] >= since

Vouched(m, t, was) ==
    /\ m.startedAt <= t
    /\ m.request \in {"read", "answered"} /\ m.answer.status = "valid" =>
         VouchedSince(m.answer.role, m.answer.org, m.startedAt, was)
    /\ m.identified => VouchedSince(m.role, m.org, m.validatedAt, was)

MetaVouched(m) == Vouched(m, clock, Entitled)

GatewayShape ==
    /\ clock \in Nat /\ sock \in [Sockets -> Metas]
    /\ viewer \in [active : BOOLEAN, tokenVersion : {0, 1}, role : Roles, org : Orgs]
    /\ alert \in [pc : {"idle", "refreshing"}, org : Orgs, waiting : SUBSET Sockets]
    /\ entitledAt \in [Orgs -> Int] /\ \A o \in Orgs : entitledAt[o] <= clock

GatewayInv ==
    /\ GatewayShape
    /\ \A s \in Sockets : MetaVouched(sock[s])
    /\ AlertsToTheEntitled

\* A socket admitted now is vouched for from now on.
LEMMA FreshMetaFits ==
    ASSUME viewer.org \in Orgs, clock \in Int, clock >= 0
    PROVE  FreshMeta \in Metas /\ MetaVouched(FreshMeta)
  <1>1. Unanswered \in Answers
    BY DEF Unanswered, Answers, Roles
  <1> QED
    BY <1>1 DEF FreshMeta, Metas, Roles, MetaVouched, Vouched

\* No socket is open at first.
LEMMA GatewayInitially == GatewayInit => GatewayInv
  <1> SUFFICES ASSUME GatewayInit PROVE GatewayInv
    OBVIOUS
  <1>1. viewer.org \in Orgs /\ viewer \in [active : BOOLEAN, tokenVersion : {0, 1}, role : Roles, org : Orgs]
    BY DEF GatewayInit, Roles
  <1>2. Never \in Int /\ Never <= 0
    BY GatewayBounds DEF Never
  <1>3. NoAlert \in [pc : {"idle", "refreshing"}, org : Orgs, waiting : SUBSET Sockets]
    BY <1>1 DEF NoAlert
  <1>4. clock = 0 /\ FreshMeta \in Metas /\ MetaVouched(FreshMeta)
    BY <1>1, FreshMetaFits DEF GatewayInit
  <1> QED
    BY <1>1, <1>2, <1>3, <1>4 DEF GatewayInit, GatewayInv, GatewayShape, AlertsToTheEntitled

\* An account changes and time passes; what it was entitled to is kept.
LEMMA EntitledGrows ==
    ASSUME GatewayInv, clock' \in Nat, clock' >= clock, entitledAt' = Entitled
    PROVE  /\ entitledAt' \in [Orgs -> Int] /\ \A o \in Orgs : entitledAt'[o] <= clock'
           /\ \A o \in Orgs : Entitled'[o] >= Entitled[o]
  BY DEF GatewayInv, GatewayShape, Entitled

\* A step of one socket that keeps its identity vouched for.
LEMMA SocketStepKeeps ==
    ASSUME GatewayInv, NEW s \in Sockets, NEW m \in Metas, MetaVouched(m),
           sock' = [sock EXCEPT ![s] = m], UNCHANGED <<clock, viewer, alerted, entitledAt>>,
           alert' \in [pc : {"idle", "refreshing"}, org : Orgs, waiting : SUBSET Sockets],
           alert'.org = alert.org
    PROVE  GatewayInv'
  <1>1. Entitled' = Entitled /\ clock' = clock
    BY DEF Entitled, EntitledTo, SessionCurrent
  <1>2. \A z \in Sockets : sock'[z] = IF z = s THEN m ELSE sock[z]
    BY DEF GatewayInv, GatewayShape
  <1>3. \A z \in Sockets : MetaVouched(sock[z])'
    BY <1>1, <1>2, Zenon DEF GatewayInv, MetaVouched
  <1>4. AlertsToTheEntitled'
    BY <1>1 DEF GatewayInv, AlertsToTheEntitled
  <1>5. GatewayShape'
    BY DEF GatewayInv, GatewayShape
  <1> QED
    BY <1>3, <1>4, <1>5 DEF GatewayInv

\* Asking for a new check leaves the socket vouched for as it was.
LEMMA AskingFits ==
    ASSUME GatewayInv, NEW m \in Metas, MetaVouched(m)
    PROVE  Asking(m) \in Metas /\ MetaVouched(Asking(m))
  <1>. clock \in Int
    BY DEF GatewayInv, GatewayShape
  <1>1. Asking(m) \in Metas
    BY DEF Metas, Asking
  <1>2. /\ Asking(m).startedAt = clock /\ Asking(m).request = "asked" /\ Asking(m).role = m.role
        /\ Asking(m).identified = m.identified /\ Asking(m).org = m.org
        /\ Asking(m).validatedAt = m.validatedAt
    BY DEF Metas, Asking
  <1>3. MetaVouched(Asking(m))
    BY <1>2 DEF GatewayInv, GatewayShape, MetaVouched, Vouched
  <1> QED
    BY <1>1, <1>3

\* A socket that is forgotten is vouched for by nobody.
LEMMA ForgetFits ==
    ASSUME NEW m \in Metas, MetaVouched(m)
    PROVE  forget(m) \in Metas /\ MetaVouched(forget(m))
  BY DEF Metas, forget, MetaVouched, Vouched

\* An identity that was asked for at startedAt is vouched for from then on.
LEMMA IdentityFits ==
    ASSUME GatewayInv, NEW m \in Metas, MetaVouched(m), m.request = "none",
           VouchedSince(m.answer.role, m.answer.org, m.startedAt, Entitled)
    PROVE  applyIdentity(m) \in Metas /\ MetaVouched(applyIdentity(m))
  <1>1. m.startedAt \in Int /\ m.answer.role \in Roles /\ m.answer.org \in Orgs
    BY DEF Metas, Answers
  <1>2. m.startedAt + RevalidateTicks \in Int
    BY <1>1, GatewayBounds
  <1>3. applyIdentity(m) \in Metas
    BY <1>1, <1>2 DEF Metas, applyIdentity
  <1>4. /\ applyIdentity(m).startedAt = m.startedAt /\ applyIdentity(m).request = "none"
        /\ applyIdentity(m).role = m.answer.role /\ applyIdentity(m).org = m.answer.org
        /\ applyIdentity(m).validatedAt = m.startedAt
    BY DEF Metas, applyIdentity
  <1>5. MetaVouched(applyIdentity(m))
    BY <1>4, Zenon DEF MetaVouched, Vouched
  <1> QED
    BY <1>3, <1>5

\* A connection keeps the invariant.
LEMMA ConnectsKeeps ==
    ASSUME GatewayInv, NEW s \in Sockets, NEW cookie \in BOOLEAN, Connects(s, cookie)
    PROVE  GatewayInv'
  <1>1. FreshMeta \in Metas /\ MetaVouched(FreshMeta)
    BY FreshMetaFits DEF GatewayInv, GatewayShape
  <1> DEFINE n == [FreshMeta EXCEPT !.state = "upgrading", !.cookie = TRUE]
             o == [FreshMeta EXCEPT !.state = "open"]
  <1>2. n \in Metas /\ MetaVouched(n) /\ o \in Metas /\ MetaVouched(o)
    BY <1>1 DEF Metas, MetaVouched, Vouched
  <1>3. Asking(n) \in Metas /\ MetaVouched(Asking(n))
    BY <1>2, AskingFits
  <1> QED
    BY <1>2, <1>3, SocketStepKeeps DEF Connects, GatewayInv, GatewayShape

\* A valid identity read now vouches for the account as it is now.
LEMMA ReadVouches ==
    ASSUME GatewayInv, NEW t \in Int, t <= clock,
           resolveWsSessionIdentity.status = "valid"
    PROVE  VouchedSince(resolveWsSessionIdentity.role, resolveWsSessionIdentity.org, t, Entitled)
  BY DEF GatewayInv, GatewayShape, resolveWsSessionIdentity, VouchedSince, Grants, Entitled, EntitledTo

\* The verifier's read keeps the invariant.
LEMMA VerifierReadsKeeps ==
    ASSUME GatewayInv, NEW s \in Sockets, VerifierReads(s)
    PROVE  GatewayInv'
  <1> DEFINE m == [sock[s] EXCEPT !.request = "read", !.answer = resolveWsSessionIdentity]
  <1>1. sock[s] \in Metas /\ MetaVouched(sock[s])
    BY DEF GatewayInv, GatewayShape
  <1>2. resolveWsSessionIdentity \in Answers
    BY DEF resolveWsSessionIdentity, Answers, Roles, GatewayInv, GatewayShape
  <1>3. m \in Metas
    BY <1>1, <1>2 DEF Metas
  <1>4. resolveWsSessionIdentity.status = "valid" =>
          VouchedSince(resolveWsSessionIdentity.role, resolveWsSessionIdentity.org, sock[s].startedAt, Entitled)
    BY <1>1, ReadVouches DEF Metas, MetaVouched, Vouched
  <1>5. MetaVouched(m)
    BY <1>1, <1>4 DEF Metas, MetaVouched, Vouched
  <1> QED
    BY <1>3, <1>5, SocketStepKeeps DEF VerifierReads, GatewayInv, GatewayShape

\* A check that fails keeps the invariant.
LEMMA VerifierFailsKeeps ==
    ASSUME GatewayInv, NEW s \in Sockets, VerifierFails(s)
    PROVE  GatewayInv'
  <1> DEFINE m == [sock[s] EXCEPT !.request = "answered", !.answer = Unanswered]
  <1>1. sock[s] \in Metas /\ MetaVouched(sock[s])
    BY DEF GatewayInv, GatewayShape
  <1>2. Unanswered \in Answers /\ Unanswered.status # "valid"
    BY DEF Unanswered, Answers, Roles, GatewayInv, GatewayShape
  <1>3. m \in Metas /\ MetaVouched(m)
    BY <1>1, <1>2 DEF Metas, MetaVouched, Vouched
  <1> QED
    BY <1>3, SocketStepKeeps DEF VerifierFails, GatewayInv, GatewayShape

\* The verifier's answer, however late, keeps the invariant.
LEMMA VerifierAnswersKeeps ==
    ASSUME GatewayInv, NEW s \in Sockets, VerifierAnswers(s)
    PROVE  GatewayInv'
  <1> DEFINE m == [sock[s] EXCEPT !.request = "answered"]
  <1>1. sock[s] \in Metas /\ MetaVouched(sock[s])
    BY DEF GatewayInv, GatewayShape
  <1>2. m \in Metas /\ MetaVouched(m)
    BY <1>1 DEF VerifierAnswers, Metas, MetaVouched, Vouched
  <1> QED
    BY <1>2, SocketStepKeeps DEF VerifierAnswers, GatewayInv, GatewayShape

\* What waits for the answer keeps the invariant.
LEMMA ContinuesKeeps ==
    ASSUME GatewayInv, NEW s \in Sockets, Continues(s)
    PROVE  GatewayInv'
  <1> DEFINE m == [sock[s] EXCEPT !.request = "none"]
             n == IF m.state = "upgrading" THEN Upgraded(m)
                  ELSE IF m.state = "open" /\ ~stopping THEN Settled(m) ELSE m
             opened == [m EXCEPT !.state = "open", !.token = TRUE]
  <1>1. sock[s] \in Metas /\ MetaVouched(sock[s]) /\ sock[s].request = "answered"
    BY DEF GatewayInv, GatewayShape, Continues
  <1>2. m \in Metas /\ MetaVouched(m) /\ m.request = "none"
    BY <1>1 DEF Metas, MetaVouched, Vouched
  <1>3. m.answer.status = "valid" => VouchedSince(m.answer.role, m.answer.org, m.startedAt, Entitled)
    BY <1>1 DEF Metas, MetaVouched, Vouched
  <1>4. opened \in Metas /\ MetaVouched(opened) /\ opened.request = "none" /\ opened.answer = m.answer
        /\ opened.startedAt = m.startedAt
    BY <1>2 DEF Metas, MetaVouched, Vouched
  <1>5. m.answer.status = "valid" =>
          /\ applyIdentity(m) \in Metas /\ MetaVouched(applyIdentity(m))
          /\ applyIdentity(opened) \in Metas /\ MetaVouched(applyIdentity(opened))
    BY <1>2, <1>3, <1>4, IdentityFits
  <1>6. clock + RevalidateTicks \in Int
    BY GatewayBounds DEF GatewayInv, GatewayShape
  <1>7. Upgraded(m) \in Metas /\ MetaVouched(Upgraded(m))
    <2>1. CASE m.answer.status = "valid" /\ clock < SessionEnds
      BY <2>1, <1>5 DEF Upgraded
    <2>2. CASE m.answer.status = "unavailable"
      BY <2>2, <1>2, <1>6 DEF Upgraded, Metas, MetaVouched, Vouched
    <2>3. CASE ~(m.answer.status = "valid" /\ clock < SessionEnds) /\ m.answer.status # "unavailable"
      BY <2>3, <1>2 DEF Upgraded, Metas, MetaVouched, Vouched
    <2> QED
      BY <2>1, <2>2, <2>3
  <1>8. Settled(m) \in Metas /\ MetaVouched(Settled(m))
    <2>1. CASE m.answer.status = "valid" /\ clock < SessionEnds
      BY <2>1, <1>5 DEF Settled
    <2>2. CASE m.answer.status = "unavailable"
      BY <2>2, <1>2, <1>6 DEF Settled, Metas, MetaVouched, Vouched
    <2>3. CASE ~(m.answer.status = "valid" /\ clock < SessionEnds) /\ m.answer.status # "unavailable"
      BY <2>3, <1>2, ForgetFits DEF Settled
    <2> QED
      BY <2>1, <2>2, <2>3
  <1>9. n \in Metas /\ MetaVouched(n)
    BY <1>2, <1>7, <1>8
  <1> QED
    BY <1>9, SocketStepKeeps DEF Continues, GatewayInv, GatewayShape

\* The revalidation timer keeps the invariant.
LEMMA RevalidateTimerKeeps ==
    ASSUME GatewayInv, NEW s \in Sockets, RevalidateTimer(s)
    PROVE  GatewayInv'
  <1> DEFINE m == [sock[s] EXCEPT !.timer = FALSE]
  <1>1. sock[s] \in Metas /\ MetaVouched(sock[s])
    BY DEF GatewayInv, GatewayShape
  <1>2. m \in Metas /\ MetaVouched(m)
    BY <1>1 DEF Metas, MetaVouched, Vouched
  <1>3. Asking(m) \in Metas /\ MetaVouched(Asking(m))
    BY <1>2, AskingFits
  <1> QED
    BY <1>3, SocketStepKeeps DEF RevalidateTimer, GatewayInv, GatewayShape

\* A socket that closes keeps the invariant.
LEMMA SocketGoesKeeps ==
    ASSUME GatewayInv, NEW s \in Sockets, ExpiryTimer(s) \/ Disconnects(s)
    PROVE  GatewayInv'
  <1>1. forget(sock[s]) \in Metas /\ MetaVouched(forget(sock[s]))
    BY ForgetFits DEF GatewayInv, GatewayShape
  <1> QED
    BY <1>1, SocketStepKeeps DEF ExpiryTimer, Disconnects, GatewayInv, GatewayShape

\* Steps of many sockets: each keeps its identity or refreshes it.
LEMMA SocketsStepKeeps ==
    ASSUME GatewayInv, UNCHANGED <<clock, viewer, entitledAt>>,
           sock' \in [Sockets -> Metas], \A s \in Sockets : MetaVouched(sock'[s]),
           alert' \in [pc : {"idle", "refreshing"}, org : Orgs, waiting : SUBSET Sockets],
           alerted' = {} \/ (alerted' = alerted /\ alert'.org = alert.org)
    PROVE  GatewayInv'
  <1>1. Entitled' = Entitled /\ clock' = clock
    BY DEF Entitled, EntitledTo, SessionCurrent
  <1>2. \A s \in Sockets : MetaVouched(sock[s])'
    BY <1>1, Zenon DEF MetaVouched
  <1>3. AlertsToTheEntitled'
    BY <1>1 DEF GatewayInv, AlertsToTheEntitled
  <1>4. GatewayShape'
    BY DEF GatewayInv, GatewayShape
  <1> QED
    BY <1>2, <1>3, <1>4 DEF GatewayInv

\* An alert reaches the sockets vouched for within the interval.
LEMMA PublishAlertKeeps ==
    ASSUME GatewayInv, NEW o \in Orgs, PublishAlert(o)
    PROVE  GatewayInv'
  <1>1. \A s \in Sockets : sock'[s] \in {sock[s], Asking(sock[s])}
    BY DEF PublishAlert
  <1>2. \A s \in Sockets : sock'[s] \in Metas /\ MetaVouched(sock'[s])
    BY <1>1, AskingFits DEF GatewayInv, GatewayShape
  <1>3. sock' \in [Sockets -> Metas]
    BY <1>2 DEF PublishAlert
  <1>4. alert' \in [pc : {"idle", "refreshing"}, org : Orgs, waiting : SUBSET Sockets]
        /\ alerted' = {} /\ UNCHANGED <<clock, viewer, entitledAt>>
    BY DEF PublishAlert
  <1> QED
    BY <1>2, <1>3, <1>4, SocketsStepKeeps

\* The shutdown of the gateway keeps the invariant.
LEMMA ShutsDownKeeps == ASSUME GatewayInv, ShutsDown PROVE GatewayInv'
  <1> DEFINE gone(m) == [forget(m) EXCEPT !.request = IF @ = "none" THEN @ ELSE "answered",
                                         !.answer = Unanswered]
  <1>1. Unanswered \in Answers /\ Unanswered.status # "valid"
    BY DEF Unanswered, Answers, Roles, GatewayInv, GatewayShape
  <1>2. ASSUME NEW m \in Metas, MetaVouched(m)
        PROVE  gone(m) \in Metas /\ MetaVouched(gone(m))
    <2>1. forget(m) \in Metas /\ MetaVouched(forget(m))
      BY <1>2, ForgetFits
    <2>2. gone(m) \in Metas
      BY <1>1, <2>1 DEF Metas
    <2>3. /\ gone(m).startedAt = forget(m).startedAt /\ gone(m).answer.status # "valid"
          /\ gone(m).identified = forget(m).identified /\ gone(m).role = forget(m).role
          /\ gone(m).org = forget(m).org /\ gone(m).validatedAt = forget(m).validatedAt
      BY <1>1, <2>1 DEF Metas
    <2> QED
      BY <2>1, <2>2, <2>3 DEF MetaVouched, Vouched
  <1>3. sock' = [s \in Sockets |-> gone(sock[s])]
    BY DEF ShutsDown
  <1>4. \A s \in Sockets : sock'[s] \in Metas /\ MetaVouched(sock'[s])
    BY <1>2, <1>3 DEF GatewayInv, GatewayShape
  <1>5. sock' \in [Sockets -> Metas]
    BY <1>3, <1>4
  <1>6. UNCHANGED <<clock, viewer, entitledAt, alert, alerted>>
    BY DEF ShutsDown
  <1> QED
    BY <1>4, <1>5, <1>6, SocketsStepKeeps DEF GatewayInv, GatewayShape

\* Fresh and in the role: entitled less than an interval ago.
LEMMA DeliverAlertKeeps == ASSUME GatewayInv, DeliverAlert PROVE GatewayInv'
  <1>1. ASSUME NEW s \in Sockets, mayReceiveRestricted(s, alert.org)
        PROVE  clock - Entitled[alert.org] < RevalidateTicks
    <2>1. sock[s] \in Metas /\ MetaVouched(sock[s]) /\ alert.org \in Orgs
      BY DEF GatewayInv, GatewayShape
    <2>2. Grants(sock[s].role, sock[s].org, alert.org) /\ sock[s].identified
      BY <1>1 DEF mayReceiveRestricted, AdminRoles, Grants
    <2>3. Entitled[alert.org] >= sock[s].validatedAt
      BY <2>1, <2>2 DEF MetaVouched, Vouched, VouchedSince
    <2>4. ~(clock - sock[s].validatedAt >= RevalidateTicks)
      BY <1>1 DEF mayReceiveRestricted, isStale
    <2>5. clock \in Int /\ sock[s].validatedAt \in Int /\ Entitled[alert.org] \in Int /\ RevalidateTicks \in Int
      BY <2>1, GatewayBounds DEF Metas, GatewayInv, GatewayShape, Entitled
    <2> QED
      BY <2>3, <2>4, <2>5
  <1>2. alerted' # {} => \E s \in Sockets : mayReceiveRestricted(s, alert.org)
    BY DEF DeliverAlert
  <1>3. UNCHANGED <<clock, viewer, sock, entitledAt>> /\ alert' = [alert EXCEPT !.pc = "idle"]
    BY DEF DeliverAlert
  <1>4. Entitled' = Entitled /\ clock' = clock /\ alert'.org = alert.org
    BY <1>3 DEF Entitled, EntitledTo, SessionCurrent, GatewayInv, GatewayShape
  <1>5. AlertsToTheEntitled'
    BY <1>1, <1>2, <1>4 DEF AlertsToTheEntitled
  <1>6. \A s \in Sockets : MetaVouched(sock[s])'
    BY <1>3, <1>4, Zenon DEF MetaVouched, GatewayInv
  <1>7. GatewayShape'
    BY <1>3 DEF GatewayInv, GatewayShape
  <1> QED
    BY <1>5, <1>6, <1>7 DEF GatewayInv

\* Time and changes of the account keep the invariant: they were vouched for before.
LEMMA WorldKeeps == ASSUME GatewayInv, ClockTicks \/ AccountChanges PROVE GatewayInv'
  <1>1. clock' \in Nat /\ clock' >= clock /\ entitledAt' = Entitled /\ alerted' = {}
        /\ UNCHANGED <<sock, alert>>
    BY DEF ClockTicks, AccountChanges, GatewayInv, GatewayShape
  <1>2. /\ entitledAt' \in [Orgs -> Int] /\ \A o \in Orgs : entitledAt'[o] <= clock'
        /\ \A o \in Orgs : Entitled'[o] >= Entitled[o]
    BY <1>1, EntitledGrows
  <1>3. viewer' \in [active : BOOLEAN, tokenVersion : {0, 1}, role : Roles, org : Orgs]
    BY DEF ClockTicks, AccountChanges, GatewayInv, GatewayShape, Roles
  <1>4. GatewayShape'
    BY <1>1, <1>2, <1>3 DEF GatewayInv, GatewayShape
  <1>5. Entitled \in [Orgs -> Int] /\ Entitled' \in [Orgs -> Int]
    BY <1>4 DEF GatewayInv, GatewayShape, Entitled
  <1>6. ASSUME NEW role, NEW org, NEW t \in Int, VouchedSince(role, org, t, Entitled)
        PROVE  VouchedSince(role, org, t, Entitled')
    BY <1>2, <1>5, <1>6 DEF VouchedSince
  <1>7. ASSUME NEW m \in Metas, Vouched(m, clock, Entitled)
        PROVE  Vouched(m, clock', Entitled')
    BY <1>1, <1>6, <1>7 DEF Vouched, Metas, GatewayInv, GatewayShape
  <1>8. \A s \in Sockets : MetaVouched(sock[s])'
    BY <1>1, <1>7 DEF MetaVouched, GatewayInv, GatewayShape
  <1> QED
    BY <1>1, <1>4, <1>8 DEF GatewayInv, AlertsToTheEntitled

\* Every step of the gateway keeps the invariant.
LEMMA GatewayKeeps == GatewayInv /\ [GatewayNext]_gatewayVars => GatewayInv'
  <1> SUFFICES ASSUME GatewayInv, [GatewayNext]_gatewayVars PROVE GatewayInv'
    OBVIOUS
  <1>1. CASE GatewayNext
    BY <1>1, ConnectsKeeps, VerifierReadsKeeps, VerifierFailsKeeps, VerifierAnswersKeeps,
       ContinuesKeeps, RevalidateTimerKeeps, SocketGoesKeeps, PublishAlertKeeps,
       DeliverAlertKeeps, ShutsDownKeeps, WorldKeeps DEF GatewayNext
  <1>2. CASE UNCHANGED gatewayVars
    BY <1>2, SocketsStepKeeps DEF gatewayVars, GatewayInv, GatewayShape
  <1> QED
    BY <1>1, <1>2

-----------------------------------------------------------------------------
(* PayoutDestination.  A destination is copied once, so a list shows the    *)
(* recorded one; after the erasure no row keeps one, and an account that is *)
(* created by a request which began before it belongs to no request.        *)

Destinations == [set : BOOLEAN, name : Nat]
PayoutRows ==
    [status : OpenPayout \cup {"none", "SUCCESS", "FAILED", "REVERSED"},
     source : {Unrecorded, "REQUEST_SNAPSHOT", "LEGACY_ACCOUNT_FALLBACK", "LEGACY_UNAVAILABLE"},
     to : Destinations, linked : BOOLEAN]
Lists ==
    [of : PayoutRequests, read : PayoutRows, afterErasure : BOOLEAN,
     source : {"none", Unrecorded, "REQUEST_SNAPSHOT", "LEGACY_ACCOUNT_FALLBACK", "LEGACY_UNAVAILABLE"},
     shows : Destinations]

PayoutShape ==
    /\ payoutAccount \in [status : {"absent", "UNVERIFIED", "DISABLED"}, to : Destinations]
    /\ payout \in [PayoutRequests -> PayoutRows]
    /\ payoutErased \in BOOLEAN
    /\ editingAccount \in [writes : {"nothing", "create", "update"},
                          status : {"kept", "UNVERIFIED", "DISABLED"}, name : Nat]
    /\ listing \in Lists \cup {NotListing}

\* An account that does not exist yet is linked to nothing.
UnlinkedBefore ==
    /\ editingAccount.writes = "create" => payoutAccount.status = "absent"
    /\ payoutAccount.status = "absent" => \A p \in PayoutRequests : ~payout[p].linked

\* Erased requests are settled and have no destination, recorded or not.
ErasedClean ==
    payoutErased =>
        /\ \A p \in PayoutRequests :
             payout[p].status \notin OpenPayout /\ payout[p].to = NoDestination
        /\ payoutAccount.to.set => \A p \in PayoutRequests : ~payout[p].linked

\* A row under way has a destination recorded or may still get one.
RecordedFirst ==
    \A p \in PayoutRequests : payout[p].status = "none" => payout[p].source = Unrecorded

\* What a list has read is what the row still says, until the erasure.
ReadIsCurrent ==
    listing # NotListing =>
        /\ listing.read.status # "none" /\ payout[listing.of].status # "none"
        /\ listing.read.source # Unrecorded =>
             /\ payout[listing.of].source = listing.read.source
             /\ payoutErased \/ payout[listing.of].to = listing.read.to
        /\ listing.read.linked => payout[listing.of].linked
        /\ listing.afterErasure => payoutErased /\ listing.read.to = NoDestination
        /\ listing.source # "none" => listing.source = listing.read.source

PayoutInv ==
    PayoutShape /\ UnlinkedBefore /\ ErasedClean /\ RecordedFirst /\ ReadIsCurrent /\ ShownAsRecorded

\* Legacy payouts start without a recorded destination.
LEMMA PayoutInitially == PayoutInit => PayoutInv
  <1> SUFFICES ASSUME PayoutInit PROVE PayoutInv
    OBVIOUS
  <1>1. payoutErased = FALSE /\ listing = NotListing /\ editingAccount = NotEditing
    BY DEF PayoutInit
  <1>2. payoutAccount \in [status : {"absent", "UNVERIFIED", "DISABLED"}, to : Destinations]
    <2>1. payoutAccount \in {[status |-> "absent", to |-> NoDestination],
                            [status |-> "UNVERIFIED", to |-> [set |-> TRUE, name |-> 0]]}
      BY Zenon DEF PayoutInit
    <2>2. NoDestination \in Destinations /\ [set |-> TRUE, name |-> 0] \in Destinations
      BY DEF Destinations, NoDestination
    <2>3. \A d \in Destinations, st \in {"absent", "UNVERIFIED"} :
            [status |-> st, to |-> d] \in [status : {"absent", "UNVERIFIED", "DISABLED"}, to : Destinations]
      OBVIOUS
    <2> QED
      BY <2>1, <2>2, <2>3, Zenon
  <1>3. /\ payout \in [PayoutRequests -> PayoutRows]
        /\ \A p \in PayoutRequests : payout[p].source = Unrecorded
        /\ payoutAccount.status = "absent" => \A p \in PayoutRequests : ~payout[p].linked
    <2>1. PICK before \in [LegacyPayouts -> OpenPayout \cup {"FAILED"}], joined \in [LegacyPayouts -> BOOLEAN] :
            /\ \A p \in LegacyPayouts : joined[p] => payoutAccount.status # "absent"
            /\ payout = [p \in PayoutRequests |->
                          [status |-> IF p \in LegacyPayouts THEN before[p] ELSE "none",
                           source |-> Unrecorded, to |-> NoDestination,
                           linked |-> p \in LegacyPayouts /\ joined[p]]]
      BY DEF PayoutInit
    <2>2. ASSUME NEW p \in PayoutRequests
          PROVE  payout[p] \in PayoutRows
      <3>1. payout[p] = [status |-> IF p \in LegacyPayouts THEN before[p] ELSE "none",
                         source |-> Unrecorded, to |-> NoDestination,
                         linked |-> p \in LegacyPayouts /\ joined[p]]
        BY <2>1, Zenon
      <3>2. (IF p \in LegacyPayouts THEN before[p] ELSE "none") \in OpenPayout \cup {"none", "FAILED"}
        BY <2>1
      <3>3. (p \in LegacyPayouts /\ joined[p]) \in BOOLEAN
        BY Zenon
      <3> QED
        BY <3>1, <3>2, <3>3 DEF PayoutRows, Destinations, NoDestination
    <2> QED
      BY <2>1, <2>2
  <1>4. payoutErased \in BOOLEAN
    BY Zenon DEF PayoutInit
  <1>5. PayoutShape
    BY <1>1, <1>2, <1>3, <1>4 DEF PayoutShape, NotEditing
  <1>6. NotListing.source = "none" /\ NotEditing.writes = "nothing"
    BY DEF NotListing, NotEditing
  <1> QED
    BY <1>1, <1>3, <1>5, <1>6 DEF PayoutInv, UnlinkedBefore, ErasedClean, RecordedFirst,
       ReadIsCurrent, ShownAsRecorded

\* What a row is changed to under the locks.
LEMMA DestinationRecorded ==
    ASSUME PayoutShape, NEW row \in PayoutRows
    PROVE  LET next == destinationForChange(row) IN
           /\ next \in PayoutRows
           /\ next.status = row.status /\ next.linked = row.linked /\ next.source # Unrecorded
           /\ row.source # Unrecorded => next = row
  BY DEF PayoutShape, PayoutRows, destinationForChange, destinationSnapshotData, AccountKnown,
     unavailableDestinationData, Destinations, NoDestination, Unrecorded

\* A step that changes one request's row, and neither account nor lists.
LEMMA PayoutRowStepKeeps ==
    ASSUME PayoutInv, NEW p \in PayoutRequests, NEW row \in PayoutRows,
           payout' = [payout EXCEPT ![p] = row],
           UNCHANGED <<payoutAccount, payoutErased, editingAccount, listing>>,
           payout[p].source # Unrecorded => row.source = payout[p].source /\ row.to = payout[p].to,
           row.status # "none", payout[p].linked => row.linked,
           row.linked => payout[p].linked \/ payoutAccount.status # "absent",
           payoutErased => row.status \notin OpenPayout /\ row.to = NoDestination
                           /\ (row.linked => payout[p].linked)
    PROVE  PayoutInv'
  <1>1. \A q \in PayoutRequests : payout'[q] = IF q = p THEN row ELSE payout[q]
    BY DEF PayoutInv, PayoutShape
  <1>2. PayoutShape'
    BY DEF PayoutInv, PayoutShape
  <1>3. UnlinkedBefore'
    BY <1>1 DEF PayoutInv, UnlinkedBefore
  <1>4. ErasedClean'
    BY <1>1 DEF PayoutInv, ErasedClean
  <1>5. RecordedFirst'
    BY <1>1 DEF PayoutInv, RecordedFirst
  <1>6. listing # NotListing => listing.of \in PayoutRequests
    BY DEF PayoutInv, PayoutShape, Lists
  <1>7. ReadIsCurrent'
    BY <1>1, <1>6 DEF PayoutInv, ReadIsCurrent
  <1>8. ShownAsRecorded'
    <2>1. NotListing.source = "none"
      BY DEF NotListing
    <2> QED
      BY <1>1, <1>6, <2>1 DEF PayoutInv, ShownAsRecorded, ReadIsCurrent
  <1> QED
    BY <1>2, <1>3, <1>4, <1>5, <1>7, <1>8 DEF PayoutInv

\* A request records its destination and keeps the invariant.
LEMMA RequestPayoutKeeps ==
    ASSUME PayoutInv, NEW p \in PayoutRequests, RequestPayout(p)
    PROVE  PayoutInv'
  <1> DEFINE asked == [payout[p] EXCEPT !.status = "REQUESTED", !.linked = TRUE]
             row == destinationSnapshotData(asked, "REQUEST_SNAPSHOT")
  <1>1. payout[p] \in PayoutRows /\ payoutAccount.to \in Destinations
    BY DEF PayoutInv, PayoutShape
  <1>2. asked \in PayoutRows
    BY <1>1 DEF PayoutRows, OpenPayout
  <1>3. row \in PayoutRows /\ row.status = "REQUESTED" /\ row.linked
    BY <1>1, <1>2 DEF PayoutRows, OpenPayout, destinationSnapshotData
  <1>4. payout[p].source = Unrecorded /\ ~payoutErased /\ payoutAccount.status # "absent"
    BY DEF PayoutInv, RecordedFirst, RequestPayout
  <1>5. payout' = [payout EXCEPT ![p] = row] /\ UNCHANGED <<payoutAccount, payoutErased, editingAccount, listing>>
    BY <1>1 DEF RequestPayout, PayoutInv, PayoutShape
  <1> QED
    BY <1>3, <1>4, <1>5, PayoutRowStepKeeps

\* Attaching the proof keeps the invariant.
LEMMA ProofAttachedKeeps ==
    ASSUME PayoutInv, NEW p \in PayoutRequests, ProofAttached(p)
    PROVE  PayoutInv'
  <1> DEFINE row == destinationForChange(payout[p])
  <1>1. payout[p] \in PayoutRows /\ PayoutShape
    BY DEF PayoutInv, PayoutShape
  <1>2. /\ row \in PayoutRows /\ row.status = payout[p].status /\ row.linked = payout[p].linked
        /\ payout[p].source # Unrecorded => row = payout[p]
    BY <1>1, DestinationRecorded
  <1>3. ~payoutErased /\ payout[p].status \in OpenPayout
    BY DEF PayoutInv, ErasedClean, ProofAttached
  <1>4. payout' = [payout EXCEPT ![p] = row] /\ UNCHANGED <<payoutAccount, payoutErased, editingAccount, listing>>
    BY <1>1 DEF ProofAttached, PayoutShape
  <1> QED
    BY <1>2, <1>3, <1>4, PayoutRowStepKeeps DEF OpenPayout

\* The row MovePayout leaves.
Moved(row, rule) ==
    [(IF rule.destination = "none" THEN row ELSE destinationForChange(row)) EXCEPT !.status = rule.to]

\* A transition keeps a recorded destination, and processing records one.
LEMMA MovedRow ==
    ASSUME PayoutShape, NEW row \in PayoutRows, NEW rule \in Rules
    PROVE  /\ Moved(row, rule) \in PayoutRows /\ Moved(row, rule).status = rule.to
           /\ Moved(row, rule).linked = row.linked
           /\ row.source # Unrecorded => Moved(row, rule).source = row.source /\ Moved(row, rule).to = row.to
           /\ rule.to = "PROCESSING" => Moved(row, rule).source # Unrecorded
  <1> DEFINE base == IF rule.destination = "none" THEN row ELSE destinationForChange(row)
  <1>1. /\ rule.to \in {"APPROVED", "PROCESSING", "SUCCESS", "FAILED", "REVERSED"}
        /\ rule.to = "PROCESSING" => rule.destination # "none"
    BY DEF Rules
  <1>2. /\ base \in PayoutRows /\ base.linked = row.linked
        /\ row.source # Unrecorded => base = row
        /\ rule.destination # "none" => base.source # Unrecorded
    BY DestinationRecorded
  <1>3. Moved(row, rule) = [base EXCEPT !.status = rule.to]
    BY DEF Moved
  <1> HIDE DEF base
  <1> QED
    BY <1>1, <1>2, <1>3 DEF PayoutRows, OpenPayout

\* A transition of a payout keeps the invariant.
LEMMA MovePayoutKeeps ==
    ASSUME PayoutInv, NEW p \in PayoutRequests, NEW rule \in Rules, MovePayout(p, rule)
    PROVE  PayoutInv'
  <1>1. payout[p] \in PayoutRows /\ PayoutShape
    BY DEF PayoutInv, PayoutShape
  <1>2. payout' = [payout EXCEPT ![p] = Moved(payout[p], rule)]
        /\ UNCHANGED <<payoutAccount, payoutErased, editingAccount, listing>>
    BY DEF MovePayout, Moved
  <1>3. payout[p].status \in rule.from /\ rule.from \subseteq OpenPayout /\ rule.to # "none"
    BY DEF MovePayout, Rules, OpenPayout
  <1>4. ~payoutErased
    BY <1>3 DEF PayoutInv, ErasedClean
  <1>5. /\ Moved(payout[p], rule) \in PayoutRows /\ Moved(payout[p], rule).status = rule.to
        /\ Moved(payout[p], rule).linked = payout[p].linked
        /\ payout[p].source # Unrecorded =>
             Moved(payout[p], rule).source = payout[p].source /\ Moved(payout[p], rule).to = payout[p].to
    BY <1>1, MovedRow
  <1> QED
    BY <1>2, <1>3, <1>4, <1>5, PayoutRowStepKeeps

\* Loading the account to be edited keeps the invariant.
LEMMA AccountLoadedKeeps ==
    ASSUME PayoutInv, NEW status \in {"kept", "UNVERIFIED", "DISABLED"}, NEW name \in 0..MaxNames,
           AccountLoaded(status, name)
    PROVE  PayoutInv'
  <1>1. UNCHANGED <<payoutAccount, payout, payoutErased, listing>>
    BY DEF AccountLoaded
  <1>2. editingAccount' \in [writes : {"nothing", "create", "update"},
                            status : {"kept", "UNVERIFIED", "DISABLED"}, name : Nat]
        /\ (editingAccount'.writes = "create" => payoutAccount.status = "absent")
    BY PayoutAssumption DEF AccountLoaded
  <1> QED
    BY <1>1, <1>2 DEF PayoutInv, PayoutShape, UnlinkedBefore, ErasedClean, RecordedFirst,
       ReadIsCurrent, ShownAsRecorded

\* A write to the account changes neither what is recorded nor what is shown.
LEMMA AccountStepKeeps ==
    ASSUME PayoutInv, AccountCreated \/ AccountUpdated
    PROVE  PayoutInv'
  <1>1. UNCHANGED <<payout, payoutErased, listing>> /\ editingAccount' = NotEditing
    BY DEF AccountCreated, AccountUpdated
  <1>2. payoutAccount' \in [status : {"absent", "UNVERIFIED", "DISABLED"}, to : Destinations]
    <2>1. editingAccount.name \in Nat /\ editingAccount.status \in {"kept", "UNVERIFIED", "DISABLED"}
      BY DEF PayoutInv, PayoutShape
    <2>2. [set |-> TRUE, name |-> editingAccount.name] \in Destinations
      BY <2>1 DEF Destinations
    <2>3. payoutAccount.to \in Destinations
      BY DEF PayoutInv, PayoutShape
    <2>4. [payoutAccount.to EXCEPT !.name = editingAccount.name] \in Destinations
      BY <2>1, <2>3 DEF Destinations
    <2>5. payoutAccount.status \in {"absent", "UNVERIFIED", "DISABLED"}
      BY DEF PayoutInv, PayoutShape
    <2>6. \E st \in {"absent", "UNVERIFIED", "DISABLED"}, d \in Destinations :
            payoutAccount' = [status |-> st, to |-> d]
      BY <2>1, <2>2, <2>3, <2>4, <2>5 DEF AccountCreated, AccountUpdated
    <2> QED
      BY <2>6
  <1>3. PayoutShape'
    BY <1>1, <1>2 DEF PayoutInv, PayoutShape, NotEditing
  <1>4. UnlinkedBefore'
    BY <1>1 DEF AccountCreated, AccountUpdated, PayoutInv, PayoutShape, UnlinkedBefore, NotEditing
  <1>5. ErasedClean'
    <2>1. CASE AccountCreated
      BY <1>1, <2>1 DEF AccountCreated, PayoutInv, ErasedClean, UnlinkedBefore
    <2>2. CASE AccountUpdated
      <3>1. payoutAccount'.to.set = payoutAccount.to.set
        BY <2>2 DEF AccountUpdated, PayoutInv, PayoutShape, Destinations
      <3> QED
        BY <1>1, <3>1 DEF PayoutInv, ErasedClean
    <2> QED
      BY <2>1, <2>2
  <1> QED
    BY <1>1, <1>3, <1>4, <1>5 DEF PayoutInv, RecordedFirst, ReadIsCurrent, ShownAsRecorded

\* The erasure of the person keeps the invariant.
LEMMA ErasePayoutsKeeps == ASSUME PayoutInv, ErasePayouts PROVE PayoutInv'
  <1>1. NoDestination \in Destinations /\ ~NoDestination.set
    BY DEF NoDestination, Destinations
  <1>2. \A p \in PayoutRequests :
          /\ payout'[p] \in PayoutRows /\ payout'[p].status = payout[p].status
          /\ payout'[p].source = payout[p].source /\ payout'[p].linked = payout[p].linked
          /\ payout'[p].to = NoDestination
    BY <1>1 DEF ErasePayouts, PayoutInv, PayoutShape, PayoutRows
  <1>3. payoutErased' = TRUE /\ UNCHANGED <<editingAccount, listing>>
        /\ \A p \in PayoutRequests : payout[p].status \notin OpenPayout
    BY DEF ErasePayouts
  <1>4. payoutAccount' \in [status : {"absent", "UNVERIFIED", "DISABLED"}, to : Destinations]
        /\ (payoutAccount'.status = "absent" <=> payoutAccount.status = "absent")
        /\ (payoutAccount'.to.set => payoutAccount.status = "absent")
    BY <1>1 DEF ErasePayouts, PayoutInv, PayoutShape
  <1>5. payout' \in [PayoutRequests -> PayoutRows]
    BY <1>2 DEF ErasePayouts
  <1>6. PayoutShape'
    BY <1>3, <1>4, <1>5, Zenon DEF PayoutInv, PayoutShape
  <1>7. UnlinkedBefore' /\ RecordedFirst'
    BY <1>2, <1>3, <1>4 DEF PayoutInv, UnlinkedBefore, RecordedFirst
  <1>8. ErasedClean'
    BY <1>2, <1>3, <1>4 DEF PayoutInv, ErasedClean, UnlinkedBefore
  <1>9. listing # NotListing => listing.of \in PayoutRequests
    BY DEF PayoutInv, PayoutShape, Lists
  <1>10. ReadIsCurrent'
    BY <1>2, <1>3, <1>9 DEF PayoutInv, ReadIsCurrent
  <1>11. ShownAsRecorded'
    BY <1>3 DEF PayoutInv, ShownAsRecorded
  <1> QED
    BY <1>6, <1>7, <1>8, <1>10, <1>11 DEF PayoutInv

\* Reading the list of payouts keeps the invariant.
LEMMA ListStepKeeps ==
    ASSUME PayoutInv, ListShows \/ ListEnds \/ \E p \in PayoutRequests : ListReads(p)
    PROVE  PayoutInv'
  <1>1. UNCHANGED <<payoutAccount, payout, payoutErased, editingAccount>>
    BY DEF ListShows, ListEnds, ListReads
  <1>2. UnlinkedBefore' /\ RecordedFirst' /\ ErasedClean'
    BY <1>1 DEF PayoutInv, UnlinkedBefore, RecordedFirst, ErasedClean
  <1>3. NotListing.source = "none"
    BY DEF NotListing
  <1>4. CASE ListEnds
    BY <1>1, <1>2, <1>3, <1>4 DEF ListEnds, PayoutInv, PayoutShape, ReadIsCurrent, ShownAsRecorded
  <1>5. ASSUME NEW p \in PayoutRequests, ListReads(p)
        PROVE  PayoutInv'
    <2>1. listing' = [of |-> p, read |-> payout[p], afterErasure |-> payoutErased,
                      source |-> "none", shows |-> NoDestination]
      BY <1>5 DEF ListReads, NotListing
    <2>2. payout[p] \in PayoutRows /\ payout[p].status # "none" /\ NoDestination \in Destinations
      BY <1>5 DEF ListReads, PayoutInv, PayoutShape, NoDestination, Destinations
    <2>3. PayoutShape'
      BY <1>1, <2>1, <2>2 DEF PayoutInv, PayoutShape, Lists
    <2>4. ReadIsCurrent'
      BY <1>1, <2>1, <2>2 DEF PayoutInv, ErasedClean, ReadIsCurrent
    <2>5. ShownAsRecorded'
      BY <2>1 DEF ShownAsRecorded
    <2> QED
      BY <1>2, <2>3, <2>4, <2>5 DEF PayoutInv
  <1>6. CASE ListShows
    <2>1. listing \in Lists /\ listing # NotListing
      BY <1>6 DEF ListShows, PayoutInv, PayoutShape
    <2>2. listing.read \in PayoutRows /\ listing.of \in PayoutRequests
      BY <2>1 DEF Lists
    <2>3. describePayoutDestination(listing.read) \in Destinations
      BY <2>2 DEF describePayoutDestination, PayoutRows, PayoutInv, PayoutShape, NoDestination, Destinations
    <2>4. /\ listing'.of = listing.of /\ listing'.read = listing.read
          /\ listing'.afterErasure = listing.afterErasure /\ listing'.source = listing.read.source
          /\ listing'.shows = describePayoutDestination(listing.read) /\ listing' \in Lists
      BY <1>6, <2>1, <2>2, <2>3 DEF ListShows, Lists, PayoutRows
    <2>5. PayoutShape'
      BY <1>1, <2>4 DEF PayoutInv, PayoutShape
    <2>6. ReadIsCurrent'
      BY <1>1, <2>1, <2>4 DEF PayoutInv, ReadIsCurrent
    <2>7. listing.read.source # Unrecorded =>
            payoutErased \/ listing'.shows = payout[listing.of].to
      BY <2>1, <2>4 DEF describePayoutDestination, PayoutInv, ReadIsCurrent
    <2>8. listing.afterErasure => listing'.shows = NoDestination
      BY <2>1, <2>2, <2>4 DEF describePayoutDestination, PayoutInv, ReadIsCurrent, ErasedClean
    <2>9. ShownAsRecorded'
      BY <1>1, <2>4, <2>7, <2>8 DEF ShownAsRecorded
    <2> QED
      BY <1>2, <2>5, <2>6, <2>9 DEF PayoutInv
  <1> QED
    BY <1>4, <1>5, <1>6

\* Every step of the destination module keeps the invariant.
LEMMA PayoutKeeps == PayoutInv /\ [PayoutNext]_payoutVars => PayoutInv'
  <1> SUFFICES ASSUME PayoutInv, [PayoutNext]_payoutVars PROVE PayoutInv'
    OBVIOUS
  <1>1. CASE PayoutNext
    BY <1>1, AccountLoadedKeeps, AccountStepKeeps, RequestPayoutKeeps, ProofAttachedKeeps,
       MovePayoutKeeps, ErasePayoutsKeeps, ListStepKeeps DEF PayoutNext
  <1>2. CASE UNCHANGED payoutVars
    BY <1>2 DEF payoutVars, PayoutInv, PayoutShape, UnlinkedBefore, ErasedClean, RecordedFirst,
       ReadIsCurrent, ShownAsRecorded
  <1> QED
    BY <1>1, <1>2

\* What one step does to the destinations that are recorded.
PayoutStands ==
    \A p \in PayoutRequests :
      /\ payout[p].source # Unrecorded =>
           /\ payout'[p].source = payout[p].source
           /\ payout'[p].to = payout[p].to \/ (payoutErased' /\ payout[p].status \notin OpenPayout)
      /\ payout'[p].status = "PROCESSING" /\ payout[p].status # "PROCESSING" =>
           payout'[p].source # Unrecorded

\* Every step leaves a recorded destination standing.
LEMMA PayoutStepStands == PayoutInv /\ PayoutNext => PayoutStands
  <1> SUFFICES ASSUME PayoutInv, PayoutNext PROVE PayoutStands
    OBVIOUS
  <1>1. CASE payout' = payout
    BY <1>1 DEF PayoutStands
  <1>2. ASSUME NEW p \in PayoutRequests, RequestPayout(p)
        PROVE  PayoutStands
    <2>1. \A q \in PayoutRequests \ {p} : payout'[q] = payout[q]
      BY <1>2 DEF RequestPayout, PayoutInv, PayoutShape
    <2>2. payout[p].source = Unrecorded /\ payout'[p].status = "REQUESTED"
      BY <1>2 DEF RequestPayout, PayoutInv, PayoutShape, RecordedFirst, PayoutRows, destinationSnapshotData
    <2> QED
      BY <2>1, <2>2 DEF PayoutStands
  <1>3. ASSUME NEW p \in PayoutRequests, ProofAttached(p)
        PROVE  PayoutStands
    <2>1. /\ payout[p] \in PayoutRows /\ PayoutShape
          /\ \A q \in PayoutRequests : payout'[q] = IF q = p THEN destinationForChange(payout[p]) ELSE payout[q]
      BY <1>3 DEF ProofAttached, PayoutInv, PayoutShape
    <2> QED
      BY <2>1, DestinationRecorded DEF PayoutStands
  <1>4. ASSUME NEW p \in PayoutRequests, NEW rule \in Rules, MovePayout(p, rule)
        PROVE  PayoutStands
    <2>1. /\ payout[p] \in PayoutRows /\ PayoutShape
          /\ \A q \in PayoutRequests : payout'[q] = IF q = p THEN Moved(payout[p], rule) ELSE payout[q]
      BY <1>4 DEF MovePayout, Moved, PayoutInv, PayoutShape
    <2> QED
      BY <2>1, MovedRow DEF PayoutStands
  <1>5. CASE ErasePayouts
    BY <1>5 DEF ErasePayouts, PayoutInv, PayoutShape, PayoutRows, PayoutStands
  <1> QED
    BY <1>1, <1>2, <1>3, <1>4, <1>5 DEF PayoutNext, AccountLoaded, AccountCreated, AccountUpdated,
       ListReads, ListShows, ListEnds

\* For any requests and names: a recorded destination stands, and no list
\* shows another one.
THEOREM DestinationAlwaysStands == PayoutSpec => DestinationStands
  <1>1. PayoutInv /\ [PayoutNext]_payoutVars =>
          [PayoutStands /\ ShownAsRecorded']_payoutVars
    BY PayoutKeeps, PayoutStepStands DEF PayoutInv
  <1>2. PayoutSpec => []PayoutInv
    BY PayoutInitially, PayoutKeeps, PTL DEF PayoutSpec
  <1>3. PayoutSpec => [][PayoutStands /\ ShownAsRecorded']_payoutVars
    BY <1>1, <1>2, PTL DEF PayoutSpec
  <1> QED
    BY <1>3, PTL DEF PayoutStands, DestinationStands

-----------------------------------------------------------------------------
(* TripValidation.  What a trip holds is a function of its bag rows while   *)
(* it is open and nothing once it is closed; the amount earned at the close *)
(* is bounded by the bags issued by then, and no bag is issued later.       *)

BagStates == {"absent", "issued"} \cup CONDITION_STATUSES

TripShape ==
    /\ trip \in [status : TripStatus, reward : BOOLEAN, agent : BOOLEAN]
    /\ bags \in [Bags -> BagStates]
    /\ held \in Nat /\ checkOuts \in Nat
    /\ \A change \in patching :
         change[1] \in {"PLANNED", "ACTIVE", "CANCELLED"} /\ change[2] \in {"PLANNED", "CANCELLED"}
         /\ canManuallySetTripStatus(change[1], change[2])

\* Nothing was earned yet, or one amount, by a closed trip.
EarnedOnce ==
    \/ earned = {}
    \/ /\ trip.status = "COMPLETED"
       /\ \E amount \in Nat : earned = {<<amount, 1>>} /\ amount <= Cardinality(Issued(bags)) * PER_BAG

HeldForBags ==
    /\ trip.status = "none" => Issued(bags) = {} /\ held = 0
    /\ ~trip.reward => held = 0
    /\ trip.reward /\ Issuable => held = Cardinality(Issued(bags)) * PER_BAG
    /\ trip.status \in {"COMPLETED", "CANCELLED"} => held = 0

TripInv ==
    /\ TripShape /\ EarnedOnce /\ HeldForBags
    /\ checkOuts = IF trip.status = "COMPLETED" THEN 1 ELSE 0
    /\ trip.reward /\ trip.status = "COMPLETED" => Reviewed(bags) = Issued(bags)

\* The counts of bags are numbers, and no more bags are rewarded than issued.
LEMMA BagsCounted ==
    ASSUME NEW rows
    PROVE  /\ IsFiniteSet(Issued(rows)) /\ Cardinality(Issued(rows)) \in Nat
           /\ Cardinality(Issued(rows)) * PER_BAG \in Nat
           /\ IsFiniteSet(Rewardable(rows)) /\ Cardinality(Rewardable(rows)) \in Nat
           /\ Cardinality(Rewardable(rows)) <= Cardinality(Issued(rows))
  <1>1. Issued(rows) \subseteq Bags /\ Rewardable(rows) \subseteq Issued(rows)
    BY DEF Issued, Rewardable
  <1>2. IsFiniteSet(Issued(rows)) /\ IsFiniteSet(Rewardable(rows))
        /\ Cardinality(Rewardable(rows)) <= Cardinality(Issued(rows))
    BY <1>1, TripAssumption, FS_Subset
  <1>3. Cardinality(Issued(rows)) \in Nat /\ Cardinality(Rewardable(rows)) \in Nat
    BY <1>2, FS_CardinalityType
  <1> QED
    BY <1>2, <1>3 DEF PER_BAG

\* The reward of a trip is at most what was reserved for its bags.
LEMMA RewardWithinReserve ==
    ASSUME NEW rows, NEW app \in BOOLEAN
    PROVE  /\ evaluateTripBags(rows, app) \in Nat
           /\ evaluateTripBags(rows, app) <= Cardinality(Issued(rows)) * PER_BAG
  <1> DEFINE n == Cardinality(Rewardable(rows))
             c == calculateCompliance(rows, app)
  <1>1. n \in Nat /\ Cardinality(Issued(rows)) \in Nat /\ n <= Cardinality(Issued(rows))
    BY BagsCounted
  <1>2. c \in {0, 20, 30, 40, 50, 60, 70, 80, 90, 100}
    <2> DEFINE returned == Cardinality(Returned(rows))
               assigned == Cardinality(Issued(rows))
               condition == aggregateBagCondition(rows)
               fromApp == IF app THEN 30 ELSE 0
               fromBags == IF returned = 0 THEN 0 ELSE IF returned >= assigned THEN 40 ELSE 20
               fromCondition == CASE condition = "GOOD" -> 30 [] condition = "PARTIAL" -> 20 [] OTHER -> 0
    <2>1. c = fromApp + fromBags + fromCondition
      BY DEF calculateCompliance
    <2>2. fromApp \in {0, 30} /\ fromBags \in {0, 20, 40} /\ fromCondition \in {0, 20, 30}
      OBVIOUS
    <2> HIDE DEF c, fromApp, fromBags, fromCondition
    <2> QED
      BY <2>1, <2>2
  <1>3. evaluateTripBags(rows, app) = IF trip.reward THEN (n * PER_BAG * c) \div 100 ELSE 0
    BY DEF evaluateTripBags
  <1> HIDE DEF n, c
  <1>4. (n * PER_BAG * c) \div 100 \in Nat /\ (n * PER_BAG * c) \div 100 <= n * PER_BAG
    BY <1>1, <1>2 DEF PER_BAG
  <1> QED
    BY <1>1, <1>3, <1>4 DEF PER_BAG

\* No trip, no bag and no reservation at first.
LEMMA TripInitially == TripInit => TripInv
  <1> SUFFICES ASSUME TripInit PROVE TripInv
    OBVIOUS
  <1>1. Issued(bags) = {}
    BY DEF TripInit, Issued
  <1>2. TripShape
    BY DEF TripInit, TripShape, TripStatus, BagStates
  <1> QED
    BY <1>1, <1>2 DEF TripInit, TripInv, EarnedOnce, HeldForBags, Issuable

\* Steps that leave the money, the bags and the trip's status alone.
LEMMA TripIdleStepKeeps ==
    ASSUME TripInv, UNCHANGED <<trip, bags, held, earned, checkOuts>>,
           \A change \in patching' : change \in patching \/
             ( /\ change[1] \in {"PLANNED", "ACTIVE", "CANCELLED"} /\ change[2] \in {"PLANNED", "CANCELLED"}
               /\ canManuallySetTripStatus(change[1], change[2]) )
    PROVE  TripInv'
  BY DEF TripInv, TripShape, EarnedOnce, HeldForBags, Issuable

\* Creating the trip keeps the invariant.
LEMMA CreateTripKeeps ==
    ASSUME TripInv, NEW reward \in BOOLEAN, NEW agent \in BOOLEAN, CreateTrip(reward, agent)
    PROVE  TripInv'
  <1>1. Issued(bags) = {} /\ held = 0 /\ earned = {} /\ Cardinality({}) = 0
    BY FS_EmptySet DEF CreateTrip, TripInv, HeldForBags, EarnedOnce
  <1> QED
    BY <1>1 DEF CreateTrip, TripInv, TripShape, TripStatus, EarnedOnce, HeldForBags, Issuable, PER_BAG

\* Issuing bags holds their reward with them.
LEMMA issueTrashBagsKeeps ==
    ASSUME TripInv, NEW new \in SUBSET Bags, issueTrashBags(new)
    PROVE  TripInv'
  <1>1. CASE ~Issuable
    BY <1>1, TripIdleStepKeeps DEF issueTrashBags
  <1>2. CASE Issuable
    <2>1. Issued(bags') = Issued(bags) \cup new
      BY <1>2 DEF issueTrashBags, Issued
    <2>2. bags' \in [Bags -> BagStates]
      BY <1>2 DEF issueTrashBags, TripInv, TripShape, BagStates
    <2>3. held' = IF trip.reward THEN Cardinality(Issued(bags')) * PER_BAG ELSE 0
      BY <1>2, <2>1 DEF issueTrashBags, reserveTripIssuance
    <2>4. Cardinality(Issued(bags')) * PER_BAG \in Nat
      BY BagsCounted
    <2>5. trip.status \in {"PLANNED", "ACTIVE"} /\ UNCHANGED <<trip, earned, checkOuts, patching>>
      BY <1>2 DEF Issuable, issueTrashBags
    <2>6. held' \in Nat
      BY <2>3, <2>4
    <2>7. TripShape'
      BY <2>2, <2>5, <2>6 DEF TripInv, TripShape
    <2>8. EarnedOnce'
      BY <2>5 DEF TripInv, EarnedOnce
    <2>9. HeldForBags'
      BY <2>3, <2>5 DEF HeldForBags, Issuable
    <2> QED
      BY <2>5, <2>7, <2>8, <2>9 DEF TripInv
  <1> QED
    BY <1>1, <1>2

\* A change of status settles or releases the reservation with it.
LEMMA changeTripStatusKeeps ==
    ASSUME TripInv, NEW change \in patching, changeTripStatus(change)
    PROVE  TripInv'
  <1>1. CASE trip.status # change[1]
    BY <1>1, TripIdleStepKeeps DEF changeTripStatus
  <1>2. CASE trip.status = change[1]
    <2> DEFINE next == change[2]
               reopens == change[1] = "CANCELLED" /\ next = "PLANNED"
    <2>1. /\ change[1] \in {"PLANNED", "ACTIVE", "CANCELLED"} /\ next \in {"PLANNED", "CANCELLED"}
          /\ canManuallySetTripStatus(change[1], next)
      BY DEF TripInv, TripShape
    <2>2. /\ trip' = [trip EXCEPT !.status = next] /\ patching' = patching \ {change}
          /\ UNCHANGED <<bags, earned, checkOuts>>
          /\ held' = IF next = "CANCELLED" THEN 0
                      ELSE IF reopens THEN reserveTripIssuance(Cardinality(Issued(bags))) ELSE held
      BY <1>2, <2>1 DEF changeTripStatus
    <2>3. trip'.status = next /\ trip'.reward = trip.reward /\ trip'.agent = trip.agent
          /\ trip' \in [status : TripStatus, reward : BOOLEAN, agent : BOOLEAN]
      BY <2>1, <2>2 DEF TripInv, TripShape, TripStatus
    <2>4. Cardinality(Issued(bags)) * PER_BAG \in Nat
      BY BagsCounted
    <2>5. held' \in Nat
      BY <2>2, <2>4 DEF reserveTripIssuance, TripInv, TripShape
    <2>6. TripShape'
      BY <2>2, <2>3, <2>5 DEF TripInv, TripShape
    <2>7. earned = {} /\ checkOuts = 0
      BY <1>2, <2>1 DEF TripInv, EarnedOnce
    <2>8. next = "PLANNED" => change[1] \in {"PLANNED", "CANCELLED"}
      BY <2>1 DEF canManuallySetTripStatus
    <2>9. HeldForBags'
      BY <1>2, <2>1, <2>2, <2>3, <2>8 DEF TripInv, HeldForBags, Issuable, reserveTripIssuance
    <2> QED
      BY <2>1, <2>2, <2>3, <2>6, <2>7, <2>9 DEF TripInv, EarnedOnce
  <1> QED
    BY <1>1, <1>2

\* A check-in keeps the invariant.
LEMMA CheckInKeeps == ASSUME TripInv, CheckIn PROVE TripInv'
  <1>1. trip'.status = "ACTIVE" /\ trip'.reward = trip.reward /\ trip.status = "PLANNED"
        /\ trip' \in [status : TripStatus, reward : BOOLEAN, agent : BOOLEAN]
        /\ UNCHANGED <<bags, held, earned, checkOuts, patching>>
    BY DEF CheckIn, TripInv, TripShape, TripStatus
  <1> QED
    BY <1>1 DEF TripInv, TripShape, EarnedOnce, HeldForBags, Issuable

\* The close of a trip whose rows become rows: all reviewed if it is rewarded.
LEMMA ClosedKeeps ==
    ASSUME TripInv, NEW rows \in [Bags -> BagStates], NEW app \in BOOLEAN,
           bags' = rows, Closed(rows, app), trip.status = "ACTIVE", Reviewed(rows) = Issued(rows),
           UNCHANGED patching
    PROVE  TripInv'
  <1>1. trip'.status = "COMPLETED" /\ trip'.reward = trip.reward
        /\ trip' \in [status : TripStatus, reward : BOOLEAN, agent : BOOLEAN]
    BY DEF Closed, TripInv, TripShape, TripStatus
  <1>2. earned = {} /\ checkOuts = 0 /\ held' = 0 /\ checkOuts' = 1
    BY DEF Closed, TripInv, TripShape, EarnedOnce
  <1>3. evaluateTripBags(rows, app) \in Nat
        /\ evaluateTripBags(rows, app) <= Cardinality(Issued(rows)) * PER_BAG
    BY RewardWithinReserve
  <1>4. earned' = {} \/ earned' = {<<evaluateTripBags(rows, app), 1>>}
    BY <1>2 DEF Closed
  <1>5. EarnedOnce'
    BY <1>1, <1>3, <1>4 DEF EarnedOnce
  <1>6. TripShape'
    BY <1>1, <1>2 DEF TripInv, TripShape
  <1>7. HeldForBags'
    BY <1>1, <1>2 DEF HeldForBags, Issuable
  <1> QED
    BY <1>1, <1>2, <1>5, <1>6, <1>7 DEF TripInv

\* A check-out of all bags keeps the invariant.
LEMMA BulkCheckOutKeeps ==
    ASSUME TripInv, NEW listed \in Listings, NEW app \in BOOLEAN, BulkCheckOut(listed, app)
    PROVE  TripInv'
  <1> DEFINE rows == [b \in Bags |-> IF b \in DOMAIN listed THEN listed[b]
                                     ELSE IF bags[b] = "issued" THEN "NOT_RETURNED" ELSE bags[b]]
  <1>1. \A b \in DOMAIN listed : listed[b] \in CONDITION_STATUSES
    BY TripAssumption DEF Listings
  <1>2. rows \in [Bags -> BagStates] /\ \A b \in Bags : rows[b] # "issued"
    BY <1>1 DEF TripInv, TripShape, BagStates, CONDITION_STATUSES
  <1>3. Reviewed(rows) = Issued(rows)
    BY <1>2 DEF Reviewed, Issued, BagStates, CONDITION_STATUSES
  <1>4. bags' = rows /\ Closed(rows, app) /\ trip.status = "ACTIVE" /\ UNCHANGED patching
    BY DEF BulkCheckOut
  <1> QED
    BY <1>2, <1>3, <1>4, ClosedKeeps

\* A check-out by number keeps the invariant.
LEMMA CountCheckOutKeeps == ASSUME TripInv, CountCheckOut PROVE TripInv'
  <1>1. trip'.status = "COMPLETED" /\ trip'.reward = trip.reward /\ trip.status = "ACTIVE"
        /\ trip' \in [status : TripStatus, reward : BOOLEAN, agent : BOOLEAN]
        /\ UNCHANGED <<bags, held, earned, patching>> /\ checkOuts' = checkOuts + 1
    BY DEF CountCheckOut, TripInv, TripShape, TripStatus
  <1>2. trip.reward => Issued(bags) = {} /\ Reviewed(bags) = {}
    BY DEF CountCheckOut, Issued, Reviewed, CONDITION_STATUSES
  <1>3. held = 0
    BY <1>1, <1>2, FS_EmptySet DEF TripInv, HeldForBags, Issuable, PER_BAG
  <1>4. earned = {} /\ checkOuts = 0
    BY <1>1 DEF TripInv, EarnedOnce
  <1> QED
    BY <1>1, <1>2, <1>3, <1>4 DEF TripInv, TripShape, EarnedOnce, HeldForBags, Issuable

\* A scanned bag keeps the invariant.
LEMMA ScanKeeps ==
    ASSUME TripInv, NEW b \in Bags, NEW status \in Conditions, NEW app \in BOOLEAN, Scan(b, status, app)
    PROVE  TripInv'
  <1> DEFINE rows == [bags EXCEPT ![b] = status]
  <1>1. rows \in [Bags -> BagStates] /\ Issued(rows) = Issued(bags)
    BY TripAssumption DEF Scan, TripInv, TripShape, BagStates, Issued, CONDITION_STATUSES
  <1>2. bags' = rows /\ trip.status = "ACTIVE" /\ UNCHANGED patching
    BY DEF Scan
  <1>3. CASE Closes(b, rows)
    BY <1>1, <1>2, <1>3, ClosedKeeps DEF Scan, Closes
  <1>4. CASE ~Closes(b, rows)
    <2>1. UNCHANGED <<trip, earned, held, checkOuts>>
      BY <1>4 DEF Scan
    <2> QED
      BY <1>1, <1>2, <2>1 DEF TripInv, TripShape, EarnedOnce, HeldForBags, Issuable
  <1> QED
    BY <1>3, <1>4

\* A corrected bag keeps the invariant.
LEMMA CorrectKeeps ==
    ASSUME TripInv, NEW b \in Bags, NEW status \in Conditions, Correct(b, status)
    PROVE  TripInv'
  <1>1. bags' \in [Bags -> BagStates] /\ Issued(bags') = Issued(bags)
    BY TripAssumption DEF Correct, TripInv, TripShape, BagStates, Issued, CONDITION_STATUSES
  <1>2. Reviewed(bags) = Issued(bags) => Reviewed(bags') = Issued(bags')
    BY TripAssumption DEF Correct, TripInv, TripShape, Reviewed, Issued, BagStates, CONDITION_STATUSES
  <1>3. UNCHANGED <<trip, held, earned, checkOuts, patching>>
    BY DEF Correct
  <1> QED
    BY <1>1, <1>2, <1>3 DEF TripInv, TripShape, EarnedOnce, HeldForBags, Issuable

\* Every step of the trip keeps the invariant.
LEMMA TripKeeps == TripInv /\ [TripNext]_tripVars => TripInv'
  <1> SUFFICES ASSUME TripInv, [TripNext]_tripVars PROVE TripInv'
    OBVIOUS
  <1>1. CASE AgentChanges \/ IssueChecks \/ RecordPickup
    BY <1>1, TripIdleStepKeeps DEF AgentChanges, IssueChecks, RecordPickup
  <1>2. ASSUME NEW next \in {"PLANNED", "CANCELLED"}, PatchReads(next)
        PROVE  TripInv'
    <2>1. <<trip.status, next>>[1] \in {"PLANNED", "ACTIVE", "CANCELLED"}
          /\ <<trip.status, next>>[2] = next
          /\ canManuallySetTripStatus(trip.status, next)
      BY <1>2 DEF PatchReads, canManuallySetTripStatus
    <2> QED
      BY <1>2, <2>1, TripIdleStepKeeps DEF PatchReads
  <1>3. CASE UNCHANGED tripVars
    BY <1>3, TripIdleStepKeeps DEF tripVars
  <1>4. CASE TripNext
    BY <1>1, <1>2, <1>4, CreateTripKeeps, issueTrashBagsKeeps, changeTripStatusKeeps, CheckInKeeps,
       CountCheckOutKeeps, BulkCheckOutKeeps, ScanKeeps, CorrectKeeps DEF TripNext
  <1> QED
    BY <1>3, <1>4

\* For any bags and conditions: a trip is settled once, within its reserve.
THEOREM TripAlwaysSettledOnce == TripSpec => []TripSettledOnce
  <1>1. TripInv => TripSettledOnce
    <2> SUFFICES ASSUME TripInv PROVE TripSettledOnce
      OBVIOUS
    <2>1. Cardinality(earned) <= checkOuts
          /\ \A row \in earned : row[1] <= Cardinality(Issued(bags)) * PER_BAG
      <3>1. CASE earned = {}
        <4>1. Cardinality(earned) = 0 /\ checkOuts \in Nat
          BY <3>1, FS_EmptySet DEF TripInv, TripShape
        <4> QED
          BY <3>1, <4>1
      <3>2. ASSUME NEW amount \in Nat, earned = {<<amount, 1>>}, trip.status = "COMPLETED",
                   amount <= Cardinality(Issued(bags)) * PER_BAG
            PROVE  Cardinality(earned) <= checkOuts
                   /\ \A row \in earned : row[1] <= Cardinality(Issued(bags)) * PER_BAG
        <4>1. Cardinality(earned) = 1 /\ checkOuts = 1
          BY <3>2, FS_Singleton DEF TripInv
        <4> QED
          BY <3>2, <4>1
      <3> QED
        BY <3>1, <3>2 DEF TripInv, EarnedOnce
    <2> QED
      BY <2>1 DEF TripInv, HeldForBags, TripSettledOnce
  <1> QED
    BY <1>1, TripInitially, TripKeeps, PTL DEF TripSpec

-----------------------------------------------------------------------------
(* PickupDispatch.  Every write that changes a decision takes the next       *)
(* version; an alert leaves its mark on the row and a new version takes the  *)
(* mark's alert with it; and the task a transaction is about to replace is   *)
(* closed for good and, by the Machine row it holds, nobody else's.          *)

TaskRows ==
    [status : PICKUP_OPEN \cup PICKUP_TERMINAL, version : Nat,
     collector : Collectors \cup {NoOne}, due : {"unset", "ahead", "passed"},
     escalated : BOOLEAN, replaces : 0..MaxPickups, onMachine : BOOLEAN, items : 0..1]

PickupShape ==
    /\ pickups \in [Ids -> TaskRows] /\ made \in 0..MaxPickups
    /\ escalations \in [Ids -> 0..1]
    /\ machineLock \in [by : Dispatchers \cup {NoOne, "event"}, closed : 0..MaxPickups]
    /\ candidate \in [Runners -> [pickup : 0..MaxPickups, version : Nat]]
    /\ \A r \in Runners : candidate[r] # NoCandidate => candidate[r].pickup \in 1..made

\* Whoever was alerted about a version left the mark on it.
AlertsMarked ==
    /\ \A p \in Ids : escalations[p] = 1 => pickups[p].escalated
    /\ \A p \in Ids : p > made => escalations[p] = 0

\* A closed task that may be replaced now.
Replaceable(p) ==
    p \in 1..made /\ pickups[p].status \in PICKUP_REPLACEABLE /\ ~Replaced(p)

LinksAreSound ==
    /\ \A p \in 1..made : pickups[p].replaces <= made
    /\ ReplacedOnce
    /\ machineLock.closed # 0 => Replaceable(machineLock.closed) /\ pickups[machineLock.closed].onMachine

PickupInv == PickupShape /\ AlertsMarked /\ LinksAreSound

\* What the pickup proofs use of the constants.
LEMMA PickupConstants == MaxPickups \in Nat \ {0} /\ Ids = 1..MaxPickups
  BY PickupAssumption DEF Ids

\* A new task is open, nobody was alerted about it, and it replaces what it says.
LEMMA FreshRowFits ==
    ASSUME NEW machine \in BOOLEAN, NEW closed \in 0..MaxPickups
    PROVE  /\ FreshRow(machine, closed) \in TaskRows /\ FreshRow(machine, closed).replaces = closed
           /\ ~FreshRow(machine, closed).escalated
  BY DEF FreshRow, TaskRows, PICKUP_OPEN

\* No task exists at first.
LEMMA PickupInitially == PickupInit => PickupInv
  <1> SUFFICES ASSUME PickupInit PROVE PickupInv
    OBVIOUS
  <1> USE PickupConstants
  <1>1. FreshRow(TRUE, 0) \in TaskRows /\ 0 \in 0..MaxPickups
    <2>1. 0 \in 0..MaxPickups /\ TRUE \in BOOLEAN
      OBVIOUS
    <2> QED
      BY <2>1, FreshRowFits, Zenon
  <1>2. Free \in [by : Dispatchers \cup {NoOne, "event"}, closed : 0..MaxPickups] /\ Free.closed = 0
    BY DEF Free
  <1>3. NoCandidate \in [pickup : 0..MaxPickups, version : Nat]
    BY DEF NoCandidate
  <1>4. PickupShape
    <2>1. pickups \in [Ids -> TaskRows]
      BY <1>1, Zenon DEF PickupInit
    <2>3. escalations \in [Ids -> 0..1]
      BY DEF PickupInit
    <2>2. candidate \in [Runners -> [pickup : 0..MaxPickups, version : Nat]]
          /\ \A r \in Runners : candidate[r] = NoCandidate
      BY <1>3 DEF PickupInit
    <2> QED
      BY <1>1, <1>2, <2>1, <2>2, <2>3 DEF PickupInit, PickupShape
  <1>5. AlertsMarked
    BY DEF PickupInit, AlertsMarked
  <1>6. LinksAreSound
    BY <1>2 DEF PickupInit, LinksAreSound, ReplacedOnce
  <1> QED
    BY <1>4, <1>5, <1>6 DEF PickupInv

\* What follows for a task that a row's change leaves closed, linked as it was.
LEMMA TaskStepKeeps ==
    ASSUME PickupInv, NEW p \in Ids, NEW row \in TaskRows, pickups' = [pickups EXCEPT ![p] = row],
           row.replaces = pickups[p].replaces, row.onMachine = pickups[p].onMachine,
           pickups[p].status \in PICKUP_REPLACEABLE => row.status = pickups[p].status,
           \/ escalations' = [escalations EXCEPT ![p] = 0]
           \/ escalations' = escalations /\ row.escalated = pickups[p].escalated
           \/ escalations' = [escalations EXCEPT ![p] = 1] /\ row.escalated /\ p <= made,
           UNCHANGED <<made, machineLock>>,
           candidate' \in [Runners -> [pickup : 0..MaxPickups, version : Nat]],
           \A r \in Runners : candidate'[r] # NoCandidate => candidate'[r].pickup \in 1..made
    PROVE  PickupInv'
  <1> USE PickupConstants
  <1>1. \A q \in Ids : pickups'[q] = IF q = p THEN row ELSE pickups[q]
    BY DEF PickupInv, PickupShape
  <1>2. \A q \in Ids : pickups'[q].replaces = pickups[q].replaces /\ pickups'[q].onMachine = pickups[q].onMachine
          /\ (pickups[q].status \in PICKUP_REPLACEABLE => pickups'[q].status \in PICKUP_REPLACEABLE)
    BY <1>1
  <1>3. pickups' \in [Ids -> TaskRows] /\ escalations' \in [Ids -> 0..1]
    BY DEF PickupInv, PickupShape
  <1>4. PickupShape'
    BY <1>3 DEF PickupInv, PickupShape
  <1>5. AlertsMarked'
    <2>1. \A q \in Ids \ {p} : escalations'[q] = escalations[q]
      BY DEF PickupInv, PickupShape
    <2>2. escalations'[p] = 1 => row.escalated
      BY DEF PickupInv, PickupShape, AlertsMarked
    <2>3. p > made => escalations'[p] = 0
      BY DEF PickupInv, PickupShape, AlertsMarked
    <2> QED
      BY <1>1, <2>1, <2>2, <2>3 DEF PickupInv, AlertsMarked
  <1>6. 1..made \subseteq Ids /\ \A q \in Ids : pickups[q].replaces \in 0..MaxPickups
    BY DEF PickupInv, PickupShape, TaskRows
  <1>7. ReplacedOnce'
    BY <1>2, <1>6 DEF PickupInv, PickupShape, LinksAreSound, ReplacedOnce, Replaced
  <1>8. LinksAreSound'
    BY <1>2, <1>6, <1>7 DEF PickupInv, PickupShape, LinksAreSound, Replaceable, Replaced
  <1> QED
    BY <1>4, <1>5, <1>8 DEF PickupInv

\* A new task, which replaces nothing or a task nobody else is replacing.
LEMMA InsertKeeps ==
    ASSUME PickupInv, NEW row \in TaskRows, Insert(row), made < MaxPickups, ~row.escalated,
           row.replaces # 0 => Replaceable(row.replaces),
           UNCHANGED <<candidate, escalations>>,
           \/ machineLock' = Free
           \/ machineLock' = machineLock /\ (row.replaces # 0 => machineLock.closed # row.replaces)
    PROVE  PickupInv'
  <1> USE PickupConstants
  <1>1. made \in Nat /\ made' = made + 1 /\ made + 1 \in Ids /\ 1..made \subseteq Ids
    BY DEF Insert, PickupInv, PickupShape
  <1>2. /\ pickups'[made + 1] = row /\ pickups' \in [Ids -> TaskRows]
        /\ \A q \in Ids : q # made + 1 => pickups'[q] = pickups[q]
    BY <1>1 DEF Insert, PickupInv, PickupShape
  <1>3. Free \in [by : Dispatchers \cup {NoOne, "event"}, closed : 0..MaxPickups] /\ Free.closed = 0
    BY DEF Free
  <1>4. PickupShape'
    <2>1. made' \in 0..MaxPickups /\ 1..made \subseteq 1..made'
      BY <1>1
    <2>2. machineLock' \in [by : Dispatchers \cup {NoOne, "event"}, closed : 0..MaxPickups]
      BY <1>3 DEF PickupInv, PickupShape
    <2>3. \A r \in Runners : candidate[r] # NoCandidate => candidate[r].pickup \in 1..made'
      BY <2>1 DEF PickupInv, PickupShape
    <2> QED
      BY <1>2, <2>1, <2>2, <2>3, Zenon DEF PickupInv, PickupShape
  <1>5. AlertsMarked'
    BY <1>1, <1>2 DEF PickupInv, AlertsMarked
  <1>6. row.replaces \in 0..made
    BY <1>1 DEF Replaceable, TaskRows
  <1>7. \A q \in 1..made : pickups'[q] = pickups[q] /\ pickups[q].replaces \in 0..made
          /\ (row.replaces # 0 => pickups[q].replaces # row.replaces)
    <2> SUFFICES ASSUME NEW q \in 1..made
                 PROVE  pickups'[q] = pickups[q] /\ pickups[q].replaces \in 0..made
                        /\ (row.replaces # 0 => pickups[q].replaces # row.replaces)
      OBVIOUS
    <2>1. pickups'[q] = pickups[q]
      BY <1>1, <1>2
    <2>2. pickups[q].replaces \in 0..MaxPickups
      BY <1>1 DEF PickupInv, PickupShape, TaskRows
    <2>3. pickups[q].replaces <= made
      BY DEF PickupInv, LinksAreSound
    <2>4. row.replaces # 0 => pickups[q].replaces # row.replaces
      BY DEF Replaceable, Replaced
    <2> QED
      BY <1>1, <2>1, <2>2, <2>3, <2>4
  <1>8. \A q \in 1..made' : q \in 1..made \/ q = made + 1
    BY <1>1
  <1>9. ASSUME NEW c \in 1..made, Replaceable(c), c # row.replaces
        PROVE  Replaceable(c)'
    <2>1. c \in 1..made' /\ pickups'[c] = pickups[c]
      BY <1>1, <1>7
    <2>2. \A q \in 1..made' : pickups'[q].replaces # c
      BY <1>2, <1>7, <1>8, <1>9 DEF Replaceable, Replaced
    <2> QED
      BY <1>9, <2>1, <2>2 DEF Replaceable, Replaced
  <1>10. machineLock'.closed # 0 =>
           /\ machineLock'.closed \in 1..made /\ Replaceable(machineLock'.closed)
           /\ machineLock'.closed # row.replaces /\ pickups[machineLock'.closed].onMachine
    BY <1>3 DEF PickupInv, PickupShape, LinksAreSound, Replaceable
  <1>11. machineLock'.closed # 0 => Replaceable(machineLock.closed)' /\ pickups'[machineLock'.closed].onMachine
    BY <1>7, <1>9, <1>10, Zenon DEF Replaceable
  <1>12. \A q, z \in 1..made' : q # z /\ pickups'[q].replaces # 0 => pickups'[q].replaces # pickups'[z].replaces
    BY <1>2, <1>7, <1>8 DEF PickupInv, LinksAreSound, ReplacedOnce
  <1>13. \A q \in 1..made' : pickups'[q].replaces # 0 =>
           pickups'[pickups'[q].replaces].status \in PICKUP_REPLACEABLE
    BY <1>2, <1>6, <1>7, <1>8 DEF PickupInv, LinksAreSound, ReplacedOnce, Replaceable
  <1>14. ReplacedOnce'
    BY <1>11, <1>12, <1>13 DEF ReplacedOnce, Replaceable
  <1>15. \A q \in 1..made' : pickups'[q].replaces <= made'
    BY <1>1, <1>2, <1>6, <1>7, <1>8
  <1> QED
    BY <1>4, <1>5, <1>11, <1>14, <1>15 DEF PickupInv, LinksAreSound

\* Steps that touch no task: only the Machine row's lock may be taken or left.
LEMMA PickupIdleStepKeeps ==
    ASSUME PickupInv, UNCHANGED <<pickups, made, escalations>>,
           candidate' \in [Runners -> [pickup : 0..MaxPickups, version : Nat]],
           \A r \in Runners : candidate'[r] # NoCandidate => candidate'[r].pickup \in 1..made,
           \/ machineLock' \in {Free, machineLock}
           \/ /\ machineLock' \in [by : Dispatchers \cup {NoOne, "event"}, closed : 0..MaxPickups]
              /\ machineLock'.closed # 0 =>
                   Replaceable(machineLock'.closed) /\ pickups[machineLock'.closed].onMachine
    PROVE  PickupInv'
  <1> USE PickupConstants
  <1>1. Free \in [by : Dispatchers \cup {NoOne, "event"}, closed : 0..MaxPickups] /\ Free.closed = 0
    BY DEF Free
  <1>2. PickupShape' /\ AlertsMarked'
    BY <1>1 DEF PickupInv, PickupShape, AlertsMarked
  <1>3. machineLock'.closed # 0 =>
          Replaceable(machineLock'.closed) /\ pickups[machineLock'.closed].onMachine
    BY <1>1 DEF PickupInv, LinksAreSound
  <1>4. \A c : Replaceable(c)' <=> Replaceable(c)
    BY DEF Replaceable, Replaced
  <1> QED
    BY <1>2, <1>3, <1>4 DEF PickupInv, LinksAreSound, ReplacedOnce, Replaceable, Replaced

\* A row's fields, and what one changed field makes of them.
LEMMA PickupRow ==
    ASSUME PickupInv, NEW p \in Ids
    PROVE  /\ pickups[p] \in TaskRows /\ pickups[p].version \in Nat
           /\ pickups[p].escalated \in BOOLEAN
  BY DEF PickupInv, PickupShape, TaskRows

\* An assignment keeps the invariant and raises the version.
LEMMA assignPickupKeeps ==
    ASSUME PickupInv, NEW p \in Ids, NEW v \in 0..MaxVersion, NEW c \in Collectors,
           NEW active \in BOOLEAN, NEW due \in {"unset", "ahead"},
           assignPickup(p, v, c, active, due)
    PROVE  PickupInv' /\ pickups'[p].version > pickups[p].version
  <1> DEFINE old == pickups[p]
             row == [pickups[p] EXCEPT !.collector = c, !.status = "ASSIGNED", !.version = @ + 1,
                                       !.due = due, !.escalated = FALSE]
  <1>1. row \in TaskRows /\ row.version = old.version + 1
        /\ row.replaces = old.replaces /\ row.onMachine = old.onMachine
    <2>1. old \in TaskRows
      BY PickupRow
    <2>2. row \in TaskRows
      <3>1. old.version + 1 \in Nat /\ "ASSIGNED" \in PICKUP_OPEN \cup PICKUP_TERMINAL
            /\ due \in {"unset", "ahead", "passed"} /\ c \in Collectors \cup {NoOne} /\ FALSE \in BOOLEAN
        BY PickupRow DEF PICKUP_OPEN
      <3>2. [old EXCEPT !.escalated = FALSE] \in TaskRows
        BY <2>1 DEF TaskRows
      <3>3. \A o \in TaskRows : [o EXCEPT !.collector = c, !.status = "ASSIGNED", !.due = due] \in TaskRows
        BY <3>1 DEF TaskRows
      <3>4. \A o \in TaskRows : [o EXCEPT !.version = old.version + 1] \in TaskRows
        BY <3>1 DEF TaskRows
      <3>5. row = [[[old EXCEPT !.escalated = FALSE] EXCEPT !.version = old.version + 1]
                     EXCEPT !.collector = c, !.status = "ASSIGNED", !.due = due]
        BY <2>1 DEF TaskRows
      <3> QED
        BY <3>2, <3>3, <3>4, <3>5, Zenon
    <2>3. row.version = old.version + 1
      BY <2>1 DEF TaskRows
    <2>4. row.replaces = old.replaces /\ row.onMachine = old.onMachine
      BY <2>1 DEF TaskRows
    <2> QED
      BY <2>2, <2>3, <2>4
  <1>2. pickups' = [pickups EXCEPT ![p] = row]
    BY DEF assignPickup, PickupInv, PickupShape
  <1>3. old.status \notin PICKUP_REPLACEABLE
    BY DEF assignPickup, PICKUP_REASSIGNABLE, PICKUP_REPLACEABLE
  <1>4. PickupInv'
    <2> HIDE DEF row
    <2> QED
      BY <1>1, <1>2, <1>3, TaskStepKeeps DEF assignPickup, PickupInv, PickupShape
  <1>5. pickups'[p].version = old.version + 1
    BY <1>1, <1>2 DEF PickupInv, PickupShape
  <1> QED
    BY <1>4, <1>5, PickupRow

\* A transition keeps the invariant and raises the version.
LEMMA transitionPickupKeeps ==
    ASSUME PickupInv, NEW p \in Ids, NEW actor \in Clients, NEW action \in FieldActions \cup {"cancel"},
           NEW v, transitionPickup(actor, p, action, v)
    PROVE  PickupInv' /\ pickups'[p].version > pickups[p].version
  <1> DEFINE old == pickups[p]
             row == [pickups[p] EXCEPT !.status = To(action), !.version = @ + 1]
  <1>1. To(action) \in PICKUP_OPEN \cup PICKUP_TERMINAL
    BY DEF To, FieldActions, PICKUP_OPEN, PICKUP_TERMINAL
  <1>2. row \in TaskRows /\ row.version = old.version + 1
        /\ row.replaces = old.replaces /\ row.onMachine = old.onMachine
        /\ row.escalated = old.escalated
    <2>1. old \in TaskRows
      BY PickupRow
    <2>2. row \in TaskRows
      <3>1. old.version + 1 \in Nat
        BY PickupRow
      <3> QED
        BY <1>1, <2>1, <3>1 DEF TaskRows
    <2>3. row.version = old.version + 1
      BY <2>1 DEF TaskRows
    <2>4. row.replaces = old.replaces /\ row.onMachine = old.onMachine /\ row.escalated = old.escalated
      BY <2>1 DEF TaskRows
    <2> QED
      BY <2>2, <2>3, <2>4
  <1>3. pickups' = [pickups EXCEPT ![p] = row]
    BY DEF transitionPickup, PickupInv, PickupShape
  <1>4. old.status \notin PICKUP_REPLACEABLE
    BY DEF transitionPickup, resolvePickupTransition, From, FieldActions, PICKUP_REPLACEABLE
  <1>5. PickupInv'
    <2> HIDE DEF row
    <2> QED
      BY <1>2, <1>3, <1>4, TaskStepKeeps DEF transitionPickup, PickupInv, PickupShape
  <1>6. pickups'[p].version = old.version + 1
    BY <1>2, <1>3 DEF PickupInv, PickupShape
  <1> QED
    BY <1>5, <1>6, PickupRow

\* Recording an item and the passing of a deadline decide nothing.
LEMMA QuietRowKeeps ==
    ASSUME PickupInv, NEW p \in Ids,
           (\E actor \in Clients : RecordItem(actor, p)) \/ DeadlinePasses(p)
    PROVE  PickupInv' /\ \A q \in Ids : Decision(pickups'[q]) = Decision(pickups[q])
  <1>1. PICK row \in {[pickups[p] EXCEPT !.items = 1], [pickups[p] EXCEPT !.due = "passed"]} :
          /\ pickups' = [pickups EXCEPT ![p] = row]
          /\ row.due # pickups[p].due => row.due = "passed" /\ pickups[p].due = "ahead"
    BY PickupRow DEF RecordItem, DeadlinePasses, TaskRows
  <1>2. /\ row \in TaskRows /\ row.replaces = pickups[p].replaces /\ row.onMachine = pickups[p].onMachine
        /\ row.escalated = pickups[p].escalated /\ row.status = pickups[p].status
        /\ row.collector = pickups[p].collector
    BY PickupRow DEF TaskRows
  <1>3. PickupInv'
    BY <1>1, <1>2, TaskStepKeeps DEF RecordItem, DeadlinePasses, PickupInv, PickupShape
  <1>4. Decision(row) = Decision(pickups[p])
    BY <1>1, <1>2 DEF Decision
  <1> QED
    BY <1>1, <1>3, <1>4 DEF PickupInv, PickupShape

\* The claim asks for a row without the mark, so the version's alert is new.
LEMMA EscalationClaimsKeeps ==
    ASSUME PickupInv, NEW r \in Runners, EscalationClaims(r)
    PROVE  PickupInv' /\ \A q \in Ids : Decision(pickups'[q]) = Decision(pickups[q])
  <1> DEFINE p == candidate[r].pickup
             row == [pickups[p] EXCEPT !.escalated = TRUE]
  <1>1. p \in 1..made /\ p \in Ids
    BY PickupConstants DEF EscalationClaims, PickupInv, PickupShape
  <1>2. candidate' \in [Runners -> [pickup : 0..MaxPickups, version : Nat]]
        /\ \A z \in Runners : candidate'[z] # NoCandidate => candidate'[z].pickup \in 1..made
    <2>1. NoCandidate \in [pickup : 0..MaxPickups, version : Nat]
      BY PickupConstants DEF NoCandidate
    <2> QED
      BY <2>1 DEF EscalationClaims, PickupInv, PickupShape
  <1>3. CASE Claimable(candidate[r])
    <2>1. pickups' = [pickups EXCEPT ![p] = row]
          /\ escalations' = [escalations EXCEPT ![p] = escalations[p] + 1]
      BY <1>1, <1>3 DEF EscalationClaims, PickupInv, PickupShape
    <2>2. escalations[p] = 0
      BY <1>1, <1>3 DEF Claimable, Overdue, PickupInv, PickupShape, AlertsMarked
    <2>3. row \in TaskRows /\ row.escalated /\ row.replaces = pickups[p].replaces
          /\ row.onMachine = pickups[p].onMachine /\ row.status = pickups[p].status
          /\ Decision(row) = Decision(pickups[p])
      BY <1>1, PickupRow DEF TaskRows, Decision
    <2>4. PickupInv'
      <3>1. escalations' = [escalations EXCEPT ![p] = 1]
        BY <2>1, <2>2
      <3>2. p <= made
        BY <1>1
      <3> HIDE DEF row, p
      <3> QED
        BY <1>1, <1>2, <2>1, <2>3, <3>1, <3>2, TaskStepKeeps DEF EscalationClaims
    <2> QED
      BY <1>1, <2>1, <2>3, <2>4 DEF PickupInv, PickupShape
  <1>4. CASE ~Claimable(candidate[r])
    BY <1>2, <1>4, PickupIdleStepKeeps DEF EscalationClaims
  <1> QED
    BY <1>3, <1>4

\* The latest task of the machine exists, so what CHOOSE takes is that task.
LEMMA LatestExists ==
    ASSUME PickupInv
    PROVE  /\ LatestOnMachine \in 0..made
           /\ LatestOnMachine # 0 => pickups[LatestOnMachine].onMachine
  <1> DEFINE IsLatest(p) == /\ p # 0 => pickups[p].onMachine
                            /\ \A q \in (p + 1)..made : ~pickups[q].onMachine
             T == {n \in 0..made : made - n # 0 => pickups[made - n].onMachine}
  <1>1. made \in Nat
    BY PickupConstants DEF PickupInv, PickupShape
  <1>2. T \subseteq Nat /\ made \in T
    BY <1>1
  <1>3. PICK n \in T : \A k \in T : n <= k
    <2>1. PICK n \in T : \A k \in T : ~(<<k, n>> \in OpToRel(<, Nat))
      <3> HIDE DEF T
      <3> QED
        BY <1>2, WFMin, NatLessThanWellFounded
    <2>2. \A k \in T : ~(k < n)
      BY <1>2, <2>1 DEF OpToRel
    <2> QED
      BY <1>2, <2>2
  <1>4. ASSUME NEW q \in (made - n + 1)..made PROVE ~pickups[q].onMachine
    <2>1. made - q \in 0..made /\ made - q < n /\ made - (made - q) = q /\ q # 0 /\ n \in Nat /\ made - q \in Nat
      BY <1>1, <1>3, <1>4
    <2>2. made - q \notin T
      BY <1>3, <2>1
    <2> QED
      BY <2>1, <2>2
  <1>5. made - n \in 0..made /\ IsLatest(made - n)
    BY <1>1, <1>3, <1>4
  <1>6. LatestOnMachine = CHOOSE p \in 0..made : IsLatest(p)
    BY DEF LatestOnMachine
  <1> HIDE DEF T
  <1>7. LatestOnMachine \in 0..made /\ IsLatest(LatestOnMachine)
    BY <1>5, <1>6, Zenon
  <1> QED
    BY <1>7

\* What the automatic request links may be replaced, and is the machine's.
LEMMA AutoReplacesSound ==
    ASSUME PickupInv
    PROVE  /\ autoReplaces \in 0..MaxPickups
           /\ autoReplaces # 0 => Replaceable(autoReplaces) /\ pickups[autoReplaces].onMachine
  <1>1. made \in 0..MaxPickups /\ MaxPickups \in Nat
    BY PickupConstants DEF PickupInv, PickupShape
  <1> QED
    BY <1>1, LatestExists DEF autoReplaces, Replaceable

\* A new task, on the machine or not, that replaces nothing or what it read.
LEMMA CreatesKeeps ==
    ASSUME PickupInv, NEW machine \in BOOLEAN, NEW closed \in 0..MaxPickups,
           Insert(FreshRow(machine, closed)), made < MaxPickups,
           closed # 0 => Replaceable(closed),
           UNCHANGED <<candidate, escalations>>,
           \/ machineLock' = Free
           \/ machineLock' = machineLock /\ (closed # 0 => machineLock.closed # closed)
    PROVE  PickupInv' /\ \A q \in Ids : made >= q => Decision(pickups'[q]) = Decision(pickups[q])
  <1>1. /\ FreshRow(machine, closed) \in TaskRows /\ FreshRow(machine, closed).replaces = closed
        /\ ~FreshRow(machine, closed).escalated
    BY FreshRowFits
  <1>2. PickupInv'
    <2> HIDE DEF FreshRow
    <2> QED
      BY <1>1, InsertKeeps
  <1>3. \A q \in Ids : made >= q => pickups'[q] = pickups[q]
    BY PickupConstants DEF Insert, PickupInv, PickupShape
  <1> QED
    BY <1>2, <1>3

\* Creating the replacement under the Machine lock keeps the invariant.
LEMMA ReplacementCreatesKeeps ==
    ASSUME PickupInv,
           (\E actor \in Dispatchers : ReplacementCreates(actor)) \/ MachineFullCreates
    PROVE  PickupInv' /\ \A q \in Ids : made >= q => Decision(pickups'[q]) = Decision(pickups[q])
  <1>1. machineLock.closed \in 0..MaxPickups /\ (machineLock.closed # 0 => Replaceable(machineLock.closed))
    BY DEF PickupInv, PickupShape, LinksAreSound
  <1>2. /\ Insert(FreshRow(TRUE, machineLock.closed)) /\ made < MaxPickups
        /\ machineLock' = Free /\ UNCHANGED <<candidate, escalations>>
    BY DEF ReplacementCreates, MachineFullCreates
  <1>3. TRUE \in BOOLEAN
    OBVIOUS
  <1> QED
    BY <1>1, <1>2, <1>3, CreatesKeeps, Zenon

\* Creating a task by hand keeps the invariant.
LEMMA CreatePickupKeeps ==
    ASSUME PickupInv, NEW machine \in BOOLEAN, CreatePickup(machine)
    PROVE  PickupInv' /\ \A q \in Ids : made >= q => Decision(pickups'[q]) = Decision(pickups[q])
  <1>1. 0 \in 0..MaxPickups
    BY PickupConstants
  <1> QED
    BY <1>1, CreatesKeeps DEF CreatePickup

\* The lock's task is the machine's, so replacing another kind leaves it.
LEMMA ReplaceManualKeeps ==
    ASSUME PickupInv, NEW p \in Ids, ReplaceManualPickup(p)
    PROVE  PickupInv' /\ \A q \in Ids : made >= q => Decision(pickups'[q]) = Decision(pickups[q])
  <1>1. p \in 0..MaxPickups /\ Replaceable(p) /\ p # 0
    BY PickupConstants DEF ReplaceManualPickup, Replaceable, Exists
  <1>2. machineLock.closed # p
    BY <1>1 DEF PickupInv, LinksAreSound, ReplaceManualPickup
  <1>3. FALSE \in BOOLEAN
    OBVIOUS
  <1> QED
    BY <1>1, <1>2, <1>3, CreatesKeeps, Zenon DEF ReplaceManualPickup

\* What a step of another kind owes: the rows, and so the decisions, stay.
PickupIdle ==
    \/ CheckNoOpenPickup \/ MachineFullReads \/ Rollback
    \/ \E actor \in Dispatchers, p \in Ids : ReplacementReads(actor, p)
    \/ \E full \in BOOLEAN : MachineReports(full) \/ StatusWritten(full)
    \/ \E c \in Collectors : PartnershipChanges(c)
    \/ \E r \in Runners, p \in Ids : EscalationReads(r, p)

\* Reads, reports and rollbacks keep the invariant and change no task.
LEMMA PickupIdleKeeps ==
    ASSUME PickupInv, PickupIdle
    PROVE  PickupInv' /\ UNCHANGED pickups
  <1> USE PickupConstants
  <1> DEFINE Locks == [by : Dispatchers \cup {NoOne, "event"}, closed : 0..MaxPickups]
             Sound(lock) == lock.closed # 0 => Replaceable(lock.closed) /\ pickups[lock.closed].onMachine
             Reading(c) == c \in [Runners -> [pickup : 0..MaxPickups, version : Nat]]
                           /\ \A r \in Runners : c[r] # NoCandidate => c[r].pickup \in 1..made
  <1>1. UNCHANGED <<pickups, made, escalations>>
    BY DEF PickupIdle, CheckNoOpenPickup, MachineFullReads, Rollback, ReplacementReads, MachineReports,
           StatusWritten, PartnershipChanges, EscalationReads
  <1>2. Reading(candidate)
    BY DEF PickupInv, PickupShape
  <1>3. CASE MachineFullReads
    <2>1. [by |-> "event", closed |-> autoReplaces] \in Locks
          /\ Sound([by |-> "event", closed |-> autoReplaces])
      BY AutoReplacesSound
    <2> QED
      BY <1>1, <1>2, <1>3, <2>1, PickupIdleStepKeeps DEF MachineFullReads
  <1>4. ASSUME NEW actor \in Dispatchers, NEW p \in Ids, ReplacementReads(actor, p)
        PROVE  PickupInv'
    <2>1. [by |-> actor, closed |-> p] \in Locks /\ Sound([by |-> actor, closed |-> p])
      BY <1>4 DEF ReplacementReads, Replaceable, Exists
    <2> QED
      BY <1>1, <1>2, <1>4, <2>1, PickupIdleStepKeeps DEF ReplacementReads
  <1>5. ASSUME NEW r \in Runners, NEW p \in Ids, EscalationReads(r, p)
        PROVE  PickupInv'
    <2>1. p \in 1..made /\ pickups[p].version \in Nat
      BY <1>5, PickupRow DEF EscalationReads, Exists
    <2>2. [pickup |-> p, version |-> pickups[p].version] \in [pickup : 0..MaxPickups, version : Nat]
      BY <2>1
    <2>3. Reading(candidate')
      BY <1>2, <1>5, <2>1, <2>2 DEF EscalationReads
    <2> QED
      BY <1>1, <1>5, <2>3, PickupIdleStepKeeps DEF EscalationReads
  <1>6. CASE CheckNoOpenPickup \/ Rollback
    BY <1>1, <1>2, <1>6, PickupIdleStepKeeps DEF CheckNoOpenPickup, Rollback
  <1>7. ASSUME NEW full \in BOOLEAN, MachineReports(full) \/ StatusWritten(full)
        PROVE  PickupInv'
    BY <1>1, <1>2, <1>7, PickupIdleStepKeeps DEF MachineReports, StatusWritten
  <1>8. ASSUME NEW c \in Collectors, PartnershipChanges(c)
        PROVE  PickupInv'
    BY <1>1, <1>2, <1>8, PickupIdleStepKeeps DEF PartnershipChanges
  <1> QED
    BY <1>1, <1>3, <1>4, <1>5, <1>6, <1>7, <1>8 DEF PickupIdle

\* A version stands for one decision.
VersionsGrow ==
    \A p \in Ids : made >= p /\ Decision(pickups'[p]) # Decision(pickups[p])
      => pickups'[p].version > pickups[p].version

\* Every step keeps the invariant, and a changed decision has a new version.
LEMMA PickupStepKeeps == ASSUME PickupInv, PickupNext PROVE PickupInv' /\ VersionsGrow
  <1>1. CASE PickupIdle
    BY <1>1, PickupIdleKeeps DEF VersionsGrow
  <1>2. ASSUME NEW p \in Ids, NEW actor \in Clients, NEW action \in FieldActions \cup {"cancel"},
               NEW v \in {pickups[p].version, NoOne}, transitionPickup(actor, p, action, v)
        PROVE  PickupInv' /\ VersionsGrow
    <2>1. PickupInv' /\ pickups'[p].version > pickups[p].version
      BY <1>2, transitionPickupKeeps
    <2>2. \A q \in Ids : q # p => pickups'[q] = pickups[q]
      BY <1>2 DEF transitionPickup, PickupInv, PickupShape
    <2> QED
      BY <2>1, <2>2 DEF VersionsGrow
  <1>3. ASSUME NEW p \in Ids, NEW c \in Collectors, NEW due \in {"unset", "ahead"},
               NEW v \in 0..MaxVersion, NEW active \in BOOLEAN, assignPickup(p, v, c, active, due)
        PROVE  PickupInv' /\ VersionsGrow
    <2>1. PickupInv' /\ pickups'[p].version > pickups[p].version
      BY <1>3, assignPickupKeeps
    <2>2. \A q \in Ids : q # p => pickups'[q] = pickups[q]
      BY <1>3 DEF assignPickup, PickupInv, PickupShape
    <2> QED
      BY <2>1, <2>2 DEF VersionsGrow
  <1>4. ASSUME NEW p \in Ids, (\E actor \in Clients : RecordItem(actor, p)) \/ DeadlinePasses(p)
        PROVE  PickupInv' /\ VersionsGrow
    BY <1>4, QuietRowKeeps, Zenon DEF VersionsGrow
  <1>5. ASSUME NEW p \in Ids, ReplaceManualPickup(p) PROVE PickupInv' /\ VersionsGrow
    BY <1>5, ReplaceManualKeeps, Zenon DEF VersionsGrow
  <1>6. CASE (\E actor \in Dispatchers : ReplacementCreates(actor)) \/ MachineFullCreates
    BY <1>6, ReplacementCreatesKeeps, Zenon DEF VersionsGrow
  <1>7. ASSUME NEW machine \in BOOLEAN, CreatePickup(machine) PROVE PickupInv' /\ VersionsGrow
    BY <1>7, CreatePickupKeeps, Zenon DEF VersionsGrow
  <1>8. ASSUME NEW r \in Runners, EscalationClaims(r) PROVE PickupInv' /\ VersionsGrow
    BY <1>8, EscalationClaimsKeeps, Zenon DEF VersionsGrow
  <1> QED
    BY <1>1, <1>2, <1>3, <1>4, <1>5, <1>6, <1>7, <1>8, Zenon DEF PickupNext, PickupIdle

\* Every step of the dispatch keeps the invariant.
LEMMA PickupKeeps == PickupInv /\ [PickupNext]_pickupVars => PickupInv'
  <1> SUFFICES ASSUME PickupInv, UNCHANGED pickupVars PROVE PickupInv'
    BY PickupStepKeeps
  <1> QED
    BY PickupIdleStepKeeps DEF pickupVars, PickupInv, PickupShape

\* For any collectors, dispatchers, passes and tasks: a version stands for one
\* decision, is escalated at most once, and a closed task is replaced at most
\* once, by whichever transaction holds its Machine row.
THEOREM PickupAlwaysDecidedOnce == PickupSpec => PickupDecidedOnce
  <1>1. PickupInv => EscalatedOncePerVersion /\ ReplacedOnce
    BY PickupConstants DEF PickupInv, PickupShape, LinksAreSound, EscalatedOncePerVersion
  <1>2. PickupInv' => EscalatedOncePerVersion' /\ ReplacedOnce'
    BY PickupConstants DEF PickupInv, PickupShape, LinksAreSound, EscalatedOncePerVersion
  <1>3. PickupInv /\ [PickupNext]_pickupVars
          => [VersionsGrow /\ EscalatedOncePerVersion' /\ ReplacedOnce']_pickupVars
    BY <1>2, PickupStepKeeps
  <1>4. PickupSpec => [][VersionsGrow /\ EscalatedOncePerVersion' /\ ReplacedOnce']_pickupVars
    BY <1>3, PickupInitially, PickupKeeps, PTL DEF PickupSpec
  <1> QED
    BY <1>4, PTL DEF PickupDecidedOnce, VersionsGrow

-----------------------------------------------------------------------------
(* Prices: a signed policy is never changed, so what an item drew of the   *)
(* ceiling at the machine is still the most its price can come to.         *)

PriceTerms == [unit : {"ITEM", "KG"}, points : Nat, rate : Nat \cup {Null},
               min : Nat \cup {Null}, max : Nat \cup {Null}]

RateRows == [unit : {"ITEM", "KG"}, points : Nat, min : Nat \cup {Null}, max : Nat \cup {Null},
             type : Types, scope : {"campaign", "organization", "global"},
             from : Nat, to : Nat \cup {Null}, active : BOOLEAN]

ItemRows == [state : {"none", "sent", "ACCEPTED", "REVIEW", "REJECTED", "APPROVED"},
             selected : Types \cup {Null}, type : Types \cup {Null}, weight : Nat,
             cap : Nat \cup {Null}, base : Nat, paid : Nat, at : Nat, rate : Nat \cup {Null}]

PriceTables ==
    /\ rates \in Seq(RateRows)
    /\ wtype \in [Types -> TypeShapes]
    /\ linked \subseteq Types
    /\ live.mult \in Nat
    /\ instant \in Nat

\* A policy fit to be signed: a price for each of its types.
PolicyFits(p) ==
    /\ p.types = [t \in DOMAIN p.types |-> p.types[t]] /\ DOMAIN p.types \subseteq Types
    /\ \A t \in DOMAIN p.types : p.types[t] \in PriceTerms
    /\ p.mult \in Nat /\ p.ceiling \in Nat \cup {Null}

\* The caps of a policy.
TermsCap(terms, mult) ==
    Or(policyItemCap(terms, mult), CeilDiv(MachineMax * terms.points * mult, KILO * BPS))

CapIn(p, t) ==
    IF t \in DOMAIN p.types THEN TermsCap(p.types[t], p.mult)
    ELSE IF p.types = <<>> THEN (IF p.ceiling = Null THEN 0 ELSE p.ceiling + 1)
    ELSE Max({TermsCap(p.types[u], p.mult) : u \in DOMAIN p.types})

\* What an item the machine counted can still come to.
WithinCap(p, x) ==
    /\ x.cap = CapIn(p, x.selected) /\ x.weight <= MachineMax
    /\ x.state = "sent" => x.type = x.selected
    /\ x.state \in {"ACCEPTED", "REVIEW", "APPROVED"} => x.base <= x.cap
    /\ x.state = "APPROVED" /\ x.selected \in {Null, x.type} => x.paid <= x.cap

ItemFits(x) ==
    /\ x \in ItemRows
    /\ x.state = "none" => x.cap = Null
    /\ x.state \in {"none", "sent"} => x.base = 0
    /\ ~Snapshot => x.rate \in DOMAIN rates \cup {Null}
    /\ x.cap # Null => Snapshot /\ WithinCap(policy, x)

CapOf(x) == IF x.cap = Null THEN 0 ELSE x.cap

PricingInv ==
    /\ PriceTables
    /\ Snapshot => PolicyFits(policy)
    /\ priced = [i \in PricedItems |-> priced[i]] /\ \A i \in PricedItems : ItemFits(priced[i])
    /\ consumed = SumFunctionOnSet([i \in PricedItems |-> CapOf(priced[i])], PricedItems)
    /\ Snapshot /\ policy.ceiling # Null => consumed <= policy.ceiling

\* Products of numbers, as the amounts need them.
LEMMA Products ==
    /\ \A a, b \in Nat : a * b \in Nat
    /\ \A a, b, c \in Nat : a <= b => a * c <= b * c /\ c * a <= c * b
    /\ \A a, b \in Nat : a * b = b * a
  <1>1. \A a, b \in Nat : a * b \in Nat
    OBVIOUS
  <1>2. \A a, b, c \in Nat : a <= b => a * c <= b * c /\ c * a <= c * b
    OBVIOUS
  <1>3. \A a, b \in Nat : a * b = b * a
    OBVIOUS
  <1> QED
    BY <1>1, <1>2, <1>3

\* A weight within the bounds of its type is worth no more than the cap.
LEMMA AmountWithinCap ==
    ASSUME NEW terms \in PriceTerms, NEW mult \in Nat
    PROVE  /\ TermsCap(terms, mult) \in Nat
           /\ \A w \in Nat :
                /\ Amount(terms, w, mult) \in Nat
                /\ w <= MachineMax /\ (terms.max # Null => w <= terms.max)
                     => Amount(terms, w, mult) <= TermsCap(terms, mult)
  <1> DEFINE points == terms.points
             bound == MachineMax * points * mult
  <1>1. points \in Nat /\ terms.unit \in {"ITEM", "KG"} /\ terms.max \in Nat \cup {Null}
    BY DEF PriceTerms
  <1>2. MachineMax \in Nat /\ Null \notin Nat
    BY PricingConstants
  <1> HIDE DEF points
  <1>3. points * mult \in Nat /\ bound \in Nat
    BY <1>1, <1>2, Products
  <1>4. \A w \in Nat : points * w * mult \in Nat
    BY <1>1, Products
  <1>5. \A v, w \in Nat : v <= w => points * v * mult <= points * w * mult
    <2> TAKE v, w \in Nat
    <2> HAVE v <= w
    <2>1. points * v \in Nat /\ points * w \in Nat /\ points * v <= points * w
      BY <1>1, Products
    <2> QED
      BY <2>1, Products
  <1>6. bound = points * MachineMax * mult
    BY <1>1, <1>2, Products
  <1>7. \A a \in Nat : a \div 4 \in Nat /\ (a + 4 - 1) \div 4 \in Nat /\ (2 * a + 2) \div 4 \in Nat
    OBVIOUS
  <1>8. \A a, b \in Nat : a <= b => a \div 4 <= b \div 4 /\ a \div 4 <= (b + 4 - 1) \div 4
    OBVIOUS
  <1>9. 2 * points * mult = 2 * (points * mult)
    BY <1>1
  <1> HIDE DEF bound
  <1>10. CASE terms.unit = "ITEM"
    <2> DEFINE amount == (2 * (points * mult) + 2) \div 4
    <2>1. \A w : Amount(terms, w, mult) = amount
      BY <1>9, <1>10 DEF Amount, computeRewardAmount, BPS, points
    <2>2. amount \in Nat
      BY <1>3, <1>7
    <2>3. policyItemCap(terms, mult) = amount
      BY <1>10, <2>1 DEF policyItemCap
    <2> HIDE DEF amount
    <2>4. TermsCap(terms, mult) = amount
      BY <1>2, <2>2, <2>3 DEF TermsCap, Or
    <2> QED
      BY <2>1, <2>2, <2>4
  <1>11. CASE terms.unit = "KG"
    <2>1. \A w : Amount(terms, w, mult) = (points * w * mult) \div 4
      BY <1>11 DEF Amount, computeWeightBasedRewardAmount, BPS, KILO, points
    <2>2. \A w \in Nat : Amount(terms, w, mult) \in Nat
      BY <1>4, <1>7, <2>1
    <2>3. CASE terms.max = Null
      <3>1. TermsCap(terms, mult) = (bound + 4 - 1) \div 4
        BY <1>11, <2>3 DEF TermsCap, Or, policyItemCap, CeilDiv, BPS, KILO, bound, points
      <3>2. TermsCap(terms, mult) \in Nat
        BY <1>3, <1>7, <3>1
      <3>3. \A w \in Nat : w <= MachineMax => points * w * mult <= bound
        BY <1>2, <1>5, <1>6
      <3>4. \A w \in Nat : w <= MachineMax => Amount(terms, w, mult) <= TermsCap(terms, mult)
        BY <1>3, <1>4, <1>8, <2>1, <3>1, <3>3
      <3> QED
        BY <2>2, <3>2, <3>4
    <2>4. CASE terms.max # Null
      <3>1. terms.max \in Nat
        BY <1>1, <2>4
      <3>2. policyItemCap(terms, mult) = Amount(terms, terms.max, mult)
        BY <2>4 DEF policyItemCap
      <3>3. TermsCap(terms, mult) = Amount(terms, terms.max, mult)
        BY <1>2, <2>2, <3>1, <3>2 DEF TermsCap, Or
      <3>4. \A w \in Nat : w <= terms.max => Amount(terms, w, mult) <= TermsCap(terms, mult)
        BY <1>4, <1>5, <1>8, <2>1, <3>1, <3>3
      <3> QED
        BY <2>2, <2>4, <3>1, <3>3, <3>4
    <2> QED
      BY <2>3, <2>4
  <1> QED
    BY <1>1, <1>10, <1>11

\* An item without a selected type is counted at the dearest type's cap.
LEMMA CapCoversTypes ==
    ASSUME NEW p, PolicyFits(p), NEW t \in Types \cup {Null}
    PROVE  /\ CapIn(p, t) \in Nat
           /\ \A u \in DOMAIN p.types : t \in {Null, u} => TermsCap(p.types[u], p.mult) <= CapIn(p, t)
  <1> DEFINE caps == [u \in DOMAIN p.types |-> TermsCap(p.types[u], p.mult)]
             all == {caps[u] : u \in DOMAIN p.types}
  <1>1. \A u \in DOMAIN p.types : caps[u] \in Nat
    BY AmountWithinCap DEF PolicyFits
  <1>2. IsFiniteSet(DOMAIN p.types) /\ Null \notin DOMAIN p.types
    BY PricingConstants, FS_Subset DEF PolicyFits
  <1>3. CASE t \in DOMAIN p.types
    <2>1. CapIn(p, t) = caps[t] /\ caps[t] \in Nat
      BY <1>1, <1>3 DEF CapIn
    <2>2. \A u \in DOMAIN p.types : t \in {Null, u} => u = t
      BY <1>2, <1>3
    <2>3. caps[t] = TermsCap(p.types[t], p.mult)
      BY <1>3
    <2> HIDE DEF caps
    <2> QED
      BY <2>1, <2>2, <2>3
  <1>4. CASE t \notin DOMAIN p.types /\ p.types = <<>>
    <2>1. DOMAIN p.types = {}
      BY <1>4
    <2> QED
      BY <1>4, <2>1 DEF CapIn, PolicyFits
  <1>5. CASE t \notin DOMAIN p.types /\ p.types # <<>>
    <2>1. DOMAIN p.types # {}
      <3> SUFFICES ASSUME DOMAIN p.types = {} PROVE FALSE
        OBVIOUS
      <3>1. DOMAIN p.types = 1..0
        OBVIOUS
      <3>2. p.types \in [1..0 -> {}]
        BY <3>1 DEF PolicyFits
      <3>3. p.types \in Seq({})
        BY <3>2, SeqDef
      <3>4. Len(p.types) = 0
        BY <3>1, <3>3, LenProperties
      <3> QED
        BY <1>5, <3>3, <3>4, EmptySeq
    <2>2. PICK a \in DOMAIN p.types : \A b \in DOMAIN p.types : caps[a] >= caps[b]
      <3>1. \A u \in DOMAIN p.types : caps[u] \in Int
        BY <1>1
      <3> HIDE DEF caps
      <3> QED
        BY <1>2, <2>1, <3>1, Greatest
    <2>3. caps[a] \in all /\ \A v \in all : caps[a] >= v
      BY <2>2
    <2>4. Max(all) \in all /\ \A v \in all : Max(all) >= v
      <3> HIDE DEF all
      <3> QED
        BY <2>3 DEF Max
    <2>5. all = {TermsCap(p.types[u], p.mult) : u \in DOMAIN p.types}
      OBVIOUS
    <2>6. CapIn(p, t) = Max(all)
      BY <1>5, <2>5 DEF CapIn
    <2>7. \A u \in DOMAIN p.types : TermsCap(p.types[u], p.mult) \in all
      OBVIOUS
    <2>8. \A v \in all : v \in Nat
      BY <1>1
    <2> HIDE DEF all
    <2> QED
      BY <2>4, <2>6, <2>7, <2>8
  <1> QED
    BY <1>3, <1>4, <1>5

\* item_cap reads the session's policy.
LEMMA CapIsCapIn == \A t : item_cap(t) = CapIn(policy, t)
  BY Zenon DEF item_cap, item_caps, CapIn, TermsCap

\* Nothing is counted before the admission.
LEMMA PricingInitially == PricingInit => PricingInv
  <1> SUFFICES ASSUME PricingInit PROVE PricingInv
    OBVIOUS
  <1>1. ~Snapshot
    BY DEF PricingInit, Snapshot
  <1>2. Unpriced \in ItemRows /\ ItemFits(Unpriced)
    BY DEF Unpriced, ItemRows, ItemFits
  <1>3. consumed = SumFunctionOnSet([i \in PricedItems |-> CapOf(priced[i])], PricedItems)
    <2> DEFINE f == [i \in PricedItems |-> CapOf(priced[i])]
    <2>1. \A i \in PricedItems : f[i] = 0
      BY DEF PricingInit, Unpriced, CapOf
    <2> HIDE DEF f
    <2>2. SumFunctionOnSet(f, PricedItems) = 0
      BY <2>1, SumZero, PricingConstants
    <2> QED
      BY <2>2 DEF f, PricingInit
  <1>4. rates \in Seq(RateRows)
    <2>1. \A t \in Types, shape \in RateShapes : Row(t, "organization", shape, 0) \in RateRows
      BY PricingConstants DEF Row, RateRows
    <2>2. <<>> \in Seq(RateRows) /\ \A r \in RateRows : <<r>> \in Seq(RateRows)
      OBVIOUS
    <2>3. CASE rates = <<>>
      BY <2>2, <2>3
    <2>4. ASSUME NEW t \in Types, NEW shape \in RateShapes, rates = <<Row(t, "organization", shape, 0)>>
          PROVE  rates \in Seq(RateRows)
      BY <2>1, <2>2, <2>4, Zenon
    <2>5. rates = <<>> \/ \E t \in Types, shape \in RateShapes : rates = <<Row(t, "organization", shape, 0)>>
      BY SMT DEF PricingInit
    <2> QED
      BY <2>3, <2>4, <2>5, Zenon
  <1>5. live.mult \in Nat
    <2>1. \A m \in Mults : m \in Nat
      BY PricingConstants
    <2> QED
      BY <2>1 DEF PricingInit, Programs, BPS
  <1>6. PriceTables
    BY <1>4, <1>5 DEF PricingInit, PriceTables
  <1>7. priced = [i \in PricedItems |-> priced[i]] /\ \A i \in PricedItems : ItemFits(priced[i])
    BY <1>2, Zenon DEF PricingInit
  <1> QED
    BY <1>1, <1>3, <1>6, <1>7, Zenon DEF PricingInv

\* A step that changes neither the policy nor the items.
LEMMA PricesUntouched ==
    ASSUME PricingInv, PriceTables', DOMAIN rates \subseteq DOMAIN rates',
           UNCHANGED <<policy, consumed, priced>>
    PROVE  PricingInv'
  <1>1. Snapshot' = Snapshot
    BY DEF Snapshot
  <1>2. \A i \in PricedItems : ItemFits(priced[i])'
    BY <1>1 DEF PricingInv, ItemFits
  <1> QED
    BY <1>1, <1>2, Zenon DEF PricingInv

\* A price list entry of a type is made of its rate and of the type's own row.
LEMMA TermsFit ==
    ASSUME PriceTables, NEW t \in Types, NEW n \in DOMAIN rates \cup {Null}
    PROVE  Terms(t, n) \in PriceTerms
  <1>1. wtype[t] \in [unit : {"ITEM", "KG"}, points : Nat, min : Nat \cup {Null}, max : Nat \cup {Null}]
    BY PricingConstants DEF PriceTables
  <1>2. n # Null => n \in Nat /\ rates[n] \in RateRows
    BY DEF PriceTables
  <1> DEFINE row == IF n = Null THEN wtype[t] ELSE rates[n]
  <1>3. row.unit \in {"ITEM", "KG"} /\ row.points \in Nat /\ row.min \in Nat \cup {Null} /\ row.max \in Nat \cup {Null}
    BY <1>1, <1>2 DEF RateRows
  <1>4. Or(row.min, wtype[t].min) \in Nat \cup {Null} /\ Or(row.max, wtype[t].max) \in Nat \cup {Null}
    BY <1>1, <1>3 DEF Or
  <1>5. n \in Nat \cup {Null}
    BY <1>2
  <1>6. Terms(t, n) = [unit |-> row.unit, points |-> row.points, rate |-> n,
                       min |-> Or(row.min, wtype[t].min), max |-> Or(row.max, wtype[t].max)]
    BY DEF Terms
  <1> HIDE DEF row
  <1> QED
    BY <1>3, <1>4, <1>5, <1>6 DEF PriceTerms

\* buildSessionPolicy prices every linked type.
LEMMA BuiltPolicyFits ==
    ASSUME PriceTables, NEW choice \in Resolutions, NEW ceiling \in SessionCaps \cup {Null}
    PROVE  PolicyFits(buildSessionPolicy(choice, ceiling))
  <1> DEFINE p == buildSessionPolicy(choice, ceiling)
  <1>1. \A t \in linked : Terms(t, choice[t]) \in PriceTerms
    <2> TAKE t \in linked
    <2>1. t \in Types /\ choice[t] \in DOMAIN rates \cup {Null}
      BY DEF PriceTables, Resolutions
    <2> QED
      BY <2>1, TermsFit
  <1>2. \A t \in linked : Price(Terms(t, choice[t]), live.money) \in PriceTerms
    <2>1. \A terms \in PriceTerms : \A money : Price(terms, money) \in PriceTerms
      BY DEF Price, PriceTerms
    <2> QED
      BY <1>1, <2>1
  <1>3. p.types = [t \in linked |-> Price(Terms(t, choice[t]), live.money)] /\ p.mult = live.mult
    BY DEF buildSessionPolicy
  <1>4. p.ceiling \in Nat \cup {Null}
    BY PricingConstants DEF buildSessionPolicy
  <1> HIDE DEF p
  <1>5. DOMAIN p.types = linked /\ \A t \in linked : p.types[t] \in PriceTerms
    BY <1>2, <1>3
  <1>6. p.types = [t \in DOMAIN p.types |-> p.types[t]]
    BY <1>3
  <1>7. PolicyFits(p)
    BY <1>3, <1>4, <1>5, <1>6 DEF PolicyFits, PriceTables
  <1> QED
    BY <1>7 DEF p

\* The admission: nothing was counted before.
LEMMA AdmissionKeeps ==
    ASSUME PricingInv, ~Snapshot, NEW ceiling \in SessionCaps \cup {Null}, NEW choice \in Resolutions,
           policy' = buildSessionPolicy(choice, ceiling),
           UNCHANGED <<rates, wtype, linked, live, instant, consumed, priced>>
    PROVE  PricingInv'
  <1> DEFINE f == [i \in PricedItems |-> CapOf(priced[i])]
  <1>1. \A i \in PricedItems : priced[i].cap = Null
    BY DEF PricingInv, ItemFits
  <1>2. consumed = 0
    <2>1. \A i \in PricedItems : f[i] = 0
      BY <1>1 DEF CapOf
    <2> HIDE DEF f
    <2>2. SumFunctionOnSet(f, PricedItems) = 0
      BY <2>1, SumZero, PricingConstants
    <2> QED
      BY <2>2 DEF f, PricingInv
  <1>3. PolicyFits(policy')
    BY BuiltPolicyFits DEF PricingInv
  <1>4. PriceTables'
    BY DEF PricingInv, PriceTables
  <1>5. \A i \in PricedItems : ItemFits(priced[i])'
    BY <1>1 DEF PricingInv, ItemFits
  <1>6. policy'.ceiling # Null => consumed' <= policy'.ceiling
    BY <1>2, <1>3 DEF PolicyFits
  <1> QED
    BY <1>3, <1>4, <1>5, <1>6, Zenon DEF PricingInv

\* The count is a number.
LEMMA ConsumedNumber == PricingInv => consumed \in Int
  <1> SUFFICES ASSUME PricingInv PROVE consumed \in Int
    OBVIOUS
  <1> DEFINE f == [j \in PricedItems |-> CapOf(priced[j])]
  <1>1. \A j \in PricedItems : f[j] \in Int
    BY DEF PricingInv, ItemFits, ItemRows, CapOf
  <1>2. consumed = SumFunctionOnSet(f, PricedItems)
    BY DEF PricingInv
  <1> HIDE DEF f
  <1> QED
    BY <1>1, <1>2, SumType, PricingConstants

\* A step of one item, and what it adds to the count.
LEMMA ItemStepKeeps ==
    ASSUME PricingInv, NEW i \in PricedItems, NEW x, ItemFits(x), priced' = [priced EXCEPT ![i] = x],
           consumed' = consumed + CapOf(x) - CapOf(priced[i]),
           Snapshot /\ policy.ceiling # Null => consumed' <= policy.ceiling,
           UNCHANGED <<rates, wtype, linked, live, instant, policy>>
    PROVE  PricingInv'
  <1> DEFINE f == [j \in PricedItems |-> CapOf(priced[j])]
             g == [j \in PricedItems |-> CapOf(priced'[j])]
  <1>1. Snapshot' = Snapshot
    BY DEF Snapshot
  <1>2. priced' = [j \in PricedItems |-> priced'[j]] /\ priced'[i] = x
        /\ \A j \in PricedItems \ {i} : priced'[j] = priced[j]
    BY DEF PricingInv
  <1>3. \A j \in PricedItems : ItemFits(priced[j])'
    BY <1>1, <1>2 DEF PricingInv, ItemFits
  <1>4. \A j \in PricedItems : f[j] \in Int /\ g[j] \in Int
    <2>1. \A y \in ItemRows : CapOf(y) \in Int
      BY DEF CapOf, ItemRows
    <2> QED
      BY <1>3, <2>1 DEF PricingInv, ItemFits
  <1>5. SumFunctionOnSet(g, PricedItems) = SumFunctionOnSet(f, PricedItems) + g[i] - f[i]
    <2>1. \A j \in PricedItems \ {i} : g[j] = f[j]
      BY <1>2
    <2> HIDE DEF f, g
    <2> QED
      BY <1>4, <2>1, SumChange, PricingConstants
  <1>6. f[i] = CapOf(priced[i]) /\ g[i] = CapOf(x)
    BY <1>2
  <1>7. consumed = SumFunctionOnSet(f, PricedItems)
    BY DEF PricingInv
  <1>8. consumed' = SumFunctionOnSet(g, PricedItems)
    <2> HIDE DEF f, g
    <2> QED
      BY <1>5, <1>6, <1>7
  <1>9. consumed' = SumFunctionOnSet([j \in PricedItems |-> CapOf(priced[j])'], PricedItems)
    BY <1>8 DEF CapOf
  <1>10. PriceTables'
    BY DEF PricingInv, PriceTables
  <1>11. (Snapshot => PolicyFits(policy))'
    BY <1>1 DEF PricingInv
  <1> QED
    BY <1>1, <1>2, <1>3, <1>9, <1>10, <1>11, Zenon DEF PricingInv

\* A step of one item that the machine's count is not concerned with.
LEMMA ItemPricedKeeps ==
    ASSUME PricingInv, NEW i \in PricedItems, NEW x, ItemFits(x), priced' = [priced EXCEPT ![i] = x],
           x.cap = priced[i].cap, UNCHANGED <<rates, wtype, linked, live, instant, policy, consumed>>
    PROVE  PricingInv'
  <1>1. CapOf(x) = CapOf(priced[i])
    BY DEF CapOf
  <1>2. CapOf(x) \in Int
    BY DEF CapOf, ItemFits, ItemRows
  <1>3. consumed \in Int
    BY ConsumedNumber
  <1>4. consumed' = consumed + CapOf(x) - CapOf(priced[i])
    BY <1>1, <1>2, <1>3
  <1>5. Snapshot /\ policy.ceiling # Null => consumed' <= policy.ceiling
    BY DEF PricingInv
  <1> QED
    BY <1>4, <1>5, ItemStepKeeps

\* An item the machine accepts is counted with the cap of its selected type.
LEMMA machineAcceptsKeeps ==
    ASSUME PricingInv, NEW i \in PricedItems, NEW t \in Types \cup {Null}, NEW w \in ItemWeights,
           machineAccepts(i, t, w)
    PROVE  PricingInv'
  <1> DEFINE x == [priced[i] EXCEPT !.state = "sent", !.selected = t, !.type = t, !.weight = w, !.cap = item_cap(t)]
  <1>1. priced[i] \in ItemRows /\ priced[i].state = "none" /\ priced[i].cap = Null /\ priced[i].base = 0
    BY DEF PricingInv, ItemFits, machineAccepts
  <1>2. Snapshot /\ w \in Nat /\ w <= MachineMax
    BY PricingConstants DEF machineAccepts
  <1>3. item_cap(t) = CapIn(policy, t)
    BY CapIsCapIn
  <1>4. item_cap(t) \in Nat /\ Null \notin Nat
    BY <1>2, <1>3, CapCoversTypes, PricingConstants DEF PricingInv
  <1>5. x \in ItemRows /\ x.state = "sent" /\ x.selected = t /\ x.type = t /\ x.weight = w
        /\ x.cap = item_cap(t) /\ x.base = 0
    BY <1>1, <1>2, <1>4 DEF ItemRows
  <1>6. priced' = [priced EXCEPT ![i] = x]
    BY DEF machineAccepts
  <1>7. consumed' = consumed + item_cap(t) /\ ~item_block_reason(t)
        /\ UNCHANGED <<rates, wtype, linked, live, instant, policy>>
    BY DEF machineAccepts
  <1> HIDE DEF x
  <1>8. ItemFits(x)
    BY <1>2, <1>3, <1>5 DEF ItemFits, WithinCap
  <1>9. CapOf(x) = item_cap(t) /\ CapOf(priced[i]) = 0
    BY <1>1, <1>4, <1>5 DEF CapOf
  <1>10. consumed \in Int
    BY ConsumedNumber
  <1>11. consumed' = consumed + CapOf(x) - CapOf(priced[i])
    BY <1>4, <1>7, <1>9, <1>10
  <1>12. Snapshot /\ policy.ceiling # Null => consumed' <= policy.ceiling
    <2> SUFFICES ASSUME Snapshot, policy.ceiling # Null PROVE consumed + item_cap(t) <= policy.ceiling
      BY <1>7
    <2>1. policy.ceiling \in Nat /\ ~(consumed + item_cap(t) > policy.ceiling)
      BY <1>7 DEF PricingInv, PolicyFits, item_block_reason
    <2> QED
      BY <1>4, <1>10, <2>1
  <1> QED
    BY <1>6, <1>7, <1>8, <1>11, <1>12, ItemStepKeeps

\* An item of a v1 worker is not counted.
LEMMA machineAcceptsV1Keeps ==
    ASSUME PricingInv, NEW i \in PricedItems, NEW t \in Types \cup {Null}, NEW w \in ItemWeights,
           machineAcceptsV1(i, t, w)
    PROVE  PricingInv'
  <1> DEFINE x == [priced[i] EXCEPT !.state = "sent", !.selected = t, !.type = t, !.weight = w]
  <1>1. priced[i] \in ItemRows /\ priced[i].cap = Null /\ priced[i].base = 0
        /\ (~Snapshot => priced[i].rate \in DOMAIN rates \cup {Null})
    BY DEF PricingInv, ItemFits, machineAcceptsV1
  <1>2. w \in Nat
    BY PricingConstants
  <1>3. x \in ItemRows /\ x.state = "sent" /\ x.cap = Null /\ x.base = 0 /\ x.rate = priced[i].rate
    BY <1>1, <1>2 DEF ItemRows
  <1>4. priced' = [priced EXCEPT ![i] = x]
    BY DEF machineAcceptsV1
  <1>5. UNCHANGED <<rates, wtype, linked, live, instant, policy, consumed>>
    BY DEF machineAcceptsV1
  <1> HIDE DEF x
  <1>6. ItemFits(x)
    BY <1>1, <1>3 DEF ItemFits
  <1> QED
    BY <1>1, <1>3, <1>4, <1>5, <1>6, ItemPricedKeeps

\* The prices an item can be given: a signed entry, or one of the live tables.
LEMMA PriceListFits ==
    ASSUME PricingInv, NEW t \in Types, Priceable(t), NEW list \in PriceList(t)
    PROVE  /\ list.terms \in PriceTerms /\ list.mult \in Nat
           /\ Snapshot => t \in DOMAIN policy.types /\ list.terms = policy.types[t] /\ list.mult = policy.mult
           /\ ~Snapshot => list.terms.rate \in DOMAIN rates \cup {Null}
  <1>1. CASE Snapshot
    <2>1. list.terms = policy.types[t] /\ list.mult = policy.mult /\ t \in DOMAIN policy.types
      BY <1>1 DEF PriceList, Priceable
    <2> QED
      BY <1>1, <2>1 DEF PricingInv, PolicyFits
  <1>2. CASE ~Snapshot
    <2>1. PICK n \in resolveRewardRate(t) : list.terms = Terms(t, n) /\ list.mult = live.mult
      BY <1>2 DEF PriceList
    <2>2. n \in DOMAIN rates \cup {Null}
      BY DEF resolveRewardRate, selectRewardRate
    <2>3. Terms(t, n).rate = n
      BY DEF Terms
    <2>4. Terms(t, n) \in PriceTerms
      BY <2>2, TermsFit DEF PricingInv
    <2> QED
      BY <1>2, <2>1, <2>2, <2>3, <2>4 DEF PricingInv, PriceTables
  <1> QED
    BY <1>1, <1>2

\* So are the prices a review can give, at the rate of the acceptance.
LEMMA ReviewListFits ==
    ASSUME PricingInv, NEW t \in Types, Priceable(t), NEW x, ItemFits(x), NEW list \in ReviewList(x, t)
    PROVE  /\ list.terms \in PriceTerms /\ list.mult \in Nat
           /\ Snapshot => t \in DOMAIN policy.types /\ list.terms = policy.types[t] /\ list.mult = policy.mult
  <1>1. CASE Snapshot
    BY <1>1, PriceListFits DEF ReviewList
  <1>2. CASE ~Snapshot
    <2>1. PICK n \in acceptanceRate(x, t) : list.terms = Terms(t, n) /\ list.mult = live.mult
      BY <1>2 DEF ReviewList
    <2>2. resolveRewardRateAt(t, x.at) \subseteq DOMAIN rates \cup {Null}
      BY DEF resolveRewardRateAt, selectRewardRate
    <2>3. n \in DOMAIN rates \cup {Null}
      <3>1. x.rate \in DOMAIN rates \cup {Null}
        BY <1>2 DEF ItemFits
      <3> QED
        BY <2>1, <2>2, <3>1 DEF acceptanceRate
    <2>4. Terms(t, n) \in PriceTerms
      BY <2>3, TermsFit DEF PricingInv
    <2> QED
      BY <1>2, <2>1, <2>4 DEF PricingInv, PriceTables
  <1> QED
    BY <1>1, <1>2

\* The weight fits the bounds a price list entry states itself.
LEMMA BoundsHold ==
    ASSUME NEW x, NEW terms \in PriceTerms, WeightFits(x, terms), terms.max # Null
    PROVE  x.weight <= terms.max
  BY DEF WeightFits, validateWeight, Or

\* An amount of a signed entry is within the cap of the item.
LEMMA SignedAmountWithinCap ==
    ASSUME PricingInv, Snapshot, NEW x \in ItemRows, WithinCap(policy, x), NEW t \in DOMAIN policy.types,
           x.selected \in {Null, t}, WeightFits(x, policy.types[t])
    PROVE  Amount(policy.types[t], x.weight, policy.mult) <= x.cap
  <1> DEFINE terms == policy.types[t]
  <1>1. PolicyFits(policy) /\ terms \in PriceTerms /\ policy.mult \in Nat
    BY DEF PricingInv, PolicyFits
  <1>2. x.weight \in Nat /\ x.weight <= MachineMax /\ x.cap = CapIn(policy, x.selected)
        /\ x.selected \in Types \cup {Null}
    BY DEF ItemRows, WithinCap
  <1>3. TermsCap(terms, policy.mult) <= CapIn(policy, x.selected) /\ CapIn(policy, x.selected) \in Nat
    BY <1>1, <1>2, CapCoversTypes
  <1> HIDE DEF terms
  <1>4. terms.max # Null => x.weight <= terms.max
    BY <1>1, BoundsHold DEF terms
  <1>5. Amount(terms, x.weight, policy.mult) <= TermsCap(terms, policy.mult)
        /\ Amount(terms, x.weight, policy.mult) \in Nat /\ TermsCap(terms, policy.mult) \in Nat
    BY <1>1, <1>2, <1>4, AmountWithinCap
  <1>6. Amount(terms, x.weight, policy.mult) <= x.cap
    BY <1>2, <1>3, <1>5
  <1> QED
    BY <1>6 DEF terms

\* The price committed at the acceptance is within the cap of the item.
LEMMA handleAcceptanceKeeps ==
    ASSUME PricingInv, NEW i \in PricedItems, NEW doubt, handleAcceptance(i, doubt)
    PROVE  PricingInv'
  <1> DEFINE x == priced[i]
  <1>1. x \in ItemRows /\ x.state = "sent" /\ x.base = 0 /\ ItemFits(x)
        /\ (~Snapshot => x.rate \in DOMAIN rates \cup {Null})
        /\ (x.cap # Null => Snapshot /\ WithinCap(policy, x) /\ x.type = x.selected)
    BY DEF PricingInv, ItemFits, WithinCap, handleAcceptance
  <1>2. UNCHANGED <<rates, wtype, linked, live, instant, policy, consumed>>
    BY DEF handleAcceptance
  <1>3. instant \in Nat
    BY DEF PricingInv, PriceTables
  <1>4. CASE Priceable(x.type)
    <2>1. PICK list \in PriceList(x.type) : priced' = [priced EXCEPT ![i] = AtAcceptance(@, list, doubt)]
      BY <1>4 DEF handleAcceptance
    <2>2. x.type \in Types
      BY <1>1, <1>4 DEF Priceable, ItemRows
    <2>3. /\ list.terms \in PriceTerms /\ list.mult \in Nat
          /\ Snapshot => x.type \in DOMAIN policy.types /\ list.terms = policy.types[x.type] /\ list.mult = policy.mult
          /\ ~Snapshot => list.terms.rate \in DOMAIN rates \cup {Null}
      BY <1>4, <2>2, PriceListFits
    <2> DEFINE amount == Amount(list.terms, x.weight, list.mult)
               base == IF list.money THEN amount ELSE 0
               fits == WeightFits(x, list.terms)
               d == decideReward(list.money, base, fits, doubt)
               y == [x EXCEPT !.state = d.status, !.base = base, !.paid = d.amount, !.at = instant, !.rate = list.terms.rate]
    <2>4. amount \in Nat
      BY <1>1, <2>3, AmountWithinCap DEF ItemRows
    <2>5. x.cap # Null /\ fits => amount <= x.cap
      <3> SUFFICES ASSUME x.cap # Null, fits PROVE amount <= x.cap
        OBVIOUS
      <3>1. Snapshot /\ WithinCap(policy, x) /\ x.type = x.selected /\ x.type \in DOMAIN policy.types
            /\ list.terms = policy.types[x.type] /\ list.mult = policy.mult
        BY <1>1, <2>3
      <3> HIDE DEF x
      <3> QED
        BY <1>1, <3>1, SignedAmountWithinCap
    <2>6. priced' = [priced EXCEPT ![i] = y]
      BY <2>1 DEF AtAcceptance
    <2> HIDE DEF amount, fits
    <2>7. base \in Nat /\ base \div 2 \in Nat
      BY <2>4
    <2>8. d.status \in {"REJECTED", "REVIEW", "ACCEPTED"} /\ (d.status # "REJECTED" => fits)
      BY DEF decideReward
    <2>9. d.amount \in Nat
      <3> HIDE DEF base
      <3> QED
        BY <2>7 DEF decideReward
    <2>10. x.cap # Null /\ fits => base <= x.cap
      <3>1. x.cap # Null => x.cap \in Nat
        BY <1>1 DEF ItemRows
      <3> QED
        BY <2>5, <3>1
    <2>11. list.terms.rate \in Nat \cup {Null}
      BY <2>3 DEF PriceTerms
    <2> HIDE DEF base, d, x
    <2>12. y \in ItemRows /\ y.state = d.status /\ y.base = base /\ y.rate = list.terms.rate /\ y.cap = x.cap
           /\ y.selected = x.selected /\ y.weight = x.weight
      BY <1>1, <1>3, <2>7, <2>8, <2>9, <2>11 DEF ItemRows
    <2> HIDE DEF y
    <2>13. ItemFits(y)
      BY <1>1, <2>3, <2>8, <2>10, <2>12 DEF ItemFits, WithinCap
    <2> QED
      BY <1>2, <2>6, <2>12, <2>13, ItemPricedKeeps DEF x
  <1>5. CASE ~Priceable(x.type)
    <2> DEFINE y == [x EXCEPT !.state = "REVIEW", !.at = instant]
    <2>1. priced' = [priced EXCEPT ![i] = y]
      BY <1>5 DEF handleAcceptance
    <2> HIDE DEF x
    <2>2. y \in ItemRows /\ y.state = "REVIEW" /\ y.base = 0 /\ y.rate = x.rate /\ y.cap = x.cap
          /\ y.selected = x.selected /\ y.weight = x.weight
      BY <1>1, <1>3 DEF ItemRows
    <2>3. x.cap # Null => x.cap \in Nat
      BY <1>1 DEF ItemRows
    <2> HIDE DEF y
    <2>4. ItemFits(y)
      BY <1>1, <2>2, <2>3 DEF ItemFits, WithinCap
    <2> QED
      BY <1>2, <2>1, <2>2, <2>4, ItemPricedKeeps DEF x
  <1> QED
    BY <1>4, <1>5

\* The price paid at an approval is within the cap, unless the type was overruled.
LEMMA approveKeeps ==
    ASSUME PricingInv, NEW i \in PricedItems, NEW t \in Types, approve(i, t)
    PROVE  PricingInv'
  <1> DEFINE x == priced[i]
             z == [x EXCEPT !.type = t]
  <1>1. x \in ItemRows /\ x.state = "REVIEW" /\ ItemFits(x)
        /\ (~Snapshot => x.rate \in DOMAIN rates \cup {Null})
        /\ (x.cap # Null => Snapshot /\ WithinCap(policy, x))
    BY DEF PricingInv, ItemFits, approve
  <1>2. UNCHANGED <<rates, wtype, linked, live, instant, policy, consumed>> /\ Priceable(t)
    BY DEF approve
  <1>3. PICK list \in ReviewList(x, t) :
          /\ WeightFits(z, list.terms)
          /\ priced' = [priced EXCEPT ![i] = [z EXCEPT !.state = "APPROVED",
                           !.paid = IF list.money THEN Amount(list.terms, z.weight, list.mult) ELSE 0]]
    BY DEF approve
  <1>4. /\ list.terms \in PriceTerms /\ list.mult \in Nat
        /\ Snapshot => t \in DOMAIN policy.types /\ list.terms = policy.types[t] /\ list.mult = policy.mult
    BY <1>1, <1>2, ReviewListFits
  <1> DEFINE amount == Amount(list.terms, z.weight, list.mult)
             paid == IF list.money THEN amount ELSE 0
             y == [z EXCEPT !.state = "APPROVED", !.paid = paid]
  <1> HIDE DEF x
  <1>5. z \in ItemRows /\ z.cap = x.cap /\ z.selected = x.selected /\ z.weight = x.weight /\ z.type = t
        /\ z.base = x.base /\ z.rate = x.rate /\ z.state = "REVIEW"
    BY <1>1 DEF ItemRows
  <1> HIDE DEF z
  <1>6. amount \in Nat
    BY <1>4, <1>5, AmountWithinCap DEF ItemRows
  <1>7. x.cap # Null /\ x.selected \in {Null, t} => amount <= x.cap
    <2> SUFFICES ASSUME x.cap # Null, x.selected \in {Null, t} PROVE amount <= z.cap
      BY <1>5
    <2>1. Snapshot /\ WithinCap(policy, z)
      BY <1>1, <1>5 DEF WithinCap
    <2>2. t \in DOMAIN policy.types /\ list.terms = policy.types[t] /\ list.mult = policy.mult
      BY <1>4, <2>1
    <2> QED
      BY <1>3, <1>5, <2>1, <2>2, SignedAmountWithinCap
  <1> HIDE DEF amount
  <1>8. paid \in Nat /\ (x.cap # Null /\ x.selected \in {Null, t} => paid <= x.cap)
    <2>1. x.cap # Null => x.cap \in Nat
      BY <1>1 DEF ItemRows
    <2> QED
      BY <1>6, <1>7, <2>1
  <1>9. priced' = [priced EXCEPT ![i] = y]
    BY <1>3 DEF amount
  <1> HIDE DEF paid
  <1>10. y \in ItemRows /\ y.state = "APPROVED" /\ y.paid = paid /\ y.cap = x.cap /\ y.selected = x.selected
         /\ y.weight = x.weight /\ y.type = t /\ y.base = x.base /\ y.rate = x.rate
    BY <1>5, <1>8 DEF ItemRows
  <1> HIDE DEF y
  <1>11. ItemFits(y)
    BY <1>1, <1>8, <1>10 DEF ItemFits, WithinCap
  <1> QED
    BY <1>2, <1>9, <1>10, <1>11, ItemPricedKeeps DEF x

\* A new version of a rate touches no signed policy.
LEMMA createRateKeeps ==
    ASSUME PricingInv, NEW t \in Types, NEW scope \in {"campaign", "organization", "global"},
           NEW shape \in RateShapes, NEW unseen \in BOOLEAN, createRate(t, scope, shape, unseen)
    PROVE  PricingInv'
  <1> DEFINE expires(n) == /\ rates[n].type = t /\ rates[n].scope = scope /\ rates[n].active
                           /\ ~(unseen /\ rates[n].from = instant)
             closed == [n \in DOMAIN rates |->
                          IF expires(n) THEN [rates[n] EXCEPT !.active = FALSE, !.to = instant] ELSE rates[n]]
             fresh == Row(t, scope, shape, instant)
  <1>1. rates \in Seq(RateRows) /\ instant \in Nat
    BY DEF PricingInv, PriceTables
  <1>2. fresh \in RateRows
    BY <1>1, PricingConstants DEF Row, RateRows
  <1>3. closed \in Seq(RateRows)
    <2>1. \A n \in DOMAIN rates : rates[n] \in RateRows
      BY <1>1
    <2>2. \A r \in RateRows : [r EXCEPT !.active = FALSE, !.to = instant] \in RateRows
      BY <1>1 DEF RateRows
    <2>3. \A n \in DOMAIN rates : closed[n] \in RateRows
      BY <2>1, <2>2
    <2>4. DOMAIN rates = 1..Len(rates) /\ Len(rates) \in Nat /\ DOMAIN closed = DOMAIN rates
          /\ closed = [n \in DOMAIN rates |-> closed[n]]
      BY <1>1
    <2> HIDE DEF closed
    <2>5. closed \in [1..Len(rates) -> RateRows]
      BY <2>3, <2>4
    <2> QED
      BY <2>4, <2>5, SeqDef
  <1>4. rates' = Append(closed, fresh)
        /\ UNCHANGED <<wtype, linked, live, instant, policy, consumed, priced>>
    BY DEF createRate
  <1>5. DOMAIN closed = DOMAIN rates
    OBVIOUS
  <1> HIDE DEF closed, fresh
  <1>6. rates' \in Seq(RateRows) /\ DOMAIN rates \subseteq DOMAIN rates'
    BY <1>2, <1>3, <1>4, <1>5
  <1>7. PriceTables'
    BY <1>4, <1>6 DEF PricingInv, PriceTables
  <1> QED
    BY <1>4, <1>6, <1>7, PricesUntouched

\* Nor does switching a rate off or on.
LEMMA toggleRateKeeps ==
    ASSUME PricingInv, NEW n \in DOMAIN rates, NEW active \in BOOLEAN, toggleRate(n, active)
    PROVE  PricingInv'
  <1> DEFINE row == [rates[n] EXCEPT !.active = active, !.to = IF active THEN Null ELSE instant]
  <1>1. rates \in Seq(RateRows) /\ instant \in Nat /\ rates[n] \in RateRows
    BY DEF PricingInv, PriceTables
  <1>2. row \in RateRows
    BY <1>1 DEF RateRows
  <1>3. rates' = [rates EXCEPT ![n] = row] /\ UNCHANGED <<wtype, linked, live, instant, policy, consumed, priced>>
    BY DEF toggleRate
  <1> HIDE DEF row
  <1>4. rates' \in Seq(RateRows) /\ DOMAIN rates \subseteq DOMAIN rates'
    BY <1>1, <1>2, <1>3
  <1>5. PriceTables'
    BY <1>3, <1>4 DEF PricingInv, PriceTables
  <1> QED
    BY <1>3, <1>4, <1>5, PricesUntouched

\* Nor do edits of types, links and programs, nor time.
LEMMA TablesStepKeeps ==
    ASSUME PricingInv,
           \/ \E t \in Types, shape \in TypeShapes : updateWasteType(t, shape)
           \/ \E S \in SUBSET Types : linkTypes(S)
           \/ \E next \in Programs : changeProgram(next)
           \/ tickPricing
    PROVE  PricingInv'
  <1>1. UNCHANGED <<rates, policy, consumed, priced>>
    BY DEF updateWasteType, linkTypes, changeProgram, tickPricing
  <1>2. PriceTables
    BY DEF PricingInv
  <1>3. ASSUME NEW t \in Types, NEW shape \in TypeShapes, updateWasteType(t, shape) PROVE PriceTables'
    BY <1>2, <1>3 DEF updateWasteType, PriceTables
  <1>4. ASSUME NEW S \in SUBSET Types, linkTypes(S) PROVE PriceTables'
    BY <1>2, <1>4 DEF linkTypes, PriceTables
  <1>5. ASSUME NEW next \in Programs, changeProgram(next) PROVE PriceTables'
    <2>1. next.mult \in Nat
      <3>1. \A m \in Mults : m \in Nat
        BY PricingConstants
      <3> QED
        BY <3>1 DEF Programs, BPS
    <2> QED
      BY <1>2, <1>5, <2>1 DEF changeProgram, PriceTables
  <1>6. ASSUME tickPricing PROVE PriceTables'
    <2>1. instant \in Nat /\ instant' = instant + 1 /\ UNCHANGED <<rates, wtype, linked, live>>
      BY <1>2, <1>6 DEF tickPricing, PriceTables
    <2>2. instant' \in Nat
      BY <2>1
    <2> QED
      BY <1>2, <2>1, <2>2 DEF PriceTables
  <1>7. PriceTables'
    BY <1>3, <1>4, <1>5, <1>6, Zenon
  <1> QED
    BY <1>1, <1>7, PricesUntouched

\* Every step of the pricing keeps the invariant.
LEMMA PricingKeeps == PricingInv /\ [PricingNext]_pricingVars => PricingInv'
  <1> SUFFICES ASSUME PricingInv, [PricingNext]_pricingVars PROVE PricingInv'
    OBVIOUS
  <1>1. ASSUME NEW c \in SessionCaps \cup {Null}, admit(c) \/ ensureSessionPolicy(c) PROVE PricingInv'
    <2>1. ~Snapshot
      BY <1>1 DEF admit, ensureSessionPolicy, Snapshot
    <2>2. PICK choice \in Resolutions : policy' = buildSessionPolicy(choice, c)
      BY <1>1 DEF admit, ensureSessionPolicy
    <2>3. UNCHANGED <<rates, wtype, linked, live, instant, consumed, priced>>
      BY <1>1 DEF admit, ensureSessionPolicy
    <2> QED
      BY <2>1, <2>2, <2>3, AdmissionKeeps
  <1>2. ASSUME NEW i \in PricedItems, NEW t \in Types \cup {Null}, NEW w \in ItemWeights,
               machineAccepts(i, t, w) \/ machineAcceptsV1(i, t, w)
        PROVE  PricingInv'
    BY <1>2, machineAcceptsKeeps, machineAcceptsV1Keeps
  <1>3. ASSUME NEW i \in PricedItems, NEW doubt \in Doubts, handleAcceptance(i, doubt) PROVE PricingInv'
    BY <1>3, handleAcceptanceKeeps
  <1>4. ASSUME NEW i \in PricedItems, NEW t \in Types, approve(i, t) PROVE PricingInv'
    BY <1>4, approveKeeps
  <1>5. ASSUME NEW t \in Types, NEW n \in DOMAIN Scopes, NEW shape \in RateShapes, NEW unseen \in BOOLEAN,
               createRate(t, Scopes[n], shape, unseen)
        PROVE  PricingInv'
    <2>1. Scopes[n] \in {"campaign", "organization", "global"}
      BY DEF Scopes
    <2> QED
      BY <1>5, <2>1, createRateKeeps
  <1>6. ASSUME NEW n \in DOMAIN rates, NEW a \in BOOLEAN, toggleRate(n, a) PROVE PricingInv'
    BY <1>6, toggleRateKeeps
  <1>7. CASE UNCHANGED pricingVars
    <2>1. UNCHANGED <<rates, wtype, linked, live, instant, policy, consumed, priced>>
      BY <1>7 DEF pricingVars
    <2>2. PriceTables'
      BY <2>1 DEF PricingInv, PriceTables
    <2> QED
      BY <2>1, <2>2, PricesUntouched
  <1> QED
    BY <1>1, <1>2, <1>3, <1>4, <1>5, <1>6, <1>7, TablesStepKeeps DEF PricingNext

\* Summed over the items, the prices are within the count.
LEMMA PricesBounded == PricingInv => PaidWithinCeiling
  <1> SUFFICES ASSUME PricingInv, Snapshot PROVE PaidWithinCeiling
    BY DEF PaidWithinCeiling
  <1> DEFINE drawn == [i \in PricedItems |-> Drawn(i)]
             caps == [i \in PricedItems |-> CapOf(priced[i])]
  <1>1. ASSUME NEW i \in PricedItems
        PROVE  Drawn(i) \in Int /\ CapOf(priced[i]) \in Int /\ Drawn(i) <= CapOf(priced[i])
    <2> DEFINE x == priced[i]
    <2>1. x \in ItemRows /\ (x.cap # Null => WithinCap(policy, x))
      BY DEF PricingInv, ItemFits
    <2>2. x.base \in Nat /\ x.paid \in Nat /\ x.cap \in Nat \cup {Null}
          /\ x.state \in {"none", "sent", "ACCEPTED", "REVIEW", "REJECTED", "APPROVED"}
      BY <2>1 DEF ItemRows
    <2>3. CapOf(x) \in Int /\ CapOf(x) >= 0
      BY <2>2 DEF CapOf
    <2>4. CASE x.cap = Null \/ x.state \in {"none", "sent", "REJECTED"}
      BY <2>3, <2>4 DEF Drawn
    <2>5. CASE ~(x.cap = Null \/ x.state \in {"none", "sent", "REJECTED"})
      <3>1. CapOf(x) = x.cap /\ x.base <= x.cap
        BY <2>1, <2>2, <2>5 DEF CapOf, WithinCap
      <3>2. x.state = "APPROVED" /\ x.selected \in {Null, x.type} => x.paid <= x.cap
        BY <2>1, <2>5 DEF WithinCap
      <3> QED
        BY <2>2, <2>3, <2>5, <3>1, <3>2 DEF Drawn
    <2> QED
      BY <2>4, <2>5
  <1>2. consumed = SumFunctionOnSet(caps, PricedItems)
    BY DEF PricingInv
  <1>3. \A i \in PricedItems : drawn[i] \in Int /\ caps[i] \in Int /\ drawn[i] <= caps[i]
    BY <1>1
  <1>4. SumFunction(drawn) = SumFunctionOnSet(drawn, PricedItems)
    BY DEF SumFunction
  <1> HIDE DEF drawn, caps
  <1>5. SumFunctionOnSet(drawn, PricedItems) <= SumFunctionOnSet(caps, PricedItems)
    BY <1>3, SumMonotone, PricingConstants
  <1>6. SumFunction(drawn) <= consumed
    BY <1>2, <1>4, <1>5
  <1>7. policy.ceiling # Null => consumed <= policy.ceiling
    BY DEF PricingInv
  <1> QED
    BY <1>6, <1>7 DEF PaidWithinCeiling, drawn

-----------------------------------------------------------------------------
(* Regions.  What a walk has seen is closed under parents up to its cursor, *)
(* so the region that moves is put under a set it is not in: a forest stays *)
(* one.  Requests that read before another move committed promise nothing.  *)

\* A row of the tree exists or once did.
Born == {r \in Regions : region[r] # "unborn"}
RegionNames == Regions \cup {NoRegion}

CuratorStates == [at : {"idle", "walk", "write", "delete"}, region : RegionNames, to : RegionNames,
                  cursor : RegionNames, seen : SUBSET Regions, stale : BOOLEAN,
                  joined : SUBSET (Regions \cup Sites)]

RegionTypes ==
    /\ region \in [Regions -> {"unborn", "there", "deleted"}]
    /\ parent \in [Regions -> RegionNames]
    /\ siteOf \in [Sites -> RegionNames]
    /\ curator \in [Curators -> CuratorStates]
    /\ overlapped \in BOOLEAN

\* Only a region that exists has a parent, and one that exists.
ParentsStand == \A x \in Regions : parent[x] # NoRegion => parent[x] \in There /\ x \in There

\* What a walk has established when no other move committed under it: who it
\* has seen is closed under parents up to its cursor, contains the new parent
\* and not the region that moves.
WalkShape(q) ==
    /\ q.at \in {"walk", "write", "delete"} => q.region \in Born
    /\ q.at = "walk" =>
         /\ q.to \in Born /\ q.cursor \in Born \cup {NoRegion} /\ q.seen \subseteq Born
         /\ q.stale \/ /\ q.to \in q.seen \cup {q.cursor} /\ q.region \notin q.seen
                       /\ \A x \in q.seen : parent[x] \in q.seen \cup {q.cursor, NoRegion}
    /\ q.at = "write" =>
         /\ q.to \in Born \cup {NoRegion} /\ q.seen \subseteq Born
         /\ \/ q.stale \/ q.to = NoRegion \/ q.to \notin There
            \/ q.region \notin There \/ parent[q.region] = q.to
            \/ /\ q.to \in q.seen /\ q.region \notin q.seen
               /\ \A x \in q.seen : parent[x] \in q.seen \cup {NoRegion}

Counted(q) == q.at = "delete" => Using(q.region) \subseteq q.joined

RegionInv ==
    /\ RegionTypes /\ ParentsStand
    /\ \A c \in Curators : WalkShape(curator[c]) /\ Counted(curator[c])
    /\ overlapped \/ Acyclic

\* A set closed under parents has no root in it, so looking at the regions with a
\* parent is looking at all of them.
LEMMA AcyclicOverAll ==
    ASSUME Acyclic, NEW S \in SUBSET Regions, S # {}, \A r \in S : parent[r] \in S
    PROVE  FALSE
  <1>1. S \in SUBSET {r \in Regions : parent[r] # NoRegion}
    BY RegionAssumption
  <1> QED
    BY <1>1 DEF Acyclic

\* A forest stays one when a region is put under a closed set it is not in.
LEMMA MoveKeepsForest ==
    ASSUME RegionTypes, Acyclic, NEW r \in Regions, NEW p \in Regions, NEW C \in SUBSET Regions,
           p \in C, r \notin C, \A x \in C : parent[x] \in C \cup {NoRegion},
           parent' = [parent EXCEPT ![r] = p]
    PROVE  Acyclic'
  <1> SUFFICES ASSUME NEW S \in SUBSET Regions, S # {}, \A x \in S : parent'[x] \in S
               PROVE  FALSE
    BY DEF Acyclic
  <1>1. \A x \in Regions \ {r} : parent'[x] = parent[x]
    BY DEF RegionTypes
  <1>2. CASE r \in S
    <2>1. p \in S
      BY <1>2 DEF RegionTypes
    <2>2. \A x \in S \cap C : parent[x] \in S \cap C
      BY <1>1, RegionAssumption
    <2>3. S \cap C # {} /\ S \cap C \in SUBSET Regions
      BY <2>1
    <2> QED
      BY <2>2, <2>3, AcyclicOverAll
  <1>3. CASE r \notin S
    BY <1>1, <1>3, AcyclicOverAll
  <1> QED
    BY <1>2, <1>3

\* Taking parents away keeps a forest one.
LEMMA ClearingKeepsForest ==
    ASSUME Acyclic, \A x \in Regions : parent'[x] = parent[x] \/ parent'[x] = NoRegion
    PROVE  Acyclic'
  <1> SUFFICES ASSUME NEW S \in SUBSET Regions, S # {}, \A x \in S : parent'[x] \in S
               PROVE  FALSE
    BY DEF Acyclic
  <1>1. \A x \in S : parent[x] \in S
    BY RegionAssumption
  <1> QED
    BY <1>1, AcyclicOverAll

\* No region exists at first and nobody edits one.
LEMMA RegionInitially == RegionInit => RegionInv
  <1> SUFFICES ASSUME RegionInit PROVE RegionInv
    OBVIOUS
  <1>1. RegionTypes
    BY DEF RegionInit, RegionTypes, CuratorStates, NoRequest, RegionNames
  <1>2. ParentsStand
    BY DEF RegionInit, ParentsStand
  <1>3. \A c \in Curators : WalkShape(curator[c]) /\ Counted(curator[c])
    BY DEF RegionInit, WalkShape, Counted, NoRequest
  <1>4. Acyclic
    BY RegionAssumption DEF RegionInit, Acyclic
  <1> QED
    BY <1>1, <1>2, <1>3, <1>4 DEF RegionInv

\* A new region is a leaf: POST /api/regions.
LEMMA CreateRegionKeeps ==
    ASSUME RegionInv, NEW r \in Regions, NEW p \in Regions \cup {NoRegion}, CreateRegion(r, p)
    PROVE  RegionInv'
  <1>1. /\ r \notin Born /\ r \notin There /\ p \in There \cup {NoRegion} /\ p # r
        /\ There' = There \cup {r} /\ Born' = Born \cup {r}
        /\ \A x \in Regions : x # r => parent'[x] = parent[x]
        /\ parent'[r] = p /\ parent[r] = NoRegion
    BY RegionAssumption DEF CreateRegion, RegionInv, RegionTypes, ParentsStand, There, Born
  <1>2. RegionTypes'
    <2>1. curator' \in [Curators -> CuratorStates]
      BY DEF CreateRegion, Joins, RegionInv, RegionTypes, CuratorStates
    <2> QED
      BY <2>1, <1>1 DEF CreateRegion, RegionInv, RegionTypes, RegionNames, There
  <1>3. ParentsStand'
    BY <1>1 DEF RegionInv, ParentsStand
  <1>4. ASSUME NEW c \in Curators PROVE WalkShape(curator[c])' /\ Counted(curator[c])'
    <2>1. WalkShape(curator[c]) /\ Counted(curator[c]) /\ curator[c] \in CuratorStates
      BY DEF RegionInv, RegionTypes
    <2>2. \/ curator'[c] = curator[c] /\ (curator[c].at = "delete" => curator[c].region # p)
          \/ curator[c].at = "delete" /\ curator'[c] = [curator[c] EXCEPT !.joined = @ \cup {r}]
      BY <2>1, RegionAssumption DEF CreateRegion, Joins, RegionInv, RegionTypes, WalkShape, Born
    <2> DEFINE q == curator[c]
               u == curator'[c]
    <2>a. /\ u.at = q.at /\ u.region = q.region /\ u.to = q.to /\ u.cursor = q.cursor
          /\ u.seen = q.seen /\ u.stale = q.stale
      BY <2>1, <2>2 DEF CuratorStates
    <2>b. /\ \A x \in Born : parent'[x] = parent[x] /\ (x \in There' <=> x \in There)
          /\ Born \subseteq Born' /\ NoRegion \notin Born
      BY <1>1, RegionAssumption DEF Born
    <2>3. WalkShape(curator[c])'
      <3>1. u.at \in {"walk", "write", "delete"} => u.region \in Born'
        BY <2>1, <2>a, <2>b DEF WalkShape
      <3>2. u.at = "walk" => WalkShape(curator[c])'
        BY <2>1, <2>a, <2>b DEF WalkShape
      <3>3. u.at = "write" => WalkShape(curator[c])'
        <4> SUFFICES ASSUME u.at = "write" PROVE WalkShape(curator[c])'
          OBVIOUS
        <4>1. q.region \in Born /\ q.to \in Born \cup {NoRegion} /\ q.seen \subseteq Born
          BY <2>1, <2>a DEF WalkShape
        <4>2. q.to \notin There => q.to = NoRegion \/ q.to \notin There'
          BY <4>1, <2>b
        <4> QED
          BY <2>1, <2>a, <2>b, <4>1, <4>2 DEF WalkShape
      <3> QED
        BY <3>1, <3>2, <3>3 DEF WalkShape
    <2>4. \A x \in Regions : Using(x)' = Using(x) \cup (IF x = p THEN {r} ELSE {})
      BY <1>1, RegionAssumption DEF Using, CreateRegion
    <2>5. Counted(curator[c])'
      BY <1>1, <2>1, <2>2, <2>4 DEF Counted, CuratorStates, WalkShape, Born
    <2> QED
      BY <2>3, <2>5
  <1>5. overlapped' \/ Acyclic'
    <2>1. overlapped' = overlapped
      BY DEF CreateRegion
    <2>2. ASSUME Acyclic PROVE Acyclic'
      <3> SUFFICES ASSUME NEW S \in SUBSET Regions, S # {}, \A x \in S : parent'[x] \in S
                   PROVE  FALSE
        BY DEF Acyclic
      <3>1. S \ {r} # {}
        BY <1>1, RegionAssumption
      <3>2. \A x \in S \ {r} : parent[x] \in S \ {r}
        BY <1>1, RegionAssumption DEF RegionInv, ParentsStand
      <3> QED
        BY <2>2, <3>1, <3>2, AcyclicOverAll
    <2> QED
      BY <2>1, <2>2 DEF RegionInv
  <1> QED
    BY <1>2, <1>3, <1>4, <1>5 DEF RegionInv

\* A step that only moves one request on leaves the other requests as they are.
LEMMA CuratorStepKeeps ==
    ASSUME RegionInv, NEW c \in Curators, NEW q \in CuratorStates,
           curator' = [curator EXCEPT ![c] = q], UNCHANGED <<region, parent, siteOf, overlapped>>,
           WalkShape(q), Counted(q)
    PROVE  RegionInv'
  <1>1. RegionTypes'
    BY DEF RegionInv, RegionTypes
  <1>2. There' = There /\ Born' = Born /\ \A x \in Regions : Using(x)' = Using(x)
    BY DEF There, Born, Using
  <1>3. ParentsStand'
    BY <1>2 DEF RegionInv, ParentsStand
  <1>4. overlapped' \/ Acyclic'
    BY DEF RegionInv, Acyclic
  <1>5. ASSUME NEW d \in Curators PROVE WalkShape(curator[d])' /\ Counted(curator[d])'
    <2>1. WalkShape(curator'[d]) /\ Counted(curator'[d])
      BY DEF RegionInv, RegionTypes
    <2>2. WalkShape(curator[d])'
      BY <1>2, <2>1 DEF WalkShape
    <2>3. Counted(curator[d])'
      BY <2>1 DEF Counted, Using
    <2> QED
      BY <2>2, <2>3
  <1> QED
    BY <1>1, <1>3, <1>4, <1>5 DEF RegionInv

\* What PATCH /api/regions/[id] reads first.
LEMMA StartMoveKeeps ==
    ASSUME RegionInv, NEW c \in Curators, NEW r \in Regions, NEW p \in Regions \cup {NoRegion},
           StartMove(c, r, p)
    PROVE  RegionInv'
  <1>1. CASE /\ p \in There \ {r, parent[r]}
             /\ curator' = [curator EXCEPT ![c] =
                  [NoRequest EXCEPT !.at = "walk", !.region = r, !.to = p, !.cursor = p]]
    <2> DEFINE q == [NoRequest EXCEPT !.at = "walk", !.region = r, !.to = p, !.cursor = p]
    <2>1. /\ q \in CuratorStates /\ q.at = "walk" /\ q.region = r /\ q.to = p /\ q.cursor = p
          /\ q.seen = {} /\ q.stale = FALSE
      BY DEF NoRequest, CuratorStates, RegionNames
    <2>2. WalkShape(q) /\ Counted(q)
      BY <1>1, <2>1 DEF WalkShape, Counted, StartMove, There, Born
    <2> QED
      BY <1>1, <2>1, <2>2, CuratorStepKeeps DEF StartMove
  <1>2. CASE /\ p \in {NoRegion, parent[r]}
             /\ curator' = [curator EXCEPT ![c] = [NoRequest EXCEPT !.at = "write", !.region = r, !.to = p]]
    <2> DEFINE q == [NoRequest EXCEPT !.at = "write", !.region = r, !.to = p]
    <2>1. /\ q \in CuratorStates /\ q.at = "write" /\ q.region = r /\ q.to = p
          /\ q.seen = {}
      BY DEF NoRequest, CuratorStates, RegionNames
    <2>2. p \in Born \cup {NoRegion} /\ r \in Born
      BY <1>2 DEF RegionInv, ParentsStand, There, Born, StartMove
    <2>3. WalkShape(q) /\ Counted(q)
      BY <1>2, <2>1, <2>2 DEF WalkShape, Counted
    <2> QED
      BY <1>2, <2>1, <2>3, CuratorStepKeeps DEF StartMove
  <1> QED
    BY <1>1, <1>2 DEF StartMove

\* One turn of its loop extends the closed set by the cursor.
LEMMA WalkStepKeeps ==
    ASSUME RegionInv, NEW c \in Curators, WalkStep(c)
    PROVE  RegionInv'
  <1> DEFINE q == curator[c]
  <1>1. q \in CuratorStates /\ q.at = "walk" /\ WalkShape(q)
    BY DEF WalkStep, RegionInv, RegionTypes
  <1>2. CASE q.cursor = q.region
    <2>1. curator' = [curator EXCEPT ![c] = NoRequest]
      BY <1>2 DEF WalkStep
    <2>2. NoRequest \in CuratorStates /\ WalkShape(NoRequest) /\ Counted(NoRequest)
      BY DEF NoRequest, CuratorStates, RegionNames, WalkShape, Counted
    <2> QED
      BY <2>1, <2>2, CuratorStepKeeps DEF WalkStep
  <1>3. CASE q.cursor # q.region /\ (q.cursor = NoRegion \/ q.cursor \in q.seen)
    <2> DEFINE u == [q EXCEPT !.at = "write"]
    <2>1. curator' = [curator EXCEPT ![c] = u]
      BY <1>3 DEF WalkStep
    <2>2. /\ u \in CuratorStates /\ u.at = "write" /\ u.region = q.region /\ u.to = q.to
          /\ u.seen = q.seen /\ u.stale = q.stale
      BY <1>1 DEF CuratorStates
    <2>3. WalkShape(u)
      BY <1>1, <1>3, <2>2, RegionAssumption DEF WalkShape, Born
    <2>4. Counted(u)
      BY <2>2 DEF Counted
    <2> QED
      BY <2>1, <2>2, <2>3, <2>4, CuratorStepKeeps DEF WalkStep
  <1>4. CASE q.cursor # q.region /\ q.cursor # NoRegion /\ q.cursor \notin q.seen
    <2> DEFINE next == IF q.cursor \in There THEN parent[q.cursor] ELSE NoRegion
               u == [q EXCEPT !.seen = @ \cup {q.cursor}, !.cursor = next]
    <2>1. curator' = [curator EXCEPT ![c] = u]
      BY <1>4 DEF WalkStep
    <2>2. q.cursor \in Born
      BY <1>1, <1>4 DEF WalkShape
    <2>3. next \in Born \cup {NoRegion} /\ parent[q.cursor] \in {next, NoRegion}
      BY <2>2 DEF RegionInv, ParentsStand, There, Born
    <2>4. /\ u \in CuratorStates /\ u.at = "walk" /\ u.region = q.region /\ u.to = q.to
          /\ u.seen = q.seen \cup {q.cursor} /\ u.stale = q.stale /\ u.cursor = next
      BY <1>1, <2>2, <2>3 DEF CuratorStates, RegionNames, Born
    <2> HIDE DEF u, next
    <2>5. WalkShape(u)
      BY <1>1, <1>4, <2>2, <2>3, <2>4 DEF WalkShape
    <2>6. Counted(u)
      BY <2>4 DEF Counted
    <2> QED
      BY <2>1, <2>4, <2>5, <2>6, CuratorStepKeeps DEF WalkStep
  <1> QED
    BY <1>2, <1>3, <1>4

\* DELETE /api/regions/[id] counts nobody.
LEMMA CountUsageKeeps ==
    ASSUME RegionInv, NEW c \in Curators, NEW r \in Regions, CountUsage(c, r)
    PROVE  RegionInv'
  <1> DEFINE q == [NoRequest EXCEPT !.at = "delete", !.region = r]
  <1>1. q \in CuratorStates /\ q.at = "delete" /\ q.region = r /\ q.joined = {}
    BY DEF NoRequest, CuratorStates, RegionNames
  <1>2. WalkShape(q) /\ Counted(q)
    BY <1>1 DEF WalkShape, Counted, CountUsage, Born
  <1> QED
    BY <1>1, <1>2, CuratorStepKeeps DEF CountUsage

\* The write of a move makes the moves in progress stale, or was stale itself.
LEMMA WriteMoveKeeps ==
    ASSUME RegionInv, NEW c \in Curators, WriteMove(c)
    PROVE  RegionInv'
  <1> DEFINE q == curator[c]
  <1>1. q \in CuratorStates /\ q.at = "write" /\ WalkShape(q)
    BY DEF WriteMove, RegionInv, RegionTypes
  <1>2. NoRequest \in CuratorStates /\ WalkShape(NoRequest) /\ Counted(NoRequest)
    BY DEF NoRequest, CuratorStates, RegionNames, WalkShape, Counted
  <1>3. CASE ~(q.region \in There /\ q.to \in There \cup {NoRegion})
    BY <1>2, <1>3, CuratorStepKeeps DEF WriteMove
  <1>4. CASE q.region \in There /\ q.to \in There \cup {NoRegion}
    <2>1. /\ parent' = [parent EXCEPT ![q.region] = q.to]
          /\ overlapped' = (overlapped \/ q.stale)
          /\ curator' = [d \in Curators |->
               IF d = c THEN NoRequest
               ELSE IF curator[d].at \in Moving THEN [curator[d] EXCEPT !.stale = TRUE]
               ELSE IF curator[d].at = "delete" /\ curator[d].region = q.to
               THEN [curator[d] EXCEPT !.joined = @ \cup {q.region}] ELSE curator[d]]
          /\ UNCHANGED <<region, siteOf>>
      BY <1>4 DEF WriteMove
    <2>2. /\ q.region \in Regions /\ q.to \in RegionNames /\ There' = There /\ Born' = Born
          /\ parent'[q.region] = q.to
          /\ \A x \in Regions : x # q.region => parent'[x] = parent[x]
      BY <1>4, <2>1 DEF There, Born, RegionNames, RegionInv, RegionTypes
    <2>3. RegionTypes'
      <3>1. curator' \in [Curators -> CuratorStates]
        <4>1. ASSUME NEW d \in Curators PROVE curator'[d] \in CuratorStates
          <5>1. curator[d] \in CuratorStates
            BY DEF RegionInv, RegionTypes
          <5>2. [curator[d] EXCEPT !.stale = TRUE] \in CuratorStates
            BY <5>1 DEF CuratorStates
          <5>3. [curator[d] EXCEPT !.joined = @ \cup {q.region}] \in CuratorStates
            BY <2>2, <5>1 DEF CuratorStates
          <5> QED
            BY <1>2, <2>1, <5>1, <5>2, <5>3
        <4> QED
          BY <2>1, <4>1
      <3> QED
        BY <1>1, <2>1, <2>2, <3>1 DEF RegionInv, RegionTypes, CuratorStates
    <2>4. ParentsStand'
      BY <1>4, <2>2 DEF RegionInv, ParentsStand
    <2>5. ASSUME NEW d \in Curators PROVE WalkShape(curator[d])' /\ Counted(curator[d])'
      <3>1. WalkShape(curator[d]) /\ Counted(curator[d]) /\ curator[d] \in CuratorStates
        BY DEF RegionInv, RegionTypes
      <3>2. CASE curator'[d] = NoRequest
        BY <3>2 DEF NoRequest, WalkShape, Counted
      <3>3. CASE curator[d].at \in Moving /\ curator'[d] = [curator[d] EXCEPT !.stale = TRUE]
        <4>1. /\ curator'[d].at = curator[d].at /\ curator'[d].region = curator[d].region
              /\ curator'[d].to = curator[d].to /\ curator'[d].cursor = curator[d].cursor
              /\ curator'[d].seen = curator[d].seen /\ curator'[d].stale = TRUE
              /\ curator[d].at \in {"walk", "write"}
          BY <3>1, <3>3 DEF CuratorStates, Moving
        <4>2. WalkShape(curator[d])'
          BY <2>2, <3>1, <4>1 DEF WalkShape
        <4>3. Counted(curator[d])'
          BY <4>1 DEF Counted
        <4> QED
          BY <4>2, <4>3
      <3>4. CASE /\ curator[d].at \notin Moving /\ curator'[d] = curator[d]
                 /\ curator[d].at = "delete" => curator[d].region # q.to
        <4>1. WalkShape(curator[d])'
          BY <2>2, <3>1, <3>4 DEF WalkShape, Moving
        <4>2. curator[d].at = "delete" => Using(curator[d].region)' \subseteq Using(curator[d].region)
          <5> SUFFICES ASSUME curator[d].at = "delete", NEW y \in Using(curator[d].region)'
                       PROVE  y \in Using(curator[d].region)
            OBVIOUS
          <5>1. curator'[d].region = curator[d].region /\ curator[d].region # q.to
            BY <3>4
          <5> QED
            BY <2>1, <2>2, <5>1 DEF Using
        <4>3. Counted(curator[d])'
          BY <3>1, <3>4, <4>2 DEF Counted, Using
        <4> QED
          BY <4>1, <4>3
      <3>5. CASE /\ curator[d].at = "delete" /\ curator[d].region = q.to
                 /\ curator'[d] = [curator[d] EXCEPT !.joined = @ \cup {q.region}]
        <4>1. /\ curator'[d].at = "delete" /\ curator'[d].region = q.to
              /\ curator'[d].joined = curator[d].joined \cup {q.region}
          BY <3>1, <3>5 DEF CuratorStates
        <4>2. WalkShape(curator[d])'
          BY <2>2, <3>1, <3>5, <4>1 DEF WalkShape
        <4>3. Using(curator[d].region)' \subseteq Using(curator[d].region) \cup {q.region}
          <5> SUFFICES ASSUME NEW y \in Using(curator[d].region)'
                       PROVE  y \in Using(curator[d].region) \cup {q.region}
            OBVIOUS
          <5> QED
            BY <2>1, <2>2, <3>5, <4>1 DEF Using
        <4>4. Counted(curator[d])'
          BY <3>1, <3>5, <4>1, <4>3 DEF Counted, Using
        <4> QED
          BY <4>2, <4>4
      <3> QED
        BY <2>1, <3>2, <3>3, <3>4, <3>5
    <2>6. overlapped' \/ Acyclic'
      <3> SUFFICES ASSUME ~overlapped, ~q.stale PROVE Acyclic'
        BY <2>1
      <3>1. Acyclic
        BY DEF RegionInv
      <3>2. CASE q.to = NoRegion \/ parent[q.region] = q.to
        BY <2>2, <3>1, <3>2, ClearingKeepsForest
      <3>3. CASE q.to # NoRegion /\ parent[q.region] # q.to
        <4>1. /\ q.to \in q.seen /\ q.region \notin q.seen /\ q.to \in Regions
              /\ q.seen \in SUBSET Regions
              /\ \A x \in q.seen : parent[x] \in q.seen \cup {NoRegion}
          BY <1>1, <1>4, <3>3 DEF WalkShape, Born, There
        <4> QED
          BY <2>1, <2>2, <3>1, <4>1, MoveKeepsForest DEF RegionInv
      <3> QED
        BY <3>2, <3>3
    <2> QED
      BY <2>3, <2>4, <2>5, <2>6 DEF RegionInv
  <1> QED
    BY <1>3, <1>4

\* A deleted region is cleared from every row (ON DELETE SET NULL).
LEMMA DeleteRegionKeeps ==
    ASSUME RegionInv, NEW c \in Curators, DeleteRegion(c)
    PROVE  RegionInv'
  <1> DEFINE r == curator[c].region
  <1>1. NoRequest \in CuratorStates /\ WalkShape(NoRequest) /\ Counted(NoRequest)
    BY DEF NoRequest, CuratorStates, RegionNames, WalkShape, Counted
  <1>2. CASE r \notin There
    BY <1>1, <1>2, CuratorStepKeeps DEF DeleteRegion
  <1>3. CASE r \in There
    <2>1. /\ region' = [region EXCEPT ![r] = "deleted"]
          /\ parent' = [x \in Regions |-> IF x = r \/ parent[x] = r THEN NoRegion ELSE parent[x]]
          /\ siteOf' = [s \in Sites |-> IF siteOf[s] = r THEN NoRegion ELSE siteOf[s]]
          /\ curator' = [curator EXCEPT ![c] = NoRequest] /\ overlapped' = overlapped
      BY <1>3 DEF DeleteRegion
    <2>2. There' = There \ {r} /\ Born' = Born /\ r \in Regions
      BY <1>3, <2>1 DEF There, Born, RegionInv, RegionTypes
    <2>3. RegionTypes'
      BY <1>1, <2>1, <2>2 DEF RegionInv, RegionTypes, RegionNames
    <2>4. ParentsStand'
      BY <2>1, <2>2 DEF RegionInv, ParentsStand
    <2>5. ASSUME NEW d \in Curators PROVE WalkShape(curator[d])' /\ Counted(curator[d])'
      <3>1. WalkShape(curator'[d]) /\ Counted(curator'[d])
        BY <1>1, <2>1 DEF RegionInv, RegionTypes
      <3>2. WalkShape(curator[d])'
        <4>1. curator'[d].at \in {"walk", "write", "delete"} => curator'[d].region \in Born'
          BY <2>2, <3>1 DEF WalkShape
        <4>2. \A x \in Born : parent'[x] \in {parent[x], NoRegion}
          BY <2>1 DEF Born
        <4>3. curator'[d].at = "walk" => WalkShape(curator[d])'
          BY <2>2, <3>1, <4>2 DEF WalkShape
        <4>4. curator'[d].at = "write" => WalkShape(curator[d])'
          <5> SUFFICES ASSUME curator'[d].at = "write" PROVE WalkShape(curator[d])'
            OBVIOUS
          <5>1. curator'[d].region \in Born /\ curator'[d].to \in Born \cup {NoRegion} /\ NoRegion \notin Born
            BY <3>1, RegionAssumption DEF WalkShape, Born
          <5>2. \/ curator'[d].to \notin There' \/ curator'[d].region \notin There'
                \/ curator'[d].to = NoRegion
                \/ parent'[curator'[d].region] = parent[curator'[d].region]
                \/ parent[curator'[d].region] # curator'[d].to
            BY <2>1, <2>2, <5>1 DEF Born
          <5> QED
            BY <2>2, <3>1, <4>2, <5>1, <5>2 DEF WalkShape
        <4> QED
          BY <4>1, <4>3, <4>4 DEF WalkShape
      <3>3. Using(curator[d].region)' \subseteq Using(curator'[d].region) \/ curator'[d].at # "delete"
        BY <2>1, <3>1, RegionAssumption DEF Using, WalkShape, Born
      <3>4. Counted(curator[d])'
        BY <3>1, <3>3 DEF Counted, Using
      <3> QED
        BY <3>2, <3>4
    <2>6. overlapped' \/ Acyclic'
      BY <2>1, ClearingKeepsForest DEF RegionInv
    <2> QED
      BY <2>3, <2>4, <2>5, <2>6 DEF RegionInv
  <1> QED
    BY <1>2, <1>3

\* A site that joins a region is noted by the deletions that counted.
LEMMA PlaceSiteKeeps ==
    ASSUME RegionInv, NEW s \in Sites, NEW r \in Regions \cup {NoRegion}, PlaceSite(s, r)
    PROVE  RegionInv'
  <1>1. /\ r \in There \cup {NoRegion} /\ siteOf' = [siteOf EXCEPT ![s] = r]
        /\ UNCHANGED <<region, parent, overlapped>> /\ There' = There /\ Born' = Born
    BY DEF PlaceSite, There, Born
  <1>2. RegionTypes'
    <2>1. curator' \in [Curators -> CuratorStates]
      BY DEF PlaceSite, Joins, RegionInv, RegionTypes, CuratorStates
    <2> QED
      BY <1>1, <2>1 DEF RegionInv, RegionTypes, RegionNames, There
  <1>3. ParentsStand'
    BY <1>1 DEF RegionInv, ParentsStand
  <1>4. ASSUME NEW c \in Curators PROVE WalkShape(curator[c])' /\ Counted(curator[c])'
    <2> DEFINE q == curator[c]
               u == curator'[c]
    <2>1. WalkShape(q) /\ Counted(q) /\ q \in CuratorStates
      BY DEF RegionInv, RegionTypes
    <2>2. \/ u = q /\ (q.at = "delete" => q.region # r)
          \/ q.at = "delete" /\ q.region = r /\ u = [q EXCEPT !.joined = @ \cup {s}]
      BY <2>1, RegionAssumption DEF PlaceSite, Joins, WalkShape, Born
    <2>3. /\ u.at = q.at /\ u.region = q.region /\ u.to = q.to /\ u.cursor = q.cursor
          /\ u.seen = q.seen /\ u.stale = q.stale
      BY <2>1, <2>2 DEF CuratorStates
    <2>4. WalkShape(curator[c])'
      BY <1>1, <2>1, <2>3 DEF WalkShape
    <2>5. q.at = "delete" =>
            Using(curator[c].region)' \subseteq Using(q.region) \cup (IF q.region = r THEN {s} ELSE {})
      BY <1>1, <2>3 DEF Using, RegionInv, RegionTypes
    <2>6. q.at = "delete" => u.joined = q.joined \cup (IF q.region = r THEN {s} ELSE {})
      BY <2>1, <2>2 DEF CuratorStates
    <2>7. Counted(curator[c])'
      BY <2>1, <2>3, <2>5, <2>6 DEF Counted, Using
    <2> QED
      BY <2>4, <2>7
  <1>5. overlapped' \/ Acyclic'
    BY <1>1 DEF RegionInv, Acyclic
  <1> QED
    BY <1>2, <1>3, <1>4, <1>5 DEF RegionInv

\* Every step keeps the invariant of the regions.
LEMMA RegionStepKeeps ==
    ASSUME RegionInv, [RegionNext]_regionVars
    PROVE  RegionInv'
  <1>1. CASE UNCHANGED regionVars
    <2>1. UNCHANGED <<region, parent, siteOf, curator, overlapped>> /\ There' = There /\ Born' = Born
      BY <1>1 DEF regionVars, There, Born
    <2>2. RegionTypes' /\ ParentsStand' /\ (overlapped' \/ Acyclic')
      BY <2>1 DEF RegionInv, RegionTypes, ParentsStand, Acyclic
    <2>3. \A c \in Curators : WalkShape(curator[c])'
      BY <2>1 DEF RegionInv, WalkShape
    <2>4. \A c \in Curators : Counted(curator[c])'
      BY <2>1 DEF RegionInv, Counted, Using
    <2> QED
      BY <2>2, <2>3, <2>4 DEF RegionInv
  <1>2. CASE RegionNext
    BY <1>2, CreateRegionKeeps, StartMoveKeeps, WalkStepKeeps, WriteMoveKeeps, DeleteRegionKeeps,
       CountUsageKeeps, PlaceSiteKeeps DEF RegionNext
  <1> QED
    BY <1>1, <1>2

\* For any regions, sites and requests (PATCH and DELETE /api/regions/[id]):
\* moves that do not overlap keep a forest, and a deletion takes a region only
\* from who joined it after the count.
THEOREM RegionsStayAForest == RegionSpec => []RegionsHold
  <1>1. RegionInv => RegionsHold
    BY DEF RegionInv, RegionsHold, Counted
  <1> QED
    BY <1>1, RegionInitially, RegionStepKeeps, PTL DEF RegionSpec

-----------------------------------------------------------------------------
(* Campaigns.  Who names a campaign names one that stands, a page that      *)
(* deletes has met everybody who came to it since it looked, and a row that *)
(* is written under the guards keeps the terms of those who can still earn. *)

ProgramRows == [status : {"ACTIVE", "ENDED"}, money : BOOLEAN,
                kind : {"MACHINE_DEPOSIT", "TRASH_BAG", "EVENT"}, supports : BOOLEAN,
                budget : BOOLEAN, ceiling : BOOLEAN]

ManagerStates == [at : {"idle", "form", "end", "rates", "row"}, campaign : CampaignIds \cup {NoCampaign},
                  row : ProgramRows, joined : SUBSET Holders]

CampaignTypes ==
    /\ campaign \in [CampaignIds -> ProgramRows]
    /\ standing \in [CampaignIds -> {"unborn", "there", "deleted"}]
    /\ enrolled \subseteq Holders /\ campaignOf \in [Holders -> CampaignIds \cup {NoCampaign}]
    /\ sources \subseteq enrolled \cap (CampaignSessions \cup CampaignTrips) /\ paying \subseteq Holders
    /\ manager \in [Managers -> ManagerStates]

\* Who names a campaign names one that stands.
HoldersStand == \A x \in Holders : campaignOf[x] # NoCampaign => campaignOf[x] \in Standing

CampaignInv ==
    /\ CampaignTypes /\ HoldersStand
    /\ \A m \in Managers : manager[m].at # "idle" => manager[m].campaign \in CampaignIds
    /\ CampaignsHold

\* One field of a row, set to what the form offers, leaves a row.
LEMMA EditedIsARow ==
    ASSUME NEW row \in ProgramRows, NEW next \in Edited(row)
    PROVE  next \in ProgramRows
  <1>1. PICK f \in DOMAIN Fields : \E v \in Fields[f] : next = [row EXCEPT ![f] = v]
    BY DEF Edited
  <1>2. f \in {"status", "money", "kind", "supports", "budget", "ceiling"}
    BY <1>1 DEF Fields
  <1>3. CASE f = "status"
    BY <1>1, <1>3 DEF Fields, ProgramRows
  <1>4. CASE f = "money"
    BY <1>1, <1>4 DEF Fields, ProgramRows
  <1>5. CASE f = "kind"
    BY <1>1, <1>5, CampaignAssumption DEF Fields, ProgramRows
  <1>6. CASE f = "supports"
    BY <1>1, <1>6 DEF Fields, ProgramRows
  <1>7. CASE f = "budget"
    BY <1>1, <1>7 DEF Fields, ProgramRows
  <1>8. CASE f = "ceiling"
    BY <1>1, <1>8 DEF Fields, ProgramRows
  <1> QED
    BY <1>2, <1>3, <1>4, <1>5, <1>6, <1>7, <1>8

\* What the form sends is a row.
LEMMA SentIsARow ==
    ASSUME NEW row \in ProgramRows
    PROVE  Sent(row) \in ProgramRows
    BY DEF Sent, ProgramRows

\* No campaign exists at first.
LEMMA CampaignInitially == CampaignInit => CampaignInv
  <1> SUFFICES ASSUME CampaignInit PROVE CampaignInv
    OBVIOUS
  <1>1. EmptyForm \in ProgramRows
    BY DEF EmptyForm, ProgramRows
  <1>2. CampaignTypes
    BY <1>1 DEF CampaignInit, CampaignTypes, ManagerStates, NoForm
  <1>3. HoldersStand
    BY DEF CampaignInit, HoldersStand
  <1>4. CampaignsHold
    BY DEF CampaignInit, CampaignsHold, ProgramsConfigured, TermsKept, DeletionSpares, HeldBy, Standing, NoForm
  <1> QED
    BY <1>2, <1>3, <1>4 DEF CampaignInv, CampaignInit, NoForm

\* A page that moves on by itself.
LEMMA PageStepKeeps ==
    ASSUME CampaignInv, NEW m \in Managers, NEW q \in ManagerStates,
           manager' = [manager EXCEPT ![m] = q],
           UNCHANGED <<campaign, standing, enrolled, campaignOf, sources, paying>>,
           q.at # "idle" => q.campaign \in CampaignIds,
           q.at # "row", q.at = "rates" => HeldBy(CampaignSessions, q.campaign) = {}
    PROVE  CampaignInv'
  <1>1. CampaignTypes'
    BY DEF CampaignInv, CampaignTypes
  <1>2. HoldersStand'
    BY DEF CampaignInv, HoldersStand, Standing
  <1>3. \A n \in Managers : manager'[n].at # "idle" => manager'[n].campaign \in CampaignIds
    BY DEF CampaignInv, CampaignTypes
  <1>4. ProgramsConfigured' /\ TermsKept'
    BY DEF CampaignInv, CampaignsHold, ProgramsConfigured, TermsKept, Standing, HeldBy
  <1>5. DeletionSpares'
    <2>1. \A n \in Managers : manager'[n] = manager[n] \/ manager'[n] = q
      BY DEF CampaignInv, CampaignTypes
    <2> QED
      BY <2>1 DEF CampaignInv, CampaignsHold, DeletionSpares, HeldBy, Standing
  <1> QED
    BY <1>1, <1>2, <1>3, <1>4, <1>5 DEF CampaignInv, CampaignsHold

\* A page without a form is idle.
LEMMA NoFormIsAState == NoForm \in ManagerStates /\ NoForm.at = "idle" /\ NoForm.campaign = NoCampaign
    BY DEF NoForm, ManagerStates, EmptyForm, ProgramRows

\* A form is a copy of the row: CampaignManager.
LEMMA OpenFormKeeps ==
    ASSUME CampaignInv, NEW m \in Managers, NEW c \in CampaignIds, OpenForm(m, c)
    PROVE  CampaignInv'
  <1> DEFINE q == [NoForm EXCEPT !.at = "form", !.campaign = c, !.row = campaign[c]]
  <1>1. q \in ManagerStates /\ q.at = "form" /\ q.campaign = c
    BY NoFormIsAState DEF ManagerStates, CampaignInv, CampaignTypes
  <1> HIDE DEF q
  <1>2. manager' = [manager EXCEPT ![m] = q]
    BY DEF OpenForm, q
  <1> QED
    BY <1>1, <1>2, PageStepKeeps DEF OpenForm

\* Closing it forgets the copy.
LEMMA CloseFormKeeps ==
    ASSUME CampaignInv, NEW m \in Managers, CloseForm(m)
    PROVE  CampaignInv'
    BY NoFormIsAState, PageStepKeeps DEF CloseForm

\* DELETE /api/campaigns/[id] looks for sessions.
LEMMA CountSessionsKeeps ==
    ASSUME CampaignInv, NEW m \in Managers, NEW c \in CampaignIds, CountSessions(m, c)
    PROVE  CampaignInv'
  <1> DEFINE q == [NoForm EXCEPT !.at = IF HeldBy(CampaignSessions, c) = {} THEN "rates" ELSE "end", !.campaign = c]
  <1>1. /\ q \in ManagerStates /\ q.campaign = c
        /\ q.at = IF HeldBy(CampaignSessions, c) = {} THEN "rates" ELSE "end"
    BY NoFormIsAState DEF ManagerStates
  <1> HIDE DEF q
  <1>2. manager' = [manager EXCEPT ![m] = q]
    BY DEF CountSessions, q
  <1> QED
    BY <1>1, <1>2, PageStepKeeps DEF CountSessions

\* Nobody names a campaign before it is created: POST /api/campaigns.
LEMMA CreateCampaignKeeps ==
    ASSUME CampaignInv, NEW c \in CampaignIds, NEW row \in CampaignRows, CreateCampaign(c, row)
    PROVE  CampaignInv'
  <1>1. row \in ProgramRows
    BY CampaignAssumption DEF CampaignRows, ProgramRows, Fields
  <1>2. /\ campaign' = [campaign EXCEPT ![c] = row] /\ Standing' = Standing \cup {c} /\ c \notin Standing
        /\ UNCHANGED <<enrolled, campaignOf, sources, paying, manager>>
    BY DEF CreateCampaign, Standing, CampaignInv, CampaignTypes
  <1>3. CampaignTypes'
    BY <1>1 DEF CreateCampaign, CampaignInv, CampaignTypes
  <1>4. HoldersStand'
    BY <1>2 DEF CampaignInv, HoldersStand
  <1>5. \A x \in Holders : campaignOf[x] # c
    BY <1>2, CampaignAssumption DEF CampaignInv, HoldersStand
  <1>6. ProgramsConfigured'
    BY <1>2 DEF CreateCampaign, CampaignInv, CampaignTypes, CampaignsHold, ProgramsConfigured,
       assertMoneyProgramConfigured
  <1>7. TermsKept'
    <2> SUFFICES ASSUME Enforcing, NEW d \in Standing'
                 PROVE  /\ PaysAtMachines(campaign'[d]) => HeldBy(sources \cap CampaignSessions, d)' \subseteq paying'
                        /\ PaysTrips(campaign'[d]) => HeldBy(sources \cap CampaignTrips, d)' \subseteq paying'
      BY DEF TermsKept, PaysAtMachines, AtMachines, PaysTrips
    <2>1. CASE d = c
      BY <1>2, <1>5, <2>1 DEF HeldBy, Holders
    <2>2. CASE d # c
      <3>1. d \in Standing /\ campaign'[d] = campaign[d]
        BY <1>2, <2>2 DEF CampaignInv, CampaignTypes
      <3> QED
        BY <1>2, <3>1 DEF HeldBy, CampaignInv, CampaignsHold, TermsKept
    <2> QED
      BY <2>1, <2>2
  <1>8. DeletionSpares'
    BY <1>2 DEF CampaignInv, CampaignsHold, DeletionSpares, HeldBy
  <1>9. \A m \in Managers : manager'[m].at # "idle" => manager'[m].campaign \in CampaignIds
    BY <1>2 DEF CampaignInv
  <1> QED
    BY <1>3, <1>4, <1>6, <1>7, <1>8, <1>9 DEF CampaignInv, CampaignsHold

\* A row written under the guards, whatever page or client it comes from.
LEMMA UpdateCampaignKeeps ==
    ASSUME CampaignInv, NEW c, NEW next \in ProgramRows, UpdateCampaign(c, next),
           manager' = manager \/ \E m \in Managers : manager' = [manager EXCEPT ![m] = NoForm]
    PROVE  CampaignInv'
  <1>1. /\ campaign' = [campaign EXCEPT ![c] = next] /\ Standing' = Standing /\ c \in Standing /\ c \in CampaignIds
        /\ UNCHANGED <<enrolled, campaignOf, sources, paying, standing>>
        /\ assertMoneyProgramConfigured(next) /\ guardProgramChange(c, next)
    BY DEF UpdateCampaign, Standing
  <1>2. manager' \in [Managers -> ManagerStates] /\ \A m \in Managers : manager'[m] \in {manager[m], NoForm}
    BY NoFormIsAState DEF CampaignInv, CampaignTypes
  <1>3. CampaignTypes' /\ HoldersStand'
    BY <1>1, <1>2 DEF CampaignInv, CampaignTypes, HoldersStand
  <1>4. ProgramsConfigured'
    BY <1>1 DEF CampaignInv, CampaignTypes, CampaignsHold, ProgramsConfigured, assertMoneyProgramConfigured
  <1>5. TermsKept'
    <2> SUFFICES ASSUME Enforcing, NEW d \in Standing
                 PROVE  /\ PaysAtMachines(campaign'[d]) => HeldBy(sources \cap CampaignSessions, d) \subseteq paying
                        /\ PaysTrips(campaign'[d]) => HeldBy(sources \cap CampaignTrips, d) \subseteq paying
      BY <1>1 DEF TermsKept, PaysAtMachines, AtMachines, PaysTrips, HeldBy
    <2>1. CASE d = c
      <3>1. campaign'[d] = next
        BY <1>1, <2>1 DEF CampaignInv, CampaignTypes
      <3>2. \/ HeldBy(sources, d) = {}
            \/ /\ PaysAtMachines(next) => PaysAtMachines(campaign[d])
               /\ PaysTrips(next) => PaysTrips(campaign[d])
        BY <1>1, <2>1 DEF guardProgramChange
      <3> QED
        BY <3>1, <3>2 DEF HeldBy, CampaignInv, CampaignsHold, TermsKept
    <2>2. CASE d # c
      BY <1>1, <2>2 DEF CampaignInv, CampaignTypes, CampaignsHold, TermsKept, Standing
    <2> QED
      BY <2>1, <2>2
  <1>6. DeletionSpares'
    BY <1>1, <1>2, NoFormIsAState DEF CampaignInv, CampaignsHold, DeletionSpares, HeldBy
  <1>7. \A m \in Managers : manager'[m].at # "idle" => manager'[m].campaign \in CampaignIds
    BY <1>2, NoFormIsAState DEF CampaignInv
  <1> QED
    BY <1>3, <1>4, <1>5, <1>6, <1>7 DEF CampaignInv, CampaignsHold

\* A save sends the whole copy, however old: PATCH decides on the row as it is.
LEMMA SaveFormKeeps ==
    ASSUME CampaignInv, NEW m \in Managers, SaveForm(m)
    PROVE  CampaignInv'
  <1>1. PICK row \in Edited(manager[m].row) : UpdateCampaign(manager[m].campaign, Sent(row))
    BY DEF SaveForm
  <1>2. manager[m].row \in ProgramRows
    BY DEF CampaignInv, CampaignTypes, ManagerStates
  <1>3. Sent(row) \in ProgramRows
    BY <1>2, EditedIsARow, SentIsARow
  <1> QED
    BY <1>1, <1>3, UpdateCampaignKeeps DEF SaveForm

\* A client of the route sends one field.
LEMMA PatchFieldKeeps ==
    ASSUME CampaignInv, NEW c \in CampaignIds, PatchField(c)
    PROVE  CampaignInv'
  <1>1. PICK row \in Edited(campaign[c]) : UpdateCampaign(c, row)
    BY DEF PatchField
  <1>2. row \in ProgramRows
    BY EditedIsARow DEF CampaignInv, CampaignTypes
  <1> QED
    BY <1>1, <1>2, UpdateCampaignKeeps DEF PatchField

\* A campaign with sessions is ended, not deleted.
LEMMA EndCampaignKeeps ==
    ASSUME CampaignInv, NEW m \in Managers, EndCampaign(m)
    PROVE  CampaignInv'
  <1> DEFINE c == manager[m].campaign
  <1>1. /\ UNCHANGED <<enrolled, campaignOf, sources, paying, standing>> /\ Standing' = Standing
        /\ manager' = [manager EXCEPT ![m] = NoForm]
    BY DEF EndCampaign, Standing
  <1>2. ASSUME NEW d \in CampaignIds
        PROVE  /\ campaign'[d] \in ProgramRows
               /\ \/ campaign'[d] = campaign[d]
                  \/ /\ campaign'[d].status = "ENDED" /\ campaign'[d].money = campaign[d].money
                     /\ campaign'[d].kind = campaign[d].kind /\ campaign'[d].supports = campaign[d].supports
    <2>1. campaign[d] \in ProgramRows
      BY DEF CampaignInv, CampaignTypes
    <2>2. campaign'[d] \in {campaign[d], [campaign[d] EXCEPT !.status = "ENDED"]}
      BY DEF EndCampaign, CampaignInv, CampaignTypes
    <2> QED
      BY <2>1, <2>2 DEF ProgramRows
  <1>3. manager' \in [Managers -> ManagerStates] /\ \A n \in Managers : manager'[n] \in {manager[n], NoForm}
    BY <1>1, NoFormIsAState DEF CampaignInv, CampaignTypes
  <1>4. campaign' \in [CampaignIds -> ProgramRows]
    <2>1. \E f : campaign' = [campaign EXCEPT ![c] = f] \/ campaign' = campaign
      BY DEF EndCampaign
    <2> QED
      BY <1>2, <2>1 DEF CampaignInv, CampaignTypes
  <1>5. CampaignTypes' /\ HoldersStand'
    BY <1>1, <1>3, <1>4 DEF CampaignInv, CampaignTypes, HoldersStand
  <1>6. ProgramsConfigured'
    BY <1>1, <1>2 DEF CampaignInv, CampaignsHold, ProgramsConfigured, assertMoneyProgramConfigured, Standing, AtMachines
  <1>7. TermsKept'
    BY <1>1, <1>2 DEF CampaignInv, CampaignsHold, TermsKept, PaysAtMachines, PaysTrips, AtMachines, HeldBy, Standing
  <1>8. DeletionSpares'
    BY <1>1, <1>3, NoFormIsAState DEF CampaignInv, CampaignsHold, DeletionSpares, HeldBy
  <1>9. \A n \in Managers : manager'[n].at # "idle" => manager'[n].campaign \in CampaignIds
    BY <1>3, NoFormIsAState DEF CampaignInv
  <1> QED
    BY <1>5, <1>6, <1>7, <1>8, <1>9 DEF CampaignInv, CampaignsHold

\* DELETE takes the rates first.
LEMMA RemoveRatesKeeps ==
    ASSUME CampaignInv, NEW m \in Managers, RemoveRates(m)
    PROVE  CampaignInv'
  <1> DEFINE c == manager[m].campaign
             q == [manager[m] EXCEPT !.at = "row"]
  <1>1. /\ UNCHANGED <<campaign, standing, enrolled, sources, paying>> /\ Standing' = Standing
        /\ manager' = [manager EXCEPT ![m] = q] /\ manager[m].at = "rates"
    BY DEF RemoveRates, Standing
  <1>2. manager[m] \in ManagerStates /\ c \in CampaignIds
    BY <1>1 DEF CampaignInv, CampaignTypes
  <1>3. q \in ManagerStates /\ q.at = "row" /\ q.campaign = c /\ q.joined = manager[m].joined
    BY <1>2 DEF ManagerStates
  <1>4. \A x \in Holders : campaignOf'[x] = IF x \in CampaignRates /\ campaignOf[x] = c THEN NoCampaign ELSE campaignOf[x]
    BY DEF RemoveRates, HeldBy
  <1>5. CampaignTypes'
    BY <1>1, <1>3 DEF RemoveRates, CampaignInv, CampaignTypes
  <1>6. HoldersStand'
    BY <1>1, <1>4 DEF CampaignInv, HoldersStand
  <1>7. \A n \in Managers : manager'[n].at # "idle" => manager'[n].campaign \in CampaignIds
    BY <1>1, <1>2, <1>3 DEF CampaignInv, CampaignTypes
  <1>8. ASSUME NEW X \in SUBSET Holders, NEW d \in CampaignIds PROVE HeldBy(X, d)' \subseteq HeldBy(X, d)
    BY <1>4, CampaignAssumption DEF HeldBy
  <1>9. ProgramsConfigured' /\ TermsKept'
    <2>1. ASSUME NEW d \in CampaignIds
          PROVE  /\ HeldBy(sources \cap CampaignSessions, d)' \subseteq HeldBy(sources \cap CampaignSessions, d)
                 /\ HeldBy(sources \cap CampaignTrips, d)' \subseteq HeldBy(sources \cap CampaignTrips, d)
      BY <1>1, <1>4, CampaignAssumption DEF HeldBy, Holders
    <2> QED
      BY <1>1, <2>1 DEF CampaignInv, CampaignsHold, ProgramsConfigured, TermsKept, Standing
  <1>10. DeletionSpares'
    <2>1. ASSUME NEW n \in Managers, manager'[n].at \in {"rates", "row"}
          PROVE  HeldBy(CampaignSessions, manager[n].campaign)' \subseteq manager'[n].joined
      <3>1. /\ manager[n].at \in {"rates", "row"} /\ manager'[n].campaign = manager[n].campaign
            /\ manager'[n].joined = manager[n].joined /\ manager[n].campaign \in CampaignIds
        BY <1>1, <1>2, <1>3, <2>1 DEF CampaignInv, CampaignTypes
      <3> QED
        BY <1>4, <3>1, CampaignAssumption DEF CampaignInv, CampaignsHold, DeletionSpares, HeldBy, Holders
    <2>2. ASSUME NEW n \in Managers, manager'[n].at = "row"
          PROVE  HeldBy(CampaignRates, manager[n].campaign)' \subseteq manager'[n].joined
      <3>1. CASE n = m
        BY <1>1, <1>2, <1>3, <1>4, <3>1, CampaignAssumption DEF HeldBy, Holders, CampaignInv, CampaignTypes
      <3>2. CASE n # m
        <4>1. manager'[n] = manager[n] /\ manager[n].campaign \in CampaignIds
          BY <1>1, <2>2, <3>2 DEF CampaignInv, CampaignTypes
        <4> QED
          BY <1>4, <2>2, <4>1, CampaignAssumption DEF CampaignInv, CampaignsHold, DeletionSpares, HeldBy, Holders
      <3> QED
        BY <3>1, <3>2
    <2>3. \A t \in enrolled \cap CampaignTrips : campaignOf'[t] \in Standing
      BY <1>4, CampaignAssumption DEF CampaignInv, CampaignsHold, DeletionSpares, Holders
    <2> QED
      BY <1>1, <2>1, <2>2, <2>3 DEF DeletionSpares, HeldBy
  <1> QED
    BY <1>5, <1>6, <1>7, <1>9, <1>10 DEF CampaignInv, CampaignsHold

\* The row goes when no trip names it; sessions and rates that came lose it.
LEMMA DeleteCampaignKeeps ==
    ASSUME CampaignInv, NEW m \in Managers, DeleteCampaign(m)
    PROVE  CampaignInv'
  <1> DEFINE c == manager[m].campaign
  <1>1. /\ UNCHANGED <<campaign, enrolled, sources, paying>>
        /\ manager' = [manager EXCEPT ![m] = NoForm]
    BY DEF DeleteCampaign
  <1>2. manager' \in [Managers -> ManagerStates] /\ \A n \in Managers : manager'[n] \in {manager[n], NoForm}
    BY <1>1, NoFormIsAState DEF CampaignInv, CampaignTypes
  <1>3. CASE UNCHANGED <<standing, campaignOf>>
    BY <1>1, <1>3, NoFormIsAState, PageStepKeeps
  <1>4. CASE /\ c \in Standing /\ HeldBy(CampaignTrips, c) = {}
             /\ standing' = [standing EXCEPT ![c] = "deleted"]
             /\ campaignOf' = [x \in Holders |-> IF campaignOf[x] = c THEN NoCampaign ELSE campaignOf[x]]
    <2>1. Standing' = Standing \ {c} /\ c \in CampaignIds
      BY <1>4 DEF Standing, CampaignInv, CampaignTypes
    <2>2. CampaignTypes'
      BY <1>1, <1>2, <1>4 DEF CampaignInv, CampaignTypes
    <2>3. HoldersStand'
      BY <1>4, <2>1 DEF CampaignInv, HoldersStand
    <2>4. \A n \in Managers : manager'[n].at # "idle" => manager'[n].campaign \in CampaignIds
      BY <1>2, NoFormIsAState DEF CampaignInv
    <2>5. ProgramsConfigured' /\ TermsKept'
      <3>1. \A x \in Holders, d \in CampaignIds : campaignOf'[x] = d => campaignOf[x] = d
        BY <1>4, CampaignAssumption
      <3>2. sources \subseteq Holders
        BY DEF CampaignInv, CampaignTypes, Holders
      <3> QED
        BY <1>1, <2>1, <3>1, <3>2 DEF CampaignInv, CampaignsHold, ProgramsConfigured, TermsKept, HeldBy, Standing
    <2>6. DeletionSpares'
      <3>1. ASSUME NEW n \in Managers, manager'[n].at \in {"rates", "row"}
            PROVE  /\ HeldBy(CampaignSessions, manager[n].campaign)' \subseteq manager'[n].joined
                   /\ manager'[n].at = "row" => HeldBy(CampaignRates, manager[n].campaign)' \subseteq manager'[n].joined
        <4>1. manager'[n] = manager[n] /\ manager[n].campaign \in CampaignIds
          BY <1>2, <3>1, NoFormIsAState DEF CampaignInv
        <4> QED
          BY <1>4, <3>1, <4>1, CampaignAssumption DEF CampaignInv, CampaignsHold, DeletionSpares, HeldBy, Holders
      <3>2. \A t \in enrolled \cap CampaignTrips : campaignOf'[t] \in Standing'
        BY <1>4, <2>1 DEF CampaignInv, CampaignsHold, DeletionSpares, HeldBy, Holders
      <3> QED
        BY <1>1, <3>1, <3>2 DEF DeletionSpares, HeldBy
    <2> QED
      BY <2>2, <2>3, <2>4, <2>5, <2>6 DEF CampaignInv, CampaignsHold
  <1> QED
    BY <1>3, <1>4 DEF DeleteCampaign

\* What a page becomes when x comes to name the campaign it deletes.
LEMMA JoinsAtMoves ==
    ASSUME CampaignInv, NEW x \in Holders, NEW c, NEW steps, JoinsAt(x, c, steps)
    PROVE  /\ manager' \in [Managers -> ManagerStates]
           /\ \A m \in Managers :
                /\ manager'[m].at = manager[m].at /\ manager'[m].campaign = manager[m].campaign
                /\ manager[m].joined \subseteq manager'[m].joined
                /\ manager[m].campaign = c /\ manager[m].at \in steps => x \in manager'[m].joined
  <1>1. ASSUME NEW m \in Managers
        PROVE  /\ manager'[m] \in ManagerStates
               /\ manager'[m].at = manager[m].at /\ manager'[m].campaign = manager[m].campaign
               /\ manager[m].joined \subseteq manager'[m].joined
               /\ manager[m].campaign = c /\ manager[m].at \in steps => x \in manager'[m].joined
    <2>1. manager[m] \in ManagerStates
      BY DEF CampaignInv, CampaignTypes
    <2>2. manager'[m] = IF manager[m].campaign = c /\ manager[m].at \in steps
                        THEN [manager[m] EXCEPT !.joined = @ \cup {x}] ELSE manager[m]
      BY DEF JoinsAt
    <2> QED
      BY <2>1, <2>2 DEF ManagerStates
  <1>2. manager' \in [Managers -> ManagerStates]
    <2>1. manager' = [m \in Managers |-> manager'[m]]
      BY DEF JoinsAt
    <2> QED
      BY <1>1, <2>1
  <1> QED
    BY <1>1, <1>2

\* What a campaign holds more, when x comes to name c.
LEMMA HeldMore ==
    ASSUME CampaignInv, NEW x \in Holders, NEW c \in CampaignIds,
           campaignOf' = [campaignOf EXCEPT ![x] = c]
    PROVE  \A y \in Holders, d \in CampaignIds :
             campaignOf'[y] = d => campaignOf[y] = d \/ (y = x /\ d = c)
    BY DEF CampaignInv, CampaignTypes

\* An admission earns under the terms of the campaign as it is.
LEMMA AdmitKeeps ==
    ASSUME CampaignInv, NEW s \in CampaignSessions, NEW c \in CampaignIds, Admit(s, c)
    PROVE  CampaignInv'
  <1>1. /\ s \in Holders /\ s \notin enrolled /\ c \in Standing
        /\ enrolled' = enrolled \cup {s} /\ campaignOf' = [campaignOf EXCEPT ![s] = c] /\ sources' = sources \cup {s}
        /\ paying \subseteq paying' /\ (campaign[c].money => s \in paying') /\ paying' \subseteq paying \cup {s}
        /\ JoinsAt(s, c, {"rates", "row"}) /\ UNCHANGED <<campaign, standing>> /\ Standing' = Standing
    BY DEF Admit, Holders, Standing
  <1>2. CampaignTypes'
    BY <1>1, JoinsAtMoves DEF CampaignInv, CampaignTypes
  <1>3. HoldersStand'
    BY <1>1 DEF CampaignInv, CampaignTypes, HoldersStand
  <1>4. \A m \in Managers : manager'[m].at # "idle" => manager'[m].campaign \in CampaignIds
    BY <1>1, JoinsAtMoves DEF CampaignInv
  <1>5. ProgramsConfigured'
    BY <1>1 DEF CampaignInv, CampaignsHold, ProgramsConfigured
  <1>6. TermsKept'
    <2> SUFFICES ASSUME Enforcing, NEW d \in Standing
                 PROVE  /\ PaysAtMachines(campaign[d]) => HeldBy(sources \cap CampaignSessions, d)' \subseteq paying'
                        /\ PaysTrips(campaign[d]) => HeldBy(sources \cap CampaignTrips, d)' \subseteq paying'
      BY <1>1 DEF TermsKept
    <2>1. d \in CampaignIds /\ sources \subseteq Holders /\ s \notin CampaignTrips
      BY CampaignAssumption DEF Standing, CampaignInv, CampaignTypes, Holders
    <2>2. PaysAtMachines(campaign[d]) => HeldBy(sources \cap CampaignSessions, d)' \subseteq paying'
      <3> SUFFICES ASSUME PaysAtMachines(campaign[d]), NEW y \in HeldBy(sources \cap CampaignSessions, d)'
                   PROVE  y \in paying'
        OBVIOUS
      <3>1. y \in sources \cup {s} /\ y \in CampaignSessions /\ campaignOf'[y] = d
        BY <1>1 DEF HeldBy
      <3>2. campaignOf[y] = d \/ (y = s /\ d = c)
        BY <1>1, <2>1, <3>1, HeldMore
      <3> QED
        BY <1>1, <3>1, <3>2 DEF CampaignInv, CampaignTypes, HoldersStand, CampaignsHold, TermsKept, HeldBy, PaysAtMachines
    <2>3. PaysTrips(campaign[d]) => HeldBy(sources \cap CampaignTrips, d)' \subseteq paying'
      BY <1>1, <2>1, HeldMore DEF CampaignInv, CampaignsHold, TermsKept, HeldBy
    <2> QED
      BY <2>2, <2>3
  <1>7. DeletionSpares'
    <2>1. ASSUME NEW m \in Managers, manager[m].at \in {"rates", "row"}
          PROVE  /\ HeldBy(CampaignSessions, manager[m].campaign)' \subseteq manager'[m].joined
                 /\ manager[m].at = "row" => HeldBy(CampaignRates, manager[m].campaign)' \subseteq manager'[m].joined
      <3>1. manager[m].campaign \in CampaignIds /\ s \notin CampaignRates
        BY <2>1, CampaignAssumption DEF CampaignInv
      <3>2. manager'[m].campaign = manager[m].campaign /\ manager[m].joined \subseteq manager'[m].joined
            /\ (manager[m].campaign = c => s \in manager'[m].joined)
        BY <1>1, <2>1, JoinsAtMoves
      <3> QED
        BY <1>1, <2>1, <3>1, <3>2, HeldMore DEF CampaignInv, CampaignsHold, DeletionSpares, HeldBy, Holders
    <2>2. \A t \in enrolled' \cap CampaignTrips : campaignOf'[t] \in Standing
      BY <1>1, CampaignAssumption DEF CampaignInv, CampaignTypes, CampaignsHold, DeletionSpares
    <2> QED
      BY <1>1, <2>1, <2>2, JoinsAtMoves DEF DeletionSpares, HeldBy
  <1> QED
    BY <1>2, <1>3, <1>4, <1>5, <1>6, <1>7 DEF CampaignInv, CampaignsHold

\* A trip or a rate that comes to name c earns nothing yet.
LEMMA NewcomerKeeps ==
    ASSUME CampaignInv, NEW x \in CampaignTrips \cup CampaignRates, NEW c \in CampaignIds,
           x \notin enrolled, c \in Standing, enrolled' = enrolled \cup {x},
           campaignOf' = [campaignOf EXCEPT ![x] = c], UNCHANGED <<campaign, standing, sources, paying>>,
           manager' = manager \/ JoinsAt(x, c, {"row"}), x \in CampaignRates => JoinsAt(x, c, {"row"})
    PROVE  CampaignInv'
  <1>1. x \in Holders /\ x \notin CampaignSessions /\ x \notin sources /\ Standing' = Standing /\ c \in CampaignIds
    BY CampaignAssumption DEF Holders, Standing, CampaignInv, CampaignTypes
  <1>2. \A y \in Holders, d \in CampaignIds : campaignOf'[y] = d => campaignOf[y] = d \/ (y = x /\ d = c)
    BY <1>1, HeldMore
  <1>3. /\ manager' \in [Managers -> ManagerStates]
        /\ \A m \in Managers :
             /\ manager'[m].at = manager[m].at /\ manager'[m].campaign = manager[m].campaign
             /\ manager[m].joined \subseteq manager'[m].joined
             /\ x \in CampaignRates /\ manager[m].campaign = c /\ manager[m].at = "row" => x \in manager'[m].joined
    <2>1. CASE JoinsAt(x, c, {"row"})
      BY <1>1, <2>1, JoinsAtMoves
    <2>2. CASE manager' = manager /\ x \notin CampaignRates
      BY <2>2 DEF CampaignInv, CampaignTypes
    <2> QED
      BY <2>1, <2>2
  <1>4. CampaignTypes'
    BY <1>1, <1>3 DEF CampaignInv, CampaignTypes
  <1>5. HoldersStand'
    BY <1>1 DEF CampaignInv, CampaignTypes, HoldersStand
  <1>6. \A m \in Managers : manager'[m].at # "idle" => manager'[m].campaign \in CampaignIds
    BY <1>3 DEF CampaignInv
  <1>7. ProgramsConfigured'
    BY <1>1 DEF CampaignInv, CampaignsHold, ProgramsConfigured
  <1>8. TermsKept'
    <2>1. ASSUME NEW d \in Standing, NEW y \in sources, campaignOf'[y] = d PROVE campaignOf[y] = d
      BY <1>1, <1>2, <2>1 DEF CampaignInv, CampaignTypes, Standing
    <2> QED
      BY <1>1, <2>1 DEF CampaignInv, CampaignsHold, TermsKept, HeldBy
  <1>9. DeletionSpares'
    <2>1. ASSUME NEW m \in Managers, manager[m].at \in {"rates", "row"}
          PROVE  HeldBy(CampaignSessions, manager[m].campaign)' \subseteq manager'[m].joined
      <3>1. manager[m].campaign \in CampaignIds
        BY <2>1 DEF CampaignInv
      <3> QED
        BY <1>1, <1>2, <1>3, <2>1, <3>1 DEF CampaignInv, CampaignsHold, DeletionSpares, HeldBy, Holders
    <2>2. ASSUME NEW m \in Managers, manager[m].at = "row"
          PROVE  HeldBy(CampaignRates, manager[m].campaign)' \subseteq manager'[m].joined
      <3>1. manager[m].campaign \in CampaignIds
        BY <2>2 DEF CampaignInv
      <3> QED
        BY <1>1, <1>2, <1>3, <2>2, <3>1 DEF CampaignInv, CampaignsHold, DeletionSpares, HeldBy, Holders
    <2>3. \A t \in enrolled' \cap CampaignTrips : campaignOf'[t] \in Standing
      BY <1>1 DEF CampaignInv, CampaignTypes, CampaignsHold, DeletionSpares
    <2> QED
      BY <1>1, <1>3, <2>1, <2>2, <2>3 DEF DeletionSpares, HeldBy
  <1> QED
    BY <1>4, <1>5, <1>6, <1>7, <1>8, <1>9 DEF CampaignInv, CampaignsHold

\* POST /api/trips.
LEMMA TripForKeeps ==
    ASSUME CampaignInv, NEW t \in CampaignTrips, NEW c \in CampaignIds, TripFor(t, c)
    PROVE  CampaignInv'
  <1>1. t \notin CampaignRates
    BY CampaignAssumption
  <1> QED
    BY <1>1, NewcomerKeeps DEF TripFor

\* POST /api/reward-rates.
LEMMA RateForCampaignKeeps ==
    ASSUME CampaignInv, NEW k \in CampaignRates, NEW c \in CampaignIds, RateForCampaign(k, c)
    PROVE  CampaignInv'
    BY NewcomerKeeps DEF RateForCampaign

\* The terms of a trip are taken when its bags are issued.
LEMMA IssueBagsKeeps ==
    ASSUME CampaignInv, NEW t \in CampaignTrips, IssueBags(t)
    PROVE  CampaignInv'
  <1>1. /\ t \in enrolled /\ sources' = sources \cup {t} /\ t \in Holders /\ t \notin CampaignSessions
        /\ UNCHANGED <<campaign, standing, enrolled, campaignOf, manager>> /\ Standing' = Standing
        /\ paying' = IF PaysTrips(campaign[campaignOf[t]]) THEN paying \cup {t} ELSE paying \ {t}
    BY CampaignAssumption DEF IssueBags, Holders, Standing
  <1>2. CampaignTypes' /\ HoldersStand'
    BY <1>1 DEF CampaignInv, CampaignTypes, HoldersStand
  <1>3. TermsKept'
    <2> SUFFICES ASSUME Enforcing, NEW d \in Standing
                 PROVE  /\ PaysAtMachines(campaign[d]) => HeldBy(sources \cap CampaignSessions, d)' \subseteq paying'
                        /\ PaysTrips(campaign[d]) => HeldBy(sources \cap CampaignTrips, d)' \subseteq paying'
      BY <1>1 DEF TermsKept
    <2>1. PaysAtMachines(campaign[d]) => HeldBy(sources \cap CampaignSessions, d)' \subseteq paying'
      BY <1>1 DEF CampaignInv, CampaignsHold, TermsKept, HeldBy
    <2>2. PaysTrips(campaign[d]) => HeldBy(sources \cap CampaignTrips, d)' \subseteq paying'
      BY <1>1 DEF CampaignInv, CampaignsHold, TermsKept, HeldBy
    <2> QED
      BY <2>1, <2>2
  <1>4. ProgramsConfigured' /\ DeletionSpares'
    BY <1>1 DEF CampaignInv, CampaignsHold, ProgramsConfigured, DeletionSpares, HeldBy
  <1> QED
    BY <1>1, <1>2, <1>3, <1>4 DEF CampaignInv, CampaignsHold

\* A source that closes can earn no more.
LEMMA SourceClosesKeeps ==
    ASSUME CampaignInv, NEW x \in sources, SourceCloses(x)
    PROVE  CampaignInv'
  <1>1. /\ sources' = sources \ {x} /\ Standing' = Standing
        /\ UNCHANGED <<campaign, standing, enrolled, campaignOf, paying, manager>>
    BY DEF SourceCloses, Standing
  <1>2. CampaignTypes' /\ HoldersStand'
    BY <1>1 DEF CampaignInv, CampaignTypes, HoldersStand
  <1>3. CampaignsHold'
    BY <1>1 DEF CampaignInv, CampaignsHold, ProgramsConfigured, TermsKept, DeletionSpares, HeldBy
  <1> QED
    BY <1>1, <1>2, <1>3 DEF CampaignInv

\* Every step keeps the invariant of the campaigns.
LEMMA CampaignStepKeeps ==
    ASSUME CampaignInv, [CampaignNext]_campaignVars
    PROVE  CampaignInv'
  <1>1. CASE UNCHANGED campaignVars
    <2>1. UNCHANGED <<campaign, standing, enrolled, campaignOf, sources, paying, manager>> /\ Standing' = Standing
      BY <1>1 DEF campaignVars, Standing
    <2>2. CampaignTypes' /\ HoldersStand'
      BY <2>1 DEF CampaignInv, CampaignTypes, HoldersStand
    <2>3. CampaignsHold'
      BY <2>1 DEF CampaignInv, CampaignsHold, ProgramsConfigured, TermsKept, DeletionSpares, HeldBy
    <2> QED
      BY <2>1, <2>2, <2>3 DEF CampaignInv
  <1>2. CASE CampaignNext
    BY <1>2, CreateCampaignKeeps, PatchFieldKeeps, OpenFormKeeps, CountSessionsKeeps, CloseFormKeeps,
       SaveFormKeeps, EndCampaignKeeps, RemoveRatesKeeps, DeleteCampaignKeeps, AdmitKeeps, TripForKeeps,
       IssueBagsKeeps, SourceClosesKeeps, RateForCampaignKeeps DEF CampaignNext
  <1> QED
    BY <1>1, <1>2

\* For any campaigns, sources, rates and pages (api/campaigns): programs that
\* pay stay configured, terms are kept, and a deletion spares whom it counted.
THEOREM CampaignsStay == CampaignSpec => []CampaignsHold
  <1>1. CampaignInv => CampaignsHold
    BY DEF CampaignInv
  <1> QED
    BY <1>1, CampaignInitially, CampaignStepKeeps, PTL DEF CampaignSpec

-----------------------------------------------------------------------------
(* Fleet.  Every link, item and rate names a waste type that is kept, and a *)
(* machine's links are those one save asked for, but for a deletion that    *)
(* stands between its two statements.                                       *)

DeskStates == [at : {"idle", "new", "edit", "retire", "type", "links", "machine"},
               row : WasteTypes \cup FleetMachines \cup {NoRow}, chosen : SUBSET WasteTypes]

FleetTypes ==
    /\ wasteType \in [WasteTypes -> {"unborn", "active", "inactive", "deleted"}]
    /\ named \subseteq {"item", "rate"} \X WasteTypes
    /\ machineRow \in [FleetMachines -> {"unborn", "there", "deleted"}]
    /\ links \in [FleetMachines -> SUBSET WasteTypes] /\ requested \in [FleetMachines -> SUBSET WasteTypes]
    /\ recorded \subseteq FleetMachines /\ interrupted \subseteq FleetMachines
    /\ desk \in [FleetDesks -> DeskStates]

FleetInv ==
    /\ FleetTypes /\ FleetHolds
    /\ \A d \in FleetDesks :
         desk[d].at \in {"new", "edit", "links", "machine"} => desk[d].row \in FleetMachines

\* A page without a form is idle.
LEMMA NoDeskIsAState == NoDesk \in DeskStates /\ NoDesk.at = "idle"
    BY DEF NoDesk, DeskStates

\* No machine and no waste type exists at first.
LEMMA FleetInitially == FleetInit => FleetInv
  <1> SUFFICES ASSUME FleetInit PROVE FleetInv
    OBVIOUS
  <1>1. FleetTypes
    BY NoDeskIsAState DEF FleetInit, FleetTypes
  <1>2. FleetHolds
    BY DEF FleetInit, FleetHolds, LinksAsAsked, HistoryKept
  <1> QED
    BY <1>1, <1>2, NoDeskIsAState DEF FleetInv, FleetInit

\* A page that moves on by itself, to no deletion's last statement.
LEMMA DeskStepKeeps ==
    ASSUME FleetInv, NEW d \in FleetDesks, NEW q \in DeskStates, desk' = [desk EXCEPT ![d] = q],
           q.at \in {"new", "edit", "links", "machine"} => q.row \in FleetMachines,
           desk[d].at # "machine",
           UNCHANGED <<wasteType, named, machineRow, links, requested, recorded, interrupted>>
    PROVE  FleetInv'
  <1>1. FleetTypes'
    BY DEF FleetInv, FleetTypes
  <1>2. HistoryKept'
    BY DEF FleetInv, FleetHolds, HistoryKept, Kept
  <1>3. LinksAsAsked'
    <2>1. \A e \in FleetDesks : desk[e].at = "machine" => desk'[e] = desk[e]
      BY DEF FleetInv, FleetTypes
    <2> QED
      BY <2>1 DEF FleetInv, FleetHolds, LinksAsAsked
  <1>4. \A e \in FleetDesks :
          desk'[e].at \in {"new", "edit", "links", "machine"} => desk'[e].row \in FleetMachines
    BY DEF FleetInv, FleetTypes
  <1> QED
    BY <1>1, <1>2, <1>3, <1>4 DEF FleetInv, FleetHolds

\* DELETE /api/waste-types/[id] decides by what it counts.
LEMMA CountUsesKeeps ==
    ASSUME FleetInv, NEW d \in FleetDesks, NEW w \in WasteTypes, CountUses(d, w)
    PROVE  FleetInv'
  <1> DEFINE q == [NoDesk EXCEPT !.at = IF <<"item", w>> \in named \/ Linking(w) # {} THEN "retire" ELSE "type",
                                 !.row = w]
  <1>1. q \in DeskStates /\ q.at \in {"retire", "type"}
    BY NoDeskIsAState DEF DeskStates
  <1> HIDE DEF q
  <1>2. desk' = [desk EXCEPT ![d] = q]
    BY DEF CountUses, q
  <1> QED
    BY <1>1, <1>2, DeskStepKeeps DEF CountUses

\* The form starts from the links the page was loaded with.
LEMMA OpenMachineFormKeeps ==
    ASSUME FleetInv, NEW d \in FleetDesks, NEW m \in FleetMachines, OpenMachineForm(d, m)
    PROVE  FleetInv'
  <1> DEFINE q == [at |-> IF machineRow[m] = "unborn" THEN "new" ELSE "edit", row |-> m, chosen |-> links[m]]
  <1>1. q \in DeskStates /\ q.row = m
    BY DEF DeskStates, FleetInv, FleetTypes
  <1> HIDE DEF q
  <1>2. desk' = [desk EXCEPT ![d] = q]
    BY DEF OpenMachineForm, q
  <1> QED
    BY <1>1, <1>2, DeskStepKeeps DEF OpenMachineForm

\* A tick in the form changes the form only.
LEMMA toggleWasteKeeps ==
    ASSUME FleetInv, NEW d \in FleetDesks, NEW w \in WasteTypes, toggleWaste(d, w)
    PROVE  FleetInv'
  <1> DEFINE S == IF w \in desk[d].chosen THEN desk[d].chosen \ {w} ELSE desk[d].chosen \cup {w}
             q == [desk[d] EXCEPT !.chosen = S]
  <1>1. desk[d] \in DeskStates /\ S \in SUBSET WasteTypes
    BY DEF FleetInv, FleetTypes, DeskStates
  <1>2. desk' = [desk EXCEPT ![d] = q]
    BY DEF toggleWaste
  <1> HIDE DEF S
  <1>3. q \in DeskStates /\ q.at = desk[d].at /\ q.row = desk[d].row
    BY <1>1 DEF DeskStates
  <1> HIDE DEF q
  <1>4. desk[d].at # "machine" /\ (q.at \in {"new", "edit", "links", "machine"} => q.row \in FleetMachines)
    BY <1>3 DEF toggleWaste, FleetInv
  <1> QED
    BY <1>2, <1>3, <1>4, DeskStepKeeps DEF toggleWaste

\* Closing the form forgets it.
LEMMA CloseMachineFormKeeps ==
    ASSUME FleetInv, NEW d \in FleetDesks, CloseMachineForm(d)
    PROVE  FleetInv'
    BY NoDeskIsAState, DeskStepKeeps DEF CloseMachineForm

\* DELETE /api/machines/[id] looks for sessions and events.
LEMMA CountHistoryKeeps ==
    ASSUME FleetInv, NEW d \in FleetDesks, NEW m \in FleetMachines, CountHistory(d, m)
    PROVE  FleetInv'
  <1> DEFINE q == [NoDesk EXCEPT !.at = "links", !.row = m]
  <1>1. q \in DeskStates /\ q.row = m
    BY NoDeskIsAState DEF DeskStates
  <1> HIDE DEF q
  <1>2. desk' = [desk EXCEPT ![d] = q]
    BY DEF CountHistory, q
  <1> QED
    BY <1>1, <1>2, DeskStepKeeps DEF CountHistory

\* A statement that touches waste types, or who names them, and ends a page's
\* work on them.
LEMMA TypeStepKeeps ==
    ASSUME FleetInv, UNCHANGED <<machineRow, links, requested, recorded, interrupted>>,
           wasteType' \in [WasteTypes -> {"unborn", "active", "inactive", "deleted"}],
           named' \subseteq {"item", "rate"} \X WasteTypes,
           \A w \in Kept : w \in Kept' \/ (Linking(w) = {} /\ <<"item", w>> \notin named' /\ <<"rate", w>> \notin named'),
           \A x \in named' : x \in named \/ x[2] \in Kept',
           desk' = desk \/ \E d \in FleetDesks : desk[d].at # "machine" /\ desk' = [desk EXCEPT ![d] = NoDesk]
    PROVE  FleetInv'
  <1>1. /\ desk' \in [FleetDesks -> DeskStates]
        /\ \A d \in FleetDesks : desk'[d] \in {desk[d], NoDesk} /\ (desk[d].at = "machine" => desk'[d] = desk[d])
    BY NoDeskIsAState DEF FleetInv, FleetTypes
  <1>2. FleetTypes'
    BY <1>1 DEF FleetInv, FleetTypes
  <1>3. HistoryKept'
    <2>1. ASSUME NEW m \in FleetMachines PROVE links[m] \subseteq Kept'
      BY DEF FleetInv, FleetHolds, HistoryKept, Linking
    <2>2. ASSUME NEW x \in named' PROVE x[2] \in Kept'
      <3>1. x = <<"item", x[2]>> \/ x = <<"rate", x[2]>>
        OBVIOUS
      <3>2. x \in named => x[2] \in Kept
        BY DEF FleetInv, FleetHolds, HistoryKept
      <3>3. x[2] \in Kept \/ x[2] \in Kept'
        BY <3>2
      <3> QED
        BY <3>1, <3>3
    <2> QED
      BY <2>1, <2>2 DEF FleetInv, FleetHolds, HistoryKept
  <1>4. LinksAsAsked'
    BY <1>1 DEF FleetInv, FleetHolds, LinksAsAsked
  <1>5. \A e \in FleetDesks :
          desk'[e].at \in {"new", "edit", "links", "machine"} => desk'[e].row \in FleetMachines
    BY <1>1, NoDeskIsAState DEF FleetInv
  <1> QED
    BY <1>2, <1>3, <1>4, <1>5 DEF FleetInv, FleetHolds

\* POST /api/waste-types.
LEMMA CreateWasteTypeKeeps ==
    ASSUME FleetInv, NEW w \in WasteTypes, CreateWasteType(w)
    PROVE  FleetInv'
  <1>1. /\ wasteType' \in [WasteTypes -> {"unborn", "active", "inactive", "deleted"}]
        /\ \A v \in Kept : v \in Kept'
    BY DEF CreateWasteType, FleetInv, FleetTypes, Kept
  <1> QED
    BY <1>1, TypeStepKeeps DEF CreateWasteType, FleetInv, FleetTypes

\* PATCH /api/waste-types/[id] from the toggle.
LEMMA ToggleActiveKeeps ==
    ASSUME FleetInv, NEW w \in WasteTypes, ToggleActive(w)
    PROVE  FleetInv'
  <1>1. /\ wasteType' \in [WasteTypes -> {"unborn", "active", "inactive", "deleted"}]
        /\ \A v \in Kept : v \in Kept'
    BY DEF ToggleActive, FleetInv, FleetTypes, Kept
  <1> QED
    BY <1>1, TypeStepKeeps DEF ToggleActive, FleetInv, FleetTypes

\* An item or a rate names a waste type that is kept.
LEMMA NameTypeKeeps ==
    ASSUME FleetInv, NEW w \in WasteTypes, NEW by \in {"item", "rate"}, NameType(by, w)
    PROVE  FleetInv'
  <1>1. Kept' = Kept /\ w \in Kept /\ named' = named \cup {<<by, w>>}
    BY DEF NameType, Kept
  <1>2. /\ wasteType' \in [WasteTypes -> {"unborn", "active", "inactive", "deleted"}]
        /\ named' \subseteq {"item", "rate"} \X WasteTypes
        /\ \A v \in Kept : v \in Kept'
        /\ \A x \in named' : x \in named \/ x[2] \in Kept'
    BY <1>1 DEF NameType, FleetInv, FleetTypes
  <1> QED
    BY <1>1, <1>2, TypeStepKeeps DEF NameType

\* A waste type in use is deactivated.
LEMMA RetireWasteTypeKeeps ==
    ASSUME FleetInv, NEW d \in FleetDesks, RetireWasteType(d)
    PROVE  FleetInv'
  <1>1. /\ wasteType' \in [WasteTypes -> {"unborn", "active", "inactive", "deleted"}]
        /\ \A v \in Kept : v \in Kept'
    BY DEF RetireWasteType, FleetInv, FleetTypes, Kept
  <1>2. desk[d].at # "machine" /\ desk' = [desk EXCEPT ![d] = NoDesk] /\ named' = named
    BY DEF RetireWasteType
  <1> QED
    BY <1>1, <1>2, TypeStepKeeps DEF RetireWasteType, FleetInv, FleetTypes

\* The foreign keys keep a waste type that was named since it was counted.
LEMMA DeleteWasteTypeKeeps ==
    ASSUME FleetInv, NEW d \in FleetDesks, DeleteWasteType(d)
    PROVE  FleetInv'
  <1>1. /\ wasteType' \in [WasteTypes -> {"unborn", "active", "inactive", "deleted"}]
        /\ \A v \in Kept : \/ v \in Kept'
                           \/ Linking(v) = {} /\ <<"item", v>> \notin named /\ <<"rate", v>> \notin named
    BY DEF DeleteWasteType, FleetInv, FleetTypes, Kept
  <1>2. desk[d].at # "machine" /\ desk' = [desk EXCEPT ![d] = NoDesk] /\ named' = named
    BY DEF DeleteWasteType
  <1> QED
    BY <1>1, <1>2, TypeStepKeeps DEF DeleteWasteType, FleetInv, FleetTypes

\* A save replaces the links whole: POST and PATCH of a machine.
LEMMA SaveMachineKeeps ==
    ASSUME FleetInv, NEW d \in FleetDesks, SaveMachine(d)
    PROVE  FleetInv'
  <1> DEFINE m == desk[d].row
             S == desk[d].chosen
  <1>1. /\ desk[d].at \in {"new", "edit"} /\ m \in FleetMachines /\ S \in SUBSET WasteTypes /\ S \subseteq Kept
        /\ machineRow' = [machineRow EXCEPT ![m] = "there"] /\ links' = [links EXCEPT ![m] = S]
        /\ requested' = [requested EXCEPT ![m] = S] /\ interrupted' = interrupted \ {m}
        /\ desk' = [desk EXCEPT ![d] = NoDesk] /\ UNCHANGED <<wasteType, named, recorded>> /\ Kept' = Kept
    BY DEF SaveMachine, LinksReplaced, FleetInv, FleetTypes, DeskStates, Kept
  <1>2. FleetTypes'
    BY <1>1, NoDeskIsAState DEF FleetInv, FleetTypes
  <1>3. HistoryKept'
    BY <1>1 DEF FleetInv, FleetTypes, FleetHolds, HistoryKept
  <1>4. LinksAsAsked'
    <2>1. \A e \in FleetDesks : desk[e].at = "machine" => desk'[e] = desk[e]
      BY <1>1 DEF FleetInv, FleetTypes
    <2>2. ASSUME NEW n \in FleetMachines, n # m
          PROVE  machineRow'[n] = machineRow[n] /\ links'[n] = links[n] /\ requested'[n] = requested[n]
      BY <1>1, <2>2 DEF FleetInv, FleetTypes
    <2>3. links'[m] = requested'[m]
      BY <1>1 DEF FleetInv, FleetTypes
    <2> QED
      BY <1>1, <2>1, <2>2, <2>3 DEF FleetInv, FleetHolds, LinksAsAsked
  <1>5. \A e \in FleetDesks :
          desk'[e].at \in {"new", "edit", "links", "machine"} => desk'[e].row \in FleetMachines
    BY <1>1, NoDeskIsAState DEF FleetInv, FleetTypes
  <1> QED
    BY <1>2, <1>3, <1>4, <1>5 DEF FleetInv, FleetHolds

\* A session or an event of the machine.
LEMMA RecordAtKeeps ==
    ASSUME FleetInv, NEW m \in FleetMachines, RecordAt(m)
    PROVE  FleetInv'
  <1>1. FleetTypes'
    BY DEF RecordAt, FleetInv, FleetTypes
  <1>2. FleetHolds'
    BY DEF RecordAt, FleetInv, FleetHolds, HistoryKept, LinksAsAsked, Kept
  <1> QED
    BY <1>1, <1>2 DEF RecordAt, FleetInv

\* The first statement of a deletion: from here until the next one the page
\* accounts for the missing links.
LEMMA RemoveLinksKeeps ==
    ASSUME FleetInv, NEW d \in FleetDesks, RemoveLinks(d)
    PROVE  FleetInv'
  <1> DEFINE m == desk[d].row
             q == [desk[d] EXCEPT !.at = "machine"]
  <1>1. /\ m \in FleetMachines /\ links' = [links EXCEPT ![m] = {}] /\ desk' = [desk EXCEPT ![d] = q]
        /\ UNCHANGED <<wasteType, named, machineRow, requested, recorded, interrupted>> /\ Kept' = Kept
        /\ desk[d] \in DeskStates /\ desk[d].at = "links"
    BY DEF RemoveLinks, FleetInv, FleetTypes, Kept
  <1>2. q \in DeskStates /\ q.at = "machine" /\ q.row = m
    BY <1>1 DEF DeskStates
  <1> HIDE DEF q
  <1>3. FleetTypes'
    BY <1>1, <1>2 DEF FleetInv, FleetTypes
  <1>4. HistoryKept'
    BY <1>1 DEF FleetInv, FleetTypes, FleetHolds, HistoryKept
  <1>5. LinksAsAsked'
    <2>1. \A e \in FleetDesks : desk[e].at = "machine" => desk'[e] = desk[e]
      BY <1>1 DEF FleetInv, FleetTypes
    <2>2. desk'[d].at = "machine" /\ desk'[d].row = m
      BY <1>1, <1>2 DEF FleetInv, FleetTypes
    <2>3. \A n \in FleetMachines : n # m => links'[n] = links[n]
      BY <1>1 DEF FleetInv, FleetTypes
    <2> QED
      BY <1>1, <2>1, <2>2, <2>3 DEF FleetInv, FleetHolds, LinksAsAsked
  <1>6. \A e \in FleetDesks :
          desk'[e].at \in {"new", "edit", "links", "machine"} => desk'[e].row \in FleetMachines
    BY <1>1, <1>2 DEF FleetInv, FleetTypes
  <1> QED
    BY <1>3, <1>4, <1>5, <1>6 DEF FleetInv, FleetHolds

\* The second one removes the row, or is refused by the history that came.
LEMMA DeleteMachineKeeps ==
    ASSUME FleetInv, NEW d \in FleetDesks, DeleteMachine(d)
    PROVE  FleetInv'
  <1> DEFINE m == desk[d].row
  <1>1. /\ desk[d].at = "machine" /\ m \in FleetMachines /\ desk' = [desk EXCEPT ![d] = NoDesk]
        /\ UNCHANGED <<wasteType, named, requested, recorded, interrupted>> /\ Kept' = Kept
        /\ \/ /\ machineRow[m] = "there" /\ m \notin recorded
              /\ machineRow' = [machineRow EXCEPT ![m] = "deleted"] /\ links' = [links EXCEPT ![m] = {}]
           \/ /\ machineRow[m] # "there" \/ m \in recorded
              /\ UNCHANGED <<machineRow, links>>
    BY DEF DeleteMachine, FleetInv, FleetTypes, Kept
  <1>2. FleetTypes'
    BY <1>1, NoDeskIsAState DEF FleetInv, FleetTypes
  <1>3. HistoryKept'
    BY <1>1 DEF FleetInv, FleetTypes, FleetHolds, HistoryKept
  <1>4. LinksAsAsked'
    <2>1. \A e \in FleetDesks : e # d => desk'[e] = desk[e]
      BY <1>1 DEF FleetInv, FleetTypes
    <2>2. ASSUME NEW n \in FleetMachines, machineRow'[n] = "there", links'[n] # requested'[n]
          PROVE  /\ machineRow[n] = "there" /\ links[n] # requested[n]
                 /\ n = m => n \in recorded
      BY <1>1, <2>2 DEF FleetInv, FleetTypes
    <2> QED
      BY <1>1, <2>1, <2>2 DEF FleetInv, FleetHolds, LinksAsAsked
  <1>5. \A e \in FleetDesks :
          desk'[e].at \in {"new", "edit", "links", "machine"} => desk'[e].row \in FleetMachines
    BY <1>1, NoDeskIsAState DEF FleetInv, FleetTypes
  <1> QED
    BY <1>2, <1>3, <1>4, <1>5 DEF FleetInv, FleetHolds

\* A deletion cut short after its first statement is remembered.
LEMMA DeskInterruptedKeeps ==
    ASSUME FleetInv, NEW d \in FleetDesks, DeskInterrupted(d)
    PROVE  FleetInv'
  <1>1. /\ desk' = [desk EXCEPT ![d] = NoDesk] /\ interrupted \subseteq interrupted' /\ Kept' = Kept
        /\ interrupted' \subseteq FleetMachines
        /\ desk[d].at = "machine" => desk[d].row \in interrupted'
        /\ UNCHANGED <<wasteType, named, machineRow, links, requested, recorded>>
    BY DEF DeskInterrupted, FleetInv, FleetTypes, Kept
  <1>2. FleetTypes'
    BY <1>1, NoDeskIsAState DEF FleetInv, FleetTypes
  <1>3. HistoryKept'
    BY <1>1 DEF FleetInv, FleetHolds, HistoryKept
  <1>4. LinksAsAsked'
    <2>1. \A e \in FleetDesks : e # d => desk'[e] = desk[e]
      BY <1>1 DEF FleetInv, FleetTypes
    <2> QED
      BY <1>1, <2>1 DEF FleetInv, FleetHolds, LinksAsAsked
  <1>5. \A e \in FleetDesks :
          desk'[e].at \in {"new", "edit", "links", "machine"} => desk'[e].row \in FleetMachines
    BY <1>1, NoDeskIsAState DEF FleetInv, FleetTypes
  <1> QED
    BY <1>2, <1>3, <1>4, <1>5 DEF FleetInv, FleetHolds

\* Every step keeps the fleet's invariant.
LEMMA FleetStepKeeps ==
    ASSUME FleetInv, [FleetNext]_fleetVars
    PROVE  FleetInv'
  <1>1. CASE UNCHANGED fleetVars
    <2>1. /\ UNCHANGED <<wasteType, named, machineRow, links, requested, recorded, desk, interrupted>> /\ Kept' = Kept
      BY <1>1 DEF fleetVars, Kept
    <2>2. FleetTypes'
      BY <2>1 DEF FleetInv, FleetTypes
    <2>3. FleetHolds'
      BY <2>1 DEF FleetInv, FleetHolds, HistoryKept, LinksAsAsked
    <2> QED
      BY <2>1, <2>2, <2>3 DEF FleetInv
  <1>2. CASE FleetNext
    BY <1>2, CreateWasteTypeKeeps, ToggleActiveKeeps, NameTypeKeeps, CountUsesKeeps, toggleWasteKeeps,
       OpenMachineFormKeeps, CountHistoryKeeps, RetireWasteTypeKeeps, DeleteWasteTypeKeeps,
       CloseMachineFormKeeps, SaveMachineKeeps, RemoveLinksKeeps, DeleteMachineKeeps,
       DeskInterruptedKeeps, RecordAtKeeps DEF FleetNext
  <1> QED
    BY <1>1, <1>2

\* For any waste types, machines and pages (api/waste-types, api/machines):
\* what is named is kept, and links are what one save asked for.
THEOREM FleetStays == FleetSpec => []FleetHolds
  <1>1. FleetInv => FleetHolds
    BY DEF FleetInv
  <1> QED
    BY <1>1, FleetInitially, FleetStepKeeps, PTL DEF FleetSpec

-----------------------------------------------------------------------------
(* The run's own specification: a step of one part leaves the others.       *)

\* For any requests, sockets, organizations and clock: a collector works for
\* an organization only once a superadmin approved the pair, and an alert is
\* written only to an account entitled to it within the interval.
THEOREM StandingAlways == Spec => []StandingRespected
  <1>1. Init => PartnershipInv /\ GatewayInv
    BY PartnershipInitially, GatewayInitially DEF Init
  <1>2. Next => [PartnershipNext]_partnershipVars /\ [GatewayNext]_gatewayVars
    BY DEF Next
  <1>3. UNCHANGED opsVars => UNCHANGED partnershipVars /\ UNCHANGED gatewayVars
    BY DEF opsVars
  <1>4. (PartnershipInv /\ GatewayInv) /\ [Next]_opsVars => (PartnershipInv /\ GatewayInv)'
    BY <1>2, <1>3, PartnershipKeeps, GatewayKeeps
  <1>5. PartnershipInv /\ GatewayInv => StandingRespected
    BY DEF PartnershipInv, GatewayInv, StandingRespected
  <1> QED
    BY <1>1, <1>4, <1>5, PTL DEF Spec

\* For any types, items, rates, multipliers, bounds and weights: whatever is
\* edited between admission, acceptance and approval, what the server commits
\* and pays for the items a machine accepted under its signed policy is at most
\* what the machine counted, and that at most the ceiling reserved.
THEOREM PaidAlwaysWithinCeiling == Spec => []PaidWithinCeiling
  <1>1. Init => PricingInv
    BY PricingInitially DEF Init
  <1>2. Next => [PricingNext]_pricingVars
    BY DEF Next
  <1>3. UNCHANGED opsVars => UNCHANGED pricingVars
    BY DEF opsVars
  <1>4. PricingInv /\ [Next]_opsVars => PricingInv'
    BY <1>2, <1>3, PricingKeeps
  <1> QED
    BY <1>1, <1>4, PricesBounded, PTL DEF Spec

\* A behaviour of the run is a behaviour of each part.
LEMMA SpecImplementsParts ==
    Spec => TripSpec /\ PickupSpec /\ PayoutSpec /\ RegionSpec /\ CampaignSpec /\ FleetSpec
  <1>1. Init => TripInit /\ PickupInit /\ PayoutInit /\ RegionInit /\ CampaignInit /\ FleetInit
    BY DEF Init
  <1>2. Next => /\ [TripNext]_tripVars /\ [PickupNext]_pickupVars /\ [PayoutNext]_payoutVars
                /\ [RegionNext]_regionVars /\ [CampaignNext]_campaignVars /\ [FleetNext]_fleetVars
    BY DEF Next
  <1>3. UNCHANGED opsVars =>
          /\ UNCHANGED tripVars /\ UNCHANGED pickupVars /\ UNCHANGED payoutVars
          /\ UNCHANGED regionVars /\ UNCHANGED campaignVars /\ UNCHANGED fleetVars
    BY DEF opsVars
  <1>4. [Next]_opsVars =>
          /\ [TripNext]_tripVars /\ [PickupNext]_pickupVars /\ [PayoutNext]_payoutVars
          /\ [RegionNext]_regionVars /\ [CampaignNext]_campaignVars /\ [FleetNext]_fleetVars
    BY <1>2, <1>3
  <1> QED
    BY <1>1, <1>4, PTL DEF Spec, TripSpec, PickupSpec, PayoutSpec, RegionSpec, CampaignSpec, FleetSpec

\* Side by side with the other parts too, a trip is settled at most once, a
\* version of a pickup task stands for one decision, and a recorded payout
\* destination stands.
THEOREM PartsHold == Spec => []TripSettledOnce /\ PickupDecidedOnce /\ DestinationStands
  BY SpecImplementsParts, TripAlwaysSettledOnce, PickupAlwaysDecidedOnce, DestinationAlwaysStands

\* For any regions, superadmins, types, machines and operators: moves that do
\* not overlap keep the regions a forest, a deletion takes a region only from
\* who joined it after it counted, and machines keep the links a save asked for
\* and the types and rows that something still names (PATCH and DELETE
\* /api/regions/[id], /api/machines/[id] and /api/waste-types/[id]).
THEOREM SitesAlwaysHold == Spec => []SitesHold
  BY SpecImplementsParts, RegionsStayAForest, FleetStays, PTL DEF SitesHold

\* For any campaigns, sessions, trips, rates and pages: an active program that
\* pays is configured, one that paid nothing does not start to pay who can
\* still earn, and a deletion spares whom it had counted (PATCH and DELETE
\* /api/campaigns/[id], lib/reward-funding.ts).
THEOREM CampaignsAlwaysHold == Spec => []CampaignsHold
  BY SpecImplementsParts, CampaignsStay

=============================================================================
