------------------------------ MODULE Accounts ------------------------------
(***************************************************************************)
(* One privileged account: password, second factor and the links that      *)
(* reset the password (lib/mfa.ts, lib/mfa-challenge-store.ts, lib/totp.ts,*)
(* lib/password-reset.ts and the routes under app/api/auth, users/[id]).   *)
(*                                                                         *)
(* A transaction under the User lock is one step; every other handler is   *)
(* one step per database or Redis call.  A one-time code is the pair of    *)
(* the secret and the 30-second step it was made for; a code matches one   *)
(* step before to one step after the server's.  Wrong passwords and wrong  *)
(* codes are refused without a write and have no step.                     *)
(***************************************************************************)
EXTENDS Naturals, FiniteSets

CONSTANTS
    Requests,       \* requests in progress at a time
    Challenges,     \* login challenges (JWTs) ever issued
    ResetLinks,     \* password reset tokens ever created
    MaxStep,        \* bound: 30-second steps that pass
    MaxVersion,     \* bound: increments of tokenVersion
    MaxSecrets      \* bound: TOTP secrets ever generated

ASSUME AccountsAssumption == {MaxStep, MaxVersion, MaxSecrets} \subseteq Nat \ {0}

VARIABLES
    user,           \* status, passwordHash (by number), tokenVersion
    factor,         \* mfaEnabled, totpSecret (0: none), totpLastUsedStep (0: null)
    setup,          \* pendingTotpSecret and its expiry and tokenVersion
    secrets,        \* secrets generated so far
    now,            \* the server's current step
    request,        \* what each request has in memory
    challenge,      \* tokenVersion in each challenge, 0 while not issued
    consumed,       \* challenges in the store
    link,           \* PasswordResetToken rows
    uses,           \* times each code was accepted
    opened,         \* sessions each challenge opened
    resets          \* password changes each link made

accountVars == <<user, factor, setup, secrets, now, request, challenge, consumed,
                 link, uses, opened, resets>>

Steps     == 1..(MaxStep + 1)
Secrets   == 1..MaxSecrets
NoSetup   == [secret |-> 0, version |-> 0, live |-> FALSE]
NoFactor  == [on |-> FALSE, secret |-> 0, last |-> 0]
Quiet     == [phase |-> "idle", challenge |-> "none", secret |-> 0, step |-> 0,
              link |-> "none", password |-> 0]

AccountsInit ==
    /\ user = [active |-> TRUE, password |-> 1, version |-> 1]
    /\ factor = NoFactor /\ setup = NoSetup /\ secrets = 0 /\ now = 1
    /\ request = [q \in Requests |-> Quiet]
    /\ challenge = [c \in Challenges |-> 0] /\ consumed = {}
    /\ link = [k \in ResetLinks |-> "none"]
    /\ uses = [u \in Secrets \X Steps |-> 0]
    /\ opened = [c \in Challenges |-> 0] /\ resets = [k \in ResetLinks |-> 0]

----------------------------------------------------------------------------
(* Codes.                                                                  *)

\* findTotpStep: the steps around now whose code is accepted.
findTotpStep == {s \in Steps : s + 1 >= now /\ s <= now + 1}

isFreshStep(step, last) == step > last

Accept(secret, step) == uses' = [uses EXCEPT ![<<secret, step>>] = @ + 1]

Increments == user.version <= MaxVersion

----------------------------------------------------------------------------
(* Setting up, replacing and removing the factor, under the User lock.     *)

\* checkProof: with MFA on, an unused code of the active factor.
checkProof(step) ==
    IF factor.on THEN step \in findTotpStep /\ isFreshStep(step, factor.last) ELSE step = 0

beginMfaSetup(step) ==
    /\ user.active /\ checkProof(step)
    /\ secrets < MaxSecrets /\ secrets' = secrets + 1
    /\ setup' = [secret |-> secrets + 1, version |-> user.version, live |-> TRUE]
    /\ IF step = 0 THEN UNCHANGED <<factor, uses>>
       ELSE factor' = [factor EXCEPT !.last = step] /\ Accept(factor.secret, step)
    /\ UNCHANGED <<user, now, request, challenge, consumed, link, opened, resets>>

\* A pending setup that expired or is of an older tokenVersion is discarded.
enableMfa(step) ==
    /\ user.active /\ setup.secret # 0
    /\ setup' = NoSetup
    /\ IF setup.live /\ setup.version = user.version
       THEN /\ Increments /\ step \in findTotpStep
            /\ factor' = [on |-> TRUE, secret |-> setup.secret, last |-> step]
            /\ user' = [user EXCEPT !.version = @ + 1]
            /\ Accept(setup.secret, step)
       ELSE UNCHANGED <<user, factor, uses>>
    /\ UNCHANGED <<secrets, now, request, challenge, consumed, link, opened, resets>>

disableMfa(step) ==
    /\ user.active /\ factor.on /\ Increments /\ checkProof(step)
    /\ factor' = NoFactor /\ setup' = NoSetup
    /\ user' = [user EXCEPT !.version = @ + 1]
    /\ Accept(factor.secret, step)
    /\ UNCHANGED <<secrets, now, request, challenge, consumed, link, opened, resets>>

cancelMfaSetup ==
    /\ setup.secret # 0 /\ setup' = NoSetup
    /\ UNCHANGED <<user, factor, secrets, now, request, challenge, consumed, link, uses,
                   opened, resets>>

SetupExpires ==
    /\ setup.live /\ setup' = [setup EXCEPT !.live = FALSE]
    /\ UNCHANGED <<user, factor, secrets, now, request, challenge, consumed, link, uses,
                   opened, resets>>

----------------------------------------------------------------------------
(* Login: password, challenge, code.                                       *)

\* POST login with the right password; signMfaChallenge carries tokenVersion.
Login(c) ==
    /\ user.active /\ factor.on /\ challenge[c] = 0
    /\ challenge' = [challenge EXCEPT ![c] = user.version]
    /\ UNCHANGED <<user, factor, setup, secrets, now, request, consumed, link, uses,
                   opened, resets>>

\* verifyMfaLoginCode reads without a lock ...
VerifyReads(q, c, step) ==
    /\ request[q] = Quiet /\ challenge[c] # 0
    /\ factor.on /\ user.active
    /\ step \in findTotpStep /\ isFreshStep(step, factor.last)
    /\ request' = [request EXCEPT ![q] = [Quiet EXCEPT !.phase = "claim", !.challenge = c,
                                          !.secret = factor.secret, !.step = step]]
    /\ UNCHANGED <<user, factor, setup, secrets, now, challenge, consumed, link, uses,
                   opened, resets>>

\* Mutant: the claim is not conditional on the step still being unused.
ClaimsByFactor(q) == factor.on /\ user.active /\ factor.secret = request[q].secret

\* ... and claims the step by an update conditional on the same factor.
Claims(q) ==
    /\ factor.on /\ user.active /\ factor.secret = request[q].secret
    /\ factor.last < request[q].step

VerifyClaims(q) ==
    /\ request[q].phase = "claim"
    /\ IF Claims(q)
       THEN /\ factor' = [factor EXCEPT !.last = request[q].step]
            /\ Accept(request[q].secret, request[q].step)
            /\ request' = [request EXCEPT ![q].phase = "check"]
       ELSE request' = [request EXCEPT ![q] = Quiet] /\ UNCHANGED <<factor, uses>>
    /\ UNCHANGED <<user, setup, secrets, now, challenge, consumed, link, opened, resets>>

\* The account is read again and compared with the challenge.
VerifyChecks(q) ==
    /\ request[q].phase = "check"
    /\ request' = [request EXCEPT ![q] =
         IF user.active /\ factor.on /\ user.version = challenge[request[q].challenge]
         THEN [@ EXCEPT !.phase = "consume"] ELSE Quiet]
    /\ UNCHANGED <<user, factor, setup, secrets, now, challenge, consumed, link, uses,
                   opened, resets>>

\* SET NX EXAT; a store that is down refuses the login.
consumeMfaChallenge(q, up) ==
    /\ request[q].phase = "consume"
    /\ LET c == request[q].challenge IN
       IF up /\ c \notin consumed
       THEN /\ consumed' = consumed \cup {c}
            /\ opened' = [opened EXCEPT ![c] = @ + 1]
       ELSE UNCHANGED <<consumed, opened>>
    /\ request' = [request EXCEPT ![q] = Quiet]
    /\ UNCHANGED <<user, factor, setup, secrets, now, challenge, link, uses, resets>>

Tick ==
    /\ now < MaxStep /\ now' = now + 1
    /\ UNCHANGED <<user, factor, setup, secrets, request, challenge, consumed, link, uses,
                   opened, resets>>

----------------------------------------------------------------------------
(* Password and profile.                                                   *)

\* createPasswordResetToken: one transaction, but without the User lock, so
\* what another request inserts meanwhile is not deleted.
ResetLinkDeletes(q, k) ==
    /\ request[q] = Quiet /\ user.active /\ link[k] = "none"
    /\ \A r \in Requests : request[r].phase = "issue" => request[r].link # k
    /\ link' = [j \in ResetLinks |-> IF link[j] = "live" THEN "gone" ELSE link[j]]
    /\ request' = [request EXCEPT ![q] = [Quiet EXCEPT !.phase = "issue", !.link = k]]
    /\ UNCHANGED <<user, factor, setup, secrets, now, challenge, consumed, uses, opened, resets>>

ResetLinkCreates(q) ==
    /\ request[q].phase = "issue"
    /\ link' = [link EXCEPT ![request[q].link] = "live"]
    /\ request' = [request EXCEPT ![q] = Quiet]
    /\ UNCHANGED <<user, factor, setup, secrets, now, challenge, consumed, uses, opened, resets>>

\* findPasswordResetTokenOwner before the lock ...
ResetReads(q, k) ==
    /\ request[q] = Quiet /\ link[k] = "live"
    /\ request' = [request EXCEPT ![q] = [Quiet EXCEPT !.phase = "reset", !.link = k]]
    /\ UNCHANGED <<user, factor, setup, secrets, now, challenge, consumed, link, uses,
                   opened, resets>>

\* ... and consumePasswordResetToken under it: used or expired meanwhile is refused.
consumePasswordResetToken(q) ==
    /\ request[q].phase = "reset"
    /\ LET k == request[q].link IN
       IF link[k] = "live"
       THEN /\ Increments
            /\ link' = [link EXCEPT ![k] = "used"]
            /\ user' = [user EXCEPT !.password = @ + 1, !.version = @ + 1]
            /\ setup' = NoSetup /\ resets' = [resets EXCEPT ![k] = @ + 1]
       ELSE UNCHANGED <<link, user, setup, resets>>
    /\ request' = [request EXCEPT ![q] = Quiet]
    /\ UNCHANGED <<factor, secrets, now, challenge, consumed, uses, opened>>

ResetExpires(k) ==
    /\ link[k] = "live" /\ link' = [link EXCEPT ![k] = "gone"]
    /\ UNCHANGED <<user, factor, setup, secrets, now, request, challenge, consumed, uses,
                   opened, resets>>

\* PATCH auth/me: the current password is compared before the transaction ...
ProfileReads(q) ==
    /\ request[q] = Quiet
    /\ request' = [request EXCEPT ![q] = [Quiet EXCEPT !.phase = "profile", !.password = user.password]]
    /\ UNCHANGED <<user, factor, setup, secrets, now, challenge, consumed, link, uses,
                   opened, resets>>

\* ... and must be the same under the User lock.
ProfileWrites(q) ==
    /\ request[q].phase = "profile"
    /\ IF user.password = request[q].password
       THEN /\ Increments
            /\ user' = [user EXCEPT !.password = @ + 1, !.version = @ + 1]
            /\ setup' = NoSetup
       ELSE UNCHANGED <<user, setup>>
    /\ request' = [request EXCEPT ![q] = Quiet]
    /\ UNCHANGED <<factor, secrets, now, challenge, consumed, link, uses, opened, resets>>

\* PATCH users/[id] of a superadmin: tokenVersion grows if the status differs
\* from the one read (kept in password: 1 active, 2 not).
UpdateReads(q) ==
    /\ request[q] = Quiet
    /\ request' = [request EXCEPT ![q] = [Quiet EXCEPT !.phase = "update",
                                          !.password = IF user.active THEN 1 ELSE 2]]
    /\ UNCHANGED <<user, factor, setup, secrets, now, challenge, consumed, link, uses,
                   opened, resets>>

UpdateWrites(q, active) ==
    /\ request[q].phase = "update"
    /\ LET invalidates == active # (request[q].password = 1) IN
       /\ invalidates => Increments
       /\ user' = [user EXCEPT !.active = active, !.version = IF invalidates THEN @ + 1 ELSE @]
    /\ request' = [request EXCEPT ![q] = Quiet]
    /\ UNCHANGED <<factor, setup, secrets, now, challenge, consumed, link, uses, opened, resets>>

----------------------------------------------------------------------------
AccountsNext ==
    \/ \E step \in Steps \cup {0} : beginMfaSetup(step)
    \/ \E step \in Steps : enableMfa(step) \/ disableMfa(step)
    \/ cancelMfaSetup \/ SetupExpires \/ Tick
    \/ \E c \in Challenges : Login(c)
    \/ \E q \in Requests :
         \/ \E c \in Challenges, step \in Steps : VerifyReads(q, c, step)
         \/ VerifyClaims(q) \/ VerifyChecks(q)
         \/ \E up \in BOOLEAN : consumeMfaChallenge(q, up)
         \/ \E k \in ResetLinks : ResetLinkDeletes(q, k) \/ ResetReads(q, k)
         \/ ResetLinkCreates(q) \/ consumePasswordResetToken(q)
         \/ ProfileReads(q) \/ ProfileWrites(q)
         \/ UpdateReads(q) \/ \E active \in BOOLEAN : UpdateWrites(q, active)
    \/ \E k \in ResetLinks : ResetExpires(k)

AccountsSpec == AccountsInit /\ [][AccountsNext]_accountVars

----------------------------------------------------------------------------
(* Properties.                                                             *)

\* "no second use of an OTP", "of two concurrent logins with one code exactly
\* one succeeds" (lib/mfa.ts): a code, a challenge and a reset link take effect
\* at most once, whichever requests, proofs and factor changes interleave.
CredentialsSingleUse ==
    /\ \A u \in Secrets \X Steps : uses[u] <= 1
    /\ \A c \in Challenges : opened[c] <= 1
    /\ \A k \in ResetLinks : resets[k] <= 1
=============================================================================
