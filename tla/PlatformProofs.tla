--------------------------- MODULE PlatformProofs ---------------------------
(***************************************************************************)
(* Proofs about the platform's side: the privileged account, the e-mail    *)
(* outbox, the erasure of an account, the audit chain and the lock order,  *)
(* and the specification of MCPlatform that puts them side by side.        *)
(***************************************************************************)
EXTENDS MCPlatform, FiniteSetTheorems, SequenceTheorems, TLAPS

-----------------------------------------------------------------------------
(* Accounts.  What was accepted of the active factor's secret lies at or     *)
(* below its last step, and the secret of a pending setup is unused.         *)

Phases == {"idle", "claim", "check", "consume", "issue", "reset", "profile", "update"}

RequestRows == [phase : Phases, challenge : Challenges \cup {"none"}, secret : Nat, step : Nat,
                link : ResetLinks \cup {"none"}, password : Nat]

\* What a request has in memory in each phase.
RowFits(row) == /\ row \in RequestRows
                /\ row.phase = "claim" => row.step \in Steps
                /\ row.phase \in {"claim", "check", "consume"} => row.challenge \in Challenges
                /\ row.phase \in {"issue", "reset"} => row.link \in ResetLinks

AccountShape ==
    /\ secrets \in 0..MaxSecrets
    /\ uses \in [Secrets \X Steps -> Nat]
    /\ request \in [Requests -> RequestRows] /\ \A q \in Requests : RowFits(request[q])
    /\ opened \in [Challenges -> Nat] /\ resets \in [ResetLinks -> Nat]
    /\ link \in [ResetLinks -> {"none", "live", "gone", "used"}]
    /\ factor \in [on : BOOLEAN, secret : Nat, last : Nat]
    /\ setup \in [secret : Nat, version : Nat, live : BOOLEAN]
    /\ user \in [active : BOOLEAN, password : Nat, version : Nat]

SecretsInv == /\ factor.secret <= secrets /\ (factor.on => factor.secret # 0)
              /\ setup.secret <= secrets
              /\ setup.secret # 0 => setup.secret # factor.secret

CodeRows ==
    \A s \in Secrets, t \in Steps :
        /\ uses[<<s, t>>] <= 1
        /\ s > secrets \/ s = setup.secret => uses[<<s, t>>] = 0
        /\ s = factor.secret /\ t > factor.last => uses[<<s, t>>] = 0

CodesInv == SecretsInv /\ CodeRows

ChallengesInv == \A c \in Challenges : opened[c] <= 1 /\ (c \notin consumed => opened[c] = 0)

\* A link about to be created is reserved to one request.
LinksInv ==
    /\ \A k \in ResetLinks : resets[k] <= 1 /\ (link[k] # "used" => resets[k] = 0)
    /\ \A q \in Requests : request[q].phase = "issue" => link[request[q].link] = "none"
    /\ \A q, r \in Requests : request[q].phase = "issue" /\ request[r].phase = "issue"
                              /\ request[q].link = request[r].link => q = r

AccountsInv == AccountShape /\ CodesInv /\ ChallengesInv /\ LinksInv

\* Nothing is issued and nobody is signed in at first.
LEMMA AccountsInitially == AccountsInit => AccountsInv
  <1> SUFFICES ASSUME AccountsInit PROVE AccountsInv
    OBVIOUS
  <1>1. AccountShape
    BY AccountsAssumption DEF AccountsInit, AccountShape, RequestRows, RowFits, Quiet, Phases, NoFactor, NoSetup
  <1>2. CodesInv
    BY AccountsAssumption DEF AccountsInit, CodesInv, SecretsInv, CodeRows, NoFactor, NoSetup, Secrets, Quiet
  <1>3. ChallengesInv
    BY DEF AccountsInit, ChallengesInv, Quiet
  <1>4. LinksInv
    BY DEF AccountsInit, LinksInv, Quiet
  <1> QED
    BY <1>1, <1>2, <1>3, <1>4 DEF AccountsInv

\* One request goes on; the others have in memory what they had.
LEMMA RowMoves ==
    ASSUME AccountShape, NEW q \in Requests, NEW row, RowFits(row), request' = [request EXCEPT ![q] = row]
    PROVE  request' \in [Requests -> RequestRows] /\ \A r \in Requests : RowFits(request'[r])
  <1>1. row \in RequestRows /\ request \in [Requests -> RequestRows] /\ \A r \in Requests : RowFits(request[r])
    BY DEF AccountShape, RowFits
  <1>2. request' \in [Requests -> RequestRows]
    BY <1>1
  <1>3. \A r \in Requests : request'[r] = IF r = q THEN row ELSE request[r]
    BY <1>1
  <1> QED
    BY <1>1, <1>2, <1>3

\* A client at rest fits.
LEMMA QuietFits == RowFits(Quiet) /\ Quiet.phase = "idle"
  BY DEF RowFits, RequestRows, Phases, Quiet

\* A client moves on to the check and to the consumption of what it claimed.
LEMMA NextPhaseFits ==
    ASSUME NEW row, RowFits(row), row.phase \in {"claim", "check"}
    PROVE  /\ RowFits([row EXCEPT !.phase = "check"]) /\ RowFits([row EXCEPT !.phase = "consume"])
  BY DEF RowFits, RequestRows, Phases

\* An unused code is accepted once.
LEMMA AcceptLemma ==
    ASSUME AccountShape, NEW s \in Secrets, NEW t \in Steps, Accept(s, t)
    PROVE  /\ uses' \in [Secrets \X Steps -> Nat]
           /\ uses'[<<s, t>>] = uses[<<s, t>>] + 1
           /\ \A u \in Secrets, v \in Steps : <<u, v>> # <<s, t>> => uses'[<<u, v>>] = uses[<<u, v>>]
  BY DEF Accept, AccountShape

\* A fresh step of the active factor: used once, and by that no longer fresh.
LEMMA StepUsed ==
    ASSUME AccountShape, SecretsInv, CodeRows, factor.on,
           NEW step \in Steps, step > factor.last, Accept(factor.secret, step),
           secrets' \in {secrets, secrets + 1},
           setup'.secret \in {0, setup.secret} \/ (setup'.secret = secrets' /\ secrets' = secrets + 1),
           (factor'.secret = factor.secret /\ factor'.last = step) \/ factor'.secret = 0
    PROVE  CodeRows' /\ uses' \in [Secrets \X Steps -> Nat]
  <1>1. /\ secrets \in Nat /\ factor.secret \in Nat /\ factor.last \in Nat /\ step \in Nat
        /\ factor.secret \in Secrets /\ setup.secret \in Nat /\ setup.secret # factor.secret
    BY AccountsAssumption DEF AccountShape, SecretsInv, Secrets, Steps
  <1>2. /\ uses' \in [Secrets \X Steps -> Nat]
        /\ uses'[<<factor.secret, step>>] = uses[<<factor.secret, step>>] + 1
        /\ \A u \in Secrets, v \in Steps : <<u, v>> # <<factor.secret, step>> => uses'[<<u, v>>] = uses[<<u, v>>]
    BY <1>1, AcceptLemma
  <1>3. ASSUME NEW s \in Secrets, NEW t \in Steps
        PROVE  /\ uses'[<<s, t>>] <= 1
               /\ s > secrets' \/ s = setup'.secret => uses'[<<s, t>>] = 0
               /\ s = factor'.secret /\ t > factor'.last => uses'[<<s, t>>] = 0
    <2>1. /\ uses[<<s, t>>] <= 1
          /\ s > secrets \/ s = setup.secret => uses[<<s, t>>] = 0
          /\ s = factor.secret /\ t > factor.last => uses[<<s, t>>] = 0
      BY <1>3 DEF CodeRows
    <2>2. s \in Nat /\ t \in Nat /\ s # 0 /\ factor.secret <= secrets
      BY <1>3 DEF Secrets, Steps, SecretsInv
    <2>3. CASE <<s, t>> = <<factor.secret, step>>
      <3>1. s = factor.secret /\ t = step /\ uses[<<s, t>>] = 0
        BY <2>1, <2>3
      <3>2. uses'[<<s, t>>] = 1
        BY <1>2, <3>1
      <3> QED
        BY <1>1, <2>2, <3>1, <3>2
    <2>4. CASE <<s, t>> # <<factor.secret, step>>
      <3>1. uses'[<<s, t>>] = uses[<<s, t>>] /\ (s # factor.secret \/ t # step)
        BY <1>2, <2>4
      <3> QED
        BY <1>1, <2>1, <2>2, <3>1
    <2> QED
      BY <2>3, <2>4
  <1> QED
    BY <1>2, <1>3 DEF CodeRows

\* Recording the last step changes nothing else of the factor.
LEMMA FactorMoved ==
    ASSUME AccountShape, NEW step \in Steps, factor' = [factor EXCEPT !.last = step]
    PROVE  /\ factor' \in [on : BOOLEAN, secret : Nat, last : Nat]
           /\ factor'.secret = factor.secret /\ factor'.last = step /\ (factor'.on => factor.on)
  BY DEF AccountShape, Steps

\* Beginning the setup keeps the accepted codes single-use.
LEMMA SetupKeepsCodes ==
    ASSUME AccountsInv, NEW step \in Steps \cup {0}, beginMfaSetup(step)
    PROVE  AccountShape' /\ CodesInv'
  <1>0. /\ secrets < MaxSecrets /\ secrets' = secrets + 1 /\ request' = request
        /\ setup' = [secret |-> secrets + 1, version |-> user.version, live |-> TRUE]
        /\ UNCHANGED <<user, link, opened, resets>>
    BY DEF beginMfaSetup
  <1>a. AccountShape /\ SecretsInv /\ CodeRows /\ secrets \in Nat /\ MaxSecrets \in Nat
    BY AccountsAssumption DEF AccountsInv, CodesInv, AccountShape
  <1>b. secrets' \in 0..MaxSecrets /\ setup' \in [secret : Nat, version : Nat, live : BOOLEAN]
    BY <1>0, <1>a DEF AccountShape
  <1>1. CASE step = 0
    <2>0. factor' = factor /\ uses' = uses
      BY <1>1 DEF beginMfaSetup
    <2>1. AccountShape'
      BY <1>0, <1>a, <1>b, <2>0 DEF AccountShape
    <2>2. SecretsInv' /\ CodeRows'
      BY <1>0, <1>a, <2>0 DEF AccountShape, SecretsInv, CodeRows, Secrets
    <2> QED
      BY <1>0, <2>1, <2>2 DEF AccountsInv, CodesInv
  <1>2. CASE step # 0
    <2>1. step \in Steps /\ factor' = [factor EXCEPT !.last = step] /\ Accept(factor.secret, step)
      BY <1>2 DEF beginMfaSetup
    <2>2. factor.on /\ step > factor.last
      BY <1>2 DEF beginMfaSetup, checkProof, isFreshStep
    <2>3. /\ factor' \in [on : BOOLEAN, secret : Nat, last : Nat]
          /\ factor'.secret = factor.secret /\ factor'.last = step /\ (factor'.on => factor.on)
      BY <1>a, <2>1, FactorMoved
    <2>4. CodeRows' /\ uses' \in [Secrets \X Steps -> Nat]
      BY <1>0, <1>a, <2>1, <2>2, <2>3, StepUsed
    <2>5. AccountShape'
      BY <1>0, <1>a, <1>b, <2>3, <2>4 DEF AccountShape
    <2>6. SecretsInv'
      BY <1>0, <1>a, <2>3 DEF AccountShape, SecretsInv
    <2> QED
      BY <1>0, <2>4, <2>5, <2>6 DEF AccountsInv, CodesInv
  <1> QED
    BY <1>1, <1>2

\* So does enabling the factor.
LEMMA EnableKeepsCodes ==
    ASSUME AccountsInv, NEW step \in Steps, enableMfa(step)
    PROVE  AccountShape' /\ CodesInv'
  <1>0. /\ setup' = NoSetup /\ setup.secret # 0
        /\ UNCHANGED <<secrets, request, link, opened, resets>>
    BY DEF enableMfa
  <1>a. AccountShape /\ SecretsInv /\ CodeRows /\ secrets \in Nat /\ MaxSecrets \in Nat
    BY AccountsAssumption DEF AccountsInv, CodesInv, AccountShape
  <1>b. NoSetup \in [secret : Nat, version : Nat, live : BOOLEAN] /\ NoSetup.secret = 0
    BY DEF NoSetup
  <1>1. CASE setup.live /\ setup.version = user.version
    <2>1. /\ factor' = [on |-> TRUE, secret |-> setup.secret, last |-> step]
          /\ user' = [user EXCEPT !.version = @ + 1] /\ Accept(setup.secret, step)
      BY <1>1 DEF enableMfa
    <2>2. setup.secret \in Secrets /\ setup.secret \in Nat /\ step \in Nat
      BY <1>0, <1>a DEF AccountShape, SecretsInv, Secrets, Steps
    <2>3. /\ uses' \in [Secrets \X Steps -> Nat]
          /\ uses'[<<setup.secret, step>>] = uses[<<setup.secret, step>>] + 1
          /\ \A u \in Secrets, v \in Steps : <<u, v>> # <<setup.secret, step>> => uses'[<<u, v>>] = uses[<<u, v>>]
      BY <1>a, <2>1, <2>2, AcceptLemma
    <2>4. factor' \in [on : BOOLEAN, secret : Nat, last : Nat] /\ factor'.secret = setup.secret /\ factor'.last = step
      BY <2>1, <2>2
    <2>5. user' \in [active : BOOLEAN, password : Nat, version : Nat]
      BY <1>a, <2>1 DEF AccountShape
    <2>6. AccountShape'
      BY <1>0, <1>a, <1>b, <2>3, <2>4, <2>5 DEF AccountShape
    <2>7. SecretsInv'
      BY <1>0, <1>a, <1>b, <2>4 DEF AccountShape, SecretsInv
    <2>8. ASSUME NEW s \in Secrets, NEW t \in Steps
          PROVE  /\ uses'[<<s, t>>] <= 1
                 /\ s > secrets' \/ s = setup'.secret => uses'[<<s, t>>] = 0
                 /\ s = factor'.secret /\ t > factor'.last => uses'[<<s, t>>] = 0
      <3>1. /\ uses[<<s, t>>] <= 1
            /\ s > secrets \/ s = setup.secret => uses[<<s, t>>] = 0
            /\ s \in Nat /\ t \in Nat /\ s # 0 /\ setup.secret <= secrets
        BY <1>a, <2>8 DEF CodeRows, Secrets, Steps, SecretsInv
      <3>2. CASE <<s, t>> = <<setup.secret, step>>
        <4>1. s = setup.secret /\ t = step /\ uses[<<s, t>>] = 0
          BY <3>1, <3>2
        <4>2. uses'[<<s, t>>] = 1
          BY <2>3, <4>1
        <4> QED
          BY <1>0, <1>a, <1>b, <2>2, <2>4, <3>1, <4>1, <4>2
      <3>3. CASE <<s, t>> # <<setup.secret, step>>
        <4>1. uses'[<<s, t>>] = uses[<<s, t>>]
          BY <2>3, <3>3
        <4> QED
          BY <1>0, <1>a, <1>b, <2>2, <2>4, <3>1, <4>1
      <3> QED
        BY <3>2, <3>3
    <2> QED
      BY <1>0, <2>6, <2>7, <2>8 DEF AccountsInv, CodesInv, CodeRows
  <1>2. CASE ~(setup.live /\ setup.version = user.version)
    <2>1. UNCHANGED <<user, factor, uses>>
      BY <1>2 DEF enableMfa
    <2>2. AccountShape'
      BY <1>0, <1>a, <1>b, <2>1 DEF AccountShape
    <2>3. SecretsInv' /\ CodeRows'
      BY <1>0, <1>a, <1>b, <2>1 DEF AccountShape, SecretsInv, CodeRows, Secrets
    <2> QED
      BY <1>0, <2>2, <2>3 DEF AccountsInv, CodesInv
  <1> QED
    BY <1>1, <1>2

\* So does disabling it.
LEMMA DisableKeepsCodes ==
    ASSUME AccountsInv, NEW step \in Steps, disableMfa(step)
    PROVE  AccountShape' /\ CodesInv'
  <1>0. /\ setup' = NoSetup /\ factor' = NoFactor /\ user' = [user EXCEPT !.version = @ + 1]
        /\ Accept(factor.secret, step)
        /\ UNCHANGED <<secrets, request, link, opened, resets>>
    BY DEF disableMfa
  <1>1. factor.on /\ step > factor.last
    BY DEF disableMfa, checkProof, isFreshStep
  <1>2. AccountShape /\ SecretsInv /\ CodeRows
    BY DEF AccountsInv, CodesInv
  <1>3. /\ NoSetup \in [secret : Nat, version : Nat, live : BOOLEAN] /\ NoSetup.secret = 0
        /\ NoFactor \in [on : BOOLEAN, secret : Nat, last : Nat] /\ NoFactor.secret = 0 /\ ~NoFactor.on
    BY DEF NoSetup, NoFactor
  <1>4. CodeRows' /\ uses' \in [Secrets \X Steps -> Nat]
    BY <1>0, <1>1, <1>2, <1>3, StepUsed
  <1>5. user' \in [active : BOOLEAN, password : Nat, version : Nat]
    BY <1>0, <1>2 DEF AccountShape
  <1>6. AccountShape'
    BY <1>0, <1>2, <1>3, <1>4, <1>5 DEF AccountShape
  <1>7. SecretsInv'
    BY <1>0, <1>2, <1>3 DEF AccountShape, SecretsInv
  <1> QED
    BY <1>0, <1>4, <1>6, <1>7 DEF AccountsInv, CodesInv

\* A login's claim takes effect only on the factor it was checked against.
LEMMA ClaimKeepsCodes ==
    ASSUME AccountsInv, NEW q \in Requests, VerifyClaims(q)
    PROVE  AccountShape' /\ CodesInv'
  <1>0. UNCHANGED <<user, setup, secrets, link, opened, resets>> /\ request[q].phase = "claim"
    BY DEF VerifyClaims
  <1>a. AccountShape /\ SecretsInv /\ CodeRows /\ RowFits(request[q])
    BY DEF AccountsInv, CodesInv, AccountShape
  <1>b. request[q].step \in Steps
    BY <1>0, <1>a DEF RowFits
  <1>1. CASE Claims(q)
    <2> DEFINE row == [request[q] EXCEPT !.phase = "check"]
    <2>1. /\ factor' = [factor EXCEPT !.last = request[q].step]
          /\ Accept(factor.secret, request[q].step) /\ factor.on /\ request[q].step > factor.last
          /\ request' = [request EXCEPT ![q] = row]
      BY <1>1, <1>a, <1>b DEF VerifyClaims, Claims, AccountShape, Steps
    <2>2. /\ factor' \in [on : BOOLEAN, secret : Nat, last : Nat]
          /\ factor'.secret = factor.secret /\ factor'.last = request[q].step /\ (factor'.on => factor.on)
      BY <1>a, <1>b, <2>1, FactorMoved
    <2>3. setup'.secret = setup.secret /\ secrets' = secrets
      BY <1>0
    <2>4. CodeRows' /\ uses' \in [Secrets \X Steps -> Nat]
      BY <1>a, <1>b, <2>1, <2>2, <2>3, StepUsed
    <2>5. RowFits(row)
      BY <1>0, <1>a, NextPhaseFits
    <2> HIDE DEF row
    <2>6. request' \in [Requests -> RequestRows] /\ \A r \in Requests : RowFits(request'[r])
      BY <1>a, <2>1, <2>5, RowMoves
    <2>7. AccountShape'
      BY <1>0, <1>a, <2>2, <2>4, <2>6 DEF AccountShape, RowFits, RequestRows, Steps
    <2>8. SecretsInv'
      BY <1>0, <1>a, <2>2 DEF AccountShape, SecretsInv
    <2> QED
      BY <2>4, <2>7, <2>8 DEF CodesInv
  <1>2. CASE ~Claims(q)
    <2>1. request' = [request EXCEPT ![q] = Quiet] /\ UNCHANGED <<factor, uses>>
      BY <1>2 DEF VerifyClaims
    <2>2. request' \in [Requests -> RequestRows] /\ \A r \in Requests : RowFits(request'[r])
      BY <1>a, <2>1, QuietFits, RowMoves
    <2>3. AccountShape'
      BY <1>0, <1>a, <2>1, <2>2 DEF AccountShape, RowFits, RequestRows, Steps
    <2>4. SecretsInv' /\ CodeRows'
      BY <1>0, <1>a, <2>1 DEF AccountShape, SecretsInv, CodeRows
    <2> QED
      BY <2>3, <2>4 DEF CodesInv
  <1> QED
    BY <1>1, <1>2

\* What neither uses a code nor generates a secret.
LEMMA OtherKeepsCodes ==
    ASSUME AccountShape, SecretsInv, CodeRows, UNCHANGED <<factor, uses, secrets>>,
           setup' \in {setup, NoSetup} \/ setup' = [setup EXCEPT !.live = FALSE],
           user' \in [active : BOOLEAN, password : Nat, version : Nat],
           request' \in [Requests -> RequestRows], \A r \in Requests : RowFits(request'[r]),
           opened' \in [Challenges -> Nat], resets' \in [ResetLinks -> Nat],
           link' \in [ResetLinks -> {"none", "live", "gone", "used"}]
    PROVE  AccountShape' /\ CodesInv'
  <1>0. setup \in [secret : Nat, version : Nat, live : BOOLEAN] /\ setup.secret \in Nat
    BY DEF AccountShape
  <1>1. setup' \in [secret : Nat, version : Nat, live : BOOLEAN] /\ setup'.secret \in {0, setup.secret}
    <2>1. CASE setup' = NoSetup
      BY <2>1 DEF NoSetup
    <2>2. CASE setup' = [setup EXCEPT !.live = FALSE]
      BY <1>0, <2>2
    <2> QED
      BY <1>0, <2>1, <2>2
  <1>2. AccountShape'
    BY <1>1 DEF AccountShape, RowFits, RequestRows, Steps
  <1>3. SecretsInv'
    BY <1>1 DEF AccountShape, SecretsInv
  <1>4. CodeRows'
    <2> SUFFICES ASSUME NEW s \in Secrets, NEW t \in Steps
                 PROVE  /\ uses'[<<s, t>>] <= 1
                        /\ s > secrets' \/ s = setup'.secret => uses'[<<s, t>>] = 0
                        /\ s = factor'.secret /\ t > factor'.last => uses'[<<s, t>>] = 0
      BY DEF CodeRows
    <2>1. s # 0
      BY DEF Secrets
    <2>2. /\ uses[<<s, t>>] <= 1
          /\ s > secrets \/ s = setup.secret => uses[<<s, t>>] = 0
          /\ s = factor.secret /\ t > factor.last => uses[<<s, t>>] = 0
      BY DEF CodeRows
    <2> QED
      BY <1>1, <2>1, <2>2
  <1> QED
    BY <1>2, <1>3, <1>4 DEF CodesInv

\* An update of the user row is a user row.
LEMMA UserTyped ==
    ASSUME AccountShape, NEW p \in Nat, NEW v \in Nat, NEW a \in BOOLEAN
    PROVE  /\ [user EXCEPT !.version = v] \in [active : BOOLEAN, password : Nat, version : Nat]
           /\ [user EXCEPT !.password = p, !.version = v] \in [active : BOOLEAN, password : Nat, version : Nat]
           /\ [user EXCEPT !.active = a, !.version = v] \in [active : BOOLEAN, password : Nat, version : Nat]
  BY DEF AccountShape

\* What leaves the links alone, and what reserves none.
LEMMA OtherKeepsLinks ==
    ASSUME LinksInv, link' = link, resets' = resets,
           \A r \in Requests : request'[r] = request[r] \/ request'[r].phase # "issue"
    PROVE  LinksInv'
  BY DEF LinksInv

\* Steps that issue and consume nothing keep the invariant.
LEMMA QuietAccountKeeps ==
    ASSUME AccountsInv,
           \/ cancelMfaSetup \/ SetupExpires \/ Tick
           \/ \E c \in Challenges : Login(c)
    PROVE  AccountsInv'
  <1>1. /\ UNCHANGED <<factor, uses, secrets, user, request, opened, consumed, resets, link>>
        /\ setup' \in {setup, NoSetup} \/ setup' = [setup EXCEPT !.live = FALSE]
    BY DEF cancelMfaSetup, SetupExpires, Tick, Login
  <1>2. AccountShape /\ SecretsInv /\ CodeRows /\ LinksInv /\ ChallengesInv
    BY DEF AccountsInv, CodesInv
  <1>3. AccountShape' /\ CodesInv'
    <2>1. /\ user' \in [active : BOOLEAN, password : Nat, version : Nat]
          /\ request' \in [Requests -> RequestRows] /\ \A r \in Requests : RowFits(request'[r])
          /\ opened' \in [Challenges -> Nat] /\ resets' \in [ResetLinks -> Nat]
          /\ link' \in [ResetLinks -> {"none", "live", "gone", "used"}]
      BY <1>1, <1>2 DEF AccountShape
    <2> QED
      BY <1>1, <1>2, <2>1, OtherKeepsCodes
  <1>4. LinksInv'
    BY <1>1, <1>2, OtherKeepsLinks
  <1>5. ChallengesInv'
    BY <1>1, <1>2 DEF ChallengesInv
  <1> QED
    BY <1>3, <1>4, <1>5 DEF AccountsInv

\* The steps of the second factor keep the invariant.
LEMMA FactorKeeps ==
    ASSUME AccountsInv,
           \/ \E step \in Steps \cup {0} : beginMfaSetup(step)
           \/ \E step \in Steps : enableMfa(step) \/ disableMfa(step)
    PROVE  AccountsInv'
  <1>1. AccountShape' /\ CodesInv'
    BY SetupKeepsCodes, EnableKeepsCodes, DisableKeepsCodes
  <1>2. UNCHANGED <<request, opened, consumed, resets, link>>
    BY DEF beginMfaSetup, enableMfa, disableMfa
  <1>3. LinksInv' /\ ChallengesInv'
    BY <1>2, OtherKeepsLinks DEF AccountsInv, ChallengesInv
  <1> QED
    BY <1>1, <1>3 DEF AccountsInv

\* A login's steps.
LEMMA LoginKeeps ==
    ASSUME AccountsInv, NEW q \in Requests,
           \/ \E c \in Challenges, step \in Steps : VerifyReads(q, c, step)
           \/ VerifyClaims(q) \/ VerifyChecks(q)
           \/ \E up \in BOOLEAN : consumeMfaChallenge(q, up)
    PROVE  AccountsInv'
  <1>0. AccountShape /\ SecretsInv /\ CodeRows /\ LinksInv /\ ChallengesInv /\ RowFits(request[q])
    BY DEF AccountsInv, CodesInv, AccountShape
  <1>t. /\ user \in [active : BOOLEAN, password : Nat, version : Nat]
        /\ opened \in [Challenges -> Nat] /\ resets \in [ResetLinks -> Nat]
        /\ link \in [ResetLinks -> {"none", "live", "gone", "used"}]
        /\ request \in [Requests -> RequestRows]
    BY <1>0 DEF AccountShape
  <1>1. ASSUME NEW c \in Challenges, NEW step \in Steps, VerifyReads(q, c, step)
        PROVE  AccountsInv'
    <2> DEFINE row == [Quiet EXCEPT !.phase = "claim", !.challenge = c, !.secret = factor.secret, !.step = step]
    <2>1. /\ UNCHANGED <<factor, uses, secrets, setup, user, opened, consumed, resets, link>>
          /\ request' = [request EXCEPT ![q] = row]
      BY <1>1 DEF VerifyReads
    <2>a. factor.secret \in Nat /\ step \in Nat
      BY <1>0 DEF AccountShape, Steps
    <2>b. /\ row.phase = "claim" /\ row.challenge = c /\ row.step = step
          /\ row \in RequestRows
      BY <2>a DEF RequestRows, Phases, Quiet
    <2>2. RowFits(row) /\ row.phase = "claim"
      BY <2>b DEF RowFits
    <2> HIDE DEF row
    <2>3. request' \in [Requests -> RequestRows] /\ \A r \in Requests : RowFits(request'[r])
      BY <1>0, <2>1, <2>2, RowMoves
    <2>4. AccountShape' /\ CodesInv'
      BY <1>0, <1>t, <2>1, <2>3, OtherKeepsCodes
    <2>5. LinksInv' /\ ChallengesInv'
      BY <1>0, <1>t, <2>1, <2>2, OtherKeepsLinks DEF ChallengesInv
    <2> QED
      BY <2>4, <2>5 DEF AccountsInv
  <1>2. CASE VerifyClaims(q)
    <2>1. AccountShape' /\ CodesInv'
      BY <1>2, ClaimKeepsCodes
    <2>2. /\ UNCHANGED <<opened, consumed, resets, link>>
          /\ \A r \in Requests : request'[r] = request[r] \/ request'[r].phase # "issue"
      BY <1>2, <1>t, QuietFits DEF VerifyClaims, RequestRows
    <2>3. LinksInv' /\ ChallengesInv'
      BY <1>0, <2>2, OtherKeepsLinks DEF ChallengesInv
    <2> QED
      BY <2>1, <2>3 DEF AccountsInv
  <1>3. CASE VerifyChecks(q)
    <2> DEFINE row == IF user.active /\ factor.on /\ user.version = challenge[request[q].challenge]
                      THEN [request[q] EXCEPT !.phase = "consume"] ELSE Quiet
    <2>1. /\ UNCHANGED <<factor, uses, secrets, setup, user, opened, consumed, resets, link>>
          /\ request' = [request EXCEPT ![q] = row] /\ request[q].phase = "check"
      BY <1>3, <1>t DEF VerifyChecks
    <2>2. RowFits(row)
      BY <1>0, <2>1, NextPhaseFits, QuietFits
    <2>3. row.phase # "issue"
      BY <1>t, QuietFits DEF RequestRows
    <2> HIDE DEF row
    <2>4. request' \in [Requests -> RequestRows] /\ \A r \in Requests : RowFits(request'[r])
      BY <1>0, <2>1, <2>2, RowMoves
    <2>5. AccountShape' /\ CodesInv'
      BY <1>0, <1>t, <2>1, <2>4, OtherKeepsCodes
    <2>6. LinksInv' /\ ChallengesInv'
      BY <1>0, <1>t, <2>1, <2>3, OtherKeepsLinks DEF ChallengesInv
    <2> QED
      BY <2>5, <2>6 DEF AccountsInv
  <1>4. ASSUME NEW up \in BOOLEAN, consumeMfaChallenge(q, up)
        PROVE  AccountsInv'
    <2> DEFINE c == request[q].challenge
    <2>1. /\ UNCHANGED <<factor, uses, secrets, setup, user, resets, link>>
          /\ request' = [request EXCEPT ![q] = Quiet] /\ request[q].phase = "consume"
          /\ IF up /\ c \notin consumed
             THEN consumed' = consumed \cup {c} /\ opened' = [opened EXCEPT ![c] = @ + 1]
             ELSE UNCHANGED <<consumed, opened>>
      BY <1>4 DEF consumeMfaChallenge
    <2>2. c \in Challenges
      BY <1>0, <2>1 DEF RowFits
    <2>3. request' \in [Requests -> RequestRows] /\ \A r \in Requests : RowFits(request'[r])
      BY <1>0, <2>1, QuietFits, RowMoves
    <2> HIDE DEF c
    <2>4. opened' \in [Challenges -> Nat] /\ ChallengesInv'
      BY <1>0, <1>t, <2>1, <2>2 DEF ChallengesInv
    <2>5. AccountShape' /\ CodesInv'
      BY <1>0, <1>t, <2>1, <2>3, <2>4, OtherKeepsCodes
    <2>6. LinksInv'
      BY <1>0, <1>t, <2>1, QuietFits, OtherKeepsLinks
    <2> QED
      BY <2>4, <2>5, <2>6 DEF AccountsInv
  <1> QED
    BY <1>1, <1>2, <1>3, <1>4

\* Links and password: what a step does to a link is enough.
LEMMA LinkStep ==
    ASSUME LinksInv, link \in [ResetLinks -> {"none", "live", "gone", "used"}],
           resets \in [ResetLinks -> Nat], resets' = resets,
           \A k \in ResetLinks : (link'[k] = "used" <=> link[k] = "used"),
           \A k \in ResetLinks : link[k] = "none" =>
               link'[k] = "none" \/ \A r \in Requests : request'[r].phase = "issue" => request'[r].link # k,
           \A r \in Requests : request'[r] = request[r] \/ request'[r].phase # "issue",
           request \in [Requests -> RequestRows], \A r \in Requests : RowFits(request[r])
    PROVE  LinksInv'
  <1>1. \A k \in ResetLinks : resets'[k] <= 1 /\ (link'[k] # "used" => resets'[k] = 0)
    BY DEF LinksInv
  <1>2. ASSUME NEW q \in Requests, request'[q].phase = "issue"
        PROVE  request'[q] = request[q] /\ link'[request'[q].link] = "none"
    <2>1. request'[q] = request[q] /\ request[q].link \in ResetLinks
      BY <1>2 DEF RowFits
    <2>2. link[request[q].link] = "none"
      BY <1>2, <2>1 DEF LinksInv
    <2> QED
      BY <1>2, <2>1, <2>2
  <1>3. ASSUME NEW q \in Requests, NEW r \in Requests, request'[q].phase = "issue", request'[r].phase = "issue",
               request'[q].link = request'[r].link
        PROVE  q = r
    BY <1>2, <1>3 DEF LinksInv
  <1> QED
    BY <1>1, <1>2, <1>3 DEF LinksInv

\* A request for a link: older live links go, and the new one is reserved.
LEMMA DeletesKeeps ==
    ASSUME AccountsInv, NEW q \in Requests, NEW k \in ResetLinks, ResetLinkDeletes(q, k)
    PROVE  AccountsInv'
  <1>0. AccountShape /\ SecretsInv /\ CodeRows /\ LinksInv /\ ChallengesInv
    BY DEF AccountsInv, CodesInv
  <1>t. /\ user \in [active : BOOLEAN, password : Nat, version : Nat]
        /\ opened \in [Challenges -> Nat] /\ resets \in [ResetLinks -> Nat]
        /\ link \in [ResetLinks -> {"none", "live", "gone", "used"}]
        /\ request \in [Requests -> RequestRows] /\ \A r \in Requests : RowFits(request[r])
    BY <1>0 DEF AccountShape
  <1> DEFINE row == [Quiet EXCEPT !.phase = "issue", !.link = k]
  <1>1. /\ UNCHANGED <<factor, uses, secrets, setup, user, opened, consumed, resets>>
        /\ request' = [request EXCEPT ![q] = row] /\ link[k] = "none"
        /\ \A r \in Requests : request[r].phase = "issue" => request[r].link # k
        /\ link' = [j \in ResetLinks |-> IF link[j] = "live" THEN "gone" ELSE link[j]]
    BY DEF ResetLinkDeletes
  <1>2. row \in RequestRows /\ row.phase = "issue" /\ row.link = k
    BY DEF Quiet, RequestRows, Phases
  <1>3. RowFits(row)
    BY <1>2 DEF RowFits
  <1> HIDE DEF row
  <1>4. request' \in [Requests -> RequestRows] /\ \A r \in Requests : RowFits(request'[r])
    BY <1>0, <1>1, <1>3, RowMoves
  <1>5. /\ link' \in [ResetLinks -> {"none", "live", "gone", "used"}]
        /\ \A j \in ResetLinks : /\ link'[j] = "used" <=> link[j] = "used"
                                 /\ link[j] = "none" => link'[j] = "none"
    BY <1>t, <1>1
  <1>6. AccountShape' /\ CodesInv'
    BY <1>0, <1>t, <1>1, <1>4, <1>5, OtherKeepsCodes
  <1>7. \A r \in Requests : request'[r] = IF r = q THEN row ELSE request[r]
    BY <1>t, <1>1
  <1>8. LinksInv'
    <2>1. \A j \in ResetLinks : resets'[j] <= 1 /\ (link'[j] # "used" => resets'[j] = 0)
      BY <1>0, <1>1, <1>5 DEF LinksInv
    <2>2. ASSUME NEW r \in Requests, request'[r].phase = "issue"
          PROVE  link'[request'[r].link] = "none" /\ (r # q => request'[r] = request[r] /\ request[r].link # k)
      <3>1. CASE r = q
        BY <1>1, <1>2, <1>5, <1>7, <3>1
      <3>2. CASE r # q
        <4>1. request'[r] = request[r] /\ request[r].phase = "issue" /\ request[r].link \in ResetLinks
          BY <1>t, <1>7, <2>2, <3>2 DEF RowFits
        <4>2. link[request[r].link] = "none" /\ request[r].link # k
          BY <1>0, <1>1, <4>1 DEF LinksInv
        <4> QED
          BY <1>5, <3>2, <4>1, <4>2
      <3> QED
        BY <3>1, <3>2
    <2>3. ASSUME NEW r \in Requests, NEW s \in Requests, request'[r].phase = "issue",
                 request'[s].phase = "issue", request'[r].link = request'[s].link
          PROVE  r = s
      <3>1. request'[q].link = k
        BY <1>2, <1>7
      <3>2. CASE r = q \/ s = q
        BY <2>2, <2>3, <3>1, <3>2
      <3>3. CASE r # q /\ s # q
        BY <1>0, <2>2, <2>3, <3>3 DEF LinksInv
      <3> QED
        BY <3>2, <3>3
    <2> QED
      BY <2>1, <2>2, <2>3 DEF LinksInv
  <1>9. ChallengesInv'
    BY <1>0, <1>1 DEF ChallengesInv
  <1> QED
    BY <1>6, <1>8, <1>9 DEF AccountsInv

\* The steps that leave password and account alone.
LEMMA LinkKeeps ==
    ASSUME AccountsInv,
           \/ \E q \in Requests : ResetLinkCreates(q) \/ \E k \in ResetLinks : ResetReads(q, k)
           \/ \E k \in ResetLinks : ResetExpires(k)
    PROVE  AccountsInv'
  <1>0. AccountShape /\ SecretsInv /\ CodeRows /\ LinksInv /\ ChallengesInv
    BY DEF AccountsInv, CodesInv
  <1>t. /\ user \in [active : BOOLEAN, password : Nat, version : Nat]
        /\ opened \in [Challenges -> Nat] /\ resets \in [ResetLinks -> Nat]
        /\ link \in [ResetLinks -> {"none", "live", "gone", "used"}]
        /\ request \in [Requests -> RequestRows] /\ \A r \in Requests : RowFits(request[r])
    BY <1>0 DEF AccountShape
  <1>s. UNCHANGED <<factor, uses, secrets, setup, user, opened, consumed, resets>>
    BY DEF ResetLinkCreates, ResetReads, ResetExpires
  <1>c. ChallengesInv'
    BY <1>0, <1>s DEF ChallengesInv
  <1>1. ASSUME NEW q \in Requests, ResetLinkCreates(q)
        PROVE  AccountsInv'
    <2> DEFINE k == request[q].link
    <2>1. /\ request[q].phase = "issue" /\ link' = [link EXCEPT ![k] = "live"]
          /\ request' = [request EXCEPT ![q] = Quiet]
      BY <1>1 DEF ResetLinkCreates
    <2>2. k \in ResetLinks /\ link[k] = "none"
      BY <1>0, <1>t, <2>1 DEF RowFits, LinksInv
    <2>3. request' \in [Requests -> RequestRows] /\ \A r \in Requests : RowFits(request'[r])
      BY <1>0, <2>1, QuietFits, RowMoves
    <2>4. \A r \in Requests : request'[r] = IF r = q THEN Quiet ELSE request[r]
      BY <1>t, <2>1
    <2>5. \A r \in Requests : request'[r].phase = "issue" => request'[r] = request[r] /\ request[r].link # k
      BY <1>0, <2>1, <2>4, QuietFits DEF LinksInv
    <2> HIDE DEF k
    <2>6. /\ link' \in [ResetLinks -> {"none", "live", "gone", "used"}]
          /\ \A j \in ResetLinks : (link'[j] = "used" <=> link[j] = "used") /\ (j # k => link'[j] = link[j])
      BY <1>t, <2>1, <2>2
    <2>7. AccountShape' /\ CodesInv'
      BY <1>0, <1>t, <1>s, <2>3, <2>6, OtherKeepsCodes
    <2>8. /\ \A r \in Requests : request'[r] = request[r] \/ request'[r].phase # "issue"
          /\ \A j \in ResetLinks : link[j] = "none" =>
                link'[j] = "none" \/ \A r \in Requests : request'[r].phase = "issue" => request'[r].link # j
      BY <2>5, <2>6
    <2>9. LinksInv'
      BY <1>0, <1>t, <1>s, <2>6, <2>8, LinkStep
    <2> QED
      BY <1>c, <2>7, <2>9 DEF AccountsInv
  <1>2. ASSUME NEW q \in Requests, NEW k \in ResetLinks, ResetReads(q, k)
        PROVE  AccountsInv'
    <2> DEFINE row == [Quiet EXCEPT !.phase = "reset", !.link = k]
    <2>1. request' = [request EXCEPT ![q] = row] /\ link' = link
      BY <1>2 DEF ResetReads
    <2>2. row \in RequestRows /\ row.phase = "reset" /\ row.link = k
      BY DEF Quiet, RequestRows, Phases
    <2>3. RowFits(row)
      BY <2>2 DEF RowFits
    <2> HIDE DEF row
    <2>4. request' \in [Requests -> RequestRows] /\ \A r \in Requests : RowFits(request'[r])
      BY <1>0, <2>1, <2>3, RowMoves
    <2>5. AccountShape' /\ CodesInv'
      BY <1>0, <1>t, <1>s, <2>1, <2>4, OtherKeepsCodes
    <2>6. LinksInv'
      BY <1>0, <1>t, <1>s, <2>1, <2>2, OtherKeepsLinks
    <2> QED
      BY <1>c, <2>5, <2>6 DEF AccountsInv
  <1>3. ASSUME NEW k \in ResetLinks, ResetExpires(k)
        PROVE  AccountsInv'
    <2>1. link[k] = "live" /\ link' = [link EXCEPT ![k] = "gone"] /\ request' = request
      BY <1>3 DEF ResetExpires
    <2>2. /\ link' \in [ResetLinks -> {"none", "live", "gone", "used"}]
          /\ \A j \in ResetLinks : (link'[j] = "used" <=> link[j] = "used") /\ (link[j] = "none" => link'[j] = "none")
      BY <1>3, <1>t, <2>1
    <2>3. AccountShape' /\ CodesInv'
      BY <1>0, <1>t, <1>s, <2>1, <2>2, OtherKeepsCodes
    <2>4. LinksInv'
      BY <1>0, <1>t, <1>s, <2>1, <2>2, LinkStep
    <2> QED
      BY <1>c, <2>3, <2>4 DEF AccountsInv
  <1> QED
    BY <1>1, <1>2, <1>3

\* The steps that change the password or the account.
LEMMA ProfileKeeps ==
    ASSUME AccountsInv, NEW q \in Requests,
           \/ consumePasswordResetToken(q) \/ ProfileReads(q) \/ ProfileWrites(q)
           \/ UpdateReads(q) \/ \E active \in BOOLEAN : UpdateWrites(q, active)
    PROVE  AccountsInv'
  <1>0. AccountShape /\ SecretsInv /\ CodeRows /\ LinksInv /\ ChallengesInv
    BY DEF AccountsInv, CodesInv
  <1>t. /\ user \in [active : BOOLEAN, password : Nat, version : Nat]
        /\ opened \in [Challenges -> Nat] /\ resets \in [ResetLinks -> Nat]
        /\ link \in [ResetLinks -> {"none", "live", "gone", "used"}]
        /\ request \in [Requests -> RequestRows] /\ \A r \in Requests : RowFits(request[r])
    BY <1>0 DEF AccountShape
  <1>s. UNCHANGED <<factor, uses, secrets, opened, consumed>>
    BY DEF consumePasswordResetToken, ProfileReads, ProfileWrites, UpdateReads, UpdateWrites
  <1>c. ChallengesInv'
    BY <1>0, <1>s DEF ChallengesInv
  <1>u. /\ user.password + 1 \in Nat /\ user.version + 1 \in Nat /\ user.version \in Nat
        /\ user.password \in Nat
    BY <1>t
  <1>1. CASE consumePasswordResetToken(q)
    <2> DEFINE k == request[q].link
    <2>1. request[q].phase = "reset" /\ request' = [request EXCEPT ![q] = Quiet]
      BY <1>1 DEF consumePasswordResetToken
    <2>2. k \in ResetLinks
      BY <1>t, <2>1 DEF RowFits
    <2>3. request' \in [Requests -> RequestRows] /\ \A r \in Requests : RowFits(request'[r])
      BY <1>0, <2>1, QuietFits, RowMoves
    <2>4. \A r \in Requests : request'[r] = request[r] \/ request'[r].phase # "issue"
      BY <1>t, <2>1, QuietFits
    <2>5. CASE link[k] = "live"
      <3>1. /\ link' = [link EXCEPT ![k] = "used"] /\ setup' = NoSetup
            /\ user' = [user EXCEPT !.password = @ + 1, !.version = @ + 1]
            /\ resets' = [resets EXCEPT ![k] = @ + 1]
        BY <1>1, <2>5 DEF consumePasswordResetToken
      <3> HIDE DEF k
      <3>2. user' \in [active : BOOLEAN, password : Nat, version : Nat]
        BY <1>0, <1>u, <3>1, UserTyped
      <3>3. /\ link' \in [ResetLinks -> {"none", "live", "gone", "used"}] /\ resets' \in [ResetLinks -> Nat]
            /\ link'[k] = "used" /\ resets'[k] = resets[k] + 1
            /\ \A j \in ResetLinks : j # k => link'[j] = link[j] /\ resets'[j] = resets[j]
        BY <1>t, <2>2, <3>1
      <3>4. AccountShape' /\ CodesInv'
        BY <1>0, <1>t, <1>s, <2>3, <3>1, <3>2, <3>3, OtherKeepsCodes
      <3>5. resets[k] = 0
        BY <1>0, <2>2, <2>5 DEF LinksInv
      <3>6. \A j \in ResetLinks : resets'[j] <= 1 /\ (link'[j] # "used" => resets'[j] = 0)
        BY <1>0, <1>t, <3>3, <3>5 DEF LinksInv
      <3>7. ASSUME NEW r \in Requests, request'[r].phase = "issue"
            PROVE  request'[r] = request[r] /\ link'[request'[r].link] = "none"
        <4>1. request'[r] = request[r] /\ request[r].link \in ResetLinks
          BY <1>t, <2>4, <3>7 DEF RowFits
        <4>2. link[request[r].link] = "none"
          BY <1>0, <3>7, <4>1 DEF LinksInv
        <4> QED
          BY <2>5, <3>3, <4>1, <4>2
      <3>8. \A r, u \in Requests : request'[r].phase = "issue" /\ request'[u].phase = "issue"
                                   /\ request'[r].link = request'[u].link => r = u
        BY <1>0, <3>7 DEF LinksInv
      <3>9. LinksInv'
        BY <3>6, <3>7, <3>8 DEF LinksInv
      <3> QED
        BY <1>c, <3>4, <3>9 DEF AccountsInv
    <2>6. CASE link[k] # "live"
      <3>1. UNCHANGED <<link, user, setup, resets>>
        BY <1>1, <2>6 DEF consumePasswordResetToken
      <3>2. AccountShape' /\ CodesInv'
        BY <1>0, <1>t, <1>s, <2>3, <3>1, OtherKeepsCodes
      <3>3. LinksInv'
        BY <1>0, <2>4, <3>1, OtherKeepsLinks
      <3> QED
        BY <1>c, <3>2, <3>3 DEF AccountsInv
    <2> QED
      BY <2>5, <2>6
  <1>2. CASE ProfileReads(q) \/ UpdateReads(q)
    <2>a. PICK f \in {"profile", "update"}, p \in Nat :
              request' = [request EXCEPT ![q] = [Quiet EXCEPT !.phase = f, !.password = p]]
      <3>1. CASE ProfileReads(q)
        BY <1>u, <3>1 DEF ProfileReads
      <3>2. CASE UpdateReads(q)
        BY <3>2 DEF UpdateReads
      <3> QED
        BY <1>2, <3>1, <3>2
    <2> DEFINE row == [Quiet EXCEPT !.phase = f, !.password = p]
    <2>1. request' = [request EXCEPT ![q] = row]
      BY <2>a
    <2>2. UNCHANGED <<setup, user, resets, link>>
      BY <1>2 DEF ProfileReads, UpdateReads
    <2>3. row \in RequestRows /\ row.phase \in {"profile", "update"}
      BY DEF Quiet, RequestRows, Phases
    <2>4. RowFits(row)
      BY <2>3 DEF RowFits
    <2> HIDE DEF row
    <2>5. request' \in [Requests -> RequestRows] /\ \A r \in Requests : RowFits(request'[r])
      BY <1>0, <2>1, <2>4, RowMoves
    <2>6. AccountShape' /\ CodesInv'
      BY <1>0, <1>t, <1>s, <2>2, <2>5, OtherKeepsCodes
    <2>7. \A r \in Requests : request'[r] = request[r] \/ request'[r].phase # "issue"
      BY <1>t, <2>1, <2>3
    <2>8. LinksInv'
      BY <1>0, <2>2, <2>7, OtherKeepsLinks
    <2> QED
      BY <1>c, <2>6, <2>8 DEF AccountsInv
  <1>3. CASE ProfileWrites(q) \/ \E active \in BOOLEAN : UpdateWrites(q, active)
    <2>1. /\ request' = [request EXCEPT ![q] = Quiet] /\ UNCHANGED <<resets, link>>
          /\ setup' \in {setup, NoSetup}
      BY <1>3 DEF ProfileWrites, UpdateWrites
    <2>2. user' \in [active : BOOLEAN, password : Nat, version : Nat]
      <3>1. CASE ProfileWrites(q)
        BY <1>0, <1>t, <1>u, <3>1, UserTyped DEF ProfileWrites
      <3>2. ASSUME NEW active \in BOOLEAN, UpdateWrites(q, active)
            PROVE  user' \in [active : BOOLEAN, password : Nat, version : Nat]
        <4>1. PICK v \in Nat : user' = [user EXCEPT !.active = active, !.version = v]
          BY <1>u, <3>2 DEF UpdateWrites
        <4> QED
          BY <1>0, <1>u, <4>1, UserTyped
      <3> QED
        BY <1>3, <3>1, <3>2
    <2>3. request' \in [Requests -> RequestRows] /\ \A r \in Requests : RowFits(request'[r])
      BY <1>0, <2>1, QuietFits, RowMoves
    <2>4. AccountShape' /\ CodesInv'
      BY <1>0, <1>t, <1>s, <2>1, <2>2, <2>3, OtherKeepsCodes
    <2>5. \A r \in Requests : request'[r] = request[r] \/ request'[r].phase # "issue"
      BY <1>t, <2>1, QuietFits
    <2>6. LinksInv'
      BY <1>0, <2>1, <2>5, OtherKeepsLinks
    <2> QED
      BY <1>c, <2>4, <2>6 DEF AccountsInv
  <1> QED
    BY <1>1, <1>2, <1>3

\* Every step of the accounts keeps the invariant.
LEMMA AccountsKeeps == AccountsInv /\ [AccountsNext]_accountVars => AccountsInv'
  <1>1. AccountsInv /\ AccountsNext => AccountsInv'
    BY QuietAccountKeeps, FactorKeeps, LoginKeeps, DeletesKeeps, LinkKeeps, ProfileKeeps DEF AccountsNext
  <1>2. AccountsInv /\ UNCHANGED accountVars => AccountsInv'
    BY DEF accountVars, AccountsInv, AccountShape, CodesInv, SecretsInv, CodeRows, ChallengesInv, LinksInv
  <1> QED
    BY <1>1, <1>2

\* The invariant says that every credential is used at most once.
LEMMA AccountsGoal == AccountsInv => CredentialsSingleUse
  BY DEF AccountsInv, CodesInv, CodeRows, ChallengesInv, LinksInv, CredentialsSingleUse

-----------------------------------------------------------------------------
(* The outbox.  A row exists when it is one of those queued, a sender's row  *)
(* is one of them, and a sender that is confirmed a mail has let it go.      *)

SenderPhases == {"idle", "claimed", "minted", "cancel", "sent", "failed"}
SenderRows   == [phase : SenderPhases, row : 0..MaxRows, attempts : Nat, fresh : BOOLEAN]
MailRows     == [kind : MailKinds, status : {"absent"} \cup OPEN \cup SETTLED, attempts : Nat,
                 snapshot : Addresses]

QueueInv ==
    /\ queuedMail \in 0..MaxRows /\ rows \in [RowIds -> MailRows]
    /\ sender \in [Senders -> SenderRows] /\ account \in [email : Addresses, verified : BOOLEAN]
    /\ \A r \in RowIds : rows[r].status = "absent" <=> r > queuedMail
    /\ \A s \in Senders : sender[s].phase # "idle" => sender[s].row \in 1..queuedMail
    /\ \A s \in Senders : sender[s].phase = "sent" => sender[s].row \in gone

OutboxInv == QueueInv /\ MailboxProven

\* The mapping of Queue, by name.
MailOf(row) == CASE row.status = "absent" -> "absent"
                 [] row.status \in OPEN   -> "queued"
                 [] row.status = "SENT"   -> "sent"
                 [] OTHER                 -> "dropped"
MailState   == [r \in RowIds |-> CASE rows[r].status = "absent" -> "absent"
                                   [] rows[r].status \in OPEN   -> "queued"
                                   [] rows[r].status = "SENT"   -> "sent"
                                   [] OTHER                     -> "dropped"]
LeftState   == [r \in RowIds |-> r \in gone]

\* The status of a row gives the state of its mail.
LEMMA MailStates ==
    ASSUME NEW row
    PROVE  /\ row.status = "absent" => MailOf(row) = "absent"
           /\ row.status \in OPEN => MailOf(row) = "queued"
           /\ row.status = "SENT" => MailOf(row) = "sent"
           /\ row.status \in {"CANCELLED", "FAILED"} => MailOf(row) = "dropped"
  BY DEF MailOf, OPEN

\* The mails of the abstract queue are the rows of the outbox.
LEMMA MailStateOf == MailState = [r \in RowIds |-> MailOf(rows[r])]
                     /\ MailState' = [r \in RowIds |-> MailOf(rows'[r])]
  BY DEF MailState, MailOf

\* The steps of Queue through the mapping.
LEMMA QueueSteps ==
    ASSUME NEW m \in RowIds
    PROVE  /\ MailState[m] = "absent" /\ MailState' = [MailState EXCEPT ![m] = "queued"] /\ LeftState' = LeftState
                => Queue!Next
           /\ MailState[m] # "absent" /\ LeftState' = [LeftState EXCEPT ![m] = TRUE] /\ MailState' = MailState
                => Queue!Next
           /\ MailState[m] = "queued" /\ LeftState[m] /\ MailState' = [MailState EXCEPT ![m] = "sent"]
              /\ LeftState' = LeftState => Queue!Next
           /\ MailState[m] = "queued" /\ MailState' = [MailState EXCEPT ![m] = "dropped"] /\ LeftState' = LeftState
                => Queue!Next
  <1>1. MailState[m] = "absent" /\ MailState' = [MailState EXCEPT ![m] = "queued"] /\ LeftState' = LeftState
          => Queue!Queue(m)
    BY DEF Queue!Queue, MailState, LeftState
  <1>2. MailState[m] # "absent" /\ LeftState' = [LeftState EXCEPT ![m] = TRUE] /\ MailState' = MailState
          => Queue!Leave(m)
    BY DEF Queue!Leave, MailState, LeftState
  <1>3. MailState[m] = "queued" /\ LeftState[m] /\ MailState' = [MailState EXCEPT ![m] = "sent"]
        /\ LeftState' = LeftState => Queue!Sent(m)
    BY DEF Queue!Sent, MailState, LeftState
  <1>4. MailState[m] = "queued" /\ MailState' = [MailState EXCEPT ![m] = "dropped"] /\ LeftState' = LeftState
          => Queue!Drop(m)
    BY DEF Queue!Drop, MailState, LeftState
  <1>5. Queue!Queue(m) \/ Queue!Leave(m) \/ Queue!Sent(m) \/ Queue!Drop(m) => Queue!Next
    BY DEF Queue!Next
  <1> QED
    BY <1>1, <1>2, <1>3, <1>4, <1>5

\* A step that changes no mail and no count is a stutter of the queue.
LEMMA QueueRests ==
    ASSUME MailState' = MailState, LeftState' = LeftState
    PROVE  UNCHANGED Queue!mailVars
  BY DEF Queue!mailVars, MailState, LeftState

\* A change of one row is a change of one mail.
LEMMA OneRow ==
    ASSUME QueueInv, NEW r \in RowIds, NEW row \in MailRows, rows' = [rows EXCEPT ![r] = row]
    PROVE  /\ MailState' = [MailState EXCEPT ![r] = MailOf(row)]
           /\ rows' \in [RowIds -> MailRows] /\ rows'[r] = row
           /\ \A q \in RowIds : q # r => rows'[q] = rows[q]
  <1>1. rows \in [RowIds -> MailRows]
    BY DEF QueueInv
  <1>2. rows' \in [RowIds -> MailRows] /\ rows'[r] = row /\ \A q \in RowIds : q # r => rows'[q] = rows[q]
    BY <1>1
  <1>3. \A q \in RowIds : MailOf(rows'[q]) = IF q = r THEN MailOf(row) ELSE MailOf(rows[q])
    BY <1>2
  <1>4. MailState' = [MailState EXCEPT ![r] = MailOf(row)]
    BY <1>3, MailStateOf
  <1> QED
    BY <1>2, <1>4

\* Senders go on with the rows they have; a mail leaves before it is confirmed.
LEMMA SendersGoOn ==
    ASSUME QueueInv, UNCHANGED <<rows, queuedMail>>, sender' \in [Senders -> SenderRows],
           account' \in [email : Addresses, verified : BOOLEAN], gone \subseteq gone',
           \A s \in Senders : sender'[s].phase = "idle"
                              \/ (sender[s].phase # "idle" /\ sender'[s].row = sender[s].row),
           \A s \in Senders : sender'[s].phase = "sent" => sender'[s].row \in gone'
    PROVE  QueueInv'
  BY DEF QueueInv

\* A new mail.
LEMMA EnqueueLemma ==
    ASSUME QueueInv, NEW kind \in MailKinds, NEW a \in Addresses, enqueue(kind, a), gone' = gone,
           account' \in [email : Addresses, verified : BOOLEAN], sender' \in [Senders -> SenderRows],
           \A s \in Senders : sender'[s].phase = sender[s].phase /\ sender'[s].row = sender[s].row
    PROVE  QueueInv' /\ Queue!Next
  <1> DEFINE row == [kind |-> kind, status |-> "PENDING", attempts |-> 0, snapshot |-> a]
             r == queuedMail + 1
  <1>1. /\ queuedMail \in Nat /\ MaxRows \in Nat /\ queuedMail < MaxRows /\ queuedMail' = queuedMail + 1
        /\ rows' = [rows EXCEPT ![r] = row]
    BY OutboxAssumption DEF enqueue, QueueInv
  <1>2. r \in RowIds /\ r \in Nat /\ row \in MailRows /\ row.status = "PENDING"
    BY <1>1 DEF RowIds, MailRows, OPEN, SETTLED
  <1>3. MailOf(row) = "queued"
    BY <1>2, MailStates DEF OPEN
  <1>4. rows[r].status = "absent"
    BY <1>1, <1>2 DEF QueueInv
  <1> HIDE DEF row
  <1>5. /\ MailState' = [MailState EXCEPT ![r] = MailOf(row)]
        /\ rows' \in [RowIds -> MailRows] /\ rows'[r] = row
        /\ \A q \in RowIds : q # r => rows'[q] = rows[q]
    BY <1>1, <1>2, OneRow
  <1>6. MailState[r] = "absent"
    BY <1>2, <1>4, MailStateOf, MailStates
  <1>7. LeftState' = LeftState
    BY DEF LeftState
  <1>8. Queue!Next
    BY <1>2, <1>3, <1>5, <1>6, <1>7, QueueSteps
  <1>9. QueueInv'
    <2>1. queuedMail' \in 0..MaxRows
      BY <1>1
    <2>2. \A q \in RowIds : rows'[q].status = "absent" <=> q > queuedMail'
      <3> SUFFICES ASSUME NEW q \in RowIds PROVE rows'[q].status = "absent" <=> q > queuedMail'
        OBVIOUS
      <3>1. CASE q = r
        BY <1>1, <1>2, <1>5, <3>1
      <3>2. CASE q # r
        BY <1>1, <1>5, <3>2 DEF QueueInv, RowIds
      <3> QED
        BY <3>1, <3>2
    <2>3. \A s \in Senders : sender'[s].phase # "idle" => sender'[s].row \in 1..queuedMail'
      BY <1>1 DEF QueueInv
    <2>4. \A s \in Senders : sender'[s].phase = "sent" => sender'[s].row \in gone'
      BY DEF QueueInv
    <2> QED
      BY <1>5, <2>1, <2>2, <2>3, <2>4 DEF QueueInv
  <1> QED
    BY <1>8, <1>9

\* Queueing a mail implements the queueing of the abstract specification.
LEMMA QueueingImplements ==
    ASSUME QueueInv,
           \/ queueEmailVerification \/ InviteAgent \/ ResendInvite \/ \E a \in Addresses : ChangeEmail(a)
    PROVE  QueueInv' /\ Queue!Next
  <1>0. /\ sender \in [Senders -> SenderRows] /\ account \in [email : Addresses, verified : BOOLEAN]
        /\ Invited \in Addresses /\ {"invite", "verification"} = MailKinds
    BY OutboxAssumption DEF QueueInv, MailKinds
  <1>1. CASE queueEmailVerification \/ InviteAgent \/ ResendInvite
    <2>1. /\ UNCHANGED <<sender, account, gone>>
          /\ enqueue("verification", account.email) \/ enqueue("invite", Invited)
      BY <1>1 DEF queueEmailVerification, InviteAgent, ResendInvite, issueTravelAgentInvite
    <2> QED
      BY <1>0, <2>1, EnqueueLemma
  <1>2. ASSUME NEW a \in Addresses, ChangeEmail(a)
        PROVE  QueueInv' /\ Queue!Next
    <2>1. /\ account' = [email |-> a, verified |-> FALSE] /\ enqueue("verification", a) /\ gone' = gone
          /\ sender' = [s \in Senders |->
               IF sender[s].row # 0 /\ rows[sender[s].row].kind = "verification"
               THEN [sender[s] EXCEPT !.fresh = FALSE] ELSE sender[s]]
      BY <1>2 DEF ChangeEmail, clearMailboxProof
    <2>2. \A s \in Senders : /\ [sender[s] EXCEPT !.fresh = FALSE] \in SenderRows
                             /\ [sender[s] EXCEPT !.fresh = FALSE].phase = sender[s].phase
                             /\ [sender[s] EXCEPT !.fresh = FALSE].row = sender[s].row
      BY <1>0 DEF SenderRows
    <2>3. /\ sender' \in [Senders -> SenderRows]
          /\ \A s \in Senders : sender'[s].phase = sender[s].phase /\ sender'[s].row = sender[s].row
      BY <1>0, <2>1, <2>2
    <2>4. account' \in [email : Addresses, verified : BOOLEAN]
      BY <2>1
    <2> QED
      BY <1>0, <2>1, <2>3, <2>4, EnqueueLemma
  <1> QED
    BY <1>1, <1>2

\* Claiming a row is a stutter of the queue.
LEMMA ClaimImplements ==
    ASSUME QueueInv, NEW s \in Senders, NEW r \in RowIds, Claim(s, r)
    PROVE  QueueInv' /\ UNCHANGED Queue!mailVars
  <1>1. PICK n \in Nat : /\ rows' = [rows EXCEPT ![r].status = "SENDING", ![r].attempts = n]
                         /\ sender' = [sender EXCEPT ![s] = [phase |-> "claimed", row |-> r, attempts |-> n,
                                                             fresh |-> FALSE]]
    <2>1. rows[r].attempts + 1 \in Nat /\ CountedTo \in Nat
      BY OutboxAssumption DEF QueueInv, MailRows, CountedTo
    <2> QED
      BY <2>1 DEF Claim
  <1>2. rows[r] \in MailRows /\ rows[r].status \in OPEN /\ UNCHANGED <<queuedMail, account, gone>>
    BY DEF Claim, QueueInv
  <1> DEFINE row == [rows[r] EXCEPT !.status = "SENDING", !.attempts = n]
  <1>3. rows' = [rows EXCEPT ![r] = row]
    BY <1>1 DEF QueueInv
  <1>4. row \in MailRows /\ row.status = "SENDING"
    BY <1>2 DEF MailRows, OPEN
  <1> HIDE DEF row
  <1>5. /\ MailState' = [MailState EXCEPT ![r] = MailOf(row)]
        /\ rows' \in [RowIds -> MailRows] /\ rows'[r] = row
        /\ \A q \in RowIds : q # r => rows'[q] = rows[q]
    BY <1>3, <1>4, OneRow
  <1>6. MailOf(row) = "queued" /\ MailState[r] = "queued"
    BY <1>2, <1>4, MailStates, MailStateOf DEF OPEN
  <1>7. MailState' = MailState
    BY <1>5, <1>6, MailStateOf
  <1>8. UNCHANGED Queue!mailVars
    BY <1>2, <1>7, QueueRests DEF LeftState
  <1>9. QueueInv'
    <2>1. r \in 1..queuedMail /\ r \in 0..MaxRows
      BY <1>2 DEF QueueInv, OPEN, RowIds
    <2>2. [phase |-> "claimed", row |-> r, attempts |-> n, fresh |-> FALSE] \in SenderRows
      BY <2>1 DEF SenderRows, SenderPhases
    <2>3. /\ sender' \in [Senders -> SenderRows]
          /\ \A t \in Senders : sender'[t] = sender[t]
                               \/ (sender'[t].phase = "claimed" /\ sender'[t].row = r)
      BY <1>1, <2>2 DEF QueueInv
    <2>4. \A q \in RowIds : rows'[q].status = "absent" <=> rows[q].status = "absent"
      BY <1>2, <1>4, <1>5 DEF OPEN
    <2> QED
      BY <1>2, <1>5, <2>1, <2>3, <2>4 DEF QueueInv
  <1> QED
    BY <1>8, <1>9

\* Preparing, sending and dying: a copy may leave, and no row changes.
LEMMA SenderImplements ==
    ASSUME QueueInv, NEW s \in Senders,
           \/ \E active \in BOOLEAN : Prepare(s, active)
           \/ PrepareFails(s) \/ Dies(s)
           \/ \E leaves, confirmed \in BOOLEAN : Send(s, leaves, confirmed)
    PROVE  QueueInv' /\ (Queue!Next \/ UNCHANGED Queue!mailVars)
  <1>0. /\ sender \in [Senders -> SenderRows] /\ account \in [email : Addresses, verified : BOOLEAN]
        /\ sender[s] \in SenderRows
    BY DEF QueueInv
  <1>t. UNCHANGED <<rows, queuedMail, account>>
    BY DEF Prepare, PrepareFails, Dies, Send
  <1>m. MailState' = MailState
    BY <1>t DEF MailState
  <1>1. CASE (\E active \in BOOLEAN : Prepare(s, active)) \/ PrepareFails(s) \/ Dies(s)
    <2>1. gone' = gone
      BY <1>1 DEF Prepare, PrepareFails, Dies
    <2>2. UNCHANGED Queue!mailVars
      BY <1>m, <2>1, QueueRests DEF LeftState
    <2>3. /\ sender' \in [Senders -> SenderRows]
          /\ \A t \in Senders : \/ sender'[t].phase = "idle"
                                \/ (sender[t].phase # "idle" /\ sender'[t].row = sender[t].row)
                                \/ sender'[t] = sender[t]
          /\ \A t \in Senders : sender'[t].phase = "sent" => sender[t].phase = "sent"
      <3>1. CASE PrepareFails(s)
        <4>1. sender' = [sender EXCEPT ![s] = [sender[s] EXCEPT !.phase = "failed"]] /\ sender[s].phase = "claimed"
          BY <3>1 DEF PrepareFails
        <4>2. [sender[s] EXCEPT !.phase = "failed"] \in SenderRows
          BY <1>0 DEF SenderRows, SenderPhases
        <4>3. [sender[s] EXCEPT !.phase = "failed"].row = sender[s].row /\ [sender[s] EXCEPT !.phase = "failed"].phase = "failed"
          BY <1>0 DEF SenderRows
        <4> QED
          BY <1>0, <4>1, <4>2, <4>3
      <3>2. CASE Dies(s)
        <4>1. sender' = [sender EXCEPT ![s] = Asleep]
          BY <3>2 DEF Dies
        <4>2. Asleep \in SenderRows /\ Asleep.phase = "idle"
          BY OutboxAssumption DEF Asleep, SenderRows, SenderPhases
        <4> QED
          BY <1>0, <4>1, <4>2
      <3>3. ASSUME NEW active \in BOOLEAN, Prepare(s, active)
            PROVE  /\ sender' \in [Senders -> SenderRows]
                   /\ \A t \in Senders : \/ sender'[t].phase = "idle"
                                         \/ (sender[t].phase # "idle" /\ sender'[t].row = sender[t].row)
                                         \/ sender'[t] = sender[t]
                   /\ \A t \in Senders : sender'[t].phase = "sent" => sender[t].phase = "sent"
        <4>0. sender[s].phase = "claimed" /\ (Mints(s) \/ Cancels(s))
          BY <3>3 DEF Prepare, prepareInvite, prepareVerification
        <4>1. CASE Mints(s)
          <5>1. /\ [sender[s] EXCEPT !.phase = "minted", !.fresh = TRUE] \in SenderRows
                /\ [sender[s] EXCEPT !.phase = "minted", !.fresh = TRUE].phase = "minted"
                /\ [sender[s] EXCEPT !.phase = "minted", !.fresh = TRUE].row = sender[s].row
            BY <1>0 DEF SenderRows, SenderPhases
          <5>2. \A t \in Senders : /\ [sender[t] EXCEPT !.fresh = FALSE] \in SenderRows
                                   /\ [sender[t] EXCEPT !.fresh = FALSE].phase = sender[t].phase
                                   /\ [sender[t] EXCEPT !.fresh = FALSE].row = sender[t].row
            BY <1>0 DEF SenderRows
          <5>3. \A t \in Senders :
                  \/ t = s /\ sender'[t] = [sender[s] EXCEPT !.phase = "minted", !.fresh = TRUE]
                  \/ t # s /\ sender'[t] \in {sender[t], [sender[t] EXCEPT !.fresh = FALSE]}
            BY <4>1 DEF Mints
          <5>4. DOMAIN sender' = Senders /\ sender' = [t \in Senders |-> sender'[t]]
            BY <4>1 DEF Mints
          <5>5. \A t \in Senders : /\ sender'[t] \in SenderRows
                                   /\ \/ sender'[t].phase = sender[t].phase /\ sender'[t].row = sender[t].row
                                      \/ t = s /\ sender'[t].phase = "minted" /\ sender'[t].row = sender[t].row
            BY <1>0, <5>1, <5>2, <5>3
          <5>6. sender' \in [Senders -> SenderRows]
            BY <5>4, <5>5
          <5> QED
            BY <4>0, <5>5, <5>6
        <4>2. CASE Cancels(s)
          <5>1. sender' = [sender EXCEPT ![s] = [sender[s] EXCEPT !.phase = "cancel"]]
            BY <4>2 DEF Cancels
          <5>2. /\ [sender[s] EXCEPT !.phase = "cancel"] \in SenderRows
                /\ [sender[s] EXCEPT !.phase = "cancel"].row = sender[s].row
                /\ [sender[s] EXCEPT !.phase = "cancel"].phase = "cancel"
            BY <1>0 DEF SenderRows, SenderPhases
          <5> QED
            BY <1>0, <4>0, <5>1, <5>2
        <4> QED
          BY <4>0, <4>1, <4>2
      <3> QED
        BY <1>1, <3>1, <3>2, <3>3
    <2>4. QueueInv'
      BY <1>0, <1>t, <2>1, <2>3 DEF QueueInv
    <2> QED
      BY <2>2, <2>4
  <1>2. ASSUME NEW leaves \in BOOLEAN, NEW confirmed \in BOOLEAN, Send(s, leaves, confirmed)
        PROVE  QueueInv' /\ (Queue!Next \/ UNCHANGED Queue!mailVars)
    <2> DEFINE m == sender[s].row
               row == [sender[s] EXCEPT !.phase = IF confirmed THEN "sent" ELSE "failed"]
    <2>1. /\ sender[s].phase = "minted" /\ (confirmed => leaves) /\ sender' = [sender EXCEPT ![s] = row]
          /\ gone' = IF leaves THEN gone \cup {m} ELSE gone
      BY <1>2 DEF Send
    <2>2. row \in SenderRows /\ row.row = m /\ (row.phase = "sent" => confirmed) /\ row.phase \in {"sent", "failed"}
      BY <1>0 DEF SenderRows, SenderPhases
    <2>3. m \in RowIds /\ rows[m].status # "absent"
      <3>1. m \in 1..queuedMail /\ queuedMail \in 0..MaxRows /\ MaxRows \in Nat
        BY <2>1, OutboxAssumption DEF QueueInv
      <3>2. m \in RowIds
        BY <3>1 DEF RowIds
      <3> QED
        BY <3>1, <3>2 DEF QueueInv
    <2> HIDE DEF row, m
    <2>4. /\ sender' \in [Senders -> SenderRows]
          /\ \A t \in Senders : t # s => sender'[t] = sender[t]
          /\ sender'[s] = row
      BY <1>0, <2>1, <2>2
    <2>5. QueueInv'
      <3>1. gone \subseteq gone' /\ (confirmed => m \in gone')
        BY <2>1
      <3>2. \A t \in Senders : sender'[t].phase # "idle" => sender[t].phase # "idle" /\ sender'[t].row = sender[t].row
        BY <2>1, <2>2, <2>4 DEF m
      <3>3. \A t \in Senders : sender'[t].phase = "sent" => sender'[t].row \in gone'
        BY <2>2, <2>4, <3>1 DEF QueueInv
      <3> QED
        BY <1>0, <1>t, <2>4, <3>2, <3>3 DEF QueueInv
    <2>6. MailState[m] # "absent"
      <3>1. rows[m].status \in OPEN \cup SETTLED
        BY <2>3 DEF QueueInv, MailRows
      <3> QED
        BY <2>3, <3>1, MailStates, MailStateOf DEF OPEN, SETTLED
    <2>7. CASE leaves
      <3>1. LeftState' = [LeftState EXCEPT ![m] = TRUE]
        <4>1. gone' = gone \cup {m}
          BY <2>1, <2>7
        <4>2. \A r \in RowIds : r # m => (r \in gone' <=> r \in gone)
          BY <4>1
        <4>3. LeftState'[m] = TRUE
          BY <2>3, <4>1 DEF LeftState
        <4>4. \A r \in RowIds : r # m => LeftState'[r] = LeftState[r]
          BY <4>2 DEF LeftState
        <4>5. \A r \in RowIds : LeftState'[r] = [LeftState EXCEPT ![m] = TRUE][r]
          BY <4>3, <4>4 DEF LeftState
        <4>6. /\ LeftState' = [r \in RowIds |-> LeftState'[r]]
              /\ [LeftState EXCEPT ![m] = TRUE] = [r \in RowIds |-> [LeftState EXCEPT ![m] = TRUE][r]]
          BY DEF LeftState
        <4> QED
          BY <4>5, <4>6
      <3> QED
        BY <1>m, <2>3, <2>5, <2>6, <3>1, QueueSteps
    <2>8. CASE ~leaves
      <3>1. LeftState' = LeftState
        BY <2>1, <2>8 DEF LeftState
      <3> QED
        BY <1>m, <2>5, <3>1, QueueRests
    <2> QED
      BY <2>7, <2>8
  <1> QED
    BY <1>1, <1>2

\* Recording the outcome is a step of the queue or a stutter.
LEMMA RecordImplements ==
    ASSUME QueueInv, NEW s \in Senders, Record(s)
    PROVE  QueueInv' /\ (Queue!Next \/ UNCHANGED Queue!mailVars)
  <1> DEFINE r == sender[s].row
  <1>1. /\ sender[s].phase \in {"cancel", "sent", "failed"} /\ sender' = [sender EXCEPT ![s] = Asleep]
        /\ rows' = IF rows[r].status = "SENDING" THEN [rows EXCEPT ![r].status = Outcome(s)] ELSE rows
        /\ UNCHANGED <<queuedMail, account, gone>>
    BY DEF Record
  <1>2. /\ r \in RowIds /\ rows[r] \in MailRows /\ (sender[s].phase = "sent" => r \in gone)
    <2>1. r \in 1..queuedMail /\ queuedMail \in 0..MaxRows /\ MaxRows \in Nat
      BY <1>1, OutboxAssumption DEF QueueInv
    <2>2. r \in RowIds
      BY <2>1 DEF RowIds
    <2> QED
      BY <2>2 DEF QueueInv
  <1>3. /\ sender' \in [Senders -> SenderRows]
        /\ \A t \in Senders : sender'[t].phase # "idle" => sender'[t] = sender[t]
        /\ \A t \in Senders : sender'[t].phase = "sent" => sender'[t] = sender[t]
    <2>1. Asleep \in SenderRows /\ Asleep.phase = "idle"
      BY OutboxAssumption DEF Asleep, SenderRows, SenderPhases
    <2> QED
      BY <1>1, <2>1 DEF QueueInv
  <1>l. LeftState' = LeftState
    BY <1>1 DEF LeftState
  <1> HIDE DEF r
  <1>4. CASE rows[r].status = "SENDING"
    <2> DEFINE row == [rows[r] EXCEPT !.status = Outcome(s)]
    <2>1. rows' = [rows EXCEPT ![r] = row]
      BY <1>1, <1>4 DEF QueueInv
    <2>2. /\ Outcome(s) \in {"CANCELLED", "SENT", "FAILED", "PENDING"}
          /\ Outcome(s) = "SENT" => sender[s].phase = "sent"
      BY <1>1 DEF Outcome
    <2>3. row \in MailRows /\ row.status = Outcome(s)
      BY <1>2, <2>2 DEF MailRows, OPEN, SETTLED
    <2> HIDE DEF row
    <2>4. /\ MailState' = [MailState EXCEPT ![r] = MailOf(row)]
          /\ rows' \in [RowIds -> MailRows] /\ rows'[r] = row
          /\ \A q \in RowIds : q # r => rows'[q] = rows[q]
      BY <1>2, <2>1, <2>3, OneRow
    <2>5. MailState[r] = "queued"
      BY <1>2, <1>4, MailStates, MailStateOf DEF OPEN
    <2>6. Queue!Next \/ UNCHANGED Queue!mailVars
      <3>1. CASE Outcome(s) = "PENDING"
        <4>1. MailOf(row) = "queued"
          BY <2>3, <3>1, MailStates DEF OPEN
        <4>2. MailState' = MailState
          BY <1>2, <2>4, <2>5, <4>1, MailStateOf
        <4> QED
          BY <1>l, <4>2, QueueRests
      <3>2. CASE Outcome(s) = "SENT"
        <4>1. MailOf(row) = "sent"
          BY <2>3, <3>2, MailStates
        <4>2. LeftState[r]
          BY <1>2, <2>2, <3>2 DEF LeftState
        <4> QED
          BY <1>2, <1>l, <2>4, <2>5, <4>1, <4>2, QueueSteps
      <3>3. CASE Outcome(s) \in {"CANCELLED", "FAILED"}
        <4>1. MailOf(row) = "dropped"
          BY <2>3, <3>3, MailStates
        <4> QED
          BY <1>2, <1>l, <2>4, <2>5, <4>1, QueueSteps
      <3> QED
        BY <2>2, <3>1, <3>2, <3>3
    <2>7. \A q \in RowIds : rows'[q].status = "absent" <=> rows[q].status = "absent"
      BY <1>4, <2>2, <2>3, <2>4
    <2>8. QueueInv'
      BY <1>1, <1>3, <2>4, <2>7 DEF QueueInv
    <2> QED
      BY <2>6, <2>8
  <1>5. CASE rows[r].status # "SENDING"
    <2>1. rows' = rows
      BY <1>1, <1>5
    <2>2. MailState' = MailState
      BY <2>1 DEF MailState
    <2>3. QueueInv'
      BY <1>1, <1>3, <2>1 DEF QueueInv
    <2> QED
      BY <1>l, <2>2, <2>3, QueueRests
  <1> QED
    BY <1>4, <1>5

\* The use of links is a stutter of the queue.
LEMMA LinkUseImplements ==
    ASSUME QueueInv,
           \/ \E target \in {"INVITED", "SUSPENDED", "REMOVED"} : PatchReads(target)
           \/ PatchWrites \/ LinkExpires \/ verifyEmailToken
           \/ \E active \in BOOLEAN : acceptTravelAgentInvite(active)
           \/ UNCHANGED outboxVars
    PROVE  QueueInv' /\ UNCHANGED Queue!mailVars
  <1>1. /\ UNCHANGED <<rows, queuedMail, sender, gone>>
        /\ account' \in {account, [account EXCEPT !.verified = TRUE]}
    BY DEF PatchReads, PatchWrites, LinkExpires, verifyEmailToken, acceptTravelAgentInvite, outboxVars
  <1>2. account' \in [email : Addresses, verified : BOOLEAN]
    <2>1. account \in [email : Addresses, verified : BOOLEAN]
      BY DEF QueueInv
    <2>2. [account EXCEPT !.verified = TRUE] \in [email : Addresses, verified : BOOLEAN]
      BY <2>1
    <2> QED
      BY <1>1, <2>1, <2>2
  <1>3. QueueInv'
    BY <1>1, <1>2 DEF QueueInv
  <1>4. MailState' = MailState /\ LeftState' = LeftState
    BY <1>1 DEF MailState, LeftState
  <1> QED
    BY <1>3, <1>4, QueueRests

\* Every step of the outbox is a step of the queue or a stutter.
LEMMA OutboxImplements ==
    QueueInv /\ [OutboxNext]_outboxVars => QueueInv' /\ [Queue!Next]_Queue!mailVars
  <1>1. QueueInv /\ OutboxNext => QueueInv' /\ (Queue!Next \/ UNCHANGED Queue!mailVars)
    BY QueueingImplements, ClaimImplements, SenderImplements, RecordImplements, LinkUseImplements
       DEF OutboxNext, Runner, Deliver
  <1> QED
    BY <1>1, LinkUseImplements

\* The outbox starts as an initial state of the queue.
LEMMA OutboxInitially == OutboxInit => QueueInv /\ MailboxProven /\ Queue!Init
  <1> SUFFICES ASSUME OutboxInit PROVE QueueInv /\ MailboxProven /\ Queue!Init
    OBVIOUS
  <1>1. MaxRows \in Nat /\ RowIds = 1..MaxRows
    BY OutboxAssumption DEF RowIds
  <1>2. /\ queuedMail = 0 /\ gone = {} /\ \A r \in RowIds : rows[r].status = "absent"
    BY DEF OutboxInit
  <1>3. QueueInv
    <2>1. [kind |-> "invite", status |-> "absent", attempts |-> 0, snapshot |-> Invited] \in MailRows
      BY OutboxAssumption DEF MailRows, MailKinds
    <2>2. rows \in [RowIds -> MailRows]
      BY <2>1 DEF OutboxInit
    <2>3. Asleep \in SenderRows /\ Asleep.phase = "idle"
      BY <1>1 DEF Asleep, SenderRows, SenderPhases
    <2>4. sender \in [Senders -> SenderRows] /\ \A s \in Senders : sender[s].phase = "idle"
      BY <2>3 DEF OutboxInit
    <2>5. account \in [email : Addresses, verified : BOOLEAN]
      BY DEF OutboxInit
    <2> QED
      BY <1>1, <1>2, <2>2, <2>4, <2>5 DEF QueueInv
  <1>4. MailboxProven
    BY DEF OutboxInit, MailboxProven
  <1>5. Queue!Init
    <2>1. MailState = [m \in RowIds |-> "absent"]
      BY <1>2, MailStates, MailStateOf
    <2>2. LeftState = [m \in RowIds |-> FALSE]
      <3>1. \A m \in RowIds : LeftState[m] = FALSE
        <4> SUFFICES ASSUME NEW m \in RowIds PROVE LeftState[m] = FALSE
          OBVIOUS
        <4>1. (m \in gone) = FALSE
          BY <1>2
        <4>2. LeftState[m] = (m \in gone)
          BY DEF LeftState
        <4> QED
          BY <4>1, <4>2
      <3>2. LeftState = [m \in RowIds |-> LeftState[m]]
        BY DEF LeftState
      <3> QED
        BY <3>1, <3>2
    <2>3. MailState = [m \in RowIds |-> "absent"] /\ LeftState = [m \in RowIds |-> FALSE] => Queue!Init
      BY DEF Queue!Init, MailState, LeftState
    <2> QED
      BY <2>1, <2>2, <2>3
  <1> QED
    BY <1>3, <1>4, <1>5

\* Every condition of a proof is read in the step that makes it.
LEMMA MailboxStays == QueueInv /\ MailboxProven /\ [OutboxNext]_outboxVars => MailboxProven'
  <1> SUFFICES ASSUME QueueInv, MailboxProven, [OutboxNext]_outboxVars PROVE MailboxProven'
    OBVIOUS
  <1>0. account \in [email : Addresses, verified : BOOLEAN]
    BY DEF QueueInv
  <1>1. \/ UNCHANGED <<account, member, proof>>
        \/ \E a \in Addresses : ChangeEmail(a)
        \/ verifyEmailToken
        \/ \E active \in BOOLEAN : acceptTravelAgentInvite(active)
    <2>1. CASE OutboxNext
      <3>1. \A s \in Senders : Deliver(s) \/ Dies(s) => UNCHANGED <<account, member, proof>>
        BY DEF Deliver, Dies, Prepare, PrepareFails, Send, Record
      <3> QED
        BY <2>1, <3>1 DEF OutboxNext, Runner, Claim, queueEmailVerification, InviteAgent, ResendInvite, PatchReads,
           PatchWrites, LinkExpires
    <2>2. CASE UNCHANGED outboxVars
      BY <2>2 DEF outboxVars
    <2> QED
      BY <2>1, <2>2
  <1>2. CASE UNCHANGED <<account, member, proof>>
    BY <1>2 DEF MailboxProven
  <1>3. ASSUME NEW a \in Addresses, ChangeEmail(a)
        PROVE  MailboxProven'
    BY <1>3 DEF ChangeEmail, clearMailboxProof, MailboxProven
  <1>4. CASE verifyEmailToken
    BY <1>0, <1>4 DEF verifyEmailToken, MailboxProven
  <1>5. ASSUME NEW active \in BOOLEAN, acceptTravelAgentInvite(active)
        PROVE  MailboxProven'
    BY <1>0, <1>5 DEF acceptTravelAgentInvite, MailboxProven
  <1> QED
    BY <1>1, <1>2, <1>3, <1>4, <1>5

-----------------------------------------------------------------------------
(* Erasure.  The one request carried out leads the account's state: erased   *)
(* is what its first step did, and the files are clean once its second did.  *)

Statuses    == RUNNABLE \cup {"none", "PENDING", "REJECTED", "COMPLETED"}
Deletions   == [status : Statuses, verified : BOOLEAN, token : {"none", "live", "expired"}]
JobPhases   == {"idle", "anonymize", "files", "remove", "mark", "complete", "fail"}
Jobs        == [phase : JobPhases, request : DeletionRequests \cup {"none"}, step : {"none", "anonymize", "files"}]
UploadStates == {"idle", "checked", "written", "attached", "refused", "dead"}

ErasureShape ==
    /\ deletion \in [DeletionRequests -> Deletions]
    /\ anonymizeStep \in [DeletionRequests -> {"none", "open", "done"}]
    /\ filesStep \in [DeletionRequests -> {"none", "open", "done"}]
    /\ runner \in [JobRunners -> Jobs]
    /\ \A r \in JobRunners : runner[r].phase # "idle" => runner[r].request \in DeletionRequests
    /\ upload \in [Uploads -> UploadStates] /\ disk \subseteq Uploads

Carried(d) == deletion[d].verified /\ deletion[d].status \in RUNNABLE \cup {"COMPLETED"}
Clean      == \A u \in disk : upload[u] # "attached"

RequestsInv ==
    /\ \A d \in DeletionRequests : deletion[d].status \in RUNNABLE \cup {"COMPLETED"} => deletion[d].verified
    /\ \A d, e \in DeletionRequests : Carried(d) /\ Carried(e) => d = e
    /\ \A d \in DeletionRequests : deletion[d].status = "COMPLETED" =>
         anonymizeStep[d] = "done" /\ filesStep[d] = "done"

StepsInv ==
    /\ \A d \in DeletionRequests : anonymizeStep[d] = "done" => erased
    /\ \A d \in DeletionRequests : filesStep[d] = "done" => erased /\ Clean
    /\ erased => /\ ~owed /\ ~attached
                 /\ \E d \in DeletionRequests : Carried(d) /\ anonymizeStep[d] = "done"

FilesInv ==
    /\ \A u \in disk : upload[u] \in {"written", "attached", "dead"}
    /\ \A u \in disk : upload[u] = "attached" => attached \/ (erased /\ payload)

JobsInv ==
    \A r \in JobRunners :
        /\ runner[r].phase \in {"files", "remove", "mark"} => anonymizeStep[runner[r].request] = "done"
        /\ runner[r].phase = "mark" => Clean

ErasureInv == ErasureShape /\ RequestsInv /\ StepsInv /\ FilesInv /\ JobsInv

\* A change of one deletion request leaves the others.
LEMMA DeletionMoves ==
    ASSUME ErasureShape, NEW d \in DeletionRequests, NEW row \in Deletions, deletion' = [deletion EXCEPT ![d] = row]
    PROVE  /\ deletion' \in [DeletionRequests -> Deletions] /\ deletion'[d] = row
           /\ \A e \in DeletionRequests : e # d => deletion'[e] = deletion[e]
  BY DEF ErasureShape

\* A change of one runner leaves the others.
LEMMA JobMoves ==
    ASSUME ErasureShape, NEW r \in JobRunners, NEW row \in Jobs, runner' = [runner EXCEPT ![r] = row],
           row.phase # "idle" => row.request \in DeletionRequests
    PROVE  /\ runner' \in [JobRunners -> Jobs]
           /\ \A q \in JobRunners : runner'[q] = IF q = r THEN row ELSE runner[q]
           /\ \A q \in JobRunners : runner'[q].phase # "idle" => runner'[q].request \in DeletionRequests
  <1>1. runner \in [JobRunners -> Jobs]
    BY DEF ErasureShape
  <1>2. /\ runner' \in [JobRunners -> Jobs]
        /\ \A q \in JobRunners : runner'[q] = IF q = r THEN row ELSE runner[q]
    BY <1>1
  <1> QED
    BY <1>2 DEF ErasureShape

\* A request comes, is verified, closed as a duplicate or held.
LEMMA RequestStep ==
    ASSUME ErasureInv, UNCHANGED <<payload, owed, erased, upload, disk, attached, runner>>,
           deletion' \in [DeletionRequests -> Deletions],
           anonymizeStep' \in [DeletionRequests -> {"none", "open", "done"}],
           filesStep' \in [DeletionRequests -> {"none", "open", "done"}],
           \A d \in DeletionRequests : /\ anonymizeStep'[d] = "done" <=> anonymizeStep[d] = "done"
                                       /\ filesStep'[d] = "done" <=> filesStep[d] = "done",
           RequestsInv', \A d \in DeletionRequests : Carried(d) => Carried(d)'
    PROVE  ErasureInv'
  <1>0. ErasureShape /\ RequestsInv /\ StepsInv /\ FilesInv /\ JobsInv
    BY DEF ErasureInv
  <1>1. ErasureShape'
    BY <1>0 DEF ErasureShape
  <1>2. Clean <=> Clean'
    BY DEF Clean
  <1>3. StepsInv'
    BY <1>0, <1>2 DEF StepsInv
  <1>4. FilesInv'
    BY <1>0 DEF FilesInv
  <1>5. JobsInv'
    BY <1>0, <1>2 DEF JobsInv, ErasureShape
  <1> QED
    BY <1>1, <1>3, <1>4, <1>5 DEF ErasureInv

\* A job's step other than the one that anonymizes.
LEMMA JobStep ==
    ASSUME ErasureInv, NEW r \in JobRunners, NEW row \in Jobs, runner' = [runner EXCEPT ![r] = row],
           row.phase # "idle" => row.request \in DeletionRequests,
           UNCHANGED <<anonymizeStep, payload, owed, erased, upload, attached>>, disk' \subseteq disk,
           filesStep' \in [DeletionRequests -> {"none", "open", "done"}],
           \A d \in DeletionRequests : filesStep'[d] = "done" => filesStep[d] = "done" \/ (erased /\ Clean),
           deletion' \in [DeletionRequests -> Deletions],
           RequestsInv', \A d \in DeletionRequests : Carried(d) => Carried(d)',
           row.phase \in {"files", "remove", "mark"} => anonymizeStep[row.request] = "done",
           row.phase = "mark" => Clean'
    PROVE  ErasureInv'
  <1>0. ErasureShape /\ RequestsInv /\ StepsInv /\ FilesInv /\ JobsInv
    BY DEF ErasureInv
  <1>1. /\ runner' \in [JobRunners -> Jobs]
        /\ \A q \in JobRunners : runner'[q] = IF q = r THEN row ELSE runner[q]
        /\ \A q \in JobRunners : runner'[q].phase # "idle" => runner'[q].request \in DeletionRequests
    BY <1>0, JobMoves
  <1>2. ErasureShape'
    BY <1>0, <1>1 DEF ErasureShape
  <1>3. Clean => Clean'
    BY DEF Clean
  <1>4. StepsInv'
    BY <1>0, <1>3 DEF StepsInv
  <1>5. FilesInv'
    BY <1>0 DEF FilesInv
  <1>6. JobsInv'
    BY <1>0, <1>1, <1>3 DEF JobsInv
  <1> QED
    BY <1>2, <1>4, <1>5, <1>6 DEF ErasureInv

\* A step that leaves the requests alone carries the same ones.
LEMMA SameRequests ==
    ASSUME RequestsInv, UNCHANGED <<deletion, anonymizeStep, filesStep>>
    PROVE  RequestsInv' /\ \A d \in DeletionRequests : Carried(d) <=> Carried(d)'
  BY DEF RequestsInv, Carried

\* One request moves on, carried before and after.
LEMMA CarriedMoves ==
    ASSUME ErasureShape, RequestsInv, NEW d \in DeletionRequests, NEW row \in Deletions,
           deletion' = [deletion EXCEPT ![d] = row], Carried(d), row.verified,
           row.status \in RUNNABLE \cup {"COMPLETED"},
           row.status = "COMPLETED" => anonymizeStep'[d] = "done" /\ filesStep'[d] = "done",
           \A e \in DeletionRequests : /\ anonymizeStep[e] = "done" => anonymizeStep'[e] = "done"
                                       /\ filesStep[e] = "done" => filesStep'[e] = "done"
    PROVE  RequestsInv' /\ \A e \in DeletionRequests : Carried(e) => Carried(e)'
  <1>1. /\ deletion'[d] = row
        /\ \A e \in DeletionRequests : e # d => deletion'[e] = deletion[e]
    BY DeletionMoves
  <1>2. \A e \in DeletionRequests : Carried(e) <=> Carried(e)'
    BY <1>1 DEF Carried
  <1>3. \A e, f \in DeletionRequests : Carried(e)' /\ Carried(f)' => e = f
    BY <1>2 DEF RequestsInv
  <1>4. ASSUME NEW e \in DeletionRequests
        PROVE  /\ deletion'[e].status \in RUNNABLE \cup {"COMPLETED"} => deletion'[e].verified
               /\ deletion'[e].status = "COMPLETED" => anonymizeStep'[e] = "done" /\ filesStep'[e] = "done"
    BY <1>1, <1>4 DEF RequestsInv
  <1> QED
    BY <1>2, <1>3, <1>4 DEF RequestsInv

\* A request that was not carried moves on: it is carried after only if it is the only one.
LEMMA OpenMoves ==
    ASSUME ErasureShape, RequestsInv, NEW d \in DeletionRequests, NEW row \in Deletions,
           deletion' = [deletion EXCEPT ![d] = row], ~Carried(d), row.status # "COMPLETED",
           row.status \in RUNNABLE => row.verified /\ \A e \in DeletionRequests : ~Carried(e),
           \A e \in DeletionRequests : /\ anonymizeStep[e] = "done" => anonymizeStep'[e] = "done"
                                       /\ filesStep[e] = "done" => filesStep'[e] = "done"
    PROVE  RequestsInv' /\ \A e \in DeletionRequests : Carried(e) => Carried(e)'
  <1>1. /\ deletion'[d] = row
        /\ \A e \in DeletionRequests : e # d => deletion'[e] = deletion[e]
    BY DeletionMoves
  <1>2. \A e \in DeletionRequests : e # d => (Carried(e) <=> Carried(e)')
    BY <1>1 DEF Carried
  <1>3. Carried(d)' => \A e \in DeletionRequests : ~Carried(e)
    BY <1>1 DEF Carried
  <1>4. \A e, f \in DeletionRequests : Carried(e)' /\ Carried(f)' => e = f
    BY <1>2, <1>3 DEF RequestsInv
  <1>5. ASSUME NEW e \in DeletionRequests
        PROVE  /\ deletion'[e].status \in RUNNABLE \cup {"COMPLETED"} => deletion'[e].verified
               /\ deletion'[e].status = "COMPLETED" => anonymizeStep'[e] = "done" /\ filesStep'[e] = "done"
    BY <1>1, <1>5 DEF RequestsInv
  <1> QED
    BY <1>2, <1>4, <1>5 DEF RequestsInv

\* Starting an erasure keeps the invariant: one request carries it.
LEMMA StartLemma ==
    ASSUME ErasureInv, NEW d \in DeletionRequests, NEW token \in {"none", "live", "expired"},
           startInTransaction(d, token),
           Carried(d) \/ \A e \in DeletionRequests : ~Carried(e),
           UNCHANGED <<payload, owed, erased, upload, disk, attached, runner>>
    PROVE  ErasureInv'
  <1> DEFINE row == [status |-> IF owed THEN "PENDING_RECONCILIATION" ELSE "PROCESSING",
                     verified |-> TRUE, token |-> token]
  <1>0. ErasureShape /\ RequestsInv
    BY DEF ErasureInv
  <1>1. /\ deletion' = [deletion EXCEPT ![d] = row]
        /\ anonymizeStep' = [anonymizeStep EXCEPT ![d] = IF @ = "none" THEN "open" ELSE @]
        /\ filesStep' = [filesStep EXCEPT ![d] = IF @ = "none" THEN "open" ELSE @]
    BY DEF startInTransaction
  <1>2. row \in Deletions /\ row.verified /\ row.status \in RUNNABLE /\ row.status # "COMPLETED"
    BY DEF Deletions, Statuses, RUNNABLE
  <1> HIDE DEF row
  <1>3. /\ anonymizeStep' \in [DeletionRequests -> {"none", "open", "done"}]
        /\ filesStep' \in [DeletionRequests -> {"none", "open", "done"}]
        /\ \A e \in DeletionRequests : /\ anonymizeStep'[e] = "done" <=> anonymizeStep[e] = "done"
                                       /\ filesStep'[e] = "done" <=> filesStep[e] = "done"
    BY <1>0, <1>1 DEF ErasureShape
  <1>4. deletion' \in [DeletionRequests -> Deletions]
    BY <1>0, <1>1, <1>2, DeletionMoves
  <1>5. RequestsInv' /\ \A e \in DeletionRequests : Carried(e) => Carried(e)'
    <2>1. CASE Carried(d)
      BY <1>0, <1>1, <1>2, <1>3, <2>1, CarriedMoves
    <2>2. CASE ~Carried(d)
      BY <1>0, <1>1, <1>2, <1>3, <2>2, OpenMoves
    <2> QED
      BY <2>1, <2>2
  <1> QED
    BY <1>3, <1>4, <1>5, RequestStep

\* Beside a request carried out another one is closed.
LEMMA VerifyLemma ==
    ASSUME ErasureInv, NEW d \in DeletionRequests, verifyAndStart(d), deletion[d].status \in {"none", "PENDING"},
           UNCHANGED <<payload, owed, erased, upload, disk, attached, runner>>
    PROVE  ErasureInv'
  <1>0. ErasureShape /\ RequestsInv /\ deletion[d] \in Deletions
    BY DEF ErasureInv, ErasureShape
  <1>1. ~Carried(d)
    BY DEF Carried, RUNNABLE
  <1>2. CASE Standing(d) # {}
    <2> DEFINE row == [deletion[d] EXCEPT !.status = "REJECTED", !.token = "none"]
    <2>1. deletion' = [deletion EXCEPT ![d] = row] /\ UNCHANGED <<anonymizeStep, filesStep>>
      BY <1>2 DEF verifyAndStart
    <2>2. row \in Deletions /\ row.status = "REJECTED"
      BY <1>0 DEF Deletions, Statuses
    <2> HIDE DEF row
    <2>3. RequestsInv' /\ \A e \in DeletionRequests : Carried(e) => Carried(e)'
      BY <1>0, <1>1, <2>1, <2>2, OpenMoves DEF RUNNABLE
    <2>4. deletion' \in [DeletionRequests -> Deletions]
      BY <1>0, <2>1, <2>2, DeletionMoves
    <2> QED
      BY <1>0, <2>1, <2>3, <2>4, RequestStep DEF ErasureShape
  <1>3. CASE Standing(d) = {}
    <2>1. startInTransaction(d, "none")
      BY <1>3 DEF verifyAndStart
    <2>2. \A e \in DeletionRequests : ~Carried(e)
      BY <1>1, <1>3 DEF Standing, Carried
    <2> QED
      BY <1>1, <2>1, <2>2, StartLemma
  <1> QED
    BY <1>2, <1>3

\* Asking for and confirming a deletion keeps the invariant.
LEMMA RequestsKeep ==
    ASSUME ErasureInv, NEW d \in DeletionRequests,
           \/ createPublicDeletionRequest(d) \/ TokenExpires(d) \/ confirmDeletionRequest(d)
           \/ verifyDeletionRequestByOperator(d) \/ requestErasure(d)
    PROVE  ErasureInv'
  <1>0. ErasureShape /\ RequestsInv /\ deletion[d] \in Deletions
    BY DEF ErasureInv, ErasureShape
  <1>s. UNCHANGED <<payload, owed, erased, upload, disk, attached, runner>>
    BY DEF createPublicDeletionRequest, TokenExpires, confirmDeletionRequest, verifyDeletionRequestByOperator,
       requestErasure
  <1>1. CASE createPublicDeletionRequest(d)
    <2> DEFINE row == [status |-> "PENDING", verified |-> FALSE, token |-> "live"]
    <2>1. deletion' = [deletion EXCEPT ![d] = row] /\ UNCHANGED <<anonymizeStep, filesStep>> /\ ~Carried(d)
      BY <1>1 DEF createPublicDeletionRequest, Carried, RUNNABLE
    <2>2. row \in Deletions /\ row.status = "PENDING"
      BY DEF Deletions, Statuses
    <2> HIDE DEF row
    <2>3. RequestsInv' /\ \A e \in DeletionRequests : Carried(e) => Carried(e)'
      BY <1>0, <2>1, <2>2, OpenMoves DEF RUNNABLE
    <2>4. deletion' \in [DeletionRequests -> Deletions]
      BY <1>0, <2>1, <2>2, DeletionMoves
    <2> QED
      BY <1>0, <1>s, <2>1, <2>3, <2>4, RequestStep DEF ErasureShape
  <1>2. CASE TokenExpires(d)
    <2> DEFINE row == [deletion[d] EXCEPT !.token = "expired"]
    <2>1. deletion' = [deletion EXCEPT ![d] = row] /\ UNCHANGED <<anonymizeStep, filesStep>>
      BY <1>0, <1>2 DEF TokenExpires, ErasureShape
    <2>2. row \in Deletions /\ row.status = deletion[d].status /\ row.verified = deletion[d].verified
      BY <1>0 DEF Deletions
    <2> HIDE DEF row
    <2>3. /\ deletion' \in [DeletionRequests -> Deletions]
          /\ \A e \in DeletionRequests : deletion'[e].status = deletion[e].status
                                         /\ deletion'[e].verified = deletion[e].verified
      BY <1>0, <2>1, <2>2, DeletionMoves
    <2>4. \A e \in DeletionRequests : Carried(e) <=> Carried(e)'
      BY <2>3 DEF Carried
    <2>5. RequestsInv'
      BY <1>0, <2>1, <2>3, <2>4 DEF RequestsInv
    <2> QED
      BY <1>0, <1>s, <2>1, <2>3, <2>4, <2>5, RequestStep DEF ErasureShape
  <1>3. CASE confirmDeletionRequest(d) \/ verifyDeletionRequestByOperator(d)
    BY <1>s, <1>3, VerifyLemma DEF confirmDeletionRequest, verifyDeletionRequestByOperator
  <1>4. CASE requestErasure(d)
    <2> DEFINE running == {e \in DeletionRequests : deletion[e].verified /\ deletion[e].status \in RUNNABLE}
    <2>1. CASE running # {}
      <3>1. /\ d \in running /\ deletion[d].status = "PENDING_RECONCILIATION"
            /\ startInTransaction(d, deletion[d].token)
        BY <1>4, <2>1 DEF requestErasure
      <3>2. Carried(d) /\ deletion[d].token \in {"none", "live", "expired"}
        BY <1>0, <3>1 DEF Carried, Deletions
      <3> HIDE DEF running
      <3>3. deletion[d].status = "PENDING_RECONCILIATION" /\ startInTransaction(d, deletion[d].token)
        BY <3>1
      <3> QED
        BY <1>s, <3>2, <3>3, StartLemma
    <2>2. CASE running = {}
      <3>1. deletion[d].status = "none" /\ verifyAndStart(d)
        BY <1>4, <2>2 DEF requestErasure
      <3> HIDE DEF running
      <3> QED
        BY <1>s, <3>1, VerifyLemma
    <2> QED
      BY <2>1, <2>2
  <1> QED
    BY <1>1, <1>2, <1>3, <1>4

\* A runner begins, fails, reads on or dies: no request changes.
LEMMA RunnersKeep ==
    ASSUME ErasureInv, NEW r \in JobRunners,
           \/ \E d \in DeletionRequests : JobStarts(r, d)
           \/ StepFails(r) \/ FilesStepReads(r) \/ RunnerDies(r)
           \/ \E mounted \in BOOLEAN : deleteProofFiles(r, mounted)
    PROVE  ErasureInv'
  <1>0. /\ ErasureShape /\ RequestsInv /\ StepsInv /\ FilesInv /\ JobsInv
        /\ runner \in [JobRunners -> Jobs] /\ runner[r] \in Jobs
        /\ runner[r].phase # "idle" => runner[r].request \in DeletionRequests
    BY DEF ErasureInv, ErasureShape
  <1>s. UNCHANGED <<deletion, anonymizeStep, filesStep, payload, owed, erased, upload, attached>> /\ disk' \subseteq disk
    BY DEF JobStarts, StepFails, FilesStepReads, RunnerDies, deleteProofFiles
  <1>r. RequestsInv' /\ \A e \in DeletionRequests : Carried(e) => Carried(e)'
    BY <1>0, <1>s, SameRequests
  <1>q. ASSUME NEW row \in Jobs, runner' = [runner EXCEPT ![r] = row],
               row.phase # "idle" => row.request \in DeletionRequests,
               row.phase \in {"files", "remove", "mark"} => anonymizeStep[row.request] = "done",
               row.phase = "mark" => Clean'
        PROVE  ErasureInv'
    BY <1>0, <1>s, <1>r, <1>q, JobStep DEF ErasureShape
  <1>1. ASSUME NEW d \in DeletionRequests, JobStarts(r, d)
        PROVE  ErasureInv'
    <2> DEFINE row == [phase |-> IF anonymizeStep[d] = "done" THEN "files" ELSE "anonymize",
                       request |-> d, step |-> "none"]
    <2>1. runner' = [runner EXCEPT ![r] = row]
      BY <1>1 DEF JobStarts
    <2>2. row \in Jobs /\ row.request = d /\ row.phase \in {"files", "anonymize"}
          /\ (row.phase = "files" => anonymizeStep[d] = "done")
      BY DEF Jobs, JobPhases
    <2> HIDE DEF row
    <2> QED
      BY <1>q, <2>1, <2>2
  <1>2. CASE StepFails(r)
    <2>1. PICK step \in {"files", "anonymize"} :
            runner' = [runner EXCEPT ![r] = [runner[r] EXCEPT !.step = step, !.phase = "fail"]]
      BY <1>0, <1>2 DEF StepFails
    <2> DEFINE row == [runner[r] EXCEPT !.step = step, !.phase = "fail"]
    <2>2. row \in Jobs /\ row.request = runner[r].request /\ row.phase = "fail"
      BY <1>0 DEF Jobs, JobPhases
    <2>3. runner[r].phase # "idle" /\ runner' = [runner EXCEPT ![r] = row]
      BY <1>2, <2>1 DEF StepFails
    <2> HIDE DEF row
    <2> QED
      BY <1>0, <1>q, <2>2, <2>3
  <1>3. CASE FilesStepReads(r)
    <2>1. PICK phase \in {"complete", "remove"} :
            runner' = [runner EXCEPT ![r] = [runner[r] EXCEPT !.phase = phase]]
      BY <1>0, <1>3 DEF FilesStepReads
    <2> DEFINE row == [runner[r] EXCEPT !.phase = phase]
    <2>2. row \in Jobs /\ row.request = runner[r].request /\ row.phase \in {"complete", "remove"}
      BY <1>0 DEF Jobs, JobPhases
    <2>3. /\ runner[r].phase = "files" /\ runner' = [runner EXCEPT ![r] = row]
          /\ anonymizeStep[runner[r].request] = "done"
      BY <1>0, <1>3, <2>1 DEF FilesStepReads, JobsInv
    <2> HIDE DEF row
    <2> QED
      BY <1>0, <1>q, <2>2, <2>3
  <1>4. CASE RunnerDies(r)
    <2>1. runner' = [runner EXCEPT ![r] = AtRest] /\ AtRest \in Jobs /\ AtRest.phase = "idle"
      BY <1>4 DEF RunnerDies, AtRest, Jobs, JobPhases
    <2> QED
      BY <1>q, <2>1
  <1>5. ASSUME NEW mounted \in BOOLEAN, deleteProofFiles(r, mounted)
        PROVE  ErasureInv'
    <2> DEFINE row == [runner[r] EXCEPT !.phase = "mark"]
    <2>1. /\ runner[r].phase = "remove" /\ (mounted \/ ~payload) /\ disk' = IF mounted THEN {} ELSE disk
          /\ runner' = [runner EXCEPT ![r] = row] /\ anonymizeStep[runner[r].request] = "done"
          /\ runner[r].request \in DeletionRequests
      BY <1>0, <1>5 DEF deleteProofFiles, JobsInv
    <2>2. row \in Jobs /\ row.request = runner[r].request /\ row.phase = "mark"
      BY <1>0 DEF Jobs, JobPhases
    <2>3. Clean'
      <3>1. CASE mounted
        BY <2>1, <3>1 DEF Clean
      <3>2. CASE ~mounted
        <4>1. erased /\ ~attached /\ ~payload
          BY <1>0, <2>1, <3>2 DEF StepsInv
        <4>2. \A u \in disk : upload[u] # "attached"
          BY <1>0, <4>1 DEF FilesInv
        <4> QED
          BY <1>s, <2>1, <3>2, <4>2 DEF Clean
      <3> QED
        BY <3>1, <3>2
    <2> HIDE DEF row
    <2> QED
      BY <1>q, <2>1, <2>2, <2>3
  <1> QED
    BY <1>1, <1>2, <1>3, <1>4, <1>5

\* The first step: only the request carried out can take it, once.
LEMMA AnonymizeKeeps ==
    ASSUME ErasureInv, NEW r \in JobRunners, anonymizeAccount(r)
    PROVE  ErasureInv'
  <1> DEFINE d == runner[r].request
  <1>0. /\ ErasureShape /\ RequestsInv /\ StepsInv /\ FilesInv /\ JobsInv
        /\ runner \in [JobRunners -> Jobs] /\ runner[r] \in Jobs
    BY DEF ErasureInv, ErasureShape
  <1>s. UNCHANGED <<filesStep, owed, upload, disk>> /\ runner[r].phase = "anonymize"
    BY DEF anonymizeAccount
  <1>d. d \in DeletionRequests /\ deletion[d] \in Deletions
    BY <1>0, <1>s DEF ErasureShape
  <1>t. filesStep \in [DeletionRequests -> {"none", "open", "done"}]
        /\ anonymizeStep \in [DeletionRequests -> {"none", "open", "done"}]
        /\ deletion \in [DeletionRequests -> Deletions]
    BY <1>0 DEF ErasureShape
  <1>a. AtRest \in Jobs /\ AtRest.phase = "idle"
    BY DEF AtRest, Jobs, JobPhases
  <1>f. /\ [runner[r] EXCEPT !.phase = "files"] \in Jobs
        /\ [runner[r] EXCEPT !.phase = "files"].phase = "files"
        /\ [runner[r] EXCEPT !.phase = "files"].request = d
    BY <1>0 DEF Jobs, JobPhases
  <1> HIDE DEF d
  <1>1. CASE deletion[d].status \notin RUNNABLE
    <2>1. /\ runner' = [runner EXCEPT ![r] = AtRest]
          /\ UNCHANGED <<deletion, anonymizeStep, payload, erased, profile, attached>>
      BY <1>1 DEF anonymizeAccount, d
    <2>2. RequestsInv' /\ \A e \in DeletionRequests : Carried(e) => Carried(e)'
      BY <1>0, <1>s, <2>1, SameRequests
    <2> QED
      BY <1>a, <1>s, <1>t, <2>1, <2>2, JobStep
  <1>2. CASE deletion[d].status \in RUNNABLE /\ anonymizeStep[d] = "done"
    <2>1. /\ runner' = [runner EXCEPT ![r] = [runner[r] EXCEPT !.phase = "files"]]
          /\ UNCHANGED <<deletion, anonymizeStep, payload, erased, profile, attached>>
      BY <1>0, <1>2 DEF anonymizeAccount, d
    <2>2. RequestsInv' /\ \A e \in DeletionRequests : Carried(e) => Carried(e)'
      BY <1>0, <1>s, <2>1, SameRequests
    <2> QED
      BY <1>d, <1>f, <1>s, <1>t, <1>2, <2>1, <2>2, JobStep
  <1>3. CASE deletion[d].status \in RUNNABLE /\ anonymizeStep[d] # "done" /\ owed
    <2> DEFINE row == [deletion[d] EXCEPT !.status = "PENDING_RECONCILIATION"]
    <2>1. /\ deletion' = [deletion EXCEPT ![d] = row]
          /\ runner' = [runner EXCEPT ![r] = AtRest]
          /\ UNCHANGED <<anonymizeStep, payload, erased, profile, attached>>
      BY <1>t, <1>3 DEF anonymizeAccount, d
    <2>2. row \in Deletions /\ row.verified = deletion[d].verified /\ row.status = "PENDING_RECONCILIATION"
      BY <1>d DEF Deletions, Statuses, RUNNABLE
    <2>3. Carried(d)
      BY <1>0, <1>d, <1>3 DEF RequestsInv, Carried
    <2> HIDE DEF row
    <2>4. row.verified /\ row.status \in RUNNABLE /\ row.status # "COMPLETED"
      BY <2>2, <2>3 DEF Carried, RUNNABLE
    <2>5. RequestsInv' /\ \A e \in DeletionRequests : Carried(e) => Carried(e)'
      BY <1>0, <1>d, <1>s, <2>1, <2>2, <2>3, <2>4, CarriedMoves
    <2>6. deletion' \in [DeletionRequests -> Deletions]
      BY <1>0, <1>d, <2>1, <2>2, DeletionMoves
    <2> QED
      BY <1>a, <1>s, <1>t, <2>1, <2>5, <2>6, JobStep
  <1>4. CASE deletion[d].status \in RUNNABLE /\ anonymizeStep[d] # "done" /\ ~owed
    <2> DEFINE row == [deletion[d] EXCEPT !.status = "PROCESSING"]
               job == [runner[r] EXCEPT !.phase = "files"]
    <2>1. /\ erased' = TRUE /\ payload' = attached /\ attached' = FALSE
          /\ anonymizeStep' = [anonymizeStep EXCEPT ![d] = "done"]
          /\ deletion' = [deletion EXCEPT ![d] = row]
          /\ runner' = [runner EXCEPT ![r] = job]
      BY <1>0, <1>t, <1>4 DEF anonymizeAccount, d
    <2>2. row \in Deletions /\ row.verified = deletion[d].verified /\ row.status = "PROCESSING"
      BY <1>d DEF Deletions, Statuses, RUNNABLE
    <2>3. Carried(d)
      BY <1>0, <1>d, <1>4 DEF RequestsInv, Carried
    <2>4. ~erased
      BY <1>0, <1>d, <1>4, <2>3 DEF StepsInv, RequestsInv
    <2>5. /\ anonymizeStep' \in [DeletionRequests -> {"none", "open", "done"}]
          /\ anonymizeStep'[d] = "done"
          /\ \A e \in DeletionRequests : anonymizeStep[e] = "done" => anonymizeStep'[e] = "done"
      BY <1>d, <1>t, <2>1
    <2> HIDE DEF row, job
    <2>6. row.verified /\ row.status \in RUNNABLE /\ row.status # "COMPLETED"
      BY <2>2, <2>3 DEF Carried, RUNNABLE
    <2>7. RequestsInv' /\ \A e \in DeletionRequests : Carried(e) => Carried(e)'
      BY <1>0, <1>d, <1>s, <2>1, <2>2, <2>3, <2>5, <2>6, CarriedMoves
    <2>8. deletion' \in [DeletionRequests -> Deletions]
      BY <1>0, <1>d, <2>1, <2>2, DeletionMoves
    <2>9. /\ runner' \in [JobRunners -> Jobs]
          /\ \A q \in JobRunners : runner'[q] = IF q = r THEN job ELSE runner[q]
          /\ \A q \in JobRunners : runner'[q].phase # "idle" => runner'[q].request \in DeletionRequests
      BY <1>0, <1>d, <1>f, <2>1, JobMoves DEF job
    <2>10. ErasureShape'
      BY <1>0, <1>s, <2>5, <2>8, <2>9 DEF ErasureShape
    <2>11. StepsInv'
      <3>1. \A e \in DeletionRequests : filesStep'[e] # "done"
        BY <1>0, <1>s, <2>4 DEF StepsInv
      <3>2. \E e \in DeletionRequests : Carried(e)' /\ anonymizeStep'[e] = "done"
        BY <1>d, <2>3, <2>5, <2>7
      <3>3. ~owed' /\ ~attached' /\ erased'
        BY <1>s, <1>4, <2>1
      <3> QED
        BY <3>1, <3>2, <3>3 DEF StepsInv
    <2>12. FilesInv'
      BY <1>0, <1>s, <2>1, <2>4 DEF FilesInv
    <2>13. JobsInv'
      <3> SUFFICES ASSUME NEW q \in JobRunners
                   PROVE  /\ runner'[q].phase \in {"files", "remove", "mark"} =>
                               anonymizeStep'[runner'[q].request] = "done"
                          /\ runner'[q].phase = "mark" => Clean'
        BY DEF JobsInv
      <3>1. CASE q = r
        BY <1>f, <2>5, <2>9, <3>1 DEF job
      <3>2. CASE q # r
        <4>1. runner'[q] = runner[q] /\ (runner[q].phase # "idle" => runner[q].request \in DeletionRequests)
          BY <1>0, <2>9, <3>2 DEF ErasureShape
        <4> QED
          BY <1>0, <1>s, <2>5, <4>1 DEF JobsInv, Clean
      <3> QED
        BY <3>1, <3>2
    <2> QED
      BY <2>7, <2>10, <2>11, <2>12, <2>13 DEF ErasureInv
  <1> QED
    BY <1>1, <1>2, <1>3, <1>4

\* A failure, the mark of the file step and the completion.
LEMMA JobsKeep ==
    ASSUME ErasureInv, NEW r \in JobRunners, recordFailure(r) \/ FilesStepMarks(r) \/ completeIfDone(r)
    PROVE  ErasureInv'
  <1> DEFINE d == runner[r].request
  <1>0. /\ ErasureShape /\ RequestsInv /\ StepsInv /\ FilesInv /\ JobsInv
        /\ runner \in [JobRunners -> Jobs] /\ runner[r] \in Jobs
    BY DEF ErasureInv, ErasureShape
  <1>s. UNCHANGED <<anonymizeStep, payload, owed, erased, upload, disk, attached>> /\ runner[r].phase # "idle"
    BY DEF recordFailure, FilesStepMarks, completeIfDone
  <1>d. d \in DeletionRequests /\ deletion[d] \in Deletions
    BY <1>0, <1>s DEF ErasureShape
  <1>t. filesStep \in [DeletionRequests -> {"none", "open", "done"}] /\ deletion \in [DeletionRequests -> Deletions]
    BY <1>0 DEF ErasureShape
  <1>a. AtRest \in Jobs /\ AtRest.phase = "idle"
    BY DEF AtRest, Jobs, JobPhases
  <1>f. /\ [runner[r] EXCEPT !.phase = "complete"] \in Jobs
        /\ [runner[r] EXCEPT !.phase = "complete"].phase = "complete"
        /\ [runner[r] EXCEPT !.phase = "complete"].request = d
    BY <1>0 DEF Jobs, JobPhases
  <1> HIDE DEF d
  <1>1. CASE recordFailure(r)
    <2> DEFINE row == [deletion[d] EXCEPT !.status =
                         IF @ \in {"VERIFIED", "PROCESSING", "RETRYABLE_FAILED"} THEN "RETRYABLE_FAILED" ELSE @]
    <2>1. /\ deletion' = [deletion EXCEPT ![d] = row] /\ UNCHANGED filesStep
          /\ \/ runner' = [runner EXCEPT ![r] = AtRest]
             \/ runner' = [runner EXCEPT ![r] = [runner[r] EXCEPT !.phase = "complete"]]
      BY <1>0, <1>t, <1>1 DEF recordFailure, d
    <2>2. /\ row \in Deletions /\ row.verified = deletion[d].verified
          /\ row.status \in RUNNABLE <=> deletion[d].status \in RUNNABLE
          /\ row.status \notin RUNNABLE => row.status = deletion[d].status
      BY <1>d DEF Deletions, Statuses, RUNNABLE
    <2> HIDE DEF row
    <2>3. /\ deletion' \in [DeletionRequests -> Deletions] /\ deletion'[d] = row
          /\ \A e \in DeletionRequests : e # d => deletion'[e] = deletion[e]
      BY <1>0, <1>d, <2>1, <2>2, DeletionMoves
    <2>4. \A e \in DeletionRequests : /\ Carried(e) <=> Carried(e)'
                                      /\ deletion'[e].verified = deletion[e].verified
                                      /\ deletion'[e].status \in RUNNABLE <=> deletion[e].status \in RUNNABLE
                                      /\ deletion'[e].status = "COMPLETED" => deletion[e].status = "COMPLETED"
      BY <2>2, <2>3 DEF Carried, RUNNABLE
    <2>5. RequestsInv'
      BY <1>0, <1>s, <2>1, <2>4 DEF RequestsInv
    <2>6. CASE runner' = [runner EXCEPT ![r] = AtRest]
      BY <1>a, <1>s, <1>t, <2>1, <2>3, <2>4, <2>5, <2>6, JobStep
    <2>7. CASE runner' = [runner EXCEPT ![r] = [runner[r] EXCEPT !.phase = "complete"]]
      BY <1>d, <1>f, <1>s, <1>t, <2>1, <2>3, <2>4, <2>5, <2>7, JobStep
    <2> QED
      BY <2>1, <2>6, <2>7
  <1>2. CASE FilesStepMarks(r)
    <2>1. /\ filesStep' = [filesStep EXCEPT ![d] = "done"] /\ deletion' = deletion
          /\ runner' = [runner EXCEPT ![r] = [runner[r] EXCEPT !.phase = "complete"]]
      BY <1>0, <1>2 DEF FilesStepMarks, d
    <2>2. erased /\ Clean
      BY <1>0, <1>2, <1>d DEF FilesStepMarks, JobsInv, StepsInv, d
    <2>3. /\ filesStep' \in [DeletionRequests -> {"none", "open", "done"}]
          /\ \A e \in DeletionRequests : filesStep[e] = "done" => filesStep'[e] = "done"
      BY <1>d, <1>t, <2>1
    <2>4. RequestsInv' /\ \A e \in DeletionRequests : Carried(e) => Carried(e)'
      BY <1>0, <1>s, <2>1, <2>3 DEF RequestsInv, Carried
    <2> QED
      BY <1>d, <1>f, <1>s, <1>t, <2>1, <2>2, <2>3, <2>4, JobStep
  <1>3. CASE completeIfDone(r)
    <2>0. runner' = [runner EXCEPT ![r] = AtRest] /\ UNCHANGED filesStep
      BY <1>3 DEF completeIfDone
    <2>1. CASE anonymizeStep[d] = "done" /\ filesStep[d] = "done" /\ deletion[d].status \in RUNNABLE
      <3> DEFINE row == [deletion[d] EXCEPT !.status = "COMPLETED"]
      <3>1. deletion' = [deletion EXCEPT ![d] = row]
        BY <1>t, <1>3, <2>1 DEF completeIfDone, d
      <3>2. row \in Deletions /\ row.verified = deletion[d].verified /\ row.status = "COMPLETED"
        BY <1>d DEF Deletions, Statuses
      <3>3. Carried(d)
        BY <1>0, <1>d, <2>1 DEF RequestsInv, Carried
      <3> HIDE DEF row
      <3>4. row.verified
        BY <3>2, <3>3 DEF Carried
      <3>5. RequestsInv' /\ \A e \in DeletionRequests : Carried(e) => Carried(e)'
        BY <1>0, <1>d, <1>s, <2>0, <2>1, <3>1, <3>2, <3>3, <3>4, CarriedMoves
      <3>6. deletion' \in [DeletionRequests -> Deletions]
        BY <1>0, <1>d, <3>1, <3>2, DeletionMoves
      <3> QED
        BY <1>a, <1>s, <1>t, <2>0, <3>5, <3>6, JobStep
    <2>2. CASE ~(anonymizeStep[d] = "done" /\ filesStep[d] = "done" /\ deletion[d].status \in RUNNABLE)
      <3>1. deletion' = deletion
        BY <1>3, <2>2 DEF completeIfDone, d
      <3>2. RequestsInv' /\ \A e \in DeletionRequests : Carried(e) => Carried(e)'
        BY <1>0, <1>s, <2>0, <3>1, SameRequests
      <3> QED
        BY <1>a, <1>s, <1>t, <2>0, <3>1, <3>2, JobStep
    <2> QED
      BY <2>1, <2>2
  <1> QED
    BY <1>1, <1>2, <1>3

\* What goes on meanwhile: nothing comes to be owed once the account is erased,
\* and without that no proof is attached.
LEMMA MeanwhileKeeps ==
    ASSUME ErasureInv,
           \/ OwedArises \/ OwedSettles \/ ProfileStarts \/ ProfileCommits \/ UNCHANGED erasureVars
           \/ \E u \in Uploads : UploadChecks(u) \/ UploadWrites(u) \/ UploadAttaches(u) \/ UploadDies(u)
    PROVE  ErasureInv'
  <1>0. /\ ErasureShape /\ RequestsInv /\ StepsInv /\ FilesInv /\ JobsInv
        /\ upload \in [Uploads -> UploadStates] /\ disk \subseteq Uploads
    BY DEF ErasureInv, ErasureShape
  <1>s. UNCHANGED <<deletion, anonymizeStep, filesStep, payload, erased, runner>>
    BY DEF OwedArises, OwedSettles, ProfileStarts, ProfileCommits, UploadChecks, UploadWrites, UploadAttaches,
       UploadDies, erasureVars
  <1>r. RequestsInv' /\ \A e \in DeletionRequests : Carried(e) <=> Carried(e)'
    BY <1>0, <1>s, SameRequests
  <1>q. ASSUME upload' \in [Uploads -> UploadStates], disk' \subseteq Uploads, FilesInv',
               erased => ~owed' /\ ~attached', erased /\ Clean => Clean'
        PROVE  ErasureInv'
    <2>1. ErasureShape'
      BY <1>0, <1>s, <1>q DEF ErasureShape
    <2>2. StepsInv'
      BY <1>0, <1>s, <1>r, <1>q DEF StepsInv
    <2>3. JobsInv'
      BY <1>0, <1>s, <1>q DEF JobsInv, StepsInv, ErasureShape
    <2> QED
      BY <1>r, <1>q, <2>1, <2>2, <2>3 DEF ErasureInv
  <1>1. CASE OwedArises \/ OwedSettles \/ ProfileStarts \/ ProfileCommits \/ UNCHANGED erasureVars
    <2>1. UNCHANGED <<upload, disk, attached>> /\ (erased => ~owed')
      BY <1>0, <1>1 DEF OwedArises, OwedSettles, ProfileStarts, ProfileCommits, erasureVars, StepsInv
    <2>2. FilesInv' /\ (Clean => Clean') /\ (erased => ~attached')
      BY <1>0, <1>s, <2>1 DEF FilesInv, Clean, StepsInv
    <2> QED
      BY <1>0, <1>q, <2>1, <2>2
  <1>2. ASSUME NEW u \in Uploads, UploadChecks(u) \/ UploadDies(u) \/ UploadWrites(u)
        PROVE  ErasureInv'
    <2>1. PICK state \in {"checked", "dead", "written"} : upload' = [upload EXCEPT ![u] = state]
      BY <1>2 DEF UploadChecks, UploadDies, UploadWrites
    <2>2. /\ UNCHANGED <<owed, attached>> /\ disk' \subseteq disk \cup {u}
          /\ u \in disk' => state \in {"written", "dead"}
      BY <1>0, <1>2, <2>1 DEF UploadChecks, UploadDies, UploadWrites, FilesInv
    <2>3. /\ upload' \in [Uploads -> UploadStates] /\ disk' \subseteq Uploads /\ upload'[u] = state
          /\ \A v \in Uploads : v # u => upload'[v] = upload[v]
      BY <1>0, <2>1, <2>2 DEF UploadStates
    <2>4. FilesInv'
      BY <1>0, <1>s, <2>2, <2>3 DEF FilesInv
    <2>5. Clean => Clean'
      BY <1>0, <2>2, <2>3 DEF Clean
    <2> QED
      BY <1>0, <1>q, <2>2, <2>3, <2>4, <2>5 DEF StepsInv
  <1>3. ASSUME NEW u \in Uploads, UploadAttaches(u)
        PROVE  ErasureInv'
    <2>1. CASE owed
      <3>1. attached' = TRUE /\ upload' = [upload EXCEPT ![u] = "attached"] /\ UNCHANGED <<disk, owed>> /\ ~erased
        BY <1>0, <1>3, <2>1 DEF UploadAttaches, StepsInv
      <3>2. upload' \in [Uploads -> UploadStates] /\ \A v \in Uploads : v # u => upload'[v] = upload[v]
        BY <1>0, <3>1 DEF UploadStates
      <3>3. upload'[u] = "attached"
        BY <1>0, <3>1
      <3>4. FilesInv'
        BY <1>0, <3>1, <3>2, <3>3 DEF FilesInv
      <3> QED
        BY <1>0, <1>q, <3>1, <3>2, <3>4
    <2>2. CASE ~owed
      <3>1. /\ disk' = disk \ {u} /\ upload' = [upload EXCEPT ![u] = "refused"] /\ UNCHANGED <<attached, owed>>
        BY <1>3, <2>2 DEF UploadAttaches
      <3>2. upload' \in [Uploads -> UploadStates] /\ \A v \in Uploads : v # u => upload'[v] = upload[v]
        BY <1>0, <3>1 DEF UploadStates
      <3>3. FilesInv' /\ (Clean => Clean')
        BY <1>0, <1>s, <3>1, <3>2 DEF FilesInv, Clean
      <3> QED
        BY <1>0, <1>q, <3>1, <3>2, <3>3 DEF StepsInv
    <2> QED
      BY <2>1, <2>2
  <1> QED
    BY <1>1, <1>2, <1>3

\* Every step of the erasure keeps the invariant.
LEMMA ErasureKeeps == ErasureInv /\ [ErasureNext]_erasureVars => ErasureInv'
  <1>1. ErasureInv /\ ErasureNext => ErasureInv'
    BY RequestsKeep, RunnersKeep, AnonymizeKeeps, JobsKeep, MeanwhileKeeps DEF ErasureNext, JobGoesOn
  <1> QED
    BY <1>1, MeanwhileKeeps

\* Nothing is asked for or erased at first.
LEMMA ErasureInitially == ErasureInit => ErasureInv
  <1> SUFFICES ASSUME ErasureInit PROVE ErasureInv
    OBVIOUS
  <1>1. [status |-> "none", verified |-> FALSE, token |-> "none"] \in Deletions /\ "none" \notin RUNNABLE
    BY DEF Deletions, Statuses, RUNNABLE
  <1>2. AtRest \in Jobs /\ AtRest.phase = "idle"
    BY DEF AtRest, Jobs, JobPhases
  <1>3. ErasureShape
    BY <1>1, <1>2 DEF ErasureInit, ErasureShape, UploadStates
  <1>4. RequestsInv
    BY <1>1 DEF ErasureInit, RequestsInv, Carried
  <1>5. StepsInv /\ FilesInv
    BY DEF ErasureInit, StepsInv, FilesInv
  <1>6. JobsInv
    BY <1>2 DEF ErasureInit, JobsInv
  <1> QED
    BY <1>3, <1>4, <1>5, <1>6 DEF ErasureInv

\* The invariant says that a completed request has erased everything owed.
LEMMA ErasureGoal == ErasureInv => CompletedMeansErased
  <1> SUFFICES ASSUME ErasureInv PROVE CompletedMeansErased
    OBVIOUS
  <1> DEFINE all == {d \in DeletionRequests : deletion[d].verified /\ deletion[d].status \in RUNNABLE \cup {"COMPLETED"}}
  <1>1. \A d \in DeletionRequests : deletion[d].status = "COMPLETED" =>
          /\ erased /\ ~owed /\ ~attached
          /\ \A u \in disk : upload[u] \in {"written", "dead"}
    BY DEF ErasureInv, RequestsInv, StepsInv, FilesInv, Clean
  <1>2. \A d, e \in all : d = e
    BY DEF ErasureInv, RequestsInv, Carried
  <1>3. all = {} \/ \E d \in all : all = {d}
    BY <1>2
  <1> HIDE DEF all
  <1>4. Cardinality(all) <= 1
    <2>1. CASE all = {}
      BY <2>1, FS_EmptySet
    <2>2. ASSUME NEW d \in all, all = {d}
          PROVE  Cardinality(all) <= 1
      BY <2>2, FS_Singleton
    <2> QED
      BY <1>3, <2>1, <2>2
  <1> QED
    BY <1>1, <1>4 DEF CompletedMeansErased, all

-----------------------------------------------------------------------------
(* AuditChain.  Whoever has read the head holds the chain lock, so the head  *)
(* he links to is still the head when his row commits: row i has position i  *)
(* and the checksum of row i - 1.  A verification whose cursor stands at row *)
(* c holds that row's checksum, so every page that follows verifies,         *)
(* whatever was appended since the page before.                              *)

Sums == Seq(Nat \X Int)
Rows == [seq : Nat, prev : Sums, sum : Sums, mark : Int]

\* The checksum at position k of the chain, and the row that may follow it.
SumAt(k) == IF k = 0 THEN <<>> ELSE auditRows[k].sum

Linked(r, k, prev) == r.seq = k /\ r.prev = prev /\ r.sum = checksumV2(prev, k, r.mark)

ChainShape == auditRows \in Seq(Rows)

ChainLinked == \A i \in 1..Len(auditRows) : Linked(auditRows[i], i, SumAt(i - 1))

\* A row that was prepared after the present head.
Follows(r) == r \in Rows /\ Linked(r, Len(auditRows) + 1, SumAt(Len(auditRows)))

\* A checksum is a checksum.
LEMMA SumTyped ==
    ASSUME NEW prev \in Sums, NEW k \in Nat, NEW m \in Int
    PROVE  checksumV2(prev, k, m) \in Sums
  BY DEF checksumV2, Sums

\* The chain is a sequence of rows, with a checksum at every place.
LEMMA ShapeFacts ==
    ASSUME ChainShape
    PROVE  /\ Len(auditRows) \in Nat /\ DOMAIN auditRows = 1..Len(auditRows)
           /\ \A i \in 1..Len(auditRows) : auditRows[i] \in Rows
           /\ \A k \in 0..Len(auditRows) : SumAt(k) \in Sums
  <1>1. /\ Len(auditRows) \in Nat /\ DOMAIN auditRows = 1..Len(auditRows)
        /\ \A i \in 1..Len(auditRows) : auditRows[i] \in Rows
    BY DEF ChainShape
  <1>2. <<>> \in Sums /\ \A i \in 1..Len(auditRows) : auditRows[i].sum \in Sums
    BY <1>1 DEF Rows, Sums
  <1> QED
    BY <1>1, <1>2 DEF SumAt

\* The head read by an appender is the last row.
LEMMA HeadIsLast ==
    ASSUME ChainShape, ChainLinked
    PROVE  ChainHead.seq = Len(auditRows) /\ ChainHead.sum = SumAt(Len(auditRows))
  <1> DEFINE n == Len(auditRows)
             all == {auditRows[i] : i \in DOMAIN auditRows}
             Top(r) == \A i \in DOMAIN auditRows : auditRows[i].seq <= r.seq
  <1>1. n \in Nat /\ DOMAIN auditRows = 1..n /\ \A i \in 1..n : auditRows[i].seq = i
    BY ShapeFacts DEF ChainLinked, Linked
  <1>2. CASE n = 0
    <2>1. auditRows = <<>>
      BY <1>1, <1>2 DEF ChainShape
    <2> QED
      BY <1>2, <2>1 DEF ChainHead, NoHead, SumAt
  <1>3. CASE n # 0
    <2>1. auditRows # <<>> /\ n \in 1..n
      BY <1>1, <1>3
    <2>2. auditRows[n] \in all /\ Top(auditRows[n])
      BY <1>1, <2>1
    <2>3. \A r \in all : Top(r) => r = auditRows[n]
      <3> SUFFICES ASSUME NEW i \in 1..n, Top(auditRows[i]) PROVE i = n
        BY <1>1
      <3>1. auditRows[n].seq <= auditRows[i].seq
        BY <1>1, <2>1
      <3>2. n <= i /\ i \in Nat /\ i <= n /\ n \in Nat
        BY <1>1, <2>1, <3>1
      <3> HIDE DEF n
      <3> QED
        BY <3>2
    <2>4. (CHOOSE r \in all : Top(r)) = auditRows[n]
      BY <2>2, <2>3
    <2>5. ChainHead = [seq |-> (CHOOSE r \in all : Top(r)).seq, sum |-> (CHOOSE r \in all : Top(r)).sum]
      BY <2>1 DEF ChainHead
    <2> QED
      BY <1>1, <1>3, <2>1, <2>4, <2>5 DEF SumAt
  <1> QED
    BY <1>2, <1>3

\* The row built on the head of the chain follows it.
LEMMA RowFollows ==
    ASSUME ChainShape, ChainLinked, NEW entry \in Int
    PROVE  Follows(AuditRowAfter(ChainHead, entry)) /\ AuditRowAfter(ChainHead, entry).mark = entry
  <1>1. ChainHead.seq = Len(auditRows) /\ ChainHead.sum = SumAt(Len(auditRows))
    BY HeadIsLast
  <1>2. Len(auditRows) + 1 \in Nat /\ SumAt(Len(auditRows)) \in Sums
    BY ShapeFacts
  <1>3. checksumV2(SumAt(Len(auditRows)), Len(auditRows) + 1, entry) \in Sums
    BY <1>2, SumTyped
  <1> QED
    BY <1>1, <1>2, <1>3 DEF Follows, Linked, AuditRowAfter, Rows

\* A committed row that follows the head keeps the chain linked.
LEMMA AppendKeeps ==
    ASSUME ChainShape, ChainLinked, NEW r, Follows(r), auditRows' = Append(auditRows, r)
    PROVE  /\ ChainShape' /\ ChainLinked' /\ Len(auditRows') = Len(auditRows) + 1
           /\ auditRows'[Len(auditRows) + 1] = r
           /\ \A i \in 1..Len(auditRows) : auditRows'[i] = auditRows[i]
           /\ \A k \in 0..Len(auditRows) : SumAt(k)' = SumAt(k)
  <1>0. Len(auditRows) \in Nat /\ r \in Rows
    BY ShapeFacts DEF Follows
  <1>1. /\ ChainShape' /\ Len(auditRows') = Len(auditRows) + 1
        /\ auditRows'[Len(auditRows) + 1] = r
        /\ \A i \in 1..Len(auditRows) : auditRows'[i] = auditRows[i]
    BY <1>0 DEF ChainShape
  <1>2. \A k \in 0..Len(auditRows) : SumAt(k)' = SumAt(k)
    BY <1>0, <1>1 DEF SumAt
  <1>3. ChainLinked'
    <2> SUFFICES ASSUME NEW i \in 1..(Len(auditRows) + 1)
                 PROVE  Linked(auditRows'[i], i, SumAt(i - 1)')
      BY <1>1 DEF ChainLinked
    <2>1. CASE i \in 1..Len(auditRows)
      <3>1. i - 1 \in 0..Len(auditRows)
        BY <1>0, <2>1
      <3> QED
        BY <1>1, <1>2, <2>1, <3>1 DEF ChainLinked
    <2>2. CASE i = Len(auditRows) + 1
      <3>1. i - 1 = Len(auditRows) /\ Len(auditRows) \in 0..Len(auditRows)
        BY <1>0, <2>2
      <3> QED
        BY <1>1, <1>2, <2>2, <3>1 DEF Follows
    <2> QED
      BY <1>0, <2>1, <2>2
  <1> QED
    BY <1>1, <1>2, <1>3

-----------------------------------------------------------------------------
(* One page of a verification.                                              *)

\* The positions of the page after cursor c are the next ones that exist.
LEMMA PageLemma ==
    ASSUME ChainShape, ChainLinked, walk.cursor \in 0..Len(auditRows)
    PROVE  WalkPage = {i \in 1..Len(auditRows) : walk.cursor < i /\ i <= walk.cursor + AuditBatch}
  <1> DEFINE n == Len(auditRows)
             c == walk.cursor
             Between(i) == {j \in DOMAIN auditRows : auditRows[j].seq > c /\ auditRows[j].seq < auditRows[i].seq}
  <1>1. n \in Nat /\ c \in Nat /\ c <= n /\ DOMAIN auditRows = 1..n /\ \A i \in 1..n : auditRows[i].seq = i
    BY ShapeFacts DEF ChainLinked, Linked
  <1>2. AuditBatch \in Nat \ {0}
    BY AuditBounds
  <1>3. ASSUME NEW i \in 1..n, i > c
        PROVE  Cardinality(Between(i)) = i - 1 - c
    <2>1. Between(i) = (c + 1)..(i - 1)
      <3>1. \A j \in DOMAIN auditRows : auditRows[j].seq = j /\ j \in 1..n
        BY <1>1
      <3>2. auditRows[i].seq = i /\ i \in Nat /\ i <= n
        BY <1>1
      <3> HIDE DEF n, c
      <3>3. \A j : j \in Between(i) <=> j \in 1..n /\ j > c /\ j < i
        BY <1>1, <3>1, <3>2
      <3>4. \A j : j \in (c + 1)..(i - 1) <=> j \in 1..n /\ j > c /\ j < i
        BY <1>1, <3>2
      <3> HIDE DEF Between
      <3> QED
        BY <3>3, <3>4
    <2>2. c + 1 \in Int /\ i - 1 \in Int
      BY <1>1
    <2>3. Cardinality((c + 1)..(i - 1)) = IF c + 1 > i - 1 THEN 0 ELSE (i - 1) - (c + 1) + 1
      BY <2>2, FS_Interval
    <2>4. i \in Nat /\ c \in Nat
      BY <1>1
    <2> HIDE DEF Between, c, n
    <2>5. Cardinality(Between(i)) = Cardinality((c + 1)..(i - 1))
      BY <2>1
    <2> QED
      BY <1>3, <2>3, <2>4, <2>5
  <1>4. \A i \in 1..n : i > c => (Cardinality(Between(i)) < AuditBatch <=> i <= c + AuditBatch)
    <2> SUFFICES ASSUME NEW i \in 1..n, i > c
                 PROVE  Cardinality(Between(i)) < AuditBatch <=> i <= c + AuditBatch
      OBVIOUS
    <2>1. Cardinality(Between(i)) = i - 1 - c
      BY <1>3
    <2> HIDE DEF Between
    <2> QED
      BY <1>1, <1>2, <2>1
  <1>5. WalkPage = {i \in 1..n : auditRows[i].seq > c /\ Cardinality(Between(i)) < AuditBatch}
    BY <1>1 DEF WalkPage
  <1> HIDE DEF Between
  <1>6. \A i \in 1..n : auditRows[i].seq > c /\ Cardinality(Between(i)) < AuditBatch
                          <=> c < i /\ i <= c + AuditBatch
    BY <1>1, <1>4
  <1> QED
    BY <1>5, <1>6

\* On a linked chain every row of the page is found in order: the checksum the
\* walk holds when it comes to row i is that of row i - 1.
LEMMA PageVerifies ==
    ASSUME ChainShape, ChainLinked, walk.cursor \in 0..Len(auditRows), walk.prev = SumAt(walk.cursor),
           NEW i \in WalkPage
    PROVE  RowVerifies(i)
  <1> DEFINE n == Len(auditRows)
             c == walk.cursor
             Earlier == {j \in WalkPage : auditRows[j].seq < auditRows[i].seq}
             Greatest(j) == \A k \in Earlier : auditRows[k].seq <= auditRows[j].seq
  <1>1. /\ n \in Nat /\ c \in Nat /\ c <= n /\ \A j \in 1..n : auditRows[j].seq = j
        /\ WalkPage = {j \in 1..n : c < j /\ j <= c + AuditBatch}
    BY ShapeFacts, PageLemma DEF ChainLinked, Linked
  <1>2. AuditBatch \in Nat \ {0} /\ i \in 1..n /\ c < i /\ i <= c + AuditBatch
    BY <1>1, AuditBounds
  <1>3. Earlier = (c + 1)..(i - 1)
    <2>1. \A j : j \in Earlier <=> j \in 1..n /\ c < j /\ j <= c + AuditBatch /\ j < i
      BY <1>1, <1>2
    <2> HIDE DEF Earlier, n, c
    <2>2. \A j : j \in (c + 1)..(i - 1) <=> j \in 1..n /\ c < j /\ j <= c + AuditBatch /\ j < i
      BY <1>1, <1>2
    <2> QED
      BY <2>1, <2>2
  <1>4. Cardinality(Earlier) = i - 1 - c
    <2>1. Cardinality((c + 1)..(i - 1)) = IF c + 1 > i - 1 THEN 0 ELSE (i - 1) - (c + 1) + 1
      <3>1. c + 1 \in Int /\ i - 1 \in Int
        BY <1>1, <1>2
      <3> QED
        BY <3>1, FS_Interval
    <2>2. i \in Nat /\ c \in Nat /\ c < i
      BY <1>1, <1>2
    <2> HIDE DEF Earlier, c, n
    <2>3. Cardinality(Earlier) = Cardinality((c + 1)..(i - 1))
      BY <1>3
    <2> QED
      BY <2>1, <2>2, <2>3
  <1>5. walk.cursor + 1 + Cardinality(Earlier) = i
    <2> HIDE DEF Earlier
    <2> QED
      BY <1>1, <1>2, <1>4
  <1>6. WalkPrev(i) = SumAt(i - 1)
    <2>1. CASE Earlier = {}
      <3>1. i - 1 = c
        <4>1. ~(c + 1 <= i - 1)
          <5> HIDE DEF Earlier
          <5> QED
            BY <1>1, <1>2, <1>3, <2>1
        <4> QED
          BY <1>1, <1>2, <4>1
      <3> QED
        BY <2>1, <3>1 DEF WalkPrev
    <2>2. CASE Earlier # {}
      <3>1. i - 1 \in Earlier /\ i - 1 \in 1..n /\ \A k \in Earlier : k \in 1..n /\ k <= i - 1
        <4> HIDE DEF Earlier
        <4>1. c + 1 <= i - 1
          BY <1>1, <1>2, <1>3, <2>2
        <4> QED
          BY <1>1, <1>2, <1>3, <4>1
      <3>2. Greatest(i - 1)
        BY <1>1, <3>1
      <3>3. \A j \in Earlier : Greatest(j) => j = i - 1
        <4> SUFFICES ASSUME NEW j \in Earlier, Greatest(j) PROVE j = i - 1
          OBVIOUS
        <4>1. auditRows[i - 1].seq <= auditRows[j].seq
          BY <3>1
        <4>2. i - 1 <= j /\ j <= i - 1 /\ j \in Nat
          BY <1>1, <3>1, <4>1
        <4> QED
          BY <1>2, <4>2
      <3>4. (CHOOSE j \in Earlier : Greatest(j)) = i - 1
        BY <3>1, <3>2, <3>3
      <3>5. WalkPrev(i) = auditRows[CHOOSE j \in Earlier : Greatest(j)].sum
        BY <2>2 DEF WalkPrev
      <3>6. SumAt(i - 1) = auditRows[i - 1].sum
        BY <1>1, <3>1 DEF SumAt
      <3> QED
        BY <3>4, <3>5, <3>6
    <2> QED
      BY <2>1, <2>2
  <1>7. Linked(auditRows[i], i, SumAt(i - 1))
    BY <1>2 DEF ChainLinked
  <1>8. RowVerifies(i) <=> /\ auditRows[i].seq = walk.cursor + 1 + Cardinality(Earlier)
                           /\ auditRows[i].prev = WalkPrev(i)
                           /\ auditRows[i].sum = checksumV2(auditRows[i].prev,
                                walk.cursor + 1 + Cardinality(Earlier), auditRows[i].mark)
    BY DEF RowVerifies
  <1> HIDE DEF Earlier
  <1> QED
    BY <1>5, <1>6, <1>7, <1>8 DEF Linked

\* The row at which the page ends exists.
LEMMA PageEnds ==
    ASSUME ChainShape, ChainLinked, walk.cursor \in 0..Len(auditRows), WalkPage # {}
    PROVE  LET last == CHOOSE i \in WalkPage : \A j \in WalkPage : auditRows[j].seq <= auditRows[i].seq
           IN last \in 1..Len(auditRows) /\ auditRows[last].seq = last
  <1> DEFINE n == Len(auditRows)
             c == walk.cursor
             Ends(i) == \A j \in WalkPage : auditRows[j].seq <= auditRows[i].seq
             m == IF n <= c + AuditBatch THEN n ELSE c + AuditBatch
  <1>1. /\ n \in Nat /\ c \in Nat /\ c <= n /\ \A j \in 1..n : auditRows[j].seq = j
        /\ WalkPage = {j \in 1..n : c < j /\ j <= c + AuditBatch}
    BY ShapeFacts, PageLemma DEF ChainLinked, Linked
  <1>2. AuditBatch \in Nat \ {0}
    BY AuditBounds
  <1>3. PICK k \in 1..n : c < k
    BY <1>1
  <1>4. m \in 1..n /\ c < m /\ m <= c + AuditBatch /\ \A j \in WalkPage : j \in 1..n /\ j <= m
    BY <1>1, <1>2, <1>3
  <1> HIDE DEF m
  <1>5. m \in WalkPage /\ Ends(m)
    BY <1>1, <1>4
  <1>6. (CHOOSE i \in WalkPage : Ends(i)) \in WalkPage
    BY <1>5
  <1>7. \A i \in WalkPage : i \in 1..n /\ auditRows[i].seq = i
    BY <1>1
  <1> QED
    BY <1>6, <1>7

-----------------------------------------------------------------------------
(* The invariant.                                                           *)

AppenderRows  == [pc : {"idle", "locked", "read", "inserted"}, row : Rows]
CheckpointRow == [pc : {"idle", "locked", "tabled", "written"}, count : Nat, expected : Int, row : Rows]

AuditShape ==
    /\ appender \in [Appenders -> AppenderRows] /\ checkpoint \in CheckpointRow
    /\ archive \in Nat /\ reviewed \in Int /\ DOMAIN walk = DOMAIN WalkIdle

\* The chain lock has one holder; the checkpoint's table lock keeps out the
\* writers of the previous release.
LocksInv ==
    /\ \A w \in Appenders : appender[w].pc # "idle" => chainLock = w
    /\ checkpoint.pc # "idle" => chainLock = TheCheckpoint
    /\ checkpoint.pc \in {"tabled", "written"} => tableLock /\ ~oldInsert

\* A prepared row follows the head that is the head now.
PreparedInv ==
    /\ \A w \in Appenders : appender[w].pc \in {"read", "inserted"} =>
         Follows(appender[w].row) /\ appender[w].row.mark = -1
    /\ checkpoint.pc = "written" =>
         Follows(checkpoint.row) /\ checkpoint.row.mark = archive /\ latestCheckpoint = {}
    /\ refusals = 0

WalkInv ==
    /\ walk.pc = "chain" => walk.cursor \in 0..Len(auditRows) /\ walk.prev = SumAt(walk.cursor)
    /\ walk.verdict # "broken"

AuditInv == ChainShape /\ ChainLinked /\ AuditShape /\ LocksInv /\ PreparedInv /\ WalkInv

\* A checkpoint that joins the chain is the first and records the archive.
NewRows ==
    \A i \in DOMAIN auditRows' :
        (i \notin DOMAIN auditRows /\ IsCheckpointRow(auditRows'[i]))
            => auditRows'[i].mark = archive' /\ latestCheckpoint = {}

\* What rests is of its type.
LEMMA NoRowTyped == NoRow \in Rows /\ AppenderIdle \in AppenderRows /\ CheckpointIdle \in CheckpointRow
                    /\ AppenderIdle.pc = "idle" /\ CheckpointIdle.pc = "idle"
  <1>1. <<>> \in Sums /\ -1 \in Int
    BY DEF Sums
  <1>2. NoRow \in Rows
    BY <1>1 DEF NoRow, Rows
  <1> QED
    BY <1>1, <1>2 DEF AppenderIdle, CheckpointIdle, AppenderRows, CheckpointRow, NotReviewed

\* The chain is empty at first.
LEMMA AuditInitially == AuditInit => AuditInv
  <1> SUFFICES ASSUME AuditInit PROVE AuditInv
    OBVIOUS
  <1>1. ChainShape /\ ChainLinked
    BY DEF AuditInit, ChainShape, ChainLinked
  <1>2. AuditShape
    BY NoRowTyped DEF AuditInit, AuditShape, NotReviewed
  <1>3. LocksInv /\ PreparedInv
    BY NoRowTyped DEF AuditInit, LocksInv, PreparedInv
  <1>4. WalkInv
    BY DEF AuditInit, WalkInv, WalkIdle
  <1> QED
    BY <1>1, <1>2, <1>3, <1>4 DEF AuditInv

\* With the rows unchanged the chain is unchanged.
LEMMA RowsSame ==
    ASSUME auditRows' = auditRows
    PROVE  /\ \A k : SumAt(k)' = SumAt(k)
           /\ ChainShape <=> ChainShape'
           /\ ChainLinked <=> ChainLinked'
           /\ \A r : Follows(r) <=> Follows(r)'
           /\ latestCheckpoint' = latestCheckpoint
           /\ NewRows
  BY DEF SumAt, ChainShape, ChainLinked, Follows, latestCheckpoint, NewRows

\* One appender moves on; if he holds the lock, it stays with him or is free.
LEMMA AppenderMoves ==
    ASSUME AuditInv, NEW w \in Appenders, NEW row \in AppenderRows,
           appender' = [appender EXCEPT ![w] = row], row.pc # "idle" => chainLock' = w,
           chainLock = w \/ chainLock = Unheld, chainLock' = w \/ chainLock' = Unheld,
           row.pc \in {"read", "inserted"} => Follows(row.row) /\ row.row.mark = -1,
           UNCHANGED <<auditRows, archive, oldInsert, tableLock, checkpoint, reviewed, refusals, walk>>
    PROVE  AuditInv' /\ NewRows
  <1>0. ChainShape /\ ChainLinked /\ AuditShape /\ LocksInv /\ PreparedInv /\ WalkInv
    BY DEF AuditInv
  <1>1. /\ appender' \in [Appenders -> AppenderRows]
        /\ \A v \in Appenders : appender'[v] = IF v = w THEN row ELSE appender[v]
    BY <1>0 DEF AuditShape
  <1>2. AuditShape'
    BY <1>0, <1>1 DEF AuditShape
  <1>3. checkpoint.pc = "idle" /\ \A v \in Appenders : v # w => appender[v].pc = "idle"
    BY <1>0, AuditNames DEF LocksInv, Unheld, TheCheckpoint
  <1>4. LocksInv'
    BY <1>0, <1>1, <1>3 DEF LocksInv
  <1>5. PreparedInv'
    BY <1>0, <1>1, <1>3, RowsSame DEF PreparedInv
  <1>6. WalkInv'
    BY <1>0, RowsSame DEF WalkInv
  <1> QED
    BY <1>0, <1>2, <1>4, <1>5, <1>6, RowsSame DEF AuditInv

\* An appender before its commit keeps the invariant.
LEMMA AppendersKeep ==
    ASSUME AuditInv, NEW w \in Appenders,
           AppendLocks(w) \/ AppendReads(w) \/ AppendInserts(w) \/ AppendRollsBack(w)
    PROVE  AuditInv' /\ NewRows
  <1>0. /\ ChainShape /\ ChainLinked /\ LocksInv /\ PreparedInv
        /\ appender \in [Appenders -> AppenderRows] /\ appender[w] \in AppenderRows
    BY DEF AuditInv, AuditShape
  <1>1. CASE AppendLocks(w)
    <2> DEFINE row == [appender[w] EXCEPT !.pc = "locked"]
    <2>1. /\ appender' = [appender EXCEPT ![w] = row] /\ chainLock = Unheld /\ chainLock' = w
          /\ UNCHANGED <<auditRows, archive, oldInsert, tableLock, checkpoint, reviewed, refusals, walk>>
      BY <1>0, <1>1 DEF AppendLocks
    <2>2. row \in AppenderRows /\ row.pc = "locked"
      BY <1>0 DEF AppenderRows
    <2> HIDE DEF row
    <2> QED
      BY <2>1, <2>2, AppenderMoves
  <1>2. CASE AppendReads(w)
    <2> DEFINE row == [pc |-> "read", row |-> AuditRowAfter(ChainHead, -1)]
    <2>1. /\ appender' = [appender EXCEPT ![w] = row] /\ chainLock = w /\ chainLock' = w
          /\ UNCHANGED <<auditRows, archive, oldInsert, tableLock, checkpoint, reviewed, refusals, walk>>
      BY <1>0, <1>2 DEF AppendReads, LocksInv
    <2>2. /\ Follows(AuditRowAfter(ChainHead, -1)) /\ AuditRowAfter(ChainHead, -1).mark = -1
      BY <1>0, RowFollows
    <2>3. AuditRowAfter(ChainHead, -1) \in Rows
      BY <2>2 DEF Follows
    <2>4. row \in AppenderRows /\ row.pc = "read" /\ row.row = AuditRowAfter(ChainHead, -1)
      BY <2>3 DEF AppenderRows
    <2> HIDE DEF row
    <2> QED
      BY <2>1, <2>2, <2>4, AppenderMoves
  <1>3. CASE AppendInserts(w)
    <2>1. /\ chainLock = w /\ Follows(appender[w].row) /\ appender[w].row.mark = -1
          /\ UNCHANGED <<auditRows, archive, oldInsert, tableLock, checkpoint, reviewed, walk>>
      BY <1>0, <1>3 DEF AppendInserts, LocksInv, PreparedInv
    <2>2. ~\E i \in DOMAIN auditRows : auditRows[i].seq = appender[w].row.seq
      <3>1. /\ Len(auditRows) \in Nat /\ DOMAIN auditRows = 1..Len(auditRows)
            /\ \A i \in 1..Len(auditRows) : auditRows[i].seq = i
        BY <1>0, ShapeFacts DEF ChainLinked, Linked
      <3>2. appender[w].row.seq = Len(auditRows) + 1
        BY <2>1 DEF Follows, Linked
      <3> QED
        BY <3>1, <3>2
    <2> DEFINE row == [appender[w] EXCEPT !.pc = "inserted"]
    <2>3. appender' = [appender EXCEPT ![w] = row] /\ chainLock' = chainLock /\ refusals' = refusals
      BY <1>0, <1>3, <2>2 DEF AppendInserts
    <2>4. row \in AppenderRows /\ row.pc = "inserted" /\ row.row = appender[w].row
      BY <1>0 DEF AppenderRows
    <2> HIDE DEF row
    <2> QED
      BY <2>1, <2>3, <2>4, AppenderMoves
  <1>4. CASE AppendRollsBack(w)
    <2>1. /\ appender' = [appender EXCEPT ![w] = AppenderIdle] /\ chainLock = w /\ chainLock' = Unheld
          /\ UNCHANGED <<auditRows, archive, oldInsert, tableLock, checkpoint, reviewed, refusals, walk>>
      BY <1>0, <1>4 DEF AppendRollsBack, LocksInv
    <2> QED
      BY <2>1, NoRowTyped, AppenderMoves
  <1> QED
    BY <1>1, <1>2, <1>3, <1>4

\* A row joins the chain: nobody else has prepared one.
LEMMA CommitKeeps ==
    ASSUME AuditInv, NEW r, Follows(r), auditRows' = Append(auditRows, r),
           appender' \in [Appenders -> AppenderRows], checkpoint' \in CheckpointRow,
           \A w \in Appenders : appender'[w].pc = "idle", checkpoint'.pc = "idle",
           UNCHANGED <<archive, reviewed, refusals, walk>>
    PROVE  /\ AuditInv' /\ Len(auditRows) \in Nat
           /\ DOMAIN auditRows = 1..Len(auditRows) /\ DOMAIN auditRows' = 1..(Len(auditRows) + 1)
           /\ auditRows'[Len(auditRows) + 1] = r
  <1>0. ChainShape /\ ChainLinked /\ AuditShape /\ LocksInv /\ PreparedInv /\ WalkInv
    BY DEF AuditInv
  <1>1. /\ ChainShape' /\ ChainLinked' /\ Len(auditRows') = Len(auditRows) + 1
        /\ auditRows'[Len(auditRows) + 1] = r
        /\ \A k \in 0..Len(auditRows) : SumAt(k)' = SumAt(k)
    BY <1>0, AppendKeeps
  <1>2. Len(auditRows) \in Nat /\ DOMAIN auditRows = 1..Len(auditRows)
    BY <1>0, ShapeFacts
  <1>3. DOMAIN auditRows' = 1..(Len(auditRows) + 1)
    BY <1>1 DEF ChainShape
  <1>4. AuditShape'
    BY <1>0 DEF AuditShape
  <1>5. LocksInv' /\ PreparedInv'
    BY <1>0 DEF LocksInv, PreparedInv
  <1>6. WalkInv'
    BY <1>0, <1>1, <1>2 DEF WalkInv
  <1> QED
    BY <1>1, <1>2, <1>3, <1>4, <1>5, <1>6 DEF AuditInv

\* A commit releases its lock and keeps the invariant.
LEMMA CommitsKeep ==
    ASSUME AuditInv, (\E w \in Appenders : AppendCommits(w)) \/ CheckpointCommits
    PROVE  AuditInv' /\ NewRows
  <1>0. /\ LocksInv /\ PreparedInv
        /\ appender \in [Appenders -> AppenderRows] /\ checkpoint \in CheckpointRow
    BY DEF AuditInv, AuditShape
  <1>1. ASSUME NEW w \in Appenders, AppendCommits(w)
        PROVE  AuditInv' /\ NewRows
    <2>1. /\ chainLock = w /\ Follows(appender[w].row) /\ appender[w].row.mark = -1
          /\ auditRows' = Append(auditRows, appender[w].row) /\ appender' = [appender EXCEPT ![w] = AppenderIdle]
          /\ UNCHANGED <<archive, checkpoint, reviewed, refusals, walk>>
      BY <1>0, <1>1 DEF AppendCommits, LocksInv, PreparedInv
    <2>2. checkpoint.pc = "idle" /\ \A v \in Appenders : v # w => appender[v].pc = "idle"
      BY <1>0, <2>1, AuditNames DEF LocksInv
    <2>3. appender' \in [Appenders -> AppenderRows] /\ \A v \in Appenders : appender'[v].pc = "idle"
      BY <1>0, <2>1, <2>2, NoRowTyped
    <2>4. /\ AuditInv' /\ Len(auditRows) \in Nat
          /\ DOMAIN auditRows = 1..Len(auditRows) /\ DOMAIN auditRows' = 1..(Len(auditRows) + 1)
          /\ auditRows'[Len(auditRows) + 1] = appender[w].row
      BY <1>0, <2>1, <2>2, <2>3, CommitKeeps
    <2>5. NewRows
      BY <2>1, <2>4 DEF NewRows, IsCheckpointRow
    <2> QED
      BY <2>4, <2>5
  <1>2. CASE CheckpointCommits
    <2>1. /\ chainLock = TheCheckpoint /\ Follows(checkpoint.row) /\ checkpoint.row.mark = archive
          /\ latestCheckpoint = {} /\ auditRows' = Append(auditRows, checkpoint.row) /\ checkpoint' = CheckpointIdle
          /\ UNCHANGED <<archive, appender, reviewed, refusals, walk>>
      BY <1>0, <1>2 DEF CheckpointCommits, ReleaseCheckpoint, LocksInv, PreparedInv
    <2>2. \A v \in Appenders : appender[v].pc = "idle"
      BY <1>0, <2>1, AuditNames DEF LocksInv
    <2>3. /\ AuditInv' /\ Len(auditRows) \in Nat
          /\ DOMAIN auditRows = 1..Len(auditRows) /\ DOMAIN auditRows' = 1..(Len(auditRows) + 1)
          /\ auditRows'[Len(auditRows) + 1] = checkpoint.row
      BY <1>0, <2>1, <2>2, NoRowTyped, CommitKeeps
    <2>4. NewRows
      BY <2>1, <2>3 DEF NewRows
    <2> QED
      BY <2>3, <2>4
  <1> QED
    BY <1>1, <1>2

\* The checkpoint moves on with the chain lock, and ends without it.
LEMMA CheckpointMoves ==
    ASSUME AuditInv, NEW row \in CheckpointRow, checkpoint' = row,
           chainLock = TheCheckpoint \/ chainLock = Unheld,
           row.pc # "idle" => chainLock' = TheCheckpoint,
           row.pc \in {"tabled", "written"} => tableLock' /\ ~oldInsert,
           row.pc = "written" => Follows(row.row) /\ row.row.mark = archive /\ latestCheckpoint = {},
           UNCHANGED <<auditRows, archive, oldInsert, appender, reviewed, refusals, walk>>
    PROVE  AuditInv' /\ NewRows
  <1>0. ChainShape /\ ChainLinked /\ AuditShape /\ LocksInv /\ PreparedInv /\ WalkInv
    BY DEF AuditInv
  <1>1. \A v \in Appenders : appender[v].pc = "idle"
    BY <1>0, AuditNames DEF LocksInv
  <1>2. AuditShape'
    BY <1>0 DEF AuditShape
  <1>3. LocksInv' /\ PreparedInv'
    BY <1>0, <1>1, RowsSame DEF LocksInv, PreparedInv
  <1>4. WalkInv'
    BY <1>0, RowsSame DEF WalkInv
  <1> QED
    BY <1>0, <1>2, <1>3, <1>4, RowsSame DEF AuditInv

\* A checkpoint keeps the invariant.
LEMMA CheckpointKeeps ==
    ASSUME AuditInv, CheckpointLocks \/ CheckpointLocksTable \/ CheckpointDecides \/ CheckpointRollsBack
    PROVE  AuditInv' /\ NewRows
  <1>0. /\ ChainShape /\ ChainLinked /\ LocksInv /\ PreparedInv /\ checkpoint \in CheckpointRow
        /\ archive \in Nat /\ reviewed \in Int
    BY DEF AuditInv, AuditShape
  <1>s. UNCHANGED <<auditRows, archive, oldInsert, appender, reviewed, refusals, walk>>
    BY DEF CheckpointLocks, CheckpointLocksTable, CheckpointDecides, CheckpointRollsBack
  <1>r. ASSUME chainLock = TheCheckpoint, ReleaseCheckpoint
        PROVE  AuditInv' /\ NewRows
    BY <1>s, <1>r, NoRowTyped, CheckpointMoves DEF ReleaseCheckpoint
  <1>1. CASE CheckpointLocks
    <2> DEFINE row == [checkpoint EXCEPT !.pc = "locked", !.expected = reviewed]
    <2>1. row \in CheckpointRow /\ row.pc = "locked"
      BY <1>0 DEF CheckpointRow
    <2>2. checkpoint' = row /\ chainLock = Unheld /\ chainLock' = TheCheckpoint
      BY <1>1 DEF CheckpointLocks
    <2> HIDE DEF row
    <2> QED
      BY <1>s, <2>1, <2>2, CheckpointMoves
  <1>2. CASE CheckpointLocksTable
    <2> DEFINE row == [checkpoint EXCEPT !.pc = "tabled"]
    <2>1. row \in CheckpointRow /\ row.pc = "tabled"
      BY <1>0 DEF CheckpointRow
    <2>2. checkpoint' = row /\ chainLock = TheCheckpoint /\ chainLock' = chainLock /\ tableLock' /\ ~oldInsert
      BY <1>0, <1>2 DEF CheckpointLocksTable, LocksInv
    <2> HIDE DEF row
    <2> QED
      BY <1>s, <2>1, <2>2, CheckpointMoves
  <1>3. CASE CheckpointDecides
    <2>0. chainLock = TheCheckpoint /\ tableLock /\ ~oldInsert
      BY <1>0, <1>3 DEF CheckpointDecides, LocksInv
    <2>1. CASE latestCheckpoint = {} /\ archive > 0 /\ archive = checkpoint.expected
      <3> DEFINE new == AuditRowAfter(ChainHead, archive)
                 row == [checkpoint EXCEPT !.pc = "written", !.count = archive, !.row = new]
      <3>1. Follows(new) /\ new.mark = archive
        BY <1>0, RowFollows
      <3>2. new \in Rows
        BY <3>1 DEF Follows
      <3>3. checkpoint' = row /\ chainLock' = chainLock /\ tableLock' = tableLock
        BY <1>3, <2>1 DEF CheckpointDecides
      <3> HIDE DEF new
      <3>4. row \in CheckpointRow /\ row.pc = "written" /\ row.row = new
        BY <1>0, <3>2 DEF CheckpointRow
      <3> HIDE DEF row
      <3> QED
        BY <1>s, <2>0, <2>1, <3>1, <3>3, <3>4, CheckpointMoves
    <2>2. CASE ~(latestCheckpoint = {} /\ archive > 0 /\ archive = checkpoint.expected)
      BY <1>3, <1>r, <2>0, <2>2 DEF CheckpointDecides
    <2> QED
      BY <2>1, <2>2
  <1>4. CASE CheckpointRollsBack
    BY <1>0, <1>4, <1>r DEF CheckpointRollsBack, LocksInv
  <1> QED
    BY <1>1, <1>2, <1>3, <1>4

\* The previous release's rows come only while no checkpoint is decided.
LEMMA ArchiveKeeps ==
    ASSUME AuditInv, OldReleaseInserts \/ OldReleaseEnds \/ DryRun \/ UNCHANGED auditVars
    PROVE  AuditInv' /\ NewRows
  <1>0. ChainShape /\ ChainLinked /\ AuditShape /\ LocksInv /\ PreparedInv /\ WalkInv
    BY DEF AuditInv
  <1>1. /\ UNCHANGED <<auditRows, chainLock, tableLock, appender, checkpoint, refusals, walk>>
        /\ archive' \in Nat /\ reviewed' \in Int
        /\ archive' = archive \/ oldInsert
        /\ oldInsert' => oldInsert \/ ~tableLock
    BY <1>0 DEF OldReleaseInserts, OldReleaseEnds, DryRun, auditVars, AuditShape
  <1>2. AuditShape'
    BY <1>0, <1>1 DEF AuditShape
  <1>3. LocksInv' /\ PreparedInv'
    BY <1>0, <1>1, RowsSame DEF LocksInv, PreparedInv
  <1>4. WalkInv'
    BY <1>0, <1>1, RowsSame DEF WalkInv
  <1> QED
    BY <1>0, <1>1, <1>2, <1>3, <1>4, RowsSame DEF AuditInv

\* A verification keeps the invariant.
LEMMA VerifyKeeps ==
    ASSUME AuditInv, VerifyStarts \/ walkV2Chain \/ VerifyReports
    PROVE  AuditInv' /\ NewRows
  <1>0. ChainShape /\ ChainLinked /\ AuditShape /\ LocksInv /\ PreparedInv /\ WalkInv
    BY DEF AuditInv
  <1>s. UNCHANGED <<auditRows, archive, oldInsert, chainLock, tableLock, appender, checkpoint, reviewed, refusals>>
    BY DEF VerifyStarts, walkV2Chain, VerifyReports
  <1>f. DOMAIN walk = {"pc", "cursor", "prev", "found", "verdict", "legacy"}
    BY <1>0 DEF AuditShape, WalkIdle
  <1>q. ASSUME DOMAIN walk' = DOMAIN WalkIdle, WalkInv'
        PROVE  AuditInv' /\ NewRows
    <2>1. AuditShape'
      BY <1>0, <1>s, <1>q DEF AuditShape
    <2>2. LocksInv' /\ PreparedInv'
      BY <1>0, <1>s, RowsSame DEF LocksInv, PreparedInv
    <2> QED
      BY <1>0, <1>s, <1>q, <2>1, <2>2, RowsSame DEF AuditInv
  <1>l. Len(auditRows) \in Nat /\ auditRows' = auditRows /\ \A k : SumAt(k)' = SumAt(k)
    BY <1>0, <1>s, ShapeFacts, RowsSame
  <1>1. CASE VerifyStarts
    <2>1. walk' = [WalkIdle EXCEPT !.pc = "chain"]
      BY <1>1 DEF VerifyStarts
    <2>2. DOMAIN walk' = DOMAIN WalkIdle /\ walk'.cursor = 0 /\ walk'.prev = <<>> /\ walk'.verdict = "none"
      BY <2>1 DEF WalkIdle
    <2>3. WalkInv'
      BY <1>l, <2>2 DEF WalkInv, SumAt
    <2> QED
      BY <1>q, <2>2, <2>3
  <1>2. CASE VerifyReports
    <2>1. walk' = [WalkIdle EXCEPT !.verdict = walk.verdict, !.legacy = checkpointStatus]
      BY <1>2 DEF VerifyReports
    <2>2. DOMAIN walk' = DOMAIN WalkIdle /\ walk'.pc = "idle" /\ walk'.verdict = walk.verdict
      BY <2>1 DEF WalkIdle
    <2>3. WalkInv'
      BY <1>0, <2>2 DEF WalkInv
    <2> QED
      BY <1>q, <2>2, <2>3
  <1>3. CASE walkV2Chain
    <2>0. walk.cursor \in 0..Len(auditRows) /\ walk.prev = SumAt(walk.cursor)
      BY <1>0, <1>3 DEF walkV2Chain, WalkInv
    <2>1. \A i \in WalkPage : RowVerifies(i)
      BY <1>0, <2>0, PageVerifies
    <2> DEFINE last == CHOOSE i \in WalkPage : \A j \in WalkPage : auditRows[j].seq <= auditRows[i].seq
    <2> DEFINE marks == {i \in WalkPage : IsCheckpointRow(auditRows[i])}
               found == IF marks = {} THEN walk.found
                        ELSE auditRows[CHOOSE i \in marks :
                                 \A j \in marks : auditRows[j].seq <= auditRows[i].seq].mark
               pc == IF Cardinality(WalkPage) < AuditBatch THEN "archive" ELSE "chain"
               cursor == IF WalkPage = {} THEN walk.cursor ELSE auditRows[last].seq
               prev == IF WalkPage = {} THEN walk.prev ELSE auditRows[last].sum
               verdict == IF Cardinality(WalkPage) < AuditBatch THEN "valid" ELSE "none"
    <2>2. walk' = [walk EXCEPT !.pc = pc, !.cursor = cursor, !.prev = prev, !.found = found, !.verdict = verdict]
      BY <1>3, <2>1 DEF walkV2Chain
    <2>a. verdict \in {"valid", "none"}
      OBVIOUS
    <2>3. WalkPage # {} => last \in 1..Len(auditRows) /\ auditRows[last].seq = last
      BY <1>0, <2>0, PageEnds
    <2> HIDE DEF last, found, pc, verdict
    <2>5. cursor \in 0..Len(auditRows) /\ prev = SumAt(cursor)
      BY <1>l, <2>0, <2>3 DEF SumAt
    <2> HIDE DEF cursor, prev
    <2>4. /\ DOMAIN walk' = DOMAIN walk /\ walk'.cursor = cursor /\ walk'.prev = prev /\ walk'.verdict = verdict
      BY <1>f, <2>2
    <2>6. WalkInv'
      BY <1>l, <2>a, <2>4, <2>5 DEF WalkInv
    <2>7. DOMAIN walk' = DOMAIN WalkIdle
      BY <1>0, <2>4 DEF AuditShape
    <2> QED
      BY <1>q, <2>6, <2>7
  <1> QED
    BY <1>1, <1>2, <1>3

\* Every step of the audit keeps the invariant and appends rows only.
LEMMA AuditKeeps == AuditInv /\ [AuditNext]_auditVars => AuditInv' /\ NewRows
  <1>1. AuditInv /\ AuditNext => AuditInv' /\ NewRows
    BY AppendersKeep, CommitsKeep, CheckpointKeeps, ArchiveKeeps, VerifyKeeps DEF AuditNext
  <1> QED
    BY <1>1, ArchiveKeeps

-----------------------------------------------------------------------------
(* LockOrder.  The argument is the classical one: a handler that keeps the   *)
(* documented order waits for a row of a higher rank than every row it       *)
(* holds, so in a circle of such handlers the wanted ranks would grow for    *)
(* ever.                                                                     *)

Classes == DOMAIN LockRank

Increasing(plan) ==
    /\ plan \in Seq(Classes)
    /\ \A i, j \in 1..Len(plan) : i < j => LockRank[plan[i]] < LockRank[plan[j]]

\* The rank of the row a backend waits for.
WantedRank(b) == LockRank[Plan(b)[taken[b] + 1]]

-----------------------------------------------------------------------------
\* Ranks are numbers from 1 to 18.
LEMMA RankType == LockRank \in [Classes -> 1..18]
  BY DEF Classes, LockRank

\* Every handler but SENSOR_SEQUENCE keeps the order of lib/db-locks.ts:
\* admission, policy, finish, poll, watermark and the effects of events,
LEMMA SessionPlansIncrease ==
    /\ Increasing(startLocks) /\ Increasing(policyLocks) /\ Increasing(ownerEndLocks)
    /\ Increasing(pollLocks) /\ Increasing(watermarkLocks)
    /\ Increasing(detectedLocks) /\ Increasing(safeStateLocks) /\ Increasing(machineLocks)
  <1>1. Increasing(startLocks) /\ Increasing(policyLocks) /\ Increasing(ownerEndLocks)
    BY DEF Increasing, Classes, LockRank, startLocks, policyLocks, ownerEndLocks
  <1>2. Increasing(pollLocks) /\ Increasing(watermarkLocks)
    BY DEF Increasing, Classes, LockRank, pollLocks, watermarkLocks
  <1>3. Increasing(detectedLocks) /\ Increasing(safeStateLocks) /\ Increasing(machineLocks)
    BY DEF Increasing, Classes, LockRank, detectedLocks, safeStateLocks, machineLocks
  <1> QED
    BY <1>1, <1>2, <1>3

\* the transactions on one item,
LEMMA ItemPlansIncrease ==
    \A i \in {"item1", "item2"} :
        Increasing(acceptanceLocks(i)) /\ Increasing(evidenceLocks(i)) /\ Increasing(reviewLocks(i))
  BY DEF Increasing, Classes, LockRank, acceptanceLocks, evidenceLocks, reviewLocks

\* those on payouts and accounts,
LEMMA PayoutPlansIncrease ==
    /\ Increasing(requestLocks) /\ Increasing(erasureLocks)
    /\ Increasing(payoutLocks("user", "redemption")) /\ Increasing(payoutLocks("other", "redemption2"))
    /\ Increasing(redemptionLocks("user", "redemption"))
    /\ Increasing(redemptionLocks("other", "redemption2"))
    /\ Increasing(accountLocks("account1")) /\ Increasing(accountLocks("account2"))
  BY DEF Increasing, Classes, LockRank, requestLocks, erasureLocks, payoutLocks, redemptionLocks,
         accountLocks

\* and those of the operators.
LEMMA OperatorPlansIncrease ==
    /\ Increasing(tripLocks) /\ Increasing(campaignLocks) /\ Increasing(inviteLocks)
    /\ Increasing(completeLocks) /\ Increasing(pickupLocks) /\ Increasing(escalateLocks)
  BY DEF Increasing, Classes, LockRank, tripLocks, campaignLocks, inviteLocks, completeLocks,
         pickupLocks, escalateLocks

\* Every handler but the sensor ones takes its locks in the one order.
LEMMA PlansIncrease == \A h \in Handlers \ SensorHandlers : Increasing(LockPlan[h])
  <1>1. SUFFICES ASSUME NEW h \in Handlers \ SensorHandlers PROVE Increasing(LockPlan[h])
    OBVIOUS
  <1>2. CASE h \in {"start", "policy", "ownerEnd", "poll", "watermark", "detected", "safeState",
                    "machineEvent"}
    BY <1>2, SessionPlansIncrease DEF LockPlan
  <1>3. CASE h \in {"accept1", "accept2", "evidence1", "evidence2", "review1", "review2"}
    BY <1>3, ItemPlansIncrease DEF LockPlan
  <1>4. CASE h \in {"request", "payout1", "payout2", "redemption1", "redemption2", "erasure",
                    "account1", "account2"}
    BY <1>4, PayoutPlansIncrease DEF LockPlan
  <1>5. CASE h \in {"trip", "campaign", "invite", "complete", "pickup", "escalate"}
    BY <1>5, OperatorPlansIncrease DEF LockPlan
  <1> QED
    BY <1>2, <1>3, <1>4, <1>5 DEF Handlers, SensorHandlers, LockPlan

-----------------------------------------------------------------------------
\* A set of ranks without a greatest one is empty.
LEMMA RanksEnd ==
    ASSUME NEW T \in SUBSET (1..18), \A n \in T : \E m \in T : n < m
    PROVE  T = {}
  <1>1. T \cap (15..18) = {}
    OBVIOUS
  <1>2. T \cap (11..18) = {}
    BY <1>1
  <1>3. T \cap (7..18) = {}
    BY <1>2
  <1>4. T \cap (4..18) = {}
    BY <1>3
  <1>5. T \cap (1..18) = {}
    BY <1>4
  <1> QED
    BY <1>5

\* What the argument needs of a reachable state: backends run known handlers
\* and hold a number of locks.
LockShape == txn \in [Backends -> Handlers \cup {"none"}] /\ taken \in [Backends -> Nat]

\* No lock is held at first.
LEMMA ShapeInitially == LockInit => LockShape
  BY DEF LockInit, LockShape

\* Every step keeps who holds and who awaits consistent.
LEMMA ShapeKeeps == LockShape /\ [LockNext]_lockVars => LockShape'
  BY DEF LockShape, LockNext, lockVars, BeginTxn, TakeLock, CommitTxn, AbortTxn, EndTxn

\* A backend that keeps the order waits for a row above every row it holds.
LEMMA WantsAboveHeld ==
    ASSUME LockShape, NEW b \in Backends, NEW r \in Held(b),
           txn[b] \notin SensorHandlers, taken[b] < Len(Plan(b))
    PROVE  WantedRank(b) \in 1..18 /\ LockRank[r] < WantedRank(b)
  <1>1. txn[b] \in Handlers \ SensorHandlers /\ Plan(b) = LockPlan[txn[b]]
    BY DEF LockShape, Plan
  <1>2. Increasing(Plan(b))
    BY <1>1, PlansIncrease
  <1>3. PICK n \in 1..taken[b] : r = Plan(b)[n]
    BY DEF Held
  <1>4. taken[b] \in Nat /\ Len(Plan(b)) \in Nat
    BY <1>2 DEF LockShape, Increasing
  <1>5. n \in 1..Len(Plan(b)) /\ taken[b] + 1 \in 1..Len(Plan(b)) /\ n < taken[b] + 1
    BY <1>3, <1>4
  <1>6. Plan(b)[taken[b] + 1] \in Classes
    BY <1>2, <1>5 DEF Increasing
  <1>7. WantedRank(b) \in 1..18
    BY <1>6, RankType DEF WantedRank
  <1> QED
    BY <1>2, <1>3, <1>5, <1>7 DEF Increasing, WantedRank

\* A circle of waits contains a sensor handler.
LEMMA NoOrderedCircle == LockShape => OnlySensorDeadlocks
  <1>1. SUFFICES ASSUME LockShape, NEW S \in SUBSET Backends, Deadlocked(S),
                        \A b \in S : txn[b] \notin SensorHandlers
                 PROVE  FALSE
    BY DEF OnlySensorDeadlocks
  <1>2. ASSUME NEW b \in S
        PROVE  /\ taken[b] < Len(Plan(b))
               /\ \E c \in S : Plan(b)[taken[b] + 1] \in Held(c)
    BY <1>1, <1>2 DEF Deadlocked, WaitsFor, Wants
  <1>3. ASSUME NEW b \in S
        PROVE  \E c \in S : WantedRank(c) \in 1..18 /\ WantedRank(b) < WantedRank(c)
    <2>1. PICK c \in S : Plan(b)[taken[b] + 1] \in Held(c)
      BY <1>2, <1>3
    <2>2. c \in Backends /\ txn[c] \notin SensorHandlers /\ taken[c] < Len(Plan(c))
      BY <1>1, <1>2, <2>1
    <2>3. WantedRank(c) \in 1..18 /\ LockRank[Plan(b)[taken[b] + 1]] < WantedRank(c)
      BY <1>1, <2>1, <2>2, WantsAboveHeld
    <2> QED
      BY <2>1, <2>3 DEF WantedRank
  <1> DEFINE T == {WantedRank(b) : b \in {c \in S : WantedRank(c) \in 1..18}}
  <1>4. T \in SUBSET (1..18)
    OBVIOUS
  <1>5. \A n \in T : \E m \in T : n < m
    BY <1>3
  <1>6. T = {}
    BY <1>4, <1>5, RanksEnd
  <1>7. PICK b \in S : TRUE
    BY <1>1 DEF Deadlocked
  <1>8. PICK c \in S : WantedRank(c) \in 1..18
    BY <1>3, <1>7
  <1> QED
    BY <1>6, <1>8

-----------------------------------------------------------------------------
(* The parts side by side.  A mail part's step is a step of the outbox, any  *)
(* other part's leaves it alone.                                             *)

PlatformInv == QueueInv /\ MailboxProven /\ AccountsInv /\ ErasureInv /\ AuditInv /\ LockShape

\* A step of the run is a step of one part and a stutter of the others.
LEMMA PlatformParts == [Next]_platformVars => /\ [OutboxNext]_outboxVars /\ [AccountsNext]_accountVars
                                              /\ [AuditNext]_auditVars /\ [LockNext]_lockVars
                                              /\ [ErasureNext]_erasureVars
  <1>1. Next => /\ [OutboxNext]_outboxVars /\ [AccountsNext]_accountVars
                /\ [AuditNext]_auditVars /\ [LockNext]_lockVars /\ [ErasureNext]_erasureVars
    BY DEF Next
  <1>2. UNCHANGED platformVars => /\ UNCHANGED outboxVars /\ UNCHANGED accountVars /\ UNCHANGED auditVars
                                  /\ UNCHANGED lockVars /\ UNCHANGED erasureVars
    BY DEF platformVars
  <1> QED
    BY <1>1, <1>2

\* Every part starts in its invariant, the outbox as a queue.
LEMMA PlatformInitially == Init => PlatformInv /\ Queue!Init
  BY OutboxInitially, AccountsInitially, ErasureInitially, AuditInitially, ShapeInitially DEF Init, PlatformInv

\* Every step keeps all invariants and is a step of the queue or a stutter.
LEMMA PlatformKeeps == PlatformInv /\ [Next]_platformVars => PlatformInv' /\ [Queue!Next]_Queue!mailVars
  BY PlatformParts, OutboxImplements, MailboxStays, AccountsKeeps, ErasureKeeps, AuditKeeps,
     ShapeKeeps DEF PlatformInv

\* The invariants of all parts hold throughout.
LEMMA PlatformAlways == Spec => []PlatformInv
  BY PlatformInitially, PlatformKeeps, PTL DEF Spec

\* A mailbox that counts as proven was proven by a mail to the address the
\* account has now, and a code, a challenge and a reset link take effect once
\* (lib/invitations.ts, lib/mfa.ts, lib/password-reset.ts): for any number of
\* concurrent requests, senders, addresses and links.
THEOREM IdentityAlwaysProven == Spec => []IdentityProven
  <1>1. PlatformInv => IdentityProven
    BY AccountsGoal DEF PlatformInv, IdentityProven
  <1> QED
    BY PlatformAlways, <1>1, PTL

\* The outbox (lib/email-outbox.ts) implements at-least-once delivery: every
\* step of any number of senders is a step of MailQueue or leaves it alone.
THEOREM OutboxDeliversAtLeastOnce == Spec => AtLeastOnce
  BY PlatformInitially, PlatformKeeps, PlatformAlways, PTL DEF Spec, AtLeastOnce, Queue!Spec

\* A completed erasure (lib/erasure-jobs.ts) left nothing owed, attached or on
\* disk that an upload will not remove, and no other was carried out beside
\* it, for any number of requests, runners and uploads.
THEOREM CompletedAlwaysErased == Spec => []CompletedMeansErased
  <1>1. PlatformInv => CompletedMeansErased
    BY ErasureGoal DEF PlatformInv
  <1> QED
    BY PlatformAlways, <1>1, PTL

\* However appends, roll-backs, the previous release and the checkpoint
\* interleave with it, a verification of lib/audit.ts that reads the chain page
\* by page never calls it broken, no append is refused its position, and the
\* archive is recorded once: for any number of appenders, rows and pages.
THEOREM HonestChainAlwaysVerifies == Spec => HonestChainVerifies
  <1>1. AuditInv /\ [AuditNext]_auditVars =>
          [/\ walk'.verdict # "broken" /\ refusals' = 0
           /\ \A i \in DOMAIN auditRows' :
                (i \notin DOMAIN auditRows /\ IsCheckpointRow(auditRows'[i]))
                    => auditRows'[i].mark = archive' /\ latestCheckpoint = {}]_auditVars
    BY AuditKeeps DEF AuditInv, WalkInv, PreparedInv, NewRows
  <1>2. PlatformInv /\ [Next]_platformVars => AuditInv /\ [AuditNext]_auditVars
    BY PlatformParts DEF PlatformInv
  <1> QED
    BY PlatformAlways, <1>1, <1>2, PTL DEF Spec, HonestChainVerifies

\* Transactions come to wait for each other in a circle only where a
\* SENSOR_SEQUENCE event takes part (lib/machine-events/side-effects.ts), for
\* any number of concurrent transactions: the others follow lib/db-locks.ts.
THEOREM OrderPreventsDeadlock == Spec => []OnlySensorDeadlocks
  <1>1. PlatformInv => OnlySensorDeadlocks
    BY NoOrderedCircle DEF PlatformInv
  <1> QED
    BY PlatformAlways, <1>1, PTL

=============================================================================
