---------------------------- MODULE MachineGate ----------------------------
(***************************************************************************)
(* What stands before every machine and public route: the signature and    *)
(* nonce of a machine request (verifyMachineRequest) and the rate limiter  *)
(* (checkRateLimit), both keeping their state in the Redis that all app    *)
(* instances share.  Redis itself is external.                             *)
(*                                                                         *)
(* Time is a clock in ticks.  A request is signed once and may arrive any  *)
(* number of times (the network repeats it, the machine sends it again), at *)
(* any instance.                                                           *)
(***************************************************************************)
EXTENDS Integers, FiniteSets

CONSTANTS Requests,      \* signed requests: one timestamp and one nonce each
          Instances,     \* app instances
          SKEW,          \* MACHINE_SIG_MAX_SKEW_SECONDS
          MARGIN,        \* the 60 s margin of the nonce lifetime
          MaxStall,      \* bound: ticks between an instance's clock reading and its SET NX
          LIMIT, WINDOW, \* of one rate-limit key
          MaxTicks,      \* bound of the clock
          MaxOutages     \* bound: times Redis becomes unreachable

ASSUME GateAssumption == /\ SKEW \in Nat /\ MARGIN \in Nat /\ MaxStall \in Nat
                         /\ MaxStall < MARGIN
                         /\ LIMIT \in Nat \ {0} /\ WINDOW \in Nat \ {0}
                         /\ MaxTicks \in Nat /\ MaxOutages \in Nat

VARIABLES now,         \* the time every instance and Redis agree on
          stamp,       \* x-reloop-timestamp of each request
          nonceUntil,  \* when Redis forgets the request's nonce; 0: it has none
          verifying,   \* what each instance is doing with a request
          passed,      \* times each request was let through
          redisUp,     \* Redis answers
          outages,     \* outages so far
          hits,        \* the rate-limit key's counter, 0: no key
          hitsUntil,   \* when the key expires, or NoExpiry
          hitting,     \* what each instance is doing with the rate limiter
          faulted      \* some instance failed between INCR and PEXPIRE

nonceVars == <<stamp, nonceUntil, verifying, passed>>
limitVars == <<hits, hitsUntil, hitting, faulted>>
gateVars == <<now, nonceVars, redisUp, outages, limitVars>>

NoExpiry == -1
NotVerifying == [request |-> "none", since |-> 0]

\* Mutant: the nonce is remembered for one skew.
OneSkew == SKEW + MARGIN

MACHINE_NONCE_TTL == 2 * SKEW + MARGIN

InWindow(r) == now - stamp[r] \in (-SKEW)..SKEW

(***************************************************************************)
(* verifyMachineRequest: the timestamp and the signature first, then the   *)
(* nonce.  Without Redis the request is refused as a replay.               *)
(***************************************************************************)
verifySignature(i, r) == /\ verifying[i] = NotVerifying
                         /\ InWindow(r)
                         /\ verifying' = [verifying EXCEPT ![i] = [request |-> r, since |-> now]]
                         /\ UNCHANGED <<now, stamp, nonceUntil, passed, redisUp, outages, limitVars>>

consumeMachineNonce(i) ==
  LET r == verifying[i].request IN
  /\ verifying[i] # NotVerifying
  /\ verifying' = [verifying EXCEPT ![i] = NotVerifying]
  /\ IF redisUp /\ nonceUntil[r] = 0
     THEN /\ nonceUntil' = [nonceUntil EXCEPT ![r] = now + MACHINE_NONCE_TTL]
          /\ passed' = [passed EXCEPT ![r] = @ + 1]
     ELSE UNCHANGED <<nonceUntil, passed>>
  /\ UNCHANGED <<now, stamp, redisUp, outages, limitVars>>

\* SET reached Redis and its answer did not reach the instance, which refuses.
nonceAnswerLost(i) ==
  LET r == verifying[i].request IN
  /\ verifying[i] # NotVerifying /\ redisUp /\ nonceUntil[r] = 0
  /\ outages < MaxOutages
  /\ verifying' = [verifying EXCEPT ![i] = NotVerifying]
  /\ nonceUntil' = [nonceUntil EXCEPT ![r] = now + MACHINE_NONCE_TTL]
  /\ redisUp' = FALSE /\ outages' = outages + 1
  /\ UNCHANGED <<now, stamp, passed, limitVars>>

(***************************************************************************)
(* checkRateLimit in production: INCR, PEXPIRE by the instance that got 1. *)
(***************************************************************************)
incr(i) == /\ hitting[i] = 0 /\ redisUp /\ hits <= LIMIT
           /\ hits' = hits + 1
           /\ hitsUntil' = IF hits = 0 THEN NoExpiry ELSE hitsUntil
           /\ hitting' = [hitting EXCEPT ![i] = IF hits = 0 THEN 1 ELSE 0]
           /\ UNCHANGED <<now, nonceVars, redisUp, outages, faulted>>

pexpire(i) == /\ hitting[i] = 1 /\ redisUp
              /\ hitsUntil' = now + WINDOW
              /\ hitting' = [hitting EXCEPT ![i] = 0]
              /\ UNCHANGED <<now, nonceVars, redisUp, outages, hits, faulted>>

\* The connection fails before PEXPIRE: the check is denied, the key stays.
pexpireFails(i) == /\ hitting[i] = 1 /\ ~redisUp
                   /\ hitting' = [hitting EXCEPT ![i] = 0] /\ faulted' = TRUE
                   /\ UNCHANGED <<now, nonceVars, redisUp, outages, hits, hitsUntil>>

(***************************************************************************)
(* Redis and time.                                                         *)
(***************************************************************************)
redisFails == /\ redisUp /\ outages < MaxOutages
              /\ redisUp' = FALSE /\ outages' = outages + 1
              /\ UNCHANGED <<now, nonceVars, limitVars>>

redisReady == /\ ~redisUp
              /\ redisUp' = TRUE
              /\ UNCHANGED <<now, nonceVars, outages, limitVars>>

\* Time passes; keys expire.  No instance lies between its clock reading and
\* its SET NX for more than MaxStall ticks.
gateTick == /\ now < MaxTicks
            /\ \A i \in Instances : verifying[i] # NotVerifying => now - verifying[i].since < MaxStall
            /\ now' = now + 1
            /\ nonceUntil' = [r \in Requests |-> IF nonceUntil[r] <= now' THEN 0 ELSE nonceUntil[r]]
            /\ IF hitsUntil # NoExpiry /\ hitsUntil <= now'
               THEN hits' = 0 /\ hitsUntil' = NoExpiry
               ELSE UNCHANGED <<hits, hitsUntil>>
            /\ UNCHANGED <<stamp, verifying, passed, redisUp, outages, hitting, faulted>>

GateInit == /\ now = 0
            /\ stamp \in [Requests -> (-SKEW)..SKEW]
            /\ nonceUntil = [r \in Requests |-> 0]
            /\ verifying = [i \in Instances |-> NotVerifying]
            /\ passed = [r \in Requests |-> 0]
            /\ redisUp = TRUE /\ outages = 0
            /\ hits = 0 /\ hitsUntil = NoExpiry
            /\ hitting = [i \in Instances |-> 0] /\ faulted = FALSE

GateNext == \/ \E i \in Instances : \/ \E r \in Requests : verifySignature(i, r)
                                    \/ consumeMachineNonce(i) \/ nonceAnswerLost(i)
                                    \/ incr(i) \/ pexpire(i) \/ pexpireFails(i)
            \/ redisFails \/ redisReady \/ gateTick
GateSpec == GateInit /\ [][GateNext]_gateVars

(***************************************************************************)
(* Properties.                                                             *)
(***************************************************************************)
(* A signed request is let through at most once, at whichever instances and *)
(* however late its copies arrive, with Redis failing in between: the nonce *)
(* outlives the signature.                                                  *)
SignedOnce == \A r \in Requests : passed[r] <= 1

(* A rate-limit key that will never expire, and so shuts a client out for   *)
(* good, is left only by an instance that is between INCR and PEXPIRE or    *)
(* failed there.                                                            *)
LockoutNeedsFault == (hits > 0 /\ hitsUntil = NoExpiry)
                        => (faulted \/ \E i \in Instances : hitting[i] = 1)

(* The gate as a whole.                                                     *)
GateHolds == SignedOnce /\ LockoutNeedsFault
=============================================================================
