--------------------------- MODULE Reconciliation ---------------------------
(***************************************************************************)
(* What the operators see of the wallets: the reconciliation report        *)
(* (lib/reconciliation-report.ts), the wallet inventory that gates the     *)
(* enforce migrations (scripts/reconcile-wallet-history.ts), and the       *)
(* forecast of what closing a case sets free (releasedByResolving).        *)
(*                                                                         *)
(* Both read everything in one READ ONLY, REPEATABLE READ transaction and  *)
(* take no lock, so each is a function of one committed state of module    *)
(* Wallet: any state, also one between the steps of running transactions.  *)
(*                                                                         *)
(* Abstractions: ledger rows of organizations, names, listing limits and   *)
(* the ordering of the lists are left out; the sections about trips are    *)
(* module TripValidation's subject, and legacy rows do not occur.          *)
(***************************************************************************)
EXTENDS Wallet

Requests == Users \X Keys

PAID_STATUSES == {s \in RedemptionStatus : expectedReserveStatus(s) = "REDEEMED"}
IN_FLIGHT_STATUSES == {s \in RedemptionStatus : expectedReserveStatus(s) = "PENDING"}

Total(S, amount(_)) == SumFunction([x \in S |-> amount(x)])

-----------------------------------------------------------------------------
(* Liabilities.                                                            *)

LedgerPaid(row) == IF row.type = "REDEEM" /\ row.status = "REDEEMED" THEN -row.amount ELSE 0
LedgerHeld(row) == IF row.type = "REDEEM" /\ row.status = "PENDING" THEN -row.amount ELSE 0

\* computeBalance of one user, from that user's own rows.
readUserBalances(u) ==
    LET w == db[u] IN
    [available |-> available(w), pending |-> pending(w),
     reserved |-> Total(Keys, LAMBDA k : LedgerHeld(w.reserve[k])),
     redeemed |-> Total(Keys, LAMBDA k : LedgerPaid(w.reserve[k]))]

Owed(amount) == IF amount > 0 THEN amount ELSE 0

\* A negative balance is a shortfall and never offsets what others are owed.
summarizeLiabilities ==
    LET bal == [u \in Users |-> readUserBalances(u)] IN
    [availableLiability |-> Total(Users, LAMBDA u : Owed(bal[u].available)),
     pendingLiability |-> Total(Users, LAMBDA u : Owed(bal[u].pending)),
     reservedLiability |-> Total(Users, LAMBDA u : bal[u].reserved),
     paidTotal |-> Total(Users, LAMBDA u : bal[u].redeemed),
     overdrawn |-> {u \in Users : bal[u].available < 0 \/ bal[u].pending < 0}]

-----------------------------------------------------------------------------
(* Payout requests against their reserves.                                 *)

RequestOf(q) == db[q[1]].red[q[2]]
ReserveOf(q) == db[q[1]].reserve[q[2]]

SaidPaid(q) == IF RequestOf(q).status \in PAID_STATUSES THEN RequestOf(q).amount ELSE 0
SaidHeld(q) == IF RequestOf(q).status \in IN_FLIGHT_STATUSES THEN RequestOf(q).amount ELSE 0

PaidDifference(q) == LedgerPaid(ReserveOf(q)) - SaidPaid(q)
ReservedDifference(q) == LedgerHeld(ReserveOf(q)) - SaidHeld(q)

\* Compared per request, so one surplus never hides another's shortage.
findMismatchedRequests ==
    {q \in Requests : /\ RequestOf(q) # NoRedemption
                      /\ PaidDifference(q) # 0 \/ ReservedDifference(q) # 0}

\* REDEEM rows that back no request, or one of another amount.
findReservesWithoutRequest ==
    {q \in Requests : /\ ReserveOf(q).type = "REDEEM"
                      /\ RequestOf(q) = NoRedemption \/ -ReserveOf(q).amount # RequestOf(q).amount}

\* Of those, the rows without a request that still hold or paid money; a row
\* of another amount is already a mismatched request.
orphanMismatch(q) == RequestOf(q) = NoRedemption /\ ReserveOf(q).status \in {"PENDING", "REDEEMED"}

-----------------------------------------------------------------------------
(* The report.                                                             *)

InStatus(statuses) ==
    Total(Requests, LAMBDA q : IF RequestOf(q).status \in statuses THEN RequestOf(q).amount ELSE 0)

OpenCases(u) == {e \in CaseKeys : db[u].case[e].status = "OPEN"}

buildReconciliationReport ==
    LET mismatches == findMismatchedRequests \cup {q \in findReservesWithoutRequest : orphanMismatch(q)} IN
    [liability |-> summarizeLiabilities,
     redemptionSuccessTotal |-> InStatus(PAID_STATUSES),
     redemptionInFlightTotal |-> InStatus(IN_FLIGHT_STATUSES),
     hasDiscrepancy |-> \E q \in mismatches : PaidDifference(q) # 0 \/ ReservedDifference(q) # 0,
     payoutMismatches |-> mismatches,
     flaggedTransfers |-> {q \in Requests : RequestOf(q).recon},
     casesOpen |-> Total(Users, LAMBDA u : Cardinality(OpenCases(u)))]

-----------------------------------------------------------------------------
(* The inventory.                                                          *)

\* The item's own rows, counted as computeBalance counts them.
ItemNet(u, i) == Committed(db[u], i)
ItemPending(u, i) ==
    Total({"earn", "decision"}, LAMBDA n :
        IF db[u].effect[<<n, i>>].status = "PENDING" THEN db[u].effect[<<n, i>>].amount ELSE 0)

ItemsIn(status) == {x \in Users \X Items : db[x[1]].item[x[2]].status = status}

\* REDEEM rows of a live request in the wrong state, or none at all.
requestsWithoutMatchingReserve ==
    {q \in Requests : /\ RequestOf(q).status \in {"REQUESTED", "APPROVED", "PROCESSING", "SUCCESS"}
                      /\ ReserveOf(q).status # IF RequestOf(q).status = "SUCCESS" THEN "REDEEMED" ELSE "PENDING"}

rejectedItemsWithMoney ==
    {x \in ItemsIn("REJECTED") : ItemNet(x[1], x[2]) > 0 \/ ItemPending(x[1], x[2]) # 0}

reviewItemsWithoutAcceptance == {x \in ItemsIn("REVIEW") : ~db[x[1]].item[x[2]].accepted}

acceptedItemsWithoutAcceptance == {x \in ItemsIn("ACCEPTED") : ~db[x[1]].item[x[2]].accepted}

-----------------------------------------------------------------------------
(* The forecast beside an open case.                                       *)

Least(a, b) == IF a < b THEN a ELSE b

\* Mutant: another open case on the same item is overlooked.
ReleasesWholeCase(w, key) == IF IsOpenDebit(w.case[key]) THEN Least(Owed(available(w)), w.case[key].amount) ELSE 0

\* What the hold covers is only what is available, and another open case on
\* the same item keeps holding it.
releasedByResolving(w, key) ==
    LET without == [w EXCEPT !.case[key].status = "RESOLVED"]
    IN  IF IsOpenDebit(w.case[key])
        THEN Least(Owed(available(w)), held(w)) - Least(Owed(available(w)), held(without)) ELSE 0

-----------------------------------------------------------------------------
(* Properties.                                                             *)

\* Neither the report nor the inventory raises an alarm over money the
\* services moved themselves.  Read at any instant: no request disagrees with
\* its reserve, no reserve is orphaned, nobody is overdrawn, the ledger's paid
\* and held totals are those of the requests, no erased account is part of a
\* liability, and a rejected item still carries money only where a
\* reconciliation case records it.
ReportClean ==
    LET r == buildReconciliationReport IN
    /\ ~r.hasDiscrepancy /\ r.payoutMismatches = {}
    /\ requestsWithoutMatchingReserve = {}
    /\ r.liability.overdrawn = {}
    /\ r.liability.paidTotal = r.redemptionSuccessTotal
    /\ r.liability.reservedLiability = r.redemptionInFlightTotal
    /\ \A u \in Users : db[u].erased => LET b == readUserBalances(u)
                                        IN  b.available = 0 /\ b.pending = 0 /\ b.reserved = 0
    /\ acceptedItemsWithoutAcceptance = {}
    /\ \A x \in rejectedItemsWithMoney : db[x[1]].case[<<"decision", x[2]>>] # NoCase

\* What a user can ask to be paid out.
Withdrawable(w) == Owed(available(w) - held(w))

\* Closing a case sets free exactly what the report announced for it: the
\* user's withdrawable balance grows by that amount and by nothing else.
ReleasePredicted ==
    [][\A u \in Users, key \in CaseKeys :
          db[u].case[key].status = "OPEN" /\ db' = [db EXCEPT ![u].case[key].status = "RESOLVED"]
             => Withdrawable(db'[u]) - Withdrawable(db[u]) = releasedByResolving(db[u], key)]_vars
=============================================================================
