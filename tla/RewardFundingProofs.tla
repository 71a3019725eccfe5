------------------------ MODULE RewardFundingProofs ------------------------
(***************************************************************************)
(* What the funding runs check on small instances, for every number of     *)
(* organizations, campaigns, sessions, trips and items.  The service's     *)
(* functions map funding rows to funding rows: each is shown to keep the   *)
(* shape of the rows (RowShape) and to be a Posting, the movement of one   *)
(* source and at most one of its earnings in which the account and the     *)
(* campaign move by exactly what the rows do.  A posting preserves every   *)
(* figure that is a sum over the rows, so the actions, compositions of     *)
(* these functions, need no arithmetic of their own.                       *)
(***************************************************************************)
EXTENDS RewardFunding, Sums, TLAPS

-----------------------------------------------------------------------------
(* The rows.                                                               *)

AccountRow == [confirmed : Int, held : Int]
CampaignRow == [held : Int, spent : Int]
ReservationRow == [status : {"NONE", "ACTIVE", "RELEASED"}, ceiling : Nat, remaining : Nat,
                   short : Nat, campaignShort : Nat, late : BOOLEAN]
CommitRow == [exists : BOOLEAN, held : Nat, paid : Nat, uncovered : Nat, pending : BOOLEAN]

Rows == [account : [Orgs -> AccountRow], campaign : [Campaigns -> CampaignRow],
         res : [Sources -> ReservationRow], commit : [Earnings -> CommitRow], order : Seq(Earnings)]

\* What holds of every row: only an active reservation holds anything, one that
\* was never made and a commit that was never made are blank, and no obligation
\* is paid beyond what is held.
ResShape(r) ==
    /\ r.status # "ACTIVE" => r.remaining = 0
    /\ r.status = "NONE" => r = NoReservation

CommitShape(k) ==
    /\ ~k.exists => k = NoCommit
    /\ k.paid <= k.held

\* The commits in the order payouts draw from them, each of them once.
OrderShape(g) ==
    /\ \A n \in DOMAIN g.order : g.commit[g.order[n]].exists
    /\ \A m, n \in DOMAIN g.order : g.order[m] = g.order[n] => m = n

RowShape(g) ==
    /\ g \in Rows
    /\ \A s \in Sources : ResShape(g.res[s])
    /\ \A e \in Earnings : CommitShape(g.commit[e])
    /\ OrderShape(g)

\* What a source's organization and campaign are moved by, and booked when the
\* account is moved by what the campaign is.
Moved(g, h, s, hold, kept, spent) ==
    /\ \A o \in Orgs : /\ h.account[o].confirmed = g.account[o].confirmed
                       /\ h.account[o].held = g.account[o].held + (IF OrgOf[s] = o THEN hold ELSE 0)
    /\ \A c \in Campaigns :
          /\ h.campaign[c].held = g.campaign[c].held + (IF CampaignOf[s] = c THEN kept ELSE 0)
          /\ h.campaign[c].spent = g.campaign[c].spent + (IF CampaignOf[s] = c THEN spent ELSE 0)

Booked(g, h, s, kept, spent) == Moved(g, h, s, kept + spent, kept, spent)

\* Rows other than these stay as they were.
OnlySource(g, h, s) == \A x \in Sources : x # s => h.res[x] = g.res[x]
OnlyEarning(g, h, e) == \A x \in Earnings : x # e => h.commit[x] = g.commit[x]

\* What a source is let in beyond its account's capacity; under enforcement no
\* shortfall counts.
Beyond(g, h, s) == IF Enforced THEN 0 ELSE h.res[s].short - g.res[s].short

\* The new hold is reported, or the account can carry it.
Carried(g, s, hold, beyond) ==
    \/ hold <= beyond
    \/ g.account[OrgOf[s]].held + hold - g.account[OrgOf[s]].confirmed <= beyond

\* A movement of source s alone, and one of its earning e.
SourcePosting(g, h, s) ==
    LET kept == h.res[s].remaining - g.res[s].remaining IN
    /\ h \in Rows
    /\ OnlySource(g, h, s) /\ h.commit = g.commit
    /\ Booked(g, h, s, kept, 0)
    /\ h.res[s].short >= g.res[s].short
    /\ Carried(g, s, kept, Beyond(g, h, s))

EarningPosting(g, h, e) ==
    LET s == SourceOf(e)
        kept == h.res[s].remaining - g.res[s].remaining
        spent == h.commit[e].held - g.commit[e].held
    IN  /\ h \in Rows
        /\ OnlySource(g, h, s) /\ OnlyEarning(g, h, e)
        /\ Booked(g, h, s, kept, spent)
        /\ h.commit[e].paid = g.commit[e].paid
        /\ h.commit[e].uncovered >= g.commit[e].uncovered
        /\ h.res[s].short = g.res[s].short
        /\ kept + spent <= h.commit[e].uncovered - g.commit[e].uncovered

-----------------------------------------------------------------------------
(* Writing one row.                                                        *)

\* The source of an earning is one.
LEMMA SourceOfEarning ==
    ASSUME NEW e \in Earnings
    PROVE  SourceOf(e) \in Sources
  BY FundingConstants DEF SourceOf, Earnings, Sources

\* A source's organization and campaign, where it has one.
LEMMA OwnersOfSource ==
    ASSUME NEW s \in Sources
    PROVE  OrgOf[s] \in Orgs /\ (CampaignOf[s] = NoCampaign \/ CampaignOf[s] \in Campaigns)
  BY FundingConstants

\* bumpAccount moves one account.
LEMMA BumpedAccount ==
    ASSUME NEW g \in Rows, NEW o \in Orgs, NEW confirmed \in Int, NEW hold \in Int,
           NEW h, h = bumpAccount(g, o, confirmed, hold)
    PROVE  /\ h \in Rows /\ h.campaign = g.campaign /\ h.res = g.res
           /\ h.commit = g.commit /\ h.order = g.order
           /\ \A p \in Orgs :
                 /\ h.account[p].confirmed = g.account[p].confirmed + (IF p = o THEN confirmed ELSE 0)
                 /\ h.account[p].held = g.account[p].held + (IF p = o THEN hold ELSE 0)
  <1> DEFINE row == [confirmed |-> g.account[o].confirmed + confirmed, held |-> g.account[o].held + hold]
  <1>1. g.account \in [Orgs -> AccountRow]
    BY DEF Rows
  <1>2. row \in AccountRow
    BY <1>1 DEF AccountRow
  <1>3. h = [g EXCEPT !.account[o] = row]
    BY DEF bumpAccount
  <1>4. row.confirmed = g.account[o].confirmed + confirmed /\ row.held = g.account[o].held + hold
    OBVIOUS
  <1> HIDE DEF row
  <1>5. h.account = [g.account EXCEPT ![o] = row]
    BY <1>3 DEF Rows
  <1>6. h.account \in [Orgs -> AccountRow]
    BY <1>1, <1>2, <1>5
  <1>7. h.campaign = g.campaign /\ h.res = g.res /\ h.commit = g.commit /\ h.order = g.order
    BY <1>3 DEF Rows
  <1>8. h \in Rows
    BY <1>3, <1>6 DEF Rows
  <1>9. ASSUME NEW p \in Orgs
        PROVE  /\ h.account[p].confirmed = g.account[p].confirmed + (IF p = o THEN confirmed ELSE 0)
               /\ h.account[p].held = g.account[p].held + (IF p = o THEN hold ELSE 0)
    <2>1. g.account[p].confirmed \in Int /\ g.account[p].held \in Int
      BY <1>1 DEF AccountRow
    <2>2. CASE p = o
      BY <2>2, <1>1, <1>4, <1>5
    <2>3. CASE p # o
      BY <2>3, <2>1, <1>1, <1>5
    <2> QED
      BY <2>2, <2>3
  <1> QED
    BY <1>7, <1>8, <1>9

\* bumpCampaign moves the source's campaign, if it has one.
LEMMA BumpedCampaign ==
    ASSUME NEW g \in Rows, NEW s \in Sources, NEW kept \in Int, NEW spent \in Int,
           NEW h, h = bumpCampaign(g, s, kept, spent)
    PROVE  /\ h \in Rows /\ h.account = g.account /\ h.res = g.res
           /\ h.commit = g.commit /\ h.order = g.order
           /\ \A c \in Campaigns :
                 /\ h.campaign[c].held = g.campaign[c].held + (IF CampaignOf[s] = c THEN kept ELSE 0)
                 /\ h.campaign[c].spent = g.campaign[c].spent + (IF CampaignOf[s] = c THEN spent ELSE 0)
  <1>1. g.campaign \in [Campaigns -> CampaignRow]
    BY DEF Rows
  <1>2. \A c \in Campaigns : g.campaign[c].held \in Int /\ g.campaign[c].spent \in Int
    BY <1>1 DEF CampaignRow
  <1>3. CASE CampaignOf[s] = NoCampaign
    <2>1. h = g
      BY <1>3 DEF bumpCampaign
    <2>2. \A c \in Campaigns : CampaignOf[s] # c
      BY <1>3, FundingConstants
    <2> QED
      BY <1>2, <2>1, <2>2
  <1>4. CASE CampaignOf[s] # NoCampaign
    <2> DEFINE d == CampaignOf[s]
               row == [held |-> g.campaign[d].held + kept, spent |-> g.campaign[d].spent + spent]
    <2>1. d \in Campaigns
      BY <1>4, OwnersOfSource
    <2>2. h = [g EXCEPT !.campaign[d] = row]
      BY <1>4 DEF bumpCampaign
    <2>3. row.held = g.campaign[d].held + kept /\ row.spent = g.campaign[d].spent + spent
      OBVIOUS
    <2>4. row \in CampaignRow
      BY <1>2, <2>1 DEF CampaignRow
    <2> HIDE DEF row, d
    <2>5. h.campaign = [g.campaign EXCEPT ![d] = row]
      BY <2>2 DEF Rows
    <2>6. h.campaign \in [Campaigns -> CampaignRow]
      BY <1>1, <2>4, <2>5
    <2>7. h.account = g.account /\ h.res = g.res /\ h.commit = g.commit /\ h.order = g.order
      BY <2>2 DEF Rows
    <2>8. h \in Rows
      BY <2>2, <2>6 DEF Rows
    <2>9. ASSUME NEW c \in Campaigns
          PROVE  /\ h.campaign[c].held = g.campaign[c].held + (IF d = c THEN kept ELSE 0)
                 /\ h.campaign[c].spent = g.campaign[c].spent + (IF d = c THEN spent ELSE 0)
      <3>1. CASE c = d
        BY <3>1, <1>1, <2>3, <2>5
      <3>2. CASE c # d
        BY <3>2, <1>1, <1>2, <2>5
      <3> QED
        BY <3>1, <3>2
    <2> QED
      BY <2>7, <2>8, <2>9 DEF d
  <1> QED
    BY <1>3, <1>4

\* The two together, as every service function books them.
Bumped(g, h, s, hold, kept, spent) ==
    /\ h \in Rows /\ Moved(g, h, s, hold, kept, spent)
    /\ h.res = g.res /\ h.commit = g.commit /\ h.order = g.order

\* An account and its campaign are bumped together.
LEMMA MovedBoth ==
    ASSUME NEW g \in Rows, NEW s \in Sources, NEW kept \in Int, NEW spent \in Int, NEW hold \in Int,
           NEW h, h = bumpCampaign(bumpAccount(g, OrgOf[s], 0, hold), s, kept, spent)
    PROVE  Bumped(g, h, s, hold, kept, spent)
  <1> DEFINE a == bumpAccount(g, OrgOf[s], 0, hold)
  <1>1. OrgOf[s] \in Orgs /\ 0 \in Int
    BY OwnersOfSource
  <1>2. /\ a \in Rows /\ a.campaign = g.campaign /\ a.res = g.res
        /\ a.commit = g.commit /\ a.order = g.order
        /\ \A p \in Orgs :
              /\ a.account[p].confirmed = g.account[p].confirmed + (IF p = OrgOf[s] THEN 0 ELSE 0)
              /\ a.account[p].held = g.account[p].held + (IF p = OrgOf[s] THEN hold ELSE 0)
    BY <1>1, BumpedAccount
  <1>3. h = bumpCampaign(a, s, kept, spent)
    OBVIOUS
  <1> HIDE DEF a
  <1>4. /\ h \in Rows /\ h.account = a.account /\ h.res = a.res
        /\ h.commit = a.commit /\ h.order = a.order
        /\ \A c \in Campaigns :
              /\ h.campaign[c].held = a.campaign[c].held + (IF CampaignOf[s] = c THEN kept ELSE 0)
              /\ h.campaign[c].spent = a.campaign[c].spent + (IF CampaignOf[s] = c THEN spent ELSE 0)
    BY <1>2, <1>3, BumpedCampaign
  <1>5. \A p \in Orgs : g.account[p].confirmed \in Int
    BY DEF Rows, AccountRow
  <1>6. \A p \in Orgs : /\ h.account[p].confirmed = g.account[p].confirmed
                        /\ h.account[p].held = g.account[p].held + (IF OrgOf[s] = p THEN hold ELSE 0)
    BY <1>2, <1>4, <1>5
  <1> QED
    BY <1>2, <1>4, <1>6 DEF Moved, Bumped

\* A booking that owes nothing new.
LEMMA BookedHold ==
    ASSUME NEW g \in Rows, NEW s \in Sources, NEW hold \in Int,
           NEW h, h = bumpCampaign(bumpAccount(g, OrgOf[s], 0, hold), s, hold, 0)
    PROVE  h \in Rows /\ Booked(g, h, s, hold, 0) /\ h.res = g.res /\ h.commit = g.commit /\ h.order = g.order
  <1>1. 0 \in Int
    OBVIOUS
  <1>2. Bumped(g, h, s, hold, hold, 0)
    BY <1>1, MovedBoth
  <1>3. hold + 0 = hold
    OBVIOUS
  <1> QED
    BY <1>2, <1>3 DEF Booked, Bumped

\* Writing one reservation, and one commit.
LEMMA ReservationWritten ==
    ASSUME NEW g \in Rows, NEW s \in Sources, NEW r \in ReservationRow,
           NEW h, h = [g EXCEPT !.res[s] = r]
    PROVE  /\ h \in Rows /\ h.account = g.account /\ h.campaign = g.campaign
           /\ h.commit = g.commit /\ h.order = g.order
           /\ h.res[s] = r /\ OnlySource(g, h, s)
  <1>1. g.res \in [Sources -> ReservationRow]
    BY DEF Rows
  <1>2. h.res = [g.res EXCEPT ![s] = r]
    BY DEF Rows
  <1>3. h.res \in [Sources -> ReservationRow]
    BY <1>1, <1>2
  <1>4. h \in Rows
    BY <1>3 DEF Rows
  <1>5. h.account = g.account /\ h.campaign = g.campaign /\ h.commit = g.commit /\ h.order = g.order
    BY DEF Rows
  <1> QED
    BY <1>1, <1>2, <1>4, <1>5 DEF OnlySource

Written(g, h, e, k, order) ==
    /\ h \in Rows /\ h.account = g.account /\ h.campaign = g.campaign
    /\ h.res = g.res /\ h.order = order
    /\ h.commit[e] = k /\ OnlyEarning(g, h, e)

\* Writing one commitment changes that row and the order alone.
LEMMA CommitWritten ==
    ASSUME NEW g \in Rows, NEW e \in Earnings, NEW k \in CommitRow,
           NEW order \in Seq(Earnings),
           NEW h, h = [g EXCEPT !.commit[e] = k, !.order = order]
    PROVE  Written(g, h, e, k, order)
  <1>1. g.commit \in [Earnings -> CommitRow]
    BY DEF Rows
  <1>2. h.commit = [g.commit EXCEPT ![e] = k]
    BY DEF Rows
  <1>3. h.commit \in [Earnings -> CommitRow]
    BY <1>1, <1>2
  <1>4. h.order = order
    BY DEF Rows
  <1>5. h \in Rows
    BY <1>3, <1>4 DEF Rows
  <1>6. h.account = g.account /\ h.campaign = g.campaign /\ h.res = g.res
    BY DEF Rows
  <1> QED
    BY <1>1, <1>2, <1>4, <1>5, <1>6 DEF OnlyEarning, Written

-----------------------------------------------------------------------------
(* Reservations.                                                           *)

\* Nothing moves.
LEMMA NothingPosted ==
    ASSUME NEW g \in Rows, NEW s \in Sources
    PROVE  SourcePosting(g, g, s)
  <1>1. g.res[s].remaining \in Nat /\ g.res[s].short \in Nat
    BY DEF Rows, ReservationRow
  <1>2. \A o \in Orgs : g.account[o].held \in Int /\ g.account[o].confirmed \in Int
    BY DEF Rows, AccountRow
  <1>3. \A c \in Campaigns : g.campaign[c].held \in Int /\ g.campaign[c].spent \in Int
    BY DEF Rows, CampaignRow
  <1>4. g.res[s].remaining - g.res[s].remaining = 0 /\ g.res[s].short - g.res[s].short = 0
    BY <1>1
  <1>5. Booked(g, g, s, 0, 0)
    BY <1>2, <1>3 DEF Booked, Moved
  <1>6. Beyond(g, g, s) = 0
    BY <1>4 DEF Beyond
  <1>7. Carried(g, s, 0, 0)
    BY DEF Carried
  <1> QED
    BY <1>1, <1>4, <1>5, <1>6, <1>7 DEF SourcePosting, OnlySource

\* What is committed under a source is a number.
LEMMA CommittedType ==
    ASSUME NEW g \in Rows, NEW s \in Sources
    PROVE  CommittedUnder(g, s) \in Nat
  <1> DEFINE row == [e \in Earnings |-> IF SourceOf(e) = s THEN g.commit[e].held ELSE 0]
  <1>1. \A e \in Earnings : row[e] \in Nat
    BY DEF Rows, CommitRow
  <1>2. IsFiniteSet(Earnings)
    BY FundingConstants, FS_Union DEF Earnings
  <1>3. DOMAIN row = Earnings
    OBVIOUS
  <1>4. CommittedUnder(g, s) = SumFunctionOnSet(row, Earnings)
    BY <1>3 DEF CommittedUnder, SumFunction
  <1> HIDE DEF row
  <1> QED
    BY <1>1, <1>2, <1>4, SumNat

\* A source changed alone, with its booking and its shape, keeps the rows'.
LEMMA SourceShape ==
    ASSUME NEW g, RowShape(g), NEW s \in Sources, NEW h \in Rows,
           OnlySource(g, h, s), h.commit = g.commit, h.order = g.order, ResShape(h.res[s])
    PROVE  RowShape(h)
  <1>1. \A x \in Sources : ResShape(h.res[x])
    BY DEF RowShape, OnlySource
  <1>2. \A e \in Earnings : CommitShape(h.commit[e])
    BY DEF RowShape
  <1>3. OrderShape(h)
    BY DEF RowShape, OrderShape
  <1> QED
    BY <1>1, <1>2, <1>3 DEF RowShape

\* The ceiling of a reservation is never lowered: what is added is not negative.
LEMMA ReserveDeltaType ==
    ASSUME NEW g, RowShape(g), NEW s \in Sources, NEW ceiling \in Nat,
           ~AlreadyReserved(g, s, ceiling)
    PROVE  ReserveDelta(g, s, ceiling) \in Nat
  <1>1. g \in Rows /\ ResShape(g.res[s])
    BY DEF RowShape
  <1>2. g.res[s] \in ReservationRow
    BY <1>1 DEF Rows
  <1>3. CASE g.res[s].status = "RELEASED"
    <2>1. CommittedUnder(g, s) \in Int
      BY <1>1, CommittedType
    <2> QED
      BY <1>3, <2>1 DEF ReserveDelta, Most
  <1>4. CASE g.res[s].status = "ACTIVE"
    BY <1>2, <1>4 DEF ReserveDelta, AlreadyReserved, ReservationRow
  <1>5. CASE g.res[s].status = "NONE"
    <2>1. g.res[s].ceiling = 0
      BY <1>1, <1>5 DEF ResShape, NoReservation
    <2> QED
      BY <1>5, <2>1 DEF ReserveDelta
  <1> QED
    BY <1>2, <1>3, <1>4, <1>5 DEF ReservationRow

\* reserveRewardBudget holds the ceiling, on the account and the campaign, within
\* capacity or with the shortfall on record.
LEMMA ReservePosting ==
    ASSUME NEW g, RowShape(g), NEW s \in Sources, NEW ceiling \in Nat, MayReserve(g, s, ceiling),
           NEW h, h = reserveRewardBudget(g, s, ceiling)
    PROVE  /\ SourcePosting(g, h, s) /\ RowShape(h)
           /\ h.res[s] = IF AlreadyReserved(g, s, ceiling) THEN g.res[s] ELSE Reserved(g, s, ceiling)
  <1>1. g \in Rows /\ g.res[s] \in ReservationRow /\ ResShape(g.res[s])
    BY DEF RowShape, Rows
  <1>2. CASE AlreadyReserved(g, s, ceiling)
    <2>1. h = g
      BY <1>2 DEF reserveRewardBudget
    <2> QED
      BY <1>1, <1>2, <2>1, NothingPosted
  <1>3. CASE ~AlreadyReserved(g, s, ceiling)
    <2> DEFINE delta == ReserveDelta(g, s, ceiling)
               lack == checkCapacity(g, s, delta)
               bumped == bumpCampaign(bumpAccount(g, OrgOf[s], 0, delta), s, delta, 0)
               r == Reserved(g, s, ceiling)
               free == g.account[OrgOf[s]].confirmed - g.account[OrgOf[s]].held
    <2>1. delta \in Nat
      BY <1>3, ReserveDeltaType
    <2>2. /\ g.account[OrgOf[s]].confirmed \in Int /\ g.account[OrgOf[s]].held \in Int
      BY <1>1, OwnersOfSource DEF Rows, AccountRow
    <2>3. CampaignOf[s] \in Campaigns =>
             /\ g.campaign[CampaignOf[s]].held \in Int /\ g.campaign[CampaignOf[s]].spent \in Int
             /\ Budget[CampaignOf[s]] \in Nat
      BY <1>1, FundingConstants DEF Rows, CampaignRow
    <2> HIDE DEF delta
    <2>4. lack.account = Most(0, delta - free)
      BY DEF checkCapacity
    <2>5. lack.account \in Nat /\ lack.account >= delta - free
      BY <2>1, <2>2, <2>4 DEF Most
    <2>6. lack.campaign \in Nat
      BY <2>1, <2>3, OwnersOfSource DEF checkCapacity, Most
    <2>7. h = [bumped EXCEPT !.res[s] = r]
      BY <1>3 DEF reserveRewardBudget, delta
    <2>8. r = [g.res[s] EXCEPT !.status = "ACTIVE", !.ceiling = ceiling,
                 !.remaining = IF g.res[s].status = "RELEASED" THEN delta ELSE @ + delta,
                 !.short = @ + lack.account, !.campaignShort = @ + lack.campaign]
      BY DEF Reserved, delta
    <2> HIDE DEF lack
    <2>9. delta \in Int
      BY <2>1
    <2>10. bumped \in Rows /\ Booked(g, bumped, s, delta, 0) /\ bumped.res = g.res
           /\ bumped.commit = g.commit /\ bumped.order = g.order
      BY <1>1, <2>9, BookedHold
    <2> HIDE DEF bumped
    <2>11. r \in ReservationRow
      <3> DEFINE left == IF g.res[s].status = "RELEASED" THEN delta ELSE g.res[s].remaining + delta
                 short == g.res[s].short + lack.account
                 campaignShort == g.res[s].campaignShort + lack.campaign
      <3>1. left \in Nat /\ short \in Nat /\ campaignShort \in Nat
        BY <1>1, <2>1, <2>5, <2>6 DEF ReservationRow
      <3>2. r = [g.res[s] EXCEPT !.status = "ACTIVE", !.ceiling = ceiling, !.remaining = left,
                                 !.short = short, !.campaignShort = campaignShort]
        BY <1>1, <2>8 DEF ReservationRow
      <3> HIDE DEF left, short, campaignShort, r
      <3> QED
        BY <1>1, <3>1, <3>2 DEF ReservationRow
    <2>13. r.status = "ACTIVE" /\ r.ceiling = ceiling
           /\ r.remaining = (IF g.res[s].status = "RELEASED" THEN delta ELSE g.res[s].remaining + delta)
           /\ r.short = g.res[s].short + lack.account
      BY <1>1, <2>8 DEF ReservationRow
    <2> HIDE DEF r
    <2>14. /\ h \in Rows /\ h.account = bumped.account /\ h.campaign = bumped.campaign
           /\ h.commit = bumped.commit /\ h.order = bumped.order
           /\ h.res[s] = r /\ OnlySource(bumped, h, s)
      BY <2>7, <2>10, <2>11, ReservationWritten
    <2>15. OnlySource(g, h, s)
      BY <2>10, <2>14 DEF OnlySource
    <2>16. g.res[s].remaining \in Nat /\ g.res[s].short \in Nat
      BY <1>1 DEF ReservationRow
    <2>17. h.res[s].remaining - g.res[s].remaining = delta
      <3>1. CASE g.res[s].status = "RELEASED"
        <4>1. g.res[s].remaining = 0
          BY <1>1, <3>1 DEF ResShape
        <4> QED
          BY <2>1, <2>13, <2>14, <3>1, <4>1
      <3>2. CASE g.res[s].status # "RELEASED"
        BY <2>1, <2>13, <2>14, <2>16, <3>2
      <3> QED
        BY <3>1, <3>2
    <2>18. Booked(g, h, s, delta, 0)
      BY <2>10, <2>14 DEF Booked, Moved
    <2>19. h.res[s].short >= g.res[s].short /\ h.res[s].short - g.res[s].short = lack.account
      BY <2>5, <2>13, <2>14, <2>16
    <2>20. Carried(g, s, delta, Beyond(g, h, s))
      <3>1. CASE Enforced
        <4>1. lack = [account |-> 0, campaign |-> 0]
          BY <1>3, <3>1 DEF MayReserve, Admits, lack, delta
        <4>2. lack.account = 0
          BY <4>1
        <4>3. Beyond(g, h, s) = 0
          BY <3>1 DEF Beyond
        <4>4. g.account[OrgOf[s]].held + delta - g.account[OrgOf[s]].confirmed <= 0
          BY <2>1, <2>2, <2>5, <4>2
        <4> QED
          BY <4>3, <4>4 DEF Carried
      <3>2. CASE ~Enforced
        <4>1. Beyond(g, h, s) = lack.account
          BY <2>19, <3>2 DEF Beyond
        <4>2. g.account[OrgOf[s]].held + delta - g.account[OrgOf[s]].confirmed <= lack.account
          BY <2>1, <2>2, <2>5
        <4> QED
          BY <4>1, <4>2 DEF Carried
      <3> QED
        BY <3>1, <3>2
    <2>21. SourcePosting(g, h, s)
      BY <2>10, <2>14, <2>15, <2>17, <2>18, <2>19, <2>20 DEF SourcePosting
    <2>22. ResShape(h.res[s])
      BY <2>13, <2>14 DEF ResShape
    <2>23. RowShape(h)
      BY <2>10, <2>14, <2>15, <2>22, SourceShape
    <2> QED
      BY <1>3, <2>14, <2>21, <2>23 DEF r
  <1> QED
    BY <1>2, <1>3

\* resolveSourceReservation opens an empty late reservation.
LEMMA ResolvePosting ==
    ASSUME NEW g, RowShape(g), NEW s \in Sources, NEW h, h = resolveSourceReservation(g, s)
    PROVE  /\ SourcePosting(g, h, s) /\ RowShape(h) /\ h.commit = g.commit
           /\ g.res[s].status # "NONE" => h = g
  <1>1. g \in Rows /\ g.res[s] \in ReservationRow /\ ResShape(g.res[s])
    BY DEF RowShape, Rows
  <1>2. CASE g.res[s].status # "NONE"
    BY <1>1, <1>2, NothingPosted DEF resolveSourceReservation
  <1>3. CASE g.res[s].status = "NONE"
    <2> DEFINE r == [NoReservation EXCEPT !.status = "ACTIVE", !.late = TRUE]
    <2>1. r \in ReservationRow /\ r.status = "ACTIVE" /\ r.remaining = 0 /\ r.short = 0
      BY DEF NoReservation, ReservationRow
    <2>2. h = [g EXCEPT !.res[s] = r]
      BY <1>3 DEF resolveSourceReservation
    <2> HIDE DEF r
    <2>3. /\ h \in Rows /\ h.account = g.account /\ h.campaign = g.campaign
          /\ h.commit = g.commit /\ h.order = g.order
          /\ h.res[s] = r /\ OnlySource(g, h, s)
      BY <1>1, <2>1, <2>2, ReservationWritten
    <2>4. g.res[s].remaining = 0 /\ g.res[s].short = 0
      BY <1>1, <1>3 DEF ResShape, NoReservation
    <2>5. SourcePosting(g, g, s)
      BY <1>1, NothingPosted
    <2>6. /\ Booked(g, g, s, 0, 0) /\ Carried(g, s, 0, Beyond(g, g, s))
      BY <2>4, <2>5 DEF SourcePosting
    <2>7. Beyond(g, h, s) = Beyond(g, g, s)
      BY <2>1, <2>3, <2>4 DEF Beyond
    <2>8. Booked(g, h, s, 0, 0)
      BY <2>3, <2>6 DEF Booked, Moved
    <2>9. SourcePosting(g, h, s)
      BY <2>1, <2>3, <2>4, <2>6, <2>7, <2>8 DEF SourcePosting
    <2>10. ResShape(h.res[s])
      BY <2>1, <2>3 DEF ResShape
    <2>11. RowShape(h)
      BY <2>3, <2>10, SourceShape
    <2> QED
      BY <1>3, <2>3, <2>9, <2>11
  <1> QED
    BY <1>2, <1>3

\* releaseUnusedRewardBudget gives back at most what remains.
LEMMA ReleasePosting ==
    ASSUME NEW g, RowShape(g), NEW s \in Sources, g.res[s].status = "ACTIVE",
           NEW amount \in Nat, NEW close \in BOOLEAN, close => amount = g.res[s].remaining,
           NEW h, h = releaseUnusedRewardBudget(g, s, amount, close)
    PROVE  /\ SourcePosting(g, h, s) /\ RowShape(h)
           /\ h.res[s].status = IF close THEN "RELEASED" ELSE "ACTIVE"
           /\ h.res[s].late = g.res[s].late
  <1> DEFINE given == Least(amount, g.res[s].remaining)
             bumped == bumpCampaign(bumpAccount(g, OrgOf[s], 0, -given), s, -given, 0)
             r == [g.res[s] EXCEPT !.remaining = @ - given, !.status = IF close THEN "RELEASED" ELSE @]
  <1>1. g \in Rows /\ g.res[s] \in ReservationRow /\ ResShape(g.res[s])
    BY DEF RowShape, Rows
  <1>2. g.res[s].remaining \in Nat /\ g.res[s].short \in Nat
    BY <1>1 DEF ReservationRow
  <1>3. given \in Nat /\ given <= g.res[s].remaining
    BY <1>2 DEF Least
  <1>4. close => given = g.res[s].remaining
    BY <1>2 DEF Least
  <1>5. h = [bumped EXCEPT !.res[s].remaining = @ - given, !.res[s].status = IF close THEN "RELEASED" ELSE @]
    BY DEF releaseUnusedRewardBudget
  <1> HIDE DEF given
  <1>6. -given \in Int
    BY <1>3
  <1>7. bumped \in Rows /\ Booked(g, bumped, s, -given, 0) /\ bumped.res = g.res
        /\ bumped.commit = g.commit /\ bumped.order = g.order
    BY <1>1, <1>6, BookedHold
  <1> HIDE DEF bumped
  <1>8. h = [bumped EXCEPT !.res[s] = r]
    <2>1. bumped.res \in [Sources -> ReservationRow] /\ bumped.res[s] = g.res[s]
      BY <1>7 DEF Rows
    <2>2. bumped = [bumped EXCEPT !.res = bumped.res]
      BY <1>7 DEF Rows
    <2> QED
      BY <1>5, <2>1
  <1>9. r \in ReservationRow
    <2> DEFINE left == g.res[s].remaining - given
               status == IF close THEN "RELEASED" ELSE "ACTIVE"
    <2>1. left \in Nat /\ status \in {"NONE", "ACTIVE", "RELEASED"}
      BY <1>2, <1>3
    <2>2. r = [g.res[s] EXCEPT !.remaining = left, !.status = status]
      BY <1>1 DEF ReservationRow
    <2> HIDE DEF left, status, r
    <2> QED
      BY <1>1, <2>1, <2>2 DEF ReservationRow
  <1>10. /\ r.remaining = g.res[s].remaining - given /\ r.short = g.res[s].short
         /\ r.late = g.res[s].late
         /\ r.status = IF close THEN "RELEASED" ELSE "ACTIVE"
    BY <1>1 DEF ReservationRow
  <1> HIDE DEF r
  <1>11. /\ h \in Rows /\ h.account = bumped.account /\ h.campaign = bumped.campaign
         /\ h.commit = bumped.commit /\ h.order = bumped.order
         /\ h.res[s] = r /\ OnlySource(bumped, h, s)
    BY <1>7, <1>8, <1>9, ReservationWritten
  <1>12. OnlySource(g, h, s)
    BY <1>7, <1>11 DEF OnlySource
  <1>13. h.res[s].remaining - g.res[s].remaining = -given
    BY <1>2, <1>3, <1>10, <1>11
  <1>14. Booked(g, h, s, -given, 0)
    BY <1>7, <1>11 DEF Booked, Moved
  <1>15. Beyond(g, h, s) = 0 /\ h.res[s].short >= g.res[s].short
    BY <1>2, <1>10, <1>11 DEF Beyond
  <1>16. Carried(g, s, -given, Beyond(g, h, s))
    BY <1>3, <1>15 DEF Carried
  <1>17. SourcePosting(g, h, s)
    BY <1>7, <1>11, <1>12, <1>13, <1>14, <1>15, <1>16 DEF SourcePosting
  <1>18. ResShape(h.res[s])
    <2>1. close => h.res[s].remaining = 0
      BY <1>2, <1>4, <1>10, <1>11
    <2> QED
      BY <1>10, <1>11, <2>1 DEF ResShape
  <1>19. RowShape(h)
    BY <1>7, <1>11, <1>12, <1>18, SourceShape
  <1> QED
    BY <1>10, <1>11, <1>17, <1>19

-----------------------------------------------------------------------------
(* Obligations.                                                            *)

\* Draw takes what the reservation has and holds the rest on the account.
LEMMA DrawPosted ==
    ASSUME NEW g, RowShape(g), NEW s \in Sources, NEW amount \in Nat, NEW h, h = Draw(g, s, amount)
    PROVE  /\ h \in Rows /\ OnlySource(g, h, s) /\ h.commit = g.commit /\ h.order = g.order
           /\ Booked(g, h, s, h.res[s].remaining - g.res[s].remaining, amount)
           /\ h.res[s].remaining - g.res[s].remaining + amount = UncoveredBy(g, s, amount)
           /\ UncoveredBy(g, s, amount) \in Nat
           /\ h.res[s].short = g.res[s].short /\ ResShape(h.res[s])
           /\ h.res[s].late = g.res[s].late
  <1> DEFINE covered == IF g.res[s].status = "ACTIVE" THEN Least(amount, g.res[s].remaining) ELSE 0
             r == [g.res[s] EXCEPT !.remaining = @ - covered]
             drawn == [g EXCEPT !.res[s] = r]
             hold == amount - covered
  <1>1. g \in Rows /\ g.res[s] \in ReservationRow /\ ResShape(g.res[s])
    BY DEF RowShape, Rows
  <1>2. g.res[s].remaining \in Nat
    BY <1>1 DEF ReservationRow
  <1>3. covered \in Nat /\ covered <= g.res[s].remaining /\ covered <= amount
    BY <1>2 DEF Least
  <1>4. g.res[s].status # "ACTIVE" => covered = 0
    OBVIOUS
  <1>5. UncoveredBy(g, s, amount) = hold
    BY DEF UncoveredBy
  <1>6. h = bumpCampaign(bumpAccount(drawn, OrgOf[s], 0, hold), s, -covered, amount)
    BY DEF Draw
  <1> HIDE DEF covered
  <1>7. hold \in Nat /\ -covered \in Int /\ amount \in Int /\ hold \in Int
    BY <1>3
  <1>8. r \in ReservationRow
    <2> DEFINE left == g.res[s].remaining - covered
    <2>1. left \in Nat /\ r = [g.res[s] EXCEPT !.remaining = left]
      BY <1>2, <1>3
    <2> HIDE DEF left, r
    <2> QED
      BY <1>1, <2>1 DEF ReservationRow
  <1>9. /\ r.remaining = g.res[s].remaining - covered /\ r.status = g.res[s].status
        /\ r.short = g.res[s].short /\ r.late = g.res[s].late
    BY <1>1 DEF ReservationRow
  <1>10. ResShape(r)
    <2>1. r.status # "ACTIVE" => r.remaining = 0
      BY <1>1, <1>4, <1>9 DEF ResShape
    <2>2. ASSUME r.status = "NONE"
          PROVE  r = NoReservation
      <3>1. g.res[s] = NoReservation /\ covered = 0
        BY <1>1, <1>4, <1>9, <2>2 DEF ResShape
      <3> QED
        BY <3>1 DEF NoReservation
    <2> HIDE DEF r
    <2> QED
      BY <2>1, <2>2 DEF ResShape
  <1> HIDE DEF r
  <1>11. /\ drawn \in Rows /\ drawn.account = g.account /\ drawn.campaign = g.campaign
         /\ drawn.commit = g.commit /\ drawn.order = g.order
         /\ drawn.res[s] = r /\ OnlySource(g, drawn, s)
    BY <1>1, <1>8, ReservationWritten
  <1> HIDE DEF drawn
  <1>12. Bumped(drawn, h, s, hold, -covered, amount)
    <2> HIDE DEF hold
    <2> QED
      BY <1>6, <1>7, <1>11, MovedBoth
  <1>13. /\ h \in Rows /\ OnlySource(g, h, s) /\ h.commit = g.commit /\ h.order = g.order /\ h.res[s] = r
    BY <1>11, <1>12 DEF Bumped, OnlySource
  <1>14. h.res[s].remaining - g.res[s].remaining = -covered
    BY <1>2, <1>3, <1>9, <1>13
  <1>15. -covered + amount = hold
    BY <1>3
  <1>16. Moved(g, h, s, hold, -covered, amount)
    BY <1>11, <1>12 DEF Bumped, Moved
  <1>17. Booked(g, h, s, -covered, amount)
    BY <1>15, <1>16 DEF Booked
  <1> QED
    BY <1>5, <1>7, <1>9, <1>10, <1>13, <1>14, <1>15, <1>17

\* The source of an earning was booked for its new row k.
BookedFor(g, m, e, k) ==
    LET s == SourceOf(e)
        kept == m.res[s].remaining - g.res[s].remaining
        spent == k.held - g.commit[e].held
    IN  /\ m \in Rows /\ OnlySource(g, m, s) /\ m.commit = g.commit /\ ResShape(m.res[s])
        /\ m.res[s].short = g.res[s].short
        /\ k \in CommitRow /\ CommitShape(k) /\ k.paid = g.commit[e].paid
        /\ Booked(g, m, s, kept, spent)
        /\ k.uncovered >= g.commit[e].uncovered
        /\ kept + spent <= k.uncovered - g.commit[e].uncovered

\* One earning written after its source was booked keeps the rows' shape.
LEMMA EarningWritten ==
    ASSUME NEW g, RowShape(g), NEW e \in Earnings, NEW m, NEW k, BookedFor(g, m, e, k),
           NEW order \in Seq(Earnings), NEW h, Written(m, h, e, k, order)
    PROVE  EarningPosting(g, h, e) /\ (OrderShape(h) => RowShape(h))
  <1> DEFINE s == SourceOf(e)
             kept == m.res[s].remaining - g.res[s].remaining
             spent == k.held - g.commit[e].held
  <1>1. /\ m \in Rows /\ OnlySource(g, m, s) /\ m.commit = g.commit /\ ResShape(m.res[s])
        /\ m.res[s].short = g.res[s].short
        /\ k \in CommitRow /\ CommitShape(k) /\ k.paid = g.commit[e].paid
        /\ Booked(g, m, s, kept, spent)
        /\ k.uncovered >= g.commit[e].uncovered
        /\ kept + spent <= k.uncovered - g.commit[e].uncovered
    BY DEF BookedFor
  <1>2. /\ h \in Rows /\ h.account = m.account /\ h.campaign = m.campaign
        /\ h.res = m.res /\ h.order = order
        /\ h.commit[e] = k /\ OnlyEarning(m, h, e)
    BY DEF Written
  <1>3. OnlySource(g, h, s) /\ OnlyEarning(g, h, e)
    BY <1>1, <1>2 DEF OnlySource, OnlyEarning
  <1>4. Booked(g, h, s, kept, spent)
    BY <1>1, <1>2 DEF Booked, Moved
  <1>5. kept = h.res[s].remaining - g.res[s].remaining /\ spent = h.commit[e].held - g.commit[e].held
    BY <1>2
  <1> HIDE DEF kept, spent
  <1>6. s \in Sources
    BY SourceOfEarning
  <1>7. \A x \in Sources : ResShape(h.res[x])
    <2>1. \A x \in Sources : x # s => m.res[x] = g.res[x]
      BY <1>1 DEF OnlySource
    <2> HIDE DEF s
    <2> QED
      BY <1>1, <1>2, <2>1 DEF RowShape
  <1>8. EarningPosting(g, h, e)
    BY <1>1, <1>2, <1>3, <1>4, <1>5 DEF EarningPosting
  <1>9. \A x \in Earnings : CommitShape(h.commit[x])
    BY <1>1, <1>2, <1>3 DEF RowShape, OnlyEarning
  <1> QED
    BY <1>2, <1>7, <1>8, <1>9 DEF RowShape

\* The new obligation is the youngest, and is not in the order yet.
LEMMA OrderExtended ==
    ASSUME NEW g, RowShape(g), NEW e \in Earnings, ~g.commit[e].exists,
           NEW h, h.order = Append(g.order, e), h.commit[e].exists, OnlyEarning(g, h, e)
    PROVE  OrderShape(h) /\ Append(g.order, e) \in Seq(Earnings)
  <1>1. g.order \in Seq(Earnings) /\ OrderShape(g)
    BY DEF RowShape, Rows
  <1>2. Append(g.order, e) \in Seq(Earnings)
    BY <1>1
  <1>3. DOMAIN h.order = 1..(Len(g.order) + 1) /\ DOMAIN g.order = 1..Len(g.order) /\ Len(g.order) \in Nat
    BY <1>1
  <1>4. \A n \in DOMAIN h.order : IF n = Len(g.order) + 1 THEN h.order[n] = e
                                  ELSE n \in DOMAIN g.order /\ h.order[n] = g.order[n]
    BY <1>1, <1>3
  <1>5. \A n \in DOMAIN g.order : g.order[n] # e /\ g.order[n] \in Earnings
    BY <1>1 DEF OrderShape
  <1>6. \A n \in DOMAIN h.order : h.commit[h.order[n]].exists
    BY <1>1, <1>4, <1>5 DEF OrderShape, OnlyEarning
  <1>7. \A a, b \in DOMAIN h.order : h.order[a] = h.order[b] => a = b
    BY <1>1, <1>4, <1>5 DEF OrderShape
  <1> QED
    BY <1>2, <1>6, <1>7 DEF OrderShape

\* The order is kept where no obligation is new.
LEMMA OrderKept ==
    ASSUME NEW g, OrderShape(g), NEW e, NEW h, h.order = g.order, OnlyEarning(g, h, e),
           e \in Earnings => (g.commit[e].exists => h.commit[e].exists),
           g.order \in Seq(Earnings)
    PROVE  OrderShape(h)
  <1>1. \A n \in DOMAIN g.order : g.order[n] \in Earnings
    OBVIOUS
  <1> QED
    BY <1>1 DEF OrderShape, OnlyEarning

\* commitRewardAgainstBudget records the obligation and what it draws.
LEMMA CommitPosting ==
    ASSUME NEW g, RowShape(g), NEW e \in Earnings, ~g.commit[e].exists,
           NEW amount \in Nat, NEW pending \in BOOLEAN,
           NEW h, h = commitRewardAgainstBudget(g, e, amount, pending)
    PROVE  /\ EarningPosting(g, h, e) /\ RowShape(h)
           /\ h.commit[e] = [exists |-> TRUE, held |-> amount, paid |-> 0,
                             uncovered |-> UncoveredBy(g, SourceOf(e), amount), pending |-> pending]
           /\ h.res[SourceOf(e)].late = g.res[SourceOf(e)].late
  <1> DEFINE s == SourceOf(e)
             more == UncoveredBy(g, s, amount)
             k == [exists |-> TRUE, held |-> amount, paid |-> 0, uncovered |-> more, pending |-> pending]
             m == Draw(g, s, amount)
             order == Append(g.order, e)
             kept == m.res[s].remaining - g.res[s].remaining
  <1>1. s \in Sources
    BY SourceOfEarning
  <1>2. h = [m EXCEPT !.commit[e] = k, !.order = Append(@, e)]
    BY DEF commitRewardAgainstBudget
  <1> HIDE DEF s
  <1>3. /\ m \in Rows /\ OnlySource(g, m, s) /\ m.commit = g.commit /\ m.order = g.order
        /\ Booked(g, m, s, kept, amount)
        /\ kept + amount = more /\ more \in Nat
        /\ m.res[s].short = g.res[s].short /\ ResShape(m.res[s])
        /\ m.res[s].late = g.res[s].late
    BY <1>1, DrawPosted
  <1> HIDE DEF m, more
  <1>4. k \in CommitRow /\ CommitShape(k) /\ k.exists /\ k.held = amount /\ k.paid = 0 /\ k.uncovered = more
    BY <1>3 DEF CommitRow, CommitShape
  <1>5. g.commit[e] = NoCommit
    BY DEF RowShape, CommitShape
  <1>6. g.commit[e].held = 0 /\ g.commit[e].paid = 0 /\ g.commit[e].uncovered = 0
    BY <1>5 DEF NoCommit
  <1>7. h = [m EXCEPT !.commit[e] = k, !.order = order]
    BY <1>2, <1>3
  <1>8. g \in Rows /\ g.order \in Seq(Earnings)
    BY DEF RowShape, Rows
  <1>9. order \in Seq(Earnings)
    BY <1>8
  <1>10. kept \in Int
    BY <1>1, <1>3, <1>8 DEF Rows, ReservationRow
  <1> HIDE DEF k, order, kept
  <1>11. amount = k.held - g.commit[e].held /\ k.paid = g.commit[e].paid
         /\ k.uncovered = g.commit[e].uncovered + more /\ kept + amount <= more /\ amount \in Int
    BY <1>3, <1>4, <1>6, <1>10
  <1>12. k.uncovered >= g.commit[e].uncovered /\ k.uncovered - g.commit[e].uncovered = more
    BY <1>3, <1>4, <1>6
  <1>13. BookedFor(g, m, e, k)
    BY <1>3, <1>4, <1>11, <1>12 DEF BookedFor, s, kept
  <1>14. Written(m, h, e, k, order)
    BY <1>3, <1>4, <1>7, <1>9, CommitWritten
  <1>15. EarningPosting(g, h, e) /\ (OrderShape(h) => RowShape(h))
    BY <1>9, <1>13, <1>14, EarningWritten
  <1>16. OnlyEarning(g, h, e) /\ h.commit[e] = k /\ h.res = m.res /\ h.order = order
    BY <1>14, <1>15 DEF EarningPosting, Written
  <1>17. OrderShape(h)
    BY <1>4, <1>16, OrderExtended DEF order
  <1> QED
    BY <1>3, <1>15, <1>16, <1>17 DEF k, s, more

\* settleCommittedReward moves the obligation to its target, or to what was paid.
LEMMA SettlePosting ==
    ASSUME NEW g, RowShape(g), NEW e \in Earnings, g.commit[e].exists,
           NEW target \in Nat, NEW pending \in BOOLEAN,
           NEW h, h = settleCommittedReward(g, e, target, pending)
    PROVE  EarningPosting(g, h, e) /\ RowShape(h)
  <1> DEFINE s == SourceOf(e)
             newHeld == NewObligation(target, g.commit[e].paid)
             delta == newHeld - g.commit[e].held
             more == IF delta > 0 THEN UncoveredBy(g, s, delta) ELSE 0
             k == [g.commit[e] EXCEPT !.held = newHeld, !.pending = pending, !.uncovered = @ + more]
             m == IF delta > 0 THEN Draw(g, s, delta)
                  ELSE bumpCampaign(bumpAccount(g, OrgOf[s], 0, delta), s, 0, delta)
             kept == m.res[s].remaining - g.res[s].remaining
             order == g.order
  <1>1. s \in Sources
    BY SourceOfEarning
  <1>2. g \in Rows /\ g.commit[e] \in CommitRow /\ g.order \in Seq(Earnings) /\ OrderShape(g) /\ ResShape(g.res[s])
    BY <1>1 DEF RowShape, Rows
  <1>3. g.commit[e].held \in Nat /\ g.commit[e].paid \in Nat /\ g.commit[e].uncovered \in Nat
    BY <1>2 DEF CommitRow
  <1>4. newHeld \in Nat /\ newHeld >= g.commit[e].paid
    BY <1>3 DEF NewObligation, Most
  <1>5. h = [m EXCEPT !.commit[e] = k]
    BY DEF settleCommittedReward
  <1> HIDE DEF s, newHeld
  <1>6. delta \in Int
    BY <1>3, <1>4
  <1>7. /\ m \in Rows /\ OnlySource(g, m, s) /\ m.commit = g.commit /\ m.order = g.order
        /\ Booked(g, m, s, kept, delta)
        /\ kept + delta <= more /\ more \in Nat
        /\ m.res[s].short = g.res[s].short /\ ResShape(m.res[s])
        /\ kept \in Int
    <2> HIDE DEF delta
    <2>1. CASE delta > 0
      <3>1. delta \in Nat /\ m = Draw(g, s, delta) /\ more = UncoveredBy(g, s, delta)
        BY <1>6, <2>1
      <3> HIDE DEF m, more
      <3>2. /\ m \in Rows /\ OnlySource(g, m, s) /\ m.commit = g.commit /\ m.order = g.order
            /\ Booked(g, m, s, kept, delta)
            /\ kept + delta = more /\ more \in Nat
            /\ m.res[s].short = g.res[s].short /\ ResShape(m.res[s])
        BY <1>1, <3>1, DrawPosted
      <3>3. kept \in Int
        BY <1>1, <1>2, <3>2 DEF Rows, ReservationRow
      <3>4. kept + delta <= more
        BY <3>2, <3>3
      <3> QED
        BY <3>2, <3>3, <3>4
    <2>2. CASE ~(delta > 0)
      <3>1. m = bumpCampaign(bumpAccount(g, OrgOf[s], 0, delta), s, 0, delta) /\ more = 0
        BY <2>2
      <3> HIDE DEF m, more
      <3>2. 0 \in Int
        OBVIOUS
      <3>3. Bumped(g, m, s, delta, 0, delta)
        BY <1>1, <1>2, <1>6, <3>1, <3>2, MovedBoth
      <3>4. m \in Rows /\ m.res = g.res /\ m.commit = g.commit /\ m.order = g.order
        BY <3>3 DEF Bumped
      <3>5. g.res[s].remaining \in Nat
        BY <1>1, <1>2 DEF Rows, ReservationRow
      <3>6. kept = 0
        BY <3>4, <3>5
      <3>7. 0 + delta = delta
        BY <1>6
      <3>8. Booked(g, m, s, kept, delta)
        BY <3>3, <3>6, <3>7 DEF Booked, Bumped
      <3>9. kept + delta <= more /\ more \in Nat
        BY <1>6, <2>2, <3>1, <3>6
      <3> QED
        BY <1>2, <3>4, <3>6, <3>8, <3>9 DEF OnlySource
    <2> QED
      BY <2>1, <2>2
  <1> HIDE DEF m, more
  <1>8. /\ k \in CommitRow /\ k.exists = g.commit[e].exists /\ k.held = newHeld
        /\ k.paid = g.commit[e].paid /\ k.uncovered = g.commit[e].uncovered + more
    <2> DEFINE uncovered == g.commit[e].uncovered + more
    <2>1. uncovered \in Nat
      BY <1>3, <1>7
    <2>2. k = [g.commit[e] EXCEPT !.held = newHeld, !.pending = pending, !.uncovered = uncovered]
      OBVIOUS
    <2> HIDE DEF uncovered, k
    <2>3. /\ k \in CommitRow /\ k.exists = g.commit[e].exists /\ k.held = newHeld
          /\ k.paid = g.commit[e].paid /\ k.uncovered = uncovered
      BY <1>2, <1>4, <2>1, <2>2 DEF CommitRow
    <2> QED
      BY <2>3 DEF uncovered
  <1>9. CommitShape(k)
    <2> HIDE DEF k
    <2> QED
      BY <1>4, <1>8 DEF CommitShape
  <1> HIDE DEF k
  <1>11. h = [m EXCEPT !.commit[e] = k, !.order = order]
    BY <1>5, <1>7 DEF Rows
  <1>12. delta = k.held - g.commit[e].held
    BY <1>8
  <1> HIDE DEF delta, order
  <1>13. order \in Seq(Earnings)
    BY <1>2 DEF order
  <1>14. k.uncovered >= g.commit[e].uncovered /\ k.uncovered - g.commit[e].uncovered = more
    BY <1>3, <1>7, <1>8
  <1>15. BookedFor(g, m, e, k)
    BY <1>7, <1>8, <1>9, <1>12, <1>14 DEF BookedFor, s
  <1>16. Written(m, h, e, k, order)
    BY <1>7, <1>8, <1>11, <1>13, CommitWritten
  <1>17. EarningPosting(g, h, e) /\ (OrderShape(h) => RowShape(h))
    BY <1>13, <1>15, <1>16, EarningWritten
  <1>18. OrderShape(h)
    BY <1>2, <1>8, <1>16, <1>17, OrderKept DEF order, EarningPosting, Written
  <1> QED
    BY <1>17, <1>18

\* markCommitReviewPending moves no money.
LEMMA PendingPosting ==
    ASSUME NEW g, RowShape(g), NEW e \in Earnings, g.commit[e].exists,
           NEW h, h = markCommitReviewPending(g, e)
    PROVE  EarningPosting(g, h, e) /\ RowShape(h) /\ h.res = g.res
           /\ h.commit[e] = [g.commit[e] EXCEPT !.pending = TRUE]
  <1> DEFINE s == SourceOf(e)
             k == [g.commit[e] EXCEPT !.pending = TRUE]
             kept == 0
             spent == 0
             order == g.order
  <1>1. s \in Sources
    BY SourceOfEarning
  <1>2. /\ g \in Rows /\ g.commit[e] \in CommitRow /\ g.order \in Seq(Earnings) /\ OrderShape(g)
        /\ ResShape(g.res[s]) /\ CommitShape(g.commit[e])
    BY <1>1 DEF RowShape, Rows
  <1>3. g.commit[e].held \in Nat /\ g.commit[e].uncovered \in Nat
    BY <1>2 DEF CommitRow
  <1>4. h = [g EXCEPT !.commit[e] = k]
    BY DEF markCommitReviewPending
  <1>5. /\ k \in CommitRow /\ k.exists = g.commit[e].exists /\ k.held = g.commit[e].held
        /\ k.paid = g.commit[e].paid /\ k.uncovered = g.commit[e].uncovered
    BY <1>2 DEF CommitRow
  <1>6. CommitShape(k)
    BY <1>2, <1>5 DEF CommitShape
  <1>7. h = [g EXCEPT !.commit[e] = k, !.order = order]
    BY <1>2, <1>4 DEF Rows
  <1>8. SourcePosting(g, g, s)
    BY <1>1, <1>2, NothingPosted
  <1>9. g.res[s].remaining \in Nat
    BY <1>1, <1>2 DEF Rows, ReservationRow
  <1>10. kept = g.res[s].remaining - g.res[s].remaining /\ spent = k.held - g.commit[e].held
         /\ k.uncovered - g.commit[e].uncovered = 0 /\ k.uncovered >= g.commit[e].uncovered
         /\ kept + spent <= 0
    BY <1>3, <1>5, <1>9
  <1>11. Booked(g, g, s, kept, spent) /\ OnlySource(g, g, s)
    BY <1>8, <1>10 DEF SourcePosting
  <1> HIDE DEF s, k, kept, spent, order
  <1>12. order \in Seq(Earnings)
    BY <1>2 DEF order
  <1>13. BookedFor(g, g, e, k)
    BY <1>2, <1>5, <1>6, <1>10, <1>11 DEF BookedFor, s
  <1>14. Written(g, h, e, k, order)
    BY <1>2, <1>5, <1>7, <1>12, CommitWritten
  <1>15. EarningPosting(g, h, e) /\ (OrderShape(h) => RowShape(h))
    BY <1>12, <1>13, <1>14, EarningWritten
  <1>16. h.res = g.res /\ h.commit[e] = k /\ OrderShape(h)
    BY <1>2, <1>5, <1>14, <1>15, OrderKept DEF order, EarningPosting, Written
  <1> QED
    BY <1>15, <1>16 DEF k

-----------------------------------------------------------------------------
(* Columns of the rows and their totals.                                   *)

Remaining(g) == [s \in Sources |-> g.res[s].remaining]
Short(g) == [s \in Sources |-> g.res[s].short]
HeldFor(g) == [e \in Earnings |-> g.commit[e].held]
PaidOut(g) == [e \in Earnings |-> g.commit[e].paid]
UncoveredOf(g) == [e \in Earnings |-> g.commit[e].uncovered]

SourcesOf(o) == {s \in Sources : OrgOf[s] = o}
EarningsOf(o) == {e \in Earnings : OrgOf[SourceOf(e)] = o}
SourcesIn(c) == {s \in Sources : CampaignOf[s] = c}
EarningsIn(c) == {e \in Earnings : CampaignOf[SourceOf(e)] = c}

\* The total of a column over the members of T.
Tally(F, T, S) == SumFunction([x \in S |-> IF x \in T THEN F[x] ELSE 0])

\* A tally is a sum over all rows, those that do not count being zero.
LEMMA TallySum ==
    \A F, T, S : Tally(F, T, S) = SumFunctionOnSet([x \in S |-> IF x \in T THEN F[x] ELSE 0], S)
  BY DEF Tally, SumFunction

\* A total is an integer, and not negative where the column is not.
LEMMA TallyType ==
    ASSUME NEW S, IsFiniteSet(S), NEW T, NEW F, \A x \in S : F[x] \in Int
    PROVE  Tally(F, T, S) \in Int /\ ((\A x \in S : F[x] \in Nat) => Tally(F, T, S) \in Nat)
  <1> DEFINE row == [x \in S |-> IF x \in T THEN F[x] ELSE 0]
  <1>1. \A x \in S : row[x] \in Int
    OBVIOUS
  <1>2. (\A x \in S : F[x] \in Nat) => \A x \in S : row[x] \in Nat
    OBVIOUS
  <1>3. Tally(F, T, S) = SumFunctionOnSet(row, S)
    BY TallySum
  <1> HIDE DEF row
  <1>4. SumFunctionOnSet(row, S) \in Int
    BY <1>1, SumType
  <1>5. (\A x \in S : row[x] \in Nat) => SumFunctionOnSet(row, S) \in Nat
    BY SumNat
  <1> QED
    BY <1>2, <1>3, <1>4, <1>5

\* One row changed: the total moves by as much where the row is counted.
LEMMA TallyChange ==
    ASSUME NEW S, IsFiniteSet(S), NEW T, NEW F, NEW G, NEW a \in S,
           \A x \in S : F[x] \in Int /\ G[x] \in Int, \A x \in S \ {a} : G[x] = F[x]
    PROVE  Tally(G, T, S) = Tally(F, T, S) + (IF a \in T THEN G[a] - F[a] ELSE 0)
  <1> DEFINE before == [x \in S |-> IF x \in T THEN F[x] ELSE 0]
             after == [x \in S |-> IF x \in T THEN G[x] ELSE 0]
  <1>1. \A x \in S : before[x] \in Int /\ after[x] \in Int
    OBVIOUS
  <1>2. \A x \in S \ {a} : after[x] = before[x]
    OBVIOUS
  <1>3. Tally(F, T, S) = SumFunctionOnSet(before, S) /\ Tally(G, T, S) = SumFunctionOnSet(after, S)
    BY TallySum
  <1>4. after[a] - before[a] = IF a \in T THEN G[a] - F[a] ELSE 0
    OBVIOUS
  <1>5. before[a] \in Int /\ after[a] \in Int
    BY <1>1
  <1> HIDE DEF before, after
  <1>6. SumFunctionOnSet(after, S) = SumFunctionOnSet(before, S) + after[a] - before[a]
    BY <1>1, <1>2, SumChange
  <1>7. SumFunctionOnSet(before, S) \in Int
    BY <1>1, SumType
  <1> QED
    BY <1>3, <1>4, <1>5, <1>6, <1>7

\* The same, for every set of counted rows.
OneRow(F, G, S, a, d) ==
    /\ a \in S /\ \A x \in S : F[x] \in Int /\ G[x] \in Int
    /\ (\A x \in S \ {a} : G[x] = F[x]) /\ G[a] - F[a] = d

\* A tally moves by what the one changed row moves.
LEMMA TallyOneRow ==
    ASSUME NEW F, NEW G, NEW S, NEW a, NEW d, IsFiniteSet(S), OneRow(F, G, S, a, d), NEW T
    PROVE  Tally(G, T, S) = Tally(F, T, S) + (IF a \in T THEN d ELSE 0)
  <1>1. /\ a \in S /\ \A x \in S : F[x] \in Int /\ G[x] \in Int
        /\ (\A x \in S \ {a} : G[x] = F[x]) /\ G[a] - F[a] = d
    BY DEF OneRow
  <1>2. Tally(G, T, S) = Tally(F, T, S) + (IF a \in T THEN G[a] - F[a] ELSE 0)
    BY <1>1, TallyChange
  <1> QED
    BY <1>1, <1>2

\* Columns that add up have totals that do.
LEMMA TallyPlus ==
    ASSUME NEW S, IsFiniteSet(S), NEW T, NEW F, NEW G, NEW H,
           \A x \in S : F[x] \in Int /\ G[x] \in Int /\ H[x] = F[x] + G[x]
    PROVE  Tally(H, T, S) = Tally(F, T, S) + Tally(G, T, S)
  <1> DEFINE a == [x \in S |-> IF x \in T THEN F[x] ELSE 0]
             b == [x \in S |-> IF x \in T THEN G[x] ELSE 0]
             c == [x \in S |-> IF x \in T THEN H[x] ELSE 0]
  <1>1. \A x \in S : a[x] \in Int /\ b[x] \in Int /\ c[x] = a[x] + b[x]
    OBVIOUS
  <1>2. Tally(F, T, S) = SumFunctionOnSet(a, S) /\ Tally(G, T, S) = SumFunctionOnSet(b, S)
        /\ Tally(H, T, S) = SumFunctionOnSet(c, S)
    BY TallySum
  <1> HIDE DEF a, b, c
  <1>3. SumFunctionOnSet(c, S) = SumFunctionOnSet(a, S) + SumFunctionOnSet(b, S)
    BY <1>1, SumPlus
  <1> QED
    BY <1>2, <1>3

\* A sum over the counted rows alone, the others being zero, is the total.
LEMMA TallyPart ==
    ASSUME NEW S, IsFiniteSet(S), NEW T, NEW F, \A x \in S : F[x] \in Int,
           NEW P \in SUBSET S, NEW G, DOMAIN G = P, \A x \in P : x \in T /\ G[x] = F[x],
           \A x \in S \ P : x \in T => F[x] = 0
    PROVE  SumFunction(G) = Tally(F, T, S)
  <1> DEFINE row == [x \in S |-> IF x \in T THEN F[x] ELSE 0]
  <1>1. \A x \in S : row[x] \in Int
    OBVIOUS
  <1>2. \A x \in S \ P : row[x] = 0
    OBVIOUS
  <1>3. \A x \in P : row[x] = G[x]
    OBVIOUS
  <1>4. Tally(F, T, S) = SumFunctionOnSet(row, S)
    BY TallySum
  <1> HIDE DEF row
  <1>5. IsFiniteSet(P) /\ IsFiniteSet(S \ P)
    BY FS_Subset
  <1>6. SumFunctionOnSet(row, S) = SumFunctionOnSet(row, P) + SumFunctionOnSet(row, S \ P)
    BY <1>1, SumSplit
  <1>7. SumFunctionOnSet(row, S \ P) = 0
    BY <1>2, <1>5, SumZero
  <1>8. SumFunctionOnSet(row, P) = SumFunctionOnSet(G, P)
    BY <1>3, <1>5, SumSame
  <1>9. SumFunctionOnSet(row, P) \in Int
    BY <1>1, <1>5, SumType
  <1>10. SumFunction(G) = SumFunctionOnSet(G, P)
    BY DEF SumFunction
  <1> QED
    BY <1>4, <1>6, <1>7, <1>8, <1>9, <1>10

\* The sources and the earnings are finitely many.
LEMMA RowsFinite == IsFiniteSet(Sources) /\ IsFiniteSet(Earnings)
  BY FundingConstants, FS_Union DEF Sources, Earnings

\* The columns hold numbers.
LEMMA ColumnTypes ==
    ASSUME NEW g \in Rows
    PROVE  /\ \A s \in Sources : Remaining(g)[s] \in Nat /\ Short(g)[s] \in Nat
           /\ \A e \in Earnings : HeldFor(g)[e] \in Nat /\ PaidOut(g)[e] \in Nat /\ UncoveredOf(g)[e] \in Nat
  BY DEF Rows, ReservationRow, CommitRow, Remaining, Short, HeldFor, PaidOut, UncoveredOf

\* So do their totals.
LEMMA TotalTypes ==
    ASSUME NEW g \in Rows, NEW T
    PROVE  /\ Tally(Remaining(g), T, Sources) \in Nat /\ Tally(Short(g), T, Sources) \in Nat
           /\ Tally(HeldFor(g), T, Earnings) \in Nat /\ Tally(PaidOut(g), T, Earnings) \in Nat
           /\ Tally(UncoveredOf(g), T, Earnings) \in Nat
  <1>1. \A n \in Nat : n \in Int
    OBVIOUS
  <1>2. Tally(Remaining(g), T, Sources) \in Nat
    BY <1>1, ColumnTypes, RowsFinite, TallyType
  <1>3. Tally(Short(g), T, Sources) \in Nat
    BY <1>1, ColumnTypes, RowsFinite, TallyType
  <1>4. Tally(HeldFor(g), T, Earnings) \in Nat
    BY <1>1, ColumnTypes, RowsFinite, TallyType
  <1>5. Tally(PaidOut(g), T, Earnings) \in Nat
    BY <1>1, ColumnTypes, RowsFinite, TallyType
  <1>6. Tally(UncoveredOf(g), T, Earnings) \in Nat
    BY <1>1, ColumnTypes, RowsFinite, TallyType
  <1> QED
    BY <1>2, <1>3, <1>4, <1>5, <1>6

-----------------------------------------------------------------------------
(* What the counters say of the rows.                                      *)

AccountsAgree(g) ==
    \A o \in Orgs : g.account[o].held = Tally(Remaining(g), SourcesOf(o), Sources)
                                        + Tally(HeldFor(g), EarningsOf(o), Earnings)
                                        - Tally(PaidOut(g), EarningsOf(o), Earnings)

CampaignsAgree(g) ==
    \A c \in Campaigns : /\ g.campaign[c].held = Tally(Remaining(g), SourcesIn(c), Sources)
                         /\ g.campaign[c].spent = Tally(HeldFor(g), EarningsIn(c), Earnings)

\* What an organization's rows report beyond its capacity.
Reported(g, o) ==
    Tally(UncoveredOf(g), EarningsOf(o), Earnings)
    + (IF Enforced THEN 0 ELSE Tally(Short(g), SourcesOf(o), Sources))

\* Nothing is held beyond cash but what is reported and what was withdrawn.
Within(g, withdrawn) ==
    \A o \in Orgs : g.account[o].held - g.account[o].confirmed <= Reported(g, o) + withdrawn[o]

Sound(g, withdrawn) == RowShape(g) /\ AccountsAgree(g) /\ CampaignsAgree(g) /\ Within(g, withdrawn)

\* What the service functions leave alone: other sources, other earnings, what
\* was paid, and confirmed cash.
Serves(g, h, s, e) ==
    /\ OnlySource(g, h, s) /\ OnlyEarning(g, h, e)
    /\ \A x \in Earnings : h.commit[x].paid = g.commit[x].paid
    /\ \A o \in Orgs : h.account[o].confirmed = g.account[o].confirmed

\* Two calls for one earning compose.
LEMMA ServesBoth ==
    ASSUME NEW g, NEW m, NEW h, NEW s, NEW e, Serves(g, m, s, e), Serves(m, h, s, e)
    PROVE  Serves(g, h, s, e)
  BY DEF Serves, OnlySource, OnlyEarning

\* A posting of a source keeps the counters sound.
LEMMA SourceSound ==
    ASSUME NEW g, NEW withdrawn \in [Orgs -> Nat], Sound(g, withdrawn), NEW s \in Sources,
           NEW h, SourcePosting(g, h, s), RowShape(h)
    PROVE  Sound(h, withdrawn) /\ \A e : Serves(g, h, s, e)
  <1> DEFINE kept == h.res[s].remaining - g.res[s].remaining
             short == h.res[s].short - g.res[s].short
  <1>1. g \in Rows /\ h \in Rows
    BY DEF Sound, RowShape, SourcePosting
  <1>2. /\ OnlySource(g, h, s) /\ h.commit = g.commit
        /\ Booked(g, h, s, kept, 0)
        /\ h.res[s].short >= g.res[s].short
        /\ Carried(g, s, kept, Beyond(g, h, s))
    BY DEF SourcePosting
  <1>3. /\ g.res[s].remaining \in Nat /\ h.res[s].remaining \in Nat
        /\ g.res[s].short \in Nat /\ h.res[s].short \in Nat
    BY <1>1 DEF Rows, ReservationRow
  <1>4. kept \in Int /\ short \in Nat
    BY <1>2, <1>3
  <1>5. HeldFor(h) = HeldFor(g) /\ PaidOut(h) = PaidOut(g) /\ UncoveredOf(h) = UncoveredOf(g)
    BY <1>2 DEF HeldFor, PaidOut, UncoveredOf
  <1>6. /\ \A x \in Sources \ {s} : Remaining(h)[x] = Remaining(g)[x] /\ Short(h)[x] = Short(g)[x]
        /\ Remaining(h)[s] - Remaining(g)[s] = kept /\ Short(h)[s] - Short(g)[s] = short
    BY <1>2 DEF OnlySource, Remaining, Short
  <1> HIDE DEF kept, short
  <1>7. \A T : Tally(Remaining(h), T, Sources) = Tally(Remaining(g), T, Sources) + (IF s \in T THEN kept ELSE 0)
    <2>1. \A x \in Sources : Remaining(g)[x] \in Int /\ Remaining(h)[x] \in Int
      BY <1>1, ColumnTypes
    <2>2. OneRow(Remaining(g), Remaining(h), Sources, s, kept)
      BY <1>1, <1>6, <2>1 DEF OneRow
    <2> QED
      BY <2>2, RowsFinite, TallyOneRow
  <1>8. \A T : Tally(Short(h), T, Sources) = Tally(Short(g), T, Sources) + (IF s \in T THEN short ELSE 0)
    <2>1. \A x \in Sources : Short(g)[x] \in Int /\ Short(h)[x] \in Int
      BY <1>1, ColumnTypes
    <2>2. OneRow(Short(g), Short(h), Sources, s, short)
      BY <1>1, <1>6, <2>1 DEF OneRow
    <2> QED
      BY <2>2, RowsFinite, TallyOneRow
  <1>9. kept + 0 = kept
    BY <1>4
  <1>10. Moved(g, h, s, kept, kept, 0)
    BY <1>2, <1>9 DEF Booked
  <1>11. AccountsAgree(h)
    <2> SUFFICES ASSUME NEW o \in Orgs
                 PROVE  h.account[o].held = Tally(Remaining(h), SourcesOf(o), Sources)
                                            + Tally(HeldFor(h), EarningsOf(o), Earnings)
                                            - Tally(PaidOut(h), EarningsOf(o), Earnings)
      BY DEF AccountsAgree
    <2>1. h.account[o].held = g.account[o].held + (IF OrgOf[s] = o THEN kept ELSE 0)
      BY <1>10 DEF Moved
    <2>2. g.account[o].held = Tally(Remaining(g), SourcesOf(o), Sources)
                              + Tally(HeldFor(g), EarningsOf(o), Earnings)
                              - Tally(PaidOut(g), EarningsOf(o), Earnings)
      BY DEF Sound, AccountsAgree
    <2>3. s \in SourcesOf(o) <=> OrgOf[s] = o
      BY DEF SourcesOf
    <2>4. Tally(Remaining(h), SourcesOf(o), Sources)
            = Tally(Remaining(g), SourcesOf(o), Sources) + (IF OrgOf[s] = o THEN kept ELSE 0)
      BY <1>7, <2>3
    <2>5. /\ Tally(Remaining(g), SourcesOf(o), Sources) \in Nat
          /\ Tally(HeldFor(g), EarningsOf(o), Earnings) \in Nat
          /\ Tally(PaidOut(g), EarningsOf(o), Earnings) \in Nat
      BY <1>1, TotalTypes
    <2> QED
      BY <1>4, <1>5, <2>1, <2>2, <2>4, <2>5
  <1>12. CampaignsAgree(h)
    <2> SUFFICES ASSUME NEW c \in Campaigns
                 PROVE  /\ h.campaign[c].held = Tally(Remaining(h), SourcesIn(c), Sources)
                        /\ h.campaign[c].spent = Tally(HeldFor(h), EarningsIn(c), Earnings)
      BY DEF CampaignsAgree
    <2>1. /\ h.campaign[c].held = g.campaign[c].held + (IF CampaignOf[s] = c THEN kept ELSE 0)
          /\ h.campaign[c].spent = g.campaign[c].spent + (IF CampaignOf[s] = c THEN 0 ELSE 0)
      BY <1>10 DEF Moved
    <2>2. /\ g.campaign[c].held = Tally(Remaining(g), SourcesIn(c), Sources)
          /\ g.campaign[c].spent = Tally(HeldFor(g), EarningsIn(c), Earnings)
      BY DEF Sound, CampaignsAgree
    <2>3. s \in SourcesIn(c) <=> CampaignOf[s] = c
      BY DEF SourcesIn
    <2>4. Tally(Remaining(h), SourcesIn(c), Sources)
            = Tally(Remaining(g), SourcesIn(c), Sources) + (IF CampaignOf[s] = c THEN kept ELSE 0)
      BY <1>7, <2>3
    <2>5. Tally(HeldFor(g), EarningsIn(c), Earnings) \in Nat
      BY <1>1, TotalTypes
    <2> QED
      BY <1>5, <2>1, <2>2, <2>4, <2>5
  <1>13. Within(h, withdrawn)
    <2> SUFFICES ASSUME NEW o \in Orgs
                 PROVE  h.account[o].held - h.account[o].confirmed <= Reported(h, o) + withdrawn[o]
      BY DEF Within
    <2> DEFINE U == Tally(UncoveredOf(g), EarningsOf(o), Earnings)
               S == Tally(Short(g), SourcesOf(o), Sources)
    <2>1. U \in Nat /\ S \in Nat /\ withdrawn[o] \in Nat
      BY <1>1, TotalTypes
    <2>2. s \in SourcesOf(o) <=> OrgOf[s] = o
      BY DEF SourcesOf
    <2>3. Tally(Short(h), SourcesOf(o), Sources) = S + (IF OrgOf[s] = o THEN short ELSE 0)
      BY <1>8, <2>2
    <2>4. /\ Reported(g, o) = U + (IF Enforced THEN 0 ELSE S)
          /\ Reported(h, o) = U + (IF Enforced THEN 0 ELSE S + (IF OrgOf[s] = o THEN short ELSE 0))
      BY <1>5, <2>3 DEF Reported
    <2>5. Beyond(g, h, s) = IF Enforced THEN 0 ELSE short
      BY DEF Beyond, short
    <2>6. /\ h.account[o].held = g.account[o].held + (IF OrgOf[s] = o THEN kept ELSE 0)
          /\ h.account[o].confirmed = g.account[o].confirmed
      BY <1>10 DEF Moved
    <2>7. g.account[o].held \in Int /\ g.account[o].confirmed \in Int
      BY <1>1 DEF Rows, AccountRow
    <2>8. g.account[o].held - g.account[o].confirmed <= Reported(g, o) + withdrawn[o]
      BY DEF Sound, Within
    <2> HIDE DEF U, S
    <2>9. CASE OrgOf[s] # o
      BY <2>1, <2>4, <2>6, <2>7, <2>8, <2>9
    <2>10. CASE OrgOf[s] = o
      <3>1. h.account[o].held = g.account[o].held + kept
        BY <2>6, <2>10
      <3>2. Reported(h, o) = Reported(g, o) + Beyond(g, h, s) /\ Reported(g, o) \in Nat /\ Beyond(g, h, s) \in Nat
        BY <1>4, <2>1, <2>4, <2>5, <2>10
      <3>3. \/ kept <= Beyond(g, h, s)
            \/ g.account[o].held + kept - g.account[o].confirmed <= Beyond(g, h, s)
        BY <1>2, <2>10 DEF Carried
      <3> QED
        BY <1>4, <2>1, <2>6, <2>7, <2>8, <3>1, <3>2, <3>3
    <2> QED
      BY <2>9, <2>10
  <1>14. \A e : Serves(g, h, s, e)
    <2>1. \A o \in Orgs : h.account[o].confirmed = g.account[o].confirmed
      BY <1>10 DEF Moved
    <2> QED
      BY <1>2, <2>1 DEF Serves, OnlyEarning
  <1> QED
    BY <1>11, <1>12, <1>13, <1>14 DEF Sound

\* A posting of an earning does.
LEMMA EarningSound ==
    ASSUME NEW g, NEW withdrawn \in [Orgs -> Nat], Sound(g, withdrawn), NEW e \in Earnings,
           NEW h, EarningPosting(g, h, e), RowShape(h)
    PROVE  Sound(h, withdrawn) /\ Serves(g, h, SourceOf(e), e)
  <1> DEFINE s == SourceOf(e)
             kept == h.res[s].remaining - g.res[s].remaining
             spent == h.commit[e].held - g.commit[e].held
             more == h.commit[e].uncovered - g.commit[e].uncovered
  <1>1. g \in Rows /\ h \in Rows /\ s \in Sources
    BY SourceOfEarning DEF Sound, RowShape
  <1>2. /\ OnlySource(g, h, s) /\ OnlyEarning(g, h, e)
        /\ Booked(g, h, s, kept, spent)
        /\ h.commit[e].paid = g.commit[e].paid
        /\ h.commit[e].uncovered >= g.commit[e].uncovered
        /\ h.res[s].short = g.res[s].short
        /\ kept + spent <= more
    BY DEF EarningPosting
  <1>3. /\ g.res[s].remaining \in Nat /\ h.res[s].remaining \in Nat
        /\ g.commit[e].held \in Nat /\ h.commit[e].held \in Nat
        /\ g.commit[e].uncovered \in Nat /\ h.commit[e].uncovered \in Nat
    BY <1>1 DEF Rows, ReservationRow, CommitRow
  <1>4. kept \in Int /\ spent \in Int /\ more \in Nat
    BY <1>2, <1>3
  <1>5. \A x \in Sources : h.res[x].short = g.res[x].short
    BY <1>2 DEF OnlySource
  <1>6. \A x \in Earnings : h.commit[x].paid = g.commit[x].paid
    BY <1>2 DEF OnlyEarning
  <1>7. Short(h) = Short(g) /\ PaidOut(h) = PaidOut(g)
    BY <1>5, <1>6 DEF Short, PaidOut
  <1>8. /\ \A x \in Sources \ {s} : Remaining(h)[x] = Remaining(g)[x]
        /\ Remaining(h)[s] - Remaining(g)[s] = kept
    BY <1>1, <1>2 DEF OnlySource, Remaining
  <1>9. /\ \A x \in Earnings \ {e} : HeldFor(h)[x] = HeldFor(g)[x] /\ UncoveredOf(h)[x] = UncoveredOf(g)[x]
        /\ HeldFor(h)[e] - HeldFor(g)[e] = spent /\ UncoveredOf(h)[e] - UncoveredOf(g)[e] = more
    BY <1>2 DEF OnlyEarning, HeldFor, UncoveredOf
  <1> HIDE DEF s, kept, spent, more
  <1>10. \A T : Tally(Remaining(h), T, Sources) = Tally(Remaining(g), T, Sources) + (IF s \in T THEN kept ELSE 0)
    <2>1. \A x \in Sources : Remaining(g)[x] \in Int /\ Remaining(h)[x] \in Int
      BY <1>1, ColumnTypes
    <2>2. OneRow(Remaining(g), Remaining(h), Sources, s, kept)
      BY <1>1, <1>8, <2>1 DEF OneRow
    <2> QED
      BY <2>2, RowsFinite, TallyOneRow
  <1>11. \A T : Tally(HeldFor(h), T, Earnings) = Tally(HeldFor(g), T, Earnings) + (IF e \in T THEN spent ELSE 0)
    <2>1. \A x \in Earnings : HeldFor(g)[x] \in Int /\ HeldFor(h)[x] \in Int
      BY <1>1, ColumnTypes
    <2>2. OneRow(HeldFor(g), HeldFor(h), Earnings, e, spent)
      BY <1>1, <1>9, <2>1 DEF OneRow
    <2> QED
      BY <2>2, RowsFinite, TallyOneRow
  <1>12. \A T : Tally(UncoveredOf(h), T, Earnings) = Tally(UncoveredOf(g), T, Earnings) + (IF e \in T THEN more ELSE 0)
    <2>1. \A x \in Earnings : UncoveredOf(g)[x] \in Int /\ UncoveredOf(h)[x] \in Int
      BY <1>1, ColumnTypes
    <2>2. OneRow(UncoveredOf(g), UncoveredOf(h), Earnings, e, more)
      BY <1>1, <1>9, <2>1 DEF OneRow
    <2> QED
      BY <2>2, RowsFinite, TallyOneRow
  <1>13. Moved(g, h, s, kept + spent, kept, spent)
    BY <1>2 DEF Booked
  <1>14. /\ \A o : (s \in SourcesOf(o) <=> OrgOf[s] = o) /\ (e \in EarningsOf(o) <=> OrgOf[s] = o)
         /\ \A c : (s \in SourcesIn(c) <=> CampaignOf[s] = c) /\ (e \in EarningsIn(c) <=> CampaignOf[s] = c)
    BY <1>1 DEF SourcesOf, EarningsOf, SourcesIn, EarningsIn, s
  <1>15. AccountsAgree(h)
    <2> SUFFICES ASSUME NEW o \in Orgs
                 PROVE  h.account[o].held = Tally(Remaining(h), SourcesOf(o), Sources)
                                            + Tally(HeldFor(h), EarningsOf(o), Earnings)
                                            - Tally(PaidOut(h), EarningsOf(o), Earnings)
      BY DEF AccountsAgree
    <2>1. h.account[o].held = g.account[o].held + (IF OrgOf[s] = o THEN kept + spent ELSE 0)
      BY <1>13 DEF Moved
    <2>2. g.account[o].held = Tally(Remaining(g), SourcesOf(o), Sources)
                              + Tally(HeldFor(g), EarningsOf(o), Earnings)
                              - Tally(PaidOut(g), EarningsOf(o), Earnings)
      BY DEF Sound, AccountsAgree
    <2>3. /\ Tally(Remaining(h), SourcesOf(o), Sources)
               = Tally(Remaining(g), SourcesOf(o), Sources) + (IF OrgOf[s] = o THEN kept ELSE 0)
          /\ Tally(HeldFor(h), EarningsOf(o), Earnings)
               = Tally(HeldFor(g), EarningsOf(o), Earnings) + (IF OrgOf[s] = o THEN spent ELSE 0)
      BY <1>10, <1>11, <1>14
    <2>4. /\ Tally(Remaining(g), SourcesOf(o), Sources) \in Nat
          /\ Tally(HeldFor(g), EarningsOf(o), Earnings) \in Nat
          /\ Tally(PaidOut(g), EarningsOf(o), Earnings) \in Nat
      BY <1>1, TotalTypes
    <2> QED
      BY <1>4, <1>7, <2>1, <2>2, <2>3, <2>4
  <1>16. CampaignsAgree(h)
    <2> SUFFICES ASSUME NEW c \in Campaigns
                 PROVE  /\ h.campaign[c].held = Tally(Remaining(h), SourcesIn(c), Sources)
                        /\ h.campaign[c].spent = Tally(HeldFor(h), EarningsIn(c), Earnings)
      BY DEF CampaignsAgree
    <2>1. /\ h.campaign[c].held = g.campaign[c].held + (IF CampaignOf[s] = c THEN kept ELSE 0)
          /\ h.campaign[c].spent = g.campaign[c].spent + (IF CampaignOf[s] = c THEN spent ELSE 0)
      BY <1>13 DEF Moved
    <2>2. /\ g.campaign[c].held = Tally(Remaining(g), SourcesIn(c), Sources)
          /\ g.campaign[c].spent = Tally(HeldFor(g), EarningsIn(c), Earnings)
      BY DEF Sound, CampaignsAgree
    <2>3. /\ Tally(Remaining(h), SourcesIn(c), Sources)
               = Tally(Remaining(g), SourcesIn(c), Sources) + (IF CampaignOf[s] = c THEN kept ELSE 0)
          /\ Tally(HeldFor(h), EarningsIn(c), Earnings)
               = Tally(HeldFor(g), EarningsIn(c), Earnings) + (IF CampaignOf[s] = c THEN spent ELSE 0)
      BY <1>10, <1>11, <1>14
    <2> QED
      BY <2>1, <2>2, <2>3
  <1>17. Within(h, withdrawn)
    <2> SUFFICES ASSUME NEW o \in Orgs
                 PROVE  h.account[o].held - h.account[o].confirmed <= Reported(h, o) + withdrawn[o]
      BY DEF Within
    <2> DEFINE U == Tally(UncoveredOf(g), EarningsOf(o), Earnings)
               S == Tally(Short(g), SourcesOf(o), Sources)
    <2>1. U \in Nat /\ S \in Nat /\ withdrawn[o] \in Nat
      BY <1>1, TotalTypes
    <2>2. Tally(UncoveredOf(h), EarningsOf(o), Earnings) = U + (IF OrgOf[s] = o THEN more ELSE 0)
      BY <1>12, <1>14
    <2>3. /\ Reported(g, o) = U + (IF Enforced THEN 0 ELSE S)
          /\ Reported(h, o) = U + (IF OrgOf[s] = o THEN more ELSE 0) + (IF Enforced THEN 0 ELSE S)
      BY <1>7, <2>2 DEF Reported
    <2>4. /\ h.account[o].held = g.account[o].held + (IF OrgOf[s] = o THEN kept + spent ELSE 0)
          /\ h.account[o].confirmed = g.account[o].confirmed
      BY <1>13 DEF Moved
    <2>5. g.account[o].held \in Int /\ g.account[o].confirmed \in Int
      BY <1>1 DEF Rows, AccountRow
    <2>6. g.account[o].held - g.account[o].confirmed <= Reported(g, o) + withdrawn[o]
      BY DEF Sound, Within
    <2> HIDE DEF U, S
    <2> QED
      BY <1>2, <1>4, <2>1, <2>3, <2>4, <2>5, <2>6
  <1>18. Serves(g, h, s, e)
    BY <1>2, <1>6, <1>13 DEF Serves, Moved
  <1> QED
    BY <1>15, <1>16, <1>17, <1>18 DEF Sound, s

\* checkRewardFunding commits a positive ceiling once, and nothing otherwise.
LEMMA CheckedSound ==
    ASSUME NEW g, NEW withdrawn \in [Orgs -> Nat], Sound(g, withdrawn), NEW e \in Earnings,
           NEW ceiling \in Nat, NEW pending \in BOOLEAN,
           NEW h, h = checkRewardFunding(g, e, ceiling, pending)
    PROVE  Sound(h, withdrawn) /\ Serves(g, h, SourceOf(e), e)
  <1> DEFINE s == SourceOf(e)
             m == resolveSourceReservation(g, s)
  <1>1. s \in Sources /\ RowShape(g) /\ g \in Rows
    BY SourceOfEarning DEF Sound, RowShape
  <1>2. Serves(g, g, s, e)
    BY DEF Serves, OnlySource, OnlyEarning
  <1>3. CASE ceiling <= 0
    <2>1. h = g
      BY <1>3 DEF checkRewardFunding
    <2> QED
      BY <1>2, <2>1
  <1>4. CASE ~(ceiling <= 0)
    <2>1. h = commitRewardAgainstBudget(m, e, ceiling, pending)
      BY <1>4 DEF checkRewardFunding
    <2>2. SourcePosting(g, m, s) /\ RowShape(m) /\ m.commit = g.commit
      <3> HIDE DEF s
      <3> QED
        BY <1>1, ResolvePosting
    <2> HIDE DEF m
    <2>3. Sound(m, withdrawn) /\ Serves(g, m, s, e)
      BY <1>1, <2>2, SourceSound
    <2>4. CASE m.commit[e].exists
      <3>1. h = m
        BY <2>1, <2>4 DEF commitRewardAgainstBudget
      <3> QED
        BY <2>3, <3>1
    <2>5. CASE ~m.commit[e].exists
      <3>1. EarningPosting(m, h, e) /\ RowShape(h)
        BY <2>1, <2>2, <2>5, CommitPosting
      <3>2. Sound(h, withdrawn) /\ Serves(m, h, s, e)
        BY <2>3, <3>1, EarningSound
      <3> QED
        BY <2>3, <3>2, ServesBoth
    <2> QED
      BY <2>4, <2>5
  <1> QED
    BY <1>3, <1>4

\* settleOrCommitReward applies a decision.
LEMMA DecidedSound ==
    ASSUME NEW g, NEW withdrawn \in [Orgs -> Nat], Sound(g, withdrawn), NEW e \in Earnings,
           NEW target \in Nat, NEW keep \in BOOLEAN,
           NEW h, h = settleOrCommitReward(g, e, target, keep)
    PROVE  Sound(h, withdrawn) /\ Serves(g, h, SourceOf(e), e)
  <1>1. RowShape(g) /\ g \in Rows
    BY DEF Sound, RowShape
  <1>2. Serves(g, g, SourceOf(e), e)
    BY DEF Serves, OnlySource, OnlyEarning
  <1>3. CASE g.commit[e].exists
    <2> DEFINE goal == IF keep THEN g.commit[e].held ELSE target
    <2>1. goal \in Nat
      BY <1>1 DEF Rows, CommitRow
    <2>2. h = settleCommittedReward(g, e, goal, FALSE)
      BY <1>3 DEF settleOrCommitReward
    <2> HIDE DEF goal
    <2>3. EarningPosting(g, h, e) /\ RowShape(h)
      BY <1>1, <1>3, <2>1, <2>2, SettlePosting
    <2> QED
      BY <2>3, EarningSound
  <1>4. CASE ~g.commit[e].exists /\ keep
    <2>1. h = g
      BY <1>4 DEF settleOrCommitReward
    <2> QED
      BY <1>2, <2>1
  <1>5. CASE ~g.commit[e].exists /\ ~keep
    <2>1. h = checkRewardFunding(g, e, target, FALSE)
      BY <1>5 DEF settleOrCommitReward
    <2> QED
      BY <2>1, CheckedSound
  <1> QED
    BY <1>3, <1>4, <1>5

\* A live reservation gives back a part of its hold, all of it when it closes.
Releases(g, h, withdrawn, s, close) ==
    /\ Sound(h, withdrawn) /\ h.commit = g.commit /\ \A e : Serves(g, h, s, e)
    /\ h.res[s].status = IF close THEN "RELEASED" ELSE "ACTIVE"
    /\ h.res[s].late = g.res[s].late

\* Releasing what is left of a reservation, or closing it, keeps the books sound.
LEMMA ClosedSound ==
    ASSUME NEW g, NEW withdrawn \in [Orgs -> Nat], Sound(g, withdrawn), NEW s \in Sources,
           g.res[s].status = "ACTIVE", NEW amount \in Nat, NEW close \in BOOLEAN,
           close => amount = g.res[s].remaining,
           NEW h, h = releaseUnusedRewardBudget(g, s, amount, close)
    PROVE  Releases(g, h, withdrawn, s, close)
  <1>1. RowShape(g)
    BY DEF Sound
  <1>2. /\ SourcePosting(g, h, s) /\ RowShape(h)
        /\ h.res[s].status = IF close THEN "RELEASED" ELSE "ACTIVE"
        /\ h.res[s].late = g.res[s].late
    BY <1>1, ReleasePosting
  <1>3. h.commit = g.commit
    BY <1>2 DEF SourcePosting
  <1>4. Sound(h, withdrawn) /\ \A e : Serves(g, h, s, e)
    BY <1>2, SourceSound
  <1> QED
    BY <1>2, <1>3, <1>4 DEF Releases

\* closeReservation leaves no reservation live.
LEMMA CloseSound ==
    ASSUME NEW g, NEW withdrawn \in [Orgs -> Nat], Sound(g, withdrawn), NEW s \in Sources,
           NEW h, h = closeReservation(g, s)
    PROVE  /\ Sound(h, withdrawn) /\ h.commit = g.commit /\ \A e : Serves(g, h, s, e)
           /\ h.res[s].status # "ACTIVE" /\ h.res[s].late = g.res[s].late
  <1>1. CASE g.res[s].status = "ACTIVE"
    <2>1. h = releaseUnusedRewardBudget(g, s, g.res[s].remaining, TRUE)
      BY <1>1 DEF closeReservation
    <2>2. g.res[s].remaining \in Nat
      BY DEF Sound, RowShape, Rows, ReservationRow
    <2> DEFINE amount == g.res[s].remaining
               close == TRUE
    <2>3. h = releaseUnusedRewardBudget(g, s, amount, close) /\ amount \in Nat /\ close \in BOOLEAN
      BY <2>1, <2>2
    <2>4. close /\ (close => amount = g.res[s].remaining)
      OBVIOUS
    <2> HIDE DEF amount, close
    <2>5. Releases(g, h, withdrawn, s, close)
      BY <1>1, <2>3, <2>4, ClosedSound
    <2> QED
      BY <2>4, <2>5 DEF Releases
  <1>2. CASE g.res[s].status # "ACTIVE"
    <2>1. h = g
      BY <1>2 DEF closeReservation
    <2> QED
      BY <1>2, <2>1 DEF Serves, OnlySource, OnlyEarning
  <1> QED
    BY <1>1, <1>2

-----------------------------------------------------------------------------
(* Payouts.                                                                *)

\* A payout draws from an obligation at most what is due, and nothing from one
\* under review.
LEMMA TakesBounds ==
    ASSUME NEW g, RowShape(g), NEW u, NEW gross \in Int, NEW takes, takes = Takes(g, u, gross)
    PROVE  /\ takes \in [Earnings -> Nat]
           /\ \A e \in Earnings : takes[e] <= Due(g, e) /\ (g.commit[e].pending => takes[e] = 0)
  <1> DEFINE due == [n \in DOMAIN g.order |-> IF Drawable(g, u, g.order[n]) THEN Due(g, g.order[n]) ELSE 0]
             before(n) == SumFunctionOnSet(due, 1..(n - 1))
             give == [n \in DOMAIN g.order |-> Least(due[n], Most(0, gross - before(n)))]
             row(e) == [n \in DOMAIN g.order |-> IF g.order[n] = e THEN Least(due[n], Most(0, gross - before(n))) ELSE 0]
  <1>1. g \in Rows /\ g.order \in Seq(Earnings) /\ OrderShape(g)
    BY DEF RowShape, Rows
  <1>2. \A e \in Earnings : /\ g.commit[e].held \in Nat /\ g.commit[e].paid \in Nat
                            /\ g.commit[e].paid <= g.commit[e].held
    BY <1>1 DEF RowShape, CommitShape, Rows, CommitRow
  <1>3. \A e \in Earnings : Due(g, e) \in Nat
    BY <1>2 DEF Due
  <1>4. DOMAIN g.order = 1..Len(g.order) /\ Len(g.order) \in Nat /\ \A n \in DOMAIN g.order : g.order[n] \in Earnings
    BY <1>1
  <1>5. \A n \in DOMAIN g.order : due[n] \in Nat /\ (due[n] # 0 => Drawable(g, u, g.order[n]) /\ due[n] = Due(g, g.order[n]))
    BY <1>3, <1>4
  <1>6. takes = [e \in Earnings |-> SumFunction(row(e))]
    BY DEF Takes
  <1>7. \A e : DOMAIN row(e) = DOMAIN g.order /\ \A n \in DOMAIN g.order : row(e)[n] = IF g.order[n] = e THEN give[n] ELSE 0
    OBVIOUS
  <1>8. \A n \in DOMAIN g.order : give[n] = Least(due[n], Most(0, gross - before(n)))
    OBVIOUS
  <1>9. \A n \in DOMAIN g.order : before(n) \in Int
    <2> SUFFICES ASSUME NEW n \in DOMAIN g.order
                 PROVE  SumFunctionOnSet(due, 1..(n - 1)) \in Int
      OBVIOUS
    <2>1. n \in Nat /\ n >= 1 /\ n <= Len(g.order)
      BY <1>4
    <2>2. n - 1 \in Int /\ 1 \in Int
      BY <2>1
    <2>3. IsFiniteSet(1..(n - 1))
      BY <2>2, FS_Interval
    <2>4. \A x \in 1..(n - 1) : x \in DOMAIN g.order
      BY <1>4, <2>1
    <2> HIDE DEF due
    <2>5. \A x \in 1..(n - 1) : due[x] \in Int
      BY <1>5, <2>4
    <2> QED
      BY <2>3, <2>5, SumType
  <1> HIDE DEF due, before, give, row
  <1>10. \A n \in DOMAIN g.order : give[n] \in Nat /\ give[n] <= due[n]
    BY <1>5, <1>8, <1>9 DEF Least, Most
  <1>11. IsFiniteSet(DOMAIN g.order)
    BY <1>4, FS_Interval
  <1>12. ASSUME NEW e \in Earnings
         PROVE  takes[e] \in Nat /\ takes[e] <= Due(g, e) /\ (g.commit[e].pending => takes[e] = 0)
    <2>1. takes[e] = SumFunctionOnSet(row(e), DOMAIN g.order)
      BY <1>6, <1>7 DEF SumFunction
    <2>2. CASE \A n \in DOMAIN g.order : g.order[n] # e
      <3>1. \A n \in DOMAIN g.order : row(e)[n] = 0
        BY <1>7, <2>2
      <3>2. takes[e] = 0
        BY <1>11, <2>1, <3>1, SumZero
      <3> QED
        BY <1>3, <3>2
    <2>3. CASE \E n \in DOMAIN g.order : g.order[n] = e
      <3> PICK n \in DOMAIN g.order : g.order[n] = e
        BY <2>3
      <3> DEFINE zero == [m \in DOMAIN g.order |-> 0]
      <3>1. \A m \in DOMAIN g.order : m # n => g.order[m] # e
        BY <1>1 DEF OrderShape
      <3>2. \A m \in DOMAIN g.order : row(e)[m] \in Int /\ zero[m] \in Int
        BY <1>7, <1>10
      <3>3. (\A m \in DOMAIN g.order \ {n} : row(e)[m] = zero[m]) /\ zero[n] = 0 /\ row(e)[n] = give[n]
        BY <1>7, <3>1
      <3>4. \A m \in DOMAIN g.order : zero[m] = 0
        OBVIOUS
      <3> HIDE DEF zero
      <3>5. SumFunctionOnSet(row(e), DOMAIN g.order) = SumFunctionOnSet(zero, DOMAIN g.order) + row(e)[n] - zero[n]
        BY <1>11, <3>2, <3>3, SumChange
      <3>6. SumFunctionOnSet(zero, DOMAIN g.order) = 0
        BY <1>11, <3>4, SumZero
      <3>7. give[n] \in Nat /\ give[n] <= due[n] /\ due[n] \in Nat
        BY <1>5, <1>10
      <3>8. takes[e] = give[n]
        BY <2>1, <3>3, <3>5, <3>6, <3>7
      <3>9. due[n] # 0 => Drawable(g, u, e) /\ due[n] = Due(g, e)
        BY <1>5
      <3>10. Due(g, e) \in Nat
        BY <1>3
      <3>11. takes[e] <= Due(g, e)
        BY <3>7, <3>8, <3>9, <3>10
      <3>12. g.commit[e].pending => due[n] = 0
        BY <3>9 DEF Drawable
      <3> QED
        BY <3>7, <3>8, <3>11, <3>12
    <2> QED
      BY <2>2, <2>3
  <1> QED
    BY <1>6, <1>12

\* What a payout takes from each account is the total of what it takes from the
\* account's obligations.
LEMMA PerAccountTally ==
    ASSUME NEW takes \in [Earnings -> Nat]
    PROVE  /\ PerAccount(takes) \in [Orgs -> Nat]
           /\ \A o \in Orgs : PerAccount(takes)[o] = Tally(takes, EarningsOf(o), Earnings)
  <1>1. ASSUME NEW o \in Orgs
        PROVE  SumFunction([e \in Earnings |-> IF OrgOf[SourceOf(e)] = o THEN takes[e] ELSE 0])
                 = Tally(takes, EarningsOf(o), Earnings)
    <2>1. [e \in Earnings |-> IF OrgOf[SourceOf(e)] = o THEN takes[e] ELSE 0]
            = [e \in Earnings |-> IF e \in EarningsOf(o) THEN takes[e] ELSE 0]
      BY DEF EarningsOf
    <2> QED
      BY <2>1 DEF Tally
  <1>2. \A e \in Earnings : takes[e] \in Int /\ takes[e] \in Nat
    OBVIOUS
  <1>3. \A o \in Orgs : Tally(takes, EarningsOf(o), Earnings) \in Nat
    BY <1>2, RowsFinite, TallyType
  <1>4. \A o \in Orgs : PerAccount(takes)[o] = Tally(takes, EarningsOf(o), Earnings)
    BY <1>1 DEF PerAccount
  <1>5. PerAccount(takes) = [o \in Orgs |-> PerAccount(takes)[o]]
    BY DEF PerAccount
  <1> QED
    BY <1>3, <1>4, <1>5

\* The attribution takes the same from the obligations and from the accounts.
LEMMA AttributedSound ==
    ASSUME NEW g, NEW withdrawn \in [Orgs -> Nat], Sound(g, withdrawn),
           NEW takes \in [Earnings -> Nat], \A e \in Earnings : takes[e] <= Due(g, e),
           NEW h, h = Attributed(g, takes)
    PROVE  /\ Sound(h, withdrawn) /\ h.res = g.res
           /\ \A e \in Earnings : h.commit[e] = [g.commit[e] EXCEPT !.paid = @ + takes[e]]
           /\ \A o \in Orgs : h.account[o].confirmed = g.account[o].confirmed - PerAccount(takes)[o]
  <1> DEFINE drawn == PerAccount(takes)
             commit == [e \in Earnings |-> [g.commit[e] EXCEPT !.paid = @ + takes[e]]]
             account == [o \in Orgs |-> [confirmed |-> g.account[o].confirmed - drawn[o],
                                         held |-> g.account[o].held - drawn[o]]]
  <1>1. g \in Rows /\ RowShape(g)
    BY DEF Sound, RowShape
  <1>2. \A e \in Earnings : g.commit[e] \in CommitRow /\ CommitShape(g.commit[e]) /\ takes[e] \in Nat
    BY <1>1 DEF RowShape, Rows
  <1>3. \A o \in Orgs : g.account[o].confirmed \in Int /\ g.account[o].held \in Int
    BY <1>1 DEF Rows, AccountRow
  <1>4. drawn \in [Orgs -> Nat] /\ \A o \in Orgs : drawn[o] = Tally(takes, EarningsOf(o), Earnings)
    BY PerAccountTally
  <1>5. h = [g EXCEPT !.commit = commit, !.account = account]
    BY DEF Attributed
  <1>6. \A e \in Earnings : commit[e] = [g.commit[e] EXCEPT !.paid = @ + takes[e]]
    OBVIOUS
  <1>7. \A o \in Orgs : account[o].confirmed = g.account[o].confirmed - drawn[o]
                        /\ account[o].held = g.account[o].held - drawn[o]
    OBVIOUS
  <1> HIDE DEF drawn
  <1>8. account \in [Orgs -> AccountRow]
    BY <1>3, <1>4 DEF AccountRow
  <1>9. ASSUME NEW e \in Earnings
        PROVE  /\ commit[e] \in CommitRow /\ CommitShape(commit[e])
               /\ commit[e].exists = g.commit[e].exists /\ commit[e].held = g.commit[e].held
               /\ commit[e].uncovered = g.commit[e].uncovered
               /\ commit[e].paid = g.commit[e].paid + takes[e]
    <2> DEFINE paid == g.commit[e].paid + takes[e]
    <2>1. g.commit[e].paid \in Nat /\ g.commit[e].held \in Nat /\ takes[e] \in Nat
      BY <1>2 DEF CommitRow
    <2>2. paid \in Nat /\ paid <= g.commit[e].held
      BY <2>1 DEF Due
    <2>3. commit[e] = [g.commit[e] EXCEPT !.paid = paid]
      BY <1>6
    <2>4. paid = g.commit[e].paid + takes[e]
      OBVIOUS
    <2> HIDE DEF paid, commit
    <2>5. /\ commit[e] \in CommitRow
          /\ commit[e].exists = g.commit[e].exists /\ commit[e].held = g.commit[e].held
          /\ commit[e].uncovered = g.commit[e].uncovered
          /\ commit[e].paid = paid
      BY <1>2, <2>2, <2>3 DEF CommitRow
    <2>6. ~g.commit[e].exists => commit[e] = NoCommit
      <3> SUFFICES ASSUME ~g.commit[e].exists
                   PROVE  commit[e] = NoCommit
        OBVIOUS
      <3>1. g.commit[e] = NoCommit
        BY <1>2 DEF CommitShape
      <3>2. g.commit[e].held = 0
        BY <3>1 DEF NoCommit
      <3>3. paid = 0
        BY <2>2, <3>2
      <3> QED
        BY <2>3, <3>1, <3>3 DEF NoCommit
    <2> QED
      BY <2>2, <2>4, <2>5, <2>6 DEF CommitShape
  <1>10. commit \in [Earnings -> CommitRow]
    BY <1>9
  <1> HIDE DEF commit, account
  <1>11. /\ h.commit = commit /\ h.account = account /\ h.campaign = g.campaign
         /\ h.res = g.res /\ h.order = g.order
    BY <1>1, <1>5 DEF Rows
  <1>12. h \in Rows
    BY <1>1, <1>5, <1>8, <1>10 DEF Rows
  <1>13. RowShape(h)
    <2>1. \A s \in Sources : ResShape(h.res[s])
      BY <1>1, <1>11 DEF RowShape
    <2>2. \A e \in Earnings : CommitShape(h.commit[e])
      BY <1>9, <1>11
    <2>3. OrderShape(g) /\ \A n \in DOMAIN g.order : g.order[n] \in Earnings
      BY <1>1 DEF RowShape, Rows
    <2>4. OrderShape(h)
      BY <1>9, <1>11, <2>3 DEF OrderShape
    <2> QED
      BY <1>12, <2>1, <2>2, <2>4 DEF RowShape
  <1>14. /\ Remaining(h) = Remaining(g) /\ Short(h) = Short(g)
         /\ HeldFor(h) = HeldFor(g) /\ UncoveredOf(h) = UncoveredOf(g)
    BY <1>9, <1>11 DEF Remaining, Short, HeldFor, UncoveredOf
  <1>15. \A e \in Earnings : /\ PaidOut(g)[e] \in Int /\ takes[e] \in Int
                             /\ PaidOut(h)[e] = PaidOut(g)[e] + takes[e]
    BY <1>1, <1>2, <1>9, <1>11, ColumnTypes DEF PaidOut
  <1>16. AccountsAgree(h)
    <2> SUFFICES ASSUME NEW o \in Orgs
                 PROVE  h.account[o].held = Tally(Remaining(h), SourcesOf(o), Sources)
                                            + Tally(HeldFor(h), EarningsOf(o), Earnings)
                                            - Tally(PaidOut(h), EarningsOf(o), Earnings)
      BY DEF AccountsAgree
    <2>1. Tally(PaidOut(h), EarningsOf(o), Earnings)
            = Tally(PaidOut(g), EarningsOf(o), Earnings) + Tally(takes, EarningsOf(o), Earnings)
      BY <1>15, RowsFinite, TallyPlus
    <2>2. /\ Tally(Remaining(g), SourcesOf(o), Sources) \in Nat
          /\ Tally(HeldFor(g), EarningsOf(o), Earnings) \in Nat
          /\ Tally(PaidOut(g), EarningsOf(o), Earnings) \in Nat
      BY <1>1, TotalTypes
    <2>3. g.account[o].held = Tally(Remaining(g), SourcesOf(o), Sources)
                              + Tally(HeldFor(g), EarningsOf(o), Earnings)
                              - Tally(PaidOut(g), EarningsOf(o), Earnings)
      BY DEF Sound, AccountsAgree
    <2>4. h.account[o].held = g.account[o].held - drawn[o] /\ drawn[o] \in Nat
          /\ drawn[o] = Tally(takes, EarningsOf(o), Earnings)
      BY <1>4, <1>7, <1>11
    <2> QED
      BY <1>14, <2>1, <2>2, <2>3, <2>4
  <1>17. CampaignsAgree(h)
    BY <1>11, <1>14 DEF Sound, CampaignsAgree
  <1>18. Within(h, withdrawn)
    <2> SUFFICES ASSUME NEW o \in Orgs
                 PROVE  h.account[o].held - h.account[o].confirmed <= Reported(h, o) + withdrawn[o]
      BY DEF Within
    <2>1. Reported(h, o) = Reported(g, o)
      BY <1>14 DEF Reported
    <2>2. g.account[o].held - g.account[o].confirmed <= Reported(g, o) + withdrawn[o]
      BY DEF Sound, Within
    <2>3. /\ h.account[o].held = g.account[o].held - drawn[o]
          /\ h.account[o].confirmed = g.account[o].confirmed - drawn[o]
          /\ drawn[o] \in Nat
      BY <1>4, <1>7, <1>11
    <2>4. h.account[o].held - h.account[o].confirmed = g.account[o].held - g.account[o].confirmed
      BY <1>3, <2>3
    <2> QED
      BY <2>1, <2>2, <2>4
  <1> QED
    BY <1>6, <1>7, <1>11, <1>13, <1>16, <1>17, <1>18 DEF Sound, drawn

-----------------------------------------------------------------------------
(* Sessions, trips and items.                                              *)

\* A session is a source and not a trip.
LEMMA SessionKind ==
    ASSUME NEW s \in Sessions
    PROVE  s \in Sources /\ s \notin Trips
  BY FundingConstants DEF Sources

\* An item draws on the reservation of its session.
LEMMA ItemKind ==
    ASSUME NEW i \in Items
    PROVE  i \in Earnings /\ i \notin Trips /\ SourceOf(i) = SessionOf[i] /\ SessionOf[i] \in Sessions
  BY FundingConstants DEF Earnings, SourceOf

\* A trip is its own source and its own earning.
LEMMA TripKind ==
    ASSUME NEW t \in Trips
    PROVE  t \in Sources /\ t \in Earnings /\ t \notin Items /\ t \notin Sessions /\ SourceOf(t) = t
  BY FundingConstants DEF Sources, Earnings, SourceOf

\* Only the trip itself earns under a trip.
LEMMA TripEarning ==
    ASSUME NEW t \in Trips, NEW e \in Earnings, SourceOf(e) = t
    PROVE  e = t
  BY FundingConstants DEF Earnings, SourceOf

-----------------------------------------------------------------------------
(* What a session may still draw.                                          *)

Drawing(g, s, it) ==
    [i \in Items |-> IF SessionOf[i] = s /\ it[i] = "REVIEW" THEN Most(0, ItemCap - g.commit[i].held) ELSE 0]

\* What items under review draw is a number.
LEMMA DrawingType ==
    ASSUME NEW g \in Rows, NEW s, NEW it
    PROVE  /\ \A i \in Items : Drawing(g, s, it)[i] \in Nat
           /\ sessionReviewExposure(g, s, it) = SumFunctionOnSet(Drawing(g, s, it), Items)
           /\ sessionReviewExposure(g, s, it) \in Nat
  <1>1. \A i \in Items : g.commit[i].held \in Nat /\ ItemCap \in Nat
    BY FundingConstants DEF Rows, CommitRow, Earnings
  <1>2. \A i \in Items : Drawing(g, s, it)[i] \in Nat
    BY <1>1 DEF Drawing, Most
  <1>3. sessionReviewExposure(g, s, it) = SumFunctionOnSet(Drawing(g, s, it), Items)
    BY DEF sessionReviewExposure, Drawing, SumFunction
  <1>4. SumFunctionOnSet(Drawing(g, s, it), Items) \in Nat
    BY <1>2, FundingConstants, SumNat
  <1> QED
    BY <1>2, <1>3, <1>4

\* More items in review, with the same obligations, draw no less.
LEMMA ExposureGrows ==
    ASSUME NEW g \in Rows, NEW h \in Rows, NEW s, NEW it, NEW jt,
           \A i \in Items : SessionOf[i] = s => /\ h.commit[i].held = g.commit[i].held
                                                /\ it[i] = "REVIEW" => jt[i] = "REVIEW"
    PROVE  sessionReviewExposure(g, s, it) <= sessionReviewExposure(h, s, jt)
  <1> DEFINE F == Drawing(g, s, it)
             G == Drawing(h, s, jt)
  <1>1. \A i \in Items : F[i] \in Nat /\ G[i] \in Nat
    BY DrawingType
  <1>2. \A i \in Items : g.commit[i].held \in Nat /\ ItemCap \in Nat
    BY FundingConstants DEF Rows, CommitRow, Earnings
  <1>3. \A i \in Items : F[i] <= G[i]
    BY <1>2 DEF Drawing, Most
  <1>4. sessionReviewExposure(g, s, it) = SumFunctionOnSet(F, Items)
        /\ sessionReviewExposure(h, s, jt) = SumFunctionOnSet(G, Items)
    BY DrawingType
  <1> HIDE DEF F, G
  <1>5. \A i \in Items : F[i] \in Int /\ G[i] \in Int
    BY <1>1
  <1> QED
    BY <1>3, <1>4, <1>5, FundingConstants, SumMonotone

\* After its decision a watermarked session is closed, or may still draw.
LEMMA SettledSound ==
    ASSUME NEW g, NEW withdrawn \in [Orgs -> Nat], Sound(g, withdrawn), NEW s \in Sources, NEW it,
           NEW h, h = closeWatermarkedSessionIfSettled(g, s, it)
    PROVE  /\ Sound(h, withdrawn) /\ h.commit = g.commit /\ \A e : Serves(g, h, s, e)
           /\ s \in marked /\ h.res[s].status = "ACTIVE" => sessionReviewExposure(h, s, it) # 0
  <1> DEFINE close == TRUE
             amount == g.res[s].remaining
  <1>1. g \in Rows /\ g.res[s].remaining \in Nat
    BY DEF Sound, RowShape, Rows, ReservationRow
  <1>2. CASE s \in marked /\ g.res[s].status = "ACTIVE" /\ sessionReviewExposure(g, s, it) = 0
    <2>1. h = releaseUnusedRewardBudget(g, s, amount, close) /\ amount \in Nat /\ close \in BOOLEAN
      BY <1>1, <1>2 DEF closeWatermarkedSessionIfSettled
    <2>2. close /\ (close => amount = g.res[s].remaining)
      OBVIOUS
    <2> HIDE DEF close, amount
    <2>3. Releases(g, h, withdrawn, s, close)
      BY <1>2, <2>1, <2>2, ClosedSound
    <2> QED
      BY <2>2, <2>3 DEF Releases
  <1>3. CASE ~(s \in marked /\ g.res[s].status = "ACTIVE" /\ sessionReviewExposure(g, s, it) = 0)
    <2>1. h = g
      BY <1>3 DEF closeWatermarkedSessionIfSettled
    <2> QED
      BY <1>3, <2>1 DEF Serves, OnlySource, OnlyEarning
  <1> QED
    BY <1>2, <1>3

-----------------------------------------------------------------------------
(* The state, and what each action does to the funding rows.               *)

Statuses == {"NONE", "OPEN", "ENDED", "CANCELLED", "COMPLETED"}
Progress == {"PENDING", "HELD", "ACCEPTED", "REVIEW", "CLOSED"}
Entries == {"cash", "correction"} \X Refs

FundingTypeOK ==
    /\ program \in [Campaigns -> [money : BOOLEAN, mult : 1..MaxMult]]
    /\ source \in [Sources -> Statuses]
    /\ marked \subseteq Sessions
    /\ rows \in [Trips -> Nat]
    /\ item \in [Items -> Progress]
    /\ cash \in [Entries -> [org : Orgs \cup {NoOrg}, amount : Int]]
    /\ payout \in [Payouts -> [Orgs -> Nat]]

WithdrawnBy == [o \in Orgs |-> Withdrawn(o)]

\* The entries are finitely many.
LEMMA EntriesFinite == IsFiniteSet(Entries)
  <1>1. IsFiniteSet({"cash"}) /\ IsFiniteSet({"correction"})
    BY FS_Singleton
  <1>2. IsFiniteSet({"cash"} \cup {"correction"})
    BY <1>1, FS_Union
  <1>3. {"cash"} \cup {"correction"} = {"cash", "correction"}
    OBVIOUS
  <1> QED
    BY <1>2, <1>3, FundingConstants, FS_Product DEF Entries

\* Cash withdrawn is a number.
LEMMA WithdrawnType ==
    ASSUME FundingTypeOK
    PROVE  WithdrawnBy \in [Orgs -> Nat]
  <1> SUFFICES ASSUME NEW o \in Orgs
               PROVE  Withdrawn(o) \in Nat
    BY DEF WithdrawnBy
  <1> DEFINE row == [k \in Entries |-> IF cash[k].org = o /\ cash[k].amount < 0 THEN -cash[k].amount ELSE 0]
  <1>1. \A k \in Entries : cash[k].amount \in Int
    BY DEF FundingTypeOK
  <1>2. \A k \in Entries : row[k] \in Nat
    BY <1>1
  <1>3. DOMAIN cash = Entries
    BY DEF FundingTypeOK
  <1>4. Withdrawn(o) = SumFunctionOnSet(row, Entries)
    BY <1>3 DEF Withdrawn, SumFunction
  <1> HIDE DEF row
  <1> QED
    BY <1>2, <1>4, EntriesFinite, SumNat

\* An admitted session holds its ceiling.
LEMMA AdmitEffect ==
    ASSUME FundingTypeOK, Sound(f, WithdrawnBy), NEW s \in Sessions, NEW ceiling \in Ceilings,
           admitSession(s, ceiling)
    PROVE  Sound(f', WithdrawnBy) /\ f'.commit = f.commit /\ \A e : Serves(f, f', s, e)
  <1>1. ceiling \in Nat /\ s \in Sources /\ RowShape(f) /\ WithdrawnBy \in [Orgs -> Nat]
    BY FundingConstants, SessionKind, WithdrawnType DEF Sound
  <1>2. MayReserve(f, s, ceiling) /\ f' = reserveRewardBudget(f, s, ceiling)
    BY DEF admitSession
  <1>3. SourcePosting(f, f', s) /\ RowShape(f')
    BY <1>1, <1>2, ReservePosting
  <1>4. f'.commit = f.commit
    BY <1>3 DEF SourcePosting
  <1> QED
    BY <1>1, <1>3, <1>4, SourceSound

\* A recorded watermark keeps what the items in review may still draw.
LEMMA WatermarkEffect ==
    ASSUME FundingTypeOK, Sound(f, WithdrawnBy), NEW s \in Sessions, handleCloseWatermark(s)
    PROVE  /\ Sound(f', WithdrawnBy) /\ f'.commit = f.commit /\ \A e : Serves(f, f', s, e)
           /\ f'.res[s].status = "ACTIVE" => sessionReviewExposure(f, s, item) > 0
  <1> DEFINE exposure == sessionReviewExposure(f, s, item)
             kept == Least(exposure, f.res[s].remaining)
             amount == f.res[s].remaining - kept
             close == (kept = 0)
  <1>1. s \in Sources /\ f \in Rows /\ WithdrawnBy \in [Orgs -> Nat]
    BY SessionKind, WithdrawnType DEF Sound, RowShape
  <1>2. f.res[s].remaining \in Nat /\ exposure \in Nat
    BY <1>1, DrawingType DEF Rows, ReservationRow
  <1>3. f' = IF f.res[s].status = "ACTIVE" THEN releaseUnusedRewardBudget(f, s, amount, close) ELSE f
    BY DEF handleCloseWatermark
  <1> HIDE DEF exposure
  <1>4. kept \in Nat /\ kept <= exposure /\ amount \in Nat /\ (close => amount = f.res[s].remaining)
    BY <1>2 DEF Least
  <1>5. close \in BOOLEAN /\ (~close => exposure > 0)
    <2>1. close \in BOOLEAN
      OBVIOUS
    <2>2. ~close => exposure > 0
      BY <1>2, <1>4
    <2> QED
      BY <2>1, <2>2
  <1> HIDE DEF kept, amount, close
  <1>6. CASE f.res[s].status = "ACTIVE"
    <2>1. f' = releaseUnusedRewardBudget(f, s, amount, close)
      BY <1>3, <1>6
    <2>2. Releases(f, f', WithdrawnBy, s, close)
      BY <1>1, <1>4, <1>5, <1>6, <2>1, ClosedSound
    <2> QED
      BY <1>5, <2>2 DEF Releases, exposure
  <1>7. CASE f.res[s].status # "ACTIVE"
    <2>1. f' = f
      BY <1>3, <1>7
    <2> QED
      BY <1>7, <2>1 DEF Serves, OnlySource, OnlyEarning
  <1> QED
    BY <1>6, <1>7

\* An acceptance commits under its session, or nothing.
LEMMA AcceptanceEffect ==
    ASSUME FundingTypeOK, Sound(f, WithdrawnBy), NEW i \in Items,
           NEW d, NEW price \in Prices, handleAcceptance(i, d, price)
    PROVE  Sound(f', WithdrawnBy) /\ Serves(f, f', SessionOf[i], i)
  <1> DEFINE pending == (d = "REVIEW")
  <1>1. i \in Earnings /\ SourceOf(i) = SessionOf[i] /\ price \in Nat /\ WithdrawnBy \in [Orgs -> Nat]
    BY ItemKind, FundingConstants, WithdrawnType
  <1>2. f' = IF d = "CLOSED" THEN f ELSE checkRewardFunding(f, i, price, pending)
    BY DEF handleAcceptance
  <1>3. pending \in BOOLEAN
    OBVIOUS
  <1> HIDE DEF pending
  <1>4. CASE d = "CLOSED"
    BY <1>2, <1>4 DEF Serves, OnlySource, OnlyEarning
  <1>5. CASE d # "CLOSED"
    <2>1. f' = checkRewardFunding(f, i, price, pending)
      BY <1>2, <1>5
    <2> QED
      BY <1>1, <1>3, <2>1, CheckedSound
  <1> QED
    BY <1>4, <1>5

\* A fraud hold marks the obligation and moves nothing.
LEMMA HoldEffect ==
    ASSUME FundingTypeOK, Sound(f, WithdrawnBy), NEW i \in Items, holdItemForFraud(i)
    PROVE  /\ Sound(f', WithdrawnBy) /\ Serves(f, f', SessionOf[i], i) /\ f'.res = f.res
           /\ \A e \in Earnings : f'.commit[e].held = f.commit[e].held
  <1>1. i \in Earnings /\ SourceOf(i) = SessionOf[i] /\ WithdrawnBy \in [Orgs -> Nat] /\ RowShape(f) /\ f \in Rows
    BY ItemKind, WithdrawnType DEF Sound, RowShape
  <1>2. f' = markCommitReviewPending(f, i)
    BY DEF holdItemForFraud
  <1>3. CASE f.commit[i].exists
    <2>1. /\ EarningPosting(f, f', i) /\ RowShape(f') /\ f'.res = f.res
          /\ f'.commit[i] = [f.commit[i] EXCEPT !.pending = TRUE]
      BY <1>1, <1>2, <1>3, PendingPosting
    <2>2. f.commit[i] \in CommitRow
      BY <1>1 DEF Rows
    <2>3. f'.commit[i].held = f.commit[i].held
      BY <2>1, <2>2 DEF CommitRow
    <2>4. OnlyEarning(f, f', i)
      BY <2>1 DEF EarningPosting
    <2>5. Sound(f', WithdrawnBy) /\ Serves(f, f', SourceOf(i), i)
      BY <1>1, <2>1, EarningSound
    <2>6. \A e \in Earnings : f'.commit[e].held = f.commit[e].held
      BY <2>3, <2>4 DEF OnlyEarning
    <2> QED
      BY <1>1, <2>1, <2>5, <2>6
  <1>4. CASE ~f.commit[i].exists
    <2>1. f' = f
      BY <1>2, <1>4 DEF markCommitReviewPending
    <2> QED
      BY <2>1 DEF Serves, OnlySource, OnlyEarning
  <1> QED
    BY <1>3, <1>4

\* A decision settles the obligation and closes a settled session.
LEMMA DecisionEffect ==
    ASSUME FundingTypeOK, Sound(f, WithdrawnBy), NEW i \in Items,
           NEW target \in Prices \cup {0}, NEW refused \in BOOLEAN,
           decideDepositReview(i, target, refused)
    PROVE  /\ Sound(f', WithdrawnBy) /\ Serves(f, f', SessionOf[i], i)
           /\ SessionOf[i] \in marked /\ f'.res[SessionOf[i]].status = "ACTIVE"
                => sessionReviewExposure(f', SessionOf[i], item') # 0
  <1> DEFINE s == SessionOf[i]
             m == settleOrCommitReward(f, i, target, refused)
  <1>1. i \in Earnings /\ SourceOf(i) = s /\ WithdrawnBy \in [Orgs -> Nat] /\ s \in Sources
    BY ItemKind, SessionKind, WithdrawnType
  <1>2. target \in Nat
    BY FundingConstants
  <1>3. f' = closeWatermarkedSessionIfSettled(m, s, item')
    BY DEF decideDepositReview
  <1>4. Sound(m, WithdrawnBy) /\ Serves(f, m, SourceOf(i), i)
    BY <1>1, <1>2, DecidedSound
  <1> HIDE DEF s, m
  <1>5. /\ Sound(f', WithdrawnBy) /\ f'.commit = m.commit /\ \A e : Serves(m, f', s, e)
        /\ s \in marked /\ f'.res[s].status = "ACTIVE" => sessionReviewExposure(f', s, item') # 0
    BY <1>1, <1>3, <1>4, SettledSound
  <1>6. Serves(f, f', s, i)
    BY <1>1, <1>4, <1>5, ServesBoth
  <1> QED
    BY <1>5, <1>6 DEF s

-----------------------------------------------------------------------------
(* The inductive invariant.                                                *)

\* A watermarked session has ended, and holds only what it may still draw.
Freed(s) == f.res[s].status = "ACTIVE" => sessionReviewExposure(f, s, item) > 0
WatermarkOK == \A s \in marked : source[s] = "ENDED" /\ Freed(s)

\* A trip earns once, when it completes.  Until then its reservation, once
\* made, still has all it was made for; under enforcement that is enough for
\* the bags issued so far at the campaign's multiplier of now.
TripOK(t) ==
    /\ source[t] \in {"OPEN", "CANCELLED", "COMPLETED"}
    /\ source[t] # "COMPLETED" =>
          /\ ~f.commit[t].exists
          /\ f.res[t].status = "ACTIVE" => f.res[t].remaining = f.res[t].ceiling
    /\ Enforced =>
          /\ f.commit[t].uncovered = 0 /\ ~f.res[t].late
          /\ source[t] = "OPEN" /\ PaysFor(t, rows[t]) =>
                f.res[t].status = "ACTIVE" /\ f.res[t].ceiling >= TripCeiling(t, rows[t])

FundingInv ==
    /\ FundingTypeOK /\ Sound(f, WithdrawnBy) /\ CashConserved
    /\ WatermarkOK /\ \A t \in Trips : TripOK(t)

-----------------------------------------------------------------------------
(* What an action leaves alone.                                            *)

\* Confirmed cash is untouched by everything but entries and payouts.
LEMMA CashUntouched ==
    ASSUME CashConserved, \A o \in Orgs : f'.account[o].confirmed = f.account[o].confirmed,
           cash' = cash, payout' = payout
    PROVE  CashConserved' /\ WithdrawnBy' = WithdrawnBy
  BY DEF CashConserved, WithdrawnBy, Withdrawn

\* A watermarked session other than the one served keeps what it may draw.
LEMMA FreedUntouched ==
    ASSUME FundingTypeOK, Sound(f, WithdrawnBy), f' \in Rows, NEW s \in Sessions, Freed(s),
           f'.res[s] = f.res[s],
           \A i \in Items : SessionOf[i] = s => /\ f'.commit[i].held = f.commit[i].held
                                                /\ item[i] = "REVIEW" => item'[i] = "REVIEW"
    PROVE  Freed(s)'
  <1>1. f \in Rows
    BY DEF Sound, RowShape
  <1>2. sessionReviewExposure(f, s, item) <= sessionReviewExposure(f', s, item')
    BY <1>1, ExposureGrows
  <1>3. sessionReviewExposure(f, s, item) \in Nat /\ sessionReviewExposure(f', s, item') \in Nat
    BY <1>1, DrawingType
  <1> QED
    BY <1>2, <1>3 DEF Freed

\* The watermarked sessions but one are untouched when that one is served.
LEMMA OthersFreed ==
    ASSUME FundingInv, f' \in Rows, NEW s, OnlySource(f, f', s),
           \A i \in Items : SessionOf[i] # s => f'.commit[i].held = f.commit[i].held /\ item'[i] = item[i],
           NEW x \in marked, x # s
    PROVE  Freed(x)'
  <1>1. x \in Sessions /\ x \in Sources /\ Freed(x)
    BY SessionKind DEF FundingInv, FundingTypeOK, WatermarkOK
  <1>2. f'.res[x] = f.res[x]
    BY <1>1 DEF OnlySource
  <1>3. \A i \in Items : SessionOf[i] = x => f'.commit[i].held = f.commit[i].held
                                             /\ (item[i] = "REVIEW" => item'[i] = "REVIEW")
    OBVIOUS
  <1> QED
    BY <1>1, <1>2, <1>3, FreedUntouched DEF FundingInv

\* Serving an item leaves the items of other sessions.
LEMMA OtherItems ==
    ASSUME NEW i \in Items, Serves(f, f', SessionOf[i], i), item' = [item EXCEPT ![i] = item'[i]],
           FundingTypeOK
    PROVE  /\ OnlySource(f, f', SessionOf[i])
           /\ \A j \in Items : SessionOf[j] # SessionOf[i] => f'.commit[j].held = f.commit[j].held /\ item'[j] = item[j]
  <1>1. \A j \in Items : SessionOf[j] # SessionOf[i] => j # i /\ j \in Earnings
    BY ItemKind
  <1>2. OnlySource(f, f', SessionOf[i]) /\ OnlyEarning(f, f', i)
    BY DEF Serves
  <1>3. \A j \in Items : j # i => item'[j] = item[j]
    BY DEF FundingTypeOK
  <1> QED
    BY <1>1, <1>2, <1>3 DEF OnlyEarning

\* A trip other than the one served, with the same program, is as it was.
LEMMA TripUntouched ==
    ASSUME NEW t \in Trips, TripOK(t), NEW s, NEW e, Serves(f, f', s, e), t # s, t # e,
           source'[t] = source[t], rows'[t] = rows[t], program' = program
    PROVE  TripOK(t)'
  <1>1. f'.res[t] = f.res[t] /\ f'.commit[t] = f.commit[t]
    BY TripKind DEF Serves, OnlySource, OnlyEarning
  <1> QED
    BY <1>1 DEF TripOK, PaysFor, TripCeiling

\* An action on a session and its items leaves every trip alone.
LEMMA TripsUntouched ==
    ASSUME FundingInv, NEW s \in Sessions, NEW e, e \notin Trips, Serves(f, f', s, e),
           \A t \in Trips : source'[t] = source[t] /\ rows'[t] = rows[t], program' = program
    PROVE  \A t \in Trips : TripOK(t)'
  BY SessionKind, TripUntouched DEF FundingInv

\* Nothing moves while these stay.
LEMMA FundingStays ==
    ASSUME FundingInv, UNCHANGED <<f, source, marked, rows, item, cash, payout, program>>
    PROVE  FundingInv'
  BY DEF FundingInv, FundingTypeOK, WithdrawnBy, Withdrawn, CashConserved, WatermarkOK, Freed, TripOK, PaysFor,
         TripCeiling, sessionReviewExposure, Sound, Within, RowShape, AccountsAgree, CampaignsAgree,
         OrderShape

-----------------------------------------------------------------------------
(* Sessions.                                                               *)

\* The admission of a session keeps the invariant.
LEMMA AdmitKeeps ==
    ASSUME FundingInv, NEW s \in Sessions, NEW ceiling \in Ceilings, admitSession(s, ceiling)
    PROVE  FundingInv'
  <1>1. FundingTypeOK /\ Sound(f, WithdrawnBy)
    BY DEF FundingInv
  <1>2. Sound(f', WithdrawnBy) /\ f'.commit = f.commit /\ Serves(f, f', s, s)
    BY <1>1, AdmitEffect
  <1>3. /\ source[s] = "NONE" /\ source' = [source EXCEPT ![s] = "OPEN"]
        /\ UNCHANGED <<program, marked, rows, item, cash, payout>>
    BY DEF admitSession
  <1>4. FundingTypeOK'
    BY <1>1, <1>3, SessionKind DEF FundingTypeOK, Statuses
  <1>5. CashConserved' /\ WithdrawnBy' = WithdrawnBy
    BY <1>2, <1>3, CashUntouched DEF FundingInv, Serves
  <1>6. s \notin marked /\ f' \in Rows /\ OnlySource(f, f', s)
    BY <1>2, <1>3 DEF FundingInv, WatermarkOK, Sound, RowShape, Serves
  <1>7. WatermarkOK'
    <2> SUFFICES ASSUME NEW x \in marked'
                 PROVE  source'[x] = "ENDED" /\ Freed(x)'
      BY DEF WatermarkOK
    <2>1. x \in marked /\ x # s /\ x \in Sources /\ source[x] = "ENDED"
      BY <1>3, <1>6, SessionKind DEF FundingInv, WatermarkOK, FundingTypeOK
    <2>2. source'[x] = "ENDED"
      BY <1>1, <1>3, <2>1 DEF FundingTypeOK
    <2>3. Freed(x)'
      BY <1>2, <1>3, <1>6, <2>1, OthersFreed
    <2> QED
      BY <2>2, <2>3
  <1>8. s \notin Trips /\ \A t \in Trips : source'[t] = source[t]
    BY <1>1, <1>3, SessionKind, TripKind DEF FundingTypeOK
  <1>9. \A t \in Trips : TripOK(t)'
    BY <1>2, <1>3, <1>8, TripsUntouched
  <1> QED
    BY <1>2, <1>4, <1>5, <1>7, <1>9 DEF FundingInv

\* The end of a session keeps the invariant.
LEMMA EndKeeps ==
    ASSUME FundingInv, NEW s \in Sessions, endSession(s)
    PROVE  FundingInv'
  <1>1. FundingTypeOK /\ Sound(f, WithdrawnBy) /\ WatermarkOK
    BY DEF FundingInv
  <1>2. /\ source[s] = "OPEN" /\ source' = [source EXCEPT ![s] = "ENDED"]
        /\ UNCHANGED <<f, program, marked, rows, item, cash, payout>>
    BY DEF endSession
  <1>3. FundingTypeOK'
    BY <1>1, <1>2, SessionKind DEF FundingTypeOK, Statuses
  <1>4. CashConserved' /\ WithdrawnBy' = WithdrawnBy
    BY <1>2, CashUntouched DEF FundingInv
  <1>5. \A x \in marked : x \in Sources /\ source'[x] = "ENDED"
    BY <1>1, <1>2, SessionKind DEF FundingTypeOK, WatermarkOK
  <1>6. WatermarkOK'
    BY <1>1, <1>2, <1>5 DEF WatermarkOK, Freed, sessionReviewExposure
  <1>7. s \notin Trips /\ Serves(f, f', s, s) /\ \A t \in Trips : source'[t] = source[t]
    BY <1>1, <1>2, SessionKind, TripKind DEF FundingTypeOK, Serves, OnlySource, OnlyEarning
  <1>8. \A t \in Trips : TripOK(t)'
    BY <1>2, <1>7, TripsUntouched
  <1>9. Sound(f', WithdrawnBy)
    BY <1>1, <1>2
  <1> QED
    BY <1>3, <1>4, <1>6, <1>8, <1>9 DEF FundingInv

\* A watermark releases what no event can claim and keeps the invariant.
LEMMA WatermarkKeeps ==
    ASSUME FundingInv, NEW s \in Sessions, handleCloseWatermark(s)
    PROVE  FundingInv'
  <1>1. FundingTypeOK /\ Sound(f, WithdrawnBy) /\ WatermarkOK
    BY DEF FundingInv
  <1>2. /\ Sound(f', WithdrawnBy) /\ f'.commit = f.commit /\ \A e : Serves(f, f', s, e)
        /\ f'.res[s].status = "ACTIVE" => sessionReviewExposure(f, s, item) > 0
    BY <1>1, WatermarkEffect
  <1>3. /\ source[s] = "ENDED" /\ marked' = marked \cup {s}
        /\ UNCHANGED <<program, source, rows, item, cash, payout>>
    BY DEF handleCloseWatermark
  <1>4. FundingTypeOK'
    BY <1>1, <1>3 DEF FundingTypeOK
  <1>5. CashConserved' /\ WithdrawnBy' = WithdrawnBy
    BY <1>2, <1>3, CashUntouched DEF FundingInv, Serves
  <1>6. f' \in Rows /\ OnlySource(f, f', s)
    BY <1>2 DEF Sound, RowShape, Serves
  <1>7. WatermarkOK'
    <2> SUFFICES ASSUME NEW x \in marked'
                 PROVE  source'[x] = "ENDED" /\ Freed(x)'
      BY DEF WatermarkOK
    <2>1. CASE x = s
      <3>1. sessionReviewExposure(f', s, item') = sessionReviewExposure(f, s, item)
        BY <1>2, <1>3 DEF sessionReviewExposure
      <3> QED
        BY <1>2, <1>3, <2>1, <3>1 DEF Freed
    <2>2. CASE x # s
      <3>1. x \in marked /\ source[x] = "ENDED"
        BY <1>1, <1>3, <2>2 DEF WatermarkOK
      <3> QED
        BY <1>2, <1>3, <1>6, <2>2, <3>1, OthersFreed
    <2> QED
      BY <2>1, <2>2
  <1>8. s \notin Trips /\ Serves(f, f', s, s)
    BY <1>2, SessionKind
  <1>9. \A t \in Trips : TripOK(t)'
    BY <1>3, <1>8, TripsUntouched
  <1> QED
    BY <1>2, <1>4, <1>5, <1>7, <1>9 DEF FundingInv

-----------------------------------------------------------------------------
(* Items.                                                                  *)

\* An acceptance commits within the reservation.
LEMMA AcceptanceKeeps ==
    ASSUME FundingInv, NEW i \in Items, NEW d \in {"ACCEPTED", "REVIEW", "CLOSED"},
           NEW price \in Prices, handleAcceptance(i, d, price)
    PROVE  FundingInv'
  <1> DEFINE s == SessionOf[i]
  <1>1. FundingTypeOK /\ Sound(f, WithdrawnBy) /\ WatermarkOK
    BY DEF FundingInv
  <1>2. Sound(f', WithdrawnBy) /\ Serves(f, f', s, i)
    BY <1>1, AcceptanceEffect
  <1>3. /\ s \notin marked /\ item' = [item EXCEPT ![i] = d]
        /\ UNCHANGED <<program, source, marked, rows, cash, payout>>
    BY DEF handleAcceptance
  <1>4. FundingTypeOK'
    BY <1>1, <1>3 DEF FundingTypeOK, Progress
  <1>5. CashConserved' /\ WithdrawnBy' = WithdrawnBy
    BY <1>2, <1>3, CashUntouched DEF FundingInv, Serves
  <1>6. f' \in Rows
    BY <1>2 DEF Sound, RowShape
  <1>7. item' = [item EXCEPT ![i] = item'[i]]
    BY <1>1, <1>3 DEF FundingTypeOK
  <1>8. /\ OnlySource(f, f', s)
        /\ \A j \in Items : SessionOf[j] # s => f'.commit[j].held = f.commit[j].held /\ item'[j] = item[j]
    BY <1>1, <1>2, <1>7, OtherItems
  <1>9. s \in Sessions /\ i \notin Trips
    BY ItemKind
  <1> HIDE DEF s
  <1>10. WatermarkOK'
    <2> SUFFICES ASSUME NEW x \in marked'
                 PROVE  source'[x] = "ENDED" /\ Freed(x)'
      BY DEF WatermarkOK
    <2>1. x \in marked /\ x # s /\ source[x] = "ENDED"
      BY <1>1, <1>3 DEF WatermarkOK
    <2> QED
      BY <1>3, <1>6, <1>8, <2>1, OthersFreed
  <1>11. \A t \in Trips : TripOK(t)'
    BY <1>2, <1>3, <1>9, TripsUntouched
  <1> QED
    BY <1>2, <1>4, <1>5, <1>10, <1>11 DEF FundingInv

\* Holding an item for review keeps the invariant.
LEMMA HoldKeeps ==
    ASSUME FundingInv, NEW i \in Items, holdItemForFraud(i)
    PROVE  FundingInv'
  <1> DEFINE s == SessionOf[i]
             held == IF item[i] \in {"PENDING", "HELD"} THEN "HELD" ELSE "REVIEW"
  <1>1. FundingTypeOK /\ Sound(f, WithdrawnBy) /\ WatermarkOK
    BY DEF FundingInv
  <1>2. /\ Sound(f', WithdrawnBy) /\ Serves(f, f', s, i) /\ f'.res = f.res
        /\ \A e \in Earnings : f'.commit[e].held = f.commit[e].held
    BY <1>1, HoldEffect
  <1>3. /\ item' = [item EXCEPT ![i] = held]
        /\ UNCHANGED <<program, source, marked, rows, cash, payout>>
    BY DEF holdItemForFraud
  <1>4. held \in Progress /\ (item[i] = "REVIEW" => held = "REVIEW")
    BY DEF Progress
  <1> HIDE DEF held
  <1>5. FundingTypeOK'
    BY <1>1, <1>3, <1>4 DEF FundingTypeOK
  <1>6. CashConserved' /\ WithdrawnBy' = WithdrawnBy
    BY <1>2, <1>3, CashUntouched DEF FundingInv, Serves
  <1>7. f' \in Rows
    BY <1>2 DEF Sound, RowShape
  <1>8. \A j \in Items : f'.commit[j].held = f.commit[j].held /\ (item[j] = "REVIEW" => item'[j] = "REVIEW")
    BY <1>1, <1>2, <1>3, <1>4, ItemKind DEF FundingTypeOK
  <1>9. s \in Sessions /\ i \notin Trips
    BY ItemKind
  <1> HIDE DEF s
  <1>10. WatermarkOK'
    <2> SUFFICES ASSUME NEW x \in marked'
                 PROVE  source'[x] = "ENDED" /\ Freed(x)'
      BY DEF WatermarkOK
    <2>1. x \in marked /\ x \in Sessions /\ source[x] = "ENDED" /\ Freed(x)
      BY <1>1, <1>3 DEF WatermarkOK, FundingTypeOK
    <2>2. f'.res[x] = f.res[x]
      BY <1>2
    <2>3. Freed(x)'
      BY <1>1, <1>7, <1>8, <2>1, <2>2, FreedUntouched
    <2> QED
      BY <1>3, <2>1, <2>3
  <1>11. \A t \in Trips : TripOK(t)'
    BY <1>2, <1>3, <1>9, TripsUntouched
  <1> QED
    BY <1>2, <1>5, <1>6, <1>10, <1>11 DEF FundingInv

\* A review's decision settles what was held for it.
LEMMA DecisionKeeps ==
    ASSUME FundingInv, NEW i \in Items, NEW target \in Prices \cup {0}, NEW refused \in BOOLEAN,
           decideDepositReview(i, target, refused)
    PROVE  FundingInv'
  <1> DEFINE s == SessionOf[i]
  <1>1. FundingTypeOK /\ Sound(f, WithdrawnBy) /\ WatermarkOK
    BY DEF FundingInv
  <1>2. /\ Sound(f', WithdrawnBy) /\ Serves(f, f', s, i)
        /\ s \in marked /\ f'.res[s].status = "ACTIVE" => sessionReviewExposure(f', s, item') # 0
    BY <1>1, DecisionEffect
  <1>3. /\ item' = [item EXCEPT ![i] = "CLOSED"]
        /\ UNCHANGED <<program, source, marked, rows, cash, payout>>
    BY DEF decideDepositReview
  <1>4. FundingTypeOK'
    BY <1>1, <1>3 DEF FundingTypeOK, Progress
  <1>5. CashConserved' /\ WithdrawnBy' = WithdrawnBy
    BY <1>2, <1>3, CashUntouched DEF FundingInv, Serves
  <1>6. f' \in Rows
    BY <1>2 DEF Sound, RowShape
  <1>7. item' = [item EXCEPT ![i] = item'[i]]
    BY <1>1, <1>3 DEF FundingTypeOK
  <1>8. /\ OnlySource(f, f', s)
        /\ \A j \in Items : SessionOf[j] # s => f'.commit[j].held = f.commit[j].held /\ item'[j] = item[j]
    BY <1>1, <1>2, <1>7, OtherItems
  <1>9. s \in Sessions /\ i \notin Trips
    BY ItemKind
  <1> HIDE DEF s
  <1>10. WatermarkOK'
    <2> SUFFICES ASSUME NEW x \in marked'
                 PROVE  source'[x] = "ENDED" /\ Freed(x)'
      BY DEF WatermarkOK
    <2>1. x \in marked /\ source'[x] = "ENDED"
      BY <1>1, <1>3 DEF WatermarkOK
    <2>2. CASE x = s
      <3>1. sessionReviewExposure(f', s, item') \in Nat
        BY <1>6, DrawingType
      <3> QED
        BY <1>2, <2>1, <2>2, <3>1 DEF Freed
    <2>3. CASE x # s
      BY <1>6, <1>8, <2>1, <2>3, OthersFreed
    <2> QED
      BY <2>1, <2>2, <2>3
  <1>11. \A t \in Trips : TripOK(t)'
    BY <1>2, <1>3, <1>9, TripsUntouched
  <1> QED
    BY <1>2, <1>4, <1>5, <1>10, <1>11 DEF FundingInv

-----------------------------------------------------------------------------
(* Trips.                                                                  *)

\* Every watermarked session is untouched when a trip is served.
LEMMA TripServed ==
    ASSUME FundingInv, NEW t \in Trips, Serves(f, f', t, t), f' \in Rows,
           UNCHANGED <<marked, item>>, \A s \in Sessions : source'[s] = source[s]
    PROVE  WatermarkOK'
  <1> SUFFICES ASSUME NEW x \in marked'
               PROVE  source'[x] = "ENDED" /\ Freed(x)'
    BY DEF WatermarkOK
  <1>1. x \in marked /\ x \in Sessions /\ source[x] = "ENDED" /\ x # t
    BY SessionKind DEF FundingInv, WatermarkOK, FundingTypeOK
  <1>2. \A i \in Items : f'.commit[i].held = f.commit[i].held /\ item'[i] = item[i]
    BY ItemKind DEF Serves, OnlyEarning
  <1>3. OnlySource(f, f', t)
    BY DEF Serves
  <1> QED
    BY <1>1, <1>2, <1>3, OthersFreed

\* Nothing is committed under a trip that has not completed.
LEMMA TripUncommitted ==
    ASSUME NEW g, RowShape(g), NEW t \in Trips, ~g.commit[t].exists
    PROVE  CommittedUnder(g, t) = 0
  <1> DEFINE row == [e \in Earnings |-> IF SourceOf(e) = t THEN g.commit[e].held ELSE 0]
  <1>1. g.commit[t].held = 0
    BY TripKind DEF RowShape, CommitShape, NoCommit
  <1>2. \A e \in Earnings : row[e] = 0
    BY <1>1, TripEarning
  <1>3. CommittedUnder(g, t) = SumFunctionOnSet(row, Earnings)
    BY DEF CommittedUnder, SumFunction
  <1> HIDE DEF row
  <1> QED
    BY <1>2, <1>3, RowsFinite, SumZero

\* reserveRewardBudget makes a trip's reservation whole.
LEMMA TripReserved ==
    ASSUME NEW g, RowShape(g), NEW t \in Trips, NEW ceiling \in Nat, MayReserve(g, t, ceiling),
           ~g.commit[t].exists, g.res[t].status = "ACTIVE" => g.res[t].remaining = g.res[t].ceiling,
           NEW h, h = reserveRewardBudget(g, t, ceiling)
    PROVE  /\ h.res[t].status = "ACTIVE" /\ h.res[t].ceiling >= ceiling
           /\ h.res[t].remaining = h.res[t].ceiling /\ h.res[t].late = g.res[t].late
  <1>1. t \in Sources /\ g.res[t] \in ReservationRow /\ ResShape(g.res[t])
    BY TripKind DEF RowShape, Rows
  <1>2. h.res[t] = IF AlreadyReserved(g, t, ceiling) THEN g.res[t] ELSE Reserved(g, t, ceiling)
    BY <1>1, ReservePosting
  <1>3. CASE AlreadyReserved(g, t, ceiling)
    BY <1>2, <1>3 DEF AlreadyReserved
  <1>4. CASE ~AlreadyReserved(g, t, ceiling)
    <2> DEFINE delta == ReserveDelta(g, t, ceiling)
               left == IF g.res[t].status = "RELEASED" THEN delta ELSE g.res[t].remaining + delta
    <2>1. h.res[t] = Reserved(g, t, ceiling)
      BY <1>2, <1>4
    <2>2. /\ Reserved(g, t, ceiling).status = "ACTIVE" /\ Reserved(g, t, ceiling).ceiling = ceiling
          /\ Reserved(g, t, ceiling).late = g.res[t].late
          /\ Reserved(g, t, ceiling).remaining = left
      BY <1>1 DEF Reserved, ReservationRow
    <2>3. g.res[t].remaining \in Nat /\ g.res[t].ceiling \in Nat
      BY <1>1 DEF ReservationRow
    <2>4. CommittedUnder(g, t) = 0
      BY TripUncommitted
    <2>5. left = ceiling
      <3>1. CASE g.res[t].status = "RELEASED"
        BY <2>4, <3>1 DEF ReserveDelta, Most
      <3>2. CASE g.res[t].status = "ACTIVE"
        BY <2>3, <3>2 DEF ReserveDelta
      <3>3. CASE g.res[t].status = "NONE"
        <4>1. g.res[t].remaining = 0 /\ g.res[t].ceiling = 0
          BY <1>1, <3>3 DEF ResShape, NoReservation
        <4> QED
          BY <3>3, <4>1 DEF ReserveDelta
      <3> QED
        BY <1>1, <3>1, <3>2, <3>3 DEF ReservationRow
    <2> HIDE DEF left
    <2> QED
      BY <2>1, <2>2, <2>5
  <1> QED
    BY <1>3, <1>4

\* A trip's ceiling is a number, and grows with the multiplier.
LEMMA TripCeilingType ==
    ASSUME FundingTypeOK, NEW t \in Trips, NEW n \in Nat
    PROVE  /\ TripCeiling(t, n) \in Nat /\ CampaignOf[t] \in Campaigns
           /\ program[CampaignOf[t]].mult \in Nat /\ program[CampaignOf[t]].money \in BOOLEAN
  <1>1. CampaignOf[t] \in Campaigns
    BY FundingConstants, TripKind
  <1>2. program[CampaignOf[t]].mult \in Nat
    BY <1>1, FundingConstants DEF FundingTypeOK
  <1>3. program[CampaignOf[t]].money \in BOOLEAN
    BY <1>1 DEF FundingTypeOK
  <1>4. \A m \in Nat : n * m \in Nat
    OBVIOUS
  <1> QED
    BY <1>1, <1>2, <1>3, <1>4 DEF TripCeiling

\* reserveTripIssuance for a trip that has not completed.
LEMMA IssuanceEffect ==
    ASSUME FundingInv, NEW t \in Trips, source[t] # "COMPLETED", NEW n \in Nat, ReserveTripIssuance(t, n)
    PROVE  /\ Sound(f', WithdrawnBy) /\ f'.commit = f.commit /\ Serves(f, f', t, t)
           /\ f'.res[t].late = f.res[t].late
           /\ f'.res[t].status = "ACTIVE" => f'.res[t].remaining = f'.res[t].ceiling
           /\ PaysFor(t, n) => f'.res[t].status = "ACTIVE" /\ f'.res[t].ceiling >= TripCeiling(t, n)
  <1>1. /\ FundingTypeOK /\ Sound(f, WithdrawnBy) /\ RowShape(f) /\ WithdrawnBy \in [Orgs -> Nat]
        /\ TripOK(t) /\ t \in Sources
    BY WithdrawnType, TripKind DEF FundingInv, Sound
  <1>2. /\ ~f.commit[t].exists
        /\ f.res[t].status = "ACTIVE" => f.res[t].remaining = f.res[t].ceiling
    BY <1>1 DEF TripOK
  <1>3. CASE PaysFor(t, n)
    <2> DEFINE ceiling == TripCeiling(t, n)
    <2>1. ceiling \in Nat
      BY <1>1, TripCeilingType
    <2>2. MayReserve(f, t, ceiling) /\ f' = reserveRewardBudget(f, t, ceiling)
      BY <1>3 DEF ReserveTripIssuance
    <2> HIDE DEF ceiling
    <2>3. SourcePosting(f, f', t) /\ RowShape(f')
      BY <1>1, <2>1, <2>2, ReservePosting
    <2>4. Sound(f', WithdrawnBy) /\ \A e : Serves(f, f', t, e)
      BY <1>1, <2>3, SourceSound
    <2>5. f'.commit = f.commit
      BY <2>3 DEF SourcePosting
    <2>6. /\ f'.res[t].status = "ACTIVE" /\ f'.res[t].ceiling >= ceiling
          /\ f'.res[t].remaining = f'.res[t].ceiling /\ f'.res[t].late = f.res[t].late
      BY <1>1, <1>2, <2>1, <2>2, TripReserved
    <2> QED
      BY <2>4, <2>5, <2>6 DEF ceiling
  <1>4. CASE ~PaysFor(t, n)
    <2>1. f' = f
      BY <1>4 DEF ReserveTripIssuance
    <2> QED
      BY <1>1, <1>2, <1>4, <2>1 DEF Serves, OnlySource, OnlyEarning
  <1> QED
    BY <1>3, <1>4

\* A trip action whose effect on its own trip is known keeps the invariant.
LEMMA TripKeeps ==
    ASSUME FundingInv, NEW t \in Trips, Sound(f', WithdrawnBy), Serves(f, f', t, t), TripOK(t)',
           UNCHANGED <<program, marked, item, cash, payout>>,
           NEW status \in Statuses, source' = [source EXCEPT ![t] = status],
           NEW n \in Nat, rows' = [rows EXCEPT ![t] = n]
    PROVE  FundingInv'
  <1>1. FundingTypeOK /\ Sound(f, WithdrawnBy) /\ t \in Sources
    BY TripKind DEF FundingInv
  <1>2. FundingTypeOK'
    BY <1>1 DEF FundingTypeOK
  <1>3. CashConserved' /\ WithdrawnBy' = WithdrawnBy
    BY CashUntouched DEF FundingInv, Serves
  <1>4. f' \in Rows
    BY DEF Sound, RowShape
  <1>5. \A s \in Sessions : source'[s] = source[s]
    BY <1>1, SessionKind DEF FundingTypeOK
  <1>6. WatermarkOK'
    BY <1>4, <1>5, TripServed
  <1>7. ASSUME NEW x \in Trips
        PROVE  TripOK(x)'
    <2>1. CASE x = t
      BY <2>1
    <2>2. CASE x # t
      <3>1. source'[x] = source[x] /\ rows'[x] = rows[x] /\ TripOK(x)
        BY <1>1, <2>2, TripKind DEF FundingTypeOK, FundingInv
      <3> QED
        BY <2>2, <3>1, TripUntouched
    <2> QED
      BY <2>1, <2>2
  <1> QED
    BY <1>2, <1>3, <1>6, <1>7 DEF FundingInv

\* Issuing bags reserves for them.
LEMMA IssueKeeps ==
    ASSUME FundingInv, NEW t \in Trips, issueTrashBags(t)
    PROVE  FundingInv'
  <1> DEFINE n == rows[t] + 1
  <1>1. FundingTypeOK /\ TripOK(t) /\ t \in Sources
    BY TripKind DEF FundingInv
  <1>2. n \in Nat
    BY <1>1 DEF FundingTypeOK
  <1>3. /\ source[t] = "OPEN" /\ ReserveTripIssuance(t, n) /\ rows' = [rows EXCEPT ![t] = n]
        /\ UNCHANGED <<program, source, marked, item, cash, payout>>
    BY <1>1 DEF issueTrashBags, FundingTypeOK
  <1> HIDE DEF n
  <1>4. /\ Sound(f', WithdrawnBy) /\ f'.commit = f.commit /\ Serves(f, f', t, t)
        /\ f'.res[t].late = f.res[t].late
        /\ f'.res[t].status = "ACTIVE" => f'.res[t].remaining = f'.res[t].ceiling
        /\ PaysFor(t, n) => f'.res[t].status = "ACTIVE" /\ f'.res[t].ceiling >= TripCeiling(t, n)
    BY <1>2, <1>3, IssuanceEffect
  <1>5. rows'[t] = n /\ source' = [source EXCEPT ![t] = "OPEN"] /\ "OPEN" \in Statuses
    BY <1>1, <1>3 DEF FundingTypeOK, Statuses
  <1>6. TripOK(t)'
    BY <1>1, <1>3, <1>4, <1>5 DEF TripOK, PaysFor, TripCeiling
  <1> QED
    BY <1>2, <1>3, <1>4, <1>5, <1>6, TripKeeps

\* Reopening a trip keeps the invariant.
LEMMA ReopenKeeps ==
    ASSUME FundingInv, NEW t \in Trips, reopenTrip(t)
    PROVE  FundingInv'
  <1> DEFINE n == rows[t]
  <1>1. FundingTypeOK /\ TripOK(t) /\ t \in Sources
    BY TripKind DEF FundingInv
  <1>2. n \in Nat
    BY <1>1 DEF FundingTypeOK
  <1>3. /\ source[t] = "CANCELLED" /\ ReserveTripIssuance(t, n) /\ source' = [source EXCEPT ![t] = "OPEN"]
        /\ UNCHANGED <<program, marked, rows, item, cash, payout>>
    BY DEF reopenTrip
  <1>4. rows' = [rows EXCEPT ![t] = n] /\ rows'[t] = n /\ source'[t] = "OPEN" /\ "OPEN" \in Statuses
    BY <1>1, <1>3 DEF FundingTypeOK, Statuses
  <1> HIDE DEF n
  <1>5. /\ Sound(f', WithdrawnBy) /\ f'.commit = f.commit /\ Serves(f, f', t, t)
        /\ f'.res[t].late = f.res[t].late
        /\ f'.res[t].status = "ACTIVE" => f'.res[t].remaining = f'.res[t].ceiling
        /\ PaysFor(t, n) => f'.res[t].status = "ACTIVE" /\ f'.res[t].ceiling >= TripCeiling(t, n)
    BY <1>2, <1>3, IssuanceEffect
  <1>6. TripOK(t)'
    BY <1>1, <1>3, <1>4, <1>5 DEF TripOK, PaysFor, TripCeiling
  <1> QED
    BY <1>2, <1>3, <1>4, <1>5, <1>6, TripKeeps

\* Cancelling a trip releases its reservation.
LEMMA CancelKeeps ==
    ASSUME FundingInv, NEW t \in Trips, cancelTrip(t)
    PROVE  FundingInv'
  <1> DEFINE n == rows[t]
  <1>1. /\ FundingTypeOK /\ TripOK(t) /\ t \in Sources /\ Sound(f, WithdrawnBy)
        /\ WithdrawnBy \in [Orgs -> Nat]
    BY TripKind, WithdrawnType DEF FundingInv
  <1>2. /\ source[t] = "OPEN" /\ source' = [source EXCEPT ![t] = "CANCELLED"] /\ f' = closeReservation(f, t)
        /\ UNCHANGED <<program, marked, rows, item, cash, payout>>
    BY DEF cancelTrip
  <1>3. /\ Sound(f', WithdrawnBy) /\ f'.commit = f.commit /\ Serves(f, f', t, t)
        /\ f'.res[t].status # "ACTIVE" /\ f'.res[t].late = f.res[t].late
    BY <1>1, <1>2, CloseSound
  <1>4. n \in Nat /\ rows' = [rows EXCEPT ![t] = n] /\ source'[t] = "CANCELLED" /\ "CANCELLED" \in Statuses
    BY <1>1, <1>2 DEF FundingTypeOK, Statuses
  <1> HIDE DEF n
  <1>5. TripOK(t)'
    BY <1>1, <1>2, <1>3, <1>4 DEF TripOK
  <1> QED
    BY <1>2, <1>3, <1>4, <1>5, TripKeeps

\* A completed trip's reward is drawn from what its reservation still has.
LEMMA CompleteKeeps ==
    ASSUME FundingInv, NEW t \in Trips, NEW amount \in 0..(MaxRows * MaxMult), completeTrip(t, amount)
    PROVE  FundingInv'
  <1> DEFINE n == rows[t]
             m == checkRewardFunding(f, t, amount, FALSE)
  <1>1. /\ FundingTypeOK /\ TripOK(t) /\ t \in Sources /\ t \in Earnings /\ SourceOf(t) = t
        /\ Sound(f, WithdrawnBy) /\ RowShape(f) /\ WithdrawnBy \in [Orgs -> Nat]
    BY TripKind, WithdrawnType DEF FundingInv, Sound
  <1>2. /\ source[t] = "OPEN" /\ source' = [source EXCEPT ![t] = "COMPLETED"]
        /\ amount <= (IF PaysFor(t, n) THEN TripCeiling(t, n) ELSE 0)
        /\ f' = closeReservation(m, t)
        /\ UNCHANGED <<program, marked, rows, item, cash, payout>>
    BY DEF completeTrip
  <1>3. amount \in Nat /\ n \in Nat
    BY <1>1 DEF FundingTypeOK
  <1>4. n \in Nat /\ rows' = [rows EXCEPT ![t] = n] /\ source'[t] = "COMPLETED" /\ "COMPLETED" \in Statuses
    BY <1>1, <1>2 DEF FundingTypeOK, Statuses
  <1>5. Sound(m, WithdrawnBy) /\ Serves(f, m, t, t)
    BY <1>1, <1>3, CheckedSound
  <1>6. ASSUME Enforced
        PROVE  m.commit[t].uncovered = 0 /\ ~m.res[t].late
    <2>1. f.commit[t].uncovered = 0 /\ ~f.res[t].late
      BY <1>1, <1>6 DEF TripOK
    <2>2. CASE amount <= 0
      <3>1. m = f
        BY <2>2 DEF checkRewardFunding
      <3> QED
        BY <2>1, <3>1
    <2>3. CASE ~(amount <= 0)
      <3>1. PaysFor(t, n) /\ amount <= TripCeiling(t, n) /\ TripCeiling(t, n) \in Nat
        BY <1>1, <1>2, <1>3, <2>3, TripCeilingType
      <3>2. /\ f.res[t].status = "ACTIVE" /\ f.res[t].ceiling >= TripCeiling(t, n)
            /\ f.res[t].remaining = f.res[t].ceiling /\ ~f.commit[t].exists
        BY <1>1, <1>2, <1>6, <3>1 DEF TripOK
      <3>3. resolveSourceReservation(f, t) = f
        BY <3>2 DEF resolveSourceReservation
      <3>4. m = commitRewardAgainstBudget(f, t, amount, FALSE)
        BY <1>1, <2>3, <3>3 DEF checkRewardFunding
      <3>5. f.res[t].ceiling \in Nat
        BY <1>1 DEF RowShape, Rows, ReservationRow
      <3>6. UncoveredBy(f, t, amount) = 0
        BY <1>3, <3>1, <3>2, <3>5 DEF UncoveredBy, Least
      <3> DEFINE pending == FALSE
      <3>7. m = commitRewardAgainstBudget(f, t, amount, pending) /\ pending \in BOOLEAN
        BY <3>4
      <3> HIDE DEF m, pending
      <3>8. /\ m.commit[t] = [exists |-> TRUE, held |-> amount, paid |-> 0,
                              uncovered |-> UncoveredBy(f, SourceOf(t), amount), pending |-> pending]
            /\ m.res[SourceOf(t)].late = f.res[SourceOf(t)].late
        BY <1>1, <1>3, <3>2, <3>7, CommitPosting
      <3> QED
        BY <1>1, <2>1, <3>6, <3>8
    <2> QED
      BY <2>2, <2>3
  <1> HIDE DEF n, m
  <1>7. /\ Sound(f', WithdrawnBy) /\ f'.commit = m.commit /\ Serves(m, f', t, t)
        /\ f'.res[t].status # "ACTIVE" /\ f'.res[t].late = m.res[t].late
    BY <1>1, <1>2, <1>5, CloseSound
  <1>8. Serves(f, f', t, t)
    BY <1>5, <1>7, ServesBoth
  <1>9. TripOK(t)'
    BY <1>4, <1>6, <1>7 DEF TripOK
  <1> QED
    BY <1>2, <1>4, <1>7, <1>8, <1>9, TripKeeps

-----------------------------------------------------------------------------
(* Operators.                                                              *)

\* The residue of an ended source is released with its reservation.
LEMMA ResidualKeeps ==
    ASSUME FundingInv, NEW s \in Sources, releaseResidualReservation(s)
    PROVE  FundingInv'
  <1> DEFINE close == TRUE
             amount == f.res[s].remaining
  <1>1. /\ FundingTypeOK /\ Sound(f, WithdrawnBy) /\ WatermarkOK /\ f \in Rows
        /\ WithdrawnBy \in [Orgs -> Nat]
    BY WithdrawnType DEF FundingInv, Sound, RowShape
  <1>2. /\ f.res[s].status = "ACTIVE" /\ source[s] # "OPEN"
        /\ f' = releaseUnusedRewardBudget(f, s, amount, close)
        /\ UNCHANGED <<program, source, marked, rows, item, cash, payout>>
    BY DEF releaseResidualReservation
  <1>3. amount \in Nat /\ close \in BOOLEAN /\ close /\ (close => amount = f.res[s].remaining)
    <2>1. amount \in Nat
      BY <1>1 DEF Rows, ReservationRow
    <2> QED
      BY <2>1
  <1> HIDE DEF close, amount
  <1>4. Releases(f, f', WithdrawnBy, s, close)
    BY <1>1, <1>2, <1>3, ClosedSound
  <1>5. /\ Sound(f', WithdrawnBy) /\ f'.commit = f.commit /\ Serves(f, f', s, s)
        /\ f'.res[s].status = "RELEASED" /\ f'.res[s].late = f.res[s].late
    BY <1>3, <1>4 DEF Releases
  <1>6. CashConserved' /\ WithdrawnBy' = WithdrawnBy
    BY <1>2, <1>5, CashUntouched DEF FundingInv, Serves
  <1>7. FundingTypeOK'
    BY <1>1, <1>2 DEF FundingTypeOK
  <1>8. f' \in Rows /\ OnlySource(f, f', s)
    BY <1>5 DEF Sound, RowShape, Serves
  <1>9. WatermarkOK'
    <2> SUFFICES ASSUME NEW x \in marked'
                 PROVE  source'[x] = "ENDED" /\ Freed(x)'
      BY DEF WatermarkOK
    <2>1. x \in marked /\ source'[x] = "ENDED"
      BY <1>1, <1>2 DEF WatermarkOK
    <2>2. CASE x = s
      BY <1>5, <2>1, <2>2 DEF Freed
    <2>3. CASE x # s
      BY <1>2, <1>5, <1>8, <2>1, <2>3, OthersFreed
    <2> QED
      BY <2>1, <2>2, <2>3
  <1>10. ASSUME NEW t \in Trips
         PROVE  TripOK(t)'
    <2>1. TripOK(t)
      BY DEF FundingInv
    <2>2. CASE t = s
      BY <1>2, <1>5, <2>1, <2>2 DEF TripOK
    <2>3. CASE t # s
      BY <1>2, <1>5, <2>1, <2>3, TripUntouched
    <2> QED
      BY <2>2, <2>3
  <1> QED
    BY <1>5, <1>6, <1>7, <1>9, <1>10 DEF FundingInv

\* A program raised while bags are out would owe more than their trip reserved:
\* the guard refuses it, so the open trips' ceilings only fall.
LEMMA UpdateProgramKeeps ==
    ASSUME FundingInv, NEW c \in Campaigns, NEW next \in [money : BOOLEAN, mult : 1..MaxMult],
           updateProgram(c, next)
    PROVE  FundingInv'
  <1>1. FundingTypeOK /\ Sound(f, WithdrawnBy) /\ WatermarkOK
    BY DEF FundingInv
  <1>2. /\ guardProgramRewardChange(c, next) /\ program' = [program EXCEPT ![c] = next]
        /\ UNCHANGED <<f, source, marked, rows, item, cash, payout>>
    BY DEF updateProgram
  <1>3. FundingTypeOK'
    BY <1>1, <1>2 DEF FundingTypeOK
  <1>4. CashConserved' /\ WithdrawnBy' = WithdrawnBy
    BY <1>2, CashUntouched DEF FundingInv
  <1>5. WatermarkOK'
    BY <1>1, <1>2 DEF WatermarkOK, Freed, sessionReviewExposure
  <1>6. ASSUME NEW t \in Trips
        PROVE  TripOK(t)'
    <2> DEFINE d == CampaignOf[t]
               n == rows[t]
    <2>1. TripOK(t) /\ n \in Nat /\ d \in Campaigns /\ t \in Sources
      BY <1>1, TripKind, TripCeilingType DEF FundingInv, FundingTypeOK
    <2>2. program[d].mult \in Nat /\ program'[d].mult \in Nat
      BY <1>1, <1>3, <2>1, FundingConstants DEF FundingTypeOK
    <2>3. ASSUME Enforced, source[t] = "OPEN", PaysFor(t, n)'
          PROVE  PaysFor(t, n) /\ program'[d].mult <= program[d].mult
      <3>1. n > 0 /\ program'[d].money
        BY <1>2, <2>3 DEF PaysFor
      <3>2. CASE d = c
        <4>1. hasOpenProgramSources(c)
          BY <2>3, <3>1, <3>2 DEF hasOpenProgramSources
        <4>2. program'[d] = next
          BY <1>1, <1>2, <2>1, <3>2 DEF FundingTypeOK
        <4>3. program[d].money /\ ~(next.mult > program[d].mult)
          BY <1>2, <2>3, <3>1, <3>2, <4>1, <4>2 DEF guardProgramRewardChange
        <4> QED
          BY <2>2, <3>1, <4>2, <4>3 DEF PaysFor
      <3>3. CASE d # c
        <4>1. program'[d] = program[d]
          BY <1>1, <1>2, <2>1, <3>3 DEF FundingTypeOK
        <4> QED
          BY <2>2, <3>1, <4>1 DEF PaysFor
      <3> QED
        BY <3>2, <3>3
    <2>4. ASSUME Enforced, source[t] = "OPEN", PaysFor(t, n)'
          PROVE  f.res[t].status = "ACTIVE" /\ f.res[t].ceiling >= TripCeiling(t, n)'
      <3>1. f.res[t].status = "ACTIVE" /\ f.res[t].ceiling >= n * program[d].mult
        BY <2>1, <2>3, <2>4 DEF TripOK, TripCeiling
      <3>2. \A a, b \in Nat : a <= b => n * a <= n * b /\ n * a \in Nat /\ n * b \in Nat
        BY <2>1
      <3>3. n * program'[d].mult <= n * program[d].mult /\ n * program'[d].mult \in Nat
            /\ n * program[d].mult \in Nat
        BY <2>2, <2>3, <2>4, <3>2
      <3>4. f.res[t].ceiling \in Nat
        BY <1>1, <2>1 DEF Sound, RowShape, Rows, ReservationRow
      <3>5. TripCeiling(t, n)' = n * program'[d].mult
        BY <1>2 DEF TripCeiling
      <3> HIDE DEF n, d
      <3> QED
        BY <3>1, <3>3, <3>4, <3>5
    <2>5. n' = n
      BY <1>2
    <2> QED
      BY <1>2, <2>1, <2>4, <2>5 DEF TripOK
  <1>7. Sound(f', WithdrawnBy)
    BY <1>1, <1>2
  <1> QED
    BY <1>3, <1>4, <1>5, <1>6, <1>7 DEF FundingInv

-----------------------------------------------------------------------------
(* Cash entries and payouts.                                               *)

\* What was recorded for an organization, and what payouts took from it.
Recorded(o) == SumFunction([k \in DOMAIN cash |-> IF cash[k].org = o THEN cash[k].amount ELSE 0])
Disbursed(o) == SumFunction([rd \in Payouts |-> payout[rd][o]])

\* The totals are integers.
LEMMA CashTypes ==
    ASSUME FundingTypeOK, NEW o \in Orgs
    PROVE  Recorded(o) \in Int /\ Disbursed(o) \in Nat /\ Withdrawn(o) \in Nat
  <1> DEFINE row == [k \in Entries |-> IF cash[k].org = o THEN cash[k].amount ELSE 0]
             drawn == [rd \in Payouts |-> payout[rd][o]]
  <1>1. DOMAIN cash = Entries /\ \A k \in Entries : cash[k].amount \in Int
    BY DEF FundingTypeOK
  <1>2. \A k \in Entries : row[k] \in Int
    BY <1>1
  <1>3. \A rd \in Payouts : drawn[rd] \in Nat
    BY DEF FundingTypeOK
  <1>4. Recorded(o) = SumFunctionOnSet(row, Entries)
    BY <1>1 DEF Recorded, SumFunction
  <1>5. Disbursed(o) = SumFunctionOnSet(drawn, Payouts)
    BY DEF Disbursed, SumFunction
  <1> HIDE DEF row, drawn
  <1>6. Recorded(o) \in Int
    BY <1>2, <1>4, EntriesFinite, SumType
  <1>7. Disbursed(o) \in Nat
    BY <1>3, <1>5, FundingConstants, SumNat
  <1>8. Withdrawn(o) \in Nat
    BY WithdrawnType DEF WithdrawnBy
  <1> QED
    BY <1>6, <1>7, <1>8

\* A slot that is filled adds its amount, and is a withdrawal when negative.
LEMMA EntryFilled ==
    ASSUME FundingTypeOK, NEW key \in Entries, cash[key] = NoEntry,
           NEW o \in Orgs, NEW amount \in Int,
           cash' = [cash EXCEPT ![key] = [org |-> o, amount |-> amount]], NEW p \in Orgs
    PROVE  /\ Recorded(p)' = Recorded(p) + (IF p = o THEN amount ELSE 0)
           /\ Withdrawn(p)' = Withdrawn(p) + (IF p = o /\ amount < 0 THEN -amount ELSE 0)
  <1> DEFINE F == [k \in Entries |-> IF cash[k].org = p THEN cash[k].amount ELSE 0]
             G == [k \in Entries |-> IF cash'[k].org = p THEN cash'[k].amount ELSE 0]
             U == [k \in Entries |-> IF cash[k].org = p /\ cash[k].amount < 0 THEN -cash[k].amount ELSE 0]
             V == [k \in Entries |-> IF cash'[k].org = p /\ cash'[k].amount < 0 THEN -cash'[k].amount ELSE 0]
  <1>1. DOMAIN cash = Entries /\ \A k \in Entries : cash[k].amount \in Int
    BY DEF FundingTypeOK
  <1>2. /\ DOMAIN cash' = Entries /\ cash'[key].org = o /\ cash'[key].amount = amount
        /\ \A k \in Entries \ {key} : cash'[k] = cash[k]
    BY <1>1 DEF FundingTypeOK
  <1>3. cash[key].org = NoOrg /\ p # NoOrg
    BY FundingConstants DEF NoEntry
  <1>4. \A k \in Entries : cash'[k].amount \in Int
    BY <1>1, <1>2
  <1>5. \A k \in Entries : F[k] \in Int /\ G[k] \in Int /\ U[k] \in Int /\ V[k] \in Int
    BY <1>1, <1>4
  <1>6. \A k \in Entries \ {key} : G[k] = F[k] /\ V[k] = U[k]
    BY <1>2
  <1>7. F[key] = 0 /\ U[key] = 0 /\ G[key] = (IF p = o THEN amount ELSE 0)
        /\ V[key] = (IF p = o /\ amount < 0 THEN -amount ELSE 0)
    BY <1>2, <1>3
  <1>8. Recorded(p) = SumFunctionOnSet(F, Entries) /\ Recorded(p)' = SumFunctionOnSet(G, Entries)
    BY <1>1, <1>2 DEF Recorded, SumFunction
  <1>9. Withdrawn(p) = SumFunctionOnSet(U, Entries) /\ Withdrawn(p)' = SumFunctionOnSet(V, Entries)
    BY <1>1, <1>2 DEF Withdrawn, SumFunction
  <1> HIDE DEF F, G, U, V
  <1>10. SumFunctionOnSet(G, Entries) = SumFunctionOnSet(F, Entries) + G[key] - F[key]
    BY <1>5, <1>6, EntriesFinite, SumChange
  <1>11. SumFunctionOnSet(V, Entries) = SumFunctionOnSet(U, Entries) + V[key] - U[key]
    BY <1>5, <1>6, EntriesFinite, SumChange
  <1>12. SumFunctionOnSet(F, Entries) \in Int /\ SumFunctionOnSet(U, Entries) \in Int
    BY <1>5, EntriesFinite, SumType
  <1>13. G[key] \in Int /\ V[key] \in Int
    BY <1>5
  <1> QED
    BY <1>7, <1>8, <1>9, <1>10, <1>11, <1>12, <1>13

\* A recorded entry moves confirmed cash by what it says; what it withdraws is
\* on record.
LEMMA RecordKeeps ==
    ASSUME FundingInv, NEW o \in Orgs, NEW ref \in Refs, NEW amount \in CashAmounts,
           recordFundingEntry(o, ref, amount)
    PROVE  FundingInv'
  <1> DEFINE key == <<IF amount > 0 THEN "cash" ELSE "correction", ref>>
  <1>1. FundingTypeOK /\ Sound(f, WithdrawnBy) /\ WatermarkOK /\ f \in Rows /\ CashConserved
    BY DEF FundingInv, Sound, RowShape
  <1>2. /\ cash[key] = NoEntry
        /\ cash' = [cash EXCEPT ![key] = [org |-> o, amount |-> amount]]
        /\ f' = bumpAccount(f, o, amount, 0)
        /\ UNCHANGED <<program, source, marked, rows, item, payout>>
    BY DEF recordFundingEntry, Unrecorded
  <1>3. key \in Entries
    BY DEF Entries
  <1>4. amount \in Int /\ 0 \in Int
    BY FundingConstants
  <1> HIDE DEF key
  <1>5. FundingTypeOK'
    <2>1. cash' \in [Entries -> [org : Orgs \cup {NoOrg}, amount : Int]]
      BY <1>1, <1>2, <1>3, <1>4 DEF FundingTypeOK
    <2> QED
      BY <1>1, <1>2, <2>1 DEF FundingTypeOK
  <1>6. /\ f' \in Rows /\ f'.campaign = f.campaign /\ f'.res = f.res
        /\ f'.commit = f.commit /\ f'.order = f.order
        /\ \A p \in Orgs :
              /\ f'.account[p].confirmed = f.account[p].confirmed + (IF p = o THEN amount ELSE 0)
              /\ f'.account[p].held = f.account[p].held + (IF p = o THEN 0 ELSE 0)
    BY <1>1, <1>2, <1>4, BumpedAccount
  <1>7. \A p \in Orgs : f.account[p].confirmed \in Int /\ f.account[p].held \in Int
    BY <1>1 DEF Rows, AccountRow
  <1>8. \A p \in Orgs : f'.account[p].held = f.account[p].held
    BY <1>6, <1>7
  <1>9. ASSUME NEW p \in Orgs
        PROVE  /\ Recorded(p)' = Recorded(p) + (IF p = o THEN amount ELSE 0)
               /\ Withdrawn(p)' = Withdrawn(p) + (IF p = o /\ amount < 0 THEN -amount ELSE 0)
               /\ Disbursed(p)' = Disbursed(p)
               /\ Recorded(p) \in Int /\ Disbursed(p) \in Nat /\ Withdrawn(p) \in Nat
    <2>1. Recorded(p) \in Int /\ Disbursed(p) \in Nat /\ Withdrawn(p) \in Nat
      BY <1>1, CashTypes
    <2>2. Disbursed(p)' = Disbursed(p)
      BY <1>2 DEF Disbursed
    <2>3. /\ Recorded(p)' = Recorded(p) + (IF p = o THEN amount ELSE 0)
          /\ Withdrawn(p)' = Withdrawn(p) + (IF p = o /\ amount < 0 THEN -amount ELSE 0)
      BY <1>1, <1>2, <1>3, <1>4, EntryFilled
    <2> QED
      BY <2>1, <2>2, <2>3
  <1>10. CashConserved'
    <2> SUFFICES ASSUME NEW p \in Orgs
                 PROVE  f'.account[p].confirmed = Recorded(p)' - Disbursed(p)'
      BY DEF CashConserved, Recorded, Disbursed
    <2>1. f.account[p].confirmed = Recorded(p) - Disbursed(p)
      BY <1>1 DEF CashConserved, Recorded, Disbursed
    <2>2. f'.account[p].confirmed = f.account[p].confirmed + (IF p = o THEN amount ELSE 0)
      BY <1>6
    <2> QED
      BY <1>4, <1>9, <2>1, <2>2
  <1>11. Sound(f', WithdrawnBy')
    <2>1. RowShape(f')
      BY <1>1, <1>6 DEF Sound, RowShape, OrderShape
    <2>2. AccountsAgree(f') /\ CampaignsAgree(f')
      BY <1>1, <1>6, <1>8 DEF Sound, AccountsAgree, CampaignsAgree, Remaining, HeldFor, PaidOut
    <2>3. Within(f', WithdrawnBy')
      <3> SUFFICES ASSUME NEW p \in Orgs
                   PROVE  f'.account[p].held - f'.account[p].confirmed <= Reported(f', p) + WithdrawnBy'[p]
        BY DEF Within
      <3>1. Reported(f', p) = Reported(f, p)
        BY <1>6 DEF Reported, UncoveredOf, Short
      <3>2. WithdrawnBy'[p] = Withdrawn(p)' /\ WithdrawnBy[p] = Withdrawn(p)
        BY DEF WithdrawnBy
      <3>3. f.account[p].held - f.account[p].confirmed <= Reported(f, p) + Withdrawn(p)
        BY <1>1, <3>2 DEF Sound, Within
      <3>4. Reported(f, p) \in Int
        BY <1>1, TotalTypes DEF Reported
      <3>5. f'.account[p].confirmed = f.account[p].confirmed + (IF p = o THEN amount ELSE 0)
            /\ f'.account[p].held = f.account[p].held
        BY <1>6, <1>8
      <3>6. f.account[p].confirmed \in Int /\ f.account[p].held \in Int
        BY <1>7
      <3>7. Withdrawn(p)' = Withdrawn(p) + (IF p = o /\ amount < 0 THEN -amount ELSE 0) /\ Withdrawn(p) \in Nat
        BY <1>9
      <3> QED
        BY <1>4, <3>1, <3>2, <3>3, <3>4, <3>5, <3>6, <3>7
    <2> QED
      BY <2>1, <2>2, <2>3 DEF Sound
  <1>12. WatermarkOK'
    BY <1>1, <1>2, <1>6 DEF WatermarkOK, Freed, sessionReviewExposure
  <1>13. \A t \in Trips : TripOK(t)'
    BY <1>2, <1>6 DEF FundingInv, TripOK, PaysFor, TripCeiling
  <1> QED
    BY <1>5, <1>10, <1>11, <1>12, <1>13 DEF FundingInv

\* A payout takes the same from cash and from what is held, once.
LEMMA PayoutKeeps ==
    ASSUME FundingInv, NEW rd \in Payouts, NEW u \in Users, NEW gross \in Grosses,
           settlePayoutFunding(rd, u, gross)
    PROVE  FundingInv'
  <1> DEFINE takes == Takes(f, u, gross)
             drawn == PerAccount(takes)
  <1>1. /\ FundingTypeOK /\ Sound(f, WithdrawnBy) /\ WatermarkOK /\ f \in Rows /\ CashConserved
        /\ RowShape(f) /\ WithdrawnBy \in [Orgs -> Nat]
    BY WithdrawnType DEF FundingInv, Sound, RowShape
  <1>2. gross \in Int
    BY FundingConstants
  <1>3. /\ takes \in [Earnings -> Nat]
        /\ \A e \in Earnings : takes[e] <= Due(f, e) /\ (f.commit[e].pending => takes[e] = 0)
    BY <1>1, <1>2, TakesBounds
  <1>4. /\ payout[rd] = Unpaid
        /\ f' = Attributed(f, takes)
        /\ payout' = [payout EXCEPT ![rd] = drawn]
        /\ UNCHANGED <<program, source, marked, rows, item, cash>>
    BY DEF settlePayoutFunding
  <1> HIDE DEF takes
  <1>5. drawn \in [Orgs -> Nat]
    BY <1>3, PerAccountTally
  <1>6. /\ Sound(f', WithdrawnBy) /\ f'.res = f.res
        /\ \A e \in Earnings : f'.commit[e] = [f.commit[e] EXCEPT !.paid = @ + takes[e]]
        /\ \A o \in Orgs : f'.account[o].confirmed = f.account[o].confirmed - drawn[o]
    BY <1>1, <1>3, <1>4, AttributedSound
  <1> HIDE DEF drawn
  <1>7. FundingTypeOK'
    <2>1. payout' \in [Payouts -> [Orgs -> Nat]]
      BY <1>1, <1>4, <1>5 DEF FundingTypeOK
    <2> QED
      BY <1>1, <1>4, <2>1 DEF FundingTypeOK
  <1>8. WithdrawnBy' = WithdrawnBy
    BY <1>4 DEF WithdrawnBy, Withdrawn
  <1>9. CashConserved'
    <2> SUFFICES ASSUME NEW o \in Orgs
                 PROVE  f'.account[o].confirmed = Recorded(o)' - Disbursed(o)'
      BY DEF CashConserved, Recorded, Disbursed
    <2> DEFINE F == [x \in Payouts |-> payout[x][o]]
               G == [x \in Payouts |-> payout'[x][o]]
    <2>1. \A x \in Payouts : F[x] \in Int /\ G[x] \in Int
      BY <1>1, <1>7 DEF FundingTypeOK
    <2>2. F[rd] = 0 /\ G[rd] = drawn[o] /\ \A x \in Payouts \ {rd} : G[x] = F[x]
      BY <1>1, <1>4 DEF FundingTypeOK, Unpaid
    <2>3. Disbursed(o) = SumFunctionOnSet(F, Payouts) /\ Disbursed(o)' = SumFunctionOnSet(G, Payouts)
      BY DEF Disbursed, SumFunction
    <2> HIDE DEF F, G
    <2>4. SumFunctionOnSet(G, Payouts) = SumFunctionOnSet(F, Payouts) + G[rd] - F[rd]
      BY <2>1, <2>2, FundingConstants, SumChange
    <2>5. Recorded(o)' = Recorded(o)
      BY <1>4 DEF Recorded
    <2>6. Recorded(o) \in Int /\ Disbursed(o) \in Nat /\ drawn[o] \in Nat
      BY <1>1, <1>5, CashTypes
    <2>7. f.account[o].confirmed = Recorded(o) - Disbursed(o)
      BY <1>1 DEF CashConserved, Recorded, Disbursed
    <2> QED
      BY <1>6, <2>2, <2>3, <2>4, <2>5, <2>6, <2>7
  <1>10. \A e \in Earnings : /\ f'.commit[e].held = f.commit[e].held /\ f'.commit[e].exists = f.commit[e].exists
                             /\ f'.commit[e].uncovered = f.commit[e].uncovered
    BY <1>1, <1>6 DEF Rows, CommitRow
  <1>11. f' \in Rows
    BY <1>6 DEF Sound, RowShape
  <1>12. WatermarkOK'
    <2> SUFFICES ASSUME NEW x \in marked'
                 PROVE  source'[x] = "ENDED" /\ Freed(x)'
      BY DEF WatermarkOK
    <2>1. x \in marked /\ x \in Sessions /\ source'[x] = "ENDED" /\ Freed(x)
      BY <1>1, <1>4 DEF WatermarkOK, FundingTypeOK
    <2>2. \A i \in Items : f'.commit[i].held = f.commit[i].held /\ item'[i] = item[i]
      BY <1>4, <1>10, ItemKind
    <2>3. f'.res[x] = f.res[x]
      BY <1>6
    <2> QED
      BY <1>1, <1>11, <2>1, <2>2, <2>3, FreedUntouched
  <1>13. \A t \in Trips : TripOK(t)'
    BY <1>4, <1>6, <1>10, TripKind DEF FundingInv, TripOK, PaysFor, TripCeiling
  <1> QED
    BY <1>6, <1>7, <1>8, <1>9, <1>12, <1>13 DEF FundingInv

-----------------------------------------------------------------------------
(* Every reachable state.                                                  *)

\* A column of zeros totals nothing.
LEMMA TallyZero ==
    ASSUME NEW S, IsFiniteSet(S), NEW T, NEW F, \A x \in S : F[x] = 0
    PROVE  Tally(F, T, S) = 0
  <1> DEFINE row == [x \in S |-> IF x \in T THEN F[x] ELSE 0]
  <1>1. \A x \in S : row[x] = 0
    OBVIOUS
  <1>2. Tally(F, T, S) = SumFunctionOnSet(row, S)
    BY TallySum
  <1> HIDE DEF row
  <1> QED
    BY <1>1, <1>2, SumZero

\* Nothing is held, owed or recorded at the start.
LEMMA FundingInit ==
    ASSUME Init
    PROVE  FundingInv
  <1>1. /\ f.account = [o \in Orgs |-> [confirmed |-> 0, held |-> 0]]
        /\ f.campaign = [c \in Campaigns |-> [held |-> 0, spent |-> 0]]
        /\ f.res = [s \in Sources |-> NoReservation]
        /\ f.commit = [e \in Earnings |-> NoCommit]
        /\ f.order = <<>>
    BY DEF Init
  <1>2. FundingTypeOK
    <2>1. program \in [Campaigns -> [money : BOOLEAN, mult : {1}]] /\ MaxMult \in Nat \ {0}
      BY FundingConstants DEF Init
    <2>2. {1} \subseteq 1..MaxMult
      BY <2>1
    <2>3. program \in [Campaigns -> [money : BOOLEAN, mult : 1..MaxMult]]
      BY <2>1, <2>2
    <2>4. /\ source \in [Sources -> Statuses] /\ item \in [Items -> Progress]
          /\ marked \subseteq Sessions /\ rows \in [Trips -> Nat]
      BY DEF Init, Statuses, Progress
    <2>5. cash \in [Entries -> [org : Orgs \cup {NoOrg}, amount : Int]]
      BY DEF Init, Entries, NoEntry
    <2>6. payout \in [Payouts -> [Orgs -> Nat]]
      BY DEF Init, Unpaid
    <2> QED
      BY <2>3, <2>4, <2>5, <2>6 DEF FundingTypeOK
  <1>3. f \in Rows
    <2>1. NoReservation \in ReservationRow /\ NoCommit \in CommitRow
      BY DEF NoReservation, NoCommit, ReservationRow, CommitRow
    <2>2. f.account \in [Orgs -> AccountRow] /\ f.campaign \in [Campaigns -> CampaignRow]
      BY <1>1 DEF AccountRow, CampaignRow
    <2>3. f.res \in [Sources -> ReservationRow] /\ f.commit \in [Earnings -> CommitRow]
      BY <1>1, <2>1
    <2>4. f.order \in Seq(Earnings)
      BY <1>1
    <2> DEFINE a == f.account
               b == f.campaign
               c == f.res
               d == f.commit
               e == f.order
    <2>5. f = [account |-> a, campaign |-> b, res |-> c, commit |-> d, order |-> e]
      BY DEF Init
    <2>6. a \in [Orgs -> AccountRow] /\ b \in [Campaigns -> CampaignRow]
          /\ c \in [Sources -> ReservationRow] /\ d \in [Earnings -> CommitRow] /\ e \in Seq(Earnings)
      BY <2>2, <2>3, <2>4
    <2> HIDE DEF a, b, c, d, e
    <2> QED
      BY <2>5, <2>6 DEF Rows
  <1>4. RowShape(f)
    <2>1. \A s \in Sources : ResShape(f.res[s])
      BY <1>1 DEF ResShape, NoReservation
    <2>2. \A e \in Earnings : CommitShape(f.commit[e])
      BY <1>1 DEF CommitShape, NoCommit
    <2>3. OrderShape(f)
      BY <1>1 DEF OrderShape
    <2> QED
      BY <1>3, <2>1, <2>2, <2>3 DEF RowShape
  <1>5. /\ \A s \in Sources : Remaining(f)[s] = 0
        /\ \A e \in Earnings : HeldFor(f)[e] = 0 /\ PaidOut(f)[e] = 0
    BY <1>1 DEF Remaining, HeldFor, PaidOut, NoReservation, NoCommit
  <1>6. \A T : /\ Tally(Remaining(f), T, Sources) = 0
               /\ Tally(HeldFor(f), T, Earnings) = 0
               /\ Tally(PaidOut(f), T, Earnings) = 0
    BY <1>5, RowsFinite, TallyZero
  <1>7. \A o \in Orgs : f.account[o].held = 0 /\ f.account[o].confirmed = 0
    BY <1>1
  <1>8. \A c \in Campaigns : f.campaign[c].held = 0 /\ f.campaign[c].spent = 0
    BY <1>1
  <1>9. AccountsAgree(f) /\ CampaignsAgree(f)
    BY <1>6, <1>7, <1>8 DEF AccountsAgree, CampaignsAgree
  <1>10. Within(f, WithdrawnBy)
    <2> SUFFICES ASSUME NEW o \in Orgs
                 PROVE  f.account[o].held - f.account[o].confirmed <= Reported(f, o) + WithdrawnBy[o]
      BY DEF Within
    <2>1. Reported(f, o) \in Nat
      BY <1>3, TotalTypes DEF Reported
    <2>2. WithdrawnBy[o] \in Nat
      BY <1>2, WithdrawnType
    <2> QED
      BY <1>7, <2>1, <2>2
  <1>11. CashConserved
    <2> SUFFICES ASSUME NEW o \in Orgs
                 PROVE  f.account[o].confirmed = Recorded(o) - Disbursed(o)
      BY DEF CashConserved, Recorded, Disbursed
    <2> DEFINE row == [k \in Entries |-> IF cash[k].org = o THEN cash[k].amount ELSE 0]
               drawn == [rd \in Payouts |-> payout[rd][o]]
    <2>1. \A k \in Entries : row[k] = 0
      BY DEF Init, Entries, NoEntry
    <2>2. \A rd \in Payouts : drawn[rd] = 0
      BY DEF Init, Unpaid
    <2>3. DOMAIN cash = Entries
      BY <1>2 DEF FundingTypeOK
    <2>4. Recorded(o) = SumFunctionOnSet(row, Entries) /\ Disbursed(o) = SumFunctionOnSet(drawn, Payouts)
      BY <2>3 DEF Recorded, Disbursed, SumFunction
    <2> HIDE DEF row, drawn
    <2>5. SumFunctionOnSet(row, Entries) = 0
      BY <2>1, EntriesFinite, SumZero
    <2>6. SumFunctionOnSet(drawn, Payouts) = 0
      BY <2>2, FundingConstants, SumZero
    <2> QED
      BY <1>7, <2>4, <2>5, <2>6
  <1>12. WatermarkOK
    BY DEF Init, WatermarkOK
  <1>13. ASSUME NEW t \in Trips
         PROVE  TripOK(t)
    <2>1. source[t] = "OPEN" /\ rows[t] = 0 /\ ~PaysFor(t, rows[t])
      BY TripKind DEF Init, PaysFor
    <2>2. ~f.commit[t].exists /\ f.commit[t].uncovered = 0
      BY <1>1, TripKind DEF NoCommit
    <2>3. f.res[t].status # "ACTIVE" /\ ~f.res[t].late
      BY <1>1, TripKind DEF NoReservation
    <2> QED
      BY <2>1, <2>2, <2>3 DEF TripOK
  <1> QED
    BY <1>2, <1>4, <1>9, <1>10, <1>11, <1>12, <1>13 DEF FundingInv, Sound

\* The invariant holds throughout.
THEOREM FundingInductive == Spec => []FundingInv
  <1>1. Init => FundingInv
    BY FundingInit
  <1>2. ASSUME FundingInv, [Next]_vars
        PROVE  FundingInv'
    <2>1. CASE Deposits
      <3>1. ASSUME NEW s \in Sessions, NEW ceiling \in Ceilings, admitSession(s, ceiling)
            PROVE  FundingInv'
        BY <1>2, <3>1, AdmitKeeps
      <3>2. ASSUME NEW s \in Sessions, endSession(s)
            PROVE  FundingInv'
        BY <1>2, <3>2, EndKeeps
      <3>3. ASSUME NEW s \in Sessions, handleCloseWatermark(s)
            PROVE  FundingInv'
        BY <1>2, <3>3, WatermarkKeeps
      <3>4. ASSUME NEW i \in Items, NEW d \in {"ACCEPTED", "REVIEW", "CLOSED"}, NEW price \in Prices,
                   handleAcceptance(i, d, price)
            PROVE  FundingInv'
        BY <1>2, <3>4, AcceptanceKeeps
      <3>5. ASSUME NEW i \in Items, holdItemForFraud(i)
            PROVE  FundingInv'
        BY <1>2, <3>5, HoldKeeps
      <3>6. ASSUME NEW i \in Items, NEW target \in Prices \cup {0}, NEW refused \in BOOLEAN,
                   decideDepositReview(i, target, refused)
            PROVE  FundingInv'
        BY <1>2, <3>6, DecisionKeeps
      <3> QED
        BY <2>1, <3>1, <3>2, <3>3, <3>4, <3>5, <3>6 DEF Deposits
    <2>2. CASE TripSteps
      <3>1. ASSUME NEW t \in Trips, issueTrashBags(t)
            PROVE  FundingInv'
        BY <1>2, <3>1, IssueKeeps
      <3>2. ASSUME NEW t \in Trips, cancelTrip(t)
            PROVE  FundingInv'
        BY <1>2, <3>2, CancelKeeps
      <3>3. ASSUME NEW t \in Trips, reopenTrip(t)
            PROVE  FundingInv'
        BY <1>2, <3>3, ReopenKeeps
      <3>4. ASSUME NEW t \in Trips, NEW amount \in 0..(MaxRows * MaxMult), completeTrip(t, amount)
            PROVE  FundingInv'
        BY <1>2, <3>4, CompleteKeeps
      <3> QED
        BY <2>2, <3>1, <3>2, <3>3, <3>4 DEF TripSteps
    <2>3. CASE Operators
      <3>1. ASSUME NEW s \in Sources, releaseResidualReservation(s)
            PROVE  FundingInv'
        BY <1>2, <3>1, ResidualKeeps
      <3>2. ASSUME NEW c \in Campaigns, NEW next \in [money : BOOLEAN, mult : 1..MaxMult], updateProgram(c, next)
            PROVE  FundingInv'
        BY <1>2, <3>2, UpdateProgramKeeps
      <3>3. ASSUME NEW o \in Orgs, NEW ref \in Refs, NEW amount \in CashAmounts, recordFundingEntry(o, ref, amount)
            PROVE  FundingInv'
        BY <1>2, <3>3, RecordKeeps
      <3>4. ASSUME NEW rd \in Payouts, NEW u \in Users, NEW gross \in Grosses, settlePayoutFunding(rd, u, gross)
            PROVE  FundingInv'
        BY <1>2, <3>4, PayoutKeeps
      <3> QED
        BY <2>3, <3>1, <3>2, <3>3, <3>4 DEF Operators
    <2>4. CASE UNCHANGED vars
      BY <1>2, <2>4, FundingStays DEF vars
    <2> QED
      BY <1>2, <2>1, <2>2, <2>3, <2>4 DEF Next
  <1> QED
    BY <1>1, <1>2, PTL DEF Spec

-----------------------------------------------------------------------------
(* What the runs check, from the invariant.                                *)

\* The page's sums over active reservations and existing commits miss nothing.
LEMMA PageTotals ==
    ASSUME f \in Rows, RowShape(f), NEW o \in Orgs
    PROVE  /\ getOrganizationFunding(o).view.reservedRemaining = Tally(Remaining(f), SourcesOf(o), Sources)
           /\ getOrganizationFunding(o).commits.heldRupiah = Tally(HeldFor(f), EarningsOf(o), Earnings)
           /\ getOrganizationFunding(o).commits.paidRupiah = Tally(PaidOut(f), EarningsOf(o), Earnings)
  <1> DEFINE P == activeReservations(o)
             Q == {e \in Earnings : f.commit[e].exists /\ OrgOf[SourceOf(e)] = o}
             R == Remaining(f)
             H == HeldFor(f)
             D == PaidOut(f)
             remaining == [s \in P |-> f.res[s].remaining]
             held == [e \in Q |-> f.commit[e].held]
             paid == [e \in Q |-> f.commit[e].paid]
  <1>1. getOrganizationFunding(o).view.reservedRemaining = SumFunction(remaining)
    BY DEF getOrganizationFunding, readFundingVisibility
  <1>2. /\ getOrganizationFunding(o).commits.heldRupiah = SumFunction(held)
        /\ getOrganizationFunding(o).commits.paidRupiah = SumFunction(paid)
    BY DEF getOrganizationFunding
  <1>3. (\A s \in Sources : R[s] \in Int) /\ \A e \in Earnings : H[e] \in Int /\ D[e] \in Int
    BY ColumnTypes
  <1>4. P \in SUBSET Sources /\ Q \in SUBSET Earnings
    BY DEF activeReservations
  <1>5. DOMAIN remaining = P /\ DOMAIN held = Q /\ DOMAIN paid = Q
    OBVIOUS
  <1>6. \A s \in P : s \in SourcesOf(o) /\ remaining[s] = R[s]
    BY DEF activeReservations, SourcesOf, Remaining
  <1>7. \A s \in Sources \ P : s \in SourcesOf(o) => R[s] = 0
    BY DEF activeReservations, SourcesOf, Remaining, RowShape, ResShape
  <1>8. \A e \in Q : e \in EarningsOf(o) /\ held[e] = H[e] /\ paid[e] = D[e]
    BY DEF EarningsOf, HeldFor, PaidOut
  <1>9. \A e \in Earnings \ Q : e \in EarningsOf(o) => H[e] = 0 /\ D[e] = 0
    BY DEF EarningsOf, HeldFor, PaidOut, RowShape, CommitShape, NoCommit
  <1> HIDE DEF P, Q, R, H, D, remaining, held, paid
  <1>10. SumFunction(remaining) = Tally(R, SourcesOf(o), Sources)
    BY <1>3, <1>4, <1>5, <1>6, <1>7, RowsFinite, TallyPart
  <1>11. SumFunction(held) = Tally(H, EarningsOf(o), Earnings)
    BY <1>3, <1>4, <1>5, <1>8, <1>9, RowsFinite, TallyPart
  <1>12. SumFunction(paid) = Tally(D, EarningsOf(o), Earnings)
    BY <1>3, <1>4, <1>5, <1>8, <1>9, RowsFinite, TallyPart
  <1> QED
    BY <1>1, <1>2, <1>10, <1>11, <1>12 DEF R, H, D

\* The page's figures and the campaigns' counters.
LEMMA HeldFromInv == FundingInv => HeldConserved
  <1> SUFFICES ASSUME FundingInv
               PROVE  HeldConserved
    OBVIOUS
  <1>1. f \in Rows /\ RowShape(f) /\ AccountsAgree(f) /\ CampaignsAgree(f)
    BY DEF FundingInv, Sound, RowShape
  <1>2. ASSUME NEW o \in Orgs
        PROVE  getOrganizationFunding(o).view.heldRupiah
                 = getOrganizationFunding(o).view.reservedRemaining
                   + getOrganizationFunding(o).commits.heldRupiah
                   - getOrganizationFunding(o).commits.paidRupiah
    <2>1. getOrganizationFunding(o).view.heldRupiah = f.account[o].held
      BY DEF getOrganizationFunding, readFundingVisibility
    <2>2. f.account[o].held = Tally(Remaining(f), SourcesOf(o), Sources)
                              + Tally(HeldFor(f), EarningsOf(o), Earnings)
                              - Tally(PaidOut(f), EarningsOf(o), Earnings)
      BY <1>1 DEF AccountsAgree
    <2>3. /\ getOrganizationFunding(o).view.reservedRemaining = Tally(Remaining(f), SourcesOf(o), Sources)
          /\ getOrganizationFunding(o).commits.heldRupiah = Tally(HeldFor(f), EarningsOf(o), Earnings)
          /\ getOrganizationFunding(o).commits.paidRupiah = Tally(PaidOut(f), EarningsOf(o), Earnings)
      BY <1>1, PageTotals
    <2> QED
      BY <2>1, <2>2, <2>3
  <1>3. CampaignConserved
    <2> SUFFICES ASSUME NEW c \in Campaigns
                 PROVE  /\ f.campaign[c].held
                             = SumFunction([s \in Sources |-> IF CampaignOf[s] = c THEN f.res[s].remaining ELSE 0])
                        /\ f.campaign[c].spent
                             = SumFunction([e \in Earnings |-> IF CampaignOf[SourceOf(e)] = c THEN f.commit[e].held ELSE 0])
      BY DEF CampaignConserved
    <2>1. [s \in Sources |-> IF CampaignOf[s] = c THEN f.res[s].remaining ELSE 0]
            = [s \in Sources |-> IF s \in SourcesIn(c) THEN Remaining(f)[s] ELSE 0]
      BY DEF SourcesIn, Remaining
    <2>2. [e \in Earnings |-> IF CampaignOf[SourceOf(e)] = c THEN f.commit[e].held ELSE 0]
            = [e \in Earnings |-> IF e \in EarningsIn(c) THEN HeldFor(f)[e] ELSE 0]
      BY DEF EarningsIn, HeldFor
    <2>3. /\ f.campaign[c].held = Tally(Remaining(f), SourcesIn(c), Sources)
          /\ f.campaign[c].spent = Tally(HeldFor(f), EarningsIn(c), Earnings)
      BY <1>1 DEF CampaignsAgree
    <2> QED
      BY <2>1, <2>2, <2>3 DEF Tally
  <1>4. PaidWithinHeld
    BY <1>1 DEF PaidWithinHeld, RowShape, CommitShape
  <1> QED
    BY <1>2, <1>3, <1>4 DEF HeldConserved

\* What an account holds beyond cash, as the page reports it.
LEMMA CapacityFromInv == FundingInv => CapacityRespected
  <1> SUFFICES ASSUME FundingInv
               PROVE  CapacityRespected
    OBVIOUS
  <1>1. f \in Rows /\ Within(f, WithdrawnBy) /\ CashConserved
    BY DEF FundingInv, Sound, RowShape
  <1>2. ASSUME NEW o \in Orgs
        PROVE  -getOrganizationFunding(o).view.capacity
                 <= getOrganizationFunding(o).view.uncovered + Withdrawn(o)
                    + (IF Enforced THEN 0 ELSE Shortfalls(o))
    <2>1. getOrganizationFunding(o).view.capacity = f.account[o].confirmed - f.account[o].held
      BY DEF getOrganizationFunding, readFundingVisibility
    <2>2. [e \in Earnings |-> IF OrgOf[SourceOf(e)] = o THEN f.commit[e].uncovered ELSE 0]
            = [e \in Earnings |-> IF e \in EarningsOf(o) THEN UncoveredOf(f)[e] ELSE 0]
      BY DEF EarningsOf, UncoveredOf
    <2>3. getOrganizationFunding(o).view.uncovered = Tally(UncoveredOf(f), EarningsOf(o), Earnings)
      <3>1. getOrganizationFunding(o).view.uncovered
              = SumFunction([e \in Earnings |-> IF OrgOf[SourceOf(e)] = o THEN f.commit[e].uncovered ELSE 0])
        BY DEF getOrganizationFunding, readFundingVisibility
      <3> QED
        BY <2>2, <3>1 DEF Tally
    <2>4. [s \in Sources |-> IF OrgOf[s] = o THEN f.res[s].short ELSE 0]
            = [s \in Sources |-> IF s \in SourcesOf(o) THEN Short(f)[s] ELSE 0]
      BY DEF SourcesOf, Short
    <2>5. Shortfalls(o) = Tally(Short(f), SourcesOf(o), Sources)
      BY <2>4 DEF Shortfalls, Tally
    <2>6. /\ Tally(UncoveredOf(f), EarningsOf(o), Earnings) \in Nat
          /\ Tally(Short(f), SourcesOf(o), Sources) \in Nat
      BY <1>1, TotalTypes
    <2>7. Withdrawn(o) \in Nat /\ WithdrawnBy[o] = Withdrawn(o)
      BY WithdrawnType DEF FundingInv, WithdrawnBy
    <2>8. f.account[o].held - f.account[o].confirmed <= Reported(f, o) + Withdrawn(o)
      BY <1>1, <2>7 DEF Within
    <2>9. f.account[o].held \in Int /\ f.account[o].confirmed \in Int
      BY <1>1 DEF Rows, AccountRow
    <2>10. Reported(f, o) = Tally(UncoveredOf(f), EarningsOf(o), Earnings)
                            + (IF Enforced THEN 0 ELSE Tally(Short(f), SourcesOf(o), Sources))
      BY DEF Reported
    <2> QED
      BY <2>1, <2>3, <2>5, <2>6, <2>7, <2>8, <2>9, <2>10
  <1> QED
    BY <1>1, <1>2 DEF CapacityRespected

\* A funding page always adds up: what an organization holds is what its active
\* reservations still hold and its unpaid obligations, the campaigns' counters
\* agree with the same rows, and nothing is paid beyond what is held for it.
THEOREM HeldAlwaysConserved == Spec => []HeldConserved
  <1>1. Spec => []FundingInv
    BY FundingInductive
  <1> QED
    BY <1>1, HeldFromInv, PTL

\* No organization is committed beyond its cash, apart from what the page
\* reports and what an operator withdrew (checkCapacity under enforcement).
THEOREM CapacityAlwaysRespected == Spec => []CapacityRespected
  <1>1. Spec => []FundingInv
    BY FundingInductive
  <1> QED
    BY <1>1, CapacityFromInv, PTL

\* A session whose watermark is in holds nothing once nothing is left to review
\* (handleCloseWatermark, closeWatermarkedSessionIfSettled).
THEOREM WatermarkAlwaysFrees == Spec => []WatermarkedResidueFreed
  <1>1. FundingInv => WatermarkedResidueFreed
    BY DEF FundingInv, WatermarkOK, Freed, WatermarkedResidueFreed, activeReservations
  <1>2. Spec => []FundingInv
    BY FundingInductive
  <1> QED
    BY <1>1, <1>2, PTL

\* Under enforcement a trip's reward never exceeds what its bags reserved
\* (guardProgramRewardChange, reserveTripIssuance).
THEOREM TripAlwaysCovered == Spec => []TripRewardCovered
  <1>1. FundingInv => TripRewardCovered
    BY DEF FundingInv, TripOK, TripRewardCovered
  <1>2. Spec => []FundingInv
    BY FundingInductive
  <1> QED
    BY <1>1, <1>2, PTL

-----------------------------------------------------------------------------
(* Payouts and reviews.                                                    *)

\* Every action but a payout leaves what was paid as it was.
LEMMA PaidUntouched ==
    ASSUME FundingInv, Deposits \/ TripSteps \/ (\E s \in Sources : releaseResidualReservation(s))
    PROVE  \A e \in Earnings : f'.commit[e].paid = f.commit[e].paid
  <1>1. FundingTypeOK /\ Sound(f, WithdrawnBy) /\ WithdrawnBy \in [Orgs -> Nat]
    BY WithdrawnType DEF FundingInv
  <1>2. CASE Deposits
    <2>1. ASSUME NEW s \in Sessions, NEW ceiling \in Ceilings, admitSession(s, ceiling)
          PROVE  \A e \in Earnings : f'.commit[e].paid = f.commit[e].paid
      BY <1>1, <2>1, AdmitEffect
    <2>2. ASSUME NEW s \in Sessions, endSession(s)
          PROVE  \A e \in Earnings : f'.commit[e].paid = f.commit[e].paid
      BY <2>2 DEF endSession
    <2>3. ASSUME NEW s \in Sessions, handleCloseWatermark(s)
          PROVE  \A e \in Earnings : f'.commit[e].paid = f.commit[e].paid
      BY <1>1, <2>3, WatermarkEffect
    <2>4. ASSUME NEW i \in Items, NEW d \in {"ACCEPTED", "REVIEW", "CLOSED"}, NEW price \in Prices,
                 handleAcceptance(i, d, price)
          PROVE  \A e \in Earnings : f'.commit[e].paid = f.commit[e].paid
      BY <1>1, <2>4, AcceptanceEffect DEF Serves
    <2>5. ASSUME NEW i \in Items, holdItemForFraud(i)
          PROVE  \A e \in Earnings : f'.commit[e].paid = f.commit[e].paid
      BY <1>1, <2>5, HoldEffect DEF Serves
    <2>6. ASSUME NEW i \in Items, NEW target \in Prices \cup {0}, NEW refused \in BOOLEAN,
                 decideDepositReview(i, target, refused)
          PROVE  \A e \in Earnings : f'.commit[e].paid = f.commit[e].paid
      BY <1>1, <2>6, DecisionEffect DEF Serves
    <2> QED
      BY <1>2, <2>1, <2>2, <2>3, <2>4, <2>5, <2>6 DEF Deposits
  <1>3. CASE TripSteps
    <2>1. ASSUME NEW t \in Trips, issueTrashBags(t)
          PROVE  f'.commit = f.commit
      <3> DEFINE n == rows[t] + 1
      <3>1. n \in Nat /\ source[t] # "COMPLETED" /\ ReserveTripIssuance(t, n)
        BY <1>1, <2>1 DEF issueTrashBags, FundingTypeOK
      <3> HIDE DEF n
      <3> QED
        BY <3>1, IssuanceEffect
    <2>2. ASSUME NEW t \in Trips, cancelTrip(t)
          PROVE  f'.commit = f.commit
      <3>1. t \in Sources /\ f' = closeReservation(f, t)
        BY <2>2, TripKind DEF cancelTrip
      <3> QED
        BY <1>1, <3>1, CloseSound
    <2>3. ASSUME NEW t \in Trips, reopenTrip(t)
          PROVE  f'.commit = f.commit
      <3> DEFINE n == rows[t]
      <3>1. n \in Nat /\ source[t] # "COMPLETED" /\ ReserveTripIssuance(t, n)
        BY <1>1, <2>3 DEF reopenTrip, FundingTypeOK
      <3> HIDE DEF n
      <3> QED
        BY <3>1, IssuanceEffect
    <2>4. ASSUME NEW t \in Trips, NEW amount \in 0..(MaxRows * MaxMult), completeTrip(t, amount)
          PROVE  \A e \in Earnings : f'.commit[e].paid = f.commit[e].paid
      <3> DEFINE m == checkRewardFunding(f, t, amount, FALSE)
      <3>1. t \in Sources /\ t \in Earnings /\ SourceOf(t) = t /\ amount \in Nat /\ f' = closeReservation(m, t)
        BY <2>4, TripKind DEF completeTrip
      <3>2. Sound(m, WithdrawnBy) /\ Serves(f, m, t, t)
        BY <1>1, <3>1, CheckedSound
      <3> HIDE DEF m
      <3>3. f'.commit = m.commit
        BY <1>1, <3>1, <3>2, CloseSound
      <3> QED
        BY <3>2, <3>3 DEF Serves
    <2> QED
      BY <1>3, <2>1, <2>2, <2>3, <2>4 DEF TripSteps
  <1>4. CASE \E s \in Sources : releaseResidualReservation(s)
    <2> PICK s \in Sources : releaseResidualReservation(s)
      BY <1>4
    <2> DEFINE close == TRUE
               amount == f.res[s].remaining
    <2>1. /\ f.res[s].status = "ACTIVE"
          /\ f' = releaseUnusedRewardBudget(f, s, amount, close)
      BY DEF releaseResidualReservation
    <2>2. amount \in Nat /\ close \in BOOLEAN /\ (close => amount = f.res[s].remaining)
      <3>1. amount \in Nat
        BY <1>1 DEF Sound, RowShape, Rows, ReservationRow
      <3> QED
        BY <3>1
    <2> HIDE DEF close, amount
    <2>3. Releases(f, f', WithdrawnBy, s, close)
      BY <1>1, <2>1, <2>2, ClosedSound
    <2> QED
      BY <2>3 DEF Releases
  <1> QED
    BY <1>2, <1>3, <1>4

\* A payout never draws on an obligation under review, and nothing else pays.
THEOREM PayoutAlwaysSparesReviews == Spec => PayoutSparesReviews
  <1>1. ASSUME FundingInv, [Next]_vars
        PROVE  [\A e \in Earnings : f.commit[e].pending => f'.commit[e].paid = f.commit[e].paid]_vars
    <2>1. CASE Deposits \/ TripSteps \/ (\E s \in Sources : releaseResidualReservation(s))
      BY <1>1, <2>1, PaidUntouched
    <2>2. CASE \E c \in Campaigns, next \in [money : BOOLEAN, mult : 1..MaxMult] : updateProgram(c, next)
      BY <2>2 DEF updateProgram
    <2>3. ASSUME NEW o \in Orgs, NEW ref \in Refs, NEW amount \in CashAmounts,
                 recordFundingEntry(o, ref, amount)
          PROVE  f'.commit = f.commit
      <3>1. f \in Rows
        BY <1>1 DEF FundingInv, Sound, RowShape
      <3>2. f' = bumpAccount(f, o, amount, 0) /\ amount \in Int /\ 0 \in Int
        BY <2>3, FundingConstants DEF recordFundingEntry
      <3> QED
        BY <3>1, <3>2, BumpedAccount
    <2>4. ASSUME NEW rd \in Payouts, NEW u \in Users, NEW gross \in Grosses,
                 settlePayoutFunding(rd, u, gross), NEW e \in Earnings, f.commit[e].pending
          PROVE  f'.commit[e].paid = f.commit[e].paid
      <3> DEFINE takes == Takes(f, u, gross)
      <3>1. RowShape(f) /\ f \in Rows /\ gross \in Int
        BY <1>1, FundingConstants DEF FundingInv, Sound, RowShape
      <3>2. takes \in [Earnings -> Nat] /\ takes[e] = 0
        BY <2>4, <3>1, TakesBounds
      <3>3. f' = Attributed(f, takes)
        BY <2>4 DEF settlePayoutFunding
      <3> HIDE DEF takes
      <3>4. f.commit[e].paid \in Nat /\ f.commit[e] \in CommitRow
        BY <3>1 DEF Rows, CommitRow
      <3>5. f'.commit[e] = [f.commit[e] EXCEPT !.paid = f.commit[e].paid + takes[e]]
        BY <3>1, <3>3 DEF Attributed, Rows
      <3>6. f'.commit[e].paid = f.commit[e].paid + takes[e]
        BY <3>4, <3>5 DEF CommitRow
      <3> QED
        BY <3>2, <3>4, <3>6
    <2>5. CASE UNCHANGED vars
      BY <2>5
    <2> QED
      BY <1>1, <2>1, <2>2, <2>3, <2>4, <2>5 DEF Next, Operators
  <1>2. Spec => []FundingInv
    BY FundingInductive
  <1> QED
    BY <1>1, <1>2, PTL DEF Spec, PayoutSparesReviews
=============================================================================
