------------------------------ MODULE Regions ------------------------------
(***************************************************************************)
(* The tree of regions: POST /api/regions, PATCH and DELETE                *)
(* /api/regions/[id], and the organizations and machines that are sited in *)
(* a region.  No handler runs in a transaction.  PATCH reads the region,   *)
(* walks from the new parent to the root one row at a time and then writes *)
(* the parent by id; DELETE counts who uses the region and then deletes it *)
(* by id.  Whatever another superadmin commits in between is not seen.     *)
(* The database holds the references: a row may only name a region that    *)
(* exists, and a deleted region is cleared from the rows that name it      *)
(* (ON DELETE SET NULL).                                                   *)
(***************************************************************************)
CONSTANTS
    Regions,
    Sites,          \* organizations and machines
    Curators,       \* requests of superadmins in progress at a time
    NoRegion

ASSUME RegionAssumption == NoRegion \notin Regions

VARIABLES
    region,         \* per region: "unborn", "there" or "deleted"
    parent,         \* Region.parentId
    siteOf,         \* regionId of each organization and machine
    curator,        \* per request: what PATCH or DELETE has read so far
    overlapped      \* a move was written after another one committed under it

regionVars == <<region, parent, siteOf, curator, overlapped>>

There == {r \in Regions : region[r] = "there"}
Using(r) == {x \in Regions : parent[x] = r} \cup {s \in Sites : siteOf[s] = r}

\* stale: another move has committed since the request read its first row;
\* joined: who was put under the region since DELETE counted.
NoRequest == [at |-> "idle", region |-> NoRegion, to |-> NoRegion, cursor |-> NoRegion,
              seen |-> {}, stale |-> FALSE, joined |-> {}]
Moving == {"walk", "write"}

RegionInit ==
    /\ region = [r \in Regions |-> "unborn"] /\ parent = [r \in Regions |-> NoRegion]
    /\ siteOf = [s \in Sites |-> NoRegion]
    /\ curator = [c \in Curators |-> NoRequest] /\ overlapped = FALSE

\* Who now names r is noted by the deletions of r that have counted.
Joins(x, r) ==
    curator' = [c \in Curators |->
        IF curator[c].at = "delete" /\ curator[c].region = r /\ r # NoRegion
        THEN [curator[c] EXCEPT !.joined = @ \cup {x}] ELSE curator[c]]

\* POST /api/regions: the parent, if any, must exist.
CreateRegion(r, p) ==
    /\ region[r] = "unborn" /\ p \in There \cup {NoRegion}
    /\ region' = [region EXCEPT ![r] = "there"] /\ parent' = [parent EXCEPT ![r] = p]
    /\ Joins(r, p)
    /\ UNCHANGED <<siteOf, overlapped>>

\* PATCH with a parentId: the row and the new parent are read; a parent that
\* did not change, or none, is written without a walk.
StartMove(c, r, p) ==
    /\ curator[c].at = "idle" /\ region[r] = "there"
    /\ \/ /\ p \in There \ {r, parent[r]}
          /\ curator' = [curator EXCEPT ![c] =
               [NoRequest EXCEPT !.at = "walk", !.region = r, !.to = p, !.cursor = p]]
       \/ /\ p \in {NoRegion, parent[r]}
          /\ curator' = [curator EXCEPT ![c] =
               [NoRequest EXCEPT !.at = "write", !.region = r, !.to = p]]
    /\ UNCHANGED <<region, parent, siteOf, overlapped>>

\* Mutant: only the new parent itself is compared with the region.
WalkNoFurther(c) ==
    LET q == curator[c] IN
    /\ q.at = "walk"
    /\ curator' = [curator EXCEPT ![c] = IF q.cursor = q.region THEN NoRequest ELSE [q EXCEPT !.at = "write"]]
    /\ UNCHANGED <<region, parent, siteOf, overlapped>>

\* One turn of the loop: the region itself above its new parent refuses the
\* move; the root, or a row seen before, ends the walk.
WalkStep(c) ==
    LET q == curator[c] IN
    /\ q.at = "walk"
    /\ curator' = [curator EXCEPT ![c] =
         IF q.cursor = q.region THEN NoRequest
         ELSE IF q.cursor = NoRegion \/ q.cursor \in q.seen THEN [q EXCEPT !.at = "write"]
         ELSE [q EXCEPT !.seen = @ \cup {q.cursor},
                        !.cursor = IF q.cursor \in There THEN parent[q.cursor] ELSE NoRegion]]
    /\ UNCHANGED <<region, parent, siteOf, overlapped>>

\* The update by id: it fails when the region or its new parent is gone.
WriteMove(c) ==
    LET q == curator[c] IN
    /\ q.at = "write"
    /\ IF q.region \in There /\ q.to \in There \cup {NoRegion}
       THEN /\ parent' = [parent EXCEPT ![q.region] = q.to]
            /\ overlapped' = (overlapped \/ q.stale)
            /\ curator' = [d \in Curators |->
                 IF d = c THEN NoRequest
                 ELSE IF curator[d].at \in Moving THEN [curator[d] EXCEPT !.stale = TRUE]
                 ELSE IF curator[d].at = "delete" /\ curator[d].region = q.to
                 THEN [curator[d] EXCEPT !.joined = @ \cup {q.region}] ELSE curator[d]]
       ELSE /\ curator' = [curator EXCEPT ![c] = NoRequest]
            /\ UNCHANGED <<parent, overlapped>>
    /\ UNCHANGED <<region, siteOf>>

\* DELETE goes on only when nothing uses the region.
CountUsage(c, r) ==
    /\ curator[c].at = "idle" /\ region[r] = "there" /\ Using(r) = {}
    /\ curator' = [curator EXCEPT ![c] = [NoRequest EXCEPT !.at = "delete", !.region = r]]
    /\ UNCHANGED <<region, parent, siteOf, overlapped>>

DeleteRegion(c) ==
    LET r == curator[c].region IN
    /\ curator[c].at = "delete"
    /\ IF r \in There
       THEN /\ region' = [region EXCEPT ![r] = "deleted"]
            /\ parent' = [x \in Regions |-> IF x = r \/ parent[x] = r THEN NoRegion ELSE parent[x]]
            /\ siteOf' = [s \in Sites |-> IF siteOf[s] = r THEN NoRegion ELSE siteOf[s]]
       ELSE UNCHANGED <<region, parent, siteOf>>
    /\ curator' = [curator EXCEPT ![c] = NoRequest]
    /\ UNCHANGED overlapped

\* POST and PATCH of an organization or a machine set its region unchecked:
\* the foreign key refuses one that does not exist.
PlaceSite(s, r) ==
    /\ r \in There \cup {NoRegion}
    /\ siteOf' = [siteOf EXCEPT ![s] = r] /\ Joins(s, r)
    /\ UNCHANGED <<region, parent, overlapped>>

RegionNext ==
    \/ \E r \in Regions, p \in Regions \cup {NoRegion} : CreateRegion(r, p)
    \/ \E c \in Curators, r \in Regions, p \in Regions \cup {NoRegion} : StartMove(c, r, p)
    \/ \E c \in Curators : WalkStep(c) \/ WriteMove(c) \/ DeleteRegion(c)
    \/ \E c \in Curators, r \in Regions : CountUsage(c, r)
    \/ \E s \in Sites, r \in Regions \cup {NoRegion} : PlaceSite(s, r)

RegionSpec == RegionInit /\ [][RegionNext]_regionVars

----------------------------------------------------------------------------
(* Properties.                                                             *)

\* No set of regions is closed under "parent": whoever follows parents from
\* any region of it leaves it.
Acyclic == \A S \in SUBSET {r \in Regions : parent[r] # NoRegion} : S # {} => \E r \in S : parent[r] \notin S

\* The walk before each move keeps the regions a forest, as long as no move is
\* written after another one committed under it; and a deletion takes a region
\* from under nobody but who joined it after the deletion counted.
RegionsHold ==
    /\ overlapped \/ Acyclic
    /\ \A c \in Curators : curator[c].at = "delete" => Using(curator[c].region) \subseteq curator[c].joined
=============================================================================
