--------------------------- MODULE MachineMedia ---------------------------
(***************************************************************************)
(* The advertisement playlist of a reverse-vending machine: the            *)
(* superadmin's uploads and switches, the signed manifest and downloads,   *)
(* and SyncManager.sync_media, which mirrors them into a local cache.      *)
(*                                                                         *)
(* An asset is its id: the bytes behind an id never change, so a file of   *)
(* the cache is whole (size and SHA-256 agree with the manifest) or it is  *)
(* not there.  The order and the duration of the items are left out.       *)
(***************************************************************************)
EXTENDS Naturals, FiniteSets

CONSTANTS Assets,        \* media ids a superadmin may upload
          MaxCached,     \* media_max_cache_mb, in files
          MaxPowerCuts   \* bound: times the machine loses power

ASSUME MediaAssumption == MaxCached \in Nat /\ MaxPowerCuts \in Nat

VARIABLES media,      \* machine_media: the asset's row, or "none"
          sync,       \* the run of sync_media in progress
          cache,      \* the whole files in media_cache_dir
          playlist,   \* the items of the stored playlist
          torn,       \* power was lost after stale files went and before the playlist was replaced
          powerCuts   \* power cuts so far

mediaVars == <<media, sync, cache, playlist, torn, powerCuts>>

NoSync == [phase |-> "idle", assets |-> {}, items |-> {}]
ActiveMedia == {a \in Assets : media[a] = "active"}
AllMedia == {a \in Assets : media[a] \in {"active", "inactive"}}

(***************************************************************************)
(* Superadmin.                                                             *)
(***************************************************************************)
uploadMedia(a) == /\ media[a] = "none"
                  /\ media' = [media EXCEPT ![a] = "active"]
                  /\ UNCHANGED <<sync, cache, playlist, torn, powerCuts>>

patchMedia(a, to) == /\ a \in AllMedia
                     /\ media' = [media EXCEPT ![a] = to]
                     /\ UNCHANGED <<sync, cache, playlist, torn, powerCuts>>

deleteMedia(a) == /\ a \in AllMedia
                  /\ media' = [media EXCEPT ![a] = "deleted"]
                  /\ UNCHANGED <<sync, cache, playlist, torn, powerCuts>>

(***************************************************************************)
(* The machine: one run of sync_media is a manifest, a download for every  *)
(* asset that is not cached whole, the removal of stale files and the new  *)
(* playlist.  A run that fails anywhere stops there and is started again.  *)
(***************************************************************************)
manifest == [phase |-> "download", assets |-> AllMedia, items |-> ActiveMedia]

readManifest == /\ sync.phase = "idle"
                /\ Cardinality(AllMedia) <= MaxCached
                /\ sync' = manifest
                /\ UNCHANGED <<media, cache, playlist, torn, powerCuts>>

\* The download route serves active media only.
Served(a) == media[a] = "active"

download(a) == /\ sync.phase = "download"
               /\ a \in sync.assets \ cache
               /\ IF Served(a) THEN cache' = cache \cup {a} /\ UNCHANGED sync
                               ELSE sync' = NoSync /\ UNCHANGED cache
               /\ UNCHANGED <<media, playlist, torn, powerCuts>>

connectionLost == /\ sync.phase = "download" /\ sync.assets \ cache # {}
                  /\ sync' = NoSync
                  /\ UNCHANGED <<media, cache, playlist, torn, powerCuts>>

removeStale == /\ sync.phase = "download" /\ sync.assets \subseteq cache
               /\ cache' = cache \cap sync.assets
               /\ sync' = [sync EXCEPT !.phase = "replace"]
               /\ UNCHANGED <<media, playlist, torn, powerCuts>>

replacePlaylist == /\ sync.phase = "replace"
                   /\ playlist' = sync.items
                   /\ sync' = NoSync /\ torn' = FALSE
                   /\ UNCHANGED <<media, cache, powerCuts>>

\* Power goes: the run in memory is gone, the files and the playlist stay.
mediaPowerCut == /\ powerCuts < MaxPowerCuts
                 /\ powerCuts' = powerCuts + 1
                 /\ torn' = (torn \/ (sync.phase = "replace" /\ ~(playlist \subseteq cache)))
                 /\ sync' = NoSync
                 /\ UNCHANGED <<media, cache, playlist>>

MediaInit == /\ media = [a \in Assets |-> "none"]
             /\ sync = NoSync /\ cache = {} /\ playlist = {} /\ torn = FALSE
             /\ powerCuts = 0

MediaNext == \/ \E a \in Assets : \/ uploadMedia(a) \/ deleteMedia(a) \/ download(a)
                                  \/ \E to \in {"active", "inactive"} : patchMedia(a, to)
             \/ readManifest \/ removeStale \/ replacePlaylist \/ connectionLost
             \/ mediaPowerCut
MediaSpec == MediaInit /\ [][MediaNext]_mediaVars

(***************************************************************************)
(* The sync loop runs sync_media every media_sync_seconds, and a run that  *)
(* can go on does, however often the connection fails in between.          *)
(***************************************************************************)
MediaFairness == /\ WF_mediaVars(readManifest) /\ WF_mediaVars(replacePlaylist)
                 /\ SF_mediaVars(removeStale)
                 /\ \A a \in Assets : SF_mediaVars(download(a))
MediaFairSpec == MediaSpec /\ MediaFairness

(***************************************************************************)
(* Properties.                                                             *)
(***************************************************************************)
(* Every item of the stored playlist is in the cache, verified, so that it  *)
(* plays while the server is unreachable; a failed download, a media change *)
(* during the run or a power cut during the downloads never spoils the      *)
(* playlist in use.  Only the moment between the removal of stale files and *)
(* the new playlist, and a power cut in exactly that moment, break it.      *)
PlaylistPlayable == (playlist \subseteq cache) \/ (sync.phase = "replace") \/ torn

(* Once the superadmin changes nothing more, the machine plays the active   *)
(* items only: what was switched off or deleted leaves its playlist (the    *)
(* superadmin's PATCH and DELETE against sync_media).                       *)
PlaylistFollows == \A a \in Assets :
    (<>[][FALSE]_media /\ <>[](media[a] \in {"inactive", "deleted"})) => <>[](a \notin playlist)
=============================================================================
