---------------------------- MODULE CartridgeRepo ----------------------------
(***************************************************************************)
(* The cartridge repositories (bifaci/cartridge_repo.go): manifests of     *)
(* cartridges in two channels, fetched from several repositories one after *)
(* the other, by several callers at a time, and what is suggested from     *)
(* them.  Times to live are left out; the caller decides when to sync.     *)
(*                                                                         *)
(* A manifest has entries by channel and id; an entry its versions, with   *)
(* "complete" or lacking builds, and its caps in groups.  A cap is a URN   *)
(* that is well-formed or not.                                             *)
(***************************************************************************)
EXTENDS Urns, SequencesExt

CONSTANTS
    Repos, Syncers,
    Lists,              \* the sequences of repositories callers sync
    Manifests,          \* Manifests[r]: what r publishes, one after the other
    Reliable            \* repositories that are never out of reach

VARIABLES
    published,          \* the number of the manifest a repository has, 0 before the first
    offlineFlag,
    caches,             \* by repository, one or none
    syncs               \* the calls of SyncRepos

repoVars == <<published, offlineFlag, caches, syncs>>

-----------------------------------------------------------------------------
(***************************************************************************)
(* CartridgeRepoServer.                                                    *)
(***************************************************************************)

Supported(m) == m.schemaVersion = "5.0"

\* validateVersionData and entryToCartridgeInfo: only the latest version is looked at.
EntryIsUsable(e) ==
    e.latestVersion \in DOMAIN e.versions /\ e.versions[e.latestVersion] = "complete"
CartridgeInfo(key, e) ==
    [channel |-> key[1], id |-> key[2], version |-> e.latestVersion, capGroups |-> e.capGroups]

\* One unusable entry makes the whole manifest unusable.
IsTransformable(m) == Supported(m) /\ \A k \in DOMAIN m.entries : EntryIsUsable(m.entries[k])
\* No manifest yet, a 404, is an empty one.
IsUsable(r, n) == IF n = 0 THEN TRUE ELSE IsTransformable(Manifests[r][n])
TransformToCartridgeArray(m) == [k \in DOMAIN m.entries |-> CartridgeInfo(k, m.entries[k])]

IterCaps(info) == FlattenSeq(info.capGroups)
Declared(info) == {IterCaps(info)[i].urn : i \in DOMAIN IterCaps(info)}

\* The keys of the cartridges with a cap that conforms to the one asked for.
GetCartridgesByCap(cartridges, u) ==
    {k \in DOMAIN cartridges : \E d \in Declared(cartridges[k]) : Accepts(u, d)}

-----------------------------------------------------------------------------
(***************************************************************************)
(* The caches.                                                             *)
(***************************************************************************)

\* updateCache refuses a manifest with a malformed cap.
IsIndexable(cartridges) ==
    \A k \in DOMAIN cartridges : \A i \in DOMAIN IterCaps(cartridges[k]) :
        IterCaps(cartridges[k])[i].valid

\* The keys of a cap; the code lists a key once more for each time a cartridge repeats it.
CapIndex(cartridges) ==
    [u \in UNION {Declared(cartridges[k]) : k \in DOMAIN cartridges} |->
        {k \in DOMAIN cartridges : u \in Declared(cartridges[k])}]

Cache(number, cartridges, index) ==
    [number |-> number, cartridges |-> cartridges, capToCartridges |-> index]

NewCache_KeepIndex(r, number, cartridges) ==
    LET new == CapIndex(cartridges)
        old == IF caches[r] = {} THEN new ELSE (CHOOSE c \in caches[r] : TRUE).capToCartridges
    IN  Cache(number, cartridges,
              [u \in DOMAIN new \cup DOMAIN old |-> IF u \in DOMAIN new THEN new[u] ELSE old[u]])

\* A cache is made anew from a manifest, not changed.
NewCache(r, number, cartridges) == Cache(number, cartridges, CapIndex(cartridges))

-----------------------------------------------------------------------------
(***************************************************************************)
(* SyncRepos.                                                              *)
(***************************************************************************)

Asleep == [pc |-> "idle", list |-> <<>>, number |-> 0]
At(s)  == Head(syncs[s].list)

RepoInit ==
    /\ published = [r \in Repos |-> 0]
    /\ offlineFlag = FALSE
    /\ caches = [r \in Repos |-> {}]
    /\ syncs = [s \in Syncers |-> Asleep]

SyncRepos(s, list) ==
    /\ syncs[s].pc = "idle"
    /\ syncs' = [syncs EXCEPT ![s] = [Asleep EXCEPT !.pc = "next", !.list = list]]
    /\ UNCHANGED <<published, offlineFlag, caches>>

GoesOn(s) == syncs' = [syncs EXCEPT ![s].pc = "next", ![s].list = Tail(@)]

\* A repository that fails is skipped, and what is cached of it stays.
AfterError_GivesUp(s) == syncs' = [syncs EXCEPT ![s] = Asleep]
AfterError(s) == GoesOn(s)

\* The flag blocks fetches that have not begun.
FetchRegistry(s) ==
    /\ syncs[s].pc = "next" /\ syncs[s].list # <<>>
    /\ IF offlineFlag THEN AfterError(s) ELSE syncs' = [syncs EXCEPT ![s].pc = "fetching"]
    /\ UNCHANGED <<published, offlineFlag, caches>>

\* The answer, or an error.
RegistryAnswers(s) ==
    /\ syncs[s].pc = "fetching"
    /\ LET r == At(s)
           n == published[r]
       IN  \/ /\ IsUsable(r, n)
              /\ syncs' = [syncs EXCEPT ![s].pc = "indexing", ![s].number = n]
           \/ /\ r \notin Reliable \/ ~IsUsable(r, n)
              /\ AfterError(s)
    /\ UNCHANGED <<published, offlineFlag, caches>>

\* What manifest number n of a repository gives, 0 being none.
Cartridges(r, n) ==
    IF n = 0 THEN [k \in {} |-> <<>>] ELSE TransformToCartridgeArray(Manifests[r][n])

UpdateCache(s) ==
    /\ syncs[s].pc = "indexing"
    /\ LET r == At(s)
           got == Cartridges(r, syncs[s].number)
       IN  caches' = IF IsIndexable(got)
                     THEN [caches EXCEPT ![r] = {NewCache(r, syncs[s].number, got)}]
                     ELSE caches
    /\ GoesOn(s)
    /\ UNCHANGED <<published, offlineFlag>>

SyncEnds(s) ==
    /\ syncs[s].pc = "next" /\ syncs[s].list = <<>>
    /\ syncs' = [syncs EXCEPT ![s] = Asleep]
    /\ UNCHANGED <<published, offlineFlag, caches>>

SetOffline(offline) ==
    /\ offlineFlag # offline
    /\ offlineFlag' = offline
    /\ UNCHANGED <<published, caches, syncs>>

PublishManifest(r) ==
    /\ published[r] < Len(Manifests[r])
    /\ published' = [published EXCEPT ![r] = @ + 1]
    /\ UNCHANGED <<offlineFlag, caches, syncs>>

SyncStep(s) == FetchRegistry(s) \/ RegistryAnswers(s) \/ UpdateCache(s) \/ SyncEnds(s)

-----------------------------------------------------------------------------
(***************************************************************************)
(* Questions to the caches, each under the lock.                           *)
(***************************************************************************)

GetAllAvailableCaps == UNION {UNION {DOMAIN c.capToCartridges : c \in caches[r]} : r \in Repos}

\* The cartridges with an equivalent cap among those indexed under the URN asked for.
GetSuggestionsForCap(u) ==
    UNION {UNION {{[repo |-> r, key |-> k] : k \in
                      {x \in c.capToCartridges[u] :
                          /\ x \in DOMAIN c.cartridges
                          /\ \E d \in Declared(c.cartridges[x]) : IsEquivalent(d, u)}}
                  : c \in {x \in caches[r] : u \in DOMAIN x.capToCartridges}}
           : r \in Repos}

\* By channel and id; if several repositories have it, any of them.
GetCartridge(key) ==
    UNION {{c.cartridges[key] : c \in {x \in caches[r] : key \in DOMAIN x.cartridges}} : r \in Repos}

GetSuggestionsForMissingCaps(available, requested) ==
    UNION {GetSuggestionsForCap(u) : u \in requested \ available}
=============================================================================
