-------------------------------- MODULE Caches --------------------------------
(***************************************************************************)
(* What a process keeps of remote registries: the definitions of caps      *)
(* (CapRegistry) and the cartridges that offer them (CartridgeRepo). The   *)
(* two share nothing; a behaviour moves one of them.                       *)
(***************************************************************************)
EXTENDS CapRegistry, CartridgeRepo

VARIABLES
    part,       \* "caps" or "repos"
    undone,     \* names whose file may have been lost since a definition was saved
    clearing,   \* what a ClearCache that a caller has begun is to forget
    forgotten   \* what the last ClearCache of a process that succeeded was to forget

histVars == <<part, undone, clearing, forgotten>>
vars == <<capVars, repoVars, histVars>>

Init ==
    /\ part \in {"caps", "repos"}
    /\ CapRegistryInit /\ RepoInit
    /\ undone = {}
    /\ clearing = [c \in Callers |-> {}] /\ forgotten = [p \in Processes |-> {}]

-----------------------------------------------------------------------------

Replaced == UNION {{Definition(n, v) : v \in 1..(registry[n] - 1)} : n \in Served}
InFlight == {calls[c].cap : c \in {x \in Callers : calls[x].pc \in {"saving", "writing", "keeping"}}}
OpenedByOthers(n, c) == n \in DOMAIN files /\ files[n].writers \ {c} # {}
OpenedBy(p) == {n \in DOMAIN files : \E c \in files[n].writers : ProcessOf[c] = p}

ProcessStep(p) ==
    \/ (Start(p) \/ Loaded(p)) /\ UNCHANGED undone
    \/ LoadFile(p) /\ undone' = undone \cup {n \in DOMAIN files \ DOMAIN files' :
                                                files[n].expired \/ files[n].writers # {}}
    \/ Crash(p) /\ undone' = undone \cup OpenedBy(p)

CallStep(c) ==
    \/ /\ (\E s \in Spellings : GetCap(c, s)) \/ Fetched(c) \/ SaveWrites(c) \/ GetCapReturns(c)
          \/ RemoveDir(c)
       /\ UNCHANGED <<undone, clearing, forgotten>>
    \/ /\ SaveOpens(c)
       /\ undone' = undone \cup {n \in {FileName(calls[c])} : OpenedByOthers(n, c)}
       /\ UNCHANGED <<clearing, forgotten>>
    \/ /\ ClearMemory(c)
       /\ clearing' = [clearing EXCEPT ![c] = Replaced \ InFlight]
       /\ UNCHANGED <<undone, forgotten>>
    \/ /\ RemoveFiles(c)
       /\ undone' = Served
       /\ UNCHANGED <<clearing, forgotten>>
    \/ /\ ClearReturns(c)
       /\ forgotten' = [forgotten EXCEPT ![ProcessOf[c]] = clearing[c]]
       /\ clearing' = [clearing EXCEPT ![c] = {}]
       /\ UNCHANGED undone

CapsNext ==
    /\ part = "caps"
    /\ \/ \E p \in Processes : ProcessStep(p) /\ UNCHANGED <<clearing, forgotten>>
       \/ \E c \in Callers : CallStep(c)
       \/ (\E n \in Names : Expire(n) \/ Publish(n)) /\ UNCHANGED <<undone, clearing, forgotten>>
    /\ UNCHANGED <<repoVars, part>>

ReposNext ==
    /\ part = "repos"
    /\ \/ \E s \in Syncers, list \in Lists : SyncRepos(s, list)
       \/ \E s \in Syncers : SyncStep(s)
       \/ \E offline \in BOOLEAN : SetOffline(offline)
       \/ \E r \in Repos : PublishManifest(r)
    /\ UNCHANGED <<capVars, histVars>>

Next == CapsNext \/ ReposNext

\* The goroutine of a sync goes on; a request ends after 30 seconds at the latest.
Fairness == \A s \in Syncers : WF_vars(part = "repos" /\ SyncStep(s) /\ UNCHANGED <<capVars, histVars>>)

Spec == Init /\ [][Next]_vars /\ Fairness

-----------------------------------------------------------------------------
(***************************************************************************)
(* Properties.                                                             *)
(***************************************************************************)

\* However saves, crashes within them, restarts and clears of several processes interleave,
\* what a process has in memory for a spelling, and what it finds under another spelling,
\* is a definition that the server has published for this cap (registry.go:300-345).
OnlyServedDefinitions ==
    \A p \in Processes :
        /\ \A s \in DOMAIN cachedCaps[p] :
              LET d == cachedCaps[p][s]
              IN  s \in Spellings /\ d.urn = OwnName[Canonical[s]] /\ d.version \in 1..registry[d.urn]
        /\ \A s \in Spellings : \A d \in GetCachedCap(p, s) : d.urn = OwnName[Canonical[s]]

\* After ClearCache a process has no definition older than what was published when it
\* began, not even after restarts, but for those that some call had already fetched then:
\* such a call still puts its definition into the file and the memory.
ClearedIsForgotten ==
    \A p \in Processes : Range(cachedCaps[p]) \cap forgotten[p] = {}

\* What is in memory has a file with a definition of that cap, for the next start; unless
\* the directory was cleared, the file expired, or it was written by two at a time, removed
\* while it was written, or left empty by a process that ended (WriteFile is not atomic).
KeptIsSaved ==
    \A p \in Processes : \A s \in DOMAIN cachedCaps[p] :
        LET n == cachedCaps[p][s].urn
        IN  n \notin undone => n \in DOMAIN files /\ (files[n].writers = {} => files[n].whole)

EverPublished ==
    UNION {UNION {DOMAIN CapIndex(Cartridges(r, n)) :
                     n \in {m \in 0..published[r] : IsUsable(r, m)}} : r \in Repos}

\* The three answers of the caches agree: a cap is available exactly if a cartridge is
\* suggested for it, whatever syncs overlap; the suggested cartridge is found by channel
\* and id, and the server would list it for that cap.
AvailableCapsAreSuggested ==
    /\ \A u \in GetAllAvailableCaps :
          GetSuggestionsForMissingCaps(GetAllAvailableCaps \ {u}, {u}) # {}
    /\ \A u \in EverPublished : \A x \in GetSuggestionsForCap(u) :
          /\ u \in GetAllAvailableCaps
          /\ GetCartridge(x.key) # {}
          /\ \E c \in caches[x.repo] : x.key \in GetCartridgesByCap(c.cartridges, u)

\* A sync reaches every repository in its list that can be reached, whatever the ones
\* before it answer (cartridge_repo.go:725): it caches the manifest published when the
\* sync began, or a newer one, if the process is not set offline.
GoodReposAreSynced ==
    \A s \in Syncers, r \in Reliable : \A n \in 0..Len(Manifests[r]) :
        (/\ syncs[s].pc = "next" /\ r \in {syncs[s].list[i] : i \in DOMAIN syncs[s].list}
         /\ published[r] = n /\ part = "repos")
            ~> (offlineFlag \/ \E c \in caches[r] : c.number >= n)
=============================================================================
