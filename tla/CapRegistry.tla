----------------------------- MODULE CapRegistry -----------------------------
(***************************************************************************)
(* The cap registry client (cap/registry.go): definitions in the memory of *)
(* a process, in files shared by all processes of a user, and on a server. *)
(*                                                                         *)
(* A definition is the URN it is for and its version.  A file may be read  *)
(* while another process or goroutine writes it: it is emptied first       *)
(* and filled later, and what is written over a longer text leaves the end *)
(* of that text, which no longer parses.                                   *)
(***************************************************************************)
EXTENDS Functions, FiniteSets, Integers

CONSTANTS
    Spellings, Names,       \* cap URNs as callers write them, and in canonical form
    Canonical,              \* the canonical form of a spelling
    OwnName,                \* the URN in the definition that the server has for a name
    Processes, Callers, ProcessOf,
    Size,                   \* Size[v]: the length of a file with version v
    MaxVersion              \* bound on what the server publishes

ASSUME CapRegistryAssumption ==
    /\ Names \subseteq Spellings
    /\ Canonical \in [Spellings -> Names] /\ \A n \in Names : Canonical[n] = n
    /\ OwnName \in [Names -> Names] /\ \A n \in Names : OwnName[OwnName[n]] = OwnName[n]
    /\ ProcessOf \in [Callers -> Processes]
    /\ MaxVersion \in Nat \ {0}
    /\ Size \in [1..MaxVersion -> Nat \ {0}]

VARIABLES
    registry,       \* the version of each definition on the server
    cacheDir,       \* whether the directory exists
    files,          \* the files in it, by the name in the definition
    process,        \* "down", "loading" or "up"
    toLoad,         \* the files a loading process has yet to read
    cachedCaps,     \* the definitions in the memory of a process, by spelling
    calls           \* what the callers do

capVars == <<registry, cacheDir, files, process, toLoad, cachedCaps, calls>>

Served == Range(OwnName)
Definition(name, version) == [urn |-> name, version |-> version]
NoDefinition == [urn |-> "", version |-> 0]
NoCaps == [s \in {} |-> NoDefinition]
NoFiles == [n \in {} |-> NoDefinition]
Idle == [pc |-> "idle", urn |-> "", cap |-> NoDefinition]

CapRegistryInit ==
    /\ registry = [n \in Served |-> 1]
    /\ cacheDir = FALSE /\ files = NoFiles
    /\ process = [p \in Processes |-> "down"] /\ toLoad = [p \in Processes |-> {}]
    /\ cachedCaps = [p \in Processes |-> NoCaps]
    /\ calls = [c \in Callers |-> Idle]

\* A map with one more entry, or a new value for a key that it has.
With(map, key, value) ==
    [k \in DOMAIN map \cup {key} |-> IF k = key THEN value ELSE map[k]]

Goes(c, pc) == calls' = [calls EXCEPT ![c].pc = pc]
Ends(c)     == calls' = [calls EXCEPT ![c] = Idle]

-----------------------------------------------------------------------------
(***************************************************************************)
(* Files.                                                                  *)
(***************************************************************************)

EmptyFile(writers) ==
    [def |-> NoDefinition, whole |-> FALSE, length |-> 0, expired |-> FALSE, writers |-> writers]

\* Opened for writing: emptied, and known to those who had it open before.
Truncated(fs, name, c) ==
    With(fs, name, EmptyFile({c} \cup (IF name \in DOMAIN fs THEN fs[name].writers ELSE {})))

\* The text goes to the file, unless that was removed since it was opened.
Written(fs, name, c, def) ==
    IF name \in DOMAIN fs /\ c \in fs[name].writers
    THEN LET f == fs[name]
             fits == f.length <= Size[def.version]
         IN  [fs EXCEPT ![name] =
                [def |-> IF fits THEN def ELSE NoDefinition, whole |-> fits, expired |-> FALSE,
                 length |-> IF fits THEN Size[def.version] ELSE f.length,
                 writers |-> f.writers \ {c}]]
    ELSE fs

Without(fs, names) == Restrict(fs, DOMAIN fs \ names)

-----------------------------------------------------------------------------
(***************************************************************************)
(* NewCapRegistry reads the directory and then one file after the other.   *)
(***************************************************************************)

Start(p) ==
    /\ process[p] = "down"
    /\ process' = [process EXCEPT ![p] = "loading"]
    /\ cacheDir' = TRUE
    /\ toLoad' = [toLoad EXCEPT ![p] = DOMAIN files]
    /\ cachedCaps' = [cachedCaps EXCEPT ![p] = NoCaps]
    /\ UNCHANGED <<registry, files, calls>>

ParsesAsEntry_Always(file) == TRUE
ParsesAsEntry(file) == file.whole

\* What cannot be parsed and what has expired is removed; what is gone is skipped.
LoadFile(p) ==
    \E n \in toLoad[p] :
        /\ toLoad' = [toLoad EXCEPT ![p] = @ \ {n}]
        /\ IF n \in DOMAIN files
           THEN LET f == files[n]
                    good == ParsesAsEntry(f) /\ ~f.expired
                IN  IF good
                    THEN /\ cachedCaps' = [cachedCaps EXCEPT ![p] = With(@, f.def.urn, f.def)]
                         /\ UNCHANGED files
                    ELSE files' = Without(files, {n}) /\ UNCHANGED cachedCaps
           ELSE UNCHANGED <<files, cachedCaps>>
        /\ UNCHANGED <<registry, cacheDir, process, calls>>

Loaded(p) ==
    /\ process[p] = "loading" /\ toLoad[p] = {}
    /\ process' = [process EXCEPT ![p] = "up"]
    /\ UNCHANGED <<registry, cacheDir, files, toLoad, cachedCaps, calls>>

\* A process may end at any time; what it has emptied stays empty.
Crash(p) ==
    /\ process[p] # "down"
    /\ process' = [process EXCEPT ![p] = "down"]
    /\ toLoad' = [toLoad EXCEPT ![p] = {}]
    /\ cachedCaps' = [cachedCaps EXCEPT ![p] = NoCaps]
    /\ LET mine == {c \in Callers : ProcessOf[c] = p}
       IN  /\ calls' = [c \in Callers |-> IF c \in mine THEN Idle ELSE calls[c]]
           /\ files' = [n \in DOMAIN files |-> [files[n] EXCEPT !.writers = @ \ mine]]
    /\ UNCHANGED <<registry, cacheDir>>

-----------------------------------------------------------------------------
(***************************************************************************)
(* GetCap.                                                                 *)
(***************************************************************************)

Memory(c) == cachedCaps[ProcessOf[c]]
Keep(c, s, def) ==
    cachedCaps' = [cachedCaps EXCEPT ![ProcessOf[c]] = With(@, s, def)]

\* Looked up as it is written; only what is not there is fetched.
GetCap(c, s) ==
    /\ process[ProcessOf[c]] = "up" /\ calls[c].pc = "idle"
    /\ s \notin DOMAIN Memory(c)
    /\ calls' = [calls EXCEPT ![c] = [Idle EXCEPT !.pc = "fetching", !.urn = s]]
    /\ UNCHANGED <<registry, cacheDir, files, process, toLoad, cachedCaps>>

\* fetchFromRegistry, the answer of the server. One that cannot be used ends the call.
Fetched(c) ==
    /\ calls[c].pc = "fetching"
    /\ LET n == OwnName[Canonical[calls[c].urn]]
       IN  \/ calls' = [calls EXCEPT ![c].pc = "saving", ![c].cap = Definition(n, registry[n])]
           \/ Ends(c)
    /\ UNCHANGED <<registry, cacheDir, files, process, toLoad, cachedCaps>>

\* The file is named after the URN in the definition.
FileName_AsRequested(call) == Canonical[call.urn]
FileName(call) == call.cap.urn

\* saveToCache opens the file. Without the directory that fails, and the call with it.
SaveOpens(c) ==
    /\ calls[c].pc = "saving"
    /\ IF cacheDir
       THEN /\ files' = Truncated(files, FileName(calls[c]), c)
            /\ calls' = [calls EXCEPT ![c].pc = "writing"]
       ELSE Ends(c) /\ UNCHANGED files
    /\ UNCHANGED <<registry, cacheDir, process, toLoad, cachedCaps>>

SaveWrites(c) ==
    /\ calls[c].pc = "writing"
    /\ files' = Written(files, FileName(calls[c]), c, calls[c].cap)
    /\ Goes(c, "keeping")
    /\ UNCHANGED <<registry, cacheDir, process, toLoad, cachedCaps>>

\* Kept as the caller wrote it.
GetCapReturns(c) ==
    /\ calls[c].pc = "keeping"
    /\ Keep(c, calls[c].urn, calls[c].cap)
    /\ Ends(c)
    /\ UNCHANGED <<registry, cacheDir, files, process, toLoad>>

-----------------------------------------------------------------------------
(***************************************************************************)
(* ClearCache.                                                             *)
(***************************************************************************)

Emptied_Nothing(caps, p) == caps
Emptied(caps, p) == [caps EXCEPT ![p] = NoCaps]

ClearMemory(c) ==
    /\ process[ProcessOf[c]] = "up" /\ calls[c].pc = "idle"
    /\ cachedCaps' = Emptied(cachedCaps, ProcessOf[c])
    /\ Goes(c, "clearing")
    /\ UNCHANGED <<registry, cacheDir, files, process, toLoad>>

\* RemoveAll: first the files, then the directory, which fails if there is a new one.
RemoveFiles(c) ==
    /\ calls[c].pc = "clearing"
    /\ files' = NoFiles
    /\ Goes(c, "removing")
    /\ UNCHANGED <<registry, cacheDir, process, toLoad, cachedCaps>>

RemoveDir(c) ==
    /\ calls[c].pc = "removing"
    /\ IF DOMAIN files = {} THEN cacheDir' = FALSE /\ Goes(c, "removed")
       ELSE Ends(c) /\ UNCHANGED cacheDir
    /\ UNCHANGED <<registry, files, process, toLoad, cachedCaps>>

ClearReturns(c) ==
    /\ calls[c].pc = "removed"
    /\ cacheDir' = TRUE
    /\ Ends(c)
    /\ UNCHANGED <<registry, files, process, toLoad, cachedCaps>>

-----------------------------------------------------------------------------

\* GetCachedCap, which looks for the canonical form.
GetCachedCap(p, s) ==
    IF Canonical[s] \in DOMAIN cachedCaps[p] THEN {cachedCaps[p][Canonical[s]]} ELSE {}

Publish(n) ==
    /\ n \in Served /\ registry[n] < MaxVersion
    /\ registry' = [registry EXCEPT ![n] = @ + 1]
    /\ UNCHANGED <<cacheDir, files, process, toLoad, cachedCaps, calls>>

\* CacheEntry.isExpired: 24 hours after it was written.
Expire(n) ==
    /\ n \in DOMAIN files /\ ~files[n].expired
    /\ files' = [files EXCEPT ![n].expired = TRUE]
    /\ UNCHANGED <<registry, cacheDir, process, toLoad, cachedCaps, calls>>
=============================================================================
