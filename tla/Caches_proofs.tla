---------------------------- MODULE Caches_proofs ----------------------------
(***************************************************************************)
(* Machine-checked proofs about Caches, for all values of its constants    *)
(* that satisfy CapRegistryAssumption: about the cap registry, with any    *)
(* spellings and names of caps and any number of processes and callers,    *)
(* and about the cartridge repositories, with any number of repositories,  *)
(* cartridges and caps.                                                    *)
(***************************************************************************)
EXTENDS Caches, TLAPS

-----------------------------------------------------------------------------
(***************************************************************************)
(* The inductive invariant                                                 *)
(***************************************************************************)

Defs     == [urn : Served, version : Nat]
Entries  == [def : Defs \cup {NoDefinition}, whole : BOOLEAN, length : Nat, expired : BOOLEAN,
             writers : SUBSET Callers]
Memories == UNION {[D -> Defs] : D \in SUBSET Spellings}
Clearing == {"clearing", "removing", "removed"}
Saving   == {"saving", "writing", "keeping"}
Calls    == [pc : {"idle", "fetching"} \cup Saving \cup Clearing, urn : Spellings \cup {""},
             cap : Defs \cup {NoDefinition}]

TypeOK ==
  /\ registry \in [Served -> 1..MaxVersion]
  /\ DOMAIN files \subseteq Served /\ files \in [DOMAIN files -> Entries]
  /\ process \in [Processes -> {"down", "loading", "up"}]
  /\ toLoad \in [Processes -> SUBSET Served]
  /\ cachedCaps \in [Processes -> Memories]
  /\ calls \in [Callers -> Calls]
  /\ undone \subseteq Served
  /\ clearing \in [Callers -> SUBSET Defs] /\ forgotten \in [Processes -> SUBSET Defs]

\* What the server has published so far.
Published(d) == d \in Defs /\ d.version \in 1..registry[d.urn]

\* A file holds a definition of the cap it is named after, or nothing of use. One
\* that no writer has been in the way of is whole, or open for one writer and empty.
FileInv(n) ==
  /\ files[n].def # NoDefinition => files[n].def.urn = n /\ Published(files[n].def)
  /\ files[n].whole => files[n].def # NoDefinition
  /\ n \notin undone =>
       /\ files[n].whole \/ files[n].writers # {}
       /\ files[n].writers # {} => files[n].length = 0
       /\ \A c, d \in files[n].writers : c = d

\* A call has the definition of the cap it is for, and its file unless that was lost.
CallInv(c) ==
  /\ calls[c].pc \in {"fetching"} \cup Saving => calls[c].urn \in Spellings
  /\ calls[c].pc \in Saving =>
       /\ calls[c].cap.urn = OwnName[Canonical[calls[c].urn]] /\ Published(calls[c].cap)
       /\ calls[c].pc # "saving" /\ calls[c].cap.urn \notin undone =>
            /\ calls[c].cap.urn \in DOMAIN files
            /\ calls[c].pc = "writing" => c \in files[calls[c].cap.urn].writers

\* What is in memory is for the spelling it is kept under.
MemoryInv(p) ==
  /\ process[p] # "loading" => toLoad[p] = {}
  /\ \A s \in DOMAIN cachedCaps[p] :
       /\ cachedCaps[p][s].urn = OwnName[Canonical[s]] /\ Published(cachedCaps[p][s])
       /\ cachedCaps[p][s].urn \notin undone => cachedCaps[p][s].urn \in DOMAIN files

\* Replaced definitions that no call is about to save and p does not have.
Barred(defs, p) ==
  /\ \A d \in defs : d.version \in 1..(registry[d.urn] - 1)
  /\ \A c \in Callers : calls[c].pc \in Saving => calls[c].cap \notin defs
  /\ \A s \in DOMAIN cachedCaps[p] : cachedCaps[p][s] \notin defs
NotInFiles(defs) == \A n \in DOMAIN files : files[n].def \notin defs

\* A ClearCache under way bars what it is to forget, first from the memory of its
\* process and then also from the files.
ClearInv(c) ==
  calls[c].pc \in Clearing =>
    /\ process[ProcessOf[c]] = "up"
    /\ Barred(clearing[c], ProcessOf[c])
    /\ calls[c].pc # "clearing" => NotInFiles(clearing[c])

\* What has been forgotten remains so, over all restarts.
ForgottenInv(p) == Barred(forgotten[p], p) /\ NotInFiles(forgotten[p])

IInv ==
  /\ TypeOK
  /\ \A n \in DOMAIN files : FileInv(n)
  /\ \A c \in Callers : CallInv(c) /\ ClearInv(c)
  /\ \A p \in Processes : MemoryInv(p) /\ ForgottenInv(p)
-----------------------------------------------------------------------------
(***************************************************************************)
(* Lemmas                                                                  *)
(***************************************************************************)

\* The server answers under a name that is its own canonical form.
LEMMA Naming ==
  /\ Served \subseteq Spellings
  /\ \A s \in Spellings : OwnName[Canonical[s]] \in Served
  /\ \A n \in Served : OwnName[Canonical[n]] = n
BY CapRegistryAssumption DEF Served, Range

\* Nothing is published without a version.
LEMMA NotPublished == ~Published(NoDefinition) /\ NoDefinition.version = 0
BY DEF Published, NoDefinition

\* A map with one more entry.
LEMMA WithMemory ==
  ASSUME NEW m \in Memories, NEW s \in Spellings, NEW d \in Defs
  PROVE  /\ With(m, s, d) \in Memories
         /\ DOMAIN With(m, s, d) = DOMAIN m \cup {s}
         /\ With(m, s, d)[s] = d
         /\ \A k \in DOMAIN m : k # s => With(m, s, d)[k] = m[k]
<1> DEFINE w == With(m, s, d)
<1>1. PICK D \in SUBSET Spellings : m \in [D -> Defs]
  BY DEF Memories
<1>2. w \in [D \cup {s} -> Defs] /\ D \cup {s} \in SUBSET Spellings
  BY <1>1 DEF With
<1> QED BY <1>1, <1>2 DEF With, Memories

LEMMA MemoryType ==
  ASSUME TypeOK, NEW p \in Processes
  PROVE  /\ cachedCaps[p] \in Memories /\ DOMAIN cachedCaps[p] \subseteq Spellings
         /\ \A s \in DOMAIN cachedCaps[p] : cachedCaps[p][s] \in Defs
<1>1. cachedCaps[p] \in Memories
  BY DEF TypeOK
<1>2. PICK D \in SUBSET Spellings : cachedCaps[p] \in [D -> Defs]
  BY <1>1 DEF Memories
<1> QED BY <1>1, <1>2

LEMMA NoCapsIsMemory == NoCaps \in Memories /\ DOMAIN NoCaps = {}
<1>1. NoCaps \in [{} -> Defs] /\ {} \in SUBSET Spellings
  BY DEF NoCaps
<1> QED BY <1>1 DEF Memories

\* A file for a published definition that no writer has been in the way of is
\* written whole.
LEMMA SizeIsPositive ==
  ASSUME TypeOK, NEW d, Published(d)
  PROVE  Size[d.version] \in Nat \ {0}
<1>1. d.urn \in Served /\ d.version \in Nat /\ registry[d.urn] \in 1..MaxVersion
  BY DEF Published, Defs, TypeOK
<1>2. d.version \in 1..MaxVersion
  BY <1>1, CapRegistryAssumption DEF Published
<1> QED BY <1>2, CapRegistryAssumption

-----------------------------------------------------------------------------
(***************************************************************************)
(* Every step preserves the invariant                                      *)
(***************************************************************************)

LEMMA Initially == Init => IInv
<1> SUFFICES ASSUME Init PROVE IInv
  OBVIOUS
<1> USE DEF Init, CapRegistryInit
<1>1. TypeOK
  <2>1. registry \in [Served -> 1..MaxVersion]
    BY CapRegistryAssumption
  <2>2. files \in [DOMAIN files -> Entries] /\ DOMAIN files = {}
    BY DEF NoFiles
  <2>3. cachedCaps \in [Processes -> Memories]
    BY NoCapsIsMemory
  <2>4. calls \in [Callers -> Calls]
    BY DEF Idle, Calls
  <2> QED BY <2>1, <2>2, <2>3, <2>4 DEF TypeOK
<1>2. \A n \in DOMAIN files : FileInv(n)
  BY DEF NoFiles
<1>3. \A c \in Callers : CallInv(c) /\ ClearInv(c)
  BY DEF CallInv, ClearInv, Idle, Saving, Clearing
<1>4. \A p \in Processes : MemoryInv(p) /\ ForgottenInv(p)
  BY NoCapsIsMemory DEF MemoryInv, ForgottenInv, Barred, NotInFiles
<1> QED BY <1>1, <1>2, <1>3, <1>4 DEF IInv

LEMMA StartStep ==
  ASSUME IInv, NEW p \in Processes, Start(p), UNCHANGED <<undone, clearing, forgotten>>
  PROVE  IInv'
<1> USE DEF Start
<1>1. TypeOK'
  BY NoCapsIsMemory DEF IInv, TypeOK
<1>2. \A q \in Processes : process[q] = "up" => process'[q] = "up" /\ cachedCaps'[q] = cachedCaps[q]
  BY DEF IInv, TypeOK
<1>3. \A q \in Processes : q # p => process'[q] = process[q] /\ cachedCaps'[q] = cachedCaps[q] /\ toLoad'[q] = toLoad[q]
  BY DEF IInv, TypeOK
<1>4. cachedCaps'[p] = NoCaps /\ process'[p] = "loading"
  BY DEF IInv, TypeOK
<1>5. \A n \in DOMAIN files' : FileInv(n)'
  BY DEF IInv, FileInv, Published
<1>6. ASSUME NEW c \in Callers PROVE CallInv(c)' /\ ClearInv(c)'
  <2>1. ProcessOf[c] \in Processes
    BY CapRegistryAssumption
  <2>2. CallInv(c)'
    BY DEF IInv, CallInv, Published
  <2>3. ClearInv(c)'
    BY <2>1, <1>2 DEF IInv, ClearInv, Barred, NotInFiles
  <2> QED BY <2>2, <2>3
<1>7. ASSUME NEW q \in Processes PROVE MemoryInv(q)' /\ ForgottenInv(q)'
  <2>1. CASE q = p
    BY <2>1, <1>4, NoCapsIsMemory DEF IInv, MemoryInv, ForgottenInv, Barred, NotInFiles, Published
  <2>2. CASE q # p
    BY <2>2, <1>3 DEF IInv, MemoryInv, ForgottenInv, Barred, NotInFiles, Published
  <2> QED BY <2>1, <2>2
<1> QED BY <1>1, <1>5, <1>6, <1>7 DEF IInv

LEMMA LoadedStep ==
  ASSUME IInv, NEW p \in Processes, Loaded(p), UNCHANGED <<undone, clearing, forgotten>>
  PROVE  IInv'
<1> USE DEF Loaded
<1>1. TypeOK'
  BY DEF IInv, TypeOK
<1>2. \A q \in Processes : /\ process[q] = "up" => process'[q] = "up"
                           /\ process'[q] # "loading" => toLoad[q] = {}
  BY DEF IInv, TypeOK, MemoryInv
<1>3. \A n \in DOMAIN files' : FileInv(n)'
  BY DEF IInv, FileInv, Published
<1>4. ASSUME NEW c \in Callers PROVE CallInv(c)' /\ ClearInv(c)'
  <2>1. ProcessOf[c] \in Processes
    BY CapRegistryAssumption
  <2>2. CallInv(c)'
    BY DEF IInv, CallInv, Published
  <2>3. ClearInv(c)'
    BY <2>1, <1>2 DEF IInv, ClearInv, Barred, NotInFiles
  <2> QED BY <2>2, <2>3
<1>5. ASSUME NEW q \in Processes PROVE MemoryInv(q)' /\ ForgottenInv(q)'
  BY <1>2 DEF IInv, MemoryInv, ForgottenInv, Barred, NotInFiles, Published
<1> QED BY <1>1, <1>3, <1>4, <1>5 DEF IInv

\* A file that is removed may be lost for a definition in memory: it is counted as
\* undone, since otherwise it would be whole and would not be removed.
LEMMA LoadFileStep ==
  ASSUME IInv, NEW p \in Processes, LoadFile(p), UNCHANGED <<clearing, forgotten>>,
         undone' = undone \cup {n \in DOMAIN files \ DOMAIN files' :
                                    files[n].expired \/ files[n].writers # {}}
  PROVE  IInv'
<1>1. PICK n \in toLoad[p] :
        /\ toLoad' = [toLoad EXCEPT ![p] = @ \ {n}]
        /\ \/ UNCHANGED <<files, cachedCaps>>
           \/ /\ n \in DOMAIN files /\ files[n].whole /\ UNCHANGED files
              /\ cachedCaps' = [cachedCaps EXCEPT ![p] = With(@, files[n].def.urn, files[n].def)]
           \/ /\ n \in DOMAIN files /\ (~files[n].whole \/ files[n].expired)
              /\ files' = Without(files, {n}) /\ UNCHANGED cachedCaps
  BY DEF LoadFile, ParsesAsEntry
<1>2. UNCHANGED <<registry, cacheDir, process, calls>>
  BY DEF LoadFile
<1>3. /\ n \in Served /\ process[p] = "loading" /\ toLoad' \in [Processes -> SUBSET Served]
      /\ \A q \in Processes : toLoad'[q] \subseteq toLoad[q]
  BY <1>1 DEF IInv, TypeOK, MemoryInv
<1>4. TypeOK
  BY DEF IInv
<1>5. CASE UNCHANGED <<files, cachedCaps>>
  <2>1. undone' = undone
    BY <1>5
  <2>2. TypeOK'
    BY <1>2, <1>3, <1>4, <1>5, <2>1 DEF TypeOK
  <2>3. \A m \in DOMAIN files' : FileInv(m)'
    BY <1>2, <1>5, <2>1 DEF IInv, FileInv, Published
  <2>4. \A c \in Callers : CallInv(c)' /\ ClearInv(c)'
    BY <1>2, <1>5, <2>1 DEF IInv, CallInv, ClearInv, Barred, NotInFiles, Published
  <2>5. \A q \in Processes : MemoryInv(q)' /\ ForgottenInv(q)'
    BY <1>2, <1>3, <1>5, <2>1 DEF IInv, MemoryInv, ForgottenInv, Barred, NotInFiles, Published
  <2> QED BY <2>2, <2>3, <2>4, <2>5 DEF IInv
<1>6. CASE /\ n \in DOMAIN files /\ files[n].whole /\ UNCHANGED files
           /\ cachedCaps' = [cachedCaps EXCEPT ![p] = With(@, files[n].def.urn, files[n].def)]
  <2> DEFINE d == files[n].def
  <2>1. undone' = undone
    BY <1>6
  <2>2. d.urn = n /\ Published(d)
    BY <1>6 DEF IInv, FileInv
  <2>3. d \in Defs /\ d.urn \in Spellings /\ OwnName[Canonical[d.urn]] = d.urn
    BY <2>2, <1>3, Naming DEF Published
  <2>4. /\ cachedCaps'[p] \in Memories
        /\ DOMAIN cachedCaps'[p] = DOMAIN cachedCaps[p] \cup {d.urn}
        /\ cachedCaps'[p][d.urn] = d
        /\ \A s \in DOMAIN cachedCaps[p] : s # d.urn => cachedCaps'[p][s] = cachedCaps[p][s]
    <3>1. cachedCaps'[p] = With(cachedCaps[p], d.urn, d)
      BY <1>4, <1>6 DEF TypeOK
    <3>2. cachedCaps[p] \in Memories
      BY <1>4, MemoryType
    <3> DEFINE m == cachedCaps[p]
    <3>3. /\ With(m, d.urn, d) \in Memories
          /\ DOMAIN With(m, d.urn, d) = DOMAIN m \cup {d.urn}
          /\ With(m, d.urn, d)[d.urn] = d
          /\ \A s \in DOMAIN m : s # d.urn => With(m, d.urn, d)[s] = m[s]
      <4> HIDE DEF d, m
      <4> QED BY <2>3, <3>2, WithMemory DEF m
    <3>4. PICK w : w = With(m, d.urn, d)
      OBVIOUS
    <3>5. cachedCaps'[p] = w
      BY <3>1, <3>4
    <3>6. /\ w \in Memories /\ DOMAIN w = DOMAIN m \cup {d.urn} /\ w[d.urn] = d
          /\ \A s \in DOMAIN m : s # d.urn => w[s] = m[s]
      <4> HIDE DEF d, m
      <4> QED BY <3>3, <3>4
    <3> QED BY <3>5, <3>6
  <2>5. \A q \in Processes : q # p => cachedCaps'[q] = cachedCaps[q]
    BY <1>4, <1>6 DEF TypeOK
  <2>6. TypeOK'
    <3>1. cachedCaps' \in [Processes -> Memories]
      BY <1>4, <1>6, <2>4 DEF TypeOK
    <3> QED BY <1>2, <1>3, <1>4, <1>6, <2>1, <3>1 DEF TypeOK
  <2>7. \A m \in DOMAIN files' : FileInv(m)'
    BY <1>2, <1>6, <2>1 DEF IInv, FileInv, Published
  <2>8. ASSUME NEW c \in Callers PROVE CallInv(c)' /\ ClearInv(c)'
    <3>1. CallInv(c)'
      BY <1>2, <1>6, <2>1 DEF IInv, CallInv, Published
    <3>2. calls[c].pc \in Clearing => ProcessOf[c] # p /\ ProcessOf[c] \in Processes
      BY <1>3, CapRegistryAssumption DEF IInv, ClearInv
    <3>3. ClearInv(c)'
      BY <1>2, <1>6, <2>5, <3>2 DEF IInv, ClearInv, Barred, NotInFiles
    <3> QED BY <3>1, <3>3
  <2>9. ASSUME NEW q \in Processes PROVE MemoryInv(q)' /\ ForgottenInv(q)'
    <3>1. CASE q # p
      BY <1>2, <1>3, <1>6, <2>1, <2>5, <3>1
         DEF IInv, MemoryInv, ForgottenInv, Barred, NotInFiles, Published
    <3>2. CASE q = p
      <4>1. d \notin forgotten[p]
        BY <1>6 DEF IInv, ForgottenInv, NotInFiles
      <4>2. MemoryInv(p)'
        BY <1>2, <1>3, <1>6, <2>1, <2>2, <2>3, <2>4 DEF IInv, MemoryInv, Published
      <4>3. ForgottenInv(p)'
        BY <1>2, <1>6, <2>4, <4>1 DEF IInv, ForgottenInv, Barred, NotInFiles
      <4> QED BY <3>2, <4>2, <4>3
    <3> QED BY <3>1, <3>2
  <2> QED BY <2>6, <2>7, <2>8, <2>9 DEF IInv
<1>7. CASE /\ n \in DOMAIN files /\ (~files[n].whole \/ files[n].expired)
           /\ files' = Without(files, {n}) /\ UNCHANGED cachedCaps
  <2>1. /\ DOMAIN files' = DOMAIN files \ {n}
        /\ \A m \in DOMAIN files' : files'[m] = files[m]
    BY <1>7 DEF Without, Restrict
  <2>2. n \in undone' /\ undone \subseteq undone' /\ undone' \subseteq Served
    <3>1. n \in undone \/ files[n].expired \/ files[n].writers # {}
      BY <1>7 DEF IInv, FileInv
    <3> QED BY <3>1, <2>1, <1>7, <1>4 DEF TypeOK
  <2>3. TypeOK'
    <3>1. DOMAIN files' \subseteq Served /\ files' \in [DOMAIN files' -> Entries]
      BY <1>4, <1>7, <2>1 DEF TypeOK, Without, Restrict
    <3> QED BY <1>2, <1>3, <1>4, <1>7, <2>2, <3>1 DEF TypeOK
  <2>4. \A m \in DOMAIN files' : FileInv(m)'
    BY <1>2, <2>1, <2>2 DEF IInv, FileInv, Published
  <2>5. ASSUME NEW c \in Callers PROVE CallInv(c)' /\ ClearInv(c)'
    <3>1. CallInv(c)'
      BY <1>2, <2>1, <2>2 DEF IInv, CallInv, Published
    <3>2. ClearInv(c)'
      BY <1>2, <1>7, <2>1 DEF IInv, ClearInv, Barred, NotInFiles
    <3> QED BY <3>1, <3>2
  <2>6. ASSUME NEW q \in Processes PROVE MemoryInv(q)' /\ ForgottenInv(q)'
    <3>1. MemoryInv(q)'
      BY <1>2, <1>3, <1>7, <2>1, <2>2 DEF IInv, MemoryInv, Published
    <3>2. ForgottenInv(q)'
      BY <1>2, <1>7, <2>1 DEF IInv, ForgottenInv, Barred, NotInFiles
    <3> QED BY <3>1, <3>2
  <2> QED BY <2>3, <2>4, <2>5, <2>6 DEF IInv
<1> QED BY <1>1, <1>5, <1>6, <1>7

LEMMA CrashStep ==
  ASSUME IInv, NEW p \in Processes, Crash(p), undone' = undone \cup OpenedBy(p),
         UNCHANGED <<clearing, forgotten>>
  PROVE  IInv'
<1> DEFINE mine == {c \in Callers : ProcessOf[c] = p}
<1>1. /\ process' = [process EXCEPT ![p] = "down"] /\ toLoad' = [toLoad EXCEPT ![p] = {}]
      /\ cachedCaps' = [cachedCaps EXCEPT ![p] = NoCaps]
      /\ calls' = [c \in Callers |-> IF c \in mine THEN Idle ELSE calls[c]]
      /\ files' = [n \in DOMAIN files |-> [files[n] EXCEPT !.writers = @ \ mine]]
      /\ UNCHANGED <<registry, cacheDir>>
  BY DEF Crash
<1>2. TypeOK
  BY DEF IInv
<1>3. /\ \A q \in Processes : q # p => /\ process'[q] = process[q] /\ toLoad'[q] = toLoad[q]
                                       /\ cachedCaps'[q] = cachedCaps[q]
      /\ process'[p] = "down" /\ toLoad'[p] = {} /\ cachedCaps'[p] = NoCaps
  BY <1>1, <1>2 DEF TypeOK
<1>4. \A c \in Callers : /\ ProcessOf[c] = p => calls'[c].pc = "idle"
                         /\ ProcessOf[c] # p => calls'[c] = calls[c]
  BY <1>1 DEF Idle
<1>5. /\ DOMAIN files' = DOMAIN files
      /\ \A n \in DOMAIN files : /\ files'[n].def = files[n].def /\ files'[n].whole = files[n].whole
                                 /\ files'[n].length = files[n].length
                                 /\ files'[n].writers = files[n].writers \ mine
                                 /\ files'[n] \in Entries
  <2>1. \A n \in DOMAIN files : files[n] \in Entries
    BY <1>2 DEF TypeOK
  <2> QED BY <1>1, <2>1 DEF Entries
<1>6. /\ undone \subseteq undone' /\ undone' \subseteq Served
      /\ \A n \in DOMAIN files : n \notin undone' => files'[n].writers = files[n].writers
  <2>1. \A n \in DOMAIN files : files[n].writers \subseteq Callers
    BY <1>2 DEF TypeOK, Entries
  <2>2. \A n \in DOMAIN files : n \notin undone' => files[n].writers \cap mine = {}
    BY <2>1 DEF OpenedBy
  <2>3. undone \subseteq undone' /\ undone' \subseteq Served
    BY <1>2 DEF OpenedBy, TypeOK
  <2> QED BY <1>5, <2>2, <2>3
<1>7. TypeOK'
  <2>1. calls' \in [Callers -> Calls]
    BY <1>1, <1>2 DEF TypeOK, Idle, Calls
  <2>2. cachedCaps' \in [Processes -> Memories]
    BY <1>1, <1>2, NoCapsIsMemory DEF TypeOK
  <2>3. files' \in [DOMAIN files' -> Entries]
    BY <1>1, <1>5
  <2> QED BY <1>1, <1>2, <1>5, <1>6, <2>1, <2>2, <2>3 DEF TypeOK
<1>8. ASSUME NEW n \in DOMAIN files' PROVE FileInv(n)'
  <2>1. FileInv(n) /\ registry' = registry
    BY <1>1, <1>5 DEF IInv
  <2>2. /\ files'[n].def = files[n].def /\ files'[n].whole = files[n].whole
        /\ files'[n].length = files[n].length
        /\ n \notin undone' => n \notin undone /\ files'[n].writers = files[n].writers
    BY <1>5, <1>6
  <2> QED BY <2>1, <2>2 DEF FileInv, Published
<1>9. ASSUME NEW c \in Callers PROVE CallInv(c)' /\ ClearInv(c)'
  <2>1. ProcessOf[c] \in Processes
    BY CapRegistryAssumption
  <2>2. CASE ProcessOf[c] = p
    BY <2>2, <1>4 DEF CallInv, ClearInv, Saving, Clearing
  <2>3. CASE ProcessOf[c] # p
    <3>1. calls'[c] = calls[c] /\ c \notin mine
      BY <2>3, <1>4
    <3>2. CallInv(c)'
      BY <3>1, <1>1, <1>5, <1>6 DEF IInv, CallInv, Published
    <3>3. \A d \in Callers : calls'[d].pc \in Saving => calls'[d] = calls[d]
      BY <1>4 DEF Saving
    <3>4. ClearInv(c)'
      BY <3>1, <3>3, <2>1, <2>3, <1>1, <1>3, <1>5 DEF IInv, ClearInv, Barred, NotInFiles
    <3> QED BY <3>2, <3>4
  <2> QED BY <2>2, <2>3
<1>10. ASSUME NEW q \in Processes PROVE MemoryInv(q)' /\ ForgottenInv(q)'
  <2>1. DOMAIN cachedCaps'[q] \subseteq DOMAIN cachedCaps[q]
        /\ \A s \in DOMAIN cachedCaps'[q] : cachedCaps'[q][s] = cachedCaps[q][s]
    BY <1>3, NoCapsIsMemory
  <2>2. MemoryInv(q)'
    BY <2>1, <1>1, <1>3, <1>5, <1>6 DEF IInv, MemoryInv, Published
  <2>3. \A d \in Callers : calls'[d].pc \in Saving => calls'[d] = calls[d]
    BY <1>4 DEF Saving
  <2>4. ForgottenInv(q)'
    BY <2>1, <2>3, <1>1, <1>5 DEF IInv, ForgottenInv, Barred, NotInFiles
  <2> QED BY <2>2, <2>4
<1> QED BY <1>7, <1>8, <1>9, <1>10 DEF IInv

\* A call that changes nothing but its own state, and neither begins to save nor
\* to clear.
LEMMA CallMoves ==
  ASSUME IInv, NEW c \in Callers, calls' \in [Callers -> Calls],
         \A d \in Callers : d # c => calls'[d] = calls[d],
         CallInv(c)', ClearInv(c)',
         calls'[c].pc \in Saving => calls[c].pc \in Saving /\ calls'[c].cap = calls[c].cap,
         UNCHANGED <<registry, cacheDir, files, process, toLoad, cachedCaps, undone, clearing, forgotten>>
  PROVE  IInv'
<1>1. TypeOK'
  BY DEF IInv, TypeOK
<1>2. \A n \in DOMAIN files' : FileInv(n)'
  BY DEF IInv, FileInv, Published
<1>3. \A d \in Callers : calls'[d].pc \in Saving => calls[d].pc \in Saving /\ calls'[d].cap = calls[d].cap
  OBVIOUS
<1>4. ASSUME NEW d \in Callers PROVE CallInv(d)' /\ ClearInv(d)'
  <2>1. CASE d = c
    BY <2>1
  <2>2. CASE d # c
    <3>1. CallInv(d)'
      BY <2>2 DEF IInv, CallInv, Published
    <3>2. ClearInv(d)'
      BY <2>2, <1>3 DEF IInv, ClearInv, Barred, NotInFiles
    <3> QED BY <3>1, <3>2
  <2> QED BY <2>1, <2>2
<1>5. ASSUME NEW p \in Processes PROVE MemoryInv(p)' /\ ForgottenInv(p)'
  BY <1>3 DEF IInv, MemoryInv, ForgottenInv, Barred, NotInFiles, Published
<1> QED BY <1>1, <1>2, <1>4, <1>5 DEF IInv

LEMMA GetCapStep ==
  ASSUME IInv, NEW c \in Callers, NEW s \in Spellings, GetCap(c, s),
         UNCHANGED <<undone, clearing, forgotten>>
  PROVE  IInv'
<1>1. /\ calls' = [calls EXCEPT ![c] = [Idle EXCEPT !.pc = "fetching", !.urn = s]]
      /\ UNCHANGED <<registry, cacheDir, files, process, toLoad, cachedCaps>>
  BY DEF GetCap
<1>2. calls' \in [Callers -> Calls]
  BY <1>1 DEF IInv, TypeOK, Calls, Idle
<1>3. calls'[c].pc = "fetching" /\ calls'[c].urn = s
  BY <1>1 DEF IInv, TypeOK, Idle
<1>4. \A d \in Callers : d # c => calls'[d] = calls[d]
  BY <1>1 DEF IInv, TypeOK
<1>5. CallInv(c)' /\ ClearInv(c)' /\ calls'[c].pc \notin Saving
  BY <1>3 DEF CallInv, ClearInv, Saving, Clearing
<1> QED BY <1>1, <1>2, <1>4, <1>5, CallMoves

\* A call that ends without having changed anything.
LEMMA EndsStep ==
  ASSUME IInv, NEW c \in Callers, Ends(c),
         UNCHANGED <<registry, cacheDir, files, process, toLoad, cachedCaps, undone, clearing, forgotten>>
  PROVE  IInv'
<1>1. calls' \in [Callers -> Calls]
  BY DEF Ends, IInv, TypeOK, Calls, Idle
<1>2. calls'[c].pc = "idle"
  BY DEF Ends, IInv, TypeOK, Idle
<1>3. \A d \in Callers : d # c => calls'[d] = calls[d]
  BY DEF Ends, IInv, TypeOK
<1>4. CallInv(c)' /\ ClearInv(c)' /\ calls'[c].pc \notin Saving
  BY <1>2 DEF CallInv, ClearInv, Saving, Clearing
<1> QED BY <1>1, <1>3, <1>4, CallMoves

\* What is fetched is the latest version, which nobody is about to forget.
LEMMA FetchedStep ==
  ASSUME IInv, NEW c \in Callers, Fetched(c), UNCHANGED <<undone, clearing, forgotten>>
  PROVE  IInv'
<1> DEFINE n == OwnName[Canonical[calls[c].urn]]
           d == Definition(n, registry[n])
<1>1. CASE Ends(c)
  BY <1>1, EndsStep DEF Fetched
<1>2. CASE calls' = [calls EXCEPT ![c].pc = "saving", ![c].cap = d]
  <2>1. calls[c] \in Calls /\ calls[c].pc = "fetching" /\ calls[c].urn \in Spellings
    BY DEF Fetched, IInv, TypeOK, CallInv
  <2>2. n \in Served
    BY <2>1, Naming
  <2>3. registry[n] \in 1..MaxVersion
    BY <2>2 DEF IInv, TypeOK
  <2>4. d \in Defs /\ d.urn = n /\ d.version = registry[n] /\ Published(d)
    BY <2>2, <2>3, CapRegistryAssumption DEF Definition, Defs, Published
  <2>5. UNCHANGED <<registry, cacheDir, files, process, toLoad, cachedCaps>>
    BY DEF Fetched
  <2> HIDE DEF d
  <2>6. /\ calls'[c].pc = "saving" /\ calls'[c].cap = d /\ calls'[c].urn = calls[c].urn
        /\ calls' \in [Callers -> Calls] /\ \A e \in Callers : e # c => calls'[e] = calls[e]
    <3>1. calls \in [Callers -> Calls]
      BY DEF IInv, TypeOK
    <3>2. calls'[c] = [calls[c] EXCEPT !.pc = "saving", !.cap = d]
      BY <1>2, <3>1
    <3>3. calls'[c] \in Calls /\ calls'[c].pc = "saving" /\ calls'[c].cap = d /\ calls'[c].urn = calls[c].urn
      BY <3>2, <2>1, <2>4 DEF Calls, Saving
    <3> QED BY <3>1, <3>3, <1>2
  <2>7. ASSUME NEW defs, NEW p \in Processes, Barred(defs, p), defs \subseteq Defs PROVE Barred(defs, p)'
    <3>1. d \notin defs
      BY <2>3, <2>4, <2>7, CapRegistryAssumption DEF Barred
    <3> QED BY <3>1, <2>5, <2>6, <2>7 DEF Barred
  <2>8. TypeOK'
    BY <2>5, <2>6 DEF IInv, TypeOK
  <2>9. \A m \in DOMAIN files' : FileInv(m)'
    BY <2>5 DEF IInv, FileInv, Published
  <2>10. ASSUME NEW e \in Callers PROVE CallInv(e)' /\ ClearInv(e)'
    <3>1. CASE e = c
      BY <3>1, <2>1, <2>4, <2>5, <2>6 DEF CallInv, ClearInv, Saving, Clearing, Published
    <3>2. CASE e # c
      <4>1. ProcessOf[e] \in Processes /\ clearing[e] \subseteq Defs
        BY CapRegistryAssumption DEF IInv, TypeOK
      <4>2. CallInv(e)'
        BY <3>2, <2>5, <2>6 DEF IInv, CallInv, Published
      <4>3. ClearInv(e)'
        BY <3>2, <2>5, <2>6, <2>7, <4>1 DEF IInv, ClearInv, NotInFiles
      <4> QED BY <4>2, <4>3
    <3> QED BY <3>1, <3>2
  <2>11. ASSUME NEW p \in Processes PROVE MemoryInv(p)' /\ ForgottenInv(p)'
    <3>1. forgotten[p] \subseteq Defs
      BY DEF IInv, TypeOK
    <3>2. MemoryInv(p)'
      BY <2>5 DEF IInv, MemoryInv, Published
    <3>3. ForgottenInv(p)'
      BY <3>1, <2>5, <2>7 DEF IInv, ForgottenInv, NotInFiles
    <3> QED BY <3>2, <3>3
  <2> QED BY <2>8, <2>9, <2>10, <2>11 DEF IInv
<1> QED BY <1>1, <1>2 DEF Fetched

\* A file that others have open is given up; any other one is opened alone.
LEMMA SaveOpensStep ==
  ASSUME IInv, NEW c \in Callers, SaveOpens(c), UNCHANGED <<clearing, forgotten>>,
         undone' = undone \cup {n \in {FileName(calls[c])} : OpenedByOthers(n, c)}
  PROVE  IInv'
<1> DEFINE n == calls[c].cap.urn
<1>1. /\ calls[c] \in Calls /\ calls[c].pc = "saving" /\ Published(calls[c].cap)
      /\ n = OwnName[Canonical[calls[c].urn]] /\ calls[c].urn \in Spellings /\ n \in Served
  <2>1. calls[c] \in Calls /\ calls[c].pc = "saving" /\ CallInv(c)
    BY DEF SaveOpens, IInv, TypeOK
  <2>2. Published(calls[c].cap) /\ n = OwnName[Canonical[calls[c].urn]] /\ calls[c].urn \in Spellings
    BY <2>1 DEF CallInv, Saving
  <2> QED BY <2>1, <2>2, Naming
<1>2. UNCHANGED <<registry, cacheDir, process, toLoad, cachedCaps>>
  BY DEF SaveOpens
<1>3. undone \subseteq undone' /\ undone' \subseteq Served
  BY <1>1 DEF FileName, IInv, TypeOK
<1>4. CASE ~cacheDir
  <2>1. Ends(c) /\ UNCHANGED files
    BY <1>4 DEF SaveOpens
  <2>2. /\ calls' \in [Callers -> Calls] /\ calls'[c].pc = "idle"
        /\ \A d \in Callers : d # c => calls'[d] = calls[d]
    BY <2>1 DEF Ends, IInv, TypeOK, Calls, Idle
  <2>3. TypeOK'
    BY <1>2, <1>3, <2>1, <2>2 DEF IInv, TypeOK
  <2>4. \A m \in DOMAIN files' : FileInv(m)'
    BY <1>2, <1>3, <2>1 DEF IInv, FileInv, Published
  <2>5. \A d \in Callers : calls'[d].pc \in Saving => calls'[d] = calls[d]
    BY <2>2 DEF Saving
  <2>6. ASSUME NEW d \in Callers PROVE CallInv(d)' /\ ClearInv(d)'
    <3>1. CASE d = c
      BY <3>1, <2>2 DEF CallInv, ClearInv, Saving, Clearing
    <3>2. CASE d # c
      <4>1. CallInv(d)'
        BY <3>2, <1>2, <1>3, <2>1, <2>2 DEF IInv, CallInv, Published
      <4>2. ClearInv(d)'
        BY <3>2, <1>2, <2>1, <2>2, <2>5 DEF IInv, ClearInv, Barred, NotInFiles
      <4> QED BY <4>1, <4>2
    <3> QED BY <3>1, <3>2
  <2>7. ASSUME NEW p \in Processes PROVE MemoryInv(p)' /\ ForgottenInv(p)'
    <3>1. MemoryInv(p)'
      BY <1>2, <1>3, <2>1 DEF IInv, MemoryInv, Published
    <3>2. ForgottenInv(p)'
      BY <1>2, <2>1, <2>5 DEF IInv, ForgottenInv, Barred, NotInFiles
    <3> QED BY <3>1, <3>2
  <2> QED BY <2>3, <2>4, <2>6, <2>7 DEF IInv
<1>5. CASE cacheDir
  <2>1. files' = Truncated(files, n, c) /\ calls' = [calls EXCEPT ![c].pc = "writing"]
    BY <1>5 DEF SaveOpens, FileName
  <2>2. /\ calls' \in [Callers -> Calls] /\ calls'[c].pc = "writing"
        /\ calls'[c].cap = calls[c].cap /\ calls'[c].urn = calls[c].urn
        /\ \A d \in Callers : d # c => calls'[d] = calls[d]
    <3>1. calls \in [Callers -> Calls]
      BY DEF IInv, TypeOK
    <3>2. calls'[c] = [calls[c] EXCEPT !.pc = "writing"]
      BY <2>1, <3>1
    <3>3. /\ calls'[c] \in Calls /\ calls'[c].pc = "writing" /\ calls'[c].cap = calls[c].cap
          /\ calls'[c].urn = calls[c].urn
      BY <3>2, <1>1 DEF Calls, Saving
    <3> QED BY <3>1, <3>3, <2>1
  <2>3. /\ DOMAIN files' = DOMAIN files \cup {n}
        /\ \A m \in DOMAIN files : m # n => files'[m] = files[m]
        /\ files'[n].def = NoDefinition /\ files'[n].whole = FALSE /\ files'[n].length = 0
        /\ files'[n].expired = FALSE
        /\ files'[n].writers = {c} \cup (IF n \in DOMAIN files THEN files[n].writers ELSE {})
    BY <2>1 DEF Truncated, With, EmptyFile
  <2>4. files'[n] \in Entries
    <3>1. files'[n] = EmptyFile({c} \cup (IF n \in DOMAIN files THEN files[n].writers ELSE {}))
      BY <2>1 DEF Truncated, With
    <3>2. n \in DOMAIN files => files[n].writers \subseteq Callers
      BY DEF IInv, TypeOK, Entries
    <3> QED BY <3>1, <3>2 DEF EmptyFile, Entries
  <2>5. TypeOK'
    <3>1. DOMAIN files' \subseteq Served /\ \A m \in DOMAIN files' : files'[m] \in Entries
      BY <1>1, <2>3, <2>4 DEF IInv, TypeOK
    <3>2. files' \in [DOMAIN files' -> Entries]
      BY <3>1, <2>1 DEF Truncated, With
    <3> QED BY <1>2, <1>3, <2>2, <3>1, <3>2 DEF IInv, TypeOK
  <2>6. n \notin undone' => files'[n].writers = {c}
    BY <2>3 DEF OpenedByOthers, FileName
  <2>7. ASSUME NEW m \in DOMAIN files' PROVE FileInv(m)'
    <3>1. CASE m = n
      BY <3>1, <2>3, <2>6 DEF FileInv
    <3>2. CASE m # n
      BY <3>2, <1>2, <1>3, <2>3 DEF IInv, FileInv, Published
    <3> QED BY <3>1, <3>2
  <2>8. ASSUME NEW defs, NEW p, Barred(defs, p) PROVE Barred(defs, p)'
    BY <2>8, <1>1, <1>2, <2>2 DEF Barred, Saving
  <2>9. ASSUME NEW defs, NEW p, Barred(defs, p), NotInFiles(defs) PROVE NotInFiles(defs)'
    <3>1. NoDefinition \notin defs
      BY <2>9, NotPublished DEF Barred
    <3> QED BY <3>1, <2>3, <2>9 DEF NotInFiles
  <2>10. ASSUME NEW d \in Callers PROVE CallInv(d)' /\ ClearInv(d)'
    <3>1. CASE d = c
      <4>1. /\ calls'[d].pc = "writing" /\ calls'[d].cap = calls[c].cap
            /\ calls'[d].urn = calls[c].urn /\ n \in DOMAIN files' /\ c \in files'[n].writers
        BY <3>1, <2>2, <2>3
      <4> QED BY <3>1, <4>1, <1>1, <1>2 DEF CallInv, ClearInv, Saving, Clearing, Published
    <3>2. CASE d # c
      <4>1. \A m \in DOMAIN files : files[m].writers \subseteq files'[m].writers
        BY <2>3
      <4>2. CallInv(d)'
        BY <3>2, <4>1, <1>2, <1>3, <2>2, <2>3 DEF IInv, CallInv, Published
      <4>3. ClearInv(d)'
        BY <3>2, <1>2, <2>2, <2>8, <2>9 DEF IInv, ClearInv
      <4> QED BY <4>2, <4>3
    <3> QED BY <3>1, <3>2
  <2>11. ASSUME NEW p \in Processes PROVE MemoryInv(p)' /\ ForgottenInv(p)'
    <3>1. MemoryInv(p)'
      BY <1>2, <1>3, <2>3 DEF IInv, MemoryInv, Published
    <3>2. ForgottenInv(p)'
      BY <2>8, <2>9 DEF IInv, ForgottenInv
    <3> QED BY <3>1, <3>2
  <2> QED BY <2>5, <2>7, <2>10, <2>11 DEF IInv
<1> QED BY <1>4, <1>5

\* A definition that is written alone fits into the file, which was empty.
LEMMA SaveWritesStep ==
  ASSUME IInv, NEW c \in Callers, SaveWrites(c), UNCHANGED <<undone, clearing, forgotten>>
  PROVE  IInv'
<1>0. PICK d, n : d = calls[c].cap /\ n = d.urn
  OBVIOUS
<1>1. /\ calls[c] \in Calls /\ calls[c].pc = "writing" /\ Published(d) /\ CallInv(c)
      /\ n \in Served /\ Size[d.version] \in Nat \ {0}
  <2>1. calls[c] \in Calls /\ calls[c].pc = "writing" /\ CallInv(c) /\ TypeOK
    BY DEF SaveWrites, IInv, TypeOK
  <2>2. Published(d)
    BY <1>0, <2>1 DEF CallInv, Saving
  <2>3. n \in Served
    BY <1>0, <2>2 DEF Published, Defs
  <2> QED BY <2>1, <2>2, <2>3, SizeIsPositive
<1>2. /\ UNCHANGED <<registry, cacheDir, process, toLoad, cachedCaps>>
      /\ files' = Written(files, n, c, d) /\ calls' = [calls EXCEPT ![c].pc = "keeping"]
  BY <1>0 DEF SaveWrites, FileName, Goes
<1>3. /\ calls' \in [Callers -> Calls] /\ calls'[c].pc = "keeping" /\ calls'[c].cap = d
      /\ calls'[c].urn = calls[c].urn /\ \A e \in Callers : e # c => calls'[e] = calls[e]
  <2>1. calls \in [Callers -> Calls]
    BY DEF IInv, TypeOK
  <2>2. calls'[c] = [calls[c] EXCEPT !.pc = "keeping"]
    BY <1>2, <2>1
  <2>3. calls'[c] \in Calls /\ calls'[c].pc = "keeping" /\ calls'[c].cap = d /\ calls'[c].urn = calls[c].urn
    BY <1>0, <2>2, <1>1 DEF Calls, Saving
  <2> QED BY <2>1, <2>3, <1>2
<1>4. /\ DOMAIN files' = DOMAIN files
      /\ \A m \in DOMAIN files : m # n => files'[m] = files[m]
  BY <1>2 DEF Written
<1>5. ASSUME n \in DOMAIN files, c \in files[n].writers
      PROVE  /\ files' \in [DOMAIN files' -> Entries] /\ \A m \in DOMAIN files' : FileInv(m)'
             /\ \A defs : d \notin defs /\ NoDefinition \notin defs /\ NotInFiles(defs) => NotInFiles(defs)'
             /\ \A m \in DOMAIN files : \A e \in files[m].writers : e # c => e \in files'[m].writers
  <2> DEFINE f == files[n]
             fits == f.length <= Size[d.version]
  <2>1. files'[n] = [def |-> IF fits THEN d ELSE NoDefinition, whole |-> fits, expired |-> FALSE,
                     length |-> IF fits THEN Size[d.version] ELSE f.length,
                     writers |-> f.writers \ {c}]
    BY <1>2, <1>5 DEF Written
  <2>2. f \in Entries /\ FileInv(n)
    BY <1>5 DEF IInv, TypeOK
  <2> DEFINE g == files'[n]
  <2>3. /\ g \in Entries
        /\ g.def # NoDefinition => g.def = d
        /\ g.whole => g.def = d
        /\ n \notin undone => g.whole /\ g.writers = {}
    <3>1. /\ g.def = IF fits THEN d ELSE NoDefinition
          /\ g.whole = fits /\ g.writers = f.writers \ {c}
          /\ g.length = IF fits THEN Size[d.version] ELSE f.length
      BY <2>1
    <3>2. d \in Defs /\ f.length \in Nat /\ fits \in BOOLEAN /\ f.writers \subseteq Callers
      BY <1>1, <2>2 DEF Published, Entries
    <3>3. g \in Entries
      BY <2>1, <3>2, <1>1 DEF Entries
    <3>4. n \notin undone => fits /\ f.writers = {c}
      BY <1>1, <1>5, <2>2 DEF FileInv
    <3> QED BY <3>1, <3>3, <3>4
  <2>4. d # NoDefinition
    BY <1>1, NotPublished
  <2> HIDE DEF g, f
  <2>5. /\ files' \in [DOMAIN files' -> Entries]
        /\ FileInv(n)'
    <3>1. \A m \in DOMAIN files' : files'[m] \in Entries
      BY <1>4, <2>3 DEF IInv, TypeOK, g
    <3>2. files' = [m \in DOMAIN files' |-> files'[m]]
      BY <1>2, <1>5 DEF Written
    <3>3. /\ files'[n].def # NoDefinition => files'[n].def = d
          /\ files'[n].whole => files'[n].def = d
          /\ n \notin undone' => files'[n].whole /\ files'[n].writers = {}
      BY <2>3 DEF g
    <3>4. d.urn = n /\ Published(d)'
      BY <1>0, <1>1, <1>2 DEF Published
    <3>5. FileInv(n)'
      BY <2>4, <3>3, <3>4 DEF FileInv
    <3> QED BY <3>1, <3>2, <3>5
  <2>6. \A m \in DOMAIN files' : FileInv(m)'
    BY <1>2, <1>4, <2>5 DEF IInv, FileInv, Published
  <2>7. \A defs : d \notin defs /\ NoDefinition \notin defs /\ NotInFiles(defs) => NotInFiles(defs)'
    BY <1>4, <2>3 DEF NotInFiles, g
  <2>8. \A m \in DOMAIN files : \A e \in files[m].writers : e # c => e \in files'[m].writers
    BY <1>4, <2>1 DEF f
  <2> QED BY <2>5, <2>6, <2>7, <2>8
<1>6. ASSUME ~(n \in DOMAIN files /\ c \in files[n].writers)
      PROVE  /\ files' \in [DOMAIN files' -> Entries] /\ \A m \in DOMAIN files' : FileInv(m)'
             /\ \A defs : d \notin defs /\ NoDefinition \notin defs /\ NotInFiles(defs) => NotInFiles(defs)'
             /\ \A m \in DOMAIN files : \A e \in files[m].writers : e # c => e \in files'[m].writers
  <2>1. files' = files
    BY <1>2, <1>6 DEF Written
  <2>2. files' \in [DOMAIN files' -> Entries]
    BY <2>1 DEF IInv, TypeOK
  <2>3. ASSUME NEW m \in DOMAIN files' PROVE FileInv(m)'
    <3>1. FileInv(m)
      BY <2>1 DEF IInv
    <3>2. UNCHANGED <<registry, undone>>
      BY <1>2
    <3> QED BY <2>1, <3>1, <3>2 DEF FileInv, Published
  <2> QED BY <2>1, <2>2, <2>3 DEF NotInFiles
<1>7. /\ files' \in [DOMAIN files' -> Entries] /\ \A m \in DOMAIN files' : FileInv(m)'
      /\ \A defs : d \notin defs /\ NoDefinition \notin defs /\ NotInFiles(defs) => NotInFiles(defs)'
      /\ \A m \in DOMAIN files : \A e \in files[m].writers : e # c => e \in files'[m].writers
  BY <1>5, <1>6
<1>8. TypeOK'
  BY <1>2, <1>3, <1>4, <1>7 DEF IInv, TypeOK
<1>9. ASSUME NEW defs, NEW p, Barred(defs, p)
      PROVE  Barred(defs, p)' /\ (NotInFiles(defs) => NotInFiles(defs)')
  <2>1. d \notin defs /\ NoDefinition \notin defs
    BY <1>0, <1>1, <1>9, NotPublished DEF Barred, Saving
  <2> QED BY <1>1, <1>2, <1>3, <1>7, <1>9, <2>1 DEF Barred, Saving
<1>10. ASSUME NEW e \in Callers PROVE CallInv(e)' /\ ClearInv(e)'
  <2>1. CASE e = c
    <3>1. CallInv(c)'
      BY <1>0, <1>1, <1>2, <1>3, <1>4 DEF CallInv, Saving, Published
    <3>2. ClearInv(c)'
      BY <1>3 DEF ClearInv, Clearing
    <3> QED BY <2>1, <3>1, <3>2
  <2>2. CASE e # c
    <3>1. CallInv(e)'
      BY <2>2, <1>2, <1>3, <1>4, <1>7 DEF IInv, CallInv, Published
    <3>2. ClearInv(e)'
      BY <2>2, <1>2, <1>3, <1>9 DEF IInv, ClearInv
    <3> QED BY <3>1, <3>2
  <2> QED BY <2>1, <2>2
<1>11. ASSUME NEW p \in Processes PROVE MemoryInv(p)' /\ ForgottenInv(p)'
  <2>1. MemoryInv(p)'
    BY <1>2, <1>4 DEF IInv, MemoryInv, Published
  <2>2. ForgottenInv(p)'
    BY <1>9 DEF IInv, ForgottenInv
  <2> QED BY <2>1, <2>2
<1> QED BY <1>7, <1>8, <1>10, <1>11 DEF IInv

\* Kept under the spelling of the caller, for which it was fetched.
LEMMA GetCapReturnsStep ==
  ASSUME IInv, NEW c \in Callers, GetCapReturns(c), UNCHANGED <<undone, clearing, forgotten>>
  PROVE  IInv'
<1> DEFINE d == calls[c].cap
           s == calls[c].urn
           p == ProcessOf[c]
<1>1. /\ calls[c].pc = "keeping" /\ s \in Spellings /\ d.urn = OwnName[Canonical[s]]
      /\ Published(d) /\ d \in Defs /\ (d.urn \notin undone => d.urn \in DOMAIN files)
      /\ p \in Processes
  BY CapRegistryAssumption DEF GetCapReturns, IInv, CallInv, Saving, Published
<1>2. /\ UNCHANGED <<registry, cacheDir, files, process, toLoad>>
      /\ cachedCaps' = [cachedCaps EXCEPT ![p] = With(@, s, d)]
  BY DEF GetCapReturns, Keep
<1>3. /\ calls' \in [Callers -> Calls] /\ calls'[c].pc = "idle"
      /\ \A e \in Callers : e # c => calls'[e] = calls[e]
  BY DEF GetCapReturns, Ends, IInv, TypeOK, Calls, Idle
<1>4. /\ cachedCaps'[p] \in Memories
      /\ DOMAIN cachedCaps'[p] = DOMAIN cachedCaps[p] \cup {s}
      /\ cachedCaps'[p][s] = d
      /\ \A k \in DOMAIN cachedCaps[p] : k # s => cachedCaps'[p][k] = cachedCaps[p][k]
  <2>1. cachedCaps'[p] = With(cachedCaps[p], s, d)
    BY <1>1, <1>2 DEF IInv, TypeOK
  <2>2. cachedCaps[p] \in Memories
    BY <1>1, MemoryType DEF IInv
  <2> DEFINE m == cachedCaps[p]
  <2>3. /\ With(m, s, d) \in Memories
        /\ DOMAIN With(m, s, d) = DOMAIN m \cup {s}
        /\ With(m, s, d)[s] = d
        /\ \A k \in DOMAIN m : k # s => With(m, s, d)[k] = m[k]
    <3> HIDE DEF d, s, p, m
    <3> QED BY <1>1, <2>2, WithMemory DEF m
  <2> QED BY <2>1, <2>3
<1>5. /\ \A q \in Processes : q # p => cachedCaps'[q] = cachedCaps[q]
      /\ cachedCaps' \in [Processes -> Memories]
  BY <1>2, <1>4 DEF IInv, TypeOK
<1> HIDE DEF d, s, p
<1>6. TypeOK'
  BY <1>2, <1>3, <1>5 DEF IInv, TypeOK
<1>7. \A m \in DOMAIN files' : FileInv(m)'
  BY <1>2 DEF IInv, FileInv, Published
<1>8. ASSUME NEW defs, NEW q \in Processes, Barred(defs, q) PROVE Barred(defs, q)'
  <2>1. d \notin defs
    BY <1>1, <1>8 DEF Barred, Saving, d
  <2>2. \A e \in Callers : calls'[e].pc \in Saving => calls'[e] = calls[e]
    BY <1>3 DEF Saving
  <2>3. \A k \in DOMAIN cachedCaps'[q] : cachedCaps'[q][k] \notin defs
    BY <1>4, <1>5, <1>8, <2>1 DEF Barred
  <2> QED BY <1>2, <1>8, <2>2, <2>3 DEF Barred
<1>9. ASSUME NEW e \in Callers PROVE CallInv(e)' /\ ClearInv(e)'
  <2>1. CASE e = c
    BY <2>1, <1>3 DEF CallInv, ClearInv, Saving, Clearing
  <2>2. CASE e # c
    <3>1. ProcessOf[e] \in Processes
      BY CapRegistryAssumption
    <3>2. CallInv(e)'
      BY <2>2, <1>2, <1>3 DEF IInv, CallInv, Published
    <3>3. ClearInv(e)'
      BY <2>2, <1>2, <1>3, <1>8, <3>1 DEF IInv, ClearInv, NotInFiles
    <3> QED BY <3>2, <3>3
  <2> QED BY <2>1, <2>2
<1>10. ASSUME NEW q \in Processes PROVE MemoryInv(q)' /\ ForgottenInv(q)'
  <2>1. MemoryInv(q)'
    BY <1>1, <1>2, <1>4, <1>5 DEF IInv, MemoryInv, Published
  <2>2. ForgottenInv(q)'
    BY <1>2, <1>8 DEF IInv, ForgottenInv, NotInFiles
  <2> QED BY <2>1, <2>2
<1> QED BY <1>6, <1>7, <1>9, <1>10 DEF IInv


\* A clear begins with what has been replaced and is not on its way into a file.
LEMMA ClearMemoryStep ==
  ASSUME IInv, NEW c \in Callers, ClearMemory(c), UNCHANGED <<undone, forgotten>>,
         clearing' = [clearing EXCEPT ![c] = Replaced \ InFlight]
  PROVE  IInv'
<1> DEFINE p == ProcessOf[c]
           defs == Replaced \ InFlight
<1>1. /\ p \in Processes /\ process[p] = "up" /\ calls[c].pc = "idle"
      /\ cachedCaps' = [cachedCaps EXCEPT ![p] = NoCaps]
      /\ UNCHANGED <<registry, cacheDir, files, process, toLoad>>
  BY CapRegistryAssumption DEF ClearMemory, Emptied
<1>2. /\ calls' \in [Callers -> Calls] /\ calls'[c].pc = "clearing"
      /\ \A e \in Callers : e # c => calls'[e] = calls[e]
  <2>1. calls \in [Callers -> Calls] /\ calls' = [calls EXCEPT ![c].pc = "clearing"]
    BY DEF IInv, TypeOK, ClearMemory, Goes
  <2>2. calls'[c] = [calls[c] EXCEPT !.pc = "clearing"] /\ calls[c] \in Calls
    BY <2>1
  <2>3. calls'[c] \in Calls /\ calls'[c].pc = "clearing"
    BY <2>2 DEF Calls, Clearing
  <2> QED BY <2>1, <2>3
<1>3. /\ cachedCaps' \in [Processes -> Memories] /\ cachedCaps'[p] = NoCaps
      /\ \A q \in Processes : q # p => cachedCaps'[q] = cachedCaps[q]
  BY <1>1, NoCapsIsMemory DEF IInv, TypeOK
<1>4. \A d \in Replaced : d \in Defs /\ d.version \in 1..(registry[d.urn] - 1)
  <2> SUFFICES ASSUME NEW n \in Served, NEW v \in 1..(registry[n] - 1)
               PROVE  LET d == Definition(n, v) IN d \in Defs /\ d.urn = n /\ d.version = v
    BY DEF Replaced
  <2>1. registry[n] \in Nat /\ v \in Nat
    BY CapRegistryAssumption DEF IInv, TypeOK
  <2> QED BY <2>1 DEF Definition, Defs
<1>5. \A e \in Callers : calls'[e].pc \in Saving => calls'[e] = calls[e] /\ calls[e].cap \in InFlight
  BY <1>2 DEF Saving, InFlight
<1>6. /\ clearing'[c] = defs /\ clearing' \in [Callers -> SUBSET Defs]
      /\ \A e \in Callers : e # c => clearing'[e] = clearing[e]
  BY <1>4 DEF IInv, TypeOK
<1>7. Barred(clearing[c], p)'
  <2>1. \A d \in clearing'[c] : d.version \in 1..(registry'[d.urn] - 1)
    BY <1>1, <1>4, <1>6
  <2>2. \A e \in Callers : calls'[e].pc \in Saving => calls'[e].cap \notin clearing'[c]
    BY <1>5, <1>6
  <2>3. DOMAIN cachedCaps'[p] = {}
    BY <1>3, NoCapsIsMemory
  <2> QED BY <2>1, <2>2, <2>3 DEF Barred
<1> HIDE DEF defs, p
<1>8. ASSUME NEW X, NEW q \in Processes, Barred(X, q) PROVE Barred(X, q)'
  <2>1. \A s \in DOMAIN cachedCaps'[q] : s \in DOMAIN cachedCaps[q] /\ cachedCaps'[q][s] = cachedCaps[q][s]
    BY <1>3, NoCapsIsMemory
  <2> QED BY <1>1, <1>5, <1>8, <2>1 DEF Barred
<1>9. TypeOK'
  BY <1>1, <1>2, <1>3, <1>6 DEF IInv, TypeOK
<1>10. \A n \in DOMAIN files' : FileInv(n)'
  BY <1>1 DEF IInv, FileInv, Published
<1>11. ASSUME NEW e \in Callers PROVE CallInv(e)' /\ ClearInv(e)'
  <2>1. CASE e = c
    BY <2>1, <1>1, <1>2, <1>7 DEF CallInv, ClearInv, Saving, Clearing, p
  <2>2. CASE e # c
    <3>1. ProcessOf[e] \in Processes
      BY CapRegistryAssumption
    <3>2. CallInv(e)'
      BY <2>2, <1>1, <1>2 DEF IInv, CallInv, Published
    <3>3. ClearInv(e)'
      BY <2>2, <1>1, <1>2, <1>6, <1>8, <3>1 DEF IInv, ClearInv, NotInFiles
    <3> QED BY <3>2, <3>3
  <2> QED BY <2>1, <2>2
<1>12. ASSUME NEW q \in Processes PROVE MemoryInv(q)' /\ ForgottenInv(q)'
  <2>1. MemoryInv(q)'
    <3>1. \A s \in DOMAIN cachedCaps'[q] : s \in DOMAIN cachedCaps[q] /\ cachedCaps'[q][s] = cachedCaps[q][s]
      BY <1>3, NoCapsIsMemory
    <3> QED BY <1>1, <3>1 DEF IInv, MemoryInv, Published
  <2>2. ForgottenInv(q)'
    BY <1>1, <1>8 DEF IInv, ForgottenInv, NotInFiles
  <2> QED BY <2>1, <2>2
<1> QED BY <1>9, <1>10, <1>11, <1>12 DEF IInv

\* A clear in its next stage.
LEMMA ClearMoves ==
  ASSUME IInv, NEW c \in Callers, NEW pc \in Clearing, calls[c].pc \in Clearing,
         calls' = [calls EXCEPT ![c].pc = pc]
  PROVE  /\ calls' \in [Callers -> Calls] /\ calls'[c].pc = pc
         /\ \A e \in Callers : e # c => calls'[e] = calls[e]
         /\ \A e \in Callers : calls'[e].pc \in Saving => calls'[e] = calls[e]
<1>1. calls \in [Callers -> Calls]
  BY DEF IInv, TypeOK
<1>2. calls'[c] = [calls[c] EXCEPT !.pc = pc] /\ calls[c] \in Calls
  BY <1>1
<1>3. calls'[c] \in Calls /\ calls'[c].pc = pc
  <2>1. calls'[c] = [pc |-> pc, urn |-> calls[c].urn, cap |-> calls[c].cap]
    BY <1>2 DEF Calls
  <2>2. calls[c].urn \in Spellings \cup {""} /\ calls[c].cap \in Defs \cup {NoDefinition}
    BY <1>2 DEF Calls
  <2>3. pc \in {"idle", "fetching"} \cup Saving \cup Clearing
    OBVIOUS
  <2>4. [pc |-> pc, urn |-> calls[c].urn, cap |-> calls[c].cap] \in Calls
    BY <2>2, <2>3 DEF Calls
  <2> QED BY <2>1, <2>4
<1>4. pc \notin Saving
  BY DEF Clearing, Saving
<1> QED BY <1>1, <1>3, <1>4

\* Without files nothing old is in a file, and everything may be undone.
LEMMA RemoveFilesStep ==
  ASSUME IInv, NEW c \in Callers, RemoveFiles(c), undone' = Served, UNCHANGED <<clearing, forgotten>>
  PROVE  IInv'
<1>1. /\ UNCHANGED <<registry, cacheDir, process, toLoad, cachedCaps>>
      /\ files' = NoFiles /\ DOMAIN files' = {} /\ calls[c].pc = "clearing"
      /\ calls' = [calls EXCEPT ![c].pc = "removing"]
  BY DEF RemoveFiles, Goes, NoFiles
<1>2. /\ calls' \in [Callers -> Calls] /\ calls'[c].pc = "removing"
      /\ \A e \in Callers : e # c => calls'[e] = calls[e]
      /\ \A e \in Callers : calls'[e].pc \in Saving => calls'[e] = calls[e]
  <2>1. calls[c].pc \in Clearing /\ "removing" \in Clearing
    BY <1>1 DEF Clearing
  <2> QED BY <1>1, <2>1, ClearMoves
<1>3. TypeOK'
  <2>1. files' \in [DOMAIN files' -> Entries]
    BY <1>1 DEF NoFiles
  <2> QED BY <1>1, <1>2, <2>1 DEF IInv, TypeOK
<1>4. \A n \in DOMAIN files' : FileInv(n)'
  BY <1>1
<1>5. \A X : NotInFiles(X)'
  BY <1>1 DEF NotInFiles
<1>6. ASSUME NEW e \in Callers PROVE CallInv(e)' /\ ClearInv(e)'
  <2>1. CallInv(e)'
    <3>1. calls'[e].pc \in {"fetching"} \cup Saving => calls'[e] = calls[e]
      BY <1>2
    <3>2. \A d : Published(d) => d.urn \in Served
      BY DEF Published, Defs
    <3>3. CASE calls'[e].pc \in {"fetching"} \cup Saving
      <4>1. CallInv(e) /\ calls'[e] = calls[e] /\ registry' = registry
        BY <3>1, <3>3, <1>1 DEF IInv
      <4>2. calls'[e].pc \in Saving => calls'[e].cap.urn \in undone'
        BY <3>2, <4>1 DEF CallInv
      <4> QED BY <4>1, <4>2 DEF CallInv, Published
    <3>4. CASE calls'[e].pc \notin {"fetching"} \cup Saving
      BY <3>4 DEF CallInv
    <3> QED BY <3>3, <3>4
  <2>2. ClearInv(e)'
    BY <1>1, <1>2, <1>5 DEF IInv, ClearInv, Barred, Clearing
  <2> QED BY <2>1, <2>2
<1>7. ASSUME NEW q \in Processes PROVE MemoryInv(q)' /\ ForgottenInv(q)'
  <2>1. MemoryInv(q)'
    <3>1. \A d : Published(d) => d.urn \in Served
      BY DEF Published, Defs
    <3> QED BY <1>1, <3>1 DEF IInv, MemoryInv, Published
  <2>2. ForgottenInv(q)'
    BY <1>1, <1>2, <1>5 DEF IInv, ForgottenInv, Barred
  <2> QED BY <2>1, <2>2
<1> QED BY <1>3, <1>4, <1>6, <1>7 DEF IInv

LEMMA RemoveDirStep ==
  ASSUME IInv, NEW c \in Callers, RemoveDir(c), UNCHANGED <<undone, clearing, forgotten>>
  PROVE  IInv'
<1>1. /\ UNCHANGED <<registry, files, process, toLoad, cachedCaps>> /\ calls[c].pc = "removing"
      /\ \/ calls' = [calls EXCEPT ![c].pc = "removed"]
         \/ calls' = [calls EXCEPT ![c] = Idle]
  BY DEF RemoveDir, Goes, Ends
<1>2. /\ calls' \in [Callers -> Calls] /\ calls'[c].pc \in {"removed", "idle"}
      /\ \A e \in Callers : e # c => calls'[e] = calls[e]
  <2>1. CASE calls' = [calls EXCEPT ![c].pc = "removed"]
    <3>1. calls[c].pc \in Clearing /\ "removed" \in Clearing
      BY <1>1 DEF Clearing
    <3> QED BY <2>1, <3>1, ClearMoves
  <2>2. CASE calls' = [calls EXCEPT ![c] = Idle]
    BY <2>2 DEF IInv, TypeOK, Calls, Idle
  <2> QED BY <1>1, <2>1, <2>2
<1>3. TypeOK' /\ \A n \in DOMAIN files' : FileInv(n)'
  BY <1>1, <1>2 DEF IInv, TypeOK, FileInv, Published
<1>4. \A e \in Callers : calls'[e].pc \in Saving => calls'[e] = calls[e]
  BY <1>2 DEF Saving
<1>5. ASSUME NEW e \in Callers PROVE CallInv(e)' /\ ClearInv(e)'
  <2>1. CallInv(e)'
    <3>1. calls'[e].pc \in {"fetching"} \cup Saving => calls'[e] = calls[e]
      BY <1>2 DEF Saving
    <3> QED BY <1>1, <3>1 DEF IInv, CallInv, Published
  <2>2. ClearInv(e)'
    BY <1>1, <1>2, <1>4 DEF IInv, ClearInv, Barred, NotInFiles, Clearing
  <2> QED BY <2>1, <2>2
<1>6. \A q \in Processes : MemoryInv(q)' /\ ForgottenInv(q)'
  BY <1>1, <1>4 DEF IInv, MemoryInv, ForgottenInv, Barred, NotInFiles, Published
<1> QED BY <1>3, <1>5, <1>6 DEF IInv

LEMMA ClearReturnsStep ==
  ASSUME IInv, NEW c \in Callers, ClearReturns(c), UNCHANGED undone,
         forgotten' = [forgotten EXCEPT ![ProcessOf[c]] = clearing[c]],
         clearing' = [clearing EXCEPT ![c] = {}]
  PROVE  IInv'
<1>1. /\ UNCHANGED <<registry, files, process, toLoad, cachedCaps>> /\ calls[c].pc = "removed"
      /\ calls' = [calls EXCEPT ![c] = Idle] /\ ProcessOf[c] \in Processes
  BY CapRegistryAssumption DEF ClearReturns, Ends
<1>2. /\ calls' \in [Callers -> Calls] /\ calls'[c].pc = "idle"
      /\ \A e \in Callers : e # c => calls'[e] = calls[e] /\ clearing'[e] = clearing[e]
  BY <1>1 DEF IInv, TypeOK, Calls, Idle
<1>3. TypeOK'
  BY <1>1, <1>2 DEF IInv, TypeOK
<1>4. \A n \in DOMAIN files' : FileInv(n)'
  BY <1>1 DEF IInv, FileInv, Published
<1>5. \A e \in Callers : calls'[e].pc \in Saving => calls'[e] = calls[e]
  BY <1>2 DEF Saving
<1>6. ASSUME NEW e \in Callers PROVE CallInv(e)' /\ ClearInv(e)'
  <2>1. CASE e = c
    BY <2>1, <1>2 DEF CallInv, ClearInv, Saving, Clearing
  <2>2. CASE e # c
    <3>1. CallInv(e)'
      BY <2>2, <1>1, <1>2 DEF IInv, CallInv, Published
    <3>2. ClearInv(e)'
      BY <2>2, <1>1, <1>2, <1>5 DEF IInv, ClearInv, Barred, NotInFiles
    <3> QED BY <3>1, <3>2
  <2> QED BY <2>1, <2>2
<1>7. ASSUME NEW q \in Processes PROVE MemoryInv(q)' /\ ForgottenInv(q)'
  <2>1. MemoryInv(q)'
    BY <1>1 DEF IInv, MemoryInv, Published
  <2>2. Barred(forgotten'[q], q) /\ NotInFiles(forgotten'[q])
    <3>1. CASE q = ProcessOf[c]
      <4>1. forgotten'[q] = clearing[c]
        BY <3>1 DEF IInv, TypeOK
      <4> QED BY <3>1, <4>1, <1>1 DEF IInv, ClearInv, Clearing
    <3>2. CASE q # ProcessOf[c]
      <4>1. forgotten'[q] = forgotten[q]
        BY <3>2 DEF IInv, TypeOK
      <4> QED BY <4>1 DEF IInv, ForgottenInv
    <3> QED BY <3>1, <3>2
  <2>3. ForgottenInv(q)'
    BY <2>2, <1>1, <1>2 DEF ForgottenInv, Barred, NotInFiles, Saving
  <2> QED BY <2>1, <2>3
<1> QED BY <1>3, <1>4, <1>6, <1>7 DEF IInv

\* The server publishes a new version of a definition.
LEMMA PublishStep ==
  ASSUME IInv, NEW n \in Names, Publish(n), UNCHANGED <<undone, clearing, forgotten>>
  PROVE  IInv'
<1>1. /\ n \in Served /\ registry' = [registry EXCEPT ![n] = @ + 1] /\ registry[n] < MaxVersion
      /\ UNCHANGED <<cacheDir, files, process, toLoad, cachedCaps, calls>>
  BY DEF Publish
<1>2. /\ registry' \in [Served -> 1..MaxVersion]
      /\ \A m \in Served : registry[m] \in Nat /\ registry'[m] \in Nat /\ registry[m] <= registry'[m]
  BY <1>1, CapRegistryAssumption DEF IInv, TypeOK
<1>3. \A d : Published(d) => Published(d)'
  BY <1>2 DEF Published, Defs
<1>4. \A d \in Defs : d.version \in 1..(registry[d.urn] - 1) => d.version \in 1..(registry'[d.urn] - 1)
  BY <1>2 DEF Defs
<1>5. TypeOK'
  BY <1>1, <1>2 DEF IInv, TypeOK
<1>6. \A m \in DOMAIN files' : FileInv(m)'
  BY <1>1, <1>3 DEF IInv, FileInv
<1>7. ASSUME NEW c \in Callers PROVE CallInv(c)' /\ ClearInv(c)'
  <2>1. clearing[c] \subseteq Defs
    BY DEF IInv, TypeOK
  <2>2. CallInv(c)'
    BY <1>1, <1>3 DEF IInv, CallInv
  <2>3. ClearInv(c)'
    BY <2>1, <1>1, <1>4 DEF IInv, ClearInv, Barred, NotInFiles
  <2> QED BY <2>2, <2>3
<1>8. ASSUME NEW p \in Processes PROVE MemoryInv(p)' /\ ForgottenInv(p)'
  <2>1. forgotten[p] \subseteq Defs
    BY DEF IInv, TypeOK
  <2>2. MemoryInv(p)'
    BY <1>1, <1>3 DEF IInv, MemoryInv
  <2>3. ForgottenInv(p)'
    BY <2>1, <1>1, <1>4 DEF IInv, ForgottenInv, Barred, NotInFiles
  <2> QED BY <2>2, <2>3
<1> QED BY <1>5, <1>6, <1>7, <1>8 DEF IInv

LEMMA ExpireStep ==
  ASSUME IInv, NEW n \in Names, Expire(n), UNCHANGED <<undone, clearing, forgotten>>
  PROVE  IInv'
<1>1. /\ n \in DOMAIN files /\ files' = [files EXCEPT ![n].expired = TRUE]
      /\ UNCHANGED <<registry, cacheDir, process, toLoad, cachedCaps, calls>>
  BY DEF Expire
<1>2. /\ DOMAIN files' = DOMAIN files /\ files' \in [DOMAIN files' -> Entries]
      /\ \A m \in DOMAIN files :
            /\ files'[m].def = files[m].def /\ files'[m].whole = files[m].whole
            /\ files'[m].length = files[m].length /\ files'[m].writers = files[m].writers
  <2>1. files \in [DOMAIN files -> Entries] /\ files[n] \in Entries
    BY <1>1 DEF IInv, TypeOK
  <2>2. /\ files'[n] = [files[n] EXCEPT !.expired = TRUE]
        /\ \A m \in DOMAIN files : m # n => files'[m] = files[m]
    BY <1>1, <2>1
  <2>3. /\ files'[n] \in Entries
        /\ files'[n].def = files[n].def /\ files'[n].whole = files[n].whole
        /\ files'[n].length = files[n].length /\ files'[n].writers = files[n].writers
    BY <2>1, <2>2 DEF Entries
  <2> QED BY <1>1, <2>1, <2>2, <2>3
<1>3. TypeOK'
  BY <1>1, <1>2 DEF IInv, TypeOK
<1>4. \A m \in DOMAIN files' : FileInv(m)'
  BY <1>1, <1>2 DEF IInv, FileInv, Published
<1>5. \A c \in Callers : CallInv(c)' /\ ClearInv(c)'
  BY <1>1, <1>2 DEF IInv, CallInv, ClearInv, Barred, NotInFiles, Published
<1>6. \A p \in Processes : MemoryInv(p)' /\ ForgottenInv(p)'
  BY <1>1, <1>2 DEF IInv, MemoryInv, ForgottenInv, Barred, NotInFiles, Published
<1> QED BY <1>3, <1>4, <1>5, <1>6 DEF IInv

\* A step that moves only the repositories, or nothing.
LEMMA OtherStep ==
  ASSUME IInv, UNCHANGED <<capVars, undone, clearing, forgotten>>
  PROVE  IInv'
<1> USE DEF capVars
<1>1. TypeOK' /\ \A m \in DOMAIN files' : FileInv(m)'
  BY DEF IInv, TypeOK, FileInv, Published
<1>2. \A c \in Callers : CallInv(c)' /\ ClearInv(c)'
  BY DEF IInv, CallInv, ClearInv, Barred, NotInFiles, Published
<1>3. \A p \in Processes : MemoryInv(p)' /\ ForgottenInv(p)'
  BY DEF IInv, MemoryInv, ForgottenInv, Barred, NotInFiles, Published
<1> QED BY <1>1, <1>2, <1>3 DEF IInv

LEMMA Step == IInv /\ [Next]_vars => IInv'
<1> SUFFICES ASSUME IInv, [Next]_vars PROVE IInv'
  OBVIOUS
<1>1. CASE CapsNext
  <2>1. ASSUME NEW p \in Processes, ProcessStep(p), UNCHANGED <<clearing, forgotten>> PROVE IInv'
    BY <2>1, StartStep, LoadedStep, LoadFileStep, CrashStep DEF ProcessStep
  <2>2. ASSUME NEW c \in Callers, CallStep(c) PROVE IInv'
    <3>1. CASE /\ (\E s \in Spellings : GetCap(c, s)) \/ Fetched(c) \/ SaveWrites(c) \/ GetCapReturns(c)
                  \/ RemoveDir(c)
               /\ UNCHANGED <<undone, clearing, forgotten>>
      BY <3>1, GetCapStep, FetchedStep, SaveWritesStep, GetCapReturnsStep, RemoveDirStep
    <3>2. CASE /\ SaveOpens(c) /\ UNCHANGED <<clearing, forgotten>>
               /\ undone' = undone \cup {n \in {FileName(calls[c])} : OpenedByOthers(n, c)}
      BY <3>2, SaveOpensStep
    <3>3. CASE /\ ClearMemory(c) /\ UNCHANGED <<undone, forgotten>>
               /\ clearing' = [clearing EXCEPT ![c] = Replaced \ InFlight]
      BY <3>3, ClearMemoryStep
    <3>4. CASE RemoveFiles(c) /\ undone' = Served /\ UNCHANGED <<clearing, forgotten>>
      BY <3>4, RemoveFilesStep
    <3>5. CASE /\ ClearReturns(c) /\ UNCHANGED undone
               /\ forgotten' = [forgotten EXCEPT ![ProcessOf[c]] = clearing[c]]
               /\ clearing' = [clearing EXCEPT ![c] = {}]
      BY <3>5, ClearReturnsStep
    <3> QED BY <2>2, <3>1, <3>2, <3>3, <3>4, <3>5 DEF CallStep
  <2>3. ASSUME NEW n \in Names, Expire(n) \/ Publish(n), UNCHANGED <<undone, clearing, forgotten>>
        PROVE  IInv'
    BY <2>3, ExpireStep, PublishStep
  <2> QED BY <1>1, <2>1, <2>2, <2>3 DEF CapsNext
<1>2. CASE ReposNext
  BY <1>2, OtherStep DEF ReposNext, histVars
<1>3. CASE UNCHANGED vars
  BY <1>3, OtherStep DEF vars, histVars
<1> QED BY <1>1, <1>2, <1>3 DEF Next

-----------------------------------------------------------------------------
(***************************************************************************)
(* The theorems                                                            *)
(***************************************************************************)

\* The inductive invariant holds in all behaviours of the two caches.
THEOREM Invariance == Spec => []IInv
  BY Initially, Step, PTL DEF Spec

\* Whatever a process has in memory for a spelling is a definition that the server
\* has published for this cap, under whichever spelling it is looked up, for any number
\* of processes that save, load, clear and crash (GetCap, loadAllCachedCaps).
THEOREM ServedOnly == Spec => []OnlyServedDefinitions
<1>1. IInv => OnlyServedDefinitions
  <2> SUFFICES ASSUME IInv, NEW p \in Processes
               PROVE  /\ \A s \in DOMAIN cachedCaps[p] :
                            LET d == cachedCaps[p][s]
                            IN  /\ s \in Spellings /\ d.urn = OwnName[Canonical[s]]
                                /\ d.version \in 1..registry[d.urn]
                      /\ \A s \in Spellings : \A d \in GetCachedCap(p, s) : d.urn = OwnName[Canonical[s]]
    BY DEF OnlyServedDefinitions
  <2>1. \A s \in DOMAIN cachedCaps[p] :
          /\ s \in Spellings /\ cachedCaps[p][s].urn = OwnName[Canonical[s]]
          /\ Published(cachedCaps[p][s])
    BY MemoryType DEF IInv, MemoryInv
  <2>2. \A s \in Spellings : Canonical[Canonical[s]] = Canonical[s]
    BY CapRegistryAssumption
  <2> QED BY <2>1, <2>2 DEF Published, GetCachedCap
<1> QED BY <1>1, Invariance, PTL

\* What ClearCache has removed does not come back, over all restarts and whatever
\* other processes save, but for what some call had already fetched (ClearCache).
THEOREM ClearedStaysForgotten == Spec => []ClearedIsForgotten
<1>1. IInv => ClearedIsForgotten
  BY DEF IInv, ForgottenInv, Barred, ClearedIsForgotten, Range
<1> QED BY <1>1, Invariance, PTL

\* A definition in memory has its file, whole unless somebody has it open, if no clear,
\* expiry, crash or second writer got in the way (saveToCache).
THEOREM KeptDefinitionsAreSaved == Spec => []KeptIsSaved
<1>1. IInv => KeptIsSaved
  BY DEF IInv, MemoryInv, FileInv, KeptIsSaved
<1> QED BY <1>1, Invariance, PTL
-----------------------------------------------------------------------------
(***************************************************************************)
(* The cartridge repositories                                              *)
(***************************************************************************)

RepoTypeOK ==
  /\ published \in [Repos -> Nat]
  /\ caches = [r \in Repos |-> caches[r]]
  /\ syncs = [s \in Syncers |->
                [pc |-> syncs[s].pc, list |-> syncs[s].list, number |-> syncs[s].number]]

\* A usable manifest that a repository has published by now.
Usable(r, n) == n \in 0..published[r] /\ IsUsable(r, n)

\* A sync that is to index a manifest has one of the repository it is at.
SyncInv(s) ==
  syncs[s].pc = "indexing" /\ At(s) \in Repos => Usable(At(s), syncs[s].number)

\* What is cached of a repository is all of one manifest and its own index.
WholeManifest(r, c) ==
  /\ Usable(r, c.number)
  /\ IsIndexable(c.cartridges)
  /\ c = NewCache(r, c.number, Cartridges(r, c.number))

OneManifest(r) ==
  \A c \in caches[r] : WholeManifest(r, c) /\ \A d \in caches[r] : c = d

\* A cache is never a mixture of manifests, and never of one that cannot be used.
CachesAreManifests == \A r \in Repos : OneManifest(r)

RepoInv == RepoTypeOK /\ CachesAreManifests /\ \A s \in Syncers : SyncInv(s)

LEMMA ReposInitially == Init => RepoInv
<1> SUFFICES ASSUME Init PROVE RepoInv
  OBVIOUS
<1>1. /\ published = [r \in Repos |-> 0] /\ caches = [r \in Repos |-> {}]
      /\ syncs = [s \in Syncers |-> [pc |-> "idle", list |-> <<>>, number |-> 0]]
  BY DEF Init, RepoInit, Asleep
<1> QED BY <1>1 DEF RepoInv, RepoTypeOK, CachesAreManifests, OneManifest, SyncInv

\* Two fields of one element are changed.
LEMMA ChangedTwice ==
  ASSUME NEW S, NEW f, f = [t \in S |-> f[t]], NEW s \in S, NEW a, NEW b
  PROVE  /\ [f EXCEPT ![s] = a][s] = a
         /\ [[f EXCEPT ![s] = a] EXCEPT ![s] = b] = [f EXCEPT ![s] = b]
<1> DEFINE g == [f EXCEPT ![s] = a]
           h == [g EXCEPT ![s] = b]
<1>1. g = [t \in S |-> IF t = s THEN a ELSE f[t]]
  OBVIOUS
<1>2. h = [t \in S |-> IF t = s THEN b ELSE g[t]]
  BY <1>1
<1>3. h = [t \in S |-> IF t = s THEN b ELSE f[t]]
  BY <1>1, <1>2
<1>4. [f EXCEPT ![s] = b] = [t \in S |-> IF t = s THEN b ELSE f[t]]
  OBVIOUS
<1> QED BY <1>1, <1>3, <1>4

LEMMA SyncRecord ==
  ASSUME NEW pc, NEW list, NEW number, NEW y, y = [pc |-> pc, list |-> list, number |-> number],
         NEW x
  PROVE  /\ [y EXCEPT !.pc = x] = [pc |-> x, list |-> list, number |-> number]
         /\ [y EXCEPT !.list = x] = [pc |-> pc, list |-> x, number |-> number]
OBVIOUS

LEMMA CachesKept ==
  ASSUME RepoInv, UNCHANGED <<published, caches>>
  PROVE  caches' = [q \in Repos |-> caches'[q]] /\ CachesAreManifests'
BY DEF RepoInv, RepoTypeOK, CachesAreManifests, OneManifest, WholeManifest, Usable, NewCache

\* The cache of a repository is replaced by one made of a whole manifest.
LEMMA CacheReplaced ==
  ASSUME RepoInv, NEW r \in Repos, NEW n, Usable(r, n), IsIndexable(Cartridges(r, n)),
         caches' = [caches EXCEPT ![r] = {NewCache(r, n, Cartridges(r, n))}],
         published' = published
  PROVE  caches' = [q \in Repos |-> caches'[q]] /\ CachesAreManifests'
<1> DEFINE c == NewCache(r, n, Cartridges(r, n))
<1>1. caches = [q \in Repos |-> caches[q]]
  BY DEF RepoInv, RepoTypeOK
<1>2. /\ caches' = [q \in Repos |-> caches'[q]] /\ caches'[r] = {c}
      /\ \A q \in Repos : q # r => caches'[q] = caches[q]
  BY <1>1
<1>3. c.number = n /\ c.cartridges = Cartridges(r, n)
  BY DEF NewCache, Cache
<1> HIDE DEF c
<1>4. c = NewCache(r, c.number, Cartridges(r, c.number))
  BY <1>3 DEF c
<1>5. Usable(r, c.number)' /\ IsIndexable(c.cartridges)
  BY <1>3 DEF Usable
<1>6. ASSUME NEW q \in Repos PROVE OneManifest(q)'
  <2>1. CASE q = r
    BY <1>2, <1>4, <1>5, <2>1 DEF OneManifest, WholeManifest, NewCache, Usable
  <2>2. CASE q # r
    <3>1. OneManifest(q)
      BY DEF RepoInv, CachesAreManifests
    <3> QED BY <1>2, <2>2, <3>1 DEF OneManifest, WholeManifest, Usable, NewCache
  <2> QED BY <2>1, <2>2
<1> QED BY <1>2, <1>6 DEF CachesAreManifests

\* A step of a sync.
LEMMA SyncMoves ==
  ASSUME RepoInv, NEW s \in Syncers, NEW x,
         x = [pc |-> x.pc, list |-> x.list, number |-> x.number],
         syncs' = [syncs EXCEPT ![s] = x],
         published' = published, caches' = [q \in Repos |-> caches'[q]], CachesAreManifests',
         x.pc = "indexing" /\ Head(x.list) \in Repos => Usable(Head(x.list), x.number)
  PROVE  RepoInv'
<1>1. DOMAIN syncs' = Syncers /\ syncs'[s] = x /\ \A t \in Syncers : t # s => syncs'[t] = syncs[t]
  BY DEF RepoInv, RepoTypeOK
<1>2. RepoTypeOK'
  <2>1. \A t \in Syncers : syncs[t] = [pc |-> syncs[t].pc, list |-> syncs[t].list, number |-> syncs[t].number]
    BY DEF RepoInv, RepoTypeOK
  <2>2. \A t \in Syncers :
          syncs'[t] = [pc |-> syncs'[t].pc, list |-> syncs'[t].list, number |-> syncs'[t].number]
    <3>1. ASSUME NEW t \in Syncers, t # s
          PROVE  syncs'[t] = [pc |-> syncs'[t].pc, list |-> syncs'[t].list, number |-> syncs'[t].number]
      BY <1>1, <2>1, <3>1
    <3>2. syncs'[s] = [pc |-> syncs'[s].pc, list |-> syncs'[s].list, number |-> syncs'[s].number]
      BY <1>1
    <3> QED BY <3>1, <3>2
  <2>3. syncs' = [t \in Syncers |-> syncs'[t]]
    BY DEF RepoInv, RepoTypeOK
  <2>4. syncs' = [t \in Syncers |->
                    [pc |-> syncs'[t].pc, list |-> syncs'[t].list, number |-> syncs'[t].number]]
    BY <2>2, <2>3
  <2> QED BY <2>4 DEF RepoInv, RepoTypeOK
<1>3. ASSUME NEW t \in Syncers PROVE SyncInv(t)'
  <2>1. CASE t = s
    BY <1>1, <2>1 DEF SyncInv, Usable, At
  <2>2. CASE t # s
    BY <1>1, <2>2 DEF RepoInv, SyncInv, Usable, At
  <2> QED BY <2>1, <2>2
<1> QED BY <1>2, <1>3 DEF RepoInv

LEMMA SyncStepKeeps ==
  ASSUME RepoInv, NEW s \in Syncers, SyncStep(s)
  PROVE  RepoInv'
<1> DEFINE y == syncs[s]
<1>1. /\ y = [pc |-> y.pc, list |-> y.list, number |-> y.number]
      /\ syncs = [t \in Syncers |-> syncs[t]]
  BY DEF RepoInv, RepoTypeOK
<1>2. CASE GoesOn(s) /\ published' = published /\ caches' = [q \in Repos |-> caches'[q]] /\ CachesAreManifests'
  <2> DEFINE a == [pc |-> "next", list |-> y.list, number |-> y.number]
             x == [pc |-> "next", list |-> Tail(y.list), number |-> y.number]
  <2>1. [y EXCEPT !.pc = "next"] = a /\ [a EXCEPT !.list = Tail(y.list)] = x
    <3> DEFINE l == y.list
               n == y.number
               p == y.pc
               t == Tail(y.list)
    <3>1. y = [pc |-> p, list |-> l, number |-> n]
      BY <1>1
    <3>2. a = [pc |-> "next", list |-> l, number |-> n]
      OBVIOUS
    <3>3. x = [pc |-> "next", list |-> t, number |-> n]
      OBVIOUS
    <3> HIDE DEF y, a, x, l, n, p, t
    <3>4. [y EXCEPT !.pc = "next"] = a
      BY <3>1, <3>2, SyncRecord
    <3>5. [a EXCEPT !.list = t] = x
      BY <3>2, <3>3, SyncRecord
    <3> QED BY <3>4, <3>5 DEF t
  <2>3. syncs' = [syncs EXCEPT ![s] = x]
    <3> HIDE DEF a, x
    <3>1. [syncs EXCEPT ![s] = a][s] = a
      BY <1>1, ChangedTwice
    <3>2. [[syncs EXCEPT ![s] = a] EXCEPT ![s] = x] = [syncs EXCEPT ![s] = x]
      BY <1>1, ChangedTwice
    <3>3. syncs' = [[syncs EXCEPT ![s] = a] EXCEPT ![s] = x]
      BY <1>2, <2>1, <3>1, Zenon DEF GoesOn
    <3> QED BY <3>2, <3>3
  <2>2. x = [pc |-> x.pc, list |-> x.list, number |-> x.number] /\ x.pc # "indexing"
    OBVIOUS
  <2> HIDE DEF x
  <2> QED BY <2>2, <2>3, <1>2, SyncMoves
<1>3. CASE /\ syncs' = [syncs EXCEPT ![s].pc = "fetching"]
           /\ UNCHANGED <<published, caches>>
  <2> DEFINE x == [y EXCEPT !.pc = "fetching"]
  <2>1. x = [pc |-> x.pc, list |-> x.list, number |-> x.number] /\ x.pc # "indexing"
    BY <1>1
  <2> HIDE DEF x
  <2>2. syncs' = [syncs EXCEPT ![s] = x]
    BY <1>3 DEF x
  <2> QED BY <2>1, <2>2, <1>3, SyncMoves, CachesKept
<1>4. CASE /\ syncs' = [syncs EXCEPT ![s].pc = "indexing", ![s].number = published[At(s)]]
           /\ IsUsable(At(s), published[At(s)]) /\ UNCHANGED <<published, caches>>
  <2> DEFINE n == published[At(s)]
             a == [pc |-> "indexing", list |-> y.list, number |-> y.number]
             x == [pc |-> "indexing", list |-> y.list, number |-> n]
  <2>4. [y EXCEPT !.pc = "indexing"] = a /\ [a EXCEPT !.number = n] = x
    BY <1>1
  <2>1. syncs' = [syncs EXCEPT ![s] = x]
    <3> HIDE DEF a, x
    <3>1. [syncs EXCEPT ![s] = a][s] = a
      BY <1>1, ChangedTwice
    <3>2. [[syncs EXCEPT ![s] = a] EXCEPT ![s] = x] = [syncs EXCEPT ![s] = x]
      BY <1>1, ChangedTwice
    <3>3. syncs' = [[syncs EXCEPT ![s] = a] EXCEPT ![s] = x]
      BY <1>4, <2>4, <3>1, Zenon
    <3> QED BY <3>2, <3>3
  <2>2. At(s) \in Repos => Usable(At(s), published[At(s)])
    BY <1>4 DEF Usable, RepoInv, RepoTypeOK
  <2>3. /\ x = [pc |-> x.pc, list |-> x.list, number |-> x.number]
        /\ Head(x.list) \in Repos => Usable(Head(x.list), x.number)
    BY <2>2 DEF At
  <2> HIDE DEF x
  <2> QED BY <2>1, <2>3, <1>4, SyncMoves, CachesKept
<1>5. CASE syncs' = [syncs EXCEPT ![s] = Asleep] /\ UNCHANGED <<published, caches>>
  <2>1. Asleep = [pc |-> Asleep.pc, list |-> Asleep.list, number |-> Asleep.number] /\ Asleep.pc # "indexing"
    BY DEF Asleep
  <2> QED BY <2>1, <1>5, SyncMoves, CachesKept
<1>6. CASE UpdateCache(s)
  <2> DEFINE r == At(s)
             got == Cartridges(r, y.number)
  <2>1. /\ y.pc = "indexing" /\ GoesOn(s) /\ published' = published
        /\ caches' = IF IsIndexable(got) THEN [caches EXCEPT ![r] = {NewCache(r, y.number, got)}]
                     ELSE caches
    BY <1>6 DEF UpdateCache
  <2>2. CASE caches' = caches
    BY <1>2, <2>1, <2>2, CachesKept
  <2>3. CASE r \notin Repos
    <3>1. caches = [q \in Repos |-> caches[q]]
      BY DEF RepoInv, RepoTypeOK
    <3>2. [caches EXCEPT ![r] = {NewCache(r, y.number, got)}] = caches
      BY <2>3, <3>1
    <3>3. caches' = caches
      BY <2>1, <3>2
    <3> QED BY <2>2, <3>3
  <2>4. CASE r \in Repos /\ IsIndexable(got)
    <3>1. Usable(r, y.number)
      BY <2>1, <2>4 DEF RepoInv, SyncInv
    <3>2. caches' = [q \in Repos |-> caches'[q]] /\ CachesAreManifests'
      BY <2>1, <2>4, <3>1, CacheReplaced
    <3> QED BY <1>2, <2>1, <3>2
  <2> QED BY <2>1, <2>2, <2>3, <2>4
<1> QED
  BY <1>2, <1>3, <1>4, <1>5, <1>6, CachesKept
     DEF SyncStep, FetchRegistry, RegistryAnswers, AfterError, SyncEnds

LEMMA RepoStep == RepoInv /\ [Next]_vars => RepoInv'
<1> SUFFICES ASSUME RepoInv, [Next]_vars PROVE RepoInv'
  OBVIOUS
<1>1. CASE UNCHANGED repoVars
  BY <1>1 DEF repoVars, RepoInv, RepoTypeOK, CachesAreManifests, OneManifest, WholeManifest, Usable,
              SyncInv, At, NewCache
<1>2. ASSUME NEW s \in Syncers, NEW list, SyncRepos(s, list) PROVE RepoInv'
  <2> DEFINE x == [pc |-> "next", list |-> list, number |-> 0]
  <2>3. x = [Asleep EXCEPT !.pc = "next", !.list = list]
    <3>1. Asleep = [pc |-> "idle", list |-> <<>>, number |-> 0]
      BY DEF Asleep
    <3> DEFINE a == [Asleep EXCEPT !.pc = "next"]
    <3>2. a = [pc |-> "next", list |-> <<>>, number |-> 0]
      BY <3>1, SyncRecord
    <3> HIDE DEF a
    <3>3. [a EXCEPT !.list = list] = x
      BY <3>2, SyncRecord
    <3> QED BY <3>3 DEF a
  <2>1. x = [pc |-> x.pc, list |-> x.list, number |-> x.number] /\ x.pc # "indexing"
    OBVIOUS
  <2> HIDE DEF x
  <2>2. syncs' = [syncs EXCEPT ![s] = x] /\ UNCHANGED <<published, caches>>
    BY <1>2, <2>3 DEF SyncRepos
  <2> QED BY <2>1, <2>2, SyncMoves, CachesKept
<1>3. ASSUME NEW offline \in BOOLEAN, SetOffline(offline) PROVE RepoInv'
  BY <1>3 DEF SetOffline, RepoInv, RepoTypeOK, CachesAreManifests, OneManifest, WholeManifest, Usable,
              SyncInv, At, NewCache
<1>4. ASSUME NEW r \in Repos, PublishManifest(r) PROVE RepoInv'
  <2>1. published' = [published EXCEPT ![r] = @ + 1] /\ UNCHANGED <<caches, syncs>>
    BY <1>4 DEF PublishManifest
  <2>2. \A q \in Repos : \A n : Usable(q, n) => Usable(q, n)'
    BY <2>1 DEF Usable, RepoInv, RepoTypeOK
  <2>3. RepoTypeOK'
    BY <2>1 DEF RepoInv, RepoTypeOK
  <2>4. CachesAreManifests'
    BY <2>1, <2>2 DEF RepoInv, CachesAreManifests, OneManifest, WholeManifest, NewCache
  <2>5. \A s \in Syncers : SyncInv(s)'
    BY <2>1, <2>2 DEF RepoInv, SyncInv, At
  <2> QED BY <2>3, <2>4, <2>5 DEF RepoInv
<1> QED
  BY <1>1, <1>2, <1>3, <1>4, SyncStepKeeps DEF Next, CapsNext, ReposNext, vars

\* What is cached of a repository is one whole manifest that it has published, whatever
\* syncs overlap and fail (fetchRegistry, updateCache).
THEOREM CachesAreWhole == Spec => []CachesAreManifests
<1>1. RepoInv => CachesAreManifests
  BY DEF RepoInv
<1> QED BY <1>1, ReposInitially, RepoStep, PTL DEF Spec

\* A cap is accepted by itself, so every cap of a cartridge is equivalent to one.
LEMMA OwnCapIsEquivalent ==
  ASSUME NEW u
  PROVE  IsEquivalent(u, u)
BY DEF IsEquivalent, Accepts, ConformsTo, TagsSatisfy

\* The answers to "what is available", "what offers it" and "which cartridge is it" agree
\* over all overlapping syncs (GetAllAvailableCaps, GetSuggestionsForCap, GetCartridge,
\* GetCartridgesByCap).
THEOREM AnswersAgree == Spec => []AvailableCapsAreSuggested
<1>1. RepoInv => AvailableCapsAreSuggested
  <2> SUFFICES ASSUME RepoInv PROVE AvailableCapsAreSuggested
    OBVIOUS
  <2>1. ASSUME NEW r \in Repos, NEW c \in caches[r]
        PROVE  /\ c.cartridges = Cartridges(r, c.number)
               /\ c.capToCartridges = CapIndex(c.cartridges)
    BY DEF RepoInv, CachesAreManifests, OneManifest, WholeManifest, NewCache, Cache
  <2>2. ASSUME NEW u \in GetAllAvailableCaps
        PROVE  GetSuggestionsForMissingCaps(GetAllAvailableCaps \ {u}, {u}) # {}
    <3>1. PICK r \in Repos : \E c \in caches[r] : u \in DOMAIN c.capToCartridges
      BY <2>2 DEF GetAllAvailableCaps
    <3>0. PICK c \in caches[r] : u \in DOMAIN c.capToCartridges
      BY <3>1
    <3>6. c.capToCartridges = CapIndex(c.cartridges)
      BY <2>1
    <3>2. PICK k \in DOMAIN c.cartridges : u \in Declared(c.cartridges[k])
      BY <3>6, <3>0 DEF CapIndex
    <3>3. k \in c.capToCartridges[u]
      BY <3>6, <3>0, <3>2 DEF CapIndex
    <3>4. [repo |-> r, key |-> k] \in GetSuggestionsForCap(u)
      BY <3>0, <3>2, <3>3, OwnCapIsEquivalent DEF GetSuggestionsForCap
    <3>5. u \in {u} \ (GetAllAvailableCaps \ {u})
      OBVIOUS
    <3> QED BY <3>4, <3>5 DEF GetSuggestionsForMissingCaps
  <2>3. ASSUME NEW u, NEW x \in GetSuggestionsForCap(u)
        PROVE  /\ u \in GetAllAvailableCaps
               /\ GetCartridge(x.key) # {}
               /\ \E c \in caches[x.repo] : x.key \in GetCartridgesByCap(c.cartridges, u)
    <3>1. PICK r \in Repos : \E c \in caches[r] :
             /\ u \in DOMAIN c.capToCartridges
             /\ \E k \in c.capToCartridges[u] :
                  /\ k \in DOMAIN c.cartridges
                  /\ \E d \in Declared(c.cartridges[k]) : IsEquivalent(d, u)
                  /\ x = [repo |-> r, key |-> k]
      BY <2>3 DEF GetSuggestionsForCap
    <3>2. PICK c, k :
             /\ c \in caches[r]
             /\ u \in DOMAIN c.capToCartridges /\ k \in DOMAIN c.cartridges
             /\ \E d \in Declared(c.cartridges[k]) : IsEquivalent(d, u)
             /\ x = [repo |-> r, key |-> k]
      BY <3>1
    <3>3. u \in GetAllAvailableCaps
      BY <3>2 DEF GetAllAvailableCaps
    <3>4. c.cartridges[k] \in GetCartridge(k)
      BY <3>2 DEF GetCartridge
    <3>5. k \in GetCartridgesByCap(c.cartridges, u)
      BY <3>2 DEF GetCartridgesByCap, IsEquivalent
    <3> QED BY <3>2, <3>3, <3>4, <3>5
  <2> QED BY <2>2, <2>3 DEF AvailableCapsAreSuggested
<1> QED BY <1>1, ReposInitially, RepoStep, PTL DEF Spec

=============================================================================
