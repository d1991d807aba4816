---------------------------- MODULE CartridgeHost ----------------------------
(***************************************************************************)
(* The cartridge host (bifaci/host.go) between one relay and the cartridge *)
(* processes behind it.                                                    *)
(*                                                                         *)
(* Run handles one event at a time: a frame from the relay, or a frame or  *)
(* the death of a cartridge; each is one step here, as each holds the      *)
(* host's mutex.  Around it run, per cartridge process, a writer that      *)
(* drains the bounded channel writerCh and a reader that fills the event   *)
(* channel; the events of a process are handled in order and its death is  *)
(* the last of them.                                                       *)
(*                                                                         *)
(* The relay stamps what it sends with a routing id (XID), one per         *)
(* request, so a request id stands for the pair here and xid is a Boolean. *)
(* A frame carries a ghost field, role: "body" for what a requester sends, *)
(* "resp" for what answers it; the host does not read it.                  *)
(***************************************************************************)
EXTENDS Integers, Sequences, FiniteSets, SequencesExt

CONSTANTS
  NCartridges,    \* number of cartridges; a cartridge is its index
  Registered,     \* those registered by path, spawned on demand; the others
                  \* are attached with their process running
  KnownCaps,      \* KnownCaps[c]: caps a registered cartridge is known for
  ManifestCaps,   \* ManifestCaps[c]: caps the manifest of its process names
  SignedDistance, \* SignedDistance[<<registered, requested>>], for the pairs
                  \* of caps where the registered one is dispatchable
  ChannelSize,    \* capacity of writerCh (64 in the code)
  EngineRids,     \* requests that originate beyond the relay
  PeerRids,       \* requests that the cartridges issue
  Stamped,        \* whether the relay puts an XID on its frames
  Loops,          \* whether the relay may route a peer request back here
  MaxReply,       \* bound: frames of one response
  MaxBeats,       \* bound: heartbeats of the cartridges
  MaxFails,       \* bound: writers that have stopped at a time
  MaxDeaths       \* bound: deaths of processes

Cartridges == 1..NCartridges
Rids == EngineRids \cup PeerRids
Caps == {p[2] : p \in DOMAIN SignedDistance}
None == 0

ASSUME HostAssumption ==
  /\ NCartridges \in Nat \ {0} /\ Registered \subseteq Cartridges
  /\ EngineRids \cap PeerRids = {} /\ "beat" \notin Rids   \* a heartbeat has its own id
  /\ Stamped \in BOOLEAN /\ Loops \in BOOLEAN
  /\ {ChannelSize, MaxReply} \subseteq Nat \ {0}
  /\ {MaxBeats, MaxFails, MaxDeaths} \subseteq Nat

VARIABLES
  added,         \* the cartridges the host has in its list
  running,       \* those with running = true, and so a writerCh
  stuck,         \* those of them whose writerLoop has returned
  helloFailed,   \* those whose spawn failed
  capTable,      \* {[cap, cartridge]}
  capabilities,  \* the cartridges whose caps Capabilities() lists
  outgoingRids,  \* rid -> the cartridge that sent the peer REQ
  incomingRxids, \* (xid, rid) -> the cartridge that received the REQ
  writerCh,      \* frames for a cartridge, at most ChannelSize
  events,        \* events of a cartridge's reader, its share of eventCh
  relayIn,       \* frames from the relay to the host
  relayOut,      \* frames from the host to the relay
  relayUp,       \* FALSE once the relay has closed its end
  stopped,       \* Run has returned
  alive,         \* processes that are up
  incarnation,   \* number of processes started for a cartridge
  serving,       \* rids a process has received a REQ for and not finished
  complete,      \* those of them whose END it has received too
  beats,         \* heartbeats sent so far
  deaths,        \* deaths so far
  phase,         \* how far a request body has been sent, "idle" at first
  place,         \* where the relay has a peer request served
  replies,       \* response frames sent for a rid
  handler,       \* history: the process that was handed a request
  requester,     \* history: the process that issued a peer request
  bodyEnded,     \* history: requests whose handler was handed the body's end
  early,         \* history: requests answered before the body's end
  dropped,       \* history: requests that lost a frame to a full writerCh, or
                 \* to a writer that had returned while its process ran
  relayGot       \* history: response frames that reached the relay, per rid

tables    == <<added, running, stuck, helloFailed, capTable, capabilities>>
routes    == <<outgoingRids, incomingRxids>>
channels  == <<writerCh, events, relayIn, relayOut>>
processes == <<alive, incarnation, serving, complete, beats, deaths>>
requests  == <<phase, place, replies>>
history   == <<handler, requester, bodyEnded, early, dropped, relayGot>>
vars == <<tables, routes, channels, relayUp, stopped, processes, requests, history>>

Process(c) == <<c, incarnation[c]>>

Frame(type, rid, xid, role, n) == [type |-> type, rid |-> rid, xid |-> xid, role |-> role, n |-> n]
Req(rid, xid, cap) == [type |-> "REQ", rid |-> rid, xid |-> xid, role |-> "body", n |-> 0, cap |-> cap]
HostErr(rid, xid, role) == Frame("ERR", rid, xid, role, MaxReply)  \* n: outside a response
Terminal(f) == f.type \in {"END", "ERR"}

-----------------------------------------------------------------------------
(* Tables *)

\* findCartridgeForCapLocked: an entry for the very cap, or else the closest
\* dispatchable one; refinements before fallbacks, earlier cartridges first.
FindCartridgeForCap(cap) ==
  LET matches == {e \in capTable : <<e.cap, cap>> \in DOMAIN SignedDistance}
      exact   == {e \in capTable : e.cap = cap}
      dist(e) == SignedDistance[<<e.cap, cap>>]
      closer(e, o) == \/ dist(e) >= 0 /\ (dist(o) < 0 \/ dist(e) < dist(o))
                      \/ dist(e) < 0 /\ dist(o) < 0 /\ dist(e) > dist(o)
      best    == IF exact # {} THEN exact
                 ELSE {e \in matches : ~ \E o \in matches : closer(o, e)}
  IN IF best = {} THEN None ELSE Min({e.cartridge : e \in best})

Entries(c, caps) == {[cap |-> cap, cartridge |-> c] : cap \in caps}
Known(c) == IF c \in Registered THEN KnownCaps[c] ELSE {}

\* updateCapTable: the manifest's caps of a running cartridge, else the known
\* ones; nothing of a cartridge that failed to start.
CapTableOf(run, failed) ==
  UNION {Entries(c, IF c \in run /\ ManifestCaps[c] # {} THEN ManifestCaps[c] ELSE Known(c)) :
           c \in added \ failed}

Without(f, keys) == [k \in DOMAIN f \ keys |-> f[k]]
With(f, key, value) == [k \in DOMAIN f \cup {key} |-> IF k = key THEN value ELSE f[k]]

Init ==
  /\ added = {} /\ running = {} /\ stuck = {} /\ helloFailed = {} /\ capTable = {} /\ capabilities = {}
  /\ outgoingRids = [r \in {} |-> None] /\ incomingRxids = [r \in {} |-> None]
  /\ writerCh = [c \in Cartridges |-> <<>>] /\ events = [c \in Cartridges |-> <<>>]
  /\ relayIn = <<>> /\ relayOut = <<>> /\ relayUp = TRUE /\ stopped = FALSE
  /\ alive = {} /\ incarnation = [c \in Cartridges |-> 0]
  /\ serving = [c \in Cartridges |-> {}] /\ complete = [c \in Cartridges |-> {}]
  /\ beats = 0 /\ deaths = 0
  /\ phase = [r \in Rids |-> "idle"] /\ place = [r \in PeerRids |-> "none"]
  /\ replies = [r \in Rids |-> 0]
  /\ handler = [r \in Rids |-> <<None, 0>>] /\ requester = [r \in PeerRids |-> <<None, 0>>]
  /\ bodyEnded = {} /\ early = {} /\ dropped = {} /\ relayGot = [r \in Rids |-> <<>>]

\* Cartridges join in the order of their index, before Run or while it runs.
MayJoin(c) == ~stopped /\ c = 1 + Cardinality(added)

\* RegisterCartridge
RegisterCartridge(c) ==
  /\ MayJoin(c) /\ c \in Registered
  /\ added' = added \cup {c}
  /\ capTable' = capTable \cup Entries(c, KnownCaps[c])
  /\ UNCHANGED <<running, stuck, helloFailed, capabilities, routes, channels, relayUp, stopped,
                 processes, requests, history>>

\* AttachCartridge, after a successful handshake.
AttachCartridge(c) ==
  /\ MayJoin(c) /\ c \notin Registered
  /\ added' = added \cup {c}
  /\ running' = running \cup {c}
  /\ capTable' = capTable \cup Entries(c, ManifestCaps[c])
  /\ capabilities' = running'
  /\ alive' = alive \cup {c}
  /\ incarnation' = [incarnation EXCEPT ![c] = @ + 1]
  /\ UNCHANGED <<stuck, helloFailed, routes, channels, relayUp, stopped, serving, complete,
                 beats, deaths, requests, history>>

-----------------------------------------------------------------------------
(* Run: frames from the relay *)

Stamp(f) == [f EXCEPT !.xid = Stamped]
HasRoom(c) == c \in running' /\ Len(writerCh[c]) < ChannelSize

\* sendToCartridge never blocks: a frame for a full channel is lost.  A frame in
\* the channel of a writer that has returned stays there.
SendToCartridge(c, f) ==
  /\ writerCh' = IF HasRoom(c) THEN [writerCh EXCEPT ![c] = Append(@, f)] ELSE writerCh
  /\ dropped' = IF HasRoom(c) /\ c \notin stuck THEN dropped ELSE dropped \cup {f.rid}

\* Mutant of Refuse: the request is refused without an ERR.
Refuse_Silently(f) ==
  UNCHANGED <<relayOut, running, capTable, capabilities, incomingRxids, writerCh, alive,
              incarnation, handler, dropped>>

Refuse(f) ==
  /\ relayOut' = Append(relayOut, HostErr(f.rid, TRUE, "resp"))
  /\ UNCHANGED <<running, capTable, capabilities, incomingRxids, writerCh, alive,
                 incarnation, handler, dropped>>

\* The request is recorded for the body that follows, and handed over.
Accept(c, f) ==
  /\ incomingRxids' = With(incomingRxids, f.rid, c)
  /\ handler' = [handler EXCEPT ![f.rid] = <<c, incarnation'[c]>>]
  /\ SendToCartridge(c, f)
  /\ UNCHANGED <<relayOut, helloFailed>>

\* spawnCartridgeLocked.  A failure leaves the cap table as it is.
Spawn(c) ==
  /\ running' = running \cup {c}
  /\ capTable' = CapTableOf(running', helloFailed)
  /\ capabilities' = running'
  /\ alive' = alive \cup {c}
  /\ incarnation' = [incarnation EXCEPT ![c] = @ + 1]

\* handleRelayFrame, REQ
HandleReq(f) ==
  LET c == FindCartridgeForCap(f.cap)
  IN
  /\ f.type = "REQ"
  /\ \/ /\ c = None \/ (c \notin running /\ c \in helloFailed)
        /\ Refuse(f) /\ UNCHANGED helloFailed
     \/ /\ c # None /\ c \notin running \cup helloFailed
        /\ Refuse(f) /\ helloFailed' = helloFailed \cup {c}   \* the spawn fails
     \/ /\ c # None /\ c \notin running \cup helloFailed
        /\ Spawn(c) /\ Accept(c, f)
     \/ /\ c \in running
        /\ UNCHANGED <<running, capTable, capabilities, alive, incarnation>>
        /\ Accept(c, f)
  /\ UNCHANGED <<added, stuck, outgoingRids, bodyEnded>>

\* Mutant of HandleContinuation: the end of the body does not end its phase.
HandleContinuation_KeepIncoming(f) ==
  LET viaIncoming == f.rid \in DOMAIN incomingRxids
      viaOutgoing == ~viaIncoming /\ f.rid \in DOMAIN outgoingRids
      done        == IF Terminal(f) THEN {f.rid} ELSE {}
  IN
  /\ f.type \in {"BODY", "END", "ERR"}
  /\ UNCHANGED <<tables, relayOut, incomingRxids, alive, incarnation, handler>>
  /\ \/ /\ viaIncoming
        /\ SendToCartridge(incomingRxids[f.rid], f)
        /\ bodyEnded' = IF f.role = "body" THEN bodyEnded \cup done ELSE bodyEnded
        /\ UNCHANGED outgoingRids
     \/ /\ viaOutgoing
        /\ SendToCartridge(outgoingRids[f.rid], f)
        /\ outgoingRids' = Without(outgoingRids, done)
        /\ UNCHANGED bodyEnded
     \/ /\ ~viaIncoming /\ ~viaOutgoing
        /\ UNCHANGED <<outgoingRids, writerCh, dropped, bodyEnded>>

\* handleRelayFrame, STREAM_*, CHUNK, END and ERR: the request body first, the
\* response to a peer request otherwise; without a route the frame is lost.
HandleContinuation(f) ==
  LET viaIncoming == f.rid \in DOMAIN incomingRxids
      viaOutgoing == ~viaIncoming /\ f.rid \in DOMAIN outgoingRids
      done        == IF Terminal(f) THEN {f.rid} ELSE {}
  IN
  /\ f.type \in {"BODY", "END", "ERR"}
  /\ UNCHANGED <<tables, relayOut, alive, incarnation, handler>>
  /\ \/ /\ viaIncoming
        /\ SendToCartridge(incomingRxids[f.rid], f)
        /\ incomingRxids' = Without(incomingRxids, done)
        /\ bodyEnded' = IF f.role = "body" THEN bodyEnded \cup done ELSE bodyEnded
        /\ UNCHANGED outgoingRids
     \/ /\ viaOutgoing
        /\ SendToCartridge(outgoingRids[f.rid], f)
        /\ outgoingRids' = Without(outgoingRids, done)
        /\ UNCHANGED <<incomingRxids, bodyEnded>>
     \/ /\ ~viaIncoming /\ ~viaOutgoing
        /\ UNCHANGED <<routes, writerCh, dropped, bodyEnded>>

\* handleRelayFrame, LOG: to the issuer of the peer request.
HandleLog(f) ==
  /\ f.type = "LOG"
  /\ UNCHANGED <<tables, routes, relayOut, alive, incarnation, handler, bodyEnded>>
  /\ IF f.rid \in DOMAIN outgoingRids
     THEN SendToCartridge(outgoingRids[f.rid], f)
     ELSE UNCHANGED <<writerCh, dropped>>

\* killAllCartridges, as Run returns.
KillAll ==
  /\ stopped' = TRUE
  /\ running' = {} /\ alive' = {}
  /\ writerCh' = [c \in Cartridges |-> <<>>]
  /\ UNCHANGED <<added, stuck, helloFailed, capTable, capabilities, routes, events, relayOut,
                 relayUp, incarnation, serving, complete, beats, deaths, requests, history>>

\* A frame without an XID is fatal: Run returns its error.
HostReadsRelay ==
  /\ ~stopped /\ relayIn # <<>>
  /\ relayIn' = Tail(relayIn)
  /\ LET f == Head(relayIn)
     IN \/ ~f.xid /\ f.type # "LOG" /\ KillAll
        \/ /\ f.xid \/ f.type = "LOG"
           /\ HandleReq(f) \/ HandleContinuation(f) \/ HandleLog(f)
           /\ UNCHANGED <<events, relayUp, stopped, serving, complete, beats, deaths, requests,
                          requester, early, relayGot>>

HostSeesRelayClose == ~stopped /\ ~relayUp /\ relayIn = <<>> /\ KillAll /\ UNCHANGED relayIn

-----------------------------------------------------------------------------
(* Run: events of the cartridges *)

\* handleCartridgeFrame.  A peer REQ must not carry an XID.
HandleCartridgeFrame(c, f) ==
  /\ f.type # "DEATH"
  /\ UNCHANGED <<tables, incomingRxids>>
  /\ \/ /\ f.type = "HEARTBEAT"
        /\ SendToCartridge(c, f)
        /\ UNCHANGED <<outgoingRids, relayOut>>
     \/ /\ f.type = "REQ" /\ ~f.xid
        /\ outgoingRids' = With(outgoingRids, f.rid, c)
        /\ relayOut' = Append(relayOut, f)
        /\ UNCHANGED <<writerCh, dropped>>
     \/ /\ f.type \in {"BODY", "END", "ERR", "LOG"}
        /\ relayOut' = Append(relayOut, f)
        /\ UNCHANGED <<outgoingRids, writerCh, dropped>>

\* Mutant of HandleCartridgeDeath: the requests it was receiving stay routed to it.
HandleCartridgeDeath_KeepIncoming(c, f) ==
  LET receiving == {r \in DOMAIN incomingRxids : incomingRxids[r] = c}
      asking    == {r \in DOMAIN outgoingRids : outgoingRids[r] = c}
  IN
  /\ f.type = "DEATH"
  /\ running' = running \ {c} /\ stuck' = stuck \ {c}
  /\ writerCh' = [writerCh EXCEPT ![c] = <<>>]
  /\ \E s \in SetToSeqs(receiving), t \in SetToSeqs(asking) :
       relayOut' = relayOut \o [i \in DOMAIN s |-> HostErr(s[i], TRUE, "resp")]
                            \o [i \in DOMAIN t |-> HostErr(t[i], FALSE, "body")]
  /\ incomingRxids' = Without(incomingRxids, {})
  /\ outgoingRids' = Without(outgoingRids, asking)
  /\ capTable' = CapTableOf(running', helloFailed)
  /\ capabilities' = running'
  /\ UNCHANGED <<added, helloFailed, dropped>>

\* Mutant of HandleCartridgeDeath: its requests are removed without an ERR.
HandleCartridgeDeath_NoErr(c, f) ==
  LET receiving == {}
      asking    == {r \in DOMAIN outgoingRids : outgoingRids[r] = c}
  IN
  /\ f.type = "DEATH"
  /\ running' = running \ {c} /\ stuck' = stuck \ {c}
  /\ writerCh' = [writerCh EXCEPT ![c] = <<>>]
  /\ \E s \in SetToSeqs(receiving), t \in SetToSeqs(asking) :
       relayOut' = relayOut \o [i \in DOMAIN s |-> HostErr(s[i], TRUE, "resp")]
                            \o [i \in DOMAIN t |-> HostErr(t[i], FALSE, "body")]
  /\ incomingRxids' = Without(incomingRxids, {r \in DOMAIN incomingRxids : incomingRxids[r] = c})
  /\ outgoingRids' = Without(outgoingRids, asking)
  /\ capTable' = CapTableOf(running', helloFailed)
  /\ capabilities' = running'
  /\ UNCHANGED <<added, helloFailed, dropped>>

\* handleCartridgeDeath: an ERR for every request whose body the cartridge was
\* still receiving, then for every peer request it had outstanding.
HandleCartridgeDeath(c, f) ==
  LET receiving == {r \in DOMAIN incomingRxids : incomingRxids[r] = c}
      asking    == {r \in DOMAIN outgoingRids : outgoingRids[r] = c}
  IN
  /\ f.type = "DEATH"
  /\ running' = running \ {c} /\ stuck' = stuck \ {c}
  /\ writerCh' = [writerCh EXCEPT ![c] = <<>>]
  /\ \E s \in SetToSeqs(receiving), t \in SetToSeqs(asking) :
       relayOut' = relayOut \o [i \in DOMAIN s |-> HostErr(s[i], TRUE, "resp")]
                            \o [i \in DOMAIN t |-> HostErr(t[i], FALSE, "body")]
  /\ incomingRxids' = Without(incomingRxids, receiving)
  /\ outgoingRids' = Without(outgoingRids, asking)
  /\ capTable' = CapTableOf(running', helloFailed)
  /\ capabilities' = running'
  /\ UNCHANGED <<added, helloFailed, dropped>>

HostReadsEvent(c) ==
  /\ ~stopped /\ events[c] # <<>>
  /\ events' = [events EXCEPT ![c] = Tail(@)]
  /\ HandleCartridgeFrame(c, Head(events[c])) \/ HandleCartridgeDeath(c, Head(events[c]))
  /\ UNCHANGED <<relayIn, relayUp, stopped, processes, requests, handler, requester,
                 bodyEnded, early, relayGot>>

-----------------------------------------------------------------------------
(* The cartridge processes, with the writer and the reader of each *)

Emit(c, f) == events' = [events EXCEPT ![c] = Append(@, f)]

\* writerLoop hands a frame to the process.  A writer whose process is gone
\* fails and returns; what it leaves in the channel is lost at the death.
WriterLoop(c) ==
  LET f == Head(writerCh[c])
  IN
  /\ c \in alive \ stuck /\ writerCh[c] # <<>>
  /\ writerCh' = [writerCh EXCEPT ![c] = Tail(@)]
  /\ serving' = [serving EXCEPT ![c] = IF f.type = "REQ" THEN @ \cup {f.rid} ELSE @]
  /\ complete' = [complete EXCEPT ![c] =
       IF f.type = "END" THEN @ \cup ({f.rid} \cap serving[c]) ELSE @]
  /\ UNCHANGED <<tables, routes, events, relayIn, relayOut, relayUp, stopped, alive,
                 incarnation, beats, deaths, requests, history>>

\* A write to a live process fails, as when the frame is larger than the
\* max_frame that it negotiated: writerLoop returns, and nobody is told.
WriterFails(c) ==
  /\ c \in alive \ stuck /\ writerCh[c] # <<>>
  /\ Cardinality(stuck) < MaxFails
  /\ stuck' = stuck \cup {c}
  /\ writerCh' = [writerCh EXCEPT ![c] = Tail(@)]
  /\ dropped' = dropped \cup {f.rid : f \in ToSet(writerCh[c])}
  /\ UNCHANGED <<added, running, helloFailed, capTable, capabilities, routes, events, relayIn,
                 relayOut, relayUp, stopped, processes, requests, handler, requester,
                 bodyEnded, early, relayGot>>

\* The process sends a frame of a response; it may start before the body's end.
CartridgeReply(c, rid, type) ==
  /\ c \in alive /\ rid \in serving[c]
  /\ replies[rid] < MaxReply - 1 \/ type \in {"END", "ERR"}
  /\ Emit(c, Frame(type, rid, TRUE, "resp", replies[rid]))
  /\ replies' = [replies EXCEPT ![rid] = @ + 1]
  /\ LET done == IF type \in {"END", "ERR"} THEN {rid} ELSE {}
     IN /\ serving' = [serving EXCEPT ![c] = @ \ done]
        /\ complete' = [complete EXCEPT ![c] = @ \ done]
  /\ early' = IF rid \in bodyEnded THEN early ELSE early \cup {rid}
  /\ UNCHANGED <<tables, routes, writerCh, relayIn, relayOut, relayUp, stopped, alive,
                 incarnation, beats, deaths, phase, place, handler, requester, bodyEnded,
                 dropped, relayGot>>

\* The runtime starts the handler of a request at the END of its body
\* (cartridge_runtime.go:723); from then on it owes the answer.
CartridgeFinishes(c, rid) ==
  /\ rid \in complete[c]
  /\ \E type \in {"END", "ERR"} : CartridgeReply(c, rid, type)

\* The process issues a peer request while it serves a request, and ends its body.
CartridgeAsks(c, rid, cap) ==
  /\ c \in alive /\ serving[c] # {} /\ phase[rid] = "idle"
  /\ Emit(c, Req(rid, FALSE, cap))
  /\ phase' = [phase EXCEPT ![rid] = "open"]
  /\ requester' = [requester EXCEPT ![rid] = Process(c)]
  /\ UNCHANGED <<tables, routes, writerCh, relayIn, relayOut, relayUp, stopped, processes,
                 place, replies, handler, bodyEnded, early, dropped, relayGot>>

CartridgeEndsBody(c, rid) ==
  /\ c \in alive /\ requester[rid] = Process(c) /\ phase[rid] = "open"
  /\ Emit(c, Frame("END", rid, FALSE, "body", 0))
  /\ phase' = [phase EXCEPT ![rid] = "closed"]
  /\ UNCHANGED <<tables, routes, writerCh, relayIn, relayOut, relayUp, stopped, processes,
                 place, replies, history>>

CartridgeBeats(c) ==
  /\ c \in alive /\ beats < MaxBeats
  /\ beats' = beats + 1
  /\ Emit(c, Frame("HEARTBEAT", "beat", FALSE, "body", 0))
  /\ UNCHANGED <<tables, routes, writerCh, relayIn, relayOut, relayUp, stopped, alive,
                 incarnation, serving, complete, deaths, requests, history>>

\* The process ends; its reader reports that after everything it wrote.
CartridgeDies(c) ==
  /\ c \in alive /\ deaths < MaxDeaths
  /\ alive' = alive \ {c}
  /\ deaths' = deaths + 1
  /\ serving' = [serving EXCEPT ![c] = {}] /\ complete' = [complete EXCEPT ![c] = {}]
  /\ Emit(c, [type |-> "DEATH"])
  /\ UNCHANGED <<tables, routes, writerCh, relayIn, relayOut, relayUp, stopped, incarnation,
                 beats, requests, history>>

-----------------------------------------------------------------------------
(* The relay *)

RelaySends(f) == relayUp /\ ~stopped /\ relayIn' = Append(relayIn, f)

RelayRequests(rid, cap) ==
  /\ phase[rid] = "idle"
  /\ RelaySends(Stamp(Req(rid, TRUE, cap)))
  /\ phase' = [phase EXCEPT ![rid] = "open"]
  /\ UNCHANGED <<tables, routes, writerCh, events, relayOut, relayUp, stopped, processes,
                 place, replies, history>>

RelayContinues(rid, type) ==
  /\ phase[rid] = "open" \/ (phase[rid] = "body" /\ type # "BODY")
  /\ RelaySends(Stamp(Frame(type, rid, TRUE, "body", 0)))
  /\ phase' = [phase EXCEPT ![rid] = CASE type = "BODY" -> "body"
                                        [] type = "END"  -> "closed"
                                        [] type = "ERR"  -> "broken"]
  /\ UNCHANGED <<tables, routes, writerCh, events, relayOut, relayUp, stopped, processes,
                 place, replies, history>>

\* The relay takes a frame: a response of the engine's is delivered; a peer
\* request is served elsewhere, refused, or routed back to this host together
\* with its body and its response.
RelayTakes ==
  LET f == Head(relayOut)
      back(g) == relayIn' = Append(relayIn, Stamp(g))
  IN
  /\ relayUp /\ ~stopped /\ relayOut # <<>>
  /\ relayOut' = Tail(relayOut)
  /\ \/ /\ f.rid \in EngineRids
        /\ relayGot' = [relayGot EXCEPT ![f.rid] = Append(@, f)]
        /\ UNCHANGED <<relayIn, place>>
     \/ /\ f.rid \in PeerRids /\ f.type = "REQ"
        /\ \/ place' = [place EXCEPT ![f.rid] = "elsewhere"] /\ UNCHANGED relayIn
           \/ place' = [place EXCEPT ![f.rid] = "settled"] /\ back(HostErr(f.rid, TRUE, "resp"))
           \/ Loops /\ place' = [place EXCEPT ![f.rid] = "here"] /\ back(f)
        /\ UNCHANGED relayGot
     \/ /\ f.rid \in PeerRids /\ f.type # "REQ"
        /\ IF place[f.rid] = "here" THEN back(f) ELSE UNCHANGED relayIn
        /\ UNCHANGED <<place, relayGot>>
  /\ UNCHANGED <<tables, routes, writerCh, events, relayUp, stopped, processes, phase,
                 replies, handler, requester, bodyEnded, early, dropped>>

\* A peer request that is served elsewhere is answered.
RelayAnswers(rid, type) ==
  /\ place[rid] = "elsewhere"
  /\ replies[rid] < MaxReply - 1 \/ type \in {"END", "ERR"}
  /\ RelaySends(Stamp(Frame(type, rid, TRUE, "resp", replies[rid])))
  /\ replies' = [replies EXCEPT ![rid] = @ + 1]
  /\ place' = [place EXCEPT ![rid] = IF type \in {"END", "ERR"} THEN "settled" ELSE @]
  /\ UNCHANGED <<tables, routes, writerCh, events, relayOut, relayUp, stopped, processes,
                 phase, history>>

RelayCloses ==
  /\ relayUp /\ ~stopped
  /\ relayUp' = FALSE
  /\ UNCHANGED <<tables, routes, channels, stopped, processes, requests, history>>

-----------------------------------------------------------------------------
Responses == {"BODY", "LOG", "END", "ERR"}

Host == HostReadsRelay \/ HostSeesRelayClose \/ \E c \in Cartridges :
          HostReadsEvent(c) \/ RegisterCartridge(c) \/ AttachCartridge(c)

Cartridge(c) ==
  \/ WriterLoop(c)
  \/ WriterFails(c)
  \/ \E rid \in Rids, type \in Responses : CartridgeReply(c, rid, type)
  \/ \E rid \in PeerRids, cap \in Caps : CartridgeAsks(c, rid, cap)
  \/ \E rid \in PeerRids : CartridgeEndsBody(c, rid)
  \/ CartridgeBeats(c)
  \/ CartridgeDies(c)

Relay ==
  \/ \E rid \in EngineRids, cap \in Caps : RelayRequests(rid, cap)
  \/ \E rid \in EngineRids, type \in {"BODY", "END", "ERR"} : RelayContinues(rid, type)
  \/ \E rid \in PeerRids, type \in Responses : RelayAnswers(rid, type)
  \/ RelayTakes
  \/ RelayCloses

Next == Host \/ Relay \/ \E c \in Cartridges : Cartridge(c)

Spec == Init /\ [][Next]_vars

\* Run handles what arrives, the writers write, the relay takes what it is
\* sent, and a process answers a request whose body it has got to the end.
Fairness ==
  /\ WF_vars(HostReadsRelay) /\ WF_vars(HostSeesRelayClose) /\ WF_vars(RelayTakes)
  /\ \A c \in Cartridges :
       /\ WF_vars(HostReadsEvent(c)) /\ WF_vars(WriterLoop(c))
       /\ \A rid \in Rids : WF_vars(CartridgeFinishes(c, rid))

FairSpec == Spec /\ Fairness
-----------------------------------------------------------------------------
(***************************************************************************)
(* Properties                                                              *)
(***************************************************************************)

\* A request body goes to the very process that was handed the REQ: not to the
\* process spawned after its death, not to another cartridge that the cap table
\* names by then.  For a peer request this holds once the body has ended well.
BodyReachesItsHandler ==
  \A c \in Cartridges : \A f \in ToSet(writerCh[c]) :
    f.role = "body" /\ f.rid \in EngineRids \cup bodyEnded => Process(c) = handler[f.rid]

\* The answer to a peer request goes to the very process that asked, also when
\* the request was routed back to this host, provided that the handler does not
\* start to answer before it has the whole body.
AnswerReachesItsRequester ==
  \A c \in Cartridges : \A f \in ToSet(writerCh[c]) :
    f.role = "resp" /\ f.rid \notin early => Process(c) = requester[f.rid]

Answers(r) == ToSet(relayGot[r]) \cup {f \in ToSet(relayOut) : f.rid = r /\ f.role = "resp"}
IsAnswered(r) == \E f \in Answers(r) : Terminal(f)
HandlerIsGone(r) ==
  \/ handler[r][1] \notin running
  \/ incarnation[handler[r][1]] # handler[r][2]

\* A request whose handler is lost before the body has ended is answered.
BrokenBodyIsAnswered ==
  \A r \in EngineRids :
    ~stopped /\ handler[r][1] # None /\ HandlerIsGone(r) /\ r \notin bodyEnded => IsAnswered(r)

\* The relay receives the frames of a response in order and without a hole; an
\* ERR of the host's own is the last frame, and there is at most one.
AnswersInOrder ==
  \A r \in EngineRids : \A i \in DOMAIN relayGot[r] :
    \/ relayGot[r][i].n = i - 1
    \/ relayGot[r][i].n = MaxReply /\ i = Len(relayGot[r])

\* Every request whose body is sent to its end is answered in order, and in the
\* end, unless the relay goes away, a frame of it was lost to a full channel or
\* to a writer that had stopped, or its handler dies after the body's end.  A
\* requester that breaks its body off with an ERR may wait for ever: the host
\* forgets the request (host.go:560) and the runtime ignores the ERR.
RequestIsAnswered ==
  /\ []AnswersInOrder
  /\ \A r \in EngineRids :
       phase[r] = "closed" ~> \/ \E f \in ToSet(relayGot[r]) : Terminal(f)
                             \/ ~relayUp
                             \/ r \in dropped
                             \/ (r \in bodyEnded /\ HandlerIsGone(r))
=============================================================================
