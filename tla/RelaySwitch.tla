----------------------------- MODULE RelaySwitch -----------------------------
(***************************************************************************)
(* The relay switch (bifaci/relay_switch.go): one engine, several masters. *)
(*                                                                         *)
(* The engine sends requests through SendToMaster and reads everything the *)
(* masters produce through ReadFromMasters.  Every operation runs under    *)
(* the switch's one mutex, so each is one step here.  A master is a relay  *)
(* connection with a host behind it; it answers the requests it is sent,   *)
(* issues peer requests of its own, announces changed capabilities, and    *)
(* may disconnect at any moment.                                           *)
(*                                                                         *)
(* fromMaster[m] stands for the connection, the reader goroutine and m's   *)
(* share of the channel frameRx: all three are FIFO per master, and the    *)
(* channel interleaves the masters arbitrarily, as ReadFromMasters does    *)
(* here by picking any master that has something to read.                  *)
(*                                                                         *)
(* STREAM_START, CHUNK and STREAM_END, and the LOG frames of a response,   *)
(* are one frame type here, "BODY": the switch treats them alike.          *)
(***************************************************************************)
EXTENDS Integers, Sequences, FiniteSets, SequencesExt

CONSTANTS
  NMasters,        \* number of masters; a master is its index
  Offers,          \* what a master may announce in a RelayNotify
  InitialOffer,    \* InitialOffer[m]: what m announces in the handshake
  DefaultLimit,    \* the limit when no master is healthy
  SignedDistance,  \* SignedDistance[<<registered, requested>>], for the pairs
                   \* of caps where the registered one is dispatchable
  EngineRids,      \* request ids of the engine
  PeerRids,        \* request ids of the masters' own requests
  MaxNotify,       \* bound: capability updates
  MaxBody,         \* bound: body frames the engine sends for a request
  MaxReply         \* bound: frames of one response

Masters == 1..NMasters
ENGINE_SOURCE == -1
NoMaster == 0
Rids == EngineRids \cup PeerRids
Caps == {p[2] : p \in DOMAIN SignedDistance}

\* An offer is [cartridges |-> sequence of [key, registry, caps, operational],
\* limit |-> n]: key stands for id@version, registry for registry URL and
\* channel, operational for an EffectiveLifecycle of "operational" without an
\* attachment error, limit for max_frame and max_chunk, treated alike.
ASSUME SwitchAssumption ==
  /\ NMasters \in Nat \ {0}
  /\ InitialOffer \in [Masters -> Offers]
  /\ \A o \in Offers : o.limit \in Nat
  /\ \A p \in DOMAIN SignedDistance : SignedDistance[p] \in Int
  /\ IsFiniteSet(Rids) /\ EngineRids \cap PeerRids = {}
  /\ MaxReply \in Nat \ {0} /\ MaxNotify \in Nat /\ MaxBody \in {0, 1}

VARIABLES
  masters,       \* what the switch knows of a master: offer and health
  capTable,      \* {[cap, master]}
  aggregate,     \* aggregateInstalledCartridges
  capabilities,  \* the cartridges in the bytes that Capabilities() returns
  limits,        \* negotiatedLimits
  routing,       \* requestRouting: rid -> [source, dest]
  peerRequests,  \* rids with peerRequests[rid]
  toMaster,      \* frames written to a master and not yet taken by it
  fromMaster,    \* frames a master sent and the switch has not handled
  alive,         \* masters whose connection is up
  asked,         \* progress of a request on the asking side
  owner,         \* the master that issued a peer request
  parent,        \* the engine request a peer request was issued for
  serving,       \* rids a master has accepted and not finished answering
  replies,       \* number of response frames sent for a rid
  notifies,      \* capability updates sent so far
  intervened,    \* history: what the engine itself did to a peer request
  target,        \* history: the master a request was routed to
  engineGot      \* history: frames ReadFromMasters returned, per rid

tables     == <<masters, capTable, aggregate, capabilities, limits>>
routes     == <<routing, peerRequests, intervened, target>>
masterSide == <<alive, owner, parent, serving, replies, notifies>>
vars == <<tables, routes, toMaster, fromMaster, masterSide, asked, engineGot>>

-----------------------------------------------------------------------------
(* The aggregates, rebuilt from the healthy masters *)

HealthyMasters(ms) == {m \in Masters : ms[m].healthy}
CapsOf(offer) == UNION {c.caps : c \in ToSet(offer.cartridges)}

\* rebuildCapTable
CapTableOf(ms) ==
  UNION {{[cap |-> c, master |-> m] : c \in CapsOf(ms[m].offer)} : m \in HealthyMasters(ms)}

\* rebuildInstalledCartridges: the first cartridge with a key wins, in the
\* order of the masters and of each master's list.
AggregateOf(ms) ==
  LET slots == UNION {{<<m, i>> : i \in DOMAIN ms[m].offer.cartridges} : m \in HealthyMasters(ms)}
      at(p) == ms[p[1]].offer.cartridges[p[2]]
      before(p, q) == p[1] < q[1] \/ (p[1] = q[1] /\ p[2] < q[2])
  IN {at(p) : p \in {q \in slots : \A o \in slots : before(o, q) => at(o).key # at(q).key}}

\* rebuildLimits
LimitsOf(ms) ==
  IF HealthyMasters(ms) = {} THEN DefaultLimit
  ELSE Min({ms[m].offer.limit : m \in HealthyMasters(ms)})

\* findMasterForCap: an entry equivalent to the preferred cap, or else the
\* closest one; refinements before fallbacks, earlier masters first.
FindMasterForCap(cap, preferred) ==
  LET matches == {e \in capTable : <<e.cap, cap>> \in DOMAIN SignedDistance}
      dist(e) == SignedDistance[<<e.cap, cap>>]
      closer(e, o) == \/ dist(e) >= 0 /\ (dist(o) < 0 \/ dist(e) < dist(o))
                      \/ dist(e) < 0 /\ dist(o) < 0 /\ dist(e) > dist(o)
      wanted  == {e \in matches : e.cap = preferred}
      best    == IF wanted # {} THEN wanted
                 ELSE {e \in matches : ~ \E o \in matches : closer(o, e)}
  IN IF matches = {} THEN NoMaster ELSE Min({e.master : e \in best})

-----------------------------------------------------------------------------
Routed(rid) == rid \in DOMAIN routing
Route(rid, source, dest) ==
  [r \in DOMAIN routing \cup {rid} |->
     IF r = rid THEN [source |-> source, dest |-> dest] ELSE routing[r]]
Forget(rids) == Restrict(routing, DOMAIN routing \ rids)

Msg(type, rid, from, n) == [type |-> type, rid |-> rid, from |-> from, n |-> n]
Terminal(type) == type \in {"END", "ERR"}

\* FrameWriter.WriteFrame to a master: it fails when the connection is closed.
Write(m, frame) ==
  toMaster' = IF m \in alive THEN [toMaster EXCEPT ![m] = Append(@, frame)] ELSE toMaster

Init ==
  /\ masters = [m \in Masters |-> [offer |-> InitialOffer[m], healthy |-> TRUE]]
  /\ capTable = CapTableOf(masters)
  /\ aggregate = AggregateOf(masters)
  /\ capabilities = aggregate
  /\ limits = LimitsOf(masters)
  /\ routing = [r \in {} |-> 0]
  /\ peerRequests = {}
  /\ intervened = [r \in PeerRids |-> "no"]
  /\ target = [r \in Rids |-> NoMaster]
  /\ toMaster = [m \in Masters |-> <<>>]
  /\ fromMaster = [m \in Masters |-> <<>>]
  /\ alive = Masters
  /\ owner = [r \in PeerRids |-> NoMaster]
  /\ parent = [r \in PeerRids |-> "none"]
  /\ serving = [m \in Masters |-> {}]
  /\ replies = [r \in Rids |-> 0]
  /\ notifies = 0
  /\ asked = [r \in Rids |-> "idle"]
  /\ engineGot = [r \in Rids |-> <<>>]

-----------------------------------------------------------------------------
(* The engine *)

\* Mutant of SendReq: that no master handles the cap goes unnoticed.
SendReq_IgnoreNoHandler(rid, cap, preferred) ==
  LET dest == FindMasterForCap(cap, preferred)
  IN
  /\ asked[rid] = "idle"
  /\ routing' = Route(rid, ENGINE_SOURCE, dest)
  /\ target' = [target EXCEPT ![rid] = dest]
  /\ Write(dest, Msg("REQ", rid, ENGINE_SOURCE, 0))
  /\ asked' = [asked EXCEPT ![rid] = IF dest \in alive THEN "open" ELSE "refused"]
  /\ UNCHANGED <<tables, peerRequests, intervened, fromMaster, masterSide, engineGot>>

\* SendToMaster with a REQ.  The entry is made before the frame is written and
\* stays when the write fails.
SendReq(rid, cap, preferred) ==
  LET dest == FindMasterForCap(cap, preferred)
  IN
  /\ asked[rid] = "idle"
  /\ \/ /\ dest = NoMaster
        /\ asked' = [asked EXCEPT ![rid] = "refused"]
        /\ UNCHANGED <<routing, target, toMaster>>
     \/ /\ dest # NoMaster
        /\ routing' = Route(rid, ENGINE_SOURCE, dest)
        /\ target' = [target EXCEPT ![rid] = dest]
        /\ Write(dest, Msg("REQ", rid, ENGINE_SOURCE, 0))
        /\ asked' = [asked EXCEPT ![rid] = IF dest \in alive THEN "open" ELSE "refused"]
  /\ UNCHANGED <<tables, peerRequests, intervened, fromMaster, masterSide, engineGot>>

\* The engine has sent REQ and may go on with a body frame and the end.  It may
\* send the same frames for a peer request, which it never asked for:
\* SendToMaster takes any routed id.
MayContinue(rid, type) ==
  /\ type = "BODY" => MaxBody = 1
  /\ IF rid \in EngineRids
     THEN asked[rid] = "open" \/ (asked[rid] = "body" /\ type # "BODY")
     ELSE Routed(rid) /\ (intervened[rid] = "no" \/ type # "BODY")
AfterContinuation(type) == IF Terminal(type) THEN "closed" ELSE "body"

\* How far the engine is with its request: a for one of its own.
EngineAt(rid, a) ==
  asked' = IF rid \in EngineRids THEN [asked EXCEPT ![rid] = a] ELSE asked

\* What the engine has done to the peer requests among rids.
Intervene(rids, what) ==
  intervened' = [r \in PeerRids |-> IF r \in rids THEN what ELSE intervened[r]]

\* Mutant of SendContinuation: the destination is looked up again instead of
\* being the one the request was routed to.
SendContinuation_LookUpAgain(rid, type) ==
  /\ MayContinue(rid, type)
  /\ \E cap \in Caps :
       LET dest == FindMasterForCap(cap, "none")
       IN /\ dest # NoMaster
          /\ Write(dest, Msg(type, rid, ENGINE_SOURCE, 0))
  /\ EngineAt(rid, AfterContinuation(type))
  /\ UNCHANGED <<tables, routes, fromMaster, masterSide, engineGot>>

\* SendToMaster with a continuation frame.  The entry of a peer request is
\* removed with its terminal frame, that of an engine request is not.
SendContinuation(rid, type) ==
  /\ MayContinue(rid, type)
  /\ \/ /\ ~Routed(rid)                       \* unknown request
        /\ EngineAt(rid, "refused")
        /\ UNCHANGED <<routing, peerRequests, intervened, toMaster>>
     \/ /\ Routed(rid)
        /\ routing[rid].dest \notin alive     \* the write fails
        /\ EngineAt(rid, "refused")
        /\ UNCHANGED <<routing, peerRequests, intervened, toMaster>>
     \/ /\ Routed(rid)
        /\ routing[rid].dest \in alive
        /\ Write(routing[rid].dest, Msg(type, rid, ENGINE_SOURCE, 0))
        /\ EngineAt(rid, AfterContinuation(type))
        /\ LET done == IF Terminal(type) THEN {rid} \cap peerRequests ELSE {}
           IN routing' = Forget(done) /\ peerRequests' = peerRequests \ done
        /\ Intervene({rid}, IF Terminal(type) THEN "ended" ELSE "body")
  /\ UNCHANGED <<tables, target, fromMaster, masterSide, engineGot>>

\* cancelRequestLocked for every rid of a set: each master gets the Cancel
\* frames of its requests, in any order.  The code also cancels the children
\* listed in peerCallParents, a table nothing ever fills.
CancelEach(rids) ==
  LET routedTo(m) == {r \in rids : routing[r].dest = m}
  IN
  /\ rids # {}
  /\ \E order \in [Masters -> UNION {SetToSeqs(routedTo(m)) : m \in Masters}] :
       /\ \A m \in Masters : order[m] \in SetToSeqs(routedTo(m))
       /\ toMaster' = [m \in Masters |->
            IF m \in alive
            THEN toMaster[m] \o [i \in DOMAIN order[m] |-> Msg("CANCEL", order[m][i], ENGINE_SOURCE, 0)]
            ELSE toMaster[m]]
  /\ routing' = Forget(rids)
  /\ peerRequests' = peerRequests \ rids
  /\ Intervene(rids, "ended")
  /\ UNCHANGED <<tables, target, fromMaster, masterSide, asked, engineGot>>

\* Mutant of CancelRequest: the Cancel frame is sent and the entry is kept.
CancelRequest_KeepEntry(rid) ==
  /\ Routed(rid)
  /\ ~ \E i \in DOMAIN toMaster[routing[rid].dest] :
         toMaster[routing[rid].dest][i] = Msg("CANCEL", rid, ENGINE_SOURCE, 0)
  /\ Write(routing[rid].dest, Msg("CANCEL", rid, ENGINE_SOURCE, 0))
  /\ UNCHANGED <<tables, routes, fromMaster, masterSide, asked, engineGot>>

\* CancelRequest: any request, the masters' own included; nothing happens to
\* an unknown one.
CancelRequest(rid) == CancelEach({rid} \cap DOMAIN routing)

\* CancelAllRequests: the requests of the engine, not those of the masters.
CancelAllRequests ==
  CancelEach({r \in DOMAIN routing : routing[r].source = ENGINE_SOURCE})

-----------------------------------------------------------------------------
(* ReadFromMasters: one frame, or the end of a connection *)

\* handleMasterFrame, REQ: a peer request.  When no master handles the cap an
\* error is returned to the engine and the request is gone.
HandlePeerReq(m, f) ==
  LET dest == FindMasterForCap(f.cap, "none")
  IN
  /\ f.type = "REQ"
  /\ IF dest = NoMaster
     THEN UNCHANGED <<routes, toMaster>>
     ELSE /\ routing' = Route(f.rid, m, dest)
          /\ peerRequests' = peerRequests \cup {f.rid}
          /\ target' = [target EXCEPT ![f.rid] = dest]
          /\ Write(dest, f)
          /\ UNCHANGED intervened
  /\ UNCHANGED <<tables, engineGot>>

ReplyTypes == {"BODY", "END", "ERR"}

\* Mutant of HandleReply: any routed frame is answered to the engine.
HandleReply_AllToEngine(m, f) ==
  /\ f.type \in ReplyTypes
  /\ engineGot' = [engineGot EXCEPT ![f.rid] = Append(@, f)]
  /\ UNCHANGED <<tables, routes, toMaster>>

\* Mutant of HandleReply: only END ends a request, ERR does not.
HandleReply_ErrKeepsEntry(m, f) ==
  /\ f.type \in ReplyTypes
  /\ \/ /\ Routed(f.rid) /\ routing[f.rid].source # ENGINE_SOURCE
        /\ Write(routing[f.rid].source, f)
        /\ UNCHANGED <<routing, engineGot>>
     \/ /\ ~(Routed(f.rid) /\ routing[f.rid].source # ENGINE_SOURCE)
        /\ routing' = IF f.type = "END" /\ f.rid \notin peerRequests
                      THEN Forget({f.rid}) ELSE routing
        /\ engineGot' = [engineGot EXCEPT ![f.rid] = Append(@, f)]
        /\ UNCHANGED toMaster
  /\ UNCHANGED <<tables, peerRequests, intervened, target>>

\* Mutant of HandleReply: a frame of an unknown request is dropped, and the
\* first frame of a response already removes the entry.
HandleReply_DropRest(m, f) ==
  /\ f.type \in ReplyTypes
  /\ routing' = Forget({f.rid})
  /\ engineGot' = IF Routed(f.rid) THEN [engineGot EXCEPT ![f.rid] = Append(@, f)] ELSE engineGot
  /\ UNCHANGED <<tables, peerRequests, intervened, target, toMaster>>

\* handleMasterFrame, stream frames, END, ERR and LOG: on to the master that
\* issued the request, whoever the frame came from, or else to the engine.
HandleReply(m, f) ==
  LET peer == Routed(f.rid) /\ routing[f.rid].source # ENGINE_SOURCE
      done == IF Terminal(f.type) /\ f.rid \notin peerRequests THEN {f.rid} ELSE {}
  IN
  /\ f.type \in ReplyTypes
  /\ \/ /\ peer
        /\ Write(routing[f.rid].source, f)
        /\ routing' = IF routing[f.rid].source \in alive THEN Forget(done) ELSE routing
        /\ UNCHANGED engineGot
     \/ /\ ~peer
        /\ routing' = Forget(done)
        /\ engineGot' = [engineGot EXCEPT ![f.rid] = Append(@, f)]
        /\ UNCHANGED toMaster
  /\ UNCHANGED <<tables, peerRequests, intervened, target>>

\* handleMasterFrame, RELAY_NOTIFY: everything but the limits is rebuilt.
HandleNotify(m, f) ==
  /\ f.type = "NOTIFY"
  /\ masters' = [masters EXCEPT ![m].offer = f.offer]
  /\ capTable' = CapTableOf(masters')
  /\ aggregate' = AggregateOf(masters')
  /\ capabilities' = aggregate'
  /\ UNCHANGED <<limits, routes, toMaster, engineGot>>

\* Mutant of ReadFrame: two frames of one master are handled out of order.
ReadFrame_OutOfOrder(m) ==
  \E i \in DOMAIN fromMaster[m] :
    /\ fromMaster' = [fromMaster EXCEPT ![m] = RemoveAt(@, i)]
    /\ LET f == fromMaster[m][i]
       IN HandlePeerReq(m, f) \/ HandleReply(m, f) \/ HandleNotify(m, f)
    /\ UNCHANGED <<masterSide, asked>>

ReadFrame(m) ==
  /\ fromMaster[m] # <<>>
  /\ fromMaster' = [fromMaster EXCEPT ![m] = Tail(@)]
  /\ LET f == Head(fromMaster[m])
     IN HandlePeerReq(m, f) \/ HandleReply(m, f) \/ HandleNotify(m, f)
  /\ UNCHANGED <<masterSide, asked>>

\* Mutant of ReadDeath: the requests routed to the dead master stay.
ReadDeath_KeepRoutes(m) ==
  /\ m \notin alive /\ fromMaster[m] = <<>> /\ masters[m].healthy
  /\ masters' = [masters EXCEPT ![m].healthy = FALSE]
  /\ capTable' = CapTableOf(masters')
  /\ aggregate' = AggregateOf(masters')
  /\ limits' = LimitsOf(masters')
  /\ UNCHANGED <<capabilities, routes, toMaster, fromMaster, masterSide, asked, engineGot>>

\* Mutant of ReadDeath: the byte snapshot is not made again.
ReadDeath_KeepSnapshot(m) ==
  LET lost == {r \in DOMAIN routing : routing[r].dest = m}
  IN
  /\ m \notin alive /\ fromMaster[m] = <<>> /\ masters[m].healthy
  /\ masters' = [masters EXCEPT ![m].healthy = FALSE]
  /\ routing' = Forget(lost)
  /\ peerRequests' = peerRequests \ lost
  /\ capTable' = CapTableOf(masters')
  /\ aggregate' = AggregateOf(masters')
  /\ limits' = LimitsOf(masters')
  /\ UNCHANGED <<capabilities, intervened, target, toMaster, fromMaster, masterSide, asked, engineGot>>

\* The reader of m reports the end of the connection: handleMasterDeath.  The
\* snapshot is taken before the aggregate is rebuilt.
ReadDeath(m) ==
  LET lost == {r \in DOMAIN routing : routing[r].dest = m}
  IN
  /\ m \notin alive /\ fromMaster[m] = <<>> /\ masters[m].healthy
  /\ masters' = [masters EXCEPT ![m].healthy = FALSE]
  /\ routing' = Forget(lost)
  /\ peerRequests' = peerRequests \ lost
  /\ capTable' = CapTableOf(masters')
  /\ capabilities' = aggregate
  /\ aggregate' = AggregateOf(masters')
  /\ limits' = LimitsOf(masters')
  /\ UNCHANGED <<intervened, target, toMaster, fromMaster, masterSide, asked, engineGot>>

-----------------------------------------------------------------------------
(* The masters: a relay connection and the host behind it *)

\* m takes a frame from its connection; a REQ is accepted for serving.
MasterTake(m) ==
  /\ m \in alive /\ toMaster[m] # <<>>
  /\ toMaster' = [toMaster EXCEPT ![m] = Tail(@)]
  /\ LET f == Head(toMaster[m])
     IN serving' = [serving EXCEPT ![m] = IF f.type = "REQ" THEN @ \cup {f.rid} ELSE @]
  /\ UNCHANGED <<tables, routes, fromMaster, alive, owner, parent, replies, notifies, asked, engineGot>>

MasterSend(m, frame) == fromMaster' = [fromMaster EXCEPT ![m] = Append(@, frame)]

\* m sends one frame of the response to rid; the last one ends it.
MasterReply(m, rid, type) ==
  /\ m \in alive /\ rid \in serving[m]
  /\ replies[rid] < MaxReply - 1 \/ Terminal(type)
  /\ MasterSend(m, Msg(type, rid, m, replies[rid]))
  /\ replies' = [replies EXCEPT ![rid] = @ + 1]
  /\ serving' = [serving EXCEPT ![m] = IF Terminal(type) THEN @ \ {rid} ELSE @]
  /\ UNCHANGED <<tables, routes, toMaster, alive, owner, parent, notifies, asked, engineGot>>

\* m issues a peer request while it serves a request of the engine.
MasterAskPeer(m, rid, for, cap) ==
  /\ m \in alive /\ for \in serving[m] /\ asked[rid] = "idle"
  /\ MasterSend(m, [type |-> "REQ", rid |-> rid, from |-> m, n |-> 0, cap |-> cap])
  /\ asked' = [asked EXCEPT ![rid] = "open"]
  /\ owner' = [owner EXCEPT ![rid] = m]
  /\ parent' = [parent EXCEPT ![rid] = for]
  /\ UNCHANGED <<tables, routes, toMaster, alive, serving, replies, notifies, engineGot>>

\* m sends the END of a peer request's body.
MasterPeerEnd(m, rid) ==
  /\ m \in alive /\ owner[rid] = m /\ asked[rid] = "open"
  /\ MasterSend(m, Msg("END", rid, m, 0))
  /\ asked' = [asked EXCEPT ![rid] = "closed"]
  /\ UNCHANGED <<tables, routes, toMaster, masterSide, engineGot>>

MasterNotify(m, offer) ==
  /\ m \in alive /\ notifies < MaxNotify
  /\ notifies' = notifies + 1
  /\ MasterSend(m, [type |-> "NOTIFY", offer |-> offer])
  /\ UNCHANGED <<tables, routes, toMaster, alive, owner, parent, serving, replies, asked, engineGot>>

\* The connection of m closes: what was written to it is lost.
MasterDie(m) ==
  /\ m \in alive
  /\ alive' = alive \ {m}
  /\ toMaster' = [toMaster EXCEPT ![m] = <<>>]
  /\ serving' = [serving EXCEPT ![m] = {}]
  /\ UNCHANGED <<tables, routes, fromMaster, owner, parent, replies, notifies, asked, engineGot>>

-----------------------------------------------------------------------------
Engine ==
  \/ \E rid \in EngineRids, cap \in Caps, preferred \in Caps \cup {"none"} : SendReq(rid, cap, preferred)
  \/ \E rid \in Rids, type \in {"BODY", "END", "ERR"} : SendContinuation(rid, type)
  \/ \E rid \in Rids : CancelRequest(rid)
  \/ CancelAllRequests

Switch == \E m \in Masters : ReadFrame(m) \/ ReadDeath(m)

Master(m) ==
  \/ MasterTake(m)
  \/ \E rid \in Rids, type \in ReplyTypes : MasterReply(m, rid, type)
  \/ \E rid \in PeerRids, for \in EngineRids, cap \in Caps : MasterAskPeer(m, rid, for, cap)
  \/ \E rid \in PeerRids : MasterPeerEnd(m, rid)
  \/ \E offer \in Offers : MasterNotify(m, offer)
  \/ MasterDie(m)

Next == Engine \/ Switch \/ \E m \in Masters : Master(m)

Spec == Init /\ [][Next]_vars

\* The engine calls ReadFromMasters again and again, a connected master takes
\* what it is sent, and a host answers what it has accepted.
Fairness ==
  /\ \A m \in Masters : WF_vars(ReadFrame(m)) /\ WF_vars(ReadDeath(m)) /\ WF_vars(MasterTake(m))
  /\ \A m \in Masters, rid \in Rids :
       WF_vars(\E type \in {"END", "ERR"} : MasterReply(m, rid, type))

FairSpec == Spec /\ Fairness
-----------------------------------------------------------------------------
(***************************************************************************)
(* Properties                                                              *)
(***************************************************************************)
Frames ==
  [type : ReplyTypes \cup {"REQ", "CANCEL"}, rid : Rids, from : Masters \cup {ENGINE_SOURCE}, n : 0..MaxReply]
    \cup [type : {"REQ"}, rid : PeerRids, from : Masters, n : {0}, cap : Caps]
    \cup [type : {"NOTIFY"}, offer : Offers]

TypeOK ==
  /\ masters \in [Masters -> [offer : Offers, healthy : BOOLEAN]]
  /\ DOMAIN routing \subseteq Rids
  /\ \A r \in DOMAIN routing :
       routing[r] \in [source : Masters \cup {ENGINE_SOURCE}, dest : Masters]
  /\ peerRequests \subseteq PeerRids
  /\ intervened \in [PeerRids -> {"no", "body", "ended"}]
  /\ target \in [Rids -> Masters \cup {NoMaster}]
  /\ {toMaster, fromMaster} \subseteq [Masters -> Seq(Frames)]
  /\ alive \subseteq Masters
  /\ asked \in [Rids -> {"idle", "open", "body", "closed", "refused"}]
  /\ owner \in [PeerRids -> Masters \cup {NoMaster}]
  /\ parent \in [PeerRids -> EngineRids \cup {"none"}]
  /\ serving \in [Masters -> SUBSET Rids]
  /\ replies \in [Rids -> 0..MaxReply]
  /\ notifies \in 0..MaxNotify
  /\ engineGot \in [Rids -> Seq(Frames)]

\* A request is never routed to a master the switch knows to be dead: not by
\* findMasterForCap after a death, and not by an entry made before it.
RoutesToHealthy ==
  \A r \in DOMAIN routing : masters[routing[r].dest].healthy

\* After any sequence of notifications and deaths, what Capabilities() returns
\* is the aggregate of the healthy masters, or lags behind it by one death: it
\* still lists the master that died last and none that died before.  The code
\* makes the snapshot before the aggregate in handleMasterDeath (:835), where
\* the comment at :801 says that it must come last.
SnapshotLagsOneDeath ==
  \/ capabilities = AggregateOf(masters)
  \/ \E m \in Masters :
       ~ masters[m].healthy /\ capabilities = AggregateOf([masters EXCEPT ![m].healthy = TRUE])

\* Every frame of an engine request goes to the one master the REQ went to,
\* whatever happens to the cap table between the frames (requestRouting).
RequestKeepsItsMaster ==
  \A m \in Masters : \A i \in DOMAIN toMaster[m] :
    toMaster[m][i].rid \in EngineRids => target[toMaster[m][i].rid] = m

\* The engine receives, for a request of its own, exactly the frames its
\* master sent for it, from the first on, in order and each of them once,
\* through notifications, cancellations and deaths, and peer requests where there are any.
EngineGetsItsAnswer ==
  \A r \in EngineRids : \A i \in DOMAIN engineGot[r] :
    /\ engineGot[r][i].from = target[r]
    /\ engineGot[r][i].n = i - 1

\* A request the engine has been answered for is forgotten: its terminal frame
\* and its routing entry do not exist together.
AnsweredRequestsAreForgotten ==
  \A r \in DOMAIN routing :
    routing[r].source = ENGINE_SOURCE =>
      \A i \in DOMAIN engineGot[r] : ~ Terminal(engineGot[r][i].type)

\* What the responding master sends for a peer request is never taken for a
\* response to the engine (HandleReply by source), unless the engine itself
\* ended the request with END or ERR or cancelled it: its entry is gone then.
PeerAnswersStayInternal ==
  \A p \in PeerRids :
    intervened[p] # "ended" => \A i \in DOMAIN engineGot[p] : engineGot[p][i].from = owner[p]

\* Once the engine cancelled a request its master is sent nothing more of it.
NothingAfterCancel ==
  \A m \in Masters : \A i, j \in DOMAIN toMaster[m] :
    i < j /\ toMaster[m][i].type = "CANCEL" => toMaster[m][j].rid # toMaster[m][i].rid

\* A request of the engine that reached its master is answered with END or ERR
\* unless that master is lost.
EngineIsAnswered ==
  \A r \in EngineRids :
    target[r] # NoMaster ~> \/ \E i \in DOMAIN engineGot[r] : Terminal(engineGot[r][i].type)
                            \/ target[r] \notin alive
=============================================================================
