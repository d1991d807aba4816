-------------------------------- MODULE Link --------------------------------
(***************************************************************************)
(* From a cartridge to the engine: the handshake that sets the limits, a   *)
(* response in chunks written under them, the host that passes it on, the  *)
(* relay, and what the engine collects.  What the host does with a frame   *)
(* (CartridgeHost) is reduced to passing it on in order.                   *)
(***************************************************************************)
EXTENDS Handshake, RelayLink

CONSTANT
    Setups      \* what may happen: the limits of host and cartridge, the slave, the kinds and
                \* number of frames the engine sends, the number of notifications of slave and host,
                \* the contents of a stream of the response, and which parts may end

\* A limit that a side announces is positive.
ASSUME LinkAssumption ==
    \A s \in Setups :
        /\ \A l \in {s.host, s.cartridge} :
              DOMAIN l \subseteq DOMAIN DefaultLimits /\ l \in [DOMAIN l -> Nat \ {0}]
        /\ \A p \in s.payloads : p \in Seq(Range(p))

VARIABLES
    setup,
    answer,         \* what the cartridge has yet to write, and the streams in it
    engineSent, hostSent,
    hostGot,        \* the frames with the resource state at that time
    engineGot       \* the frames with the manifest and limits at that time

ends == <<setup, answer, engineSent, hostSent, hostGot, engineGot>>
vars == <<linkVars, helloVars, ends>>

Init ==
    /\ setup \in Setups
    /\ LinkInit(setup.slave) /\ HelloInit(setup.host, setup.cartridge)
    /\ answer = [state |-> "none", frames |-> <<>>, streams |-> <<>>]
    /\ engineSent = <<>> /\ hostSent = <<>> /\ hostGot = <<>> /\ engineGot = <<>>

HostIsUp == ~fromLocal.closed
Frames(got) == [i \in DOMAIN got |-> got[i].frame]

\* The requests of the engine; the cartridge answers the first.
Requests     == {i \in DOMAIN hostGot : hostGot[i].frame.type = "REQ"}
FirstRequest == hostGot[Min(Requests)].frame.id

-----------------------------------------------------------------------------
(***************************************************************************)
(* The engine.                                                             *)
(***************************************************************************)

\* A frame of the removed protocol stands for one the decoder refuses.
OldFrame(id) == [NewFrame("REQ", id) EXCEPT !.type = RemovedRes]
EngineFrames(k) == {NewReq(k, "cap", <<>>), NewCancelFrame(k, TRUE), NewRelayState(<<k>>),
                    NewRelayNotify(<<k>>, DefaultLimits), OldFrame(k)}

EngineSends ==
    /\ EngineIsUp /\ master.state = "connected" /\ Len(engineSent) < setup.sends
    /\ \E f \in EngineFrames(Len(engineSent) + 1) :
          /\ f.type \in setup.kinds
          /\ WriteOutcome(down, f, DefaultLimits) = "written"
          /\ down' = WriteFrame(down, f)
          /\ engineSent' = Append(engineSent, f)
    /\ UNCHANGED <<slave, up, toLocal, fromLocal, upSent, pump, run, errCh, resourceState, master,
                   helloVars, setup, answer, hostSent, hostGot, engineGot>>

EngineConnects ==
    /\ ConnectRelayMaster
    /\ UNCHANGED <<helloVars, ends>>

EngineReads ==
    /\ MasterReadFrame
    /\ engineGot' = engineGot \o [i \in DOMAIN Returned |->
                       [frame |-> Returned[i], manifest |-> master.manifest,
                        limits |-> master.limits]]
    /\ UNCHANGED <<helloVars, setup, answer, engineSent, hostSent, hostGot>>

\* The engine closes the connection, or ends anywhere in a frame.
EngineEnds ==
    /\ EngineIsUp /\ "engine" \in setup.ending
    /\ \E tail \in Tail3 : down' = Close(down, tail)
    /\ up' = Abandon(up)
    /\ UNCHANGED <<slave, toLocal, fromLocal, upSent, pump, run, errCh, resourceState, master,
                   helloVars, ends>>

-----------------------------------------------------------------------------
(***************************************************************************)
(* The host and the cartridge.                                             *)
(***************************************************************************)

HostReads ==
    /\ HostIsUp
    /\ ReadOutcome(toLocal, DefaultLimits) = "frame"
    /\ toLocal' = AfterRead(toLocal)
    /\ hostGot' = Append(hostGot, [frame |-> FrameRead(toLocal), state |-> resourceState])
    /\ UNCHANGED <<slave, down, up, fromLocal, upSent, pump, run, errCh, resourceState, master,
                   helloVars, setup, answer, engineSent, hostSent, engineGot>>

HostWrites(f) ==
    /\ HostIsUp
    /\ WriteOutcome(fromLocal, f, DefaultLimits) = "written"
    /\ fromLocal' = WriteFrame(fromLocal, f)
    /\ hostSent' = Append(hostSent, f)

Notifications == Len(SelectSeq(upSent, IsRelayFrame)) + Len(SelectSeq(hostSent, IsRelayFrame))
NotifyLimits  == {DefaultLimits, Limits(0, 0, 0), Limits(2, 1, 0)}

\* Limits of zero are none.
SlaveNotifies ==
    /\ Notifications < setup.notifies
    /\ \E limits \in NotifyLimits : SendNotify(<<Notifications>>, limits)
    /\ UNCHANGED <<helloVars, ends>>

\* The host of this repository only stores its manifest (rebuildCapabilities); one that
\* announces it itself is not heard.
HostNotifies ==
    /\ Notifications < setup.notifies
    /\ HostWrites(NewRelayNotify(<<Notifications>>, DefaultLimits))
    /\ UNCHANGED <<slave, down, up, toLocal, upSent, pump, run, errCh, resourceState, master,
                   helloVars, setup, answer, engineSent, hostGot, engineGot>>

\* The frames of the cartridge go on to the engine. When its stream ends or cannot be
\* read, the requests the host still has in its tables are answered with an ERR.
HostForwards ==
    /\ HostIsUp /\ hello["host"] = "ready"
    /\ LET r == ReadOutcome(toHost, negotiated["host"])
       IN  /\ r # "blocked"
           /\ IF r = "frame"
              THEN /\ HostWrites(FrameRead(toHost))
                   /\ toHost' = AfterRead(toHost)
                   /\ UNCHANGED hello
              ELSE /\ Fail("host")
                   /\ UNCHANGED toHost
                   /\ \/ UNCHANGED <<fromLocal, hostSent>>
                      \/ /\ Requests # {}
                         /\ HostWrites(NewErr(FirstRequest, "CARTRIDGE_DIED"))
    /\ UNCHANGED <<slave, down, up, toLocal, upSent, pump, run, errCh, resourceState, master,
                   own, negotiated, manifest, toCartridge, setup, answer, engineSent, hostGot,
                   engineGot>>

\* The host of the process of the slave shuts down.
HostEnds ==
    /\ HostIsUp /\ "host" \in setup.ending
    /\ fromLocal' = Close(fromLocal, "none")
    /\ toLocal' = Abandon(toLocal)
    /\ UNCHANGED <<slave, down, up, upSent, pump, run, errCh, resourceState, master, helloVars, ends>>

\* One stream, written by WriteResponseWithChunking.
OneStream(id, payload) ==
    [state |-> "writing", streams |-> [s |-> payload],
     frames |-> ResponseFrames(id, "s", Media, payload, negotiated["cartridge"].max_chunk)]

\* Two streams whose frames take turns, as other writers may send them.
TwoStreams(id, p, q) ==
    LET max == negotiated["cartridge"].max_chunk
        a == ResponseFrames(id, "s", {"text"}, p, max)
        b == ResponseFrames(id, "t", {"pdf"}, q, max)
    IN  [state |-> "writing", streams |-> [s |-> p, t |-> q],
         frames |-> <<a[1], b[1]>> \o SubSeq(a, 2, Len(a) - 1) \o Tail(b)]

CartridgeAnswers ==
    /\ hello["cartridge"] = "ready" /\ Requests # {} /\ answer.state = "none"
    /\ \E p \in setup.payloads :
          \/ answer' = OneStream(FirstRequest, p)
          \/ p # <<>> /\ answer' = TwoStreams(FirstRequest, p, <<"x">>)
    /\ UNCHANGED <<linkVars, helloVars, setup, engineSent, hostSent, hostGot, engineGot>>

\* WriteResponseWithChunking gives up at the first frame that cannot be written.
CartridgeWrites ==
    /\ hello["cartridge"] = "ready" /\ answer.frames # <<>>
    /\ LET f == Head(answer.frames)
           o == WriteOutcome(toHost, f, negotiated["cartridge"])
       IN  /\ o # "blocked"
           /\ IF o = "written"
              THEN /\ toHost' = WriteFrame(toHost, f)
                   /\ answer' = [answer EXCEPT !.frames = Tail(@)]
              ELSE /\ answer' = [answer EXCEPT !.frames = <<>>, !.state = "failed"]
                   /\ UNCHANGED toHost
    /\ UNCHANGED <<linkVars, own, hello, negotiated, manifest, toCartridge, setup, engineSent, hostSent,
                   hostGot, engineGot>>

\* The host attaches its cartridges before it serves the relay.
Relay ==
    /\ hello["host"] \in {"ready", "failed"}
    /\ SlaveStep
    /\ UNCHANGED <<helloVars, ends>>
Hello ==
    /\ \/ HostSendsHello \/ CartridgeAnswersHello \/ HostReadsHello
       \/ ("cartridge" \in setup.ending /\ CartridgeDies)
    /\ UNCHANGED <<linkVars, ends>>

Next ==
    \/ Relay \/ Hello
    \/ EngineSends \/ EngineConnects \/ EngineReads \/ EngineEnds
    \/ HostReads \/ SlaveNotifies \/ HostNotifies \/ HostForwards \/ HostEnds
    \/ CartridgeAnswers \/ CartridgeWrites

\* The goroutines of Run are scheduled; nothing is assumed of the two ends.
Fairness ==
    /\ WF_vars(hello["host"] \in {"ready", "failed"} /\ InitialNotify /\ UNCHANGED <<helloVars, ends>>)
    /\ WF_vars((TakeFirstResult \/ Join) /\ UNCHANGED <<helloVars, ends>>)
    /\ \A d \in Directions :
          WF_vars((PumpReads(d) \/ PumpWrites(d)) /\ UNCHANGED <<helloVars, ends>>)

Spec == Init /\ [][Next]_vars /\ Fairness

-----------------------------------------------------------------------------
(***************************************************************************)
(* Properties.                                                             *)
(***************************************************************************)

\* After the handshake both sides work with the same limits; and once a side is ready, it
\* exceeds nothing that it or the other announced, be the rest left out. Otherwise one
\* would write frames that the other refuses. The exception is a HELLO with one size only:
\* it is read as one with all the defaults (io.go:175, :227), so that the limits may exceed
\* the size it has, and not the defaults.
LimitsAgree ==
    /\ (\A s \in Sides : hello[s] = "ready") => negotiated["host"] = negotiated["cartridge"]
    /\ \A s, t \in Sides : hello[s] = "ready" =>
          LET bound == IF HasBothSizes(own[t]) THEN own[t] ELSE DefaultLimits
          IN  \A k \in DOMAIN bound : negotiated[s][k] <= bound[k]

\* What the engine has of the response, if it looked now.
Response ==
    IF Requests = {} THEN <<>>
    ELSE SelectSeq(Frames(engineGot), LAMBDA f : f.id = FirstRequest)

\* A stream that a collector reports has all its bytes, wherever the response broke off,
\* and one that is asked for by its media is the one of that media;
\* and after an END no stream is missing from a peer response (frame_helpers.go). The
\* limits of the handshake, the chunks and four streams have to fit together for that.
CollectedStreamsAreWhole ==
    LET all   == CollectAllArgs(Response)
        first == CollectFirstArg(Response)
        peer  == CollectPeerResponse(Response)
        pdf   == CollectArgsByMediaUrn(Response, {"pdf"})
    IN  /\ \A i \in DOMAIN all.results :
              \E s \in DOMAIN answer.streams : all.results[i].data = answer.streams[s]
        /\ \A i \in DOMAIN pdf.results :
              pdf.results[i].data = answer.streams[IF "t" \in DOMAIN answer.streams THEN "t" ELSE "s"]
        /\ ~first.failed => first.data = answer.streams["s"]
        /\ \A s \in DOMAIN peer.streams : peer.streams[s] = answer.streams[s]
        /\ (\E i \in DOMAIN Response : Response[i].type = "END")
              => DOMAIN peer.streams = DOMAIN answer.streams

\* The frames that are not of the relay.
Others(frames) ==
    LET kept[n \in 0..Len(frames)] ==
            IF n = 0 THEN <<>>
            ELSE IF IsRelayFrame(frames[n]) THEN kept[n - 1]
            ELSE Append(kept[n - 1], frames[n])
    IN  kept[Len(frames)]
Wired(frames)      == [i \in DOMAIN frames |-> OverTheWire(frames[i])]

\* In each direction the frames that are not of the relay arrive in order, each once, and
\* those that have not arrived are on the way, as long as nobody has ended
\* (relay.go:78). No frame of the relay reaches the host.
NothingIsLost ==
    /\ pump["down"].pc # "ended" /\ ~toLocal.gone /\ ~down.gone =>
          Frames(hostGot) \o Wired(toLocal.q \o pump["down"].held \o Others(down.q))
              = Others(Wired(engineSent))
    /\ pump["up"].pc # "ended" /\ ~up.gone /\ ~fromLocal.gone =>
          Others(Frames(engineGot) \o Wired(up.q \o pump["up"].held \o fromLocal.q))
              = Others(Wired(hostSent))

\* The last frame of interest before the n-th frame that is not of the relay, if any.
LastBefore(frames, n, Wanted(_)) ==
    LET before == {k \in DOMAIN frames : Wanted(frames[k]) /\ Len(Others(SubSeq(frames, 1, k))) < n}
    IN  IF before = {} THEN <<>>
        ELSE <<frames[CHOOSE x \in before : \A y \in before : y <= x]>>

IsState(f)         == f.type = "RELAY_STATE"
IsNotify(f)        == f.type = "RELAY_NOTIFY"
NotifiesLimits(f)  == IsNotify(f) /\ HasLimits(f)

\* When the host gets a frame the slave has the resource state sent before it, or a newer
\* one; when the engine gets a frame its master has the manifest and the limits announced
\* last before it. Relay frames leave the stream on the way, but not their place in it.
AnnouncementsPrecedeFrames ==
    /\ \A i \in DOMAIN hostGot, k \in 1..Len(engineSent) :
          <<engineSent[k]>> = LastBefore(engineSent, i, IsState)
              => hostGot[i].state # <<>> /\ engineSent[k].payload[1] <= hostGot[i].state[1]
    /\ \A i \in DOMAIN engineGot :
          /\ engineGot[i].manifest = LastBefore(upSent, i, IsNotify)[1].meta.manifest
          /\ engineGot[i].limits = RelayNotifyLimits(LastBefore(upSent, i, NotifiesLimits)[1])

\* Run returns when both of its ends are gone; one is not enough, as the pump of the
\* other direction waits for a frame or the end of its own source (relay.go:150-157).
RunReturns == (~EngineIsUp /\ ~HostIsUp /\ hello["host"] \in {"ready", "failed"}) ~> run = "returned"
=============================================================================
