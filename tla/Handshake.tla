------------------------------ MODULE Handshake ------------------------------
(***************************************************************************)
(* HELLO between a host and a cartridge (bifaci/io.go, limits.go).  Each   *)
(* side announces its own limits and takes the smaller of both.  A side of *)
(* this repository has the default limits; the other may be written in     *)
(* another language, have other limits and leave out what it does not know.*)
(***************************************************************************)
EXTENDS Wire

VARIABLES
    own,            \* own[side]: what it announces
    hello,          \* hello[side]: "start", "waiting", "ready" or "failed"
    negotiated,     \* negotiated[side]: the limits it works with
    manifest,       \* the manifests the host got, at most one
    toCartridge, toHost         \* the two pipes

helloVars == <<own, hello, negotiated, manifest, toCartridge, toHost>>

Sides == {"host", "cartridge"}
CartridgeManifest == "cartridge manifest"

HelloLimits_KeepZero(frame) ==
    LET l == Announced(frame)
    IN  IF l.max_frame = 0 \/ l.max_chunk = 0 THEN DefaultLimits ELSE l

\* The limits in a HELLO: all the defaults if a size is missing, the default reorder
\* buffer if only that is.
HelloLimits(frame) ==
    LET l == Announced(frame)
    IN  CASE l.max_frame = 0 \/ l.max_chunk = 0 -> DefaultLimits
          [] OTHER -> [l EXCEPT !.max_reorder_buffer = IF @ = 0 THEN DefaultMaxReorderBuffer ELSE @]

HasBothSizes(limits) == {"max_frame", "max_chunk"} \subseteq DOMAIN limits

\* What a side works with that announces limits. A side of this repository announces them
\* all; that another one completes what it leaves out as this repository reads it (io.go)
\* is an assumption.
Completed(limits) ==
    [k \in DOMAIN DefaultLimits |->
        IF HasBothSizes(limits) /\ k \in DOMAIN limits THEN limits[k] ELSE DefaultLimits[k]]

\* The limits of the two sides.
HelloInit(host, cartridge) ==
    /\ own = [s \in Sides |-> IF s = "host" THEN host ELSE cartridge]
    /\ hello = [s \in Sides |-> "start"]
    /\ negotiated = [s \in Sides |-> DefaultLimits]
    /\ manifest = {}
    /\ toCartridge = NewStream /\ toHost = NewStream

Fail(side) == hello' = [hello EXCEPT ![side] = "failed"]

Negotiate(side, frame) ==
    /\ negotiated' = [negotiated EXCEPT ![side] =
                        NegotiateLimits(Completed(own[side]), HelloLimits(frame))]
    /\ hello' = [hello EXCEPT ![side] = "ready"]

\* HandshakeInitiate, first half. The limits of a stream are the defaults until then.
HostSendsHello ==
    /\ hello["host"] = "start"
    /\ LET f == NewHello(own["host"])
           o == WriteOutcome(toCartridge, f, DefaultLimits)
       IN  /\ o # "blocked"
           /\ IF o = "written"
              THEN /\ toCartridge' = WriteFrame(toCartridge, f)
                   /\ hello' = [hello EXCEPT !["host"] = "waiting"]
              ELSE Fail("host") /\ UNCHANGED toCartridge
    /\ UNCHANGED <<own, negotiated, manifest, toHost>>

\* HandshakeAccept: the answer has the manifest, and is written before the limits are known.
CartridgeAnswersHello ==
    /\ hello["cartridge"] = "start"
    /\ LET r == ReadOutcome(toCartridge, DefaultLimits)
           f == FrameRead(toCartridge)
           a == NewHelloWithManifest(own["cartridge"], CartridgeManifest)
       IN  /\ r # "blocked"
           /\ toCartridge' = IF r = "frame" THEN AfterRead(toCartridge) ELSE toCartridge
           /\ IF r = "frame" /\ f.type = "HELLO" /\ WriteOutcome(toHost, a, DefaultLimits) = "written"
              THEN toHost' = WriteFrame(toHost, a) /\ Negotiate("cartridge", f)
              ELSE Fail("cartridge") /\ UNCHANGED <<toHost, negotiated>>
    /\ UNCHANGED <<own, manifest>>

\* HandshakeInitiate, second half. A HELLO without a manifest is one with an empty one.
HostReadsHello ==
    /\ hello["host"] = "waiting"
    /\ LET r == ReadOutcome(toHost, DefaultLimits)
           f == FrameRead(toHost)
       IN  /\ r # "blocked"
           /\ toHost' = IF r = "frame" THEN AfterRead(toHost) ELSE toHost
           /\ IF r = "frame" /\ f.type = "HELLO"
              THEN /\ Negotiate("host", f)
                   /\ manifest' = IF HasManifest(f) THEN {f.meta.manifest} ELSE {}
              ELSE Fail("host") /\ UNCHANGED <<negotiated, manifest>>
    /\ UNCHANGED <<own, toCartridge>>

\* The process of the cartridge ends, at any time and anywhere in a frame.
CartridgeDies ==
    /\ ~toHost.closed
    /\ \E tail \in Tail3 : toHost' = Close(toHost, tail)
    /\ toCartridge' = Abandon(toCartridge)
    /\ Fail("cartridge")
    /\ UNCHANGED <<own, negotiated, manifest>>
=============================================================================
