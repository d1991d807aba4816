------------------------------ MODULE RelayLink ------------------------------
(***************************************************************************)
(* The relay between the engine and a cartridge host (bifaci/relay.go).    *)
(*                                                                         *)
(*   engine  -- down -->  RelaySlave.Run  -- toLocal -->    host           *)
(*   engine  <-- up ----  RelaySlave.Run  <-- fromLocal --  host           *)
(*                                                                         *)
(* Run has a goroutine for each direction, here a pump.  RELAY_NOTIFY goes *)
(* up and RELAY_STATE down; neither leaves the relay.  SendNotify writes   *)
(* to the same stream as the pump; a write has no lock, so the process has *)
(* to keep the two apart, and here each frame is written whole.            *)
(***************************************************************************)
EXTENDS Wire

VARIABLES
    slave,          \* [sendsFirst: Run starts with a notification]
    down, up, toLocal, fromLocal,
    upSent,         \* the frames written to up so far
    pump,           \* pump[d]: "idle", "reading", "writing" a frame it holds, or "ended"
    run,            \* "notify", "waiting", "joining" or "returned"
    errCh,          \* how pumps ended, in order
    resourceState,  \* the payload of the last RELAY_STATE
    master          \* RelayMaster: its state, manifest and limits

linkVars == <<slave, down, up, toLocal, fromLocal, upSent, pump, run, errCh, resourceState, master>>

Directions == {"down", "up"}
InitialManifest == <<0>>

Pump(pc)   == [pc |-> pc, held |-> <<>>]
Writing(f) == [pc |-> "writing", held |-> <<f>>]
Held(d)    == Head(pump[d].held)

LinkInit(s) ==
    /\ slave = s
    /\ down = NewStream /\ up = NewStream /\ toLocal = NewStream /\ fromLocal = NewStream
    /\ pump = [d \in Directions |-> Pump("idle")] /\ upSent = <<>>
    /\ run = "notify" /\ errCh = <<>> /\ resourceState = <<>>
    /\ master = [state |-> "connecting", manifest |-> <<>>, limits |-> DefaultLimits]

-----------------------------------------------------------------------------
(***************************************************************************)
(* RelaySlave.Run.                                                         *)
(***************************************************************************)

SendsUp(f) == up' = WriteFrame(up, f) /\ upSent' = Append(upSent, f)

\* The notification to start with, if there is one; its failure is that of Run.
InitialNotify ==
    /\ run = "notify"
    /\ LET f == NewRelayNotify(InitialManifest, DefaultLimits)
           o == WriteOutcome(up, f, DefaultLimits)
       IN  CASE ~slave.sendsFirst ->
                    /\ run' = "waiting" /\ pump' = [d \in Directions |-> Pump("reading")]
                    /\ UNCHANGED <<up, upSent, errCh>>
             [] slave.sendsFirst /\ o = "written" ->
                    /\ SendsUp(f)
                    /\ run' = "waiting" /\ pump' = [d \in Directions |-> Pump("reading")]
                    /\ UNCHANGED errCh
             [] slave.sendsFirst /\ o = "error" ->
                    /\ run' = "returned" /\ errCh' = <<"error">>
                    /\ UNCHANGED <<up, upSent, pump>>
             [] OTHER -> FALSE
    /\ UNCHANGED <<slave, down, toLocal, fromLocal, resourceState, master>>

Source(d) == IF d = "down" THEN down ELSE fromLocal
Target(d) == IF d = "down" THEN toLocal ELSE up

IsRelayFrame(f) == f.type \in {"RELAY_NOTIFY", "RELAY_STATE"}
PassesOn_StateOnly(d, f) == f.type # "RELAY_STATE"
PassesOn(d, f) == ~IsRelayFrame(f)

EndPump_Silent(d, result) ==
    /\ pump' = [pump EXCEPT ![d] = Pump("ended")]
    /\ UNCHANGED errCh
EndPump(d, result) ==
    /\ pump' = [pump EXCEPT ![d] = Pump("ended")]
    /\ errCh' = Append(errCh, result)

\* The end of file is no error. A RELAY_STATE from the socket is kept, if it has a payload.
PumpReads(d) ==
    /\ pump[d].pc = "reading"
    /\ LET r == ReadOutcome(Source(d), DefaultLimits)
           f == FrameRead(Source(d))
       IN  /\ r # "blocked"
           /\ IF r = "frame"
              THEN /\ pump' = [pump EXCEPT ![d] = IF PassesOn(d, f) THEN Writing(f) ELSE Pump("reading")]
                   /\ resourceState' = IF d = "down" /\ f.type = "RELAY_STATE" /\ Has(f, "payload")
                                       THEN f.payload ELSE resourceState
                   /\ down' = IF d = "down" THEN AfterRead(down) ELSE down
                   /\ fromLocal' = IF d = "up" THEN AfterRead(fromLocal) ELSE fromLocal
                   /\ UNCHANGED errCh
              ELSE /\ EndPump(d, IF r = "eof" THEN "nil" ELSE "error")
                   /\ UNCHANGED <<resourceState, down, fromLocal>>
    /\ UNCHANGED <<slave, up, toLocal, upSent, run, master>>

PumpWrites(d) ==
    /\ pump[d].pc = "writing"
    /\ LET o == WriteOutcome(Target(d), Held(d), DefaultLimits)
       IN  /\ o # "blocked"
           /\ IF o = "written"
              THEN /\ toLocal' = IF d = "down" THEN WriteFrame(toLocal, Held(d)) ELSE toLocal
                   /\ IF d = "up" THEN SendsUp(Held(d)) ELSE UNCHANGED <<up, upSent>>
                   /\ pump' = [pump EXCEPT ![d] = Pump("reading")]
                   /\ UNCHANGED errCh
              ELSE EndPump(d, "error") /\ UNCHANGED <<toLocal, up, upSent>>
    /\ UNCHANGED <<slave, down, fromLocal, run, resourceState, master>>

\* Run takes the first result and then waits for the other pump, which nothing stops.
TakeFirstResult ==
    /\ run = "waiting" /\ errCh # <<>>
    /\ run' = "joining"
    /\ UNCHANGED <<slave, down, up, toLocal, fromLocal, upSent, pump, errCh, resourceState, master>>

Join ==
    /\ run = "joining"
    /\ \A d \in Directions : pump[d].pc = "ended"
    /\ run' = "returned"
    /\ UNCHANGED <<slave, down, up, toLocal, fromLocal, upSent, pump, errCh, resourceState, master>>

\* The process that called Run closes the streams.
SlaveCloses ==
    /\ run = "returned" /\ ~up.closed
    /\ up' = Close(up, "none") /\ toLocal' = Close(toLocal, "none")
    /\ down' = Abandon(down) /\ fromLocal' = Abandon(fromLocal)
    /\ UNCHANGED <<slave, upSent, pump, run, errCh, resourceState, master>>

\* SendNotify, by the process of the slave, when capabilities change.
SendNotify(updated, limits) ==
    /\ run \in {"waiting", "joining"}
    /\ LET f == NewRelayNotify(updated, limits)
       IN  WriteOutcome(up, f, DefaultLimits) = "written" /\ SendsUp(f)
    /\ UNCHANGED <<slave, down, toLocal, fromLocal, pump, run, errCh, resourceState, master>>

SlaveStep ==
    \/ InitialNotify \/ TakeFirstResult \/ Join \/ SlaveCloses
    \/ \E d \in Directions : PumpReads(d) \/ PumpWrites(d)

-----------------------------------------------------------------------------
(***************************************************************************)
(* RelayMaster.                                                            *)
(***************************************************************************)

EngineIsUp == ~down.closed

\* ConnectRelayMaster: the first frame has to be a complete notification.
ConnectRelayMaster ==
    /\ EngineIsUp /\ master.state = "connecting"
    /\ LET r == ReadOutcome(up, DefaultLimits)
           f == FrameRead(up)
       IN  /\ r # "blocked"
           /\ up' = IF r = "frame" THEN AfterRead(up) ELSE up
           /\ master' =
                IF r = "frame" /\ f.type = "RELAY_NOTIFY" /\ HasManifest(f) /\ HasLimits(f)
                THEN [state |-> "connected", manifest |-> f.meta.manifest,
                      limits |-> RelayNotifyLimits(f)]
                ELSE [master EXCEPT !.state = "failed"]
    /\ UNCHANGED <<slave, down, toLocal, fromLocal, upSent, pump, run, errCh, resourceState>>

Updated_LimitsOnly(m, f) ==
    [m EXCEPT !.limits = IF HasLimits(f) THEN RelayNotifyLimits(f) ELSE @]

\* The manifest and the limits of a notification replace those known, each if it is there.
Updated(m, f) ==
    [m EXCEPT !.manifest = IF HasManifest(f) THEN f.meta.manifest ELSE @,
              !.limits = IF HasLimits(f) THEN RelayNotifyLimits(f) ELSE @]

\* RelayMaster.ReadFrame; what it returns to the caller, if anything.
Returned ==
    IF ReadOutcome(up, DefaultLimits) = "frame" /\ ~IsRelayFrame(FrameRead(up))
    THEN <<FrameRead(up)>> ELSE <<>>

MasterReadFrame ==
    /\ EngineIsUp /\ master.state = "connected"
    /\ LET r == ReadOutcome(up, DefaultLimits)
           f == FrameRead(up)
       IN  /\ r # "blocked"
           /\ up' = IF r = "frame" THEN AfterRead(up) ELSE up
           /\ master' =
                CASE r = "frame" -> IF f.type = "RELAY_NOTIFY" THEN Updated(master, f) ELSE master
                  [] r = "eof"   -> [master EXCEPT !.state = "eof"]
                  [] OTHER       -> [master EXCEPT !.state = "failed"]
    /\ UNCHANGED <<slave, down, toLocal, fromLocal, upSent, pump, run, errCh, resourceState>>
=============================================================================
