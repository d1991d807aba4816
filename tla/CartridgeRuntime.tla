--------------------------- MODULE CartridgeRuntime ---------------------------
(***************************************************************************)
(* The cartridge runtime (bifaci/cartridge_runtime.go, runCBORMode): what  *)
(* runs in a cartridge process between its stdin and its stdout.           *)
(*                                                                         *)
(* One loop reads frames.  It collects the streams of a request until END  *)
(* and then starts two goroutines: a feeder that pushes the collected      *)
(* frames into the bounded framesChan, and the handler.  It also forwards  *)
(* responses to peer requests into the bounded channel of their handler,   *)
(* and blocks while that is full.  Each frame is written under the mutex   *)
(* of syncFrameWriter, so a write is a step of its own.                    *)
(*                                                                         *)
(* A handler is one of the kinds below; each request has at most one peer  *)
(* request, Peer(r).  A scenario names the handler of each request and     *)
(* what the host sends for it.                                             *)
(***************************************************************************)
EXTENDS Integers, Sequences, SequencesExt

CONSTANTS
  Requests,     \* ids of incoming requests
  Scenarios,    \* [handler, body]: for each request the kind of the handler
                \* that FindHandler returns, and a sequence of frames
                \* of HostFrames, from REQ on
  PeerBodies,   \* such sequences in answer to a peer request
  InputSize,    \* capacity of framesChan (64 in the code)
  PeerSize,     \* capacity of a peer response channel (64 in the code)
  MaxChunks,    \* bound: chunks of a response
  MaxBeats,     \* bound: heartbeats
  CanClose      \* whether the host may close stdin

\* "none"    no handler, or a REQ that is refused for its form
\* "echo"    reads its input to END, emits (the identity handler)
\* "fail"    reads its input to END and returns an error
\* "drain"   ranges over its input (the adapter-selection handler)
\* "early"   may return before it has read its input
\* "peer"    reads to END, invokes a peer, reads the response, emits
\* "quit"    as "peer", but reads one frame of the response only
Kinds == {"none", "echo", "fail", "drain", "early", "peer", "quit"}

\* What the host sends, but for the id; ok: the checksum of a chunk is right.
HostFrames ==
  [type : {"REQ", "STREAM_START", "CHUNK", "STREAM_END", "END", "ERR", "LOG"},
   stream : STRING, data : Int, ok : BOOLEAN]

Peer(r) == <<r, "peer">>
Peers == {Peer(r) : r \in Requests}

\* Ids are fresh.  A body is sent once, and REQ is its first frame; no REQ is sent
\* in answer to a peer request.
ASSUME RuntimeAssumption ==
  /\ Requests \cap Peers = {}
  /\ \A s \in Scenarios :
       /\ s.handler \in [Requests -> Kinds] /\ s.body \in [Requests -> Seq(HostFrames)]
       /\ \A r \in Requests : \A i \in DOMAIN s.body[r] : s.body[r][i].type = "REQ" => i = 1
  /\ \A response \in PeerBodies :
       response \in Seq(HostFrames) /\ \A i \in DOMAIN response : response[i].type # "REQ"
  /\ {InputSize, PeerSize} \subseteq Nat \ {0} /\ {MaxChunks, MaxBeats} \subseteq Nat
  /\ CanClose \in BOOLEAN

Ids == Requests \cup Peers
Owner(id) == IF id \in Peers THEN id[1] ELSE id

VARIABLES
  stdin,                \* frames the host has written
  body,                 \* history: what the host sends under an id
  todo,                 \* the part of it not yet written
  eof,                  \* the host has closed stdin
  handler,              \* the handlers of the scenario
  looping,              \* the read loop has not ended
  pendingIncoming,      \* r -> sequence of [id, chunks, complete]
  pendingPeerRequests,  \* requests whose peer request is registered
  sender,               \* peer response channel of a handler
  senderClosed,         \* requests whose channel is closed
  feeder,               \* what the feeder of a request still has to push, by stream
  framesChan,           \* input channel of a handler
  inputClosed,          \* requests whose framesChan is closed
  pc,                   \* where a handler goroutine is
  got,                  \* frames a handler has read from framesChan
  peerGot,              \* frames a handler has read from its peer channel
  chunkIndex,           \* threadSafeEmitter.chunkIndex
  streamStarted,        \* requests whose STREAM_START is written
  written,              \* frames on stdout, per id
  beats,                \* <<heartbeats sent, heartbeats answered>>
  crashed               \* the process has panicked

input   == <<stdin, body, todo, eof, handler>>
loop    == <<looping, pendingIncoming, beats>>
peering == <<pendingPeerRequests, sender, senderClosed>>
feeding == <<feeder, framesChan, inputClosed>>
emitter == <<chunkIndex, streamStarted>>
handling == <<pc, got, peerGot>>
vars == <<input, loop, peering, feeding, emitter, handling, written, crashed>>

Up == ~crashed
Frame(type, xid, n) == [type |-> type, xid |-> xid, n |-> n]
Write(id, frame) == written' = [written EXCEPT ![id] = Append(@, frame)]
Terminal(f) == f.type \in {"END", "ERR"}

Init ==
  /\ stdin = <<>> /\ eof = FALSE /\ looping = TRUE /\ beats = <<0, 0>> /\ crashed = FALSE
  /\ \E s \in Scenarios :
       /\ handler = s.handler
       /\ body = [id \in Ids |-> IF id \in Requests THEN s.body[id] ELSE <<>>]
  /\ todo = body
  /\ pendingIncoming = [r \in {} |-> <<>>] /\ pendingPeerRequests = {}
  /\ sender = [r \in Requests |-> <<>>] /\ senderClosed = {}
  /\ feeder = [r \in Requests |-> <<>>] /\ framesChan = feeder /\ inputClosed = {}
  /\ pc = [r \in Requests |-> "none"] /\ got = feeder /\ peerGot = feeder
  /\ chunkIndex = [r \in Requests |-> 0] /\ streamStarted = {}
  /\ written = [id \in Ids |-> <<>>]

-----------------------------------------------------------------------------
(* The host at the other end of stdin *)

WithId(id, f) == [rid |-> id, type |-> f.type, stream |-> f.stream, data |-> f.data, ok |-> f.ok]

HostSends(id) ==
  /\ Up /\ ~eof /\ todo[id] # <<>>
  /\ stdin' = Append(stdin, WithId(id, Head(todo[id])))
  /\ todo' = [todo EXCEPT ![id] = Tail(@)]
  /\ UNCHANGED <<body, eof, handler, loop, peering, feeding, emitter, handling, written, crashed>>

\* The peer request is answered once its REQ is written.
HostAnswers(r, response) ==
  /\ Up /\ ~eof /\ written[Peer(r)] # <<>> /\ body[Peer(r)] = <<>>
  /\ body' = [body EXCEPT ![Peer(r)] = response]
  /\ todo' = [todo EXCEPT ![Peer(r)] = response]
  /\ UNCHANGED <<stdin, eof, handler, loop, peering, feeding, emitter, handling, written, crashed>>

HostBeats ==
  /\ Up /\ ~eof /\ beats[1] < MaxBeats
  /\ beats' = [beats EXCEPT ![1] = @ + 1]
  /\ stdin' = Append(stdin, [type |-> "HEARTBEAT"])
  /\ UNCHANGED <<body, todo, eof, handler, looping, pendingIncoming, peering, feeding, emitter,
                 handling, written, crashed>>

HostCloses ==
  /\ Up /\ CanClose /\ ~eof
  /\ eof' = TRUE
  /\ UNCHANGED <<stdin, body, todo, handler, loop, peering, feeding, emitter, handling, written, crashed>>

-----------------------------------------------------------------------------
(* The read loop, a case per frame type.  An ERR that the loop writes carries *)
(* the XID for a refused REQ only.                                            *)

Pending(f) == f.rid \in DOMAIN pendingIncoming
Drop(r) == [q \in DOMAIN pendingIncoming \ {r} |-> pendingIncoming[q]]
Set(r, streams) ==
  [q \in DOMAIN pendingIncoming \cup {r} |-> IF q = r THEN streams ELSE pendingIncoming[q]]

\* Positions of the stream a frame names.
At(f) == {i \in DOMAIN pendingIncoming[f.rid] : pendingIncoming[f.rid][i].id = f.stream}

\* FAIL HARD: the request is forgotten and an ERR written.
FailHard(f) ==
  /\ pendingIncoming' = Drop(f.rid)
  /\ Write(f.rid, Frame("ERR", FALSE, 0))

\* A frame that belongs to no incoming request goes to the handler that waits
\* for a peer response of that id, if there is one; the loop blocks while the
\* channel is full, and the process panics if it is closed.
Registered(f) == IF f.rid \in Peers THEN {Owner(f.rid)} \cap pendingPeerRequests ELSE {}

Forward(f) ==
  /\ \A r \in Registered(f) : Len(sender[r]) < PeerSize
  /\ sender' = [r \in Requests |-> IF r \in Registered(f) THEN Append(sender[r], f) ELSE sender[r]]
  /\ crashed' = (Registered(f) \cap senderClosed # {})

HandleReq(f) ==
  /\ f.type = "REQ"
  /\ \/ /\ handler[f.rid] = "none"
        /\ Write(f.rid, Frame("ERR", TRUE, 0))
        /\ UNCHANGED pendingIncoming
     \/ /\ handler[f.rid] # "none"
        /\ pendingIncoming' = Set(f.rid, <<>>)
        /\ UNCHANGED written
  /\ UNCHANGED <<beats, peering, feeding, handling, crashed>>

HandleHeartbeat(f) ==
  /\ f.type = "HEARTBEAT"
  /\ beats' = [beats EXCEPT ![2] = @ + 1]
  /\ UNCHANGED <<pendingIncoming, peering, feeding, handling, written, crashed>>

\* Mutant of HandleChunk: a chunk goes to the stream that was started last.
HandleChunk_LastStream(f) ==
  /\ f.type = "CHUNK"
  /\ IF Pending(f) /\ pendingIncoming[f.rid] # <<>>
     THEN /\ pendingIncoming' =
               [pendingIncoming EXCEPT ![f.rid][Len(pendingIncoming[f.rid])].chunks = Append(@, f.data)]
          /\ UNCHANGED <<sender, crashed>>
     ELSE Forward(f) /\ UNCHANGED pendingIncoming
  /\ UNCHANGED <<beats, pendingPeerRequests, senderClosed, feeding, handling, written>>

\* A corrupt chunk is answered with an ERR and otherwise ignored.
HandleChunk(f) ==
  /\ f.type = "CHUNK"
  /\ \/ /\ ~f.ok
        /\ Write(f.rid, Frame("ERR", FALSE, 0))
        /\ UNCHANGED <<pendingIncoming, sender, crashed>>
     \/ /\ f.ok /\ Pending(f)
        /\ \A i \in At(f) : pendingIncoming[f.rid][i].complete
        /\ FailHard(f) /\ UNCHANGED <<sender, crashed>>
     \/ /\ f.ok /\ Pending(f)
        /\ \E i \in At(f) :
             /\ ~pendingIncoming[f.rid][i].complete
             /\ pendingIncoming' = [pendingIncoming EXCEPT ![f.rid][i].chunks = Append(@, f.data)]
        /\ UNCHANGED <<written, sender, crashed>>
     \/ /\ f.ok /\ ~Pending(f)
        /\ Forward(f) /\ UNCHANGED <<pendingIncoming, written>>
  /\ UNCHANGED <<beats, pendingPeerRequests, senderClosed, feeding, handling>>

\* The continue after a duplicate id continues the search through the streams,
\* so the mutex is unlocked a second time below, which ends the process.
HandleStreamStart(f) ==
  /\ f.type = "STREAM_START"
  /\ \/ /\ Pending(f) /\ At(f) # {}
        /\ FailHard(f) /\ crashed' = TRUE /\ UNCHANGED sender
     \/ /\ Pending(f) /\ At(f) = {}
        /\ pendingIncoming' = [pendingIncoming EXCEPT ![f.rid] =
             Append(@, [id |-> f.stream, chunks |-> <<>>, complete |-> FALSE])]
        /\ UNCHANGED <<written, sender, crashed>>
     \/ /\ ~Pending(f)
        /\ Forward(f) /\ UNCHANGED <<pendingIncoming, written>>
  /\ UNCHANGED <<beats, pendingPeerRequests, senderClosed, feeding, handling>>

\* Mutant of HandleStreamEnd: a refused request is not forgotten.
HandleStreamEnd_KeepEntry(f) ==
  /\ f.type = "STREAM_END"
  /\ IF Pending(f)
     THEN /\ pendingIncoming' = [pendingIncoming EXCEPT ![f.rid] =
               [i \in DOMAIN @ |-> [@[i] EXCEPT !.complete = i \in At(f) \/ @]]]
          /\ IF At(f) = {} THEN Write(f.rid, Frame("ERR", FALSE, 0)) ELSE UNCHANGED written
          /\ UNCHANGED <<sender, crashed>>
     ELSE Forward(f) /\ UNCHANGED <<pendingIncoming, written>>
  /\ UNCHANGED <<beats, pendingPeerRequests, senderClosed, feeding, handling>>

HandleStreamEnd(f) ==
  /\ f.type = "STREAM_END"
  /\ \/ /\ Pending(f) /\ At(f) = {}
        /\ FailHard(f) /\ UNCHANGED <<sender, crashed>>
     \/ /\ Pending(f)
        /\ \E i \in At(f) :
             pendingIncoming' = [pendingIncoming EXCEPT ![f.rid][i].complete = TRUE]
        /\ UNCHANGED <<written, sender, crashed>>
     \/ /\ ~Pending(f)
        /\ Forward(f) /\ UNCHANGED <<pendingIncoming, written>>
  /\ UNCHANGED <<beats, pendingPeerRequests, senderClosed, feeding, handling>>

\* What the feeder pushes: stream after stream, then END.
Item(type, stream, data) == [type |-> type, stream |-> stream, data |-> data]
StreamItems(s) ==
  <<Item("STREAM_START", s.id, 0)>> \o [i \in DOMAIN s.chunks |-> Item("CHUNK", s.id, s.chunks[i])]
    \o <<Item("STREAM_END", s.id, Len(s.chunks))>>
InputOf(streams) ==
  Append([i \in DOMAIN streams |-> StreamItems(streams[i])], <<Item("END", "none", 0)>>)

\* Mutant of HandleEnd: the peer request is forgotten and its channel not closed.
HandleEnd_NoClose(f) ==
  /\ f.type = "END"
  /\ \/ /\ Pending(f)
        /\ pendingIncoming' = Drop(f.rid)
        /\ feeder' = [feeder EXCEPT ![f.rid] = InputOf(pendingIncoming[f.rid])]
        /\ pc' = [pc EXCEPT ![f.rid] = "read"]
        /\ UNCHANGED pendingPeerRequests
     \/ /\ ~Pending(f)
        /\ pendingPeerRequests' = pendingPeerRequests \ Registered(f)
        /\ UNCHANGED <<pendingIncoming, feeder, pc>>
  /\ UNCHANGED <<beats, sender, senderClosed, framesChan, inputClosed, got, peerGot, written, crashed>>

HandleEnd(f) ==
  /\ f.type = "END"
  /\ \/ /\ Pending(f)
        /\ pendingIncoming' = Drop(f.rid)
        /\ feeder' = [feeder EXCEPT ![f.rid] = InputOf(pendingIncoming[f.rid])]
        /\ pc' = [pc EXCEPT ![f.rid] = "read"]
        /\ UNCHANGED <<pendingPeerRequests, senderClosed, crashed>>
     \/ /\ ~Pending(f)
        /\ pendingPeerRequests' = pendingPeerRequests \ Registered(f)
        /\ senderClosed' = senderClosed \cup Registered(f)
        /\ crashed' = (Registered(f) \cap senderClosed # {})
        /\ UNCHANGED <<pendingIncoming, feeder, pc>>
  /\ UNCHANGED <<beats, sender, framesChan, inputClosed, got, peerGot, written>>

\* Mutant of HandleErr: the peer request stays registered.
HandleErr_Load(f) ==
  /\ f.type = "ERR"
  /\ Forward(f)
  /\ senderClosed' = senderClosed \cup Registered(f)
  /\ UNCHANGED <<pendingIncoming, pendingPeerRequests, beats, feeding, handling, written>>

\* ERR ends a peer request; for an incoming request it is ignored.
HandleErr(f) ==
  /\ f.type = "ERR"
  /\ Forward(f)
  /\ pendingPeerRequests' = pendingPeerRequests \ Registered(f)
  /\ senderClosed' = senderClosed \cup Registered(f)
  /\ UNCHANGED <<pendingIncoming, beats, feeding, handling, written>>

HandleLog(f) ==
  /\ f.type = "LOG"
  /\ Forward(f)
  /\ UNCHANGED <<pendingIncoming, beats, pendingPeerRequests, senderClosed, feeding, handling,
                 written>>

ReadLoop ==
  /\ Up /\ looping /\ stdin # <<>>
  /\ stdin' = Tail(stdin)
  /\ LET f == Head(stdin)
     IN \/ HandleReq(f) \/ HandleHeartbeat(f) \/ HandleChunk(f) \/ HandleStreamStart(f)
        \/ HandleStreamEnd(f) \/ HandleEnd(f) \/ HandleErr(f) \/ HandleLog(f)
  /\ UNCHANGED <<body, todo, eof, handler, looping, emitter>>

\* End of stdin: the loop ends, and the process with the last handler.
ReadEof ==
  /\ Up /\ looping /\ eof /\ stdin = <<>>
  /\ looping' = FALSE
  /\ UNCHANGED <<input, pendingIncoming, beats, peering, feeding, emitter, handling, written, crashed>>

-----------------------------------------------------------------------------
(* The feeder and the handler of a request *)

\* The feeder pushes a frame, and goes on to the next stream after the last of one;
\* pushing into a closed channel ends the process.
Pushed(parts) == IF Len(Head(parts)) = 1 THEN Tail(parts) ELSE [parts EXCEPT ![1] = Tail(@)]

Feed(r) ==
  /\ Up /\ feeder[r] # <<>>
  /\ \/ /\ r \notin inputClosed /\ Len(framesChan[r]) < InputSize
        /\ framesChan' = [framesChan EXCEPT ![r] = Append(@, Head(Head(feeder[r])))]
        /\ feeder' = [feeder EXCEPT ![r] = Pushed(@)]
        /\ UNCHANGED crashed
     \/ /\ r \in inputClosed
        /\ crashed' = TRUE
        /\ UNCHANGED <<feeder, framesChan>>
  /\ UNCHANGED <<input, loop, peering, inputClosed, emitter, handling, written>>

Goto(r, where) == pc' = [pc EXCEPT ![r] = where]

\* The handler reads its input, to END unless it drains the channel: framesChan
\* is closed only after the handler has returned, so a drain never ends.
HandlerReads(r) ==
  LET f == Head(framesChan[r])
      after == CASE handler[r] = "fail" -> "fail"
                 [] handler[r] \in {"peer", "quit"} -> "invoke"
                 [] OTHER -> "emit"
  IN
  /\ Up /\ pc[r] = "read" /\ framesChan[r] # <<>>
  /\ framesChan' = [framesChan EXCEPT ![r] = Tail(@)]
  /\ got' = [got EXCEPT ![r] = Append(@, f)]
  /\ Goto(r, IF f.type = "END" /\ handler[r] # "drain" THEN after ELSE "read")
  /\ UNCHANGED <<input, loop, peering, feeder, inputClosed, emitter, peerGot, written, crashed>>

HandlerQuits(r) ==
  /\ Up /\ pc[r] = "read" /\ handler[r] = "early"
  /\ Goto(r, "emit")
  /\ UNCHANGED <<input, loop, peering, feeding, emitter, got, peerGot, written, crashed>>

\* peerInvokerImpl.Invoke registers the request, then writes REQ, body and END.
InvokeRegisters(r) ==
  /\ Up /\ pc[r] = "invoke"
  /\ pendingPeerRequests' = pendingPeerRequests \cup {r}
  /\ Goto(r, "REQ")
  /\ UNCHANGED <<input, loop, sender, senderClosed, feeding, emitter, got, peerGot, written, crashed>>

InvokeWrites(r) ==
  /\ Up /\ pc[r] \in {"REQ", "BODY", "END"}
  /\ Write(Peer(r), Frame(pc[r], FALSE, 0))
  /\ Goto(r, IF pc[r] = "REQ" THEN "BODY" ELSE IF pc[r] = "BODY" THEN "END" ELSE "await")
  /\ UNCHANGED <<input, loop, peering, feeding, emitter, got, peerGot, crashed>>

\* Mutant of HandlerAwaits: only the first frame is read.
HandlerAwaits_First(r) ==
  LET f == Head(sender[r])
  IN
  /\ Up /\ pc[r] = "await"
  /\ \/ /\ sender[r] # <<>>
        /\ sender' = [sender EXCEPT ![r] = Tail(@)]
        /\ peerGot' = [peerGot EXCEPT ![r] = Append(@, f)]
        /\ Goto(r, IF f.type = "ERR" THEN "fail" ELSE "emit")
     \/ /\ sender[r] = <<>> /\ r \in senderClosed
        /\ Goto(r, "emit") /\ UNCHANGED <<sender, peerGot>>
  /\ UNCHANGED <<input, loop, pendingPeerRequests, senderClosed, feeding, emitter, got, written, crashed>>

\* DemuxPeerResponse reads up to the end of the stream, END or ERR; a handler
\* may also stop before, and nobody reads the channel then.
HandlerAwaits(r) ==
  LET f == Head(sender[r])
  IN
  /\ Up /\ pc[r] = "await"
  /\ \/ /\ sender[r] # <<>>
        /\ sender' = [sender EXCEPT ![r] = Tail(@)]
        /\ peerGot' = [peerGot EXCEPT ![r] = Append(@, f)]
        /\ Goto(r, CASE f.type = "ERR" -> "fail"
                     [] f.type = "STREAM_END" \/ handler[r] = "quit" -> "emit"
                     [] OTHER -> "await")
     \/ /\ sender[r] = <<>> /\ r \in senderClosed
        /\ Goto(r, "emit") /\ UNCHANGED <<sender, peerGot>>
  /\ UNCHANGED <<input, loop, pendingPeerRequests, senderClosed, feeding, emitter, got, written, crashed>>

\* threadSafeEmitter: STREAM_START once, then chunks counted from 0.
EmitStarts(r) ==
  /\ Up /\ pc[r] \in {"emit", "finalize"} /\ r \notin streamStarted
  /\ streamStarted' = streamStarted \cup {r}
  /\ Write(r, Frame("STREAM_START", TRUE, 0))
  /\ UNCHANGED <<input, loop, peering, feeding, chunkIndex, handling, crashed>>

EmitChunk(r) ==
  /\ Up /\ pc[r] = "emit" /\ r \in streamStarted /\ chunkIndex[r] < MaxChunks
  /\ Write(r, Frame("CHUNK", TRUE, chunkIndex[r]))
  /\ chunkIndex' = [chunkIndex EXCEPT ![r] = @ + 1]
  /\ UNCHANGED <<input, loop, peering, feeding, streamStarted, handling, crashed>>

\* The handler returns without an error, and Finalize ends the response.
HandlerReturns(r) ==
  /\ Up /\ pc[r] = "emit"
  /\ Goto(r, "finalize")
  /\ UNCHANGED <<input, loop, peering, feeding, emitter, got, peerGot, written, crashed>>

\* Mutant of Finalize: no STREAM_START for an empty response.
Finalize_WithoutStart(r) ==
  /\ Up
  /\ \/ /\ pc[r] = "finalize"
        /\ Write(r, Frame("STREAM_END", TRUE, chunkIndex[r]))
        /\ Goto(r, "finish")
     \/ /\ pc[r] = "finish"
        /\ Write(r, Frame("END", TRUE, 0))
        /\ Goto(r, "close")
  /\ UNCHANGED <<input, loop, peering, feeding, emitter, got, peerGot, crashed>>

Finalize(r) ==
  /\ Up
  /\ \/ /\ pc[r] = "finalize" /\ r \in streamStarted
        /\ Write(r, Frame("STREAM_END", TRUE, chunkIndex[r]))
        /\ Goto(r, "finish")
     \/ /\ pc[r] = "finish"
        /\ Write(r, Frame("END", TRUE, 0))
        /\ Goto(r, "close")
  /\ UNCHANGED <<input, loop, peering, feeding, emitter, got, peerGot, crashed>>

HandlerFails(r) ==
  /\ Up /\ pc[r] = "fail"
  /\ Write(r, Frame("ERR", TRUE, 0))
  /\ Goto(r, "close")
  /\ UNCHANGED <<input, loop, peering, feeding, emitter, got, peerGot, crashed>>

\* The deferred close of framesChan, and the end of the goroutine.
HandlerEnds(r) ==
  /\ Up /\ pc[r] = "close"
  /\ inputClosed' = inputClosed \cup {r}
  /\ Goto(r, "done")
  /\ UNCHANGED <<input, loop, peering, feeder, framesChan, emitter, got, peerGot, written, crashed>>

-----------------------------------------------------------------------------
Host ==
  \/ \E id \in Ids : HostSends(id)
  \/ \E r \in Requests, response \in PeerBodies : HostAnswers(r, response)
  \/ HostBeats
  \/ HostCloses

HandlerStep(r) ==
  \/ HandlerReads(r) \/ InvokeRegisters(r) \/ InvokeWrites(r) \/ HandlerAwaits(r)
  \/ EmitStarts(r) \/ Finalize(r) \/ HandlerFails(r) \/ HandlerEnds(r)

Next ==
  \/ Host \/ ReadLoop \/ ReadEof
  \/ \E r \in Requests :
       Feed(r) \/ HandlerStep(r) \/ HandlerQuits(r) \/ EmitChunk(r) \/ HandlerReturns(r)

Spec == Init /\ [][Next]_vars

\* The Go scheduler runs every goroutine, a handler returns once it has what it
\* waits for, and the host sends on what it has begun and answers peer requests.
Fairness ==
  /\ WF_vars(ReadLoop) /\ WF_vars(ReadEof)
  /\ \A id \in Ids : WF_vars(HostSends(id))
  /\ \A r \in Requests :
       /\ WF_vars(Feed(r)) /\ WF_vars(HandlerStep(r)) /\ WF_vars(HandlerReturns(r))
       /\ WF_vars(\E response \in PeerBodies : HostAnswers(r, response))

FairSpec == Spec /\ Fairness

-----------------------------------------------------------------------------
(***************************************************************************)
(* Properties                                                              *)
(***************************************************************************)

Corrupt(r) == \E i \in DOMAIN body[r] : ~body[r][i].ok
TerminalsOf(r) == {i \in DOMAIN written[r] : Terminal(written[r][i])}

\* A request is answered once: nothing follows END or ERR, whatever frames the
\* loop still reads for it while or after the handler runs.  A corrupt chunk is
\* the exception: its ERR leaves the request alive.
AnsweredOnce ==
  \A r \in Requests :
    ~Corrupt(r) => \A i \in TerminalsOf(r) : i = Len(written[r])

\* A response that ends with END is a whole stream: STREAM_START, its chunks
\* numbered from 0, and STREAM_END with their number.
ResponseIsWhole ==
  \A r \in Requests :
    LET w == written[r]
        n == Len(w)
    IN n > 0 /\ w[n].type = "END" /\ ~Corrupt(r) =>
         /\ n >= 3 /\ w[1].type = "STREAM_START"
         /\ w[n - 1].type = "STREAM_END" /\ w[n - 1].n = n - 3
         /\ \A i \in 2..n - 2 : w[i].type = "CHUNK" /\ w[i].n = i - 2

\* The data of the chunks of a stream, in order.
DataOf(frames, stream) ==
  LET upTo[n \in 0..Len(frames)] ==
        IF n = 0 THEN <<>>
        ELSE IF frames[n].type = "CHUNK" /\ frames[n].stream = stream
             THEN Append(upTo[n - 1], frames[n].data)
             ELSE upTo[n - 1]
  IN upTo[Len(frames)]
UpToEnd(frames) ==
  SubSeq(frames, 1, CHOOSE i \in DOMAIN frames :
    frames[i].type = "END" /\ \A j \in 1..i - 1 : frames[j].type # "END")

\* The handler sees of every stream of a body the chunks that were sent in it, in
\* order, however the streams were interleaved on stdin.
BodiesAreComplete ==
  \A r \in Requests :
    got[r] # <<>> /\ Last(got[r]).type = "END" /\ ~Corrupt(r) =>
      \A i \in DOMAIN body[r] :
        body[r][i].type = "STREAM_START" =>
          DataOf(got[r], body[r][i].stream) = DataOf(UpToEnd(body[r]), body[r][i].stream)

\* What a handler reads of a peer response is a prefix of what the host sent: no
\* frame that comes early or late is lost or reordered on the way, but for what
\* follows a corrupt chunk.
Sent(id) == [i \in DOMAIN body[id] |-> WithId(id, body[id][i])]
PeerFramesInOrder ==
  \A r \in Requests : ~Corrupt(Peer(r)) => IsPrefix(peerGot[r], Sent(Peer(r)))

\* A handler reads what was sent, of its own body and of the responses of its peers,
\* which take different ways through the loop.
InputIsComplete == BodiesAreComplete /\ PeerFramesInOrder

\* The process panics only if a handler returns before it has read its input or
\* the host repeats a stream id: no peer response, however it races with its
\* handler, is sent on a closed channel or closes one twice.
Repeats(frames) == \E i, j \in DOMAIN frames :
  /\ i < j /\ frames[i].type = "STREAM_START" /\ frames[j].type = "STREAM_START"
  /\ frames[i].stream = frames[j].stream

PanicHasACause ==
  crashed => \E r \in Requests : handler[r] = "early" \/ Repeats(body[r])

\* A request whose handler was started is answered, as long as stdin stays open, and
\* the loop reads all that the host writes: it is not stopped for ever by a full channel.
StartedIsAnswered ==
  /\ \A r \in Requests : pc[r] = "read" ~> TerminalsOf(r) # {} \/ eof
  /\ stdin # <<>> ~> stdin = <<>>
=============================================================================
