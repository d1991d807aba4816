-------------------------------- MODULE Wire --------------------------------
(***************************************************************************)
(* Frames on a byte stream (bifaci/frame.go, codec.go, io.go, limits.go).  *)
(*                                                                         *)
(* A frame is the function of the fields it has; a field that is nil in    *)
(* the code is not in its domain.  Payloads are sequences of bytes, media  *)
(* URNs, caps and manifests values of their own.  A stream is what was     *)
(* written and not yet read: whole frames and, if the writer died, a piece *)
(* of one.                                                                 *)
(***************************************************************************)
EXTENDS Urns, SequencesExt, TLC

CONSTANTS
    DefaultMaxFrame, DefaultMaxChunk, DefaultMaxReorderBuffer,
    Overhead,           \* the size of a frame without its payload and manifest
    StreamCapacity      \* frames a pipe or socket buffers

ASSUME WireAssumption ==
    /\ DefaultMaxFrame \in Nat /\ DefaultMaxChunk \in Nat \ {0}
    /\ DefaultMaxReorderBuffer \in Nat \ {0}
    /\ Overhead \in Nat /\ Overhead + DefaultMaxChunk <= DefaultMaxFrame
    /\ StreamCapacity \in Nat \ {0}

ProtocolVersion == 2
RemovedRes      == "RES"       \* the frame type 2 of protocol 1
FrameType == {"HELLO", "REQ", "CHUNK", "END", "LOG", "ERR", "HEARTBEAT", "STREAM_START",
              "STREAM_END", "RELAY_NOTIFY", "RELAY_STATE", "CANCEL"}

-----------------------------------------------------------------------------
(***************************************************************************)
(* Limits.                                                                 *)
(***************************************************************************)

Limits(frame, chunk, reorder) ==
    [max_frame |-> frame, max_chunk |-> chunk, max_reorder_buffer |-> reorder]

DefaultLimits == Limits(DefaultMaxFrame, DefaultMaxChunk, DefaultMaxReorderBuffer)

Smaller(a, b) == IF a < b THEN a ELSE b
NegotiateLimits(a, b) == [k \in DOMAIN a |-> Smaller(a[k], b[k])]

-----------------------------------------------------------------------------
(***************************************************************************)
(* The frames and what is read from them.                                  *)
(***************************************************************************)

\* A frame or map with further fields.
With(f, fields) ==
    [k \in DOMAIN f \cup DOMAIN fields |-> IF k \in DOMAIN fields THEN fields[k] ELSE f[k]]

NewFrame(type, id) ==
    [type |-> type, id |-> id, seq |-> 0, version |-> ProtocolVersion]

WithMeta(frame, meta) == With(frame, [meta |-> meta])
WithManifest(limits, manifest) == With(limits, [manifest |-> manifest])

\* The content type, which nothing here reads, is left out.
NewReq(id, cap, payload) ==
    With(NewFrame("REQ", id), [cap |-> cap, payload |-> payload])

NewHello(limits) == WithMeta(NewFrame("HELLO", 0), limits)
NewHelloWithManifest(limits, manifest) == NewHello(WithManifest(limits, manifest))
NewRelayNotify(manifest, limits) ==
    WithMeta(NewFrame("RELAY_NOTIFY", 0), WithManifest(limits, manifest))
NewRelayState(resources) == With(NewFrame("RELAY_STATE", 0), [payload |-> resources])
NewCancelFrame(id, force) == With(NewFrame("CANCEL", id), [forceKill |-> force])

\* The checksum of data that arrives as it was sent: its value is what it was made from.
ComputeChecksum(data) == data

NewStreamStart(id, stream, media) ==
    With(NewFrame("STREAM_START", id), [streamId |-> stream, mediaUrn |-> media])
NewChunk(id, stream, seq, payload, index) ==
    With(NewFrame("CHUNK", id),
         [seq |-> seq, streamId |-> stream, payload |-> payload, chunkIndex |-> index,
          checksum |-> ComputeChecksum(payload)])
NewStreamEnd(id, stream, count) ==
    With(NewFrame("STREAM_END", id), [streamId |-> stream, chunkCount |-> count])
NewEnd(id) == With(NewFrame("END", id), [eof |-> TRUE])
NewErr(id, code) == WithMeta(NewFrame("ERR", id), [code |-> code])

Has(frame, field) == field \in DOMAIN frame
MetaInt(frame, key) ==
    IF Has(frame, "meta") /\ key \in DOMAIN frame.meta THEN frame.meta[key] ELSE 0

Announced(frame) ==
    Limits(MetaInt(frame, "max_frame"), MetaInt(frame, "max_chunk"),
           MetaInt(frame, "max_reorder_buffer"))

HasManifest(frame) == Has(frame, "meta") /\ "manifest" \in DOMAIN frame.meta

\* The limits of a RELAY_NOTIFY count if both sizes are positive.
HasLimits(frame) == Announced(frame).max_frame > 0 /\ Announced(frame).max_chunk > 0
RelayNotifyLimits(frame) ==
    LET l == Announced(frame)
    IN  IF l.max_reorder_buffer <= 0
        THEN [l EXCEPT !.max_reorder_buffer = DefaultMaxReorderBuffer] ELSE l

-----------------------------------------------------------------------------
(***************************************************************************)
(* The codec.                                                              *)
(***************************************************************************)

\* Fields whose empty value is not written; a seq of 0 is not either, and read as 0.
OmittedWhenEmpty == {"eof", "streamId", "cap", "meta"}
IsEmptyValue(frame, field) ==
    CASE field = "eof"  -> ~frame.eof
      [] field = "meta" -> DOMAIN frame.meta = {}
      [] OTHER          -> frame[field] = ""

EncodeFrame(frame) ==
    [k \in {x \in DOMAIN frame : x \notin OmittedWhenEmpty \/ ~IsEmptyValue(frame, x)} |->
        frame[k]]

\* The fields that the decoder looks at. What the encoder writes beside them is lost.
DecodedFields == {"version", "type", "id", "seq", "meta", "payload", "eof", "cap", "streamId",
                  "mediaUrn", "chunkIndex", "chunkCount", "checksum"}

Undecodable(m) ==
    \/ m.version # ProtocolVersion
    \/ m.type = RemovedRes \/ m.type \notin FrameType
    \/ m.type = "CHUNK" /\ ~({"chunkIndex", "checksum"} \subseteq DOMAIN m)
    \/ m.type = "STREAM_END" /\ "chunkCount" \notin DOMAIN m

DecodeFrame(m) == [k \in DOMAIN m \cap DecodedFields |-> m[k]]

\* A frame as the other end of a stream gets it.
OverTheWire(frame) == DecodeFrame(EncodeFrame(frame))

-----------------------------------------------------------------------------
(***************************************************************************)
(* Reading and writing frames.                                             *)
(***************************************************************************)

SizeOf(frame) ==
    Overhead + (IF Has(frame, "payload") THEN Len(frame.payload) ELSE 0)

\* The writer is gone if closed; what it left is a tail: nothing, the length of a frame,
\* or the length and a part of the body. Without a reader a write fails.
NewStream == [q |-> <<>>, closed |-> FALSE, tail |-> "none", gone |-> FALSE]
Tail3 == {"none", "length", "part"}
Close(s, tail) == [s EXCEPT !.closed = TRUE, !.tail = tail]
Abandon(s)     == [s EXCEPT !.gone = TRUE, !.q = <<>>]

\* What WriteFrame makes of a frame. A frame over the limit is not written at all.
WriteOutcome(s, frame, limits) ==
    CASE SizeOf(frame) > limits.max_frame     -> "error"
      [] s.gone                               -> "error"
      [] Len(s.q) >= StreamCapacity           -> "blocked"
      [] OTHER                                -> "written"
WriteFrame(s, frame) == [s EXCEPT !.q = Append(@, EncodeFrame(frame))]

\* What ReadFrame finds. A stream that ends between the length of a frame and its body is
\* an end of file like one that ends between frames; within either it is an error.
ReadOutcome(s, limits) ==
    CASE s.q # <<>> /\ SizeOf(Head(s.q)) > limits.max_frame -> "error"
      [] s.q # <<>> /\ Undecodable(Head(s.q))               -> "error"
      [] s.q # <<>>                                         -> "frame"
      [] s.q = <<>> /\ ~s.closed                            -> "blocked"
      [] s.q = <<>> /\ s.closed /\ s.tail = "part"          -> "error"
      [] OTHER                                              -> "eof"
FrameRead(s) == DecodeFrame(Head(s.q))
AfterRead(s) == [s EXCEPT !.q = Tail(@)]

-----------------------------------------------------------------------------
(***************************************************************************)
(* A response in chunks, and what the receivers collect from one.          *)
(***************************************************************************)

\* WriteResponseWithChunking with a chunk limit of at least one byte.
ChunkAt(payload, max, i) ==
    SubSeq(payload, i * max + 1, Smaller((i + 1) * max, Len(payload)))
ChunkCount_Floor(payload, max) == Len(payload) \div max
ChunkCount(payload, max) == (Len(payload) + max - 1) \div max

ResponseFrames(id, stream, media, payload, max) ==
    <<NewStreamStart(id, stream, media)>>
    \o [i \in 1..ChunkCount(payload, max) |->
          NewChunk(id, stream, i - 1, ChunkAt(payload, max, i - 1), i - 1)]
    \o <<NewStreamEnd(id, stream, ChunkCount(payload, max)), NewEnd(id)>>

\* The collectors look at one frame after the other, until an END or an ERR.
Collecting == [current |-> "", media |-> Media, data |-> <<>>, results |-> <<>>,
               over |-> FALSE, failed |-> FALSE]

Finish(c, frame) ==
    CASE frame.type = "END" -> [c EXCEPT !.over = TRUE]
      [] frame.type = "ERR" -> [c EXCEPT !.over = TRUE, !.failed = TRUE]
      [] OTHER              -> c

\* CollectAllArgs knows one stream at a time: the start of another ends its interest in
\* the one before.
CollectOne(c, frame) ==
    CASE c.over -> c
      [] ~c.over /\ frame.type = "STREAM_START" ->
            [c EXCEPT !.current = frame.streamId, !.media = frame.mediaUrn, !.data = <<>>]
      [] ~c.over /\ frame.type = "CHUNK" /\ frame.streamId = c.current ->
            [c EXCEPT !.data = @ \o frame.payload]
      [] ~c.over /\ frame.type = "STREAM_END" /\ frame.streamId = c.current ->
            [c EXCEPT !.results = Append(@, [media |-> c.media, data |-> c.data]),
                      !.current = ""]
      [] OTHER -> Finish(c, frame)

\* A channel that closes without an END is no failure: what there is counts as all.
CollectAllArgs(frames) ==
    LET c == FoldLeft(CollectOne, Collecting, frames)
    IN  [failed |-> c.failed, results |-> c.results]

CollectArgsByMediaUrn(frames, pattern) ==
    LET c == CollectAllArgs(frames)
    IN  [c EXCEPT !.results = SelectSeq(@, LAMBDA r : IsComparableMedia(pattern, r.media))]

\* CollectFirstArg keeps to the first stream, and an END before its end is the end of it.
CollectFirst(c, frame) ==
    CASE c.over -> c
      [] ~c.over /\ frame.type = "STREAM_START" /\ c.current = "" ->
            [c EXCEPT !.current = frame.streamId]
      [] ~c.over /\ frame.type = "CHUNK" /\ frame.streamId = c.current /\ c.results = <<>> ->
            [c EXCEPT !.data = @ \o frame.payload]
      [] ~c.over /\ frame.type = "STREAM_END" /\ frame.streamId = c.current ->
            [c EXCEPT !.results = <<c.data>>]
      [] ~c.over /\ frame.type = "END" -> [c EXCEPT !.over = TRUE, !.results = <<c.data>>]
      [] OTHER -> Finish(c, frame)

CollectFirstArg(frames) ==
    LET c == FoldLeft(CollectFirst, Collecting, frames)
    IN  [failed |-> c.failed \/ c.results = <<>>, data |-> c.data]

\* CollectPeerResponse follows all streams that have started.
CollectStream(c, frame) ==
    CASE c.over -> c
      [] ~c.over /\ frame.type = "STREAM_START" ->
            [c EXCEPT !.active = (frame.streamId :> <<>>) @@ @]
      [] ~c.over /\ frame.type = "CHUNK" /\ frame.streamId \in DOMAIN c.active ->
            [c EXCEPT !.active[frame.streamId] = @ \o frame.payload]
      [] ~c.over /\ frame.type = "STREAM_END" /\ frame.streamId \in DOMAIN c.active ->
            [c EXCEPT !.streams = (frame.streamId :> c.active[frame.streamId]) @@ @,
                      !.active = [s \in DOMAIN @ \ {frame.streamId} |-> @[s]]]
      [] OTHER -> Finish(c, frame)

CollectPeerResponse(frames) ==
    LET c == FoldLeft(CollectStream, [active |-> <<>>, streams |-> <<>>, over |-> FALSE,
                                      failed |-> FALSE], frames)
    IN  [failed |-> c.failed, streams |-> c.streams]
=============================================================================
