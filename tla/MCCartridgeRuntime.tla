-------------------------- MODULE MCCartridgeRuntime --------------------------
(***************************************************************************)
(* Request bodies and peer responses; streams are "a" and "b".  Scenarios  *)
(* for two requests: streams of every kind with a handler that reads all   *)
(* and one that may not, bodies of odd forms, and handlers with peers.     *)
(***************************************************************************)
EXTENDS CartridgeRuntime

CONSTANTS r1, r2

F(type, stream, data) == [type |-> type, stream |-> stream, data |-> data, ok |-> TRUE]
REQ == F("REQ", "none", 0)
END == F("END", "none", 0)
ERR == F("ERR", "none", 0)
LOG == F("LOG", "none", 0)
Start(s) == F("STREAM_START", s, 0)
Stop(s) == F("STREAM_END", s, 0)
Chunk(s, d) == F("CHUNK", s, d)
BadChunk(s) == [Chunk(s, 0) EXCEPT !.ok = FALSE]

Empty       == <<REQ, END>>
OneStream   == <<REQ, Start("a"), Chunk("a", 1), Stop("a"), END>>
Interleaved == <<REQ, Start("a"), Start("b"), Chunk("b", 1), Chunk("a", 2), Stop("a"), Chunk("b", 3), Stop("b"), END>>
Unknown     == <<REQ, Start("a"), Chunk("b", 1), Stop("a"), END>>
Ended       == <<REQ, Start("a"), Stop("a"), Chunk("a", 1), END>>
NoStream    == <<REQ, Stop("a"), END>>
LateChunk   == <<REQ, Start("a"), Stop("a"), END, Chunk("a", 1)>>
Broken      == <<REQ, Start("a"), ERR>>
CorruptBody == <<REQ, Start("a"), BadChunk("a"), Stop("a"), END>>
Duplicate   == <<REQ, Start("a"), Start("a"), END>>

Answer  == <<Start("x"), LOG, Chunk("x", 1), Stop("x"), END>>
Refusal == <<ERR, END>>
Bare    == <<END>>
MCPeerBodies == {Answer, Refusal, Bare}

Pair(x, y) == [r \in Requests |-> IF r = r1 THEN x ELSE y]
All(k1, k2, bodies) ==
  {[handler |-> Pair(k1, k2), body |-> Pair(b1, b2)] : b1 \in bodies, b2 \in bodies}

MCScenarios ==
  All("echo", "early", {Interleaved, Unknown, NoStream, LateChunk})
    \cup All("echo", "none", {Empty, Ended, Broken, CorruptBody, Duplicate})
    \cup All("peer", "quit", {OneStream}) \cup All("drain", "none", {OneStream})

PeerScenarios  == {[handler |-> Pair("peer", "fail"), body |-> Pair(OneStream, Empty)]}
=============================================================================
