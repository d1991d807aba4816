------------------------ MODULE CartridgeRuntime_proofs ------------------------
(***************************************************************************)
(* What the cartridge runtime writes to stdout, why it can panic, and what *)
(* its handlers read, for any number of requests and handlers, any bodies  *)
(* of any number of streams, and any capacity of the channels.             *)
(*                                                                         *)
(* There are two inductive invariants.  IInv relates the places of the     *)
(* handlers to what is still to come and to what they have written.        *)
(* PassInv, proved on top of it, follows the frames of an id from the host *)
(* over stdin, the collected streams and the feeder to the handler.        *)
(***************************************************************************)
EXTENDS CartridgeRuntime, NaturalFacts, TLAPS

-----------------------------------------------------------------------------
(***************************************************************************)
(* The inductive invariant                                                 *)
(***************************************************************************)

StdinFrames ==
  [rid : Ids,
   type : {"REQ", "STREAM_START", "CHUNK", "STREAM_END", "END", "ERR", "LOG"},
   stream : STRING, data : Int, ok : BOOLEAN]
    \cup {[type |-> "HEARTBEAT"]}

Streams   == [id : STRING, chunks : Seq(Int), complete : BOOLEAN]
Items     == [type : {"STREAM_START", "CHUNK", "STREAM_END", "END"}, stream : STRING \cup {"none"},
              data : Int]
OutTypes  == {"REQ", "BODY", "END", "ERR", "STREAM_START", "CHUNK", "STREAM_END"}
OutFrames == [type : OutTypes, xid : BOOLEAN, n : Nat]
Silent    == {"none", "read", "invoke", "REQ", "BODY", "END", "await", "fail"}
Places    == Silent \cup {"emit", "finalize", "finish", "close", "done"}

TypeOK ==
  /\ stdin \in Seq(StdinFrames)
  /\ body \in [Ids -> Seq(HostFrames)] /\ todo \in [Ids -> Seq(HostFrames)]
  /\ handler \in [Requests -> Kinds]
  /\ DOMAIN pendingIncoming \subseteq Requests
  /\ \A r \in DOMAIN pendingIncoming : pendingIncoming[r] \in Seq(Streams)
  /\ feeder \in [Requests -> Seq(Seq(Items))] /\ framesChan \in [Requests -> Seq(Items)]
  /\ pendingPeerRequests \subseteq Requests /\ senderClosed \subseteq Requests
  /\ pc \in [Requests -> Places]
  /\ chunkIndex \in [Requests -> Nat] /\ streamStarted \subseteq Requests
  /\ written \in [Ids -> Seq(OutFrames)]

\* A frame of id on stdin; heartbeats belong to nothing.
Of(id, f) == f.type # "HEARTBEAT" /\ f.rid = id
ReqOf(r, f) == f.type = "REQ" /\ f.rid = r

\* The REQ of a request is still to come.
Ahead(r) ==
  \/ \E i \in DOMAIN stdin : ReqOf(r, stdin[i])
  \/ \E i \in DOMAIN todo[r] : todo[r][i].type = "REQ"

\* A STREAM_START of a stream of r is still to come.
Starts(f, stream) == f.type = "STREAM_START" /\ f.stream = stream
Coming(r, stream) ==
  \/ \E i \in DOMAIN stdin : Of(r, stdin[i]) /\ Starts(stdin[i], stream)
  \/ \E i \in DOMAIN todo[r] : Starts(todo[r][i], stream)

\* Of a request there is one REQ.
OneReq(r) ==
  /\ \A i, j \in DOMAIN stdin : ReqOf(r, stdin[i]) /\ ReqOf(r, stdin[j]) => i = j
  /\ \A i \in DOMAIN todo[r] : todo[r][i].type = "REQ" =>
       i = 1 /\ \A j \in DOMAIN stdin : ~ReqOf(r, stdin[j])

\* No REQ is sent for the id of a peer request.
PeerInv ==
  /\ \A i \in DOMAIN stdin : stdin[i].type = "REQ" => stdin[i].rid \in Requests
  /\ \A id \in Peers : \A i \in DOMAIN todo[id] : todo[id][i].type # "REQ"

\* A request with a sound body is sent sound frames.
SoundInv(r) ==
  ~Corrupt(r) =>
    /\ \A i \in DOMAIN stdin : Of(r, stdin[i]) => stdin[i].ok
    /\ \A i \in DOMAIN todo[r] : todo[r][i].ok

\* If the host does not repeat a stream id, then neither do the frames still to come.
DistinctInv(r) ==
  ~Repeats(body[r]) =>
    /\ \A i, j \in DOMAIN stdin :
         Of(r, stdin[i]) /\ Of(r, stdin[j]) /\ stdin[i].type = "STREAM_START"
           /\ Starts(stdin[j], stdin[i].stream) => i = j
    /\ \A i, j \in DOMAIN todo[r] :
         todo[r][i].type = "STREAM_START" /\ Starts(todo[r][j], todo[r][i].stream) => i = j
    /\ \A i \in DOMAIN stdin : \A j \in DOMAIN todo[r] :
         ~(Of(r, stdin[i]) /\ stdin[i].type = "STREAM_START" /\ Starts(todo[r][j], stdin[i].stream))

InputInv == PeerInv /\ \A r \in Requests : OneReq(r) /\ SoundInv(r) /\ DistinctInv(r)

\* Until its REQ is read a request is not collected, and while it is collected it has
\* no handler.
CollectInv(r) ==
  /\ Ahead(r) => r \notin DOMAIN pendingIncoming /\ pc[r] = "none"
  /\ pc[r] # "none" => r \notin DOMAIN pendingIncoming

\* Nor does a frame still to come repeat the id of a stream that is collected.
FreshInv(r) ==
  ~Repeats(body[r]) /\ r \in DOMAIN pendingIncoming =>
    \A k \in 1..Len(pendingIncoming[r]) : ~Coming(r, pendingIncoming[r][k].id)

\* The response up to and with its n chunks.
Begun(w, n) ==
  /\ Len(w) >= n + 1 /\ w[1].type = "STREAM_START"
  /\ \A i \in 2..n + 1 : w[i].type = "CHUNK" /\ w[i].n = i - 2

Completed(w, n) == Begun(w, n) /\ Len(w) >= n + 2 /\ w[n + 2].type = "STREAM_END" /\ w[n + 2].n = n

Refused(w) == Len(w) = 1 /\ w[1].type = "ERR"

\* Where a handler is says what it has written.
WrittenInv(r) ==
  LET w == written[r]
      n == chunkIndex[r]
  IN /\ pc[r] \in Silent => r \notin streamStarted
     /\ r \notin streamStarted => n = 0
     /\ pc[r] = "finish" => r \in streamStarted
     /\ ~Corrupt(r) =>
          /\ Ahead(r) \/ r \in DOMAIN pendingIncoming => w = <<>>
          /\ pc[r] = "none" => w = <<>> \/ Refused(w)
          /\ pc[r] \in Silent \ {"none"} => w = <<>>
          /\ pc[r] \in {"emit", "finalize"} =>
               IF r \in streamStarted THEN Begun(w, n) /\ Len(w) = n + 1 ELSE w = <<>>
          /\ pc[r] = "finish" => Completed(w, n) /\ Len(w) = n + 2
          /\ pc[r] \in {"close", "done"} =>
               \/ Refused(w)
               \/ Completed(w, n) /\ Len(w) = n + 3 /\ w[n + 3].type = "END"

\* The feeder pushes END at last, and a handler that does not return early goes on
\* only when it has read it: nothing is left for the closed channel.
FeederInv(r) ==
  LET parts == feeder[r]
  IN /\ \A k \in 1..Len(parts) : parts[k] # <<>>
     /\ \A k \in 1..Len(parts) : \A i \in 1..Len(parts[k]) :
          parts[k][i].type = "END" => k = Len(parts) /\ Len(parts[k]) = 1
     /\ parts # <<>> => \A i \in 1..Len(framesChan[r]) : framesChan[r][i].type # "END"
     /\ pc[r] = "none" => parts = <<>> /\ framesChan[r] = <<>>
     /\ pc[r] \notin {"none", "read"} /\ handler[r] # "early" => parts = <<>>
     /\ r \in inputClosed => pc[r] = "done"

\* A peer request is registered once and its channel closed once.
ChannelInv(r) ==
  /\ r \in pendingPeerRequests => r \notin senderClosed
  /\ r \in pendingPeerRequests \cup senderClosed => pc[r] \notin {"none", "read", "invoke"}

LocalInv(r) == CollectInv(r) /\ FreshInv(r) /\ WrittenInv(r) /\ FeederInv(r) /\ ChannelInv(r)

IInv == TypeOK /\ InputInv /\ PanicHasACause /\ \A r \in Requests : LocalInv(r)

-----------------------------------------------------------------------------
(***************************************************************************)
(* What is still to come: stdin and what the host has not written yet      *)
(***************************************************************************)

\* The read loop takes a frame from stdin.
LEMMA LoopTakes ==
  ASSUME TypeOK, InputInv, stdin # <<>>, stdin' = Tail(stdin), UNCHANGED <<body, todo>>
  PROVE  /\ InputInv' /\ Head(stdin) \in StdinFrames
         /\ \A r \in Requests :
              /\ Ahead(r)' => Ahead(r)
              /\ ReqOf(r, Head(stdin)) => Ahead(r) /\ ~Ahead(r)'
              /\ \A s : Coming(r, s)' => Coming(r, s)
              /\ \A s : ~Repeats(body[r]) /\ Of(r, Head(stdin)) /\ Starts(Head(stdin), s) =>
                   Coming(r, s) /\ ~Coming(r, s)'
<1>1. /\ Len(stdin) \in Nat /\ 1 \in DOMAIN stdin /\ Head(stdin) = stdin[1]
      /\ Head(stdin) \in StdinFrames
      /\ DOMAIN stdin = 1..Len(stdin) /\ DOMAIN stdin' = 1..Len(stdin) - 1
      /\ \A i \in DOMAIN stdin' : stdin'[i] = stdin[i + 1] /\ i + 1 \in DOMAIN stdin
  BY DEF TypeOK
<1>2. PeerInv'
  BY <1>1 DEF InputInv, PeerInv
<1> SUFFICES ASSUME NEW r \in Requests
             PROVE  /\ OneReq(r)' /\ SoundInv(r)' /\ DistinctInv(r)'
                    /\ Ahead(r)' => Ahead(r)
                    /\ ReqOf(r, Head(stdin)) => Ahead(r) /\ ~Ahead(r)'
                    /\ \A s : Coming(r, s)' => Coming(r, s)
                    /\ \A s : ~Repeats(body[r]) /\ Of(r, Head(stdin)) /\ Starts(Head(stdin), s) =>
                         Coming(r, s) /\ ~Coming(r, s)'
  BY <1>1, <1>2 DEF InputInv
<1>3. OneReq(r) /\ SoundInv(r) /\ DistinctInv(r)
  BY DEF InputInv
<1>4. OneReq(r)'
  BY <1>1, <1>3 DEF OneReq
<1>5. SoundInv(r)'
  BY <1>1, <1>3 DEF SoundInv, Corrupt
<1>6. DistinctInv(r)'
  BY <1>1, <1>3 DEF DistinctInv, Repeats
<1>7. Ahead(r)' => Ahead(r)
  BY <1>1 DEF Ahead
<1>8. ASSUME ReqOf(r, Head(stdin)) PROVE Ahead(r) /\ ~Ahead(r)'
  <2>1. \A i \in DOMAIN stdin' : ~ReqOf(r, stdin'[i])
    BY <1>1, <1>3, <1>8 DEF OneReq
  <2>2. \A i \in DOMAIN todo[r] : todo[r][i].type # "REQ"
    BY <1>1, <1>3, <1>8 DEF OneReq
  <2> QED BY <1>1, <1>8, <2>1, <2>2 DEF Ahead
<1>9. ASSUME NEW s PROVE Coming(r, s)' => Coming(r, s)
  BY <1>1 DEF Coming
<1>10. ASSUME NEW s, ~Repeats(body[r]), Of(r, stdin[1]), Starts(stdin[1], s)
       PROVE  Coming(r, s) /\ ~Coming(r, s)'
  <2>1. Coming(r, s)
    BY <1>1, <1>10 DEF Coming
  <2>2. \A i \in DOMAIN stdin' : ~(Of(r, stdin'[i]) /\ Starts(stdin'[i], s))
    <3> SUFFICES ASSUME NEW i \in DOMAIN stdin', Of(r, stdin[i + 1]), Starts(stdin[i + 1], s)
                 PROVE  FALSE
      BY <1>1
    <3>1. 1 = i + 1
      BY <1>1, <1>3, <1>10 DEF DistinctInv, Starts
    <3> QED BY <1>1, <3>1
  <2>3. \A j \in DOMAIN todo'[r] : ~Starts(todo'[r][j], s)
    BY <1>1, <1>3, <1>10 DEF DistinctInv, Starts
  <2> QED BY <2>1, <2>2, <2>3 DEF Coming
<1> QED BY <1>1, <1>4, <1>5, <1>6, <1>7, <1>8, <1>9, <1>10

LEMMA IdsFacts ==
  /\ Requests \subseteq Ids /\ \A r \in Requests : Peer(r) \in Ids /\ Peer(r) \notin Requests
  /\ \A id \in Ids : id \in Requests \/ id \in Peers
BY RuntimeAssumption DEF Ids, Peers

\* The host writes the next frame of a body or of a response.
LEMMA HostWrites ==
  ASSUME TypeOK, InputInv, NEW id \in Ids, HostSends(id)
  PROVE  /\ InputInv' /\ stdin' \in Seq(StdinFrames) /\ todo' \in [Ids -> Seq(HostFrames)]
         /\ \A r \in Requests :
              /\ Ahead(r)' => Ahead(r)
              /\ \A s : Coming(r, s)' => Coming(r, s)
<1> DEFINE g == Head(todo[id])
           n == Len(stdin)
<1>1. /\ todo[id] \in Seq(HostFrames) /\ todo[id] # <<>> /\ g \in HostFrames
      /\ g = todo[id][1] /\ 1 \in DOMAIN todo[id] /\ n \in Nat /\ stdin \in Seq(StdinFrames)
  BY DEF TypeOK, HostSends
<1>2. WithId(id, g) \in StdinFrames
  <2> HIDE DEF g
  <2> QED BY <1>1 DEF WithId, HostFrames, StdinFrames
<1>3. /\ WithId(id, g).rid = id /\ WithId(id, g).type = g.type /\ WithId(id, g).ok = g.ok
      /\ WithId(id, g).stream = g.stream /\ g.type # "HEARTBEAT"
  <2> HIDE DEF g
  <2> QED BY <1>1 DEF WithId, HostFrames
<1>4. /\ stdin' = Append(stdin, WithId(id, g)) /\ todo' = [todo EXCEPT ![id] = Tail(@)]
      /\ body' = body
  BY DEF HostSends
<1> DEFINE x == WithId(id, g)
<1> HIDE DEF g, x
<1>5. /\ stdin' \in Seq(StdinFrames) /\ DOMAIN stdin = 1..n /\ DOMAIN stdin' = 1..n + 1 /\ stdin'[n + 1] = x
      /\ \A i \in 1..n : stdin'[i] = stdin[i]
  BY <1>1, <1>2, <1>4 DEF x
<1>6. /\ todo' \in [Ids -> Seq(HostFrames)]
      /\ \A q \in Ids \ {id} : todo'[q] = todo[q]
      /\ DOMAIN todo[id] = 1..Len(todo[id]) /\ DOMAIN todo'[id] = 1..Len(todo[id]) - 1
      /\ \A i \in DOMAIN todo'[id] : todo'[id][i] = todo[id][i + 1] /\ i + 1 \in DOMAIN todo[id]
  <2>1. Tail(todo[id]) \in Seq(HostFrames)
    BY <1>1
  <2>2. todo' \in [Ids -> Seq(HostFrames)] /\ todo'[id] = Tail(todo[id])
    BY <1>4, <2>1 DEF TypeOK
  <2>3. \A q \in Ids \ {id} : todo'[q] = todo[q]
    BY <1>4 DEF TypeOK
  <2> QED BY <1>1, <2>2, <2>3
<1>7. x.rid = id /\ x.type = g.type /\ x.ok = g.ok /\ x.stream = g.stream /\ x.type # "HEARTBEAT" /\ Len(todo[id]) \in Nat
  BY <1>1, <1>3 DEF x
<1>8. PeerInv'
  <2>1. \A i \in DOMAIN stdin' : stdin'[i].type = "REQ" => stdin'[i].rid \in Requests
    <3>1. x.type = "REQ" => id \in Requests
      BY <1>1, <1>7, IdsFacts DEF InputInv, PeerInv
    <3>2. \A i \in 1..n : stdin[i].type = "REQ" => stdin[i].rid \in Requests
      BY <1>5 DEF InputInv, PeerInv
    <3> QED BY <1>1, <1>5, <1>7, <3>1, <3>2
  <2>2. \A p \in Peers : \A i \in DOMAIN todo'[p] : todo'[p][i].type # "REQ"
    <3>1. Peers \subseteq Ids
      BY DEF Ids
    <3> QED BY <1>6, <3>1 DEF InputInv, PeerInv
  <2> QED BY <2>1, <2>2 DEF PeerInv
<1> SUFFICES ASSUME NEW r \in Requests
             PROVE  /\ OneReq(r)' /\ SoundInv(r)' /\ DistinctInv(r)'
                    /\ Ahead(r)' => Ahead(r)
                    /\ \A s : Coming(r, s)' => Coming(r, s)
  BY <1>5, <1>6, <1>8 DEF InputInv
<1>9. OneReq(r) /\ SoundInv(r) /\ DistinctInv(r) /\ r \in Ids
  BY IdsFacts DEF InputInv
<1>10. CASE r # id
  <2>1. todo'[r] = todo[r]
    BY <1>6, <1>9, <1>10
  <2>2. ~Of(r, x) /\ ~ReqOf(r, x)
    BY <1>7, <1>10 DEF Of, ReqOf
  <2>3. \A i \in DOMAIN stdin' : Of(r, stdin'[i]) \/ ReqOf(r, stdin'[i]) => i \in DOMAIN stdin /\ stdin'[i] = stdin[i]
    BY <1>1, <1>5, <2>2
  <2>4. OneReq(r)'
    BY <1>9, <2>1, <2>3 DEF OneReq
  <2>5. SoundInv(r)'
    BY <1>4, <1>9, <2>1, <2>3 DEF SoundInv, Corrupt
  <2>6. DistinctInv(r)'
    <3>1. ~Repeats(body[r])' => ~Repeats(body[r])
      BY <1>4
    <3>2. \A i \in DOMAIN stdin' : Of(r, stdin'[i]) => i \in DOMAIN stdin /\ stdin'[i] = stdin[i]
      BY <2>3
    <3>3. /\ \A i, j \in DOMAIN stdin' :
               ~Repeats(body[r]) /\ Of(r, stdin'[i]) /\ Of(r, stdin'[j]) /\ stdin'[i].type = "STREAM_START"
                 /\ Starts(stdin'[j], stdin'[i].stream) => i = j
          /\ \A i \in DOMAIN stdin' : \A j \in DOMAIN todo[r] :
               ~Repeats(body[r]) =>
                 ~(Of(r, stdin'[i]) /\ stdin'[i].type = "STREAM_START" /\ Starts(todo[r][j], stdin'[i].stream))
      BY <1>9, <3>2 DEF DistinctInv
    <3> QED BY <1>9, <2>1, <3>1, <3>3 DEF DistinctInv
  <2>7. Ahead(r)' => Ahead(r)
    BY <2>1, <2>3 DEF Ahead
  <2>8. \A s : Coming(r, s)' => Coming(r, s)
    BY <2>1, <2>3 DEF Coming
  <2> QED BY <2>4, <2>5, <2>6, <2>7, <2>8
<1>11. CASE r = id
  <2>1. OneReq(r)'
    <3>1. \A i, j \in DOMAIN stdin' : ReqOf(r, stdin'[i]) /\ ReqOf(r, stdin'[j]) => i = j
      <4>1. ReqOf(r, x) => \A j \in 1..n : ~ReqOf(r, stdin[j])
        BY <1>1, <1>5, <1>7, <1>9, <1>11 DEF OneReq, ReqOf
      <4>2. \A i, j \in 1..n : ReqOf(r, stdin[i]) /\ ReqOf(r, stdin[j]) => i = j
        BY <1>5, <1>9 DEF OneReq
      <4> QED BY <1>1, <1>5, <4>1, <4>2
    <3>2. \A i \in DOMAIN todo'[r] : todo'[r][i].type # "REQ"
      <4> SUFFICES ASSUME NEW i \in DOMAIN todo'[id], todo'[id][i].type = "REQ" PROVE FALSE
        BY <1>11
      <4>1. i + 1 = 1
        BY <1>6, <1>9, <1>11 DEF OneReq
      <4> QED BY <1>6, <1>7, <4>1
    <3> QED BY <3>1, <3>2 DEF OneReq
  <2>2. SoundInv(r)'
    BY <1>1, <1>4, <1>5, <1>6, <1>7, <1>9, <1>11 DEF SoundInv, Corrupt
  <2>3. ASSUME ~Repeats(body[r])
        PROVE  /\ \A i, j \in DOMAIN stdin' :
                    Of(r, stdin'[i]) /\ Of(r, stdin'[j]) /\ stdin'[i].type = "STREAM_START"
                      /\ Starts(stdin'[j], stdin'[i].stream) => i = j
               /\ \A i, j \in DOMAIN todo'[r] :
                    todo'[r][i].type = "STREAM_START" /\ Starts(todo'[r][j], todo'[r][i].stream) => i = j
               /\ \A i \in DOMAIN stdin' : \A j \in DOMAIN todo'[r] :
                    ~(Of(r, stdin'[i]) /\ stdin'[i].type = "STREAM_START" /\ Starts(todo'[r][j], stdin'[i].stream))
    <3>1. \A i, j \in 1..n : Of(r, stdin[i]) /\ Of(r, stdin[j]) /\ stdin[i].type = "STREAM_START"
                               /\ Starts(stdin[j], stdin[i].stream) => i = j
      BY <1>5, <1>9, <2>3 DEF DistinctInv
    <3>2. \A i \in 1..n : ~(Of(r, stdin[i]) /\ stdin[i].type = "STREAM_START" /\ Starts(x, stdin[i].stream))
      BY <1>1, <1>5, <1>7, <1>9, <1>11, <2>3 DEF DistinctInv, Starts
    <3>3. \A i \in 1..n : ~(Of(r, stdin[i]) /\ x.type = "STREAM_START" /\ Starts(stdin[i], x.stream))
      BY <3>2 DEF Starts
    <3>4. \A j \in DOMAIN todo'[id] : x.type = "STREAM_START" => ~Starts(todo'[id][j], x.stream)
      <4> SUFFICES ASSUME NEW j \in DOMAIN todo'[id], x.type = "STREAM_START", Starts(todo'[id][j], x.stream)
                   PROVE  FALSE
        OBVIOUS
      <4>1. Starts(todo[id][j + 1], todo[id][1].stream) /\ todo[id][1].type = "STREAM_START"
        BY <1>1, <1>6, <1>7
      <4>2. 1 = j + 1
        BY <1>1, <1>6, <1>9, <1>11, <2>3, <4>1 DEF DistinctInv
      <4> QED BY <1>6, <1>7, <4>2
    <3>5. \A i, j \in DOMAIN stdin' :
            Of(r, stdin'[i]) /\ Of(r, stdin'[j]) /\ stdin'[i].type = "STREAM_START"
              /\ Starts(stdin'[j], stdin'[i].stream) => i = j
      BY <1>1, <1>5, <3>1, <3>2, <3>3
    <3>6. \A i, j \in DOMAIN todo'[id] :
            todo'[id][i].type = "STREAM_START" /\ Starts(todo'[id][j], todo'[id][i].stream) => i = j
      <4> SUFFICES ASSUME NEW i \in DOMAIN todo'[id], NEW j \in DOMAIN todo'[id],
                          todo[id][i + 1].type = "STREAM_START",
                          Starts(todo[id][j + 1], todo[id][i + 1].stream)
                   PROVE  i = j
        BY <1>6
      <4>1. i + 1 = j + 1
        BY <1>6, <1>9, <1>11, <2>3 DEF DistinctInv
      <4>2. i \in Int /\ j \in Int
        BY <1>6, <1>7
      <4> QED BY <4>1, <4>2
    <3>7. \A i \in 1..n : \A j \in DOMAIN todo'[id] :
            ~(Of(r, stdin[i]) /\ stdin[i].type = "STREAM_START" /\ Starts(todo'[id][j], stdin[i].stream))
      BY <1>5, <1>6, <1>9, <1>11, <2>3 DEF DistinctInv
    <3>8. \A i \in DOMAIN stdin' : \A j \in DOMAIN todo'[id] :
            ~(Of(r, stdin'[i]) /\ stdin'[i].type = "STREAM_START" /\ Starts(todo'[id][j], stdin'[i].stream))
      BY <1>1, <1>5, <3>4, <3>7
    <3> QED BY <1>11, <3>5, <3>6, <3>8
  <2>4. DistinctInv(r)'
    BY <1>4, <2>3 DEF DistinctInv, Repeats
  <2>5. Ahead(r)' => Ahead(r)
    <3>1. \A i \in DOMAIN stdin' : ReqOf(r, stdin'[i]) =>
            (i \in DOMAIN stdin /\ stdin'[i] = stdin[i]) \/ todo[r][1].type = "REQ"
      BY <1>1, <1>5, <1>7, <1>11 DEF ReqOf
    <3>2. \A i \in DOMAIN todo'[r] : todo'[r][i] = todo[r][i + 1] /\ i + 1 \in DOMAIN todo[r]
      BY <1>6, <1>11
    <3> QED BY <1>1, <1>11, <3>1, <3>2 DEF Ahead
  <2>6. ASSUME NEW s PROVE Coming(r, s)' => Coming(r, s)
    <3>1. \A i \in DOMAIN stdin' : Of(r, stdin'[i]) /\ Starts(stdin'[i], s) =>
            (i \in DOMAIN stdin /\ stdin'[i] = stdin[i]) \/ Starts(todo[r][1], s)
      BY <1>1, <1>5, <1>7, <1>11 DEF Starts
    <3>2. \A i \in DOMAIN todo'[r] : todo'[r][i] = todo[r][i + 1] /\ i + 1 \in DOMAIN todo[r]
      BY <1>6, <1>11
    <3> QED BY <1>1, <1>11, <3>1, <3>2 DEF Coming
  <2> QED BY <2>1, <2>2, <2>4, <2>5, <2>6
<1> QED BY <1>10, <1>11

\* The host begins the answer to a peer request; this is no body of a request.
LEMMA HostBegins ==
  ASSUME TypeOK, InputInv, NEW r \in Requests, NEW response \in PeerBodies, HostAnswers(r, response)
  PROVE  /\ InputInv'
         /\ body' \in [Ids -> Seq(HostFrames)] /\ todo' \in [Ids -> Seq(HostFrames)]
         /\ \A q \in Requests :
              body'[q] = body[q] /\ (Ahead(q)' => Ahead(q)) /\ \A s : Coming(q, s)' => Coming(q, s)
<1>1. /\ stdin' = stdin
      /\ body' = [body EXCEPT ![Peer(r)] = response] /\ todo' = [todo EXCEPT ![Peer(r)] = response]
      /\ response \in Seq(HostFrames) /\ \A i \in DOMAIN response : response[i].type # "REQ"
  BY RuntimeAssumption DEF HostAnswers
<1>2. /\ body' \in [Ids -> Seq(HostFrames)] /\ todo' \in [Ids -> Seq(HostFrames)]
      /\ \A id \in Ids : todo'[id] = IF id = Peer(r) THEN response ELSE todo[id]
      /\ \A id \in Ids : id # Peer(r) => body'[id] = body[id]
  BY <1>1, IdsFacts DEF TypeOK
<1>3. \A q \in Requests : todo'[q] = todo[q] /\ body'[q] = body[q]
  BY <1>2, IdsFacts
<1>4. PeerInv'
  <2>1. \A id \in Peers : id \in Ids
    BY DEF Ids
  <2> QED BY <1>1, <1>2, <2>1 DEF InputInv, PeerInv
<1>5. \A q \in Requests : OneReq(q)'
  BY <1>1, <1>3 DEF InputInv, OneReq
<1>6. \A q \in Requests : SoundInv(q)'
  BY <1>1, <1>3 DEF InputInv, SoundInv, Corrupt
<1>7. ASSUME NEW q \in Requests PROVE DistinctInv(q)'
  <2>1. Repeats(body[q])' <=> Repeats(body[q])
    BY <1>3 DEF Repeats
  <2> QED BY <1>1, <1>3, <2>1 DEF InputInv, DistinctInv
<1>8. \A q \in Requests : Ahead(q)' => Ahead(q)
  BY <1>1, <1>3 DEF Ahead
<1>9. \A q \in Requests : \A s : Coming(q, s)' => Coming(q, s)
  BY <1>1, <1>3 DEF Coming
<1> QED BY <1>2, <1>3, <1>4, <1>5, <1>6, <1>7, <1>8, <1>9 DEF InputInv

LEMMA HostBeating ==
  ASSUME TypeOK, InputInv, HostBeats
  PROVE  /\ InputInv' /\ stdin' \in Seq(StdinFrames)
         /\ \A q \in Requests : (Ahead(q)' => Ahead(q)) /\ \A s : Coming(q, s)' => Coming(q, s)
<1> DEFINE beat == [type |-> "HEARTBEAT"]
           n == Len(stdin)
<1>1. beat \in StdinFrames /\ beat.type = "HEARTBEAT"
  BY DEF StdinFrames
<1>2. stdin' = Append(stdin, beat) /\ todo' = todo /\ body' = body
  BY DEF HostBeats
<1> HIDE DEF beat
<1>3. /\ stdin' \in Seq(StdinFrames) /\ n \in Nat /\ DOMAIN stdin = 1..n /\ DOMAIN stdin' = 1..n + 1
      /\ stdin'[n + 1] = beat /\ \A i \in 1..n : stdin'[i] = stdin[i]
  BY <1>1, <1>2 DEF TypeOK
<1>4. \A i \in DOMAIN stdin' : stdin'[i].type # "HEARTBEAT" => i \in DOMAIN stdin /\ stdin'[i] = stdin[i]
  BY <1>1, <1>3
<1>5. PeerInv'
  BY <1>2, <1>4 DEF InputInv, PeerInv
<1>6. \A q \in Requests : OneReq(q)'
  BY <1>2, <1>4 DEF InputInv, OneReq, ReqOf
<1>7. \A q \in Requests : SoundInv(q)'
  BY <1>2, <1>4 DEF InputInv, SoundInv, Corrupt, Of
<1>8. ASSUME NEW q \in Requests PROVE DistinctInv(q)'
  <2>1. Repeats(body[q])' <=> Repeats(body[q])
    BY <1>2 DEF Repeats
  <2> QED BY <1>2, <1>4, <2>1 DEF InputInv, DistinctInv, Of
<1>9. \A q \in Requests : Ahead(q)' => Ahead(q)
  BY <1>2, <1>4 DEF Ahead, ReqOf
<1>10. \A q \in Requests : \A s : Coming(q, s)' => Coming(q, s)
  BY <1>2, <1>4 DEF Coming, Of
<1> QED BY <1>3, <1>5, <1>6, <1>7, <1>8, <1>9, <1>10 DEF InputInv

-----------------------------------------------------------------------------
(***************************************************************************)
(* What a step leaves alone                                                *)
(***************************************************************************)

\* Nothing of what the loop, the feeder and the handler keep of a request changes.
Untouched(r) ==
  /\ pc'[r] = pc[r] /\ written'[r] = written[r] /\ chunkIndex'[r] = chunkIndex[r]
  /\ feeder'[r] = feeder[r] /\ framesChan'[r] = framesChan[r]
  /\ (r \in streamStarted' <=> r \in streamStarted)
  /\ (r \in inputClosed' <=> r \in inputClosed)
  /\ (r \in pendingPeerRequests' <=> r \in pendingPeerRequests)
  /\ (r \in senderClosed' <=> r \in senderClosed)

LEMMA LocalKept ==
  ASSUME NEW r \in Requests, LocalInv(r), Untouched(r), body'[r] = body[r], handler'[r] = handler[r],
         r \in DOMAIN pendingIncoming' => r \in DOMAIN pendingIncoming /\ pendingIncoming'[r] = pendingIncoming[r],
         Ahead(r)' => Ahead(r), \A s : Coming(r, s)' => Coming(r, s)
  PROVE  LocalInv(r)'
<1>1. (Corrupt(r)' <=> Corrupt(r)) /\ (Repeats(body[r])' <=> Repeats(body[r]))
  BY DEF Corrupt, Repeats
<1>2. CollectInv(r)'
  BY DEF LocalInv, CollectInv, Untouched
<1>3. FreshInv(r)'
  <2> SUFFICES ASSUME ~Repeats(body[r]), r \in DOMAIN pendingIncoming',
                      NEW k \in 1..Len(pendingIncoming'[r]), Coming(r, pendingIncoming[r][k].id)'
               PROVE  FALSE
    BY <1>1 DEF FreshInv
  <2>1. PICK s : s = pendingIncoming'[r][k].id
    OBVIOUS
  <2>2. Coming(r, s)'
    BY <2>1
  <2>3. Coming(r, s) /\ s = pendingIncoming[r][k].id
    BY <2>1, <2>2
  <2> QED BY <2>3 DEF LocalInv, FreshInv
<1>4. WrittenInv(r)'
  BY <1>1 DEF LocalInv, WrittenInv, Untouched
<1>5. FeederInv(r)'
  BY DEF LocalInv, FeederInv, Untouched
<1>6. ChannelInv(r)'
  BY DEF LocalInv, ChannelInv, Untouched
<1> QED BY <1>2, <1>3, <1>4, <1>5, <1>6 DEF LocalInv

\* A step of the handler or of the feeder of r.
LEMMA HandlerFrame ==
  ASSUME IInv, NEW r \in Requests, UNCHANGED <<input, pendingIncoming>>,
         pc[r] # "none", pc'[r] # "none",
         \A q \in Requests \ {r} : Untouched(q)
  PROVE  /\ InputInv' /\ CollectInv(r)' /\ FreshInv(r)'
         /\ \A q \in Requests \ {r} : LocalInv(q)'
<1>1. /\ UNCHANGED <<stdin, todo, body, handler, pendingIncoming>>
      /\ \A q \in Requests : (Corrupt(q)' <=> Corrupt(q)) /\ (Repeats(body[q])' <=> Repeats(body[q]))
      /\ \A q \in Requests : (Ahead(q)' <=> Ahead(q)) /\ \A s : Coming(q, s)' <=> Coming(q, s)
  BY DEF input, Corrupt, Repeats, Ahead, Coming
<1>2. InputInv'
  <2>1. PeerInv' /\ \A q \in Requests : OneReq(q)' /\ SoundInv(q)'
    BY <1>1 DEF IInv, InputInv, PeerInv, OneReq, SoundInv, Corrupt
  <2>2. \A q \in Requests : DistinctInv(q)'
    BY <1>1 DEF IInv, InputInv, DistinctInv, Repeats
  <2> QED BY <2>1, <2>2 DEF InputInv
<1>3. CollectInv(r)'
  BY <1>1 DEF IInv, LocalInv, CollectInv
<1>4. FreshInv(r)'
  BY <1>1 DEF IInv, LocalInv, FreshInv, Repeats, Coming
<1>5. ASSUME NEW q \in Requests \ {r} PROVE LocalInv(q)'
  BY <1>1, <1>5, LocalKept DEF IInv
<1> QED BY <1>2, <1>3, <1>4, <1>5

\* The process has not panicked, and does not in this step.
LEMMA NoPanic == ASSUME UNCHANGED crashed, Up PROVE PanicHasACause'
BY DEF PanicHasACause, Up

-----------------------------------------------------------------------------
(***************************************************************************)
(* The feeder and the handler                                              *)
(***************************************************************************)

LEMMA LongTail ==
  ASSUME NEW S, NEW q \in Seq(S), q # <<>>, Len(q) # 1
  PROVE  /\ Tail(q) \in Seq(S) /\ Len(Tail(q)) = Len(q) - 1 /\ Len(q) > 1 /\ Tail(q) # <<>>
         /\ \A i \in 1..Len(q) - 1 : Tail(q)[i] = q[i + 1]
<1>1. Len(q) > 1
  <2>1. Len(q) \in Nat /\ Len(q) # 0
    OBVIOUS
  <2>2. \A n \in Nat : n = 0 \/ n = 1 \/ n > 1
    OBVIOUS
  <2> QED BY <2>1, <2>2
<1>2. Tail(q) \in Seq(S) /\ Len(Tail(q)) = Len(q) - 1 /\ \A i \in 1..Len(q) - 1 : Tail(q)[i] = q[i + 1]
  OBVIOUS
<1>3. Tail(q) # <<>>
  <2>1. Len(Tail(q)) # 0
    BY <1>1, <1>2
  <2>2. \A t : t = <<>> => Len(t) = 0
    OBVIOUS
  <2> QED BY <2>1, <2>2
<1> QED BY <1>1, <1>2, <1>3

LEMMA FeedKeeps ==
  ASSUME IInv, NEW r \in Requests, Feed(r)
  PROVE  IInv'
<1> DEFINE parts == feeder[r]
           part == parts[1]
           item == part[1]
<1>1. /\ UNCHANGED <<input, looping, pendingIncoming, beats, pendingPeerRequests, sender, senderClosed, inputClosed,
                     emitter, pc, got, peerGot, written>>
      /\ Up /\ parts # <<>> /\ parts \in Seq(Seq(Items)) /\ framesChan[r] \in Seq(Items)
      /\ UNCHANGED <<stdin, body, todo, handler, chunkIndex, streamStarted>>
  BY DEF Feed, loop, peering, handling, input, emitter, IInv, TypeOK
<1>2. /\ Len(parts) \in Nat /\ Len(parts) >= 1 /\ 1 \in 1..Len(parts)
      /\ Head(parts) = part /\ part \in Seq(Items) /\ part # <<>>
  BY <1>1 DEF IInv, LocalInv, FeederInv
<1>3. Len(part) \in Nat /\ Len(part) >= 1 /\ Head(part) = item /\ item \in Items
  BY <1>2
<1>4. pc[r] # "none" /\ (pc[r] = "read" \/ handler[r] = "early")
  BY <1>1 DEF IInv, LocalInv, FeederInv
<1>5. FeederInv(r) /\ WrittenInv(r) /\ ChannelInv(r)
  BY DEF IInv, LocalInv
<1> HIDE DEF parts, part, item
<1>6. CASE r \notin inputClosed /\ framesChan' = [framesChan EXCEPT ![r] = Append(@, Head(Head(feeder[r])))]
           /\ feeder' = [feeder EXCEPT ![r] = Pushed(@)]
           /\ UNCHANGED crashed
  <2> DEFINE rest == IF Len(part) = 1 THEN Tail(parts) ELSE [parts EXCEPT ![1] = Tail(part)]
             queue == Append(framesChan[r], item)
  <2>1. feeder' = [feeder EXCEPT ![r] = rest] /\ framesChan' = [framesChan EXCEPT ![r] = queue]
    <3>1. Head(feeder[r]) = part /\ Head(Head(feeder[r])) = item
      BY <1>2, <1>3 DEF parts
    <3>2. framesChan' = [framesChan EXCEPT ![r] = Append(framesChan[r], item)]
      BY <1>6, <3>1
    <3>3. feeder' = [feeder EXCEPT ![r] = Pushed(parts)]
      BY <1>6 DEF parts
    <3>4. Pushed(parts) = rest
      BY <1>2 DEF Pushed, part
    <3> QED BY <3>2, <3>3, <3>4
  <2>2. /\ queue \in Seq(Items) /\ Len(queue) = Len(framesChan[r]) + 1 /\ Len(framesChan[r]) \in Nat
        /\ queue[Len(framesChan[r]) + 1] = item /\ \A i \in 1..Len(framesChan[r]) : queue[i] = framesChan[r][i]
    BY <1>1, <1>3
  <2>3. ASSUME Len(part) = 1
        PROVE  /\ rest \in Seq(Seq(Items)) /\ \A k \in 1..Len(rest) : rest[k] # <<>>
               /\ \A k \in 1..Len(rest) : \A i \in 1..Len(rest[k]) :
                    rest[k][i].type = "END" => k = Len(rest) /\ Len(rest[k]) = 1
               /\ rest # <<>> => item.type # "END"
    <3>1. /\ rest \in Seq(Seq(Items)) /\ Len(rest) = Len(parts) - 1
          /\ \A k \in 1..Len(rest) : rest[k] = parts[k + 1] /\ k + 1 \in 1..Len(parts)
      BY <1>1, <1>2, <2>3
    <3> HIDE DEF rest, queue
    <3>2. \A k \in 1..Len(rest) : rest[k] # <<>>
      BY <1>5, <3>1 DEF FeederInv, parts
    <3>3. \A k \in 1..Len(rest) : \A i \in 1..Len(rest[k]) :
            rest[k][i].type = "END" => k = Len(rest) /\ Len(rest[k]) = 1
      <4> SUFFICES ASSUME NEW k \in 1..Len(rest), NEW i \in 1..Len(parts[k + 1]), parts[k + 1][i].type = "END"
                   PROVE  k = Len(rest) /\ Len(parts[k + 1]) = 1
        BY <3>1
      <4>1. k + 1 = Len(parts) /\ Len(parts[k + 1]) = 1
        BY <1>5, <3>1 DEF FeederInv, parts
      <4> QED BY <1>2, <3>1, <4>1
    <3>4. rest # <<>> => item.type # "END"
      <4>1. rest # <<>> => Len(parts) # 1
        BY <1>2, <3>1
      <4>2. /\ 1 \in 1..Len(parts) /\ 1 \in 1..Len(parts[1]) /\ item = parts[1][1]
        BY <1>2, <1>3 DEF part, item
      <4>3. \A k \in 1..Len(parts) : \A i \in 1..Len(parts[k]) : parts[k][i].type = "END" => k = Len(parts)
        BY <1>5 DEF FeederInv, parts
      <4>4. item.type = "END" => 1 = Len(parts)
        BY <4>2, <4>3
      <4> QED BY <4>1, <4>4
    <3>5. rest \in Seq(Seq(Items))
      BY <3>1
    <3> QED BY <3>2, <3>3, <3>4, <3>5
  <2>4. ASSUME Len(part) # 1
        PROVE  /\ rest \in Seq(Seq(Items)) /\ \A k \in 1..Len(rest) : rest[k] # <<>>
               /\ \A k \in 1..Len(rest) : \A i \in 1..Len(rest[k]) :
                    rest[k][i].type = "END" => k = Len(rest) /\ Len(rest[k]) = 1
               /\ rest # <<>> => item.type # "END"
    <3>1. Tail(part) \in Seq(Items) /\ Len(Tail(part)) = Len(part) - 1 /\ Len(part) > 1 /\ Tail(part) # <<>>
          /\ \A i \in 1..Len(part) - 1 : Tail(part)[i] = part[i + 1]
      BY <1>2, <2>4, LongTail
    <3>2. /\ rest \in Seq(Seq(Items)) /\ Len(rest) = Len(parts) /\ rest[1] = Tail(part)
          /\ \A k \in 1..Len(parts) : k # 1 => rest[k] = parts[k]
      BY <1>1, <1>2, <2>4, <3>1
    <3> HIDE DEF rest, queue
    <3>3. \A i \in 1..Len(part) : part[i].type # "END"
      BY <1>2, <1>5, <2>4 DEF FeederInv, parts, part
    <3>4. \A k \in 1..Len(rest) : rest[k] # <<>>
      BY <1>5, <3>1, <3>2 DEF FeederInv, parts
    <3>5. \A k \in 1..Len(rest) : \A i \in 1..Len(rest[k]) :
            rest[k][i].type = "END" => k = Len(rest) /\ Len(rest[k]) = 1
      <4> SUFFICES ASSUME NEW k \in 1..Len(rest), NEW i \in 1..Len(rest[k]), rest[k][i].type = "END"
                   PROVE  k = Len(rest) /\ Len(rest[k]) = 1
        OBVIOUS
      <4>1. k # 1
        <5> SUFFICES ASSUME k = 1 PROVE FALSE
          OBVIOUS
        <5>1. i \in 1..Len(part) - 1 /\ Tail(part)[i].type = "END"
          BY <3>1, <3>2
        <5> QED BY <1>3, <3>1, <3>3, <5>1
      <4> QED BY <1>5, <3>2, <4>1 DEF FeederInv, parts
    <3>6. item.type # "END"
      BY <1>3, <3>3 DEF item
    <3> QED BY <3>2, <3>4, <3>5, <3>6
  <2> HIDE DEF rest
  <2>5. /\ rest \in Seq(Seq(Items)) /\ \A k \in 1..Len(rest) : rest[k] # <<>>
        /\ \A k \in 1..Len(rest) : \A i \in 1..Len(rest[k]) :
             rest[k][i].type = "END" => k = Len(rest) /\ Len(rest[k]) = 1
        /\ rest # <<>> => item.type # "END"
    BY <2>3, <2>4
  <2> HIDE DEF rest, queue
  <2>6. /\ feeder' \in [Requests -> Seq(Seq(Items))] /\ framesChan' \in [Requests -> Seq(Items)]
        /\ feeder'[r] = rest /\ framesChan'[r] = queue
        /\ \A q \in Requests \ {r} : feeder'[q] = feeder[q] /\ framesChan'[q] = framesChan[q]
    BY <2>1, <2>2, <2>5 DEF IInv, TypeOK
  <2>7. TypeOK'
    BY <1>1, <2>6 DEF IInv, TypeOK
  <2>8. FeederInv(r)'
    <3>1. rest # <<>> => \A i \in 1..Len(queue) : queue[i].type # "END"
      <4>1. \A i \in 1..Len(framesChan[r]) : framesChan[r][i].type # "END"
        BY <1>1, <1>5 DEF FeederInv, parts
      <4>2. \A i \in 1..Len(queue) : i \in 1..Len(framesChan[r]) \/ i = Len(framesChan[r]) + 1
        BY <2>2
      <4> QED BY <2>2, <2>5, <4>1, <4>2
    <3> QED BY <1>1, <1>4, <1>6, <2>5, <2>6, <3>1 DEF FeederInv
  <2>9. WrittenInv(r)' /\ ChannelInv(r)'
    BY <1>1, <1>5 DEF WrittenInv, ChannelInv, Corrupt, Ahead
  <2>10. \A q \in Requests \ {r} : Untouched(q)
    BY <1>1, <2>6 DEF Untouched
  <2>11. InputInv' /\ CollectInv(r)' /\ FreshInv(r)' /\ \A q \in Requests \ {r} : LocalInv(q)'
    BY <1>1, <1>4, <2>10, HandlerFrame
  <2>12. PanicHasACause'
    BY <1>1, <1>6, NoPanic
  <2> QED BY <2>7, <2>8, <2>9, <2>11, <2>12 DEF IInv, LocalInv
<1>7. CASE r \in inputClosed /\ crashed' = TRUE /\ UNCHANGED <<feeder, framesChan>>
  <2>1. handler[r] = "early"
    BY <1>4, <1>5, <1>7 DEF FeederInv
  <2>2. PanicHasACause'
    BY <1>1, <2>1 DEF PanicHasACause
  <2>3. TypeOK'
    BY <1>1, <1>7 DEF IInv, TypeOK
  <2>4. \A q \in Requests : Untouched(q)
    BY <1>1, <1>7 DEF Untouched
  <2>5. InputInv' /\ CollectInv(r)' /\ FreshInv(r)' /\ \A q \in Requests \ {r} : LocalInv(q)'
    BY <1>1, <1>4, <2>4, HandlerFrame
  <2>6. WrittenInv(r)' /\ ChannelInv(r)' /\ FeederInv(r)'
    BY <1>1, <1>5, <1>7 DEF WrittenInv, ChannelInv, FeederInv, Corrupt, Ahead
  <2> QED BY <2>2, <2>3, <2>5, <2>6 DEF IInv, LocalInv
<1> QED BY <1>6, <1>7 DEF Feed

\* What a frame that is written is.
LEMMA FrameFacts ==
  ASSUME NEW type \in OutTypes, NEW n \in Nat
  PROVE  /\ Frame(type, TRUE, n) \in OutFrames /\ Frame(type, FALSE, n) \in OutFrames
         /\ Frame(type, TRUE, n).type = type /\ Frame(type, TRUE, n).n = n
         /\ Frame(type, FALSE, n).type = type
BY Zenon DEF Frame, OutFrames

\* A step of the handler of r within what it has to say: what is to show of the request.
LEMMA HandlerKeeps ==
  ASSUME IInv, NEW r \in Requests, Up, UNCHANGED <<input, pendingIncoming, crashed>>,
         pc[r] # "none", pc'[r] # "none",
         TypeOK', \A q \in Requests \ {r} : Untouched(q),
         WrittenInv(r)', FeederInv(r)', ChannelInv(r)'
  PROVE  IInv'
<1>1. InputInv' /\ CollectInv(r)' /\ FreshInv(r)' /\ \A q \in Requests \ {r} : LocalInv(q)'
  BY HandlerFrame
<1>2. PanicHasACause'
  BY NoPanic
<1> QED BY <1>1, <1>2 DEF IInv, LocalInv

\* While a handler runs its request is not collected, and its REQ is gone.
LEMMA HandlerAlone ==
  ASSUME IInv, NEW r \in Requests, pc[r] # "none", UNCHANGED <<stdin, todo, body, pendingIncoming>>
  PROVE  /\ ~Ahead(r)' /\ r \notin DOMAIN pendingIncoming'
         /\ (Corrupt(r)' <=> Corrupt(r))
BY DEF IInv, LocalInv, CollectInv, Ahead, Corrupt

LEMMA ReadKeeps ==
  ASSUME IInv, NEW r \in Requests, HandlerReads(r)
  PROVE  IInv'
<1>1. /\ Up /\ pc[r] = "read" /\ framesChan[r] # <<>>
      /\ framesChan' = [framesChan EXCEPT ![r] = Tail(@)]
      /\ UNCHANGED <<input, pendingIncoming, crashed>>
      /\ UNCHANGED <<stdin, body, todo, handler, pendingPeerRequests, senderClosed, feeder, inputClosed,
                     chunkIndex, streamStarted, written>>
  BY DEF HandlerReads, input, loop, peering, emitter
<1>2. PICK place \in Silent \cup {"emit"} :
        /\ pc' = [pc EXCEPT ![r] = place] /\ place \in {"read", "fail", "invoke", "emit"}
        /\ place # "read" => framesChan[r][1].type = "END"
  <2> DEFINE f == Head(framesChan[r])
             after == CASE handler[r] = "fail" -> "fail"
                        [] handler[r] \in {"peer", "quit"} -> "invoke"
                        [] OTHER -> "emit"
             place == IF f.type = "END" /\ handler[r] # "drain" THEN after ELSE "read"
  <2>1. pc' = [pc EXCEPT ![r] = place]
    BY DEF HandlerReads, Goto
  <2>2. after \in {"fail", "invoke", "emit"}
    OBVIOUS
  <2>3. place \in {"read", "fail", "invoke", "emit"} /\ (place # "read" => f.type = "END")
    BY <2>2
  <2>4. f = framesChan[r][1]
    OBVIOUS
  <2> HIDE DEF place
  <2> QED BY <2>1, <2>3, <2>4 DEF Silent
<1>3. /\ framesChan[r] \in Seq(Items) /\ Tail(framesChan[r]) \in Seq(Items) /\ Len(framesChan[r]) \in Nat
      /\ 1 \in 1..Len(framesChan[r]) /\ Len(Tail(framesChan[r])) = Len(framesChan[r]) - 1
      /\ \A i \in 1..Len(framesChan[r]) - 1 : Tail(framesChan[r])[i] = framesChan[r][i + 1]
  BY <1>1 DEF IInv, TypeOK
<1>4. /\ pc' \in [Requests -> Places] /\ pc'[r] = place /\ \A q \in Requests \ {r} : pc'[q] = pc[q]
      /\ framesChan' \in [Requests -> Seq(Items)] /\ framesChan'[r] = Tail(framesChan[r])
      /\ \A q \in Requests \ {r} : framesChan'[q] = framesChan[q]
  BY <1>1, <1>2, <1>3 DEF IInv, TypeOK, Places
<1>5. TypeOK'
  BY <1>1, <1>4 DEF IInv, TypeOK
<1>6. \A q \in Requests \ {r} : Untouched(q)
  BY <1>1, <1>4 DEF Untouched
<1>7. WrittenInv(r) /\ FeederInv(r) /\ ChannelInv(r)
  BY DEF IInv, LocalInv
<1>8. ~Ahead(r)' /\ r \notin DOMAIN pendingIncoming' /\ (Corrupt(r)' <=> Corrupt(r))
  BY <1>1, HandlerAlone
<1>9. WrittenInv(r)'
  <2>1. r \notin streamStarted /\ chunkIndex[r] = 0 /\ (~Corrupt(r) => written[r] = <<>>)
    BY <1>1, <1>7 DEF WrittenInv, Silent
  <2> QED BY <1>1, <1>2, <1>4, <1>8, <2>1 DEF WrittenInv, Silent
<1>10. FeederInv(r)'
  <2>1. feeder[r] # <<>> => \A i \in 1..Len(framesChan[r]) : framesChan[r][i].type # "END"
    BY <1>7 DEF FeederInv
  <2>2. feeder[r] # <<>> => \A i \in 1..Len(framesChan'[r]) : framesChan'[r][i].type # "END"
    <3> SUFFICES ASSUME feeder[r] # <<>>, NEW i \in 1..Len(framesChan'[r]) PROVE framesChan'[r][i].type # "END"
      OBVIOUS
    <3>1. i + 1 \in 1..Len(framesChan[r]) /\ framesChan'[r][i] = framesChan[r][i + 1]
      BY <1>3, <1>4
    <3> QED BY <2>1, <3>1
  <2>3. place # "read" => feeder[r] = <<>>
    BY <1>2, <1>3, <2>1
  <2>4. r \notin inputClosed
    BY <1>1, <1>7 DEF FeederInv
  <2> QED BY <1>1, <1>2, <1>4, <1>7, <2>2, <2>3, <2>4 DEF FeederInv
<1>11. ChannelInv(r)'
  BY <1>1, <1>7 DEF ChannelInv
<1> QED BY <1>1, <1>2, <1>4, <1>5, <1>6, <1>9, <1>10, <1>11, HandlerKeeps

\* A step of the handler that changes its place and its peer request only, before or while
\* it emits.
LEMMA MoveKeeps ==
  ASSUME IInv, NEW r \in Requests, NEW place \in Places, Up,
         UNCHANGED <<input, pendingIncoming, crashed, senderClosed, feeder, framesChan, inputClosed, chunkIndex,
                     streamStarted>>,
         \A q \in Requests : written'[q] = written[q], written' \in [Ids -> Seq(OutFrames)],
         pc' = [pc EXCEPT ![r] = place],
         \/ pc[r] \in Silent \ {"none"} /\ place \in (Silent \ {"none", "read"}) \cup {"emit"}
         \/ pc[r] = "emit" /\ place = "finalize",
         pc[r] = "read" => handler[r] = "early",
         pc[r] \notin {"read", "invoke"} => UNCHANGED pendingPeerRequests /\ place # "invoke",
         pc[r] = "read" => UNCHANGED pendingPeerRequests,
         pc[r] = "invoke" => pendingPeerRequests' = pendingPeerRequests \cup {r} /\ place # "invoke"
  PROVE  IInv'
<1>1. UNCHANGED <<stdin, body, todo, handler>>
  BY DEF input
<1>2. pc' \in [Requests -> Places] /\ pc'[r] = place /\ \A q \in Requests \ {r} : pc'[q] = pc[q]
  BY DEF IInv, TypeOK
<1>3. /\ pendingPeerRequests' \subseteq Requests
      /\ \A q \in Requests \ {r} : q \in pendingPeerRequests' <=> q \in pendingPeerRequests
  BY DEF IInv, TypeOK
<1>4. TypeOK'
  BY <1>1, <1>2, <1>3 DEF IInv, TypeOK
<1>5. \A q \in Requests \ {r} : Untouched(q)
  BY <1>2, <1>3 DEF Untouched
<1>6. WrittenInv(r) /\ FeederInv(r) /\ ChannelInv(r)
  BY DEF IInv, LocalInv
<1>7. pc[r] # "none" /\ pc'[r] # "none"
  BY <1>2 DEF Silent
<1>8. ~Ahead(r)' /\ r \notin DOMAIN pendingIncoming' /\ (Corrupt(r)' <=> Corrupt(r))
  BY <1>1, <1>7, HandlerAlone
<1>9. WrittenInv(r)'
  BY <1>1, <1>2, <1>6, <1>8 DEF WrittenInv, Silent
<1>10. FeederInv(r)'
  BY <1>1, <1>2, <1>6 DEF FeederInv, Silent
<1>11. ChannelInv(r)'
  BY <1>1, <1>2, <1>6 DEF ChannelInv, Silent
<1> QED BY <1>4, <1>5, <1>7, <1>9, <1>10, <1>11, HandlerKeeps

LEMMA QuitKeeps ==
  ASSUME IInv, NEW r \in Requests, HandlerQuits(r) \/ HandlerReturns(r)
  PROVE  IInv'
<1>1. PICK place \in {"emit", "finalize"} :
        /\ pc' = [pc EXCEPT ![r] = place]
        /\ \/ pc[r] = "read" /\ handler[r] = "early" /\ place = "emit"
           \/ pc[r] = "emit" /\ place = "finalize"
  BY DEF HandlerQuits, HandlerReturns, Goto
<1>2. /\ Up
      /\ UNCHANGED <<input, pendingIncoming, crashed, senderClosed, feeder, framesChan, inputClosed, chunkIndex,
                     streamStarted, pendingPeerRequests, written>>
  BY DEF HandlerQuits, HandlerReturns, loop, peering, feeding, emitter
<1>3. place \in Places /\ written' \in [Ids -> Seq(OutFrames)]
  BY <1>2 DEF IInv, TypeOK, Places
<1> QED BY <1>1, <1>2, <1>3, MoveKeeps DEF Silent

LEMMA RegisterKeeps ==
  ASSUME IInv, NEW r \in Requests, InvokeRegisters(r)
  PROVE  IInv'
<1>1. /\ Up /\ pc[r] = "invoke" /\ pc' = [pc EXCEPT ![r] = "REQ"]
      /\ pendingPeerRequests' = pendingPeerRequests \cup {r}
      /\ UNCHANGED <<input, pendingIncoming, crashed, senderClosed, feeder, framesChan, inputClosed, chunkIndex,
                     streamStarted, written>>
  BY DEF InvokeRegisters, Goto, loop, feeding, emitter
<1>2. "REQ" \in Places /\ written' \in [Ids -> Seq(OutFrames)]
  BY <1>1 DEF IInv, TypeOK, Places, Silent
<1> QED BY <1>1, <1>2, MoveKeeps DEF Silent

LEMMA InvokeKeeps ==
  ASSUME IInv, NEW r \in Requests, InvokeWrites(r)
  PROVE  IInv'
<1>1. PICK place \in {"BODY", "END", "await"} : pc' = [pc EXCEPT ![r] = place]
  BY DEF InvokeWrites, Goto
<1>2. /\ Up /\ pc[r] \in {"REQ", "BODY", "END"}
      /\ UNCHANGED <<input, pendingIncoming, crashed, senderClosed, feeder, framesChan, inputClosed, chunkIndex,
                     streamStarted, pendingPeerRequests>>
  BY DEF InvokeWrites, loop, peering, feeding, emitter
<1>3. written' = [written EXCEPT ![Peer(r)] = Append(@, Frame(pc[r], FALSE, 0))]
  BY DEF InvokeWrites, Write
<1> DEFINE frame == Frame(pc[r], FALSE, 0)
<1>4. frame \in OutFrames
  <2>1. pc[r] \in OutTypes
    BY <1>2 DEF OutTypes
  <2> QED BY <2>1, FrameFacts
<1> HIDE DEF frame
<1>5. Peer(r) \in Ids /\ \A q \in Requests : q # Peer(r) /\ q \in Ids
  BY IdsFacts
<1>6. written' \in [Ids -> Seq(OutFrames)] /\ \A q \in Requests : written'[q] = written[q]
  <2>1. written \in [Ids -> Seq(OutFrames)]
    BY DEF IInv, TypeOK
  <2>2. Append(written[Peer(r)], frame) \in Seq(OutFrames)
    BY <1>4, <1>5, <2>1
  <2>3. written' = [written EXCEPT ![Peer(r)] = Append(written[Peer(r)], frame)]
    BY <1>3 DEF frame
  <2> QED BY <1>5, <2>1, <2>2, <2>3
<1>7. place \in Places /\ place \in Silent \ {"none", "read", "invoke"} /\ pc[r] \in Silent \ {"none"}
      /\ pc[r] \notin {"read", "invoke"}
  BY <1>2 DEF Places, Silent
<1> QED BY <1>1, <1>2, <1>6, <1>7, MoveKeeps

LEMMA AwaitKeeps ==
  ASSUME IInv, NEW r \in Requests, HandlerAwaits(r)
  PROVE  IInv'
<1>1. PICK place \in {"fail", "emit", "await"} : pc' = [pc EXCEPT ![r] = place]
  <2> DEFINE f == Head(sender[r])
             next == CASE f.type = "ERR" -> "fail"
                       [] f.type = "STREAM_END" \/ handler[r] = "quit" -> "emit"
                       [] OTHER -> "await"
  <2>1. pc' = [pc EXCEPT ![r] = next] \/ pc' = [pc EXCEPT ![r] = "emit"]
    BY DEF HandlerAwaits, Goto
  <2>2. next \in {"fail", "emit", "await"}
    OBVIOUS
  <2> HIDE DEF next
  <2> QED BY <2>1, <2>2
<1>2. /\ Up /\ pc[r] = "await"
      /\ UNCHANGED <<input, pendingIncoming, crashed, senderClosed, feeder, framesChan, inputClosed, chunkIndex,
                     streamStarted, pendingPeerRequests, written>>
  BY DEF HandlerAwaits, loop, feeding, emitter
<1>3. place \in Places /\ written' \in [Ids -> Seq(OutFrames)]
  BY <1>2 DEF IInv, TypeOK, Places, Silent
<1> QED BY <1>1, <1>2, <1>3, MoveKeeps DEF Silent

\* A step of the handler that writes one frame of the response.
LEMMA WriteFacts ==
  ASSUME IInv, NEW r \in Requests, NEW frame \in OutFrames, Write(r, frame)
  PROVE  /\ written' \in [Ids -> Seq(OutFrames)] /\ \A q \in Requests \ {r} : written'[q] = written[q]
         /\ Len(written[r]) \in Nat /\ Len(written'[r]) = Len(written[r]) + 1
         /\ written'[r][Len(written[r]) + 1] = frame
         /\ \A i \in 1..Len(written[r]) : written'[r][i] = written[r][i]
         /\ written[r] = <<>> => Len(written'[r]) = 1 /\ written'[r][1] = frame
<1>1. r \in Ids /\ written[r] \in Seq(OutFrames) /\ Requests \subseteq Ids
  BY IdsFacts DEF IInv, TypeOK
<1>2. written' \in [Ids -> Seq(OutFrames)] /\ written'[r] = Append(written[r], frame)
      /\ \A q \in Requests \ {r} : written'[q] = written[q]
  BY <1>1 DEF Write, IInv, TypeOK
<1>3. Len(written[r]) \in Nat /\ Len(written'[r]) = Len(written[r]) + 1
      /\ written'[r][Len(written[r]) + 1] = frame /\ \A i \in 1..Len(written[r]) : written'[r][i] = written[r][i]
  BY <1>1, <1>2
<1>4. written[r] = <<>> => Len(written[r]) = 0
  OBVIOUS
<1> QED BY <1>2, <1>3, <1>4

LEMMA EmitStartKeeps ==
  ASSUME IInv, NEW r \in Requests, EmitStarts(r)
  PROVE  IInv'
<1> DEFINE frame == Frame("STREAM_START", TRUE, 0)
<1>1. /\ Up /\ pc[r] \in {"emit", "finalize"} /\ r \notin streamStarted
      /\ streamStarted' = streamStarted \cup {r} /\ Write(r, frame)
      /\ UNCHANGED <<input, pendingIncoming, crashed, pc, pendingPeerRequests, senderClosed, feeder, framesChan,
                     inputClosed, chunkIndex>>
      /\ UNCHANGED <<stdin, body, todo, handler>>
  BY DEF EmitStarts, loop, peering, feeding, handling, input
<1>2. frame \in OutFrames /\ frame.type = "STREAM_START"
  <2>1. "STREAM_START" \in OutTypes /\ 0 \in Nat
    BY DEF OutTypes
  <2> QED BY <2>1, FrameFacts
<1> HIDE DEF frame
<1>3. /\ written' \in [Ids -> Seq(OutFrames)] /\ \A q \in Requests \ {r} : written'[q] = written[q]
      /\ written[r] = <<>> => Len(written'[r]) = 1 /\ written'[r][1] = frame
  BY <1>1, <1>2, WriteFacts
<1>4. TypeOK'
  BY <1>1, <1>3 DEF IInv, TypeOK
<1>5. \A q \in Requests \ {r} : Untouched(q)
  BY <1>1, <1>3 DEF Untouched
<1>6. WrittenInv(r) /\ FeederInv(r) /\ ChannelInv(r) /\ pc[r] # "none"
  BY <1>1 DEF IInv, LocalInv
<1>7. ~Ahead(r)' /\ r \notin DOMAIN pendingIncoming' /\ (Corrupt(r)' <=> Corrupt(r))
  BY <1>1, <1>6, HandlerAlone
<1>8. WrittenInv(r)'
  <2>1. chunkIndex[r] = 0 /\ (~Corrupt(r) => written[r] = <<>>)
    BY <1>1, <1>6 DEF WrittenInv
  <2>2. ~Corrupt(r) => Begun(written'[r], 0) /\ Len(written'[r]) = 1
    BY <1>2, <1>3, <2>1 DEF Begun
  <2> QED BY <1>1, <1>7, <2>1, <2>2 DEF WrittenInv, Silent
<1>9. FeederInv(r)' /\ ChannelInv(r)'
  BY <1>1, <1>6 DEF FeederInv, ChannelInv
<1> QED BY <1>1, <1>4, <1>5, <1>6, <1>8, <1>9, HandlerKeeps

LEMMA EmitChunkKeeps ==
  ASSUME IInv, NEW r \in Requests, EmitChunk(r)
  PROVE  IInv'
<1> DEFINE n == chunkIndex[r]
           frame == Frame("CHUNK", TRUE, n)
<1>1. /\ Up /\ pc[r] = "emit" /\ r \in streamStarted
      /\ chunkIndex' = [chunkIndex EXCEPT ![r] = @ + 1] /\ Write(r, frame)
      /\ UNCHANGED <<input, pendingIncoming, crashed, pc, pendingPeerRequests, senderClosed, feeder, framesChan,
                     inputClosed, streamStarted>>
      /\ UNCHANGED <<stdin, body, todo, handler>>
  BY DEF EmitChunk, loop, peering, feeding, handling, input
<1>2. n \in Nat
  BY DEF IInv, TypeOK
<1> HIDE DEF n
<1>3. frame \in OutFrames /\ frame.type = "CHUNK" /\ frame.n = n
  <2>1. "CHUNK" \in OutTypes
    BY DEF OutTypes
  <2> QED BY <1>2, <2>1, FrameFacts
<1> HIDE DEF frame
<1>4. /\ written' \in [Ids -> Seq(OutFrames)] /\ \A q \in Requests \ {r} : written'[q] = written[q]
      /\ Len(written[r]) \in Nat /\ Len(written'[r]) = Len(written[r]) + 1
      /\ written'[r][Len(written[r]) + 1] = frame
      /\ \A i \in 1..Len(written[r]) : written'[r][i] = written[r][i]
  BY <1>1, <1>3, WriteFacts
<1>5. /\ chunkIndex' \in [Requests -> Nat] /\ chunkIndex'[r] = n + 1
      /\ \A q \in Requests \ {r} : chunkIndex'[q] = chunkIndex[q]
  BY <1>1, <1>2 DEF IInv, TypeOK, n
<1>6. TypeOK'
  BY <1>1, <1>4, <1>5 DEF IInv, TypeOK
<1>7. \A q \in Requests \ {r} : Untouched(q)
  BY <1>1, <1>4, <1>5 DEF Untouched
<1>8. WrittenInv(r) /\ FeederInv(r) /\ ChannelInv(r) /\ pc[r] # "none"
  BY <1>1 DEF IInv, LocalInv
<1>9. ~Ahead(r)' /\ r \notin DOMAIN pendingIncoming' /\ (Corrupt(r)' <=> Corrupt(r))
  BY <1>1, <1>8, HandlerAlone
<1>10. WrittenInv(r)'
  <2>1. ~Corrupt(r) => Begun(written[r], n) /\ Len(written[r]) = n + 1
    BY <1>1, <1>8 DEF WrittenInv, n
  <2>2. ASSUME ~Corrupt(r) PROVE Begun(written'[r], n + 1) /\ Len(written'[r]) = n + 2
    <3>1. Len(written'[r]) = n + 2 /\ written'[r][1].type = "STREAM_START"
      BY <1>2, <1>4, <2>1, <2>2 DEF Begun
    <3>2. ASSUME NEW i \in 2..n + 1 PROVE written'[r][i].type = "CHUNK" /\ written'[r][i].n = i - 2
      <4>1. i \in 1..Len(written[r])
        BY <1>2, <2>1, <2>2
      <4>2. written'[r][i] = written[r][i]
        BY <1>4, <4>1
      <4> QED BY <2>1, <2>2, <4>2 DEF Begun
    <3>3. written'[r][n + 2].type = "CHUNK" /\ written'[r][n + 2].n = n
      BY <1>2, <1>3, <1>4, <2>1, <2>2
    <3>4. \A i \in 2..n + 2 : written'[r][i].type = "CHUNK" /\ written'[r][i].n = i - 2
      BY <1>2, <3>2, <3>3
    <3> QED BY <1>2, <3>1, <3>4 DEF Begun
  <2>3. ~Corrupt(r) => Begun(written'[r], chunkIndex'[r]) /\ Len(written'[r]) = chunkIndex'[r] + 1
    BY <1>2, <1>5, <2>2
  <2> QED BY <1>1, <1>9, <2>3 DEF WrittenInv, Silent
<1>11. FeederInv(r)' /\ ChannelInv(r)'
  BY <1>1, <1>8 DEF FeederInv, ChannelInv
<1> QED BY <1>1, <1>6, <1>7, <1>8, <1>10, <1>11, HandlerKeeps

\* Finalize and a failing handler write the last frames and move on.
LEMMA EndWriteKeeps ==
  ASSUME IInv, NEW r \in Requests, NEW place \in {"finish", "close"}, NEW frame \in OutFrames,
         Up, Write(r, frame), pc' = [pc EXCEPT ![r] = place],
         pc[r] \in {"finalize", "finish", "fail"},
         UNCHANGED <<input, pendingIncoming, crashed, pendingPeerRequests, senderClosed, feeder, framesChan,
                     inputClosed, chunkIndex, streamStarted>>,
         place = "finish" => r \in streamStarted,
         ~Corrupt(r) =>
           IF place = "finish"
           THEN Completed(written'[r], chunkIndex[r]) /\ Len(written'[r]) = chunkIndex[r] + 2
           ELSE \/ Refused(written'[r])
                \/ /\ Completed(written'[r], chunkIndex[r]) /\ Len(written'[r]) = chunkIndex[r] + 3
                   /\ written'[r][chunkIndex[r] + 3].type = "END"
  PROVE  IInv'
<1>1. UNCHANGED <<stdin, body, todo, handler>>
  BY DEF input
<1>2. pc' \in [Requests -> Places] /\ pc'[r] = place /\ \A q \in Requests \ {r} : pc'[q] = pc[q]
  BY DEF IInv, TypeOK, Places
<1>3. written' \in [Ids -> Seq(OutFrames)] /\ \A q \in Requests \ {r} : written'[q] = written[q]
  BY WriteFacts
<1>4. TypeOK'
  BY <1>1, <1>2, <1>3 DEF IInv, TypeOK
<1>5. \A q \in Requests \ {r} : Untouched(q)
  BY <1>2, <1>3 DEF Untouched
<1>6. WrittenInv(r) /\ FeederInv(r) /\ ChannelInv(r) /\ pc[r] # "none" /\ pc'[r] # "none"
  BY <1>2 DEF IInv, LocalInv
<1>7. ~Ahead(r)' /\ r \notin DOMAIN pendingIncoming' /\ (Corrupt(r)' <=> Corrupt(r))
  BY <1>1, <1>6, HandlerAlone
<1>8. WrittenInv(r)'
  BY <1>1, <1>2, <1>6, <1>7 DEF WrittenInv, Silent
<1>9. FeederInv(r)' /\ ChannelInv(r)'
  BY <1>1, <1>2, <1>6 DEF FeederInv, ChannelInv
<1> QED BY <1>4, <1>5, <1>6, <1>8, <1>9, HandlerKeeps

LEMMA FinalizeKeeps ==
  ASSUME IInv, NEW r \in Requests, Finalize(r)
  PROVE  IInv'
<1> DEFINE n == chunkIndex[r]
           w == written[r]
<1>1. /\ Up
      /\ UNCHANGED <<input, pendingIncoming, crashed, pendingPeerRequests, senderClosed, feeder, framesChan,
                     inputClosed, chunkIndex, streamStarted>>
  BY DEF Finalize, loop, peering, feeding, emitter
<1>2. n \in Nat /\ WrittenInv(r)
  BY DEF IInv, TypeOK, LocalInv
<1>3. ASSUME pc[r] = "finalize", r \in streamStarted, Write(r, Frame("STREAM_END", TRUE, n)),
             pc' = [pc EXCEPT ![r] = "finish"]
      PROVE  IInv'
  <2> DEFINE frame == Frame("STREAM_END", TRUE, n)
  <2> HIDE DEF n
  <2>1. frame \in OutFrames /\ frame.type = "STREAM_END" /\ frame.n = n
    <3>1. "STREAM_END" \in OutTypes
      BY DEF OutTypes
    <3> QED BY <1>2, <3>1, FrameFacts
  <2>2. Write(r, frame)
    BY <1>3
  <2> HIDE DEF frame
  <2>3. /\ Len(w) \in Nat /\ Len(written'[r]) = Len(w) + 1 /\ written'[r][Len(w) + 1] = frame
        /\ \A i \in 1..Len(w) : written'[r][i] = w[i]
    BY <2>1, <2>2, WriteFacts
  <2>4. ~Corrupt(r) => Begun(w, n) /\ Len(w) = n + 1
    BY <1>2, <1>3 DEF WrittenInv, n
  <2>5. ASSUME ~Corrupt(r) PROVE Completed(written'[r], n) /\ Len(written'[r]) = n + 2
    <3>1. Len(written'[r]) = n + 2 /\ written'[r][n + 2] = frame
      BY <1>2, <2>3, <2>4, <2>5
    <3>2. written'[r][1].type = "STREAM_START"
      BY <1>2, <2>3, <2>4, <2>5 DEF Begun
    <3>3. ASSUME NEW i \in 2..n + 1 PROVE written'[r][i].type = "CHUNK" /\ written'[r][i].n = i - 2
      <4>1. i \in 1..Len(w)
        BY <1>2, <2>4, <2>5
      <4>2. written'[r][i] = w[i]
        BY <2>3, <4>1
      <4> QED BY <2>4, <2>5, <4>2 DEF Begun
    <3> QED BY <1>2, <2>1, <3>1, <3>2, <3>3 DEF Completed, Begun
  <2> QED BY <1>1, <1>3, <2>1, <2>2, <2>5, EndWriteKeeps DEF n
<1>4. ASSUME pc[r] = "finish", Write(r, Frame("END", TRUE, 0)), pc' = [pc EXCEPT ![r] = "close"]
      PROVE  IInv'
  <2> DEFINE frame == Frame("END", TRUE, 0)
  <2> HIDE DEF n
  <2>1. frame \in OutFrames /\ frame.type = "END"
    <3>1. "END" \in OutTypes /\ 0 \in Nat
      BY DEF OutTypes
    <3> QED BY <3>1, FrameFacts
  <2>2. Write(r, frame)
    BY <1>4
  <2> HIDE DEF frame
  <2>3. /\ Len(w) \in Nat /\ Len(written'[r]) = Len(w) + 1 /\ written'[r][Len(w) + 1] = frame
        /\ \A i \in 1..Len(w) : written'[r][i] = w[i]
    BY <2>1, <2>2, WriteFacts
  <2>4. ~Corrupt(r) => Completed(w, n) /\ Len(w) = n + 2
    BY <1>2, <1>4 DEF WrittenInv, n
  <2>5. ASSUME ~Corrupt(r)
        PROVE  Completed(written'[r], n) /\ Len(written'[r]) = n + 3 /\ written'[r][n + 3].type = "END"
    <3>1. Len(written'[r]) = n + 3 /\ written'[r][n + 3] = frame
      BY <1>2, <2>3, <2>4, <2>5
    <3>2. \A i \in 1..n + 2 : written'[r][i] = w[i]
      BY <2>3, <2>4, <2>5
    <3>3. 1 \in 1..n + 2 /\ n + 2 \in 1..n + 2 /\ \A i \in 2..n + 1 : i \in 1..n + 2
      BY <1>2
    <3>4. Begun(w, n) /\ w[n + 2].type = "STREAM_END" /\ w[n + 2].n = n
      BY <2>4, <2>5 DEF Completed
    <3>5. Begun(written'[r], n)
      <4>1. Len(written'[r]) >= n + 1
        BY <1>2, <3>1
      <4>2. written'[r][1].type = "STREAM_START"
        BY <3>2, <3>3, <3>4 DEF Begun
      <4>3. ASSUME NEW i \in 2..n + 1 PROVE written'[r][i].type = "CHUNK" /\ written'[r][i].n = i - 2
        <5>1. written'[r][i] = w[i]
          BY <3>2, <3>3
        <5> QED BY <3>4, <5>1 DEF Begun
      <4> QED BY <4>1, <4>2, <4>3 DEF Begun
    <3> QED BY <1>2, <2>1, <3>1, <3>2, <3>3, <3>4, <3>5 DEF Completed
  <2> QED BY <1>1, <1>4, <2>1, <2>2, <2>5, EndWriteKeeps DEF n
<1> QED BY <1>3, <1>4 DEF Finalize, Goto

LEMMA FailKeeps ==
  ASSUME IInv, NEW r \in Requests, HandlerFails(r)
  PROVE  IInv'
<1> DEFINE frame == Frame("ERR", TRUE, 0)
<1>1. /\ Up /\ pc[r] = "fail" /\ pc' = [pc EXCEPT ![r] = "close"] /\ Write(r, frame)
      /\ UNCHANGED <<input, pendingIncoming, crashed, pendingPeerRequests, senderClosed, feeder, framesChan,
                     inputClosed, chunkIndex, streamStarted>>
  BY DEF HandlerFails, Goto, loop, peering, feeding, emitter
<1>2. frame \in OutFrames /\ frame.type = "ERR"
  <2>1. "ERR" \in OutTypes /\ 0 \in Nat
    BY DEF OutTypes
  <2> QED BY <2>1, FrameFacts
<1> HIDE DEF frame
<1>3. ~Corrupt(r) => written[r] = <<>>
  BY <1>1 DEF IInv, LocalInv, WrittenInv, Silent
<1>4. ~Corrupt(r) => Refused(written'[r])
  BY <1>1, <1>2, <1>3, WriteFacts DEF Refused
<1> QED BY <1>1, <1>2, <1>4, EndWriteKeeps

LEMMA EndKeeps ==
  ASSUME IInv, NEW r \in Requests, HandlerEnds(r)
  PROVE  IInv'
<1>1. /\ Up /\ pc[r] = "close" /\ pc' = [pc EXCEPT ![r] = "done"] /\ inputClosed' = inputClosed \cup {r}
      /\ UNCHANGED <<input, pendingIncoming, crashed, pendingPeerRequests, senderClosed, feeder, framesChan,
                     chunkIndex, streamStarted, written>>
      /\ UNCHANGED <<stdin, body, todo, handler>>
  BY DEF HandlerEnds, Goto, loop, peering, emitter, input
<1>2. pc' \in [Requests -> Places] /\ pc'[r] = "done" /\ \A q \in Requests \ {r} : pc'[q] = pc[q]
  BY <1>1 DEF IInv, TypeOK, Places
<1>3. TypeOK'
  BY <1>1, <1>2 DEF IInv, TypeOK
<1>4. \A q \in Requests \ {r} : Untouched(q)
  BY <1>1, <1>2 DEF Untouched
<1>5. WrittenInv(r) /\ FeederInv(r) /\ ChannelInv(r) /\ pc[r] # "none" /\ pc'[r] # "none"
  BY <1>1, <1>2 DEF IInv, LocalInv
<1>6. ~Ahead(r)' /\ r \notin DOMAIN pendingIncoming' /\ (Corrupt(r)' <=> Corrupt(r))
  BY <1>1, <1>5, HandlerAlone
<1>7. WrittenInv(r)'
  BY <1>1, <1>2, <1>5, <1>6 DEF WrittenInv, Silent
<1>8. FeederInv(r)' /\ ChannelInv(r)'
  BY <1>1, <1>2, <1>5 DEF FeederInv, ChannelInv
<1> QED BY <1>1, <1>3, <1>4, <1>5, <1>7, <1>8, HandlerKeeps

-----------------------------------------------------------------------------
(***************************************************************************)
(* The host                                                                *)
(***************************************************************************)

LEMMA HostFrame ==
  ASSUME IInv, Up, UNCHANGED <<handler, pendingIncoming, peering, feeding, emitter, handling, written, crashed>>,
         stdin' \in Seq(StdinFrames), body' \in [Ids -> Seq(HostFrames)], todo' \in [Ids -> Seq(HostFrames)],
         InputInv',
         \A q \in Requests :
           body'[q] = body[q] /\ (Ahead(q)' => Ahead(q)) /\ \A s : Coming(q, s)' => Coming(q, s)
  PROVE  IInv'
<1>1. UNCHANGED <<pendingPeerRequests, senderClosed, feeder, framesChan, inputClosed, chunkIndex, streamStarted, pc>>
  BY DEF peering, feeding, emitter, handling
<1>2. TypeOK'
  BY <1>1 DEF IInv, TypeOK
<1>3. \A q \in Requests : Untouched(q)
  BY <1>1 DEF Untouched
<1>4. \A q \in Requests : LocalInv(q)'
  BY <1>3, LocalKept DEF IInv
<1>5. PanicHasACause'
  BY NoPanic
<1> QED BY <1>2, <1>4, <1>5 DEF IInv

\* The host closes stdin, or the loop ends.
LEMMA StdinKept ==
  ASSUME IInv, Up, UNCHANGED <<stdin, body, todo>>,
         UNCHANGED <<handler, pendingIncoming, peering, feeding, emitter, handling, written, crashed>>
  PROVE  IInv'
<1>2. /\ stdin' \in Seq(StdinFrames) /\ body' \in [Ids -> Seq(HostFrames)]
      /\ todo' \in [Ids -> Seq(HostFrames)]
  BY DEF IInv, TypeOK
<1>3. \A q \in Requests : (Ahead(q)' <=> Ahead(q)) /\ \A s : Coming(q, s)' <=> Coming(q, s)
  BY DEF Ahead, Coming
<1>4. PeerInv' /\ \A q \in Requests : OneReq(q)' /\ SoundInv(q)'
  BY DEF IInv, InputInv, PeerInv, OneReq, SoundInv, Corrupt
<1>5. \A q \in Requests : DistinctInv(q)'
  BY DEF IInv, InputInv, DistinctInv, Repeats
<1> QED BY <1>2, <1>3, <1>4, <1>5, HostFrame DEF InputInv

LEMMA HostKeeps ==
  ASSUME IInv, Host
  PROVE  IInv'
<1>1. TypeOK /\ InputInv
  BY DEF IInv
<1>2. ASSUME NEW id \in Ids, HostSends(id) PROVE IInv'
  <2>1. /\ Up /\ UNCHANGED <<handler, pendingIncoming, peering, feeding, emitter, handling, written, crashed>>
        /\ UNCHANGED body
    BY <1>2 DEF HostSends, loop
  <2>2. body' \in [Ids -> Seq(HostFrames)]
    BY <1>1, <2>1 DEF TypeOK
  <2> QED BY <1>1, <1>2, <2>1, <2>2, HostWrites, HostFrame
<1>3. ASSUME NEW r \in Requests, NEW response \in PeerBodies, HostAnswers(r, response) PROVE IInv'
  <2>1. /\ Up /\ UNCHANGED <<handler, pendingIncoming, peering, feeding, emitter, handling, written, crashed>>
        /\ UNCHANGED stdin
    BY <1>3 DEF HostAnswers, loop
  <2>2. stdin' \in Seq(StdinFrames)
    BY <1>1, <2>1 DEF TypeOK
  <2> QED BY <1>1, <1>3, <2>1, <2>2, HostBegins, HostFrame
<1>4. ASSUME HostBeats PROVE IInv'
  <2>1. /\ Up /\ UNCHANGED <<handler, pendingIncoming, peering, feeding, emitter, handling, written, crashed>>
        /\ UNCHANGED <<body, todo>>
    BY <1>4 DEF HostBeats
  <2>2. body' \in [Ids -> Seq(HostFrames)] /\ todo' \in [Ids -> Seq(HostFrames)]
    BY <1>1, <2>1 DEF TypeOK
  <2> QED BY <1>1, <1>4, <2>1, <2>2, HostBeating, HostFrame
<1>5. ASSUME HostCloses PROVE IInv'
  <2>1. /\ Up /\ UNCHANGED <<handler, pendingIncoming, peering, feeding, emitter, handling, written, crashed>>
        /\ UNCHANGED <<stdin, body, todo>>
    BY <1>5 DEF HostCloses, loop
  <2> QED BY <2>1, StdinKept
<1> QED BY <1>2, <1>3, <1>4, <1>5 DEF Host

LEMMA EofKeeps ==
  ASSUME IInv, ReadEof
  PROVE  IInv'
<1>1. /\ Up /\ UNCHANGED <<handler, pendingIncoming, peering, feeding, emitter, handling, written, crashed>>
      /\ UNCHANGED <<stdin, body, todo>>
  BY DEF ReadEof, input
<1> QED BY <1>1, StdinKept

-----------------------------------------------------------------------------
(***************************************************************************)
(* The read loop                                                           *)
(***************************************************************************)

\* The next frame is taken.
Takes(f) ==
  /\ Up /\ stdin # <<>> /\ f = Head(stdin) /\ stdin' = Tail(stdin)
  /\ UNCHANGED <<body, todo, handler, chunkIndex, streamStarted, inputClosed, framesChan>>

LEMMA TakeFacts ==
  ASSUME IInv, NEW f, Takes(f)
  PROVE  /\ f \in StdinFrames /\ stdin' \in Seq(StdinFrames) /\ InputInv'
         /\ \A r \in Requests :
              /\ (Ahead(r)' => Ahead(r)) /\ \A s : Coming(r, s)' => Coming(r, s)
              /\ ReqOf(r, f) => Ahead(r) /\ ~Ahead(r)'
              /\ \A s : ~Repeats(body[r]) /\ Of(r, f) /\ Starts(f, s) => Coming(r, s) /\ ~Coming(r, s)'
              /\ (Corrupt(r)' <=> Corrupt(r)) /\ (Repeats(body[r])' <=> Repeats(body[r]))
              /\ Of(r, f) /\ ~f.ok => Corrupt(r)
<1>1. TypeOK /\ InputInv /\ stdin # <<>> /\ stdin' = Tail(stdin) /\ UNCHANGED <<body, todo>> /\ f = Head(stdin)
  BY DEF IInv, Takes
<1>2. f \in StdinFrames /\ InputInv'
  BY <1>1, LoopTakes
<1>3. stdin' \in Seq(StdinFrames)
  BY <1>1 DEF TypeOK
<1> SUFFICES ASSUME NEW r \in Requests
             PROVE  /\ (Ahead(r)' => Ahead(r)) /\ \A s : Coming(r, s)' => Coming(r, s)
                    /\ ReqOf(r, f) => Ahead(r) /\ ~Ahead(r)'
                    /\ \A s : ~Repeats(body[r]) /\ Of(r, f) /\ Starts(f, s) => Coming(r, s) /\ ~Coming(r, s)'
                    /\ (Corrupt(r)' <=> Corrupt(r)) /\ (Repeats(body[r])' <=> Repeats(body[r]))
                    /\ Of(r, f) /\ ~f.ok => Corrupt(r)
  BY <1>2, <1>3
<1>4. /\ (Ahead(r)' => Ahead(r)) /\ \A s : Coming(r, s)' => Coming(r, s)
      /\ ReqOf(r, f) => Ahead(r) /\ ~Ahead(r)'
      /\ \A s : ~Repeats(body[r]) /\ Of(r, f) /\ Starts(f, s) => Coming(r, s) /\ ~Coming(r, s)'
  BY <1>1, LoopTakes
<1>5. (Corrupt(r)' <=> Corrupt(r)) /\ (Repeats(body[r])' <=> Repeats(body[r]))
  BY <1>1 DEF Corrupt, Repeats
<1>6. Of(r, f) /\ ~f.ok => Corrupt(r)
  <2>1. 1 \in DOMAIN stdin /\ f = stdin[1]
    BY <1>1 DEF TypeOK
  <2> QED BY <1>1, <2>1 DEF InputInv, SoundInv
<1> QED BY <1>4, <1>5, <1>6

\* The channels of peer requests are closed once, together with the registration.
Closes(R) ==
  /\ R \subseteq pendingPeerRequests
  /\ pendingPeerRequests' = pendingPeerRequests \ R /\ senderClosed' = senderClosed \cup R

\* A frame that leaves the requests alone, but for an ERR in answer to a corrupt one.
LEMMA QuietKeeps ==
  ASSUME IInv, NEW f, Takes(f), NEW R, Closes(R), UNCHANGED <<pendingIncoming, feeder, pc>>, ~crashed',
         written' \in [Ids -> Seq(OutFrames)],
         \A r \in Requests : written'[r] = written[r] \/ Corrupt(r)
  PROVE  IInv'
<1>1. /\ stdin' \in Seq(StdinFrames) /\ InputInv'
      /\ \A r \in Requests :
           /\ (Ahead(r)' => Ahead(r)) /\ \A s : Coming(r, s)' => Coming(r, s)
           /\ (Corrupt(r)' <=> Corrupt(r)) /\ (Repeats(body[r])' <=> Repeats(body[r]))
  BY TakeFacts
<1>2. TypeOK'
  BY <1>1 DEF IInv, TypeOK, Takes, Closes
<1>3. PanicHasACause'
  BY DEF PanicHasACause
<1> SUFFICES ASSUME NEW r \in Requests PROVE LocalInv(r)'
  BY <1>1, <1>2, <1>3 DEF IInv
<1>4. CollectInv(r) /\ FreshInv(r) /\ WrittenInv(r) /\ FeederInv(r) /\ ChannelInv(r)
  BY DEF IInv, LocalInv
<1>5. CollectInv(r)'
  BY <1>1, <1>4 DEF CollectInv
<1>6. FreshInv(r)'
  <2> SUFFICES ASSUME ~Repeats(body[r]), r \in DOMAIN pendingIncoming,
                      NEW k \in 1..Len(pendingIncoming[r]), Coming(r, pendingIncoming[r][k].id)'
               PROVE  FALSE
    BY <1>1 DEF FreshInv
  <2>1. PICK s : s = pendingIncoming'[r][k].id
    OBVIOUS
  <2>2. Coming(r, s)'
    BY <2>1
  <2>3. Coming(r, s) /\ s = pendingIncoming[r][k].id
    BY <1>1, <2>1, <2>2
  <2> QED BY <1>4, <2>3 DEF FreshInv
<1>7. WrittenInv(r)'
  BY <1>1, <1>4 DEF WrittenInv, Takes
<1>8. FeederInv(r)'
  BY <1>4 DEF FeederInv, Takes
<1>9. ChannelInv(r)'
  BY <1>4 DEF ChannelInv, Closes
<1> QED BY <1>5, <1>6, <1>7, <1>8, <1>9 DEF LocalInv

\* The other requests, when the frame concerns r.
LEMMA OthersKept ==
  ASSUME IInv, NEW f, Takes(f), NEW r,
         \A q \in Requests \ {r} :
           /\ Untouched(q)
           /\ q \in DOMAIN pendingIncoming' =>
                q \in DOMAIN pendingIncoming /\ pendingIncoming'[q] = pendingIncoming[q]
  PROVE  \A q \in Requests \ {r} : LocalInv(q)'
<1> SUFFICES ASSUME NEW q \in Requests \ {r} PROVE LocalInv(q)'
  OBVIOUS
<1>1. (Ahead(q)' => Ahead(q)) /\ \A s : Coming(q, s)' => Coming(q, s)
  BY TakeFacts
<1>2. LocalInv(q) /\ body'[q] = body[q] /\ handler'[q] = handler[q]
  BY DEF IInv, Takes
<1> QED BY <1>1, <1>2, LocalKept

LEMMA FrameOf ==
  ASSUME IInv, NEW f, Takes(f), f.type # "HEARTBEAT"
  PROVE  /\ f.rid \in Ids /\ Of(f.rid, f) /\ f.stream \in STRING /\ f.data \in Int
         /\ f.rid \in DOMAIN pendingIncoming => f.rid \in Requests
         /\ f.type = "REQ" => f.rid \in Requests
<1>1. f \in StdinFrames /\ InputInv
  BY TakeFacts DEF IInv
<1>2. f.rid \in Ids /\ f.stream \in STRING /\ f.data \in Int
  BY <1>1 DEF StdinFrames
<1>3. f.type = "REQ" => f.rid \in Requests
  <2>1. 1 \in DOMAIN stdin /\ f = stdin[1]
    BY DEF Takes, IInv, TypeOK
  <2> QED BY <1>1, <2>1 DEF InputInv, PeerInv
<1> QED BY <1>2, <1>3 DEF Of, IInv, TypeOK

\* A request under collection gets more, and no stream twice.
LEMMA CollectKeeps ==
  ASSUME IInv, NEW f, Takes(f), f.type # "HEARTBEAT", NEW r, r = f.rid, r \in DOMAIN pendingIncoming,
         UNCHANGED <<peering, feeder, pc, written, crashed>>,
         DOMAIN pendingIncoming' = DOMAIN pendingIncoming,
         \A q \in DOMAIN pendingIncoming \ {r} : pendingIncoming'[q] = pendingIncoming[q],
         pendingIncoming'[r] \in Seq(Streams),
         \A k \in 1..Len(pendingIncoming'[r]) :
           \/ \E j \in 1..Len(pendingIncoming[r]) : pendingIncoming'[r][k].id = pendingIncoming[r][j].id
           \/ Starts(f, pendingIncoming'[r][k].id)
  PROVE  IInv'
<1>1. r \in Requests /\ Of(r, f)
  BY FrameOf
<1>2. UNCHANGED <<pendingPeerRequests, senderClosed>> /\ Up
  BY DEF peering, Takes
<1>3. stdin' \in Seq(StdinFrames) /\ InputInv'
  BY TakeFacts
<1>4. TypeOK'
  BY <1>2, <1>3 DEF IInv, TypeOK, Takes
<1>5. PanicHasACause'
  BY <1>2, NoPanic
<1>6. \A q \in Requests \ {r} : LocalInv(q)'
  BY <1>2, OthersKept DEF Untouched, Takes
<1>7. CollectInv(r) /\ FreshInv(r) /\ WrittenInv(r) /\ FeederInv(r) /\ ChannelInv(r)
  BY <1>1 DEF IInv, LocalInv
<1>8. /\ (Ahead(r)' => Ahead(r)) /\ \A s : Coming(r, s)' => Coming(r, s)
      /\ \A s : ~Repeats(body[r]) /\ Of(r, f) /\ Starts(f, s) => ~Coming(r, s)'
      /\ (Corrupt(r)' <=> Corrupt(r)) /\ (Repeats(body[r])' <=> Repeats(body[r]))
  BY <1>1, TakeFacts
<1>9. CollectInv(r)'
  BY <1>7, <1>8 DEF CollectInv
<1>10. FreshInv(r)'
  <2> SUFFICES ASSUME ~Repeats(body[r]), NEW k \in 1..Len(pendingIncoming'[r]),
                      Coming(r, pendingIncoming[r][k].id)'
               PROVE  FALSE
    BY <1>8 DEF FreshInv
  <2>1. PICK s : s = pendingIncoming'[r][k].id
    OBVIOUS
  <2>2. Coming(r, s)'
    BY <2>1
  <2>3. ASSUME NEW j \in 1..Len(pendingIncoming[r]), s = pendingIncoming[r][j].id PROVE FALSE
    BY <1>7, <1>8, <2>2, <2>3 DEF FreshInv
  <2>4. ~Starts(f, s)
    BY <1>1, <1>8, <2>2
  <2> QED BY <2>1, <2>3, <2>4
<1>11. WrittenInv(r)'
  BY <1>7, <1>8 DEF WrittenInv, Takes
<1>12. FeederInv(r)' /\ ChannelInv(r)'
  BY <1>2, <1>7 DEF FeederInv, ChannelInv, Takes
<1> QED BY <1>3, <1>4, <1>5, <1>6, <1>9, <1>10, <1>11, <1>12 DEF IInv, LocalInv

\* A request is refused: nothing of it is kept, and ERR is its answer.
LEMMA RefuseKeeps ==
  ASSUME IInv, NEW f, Takes(f), f.type # "HEARTBEAT", NEW r \in Requests, r = f.rid,
         NEW frame \in OutFrames, frame.type = "ERR", Write(r, frame),
         UNCHANGED <<feeder, pc, pendingPeerRequests, senderClosed>>,
         \/ r \in DOMAIN pendingIncoming /\ pendingIncoming' = Drop(r)
         \/ f.type = "REQ" /\ pendingIncoming' = pendingIncoming
  PROVE  TypeOK' /\ InputInv' /\ \A q \in Requests : LocalInv(q)'
<1>1. Of(r, f)
  BY DEF Of
<1>2. stdin' \in Seq(StdinFrames) /\ InputInv'
  BY TakeFacts
<1>3. /\ written' \in [Ids -> Seq(OutFrames)] /\ \A q \in Requests \ {r} : written'[q] = written[q]
      /\ written[r] = <<>> => Len(written'[r]) = 1 /\ written'[r][1] = frame
  BY WriteFacts
<1>4. /\ (Ahead(r)' => Ahead(r))
      /\ ReqOf(r, f) => Ahead(r) /\ ~Ahead(r)'
      /\ (Corrupt(r)' <=> Corrupt(r))
  BY TakeFacts
<1>5. CollectInv(r) /\ WrittenInv(r) /\ FeederInv(r) /\ ChannelInv(r)
  BY DEF IInv, LocalInv
<1>6. /\ \A q \in DOMAIN pendingIncoming' : q \in DOMAIN pendingIncoming /\ pendingIncoming'[q] = pendingIncoming[q]
      /\ r \notin DOMAIN pendingIncoming' /\ ~Ahead(r)' /\ pc[r] = "none"
      /\ ~Corrupt(r) => written[r] = <<>>
  BY <1>4, <1>5 DEF Drop, CollectInv, WrittenInv, ReqOf
<1>7. TypeOK'
  BY <1>2, <1>3, <1>6 DEF IInv, TypeOK, Takes
<1>8. \A q \in Requests \ {r} : LocalInv(q)'
  <2>1. \A q \in Requests \ {r} : Untouched(q)
    BY <1>3 DEF Untouched, Takes
  <2> QED BY <1>6, <2>1, OthersKept
<1>9. CollectInv(r)' /\ FreshInv(r)'
  BY <1>6 DEF CollectInv, FreshInv
<1>10. WrittenInv(r)'
  <2>1. ~Corrupt(r) => Refused(written'[r])
    BY <1>3, <1>6 DEF Refused
  <2>2. r \notin streamStarted /\ chunkIndex[r] = 0
    BY <1>5, <1>6 DEF WrittenInv, Silent
  <2> QED BY <1>4, <1>6, <2>1, <2>2 DEF WrittenInv, Silent, Takes
<1>11. FeederInv(r)' /\ ChannelInv(r)'
  BY <1>5 DEF FeederInv, ChannelInv, Takes
<1> QED BY <1>2, <1>7, <1>8, <1>9, <1>10, <1>11 DEF LocalInv

\* A handler is started for a collected request: its feeder has all its streams to push.
LEMMA InputFacts ==
  ASSUME NEW streams \in Seq(Streams)
  PROVE  /\ InputOf(streams) \in Seq(Seq(Items))
         /\ \A k \in 1..Len(InputOf(streams)) : InputOf(streams)[k] # <<>>
         /\ \A k \in 1..Len(InputOf(streams)) : \A i \in 1..Len(InputOf(streams)[k]) :
              InputOf(streams)[k][i].type = "END" => k = Len(InputOf(streams)) /\ Len(InputOf(streams)[k]) = 1
<1> DEFINE n == Len(streams)
           parts == [k \in DOMAIN streams |-> StreamItems(streams[k])]
           last == <<Item("END", "none", 0)>>
<1>1. n \in Nat /\ DOMAIN streams = 1..n
  OBVIOUS
<1>2. ASSUME NEW s \in Streams
      PROVE  /\ StreamItems(s) \in Seq(Items) /\ StreamItems(s) # <<>>
             /\ \A i \in 1..Len(StreamItems(s)) : StreamItems(s)[i].type # "END"
  <2> DEFINE chunks == [i \in DOMAIN s.chunks |-> Item("CHUNK", s.id, s.chunks[i])]
             start == Item("STREAM_START", s.id, 0)
             stop == Item("STREAM_END", s.id, Len(s.chunks))
             m == Len(s.chunks)
  <2>1. s.chunks \in Seq(Int) /\ s.id \in STRING /\ m \in Nat /\ DOMAIN s.chunks = 1..m
    BY DEF Streams
  <2>2. start \in Items /\ start.type # "END" /\ stop \in Items /\ stop.type # "END"
    BY <2>1 DEF Item, Items
  <2>3. chunks \in Seq(Items) /\ Len(chunks) = m /\ \A i \in 1..m : chunks[i].type # "END"
    <3>1. \A i \in 1..m : Item("CHUNK", s.id, s.chunks[i]) \in Items /\ Item("CHUNK", s.id, s.chunks[i]).type # "END"
      BY <2>1 DEF Item, Items
    <3>2. chunks \in [1..m -> Items]
      BY <2>1, <3>1
    <3>3. chunks \in Seq(Items) /\ Len(chunks) = m
      BY <2>1, <3>2
    <3> QED BY <2>1, <3>1, <3>3
  <2> HIDE DEF chunks, start, stop, m
  <2>4. StreamItems(s) = (<<start>> \o chunks) \o <<stop>>
    BY DEF StreamItems, chunks, start, stop
  <2> DEFINE front == <<start>> \o chunks
  <2>5. /\ front \in Seq(Items) /\ Len(front) = m + 1
        /\ front[1] = start /\ \A i \in 2..m + 1 : front[i] = chunks[i - 1]
    BY <2>1, <2>2, <2>3
  <2> HIDE DEF front
  <2>6. /\ front \o <<stop>> \in Seq(Items) /\ Len(front \o <<stop>>) = m + 2
        /\ (front \o <<stop>>)[m + 2] = stop /\ \A i \in 1..m + 1 : (front \o <<stop>>)[i] = front[i]
    BY <2>1, <2>2, <2>5
  <2>7. \A i \in 1..m + 1 : front[i].type # "END"
    <3> SUFFICES ASSUME NEW i \in 2..m + 1 PROVE front[i].type # "END"
      BY <2>1, <2>2, <2>5
    <3>1. i - 1 \in 1..m /\ front[i] = chunks[i - 1]
      BY <2>1, <2>5
    <3> QED BY <2>3, <3>1
  <2>8. \A i \in 1..m + 2 : (front \o <<stop>>)[i].type # "END"
    BY <2>1, <2>2, <2>6, <2>7
  <2>9. front \o <<stop>> # <<>>
    BY <2>1, <2>6
  <2> QED BY <2>4, <2>6, <2>8, <2>9 DEF front
<1>3. \A k \in 1..n : streams[k] \in Streams
  OBVIOUS
<1>4. /\ parts \in Seq(Seq(Items)) /\ Len(parts) = n
      /\ \A k \in 1..n : parts[k] # <<>> /\ \A i \in 1..Len(parts[k]) : parts[k][i].type # "END"
  <2>1. \A k \in 1..n : parts[k] = StreamItems(streams[k])
    BY <1>1
  <2>2. parts \in [1..n -> Seq(Items)]
    BY <1>1, <1>2, <1>3
  <2>3. parts \in Seq(Seq(Items)) /\ Len(parts) = n
    BY <1>1, <2>2
  <2> QED BY <1>2, <1>3, <2>1, <2>3
<1>5. last \in Seq(Items) /\ Len(last) = 1 /\ last # <<>>
  <2>1. Item("END", "none", 0) \in Items
    BY DEF Item, Items
  <2> QED BY <2>1
<1>6. InputOf(streams) = Append(parts, last)
  BY DEF InputOf
<1> HIDE DEF parts, last, n
<1>7. /\ Append(parts, last) \in Seq(Seq(Items)) /\ Len(Append(parts, last)) = n + 1
      /\ Append(parts, last)[n + 1] = last /\ \A k \in 1..n : Append(parts, last)[k] = parts[k]
  BY <1>1, <1>4, <1>5
<1>8. \A k \in 1..n + 1 : k = n + 1 \/ k \in 1..n
  BY <1>1
<1>9. \A k \in 1..n + 1 : Append(parts, last)[k] # <<>>
  BY <1>4, <1>5, <1>7, <1>8
<1>10. \A k \in 1..n + 1 : \A i \in 1..Len(Append(parts, last)[k]) :
         Append(parts, last)[k][i].type = "END" => k = n + 1 /\ Len(Append(parts, last)[k]) = 1
  BY <1>4, <1>5, <1>7, <1>8
<1> QED BY <1>6, <1>7, <1>9, <1>10

LEMMA StartKeeps ==
  ASSUME IInv, NEW f, Takes(f), f.type # "HEARTBEAT", NEW r \in Requests, r = f.rid, r \in DOMAIN pendingIncoming,
         pendingIncoming' = Drop(r), feeder' = [feeder EXCEPT ![r] = InputOf(pendingIncoming[r])],
         pc' = [pc EXCEPT ![r] = "read"],
         UNCHANGED <<pendingPeerRequests, senderClosed, written, crashed>>
  PROVE  IInv'
<1> DEFINE parts == InputOf(pendingIncoming[r])
<1>1. /\ parts \in Seq(Seq(Items)) /\ \A k \in 1..Len(parts) : parts[k] # <<>>
      /\ \A k \in 1..Len(parts) : \A i \in 1..Len(parts[k]) :
           parts[k][i].type = "END" => k = Len(parts) /\ Len(parts[k]) = 1
  <2>1. pendingIncoming[r] \in Seq(Streams)
    BY DEF IInv, TypeOK
  <2> QED BY <2>1, InputFacts
<1>2. stdin' \in Seq(StdinFrames) /\ InputInv' /\ (Ahead(r)' => Ahead(r)) /\ (Corrupt(r)' <=> Corrupt(r))
  BY TakeFacts
<1>3. /\ feeder' \in [Requests -> Seq(Seq(Items))] /\ feeder'[r] = parts
      /\ \A q \in Requests \ {r} : feeder'[q] = feeder[q]
  <2> HIDE DEF parts
  <2>1. feeder' = [feeder EXCEPT ![r] = parts]
    BY DEF parts
  <2> QED BY <1>1, <2>1 DEF IInv, TypeOK
<1> HIDE DEF parts
<1>4. /\ pc' \in [Requests -> Places] /\ pc'[r] = "read" /\ \A q \in Requests \ {r} : pc'[q] = pc[q]
  BY DEF IInv, TypeOK, Places, Silent
<1>5. /\ \A q \in DOMAIN pendingIncoming' : q \in DOMAIN pendingIncoming /\ pendingIncoming'[q] = pendingIncoming[q]
      /\ r \notin DOMAIN pendingIncoming'
  BY DEF Drop
<1>6. TypeOK'
  BY <1>2, <1>3, <1>4, <1>5 DEF IInv, TypeOK, Takes
<1>7. \A q \in Requests \ {r} : LocalInv(q)'
  <2>1. \A q \in Requests \ {r} : Untouched(q)
    BY <1>3, <1>4 DEF Untouched, Takes
  <2> QED BY <1>5, <2>1, OthersKept
<1>8. CollectInv(r) /\ WrittenInv(r) /\ FeederInv(r) /\ ChannelInv(r)
  BY DEF IInv, LocalInv
<1>9. pc[r] = "none" /\ ~Ahead(r)' /\ (~Corrupt(r) => written[r] = <<>>)
  BY <1>2, <1>8 DEF CollectInv, WrittenInv
<1>10. CollectInv(r)' /\ FreshInv(r)'
  BY <1>5, <1>9 DEF CollectInv, FreshInv
<1>11. WrittenInv(r)'
  BY <1>2, <1>4, <1>5, <1>8, <1>9 DEF WrittenInv, Silent, Takes
<1>12. FeederInv(r)'
  <2>1. framesChan[r] = <<>> /\ r \notin inputClosed
    BY <1>8, <1>9 DEF FeederInv
  <2>2. \A i \in 1..Len(framesChan[r]) : FALSE
    BY <2>1
  <2> QED BY <1>1, <1>3, <1>4, <2>1, <2>2 DEF FeederInv, Takes
<1>13. ChannelInv(r)'
  BY <1>8, <1>9 DEF ChannelInv
<1>14. PanicHasACause'
  BY NoPanic DEF Takes
<1> QED BY <1>2, <1>6, <1>7, <1>10, <1>11, <1>12, <1>13, <1>14 DEF IInv, LocalInv

\* A request is collected from its REQ on.
LEMMA ReqKeeps ==
  ASSUME IInv, NEW f, Takes(f), f.type = "REQ", NEW r, r = f.rid, pendingIncoming' = Set(r, <<>>),
         UNCHANGED <<feeder, pc, pendingPeerRequests, senderClosed, written, crashed>>
  PROVE  IInv'
<1>1. r \in Requests /\ Of(r, f) /\ ReqOf(r, f)
  BY FrameOf DEF ReqOf
<1>2. stdin' \in Seq(StdinFrames) /\ InputInv' /\ Ahead(r) /\ ~Ahead(r)' /\ (Corrupt(r)' <=> Corrupt(r))
  BY <1>1, TakeFacts
<1>3. /\ DOMAIN pendingIncoming' = DOMAIN pendingIncoming \cup {r} /\ pendingIncoming'[r] = <<>>
      /\ \A q \in DOMAIN pendingIncoming \ {r} : pendingIncoming'[q] = pendingIncoming[q]
  BY DEF Set
<1>4. <<>> \in Seq(Streams)
  OBVIOUS
<1>5. TypeOK'
  BY <1>1, <1>2, <1>3, <1>4 DEF IInv, TypeOK, Takes
<1>6. \A q \in Requests \ {r} : LocalInv(q)'
  <2>1. \A q \in Requests \ {r} : Untouched(q)
    BY DEF Untouched, Takes
  <2> QED BY <1>3, <2>1, OthersKept
<1>7. CollectInv(r) /\ WrittenInv(r) /\ FeederInv(r) /\ ChannelInv(r)
  BY <1>1 DEF IInv, LocalInv
<1>8. pc[r] = "none" /\ (~Corrupt(r) => written[r] = <<>>)
  BY <1>2, <1>7 DEF CollectInv, WrittenInv
<1>9. CollectInv(r)'
  BY <1>2, <1>8 DEF CollectInv
<1>10. FreshInv(r)'
  <2>1. Len(pendingIncoming'[r]) = 0
    BY <1>3
  <2> QED BY <2>1 DEF FreshInv
<1>11. WrittenInv(r)'
  BY <1>2, <1>7, <1>8 DEF WrittenInv, Silent, Takes
<1>12. FeederInv(r)' /\ ChannelInv(r)'
  BY <1>7 DEF FeederInv, ChannelInv, Takes
<1>13. PanicHasACause'
  BY NoPanic DEF Takes
<1> QED BY <1>2, <1>5, <1>6, <1>9, <1>10, <1>11, <1>12, <1>13 DEF IInv, LocalInv

\* No peer response is sent on a closed channel.
LEMMA RegisteredFacts ==
  ASSUME IInv, NEW f
  PROVE  /\ Registered(f) \subseteq pendingPeerRequests /\ Registered(f) \cap senderClosed = {}
         /\ Closes({}) <=> UNCHANGED <<pendingPeerRequests, senderClosed>>
<1>1. Registered(f) \subseteq pendingPeerRequests /\ pendingPeerRequests \subseteq Requests
  BY DEF Registered, IInv, TypeOK
<1>2. \A r \in Requests : ChannelInv(r)
  BY DEF IInv, LocalInv
<1>3. Registered(f) \cap senderClosed = {}
  BY <1>1, <1>2 DEF ChannelInv
<1>4. Closes({}) <=> UNCHANGED <<pendingPeerRequests, senderClosed>>
  BY DEF Closes
<1> QED BY <1>1, <1>3, <1>4

LEMMA WrittenTyped ==
  ASSUME IInv, NEW id \in Ids, NEW frame \in OutFrames, Write(id, frame)
  PROVE  written' \in [Ids -> Seq(OutFrames)] /\ \A q \in Requests \ {id} : written'[q] = written[q]
<1>1. written \in [Ids -> Seq(OutFrames)] /\ Requests \subseteq Ids
  BY IdsFacts DEF IInv, TypeOK
<1>2. Append(written[id], frame) \in Seq(OutFrames)
  BY <1>1
<1> QED BY <1>1, <1>2 DEF Write

\* A frame for the handler that waits for it, or for nobody.
LEMMA ForwardKeeps ==
  ASSUME IInv, NEW f, Takes(f), Forward(f), NEW R, R \in {{}, Registered(f)}, Closes(R),
         UNCHANGED <<pendingIncoming, feeder, pc, written>>
  PROVE  IInv'
<1>1. ~crashed'
  BY RegisteredFacts DEF Forward
<1>2. written' \in [Ids -> Seq(OutFrames)] /\ \A r \in Requests : written'[r] = written[r]
  BY DEF IInv, TypeOK
<1> QED BY <1>1, <1>2, QuietKeeps

LEMMA HandleReqKeeps ==
  ASSUME IInv, NEW f, Takes(f), HandleReq(f)
  PROVE  IInv'
<1> DEFINE frame == Frame("ERR", TRUE, 0)
<1>1. /\ f.type = "REQ" /\ UNCHANGED <<pendingPeerRequests, senderClosed, feeder, pc, crashed>> /\ Up
      /\ f.rid \in Requests
  BY FrameOf DEF HandleReq, peering, feeding, handling, Takes
<1>2. frame \in OutFrames /\ frame.type = "ERR"
  <2>1. "ERR" \in OutTypes /\ 0 \in Nat
    BY DEF OutTypes
  <2> QED BY <2>1, FrameFacts
<1>3. ASSUME Write(f.rid, frame), UNCHANGED pendingIncoming PROVE IInv'
  <2> HIDE DEF frame
  <2>1. TypeOK' /\ InputInv' /\ \A q \in Requests : LocalInv(q)'
    BY <1>1, <1>2, <1>3, RefuseKeeps
  <2> QED BY <1>1, <2>1, NoPanic DEF IInv
<1>4. ASSUME pendingIncoming' = Set(f.rid, <<>>), UNCHANGED written PROVE IInv'
  BY <1>1, <1>4, ReqKeeps
<1> QED BY <1>3, <1>4 DEF HandleReq

\* FAIL HARD leaves nothing to do of the request.
LEMMA FailHardKeeps ==
  ASSUME IInv, NEW f, Takes(f), f.type # "HEARTBEAT", Pending(f), FailHard(f),
         UNCHANGED <<feeder, pc, pendingPeerRequests, senderClosed>>
  PROVE  TypeOK' /\ InputInv' /\ \A q \in Requests : LocalInv(q)'
<1> DEFINE frame == Frame("ERR", FALSE, 0)
<1>1. frame \in OutFrames /\ frame.type = "ERR"
  <2>1. "ERR" \in OutTypes /\ 0 \in Nat
    BY DEF OutTypes
  <2> QED BY <2>1, FrameFacts
<1>2. f.rid \in Requests /\ f.rid \in DOMAIN pendingIncoming
  BY FrameOf DEF Pending
<1>3. pendingIncoming' = Drop(f.rid) /\ Write(f.rid, frame)
  BY DEF FailHard
<1> HIDE DEF frame
<1> QED BY <1>1, <1>2, <1>3, RefuseKeeps

\* A stream gets a chunk, or is complete.
LEMMA StreamGrows ==
  ASSUME NEW p \in Seq(Streams), NEW i \in DOMAIN p, NEW x \in Streams, x.id = p[i].id
  PROVE  /\ [p EXCEPT ![i] = x] \in Seq(Streams)
         /\ \A k \in 1..Len([p EXCEPT ![i] = x]) :
              k \in 1..Len(p) /\ [p EXCEPT ![i] = x][k].id = p[k].id
<1>1. [p EXCEPT ![i] = x] \in Seq(Streams) /\ Len([p EXCEPT ![i] = x]) = Len(p)
  OBVIOUS
<1>2. \A k \in 1..Len(p) : [p EXCEPT ![i] = x][k] = IF k = i THEN x ELSE p[k]
  OBVIOUS
<1> QED BY <1>1, <1>2

LEMMA StreamForms ==
  ASSUME NEW s \in Streams
  PROVE  /\ [s EXCEPT !.complete = TRUE] \in Streams /\ [s EXCEPT !.complete = TRUE].id = s.id
         /\ \A d \in Int : /\ [s EXCEPT !.chunks = Append(@, d)] \in Streams
                           /\ [s EXCEPT !.chunks = Append(@, d)].id = s.id
<1>1. \A d \in Int : s.chunks \in Seq(Int) /\ Append(s.chunks, d) \in Seq(Int)
  BY DEF Streams
<1> QED BY <1>1 DEF Streams

LEMMA HandleChunkKeeps ==
  ASSUME IInv, NEW f, Takes(f), HandleChunk(f)
  PROVE  IInv'
<1>1. /\ f.type = "CHUNK" /\ UNCHANGED <<pendingPeerRequests, senderClosed, feeder, pc>> /\ Up
      /\ f.rid \in Ids /\ Of(f.rid, f) /\ f.data \in Int
      /\ f.rid \in DOMAIN pendingIncoming => f.rid \in Requests
  BY FrameOf DEF HandleChunk, feeding, handling, Takes
<1>2. Closes({})
  BY <1>1, RegisteredFacts
<1>3. ASSUME ~f.ok, Write(f.rid, Frame("ERR", FALSE, 0)), UNCHANGED <<pendingIncoming, sender, crashed>>
      PROVE  IInv'
  <2> DEFINE frame == Frame("ERR", FALSE, 0)
  <2>1. frame \in OutFrames
    <3>1. "ERR" \in OutTypes /\ 0 \in Nat
      BY DEF OutTypes
    <3> QED BY <3>1, FrameFacts
  <2>2. Write(f.rid, frame)
    BY <1>3
  <2> HIDE DEF frame
  <2>3. written' \in [Ids -> Seq(OutFrames)] /\ \A q \in Requests \ {f.rid} : written'[q] = written[q]
    BY <1>1, <2>1, <2>2, WrittenTyped
  <2>4. f.rid \in Requests => Corrupt(f.rid)
    BY <1>1, <1>3, TakeFacts
  <2>5. ~crashed'
    BY <1>1, <1>3 DEF Up
  <2> QED BY <1>1, <1>2, <1>3, <2>3, <2>4, <2>5, QuietKeeps
<1>4. ASSUME Pending(f), FailHard(f), UNCHANGED <<sender, crashed>> PROVE IInv'
  <2>1. TypeOK' /\ InputInv' /\ \A q \in Requests : LocalInv(q)'
    BY <1>1, <1>4, FailHardKeeps
  <2> QED BY <1>1, <1>4, <2>1, NoPanic DEF IInv
<1>5. ASSUME Pending(f), NEW i \in At(f),
             pendingIncoming' = [pendingIncoming EXCEPT ![f.rid][i].chunks = Append(@, f.data)],
             UNCHANGED <<written, sender, crashed>>
      PROVE  IInv'
  <2> DEFINE r == f.rid
             p == pendingIncoming[r]
             x == [p[i] EXCEPT !.chunks = Append(@, f.data)]
  <2>1. r \in DOMAIN pendingIncoming /\ i \in DOMAIN p
    BY <1>5 DEF Pending, At
  <2>2. p \in Seq(Streams) /\ p[i] \in Streams
    BY <2>1 DEF IInv, TypeOK
  <2>3. x \in Streams /\ x.id = p[i].id
    BY <1>1, <2>2, StreamForms
  <2>4. pendingIncoming' = [pendingIncoming EXCEPT ![r] = [p EXCEPT ![i] = x]]
    BY <1>5
  <2> HIDE DEF p, x
  <2>5. /\ [p EXCEPT ![i] = x] \in Seq(Streams)
        /\ \A k \in 1..Len([p EXCEPT ![i] = x]) : k \in 1..Len(p) /\ [p EXCEPT ![i] = x][k].id = p[k].id
    BY <2>1, <2>2, <2>3, StreamGrows
  <2>6. /\ DOMAIN pendingIncoming' = DOMAIN pendingIncoming /\ pendingIncoming'[r] = [p EXCEPT ![i] = x]
        /\ \A q \in DOMAIN pendingIncoming \ {r} : pendingIncoming'[q] = pendingIncoming[q]
    BY <2>1, <2>4
  <2>7. \A k \in 1..Len(pendingIncoming'[r]) :
          \/ \E j \in 1..Len(pendingIncoming[r]) : pendingIncoming'[r][k].id = pendingIncoming[r][j].id
          \/ Starts(f, pendingIncoming'[r][k].id)
    BY <2>5, <2>6 DEF p
  <2>8. UNCHANGED <<peering, feeder, pc, written, crashed>> /\ pendingIncoming'[r] \in Seq(Streams)
    BY <1>1, <1>5, <2>5, <2>6 DEF peering
  <2>9. f.type # "HEARTBEAT"
    BY <1>1
  <2> HIDE DEF r
  <2>10. r = f.rid
    BY DEF r
  <2> QED BY <2>1, <2>6, <2>7, <2>8, <2>9, <2>10, CollectKeeps
<1>6. ASSUME Forward(f), UNCHANGED <<pendingIncoming, written>> PROVE IInv'
  BY <1>1, <1>2, <1>6, ForwardKeeps
<1> QED BY <1>3, <1>4, <1>5, <1>6 DEF HandleChunk

LEMMA HandleStreamStartKeeps ==
  ASSUME IInv, NEW f, Takes(f), HandleStreamStart(f)
  PROVE  IInv'
<1>1. /\ f.type = "STREAM_START" /\ UNCHANGED <<pendingPeerRequests, senderClosed, feeder, pc>> /\ Up
      /\ f.rid \in Ids /\ Of(f.rid, f) /\ f.stream \in STRING
      /\ f.rid \in DOMAIN pendingIncoming => f.rid \in Requests
  BY FrameOf DEF HandleStreamStart, feeding, handling, Takes
<1>2. Closes({})
  BY <1>1, RegisteredFacts
<1>3. ASSUME Pending(f), At(f) # {}, FailHard(f) PROVE IInv'
  <2>1. TypeOK' /\ InputInv' /\ \A q \in Requests : LocalInv(q)'
    BY <1>1, <1>3, FailHardKeeps
  <2>2. f.rid \in Requests /\ f.rid \in DOMAIN pendingIncoming
    BY <1>1, <1>3 DEF Pending
  <2>3. PICK i \in 1..Len(pendingIncoming[f.rid]) : pendingIncoming[f.rid][i].id = f.stream
    <3>1. pendingIncoming[f.rid] \in Seq(Streams)
      BY <2>2 DEF IInv, TypeOK
    <3>2. DOMAIN pendingIncoming[f.rid] = 1..Len(pendingIncoming[f.rid])
      BY <3>1
    <3> QED BY <1>3, <3>2 DEF At
  <2>4. Repeats(body[f.rid])
    <3> SUFFICES ASSUME ~Repeats(body[f.rid]) PROVE FALSE
      OBVIOUS
    <3>1. ~Coming(f.rid, f.stream)
      BY <2>2, <2>3 DEF IInv, LocalInv, FreshInv
    <3>2. Coming(f.rid, f.stream)
      BY <1>1, <2>2, TakeFacts DEF Starts
    <3> QED BY <3>1, <3>2
  <2>5. Repeats(body[f.rid])'
    BY <2>2, <2>4, TakeFacts
  <2>6. PanicHasACause'
    <3>1. body' = body
      BY DEF Takes
    <3> QED BY <2>2, <2>4, <3>1 DEF PanicHasACause
  <2> QED BY <2>1, <2>6 DEF IInv
<1>4. ASSUME Pending(f),
             pendingIncoming' = [pendingIncoming EXCEPT ![f.rid] =
               Append(@, [id |-> f.stream, chunks |-> <<>>, complete |-> FALSE])],
             UNCHANGED <<written, sender, crashed>>
      PROVE  IInv'
  <2> DEFINE r == f.rid
             p == pendingIncoming[r]
             x == [id |-> f.stream, chunks |-> <<>>, complete |-> FALSE]
  <2>1. r \in DOMAIN pendingIncoming
    BY <1>4 DEF Pending
  <2>2. p \in Seq(Streams)
    BY <2>1 DEF IInv, TypeOK
  <2>3. x \in Streams /\ x.id = f.stream
    BY <1>1 DEF Streams
  <2>4. pendingIncoming' = [pendingIncoming EXCEPT ![r] = Append(p, x)]
    BY <1>4
  <2> HIDE DEF p, x
  <2>5. /\ Append(p, x) \in Seq(Streams) /\ Len(p) \in Nat /\ Len(Append(p, x)) = Len(p) + 1
        /\ Append(p, x)[Len(p) + 1] = x /\ \A k \in 1..Len(p) : Append(p, x)[k] = p[k]
    BY <2>2, <2>3
  <2>6. /\ DOMAIN pendingIncoming' = DOMAIN pendingIncoming /\ pendingIncoming'[r] = Append(p, x)
        /\ \A q \in DOMAIN pendingIncoming \ {r} : pendingIncoming'[q] = pendingIncoming[q]
    BY <2>1, <2>4
  <2>7. Starts(f, x.id)
    BY <1>1, <2>3 DEF Starts
  <2>8. \A k \in 1..Len(pendingIncoming'[r]) :
          \/ \E j \in 1..Len(pendingIncoming[r]) : pendingIncoming'[r][k].id = pendingIncoming[r][j].id
          \/ Starts(f, pendingIncoming'[r][k].id)
    <3> SUFFICES ASSUME NEW k \in 1..Len(p) + 1
                 PROVE  \/ \E j \in 1..Len(p) : Append(p, x)[k].id = p[j].id
                        \/ Starts(f, Append(p, x)[k].id)
      BY <2>5, <2>6 DEF p
    <3>1. k \in 1..Len(p) \/ k = Len(p) + 1
      BY <2>5
    <3> QED BY <2>5, <2>7, <3>1
  <2> QED BY <1>1, <1>4, <2>1, <2>5, <2>6, <2>8, CollectKeeps DEF peering
<1>5. ASSUME Forward(f), UNCHANGED <<pendingIncoming, written>> PROVE IInv'
  BY <1>1, <1>2, <1>5, ForwardKeeps
<1> QED BY <1>3, <1>4, <1>5 DEF HandleStreamStart

LEMMA HandleStreamEndKeeps ==
  ASSUME IInv, NEW f, Takes(f), HandleStreamEnd(f)
  PROVE  IInv'
<1>1. /\ f.type = "STREAM_END" /\ UNCHANGED <<pendingPeerRequests, senderClosed, feeder, pc>> /\ Up
      /\ f.rid \in Ids /\ f.data \in Int /\ f.rid \in DOMAIN pendingIncoming => f.rid \in Requests
  BY FrameOf DEF HandleStreamEnd, feeding, handling, Takes
<1>2. Closes({})
  BY <1>1, RegisteredFacts
<1>3. ASSUME Pending(f), FailHard(f), UNCHANGED <<sender, crashed>> PROVE IInv'
  <2>1. TypeOK' /\ InputInv' /\ \A q \in Requests : LocalInv(q)'
    BY <1>1, <1>3, FailHardKeeps
  <2> QED BY <1>1, <1>3, <2>1, NoPanic DEF IInv
<1>4. ASSUME Pending(f), NEW i \in At(f),
             pendingIncoming' = [pendingIncoming EXCEPT ![f.rid][i].complete = TRUE],
             UNCHANGED <<written, sender, crashed>>
      PROVE  IInv'
  <2> DEFINE r == f.rid
             p == pendingIncoming[r]
             x == [p[i] EXCEPT !.complete = TRUE]
  <2>1. r \in DOMAIN pendingIncoming /\ i \in DOMAIN p
    BY <1>4 DEF Pending, At
  <2>2. p \in Seq(Streams) /\ p[i] \in Streams
    BY <2>1 DEF IInv, TypeOK
  <2>3. x \in Streams /\ x.id = p[i].id
    <3> HIDE DEF p
    <3> QED BY <2>2, StreamForms
  <2>4. pendingIncoming' = [pendingIncoming EXCEPT ![r] = [p EXCEPT ![i] = x]]
    BY <1>4
  <2> HIDE DEF p, x
  <2>5. /\ [p EXCEPT ![i] = x] \in Seq(Streams)
        /\ \A k \in 1..Len([p EXCEPT ![i] = x]) : k \in 1..Len(p) /\ [p EXCEPT ![i] = x][k].id = p[k].id
    BY <2>1, <2>2, <2>3, StreamGrows
  <2>6. /\ DOMAIN pendingIncoming' = DOMAIN pendingIncoming /\ pendingIncoming'[r] = [p EXCEPT ![i] = x]
        /\ \A q \in DOMAIN pendingIncoming \ {r} : pendingIncoming'[q] = pendingIncoming[q]
    BY <2>1, <2>4
  <2>7. \A k \in 1..Len(pendingIncoming'[r]) :
          \/ \E j \in 1..Len(pendingIncoming[r]) : pendingIncoming'[r][k].id = pendingIncoming[r][j].id
          \/ Starts(f, pendingIncoming'[r][k].id)
    BY <2>5, <2>6 DEF p
  <2>8. UNCHANGED <<peering, feeder, pc, written, crashed>> /\ pendingIncoming'[r] \in Seq(Streams)
    BY <1>1, <1>4, <2>5, <2>6 DEF peering
  <2>9. f.type # "HEARTBEAT"
    BY <1>1
  <2> HIDE DEF r
  <2>10. r = f.rid
    BY DEF r
  <2> QED BY <2>1, <2>6, <2>7, <2>8, <2>9, <2>10, CollectKeeps
<1>5. ASSUME Forward(f), UNCHANGED <<pendingIncoming, written>> PROVE IInv'
  BY <1>1, <1>2, <1>5, ForwardKeeps
<1> QED BY <1>3, <1>4, <1>5 DEF HandleStreamEnd

LEMMA HandleEndKeeps ==
  ASSUME IInv, NEW f, Takes(f), HandleEnd(f)
  PROVE  IInv'
<1>1. f.type = "END" /\ UNCHANGED written /\ Up /\ (f.rid \in DOMAIN pendingIncoming => f.rid \in Requests)
  BY FrameOf DEF HandleEnd, Takes
<1>2. ASSUME Pending(f), pendingIncoming' = Drop(f.rid),
             feeder' = [feeder EXCEPT ![f.rid] = InputOf(pendingIncoming[f.rid])],
             pc' = [pc EXCEPT ![f.rid] = "read"],
             UNCHANGED <<pendingPeerRequests, senderClosed, crashed>>
      PROVE  IInv'
  BY <1>1, <1>2, StartKeeps DEF Pending
<1>3. ASSUME pendingPeerRequests' = pendingPeerRequests \ Registered(f),
             senderClosed' = senderClosed \cup Registered(f),
             crashed' = (Registered(f) \cap senderClosed # {}),
             UNCHANGED <<pendingIncoming, feeder, pc>>
      PROVE  IInv'
  <2>1. ~crashed' /\ Closes(Registered(f))
    BY <1>3, RegisteredFacts DEF Closes
  <2>2. written' \in [Ids -> Seq(OutFrames)] /\ \A r \in Requests : written'[r] = written[r]
    BY <1>1 DEF IInv, TypeOK
  <2> QED BY <1>3, <2>1, <2>2, QuietKeeps
<1> QED BY <1>2, <1>3 DEF HandleEnd

LEMMA HandleOtherKeeps ==
  ASSUME IInv, NEW f, Takes(f), HandleErr(f) \/ HandleLog(f) \/ HandleHeartbeat(f)
  PROVE  IInv'
<1>1. ASSUME HandleErr(f) PROVE IInv'
  <2>1. Closes(Registered(f)) /\ Forward(f) /\ UNCHANGED <<pendingIncoming, feeder, pc, written>>
    BY <1>1, RegisteredFacts DEF HandleErr, Closes, feeding, handling
  <2> QED BY <2>1, ForwardKeeps
<1>2. ASSUME HandleLog(f) PROVE IInv'
  <2>1. Closes({}) /\ Forward(f) /\ UNCHANGED <<pendingIncoming, feeder, pc, written>>
    BY <1>2, RegisteredFacts DEF HandleLog, feeding, handling
  <2> QED BY <2>1, ForwardKeeps
<1>3. ASSUME HandleHeartbeat(f) PROVE IInv'
  <2>1. Closes({}) /\ UNCHANGED <<pendingIncoming, feeder, pc, written, crashed>>
    BY <1>3, RegisteredFacts DEF HandleHeartbeat, feeding, handling, peering
  <2>2. written' \in [Ids -> Seq(OutFrames)] /\ \A r \in Requests : written'[r] = written[r]
    BY <2>1 DEF IInv, TypeOK
  <2>3. ~crashed'
    BY <2>1 DEF Takes, Up
  <2> QED BY <2>1, <2>2, <2>3, QuietKeeps
<1> QED BY <1>1, <1>2, <1>3

LEMMA LoopKeeps ==
  ASSUME IInv, ReadLoop
  PROVE  IInv'
<1> DEFINE f == Head(stdin)
<1>1. \/ HandleReq(f) \/ HandleHeartbeat(f) \/ HandleChunk(f) \/ HandleStreamStart(f)
      \/ HandleStreamEnd(f) \/ HandleEnd(f) \/ HandleErr(f) \/ HandleLog(f)
  BY DEF ReadLoop
<1>2. /\ Up /\ stdin # <<>> /\ stdin' = Tail(stdin)
      /\ UNCHANGED <<body, todo, handler, chunkIndex, streamStarted>>
  BY DEF ReadLoop, emitter
<1>3. UNCHANGED <<inputClosed, framesChan>>
  BY <1>1 DEF HandleReq, HandleHeartbeat, HandleChunk, HandleStreamStart, HandleStreamEnd, HandleEnd, HandleErr,
              HandleLog, feeding
<1>4. Takes(f)
  BY <1>2, <1>3 DEF Takes
<1>5. PICK g : g = f
  OBVIOUS
<1> HIDE DEF f
<1> QED BY <1>1, <1>4, <1>5, HandleReqKeeps, HandleChunkKeeps, HandleStreamStartKeeps, HandleStreamEndKeeps,
           HandleEndKeeps, HandleOtherKeeps

-----------------------------------------------------------------------------
(***************************************************************************)
(* The theorems                                                            *)
(***************************************************************************)

LEMMA InitHolds == Init => IInv
<1> SUFFICES ASSUME Init PROVE IInv
  OBVIOUS
<1>1. PICK s \in Scenarios :
        handler = s.handler /\ body = [id \in Ids |-> IF id \in Requests THEN s.body[id] ELSE <<>>]
  BY DEF Init
<1>2. /\ s.handler \in [Requests -> Kinds] /\ s.body \in [Requests -> Seq(HostFrames)]
      /\ \A r \in Requests : \A i \in DOMAIN s.body[r] : s.body[r][i].type = "REQ" => i = 1
  BY RuntimeAssumption
<1>3. /\ body \in [Ids -> Seq(HostFrames)] /\ \A r \in Requests : body[r] = s.body[r]
      /\ \A id \in Peers : body[id] = <<>>
  <2>1. \A id \in Ids : (IF id \in Requests THEN s.body[id] ELSE <<>>) \in Seq(HostFrames)
    BY <1>2
  <2>2. Requests \subseteq Ids /\ Peers \subseteq Ids /\ Requests \cap Peers = {}
    BY IdsFacts, RuntimeAssumption DEF Ids
  <2> QED BY <1>1, <2>1, <2>2
<1>4. /\ stdin = <<>> /\ todo = body /\ crashed = FALSE
      /\ pendingIncoming = [r \in {} |-> <<>>] /\ pendingPeerRequests = {} /\ senderClosed = {}
      /\ feeder = [r \in Requests |-> <<>>] /\ framesChan = feeder /\ inputClosed = {}
      /\ pc = [r \in Requests |-> "none"] /\ chunkIndex = [r \in Requests |-> 0] /\ streamStarted = {}
      /\ written = [id \in Ids |-> <<>>]
  BY DEF Init
<1>5. stdin \in Seq(StdinFrames) /\ DOMAIN stdin = {} /\ DOMAIN pendingIncoming = {}
  BY <1>4
<1>6. TypeOK
  <2>1. feeder \in [Requests -> Seq(Seq(Items))] /\ framesChan \in [Requests -> Seq(Items)]
    BY <1>4
  <2>2. written \in [Ids -> Seq(OutFrames)]
    BY <1>4
  <2>3. pc \in [Requests -> Places] /\ chunkIndex \in [Requests -> Nat]
    BY <1>4 DEF Places, Silent
  <2> QED BY <1>1, <1>2, <1>3, <1>4, <1>5, <2>1, <2>2, <2>3 DEF TypeOK
<1>7. PeerInv
  BY <1>3, <1>4, <1>5 DEF PeerInv
<1>8. PanicHasACause
  BY <1>4 DEF PanicHasACause
<1> SUFFICES ASSUME NEW r \in Requests
             PROVE  OneReq(r) /\ SoundInv(r) /\ DistinctInv(r) /\ LocalInv(r)
  BY <1>6, <1>7, <1>8 DEF IInv, InputInv
<1>9. OneReq(r)
  BY <1>2, <1>3, <1>4, <1>5 DEF OneReq
<1>10. SoundInv(r)
  BY <1>4, <1>5 DEF SoundInv, Corrupt
<1>11. DistinctInv(r)
  <2> SUFFICES ASSUME ~Repeats(body[r]), NEW i \in DOMAIN body[r], NEW j \in DOMAIN body[r],
                      body[r][i].type = "STREAM_START", Starts(body[r][j], body[r][i].stream)
               PROVE  i = j
    BY <1>4, <1>5 DEF DistinctInv
  <2>1. body[r] \in Seq(HostFrames)
    BY <1>3, IdsFacts
  <2>2. i \in Int /\ j \in Int
    BY <2>1
  <2>3. ~(i < j) /\ ~(j < i)
    BY DEF Repeats, Starts
  <2> QED BY <2>2, <2>3
<1>12. /\ r \notin DOMAIN pendingIncoming /\ pc[r] = "none" /\ feeder[r] = <<>> /\ framesChan[r] = <<>>
       /\ written[r] = <<>> /\ chunkIndex[r] = 0
  BY <1>4, <1>5, IdsFacts
<1>13. CollectInv(r) /\ FreshInv(r)
  BY <1>12 DEF CollectInv, FreshInv
<1>14. WrittenInv(r)
  BY <1>4, <1>12 DEF WrittenInv, Silent
<1>15. FeederInv(r)
  <2>1. Len(<<>>) = 0
    OBVIOUS
  <2> QED BY <1>4, <1>12, <2>1 DEF FeederInv
<1>16. ChannelInv(r)
  BY <1>4 DEF ChannelInv
<1> QED BY <1>9, <1>10, <1>11, <1>13, <1>14, <1>15, <1>16 DEF LocalInv

LEMMA StepHolds == IInv /\ [Next]_vars => IInv'
<1> SUFFICES ASSUME IInv, [Next]_vars PROVE IInv'
  OBVIOUS
<1>1. CASE Host
  BY <1>1, HostKeeps
<1>2. CASE ReadLoop
  BY <1>2, LoopKeeps
<1>3. CASE ReadEof
  BY <1>3, EofKeeps
<1>4. ASSUME NEW r \in Requests, Feed(r) PROVE IInv'
  BY <1>4, FeedKeeps
<1>5. ASSUME NEW r \in Requests, HandlerStep(r) PROVE IInv'
  BY <1>5, ReadKeeps, RegisterKeeps, InvokeKeeps, AwaitKeeps, EmitStartKeeps, FinalizeKeeps, FailKeeps, EndKeeps
     DEF HandlerStep
<1>6. ASSUME NEW r \in Requests, HandlerQuits(r) \/ HandlerReturns(r) PROVE IInv'
  BY <1>6, QuitKeeps
<1>7. ASSUME NEW r \in Requests, EmitChunk(r) PROVE IInv'
  BY <1>7, EmitChunkKeeps
<1>8. CASE UNCHANGED vars
  <2>1. UNCHANGED <<stdin, body, todo, handler, pendingIncoming, feeder, framesChan, inputClosed, pendingPeerRequests,
                    senderClosed, pc, chunkIndex, streamStarted, written, crashed>>
    BY <1>8 DEF vars, input, loop, peering, feeding, emitter, handling
  <2>2. TypeOK' /\ PanicHasACause'
    BY <2>1 DEF IInv, TypeOK, PanicHasACause, Repeats
  <2>3. PeerInv' /\ \A q \in Requests : OneReq(q)' /\ SoundInv(q)'
    BY <2>1 DEF IInv, InputInv, PeerInv, OneReq, SoundInv, Corrupt
  <2>4. \A q \in Requests : DistinctInv(q)'
    BY <2>1 DEF IInv, InputInv, DistinctInv, Repeats
  <2>5. \A q \in Requests : (Ahead(q)' <=> Ahead(q)) /\ \A s : Coming(q, s)' <=> Coming(q, s)
    BY <2>1 DEF Ahead, Coming
  <2>6. \A q \in Requests : LocalInv(q)'
    BY <2>1, <2>5, LocalKept DEF IInv, Untouched
  <2> QED BY <2>2, <2>3, <2>4, <2>6 DEF IInv, InputInv
<1> QED BY <1>1, <1>2, <1>3, <1>4, <1>5, <1>6, <1>7, <1>8 DEF Next

\* What the runtime keeps of its requests fits what is still to come on stdin, what
\* their handlers have written and what is in their channels (cartridge_runtime.go,
\* runCBORMode).
THEOREM Invariance == Spec => []IInv
<1>1. Init => IInv
  BY InitHolds
<1>2. IInv /\ [Next]_vars => IInv'
  BY StepHolds
<1> QED BY <1>1, <1>2, PTL DEF Spec

\* A request with a sound body is answered once: nothing follows its END or ERR, whatever
\* frames of it the loop still reads (cartridge_runtime.go: the cases of the read loop).
THEOREM EachIsAnsweredOnce == Spec => []AnsweredOnce
<1>1. IInv => AnsweredOnce
  <2> SUFFICES ASSUME IInv, NEW r \in Requests, ~Corrupt(r), NEW i \in TerminalsOf(r)
               PROVE  i = Len(written[r])
    BY DEF AnsweredOnce
  <2> DEFINE w == written[r]
             n == chunkIndex[r]
  <2>1. WrittenInv(r) /\ n \in Nat /\ w \in Seq(OutFrames) /\ pc[r] \in Places
    BY IdsFacts DEF IInv, LocalInv, TypeOK
  <2>2. i \in 1..Len(w) /\ w[i].type \in {"END", "ERR"} /\ Len(w) \in Nat
    BY <2>1 DEF TerminalsOf, Terminal
  <2> HIDE DEF w, n
  <2>3. ASSUME Begun(w, n), i <= n + 1 PROVE FALSE
    <3>1. i = 1 \/ i \in 2..n + 1
      BY <2>1, <2>2, <2>3
    <3> QED BY <2>2, <2>3, <3>1 DEF Begun
  <2>4. ASSUME Completed(w, n), i <= n + 2 PROVE FALSE
    <3>1. i <= n + 1 \/ i = n + 2
      BY <2>1, <2>2, <2>4
    <3> QED BY <2>2, <2>3, <2>4, <3>1 DEF Completed
  <2>5. \/ w = <<>> \/ Refused(w)
        \/ Begun(w, n) /\ Len(w) = n + 1
        \/ Completed(w, n) /\ Len(w) = n + 2
        \/ Completed(w, n) /\ Len(w) = n + 3
    BY <2>1 DEF WrittenInv, Places, w, n
  <2>6. CASE w = <<>>
    BY <2>2, <2>6
  <2>7. CASE Refused(w)
    BY <2>2, <2>7 DEF Refused, w
  <2>8. CASE Begun(w, n) /\ Len(w) = n + 1
    BY <2>2, <2>3, <2>8
  <2>9. CASE Completed(w, n) /\ Len(w) = n + 2
    BY <2>2, <2>4, <2>9
  <2>10. CASE Completed(w, n) /\ Len(w) = n + 3
    <3>1. i = n + 3
      BY <2>1, <2>2, <2>4, <2>10
    <3> QED BY <2>10, <3>1 DEF w
  <2> QED BY <2>5, <2>6, <2>7, <2>8, <2>9, <2>10
<1> QED BY <1>1, Invariance, PTL

\* A response that ends with END is a whole stream (threadSafeEmitter: STREAM_START once,
\* chunks counted from 0, and Finalize).
THEOREM ResponsesAreWhole == Spec => []ResponseIsWhole
<1>1. IInv => ResponseIsWhole
  <2> SUFFICES ASSUME IInv, NEW r \in Requests, ~Corrupt(r), Len(written[r]) > 0,
                      written[r][Len(written[r])].type = "END"
               PROVE  LET w == written[r]
                          k == Len(w)
                      IN /\ k >= 3 /\ w[1].type = "STREAM_START"
                         /\ w[k - 1].type = "STREAM_END" /\ w[k - 1].n = k - 3
                         /\ \A i \in 2..k - 2 : w[i].type = "CHUNK" /\ w[i].n = i - 2
    BY DEF ResponseIsWhole
  <2> DEFINE w == written[r]
             n == chunkIndex[r]
  <2>1. WrittenInv(r) /\ n \in Nat /\ pc[r] \in Places
    BY DEF IInv, LocalInv, TypeOK
  <2>2. Len(w) > 0 /\ w[Len(w)].type = "END"
    OBVIOUS
  <2> HIDE DEF w, n
  <2>3. \/ w = <<>> \/ Refused(w)
        \/ Begun(w, n) /\ Len(w) = n + 1
        \/ Completed(w, n) /\ Len(w) = n + 2
        \/ Completed(w, n) /\ Len(w) = n + 3
    BY <2>1 DEF WrittenInv, Places, w, n
  <2>4. ~(w = <<>>) /\ ~Refused(w)
    BY <2>2 DEF Refused
  <2>5. ~(Begun(w, n) /\ Len(w) = n + 1)
    <3>1. n + 1 = 1 \/ n + 1 \in 2..n + 1
      BY <2>1
    <3> QED BY <2>2, <3>1 DEF Begun
  <2>6. ~(Completed(w, n) /\ Len(w) = n + 2)
    BY <2>2 DEF Completed
  <2>7. Completed(w, n) /\ Len(w) = n + 3
    BY <2>3, <2>4, <2>5, <2>6
  <2>8. Len(w) >= 3 /\ Len(w) - 1 = n + 2 /\ Len(w) - 3 = n /\ Len(w) - 2 = n + 1
    BY <2>1, <2>7
  <2>9. Begun(w, n) /\ w[n + 2].type = "STREAM_END" /\ w[n + 2].n = n
    BY <2>7 DEF Completed
  <2>10. w[1].type = "STREAM_START" /\ \A i \in 2..n + 1 : w[i].type = "CHUNK" /\ w[i].n = i - 2
    BY <2>9 DEF Begun
  <2> QED BY <2>8, <2>9, <2>10 DEF w
<1> QED BY <1>1, Invariance, PTL

\* The process panics only if a handler returns before it has read its input or the host
\* repeats a stream id: no peer response is sent on a closed channel and none is closed
\* twice, however it races with its handler (cartridge_runtime.go: pendingPeerRequests).
THEOREM PanicsHaveACause == Spec => []PanicHasACause
<1>1. IInv => PanicHasACause
  BY DEF IInv
<1> QED BY <1>1, Invariance, PTL

-----------------------------------------------------------------------------
(***************************************************************************)
(* What reaches a handler: the second inductive invariant                  *)
(***************************************************************************)

\* The loop has read the first n frames of id, the next m are on stdin, at the
\* positions p, and the others are still to be written.
OnStdin(id, n, m, p) ==
  /\ \A k, l \in 1..m : k < l => p[k] < p[l]
  /\ \A k \in 1..m : Of(id, stdin[p[k]]) /\ stdin[p[k]] = WithId(id, body[id][n + k])
  /\ \A i \in 1..Len(stdin) : Of(id, stdin[i]) => \E k \in 1..m : p[k] = i

Arriving(id, n, m) ==
  /\ n + m + Len(todo[id]) = Len(body[id])
  /\ \A k \in 1..Len(todo[id]) : todo[id][k] = body[id][n + m + k]
  /\ \E p \in [1..m -> 1..Len(stdin)] : OnStdin(id, n, m, p)

HasRead(id, n) == n \in Nat /\ \E m \in Nat : Arriving(id, n, m)

\* These are the chunks that streams holds of stream s, which it holds once.
Holds(streams, s, chunks) ==
  \/ \E k \in 1..Len(streams) : streams[k].id = s /\ chunks = streams[k].chunks
  \/ (\A k \in 1..Len(streams) : streams[k].id # s) /\ chunks = <<>>

Distinct(streams) ==
  \A k, l \in 1..Len(streams) : streams[k].id = streams[l].id => k = l

\* While a request is collected, its streams hold what has been read of it.
CollectedInv(r, n) ==
  /\ n = 0 => pc[r] = "none" /\ r \notin DOMAIN pendingIncoming
  /\ \A i \in 1..Len(body[r]) : body[r][i].type = "REQ" => i = 1
  /\ ~Corrupt(r) /\ r \in DOMAIN pendingIncoming =>
       /\ \A i \in 1..n : body[r][i].type # "END"
       /\ Distinct(pendingIncoming[r])
       /\ \A s \in STRING : Holds(pendingIncoming[r], s, DataOf(SubSeq(body[r], 1, n), s))

\* The feeder of these streams is at item c of part i; the last part is END.
AtItem(parts, streams, i, c) ==
  LET m == Len(streams)
  IN /\ Len(parts) = m + 2 - i
     /\ i <= m + 1 => parts[m + 2 - i] = <<Item("END", "none", 0)>>
     /\ \A k \in 2..m + 1 - i : parts[k] = StreamItems(streams[i + k - 1])
     /\ i <= m =>
          LET all == StreamItems(streams[i])
          IN /\ c <= Len(all) /\ Len(parts[1]) = Len(all) + 1 - c
             /\ \A k \in 1..Len(parts[1]) : parts[1][k] = all[c + k - 1]

\* What it has pushed then.
Pushes(items, streams, i, c) ==
  LET m == Len(streams)
  IN /\ \A s \in STRING : (\A k \in 1..m : streams[k].id # s) => DataOf(items, s) = <<>>
     /\ \A k \in 1..m :
          DataOf(items, streams[k].id) =
            IF k < i THEN streams[k].chunks
            ELSE IF k = i THEN SubSeq(streams[k].chunks, 1, c - 2) ELSE <<>>
     /\ \A k \in 1..Len(items) : items[k].type = "END" => k = Len(items) /\ i = m + 2

\* The streams of the body are pushed one after the other.
Feeds(r, streams) ==
  /\ Distinct(streams)
  /\ \A s \in STRING : Holds(streams, s, DataOf(UpToEnd(body[r]), s))
  /\ \E i \in 1..Len(streams) + 2, c \in Nat \ {0} :
       AtItem(feeder[r], streams, i, c) /\ Pushes(got[r] \o framesChan[r], streams, i, c)

FedInv(r) ==
  IF pc[r] = "none" THEN got[r] = <<>> /\ framesChan[r] = <<>>
  ELSE ~Corrupt(r) => \E streams \in Seq(Streams) : Feeds(r, streams)

\* What is read of the response to a peer request is in the channel of its handler
\* or has been read from there, until the request is forgotten.
AnsweredInv(r, n) ==
  LET id == Peer(r)
      passed == peerGot[r] \o sender[r]
  IN /\ pc[r] \in {"none", "read", "invoke"} => body[id] = <<>> /\ written[id] = <<>>
     /\ ~Corrupt(id) =>
          /\ Len(passed) <= n /\ (r \in pendingPeerRequests => Len(passed) = n)
          /\ \A k \in 1..Len(passed) : passed[k] = WithId(id, body[id][k])

BodyInv(r) == FedInv(r) /\ \E n : HasRead(r, n) /\ CollectedInv(r, n)
AnswerInv(r) == \E n : HasRead(Peer(r), n) /\ AnsweredInv(r, n)

PassedTypeOK ==
  /\ got \in [Requests -> Seq(Items)]
  /\ peerGot \in [Requests -> Seq(StdinFrames)] /\ sender \in [Requests -> Seq(StdinFrames)]

PassInv == PassedTypeOK /\ \A r \in Requests : BodyInv(r) /\ AnswerInv(r)

-----------------------------------------------------------------------------
(***************************************************************************)
(* The data of a stream                                                    *)
(***************************************************************************)

\* What DataOf keeps of the first n frames, given what it keeps of fewer.
DataUpTo(u, frames, stream, n) ==
  IF n = 0 THEN <<>>
  ELSE IF frames[n].type = "CHUNK" /\ frames[n].stream = stream
       THEN Append(u[n - 1], frames[n].data)
       ELSE u[n - 1]

\* There is such a function up to each length.
LEMMA DataExists ==
  ASSUME NEW frames, NEW stream, NEW m \in Nat
  PROVE  \E u : u = [n \in 0..m |-> DataUpTo(u, frames, stream, n)]
<1> DEFINE Bad == {n \in Nat : ~ \E u : u = [i \in 0..n |-> DataUpTo(u, frames, stream, i)]}
<1> SUFFICES ASSUME Bad # {} PROVE FALSE
  OBVIOUS
<1>1. PICK n \in Bad : \A j \in Bad : n <= j
  <2>1. Bad \subseteq Nat
    OBVIOUS
  <2> HIDE DEF Bad
  <2> QED BY <2>1, LeastNatural
<1>2. n # 0
  <2>1. SUFFICES ASSUME n = 0 PROVE FALSE
    OBVIOUS
  <2> DEFINE u == [i \in 0..0 |-> <<>>]
  <2>2. u = [i \in 0..0 |-> DataUpTo(u, frames, stream, i)]
    BY DEF DataUpTo
  <2> HIDE DEF u
  <2> QED BY <1>1, <2>1, <2>2
<1>3. n - 1 \in Nat /\ n - 1 \notin Bad
  <2>1. n \in Nat
    OBVIOUS
  <2>2. n - 1 \in Nat /\ ~(n <= n - 1)
    BY <2>1, <1>2
  <2> HIDE DEF Bad
  <2> QED BY <1>1, <2>2
<1>4. PICK u : u = [i \in 0..(n - 1) |-> DataUpTo(u, frames, stream, i)]
  BY <1>3
<1> DEFINE v == [i \in 0..n |-> IF i = n THEN DataUpTo(u, frames, stream, n) ELSE u[i]]
<1>5. ASSUME NEW i \in 0..n PROVE v[i] = DataUpTo(v, frames, stream, i)
  <2>1. CASE i = 0
    <3>1. 0 \in 0..(n - 1) /\ 0 # n
      BY <1>2, <1>3
    <3>2. v[0] = u[0] /\ u[0] = DataUpTo(u, frames, stream, 0)
      BY <1>4, <3>1
    <3> QED BY <2>1, <3>2 DEF DataUpTo
  <2>2. CASE i # 0
    <3>1. i - 1 \in 0..(n - 1) /\ i - 1 # n /\ i - 1 \in 0..n
      BY <2>2, <1>3
    <3>2. v[i - 1] = u[i - 1]
      BY <3>1
    <3>3. v[i] = DataUpTo(u, frames, stream, i)
      <4>1. CASE i = n
        BY <4>1
      <4>2. CASE i # n
        <5>1. i \in 0..(n - 1)
          BY <4>2, <1>3
        <5>2. u[i] = DataUpTo(u, frames, stream, i)
          BY <5>1, <1>4
        <5> QED BY <4>2, <5>2
      <4> QED BY <4>1, <4>2
    <3> HIDE DEF v
    <3> QED BY <3>2, <3>3, <2>2 DEF DataUpTo
  <2> QED BY <2>1, <2>2
<1>6. v = [i \in 0..n |-> v[i]]
  OBVIOUS
<1>7. v = [i \in 0..n |-> DataUpTo(v, frames, stream, i)]
  <2> HIDE DEF v
  <2> QED BY <1>5, <1>6
<1> HIDE DEF v
<1> QED BY <1>1, <1>7

Data(u, frames, stream) == u = [n \in 0..Len(frames) |-> DataUpTo(u, frames, stream, n)]

LEMMA DataOfIsData ==
  ASSUME NEW frames, NEW stream, Len(frames) \in Nat
  PROVE  \E u : Data(u, frames, stream) /\ DataOf(frames, stream) = u[Len(frames)]
<1> DEFINE u == CHOOSE u : u = [n \in 0..Len(frames) |->
                                  IF n = 0 THEN <<>>
                                  ELSE IF frames[n].type = "CHUNK" /\ frames[n].stream = stream
                                       THEN Append(u[n - 1], frames[n].data)
                                       ELSE u[n - 1]]
<1>1. \E v : v = [n \in 0..Len(frames) |-> DataUpTo(v, frames, stream, n)]
  BY DataExists
<1>2. u = [n \in 0..Len(frames) |-> DataUpTo(u, frames, stream, n)]
  BY <1>1 DEF DataUpTo
<1>3. DataOf(frames, stream) = u[Len(frames)]
  BY DEF DataOf
<1> HIDE DEF u
<1> QED BY <1>2, <1>3 DEF Data

\* It agrees with the one of a sequence that goes on.
LEMMA DataAgree ==
  ASSUME NEW s, NEW t, NEW stream, NEW u, NEW v, Len(s) \in Nat, Len(t) \in Nat, Len(s) <= Len(t),
         \A i \in 1..Len(s) : t[i] = s[i], Data(u, s, stream), Data(v, t, stream)
  PROVE  u[Len(s)] = v[Len(s)]
<1> DEFINE Bad == {n \in 0..Len(s) : u[n] # v[n]}
<1> SUFFICES ASSUME Bad # {} PROVE FALSE
  OBVIOUS
<1>1. PICK n \in Bad : \A j \in Bad : n <= j
  <2>1. Bad \subseteq Nat
    OBVIOUS
  <2> HIDE DEF Bad
  <2> QED BY <2>1, LeastNatural
<1>2. n \in 0..Len(s) /\ n \in 0..Len(t) /\ n \in Nat /\ u[n] # v[n]
  OBVIOUS
<1>3. u[n] = DataUpTo(u, s, stream, n)
  BY <1>2 DEF Data
<1>4. v[n] = DataUpTo(v, t, stream, n)
  BY <1>2 DEF Data
<1>5. n # 0
  BY <1>2, <1>3, <1>4 DEF DataUpTo
<1>6. u[n - 1] = v[n - 1]
  <2>1. n - 1 \in 0..Len(s) /\ ~(n <= n - 1)
    BY <1>2, <1>5
  <2>2. n - 1 \notin Bad
    <3> HIDE DEF Bad
    <3> QED BY <1>1, <2>1
  <2> QED BY <2>1, <2>2
<1>7. t[n] = s[n]
  <2>1. n \in 1..Len(s)
    BY <1>2, <1>5
  <2> QED BY <2>1
<1> QED BY <1>2, <1>3, <1>4, <1>5, <1>6, <1>7 DEF DataUpTo

\* One frame after the other.
LEMMA DataOfEmpty == ASSUME NEW stream PROVE DataOf(<<>>, stream) = <<>>
<1>1. Len(<<>>) = 0
  OBVIOUS
<1>2. PICK u : Data(u, <<>>, stream) /\ DataOf(<<>>, stream) = u[Len(<<>>)]
  BY <1>1, DataOfIsData
<1> QED BY <1>1, <1>2 DEF Data, DataUpTo

LEMMA DataOfLonger ==
  ASSUME NEW s, NEW t, NEW stream, Len(s) \in Nat, Len(t) = Len(s) + 1, \A i \in 1..Len(s) : t[i] = s[i]
  PROVE  DataOf(t, stream) =
           IF t[Len(t)].type = "CHUNK" /\ t[Len(t)].stream = stream
           THEN Append(DataOf(s, stream), t[Len(t)].data) ELSE DataOf(s, stream)
<1>1. PICK u : Data(u, s, stream) /\ DataOf(s, stream) = u[Len(s)]
  BY DataOfIsData
<1>2. Len(t) \in Nat /\ Len(t) # 0 /\ Len(t) - 1 = Len(s) /\ Len(s) <= Len(t)
  OBVIOUS
<1>3. PICK v : Data(v, t, stream) /\ DataOf(t, stream) = v[Len(t)]
  BY <1>2, DataOfIsData
<1>4. u[Len(s)] = v[Len(s)]
  BY <1>1, <1>2, <1>3, DataAgree
<1>5. v[Len(t)] = DataUpTo(v, t, stream, Len(t))
  BY <1>2, <1>3 DEF Data
<1> QED BY <1>1, <1>2, <1>3, <1>4, <1>5 DEF DataUpTo

-----------------------------------------------------------------------------
(***************************************************************************)
(* The frames of an id arrive in the order in which they are sent          *)
(***************************************************************************)

\* A frame of something else is written.
LEMMA OtherWritten ==
  ASSUME TypeOK, NEW id \in Ids, NEW n, HasRead(id, n), NEW x, stdin' = Append(stdin, x), ~Of(id, x),
         body'[id] = body[id], todo'[id] = todo[id]
  PROVE  HasRead(id, n)'
<1>1. PICK m \in Nat : Arriving(id, n, m)
  BY DEF HasRead
<1>2. PICK p \in [1..m -> 1..Len(stdin)] : OnStdin(id, n, m, p)
  BY <1>1 DEF Arriving
<1>3. /\ Len(stdin) \in Nat /\ Len(stdin') = Len(stdin) + 1 /\ stdin'[Len(stdin) + 1] = x
      /\ \A i \in 1..Len(stdin) : stdin'[i] = stdin[i]
  BY DEF TypeOK
<1>4. p \in [1..m -> 1..Len(stdin')]
  BY <1>2, <1>3
<1>5. OnStdin(id, n, m, p)'
  <2>1. \A k \in 1..m : p[k] \in 1..Len(stdin)
    BY <1>2
  <2>2. \A k \in 1..m : Of(id, stdin'[p[k]]) /\ stdin'[p[k]] = WithId(id, body'[id][n + k])
    BY <1>2, <1>3, <2>1 DEF OnStdin
  <2>3. ASSUME NEW i \in 1..Len(stdin'), Of(id, stdin'[i]) PROVE \E k \in 1..m : p[k] = i
    <3>1. i \in 1..Len(stdin) /\ Of(id, stdin[i])
      BY <1>3, <2>3
    <3> QED BY <1>2, <3>1 DEF OnStdin
  <2> QED BY <1>2, <2>2, <2>3 DEF OnStdin
<1> QED BY <1>1, <1>4, <1>5 DEF HasRead, Arriving

\* The next frame of id is written.
LEMMA OwnWritten ==
  ASSUME TypeOK, NEW id \in Ids, NEW n, HasRead(id, n), HostSends(id)
  PROVE  HasRead(id, n)'
<1> DEFINE g == todo[id][1]
           x == WithId(id, g)
<1>1. PICK m \in Nat : Arriving(id, n, m)
  BY DEF HasRead
<1>2. PICK p \in [1..m -> 1..Len(stdin)] : OnStdin(id, n, m, p)
  BY <1>1 DEF Arriving
<1>3. /\ todo[id] \in Seq(HostFrames) /\ todo[id] # <<>> /\ Head(todo[id]) = g /\ g \in HostFrames
      /\ Len(todo[id]) \in Nat /\ 1 \in 1..Len(todo[id])
      /\ body' = body /\ stdin' = Append(stdin, x) /\ todo'[id] = Tail(todo[id])
  BY DEF TypeOK, HostSends
<1>4. Of(id, x)
  <2> HIDE DEF g
  <2> QED BY <1>3 DEF Of, WithId, HostFrames
<1>5. x = WithId(id, body[id][n + m + 1]) /\ n \in Nat
  BY <1>1, <1>3 DEF Arriving, HasRead
<1> HIDE DEF g, x
<1>6. /\ Len(stdin) \in Nat /\ Len(stdin') = Len(stdin) + 1 /\ stdin'[Len(stdin) + 1] = x
      /\ \A i \in 1..Len(stdin) : stdin'[i] = stdin[i]
  BY <1>3 DEF TypeOK
<1>7. /\ Len(todo'[id]) = Len(todo[id]) - 1
      /\ \A k \in 1..Len(todo'[id]) : todo'[id][k] = todo[id][k + 1] /\ k + 1 \in 1..Len(todo[id])
  BY <1>3
<1>8. n + (m + 1) + Len(todo'[id]) = Len(body'[id])
  <2>1. n + m + Len(todo[id]) = Len(body[id])
    BY <1>1 DEF Arriving
  <2>2. n + (m + 1) + Len(todo'[id]) = n + m + Len(todo[id])
    <3>1. \A b \in Nat : b >= 1 => n + (m + 1) + (b - 1) = n + m + b
      BY <1>5
    <3>2. Len(todo[id]) \in Nat /\ Len(todo[id]) >= 1 /\ Len(todo'[id]) = Len(todo[id]) - 1
      BY <1>3, <1>7
    <3> QED BY <3>1, <3>2
  <2> QED BY <1>3, <2>1, <2>2
<1>9. \A k \in 1..Len(todo'[id]) : todo'[id][k] = body'[id][n + (m + 1) + k]
  <2> SUFFICES ASSUME NEW k \in 1..Len(todo'[id]) PROVE todo'[id][k] = body[id][n + (m + 1) + k]
    BY <1>3
  <2>1. todo[id][k + 1] = body[id][n + m + (k + 1)]
    BY <1>1, <1>7 DEF Arriving
  <2>2. n + m + (k + 1) = n + (m + 1) + k
    BY <1>3, <1>5, <1>7
  <2> QED BY <1>7, <2>1, <2>2
<1> DEFINE longer == [k \in 1..m + 1 |-> IF k = m + 1 THEN Len(stdin) + 1 ELSE p[k]]
<1> PICK q : q = longer
  OBVIOUS
<1>10. \A k \in 1..m : q[k] = p[k] /\ p[k] \in 1..Len(stdin)
  BY <1>2
<1>11. q \in [1..m + 1 -> 1..Len(stdin')] /\ q[m + 1] = Len(stdin) + 1
  BY <1>2, <1>6
<1> HIDE DEF longer
<1>12. \A k \in 1..m + 1 : k \in 1..m \/ k = m + 1
  OBVIOUS
<1>13. \A k, l \in 1..m + 1 : k < l => q[k] < q[l]
  <2> SUFFICES ASSUME NEW k \in 1..m + 1, NEW l \in 1..m + 1, k < l PROVE q[k] < q[l]
    OBVIOUS
  <2>1. k \in 1..m
    OBVIOUS
  <2>2. CASE l \in 1..m
    BY <1>2, <1>10, <2>1, <2>2 DEF OnStdin
  <2>3. CASE l = m + 1
    BY <1>6, <1>10, <1>11, <2>1, <2>3
  <2> QED BY <1>12, <2>2, <2>3
<1>14. \A k \in 1..m + 1 : Of(id, stdin'[q[k]]) /\ stdin'[q[k]] = WithId(id, body'[id][n + k])
  <2> SUFFICES ASSUME NEW k \in 1..m + 1
               PROVE  Of(id, stdin'[q[k]]) /\ stdin'[q[k]] = WithId(id, body[id][n + k])
    BY <1>3
  <2>1. CASE k \in 1..m
    <3>1. q[k] = p[k] /\ p[k] \in 1..Len(stdin)
      BY <1>10, <2>1
    <3>2. stdin'[p[k]] = stdin[p[k]]
      BY <1>6, <3>1
    <3>3. Of(id, stdin[p[k]]) /\ stdin[p[k]] = WithId(id, body[id][n + k])
      BY <1>2, <2>1 DEF OnStdin
    <3> QED BY <3>1, <3>2, <3>3
  <2>2. CASE k = m + 1
    <3>1. n + k = n + m + 1
      BY <1>5, <2>2
    <3> QED BY <1>4, <1>5, <1>6, <1>11, <2>2, <3>1
  <2> QED BY <1>12, <2>1, <2>2
<1>15. ASSUME NEW i \in 1..Len(stdin'), Of(id, stdin'[i]) PROVE \E k \in 1..m + 1 : q[k] = i
  <2>1. CASE i = Len(stdin) + 1
    BY <1>11, <2>1
  <2>2. CASE i # Len(stdin) + 1
    <3>1. i \in 1..Len(stdin) /\ Of(id, stdin[i])
      BY <1>6, <1>15, <2>2
    <3>2. PICK k \in 1..m : p[k] = i
      BY <1>2, <3>1 DEF OnStdin
    <3> QED BY <1>10, <3>2
  <2> QED BY <2>1, <2>2
<1>16. OnStdin(id, n, m + 1, q)'
  BY <1>13, <1>14, <1>15 DEF OnStdin
<1>17. m + 1 \in Nat /\ Arriving(id, n, m + 1)'
  BY <1>8, <1>9, <1>11, <1>16 DEF Arriving
<1> QED BY <1>5, <1>17 DEF HasRead

\* The loop takes a frame of something else.
LEMMA OtherTaken ==
  ASSUME TypeOK, NEW id \in Ids, NEW n, HasRead(id, n), stdin # <<>>, stdin' = Tail(stdin), ~Of(id, stdin[1]),
         body'[id] = body[id], todo'[id] = todo[id]
  PROVE  HasRead(id, n)'
<1>1. PICK m \in Nat : Arriving(id, n, m)
  BY DEF HasRead
<1>2. PICK p \in [1..m -> 1..Len(stdin)] : OnStdin(id, n, m, p)
  BY <1>1 DEF Arriving
<1>3. /\ Len(stdin) \in Nat /\ Len(stdin') = Len(stdin) - 1
      /\ \A i \in 1..Len(stdin') : stdin'[i] = stdin[i + 1] /\ i + 1 \in 1..Len(stdin)
  BY DEF TypeOK
<1> DEFINE q == [k \in 1..m |-> p[k] - 1]
<1>4. \A k \in 1..m : q[k] = p[k] - 1 /\ p[k] \in 1..Len(stdin) /\ p[k] # 1
  BY <1>2 DEF OnStdin
<1>5. \A k \in 1..m : q[k] \in 1..Len(stdin') /\ stdin'[q[k]] = stdin[p[k]]
  <2> SUFFICES ASSUME NEW k \in 1..m PROVE q[k] \in 1..Len(stdin') /\ stdin'[q[k]] = stdin[p[k]]
    OBVIOUS
  <2>1. q[k] \in 1..Len(stdin') /\ q[k] + 1 = p[k]
    BY <1>3, <1>4
  <2> QED BY <1>3, <2>1
<1>6. q \in [1..m -> 1..Len(stdin')]
  BY <1>5
<1> HIDE DEF q
<1>7. \A k, l \in 1..m : k < l => q[k] < q[l]
  BY <1>2, <1>4 DEF OnStdin
<1>8. \A k \in 1..m : Of(id, stdin'[q[k]]) /\ stdin'[q[k]] = WithId(id, body'[id][n + k])
  BY <1>2, <1>5 DEF OnStdin
<1>9. ASSUME NEW i \in 1..Len(stdin'), Of(id, stdin'[i]) PROVE \E k \in 1..m : q[k] = i
  <2>1. PICK k \in 1..m : p[k] = i + 1
    BY <1>2, <1>3, <1>9 DEF OnStdin
  <2> QED BY <1>4, <2>1
<1>10. OnStdin(id, n, m, q)'
  BY <1>7, <1>8, <1>9 DEF OnStdin
<1> QED BY <1>1, <1>6, <1>10 DEF HasRead, Arriving

\* The loop takes a frame of id: it is the next of the body.
LEMMA OwnTaken ==
  ASSUME TypeOK, NEW id \in Ids, NEW n, HasRead(id, n), stdin # <<>>, stdin' = Tail(stdin), Of(id, stdin[1]),
         body'[id] = body[id], todo'[id] = todo[id]
  PROVE  /\ HasRead(id, n + 1)'
         /\ n + 1 \in 1..Len(body[id]) /\ stdin[1] = WithId(id, body[id][n + 1])
<1>1. PICK m \in Nat : Arriving(id, n, m)
  BY DEF HasRead
<1>2. PICK p \in [1..m -> 1..Len(stdin)] : OnStdin(id, n, m, p)
  BY <1>1 DEF Arriving
<1>3. /\ Len(stdin) \in Nat /\ Len(stdin) >= 1 /\ Len(stdin') = Len(stdin) - 1 /\ n \in Nat
      /\ \A i \in 1..Len(stdin') : stdin'[i] = stdin[i + 1] /\ i + 1 \in 1..Len(stdin)
      /\ todo[id] \in Seq(HostFrames) /\ Len(todo[id]) \in Nat
  BY DEF TypeOK, HasRead
<1>4. m >= 1 /\ p[1] = 1
  <2>1. PICK k \in 1..m : p[k] = 1
    BY <1>2, <1>3 DEF OnStdin
  <2>2. k = 1
    <3>1. 1 \in 1..m /\ p[1] \in 1..Len(stdin)
      BY <1>2, <2>1
    <3>2. ~(1 < k)
      BY <1>2, <2>1, <3>1 DEF OnStdin
    <3> QED BY <3>2
  <2> QED BY <2>1, <2>2
<1>5. stdin[1] = WithId(id, body[id][n + 1])
  <2>1. 1 \in 1..m
    BY <1>4
  <2> QED BY <1>2, <1>4, <2>1 DEF OnStdin
<1>6. n + 1 \in 1..Len(body[id])
  BY <1>1, <1>3, <1>4 DEF Arriving
<1> DEFINE q == [k \in 1..m - 1 |-> p[k + 1] - 1]
<1>7. \A k \in 1..m - 1 : k + 1 \in 1..m /\ q[k] = p[k + 1] - 1 /\ p[k + 1] \in 1..Len(stdin) /\ p[k + 1] > 1
  <2> SUFFICES ASSUME NEW k \in 1..m - 1 PROVE k + 1 \in 1..m /\ p[k + 1] \in 1..Len(stdin) /\ p[k + 1] > 1
    OBVIOUS
  <2>1. k + 1 \in 1..m /\ 1 \in 1..m /\ 1 < k + 1
    BY <1>4
  <2>2. p[k + 1] \in 1..Len(stdin)
    BY <1>2, <2>1
  <2>3. p[1] < p[k + 1]
    BY <1>2, <2>1 DEF OnStdin
  <2> QED BY <1>4, <2>1, <2>2, <2>3
<1>8. \A k \in 1..m - 1 : q[k] \in 1..Len(stdin') /\ stdin'[q[k]] = stdin[p[k + 1]]
  <2> SUFFICES ASSUME NEW k \in 1..m - 1 PROVE q[k] \in 1..Len(stdin') /\ stdin'[q[k]] = stdin[p[k + 1]]
    OBVIOUS
  <2>1. q[k] \in 1..Len(stdin') /\ q[k] + 1 = p[k + 1]
    BY <1>3, <1>7
  <2> QED BY <1>3, <2>1
<1>9. q \in [1..m - 1 -> 1..Len(stdin')]
  BY <1>8
<1> HIDE DEF q
<1>10. \A k, l \in 1..m - 1 : k < l => q[k] < q[l]
  <2> SUFFICES ASSUME NEW k \in 1..m - 1, NEW l \in 1..m - 1, k < l PROVE q[k] < q[l]
    OBVIOUS
  <2>1. p[k + 1] < p[l + 1]
    BY <1>2, <1>7 DEF OnStdin
  <2>2. q[k] = p[k + 1] - 1 /\ q[l] = p[l + 1] - 1 /\ p[k + 1] \in Int /\ p[l + 1] \in Int
    BY <1>7
  <2> QED BY <2>1, <2>2
<1>11. \A k \in 1..m - 1 : Of(id, stdin'[q[k]]) /\ stdin'[q[k]] = WithId(id, body'[id][(n + 1) + k])
  <2> SUFFICES ASSUME NEW k \in 1..m - 1
               PROVE  Of(id, stdin'[q[k]]) /\ stdin'[q[k]] = WithId(id, body[id][(n + 1) + k])
    OBVIOUS
  <2>1. n + (k + 1) = (n + 1) + k
    BY <1>3
  <2> QED BY <1>2, <1>7, <1>8, <2>1 DEF OnStdin
<1>12. ASSUME NEW i \in 1..Len(stdin'), Of(id, stdin'[i]) PROVE \E k \in 1..m - 1 : q[k] = i
  <2>1. PICK k \in 1..m : p[k] = i + 1
    BY <1>2, <1>3, <1>12 DEF OnStdin
  <2>2. k # 1
    BY <1>4, <2>1
  <2>3. k - 1 \in 1..m - 1 /\ (k - 1) + 1 = k
    BY <2>2
  <2>4. q[k - 1] = (i + 1) - 1
    BY <1>7, <2>1, <2>3
  <2> QED BY <2>3, <2>4
<1>13. OnStdin(id, n + 1, m - 1, q)'
  BY <1>10, <1>11, <1>12 DEF OnStdin
<1>14. (n + 1) + (m - 1) + Len(todo[id]) = Len(body[id])
  BY <1>1, <1>3 DEF Arriving
<1>15. \A k \in 1..Len(todo[id]) : todo[id][k] = body[id][(n + 1) + (m - 1) + k]
  <2>1. \A k \in 1..Len(todo[id]) : (n + 1) + (m - 1) + k = n + m + k
    BY <1>3
  <2> QED BY <1>1, <2>1 DEF Arriving
<1>16. Arriving(id, n + 1, m - 1)'
  BY <1>9, <1>13, <1>14, <1>15 DEF Arriving
<1>17. n + 1 \in Nat /\ m - 1 \in Nat
  BY <1>3, <1>4
<1> QED BY <1>5, <1>6, <1>16, <1>17 DEF HasRead

-----------------------------------------------------------------------------
(***************************************************************************)
(* The streams of a request hold what has been read of it                  *)
(***************************************************************************)

\* The data of a prefix of a body.
LEMMA DataOfPrefix ==
  ASSUME NEW b \in Seq(HostFrames), NEW s
  PROVE  /\ DataOf(SubSeq(b, 1, 0), s) = <<>>
         /\ \A n \in Nat : n + 1 \in 1..Len(b) =>
              DataOf(SubSeq(b, 1, n + 1), s) =
                IF b[n + 1].type = "CHUNK" /\ b[n + 1].stream = s
                THEN Append(DataOf(SubSeq(b, 1, n), s), b[n + 1].data) ELSE DataOf(SubSeq(b, 1, n), s)
<1>1. SubSeq(b, 1, 0) = <<>>
  OBVIOUS
<1>2. ASSUME NEW n \in Nat, n + 1 \in 1..Len(b)
      PROVE  DataOf(SubSeq(b, 1, n + 1), s) =
               IF b[n + 1].type = "CHUNK" /\ b[n + 1].stream = s
               THEN Append(DataOf(SubSeq(b, 1, n), s), b[n + 1].data) ELSE DataOf(SubSeq(b, 1, n), s)
  <2> DEFINE u == SubSeq(b, 1, n)
             v == SubSeq(b, 1, n + 1)
  <2>1. /\ Len(u) = n /\ Len(v) = n + 1 /\ \A i \in 1..n : u[i] = b[i] /\ v[i] = b[i]
        /\ v[n + 1] = b[n + 1]
    BY <1>2
  <2> HIDE DEF u, v
  <2>2. Len(u) \in Nat /\ Len(v) = Len(u) + 1 /\ \A i \in 1..Len(u) : v[i] = u[i]
    BY <2>1
  <2>3. DataOf(v, s) = IF v[Len(v)].type = "CHUNK" /\ v[Len(v)].stream = s
                       THEN Append(DataOf(u, s), v[Len(v)].data) ELSE DataOf(u, s)
    BY <2>2, DataOfLonger
  <2> QED BY <2>1, <2>3 DEF u, v
<1> QED BY <1>1, <1>2, DataOfEmpty

LEMMA EndOfBody ==
  ASSUME NEW b \in Seq(HostFrames), NEW n \in Nat, n + 1 \in 1..Len(b), b[n + 1].type = "END",
         \A i \in 1..n : b[i].type # "END"
  PROVE  UpToEnd(b) = SubSeq(b, 1, n + 1)
<1> DEFINE IsEnd(i) == i \in DOMAIN b /\ b[i].type = "END" /\ \A j \in 1..i - 1 : b[j].type # "END"
<1>1. IsEnd(n + 1)
  OBVIOUS
<1>2. ASSUME NEW i, IsEnd(i) PROVE i = n + 1
  <2>1. i \in 1..Len(b) /\ Len(b) \in Nat /\ i \in Int
    BY <1>2
  <2>2. ~(i <= n)
    BY <1>2, <2>1
  <2>3. ~(n + 1 < i)
    <3> SUFFICES ASSUME n + 1 < i PROVE FALSE
      OBVIOUS
    <3>1. n + 1 \in 1..i - 1
      BY <2>1
    <3> QED BY <1>2, <3>1
  <2> QED BY <2>1, <2>2, <2>3
<1>3. (CHOOSE i \in DOMAIN b : b[i].type = "END" /\ \A j \in 1..i - 1 : b[j].type # "END") = n + 1
  BY <1>1, <1>2
<1> QED BY <1>3 DEF UpToEnd

\* What a frame does to the streams of its request.
Collects(old, new, f) ==
  \/ f.type = "REQ" /\ new = <<>>
  \/ /\ f.type \notin {"REQ", "CHUNK"} /\ Len(new) = Len(old)
     /\ \A k \in 1..Len(old) : new[k].id = old[k].id /\ new[k].chunks = old[k].chunks
  \/ /\ f.type = "STREAM_START" /\ \A k \in 1..Len(old) : old[k].id # f.stream
     /\ Len(new) = Len(old) + 1
     /\ \A k \in 1..Len(old) : new[k] = old[k]
     /\ new[Len(new)].id = f.stream /\ new[Len(new)].chunks = <<>>
  \/ /\ f.type = "CHUNK" /\ Len(new) = Len(old)
     /\ \A k \in 1..Len(old) : new[k].id = old[k].id
     /\ \A k \in 1..Len(old) :
          new[k].chunks = IF old[k].id = f.stream THEN Append(old[k].chunks, f.data) ELSE old[k].chunks
     /\ \E k \in 1..Len(old) : old[k].id = f.stream

LEMMA HoldsMore ==
  ASSUME NEW old \in Seq(Streams), NEW new \in Seq(Streams), NEW f, Collects(old, new, f),
         f.type # "REQ", Distinct(old)
  PROVE  /\ Distinct(new)
         /\ \A s, d : Holds(old, s, d) =>
              Holds(new, s, IF f.type = "CHUNK" /\ f.stream = s THEN Append(d, f.data) ELSE d)
<1>0. Len(old) \in Nat /\ Len(new) \in Nat
  OBVIOUS
<1>1. ASSUME f.type # "CHUNK", Len(new) = Len(old),
             \A k \in 1..Len(old) : new[k].id = old[k].id /\ new[k].chunks = old[k].chunks
      PROVE  Distinct(new) /\ \A s, d : Holds(old, s, d) => Holds(new, s, d)
  <2>1. Distinct(new)
    BY <1>1 DEF Distinct
  <2>2. ASSUME NEW s, NEW d, Holds(old, s, d) PROVE Holds(new, s, d)
    BY <1>1, <2>2 DEF Holds
  <2> QED BY <2>1, <2>2
<1>2. ASSUME f.type = "STREAM_START", \A k \in 1..Len(old) : old[k].id # f.stream,
             Len(new) = Len(old) + 1, \A k \in 1..Len(old) : new[k] = old[k],
             new[Len(new)].id = f.stream, new[Len(new)].chunks = <<>>
      PROVE  Distinct(new) /\ \A s, d : Holds(old, s, d) => Holds(new, s, d)
  <2>1. \A k \in 1..Len(new) : k \in 1..Len(old) \/ k = Len(new)
    BY <1>0, <1>2
  <2>2. Distinct(new)
    <3> SUFFICES ASSUME NEW k \in 1..Len(new), NEW l \in 1..Len(new), new[k].id = new[l].id PROVE k = l
      BY DEF Distinct
    <3>1. CASE k \in 1..Len(old) /\ l \in 1..Len(old)
      BY <1>2, <3>1 DEF Distinct
    <3>2. CASE k \in 1..Len(old) /\ l = Len(new)
      BY <1>2, <3>2
    <3>3. CASE k = Len(new) /\ l \in 1..Len(old)
      BY <1>2, <3>3
    <3> QED BY <2>1, <3>1, <3>2, <3>3
  <2>3. ASSUME NEW s, NEW d, Holds(old, s, d) PROVE Holds(new, s, d)
    <3>1. CASE \E k \in 1..Len(old) : old[k].id = s /\ d = old[k].chunks
      <4>1. PICK k \in 1..Len(old) : old[k].id = s /\ d = old[k].chunks
        BY <3>1
      <4>2. k \in 1..Len(new) /\ new[k] = old[k]
        BY <1>0, <1>2
      <4> QED BY <4>1, <4>2 DEF Holds
    <3>2. CASE (\A k \in 1..Len(old) : old[k].id # s) /\ d = <<>>
      <4>1. CASE s = f.stream
        <5>1. Len(new) \in 1..Len(new)
          BY <1>0, <1>2
        <5> QED BY <1>2, <3>2, <4>1, <5>1 DEF Holds
      <4>2. CASE s # f.stream
        BY <1>2, <2>1, <3>2, <4>2 DEF Holds
      <4> QED BY <4>1, <4>2
    <3> QED BY <2>3, <3>1, <3>2 DEF Holds
  <2> QED BY <2>2, <2>3
<1>3. ASSUME f.type = "CHUNK", Len(new) = Len(old), \A k \in 1..Len(old) : new[k].id = old[k].id,
             \A k \in 1..Len(old) :
               new[k].chunks = IF old[k].id = f.stream THEN Append(old[k].chunks, f.data) ELSE old[k].chunks,
             \E k \in 1..Len(old) : old[k].id = f.stream
      PROVE  /\ Distinct(new)
             /\ \A s, d : Holds(old, s, d) => Holds(new, s, IF f.stream = s THEN Append(d, f.data) ELSE d)
  <2>1. Distinct(new)
    BY <1>3 DEF Distinct
  <2>2. ASSUME NEW s, NEW d, Holds(old, s, d)
        PROVE  Holds(new, s, IF f.stream = s THEN Append(d, f.data) ELSE d)
    <3>1. CASE \E k \in 1..Len(old) : old[k].id = s /\ d = old[k].chunks
      <4>1. PICK k \in 1..Len(old) : old[k].id = s /\ d = old[k].chunks
        BY <3>1
      <4>2. k \in 1..Len(new) /\ new[k].id = s /\ new[k].chunks = IF f.stream = s THEN Append(d, f.data) ELSE d
        BY <1>3, <4>1
      <4> QED BY <4>2 DEF Holds
    <3>2. CASE (\A k \in 1..Len(old) : old[k].id # s) /\ d = <<>>
      BY <1>3, <3>2 DEF Holds
    <3> QED BY <2>2, <3>1, <3>2 DEF Holds
  <2> QED BY <2>1, <2>2
<1> QED BY <1>1, <1>2, <1>3 DEF Collects

\* A frame of its body is read while r is collected, or is not collected after it.
LEMMA CollectedGrows ==
  ASSUME TypeOK, TypeOK', NEW r \in Requests, NEW n \in Nat, CollectedInv(r, n), n + 1 \in 1..Len(body[r]), body' = body,
         NEW f, f = WithId(r, body[r][n + 1]),
         r \in DOMAIN pendingIncoming' /\ ~Corrupt(r) =>
           /\ f.type # "END"
           /\ f.type # "REQ" => r \in DOMAIN pendingIncoming
           /\ Collects(pendingIncoming[r], pendingIncoming'[r], f)
  PROVE  CollectedInv(r, n + 1)'
<1> DEFINE b == body[r]
           g == b[n + 1]
<1>1. b \in Seq(HostFrames) /\ g \in HostFrames /\ r \in Ids
  BY IdsFacts DEF TypeOK
<1>2. f.type = g.type /\ f.stream = g.stream /\ f.data = g.data
  <2> HIDE DEF g
  <2> QED BY <1>1 DEF WithId, g
<1>3. n + 1 # 0 /\ \A i \in 1..Len(b) : b[i].type = "REQ" => i = 1
  BY DEF CollectedInv
<1> SUFFICES ASSUME ~Corrupt(r), r \in DOMAIN pendingIncoming'
             PROVE  /\ \A i \in 1..n + 1 : b[i].type # "END"
                    /\ Distinct(pendingIncoming'[r])
                    /\ \A s \in STRING : Holds(pendingIncoming'[r], s, DataOf(SubSeq(b, 1, n + 1), s))
  BY <1>3 DEF CollectedInv, Corrupt
<1> DEFINE new == pendingIncoming'[r]
           old == pendingIncoming[r]
<1>4. g.type # "END" /\ (g.type # "REQ" => r \in DOMAIN pendingIncoming) /\ Collects(old, new, f)
  BY <1>2
<1>5. new \in Seq(Streams)
  BY DEF TypeOK
<1>6. CASE g.type = "REQ"
  <2>1. n = 0 /\ b[1].type = "REQ" /\ 0 + 1 = 1 /\ 0 \in Nat
    BY <1>3, <1>6
  <2>2. new = <<>>
    BY <1>2, <1>4, <1>6 DEF Collects
  <2>3. \A i \in 1..n + 1 : b[i].type # "END"
    BY <2>1
  <2>4. \A s \in STRING : DataOf(SubSeq(b, 1, n + 1), s) = <<>>
    BY <1>1, <2>1, DataOfPrefix
  <2>5. Len(new) = 0
    BY <2>2
  <2>6. Distinct(new)
    BY <2>5 DEF Distinct
  <2>7. \A s : Holds(new, s, <<>>)
    <3> HIDE DEF new
    <3> QED BY <2>5 DEF Holds
  <2>8. \A s \in STRING : Holds(new, s, DataOf(SubSeq(b, 1, n + 1), s))
    BY <2>4, <2>7
  <2> QED BY <2>3, <2>6, <2>8
<1>7. CASE g.type # "REQ"
  <2>1. r \in DOMAIN pendingIncoming /\ old \in Seq(Streams)
    BY <1>4, <1>7 DEF TypeOK
  <2>2. /\ \A i \in 1..n : b[i].type # "END" /\ Distinct(old)
        /\ \A s \in STRING : Holds(old, s, DataOf(SubSeq(b, 1, n), s))
    BY <2>1 DEF CollectedInv
  <2>3. \A i \in 1..n + 1 : b[i].type # "END"
    <3>1. \A i \in 1..n + 1 : i \in 1..n \/ i = n + 1
      OBVIOUS
    <3> QED BY <1>4, <2>2, <3>1
  <2>4. f.type # "REQ" /\ Distinct(old)
    BY <1>2, <1>7, <2>1 DEF CollectedInv
  <2> HIDE DEF old, new
  <2>5. /\ Distinct(new)
        /\ \A s, d : Holds(old, s, d) =>
             Holds(new, s, IF f.type = "CHUNK" /\ f.stream = s THEN Append(d, f.data) ELSE d)
    BY <1>4, <1>5, <2>1, <2>4, HoldsMore
  <2>6. ASSUME NEW s \in STRING PROVE Holds(new, s, DataOf(SubSeq(b, 1, n + 1), s))
    <3>1. Holds(old, s, DataOf(SubSeq(b, 1, n), s))
      BY <2>2
    <3>2. DataOf(SubSeq(b, 1, n + 1), s) =
            IF g.type = "CHUNK" /\ g.stream = s THEN Append(DataOf(SubSeq(b, 1, n), s), g.data)
            ELSE DataOf(SubSeq(b, 1, n), s)
      BY <1>1, DataOfPrefix
    <3> QED BY <1>2, <2>5, <3>1, <3>2
  <2> QED BY <2>3, <2>5, <2>6 DEF new
<1> QED BY <1>6, <1>7

-----------------------------------------------------------------------------
(***************************************************************************)
(* The feeder pushes the streams one after the other                       *)
(***************************************************************************)

LEMMA StreamsTyped ==
  ASSUME NEW streams \in Seq(Streams)
  PROVE  /\ Len(streams) \in Nat
         /\ \A k \in 1..Len(streams) : streams[k].chunks \in Seq(Int) /\ streams[k].id \in STRING
<1>1. Len(streams) \in Nat /\ \A k \in 1..Len(streams) : streams[k] \in Streams
  OBVIOUS
<1> QED BY <1>1 DEF Streams

LEMMA ItemsOfStream ==
  ASSUME NEW s \in Streams
  PROVE  LET all == StreamItems(s)
             m == Len(s.chunks)
         IN /\ s.chunks \in Seq(Int) /\ m \in Nat /\ all \in Seq(Items) /\ Len(all) = m + 2
            /\ all[1].type = "STREAM_START" /\ all[m + 2].type = "STREAM_END"
            /\ \A k \in 2..m + 1 : all[k] = Item("CHUNK", s.id, s.chunks[k - 1])
<1> DEFINE m == Len(s.chunks)
           start == Item("STREAM_START", s.id, 0)
           stop == Item("STREAM_END", s.id, m)
           chunks == [i \in DOMAIN s.chunks |-> Item("CHUNK", s.id, s.chunks[i])]
<1>1. s.chunks \in Seq(Int) /\ s.id \in STRING /\ m \in Nat /\ DOMAIN s.chunks = 1..m
  BY DEF Streams
<1>2. /\ start \in Items /\ start.type = "STREAM_START" /\ stop \in Items /\ stop.type = "STREAM_END"
      /\ \A i \in 1..m : Item("CHUNK", s.id, s.chunks[i]) \in Items
  BY <1>1 DEF Item, Items
<1>3. chunks \in Seq(Items) /\ Len(chunks) = m /\ \A i \in 1..m : chunks[i] = Item("CHUNK", s.id, s.chunks[i])
  <2>1. chunks \in [1..m -> Items]
    BY <1>1, <1>2
  <2> QED BY <1>1, <2>1
<1>4. StreamItems(s) = (<<start>> \o chunks) \o <<stop>>
  BY DEF StreamItems
<1> HIDE DEF start, stop, chunks, m
<1> DEFINE front == <<start>> \o chunks
<1>5. /\ front \in Seq(Items) /\ Len(front) = m + 1 /\ front[1] = start
      /\ \A i \in 2..m + 1 : front[i] = chunks[i - 1]
  BY <1>1, <1>2, <1>3
<1> HIDE DEF front
<1>6. /\ front \o <<stop>> \in Seq(Items) /\ Len(front \o <<stop>>) = m + 2 /\ (front \o <<stop>>)[m + 2] = stop
      /\ \A i \in 1..m + 1 : (front \o <<stop>>)[i] = front[i]
  BY <1>1, <1>2, <1>5
<1>7. ASSUME NEW k \in 2..m + 1 PROVE (front \o <<stop>>)[k] = Item("CHUNK", s.id, s.chunks[k - 1])
  <2>1. k \in 1..m + 1 /\ k - 1 \in 1..m
    BY <1>1
  <2> QED BY <1>3, <1>5, <1>6, <2>1
<1>8. (front \o <<stop>>)[1] = start
  BY <1>1, <1>5, <1>6
<1> QED BY <1>1, <1>2, <1>4, <1>6, <1>7, <1>8 DEF front, m

\* At first nothing is pushed.
LEMMA FeederStarts ==
  ASSUME NEW streams \in Seq(Streams)
  PROVE  AtItem(InputOf(streams), streams, 1, 1) /\ Pushes(<<>>, streams, 1, 1)
<1> DEFINE m == Len(streams)
           front == [k \in DOMAIN streams |-> StreamItems(streams[k])]
           last == <<Item("END", "none", 0)>>
<1>1. m \in Nat /\ DOMAIN streams = 1..m /\ \A k \in 1..m : streams[k] \in Streams
  OBVIOUS
<1>2. \A k \in 1..m : front[k] = StreamItems(streams[k]) /\ StreamItems(streams[k]) \in Seq(Items)
  BY <1>1, ItemsOfStream
<1>3. front \in Seq(Seq(Items)) /\ Len(front) = m
  <2>1. front \in [1..m -> Seq(Items)]
    BY <1>1, <1>2
  <2> QED BY <1>1, <2>1
<1>4. last \in Seq(Items)
  <2>1. Item("END", "none", 0) \in Items
    BY DEF Item, Items
  <2> QED BY <2>1
<1>5. InputOf(streams) = Append(front, last)
  BY DEF InputOf
<1> HIDE DEF front, last
<1>6. /\ Len(Append(front, last)) = m + 1 /\ Append(front, last)[m + 1] = last
      /\ \A k \in 1..m : Append(front, last)[k] = front[k]
  BY <1>1, <1>3, <1>4
<1>7. ASSUME 1 <= m
      PROVE  LET all == StreamItems(streams[1])
                 part == Append(front, last)[1]
             IN 1 <= Len(all) /\ Len(part) = Len(all) + 1 - 1 /\ \A k \in 1..Len(part) : part[k] = all[1 + k - 1]
  <2>1. 1 \in 1..m
    BY <1>1, <1>7
  <2>2. Append(front, last)[1] = StreamItems(streams[1])
    BY <1>2, <1>6, <2>1
  <2>3. streams[1] \in Streams
    BY <1>1, <2>1
  <2>4. Len(StreamItems(streams[1])) \in Nat /\ 1 <= Len(StreamItems(streams[1]))
    <3>1. PICK s : s = streams[1]
      OBVIOUS
    <3>2. Len(StreamItems(s)) \in Nat /\ Len(StreamItems(s)) = Len(s.chunks) + 2 /\ Len(s.chunks) \in Nat
      BY <2>3, <3>1, ItemsOfStream
    <3> QED BY <3>1, <3>2
  <2>5. \A k \in 1..Len(StreamItems(streams[1])) : 1 + k - 1 = k
    BY <2>4
  <2> QED BY <2>2, <2>4, <2>5
<1>8. m + 2 - 1 = m + 1 /\ m + 1 - 1 = m /\ 1 <= m + 1
  BY <1>1
<1>9. \A k \in 2..m : Append(front, last)[k] = StreamItems(streams[1 + k - 1])
  <2> SUFFICES ASSUME NEW k \in 2..m PROVE Append(front, last)[k] = StreamItems(streams[1 + k - 1])
    OBVIOUS
  <2>1. k \in 1..m /\ 1 + k - 1 = k
    OBVIOUS
  <2> QED BY <1>2, <1>6, <2>1
<1>10. AtItem(InputOf(streams), streams, 1, 1)
  BY <1>5, <1>6, <1>7, <1>8, <1>9 DEF AtItem, last
<1>11. Pushes(<<>>, streams, 1, 1)
  <2>1. \A s : DataOf(<<>>, s) = <<>>
    BY DataOfEmpty
  <2>2. Len(<<>>) = 0 /\ ~ \E k \in 1..0 : TRUE
    OBVIOUS
  <2>3. ASSUME NEW k \in 1..m
        PROVE  DataOf(<<>>, streams[k].id) =
                 IF k < 1 THEN streams[k].chunks ELSE IF k = 1 THEN SubSeq(streams[k].chunks, 1, 1 - 2) ELSE <<>>
    <3>1. streams[k].chunks \in Seq(Int) /\ ~(k < 1)
      BY StreamsTyped
    <3>2. SubSeq(streams[k].chunks, 1, 1 - 2) = <<>>
      BY <3>1
    <3>3. DataOf(<<>>, streams[k].id) = <<>>
      BY <2>1
    <3> QED BY <3>1, <3>2, <3>3
  <2> HIDE DEF m
  <2> QED BY <2>1, <2>2, <2>3 DEF Pushes, m
<1> QED BY <1>10, <1>11

\* One item more.
LEMMA OneMore ==
  ASSUME NEW items \in Seq(Items), NEW x \in Items
  PROVE  /\ Append(items, x) \in Seq(Items)
         /\ \A s : DataOf(Append(items, x), s) =
              IF x.type = "CHUNK" /\ x.stream = s THEN Append(DataOf(items, s), x.data) ELSE DataOf(items, s)
<1> DEFINE t == Append(items, x)
<1>1. /\ t \in Seq(Items) /\ Len(items) \in Nat /\ Len(t) = Len(items) + 1 /\ t[Len(t)] = x
      /\ \A i \in 1..Len(items) : t[i] = items[i]
  OBVIOUS
<1> HIDE DEF t
<1>2. ASSUME NEW s
      PROVE  DataOf(t, s) =
               IF x.type = "CHUNK" /\ x.stream = s THEN Append(DataOf(items, s), x.data) ELSE DataOf(items, s)
  <2>1. DataOf(t, s) =
          IF t[Len(t)].type = "CHUNK" /\ t[Len(t)].stream = s
          THEN Append(DataOf(items, s), t[Len(t)].data) ELSE DataOf(items, s)
    BY <1>1, DataOfLonger
  <2> QED BY <1>1, <2>1
<1> QED BY <1>1, <1>2 DEF t

\* END, the last item of all.
LEMMA PushesEnd ==
  ASSUME NEW streams \in Seq(Streams), NEW items \in Seq(Items), NEW x \in Items, x.type = "END",
         NEW c, Pushes(items, streams, Len(streams) + 1, c)
  PROVE  Pushes(Append(items, x), streams, Len(streams) + 2, 1)
<1> DEFINE m == Len(streams)
           t == Append(items, x)
<1>1. m \in Nat /\ Len(items) \in Nat /\ m + 1 # m + 2
  OBVIOUS
<1>2. t \in Seq(Items) /\ Len(t) = Len(items) + 1 /\ \A k \in 1..Len(items) : t[k] = items[k]
  OBVIOUS
<1>3. \A s : DataOf(t, s) = DataOf(items, s)
  BY OneMore
<1> HIDE DEF t
<1>4. \A k \in 1..Len(items) : items[k].type # "END"
  BY <1>1 DEF Pushes
<1>5. \A k \in 1..Len(t) : t[k].type = "END" => k = Len(t)
  <2>1. \A k \in 1..Len(t) : k \in 1..Len(items) \/ k = Len(t)
    BY <1>1, <1>2
  <2> QED BY <1>2, <1>4, <2>1
<1>6. \A k \in 1..m : DataOf(t, streams[k].id) = streams[k].chunks
  <2>1. \A k \in 1..m : k < m + 1
    BY <1>1
  <2> QED BY <1>3, <2>1 DEF Pushes
<1>7. \A k \in 1..m : k < m + 2
  BY <1>1
<1>8. \A s \in STRING : (\A k \in 1..m : streams[k].id # s) => DataOf(t, s) = <<>>
  BY <1>3 DEF Pushes
<1> QED BY <1>5, <1>6, <1>7, <1>8 DEF Pushes, t

\* The last item of a stream.
LEMMA PushesStop ==
  ASSUME NEW streams \in Seq(Streams), NEW i \in 1..Len(streams), NEW items \in Seq(Items), NEW x \in Items,
         x.type = "STREAM_END", Pushes(items, streams, i, Len(streams[i].chunks) + 2)
  PROVE  Pushes(Append(items, x), streams, i + 1, 1)
<1> DEFINE m == Len(streams)
           t == Append(items, x)
<1>1. m \in Nat /\ i # m + 2 /\ \A k \in 1..m : streams[k].chunks \in Seq(Int)
  BY StreamsTyped
<1>2. t \in Seq(Items) /\ Len(t) = Len(items) + 1 /\ Len(items) \in Nat /\ t[Len(items) + 1] = x
      /\ \A k \in 1..Len(items) : t[k] = items[k]
  OBVIOUS
<1>3. \A s : DataOf(t, s) = DataOf(items, s)
  BY OneMore
<1> HIDE DEF t
<1>4. \A k \in 1..Len(t) : t[k].type # "END"
  <2>1. \A k \in 1..Len(t) : k \in 1..Len(items) \/ k = Len(items) + 1
    BY <1>2
  <2>2. \A k \in 1..Len(items) : items[k].type # "END"
    BY <1>1 DEF Pushes
  <2> QED BY <1>2, <2>1, <2>2
<1>5. ASSUME NEW k \in 1..m
      PROVE  DataOf(t, streams[k].id) =
               IF k < i + 1 THEN streams[k].chunks
               ELSE IF k = i + 1 THEN SubSeq(streams[k].chunks, 1, 1 - 2) ELSE <<>>
  <2>1. DataOf(t, streams[k].id) =
          IF k < i THEN streams[k].chunks
          ELSE IF k = i THEN SubSeq(streams[k].chunks, 1, Len(streams[i].chunks) + 2 - 2) ELSE <<>>
    BY <1>3 DEF Pushes
  <2>2. \A q \in Seq(Int) : SubSeq(q, 1, Len(q) + 2 - 2) = q /\ SubSeq(q, 1, 1 - 2) = <<>>
    OBVIOUS
  <2>3. CASE k < i
    <3>1. k < i + 1
      BY <2>3
    <3> QED BY <2>1, <2>3, <3>1
  <2>4. CASE k = i
    <3>1. k < i + 1 /\ ~(k < i)
      BY <2>4
    <3>2. SubSeq(streams[k].chunks, 1, Len(streams[i].chunks) + 2 - 2) = streams[k].chunks
      BY <1>1, <2>2, <2>4
    <3> QED BY <2>1, <2>4, <3>1, <3>2
  <2>5. CASE k = i + 1
    <3>1. ~(k < i + 1) /\ ~(k < i) /\ k # i
      BY <2>5
    <3>2. SubSeq(streams[k].chunks, 1, 1 - 2) = <<>>
      BY <1>1, <2>2
    <3> QED BY <2>1, <2>5, <3>1, <3>2
  <2>6. CASE k > i + 1
    <3>1. ~(k < i + 1) /\ ~(k < i) /\ k # i /\ k # i + 1
      BY <2>6
    <3> QED BY <2>1, <3>1
  <2> QED BY <2>3, <2>4, <2>5, <2>6
<1>6. \A s \in STRING : (\A k \in 1..m : streams[k].id # s) => DataOf(t, s) = <<>>
  BY <1>3 DEF Pushes
<1> QED BY <1>4, <1>5, <1>6 DEF Pushes, t

\* Any other item of a stream.
LEMMA PushesItem ==
  ASSUME NEW streams \in Seq(Streams), Distinct(streams), NEW i \in 1..Len(streams), NEW c \in Nat \ {0},
         c <= Len(streams[i].chunks) + 1, NEW items \in Seq(Items), Pushes(items, streams, i, c)
  PROVE  Pushes(Append(items, StreamItems(streams[i])[c]), streams, i, c + 1)
<1> DEFINE m == Len(streams)
           x == StreamItems(streams[i])[c]
           chunks == streams[i].chunks
           t == Append(items, x)
<1>1. m \in Nat /\ i # m + 2 /\ \A k \in 1..m : streams[k].chunks \in Seq(Int) /\ streams[k].id \in STRING
  BY StreamsTyped
<1>2. /\ x \in Items /\ (c = 1 \/ c \in 2..Len(chunks) + 1)
      /\ c = 1 => x.type = "STREAM_START"
      /\ c # 1 => x.type = "CHUNK" /\ x.stream = streams[i].id /\ x.data = chunks[c - 1]
  <2>1. /\ chunks \in Seq(Int) /\ Len(chunks) \in Nat
        /\ StreamItems(streams[i]) \in Seq(Items) /\ Len(StreamItems(streams[i])) = Len(chunks) + 2
        /\ StreamItems(streams[i])[1].type = "STREAM_START"
        /\ \A k \in 2..Len(chunks) + 1 : StreamItems(streams[i])[k] = Item("CHUNK", streams[i].id, chunks[k - 1])
    <3>1. streams[i] \in Streams
      OBVIOUS
    <3> QED BY <3>1, ItemsOfStream
  <2>2. x \in Items
    BY <2>1
  <2>3. c = 1 \/ c \in 2..Len(chunks) + 1
    BY <2>1
  <2>4. c # 1 => x = Item("CHUNK", streams[i].id, chunks[c - 1])
    BY <2>1, <2>3
  <2>5. c # 1 => x.type = "CHUNK" /\ x.stream = streams[i].id /\ x.data = chunks[c - 1]
    BY <2>4 DEF Item
  <2>6. c = 1 => x.type = "STREAM_START"
    BY <2>1
  <2> QED BY <2>2, <2>3, <2>5, <2>6
<1>3. x \in Items /\ x.type # "END"
  <2>1. x \in Items
    <3>1. streams[i] \in Streams
      OBVIOUS
    <3>2. StreamItems(streams[i]) \in Seq(Items) /\ Len(StreamItems(streams[i])) = Len(chunks) + 2 /\ Len(chunks) \in Nat
      BY <3>1, ItemsOfStream
    <3> QED BY <3>2
  <2> QED BY <1>2, <2>1
<1> HIDE DEF x
<1>4. t \in Seq(Items) /\ Len(t) = Len(items) + 1 /\ Len(items) \in Nat /\ t[Len(items) + 1] = x
      /\ \A k \in 1..Len(items) : t[k] = items[k]
  BY <1>3
<1>5. \A s : DataOf(t, s) = IF x.type = "CHUNK" /\ x.stream = s THEN Append(DataOf(items, s), x.data) ELSE DataOf(items, s)
  BY <1>3, OneMore
<1> HIDE DEF t
<1>6. \A k \in 1..Len(t) : t[k].type # "END"
  <2>1. \A k \in 1..Len(t) : k \in 1..Len(items) \/ k = Len(items) + 1
    BY <1>4
  <2>2. \A k \in 1..Len(items) : items[k].type # "END"
    BY <1>1 DEF Pushes
  <2> QED BY <1>3, <1>4, <2>1, <2>2
<1>7. ASSUME NEW k \in 1..m, k # i PROVE DataOf(t, streams[k].id) = DataOf(items, streams[k].id)
  <2>1. streams[k].id # streams[i].id
    BY <1>7 DEF Distinct
  <2> QED BY <1>2, <1>5, <2>1
<1>8. DataOf(t, streams[i].id) = SubSeq(chunks, 1, c + 1 - 2)
  <2>1. DataOf(items, streams[i].id) = SubSeq(chunks, 1, c - 2)
    <3>1. ~(i < i) /\ i \in 1..m
      OBVIOUS
    <3>2. DataOf(items, streams[i].id) =
            IF i < i THEN streams[i].chunks ELSE IF i = i THEN SubSeq(streams[i].chunks, 1, c - 2) ELSE <<>>
      BY <3>1 DEF Pushes
    <3> QED BY <3>1, <3>2
  <2>2. chunks \in Seq(Int)
    BY <1>1
  <2>3. CASE c = 1
    <3>1. DataOf(t, streams[i].id) = SubSeq(chunks, 1, 1 - 2)
      BY <1>2, <1>5, <2>1, <2>3
    <3>2. SubSeq(chunks, 1, 1 - 2) = <<>> /\ SubSeq(chunks, 1, 1 + 1 - 2) = <<>>
      BY <2>2
    <3> QED BY <2>3, <3>1, <3>2
  <2>4. CASE c # 1
    <3>1. c \in 2..Len(chunks) + 1 /\ Len(chunks) \in Nat
      BY <1>2, <2>2, <2>4
    <3>2. DataOf(t, streams[i].id) = Append(SubSeq(chunks, 1, c - 2), chunks[c - 1])
      BY <1>2, <1>5, <2>1, <2>4
    <3>3. \A j \in 1..Len(chunks) : Append(SubSeq(chunks, 1, j - 1), chunks[j]) = SubSeq(chunks, 1, j)
      BY <2>2
    <3>4. c - 1 \in 1..Len(chunks) /\ (c - 1) - 1 = c - 2 /\ c + 1 - 2 = c - 1
      BY <3>1
    <3> HIDE DEF chunks
    <3> QED BY <3>2, <3>3, <3>4
  <2> QED BY <2>3, <2>4
<1>9. ASSUME NEW k \in 1..m
      PROVE  DataOf(t, streams[k].id) =
               IF k < i THEN streams[k].chunks ELSE IF k = i THEN SubSeq(streams[k].chunks, 1, c + 1 - 2) ELSE <<>>
  <2>1. CASE k = i
    <3>1. ~(k < i)
      BY <2>1
    <3> QED BY <1>8, <2>1, <3>1
  <2>2. CASE k # i
    <3>1. DataOf(items, streams[k].id) = IF k < i THEN streams[k].chunks ELSE <<>>
      BY <2>2 DEF Pushes
    <3> QED BY <1>7, <2>2, <3>1
  <2> QED BY <2>1, <2>2
<1>10. \A s \in STRING : (\A k \in 1..m : streams[k].id # s) => DataOf(t, s) = <<>>
  <2> SUFFICES ASSUME NEW s \in STRING, \A k \in 1..m : streams[k].id # s PROVE DataOf(t, s) = <<>>
    OBVIOUS
  <2>1. DataOf(items, s) = <<>>
    BY DEF Pushes
  <2> QED BY <1>2, <1>5, <2>1
<1> QED BY <1>6, <1>9, <1>10 DEF Pushes, t, x

\* The feeder of streams is past part i when it has pushed the last item of it.
LEMMA AtNextPart ==
  ASSUME NEW streams \in Seq(Streams), NEW i \in 1..Len(streams), NEW c, NEW parts \in Seq(Seq(Items)), parts # <<>>,
         AtItem(parts, streams, i, c)
  PROVE  AtItem(Tail(parts), streams, i + 1, 1)
<1> DEFINE m == Len(streams)
           rest == Tail(parts)
<1>1. m \in Nat /\ i \in Nat /\ i <= m /\ i + 1 <= m + 1 /\ i <= m + 1
  OBVIOUS
<1>2. /\ Len(parts) = m + 2 - i /\ parts[m + 2 - i] = <<Item("END", "none", 0)>>
      /\ \A k \in 2..m + 1 - i : parts[k] = StreamItems(streams[i + k - 1])
  BY <1>1 DEF AtItem
<1>3. Len(rest) = m + 2 - (i + 1) /\ \A k \in 1..m + 2 - (i + 1) : rest[k] = parts[k + 1]
  <2>1. Len(rest) = Len(parts) - 1 /\ \A k \in 1..Len(parts) - 1 : rest[k] = parts[k + 1]
    OBVIOUS
  <2> QED BY <1>1, <1>2, <2>1
<1> HIDE DEF rest
<1>4. rest[m + 2 - (i + 1)] = <<Item("END", "none", 0)>>
  <2>1. m + 2 - (i + 1) \in 1..m + 2 - (i + 1) /\ (m + 2 - (i + 1)) + 1 = m + 2 - i
    BY <1>1
  <2> QED BY <1>2, <1>3, <2>1
<1>5. \A k \in 1..m + 1 - (i + 1) : rest[k] = StreamItems(streams[(i + 1) + k - 1])
  <2> SUFFICES ASSUME NEW k \in 1..m + 1 - (i + 1) PROVE rest[k] = StreamItems(streams[(i + 1) + k - 1])
    OBVIOUS
  <2>1. /\ k \in 1..m + 2 - (i + 1) /\ k + 1 \in 2..m + 1 - i
        /\ i + (k + 1) - 1 = (i + 1) + k - 1
    BY <1>1
  <2>2. parts[k + 1] = StreamItems(streams[i + (k + 1) - 1])
    BY <1>2, <2>1
  <2> QED BY <1>3, <2>1, <2>2
<1>6. ASSUME i + 1 <= m
      PROVE  LET all == StreamItems(streams[i + 1])
             IN /\ 1 <= Len(all) /\ Len(rest[1]) = Len(all) + 1 - 1
                /\ \A k \in 1..Len(rest[1]) : rest[1][k] = all[1 + k - 1]
  <2>1. 1 \in 1..m + 1 - (i + 1) /\ (i + 1) + 1 - 1 = i + 1 /\ i + 1 \in 1..m
    BY <1>1, <1>6
  <2>2. rest[1] = StreamItems(streams[i + 1])
    BY <1>5, <2>1
  <2>3. streams[i + 1] \in Streams
    BY <2>1
  <2>4. Len(StreamItems(streams[i + 1])) \in Nat /\ 1 <= Len(StreamItems(streams[i + 1]))
    <3>1. /\ Len(streams[i + 1].chunks) \in Nat
          /\ Len(StreamItems(streams[i + 1])) = Len(streams[i + 1].chunks) + 2
      BY <2>3, ItemsOfStream
    <3> QED BY <3>1
  <2>5. \A k \in 1..Len(StreamItems(streams[i + 1])) : 1 + k - 1 = k
    BY <2>4
  <2> QED BY <2>2, <2>4, <2>5
<1>7. \A k \in 2..m + 1 - (i + 1) : k \in 1..m + 1 - (i + 1)
  OBVIOUS
<1> QED BY <1>3, <1>4, <1>5, <1>6, <1>7 DEF AtItem, rest

\* It goes on in part i otherwise.
LEMMA AtNextItem ==
  ASSUME NEW streams \in Seq(Streams), NEW i \in 1..Len(streams), NEW c \in Nat \ {0},
         NEW parts \in Seq(Seq(Items)), parts # <<>>,
         AtItem(parts, streams, i, c), parts[1] # <<>>, Len(parts[1]) # 1
  PROVE  /\ AtItem([parts EXCEPT ![1] = Tail(parts[1])], streams, i, c + 1)
         /\ c <= Len(streams[i].chunks) + 1
<1> DEFINE m == Len(streams)
           part == parts[1]
           all == StreamItems(streams[i])
           rest == [parts EXCEPT ![1] = Tail(part)]
<1>1. m \in Nat /\ i \in Nat /\ i <= m /\ i <= m + 1 /\ m + 2 - i > 1
  OBVIOUS
<1>2. /\ Len(parts) = m + 2 - i /\ parts[m + 2 - i] = <<Item("END", "none", 0)>>
      /\ \A k \in 2..m + 1 - i : parts[k] = StreamItems(streams[i + k - 1])
      /\ c <= Len(all) /\ Len(part) = Len(all) + 1 - c /\ \A k \in 1..Len(part) : part[k] = all[c + k - 1]
  BY <1>1 DEF AtItem
<1>3. part \in Seq(Items) /\ Len(part) \in Nat /\ 1 \in 1..Len(parts)
  BY <1>1, <1>2
<1>4. /\ Len(Tail(part)) = Len(part) - 1 /\ Len(part) > 1 /\ Tail(part) \in Seq(Items)
      /\ \A k \in 1..Len(part) - 1 : Tail(part)[k] = part[k + 1]
  BY <1>3, LongTail
<1>5. Len(rest) = Len(parts) /\ rest[1] = Tail(part) /\ \A k \in 2..Len(parts) : rest[k] = parts[k]
  BY <1>3
<1>6. Len(all) = Len(streams[i].chunks) + 2 /\ Len(streams[i].chunks) \in Nat
  <2>1. streams[i] \in Streams
    OBVIOUS
  <2> QED BY <2>1, ItemsOfStream
<1> HIDE DEF rest, all, part
<1>7. c + 1 <= Len(all) /\ Len(rest[1]) = Len(all) + 1 - (c + 1)
  <2>1. Len(part) = Len(all) + 1 - c /\ Len(part) > 1 /\ Len(all) \in Nat /\ Len(part) \in Nat
    BY <1>2, <1>3, <1>4, <1>6
  <2>2. Len(rest[1]) = Len(part) - 1
    BY <1>4, <1>5
  <2> QED BY <2>1, <2>2
<1>8. \A k \in 1..Len(rest[1]) : rest[1][k] = all[(c + 1) + k - 1]
  <2> SUFFICES ASSUME NEW k \in 1..Len(rest[1]) PROVE rest[1][k] = all[(c + 1) + k - 1]
    OBVIOUS
  <2>1. k \in 1..Len(part) - 1 /\ k + 1 \in 1..Len(part) /\ c + (k + 1) - 1 = (c + 1) + k - 1
    <3>1. Len(rest[1]) = Len(part) - 1 /\ Len(part) \in Nat
      BY <1>3, <1>4, <1>5
    <3> QED BY <3>1
  <2>2. part[k + 1] = all[c + (k + 1) - 1]
    BY <1>2, <2>1
  <2> QED BY <1>4, <1>5, <2>1, <2>2
<1>9. rest[m + 2 - i] = <<Item("END", "none", 0)>>
  <2>1. m + 2 - i \in 2..Len(parts)
    BY <1>1, <1>2
  <2> QED BY <1>2, <1>5, <2>1
<1>10. \A k \in 2..m + 1 - i : rest[k] = StreamItems(streams[i + k - 1])
  <2>1. \A k \in 2..m + 1 - i : k \in 2..Len(parts)
    BY <1>1, <1>2
  <2> QED BY <1>2, <1>5, <2>1
<1>11. AtItem(rest, streams, i, c + 1)
  BY <1>2, <1>5, <1>7, <1>8, <1>9, <1>10 DEF AtItem, all
<1> QED BY <1>6, <1>7, <1>11 DEF rest, part, all

\* The feeder pushes one more item of the streams of r.
LEMMA FeedsMore ==
  ASSUME TypeOK, PassedTypeOK, NEW r \in Requests, FeederInv(r), NEW streams \in Seq(Streams), Feeds(r, streams),
         feeder[r] # <<>>,
         feeder'[r] = Pushed(feeder[r]), framesChan'[r] = Append(framesChan[r], Head(Head(feeder[r]))),
         got'[r] = got[r], body'[r] = body[r]
  PROVE  Feeds(r, streams)'
<1> DEFINE m == Len(streams)
           parts == feeder[r]
           part == parts[1]
           x == part[1]
           items == got[r] \o framesChan[r]
<1>1. /\ parts \in Seq(Seq(Items)) /\ parts # <<>> /\ Len(parts) \in Nat /\ 1 \in 1..Len(parts) /\ Head(parts) = part
      /\ part \in Seq(Items) /\ part # <<>> /\ Len(part) \in Nat /\ Len(part) # 0 /\ Head(part) = x /\ x \in Items
  <2>1. /\ parts \in Seq(Seq(Items)) /\ parts # <<>> /\ Len(parts) \in Nat /\ 1 \in 1..Len(parts) /\ Head(parts) = part
        /\ part \in Seq(Items)
    BY DEF TypeOK
  <2>2. part # <<>>
    BY <2>1 DEF FeederInv
  <2> HIDE DEF part
  <2> QED BY <2>1, <2>2
<1>2. items \in Seq(Items) /\ got'[r] \o framesChan'[r] = Append(items, x)
  <2>1. got[r] \in Seq(Items) /\ framesChan[r] \in Seq(Items)
    BY DEF TypeOK, PassedTypeOK
  <2>2. got'[r] \o framesChan'[r] = got[r] \o Append(framesChan[r], x)
    BY <1>1
  <2>3. \A a, b \in Seq(Items), z \in Items : a \o Append(b, z) = Append(a \o b, z) /\ a \o b \in Seq(Items)
    OBVIOUS
  <2> HIDE DEF x
  <2> QED BY <1>1, <2>1, <2>2, <2>3 DEF x
<1>3. m \in Nat
  OBVIOUS
<1>4. PICK i \in 1..m + 2, c \in Nat \ {0} : AtItem(parts, streams, i, c) /\ Pushes(items, streams, i, c)
  BY DEF Feeds
<1>5. Pushed(parts) = IF Len(part) = 1 THEN Tail(parts) ELSE [parts EXCEPT ![1] = Tail(part)]
  BY <1>1 DEF Pushed
<1>6. i # m + 2
  <2>1. Len(parts) = m + 2 - i
    BY <1>4 DEF AtItem
  <2> QED BY <1>1, <1>3, <2>1
<1>7. ASSUME NEW j \in 1..m + 2, NEW d \in Nat \ {0},
             AtItem(Pushed(parts), streams, j, d), Pushes(Append(items, x), streams, j, d)
      PROVE  Feeds(r, streams)'
  <2>1. AtItem(feeder'[r], streams, j, d) /\ Pushes(got'[r] \o framesChan'[r], streams, j, d)
    BY <1>2, <1>7
  <2>2. Distinct(streams) /\ \A s \in STRING : Holds(streams, s, DataOf(UpToEnd(body'[r]), s))
    BY DEF Feeds
  <2> QED BY <2>1, <2>2 DEF Feeds
<1>8. CASE i = m + 1
  <2>1. Len(parts) = 1 /\ part = <<Item("END", "none", 0)>>
    <3>1. Len(parts) = m + 2 - i /\ (i <= m + 1 => parts[m + 2 - i] = <<Item("END", "none", 0)>>)
      BY <1>4 DEF AtItem
    <3>2. m + 2 - i = 1 /\ i <= m + 1
      BY <1>3, <1>8
    <3> QED BY <3>1, <3>2
  <2>2. x = Item("END", "none", 0) /\ Len(part) = 1
    BY <2>1
  <2>3. x.type = "END"
    BY <2>2 DEF Item
  <2>4. Pushes(Append(items, x), streams, m + 2, 1)
    <3> HIDE DEF x, items
    <3> QED BY <1>1, <1>2, <1>4, <1>8, <2>3, PushesEnd
  <2>5. Len(Pushed(parts)) = 0
    BY <1>1, <1>5, <2>1, <2>2
  <2>6. AtItem(Pushed(parts), streams, m + 2, 1)
    <3>1. m + 2 - (m + 2) = 0 /\ ~(m + 2 <= m + 1) /\ ~(m + 2 <= m) /\ 2..m + 1 - (m + 2) = {}
      BY <1>3
    <3> QED BY <2>5, <3>1 DEF AtItem
  <2>7. m + 2 \in 1..m + 2 /\ 1 \in Nat \ {0}
    BY <1>3
  <2> QED BY <1>7, <2>4, <2>6, <2>7
<1>9. CASE i \in 1..m /\ Len(part) = 1
  <2> DEFINE all == StreamItems(streams[i])
             n == Len(streams[i].chunks)
  <2>1. streams[i] \in Streams
    BY <1>9
  <2>2. all \in Seq(Items) /\ Len(all) = n + 2 /\ n \in Nat /\ all[n + 2].type = "STREAM_END"
    BY <2>1, ItemsOfStream
  <2>3. Len(part) = Len(all) + 1 - c /\ \A k \in 1..Len(part) : part[k] = all[c + k - 1]
    BY <1>4, <1>9 DEF AtItem
  <2> HIDE DEF all, n
  <2>4. c = n + 2 /\ x.type = "STREAM_END"
    <3>1. c = n + 2
      <4>1. 1 = Len(all) + 1 - c /\ Len(all) = n + 2 /\ n \in Nat
        BY <1>9, <2>2, <2>3
      <4> QED BY <4>1
    <3>2. x = all[c + 1 - 1] /\ c + 1 - 1 = n + 2
      BY <1>9, <2>2, <2>3, <3>1
    <3> QED BY <2>2, <3>1, <3>2
  <2>5. Pushes(Append(items, x), streams, i + 1, 1)
    <3>1. Pushes(items, streams, i, Len(streams[i].chunks) + 2)
      BY <1>4, <2>4 DEF n
    <3> HIDE DEF x, items
    <3> QED BY <1>1, <1>2, <1>9, <2>4, <3>1, PushesStop
  <2>6. AtItem(Tail(parts), streams, i + 1, 1)
    BY <1>1, <1>4, <1>9, AtNextPart
  <2>7. i + 1 \in 1..m + 2 /\ 1 \in Nat \ {0}
    BY <1>3, <1>9
  <2> QED BY <1>5, <1>7, <1>9, <2>5, <2>6, <2>7
<1>10. CASE i \in 1..m /\ Len(part) # 1
  <2>1. AtItem([parts EXCEPT ![1] = Tail(part)], streams, i, c + 1) /\ c <= Len(streams[i].chunks) + 1
    <3> HIDE DEF parts
    <3> QED BY <1>1, <1>4, <1>10, AtNextItem
  <2>2. x = StreamItems(streams[i])[c]
    <3>1. \A k \in 1..Len(part) : part[k] = StreamItems(streams[i])[c + k - 1]
      BY <1>4, <1>10 DEF AtItem
    <3>2. 1 \in 1..Len(part) /\ c + 1 - 1 = c
      BY <1>1
    <3> QED BY <3>1, <3>2
  <2>3. Distinct(streams)
    BY DEF Feeds
  <2>4. Pushes(Append(items, x), streams, i, c + 1)
    <3> HIDE DEF x, items
    <3> QED BY <1>2, <1>4, <1>10, <2>1, <2>2, <2>3, PushesItem
  <2>5. c + 1 \in Nat \ {0} /\ i \in 1..m + 2
    OBVIOUS
  <2> QED BY <1>5, <1>7, <1>10, <2>1, <2>4, <2>5
<1>11. i = m + 1 \/ i \in 1..m
  BY <1>3, <1>6
<1> QED BY <1>8, <1>9, <1>10, <1>11

-----------------------------------------------------------------------------
(***************************************************************************)
(* The steps of the host, of the feeder and of the handler                 *)
(***************************************************************************)

\* Nothing changes for the body of r, or for the response to its peer request.
BodyStays(r) ==
  /\ (pc'[r] = "none" <=> pc[r] = "none")
  /\ (r \in DOMAIN pendingIncoming' <=> r \in DOMAIN pendingIncoming)
  /\ r \in DOMAIN pendingIncoming => pendingIncoming'[r] = pendingIncoming[r]
  /\ feeder'[r] = feeder[r] /\ framesChan'[r] = framesChan[r] /\ got'[r] = got[r]

Early == {"none", "read", "invoke"}
AnswerStays(r) ==
  /\ pc'[r] \in Early => pc[r] \in Early /\ written'[Peer(r)] = written[Peer(r)]
  /\ peerGot'[r] \o sender'[r] = peerGot[r] \o sender[r]
  /\ r \in pendingPeerRequests' => r \in pendingPeerRequests \/ pc[r] \in Early

LEMMA FedKept ==
  ASSUME NEW r, FedInv(r), BodyStays(r), body'[r] = body[r]
  PROVE  FedInv(r)'
<1>1. Corrupt(r)' <=> Corrupt(r)
  BY DEF Corrupt
<1>2. \A streams : Feeds(r, streams) => Feeds(r, streams)'
  BY DEF Feeds, BodyStays
<1> QED BY <1>1, <1>2 DEF FedInv, BodyStays

LEMMA CollectedKept ==
  ASSUME NEW r, NEW n, CollectedInv(r, n), body'[r] = body[r], pc[r] = "none" => pc'[r] = "none",
         r \in DOMAIN pendingIncoming' =>
           r \in DOMAIN pendingIncoming /\ pendingIncoming'[r] = pendingIncoming[r]
  PROVE  CollectedInv(r, n)'
<1>1. Corrupt(r)' <=> Corrupt(r)
  BY DEF Corrupt
<1>2. (n = 0)' <=> n = 0
  OBVIOUS
<1>3. ASSUME ~Corrupt(r), r \in DOMAIN pendingIncoming'
      PROVE  /\ \A i \in 1..n : body'[r][i].type # "END"
             /\ Distinct(pendingIncoming'[r])
             /\ \A s \in STRING : Holds(pendingIncoming'[r], s, DataOf(SubSeq(body'[r], 1, n), s))
  BY <1>3 DEF CollectedInv
<1> QED BY <1>1, <1>3 DEF CollectedInv

LEMMA BodyKept ==
  ASSUME NEW r, BodyInv(r), BodyStays(r), body'[r] = body[r], \A n : HasRead(r, n) => HasRead(r, n)'
  PROVE  BodyInv(r)'
<1>1. FedInv(r)'
  BY FedKept DEF BodyInv
<1>2. PICK n : HasRead(r, n) /\ CollectedInv(r, n)
  BY DEF BodyInv
<1>3. CollectedInv(r, n)'
  BY <1>2, CollectedKept DEF BodyStays
<1> QED BY <1>1, <1>2, <1>3 DEF BodyInv

LEMMA AnswerKept ==
  ASSUME TypeOK, PassedTypeOK, NEW r \in Requests, AnswerInv(r), AnswerStays(r), body'[Peer(r)] = body[Peer(r)],
         \A n : HasRead(Peer(r), n) => HasRead(Peer(r), n)'
  PROVE  AnswerInv(r)'
<1> DEFINE id == Peer(r)
           passed == peerGot[r] \o sender[r]
<1>1. PICK n : HasRead(id, n) /\ AnsweredInv(r, n)
  BY DEF AnswerInv
<1>2. (Corrupt(id)' <=> Corrupt(id)) /\ id \in Ids
  BY IdsFacts DEF Corrupt
<1>3. passed \in Seq(StdinFrames) /\ Len(passed) \in Nat
  BY DEF PassedTypeOK
<1>4. n \in Nat /\ (body[id] = <<>> => n = 0)
  <2>1. PICK m \in Nat : n + m + Len(todo[id]) = Len(body[id])
    BY <1>1 DEF HasRead, Arriving
  <2>2. n \in Nat /\ Len(todo[id]) \in Nat
    BY <1>1, <1>2 DEF HasRead, TypeOK
  <2>3. body[id] = <<>> => Len(body[id]) = 0
    OBVIOUS
  <2>4. \A x, y, z \in Nat : x + y + z = 0 => x = 0
    OBVIOUS
  <2> HIDE DEF id
  <2> QED BY <2>1, <2>2, <2>3, <2>4
<1>5. pc[r] \in Early => body[id] = <<>> /\ written[id] = <<>>
  BY <1>1 DEF AnsweredInv, Early
<1>6. pc'[r] \in Early => body'[id] = <<>> /\ written'[id] = <<>>
  BY <1>5 DEF AnswerStays
<1>7. ASSUME ~Corrupt(id)
      PROVE  /\ Len(passed) <= n /\ (r \in pendingPeerRequests' => Len(passed) = n)
             /\ \A k \in 1..Len(passed) : passed[k] = WithId(id, body'[id][k])
  <2>1. /\ Len(passed) <= n /\ (r \in pendingPeerRequests => Len(passed) = n)
        /\ \A k \in 1..Len(passed) : passed[k] = WithId(id, body[id][k])
    BY <1>1, <1>7 DEF AnsweredInv
  <2>2. pc[r] \in Early => Len(passed) = n
    <3> DEFINE k == Len(passed)
    <3>1. k \in Nat /\ k <= n
      BY <1>3, <2>1
    <3> HIDE DEF k
    <3>2. n = 0 => k = n
      BY <3>1
    <3> QED BY <1>4, <1>5, <3>2 DEF k
  <2> QED BY <2>1, <2>2 DEF AnswerStays
<1> HIDE DEF id
<1>8. AnsweredInv(r, n)'
  BY <1>2, <1>6, <1>7 DEF AnsweredInv, AnswerStays, Early, id
<1> QED BY <1>1, <1>8 DEF AnswerInv, id

LEMMA SameInput ==
  ASSUME NEW id, stdin' = stdin, body'[id] = body[id], todo'[id] = todo[id]
  PROVE  \A n : HasRead(id, n) => HasRead(id, n)'
<1> SUFFICES ASSUME NEW n, HasRead(id, n) PROVE HasRead(id, n)'
  OBVIOUS
<1>1. PICK m \in Nat : Arriving(id, n, m)
  BY DEF HasRead
<1>2. PICK p \in [1..m -> 1..Len(stdin)] : OnStdin(id, n, m, p)
  BY <1>1 DEF Arriving
<1>3. OnStdin(id, n, m, p)' /\ p \in [1..m -> 1..Len(stdin')]
  BY <1>2 DEF OnStdin
<1>4. Arriving(id, n, m)'
  BY <1>1, <1>3 DEF Arriving
<1> QED BY <1>4 DEF HasRead

LEMMA InputStays ==
  ASSUME UNCHANGED <<stdin, todo, body>>
  PROVE  \A id, n : HasRead(id, n) => HasRead(id, n)'
BY SameInput

LEMMA PassesOn ==
  ASSUME IInv, PassInv, PassedTypeOK', UNCHANGED <<stdin, todo, body>>,
         \A q \in Requests : (BodyStays(q) \/ BodyInv(q)') /\ AnswerStays(q)
  PROVE  PassInv'
<1>1. \A id, n : HasRead(id, n) => HasRead(id, n)'
  BY InputStays
<1>2. ASSUME NEW q \in Requests PROVE BodyInv(q)' /\ AnswerInv(q)'
  <2>1. BodyInv(q) /\ AnswerInv(q) /\ TypeOK /\ PassedTypeOK
    BY DEF IInv, PassInv
  <2>2. BodyInv(q)'
    BY <1>1, <2>1, BodyKept
  <2>3. AnswerInv(q)'
    BY <1>1, <2>1, AnswerKept
  <2> QED BY <2>2, <2>3
<1> QED BY <1>2 DEF PassInv

\* A frame taken from a channel and read.
LEMMA MovedOver ==
  ASSUME NEW S, NEW a \in Seq(S), NEW b \in Seq(S), b # <<>>
  PROVE  Append(a, Head(b)) \in Seq(S) /\ Tail(b) \in Seq(S) /\ Append(a, Head(b)) \o Tail(b) = a \o b
<1> DEFINE c == Append(a, Head(b))
<1>1. /\ Len(a) \in Nat /\ Len(b) \in Nat /\ Len(b) > 0 /\ Head(b) = b[1] /\ Head(b) \in S
      /\ Tail(b) \in Seq(S) /\ Len(Tail(b)) = Len(b) - 1 /\ \A i \in 1..Len(b) - 1 : Tail(b)[i] = b[i + 1]
  OBVIOUS
<1>2. c \in Seq(S) /\ Len(c) = Len(a) + 1 /\ c[Len(a) + 1] = b[1] /\ \A i \in 1..Len(a) : c[i] = a[i]
  BY <1>1
<1> HIDE DEF c
<1>3. c \o Tail(b) \in Seq(S) /\ a \o b \in Seq(S) /\ Len(c \o Tail(b)) = Len(a) + Len(b) /\ Len(a \o b) = Len(a) + Len(b)
  BY <1>1, <1>2
<1>4. ASSUME NEW i \in 1..Len(a) + Len(b) PROVE (c \o Tail(b))[i] = (a \o b)[i]
  <2>1. CASE i <= Len(a)
    BY <1>1, <1>2, <2>1
  <2>2. CASE i = Len(a) + 1
    <3>1. (a \o b)[i] = b[1]
      BY <1>1, <2>2
    <3>2. (c \o Tail(b))[i] = c[i]
      BY <1>1, <1>2, <2>2
    <3> QED BY <1>2, <2>2, <3>1, <3>2
  <2>3. CASE i > Len(a) + 1
    <3>1. (a \o b)[i] = b[i - Len(a)]
      BY <1>1, <2>3
    <3>2. (c \o Tail(b))[i] = Tail(b)[i - (Len(a) + 1)]
      BY <1>1, <1>2, <2>3
    <3>3. i - (Len(a) + 1) \in 1..Len(b) - 1 /\ i - (Len(a) + 1) + 1 = i - Len(a)
      BY <1>1, <2>3
    <3> QED BY <1>1, <3>1, <3>2, <3>3
  <2>4. i <= Len(a) \/ i = Len(a) + 1 \/ i > Len(a) + 1
    BY <1>1
  <2> QED BY <2>1, <2>2, <2>3, <2>4
<1>5. c \o Tail(b) = a \o b
  BY <1>3, <1>4
<1> QED BY <1>1, <1>2, <1>5 DEF c

\* A frame put into a channel.
LEMMA PutBehind ==
  ASSUME NEW S, NEW a \in Seq(S), NEW b \in Seq(S), NEW x \in S
  PROVE  a \o Append(b, x) = Append(a \o b, x)
<1> DEFINE c == Append(b, x)
           d == a \o b
<1>1. /\ Len(a) \in Nat /\ Len(b) \in Nat
      /\ c \in Seq(S) /\ Len(c) = Len(b) + 1 /\ c[Len(b) + 1] = x /\ \A i \in 1..Len(b) : c[i] = b[i]
      /\ d \in Seq(S) /\ Len(d) = Len(a) + Len(b)
  OBVIOUS
<1>2. ASSUME NEW i \in 1..Len(a) + Len(b) + 1 PROVE (a \o c)[i] = Append(d, x)[i]
  <2>1. CASE i <= Len(a)
    <3>1. (a \o c)[i] = a[i] /\ d[i] = a[i]
      BY <1>1, <2>1
    <3> HIDE DEF c, d
    <3> QED BY <1>1, <2>1, <3>1
  <2>2. CASE i > Len(a) /\ i <= Len(a) + Len(b)
    <3>1. d[i] = b[i - Len(a)] /\ i - Len(a) \in 1..Len(b)
      BY <1>1, <2>2
    <3> HIDE DEF c, d
    <3>2. (a \o c)[i] = c[i - Len(a)]
      BY <1>1, <2>2
    <3>3. Append(d, x)[i] = d[i]
      BY <1>1, <2>2
    <3> QED BY <1>1, <3>1, <3>2, <3>3
  <2>3. CASE i = Len(a) + Len(b) + 1
    <3> HIDE DEF c, d
    <3>1. (a \o c)[i] = c[Len(b) + 1]
      <4>1. i - Len(a) = Len(b) + 1
        BY <1>1, <2>3
      <4>2. (a \o c)[i] = c[i - Len(a)]
        BY <1>1, <2>3
      <4> QED BY <4>1, <4>2
    <3>2. Append(d, x)[i] = x
      BY <1>1, <2>3
    <3> QED BY <1>1, <3>1, <3>2
  <2>4. i <= Len(a) \/ (i > Len(a) /\ i <= Len(a) + Len(b)) \/ i = Len(a) + Len(b) + 1
    BY <1>1
  <2> QED BY <2>1, <2>2, <2>3, <2>4
<1> HIDE DEF c, d
<1>3. /\ a \o c \in Seq(S) /\ Append(d, x) \in Seq(S)
      /\ Len(a \o c) = Len(a) + Len(b) + 1 /\ Len(Append(d, x)) = Len(a) + Len(b) + 1
  <2>0. c \in Seq(S) /\ d \in Seq(S)
    BY <1>1
  <2>1. a \o c \in Seq(S) /\ Len(a \o c) = Len(a) + Len(c)
    BY <2>0
  <2>2. Append(d, x) \in Seq(S) /\ Len(Append(d, x)) = Len(d) + 1
    BY <2>0
  <2>3. Len(a) + Len(c) = Len(a) + Len(b) + 1 /\ Len(d) + 1 = Len(a) + Len(b) + 1
    BY <1>1
  <2> QED BY <2>1, <2>2, <2>3
<1>4. a \o c = Append(d, x)
  BY <1>2, <1>3
<1> QED BY <1>4 DEF c, d

\* A step of the handler of r that leaves its input alone.
LEMMA QuietPasses ==
  ASSUME IInv, PassInv, NEW r \in Requests, NEW place,
         UNCHANGED <<stdin, todo, body, pendingIncoming, feeder, framesChan, got, peerGot, sender>>,
         pc' = [pc EXCEPT ![r] = place], place \notin {"none", "read"}, pc[r] # "none",
         place = "invoke" => pc[r] \in Early,
         \A q \in Requests : pc'[q] \in Early => written'[Peer(q)] = written[Peer(q)],
         pendingPeerRequests' = pendingPeerRequests \/
           (pendingPeerRequests' = pendingPeerRequests \cup {r} /\ pc[r] \in Early)
  PROVE  PassInv'
<1>1. PassedTypeOK'
  BY DEF PassInv, PassedTypeOK
<1>2. \A q \in Requests : pc'[q] = IF q = r THEN place ELSE pc[q]
  BY DEF IInv, TypeOK
<1>3. \A q \in Requests : BodyStays(q)
  BY <1>2 DEF BodyStays
<1>4. \A q \in Requests : AnswerStays(q)
  BY <1>2 DEF AnswerStays, Early
<1> QED BY <1>1, <1>3, <1>4, PassesOn

\* A frame written for a request is no frame of a peer request.
LEMMA PeerAlone ==
  ASSUME TypeOK, NEW r \in Requests
  PROVE  /\ \A frame, q : q \in Requests /\ Write(r, frame) => written'[Peer(q)] = written[Peer(q)]
         /\ \A frame, q : q \in Requests \ {r} /\ Write(Peer(r), frame) => written'[Peer(q)] = written[Peer(q)]
<1>1. \A q \in Requests : Peer(q) \in Ids /\ Peer(q) # r
  BY IdsFacts
<1>2. \A q \in Requests : Peer(q) = Peer(r) => q = r
  BY DEF Peer
<1> QED BY <1>1, <1>2 DEF Write, TypeOK

LEMMA HandlerPasses ==
  ASSUME IInv, PassInv, NEW r \in Requests,
         \/ InvokeRegisters(r) \/ InvokeWrites(r) \/ EmitStarts(r) \/ EmitChunk(r) \/ Finalize(r) \/ HandlerFails(r)
         \/ HandlerEnds(r) \/ HandlerQuits(r) \/ HandlerReturns(r)
  PROVE  PassInv'
<1>1. TypeOK
  BY DEF IInv
<1>2. CASE InvokeRegisters(r)
  <2>1. /\ UNCHANGED <<stdin, todo, body, pendingIncoming, feeder, framesChan, got, peerGot, sender, written>>
        /\ pc' = [pc EXCEPT ![r] = "REQ"] /\ pc[r] = "invoke"
        /\ pendingPeerRequests' = pendingPeerRequests \cup {r}
    BY <1>2 DEF InvokeRegisters, Goto, input, loop, feeding
  <2>2. pc[r] \in Early /\ pc[r] # "none"
    BY <2>1 DEF Early
  <2>3. \A q \in Requests : pc'[q] \in Early => written'[Peer(q)] = written[Peer(q)]
    BY <2>1
  <2>4. "REQ" \notin {"none", "read"} /\ "REQ" # "invoke"
    OBVIOUS
  <2> QED BY <2>1, <2>2, <2>3, <2>4, QuietPasses
<1>3. CASE InvokeWrites(r)
  <2>1. PICK place \in {"BODY", "END", "await"} : pc' = [pc EXCEPT ![r] = place]
    BY <1>3 DEF InvokeWrites, Goto
  <2>2. /\ UNCHANGED <<stdin, todo, body, pendingIncoming, feeder, framesChan, got, peerGot, sender, pendingPeerRequests>>
        /\ pc[r] # "none" /\ Write(Peer(r), Frame(pc[r], FALSE, 0))
    BY <1>3 DEF InvokeWrites, input, loop, feeding, peering
  <2>3. \A q \in Requests : pc'[q] \in Early => written'[Peer(q)] = written[Peer(q)]
    <3>1. pc'[r] \notin Early
      BY <1>1, <2>1 DEF TypeOK, Early
    <3>2. \A q \in Requests \ {r} : written'[Peer(q)] = written[Peer(q)]
      BY <1>1, <2>2, PeerAlone
    <3> QED BY <3>1, <3>2
  <2> QED BY <2>1, <2>2, <2>3, QuietPasses
<1>4. ASSUME NEW place, pc' = [pc EXCEPT ![r] = place], place \notin {"none", "read", "invoke"}, pc[r] # "none",
             UNCHANGED <<stdin, todo, body, pendingIncoming, feeder, framesChan, got, peerGot, sender,
                         pendingPeerRequests>>,
             \A q \in Requests : written'[Peer(q)] = written[Peer(q)]
      PROVE  PassInv'
  BY <1>4, QuietPasses
<1>5. CASE EmitStarts(r) \/ EmitChunk(r)
  <2>1. /\ UNCHANGED <<stdin, todo, body, pendingIncoming, feeder, framesChan, got, peerGot, sender, pc,
                       pendingPeerRequests>>
        /\ \E frame : Write(r, frame)
    BY <1>5 DEF EmitStarts, EmitChunk, input, loop, feeding, peering, handling
  <2>2. \A q \in Requests : written'[Peer(q)] = written[Peer(q)]
    BY <1>1, <2>1, PeerAlone
  <2>3. PassedTypeOK' /\ \A q \in Requests : BodyStays(q) /\ AnswerStays(q)
    BY <2>1, <2>2 DEF PassInv, PassedTypeOK, BodyStays, AnswerStays
  <2> QED BY <2>1, <2>3, PassesOn
<1>6. CASE Finalize(r)
  <2>1. PICK place \in {"finish", "close"} : pc' = [pc EXCEPT ![r] = place]
    BY <1>6 DEF Finalize, Goto
  <2>2. /\ UNCHANGED <<stdin, todo, body, pendingIncoming, feeder, framesChan, got, peerGot, sender, pendingPeerRequests>>
        /\ pc[r] # "none" /\ \E frame : Write(r, frame)
    BY <1>6 DEF Finalize, input, loop, feeding, peering
  <2>3. \A q \in Requests : written'[Peer(q)] = written[Peer(q)]
    BY <1>1, <2>2, PeerAlone
  <2> QED BY <1>4, <2>1, <2>2, <2>3
<1>7. CASE HandlerFails(r)
  <2>1. /\ UNCHANGED <<stdin, todo, body, pendingIncoming, feeder, framesChan, got, peerGot, sender, pendingPeerRequests>>
        /\ pc[r] # "none" /\ pc' = [pc EXCEPT ![r] = "close"] /\ \E frame : Write(r, frame)
    BY <1>7 DEF HandlerFails, Goto, input, loop, feeding, peering
  <2>2. \A q \in Requests : written'[Peer(q)] = written[Peer(q)]
    BY <1>1, <2>1, PeerAlone
  <2> QED BY <1>4, <2>1, <2>2
<1>8. CASE HandlerEnds(r)
  <2>1. /\ UNCHANGED <<stdin, todo, body, pendingIncoming, feeder, framesChan, got, peerGot, sender, pendingPeerRequests,
                       written>>
        /\ pc[r] # "none" /\ pc' = [pc EXCEPT ![r] = "done"]
    BY <1>8 DEF HandlerEnds, Goto, input, loop, peering
  <2> QED BY <1>4, <2>1
<1>9. CASE HandlerQuits(r) \/ HandlerReturns(r)
  <2>1. PICK place \in {"emit", "finalize"} : pc' = [pc EXCEPT ![r] = place]
    BY <1>9 DEF HandlerQuits, HandlerReturns, Goto
  <2>2. /\ UNCHANGED <<stdin, todo, body, pendingIncoming, feeder, framesChan, got, peerGot, sender, pendingPeerRequests,
                       written>>
        /\ pc[r] # "none"
    BY <1>9 DEF HandlerQuits, HandlerReturns, input, loop, peering, feeding
  <2> QED BY <1>4, <2>1, <2>2
<1> QED BY <1>2, <1>3, <1>5, <1>6, <1>7, <1>8, <1>9

LEMMA AwaitPasses ==
  ASSUME IInv, PassInv, NEW r \in Requests, HandlerAwaits(r)
  PROVE  PassInv'
<1>1. /\ UNCHANGED <<stdin, todo, body, pendingIncoming, feeder, framesChan, got, pendingPeerRequests, written>>
      /\ pc[r] = "await"
  BY DEF HandlerAwaits, input, loop, feeding
<1>2. PICK place \in {"fail", "emit", "await"} : pc' = [pc EXCEPT ![r] = place]
  BY DEF HandlerAwaits, Goto
<1>3. \A q \in Requests : pc'[q] = IF q = r THEN place ELSE pc[q]
  BY <1>2 DEF IInv, TypeOK
<1>4. CASE UNCHANGED <<sender, peerGot>>
  <2>1. place \notin {"none", "read", "invoke"} /\ pc[r] # "none"
    BY <1>1
  <2> QED BY <1>1, <1>2, <1>4, <2>1, QuietPasses
<1>5. CASE /\ sender[r] # <<>>
           /\ sender' = [sender EXCEPT ![r] = Tail(@)]
           /\ peerGot' = [peerGot EXCEPT ![r] = Append(@, Head(sender[r]))]
  <2>1. sender[r] \in Seq(StdinFrames) /\ peerGot[r] \in Seq(StdinFrames)
    BY DEF PassInv, PassedTypeOK
  <2>2. sender[r] # <<>> =>
          /\ Append(peerGot[r], Head(sender[r])) \in Seq(StdinFrames) /\ Tail(sender[r]) \in Seq(StdinFrames)
          /\ Append(peerGot[r], Head(sender[r])) \o Tail(sender[r]) = peerGot[r] \o sender[r]
    BY <2>1, MovedOver
  <2>3. PassedTypeOK'
    BY <1>1, <1>5, <2>1, <2>2 DEF PassInv, PassedTypeOK
  <2>4. \A q \in Requests : peerGot'[q] \o sender'[q] = peerGot[q] \o sender[q]
    <3> SUFFICES ASSUME NEW q \in Requests PROVE peerGot'[q] \o sender'[q] = peerGot[q] \o sender[q]
      OBVIOUS
    <3>1. CASE q = r
      <4>1. peerGot'[r] = Append(peerGot[r], Head(sender[r])) /\ sender'[r] = Tail(sender[r])
        BY <1>5 DEF PassInv, PassedTypeOK
      <4> QED BY <1>5, <2>1, <2>2, <3>1, <4>1
    <3>2. CASE q # r
      BY <1>5, <3>2 DEF PassInv, PassedTypeOK
    <3> QED BY <3>1, <3>2
  <2>5. \A q \in Requests : BodyStays(q)
    BY <1>1, <1>3 DEF BodyStays
  <2>6. \A q \in Requests : AnswerStays(q)
    BY <1>1, <1>3, <2>4 DEF AnswerStays, Early
  <2> QED BY <1>1, <2>3, <2>5, <2>6, PassesOn
<1> QED BY <1>4, <1>5 DEF HandlerAwaits

\* A step for r that leaves what is collected of it alone.
LEMMA BodyFrom ==
  ASSUME NEW r, BodyInv(r), FedInv(r)', UNCHANGED <<stdin, todo, body, pendingIncoming>>,
         pc[r] = "none" => pc'[r] = "none"
  PROVE  BodyInv(r)'
<1>1. PICK n : HasRead(r, n) /\ CollectedInv(r, n)
  BY DEF BodyInv
<1>2. HasRead(r, n)'
  BY <1>1, InputStays
<1>3. CollectedInv(r, n)'
  BY <1>1, CollectedKept
<1> QED BY <1>2, <1>3 DEF BodyInv

LEMMA ReadPasses ==
  ASSUME IInv, PassInv, NEW r \in Requests, HandlerReads(r)
  PROVE  PassInv'
<1>1. /\ UNCHANGED <<stdin, todo, body, pendingIncoming, feeder, peerGot, sender, pendingPeerRequests, written>>
      /\ pc[r] = "read" /\ framesChan[r] # <<>>
      /\ framesChan' = [framesChan EXCEPT ![r] = Tail(@)]
      /\ got' = [got EXCEPT ![r] = Append(@, Head(framesChan[r]))]
  BY DEF HandlerReads, input, loop, peering
<1>2. PICK place \in {"read", "fail", "invoke", "emit"} : pc' = [pc EXCEPT ![r] = place]
  BY DEF HandlerReads, Goto
<1>3. /\ pc \in [Requests -> Places] /\ got \in [Requests -> Seq(Items)] /\ framesChan \in [Requests -> Seq(Items)]
  BY DEF IInv, TypeOK, PassInv, PassedTypeOK
<1>4. /\ Append(got[r], Head(framesChan[r])) \in Seq(Items)
      /\ Append(got[r], Head(framesChan[r])) \o Tail(framesChan[r]) = got[r] \o framesChan[r]
  <2>1. got[r] \in Seq(Items) /\ framesChan[r] \in Seq(Items)
    BY <1>3
  <2>2. PICK a, b : a = got[r] /\ b = framesChan[r]
    OBVIOUS
  <2>3. a \in Seq(Items) /\ b \in Seq(Items) /\ b # <<>>
    BY <1>1, <2>1, <2>2
  <2>4. Append(a, Head(b)) \in Seq(Items) /\ Append(a, Head(b)) \o Tail(b) = a \o b
    BY <2>3, MovedOver
  <2> QED BY <2>2, <2>4
<1>5. /\ pc'[r] = place /\ got'[r] = Append(got[r], Head(framesChan[r])) /\ framesChan'[r] = Tail(framesChan[r])
      /\ \A q \in Requests \ {r} : pc'[q] = pc[q] /\ got'[q] = got[q] /\ framesChan'[q] = framesChan[q]
  BY <1>1, <1>2, <1>3
<1>6. PassedTypeOK'
  <2>1. got' \in [Requests -> Seq(Items)]
    BY <1>1, <1>3, <1>4
  <2> QED BY <1>1, <2>1 DEF PassInv, PassedTypeOK
<1>7. FedInv(r)'
  <2>1. got'[r] \o framesChan'[r] = got[r] \o framesChan[r]
    BY <1>4, <1>5
  <2>2. FedInv(r) /\ pc[r] # "none" /\ pc'[r] # "none" /\ (Corrupt(r)' <=> Corrupt(r))
    BY <1>1, <1>5 DEF PassInv, BodyInv, Corrupt
  <2>3. \A streams : Feeds(r, streams) => Feeds(r, streams)'
    BY <1>1, <2>1 DEF Feeds
  <2> QED BY <2>2, <2>3 DEF FedInv
<1>8. BodyInv(r)'
  BY <1>1, <1>7, BodyFrom DEF PassInv
<1>9. \A q \in Requests \ {r} : BodyStays(q)
  BY <1>1, <1>5 DEF BodyStays
<1>10. \A q \in Requests : AnswerStays(q)
  BY <1>1, <1>5 DEF AnswerStays, Early
<1> QED BY <1>1, <1>6, <1>8, <1>9, <1>10, PassesOn

LEMMA FeedPasses ==
  ASSUME IInv, PassInv, NEW r \in Requests, Feed(r)
  PROVE  PassInv'
<1>1. /\ UNCHANGED <<stdin, todo, body, pendingIncoming, peerGot, sender, pendingPeerRequests, written, pc, got>>
      /\ feeder[r] # <<>>
  BY DEF Feed, input, loop, peering, handling
<1>2. PassedTypeOK' /\ \A q \in Requests : AnswerStays(q)
  BY <1>1 DEF PassInv, PassedTypeOK, AnswerStays
<1>3. CASE UNCHANGED <<feeder, framesChan>>
  BY <1>1, <1>2, <1>3, PassesOn DEF BodyStays
<1>4. CASE /\ framesChan' = [framesChan EXCEPT ![r] = Append(@, Head(Head(feeder[r])))]
           /\ feeder' = [feeder EXCEPT ![r] = Pushed(@)]
  <2>1. /\ framesChan'[r] = Append(framesChan[r], Head(Head(feeder[r]))) /\ feeder'[r] = Pushed(feeder[r])
        /\ \A q \in Requests \ {r} : framesChan'[q] = framesChan[q] /\ feeder'[q] = feeder[q]
    BY <1>4 DEF IInv, TypeOK
  <2>2. TypeOK /\ PassedTypeOK /\ FeederInv(r) /\ BodyInv(r)
    BY DEF IInv, LocalInv, PassInv
  <2>3. \A streams \in Seq(Streams) : Feeds(r, streams) => Feeds(r, streams)'
    BY <1>1, <2>1, <2>2, FeedsMore
  <2>4. pc[r] # "none" /\ (Corrupt(r)' <=> Corrupt(r))
    BY <1>1, <2>2 DEF FeederInv, Corrupt
  <2>5. FedInv(r)'
    BY <1>1, <2>2, <2>3, <2>4 DEF FedInv, BodyInv
  <2>6. BodyInv(r)'
    BY <1>1, <2>2, <2>5, BodyFrom
  <2>7. \A q \in Requests \ {r} : BodyStays(q)
    BY <1>1, <2>1 DEF BodyStays
  <2> QED BY <1>1, <1>2, <2>6, <2>7, PassesOn
<1> QED BY <1>3, <1>4 DEF Feed

\* What the host writes, and the steps that only it sees.
LEMMA StdinPasses ==
  ASSUME IInv, PassInv, UNCHANGED <<pendingIncoming, feeder, framesChan, got, peerGot, sender, pendingPeerRequests, written, pc>>,
         \A q \in Requests : BodyInv(q)' \/
            (body'[q] = body[q] /\ \A n : HasRead(q, n) => HasRead(q, n)'),
         \A q \in Requests : AnswerInv(q)' \/
            (body'[Peer(q)] = body[Peer(q)] /\ \A n : HasRead(Peer(q), n) => HasRead(Peer(q), n)')
  PROVE  PassInv'
<1>1. PassedTypeOK' /\ TypeOK /\ PassedTypeOK
  BY DEF IInv, PassInv, PassedTypeOK
<1>2. ASSUME NEW q \in Requests PROVE BodyInv(q)' /\ AnswerInv(q)'
  <2>1. BodyInv(q) /\ AnswerInv(q) /\ BodyStays(q) /\ AnswerStays(q)
    BY DEF PassInv, BodyStays, AnswerStays
  <2>2. BodyInv(q)'
    BY <2>1, BodyKept
  <2>3. AnswerInv(q)'
    BY <1>1, <2>1, AnswerKept
  <2> QED BY <2>2, <2>3
<1> QED BY <1>1, <1>2 DEF PassInv

\* The host begins to answer a peer request: there is nothing of it on stdin.
LEMMA AnswerBegins ==
  ASSUME IInv, PassInv, NEW r \in Requests, NEW response \in PeerBodies, HostAnswers(r, response)
  PROVE  AnswerInv(r)'
<1> DEFINE passed == peerGot[r] \o sender[r]
<1>1. PICK id : id = Peer(r)
  OBVIOUS
<1>2. /\ id \in Ids /\ TypeOK /\ body[id] = <<>> /\ written[id] # <<>> /\ response \in Seq(HostFrames)
      /\ UNCHANGED <<stdin, pc, peerGot, sender, pendingPeerRequests, written>>
  BY <1>1, IdsFacts, RuntimeAssumption DEF IInv, HostAnswers, handling, peering
<1>3. body'[id] = response /\ todo'[id] = response
  BY <1>1, <1>2 DEF HostAnswers, TypeOK
<1>4. PICK n : HasRead(id, n) /\ AnsweredInv(r, n)
  BY <1>1 DEF PassInv, AnswerInv
<1>5. PICK m \in Nat : Arriving(id, n, m)
  BY <1>4 DEF HasRead
<1>6. n = 0 /\ m = 0
  <2>1. n + m + Len(todo[id]) = 0 /\ n \in Nat /\ Len(todo[id]) \in Nat
    BY <1>2, <1>4, <1>5 DEF Arriving, HasRead, TypeOK
  <2>2. \A x, y, z \in Nat : x + y + z = 0 => x = 0 /\ y = 0
    OBVIOUS
  <2> QED BY <1>5, <2>1, <2>2
<1>7. PICK p \in [1..0 -> 1..Len(stdin)] : OnStdin(id, 0, 0, p)
  BY <1>5, <1>6 DEF Arriving
<1>8. OnStdin(id, 0, 0, p)'
  BY <1>2, <1>7 DEF OnStdin
<1>9. Arriving(id, 0, 0)'
  <2>1. /\ 0 + 0 + Len(response) = Len(response)
        /\ \A k \in 1..Len(response) : response[k] = response[0 + 0 + k]
    BY <1>2
  <2>2. p \in [1..0 -> 1..Len(stdin')]
    BY <1>2
  <2> QED BY <1>3, <1>8, <2>1, <2>2 DEF Arriving
<1>10. HasRead(id, 0)'
  BY <1>9 DEF HasRead
<1>11. pc[r] \notin {"none", "read", "invoke"}
  BY <1>1, <1>2, <1>4 DEF AnsweredInv
<1>12. Len(passed) = 0
  <2>1. ~Corrupt(id)
    BY <1>2 DEF Corrupt
  <2>2. Len(passed) <= n /\ Len(passed) \in Nat
    BY <1>1, <1>4, <2>1 DEF AnsweredInv, PassInv, PassedTypeOK
  <2> HIDE DEF passed
  <2> QED BY <1>6, <2>2
<1>13. AnsweredInv(r, 0)'
  <2>1. passed' = passed
    BY <1>2
  <2> HIDE DEF passed
  <2>2. Len(passed)' = 0
    BY <1>12, <2>1
  <2> USE DEF passed
  <2>3. pc'[r] \notin {"none", "read", "invoke"}
    BY <1>2, <1>11
  <2> QED BY <2>2, <2>3 DEF AnsweredInv
<1> QED BY <1>1, <1>10, <1>13 DEF AnswerInv

LEMMA HostPasses ==
  ASSUME IInv, PassInv, Host \/ ReadEof \/ UNCHANGED vars
  PROVE  PassInv'
<1> USE IdsFacts
<1>1. TypeOK
  BY DEF IInv
<1>2. ASSUME NEW id \in Ids, HostSends(id) PROVE PassInv'
  <2> DEFINE x == WithId(id, Head(todo[id]))
  <2>1. /\ UNCHANGED <<pendingIncoming, feeder, framesChan, got, peerGot, sender, pendingPeerRequests, written, pc, body>>
        /\ stdin' = Append(stdin, x) /\ \A q \in Ids \ {id} : todo'[q] = todo[q]
    BY <1>1, <1>2 DEF HostSends, loop, peering, feeding, handling, TypeOK
  <2>2. \A q \in Ids \ {id} : ~Of(q, x)
    BY DEF Of, WithId
  <2> HIDE DEF x
  <2>3. ASSUME NEW q \in Ids, NEW n, HasRead(q, n) PROVE HasRead(q, n)'
    <3>1. CASE q = id
      BY <1>1, <1>2, <2>3, <3>1, OwnWritten
    <3>2. CASE q # id
      BY <1>1, <2>1, <2>2, <2>3, <3>2, OtherWritten
    <3> QED BY <3>1, <3>2
  <2> QED BY <2>1, <2>3, StdinPasses
<1>3. ASSUME NEW r \in Requests, NEW response \in PeerBodies, HostAnswers(r, response) PROVE PassInv'
  <2>1. /\ UNCHANGED <<pendingIncoming, feeder, framesChan, got, peerGot, sender, pendingPeerRequests, written, pc, stdin>>
        /\ \A q \in Ids \ {Peer(r)} : todo'[q] = todo[q] /\ body'[q] = body[q]
    BY <1>1, <1>3 DEF HostAnswers, loop, peering, feeding, handling, TypeOK
  <2>2. ASSUME NEW q \in Ids, q # Peer(r)
        PROVE  body'[q] = body[q] /\ \A n : HasRead(q, n) => HasRead(q, n)'
    BY <2>1, <2>2, SameInput
  <2>3. \A q \in Requests : q \in Ids /\ q # Peer(r)
    OBVIOUS
  <2>4. \A q \in Requests : q = r \/ (Peer(q) \in Ids /\ Peer(q) # Peer(r))
    BY DEF Peer
  <2>5. AnswerInv(r)'
    BY <1>3, AnswerBegins
  <2> QED BY <2>1, <2>2, <2>3, <2>4, <2>5, StdinPasses
<1>4. CASE HostBeats
  <2> DEFINE x == [type |-> "HEARTBEAT"]
  <2>1. /\ UNCHANGED <<pendingIncoming, feeder, framesChan, got, peerGot, sender, pendingPeerRequests, written, pc, body, todo>>
        /\ stdin' = Append(stdin, x)
    BY <1>4 DEF HostBeats, peering, feeding, handling
  <2>2. \A q \in Ids : ~Of(q, x)
    BY DEF Of
  <2> HIDE DEF x
  <2>3. ASSUME NEW q \in Ids, NEW n, HasRead(q, n) PROVE HasRead(q, n)'
    BY <1>1, <2>1, <2>2, <2>3, OtherWritten
  <2> QED BY <2>1, <2>3, StdinPasses
<1>5. CASE HostCloses \/ ReadEof \/ UNCHANGED vars
  <2>1. UNCHANGED <<pendingIncoming, feeder, framesChan, got, peerGot, sender, pendingPeerRequests, written, pc, body, todo, stdin>>
    BY <1>5 DEF HostCloses, ReadEof, vars, input, loop, peering, feeding, handling
  <2> QED BY <2>1, InputStays, StdinPasses
<1> QED BY <1>2, <1>3, <1>4, <1>5 DEF Host

-----------------------------------------------------------------------------
(***************************************************************************)
(* What reaches a handler: the steps of the read loop                      *)
(***************************************************************************)

\* What a frame of the body of r does to its streams.
Grown(r, f) ==
  r \in DOMAIN pendingIncoming' /\ ~Corrupt(r) =>
    /\ f.type # "END"
    /\ f.type # "REQ" => r \in DOMAIN pendingIncoming
    /\ Collects(pendingIncoming[r], pendingIncoming'[r], f)

Collected(f) ==
  \A q \in Requests : IF Of(q, f) THEN FedInv(q)' /\ Grown(q, f) ELSE BodyStays(q)

\* What a frame of a response does: it is passed on, or the request is forgotten.
PassedOn(q, f) ==
  \/ Corrupt(Peer(q))
  \/ q \notin pendingPeerRequests' /\ sender'[q] = sender[q]
  \/ q \in pendingPeerRequests /\ sender'[q] = Append(sender[q], f)

Answered(f) ==
  \A q \in Requests : IF Of(Peer(q), f) THEN pc'[q] = pc[q] /\ PassedOn(q, f) ELSE AnswerStays(q)

LEMMA TakenFrames ==
  ASSUME IInv, NEW f, Takes(f), NEW id \in Ids, NEW n, HasRead(id, n)
  PROVE  IF Of(id, f)
         THEN HasRead(id, n + 1)' /\ n + 1 \in 1..Len(body[id]) /\ f = WithId(id, body[id][n + 1]) /\ n \in Nat
         ELSE HasRead(id, n)'
<1>1. /\ TypeOK /\ stdin # <<>> /\ stdin' = Tail(stdin) /\ f = stdin[1]
      /\ body'[id] = body[id] /\ todo'[id] = todo[id]
  <2>1. Head(stdin) = stdin[1]
    OBVIOUS
  <2> QED BY <2>1 DEF IInv, Takes
<1>2. CASE Of(id, f)
  <2>1. n \in Nat
    BY DEF HasRead
  <2> QED BY <1>1, <1>2, <2>1, OwnTaken
<1>3. CASE ~Of(id, f)
  BY <1>1, <1>3, OtherTaken
<1> QED BY <1>2, <1>3

LEMMA BodyTaken ==
  ASSUME IInv, IInv', PassInv, NEW f, Takes(f), Collected(f), NEW r \in Requests
  PROVE  BodyInv(r)'
<1>1. r \in Ids /\ BodyInv(r) /\ body' = body /\ TypeOK /\ TypeOK'
  BY IdsFacts DEF PassInv, Takes, IInv
<1>2. CASE Of(r, f)
  <2>1. FedInv(r)' /\ Grown(r, f)
    BY <1>2 DEF Collected
  <2>2. PICK n : HasRead(r, n) /\ CollectedInv(r, n)
    BY <1>1 DEF BodyInv
  <2>3. HasRead(r, n + 1)' /\ n + 1 \in 1..Len(body[r]) /\ f = WithId(r, body[r][n + 1]) /\ n \in Nat
    BY <1>1, <1>2, <2>2, TakenFrames
  <2>4. CollectedInv(r, n + 1)'
    BY <1>1, <2>1, <2>2, <2>3, CollectedGrows DEF Grown
  <2> QED BY <2>1, <2>3, <2>4 DEF BodyInv
<1>3. CASE ~Of(r, f)
  <2>1. BodyStays(r)
    BY <1>3 DEF Collected
  <2>2. \A n : HasRead(r, n) => HasRead(r, n)'
    BY <1>1, <1>3, TakenFrames
  <2> QED BY <1>1, <2>1, <2>2, BodyKept
<1> QED BY <1>2, <1>3

LEMMA AnswerTaken ==
  ASSUME IInv, PassInv, NEW f, Takes(f), Answered(f), UNCHANGED peerGot, NEW r \in Requests
  PROVE  AnswerInv(r)'
<1>1. PICK id : id = Peer(r)
  OBVIOUS
<1>2. id \in Ids /\ AnswerInv(r) /\ body' = body /\ TypeOK /\ PassedTypeOK
  BY <1>1, IdsFacts DEF PassInv, Takes, IInv
<1>3. CASE Of(id, f)
  <2>1. pc'[r] = pc[r] /\ PassedOn(r, f)
    BY <1>1, <1>3 DEF Answered
  <2>2. PICK n : HasRead(id, n) /\ AnsweredInv(r, n)
    BY <1>1, <1>2 DEF AnswerInv
  <2>3. HasRead(id, n + 1)' /\ n + 1 \in 1..Len(body[id]) /\ f = WithId(id, body[id][n + 1]) /\ n \in Nat
    BY <1>2, <1>3, <2>2, TakenFrames
  <2>4. pc[r] \notin {"none", "read", "invoke"}
    <3>1. body[id] # <<>>
      <4>1. Len(<<>>) = 0 /\ ~(n + 1 \in 1..0)
        BY <2>3
      <4> QED BY <2>3, <4>1
    <3> QED BY <1>1, <2>2, <3>1 DEF AnsweredInv
  <2>5. ASSUME ~Corrupt(id)
        PROVE  LET passed == peerGot'[r] \o sender'[r]
               IN /\ Len(passed) <= n + 1 /\ (r \in pendingPeerRequests' => Len(passed) = n + 1)
                  /\ \A k \in 1..Len(passed) : passed[k] = WithId(id, body'[id][k])
    <3> DEFINE old == peerGot[r] \o sender[r]
    <3>1. /\ peerGot[r] \in Seq(StdinFrames) /\ sender[r] \in Seq(StdinFrames) /\ f \in StdinFrames
          /\ old \in Seq(StdinFrames) /\ Len(old) \in Nat
      BY <1>2, TakeFacts DEF PassedTypeOK
    <3>2. /\ Len(old) <= n /\ (r \in pendingPeerRequests => Len(old) = n)
          /\ \A k \in 1..Len(old) : old[k] = WithId(id, body[id][k])
      BY <1>1, <2>2, <2>5 DEF AnsweredInv
    <3>3. CASE r \notin pendingPeerRequests' /\ sender'[r] = sender[r]
      <4>1. Len(old) <= n + 1
        <5> HIDE DEF old
        <5> QED BY <2>3, <3>1, <3>2
      <4> QED BY <1>2, <3>2, <3>3, <4>1
    <3>4. CASE r \in pendingPeerRequests /\ sender'[r] = Append(sender[r], f)
      <4>1. peerGot[r] \o Append(sender[r], f) = Append(old, f)
        <5>1. \A a, b \in Seq(StdinFrames) : \A x \in StdinFrames : a \o Append(b, x) = Append(a \o b, x)
          BY PutBehind
        <5> QED BY <3>1, <5>1
      <4>2. PICK new : new = peerGot'[r] \o sender'[r]
        OBVIOUS
      <4>3. new = Append(old, f)
        BY <3>4, <4>1, <4>2
      <4> HIDE DEF old
      <4>4. /\ Len(new) = n + 1 /\ new[n + 1] = f
            /\ \A k \in 1..n : new[k] = old[k]
        BY <2>3, <3>1, <3>2, <3>4, <4>3
      <4>5. \A k \in 1..n + 1 : k \in 1..n \/ k = n + 1
        BY <2>3
      <4>6. \A k \in 1..n + 1 : new[k] = WithId(id, body[id][k])
        BY <2>3, <3>2, <3>4, <4>4, <4>5
      <4>7. n + 1 <= n + 1
        BY <2>3
      <4> QED BY <1>2, <4>2, <4>4, <4>6, <4>7
    <3> QED BY <1>1, <2>1, <2>5, <3>3, <3>4 DEF PassedOn
  <2>6. (Corrupt(id)' <=> Corrupt(id)) /\ pc'[r] \notin {"none", "read", "invoke"}
    BY <1>2, <2>1, <2>4 DEF Corrupt
  <2>7. AnsweredInv(r, n + 1)'
    BY <1>1, <2>5, <2>6 DEF AnsweredInv
  <2> QED BY <1>1, <2>3, <2>7 DEF AnswerInv
<1>4. CASE ~Of(id, f)
  <2>1. AnswerStays(r)
    BY <1>1, <1>4 DEF Answered
  <2>2. \A n : HasRead(id, n) => HasRead(id, n)'
    BY <1>2, <1>4, TakenFrames
  <2> QED BY <1>1, <1>2, <2>1, <2>2, AnswerKept
<1> QED BY <1>3, <1>4

LEMMA RegisteredIs ==
  ASSUME IInv, NEW f, NEW q \in Requests
  PROVE  q \in Registered(f) <=> f.rid = Peer(q) /\ q \in pendingPeerRequests
<1>1. Peer(q) \in Peers /\ Owner(Peer(q)) = q
  BY DEF Peers, Owner, Peer
<1>2. ASSUME f.rid \in Peers PROVE f.rid = Peer(Owner(f.rid))
  <2>1. PICK p \in Requests : f.rid = Peer(p)
    BY <1>2 DEF Peers
  <2>2. Owner(Peer(p)) = p
    BY DEF Peers, Owner, Peer
  <2> QED BY <2>1, <2>2
<1> QED BY <1>1, <1>2 DEF Registered

\* What is collected, when only the entry of the request of the frame changes.
LEMMA CollectedWhen ==
  ASSUME IInv, PassInv, NEW f, Takes(f), f.type # "HEARTBEAT", UNCHANGED <<feeder, got, pc>>,
         \A q \in Requests : q # f.rid =>
           /\ q \in DOMAIN pendingIncoming' <=> q \in DOMAIN pendingIncoming
           /\ q \in DOMAIN pendingIncoming => pendingIncoming'[q] = pendingIncoming[q],
         \A r \in Requests : r = f.rid => Grown(r, f)
  PROVE  Collected(f)
<1>1. UNCHANGED <<body, framesChan>>
  BY DEF Takes
<1>2. ASSUME NEW q \in Requests, Of(q, f) PROVE FedInv(q)' /\ Grown(q, f)
  <2>1. FedInv(q) /\ q = f.rid
    BY <1>2 DEF PassInv, BodyInv, Of
  <2>2. (Corrupt(q)' <=> Corrupt(q)) /\ \A streams : Feeds(q, streams) => Feeds(q, streams)'
    BY <1>1 DEF Corrupt, Feeds
  <2>3. FedInv(q)'
    BY <1>1, <2>1, <2>2 DEF FedInv
  <2> QED BY <2>1, <2>3
<1>3. ASSUME NEW q \in Requests, ~Of(q, f) PROVE BodyStays(q)
  <2>1. q # f.rid
    BY <1>3 DEF Of
  <2> QED BY <1>1, <2>1 DEF BodyStays
<1> QED BY <1>2, <1>3 DEF Collected

\* A frame that is passed on, or comes too late.
LEMMA Forwards ==
  ASSUME IInv, PassInv, NEW f, Takes(f), f.type # "HEARTBEAT", UNCHANGED <<pc, peerGot, written>>,
         pendingPeerRequests' \in {pendingPeerRequests, pendingPeerRequests \ Registered(f)},
         Forward(f) \/ (UNCHANGED sender /\ pendingPeerRequests' = pendingPeerRequests \ Registered(f))
  PROVE  sender' \in [Requests -> Seq(StdinFrames)] /\ Answered(f)
<1>1. f \in StdinFrames /\ sender \in [Requests -> Seq(StdinFrames)]
  BY TakeFacts DEF PassInv, PassedTypeOK
<1>2. ASSUME NEW q \in Requests
      PROVE  IF Forward(f)
             THEN sender'[q] = IF f.rid = Peer(q) /\ q \in pendingPeerRequests THEN Append(sender[q], f) ELSE sender[q]
             ELSE sender'[q] = sender[q]
  <2>1. q \in Registered(f) <=> f.rid = Peer(q) /\ q \in pendingPeerRequests
    BY RegisteredIs
  <2> QED BY <2>1 DEF Forward
<1>3. sender' \in [Requests -> Seq(StdinFrames)]
  <2>1. CASE Forward(f)
    <3>1. sender' = [r \in Requests |-> IF r \in Registered(f) THEN Append(sender[r], f) ELSE sender[r]]
      BY <2>1 DEF Forward
    <3>2. \A r \in Requests : Append(sender[r], f) \in Seq(StdinFrames) /\ sender[r] \in Seq(StdinFrames)
      BY <1>1
    <3> QED BY <3>1, <3>2
  <2>2. CASE UNCHANGED sender
    BY <1>1, <2>2
  <2> QED BY <2>1, <2>2
<1>4. ASSUME NEW q \in Requests, Of(Peer(q), f) PROVE pc'[q] = pc[q] /\ PassedOn(q, f)
  <2>1. f.rid = Peer(q) /\ (q \in Registered(f) <=> q \in pendingPeerRequests)
    BY <1>4, RegisteredIs DEF Of
  <2>2. CASE q \notin pendingPeerRequests
    BY <1>2, <2>2 DEF PassedOn
  <2>3. CASE q \in pendingPeerRequests /\ Forward(f)
    BY <1>2, <2>1, <2>3 DEF PassedOn
  <2>4. CASE q \in pendingPeerRequests /\ ~Forward(f)
    BY <1>2, <2>1, <2>4 DEF PassedOn
  <2> QED BY <2>2, <2>3, <2>4
<1>5. ASSUME NEW q \in Requests, ~Of(Peer(q), f) PROVE AnswerStays(q)
  <2>1. f.rid # Peer(q)
    BY <1>5 DEF Of
  <2>2. sender'[q] = sender[q]
    BY <1>2, <2>1
  <2> QED BY <2>2 DEF AnswerStays
<1> QED BY <1>3, <1>4, <1>5 DEF Answered

\* A frame that is kept, refused or dropped, and a frame that starts a handler.
LEMMA StaysHere ==
  ASSUME IInv, PassInv, NEW f, Takes(f), f.type # "HEARTBEAT", UNCHANGED <<peerGot, sender, pendingPeerRequests>>,
         written' = written \/ \E frame : Write(f.rid, frame),
         \A q \in Requests : pc'[q] = pc[q] \/ (q = f.rid /\ pc[q] = "none" /\ pc'[q] = "read"),
         f.rid \in Requests \/ ~f.ok
  PROVE  sender' \in [Requests -> Seq(StdinFrames)] /\ Answered(f)
<1>1. sender' \in [Requests -> Seq(StdinFrames)]
  BY DEF PassInv, PassedTypeOK
<1>2. ASSUME NEW q \in Requests, Of(Peer(q), f) PROVE pc'[q] = pc[q] /\ PassedOn(q, f)
  <2>1. f.rid = Peer(q) /\ f.rid \notin Requests /\ Peer(q) \in Ids
    BY <1>2, IdsFacts DEF Of
  <2>2. PICK n : HasRead(Peer(q), n)
    BY DEF PassInv, AnswerInv
  <2>3. n + 1 \in 1..Len(body[Peer(q)]) /\ f = WithId(Peer(q), body[Peer(q)][n + 1])
    BY <1>2, <2>1, <2>2, TakenFrames
  <2>4. ~body[Peer(q)][n + 1].ok /\ DOMAIN body[Peer(q)] = 1..Len(body[Peer(q)])
    <3>1. WithId(Peer(q), body[Peer(q)][n + 1]).ok = body[Peer(q)][n + 1].ok
      BY DEF WithId
    <3>2. body[Peer(q)] \in Seq(HostFrames)
      BY <2>1 DEF IInv, TypeOK
    <3> QED BY <2>1, <2>3, <3>1, <3>2
  <2> QED BY <2>1, <2>3, <2>4 DEF PassedOn, Corrupt
<1>3. ASSUME NEW q \in Requests, ~Of(Peer(q), f) PROVE AnswerStays(q)
  <2>1. f.rid # Peer(q) /\ Peer(q) \in Ids
    BY <1>3, IdsFacts DEF Of
  <2>2. written'[Peer(q)] = written[Peer(q)]
    BY <2>1 DEF Write, IInv, TypeOK
  <2>3. pc'[q] \in Early => pc[q] \in Early
    BY DEF Early
  <2> QED BY <2>2, <2>3 DEF AnswerStays
<1> QED BY <1>1, <1>2, <1>3 DEF Answered

LEMMA LoopStep ==
  ASSUME IInv, IInv', PassInv, NEW f, Takes(f), UNCHANGED <<got, peerGot>>,
         sender' \in [Requests -> Seq(StdinFrames)], Collected(f), Answered(f)
  PROVE  PassInv'
<1>1. PassedTypeOK'
  BY DEF PassInv, PassedTypeOK
<1>2. \A r \in Requests : BodyInv(r)' /\ AnswerInv(r)'
  BY BodyTaken, AnswerTaken
<1> QED BY <1>1, <1>2 DEF PassInv

\* A frame of no request that is collected: the streams stay as they are.
LEMMA ForwardPasses ==
  ASSUME IInv, IInv', PassInv, NEW f, Takes(f), f.type \notin {"HEARTBEAT", "REQ"},
         UNCHANGED <<pendingIncoming, feeder, got, peerGot, pc, written>>,
         f.rid \in DOMAIN pendingIncoming => f.type \notin {"END", "CHUNK"},
         pendingPeerRequests' \in {pendingPeerRequests, pendingPeerRequests \ Registered(f)},
         Forward(f) \/ (UNCHANGED sender /\ pendingPeerRequests' = pendingPeerRequests \ Registered(f))
  PROVE  PassInv'
<1>1. sender' \in [Requests -> Seq(StdinFrames)] /\ Answered(f)
  BY Forwards
<1>2. ASSUME NEW r \in Requests, r = f.rid PROVE Grown(r, f)
  BY <1>2 DEF Grown, Collects
<1>3. Collected(f)
  BY <1>2, CollectedWhen
<1> QED BY <1>1, <1>3, LoopStep

\* A request that is forgotten.
LEMMA FailPasses ==
  ASSUME IInv, IInv', PassInv, NEW f, Takes(f), f.type # "HEARTBEAT", FailHard(f), Pending(f),
         UNCHANGED <<feeder, got, peerGot, pc, sender, pendingPeerRequests>>
  PROVE  PassInv'
<1>1. f.rid \in Requests
  BY FrameOf DEF Pending
<1>2. /\ f.rid \notin DOMAIN pendingIncoming'
      /\ \A q \in Requests : q # f.rid =>
           /\ q \in DOMAIN pendingIncoming' <=> q \in DOMAIN pendingIncoming
           /\ q \in DOMAIN pendingIncoming => pendingIncoming'[q] = pendingIncoming[q]
  BY DEF FailHard, Drop
<1>3. Collected(f)
  BY <1>2, CollectedWhen DEF Grown
<1>4. sender' \in [Requests -> Seq(StdinFrames)] /\ Answered(f)
  BY <1>1, StaysHere DEF FailHard
<1> QED BY <1>3, <1>4, LoopStep

\* A frame that is added to what is collected of its request.
LEMMA CollectPasses ==
  ASSUME IInv, IInv', PassInv, NEW f, Takes(f), f.type \notin {"HEARTBEAT", "END"}, f.rid \in Requests,
         UNCHANGED <<feeder, got, peerGot, pc, sender, pendingPeerRequests, written>>,
         f.type # "REQ" => f.rid \in DOMAIN pendingIncoming,
         ~Corrupt(f.rid) => Collects(pendingIncoming[f.rid], pendingIncoming'[f.rid], f),
         \A q \in Requests : q # f.rid =>
           /\ q \in DOMAIN pendingIncoming' <=> q \in DOMAIN pendingIncoming
           /\ q \in DOMAIN pendingIncoming => pendingIncoming'[q] = pendingIncoming[q]
  PROVE  PassInv'
<1>1. Collected(f)
  BY CollectedWhen DEF Grown
<1>2. sender' \in [Requests -> Seq(StdinFrames)] /\ Answered(f)
  BY StaysHere
<1> QED BY <1>1, <1>2, LoopStep

LEMMA ReqPasses ==
  ASSUME IInv, IInv', PassInv, NEW f, Takes(f), HandleReq(f)
  PROVE  PassInv'
<1>1. /\ UNCHANGED <<feeder, got, peerGot, pc, sender, pendingPeerRequests>> /\ f.type = "REQ"
      /\ f.rid \in Requests
  BY FrameOf DEF HandleReq, feeding, handling, peering
<1>2. CASE Write(f.rid, Frame("ERR", TRUE, 0)) /\ UNCHANGED pendingIncoming
  <2>1. f.rid \notin DOMAIN pendingIncoming
    <3>1. ReqOf(f.rid, f)
      BY <1>1 DEF ReqOf
    <3>2. Ahead(f.rid)
      BY <1>1, <3>1, TakeFacts
    <3> QED BY <1>1, <3>2 DEF IInv, LocalInv, CollectInv
  <2>2. Collected(f)
    BY <1>1, <1>2, <2>1, CollectedWhen DEF Grown
  <2>3. sender' \in [Requests -> Seq(StdinFrames)] /\ Answered(f)
    BY <1>1, <1>2, StaysHere
  <2> QED BY <1>1, <2>2, <2>3, LoopStep
<1>3. CASE pendingIncoming' = Set(f.rid, <<>>) /\ UNCHANGED written
  <2>1. /\ pendingIncoming'[f.rid] = <<>>
        /\ \A q \in Requests : q # f.rid =>
             /\ q \in DOMAIN pendingIncoming' <=> q \in DOMAIN pendingIncoming
             /\ q \in DOMAIN pendingIncoming => pendingIncoming'[q] = pendingIncoming[q]
    BY <1>3 DEF Set
  <2>2. Collects(pendingIncoming[f.rid], pendingIncoming'[f.rid], f)
    BY <1>1, <2>1 DEF Collects
  <2> QED BY <1>1, <1>3, <2>1, <2>2, CollectPasses
<1> QED BY <1>2, <1>3 DEF HandleReq

LEMMA ChunkPasses ==
  ASSUME IInv, IInv', PassInv, NEW f, Takes(f), HandleChunk(f)
  PROVE  PassInv'
<1>1. /\ UNCHANGED <<feeder, got, peerGot, pc, pendingPeerRequests>> /\ f.type = "CHUNK"
      /\ f.rid \in Ids /\ Of(f.rid, f) /\ f.data \in Int
      /\ f.rid \in DOMAIN pendingIncoming => f.rid \in Requests
  BY FrameOf DEF HandleChunk, feeding, handling
<1>2. CASE ~f.ok /\ Write(f.rid, Frame("ERR", FALSE, 0)) /\ UNCHANGED <<pendingIncoming, sender>>
  <2>1. \A r \in Requests : r = f.rid => Corrupt(r)
    BY <1>1, <1>2, TakeFacts
  <2>2. Collected(f)
    BY <1>1, <1>2, <2>1, CollectedWhen DEF Grown
  <2>3. sender' \in [Requests -> Seq(StdinFrames)] /\ Answered(f)
    BY <1>1, <1>2, StaysHere
  <2> QED BY <1>1, <2>2, <2>3, LoopStep
<1>3. CASE Pending(f) /\ FailHard(f) /\ UNCHANGED sender
  BY <1>1, <1>3, FailPasses
<1>4. ASSUME Pending(f), NEW i \in At(f), UNCHANGED <<written, sender>>,
             pendingIncoming' = [pendingIncoming EXCEPT ![f.rid][i].chunks = Append(@, f.data)]
      PROVE  PassInv'
  <2> DEFINE p == pendingIncoming[f.rid]
             x == [p[i] EXCEPT !.chunks = Append(@, f.data)]
  <2>1. f.rid \in DOMAIN pendingIncoming /\ f.rid \in Requests /\ i \in DOMAIN p /\ p[i].id = f.stream
    BY <1>1, <1>4 DEF Pending, At
  <2>2. p \in Seq(Streams) /\ p[i] \in Streams
    BY <2>1 DEF IInv, TypeOK
  <2>3. x.id = p[i].id /\ x.chunks = Append(p[i].chunks, f.data) /\ x \in Streams
    <3>1. p[i].chunks \in Seq(Int) /\ Append(p[i].chunks, f.data) \in Seq(Int)
      BY <1>1, <2>2 DEF Streams
    <3>2. PICK s : s = p[i]
      OBVIOUS
    <3>3. s \in Streams /\ x = [s EXCEPT !.chunks = Append(s.chunks, f.data)] /\ Append(s.chunks, f.data) \in Seq(Int)
      BY <2>2, <3>1, <3>2
    <3> HIDE DEF x, p
    <3>4. x.id = s.id /\ x.chunks = Append(s.chunks, f.data) /\ x \in Streams
      BY <3>3 DEF Streams
    <3> QED BY <3>2, <3>4
  <2>4. pendingIncoming' = [pendingIncoming EXCEPT ![f.rid] = [p EXCEPT ![i] = x]]
    BY <1>4
  <2>5. PICK y : y = x
    OBVIOUS
  <2>6. /\ pendingIncoming'[f.rid] = [p EXCEPT ![i] = y]
        /\ \A q \in Requests : q # f.rid =>
             /\ q \in DOMAIN pendingIncoming' <=> q \in DOMAIN pendingIncoming
             /\ q \in DOMAIN pendingIncoming => pendingIncoming'[q] = pendingIncoming[q]
    <3> HIDE DEF x, p
    <3> QED BY <2>1, <2>4, <2>5
  <2>7. ASSUME ~Corrupt(f.rid) PROVE Collects(p, pendingIncoming'[f.rid], f)
    <3>1. PICK n : CollectedInv(f.rid, n)
      BY <2>1 DEF PassInv, BodyInv
    <3>2. Distinct(p)
      BY <2>1, <2>7, <3>1 DEF CollectedInv
    <3> DEFINE new == [p EXCEPT ![i] = y]
    <3>3. /\ Len(p) \in Nat /\ DOMAIN p = 1..Len(p) /\ Len(new) = Len(p)
          /\ \A k \in 1..Len(p) : new[k] = IF k = i THEN y ELSE p[k]
      <4> HIDE DEF x, p
      <4> QED BY <2>1, <2>2, <2>3, <2>5
    <3>4. \A k \in 1..Len(p) : p[k].id = f.stream <=> k = i
      BY <2>1, <3>2, <3>3 DEF Distinct
    <3>5. y.id = p[i].id /\ y.chunks = Append(p[i].chunks, f.data)
      BY <2>3, <2>5
    <3> HIDE DEF x, p, new
    <3>6. \A k \in 1..Len(p) : new[k].id = p[k].id
      BY <3>3, <3>5
    <3>7. \A k \in 1..Len(p) :
            new[k].chunks = IF p[k].id = f.stream THEN Append(p[k].chunks, f.data) ELSE p[k].chunks
      BY <3>3, <3>4, <3>5
    <3>8. \E k \in 1..Len(p) : p[k].id = f.stream
      BY <2>1, <3>3
    <3>9. Collects(p, new, f)
      BY <1>1, <3>3, <3>6, <3>7, <3>8 DEF Collects
    <3> QED BY <2>6, <3>9 DEF new
  <2> QED BY <1>1, <1>4, <2>1, <2>6, <2>7, CollectPasses
<1>5. CASE ~Pending(f) /\ Forward(f) /\ UNCHANGED <<pendingIncoming, written>>
  BY <1>1, <1>5, ForwardPasses DEF Pending
<1> QED BY <1>2, <1>3, <1>4, <1>5 DEF HandleChunk

LEMMA StartPasses ==
  ASSUME IInv, IInv', PassInv, NEW f, Takes(f), HandleStreamStart(f)
  PROVE  PassInv'
<1>1. /\ UNCHANGED <<feeder, got, peerGot, pc, pendingPeerRequests>> /\ f.type = "STREAM_START"
      /\ f.rid \in DOMAIN pendingIncoming => f.rid \in Requests
  BY FrameOf DEF HandleStreamStart, feeding, handling
<1>2. CASE Pending(f) /\ FailHard(f) /\ UNCHANGED sender
  BY <1>1, <1>2, FailPasses
<1>3. ASSUME Pending(f), At(f) = {}, UNCHANGED <<written, sender>>,
             pendingIncoming' = [pendingIncoming EXCEPT ![f.rid] =
               Append(@, [id |-> f.stream, chunks |-> <<>>, complete |-> FALSE])]
      PROVE  PassInv'
  <2> DEFINE p == pendingIncoming[f.rid]
             x == [id |-> f.stream, chunks |-> <<>>, complete |-> FALSE]
  <2>1. f.rid \in DOMAIN pendingIncoming /\ f.rid \in Requests
    BY <1>1, <1>3 DEF Pending
  <2>2. p \in Seq(Streams) /\ Len(p) \in Nat /\ DOMAIN p = 1..Len(p)
    BY <2>1 DEF IInv, TypeOK
  <2>3. \A k \in 1..Len(p) : p[k].id # f.stream
    BY <1>3, <2>2 DEF At
  <2>4. x.id = f.stream /\ x.chunks = <<>>
    OBVIOUS
  <2>5. /\ pendingIncoming'[f.rid] = Append(p, x)
        /\ \A q \in Requests : q # f.rid =>
             /\ q \in DOMAIN pendingIncoming' <=> q \in DOMAIN pendingIncoming
             /\ q \in DOMAIN pendingIncoming => pendingIncoming'[q] = pendingIncoming[q]
    BY <1>3, <2>1
  <2> HIDE DEF p, x
  <2>6. PICK new : new = Append(p, x)
    OBVIOUS
  <2>7. Len(new) = Len(p) + 1 /\ new[Len(new)] = x /\ \A k \in 1..Len(p) : new[k] = p[k]
    BY <2>2, <2>6
  <2>8. Collects(p, new, f)
    BY <1>1, <2>3, <2>4, <2>7 DEF Collects
  <2>9. Collects(pendingIncoming[f.rid], pendingIncoming'[f.rid], f)
    BY <2>5, <2>6, <2>8 DEF p
  <2> QED BY <1>1, <1>3, <2>1, <2>5, <2>9, CollectPasses
<1>4. CASE ~Pending(f) /\ Forward(f) /\ UNCHANGED <<pendingIncoming, written>>
  BY <1>1, <1>4, ForwardPasses
<1> QED BY <1>2, <1>3, <1>4 DEF HandleStreamStart

LEMMA StopPasses ==
  ASSUME IInv, IInv', PassInv, NEW f, Takes(f), HandleStreamEnd(f)
  PROVE  PassInv'
<1>1. /\ UNCHANGED <<feeder, got, peerGot, pc, pendingPeerRequests>> /\ f.type = "STREAM_END"
      /\ f.rid \in DOMAIN pendingIncoming => f.rid \in Requests
  BY FrameOf DEF HandleStreamEnd, feeding, handling
<1>2. CASE Pending(f) /\ FailHard(f) /\ UNCHANGED sender
  BY <1>1, <1>2, FailPasses
<1>3. ASSUME Pending(f), NEW i \in At(f), UNCHANGED <<written, sender>>,
             pendingIncoming' = [pendingIncoming EXCEPT ![f.rid][i].complete = TRUE]
      PROVE  PassInv'
  <2> DEFINE p == pendingIncoming[f.rid]
             x == [p[i] EXCEPT !.complete = TRUE]
  <2>1. f.rid \in DOMAIN pendingIncoming /\ f.rid \in Requests /\ i \in DOMAIN p
    BY <1>1, <1>3 DEF Pending, At
  <2>2. p \in Seq(Streams) /\ p[i] \in Streams
    BY <2>1 DEF IInv, TypeOK
  <2>3. x.id = p[i].id /\ x.chunks = p[i].chunks /\ x \in Streams
    <3>1. PICK s : s = p[i]
      OBVIOUS
    <3>2. s \in Streams /\ x = [s EXCEPT !.complete = TRUE]
      BY <2>2, <3>1
    <3> HIDE DEF x, p
    <3>3. x.id = s.id /\ x.chunks = s.chunks /\ x \in Streams
      BY <3>2 DEF Streams
    <3> QED BY <3>1, <3>3
  <2>4. pendingIncoming' = [pendingIncoming EXCEPT ![f.rid] = [p EXCEPT ![i] = x]]
    BY <1>3
  <2>5. PICK y : y = x
    OBVIOUS
  <2>6. /\ pendingIncoming'[f.rid] = [p EXCEPT ![i] = y]
        /\ \A q \in Requests : q # f.rid =>
             /\ q \in DOMAIN pendingIncoming' <=> q \in DOMAIN pendingIncoming
             /\ q \in DOMAIN pendingIncoming => pendingIncoming'[q] = pendingIncoming[q]
    <3> HIDE DEF x, p
    <3> QED BY <2>1, <2>4, <2>5
  <2> DEFINE new == [p EXCEPT ![i] = y]
  <2>7. /\ Len(new) = Len(p)
        /\ \A k \in 1..Len(p) : new[k] = IF k = i THEN y ELSE p[k]
    <3> HIDE DEF x, p
    <3> QED BY <2>1, <2>2, <2>3, <2>5
  <2>8. y.id = p[i].id /\ y.chunks = p[i].chunks
    BY <2>3, <2>5
  <2>9. Collects(p, new, f)
    <3> HIDE DEF x, p, new
    <3> QED BY <1>1, <2>7, <2>8 DEF Collects
  <2>10. Collects(pendingIncoming[f.rid], pendingIncoming'[f.rid], f)
    BY <2>6, <2>9
  <2> QED BY <1>1, <1>3, <2>1, <2>6, <2>10, CollectPasses
<1>4. CASE ~Pending(f) /\ Forward(f) /\ UNCHANGED <<pendingIncoming, written>>
  BY <1>1, <1>4, ForwardPasses
<1> QED BY <1>2, <1>3, <1>4 DEF HandleStreamEnd

\* The feeder of a request whose body has ended.
LEMMA FeedBegins ==
  ASSUME IInv, PassInv, NEW f, Takes(f), f.type = "END", NEW r \in Requests, Of(r, f), r \in DOMAIN pendingIncoming,
         feeder'[r] = InputOf(pendingIncoming[r]), pc'[r] = "read", UNCHANGED got
  PROVE  FedInv(r)'
<1> DEFINE p == pendingIncoming[r]
           b == body[r]
<1>1. /\ pc[r] = "none" /\ FedInv(r) /\ p \in Seq(Streams) /\ r \in Ids /\ body' = body /\ framesChan' = framesChan
      /\ b \in Seq(HostFrames)
  BY IdsFacts DEF IInv, LocalInv, CollectInv, PassInv, BodyInv, TypeOK, Takes
<1>2. got'[r] = <<>> /\ framesChan'[r] = <<>> /\ got'[r] \o framesChan'[r] = <<>>
  BY <1>1 DEF FedInv
<1>3. PICK n : HasRead(r, n) /\ CollectedInv(r, n)
  BY DEF PassInv, BodyInv
<1>4. n + 1 \in 1..Len(b) /\ f = WithId(r, b[n + 1]) /\ n \in Nat
  BY <1>1, <1>3, TakenFrames
<1>5. b[n + 1].type = "END"
  <2>1. WithId(r, b[n + 1]).type = b[n + 1].type
    BY DEF WithId
  <2> QED BY <1>4, <2>1
<1>6. PICK streams \in Seq(Streams) : streams = p
  BY <1>1
<1>7. ASSUME ~Corrupt(r) PROVE Feeds(r, streams)'
  <2>1. /\ \A i \in 1..n : b[i].type # "END"
        /\ Distinct(p) /\ \A s \in STRING : Holds(p, s, DataOf(SubSeq(b, 1, n), s))
    BY <1>3, <1>7 DEF CollectedInv
  <2>2. UpToEnd(b) = SubSeq(b, 1, n + 1)
    <3> HIDE DEF b
    <3> QED BY <1>1, <1>4, <1>5, <2>1, EndOfBody
  <2>3. \A s : DataOf(UpToEnd(b), s) = DataOf(SubSeq(b, 1, n), s)
    <3> SUFFICES ASSUME NEW s PROVE DataOf(UpToEnd(b), s) = DataOf(SubSeq(b, 1, n), s)
      OBVIOUS
    <3> HIDE DEF b
    <3>1. DataOf(SubSeq(b, 1, n + 1), s) =
            IF b[n + 1].type = "CHUNK" /\ b[n + 1].stream = s
            THEN Append(DataOf(SubSeq(b, 1, n), s), b[n + 1].data) ELSE DataOf(SubSeq(b, 1, n), s)
      BY <1>1, <1>4, DataOfPrefix
    <3>2. b[n + 1].type # "CHUNK"
      BY <1>5
    <3> QED BY <2>2, <3>1, <3>2
  <2>4. AtItem(feeder'[r], p, 1, 1) /\ Pushes(got'[r] \o framesChan'[r], p, 1, 1)
    BY <1>1, <1>2, FeederStarts
  <2>5. 1 \in 1..Len(p) + 2 /\ 1 \in Nat \ {0}
    <3>1. Len(p) \in Nat
      BY <1>1
    <3> HIDE DEF p
    <3> QED BY <3>1
  <2>6. /\ Distinct(streams) /\ \A s \in STRING : Holds(streams, s, DataOf(UpToEnd(body'[r]), s))
        /\ 1 \in 1..Len(streams) + 2 /\ AtItem(feeder'[r], streams, 1, 1)
        /\ Pushes(got'[r] \o framesChan'[r], streams, 1, 1)
    BY <1>1, <1>6, <2>1, <2>3, <2>4, <2>5
  <2> QED BY <2>5, <2>6 DEF Feeds
<1>8. pc'[r] # "none" /\ (Corrupt(r)' <=> Corrupt(r))
  BY <1>1 DEF Corrupt
<1>9. ~Corrupt(r)' => \E s \in Seq(Streams) : Feeds(r, s)'
  BY <1>7, <1>8
<1> QED BY <1>8, <1>9 DEF FedInv

LEMMA EndPasses ==
  ASSUME IInv, IInv', PassInv, NEW f, Takes(f), HandleEnd(f)
  PROVE  PassInv'
<1>1. /\ UNCHANGED <<sender, framesChan, got, peerGot, written>> /\ f.type = "END" /\ Of(f.rid, f)
      /\ f.rid \in DOMAIN pendingIncoming => f.rid \in Requests
  BY FrameOf DEF HandleEnd
<1>2. CASE /\ Pending(f) /\ pendingIncoming' = Drop(f.rid)
           /\ feeder' = [feeder EXCEPT ![f.rid] = InputOf(pendingIncoming[f.rid])]
           /\ pc' = [pc EXCEPT ![f.rid] = "read"] /\ UNCHANGED pendingPeerRequests
  <2>1. f.rid \in Requests /\ f.rid \in DOMAIN pendingIncoming
    BY <1>1, <1>2 DEF Pending
  <2>2. /\ feeder'[f.rid] = InputOf(pendingIncoming[f.rid]) /\ pc'[f.rid] = "read" /\ pc[f.rid] = "none"
        /\ \A q \in Requests \ {f.rid} : feeder'[q] = feeder[q] /\ pc'[q] = pc[q]
    BY <1>2, <2>1 DEF IInv, TypeOK, LocalInv, CollectInv
  <2>3. FedInv(f.rid)'
    BY <1>1, <2>1, <2>2, FeedBegins
  <2>4. Collected(f)
    <3>1. ASSUME NEW q \in Requests, Of(q, f) PROVE FedInv(q)' /\ Grown(q, f)
      BY <1>2, <2>3, <3>1 DEF Of, Grown, Drop
    <3>2. ASSUME NEW q \in Requests, ~Of(q, f) PROVE BodyStays(q)
      <4>1. q # f.rid
        BY <1>1, <3>2
      <4> QED BY <1>1, <1>2, <2>2, <4>1 DEF BodyStays, Drop
    <3> QED BY <3>1, <3>2 DEF Collected
  <2>5. sender' \in [Requests -> Seq(StdinFrames)] /\ Answered(f)
    BY <1>1, <1>2, <2>1, <2>2, StaysHere
  <2> QED BY <1>1, <2>4, <2>5, LoopStep
<1>3. CASE /\ ~Pending(f) /\ pendingPeerRequests' = pendingPeerRequests \ Registered(f)
           /\ UNCHANGED <<pendingIncoming, feeder, pc>>
  BY <1>1, <1>3, ForwardPasses DEF Pending
<1> QED BY <1>2, <1>3 DEF HandleEnd

LEMMA LoopPasses ==
  ASSUME IInv, IInv', PassInv, ReadLoop
  PROVE  PassInv'
<1>1. PICK f : f = Head(stdin)
  OBVIOUS
<1>2. \/ HandleReq(f) \/ HandleHeartbeat(f) \/ HandleChunk(f) \/ HandleStreamStart(f)
      \/ HandleStreamEnd(f) \/ HandleEnd(f) \/ HandleErr(f) \/ HandleLog(f)
  BY <1>1 DEF ReadLoop
<1>3. Takes(f)
  <2>1. UNCHANGED <<inputClosed, framesChan>>
    BY <1>2 DEF HandleReq, HandleHeartbeat, HandleChunk, HandleStreamStart, HandleStreamEnd, HandleEnd, HandleErr,
                HandleLog, feeding
  <2> QED BY <1>1, <2>1 DEF ReadLoop, Takes, emitter
<1>4. CASE HandleErr(f) \/ HandleLog(f)
  <2>1. /\ UNCHANGED <<pendingIncoming, feeder, got, peerGot, pc, written>> /\ f.type \in {"ERR", "LOG"} /\ Forward(f)
        /\ pendingPeerRequests' \in {pendingPeerRequests, pendingPeerRequests \ Registered(f)}
    BY <1>4 DEF HandleErr, HandleLog, feeding, handling
  <2> QED BY <1>3, <2>1, ForwardPasses
<1>5. CASE HandleHeartbeat(f)
  <2>1. /\ UNCHANGED <<pendingIncoming, feeder, framesChan, got, peerGot, pc, written, sender, pendingPeerRequests>>
        /\ f.type = "HEARTBEAT"
    BY <1>5 DEF HandleHeartbeat, peering, feeding, handling
  <2>2. sender' \in [Requests -> Seq(StdinFrames)]
    BY <2>1 DEF PassInv, PassedTypeOK
  <2>3. Collected(f) /\ Answered(f)
    BY <2>1 DEF Collected, Answered, Of, BodyStays, AnswerStays
  <2> QED BY <1>3, <2>1, <2>2, <2>3, LoopStep
<1> QED BY <1>2, <1>3, <1>4, <1>5, ReqPasses, ChunkPasses, StartPasses, StopPasses, EndPasses

LEMMA InitPasses == Init => PassInv
<1> SUFFICES ASSUME Init PROVE PassInv
  OBVIOUS
<1>1. IInv
  BY InitHolds
<1>2. PICK s \in Scenarios : body = [id \in Ids |-> IF id \in Requests THEN s.body[id] ELSE <<>>]
  BY DEF Init
<1>3. /\ stdin = <<>> /\ todo = body /\ DOMAIN pendingIncoming = {} /\ pendingPeerRequests = {}
      /\ sender = [r \in Requests |-> <<>>] /\ got = [r \in Requests |-> <<>>] /\ framesChan = got /\ peerGot = got
      /\ pc = [r \in Requests |-> "none"] /\ written = [id \in Ids |-> <<>>]
  BY DEF Init
<1>4. PassedTypeOK
  BY <1>3 DEF PassedTypeOK
<1>5. ASSUME NEW id \in Ids PROVE HasRead(id, 0)
  <2>1. body[id] \in Seq(HostFrames) /\ Len(body[id]) \in Nat
    BY <1>1, <1>5 DEF IInv, TypeOK
  <2>2. 0 + 0 + Len(todo[id]) = Len(body[id]) /\ \A k \in 1..Len(todo[id]) : todo[id][k] = body[id][0 + 0 + k]
    BY <1>3, <2>1
  <2>3. Len(stdin) = 0
    BY <1>3
  <2>4. PICK p \in [1..0 -> 1..Len(stdin)] : TRUE
    <3>1. [k \in 1..0 |-> 1] \in [1..0 -> 1..Len(stdin)]
      OBVIOUS
    <3> QED BY <3>1
  <2>5. OnStdin(id, 0, 0, p)
    BY <2>3 DEF OnStdin
  <2>6. Arriving(id, 0, 0)
    BY <2>2, <2>5 DEF Arriving
  <2> QED BY <2>6 DEF HasRead
<1>6. ASSUME NEW r \in Requests PROVE BodyInv(r) /\ AnswerInv(r)
  <2>1. /\ r \in Ids /\ Peer(r) \in Ids /\ Peer(r) \notin Requests /\ body[Peer(r)] = <<>> /\ body[r] = s.body[r]
    BY <1>2, IdsFacts
  <2>2. FedInv(r)
    BY <1>3 DEF FedInv
  <2>3. CollectedInv(r, 0)
    <3>1. body[r] \in Seq(HostFrames) /\ \A i \in DOMAIN body[r] : body[r][i].type = "REQ" => i = 1
      BY <2>1, RuntimeAssumption
    <3>2. DOMAIN body[r] = 1..Len(body[r])
      BY <3>1
    <3> QED BY <1>3, <3>1, <3>2 DEF CollectedInv
  <2>4. BodyInv(r)
    BY <1>5, <2>1, <2>2, <2>3 DEF BodyInv
  <2>5. Len(peerGot[r] \o sender[r]) = 0
    BY <1>3
  <2>6. AnsweredInv(r, 0)
    BY <1>3, <2>1, <2>5 DEF AnsweredInv
  <2> QED BY <1>5, <2>1, <2>4, <2>6 DEF AnswerInv
<1> QED BY <1>4, <1>6 DEF PassInv

LEMMA StepPasses == IInv /\ PassInv /\ [Next]_vars => PassInv'
<1> SUFFICES ASSUME IInv, PassInv, [Next]_vars PROVE PassInv'
  OBVIOUS
<1>1. IInv'
  BY StepHolds
<1>2. CASE Host \/ ReadEof \/ UNCHANGED vars
  BY <1>2, HostPasses
<1>3. CASE ReadLoop
  BY <1>1, <1>3, LoopPasses
<1>4. ASSUME NEW r \in Requests, Feed(r) PROVE PassInv'
  BY <1>4, FeedPasses
<1>5. ASSUME NEW r \in Requests, HandlerReads(r) PROVE PassInv'
  BY <1>5, ReadPasses
<1>6. ASSUME NEW r \in Requests, HandlerAwaits(r) PROVE PassInv'
  BY <1>6, AwaitPasses
<1>7. ASSUME NEW r \in Requests, HandlerStep(r) \/ HandlerQuits(r) \/ EmitChunk(r) \/ HandlerReturns(r) PROVE PassInv'
  BY <1>5, <1>6, <1>7, HandlerPasses DEF HandlerStep
<1> QED BY <1>2, <1>3, <1>4, <1>7 DEF Next

LEMMA Behind ==
  ASSUME NEW S, NEW a \in Seq(S), NEW b \in Seq(S)
  PROVE  /\ Len(a) \in Nat /\ Len(b) \in Nat /\ Len(a \o b) = Len(a) + Len(b)
         /\ \A k \in 1..Len(a) : (a \o b)[k] = a[k]
OBVIOUS

LEMMA BodiesRead == IInv /\ PassInv => BodiesAreComplete
<1> SUFFICES ASSUME IInv, PassInv, NEW r \in Requests, got[r] # <<>>, Last(got[r]).type = "END", ~Corrupt(r),
                    NEW i \in DOMAIN body[r], body[r][i].type = "STREAM_START"
             PROVE  DataOf(got[r], body[r][i].stream) = DataOf(UpToEnd(body[r]), body[r][i].stream)
  BY DEF BodiesAreComplete
<1> DEFINE items == got[r] \o framesChan[r]
<1>1. PICK s \in STRING : s = body[r][i].stream
  <2>1. body[r] \in Seq(HostFrames)
    BY IdsFacts DEF IInv, TypeOK
  <2>2. body[r][i] \in HostFrames
    BY <2>1
  <2> QED BY <2>2 DEF HostFrames
<1>2. /\ got[r] \in Seq(Items) /\ framesChan[r] \in Seq(Items) /\ Len(got[r]) \in Nat /\ Len(got[r]) >= 1
      /\ Len(framesChan[r]) \in Nat /\ got[r][Len(got[r])].type = "END"
  BY DEF IInv, TypeOK, PassInv, PassedTypeOK, Last
<1>3. PICK streams \in Seq(Streams) : Feeds(r, streams)
  BY DEF PassInv, BodyInv, FedInv
<1>4. PICK k \in 1..Len(streams) + 2, c \in Nat \ {0} : Pushes(items, streams, k, c)
  BY <1>3 DEF Feeds
<1>5. k = Len(streams) + 2 /\ items = got[r]
  <2>1. /\ Len(got[r]) \in 1..Len(items) /\ items[Len(got[r])].type = "END"
        /\ Len(items) = Len(got[r]) + Len(framesChan[r])
    <3>1. /\ Len(items) = Len(got[r]) + Len(framesChan[r])
          /\ \A j \in 1..Len(got[r]) : items[j] = got[r][j]
      BY <1>2, Behind
    <3>2. Len(got[r]) \in 1..Len(got[r]) + Len(framesChan[r]) /\ Len(got[r]) \in 1..Len(got[r])
      <4>1. \A x, y \in Nat : x >= 1 => x \in 1..x + y /\ x \in 1..x
        OBVIOUS
      <4> QED BY <1>2, <4>1
    <3> HIDE DEF items
    <3> QED BY <1>2, <3>1, <3>2
  <2>2. Len(got[r]) = Len(items) /\ k = Len(streams) + 2
    <3> HIDE DEF items
    <3> QED BY <1>4, <2>1 DEF Pushes
  <2>3. Len(framesChan[r]) = 0
    <3>1. \A x, y \in Nat : x = x + y => y = 0
      OBVIOUS
    <3> HIDE DEF items
    <3> QED BY <1>2, <2>1, <2>2, <3>1
  <2>4. framesChan[r] = <<>>
    BY <1>2, <2>3
  <2> QED BY <1>2, <2>2, <2>4
<1>6. Holds(streams, s, DataOf(UpToEnd(body[r]), s))
  BY <1>3 DEF Feeds
<1>7. Len(streams) \in Nat
  OBVIOUS
<1>8. CASE \E j \in 1..Len(streams) : streams[j].id = s /\ DataOf(UpToEnd(body[r]), s) = streams[j].chunks
  <2>1. PICK j \in 1..Len(streams) : streams[j].id = s /\ DataOf(UpToEnd(body[r]), s) = streams[j].chunks
    BY <1>8
  <2>2. j < k
    BY <1>5, <1>7
  <2> HIDE DEF items
  <2>3. DataOf(items, streams[j].id) = streams[j].chunks
    BY <1>4, <2>2 DEF Pushes
  <2> QED BY <1>1, <1>5, <2>1, <2>3
<1>9. CASE (\A j \in 1..Len(streams) : streams[j].id # s) /\ DataOf(UpToEnd(body[r]), s) = <<>>
  <2> HIDE DEF items
  <2>1. DataOf(items, s) = <<>>
    BY <1>4, <1>9 DEF Pushes
  <2> QED BY <1>1, <1>5, <1>9, <2>1
<1> QED BY <1>6, <1>8, <1>9 DEF Holds

LEMMA AnswersRead == IInv /\ PassInv => PeerFramesInOrder
<1> SUFFICES ASSUME IInv, PassInv, NEW r \in Requests, ~Corrupt(Peer(r))
             PROVE  IsPrefix(peerGot[r], Sent(Peer(r)))
  BY DEF PeerFramesInOrder
<1>1. PICK id \in Ids : id = Peer(r)
  BY IdsFacts
<1> DEFINE sent == Sent(id)
           passed == peerGot[r] \o sender[r]
<1>2. /\ peerGot[r] \in Seq(StdinFrames) /\ sender[r] \in Seq(StdinFrames) /\ body[id] \in Seq(HostFrames)
      /\ todo[id] \in Seq(HostFrames)
  BY DEF IInv, TypeOK, PassInv, PassedTypeOK
<1>3. /\ Len(peerGot[r]) \in Nat /\ Len(sender[r]) \in Nat /\ Len(body[id]) \in Nat /\ Len(todo[id]) \in Nat
      /\ Len(passed) = Len(peerGot[r]) + Len(sender[r]) /\ DOMAIN body[id] = 1..Len(body[id])
      /\ \A k \in 1..Len(peerGot[r]) : passed[k] = peerGot[r][k]
  <2>1. Len(body[id]) \in Nat /\ Len(todo[id]) \in Nat /\ DOMAIN body[id] = 1..Len(body[id])
    BY <1>2
  <2>2. \A a, b \in Seq(StdinFrames) :
          /\ Len(a) \in Nat /\ Len(b) \in Nat /\ Len(a \o b) = Len(a) + Len(b)
          /\ \A k \in 1..Len(a) : (a \o b)[k] = a[k]
    BY Behind
  <2> QED BY <1>2, <2>1, <2>2
<1>4. PICK n : HasRead(id, n) /\ AnsweredInv(r, n)
  BY <1>1 DEF PassInv, AnswerInv
<1>5. Len(passed) <= n /\ \A k \in 1..Len(passed) : passed[k] = WithId(id, body[id][k])
  BY <1>1, <1>4 DEF AnsweredInv
<1>6. n \in Nat /\ n <= Len(body[id])
  <2>1. PICK m \in Nat : n + m + Len(todo[id]) = Len(body[id])
    BY <1>4 DEF HasRead, Arriving
  <2>2. n \in Nat
    BY <1>4 DEF HasRead
  <2>3. \A x, y, z \in Nat : x <= x + y + z
    OBVIOUS
  <2> QED BY <1>3, <2>1, <2>2, <2>3
<1>7. /\ Len(sent) = Len(body[id]) /\ sent \in Seq(Range(sent))
      /\ \A k \in 1..Len(body[id]) : sent[k] = WithId(id, body[id][k])
  <2>1. sent = [k \in 1..Len(body[id]) |-> WithId(id, body[id][k])]
    BY <1>3 DEF Sent
  <2> QED BY <1>3, <2>1 DEF Range
<1> HIDE DEF sent, passed
<1>8. Len(peerGot[r]) <= Len(passed) /\ Len(passed) <= Len(body[id]) /\ Len(peerGot[r]) <= Len(sent)
  <2>1. \A x, y, z, w \in Nat : x + y <= z /\ z <= w => x <= x + y /\ x + y <= w /\ x <= w
    OBVIOUS
  <2>2. Len(peerGot[r]) + Len(sender[r]) <= n
    BY <1>3, <1>5
  <2>3. /\ Len(peerGot[r]) <= Len(peerGot[r]) + Len(sender[r])
        /\ Len(peerGot[r]) + Len(sender[r]) <= Len(body[id]) /\ Len(peerGot[r]) <= Len(body[id])
    BY <1>3, <1>6, <2>1, <2>2
  <2> QED BY <1>3, <1>7, <2>3
<1>9. ASSUME NEW k \in 1..Len(peerGot[r]) PROVE peerGot[r][k] = sent[k]
  <2>1. k \in 1..Len(passed) /\ k \in 1..Len(body[id])
    <3>1. \A x, y, z \in Nat : x <= y /\ y <= z => \A j \in 1..x : j \in 1..y /\ j \in 1..z
      OBVIOUS
    <3>2. Len(passed) \in Nat
      <4>1. \A x, y \in Nat : x + y \in Nat
        OBVIOUS
      <4> QED BY <1>3, <4>1
    <3> QED BY <1>3, <1>8, <3>1, <3>2
  <2> QED BY <1>3, <1>5, <1>7, <2>1
<1>10. SubSeq(peerGot[r], 1, Len(peerGot[r])) = SubSeq(sent, 1, Len(peerGot[r]))
  <2> DEFINE g == peerGot[r]
             a == SubSeq(g, 1, Len(g))
             b == SubSeq(sent, 1, Len(g))
  <2>1. a = [k \in 1..Len(g) |-> g[k]]
    BY <1>2, <1>3
  <2>2. b = [k \in 1..Len(g) |-> sent[k]]
    <3>1. Len(g) \in 0..Len(sent)
      BY <1>3, <1>8
    <3> HIDE DEF g
    <3> QED BY <1>7, <3>1
  <2> QED BY <1>9, <2>1, <2>2
<1> QED BY <1>1, <1>8, <1>10 DEF IsPrefix, sent

\* A handler reads what was sent: of every stream of its own body the chunks in order,
\* however the streams were interleaved on stdin, collected, pushed by the feeder and
\* read; and of the response to its peer request a prefix, whatever is read, forwarded
\* or closed in between (cartridge_runtime.go: pendingIncoming, framesChan and the
\* channels of pendingPeerRequests).
THEOREM InputsAreComplete == Spec => []InputIsComplete
<1>1. Init => IInv /\ PassInv
  BY InitHolds, InitPasses
<1>2. (IInv /\ PassInv) /\ [Next]_vars => (IInv /\ PassInv)'
  BY StepHolds, StepPasses
<1>3. IInv /\ PassInv => InputIsComplete
  BY BodiesRead, AnswersRead DEF InputIsComplete
<1> QED BY <1>1, <1>2, <1>3, PTL DEF Spec
=============================================================================
