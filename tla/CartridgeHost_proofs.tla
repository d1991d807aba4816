------------------------- MODULE CartridgeHost_proofs -------------------------
(***************************************************************************)
(* Machine-checked proofs about CartridgeHost, for all values of its       *)
(* constants that satisfy HostAssumption: any number of cartridges, any    *)
(* requests, caps, channel size and bounds on deaths and heartbeats.       *)
(***************************************************************************)
EXTENDS CartridgeHost, NaturalFacts, FiniteSetTheorems, TLAPS

-----------------------------------------------------------------------------
(***************************************************************************)
(* Types                                                                   *)
(***************************************************************************)

ReqFrames(rids) ==
  [type : {"REQ"}, rid : rids, xid : BOOLEAN, role : {"body"}, n : {0}, cap : Caps]
Frames(types, rids, role) ==
  [type : types, rid : rids, xid : BOOLEAN, role : {role}, n : Nat]
Beats == Frames({"HEARTBEAT"}, {"beat"}, "body")

\* What a process sends, what the host sends up, what the relay sends down, and
\* what the host sends to a process.
EventFrames == ReqFrames(PeerRids) \cup Frames({"END"}, PeerRids, "body")
                 \cup Frames(Responses, Rids, "resp") \cup Beats \cup [type : {"DEATH"}]
UpFrames == ReqFrames(PeerRids) \cup Frames({"END", "ERR"}, PeerRids, "body")
              \cup Frames(Responses, Rids, "resp")
DownFrames == ReqFrames(Rids) \cup Frames({"END", "ERR"}, PeerRids, "body")
                \cup Frames({"BODY", "END", "ERR"}, EngineRids, "body")
                \cup Frames(Responses, PeerRids, "resp")
ChannelFrames == DownFrames \cup Beats

Nobody == <<None, 0>>
Processes == (Cartridges \cup {None}) \X Nat

TypeOK ==
  /\ added \subseteq Cartridges /\ running \subseteq Cartridges /\ stuck \subseteq Cartridges
  /\ helloFailed \subseteq Cartridges
  /\ DOMAIN outgoingRids \subseteq PeerRids /\ IsFiniteSet(DOMAIN outgoingRids)
  /\ outgoingRids \in [DOMAIN outgoingRids -> Cartridges]
  /\ DOMAIN incomingRxids \subseteq Rids /\ IsFiniteSet(DOMAIN incomingRxids)
  /\ incomingRxids \in [DOMAIN incomingRxids -> Cartridges]
  /\ writerCh \in [Cartridges -> Seq(ChannelFrames)]
  /\ events \in [Cartridges -> Seq(EventFrames)]
  /\ relayIn \in Seq(DownFrames) /\ relayOut \in Seq(UpFrames)
  /\ relayUp \in BOOLEAN /\ stopped \in BOOLEAN
  /\ alive \subseteq Cartridges /\ incarnation \in [Cartridges -> Nat]
  /\ serving \in [Cartridges -> SUBSET Rids] /\ complete \in [Cartridges -> SUBSET Rids]
  /\ beats \in Nat /\ deaths \in Nat
  /\ phase \in [Rids -> {"idle", "open", "body", "closed", "broken"}]
  /\ place \in [PeerRids -> {"none", "elsewhere", "settled", "here"}]
  /\ replies \in [Rids -> Nat]
  /\ handler \in [Rids -> Processes] /\ requester \in [PeerRids -> Processes]
  /\ bodyEnded \subseteq Rids /\ early \subseteq Rids
  /\ relayGot \in [Rids -> Seq(UpFrames)]

-----------------------------------------------------------------------------
(***************************************************************************)
(* What a queue holds: the requests whose REQ, body frame, end of a body,  *)
(* broken-off body, response frame or last response frame is in it         *)
(***************************************************************************)

ReqOf(f)  == IF f.type = "REQ" THEN {f.rid} ELSE {}
BodyOf(f) == IF f.type # "DEATH" /\ f.role = "body" THEN {f.rid} ELSE {}
EndOf(f)  == IF f.type = "END" /\ f.role = "body" THEN {f.rid} ELSE {}
ErrOf(f)  == IF f.type = "ERR" /\ f.role = "body" THEN {f.rid} ELSE {}
RespOf(f) == IF f.type # "DEATH" /\ f.role = "resp" THEN {f.rid} ELSE {}
LastOf(f) == IF f.type \in {"END", "ERR"} /\ f.role = "resp" THEN {f.rid} ELSE {}

Reqs(q)   == UNION {ReqOf(q[i]) : i \in DOMAIN q}
Bodies(q) == UNION {BodyOf(q[i]) : i \in DOMAIN q}
Ends(q)   == UNION {EndOf(q[i]) : i \in DOMAIN q}
Errs(q)   == UNION {ErrOf(q[i]) : i \in DOMAIN q}
Resps(q)  == UNION {RespOf(q[i]) : i \in DOMAIN q}
Lasts(q)  == UNION {LastOf(q[i]) : i \in DOMAIN q}

\* A REQ is ahead of the rest of its body, and a body ends once.
Orderly(q) ==
  \A i, j \in DOMAIN q :
    /\ ReqOf(q[i]) \cap BodyOf(q[j]) # {} => i <= j
    /\ EndOf(q[i]) \cap EndOf(q[j]) # {} => i = j

-----------------------------------------------------------------------------
(***************************************************************************)
(* The inductive invariant                                                 *)
(***************************************************************************)

\* The host learns of a death after all that the process sent; until then the
\* cartridge counts as running, and no second process is started.
ProcessInv ==
  /\ \E k \in 0..NCartridges : added = 1..k
  /\ alive \subseteq running /\ running \subseteq added
  /\ \A e \in capTable : e.cartridge \in added
  /\ \A c \in Cartridges :
       /\ c \notin running => events[c] = <<>> /\ writerCh[c] = <<>>
       /\ \A i \in DOMAIN events[c] :
            events[c][i].type = "DEATH" => i = Len(events[c]) /\ c \notin alive

QueueInv == Orderly(relayIn) /\ Orderly(relayOut) /\ \A c \in Cartridges : Orderly(events[c])

\* A request that was not issued has left no trace; one that was not routed to
\* this host has none beyond the relay.
IdleInv(r) ==
  /\ phase[r] = "idle" =>
       /\ handler[r] = Nobody /\ r \notin Bodies(relayOut) \cup Bodies(relayIn)
       /\ \A c \in Cartridges : r \notin Bodies(writerCh[c])
       /\ r \in PeerRids => requester[r] = Nobody /\ place[r] = "none"
  /\ r \in PeerRids /\ place[r] # "here" =>
       /\ handler[r] = Nobody /\ r \notin Bodies(relayIn)
       /\ \A c \in Cartridges : r \notin Bodies(writerCh[c])

\* A REQ is ahead of its body also from queue to queue, and there is only one.
ReqInv(r) ==
  /\ \A c \in Cartridges :
       r \in Reqs(events[c]) => r \notin DOMAIN outgoingRids /\ r \notin Bodies(relayOut)
  /\ r \in PeerRids /\ place[r] # "none" =>
       r \notin Reqs(relayOut) /\ \A c \in Cartridges : r \notin Reqs(events[c])
  /\ r \in Reqs(relayIn) =>
       handler[r] = Nobody /\ \A c \in Cartridges : r \notin Bodies(writerCh[c])

\* The body of a peer request comes from one process and ends once.
EndInv(r) ==
  /\ \A c \in Cartridges : r \in Bodies(events[c]) => r \in PeerRids /\ requester[r] = Process(c)
  /\ \A c \in Cartridges :
       r \in Ends(events[c]) => phase[r] = "closed" /\ r \notin Ends(relayOut) \cup Ends(relayIn)
  /\ r \in Ends(relayOut) => phase[r] = "closed" /\ r \notin Ends(relayIn)
  /\ r \in Ends(relayIn) => phase[r] = "closed"

\* A peer request whose requester is lost, or that has been answered.
Gone(r) ==
  /\ phase[r] # "idle" /\ r \notin DOMAIN outgoingRids
  /\ \A c \in Cartridges : r \notin Reqs(events[c])

\* The host breaks off the body of a peer request only when it forgets it.
ErrInv(r) == r \in PeerRids /\ r \in Errs(relayOut) \cup Errs(relayIn) => Gone(r)

\* After the end of a body there is no more of it that could be taken for a
\* response.
BodyEndInv(r) ==
  r \in bodyEnded =>
    /\ r \notin DOMAIN incomingRxids /\ handler[r] # Nobody
    /\ r \in PeerRids =>
         \/ Gone(r)
         \/ /\ phase[r] = "closed" /\ r \notin Ends(relayOut) \cup Ends(relayIn)
            /\ \A c \in Cartridges : r \notin Ends(events[c])

\* A peer request that the host neither handles nor will be asked to handle.
Settled(r) ==
  /\ phase[r] # "idle" /\ r \notin DOMAIN incomingRxids
  /\ r \notin Reqs(relayOut) \cup Reqs(relayIn)
  /\ \A c \in Cartridges : r \notin Reqs(events[c])

\* Unless the handler answers early, a response is under way only when the body
\* is done with, so that it cannot be taken for a part of the body.
RespInv(r) ==
  r \in PeerRids \ early /\ (\/ r \in Resps(relayOut) \cup Resps(relayIn)
                             \/ \E c \in Cartridges : r \in Resps(events[c])) => Settled(r)

\* Both tables lead to running processes, the very ones that were handed the
\* request or issued it.
RouteInv(r) ==
  /\ r \in DOMAIN incomingRxids =>
       incomingRxids[r] \in running /\ handler[r] = Process(incomingRxids[r])
  /\ r \in DOMAIN outgoingRids =>
       r \in PeerRids /\ outgoingRids[r] \in running /\ requester[r] = Process(outgoingRids[r])

\* What is in the channel of a process is meant for that process.
ChannelInv(c, r) ==
  /\ r \in Bodies(writerCh[c]) /\ r \in EngineRids \cup bodyEnded \cup DOMAIN incomingRxids =>
       handler[r] = Process(c)
  /\ r \in Resps(writerCh[c]) /\ r \notin early => r \in PeerRids /\ requester[r] = Process(c)

Answered(r) == r \in Lasts(relayOut) \/ \E f \in ToSet(relayGot[r]) : Terminal(f)

\* A request that was handed to a process is on its way there, or answered.
LostInv(r) ==
  r \in EngineRids /\ handler[r] # Nobody =>
    r \in DOMAIN incomingRxids \/ r \in bodyEnded \/ Answered(r)

RequestInv(r) ==
  /\ IdleInv(r) /\ ReqInv(r) /\ EndInv(r) /\ ErrInv(r) /\ BodyEndInv(r) /\ RespInv(r)
  /\ RouteInv(r) /\ LostInv(r)
  /\ \A c \in Cartridges : ChannelInv(c, r)

LiveInv == ProcessInv /\ QueueInv /\ \A r \in Rids : RequestInv(r)

IInv ==
  /\ TypeOK
  /\ IF stopped THEN alive = {} /\ writerCh = [c \in Cartridges |-> <<>>] ELSE LiveInv
-----------------------------------------------------------------------------
(***************************************************************************)
(* Lemmas about queues                                                     *)
(***************************************************************************)

\* A frame at the end of a queue.
LEMMA AppendQueue ==
  ASSUME NEW S, NEW q \in Seq(S), NEW f \in S
  PROVE  /\ Reqs(Append(q, f)) = Reqs(q) \cup ReqOf(f)
         /\ Bodies(Append(q, f)) = Bodies(q) \cup BodyOf(f)
         /\ Ends(Append(q, f)) = Ends(q) \cup EndOf(f)
         /\ Errs(Append(q, f)) = Errs(q) \cup ErrOf(f)
         /\ Resps(Append(q, f)) = Resps(q) \cup RespOf(f)
         /\ Lasts(Append(q, f)) = Lasts(q) \cup LastOf(f)
         /\ Orderly(q) /\ ReqOf(f) \cap Bodies(q) = {} /\ EndOf(f) \cap Ends(q) = {} =>
              Orderly(Append(q, f))
<1> DEFINE p == Append(q, f)
<1>1. /\ Len(q) \in Nat /\ DOMAIN q = 1..Len(q) /\ DOMAIN p = 1..(Len(q) + 1)
      /\ p[Len(q) + 1] = f
      /\ \A i \in DOMAIN q : i \in DOMAIN p /\ p[i] = q[i]
      /\ \A i \in DOMAIN p : i \in DOMAIN q \/ i = Len(q) + 1
  OBVIOUS
<1>2. Len(q) + 1 \in DOMAIN p
  BY <1>1
<1> HIDE DEF p
<1>3. Reqs(p) = Reqs(q) \cup ReqOf(f)
  BY <1>1, <1>2 DEF Reqs
<1>4. Bodies(p) = Bodies(q) \cup BodyOf(f)
  BY <1>1, <1>2 DEF Bodies
<1>5. Ends(p) = Ends(q) \cup EndOf(f)
  BY <1>1, <1>2 DEF Ends
<1>6. Errs(p) = Errs(q) \cup ErrOf(f)
  BY <1>1, <1>2 DEF Errs
<1>7. Resps(p) = Resps(q) \cup RespOf(f)
  BY <1>1, <1>2 DEF Resps
<1>8. Lasts(p) = Lasts(q) \cup LastOf(f)
  BY <1>1, <1>2 DEF Lasts
<1>9. ASSUME Orderly(q), ReqOf(f) \cap Bodies(q) = {}, EndOf(f) \cap Ends(q) = {}
      PROVE  Orderly(p)
  <2> SUFFICES ASSUME NEW i \in DOMAIN p, NEW j \in DOMAIN p
               PROVE  /\ ReqOf(p[i]) \cap BodyOf(p[j]) # {} => i <= j
                      /\ EndOf(p[i]) \cap EndOf(p[j]) # {} => i = j
    BY DEF Orderly
  <2>1. CASE i \in DOMAIN q /\ j \in DOMAIN q
    BY <2>1, <1>1, <1>9 DEF Orderly
  <2>2. CASE i = Len(q) + 1 /\ j \in DOMAIN q
    BY <2>2, <1>1, <1>9 DEF Bodies, Ends
  <2>3. CASE i \in DOMAIN q /\ j = Len(q) + 1
    <3>1. EndOf(p[i]) \cap EndOf(p[j]) = {}
      BY <2>3, <1>1, <1>9 DEF Ends
    <3>2. i <= j
      BY <2>3, <1>1
    <3> QED BY <3>1, <3>2
  <2>4. CASE i = Len(q) + 1 /\ j = Len(q) + 1
    BY <2>4, <1>1
  <2> QED BY <2>1, <2>2, <2>3, <2>4, <1>1
<1> QED BY <1>3, <1>4, <1>5, <1>6, <1>7, <1>8, <1>9 DEF p

\* A queue without its first frame.
LEMMA TailQueue ==
  ASSUME NEW S, NEW q \in Seq(S), q # <<>>
  PROVE  /\ Head(q) \in S /\ Tail(q) \in Seq(S) /\ Len(Tail(q)) = Len(q) - 1
         /\ \A i \in DOMAIN Tail(q) : i + 1 \in DOMAIN q /\ Tail(q)[i] = q[i + 1]
         /\ Reqs(q) = Reqs(Tail(q)) \cup ReqOf(Head(q))
         /\ Bodies(q) = Bodies(Tail(q)) \cup BodyOf(Head(q))
         /\ Ends(q) = Ends(Tail(q)) \cup EndOf(Head(q))
         /\ Errs(q) = Errs(Tail(q)) \cup ErrOf(Head(q))
         /\ Resps(q) = Resps(Tail(q)) \cup RespOf(Head(q))
         /\ Lasts(q) = Lasts(Tail(q)) \cup LastOf(Head(q))
         /\ Orderly(q) => /\ Orderly(Tail(q))
                          /\ BodyOf(Head(q)) \cap Reqs(Tail(q)) = {}
                          /\ EndOf(Head(q)) \cap Ends(Tail(q)) = {}
<1> DEFINE p == Tail(q)
           f == Head(q)
<1>1. /\ f \in S /\ p \in Seq(S) /\ Len(p) = Len(q) - 1 /\ Len(q) \in Nat /\ Len(q) >= 1
      /\ f = q[1] /\ DOMAIN q = 1..Len(q) /\ DOMAIN p = 1..(Len(q) - 1)
      /\ \A i \in DOMAIN p : p[i] = q[i + 1]
  OBVIOUS
<1>2. /\ 1 \in DOMAIN q
      /\ \A i \in DOMAIN p : i + 1 \in DOMAIN q
      /\ \A i \in DOMAIN q : i = 1 \/ (i - 1 \in DOMAIN p /\ p[i - 1] = q[i])
  BY <1>1
<1> HIDE DEF p, f
<1>3. Reqs(q) = Reqs(p) \cup ReqOf(f)
  BY <1>1, <1>2 DEF Reqs
<1>4. Bodies(q) = Bodies(p) \cup BodyOf(f)
  BY <1>1, <1>2 DEF Bodies
<1>5. Ends(q) = Ends(p) \cup EndOf(f)
  BY <1>1, <1>2 DEF Ends
<1>6. Errs(q) = Errs(p) \cup ErrOf(f)
  BY <1>1, <1>2 DEF Errs
<1>7. Resps(q) = Resps(p) \cup RespOf(f)
  BY <1>1, <1>2 DEF Resps
<1>8. Lasts(q) = Lasts(p) \cup LastOf(f)
  BY <1>1, <1>2 DEF Lasts
<1>9. ASSUME Orderly(q)
      PROVE  Orderly(p) /\ BodyOf(f) \cap Reqs(p) = {} /\ EndOf(f) \cap Ends(p) = {}
  <2>1. Orderly(p)
    <3> SUFFICES ASSUME NEW i \in DOMAIN p, NEW j \in DOMAIN p
                 PROVE  /\ ReqOf(p[i]) \cap BodyOf(p[j]) # {} => i <= j
                        /\ EndOf(p[i]) \cap EndOf(p[j]) # {} => i = j
      BY DEF Orderly
    <3>1. /\ ReqOf(p[i]) \cap BodyOf(p[j]) # {} => i + 1 <= j + 1
          /\ EndOf(p[i]) \cap EndOf(p[j]) # {} => i + 1 = j + 1
      BY <1>1, <1>2, <1>9 DEF Orderly
    <3> QED BY <3>1, <1>1
  <2>2. ASSUME NEW i \in DOMAIN p
        PROVE  ReqOf(p[i]) \cap BodyOf(f) = {} /\ EndOf(p[i]) \cap EndOf(f) = {}
    <3>1. /\ ReqOf(q[i + 1]) \cap BodyOf(q[1]) # {} => i + 1 <= 1
          /\ EndOf(q[i + 1]) \cap EndOf(q[1]) # {} => i + 1 = 1
      BY <1>2, <1>9 DEF Orderly
    <3>2. ~ (i + 1 <= 1) /\ i + 1 # 1
      BY <1>1
    <3> QED BY <3>1, <3>2, <1>1
  <2> QED BY <2>1, <2>2 DEF Reqs, Ends
<1> QED BY <1>1, <1>2, <1>3, <1>4, <1>5, <1>6, <1>7, <1>8, <1>9 DEF p, f

\* Two queues one after the other.
LEMMA ConcatQueue ==
  ASSUME NEW S, NEW q \in Seq(S), NEW p \in Seq(S)
  PROVE  /\ Reqs(q \o p) = Reqs(q) \cup Reqs(p)
         /\ Bodies(q \o p) = Bodies(q) \cup Bodies(p)
         /\ Ends(q \o p) = Ends(q) \cup Ends(p)
         /\ Errs(q \o p) = Errs(q) \cup Errs(p)
         /\ Resps(q \o p) = Resps(q) \cup Resps(p)
         /\ Lasts(q \o p) = Lasts(q) \cup Lasts(p)
         /\ Orderly(q) /\ Reqs(p) = {} /\ Ends(p) = {} => Orderly(q \o p)
<1> DEFINE b == q \o p
<1>0. /\ Len(q) \in Nat /\ Len(p) \in Nat /\ DOMAIN q = 1..Len(q) /\ DOMAIN p = 1..Len(p)
      /\ DOMAIN b = 1..(Len(q) + Len(p))
      /\ \A i \in 1..(Len(q) + Len(p)) : b[i] = IF i <= Len(q) THEN q[i] ELSE p[i - Len(q)]
  OBVIOUS
<1>1. /\ Len(q) \in Nat /\ Len(p) \in Nat /\ DOMAIN q = 1..Len(q) /\ DOMAIN p = 1..Len(p)
      /\ DOMAIN b = 1..(Len(q) + Len(p))
      /\ \A i \in DOMAIN q : i \in DOMAIN b /\ b[i] = q[i]
      /\ \A i \in DOMAIN b : i \in DOMAIN q \/ (i - Len(q) \in DOMAIN p /\ b[i] = p[i - Len(q)])
  <2> HIDE DEF b
  <2>1. \A i \in DOMAIN q : i \in DOMAIN b /\ b[i] = q[i]
    <3> TAKE i \in DOMAIN q
    <3>1. i \in 1..(Len(q) + Len(p)) /\ i <= Len(q)
      BY <1>0
    <3> QED BY <3>1, <1>0
  <2>2. \A i \in DOMAIN b : i \in DOMAIN q \/ (i - Len(q) \in DOMAIN p /\ b[i] = p[i - Len(q)])
    <3> TAKE i \in DOMAIN b
    <3>1. CASE i <= Len(q)
      BY <3>1, <1>0
    <3>2. CASE ~ (i <= Len(q))
      <4>1. i - Len(q) \in 1..Len(p)
        BY <3>2, <1>0
      <4> QED BY <3>2, <4>1, <1>0
    <3> QED BY <3>1, <3>2
  <2> QED BY <1>0, <2>1, <2>2
<1>2. \A i \in DOMAIN p : i + Len(q) \in DOMAIN b /\ b[i + Len(q)] = p[i]
  <2> TAKE i \in DOMAIN p
  <2>1. i + Len(q) \in DOMAIN b /\ i + Len(q) \notin DOMAIN q /\ (i + Len(q)) - Len(q) = i
    BY <1>1
  <2> QED BY <2>1, <1>1
<1> HIDE DEF b
<1>3. Reqs(b) = Reqs(q) \cup Reqs(p)
  BY <1>1, <1>2 DEF Reqs
<1>4. Bodies(b) = Bodies(q) \cup Bodies(p)
  BY <1>1, <1>2 DEF Bodies
<1>5. Ends(b) = Ends(q) \cup Ends(p)
  BY <1>1, <1>2 DEF Ends
<1>6. Errs(b) = Errs(q) \cup Errs(p)
  BY <1>1, <1>2 DEF Errs
<1>7. Resps(b) = Resps(q) \cup Resps(p)
  BY <1>1, <1>2 DEF Resps
<1>8. Lasts(b) = Lasts(q) \cup Lasts(p)
  BY <1>1, <1>2 DEF Lasts
<1>9. ASSUME Orderly(q), Reqs(p) = {}, Ends(p) = {} PROVE Orderly(b)
  <2> SUFFICES ASSUME NEW i \in DOMAIN b, NEW j \in DOMAIN b
               PROVE  /\ ReqOf(b[i]) \cap BodyOf(b[j]) # {} => i <= j
                      /\ EndOf(b[i]) \cap EndOf(b[j]) # {} => i = j
    BY DEF Orderly
  <2>1. \A k \in DOMAIN p : ReqOf(p[k]) = {} /\ EndOf(p[k]) = {}
    BY <1>9 DEF Reqs, Ends
  <2>2. CASE i \in DOMAIN q /\ j \in DOMAIN q
    BY <2>2, <1>1, <1>9 DEF Orderly
  <2>3. CASE i \notin DOMAIN q
    BY <2>1, <2>3, <1>1
  <2>4. CASE i \in DOMAIN q /\ j \notin DOMAIN q
    <3>1. i <= j
      BY <2>4, <1>1
    <3>2. EndOf(b[j]) = {}
      BY <2>1, <2>4, <1>1
    <3> QED BY <3>1, <3>2
  <2> QED BY <2>2, <2>3, <2>4
<1> QED BY <1>3, <1>4, <1>5, <1>6, <1>7, <1>8, <1>9 DEF b

\* A REQ is a part of the body.
LEMMA ReqsAreBodies ==
  ASSUME NEW S, NEW q \in Seq(S), \A f \in S : f.type = "REQ" => f.role = "body"
  PROVE  Reqs(q) \subseteq Bodies(q)
<1>1. \A i \in DOMAIN q : q[i] \in S
  OBVIOUS
<1>2. \A f \in S : ReqOf(f) \subseteq BodyOf(f)
  BY DEF ReqOf, BodyOf
<1> QED BY <1>1, <1>2 DEF Reqs, Bodies

\* The end of a body is a part of it.
LEMMA EndsAreBodies ==
  ASSUME NEW q
  PROVE  Ends(q) \subseteq Bodies(q)
BY DEF Ends, Bodies, EndOf, BodyOf

LEMMA EmptyQueue ==
  /\ Reqs(<<>>) = {} /\ Bodies(<<>>) = {} /\ Ends(<<>>) = {} /\ Errs(<<>>) = {}
  /\ Resps(<<>>) = {} /\ Lasts(<<>>) = {} /\ Orderly(<<>>)
<1> DEFINE q == <<>>
<1>1. DOMAIN q = {}
  OBVIOUS
<1> HIDE DEF q
<1>2. Reqs(q) = {} /\ Bodies(q) = {} /\ Ends(q) = {}
  BY <1>1 DEF Reqs, Bodies, Ends
<1>3. Errs(q) = {} /\ Resps(q) = {} /\ Lasts(q) = {}
  BY <1>1 DEF Errs, Resps, Lasts
<1>4. Orderly(q)
  BY <1>1 DEF Orderly
<1> QED BY <1>2, <1>3, <1>4 DEF q

-----------------------------------------------------------------------------
(***************************************************************************)
(* Lemmas about frames                                                     *)
(***************************************************************************)

LEMMA EventFields ==
  ASSUME NEW f \in EventFrames
  PROVE  /\ f.type \in {"REQ", "BODY", "LOG", "END", "ERR", "HEARTBEAT", "DEATH"}
         /\ f.type \notin {"HEARTBEAT", "DEATH"} => f \in UpFrames /\ f.rid \in Rids
         /\ f.type = "HEARTBEAT" => f \in Beats /\ f.rid = "beat" /\ f.role = "body"
         /\ f.type = "DEATH" => f.type \notin {"REQ", "END", "ERR"}
<1>1. CASE f \in ReqFrames(PeerRids)
  BY <1>1 DEF ReqFrames, UpFrames, Rids
<1>2. CASE f \in Frames({"END"}, PeerRids, "body")
  BY <1>2 DEF Frames, UpFrames, Rids
<1>3. CASE f \in Frames(Responses, Rids, "resp")
  BY <1>3 DEF Frames, UpFrames, Responses
<1>4. CASE f \in Beats
  BY <1>4 DEF Beats, Frames
<1>5. CASE f \in [type : {"DEATH"}]
  BY <1>5
<1> QED BY <1>1, <1>2, <1>3, <1>4, <1>5 DEF EventFrames

LEMMA UpFields ==
  ASSUME NEW f \in UpFrames
  PROVE  /\ f.rid \in Rids /\ f.type \in {"REQ", "BODY", "LOG", "END", "ERR"}
         /\ f.role \in {"body", "resp"}
         /\ f.type = "REQ" => f \in ReqFrames(PeerRids) /\ f.role = "body"
         /\ f.role = "body" => f.rid \in PeerRids /\ f.type \in {"REQ", "END", "ERR"}
         /\ f.role = "resp" => f \in Frames(Responses, Rids, "resp")
<1>1. CASE f \in ReqFrames(PeerRids)
  BY <1>1 DEF ReqFrames, Rids
<1>2. CASE f \in Frames({"END", "ERR"}, PeerRids, "body")
  BY <1>2 DEF Frames, Rids
<1>3. CASE f \in Frames(Responses, Rids, "resp")
  BY <1>3 DEF Frames, Responses
<1> QED BY <1>1, <1>2, <1>3 DEF UpFrames

LEMMA DownFields ==
  ASSUME NEW f \in DownFrames
  PROVE  /\ f.rid \in Rids /\ f.type \in {"REQ", "BODY", "LOG", "END", "ERR"}
         /\ f.role \in {"body", "resp"} /\ f \in ChannelFrames
         /\ f.type = "REQ" => f.role = "body"
         /\ f.type = "LOG" => f.role = "resp"
         /\ f.role = "body" /\ f.rid \in PeerRids => f.type \in {"REQ", "END", "ERR"}
         /\ f.role = "resp" => f.rid \in PeerRids
<1>1. CASE f \in ReqFrames(Rids)
  BY <1>1 DEF ReqFrames, ChannelFrames
<1>2. CASE f \in Frames({"END", "ERR"}, PeerRids, "body")
  BY <1>2 DEF Frames, Rids, ChannelFrames
<1>3. CASE f \in Frames({"BODY", "END", "ERR"}, EngineRids, "body")
  BY <1>3, HostAssumption DEF Frames, Rids, ChannelFrames
<1>4. CASE f \in Frames(Responses, PeerRids, "resp")
  BY <1>4 DEF Frames, Responses, Rids, ChannelFrames
<1> QED BY <1>1, <1>2, <1>3, <1>4 DEF DownFrames

\* The relay stamps frames that it sends back.
LEMMA StampedFrame ==
  ASSUME NEW f \in UpFrames, f.role = "body" \/ f.rid \in PeerRids
  PROVE  /\ Stamp(f) \in DownFrames
         /\ Stamp(f).type = f.type /\ Stamp(f).rid = f.rid /\ Stamp(f).role = f.role
<1>1. CASE f \in ReqFrames(PeerRids)
  BY <1>1, HostAssumption DEF ReqFrames, Rids, Stamp, DownFrames
<1>2. CASE f \in Frames({"END", "ERR"}, PeerRids, "body")
  BY <1>2, HostAssumption DEF Frames, Stamp, DownFrames
<1>3. CASE f \in Frames(Responses, Rids, "resp")
  BY <1>3, HostAssumption DEF Frames, Stamp, DownFrames
<1> QED BY <1>1, <1>2, <1>3 DEF UpFrames

\* A stamped frame of the relay's own.
LEMMA StampedResp ==
  ASSUME NEW type \in Responses, NEW rid \in PeerRids, NEW n \in Nat
  PROVE  /\ Stamp(Frame(type, rid, TRUE, "resp", n)) \in DownFrames
         /\ Stamp(Frame(type, rid, TRUE, "resp", n)).type = type
         /\ Stamp(Frame(type, rid, TRUE, "resp", n)).rid = rid
         /\ Stamp(Frame(type, rid, TRUE, "resp", n)).role = "resp"
BY HostAssumption DEF Stamp, Frame, DownFrames, Frames

LEMMA QueuedReqs ==
  ASSUME TypeOK
  PROVE  /\ Reqs(relayOut) \subseteq Bodies(relayOut) /\ Reqs(relayIn) \subseteq Bodies(relayIn)
         /\ \A c \in Cartridges : Reqs(events[c]) \subseteq Bodies(events[c])
<1>1. \A f \in EventFrames : f.type = "REQ" => f.role = "body"
  BY EventFields, UpFields
<1>2. \A f \in UpFrames : f.type = "REQ" => f.role = "body"
  BY UpFields
<1>3. \A f \in DownFrames : f.type = "REQ" => f.role = "body"
  BY DownFields
<1>4. /\ relayOut \in Seq(UpFrames) /\ relayIn \in Seq(DownFrames)
      /\ \A c \in Cartridges : events[c] \in Seq(EventFrames)
  BY DEF TypeOK
<1> QED BY <1>1, <1>2, <1>3, <1>4, ReqsAreBodies

-----------------------------------------------------------------------------
(***************************************************************************)
(* A step that does not concern a request                                  *)
(***************************************************************************)

Undisturbed(r) ==
  /\ phase'[r] = phase[r] /\ handler'[r] = handler[r]
  /\ r \in PeerRids => requester'[r] = requester[r] /\ place'[r] = place[r]
  /\ r \in bodyEnded' <=> r \in bodyEnded
  /\ r \in early => r \in early'
  /\ r \in Reqs(relayOut') => r \in Reqs(relayOut)
  /\ r \in Bodies(relayOut') => r \in Bodies(relayOut)
  /\ r \in Ends(relayOut') => r \in Ends(relayOut)
  /\ r \in Errs(relayOut') => r \in Errs(relayOut)
  /\ r \in Resps(relayOut') => r \in Resps(relayOut)
  /\ r \in Reqs(relayIn') => r \in Reqs(relayIn)
  /\ r \in Bodies(relayIn') => r \in Bodies(relayIn)
  /\ r \in Ends(relayIn') => r \in Ends(relayIn)
  /\ r \in Errs(relayIn') => r \in Errs(relayIn)
  /\ r \in Resps(relayIn') => r \in Resps(relayIn)
  /\ \A c \in Cartridges :
       /\ r \in Reqs(events'[c]) => r \in Reqs(events[c])
       /\ r \in Ends(events'[c]) => r \in Ends(events[c])
       /\ r \in Resps(events'[c]) => r \in Resps(events[c])
       /\ r \in Bodies(events'[c]) => r \in Bodies(events[c]) /\ Process(c)' = Process(c)
       /\ r \in Bodies(writerCh'[c]) => r \in Bodies(writerCh[c]) /\ Process(c)' = Process(c)
       /\ r \in Resps(writerCh'[c]) => r \in Resps(writerCh[c]) /\ Process(c)' = Process(c)
  /\ r \in DOMAIN incomingRxids' =>
       /\ r \in DOMAIN incomingRxids /\ incomingRxids'[r] = incomingRxids[r]
       /\ incomingRxids[r] \in running =>
            /\ incomingRxids[r] \in running'
            /\ incarnation'[incomingRxids[r]] = incarnation[incomingRxids[r]]
  /\ r \in DOMAIN outgoingRids' =>
       /\ r \in DOMAIN outgoingRids /\ outgoingRids'[r] = outgoingRids[r]
       /\ outgoingRids[r] \in running =>
            /\ outgoingRids[r] \in running'
            /\ incarnation'[outgoingRids[r]] = incarnation[outgoingRids[r]]
  /\ r \in DOMAIN incomingRxids => r \in DOMAIN incomingRxids' \/ Answered(r)'
  /\ Answered(r) => Answered(r)'

LEMMA UndisturbedStep ==
  ASSUME NEW r \in Rids, RequestInv(r), Undisturbed(r)
  PROVE  RequestInv(r)'
<1> USE DEF Undisturbed
<1>1. IdleInv(r)'
  BY DEF RequestInv, IdleInv
<1>2. ReqInv(r)'
  BY DEF RequestInv, ReqInv
<1>3. EndInv(r)'
  BY DEF RequestInv, EndInv
<1>4. Gone(r) => Gone(r)'
  BY DEF Gone
<1>5. ErrInv(r)'
  BY <1>4 DEF RequestInv, ErrInv
<1>6. BodyEndInv(r)'
  BY <1>4 DEF RequestInv, BodyEndInv
<1>7. RespInv(r)'
  BY DEF RequestInv, RespInv, Settled
<1>8. RouteInv(r)'
  BY DEF RequestInv, RouteInv, Process
<1>9. LostInv(r)'
  BY DEF RequestInv, LostInv
<1>10. \A c \in Cartridges : ChannelInv(c, r)'
  BY DEF RequestInv, ChannelInv
<1> QED BY <1>1, <1>2, <1>3, <1>5, <1>6, <1>7, <1>8, <1>9, <1>10 DEF RequestInv

-----------------------------------------------------------------------------
(***************************************************************************)
(* Steps of the processes                                                  *)
(***************************************************************************)

\* A process writes a frame.
LEMMA EmitQueue ==
  ASSUME TypeOK, NEW c \in Cartridges, NEW f \in EventFrames, Emit(c, f)
  PROVE  /\ events' \in [Cartridges -> Seq(EventFrames)]
         /\ \A d \in Cartridges : d # c => events'[d] = events[d]
         /\ events'[c] = Append(events[c], f) /\ events[c] \in Seq(EventFrames)
         /\ Reqs(events'[c]) = Reqs(events[c]) \cup ReqOf(f)
         /\ Bodies(events'[c]) = Bodies(events[c]) \cup BodyOf(f)
         /\ Ends(events'[c]) = Ends(events[c]) \cup EndOf(f)
         /\ Resps(events'[c]) = Resps(events[c]) \cup RespOf(f)
         /\ QueueInv /\ ReqOf(f) \cap Bodies(events[c]) = {}
            /\ EndOf(f) \cap Ends(events[c]) = {} /\ UNCHANGED <<relayIn, relayOut>> => QueueInv'
<1>1. /\ events[c] \in Seq(EventFrames) /\ events'[c] = Append(events[c], f)
      /\ \A d \in Cartridges : d # c => events'[d] = events[d]
      /\ events' \in [Cartridges -> Seq(EventFrames)]
  BY DEF TypeOK, Emit
<1>2. /\ Reqs(events'[c]) = Reqs(events[c]) \cup ReqOf(f)
      /\ Bodies(events'[c]) = Bodies(events[c]) \cup BodyOf(f)
      /\ Ends(events'[c]) = Ends(events[c]) \cup EndOf(f)
      /\ Resps(events'[c]) = Resps(events[c]) \cup RespOf(f)
      /\ Orderly(events[c]) /\ ReqOf(f) \cap Bodies(events[c]) = {}
         /\ EndOf(f) \cap Ends(events[c]) = {} => Orderly(events'[c])
  BY <1>1, AppendQueue
<1> QED BY <1>1, <1>2 DEF QueueInv

LEMMA EmitProcess ==
  ASSUME TypeOK, ProcessInv, NEW c \in Cartridges, NEW f \in EventFrames, Emit(c, f),
         c \in alive, alive' \subseteq alive, f.type = "DEATH" => c \notin alive',
         UNCHANGED <<added, running, capTable, writerCh>>
  PROVE  ProcessInv'
<1>1. /\ events[c] \in Seq(EventFrames) /\ events'[c] = Append(events[c], f)
      /\ \A d \in Cartridges : d # c => events'[d] = events[d]
  BY EmitQueue
<1>2. \A i \in DOMAIN events[c] : events[c][i].type # "DEATH"
  BY DEF ProcessInv
<1>3. \A i \in DOMAIN events'[c] :
        events'[c][i].type = "DEATH" => i = Len(events'[c]) /\ c \notin alive'
  <2> TAKE i \in DOMAIN events'[c]
  <2>1. CASE i \in DOMAIN events[c]
    BY <2>1, <1>1, <1>2
  <2>2. CASE i \notin DOMAIN events[c]
    <3>1. i = Len(events'[c]) /\ events'[c][i] = f
      BY <2>2, <1>1
    <3> QED BY <3>1
  <2> QED BY <2>1, <2>2
<1> QED BY <1>1, <1>3 DEF ProcessInv

LEMMA WriterLoopStep ==
  ASSUME TypeOK, LiveInv, NEW c \in Cartridges, WriterLoop(c)
  PROVE  TypeOK' /\ LiveInv'
<1>1. /\ writerCh[c] \in Seq(ChannelFrames) /\ writerCh[c] # <<>>
      /\ writerCh'[c] = Tail(writerCh[c]) /\ \A d \in Cartridges : d # c => writerCh'[d] = writerCh[d]
      /\ c \in alive
  BY DEF TypeOK, WriterLoop
<1>2. /\ Head(writerCh[c]) \in ChannelFrames /\ Tail(writerCh[c]) \in Seq(ChannelFrames)
      /\ Bodies(Tail(writerCh[c])) \subseteq Bodies(writerCh[c])
      /\ Resps(Tail(writerCh[c])) \subseteq Resps(writerCh[c])
  <2> HIDE DEF ChannelFrames
  <2> QED BY <1>1, TailQueue
<1>3. TypeOK'
  <2>1. writerCh' \in [Cartridges -> Seq(ChannelFrames)]
    BY <1>1, <1>2 DEF TypeOK, WriterLoop
  <2>2. serving' \in [Cartridges -> SUBSET Rids]
    <3>1. Head(writerCh[c]).type = "REQ" => Head(writerCh[c]).rid \in Rids
      BY <1>2, DownFields DEF ChannelFrames, Beats, Frames
    <3> QED BY <3>1 DEF TypeOK, WriterLoop
  <2>3. complete' \in [Cartridges -> SUBSET Rids]
    BY DEF TypeOK, WriterLoop
  <2> QED BY <2>1, <2>2, <2>3
          DEF TypeOK, WriterLoop, tables, routes, requests, history
<1> USE DEF WriterLoop, tables, routes, requests, history
<1>4. ProcessInv'
  BY <1>1 DEF LiveInv, ProcessInv
<1>5. QueueInv'
  BY DEF LiveInv, QueueInv
<1>6. ASSUME NEW r \in Rids PROVE RequestInv(r)'
  <2>1. Undisturbed(r)
    BY <1>1, <1>2 DEF Undisturbed, Process, Answered
  <2> QED BY <2>1, UndisturbedStep DEF LiveInv
<1> QED BY <1>3, <1>4, <1>5, <1>6 DEF LiveInv

LEMMA WriterFailsStep ==
  ASSUME TypeOK, LiveInv, NEW c \in Cartridges, WriterFails(c)
  PROVE  TypeOK' /\ LiveInv'
<1>1. /\ writerCh[c] \in Seq(ChannelFrames) /\ writerCh[c] # <<>>
      /\ writerCh'[c] = Tail(writerCh[c]) /\ \A d \in Cartridges : d # c => writerCh'[d] = writerCh[d]
      /\ c \in alive
  BY DEF TypeOK, WriterFails
<1>2. /\ Tail(writerCh[c]) \in Seq(ChannelFrames)
      /\ Bodies(Tail(writerCh[c])) \subseteq Bodies(writerCh[c])
      /\ Resps(Tail(writerCh[c])) \subseteq Resps(writerCh[c])
  <2> HIDE DEF ChannelFrames
  <2> QED BY <1>1, TailQueue
<1>3. TypeOK'
  <2>1. writerCh' \in [Cartridges -> Seq(ChannelFrames)]
    BY <1>1, <1>2 DEF TypeOK, WriterFails
  <2>2. stuck' \subseteq Cartridges
    BY DEF TypeOK, WriterFails
  <2> QED BY <2>1, <2>2 DEF TypeOK, WriterFails, routes, processes, requests
<1>4. /\ UNCHANGED <<added, running, capTable, events, relayIn, relayOut, alive, incarnation,
                     phase, place, handler, requester, bodyEnded, early, relayGot,
                     incomingRxids, outgoingRids>>
  BY DEF WriterFails, routes, processes, requests
<1>5. ProcessInv'
  BY <1>1, <1>4 DEF LiveInv, ProcessInv
<1>6. QueueInv'
  BY <1>4 DEF LiveInv, QueueInv
<1>7. ASSUME NEW r \in Rids PROVE RequestInv(r)'
  <2>1. Undisturbed(r)
    BY <1>1, <1>2, <1>4 DEF Undisturbed, Process, Answered
  <2> QED BY <2>1, UndisturbedStep DEF LiveInv
<1> QED BY <1>3, <1>5, <1>6, <1>7 DEF LiveInv

LEMMA CartridgeBeatsStep ==
  ASSUME TypeOK, LiveInv, NEW c \in Cartridges, CartridgeBeats(c)
  PROVE  TypeOK' /\ LiveInv'
<1> DEFINE f == Frame("HEARTBEAT", "beat", FALSE, "body", 0)
<1>1. /\ f \in EventFrames /\ f.type = "HEARTBEAT" /\ f.role = "body" /\ f.rid = "beat"
  BY DEF Frame, EventFrames, Beats, Frames
<1>2. Emit(c, f) /\ c \in alive
  BY DEF CartridgeBeats
<1>3. ReqOf(f) = {} /\ BodyOf(f) = {"beat"} /\ EndOf(f) = {} /\ RespOf(f) = {}
  BY <1>1 DEF ReqOf, BodyOf, EndOf, RespOf
<1> HIDE DEF f
<1>4. TypeOK'
  <2>1. events' \in [Cartridges -> Seq(EventFrames)]
    BY <1>1, <1>2, EmitQueue
  <2> QED BY <2>1 DEF TypeOK, CartridgeBeats, tables, routes, requests, history
<1>5. ProcessInv'
  BY <1>1, <1>2, EmitProcess DEF LiveInv, CartridgeBeats, tables
<1>6. QueueInv'
  BY <1>1, <1>2, <1>3, EmitQueue DEF LiveInv, CartridgeBeats
<1>7. ASSUME NEW r \in Rids PROVE RequestInv(r)'
  <2>1. r # "beat"
    BY HostAssumption
  <2>2. Undisturbed(r)
    BY <2>1, <1>1, <1>2, <1>3, EmitQueue
       DEF Undisturbed, Process, Answered, CartridgeBeats, tables, routes, requests, history
  <2> QED BY <2>2, UndisturbedStep DEF LiveInv
<1> QED BY <1>4, <1>5, <1>6, <1>7 DEF LiveInv

LEMMA CartridgeDiesStep ==
  ASSUME TypeOK, LiveInv, NEW c \in Cartridges, CartridgeDies(c)
  PROVE  TypeOK' /\ LiveInv'
<1> DEFINE f == [type |-> "DEATH"]
<1>1. f \in EventFrames /\ f.type = "DEATH"
  BY DEF EventFrames
<1>2. Emit(c, f) /\ c \in alive
  BY DEF CartridgeDies
<1>3. ReqOf(f) = {} /\ BodyOf(f) = {} /\ EndOf(f) = {} /\ RespOf(f) = {}
  BY <1>1 DEF ReqOf, BodyOf, EndOf, RespOf
<1> HIDE DEF f
<1>4. TypeOK'
  <2>1. events' \in [Cartridges -> Seq(EventFrames)]
    BY <1>1, <1>2, EmitQueue
  <2>2. /\ alive' \subseteq Cartridges /\ deaths' \in Nat
        /\ serving' \in [Cartridges -> SUBSET Rids] /\ complete' \in [Cartridges -> SUBSET Rids]
    BY DEF TypeOK, CartridgeDies
  <2> QED BY <2>1, <2>2 DEF TypeOK, CartridgeDies, tables, routes, requests, history
<1>5. ProcessInv'
  BY <1>1, <1>2, EmitProcess DEF LiveInv, CartridgeDies, tables
<1>6. QueueInv'
  BY <1>1, <1>2, <1>3, EmitQueue DEF LiveInv, CartridgeDies
<1>7. ASSUME NEW r \in Rids PROVE RequestInv(r)'
  <2>1. Undisturbed(r)
    BY <1>1, <1>2, <1>3, EmitQueue
       DEF Undisturbed, Process, Answered, CartridgeDies, tables, routes, requests, history
  <2> QED BY <2>1, UndisturbedStep DEF LiveInv
<1> QED BY <1>4, <1>5, <1>6, <1>7 DEF LiveInv

\* A response frame: it is early, or the body is done with.
LEMMA CartridgeReplyStep ==
  ASSUME TypeOK, LiveInv, NEW c \in Cartridges, NEW rid \in Rids, NEW type \in Responses,
         CartridgeReply(c, rid, type)
  PROVE  TypeOK' /\ LiveInv'
<1> DEFINE f == Frame(type, rid, TRUE, "resp", replies[rid])
<1>1. /\ f \in EventFrames /\ f.type = type /\ f.role = "resp" /\ f.rid = rid
  BY DEF TypeOK, Frame, EventFrames, Frames, Responses
<1>2. Emit(c, f) /\ c \in alive
  BY DEF CartridgeReply
<1>3. ReqOf(f) = {} /\ BodyOf(f) = {} /\ EndOf(f) = {} /\ RespOf(f) = {rid}
  BY <1>1 DEF ReqOf, BodyOf, EndOf, RespOf, Responses
<1> HIDE DEF f
<1>4. TypeOK'
  <2>1. events' \in [Cartridges -> Seq(EventFrames)]
    BY <1>1, <1>2, EmitQueue
  <2>2. /\ replies' \in [Rids -> Nat]
        /\ serving' \in [Cartridges -> SUBSET Rids] /\ complete' \in [Cartridges -> SUBSET Rids]
        /\ early' \subseteq Rids
    BY DEF TypeOK, CartridgeReply
  <2> QED BY <2>1, <2>2 DEF TypeOK, CartridgeReply, tables, routes
<1>5. ProcessInv'
  BY <1>1, <1>2, EmitProcess DEF LiveInv, CartridgeReply, tables, Responses
<1>6. QueueInv'
  BY <1>1, <1>2, <1>3, EmitQueue DEF LiveInv, CartridgeReply
<1>7. ASSUME NEW r \in Rids, r # rid PROVE RequestInv(r)'
  <2>1. Undisturbed(r)
    BY <1>1, <1>2, <1>3, <1>7, EmitQueue
       DEF Undisturbed, Process, Answered, CartridgeReply, tables, routes
  <2> QED BY <2>1, UndisturbedStep DEF LiveInv
<1>8. RequestInv(rid)'
  <2>1. RequestInv(rid)
    BY DEF LiveInv
  <2>2. /\ \A d \in Cartridges :
             /\ rid \in Reqs(events'[d]) <=> rid \in Reqs(events[d])
             /\ rid \in Bodies(events'[d]) <=> rid \in Bodies(events[d])
             /\ rid \in Ends(events'[d]) <=> rid \in Ends(events[d])
        /\ UNCHANGED <<outgoingRids, incomingRxids, running, relayIn, relayOut, writerCh, phase,
                       place, handler, requester, bodyEnded, incarnation, relayGot>>
        /\ early \subseteq early' /\ (rid \notin bodyEnded => rid \in early')
    BY <1>1, <1>2, <1>3, EmitQueue DEF CartridgeReply, tables, routes
  <2>3. IdleInv(rid)' /\ ReqInv(rid)' /\ EndInv(rid)'
    BY <2>1, <2>2 DEF RequestInv, IdleInv, ReqInv, EndInv, Process
  <2>4. ErrInv(rid)' /\ BodyEndInv(rid)'
    BY <2>1, <2>2 DEF RequestInv, ErrInv, BodyEndInv, Gone
  <2>5. RespInv(rid)'
    <3>1. rid \in bodyEnded /\ rid \in PeerRids => Settled(rid)
      BY <2>1 DEF RequestInv, BodyEndInv, IdleInv, ReqInv, Settled
    <3>2. Settled(rid) => Settled(rid)'
      BY <2>2 DEF Settled
    <3> QED BY <2>1, <2>2, <3>1, <3>2 DEF RequestInv, RespInv
  <2>6. RouteInv(rid)' /\ LostInv(rid)' /\ \A d \in Cartridges : ChannelInv(d, rid)'
    BY <2>1, <2>2 DEF RequestInv, RouteInv, LostInv, Answered, ChannelInv, Process
  <2> QED BY <2>3, <2>4, <2>5, <2>6 DEF RequestInv
<1> QED BY <1>4, <1>5, <1>6, <1>7, <1>8 DEF LiveInv

\* A new peer request.
LEMMA CartridgeAsksStep ==
  ASSUME TypeOK, LiveInv, NEW c \in Cartridges, NEW rid \in PeerRids, NEW cap \in Caps,
         CartridgeAsks(c, rid, cap)
  PROVE  TypeOK' /\ LiveInv'
<1> DEFINE f == Req(rid, FALSE, cap)
<1>1. /\ f \in EventFrames /\ f.type = "REQ" /\ f.role = "body" /\ f.rid = rid
  BY DEF Req, EventFrames, ReqFrames
<1>2. Emit(c, f) /\ c \in alive /\ rid \in Rids /\ phase[rid] = "idle"
  BY DEF CartridgeAsks, Rids
<1>3. ReqOf(f) = {rid} /\ BodyOf(f) = {rid} /\ EndOf(f) = {} /\ RespOf(f) = {}
  BY <1>1 DEF ReqOf, BodyOf, EndOf, RespOf
<1>4. RequestInv(rid)
  BY <1>2 DEF LiveInv
<1>5. \A d \in Cartridges : Process(d) # Nobody
  BY DEF Process, Nobody, None, Cartridges
\* Nothing of the request exists.
<1>6. /\ \A d \in Cartridges : rid \notin Bodies(events[d])
      /\ handler[rid] = Nobody /\ rid \notin DOMAIN outgoingRids /\ rid \notin DOMAIN incomingRxids
      /\ rid \notin bodyEnded /\ place[rid] = "none"
      /\ rid \notin Errs(relayOut) \cup Errs(relayIn)
  <2>1. handler[rid] = Nobody /\ requester[rid] = Nobody /\ place[rid] = "none"
    BY <1>2, <1>4 DEF RequestInv, IdleInv
  <2>2. \A d \in Cartridges : rid \notin Bodies(events[d])
    BY <2>1, <1>4, <1>5 DEF RequestInv, EndInv
  <2>3. rid \notin DOMAIN outgoingRids /\ rid \notin DOMAIN incomingRxids
    <3>1. /\ rid \in DOMAIN outgoingRids => outgoingRids[rid] \in Cartridges
          /\ rid \in DOMAIN incomingRxids => incomingRxids[rid] \in Cartridges
      BY DEF TypeOK
    <3> QED BY <3>1, <2>1, <1>4, <1>5 DEF RequestInv, RouteInv
  <2>4. rid \notin bodyEnded
    BY <2>1, <1>4 DEF RequestInv, BodyEndInv
  <2>5. rid \notin Errs(relayOut) \cup Errs(relayIn)
    BY <1>2, <1>4 DEF RequestInv, ErrInv, Gone
  <2> QED BY <2>1, <2>2, <2>3, <2>4, <2>5
<1>7. TypeOK'
  <2>1. events' \in [Cartridges -> Seq(EventFrames)]
    BY <1>1, <1>2, EmitQueue
  <2>2. phase' \in [Rids -> {"idle", "open", "body", "closed", "broken"}]
    BY DEF TypeOK, CartridgeAsks
  <2>3. requester' \in [PeerRids -> Processes]
    BY DEF TypeOK, CartridgeAsks, Process, Processes
  <2> HIDE DEF f
  <2> QED BY <2>1, <2>2, <2>3 DEF TypeOK, CartridgeAsks, tables, routes, processes
<1> HIDE DEF f
<1>8. ProcessInv'
  BY <1>1, <1>2, EmitProcess DEF LiveInv, CartridgeAsks, tables, processes
<1>9. QueueInv'
  BY <1>1, <1>2, <1>3, <1>6, EmitQueue DEF LiveInv, CartridgeAsks
<1>10. ASSUME NEW r \in Rids, r # rid PROVE RequestInv(r)'
  <2>1. phase'[r] = phase[r] /\ (r \in PeerRids => requester'[r] = requester[r])
    BY <1>10 DEF CartridgeAsks, TypeOK
  <2>2. \A d \in Cartridges :
             /\ r \in Reqs(events'[d]) => r \in Reqs(events[d])
             /\ r \in Ends(events'[d]) => r \in Ends(events[d])
             /\ r \in Resps(events'[d]) => r \in Resps(events[d])
             /\ r \in Bodies(events'[d]) => r \in Bodies(events[d])
    BY <1>1, <1>2, <1>3, <1>10, EmitQueue
  <2>3. Undisturbed(r)
    BY <2>1, <2>2
       DEF Undisturbed, Process, Answered, CartridgeAsks, tables, routes, processes
  <2> QED BY <2>3, UndisturbedStep DEF LiveInv
<1>11. RequestInv(rid)'
  <2>1. /\ \A d \in Cartridges :
             /\ rid \in Reqs(events'[d]) \cup Bodies(events'[d]) => d = c
             /\ rid \in Ends(events'[d]) <=> rid \in Ends(events[d])
             /\ rid \in Resps(events'[d]) <=> rid \in Resps(events[d])
        /\ UNCHANGED <<outgoingRids, incomingRxids, running, relayIn, relayOut, writerCh,
                       place, handler, bodyEnded, early, incarnation, relayGot>>
        /\ phase'[rid] = "open" /\ requester'[rid] = Process(c) /\ Process(c)' = Process(c)
    <3>1. \A d \in Cartridges : rid \notin Reqs(events[d])
      BY <1>6, QueuedReqs
    <3>2. \A d \in Cartridges :
             /\ rid \in Reqs(events'[d]) \cup Bodies(events'[d]) => d = c
             /\ rid \in Ends(events'[d]) <=> rid \in Ends(events[d])
             /\ rid \in Resps(events'[d]) <=> rid \in Resps(events[d])
      BY <3>1, <1>1, <1>2, <1>3, <1>6, EmitQueue
    <3>3. phase'[rid] = "open" /\ requester'[rid] = Process(c)
      BY <1>2 DEF CartridgeAsks, TypeOK
    <3> QED BY <3>2, <3>3 DEF CartridgeAsks, tables, routes, processes, Process
  <2>2. \A d \in Cartridges : rid \notin Ends(events[d])
    BY <1>2, <1>4 DEF RequestInv, EndInv
  <2>3. rid \notin Ends(relayOut) \cup Ends(relayIn)
    BY <1>2, <1>4 DEF RequestInv, EndInv
  <2>4. /\ rid \notin Bodies(relayOut) \cup Bodies(relayIn)
        /\ \A d \in Cartridges : rid \notin Bodies(writerCh[d])
    BY <1>2, <1>4 DEF RequestInv, IdleInv
  <2>5. rid \notin early =>
          /\ rid \notin Resps(relayOut) \cup Resps(relayIn)
          /\ \A d \in Cartridges : rid \notin Resps(events[d])
    BY <1>2, <1>4 DEF RequestInv, RespInv, Settled
  <2>6. \A d \in Cartridges : rid \in Resps(writerCh[d]) => rid \in early
    BY <1>2, <1>4, <1>5 DEF RequestInv, ChannelInv, IdleInv
  <2>7. IdleInv(rid)' /\ ReqInv(rid)' /\ EndInv(rid)'
    BY <2>1, <2>2, <2>3, <2>4, <1>4, <1>6 DEF RequestInv, IdleInv, ReqInv, EndInv
  <2>8. ErrInv(rid)' /\ BodyEndInv(rid)' /\ RespInv(rid)'
    BY <2>1, <2>5, <1>6 DEF ErrInv, BodyEndInv, RespInv
  <2>9. RouteInv(rid)' /\ LostInv(rid)' /\ \A d \in Cartridges : ChannelInv(d, rid)'
    BY <2>1, <2>4, <2>6, <1>6 DEF RouteInv, LostInv, ChannelInv
  <2> QED BY <2>7, <2>8, <2>9 DEF RequestInv
<1> QED BY <1>7, <1>8, <1>9, <1>10, <1>11 DEF LiveInv

\* The end of the body of a peer request, behind its REQ.
LEMMA CartridgeEndsBodyStep ==
  ASSUME TypeOK, LiveInv, NEW c \in Cartridges, NEW rid \in PeerRids, CartridgeEndsBody(c, rid)
  PROVE  TypeOK' /\ LiveInv'
<1> DEFINE f == Frame("END", rid, FALSE, "body", 0)
<1>1. /\ f \in EventFrames /\ f.type = "END" /\ f.role = "body" /\ f.rid = rid
  BY DEF Frame, EventFrames, Frames
<1>2. /\ Emit(c, f) /\ c \in alive /\ rid \in Rids
      /\ phase[rid] = "open" /\ requester[rid] = Process(c)
  BY DEF CartridgeEndsBody, Rids
<1>3. ReqOf(f) = {} /\ BodyOf(f) = {rid} /\ EndOf(f) = {rid} /\ RespOf(f) = {}
  BY <1>1 DEF ReqOf, BodyOf, EndOf, RespOf
<1> HIDE DEF f
<1>4. RequestInv(rid)
  BY <1>2 DEF LiveInv
<1>5. /\ \A d \in Cartridges : rid \notin Ends(events[d])
      /\ rid \notin Ends(relayOut) \cup Ends(relayIn)
  BY <1>2, <1>4 DEF RequestInv, EndInv
<1>6. TypeOK'
  <2>1. events' \in [Cartridges -> Seq(EventFrames)]
    BY <1>1, <1>2, EmitQueue
  <2>2. phase' \in [Rids -> {"idle", "open", "body", "closed", "broken"}]
    BY DEF TypeOK, CartridgeEndsBody
  <2> QED BY <2>1, <2>2 DEF TypeOK, CartridgeEndsBody, tables, routes, processes, history
<1>7. ProcessInv'
  BY <1>1, <1>2, EmitProcess DEF LiveInv, CartridgeEndsBody, tables, processes
<1>8. QueueInv'
  BY <1>1, <1>2, <1>3, <1>5, EmitQueue DEF LiveInv, CartridgeEndsBody
<1>9. ASSUME NEW r \in Rids, r # rid PROVE RequestInv(r)'
  <2>1. phase'[r] = phase[r]
    BY <1>9 DEF CartridgeEndsBody, TypeOK
  <2>2. \A d \in Cartridges :
             /\ r \in Reqs(events'[d]) => r \in Reqs(events[d])
             /\ r \in Ends(events'[d]) => r \in Ends(events[d])
             /\ r \in Resps(events'[d]) => r \in Resps(events[d])
             /\ r \in Bodies(events'[d]) => r \in Bodies(events[d])
    BY <1>1, <1>2, <1>3, <1>9, EmitQueue
  <2>3. Undisturbed(r)
    BY <2>1, <2>2
       DEF Undisturbed, Process, Answered, CartridgeEndsBody, tables, routes, processes, history
  <2> QED BY <2>3, UndisturbedStep DEF LiveInv
<1>10. RequestInv(rid)'
  <2>1. \A d \in Cartridges :
             /\ rid \in Reqs(events'[d]) <=> rid \in Reqs(events[d])
             /\ rid \in Bodies(events'[d]) => d = c \/ rid \in Bodies(events[d])
             /\ rid \in Ends(events'[d]) => d = c
             /\ rid \in Resps(events'[d]) <=> rid \in Resps(events[d])
    BY <1>1, <1>2, <1>3, <1>5, EmitQueue
  <2>2. phase'[rid] = "closed"
    BY <1>2 DEF CartridgeEndsBody, TypeOK
  <2>3. UNCHANGED <<outgoingRids, incomingRxids, running, relayIn, relayOut, writerCh, place,
                    handler, requester, bodyEnded, early, incarnation, relayGot>>
    BY DEF CartridgeEndsBody, tables, routes, processes, history
  <2>4. IdleInv(rid)' /\ ReqInv(rid)'
    BY <2>1, <2>2, <2>3, <1>4 DEF RequestInv, IdleInv, ReqInv
  <2>5. EndInv(rid)'
    BY <2>1, <2>2, <2>3, <1>2, <1>4, <1>5 DEF RequestInv, EndInv, Process
  <2>6. Gone(rid) => Gone(rid)'
    BY <2>1, <2>2, <2>3 DEF Gone
  <2>7. rid \in bodyEnded => Gone(rid)
    BY <1>2, <1>4 DEF RequestInv, BodyEndInv
  <2>8. ErrInv(rid)' /\ BodyEndInv(rid)'
    BY <2>3, <2>6, <2>7, <1>4 DEF RequestInv, ErrInv, BodyEndInv
  <2>9. RespInv(rid)'
    BY <2>1, <2>2, <2>3, <1>4 DEF RequestInv, RespInv, Settled
  <2>10. RouteInv(rid)' /\ LostInv(rid)' /\ \A d \in Cartridges : ChannelInv(d, rid)'
    BY <2>3, <1>4 DEF RequestInv, RouteInv, LostInv, Answered, ChannelInv, Process
  <2> QED BY <2>4, <2>5, <2>8, <2>9, <2>10 DEF RequestInv
<1> QED BY <1>6, <1>7, <1>8, <1>9, <1>10 DEF LiveInv

-----------------------------------------------------------------------------
(***************************************************************************)
(* Steps of the relay                                                      *)
(***************************************************************************)

\* The relay sends a frame of its own.
LEMMA RelayQueue ==
  ASSUME TypeOK, NEW f \in DownFrames, relayIn' = Append(relayIn, f)
  PROVE  /\ relayIn' \in Seq(DownFrames)
         /\ Reqs(relayIn') = Reqs(relayIn) \cup ReqOf(f)
         /\ Bodies(relayIn') = Bodies(relayIn) \cup BodyOf(f)
         /\ Ends(relayIn') = Ends(relayIn) \cup EndOf(f)
         /\ Errs(relayIn') = Errs(relayIn) \cup ErrOf(f)
         /\ Resps(relayIn') = Resps(relayIn) \cup RespOf(f)
         /\ (Orderly(relayIn) /\ ReqOf(f) \cap Bodies(relayIn) = {}
             /\ EndOf(f) \cap Ends(relayIn) = {}) => Orderly(relayIn')
<1>1. relayIn \in Seq(DownFrames)
  BY DEF TypeOK
<1>2. relayIn' \in Seq(DownFrames)
  BY <1>1
<1> QED BY <1>1, <1>2, AppendQueue

LEMMA RelayRequestsStep ==
  ASSUME TypeOK, LiveInv, ~stopped, NEW rid \in EngineRids, NEW cap \in Caps, RelayRequests(rid, cap)
  PROVE  TypeOK' /\ LiveInv'
<1> DEFINE f == Stamp(Req(rid, TRUE, cap))
<1>1. /\ f \in DownFrames /\ f.type = "REQ" /\ f.role = "body" /\ f.rid = rid
  BY HostAssumption DEF Stamp, Req, DownFrames, ReqFrames, Rids
<1>2. /\ relayIn' = Append(relayIn, f) /\ rid \in Rids /\ rid \notin PeerRids
      /\ phase[rid] = "idle"
  BY HostAssumption DEF RelayRequests, RelaySends, Rids
<1>3. ReqOf(f) = {rid} /\ BodyOf(f) = {rid} /\ EndOf(f) = {} /\ ErrOf(f) = {} /\ RespOf(f) = {}
  BY <1>1 DEF ReqOf, BodyOf, EndOf, ErrOf, RespOf
<1> HIDE DEF f
<1>4. RequestInv(rid)
  BY <1>2 DEF LiveInv
<1>5. /\ handler[rid] = Nobody /\ rid \notin Bodies(relayIn)
      /\ \A d \in Cartridges : rid \notin Bodies(writerCh[d])
  BY <1>2, <1>4 DEF RequestInv, IdleInv
<1>6. TypeOK'
  <2>1. phase' \in [Rids -> {"idle", "open", "body", "closed", "broken"}]
    BY DEF TypeOK, RelayRequests
  <2>2. relayIn' \in Seq(DownFrames)
    BY <1>1, <1>2, RelayQueue
  <2> QED BY <2>1, <2>2 DEF TypeOK, RelayRequests, tables, routes, processes, history
<1>7. ProcessInv'
  BY DEF LiveInv, ProcessInv, RelayRequests, tables, processes
<1>8. QueueInv'
  BY <1>1, <1>2, <1>3, <1>5, RelayQueue DEF LiveInv, QueueInv, RelayRequests
<1>9. ASSUME NEW r \in Rids, r # rid PROVE RequestInv(r)'
  <2>1. phase'[r] = phase[r]
    BY <1>9 DEF RelayRequests, TypeOK
  <2>2. /\ r \in Reqs(relayIn') => r \in Reqs(relayIn)
        /\ r \in Bodies(relayIn') => r \in Bodies(relayIn)
        /\ r \in Ends(relayIn') => r \in Ends(relayIn)
        /\ r \in Errs(relayIn') => r \in Errs(relayIn)
        /\ r \in Resps(relayIn') => r \in Resps(relayIn)
    BY <1>1, <1>2, <1>3, <1>9, RelayQueue
  <2>3. Undisturbed(r)
    BY <2>1, <2>2
       DEF Undisturbed, Process, Answered, RelayRequests, tables, routes, processes, history
  <2> QED BY <2>3, UndisturbedStep DEF LiveInv
<1>10. RequestInv(rid)'
  <2>1. /\ Ends(relayIn') = Ends(relayIn) /\ Errs(relayIn') = Errs(relayIn)
        /\ Resps(relayIn') = Resps(relayIn)
    BY <1>1, <1>2, <1>3, RelayQueue
  <2>2. phase'[rid] = "open"
    BY <1>2 DEF RelayRequests, TypeOK
  <2>3. UNCHANGED <<outgoingRids, incomingRxids, running, events, relayOut, writerCh, place,
                    handler, requester, bodyEnded, early, incarnation, relayGot>>
    BY DEF RelayRequests, tables, routes, processes, history
  <2>4. IdleInv(rid)' /\ ReqInv(rid)'
    BY <2>2, <2>3, <1>2, <1>4, <1>5 DEF RequestInv, IdleInv, ReqInv
  <2>5. EndInv(rid)'
    BY <2>1, <2>2, <2>3, <1>2, <1>4 DEF RequestInv, EndInv, Process
  <2>6. ErrInv(rid)' /\ RespInv(rid)'
    BY <1>2 DEF ErrInv, RespInv
  <2>7. BodyEndInv(rid)'
    BY <2>3, <1>2, <1>4 DEF RequestInv, BodyEndInv
  <2>8. RouteInv(rid)' /\ LostInv(rid)' /\ \A d \in Cartridges : ChannelInv(d, rid)'
    BY <2>3, <1>4 DEF RequestInv, RouteInv, LostInv, Answered, ChannelInv, Process
  <2> QED BY <2>4, <2>5, <2>6, <2>7, <2>8 DEF RequestInv
<1> QED BY <1>6, <1>7, <1>8, <1>9, <1>10 DEF LiveInv

LEMMA RelayContinuesStep ==
  ASSUME TypeOK, LiveInv, ~stopped, NEW rid \in EngineRids, NEW type \in {"BODY", "END", "ERR"},
         RelayContinues(rid, type)
  PROVE  TypeOK' /\ LiveInv'
<1> DEFINE f == Stamp(Frame(type, rid, TRUE, "body", 0))
<1>1. /\ f \in DownFrames /\ f.type = type /\ f.role = "body" /\ f.rid = rid
  BY HostAssumption DEF Stamp, Frame, DownFrames, Frames
<1>2. /\ relayIn' = Append(relayIn, f) /\ rid \in Rids /\ rid \notin PeerRids
      /\ phase[rid] \in {"open", "body"}
  BY HostAssumption DEF RelayContinues, RelaySends, Rids
<1>3. /\ ReqOf(f) = {} /\ BodyOf(f) = {rid} /\ RespOf(f) = {} /\ ErrOf(f) \subseteq {rid}
      /\ EndOf(f) = IF type = "END" THEN {rid} ELSE {}
  BY <1>1 DEF ReqOf, BodyOf, EndOf, ErrOf, RespOf
<1> HIDE DEF f
<1>4. RequestInv(rid)
  BY <1>2 DEF LiveInv
<1>5. /\ rid \notin Ends(relayIn) \cup Ends(relayOut)
      /\ \A d \in Cartridges : rid \notin Ends(events[d])
  BY <1>2, <1>4 DEF RequestInv, EndInv
<1>6. TypeOK'
  <2>1. phase' \in [Rids -> {"idle", "open", "body", "closed", "broken"}]
    BY DEF TypeOK, RelayContinues
  <2>2. relayIn' \in Seq(DownFrames)
    BY <1>1, <1>2, RelayQueue
  <2> QED BY <2>1, <2>2 DEF TypeOK, RelayContinues, tables, routes, processes, history
<1>7. ProcessInv'
  BY DEF LiveInv, ProcessInv, RelayContinues, tables, processes
<1>8. QueueInv'
  BY <1>1, <1>2, <1>3, <1>5, RelayQueue DEF LiveInv, QueueInv, RelayContinues
<1>9. ASSUME NEW r \in Rids, r # rid PROVE RequestInv(r)'
  <2>1. phase'[r] = phase[r]
    BY <1>9 DEF RelayContinues, TypeOK
  <2>2. /\ r \in Reqs(relayIn') => r \in Reqs(relayIn)
        /\ r \in Bodies(relayIn') => r \in Bodies(relayIn)
        /\ r \in Ends(relayIn') => r \in Ends(relayIn)
        /\ r \in Errs(relayIn') => r \in Errs(relayIn)
        /\ r \in Resps(relayIn') => r \in Resps(relayIn)
    BY <1>1, <1>2, <1>3, <1>9, RelayQueue
  <2>3. Undisturbed(r)
    BY <2>1, <2>2
       DEF Undisturbed, Process, Answered, RelayContinues, tables, routes, processes, history
  <2> QED BY <2>3, UndisturbedStep DEF LiveInv
<1>10. RequestInv(rid)'
  <2>1. /\ Reqs(relayIn') = Reqs(relayIn)
        /\ rid \in Ends(relayIn') => type = "END"
    BY <1>1, <1>2, <1>3, <1>5, RelayQueue
  <2>2. phase'[rid] # "idle" /\ (type = "END" => phase'[rid] = "closed")
    BY <1>2 DEF RelayContinues, TypeOK
  <2>3. UNCHANGED <<outgoingRids, incomingRxids, running, events, relayOut, writerCh, place,
                    handler, requester, bodyEnded, early, incarnation, relayGot>>
    BY DEF RelayContinues, tables, routes, processes, history
  <2>4. IdleInv(rid)' /\ ReqInv(rid)'
    BY <2>1, <2>2, <2>3, <1>2, <1>4 DEF RequestInv, IdleInv, ReqInv
  <2>5. EndInv(rid)'
    BY <2>1, <2>2, <2>3, <1>2, <1>4, <1>5 DEF RequestInv, EndInv, Process
  <2>6. ErrInv(rid)' /\ RespInv(rid)'
    BY <1>2 DEF ErrInv, RespInv
  <2>7. BodyEndInv(rid)'
    BY <2>3, <1>2, <1>4 DEF RequestInv, BodyEndInv
  <2>8. RouteInv(rid)' /\ LostInv(rid)' /\ \A d \in Cartridges : ChannelInv(d, rid)'
    BY <2>3, <1>4 DEF RequestInv, RouteInv, LostInv, Answered, ChannelInv, Process
  <2> QED BY <2>4, <2>5, <2>6, <2>7, <2>8 DEF RequestInv
<1> QED BY <1>6, <1>7, <1>8, <1>9, <1>10 DEF LiveInv

\* A peer request that is served elsewhere is not handled here.
LEMMA RelayAnswersStep ==
  ASSUME TypeOK, LiveInv, ~stopped, NEW rid \in PeerRids, NEW type \in Responses,
         RelayAnswers(rid, type)
  PROVE  TypeOK' /\ LiveInv'
<1> DEFINE f == Stamp(Frame(type, rid, TRUE, "resp", replies[rid]))
<1>1. f \in DownFrames /\ f.type = type /\ f.role = "resp" /\ f.rid = rid
  <2>1. rid \in Rids /\ replies[rid] \in Nat
    BY DEF Rids, TypeOK
  <2>2. /\ Stamp(Frame(type, rid, TRUE, "resp", replies[rid])) \in DownFrames
        /\ Stamp(Frame(type, rid, TRUE, "resp", replies[rid])).type = type
        /\ Stamp(Frame(type, rid, TRUE, "resp", replies[rid])).rid = rid
        /\ Stamp(Frame(type, rid, TRUE, "resp", replies[rid])).role = "resp"
    BY <2>1, StampedResp
  <2> QED BY <2>2
<1>2. relayIn' = Append(relayIn, f) /\ rid \in Rids /\ place[rid] = "elsewhere"
  BY DEF RelayAnswers, RelaySends, Rids
<1>3. ReqOf(f) = {} /\ BodyOf(f) = {} /\ EndOf(f) = {} /\ ErrOf(f) = {} /\ RespOf(f) = {rid}
  BY <1>1 DEF ReqOf, BodyOf, EndOf, ErrOf, RespOf, Responses
<1> HIDE DEF f
<1>4. RequestInv(rid)
  BY <1>2 DEF LiveInv
<1>5. TypeOK'
  <2>1. /\ place' \in [PeerRids -> {"none", "elsewhere", "settled", "here"}]
        /\ replies' \in [Rids -> Nat]
    BY <1>2 DEF TypeOK, RelayAnswers
  <2>2. relayIn' \in Seq(DownFrames)
    BY <1>1, <1>2, RelayQueue
  <2> QED BY <2>1, <2>2 DEF TypeOK, RelayAnswers, tables, routes, processes, history
<1>6. ProcessInv'
  BY DEF LiveInv, ProcessInv, RelayAnswers, tables, processes
<1>7. QueueInv'
  BY <1>1, <1>2, <1>3, RelayQueue DEF LiveInv, QueueInv, RelayAnswers
<1>8. ASSUME NEW r \in Rids, r # rid PROVE RequestInv(r)'
  <2>1. r \in PeerRids => place'[r] = place[r]
    BY <1>8 DEF RelayAnswers, TypeOK
  <2>2. /\ r \in Reqs(relayIn') => r \in Reqs(relayIn)
        /\ r \in Bodies(relayIn') => r \in Bodies(relayIn)
        /\ r \in Ends(relayIn') => r \in Ends(relayIn)
        /\ r \in Errs(relayIn') => r \in Errs(relayIn)
        /\ r \in Resps(relayIn') => r \in Resps(relayIn)
    BY <1>1, <1>2, <1>3, <1>8, RelayQueue
  <2>3. Undisturbed(r)
    BY <2>1, <2>2
       DEF Undisturbed, Process, Answered, RelayAnswers, tables, routes, processes, history
  <2> QED BY <2>3, UndisturbedStep DEF LiveInv
<1>9. RequestInv(rid)'
  <2>1. /\ Reqs(relayIn') = Reqs(relayIn) /\ Bodies(relayIn') = Bodies(relayIn)
        /\ Ends(relayIn') = Ends(relayIn) /\ Errs(relayIn') = Errs(relayIn)
    BY <1>1, <1>2, <1>3, RelayQueue
  <2>2. place'[rid] \in {"elsewhere", "settled"}
    BY <1>2 DEF RelayAnswers, TypeOK
  <2>3. UNCHANGED <<outgoingRids, incomingRxids, running, events, relayOut, writerCh, phase,
                    handler, requester, bodyEnded, early, incarnation, relayGot>>
    BY DEF RelayAnswers, tables, routes, processes, history
  <2>4. IdleInv(rid)' /\ ReqInv(rid)' /\ EndInv(rid)'
    BY <2>1, <2>2, <2>3, <1>2, <1>4 DEF RequestInv, IdleInv, ReqInv, EndInv, Process
  <2>5. ErrInv(rid)' /\ BodyEndInv(rid)'
    BY <2>1, <2>3, <1>4 DEF RequestInv, ErrInv, BodyEndInv, Gone
  <2>6. RespInv(rid)'
    <3>1. phase[rid] # "idle" /\ handler[rid] = Nobody /\ rid \notin Bodies(relayIn)
      BY <1>2, <1>4 DEF RequestInv, IdleInv
    <3>2. rid \notin DOMAIN incomingRxids
      <4>1. rid \in DOMAIN incomingRxids => incomingRxids[rid] \in Cartridges
        BY DEF TypeOK
      <4> QED BY <3>1, <4>1, <1>4 DEF RequestInv, RouteInv, Process, Nobody, None, Cartridges
    <3>3. rid \notin Reqs(relayOut) /\ \A d \in Cartridges : rid \notin Reqs(events[d])
      BY <1>2, <1>4 DEF RequestInv, ReqInv
    <3> QED BY <2>1, <2>3, <3>1, <3>2, <3>3, QueuedReqs DEF RespInv, Settled
  <2>7. RouteInv(rid)' /\ LostInv(rid)' /\ \A d \in Cartridges : ChannelInv(d, rid)'
    BY <2>3, <1>4 DEF RequestInv, RouteInv, LostInv, Answered, ChannelInv, Process
  <2> QED BY <2>4, <2>5, <2>6, <2>7 DEF RequestInv
<1> QED BY <1>5, <1>6, <1>7, <1>8, <1>9 DEF LiveInv

LEMMA RelayClosesStep ==
  ASSUME TypeOK, LiveInv, RelayCloses
  PROVE  TypeOK' /\ LiveInv'
<1> USE DEF RelayCloses, tables, routes, channels, processes, requests, history
<1>1. TypeOK'
  BY DEF TypeOK
<1>2. ProcessInv'
  BY DEF LiveInv, ProcessInv
<1>3. QueueInv'
  BY DEF LiveInv, QueueInv
<1>4. ASSUME NEW r \in Rids PROVE RequestInv(r)'
  <2>1. Undisturbed(r)
    BY DEF Undisturbed, Process, Answered
  <2> QED BY <2>1, UndisturbedStep DEF LiveInv
<1> QED BY <1>1, <1>2, <1>3, <1>4 DEF LiveInv

\* A response frame of the engine's request leaves the host's side.
LEMMA DeliverStep ==
  ASSUME TypeOK, LiveInv, ~stopped, relayOut # <<>>, NEW f, f = Head(relayOut), f.rid \in EngineRids,
         relayOut' = Tail(relayOut),
         relayGot' = [relayGot EXCEPT ![f.rid] = Append(@, f)],
         UNCHANGED <<relayIn, place, tables, routes, writerCh, events, relayUp, stopped, processes,
                     phase, replies, handler, requester, bodyEnded, early, dropped>>
  PROVE  TypeOK' /\ LiveInv'
<1> USE DEF tables, routes, processes
<1>1. relayOut \in Seq(UpFrames)
  BY DEF TypeOK
<1>2. /\ f \in UpFrames /\ relayOut' \in Seq(UpFrames)
      /\ Reqs(relayOut') \subseteq Reqs(relayOut) /\ Bodies(relayOut') \subseteq Bodies(relayOut)
      /\ Ends(relayOut') \subseteq Ends(relayOut) /\ Errs(relayOut') \subseteq Errs(relayOut)
      /\ Resps(relayOut') \subseteq Resps(relayOut)
      /\ Lasts(relayOut) = Lasts(relayOut') \cup LastOf(f)
      /\ Orderly(relayOut) => Orderly(relayOut')
  BY <1>1, TailQueue
<1>3. f.rid \in Rids
  BY DEF Rids
<1>4. TypeOK'
  <2>1. relayGot' \in [Rids -> Seq(UpFrames)]
    BY <1>2, <1>3 DEF TypeOK
  <2> QED BY <1>2, <2>1 DEF TypeOK
<1>5. ProcessInv'
  BY DEF LiveInv, ProcessInv
<1>6. QueueInv'
  BY <1>2 DEF LiveInv, QueueInv
<1>7. ASSUME NEW r \in Rids PROVE RequestInv(r)'
  <2>1. ToSet(relayGot[r]) \subseteq ToSet(relayGot'[r])
        /\ (r = f.rid => f \in ToSet(relayGot'[r]))
    <3>1. relayGot[r] \in Seq(UpFrames) /\ relayGot'[r] = IF r = f.rid THEN Append(relayGot[r], f) ELSE relayGot[r]
      BY <1>3 DEF TypeOK
    <3>2. CASE r = f.rid
      <4>1. /\ DOMAIN relayGot'[r] = 1..(Len(relayGot[r]) + 1) /\ Len(relayGot[r]) \in Nat
            /\ DOMAIN relayGot[r] = 1..Len(relayGot[r])
            /\ \A i \in DOMAIN relayGot[r] : i \in DOMAIN relayGot'[r] /\ relayGot'[r][i] = relayGot[r][i]
            /\ relayGot'[r][Len(relayGot[r]) + 1] = f
        BY <3>1, <3>2, <1>2
      <4>2. Len(relayGot[r]) + 1 \in DOMAIN relayGot'[r]
        BY <4>1
      <4> QED BY <4>1, <4>2 DEF ToSet
    <3>3. CASE r # f.rid
      BY <3>1, <3>3
    <3> QED BY <3>2, <3>3
  <2>2. Answered(r) => Answered(r)'
    <3>1. r \in LastOf(f) => r = f.rid /\ Terminal(f)
      BY DEF LastOf, Terminal
    <3> QED BY <2>1, <3>1, <1>2 DEF Answered
  <2>3. Undisturbed(r)
    BY <1>2, <2>2 DEF Undisturbed, Process
  <2> QED BY <2>3, UndisturbedStep DEF LiveInv
<1> QED BY <1>4, <1>5, <1>6, <1>7 DEF LiveInv

\* The relay decides where a peer request is served.
LEMMA DecideStep ==
  ASSUME TypeOK, LiveInv, ~stopped, relayOut # <<>>, NEW f, f = Head(relayOut),
         f.rid \in PeerRids, f.type = "REQ", relayOut' = Tail(relayOut),
         \/ place' = [place EXCEPT ![f.rid] = "elsewhere"] /\ UNCHANGED relayIn
         \/ /\ place' = [place EXCEPT ![f.rid] = "settled"]
            /\ relayIn' = Append(relayIn, Stamp(HostErr(f.rid, TRUE, "resp")))
         \/ /\ place' = [place EXCEPT ![f.rid] = "here"]
            /\ relayIn' = Append(relayIn, Stamp(f)),
         UNCHANGED <<relayGot, tables, routes, writerCh, events, relayUp, stopped, processes,
                     phase, replies, handler, requester, bodyEnded, early, dropped>>
  PROVE  TypeOK' /\ LiveInv'
<1> USE DEF tables, routes, processes
<1> DEFINE rid == f.rid
           e == Stamp(HostErr(rid, TRUE, "resp"))
           g == Stamp(f)
<1>1. relayOut \in Seq(UpFrames) /\ relayIn \in Seq(DownFrames) /\ rid \in Rids
  BY DEF TypeOK, Rids
<1>2. /\ f \in UpFrames /\ relayOut' \in Seq(UpFrames)
      /\ Reqs(relayOut) = Reqs(relayOut') \cup ReqOf(f)
      /\ Bodies(relayOut) = Bodies(relayOut') \cup BodyOf(f)
      /\ Ends(relayOut) = Ends(relayOut') \cup EndOf(f)
      /\ Errs(relayOut) = Errs(relayOut') \cup ErrOf(f)
      /\ Resps(relayOut) = Resps(relayOut') \cup RespOf(f)
      /\ Lasts(relayOut) = Lasts(relayOut') \cup LastOf(f)
      /\ Orderly(relayOut) => Orderly(relayOut') /\ BodyOf(f) \cap Reqs(relayOut') = {}
  BY <1>1, TailQueue
<1>3. f.role = "body"
  BY <1>2, UpFields
<1>4. /\ ReqOf(f) = {rid} /\ BodyOf(f) = {rid} /\ EndOf(f) = {} /\ ErrOf(f) = {} /\ RespOf(f) = {}
      /\ LastOf(f) = {}
  BY <1>3 DEF ReqOf, BodyOf, EndOf, ErrOf, RespOf, LastOf
<1>5. RequestInv(rid)
  BY <1>1 DEF LiveInv
\* The request was not routed before.
<1>6. /\ place[rid] = "none" /\ handler[rid] = Nobody /\ phase[rid] # "idle"
      /\ rid \notin Bodies(relayIn) /\ rid \notin Reqs(relayIn) /\ rid \notin Reqs(relayOut')
      /\ \A d \in Cartridges : rid \notin Reqs(events[d]) /\ rid \notin Bodies(writerCh[d])
  <2>1. rid \in Reqs(relayOut) /\ rid \in Bodies(relayOut)
    BY <1>2, <1>4
  <2>2. place[rid] = "none" /\ \A d \in Cartridges : rid \notin Reqs(events[d])
    BY <2>1, <1>5 DEF RequestInv, ReqInv
  <2>3. /\ handler[rid] = Nobody /\ phase[rid] # "idle" /\ rid \notin Bodies(relayIn)
        /\ \A d \in Cartridges : rid \notin Bodies(writerCh[d])
    BY <2>1, <2>2, <1>5 DEF RequestInv, IdleInv
  <2>4. rid \notin Reqs(relayIn)
    BY <2>3, QueuedReqs
  <2>5. rid \notin Reqs(relayOut')
    BY <1>2, <1>4 DEF LiveInv, QueueInv
  <2> QED BY <2>2, <2>3, <2>4, <2>5
\* What the relay sends down.
<1>7. e \in DownFrames /\ e.type = "ERR" /\ e.role = "resp" /\ e.rid = rid
  BY HostAssumption DEF HostErr, Frame, Stamp, DownFrames, Frames, Responses
<1>8. g \in DownFrames /\ g.type = "REQ" /\ g.role = "body" /\ g.rid = rid
  BY <1>2, <1>3, StampedFrame
<1>9. /\ ReqOf(e) = {} /\ BodyOf(e) = {} /\ EndOf(e) = {} /\ ErrOf(e) = {} /\ RespOf(e) = {rid}
      /\ ReqOf(g) = {rid} /\ BodyOf(g) = {rid} /\ EndOf(g) = {} /\ ErrOf(g) = {} /\ RespOf(g) = {}
  BY <1>7, <1>8 DEF ReqOf, BodyOf, EndOf, ErrOf, RespOf
<1>10. \/ place'[rid] = "elsewhere" /\ relayIn' = relayIn
       \/ place'[rid] = "settled" /\ relayIn' = Append(relayIn, e)
       \/ place'[rid] = "here" /\ relayIn' = Append(relayIn, g)
  BY DEF TypeOK
<1> HIDE DEF e, g
<1>11. /\ relayIn' \in Seq(DownFrames) /\ (Orderly(relayIn) => Orderly(relayIn'))
       /\ Ends(relayIn') = Ends(relayIn) /\ Errs(relayIn') = Errs(relayIn)
       /\ Reqs(relayIn') = IF place'[rid] = "here" THEN Reqs(relayIn) \cup {rid} ELSE Reqs(relayIn)
       /\ Bodies(relayIn') = IF place'[rid] = "here" THEN Bodies(relayIn) \cup {rid} ELSE Bodies(relayIn)
       /\ Resps(relayIn') = IF place'[rid] = "settled" THEN Resps(relayIn) \cup {rid} ELSE Resps(relayIn)
  <2>1. CASE relayIn' = relayIn /\ place'[rid] = "elsewhere"
    BY <2>1, <1>1
  <2>2. CASE relayIn' = Append(relayIn, e) /\ place'[rid] = "settled"
    BY <2>2, <1>7, <1>9, RelayQueue
  <2>3. CASE relayIn' = Append(relayIn, g) /\ place'[rid] = "here"
    <3>1. /\ relayIn' \in Seq(DownFrames)
          /\ Reqs(relayIn') = Reqs(relayIn) \cup {rid}
          /\ Bodies(relayIn') = Bodies(relayIn) \cup {rid}
          /\ Ends(relayIn') = Ends(relayIn) \cup {}
          /\ Errs(relayIn') = Errs(relayIn) \cup {}
          /\ Resps(relayIn') = Resps(relayIn) \cup {}
          /\ (Orderly(relayIn) /\ {rid} \cap Bodies(relayIn) = {} /\ {} \cap Ends(relayIn) = {}
                => Orderly(relayIn'))
      BY <2>3, <1>8, <1>9, RelayQueue
    <3>2. {rid} \cap Bodies(relayIn) = {}
      BY <2>3, <1>6
    <3> QED BY <2>3, <3>1, <3>2
  <2> QED BY <1>10, <2>1, <2>2, <2>3
<1>12. /\ place' \in [PeerRids -> {"none", "elsewhere", "settled", "here"}]
       /\ \A r \in PeerRids : r # rid => place'[r] = place[r]
  BY DEF TypeOK
<1>13. TypeOK'
  BY <1>2, <1>11, <1>12 DEF TypeOK
<1>14. ProcessInv'
  BY DEF LiveInv, ProcessInv
<1>15. QueueInv'
  BY <1>2, <1>11 DEF LiveInv, QueueInv
<1>16. ASSUME NEW r \in Rids, r # rid PROVE RequestInv(r)'
  <2>1. Undisturbed(r)
    BY <1>2, <1>4, <1>11, <1>12, <1>16 DEF Undisturbed, Process, Answered
  <2> QED BY <2>1, UndisturbedStep DEF LiveInv
<1>17. RequestInv(rid)'
  <2>1. IdleInv(rid)' /\ ReqInv(rid)'
    BY <1>2, <1>4, <1>5, <1>6, <1>10, <1>11 DEF RequestInv, IdleInv, ReqInv
  <2>2. EndInv(rid)'
    BY <1>2, <1>4, <1>5, <1>11 DEF RequestInv, EndInv, Process
  <2>3. Gone(rid) => Gone(rid)'
    BY DEF Gone
  <2>4. ErrInv(rid)' /\ BodyEndInv(rid)'
    BY <1>2, <1>4, <1>5, <1>11, <2>3 DEF RequestInv, ErrInv, BodyEndInv
  <2>5. rid \notin DOMAIN incomingRxids
    <3>1. rid \in DOMAIN incomingRxids => incomingRxids[rid] \in Cartridges
      BY DEF TypeOK
    <3> QED BY <3>1, <1>5, <1>6 DEF RequestInv, RouteInv, Process, Nobody, None, Cartridges
  <2>6. RespInv(rid)'
    <3>1. CASE place'[rid] = "here"
      <4>1. /\ rid \in Reqs(relayOut)
            /\ Resps(relayIn') = Resps(relayIn) /\ Resps(relayOut') = Resps(relayOut)
        BY <3>1, <1>2, <1>4, <1>11
      <4> QED BY <4>1, <1>5 DEF RequestInv, RespInv, Settled
    <3>2. CASE place'[rid] # "here"
      BY <3>2, <1>6, <1>11, <2>5 DEF RespInv, Settled
    <3> QED BY <3>1, <3>2
  <2>7. RouteInv(rid)' /\ LostInv(rid)' /\ \A d \in Cartridges : ChannelInv(d, rid)'
    BY <1>2, <1>4, <1>5 DEF RequestInv, RouteInv, LostInv, Answered, ChannelInv, Process
  <2> QED BY <2>1, <2>2, <2>4, <2>6, <2>7 DEF RequestInv
<1> QED BY <1>13, <1>14, <1>15, <1>16, <1>17 DEF LiveInv

\* A frame that follows a peer request goes where the request went.
LEMMA ForwardStep ==
  ASSUME TypeOK, LiveInv, ~stopped, relayOut # <<>>, NEW f, f = Head(relayOut),
         f.rid \in PeerRids, f.type # "REQ", relayOut' = Tail(relayOut),
         IF place[f.rid] = "here" THEN relayIn' = Append(relayIn, Stamp(f)) ELSE UNCHANGED relayIn,
         UNCHANGED <<place, relayGot, tables, routes, writerCh, events, relayUp, stopped, processes,
                     phase, replies, handler, requester, bodyEnded, early, dropped>>
  PROVE  TypeOK' /\ LiveInv'
<1> USE DEF tables, routes, processes
<1> DEFINE rid == f.rid
           g == Stamp(f)
<1>1. relayOut \in Seq(UpFrames) /\ relayIn \in Seq(DownFrames) /\ rid \in Rids /\ rid \in PeerRids
  BY DEF TypeOK, Rids
<1>2. /\ f \in UpFrames /\ relayOut' \in Seq(UpFrames)
      /\ Reqs(relayOut) = Reqs(relayOut') \cup ReqOf(f)
      /\ Bodies(relayOut) = Bodies(relayOut') \cup BodyOf(f)
      /\ Ends(relayOut) = Ends(relayOut') \cup EndOf(f)
      /\ Errs(relayOut) = Errs(relayOut') \cup ErrOf(f)
      /\ Resps(relayOut) = Resps(relayOut') \cup RespOf(f)
      /\ Lasts(relayOut) = Lasts(relayOut') \cup LastOf(f)
      /\ Orderly(relayOut) => Orderly(relayOut') /\ EndOf(f) \cap Ends(relayOut') = {}
  BY <1>1, TailQueue
<1>3. g \in DownFrames /\ g.type = f.type /\ g.rid = rid /\ g.role = f.role
  BY <1>1, <1>2, StampedFrame
<1>4. f.type \notin {"REQ", "DEATH"}
  BY <1>2, UpFields
<1>5. /\ ReqOf(f) = {} /\ BodyOf(f) \subseteq {rid} /\ EndOf(f) \subseteq {rid}
      /\ ErrOf(f) \subseteq {rid} /\ RespOf(f) \subseteq {rid} /\ LastOf(f) \subseteq {rid}
      /\ ReqOf(g) = {} /\ BodyOf(g) = BodyOf(f) /\ EndOf(g) = EndOf(f)
      /\ ErrOf(g) = ErrOf(f) /\ RespOf(g) = RespOf(f)
  BY <1>3, <1>4 DEF ReqOf, BodyOf, EndOf, ErrOf, RespOf, LastOf
<1>6. RequestInv(rid)
  BY <1>1 DEF LiveInv
<1>7. rid \notin EndOf(f) \/ rid \notin Ends(relayIn)
  BY <1>2, <1>6 DEF RequestInv, EndInv
<1>8. \/ relayIn' = relayIn
      \/ place[rid] = "here" /\ relayIn' = Append(relayIn, g)
  OBVIOUS
<1> HIDE DEF g
<1>9. /\ relayIn' \in Seq(DownFrames) /\ (Orderly(relayIn) => Orderly(relayIn'))
      /\ Reqs(relayIn') = Reqs(relayIn)
      /\ Bodies(relayIn') = Bodies(relayIn)
           \/ (place[rid] = "here" /\ Bodies(relayIn') = Bodies(relayIn) \cup BodyOf(f))
      /\ Ends(relayIn') \subseteq Ends(relayIn) \cup EndOf(f)
      /\ Errs(relayIn') \subseteq Errs(relayIn) \cup ErrOf(f)
      /\ Resps(relayIn') \subseteq Resps(relayIn) \cup RespOf(f)
  <2>1. CASE relayIn' = relayIn
    BY <2>1, <1>1
  <2>2. CASE place[rid] = "here" /\ relayIn' = Append(relayIn, g)
    <3>1. EndOf(g) \cap Ends(relayIn) = {}
      BY <1>5, <1>7
    <3> QED BY <2>2, <3>1, <1>3, <1>5, RelayQueue
  <2> QED BY <1>8, <2>1, <2>2
<1>10. TypeOK'
  BY <1>2, <1>9 DEF TypeOK
<1>11. ProcessInv'
  BY DEF LiveInv, ProcessInv
<1>12. QueueInv'
  BY <1>2, <1>9 DEF LiveInv, QueueInv
<1>13. ASSUME NEW r \in Rids, r # rid PROVE RequestInv(r)'
  <2>1. Undisturbed(r)
    BY <1>2, <1>5, <1>9, <1>13 DEF Undisturbed, Process, Answered
  <2> QED BY <2>1, UndisturbedStep DEF LiveInv
<1>14. RequestInv(rid)'
  <2>1. IdleInv(rid)' /\ ReqInv(rid)'
    BY <1>2, <1>6, <1>9 DEF RequestInv, IdleInv, ReqInv
  <2>2. EndInv(rid)'
    <3>1. rid \in EndOf(f) => rid \notin Ends(relayOut')
      BY <1>2 DEF LiveInv, QueueInv
    <3> QED BY <3>1, <1>2, <1>6, <1>9 DEF RequestInv, EndInv, Process
  <2>3. Gone(rid) => Gone(rid)'
    BY DEF Gone
  <2>4. ErrInv(rid)' /\ BodyEndInv(rid)'
    BY <1>2, <1>6, <1>9, <2>3 DEF RequestInv, ErrInv, BodyEndInv
  <2>5. RespInv(rid)'
    BY <1>2, <1>6, <1>9 DEF RequestInv, RespInv, Settled
  <2>6. rid \notin EngineRids
    BY <1>1, HostAssumption
  <2>7. RouteInv(rid)' /\ LostInv(rid)' /\ \A d \in Cartridges : ChannelInv(d, rid)'
    BY <1>6, <2>6 DEF RequestInv, RouteInv, LostInv, ChannelInv, Process
  <2> QED BY <2>1, <2>2, <2>4, <2>5, <2>7 DEF RequestInv
<1> QED BY <1>10, <1>11, <1>12, <1>13, <1>14 DEF LiveInv

LEMMA RelayTakesStep ==
  ASSUME TypeOK, LiveInv, ~stopped, RelayTakes
  PROVE  TypeOK' /\ LiveInv'
<1> DEFINE f == Head(relayOut)
<1>1. CASE f.rid \in EngineRids /\ relayGot' = [relayGot EXCEPT ![f.rid] = Append(@, f)]
           /\ UNCHANGED <<relayIn, place>>
  BY <1>1, DeliverStep DEF RelayTakes
<1>2. CASE /\ f.rid \in PeerRids /\ f.type = "REQ" /\ UNCHANGED relayGot
           /\ \/ place' = [place EXCEPT ![f.rid] = "elsewhere"] /\ UNCHANGED relayIn
              \/ /\ place' = [place EXCEPT ![f.rid] = "settled"]
                 /\ relayIn' = Append(relayIn, Stamp(HostErr(f.rid, TRUE, "resp")))
              \/ /\ place' = [place EXCEPT ![f.rid] = "here"]
                 /\ relayIn' = Append(relayIn, Stamp(f))
  BY <1>2, DecideStep DEF RelayTakes
<1>3. CASE /\ f.rid \in PeerRids /\ f.type # "REQ" /\ UNCHANGED <<place, relayGot>>
           /\ IF place[f.rid] = "here" THEN relayIn' = Append(relayIn, Stamp(f))
              ELSE UNCHANGED relayIn
  BY <1>3, ForwardStep DEF RelayTakes
<1> QED BY <1>1, <1>2, <1>3 DEF RelayTakes

-----------------------------------------------------------------------------
(***************************************************************************)
(* Cartridges that join                                                    *)
(***************************************************************************)

\* The cartridge that joins is not among those of the host yet.
LEMMA Joins ==
  ASSUME TypeOK, ProcessInv, NEW c \in Cartridges, MayJoin(c)
  PROVE  c \notin added /\ \E k \in 0..NCartridges : added \cup {c} = 1..k
<1>1. PICK k \in 0..NCartridges : added = 1..k
  BY DEF ProcessInv
<1>2. k \in Nat /\ NCartridges \in Nat
  BY HostAssumption
<1>3. Cardinality(1..k) = k
  <2>1. Cardinality(1..k) = IF 1 > k THEN 0 ELSE k - 1 + 1
    BY <1>2, FS_Interval
  <2> QED BY <2>1, <1>2
<1>4. c = k + 1 /\ c \in 1..NCartridges
  BY <1>1, <1>2, <1>3 DEF MayJoin, Cartridges
<1>5. k + 1 \in 0..NCartridges /\ (1..k) \cup {k + 1} = 1..(k + 1)
  BY <1>2, <1>4
<1> QED BY <1>1, <1>2, <1>4, <1>5

LEMMA RegisterCartridgeStep ==
  ASSUME TypeOK, LiveInv, NEW c \in Cartridges, RegisterCartridge(c)
  PROVE  TypeOK' /\ LiveInv'
<1> USE DEF RegisterCartridge, routes, channels, processes, requests, history
<1>1. TypeOK'
  BY DEF TypeOK
<1>2. ProcessInv'
  <2>1. \E k \in 0..NCartridges : added' = 1..k
    BY Joins DEF LiveInv
  <2>2. \A e \in capTable' : e.cartridge \in added'
    BY DEF LiveInv, ProcessInv, Entries
  <2> QED BY <2>1, <2>2 DEF LiveInv, ProcessInv
<1>3. QueueInv'
  BY DEF LiveInv, QueueInv
<1>4. ASSUME NEW r \in Rids PROVE RequestInv(r)'
  <2>1. Undisturbed(r)
    BY DEF Undisturbed, Process, Answered
  <2> QED BY <2>1, UndisturbedStep DEF LiveInv
<1> QED BY <1>1, <1>2, <1>3, <1>4 DEF LiveInv

\* A process that is started for a cartridge without one.
LEMMA StartedStep ==
  ASSUME TypeOK, ProcessInv, NEW c \in Cartridges, c \notin running,
         running' = running \cup {c}, incarnation' = [incarnation EXCEPT ![c] = @ + 1]
  PROVE  /\ incarnation' \in [Cartridges -> Nat] /\ events[c] = <<>> /\ writerCh[c] = <<>>
         /\ \A d \in Cartridges : d # c => Process(d)' = Process(d)
         /\ \A d \in running : d \in running' /\ incarnation'[d] = incarnation[d]
<1>1. incarnation' \in [Cartridges -> Nat] /\ \A d \in Cartridges : d # c => incarnation'[d] = incarnation[d]
  BY DEF TypeOK
<1>2. running \subseteq Cartridges
  BY DEF TypeOK
<1> QED BY <1>1, <1>2 DEF ProcessInv, Process

LEMMA AttachCartridgeStep ==
  ASSUME TypeOK, LiveInv, NEW c \in Cartridges, AttachCartridge(c)
  PROVE  TypeOK' /\ LiveInv'
<1>1. c \notin added /\ c \notin running /\ \E k \in 0..NCartridges : added' = 1..k
  BY Joins DEF LiveInv, ProcessInv, AttachCartridge
<1>2. /\ incarnation' \in [Cartridges -> Nat] /\ events[c] = <<>> /\ writerCh[c] = <<>>
      /\ \A d \in Cartridges : d # c => Process(d)' = Process(d)
      /\ \A d \in running : d \in running' /\ incarnation'[d] = incarnation[d]
  BY <1>1, StartedStep DEF LiveInv, AttachCartridge
<1> USE DEF AttachCartridge, routes, channels, requests, history
<1>3. TypeOK'
  BY <1>2 DEF TypeOK
<1>4. ProcessInv'
  <2>1. \A e \in capTable' : e.cartridge \in added'
    BY DEF LiveInv, ProcessInv, Entries
  <2>2. alive' \subseteq running' /\ running' \subseteq added'
    BY DEF LiveInv, ProcessInv
  <2>3. ASSUME NEW d \in Cartridges
        PROVE  /\ d \notin running' => events'[d] = <<>> /\ writerCh'[d] = <<>>
               /\ \A i \in DOMAIN events'[d] :
                    events'[d][i].type = "DEATH" => i = Len(events'[d]) /\ d \notin alive'
    <3>1. CASE d = c
      BY <3>1, <1>2
    <3>2. CASE d # c
      BY <3>2 DEF LiveInv, ProcessInv
    <3> QED BY <3>1, <3>2
  <2> QED BY <2>1, <2>2, <2>3, <1>1 DEF ProcessInv
<1>5. QueueInv'
  BY DEF LiveInv, QueueInv
<1>6. ASSUME NEW r \in Rids PROVE RequestInv(r)'
  <2>1. Undisturbed(r)
    BY <1>2, EmptyQueue DEF Undisturbed, Answered
  <2> QED BY <2>1, UndisturbedStep DEF LiveInv
<1> QED BY <1>3, <1>4, <1>5, <1>6 DEF LiveInv

-----------------------------------------------------------------------------
(***************************************************************************)
(* Frames from the relay                                                   *)
(***************************************************************************)

\* The host takes a frame from the relay.
LEMMA TakeQueue ==
  ASSUME TypeOK, QueueInv, relayIn # <<>>, relayIn' = Tail(relayIn)
  PROVE  LET f == Head(relayIn)
         IN /\ f \in DownFrames /\ f.rid \in Rids /\ relayIn' \in Seq(DownFrames) /\ Orderly(relayIn')
            /\ Reqs(relayIn) = Reqs(relayIn') \cup ReqOf(f)
            /\ Bodies(relayIn) = Bodies(relayIn') \cup BodyOf(f)
            /\ Ends(relayIn) = Ends(relayIn') \cup EndOf(f)
            /\ Errs(relayIn) = Errs(relayIn') \cup ErrOf(f)
            /\ Resps(relayIn) = Resps(relayIn') \cup RespOf(f)
            /\ BodyOf(f) \cap Reqs(relayIn') = {} /\ EndOf(f) \cap Ends(relayIn') = {}
<1>1. relayIn \in Seq(DownFrames) /\ Orderly(relayIn)
  BY DEF TypeOK, QueueInv
<1>2. Head(relayIn) \in DownFrames
  BY <1>1
<1>3. Head(relayIn).rid \in Rids
  BY <1>2, DownFields
<1> QED BY <1>1, <1>2, <1>3, TailQueue

\* The host hands a frame to a process, or drops it.
LEMMA SendQueue ==
  ASSUME TypeOK, NEW c \in Cartridges, NEW f \in ChannelFrames, SendToCartridge(c, f)
  PROVE  /\ writerCh' \in [Cartridges -> Seq(ChannelFrames)]
         /\ c \in running' \/ writerCh' = writerCh
         /\ \A d \in Cartridges :
              /\ d # c => writerCh'[d] = writerCh[d]
              /\ Bodies(writerCh'[d]) \subseteq Bodies(writerCh[d]) \cup (IF d = c THEN BodyOf(f) ELSE {})
              /\ Resps(writerCh'[d]) \subseteq Resps(writerCh[d]) \cup (IF d = c THEN RespOf(f) ELSE {})
<1> DEFINE S == ChannelFrames
<1>1. writerCh \in [Cartridges -> Seq(S)] /\ f \in S
  BY DEF TypeOK
<1> HIDE DEF S
<1>2. CASE HasRoom(c)
  <2>1. writerCh' = [writerCh EXCEPT ![c] = Append(@, f)] /\ c \in running'
    BY <1>2 DEF SendToCartridge, HasRoom
  <2>2. /\ writerCh[c] \in Seq(S) /\ writerCh'[c] = Append(writerCh[c], f)
        /\ writerCh' \in [Cartridges -> Seq(S)]
        /\ \A d \in Cartridges : d # c => writerCh'[d] = writerCh[d]
    BY <1>1, <2>1
  <2>3. /\ Bodies(Append(writerCh[c], f)) = Bodies(writerCh[c]) \cup BodyOf(f)
        /\ Resps(Append(writerCh[c], f)) = Resps(writerCh[c]) \cup RespOf(f)
    BY <1>1, <2>2, AppendQueue
  <2> QED BY <2>1, <2>2, <2>3 DEF S
<1>3. CASE ~HasRoom(c)
  <2>1. writerCh' = writerCh
    BY <1>3 DEF SendToCartridge
  <2> QED BY <1>1, <2>1 DEF S
<1> QED BY <1>2, <1>3

\* The host sends a frame to the relay.
LEMMA PostQueue ==
  ASSUME TypeOK, NEW f \in UpFrames, relayOut' = Append(relayOut, f)
  PROVE  /\ relayOut' \in Seq(UpFrames)
         /\ Reqs(relayOut') = Reqs(relayOut) \cup ReqOf(f)
         /\ Bodies(relayOut') = Bodies(relayOut) \cup BodyOf(f)
         /\ Ends(relayOut') = Ends(relayOut) \cup EndOf(f)
         /\ Errs(relayOut') = Errs(relayOut) \cup ErrOf(f)
         /\ Resps(relayOut') = Resps(relayOut) \cup RespOf(f)
         /\ Lasts(relayOut') = Lasts(relayOut) \cup LastOf(f)
         /\ (Orderly(relayOut) /\ ReqOf(f) \cap Bodies(relayOut) = {}
             /\ EndOf(f) \cap Ends(relayOut) = {}) => Orderly(relayOut')
<1>1. relayOut \in Seq(UpFrames)
  BY DEF TypeOK
<1>2. relayOut' \in Seq(UpFrames)
  BY <1>1
<1> QED BY <1>1, <1>2, AppendQueue

\* The cap table leads to a cartridge of the host.
LEMMA FindIsAdded ==
  ASSUME TypeOK, ProcessInv, NEW cap
  PROVE  FindCartridgeForCap(cap) = None \/ FindCartridgeForCap(cap) \in added
<1> DEFINE matches == {e \in capTable : <<e.cap, cap>> \in DOMAIN SignedDistance}
           exact   == {e \in capTable : e.cap = cap}
           dist(e) == SignedDistance[<<e.cap, cap>>]
           closer(e, o) == \/ dist(e) >= 0 /\ (dist(o) < 0 \/ dist(e) < dist(o))
                           \/ dist(e) < 0 /\ dist(o) < 0 /\ dist(e) > dist(o)
           best    == IF exact # {} THEN exact
                      ELSE {e \in matches : ~ \E o \in matches : closer(o, e)}
           choice  == {e.cartridge : e \in best}
<1>1. FindCartridgeForCap(cap) = IF best = {} THEN None ELSE Min(choice)
  BY DEF FindCartridgeForCap
<1>2. best \subseteq capTable
  OBVIOUS
<1> HIDE DEF best
<1>3. choice \subseteq added /\ choice \subseteq Nat /\ (best # {} => choice # {})
  <2>1. \A e \in best : e.cartridge \in added
    BY <1>2 DEF ProcessInv
  <2>2. added \subseteq Nat
    BY HostAssumption DEF TypeOK, Cartridges
  <2> QED BY <2>1, <2>2
<1> HIDE DEF choice
<1>4. best # {} => Min(choice) \in choice
  BY <1>3, MinIsMember
<1> QED BY <1>1, <1>3, <1>4

\* What a request that the host has not handled yet tells.
LEMMA NotHandled ==
  ASSUME TypeOK, NEW r \in Rids, RequestInv(r), handler[r] = Nobody
  PROVE  r \notin DOMAIN incomingRxids /\ r \notin bodyEnded
<1>1. r \in DOMAIN incomingRxids => incomingRxids[r] \in Cartridges
  BY DEF TypeOK
<1> QED BY <1>1 DEF RequestInv, RouteInv, BodyEndInv, Process, Nobody, None, Cartridges

\* The host reads a REQ: it is the first frame of its request.
LEMMA FreshRequest ==
  ASSUME TypeOK, LiveInv, relayIn # <<>>, NEW f, f = Head(relayIn), f.type = "REQ",
         relayIn' = Tail(relayIn)
  PROVE  /\ f \in DownFrames /\ f.rid \in Rids /\ relayIn' \in Seq(DownFrames) /\ Orderly(relayIn')
         /\ ReqOf(f) = {f.rid} /\ BodyOf(f) = {f.rid} /\ RespOf(f) = {}
         /\ Reqs(relayIn') \subseteq Reqs(relayIn) /\ f.rid \in Reqs(relayIn)
         /\ Bodies(relayIn') \subseteq Bodies(relayIn)
         /\ Ends(relayIn') \subseteq Ends(relayIn) /\ Errs(relayIn') \subseteq Errs(relayIn)
         /\ Resps(relayIn') \subseteq Resps(relayIn)
         /\ RequestInv(f.rid) /\ handler[f.rid] = Nobody /\ phase[f.rid] # "idle"
         /\ f.rid \notin DOMAIN incomingRxids /\ f.rid \notin bodyEnded
         /\ f.rid \notin Reqs(relayIn')
         /\ \A d \in Cartridges : f.rid \notin Bodies(writerCh[d])
         /\ f.rid \in PeerRids =>
              /\ place[f.rid] = "here" /\ f.rid \notin Reqs(relayOut)
              /\ \A d \in Cartridges : f.rid \notin Reqs(events[d])
<1> DEFINE rid == f.rid
<1>1. /\ f \in DownFrames /\ rid \in Rids /\ relayIn' \in Seq(DownFrames) /\ Orderly(relayIn')
      /\ Reqs(relayIn) = Reqs(relayIn') \cup ReqOf(f)
      /\ Bodies(relayIn) = Bodies(relayIn') \cup BodyOf(f)
      /\ Ends(relayIn) = Ends(relayIn') \cup EndOf(f)
      /\ Errs(relayIn) = Errs(relayIn') \cup ErrOf(f)
      /\ Resps(relayIn) = Resps(relayIn') \cup RespOf(f)
      /\ BodyOf(f) \cap Reqs(relayIn') = {}
  BY TakeQueue DEF LiveInv
<1>2. f.role = "body"
  BY <1>1, DownFields
<1>3. ReqOf(f) = {rid} /\ BodyOf(f) = {rid} /\ RespOf(f) = {}
  BY <1>2 DEF ReqOf, BodyOf, RespOf
<1>4. rid \in Reqs(relayIn) /\ rid \in Bodies(relayIn) /\ rid \notin Reqs(relayIn')
  BY <1>1, <1>3
<1>5. RequestInv(rid)
  BY <1>1 DEF LiveInv
<1>6. handler[rid] = Nobody /\ \A d \in Cartridges : rid \notin Bodies(writerCh[d])
  BY <1>4, <1>5 DEF RequestInv, ReqInv
<1>7. phase[rid] # "idle" /\ (rid \in PeerRids => place[rid] = "here")
  BY <1>4, <1>5 DEF RequestInv, IdleInv
<1>8. rid \in PeerRids => rid \notin Reqs(relayOut) /\ \A d \in Cartridges : rid \notin Reqs(events[d])
  BY <1>5, <1>7 DEF RequestInv, ReqInv
<1>9. rid \notin DOMAIN incomingRxids /\ rid \notin bodyEnded
  BY <1>1, <1>5, <1>6, NotHandled
<1> QED BY <1>1, <1>3, <1>4, <1>5, <1>6, <1>7, <1>8, <1>9

\* The host refuses a request with an ERR.
LEMMA RefuseStep ==
  ASSUME TypeOK, LiveInv, relayIn # <<>>, NEW f, f = Head(relayIn), f.type = "REQ",
         relayIn' = Tail(relayIn), Refuse(f), helloFailed' \subseteq Cartridges,
         UNCHANGED <<added, stuck, outgoingRids, bodyEnded, events, relayUp, stopped, serving, complete, beats, deaths,
                     requests, requester, early, relayGot>>
  PROVE  TypeOK' /\ LiveInv'
<1> USE DEF requests
<1> DEFINE rid == f.rid
           e == HostErr(rid, TRUE, "resp")
<1>1. /\ f \in DownFrames /\ rid \in Rids /\ relayIn' \in Seq(DownFrames) /\ Orderly(relayIn')
      /\ Reqs(relayIn') \subseteq Reqs(relayIn) /\ Bodies(relayIn') \subseteq Bodies(relayIn)
      /\ Ends(relayIn') \subseteq Ends(relayIn) /\ Errs(relayIn') \subseteq Errs(relayIn)
      /\ Resps(relayIn') \subseteq Resps(relayIn)
  BY FreshRequest
<1>2. /\ RequestInv(rid) /\ handler[rid] = Nobody /\ phase[rid] # "idle"
      /\ rid \notin DOMAIN incomingRxids /\ rid \notin bodyEnded /\ rid \notin Reqs(relayIn')
      /\ \A d \in Cartridges : rid \notin Bodies(writerCh[d])
      /\ rid \in PeerRids =>
           /\ place[rid] = "here" /\ rid \notin Reqs(relayOut)
           /\ \A d \in Cartridges : rid \notin Reqs(events[d])
  BY FreshRequest
<1>3. e \in UpFrames /\ e.type = "ERR" /\ e.role = "resp" /\ e.rid = rid
  BY <1>1, HostAssumption DEF HostErr, Frame, UpFrames, Frames, Responses
<1>4. /\ ReqOf(e) = {} /\ BodyOf(e) = {} /\ EndOf(e) = {} /\ ErrOf(e) = {} /\ RespOf(e) = {rid}
      /\ LastOf(e) = {rid}
  BY <1>3 DEF ReqOf, BodyOf, EndOf, ErrOf, RespOf, LastOf
<1>5. relayOut \in Seq(UpFrames) /\ relayOut' = Append(relayOut, e)
  BY DEF TypeOK, Refuse
<1> HIDE DEF e
<1>6. /\ relayOut' \in Seq(UpFrames) /\ (Orderly(relayOut) => Orderly(relayOut'))
      /\ Reqs(relayOut') = Reqs(relayOut) /\ Bodies(relayOut') = Bodies(relayOut)
      /\ Ends(relayOut') = Ends(relayOut) /\ Errs(relayOut') = Errs(relayOut)
      /\ Resps(relayOut') = Resps(relayOut) \cup {rid}
      /\ Lasts(relayOut') = Lasts(relayOut) \cup {rid}
  <2>1. /\ relayOut' \in Seq(UpFrames)
        /\ ReqOf(e) \cap Bodies(relayOut) = {} /\ EndOf(e) \cap Ends(relayOut) = {}
    BY <1>3, <1>4, <1>5
  <2> QED BY <2>1, <1>3, <1>4, <1>5, PostQueue
<1>7. UNCHANGED <<running, capTable, incomingRxids, writerCh, alive, incarnation, handler>>
  BY DEF Refuse
<1>8. TypeOK'
  BY <1>1, <1>6, <1>7 DEF TypeOK
<1>9. ProcessInv'
  BY <1>7 DEF LiveInv, ProcessInv
<1>10. QueueInv'
  BY <1>1, <1>6 DEF LiveInv, QueueInv
<1>11. ASSUME NEW r \in Rids, r # rid PROVE RequestInv(r)'
  <2>1. Undisturbed(r)
    BY <1>1, <1>6, <1>7, <1>11 DEF Undisturbed, Process, Answered
  <2> QED BY <2>1, UndisturbedStep DEF LiveInv
<1>12. RequestInv(rid)'
  <2>1. IdleInv(rid)' /\ ReqInv(rid)'
    BY <1>1, <1>2, <1>6, <1>7 DEF RequestInv, IdleInv, ReqInv
  <2>2. EndInv(rid)'
    BY <1>1, <1>2, <1>6, <1>7 DEF RequestInv, EndInv, Process
  <2>3. ErrInv(rid)' /\ BodyEndInv(rid)'
    BY <1>1, <1>2, <1>6 DEF RequestInv, ErrInv, BodyEndInv, Gone
  <2>4. RespInv(rid)'
    BY <1>2, <1>6, <1>7 DEF RespInv, Settled
  <2>5. RouteInv(rid)' /\ LostInv(rid)' /\ \A d \in Cartridges : ChannelInv(d, rid)'
    BY <1>2, <1>7 DEF RequestInv, RouteInv, LostInv, ChannelInv, Process
  <2> QED BY <2>1, <2>2, <2>3, <2>4, <2>5 DEF RequestInv
<1> QED BY <1>8, <1>9, <1>10, <1>11, <1>12 DEF LiveInv

\* The host hands a request to the process of a cartridge, which it may have to
\* start first.
LEMMA AcceptStep ==
  ASSUME TypeOK, LiveInv, relayIn # <<>>, NEW f, f = Head(relayIn), f.type = "REQ",
         relayIn' = Tail(relayIn), NEW c \in added, Accept(c, f),
         \/ c \in running /\ UNCHANGED <<running, capTable, capabilities, alive, incarnation>>
         \/ c \notin running /\ Spawn(c),
         UNCHANGED <<added, stuck, outgoingRids, bodyEnded, events, relayUp, stopped, serving, complete, beats, deaths,
                     requests, requester, early, relayGot>>
  PROVE  TypeOK' /\ LiveInv'
<1> USE DEF requests
<1> DEFINE rid == f.rid
<1>1. /\ f \in ChannelFrames /\ rid \in Rids /\ relayIn' \in Seq(DownFrames) /\ Orderly(relayIn')
      /\ BodyOf(f) = {rid} /\ RespOf(f) = {}
      /\ Reqs(relayIn') \subseteq Reqs(relayIn) /\ Bodies(relayIn') \subseteq Bodies(relayIn)
      /\ Ends(relayIn') \subseteq Ends(relayIn) /\ Errs(relayIn') \subseteq Errs(relayIn)
      /\ Resps(relayIn') \subseteq Resps(relayIn)
  BY FreshRequest DEF ChannelFrames
<1>2. /\ RequestInv(rid) /\ phase[rid] # "idle" /\ rid \in Reqs(relayIn)
      /\ rid \notin bodyEnded /\ rid \notin Reqs(relayIn')
      /\ \A d \in Cartridges : rid \notin Bodies(writerCh[d])
      /\ rid \in PeerRids => place[rid] = "here"
  BY FreshRequest
<1>3. c \in Cartridges
  BY DEF TypeOK
\* The processes that were there stay the same.
<1>4. /\ incarnation' \in [Cartridges -> Nat] /\ running' = running \cup {c}
      /\ alive' \subseteq alive \cup {c} /\ (c \in running => alive' = alive)
      /\ \A d \in running : d \in running' /\ incarnation'[d] = incarnation[d]
      /\ \A d \in Cartridges : d \notin running => events[d] = <<>> /\ writerCh[d] = <<>>
  <2>1. CASE c \in running /\ UNCHANGED <<running, capTable, capabilities, alive, incarnation>>
    BY <2>1 DEF TypeOK, LiveInv, ProcessInv
  <2>2. CASE c \notin running /\ Spawn(c)
    BY <2>2, <1>3, StartedStep DEF Spawn, LiveInv, ProcessInv
  <2> QED BY <2>1, <2>2
<1>5. \A e \in capTable' : e.cartridge \in added
  <2>1. CASE UNCHANGED capTable
    BY <2>1 DEF LiveInv, ProcessInv
  <2>2. CASE capTable' = CapTableOf(running', helloFailed)
    BY <2>2 DEF CapTableOf, Entries
  <2> QED BY <2>1, <2>2 DEF Spawn
<1>6. /\ incomingRxids' = With(incomingRxids, rid, c) /\ UNCHANGED <<relayOut, helloFailed>>
      /\ handler' \in [Rids -> Processes] /\ handler'[rid] = <<c, incarnation'[c]>>
      /\ \A r \in Rids : r # rid => handler'[r] = handler[r]
  BY <1>1, <1>3, <1>4 DEF Accept, TypeOK, Processes
<1>7. /\ writerCh' \in [Cartridges -> Seq(ChannelFrames)]
      /\ \A d \in Cartridges :
           /\ d # c => writerCh'[d] = writerCh[d]
           /\ Bodies(writerCh'[d]) \subseteq Bodies(writerCh[d]) \cup (IF d = c THEN {rid} ELSE {})
           /\ Resps(writerCh'[d]) \subseteq Resps(writerCh[d])
  BY <1>1, <1>3, SendQueue DEF Accept
<1>8. /\ DOMAIN incomingRxids' = DOMAIN incomingRxids \cup {rid} /\ incomingRxids'[rid] = c
      /\ incomingRxids' \in [DOMAIN incomingRxids' -> Cartridges]
      /\ IsFiniteSet(DOMAIN incomingRxids')
      /\ \A r \in DOMAIN incomingRxids : r # rid => incomingRxids'[r] = incomingRxids[r]
  <2>1. DOMAIN incomingRxids' = DOMAIN incomingRxids \cup {rid}
    BY <1>6 DEF With
  <2>2. incomingRxids \in [DOMAIN incomingRxids -> Cartridges] /\ IsFiniteSet(DOMAIN incomingRxids)
    BY DEF TypeOK
  <2>3. IsFiniteSet(DOMAIN incomingRxids \cup {rid})
    BY <2>2, FS_AddElement
  <2> QED BY <2>1, <2>2, <2>3, <1>3, <1>6 DEF With
<1>9. \A d \in Cartridges :
        writerCh[d] # <<>> \/ events[d] # <<>> => Process(d)' = Process(d) /\ d \in running
  BY <1>4 DEF Process
<1>10. TypeOK'
  BY <1>1, <1>3, <1>4, <1>6, <1>7, <1>8 DEF TypeOK
<1>11. ProcessInv'
  <2>1. alive' \subseteq running' /\ running' \subseteq added
    BY <1>4 DEF LiveInv, ProcessInv
  <2>2. ASSUME NEW d \in Cartridges
        PROVE  /\ d \notin running' => events'[d] = <<>> /\ writerCh'[d] = <<>>
               /\ \A i \in DOMAIN events'[d] :
                    events'[d][i].type = "DEATH" => i = Len(events'[d]) /\ d \notin alive'
    <3>1. d \notin running' => events'[d] = <<>> /\ writerCh'[d] = <<>>
      BY <1>4, <1>7
    <3>2. CASE d \in running
      BY <3>1, <3>2, <1>4 DEF LiveInv, ProcessInv
    <3>3. CASE d \notin running
      BY <3>1, <3>3, <1>4
    <3> QED BY <3>2, <3>3
  <2> QED BY <2>1, <2>2, <1>5 DEF LiveInv, ProcessInv
<1>12. QueueInv'
  BY <1>1, <1>6 DEF LiveInv, QueueInv
<1>13. \A d \in Cartridges : \A r \in Rids :
         /\ r \in Bodies(writerCh[d]) \cup Resps(writerCh[d]) => Process(d)' = Process(d)
         /\ r \in Bodies(events[d]) => Process(d)' = Process(d)
  BY <1>9, EmptyQueue
<1>14. ASSUME NEW r \in Rids, r # rid PROVE RequestInv(r)'
  <2>1. \A d \in Cartridges :
          /\ r \in Bodies(writerCh'[d]) => r \in Bodies(writerCh[d]) /\ Process(d)' = Process(d)
          /\ r \in Resps(writerCh'[d]) => r \in Resps(writerCh[d]) /\ Process(d)' = Process(d)
          /\ r \in Bodies(events[d]) => Process(d)' = Process(d)
    BY <1>7, <1>13, <1>14
  <2>2. Undisturbed(r)
    BY <2>1, <1>1, <1>4, <1>6, <1>8, <1>14 DEF Undisturbed, Answered
  <2> QED BY <2>2, UndisturbedStep DEF LiveInv
<1>15. RequestInv(rid)'
  <2>1. \A d \in Cartridges : rid \in Bodies(writerCh'[d]) => d = c
    BY <1>2, <1>7
  <2>2. IdleInv(rid)'
    BY <1>2 DEF IdleInv
  <2>3. ReqInv(rid)'
    BY <1>2, <1>6 DEF RequestInv, ReqInv
  <2>4. EndInv(rid)'
    BY <1>1, <1>2, <1>6, <1>13 DEF RequestInv, EndInv
  <2>5. ErrInv(rid)' /\ BodyEndInv(rid)'
    BY <1>1, <1>2, <1>6 DEF RequestInv, ErrInv, BodyEndInv, Gone
  <2>6. RespInv(rid)'
    BY <1>1, <1>2, <1>6 DEF RequestInv, RespInv, Settled
  <2>7. RouteInv(rid)'
    <3>1. rid \in DOMAIN outgoingRids =>
            rid \in PeerRids /\ outgoingRids[rid] \in running /\ requester[rid] = Process(outgoingRids[rid])
      BY <1>2 DEF RequestInv, RouteInv
    <3> QED BY <3>1, <1>4, <1>6, <1>8 DEF RouteInv, Process
  <2>8. \A d \in Cartridges : ChannelInv(d, rid)'
    <3> TAKE d \in Cartridges
    <3>1. rid \in Bodies(writerCh'[d]) => handler'[rid] = Process(d)'
      BY <2>1, <1>6 DEF Process
    <3>2. rid \in Resps(writerCh'[d]) => rid \in Resps(writerCh[d]) /\ Process(d)' = Process(d)
      BY <1>1, <1>7, <1>13
    <3> QED BY <3>1, <3>2, <1>2 DEF RequestInv, ChannelInv
  <2>9. LostInv(rid)'
    BY <1>8 DEF LostInv
  <2> QED BY <2>2, <2>3, <2>4, <2>5, <2>6, <2>7, <2>8, <2>9 DEF RequestInv
<1> QED BY <1>10, <1>11, <1>12, <1>14, <1>15 DEF LiveInv

LEMMA HandleReqStep ==
  ASSUME TypeOK, LiveInv, relayIn # <<>>, NEW f, f = Head(relayIn), relayIn' = Tail(relayIn),
         HandleReq(f),
         UNCHANGED <<events, relayUp, stopped, serving, complete, beats, deaths, requests, requester, early,
                     relayGot>>
  PROVE  TypeOK' /\ LiveInv'
<1> DEFINE c == FindCartridgeForCap(f.cap)
<1>1. c = None \/ c \in added
  BY FindIsAdded DEF LiveInv
<1>2. running \subseteq added /\ None \notin added /\ added \subseteq Cartridges
  BY DEF LiveInv, ProcessInv, TypeOK, None, Cartridges
<1>3. f.type = "REQ" /\ UNCHANGED <<added, stuck, outgoingRids, bodyEnded>>
  BY DEF HandleReq
<1>4. CASE (c = None \/ (c \notin running /\ c \in helloFailed)) /\ Refuse(f) /\ UNCHANGED helloFailed
  <2>1. helloFailed' \subseteq Cartridges
    BY <1>4 DEF TypeOK
  <2> QED BY <2>1, <1>3, <1>4, RefuseStep
<1>5. CASE /\ c # None /\ c \notin running \cup helloFailed
           /\ Refuse(f) /\ helloFailed' = helloFailed \cup {c}
  <2>1. helloFailed' \subseteq Cartridges
    BY <1>1, <1>2, <1>5 DEF TypeOK
  <2> QED BY <2>1, <1>3, <1>5, RefuseStep
<1>6. CASE c # None /\ c \notin running \cup helloFailed /\ Spawn(c) /\ Accept(c, f)
  <2>1. c \in added
    BY <1>1, <1>6
  <2> HIDE DEF c
  <2> QED BY <2>1, <1>3, <1>6, AcceptStep
<1>7. CASE /\ c \in running /\ Accept(c, f)
           /\ UNCHANGED <<running, capTable, capabilities, alive, incarnation>>
  <2>1. c \in added
    BY <1>2, <1>7
  <2> HIDE DEF c
  <2> QED BY <2>1, <1>3, <1>7, AcceptStep
<1> QED BY <1>4, <1>5, <1>6, <1>7 DEF HandleReq

\* A step that changes nothing but a writer's channel and what was read or
\* removed keeps the processes as they are.
LEMMA SameProcesses ==
  ASSUME TypeOK, ProcessInv, UNCHANGED <<added, running, capTable, alive, incarnation, events>>,
         \A d \in Cartridges : d \in running \/ writerCh'[d] = writerCh[d]
  PROVE  ProcessInv'
BY DEF ProcessInv

\* The frame belongs to the body of a request that is being received.
LEMMA ContinueIncoming ==
  ASSUME TypeOK, LiveInv, relayIn # <<>>, NEW f, f = Head(relayIn), relayIn' = Tail(relayIn),
         f.type \in {"BODY", "END", "ERR"}, f.rid \in DOMAIN incomingRxids,
         SendToCartridge(incomingRxids[f.rid], f),
         incomingRxids' = Without(incomingRxids, IF Terminal(f) THEN {f.rid} ELSE {}),
         bodyEnded' = IF f.role = "body"
                      THEN bodyEnded \cup (IF Terminal(f) THEN {f.rid} ELSE {}) ELSE bodyEnded,
         UNCHANGED <<tables, outgoingRids, relayOut, alive, incarnation, handler, events, relayUp,
                     stopped, serving, complete, beats, deaths, requests, requester, early, relayGot>>
  PROVE  TypeOK' /\ LiveInv'
<1> USE DEF tables, requests
<1> DEFINE rid == f.rid
           c == incomingRxids[rid]
           done == IF Terminal(f) THEN {rid} ELSE {}
<1>1. /\ f \in DownFrames /\ rid \in Rids /\ relayIn' \in Seq(DownFrames) /\ Orderly(relayIn')
      /\ Reqs(relayIn) = Reqs(relayIn') \cup ReqOf(f)
      /\ Bodies(relayIn) = Bodies(relayIn') \cup BodyOf(f)
      /\ Ends(relayIn) = Ends(relayIn') \cup EndOf(f)
      /\ Errs(relayIn) = Errs(relayIn') \cup ErrOf(f)
      /\ Resps(relayIn) = Resps(relayIn') \cup RespOf(f)
      /\ EndOf(f) \cap Ends(relayIn') = {}
  BY TakeQueue DEF LiveInv
<1>2. f \in ChannelFrames /\ c \in Cartridges
  BY <1>1 DEF ChannelFrames, TypeOK
<1>3. /\ RespOf(f) = IF f.role = "resp" THEN {rid} ELSE {}
      /\ BodyOf(f) \subseteq {rid} /\ done \subseteq {rid}
      /\ f.role = "body" /\ f.type = "END" => EndOf(f) = {rid}
      /\ f.role = "body" /\ f.type = "ERR" => ErrOf(f) = {rid}
  BY DEF RespOf, BodyOf, EndOf, ErrOf
<1>4. RequestInv(rid)
  BY <1>1 DEF LiveInv
<1>5. c \in running /\ handler[rid] = Process(c) /\ handler[rid] # Nobody
  BY <1>2, <1>4 DEF RequestInv, RouteInv, Process, Nobody, None, Cartridges
<1>6. /\ writerCh' \in [Cartridges -> Seq(ChannelFrames)]
      /\ \A d \in Cartridges :
           /\ d # c => writerCh'[d] = writerCh[d]
           /\ Bodies(writerCh'[d]) \subseteq Bodies(writerCh[d]) \cup (IF d = c THEN BodyOf(f) ELSE {})
           /\ Resps(writerCh'[d]) \subseteq Resps(writerCh[d]) \cup (IF d = c THEN RespOf(f) ELSE {})
  BY <1>2, SendQueue
<1> HIDE DEF done
<1>7. /\ DOMAIN incomingRxids' = DOMAIN incomingRxids \ done
      /\ \A r \in DOMAIN incomingRxids' : incomingRxids'[r] = incomingRxids[r]
  BY DEF Without, done
<1>8. bodyEnded' = IF f.role = "body" THEN bodyEnded \cup done ELSE bodyEnded
  BY DEF done
<1>9. TypeOK'
  <2>1. /\ IsFiniteSet(DOMAIN incomingRxids')
        /\ incomingRxids' \in [DOMAIN incomingRxids' -> Cartridges]
    <3>1. IsFiniteSet(DOMAIN incomingRxids) /\ incomingRxids \in [DOMAIN incomingRxids -> Cartridges]
      BY DEF TypeOK
    <3>2. IsFiniteSet(DOMAIN incomingRxids \ done)
      BY <3>1, FS_Difference
    <3> QED BY <3>1, <3>2, <1>7 DEF Without
  <2>2. bodyEnded' \subseteq Rids
    BY <1>1, <1>3, <1>8 DEF TypeOK
  <2> QED BY <2>1, <2>2, <1>1, <1>6, <1>7 DEF TypeOK
<1>10. ProcessInv'
  BY <1>5, <1>6, SameProcesses DEF LiveInv
<1>11. QueueInv'
  BY <1>1 DEF LiveInv, QueueInv
<1>12. ASSUME NEW r \in Rids, r # rid PROVE RequestInv(r)'
  <2>1. \A d \in Cartridges :
          /\ r \in Bodies(writerCh'[d]) => r \in Bodies(writerCh[d])
          /\ r \in Resps(writerCh'[d]) => r \in Resps(writerCh[d])
    BY <1>3, <1>6, <1>12
  <2>2. Undisturbed(r)
    BY <2>1, <1>1, <1>3, <1>7, <1>8, <1>12 DEF Undisturbed, Answered, Process
  <2> QED BY <2>2, UndisturbedStep DEF LiveInv
<1>13. RequestInv(rid)'
  \* The request is not settled, so a response is an early one.
  <2>1. rid \in PeerRids /\ f.role = "resp" => rid \in early
    BY <1>1, <1>3, <1>4 DEF RequestInv, RespInv, Settled
  <2>2. f.role = "resp" => rid \in PeerRids
    BY <1>1, DownFields
  <2>3. IdleInv(rid)' /\ ReqInv(rid)'
    BY <1>1, <1>4, <1>5 DEF RequestInv, IdleInv, ReqInv
  <2>4. EndInv(rid)'
    BY <1>1, <1>4 DEF RequestInv, EndInv, Process
  <2>5. Gone(rid) => Gone(rid)'
    BY DEF Gone
  <2>6. ErrInv(rid)'
    BY <2>5, <1>1, <1>4 DEF RequestInv, ErrInv
  <2>7. BodyEndInv(rid)'
    <3>1. SUFFICES ASSUME rid \in bodyEnded' PROVE BodyEndInv(rid)'
      BY DEF BodyEndInv
    <3>2. f.role = "body" /\ rid \in done
      BY <3>1, <1>4, <1>8 DEF RequestInv, BodyEndInv
    <3>3. rid \notin DOMAIN incomingRxids' /\ f.type \in {"END", "ERR"}
      BY <3>2, <1>7 DEF done, Terminal
    <3>4. CASE f.type = "END"
      <4>1. rid \in Ends(relayIn) /\ rid \notin Ends(relayIn')
        BY <3>2, <3>4, <1>1, <1>3
      <4>2. /\ phase[rid] = "closed" /\ rid \notin Ends(relayOut)
            /\ \A d \in Cartridges : rid \notin Ends(events[d])
        BY <4>1, <1>4 DEF RequestInv, EndInv
      <4> QED BY <4>1, <4>2, <3>3, <1>5 DEF BodyEndInv
    <3>5. CASE f.type = "ERR"
      <4>1. rid \in Errs(relayIn)
        BY <3>2, <3>5, <1>1, <1>3
      <4>2. rid \in PeerRids => Gone(rid)
        BY <4>1, <1>4 DEF RequestInv, ErrInv
      <4> QED BY <4>2, <2>5, <3>3, <1>5 DEF BodyEndInv
    <3> QED BY <3>3, <3>4, <3>5
  <2>8. RespInv(rid)'
    BY <1>1, <1>4 DEF RequestInv, RespInv, Settled
  <2>9. RouteInv(rid)'
    BY <1>4, <1>7 DEF RequestInv, RouteInv, Process
  <2>10. \A d \in Cartridges : ChannelInv(d, rid)'
    <3> TAKE d \in Cartridges
    <3>1. rid \in Bodies(writerCh'[d]) => handler[rid] = Process(d)
      BY <1>4, <1>5, <1>6 DEF RequestInv, ChannelInv
    <3>2. rid \in Resps(writerCh'[d]) => rid \in Resps(writerCh[d]) \/ rid \in early
      BY <2>1, <2>2, <1>3, <1>6
    <3> QED BY <3>1, <3>2, <1>4 DEF RequestInv, ChannelInv, Process
  <2>11. LostInv(rid)'
    <3>1. rid \in EngineRids => f.role = "body"
      BY <2>2, <1>1, DownFields, HostAssumption
    <3> QED BY <3>1, <1>7, <1>8 DEF LostInv
  <2> QED BY <2>3, <2>4, <2>6, <2>7, <2>8, <2>9, <2>10, <2>11 DEF RequestInv
<1> QED BY <1>9, <1>10, <1>11, <1>12, <1>13 DEF LiveInv

\* The frame is for the issuer of a peer request.
LEMMA ContinueOutgoing ==
  ASSUME TypeOK, LiveInv, relayIn # <<>>, NEW f, f = Head(relayIn), relayIn' = Tail(relayIn),
         f.type # "REQ", f.rid \in DOMAIN outgoingRids,
         f.type = "LOG" \/ f.rid \notin DOMAIN incomingRxids,
         SendToCartridge(outgoingRids[f.rid], f),
         outgoingRids' = outgoingRids \/ outgoingRids' = Without(outgoingRids, {f.rid}),
         UNCHANGED <<tables, incomingRxids, relayOut, alive, incarnation, handler, bodyEnded, events,
                     relayUp, stopped, serving, complete, beats, deaths, requests, requester, early, relayGot>>
  PROVE  TypeOK' /\ LiveInv'
<1> USE DEF tables, requests
<1> DEFINE rid == f.rid
           c == outgoingRids[rid]
<1>1. /\ f \in DownFrames /\ rid \in Rids /\ relayIn' \in Seq(DownFrames) /\ Orderly(relayIn')
      /\ Reqs(relayIn) = Reqs(relayIn') \cup ReqOf(f)
      /\ Bodies(relayIn) = Bodies(relayIn') \cup BodyOf(f)
      /\ Ends(relayIn) = Ends(relayIn') \cup EndOf(f)
      /\ Errs(relayIn) = Errs(relayIn') \cup ErrOf(f)
      /\ Resps(relayIn) = Resps(relayIn') \cup RespOf(f)
      /\ BodyOf(f) \cap Reqs(relayIn') = {}
  BY TakeQueue DEF LiveInv
<1>2. f \in ChannelFrames /\ c \in Cartridges
  BY <1>1 DEF ChannelFrames, TypeOK
<1>3. /\ BodyOf(f) \subseteq {rid} /\ RespOf(f) \subseteq {rid}
      /\ rid \in BodyOf(f) => f.role = "body"
      /\ f.role = "body" /\ f.type = "END" => EndOf(f) = {rid}
      /\ f.role = "body" /\ f.type = "ERR" => ErrOf(f) = {rid}
  BY DEF RespOf, BodyOf, EndOf, ErrOf
<1>4. RequestInv(rid)
  BY <1>1 DEF LiveInv
<1>5. rid \in PeerRids /\ c \in running /\ requester[rid] = Process(c) /\ requester[rid] # Nobody
  BY <1>2, <1>4 DEF RequestInv, RouteInv, Process, Nobody, None, Cartridges
<1>6. /\ writerCh' \in [Cartridges -> Seq(ChannelFrames)]
      /\ \A d \in Cartridges :
           /\ d # c => writerCh'[d] = writerCh[d]
           /\ Bodies(writerCh'[d]) \subseteq Bodies(writerCh[d]) \cup (IF d = c THEN BodyOf(f) ELSE {})
           /\ Resps(writerCh'[d]) \subseteq Resps(writerCh[d]) \cup (IF d = c THEN RespOf(f) ELSE {})
  BY <1>2, SendQueue
<1>7. /\ DOMAIN outgoingRids' \subseteq DOMAIN outgoingRids
      /\ DOMAIN outgoingRids \subseteq DOMAIN outgoingRids' \cup {rid}
      /\ \A r \in DOMAIN outgoingRids' : outgoingRids'[r] = outgoingRids[r]
      /\ IsFiniteSet(DOMAIN outgoingRids') /\ outgoingRids' \in [DOMAIN outgoingRids' -> Cartridges]
  <2>1. IsFiniteSet(DOMAIN outgoingRids) /\ outgoingRids \in [DOMAIN outgoingRids -> Cartridges]
    BY DEF TypeOK
  <2>2. IsFiniteSet(DOMAIN outgoingRids \ {rid})
    BY <2>1, FS_Difference
  <2> QED BY <2>1, <2>2 DEF Without
<1>8. TypeOK'
  BY <1>1, <1>6, <1>7 DEF TypeOK
<1>9. ProcessInv'
  BY <1>5, <1>6, SameProcesses DEF LiveInv
<1>10. QueueInv'
  BY <1>1 DEF LiveInv, QueueInv
<1>11. ASSUME NEW r \in Rids, r # rid PROVE RequestInv(r)'
  <2>1. \A d \in Cartridges :
          /\ r \in Bodies(writerCh'[d]) => r \in Bodies(writerCh[d])
          /\ r \in Resps(writerCh'[d]) => r \in Resps(writerCh[d])
    BY <1>3, <1>6, <1>11
  <2>2. Undisturbed(r)
    BY <2>1, <1>1, <1>7, <1>11 DEF Undisturbed, Answered, Process
  <2> QED BY <2>2, UndisturbedStep DEF LiveInv
<1>12. RequestInv(rid)'
  <2>1. ~Gone(rid)
    BY DEF Gone
  <2>2. rid \in BodyOf(f) => rid \in Bodies(relayIn) /\ rid \notin Reqs(relayIn')
    BY <1>1
  <2>3. IdleInv(rid)'
    BY <2>2, <1>1, <1>4, <1>5, <1>6 DEF RequestInv, IdleInv
  <2>4. ReqInv(rid)'
    BY <2>2, <1>1, <1>4, <1>6, <1>7 DEF RequestInv, ReqInv
  <2>5. EndInv(rid)'
    BY <1>1, <1>4 DEF RequestInv, EndInv, Process
  <2>6. ErrInv(rid)'
    BY <2>1, <1>1, <1>4, <1>5 DEF RequestInv, ErrInv
  <2>7. BodyEndInv(rid)'
    BY <2>1, <1>1, <1>4 DEF RequestInv, BodyEndInv
  <2>8. RespInv(rid)'
    BY <1>1, <1>4 DEF RequestInv, RespInv, Settled
  <2>9. RouteInv(rid)'
    BY <1>4, <1>7 DEF RequestInv, RouteInv, Process
  \* No part of a body is left that could be taken for a response.
  <2>10. rid \in BodyOf(f) => rid \notin bodyEnded \cup EngineRids \cup DOMAIN incomingRxids
    <3>1. SUFFICES ASSUME rid \in BodyOf(f) PROVE rid \notin bodyEnded \cup EngineRids \cup DOMAIN incomingRxids
      OBVIOUS
    <3>2. f.role = "body" /\ f.type \in {"END", "ERR"}
      BY <3>1, <1>1, <1>3, <1>5, DownFields
    <3>3. rid \notin EngineRids /\ rid \notin DOMAIN incomingRxids
      BY <3>2, <1>5, HostAssumption
    <3>4. rid \in Errs(relayIn) \/ rid \in Ends(relayIn)
      BY <3>2, <1>1, <1>3
    <3>5. rid \notin Errs(relayIn)
      BY <2>1, <1>4, <1>5 DEF RequestInv, ErrInv
    <3>6. rid \notin bodyEnded
      BY <2>1, <3>4, <3>5, <1>4, <1>5 DEF RequestInv, BodyEndInv
    <3> QED BY <3>3, <3>6
  <2>11. \A d \in Cartridges : ChannelInv(d, rid)'
    <3> TAKE d \in Cartridges
    <3>1. rid \in Bodies(writerCh'[d]) => rid \in Bodies(writerCh[d]) \/ rid \in BodyOf(f)
      BY <1>6
    <3>2. rid \in Resps(writerCh'[d]) => rid \in Resps(writerCh[d]) \/ d = c
      BY <1>6
    <3> QED BY <2>10, <3>1, <3>2, <1>4, <1>5 DEF RequestInv, ChannelInv, Process
  <2>12. LostInv(rid)'
    BY <1>5, HostAssumption DEF LostInv
  <2> QED BY <2>3, <2>4, <2>5, <2>6, <2>7, <2>8, <2>9, <2>11, <2>12 DEF RequestInv
<1> QED BY <1>8, <1>9, <1>10, <1>11, <1>12 DEF LiveInv

\* A frame without a route is lost.
LEMMA LoseStep ==
  ASSUME TypeOK, LiveInv, relayIn # <<>>, relayIn' = Tail(relayIn),
         UNCHANGED <<tables, routes, relayOut, writerCh, alive, incarnation, handler, bodyEnded, events,
                     relayUp, stopped, serving, complete, beats, deaths, requests, requester, early, relayGot>>
  PROVE  TypeOK' /\ LiveInv'
<1> USE DEF tables, routes, requests
<1> DEFINE f == Head(relayIn)
<1>1. /\ relayIn' \in Seq(DownFrames) /\ Orderly(relayIn')
      /\ Reqs(relayIn) = Reqs(relayIn') \cup ReqOf(f)
      /\ Bodies(relayIn) = Bodies(relayIn') \cup BodyOf(f)
      /\ Ends(relayIn) = Ends(relayIn') \cup EndOf(f)
      /\ Errs(relayIn) = Errs(relayIn') \cup ErrOf(f)
      /\ Resps(relayIn) = Resps(relayIn') \cup RespOf(f)
  BY TakeQueue DEF LiveInv
<1> HIDE DEF f
<1>2. TypeOK'
  BY <1>1 DEF TypeOK
<1>3. ProcessInv'
  BY SameProcesses DEF LiveInv
<1>4. QueueInv'
  BY <1>1 DEF LiveInv, QueueInv
<1>5. ASSUME NEW r \in Rids PROVE RequestInv(r)'
  <2>1. Undisturbed(r)
    BY <1>1 DEF Undisturbed, Answered, Process
  <2> QED BY <2>1, UndisturbedStep DEF LiveInv
<1> QED BY <1>2, <1>3, <1>4, <1>5 DEF LiveInv

LEMMA HandleContinuationStep ==
  ASSUME TypeOK, LiveInv, relayIn # <<>>, NEW f, f = Head(relayIn), relayIn' = Tail(relayIn),
         HandleContinuation(f),
         UNCHANGED <<events, relayUp, stopped, serving, complete, beats, deaths, requests, requester, early,
                     relayGot>>
  PROVE  TypeOK' /\ LiveInv'
<1> DEFINE done == IF Terminal(f) THEN {f.rid} ELSE {}
<1>1. /\ f.type \in {"BODY", "END", "ERR"}
      /\ UNCHANGED <<tables, relayOut, alive, incarnation, handler>>
  BY DEF HandleContinuation
<1>2. CASE /\ f.rid \in DOMAIN incomingRxids /\ SendToCartridge(incomingRxids[f.rid], f)
           /\ incomingRxids' = Without(incomingRxids, done)
           /\ bodyEnded' = IF f.role = "body" THEN bodyEnded \cup done ELSE bodyEnded
           /\ UNCHANGED outgoingRids
  BY <1>1, <1>2, ContinueIncoming
<1>3. CASE /\ f.rid \notin DOMAIN incomingRxids /\ f.rid \in DOMAIN outgoingRids
           /\ SendToCartridge(outgoingRids[f.rid], f)
           /\ outgoingRids' = Without(outgoingRids, done)
           /\ UNCHANGED <<incomingRxids, bodyEnded>>
  <2>1. outgoingRids' = outgoingRids \/ outgoingRids' = Without(outgoingRids, {f.rid})
    <3>1. outgoingRids \in [DOMAIN outgoingRids -> Cartridges]
      BY DEF TypeOK
    <3>2. Without(outgoingRids, {}) = outgoingRids
      BY <3>1 DEF Without
    <3> QED BY <3>2, <1>3
  <2> QED BY <2>1, <1>1, <1>3, ContinueOutgoing
<1>4. CASE UNCHANGED <<routes, writerCh, dropped, bodyEnded>>
  BY <1>1, <1>4, LoseStep
<1> QED BY <1>2, <1>3, <1>4 DEF HandleContinuation

LEMMA HandleLogStep ==
  ASSUME TypeOK, LiveInv, relayIn # <<>>, NEW f, f = Head(relayIn), relayIn' = Tail(relayIn),
         HandleLog(f),
         UNCHANGED <<events, relayUp, stopped, serving, complete, beats, deaths, requests, requester, early,
                     relayGot>>
  PROVE  TypeOK' /\ LiveInv'
<1>1. /\ f.type = "LOG"
      /\ UNCHANGED <<tables, routes, relayOut, alive, incarnation, handler, bodyEnded>>
  BY DEF HandleLog
<1>2. CASE f.rid \in DOMAIN outgoingRids /\ SendToCartridge(outgoingRids[f.rid], f)
  BY <1>1, <1>2, ContinueOutgoing DEF routes
<1>3. CASE UNCHANGED <<writerCh, dropped>>
  BY <1>1, <1>3, LoseStep
<1> QED BY <1>2, <1>3 DEF HandleLog

\* Run returns.
LEMMA KillAllStep ==
  ASSUME TypeOK, KillAll, relayIn' \in Seq(DownFrames)
  PROVE  TypeOK' /\ stopped' /\ alive' = {} /\ writerCh' = [c \in Cartridges |-> <<>>]
BY DEF KillAll, TypeOK, routes, processes, requests, history

LEMMA HostReadsRelayStep ==
  ASSUME TypeOK, LiveInv, HostReadsRelay
  PROVE  /\ TypeOK'
         /\ IF stopped' THEN alive' = {} /\ writerCh' = [c \in Cartridges |-> <<>>] ELSE LiveInv'
<1> DEFINE f == Head(relayIn)
<1>1. ~stopped /\ relayIn # <<>> /\ relayIn' = Tail(relayIn)
  BY DEF HostReadsRelay
<1>2. relayIn' \in Seq(DownFrames)
  BY <1>1, TakeQueue DEF LiveInv
<1>3. CASE KillAll
  BY <1>2, <1>3, KillAllStep
<1>4. CASE /\ HandleReq(f) \/ HandleContinuation(f) \/ HandleLog(f)
           /\ UNCHANGED <<events, relayUp, stopped, serving, complete, beats, deaths, requests,
                          requester, early, relayGot>>
  <2>1. TypeOK' /\ LiveInv'
    BY <1>1, <1>4, HandleReqStep, HandleContinuationStep, HandleLogStep
  <2> QED BY <2>1, <1>1, <1>4
<1> QED BY <1>3, <1>4 DEF HostReadsRelay

LEMMA HostSeesRelayCloseStep ==
  ASSUME TypeOK, HostSeesRelayClose
  PROVE  TypeOK' /\ stopped' /\ alive' = {} /\ writerCh' = [c \in Cartridges |-> <<>>]
<1>1. relayIn' \in Seq(DownFrames)
  BY DEF HostSeesRelayClose, TypeOK
<1> QED BY <1>1, KillAllStep DEF HostSeesRelayClose

-----------------------------------------------------------------------------
(***************************************************************************)
(* Events of the cartridges                                                *)
(***************************************************************************)

\* The process of a cartridge sends no ERR as a part of a body.
LEMMA EventBodies ==
  ASSUME NEW f \in EventFrames, f.type \in {"BODY", "END", "ERR", "LOG"}, f.role = "body"
  PROVE  f.type = "END" /\ f.rid \in PeerRids
<1>1. CASE f \in ReqFrames(PeerRids)
  BY <1>1 DEF ReqFrames
<1>2. CASE f \in Frames({"END"}, PeerRids, "body")
  BY <1>2 DEF Frames
<1>3. CASE f \in Frames(Responses, Rids, "resp")
  BY <1>3 DEF Frames
<1>4. CASE f \in Beats
  BY <1>4 DEF Beats, Frames
<1>5. CASE f \in [type : {"DEATH"}]
  BY <1>5
<1> QED BY <1>1, <1>2, <1>3, <1>4, <1>5 DEF EventFrames

\* The host takes an event of a cartridge: its process is the running one.
LEMMA EventQueue ==
  ASSUME TypeOK, LiveInv, NEW c \in Cartridges, events[c] # <<>>,
         events' = [events EXCEPT ![c] = Tail(@)]
  PROVE  LET f == Head(events[c])
         IN /\ f \in EventFrames /\ events' \in [Cartridges -> Seq(EventFrames)] /\ c \in running
            /\ \A d \in Cartridges : Orderly(events'[d]) /\ (d # c => events'[d] = events[d])
            /\ Reqs(events[c]) = Reqs(events'[c]) \cup ReqOf(f)
            /\ Bodies(events[c]) = Bodies(events'[c]) \cup BodyOf(f)
            /\ Ends(events[c]) = Ends(events'[c]) \cup EndOf(f)
            /\ Resps(events[c]) = Resps(events'[c]) \cup RespOf(f)
            /\ BodyOf(f) \cap Reqs(events'[c]) = {} /\ EndOf(f) \cap Ends(events'[c]) = {}
            /\ f.type = "DEATH" => events'[c] = <<>> /\ c \notin alive
            /\ \A i \in DOMAIN events'[c] :
                 events'[c][i].type = "DEATH" => i = Len(events'[c]) /\ c \notin alive
<1> DEFINE q == events[c]
           f == Head(q)
<1>1. q \in Seq(EventFrames) /\ q # <<>> /\ events'[c] = Tail(q)
  BY DEF TypeOK
<1>2. Orderly(q) /\ \A i \in DOMAIN q : q[i].type = "DEATH" => i = Len(q) /\ c \notin alive
  BY DEF LiveInv, QueueInv, ProcessInv
<1>3. \A d \in Cartridges : d # c => events'[d] = events[d] /\ Orderly(events[d])
  BY DEF LiveInv, QueueInv, TypeOK
<1>4. c \in running
  BY DEF LiveInv, ProcessInv
<1>5. events \in [Cartridges -> Seq(EventFrames)]
  BY DEF TypeOK
<1> HIDE DEF q
<1>6. /\ f \in EventFrames /\ Tail(q) \in Seq(EventFrames) /\ Len(Tail(q)) = Len(q) - 1
      /\ \A i \in DOMAIN Tail(q) : i + 1 \in DOMAIN q /\ Tail(q)[i] = q[i + 1]
      /\ Reqs(q) = Reqs(Tail(q)) \cup ReqOf(f)
      /\ Bodies(q) = Bodies(Tail(q)) \cup BodyOf(f)
      /\ Ends(q) = Ends(Tail(q)) \cup EndOf(f)
      /\ Resps(q) = Resps(Tail(q)) \cup RespOf(f)
      /\ Orderly(Tail(q)) /\ BodyOf(f) \cap Reqs(Tail(q)) = {} /\ EndOf(f) \cap Ends(Tail(q)) = {}
  BY <1>1, <1>2, TailQueue
<1>7. f.type = "DEATH" => Tail(q) = <<>> /\ c \notin alive
  <2>1. 1 \in DOMAIN q /\ f = q[1] /\ Len(q) \in Nat
    BY <1>1
  <2>2. f.type = "DEATH" => Len(q) = 1 /\ c \notin alive
    BY <2>1, <1>2
  <2>3. Len(q) = 1 => Tail(q) = <<>>
    <3> DEFINE t == Tail(q)
    <3>1. t \in Seq(EventFrames) /\ Len(t) = Len(q) - 1
      BY <1>6
    <3> HIDE DEF t
    <3>2. Len(t) = 0 => t = <<>>
      BY <3>1
    <3> QED BY <2>1, <3>1, <3>2 DEF t
  <2> QED BY <2>2, <2>3
<1>8. \A i \in DOMAIN Tail(q) : Tail(q)[i].type = "DEATH" => i = Len(Tail(q)) /\ c \notin alive
  <2> TAKE i \in DOMAIN Tail(q)
  <2>1. i \in Nat /\ Len(q) \in Nat
    BY <1>1, <1>6
  <2>2. i + 1 \in DOMAIN q /\ Tail(q)[i] = q[i + 1] /\ Len(Tail(q)) = Len(q) - 1
    BY <1>6
  <2>3. Tail(q)[i].type = "DEATH" => i + 1 = Len(q) /\ c \notin alive
    BY <2>2, <1>2
  <2> QED BY <2>1, <2>2, <2>3
<1>9. events' \in [Cartridges -> Seq(EventFrames)]
  BY <1>1, <1>3, <1>5, <1>6
<1> QED BY <1>1, <1>3, <1>4, <1>6, <1>7, <1>8, <1>9 DEF q

\* SetToSeqs lists every element of a finite set.
LEMMA ListsAll ==
  ASSUME NEW T, IsFiniteSet(T), NEW s \in SetToSeqs(T)
  PROVE  \E n \in Nat : s \in [1..n -> T] /\ \A t \in T : \E i \in 1..n : s[i] = t
<1>1. PICK n \in Nat : n = Cardinality(T)
  BY FS_CardinalityType
<1>2. s \in Injection(1..n, T)
  BY <1>1 DEF SetToSeqs, Injection, IsInjective
<1>3. Cardinality(1..n) = n
  <2>1. 1 \in Int /\ n \in Int
    BY <1>1
  <2>2. Cardinality(1..n) = IF 1 > n THEN 0 ELSE n - 1 + 1
    BY <2>1, FS_Interval
  <2> QED BY <2>2, <1>1
<1>4. s \in Surjection(1..n, T)
  BY <1>1, <1>2, <1>3, FS_Injection
<1> QED BY <1>4 DEF Surjection

\* The answers that the host sends in the place of a lost process: one for each
\* request.
LEMMA AnswersQueue ==
  ASSUME NEW T, IsFiniteSet(T), T \subseteq Rids, NEW s \in SetToSeqs(T)
  PROVE  LET q == [i \in DOMAIN s |-> HostErr(s[i], TRUE, "resp")]
         IN /\ q \in Seq(UpFrames) /\ Reqs(q) = {} /\ Ends(q) = {} /\ Bodies(q) = {}
            /\ Errs(q) = {} /\ Resps(q) = T /\ Lasts(q) = T
<1> DEFINE q == [i \in DOMAIN s |-> HostErr(s[i], TRUE, "resp")]
<1>1. PICK n \in Nat : s \in [1..n -> T] /\ \A t \in T : \E i \in 1..n : s[i] = t
  BY ListsAll
<1>2. \A t \in T : LET e == HostErr(t, TRUE, "resp")
                  IN e \in UpFrames /\ e.type = "ERR" /\ e.role = "resp" /\ e.rid = t
  BY HostAssumption DEF HostErr, Frame, UpFrames, Frames, Responses, Rids
<1>3. /\ q \in [1..n -> UpFrames]
      /\ \A i \in 1..n : s[i] \in T /\ q[i].type = "ERR" /\ q[i].role = "resp" /\ q[i].rid = s[i]
  BY <1>1, <1>2
<1> HIDE DEF q
<1>4. q \in Seq(UpFrames) /\ DOMAIN q = 1..n
  BY <1>1, <1>3
<1>5. \A i \in 1..n :
        /\ ReqOf(q[i]) = {} /\ EndOf(q[i]) = {}
        /\ BodyOf(q[i]) = {} /\ ErrOf(q[i]) = {}
        /\ RespOf(q[i]) = {s[i]} /\ LastOf(q[i]) = {s[i]}
  BY <1>3 DEF ReqOf, EndOf, BodyOf, ErrOf, RespOf, LastOf
<1>6. Reqs(q) = {} /\ Ends(q) = {}
  BY <1>4, <1>5 DEF Reqs, Ends
<1>7. Bodies(q) = {} /\ Errs(q) = {}
  BY <1>1, <1>3, <1>4, <1>5 DEF Bodies, Errs
<1>8. Resps(q) = T /\ Lasts(q) = T
  BY <1>1, <1>3, <1>4, <1>5 DEF Resps, Lasts
<1> QED BY <1>4, <1>6, <1>7, <1>8 DEF q

\* The bodies that the host breaks off for a lost process.
LEMMA BreaksQueue ==
  ASSUME NEW T, IsFiniteSet(T), T \subseteq PeerRids, NEW s \in SetToSeqs(T)
  PROVE  LET q == [i \in DOMAIN s |-> HostErr(s[i], FALSE, "body")]
         IN /\ q \in Seq(UpFrames) /\ Reqs(q) = {} /\ Ends(q) = {} /\ Bodies(q) = T
            /\ Errs(q) = T /\ Resps(q) = {} /\ Lasts(q) = {}
<1> DEFINE q == [i \in DOMAIN s |-> HostErr(s[i], FALSE, "body")]
<1>1. PICK n \in Nat : s \in [1..n -> T] /\ \A t \in T : \E i \in 1..n : s[i] = t
  BY ListsAll
<1>2. \A t \in T : LET e == HostErr(t, FALSE, "body")
                  IN e \in UpFrames /\ e.type = "ERR" /\ e.role = "body" /\ e.rid = t
  BY HostAssumption DEF HostErr, Frame, UpFrames, Frames, Responses, Rids
<1>3. /\ q \in [1..n -> UpFrames]
      /\ \A i \in 1..n : s[i] \in T /\ q[i].type = "ERR" /\ q[i].role = "body" /\ q[i].rid = s[i]
  BY <1>1, <1>2
<1> HIDE DEF q
<1>4. q \in Seq(UpFrames) /\ DOMAIN q = 1..n
  BY <1>1, <1>3
<1>5. \A i \in 1..n :
        /\ ReqOf(q[i]) = {} /\ EndOf(q[i]) = {}
        /\ BodyOf(q[i]) = {s[i]} /\ ErrOf(q[i]) = {s[i]}
        /\ RespOf(q[i]) = {} /\ LastOf(q[i]) = {}
  BY <1>3 DEF ReqOf, EndOf, BodyOf, ErrOf, RespOf, LastOf
<1>6. Reqs(q) = {} /\ Ends(q) = {}
  BY <1>4, <1>5 DEF Reqs, Ends
<1>7. Bodies(q) = T /\ Errs(q) = T
  BY <1>1, <1>3, <1>4, <1>5 DEF Bodies, Errs
<1>8. Resps(q) = {} /\ Lasts(q) = {}
  BY <1>1, <1>3, <1>4, <1>5 DEF Resps, Lasts
<1> QED BY <1>4, <1>6, <1>7, <1>8 DEF q

\* The host answers a heartbeat.
LEMMA HeartbeatStep ==
  ASSUME TypeOK, LiveInv, NEW c \in Cartridges, events[c] # <<>>,
         events' = [events EXCEPT ![c] = Tail(@)],
         NEW f, f = Head(events[c]), f.type = "HEARTBEAT", SendToCartridge(c, f),
         UNCHANGED <<tables, routes, relayIn, relayOut, relayUp, stopped, processes, requests, handler,
                     requester, bodyEnded, early, relayGot>>
  PROVE  TypeOK' /\ LiveInv'
<1> USE DEF tables, routes, processes, requests
<1>1. /\ f \in EventFrames /\ events' \in [Cartridges -> Seq(EventFrames)] /\ c \in running
      /\ \A d \in Cartridges : Orderly(events'[d]) /\ (d # c => events'[d] = events[d])
      /\ Reqs(events[c]) = Reqs(events'[c]) \cup ReqOf(f)
      /\ Bodies(events[c]) = Bodies(events'[c]) \cup BodyOf(f)
      /\ Ends(events[c]) = Ends(events'[c]) \cup EndOf(f)
      /\ Resps(events[c]) = Resps(events'[c]) \cup RespOf(f)
      /\ \A i \in DOMAIN events'[c] :
           events'[c][i].type = "DEATH" => i = Len(events'[c]) /\ c \notin alive
  BY EventQueue
<1>2. f \in ChannelFrames /\ f.rid = "beat" /\ f.role = "body"
  BY <1>1, EventFields DEF ChannelFrames
<1>3. BodyOf(f) = {"beat"} /\ RespOf(f) = {}
  BY <1>2 DEF BodyOf, RespOf
<1>4. /\ writerCh' \in [Cartridges -> Seq(ChannelFrames)]
      /\ \A d \in Cartridges :
           /\ d # c => writerCh'[d] = writerCh[d]
           /\ Bodies(writerCh'[d]) \subseteq Bodies(writerCh[d]) \cup {"beat"}
           /\ Resps(writerCh'[d]) \subseteq Resps(writerCh[d])
  BY <1>2, <1>3, SendQueue
<1>5. TypeOK'
  BY <1>1, <1>4 DEF TypeOK
<1>6. ProcessInv'
  BY <1>1, <1>4 DEF LiveInv, ProcessInv
<1>7. QueueInv'
  BY <1>1 DEF LiveInv, QueueInv
<1>8. ASSUME NEW r \in Rids PROVE RequestInv(r)'
  <2>1. r # "beat"
    BY HostAssumption
  <2>2. \A d \in Cartridges :
          /\ r \in Bodies(writerCh'[d]) => r \in Bodies(writerCh[d])
          /\ r \in Resps(writerCh'[d]) => r \in Resps(writerCh[d])
    BY <2>1, <1>4
  <2>3. \A d \in Cartridges :
          /\ r \in Reqs(events'[d]) => r \in Reqs(events[d])
          /\ r \in Ends(events'[d]) => r \in Ends(events[d])
          /\ r \in Resps(events'[d]) => r \in Resps(events[d])
          /\ r \in Bodies(events'[d]) => r \in Bodies(events[d])
    BY <1>1
  <2>4. Undisturbed(r)
    BY <2>2, <2>3 DEF Undisturbed, Process, Answered
  <2> QED BY <2>4, UndisturbedStep DEF LiveInv
<1> QED BY <1>5, <1>6, <1>7, <1>8 DEF LiveInv

\* The host passes a peer request on and remembers who issued it.
LEMMA PeerRequestStep ==
  ASSUME TypeOK, LiveInv, NEW c \in Cartridges, events[c] # <<>>,
         events' = [events EXCEPT ![c] = Tail(@)],
         NEW f, f = Head(events[c]), f.type = "REQ",
         outgoingRids' = With(outgoingRids, f.rid, c), relayOut' = Append(relayOut, f),
         UNCHANGED <<tables, incomingRxids, writerCh, dropped, relayIn, relayUp, stopped, processes,
                     requests, handler, requester, bodyEnded, early, relayGot>>
  PROVE  TypeOK' /\ LiveInv'
<1> USE DEF tables, processes, requests
<1> DEFINE rid == f.rid
<1>1. /\ f \in EventFrames /\ events' \in [Cartridges -> Seq(EventFrames)] /\ c \in running
      /\ \A d \in Cartridges : Orderly(events'[d]) /\ (d # c => events'[d] = events[d])
      /\ Reqs(events[c]) = Reqs(events'[c]) \cup ReqOf(f)
      /\ Bodies(events[c]) = Bodies(events'[c]) \cup BodyOf(f)
      /\ Ends(events[c]) = Ends(events'[c]) \cup EndOf(f)
      /\ Resps(events[c]) = Resps(events'[c]) \cup RespOf(f)
      /\ BodyOf(f) \cap Reqs(events'[c]) = {}
      /\ \A i \in DOMAIN events'[c] :
           events'[c][i].type = "DEATH" => i = Len(events'[c]) /\ c \notin alive
  BY EventQueue
<1>2. f \in UpFrames /\ f.role = "body" /\ rid \in Rids /\ rid \in PeerRids
  BY <1>1, EventFields, UpFields
<1>3. /\ ReqOf(f) = {rid} /\ BodyOf(f) = {rid} /\ EndOf(f) = {} /\ ErrOf(f) = {} /\ RespOf(f) = {}
      /\ LastOf(f) = {}
  BY <1>2 DEF ReqOf, BodyOf, EndOf, ErrOf, RespOf, LastOf
<1>4. RequestInv(rid)
  BY <1>2 DEF LiveInv
<1>5. rid \in Reqs(events[c]) /\ rid \in Bodies(events[c]) /\ rid \notin Reqs(events'[c])
  BY <1>1, <1>3
<1>6. rid \notin DOMAIN outgoingRids /\ rid \notin Bodies(relayOut) /\ place[rid] = "none"
  BY <1>2, <1>4, <1>5 DEF RequestInv, ReqInv
<1>7. requester[rid] = Process(c) /\ requester[rid] # Nobody
  BY <1>4, <1>5 DEF RequestInv, EndInv, Process, Nobody, None, Cartridges
<1>8. phase[rid] # "idle" /\ handler[rid] = Nobody
  BY <1>2, <1>4, <1>6, <1>7 DEF RequestInv, IdleInv
<1>9. \A d \in Cartridges : rid \notin Reqs(events'[d])
  <2> SUFFICES ASSUME NEW d \in Cartridges, d # c, rid \in Reqs(events[d]) PROVE FALSE
    BY <1>1, <1>5
  <2>1. rid \in Bodies(events[d])
    BY QueuedReqs
  <2>2. requester[rid] = Process(d)
    BY <2>1, <1>4 DEF RequestInv, EndInv
  <2> QED BY <2>2, <1>7 DEF Process
<1>10. /\ relayOut' \in Seq(UpFrames) /\ (Orderly(relayOut) => Orderly(relayOut'))
       /\ Reqs(relayOut') = Reqs(relayOut) \cup {rid} /\ Bodies(relayOut') = Bodies(relayOut) \cup {rid}
       /\ Ends(relayOut') = Ends(relayOut) /\ Errs(relayOut') = Errs(relayOut)
       /\ Resps(relayOut') = Resps(relayOut) /\ Lasts(relayOut') = Lasts(relayOut)
  <2>1. ReqOf(f) \cap Bodies(relayOut) = {} /\ EndOf(f) \cap Ends(relayOut) = {}
    BY <1>3, <1>6
  <2> QED BY <2>1, <1>2, <1>3, PostQueue
<1>11. /\ DOMAIN outgoingRids' = DOMAIN outgoingRids \cup {rid} /\ outgoingRids'[rid] = c
       /\ outgoingRids' \in [DOMAIN outgoingRids' -> Cartridges]
       /\ IsFiniteSet(DOMAIN outgoingRids')
       /\ \A r \in DOMAIN outgoingRids : r # rid => outgoingRids'[r] = outgoingRids[r]
  <2>1. DOMAIN outgoingRids' = DOMAIN outgoingRids \cup {rid}
    BY DEF With
  <2>2. outgoingRids \in [DOMAIN outgoingRids -> Cartridges] /\ IsFiniteSet(DOMAIN outgoingRids)
    BY DEF TypeOK
  <2>3. IsFiniteSet(DOMAIN outgoingRids \cup {rid})
    BY <2>2, FS_AddElement
  <2> QED BY <2>1, <2>2, <2>3 DEF With
<1>12. TypeOK'
  BY <1>1, <1>2, <1>10, <1>11 DEF TypeOK
<1>13. ProcessInv'
  BY <1>1 DEF LiveInv, ProcessInv
<1>14. QueueInv'
  BY <1>1, <1>10 DEF LiveInv, QueueInv
<1>15. \A d \in Cartridges :
         /\ Reqs(events'[d]) \subseteq Reqs(events[d]) /\ Ends(events'[d]) \subseteq Ends(events[d])
         /\ Resps(events'[d]) \subseteq Resps(events[d])
         /\ Bodies(events'[d]) \subseteq Bodies(events[d])
  BY <1>1
<1>16. ASSUME NEW r \in Rids, r # rid PROVE RequestInv(r)'
  <2>1. Undisturbed(r)
    BY <1>10, <1>11, <1>15, <1>16 DEF Undisturbed, Process, Answered
  <2> QED BY <2>1, UndisturbedStep DEF LiveInv
<1>17. RequestInv(rid)'
  <2>1. ~Gone(rid) /\ ~Settled(rid)
    BY <1>5 DEF Gone, Settled
  <2>2. IdleInv(rid)' /\ ReqInv(rid)'
    BY <1>4, <1>6, <1>8, <1>9 DEF RequestInv, IdleInv, ReqInv
  <2>3. EndInv(rid)'
    BY <1>4, <1>10, <1>15 DEF RequestInv, EndInv, Process
  <2>4. rid \notin bodyEnded
    BY <1>4, <1>8 DEF RequestInv, BodyEndInv
  <2>5. ErrInv(rid)' /\ BodyEndInv(rid)'
    BY <2>1, <2>4, <1>2, <1>4, <1>10 DEF RequestInv, ErrInv, BodyEndInv
  <2>6. RespInv(rid)'
    BY <2>1, <1>4, <1>10, <1>15 DEF RequestInv, RespInv
  <2>7. RouteInv(rid)'
    BY <1>1, <1>2, <1>4, <1>7, <1>11 DEF RequestInv, RouteInv, Process
  <2>8. LostInv(rid)' /\ \A d \in Cartridges : ChannelInv(d, rid)'
    BY <1>4, <1>8 DEF RequestInv, LostInv, ChannelInv, Process
  <2> QED BY <2>2, <2>3, <2>5, <2>6, <2>7, <2>8 DEF RequestInv
<1> QED BY <1>12, <1>13, <1>14, <1>16, <1>17 DEF LiveInv

\* The host passes on any other frame of a cartridge.
LEMMA PassOnStep ==
  ASSUME TypeOK, LiveInv, NEW c \in Cartridges, events[c] # <<>>,
         events' = [events EXCEPT ![c] = Tail(@)],
         NEW f, f = Head(events[c]), f.type \in {"BODY", "END", "ERR", "LOG"},
         relayOut' = Append(relayOut, f),
         UNCHANGED <<tables, routes, writerCh, dropped, relayIn, relayUp, stopped, processes,
                     requests, handler, requester, bodyEnded, early, relayGot>>
  PROVE  TypeOK' /\ LiveInv'
<1> USE DEF tables, routes, processes, requests
<1> DEFINE rid == f.rid
<1>1. /\ f \in EventFrames /\ events' \in [Cartridges -> Seq(EventFrames)]
      /\ \A d \in Cartridges : Orderly(events'[d]) /\ (d # c => events'[d] = events[d])
      /\ Reqs(events[c]) = Reqs(events'[c]) \cup ReqOf(f)
      /\ Bodies(events[c]) = Bodies(events'[c]) \cup BodyOf(f)
      /\ Ends(events[c]) = Ends(events'[c]) \cup EndOf(f)
      /\ Resps(events[c]) = Resps(events'[c]) \cup RespOf(f)
      /\ BodyOf(f) \cap Reqs(events'[c]) = {} /\ EndOf(f) \cap Ends(events'[c]) = {}
      /\ \A i \in DOMAIN events'[c] :
           events'[c][i].type = "DEATH" => i = Len(events'[c]) /\ c \notin alive
  BY EventQueue
<1>2. f \in UpFrames /\ rid \in Rids /\ (f.role = "body" => f.type = "END" /\ rid \in PeerRids)
  BY <1>1, EventFields, EventBodies
<1>3. /\ ReqOf(f) = {} /\ ErrOf(f) = {} /\ BodyOf(f) = EndOf(f) /\ EndOf(f) \subseteq {rid}
      /\ RespOf(f) \subseteq {rid}
  BY <1>2 DEF ReqOf, BodyOf, EndOf, ErrOf, RespOf
<1>4. RequestInv(rid)
  BY <1>2 DEF LiveInv
\* The end of a body is the only one, and no REQ comes after it.
<1>5. rid \in EndOf(f) =>
        /\ rid \in Ends(events[c]) /\ rid \in Bodies(events[c])
        /\ requester[rid] = Process(c) /\ phase[rid] = "closed"
        /\ rid \notin Ends(relayOut) \cup Ends(relayIn)
  BY <1>1, <1>3, <1>4 DEF RequestInv, EndInv
<1>6. /\ relayOut' \in Seq(UpFrames) /\ (Orderly(relayOut) => Orderly(relayOut'))
      /\ Reqs(relayOut') = Reqs(relayOut) /\ Bodies(relayOut') = Bodies(relayOut) \cup EndOf(f)
      /\ Ends(relayOut') = Ends(relayOut) \cup EndOf(f) /\ Errs(relayOut') = Errs(relayOut)
      /\ Resps(relayOut') = Resps(relayOut) \cup RespOf(f)
      /\ Lasts(relayOut) \subseteq Lasts(relayOut')
  <2>1. ReqOf(f) \cap Bodies(relayOut) = {} /\ EndOf(f) \cap Ends(relayOut) = {}
    BY <1>3, <1>5
  <2> QED BY <2>1, <1>2, <1>3, PostQueue
<1>7. TypeOK'
  BY <1>1, <1>6 DEF TypeOK
<1>8. ProcessInv'
  BY <1>1 DEF LiveInv, ProcessInv
<1>9. QueueInv'
  BY <1>1, <1>6 DEF LiveInv, QueueInv
<1>10. \A d \in Cartridges :
         /\ Reqs(events'[d]) \subseteq Reqs(events[d]) /\ Ends(events'[d]) \subseteq Ends(events[d])
         /\ Resps(events'[d]) \subseteq Resps(events[d])
         /\ Bodies(events'[d]) \subseteq Bodies(events[d])
  BY <1>1
<1>11. ASSUME NEW r \in Rids, r # rid PROVE RequestInv(r)'
  <2>1. Undisturbed(r)
    BY <1>3, <1>6, <1>10, <1>11 DEF Undisturbed, Process, Answered
  <2> QED BY <2>1, UndisturbedStep DEF LiveInv
<1>12. RequestInv(rid)'
  <2>1. rid \in EndOf(f) => \A d \in Cartridges : rid \notin Reqs(events'[d]) \cup Ends(events'[d])
    <3> SUFFICES ASSUME rid \in EndOf(f), NEW d \in Cartridges
                 PROVE  rid \notin Reqs(events'[d]) \cup Ends(events'[d])
      OBVIOUS
    <3>1. CASE d = c
      BY <3>1, <1>1, <1>3
    <3>2. CASE d # c
      <4>1. rid \notin Bodies(events[d])
        BY <3>2, <1>4, <1>5 DEF RequestInv, EndInv, Process
      <4>2. Reqs(events[d]) \subseteq Bodies(events[d]) /\ Ends(events[d]) \subseteq Bodies(events[d])
        BY QueuedReqs, EndsAreBodies
      <4> QED BY <3>2, <4>1, <4>2, <1>1
    <3> QED BY <3>1, <3>2
  <2>2. IdleInv(rid)' /\ ReqInv(rid)'
    BY <2>1, <1>4, <1>5, <1>6, <1>10 DEF RequestInv, IdleInv, ReqInv
  <2>3. EndInv(rid)'
    <3>1. \A d \in Cartridges : rid \in Bodies(events'[d]) => rid \in PeerRids /\ requester[rid] = Process(d)
      BY <1>4, <1>10 DEF RequestInv, EndInv
    <3>2. \A d \in Cartridges : rid \in Ends(events'[d]) =>
            phase[rid] = "closed" /\ rid \notin Ends(relayOut') \cup Ends(relayIn)
      BY <2>1, <1>4, <1>6, <1>10 DEF RequestInv, EndInv
    <3>3. rid \in Ends(relayOut') => phase[rid] = "closed" /\ rid \notin Ends(relayIn)
      BY <1>4, <1>5, <1>6 DEF RequestInv, EndInv
    <3> QED BY <3>1, <3>2, <3>3, <1>4 DEF RequestInv, EndInv, Process
  <2>4. Gone(rid) => Gone(rid)'
    BY <1>10 DEF Gone
  <2>5. ErrInv(rid)'
    BY <2>4, <1>4, <1>6 DEF RequestInv, ErrInv
  <2>6. BodyEndInv(rid)'
    BY <2>4, <1>4, <1>5, <1>6, <1>10 DEF RequestInv, BodyEndInv
  <2>7. RespInv(rid)'
    <3>1. RespOf(f) \subseteq Resps(events[c])
      BY <1>1
    <3>2. Settled(rid) => Settled(rid)'
      BY <1>6, <1>10 DEF Settled
    <3> QED BY <3>1, <3>2, <1>4, <1>6, <1>10 DEF RequestInv, RespInv
  <2>8. RouteInv(rid)' /\ LostInv(rid)' /\ \A d \in Cartridges : ChannelInv(d, rid)'
    BY <1>4, <1>6 DEF RequestInv, RouteInv, LostInv, Answered, ChannelInv, Process
  <2> QED BY <2>2, <2>3, <2>5, <2>6, <2>7, <2>8 DEF RequestInv
<1> QED BY <1>7, <1>8, <1>9, <1>11, <1>12 DEF LiveInv

\* The host handles the loss of a process: it forgets the requests that the
\* process was receiving or waiting for, and reports each of them.
LEMMA HandleCartridgeDeathStep ==
  ASSUME TypeOK, LiveInv, NEW c \in Cartridges, events[c] # <<>>,
         events' = [events EXCEPT ![c] = Tail(@)],
         NEW f, f = Head(events[c]), HandleCartridgeDeath(c, f),
         UNCHANGED <<relayIn, relayUp, stopped, processes, requests, handler, requester, bodyEnded,
                     early, relayGot>>
  PROVE  TypeOK' /\ LiveInv'
<1> USE DEF processes, requests
<1> DEFINE receiving == {r \in DOMAIN incomingRxids : incomingRxids[r] = c}
           asking    == {r \in DOMAIN outgoingRids : outgoingRids[r] = c}
<1>1. PICK s \in SetToSeqs(receiving), t \in SetToSeqs(asking) :
        relayOut' = relayOut \o [i \in DOMAIN s |-> HostErr(s[i], TRUE, "resp")]
                             \o [i \in DOMAIN t |-> HostErr(t[i], FALSE, "body")]
  BY DEF HandleCartridgeDeath
<1> DEFINE answers == [i \in DOMAIN s |-> HostErr(s[i], TRUE, "resp")]
           breaks  == [i \in DOMAIN t |-> HostErr(t[i], FALSE, "body")]
<1>2. /\ events' \in [Cartridges -> Seq(EventFrames)] /\ c \in running
      /\ events'[c] = <<>> /\ c \notin alive
      /\ \A d \in Cartridges : Orderly(events'[d]) /\ (d # c => events'[d] = events[d])
  BY EventQueue DEF HandleCartridgeDeath
<1>3. /\ running' = running \ {c} /\ stuck' = stuck \ {c}
      /\ capTable' = CapTableOf(running', helloFailed)
      /\ writerCh' = [writerCh EXCEPT ![c] = <<>>]
      /\ UNCHANGED <<added, helloFailed, dropped>>
  BY DEF HandleCartridgeDeath
<1>4. /\ DOMAIN incomingRxids' = DOMAIN incomingRxids \ receiving
      /\ \A r \in DOMAIN incomingRxids' : incomingRxids'[r] = incomingRxids[r]
      /\ DOMAIN outgoingRids' = DOMAIN outgoingRids \ asking
      /\ \A r \in DOMAIN outgoingRids' : outgoingRids'[r] = outgoingRids[r]
      /\ incomingRxids' = [r \in DOMAIN incomingRxids' |-> incomingRxids'[r]]
      /\ outgoingRids' = [r \in DOMAIN outgoingRids' |-> outgoingRids'[r]]
  BY DEF HandleCartridgeDeath, Without
<1>5. /\ receiving \subseteq Rids /\ asking \subseteq PeerRids /\ asking \subseteq Rids
      /\ IsFiniteSet(receiving) /\ IsFiniteSet(asking)
  <2>1. receiving \subseteq DOMAIN incomingRxids /\ asking \subseteq DOMAIN outgoingRids
    OBVIOUS
  <2>2. /\ DOMAIN incomingRxids \subseteq Rids /\ IsFiniteSet(DOMAIN incomingRxids)
        /\ DOMAIN outgoingRids \subseteq PeerRids /\ IsFiniteSet(DOMAIN outgoingRids)
    BY DEF TypeOK
  <2> HIDE DEF receiving, asking
  <2>3. IsFiniteSet(receiving) /\ IsFiniteSet(asking)
    BY <2>1, <2>2, FS_Subset
  <2> QED BY <2>1, <2>2, <2>3 DEF Rids
<1> HIDE DEF receiving, asking
<1>6. /\ answers \in Seq(UpFrames) /\ Reqs(answers) = {} /\ Ends(answers) = {} /\ Bodies(answers) = {}
      /\ Errs(answers) = {} /\ Resps(answers) = receiving /\ Lasts(answers) = receiving
  BY <1>5, AnswersQueue
<1>7. /\ breaks \in Seq(UpFrames) /\ Reqs(breaks) = {} /\ Ends(breaks) = {} /\ Bodies(breaks) = asking
      /\ Errs(breaks) = asking /\ Resps(breaks) = {} /\ Lasts(breaks) = {}
  BY <1>5, BreaksQueue
<1>8. relayOut \in Seq(UpFrames) /\ relayOut' = relayOut \o answers \o breaks
  BY <1>1 DEF TypeOK
<1> HIDE DEF answers, breaks
<1>9. /\ relayOut' \in Seq(UpFrames) /\ (Orderly(relayOut) => Orderly(relayOut'))
      /\ Reqs(relayOut') = Reqs(relayOut) /\ Bodies(relayOut') = Bodies(relayOut) \cup asking
      /\ Ends(relayOut') = Ends(relayOut) /\ Errs(relayOut') = Errs(relayOut) \cup asking
      /\ Resps(relayOut') = Resps(relayOut) \cup receiving
      /\ Lasts(relayOut') = Lasts(relayOut) \cup receiving
  <2> DEFINE q == relayOut \o answers
  <2>1. /\ q \in Seq(UpFrames) /\ (Orderly(relayOut) => Orderly(q))
        /\ Reqs(q) = Reqs(relayOut) /\ Bodies(q) = Bodies(relayOut)
        /\ Ends(q) = Ends(relayOut) /\ Errs(q) = Errs(relayOut)
        /\ Resps(q) = Resps(relayOut) \cup receiving /\ Lasts(q) = Lasts(relayOut) \cup receiving
    <3>1. q \in Seq(UpFrames)
      BY <1>6, <1>8
    <3>2. /\ Reqs(q) = Reqs(relayOut) \cup Reqs(answers)
          /\ Bodies(q) = Bodies(relayOut) \cup Bodies(answers)
          /\ Ends(q) = Ends(relayOut) \cup Ends(answers)
          /\ Errs(q) = Errs(relayOut) \cup Errs(answers)
          /\ Resps(q) = Resps(relayOut) \cup Resps(answers)
          /\ Lasts(q) = Lasts(relayOut) \cup Lasts(answers)
          /\ Orderly(relayOut) /\ Reqs(answers) = {} /\ Ends(answers) = {} => Orderly(q)
      BY <1>6, <1>8, ConcatQueue
    <3> HIDE DEF q
    <3> QED BY <3>1, <3>2, <1>6
  <2>2. relayOut' = q \o breaks /\ breaks \in Seq(UpFrames) /\ q \in Seq(UpFrames)
    BY <2>1, <1>7, <1>8
  <2> HIDE DEF q
  <2>3. relayOut' \in Seq(UpFrames)
    BY <2>1, <2>2, <1>7
  <2>4. /\ Reqs(relayOut') = Reqs(q) \cup Reqs(breaks)
        /\ Bodies(relayOut') = Bodies(q) \cup Bodies(breaks)
        /\ Ends(relayOut') = Ends(q) \cup Ends(breaks)
        /\ Errs(relayOut') = Errs(q) \cup Errs(breaks)
        /\ Resps(relayOut') = Resps(q) \cup Resps(breaks)
        /\ Lasts(relayOut') = Lasts(q) \cup Lasts(breaks)
        /\ Orderly(q) /\ Reqs(breaks) = {} /\ Ends(breaks) = {} => Orderly(relayOut')
    BY <2>2, ConcatQueue, SMTT(30)
  <2> QED BY <2>1, <2>3, <2>4, <1>7
<1>10. /\ \A d \in Cartridges : d # c => writerCh'[d] = writerCh[d]
       /\ writerCh'[c] = <<>> /\ writerCh' \in [Cartridges -> Seq(ChannelFrames)]
  BY <1>3 DEF TypeOK
<1>11. TypeOK'
  <2>1. /\ DOMAIN incomingRxids' \subseteq Rids /\ IsFiniteSet(DOMAIN incomingRxids')
        /\ incomingRxids' \in [DOMAIN incomingRxids' -> Cartridges]
    <3>1. /\ DOMAIN incomingRxids \subseteq Rids /\ IsFiniteSet(DOMAIN incomingRxids)
          /\ \A r \in DOMAIN incomingRxids : incomingRxids[r] \in Cartridges
      BY DEF TypeOK
    <3>2. IsFiniteSet(DOMAIN incomingRxids \ receiving)
      BY <3>1, FS_Difference
    <3> QED BY <3>1, <3>2, <1>4
  <2>2. /\ DOMAIN outgoingRids' \subseteq PeerRids /\ IsFiniteSet(DOMAIN outgoingRids')
        /\ outgoingRids' \in [DOMAIN outgoingRids' -> Cartridges]
    <3>1. /\ DOMAIN outgoingRids \subseteq PeerRids /\ IsFiniteSet(DOMAIN outgoingRids)
          /\ \A r \in DOMAIN outgoingRids : outgoingRids[r] \in Cartridges
      BY DEF TypeOK
    <3>2. IsFiniteSet(DOMAIN outgoingRids \ asking)
      BY <3>1, FS_Difference
    <3> QED BY <3>1, <3>2, <1>4
  <2> QED BY <2>1, <2>2, <1>2, <1>3, <1>9, <1>10 DEF TypeOK
<1>12. ProcessInv'
  <2>1. \A e \in capTable' : e.cartridge \in added
    BY <1>3 DEF CapTableOf, Entries
  <2>2. alive \subseteq running' /\ running' \subseteq added
    BY <1>2, <1>3 DEF LiveInv, ProcessInv
  <2>3. ASSUME NEW d \in Cartridges
        PROVE  /\ d \notin running' => events'[d] = <<>> /\ writerCh'[d] = <<>>
               /\ \A i \in DOMAIN events'[d] :
                    events'[d][i].type = "DEATH" => i = Len(events'[d]) /\ d \notin alive
    <3>1. CASE d = c
      BY <3>1, <1>2, <1>10
    <3>2. CASE d # c
      BY <3>2, <1>2, <1>3, <1>10 DEF LiveInv, ProcessInv
    <3> QED BY <3>1, <3>2
  <2> QED BY <2>1, <2>2, <2>3, <1>3 DEF LiveInv, ProcessInv
<1>13. QueueInv'
  BY <1>2, <1>9 DEF LiveInv, QueueInv
<1>14. ASSUME NEW r \in Rids PROVE RequestInv(r)'
  <2>1. RequestInv(r)
    BY DEF LiveInv
  <2>2. \A d \in Cartridges :
          /\ Reqs(events'[d]) \subseteq Reqs(events[d]) /\ Ends(events'[d]) \subseteq Ends(events[d])
          /\ Bodies(events'[d]) \subseteq Bodies(events[d])
          /\ Resps(events'[d]) \subseteq Resps(events[d])
          /\ Bodies(writerCh'[d]) \subseteq Bodies(writerCh[d])
          /\ Resps(writerCh'[d]) \subseteq Resps(writerCh[d])
    BY <1>2, <1>10, EmptyQueue
  <2>3. r \in asking => /\ r \in DOMAIN outgoingRids /\ r \in PeerRids
                        /\ requester[r] = Process(c) /\ requester[r] # Nobody
    BY <2>1, <1>5 DEF RequestInv, RouteInv, Process, Nobody, None, Cartridges, asking
  <2>4. r \in receiving => handler[r] = Process(c) /\ handler[r] # Nobody /\ r \in DOMAIN incomingRxids
    BY <2>1 DEF RequestInv, RouteInv, Process, Nobody, None, Cartridges, receiving
  <2>5. r \in asking => phase[r] # "idle" /\ \A d \in Cartridges : r \notin Reqs(events[d])
    BY <2>1, <2>3 DEF RequestInv, IdleInv, ReqInv
  <2>6. IdleInv(r)'
    BY <2>1, <2>2, <2>5, <1>9 DEF RequestInv, IdleInv
  <2>7. ReqInv(r)'
    BY <2>1, <2>2, <2>5, <1>4, <1>9 DEF RequestInv, ReqInv
  <2>8. EndInv(r)'
    BY <2>1, <2>2, <1>9 DEF RequestInv, EndInv, Process
  <2>9. Gone(r) \/ r \in asking => Gone(r)'
    BY <2>2, <2>5, <1>4 DEF Gone
  <2>10. ErrInv(r)'
    BY <2>1, <2>9, <1>9 DEF RequestInv, ErrInv
  <2>11. BodyEndInv(r)'
    BY <2>1, <2>2, <2>9, <1>4, <1>9 DEF RequestInv, BodyEndInv
  <2>12. RespInv(r)'
    <3>1. Settled(r) => Settled(r)'
      BY <2>2, <1>4, <1>9 DEF Settled
    <3>2. r \in receiving /\ r \in PeerRids => Settled(r)'
      <4>1. SUFFICES ASSUME r \in receiving, r \in PeerRids PROVE Settled(r)'
        OBVIOUS
      <4>2. phase[r] # "idle" /\ place[r] = "here"
        BY <2>1, <2>4, <4>1 DEF RequestInv, IdleInv
      <4>3. /\ r \notin Reqs(relayOut) \cup Reqs(relayIn)
            /\ \A d \in Cartridges : r \notin Reqs(events[d])
        BY <2>1, <2>4, <4>1, <4>2 DEF RequestInv, ReqInv
      <4> QED BY <2>2, <4>1, <4>2, <4>3, <1>4, <1>9 DEF Settled
    <3> QED BY <2>1, <2>2, <3>1, <3>2, <1>9 DEF RequestInv, RespInv
  <2>13. RouteInv(r)'
    <3>1. r \in DOMAIN incomingRxids' => r \in DOMAIN incomingRxids /\ incomingRxids[r] # c
      BY <1>4 DEF receiving
    <3>2. r \in DOMAIN outgoingRids' => r \in DOMAIN outgoingRids /\ outgoingRids[r] # c
      BY <1>4 DEF asking
    <3> QED BY <3>1, <3>2, <2>1, <1>3, <1>4 DEF RequestInv, RouteInv, Process
  <2>14. LostInv(r)'
    <3>1. Answered(r) => Answered(r)'
      BY <1>9 DEF Answered
    <3>2. r \in receiving => Answered(r)'
      BY <1>9 DEF Answered
    <3> QED BY <3>1, <3>2, <2>1, <1>4 DEF RequestInv, LostInv
  <2>15. \A d \in Cartridges : ChannelInv(d, r)'
    BY <2>1, <2>2, <1>4 DEF RequestInv, ChannelInv, Process
  <2> QED BY <2>6, <2>7, <2>8, <2>10, <2>11, <2>12, <2>13, <2>14, <2>15 DEF RequestInv
<1> QED BY <1>11, <1>12, <1>13, <1>14 DEF LiveInv

LEMMA HostReadsEventStep ==
  ASSUME TypeOK, LiveInv, NEW c \in Cartridges, HostReadsEvent(c)
  PROVE  TypeOK' /\ LiveInv'
<1> DEFINE f == Head(events[c])
<1>1. /\ events[c] # <<>> /\ events' = [events EXCEPT ![c] = Tail(@)]
      /\ UNCHANGED <<relayIn, relayUp, stopped, processes, requests, handler, requester,
                     bodyEnded, early, relayGot>>
  BY DEF HostReadsEvent
<1>2. CASE HandleCartridgeFrame(c, f)
  <2>1. UNCHANGED <<tables, incomingRxids>>
    BY <1>2 DEF HandleCartridgeFrame
  <2>2. CASE f.type = "HEARTBEAT" /\ SendToCartridge(c, f) /\ UNCHANGED <<outgoingRids, relayOut>>
    BY <2>1, <2>2, <1>1, HeartbeatStep DEF routes
  <2>3. CASE /\ f.type = "REQ" /\ outgoingRids' = With(outgoingRids, f.rid, c)
             /\ relayOut' = Append(relayOut, f) /\ UNCHANGED <<writerCh, dropped>>
    BY <2>1, <2>3, <1>1, PeerRequestStep
  <2>4. CASE /\ f.type \in {"BODY", "END", "ERR", "LOG"} /\ relayOut' = Append(relayOut, f)
             /\ UNCHANGED <<outgoingRids, writerCh, dropped>>
    BY <2>1, <2>4, <1>1, PassOnStep DEF routes
  <2> QED BY <2>2, <2>3, <2>4, <1>2 DEF HandleCartridgeFrame
<1>3. CASE HandleCartridgeDeath(c, f)
  BY <1>1, <1>3, HandleCartridgeDeathStep
<1> QED BY <1>2, <1>3 DEF HostReadsEvent

-----------------------------------------------------------------------------
(***************************************************************************)
(* The inductive invariant holds                                           *)
(***************************************************************************)

LEMMA InitIInv == Init => IInv
<1> SUFFICES ASSUME Init PROVE IInv
  OBVIOUS
<1>1. TypeOK
  <2>1. IsFiniteSet({})
    BY FS_EmptySet
  <2>2. /\ added \subseteq Cartridges /\ running \subseteq Cartridges
        /\ stuck \subseteq Cartridges /\ alive \subseteq Cartridges
        /\ helloFailed \subseteq Cartridges /\ bodyEnded \subseteq Rids /\ early \subseteq Rids
        /\ relayUp \in BOOLEAN /\ stopped \in BOOLEAN /\ beats \in Nat /\ deaths \in Nat
    BY DEF Init
  <2>3. /\ DOMAIN outgoingRids = {} /\ outgoingRids \in [DOMAIN outgoingRids -> Cartridges]
        /\ DOMAIN incomingRxids = {} /\ incomingRxids \in [DOMAIN incomingRxids -> Cartridges]
    BY DEF Init
  <2>4. /\ writerCh \in [Cartridges -> Seq(ChannelFrames)]
        /\ events \in [Cartridges -> Seq(EventFrames)]
        /\ relayIn \in Seq(DownFrames) /\ relayOut \in Seq(UpFrames)
        /\ relayGot \in [Rids -> Seq(UpFrames)]
    BY DEF Init
  <2>5. /\ incarnation \in [Cartridges -> Nat]
        /\ serving \in [Cartridges -> SUBSET Rids] /\ complete \in [Cartridges -> SUBSET Rids]
        /\ phase \in [Rids -> {"idle", "open", "body", "closed", "broken"}]
        /\ place \in [PeerRids -> {"none", "elsewhere", "settled", "here"}]
        /\ replies \in [Rids -> Nat]
    BY DEF Init
  <2>6. handler \in [Rids -> Processes] /\ requester \in [PeerRids -> Processes]
    BY DEF Init, Processes
  <2> QED BY <2>1, <2>2, <2>3, <2>4, <2>5, <2>6 DEF TypeOK
<1>2. ProcessInv
  <2>1. added = 1..0 /\ 0 \in 0..NCartridges
    BY HostAssumption DEF Init
  <2> QED BY <2>1 DEF Init, ProcessInv
<1>3. QueueInv
  BY EmptyQueue DEF Init, QueueInv
<1>4. ASSUME NEW r \in Rids PROVE RequestInv(r)
  <2>1. /\ relayIn = <<>> /\ relayOut = <<>>
        /\ \A c \in Cartridges : events[c] = <<>> /\ writerCh[c] = <<>>
        /\ DOMAIN incomingRxids = {} /\ DOMAIN outgoingRids = {} /\ bodyEnded = {}
        /\ phase[r] = "idle" /\ handler[r] = Nobody
        /\ r \in PeerRids => requester[r] = Nobody /\ place[r] = "none"
    BY <1>4 DEF Init, Nobody
  <2>2. IdleInv(r) /\ ReqInv(r) /\ EndInv(r)
    BY <2>1, EmptyQueue DEF IdleInv, ReqInv, EndInv
  <2>3. ErrInv(r) /\ BodyEndInv(r) /\ RespInv(r)
    BY <2>1, EmptyQueue DEF ErrInv, BodyEndInv, RespInv
  <2>4. RouteInv(r) /\ LostInv(r) /\ \A c \in Cartridges : ChannelInv(c, r)
    BY <2>1, EmptyQueue DEF RouteInv, LostInv, ChannelInv
  <2> QED BY <2>2, <2>3, <2>4 DEF RequestInv
<1>5. stopped = FALSE
  BY DEF Init
<1> QED BY <1>1, <1>2, <1>3, <1>4, <1>5 DEF IInv, LiveInv

\* Once Run has returned nothing happens any more.
LEMMA StoppedStays ==
  ASSUME IInv, stopped, Next
  PROVE  FALSE
<1>1. alive = {} /\ \A c \in Cartridges : writerCh[c] = <<>>
  BY DEF IInv
<1>2. ~Host
  BY DEF Host, HostReadsRelay, HostSeesRelayClose, HostReadsEvent, RegisterCartridge,
         AttachCartridge, MayJoin
<1>3. ~Relay
  BY DEF Relay, RelayRequests, RelayContinues, RelayAnswers, RelaySends, RelayTakes, RelayCloses
<1>4. ASSUME NEW c \in Cartridges PROVE ~Cartridge(c)
  BY <1>1 DEF Cartridge, WriterLoop, WriterFails, CartridgeReply, CartridgeAsks, CartridgeEndsBody,
              CartridgeBeats, CartridgeDies
<1> QED BY <1>2, <1>3, <1>4 DEF Next

LEMMA StutterIInv == IInv /\ UNCHANGED vars => IInv'
<1> SUFFICES ASSUME IInv, UNCHANGED vars PROVE IInv'
  OBVIOUS
<1> USE DEF vars, tables, routes, channels, processes, requests, history
<1>1. TypeOK'
  BY DEF IInv, TypeOK
<1>2. CASE stopped
  BY <1>1, <1>2 DEF IInv
<1>3. CASE ~stopped
  <2>1. ProcessInv'
    BY <1>3 DEF IInv, LiveInv, ProcessInv
  <2>2. QueueInv'
    BY <1>3 DEF IInv, LiveInv, QueueInv
  <2>3. ASSUME NEW r \in Rids PROVE RequestInv(r)'
    <3>1. Undisturbed(r)
      BY DEF Undisturbed, Process, Answered
    <3> QED BY <1>3, <3>1, UndisturbedStep DEF IInv, LiveInv
  <2> QED BY <1>1, <1>3, <2>1, <2>2, <2>3 DEF IInv, LiveInv
<1> QED BY <1>2, <1>3

LEMMA NextKeepsIInv == IInv /\ [Next]_vars => IInv'
<1> SUFFICES ASSUME IInv, Next PROVE IInv'
  BY StutterIInv
<1>1. TypeOK /\ ~stopped /\ LiveInv
  BY StoppedStays DEF IInv
<1>2. TypeOK' /\ LiveInv' /\ (stopped' = stopped) => IInv'
  BY <1>1 DEF IInv
<1>3. ASSUME Host PROVE IInv'
  <2>1. CASE HostReadsRelay
    BY <2>1, <1>1, HostReadsRelayStep DEF IInv
  <2>2. CASE HostSeesRelayClose
    BY <2>2, <1>1, HostSeesRelayCloseStep DEF IInv
  <2>3. ASSUME NEW c \in Cartridges, HostReadsEvent(c) PROVE IInv'
    <3>1. UNCHANGED stopped
      BY <2>3 DEF HostReadsEvent
    <3> QED BY <2>3, <3>1, <1>1, <1>2, HostReadsEventStep
  <2>4. ASSUME NEW c \in Cartridges, RegisterCartridge(c) PROVE IInv'
    <3>1. UNCHANGED stopped
      BY <2>4 DEF RegisterCartridge
    <3> QED BY <2>4, <3>1, <1>1, <1>2, RegisterCartridgeStep
  <2>5. ASSUME NEW c \in Cartridges, AttachCartridge(c) PROVE IInv'
    <3>1. UNCHANGED stopped
      BY <2>5 DEF AttachCartridge
    <3> QED BY <2>5, <3>1, <1>1, <1>2, AttachCartridgeStep
  <2> QED BY <1>3, <2>1, <2>2, <2>3, <2>4, <2>5 DEF Host
<1>4. ASSUME Relay PROVE IInv'
  <2>1. UNCHANGED stopped
    BY <1>4 DEF Relay, RelayRequests, RelayContinues, RelayAnswers, RelayTakes, RelayCloses
  <2>2. TypeOK' /\ LiveInv'
    BY <1>1, <1>4, RelayRequestsStep, RelayContinuesStep, RelayAnswersStep, RelayTakesStep,
       RelayClosesStep DEF Relay
  <2> QED BY <2>1, <2>2, <1>2
<1>5. ASSUME NEW c \in Cartridges, Cartridge(c) PROVE IInv'
  <2>1. UNCHANGED stopped
    BY <1>5 DEF Cartridge, WriterLoop, WriterFails, CartridgeReply, CartridgeAsks, CartridgeEndsBody,
                CartridgeBeats, CartridgeDies
  <2>2. TypeOK' /\ LiveInv'
    BY <1>1, <1>5, WriterLoopStep, WriterFailsStep, CartridgeReplyStep, CartridgeAsksStep, CartridgeEndsBodyStep,
       CartridgeBeatsStep, CartridgeDiesStep DEF Cartridge
  <2> QED BY <2>1, <2>2, <1>2
<1> QED BY <1>3, <1>4, <1>5 DEF Next

\* The inductive invariant holds in every reachable state.
THEOREM Invariance == Spec => []IInv
BY InitIInv, NextKeepsIInv, PTL DEF Spec

\* Every variable of the host, of the cartridge processes and of the relay keeps
\* its type: every frame that is under way is one that its channel may carry.
THEOREM TypeCorrect == Spec => []TypeOK
<1>1. IInv => TypeOK
  BY DEF IInv
<1> QED BY <1>1, Invariance, PTL

-----------------------------------------------------------------------------
(***************************************************************************)
(* The properties                                                          *)
(***************************************************************************)

\* The frames of a channel, and the requests that they belong to.
LEMMA ChannelMember ==
  ASSUME TypeOK, NEW c \in Cartridges, NEW f \in ToSet(writerCh[c])
  PROVE  /\ f.role = "body" => f.rid \in Bodies(writerCh[c])
         /\ f.role = "resp" => f.rid \in Resps(writerCh[c]) /\ f.rid \in Rids
<1>1. writerCh[c] \in Seq(ChannelFrames)
  BY DEF TypeOK
<1> HIDE DEF ChannelFrames
<1>2. PICK i \in DOMAIN writerCh[c] : f = writerCh[c][i]
  BY DEF ToSet
<1>3. f \in ChannelFrames
  BY <1>1, <1>2
<1>4. f.type # "DEATH" /\ (f.role = "resp" => f.rid \in Rids)
  BY <1>3, DownFields DEF ChannelFrames, Beats, Frames
<1>5. /\ f.role = "body" => f.rid \in BodyOf(writerCh[c][i])
      /\ f.role = "resp" => f.rid \in RespOf(writerCh[c][i])
  BY <1>2, <1>4 DEF BodyOf, RespOf
<1> QED BY <1>2, <1>4, <1>5 DEF Bodies, Resps

LEMMA StoppedChannel ==
  ASSUME NEW c \in Cartridges, writerCh = [d \in Cartridges |-> <<>>]
  PROVE  ToSet(writerCh[c]) = {}
BY DEF ToSet

\* A body is handed to the very process that was handed its REQ, whichever
\* deaths, spawns and changes of the cap table lie between its frames
\* (incomingRxids in handleRelayFrame and handleCartridgeDeath).
THEOREM BodiesReachTheirHandler == Spec => []BodyReachesItsHandler
<1>1. IInv => BodyReachesItsHandler
  <2> SUFFICES ASSUME IInv, NEW c \in Cartridges, NEW f \in ToSet(writerCh[c]),
                      f.role = "body", f.rid \in EngineRids \cup bodyEnded
               PROVE  Process(c) = handler[f.rid]
    BY DEF BodyReachesItsHandler
  <2>1. TypeOK /\ LiveInv
    BY StoppedChannel DEF IInv
  <2>2. f.rid \in Rids /\ f.rid \in Bodies(writerCh[c])
    BY <2>1, ChannelMember DEF TypeOK, Rids
  <2> QED BY <2>1, <2>2 DEF LiveInv, RequestInv, ChannelInv
<1> QED BY <1>1, Invariance, PTL

\* The answer to a peer request is handed to the very process that issued it,
\* also when the relay routed the request back to this host, unless its handler
\* answered before the end of the body (outgoingRids in handleRelayFrame).
THEOREM AnswersReachTheirRequester == Spec => []AnswerReachesItsRequester
<1>1. IInv => AnswerReachesItsRequester
  <2> SUFFICES ASSUME IInv, NEW c \in Cartridges, NEW f \in ToSet(writerCh[c]),
                      f.role = "resp", f.rid \notin early
               PROVE  Process(c) = requester[f.rid]
    BY DEF AnswerReachesItsRequester
  <2>1. TypeOK /\ LiveInv
    BY StoppedChannel DEF IInv
  <2>2. f.rid \in Rids /\ f.rid \in Resps(writerCh[c])
    BY <2>1, ChannelMember
  <2> QED BY <2>1, <2>2 DEF LiveInv, RequestInv, ChannelInv
<1> QED BY <1>1, Invariance, PTL

\* A request whose handler is lost before the end of the body is answered: the
\* host puts an ERR in the place of the answer that can no longer come
\* (handleCartridgeDeath).
THEOREM BrokenBodiesAreAnswered == Spec => []BrokenBodyIsAnswered
<1>1. IInv => BrokenBodyIsAnswered
  <2> SUFFICES ASSUME IInv, NEW r \in EngineRids, ~stopped, handler[r][1] # None,
                      HandlerIsGone(r), r \notin bodyEnded
               PROVE  IsAnswered(r)
    BY DEF BrokenBodyIsAnswered
  <2>1. TypeOK /\ RequestInv(r)
    BY DEF IInv, LiveInv, Rids
  <2>2. r \notin DOMAIN incomingRxids
    BY <2>1 DEF RequestInv, RouteInv, HandlerIsGone, Process
  <2>3. handler[r] # Nobody
    BY DEF Nobody
  <2>4. Answered(r)
    BY <2>1, <2>2, <2>3 DEF RequestInv, LostInv
  <2>5. CASE r \in Lasts(relayOut)
    <3>1. PICK i \in DOMAIN relayOut : r \in LastOf(relayOut[i])
      BY <2>5 DEF Lasts
    <3>2. relayOut[i] \in ToSet(relayOut)
      BY DEF ToSet
    <3>3. relayOut[i].rid = r /\ relayOut[i].role = "resp" /\ Terminal(relayOut[i])
      BY <3>1 DEF LastOf, Terminal
    <3> QED BY <3>2, <3>3 DEF IsAnswered, Answers
  <2>6. CASE \E f \in ToSet(relayGot[r]) : Terminal(f)
    BY <2>6 DEF IsAnswered, Answers
  <2> QED BY <2>4, <2>5, <2>6 DEF Answered
<1> QED BY <1>1, Invariance, PTL

=============================================================================
