-------------------------- MODULE RelaySwitch_proofs --------------------------
(***************************************************************************)
(* Machine-checked proofs about RelaySwitch, for all values of its         *)
(* constants that satisfy SwitchAssumption: any number of masters, any     *)
(* requests, offers and distances.                                         *)
(***************************************************************************)
EXTENDS RelaySwitch, NaturalFacts, FiniteSetTheorems, TLAPS

-----------------------------------------------------------------------------
(***************************************************************************)
(* The inductive invariant                                                 *)
(***************************************************************************)

\* The cap table and the aggregate are those of the healthy masters.
TablesAreCurrent ==
  /\ capTable = CapTableOf(masters)
  /\ aggregate = AggregateOf(masters)

\* A request that was never routed has no trace; a routed one is routed where
\* it was first, and a peer request stays so until its master is lost or the
\* engine ends or cancels it.
LifeInv(r) ==
  /\ asked[r] = "idle" => target[r] = NoMaster
  /\ target[r] = NoMaster => replies[r] = 0 /\ r \notin DOMAIN routing
  /\ r \in DOMAIN routing => routing[r].dest = target[r]
  /\ r \in EngineRids =>
       /\ target[r] = NoMaster => engineGot[r] = <<>>
       /\ r \in DOMAIN routing => routing[r].source = ENGINE_SOURCE
  /\ r \in PeerRids =>
       /\ asked[r] = "idle" => owner[r] = NoMaster /\ engineGot[r] = <<>>
       /\ r \in DOMAIN routing => routing[r].source = owner[r] /\ r \in peerRequests
       /\ target[r] # NoMaster => \/ r \in DOMAIN routing
                                  \/ ~masters[target[r]].healthy
                                  \/ intervened[r] = "ended"

\* The switch learns of a death last of all; until then the connection is
\* empty towards the master at least.
DeathInv(m) ==
  /\ m \notin alive => serving[m] = {} /\ toMaster[m] = <<>>
  /\ ~masters[m].healthy => m \notin alive /\ fromMaster[m] = <<>>

\* The i-th frame on the way to m.
ToMasterInv(m, i) ==
  LET f == toMaster[m][i]
  IN
  /\ f.type # "NOTIFY"
  /\ f.type \in {"REQ", "CANCEL"} \/ f.rid \in EngineRids => target[f.rid] = m
  /\ f.type = "REQ" =>
       /\ replies[f.rid] = 0 /\ f.rid \notin serving[m]
       /\ \A j \in DOMAIN toMaster[m] :
            toMaster[m][j].type = "REQ" /\ toMaster[m][j].rid = f.rid => i = j
  /\ f.type = "CANCEL" =>
       /\ f.rid \notin DOMAIN routing
       /\ \A j \in DOMAIN toMaster[m] : i < j => toMaster[m][j].rid # f.rid

ServingInv(m) ==
  \A r \in serving[m] : target[r] = m /\ replies[r] < MaxReply

\* The i-th frame that m has sent and the switch not handled: a peer request
\* of m, seen for the first time, a frame of a response of m, or the end of
\* the body of a peer request of m.
FromMasterInv(m, i) ==
  LET f == fromMaster[m][i]
  IN
  /\ f.type # "CANCEL"
  /\ f.type = "REQ" =>
       /\ f.rid \in PeerRids /\ owner[f.rid] = m /\ target[f.rid] = NoMaster
       /\ \A j \in DOMAIN fromMaster[m] :
            fromMaster[m][j].type = "REQ" /\ fromMaster[m][j].rid = f.rid => i = j
  /\ f.type \in ReplyTypes =>
       /\ f.from = m
       /\ target[f.rid] = m \/ (f.rid \in PeerRids /\ owner[f.rid] = m)

\* The frames of the response to r that its master sent and the engine did not
\* get are those from some number on, in order.
Pending(r) ==
  {i \in DOMAIN fromMaster[target[r]] :
     fromMaster[target[r]][i].type \in ReplyTypes /\ fromMaster[target[r]][i].rid = r}
Number(r, i) == fromMaster[target[r]][i].n

AnswerInv(r) ==
  /\ Len(engineGot[r]) <= replies[r]
  /\ \A i \in DOMAIN engineGot[r] : engineGot[r][i].from = target[r] /\ engineGot[r][i].n = i - 1
  /\ \A i \in DOMAIN engineGot[r] : Terminal(engineGot[r][i].type) => r \notin DOMAIN routing
  /\ target[r] # NoMaster =>
       /\ \A i \in Pending(r) : Number(r, i) \in Len(engineGot[r])..(replies[r] - 1)
       /\ \A i, j \in Pending(r) : i < j => Number(r, i) < Number(r, j)
       /\ \A k \in Len(engineGot[r])..(replies[r] - 1) : \E i \in Pending(r) : Number(r, i) = k

IInv ==
  /\ TypeOK
  /\ TablesAreCurrent
  /\ RoutesToHealthy
  /\ \A r \in Rids : LifeInv(r)
  /\ \A m \in Masters :
       /\ DeathInv(m)
       /\ ServingInv(m)
       /\ \A i \in DOMAIN toMaster[m] : ToMasterInv(m, i)
       /\ \A i \in DOMAIN fromMaster[m] : FromMasterInv(m, i)
  /\ \A r \in EngineRids : AnswerInv(r)
  /\ PeerAnswersStayInternal
-----------------------------------------------------------------------------
(***************************************************************************)
(* Lemmas about findMasterForCap and the tables                            *)
(***************************************************************************)

\* The entry that findMasterForCap picks belongs to a healthy master.
LEMMA FoundIsHealthy ==
  ASSUME TypeOK, TablesAreCurrent, NEW cap, NEW preferred,
         FindMasterForCap(cap, preferred) # NoMaster
  PROVE  /\ FindMasterForCap(cap, preferred) \in Masters
         /\ masters[FindMasterForCap(cap, preferred)].healthy
<1> DEFINE matches == {e \in capTable : <<e.cap, cap>> \in DOMAIN SignedDistance}
           dist(e) == SignedDistance[<<e.cap, cap>>]
           closer(e, o) == \/ dist(e) >= 0 /\ (dist(o) < 0 \/ dist(e) < dist(o))
                           \/ dist(e) < 0 /\ dist(o) < 0 /\ dist(e) > dist(o)
           wanted == {e \in matches : e.cap = preferred}
           closest == {e \in matches : ~ \E o \in matches : closer(o, e)}
           best == IF wanted # {} THEN wanted ELSE closest
<1>1. matches # {} /\ FindMasterForCap(cap, preferred) = Min({e.master : e \in best})
  BY DEF FindMasterForCap
<1>2. \A e \in matches : e.master \in HealthyMasters(masters) /\ dist(e) \in Int
  <2>1. \A e \in capTable : e.master \in HealthyMasters(masters)
    BY DEF TablesAreCurrent, CapTableOf
  <2> QED BY <2>1, SwitchAssumption
<1>3. closest # {}
  <2> DEFINE d == [e \in matches |-> SignedDistance[<<e.cap, cap>>]]
  <2>1. d \in [matches -> Int]
    BY <1>2
  <2>2. PICK e \in matches : \A o \in matches :
          ~ \/ d[o] >= 0 /\ (d[e] < 0 \/ d[o] < d[e])
            \/ d[o] < 0 /\ d[e] < 0 /\ d[o] > d[e]
    <3> HIDE DEF d, matches
    <3> QED BY <1>1, <2>1, ClosestExists
  <2>3. \A o \in matches : d[o] = dist(o)
    OBVIOUS
  <2>4. \A o \in matches : ~ closer(o, e)
    BY <2>2, <2>3
  <2>5. e \in closest
    BY <2>4
  <2> QED BY <2>5, Zenon
<1>4. best # {} /\ best \subseteq matches
  BY <1>3
<1>5. Min({e.master : e \in best}) \in {e.master : e \in best}
  <2>1. {e.master : e \in best} # {} /\ {e.master : e \in best} \subseteq Nat
    <3>1. \A e \in best : e.master \in Nat
      BY <1>4, <1>2 DEF HealthyMasters, Masters
    <3> HIDE DEF best
    <3> QED BY <1>4, <3>1
  <2> HIDE DEF best
  <2> QED BY <2>1, MinIsMember
<1>6. \A e \in best : e.master \in HealthyMasters(masters)
  BY <1>4, <1>2
<1> HIDE DEF best
<1> QED BY <1>1, <1>5, <1>6 DEF HealthyMasters

-----------------------------------------------------------------------------
(***************************************************************************)
(* Lemmas about frames and channels                                        *)
(***************************************************************************)

\* What Msg builds is a frame, with the fields it was given.
LEMMA MsgIsFrame ==
  ASSUME NEW type \in ReplyTypes \cup {"REQ", "CANCEL"}, NEW rid \in Rids,
         NEW from \in Masters \cup {ENGINE_SOURCE}, NEW n \in 0..MaxReply
  PROVE  /\ Msg(type, rid, from, n) \in Frames
         /\ Msg(type, rid, from, n).type = type
         /\ Msg(type, rid, from, n).rid = rid
         /\ Msg(type, rid, from, n).from = from
         /\ Msg(type, rid, from, n).n = n
BY DEF Msg, Frames

\* The fields of a frame of any kind.
LEMMA FrameFields ==
  ASSUME NEW f \in Frames
  PROVE  /\ f.type \in ReplyTypes \cup {"REQ", "CANCEL", "NOTIFY"}
         /\ f.type # "NOTIFY" => /\ f.rid \in Rids /\ f.n \in 0..MaxReply
                                 /\ f.from \in Masters \cup {ENGINE_SOURCE}
         /\ f.type = "NOTIFY" => f.offer \in Offers
<1>1. CASE f \in [type : ReplyTypes \cup {"REQ", "CANCEL"}, rid : Rids,
                  from : Masters \cup {ENGINE_SOURCE}, n : 0..MaxReply]
  BY <1>1 DEF ReplyTypes
<1>2. CASE f \in [type : {"REQ"}, rid : PeerRids, from : Masters, n : {0}, cap : Caps]
  BY <1>2, SwitchAssumption DEF Rids
<1>3. CASE f \in [type : {"NOTIFY"}, offer : Offers]
  BY <1>3
<1> QED BY <1>1, <1>2, <1>3 DEF Frames

\* Length, domain and elements of a channel with one frame more.
LEMMA AppendFacts ==
  ASSUME NEW s \in Seq(Frames), NEW f \in Frames
  PROVE  /\ Len(Append(s, f)) = Len(s) + 1
         /\ DOMAIN Append(s, f) = 1..(Len(s) + 1)
         /\ \A i \in 1..Len(s) : Append(s, f)[i] = s[i] /\ i \in DOMAIN s
         /\ Append(s, f)[Len(s) + 1] = f
OBVIOUS

\* The channels new are the channels old with f added to that of m.
Appended(old, new, m, f) ==
  /\ new \in [Masters -> Seq(Frames)]
  /\ \A o \in Masters : \A i \in DOMAIN old[o] : i \in DOMAIN new[o] /\ new[o][i] = old[o][i]
  /\ \A o \in Masters : \A i \in DOMAIN new[o] :
       i \in DOMAIN old[o] \/ (o = m /\ i = Len(old[m]) + 1)
  /\ Len(old[m]) + 1 \in DOMAIN new[m] /\ new[m][Len(old[m]) + 1] = f
  /\ \A i \in DOMAIN old[m] : i < Len(old[m]) + 1

\* Append at the channel of m is what Appended says of it.
LEMMA AppendIsAppended ==
  ASSUME NEW old \in [Masters -> Seq(Frames)], NEW m \in Masters, NEW f \in Frames
  PROVE  Appended(old, [old EXCEPT ![m] = Append(@, f)], m, f)
BY DEF Appended

\* The channels new are the channels old without the first frame of m.
Tailed(old, new, m) ==
  /\ new \in [Masters -> Seq(Frames)]
  /\ \A o \in Masters : o # m => new[o] = old[o]
  /\ \A i \in DOMAIN new[m] : i + 1 \in DOMAIN old[m] /\ new[m][i] = old[m][i + 1]
  /\ \A i \in DOMAIN old[m] : i # 1 => i - 1 \in DOMAIN new[m] /\ new[m][i - 1] = old[m][i]
  /\ 1 \in DOMAIN old[m] /\ Head(old[m]) = old[m][1] /\ old[m][1] \in Frames

\* Tail at the channel of m is what Tailed says of it.
LEMMA TailIsTailed ==
  ASSUME NEW old \in [Masters -> Seq(Frames)], NEW m \in Masters, old[m] # <<>>
  PROVE  Tailed(old, [old EXCEPT ![m] = Tail(@)], m)
BY DEF Tailed

\* Steps that touch no answer to r.
LEMMA AnswerKept ==
  ASSUME IInv, NEW r \in EngineRids, fromMaster' = fromMaster,
         target'[r] = target[r], replies'[r] = replies[r], engineGot'[r] = engineGot[r],
         r \in DOMAIN routing' => r \in DOMAIN routing
  PROVE  AnswerInv(r)'
<1>1. AnswerInv(r)
  BY DEF IInv
<1>2. Pending(r)' = Pending(r)
  BY DEF Pending
<1>3. \A i : Number(r, i)' = Number(r, i)
  BY DEF Number
<1> QED BY <1>1, <1>2, <1>3 DEF AnswerInv

\* Steps that touch no answer at all and route nothing anew (AnswerKept for
\* each request of the engine).
LEMMA AnswersKept ==
  ASSUME IInv, UNCHANGED <<fromMaster, target, replies, engineGot>>,
         DOMAIN routing' \subseteq DOMAIN routing
  PROVE  \A r \in EngineRids : AnswerInv(r)'
BY AnswerKept

\* A frame that is no answer to r leaves what is known of the answer to r.
LEMMA AnswerUndisturbed ==
  ASSUME IInv, NEW r \in EngineRids, NEW m \in Masters, NEW f \in Frames,
         Appended(fromMaster, fromMaster', m, f), ~ (f.type \in ReplyTypes /\ f.rid = r),
         target'[r] = target[r], replies'[r] = replies[r], engineGot'[r] = engineGot[r],
         r \in DOMAIN routing' => r \in DOMAIN routing
  PROVE  AnswerInv(r)'
<1>1. AnswerInv(r) /\ target[r] \in Masters \cup {NoMaster}
  BY SwitchAssumption DEF IInv, TypeOK, Rids
<1>2. CASE target[r] = NoMaster
  BY <1>1, <1>2 DEF AnswerInv
<1>3. CASE target[r] \in Masters
  <2>1. Pending(r)' = Pending(r)
    BY <1>3 DEF Pending, Appended
  <2>2. \A i \in Pending(r) : Number(r, i)' = Number(r, i)
    BY <1>3 DEF Pending, Number, Appended
  <2> QED BY <1>1, <2>1, <2>2 DEF AnswerInv
<1> QED BY <1>1, <1>2, <1>3

\* A master sends a frame.
LEMMA FromMasterGrows ==
  ASSUME IInv, NEW m \in Masters, NEW f \in Frames, Appended(fromMaster, fromMaster', m, f),
         f.type # "CANCEL",
         f.type = "REQ" =>
           /\ f.rid \in PeerRids /\ owner'[f.rid] = m /\ target[f.rid] = NoMaster
           /\ \A j \in DOMAIN fromMaster[m] :
                ~ (fromMaster[m][j].type = "REQ" /\ fromMaster[m][j].rid = f.rid),
         f.type \in ReplyTypes =>
           /\ f.from = m
           /\ target[f.rid] = m \/ (f.rid \in PeerRids /\ owner'[f.rid] = m),
         target' = target,
         \A r \in PeerRids : owner[r] \in Masters => owner'[r] = owner[r]
  PROVE  \A o \in Masters : \A i \in DOMAIN fromMaster'[o] : FromMasterInv(o, i)'
<1> SUFFICES ASSUME NEW o \in Masters, NEW i \in DOMAIN fromMaster'[o]
             PROVE  FromMasterInv(o, i)'
  OBVIOUS
<1>1. CASE i \in DOMAIN fromMaster[o]
  <2>1. FromMasterInv(o, i) /\ fromMaster'[o][i] = fromMaster[o][i]
    BY <1>1 DEF IInv, Appended
  <2>2. fromMaster[o][i].type = "REQ" =>
          \A j \in DOMAIN fromMaster'[o] :
            fromMaster'[o][j].type = "REQ" /\ fromMaster'[o][j].rid = fromMaster[o][i].rid => i = j
    BY <1>1, <2>1 DEF FromMasterInv, Appended
  <2> QED BY <2>1, <2>2 DEF FromMasterInv
<1>2. CASE i \notin DOMAIN fromMaster[o]
  <2>1. o = m /\ i = Len(fromMaster[m]) + 1 /\ fromMaster'[o][i] = f
    BY <1>2 DEF Appended
  <2>2. f.type = "REQ" =>
          \A j \in DOMAIN fromMaster'[m] :
            fromMaster'[m][j].type = "REQ" /\ fromMaster'[m][j].rid = f.rid => i = j
    BY <2>1 DEF Appended
  <2> QED BY <2>1, <2>2 DEF FromMasterInv
<1> QED BY <1>1, <1>2

\* A frame that a live master writes is the last of its channel.
LEMMA SendIsAppended ==
  ASSUME TypeOK, NEW m \in Masters, NEW f \in Frames, MasterSend(m, f)
  PROVE  Appended(fromMaster, fromMaster', m, f)
BY AppendIsAppended DEF TypeOK, MasterSend

-----------------------------------------------------------------------------
(***************************************************************************)
(* The steps of a master preserve the invariant                            *)
(***************************************************************************)

\* A master that takes its next frame keeps the invariant: what it serves was
\* routed to it and not answered yet.
LEMMA MasterTakeStep ==
  ASSUME IInv, NEW m \in Masters, MasterTake(m)
  PROVE  IInv'
<1> DEFINE f == Head(toMaster[m])
<1>1. /\ TypeOK /\ toMaster \in [Masters -> Seq(Frames)] /\ m \in alive
      /\ Tailed(toMaster, toMaster', m)
      /\ f = toMaster[m][1] /\ f \in Frames
      /\ serving' = [serving EXCEPT ![m] = IF f.type = "REQ" THEN @ \cup {f.rid} ELSE @]
  <2>1. toMaster \in [Masters -> Seq(Frames)] /\ TypeOK
    BY DEF IInv, TypeOK
  <2>2. Tailed(toMaster, toMaster', m)
    BY <2>1, TailIsTailed DEF MasterTake
  <2> QED BY <2>1, <2>2 DEF MasterTake, Tailed
<1>2. UNCHANGED <<masters, capTable, aggregate, capabilities, limits, routing, peerRequests,
                  intervened, target, fromMaster, alive, owner, parent, replies, notifies, asked,
                  engineGot>>
  BY DEF MasterTake, tables, routes
<1>3. TypeOK'
  <2>1. toMaster' \in [Masters -> Seq(Frames)]
    BY <1>1 DEF Tailed
  <2>2. serving' \in [Masters -> SUBSET Rids]
    BY <1>1, FrameFields DEF TypeOK
  <2> QED BY <1>1, <1>2, <2>1, <2>2 DEF TypeOK
<1>4. TablesAreCurrent'
  BY <1>2 DEF IInv, TablesAreCurrent
<1>5. RoutesToHealthy'
  BY <1>2 DEF IInv, RoutesToHealthy
<1>6. \A r \in Rids : LifeInv(r)'
  BY <1>2 DEF IInv, LifeInv
<1>7. \A o \in Masters : DeathInv(o)'
  BY <1>1, <1>2 DEF IInv, DeathInv, Tailed, TypeOK
<1>8. \A o \in Masters : ServingInv(o)'
  <2>1. f.type = "REQ" => target[f.rid] = m /\ replies[f.rid] = 0
    BY <1>1 DEF IInv, ToMasterInv, Tailed
  <2> QED BY <1>1, <1>2, <2>1, SwitchAssumption DEF IInv, ServingInv, TypeOK
<1>9. \A o \in Masters : \A i \in DOMAIN toMaster'[o] : ToMasterInv(o, i)'
  <2>1. ASSUME NEW o \in Masters, o # m, NEW i \in DOMAIN toMaster'[o] PROVE ToMasterInv(o, i)'
    BY <1>1, <1>2, <2>1 DEF IInv, ToMasterInv, Tailed, TypeOK
  <2>2. ASSUME NEW i \in DOMAIN toMaster'[m] PROVE ToMasterInv(m, i)'
    <3>1. /\ i \in Nat /\ i + 1 \in DOMAIN toMaster[m] /\ i + 1 # 1
          /\ toMaster'[m][i] = toMaster[m][i + 1]
      BY <1>1 DEF Tailed
    <3>2. ToMasterInv(m, i + 1) /\ ToMasterInv(m, 1)
      BY <1>1, <3>1 DEF IInv, Tailed
    <3>3. \A j \in DOMAIN toMaster'[m] :
            /\ j \in Nat /\ j + 1 \in DOMAIN toMaster[m]
            /\ toMaster'[m][j] = toMaster[m][j + 1]
      BY <1>1 DEF Tailed
    <3>4. toMaster[m][i + 1].type = "REQ" => toMaster[m][i + 1].rid \notin serving'[m]
      BY <1>1, <3>1, <3>2 DEF ToMasterInv, Tailed, TypeOK
    <3> QED BY <1>2, <3>1, <3>2, <3>3, <3>4 DEF ToMasterInv
  <2> QED BY <2>1, <2>2
<1>10. \A o \in Masters : \A i \in DOMAIN fromMaster'[o] : FromMasterInv(o, i)'
  BY <1>2 DEF IInv, FromMasterInv
<1>11. \A r \in EngineRids : AnswerInv(r)'
  BY <1>2, AnswersKept
<1>12. PeerAnswersStayInternal'
  BY <1>2 DEF IInv, PeerAnswersStayInternal
<1> QED BY <1>3, <1>4, <1>5, <1>6, <1>7, <1>8, <1>9, <1>10, <1>11, <1>12 DEF IInv

\* A RelayNotify of a master keeps the invariant.
LEMMA MasterNotifyStep ==
  ASSUME IInv, NEW m \in Masters, NEW offer \in Offers, MasterNotify(m, offer)
  PROVE  IInv'
<1> DEFINE f == [type |-> "NOTIFY", offer |-> offer]
<1>1. TypeOK /\ m \in alive /\ f \in Frames /\ f.type = "NOTIFY"
  BY DEF IInv, MasterNotify, Frames
<1> HIDE DEF f
<1>2. Appended(fromMaster, fromMaster', m, f)
  BY <1>1, SendIsAppended DEF MasterNotify, f
<1>3. UNCHANGED <<masters, capTable, aggregate, capabilities, limits, routing, peerRequests,
                  intervened, target, toMaster, alive, owner, parent, serving, replies, asked,
                  engineGot>>
  BY DEF MasterNotify, tables, routes
<1>4. TypeOK'
  <2>1. notifies' \in 0..MaxNotify
    BY <1>1, SwitchAssumption DEF MasterNotify, TypeOK
  <2> QED BY <1>1, <1>2, <1>3, <2>1 DEF TypeOK, Appended
<1>5. TablesAreCurrent' /\ RoutesToHealthy'
  BY <1>3 DEF IInv, TablesAreCurrent, RoutesToHealthy
<1>6. \A r \in Rids : LifeInv(r)'
  BY <1>3 DEF IInv, LifeInv
<1>7. \A o \in Masters : DeathInv(o)'
  BY <1>1, <1>2, <1>3 DEF IInv, DeathInv, MasterNotify, MasterSend, TypeOK
<1>8. \A o \in Masters : ServingInv(o)'
  BY <1>3 DEF IInv, ServingInv
<1>9. \A o \in Masters : \A i \in DOMAIN toMaster'[o] : ToMasterInv(o, i)'
  BY <1>3 DEF IInv, ToMasterInv
<1>10. \A o \in Masters : \A i \in DOMAIN fromMaster'[o] : FromMasterInv(o, i)'
  BY <1>1, <1>2, <1>3, FromMasterGrows DEF ReplyTypes
<1>11. \A r \in EngineRids : AnswerInv(r)'
  BY <1>1, <1>2, <1>3, AnswerUndisturbed DEF ReplyTypes
<1>12. PeerAnswersStayInternal'
  BY <1>3 DEF IInv, PeerAnswersStayInternal
<1> QED BY <1>4, <1>5, <1>6, <1>7, <1>8, <1>9, <1>10, <1>11, <1>12 DEF IInv

\* The end of the body of a peer request keeps the invariant.
LEMMA MasterPeerEndStep ==
  ASSUME IInv, NEW m \in Masters, NEW rid \in PeerRids, MasterPeerEnd(m, rid)
  PROVE  IInv'
<1> DEFINE f == Msg("END", rid, m, 0)
<1>1. /\ TypeOK /\ m \in alive /\ owner[rid] = m /\ asked[rid] = "open" /\ rid \in Rids
      /\ rid \notin EngineRids
      /\ f \in Frames /\ f.type = "END" /\ f.rid = rid /\ f.from = m
  <2>1. rid \in Rids /\ rid \notin EngineRids /\ 0 \in 0..MaxReply
    BY SwitchAssumption DEF Rids
  <2>2. f \in Frames /\ f.type = "END" /\ f.rid = rid /\ f.from = m
    BY <2>1, MsgIsFrame DEF ReplyTypes
  <2> QED BY <2>1, <2>2 DEF IInv, MasterPeerEnd
<1> HIDE DEF f
<1>2. Appended(fromMaster, fromMaster', m, f)
  BY <1>1, SendIsAppended DEF MasterPeerEnd, f
<1>3. UNCHANGED <<masters, capTable, aggregate, capabilities, limits, routing, peerRequests,
                  intervened, target, toMaster, alive, owner, parent, serving, replies, notifies,
                  engineGot>>
  BY DEF MasterPeerEnd, tables, routes, masterSide
<1>4. asked' = [asked EXCEPT ![rid] = "closed"]
  BY DEF MasterPeerEnd
<1>5. TypeOK'
  BY <1>1, <1>2, <1>3, <1>4 DEF TypeOK, Appended
<1>6. TablesAreCurrent' /\ RoutesToHealthy'
  BY <1>3 DEF IInv, TablesAreCurrent, RoutesToHealthy
<1>7. \A r \in Rids : LifeInv(r)'
  BY <1>1, <1>3, <1>4 DEF IInv, LifeInv, TypeOK
<1>8. \A o \in Masters : DeathInv(o)'
  BY <1>1, <1>2, <1>3 DEF IInv, DeathInv, MasterPeerEnd, MasterSend, TypeOK
<1>9. \A o \in Masters : ServingInv(o)'
  BY <1>3 DEF IInv, ServingInv
<1>10. \A o \in Masters : \A i \in DOMAIN toMaster'[o] : ToMasterInv(o, i)'
  BY <1>3 DEF IInv, ToMasterInv
<1>11. \A o \in Masters : \A i \in DOMAIN fromMaster'[o] : FromMasterInv(o, i)'
  BY <1>1, <1>2, <1>3, FromMasterGrows
<1>12. \A r \in EngineRids : AnswerInv(r)'
  BY <1>1, <1>2, <1>3, AnswerUndisturbed
<1>13. PeerAnswersStayInternal'
  BY <1>3 DEF IInv, PeerAnswersStayInternal
<1> QED BY <1>5, <1>6, <1>7, <1>8, <1>9, <1>10, <1>11, <1>12, <1>13 DEF IInv

\* A new peer request keeps the invariant: no request has its id yet.
LEMMA MasterAskPeerStep ==
  ASSUME IInv, NEW m \in Masters, NEW rid \in PeerRids, NEW for \in EngineRids, NEW cap \in Caps,
         MasterAskPeer(m, rid, for, cap)
  PROVE  IInv'
<1> DEFINE f == [type |-> "REQ", rid |-> rid, from |-> m, n |-> 0, cap |-> cap]
<1>1. /\ TypeOK /\ m \in alive /\ asked[rid] = "idle" /\ rid \in Rids /\ rid \notin EngineRids
      /\ f \in Frames /\ f.type = "REQ" /\ f.rid = rid
  BY SwitchAssumption DEF IInv, MasterAskPeer, Frames, Rids
<1> HIDE DEF f
<1>2. Appended(fromMaster, fromMaster', m, f)
  BY <1>1, SendIsAppended DEF MasterAskPeer, f
<1>3. UNCHANGED <<masters, capTable, aggregate, capabilities, limits, routing, peerRequests,
                  intervened, target, toMaster, alive, serving, replies, notifies, engineGot>>
  BY DEF MasterAskPeer, tables, routes
<1>4. /\ asked' = [asked EXCEPT ![rid] = "open"]
      /\ owner' = [owner EXCEPT ![rid] = m]
      /\ parent' = [parent EXCEPT ![rid] = for]
  BY DEF MasterAskPeer
<1>5. owner[rid] = NoMaster /\ target[rid] = NoMaster /\ engineGot[rid] = <<>>
      /\ rid \notin DOMAIN routing
  BY <1>1 DEF IInv, LifeInv
<1>6. TypeOK'
  BY <1>1, <1>2, <1>3, <1>4 DEF TypeOK, Appended
<1>7. TablesAreCurrent' /\ RoutesToHealthy'
  BY <1>3 DEF IInv, TablesAreCurrent, RoutesToHealthy
<1>8. \A r \in Rids : LifeInv(r)'
  BY <1>1, <1>3, <1>4, <1>5 DEF IInv, LifeInv, TypeOK
<1>9. \A o \in Masters : DeathInv(o)'
  BY <1>1, <1>2, <1>3 DEF IInv, DeathInv, MasterAskPeer, MasterSend, TypeOK
<1>10. \A o \in Masters : ServingInv(o)'
  BY <1>3 DEF IInv, ServingInv
<1>11. \A o \in Masters : \A i \in DOMAIN toMaster'[o] : ToMasterInv(o, i)'
  BY <1>3 DEF IInv, ToMasterInv
<1>12. \A o \in Masters : \A i \in DOMAIN fromMaster'[o] : FromMasterInv(o, i)'
  <2>1. NoMaster \notin Masters
    BY DEF NoMaster, Masters
  <2>2. \A j \in DOMAIN fromMaster[m] :
          ~ (fromMaster[m][j].type = "REQ" /\ fromMaster[m][j].rid = rid)
    BY <1>5, <2>1 DEF IInv, FromMasterInv
  <2>3. \A r \in PeerRids : owner[r] \in Masters => owner'[r] = owner[r]
    BY <1>1, <1>4, <1>5, <2>1 DEF TypeOK
  <2>4. owner'[rid] = m
    BY <1>1, <1>4 DEF TypeOK
  <2> QED BY <1>1, <1>2, <1>3, <1>5, <2>2, <2>3, <2>4, FromMasterGrows DEF ReplyTypes
<1>13. \A r \in EngineRids : AnswerInv(r)'
  BY <1>1, <1>2, <1>3, AnswerUndisturbed DEF ReplyTypes
<1>14. PeerAnswersStayInternal'
  BY <1>1, <1>3, <1>4, <1>5 DEF IInv, PeerAnswersStayInternal, TypeOK
<1> QED BY <1>6, <1>7, <1>8, <1>9, <1>10, <1>11, <1>12, <1>13, <1>14 DEF IInv

\* A master that dies keeps the invariant: nothing is on the way to it any more.
LEMMA MasterDieStep ==
  ASSUME IInv, NEW m \in Masters, MasterDie(m)
  PROVE  IInv'
<1>1. /\ TypeOK /\ m \in alive /\ alive' = alive \ {m}
      /\ toMaster' = [toMaster EXCEPT ![m] = <<>>]
      /\ serving' = [serving EXCEPT ![m] = {}]
  BY DEF IInv, MasterDie
<1>2. UNCHANGED <<masters, capTable, aggregate, capabilities, limits, routing, peerRequests,
                  intervened, target, fromMaster, owner, parent, replies, notifies, asked,
                  engineGot>>
  BY DEF MasterDie, tables, routes
<1>3. TypeOK'
  BY <1>1, <1>2 DEF TypeOK
<1>4. TablesAreCurrent' /\ RoutesToHealthy'
  BY <1>2 DEF IInv, TablesAreCurrent, RoutesToHealthy
<1>5. \A r \in Rids : LifeInv(r)'
  BY <1>2 DEF IInv, LifeInv
<1>6. \A o \in Masters : DeathInv(o)'
  BY <1>1, <1>2 DEF IInv, DeathInv, TypeOK
<1>7. \A o \in Masters : ServingInv(o)'
  BY <1>1, <1>2 DEF IInv, ServingInv, TypeOK
<1>8. \A o \in Masters : \A i \in DOMAIN toMaster'[o] : ToMasterInv(o, i)'
  <2>1. DOMAIN toMaster'[m] = {}
    BY <1>1 DEF TypeOK
  <2> QED BY <1>1, <1>2, <2>1 DEF IInv, ToMasterInv, TypeOK
<1>9. \A o \in Masters : \A i \in DOMAIN fromMaster'[o] : FromMasterInv(o, i)'
  BY <1>2 DEF IInv, FromMasterInv
<1>10. \A r \in EngineRids : AnswerInv(r)'
  BY <1>2, AnswersKept
<1>11. PeerAnswersStayInternal'
  BY <1>2 DEF IInv, PeerAnswersStayInternal
<1> QED BY <1>3, <1>4, <1>5, <1>6, <1>7, <1>8, <1>9, <1>10, <1>11 DEF IInv

\* A response frame of a master keeps the invariant: it carries the next number
\* of the response.
LEMMA MasterReplyStep ==
  ASSUME IInv, NEW m \in Masters, NEW rid \in Rids, NEW type \in ReplyTypes,
         MasterReply(m, rid, type)
  PROVE  IInv'
<1> DEFINE f == Msg(type, rid, m, replies[rid])
<1>1. /\ TypeOK /\ m \in alive /\ rid \in serving[m] /\ target[rid] = m
      /\ replies[rid] \in Nat /\ replies[rid] < MaxReply
      /\ Terminal(type) \/ replies[rid] + 1 < MaxReply
  BY SwitchAssumption DEF IInv, ServingInv, MasterReply, TypeOK
<1>2. f \in Frames /\ f.type = type /\ f.rid = rid /\ f.from = m /\ f.n = replies[rid]
  <2>1. replies[rid] \in 0..MaxReply
    BY <1>1, SwitchAssumption
  <2> QED BY <2>1, MsgIsFrame
<1> HIDE DEF f
<1>3. Appended(fromMaster, fromMaster', m, f)
  BY <1>1, <1>2, SendIsAppended DEF MasterReply, f
<1>4. UNCHANGED <<masters, capTable, aggregate, capabilities, limits, routing, peerRequests,
                  intervened, target, toMaster, alive, owner, parent, notifies, asked, engineGot>>
  BY DEF MasterReply, tables, routes
<1>5. /\ replies' = [replies EXCEPT ![rid] = @ + 1]
      /\ serving' = [serving EXCEPT ![m] = IF Terminal(type) THEN @ \ {rid} ELSE @]
  BY DEF MasterReply
<1>6. TypeOK'
  <2>1. replies' \in [Rids -> 0..MaxReply]
    BY <1>1, <1>5, SwitchAssumption DEF TypeOK
  <2> QED BY <1>1, <1>3, <1>4, <1>5, <2>1 DEF TypeOK, Appended
<1>7. TablesAreCurrent' /\ RoutesToHealthy'
  BY <1>4 DEF IInv, TablesAreCurrent, RoutesToHealthy
<1>8. \A r \in Rids : LifeInv(r)'
  <2>1. target[rid] # NoMaster
    BY <1>1 DEF NoMaster, Masters
  <2> QED BY <1>1, <1>4, <1>5, <2>1 DEF IInv, LifeInv, TypeOK
<1>9. \A o \in Masters : DeathInv(o)'
  BY <1>1, <1>3, <1>4, <1>5 DEF IInv, DeathInv, MasterReply, MasterSend, TypeOK
<1>10. \A o \in Masters : ServingInv(o)'
  <2>1. \A o \in Masters : \A r \in serving'[o] : r \in serving[o]
    BY <1>1, <1>5 DEF TypeOK
  <2>2. ~ Terminal(type) => replies'[rid] < MaxReply
    BY <1>1, <1>5 DEF TypeOK
  <2>3. \A o \in Masters : rid \in serving'[o] => o = m /\ ~ Terminal(type)
    BY <1>1, <1>5, <2>1 DEF IInv, ServingInv, TypeOK
  <2>4. \A r \in Rids : r # rid => replies'[r] = replies[r]
    BY <1>1, <1>5 DEF TypeOK
  <2> SUFFICES ASSUME NEW o \in Masters, NEW r \in serving'[o]
               PROVE  target'[r] = o /\ replies'[r] < MaxReply
    BY DEF ServingInv
  <2>5. r \in Rids /\ target[r] = o /\ replies[r] < MaxReply
    BY <1>1, <2>1 DEF IInv, ServingInv, TypeOK
  <2> QED BY <1>4, <2>2, <2>3, <2>4, <2>5
<1>11. \A o \in Masters : \A i \in DOMAIN toMaster'[o] : ToMasterInv(o, i)'
  <2> SUFFICES ASSUME NEW o \in Masters, NEW i \in DOMAIN toMaster[o]
               PROVE  ToMasterInv(o, i)'
    BY <1>4
  <2>1. ToMasterInv(o, i) /\ toMaster[o][i] \in Frames
    BY <1>1 DEF IInv, TypeOK
  <2>2. toMaster[o][i].type = "REQ" => toMaster[o][i].rid # rid
    BY <1>1, <2>1 DEF ToMasterInv
  <2>3. toMaster[o][i].type = "REQ" =>
          /\ replies'[toMaster[o][i].rid] = replies[toMaster[o][i].rid]
          /\ toMaster[o][i].rid \notin serving'[o]
    BY <1>1, <1>5, <2>1, <2>2, FrameFields DEF ToMasterInv, TypeOK
  <2> QED BY <1>4, <2>1, <2>3 DEF ToMasterInv
<1>12. \A o \in Masters : \A i \in DOMAIN fromMaster'[o] : FromMasterInv(o, i)'
  BY <1>1, <1>2, <1>3, <1>4, FromMasterGrows DEF ReplyTypes
<1>13. \A r \in EngineRids : AnswerInv(r)'
  <2>1. ASSUME NEW r \in EngineRids, r # rid PROVE AnswerInv(r)'
    <3>1. replies'[r] = replies[r]
      BY <1>1, <1>5, <2>1 DEF TypeOK, Rids
    <3> QED BY <1>2, <1>3, <1>4, <2>1, <3>1, AnswerUndisturbed
  <2>2. ASSUME rid \in EngineRids PROVE AnswerInv(rid)'
    <3> DEFINE got == Len(engineGot[rid])
    <3>0. PICK new \in Nat : new = Len(fromMaster[m]) + 1
      BY <1>1 DEF TypeOK
    <3>1. /\ replies'[rid] = replies[rid] + 1 /\ got \in Nat /\ got <= replies[rid]
          /\ AnswerInv(rid) /\ target'[rid] = m /\ target[rid] = m /\ m # NoMaster
      BY <1>1, <1>4, <1>5, <2>2 DEF IInv, AnswerInv, TypeOK, NoMaster, Masters
    <3>2. Pending(rid)' = Pending(rid) \cup {new}
      BY <1>2, <1>3, <3>0, <3>1 DEF Pending, Appended
    <3>3. \A i \in Pending(rid) : Number(rid, i)' = Number(rid, i) /\ i < new
      BY <1>3, <3>0, <3>1 DEF Pending, Number, Appended
    <3>4. Number(rid, new)' = replies[rid]
      BY <1>2, <1>3, <3>0, <3>1 DEF Number, Appended
    <3>5. \A i \in Pending(rid) : Number(rid, i) \in got..(replies[rid] - 1)
      BY <3>1 DEF AnswerInv
    <3>6. \A i \in Pending(rid)' : Number(rid, i)' \in got..(replies'[rid] - 1)
      <4>1. ASSUME NEW i \in Pending(rid) PROVE Number(rid, i)' \in got..(replies'[rid] - 1)
        BY <1>1, <3>1, <3>3, <3>5
      <4>2. Number(rid, new)' \in got..(replies'[rid] - 1)
        BY <1>1, <3>1, <3>4
      <4> QED BY <3>2, <4>1, <4>2
    <3>7. \A i, j \in Pending(rid)' : i < j => Number(rid, i)' < Number(rid, j)'
      <4>1. \A i, j \in Pending(rid) : i < j => Number(rid, i) < Number(rid, j)
        BY <3>1 DEF AnswerInv
      <4>2. \A i \in Pending(rid) : Number(rid, i) < replies[rid] /\ ~ (new < i) /\ ~ (new < new)
        BY <1>1, <1>3, <3>1, <3>3, <3>5 DEF Pending, Appended, TypeOK
      <4> QED BY <1>1, <3>2, <3>3, <3>4, <4>1, <4>2
    <3>8. \A k \in got..(replies'[rid] - 1) : \E i \in Pending(rid)' : Number(rid, i)' = k
      <4> SUFFICES ASSUME NEW k \in got..(replies'[rid] - 1)
                   PROVE  \E i \in Pending(rid)' : Number(rid, i)' = k
        OBVIOUS
      <4>1. CASE k = replies[rid]
        BY <4>1, <3>2, <3>4
      <4>2. CASE k # replies[rid]
        <5>1. k \in got..(replies[rid] - 1)
          BY <1>1, <3>1, <4>2
        <5> QED BY <3>1, <3>2, <3>3, <5>1 DEF AnswerInv
      <4> QED BY <4>1, <4>2
    <3>9. got <= replies'[rid]
      BY <1>1, <3>1
    <3>10. \A i \in DOMAIN engineGot[rid] :
             /\ engineGot[rid][i].from = target[rid] /\ engineGot[rid][i].n = i - 1
             /\ Terminal(engineGot[rid][i].type) => rid \notin DOMAIN routing
      BY <3>1 DEF AnswerInv
    <3>11. engineGot' = engineGot /\ target' = target /\ routing' = routing
      BY <1>4
    <3> HIDE DEF Pending, Number, Terminal
    <3> QED BY <3>6, <3>7, <3>8, <3>9, <3>10, <3>11 DEF AnswerInv
  <2> QED BY <2>1, <2>2
<1>14. PeerAnswersStayInternal'
  BY <1>4 DEF IInv, PeerAnswersStayInternal
<1> QED BY <1>6, <1>7, <1>8, <1>9, <1>10, <1>11, <1>12, <1>13, <1>14 DEF IInv

-----------------------------------------------------------------------------
(***************************************************************************)
(* The steps of the engine preserve the invariant                          *)
(***************************************************************************)

\* Forget(rids) drops the entries of rids and leaves the others alone.
LEMMA ForgetEffect ==
  ASSUME NEW rids
  PROVE  /\ DOMAIN Forget(rids) = DOMAIN routing \ rids
         /\ \A r \in DOMAIN routing \ rids : Forget(rids)[r] = routing[r]
BY DEF Forget, Restrict

\* A frame written to a live master is the last of its channel; a frame written
\* to a dead one is lost.
LEMMA WriteIsAppended ==
  ASSUME TypeOK, NEW m \in Masters, NEW f \in Frames, Write(m, f)
  PROVE  /\ m \in alive => Appended(toMaster, toMaster', m, f)
         /\ m \notin alive => toMaster' = toMaster
         /\ toMaster' \in [Masters -> Seq(Frames)]
BY AppendIsAppended DEF TypeOK, Write, Appended

\* Steps that write nothing to a master and route no request anew.
LEMMA ToMasterStays ==
  ASSUME IInv, UNCHANGED <<toMaster, replies, serving>>,
         \A r \in Rids : target[r] \in Masters => target'[r] = target[r],
         \A r \in Rids : target[r] # NoMaster /\ r \in DOMAIN routing' => r \in DOMAIN routing
  PROVE  \A o \in Masters : \A i \in DOMAIN toMaster'[o] : ToMasterInv(o, i)'
<1> SUFFICES ASSUME NEW o \in Masters, NEW i \in DOMAIN toMaster[o]
             PROVE  ToMasterInv(o, i)'
  OBVIOUS
<1>1. ToMasterInv(o, i) /\ toMaster[o][i] \in Frames
  BY DEF IInv, TypeOK
<1>2. o # NoMaster
  BY DEF NoMaster, Masters
<1>3. toMaster[o][i].rid \in Rids
  BY <1>1, FrameFields DEF ToMasterInv
<1> QED BY <1>1, <1>2, <1>3 DEF ToMasterInv

\* A frame is written to a master.
LEMMA ToMasterGrows ==
  ASSUME IInv, NEW m \in Masters, NEW f \in Frames, Appended(toMaster, toMaster', m, f),
         UNCHANGED <<replies, serving>>,
         \A r \in Rids : target[r] \in Masters => target'[r] = target[r],
         \A r \in Rids : target[r] # NoMaster /\ r \in DOMAIN routing' => r \in DOMAIN routing,
         f.type \notin {"NOTIFY", "CANCEL"},
         f.type = "REQ" \/ f.rid \in EngineRids => target'[f.rid] = m,
         f.type = "REQ" => target[f.rid] = NoMaster,
         f.rid \in DOMAIN routing \/ target[f.rid] = NoMaster
  PROVE  \A o \in Masters : \A i \in DOMAIN toMaster'[o] : ToMasterInv(o, i)'
<1> SUFFICES ASSUME NEW o \in Masters, NEW i \in DOMAIN toMaster'[o]
             PROVE  ToMasterInv(o, i)'
  OBVIOUS
<1>1. \A x \in Masters : x # NoMaster
  BY DEF NoMaster, Masters
<1>2. \A x \in Masters : \A j \in DOMAIN toMaster[x] :
        /\ ToMasterInv(x, j) /\ toMaster[x][j].rid \in Rids
        /\ toMaster'[x][j] = toMaster[x][j]
  BY SMTT(30), FrameFields DEF IInv, TypeOK, ToMasterInv, Appended
<1>3. f.rid \in Rids
  BY FrameFields
<1>4. f.type = "REQ" => \A j \in DOMAIN toMaster[m] :
        ~ (toMaster[m][j].type = "REQ" /\ toMaster[m][j].rid = f.rid)
  BY <1>1, <1>2 DEF ToMasterInv
<1>5. \A j \in DOMAIN toMaster[m] : toMaster[m][j].type = "CANCEL" => toMaster[m][j].rid # f.rid
  BY <1>1, <1>2 DEF ToMasterInv
<1>6. CASE i \in DOMAIN toMaster[o]
  <2>1. toMaster[o][i].type = "REQ" => \A j \in DOMAIN toMaster'[o] :
          toMaster'[o][j].type = "REQ" /\ toMaster'[o][j].rid = toMaster[o][i].rid => i = j
    BY <1>2, <1>4, <1>6 DEF ToMasterInv, Appended
  <2>2. toMaster[o][i].type = "CANCEL" => \A j \in DOMAIN toMaster'[o] :
          i < j => toMaster'[o][j].rid # toMaster[o][i].rid
    BY <1>2, <1>5, <1>6 DEF ToMasterInv, Appended
  <2> QED BY <1>1, <1>2, <1>6, <2>1, <2>2 DEF ToMasterInv
<1>7. CASE i \notin DOMAIN toMaster[o]
  <2>1. o = m /\ i = Len(toMaster[m]) + 1 /\ toMaster'[o][i] = f
    BY <1>7 DEF Appended
  <2>2. f.type = "REQ" => replies[f.rid] = 0 /\ f.rid \notin serving[m]
    BY <1>1, <1>3 DEF IInv, LifeInv, ServingInv
  <2>3. f.type = "REQ" => \A j \in DOMAIN toMaster'[m] :
          toMaster'[m][j].type = "REQ" /\ toMaster'[m][j].rid = f.rid => i = j
    BY <1>2, <1>4, <2>1 DEF Appended
  <2> QED BY <2>1, <2>2, <2>3 DEF ToMasterInv
<1> QED BY <1>6, <1>7

\* Steps that read nothing from a master and route no peer request.
LEMMA FromMasterStays ==
  ASSUME IInv, UNCHANGED <<fromMaster, owner>>,
         \A r \in Rids : r \in PeerRids \/ target[r] \in Masters => target'[r] = target[r]
  PROVE  \A o \in Masters : \A i \in DOMAIN fromMaster'[o] : FromMasterInv(o, i)'
<1> SUFFICES ASSUME NEW o \in Masters, NEW i \in DOMAIN fromMaster[o]
             PROVE  FromMasterInv(o, i)'
  OBVIOUS
<1>1. FromMasterInv(o, i) /\ fromMaster[o][i] \in Frames
  BY DEF IInv, TypeOK
<1>2. fromMaster[o][i].type \in ReplyTypes \cup {"REQ"} => fromMaster[o][i].rid \in Rids
  BY <1>1, FrameFields DEF ReplyTypes
<1> QED BY <1>1, <1>2 DEF FromMasterInv

\* SendToMaster of a REQ keeps the invariant: the request is routed to the
\* master that findMasterForCap picks, and the entry says so.
LEMMA SendReqStep ==
  ASSUME IInv, NEW rid \in EngineRids, NEW cap \in Caps, NEW preferred,
         SendReq(rid, cap, preferred)
  PROVE  IInv'
<1> DEFINE dest == FindMasterForCap(cap, preferred)
           f == Msg("REQ", rid, ENGINE_SOURCE, 0)
<1>1. /\ TypeOK /\ TablesAreCurrent /\ asked[rid] = "idle" /\ rid \in Rids /\ rid \notin PeerRids
      /\ target[rid] = NoMaster /\ replies[rid] = 0 /\ engineGot[rid] = <<>>
      /\ rid \notin DOMAIN routing
  BY SwitchAssumption DEF IInv, LifeInv, SendReq, Rids
<1>2. UNCHANGED <<masters, capTable, aggregate, capabilities, limits, peerRequests, intervened,
                  fromMaster, alive, owner, parent, serving, replies, notifies, engineGot>>
  BY DEF SendReq, tables, masterSide
<1>3. CASE dest = NoMaster
  <2>1. asked' = [asked EXCEPT ![rid] = "refused"] /\ UNCHANGED <<routing, target, toMaster>>
    BY <1>3 DEF SendReq
  <2>2. TypeOK'
    BY <1>1, <1>2, <2>1 DEF TypeOK
  <2>3. TablesAreCurrent' /\ RoutesToHealthy' /\ PeerAnswersStayInternal'
    BY <1>2, <2>1 DEF IInv, TablesAreCurrent, RoutesToHealthy, PeerAnswersStayInternal
  <2>4. \A r \in Rids : LifeInv(r)'
    BY <1>1, <1>2, <2>1 DEF IInv, LifeInv, TypeOK
  <2>5. \A o \in Masters : DeathInv(o)' /\ ServingInv(o)'
    BY <1>2, <2>1 DEF IInv, DeathInv, ServingInv
  <2>6. \A o \in Masters : \A i \in DOMAIN toMaster'[o] : ToMasterInv(o, i)'
    BY <1>2, <2>1, ToMasterStays
  <2>7. \A o \in Masters : \A i \in DOMAIN fromMaster'[o] : FromMasterInv(o, i)'
    BY <1>2, <2>1, FromMasterStays
  <2>8. \A r \in EngineRids : AnswerInv(r)'
    BY <1>2, <2>1, AnswersKept
  <2> QED BY <2>2, <2>3, <2>4, <2>5, <2>6, <2>7, <2>8 DEF IInv
<1>4. CASE dest # NoMaster
  <2>1. dest \in Masters /\ masters[dest].healthy
    BY <1>1, <1>4, FoundIsHealthy
  <2>2. PICK d \in Masters : d = dest
    BY <2>1
  <2> HIDE DEF dest
  <2>3. /\ routing' = Route(rid, ENGINE_SOURCE, d)
        /\ target' = [target EXCEPT ![rid] = d]
        /\ Write(d, f)
        /\ asked' = [asked EXCEPT ![rid] = IF d \in alive THEN "open" ELSE "refused"]
    BY <1>4, <2>2 DEF SendReq, dest
  <2>4. f \in Frames /\ f.type = "REQ" /\ f.rid = rid
    <3>1. 0 \in 0..MaxReply
      BY SwitchAssumption
    <3> QED BY <1>1, <3>1 DEF Msg, Frames
  <2> HIDE DEF f
  <2>5. /\ DOMAIN routing' = DOMAIN routing \cup {rid}
        /\ routing'[rid] = [source |-> ENGINE_SOURCE, dest |-> d]
        /\ \A r \in DOMAIN routing : routing'[r] = routing[r]
    BY <1>1, <2>3 DEF Route
  <2>6. /\ target'[rid] = d /\ d # NoMaster
        /\ \A r \in Rids : r # rid => target'[r] = target[r]
    BY <1>1, <2>3 DEF TypeOK, NoMaster, Masters
  <2>7. TypeOK'
    <3>1. toMaster' \in [Masters -> Seq(Frames)]
      BY <1>1, <2>3, <2>4, WriteIsAppended
    <3> QED BY <1>1, <1>2, <2>3, <2>5, <3>1 DEF TypeOK
  <2>8. TablesAreCurrent' /\ RoutesToHealthy' /\ PeerAnswersStayInternal'
    BY <1>2, <2>1, <2>2, <2>5 DEF IInv, TablesAreCurrent, RoutesToHealthy, PeerAnswersStayInternal
  <2>9. \A r \in Rids : LifeInv(r)'
    <3>1. ASSUME NEW r \in Rids, r # rid PROVE LifeInv(r)'
      <4>1. asked'[r] = asked[r]
        BY <1>1, <2>3, <3>1 DEF TypeOK
      <4> QED BY <1>2, <2>5, <2>6, <3>1, <4>1 DEF IInv, LifeInv
    <3>2. asked'[rid] # "idle"
      BY <1>1, <2>3 DEF TypeOK
    <3>3. LifeInv(rid)'
      BY <1>1, <2>5, <2>6, <3>2 DEF LifeInv
    <3> QED BY <3>1, <3>3
  <2>10. \A o \in Masters : DeathInv(o)'
    BY <1>1, <1>2, <2>3 DEF IInv, DeathInv, Write, TypeOK
  <2>11. \A o \in Masters : ServingInv(o)'
    <3>1. \A o \in Masters : o # NoMaster
      BY DEF NoMaster, Masters
    <3> QED BY <1>1, <1>2, <2>6, <3>1 DEF IInv, ServingInv, TypeOK
  <2>12. \A o \in Masters : \A i \in DOMAIN toMaster'[o] : ToMasterInv(o, i)'
    <3>1. \A r \in Rids : target[r] \in Masters => target'[r] = target[r]
      BY <1>1, <2>6 DEF NoMaster, Masters
    <3>2. \A r \in Rids : target[r] # NoMaster /\ r \in DOMAIN routing' => r \in DOMAIN routing
      BY <1>1, <2>5
    <3>3. CASE d \in alive
      <4>1. Appended(toMaster, toMaster', d, f)
        BY <1>1, <2>3, <2>4, <3>3, WriteIsAppended
      <4> QED BY <1>1, <1>2, <2>4, <2>5, <2>6, <3>1, <3>2, <4>1, ToMasterGrows
    <3>4. CASE d \notin alive
      <4>1. toMaster' = toMaster
        BY <1>1, <2>3, <2>4, <3>4, WriteIsAppended
      <4> QED BY <1>2, <3>1, <3>2, <4>1, ToMasterStays
    <3> QED BY <3>3, <3>4
  <2>13. \A o \in Masters : \A i \in DOMAIN fromMaster'[o] : FromMasterInv(o, i)'
    <3>1. \A r \in Rids : r \in PeerRids \/ target[r] \in Masters => target'[r] = target[r]
      BY <1>1, <2>6 DEF NoMaster, Masters
    <3> QED BY <1>2, <3>1, FromMasterStays
  <2>14. \A r \in EngineRids : AnswerInv(r)'
    <3>1. ASSUME NEW r \in EngineRids, r # rid PROVE AnswerInv(r)'
      BY <1>2, <2>5, <2>6, <3>1, AnswerKept DEF Rids
    <3>2. AnswerInv(rid)'
      <4>1. Pending(rid)' = {}
        <5>1. \A i \in DOMAIN fromMaster[d] :
                ~ (fromMaster[d][i].type \in ReplyTypes /\ fromMaster[d][i].rid = rid)
          BY <1>1, <2>6 DEF IInv, FromMasterInv
        <5> QED BY <1>2, <2>6, <5>1 DEF Pending
      <4>2. replies'[rid] = 0 /\ engineGot'[rid] = <<>>
        BY <1>1, <1>2
      <4>3. Len(engineGot'[rid]) = 0 /\ DOMAIN engineGot'[rid] = {}
        BY <4>2
      <4>4. Len(engineGot'[rid])..(replies'[rid] - 1) = {}
        BY <4>2, <4>3
      <4> HIDE DEF Pending
      <4> QED BY <4>1, <4>2, <4>3, <4>4 DEF AnswerInv
    <3> QED BY <3>1, <3>2
  <2> QED BY <2>7, <2>8, <2>9, <2>10, <2>11, <2>12, <2>13, <2>14 DEF IInv
<1> QED BY <1>3, <1>4

\* SendToMaster of a later frame keeps the invariant: it follows the entry, and
\* the last frame for a peer request removes it.
LEMMA SendContinuationStep ==
  ASSUME IInv, NEW rid \in Rids, NEW type \in {"BODY", "END", "ERR"},
         SendContinuation(rid, type)
  PROVE  IInv'
<1> DEFINE d == routing[rid].dest
           f == Msg(type, rid, ENGINE_SOURCE, 0)
<1>1. /\ TypeOK
      /\ rid \in EngineRids => rid \notin peerRequests /\ asked[rid] # "idle"
      /\ rid \in EngineRids \/ rid \in PeerRids
  BY SwitchAssumption DEF IInv, SendContinuation, MayContinue, Rids, TypeOK
<1>2. UNCHANGED <<masters, capTable, aggregate, capabilities, limits, target, fromMaster, alive,
                  owner, parent, serving, replies, notifies, engineGot>>
  BY DEF SendContinuation, tables, masterSide
<1>3. /\ asked' \in [Rids -> {"idle", "open", "body", "closed", "refused"}]
      /\ \A r \in Rids : asked'[r] = "idle" <=> asked[r] = "idle"
  <2>1. asked' = asked \/ \E a \in {"body", "closed", "refused"} :
                           rid \in EngineRids /\ asked' = [asked EXCEPT ![rid] = a]
    BY DEF SendContinuation, EngineAt, AfterContinuation
  <2>2. asked \in [Rids -> {"idle", "open", "body", "closed", "refused"}]
    BY <1>1 DEF TypeOK
  <2>3. CASE asked' = asked
    BY <2>2, <2>3
  <2>4. ASSUME NEW a \in {"body", "closed", "refused"}, rid \in EngineRids,
               asked' = [asked EXCEPT ![rid] = a]
        PROVE  /\ asked' \in [Rids -> {"idle", "open", "body", "closed", "refused"}]
               /\ \A r \in Rids : asked'[r] = "idle" <=> asked[r] = "idle"
    <3>1. a # "idle" /\ a \in {"idle", "open", "body", "closed", "refused"}
      OBVIOUS
    <3> QED BY <1>1, <2>2, <2>4, <3>1
  <2> QED BY <2>1, <2>3, <2>4
<1>4. \/ UNCHANGED <<routing, peerRequests, intervened, toMaster>>
      \/ /\ rid \in DOMAIN routing /\ d \in alive /\ Write(d, f)
         /\ LET done == IF Terminal(type) THEN {rid} \cap peerRequests ELSE {}
            IN routing' = Forget(done) /\ peerRequests' = peerRequests \ done
         /\ Intervene({rid}, IF Terminal(type) THEN "ended" ELSE "body")
  BY DEF SendContinuation, Routed
<1>5. \E done \in SUBSET PeerRids :
        /\ DOMAIN routing' = DOMAIN routing \ done
        /\ \A r \in DOMAIN routing \ done : routing'[r] = routing[r]
        /\ peerRequests' = peerRequests \ done
        /\ intervened' \in [PeerRids -> {"no", "body", "ended"}]
        /\ \A r \in PeerRids : intervened[r] = "ended" \/ r \in done => intervened'[r] = "ended"
  <2>1. CASE UNCHANGED <<routing, peerRequests, intervened, toMaster>>
    <3>1. /\ DOMAIN routing' = DOMAIN routing \ {} /\ peerRequests' = peerRequests \ {}
          /\ \A r \in DOMAIN routing \ {} : routing'[r] = routing[r]
          /\ intervened' \in [PeerRids -> {"no", "body", "ended"}]
          /\ \A r \in PeerRids : intervened[r] = "ended" \/ r \in {} => intervened'[r] = "ended"
      BY <1>1, <2>1 DEF TypeOK
    <3> WITNESS {} \in SUBSET PeerRids
    <3> QED BY <3>1
  <2>2. CASE Terminal(type) /\ Intervene({rid}, "ended")
             /\ routing' = Forget({rid} \cap peerRequests)
             /\ peerRequests' = peerRequests \ ({rid} \cap peerRequests)
    <3>1. {rid} \cap peerRequests \in SUBSET PeerRids
      BY <1>1 DEF TypeOK
    <3> QED BY <1>1, <2>2, <3>1, ForgetEffect DEF Intervene, TypeOK
  <2>3. CASE ~Terminal(type) /\ Intervene({rid}, "body") /\ routing' = Forget({})
             /\ peerRequests' = peerRequests
    <3>1. type = "BODY"
      BY <2>3 DEF Terminal
    <3>2. rid \in PeerRids => intervened[rid] = "no"
      BY <1>1, <3>1, SwitchAssumption DEF SendContinuation, MayContinue
    <3>3. /\ DOMAIN routing' = DOMAIN routing \ {} /\ peerRequests' = peerRequests \ {}
          /\ \A r \in DOMAIN routing \ {} : routing'[r] = routing[r]
      BY <2>3, ForgetEffect
    <3>4. /\ intervened' \in [PeerRids -> {"no", "body", "ended"}]
          /\ \A r \in PeerRids : intervened[r] = "ended" \/ r \in {} => intervened'[r] = "ended"
      BY <1>1, <2>3, <3>2 DEF Intervene, TypeOK
    <3> WITNESS {} \in SUBSET PeerRids
    <3> QED BY <3>3, <3>4
  <2> QED BY <1>4, <2>1, <2>2, <2>3
<1>6. \/ toMaster' = toMaster
      \/ rid \in DOMAIN routing /\ d \in Masters /\ d = target[rid] /\ Appended(toMaster, toMaster', d, f)
  <2>1. CASE rid \in DOMAIN routing /\ d \in alive /\ Write(d, f)
    <3>1. f \in Frames
      <4>1. 0 \in 0..MaxReply
        BY SwitchAssumption
      <4> QED BY <4>1, MsgIsFrame DEF ReplyTypes
    <3>2. d = target[rid] /\ d \in Masters
      BY <1>1, <2>1 DEF IInv, LifeInv, TypeOK
    <3> HIDE DEF f, d
    <3> QED BY <1>1, <2>1, <3>1, <3>2, WriteIsAppended
  <2> QED BY <1>4, <2>1
<1>7. TypeOK'
  <2>1. toMaster' \in [Masters -> Seq(Frames)]
    BY <1>1, <1>6 DEF TypeOK, Appended
  <2>2. /\ DOMAIN routing' \subseteq DOMAIN routing /\ peerRequests' \subseteq peerRequests
        /\ \A r \in DOMAIN routing' : routing'[r] = routing[r]
        /\ intervened' \in [PeerRids -> {"no", "body", "ended"}]
    BY <1>5
  <2> QED BY <1>1, <1>2, <1>3, <2>1, <2>2 DEF TypeOK
<1>8. TablesAreCurrent' /\ RoutesToHealthy' /\ PeerAnswersStayInternal'
  BY <1>2, <1>5 DEF IInv, TablesAreCurrent, RoutesToHealthy, PeerAnswersStayInternal
<1>9. \A r \in Rids : LifeInv(r)'
  BY <1>1, <1>2, <1>3, <1>5, SwitchAssumption DEF IInv, LifeInv, TypeOK
<1>10. \A o \in Masters : DeathInv(o)'
  <2>1. \A o \in Masters : o \notin alive => toMaster'[o] = toMaster[o]
    BY <1>1, <1>4 DEF Write, TypeOK
  <2> QED BY <1>2, <2>1 DEF IInv, DeathInv
<1>11. \A o \in Masters : ServingInv(o)'
  BY <1>2 DEF IInv, ServingInv
<1>12. DOMAIN routing' \subseteq DOMAIN routing
  BY <1>5
<1>13. \A o \in Masters : \A i \in DOMAIN toMaster'[o] : ToMasterInv(o, i)'
  <2>1. CASE toMaster' = toMaster
    BY <1>2, <1>12, <2>1, ToMasterStays
  <2>2. CASE toMaster' # toMaster
    <3>1. f \in Frames /\ f.type = type /\ f.rid = rid
      <4>1. 0 \in 0..MaxReply
        BY SwitchAssumption
      <4> QED BY <4>1, MsgIsFrame DEF ReplyTypes
    <3> HIDE DEF f, d
    <3> QED BY <1>2, <1>6, <1>12, <2>2, <3>1, ToMasterGrows
  <2> QED BY <2>1, <2>2
<1>14. \A o \in Masters : \A i \in DOMAIN fromMaster'[o] : FromMasterInv(o, i)'
  BY <1>2, FromMasterStays
<1>15. \A r \in EngineRids : AnswerInv(r)'
  BY <1>2, <1>12, AnswersKept
<1> QED BY <1>7, <1>8, <1>9, <1>10, <1>11, <1>13, <1>14, <1>15 DEF IInv

\* CancelEach keeps the invariant, for requests of the engine and of the masters.
LEMMA CancelStep ==
  ASSUME IInv, NEW rids, rids \subseteq DOMAIN routing, CancelEach(rids)
  PROVE  IInv'
<1> DEFINE routedTo(m) == {r \in rids : routing[r].dest = m}
<1>1. TypeOK /\ IsFiniteSet(rids) /\ rids \subseteq Rids
  <2>1. TypeOK /\ rids \subseteq Rids
    BY DEF IInv, TypeOK
  <2> QED BY <2>1, SwitchAssumption, FS_Subset
<1>2. UNCHANGED <<masters, capTable, aggregate, capabilities, limits, target, fromMaster, alive,
                  owner, parent, serving, replies, notifies, asked, engineGot>>
  BY DEF CancelEach, tables, masterSide
<1>3. /\ DOMAIN routing' = DOMAIN routing \ rids
      /\ \A r \in DOMAIN routing \ rids : routing'[r] = routing[r]
      /\ peerRequests' = peerRequests \ rids
      /\ intervened' \in [PeerRids -> {"no", "body", "ended"}]
      /\ \A r \in PeerRids : intervened[r] = "ended" \/ r \in rids => intervened'[r] = "ended"
  <2>1. /\ intervened' \in [PeerRids -> {"no", "body", "ended"}]
        /\ \A r \in PeerRids : intervened[r] = "ended" \/ r \in rids => intervened'[r] = "ended"
    BY <1>1 DEF CancelEach, Intervene, TypeOK
  <2> QED BY <2>1, ForgetEffect DEF CancelEach
<1>4. PICK order \in [Masters -> UNION {SetToSeqs(routedTo(m)) : m \in Masters}] :
        /\ \A m \in Masters : order[m] \in SetToSeqs(routedTo(m))
        /\ toMaster' = [m \in Masters |->
             IF m \in alive
             THEN toMaster[m] \o [i \in DOMAIN order[m] |-> Msg("CANCEL", order[m][i], ENGINE_SOURCE, 0)]
             ELSE toMaster[m]]
  BY DEF CancelEach
<1> DEFINE cancels(m) == [i \in DOMAIN order[m] |-> Msg("CANCEL", order[m][i], ENGINE_SOURCE, 0)]
\* What is appended: one Cancel frame for each request routed to m.
<1>5. ASSUME NEW m \in Masters
      PROVE  /\ cancels(m) \in Seq(Frames)
             /\ \A i \in DOMAIN cancels(m) :
                  /\ cancels(m)[i].type = "CANCEL" /\ cancels(m)[i].rid \in rids
                  /\ routing[cancels(m)[i].rid].dest = m
             /\ \A i, j \in DOMAIN cancels(m) : i # j => cancels(m)[i].rid # cancels(m)[j].rid
  <2>1. PICK n \in Nat : n = Cardinality(routedTo(m))
    <3>1. IsFiniteSet(routedTo(m))
      BY <1>1, FS_Subset
    <3> QED BY <3>1, FS_CardinalityType
  <2>2. /\ order[m] \in [1..n -> routedTo(m)]
        /\ \A i, j \in 1..n : i # j => order[m][i] # order[m][j]
    BY <1>4, <2>1 DEF SetToSeqs
  <2>3. \A i \in 1..n :
          LET f == Msg("CANCEL", order[m][i], ENGINE_SOURCE, 0)
          IN f \in Frames /\ f.type = "CANCEL" /\ f.rid = order[m][i]
    <3>1. \A i \in 1..n : order[m][i] \in Rids
      BY <1>1, <2>2
    <3>2. 0 \in 0..MaxReply
      BY SwitchAssumption
    <3> QED BY <3>1, <3>2 DEF Msg, Frames
  <2> QED BY <2>2, <2>3
<1>6. ASSUME NEW m \in Masters, m \in alive
      PROVE  /\ toMaster'[m] = toMaster[m] \o cancels(m)
             /\ toMaster'[m] \in Seq(Frames)
             /\ \A i \in DOMAIN toMaster[m] : toMaster'[m][i] = toMaster[m][i]
             /\ \A i \in DOMAIN toMaster'[m] \ DOMAIN toMaster[m] :
                  /\ i - Len(toMaster[m]) \in DOMAIN cancels(m)
                  /\ toMaster'[m][i] = cancels(m)[i - Len(toMaster[m])]
  <2>1. toMaster[m] \in Seq(Frames) /\ toMaster'[m] = toMaster[m] \o cancels(m)
    BY <1>1, <1>4, <1>6 DEF TypeOK
  <2>2. cancels(m) \in Seq(Frames)
    BY <1>5
  <2> HIDE DEF cancels
  <2> QED BY <2>1, <2>2
<1> HIDE DEF cancels
<1>7. \A m \in Masters : m \notin alive => toMaster'[m] = toMaster[m]
  BY <1>4
<1>8. TypeOK'
  <2>1. toMaster' \in [Masters -> Seq(Frames)]
    <3>1. \A m \in Masters : toMaster'[m] \in Seq(Frames)
      BY <1>1, <1>6, <1>7 DEF TypeOK
    <3>2. toMaster' = [m \in Masters |-> toMaster'[m]]
      BY <1>4
    <3> QED BY <3>1, <3>2
  <2> QED BY <1>1, <1>2, <1>3, <2>1 DEF TypeOK
<1>9. TablesAreCurrent' /\ RoutesToHealthy' /\ PeerAnswersStayInternal'
  BY <1>2, <1>3 DEF IInv, TablesAreCurrent, RoutesToHealthy, PeerAnswersStayInternal
<1>10. \A r \in Rids : LifeInv(r)'
  BY <1>1, <1>2, <1>3 DEF IInv, LifeInv
<1>11. \A o \in Masters : DeathInv(o)' /\ ServingInv(o)'
  BY <1>2, <1>7 DEF IInv, DeathInv, ServingInv
<1>12. \A o \in Masters : \A i \in DOMAIN toMaster'[o] : ToMasterInv(o, i)'
  <2> SUFFICES ASSUME NEW o \in Masters, NEW i \in DOMAIN toMaster'[o]
               PROVE  ToMasterInv(o, i)'
    OBVIOUS
  <2>1. \A j \in DOMAIN toMaster[o] : ToMasterInv(o, j)
    BY DEF IInv
  <2>2. CASE o \notin alive
    BY <1>2, <1>3, <1>7, <2>1, <2>2 DEF ToMasterInv
  <2>3. CASE o \in alive /\ i \in DOMAIN toMaster[o]
    <3>1. toMaster'[o][i] = toMaster[o][i]
      BY <1>6, <2>3
    <3>2. \A j \in DOMAIN toMaster'[o] : j \notin DOMAIN toMaster[o] =>
            toMaster'[o][j].type = "CANCEL" /\ toMaster'[o][j].rid \in DOMAIN routing
      BY <1>5, <1>6, <2>3
    <3>3. \A j \in DOMAIN toMaster'[o] : j \in DOMAIN toMaster[o] => toMaster'[o][j] = toMaster[o][j]
      BY <1>6, <2>3
    <3> QED BY <1>2, <1>3, <2>1, <2>3, <3>1, <3>2, <3>3 DEF ToMasterInv
  <2>4. CASE o \in alive /\ i \notin DOMAIN toMaster[o]
    <3> DEFINE n == Len(toMaster[o])
    <3>1. n \in Nat /\ DOMAIN toMaster[o] = 1..n /\ DOMAIN toMaster'[o] \subseteq Nat
      BY <1>1, <1>6, <2>4 DEF TypeOK
    <3>2. /\ i - n \in DOMAIN cancels(o) /\ toMaster'[o][i] = cancels(o)[i - n]
          /\ toMaster'[o][i].type = "CANCEL" /\ toMaster'[o][i].rid \in rids
          /\ target[toMaster'[o][i].rid] = o
      <4>1. i - n \in DOMAIN cancels(o) /\ toMaster'[o][i] = cancels(o)[i - n]
        BY <1>6, <2>4
      <4> HIDE DEF n
      <4>2. /\ cancels(o)[i - n].type = "CANCEL" /\ cancels(o)[i - n].rid \in rids
            /\ routing[cancels(o)[i - n].rid].dest = o
        BY <1>5, <4>1
      <4>3. \A r \in rids : target[r] = routing[r].dest
        BY <1>1 DEF IInv, LifeInv
      <4> QED BY <4>1, <4>2, <4>3
    <3>3. \A j \in DOMAIN toMaster'[o] : i < j => toMaster'[o][j].rid # toMaster'[o][i].rid
      <4> SUFFICES ASSUME NEW j \in DOMAIN toMaster'[o], i < j
                   PROVE  toMaster'[o][j].rid # toMaster'[o][i].rid
        OBVIOUS
      <4>1. j \notin DOMAIN toMaster[o] /\ j \in Nat /\ i \in Nat
        <5>1. i \in Nat /\ j \in Nat
          BY <3>1
        <5>2. ~ (i \in 1..n) /\ i >= 1
          BY <1>6, <2>4, <3>1
        <5> HIDE DEF n
        <5>3. ~ (j \in 1..n)
          BY <3>1, <5>1, <5>2
        <5> QED BY <3>1, <5>1, <5>3
      <4>2. j - n \in DOMAIN cancels(o) /\ toMaster'[o][j] = cancels(o)[j - n]
        BY <1>6, <2>4, <4>1
      <4>3. i - n # j - n
        BY <3>1, <4>1
      <4> HIDE DEF n
      <4> QED BY <1>5, <3>2, <4>2, <4>3
    <3> QED BY <1>2, <1>3, <3>2, <3>3 DEF ToMasterInv
  <2> QED BY <2>2, <2>3, <2>4
<1>13. \A o \in Masters : \A i \in DOMAIN fromMaster'[o] : FromMasterInv(o, i)'
  BY <1>2, FromMasterStays
<1>14. \A r \in EngineRids : AnswerInv(r)'
  BY <1>2, <1>3, AnswersKept
<1> QED BY <1>8, <1>9, <1>10, <1>11, <1>12, <1>13, <1>14 DEF IInv

\* CancelAllRequests keeps the invariant, the case of CancelEach for all of the
\* engine's requests.
LEMMA CancelAllStep ==
  ASSUME IInv, CancelAllRequests
  PROVE  IInv'
<1> DEFINE rids == {r \in DOMAIN routing : routing[r].source = ENGINE_SOURCE}
<1>1. rids \subseteq DOMAIN routing
  OBVIOUS
<1> HIDE DEF rids
<1> QED BY <1>1, CancelStep DEF CancelAllRequests, rids

-----------------------------------------------------------------------------
(***************************************************************************)
(* The steps of the switch preserve the invariant                          *)
(***************************************************************************)

\* The switch takes a frame of m; a peer request that it routes is that frame.
LEMMA FromMasterShrinks ==
  ASSUME IInv, NEW m \in Masters, Tailed(fromMaster, fromMaster', m), owner' = owner,
         \A r \in Rids : target[r] \in Masters => target'[r] = target[r],
         \A r \in Rids : target'[r] # target[r] =>
           fromMaster[m][1].type = "REQ" /\ fromMaster[m][1].rid = r
  PROVE  \A o \in Masters : \A i \in DOMAIN fromMaster'[o] : FromMasterInv(o, i)'
<1> SUFFICES ASSUME NEW o \in Masters, NEW i \in DOMAIN fromMaster'[o]
             PROVE  FromMasterInv(o, i)'
  OBVIOUS
<1>1. \A x \in Masters : \A j \in DOMAIN fromMaster[x] :
        /\ FromMasterInv(x, j) /\ j \in Nat
        /\ fromMaster[x][j].type \in ReplyTypes \cup {"REQ"} => fromMaster[x][j].rid \in Rids
  BY SMTT(30), FrameFields DEF IInv, TypeOK, ReplyTypes
<1>2. CASE o # m
  <2>1. fromMaster'[o] = fromMaster[o] /\ i \in DOMAIN fromMaster[o]
    BY <1>2 DEF Tailed
  <2>2. fromMaster[o][i].type = "REQ" => target'[fromMaster[o][i].rid] = NoMaster
    BY SMTT(30), <1>1, <1>2, <2>1 DEF FromMasterInv, Tailed
  <2> QED BY <1>1, <2>1, <2>2 DEF FromMasterInv
<1>3. CASE o = m
  <2>1. /\ i \in Nat /\ i + 1 \in DOMAIN fromMaster[m] /\ i + 1 # 1
        /\ fromMaster'[m][i] = fromMaster[m][i + 1]
    BY <1>1, <1>3 DEF Tailed
  <2>2. \A j \in DOMAIN fromMaster'[m] :
          /\ j \in Nat /\ j + 1 \in DOMAIN fromMaster[m]
          /\ fromMaster'[m][j] = fromMaster[m][j + 1]
    BY DEF Tailed
  <2>3. FromMasterInv(m, i + 1)
    BY <1>1, <2>1
  <2>4. fromMaster[m][i + 1].type = "REQ" => target'[fromMaster[m][i + 1].rid] = NoMaster
    BY <1>1, <2>1, <2>3 DEF FromMasterInv, Tailed
  <2>5. fromMaster[m][i + 1].type \in ReplyTypes => fromMaster[m][i + 1].rid \in Rids
    BY <1>1, <2>1
  <2> QED BY <1>3, <2>1, <2>2, <2>3, <2>4, <2>5 DEF FromMasterInv
<1> QED BY <1>2, <1>3

\* The switch takes a frame of m that is no answer to r.
LEMMA AnswerShrinks ==
  ASSUME IInv, NEW r \in EngineRids, NEW m \in Masters, Tailed(fromMaster, fromMaster', m),
         ~ (fromMaster[m][1].type \in ReplyTypes /\ fromMaster[m][1].rid = r),
         target'[r] = target[r], replies'[r] = replies[r], engineGot'[r] = engineGot[r],
         r \in DOMAIN routing' => r \in DOMAIN routing
  PROVE  AnswerInv(r)'
<1>1. AnswerInv(r) /\ target[r] \in Masters \cup {NoMaster}
  BY SwitchAssumption DEF IInv, TypeOK, Rids
<1>2. CASE target[r] # m
  <2>1. target[r] # NoMaster => Pending(r)' = Pending(r) /\ \A i : Number(r, i)' = Number(r, i)
    BY <1>1, <1>2 DEF Pending, Number, Tailed
  <2> QED BY <1>1, <2>1 DEF AnswerInv
<1>3. CASE target[r] = m
  <2>1. \A i \in Pending(r)' : i \in Nat /\ i + 1 \in Pending(r) /\ Number(r, i)' = Number(r, i + 1)
    BY <1>3 DEF Pending, Number, Tailed
  <2>2. \A i \in Pending(r) : i - 1 \in Pending(r)' /\ Number(r, i - 1)' = Number(r, i)
    BY <1>3 DEF Pending, Number, Tailed
  <2>3. m # NoMaster
    BY DEF NoMaster, Masters
  <2>4. \A i, j \in Pending(r)' : i < j => i + 1 < j + 1
    BY <2>1
  <2> HIDE DEF Pending, Number
  <2> QED BY <1>1, <1>3, <2>1, <2>2, <2>3, <2>4 DEF AnswerInv
<1> QED BY <1>2, <1>3

\* handleRelayNotify keeps the invariant: the tables are built anew.
LEMMA HandleNotifyStep ==
  ASSUME IInv, NEW m \in Masters, NEW f \in Frames, f = fromMaster[m][1],
         Tailed(fromMaster, fromMaster', m), HandleNotify(m, f), UNCHANGED <<masterSide, asked>>
  PROVE  IInv'
<1>1. TypeOK /\ f.type = "NOTIFY" /\ f.offer \in Offers
  BY FrameFields DEF IInv, HandleNotify
<1>2. UNCHANGED <<limits, routing, peerRequests, intervened, target, toMaster, alive, owner,
                  parent, serving, replies, notifies, asked, engineGot>>
  BY DEF HandleNotify, routes, masterSide
<1>3. /\ masters' = [masters EXCEPT ![m].offer = f.offer]
      /\ \A o \in Masters : masters'[o].healthy = masters[o].healthy
  BY <1>1 DEF HandleNotify, TypeOK
<1>4. TypeOK'
  <2>1. masters' \in [Masters -> [offer : Offers, healthy : BOOLEAN]]
    <3> DEFINE new == [masters[m] EXCEPT !.offer = f.offer]
    <3>1. masters \in [Masters -> [offer : Offers, healthy : BOOLEAN]]
      BY <1>1 DEF TypeOK
    <3>2. new \in [offer : Offers, healthy : BOOLEAN]
      BY <1>1, <3>1
    <3>3. masters' = [masters EXCEPT ![m] = new]
      BY <1>3, <3>1
    <3> HIDE DEF new
    <3> QED BY <3>1, <3>2, <3>3
  <2>2. fromMaster' \in [Masters -> Seq(Frames)]
    BY DEF Tailed
  <2> QED BY <1>1, <1>2, <2>1, <2>2 DEF TypeOK
<1>5. TablesAreCurrent'
  BY DEF HandleNotify, TablesAreCurrent
<1>6. RoutesToHealthy' /\ PeerAnswersStayInternal'
  BY <1>1, <1>2, <1>3 DEF IInv, RoutesToHealthy, PeerAnswersStayInternal, TypeOK
<1>7. \A r \in Rids : LifeInv(r)'
  <2>1. \A r \in Rids : target[r] # NoMaster => masters'[target[r]].healthy = masters[target[r]].healthy
    BY <1>1, <1>3 DEF TypeOK
  <2> QED BY <1>2, <2>1 DEF IInv, LifeInv
<1>8. \A o \in Masters : DeathInv(o)' /\ ServingInv(o)'
  <2>1. masters[m].healthy
    BY DEF IInv, DeathInv, Tailed
  <2>2. \A o \in Masters : ~ masters[o].healthy => fromMaster'[o] = fromMaster[o]
    BY <2>1 DEF Tailed
  <2> QED BY <1>2, <1>3, <2>2 DEF IInv, DeathInv, ServingInv
<1>9. \A o \in Masters : \A i \in DOMAIN toMaster'[o] : ToMasterInv(o, i)'
  BY <1>2, ToMasterStays
<1>10. \A o \in Masters : \A i \in DOMAIN fromMaster'[o] : FromMasterInv(o, i)'
  BY <1>2, FromMasterShrinks
<1>11. \A r \in EngineRids : AnswerInv(r)'
  BY <1>1, <1>2, AnswerShrinks DEF ReplyTypes
<1> QED BY <1>4, <1>5, <1>6, <1>7, <1>8, <1>9, <1>10, <1>11 DEF IInv

\* handleMasterFrame of a peer REQ keeps the invariant: the request is routed,
\* or dropped when no master offers the cap.
LEMMA HandlePeerReqStep ==
  ASSUME IInv, NEW m \in Masters, NEW f \in Frames, f = fromMaster[m][1],
         Tailed(fromMaster, fromMaster', m), HandlePeerReq(m, f), UNCHANGED <<masterSide, asked>>
  PROVE  IInv'
<1> DEFINE dest == FindMasterForCap(f.cap, "none")
           rid == f.rid
<1>1. /\ TypeOK /\ TablesAreCurrent /\ f.type = "REQ"
      /\ rid \in PeerRids /\ rid \in Rids /\ rid \notin EngineRids
      /\ owner[rid] = m /\ target[rid] = NoMaster /\ asked[rid] # "idle"
      /\ replies[rid] = 0 /\ rid \notin DOMAIN routing
      /\ masters[m].healthy
  <2>1. f.type = "REQ" /\ FromMasterInv(m, 1) /\ 1 \in DOMAIN fromMaster[m]
    BY DEF IInv, HandlePeerReq, Tailed
  <2>2. rid \in PeerRids /\ owner[rid] = m /\ target[rid] = NoMaster
    BY <2>1 DEF FromMasterInv
  <2>3. rid \in Rids /\ rid \notin EngineRids
    BY <2>2, SwitchAssumption DEF Rids
  <2>4. asked[rid] # "idle"
    BY <2>2, <2>3 DEF IInv, LifeInv, NoMaster, Masters
  <2>5. masters[m].healthy
    BY <2>1 DEF IInv, DeathInv
  <2> QED BY <2>1, <2>2, <2>3, <2>4, <2>5 DEF IInv, LifeInv
<1>2. UNCHANGED <<masters, capTable, aggregate, capabilities, limits, intervened, asked, alive,
                  owner, parent, serving, replies, notifies, engineGot>>
  BY DEF HandlePeerReq, tables, routes, masterSide
<1>3. \A o \in Masters : DeathInv(o)'
  <2>1. \A o \in Masters : o \notin alive => toMaster'[o] = toMaster[o]
    BY <1>1 DEF HandlePeerReq, Write, TypeOK
  <2>2. \A o \in Masters : ~ masters[o].healthy => fromMaster'[o] = fromMaster[o]
    BY <1>1 DEF Tailed
  <2> QED BY <1>2, <2>1, <2>2 DEF IInv, DeathInv
<1>4. CASE dest = NoMaster
  <2>1. UNCHANGED <<routing, peerRequests, intervened, target, toMaster>>
    BY <1>4 DEF HandlePeerReq, routes
  <2>2. TypeOK'
    BY <1>1, <1>2, <2>1 DEF TypeOK, Tailed
  <2>3. TablesAreCurrent' /\ RoutesToHealthy' /\ PeerAnswersStayInternal'
    BY <1>2, <2>1 DEF IInv, TablesAreCurrent, RoutesToHealthy, PeerAnswersStayInternal
  <2>4. \A r \in Rids : LifeInv(r)'
    BY <1>2, <2>1 DEF IInv, LifeInv
  <2>5. \A o \in Masters : ServingInv(o)'
    BY <1>2, <2>1 DEF IInv, ServingInv
  <2>6. \A o \in Masters : \A i \in DOMAIN toMaster'[o] : ToMasterInv(o, i)'
    BY <1>2, <2>1, ToMasterStays
  <2>7. \A o \in Masters : \A i \in DOMAIN fromMaster'[o] : FromMasterInv(o, i)'
    BY <1>2, <2>1, FromMasterShrinks
  <2>8. \A r \in EngineRids : AnswerInv(r)'
    BY <1>1, <1>2, <2>1, AnswerShrinks DEF ReplyTypes
  <2> QED BY <1>3, <2>2, <2>3, <2>4, <2>5, <2>6, <2>7, <2>8 DEF IInv
<1>5. CASE dest # NoMaster
  <2>1. dest \in Masters /\ masters[dest].healthy
    BY <1>1, <1>5, FoundIsHealthy
  <2>2. PICK d \in Masters : d = dest
    BY <2>1
  <2>3. /\ routing' = Route(rid, m, d)
        /\ peerRequests' = peerRequests \cup {rid}
        /\ target' = [target EXCEPT ![rid] = d]
        /\ Write(d, f)
    BY <1>5, <2>2 DEF HandlePeerReq
  <2> HIDE DEF dest, rid
  <2>4. /\ DOMAIN routing' = DOMAIN routing \cup {rid}
        /\ routing'[rid] = [source |-> m, dest |-> d]
        /\ \A r \in DOMAIN routing : routing'[r] = routing[r]
    BY <1>1, <2>3 DEF Route
  <2>5. /\ target'[rid] = d /\ d # NoMaster
        /\ \A r \in Rids : r # rid => target'[r] = target[r]
    BY <1>1, <2>3 DEF TypeOK, NoMaster, Masters
  <2>6. TypeOK'
    <3>1. toMaster' \in [Masters -> Seq(Frames)]
      BY <1>1, <2>3, WriteIsAppended
    <3>2. fromMaster' \in [Masters -> Seq(Frames)]
      BY DEF Tailed
    <3> QED BY <1>1, <1>2, <2>3, <2>4, <3>1, <3>2 DEF TypeOK
  <2>7. TablesAreCurrent' /\ RoutesToHealthy' /\ PeerAnswersStayInternal'
    BY <1>2, <2>1, <2>2, <2>4 DEF IInv, TablesAreCurrent, RoutesToHealthy, PeerAnswersStayInternal
  <2>8. \A r \in Rids : LifeInv(r)'
    <3>1. ASSUME NEW r \in Rids, r # rid PROVE LifeInv(r)'
      BY <1>2, <2>3, <2>4, <2>5, <3>1 DEF IInv, LifeInv
    <3>2. LifeInv(rid)'
      BY <1>1, <1>2, <2>3, <2>4, <2>5 DEF LifeInv
    <3> QED BY <3>1, <3>2
  <2>9. \A o \in Masters : ServingInv(o)'
    <3>1. \A o \in Masters : o # NoMaster
      BY DEF NoMaster, Masters
    <3> QED BY <1>1, <1>2, <2>5, <3>1 DEF IInv, ServingInv, TypeOK
  <2>10. \A r \in Rids : target[r] \in Masters => target'[r] = target[r]
    BY <1>1, <2>5 DEF NoMaster, Masters
  <2>11. \A o \in Masters : \A i \in DOMAIN toMaster'[o] : ToMasterInv(o, i)'
    <3>1. \A r \in Rids : target[r] # NoMaster /\ r \in DOMAIN routing' => r \in DOMAIN routing
      BY <1>1, <2>4
    <3>2. CASE d \in alive
      <4>1. Appended(toMaster, toMaster', d, f)
        BY <1>1, <2>3, <3>2, WriteIsAppended
      <4>2. f.rid = rid
        BY DEF rid
      <4> QED BY <1>1, <1>2, <2>4, <2>5, <2>10, <3>1, <4>1, <4>2, ToMasterGrows
    <3>3. CASE d \notin alive
      <4>1. toMaster' = toMaster
        BY <1>1, <2>3, <3>3, WriteIsAppended
      <4> QED BY <1>2, <2>10, <3>1, <4>1, ToMasterStays
    <3> QED BY <3>2, <3>3
  <2>12. \A o \in Masters : \A i \in DOMAIN fromMaster'[o] : FromMasterInv(o, i)'
    <3>1. f.rid = rid
      BY DEF rid
    <3> QED BY <1>1, <1>2, <2>5, <2>10, <3>1, FromMasterShrinks
  <2>13. \A r \in EngineRids : AnswerInv(r)'
    BY <1>1, <1>2, <2>4, <2>5, AnswerShrinks DEF ReplyTypes, Rids
  <2> QED BY <1>3, <2>6, <2>7, <2>8, <2>9, <2>11, <2>12, <2>13 DEF IInv
<1> QED BY <1>4, <1>5

\* handleMasterFrame of any other frame keeps the invariant: a frame of a
\* response goes to the engine or to the master that asked, and the last one
\* removes the entry.
LEMMA HandleReplyStep ==
  ASSUME IInv, NEW m \in Masters, NEW f \in Frames, f = fromMaster[m][1],
         Tailed(fromMaster, fromMaster', m), HandleReply(m, f), UNCHANGED <<masterSide, asked>>
  PROVE  IInv'
<1> DEFINE rid == f.rid
           peer == rid \in DOMAIN routing /\ routing[rid].source # ENGINE_SOURCE
           done == IF Terminal(f.type) /\ rid \notin peerRequests THEN {rid} ELSE {}
<1>1. /\ TypeOK /\ f.type \in ReplyTypes /\ rid \in Rids
      /\ f.from = m /\ masters[m].healthy
      /\ target[rid] = m \/ (rid \in PeerRids /\ owner[rid] = m)
      /\ asked[rid] # "idle"
  <2>1. f.type \in ReplyTypes /\ rid \in Rids /\ FromMasterInv(m, 1) /\ 1 \in DOMAIN fromMaster[m]
    BY FrameFields DEF IInv, HandleReply, ReplyTypes, Tailed
  <2>2. f.from = m /\ (target[rid] = m \/ (rid \in PeerRids /\ owner[rid] = m))
    BY <2>1 DEF FromMasterInv
  <2>3. asked[rid] # "idle"
    BY <2>1, <2>2 DEF IInv, LifeInv, NoMaster, Masters
  <2>4. masters[m].healthy
    BY <2>1 DEF IInv, DeathInv
  <2> QED BY <2>1, <2>2, <2>3, <2>4 DEF IInv
<1>2. UNCHANGED <<masters, capTable, aggregate, capabilities, limits, peerRequests, intervened,
                  target, asked, alive, owner, parent, serving, replies, notifies>>
  BY DEF HandleReply, tables, masterSide
<1>3. ENGINE_SOURCE \notin Masters \cup {NoMaster}
  BY DEF ENGINE_SOURCE, NoMaster, Masters
\* A routed peer request goes to its owner, and its entry stays.
<1>4. rid \in PeerRids /\ rid \in DOMAIN routing =>
        peer /\ routing[rid].source = owner[rid] /\ owner[rid] \in Masters /\ done = {}
  <2>1. rid \in PeerRids /\ rid \in DOMAIN routing =>
          /\ routing[rid].source = owner[rid] /\ rid \in peerRequests
          /\ owner[rid] \in Masters \cup {NoMaster}
          /\ routing[rid].source \in Masters \cup {ENGINE_SOURCE}
    BY <1>1 DEF IInv, LifeInv, TypeOK
  <2>2. NoMaster # ENGINE_SOURCE /\ NoMaster \notin Masters
    BY <1>3 DEF NoMaster, Masters
  <2> QED BY <1>3, <2>1, <2>2
<1>5. rid \in EngineRids => ~ peer /\ rid \notin PeerRids /\ rid \notin peerRequests
  BY <1>1, SwitchAssumption DEF IInv, LifeInv, TypeOK
<1>6. CASE peer
  <2>1. /\ rid \in PeerRids /\ done = {} /\ routing[rid].source \in Masters
        /\ rid \notin EngineRids
    BY <1>1, <1>4, <1>5, <1>6 DEF Rids
  <2>2. Write(routing[rid].source, f) /\ engineGot' = engineGot
    BY <1>6 DEF HandleReply, Routed
  <2>3. /\ DOMAIN routing' = DOMAIN routing
        /\ \A r \in DOMAIN routing : routing'[r] = routing[r]
    <3>1. routing' \in {routing, Forget({})}
      BY <1>6, <2>1 DEF HandleReply, Routed
    <3>2. /\ DOMAIN Forget({}) = DOMAIN routing
          /\ \A r \in DOMAIN routing : Forget({})[r] = routing[r]
      BY ForgetEffect
    <3> QED BY <3>1, <3>2
  <2> HIDE DEF rid, peer, done
  <2>4. TypeOK'
    <3>1. toMaster' \in [Masters -> Seq(Frames)]
      BY <1>1, <2>1, <2>2, WriteIsAppended
    <3>2. fromMaster' \in [Masters -> Seq(Frames)]
      BY DEF Tailed
    <3> QED BY <1>1, <1>2, <2>2, <2>3, <3>1, <3>2 DEF TypeOK
  <2>5. TablesAreCurrent' /\ RoutesToHealthy' /\ PeerAnswersStayInternal'
    BY <1>2, <2>2, <2>3 DEF IInv, TablesAreCurrent, RoutesToHealthy, PeerAnswersStayInternal
  <2>6. \A r \in Rids : LifeInv(r)'
    BY <1>2, <2>2, <2>3 DEF IInv, LifeInv
  <2>7. \A o \in Masters : DeathInv(o)'
    <3>1. \A o \in Masters : o \notin alive => toMaster'[o] = toMaster[o]
      BY <1>1, <2>1, <2>2 DEF Write, TypeOK
    <3>2. \A o \in Masters : ~ masters[o].healthy => fromMaster'[o] = fromMaster[o]
      BY <1>1 DEF Tailed
    <3> QED BY <1>2, <3>1, <3>2 DEF IInv, DeathInv
  <2>8. \A o \in Masters : ServingInv(o)'
    BY <1>2 DEF IInv, ServingInv
  <2>9. \A o \in Masters : \A i \in DOMAIN toMaster'[o] : ToMasterInv(o, i)'
    <3>1. CASE routing[rid].source \in alive
      <4>1. Appended(toMaster, toMaster', routing[rid].source, f)
        BY <1>1, <2>1, <2>2, <3>1, WriteIsAppended
      <4>2. /\ f.rid \notin EngineRids /\ f.type \notin {"NOTIFY", "CANCEL", "REQ"}
            /\ f.rid \in DOMAIN routing
        BY <1>1, <1>6, <2>1 DEF peer, rid, ReplyTypes
      <4> QED BY <1>2, <2>1, <2>3, <4>1, <4>2, ToMasterGrows
    <3>2. CASE routing[rid].source \notin alive
      <4>1. toMaster' = toMaster
        BY <1>1, <2>1, <2>2, <3>2, WriteIsAppended
      <4> QED BY <1>2, <2>3, <4>1, ToMasterStays
    <3> QED BY <3>1, <3>2
  <2>10. \A o \in Masters : \A i \in DOMAIN fromMaster'[o] : FromMasterInv(o, i)'
    BY <1>2, FromMasterShrinks
  <2>11. \A r \in EngineRids : AnswerInv(r)'
    <3>1. \A r \in EngineRids : fromMaster[m][1].rid # r
      BY <2>1 DEF rid
    <3> QED BY <1>2, <2>2, <2>3, <3>1, AnswerShrinks
  <2> QED BY <2>4, <2>5, <2>6, <2>7, <2>8, <2>9, <2>10, <2>11 DEF IInv
<1>7. CASE ~ peer
  <2>1. /\ engineGot' = [engineGot EXCEPT ![rid] = Append(@, f)]
        /\ toMaster' = toMaster
        /\ routing' = Forget(done)
    BY <1>7 DEF HandleReply, Routed
  <2>2. /\ DOMAIN routing' = DOMAIN routing \ done
        /\ \A r \in DOMAIN routing \ done : routing'[r] = routing[r]
        /\ done \subseteq {rid}
    BY <2>1, ForgetEffect
  <2>3. rid \in PeerRids =>
          rid \notin DOMAIN routing /\ (intervened[rid] # "ended" => f.from = owner[rid])
    <3>1. rid \in PeerRids => rid \notin DOMAIN routing
      BY <1>4, <1>7
    <3>2. rid \in PeerRids /\ target[rid] = m => rid \in DOMAIN routing \/ intervened[rid] = "ended"
      BY <1>1 DEF IInv, LifeInv, NoMaster, Masters
    <3> QED BY <1>1, <3>1, <3>2
  <2>4. rid \in EngineRids => (Terminal(f.type) => done = {rid})
    BY <1>5
  <2> HIDE DEF peer, done
  <2>5. /\ engineGot'[rid] = Append(engineGot[rid], f)
        /\ \A r \in Rids : r # rid => engineGot'[r] = engineGot[r]
    BY <1>1, <2>1 DEF TypeOK
  <2>6. TypeOK'
    <3>1. fromMaster' \in [Masters -> Seq(Frames)]
      BY DEF Tailed
    <3>2. engineGot' \in [Rids -> Seq(Frames)]
      BY <1>1, <2>1 DEF TypeOK
    <3> QED BY <1>1, <1>2, <2>1, <2>2, <3>1, <3>2 DEF TypeOK
  <2>7. TablesAreCurrent' /\ RoutesToHealthy'
    BY <1>2, <2>2 DEF IInv, TablesAreCurrent, RoutesToHealthy
  <2>8. PeerAnswersStayInternal'
    <3> SUFFICES ASSUME NEW p \in PeerRids, intervened[p] # "ended", NEW i \in DOMAIN engineGot'[p]
                 PROVE  engineGot'[p][i].from = owner[p]
      BY <1>2 DEF PeerAnswersStayInternal
    <3>1. CASE p # rid
      BY <2>5, <3>1 DEF IInv, PeerAnswersStayInternal, Rids
    <3>2. CASE p = rid
      <4>1. engineGot[rid] \in Seq(Frames)
        BY <1>1 DEF TypeOK
      <4>2. i \in DOMAIN engineGot[rid] \/ engineGot'[p][i] = f
        BY <2>5, <3>2, <4>1
      <4>3. i \in DOMAIN engineGot[rid] => engineGot'[p][i] = engineGot[rid][i]
        BY <2>5, <3>2, <4>1
      <4> QED BY <2>3, <3>2, <4>2, <4>3 DEF IInv, PeerAnswersStayInternal
    <3> QED BY <3>1, <3>2
  <2>9. \A r \in Rids : LifeInv(r)'
    <3>1. ASSUME NEW r \in Rids, r # rid PROVE LifeInv(r)'
      BY <1>2, <2>2, <2>5, <3>1 DEF IInv, LifeInv
    <3>2. rid \in EngineRids => target[rid] # NoMaster
      BY <1>1, <1>5 DEF NoMaster, Masters
    <3>3. LifeInv(rid)'
      BY <1>1, <1>2, <2>2, <2>3, <3>2 DEF IInv, LifeInv
    <3> QED BY <3>1, <3>3
  <2>10. \A o \in Masters : DeathInv(o)'
    <3>1. \A o \in Masters : ~ masters[o].healthy => fromMaster'[o] = fromMaster[o]
      BY <1>1 DEF Tailed
    <3> QED BY <1>2, <2>1, <3>1 DEF IInv, DeathInv
  <2>11. \A o \in Masters : ServingInv(o)'
    BY <1>2 DEF IInv, ServingInv
  <2>12. \A o \in Masters : \A i \in DOMAIN toMaster'[o] : ToMasterInv(o, i)'
    BY <1>2, <2>1, <2>2, ToMasterStays
  <2>13. \A o \in Masters : \A i \in DOMAIN fromMaster'[o] : FromMasterInv(o, i)'
    BY <1>2, FromMasterShrinks
  <2>14. ASSUME NEW r \in EngineRids, r # rid PROVE AnswerInv(r)'
    <3>1. fromMaster[m][1].rid # r
      BY <2>14
    <3> QED BY <1>2, <2>2, <2>5, <2>14, <3>1, AnswerShrinks DEF Rids
  <2>15. ASSUME rid \in EngineRids PROVE AnswerInv(rid)'
    <3> DEFINE got == Len(engineGot[rid])
               sent == replies[rid]
    <3>1. /\ target[rid] = m /\ m # NoMaster /\ AnswerInv(rid)
          /\ got \in Nat /\ sent \in Nat /\ got <= sent
          /\ engineGot[rid] \in Seq(Frames)
      <4>1. target[rid] = m /\ m # NoMaster
        BY <1>1, <1>5, <2>15 DEF NoMaster, Masters
      <4>2. AnswerInv(rid)
        BY <2>15 DEF IInv
      <4>3. engineGot[rid] \in Seq(Frames) /\ sent \in 0..MaxReply
        BY <1>1 DEF TypeOK
      <4>4. got \in Nat /\ sent \in Nat
        BY <4>3, SwitchAssumption
      <4> QED BY <4>1, <4>2, <4>3, <4>4 DEF AnswerInv
    <3>2. 1 \in Pending(rid) /\ Number(rid, 1) = f.n
      BY <1>1, <3>1 DEF Pending, Number, Tailed
    <3>3. \A i \in Pending(rid) : Number(rid, i) \in got..(sent - 1) /\ i \in Nat /\ i >= 1
      BY <1>1, <3>1 DEF AnswerInv, Pending, TypeOK
    <3>4. \A i, j \in Pending(rid) : i < j => Number(rid, i) < Number(rid, j)
      BY <3>1 DEF AnswerInv
    <3>5. \A k \in got..(sent - 1) : \E i \in Pending(rid) : Number(rid, i) = k
      BY <3>1 DEF AnswerInv
    <3>6. \A i \in Pending(rid)' :
            i \in Nat /\ i >= 1 /\ i + 1 \in Pending(rid) /\ Number(rid, i)' = Number(rid, i + 1)
      BY <1>2, <3>1 DEF Pending, Number, Tailed
    <3>7. \A i \in Pending(rid) : i # 1 => i - 1 \in Pending(rid)' /\ Number(rid, i - 1)' = Number(rid, i)
      BY <1>2, <3>1 DEF Pending, Number, Tailed
    <3> HIDE DEF Pending, Number, got, sent
    <3>8. f.n = got /\ got + 1 <= sent
      <4>1. got \in got..(sent - 1)
        BY <3>1, <3>2, <3>3
      <4>2. PICK i \in Pending(rid) : Number(rid, i) = got
        BY <3>5, <4>1
      <4>3. i = 1
        BY <3>1, <3>2, <3>3, <3>4, <4>2
      <4> QED BY <3>1, <3>2, <4>1, <4>2, <4>3
    <3>9. /\ Len(engineGot'[rid]) = got + 1 /\ DOMAIN engineGot'[rid] = 1..(got + 1)
          /\ \A i \in 1..got : engineGot'[rid][i] = engineGot[rid][i] /\ i \in DOMAIN engineGot[rid]
          /\ engineGot'[rid][got + 1] = f
      <4>1. /\ Len(Append(engineGot[rid], f)) = got + 1
            /\ DOMAIN Append(engineGot[rid], f) = 1..(got + 1)
            /\ \A i \in 1..got :
                 Append(engineGot[rid], f)[i] = engineGot[rid][i] /\ i \in DOMAIN engineGot[rid]
            /\ Append(engineGot[rid], f)[got + 1] = f
        BY <3>1, AppendFacts DEF got
      <4> QED BY <2>5, <4>1
    <3>10. \A i \in DOMAIN engineGot'[rid] :
             /\ engineGot'[rid][i].from = m /\ engineGot'[rid][i].n = i - 1
             /\ Terminal(engineGot'[rid][i].type) => rid \notin DOMAIN routing'
      <4> SUFFICES ASSUME NEW i \in 1..(got + 1)
                   PROVE  /\ engineGot'[rid][i].from = m /\ engineGot'[rid][i].n = i - 1
                          /\ Terminal(engineGot'[rid][i].type) => rid \notin DOMAIN routing'
        BY <3>9
      <4>1. CASE i = got + 1
        <5>1. (got + 1) - 1 = got
          BY <3>1
        <5>2. Terminal(f.type) => rid \notin DOMAIN routing'
          BY <2>2, <2>4, <2>15
        <5> QED BY <1>1, <3>8, <3>9, <4>1, <5>1, <5>2
      <4>2. CASE i \in 1..got
        <5>1. engineGot'[rid][i] = engineGot[rid][i] /\ i \in DOMAIN engineGot[rid]
          BY <3>9, <4>2
        <5> HIDE DEF Terminal
        <5> QED BY <2>2, <3>1, <5>1 DEF AnswerInv
      <4> QED BY <3>1, <4>1, <4>2
    <3>11. \A i \in Pending(rid)' : Number(rid, i)' \in (got + 1)..(sent - 1)
      <4> SUFFICES ASSUME NEW i \in Pending(rid)'
                   PROVE  Number(rid, i)' \in (got + 1)..(sent - 1)
        OBVIOUS
      <4>1. /\ i + 1 \in Pending(rid) /\ 1 < i + 1
            /\ Number(rid, i)' = Number(rid, i + 1)
        BY <3>3, <3>6
      <4>2. Number(rid, 1) < Number(rid, i + 1)
        BY <3>2, <3>4, <4>1
      <4> QED BY <3>1, <3>2, <3>3, <3>8, <4>1, <4>2
    <3>12. \A i, j \in Pending(rid)' : i < j => Number(rid, i)' < Number(rid, j)'
      BY <3>4, <3>6
    <3>13. \A k \in (got + 1)..(sent - 1) : \E i \in Pending(rid)' : Number(rid, i)' = k
      <4> SUFFICES ASSUME NEW k \in (got + 1)..(sent - 1)
                   PROVE  \E i \in Pending(rid)' : Number(rid, i)' = k
        OBVIOUS
      <4>1. k \in got..(sent - 1) /\ k # got
        BY <3>1
      <4>2. PICK i \in Pending(rid) : Number(rid, i) = k
        BY <3>5, <4>1
      <4>3. i # 1
        BY <3>2, <3>8, <4>1, <4>2
      <4> QED BY <3>7, <4>2, <4>3
    <3>14. replies'[rid] = sent /\ target'[rid] = m
      BY <1>2, <3>1 DEF sent
    <3> HIDE DEF Terminal, rid
    <3> QED BY <3>8, <3>9, <3>10, <3>11, <3>12, <3>13, <3>14 DEF AnswerInv
  <2> QED BY <2>6, <2>7, <2>8, <2>9, <2>10, <2>11, <2>12, <2>13, <2>14, <2>15 DEF IInv
<1> QED BY <1>6, <1>7

\* ReadFromMasters keeps the invariant, whichever frame comes next.
LEMMA ReadFrameStep ==
  ASSUME IInv, NEW m \in Masters, ReadFrame(m)
  PROVE  IInv'
<1> DEFINE f == Head(fromMaster[m])
<1>1. Tailed(fromMaster, fromMaster', m)
  BY TailIsTailed DEF IInv, TypeOK, ReadFrame
<1>2. f \in Frames /\ f = fromMaster[m][1]
  BY <1>1 DEF Tailed
<1>3. HandlePeerReq(m, f) \/ HandleReply(m, f) \/ HandleNotify(m, f)
  BY DEF ReadFrame
<1>4. UNCHANGED <<masterSide, asked>>
  BY DEF ReadFrame
<1> HIDE DEF f
<1> QED BY <1>1, <1>2, <1>3, <1>4, HandlePeerReqStep, HandleReplyStep, HandleNotifyStep

\* handleMasterDeath keeps the invariant: the entries of the lost master go,
\* and the tables no longer count it.
LEMMA ReadDeathStep ==
  ASSUME IInv, NEW m \in Masters, ReadDeath(m)
  PROVE  IInv'
<1> DEFINE lost == {r \in DOMAIN routing : routing[r].dest = m}
<1>1. TypeOK /\ m \notin alive /\ fromMaster[m] = <<>>
  BY DEF IInv, ReadDeath
<1>2. UNCHANGED <<intervened, target, toMaster, fromMaster, asked,
                  alive, owner, parent, serving, replies, notifies, engineGot>>
  BY DEF ReadDeath, masterSide
<1>3. /\ masters' \in [Masters -> [offer : Offers, healthy : BOOLEAN]]
      /\ \A o \in Masters : o # m => masters'[o] = masters[o]
      /\ ~ masters'[m].healthy
  <2> DEFINE new == [masters[m] EXCEPT !.healthy = FALSE]
  <2>1. masters \in [Masters -> [offer : Offers, healthy : BOOLEAN]]
    BY <1>1 DEF TypeOK
  <2>2. new \in [offer : Offers, healthy : BOOLEAN] /\ ~ new.healthy
    BY <2>1
  <2>3. masters' = [masters EXCEPT ![m] = new]
    BY <2>1 DEF ReadDeath
  <2> HIDE DEF new
  <2> QED BY <2>1, <2>2, <2>3
<1>4. /\ DOMAIN routing' = DOMAIN routing \ lost
      /\ \A r \in DOMAIN routing \ lost : routing'[r] = routing[r]
      /\ peerRequests' = peerRequests \ lost
  BY ForgetEffect DEF ReadDeath
<1>5. TypeOK'
  BY <1>1, <1>2, <1>3, <1>4 DEF TypeOK
<1>6. TablesAreCurrent'
  BY DEF ReadDeath, TablesAreCurrent
<1>7. RoutesToHealthy'
  <2> SUFFICES ASSUME NEW r \in DOMAIN routing'
               PROVE  masters'[routing'[r].dest].healthy
    BY DEF RoutesToHealthy
  <2>1. r \in DOMAIN routing /\ routing'[r] = routing[r] /\ routing[r].dest # m
    BY <1>4
  <2>2. routing[r].dest \in Masters /\ masters[routing[r].dest].healthy
    BY <1>1, <2>1 DEF IInv, RoutesToHealthy, TypeOK
  <2> QED BY <1>3, <2>1, <2>2
<1>8. PeerAnswersStayInternal'
  BY <1>2 DEF IInv, PeerAnswersStayInternal
<1>9. \A r \in Rids : LifeInv(r)'
  <2> SUFFICES ASSUME NEW r \in Rids PROVE LifeInv(r)'
    OBVIOUS
  <2>1. LifeInv(r) /\ target[r] \in Masters \cup {NoMaster}
    BY <1>1 DEF IInv, TypeOK
  <2>2. r \in DOMAIN routing' <=> r \in DOMAIN routing /\ target[r] # m
    BY <1>4, <2>1 DEF LifeInv
  <2>3. r \in DOMAIN routing' =>
          routing'[r] = routing[r] /\ (r \in peerRequests => r \in peerRequests')
    BY <1>4
  <2>4. target[r] # NoMaster
          /\ ((r \in DOMAIN routing /\ r \notin DOMAIN routing') \/ ~ masters[target[r]].healthy)
        => ~ masters'[target[r]].healthy
    BY <1>3, <2>1, <2>2
  <2> QED BY <1>2, <2>1, <2>2, <2>3, <2>4 DEF LifeInv
<1>10. \A o \in Masters : DeathInv(o)'
  BY <1>1, <1>2, <1>3 DEF IInv, DeathInv
<1>11. \A o \in Masters : ServingInv(o)'
  BY <1>2 DEF IInv, ServingInv
<1>12. \A o \in Masters : \A i \in DOMAIN toMaster'[o] : ToMasterInv(o, i)'
  BY <1>2, <1>4, ToMasterStays
<1>13. \A o \in Masters : \A i \in DOMAIN fromMaster'[o] : FromMasterInv(o, i)'
  BY <1>2, FromMasterStays
<1>14. \A r \in EngineRids : AnswerInv(r)'
  BY <1>2, <1>4, AnswersKept
<1> QED BY <1>5, <1>6, <1>7, <1>8, <1>9, <1>10, <1>11, <1>12, <1>13, <1>14 DEF IInv

-----------------------------------------------------------------------------
(***************************************************************************)
(* The theorems                                                            *)
(***************************************************************************)

\* The initial states of the switch satisfy the invariant.
LEMMA InitEstablishesIInv == Init => IInv
<1> SUFFICES ASSUME Init PROVE IInv
  OBVIOUS
<1>1. masters = [m \in Masters |-> [offer |-> InitialOffer[m], healthy |-> TRUE]]
  BY DEF Init
<1>2. /\ intervened = [r \in PeerRids |-> "no"]
      /\ DOMAIN routing = {} /\ peerRequests = {} /\ alive = Masters /\ notifies = 0
      /\ target = [r \in Rids |-> NoMaster]
      /\ toMaster = [m \in Masters |-> <<>>] /\ fromMaster = [m \in Masters |-> <<>>]
      /\ owner = [r \in PeerRids |-> NoMaster] /\ parent = [r \in PeerRids |-> "none"]
      /\ serving = [m \in Masters |-> {}] /\ replies = [r \in Rids |-> 0]
      /\ asked = [r \in Rids |-> "idle"] /\ engineGot = [r \in Rids |-> <<>>]
  BY DEF Init
<1>3. PeerRids \subseteq Rids /\ EngineRids \subseteq Rids
  BY DEF Rids
<1>4. TypeOK
  <2>1. masters \in [Masters -> [offer : Offers, healthy : BOOLEAN]]
    BY <1>1, SwitchAssumption
  <2>2. 0 \in 0..MaxNotify /\ 0 \in 0..MaxReply
    BY SwitchAssumption
  <2>3. <<>> \in Seq(Frames)
    OBVIOUS
  <2> QED BY <1>2, <2>1, <2>2, <2>3 DEF TypeOK
<1>5. TablesAreCurrent /\ RoutesToHealthy /\ PeerAnswersStayInternal
  <2>1. \A r \in PeerRids : DOMAIN engineGot[r] = {}
    BY <1>2, <1>3
  <2> QED BY <1>2, <2>1 DEF Init, TablesAreCurrent, RoutesToHealthy, PeerAnswersStayInternal
<1>6. \A r \in Rids : LifeInv(r)
  BY <1>2 DEF LifeInv
<1>7. \A m \in Masters : DeathInv(m) /\ ServingInv(m)
  BY <1>1, <1>2 DEF DeathInv, ServingInv
<1>8. \A m \in Masters : DOMAIN toMaster[m] = {} /\ DOMAIN fromMaster[m] = {}
  BY <1>2
<1>9. \A r \in EngineRids : AnswerInv(r)
  <2> SUFFICES ASSUME NEW r \in EngineRids PROVE AnswerInv(r)
    OBVIOUS
  <2>1. target[r] = NoMaster /\ replies[r] = 0 /\ engineGot[r] = <<>>
    BY <1>2, <1>3
  <2>2. Len(engineGot[r]) = 0 /\ DOMAIN engineGot[r] = {}
    BY <2>1
  <2> QED BY <2>1, <2>2 DEF AnswerInv
<1> QED BY <1>4, <1>5, <1>6, <1>7, <1>8, <1>9 DEF IInv

\* A step that changes nothing keeps the invariant.
LEMMA StutterKeepsIInv == IInv /\ UNCHANGED vars => IInv'
<1> SUFFICES ASSUME IInv, UNCHANGED vars PROVE IInv'
  OBVIOUS
<1>1. UNCHANGED <<masters, capTable, aggregate, capabilities, limits, routing, peerRequests,
                  intervened, target, toMaster, fromMaster, alive, owner, parent, serving,
                  replies, notifies, asked, engineGot>>
  BY DEF vars, tables, routes, masterSide
<1>2. TypeOK'
  BY <1>1 DEF IInv, TypeOK
<1>3. TablesAreCurrent' /\ RoutesToHealthy' /\ PeerAnswersStayInternal'
  BY <1>1 DEF IInv, TablesAreCurrent, RoutesToHealthy, PeerAnswersStayInternal
<1>4. \A r \in Rids : LifeInv(r)'
  BY <1>1 DEF IInv, LifeInv
<1>5. \A o \in Masters : DeathInv(o)' /\ ServingInv(o)'
  BY <1>1 DEF IInv, DeathInv, ServingInv
<1>6. \A o \in Masters : \A i \in DOMAIN toMaster'[o] : ToMasterInv(o, i)'
  BY <1>1, ToMasterStays
<1>7. \A o \in Masters : \A i \in DOMAIN fromMaster'[o] : FromMasterInv(o, i)'
  BY <1>1, FromMasterStays
<1>8. \A r \in EngineRids : AnswerInv(r)'
  BY <1>1, AnswersKept
<1> QED BY <1>2, <1>3, <1>4, <1>5, <1>6, <1>7, <1>8 DEF IInv

\* Every step keeps the invariant: one case for each action.
LEMMA NextKeepsIInv == IInv /\ [Next]_vars => IInv'
<1> SUFFICES ASSUME IInv, [Next]_vars PROVE IInv'
  OBVIOUS
<1>1. CASE Engine
  <2>1. CASE \E rid \in EngineRids, cap \in Caps, preferred \in Caps \cup {"none"} :
               SendReq(rid, cap, preferred)
    BY <2>1, SendReqStep
  <2>2. CASE \E rid \in Rids, type \in {"BODY", "END", "ERR"} : SendContinuation(rid, type)
    BY <2>2, SendContinuationStep
  <2>3. CASE \E rid \in Rids : CancelRequest(rid)
    <3>1. PICK rid \in Rids : CancelEach({rid} \cap DOMAIN routing)
      BY <2>3 DEF CancelRequest
    <3>2. {rid} \cap DOMAIN routing \subseteq DOMAIN routing
      OBVIOUS
    <3> QED BY <3>1, <3>2, CancelStep
  <2>4. CASE CancelAllRequests
    BY <2>4, CancelAllStep
  <2> QED BY <1>1, <2>1, <2>2, <2>3, <2>4 DEF Engine
<1>2. CASE Switch
  BY <1>2, ReadFrameStep, ReadDeathStep DEF Switch
<1>3. ASSUME NEW m \in Masters, Master(m) PROVE IInv'
  <2>1. CASE MasterTake(m)
    BY <2>1, MasterTakeStep
  <2>2. CASE \E rid \in Rids, type \in ReplyTypes : MasterReply(m, rid, type)
    BY <2>2, MasterReplyStep
  <2>3. CASE \E rid \in PeerRids, for \in EngineRids, cap \in Caps : MasterAskPeer(m, rid, for, cap)
    BY <2>3, MasterAskPeerStep
  <2>4. CASE \E rid \in PeerRids : MasterPeerEnd(m, rid)
    BY <2>4, MasterPeerEndStep
  <2>5. CASE \E offer \in Offers : MasterNotify(m, offer)
    BY <2>5, MasterNotifyStep
  <2>6. CASE MasterDie(m)
    BY <2>6, MasterDieStep
  <2> QED BY <1>3, <2>1, <2>2, <2>3, <2>4, <2>5, <2>6 DEF Master
<1>4. CASE UNCHANGED vars
  BY <1>4, StutterKeepsIInv
<1> QED BY <1>1, <1>2, <1>3, <1>4 DEF Next

\* IInv holds in every state the switch and its masters reach, whatever the
\* order in which frames, notifications and deaths come.
THEOREM Invariance == Spec => []IInv
BY InitEstablishesIInv, NextKeepsIInv, PTL DEF Spec

\* The state of the switch, its masters and the channels keeps its types; in
\* particular a response never has more frames than it may.
THEOREM TypeCorrect == Spec => []TypeOK
<1>1. IInv => TypeOK
  BY DEF IInv
<1> QED BY <1>1, Invariance, PTL

\* The snapshot changes only with a notification, which makes it anew, and with
\* a death, after which it counts the dead master still.
LEMMA SnapshotStep ==
  ASSUME IInv, SnapshotLagsOneDeath, [Next]_vars
  PROVE  SnapshotLagsOneDeath'
<1>1. ASSUME NEW m \in Masters, ReadDeath(m) PROVE SnapshotLagsOneDeath'
  <2>1. masters \in [Masters -> [offer : Offers, healthy : BOOLEAN]] /\ masters[m].healthy
    BY <1>1 DEF IInv, TypeOK, ReadDeath
  <2>2. masters' = [masters EXCEPT ![m].healthy = FALSE] /\ capabilities' = AggregateOf(masters)
    BY <1>1 DEF ReadDeath, IInv, TablesAreCurrent
  <2>3. ~ masters'[m].healthy /\ [masters' EXCEPT ![m].healthy = TRUE] = masters
    <3> DEFINE dead == [masters[m] EXCEPT !.healthy = FALSE]
    <3>1. dead \in [offer : Offers, healthy : BOOLEAN] /\ ~ dead.healthy
      BY <2>1
    <3>2. [dead EXCEPT !.healthy = TRUE] = masters[m]
      BY <2>1
    <3>3. masters' = [masters EXCEPT ![m] = dead]
      BY <2>2
    <3> HIDE DEF dead
    <3> QED BY <2>1, <3>1, <3>2, <3>3
  <2> QED BY <2>2, <2>3 DEF SnapshotLagsOneDeath
<1>2. ASSUME NEW m \in Masters, ReadFrame(m) PROVE SnapshotLagsOneDeath'
  <2>1. \/ capabilities' = AggregateOf(masters')
        \/ UNCHANGED tables
    BY <1>2 DEF ReadFrame, HandlePeerReq, HandleReply, HandleNotify
  <2> QED BY <2>1 DEF SnapshotLagsOneDeath, tables
<1>3. CASE UNCHANGED tables
  BY <1>3 DEF SnapshotLagsOneDeath, tables
<1>4. Engine => UNCHANGED tables
  BY DEF Engine, SendReq, SendContinuation, CancelRequest, CancelAllRequests, CancelEach
<1>5. ASSUME NEW m \in Masters, Master(m) PROVE UNCHANGED tables
  BY <1>5 DEF Master, MasterTake, MasterReply, MasterAskPeer, MasterPeerEnd, MasterNotify, MasterDie
<1> QED BY <1>1, <1>2, <1>3, <1>4, <1>5 DEF Next, Switch, vars

\* Whatever notifications and deaths came before, the bytes that Capabilities()
\* returns are the aggregate of the healthy masters, or that of the moment
\* before the last death: one dead master is listed still, never two.
THEOREM SnapshotIsAlmostCurrent == Spec => []SnapshotLagsOneDeath
<1>1. Init => SnapshotLagsOneDeath
  BY DEF Init, SnapshotLagsOneDeath
<1>2. IInv /\ SnapshotLagsOneDeath /\ [Next]_vars => SnapshotLagsOneDeath'
  BY SnapshotStep
<1> QED BY <1>1, <1>2, Invariance, PTL DEF Spec

\* No request is routed to a master that the switch knows to be dead.
THEOREM HealthyRoutes == Spec => []RoutesToHealthy
<1>1. IInv => RoutesToHealthy
  BY DEF IInv
<1> QED BY <1>1, Invariance, PTL

\* Every frame of an engine request goes to the master the request went to.
THEOREM OneMasterPerRequest == Spec => []RequestKeepsItsMaster
<1>1. IInv => RequestKeepsItsMaster
  BY DEF IInv, ToMasterInv, RequestKeepsItsMaster
<1> QED BY <1>1, Invariance, PTL

\* The engine gets the frames its master sent for a request, in order, without
\* a hole and each of them once.
THEOREM AnswersInOrder == Spec => []EngineGetsItsAnswer
<1>1. IInv => EngineGetsItsAnswer
  BY DEF IInv, AnswerInv, EngineGetsItsAnswer
<1> QED BY <1>1, Invariance, PTL

\* The routing entry of a request the engine was answered for is gone.
THEOREM NoEntryAfterAnswer == Spec => []AnsweredRequestsAreForgotten
<1>1. IInv => AnsweredRequestsAreForgotten
  <2> SUFFICES ASSUME IInv, NEW r \in DOMAIN routing, routing[r].source = ENGINE_SOURCE,
                      NEW i \in DOMAIN engineGot[r]
               PROVE  ~ Terminal(engineGot[r][i].type)
    BY DEF AnsweredRequestsAreForgotten
  <2>1. r \in EngineRids
    <3>1. r \in EngineRids \/ (r \in PeerRids /\ owner[r] = ENGINE_SOURCE)
      BY DEF IInv, TypeOK, LifeInv, Rids
    <3>2. r \in PeerRids => owner[r] \in Masters \cup {NoMaster}
      BY DEF IInv, TypeOK
    <3>3. ENGINE_SOURCE \notin Masters \cup {NoMaster}
      BY DEF ENGINE_SOURCE, NoMaster, Masters
    <3> QED BY <3>1, <3>2, <3>3
  <2> QED BY <2>1 DEF IInv, AnswerInv
<1> QED BY <1>1, Invariance, PTL

\* What a master sends for the peer request of another is never taken for an
\* answer to the engine, as long as the engine does not end or cancel that
\* request itself.
THEOREM PeerAnswersInternal == Spec => []PeerAnswersStayInternal
<1>1. IInv => PeerAnswersStayInternal
  BY DEF IInv
<1> QED BY <1>1, Invariance, PTL

\* After its Cancel frame a master is sent nothing more of a request.
THEOREM CancelIsLast == Spec => []NothingAfterCancel
<1>1. IInv => NothingAfterCancel
  BY DEF IInv, ToMasterInv, NothingAfterCancel
<1> QED BY <1>1, Invariance, PTL
=============================================================================
