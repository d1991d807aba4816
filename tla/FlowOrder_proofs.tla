--------------------------- MODULE FlowOrder_proofs ---------------------------
(***************************************************************************)
(* Machine-checked proofs about FlowOrder, for all values of its constants *)
(* that satisfy BoundsAreNat.                                              *)
(***************************************************************************)
EXTENDS FlowOrder, NaturalFacts, TLAPS

-----------------------------------------------------------------------------
(***************************************************************************)
(* The inductive invariant                                                 *)
(***************************************************************************)

\* The writer's counter follows the number of frames handed to it.
WriterInv(f) ==
  /\ counters[f] <= attempts[f]
  /\ attempts[f] <= MaxFrames + late[f]
  /\ f \notin closing => /\ attempts[f] < MaxFrames
                         /\ late[f] = 0
                         /\ counters[f] = attempts[f]

\* The frames written to a flow without late frames: their seq numbers grow,
\* and the holes among them are the failed writes; the terminal is the last.
WrittenInv(f) ==
  /\ \A i \in DOMAIN written[f] :
       /\ written[f][i].flow = f
       /\ i - 1 <= written[f][i].seq
       /\ written[f][i].seq - (i - 1) <= attempts[f] - Len(written[f])
       /\ written[f][i].kind = "terminal" => f \in closing /\ i = Len(written[f])
  /\ \A i, j \in DOMAIN written[f] :
       i < j => written[f][i].seq < written[f][j].seq
  /\ Len(written[f]) <= attempts[f]

\* Every frame of the flow on its way to delivery was written to it.
InFlight(f) == {m \in medium : m.flow = f}
                 \cup (IF f \in cleaned THEN {} ELSE flows[f].buffer)

InFlightInv(f) ==
  \A m \in InFlight(f) : \E i \in DOMAIN written[f] : m = written[f][i]

\* What was delivered is what was written, without a hole; until the flow is
\* cleaned up the boundary expects exactly the next frame.
DeliveredInv(f) ==
  /\ Len(delivered[f]) <= Len(written[f])
  /\ \A i \in DOMAIN delivered[f] :
       delivered[f][i] = written[f][i] /\ written[f][i].seq = i - 1
  /\ f \notin cleaned => /\ flows[f].expected = Len(delivered[f])
                         /\ \A b \in flows[f].buffer : b.seq > flows[f].expected
  /\ f \in cleaned => /\ delivered[f] # <<>>
                      /\ delivered[f][Len(delivered[f])].kind = "terminal"

\* A written frame is still under way, buffered or delivered, unless Accept
\* refused a frame of its flow.
KeptInv(f) ==
  f \notin cleaned /\ errors[f] = {} =>
    \A i \in DOMAIN written[f] :
      i > Len(delivered[f]) => written[f][i] \in InFlight(f)

\* The frames of a flow that arrived and were neither refused nor, once the
\* flow was cleaned up, forgotten.
Seen(f) == {delivered[f][i] : i \in DOMAIN delivered[f]} \cup flows[f].buffer

\* m is one of the frames w in the place its seq says, and among the copies c.
Repeated(w, c, m) ==
  /\ m.seq + 1 \in DOMAIN w
  /\ m = w[m.seq + 1]
  /\ m \in c

\* Before a flow is cleaned up: a frame that arrived and is still in flight is a
\* copy.
FreshInv(f) ==
  f \notin cleaned =>
    /\ redelivered[f] = <<>>
    /\ \A m \in medium : m.flow = f /\ m \in Seen(f) => m \in copied

\* After that: all of it was delivered, only copies are under way, and the
\* boundary expects the repeats in order from the beginning.
RepeatInv(f) ==
  f \in cleaned =>
    /\ Len(delivered[f]) = Len(written[f])
    /\ \A m \in medium : m.flow = f => Repeated(written[f], copied, m)
    /\ \A b \in flows[f].buffer : Repeated(written[f], copied, b) /\ b.seq > flows[f].expected
    /\ flows[f].expected = SeqAgain(redelivered[f], Len(redelivered[f]) + 1)
    /\ \A i \in DOMAIN redelivered[f] :
         /\ Repeated(written[f], copied, redelivered[f][i])
         /\ redelivered[f][i].seq = SeqAgain(redelivered[f], i)

IInv ==
  /\ TypeOK
  /\ \A f \in Flows : WriterInv(f)
  /\ \A f \in Flows : NoLate(f) =>
       WrittenInv(f) /\ InFlightInv(f) /\ DeliveredInv(f) /\ KeptInv(f)
  /\ \A f \in Flows : NoLate(f) => FreshInv(f) /\ RepeatInv(f)

-----------------------------------------------------------------------------
(***************************************************************************)
(* Lemmas about the drain loop of Accept                                   *)
(***************************************************************************)

FlowState == [expected : Nat, buffer : SUBSET Frame]

\* The drain loop stops at the first seq behind fl.expected that is not
\* buffered (the loop of ReorderBuffer.Accept).
LEMMA NextGapProperties ==
  ASSUME NEW fl \in FlowState
  PROVE  /\ NextGap(fl) \in Nat
         /\ NextGap(fl) > fl.expected
         /\ NextGap(fl) \notin Buffered(fl)
         /\ \A s \in (fl.expected + 1)..(NextGap(fl) - 1) : s \in Buffered(fl)
<1> DEFINE e == fl.expected
           T == {n \in Nat : n > e /\ n \notin Buffered(fl)}
           top == e + MaxFrames + MaxLate + 1
<1>0. e \in Nat /\ fl.buffer \subseteq Frame
  BY DEF FlowState
<1>1. \A b \in fl.buffer : b.seq \in 0..(MaxFrames + MaxLate)
  BY <1>0 DEF Frame, SeqNo
<1>2. Buffered(fl) \subseteq Nat
  BY <1>1, BoundsAreNat DEF Buffered
<1>3. top \in T
  BY <1>0, <1>1, BoundsAreNat DEF Buffered
<1>4. PICK g \in T : \A k \in T : g <= k
  <2> T \subseteq Nat /\ T # {}
    BY <1>3
  <2> QED BY LeastNatural
<1>5. g \in Nat /\ g > e /\ g \notin Buffered(fl)
  BY <1>4
<1>6. \A s \in (e + 1)..(g - 1) : s \in Buffered(fl)
  BY <1>4, <1>5, <1>0
<1>7. g \in {s + 1 : s \in Buffered(fl) \cup {e}}
  <2>1. g - 1 \in Buffered(fl) \cup {e}
    BY <1>5, <1>6, <1>0
  <2>2. g = (g - 1) + 1
    BY <1>5
  <2> QED BY <2>1, <2>2
<1>8. \E x \in {s + 1 : s \in Buffered(fl) \cup {e}} :
        /\ x > e
        /\ x \notin Buffered(fl)
        /\ \A s \in (e + 1)..(x - 1) : s \in Buffered(fl)
  BY <1>5, <1>6, <1>7
<1>9. /\ NextGap(fl) \in {s + 1 : s \in Buffered(fl) \cup {e}}
      /\ NextGap(fl) > e
      /\ NextGap(fl) \notin Buffered(fl)
      /\ \A s \in (e + 1)..(NextGap(fl) - 1) : s \in Buffered(fl)
  BY <1>8 DEF NextGap
<1>10. NextGap(fl) \in Nat
  BY <1>9, <1>2, <1>0
<1> QED BY <1>9, <1>10

\* Accept returns the frames from fl.expected up to the gap, in seq order.
LEMMA ReadyProperties ==
  ASSUME NEW fl \in FlowState, NEW m \in Frame, m.seq = fl.expected
  PROVE  /\ Ready(fl, m) \in Seq(Frame)
         /\ Len(Ready(fl, m)) = NextGap(fl) - fl.expected
         /\ Len(Ready(fl, m)) >= 1
         /\ Ready(fl, m)[1] = m
         /\ \A i \in 2..Len(Ready(fl, m)) : Ready(fl, m)[i] \in fl.buffer
         /\ \A i \in 1..Len(Ready(fl, m)) :
              Ready(fl, m)[i].seq = fl.expected + i - 1
<1> DEFINE e == fl.expected
           n == NextGap(fl) - e
           R == Ready(fl, m)
<1>0. e \in Nat /\ fl.buffer \subseteq Frame
  BY DEF FlowState
<1>1. n \in Nat /\ n >= 1
  BY <1>0, NextGapProperties
<1>2. \A i \in 2..n : \E b \in fl.buffer : b.seq = e + i - 1
  <2> TAKE i \in 2..n
  <2>1. e + i - 1 \in (e + 1)..(NextGap(fl) - 1)
    BY <1>0, <1>1, NextGapProperties
  <2>2. e + i - 1 \in Buffered(fl)
    BY <2>1, NextGapProperties
  <2> QED BY <2>2 DEF Buffered
<1>3. R = [i \in 1..n |-> IF i = 1 THEN m ELSE CHOOSE b \in fl.buffer : b.seq = e + i - 1]
  BY DEF Ready
<1>4. \A i \in 2..n : R[i] \in fl.buffer /\ R[i].seq = e + i - 1
  <2> TAKE i \in 2..n
  <2>1. R[i] = CHOOSE b \in fl.buffer : b.seq = e + i - 1
    BY <1>1, <1>3
  <2> QED BY <2>1, <1>2
<1>5. R[1] = m
  BY <1>1, <1>3
<1>6. \A i \in 1..n : R[i] \in Frame /\ R[i].seq = e + i - 1
  <2> TAKE i \in 1..n
  <2>1. CASE i = 1
    BY <2>1, <1>5, <1>0
  <2>2. CASE i # 1
    BY <2>2, <1>4, <1>0, <1>1
  <2> QED BY <2>1, <2>2
<1>7. R \in Seq(Frame) /\ Len(R) = n
  <2>1. R \in [1..n -> Frame]
    BY <1>3, <1>6
  <2> HIDE DEF R
  <2> QED BY <1>1, <2>1
<1> QED BY <1>1, <1>4, <1>5, <1>6, <1>7
-----------------------------------------------------------------------------
(***************************************************************************)
(* The invariant holds initially and after every write                     *)
(***************************************************************************)
LEMMA InitInv == Init => IInv
<1> SUFFICES ASSUME Init PROVE IInv
  OBVIOUS
<1>1. TypeOK
  BY BoundsAreNat DEF Init, TypeOK, SeqNo, NewFlow
<1>2. ASSUME NEW f \in Flows PROVE WriterInv(f)
  BY BoundsAreNat DEF Init, WriterInv
<1>3. ASSUME NEW f \in Flows
      PROVE  WrittenInv(f) /\ InFlightInv(f) /\ DeliveredInv(f) /\ KeptInv(f)
  BY DEF Init, WrittenInv, InFlightInv, InFlight, DeliveredInv, KeptInv, NewFlow
<1>4. ASSUME NEW f \in Flows PROVE FreshInv(f) /\ RepeatInv(f)
  BY DEF Init, FreshInv, RepeatInv
<1> QED BY <1>1, <1>2, <1>3, <1>4 DEF IInv

\* Writing a frame: the type and the counters.
LEMMA WriteType ==
  ASSUME IInv, NEW f \in Flows, NEW k \in Kinds, NEW ok \in BOOLEAN,
         WriteFrame(f, k, ok)
  PROVE  TypeOK' /\ \A g \in Flows : WriterInv(g)'
<1> DEFINE frame == [flow |-> f, seq |-> counters[f], kind |-> k]
<1>1. TypeOK /\ \A g \in Flows : WriterInv(g)
  BY DEF IInv
<1>2. k \in {"body", "terminal", "late"} /\ frame \in Frame
  BY <1>1 DEF TypeOK, Frame, Kinds
<1>3. /\ attempts' = [attempts EXCEPT ![f] = @ + 1]
      /\ late' = IF k = "late" THEN [late EXCEPT ![f] = @ + 1] ELSE late
      /\ closing' = IF k = "terminal" THEN closing \cup {f} ELSE closing
      /\ counters' = [counters EXCEPT ![f] = IF ok /\ k = "terminal" THEN 0 ELSE @ + 1]
      /\ written' = IF ok THEN [written EXCEPT ![f] = Append(@, frame)] ELSE written
      /\ medium' = IF ok THEN medium \cup {frame} ELSE medium
      /\ UNCHANGED <<dups, copied, flows, delivered, cleaned, redelivered, errors>>
  BY DEF WriteFrame, receiverVars, mediumVars
<1>4. /\ k = "body" => f \notin closing /\ attempts[f] < MaxFrames - 1
      /\ k = "terminal" => f \notin closing
      /\ k = "late" => f \in closing /\ late[f] < MaxLate
  BY <1>2 DEF WriteFrame, MayWrite
<1>5. attempts[f] + 1 \in SeqNo /\ counters[f] + 1 \in SeqNo
  BY <1>1, <1>2, <1>4, BoundsAreNat DEF TypeOK, WriterInv, SeqNo
<1>6. written' \in [Flows -> Seq(Frame)] /\ medium' \subseteq Frame
  BY <1>1, <1>2, <1>3 DEF TypeOK
<1>7. /\ counters' \in [Flows -> SeqNo]
      /\ closing' \subseteq Flows
      /\ attempts' \in [Flows -> SeqNo]
  BY <1>1, <1>3, <1>5, BoundsAreNat DEF TypeOK, SeqNo
<1>8. late' \in [Flows -> 0..MaxLate]
  BY <1>1, <1>3, <1>4, BoundsAreNat DEF TypeOK
<1>9. TypeOK'
  BY <1>1, <1>3, <1>6, <1>7, <1>8 DEF TypeOK
<1>10. ASSUME NEW g \in Flows PROVE WriterInv(g)'
  <2>1. CASE g = f
    BY <2>1, <1>1, <1>2, <1>3, <1>4, BoundsAreNat DEF WriterInv, TypeOK, SeqNo
  <2>2. CASE g # f
    BY <2>2, <1>1, <1>3 DEF WriterInv, TypeOK
  <2> QED BY <2>1, <2>2
<1> QED BY <1>9, <1>10

FlowInv(f) == WrittenInv(f) /\ InFlightInv(f) /\ DeliveredInv(f) /\ KeptInv(f)

\* Writing a frame: the flow written to, when it has no late frame.
LEMMA WriteFlow ==
  ASSUME IInv, NEW f \in Flows, NEW k \in Kinds, NEW ok \in BOOLEAN,
         WriteFrame(f, k, ok), NoLate(f)'
  PROVE  FlowInv(f)'
<1> DEFINE frame == [flow |-> f, seq |-> counters[f], kind |-> k]
           w == written[f]
<1>1. TypeOK /\ WriterInv(f)
  BY DEF IInv
<1>2. k # "late" /\ NoLate(f)
  BY <1>1, BoundsAreNat DEF WriteFrame, NoLate, TypeOK
<1>3. FlowInv(f)
  BY <1>2 DEF IInv, FlowInv
<1>4. /\ attempts'[f] = attempts[f] + 1
      /\ closing' = IF k = "terminal" THEN closing \cup {f} ELSE closing
      /\ written'[f] = IF ok THEN Append(w, frame) ELSE w
      /\ medium' = IF ok THEN medium \cup {frame} ELSE medium
      /\ UNCHANGED <<flows, delivered, cleaned, errors>>
  BY <1>1 DEF WriteFrame, receiverVars, TypeOK
<1>5. f \notin closing /\ counters[f] = attempts[f]
  BY <1>1, <1>2 DEF WriteFrame, MayWrite, Kinds, WriterInv
<1>6. w \in Seq(Frame) /\ Len(w) <= attempts[f] /\ attempts[f] \in Nat
  BY <1>1, <1>3, BoundsAreNat DEF TypeOK, FlowInv, WrittenInv, SeqNo
<1>7. \A i \in DOMAIN w : w[i].seq \in Nat /\ w[i].seq < attempts[f]
  <2> TAKE i \in DOMAIN w
  <2>1. i \in 1..Len(w) /\ w[i] \in Frame
    BY <1>6
  <2>2. w[i].seq \in Nat
    BY <2>1, BoundsAreNat DEF Frame, SeqNo
  <2>3. w[i].seq - (i - 1) <= attempts[f] - Len(w)
    BY <1>3 DEF FlowInv, WrittenInv
  <2> QED BY <2>1, <2>2, <2>3, <1>6
<1>8. \A i \in DOMAIN w : w[i].kind # "terminal"
  BY <1>3, <1>5 DEF FlowInv, WrittenInv
<1>9. CASE ok
  <2>1. /\ DOMAIN written'[f] = 1..(Len(w) + 1)
        /\ Len(written'[f]) = Len(w) + 1
        /\ written'[f][Len(w) + 1] = frame
        /\ \A i \in 1..Len(w) : written'[f][i] = w[i]
    BY <1>9, <1>4, <1>6
  <2>2. frame.flow = f /\ frame.seq = attempts[f] /\ frame.kind = k
    BY <1>5
  <2>3. WrittenInv(f)'
    <3>1. ASSUME NEW i \in DOMAIN written'[f]
          PROVE  /\ written'[f][i].flow = f
                 /\ i - 1 <= written'[f][i].seq
                 /\ written'[f][i].seq - (i - 1) <= attempts'[f] - Len(written'[f])
                 /\ written'[f][i].kind = "terminal" => f \in closing' /\ i = Len(written'[f])
      <4>1. CASE i = Len(w) + 1
        BY <4>1, <2>1, <2>2, <1>4, <1>6
      <4>2. CASE i \in 1..Len(w)
        BY <4>2, <2>1, <1>3, <1>4, <1>6, <1>7, <1>8 DEF FlowInv, WrittenInv
      <4> QED BY <4>1, <4>2, <2>1, <1>6
    <3>2. ASSUME NEW i \in DOMAIN written'[f], NEW j \in DOMAIN written'[f], i < j
          PROVE  written'[f][i].seq < written'[f][j].seq
      <4>1. CASE j = Len(w) + 1
        BY <3>2, <4>1, <2>1, <2>2, <1>6, <1>7
      <4>2. CASE j \in 1..Len(w)
        <5>1. i \in 1..Len(w) /\ DOMAIN w = 1..Len(w)
          BY <3>2, <4>2, <2>1, <1>6
        <5>2. w[i].seq < w[j].seq
          BY <5>1, <4>2, <3>2, <1>3 DEF FlowInv, WrittenInv
        <5> QED BY <5>1, <5>2, <4>2, <2>1
      <4> QED BY <4>1, <4>2, <2>1, <1>6
    <3>3. Len(written'[f]) <= attempts'[f]
      BY <2>1, <1>4, <1>6
    <3> QED BY <3>1, <3>2, <3>3 DEF WrittenInv
  <2>4. InFlight(f)' = InFlight(f) \cup {frame}
    BY <1>4, <1>9 DEF InFlight
  <2>5. InFlightInv(f)'
    <3>1. ASSUME NEW m \in InFlight(f)' PROVE \E i \in DOMAIN written'[f] : m = written'[f][i]
      <4>1. CASE m = frame
        BY SMTT(30), <4>1, <2>1, <1>6
      <4>2. CASE m \in InFlight(f)
        BY SMTT(30), <4>2, <2>1, <1>3, <1>6 DEF FlowInv, InFlightInv
      <4> QED BY <4>1, <4>2, <2>4
    <3> QED BY <3>1 DEF InFlightInv
  <2>6. DeliveredInv(f)'
    <3>1. delivered[f] \in Seq(Frame)
      BY <1>1 DEF TypeOK
    <3> QED BY <3>1, <2>1, <1>3, <1>4, <1>6 DEF FlowInv, DeliveredInv
  <2>7. KeptInv(f)'
    BY <2>1, <2>4, <1>3, <1>4, <1>6 DEF FlowInv, KeptInv
  <2> QED BY <2>3, <2>5, <2>6, <2>7 DEF FlowInv
<1>10. CASE ~ok
  <2>1. written'[f] = w /\ medium' = medium
    BY <1>10, <1>4
  <2>2. WrittenInv(f)'
    <3>1. WrittenInv(f)
      BY <1>3 DEF FlowInv
    <3>2. \A i \in DOMAIN w : w[i].seq - (i - 1) <= attempts'[f] - Len(w)
      <4> TAKE i \in DOMAIN w
      <4>1. w[i].seq - (i - 1) <= attempts[f] - Len(w) /\ i \in Nat
        BY <3>1, <1>6 DEF WrittenInv
      <4> QED BY <4>1, <1>4, <1>6, <1>7
    <3>3. Len(w) <= attempts'[f]
      BY <1>4, <1>6
    <3> QED BY <3>1, <3>2, <3>3, <2>1, <1>8 DEF WrittenInv
  <2>3. InFlight(f)' = InFlight(f)
    BY <2>1, <1>4 DEF InFlight
  <2>4. InFlightInv(f)'
    BY <2>1, <2>3, <1>3 DEF FlowInv, InFlightInv
  <2>5. DeliveredInv(f)'
    BY <2>1, <1>3, <1>4 DEF FlowInv, DeliveredInv
  <2>6. KeptInv(f)'
    BY <2>1, <2>3, <1>3, <1>4 DEF FlowInv, KeptInv
  <2> QED BY <2>2, <2>4, <2>5, <2>6 DEF FlowInv
<1> QED BY <1>9, <1>10

\* Writing a frame: what arrived of the flow does not change, and the new frame
\* has a seq that no frame before it had.
LEMMA WriteRepeat ==
  ASSUME IInv, NEW f \in Flows, NEW k \in Kinds, NEW ok \in BOOLEAN,
         WriteFrame(f, k, ok), NoLate(f)'
  PROVE  FreshInv(f)' /\ RepeatInv(f)'
<1> DEFINE frame == [flow |-> f, seq |-> counters[f], kind |-> k]
           w == written[f]
<1>1. TypeOK /\ WriterInv(f)
  BY DEF IInv
<1>2. k # "late" /\ NoLate(f)
  BY <1>1, BoundsAreNat DEF WriteFrame, NoLate, TypeOK
<1>3. FlowInv(f) /\ FreshInv(f)
  BY <1>2 DEF IInv, FlowInv
<1>4. /\ medium' = IF ok THEN medium \cup {frame} ELSE medium
      /\ UNCHANGED <<flows, delivered, cleaned, redelivered, copied>>
  BY DEF WriteFrame, receiverVars, mediumVars
<1>5. f \notin closing /\ counters[f] = attempts[f]
  BY <1>1, <1>2 DEF WriteFrame, MayWrite, Kinds, WriterInv
<1>6. w \in Seq(Frame) /\ delivered[f] \in Seq(Frame) /\ attempts[f] \in Nat
  BY <1>1, BoundsAreNat DEF TypeOK, SeqNo
<1>7. f \notin cleaned
  <2> SUFFICES ASSUME f \in cleaned PROVE FALSE
    OBVIOUS
  <2> DEFINE n == Len(delivered[f])
  <2>1. n \in DOMAIN delivered[f] /\ delivered[f][n].kind = "terminal"
    BY <1>3, <1>6 DEF FlowInv, DeliveredInv
  <2>2. n \in DOMAIN w /\ w[n].kind = "terminal"
    BY <2>1, <1>3, <1>6 DEF FlowInv, DeliveredInv
  <2> QED BY <2>2, <1>3, <1>5 DEF FlowInv, WrittenInv
<1>8. \A i \in DOMAIN w : w[i] # frame
  <2> TAKE i \in DOMAIN w
  <2>1. i \in 1..Len(w) /\ w[i] \in Frame
    BY <1>6
  <2>2. w[i].seq \in Nat
    BY <2>1, BoundsAreNat DEF Frame, SeqNo
  <2>3. w[i].seq - (i - 1) <= attempts[f] - Len(w)
    BY <1>3 DEF FlowInv, WrittenInv
  <2>4. w[i].seq < attempts[f]
    BY <2>1, <2>2, <2>3, <1>6
  <2> QED BY <2>2, <2>4, <1>5, <1>6
<1>9. frame \notin Seen(f)
  <2>1. \A i \in DOMAIN delivered[f] : delivered[f][i] # frame
    BY <1>3, <1>6, <1>8 DEF FlowInv, DeliveredInv
  <2>2. \A b \in flows[f].buffer : b # frame
    BY <1>3, <1>7, <1>8 DEF FlowInv, InFlightInv, InFlight
  <2> QED BY <2>1, <2>2 DEF Seen
<1>10. Seen(f)' = Seen(f)
  BY <1>4 DEF Seen
<1>11. FreshInv(f)'
  BY <1>3, <1>4, <1>9, <1>10 DEF FreshInv
<1> QED BY <1>4, <1>7, <1>11 DEF RepeatInv

LEMMA WriteStep ==
  ASSUME IInv, NEW f \in Flows, NEW k \in Kinds, NEW ok \in BOOLEAN,
         WriteFrame(f, k, ok)
  PROVE  IInv'
<1>1. TypeOK
  BY DEF IInv
<1>2. ASSUME NEW g \in Flows, g # f, NoLate(g)'
      PROVE  FlowInv(g)'
  <2>1. /\ late'[g] = late[g]
        /\ attempts'[g] = attempts[g]
        /\ written'[g] = written[g]
        /\ g \in closing' <=> g \in closing
        /\ UNCHANGED <<flows, delivered, cleaned, errors>>
    BY <1>1, <1>2 DEF WriteFrame, TypeOK, receiverVars
  <2>2. {m \in medium' : m.flow = g} = {m \in medium : m.flow = g}
    BY <1>2 DEF WriteFrame
  <2>3. FlowInv(g)
    BY <1>2, <2>1 DEF IInv, FlowInv, NoLate
  <2>4. InFlight(g)' = InFlight(g)
    BY <2>1, <2>2 DEF InFlight
  <2>5. WrittenInv(g)'
    BY <2>1, <2>3 DEF FlowInv, WrittenInv
  <2>6. InFlightInv(g)' /\ KeptInv(g)'
    BY <2>1, <2>3, <2>4 DEF FlowInv, InFlightInv, KeptInv
  <2>7. DeliveredInv(g)'
    BY <2>1, <2>3 DEF FlowInv, DeliveredInv
  <2> QED BY <2>5, <2>6, <2>7 DEF FlowInv
<1>3. \A g \in Flows : NoLate(g)' => FlowInv(g)'
  BY <1>2, WriteFlow
<1>4. ASSUME NEW g \in Flows, g # f, NoLate(g)'
      PROVE  FreshInv(g)' /\ RepeatInv(g)'
  <2>1. /\ late'[g] = late[g]
        /\ written'[g] = written[g]
        /\ UNCHANGED <<flows, delivered, cleaned, redelivered, copied>>
    BY <1>1, <1>4 DEF WriteFrame, TypeOK, receiverVars, mediumVars
  <2>2. {m \in medium' : m.flow = g} = {m \in medium : m.flow = g}
    BY <1>4 DEF WriteFrame
  <2>3. FreshInv(g) /\ RepeatInv(g)
    BY <1>4, <2>1 DEF IInv, NoLate
  <2>4. FreshInv(g)'
    BY <2>1, <2>2, <2>3 DEF FreshInv, Seen
  <2>5. RepeatInv(g)'
    BY <2>1, <2>2, <2>3 DEF RepeatInv, Repeated
  <2> QED BY <2>4, <2>5
<1>5. \A g \in Flows : NoLate(g)' => FreshInv(g)' /\ RepeatInv(g)'
  BY <1>4, WriteRepeat
<1> QED BY <1>3, <1>5, WriteType DEF IInv, FlowInv
-----------------------------------------------------------------------------
(***************************************************************************)
(* The invariant holds after every frame the boundary accepts or refuses   *)
(***************************************************************************)

\* A step in which the medium hands frame m over, keeping a copy or not.
Handover(m) ==
  /\ m \in medium
  /\ medium' \in {medium, medium \ {m}}
  /\ dups' \in 0..MaxDup
  /\ copied' \in {copied, copied \cup {m}}
  /\ medium' = medium => m \in copied'
  /\ Accept(m)
  /\ UNCHANGED senderVars

LEMMA AcceptType ==
  ASSUME TypeOK, NEW m \in medium, Handover(m)
  PROVE  TypeOK'
<1> DEFINE f == m.flow
           fl == flows[f]
<1>1. m \in Frame /\ f \in Flows /\ fl \in FlowState /\ fl.buffer \subseteq Frame
  BY DEF TypeOK, Frame, FlowState
<1>2. /\ medium' \subseteq Frame /\ dups' \in 0..MaxDup /\ UNCHANGED senderVars
      /\ copied' \subseteq Frame
  BY DEF Handover, TypeOK
<1>3. CASE InOrder(fl, m)
  <2> DEFINE R == Ready(fl, m)
  <2>1. R \in Seq(Frame) /\ NextGap(fl) \in Nat
    BY <1>1, <1>3, ReadyProperties, NextGapProperties DEF InOrder
  <2>2. /\ delivered' = delivered \/ delivered' = [delivered EXCEPT ![f] = @ \o R]
        /\ redelivered' = redelivered \/ redelivered' = [redelivered EXCEPT ![f] = @ \o R]
        /\ cleaned' \in {cleaned, cleaned \cup {f}}
        /\ errors' = errors
    BY <1>3 DEF InOrder
  <2>3. flows' \in [Flows -> [expected : Nat, buffer : SUBSET Frame]]
    <3> DEFINE new == IF \E i \in DOMAIN R : R[i].kind = "terminal" THEN NewFlow
                      ELSE [expected |-> NextGap(fl),
                            buffer |-> {b \in fl.buffer : b.seq > NextGap(fl)}]
    <3>1. flows' = [flows EXCEPT ![f] = new]
      BY <1>3 DEF InOrder
    <3>2. new \in [expected : Nat, buffer : SUBSET Frame]
      BY <1>1, <2>1 DEF NewFlow
    <3> HIDE DEF new
    <3> QED BY <3>1, <3>2 DEF TypeOK
  <2>4. /\ delivered' \in [Flows -> Seq(Frame)]
        /\ redelivered' \in [Flows -> Seq(Frame)]
    <3> HIDE DEF R
    <3>1. delivered[f] \o R \in Seq(Frame) /\ redelivered[f] \o R \in Seq(Frame)
      BY <1>1, <2>1 DEF TypeOK
    <3>2. delivered' \in [Flows -> Seq(Frame)]
      BY <2>2, <3>1 DEF TypeOK
    <3>3. redelivered' \in [Flows -> Seq(Frame)]
      BY <2>2, <3>1 DEF TypeOK
    <3> QED BY <3>2, <3>3
  <2> QED BY <1>1, <1>2, <2>2, <2>3, <2>4 DEF TypeOK, senderVars
<1>4. CASE OutOfOrder(fl, m)
  <2>1. flows' = [flows EXCEPT ![f].buffer = @ \cup {m}]
    BY <1>4 DEF OutOfOrder
  <2>2. flows' \in [Flows -> [expected : Nat, buffer : SUBSET Frame]]
    BY <1>1, <2>1 DEF TypeOK
  <2> QED BY <1>2, <1>4, <2>2 DEF TypeOK, senderVars, OutOfOrder
<1>5. CASE Stale(fl, m)
  BY <1>2, <1>5 DEF TypeOK, senderVars, Stale
<1>6. CASE Overflow(fl, m)
  BY <1>2, <1>6 DEF TypeOK, senderVars, Overflow
<1> QED BY <1>3, <1>4, <1>5, <1>6 DEF Handover, Accept

\* The frame with seq e of a flow whose first e frames carry seqs 0..e-1 is its
\* frame e + 1; so the run that Accept drains is the next part of what was
\* written, frame by frame.
LEMMA ReadyIsNextWritten ==
  ASSUME TypeOK, NEW f \in Flows, FlowInv(f), f \notin cleaned,
         NEW m \in medium, m.flow = f, m.seq = flows[f].expected
  PROVE  LET e == flows[f].expected
             R == Ready(flows[f], m)
         IN  /\ e + Len(R) <= Len(written[f])
             /\ \A i \in 1..Len(R) : R[i] = written[f][e + i]
<1> DEFINE fl == flows[f]
           e == fl.expected
           R == Ready(fl, m)
           w == written[f]
           bad == {i \in 1..Len(R) : ~ (e + i <= Len(w) /\ R[i] = w[e + i])}
<1>1. fl \in FlowState /\ m \in Frame /\ w \in Seq(Frame) /\ delivered[f] \in Seq(Frame)
  BY DEF TypeOK, FlowState
<1>2. /\ R \in Seq(Frame)
      /\ Len(R) \in Nat
      /\ Len(R) >= 1
      /\ R[1] = m
      /\ \A i \in 2..Len(R) : R[i] \in fl.buffer
      /\ \A i \in 1..Len(R) : R[i].seq = e + i - 1
  BY <1>1, ReadyProperties
<1>3. e \in Nat /\ e = Len(delivered[f]) /\ e <= Len(w)
  BY <1>1 DEF FlowInv, DeliveredInv, FlowState
<1>4. \A i \in 1..Len(R) : \E j \in 1..Len(w) : R[i] = w[j]
  <2> TAKE i \in 1..Len(R)
  <2>1. R[i] \in InFlight(f)
    <3>1. CASE i = 1
      BY <3>1, <1>2 DEF InFlight
    <3>2. CASE i # 1
      BY <3>2, <1>2 DEF InFlight
    <3> QED BY <3>1, <3>2
  <2> QED BY <2>1, <1>1 DEF FlowInv, InFlightInv
<1>5. \A j \in 1..Len(w) : w[j].seq \in Nat /\ j <= w[j].seq + 1
  <2> TAKE j \in 1..Len(w)
  <2>1. w[j].seq \in Nat
    <3>1. w[j] \in Frame
      BY <1>1
    <3> QED BY <3>1, BoundsAreNat DEF Frame, SeqNo
  <2>2. j - 1 <= w[j].seq
    BY <1>1 DEF FlowInv, WrittenInv
  <2> QED BY <2>1, <2>2
<1>6. \A i, j \in 1..Len(w) : i <= j => w[i].seq <= w[j].seq
  <2> TAKE i, j \in 1..Len(w)
  <2>1. CASE i < j
    <3>1. w[i].seq < w[j].seq
      BY <2>1, <1>1 DEF FlowInv, WrittenInv
    <3> QED BY <3>1, <1>5
  <2>2. CASE i = j
    BY <2>2, <1>5
  <2> QED BY <2>1, <2>2
<1>7. e # 0 => w[e].seq = e - 1
  BY <1>1, <1>3 DEF FlowInv, DeliveredInv
<1> HIDE DEF R
<1>8. bad = {}
  <2> SUFFICES ASSUME bad # {} PROVE FALSE
    OBVIOUS
  <2>1. PICK i \in bad : \A k \in bad : i <= k
    <3> bad \subseteq Nat
      OBVIOUS
    <3> QED BY LeastNatural
  <2>2. i \in 1..Len(R) /\ R[i].seq = e + i - 1
    BY <1>2
  <2>3. PICK j \in 1..Len(w) : R[i] = w[j]
    BY <2>2, <1>4
  <2>4. j <= e + i
    BY <2>2, <2>3, <1>5, <1>3
  <2>5. \/ e + i - 1 = 0
        \/ e + i - 1 \in 1..Len(w) /\ w[e + i - 1].seq = e + i - 2
    <3>1. CASE i = 1
      BY <3>1, <1>3, <1>7
    <3>2. CASE i # 1
      <4>1. i - 1 \in 1..Len(R) /\ i - 1 \notin bad
        <5>1. i - 1 \in 1..Len(R) /\ ~ (i <= i - 1)
          BY <3>2, <2>2, <1>2
        <5> HIDE DEF bad
        <5> QED BY <5>1, <2>1
      <4>2. e + (i - 1) <= Len(w) /\ R[i - 1] = w[e + (i - 1)]
        BY <4>1
      <4>3. R[i - 1].seq = e + (i - 1) - 1
        BY <4>1, <1>2
      <4>4. e + (i - 1) = e + i - 1 /\ e + (i - 1) - 1 = e + i - 2 /\ e + i - 1 >= 1
        BY <1>3, <2>2, <3>2
      <4> QED BY <4>2, <4>3, <4>4, <1>1, <1>3, <2>2
    <3> QED BY <3>1, <3>2
  <2>6. j > e + i - 1
    <3> SUFFICES ASSUME j <= e + i - 1 PROVE FALSE
      BY <1>3, <2>2
    <3>1. w[j].seq <= w[e + i - 1].seq /\ w[e + i - 1].seq = e + i - 2
      BY SMTT(30), <2>5, <1>6, <1>3, <2>2
    <3> QED BY <3>1, <2>2, <2>3, <1>3
  <2>7. j = e + i
    <3>1. i \in Nat /\ j \in Nat /\ e \in Nat
      BY <1>3, <2>2
    <3> HIDE DEF e, bad
    <3> QED BY <2>4, <2>6, <3>1
  <2> QED BY <2>1, <2>3, <2>7
<1>9. \A i \in 1..Len(R) : e + i <= Len(w) /\ R[i] = w[e + i]
  BY <1>8
<1>10. e + Len(R) <= Len(w)
  BY <1>9, <1>2
<1> QED BY <1>9, <1>10 DEF R

\* Delivering an in-order frame and the run behind it.
LEMMA InOrderFlow ==
  ASSUME TypeOK, NEW f \in Flows, FlowInv(f),
         NEW m \in medium, m.flow = f, Handover(m), InOrder(flows[f], m)
  PROVE  FlowInv(f)'
<1> DEFINE fl == flows[f]
           e == fl.expected
           R == Ready(fl, m)
           w == written[f]
           d == delivered[f]
           done == \E i \in DOMAIN R : R[i].kind = "terminal"
<1>1. /\ fl \in FlowState /\ e \in Nat /\ m \in Frame
      /\ w \in Seq(Frame) /\ d \in Seq(Frame)
  BY DEF TypeOK, FlowState
<1>2. /\ m.seq = e
      /\ flows' = [flows EXCEPT ![f] =
           IF done THEN NewFlow
           ELSE [expected |-> NextGap(fl),
                 buffer |-> {b \in fl.buffer : b.seq > NextGap(fl)}]]
      /\ cleaned' = IF done THEN cleaned \cup {f} ELSE cleaned
      /\ f \in cleaned => delivered' = delivered
      /\ f \notin cleaned => delivered' = [delivered EXCEPT ![f] = @ \o R]
      /\ errors' = errors
  BY DEF InOrder
<1>3. /\ UNCHANGED <<written, attempts, closing>>
      /\ medium' \in {medium, medium \ {m}}
  BY DEF Handover, senderVars
<1>4. WrittenInv(f)'
  BY <1>3 DEF FlowInv, WrittenInv
<1>5. CASE f \in cleaned
  <2>1. f \in cleaned' /\ delivered' = delivered
    BY <1>2, <1>5
  <2>2. InFlight(f)' \subseteq InFlight(f)
    BY <1>3, <1>5, <2>1 DEF InFlight
  <2>3. InFlightInv(f)'
    BY <1>3, <2>2 DEF FlowInv, InFlightInv
  <2>4. DeliveredInv(f)'
    BY <1>3, <1>5, <2>1 DEF FlowInv, DeliveredInv
  <2>5. KeptInv(f)'
    BY <2>1 DEF KeptInv
  <2> QED BY <1>4, <2>3, <2>4, <2>5 DEF FlowInv
<1>6. CASE f \notin cleaned
  <2>1. /\ R \in Seq(Frame) /\ Len(R) = NextGap(fl) - e /\ Len(R) >= 1
        /\ Len(R) \in Nat
        /\ NextGap(fl) \in Nat
        /\ NextGap(fl) \notin Buffered(fl)
        /\ \A i \in 1..Len(R) : R[i].seq = e + i - 1
    BY <1>1, <1>2, ReadyProperties, NextGapProperties
  <2>2. e + Len(R) <= Len(w) /\ \A i \in 1..Len(R) : R[i] = w[e + i]
    BY <1>2, <1>6, ReadyIsNextWritten
  <2>3. e = Len(d) /\ e <= Len(w)
    BY <1>6 DEF FlowInv, DeliveredInv
  <2> HIDE DEF R
  <2>4. /\ delivered'[f] = d \o R
        /\ Len(delivered'[f]) = NextGap(fl)
        /\ DOMAIN delivered'[f] = 1..NextGap(fl)
        /\ NextGap(fl) <= Len(w)
    BY SMTT(30), <1>1, <1>2, <1>6, <2>1, <2>2, <2>3 DEF TypeOK
  <2>5. \A i \in 1..NextGap(fl) : delivered'[f][i] = w[i] /\ w[i].seq = i - 1
    <3> TAKE i \in 1..NextGap(fl)
    <3>1. CASE i <= e
      <4>1. i \in DOMAIN d
        BY <3>1, <1>1, <2>3
      <4>2. delivered'[f][i] = d[i]
        BY <4>1, <1>1, <2>1, <2>4
      <4> QED BY <4>1, <4>2 DEF FlowInv, DeliveredInv
    <3>2. CASE i > e
      <4>1. i - e \in 1..Len(R) /\ e + (i - e) = i
        BY <3>2, <1>1, <2>1
      <4>2. delivered'[f][i] = R[i - e]
        BY <3>2, <4>1, <1>1, <2>1, <2>3, <2>4
      <4>3. R[i - e] = w[i] /\ R[i - e].seq = e + (i - e) - 1
        BY <4>1, <2>1, <2>2
      <4>4. e + (i - e) - 1 = i - 1
        <5> HIDE DEF e
        <5> QED BY <1>1
      <4> QED BY <4>2, <4>3, <4>4
    <3> QED BY <3>1, <3>2, <1>1
  <2>6. InFlight(f)' \subseteq InFlight(f)
    <3>1. CASE done
      BY <3>1, <1>2, <1>3, <1>6 DEF InFlight
    <3>2. CASE ~done
      <4>1. flows'[f].buffer \subseteq fl.buffer /\ cleaned' = cleaned
        BY <3>2, <1>2 DEF TypeOK
      <4> QED BY <4>1, <1>3, <1>6 DEF InFlight
    <3> QED BY <3>1, <3>2
  <2>7. InFlightInv(f)'
    BY <1>3, <2>6 DEF FlowInv, InFlightInv
  <2>8. CASE done
    <3>1. f \in cleaned'
      BY <2>8, <1>2
    <3>2. PICK i \in 1..Len(R) : R[i].kind = "terminal"
      BY <2>8, <2>1
    <3>3. e + i = Len(w)
      <4>1. e + i \in 1..Len(w) /\ w[e + i].kind = "terminal"
        BY <3>2, <2>1, <2>2, <2>3, <1>1
      <4>2. \A j \in 1..Len(w) : w[j].kind = "terminal" => j = Len(w)
        BY <1>1 DEF FlowInv, WrittenInv
      <4> QED BY <4>1, <4>2
    <3>4. NextGap(fl) = Len(w) /\ i = Len(R)
      BY <3>2, <3>3, <2>1, <2>2, <2>4, <1>1
    <3>5. delivered'[f][NextGap(fl)].kind = "terminal" /\ NextGap(fl) >= 1
      <4>1. R[i] = w[e + i] /\ e + i = NextGap(fl) /\ NextGap(fl) >= 1
        <5>1. R[i] = w[e + i]
          BY <3>2, <2>2
        <5>2. e + i = NextGap(fl)
          BY <3>3, <3>4
        <5>3. NextGap(fl) >= 1
          BY <2>1, <1>1
        <5> QED BY <5>1, <5>2, <5>3
      <4>2. delivered'[f][NextGap(fl)] = w[NextGap(fl)]
        BY <4>1, <2>1, <2>5
      <4> QED BY <4>1, <4>2, <3>2
    <3>6. DeliveredInv(f)'
      <4>1. Len(delivered'[f]) = NextGap(fl) /\ written'[f] = w
        BY <2>4, <1>3
      <4>2. Len(delivered'[f]) <= Len(written'[f])
        BY <2>4, <4>1
      <4>3. \A j \in DOMAIN delivered'[f] :
              delivered'[f][j] = written'[f][j] /\ written'[f][j].seq = j - 1
        BY <2>5, <4>1
      <4>4. delivered'[f] # <<>> /\ delivered'[f][Len(delivered'[f])].kind = "terminal"
        BY <3>5, <4>1
      <4> QED BY <3>1, <4>2, <4>3, <4>4 DEF DeliveredInv
    <3>7. KeptInv(f)'
      BY <3>1 DEF KeptInv
    <3> QED BY <3>6, <3>7, <1>4, <2>7 DEF FlowInv
  <2>9. CASE ~done
    <3>1. /\ f \notin cleaned'
          /\ flows'[f].expected = NextGap(fl)
          /\ flows'[f].buffer = {b \in fl.buffer : b.seq > NextGap(fl)}
      BY <2>9, <1>2, <1>6 DEF TypeOK
    <3>2. DeliveredInv(f)'
      BY <3>1, <2>4, <2>5, <1>3 DEF DeliveredInv
    <3>3. KeptInv(f)'
      <4> SUFFICES ASSUME errors[f] = {},
                          NEW i \in DOMAIN w, i > NextGap(fl)
                   PROVE  w[i] \in InFlight(f)'
        BY <1>2, <1>3, <2>4 DEF KeptInv
      <4>1. w[i] \in InFlight(f) /\ i \in Nat /\ w[i] \in Frame
        <5>1. i \in Nat /\ i > Len(d) /\ w[i] \in Frame
          BY <1>1, <2>1, <2>3
        <5> QED BY <5>1, <1>6 DEF FlowInv, KeptInv
      <4>2. w[i].seq \in Nat /\ w[i].seq >= NextGap(fl)
        <5>1. w[i].seq \in Nat
          BY <4>1, BoundsAreNat DEF Frame, SeqNo
        <5>2. i - 1 <= w[i].seq
          BY DEF FlowInv, WrittenInv
        <5> QED BY <5>1, <5>2, <4>1, <2>1
      <4>3. w[i] # m
        BY <4>2, <1>2, <1>1, <2>1
      <4>4. CASE w[i] \in medium /\ w[i].flow = f
        BY <4>4, <4>3, <1>3 DEF InFlight
      <4>5. CASE w[i] \in fl.buffer
        <5>1. w[i].seq # NextGap(fl)
          BY <4>5, <2>1 DEF Buffered
        <5>2. w[i] \in flows'[f].buffer
          BY <5>1, <4>2, <4>5, <3>1, <2>1
        <5> QED BY <5>2, <3>1 DEF InFlight
      <4> QED BY <4>1, <4>4, <4>5, <1>6 DEF InFlight
    <3> QED BY <3>2, <3>3, <1>4, <2>7 DEF FlowInv
  <2> QED BY <2>8, <2>9
<1> QED BY <1>5, <1>6

\* Buffering or refusing a frame.
LEMMA OtherFlow ==
  ASSUME TypeOK, NEW f \in Flows, FlowInv(f),
         NEW m \in medium, m.flow = f, Handover(m), ~ InOrder(flows[f], m)
  PROVE  FlowInv(f)'
<1> DEFINE fl == flows[f]
<1>1. /\ UNCHANGED <<written, attempts, closing, delivered, cleaned>>
      /\ medium' \in {medium, medium \ {m}}
  BY DEF Handover, Accept, OutOfOrder, Stale, Overflow, senderVars
<1>2. WrittenInv(f)'
  BY <1>1 DEF FlowInv, WrittenInv
<1>3. CASE OutOfOrder(fl, m)
  <2>1. /\ flows'[f].expected = fl.expected
        /\ flows'[f].buffer = fl.buffer \cup {m}
        /\ m.seq > fl.expected
        /\ errors' = errors
    BY <1>3 DEF OutOfOrder, TypeOK
  <2>2. InFlight(f)' \subseteq InFlight(f)
    BY <1>1, <2>1 DEF InFlight
  <2>3. f \notin cleaned => InFlight(f) \subseteq InFlight(f)'
    BY <1>1, <2>1 DEF InFlight
  <2>4. InFlightInv(f)'
    BY <1>1, <2>2 DEF FlowInv, InFlightInv
  <2>5. DeliveredInv(f)'
    BY <1>1, <2>1 DEF FlowInv, DeliveredInv
  <2>6. KeptInv(f)'
    BY <1>1, <2>1, <2>3 DEF FlowInv, KeptInv
  <2> QED BY <1>2, <2>4, <2>5, <2>6 DEF FlowInv
<1>4. CASE Stale(fl, m) \/ Overflow(fl, m)
  <2>1. flows' = flows /\ errors'[f] # {}
    BY <1>4 DEF Stale, Overflow, TypeOK
  <2>2. InFlight(f)' \subseteq InFlight(f)
    BY <1>1, <2>1 DEF InFlight
  <2>3. InFlightInv(f)'
    BY <1>1, <2>2 DEF FlowInv, InFlightInv
  <2>4. DeliveredInv(f)'
    BY <1>1, <2>1 DEF FlowInv, DeliveredInv
  <2>5. KeptInv(f)'
    BY <2>1 DEF KeptInv
  <2> QED BY <1>2, <2>3, <2>4, <2>5 DEF FlowInv
<1> QED BY <1>3, <1>4 DEF Handover, Accept

\* An in-order frame that ends the flow or goes on with it, before it is cleaned
\* up: what was seen of the flow grows by m only, and all of it was written.
LEMMA InOrderFresh ==
  ASSUME TypeOK, TypeOK', NEW f \in Flows, FlowInv(f), FlowInv(f)', FreshInv(f),
         f \notin cleaned,
         NEW m \in medium, m.flow = f, Handover(m), InOrder(flows[f], m)
  PROVE  FreshInv(f)' /\ RepeatInv(f)'
<1> DEFINE fl == flows[f]
           R == Ready(fl, m)
           d == delivered[f]
           done == \E i \in DOMAIN R : R[i].kind = "terminal"
<1>1. /\ fl \in FlowState /\ m \in Frame
      /\ d \in Seq(Frame) /\ delivered'[f] \in Seq(Frame) /\ written'[f] \in Seq(Frame)
  BY DEF TypeOK, FlowState
<1>2. /\ m.seq = fl.expected
      /\ flows' = [flows EXCEPT ![f] =
           IF done THEN NewFlow
           ELSE [expected |-> NextGap(fl),
                 buffer |-> {b \in fl.buffer : b.seq > NextGap(fl)}]]
      /\ cleaned' = IF done THEN cleaned \cup {f} ELSE cleaned
      /\ delivered' = [delivered EXCEPT ![f] = @ \o R]
      /\ redelivered' = redelivered
  BY DEF InOrder
<1>3. /\ R \in Seq(Frame)
      /\ Len(R) \in Nat
      /\ R[1] = m
      /\ \A i \in 2..Len(R) : R[i] \in fl.buffer
  BY <1>1, <1>2, ReadyProperties
<1>4. /\ written' = written
      /\ medium' \subseteq medium
      /\ copied \subseteq copied'
      /\ m \in medium' => m \in copied'
  BY DEF Handover, senderVars
<1>5. redelivered'[f] = <<>>
  BY <1>2 DEF FreshInv
<1>6. \A x \in medium' : x.flow = f /\ x \in Seen(f) \cup {m} => x \in copied'
  BY <1>4 DEF FreshInv
<1>7. \A i \in 1..Len(R) : R[i] \in fl.buffer \cup {m}
  <2> HIDE DEF R
  <2> QED BY <1>3
<1> DEFINE d2 == delivered'[f]
<1>8. \A i \in DOMAIN d2 : d2[i] \in Seen(f) \cup {m}
  <2> HIDE DEF R
  <2> TAKE i \in DOMAIN d2
  <2>1. d2 = d \o R
    BY <1>2 DEF TypeOK
  <2>2. i \in 1..(Len(d) + Len(R)) /\ d2[i] = IF i <= Len(d) THEN d[i] ELSE R[i - Len(d)]
    BY <2>1, <1>1, <1>3
  <2>3. CASE i <= Len(d)
    BY <2>2, <2>3, <1>1 DEF Seen
  <2>4. CASE i > Len(d)
    <3>1. i - Len(d) \in 1..Len(R)
      BY <2>2, <2>4, <1>1, <1>3
    <3> QED BY <3>1, <2>2, <2>4, <1>1, <1>7 DEF Seen
  <2> QED BY <2>2, <2>3, <2>4, <1>1
<1> HIDE DEF d2
<1>9. CASE done
  <2>1. /\ f \in cleaned'
        /\ flows'[f] = NewFlow
    BY <1>2, <1>9 DEF TypeOK
  <2>2. /\ Len(d2) \in DOMAIN d2 /\ d2[Len(d2)].kind = "terminal"
        /\ Len(d2) \in DOMAIN written'[f]
        /\ \A i \in DOMAIN d2 : d2[i] = written'[f][i] /\ written'[f][i].seq = i - 1
    <3>1. DeliveredInv(f)'
      BY DEF FlowInv
    <3>2. /\ d2 # <<>> /\ d2[Len(d2)].kind = "terminal" /\ Len(d2) <= Len(written'[f])
          /\ \A i \in DOMAIN d2 : d2[i] = written'[f][i] /\ written'[f][i].seq = i - 1
      BY <3>1, <2>1 DEF DeliveredInv, d2
    <3>3. d2 \in Seq(Frame)
      BY <1>1 DEF d2
    <3> QED BY <3>2, <3>3, <1>1
  <2>3. Len(d2) = Len(written'[f])
    BY <2>2 DEF FlowInv, WrittenInv
  <2>4. ASSUME NEW x \in medium', x.flow = f PROVE Repeated(written'[f], copied', x)
    <3>1. PICK i \in DOMAIN written'[f] : x = written'[f][i]
      BY <2>4 DEF FlowInv, InFlightInv, InFlight
    <3>2. i \in DOMAIN d2 /\ i \in Nat
      BY <3>1, <2>3, <1>1 DEF d2
    <3>3. x = d2[i] /\ x.seq = i - 1
      BY <3>1, <3>2, <2>2
    <3>4. x \in copied'
      BY <3>2, <3>3, <2>4, <1>6, <1>8
    <3>5. x.seq + 1 = i
      BY <3>2, <3>3
    <3> QED BY <3>1, <3>4, <3>5 DEF Repeated
  <2>5. RepeatInv(f)'
    <3>1. flows'[f].buffer = {} /\ flows'[f].expected = 0
      BY <2>1 DEF NewFlow
    <3>2. SeqAgain(redelivered'[f], Len(redelivered'[f]) + 1) = 0 /\ DOMAIN redelivered'[f] = {}
      BY <1>5 DEF SeqAgain
    <3> QED BY <3>1, <3>2, <2>3, <2>4 DEF RepeatInv, d2
  <2> QED BY <2>1, <2>5 DEF FreshInv
<1>10. CASE ~done
  <2>1. cleaned' = cleaned /\ flows'[f].buffer \subseteq fl.buffer
    BY <1>2, <1>10 DEF TypeOK
  <2>2. Seen(f)' \subseteq Seen(f) \cup {m}
    BY <2>1, <1>8 DEF Seen, d2
  <2>3. FreshInv(f)'
    BY <2>2, <1>5, <1>6 DEF FreshInv
  <2> QED BY <2>1, <2>3 DEF RepeatInv
<1> QED BY <1>9, <1>10

\* A repeat in order, and the repeats buffered behind it: only the last of them
\* can be the terminal.
LEMMA InOrderRepeat ==
  ASSUME TypeOK, TypeOK', NEW f \in Flows, FlowInv(f), RepeatInv(f),
         f \in cleaned,
         NEW m \in medium, m.flow = f, Handover(m), InOrder(flows[f], m)
  PROVE  FreshInv(f)' /\ RepeatInv(f)'
<1> DEFINE fl == flows[f]
           e == fl.expected
           R == Ready(fl, m)
           w == written[f]
           r == redelivered[f]
           r2 == redelivered'[f]
           done == \E i \in DOMAIN R : R[i].kind = "terminal"
<1>1. /\ fl \in FlowState /\ m \in Frame /\ e \in Nat
      /\ r \in Seq(Frame) /\ w \in Seq(Frame)
  BY DEF TypeOK, FlowState
<1>2. /\ m.seq = e
      /\ flows' = [flows EXCEPT ![f] =
           IF done THEN NewFlow
           ELSE [expected |-> NextGap(fl),
                 buffer |-> {b \in fl.buffer : b.seq > NextGap(fl)}]]
      /\ f \in cleaned'
      /\ delivered' = delivered
      /\ redelivered' = [redelivered EXCEPT ![f] = @ \o R]
  BY DEF InOrder
<1>3. /\ R \in Seq(Frame)
      /\ Len(R) = NextGap(fl) - e
      /\ Len(R) \in Nat /\ Len(R) >= 1
      /\ R[1] = m
      /\ \A i \in 2..Len(R) : R[i] \in fl.buffer
      /\ \A i \in 1..Len(R) : R[i].seq = e + i - 1
      /\ NextGap(fl) \in Nat
  BY <1>1, <1>2, ReadyProperties, NextGapProperties
<1>4. /\ written' = written
      /\ medium' \subseteq medium
      /\ copied \subseteq copied'
  BY DEF Handover, senderVars
<1>5. \A x : Repeated(written[f], copied, x) => Repeated(written'[f], copied', x)
  BY <1>4 DEF Repeated
<1> HIDE DEF R
<1>6. \A i \in 1..Len(R) : Repeated(written[f], copied, R[i])
  <2>1. Repeated(written[f], copied, m) /\ \A b \in fl.buffer : Repeated(written[f], copied, b)
    BY DEF RepeatInv
  <2> QED BY <2>1, <1>3
<1>7. \A i \in 1..Len(R) : R[i].kind = "terminal" => i = Len(R)
  <2> SUFFICES ASSUME NEW i \in 1..Len(R), R[i].kind = "terminal", i < Len(R) PROVE FALSE
    BY <1>3
  <2>1. R[i].seq = e + i - 1 /\ R[i + 1].seq = e + i /\ i + 1 \in 1..Len(R)
    <3>1. i + 1 \in 1..Len(R) /\ e + (i + 1) - 1 = e + i
      BY <1>1, <1>3
    <3> QED BY <3>1, <1>3
  <2>2. /\ e + i \in 1..Len(w) /\ w[e + i].kind = "terminal"
        /\ e + i + 1 \in 1..Len(w)
    <3>1. e + i - 1 + 1 = e + i
      BY <1>1
    <3>2. /\ R[i].seq + 1 \in DOMAIN w /\ R[i] = w[R[i].seq + 1]
          /\ R[i + 1].seq + 1 \in DOMAIN w
      BY <2>1, <1>6 DEF Repeated
    <3>3. R[i].seq + 1 = e + i /\ R[i + 1].seq + 1 = e + i + 1 /\ DOMAIN w = 1..Len(w)
      BY <2>1, <3>1, <1>1
    <3> HIDE DEF w, e
    <3> QED BY <3>2, <3>3
  <2>3. e + i = Len(w)
    <3>1. \A j \in DOMAIN w : w[j].kind = "terminal" => j = Len(w)
      BY DEF FlowInv, WrittenInv
    <3>2. DOMAIN w = 1..Len(w)
      BY <1>1
    <3> HIDE DEF w, e
    <3> QED BY <2>2, <3>1, <3>2
  <2>4. Len(w) \in Nat
    BY <1>1
  <2> HIDE DEF w, e
  <2> QED BY <2>2, <2>3, <2>4
<1>8. /\ r2 = r \o R
      /\ Len(r2) = Len(r) + Len(R)
      /\ DOMAIN r2 = 1..(Len(r) + Len(R))
      /\ \A i \in 1..Len(r) : r2[i] = r[i]
      /\ \A i \in 1..Len(R) : r2[Len(r) + i] = R[i]
  <2>1. r2 = r \o R
    BY <1>2 DEF TypeOK
  <2>2. Len(r) \in Nat /\ Len(R) \in Nat /\ r \in Seq(Frame) /\ R \in Seq(Frame)
    BY <1>1, <1>3
  <2> HIDE DEF r2, r
  <2>3. Len(r2) = Len(r) + Len(R) /\ DOMAIN r2 = 1..(Len(r) + Len(R))
    BY <2>1, <2>2
  <2>4. \A i \in 1..Len(r) : r2[i] = r[i]
    BY <2>1, <2>2
  <2>5. ASSUME NEW i \in 1..Len(R) PROVE r2[Len(r) + i] = R[i]
    <3>1. Len(r) + i > Len(r) /\ Len(r) + i <= Len(r) + Len(R) /\ Len(r) + i - Len(r) = i
      BY <2>2
    <3> QED BY <3>1, <2>1, <2>2
  <2> QED BY <2>1, <2>3, <2>4, <2>5
<1>9. e = SeqAgain(r, Len(r) + 1)
  BY DEF RepeatInv
<1>10. SeqAgain(r2, Len(r) + 1) = e
  <2>1. Len(r) \in Nat /\ Len(r) + 1 - 1 = Len(r)
    BY <1>1
  <2>2. CASE Len(r) = 0
    BY <2>1, <2>2, <1>9 DEF SeqAgain
  <2>3. CASE Len(r) # 0
    <3>1. r2[Len(r)] = r[Len(r)]
      BY <2>1, <2>3, <1>8
    <3> HIDE DEF r, r2, e
    <3> QED BY <3>1, <2>1, <2>3, <1>9 DEF SeqAgain
  <2> QED BY <2>2, <2>3
<1>11. \A i \in 2..(Len(R) + 1) :
         SeqAgain(r2, Len(r) + i) = IF R[i - 1].kind = "terminal" THEN 0 ELSE e + i - 1
  <2> TAKE i \in 2..(Len(R) + 1)
  <2>1. /\ i - 1 \in 1..Len(R) /\ Len(r) + (i - 1) = Len(r) + i - 1
        /\ Len(r) + i # 1 /\ e + (i - 1) - 1 + 1 = e + i - 1
    BY <1>1, <1>3
  <2>2. r2[Len(r) + i - 1] = R[i - 1] /\ R[i - 1].seq = e + (i - 1) - 1
    BY <2>1, <1>3, <1>8
  <2> HIDE DEF r, r2, e
  <2> QED BY <2>1, <2>2 DEF SeqAgain
<1>12. ASSUME NEW j \in DOMAIN r2
       PROVE  Repeated(written'[f], copied', r2[j]) /\ r2[j].seq = SeqAgain(r2, j)
  <2>1. CASE j <= Len(r)
    <3>1. j \in 1..Len(r) /\ r2[j] = r[j]
      BY <2>1, <1>1, <1>8
    <3>2. Repeated(written[f], copied, r[j]) /\ r[j].seq = SeqAgain(r, j)
      BY <3>1, <1>1 DEF RepeatInv
    <3>3. SeqAgain(r2, j) = SeqAgain(r, j)
      <4>1. j = 1 \/ r2[j - 1] = r[j - 1]
        BY <3>1, <1>8, <1>1
      <4> HIDE DEF r, r2
      <4> QED BY <4>1 DEF SeqAgain
    <3>4. Repeated(written'[f], copied', r2[j])
      BY <3>1, <3>2, <1>5
    <3> QED BY <3>1, <3>2, <3>3, <3>4
  <2>2. CASE j > Len(r)
    <3> DEFINE i == j - Len(r)
    <3>1. i \in 1..Len(R) /\ Len(r) + i = j
      <4>1. j \in 1..(Len(r) + Len(R)) /\ Len(r) \in Nat /\ Len(R) \in Nat
        BY <1>1, <1>3, <1>8
      <4> HIDE DEF r, r2
      <4> QED BY <4>1, <2>2
    <3>2. r2[j] = R[i] /\ R[i].seq = e + i - 1
      BY <3>1, <1>3, <1>8
    <3>3. Repeated(written'[f], copied', r2[j])
      BY <3>1, <3>2, <1>5, <1>6
    <3>4. SeqAgain(r2, j) = e + i - 1
      <4>1. CASE i = 1
        BY <4>1, <3>1, <1>1, <1>10
      <4>2. CASE i # 1
        <5>1. i \in 2..(Len(R) + 1) /\ i - 1 \in 1..Len(R) /\ i - 1 # Len(R)
          BY <4>2, <3>1, <1>3
        <5>2. R[i - 1].kind # "terminal"
          BY <5>1, <1>7
        <5> HIDE DEF i
        <5> QED BY <5>1, <5>2, <3>1, <1>11
      <4> QED BY <4>1, <4>2
    <3> QED BY <3>2, <3>3, <3>4
  <2> QED BY <2>1, <2>2, <1>1, <1>8
<1>13. flows'[f].expected = SeqAgain(r2, Len(r2) + 1)
  <2>1. /\ Len(R) + 1 \in 2..(Len(R) + 1) /\ Len(R) + 1 - 1 = Len(R)
        /\ Len(r) + (Len(R) + 1) = Len(r2) + 1
        /\ e + (Len(R) + 1) - 1 = NextGap(fl)
    <3>1. /\ Len(r) \in Nat /\ Len(R) \in Nat /\ Len(R) >= 1 /\ e \in Nat
          /\ NextGap(fl) \in Nat /\ Len(R) = NextGap(fl) - e /\ Len(r2) = Len(r) + Len(R)
      BY <1>1, <1>3, <1>8
    <3> HIDE DEF r2, r, e
    <3> QED BY <3>1
  <2>2. SeqAgain(r2, Len(r2) + 1) = IF R[Len(R)].kind = "terminal" THEN 0 ELSE NextGap(fl)
    <3> HIDE DEF r2, r, e
    <3>1. SeqAgain(r2, Len(r) + (Len(R) + 1)) =
            IF R[Len(R) + 1 - 1].kind = "terminal" THEN 0 ELSE e + (Len(R) + 1) - 1
      BY <2>1, <1>11
    <3> QED BY <3>1, <2>1
  <2>3. done <=> R[Len(R)].kind = "terminal"
    BY <1>3, <1>7
  <2>4. flows'[f].expected = IF done THEN 0 ELSE NextGap(fl)
    <3>1. CASE done
      BY <3>1, <1>2 DEF TypeOK, NewFlow
    <3>2. CASE ~done
      BY <3>2, <1>2 DEF TypeOK
    <3> QED BY <3>1, <3>2
  <2> QED BY <2>2, <2>3, <2>4
<1>14. \A b \in flows'[f].buffer : Repeated(written'[f], copied', b) /\ b.seq > flows'[f].expected
  <2>1. CASE done
    BY <2>1, <1>2 DEF TypeOK, NewFlow
  <2>2. CASE ~done
    <3>1. /\ flows'[f].expected = NextGap(fl)
          /\ flows'[f].buffer = {b \in fl.buffer : b.seq > NextGap(fl)}
      BY <2>2, <1>2 DEF TypeOK
    <3> QED BY <3>1, <1>5 DEF RepeatInv
  <2> QED BY <2>1, <2>2
<1>15. RepeatInv(f)'
  <2>1. Len(delivered'[f]) = Len(written'[f])
    BY <1>2, <1>4 DEF RepeatInv
  <2>2. \A x \in medium' : x.flow = f => Repeated(written'[f], copied', x)
    BY <1>4, <1>5 DEF RepeatInv
  <2> QED BY <2>1, <2>2, <1>12, <1>13, <1>14 DEF RepeatInv
<1> QED BY <1>2, <1>15 DEF FreshInv

\* A frame that is buffered or refused: a copy of it is a copy.
LEMMA OtherRepeat ==
  ASSUME TypeOK, NEW f \in Flows, FlowInv(f), FreshInv(f), RepeatInv(f),
         NEW m \in medium, m.flow = f, Handover(m), ~ InOrder(flows[f], m)
  PROVE  FreshInv(f)' /\ RepeatInv(f)'
<1>1. /\ UNCHANGED <<written, delivered, cleaned, redelivered>>
      /\ medium' \subseteq medium
      /\ copied \subseteq copied'
      /\ m \in medium' => m \in copied'
  BY DEF Handover, Accept, OutOfOrder, Stale, Overflow, senderVars
<1>2. \A x : Repeated(written[f], copied, x) => Repeated(written'[f], copied', x)
  BY <1>1 DEF Repeated
<1>3. /\ flows'[f].expected = flows[f].expected
      /\ \/ flows'[f].buffer = flows[f].buffer
         \/ flows'[f].buffer = flows[f].buffer \cup {m} /\ m.seq > flows[f].expected
  <2>1. CASE OutOfOrder(flows[f], m)
    BY <2>1 DEF OutOfOrder, TypeOK
  <2>2. CASE Stale(flows[f], m) \/ Overflow(flows[f], m)
    BY <2>2 DEF Stale, Overflow
  <2> QED BY <2>1, <2>2 DEF Handover, Accept
<1>4. FreshInv(f)'
  <2>1. Seen(f)' \subseteq Seen(f) \cup {m}
    BY <1>1, <1>3 DEF Seen
  <2> QED BY <2>1, <1>1 DEF FreshInv
<1>5. RepeatInv(f)'
  <2> SUFFICES ASSUME f \in cleaned PROVE RepeatInv(f)'
    BY <1>1 DEF RepeatInv
  <2>1. \A b \in flows'[f].buffer : Repeated(written'[f], copied', b) /\ b.seq > flows'[f].expected
    BY <1>2, <1>3 DEF RepeatInv
  <2>2. \A x \in medium' : x.flow = f => Repeated(written'[f], copied', x)
    BY <1>1, <1>2 DEF RepeatInv
  <2>3. \A i \in DOMAIN redelivered'[f] :
          /\ Repeated(written'[f], copied', redelivered'[f][i])
          /\ redelivered'[f][i].seq = SeqAgain(redelivered'[f], i)
    BY <1>1, <1>2 DEF RepeatInv
  <2>4. /\ Len(delivered'[f]) = Len(written'[f])
        /\ flows'[f].expected = SeqAgain(redelivered'[f], Len(redelivered'[f]) + 1)
    BY <1>1, <1>3 DEF RepeatInv
  <2> QED BY <2>1, <2>2, <2>3, <2>4 DEF RepeatInv
<1> QED BY <1>4, <1>5

LEMMA AcceptStep ==
  ASSUME IInv, NEW m \in medium, Handover(m)
  PROVE  IInv'
<1>1. TypeOK /\ TypeOK' /\ m.flow \in Flows
  BY AcceptType DEF IInv, TypeOK, Frame
<1>2. \A g \in Flows : WriterInv(g)'
  BY DEF IInv, WriterInv, Handover, senderVars
<1>3. ASSUME NEW g \in Flows, NoLate(g)' PROVE FlowInv(g)'
  <2>1. FlowInv(g)
    BY <1>3 DEF IInv, FlowInv, NoLate, Handover, senderVars
  <2>2. CASE g = m.flow
    BY <2>1, <2>2, <1>1, InOrderFlow, OtherFlow
  <2>3. CASE g # m.flow
    <3>1. /\ flows'[g] = flows[g]
          /\ delivered'[g] = delivered[g]
          /\ errors'[g] = errors[g]
          /\ g \in cleaned' <=> g \in cleaned
      <4>1. CASE InOrder(flows[m.flow], m)
        BY <4>1, <2>3, <1>1 DEF InOrder, TypeOK
      <4>2. CASE OutOfOrder(flows[m.flow], m)
        BY <4>2, <2>3, <1>1 DEF OutOfOrder, TypeOK
      <4>3. CASE Stale(flows[m.flow], m)
        BY <4>3, <2>3, <1>1 DEF Stale, TypeOK
      <4>4. CASE Overflow(flows[m.flow], m)
        BY <4>4, <2>3, <1>1 DEF Overflow, TypeOK
      <4> QED BY <4>1, <4>2, <4>3, <4>4 DEF Handover, Accept
    <3>2. {x \in medium' : x.flow = g} = {x \in medium : x.flow = g}
      BY <2>3 DEF Handover
    <3>3. UNCHANGED <<written, attempts, closing>>
      BY DEF Handover, senderVars
    <3>4. InFlight(g)' = InFlight(g)
      BY <3>1, <3>2 DEF InFlight
    <3>5. WrittenInv(g)'
      BY <2>1, <3>3 DEF FlowInv, WrittenInv
    <3>6. InFlightInv(g)' /\ KeptInv(g)'
      BY <2>1, <3>1, <3>3, <3>4 DEF FlowInv, InFlightInv, KeptInv
    <3>7. DeliveredInv(g)'
      BY <2>1, <3>1, <3>3 DEF FlowInv, DeliveredInv
    <3> QED BY <3>5, <3>6, <3>7 DEF FlowInv
  <2> QED BY <2>2, <2>3
<1>4. ASSUME NEW g \in Flows, NoLate(g)' PROVE FreshInv(g)' /\ RepeatInv(g)'
  <2>1. FlowInv(g) /\ FlowInv(g)' /\ FreshInv(g) /\ RepeatInv(g)
    <3>1. NoLate(g)
      BY <1>4 DEF NoLate, Handover, senderVars
    <3> QED BY <3>1, <1>3, <1>4 DEF IInv, FlowInv
  <2>2. CASE g = m.flow
    BY <2>1, <2>2, <1>1, InOrderFresh, InOrderRepeat, OtherRepeat
  <2>3. CASE g # m.flow
    <3>1. /\ flows'[g] = flows[g]
          /\ delivered'[g] = delivered[g]
          /\ redelivered'[g] = redelivered[g]
          /\ g \in cleaned' <=> g \in cleaned
      <4>1. CASE InOrder(flows[m.flow], m)
        BY <4>1, <2>3, <1>1 DEF InOrder, TypeOK
      <4>2. CASE OutOfOrder(flows[m.flow], m)
        BY <4>2, <2>3, <1>1 DEF OutOfOrder, TypeOK
      <4>3. CASE Stale(flows[m.flow], m) \/ Overflow(flows[m.flow], m)
        BY <4>3 DEF Stale, Overflow
      <4> QED BY <4>1, <4>2, <4>3 DEF Handover, Accept
    <3>2. medium' \subseteq medium /\ copied \subseteq copied' /\ written' = written
      BY DEF Handover, senderVars
    <3>3. \A x : Repeated(written[g], copied, x) => Repeated(written'[g], copied', x)
      BY <3>2 DEF Repeated
    <3>4. FreshInv(g)'
      BY <2>1, <3>1, <3>2 DEF FreshInv, Seen
    <3>5. RepeatInv(g)'
      BY <2>1, <3>1, <3>2, <3>3 DEF RepeatInv
    <3> QED BY <3>4, <3>5
  <2> QED BY <2>2, <2>3
<1> QED BY <1>1, <1>2, <1>3, <1>4 DEF IInv, FlowInv
-----------------------------------------------------------------------------
(***************************************************************************)
(* Theorems                                                                *)
(***************************************************************************)
LEMMA Invariance == Spec => []IInv
<1>1. Init => IInv
  BY InitInv
<1>2. IInv /\ [Next]_vars => IInv'
  <2> SUFFICES ASSUME IInv, [Next]_vars PROVE IInv'
    OBVIOUS
  <2>1. ASSUME NEW f \in Flows, NEW k \in Kinds, NEW ok \in BOOLEAN, WriteFrame(f, k, ok)
        PROVE  IInv'
    BY <2>1, WriteStep
  <2>2. ASSUME NEW m \in medium, Receive(m) PROVE IInv'
    <3>1. Handover(m)
      BY <2>2 DEF Receive, Handover, IInv, TypeOK, mediumVars
    <3> QED BY <3>1, AcceptStep
  <2>3. ASSUME NEW m \in medium, ReceiveCopy(m) PROVE IInv'
    <3>1. Handover(m)
      BY <2>3, BoundsAreNat DEF ReceiveCopy, Handover, IInv, TypeOK
    <3> QED BY <3>1, AcceptStep
  <2>4. CASE UNCHANGED vars
    <3>1. UNCHANGED <<counters, closing, attempts, late, written, medium, dups, copied,
                      flows, delivered, cleaned, redelivered, errors>>
      BY <2>4 DEF vars, senderVars, receiverVars, mediumVars
    <3>2. TypeOK'
      BY <3>1 DEF IInv, TypeOK
    <3>3. \A f \in Flows : WriterInv(f)'
      BY <3>1 DEF IInv, WriterInv
    <3>4. ASSUME NEW f \in Flows, NoLate(f)' PROVE FlowInv(f)'
      <4>1. FlowInv(f)
        BY <3>1, <3>4 DEF IInv, NoLate, FlowInv
      <4>2. InFlight(f)' = InFlight(f)
        BY <3>1 DEF InFlight
      <4>3. WrittenInv(f)' /\ DeliveredInv(f)'
        BY <4>1, <3>1 DEF FlowInv, WrittenInv, DeliveredInv
      <4>4. InFlightInv(f)' /\ KeptInv(f)'
        BY <4>1, <4>2, <3>1 DEF FlowInv, InFlightInv, KeptInv
      <4> QED BY <4>3, <4>4 DEF FlowInv
    <3>5. ASSUME NEW f \in Flows, NoLate(f)' PROVE FreshInv(f)' /\ RepeatInv(f)'
      <4>1. FreshInv(f) /\ RepeatInv(f)
        BY <3>1, <3>5 DEF IInv, NoLate
      <4> QED BY <4>1, <3>1 DEF FreshInv, Seen, RepeatInv, Repeated
    <3> QED BY <3>2, <3>3, <3>4, <3>5 DEF IInv, FlowInv
  <2> QED BY <2>1, <2>2, <2>3, <2>4 DEF Next
<1> QED BY <1>1, <1>2, PTL DEF Spec

\* Every variable keeps its type; in particular no flow numbers more frames
\* than were handed to its writer (SeqAssigner.Assign, Remove).
THEOREM TypeCorrect == Spec => []TypeOK
<1>1. IInv => TypeOK
  BY DEF IInv
<1> QED BY <1>1, Invariance, PTL

\* For every number of flows, buffer size and amount of reordering, failed
\* writes and duplicates, each flow is handed on as a prefix of what was
\* written to it, and after CleanupFlow only frames that the medium repeated are
\* handed on again, in order (ReorderBuffer.Accept, CleanupFlow).  Flows with a
\* frame after their terminal (a detached progress sender) are excepted.
THEOREM OrderIsKept == Spec => []InOrderDelivery
<1>1. IInv => InOrderDelivery
  <2> SUFFICES ASSUME IInv, NEW f \in Flows, NoLate(f)
               PROVE  /\ Len(delivered[f]) <= Len(written[f])
                      /\ \A i \in DOMAIN delivered[f] : delivered[f][i] = written[f][i]
                      /\ redelivered[f] # <<>> => f \in cleaned
                      /\ \A i \in DOMAIN redelivered[f] :
                           LET m == redelivered[f][i]
                           IN  /\ m \in copied
                               /\ m = written[f][m.seq + 1]
                               /\ m.seq = SeqAgain(redelivered[f], i)
    BY DEF InOrderDelivery
  <2>1. DeliveredInv(f) /\ FreshInv(f) /\ RepeatInv(f)
    BY DEF IInv
  <2>2. CASE f \in cleaned
    BY <2>1, <2>2 DEF DeliveredInv, RepeatInv, Repeated
  <2>3. CASE f \notin cleaned
    BY <2>1, <2>3 DEF DeliveredInv, FreshInv
  <2> QED BY <2>2, <2>3
<1> QED BY <1>1, Invariance, PTL

\* A flow whose writes succeeded and whose frames were all accepted has lost
\* nothing once nothing of it is under way: nothing waits in the buffer.
THEOREM NothingIsLost == Spec => []NoSilentLoss
<1>1. IInv => NoSilentLoss
  <2> SUFFICES ASSUME IInv, NEW f \in Flows, Healthy(f),
                      \A m \in medium : m.flow # f
               PROVE  delivered[f] = written[f]
    BY DEF NoSilentLoss
  <2> DEFINE w == written[f]
             d == delivered[f]
  <2>1. /\ WrittenInv(f) /\ DeliveredInv(f) /\ KeptInv(f)
        /\ w \in Seq(Frame) /\ d \in Seq(Frame)
        /\ attempts[f] = Len(w)
        /\ errors[f] = {}
    BY DEF IInv, Healthy, TypeOK
  <2>2. Len(d) <= Len(w) /\ \A i \in 1..Len(d) : d[i] = w[i]
    BY <2>1 DEF DeliveredInv
  <2>3. Len(d) = Len(w)
    <3>1. CASE f \in cleaned
      <4>1. Len(d) \in 1..Len(w) /\ w[Len(d)].kind = "terminal"
        BY <3>1, <2>1, <2>2 DEF DeliveredInv
      <4>2. \A j \in 1..Len(w) : w[j].kind = "terminal" => j = Len(w)
        BY <2>1 DEF WrittenInv
      <4> QED BY <4>1, <4>2
    <3>2. CASE f \notin cleaned
      <4> SUFFICES ASSUME Len(d) < Len(w) PROVE FALSE
        BY <2>1, <2>2
      <4> DEFINE i == Len(d) + 1
      <4>1. i \in 1..Len(w) /\ i > Len(d)
        BY <2>1, <2>2
      <4>2. w[i] \in flows[f].buffer
        <5>1. w[i] \in InFlight(f)
          BY <4>1, <3>2, <2>1 DEF KeptInv
        <5> QED BY <5>1, <3>2 DEF InFlight
      <4>3. w[i].seq > Len(d)
        BY <4>2, <3>2, <2>1 DEF DeliveredInv
      <4>4. w[i].seq \in Nat
        <5>1. w[i] \in Frame
          BY <4>1, <2>1
        <5> QED BY <5>1, BoundsAreNat DEF Frame, SeqNo
      <4>5. w[i].seq - (i - 1) <= attempts[f] - Len(w)
        BY SMTT(30), <4>1, <2>1 DEF WrittenInv
      <4> QED BY <4>1, <4>3, <4>4, <4>5, <2>1
    <3> QED BY <3>1, <3>2
  <2> QED BY <2>1, <2>2, <2>3
<1> QED BY <1>1, Invariance, PTL

\* Nothing was handed on again after CleanupFlow.
NothingAgain == \A f \in Flows : redelivered[f] = <<>>

\* As long as nothing is handed on again, HandedOn is what was delivered.
LEMMA HandedOnOnce ==
  ASSUME TypeOK, NothingAgain
  PROVE  HandedOn = delivered
<1>1. ASSUME NEW f \in Flows PROVE HandedOn[f] = delivered[f]
  <2>1. HandedOn[f] = delivered[f] \o <<>>
    BY DEF HandedOn, NothingAgain
  <2>2. delivered[f] \in Seq(Frame)
    BY DEF TypeOK
  <2> DEFINE d == delivered[f]
  <2> HIDE DEF d
  <2>3. d \in Seq(Frame) => d \o <<>> = d
    OBVIOUS
  <2> QED BY <2>1, <2>2, <2>3 DEF d
<1> QED BY <1>1 DEF HandedOn, TypeOK

\* Without late frames, and as long as no repeat of a frame arrives after its
\* flow was cleaned up, numbering and reordering implement ordered delivery: a
\* write is a Send or no step at all, an in-order arrival delivers the next
\* frames, and every other arrival, a duplicate's included, changes nothing the
\* user sees.
THEOREM OrderedUntilRepeated ==
  ASSUME MaxLate = 0
  PROVE  Spec /\ []NothingAgain => Ordered
<1>1. Init => Abstract!Init
  <2> SUFFICES ASSUME Init PROVE Abstract!Init
    OBVIOUS
  <2>1. TypeOK
    BY InitInv DEF IInv
  <2>2. NothingAgain
    BY DEF Init, NothingAgain
  <2> QED BY <2>1, <2>2, HandedOnOnce DEF Init, Abstract!Init
<1>2. /\ IInv /\ IInv' /\ NothingAgain /\ NothingAgain' /\ [Next]_vars
      => [Abstract!Next]_(Abstract!vars)
  <2> SUFFICES ASSUME IInv, IInv', NothingAgain, NothingAgain', [Next]_vars
               PROVE  [Abstract!Next]_(Abstract!vars)
    OBVIOUS
  <2>1. TypeOK /\ TypeOK' /\ \A f \in Flows : FlowInv(f) /\ FlowInv(f)'
    <3>1. TypeOK /\ TypeOK'
      BY DEF IInv
    <3>2. \A f \in Flows : late[f] = 0 /\ late'[f] = 0
      BY <3>1 DEF TypeOK
    <3> QED BY <3>1, <3>2 DEF IInv, NoLate, FlowInv
  <2>7. HandedOn = delivered
    BY <2>1, HandedOnOnce
  <2>6. HandedOn' = delivered'
    <3>1. ASSUME NEW f \in Flows PROVE (HandedOn')[f] = delivered'[f]
      <4>1. (HandedOn')[f] = delivered'[f] \o <<>>
        BY DEF HandedOn, NothingAgain
      <4>2. delivered'[f] \in Seq(Frame)
        BY <2>1 DEF TypeOK
      <4> DEFINE d == delivered'[f]
      <4> HIDE DEF d
      <4>3. d \in Seq(Frame) => d \o <<>> = d
        OBVIOUS
      <4> QED BY <4>1, <4>2, <4>3 DEF d
    <3> QED BY <3>1, <2>1 DEF HandedOn, TypeOK
  <2>2. ASSUME NEW f \in Flows, NEW k \in Kinds, NEW ok \in BOOLEAN, WriteFrame(f, k, ok)
        PROVE  [Abstract!Next]_(Abstract!vars)
    <3>1. delivered' = delivered
      BY <2>2 DEF WriteFrame, receiverVars
    <3>2. CASE ok
      <4> DEFINE frame == [flow |-> f, seq |-> counters[f], kind |-> k]
      <4>1. frame \in Frame
        BY <2>1 DEF TypeOK, Frame
      <4>2. written' = [written EXCEPT ![f] = Append(@, frame)]
        BY <2>2, <3>2 DEF WriteFrame
      <4> HIDE DEF frame
      <4>3. Abstract!Send(f)
        BY <4>1, <4>2, <3>1, <2>7, <2>6 DEF Abstract!Send
      <4> QED BY <4>3 DEF Abstract!Next
    <3>3. CASE ~ok
      BY <3>1, <3>3, <2>2, <2>7, <2>6 DEF WriteFrame, Abstract!vars
    <3> QED BY <3>2, <3>3
  <2>3. ASSUME NEW m \in medium, Handover(m)
        PROVE  [Abstract!Next]_(Abstract!vars)
    <3> DEFINE f == m.flow
               fl == flows[f]
    <3>1. f \in Flows /\ written' = written
      BY <2>1, <2>3 DEF TypeOK, Frame, Handover, senderVars
    <3>2. CASE InOrder(fl, m) /\ f \notin cleaned
      <4> DEFINE R == Ready(fl, m)
                 n == Len(delivered[f]) + Len(R)
                 w == written[f]
      <4>0. fl \in FlowState /\ m \in Frame
        BY <2>1, <3>1 DEF TypeOK, FlowState
      <4>1. R \in Seq(Frame) /\ Len(R) >= 1 /\ Len(R) \in Nat
        BY <4>0, <3>2, ReadyProperties DEF InOrder
      <4>2. /\ fl.expected + Len(R) <= Len(w)
            /\ \A i \in 1..Len(R) : R[i] = w[fl.expected + i]
        BY <2>1, <3>1, <3>2, ReadyIsNextWritten DEF InOrder
      <4>3. fl.expected = Len(delivered[f])
        BY <2>1, <3>1, <3>2 DEF FlowInv, DeliveredInv
      <4>4. /\ delivered[f] \in Seq(Frame) /\ w \in Seq(Frame)
            /\ \A i \in 1..Len(delivered[f]) : delivered[f][i] = w[i]
        BY <2>1, <3>1 DEF FlowInv, DeliveredInv, TypeOK
      <4>5. delivered' = [delivered EXCEPT ![f] = @ \o R]
        BY <3>2 DEF InOrder
      <4> HIDE DEF R
      <4>6. n \in (Len(delivered[f]) + 1)..Len(w)
        BY <4>1, <4>2, <4>3, <4>4
      <4>7. delivered[f] \o R = SubSeq(w, 1, n)
        <5>1. \A i \in 1..n : (delivered[f] \o R)[i] = w[i]
          <6> TAKE i \in 1..n
          <6>1. CASE i <= Len(delivered[f])
            BY <6>1, <4>1, <4>4
          <6>2. CASE i > Len(delivered[f])
            <7>1. i - Len(delivered[f]) \in 1..Len(R)
              BY <6>2, <4>1, <4>4
            <7>2. (delivered[f] \o R)[i] = R[i - Len(delivered[f])]
              BY <6>2, <4>1, <4>4
            <7>3. R[i - Len(delivered[f])] = w[Len(delivered[f]) + (i - Len(delivered[f]))]
              BY <7>1, <4>2, <4>3
            <7>4. Len(delivered[f]) + (i - Len(delivered[f])) = i
              BY <4>4
            <7> QED BY <7>2, <7>3, <7>4
          <6> QED BY <6>1, <6>2, <4>4
        <5>2. /\ delivered[f] \o R \in Seq(Frame) /\ Len(delivered[f] \o R) = n
              /\ SubSeq(w, 1, n) \in Seq(Frame) /\ Len(SubSeq(w, 1, n)) = n
          BY <4>1, <4>4, <4>6
        <5>3. \A i \in 1..n : SubSeq(w, 1, n)[i] = w[i]
          BY <4>4, <4>6
        <5> QED BY <5>1, <5>2, <5>3
      <4>8. Abstract!Deliver(f)
        BY <4>5, <4>6, <4>7, <3>1, <2>7, <2>6 DEF Abstract!Deliver
      <4> QED BY <4>8, <3>1 DEF Abstract!Next
    <3>3. CASE ~ (InOrder(fl, m) /\ f \notin cleaned)
      <4>1. delivered' = delivered
        BY <2>3, <3>3 DEF Handover, Accept, InOrder, OutOfOrder, Stale, Overflow
      <4> QED BY <3>1, <4>1, <2>7, <2>6 DEF Abstract!vars
    <3> QED BY <3>2, <3>3
  <2>4. ASSUME NEW m \in medium, Receive(m) \/ ReceiveCopy(m)
        PROVE  [Abstract!Next]_(Abstract!vars)
    <3>1. Handover(m)
      BY <2>1, <2>4, BoundsAreNat DEF Receive, ReceiveCopy, Handover, TypeOK, mediumVars
    <3> QED BY <3>1, <2>3
  <2>5. CASE UNCHANGED vars
    BY <2>5, <2>7, <2>6 DEF vars, senderVars, receiverVars, Abstract!vars
  <2> QED BY <2>2, <2>4, <2>5 DEF Next
<1> QED BY <1>1, <1>2, Invariance, PTL DEF Spec, Ordered, Abstract!Spec

\* Without late frames, over a medium that reorders and loses nothing and
\* repeats nothing, every behaviour of numbering and reordering is one of
\* ordered delivery, the frames handed on after CleanupFlow counted too.
THEOREM ImplementsOrderedDelivery ==
  ASSUME MaxLate = 0, MaxDup = 0
  PROVE  Spec => Ordered
<1> DEFINE NoCopy == copied = {}
<1>1. Init => NoCopy
  BY DEF Init
<1>2. IInv /\ NoCopy /\ [Next]_vars => NoCopy'
  <2> SUFFICES ASSUME IInv, copied = {}, [Next]_vars PROVE copied' = {}
    OBVIOUS
  <2>1. ASSUME NEW f \in Flows, NEW k \in Kinds, NEW ok \in BOOLEAN, WriteFrame(f, k, ok)
        PROVE  copied' = {}
    BY <2>1 DEF WriteFrame, mediumVars
  <2>2. ASSUME NEW m \in medium, Receive(m) PROVE copied' = {}
    BY <2>2 DEF Receive, mediumVars
  <2>3. ASSUME NEW m \in medium, ReceiveCopy(m) PROVE copied' = {}
    <3>1. dups < MaxDup /\ dups \in 0..MaxDup
      BY <2>3 DEF ReceiveCopy, IInv, TypeOK
    <3> QED BY <3>1
  <2>4. CASE UNCHANGED vars
    BY <2>4 DEF vars, mediumVars
  <2> QED BY <2>1, <2>2, <2>3, <2>4 DEF Next
<1>3. IInv /\ NoCopy => NothingAgain
  <2> SUFFICES ASSUME IInv, copied = {}, NEW f \in Flows PROVE redelivered[f] = <<>>
    BY DEF NothingAgain
  <2>1. FreshInv(f) /\ RepeatInv(f) /\ redelivered[f] \in Seq(Frame)
    <3>1. late[f] = 0
      BY DEF IInv, TypeOK
    <3> QED BY <3>1 DEF IInv, NoLate, TypeOK
  <2>2. CASE f \in cleaned
    <3>1. DOMAIN redelivered[f] = {}
      BY <2>1, <2>2 DEF RepeatInv, Repeated
    <3> DEFINE r == redelivered[f]
    <3>2. r \in Seq(Frame) /\ DOMAIN r = {}
      BY <2>1, <3>1
    <3> HIDE DEF r
    <3>3. Len(r) = 0
      BY <3>2
    <3>4. r = <<>>
      BY <3>2, <3>3
    <3> QED BY <3>4 DEF r
  <2> QED BY <2>1, <2>2 DEF FreshInv
<1> HIDE DEF NoCopy
<1>4. Spec => []NothingAgain
  BY <1>1, <1>2, <1>3, Invariance, PTL DEF Spec
<1> QED BY <1>4, OrderedUntilRepeated, PTL
=============================================================================
