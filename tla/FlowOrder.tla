------------------------------ MODULE FlowOrder ------------------------------
(***************************************************************************)
(* Per-flow ordering of bifaci frames (bifaci/frame.go).                   *)
(*                                                                         *)
(* A flow is the frames of one (request id, routing id) pair.  The writer  *)
(* of a process numbers the frames of each flow under its mutex            *)
(* (SeqAssigner, called by syncFrameWriter.WriteFrame); the receiving      *)
(* boundary puts them back in order (ReorderBuffer).  The medium between   *)
(* them may reorder and, a bounded number of times, duplicate a frame.     *)
(*                                                                         *)
(* A frame is "body" (REQ, STREAM_*, CHUNK, LOG before the terminal),      *)
(* "terminal" (END or ERR) or "late" (a LOG that a detached progress       *)
(* sender writes after the terminal of its request).  A write may fail     *)
(* after the number was taken: FrameWriter.WriteFrame refuses a frame      *)
(* larger than max_frame.                                                  *)
(***************************************************************************)
EXTENDS Integers, Sequences, FiniteSets

CONSTANTS
  Flows,             \* the flow keys
  MaxBufferPerFlow,  \* ReorderBuffer.MaxBufferPerFlow
  MaxFrames,         \* bound: frames of a flow up to and including its terminal
  MaxLate,           \* bound: frames of a flow written after its terminal
  MaxDup             \* bound: duplicates the medium makes

ASSUME BoundsAreNat ==
  /\ MaxBufferPerFlow \in Nat
  /\ MaxFrames \in Nat \ {0}
  /\ MaxLate \in Nat
  /\ MaxDup \in Nat

VARIABLES
  counters,   \* SeqAssigner.counters; a missing key reads as 0
  closing,    \* flows whose terminal frame was handed to the writer
  attempts,   \* history: number of frames handed to the writer, per flow
  late,       \* history: how many of them came after the terminal
  written,    \* history: frames written successfully, in order, per flow
  medium,     \* frames in flight
  dups,       \* duplicates made so far
  copied,     \* history: frames of which the medium kept a copy
  flows,      \* ReorderBuffer.flows: expected seq and buffered frames
  delivered,  \* history: frames delivered before the flow was cleaned up
  cleaned,    \* flows for which CleanupFlow was called
  redelivered,\* history: frames delivered after the flow was cleaned up
  errors      \* the errors Accept returned, per flow

senderVars   == <<counters, closing, attempts, late, written>>
receiverVars == <<flows, delivered, cleaned, redelivered, errors>>
mediumVars   == <<dups, copied>>
vars == <<senderVars, medium, mediumVars, receiverVars>>

Kinds == {"body", "terminal", "late"}
SeqNo == 0..(MaxFrames + MaxLate)
Frame == [flow : Flows, seq : SeqNo, kind : Kinds]

\* A flowState that has just been created.
NewFlow == [expected |-> 0, buffer |-> {}]

Init ==
  /\ counters = [f \in Flows |-> 0]
  /\ closing = {}
  /\ attempts = [f \in Flows |-> 0]
  /\ late = [f \in Flows |-> 0]
  /\ written = [f \in Flows |-> <<>>]
  /\ medium = {}
  /\ dups = 0
  /\ copied = {}
  /\ flows = [f \in Flows |-> NewFlow]
  /\ delivered = [f \in Flows |-> <<>>]
  /\ cleaned = {}
  /\ redelivered = [f \in Flows |-> <<>>]
  /\ errors = [f \in Flows |-> {}]

-----------------------------------------------------------------------------
\* What may be handed to the writer next: body frames and one terminal, then
\* the LOG frames of a progress sender that outlived its request.
MayWrite(f, k) ==
  CASE k = "body"     -> f \notin closing /\ attempts[f] < MaxFrames - 1
    [] k = "terminal" -> f \notin closing
    [] k = "late"     -> f \in closing /\ late[f] < MaxLate

\* Mutant of WriteFrame: the counter moves on in Assign and again after the write.
WriteFrame_CountTwice(f, k, ok) ==
  LET frame == [flow |-> f, seq |-> counters[f], kind |-> k]
  IN
  /\ MayWrite(f, k)
  /\ attempts' = [attempts EXCEPT ![f] = @ + 1]
  /\ late' = IF k = "late" THEN [late EXCEPT ![f] = @ + 1] ELSE late
  /\ closing' = IF k = "terminal" THEN closing \cup {f} ELSE closing
  /\ counters' = [counters EXCEPT ![f] = IF ok /\ k = "terminal" THEN 0 ELSE IF ok THEN @ + 2 ELSE @ + 1]
  /\ written' = IF ok THEN [written EXCEPT ![f] = Append(@, frame)] ELSE written
  /\ medium' = IF ok THEN medium \cup {frame} ELSE medium
  /\ UNCHANGED <<mediumVars, receiverVars>>

\* syncFrameWriter.WriteFrame: Assign, write, and Remove after a terminal
\* frame that was written.  The counter moves on even when the write fails.
WriteFrame(f, k, ok) ==
  LET frame == [flow |-> f, seq |-> counters[f], kind |-> k]
  IN
  /\ MayWrite(f, k)
  /\ attempts' = [attempts EXCEPT ![f] = @ + 1]
  /\ late' = IF k = "late" THEN [late EXCEPT ![f] = @ + 1] ELSE late
  /\ closing' = IF k = "terminal" THEN closing \cup {f} ELSE closing
  /\ counters' = [counters EXCEPT ![f] = IF ok /\ k = "terminal" THEN 0 ELSE @ + 1]
  /\ written' = IF ok THEN [written EXCEPT ![f] = Append(@, frame)] ELSE written
  /\ medium' = IF ok THEN medium \cup {frame} ELSE medium
  /\ UNCHANGED <<mediumVars, receiverVars>>

-----------------------------------------------------------------------------
Buffered(fl) == {b.seq : b \in fl.buffer}

\* Mutant of NextGap: Accept delivers the frame and does not drain the buffer.
NextGap_NoDrain(fl) == fl.expected + 1

\* The expected seq after delivering fl.expected and draining the frames
\* buffered right behind it: the first seq that is not buffered.
NextGap(fl) ==
  CHOOSE e \in {s + 1 : s \in Buffered(fl) \cup {fl.expected}} :
    /\ e > fl.expected
    /\ e \notin Buffered(fl)
    /\ \A s \in (fl.expected + 1)..(e - 1) : s \in Buffered(fl)

\* The frames Accept returns for an in-order frame m.
Ready(fl, m) ==
  [i \in 1..(NextGap(fl) - fl.expected) |->
     IF i = 1 THEN m
     ELSE CHOOSE b \in fl.buffer : b.seq = fl.expected + i - 1]

\* m is the next frame: deliver it and the run buffered behind it; the caller
\* cleans the flow up once the terminal frame is delivered (CleanupFlow).
InOrder(fl, m) ==
  LET f     == m.flow
      ready == Ready(fl, m)
      done  == \E i \in DOMAIN ready : ready[i].kind = "terminal"
  IN
  /\ m.seq = fl.expected
  /\ flows' = [flows EXCEPT ![f] =
       IF done THEN NewFlow
       ELSE [expected |-> NextGap(fl),
             buffer |-> {b \in fl.buffer : b.seq > NextGap(fl)}]]
  /\ cleaned' = IF done THEN cleaned \cup {f} ELSE cleaned
  /\ IF f \in cleaned
     THEN /\ redelivered' = [redelivered EXCEPT ![f] = @ \o ready]
          /\ UNCHANGED delivered
     ELSE /\ delivered' = [delivered EXCEPT ![f] = @ \o ready]
          /\ UNCHANGED redelivered
  /\ UNCHANGED errors

\* Mutant of OutOfOrder: a frame that is ahead is handed on at once.
OutOfOrder_Forward(fl, m) ==
  /\ m.seq > fl.expected
  /\ m.seq \notin Buffered(fl)
  /\ delivered' = [delivered EXCEPT ![m.flow] = Append(@, m)]
  /\ UNCHANGED <<flows, cleaned, redelivered, errors>>

\* Mutant of OutOfOrder: a frame that is ahead is dropped.
OutOfOrder_Drop(fl, m) ==
  /\ m.seq > fl.expected
  /\ m.seq \notin Buffered(fl)
  /\ Cardinality(fl.buffer) < MaxBufferPerFlow
  /\ UNCHANGED <<flows, delivered, cleaned, redelivered, errors>>

\* m is ahead and there is room: keep it.
OutOfOrder(fl, m) ==
  /\ m.seq > fl.expected
  /\ m.seq \notin Buffered(fl)
  /\ Cardinality(fl.buffer) < MaxBufferPerFlow
  /\ flows' = [flows EXCEPT ![m.flow].buffer = @ \cup {m}]
  /\ UNCHANGED <<delivered, cleaned, redelivered, errors>>

\* Mutant of Stale: a frame that is behind is handed on again.
Stale_Forward(fl, m) ==
  /\ m.seq < fl.expected \/ m.seq \in Buffered(fl)
  /\ delivered' = [delivered EXCEPT ![m.flow] = Append(@, m)]
  /\ UNCHANGED <<flows, cleaned, redelivered, errors>>

\* m is behind, or its seq is buffered already.
Stale(fl, m) ==
  /\ m.seq < fl.expected \/ m.seq \in Buffered(fl)
  /\ errors' = [errors EXCEPT ![m.flow] = @ \cup {"stale"}]
  /\ UNCHANGED <<flows, delivered, cleaned, redelivered>>

\* m is ahead and the flow's buffer is full.
Overflow(fl, m) ==
  /\ m.seq > fl.expected
  /\ m.seq \notin Buffered(fl)
  /\ Cardinality(fl.buffer) >= MaxBufferPerFlow
  /\ errors' = [errors EXCEPT ![m.flow] = @ \cup {"overflow"}]
  /\ UNCHANGED <<flows, delivered, cleaned, redelivered>>

\* ReorderBuffer.Accept.
Accept(m) ==
  LET fl == flows[m.flow]
  IN \/ InOrder(fl, m)
     \/ OutOfOrder(fl, m)
     \/ Stale(fl, m)
     \/ Overflow(fl, m)

Receive(m) ==
  /\ m \in medium
  /\ medium' = medium \ {m}
  /\ Accept(m)
  /\ UNCHANGED <<senderVars, mediumVars>>

\* The medium hands the frame over and keeps a copy of it.
ReceiveCopy(m) ==
  /\ m \in medium
  /\ dups < MaxDup
  /\ dups' = dups + 1
  /\ copied' = copied \cup {m}
  /\ Accept(m)
  /\ UNCHANGED <<senderVars, medium>>

-----------------------------------------------------------------------------
Next ==
  \/ \E f \in Flows, k \in Kinds, ok \in BOOLEAN : WriteFrame(f, k, ok)
  \/ \E m \in medium : Receive(m)
  \/ \E m \in medium : ReceiveCopy(m)

Spec == Init /\ [][Next]_vars

\* The medium delivers every frame in the end; nobody has to write.
Fairness == WF_vars(\E m \in medium : Receive(m))

FairSpec == Spec /\ Fairness

-----------------------------------------------------------------------------
(***************************************************************************)
(* Properties                                                              *)
(***************************************************************************)
TypeOK ==
  /\ counters \in [Flows -> SeqNo]
  /\ closing \subseteq Flows
  /\ attempts \in [Flows -> SeqNo]
  /\ late \in [Flows -> 0..MaxLate]
  /\ written \in [Flows -> Seq(Frame)]
  /\ medium \subseteq Frame
  /\ dups \in 0..MaxDup
  /\ copied \subseteq Frame
  /\ flows \in [Flows -> [expected : Nat, buffer : SUBSET Frame]]
  /\ delivered \in [Flows -> Seq(Frame)]
  /\ cleaned \subseteq Flows
  /\ redelivered \in [Flows -> Seq(Frame)]
  /\ errors \in [Flows -> SUBSET {"stale", "overflow"}]

\* No progress sender has outlived the request of flow f.
NoLate(f) == late[f] = 0

\* Every write of flow f succeeded, and Accept never refused one of its frames.
Healthy(f) ==
  /\ NoLate(f)
  /\ attempts[f] = Len(written[f])
  /\ errors[f] = {}

\* The seq that the i-th frame handed on again must carry: the repeats of a
\* cleaned-up flow come in order from its beginning, as often as it is ended.
SeqAgain(again, i) ==
  IF i = 1 \/ again[i - 1].kind = "terminal" THEN 0 ELSE again[i - 1].seq + 1

\* What the boundary hands on of a flow is a prefix of what was written to it,
\* in whatever order the medium delivers it, whichever writes failed, and
\* whatever happens on other flows (ReorderBuffer.Accept, CleanupFlow).  Each
\* frame is handed on once, with one exception: CleanupFlow forgets the flow
\* once its terminal is handed on, and a frame of it that the medium repeats
\* and that arrives afterwards is not refused as the duplicate it is.  Even
\* then only frames that the medium repeated are handed on again, and they
\* come in the order in which they were written, from the first one on.
InOrderDelivery ==
  \A f \in Flows : NoLate(f) =>
    /\ Len(delivered[f]) <= Len(written[f])
    /\ \A i \in DOMAIN delivered[f] : delivered[f][i] = written[f][i]
    /\ redelivered[f] # <<>> => f \in cleaned
    /\ \A i \in DOMAIN redelivered[f] :
         LET m == redelivered[f][i]
         IN  /\ m \in copied
             /\ m = written[f][m.seq + 1]
             /\ m.seq = SeqAgain(redelivered[f], i)

\* No frame disappears without an error: a flow none of whose frames is still
\* under way, whose writes succeeded and whose frames were all accepted has
\* delivered everything; nothing sits in its buffer behind a gap.
NoSilentLoss ==
  \A f \in Flows :
    Healthy(f) /\ (\A m \in medium : m.flow # f) => delivered[f] = written[f]

\* A flow that stays healthy is delivered completely, even while another flow
\* waits for a frame that will never come: a gap blocks its own flow only.
HealthyFlowsComplete ==
  \A f \in Flows : <>[](Healthy(f) => delivered[f] = written[f])

\* All that the boundary hands on of a flow, before and after it cleans it up.
HandedOn == [f \in Flows |-> delivered[f] \o redelivered[f]]

\* The promise of OrderedDelivery, which numbering and reordering keep as long
\* as the medium repeats nothing and no frame follows the terminal of its flow.
Abstract == INSTANCE OrderedDelivery WITH sent <- written, received <- HandedOn
Ordered == Abstract!Spec
=============================================================================
