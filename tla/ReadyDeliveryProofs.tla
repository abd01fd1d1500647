------------------------- MODULE ReadyDeliveryProofs -------------------------
(***************************************************************************)
(* Only what was published is delivered, and what is acknowledged was       *)
(* delivered: for any events, any number of couriers, and whenever a        *)
(* Workflow closes.                                                         *)
(***************************************************************************)
EXTENDS ReadyDelivery, WellFoundedInduction, TLAPS

Published == ToSet(outbox)

\* Every deliverer has a batch of published events, and a step unless it is empty.
Jobs ==
    /\ job \in [Deliverers -> [batch : Seq(Published),
                              step  : {"idle", "signal", "link", "ack"}]]
    /\ \A d \in Deliverers : At(d, "idle") <=> job[d].batch = <<>>

\* The event a deliverer is at is behind the calls that came before its step.
StepsInOrder ==
    \A d \in Deliverers :
        /\ At(d, "link") => Next1(d) \in received
        /\ At(d, "ack")  => Next1(d) \in received /\ Next1(d) \in linked

\* Only what was published is anywhere, and what a Workflow has, it was started for.
OnlyPublished ==
    /\ received \subseteq Published
    /\ linked \subseteq Published
    /\ \A e \in received : workflow[WorkflowID(e)] # "none"

IInv ==
    /\ outbox \in Seq(Events)
    /\ workflow \in [Identities -> {"none", "open", "closed"}]
    /\ Jobs
    /\ StepsInOrder
    /\ OnlyPublished
    /\ AcknowledgedWasDelivered

-----------------------------------------------------------------------------
\* Induction, for a set of numbers.
LEMMA Inductively ==
    ASSUME NEW T, 0 \in T, \A n \in Nat : n \in T => n + 1 \in T
    PROVE  Nat \subseteq T
<1> DEFINE Less == {p \in Nat \X Nat : p[1] < p[2]}
           Rest == Nat \ T
<1>1. SUFFICES ASSUME Rest # {} PROVE FALSE
  OBVIOUS
<1>2. IsWellFoundedOn(Less, Nat)
  BY Zenon, NatLessThanWellFounded DEF OpToRel
<1>3. Rest \subseteq Nat
  OBVIOUS
<1>4. \E x \in Rest : \A y \in Rest : ~ (<<y, x>> \in Less)
  <2> HIDE DEF Less, Rest
  <2> QED BY <1>1, <1>2, <1>3, WFMin, Zenon
<1>5. PICK x \in Rest : \A y \in Rest : ~ (<<y, x>> \in Less)
  BY <1>4
<1>6. x \in Nat /\ x # 0 /\ x \notin T
  OBVIOUS
<1>7. x - 1 \in Nat /\ (x - 1) + 1 = x
  BY <1>6
<1>8. x - 1 \notin Rest
  <2>1. x - 1 < x
    BY <1>7
  <2> QED BY <1>5, <1>6, <1>7, <2>1
<1> QED BY <1>6, <1>7, <1>8

\* The recursion of the listing, over the positions D of the events.
Lists(iter, D) ==
    iter = [t \in SUBSET D |-> IF t = {} THEN <<>> ELSE
                Collect(iter[t \ {Max(t)}], outbox[Max(t)])]

LEMMA Listing ==
    ASSUME outbox \in Seq(Events)
    PROVE  \E iter : /\ Lists(iter, 1..Len(outbox))
                     /\ PendingReadyEvents = iter[1..Len(outbox)]
<1> DEFINE Positions == {n \in Nat : \E iter : Lists(iter, 1..n)}
<1>1. 0 \in Positions
  <2>1. Lists([t \in SUBSET (1..0) |-> <<>>], 1..0)
    BY DEF Lists
  <2> QED BY <2>1
<1>2. ASSUME NEW n \in Nat, n \in Positions PROVE n + 1 \in Positions
  <2>1. PICK f : Lists(f, 1..n)
    BY <1>2
  <2> DEFINE g == [t \in SUBSET (1..(n + 1)) |->
                     IF n + 1 \in t THEN Collect(f[t \ {n + 1}], outbox[n + 1]) ELSE f[t]]
  <2>2. ASSUME NEW t \in SUBSET (1..(n + 1))
        PROVE  g[t] = IF t = {} THEN <<>> ELSE Collect(g[t \ {Max(t)}], outbox[Max(t)])
    <3>1. CASE n + 1 \in t
      <4>1. Max(t) = n + 1
        <5>1. \A y \in t : n + 1 >= y
          OBVIOUS
        <5>2. \A x \in t : (\A y \in t : x >= y) => x = n + 1
          BY <3>1
        <5> QED BY <3>1, <5>1, <5>2 DEF Max
      <4>2. t \ {n + 1} \in SUBSET (1..(n + 1)) /\ n + 1 \notin t \ {n + 1}
        OBVIOUS
      <4>3. g[t \ {n + 1}] = f[t \ {n + 1}]
        BY <4>2
      <4>4. g[t] = Collect(f[t \ {n + 1}], outbox[n + 1])
        BY <3>1
      <4> HIDE DEF g
      <4> QED BY <3>1, <4>1, <4>3, <4>4
    <3>2. CASE n + 1 \notin t
      <4>1. t \in SUBSET (1..n)
        BY <3>2
      <4>2. g[t] = f[t]
        BY <3>2
      <4>3. f[t] = IF t = {} THEN <<>> ELSE Collect(f[t \ {Max(t)}], outbox[Max(t)])
        BY <2>1, <4>1, Zenon DEF Lists
      <4>4. t \ {Max(t)} \in SUBSET (1..(n + 1)) /\ n + 1 \notin t \ {Max(t)}
        BY <3>2
      <4>5. g[t \ {Max(t)}] = f[t \ {Max(t)}]
        BY <4>4
      <4> HIDE DEF g
      <4> QED BY <4>2, <4>3, <4>5
    <3> QED BY <3>1, <3>2
  <2>3. Lists(g, 1..(n + 1))
    <3>1. g = [t \in SUBSET (1..(n + 1)) |-> g[t]]
      OBVIOUS
    <3> HIDE DEF g
    <3> QED BY <2>2, <3>1, Zenon DEF Lists
  <2> QED BY <2>3
<1>3. Len(outbox) \in Positions
  <2>1. Nat \subseteq Positions
    <3> HIDE DEF Positions
    <3> QED BY <1>1, <1>2, Inductively
  <2> QED BY <2>1
<1>4. PendingReadyEvents = (CHOOSE iter : Lists(iter, DOMAIN outbox))[DOMAIN outbox]
  BY DEF PendingReadyEvents, FoldLeft, MapThenFoldSet, Lists
<1>5. DOMAIN outbox = 1..Len(outbox)
  OBVIOUS
<1>6. Lists(CHOOSE iter : Lists(iter, 1..Len(outbox)), 1..Len(outbox))
  BY <1>3, Zenon
<1> QED BY <1>4, <1>5, <1>6, Zenon

\* The events among the first n that nobody acknowledged and nothing superseded.
Open(n) == {e \in {outbox[i] : i \in 1..n} : e \notin acked /\ ~Superseded(e)}

\* The listing has these events, all of them and no others.
LEMMA Listed ==
    ASSUME outbox \in Seq(Events)
    PROVE  /\ PendingReadyEvents \in Seq(Published)
           /\ ToSet(PendingReadyEvents) = Open(Len(outbox))
<1> DEFINE k == Len(outbox)
<1>0. /\ k \in Nat /\ DOMAIN outbox = 1..k
      /\ \A i \in 1..k : outbox[i] \in Published
  BY DEF Published, ToSet
<1> HIDE DEF k
<1>1. PICK iter : Lists(iter, 1..k) /\ PendingReadyEvents = iter[1..k]
  BY Listing DEF k
<1> DEFINE Good(n) == /\ iter[1..n] \in Seq(Published)
                      /\ ToSet(iter[1..n]) = Open(n)
           Reached == {n \in Nat : n =< k => Good(n)}
<1>2. 0 \in Reached
  <2>1. 1..0 = {} /\ {} \in SUBSET (1..k)
    OBVIOUS
  <2>2. iter[{}] = <<>>
    BY <1>1, <2>1, Zenon DEF Lists
  <2>3. Open(0) = {} /\ ToSet(<<>>) = {} /\ <<>> \in Seq(Published)
    BY DEF Open, ToSet
  <2> QED BY <2>1, <2>2, <2>3
<1>3. ASSUME NEW n \in Nat, n \in Reached PROVE n + 1 \in Reached
  <2> SUFFICES ASSUME n + 1 =< k PROVE Good(n + 1)
    OBVIOUS
  <2> DEFINE t == 1..(n + 1)
             before == iter[1..n]
             e == outbox[n + 1]
  <2>1. t \in SUBSET (1..k) /\ t # {}
    <3>1. n + 1 \in t
      OBVIOUS
    <3>2. \A i \in t : i \in 1..k
      BY <1>0
    <3> HIDE DEF t
    <3> QED BY <3>1, <3>2
  <2>2. Max(t) = n + 1
    <3>1. n + 1 \in t /\ \A y \in t : n + 1 >= y
      OBVIOUS
    <3>2. \A x \in t : (\A y \in t : x >= y) => x = n + 1
      OBVIOUS
    <3> QED BY <3>1, <3>2 DEF Max
  <2>3. t \ {n + 1} = 1..n
    OBVIOUS
  <2>4. iter[t] = Collect(iter[t \ {Max(t)}], outbox[Max(t)])
    <3> HIDE DEF t
    <3> QED BY <1>1, <2>1, Zenon DEF Lists
  <2>5. iter[t] = Collect(before, e)
    BY <2>2, <2>3, <2>4, Zenon
  <2>6. before \in Seq(Published) /\ ToSet(before) = Open(n) /\ e \in Published
    BY <1>0, <1>3
  <2>7. Open(n + 1) = IF e \in acked \/ Superseded(e) THEN Open(n) ELSE Open(n) \cup {e}
    <3>1. {outbox[i] : i \in 1..(n + 1)} = {outbox[i] : i \in 1..n} \cup {e}
      OBVIOUS
    <3> HIDE DEF e
    <3> QED BY <3>1 DEF Open
  <2> HIDE DEF e, before, t
  <2>8. CASE e \in acked \/ Superseded(e)
    BY <2>5, <2>6, <2>7, <2>8 DEF Collect, t
  <2>9. CASE ~ (e \in acked \/ Superseded(e))
    <3>1. iter[t] = Append(before, e)
      BY <2>5, <2>9 DEF Collect
    <3>2. /\ Append(before, e) \in Seq(Published)
          /\ ToSet(Append(before, e)) = ToSet(before) \cup {e}
      BY <2>6 DEF ToSet
    <3> QED BY <2>6, <2>7, <2>9, <3>1, <3>2 DEF t
  <2> QED BY <2>8, <2>9
<1>4. k \in Reached
  <2>1. Nat \subseteq Reached
    <3> HIDE DEF Reached
    <3> QED BY <1>2, <1>3, Inductively
  <2> QED BY <1>0, <2>1
<1>5. Good(k)
  BY <1>0, <1>4
<1> QED BY <1>1, <1>5 DEF k

-----------------------------------------------------------------------------
\* IInv holds at first and is kept by every step.
THEOREM Invariance == Spec => []IInv
<1>1. Init => IInv
  <2> SUFFICES ASSUME Init PROVE IInv
    OBVIOUS
  <2>1. Jobs /\ StepsInOrder
    BY DEF Init, Jobs, StepsInOrder, At, NoJob
  <2> QED BY <2>1 DEF Init, IInv, OnlyPublished, AcknowledgedWasDelivered
<1>2. IInv /\ [Next]_vars => IInv'
  <2> SUFFICES ASSUME IInv, [Next]_vars PROVE IInv'
    OBVIOUS
  <2> USE DEF IInv
  <2>0. /\ \A d \in Deliverers :
               /\ job[d] = [batch |-> job[d].batch, step |-> job[d].step]
               /\ job[d].batch \in Seq(Published)
               /\ ~At(d, "idle") => /\ Next1(d) \in Published
                                    /\ Tail(job[d].batch) \in Seq(Published)
        /\ Couriers \subseteq Deliverers /\ Reconciler \in Deliverers
        /\ Published \subseteq Events
        /\ \A e \in Events : WorkflowID(e) \in Identities
    <3>1. ASSUME NEW d \in Deliverers
          PROVE  /\ job[d] = [batch |-> job[d].batch, step |-> job[d].step]
                 /\ job[d].batch \in Seq(Published)
                 /\ ~At(d, "idle") => /\ Next1(d) \in Published
                                      /\ Tail(job[d].batch) \in Seq(Published)
      <4>1. job[d] \in [batch : Seq(Published), step : {"idle", "signal", "link", "ack"}]
        BY DEF Jobs
      <4>2. job[d].batch \in Seq(Published)
        BY <4>1
      <4>3. ASSUME ~At(d, "idle")
            PROVE  Next1(d) \in Published /\ Tail(job[d].batch) \in Seq(Published)
        <5>1. job[d].batch # <<>>
          BY <4>3 DEF Jobs
        <5> QED BY <4>2, <5>1 DEF Next1
      <4> QED BY <4>1, <4>2, <4>3
    <3>2. Published \subseteq Events
      BY DEF Published, ToSet
    <3> QED BY <3>1, <3>2 DEF Deliverers, Identities
  \* A deliverer goes on to another step of its batch, or to another batch.
  <2>1. ASSUME NEW d \in Deliverers, NEW b \in Seq(Published),
               NEW s \in {"idle", "signal", "link", "ack"},
               job' = [job EXCEPT ![d] = [batch |-> b, step |-> s]],
               s = "idle" <=> b = <<>>,
               UNCHANGED outbox,
               received \subseteq received', linked \subseteq linked',
               s = "link" => Head(b) \in received',
               s = "ack" => Head(b) \in received' /\ Head(b) \in linked'
        PROVE  Jobs' /\ StepsInOrder'
    <3>1. \A x \in Deliverers :
              job'[x] = IF x = d THEN [batch |-> b, step |-> s] ELSE job[x]
      BY <2>1 DEF Jobs
    <3>2. Published' = Published
      BY <2>1 DEF Published
    <3>3. [batch |-> b, step |-> s] \in [batch : Seq(Published),
                                         step : {"idle", "signal", "link", "ack"}]
      BY <2>1
    <3>4. job' \in [Deliverers -> [batch : Seq(Published),
                                   step : {"idle", "signal", "link", "ack"}]]
      BY <2>1, <3>3 DEF Jobs
    <3>5. Jobs'
      BY <2>1, <3>1, <3>2, <3>4 DEF Jobs, At
    <3>6. StepsInOrder'
      BY <2>1, <3>1 DEF StepsInOrder, At, Next1
    <3> QED BY <3>5, <3>6
  <2>2. ASSUME NEW e \in Events, Publish(e) PROVE IInv'
    <3>1. /\ outbox' = Append(outbox, e) /\ e.gen > Current(e.bead)
          /\ UNCHANGED <<acked, workflow, received, linked, job>>
      BY <2>2 DEF Publish
    <3>2. /\ outbox' \in Seq(Events) /\ Len(outbox') = Len(outbox) + 1
          /\ \A i \in DOMAIN outbox : outbox'[i] = outbox[i]
          /\ outbox'[Len(outbox) + 1] = e
      BY <3>1
    <3>3. Published \subseteq Published'
      BY <3>2 DEF Published, ToSet
    <3>4. Seq(Published) \subseteq Seq(Published')
      BY <3>3
    <3>5. Jobs'
      BY <3>1, <3>4 DEF Jobs, At
    <3>6. StepsInOrder' /\ AcknowledgedWasDelivered'
      BY <3>1 DEF StepsInOrder, AcknowledgedWasDelivered, At, Next1
    <3>7. OnlyPublished'
      BY <3>1, <3>3 DEF OnlyPublished
    <3> QED BY <3>1, <3>2, <3>5, <3>6, <3>7
  <2>3. ASSUME NEW i \in Identities, CloseWorkflow(i) PROVE IInv'
    BY <2>3 DEF CloseWorkflow, Jobs, StepsInOrder, OnlyPublished,
                AcknowledgedWasDelivered, Published, At, Next1
  \* What a deliverer does with its own batch alone.
  <2>4. ASSUME Jobs', StepsInOrder', UNCHANGED <<outbox, workflow, received, linked>>,
               acked' = acked \/ \E d \in Deliverers : /\ At(d, "ack")
                                                       /\ acked' = acked \cup {Next1(d)}
        PROVE  IInv'
    <3>1. OnlyPublished'
      BY <2>4 DEF OnlyPublished, Published
    <3>2. AcknowledgedWasDelivered'
      BY <2>4 DEF AcknowledgedWasDelivered, StepsInOrder
    <3> QED BY <2>4, <3>1, <3>2
  <2>5. ASSUME NEW d \in Couriers, NEW e \in ToSet(outbox), HandOver(d, e) PROVE IInv'
    <3>1. <<e>> \in Seq(Published) /\ <<e>> # <<>>
      BY DEF Published
    <3>2. /\ job' = [job EXCEPT ![d] = [batch |-> <<e>>, step |-> "signal"]]
          /\ UNCHANGED <<outbox, acked, workflow, received, linked>>
      BY <2>5 DEF HandOver, Batch
    <3>3. Jobs' /\ StepsInOrder'
      BY <2>0, <2>1, <3>1, <3>2
    <3> QED BY <2>4, <3>2, <3>3
  <2>6. CASE Reconcile
    <3>1. PendingReadyEvents \in Seq(Published) /\ PendingReadyEvents # <<>>
      BY <2>6, Listed DEF Reconcile
    <3>2. /\ job' = [job EXCEPT ![Reconciler] =
                         [batch |-> PendingReadyEvents, step |-> "signal"]]
          /\ UNCHANGED <<outbox, acked, workflow, received, linked>>
      BY <2>6 DEF Reconcile, Batch
    <3>3. Jobs' /\ StepsInOrder'
      BY <2>0, <2>1, <3>1, <3>2
    <3> QED BY <2>4, <3>2, <3>3
  <2>7. ASSUME NEW d \in Deliverers, SignalWithStart(d) PROVE IInv'
    <3> DEFINE e == Next1(d)
               b == job[d].batch
    <3>1. /\ workflow' = [workflow EXCEPT ![WorkflowID(e)] = "open"]
          /\ received' = received \cup {e}
          /\ UNCHANGED <<outbox, acked, linked>> /\ e \in Published
      BY <2>0, <2>7 DEF SignalWithStart, At
    <3>2. /\ job' = [job EXCEPT ![d] = [batch |-> b, step |-> "link"]]
          /\ b \in Seq(Published) /\ b # <<>>
      <4>1. job' = [job EXCEPT ![d].step = "link"] /\ job[d] = [batch |-> b, step |-> job[d].step]
        BY <2>0, <2>7 DEF SignalWithStart
      <4>2. [job[d] EXCEPT !.step = "link"] = [batch |-> b, step |-> "link"]
        BY <4>1
      <4>3. b \in Seq(Published) /\ b # <<>>
        BY <2>0, <2>7 DEF SignalWithStart, Jobs, At
      <4> HIDE DEF b
      <4> QED BY <4>1, <4>2, <4>3
    <3>3. Jobs' /\ StepsInOrder'
      BY <2>1, <3>1, <3>2 DEF Next1
    <3>4. OnlyPublished' /\ workflow' \in [Identities -> {"none", "open", "closed"}]
      BY <2>0, <3>1 DEF OnlyPublished, Published
    <3>5. AcknowledgedWasDelivered'
      BY <3>1 DEF AcknowledgedWasDelivered
    <3> QED BY <3>1, <3>3, <3>4, <3>5
  <2>8. ASSUME NEW d \in Deliverers, LinkParent(d) PROVE IInv'
    <3> DEFINE b == job[d].batch
    <3>1. /\ linked' = linked \cup {Next1(d)} /\ Next1(d) \in Published
          /\ UNCHANGED <<outbox, acked, workflow, received>>
          /\ Next1(d) \in received
      BY <2>0, <2>8 DEF LinkParent, At, StepsInOrder
    <3>2. /\ job' = [job EXCEPT ![d] = [batch |-> b, step |-> "ack"]]
          /\ b \in Seq(Published) /\ b # <<>>
      <4>1. job' = [job EXCEPT ![d].step = "ack"] /\ job[d] = [batch |-> b, step |-> job[d].step]
        BY <2>0, <2>8 DEF LinkParent
      <4>2. [job[d] EXCEPT !.step = "ack"] = [batch |-> b, step |-> "ack"]
        BY <4>1
      <4>3. b \in Seq(Published) /\ b # <<>>
        BY <2>0, <2>8 DEF LinkParent, Jobs, At
      <4> HIDE DEF b
      <4> QED BY <4>1, <4>2, <4>3
    <3>3. Jobs' /\ StepsInOrder'
      BY <2>1, <3>1, <3>2 DEF Next1
    <3>4. OnlyPublished' /\ AcknowledgedWasDelivered'
      BY <3>1 DEF OnlyPublished, Published, AcknowledgedWasDelivered
    <3> QED BY <3>1, <3>3, <3>4
  <2>9. ASSUME NEW d \in Deliverers, Acknowledge(d) PROVE IInv'
    <3> DEFINE rest == Tail(job[d].batch)
    <3>1. /\ rest \in Seq(Published) /\ At(d, "ack")
          /\ acked' = acked \cup {Next1(d)}
          /\ UNCHANGED <<outbox, workflow, received, linked>>
      BY <2>0, <2>9 DEF Acknowledge, At
    <3>2. job' = [job EXCEPT ![d] = IF rest = <<>> THEN NoJob ELSE Batch(rest)]
      BY <2>9 DEF Acknowledge
    <3> HIDE DEF rest
    <3>3. CASE rest = <<>>
      <4>1. job' = [job EXCEPT ![d] = [batch |-> <<>>, step |-> "idle"]]
        BY <3>2, <3>3 DEF NoJob
      <4>2. Jobs' /\ StepsInOrder'
        BY <2>1, <3>1, <3>3, <4>1
      <4> QED BY <2>4, <3>1, <4>2
    <3>4. CASE rest # <<>>
      <4>1. job' = [job EXCEPT ![d] = [batch |-> rest, step |-> "signal"]]
        BY <3>2, <3>4 DEF Batch
      <4>2. Jobs' /\ StepsInOrder'
        BY <2>1, <3>1, <3>4, <4>1
      <4> QED BY <2>4, <3>1, <4>2
    <3> QED BY <3>3, <3>4
  <2>10. ASSUME NEW d \in Deliverers, GiveUp(d) PROVE IInv'
    <3>1. /\ job' = [job EXCEPT ![d] = [batch |-> <<>>, step |-> "idle"]]
          /\ UNCHANGED <<outbox, acked, workflow, received, linked>>
          /\ <<>> \in Seq(Published)
      BY <2>10 DEF GiveUp, NoJob
    <3>2. Jobs' /\ StepsInOrder'
      BY <2>1, <3>1
    <3> QED BY <2>4, <3>1, <3>2
  <2>11. CASE UNCHANGED vars
    BY <2>11 DEF vars, Jobs, StepsInOrder, OnlyPublished,
                 AcknowledgedWasDelivered, Published, At, Next1
  <2> QED BY <2>2, <2>3, <2>5, <2>6, <2>7, <2>8, <2>9, <2>10, <2>11 DEF Next, Deliver
<1> QED BY <1>1, <1>2, PTL DEF Spec

-----------------------------------------------------------------------------
\* The outbox, the Workflows and the batches are well typed; a deliverer without
\* a step has nothing left in its batch, and only such a one.
THEOREM TypeCorrect == Spec => []TypeOK
<1>1. IInv => TypeOK
  <2> SUFFICES ASSUME IInv PROVE TypeOK
    OBVIOUS
  <2>1. Published \subseteq Events
    BY DEF IInv, Published, ToSet
  <2>2. Seq(Published) \subseteq Seq(Events)
    BY <2>1
  <2>3. job \in [Deliverers -> [batch : Seq(Events), step : {"idle", "signal", "link", "ack"}]]
    BY <2>2 DEF IInv, Jobs
  <2>4. acked \subseteq received
    BY DEF IInv, AcknowledgedWasDelivered
  <2> QED BY <2>1, <2>3, <2>4 DEF IInv, Jobs, OnlyPublished, TypeOK
<1> QED BY <1>1, Invariance, PTL

\* An event leaves the outbox only after its Workflow has it and its parent was
\* told.  The step of a deliverer alone does not say so, since others deliver
\* the same event, and a pass goes on to the next event of its batch.
THEOREM DeliveredBeforeAcknowledged == Spec => []AcknowledgedWasDelivered
  BY Invariance, PTL DEF IInv

\* Nothing is delivered that was not published, and no Workflow has an event it
\* was not started for.
THEOREM NothingInvented == Spec => []OnlyPublished
  BY Invariance, PTL DEF IInv

=============================================================================
