---------------------------- MODULE ReadyDelivery ----------------------------
(***************************************************************************)
(* The ready-event boundary between Beads and Temporal: the outbox, the     *)
(* bridge that delivers an event by Signal-With-Start, links it to its      *)
(* parent and acknowledges it, and the reconciler that replays what is      *)
(* still pending.  Deliveries are repeated, delayed, abandoned half-way and *)
(* run concurrently; the reconciler works through a listing that ages while *)
(* it does.  The outbox is that of the canonical store: one event per bead, *)
(* the one of its current generation.                                       *)
(***************************************************************************)
EXTENDS Naturals, FiniteSets, SequencesExt

CONSTANTS
    Events,       \* ready events a producer may publish
    Reconciler,   \* the deliverer that replays the outbox
    Couriers      \* deliverers of the normal path

ASSUME DeliveryConstants ==
    /\ IsFiniteSet(Events)
    /\ \A e \in Events : DOMAIN e = {"bead", "gen", "run"} /\ e.gen \in Nat \ {0}
    /\ Reconciler \notin Couriers

VARIABLES
    outbox,    \* the events published, oldest first
    acked,     \* events acknowledged in the outbox
    workflow,  \* workflow[i]: the Workflow with identity i
    received,  \* events that Temporal accepted for their Workflow
    linked,    \* events whose start the parent Workflow was told
    job        \* job[d]: what deliverer d still has to deliver, head first

vars == <<outbox, acked, workflow, received, linked, job>>

Deliverers == Couriers \cup {Reconciler}

\* One Workflow per bead and run.
WorkflowID(e) == <<e.run, e.bead>>
Identities == {WorkflowID(e) : e \in Events}

Current(b) ==
    IF \E i \in DOMAIN outbox : outbox[i].bead = b
    THEN outbox[SelectLastInSeq(outbox, LAMBDA e : e.bead = b)].gen ELSE 0

Superseded(e) == Current(e.bead) > e.gen

Collect(es, e) == IF e \in acked \/ Superseded(e) THEN es ELSE Append(es, e)

\* In the order in which the events became ready.
PendingReadyEvents == FoldLeft(Collect, <<>>, outbox)

NoJob == [batch |-> <<>>, step |-> "idle"]
Batch(es) == [batch |-> es, step |-> "signal"]

Init ==
    /\ outbox = <<>>
    /\ acked = {}
    /\ workflow = [i \in Identities |-> "none"]
    /\ received = {}
    /\ linked = {}
    /\ job = [d \in Deliverers |-> NoJob]

-----------------------------------------------------------------------------
\* The producer publishes a higher generation of a bead.  It does not look at the
\* Workflow, which may have closed.
Publish(e) ==
    /\ e.gen > Current(e.bead)
    /\ outbox' = Append(outbox, e)
    /\ UNCHANGED <<acked, workflow, received, linked, job>>

\* A Workflow closes when it is complete, when it fails or when it is canceled: it
\* asks for its sealed set in the first case only, and for the acknowledgements in
\* none.
CloseWorkflow(i) ==
    /\ workflow[i] = "open"
    /\ workflow' = [workflow EXCEPT ![i] = "closed"]
    /\ UNCHANGED <<outbox, acked, received, linked, job>>

\* The bridge is handed an event, at once, late or more than once.
HandOver(d, e) ==
    /\ job[d] = NoJob
    /\ job' = [job EXCEPT ![d] = Batch(<<e>>)]
    /\ UNCHANGED <<outbox, acked, workflow, received, linked>>

\* A plausible bug: an event that its Workflow has needs no repair.
ReconcileUnseen ==
    LET unseen == SelectSeq(PendingReadyEvents, LAMBDA e : e \notin received)
    IN  /\ job[Reconciler] = NoJob
        /\ unseen # <<>>
        /\ job' = [job EXCEPT ![Reconciler] = Batch(unseen)]
        /\ UNCHANGED <<outbox, acked, workflow, received, linked>>

\* A plausible bug: an event whose Workflow was started needs no repair.
ReconcileUnstarted ==
    LET lost == SelectSeq(PendingReadyEvents,
                          LAMBDA e : workflow[WorkflowID(e)] = "none")
    IN  /\ job[Reconciler] = NoJob
        /\ lost # <<>>
        /\ job' = [job EXCEPT ![Reconciler] = Batch(lost)]
        /\ UNCHANGED <<outbox, acked, workflow, received, linked>>

\* The reconciler starts a pass over everything that is pending now.
Reconcile ==
    /\ job[Reconciler] = NoJob
    /\ PendingReadyEvents # <<>>
    /\ job' = [job EXCEPT ![Reconciler] = Batch(PendingReadyEvents)]
    /\ UNCHANGED <<outbox, acked, workflow, received, linked>>

At(d, step) == job[d].step = step
Next1(d) == Head(job[d].batch)

\* A plausible bug: an event the Workflow already has is acknowledged at once.
SignalUnlinked(d) ==
    LET e == Next1(d)
    IN  /\ At(d, "signal")
        /\ workflow[WorkflowID(e)] # "closed"
        /\ workflow' = [workflow EXCEPT ![WorkflowID(e)] = "open"]
        /\ received' = received \cup {e}
        /\ job' = [job EXCEPT ![d].step = IF e \in received THEN "ack" ELSE "link"]
        /\ UNCHANGED <<outbox, acked, linked>>

\* Temporal starts the Workflow, or signals the one that is open, or refuses
\* because the identity is closed.
SignalWithStart(d) ==
    LET e == Next1(d)
    IN  /\ At(d, "signal")
        /\ workflow[WorkflowID(e)] # "closed"
        /\ workflow' = [workflow EXCEPT ![WorkflowID(e)] = "open"]
        /\ received' = received \cup {e}
        /\ job' = [job EXCEPT ![d].step = "link"]
        /\ UNCHANGED <<outbox, acked, linked>>

LinkParent(d) ==
    /\ At(d, "link")
    /\ linked' = linked \cup {Next1(d)}
    /\ job' = [job EXCEPT ![d].step = "ack"]
    /\ UNCHANGED <<outbox, acked, workflow, received>>

\* A plausible bug: the pass does not notice that it has reached the end.
AcknowledgeOnwards(d) ==
    /\ At(d, "ack")
    /\ ~Superseded(Next1(d))
    /\ acked' = acked \cup {Next1(d)}
    /\ job' = [job EXCEPT ![d] = Batch(Tail(@.batch))]
    /\ UNCHANGED <<outbox, workflow, received, linked>>

\* Acknowledged, and on to the next event of the batch.
Acknowledge(d) ==
    LET rest == Tail(job[d].batch)
    IN  /\ At(d, "ack")
        /\ ~Superseded(Next1(d))
        /\ acked' = acked \cup {Next1(d)}
        /\ job' = [job EXCEPT ![d] = IF rest = <<>> THEN NoJob ELSE Batch(rest)]
        /\ UNCHANGED <<outbox, workflow, received, linked>>

\* Any error ends the batch, and so does a crash: a Workflow that cannot be
\* queried or is closed, a parent that cannot be signalled, an event that is no
\* longer in the outbox.
GiveUp(d) ==
    /\ job[d] # NoJob
    /\ job' = [job EXCEPT ![d] = NoJob]
    /\ UNCHANGED <<outbox, acked, workflow, received, linked>>

Deliver(d) == SignalWithStart(d) \/ LinkParent(d) \/ Acknowledge(d)

Next ==
    \/ \E e \in Events : Publish(e)
    \/ \E i \in Identities : CloseWorkflow(i)
    \/ \E d \in Couriers, e \in ToSet(outbox) : HandOver(d, e)
    \/ Reconcile
    \/ \E d \in Deliverers : Deliver(d) \/ GiveUp(d)

\* The reconciler is run again and again, ends every batch, and a call that is
\* possible again and again succeeds in the end: outages end.
Fairness ==
    /\ WF_vars(Reconcile)
    /\ WF_vars(Deliver(Reconciler) \/ GiveUp(Reconciler))
    /\ SF_vars(SignalWithStart(Reconciler))
    /\ SF_vars(LinkParent(Reconciler))
    /\ SF_vars(Acknowledge(Reconciler))

Spec == Init /\ [][Next]_vars
FairSpec == Spec /\ Fairness

-----------------------------------------------------------------------------
TypeOK ==
    /\ outbox \in Seq(Events)
    /\ acked \subseteq Events
    /\ workflow \in [Identities -> {"none", "open", "closed"}]
    /\ received \subseteq Events
    /\ linked \subseteq Events
    /\ job \in [Deliverers -> [batch : Seq(Events),
                              step  : {"idle", "signal", "link", "ack"}]]
    /\ \A d \in Deliverers : At(d, "idle") <=> job[d].batch = <<>>

\* An event leaves the outbox only after its Workflow has it and its parent was
\* told, whoever delivered it and wherever earlier deliveries stopped.
AcknowledgedWasDelivered ==
    \A e \in acked : e \in received /\ e \in linked

\* Pending events that Temporal will refuse: no other Workflow is started under the
\* identity of one that has closed.
Refused == {f \in ToSet(PendingReadyEvents) : workflow[WorkflowID(f)] = "closed"}

\* A higher generation supersedes the event; or it is refused, or an older one is:
\* every pass ends there.
OutOfReach(e) ==
    \/ Superseded(e)
    \/ \E i, j \in DOMAIN outbox : i <= j /\ outbox[i] \in Refused /\ outbox[j] = e

\* No published event is lost at the boundary while a pass can reach it.
Delivered ==
    \A e \in Events : e \in ToSet(outbox) ~> e \in received \/ OutOfReach(e)

\* The reconciler repairs what a delivery left half done, wherever it stopped and
\* whoever else delivers the event, while a pass can reach it.
GapRepaired ==
    \A e \in Events : e \in received ~> e \in acked \/ OutOfReach(e)

\* What the reconciler says of itself: it redelivers every pending event, and so
\* closes the gap between the signal to the Workflow, the link to its parent and the
\* acknowledgement.  It does not when the Workflow closes first (delivery_gap.cfg).
CrashGapClosed ==
    \A e \in Events : e \in received ~> e \in acked \/ Superseded(e)

\* The same of the events behind such a one, whose own Workflows are open: the dropped
\* ones among them are not repaired either (delivery_block.cfg).
DroppedRepaired ==
    \A e \in Events :
        e \in ToSet(outbox) ~> \/ e \in received \/ Superseded(e)
                              \/ workflow[WorkflowID(e)] = "closed"

=============================================================================
