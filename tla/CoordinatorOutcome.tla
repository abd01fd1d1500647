-------------------------- MODULE CoordinatorOutcome --------------------------
(***************************************************************************)
(* How one outcome in the outbox of a bead reaches a coordinator and is     *)
(* acknowledged: the reconciler that makes sure a Workflow runs for it, the *)
(* Workflow with its redelivery cycles and its continuation as new, the     *)
(* Activities that notify and write to the canonical store, and coordinator *)
(* sessions that restart.  An Activity attempt that timed out may still     *)
(* commit its write, long after the Workflow went on without it.            *)
(***************************************************************************)
EXTENDS Naturals, FiniteSets, SequencesExt

CONSTANTS
    Reconcilers,        \* passes that may overlap
    MaxSessions,        \* bound: coordinator sessions in one behaviour
    MaxSignals,         \* bound: unread acknowledgement signals of one session
    MaxLate,            \* bound: timed-out attempts that are still running
    ContinueAsNewAfter  \* deliveries after which the Workflow continues as new

ASSUME OutcomeConstants ==
    /\ MaxSessions \in Nat \ {0}
    /\ MaxSignals \in Nat \ {0}
    /\ MaxLate \in Nat
    /\ ContinueAsNewAfter \in Nat \ {0}

VARIABLES
    store,     \* the outcome in the outbox: its state and coordinator fence
    session,   \* the coordinator session that is alive; its number is its fence
    notified,  \* sessions that were handed the outcome
    said,      \* sessions that signalled an acknowledgement
    run,       \* the CoordinatorOutcomeWorkflow
    signals,   \* its unread acknowledgement signals: fences, oldest first
    late,      \* writes of timed-out attempts: <<operation, fence>>
    pass       \* pass[r]: how far the pass of reconciler r is with the outcome

vars == <<store, session, notified, said, run, signals, late, pass>>

Sessions == 1..MaxSessions
NoFence  == 0
Fence    == Sessions \cup {NoFence}

Store == [state : {"pending", "needs-ack", "acknowledged", "superseded"},
          fence : Fence]

Run == [status   : {"none", "running", "completed"},
        step     : {"deliver", "await", "acknowledge", "sleep", "resume"},
        fence    : Fence,   \* CoordinatorFence of the last delivery
        trying   : Fence,   \* the fence the present attempt is to write
        attempts : 0..ContinueAsNewAfter,
        resumed  : BOOLEAN] \* acknowledging before the first delivery

NotStarted == [status |-> "none", step |-> "deliver", fence |-> NoFence,
               trying |-> NoFence, attempts |-> 0, resumed |-> FALSE]
Started == [NotStarted EXCEPT !.status = "running", !.attempts = 1]

\* A pass begins with the listing; an outcome found in the legacy tables is
\* signalled without asking whether its Workflow runs.
Init ==
    /\ store = [state |-> "pending", fence |-> NoFence]
    /\ session = 1
    /\ notified = {}
    /\ said = {}
    /\ run = NotStarted
    /\ signals = <<>>
    /\ late = {}
    /\ pass \in [Reconcilers -> {"idle", "absent"}]

-----------------------------------------------------------------------------
\* The store.  An acknowledged outcome answers every delivery with the fence it
\* was acknowledged under; a superseded one refuses.
Unacknowledged == store.state \in {"pending", "needs-ack"}

MarkOutcomeDelivered(f) ==
    IF Unacknowledged THEN [state |-> "needs-ack", fence |-> f] ELSE store

\* A plausible bug: whoever acknowledges, the outcome is acknowledged.
MayAcknowledgeAny(f) == store.state \in {"needs-ack", "acknowledged"}

MayAcknowledge(f) ==
    store.state \in {"needs-ack", "acknowledged"} /\ store.fence = f

MarkOutcomeAcknowledged(f) == [store EXCEPT !.state = "acknowledged"]

\* A later outcome of the bead takes the outbox.
Supersede ==
    /\ store.state = "acknowledged"
    /\ store' = [state |-> "superseded", fence |-> NoFence]
    /\ UNCHANGED <<session, notified, said, run, signals, late, pass>>

-----------------------------------------------------------------------------
\* The coordinator restarts under a new session.
Restart ==
    /\ session < MaxSessions
    /\ session' = session + 1
    /\ UNCHANGED <<store, notified, said, run, signals, late, pass>>

Unread(f) == Cardinality({n \in DOMAIN signals : signals[n] = f})

\* A session that was handed the outcome acknowledges it, at once or late.
SignalAcknowledged(f) ==
    /\ f \in notified
    /\ run.status = "running"
    /\ Unread(f) < MaxSignals
    /\ signals' = Append(signals, f)
    /\ said' = said \cup {f}
    /\ UNCHANGED <<store, session, notified, run, late, pass>>

-----------------------------------------------------------------------------
\* The reconciler lists the outcome, asks for its Workflow, and starts one if
\* there is none; a Workflow that completed is an error of the pass.
PendingOutcomes(r) ==
    /\ pass[r] = "idle"
    /\ Unacknowledged
    /\ pass' = [pass EXCEPT ![r] = "listed"]
    /\ UNCHANGED <<store, session, notified, said, run, signals, late>>

OutcomeWorkflowRunning(r) ==
    /\ pass[r] = "listed"
    /\ pass' = [pass EXCEPT ![r] = IF run.status = "none" THEN "absent" ELSE "idle"]
    /\ UNCHANGED <<store, session, notified, said, run, signals, late>>

\* The identity may be used again once its Workflow has closed.
SignalWithStartOutcome(r) ==
    /\ pass[r] = "absent"
    /\ pass' = [pass EXCEPT ![r] = "idle"]
    /\ run' = IF run.status = "running" THEN run ELSE Started
    /\ signals' = IF run.status = "running" THEN signals ELSE <<>>
    /\ UNCHANGED <<store, session, notified, said, late>>

-----------------------------------------------------------------------------
\* The Workflow.
At(step) == run.status = "running" /\ run.step = step

\* A timed-out attempt lives on, or dies with its worker.
Orphan(op, f) ==
    IF f = NoFence \/ Cardinality(late) >= MaxLate THEN late' = late
    ELSE late' \in {late, late \cup {<<op, f>>}}

\* The notifier hands the outcome to the session that is alive.
Notify ==
    /\ At("deliver")
    /\ run.trying = NoFence
    /\ notified' = notified \cup {session}
    /\ run' = [run EXCEPT !.trying = session]
    /\ UNCHANGED <<store, session, said, signals, late, pass>>

\* The attempt records the delivery, and the Workflow waits for the fence that
\* the store answers with.
RecordDelivery ==
    LET marked == MarkOutcomeDelivered(run.trying)
    IN  /\ At("deliver")
        /\ run.trying # NoFence
        /\ store.state # "superseded"
        /\ store' = marked
        /\ run' = [run EXCEPT !.step = "await", !.fence = marked.fence,
                              !.trying = NoFence]
        /\ UNCHANGED <<session, notified, said, signals, late, pass>>

\* An attempt times out and another follows; or all have failed.
DeliveryFails ==
    /\ At("deliver")
    /\ Orphan("delivered", run.trying)
    /\ run' \in {[run EXCEPT !.trying = NoFence],
                 [run EXCEPT !.trying = NoFence, !.step = "sleep"]}
    /\ UNCHANGED <<store, session, notified, said, signals, pass>>

\* A plausible bug: one delivery too many before the Workflow continues as new.
NextDeliveryOnceMore(unread) ==
    IF run.attempts > ContinueAsNewAfter
    THEN /\ run' = [run EXCEPT !.step = "resume", !.attempts = 0]
         /\ signals' = <<>>
    ELSE /\ run' = [run EXCEPT !.step = "deliver", !.attempts = @ + 1]
         /\ signals' = unread

\* The next delivery, in this run or in the one that continues it.  Signals this
\* run has not read by then are not carried over.
NextDelivery(unread) ==
    IF run.attempts >= ContinueAsNewAfter
    THEN /\ run' = [run EXCEPT !.step = "resume", !.attempts = 0]
         /\ signals' = <<>>
    ELSE /\ run' = [run EXCEPT !.step = "deliver", !.attempts = @ + 1]
         /\ signals' = unread

\* The first acknowledgement that names the current fence; those before it are
\* stale and only counted.
Matching == SelectInSeq(signals, LAMBDA f : f = run.fence)
Read(n)  == SubSeq(signals, n + 1, Len(signals))

\* The Workflow reads its signals, in the order they came.
ReceiveAcknowledgement ==
    /\ At("await")
    /\ signals # <<>>
    /\ IF Matching = 0
       THEN signals' = <<>> /\ UNCHANGED run
       ELSE /\ signals' = Read(Matching)
            /\ run' = [run EXCEPT !.step = "acknowledge"]
    /\ UNCHANGED <<store, session, notified, said, late, pass>>

\* A plausible bug: nothing is delivered again to a session that is gone.
AwaitAnyway ==
    /\ At("await")
    /\ Matching # 0
    /\ signals' = Read(Matching)
    /\ run' = [run EXCEPT !.step = "acknowledge"]
    /\ UNCHANGED <<store, session, notified, said, late, pass>>

\* The timer fires; an acknowledgement that arrived with it still counts.
RedeliveryTimer ==
    /\ At("await")
    /\ IF Matching # 0
       THEN /\ signals' = Read(Matching)
            /\ run' = [run EXCEPT !.step = "acknowledge"]
       ELSE NextDelivery(<<>>)
    /\ UNCHANGED <<store, session, notified, said, late, pass>>

\* A plausible bug: the answer of the store is not waited for.
RecordNoAcknowledgement ==
    /\ At("acknowledge")
    /\ run' = [run EXCEPT !.status = "completed"]
    /\ signals' = <<>>
    /\ UNCHANGED <<store, session, notified, said, late, pass>>

\* The acknowledgement is in the store, and the Workflow completes.
RecordAcknowledgement ==
    /\ At("acknowledge")
    /\ MayAcknowledge(run.fence)
    /\ store' = MarkOutcomeAcknowledged(run.fence)
    /\ run' = [run EXCEPT !.status = "completed"]
    /\ signals' = <<>>
    /\ UNCHANGED <<session, notified, said, late, pass>>

\* The store refuses, or no attempt answers in time.  Before the first delivery
\* of a continued run the Workflow goes straight on to it.
AcknowledgementFails ==
    /\ At("acknowledge")
    /\ Orphan("acknowledged", run.fence)
    /\ run' = IF run.resumed
              THEN [run EXCEPT !.step = "deliver", !.attempts = 1, !.resumed = FALSE]
              ELSE [run EXCEPT !.step = "sleep"]
    /\ UNCHANGED <<store, session, notified, said, signals, pass>>

Wake ==
    /\ At("sleep")
    /\ NextDelivery(signals)
    /\ UNCHANGED <<store, session, notified, said, late, pass>>

\* A continued run begins with the signals that arrived for it.
Resume ==
    /\ At("resume")
    /\ IF Matching # 0
       THEN /\ signals' = Read(Matching)
            /\ run' = [run EXCEPT !.step = "acknowledge", !.resumed = TRUE]
       ELSE /\ signals' = <<>>
            /\ run' = [run EXCEPT !.step = "deliver", !.attempts = 1]
    /\ UNCHANGED <<store, session, notified, said, late, pass>>

\* A timed-out attempt commits after all.
LateWrite(w) ==
    /\ w \in late
    /\ late' = late \ {w}
    /\ \/ w[1] = "delivered" /\ store' = MarkOutcomeDelivered(w[2])
       \/ /\ w[1] = "acknowledged" /\ MayAcknowledge(w[2])
          /\ store' = MarkOutcomeAcknowledged(w[2])
       \/ UNCHANGED store
    /\ UNCHANGED <<session, notified, said, run, signals, pass>>

Cycle ==
    \/ DeliveryFails
    \/ ReceiveAcknowledgement \/ RedeliveryTimer
    \/ AcknowledgementFails
    \/ Wake \/ Resume

Next ==
    \/ \E r \in Reconcilers :
           PendingOutcomes(r) \/ OutcomeWorkflowRunning(r) \/ SignalWithStartOutcome(r)
    \/ Restart \/ Supersede
    \/ \E f \in Sessions : SignalAcknowledged(f)
    \/ Notify \/ RecordDelivery \/ RecordAcknowledgement
    \/ Cycle
    \/ \E w \in {"delivered", "acknowledged"} \X Sessions : LateWrite(w)

\* Reconciler passes and Workflow tasks run.  Outages end: a notification or a
\* write that is possible again and again succeeds in the end.  The session that
\* is alive acknowledges as often as it takes while it is waited for.
Fairness ==
    /\ \A r \in Reconcilers :
           WF_vars(PendingOutcomes(r) \/ OutcomeWorkflowRunning(r)
                      \/ SignalWithStartOutcome(r))
    /\ WF_vars(ReceiveAcknowledgement)
    /\ WF_vars(RedeliveryTimer)
    /\ WF_vars(Cycle)
    /\ SF_vars(Notify)
    /\ SF_vars(RecordDelivery)
    /\ SF_vars(At("await") /\ run.fence = session /\ SignalAcknowledged(session))
    /\ SF_vars(RecordAcknowledgement)

Spec == Init /\ [][Next]_vars
FairSpec == Spec /\ Fairness

-----------------------------------------------------------------------------
TypeOK ==
    /\ store \in Store
    /\ session \in Sessions
    /\ notified \subseteq Sessions
    /\ said \subseteq notified
    /\ run \in Run
    /\ signals \in Seq(Sessions) /\ \A f \in Sessions : Unread(f) <= MaxSignals
    /\ late \subseteq {"delivered", "acknowledged"} \X Sessions
    /\ Cardinality(late) <= MaxLate
    /\ pass \in [Reconcilers -> {"idle", "listed", "absent"}]

\* The outcome is acknowledged under the fence of a session that was handed it
\* and said so, whichever attempts wrote to the store, and in whichever order.
AcknowledgedBySession == store.state = "acknowledged" => store.fence \in said

\* A Workflow that completed leaves an outcome that stays acknowledged, also when
\* late attempts of its own Activities still run.
CompletedIsDurable ==
    run.status = "completed" => store.state \in {"acknowledged", "superseded"}

\* However often coordinators restart, signals are lost and attempts time out,
\* the outcome is acknowledged in the end.
EventuallyAcknowledged == <>(store.state = "acknowledged")

\* "A coordinator restart changes the delivery fence on a later redelivery": a
\* Workflow does not wait for ever for a session that is gone.
RestartRebinds ==
    At("await") /\ run.fence # session ~>
        \/ run.fence = session
        \/ run.status = "completed"
        \/ store.state = "superseded"

=============================================================================
