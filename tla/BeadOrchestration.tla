-------------------------- MODULE BeadOrchestration --------------------------
(***************************************************************************)
(* The Temporal Workflow of one bead in one orchestration run: it maps      *)
(* ready events to Activities, each event once, and closes when the run is  *)
(* sealed and idle.  Workflow code runs between two blocking points without *)
(* interruption, so a step is one callback of the selector together with    *)
(* the loop of await around it; which ready case the selector takes is left *)
(* open.  A signal that Temporal accepts while a step runs is in the        *)
(* channel of the next one: Temporal refuses to close a Workflow with       *)
(* unread signals and re-runs the task with them.                           *)
(***************************************************************************)
EXTENDS Naturals, FiniteSets, SequencesExt

CONSTANTS
    Events,         \* ready events of the run
    Parented,       \* those whose formula names a parent Workflow
    EventLimit,     \* WorkflowInput.EventLimit
    MaxBuffer,      \* bound: unread ready signals
    MaxSeals,       \* bound: close signals in one behaviour
    Cancelable      \* whether an instance may be canceled

ASSUME OrchestrationConstants ==
    /\ IsFiniteSet(Events)
    /\ Parented \subseteq Events
    /\ EventLimit \in Nat \ {0}
    /\ MaxBuffer \in Nat \ {0}
    /\ MaxSeals \in Nat
    /\ Cancelable \in BOOLEAN

VARIABLES
    run,      \* the workflowRun and its WorkflowState
    ready,    \* the unread ready signals, oldest first
    status,   \* open, or how the Workflow closed
    accepted, \* events of the ready signals that Temporal accepted
    told,     \* told[e]: the terminal link the parent of e has received
    seals     \* close signals received

vars == <<run, ready, status, accepted, told, seals>>

Activity == {"none", "running", "completed", "failed", "canceled"}

Run == [failed   : BOOLEAN,             \* Phase is workflowPhaseFailed
        closing  : BOOLEAN,
        sealed   : BOOLEAN,
        canceled : BOOLEAN,             \* cancelErr is set
        seen     : SUBSET Events,
        expected : SUBSET Events,
        activity : [Events -> Activity],
        starts   : [Events -> Nat],     \* Activities started for the event
        linking  : SUBSET Events]       \* terminal links on their way to a parent

Fail(r) == [r EXCEPT !.failed = TRUE, !.closing = TRUE]

Schedule(r, e) == [r EXCEPT !.seen = @ \cup {e}, !.activity[e] = "running",
                            !.starts[e] = @ + 1]

\* A plausible bug: an event is scheduled whenever it is received.
AcceptAgain(r, e) ==
    IF (r.sealed /\ e \notin r.expected) \/ Cardinality(r.seen) > EventLimit
    THEN Fail(r) ELSE Schedule(r, e)

\* A plausible bug: the parent is linked when the Activity starts.
AcceptLinking(r, e) ==
    IF e \in r.seen THEN r
    ELSE [Schedule(r, e) EXCEPT !.linking = @ \cup {e}]

\* The seal is consulted before the deduplication, and that before the limit.
AcceptReady(r, e) ==
    IF r.sealed /\ e \notin r.expected THEN Fail(r)
    ELSE IF e \in r.seen THEN r
    ELSE IF Cardinality(r.seen) >= EventLimit THEN Fail(r)
    ELSE Schedule(r, e)

\* A plausible bug: the unread signals are forgotten.
DrainNothing(r, unread) == r

DrainReadySignals(r, unread) == FoldLeft(AcceptReady, r, unread)

InFlight(r) == {e \in Events : r.activity[e] = "running"}

\* A plausible bug: links to the parent are not waited for.
IdleButLinking(r) == InFlight(r) = {}

Idle(r) == InFlight(r) = {} /\ r.linking = {}

\* A plausible bug: a sealed run does not wait for its missing events.
ReceivedAnything(r) == TRUE

ReceivedExpectedEvents(r) == r.expected \subseteq r.seen

Finish(r) ==
    IF r.canceled THEN "canceled"
    ELSE IF r.failed \/ \E e \in Events : r.activity[e] = "failed" THEN "failed"
    ELSE "completed"

Continue(r, unread) == [run |-> r, ready |-> unread, status |-> "open"]
Return(r, unread)   == [run |-> r, ready |-> unread, status |-> Finish(r)]

\* The loop of await, from a callback to the next blocking point.  Cancellation
\* and failure return without reading the signals that are left.
Await(r, unread) ==
    LET drained == DrainReadySignals(r, unread)
        CanReturn(x) == x.closing /\ Idle(x) /\ ReceivedExpectedEvents(x)
    IN  IF r.canceled
        THEN IF InFlight(r) = {} THEN Return(r, unread) ELSE Continue(r, unread)
        ELSE IF r.failed /\ Idle(r) THEN Return(r, unread)
        ELSE IF ~CanReturn(r)       THEN Continue(r, unread)
        ELSE IF CanReturn(drained)  THEN Return(drained, <<>>)
        ELSE Continue(drained, <<>>)

Callback(r, unread) ==
    LET next == Await(r, unread)
    IN  run' = next.run /\ ready' = next.ready /\ status' = next.status

-----------------------------------------------------------------------------
\* Signal-With-Start: the first event is both input and signal.
NewRun(e, closeWhenIdle) ==
    Schedule([failed |-> FALSE, closing |-> closeWhenIdle, sealed |-> FALSE,
              canceled |-> FALSE, seen |-> {}, expected |-> {},
              activity |-> [x \in Events |-> "none"],
              starts |-> [x \in Events |-> 0], linking |-> {}], e)

Init ==
    /\ \E e \in Events, closeWhenIdle \in BOOLEAN :
           /\ run = NewRun(e, closeWhenIdle)
           /\ ready = <<e>>
           /\ accepted = {e}
    /\ status = "open"
    /\ told = [e \in Events |-> "none"]
    /\ seals = 0

\* Temporal accepts a ready signal, for the first time or again.
Deliver(e) ==
    /\ status = "open"
    /\ Len(ready) < MaxBuffer
    /\ ready' = Append(ready, e)
    /\ accepted' = accepted \cup {e}
    /\ UNCHANGED <<run, status, told, seals>>

Running == status = "open" /\ ~run.canceled

ReceiveReady ==
    /\ Running
    /\ ready # <<>>
    /\ Callback(AcceptReady(run, Head(ready)), Tail(ready))
    /\ UNCHANGED <<accepted, told, seals>>

\* A plausible bug: the seal does not ask the run to close.
CloseWithoutClosing(expected) ==
    /\ Running
    /\ seals < MaxSeals
    /\ seals' = seals + 1
    /\ Callback([run EXCEPT !.sealed = TRUE, !.expected = expected], ready)
    /\ UNCHANGED <<accepted, told>>

\* A close request seals the run; a second one must name the same events, and
\* the first must name every event that was seen.
ReceiveClose(expected) ==
    LET sealed == [run EXCEPT !.expected = expected, !.sealed = TRUE, !.closing = TRUE]
        wrong  == IF run.sealed THEN expected # run.expected
                                ELSE ~(run.seen \subseteq expected)
    IN  /\ Running
        /\ seals < MaxSeals
        /\ seals' = seals + 1
        /\ \/ wrong /\ Callback(Fail(IF run.sealed THEN run ELSE sealed), ready)
           \/ ~wrong /\ Callback(DrainReadySignals(sealed, ready), <<>>)
        /\ UNCHANGED <<accepted, told>>

\* The last attempt of an Activity ends.  After cancellation a failure is not
\* recorded and no link is waited for.
ActivityEnds(e, ok) ==
    LET r == [run EXCEPT !.activity[e] = IF ok THEN "completed"
                                         ELSE IF run.canceled THEN "canceled"
                                         ELSE "failed",
                         !.linking = IF e \in Parented /\ ~run.canceled
                                     THEN @ \cup {e} ELSE @]
    IN  /\ status = "open"
        /\ e \in InFlight(run)
        /\ Callback(r, ready)
        /\ UNCHANGED <<accepted, told, seals>>

\* The parent receives the terminal link of e, or signalling it fails.
LinkDelivered(e) ==
    /\ Running
    /\ e \in run.linking
    /\ told' = [told EXCEPT ![e] = run.activity[e]]
    /\ Callback([run EXCEPT !.linking = @ \ {e}], ready)
    /\ UNCHANGED <<accepted, seals>>

LinkFails(e) ==
    /\ Running
    /\ e \in run.linking
    /\ Callback(Fail([run EXCEPT !.linking = @ \ {e}]), ready)
    /\ UNCHANGED <<accepted, told, seals>>

Cancel ==
    /\ Cancelable
    /\ Running
    /\ Callback([run EXCEPT !.failed = TRUE, !.canceled = TRUE], ready)
    /\ UNCHANGED <<accepted, told, seals>>

Next ==
    \/ \E e \in Events : Deliver(e) \/ LinkDelivered(e) \/ LinkFails(e)
    \/ \E e \in Events, ok \in BOOLEAN : ActivityEnds(e, ok)
    \/ \E expected \in SUBSET Events \ {{}} : ReceiveClose(expected)
    \/ ReceiveReady
    \/ Cancel

\* The worker polls, attempts are limited by a timeout and a maximum, Temporal
\* resolves external signals, and the reconciler redelivers a missing event.
Fairness ==
    /\ WF_vars(ReceiveReady)
    /\ \A e \in Events :
           /\ WF_vars(\E ok \in BOOLEAN : ActivityEnds(e, ok))
           /\ WF_vars(LinkDelivered(e) \/ LinkFails(e))
           /\ SF_vars(e \in run.expected \ run.seen /\ Deliver(e))

Spec == Init /\ [][Next]_vars
FairSpec == Spec /\ Fairness

-----------------------------------------------------------------------------
TypeOK ==
    /\ run \in Run /\ Cardinality(run.seen) <= EventLimit
    /\ ready \in Seq(Events) /\ Len(ready) <= MaxBuffer
    /\ status \in {"open", "completed", "failed", "canceled"}
    /\ accepted \subseteq Events
    /\ told \in [Events -> {"none", "completed", "failed"}]
    /\ seals \in 0..MaxSeals

\* However often an event is delivered, before or after the seal, on the first
\* signal or in a drain, one Activity is started for it.
OneActivityPerEvent == \A e \in Events : run.starts[e] <= 1

\* A sealed run that completes has done exactly the sealed set.
SealHonoured ==
    status = "completed" /\ run.sealed =>
        \A e \in Events : (e \in run.expected) <=> (run.activity[e] = "completed")

\* A Workflow that completes has read every signal Temporal accepted for it: an
\* event acknowledged in the outbox is never left unread by a completed run.
NothingUnread == status = "completed" => accepted \subseteq run.seen

\* A parent is told how each of its children ended before the run completes.
ParentTold ==
    status = "completed" =>
        \A e \in run.seen \cap Parented : told[e] = "completed"

\* A run that was sealed closes, whatever its Activities and its parents do.
SealedCloses == run.sealed ~> status # "open"

=============================================================================
