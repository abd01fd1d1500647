------------------------ MODULE LegacyOutcomesProofs ------------------------
(***************************************************************************)
(* Proofs that discovery makes one outcome of a transition, and none of a   *)
(* finalization, however its passes overlap and age.                        *)
(*                                                                          *)
(* Nothing a pass read is still true when it emits, except this: the        *)
(* envelope it made carries the identity and the time of one event, and     *)
(* events stay as they are.  The outbox takes it only if it is later than   *)
(* what it holds, so the times of legacy outcomes strictly grow, and two of *)
(* one event would have the same.  Fenced completions have no such test;    *)
(* their generations grow instead.                                          *)
(***************************************************************************)
EXTENDS LegacyOutcomes, SequenceTheorems, TLAPS

Issue == [status      : {"open", "closed"},
          verified    : BOOLEAN,
          gen         : Generations \cup {0},
          outcome     : Outcome,
          final       : Envelope \cup {NoEnvelope},
          disposition : 0..MaxEvents]

Shape == issue \in Issue /\ TypeOK

OfClaim(e) == e.token = ClaimToken(e.gen)

\* The envelope of a legacy outcome tells of one event that no finalization made.
OfEvent(e) ==
    \E k \in DOMAIN events :
        /\ events[k].receipt = NoEnvelope
        /\ e.token = EventToken(events[k].id)
        /\ e.occurred = events[k].created

\* Events are told apart by their identities, and a finalization left its receipt.
History ==
    /\ \A k, l \in DOMAIN events : events[k].id = events[l].id => k = l
    /\ \A k \in DOMAIN events :
           events[k].by = "finalization" => events[k].receipt # NoEnvelope

\* The outbox holds the last envelope that was written to it.
LastEmitted ==
    IF emitted = <<>> THEN issue.outcome = NoOutcome
    ELSE issue.outcome # NoOutcome /\ issue.outcome.envelope = emitted[Len(emitted)]

Growing ==
    \A i, j \in DOMAIN emitted : i < j =>
        /\ emitted[i].gen < emitted[j].gen
        /\ emitted[i].occurred <= emitted[j].occurred
        /\ OfClaim(emitted[j]) \/ emitted[i].occurred < emitted[j].occurred

Sourced ==
    /\ \A i \in DOMAIN emitted : OfClaim(emitted[i]) \/ OfEvent(emitted[i])
    /\ \A p \in Passes : pass[p].stage = "found" => OfEvent(pass[p].envelope)

IInv == Shape /\ History /\ LastEmitted /\ Growing /\ Sourced

-----------------------------------------------------------------------------
\* An envelope the outbox may take keeps the order of those before it.
LEMMA Emitting ==
    ASSUME IInv, NEW new \in Envelope,
           issue'.outcome = [envelope |-> new, acknowledged |-> FALSE],
           emitted' = Append(emitted, new),
           issue.outcome # NoOutcome =>
               /\ issue.outcome.envelope.gen < new.gen
               /\ issue.outcome.envelope.occurred <= new.occurred
               /\ OfClaim(new) \/ issue.outcome.envelope.occurred < new.occurred
    PROVE  /\ emitted' \in Seq(Envelope)
           /\ LastEmitted'
           /\ Growing'
<1>0. emitted \in Seq(Envelope) /\ issue.outcome \in Outcome
  BY DEF IInv, Shape, TypeOK, Issue
<1>1. emitted' \in Seq(Envelope)
  BY <1>0
<1>2. /\ Len(emitted') = Len(emitted) + 1 /\ Len(emitted) \in Nat
      /\ DOMAIN emitted = 1..Len(emitted) /\ DOMAIN emitted' = 1..(Len(emitted) + 1)
      /\ \A i \in DOMAIN emitted : emitted'[i] = emitted[i] /\ emitted[i] \in Envelope
      /\ emitted'[Len(emitted) + 1] = new
  BY <1>0
<1>3. LastEmitted'
  <2>1. issue'.outcome # NoOutcome
    BY DEF NoOutcome, NoEnvelope, Envelope
  <2>2. issue'.outcome.envelope = new
    OBVIOUS
  <2>3. emitted' # <<>>
    BY <1>2
  <2> QED BY <1>2, <2>1, <2>2, <2>3 DEF LastEmitted
<1>4. \A i \in DOMAIN emitted :
          /\ emitted[i].gen < new.gen
          /\ emitted[i].occurred <= new.occurred
          /\ OfClaim(new) \/ emitted[i].occurred < new.occurred
  <2> TAKE i \in DOMAIN emitted
  <2> DEFINE last == emitted[Len(emitted)]
  <2>1. issue.outcome # NoOutcome /\ issue.outcome.envelope = last
    <3>1. emitted # <<>>
      BY <1>2
    <3> QED BY <3>1 DEF IInv, LastEmitted
  <2>2. Len(emitted) \in DOMAIN emitted /\ last \in Envelope /\ emitted[i] \in Envelope
    BY <1>2
  <2>3. i = Len(emitted) \/ i < Len(emitted)
    BY <1>2
  <2>4. emitted[i].gen <= last.gen /\ emitted[i].occurred <= last.occurred
    BY <2>2, <2>3 DEF IInv, Growing, Envelope
  <2> HIDE DEF last
  <2> QED BY <2>1, <2>2, <2>4 DEF Envelope
<1>5. Growing'
  <2> SUFFICES ASSUME NEW i \in DOMAIN emitted', NEW j \in DOMAIN emitted', i < j
               PROVE  /\ emitted'[i].gen < emitted'[j].gen
                      /\ emitted'[i].occurred <= emitted'[j].occurred
                      /\ OfClaim(emitted'[j]) \/ emitted'[i].occurred < emitted'[j].occurred
    BY DEF Growing, OfClaim, ClaimToken
  <2>1. i \in DOMAIN emitted
    BY <1>2
  <2>2. CASE j \in DOMAIN emitted
    BY <1>2, <2>1, <2>2 DEF IInv, Growing
  <2>3. CASE j = Len(emitted) + 1
    BY <1>2, <1>4, <2>1, <2>3
  <2> QED BY <1>2, <2>2, <2>3
<1> QED BY <1>1, <1>3, <1>5

\* What was made of an event stays so while the history grows.
LEMMA Sourcing ==
    ASSUME events \in Seq(Event), NEW e,
           UNCHANGED events \/ \E x \in Event : events' = Append(events, x),
           OfEvent(e)
    PROVE  \E k \in DOMAIN events' :
               /\ events'[k].receipt = NoEnvelope
               /\ e.token = EventToken(events'[k].id)
               /\ e.occurred = events'[k].created
<1>1. \A k \in DOMAIN events : k \in DOMAIN events' /\ events'[k] = events[k]
  OBVIOUS
<1> QED BY <1>1 DEF OfEvent

Grown == UNCHANGED events \/ \E x \in Event : events' = Append(events, x)

Progress == {Idle} \cup [stage : {"listed"}, seen : Seen]
                  \cup [stage : {"found"}, envelope : Envelope]

LEMMA Sources ==
    ASSUME IInv, Grown,
           \/ UNCHANGED emitted
           \/ \E e \in Envelope : emitted' = Append(emitted, e) /\ (OfClaim(e) \/ OfEvent(e)),
           \A p \in Passes : pass'[p].stage = "found" => OfEvent(pass'[p].envelope)
    PROVE  Sourced'
<1>1. events \in Seq(Event) /\ emitted \in Seq(Envelope)
  BY DEF IInv, Shape, TypeOK
<1>2. \A i \in DOMAIN emitted' : OfClaim(emitted'[i]) \/ OfEvent(emitted'[i])
  <2>1. CASE UNCHANGED emitted
    BY <2>1 DEF IInv, Sourced
  <2>2. CASE \E e \in Envelope : emitted' = Append(emitted, e) /\ (OfClaim(e) \/ OfEvent(e))
    <3>1. PICK e \in Envelope : emitted' = Append(emitted, e) /\ (OfClaim(e) \/ OfEvent(e))
      BY <2>2
    <3>2. \A i \in DOMAIN emitted' :
              emitted'[i] = e \/ (i \in DOMAIN emitted /\ emitted'[i] = emitted[i])
      BY <1>1, <3>1
    <3> QED BY <3>1, <3>2 DEF IInv, Sourced
  <2> QED BY <2>1, <2>2
<1>3. ASSUME NEW e, OfEvent(e)
      PROVE  \E k \in DOMAIN events' :
               /\ events'[k].receipt = NoEnvelope
               /\ e.token = EventToken(events'[k].id)
               /\ e.occurred = events'[k].created
  BY <1>1, <1>3, Sourcing DEF Grown
<1>4. \A e : OfEvent(e) => \E k \in DOMAIN events' :
               /\ events'[k].receipt = NoEnvelope
               /\ e.token = EventToken(events'[k].id)
               /\ e.occurred = events'[k].created
  BY <1>3, Zenon
<1>5. /\ \A i \in DOMAIN emitted' :
             \/ OfClaim(emitted'[i])
             \/ \E k \in DOMAIN events' :
                    /\ events'[k].receipt = NoEnvelope
                    /\ emitted'[i].token = EventToken(events'[k].id)
                    /\ emitted'[i].occurred = events'[k].created
      /\ \A p \in Passes : pass'[p].stage = "found" =>
             \E k \in DOMAIN events' :
                    /\ events'[k].receipt = NoEnvelope
                    /\ pass'[p].envelope.token = EventToken(events'[k].id)
                    /\ pass'[p].envelope.occurred = events'[k].created
  BY <1>2, <1>4, Zenon
<1> QED BY <1>5 DEF Sourced, OfClaim, OfEvent, ClaimToken, EventToken, NoEnvelope

\* A step of the history keeps its identities apart.
LEMMA Recording ==
    ASSUME IInv, NEW by \in {"worker", "completion", "finalization"}, NEW old, NEW new,
           new.gen \in Generations \cup {0},
           new.final \in Envelope \cup {NoEnvelope},
           by = "finalization" => new.final # NoEnvelope,
           Record(by, old, new)
    PROVE  events' \in Seq(Event) /\ Grown /\ History'
<1>1. events \in Seq(Event) /\ now \in 1..MaxTime /\ History
  BY DEF IInv, Shape, TypeOK
<1>2. CASE UNCHANGED events
  BY <1>1, <1>2 DEF Grown, History, NoEnvelope
<1>3. CASE \E id \in 1..MaxEvents :
             /\ \A i \in DOMAIN events : events[i].id # id
             /\ events' = Append(events,
                    [id |-> id, by |-> by, created |-> now, gen |-> new.gen,
                     receipt |-> new.final, proof |-> ProvesFinalization(old, new)])
  <2>1. PICK id \in 1..MaxEvents :
             /\ \A i \in DOMAIN events : events[i].id # id
             /\ events' = Append(events,
                    [id |-> id, by |-> by, created |-> now, gen |-> new.gen,
                     receipt |-> new.final, proof |-> ProvesFinalization(old, new)])
    BY <1>3
  <2> DEFINE x == [id |-> id, by |-> by, created |-> now, gen |-> new.gen,
                   receipt |-> new.final, proof |-> ProvesFinalization(old, new)]
  <2>2. ProvesFinalization(old, new) \in BOOLEAN
    BY DEF ProvesFinalization
  <2>3. x \in Event /\ x.id = id /\ x.by = by /\ x.receipt = new.final
    BY <1>1, <2>2 DEF Event
  <2>4. events' = Append(events, x)
    BY <2>1
  <2> HIDE DEF x
  <2>5. events' \in Seq(Event) /\ Grown
    BY <1>1, <2>3, <2>4 DEF Grown
  <2>6. /\ DOMAIN events' = DOMAIN events \cup {Len(events) + 1}
        /\ Len(events) + 1 \notin DOMAIN events
        /\ \A i \in DOMAIN events : events'[i] = events[i]
        /\ events'[Len(events) + 1] = x
    BY <1>1, <2>4
  <2>7. \A k, l \in DOMAIN events' : events'[k].id = events'[l].id => k = l
    BY <1>1, <2>1, <2>3, <2>6 DEF History
  <2>8. \A k \in DOMAIN events' :
            events'[k].by = "finalization" => events'[k].receipt # NoEnvelope
    BY <1>1, <2>3, <2>6 DEF History
  <2> QED BY <2>5, <2>7, <2>8 DEF History, NoEnvelope
<1> QED BY <1>2, <1>3 DEF Record

\* Steps that leave the outbox and the passes alone.
LEMMA Silent ==
    ASSUME IInv, issue' \in Issue, events' \in Seq(Event), Grown, History',
           UNCHANGED <<pass, emitted>>, now' \in 1..MaxTime,
           issue'.outcome.envelope = issue.outcome.envelope,
           issue.outcome = NoOutcome <=> issue'.outcome = NoOutcome
    PROVE  IInv'
<1>1. Shape'
  <2>1. pass' \in [Passes -> Progress] /\ emitted' \in Seq(Envelope)
    BY DEF IInv, Shape, TypeOK, Progress
  <2>2. Candidate' \in Seen /\ issue'.verified \in BOOLEAN
    BY DEF Issue, Candidate, Seen
  <2> QED BY <2>1, <2>2 DEF Shape, TypeOK, Progress, Issue, Seen, Event, Outcome, Envelope,
             Tokens, NoOutcome, NoEnvelope, Idle, ClaimToken, EventToken
<1>2. LastEmitted'
  BY DEF IInv, LastEmitted, NoOutcome, NoEnvelope
<1>3. Growing'
  BY DEF IInv, Growing, OfClaim, ClaimToken
<1>4. Sourced'
  BY Sources, Zenon DEF IInv, Sourced
<1> QED BY <1>1, <1>2, <1>3, <1>4 DEF IInv

-----------------------------------------------------------------------------
\* Writers that are not workflows.
LEMMA WorkerWrites ==
    ASSUME IInv, CloseIssue \/ VerifyIssue \/ ReopenIssue
    PROVE  IInv'
<1>1. issue \in Issue /\ events \in Seq(Event) /\ now \in 1..MaxTime /\ History
  BY DEF IInv, Shape, TypeOK
<1>2. CASE CloseIssue
  <2> DEFINE new   == [issue EXCEPT !.status = "closed"]
             blank == [Blank EXCEPT !.status = "closed"]
  <2>1. /\ new \in Issue /\ new.outcome = issue.outcome
        /\ blank.gen = 0 /\ blank.final = NoEnvelope
    BY <1>1 DEF Issue, Blank, NewIssue
  <2>2. /\ issue' = new /\ UNCHANGED <<now, pass, emitted>>
        /\ Record("worker", issue, new) \/ Record("worker", Blank, blank)
    BY <1>2 DEF CloseIssue
  <2>3. new.gen \in Generations \cup {0} /\ new.final \in Envelope \cup {NoEnvelope}
    BY <2>1 DEF Issue
  <2> HIDE DEF new, blank
  <2>4. events' \in Seq(Event) /\ Grown /\ History'
    <3>1. CASE Record("worker", issue, new)
      BY <2>3, <3>1, Recording
    <3>2. CASE Record("worker", Blank, blank)
      BY <2>1, <3>2, Recording
    <3> QED BY <2>2, <3>1, <3>2
  <2> QED BY <1>1, <2>1, <2>2, <2>4, Silent
<1>3. CASE VerifyIssue
  <2> DEFINE new == [issue EXCEPT !.verified = TRUE]
  <2>1. /\ new \in Issue /\ new.outcome = issue.outcome
        /\ new.gen \in Generations \cup {0} /\ new.final \in Envelope \cup {NoEnvelope}
    BY <1>1 DEF Issue
  <2>2. issue' = new /\ UNCHANGED <<now, pass, emitted>> /\ Record("worker", issue, new)
    BY <1>3 DEF VerifyIssue
  <2> HIDE DEF new
  <2>3. events' \in Seq(Event) /\ Grown /\ History'
    BY <2>1, <2>2, Recording
  <2> QED BY <1>1, <2>1, <2>2, <2>3, Silent
<1>4. CASE ReopenIssue
  <2>1. PICK v \in {FALSE, issue.verified} :
            issue' = [issue EXCEPT !.status = "open", !.verified = v]
    BY <1>4 DEF ReopenIssue
  <2>2. issue' \in Issue /\ issue'.outcome = issue.outcome
    BY <1>1, <2>1 DEF Issue
  <2>3. UNCHANGED <<events, now, pass, emitted>>
    BY <1>4 DEF ReopenIssue
  <2>4. Grown /\ History'
    BY <1>1, <2>3 DEF Grown, History, NoEnvelope
  <2> QED BY <1>1, <2>2, <2>3, <2>4, Silent
<1> QED BY <1>2, <1>3, <1>4

\* Coordinators and the clock.
LEMMA OthersWrite ==
    ASSUME IInv,
           \/ \E id \in 1..MaxEvents : Disposition(id)
           \/ \E g \in Generations : TransitionReady(g)
           \/ MarkOutcomeAcknowledged
           \/ Tick
    PROVE  IInv'
<1>1. issue \in Issue /\ events \in Seq(Event) /\ now \in 1..MaxTime /\ History
  BY DEF IInv, Shape, TypeOK
<1>2. UNCHANGED <<events, pass, emitted>>
  BY DEF Disposition, TransitionReady, MarkOutcomeAcknowledged, Tick
<1>3. events' \in Seq(Event) /\ Grown /\ History'
  BY <1>1, <1>2 DEF Grown, History, NoEnvelope
<1>4. now' \in 1..MaxTime
  <2>1. UNCHANGED now \/ (now < MaxTime /\ now' = now + 1)
    BY DEF Disposition, TransitionReady, MarkOutcomeAcknowledged, Tick
  <2> QED BY <1>1, <2>1, LegacyConstants
<1>5. /\ issue' \in Issue
      /\ issue'.outcome.envelope = issue.outcome.envelope
      /\ issue.outcome = NoOutcome <=> issue'.outcome = NoOutcome
  <2>1. CASE \E id \in 1..MaxEvents : Disposition(id)
    BY <1>1, <2>1 DEF Disposition, Issue
  <2>2. CASE \E g \in Generations : TransitionReady(g)
    BY <1>1, <2>2 DEF TransitionReady, Issue
  <2>3. CASE MarkOutcomeAcknowledged
    <3>1. issue.outcome \in [envelope : Envelope, acknowledged : BOOLEAN]
      BY <1>1, <2>3 DEF MarkOutcomeAcknowledged, Issue, Outcome
    <3>2. issue' = [issue EXCEPT !.outcome = [issue.outcome EXCEPT !.acknowledged = TRUE]]
      BY <2>3 DEF MarkOutcomeAcknowledged
    <3>3. issue'.outcome = [issue.outcome EXCEPT !.acknowledged = TRUE]
      BY <1>1, <3>2 DEF Issue
    <3>4. issue'.outcome \in [envelope : Envelope, acknowledged : BOOLEAN]
      BY <3>1, <3>3
    <3>5. issue' \in Issue
      BY <1>1, <3>2, <3>3, <3>4 DEF Issue, Outcome
    <3>6. \A o \in [envelope : Envelope, acknowledged : BOOLEAN] : o # NoOutcome
      BY DEF NoOutcome, NoEnvelope, Envelope
    <3> QED BY <3>1, <3>3, <3>4, <3>5, <3>6
  <2>4. CASE Tick
    BY <1>1, <2>4 DEF Tick
  <2> QED BY <2>1, <2>2, <2>3, <2>4
<1> QED BY <1>1, <1>2, <1>3, <1>4, <1>5, Silent

\* A finalization leaves a receipt: what is acknowledged is an outcome.
LEMMA Finalizing ==
    ASSUME IInv, FinalizeAcknowledgedOutcome
    PROVE  IInv'
<1>1. issue \in Issue /\ now \in 1..MaxTime
  BY DEF IInv, Shape, TypeOK
<1> DEFINE new == [issue EXCEPT !.status = "closed", !.final = issue.outcome.envelope]
<1>2. issue.outcome \in [envelope : Envelope, acknowledged : BOOLEAN]
  BY <1>1 DEF FinalizeAcknowledgedOutcome, Issue, Outcome, NoOutcome
<1>3. /\ new \in Issue /\ new.outcome = issue.outcome /\ new.final = issue.outcome.envelope
      /\ new.gen \in Generations \cup {0}
  BY <1>1, <1>2 DEF Issue
<1>4. new.final \in Envelope /\ new.final # NoEnvelope
  BY <1>2, <1>3 DEF NoEnvelope, Envelope
<1>5. /\ issue' = new /\ UNCHANGED <<now, pass, emitted>>
      /\ Record("finalization", issue, new)
  BY DEF FinalizeAcknowledgedOutcome
<1> HIDE DEF new
<1>6. events' \in Seq(Event) /\ Grown /\ History'
  BY <1>3, <1>4, <1>5, Recording
<1> QED BY <1>1, <1>3, <1>5, <1>6, Silent

\* The shape after a step that wrote an envelope.
LEMMA Reshaped ==
    ASSUME issue' \in Issue, events' \in Seq(Event), now' \in 1..MaxTime,
           pass' \in [Passes -> Progress], emitted' \in Seq(Envelope)
    PROVE  Shape'
<1>1. Candidate' \in Seen /\ issue'.verified \in BOOLEAN
  BY DEF Issue, Candidate, Seen
<1> QED BY <1>1 DEF Shape, TypeOK, Progress, Issue, Seen, Event, Outcome, Envelope,
            Tokens, NoOutcome, NoEnvelope, Idle, ClaimToken, EventToken

LEMMA Completing ==
    ASSUME IInv, Complete
    PROVE  IInv'
<1>1. /\ issue \in Issue /\ now \in 1..MaxTime
      /\ pass \in [Passes -> Progress] /\ Sourced
  BY DEF IInv, Shape, TypeOK, Progress
<1>2. PICK t \in {now - 1, now} :
          LET done == Completion(t)
              new  == [issue EXCEPT !.status = "closed",
                                    !.outcome = [envelope |-> done, acknowledged |-> FALSE]]
          IN  /\ issue.outcome.envelope.occurred <= t
              /\ MaySupersede(issue.outcome, done)
              /\ issue' = new
              /\ Record("completion", issue, new)
              /\ emitted' = Append(emitted, done)
  BY DEF Complete
<1> DEFINE done == Completion(t)
           new  == [issue EXCEPT !.status = "closed",
                                 !.outcome = [envelope |-> done, acknowledged |-> FALSE]]
<1>3. t \in 0..MaxTime
  BY <1>1, LegacyConstants
<1>4. issue.gen \in Generations /\ issue.gen \in Nat \ {0}
  BY <1>1, LegacyConstants DEF Complete, Issue
<1>5. done \in Envelope /\ OfClaim(done) /\ done.occurred = t
  BY <1>3, <1>4 DEF Completion, Envelope, Tokens, OfClaim
<1> HIDE DEF done
<1>6. /\ new \in Issue /\ new.outcome = [envelope |-> done, acknowledged |-> FALSE]
      /\ new.gen \in Generations \cup {0} /\ new.final \in Envelope \cup {NoEnvelope}
  BY <1>1, <1>5 DEF Issue, Outcome
<1>7. /\ issue.outcome.envelope.occurred <= t /\ MaySupersede(issue.outcome, done)
      /\ issue' = new /\ Record("completion", issue, new)
      /\ emitted' = Append(emitted, done)
      /\ UNCHANGED <<now, pass>>
  BY <1>2 DEF Complete, done
<1> HIDE DEF new
<1>8. events' \in Seq(Event) /\ Grown /\ History'
  BY <1>6, <1>7, Recording
<1>9. emitted' \in Seq(Envelope) /\ LastEmitted' /\ Growing'
  <2>1. issue.outcome # NoOutcome =>
            /\ issue.outcome.envelope.gen < done.gen
            /\ issue.outcome.envelope.occurred <= done.occurred
            /\ OfClaim(done) \/ issue.outcome.envelope.occurred < done.occurred
    <3>1. issue.outcome # NoOutcome =>
              issue.outcome \in [envelope : Envelope, acknowledged : BOOLEAN]
      BY <1>1 DEF Issue, Outcome
    <3> QED BY <1>5, <1>7, <3>1 DEF MaySupersede, Envelope
  <2> QED BY <1>5, <1>6, <1>7, <2>1, Emitting
<1>10. Sourced'
  BY <1>1, <1>5, <1>7, <1>8, Sources, Zenon DEF Sourced
<1>11. Shape'
  BY <1>1, <1>6, <1>7, <1>8, <1>9, Reshaped
<1> QED BY <1>8, <1>9, <1>10, <1>11 DEF IInv

-----------------------------------------------------------------------------
\* Passes.
LEMMA Passing ==
    ASSUME IInv, UNCHANGED <<issue, events, now, emitted>>,
           pass' \in [Passes -> Progress],
           \A p \in Passes : pass'[p].stage = "found" => OfEvent(pass'[p].envelope)
    PROVE  IInv'
<1>1. /\ issue' \in Issue /\ events' \in Seq(Event) /\ now' \in 1..MaxTime
      /\ emitted' \in Seq(Envelope)
  BY DEF IInv, Shape, TypeOK, Issue, Event, Envelope, Outcome, NoOutcome, NoEnvelope,
         Tokens, ClaimToken, EventToken
<1>2. Shape'
  BY <1>1, Reshaped
<1>3. History' /\ Growing' /\ Grown
  BY DEF IInv, History, Growing, Grown, NoEnvelope, OfClaim, ClaimToken
<1>4. LastEmitted'
  BY DEF IInv, LastEmitted, NoOutcome, NoEnvelope
<1>5. Sourced'
  BY <1>3, Sources, Zenon
<1> QED BY <1>2, <1>3, <1>4, <1>5 DEF IInv

LEMMA Listing ==
    ASSUME IInv, NEW p \in Passes, ListCandidates(p) \/ GiveUp(p)
    PROVE  IInv'
<1>1. issue \in Issue /\ pass \in [Passes -> Progress] /\ Sourced /\ Candidate \in Seen
  BY DEF IInv, Shape, TypeOK, Progress
<1>2. PICK x : pass' = [pass EXCEPT ![p] = x] /\ x \in Progress /\ x.stage # "found"
  <2>1. CASE ListCandidates(p)
    <3> DEFINE listed == [stage |-> "listed", seen |-> Candidate]
    <3>1. listed \in Progress /\ listed.stage # "found"
      BY <1>1 DEF Progress
    <3>2. pass' = [pass EXCEPT ![p] = listed]
      BY <2>1 DEF ListCandidates
    <3> QED BY <3>1, <3>2, Zenon
  <2>2. CASE GiveUp(p)
    <3>1. Idle \in Progress /\ Idle.stage # "found"
      BY DEF Idle, Progress
    <3>2. pass' = [pass EXCEPT ![p] = Idle]
      BY <2>2 DEF GiveUp
    <3> QED BY <3>1, <3>2, Zenon
  <2> QED BY <2>1, <2>2
<1>3. pass' \in [Passes -> Progress]
  BY <1>1, <1>2
<1>4. \A q \in Passes : pass'[q].stage = "found" => OfEvent(pass'[q].envelope)
  BY <1>1, <1>2 DEF Sourced
<1>5. UNCHANGED <<issue, events, now, emitted>>
  BY DEF ListCandidates, GiveUp
<1> QED BY <1>3, <1>4, <1>5, Passing

\* An event with a receipt is either the finalization or malformed; neither is
\* found.  The envelope is legal although what the pass saw is stale.
LEMMA Reading ==
    ASSUME IInv, NEW p \in Passes, ReadTransitions(p)
    PROVE  IInv'
<1>1. pass \in [Passes -> Progress] /\ Sourced /\ events \in Seq(Event)
  BY DEF IInv, Shape, TypeOK, Progress
<1> DEFINE seen == pass[p].seen
<1>2. seen \in Seen
  <2>1. pass[p] \in Progress /\ pass[p].stage = "listed"
    BY <1>1 DEF ReadTransitions
  <2> QED BY <2>1 DEF Progress, Idle
<1> HIDE DEF seen
<1>3. PICK x : pass' = [pass EXCEPT ![p] = x] /\ x \in Progress
                  /\ (x.stage = "found" => OfEvent(x.envelope))
  <2>1. CASE pass' = [pass EXCEPT ![p] = Idle]
    <3>1. Idle \in Progress /\ Idle.stage # "found"
      BY DEF Idle, Progress
    <3> QED BY <2>1, <3>1, Zenon
  <2>2. CASE \E i \in DOMAIN events :
                /\ ~Excluded(seen, events[i]) /\ ~Malformed(seen, events[i])
                /\ pass' = [pass EXCEPT ![p] = [stage |-> "found",
                                envelope |-> LegacyEnvelope(seen, events[i])]]
    <3>1. PICK i \in DOMAIN events :
                /\ ~Excluded(seen, events[i]) /\ ~Malformed(seen, events[i])
                /\ pass' = [pass EXCEPT ![p] = [stage |-> "found",
                                envelope |-> LegacyEnvelope(seen, events[i])]]
      BY <2>2
    <3> DEFINE e == events[i]
               made == LegacyEnvelope(seen, e)
    <3>2. e \in Event
      BY <1>1
    <3>3. e.receipt = NoEnvelope
      BY <3>1 DEF Excluded, Malformed, Finalization
    <3>4. /\ made.token = EventToken(e.id)
          /\ made.occurred = e.created
          /\ made.gen = LegacyGeneration(seen, e)
      BY DEF LegacyEnvelope
    <3>5. LegacyGeneration(seen, e) \in Nat \ {0}
      <4>1. seen.gen \in Nat /\ e.gen \in Nat
        <5>1. seen.gen \in Generations \cup {0}
          BY <1>2 DEF Seen
        <5>2. e.gen \in Generations \cup {0}
          BY <3>2 DEF Event
        <5>3. \A g \in Generations \cup {0} : g \in Nat
          BY LegacyConstants
        <5> QED BY <5>1, <5>2, <5>3, Zenon
      <4>2. seen.outcome.acknowledged => seen.outcome.envelope.gen \in Nat
        BY <1>2 DEF Seen, Outcome, NoOutcome, Envelope
      <4> HIDE DEF e
      <4> QED BY <4>1, <4>2 DEF LegacyGeneration
    <3>6. made \in Envelope
      <4>1. EventToken(e.id) \in Tokens /\ e.created \in 0..MaxTime
        BY <3>2, LegacyConstants DEF Tokens, Event
      <4> HIDE DEF e
      <4> QED BY <3>5, <4>1 DEF LegacyEnvelope, Envelope
    <3>7. OfEvent(made)
      BY <3>3, <3>4 DEF OfEvent
    <3> HIDE DEF made
    <3> DEFINE found == [stage |-> "found", envelope |-> made]
    <3>8. found \in Progress /\ OfEvent(found.envelope)
      BY <3>6, <3>7 DEF Progress
    <3>9. pass' = [pass EXCEPT ![p] = found]
      BY <3>1 DEF made
    <3> QED BY <3>8, <3>9, Zenon
  <2> QED BY <2>1, <2>2 DEF ReadTransitions, seen
<1>4. pass' \in [Passes -> Progress]
  BY <1>1, <1>3
<1>5. \A q \in Passes : pass'[q].stage = "found" => OfEvent(pass'[q].envelope)
  BY <1>1, <1>3 DEF Sourced
<1>6. UNCHANGED <<issue, events, now, emitted>>
  BY DEF ReadTransitions
<1> QED BY <1>4, <1>5, <1>6, Passing

LEMMA Emission ==
    ASSUME IInv, NEW p \in Passes, EmitCandidate(p)
    PROVE  IInv'
<1>1. /\ issue \in Issue /\ pass \in [Passes -> Progress] /\ Sourced
      /\ events \in Seq(Event) /\ now \in 1..MaxTime /\ History
  BY DEF IInv, Shape, TypeOK, Progress
<1> DEFINE new == pass[p].envelope
<1>2. new \in Envelope /\ OfEvent(new)
  <2>1. pass[p] \in Progress /\ pass[p].stage = "found"
    BY <1>1 DEF EmitCandidate
  <2>2. new \in Envelope
    BY <2>1 DEF Progress, Idle
  <2> QED BY <1>1, <2>1, <2>2 DEF Sourced
<1>3. /\ pass' = [pass EXCEPT ![p] = Idle] /\ EmitOutcome(new) /\ UNCHANGED <<events, now>>
  BY DEF EmitCandidate
<1> HIDE DEF new
<1>4. /\ pass' \in [Passes -> Progress]
      /\ \A q \in Passes : pass'[q].stage = "found" => OfEvent(pass'[q].envelope)
  BY <1>1, <1>3 DEF Sourced, Idle, Progress
<1>5. CASE UNCHANGED <<issue, emitted>>
  BY <1>3, <1>4, <1>5, Passing
<1>6. CASE /\ MaySupersede(issue.outcome, new)
           /\ issue' = [issue EXCEPT !.outcome =
                          [envelope |-> new, acknowledged |-> FALSE]]
           /\ emitted' = Append(emitted, new)
  <2>1. /\ issue' \in Issue
        /\ issue'.outcome = [envelope |-> new, acknowledged |-> FALSE]
    BY <1>1, <1>2, <1>6 DEF Issue, Outcome
  <2>2. issue.outcome # NoOutcome =>
            /\ issue.outcome.envelope.gen < new.gen
            /\ issue.outcome.envelope.occurred <= new.occurred
            /\ OfClaim(new) \/ issue.outcome.envelope.occurred < new.occurred
    <3>1. issue.outcome # NoOutcome =>
              issue.outcome \in [envelope : Envelope, acknowledged : BOOLEAN]
      BY <1>1 DEF Issue, Outcome
    <3>2. ~OfClaim(new)
      BY <1>2 DEF OfClaim, OfEvent, ClaimToken, EventToken
    <3> QED BY <1>2, <1>6, <3>1, <3>2 DEF MaySupersede, Envelope, OfClaim
  <2>3. emitted' \in Seq(Envelope) /\ LastEmitted' /\ Growing'
    BY <1>2, <1>6, <2>1, <2>2, Emitting
  <2>4. Grown /\ History'
    BY <1>1, <1>3 DEF Grown, History, NoEnvelope
  <2>5. Sourced'
    BY <1>2, <1>4, <1>6, <2>4, Sources, Zenon
  <2>6. Shape'
    <3>1. events' \in Seq(Event) /\ now' \in 1..MaxTime
      BY <1>1, <1>3
    <3> QED BY <1>4, <2>1, <2>3, <3>1, Reshaped
  <2> QED BY <2>3, <2>4, <2>5, <2>6 DEF IInv
<1> QED BY <1>3, <1>5, <1>6 DEF EmitOutcome

-----------------------------------------------------------------------------
\* The invariant holds in every reachable state.
THEOREM Invariance == Spec => []IInv
<1>1. Init => IInv
  <2> SUFFICES ASSUME Init
               PROVE  IInv
    OBVIOUS
  <2>1. issue \in Issue
    BY LegacyConstants DEF Init, NewIssue, Issue, Outcome
  <2>2. Candidate \in Seen /\ issue.verified \in BOOLEAN
    BY <2>1 DEF Issue, Candidate, Seen
  <2>3. now \in 1..MaxTime
    BY LegacyConstants DEF Init
  <2>4. Shape
    BY <2>1, <2>2, <2>3 DEF Init, Shape, TypeOK
  <2>5. History /\ Growing /\ Sourced
    BY DEF Init, History, Growing, Sourced, Idle
  <2>6. LastEmitted
    BY DEF Init, LastEmitted, NewIssue
  <2> QED BY <2>4, <2>5, <2>6 DEF IInv
<1>2. IInv /\ [Next]_vars => IInv'
  <2> SUFFICES ASSUME IInv, [Next]_vars
               PROVE  IInv'
    OBVIOUS
  <2>1. CASE CloseIssue \/ VerifyIssue \/ ReopenIssue
    BY <2>1, WorkerWrites
  <2>2. CASE \/ \E id \in 1..MaxEvents : Disposition(id)
             \/ \E g \in Generations : TransitionReady(g)
             \/ MarkOutcomeAcknowledged
             \/ Tick
    BY <2>2, OthersWrite
  <2>3. CASE Complete
    BY <2>3, Completing
  <2>4. CASE FinalizeAcknowledgedOutcome
    BY <2>4, Finalizing
  <2>5. ASSUME NEW p \in Passes, ListCandidates(p) \/ GiveUp(p)
        PROVE  IInv'
    BY <2>5, Listing
  <2>6. ASSUME NEW p \in Passes, ReadTransitions(p)
        PROVE  IInv'
    BY <2>6, Reading
  <2>7. ASSUME NEW p \in Passes, EmitCandidate(p)
        PROVE  IInv'
    BY <2>7, Emission
  <2>8. CASE UNCHANGED vars
    <3>1. UNCHANGED <<issue, events, now, pass, emitted>>
      BY <2>8 DEF vars
    <3>2. /\ pass' \in [Passes -> Progress]
          /\ \A p \in Passes : pass'[p].stage = "found" => OfEvent(pass'[p].envelope)
      BY <3>1 DEF IInv, Shape, TypeOK, Sourced, Progress
    <3> QED BY <3>1, <3>2, Passing
  <2> QED BY <2>1, <2>2, <2>3, <2>4, <2>5, <2>6, <2>7, <2>8, Zenon DEF Next, Writers
<1> QED BY <1>1, <1>2, PTL DEF Spec

\* Every variable keeps its type.
THEOREM TypeCorrect == Spec => []TypeOK
BY Invariance, PTL DEF IInv, Shape

\* One transition or claim becomes one outcome, for any number of passes.
THEOREM OneOutcome == Spec => []OneOutcomePerTransition
<1>1. IInv => OneOutcomePerTransition
  <2> SUFFICES ASSUME IInv, NEW i \in DOMAIN emitted, NEW j \in DOMAIN emitted,
                      emitted[i].token = emitted[j].token, i < j
               PROVE  FALSE
    <3>1. DOMAIN emitted \subseteq Nat
      BY DEF IInv, Shape, TypeOK
    <3> QED BY <3>1 DEF OneOutcomePerTransition
  <2>1. emitted[i] \in Envelope /\ emitted[j] \in Envelope
    BY DEF IInv, Shape, TypeOK
  <2>2. emitted[i].gen < emitted[j].gen
    BY DEF IInv, Growing
  <2>3. CASE OfClaim(emitted[i]) /\ OfClaim(emitted[j])
    <3>1. ClaimToken(emitted[i].gen) = ClaimToken(emitted[j].gen)
      BY <2>3 DEF OfClaim
    <3>2. emitted[i].gen = emitted[j].gen
      BY <3>1 DEF ClaimToken
    <3> QED BY <2>1, <2>2, <3>2 DEF Envelope
  <2>4. CASE OfEvent(emitted[i]) /\ OfEvent(emitted[j])
    <3>1. emitted[i].occurred = emitted[j].occurred
      <4>1. PICK k \in DOMAIN events : /\ emitted[i].token = EventToken(events[k].id)
                                      /\ emitted[i].occurred = events[k].created
        BY <2>4 DEF OfEvent
      <4>2. PICK l \in DOMAIN events : /\ emitted[j].token = EventToken(events[l].id)
                                      /\ emitted[j].occurred = events[l].created
        BY <2>4 DEF OfEvent
      <4>3. EventToken(events[k].id) = EventToken(events[l].id)
        BY <4>1, <4>2
      <4>4. events[k].id = events[l].id
        BY <4>3 DEF EventToken
      <4>5. k = l
        BY <4>4 DEF IInv, History
      <4> QED BY <4>1, <4>2, <4>5
    <3>2. ~OfClaim(emitted[j])
      BY <2>4 DEF OfClaim, OfEvent, ClaimToken, EventToken
    <3> QED BY <2>1, <3>1, <3>2 DEF IInv, Growing, Envelope
  <2>5. ~(OfClaim(emitted[i]) /\ OfEvent(emitted[j]))
    BY DEF OfClaim, OfEvent, ClaimToken, EventToken
  <2>6. ~(OfEvent(emitted[i]) /\ OfClaim(emitted[j]))
    BY DEF OfClaim, OfEvent, ClaimToken, EventToken
  <2> QED BY <2>3, <2>4, <2>5, <2>6 DEF IInv, Sourced
<1> QED BY <1>1, Invariance, PTL

\* A finalization is never taken for a result.
THEOREM FinalizationIsSilent == Spec => []FinalizationSilent
<1>1. IInv => FinalizationSilent
  <2> SUFFICES ASSUME IInv, NEW i \in DOMAIN emitted, NEW k \in DOMAIN events,
                      events[k].by = "finalization",
                      emitted[i].token = EventToken(events[k].id)
               PROVE  FALSE
    BY DEF FinalizationSilent, MadeBy
  <2>1. ~OfClaim(emitted[i])
    BY DEF OfClaim, ClaimToken, EventToken
  <2>2. OfEvent(emitted[i])
    BY <2>1 DEF IInv, Sourced
  <2> QED BY <2>2 DEF OfEvent, EventToken, IInv, History
<1> QED BY <1>1, Invariance, PTL

=============================================================================
