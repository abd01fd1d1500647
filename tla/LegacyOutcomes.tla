---------------------------- MODULE LegacyOutcomes ----------------------------
(***************************************************************************)
(* Discovery of outcomes nobody emitted.  Workers that are not Temporal     *)
(* workflows close beads, or mark them verified, with the bd tool; all that *)
(* is left of it is the issue and its history of events.  A pass lists the  *)
(* issues that look finished, reads their histories in a second query,      *)
(* takes the last transition of each that brought an outcome about, and     *)
(* emits it into the outbox that fenced completions and finalizations share *)
(* - unless that transition is already accounted for.                       *)
(*                                                                          *)
(* The module is about one bead: discovery treats each alone.  The bead is  *)
(* source work, not a synthetic one or a step of a formula; those are       *)
(* filtered out by data that does not change.                               *)
(***************************************************************************)
EXTENDS Naturals, Sequences

CONSTANTS
    Passes,       \* discovery passes that may overlap
    Generations,  \* generations a producer publishes the bead at
    MaxEvents,    \* bound on the transitions that bring an outcome about
    MaxTime       \* bound on the clock, in seconds

ASSUME LegacyConstants ==
    /\ Generations \subseteq Nat \ {0}
    /\ MaxEvents \in Nat
    /\ MaxTime \in Nat \ {0}

VARIABLES
    issue,       \* the canonical issue
    events,      \* its transitions that brought an outcome about, in order
    now,         \* the second it is
    pass,        \* pass[p]: what pass p has read
    emitted      \* the envelopes written to the outbox, in order

vars == <<issue, events, now, pass, emitted>>

\* Envelopes are told apart by the fence token: that of a claim, or the
\* identity of the event a legacy outcome was made from.
ClaimToken(g) == <<"claim", g>>
EventToken(id) == <<"event", id>>
NoEnvelope == [gen |-> 0, token |-> <<>>, occurred |-> 0]
NoOutcome == [envelope |-> NoEnvelope, acknowledged |-> FALSE]

NewIssue == [status |-> "open", verified |-> FALSE, gen |-> 0, outcome |-> NoOutcome,
             final |-> NoEnvelope, disposition |-> 0]

Idle == [stage |-> "idle"]

Init ==
    /\ issue = NewIssue
    /\ events = <<>>
    /\ now = 1
    /\ pass = [p \in Passes |-> Idle]
    /\ emitted = <<>>

-----------------------------------------------------------------------------
\* A snapshot of the issue that shows a result.
HasOutcome(s) == s.verified \/ s.status = "closed"

\* A native close may leave no old snapshot, and a bare reason for a new one.
Blank == [NewIssue EXCEPT !.status = ""]

\* The snapshots of the event prove a finalization: a live issue without a
\* receipt is closed, with a receipt for the acknowledged outcome it kept.
ProvesFinalization(old, new) ==
    /\ old.final = NoEnvelope
    /\ old.status \notin {"", "closed"}
    /\ new.status = "closed"
    /\ old.outcome.acknowledged
    /\ old.outcome = new.outcome
    /\ new.final = old.outcome.envelope

\* The history gains the step from old to new.  Events are identified by random
\* identities, so those of one second are ordered arbitrarily.
Record(by, old, new) ==
    IF HasOutcome(old) \/ ~HasOutcome(new)
    THEN UNCHANGED events
    ELSE \E id \in 1..MaxEvents :
             /\ \A i \in DOMAIN events : events[i].id # id
             /\ events' = Append(events,
                    [id |-> id, by |-> by, created |-> now, gen |-> new.gen,
                     receipt |-> new.final, proof |-> ProvesFinalization(old, new)])

-----------------------------------------------------------------------------
\* Workers that are not workflows.
CloseIssue ==
    /\ issue.status # "closed"
    /\ LET new == [issue EXCEPT !.status = "closed"]
       IN  /\ issue' = new
           /\ \/ Record("worker", issue, new)
              \/ Record("worker", Blank, [Blank EXCEPT !.status = "closed"])
    /\ UNCHANGED <<now, pass, emitted>>

VerifyIssue ==
    /\ ~issue.verified
    /\ LET new == [issue EXCEPT !.verified = TRUE]
       IN  issue' = new /\ Record("worker", issue, new)
    /\ UNCHANGED <<now, pass, emitted>>

\* Reopened for another try, with its verdicts withdrawn or not.
ReopenIssue ==
    /\ issue.status = "closed"
    /\ \E verified \in {FALSE, issue.verified} :
           issue' = [issue EXCEPT !.status = "open", !.verified = verified]
    /\ UNCHANGED <<events, now, pass, emitted>>

\* A coordinator declares that one exact transition was not a result.  (Bound:
\* it does so for one transition.)
Disposition(id) ==
    /\ \E i \in DOMAIN events : events[i].id = id
    /\ issue.disposition = 0
    /\ issue' = [issue EXCEPT !.disposition = id]
    /\ UNCHANGED <<events, now, pass, emitted>>

-----------------------------------------------------------------------------
\* Temporal: the transactions of DoltBeadStore that matter here.
TransitionReady(g) ==
    /\ g > issue.gen
    /\ issue' = [issue EXCEPT !.status = "open", !.gen = g]
    /\ UNCHANGED <<events, now, pass, emitted>>

\* A plausible bug: the times of the two outcomes are not compared.
MaySupersedeAnyTime(old, new) ==
    \/ old = NoOutcome
    \/ old.acknowledged /\ new.gen > old.envelope.gen

\* A fenced completion reads the clock after the row, later than any outcome in
\* it, so the comparison of times can only refuse a legacy outcome.
MaySupersede(old, new) ==
    \/ old = NoOutcome
    \/ /\ old.acknowledged
       /\ new.gen > old.envelope.gen
       /\ new.token = ClaimToken(new.gen) \/ new.occurred > old.envelope.occurred

Completion(t) == [gen |-> issue.gen, token |-> ClaimToken(issue.gen), occurred |-> t]

\* A claimed generation is completed.  The clock is read for the envelope before
\* the event is inserted, and after everything the row tells of; the second may
\* turn in between.
Complete ==
    /\ issue.status = "open"
    /\ issue.gen # 0
    /\ \E t \in {now - 1, now} :
           LET done == Completion(t)
               new  == [issue EXCEPT !.status = "closed",
                                     !.outcome = [envelope |-> done, acknowledged |-> FALSE]]
           IN  /\ \A i \in DOMAIN events : events[i].created <= t
               /\ issue.outcome.envelope.occurred <= t
               /\ MaySupersede(issue.outcome, done)
               /\ issue' = new
               /\ Record("completion", issue, new)
               /\ emitted' = Append(emitted, done)
    /\ UNCHANGED <<now, pass>>

MarkOutcomeAcknowledged ==
    /\ issue.outcome # NoOutcome
    /\ ~issue.outcome.acknowledged
    /\ issue' = [issue EXCEPT !.outcome.acknowledged = TRUE]
    /\ UNCHANGED <<events, now, pass, emitted>>

\* The issue is closed on its acknowledged outcome, which stays in the outbox.
FinalizeAcknowledgedOutcome ==
    /\ issue.final = NoEnvelope
    /\ issue.status # "closed"
    /\ issue.outcome.acknowledged
    /\ LET new == [issue EXCEPT !.status = "closed", !.final = issue.outcome.envelope]
       IN  issue' = new /\ Record("finalization", issue, new)
    /\ UNCHANGED <<now, pass, emitted>>

Tick ==
    /\ now < MaxTime
    /\ now' = now + 1
    /\ UNCHANGED <<issue, events, pass, emitted>>

-----------------------------------------------------------------------------
\* What discovery keeps of an issue.
Candidate == [status |-> issue.status, gen |-> issue.gen, outcome |-> issue.outcome,
              final |-> issue.final, disposition |-> issue.disposition]

\* A discovery pass.  Which issues look finished is read first.  (Bound: one
\* listing ages at a time, although any number of passes may be under way.)
ListCandidates(p) ==
    /\ pass[p] = Idle
    /\ \A q \in Passes : pass[q].stage # "listed"
    /\ HasOutcome(issue)
    /\ pass' = [pass EXCEPT ![p] = [stage |-> "listed", seen |-> Candidate]]
    /\ UNCHANGED <<issue, events, now, emitted>>

\* ORDER BY created_at, id: each transition replaces the one before.
TransitionEvent(e) ==
    \A i \in DOMAIN events :
        \/ events[i].created < e.created
        \/ events[i].created = e.created /\ events[i].id <= e.id

\* The outbox holds the outcome of this transition, or of one that is not older.
Known(seen, e) ==
    /\ seen.outcome # NoOutcome
    /\ \/ seen.outcome.envelope.token = EventToken(e.id)
       \/ e.created <= seen.outcome.envelope.occurred

\* A plausible bug: any close of an issue with a receipt is its finalization.
FinalizationByReceipt(seen, e) ==
    IF seen.final # NoEnvelope THEN "exact" ELSE "none"

\* A receipt in the event or in the issue excludes the transition if it is the
\* very close that the finalization made; otherwise it makes it malformed.
Finalization(seen, e) ==
    IF e.receipt = NoEnvelope /\ seen.final = NoEnvelope THEN "none"
    ELSE IF /\ e.proof
            /\ seen.status = "closed"
            /\ seen.final = e.receipt
            /\ seen.outcome = [envelope |-> e.receipt, acknowledged |-> TRUE]
         THEN "exact" ELSE "malformed"

\* A plausible bug: a disposition suppresses whatever transition is the last.
DispositionOfAny(seen, e) == IF seen.disposition = 0 THEN "none" ELSE "exact"

\* A disposition suppresses the transition it names and no other.
NonOutcome(seen, e) ==
    CASE seen.disposition = 0    -> "none"
      [] seen.disposition = e.id -> "exact"
      [] OTHER                   -> "malformed"

\* A plausible bug: an issue without a generation has generation 0.
LegacyGenerationOfIssue(seen, e) ==
    IF seen.outcome.acknowledged /\ seen.gen <= seen.outcome.envelope.gen
    THEN seen.outcome.envelope.gen + 1 ELSE seen.gen

\* The generation of the attempt, or the next after an acknowledged outcome.
LegacyGeneration(seen, e) ==
    LET g == IF e.gen # 0 THEN e.gen ELSE IF seen.gen # 0 THEN seen.gen ELSE 1
    IN  IF seen.outcome.acknowledged /\ g <= seen.outcome.envelope.gen
        THEN seen.outcome.envelope.gen + 1 ELSE g

LegacyEnvelope(seen, e) == [gen      |-> LegacyGeneration(seen, e),
                            token    |-> EventToken(e.id),
                            occurred |-> e.created]

Excluded(seen, e) ==
    Known(seen, e) \/ Finalization(seen, e) = "exact" \/
    (Finalization(seen, e) = "none" /\ NonOutcome(seen, e) = "exact")

Malformed(seen, e) ==
    /\ ~Excluded(seen, e)
    /\ "malformed" \in {Finalization(seen, e), NonOutcome(seen, e)}

\* The histories are read in a second query, when the listing has aged.
ReadTransitions(p) ==
    /\ pass[p].stage = "listed"
    /\ LET seen == pass[p].seen
       IN  \/ /\ events = <<>>
              /\ pass' = [pass EXCEPT ![p] = Idle]
           \/ \E i \in DOMAIN events :
                  LET e == events[i]
                  IN  /\ TransitionEvent(e)
                      /\ pass' = [pass EXCEPT ![p] =
                                    IF Excluded(seen, e) \/ Malformed(seen, e)
                                    THEN Idle
                                    ELSE [stage |-> "found",
                                          envelope |-> LegacyEnvelope(seen, e)]]
    /\ UNCHANGED <<issue, events, now, emitted>>

\* The envelope is written, or it is the one in the outbox, or it is refused; a
\* refused one is found again by a later pass.
EmitOutcome(new) ==
    IF new # issue.outcome.envelope /\ MaySupersede(issue.outcome, new)
    THEN /\ issue' = [issue EXCEPT !.outcome =
                        [envelope |-> new, acknowledged |-> FALSE]]
         /\ emitted' = Append(emitted, new)
    ELSE UNCHANGED <<issue, emitted>>

EmitCandidate(p) ==
    /\ pass[p].stage = "found"
    /\ pass' = [pass EXCEPT ![p] = Idle]
    /\ EmitOutcome(pass[p].envelope)
    /\ UNCHANGED <<events, now>>

\* A query fails or the process stops; passes start again.
GiveUp(p) ==
    /\ pass[p] # Idle
    /\ pass' = [pass EXCEPT ![p] = Idle]
    /\ UNCHANGED <<issue, events, now, emitted>>

Writers ==
    \/ CloseIssue \/ VerifyIssue \/ ReopenIssue
    \/ \E id \in 1..MaxEvents : Disposition(id)
    \/ \E g \in Generations : TransitionReady(g)
    \/ Complete
    \/ MarkOutcomeAcknowledged \/ FinalizeAcknowledgedOutcome

Next ==
    \/ Writers \/ Tick
    \/ \E p \in Passes : ListCandidates(p) \/ ReadTransitions(p)
                          \/ EmitCandidate(p) \/ GiveUp(p)

\* Passes start again and again, an outage ends and some pass gets through, and
\* a coordinator acknowledges what is delivered to it.
Fairness ==
    /\ WF_vars(MarkOutcomeAcknowledged)
    /\ WF_vars(\E p \in Passes : ListCandidates(p))
    /\ SF_vars(\E p \in Passes : ReadTransitions(p))
    /\ SF_vars(\E p \in Passes : EmitCandidate(p))

Spec == Init /\ [][Next]_vars /\ Fairness

-----------------------------------------------------------------------------
Tokens == {ClaimToken(g) : g \in Generations} \cup {EventToken(id) : id \in 1..MaxEvents}

Envelope == [gen : Nat \ {0}, token : Tokens, occurred : 0..MaxTime]

Outcome == [envelope : Envelope, acknowledged : BOOLEAN] \cup {NoOutcome}

Seen == [status      : {"open", "closed"},
         gen         : Generations \cup {0},
         outcome     : Outcome,
         final       : Envelope \cup {NoEnvelope},
         disposition : 0..MaxEvents]

Event == [id : 1..MaxEvents, by : {"worker", "completion", "finalization"},
          created : 1..MaxTime, gen : Generations \cup {0},
          receipt : Envelope \cup {NoEnvelope}, proof : BOOLEAN]

TypeOK ==
    /\ Candidate \in Seen /\ issue.verified \in BOOLEAN
    /\ events \in Seq(Event)
    /\ now \in 1..MaxTime
    /\ pass \in [Passes -> {Idle} \cup [stage : {"listed"}, seen : Seen]
                                \cup [stage : {"found"}, envelope : Envelope]]
    /\ emitted \in Seq(Envelope)

\* However passes overlap and age, whatever generation they chose, a transition
\* or a claim becomes one outcome: nobody is asked twice to take the same result.
OneOutcomePerTransition ==
    \A i, j \in DOMAIN emitted : emitted[i].token = emitted[j].token => i = j

MadeBy(e, who) ==
    \E i \in DOMAIN events : events[i].by = who /\ e.token = EventToken(events[i].id)

\* Closing a bead on its acknowledged outcome does not make another outcome,
\* also when the pass saw the bead before it was finalized.
FinalizationSilent ==
    \A i \in DOMAIN emitted : ~MadeBy(emitted[i], "finalization")

\* Discovery is for writers that are not Temporal: the close of a fenced
\* completion, which emitted its own outcome, is not found a second time.
OnlyOtherWriters ==
    \A i \in DOMAIN emitted : ~MadeBy(emitted[i], "completion")

Accounted(e) ==
    \/ \E i \in DOMAIN emitted : emitted[i].token = EventToken(e.id)
    \/ \E i \in DOMAIN emitted : e.created <= emitted[i].occurred
    \/ e.by = "finalization"
    \/ issue.disposition = e.id
    \/ Malformed(Candidate, e)

\* The last transition of a finished bead does not stay silent: in the end it is
\* in the outbox, or was too close to an outcome that is, or it was the
\* finalization, was declared not to be a result, or is reported as malformed.
NewestAccounted ==
    <>[](HasOutcome(issue) =>
            \A i \in DOMAIN events : TransitionEvent(events[i]) => Accounted(events[i]))

=============================================================================
