------------------------ MODULE BeadOrchestrationProofs ------------------------
(***************************************************************************)
(* One Activity for each event, nothing of the sealed set left out, every   *)
(* signal read and every parent told, for any events, any limit, any buffer *)
(* of unread signals and any number of close requests.                      *)
(***************************************************************************)
EXTENDS BeadOrchestration, FiniteSetTheorems, WellFoundedInduction, TLAPS

Ended == {"completed", "failed"}

\* An Activity was started for what was seen and for nothing else, and at most
\* EventLimit of them.
Started(r) ==
    /\ r \in Run
    /\ Cardinality(r.seen) =< EventLimit
    /\ \A e \in Events : r.starts[e] = IF e \in r.seen THEN 1 ELSE 0
    /\ \A e \in Events : r.activity[e] = "none" <=> e \notin r.seen
    /\ \A e \in Events : r.activity[e] = "canceled" => r.canceled

\* What a run that has not failed owes: to the seal, to the signals accepted of
\* which some are unread, and to the parents, of which some were told.
Owing(r, unread, signals, links) ==
    /\ r.sealed => r.seen \subseteq r.expected
    /\ signals \subseteq r.seen \cup unread
    /\ \A e \in Parented : r.activity[e] \in Ended =>
           e \in r.linking \/ links[e] = r.activity[e]

Sound(r, unread, signals, links) ==
    /\ Started(r)
    /\ r.linking \subseteq Parented
    /\ \A e \in r.linking : r.activity[e] \in Ended
    /\ r.canceled => r.failed
    /\ ~r.failed => Owing(r, unread, signals, links)

\* How a run that completed stands.
Settled(r, unread) ==
    /\ ~r.failed
    /\ Idle(r)
    /\ ReceivedExpectedEvents(r)
    /\ \A e \in Events : r.activity[e] # "failed"
    /\ unread = <<>>

IInv ==
    /\ TypeOK
    /\ Sound(run, ToSet(ready), accepted, told)
    /\ status # "open" => InFlight(run) = {}
    /\ status = "completed" => Settled(run, ready)

-----------------------------------------------------------------------------
\* Induction, for a set of numbers.
LEMMA Inductively ==
    ASSUME NEW T, 0 \in T, \A n \in Nat : n \in T => n + 1 \in T
    PROVE  Nat \subseteq T
<1> DEFINE Less == {p \in Nat \X Nat : p[1] < p[2]}
           Rest == Nat \ T
<1>1. SUFFICES ASSUME Rest # {} PROVE FALSE
  OBVIOUS
<1>2. IsWellFoundedOn(Less, Nat)
  BY Zenon, NatLessThanWellFounded DEF OpToRel
<1>3. Rest \subseteq Nat
  OBVIOUS
<1>4. \E x \in Rest : \A y \in Rest : ~ (<<y, x>> \in Less)
  <2> HIDE DEF Less, Rest
  <2> QED BY <1>1, <1>2, <1>3, WFMin, Zenon
<1>5. PICK x \in Rest : \A y \in Rest : ~ (<<y, x>> \in Less)
  BY <1>4
<1>6. x \in Nat /\ x # 0 /\ x \notin T
  OBVIOUS
<1>7. x - 1 \in Nat /\ (x - 1) + 1 = x
  BY <1>6
<1>8. x - 1 \notin Rest
  <2>1. x - 1 < x
    BY <1>7
  <2> QED BY <1>5, <1>6, <1>7, <2>1
<1> QED BY <1>6, <1>7, <1>8

\* The recursion of a drain, over the positions D of the signals.
Drains(iter, r, s, D) ==
    iter = [t \in SUBSET D |-> IF t = {} THEN r ELSE
                AcceptReady(iter[t \ {Max(t)}], s[Max(t)])]

LEMMA Draining ==
    ASSUME NEW r, NEW s \in Seq(Events)
    PROVE  \E iter : /\ Drains(iter, r, s, 1..Len(s))
                     /\ DrainReadySignals(r, s) = iter[1..Len(s)]
<1> DEFINE Positions == {n \in Nat : \E iter : Drains(iter, r, s, 1..n)}
<1>1. 0 \in Positions
  <2>1. Drains([t \in SUBSET (1..0) |-> r], r, s, 1..0)
    BY DEF Drains
  <2> QED BY <2>1
<1>2. ASSUME NEW n \in Nat, n \in Positions PROVE n + 1 \in Positions
  <2>1. PICK f : Drains(f, r, s, 1..n)
    BY <1>2
  <2> DEFINE g == [t \in SUBSET (1..(n + 1)) |->
                     IF n + 1 \in t THEN AcceptReady(f[t \ {n + 1}], s[n + 1]) ELSE f[t]]
  <2>2. ASSUME NEW t \in SUBSET (1..(n + 1))
        PROVE  g[t] = IF t = {} THEN r ELSE AcceptReady(g[t \ {Max(t)}], s[Max(t)])
    <3>1. CASE n + 1 \in t
      <4>1. Max(t) = n + 1
        <5>1. \A y \in t : n + 1 >= y
          OBVIOUS
        <5>2. \A x \in t : (\A y \in t : x >= y) => x = n + 1
          BY <3>1
        <5> QED BY <3>1, <5>1, <5>2 DEF Max
      <4>2. t \ {n + 1} \in SUBSET (1..(n + 1)) /\ n + 1 \notin t \ {n + 1}
        OBVIOUS
      <4>3. g[t \ {n + 1}] = f[t \ {n + 1}]
        BY <4>2
      <4>4. g[t] = AcceptReady(f[t \ {n + 1}], s[n + 1])
        BY <3>1
      <4> HIDE DEF g
      <4> QED BY <3>1, <4>1, <4>3, <4>4
    <3>2. CASE n + 1 \notin t
      <4>1. t \in SUBSET (1..n)
        BY <3>2
      <4>2. g[t] = f[t]
        BY <3>2
      <4>3. f[t] = IF t = {} THEN r ELSE AcceptReady(f[t \ {Max(t)}], s[Max(t)])
        BY <2>1, <4>1, Zenon DEF Drains
      <4>4. t \ {Max(t)} \in SUBSET (1..(n + 1)) /\ n + 1 \notin t \ {Max(t)}
        BY <3>2
      <4>5. g[t \ {Max(t)}] = f[t \ {Max(t)}]
        BY <4>4
      <4> HIDE DEF g
      <4> QED BY <4>2, <4>3, <4>5
    <3> QED BY <3>1, <3>2
  <2>3. Drains(g, r, s, 1..(n + 1))
    <3>1. g = [t \in SUBSET (1..(n + 1)) |-> g[t]]
      OBVIOUS
    <3> HIDE DEF g
    <3> QED BY <2>2, <3>1, Zenon DEF Drains
  <2> QED BY <2>3
<1>3. Len(s) \in Positions
  <2>1. Nat \subseteq Positions
    <3> HIDE DEF Positions
    <3> QED BY <1>1, <1>2, Inductively
  <2> QED BY <2>1
<1>4. DrainReadySignals(r, s) =
          (CHOOSE iter : Drains(iter, r, s, DOMAIN s))[DOMAIN s]
  BY DEF DrainReadySignals, FoldLeft, MapThenFoldSet, Drains
<1>5. DOMAIN s = 1..Len(s)
  OBVIOUS
<1>6. Drains(CHOOSE iter : Drains(iter, r, s, 1..Len(s)), r, s, 1..Len(s))
  BY <1>3, Zenon
<1> QED BY <1>4, <1>5, <1>6, Zenon

\* A drain goes through stages, one signal at a time.
LEMMA DrainedInStages ==
    ASSUME NEW r, NEW s \in Seq(Events), NEW Stage,
           r \in Stage[0],
           \A n \in 1..Len(s) : \A x \in Stage[n - 1] : AcceptReady(x, s[n]) \in Stage[n]
    PROVE  DrainReadySignals(r, s) \in Stage[Len(s)]
<1>1. PICK iter : /\ Drains(iter, r, s, 1..Len(s))
                  /\ DrainReadySignals(r, s) = iter[1..Len(s)]
  BY Draining
<1> DEFINE Reached == {n \in Nat : n =< Len(s) => iter[1..n] \in Stage[n]}
<1>2. 0 \in Reached
  <2>1. 1..0 = {} /\ {} \in SUBSET (1..Len(s))
    OBVIOUS
  <2>2. iter[{}] = r
    BY <1>1, <2>1, Zenon DEF Drains
  <2> QED BY <2>1, <2>2
<1>3. ASSUME NEW n \in Nat, n \in Reached PROVE n + 1 \in Reached
  <2> SUFFICES ASSUME n + 1 =< Len(s) PROVE iter[1..(n + 1)] \in Stage[n + 1]
    OBVIOUS
  <2> DEFINE t == 1..(n + 1)
  <2>1. t \in SUBSET (1..Len(s)) /\ t # {}
    <3>1. n + 1 \in t /\ Len(s) \in Nat
      OBVIOUS
    <3>2. \A i \in t : i \in 1..Len(s)
      BY <3>1
    <3> HIDE DEF t
    <3> QED BY <3>1, <3>2
  <2>2. Max(t) = n + 1
    <3>1. n + 1 \in t /\ \A y \in t : n + 1 >= y
      OBVIOUS
    <3>2. \A x \in t : (\A y \in t : x >= y) => x = n + 1
      OBVIOUS
    <3> QED BY <3>1, <3>2 DEF Max
  <2>3. t \ {n + 1} = 1..n
    OBVIOUS
  <2>4. iter[t] = AcceptReady(iter[t \ {Max(t)}], s[Max(t)])
    <3> HIDE DEF t
    <3> QED BY <1>1, <2>1, Zenon DEF Drains
  <2>5. iter[t] = AcceptReady(iter[1..n], s[n + 1])
    BY <2>2, <2>3, <2>4, Zenon
  <2>6. iter[1..n] \in Stage[(n + 1) - 1] /\ n + 1 \in 1..Len(s)
    BY <1>3
  <2> QED BY <2>5, <2>6
<1>4. Len(s) \in Reached
  <2>1. Nat \subseteq Reached
    <3> HIDE DEF Reached
    <3> QED BY <1>2, <1>3, Inductively
  <2> QED BY <2>1
<1> QED BY <1>1, <1>4

-----------------------------------------------------------------------------
\* Scheduling an event marks it as seen and starts one Activity.
LEMMA Scheduled ==
    ASSUME NEW r \in Run, NEW e \in Events
    PROVE  LET q == Schedule(r, e)
           IN  /\ q \in Run
               /\ q.seen = r.seen \cup {e}
               /\ q.failed = r.failed /\ q.closing = r.closing /\ q.sealed = r.sealed
               /\ q.canceled = r.canceled /\ q.expected = r.expected /\ q.linking = r.linking
               /\ \A x \in Events : q.activity[x] = IF x = e THEN "running" ELSE r.activity[x]
               /\ \A x \in Events : q.starts[x] = IF x = e THEN r.starts[e] + 1 ELSE r.starts[x]
<1> DEFINE activity == [r.activity EXCEPT ![e] = "running"]
           starts   == [r.starts EXCEPT ![e] = r.starts[e] + 1]
           r1       == [r EXCEPT !.seen = @ \cup {e}]
           r2       == [r1 EXCEPT !.activity = activity]
           q        == [r2 EXCEPT !.starts = starts]
<1>1. /\ activity \in [Events -> Activity] /\ starts \in [Events -> Nat]
      /\ \A x \in Events : activity[x] = IF x = e THEN "running" ELSE r.activity[x]
      /\ \A x \in Events : starts[x] = IF x = e THEN r.starts[e] + 1 ELSE r.starts[x]
  BY DEF Run, Activity
<1>2. Schedule(r, e) = q
  BY DEF Schedule, Run
<1> HIDE DEF activity, starts
<1>3. /\ r1 \in Run
      /\ q.failed = r.failed /\ q.closing = r.closing /\ q.sealed = r.sealed
      /\ q.canceled = r.canceled /\ q.expected = r.expected /\ q.linking = r.linking
      /\ q.seen = r.seen \cup {e} /\ q.activity = activity /\ q.starts = starts
  BY DEF Run
<1> HIDE DEF r1
<1>4. r2 \in Run
  BY <1>1, <1>3 DEF Run
<1> HIDE DEF r2
<1>5. q \in Run
  BY <1>1, <1>4 DEF Run
<1> HIDE DEF q
<1> QED BY <1>1, <1>2, <1>3, <1>5

\* A signal that is accepted leaves a sound run, with one signal less unread.
LEMMA Accepting ==
    ASSUME NEW r, NEW U, NEW e \in Events, NEW A \in SUBSET Events, NEW t,
           Sound(r, U \cup {e}, A, t)
    PROVE  Sound(AcceptReady(r, e), U, A, t)
<1> USE OrchestrationConstants
<1>1. CASE r.sealed /\ e \notin r.expected
  BY <1>1 DEF AcceptReady, Fail, Sound, Started, Run
<1>2. CASE ~ (r.sealed /\ e \notin r.expected) /\ e \in r.seen
  <2>1. AcceptReady(r, e) = r
    BY <1>2 DEF AcceptReady
  <2>2. ~r.failed => Owing(r, U, A, t)
    BY <1>2 DEF Sound, Owing
  <2> QED BY <2>1, <2>2 DEF Sound
<1>3. CASE ~ (r.sealed /\ e \notin r.expected) /\ e \notin r.seen /\ Cardinality(r.seen) >= EventLimit
  BY <1>3 DEF AcceptReady, Fail, Sound, Started, Run
<1>4. CASE /\ ~ (r.sealed /\ e \notin r.expected)
           /\ e \notin r.seen
           /\ ~ (Cardinality(r.seen) >= EventLimit)
  <2> DEFINE q == Schedule(r, e)
  <2>1. AcceptReady(r, e) = q
    BY <1>4 DEF AcceptReady
  <2>2. /\ q.seen = r.seen \cup {e}
        /\ q.failed = r.failed /\ q.closing = r.closing /\ q.sealed = r.sealed
        /\ q.canceled = r.canceled /\ q.expected = r.expected /\ q.linking = r.linking
        /\ \A x \in Events : q.activity[x] = IF x = e THEN "running" ELSE r.activity[x]
        /\ \A x \in Events : q.starts[x] = IF x = e THEN r.starts[e] + 1 ELSE r.starts[x]
        /\ q \in Run
    BY Scheduled DEF Sound, Started
  <2> HIDE DEF q
  <2>3. Cardinality(q.seen) =< EventLimit
    <3>1. IsFiniteSet(r.seen)
      <4>1. r.seen \subseteq Events
        BY DEF Sound, Started, Run
      <4> QED BY <4>1, FS_Subset
    <3>2. Cardinality(r.seen) \in Nat
      BY <3>1, FS_CardinalityType
    <3>3. Cardinality(q.seen) = Cardinality(r.seen) + 1
      <4>1. Cardinality(r.seen \cup {e}) = Cardinality(r.seen) + 1
        BY <1>4, <3>1, FS_AddElement, Zenon
      <4> QED BY <2>2, <4>1
    <3> QED BY <1>4, <3>2, <3>3
  <2>4. Started(q)
    <3>1. \A x \in Events : q.starts[x] = IF x \in q.seen THEN 1 ELSE 0
      BY <1>4, <2>2 DEF Sound, Started
    <3>2. \A x \in Events : /\ q.activity[x] = "none" <=> x \notin q.seen
                            /\ q.activity[x] = "canceled" => q.canceled
      BY <2>2 DEF Sound, Started
    <3> QED BY <2>2, <2>3, <3>1, <3>2 DEF Started
  <2>5. e \notin r.linking /\ r.activity[e] \notin Ended
    BY <1>4 DEF Sound, Started, Ended
  <2>6. \A x \in q.linking : q.activity[x] \in Ended
    BY <2>2, <2>5 DEF Sound
  <2>7. ~q.failed => Owing(q, U, A, t)
    <3> SUFFICES ASSUME ~r.failed PROVE Owing(q, U, A, t)
      BY <2>2
    <3>1. Owing(r, U \cup {e}, A, t)
      BY DEF Sound
    <3>2. \A x \in Parented : q.activity[x] \in Ended =>
              x \in q.linking \/ t[x] = q.activity[x]
      BY <2>2, <3>1 DEF Owing, Ended
    <3> QED BY <1>4, <2>2, <3>1, <3>2 DEF Owing
  <2> QED BY <2>1, <2>2, <2>4, <2>6, <2>7 DEF Sound
<1> QED BY <1>1, <1>2, <1>3, <1>4

\* A drain leaves a sound run and nothing unread.
LEMMA Drained ==
    ASSUME NEW r, NEW s \in Seq(Events), NEW A \in SUBSET Events, NEW t,
           Sound(r, ToSet(s), A, t)
    PROVE  Sound(DrainReadySignals(r, s), {}, A, t)
<1> DEFINE Left(n) == {s[i] : i \in (n + 1)..Len(s)}
           Stage == [n \in 0..Len(s) |-> {x \in Run : Sound(x, Left(n), A, t)}]
<1>1. r \in Stage[0]
  <2>1. Left(0) = ToSet(s) /\ 0 \in 0..Len(s)
    BY DEF ToSet
  <2>2. r \in Run
    BY DEF Sound, Started
  <2> HIDE DEF Left
  <2> QED BY <2>1, <2>2
<1>2. ASSUME NEW n \in 1..Len(s), NEW x \in Stage[n - 1]
      PROVE  AcceptReady(x, s[n]) \in Stage[n]
  <2>1. s[n] \in Events /\ Left(n - 1) = Left(n) \cup {s[n]}
    OBVIOUS
  <2>2. n - 1 \in 0..Len(s) /\ n \in 0..Len(s)
    OBVIOUS
  <2> HIDE DEF Left
  <2>3. Sound(x, Left(n) \cup {s[n]}, A, t)
    BY <2>1, <2>2
  <2>4. Sound(AcceptReady(x, s[n]), Left(n), A, t)
    BY <2>1, <2>3, Accepting
  <2>5. AcceptReady(x, s[n]) \in Run
    BY <2>4 DEF Sound, Started
  <2> QED BY <2>2, <2>4, <2>5
<1>3. DrainReadySignals(r, s) \in Stage[Len(s)]
  <2> HIDE DEF Stage
  <2> QED BY <1>1, <1>2, DrainedInStages
<1>4. Left(Len(s)) = {} /\ Len(s) \in 0..Len(s)
  OBVIOUS
<1> HIDE DEF Left
<1> QED BY <1>3, <1>4

\* Returning to the loop leaves a sound run, and one that completes is settled.
LEMMA Looping ==
    ASSUME NEW r, NEW s \in Seq(Events), NEW A \in SUBSET Events, NEW t,
           Len(s) =< MaxBuffer, Sound(r, ToSet(s), A, t), Callback(r, s)
    PROVE  /\ run' \in Run /\ Cardinality(run'.seen) =< EventLimit
           /\ ready' \in Seq(Events) /\ Len(ready') =< MaxBuffer
           /\ status' \in {"open", "completed", "failed", "canceled"}
           /\ Sound(run', ToSet(ready'), A, t)
           /\ status' # "open" => InFlight(run)' = {}
           /\ status' = "completed" => Settled(run', ready')
<1> USE OrchestrationConstants
<1> DEFINE d == DrainReadySignals(r, s)
           CanReturn(x) == x.closing /\ Idle(x) /\ ReceivedExpectedEvents(x)
<1>1. /\ run' = Await(r, s).run
      /\ ready' = Await(r, s).ready
      /\ status' = Await(r, s).status
  BY DEF Callback
<1>2. Sound(d, {}, A, t) /\ ToSet(<<>>) = {}
  BY Drained DEF ToSet
<1> HIDE DEF d
<1>3. \/ /\ run' = r /\ ready' = s
         /\ \/ status' = "open"
            \/ (r.canceled \/ r.failed) /\ InFlight(r) = {} /\ status' = Finish(r)
      \/ /\ run' = d /\ ready' = <<>>
         /\ \/ status' = "open"
            \/ CanReturn(d) /\ status' = Finish(d)
  BY <1>1 DEF Await, Return, Continue, Idle, d
<1>4. Sound(run', ToSet(ready'), A, t)
  BY <1>2, <1>3
<1>5. run' \in Run /\ Cardinality(run'.seen) =< EventLimit
  BY <1>4 DEF Sound, Started
<1>6. ready' \in Seq(Events) /\ Len(ready') =< MaxBuffer
  <2>1. <<>> \in Seq(Events) /\ Len(<<>>) =< MaxBuffer
    OBVIOUS
  <2>2. ready' = s \/ ready' = <<>>
    BY <1>3
  <2> QED BY <2>1, <2>2
<1>7. status' \in {"open", "completed", "failed", "canceled"}
  BY <1>3 DEF Finish
<1>8. status' = "completed" => Settled(run', ready')
  <2>1. r.canceled \/ r.failed => Finish(r) # "completed"
    BY DEF Finish
  <2>2. ASSUME CanReturn(d), Finish(d) = "completed" PROVE Settled(d, <<>>)
    <3>1. ~d.canceled /\ ~d.failed /\ \A e \in Events : d.activity[e] # "failed"
      BY <2>2 DEF Finish
    <3> QED BY <2>2, <3>1 DEF Settled
  <2> QED BY <1>3, <2>1, <2>2
<1>9. status' # "open" => InFlight(run)' = {}
  <2>1. InFlight(run)' = InFlight(run')
    BY DEF InFlight
  <2>2. CanReturn(d) => InFlight(d) = {}
    BY DEF Idle
  <2> QED BY <1>3, <2>1, <2>2
<1> QED BY <1>4, <1>5, <1>6, <1>7, <1>8, <1>9

\* A callback on a sound run keeps the invariant.
LEMMA Stepping ==
    ASSUME IInv, NEW r, NEW s \in Seq(Events), Len(s) =< MaxBuffer,
           accepted' \in SUBSET Events, told' \in [Events -> {"none"} \cup Ended],
           seals' \in 0..MaxSeals,
           Sound(r, ToSet(s), accepted', told'),
           Callback(r, s)
    PROVE  IInv'
  BY Looping DEF IInv, TypeOK, Ended

-----------------------------------------------------------------------------
\* IInv holds at first and is kept by every step.
THEOREM Invariance == Spec => []IInv
<1> USE OrchestrationConstants
<1>1. Init => IInv
  <2> SUFFICES ASSUME NEW e \in Events, NEW c \in BOOLEAN,
                      run = NewRun(e, c), ready = <<e>>, accepted = {e}, status = "open",
                      told = [x \in Events |-> "none"], seals = 0
               PROVE  IInv
    BY DEF Init
  <2>1. /\ run \in Run /\ run.seen = {e} /\ run.linking = {} /\ ~run.sealed /\ ~run.canceled
        /\ ~run.failed
        /\ \A x \in Events : /\ run.activity[x] = IF x = e THEN "running" ELSE "none"
                             /\ run.starts[x] = IF x = e THEN 1 ELSE 0
    <3> DEFINE r == [failed |-> FALSE, closing |-> c, sealed |-> FALSE,
                     canceled |-> FALSE, seen |-> {}, expected |-> {},
                     activity |-> [x \in Events |-> "none"],
                     starts |-> [x \in Events |-> 0], linking |-> {}]
    <3>1. r \in Run
      BY DEF Run, Activity
    <3>2. run = Schedule(r, e)
      BY DEF NewRun
    <3>3. /\ r.seen = {} /\ r.linking = {} /\ ~r.sealed /\ ~r.canceled /\ ~r.failed
          /\ \A x \in Events : r.activity[x] = "none" /\ r.starts[x] = 0
      OBVIOUS
    <3> HIDE DEF r
    <3>4. /\ run \in Run /\ run.seen = r.seen \cup {e} /\ run.linking = r.linking
          /\ run.failed = r.failed /\ run.sealed = r.sealed /\ run.canceled = r.canceled
          /\ \A x \in Events : run.activity[x] = IF x = e THEN "running" ELSE r.activity[x]
          /\ \A x \in Events : run.starts[x] = IF x = e THEN r.starts[e] + 1 ELSE r.starts[x]
      BY <3>1, <3>2, Scheduled
    <3> QED BY <3>3, <3>4
  <2>2. Cardinality(run.seen) = 1
    BY <2>1, FS_Singleton
  <2>3. Sound(run, ToSet(ready), accepted, told)
    BY <2>1, <2>2 DEF Sound, Started, Owing, Ended
  <2>4. TypeOK
    BY <2>1, <2>2 DEF TypeOK
  <2> QED BY <2>3, <2>4 DEF IInv
<1>2. IInv /\ [Next]_vars => IInv'
  <2> SUFFICES ASSUME IInv, [Next]_vars PROVE IInv'
    OBVIOUS
  <2> USE DEF IInv
  <2>0. /\ Sound(run, ToSet(ready), accepted, told)
        /\ accepted \in SUBSET Events /\ told \in [Events -> {"none"} \cup Ended]
        /\ seals \in 0..MaxSeals
        /\ ready \in Seq(Events) /\ Len(ready) =< MaxBuffer
    BY DEF TypeOK, Ended
  \* What is unread may be more than the run owes.
  <2>1. ASSUME NEW e \in Events, Deliver(e) PROVE IInv'
    <3>1. ToSet(ready') = ToSet(ready) \cup {e}
      BY <2>0, <2>1 DEF Deliver, ToSet
    <3>2. Sound(run, ToSet(ready'), accepted', told)
      BY <2>0, <2>1, <3>1 DEF Sound, Owing, Deliver
    <3>3. TypeOK'
      BY <2>0, <2>1 DEF Deliver, TypeOK
    <3> QED BY <2>1, <3>2, <3>3 DEF Deliver
  <2>2. CASE ReceiveReady
    <3> DEFINE e == Head(ready)
               s == Tail(ready)
    <3>1. e \in Events /\ s \in Seq(Events) /\ Len(s) =< MaxBuffer
      BY <2>0, <2>2 DEF ReceiveReady
    <3>2. ToSet(ready) = ToSet(s) \cup {e}
      <4>1. \A i \in DOMAIN s : s[i] = ready[i + 1] /\ i + 1 \in DOMAIN ready
        BY <2>0, <2>2 DEF ReceiveReady
      <4>2. \A i \in DOMAIN ready : i = 1 \/ (i - 1 \in DOMAIN s /\ ready[i] = s[i - 1])
        BY <2>0, <2>2 DEF ReceiveReady
      <4>3. 1 \in DOMAIN ready /\ ready[1] = e
        BY <2>0, <2>2 DEF ReceiveReady
      <4> HIDE DEF e, s
      <4> QED BY <4>1, <4>2, <4>3 DEF ToSet
    <3> HIDE DEF e, s
    <3>3. Sound(AcceptReady(run, e), ToSet(s), accepted, told)
      BY <2>0, <3>1, <3>2, Accepting
    <3>4. Callback(AcceptReady(run, e), s) /\ UNCHANGED <<accepted, told, seals>>
      BY <2>2 DEF ReceiveReady, e, s
    <3> QED BY <2>0, <3>1, <3>3, <3>4, Stepping
  <2>3. ASSUME NEW E \in SUBSET Events, ReceiveClose(E) PROVE IInv'
    <3> DEFINE sealed == [run EXCEPT !.expected = E, !.sealed = TRUE, !.closing = TRUE]
               wrong  == IF run.sealed THEN E # run.expected ELSE ~(run.seen \subseteq E)
    <3>1. /\ \/ wrong /\ Callback(Fail(IF run.sealed THEN run ELSE sealed), ready)
             \/ ~wrong /\ Callback(DrainReadySignals(sealed, ready), <<>>)
          /\ UNCHANGED <<accepted, told>> /\ seals' \in 0..MaxSeals
      BY <2>0, <2>3 DEF ReceiveClose
    <3>2. /\ sealed \in Run /\ sealed.expected = E /\ sealed.sealed
          /\ sealed.seen = run.seen /\ sealed.failed = run.failed
          /\ sealed.canceled = run.canceled /\ sealed.linking = run.linking
          /\ sealed.activity = run.activity /\ sealed.starts = run.starts
      BY <2>0 DEF Sound, Started, Run
    <3> HIDE DEF sealed
    <3>3. CASE wrong
      <4> DEFINE r == Fail(IF run.sealed THEN run ELSE sealed)
      <4>1. Sound(r, ToSet(ready), accepted, told)
        BY <2>0, <3>2 DEF Sound, Started, Fail, Run
      <4>2. Callback(r, ready)
        BY <3>1, <3>3
      <4> HIDE DEF r
      <4> QED BY <2>0, <3>1, <4>1, <4>2, Stepping
    <3>4. CASE ~wrong
      <4>1. ~run.failed => run.seen \subseteq E
        BY <2>0, <3>4 DEF Sound, Owing
      <4>2. Sound(sealed, ToSet(ready), accepted, told)
        BY <2>0, <3>2, <4>1 DEF Sound, Started, Owing
      <4> DEFINE d == DrainReadySignals(sealed, ready)
      <4>3. Sound(d, ToSet(<<>>), accepted, told)
        <5>1. ToSet(<<>>) = {}
          BY DEF ToSet
        <5> QED BY <2>0, <4>2, <5>1, Drained
      <4>4. Callback(d, <<>>) /\ <<>> \in Seq(Events) /\ Len(<<>>) =< MaxBuffer
        BY <3>1, <3>4
      <4> HIDE DEF d
      <4> QED BY <2>0, <3>1, <4>3, <4>4, Stepping
    <3> QED BY <3>3, <3>4
  <2>4. ASSUME NEW e \in Events, NEW ok \in BOOLEAN, ActivityEnds(e, ok) PROVE IInv'
    <3> DEFINE how == IF ok THEN "completed" ELSE IF run.canceled THEN "canceled" ELSE "failed"
               r == [run EXCEPT !.activity[e] = how,
                                !.linking = IF e \in Parented /\ ~run.canceled
                                            THEN @ \cup {e} ELSE @]
    <3>1. /\ Callback(r, ready) /\ UNCHANGED <<accepted, told, seals>>
          /\ run.activity[e] = "running"
      BY <2>4 DEF ActivityEnds, InFlight
    <3>2. /\ r \in Run
          /\ r.seen = run.seen /\ r.failed = run.failed /\ r.canceled = run.canceled
          /\ r.sealed = run.sealed /\ r.expected = run.expected /\ r.starts = run.starts
          /\ r.linking = IF e \in Parented /\ ~run.canceled
                         THEN run.linking \cup {e} ELSE run.linking
          /\ \A x \in Events : r.activity[x] = IF x = e THEN how ELSE run.activity[x]
      BY <2>0 DEF Sound, Started, Run, Activity
    <3>3. how \in {"completed", "failed", "canceled"} /\ (how = "canceled" => run.canceled)
          /\ (~run.canceled => how \in Ended)
      BY DEF Ended
    <3> HIDE DEF r, how
    <3>4. Started(r)
      BY <2>0, <3>1, <3>2, <3>3 DEF Sound, Started
    <3>5. r.linking \subseteq Parented /\ \A x \in r.linking : r.activity[x] \in Ended
      BY <2>0, <3>1, <3>2, <3>3 DEF Sound, Ended
    <3>6. ~r.failed => Owing(r, ToSet(ready), accepted, told)
      <4> SUFFICES ASSUME ~run.failed PROVE Owing(r, ToSet(ready), accepted, told)
        BY <3>2
      <4>1. ~run.canceled /\ Owing(run, ToSet(ready), accepted, told)
        BY <2>0 DEF Sound
      <4>2. \A x \in Parented : r.activity[x] \in Ended =>
                x \in r.linking \/ told[x] = r.activity[x]
        BY <3>2, <4>1 DEF Owing
      <4> QED BY <3>2, <4>1, <4>2 DEF Owing
    <3>7. Sound(r, ToSet(ready), accepted, told)
      BY <2>0, <3>2, <3>4, <3>5, <3>6 DEF Sound
    <3> QED BY <2>0, <3>1, <3>7, Stepping
  <2>5. ASSUME NEW e \in Events, LinkDelivered(e) PROVE IInv'
    <3> DEFINE r == [run EXCEPT !.linking = @ \ {e}]
    <3>1. /\ Callback(r, ready) /\ UNCHANGED <<accepted, seals>>
          /\ e \in run.linking /\ told' = [told EXCEPT ![e] = run.activity[e]]
      BY <2>5 DEF LinkDelivered
    <3>2. /\ r \in Run
          /\ r.seen = run.seen /\ r.failed = run.failed /\ r.canceled = run.canceled
          /\ r.sealed = run.sealed /\ r.expected = run.expected /\ r.starts = run.starts
          /\ r.linking = run.linking \ {e} /\ r.activity = run.activity
      BY <2>0 DEF Sound, Started, Run
    <3> HIDE DEF r
    <3>3. run.activity[e] \in Ended
      BY <2>0, <3>1 DEF Sound
    <3>4. told' \in [Events -> {"none"} \cup Ended]
      BY <2>0, <3>1, <3>3
    <3>5. Sound(r, ToSet(ready), accepted, told')
      <4>1. Started(r)
        BY <2>0, <3>2 DEF Sound, Started
      <4>2. ~r.failed => Owing(r, ToSet(ready), accepted, told')
        BY <2>0, <3>1, <3>2 DEF Sound, Owing
      <4> QED BY <2>0, <3>2, <4>1, <4>2 DEF Sound
    <3> QED BY <2>0, <3>1, <3>4, <3>5, Stepping
  <2>6. ASSUME NEW e \in Events, LinkFails(e) PROVE IInv'
    <3> DEFINE r == Fail([run EXCEPT !.linking = @ \ {e}])
    <3>1. Callback(r, ready) /\ UNCHANGED <<accepted, told, seals>>
      BY <2>6 DEF LinkFails
    <3>2. Sound(r, ToSet(ready), accepted, told)
      BY <2>0 DEF Sound, Started, Run, Fail
    <3> HIDE DEF r
    <3> QED BY <2>0, <3>1, <3>2, Stepping
  <2>7. CASE Cancel
    <3> DEFINE r == [run EXCEPT !.failed = TRUE, !.canceled = TRUE]
    <3>1. Callback(r, ready) /\ UNCHANGED <<accepted, told, seals>>
      BY <2>7 DEF Cancel
    <3>2. Sound(r, ToSet(ready), accepted, told)
      BY <2>0 DEF Sound, Started, Run
    <3> HIDE DEF r
    <3> QED BY <2>0, <3>1, <3>2, Stepping
  <2>8. CASE UNCHANGED vars
    BY <2>8 DEF vars, TypeOK
  <2> QED BY <2>1, <2>2, <2>3, <2>4, <2>5, <2>6, <2>7, <2>8 DEF Next
<1> QED BY <1>1, <1>2, PTL DEF Spec

-----------------------------------------------------------------------------
\* The run, its signals and its links are well typed, and it never sees more
\* events than its limit.
THEOREM TypeCorrect == Spec => []TypeOK
  BY Invariance, PTL DEF IInv

\* However often schedule is called for an event, by a signal, by a drain before
\* the return or by a drain at the seal, one Activity is started for it.
THEOREM OneActivity == Spec => []OneActivityPerEvent
<1>1. IInv => OneActivityPerEvent
  BY DEF IInv, Sound, Started, OneActivityPerEvent
<1> QED BY <1>1, Invariance, PTL

\* A run that returns, completed, failed or canceled, leaves no Activity behind.
NoneLeftRunning == status # "open" => InFlight(run) = {}

THEOREM NoActivityOutlivesItsRun == Spec => []NoneLeftRunning
  BY Invariance, PTL DEF IInv, NoneLeftRunning

\* A sealed run that returns completed has done the sealed set, no more and no
\* less: late events fail it, missing ones keep it open.
THEOREM SealedRunDoesTheSeal == Spec => []SealHonoured
<1>1. IInv => SealHonoured
  <2> SUFFICES ASSUME IInv, status = "completed", run.sealed, NEW e \in Events
               PROVE  (e \in run.expected) <=> (run.activity[e] = "completed")
    BY DEF SealHonoured
  <2>1. Settled(run, ready) /\ Started(run) /\ ~run.canceled /\ run.seen \subseteq run.expected
    BY DEF IInv, Sound, Owing, Settled
  <2>2. run.activity[e] \in {"none", "completed"}
    <3>1. run.activity[e] \in Activity
      BY <2>1 DEF Started, Run
    <3> QED BY <2>1, <3>1 DEF Settled, Started, Idle, InFlight, Activity
  <2> QED BY <2>1, <2>2 DEF Settled, Started, ReceivedExpectedEvents
<1> QED BY <1>1, Invariance, PTL

\* A run that returns completed has read every signal Temporal accepted for it,
\* those accepted between its last callback and its return included.
THEOREM EverySignalRead == Spec => []NothingUnread
<1>1. IInv => NothingUnread
  <2>1. ToSet(<<>>) = {}
    BY DEF ToSet
  <2> QED BY <2>1 DEF IInv, Sound, Owing, Settled, NothingUnread
<1> QED BY <1>1, Invariance, PTL

\* A run that returns completed has told the parent of each event how it ended.
THEOREM EveryParentTold == Spec => []ParentTold
<1>1. IInv => ParentTold
  <2> SUFFICES ASSUME IInv, status = "completed", NEW e \in run.seen \cap Parented
               PROVE  told[e] = "completed"
    BY DEF ParentTold
  <2>1. /\ Settled(run, ready) /\ Started(run) /\ ~run.canceled
        /\ Owing(run, ToSet(ready), accepted, told)
    BY DEF IInv, Sound, Settled
  <2>2. run.activity[e] = "completed"
    <3>1. e \in Events /\ run.activity[e] \in Activity
      BY <2>1, OrchestrationConstants DEF Started, Run
    <3> QED BY <2>1, <3>1 DEF Settled, Started, Idle, InFlight, Activity
  <2> QED BY <2>1, <2>2 DEF Owing, Settled, Idle, Ended
<1> QED BY <1>1, Invariance, PTL

=============================================================================
