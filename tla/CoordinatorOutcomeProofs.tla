----------------------- MODULE CoordinatorOutcomeProofs -----------------------
(***************************************************************************)
(* An outcome is acknowledged by a session that said so, for any number of  *)
(* sessions, reconciler passes and late attempts.                           *)
(***************************************************************************)
EXTENDS CoordinatorOutcome, FiniteSetTheorems, WellFoundedInduction, TLAPS

\* Only what a session said is read, tried and written late.
SignalsSaid == \A n \in DOMAIN signals : signals[n] \in said
FenceSaid   == At("acknowledge") => run.fence \in said
LateSaid    == \A w \in late : w[1] = "acknowledged" => w[2] \in said

IInv ==
    /\ TypeOK
    /\ IsFiniteSet(late)
    /\ SignalsSaid
    /\ FenceSaid
    /\ LateSaid
    /\ AcknowledgedBySession
    /\ CompletedIsDurable

\* How often f is in s.
Count(s, f) == Cardinality({n \in DOMAIN s : s[n] = f})

-----------------------------------------------------------------------------
\* The index of the first acknowledgement that names the fence is one of the
\* unread signals, or 0.
LEMMA Matched ==
    ASSUME signals \in Seq(Sessions)
    PROVE  /\ Matching \in 0..Len(signals)
           /\ Matching # 0 => signals[Matching] = run.fence
<1> DEFINE Named == {n \in 1..Len(signals) : signals[n] = run.fence}
           Less  == {p \in Nat \X Nat : p[1] < p[2]}
<1>1. Matching = IF Named # {} THEN Min(Named) ELSE 0
  BY Zenon DEF Matching, SelectInSeq
<1>2. CASE Named = {}
  BY <1>1, <1>2
<1>3. CASE Named # {}
  <2>1. IsWellFoundedOn(Less, Nat)
    BY Zenon, NatLessThanWellFounded DEF OpToRel
  <2>2. Named \subseteq Nat
    OBVIOUS
  <2>3. \E x \in Named : \A y \in Named : ~ (<<y, x>> \in Less)
    <3> HIDE DEF Less, Named
    <3> QED BY <1>3, <2>1, <2>2, WFMin, Zenon
  <2>4. \A x, y \in Nat : ~ (<<y, x>> \in Less) => x =< y
    OBVIOUS
  <2>5. PICK x \in Named : \A y \in Named : x =< y
    BY <2>2, <2>3, <2>4
  <2>6. Min(Named) \in Named
    <3> HIDE DEF Named
    <3> QED BY <2>5 DEF Min
  <2> QED BY <1>1, <1>3, <2>6
<1> QED BY <1>2, <1>3

\* Counting in a sequence that grows by one, and in what is left of one.
LEMMA Counting ==
    ASSUME NEW s \in Seq(Sessions), NEW g \in Sessions
    PROVE  /\ Count(s, g) \in Nat
           /\ Count(<<>>, g) = 0
           /\ \A f \in Sessions :
                  Count(Append(s, f), g) =< IF f = g THEN Count(s, g) + 1 ELSE Count(s, g)
           /\ \A n \in 0..Len(s) :
                  Count(SubSeq(s, n + 1, Len(s)), g) =< Count(s, g)
<1> DEFINE At1(t) == {n \in DOMAIN t : t[n] = g}
<1>1. IsFiniteSet(At1(s)) /\ Count(s, g) \in Nat
  <2>1. IsFiniteSet(1..Len(s))
    BY FS_Interval
  <2>2. At1(s) \in SUBSET (1..Len(s))
    OBVIOUS
  <2> QED BY <2>1, <2>2, FS_Subset, FS_CardinalityType, Zenon DEF Count
<1>2. Count(<<>>, g) = 0
  <2>1. At1(<<>>) = {}
    OBVIOUS
  <2> QED BY <2>1, FS_EmptySet, Zenon DEF Count
<1>3. \A t \in Seq(Sessions) : Count(t, g) = Cardinality(At1(t))
  BY Zenon DEF Count
<1>4. ASSUME NEW f \in Sessions
      PROVE  Count(Append(s, f), g) =< IF f = g THEN Count(s, g) + 1 ELSE Count(s, g)
  <2>1. CASE f = g
    <3>1. At1(Append(s, f)) = At1(s) \cup {Len(s) + 1}
      BY <2>1
    <3>2. Cardinality(At1(s) \cup {Len(s) + 1}) = Cardinality(At1(s)) + 1
      <4>1. Len(s) + 1 \notin At1(s)
        OBVIOUS
      <4> HIDE DEF At1
      <4> QED BY <1>1, <4>1, FS_AddElement, Zenon
    <3>3. Count(Append(s, f), g) = Count(s, g) + 1
      <4>1. Append(s, f) \in Seq(Sessions)
        OBVIOUS
      <4> HIDE DEF At1
      <4> QED BY <3>1, <3>2, <4>1, <1>3, Zenon
    <3> QED BY <1>1, <2>1, <3>3
  <2>2. CASE f # g
    <3>1. At1(Append(s, f)) = At1(s)
      BY <2>2
    <3>2. Count(Append(s, f), g) = Count(s, g)
      <4>1. Append(s, f) \in Seq(Sessions)
        OBVIOUS
      <4> HIDE DEF At1
      <4> QED BY <3>1, <4>1, <1>3, Zenon
    <3> QED BY <1>1, <2>2, <3>2
  <2> QED BY <2>1, <2>2
<1>5. ASSUME NEW n \in 0..Len(s)
      PROVE  Count(SubSeq(s, n + 1, Len(s)), g) =< Count(s, g)
  <2> DEFINE rest == SubSeq(s, n + 1, Len(s))
             shift == [m \in At1(rest) |-> m + n]
  <2>1. \A m \in DOMAIN rest : m + n \in DOMAIN s /\ rest[m] = s[m + n]
    OBVIOUS
  <2>2. DOMAIN rest \subseteq Nat
    OBVIOUS
  <2>3. shift \in Injection(At1(rest), At1(s))
    <3>1. shift \in [At1(rest) -> At1(s)]
      <4> HIDE DEF rest
      <4> QED BY <2>1
    <3>2. \A x, y \in At1(rest) : shift[x] = shift[y] => x = y
      <4> HIDE DEF rest
      <4> QED BY <2>2
    <3> QED BY <3>1, <3>2, Zenon DEF Injection, IsInjective
  <2>4. Cardinality(At1(rest)) =< Cardinality(At1(s))
    <3> HIDE DEF At1, shift
    <3> QED BY <1>1, <2>3, FS_Injection, Zenon
  <2> QED BY <2>4 DEF Count
<1> QED BY <1>1, <1>2, <1>4, <1>5

\* What is left unread is no more than was unread, and of the same sessions.
LEMMA Unreading ==
    ASSUME TypeOK, SignalsSaid,
           \/ UNCHANGED signals
           \/ signals' = <<>>
           \/ signals' = Read(Matching)
    PROVE  /\ signals' \in Seq(Sessions)
           /\ \A f \in Sessions : Unread(f)' <= MaxSignals
           /\ \A n \in DOMAIN signals' : signals'[n] \in said
<1>1. \A f \in Sessions : Unread(f) = Count(signals, f) /\ Unread(f)' = Count(signals', f)
  BY Zenon DEF Unread, Count
<1>2. signals \in Seq(Sessions) /\ \A f \in Sessions : Unread(f) <= MaxSignals
  BY DEF TypeOK
<1>3. MaxSignals \in Nat \ {0}
  BY OutcomeConstants
<1>4. CASE UNCHANGED signals
  BY <1>1, <1>2, <1>4 DEF SignalsSaid
<1>5. CASE signals' = <<>>
  <2>1. \A f \in Sessions : Count(signals', f) = 0
    BY <1>2, <1>5, Counting
  <2> QED BY <1>1, <1>3, <1>5, <2>1
<1>6. CASE signals' = Read(Matching)
  <2>1. Matching \in 0..Len(signals)
    BY <1>2, Matched
  <2>2. signals' = SubSeq(signals, Matching + 1, Len(signals))
    BY <1>6 DEF Read
  <2>3. \A f \in Sessions : Count(signals, f) \in Nat /\ Count(signals', f) =< Count(signals, f)
    BY <1>2, <2>1, <2>2, Counting
  <2>4. signals' \in Seq(Sessions)
    BY <1>2, <2>1, <2>2
  <2>5. \A f \in Sessions : Count(signals', f) \in Nat
    BY <2>4, Counting
  <2>6. \A n \in DOMAIN signals' : signals'[n] \in said
    <3> TAKE n \in DOMAIN signals'
    <3>1. signals'[n] = signals[n + Matching] /\ n + Matching \in DOMAIN signals
      BY <1>2, <2>1, <2>2
    <3> QED BY <3>1 DEF SignalsSaid
  <2>7. ASSUME NEW f \in Sessions PROVE Unread(f)' <= MaxSignals
    <3>1. Unread(f)' = Count(signals', f) /\ Unread(f) = Count(signals, f)
      BY <1>1
    <3>2. Unread(f) <= MaxSignals
      BY <1>2
    <3>3. /\ Count(signals, f) \in Nat /\ Count(signals', f) \in Nat
          /\ Count(signals', f) =< Count(signals, f)
      BY <2>3, <2>5
    <3> QED BY <1>3, <3>1, <3>2, <3>3
  <2> QED BY <2>4, <2>6, <2>7
<1> QED BY <1>4, <1>5, <1>6

\* An attempt that lives on is one more of at most MaxLate.
LEMMA Orphaned ==
    ASSUME TypeOK, IsFiniteSet(late), LateSaid,
           NEW op \in {"delivered", "acknowledged"}, NEW f \in Fence,
           op = "acknowledged" => f = NoFence \/ f \in said,
           Orphan(op, f)
    PROVE  /\ late' \subseteq {"delivered", "acknowledged"} \X Sessions
           /\ IsFiniteSet(late')
           /\ Cardinality(late') <= MaxLate
           /\ \A w \in late' : w[1] = "acknowledged" => w[2] \in said
<1>1. CASE late' = late
  BY <1>1 DEF TypeOK, LateSaid
<1>2. CASE /\ f # NoFence /\ ~ (Cardinality(late) >= MaxLate)
           /\ late' = late \cup {<<op, f>>}
  <2>1. f \in Sessions
    BY <1>2 DEF Fence
  <2>2. Cardinality(late) \in Nat /\ MaxLate \in Nat
    BY FS_CardinalityType, OutcomeConstants
  <2>3. /\ IsFiniteSet(late \cup {<<op, f>>})
        /\ Cardinality(late \cup {<<op, f>>}) =< Cardinality(late) + 1
    <3>1. /\ IsFiniteSet(late \cup {<<op, f>>})
          /\ \/ Cardinality(late \cup {<<op, f>>}) = Cardinality(late)
             \/ Cardinality(late \cup {<<op, f>>}) = Cardinality(late) + 1
      BY FS_AddElement, Zenon
    <3> QED BY <2>2, <3>1
  <2>4. Cardinality(late') <= MaxLate
    <3>1. Cardinality(late') =< Cardinality(late) + 1 /\ Cardinality(late') \in Nat
      BY <1>2, <2>3, FS_CardinalityType, Zenon
    <3> QED BY <1>2, <2>2, <3>1
  <2>5. late' \subseteq {"delivered", "acknowledged"} \X Sessions
    BY <1>2, <2>1 DEF TypeOK
  <2>6. \A w \in late' : w[1] = "acknowledged" => w[2] \in said
    BY <1>2, <2>1 DEF LateSaid, NoFence, Sessions
  <2> QED BY <1>2, <2>3, <2>4, <2>5, <2>6
<1> QED BY <1>1, <1>2 DEF Orphan

-----------------------------------------------------------------------------
\* IInv holds at first and is kept by every step.
THEOREM Invariance == Spec => []IInv
<1> USE OutcomeConstants
<1>1. Init => IInv
  <2> SUFFICES ASSUME Init PROVE IInv
    OBVIOUS
  <2>1. /\ signals \in Seq(Sessions)
        /\ \A f \in Sessions : Unread(f) <= MaxSignals
    <3>1. signals = <<>> /\ signals \in Seq(Sessions)
      BY DEF Init
    <3>2. \A f \in Sessions : Unread(f) = Count(signals, f)
      BY Zenon DEF Unread, Count
    <3>3. \A f \in Sessions : Count(signals, f) = 0
      BY <3>1, Counting
    <3> QED BY <3>1, <3>2, <3>3
  <2>2. IsFiniteSet(late) /\ Cardinality(late) <= MaxLate
    BY FS_EmptySet DEF Init
  <2>3. TypeOK
    BY <2>1, <2>2 DEF TypeOK, Init, Store, Run, NotStarted, Sessions, Fence, NoFence
  <2> QED BY <2>2, <2>3 DEF IInv, Init, SignalsSaid, FenceSaid, LateSaid, At, NotStarted,
                            AcknowledgedBySession, CompletedIsDurable
<1>2. IInv /\ [Next]_vars => IInv'
  <2> SUFFICES ASSUME IInv, [Next]_vars PROVE IInv'
    OBVIOUS
  <2> USE DEF IInv
  <2>0. ASSUME \/ UNCHANGED signals
               \/ signals' = <<>>
               \/ signals' = Read(Matching),
               said' = said
        PROVE  /\ signals' \in Seq(Sessions)
               /\ \A f \in Sessions : Unread(f)' <= MaxSignals
               /\ SignalsSaid'
    BY <2>0, Unreading DEF SignalsSaid
  <2>1. ASSUME NEW r \in Reconcilers, PendingOutcomes(r) PROVE IInv'
    BY <2>0, <2>1 DEF PendingOutcomes, TypeOK, FenceSaid, LateSaid, At,
                      AcknowledgedBySession, CompletedIsDurable
  <2>2. ASSUME NEW r \in Reconcilers, OutcomeWorkflowRunning(r) PROVE IInv'
    BY <2>0, <2>2 DEF OutcomeWorkflowRunning, TypeOK, FenceSaid, LateSaid, At,
                      AcknowledgedBySession, CompletedIsDurable
  <2>3. ASSUME NEW r \in Reconcilers, SignalWithStartOutcome(r) PROVE IInv'
    <3>1. Started \in Run /\ Started.step = "deliver" /\ Started.status = "running"
      <4>1. 1 \in 0..ContinueAsNewAfter /\ NoFence \in Fence
        BY DEF Fence
      <4>2. NotStarted \in Run /\ NotStarted.step = "deliver"
        BY DEF NotStarted, Run, Fence
      <4> QED BY <4>1, <4>2 DEF Started, Run
    <3> HIDE DEF Started
    <3> QED BY <2>0, <2>3, <3>1
            DEF SignalWithStartOutcome, TypeOK, FenceSaid, LateSaid, At,
                AcknowledgedBySession, CompletedIsDurable
  <2>4. CASE Restart
    BY <2>0, <2>4 DEF Restart, TypeOK, FenceSaid, LateSaid, At, Sessions,
                      AcknowledgedBySession, CompletedIsDurable
  <2>5. CASE Supersede
    BY <2>0, <2>5 DEF Supersede, TypeOK, FenceSaid, LateSaid, At, Store, Fence,
                      AcknowledgedBySession, CompletedIsDurable
  <2>6. ASSUME NEW f \in Sessions, SignalAcknowledged(f) PROVE IInv'
    <3>1. signals' = Append(signals, f) /\ signals' \in Seq(Sessions)
      BY <2>6 DEF SignalAcknowledged, TypeOK
    <3>2. ASSUME NEW g \in Sessions PROVE Unread(g)' <= MaxSignals
      <4>1. Unread(g) = Count(signals, g) /\ Unread(g)' = Count(signals', g)
        BY Zenon DEF Unread, Count
      <4>2. /\ Count(signals, g) \in Nat /\ Count(signals', g) \in Nat
            /\ Count(signals', g) =< IF f = g THEN Count(signals, g) + 1
                                              ELSE Count(signals, g)
        BY <3>1, Counting DEF TypeOK
      <4>3. Unread(g) <= MaxSignals /\ (f = g => Unread(g) < MaxSignals)
        BY <2>6 DEF TypeOK, SignalAcknowledged
      <4> QED BY <4>1, <4>2, <4>3
    <3>3. said' \subseteq notified' /\ said \subseteq said' /\ f \in said'
      BY <2>6 DEF SignalAcknowledged, TypeOK
    <3>4. SignalsSaid'
      BY <3>1, <3>3 DEF SignalsSaid, TypeOK
    <3> QED BY <2>6, <3>1, <3>2, <3>3, <3>4
            DEF SignalAcknowledged, TypeOK, FenceSaid, LateSaid, At,
                AcknowledgedBySession, CompletedIsDurable
  <2>7. CASE Notify
    BY <2>0, <2>7 DEF Notify, TypeOK, FenceSaid, LateSaid, At, Run, Fence,
                      AcknowledgedBySession, CompletedIsDurable
  <2>8. CASE RecordDelivery
    BY <2>0, <2>8 DEF RecordDelivery, MarkOutcomeDelivered, Unacknowledged, TypeOK,
                      FenceSaid, LateSaid, At, Run, Store, Fence, NoFence,
                      AcknowledgedBySession, CompletedIsDurable
  <2>9. CASE RecordAcknowledgement
    BY <2>0, <2>9 DEF RecordAcknowledgement, MayAcknowledge, MarkOutcomeAcknowledged,
                      TypeOK, FenceSaid, LateSaid, At, Run, Store,
                      AcknowledgedBySession, CompletedIsDurable
  <2>10. CASE DeliveryFails
    <3>1. /\ late' \subseteq {"delivered", "acknowledged"} \X Sessions
          /\ IsFiniteSet(late')
          /\ Cardinality(late') <= MaxLate
          /\ \A w \in late' : w[1] = "acknowledged" => w[2] \in said
      BY <2>10, Orphaned DEF DeliveryFails, TypeOK, Run
    <3> QED BY <2>0, <2>10, <3>1
            DEF DeliveryFails, TypeOK, FenceSaid, LateSaid, At, Run, Fence, NoFence,
                AcknowledgedBySession, CompletedIsDurable
  <2>11. ASSUME Matching # 0, signals \in Seq(Sessions)
         PROVE  run.fence \in said
    BY <2>11, Matched DEF SignalsSaid
  <2>12. CASE ReceiveAcknowledgement
    BY <2>0, <2>11, <2>12
       DEF ReceiveAcknowledgement, TypeOK, FenceSaid, LateSaid, At, Run,
           AcknowledgedBySession, CompletedIsDurable
  <2>13. CASE RedeliveryTimer
    <3>1. run' \in Run
      <4>1. run \in Run
        BY DEF TypeOK
      <4>2. run.attempts \in 0..ContinueAsNewAfter
        BY <4>1 DEF Run
      <4>3. 0 \in 0..ContinueAsNewAfter /\
            (~ (run.attempts >= ContinueAsNewAfter) =>
                 run.attempts + 1 \in 0..ContinueAsNewAfter)
        BY <4>2
      <4> QED BY <2>13, <4>1, <4>3 DEF RedeliveryTimer, NextDelivery, Run
    <3>2. run'.step = "acknowledge" => run'.fence \in said
      BY <2>11, <2>13 DEF RedeliveryTimer, NextDelivery, At, TypeOK, Run
    <3>3. run'.status = run.status
      BY <2>13 DEF RedeliveryTimer, NextDelivery, TypeOK, Run
    <3>4. /\ UNCHANGED <<store, session, notified, said, late, pass>>
          /\ signals' = <<>> \/ signals' = Read(Matching)
      BY <2>13 DEF RedeliveryTimer, NextDelivery
    <3> QED BY <2>0, <3>1, <3>2, <3>3, <3>4
            DEF TypeOK, FenceSaid, LateSaid, At, AcknowledgedBySession, CompletedIsDurable
  <2>14. CASE AcknowledgementFails
    <3>1. /\ late' \subseteq {"delivered", "acknowledged"} \X Sessions
          /\ IsFiniteSet(late')
          /\ Cardinality(late') <= MaxLate
          /\ \A w \in late' : w[1] = "acknowledged" => w[2] \in said
      BY <2>14, Orphaned DEF AcknowledgementFails, TypeOK, Run, FenceSaid
    <3>2. /\ run' \in Run
          /\ run'.status = run.status /\ run'.step # "acknowledge"
      <4>1. 1 \in 0..ContinueAsNewAfter /\ run \in Run
        BY DEF TypeOK
      <4> QED BY <2>14, <4>1 DEF AcknowledgementFails, Run
    <3>3. UNCHANGED <<store, session, notified, said, signals, pass>>
      BY <2>14 DEF AcknowledgementFails
    <3> QED BY <2>0, <3>1, <3>2, <3>3
            DEF TypeOK, FenceSaid, LateSaid, At, AcknowledgedBySession, CompletedIsDurable
  <2>15. CASE Wake
    <3>1. run' \in Run
      <4>1. run \in Run
        BY DEF TypeOK
      <4>2. run.attempts \in 0..ContinueAsNewAfter
        BY <4>1 DEF Run
      <4>3. 0 \in 0..ContinueAsNewAfter /\
            (~ (run.attempts >= ContinueAsNewAfter) =>
                 run.attempts + 1 \in 0..ContinueAsNewAfter)
        BY <4>2
      <4> QED BY <2>15, <4>1, <4>3 DEF Wake, NextDelivery, Run
    <3>2. run'.step # "acknowledge" /\ run'.status = run.status
      BY <2>15 DEF Wake, NextDelivery, TypeOK, Run
    <3>3. /\ UNCHANGED <<store, session, notified, said, late, pass>>
          /\ UNCHANGED signals \/ signals' = <<>>
      BY <2>15 DEF Wake, NextDelivery
    <3> QED BY <2>0, <3>1, <3>2, <3>3
            DEF TypeOK, FenceSaid, LateSaid, At, AcknowledgedBySession, CompletedIsDurable
  <2>16. CASE Resume
    <3>1. run' \in Run /\ run'.status = run.status
      <4>1. run \in Run /\ 1 \in 0..ContinueAsNewAfter
        BY DEF TypeOK
      <4> QED BY <2>16, <4>1 DEF Resume, Run
    <3>2. run'.step = "acknowledge" => run'.fence \in said
      BY <2>11, <2>16 DEF Resume, At, TypeOK, Run
    <3>3. /\ UNCHANGED <<store, session, notified, said, late, pass>>
          /\ signals' = <<>> \/ signals' = Read(Matching)
      BY <2>16 DEF Resume
    <3> QED BY <2>0, <3>1, <3>2, <3>3
            DEF TypeOK, FenceSaid, LateSaid, At, AcknowledgedBySession, CompletedIsDurable
  <2>17. ASSUME NEW w \in {"delivered", "acknowledged"} \X Sessions, LateWrite(w)
         PROVE  IInv'
    <3>1. /\ IsFiniteSet(late') /\ late' \subseteq late
          /\ Cardinality(late') <= MaxLate
      <4>1. late' = late \ {w} /\ w \in late
        BY <2>17 DEF LateWrite
      <4>2. IsFiniteSet(late \ {w}) /\ Cardinality(late \ {w}) = Cardinality(late) - 1
        BY <4>1, FS_RemoveElement, Zenon
      <4>3. Cardinality(late) \in Nat
        BY FS_CardinalityType
      <4> QED BY <4>1, <4>2, <4>3 DEF TypeOK
    <3>2. w[2] \in Sessions /\ (w[1] = "acknowledged" => w[2] \in said)
      BY <2>17 DEF LateWrite, LateSaid
    <3>3. UNCHANGED <<session, notified, said, run, signals, pass>>
      BY <2>17 DEF LateWrite
    <3>4. /\ store' \in Store
          /\ store'.state = "acknowledged" => store'.fence \in said
          /\ store.state \in {"acknowledged", "superseded"} => store'.state = store.state
      BY <2>17, <3>2 DEF LateWrite, MarkOutcomeDelivered, Unacknowledged, MayAcknowledge,
                         MarkOutcomeAcknowledged, TypeOK, Store, Fence,
                         AcknowledgedBySession
    <3> QED BY <2>0, <3>1, <3>3, <3>4
            DEF TypeOK, FenceSaid, LateSaid, At, AcknowledgedBySession, CompletedIsDurable
  <2>18. CASE UNCHANGED vars
    BY <2>0, <2>18 DEF vars, TypeOK, FenceSaid, LateSaid, At, Unread,
                       AcknowledgedBySession, CompletedIsDurable
  <2> QED BY <2>1, <2>2, <2>3, <2>4, <2>5, <2>6, <2>7, <2>8, <2>9, <2>10, <2>12, <2>13,
             <2>14, <2>15, <2>16, <2>17, <2>18 DEF Next, Cycle
<1> QED BY <1>1, <1>2, PTL DEF Spec

-----------------------------------------------------------------------------
\* The types are those the code declares, and the bounds are kept.
THEOREM TypeCorrect == Spec => []TypeOK
  BY Invariance, PTL DEF IInv

\* The outcome is acknowledged under the fence of a session that was handed it
\* and said so, whichever attempts wrote to the store, and in whichever order.
THEOREM SaidBeforeAcknowledged == Spec => []AcknowledgedBySession
  BY Invariance, PTL DEF IInv

\* A Workflow that completed leaves an outcome that stays acknowledged, also when
\* late attempts of its own Activities still run.
THEOREM CompletionStands == Spec => []CompletedIsDurable
  BY Invariance, PTL DEF IInv
=============================================================================
