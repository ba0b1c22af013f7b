----------------------------- MODULE Energy_proofs -----------------------------
(***************************************************************************)
(* Proofs about Energy, for any battery, any models of the current, any    *)
(* interval of the source's updates and any length of a run.               *)
(***************************************************************************)
EXTENDS Energy, TLAPS

TxCurrents == {ConstantCurrent} \union {LinearCurrent(p) : p \in TxPowers}

\* A device in the middle of a change of state, where changes may be pending.
Changing ==
  [phy: States, state: States, txCurrent: TxCurrents,
   total: Nat, lastUpdate: 0 .. MaxTime, pending: Nat, superseded: BOOLEAN,
   remaining: Int, drainedAt: 0 .. MaxTime, due: Nat, depleted: BOOLEAN, aborted: BOOLEAN]

\* The charge of the current state since the last change, and since the source
\* was last drained; and what this makes the device spend and leaves the source.
SinceChange(d) == (now - d.lastUpdate) * DoGetCurrentA(d, d.state)
SinceDrain(d) == (now - d.drainedAt) * DoGetCurrentA(d, d.state)

Spent(d) == d.total + SinceChange(d)
Left(d) == d.remaining - SinceDrain(d)

\* The parts of the inductive invariant, of a device d.
Settled(d) == d.pending = 0 /\ ~d.superseded
InTime(d) == d.lastUpdate <= now /\ d.drainedAt <= now
Exact(d) == Spent(d) = used /\ Left(d) = Capacity - used

Good(d) ==
  /\ d \in Changing /\ Settled(d) /\ InTime(d)
  /\ ~d.aborted => d.state = d.phy /\ Exact(d)

IInv ==
  /\ now \in 0 .. MaxTime /\ used \in Nat
  /\ onDepletion \in Callbacks /\ txModel \in TxModels
  /\ mac \in {"idle", "sending", "sent", "window", "receiving", "received"}
  /\ Good(dev)

\* The context of a step.
Context ==
  /\ now \in 0 .. MaxTime /\ used \in Nat
  /\ onDepletion \in Callbacks /\ txModel \in TxModels

-----------------------------------------------------------------------------
(* Arithmetic the provers want in small pieces. *)

LEMMA NatProduct == ASSUME NEW m \in Nat, NEW n \in Nat PROVE m * n \in Nat
OBVIOUS

LEMMA ZeroTimes == ASSUME NEW n \in Int PROVE 0 * n = 0
OBVIOUS

LEMMA OneMore ==
  ASSUME NEW t \in Int, NEW u \in Int, NEW c \in Int PROVE ((t + 1) - u) * c = (t - u) * c + c
OBVIOUS

LEMMA CurrentIsNat ==
  ASSUME NEW d \in Changing, NEW s \in States PROVE DoGetCurrentA(d, s) \in Nat
<1>1. d.txCurrent \in Nat  BY DEF Changing, TxCurrents, ConstantCurrent, LinearCurrent
<1> QED  BY <1>1 DEF DoGetCurrentA, States

\* Nothing has been used since now.
LEMMA NothingSinceNow ==
  ASSUME NEW d \in Changing, Context
  PROVE  /\ d.lastUpdate = now => SinceChange(d) = 0
         /\ d.drainedAt = now => SinceDrain(d) = 0
<1>1. 0 * DoGetCurrentA(d, d.state) = 0  BY CurrentIsNat, ZeroTimes DEF Changing
<1>2. now - now = 0  BY DEF Context
<1> QED  BY <1>1, <1>2 DEF SinceChange, SinceDrain

-----------------------------------------------------------------------------
(* The two halves of a change of state, and what comes between them. *)

LEMMA BookBooks ==
  ASSUME NEW d \in Changing, Context, InTime(d)
  PROVE  LET e == Book(d)
         IN  /\ e \in Changing /\ InTime(e)
             /\ e.total = d.total + SinceChange(d) /\ e.lastUpdate = now /\ e.pending = d.pending + 1
             /\ e.phy = d.phy /\ e.state = d.state /\ e.txCurrent = d.txCurrent
             /\ (e.superseded <=> d.superseded) /\ e.remaining = d.remaining /\ e.drainedAt = d.drainedAt
             /\ (e.aborted <=> d.aborted) /\ (e.depleted <=> d.depleted)
<1> DEFINE n == d.total + SinceChange(d)
           p == d.pending + 1
<1>1. now - d.lastUpdate \in Nat  BY DEF Context, InTime, Changing
<1>2. DoGetCurrentA(d, d.state) \in Nat  BY CurrentIsNat DEF Changing
<1>3. SinceChange(d) \in Nat  BY <1>1, <1>2, NatProduct DEF SinceChange
<1>4. n \in Nat /\ p \in Nat /\ now \in 0 .. MaxTime  BY <1>3 DEF Changing, Context
<1>5. Book(d) = [d EXCEPT !.total = n, !.lastUpdate = now, !.pending = p]
  BY DEF Book, SinceChange, Changing
<1>6. InTime([d EXCEPT !.total = n, !.lastUpdate = now, !.pending = p])
  BY DEF InTime, Context, Changing
<1> HIDE DEF n, p
<1>7. LET e == [d EXCEPT !.total = n, !.lastUpdate = now, !.pending = p]
      IN  /\ e \in Changing /\ e.total = n /\ e.lastUpdate = now /\ e.pending = p
          /\ e.phy = d.phy /\ e.state = d.state /\ e.txCurrent = d.txCurrent
          /\ (e.superseded <=> d.superseded) /\ e.remaining = d.remaining /\ e.drainedAt = d.drainedAt
          /\ (e.aborted <=> d.aborted) /\ (e.depleted <=> d.depleted)
  BY <1>4 DEF Changing
<1> QED  BY <1>5, <1>6, <1>7 DEF n, p

LEMMA DrainDrains ==
  ASSUME NEW d \in Changing, Context, EnergyAssumption, InTime(d)
  PROVE  LET e == Drain(d)
         IN  /\ e \in Changing /\ InTime(e)
             /\ e.remaining = d.remaining - SinceDrain(d) /\ e.drainedAt = now
             /\ e.phy = d.phy /\ e.state = d.state /\ e.txCurrent = d.txCurrent
             /\ (e.superseded <=> d.superseded) /\ e.pending = d.pending
             /\ e.total = d.total /\ e.lastUpdate = d.lastUpdate
             /\ (e.aborted <=> d.aborted) /\ (e.depleted <=> d.depleted)
<1> DEFINE r == d.remaining - SinceDrain(d)
           u == now + UpdateInterval
<1>1. now - d.drainedAt \in Int  BY DEF Context, Changing
<1>2. DoGetCurrentA(d, d.state) \in Int  BY CurrentIsNat DEF Changing
<1>3. SinceDrain(d) \in Int  BY <1>1, <1>2 DEF SinceDrain
<1>4. r \in Int /\ u \in Nat /\ now \in 0 .. MaxTime  BY <1>3 DEF Changing, Context, EnergyAssumption
<1>5. Drain(d) = [d EXCEPT !.remaining = r, !.drainedAt = now, !.due = u]
  BY DEF Drain, SinceDrain, Changing
<1>6. InTime([d EXCEPT !.remaining = r, !.drainedAt = now, !.due = u])
  BY DEF InTime, Context, Changing
<1> HIDE DEF r, u
<1>7. LET e == [d EXCEPT !.remaining = r, !.drainedAt = now, !.due = u]
      IN  /\ e \in Changing /\ e.remaining = r /\ e.drainedAt = now
          /\ e.phy = d.phy /\ e.state = d.state /\ e.txCurrent = d.txCurrent
          /\ (e.superseded <=> d.superseded) /\ e.pending = d.pending
          /\ e.total = d.total /\ e.lastUpdate = d.lastUpdate
          /\ (e.aborted <=> d.aborted) /\ (e.depleted <=> d.depleted)
  BY <1>4 DEF Changing
<1> QED  BY <1>5, <1>6, <1>7 DEF r, u

\* The second half of a change that is pending.
LEMMA SetStateSets ==
  ASSUME NEW d \in Changing, NEW s \in States, d.pending \in Nat \ {0}, InTime(d)
  PROVE  LET e == SetState(d, s)
         IN  /\ e \in Changing /\ InTime(e)
             /\ e.state = (IF d.superseded THEN d.state ELSE s)
             /\ e.pending = d.pending - 1 /\ (e.superseded <=> (d.pending > 1))
             /\ e.phy = d.phy /\ e.txCurrent = d.txCurrent
             /\ e.total = d.total /\ e.lastUpdate = d.lastUpdate
             /\ e.remaining = d.remaining /\ e.drainedAt = d.drainedAt
             /\ (e.aborted <=> d.aborted) /\ (e.depleted <=> d.depleted)
<1> DEFINE t == IF d.superseded THEN d.state ELSE s
           b == d.pending > 1
           p == d.pending - 1
<1>1. t \in States /\ b \in BOOLEAN /\ p \in Nat  BY DEF Changing
<1>2. SetState(d, s) = [d EXCEPT !.state = t, !.superseded = b, !.pending = p]
  BY DEF SetState, Changing
<1>3. InTime([d EXCEPT !.state = t, !.superseded = b, !.pending = p])  BY DEF InTime, Changing
<1> HIDE DEF t, b, p
<1>4. LET e == [d EXCEPT !.state = t, !.superseded = b, !.pending = p]
      IN  /\ e \in Changing /\ e.state = t /\ (e.superseded <=> b) /\ e.pending = p
          /\ e.phy = d.phy /\ e.txCurrent = d.txCurrent
          /\ e.total = d.total /\ e.lastUpdate = d.lastUpdate
          /\ e.remaining = d.remaining /\ e.drainedAt = d.drainedAt
          /\ (e.aborted <=> d.aborted) /\ (e.depleted <=> d.depleted)
  BY <1>1 DEF Changing
<1> QED  BY <1>2, <1>3, <1>4 DEF t, b, p

-----------------------------------------------------------------------------
(* The source, its callback, and a whole change of state. *)

\* A device whose books are up to date.
LEMMA UpToDate ==
  ASSUME NEW d \in Changing, Context
  PROVE  /\ d.lastUpdate = now => Spent(d) = d.total
         /\ d.drainedAt = now => Left(d) = d.remaining
<1>1. d.total \in Int /\ d.remaining \in Int  BY DEF Changing
<1> QED  BY <1>1, NothingSinceNow DEF Spent, Left

\* The callback puts a radio in standby to sleep, and supersedes the change it
\* was called from, if there is one; any other radio fails its assertion.
LEMMA SleepSleeps ==
  ASSUME NEW d \in Changing, Context, EnergyAssumption, InTime(d),
         ~d.superseded, d.pending \in 0 .. 1, d.drainedAt = now
  PROVE  LET e == SleepFromCallback(d)
         IN  /\ e \in Changing /\ InTime(e) /\ e.pending = d.pending /\ e.drainedAt = now
             /\ e.lastUpdate \in {d.lastUpdate, now}
             /\ \/ e.aborted /\ ~e.superseded
                \/ /\ e.phy = "SLEEP" /\ e.state = "SLEEP" /\ (e.superseded <=> d.pending = 1)
                   /\ Spent(e) = Spent(d) /\ Left(e) = Left(d)
<1>1. CASE d.phy # "STANDBY"
  <2>1. SleepFromCallback(d) = [d EXCEPT !.aborted = TRUE]  BY <1>1 DEF SleepFromCallback
  <2> DEFINE e == [d EXCEPT !.aborted = TRUE]
  <2>2. /\ e \in Changing /\ e.pending = d.pending /\ e.drainedAt = d.drainedAt /\ e.lastUpdate = d.lastUpdate
        /\ e.aborted /\ ~e.superseded
    BY DEF Changing
  <2>3. InTime(e)  BY <2>2 DEF InTime
  <2> QED  BY <2>1, <2>2, <2>3
<1>2. CASE d.phy = "STANDBY"
  <2> DEFINE a == [d EXCEPT !.phy = "SLEEP"]
             b == Book(a)
             c == Drain(b)
             e == SetState(c, "SLEEP")
  <2>1. SleepFromCallback(d) = e  BY <1>2 DEF SleepFromCallback
  <2>2. /\ a \in Changing /\ InTime(a) /\ a.phy = "SLEEP"
        /\ a.state = d.state /\ a.txCurrent = d.txCurrent /\ a.total = d.total /\ a.lastUpdate = d.lastUpdate
        /\ a.pending = d.pending /\ ~a.superseded /\ a.remaining = d.remaining /\ a.drainedAt = now
    BY DEF Changing, InTime, States
  <2>3. SinceChange(a) = SinceChange(d) /\ SinceDrain(a) = 0 /\ SinceDrain(d) = 0
    <3>1. DoGetCurrentA(a, a.state) = DoGetCurrentA(d, d.state)
      <4>1. a.state = d.state /\ a.txCurrent = d.txCurrent
        BY <2>2
      <4> HIDE DEF a
      <4> QED
        BY ONLY <4>1 DEF DoGetCurrentA
    <3>2. SinceChange(a) = SinceChange(d)
      BY <2>2, <3>1 DEF SinceChange
    <3> HIDE DEF a
    <3> QED
      BY <2>2, <3>2, NothingSinceNow
  <2> HIDE DEF a
  <2>4. /\ b \in Changing /\ InTime(b) /\ b.phy = "SLEEP" /\ b.total = Spent(d) /\ b.lastUpdate = now
        /\ b.pending = d.pending + 1 /\ ~b.superseded /\ b.remaining = d.remaining /\ b.drainedAt = now
    BY <2>2, <2>3, BookBooks DEF Spent
  <2>5. SinceDrain(b) = 0  BY <2>4, NothingSinceNow
  <2> HIDE DEF b
  <2>6. /\ c \in Changing /\ InTime(c) /\ c.phy = "SLEEP" /\ c.total = Spent(d) /\ c.lastUpdate = now
        /\ c.pending = d.pending + 1 /\ ~c.superseded /\ c.drainedAt = now
        /\ c.remaining = b.remaining - 0
    BY <2>4, <2>5, DrainDrains
  <2>7. c.remaining = d.remaining  BY <2>4, <2>6 DEF Changing
  <2> HIDE DEF c
  <2>8. "SLEEP" \in States /\ c.pending \in Nat \ {0} /\ (c.pending - 1 = d.pending)
        /\ (c.pending > 1 <=> d.pending = 1)
    BY <2>6 DEF States
  <2>9. /\ e \in Changing /\ InTime(e) /\ e.phy = "SLEEP" /\ e.state = "SLEEP"
        /\ e.pending = d.pending /\ (e.superseded <=> d.pending = 1)
        /\ e.total = Spent(d) /\ e.remaining = d.remaining /\ e.lastUpdate = now /\ e.drainedAt = now
    BY <2>6, <2>7, <2>8, SetStateSets
  <2> HIDE DEF e
  <2>10. Spent(e) = Spent(d) /\ Left(e) = Left(d)  BY <2>9, UpToDate
  <2> QED  BY <2>1, <2>9, <2>10
<1> QED  BY <1>1, <1>2

\* The source takes its charge, and the device is as before unless the callback
\* changed it.
LEMMA SourceUpdates ==
  ASSUME NEW d \in Changing, Context, EnergyAssumption, InTime(d), ~d.superseded, d.pending \in 0 .. 1
  PROVE  LET e == UpdateEnergySource(d)
         IN  /\ e \in Changing /\ InTime(e) /\ e.pending = d.pending /\ e.drainedAt = now
             /\ e.lastUpdate \in {d.lastUpdate, now}
             /\ \/ e.aborted /\ ~e.superseded
                \/ /\ e.phy = "SLEEP" /\ e.state = "SLEEP" /\ (e.superseded <=> d.pending = 1)
                   /\ Spent(e) = Spent(d) /\ Left(e) = Left(d)
                \/ /\ e.phy = d.phy /\ e.state = d.state /\ ~e.superseded
                   /\ Spent(e) = Spent(d) /\ Left(e) = Left(d)
<1> DEFINE c == Drain(d)
<1>1. /\ c \in Changing /\ InTime(c) /\ c.remaining = Left(d) /\ c.drainedAt = now
      /\ c.phy = d.phy /\ c.state = d.state /\ c.txCurrent = d.txCurrent
      /\ ~c.superseded /\ c.pending = d.pending /\ c.total = d.total /\ c.lastUpdate = d.lastUpdate
  BY DrainDrains DEF Left
<1>2. Left(c) = Left(d)  BY <1>1, UpToDate
<1>3. Spent(c) = Spent(d)  BY <1>1 DEF Spent, SinceChange, DoGetCurrentA
<1> HIDE DEF c
<1>4. CASE UpdateEnergySource(d) = c
  BY <1>1, <1>2, <1>3, <1>4
<1>5. CASE UpdateEnergySource(d) = HandleEnergyDepletion([c EXCEPT !.depleted = TRUE])
  <2> DEFINE b == [c EXCEPT !.depleted = TRUE]
  <2>1. /\ b \in Changing /\ InTime(b) /\ b.remaining = c.remaining /\ b.drainedAt = now
        /\ b.phy = d.phy /\ b.state = d.state /\ b.txCurrent = c.txCurrent
        /\ ~b.superseded /\ b.pending = d.pending /\ b.total = c.total /\ b.lastUpdate = d.lastUpdate
    BY <1>1 DEF Changing, InTime
  <2>2. Spent(b) = Spent(d) /\ Left(b) = Left(d)
    <3>1. DoGetCurrentA(b, b.state) = DoGetCurrentA(c, c.state)  BY <1>1, <2>1 DEF DoGetCurrentA
    <3>2. SinceChange(b) = SinceChange(c) /\ SinceDrain(b) = SinceDrain(c)
      BY <1>1, <2>1, <3>1 DEF SinceChange, SinceDrain
    <3> QED  BY <1>2, <1>3, <2>1, <3>2 DEF Spent, Left
  <2>5. UpdateEnergySource(d) = HandleEnergyDepletion(b)  BY <1>5
  <2> HIDE DEF b
  <2>3. CASE onDepletion = "sleep"
    <3>1. HandleEnergyDepletion(b) = SleepFromCallback(b)  BY <2>3 DEF HandleEnergyDepletion
    <3> DEFINE e == SleepFromCallback(b)
    <3>2. /\ e \in Changing /\ InTime(e) /\ e.pending = b.pending /\ e.drainedAt = now
          /\ e.lastUpdate \in {b.lastUpdate, now}
          /\ \/ e.aborted /\ ~e.superseded
             \/ /\ e.phy = "SLEEP" /\ e.state = "SLEEP" /\ (e.superseded <=> b.pending = 1)
                /\ Spent(e) = Spent(b) /\ Left(e) = Left(b)
      BY <2>1, SleepSleeps
    <3> HIDE DEF e
    <3> QED  BY <2>1, <2>2, <2>5, <3>1, <3>2 DEF e
  <2>4. CASE onDepletion # "sleep"
    <3>1. HandleEnergyDepletion(b) = b  BY <2>4 DEF HandleEnergyDepletion
    <3> QED  BY <2>1, <2>2, <2>5, <3>1
  <2> QED  BY <2>3, <2>4
<1> QED  BY <1>4, <1>5 DEF UpdateEnergySource, c

\* A change of state: the new state, or sleep when the source ran out within it.
LEMMA StateChanges ==
  ASSUME NEW d \in Changing, Context, EnergyAssumption, InTime(d), Settled(d), NEW s \in States
  PROVE  LET e == ChangeState(d, s)
         IN  /\ e \in Changing /\ InTime(e) /\ Settled(e)
             /\ \/ e.aborted
                \/ /\ e.state = e.phy \/ (e.phy = d.phy /\ e.state = s)
                   /\ Spent(e) = Spent(d) /\ Left(e) = Left(d)
<1> DEFINE b == Book(d)
           c == UpdateEnergySource(b)
           e == SetState(c, s)
<1>1. /\ b \in Changing /\ InTime(b) /\ b.total = Spent(d) /\ b.lastUpdate = now /\ b.pending = 1
      /\ b.phy = d.phy /\ b.state = d.state /\ b.txCurrent = d.txCurrent
      /\ ~b.superseded /\ b.remaining = d.remaining /\ b.drainedAt = d.drainedAt
  BY BookBooks DEF Spent, Settled
<1>2. Spent(b) = Spent(d)  BY <1>1, UpToDate
<1>3. Left(b) = Left(d)  BY <1>1 DEF Left, SinceDrain, DoGetCurrentA
<1> HIDE DEF b
<1>4. /\ c \in Changing /\ InTime(c) /\ c.pending = 1 /\ c.drainedAt = now /\ c.lastUpdate = now
      /\ \/ c.aborted /\ ~c.superseded
         \/ /\ c.phy = "SLEEP" /\ c.state = "SLEEP" /\ c.superseded
            /\ Spent(c) = Spent(d) /\ Left(c) = Left(d)
         \/ /\ c.phy = d.phy /\ ~c.superseded
            /\ Spent(c) = Spent(d) /\ Left(c) = Left(d)
  <2>1. b.pending \in 0 .. 1  BY <1>1
  <2>2. /\ c \in Changing /\ InTime(c) /\ c.pending = b.pending /\ c.drainedAt = now
        /\ c.lastUpdate \in {b.lastUpdate, now}
        /\ \/ c.aborted /\ ~c.superseded
           \/ /\ c.phy = "SLEEP" /\ c.state = "SLEEP" /\ (c.superseded <=> b.pending = 1)
              /\ Spent(c) = Spent(b) /\ Left(c) = Left(b)
           \/ /\ c.phy = b.phy /\ c.state = b.state /\ ~c.superseded
              /\ Spent(c) = Spent(b) /\ Left(c) = Left(b)
    BY <1>1, <2>1, SourceUpdates
  <2> HIDE DEF c
  <2> QED  BY <1>1, <1>2, <1>3, <2>2
<1>5. Spent(c) = c.total /\ Left(c) = c.remaining  BY <1>4, UpToDate
<1> HIDE DEF c
<1>6. /\ e \in Changing /\ InTime(e) /\ e.state = (IF c.superseded THEN c.state ELSE s)
      /\ e.pending = 0 /\ ~e.superseded /\ e.phy = c.phy
      /\ e.total = c.total /\ e.lastUpdate = now /\ e.remaining = c.remaining /\ e.drainedAt = now
      /\ (e.aborted <=> c.aborted)
  BY <1>4, SetStateSets
<1>7. Spent(e) = Spent(c) /\ Left(e) = Left(c)  BY <1>5, <1>6, UpToDate
<1>8. ChangeState(d, s) = e  BY DEF ChangeState, e, c, b
<1> HIDE DEF e
<1>9. CASE e.aborted  BY <1>6, <1>8, <1>9 DEF Settled
<1>10. CASE ~e.aborted
  <2>1. e.state = e.phy \/ (e.phy = d.phy /\ e.state = s)
    <3>1. ~c.aborted  BY <1>6, <1>10
    <3>2. CASE c.superseded
      <4>1. c.phy = "SLEEP" /\ c.state = "SLEEP"  BY <1>4, <3>2
      <4>2. e.state = c.state /\ e.phy = c.phy  BY <1>6, <3>2
      <4> QED  BY <4>1, <4>2
    <3>3. CASE ~c.superseded
      <4>1. c.phy = d.phy  BY <1>4, <3>1, <3>3
      <4> QED  BY <1>6, <3>3, <4>1
    <3> QED  BY <3>2, <3>3
  <2>2. Spent(e) = Spent(d) /\ Left(e) = Left(d)  BY <1>4, <1>6, <1>7, <1>10
  <2> QED  BY <1>6, <1>8, <2>1, <2>2 DEF Settled
<1> QED  BY <1>9, <1>10

-----------------------------------------------------------------------------
(* The steps. *)

\* The device after a change of the radio to s and the state change it reports.
LEMMA RadioChanges ==
  ASSUME NEW d \in Changing, Context, EnergyAssumption, Good(d), ~d.aborted, NEW s \in States
  PROVE  Good(ChangeState([d EXCEPT !.phy = s], s))
<1> DEFINE b == [d EXCEPT !.phy = s]
           e == ChangeState(b, s)
<1>1. /\ b \in Changing /\ b.phy = s /\ b.state = d.state /\ b.txCurrent = d.txCurrent
      /\ b.total = d.total /\ b.lastUpdate = d.lastUpdate /\ b.remaining = d.remaining
      /\ b.drainedAt = d.drainedAt /\ b.pending = d.pending /\ (b.superseded <=> d.superseded)
  BY DEF Changing
<1>2. InTime(b) /\ Settled(b)  BY <1>1 DEF Good, InTime, Settled
<1>3. Spent(b) = Spent(d) /\ Left(b) = Left(d)
  <2>1. DoGetCurrentA(b, b.state) = DoGetCurrentA(d, d.state)  BY <1>1 DEF DoGetCurrentA
  <2> QED  BY <1>1, <2>1 DEF Spent, Left, SinceChange, SinceDrain
<1>4. Exact(d)  BY DEF Good
<1> HIDE DEF b
<1>5. /\ e \in Changing /\ InTime(e) /\ Settled(e)
      /\ \/ e.aborted
         \/ /\ e.state = e.phy \/ (e.phy = b.phy /\ e.state = s)
            /\ Spent(e) = Spent(b) /\ Left(e) = Left(b)
  BY <1>1, <1>2, StateChanges
<1> HIDE DEF e
<1>6. Good(e)  BY <1>1, <1>3, <1>4, <1>5 DEF Good, Exact
<1> QED  BY <1>6 DEF e, b

LEMMA AbortGood ==
  ASSUME NEW d, Good(d) PROVE Good([d EXCEPT !.aborted = TRUE])
<1> DEFINE e == [d EXCEPT !.aborted = TRUE]
<1>1. d \in Changing  BY DEF Good
<1>2. /\ e \in Changing /\ e.pending = d.pending /\ (e.superseded <=> d.superseded)
      /\ e.lastUpdate = d.lastUpdate /\ e.drainedAt = d.drainedAt /\ e.aborted
  BY <1>1 DEF Changing
<1> QED  BY <1>2 DEF Good, Settled, InTime

LEMMA StandbyGood ==
  ASSUME NEW d, Context, EnergyAssumption, Good(d), ~d.aborted PROVE Good(SwitchToStandby(d))
<1>1. d \in Changing /\ "STANDBY" \in States  BY DEF Good, States
<1> QED  BY <1>1, RadioChanges DEF SwitchToStandby

LEMMA RxGood ==
  ASSUME NEW d, Context, EnergyAssumption, Good(d), ~d.aborted PROVE Good(SwitchToRx(d))
<1>1. d \in Changing /\ "RX" \in States  BY DEF Good, States
<1> QED  BY <1>1, RadioChanges DEF SwitchToRx

LEMMA SleepGood ==
  ASSUME NEW d, Context, EnergyAssumption, Good(d), ~d.aborted PROVE Good(SwitchToSleep(d))
<1>1. d \in Changing /\ "SLEEP" \in States  BY DEF Good, States
<1>2. CASE d.phy = "STANDBY"  BY <1>1, <1>2, RadioChanges DEF SwitchToSleep
<1>3. CASE d.phy # "STANDBY"  BY <1>3, AbortGood DEF SwitchToSleep
<1> QED  BY <1>2, <1>3

\* The current of the transmission is set while the radio does not transmit: it
\* is not charged for the time before.
LEMMA TxGood ==
  ASSUME NEW d, Context, EnergyAssumption, Good(d), ~d.aborted,
         d.phy \in {"STANDBY", "SLEEP"}, NEW dBm \in TxPowers
  PROVE  Good(SwitchToTx(d, dBm))
<1>1. d \in Changing /\ "TX" \in States  BY DEF Good, States
<1> DEFINE b == [d EXCEPT !.phy = "TX"]
           c == SetTxCurrentFromModel(b, dBm)
           e == SetTxCurrentFromModel(d, dBm)
<1>2. c = [e EXCEPT !.phy = "TX"]
  BY <1>1 DEF SetTxCurrentFromModel, Changing, Context, EnergyAssumption
<1>3. /\ e \in Changing /\ e.phy = d.phy /\ e.state = d.state
      /\ e.total = d.total /\ e.lastUpdate = d.lastUpdate /\ e.remaining = d.remaining
      /\ e.drainedAt = d.drainedAt /\ e.pending = d.pending /\ (e.superseded <=> d.superseded)
      /\ (e.aborted <=> d.aborted)
  <2>1. ConstantCurrent \in TxCurrents /\ LinearCurrent(dBm) \in TxCurrents  BY DEF TxCurrents
  <2> QED  BY <1>1, <2>1 DEF SetTxCurrentFromModel, Changing, Context, EnergyAssumption
<1>4. DoGetCurrentA(e, e.state) = DoGetCurrentA(d, d.state)
  BY <1>3 DEF DoGetCurrentA, Good
<1>5. Spent(e) = Spent(d) /\ Left(e) = Left(d)  BY <1>3, <1>4 DEF Spent, Left, SinceChange, SinceDrain
<1> HIDE DEF e
<1>6. Good(e) /\ ~e.aborted  BY <1>3, <1>5 DEF Good, Settled, InTime, Exact
<1>7. Good(ChangeState([e EXCEPT !.phy = "TX"], "TX"))  BY <1>1, <1>3, <1>6, RadioChanges
<1> QED  BY <1>2, <1>7 DEF SwitchToTx

LEMMA UpdateGood ==
  ASSUME NEW d, Context, EnergyAssumption, Good(d), ~d.aborted PROVE Good(UpdateEnergySource(d))
<1> DEFINE e == UpdateEnergySource(d)
<1>1. d \in Changing /\ InTime(d) /\ ~d.superseded /\ d.pending = 0 /\ d.pending \in 0 .. 1
  BY DEF Good, Settled
<1>2. /\ e \in Changing /\ InTime(e) /\ e.pending = d.pending
      /\ \/ e.aborted /\ ~e.superseded
         \/ /\ e.phy = "SLEEP" /\ e.state = "SLEEP" /\ (e.superseded <=> d.pending = 1)
            /\ Spent(e) = Spent(d) /\ Left(e) = Left(d)
         \/ /\ e.phy = d.phy /\ e.state = d.state /\ ~e.superseded
            /\ Spent(e) = Spent(d) /\ Left(e) = Left(d)
  BY <1>1, SourceUpdates
<1> HIDE DEF e
<1>3. ~e.superseded  BY <1>1, <1>2
<1>4. ~e.aborted => e.state = e.phy /\ Spent(e) = Spent(d) /\ Left(e) = Left(d)  BY <1>2 DEF Good
<1>5. Good(e)  BY <1>1, <1>2, <1>3, <1>4 DEF Good, Settled, Exact
<1> QED  BY <1>5 DEF e

\* A good device is one in the next state too, if no time passes.
LEMMA GoodLater ==
  ASSUME NEW d, Good(d), dev' = d, now' = now, used' = used PROVE Good(dev)'
<1>1. DoGetCurrentA(dev, dev.state)' = DoGetCurrentA(d, d.state)  BY DEF DoGetCurrentA
<1>2. Spent(dev)' = Spent(d) /\ Left(dev)' = Left(d)
  BY <1>1 DEF Spent, Left, SinceChange, SinceDrain
<1>3. (dev \in Changing)'  BY DEF Good, Changing
<1> QED  BY <1>2, <1>3 DEF Good, Settled, InTime, Exact

LEMMA InitInv == EnergyAssumption /\ Init => IInv
<1> SUFFICES ASSUME EnergyAssumption, Init PROVE IInv  OBVIOUS
<1>1. ConstantCurrent \in TxCurrents  BY DEF TxCurrents
<1>2. dev \in Changing  BY <1>1 DEF Init, NewDevice, Changing, States, EnergyAssumption
<1>3. /\ dev.pending = 0 /\ ~dev.superseded /\ dev.lastUpdate = 0 /\ dev.drainedAt = 0
      /\ dev.state = dev.phy /\ dev.total = 0 /\ dev.remaining = Capacity
  BY DEF Init, NewDevice
<1>4. Context  BY DEF Init, Context, EnergyAssumption
<1>5. Spent(dev) = 0 /\ Left(dev) = Capacity  BY <1>2, <1>3, <1>4, UpToDate DEF Init
<1> QED  BY <1>2, <1>3, <1>4, <1>5 DEF Init, IInv, Good, Settled, InTime, Exact, Context, EnergyAssumption

LEMMA NextInv == EnergyAssumption /\ IInv /\ [Next]_vars => IInv'
<1> SUFFICES ASSUME EnergyAssumption, IInv, [Next]_vars PROVE IInv'  OBVIOUS
<1>1. Context /\ Good(dev)  BY DEF IInv, Context
<1>2. ASSUME NEW from, NEW to \in {"idle", "sending", "sent", "window", "receiving", "received"}, NEW d,
             Step(from, to, d), Good(d)
      PROVE  IInv'
  <2>1. dev' = d /\ mac' = to /\ UNCHANGED <<now, onDepletion, txModel, used>>  BY <1>2 DEF Step
  <2>2. Good(dev)'  BY <1>2, <2>1, GoodLater
  <2> QED  BY <1>1, <2>1, <2>2 DEF IInv
<1>3. ASSUME NEW dBm \in TxPowers, Send(dBm) PROVE IInv'
  BY <1>1, <1>2, <1>3, TxGood DEF Send, Step
<1>4. CASE EndOfTransmission  BY <1>1, <1>2, <1>4, StandbyGood DEF EndOfTransmission, Step
<1>5. CASE TxFinished  BY <1>1, <1>2, <1>5, SleepGood DEF TxFinished, Step
<1>6. CASE OpenReceiveWindow  BY <1>1, <1>2, <1>6, StandbyGood DEF OpenReceiveWindow, Step
<1>7. CASE StartReceive  BY <1>1, <1>2, <1>7, RxGood DEF StartReceive, Step
<1>8. CASE EndReceive  BY <1>1, <1>2, <1>8, StandbyGood DEF EndReceive, Step
<1>9. CASE Received  BY <1>1, <1>2, <1>9, SleepGood DEF Received, Step
<1>10. CASE CloseReceiveWindow
  BY <1>1, <1>2, <1>10, SleepGood DEF CloseReceiveWindow, Step
<1>11. CASE PeriodicUpdate
  <2>1. Good(UpdateEnergySource(dev))  BY <1>1, <1>11, UpdateGood DEF PeriodicUpdate
  <2>2. dev' = UpdateEnergySource(dev) /\ UNCHANGED <<now, onDepletion, txModel, mac, used>>
    BY <1>11 DEF PeriodicUpdate
  <2>3. Good(dev)'  BY <2>1, <2>2, GoodLater
  <2> QED  BY <1>1, <2>2, <2>3 DEF IInv
<1>12. CASE Tick
  <2>1. /\ now' = now + 1 /\ now < MaxTime /\ dev' = dev /\ ~dev.aborted
        /\ used' = used + DoGetCurrentA(dev, dev.phy)
        /\ UNCHANGED <<onDepletion, txModel, mac>>
    BY <1>12 DEF Tick
  <2>2. dev \in Changing /\ dev.phy = dev.state /\ Exact(dev) /\ Settled(dev) /\ InTime(dev)
    BY <1>1, <2>1 DEF Good
  <2> DEFINE c == DoGetCurrentA(dev, dev.state)
  <2>3. c \in Nat  BY <2>2, CurrentIsNat DEF Changing
  <2>4. used' = used + c  BY <2>1, <2>2
  <2>5. SinceChange(dev)' = (now' - dev.lastUpdate) * c /\ SinceDrain(dev)' = (now' - dev.drainedAt) * c
    BY <2>1 DEF SinceChange, SinceDrain, DoGetCurrentA
  <2>6. SinceChange(dev) = (now - dev.lastUpdate) * c /\ SinceDrain(dev) = (now - dev.drainedAt) * c
    BY DEF SinceChange, SinceDrain
  <2> HIDE DEF c
  <2>7. /\ now \in Int /\ dev.lastUpdate \in Int /\ dev.drainedAt \in Int /\ c \in Int
        /\ dev.total \in Int /\ dev.remaining \in Int /\ used \in Int /\ Capacity \in Int
    BY <2>2, <2>3 DEF Changing, IInv, EnergyAssumption
  <2>8. SinceChange(dev)' = SinceChange(dev) + c /\ SinceDrain(dev)' = SinceDrain(dev) + c
    BY <2>1, <2>5, <2>6, <2>7, OneMore
  <2>9. SinceChange(dev) \in Int /\ SinceDrain(dev) \in Int  BY <2>6, <2>7
  <2>10. (Spent(dev) = used)' /\ (Left(dev) = Capacity - used)'
    BY <2>1, <2>2, <2>4, <2>7, <2>8, <2>9 DEF Spent, Left, Exact
  <2>11. Good(dev)'
    BY <2>1, <2>2, <2>7, <2>10 DEF Good, Exact, Settled, InTime, Changing
  <2> QED  BY <2>1, <2>3, <2>4, <2>11 DEF IInv, EnergyAssumption
<1>13. CASE UNCHANGED vars
  <2>1. dev' = dev /\ UNCHANGED <<now, onDepletion, txModel, mac, used>>  BY <1>13 DEF vars
  <2>2. Good(dev)'  BY <1>1, <2>1, GoodLater
  <2> QED  BY <1>1, <2>1, <2>2 DEF IInv
<1> QED  BY <1>3, <1>4, <1>5, <1>6, <1>7, <1>8, <1>9, <1>10, <1>11, <1>12, <1>13 DEF Next

-----------------------------------------------------------------------------
(* The theorems. *)

LEMMA Invariance == Spec => []IInv
<1>1. Init => IInv  BY InitInv, EnergyAssumption
<1>2. IInv /\ [Next]_vars => IInv'  BY NextInv, EnergyAssumption
<1> QED  BY <1>1, <1>2, PTL DEF Spec

\* Between two calls the energy model counts no change of state as pending or
\* superseded, whatever the depletion callback did within the change before.
THEOREM TypesHold == Spec => []TypeOK
<1>1. IInv => TypeOK
  BY EnergyAssumption DEF IInv, TypeOK, Good, Settled, Changing, TxCurrents
<1> QED  BY <1>1, Invariance, PTL

\* The energy model and the radio agree on the state of the radio, as long as no
\* assertion failed.
THEOREM StatesAlwaysAgree == Spec => []StatesAgree
<1>1. IInv => StatesAgree  BY DEF IInv, StatesAgree, Good
<1> QED  BY <1>1, Invariance, PTL

\* The consumption the model reports and the charge the source lost are both what
\* the radio used, for any capacity, any interval of updates and any way in which
\* the callback interferes with a change of state.
THEOREM BooksAlwaysAgree == Spec => []BooksAgree
<1>1. IInv => BooksAgree
  <2> SUFFICES ASSUME IInv, ~dev.aborted PROVE
         /\ dev.total + SinceChange(dev) = used
         /\ Capacity - dev.remaining + SinceDrain(dev) = used
    BY DEF BooksAgree, SinceChange, SinceDrain
  <2>1. dev \in Changing /\ Spent(dev) = used /\ Left(dev) = Capacity - used  BY DEF IInv, Good, Exact
  <2>2. now - dev.drainedAt \in Int  BY <2>1 DEF IInv, Changing
  <2>3. DoGetCurrentA(dev, dev.state) \in Int  BY <2>1, CurrentIsNat DEF Changing
  <2>4. SinceDrain(dev) \in Int /\ dev.remaining \in Int /\ Capacity \in Int /\ used \in Int
    BY <2>1, <2>2, <2>3, EnergyAssumption DEF SinceDrain, Changing, IInv, EnergyAssumption
  <2> QED  BY <2>1, <2>4 DEF Spent, Left
<1> QED  BY <1>1, Invariance, PTL

=============================================================================
