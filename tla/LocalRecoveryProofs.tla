------------------------- MODULE LocalRecoveryProofs -------------------------
(***************************************************************************)
(* LocalRecovery for every price grid, message set, buffer size, timeout   *)
(* and history: its types, the contract FeedView, and the truth of what    *)
(* an honest session publishes.                                            *)
(***************************************************************************)
EXTENDS LocalRecovery, NaturalSums

-----------------------------------------------------------------------------
\* The operators candidates are built from.

\* A batch makes a depth of a depth.
LEMMA OverlayType ==
    ASSUME NEW depth \in Depth, NEW changes, IsBatch(changes)
    PROVE  Overlay(depth, changes) \in Depth
BY DEF Overlay, Depth, IsBatch

\* Deltas below some bound.
Bounded(deltas, h) ==
    \A u \in deltas : u.seq \in Nat /\ u.seq <= h

\* A nonempty bounded set of deltas has a last one.
LEMMA LatestIsLast ==
    ASSUME NEW deltas, deltas # {}, NEW h \in Nat, Bounded(deltas, h)
    PROVE  /\ Latest(deltas) \in deltas
           /\ \A v \in deltas : v.seq <= Latest(deltas).seq
<1> DEFINE S == {n \in Nat : \E u \in deltas : u.seq = n}
<1>1. S \in SUBSET Nat /\ S # {} /\ \A n \in S : n <= h
  BY DEF Bounded
<1>2. PICK n \in S : \A m \in S : m <= n
  <2> HIDE DEF S
  <2> QED
    BY <1>1, GreatestNatural
<1>3. PICK u \in deltas : u.seq = n
  OBVIOUS
<1>4. \A v \in deltas : v.seq <= u.seq
  BY <1>2, <1>3 DEF Bounded
<1>5. QED
  BY <1>3, <1>4 DEF Latest

\* Replaying typed deltas on a typed base gives a typed depth.
LEMMA ReplayType ==
    ASSUME NEW base, base.depth \in Depth,
           NEW deltas, NEW h \in Nat, Bounded(deltas, h),
           \A u \in deltas : IsBatch(u.levels)
    PROVE  Replay(base, deltas) \in Depth
<1>1. ASSUME NEW k \in Keys
      PROVE  Replay(base, deltas)[k] \in Nat
  <2> DEFINE touching == {u \in deltas : k \in DOMAIN u.levels}
  <2>1. CASE touching = {}
    BY <2>1 DEF Replay, Depth
  <2>2. CASE touching # {}
    <3>1. Bounded(touching, h)
      BY DEF Bounded
    <3>2. Latest(touching) \in touching
      <4> HIDE DEF touching
      <4> QED
        BY <2>2, <3>1, LatestIsLast
    <3>3. Latest(touching).levels[k] \in Nat
      BY <3>2 DEF IsBatch
    <3>4. Replay(base, deltas)[k] = Latest(touching).levels[k]
      BY <2>2 DEF Replay
    <3>5. QED
      BY <3>3, <3>4
  <2>3. QED
    BY <2>1, <2>2
<1>2. QED
  BY <1>1 DEF Replay, Depth

\* Replaying nothing changes nothing.
LEMMA ReplayNothing ==
    ASSUME NEW base, base.depth \in Depth
    PROVE  Replay(base, {}) = base.depth
BY DEF Replay, Depth

\* A joined chain ends at the high water.
LEMMA JoinedEndsAtHigh ==
    ASSUME NEW base, base.seq \in Nat, NEW high \in Nat, base.seq <= high,
           NEW deltas, Bounded(deltas, high), \A u \in deltas : u.seq > base.seq,
           Joined(base, deltas, high)
    PROVE  LastSeq(base, deltas) = high
<1>1. CASE deltas = {}
  BY <1>1 DEF LastSeq, Joined
<1>2. CASE deltas # {}
  <2>1. Latest(deltas) \in deltas /\ \A v \in deltas : v.seq <= Latest(deltas).seq
    BY <1>2, LatestIsLast
  <2>2. QED
    BY <1>2, <2>1 DEF LastSeq, Joined, Bounded
<1>3. QED
  BY <1>1, <1>2

\* A clean chain neither crosses at its end nor goes back in time.
LEMMA CleanEndsWell ==
    ASSUME NEW base, base.depth \in Depth, base.time \in Nat,
           NEW high \in Nat, NEW deltas, Bounded(deltas, high),
           \A u \in deltas : u.time \in Nat,
           Clean(base, deltas)
    PROVE  /\ ~Crossed(Replay(base, deltas))
           /\ LastTime(base, deltas) \in Nat
           /\ LastTime(base, deltas) >= base.time
<1>1. CASE deltas = {}
  BY <1>1, ReplayNothing DEF LastTime, Clean
<1>2. CASE deltas # {}
  <2> DEFINE last == Latest(deltas)
  <2>1. last \in deltas /\ \A v \in deltas : v.seq <= last.seq
    BY <1>2, LatestIsLast
  <2>2. deltas = {v \in deltas : v.seq <= last.seq}
    BY <2>1
  <2>3. ~Crossed(Replay(base, {v \in deltas : v.seq <= last.seq}))
    BY <2>1 DEF Clean
  <2>4. ~Crossed(Replay(base, deltas))
    BY <2>2, <2>3
  <2>5. QED
    BY <1>2, <2>1, <2>4 DEF LastTime, Clean
<1>3. QED
  BY <1>1, <1>2

-----------------------------------------------------------------------------
\* The truth of an honest session.

\* The replay of a gapless chain of true deltas on the source's book is the
\* source's book: otherwise there is a first sequence at which it is not, and
\* the delta of that sequence takes the source's book there.
LEMMA TrueReplay ==
    ASSUME NEW truth, NEW base, base.seq \in Nat, base.depth \in Depth,
           base.depth = truth[base.seq],
           NEW high \in Nat, base.seq <= high,
           NEW deltas, deltas \subseteq Messages,
           \A u \in deltas : /\ u.kind = "update" /\ WellFormed(u) /\ TrueTo(truth, u)
                             /\ u.seq > base.seq /\ u.seq <= high,
           Joined(base, deltas, high)
    PROVE  Replay(base, deltas) = truth[high]
<1> DEFINE Upto(n) == {u \in deltas : u.seq <= n}
           Wrong == {n \in Nat : /\ base.seq <= n /\ n <= high
                                 /\ Replay(base, Upto(n)) # truth[n]}
<1>1. \A u \in deltas : u.seq \in Nat /\ IsBatch(u.levels)
  BY FeedAssumption DEF IsMessage
<1>2. ASSUME Wrong # {}
      PROVE  FALSE
  <2>1. PICK n \in Wrong : \A m \in Wrong : n <= m
    <3>1. Wrong \in SUBSET Nat
      OBVIOUS
    <3> HIDE DEF Wrong
    <3>2. QED
      BY <1>2, <3>1, LeastNatural
  <2>2. n # base.seq
    <3>1. Upto(base.seq) = {}
      BY <1>1
    <3>2. QED
      BY <3>1, ReplayNothing
  <2>3. /\ n \in Nat /\ n > base.seq /\ n <= high
        /\ n - 1 \in Nat /\ n - 1 >= base.seq /\ n - 1 < n
    BY <2>2
  <2>4. Replay(base, Upto(n - 1)) = truth[n - 1]
    BY <2>1, <2>3
  <2>5. PICK w \in deltas : w.seq = n
    <3>1. PICK u \in deltas : u.seq >= high
      BY <2>3 DEF Joined
    <3>2. n \in base.seq + 1 .. u.seq
      BY <1>1, <2>3, <3>1
    <3>3. QED
      BY <3>1, <3>2 DEF Joined
  <2>6. \A u \in deltas : u.seq = n => Overlay(truth[n - 1], u.levels) = truth[n]
    BY <2>3 DEF TrueTo
  <2>7. ASSUME NEW k \in Keys
        PROVE  Replay(base, Upto(n))[k] = truth[n][k]
    <3> DEFINE touching == {u \in Upto(n) : k \in DOMAIN u.levels}
               before == {u \in Upto(n - 1) : k \in DOMAIN u.levels}
    <3>1. CASE \E u \in deltas : u.seq = n /\ k \in DOMAIN u.levels
      <4>1. PICK u \in touching : u.seq = n
        BY <2>3, <3>1
      <4>2. Bounded(touching, high) /\ touching # {}
        BY <1>1, <4>1 DEF Bounded
      <4>3. Latest(touching) \in touching /\ \A v \in touching : v.seq <= Latest(touching).seq
        <5> HIDE DEF touching
        <5> QED
          BY <4>2, LatestIsLast
      <4>4. Latest(touching).seq = n
        BY <1>1, <2>3, <4>1, <4>3
      <4>5. Overlay(truth[n - 1], Latest(touching).levels) = truth[n]
        BY <2>6, <4>3, <4>4
      <4>6. truth[n][k] = Latest(touching).levels[k]
        BY <4>3, <4>5 DEF Overlay
      <4>7. Replay(base, Upto(n))[k] = Latest(touching).levels[k]
        BY <4>2 DEF Replay
      <4>8. QED
        BY <4>6, <4>7
    <3>2. CASE \A u \in deltas : u.seq = n => k \notin DOMAIN u.levels
      <4>1. touching = before
        BY <1>1, <2>3, <3>2
      <4>2. Replay(base, Upto(n))[k] = Replay(base, Upto(n - 1))[k]
        BY <4>1 DEF Replay
      <4>3. truth[n][k] = truth[n - 1][k]
        BY <2>5, <2>6, <3>2 DEF Overlay
      <4>4. QED
        BY <2>4, <4>2, <4>3
    <3>3. QED
      BY <3>1, <3>2
  <2>8. Overlay(truth[n - 1], w.levels) = truth[n]
    BY <2>5, <2>6
  <2>9. Replay(base, Upto(n)) = truth[n]
    BY <2>7, <2>8 DEF Replay, Overlay
  <2>10. QED
    BY <2>1, <2>9
<1>3. Replay(base, Upto(high)) = truth[high]
  <2>1. high \notin Wrong
    BY <1>2
  <2>2. base.seq <= high /\ high <= high /\ high \in Nat
    OBVIOUS
  <2>3. QED
    BY ONLY <2>1, <2>2 DEF Wrong
<1>4. Upto(high) = deltas
  BY <1>1
<1>5. QED
  BY <1>3, <1>4

-----------------------------------------------------------------------------
\* The inductive invariant.

\* A candidate: deltas and an anchor fit for publication, up to `high`.
Fit(upd, anc, high) ==
    /\ upd \subseteq Messages
    /\ \A u \in upd : /\ u.kind = "update" /\ u.seq <= high /\ WellFormed(u)
                      /\ Accepted => u.seq > book.seq
    /\ anc \in Messages \cup {None}
    /\ anc # None =>
           /\ anc.kind = "snapshot" /\ anc.seq <= high /\ WellFormed(anc)
           /\ ~Regresses(anc)

\* The published book and the candidate behind it.
CoreInv ==
    /\ book \in [depth : Depth, seq : Nat \cup {NoSeq}, valid : BOOLEAN]
    /\ stateTime \in Nat \cup {NoTime} /\ lastReceive \in Nat \cup {NoTime}
    /\ clock \in Nat /\ highWater \in Nat /\ publication \in Nat
    /\ since \in Nat \cup {NoTime} /\ since <= clock
    /\ lastReceive <= clock
    /\ needsSnapshot \in BOOLEAN
    /\ provenance \subseteq Messages
    /\ book.seq <= highWater
    /\ IF Accepted THEN ~Crossed(book.depth) /\ stateTime \in Nat
                   ELSE stateTime = NoTime
    /\ Fit(updates, anchor, highWater)
    /\ book.valid => /\ Accepted /\ book.seq = highWater /\ since = NoTime
                     /\ updates = {} /\ anchor = None /\ ~needsSnapshot
    /\ ~book.valid /\ (Accepted \/ updates # {} \/ anchor # None) => since # NoTime

\* The identity histories hold messages no newer than the high water.
SeenInv ==
    /\ seenEvents \subseteq Messages /\ seenUpdates \subseteq Messages
    /\ seenSnapshots \subseteq Nat \X Depth
    /\ \A m \in seenEvents \cup seenUpdates : m.seq <= highWater

IInv == CoreInv /\ SeenInv

\* A new feed satisfies the invariant.
LEMMA InitIInv == Init => IInv
BY FeedAssumption
   DEF Init, IInv, CoreInv, SeenInv, Fit, Accepted, Depth, EmptyDepth, NoSeq, NoTime

\* What a publication delivers, from any fit candidate that reaches the high
\* water the handler has just raised.
Delivered ==
    /\ book' \in [depth : Depth, seq : {highWater'}, valid : {TRUE}]
    /\ ~Crossed(book'.depth)
    /\ book'.seq = book.seq => book'.depth = book.depth
    /\ stateTime' \in Nat /\ stateTime' >= stateTime
    /\ lastReceive' = clock'
    /\ publication' = publication + 1
    /\ provenance' \subseteq Messages

\* A publication leaves a usable, uncrossed book at the high water.
LEMMA PublishDelivers ==
    ASSUME CoreInv, NEW upd, NEW anc, NEW t, clock' = t,
           highWater' \in Nat, highWater' >= highWater,
           Fit(upd, anc, highWater'), HasBase(anc),
           Joined(Base(anc), Deltas(upd, Base(anc)), highWater'),
           Clean(Base(anc), Deltas(upd, Base(anc))),
           Publish(Base(anc), Deltas(upd, Base(anc)), anc, t)
    PROVE  Delivered
<1> DEFINE base == Base(anc)
           deltas == Deltas(upd, base)
<1>1. \A m \in Messages : IsMessage(m)
  BY FeedAssumption
<1>2. /\ base.seq \in Nat /\ base.depth \in Depth /\ base.time \in Nat
      /\ base.seq <= highWater'
      /\ base.time >= stateTime
      /\ Accepted => base.seq >= book.seq
      /\ Accepted /\ base.seq = book.seq => base.depth = book.depth
  <2>1. CASE anc # None
    <3>1. /\ anc.seq \in Nat /\ anc.levels \in Depth /\ anc.time \in Nat
          /\ anc.seq <= highWater'
      BY <2>1, <1>1 DEF Fit, IsMessage
    <3>2. base = [seq |-> anc.seq, depth |-> anc.levels, time |-> anc.time]
      BY <2>1 DEF Base
    <3>3. book.seq \in Nat \cup {NoSeq} /\ stateTime \in Nat \cup {NoTime}
      BY DEF CoreInv
    <3>4. CASE Accepted
      BY <2>1, <3>1, <3>2, <3>3, <3>4 DEF Fit, Regresses, NoSeq, NoTime
    <3>5. CASE ~Accepted
      BY <3>1, <3>2, <3>5 DEF CoreInv, NoTime
    <3>6. QED
      BY <3>4, <3>5
  <2>2. CASE anc = None
    BY <2>2 DEF HasBase, Base, Accepted, CoreInv, NoSeq, NoTime
  <2>3. QED
    BY <2>1, <2>2
<1>3. /\ Bounded(deltas, highWater')
      /\ \A u \in deltas : IsBatch(u.levels) /\ u.time \in Nat /\ u.seq > base.seq
  BY <1>1 DEF Deltas, Bounded, Fit, IsMessage
<1>4. Replay(base, deltas) \in Depth
  BY <1>2, <1>3, ReplayType
<1>5. LastSeq(base, deltas) = highWater'
  BY <1>2, <1>3, JoinedEndsAtHigh
<1>6. /\ ~Crossed(Replay(base, deltas))
      /\ LastTime(base, deltas) \in Nat /\ LastTime(base, deltas) >= base.time
  BY <1>2, <1>3, CleanEndsWell
<1>7. highWater' = book.seq => Replay(base, deltas) = book.depth
  <2> SUFFICES ASSUME highWater' = book.seq
               PROVE  Replay(base, deltas) = book.depth
    OBVIOUS
  <2>1. Accepted /\ base.seq = book.seq
    BY <1>2 DEF Accepted, NoSeq
  <2>2. deltas = {}
    BY <1>2, <1>3, <2>1 DEF Bounded
  <2>3. QED
    BY <1>2, <2>1, <2>2, ReplayNothing
<1>8. provenance' \subseteq Messages
  BY DEF Publish, Origin, Deltas, Fit, CoreInv
<1>9. stateTime' \in Nat /\ stateTime' >= stateTime
  BY <1>2, <1>6 DEF Publish, CoreInv, NoTime
<1>10. QED
  BY <1>4, <1>5, <1>6, <1>7, <1>8, <1>9 DEF Publish, Delivered

-----------------------------------------------------------------------------
\* Every way a handler can end preserves the core of the invariant.

\* The book stops being usable and nothing else of the view changes.
Suspended ==
    /\ book' = [book EXCEPT !.valid = FALSE]
    /\ UNCHANGED published

\* The handler runs at a time the clock allows and may raise the high water.
Advance(t) ==
    /\ t \in Nat /\ t >= clock /\ clock' = t
    /\ highWater' \in Nat /\ highWater' >= highWater

\* An unusable book is the same book.
LEMMA SuspendedBook ==
    ASSUME CoreInv, book' = [book EXCEPT !.valid = FALSE]
    PROVE  /\ book' \in [depth : Depth, seq : Nat \cup {NoSeq}, valid : BOOLEAN]
           /\ book'.seq = book.seq /\ book'.depth = book.depth /\ ~book'.valid
           /\ Accepted' <=> Accepted
BY DEF CoreInv, Accepted

\* A reset keeps the invariant: nothing waits any more.
LEMMA ResetPreserves ==
    ASSUME CoreInv, NEW t, Advance(t), Reset(t) \/ ResetAndRestart(t)
    PROVE  CoreInv' /\ Suspended
<1>1. book' = [book EXCEPT !.valid = FALSE] /\ UNCHANGED published /\ Discard
  BY DEF Reset, ResetAndRestart, Invalidate
<1>2. since' \in Nat /\ since' <= clock'
  BY DEF Reset, ResetAndRestart, Invalidate, CoreInv, Advance, NoTime
<1>3. Fit(updates, anchor, highWater)'
  BY <1>1 DEF Fit, Discard
<1>4. CoreInv'
  BY <1>1, <1>2, <1>3, SuspendedBook DEF CoreInv, Discard, published, Advance, NoSeq, NoTime
<1>5. QED
  BY <1>1, <1>4 DEF Suspended

\* Waiting keeps the invariant: what waits is fit.
LEMMA WaitPreserves ==
    ASSUME CoreInv, NEW t, Advance(t), NEW upd, NEW anc,
           Fit(upd, anc, highWater'), Wait(upd, anc, t)
    PROVE  CoreInv' /\ Suspended
<1>1. CASE ResetAndRestart(t)
  BY <1>1, ResetPreserves
<1>2. CASE /\ updates' = upd /\ anchor' = anc /\ UNCHANGED needsSnapshot
           /\ Invalidate(t) /\ UNCHANGED published
  <2>1. book' = [book EXCEPT !.valid = FALSE] /\ since' \in Nat /\ since' <= clock'
    BY <1>2 DEF Invalidate, CoreInv, Advance, NoTime
  <2>2. Fit(updates, anchor, highWater)'
    BY <1>2, <2>1, SuspendedBook DEF Fit, Regresses, published
  <2>3. CoreInv'
    BY <1>2, <2>1, <2>2, SuspendedBook DEF CoreInv, published, Advance, NoSeq, NoTime
  <2>4. QED
    BY <1>2, <2>1, <2>3 DEF Suspended
<1>3. QED
  BY <1>1, <1>2 DEF Wait

\* Whatever _try_publish decides keeps the invariant.
LEMMA TryPublishPreserves ==
    ASSUME CoreInv, NEW t, Advance(t), NEW upd, NEW anc,
           Fit(upd, anc, highWater'), TryPublish(upd, anc, t)
    PROVE  CoreInv' /\ (Suspended \/ Delivered)
<1> DEFINE base == Base(anc)
           deltas == Deltas(upd, base)
<1>1. CASE Reset(t)
  BY <1>1, ResetPreserves
<1>2. CASE Wait(upd, anc, t)
  BY <1>2, WaitPreserves
<1>3. CASE /\ HasBase(anc) /\ Joined(base, deltas, highWater')
           /\ Clean(base, deltas) /\ Publish(base, deltas, anc, t)
  <2>1. Delivered
    BY <1>3, PublishDelivers DEF Advance
  <2>2. CoreInv'
    <3>1. /\ book' \in [depth : Depth, seq : Nat \cup {NoSeq}, valid : BOOLEAN]
          /\ book'.seq = highWater' /\ book'.valid /\ Accepted'
      <4>1. book' \in [depth : Depth, seq : {highWater'}, valid : {TRUE}]
        BY <2>1 DEF Delivered
      <4>2. highWater' \in Nat
        BY DEF Advance
      <4>3. book'.seq = highWater'
        BY <4>1
      <4>4. book' \in [depth : Depth, seq : Nat \cup {NoSeq}, valid : BOOLEAN]
        BY <4>1, <4>2
      <4>5. Accepted'
        BY <4>2, <4>3 DEF Accepted, NoSeq
      <4>6. book'.valid = TRUE
        BY <4>1
      <4>7. QED
        BY <4>3, <4>4, <4>5, <4>6
    <3>2. Fit(updates, anchor, highWater)'
      BY <1>3 DEF Publish, Fit
    <3>3. QED
      <4>1. /\ lastReceive' \in Nat /\ publication' \in Nat /\ since' = NoTime
            /\ updates' = {} /\ anchor' = None /\ needsSnapshot' = FALSE
        BY <1>3 DEF Publish, CoreInv, Advance
      <4>2. /\ ~Crossed(book'.depth) /\ stateTime' \in Nat /\ provenance' \subseteq Messages
        BY <2>1 DEF Delivered
      <4>3. clock' \in Nat /\ highWater' \in Nat /\ lastReceive' = clock'
        BY <1>3 DEF Advance, Publish
      <4>4. /\ stateTime' \in Nat \cup {NoTime} /\ since' \in Nat \cup {NoTime}
            /\ since' <= clock' /\ book'.seq <= highWater'
        BY <3>1, <4>1, <4>2, <4>3 DEF NoTime
      <4>5. needsSnapshot' \in BOOLEAN /\ ~needsSnapshot'
        BY <4>1
      <4>6. QED
        BY <3>1, <3>2, <4>1, <4>2, <4>3, <4>4, <4>5 DEF CoreInv
  <2>3. QED
    BY <2>1, <2>2
<1>4. QED
  BY <1>1, <1>2, <1>3 DEF TryPublish

\* A message that changes no part of the view keeps the invariant.
LEMMA QuietPreserves ==
    ASSUME CoreInv, NEW t, Advance(t), highWater' = highWater,
           UNCHANGED <<book, published, since, buffer>>
    PROVE  CoreInv'
BY DEF CoreInv, Advance, published, buffer, Fit, Accepted, Regresses, NoSeq, NoTime

-----------------------------------------------------------------------------
\* The handlers.

\* The view stays exactly as it is.
Still == UNCHANGED <<book, published>> /\ highWater' = highWater

\* What waits remains fit when the high water rises.
LEMMA FitRises ==
    ASSUME NEW upd, NEW anc, NEW h \in Nat, NEW g \in Nat, g >= h, Fit(upd, anc, h)
    PROVE  Fit(upd, anc, g)
<1>1. \A u \in Messages : u.seq \in Nat
  BY FeedAssumption DEF IsMessage
<1>2. QED
  BY <1>1 DEF Fit

\* A new delta keeps the invariant and is registered.
LEMMA ReceiveUpdatePreserves ==
    ASSUME IInv, NEW m \in Messages, NEW t, Advance(t), WellFormed(m),
           highWater' = Larger(highWater, m.seq), ReceiveUpdate(m, t)
    PROVE  /\ CoreInv' /\ (Suspended \/ Delivered \/ Still)
           /\ seenUpdates' \subseteq seenUpdates \cup {m}
           /\ UNCHANGED seenSnapshots
<1> USE DEF IInv
<1>1. IsMessage(m) /\ m.kind = "update" /\ highWater \in Nat /\ m.seq \in Nat
  BY FeedAssumption DEF ReceiveUpdate, CoreInv, IsMessage
<1>2. CASE RepeatUpdate(m)
  <2>1. highWater' = highWater
    BY <1>1, <1>2 DEF RepeatUpdate, SeenInv, Larger
  <2>2. QED
    BY <1>2, <2>1, QuietPreserves DEF RepeatUpdate, Still, ReceiveUpdate
<1>3. CASE ConflictUpdate(m, t)
  BY <1>3, ResetPreserves DEF ConflictUpdate, ReceiveUpdate
<1>4. CASE CoveredUpdate(m)
  <2>1. highWater' = highWater
    BY <1>1, <1>4 DEF CoveredUpdate, CoreInv, Larger, NoSeq
  <2>2. QED
    BY <1>4, <2>1, QuietPreserves DEF CoveredUpdate, Still, ReceiveUpdate
<1>5. CASE BufferUpdate(m, t)
  <2>1. Fit(updates, anchor, highWater')
    BY FitRises DEF CoreInv, Advance
  <2>2. Fit(updates \cup {m}, anchor, highWater')
    <3>1. m.seq <= highWater'
      BY <1>1 DEF Larger
    <3>2. Accepted => m.seq > book.seq
      BY <1>1, <1>5 DEF BufferUpdate, CoreInv, NoSeq
    <3>3. QED
      BY <1>1, <2>1, <3>1, <3>2 DEF Fit
  <2>3. CoreInv' /\ (Suspended \/ Delivered)
    BY <1>5, <2>2, TryPublishPreserves DEF BufferUpdate
  <2>4. QED
    BY <1>5, <2>3 DEF BufferUpdate, ReceiveUpdate
<1>6. QED
  BY <1>2, <1>3, <1>4, <1>5 DEF ReceiveUpdate

\* So does a new snapshot.
LEMMA ReceiveSnapshotPreserves ==
    ASSUME IInv, NEW m \in Messages, NEW t, Advance(t), WellFormed(m),
           highWater' = Larger(highWater, m.seq), ReceiveSnapshot(m, t)
    PROVE  /\ CoreInv' /\ (Suspended \/ Delivered)
           /\ seenSnapshots' \subseteq seenSnapshots \cup {<<m.seq, m.levels>>}
           /\ UNCHANGED seenUpdates
<1> USE DEF IInv
<1>1. /\ IsMessage(m) /\ m.kind = "snapshot"
      /\ highWater \in Nat /\ m.seq \in Nat /\ m.levels \in Depth
  BY FeedAssumption DEF ReceiveSnapshot, CoreInv, IsMessage
<1>2. CASE ConflictSnapshot(m, t)
  BY <1>2, ResetPreserves DEF ConflictSnapshot, ReceiveSnapshot
<1>3. CASE RejectSnapshot(m, t)
  BY <1>3, ResetPreserves DEF RejectSnapshot, ReceiveSnapshot
<1>4. CASE AnchorSnapshot(m, t)
  <2>1. Fit(updates, anchor, highWater')
    BY FitRises DEF CoreInv, Advance
  <2>2. Fit({u \in updates : u.seq > m.seq}, m, highWater')
    <3>1. m.seq <= highWater'
      BY <1>1 DEF Larger
    <3>2. ~Regresses(m)
      BY <1>4 DEF AnchorSnapshot
    <3>3. QED
      BY <1>1, <2>1, <3>1, <3>2 DEF Fit
  <2>3. CoreInv' /\ (Suspended \/ Delivered)
    BY <1>4, <2>1, <2>2, TryPublishPreserves DEF AnchorSnapshot
  <2>4. QED
    BY <1>4, <2>3 DEF AnchorSnapshot, ReceiveSnapshot
<1>5. QED
  BY <1>2, <1>3, <1>4 DEF ReceiveSnapshot

\* So does anything that is delivered.
LEMMA ReceivePreserves ==
    ASSUME IInv, NEW m \in Messages, NEW t \in Nat, Receive(m, t)
    PROVE  IInv' /\ (Suspended \/ Delivered \/ Still)
<1> USE DEF IInv
<1>1. m.seq \in Nat /\ highWater \in Nat
  BY FeedAssumption DEF CoreInv, IsMessage
<1>2. /\ Advance(t)
      /\ WellFormed(m) => highWater' = Larger(highWater, m.seq) /\ m.seq <= highWater'
  BY <1>1 DEF Receive, Advance, Larger, WellFormed
<1>3. CASE RejectContent(m, t) \/ ConflictEvent(m, t)
  <2>1. CoreInv' /\ Suspended
    BY <1>2, <1>3, ResetPreserves DEF RejectContent, ConflictEvent
  <2>2. SeenInv'
    BY <1>1, <1>2, <1>3, FeedAssumption
       DEF RejectContent, ConflictEvent, seen, SeenInv, Advance, IsMessage
  <2>3. QED
    BY <2>1, <2>2
<1>4. CASE RepeatEvent(m)
  <2>1. highWater' = highWater
    BY <1>1, <1>2, <1>4 DEF RepeatEvent, SeenInv, SameContent, Larger
  <2>2. CoreInv' /\ Still
    BY <1>2, <1>4, <2>1, QuietPreserves DEF RepeatEvent, Still
  <2>3. SeenInv'
    BY <1>4, <2>1 DEF RepeatEvent, seen, SeenInv
  <2>4. QED
    BY <2>2, <2>3
<1>5. CASE /\ WellFormed(m) /\ Register(m)
           /\ ReceiveUpdate(m, t) \/ ReceiveSnapshot(m, t)
  <2>1. /\ CoreInv' /\ (Suspended \/ Delivered \/ Still)
        /\ seenUpdates' \subseteq seenUpdates \cup {m}
        /\ seenSnapshots' \subseteq seenSnapshots
                \cup (IF m.kind = "snapshot" THEN {<<m.seq, m.levels>>} ELSE {})
    <3>1. CASE ReceiveUpdate(m, t)
      BY <1>2, <1>5, <3>1, ReceiveUpdatePreserves
    <3>2. CASE ReceiveSnapshot(m, t)
      <4>1. m.kind = "snapshot"
        BY <3>2 DEF ReceiveSnapshot
      <4>2. QED
        BY <1>2, <1>5, <3>2, <4>1, ReceiveSnapshotPreserves
    <3>3. QED
      BY <1>5, <3>1, <3>2
  <2>2. SeenInv'
    <3>1. \A n \in Messages : n.seq \in Nat
      BY FeedAssumption DEF IsMessage
    <3>2. m.kind = "snapshot" => <<m.seq, m.levels>> \in Nat \X Depth
      BY FeedAssumption DEF IsMessage
    <3>3. QED
      BY <1>1, <1>2, <1>5, <2>1, <3>1, <3>2 DEF Register, SeenInv, Advance
  <2>3. QED
    BY <2>1, <2>2
<1>6. QED
  BY <1>3, <1>4, <1>5 DEF Receive

\* So does a timeout, which can only invalidate.
LEMMA CheckTimeoutPreserves ==
    ASSUME IInv, NEW t \in Nat, CheckTimeout(t)
    PROVE  IInv' /\ (Suspended \/ Still)
<1> USE DEF IInv
<1>1. Advance(t) /\ highWater' = highWater /\ SeenInv'
  BY DEF CheckTimeout, Advance, CoreInv, seen, SeenInv
<1>2. CASE StillWaiting(t)
  BY <1>1, <1>2, QuietPreserves DEF StillWaiting, Still
<1>3. CASE StartEpisode(t)
  <2>1. CoreInv'
    BY <1>1, <1>3 DEF StartEpisode, CoreInv, Advance, published, buffer, Fit, Accepted,
                      Regresses, NoSeq, NoTime
  <2>2. QED
    BY <1>1, <1>3, <2>1 DEF StartEpisode, Still
<1>4. CASE Expire(t)
  BY <1>1, <1>4, ResetPreserves DEF Expire
<1>5. QED
  BY <1>2, <1>3, <1>4 DEF CheckTimeout

\* Every step keeps the invariant and does to the view what FeedView allows.
LEMMA NextPreserves ==
    IInv /\ [Next]_vars => IInv' /\ (Suspended \/ Delivered \/ Still)
<1> SUFFICES ASSUME IInv, [Next]_vars
             PROVE  IInv' /\ (Suspended \/ Delivered \/ Still)
  OBVIOUS
<1>1. ASSUME NEW t \in clock .. MaxTime, NEW m \in Messages, Receive(m, t)
      PROVE  IInv' /\ (Suspended \/ Delivered \/ Still)
  <2>1. t \in Nat
    BY DEF IInv, CoreInv
  <2>2. QED
    BY <1>1, <2>1, ReceivePreserves
<1>2. ASSUME NEW t \in clock .. MaxTime, CheckTimeout(t)
      PROVE  IInv' /\ (Suspended \/ Delivered \/ Still)
  <2>1. t \in Nat
    BY DEF IInv, CoreInv
  <2>2. QED
    BY <1>2, <2>1, CheckTimeoutPreserves
<1>3. CASE UNCHANGED vars
  <2>1. CoreInv' /\ SeenInv'
    BY <1>3 DEF vars, published, buffer, seen, IInv, CoreInv, SeenInv, Fit, Accepted, Regresses
  <2>2. QED
    BY <1>3, <2>1 DEF IInv, Still, vars, published
<1>4. QED
  BY <1>1, <1>2, <1>3 DEF Next

-----------------------------------------------------------------------------
\* Theorems about every behaviour.

\* The inductive invariant holds in every state.
LEMMA Invariant == Spec => []IInv
<1>1. IInv /\ [Next]_vars => IInv'
  BY NextPreserves
<1>2. QED
  BY <1>1, InitIInv, PTL DEF Spec

\* The state of LocalRecovery is well-typed whatever the feed delivers.
THEOREM TypeCorrect == Spec => []TypeOK
<1>1. IInv => TypeOK
  BY DEF IInv, CoreInv, SeenInv, TypeOK, Fit
<1>2. QED
  BY <1>1, Invariant, PTL

\* A usable book stands at the highest sequence number the session has shown
\* (class docstring of LocalRecovery).
THEOREM UsableAtHighWater == Spec => []ValidAtHighWater
<1>1. IInv => ValidAtHighWater
  BY DEF IInv, CoreInv, ValidAtHighWater
<1>2. QED
  BY <1>1, Invariant, PTL

\* The episode clock runs exactly while there is something to recover.
THEOREM ClockRuns == Spec => []ClockRunsWhileInvalid
<1>1. IInv => ClockRunsWhileInvalid
  BY DEF IInv, CoreInv, ClockRunsWhileInvalid
<1>2. QED
  BY <1>1, Invariant, PTL

\* Publications never go back in sequence, state time or receive time, and a
\* sequence is never published with two depths.
THEOREM NoRollback == Spec => NeverRollsBack
<1> DEFINE Forward ==
        Accepted =>
           /\ book'.seq >= book.seq
           /\ stateTime' >= stateTime
           /\ lastReceive' >= lastReceive
           /\ book'.seq = book.seq => book'.depth = book.depth
<1>1. IInv /\ [Next]_vars => [Forward]_vars
  <2> SUFFICES ASSUME IInv, [Next]_vars
               PROVE  Forward
    OBVIOUS
  <2>1. /\ book.seq \in Nat \cup {NoSeq} /\ stateTime \in Nat \cup {NoTime}
        /\ lastReceive \in Nat \cup {NoTime} /\ clock \in Nat
        /\ book.seq <= highWater /\ lastReceive <= clock /\ highWater \in Nat
    BY DEF IInv, CoreInv
  <2>2. IInv' /\ (Suspended \/ Delivered \/ Still)
    BY NextPreserves
  <2>3. CASE Suspended
    <3>1. book'.seq = book.seq /\ book'.depth = book.depth
      BY <2>3, SuspendedBook DEF Suspended, IInv
    <3>2. QED
      BY <2>1, <2>3, <3>1 DEF Suspended, published, NoSeq, NoTime
  <2>4. CASE Still
    BY <2>1, <2>4 DEF Still, published, NoSeq, NoTime
  <2>5. CASE Delivered
    <3>1. highWater' >= highWater /\ highWater' \in Nat /\ clock' >= clock /\ clock' \in Nat
      <4>1. \A m \in Messages : m.seq \in Nat
        BY FeedAssumption DEF IsMessage
      <4>2. QED
        BY <2>1, <4>1 DEF Next, Receive, CheckTimeout, vars, Larger
    <3>2. book'.seq = highWater'
      BY <2>5 DEF Delivered
    <3>3. QED
      BY <2>1, <2>5, <3>1, <3>2 DEF Delivered, NoSeq, NoTime
  <2>6. QED
    BY <2>2, <2>3, <2>4, <2>5
<1>2. QED
  BY <1>1, Invariant, PTL DEF Spec, NeverRollsBack

\* LocalRecovery implements FeedView: its consumers need to know nothing of
\* buffering, anchoring, duplicate detection and timeouts.
THEOREM ImplementsFeedView == Spec => KeepsContract
<1>1. Init => Contract!Init
  BY DEF Init, Contract!Init, NoTime, NoSeq, EmptyDepth, Keys, Sides,
         Contract!NoSeq, Contract!EmptyDepth, Contract!Keys, Contract!Sides
<1>2. IInv /\ [Next]_vars => [Contract!Next]_(Contract!vars)
  <2> SUFFICES ASSUME IInv, [Next]_vars
               PROVE  [Contract!Next]_(Contract!vars)
    OBVIOUS
  <2>1. highWater' >= highWater /\ highWater' \in Nat
    <3>1. \A m \in Messages : m.seq \in Nat
      BY FeedAssumption DEF IsMessage
    <3>2. highWater \in Nat
      BY DEF IInv, CoreInv
    <3>3. QED
      BY <3>1, <3>2 DEF Next, Receive, CheckTimeout, vars, Larger
  <2>2. Suspended \/ Delivered \/ Still
    BY NextPreserves
  <2>3. CASE Suspended
    BY <2>1, <2>3 DEF Suspended, published, Contract!Next, Contract!Suspend
  <2>4. CASE Delivered
    BY <2>1, <2>4 DEF Delivered, Contract!Next, Contract!Publish,
                      Depth, Keys, Sides, Crossed,
                      Contract!Depth, Contract!Keys, Contract!Sides, Contract!Crossed
  <2>5. CASE Still
    BY <2>5 DEF Still, published, Contract!vars
  <2>6. QED
    BY <2>2, <2>3, <2>4, <2>5
<1>3. QED
  BY <1>1, <1>2, Invariant, PTL DEF Spec, KeepsContract, Contract!Spec

-----------------------------------------------------------------------------
\* What a step does to the candidate: nothing, it drops it, or it takes a new
\* message in and tries to publish.

\* A message never seen before is registered, an update in its sequence too.
Registered(m) ==
    /\ m \in Messages /\ WellFormed(m) /\ ~Known(m)
    /\ seenEvents' = seenEvents \cup {m}
    /\ IF m.kind = "update"
       THEN /\ \A n \in seenUpdates : n.seq # m.seq
            /\ seenUpdates' = seenUpdates \cup {m}
       ELSE seenUpdates' = seenUpdates

Quiet ==
    /\ UNCHANGED <<book, published, buffer>> /\ highWater' = highWater
    /\ seenEvents \subseteq seenEvents'
    /\ seenUpdates' = seenUpdates \/ \E m \in Messages : Registered(m)

Dropped ==
    /\ Discard /\ Suspended
    /\ seenEvents \subseteq seenEvents' /\ seenUpdates' = seenUpdates

\* The candidate with a new update, or with a new snapshot that becomes the
\* anchor, or is too old to.
Candidate(m, upd, anc) ==
    \/ /\ m.kind = "update" /\ upd = updates \cup {m} /\ anc = anchor
       /\ Accepted => m.seq > book.seq
    \/ /\ m.kind = "snapshot" /\ Newest(m) /\ ~Regresses(m)
       /\ upd = {u \in updates : u.seq > m.seq} /\ anc = m
    \/ /\ m.kind = "snapshot" /\ ~Newest(m)
       /\ upd = updates /\ anc = anchor

TakesIn(m, t, upd, anc) ==
    /\ Registered(m) /\ Advance(t)
    /\ highWater' = Larger(highWater, m.seq)
    /\ Candidate(m, upd, anc) /\ TryPublish(upd, anc, t)

\* A delivery changes nothing, drops the buffer, or takes a new message in.
LEMMA ReceiveKinds ==
    ASSUME IInv, NEW m \in Messages, NEW t \in Nat, Receive(m, t)
    PROVE  Quiet \/ Dropped \/ \E upd, anc : TakesIn(m, t, upd, anc)
<1>1. /\ m.seq \in Nat /\ highWater \in Nat /\ book.seq \in Nat \cup {NoSeq}
      /\ m.kind \in {"snapshot", "update"} /\ book.seq <= highWater
      /\ \A n \in seenEvents \cup seenUpdates : n.seq <= highWater
  BY FeedAssumption DEF IInv, CoreInv, SeenInv, IsMessage
<1>2. Advance(t)
  BY <1>1 DEF Receive, Advance, Larger
<1>3. ASSUME Reset(t), seenEvents \subseteq seenEvents', seenUpdates' = seenUpdates
      PROVE  Dropped
  BY <1>3 DEF Reset, Invalidate, Dropped, Suspended
<1>4. WellFormed(m) => highWater' = Larger(highWater, m.seq)
  BY DEF Receive, WellFormed
<1>5. CASE RejectContent(m, t) \/ ConflictEvent(m, t)
  BY <1>3, <1>5 DEF RejectContent, ConflictEvent, seen
<1>6. CASE RepeatEvent(m)
  <2>1. highWater' = highWater
    BY <1>1, <1>4, <1>6 DEF RepeatEvent, SameContent, Larger
  <2>2. QED
    BY <1>6, <2>1 DEF RepeatEvent, seen, Quiet
<1>7. CASE /\ WellFormed(m) /\ ~Known(m) /\ Register(m)
           /\ ReceiveUpdate(m, t) \/ ReceiveSnapshot(m, t)
  <2>1. /\ WellFormed(m) /\ ~Known(m) /\ seenEvents' = seenEvents \cup {m}
        /\ highWater' = Larger(highWater, m.seq)
    BY <1>4, <1>7 DEF Register
  <2>2. CASE ReceiveUpdate(m, t)
    <3>1. m.kind = "update"
      BY <2>2 DEF ReceiveUpdate
    <3>2. CASE RepeatUpdate(m)
      <4>1. highWater' = highWater
        BY <1>1, <2>1, <3>2 DEF RepeatUpdate, Larger
      <4>2. QED
        BY <2>1, <3>2, <4>1 DEF RepeatUpdate, Quiet
    <3>3. CASE ConflictUpdate(m, t)
      BY <1>3, <2>1, <3>3 DEF ConflictUpdate
    <3>4. CASE CoveredUpdate(m)
      <4>1. highWater' = highWater
        BY <1>1, <2>1, <3>4 DEF CoveredUpdate, Larger, NoSeq
      <4>2. Registered(m)
        BY <2>1, <3>1, <3>4 DEF CoveredUpdate, Registered
      <4>3. QED
        BY <2>1, <3>4, <4>1, <4>2 DEF CoveredUpdate, Quiet
    <3>5. CASE BufferUpdate(m, t)
      <4>1. Registered(m)
        BY <2>1, <3>1, <3>5 DEF BufferUpdate, Registered
      <4>2. Candidate(m, updates \cup {m}, anchor)
        BY <1>1, <3>1, <3>5 DEF BufferUpdate, Candidate, NoSeq
      <4>3. QED
        BY <1>2, <2>1, <3>5, <4>1, <4>2 DEF BufferUpdate, TakesIn
    <3>6. QED
      BY <2>2, <3>2, <3>3, <3>4, <3>5 DEF ReceiveUpdate
  <2>3. CASE ReceiveSnapshot(m, t)
    <3>1. m.kind = "snapshot" /\ seenUpdates' = seenUpdates
      BY <2>3 DEF ReceiveSnapshot
    <3>2. CASE ConflictSnapshot(m, t) \/ RejectSnapshot(m, t)
      BY <1>3, <2>1, <3>1, <3>2 DEF ConflictSnapshot, RejectSnapshot
    <3>3. CASE AnchorSnapshot(m, t)
      <4>1. Registered(m)
        BY <2>1, <3>1 DEF Registered
      <4>2. CASE Newest(m) /\ TryPublish({u \in updates : u.seq > m.seq}, m, t)
        <5>1. Candidate(m, {u \in updates : u.seq > m.seq}, m)
          BY <3>1, <3>3, <4>2 DEF AnchorSnapshot, Candidate
        <5>2. QED
          BY <1>2, <2>1, <4>1, <4>2, <5>1 DEF TakesIn
      <4>3. CASE ~Newest(m) /\ TryPublish(updates, anchor, t)
        <5>1. Candidate(m, updates, anchor)
          BY <3>1, <4>3 DEF Candidate
        <5>2. QED
          BY <1>2, <2>1, <4>1, <4>3, <5>1 DEF TakesIn
      <4>4. QED
        BY <3>3, <4>2, <4>3 DEF AnchorSnapshot
    <3>4. QED
      BY <2>3, <3>2, <3>3 DEF ReceiveSnapshot
  <2>4. QED
    BY <1>7, <2>2, <2>3
<1>8. QED
  BY <1>5, <1>6, <1>7 DEF Receive

\* So does every step.
LEMMA StepKinds ==
    ASSUME IInv, [Next]_vars
    PROVE  Quiet \/ Dropped \/ \E m, t, upd, anc : TakesIn(m, t, upd, anc)
<1>1. ASSUME NEW t \in clock .. MaxTime, NEW m \in Messages, Receive(m, t)
      PROVE  Quiet \/ Dropped \/ \E upd, anc : TakesIn(m, t, upd, anc)
  <2>1. t \in Nat
    BY DEF IInv, CoreInv
  <2>2. QED
    BY <1>1, <2>1, ReceiveKinds
<1>2. ASSUME NEW t \in clock .. MaxTime, CheckTimeout(t)
      PROVE  Quiet \/ Dropped
  BY <1>2 DEF CheckTimeout, StillWaiting, StartEpisode, Expire, ResetAndRestart,
              Quiet, Dropped, Suspended, seen
<1>3. CASE UNCHANGED vars
  BY <1>3 DEF vars, seen, Quiet
<1>4. QED
  BY <1>1, <1>2, <1>3 DEF Next

\* A candidate made of a new message is fit.
LEMMA CandidateFits ==
    ASSUME IInv, NEW m, NEW t, NEW upd, NEW anc, TakesIn(m, t, upd, anc)
    PROVE  Fit(upd, anc, highWater')
<1>1. /\ m \in Messages /\ m.seq \in Nat /\ WellFormed(m)
      /\ highWater \in Nat /\ highWater' \in Nat /\ highWater' >= highWater
      /\ m.seq <= highWater'
  BY FeedAssumption DEF TakesIn, Registered, IsMessage, IInv, CoreInv, Larger, Advance
<1>2. Fit(updates, anchor, highWater')
  BY <1>1, FitRises DEF IInv, CoreInv
<1>3. QED
  BY <1>1, <1>2 DEF TakesIn, Candidate, Fit

-----------------------------------------------------------------------------
\* The buffer.

\* What waits behind a book that is not usable is not ready for publication.
Ready(upd, anc, high) ==
    HasBase(anc) /\ Joined(Base(anc), Deltas(upd, Base(anc)), high)

\* _try_publish publishes, discards what waits, or keeps waiting for more.
LEMMA TryPublishKinds ==
    ASSUME NEW upd, NEW anc, NEW t, TryPublish(upd, anc, t)
    PROVE  \/ /\ Ready(upd, anc, highWater')
              /\ Clean(Base(anc), Deltas(upd, Base(anc)))
              /\ Publish(Base(anc), Deltas(upd, Base(anc)), anc, t)
           \/ Discard /\ Suspended
           \/ /\ ~Ready(upd, anc, highWater') /\ Suspended
              /\ Cardinality(upd) <= MaxBuffer
              /\ updates' = upd /\ anchor' = anc /\ UNCHANGED needsSnapshot
BY DEF TryPublish, Ready, Reset, Wait, ResetAndRestart, Invalidate, Suspended

\* The buffer never holds more than its size, whatever is delivered.
LEMMA BufferSize ==
    IInv /\ Cardinality(updates) <= MaxBuffer /\ [Next]_vars
        => (Cardinality(updates) <= MaxBuffer)'
<1> SUFFICES ASSUME IInv, Cardinality(updates) <= MaxBuffer, [Next]_vars
             PROVE  Cardinality(updates') <= MaxBuffer
  OBVIOUS
<1>1. Cardinality({}) <= MaxBuffer
  BY FS_EmptySet, ConfigAssumption
<1>2. CASE Quiet
  BY <1>2 DEF Quiet, buffer
<1>3. CASE Dropped
  BY <1>1, <1>3 DEF Dropped, Discard
<1>4. ASSUME NEW m, NEW t, NEW upd, NEW anc, TakesIn(m, t, upd, anc)
      PROVE  Cardinality(updates') <= MaxBuffer
  BY <1>1, <1>4, TryPublishKinds DEF TakesIn, Publish, Discard
<1>5. QED
  BY <1>2, <1>3, <1>4, StepKinds

\* The buffer is bounded by its configured size, and nothing waits behind a
\* usable book or one that already covers it.
THEOREM BufferIsBounded == Spec => []BufferBounded
<1>1. Init => Cardinality(updates) <= MaxBuffer
  BY FS_EmptySet, ConfigAssumption DEF Init
<1>2. Spec => [](Cardinality(updates) <= MaxBuffer)
  BY <1>1, BufferSize, Invariant, PTL DEF Spec
<1>3. IInv /\ Cardinality(updates) <= MaxBuffer => BufferBounded
  BY DEF IInv, CoreInv, Fit, BufferBounded
<1>4. QED
  BY <1>2, <1>3, Invariant, PTL

-----------------------------------------------------------------------------
\* News.

\* A full snapshot that is new, well-formed, at the high water and in no
\* conflict ends the episode at once, whatever went before.
THEOREM SnapshotsRescue == Spec => SnapshotRescues
<1>1. ASSUME IInv, NEW m \in Messages, NEW t \in 0 .. MaxTime, Rescues(m), Receive(m, t)
      PROVE  book' = [depth |-> m.levels, seq |-> m.seq, valid |-> TRUE]
  <2>1. /\ m.seq \in Nat /\ m.levels \in Depth /\ m # None /\ m.kind = "snapshot"
        /\ m.own /\ ~Crossed(m.levels) /\ highWater \in Nat /\ m.seq >= highWater
    BY <1>1, FeedAssumption DEF Rescues, IsMessage, WellFormed, IInv, CoreInv
  <2>2. highWater' = m.seq
    BY <1>1, <2>1 DEF Receive, Larger
  <2>3. AnchorSnapshot(m, t)
    BY <1>1, <2>1 DEF Rescues, Receive, RejectContent, RepeatEvent, ConflictEvent, Known,
                      ReceiveUpdate, ReceiveSnapshot, ConflictSnapshot, RejectSnapshot
  <2>4. Newest(m) /\ {u \in updates : u.seq > m.seq} = {}
    <3>1. anchor # None => anchor.seq \in Nat /\ anchor.seq <= highWater
      BY <1>1, FeedAssumption DEF IInv, CoreInv, Fit, IsMessage
    <3>2. \A u \in updates : u.seq \in Nat /\ u.seq <= highWater
      BY <1>1, FeedAssumption DEF IInv, CoreInv, Fit, IsMessage
    <3>3. QED
      BY <2>1, <3>1, <3>2 DEF Newest
  <2>5. TryPublish({}, m, t)
    BY <2>3, <2>4 DEF AnchorSnapshot
  <2> DEFINE base == Base(m)
  <2>6. base = [seq |-> m.seq, depth |-> m.levels, time |-> m.time] /\ Deltas({}, base) = {}
    BY <2>1 DEF Base, Deltas
  <2>7. HasBase(m) /\ Joined(base, {}, highWater') /\ Clean(base, {})
    BY <2>1, <2>2, <2>6 DEF HasBase, Joined, Clean
  <2>8. Publish(base, {}, m, t)
    BY <2>5, <2>6, <2>7 DEF TryPublish
  <2>9. Replay(base, {}) = m.levels /\ LastSeq(base, {}) = m.seq
    BY <2>1, <2>6, ReplayNothing DEF LastSeq
  <2>10. QED
    BY <2>8, <2>9 DEF Publish
<1>2. IInv /\ [Next]_vars =>
          [\A m \in Messages, t \in 0 .. MaxTime :
               Rescues(m) /\ Receive(m, t) =>
                   book' = [depth |-> m.levels, seq |-> m.seq, valid |-> TRUE]]_vars
  BY <1>1
<1>3. QED
  BY <1>2, Invariant, PTL DEF Spec, SnapshotRescues

\* What the identity histories know of the candidate and the provenance, and
\* that a waiting candidate is not ready.
WaitInv ==
    /\ \A u, v \in seenUpdates : u.seq = v.seq => u = v
    /\ updates \subseteq seenUpdates /\ updates \subseteq seenEvents
    /\ anchor \in seenEvents \cup {None}
    /\ provenance \subseteq seenEvents
    /\ \A u \in provenance : u.kind = "update" => u \in seenUpdates
    /\ ~book.valid => ~Ready(updates, anchor, highWater)

\* A candidate that has become ready owes it to the message just taken in.
LEMMA ReadyByNews ==
    ASSUME IInv, WaitInv, NEW m, NEW t, NEW upd, NEW anc,
           TakesIn(m, t, upd, anc), Ready(upd, anc, highWater')
    PROVE  m \in Origin(anc) \cup Deltas(upd, Base(anc))
<1>1. /\ m \in Messages /\ m # None /\ m.seq \in Nat /\ highWater \in Nat
      /\ highWater' = Larger(highWater, m.seq) /\ Candidate(m, upd, anc)
  BY FeedAssumption DEF TakesIn, Registered, IsMessage, IInv, CoreInv
<1>2. /\ book.valid => Accepted /\ anchor = None
      /\ book.seq \in Nat \cup {NoSeq} /\ book.seq <= highWater
      /\ anchor # None => anchor.seq \in Nat /\ anchor.seq <= highWater
  BY FeedAssumption DEF IInv, CoreInv, Fit, IsMessage
<1>3. CASE /\ m.kind = "update" /\ upd = updates \cup {m} /\ anc = anchor
           /\ Accepted => m.seq > book.seq
  <2>1. ASSUME ~(m.seq > Base(anchor).seq)
        PROVE  FALSE
    <3>1. /\ Base(anchor).seq \in Nat /\ Base(anchor).seq <= highWater
          /\ anchor = None => Base(anchor).seq = book.seq /\ Accepted
      BY <1>2, <1>3 DEF Ready, HasBase, Base, Accepted
    <3>2. ~book.valid
      BY <1>2, <1>3, <2>1, <3>1
    <3>3. highWater' = highWater
      BY <1>1, <2>1, <3>1 DEF Larger
    <3>4. Deltas(upd, Base(anchor)) = Deltas(updates, Base(anchor))
      BY <1>3, <2>1 DEF Deltas
    <3>5. QED
      BY <1>3, <3>2, <3>3, <3>4 DEF WaitInv, Ready
  <2>2. QED
    BY <1>3, <2>1 DEF Deltas
<1>4. CASE m.kind = "snapshot" /\ anc = m
  BY <1>1, <1>4 DEF Origin
<1>5. CASE m.kind = "snapshot" /\ ~Newest(m) /\ upd = updates /\ anc = anchor
  <2>1. anchor # None /\ highWater' = highWater
    BY <1>1, <1>2, <1>5 DEF Newest, Larger
  <2>2. QED
    BY <1>2, <1>5, <2>1 DEF WaitInv
<1>6. QED
  BY <1>1, <1>3, <1>4, <1>5 DEF Candidate

\* Every step leaves what waits not ready for publication.
LEMMA WaitInvPreserved ==
    ASSUME IInv, WaitInv, [Next]_vars
    PROVE  WaitInv'
<1>1. CASE Quiet
  <2>1. Ready(updates, anchor, highWater)' = Ready(updates, anchor, highWater)
    BY <1>1 DEF Quiet, buffer, published, Ready, HasBase, Base, Accepted
  <2>2. \A u, v \in seenUpdates' : u.seq = v.seq => u = v
    BY <1>1 DEF Quiet, WaitInv, Registered
  <2>3. seenUpdates \subseteq seenUpdates'
    BY <1>1 DEF Quiet, Registered
  <2>4. QED
    BY <1>1, <2>1, <2>2, <2>3 DEF Quiet, buffer, published, WaitInv
<1>2. ASSUME Discard, Suspended, seenEvents \subseteq seenEvents',
             seenUpdates \subseteq seenUpdates',
             \A u, v \in seenUpdates' : u.seq = v.seq => u = v
      PROVE  WaitInv'
  <2>1. ~Ready(updates, anchor, highWater)'
    BY <1>2 DEF Discard, Ready, HasBase
  <2>2. QED
    BY <1>2, <2>1 DEF Discard, Suspended, published, WaitInv
<1>3. CASE Dropped
  BY <1>2, <1>3 DEF Dropped, WaitInv
<1>4. ASSUME NEW m, NEW t, NEW upd, NEW anc, TakesIn(m, t, upd, anc)
      PROVE  WaitInv'
  <2>1. /\ seenEvents' = seenEvents \cup {m} /\ seenUpdates \subseteq seenUpdates'
        /\ \A u, v \in seenUpdates' : u.seq = v.seq => u = v
        /\ upd \subseteq seenUpdates' /\ upd \subseteq seenEvents'
        /\ anc \in seenEvents' \cup {None}
        /\ m.kind = "update" => m \in seenUpdates'
    BY <1>4 DEF TakesIn, Registered, Candidate, WaitInv
  <2>2. CASE /\ Ready(upd, anc, highWater')
             /\ Publish(Base(anc), Deltas(upd, Base(anc)), anc, t)
    <3>1. book'.valid /\ updates' = {}
      BY <2>2 DEF Publish
    <3>2. \A u \in Origin(anc) : u \in seenEvents' /\ (u.kind = "update" => u \in seenUpdates')
      <4>1. CASE anc = None
        BY <2>1, <4>1 DEF Origin, WaitInv
      <4>2. CASE anc # None
        <5>1. Origin(anc) = {anc} /\ anc.kind = "snapshot"
          BY <1>4, <4>2, CandidateFits DEF Origin, Fit
        <5>2. QED
          BY <2>1, <4>2, <5>1
      <4>3. QED
        BY <4>1, <4>2
    <3>3. QED
      BY <2>1, <2>2, <3>1, <3>2 DEF Publish, Deltas, WaitInv
  <2>3. CASE Discard /\ Suspended
    BY <1>2, <2>1, <2>3
  <2>4. CASE /\ ~Ready(upd, anc, highWater') /\ Suspended
             /\ updates' = upd /\ anchor' = anc /\ UNCHANGED needsSnapshot
    <3>1. ~Ready(updates, anchor, highWater)'
      <4>1. (Accepted' <=> Accepted) /\ book'.seq = book.seq /\ book'.depth = book.depth
        BY <2>4, SuspendedBook DEF Suspended, IInv
      <4>2. QED
        BY <2>4, <4>1 DEF Suspended, published, Ready, HasBase, Base
    <3>2. QED
      BY <2>1, <2>4, <3>1 DEF Suspended, published, WaitInv
  <2>5. QED
    BY <1>4, <2>2, <2>3, <2>4, TryPublishKinds DEF TakesIn
<1>5. QED
  BY <1>1, <1>3, <1>4, StepKinds

\* What waits is never ready for publication.
LEMMA Waits == Spec => []WaitInv
<1>1. Init => WaitInv
  BY DEF Init, WaitInv, Ready, HasBase, Accepted
<1>2. IInv /\ WaitInv /\ [Next]_vars => WaitInv'
  BY WaitInvPreserved
<1>3. QED
  BY <1>1, <1>2, Invariant, PTL DEF Spec

\* Only news refreshes an age: every publication uses the message that was
\* just delivered and had never been registered.
THEOREM OnlyNewsPublishes == Spec => OnlyNewsRefreshes
<1> DEFINE News ==
        <<lastReceive, stateTime, publication>>'
            # <<lastReceive, stateTime, publication>> =>
        \E m \in provenance' \ provenance : seenEvents' \ seenEvents = {m}
<1>1. ASSUME IInv, WaitInv, [Next]_vars
      PROVE  News
  <2>1. ASSUME NEW m, NEW t, NEW upd, NEW anc, TakesIn(m, t, upd, anc)
        PROVE  News
    <3>1. CASE /\ Ready(upd, anc, highWater')
               /\ Publish(Base(anc), Deltas(upd, Base(anc)), anc, t)
      <4>1. m \in provenance'
        BY <1>1, <2>1, <3>1, ReadyByNews DEF Publish
      <4>2. m \notin seenEvents /\ seenEvents' = seenEvents \cup {m}
        BY <2>1 DEF TakesIn, Registered, Known
      <4>3. m \notin provenance
        BY <1>1, <4>2 DEF WaitInv
      <4>4. QED
        BY <4>1, <4>2, <4>3
    <3>2. CASE Suspended
      BY <3>2 DEF Suspended, published
    <3>3. QED
      BY <2>1, <3>1, <3>2, TryPublishKinds DEF TakesIn
  <2>2. CASE Quiet \/ Dropped
    BY <2>2 DEF Quiet, Dropped, Suspended, published
  <2>3. QED
    BY <1>1, <2>1, <2>2, StepKinds
<1>2. IInv /\ WaitInv /\ [Next]_vars => [News]_vars
  BY <1>1
<1>3. QED
  BY <1>2, Waits, Invariant, PTL DEF Spec, OnlyNewsRefreshes

-----------------------------------------------------------------------------
\* The provenance.

\* Deltas with one update for each sequence after a, up to b.
Gapless(deltas, a, b) ==
    /\ \A u, v \in deltas : u.seq = v.seq => u = v
    /\ {u.seq : u \in deltas} = a + 1 .. b

\* There are as many of them as sequences.
LEMMA GaplessCount ==
    ASSUME NEW deltas, NEW a \in Nat, NEW b \in Nat, a <= b, Gapless(deltas, a, b)
    PROVE  Cardinality(deltas) = b - a
<1> DEFINE f == [u \in deltas |-> u.seq]
           I == a + 1 .. b
<1>1. IsFiniteSet(I) /\ Cardinality(I) = b - a
  <2>1. a + 1 \in Int /\ b \in Int
    OBVIOUS
  <2>2. /\ IsFiniteSet(a + 1 .. b)
        /\ Cardinality(a + 1 .. b) = IF a + 1 > b THEN 0 ELSE b - (a + 1) + 1
    BY <2>1, FS_Interval
  <2>3. (IF a + 1 > b THEN 0 ELSE b - (a + 1) + 1) = b - a
    OBVIOUS
  <2>4. QED
    BY <2>2, <2>3
<1>2. f \in Injection(deltas, I) /\ f \in Surjection(deltas, I)
  BY DEF Gapless, Injection, Surjection, IsInjective
<1>3. QED
  <2> HIDE DEF f, I
  <2> QED
    BY <1>1, <1>2, FS_Injection

\* The last of two sets of deltas, one after the other, is the last of the
\* second.
LEMMA LatestOfLater ==
    ASSUME NEW D, NEW E, E # {}, NEW h \in Nat, Bounded(D, h), Bounded(E, h),
           \A u \in D, v \in E : u.seq < v.seq,
           \A u, v \in E : u.seq = v.seq => u = v
    PROVE  Latest(D \cup E) = Latest(E)
<1>1. Latest(E) \in E /\ \A v \in E : v.seq <= Latest(E).seq
  BY LatestIsLast
<1>2. Bounded(D \cup E, h) /\ D \cup E # {}
  BY DEF Bounded
<1>3. Latest(D \cup E) \in D \cup E /\ \A v \in D \cup E : v.seq <= Latest(D \cup E).seq
  BY <1>2, LatestIsLast
<1>4. Latest(D \cup E) \in E
  BY <1>1, <1>3 DEF Bounded
<1>5. Latest(D \cup E).seq = Latest(E).seq
  <2>1. Latest(E) \in D \cup E
    BY <1>1
  <2>2. Latest(E).seq <= Latest(D \cup E).seq /\ Latest(D \cup E).seq <= Latest(E).seq
    BY <1>1, <1>3, <1>4, <2>1
  <2>3. Latest(E).seq \in Nat /\ Latest(D \cup E).seq \in Nat
    BY <1>1, <1>4 DEF Bounded
  <2>4. QED
    BY <2>2, <2>3
<1>6. QED
  BY <1>1, <1>4, <1>5

\* Replaying one set of deltas after the other is replaying both.
LEMMA ReplayInTwo ==
    ASSUME NEW base, NEW D, NEW E, NEW h \in Nat, Bounded(D, h), Bounded(E, h),
           \A u \in D, v \in E : u.seq < v.seq,
           \A u, v \in E : u.seq = v.seq => u = v,
           NEW middle, middle.depth = Replay(base, D)
    PROVE  Replay(middle, E) = Replay(base, D \cup E)
<1>1. ASSUME NEW k \in Keys
      PROVE  Replay(middle, E)[k] = Replay(base, D \cup E)[k]
  <2> DEFINE d == {u \in D : k \in DOMAIN u.levels}
             e == {u \in E : k \in DOMAIN u.levels}
             both == {u \in D \cup E : k \in DOMAIN u.levels}
  <2>1. both = d \cup e
    OBVIOUS
  <2>2. /\ Replay(middle, E)[k] = IF e = {} THEN middle.depth[k] ELSE Latest(e).levels[k]
        /\ Replay(base, D \cup E)[k] = IF both = {} THEN base.depth[k]
                                       ELSE Latest(both).levels[k]
        /\ Replay(base, D)[k] = IF d = {} THEN base.depth[k] ELSE Latest(d).levels[k]
    BY DEF Replay
  <2>3. CASE e = {}
    BY <2>1, <2>2, <2>3
  <2>4. CASE e # {}
    <3>1. Latest(d \cup e) = Latest(e)
      <4>1. Bounded(d, h) /\ Bounded(e, h)
        BY DEF Bounded
      <4>2. \A u \in d, v \in e : u.seq < v.seq
        OBVIOUS
      <4>3. \A u, v \in e : u.seq = v.seq => u = v
        OBVIOUS
      <4> HIDE DEF d, e
      <4>4. QED
        BY <2>4, <4>1, <4>2, <4>3, LatestOfLater
    <3>2. both # {}
      BY <2>1, <2>4
    <3>3. QED
      BY <2>1, <2>2, <2>4, <3>1, <3>2
  <2>5. QED
    BY <2>3, <2>4
<1>2. QED
  BY <1>1 DEF Replay

\* A snapshot as the base of a candidate.
From(s) == [seq |-> s.seq, depth |-> s.levels, time |-> s.time]

\* A snapshot and the deltas after it explain a book.
Explains(s, deltas, seq, depth, time) ==
    /\ s.kind = "snapshot" /\ s \in Messages /\ deltas \subseteq Messages
    /\ \A u \in deltas : u.kind = "update"
    /\ seq \in Nat /\ s.seq <= seq
    /\ Gapless(deltas, s.seq, seq)
    /\ depth = Replay(From(s), deltas)
    /\ \A u, v \in deltas \cup {s} : u.seq <= v.seq => u.time <= v.time
    /\ time = LastTime(From(s), deltas)

\* A snapshot explains itself.
LEMMA SnapshotExplains ==
    ASSUME NEW s \in Messages, s.kind = "snapshot"
    PROVE  Explains(s, {}, s.seq, s.levels, s.time)
<1>1. s.seq \in Nat /\ s.levels \in Depth /\ s.time \in Nat
  BY FeedAssumption DEF IsMessage
<1>2. Replay(From(s), {}) = s.levels /\ LastTime(From(s), {}) = s.time
  BY <1>1, ReplayNothing DEF From, LastTime
<1>3. {u.seq : u \in {}} = s.seq + 1 .. s.seq
  BY <1>1
<1>4. QED
  BY <1>1, <1>2, <1>3 DEF Explains, Gapless

\* A clean candidate on an explained book is explained.
LEMMA ExplainsMore ==
    ASSUME NEW s, NEW D, NEW base, base.seq \in Nat, base.time \in Nat,
           Explains(s, D, base.seq, base.depth, base.time),
           NEW E, E \subseteq Messages, \A u \in E : u.kind = "update",
           NEW h \in Nat, base.seq <= h, Gapless(E, base.seq, h),
           Clean(base, E)
    PROVE  Explains(s, D \cup E, h, Replay(base, E), LastTime(base, E))
<1>1. /\ s.seq \in Nat /\ s.time \in Nat /\ s.seq <= base.seq
      /\ \A u \in D \cup E : u.seq \in Nat /\ u.time \in Nat /\ u.kind = "update"
      /\ D \cup E \subseteq Messages /\ s \in Messages /\ s.kind = "snapshot"
  BY FeedAssumption DEF Explains, IsMessage
<1>2. /\ \A u \in D : u.seq > s.seq /\ u.seq <= base.seq
      /\ \A v \in E : v.seq > base.seq /\ v.seq <= h
  <2>1. \A u \in D : u.seq \in s.seq + 1 .. base.seq
    BY DEF Explains, Gapless
  <2>2. \A v \in E : v.seq \in base.seq + 1 .. h
    BY DEF Gapless
  <2>3. QED
    BY <1>1, <2>1, <2>2
<1>3. /\ Bounded(D, h) /\ Bounded(E, h)
      /\ \A u \in D, v \in E : u.seq < v.seq
      /\ \A u, v \in E : u.seq = v.seq => u = v
      /\ \A u, v \in D : u.seq = v.seq => u = v
  BY <1>1, <1>2 DEF Bounded, Gapless, Explains
<1>4. Gapless(D \cup E, s.seq, h)
  <2>1. \A u, v \in D \cup E : u.seq = v.seq => u = v
    BY <1>1, <1>3
  <2>2. ASSUME NEW n \in s.seq + 1 .. h
        PROVE  n \in {u.seq : u \in D \cup E}
    <3>1. CASE n <= base.seq
      <4>1. n \in s.seq + 1 .. base.seq
        BY <1>1, <3>1
      <4>2. n \in {u.seq : u \in D}
        BY <4>1 DEF Explains, Gapless
      <4>3. QED
        BY <4>2
    <3>2. CASE n > base.seq
      <4>1. n \in base.seq + 1 .. h
        BY <1>1, <3>2
      <4>2. n \in {u.seq : u \in E}
        BY <4>1 DEF Gapless
      <4>3. QED
        BY <4>2
    <3>3. QED
      BY <1>1, <3>1, <3>2
  <2>3. \A u \in D \cup E : u.seq \in s.seq + 1 .. h
    BY <1>1, <1>2
  <2>4. QED
    BY <2>1, <2>2, <2>3 DEF Gapless
<1>5. Replay(base, E) = Replay(From(s), D \cup E)
  BY <1>3, ReplayInTwo DEF Explains
<1>6. LastTime(base, E) = LastTime(From(s), D \cup E)
  <2>1. CASE E = {}
    BY <2>1 DEF LastTime, Explains
  <2>2. CASE E # {}
    <3>1. Latest(D \cup E) = Latest(E)
      BY <1>3, <2>2, LatestOfLater
    <3>2. QED
      BY <2>2, <3>1 DEF LastTime
  <2>3. QED
    BY <2>1, <2>2
\* No message of the book is later than the book.
<1>7. \A u \in D \cup {s} : u.time <= base.time
  <2>1. CASE D = {}
    BY <1>1, <2>1 DEF Explains, LastTime, From
  <2>2. CASE D # {}
    <3>1. Latest(D) \in D /\ \A v \in D : v.seq <= Latest(D).seq
      BY <1>3, <2>2, LatestIsLast
    <3>2. base.time = Latest(D).time
      BY <2>2 DEF Explains, LastTime
    <3>3. s.seq <= Latest(D).seq
      BY <1>1, <1>2, <3>1
    <3>4. QED
      BY <3>1, <3>2, <3>3 DEF Explains
  <2>3. QED
    BY <2>1, <2>2
<1>8. ASSUME NEW u \in D \cup E \cup {s}, NEW v \in D \cup E \cup {s}, u.seq <= v.seq
      PROVE  u.time <= v.time
  <2>1. CASE u \in D \cup {s} /\ v \in D \cup {s}
    BY <1>8, <2>1 DEF Explains
  <2>2. CASE u \in D \cup {s} /\ v \in E
    <3>1. u.time <= base.time /\ base.time <= v.time
      BY <1>7, <2>2 DEF Clean
    <3>2. QED
      BY <1>1, <2>2, <3>1
  <2>3. CASE u \in E /\ v \in D \cup {s}
    BY <1>1, <1>2, <1>8, <2>3
  <2>4. CASE u \in E /\ v \in E
    <3>1. CASE u.seq = v.seq
      BY <1>1, <1>3, <2>4, <3>1
    <3>2. CASE u.seq < v.seq
      BY <2>4, <3>2 DEF Clean
    <3>3. QED
      BY <1>1, <1>8, <2>4, <3>1, <3>2
  <2>5. QED
    BY <2>1, <2>2, <2>3, <2>4
<1>9. QED
  BY <1>1, <1>4, <1>5, <1>6, <1>8 DEF Explains

\* The inductive invariant of the provenance: the published book, when there
\* is one, is explained by a snapshot and the rest of the provenance.
ChainInv ==
    Accepted => \E s \in provenance :
                    Explains(s, provenance \ {s}, book.seq, book.depth, stateTime)

\* A publication leaves an explained book, whether it starts from the anchor
\* or extends the last one.
LEMMA PublishExplains ==
    ASSUME IInv, WaitInv, ChainInv,
           NEW m, NEW t, NEW upd, NEW anc, TakesIn(m, t, upd, anc),
           Ready(upd, anc, highWater'), Clean(Base(anc), Deltas(upd, Base(anc))),
           Publish(Base(anc), Deltas(upd, Base(anc)), anc, t)
    PROVE  ChainInv'
<1> DEFINE base == Base(anc)
           E == Deltas(upd, base)
           h == highWater'
<1>1. Fit(upd, anc, h)
  BY CandidateFits
<1>2. h \in Nat /\ h >= highWater
  BY FeedAssumption DEF TakesIn, Registered, IsMessage, IInv, CoreInv, Larger
<1>3. /\ base.seq \in Nat /\ base.time \in Nat /\ base.seq <= h
  <2>1. CASE anc # None
    BY <1>1, <2>1, FeedAssumption DEF Fit, IsMessage, Base
  <2>2. CASE anc = None
    BY <1>2, <2>2 DEF Ready, HasBase, Base, Accepted, IInv, CoreInv, NoSeq
  <2>3. QED
    BY <2>1, <2>2
<1>4. PICK s \in Origin(anc) :
          Explains(s, Origin(anc) \ {s}, base.seq, base.depth, base.time)
  <2>1. CASE anc # None
    <3>1. anc \in Messages /\ anc.kind = "snapshot"
      BY <1>1, <2>1 DEF Fit
    <3>2. Explains(anc, {}, anc.seq, anc.levels, anc.time)
      BY <3>1, SnapshotExplains
    <3>3. Origin(anc) = {anc} /\ Origin(anc) \ {anc} = {}
      BY <2>1 DEF Origin
    <3>4. base.seq = anc.seq /\ base.depth = anc.levels /\ base.time = anc.time
      BY <2>1 DEF Base
    <3>5. QED
      BY <3>2, <3>3, <3>4
  <2>2. CASE anc = None
    <3>1. Accepted
      BY <2>2 DEF Ready, HasBase
    <3>2. Origin(anc) = provenance
      BY <2>2 DEF Origin
    <3>3. base.seq = book.seq /\ base.depth = book.depth /\ base.time = stateTime
      BY <2>2 DEF Base
    <3>4. QED
      BY <3>1, <3>2, <3>3 DEF ChainInv
  <2>3. QED
    BY <2>1, <2>2
<1>5. /\ E \subseteq Messages
      /\ \A u \in E : u.kind = "update" /\ u.seq \in Nat /\ u.seq > base.seq /\ u.seq <= h
  BY <1>1, FeedAssumption DEF Fit, Deltas, IsMessage
<1>6. Joined(base, E, h)
  BY DEF Ready
<1>7. Gapless(E, base.seq, h)
  <2>1. \A u, v \in E : u.seq = v.seq => u = v
    BY DEF TakesIn, Registered, Candidate, WaitInv, Deltas
  <2>2. \A u \in E : u.seq \in base.seq + 1 .. h
    BY <1>2, <1>3, <1>5
  <2>3. ASSUME NEW n \in base.seq + 1 .. h
        PROVE  n \in {u.seq : u \in E}
    <3>1. ~(base.seq >= h)
      BY <1>2, <1>3
    <3>2. PICK u \in E : u.seq >= h
      BY <1>6, <3>1 DEF Joined
    <3>3. n \in base.seq + 1 .. u.seq
      BY <1>2, <1>3, <1>5, <3>2
    <3>4. PICK v \in E : v.seq = n
      BY <1>6, <3>2, <3>3 DEF Joined
    <3>5. QED
      BY <3>4
  <2>4. QED
    BY <2>1, <2>2, <2>3 DEF Gapless
<1>8. Explains(s, (Origin(anc) \ {s}) \cup E, h, Replay(base, E), LastTime(base, E))
  <2> HIDE DEF base, E, h
  <2> QED
    BY <1>2, <1>3, <1>4, <1>5, <1>7, ExplainsMore DEF base, E
<1>9. LastSeq(base, E) = h
  <2>1. Bounded(E, h) /\ \A u \in E : u.seq > base.seq
    BY <1>5 DEF Bounded
  <2> HIDE DEF base, E, h
  <2>2. QED
    BY <1>2, <1>3, <1>6, <2>1, JoinedEndsAtHigh
<1>10. s \notin E
  BY <1>4, <1>5 DEF Explains
<1>11. /\ provenance' = Origin(anc) \cup E
       /\ book'.seq = h /\ book'.depth = Replay(base, E) /\ stateTime' = LastTime(base, E)
  BY <1>9 DEF Publish
<1>12. provenance' \ {s} = (Origin(anc) \ {s}) \cup E /\ s \in provenance'
  BY <1>4, <1>10, <1>11
<1>13. Explains(s, provenance' \ {s}, book'.seq, book'.depth, stateTime')
  BY <1>8, <1>11, <1>12
<1>14. QED
  BY <1>12, <1>13 DEF ChainInv

\* Steps that publish nothing leave book and provenance as they are.
LEMMA ChainInvPreserved ==
    ASSUME IInv, WaitInv, ChainInv, [Next]_vars
    PROVE  ChainInv'
<1>1. CASE Quiet
  BY <1>1 DEF Quiet, published, ChainInv, Accepted
<1>2. CASE Suspended
  <2>1. /\ (Accepted' <=> Accepted) /\ book'.seq = book.seq /\ book'.depth = book.depth
        /\ provenance' = provenance /\ stateTime' = stateTime
    BY <1>2, SuspendedBook DEF Suspended, published, IInv
  <2>2. QED
    BY <2>1 DEF ChainInv
<1>3. ASSUME NEW m, NEW t, NEW upd, NEW anc, TakesIn(m, t, upd, anc)
      PROVE  ChainInv'
  BY <1>2, <1>3, TryPublishKinds, PublishExplains DEF TakesIn
<1>4. QED
  BY <1>1, <1>2, <1>3, StepKinds DEF Dropped

\* The published book is explained by its provenance: a snapshot and every
\* delta after it, none missing and none in twice, in order of time.
THEOREM ProvenanceExplains == Spec => []PublishedChain
<1>1. Init => ChainInv
  BY DEF Init, ChainInv, Accepted, NoSeq
<1>2. IInv /\ WaitInv /\ ChainInv /\ [Next]_vars => ChainInv'
  BY ChainInvPreserved
<1>3. ChainInv => PublishedChain
  <2> SUFFICES ASSUME Accepted,
                      NEW s \in provenance,
                      Explains(s, provenance \ {s}, book.seq, book.depth, stateTime)
               PROVE  PublishedChain
    BY DEF ChainInv, PublishedChain
  <2> DEFINE deltas == provenance \ {s}
  <2>1. s.seq \in Nat /\ book.seq \in Nat /\ s.seq <= book.seq
    BY FeedAssumption DEF Explains, IsMessage
  <2>2. Gapless(deltas, s.seq, book.seq)
    BY DEF Explains
  <2>3. Cardinality(deltas) = book.seq - s.seq
    <3> HIDE DEF deltas
    <3> QED
      BY <2>1, <2>2, GaplessCount
  <2>4. provenance = deltas \cup {s}
    OBVIOUS
  <2>5. \A u, v \in provenance : u.seq <= v.seq => u.time <= v.time
    BY <2>4 DEF Explains
  <2>6. QED
    BY <2>2, <2>3, <2>5 DEF Explains, Gapless, From, PublishedChain
<1>4. QED
  BY <1>1, <1>2, <1>3, Waits, Invariant, PTL DEF Spec

-----------------------------------------------------------------------------
\* One truth.

\* What is registered is well-formed and true to one source.
Told(truth) == \A m \in seenEvents : WellFormed(m) /\ TrueTo(truth, m)

Shown(truth) == Accepted => book.depth = truth[book.seq]

\* A step registers at most the well-formed message it is given.
LEMMA ToldByReceive ==
    ASSUME NEW truth, Told(truth), NEW m, NEW t, Receive(m, t), TrueTo(truth, m)
    PROVE  Told(truth)'
<1>1. seenEvents' = seenEvents \/ (WellFormed(m) /\ seenEvents' = seenEvents \cup {m})
  BY DEF Receive, RejectContent, RepeatEvent, ConflictEvent, Register, seen
<1>2. \A n \in seenEvents' : WellFormed(n) /\ TrueTo(truth, n)
  BY <1>1 DEF Told
<1>3. QED
  BY <1>2 DEF Told

\* While what it is told is true, the book is.
LEMMA ShownKept ==
    ASSUME IInv, WaitInv, NEW truth, Told(truth)', Shown(truth), [Next]_vars
    PROVE  Shown(truth)'
<1>1. CASE Quiet
  BY <1>1 DEF Quiet, Shown, Accepted
<1>2. CASE Suspended
  BY <1>2, SuspendedBook DEF Suspended, Shown, IInv
<1>3. ASSUME NEW m, NEW t, NEW upd, NEW anc, TakesIn(m, t, upd, anc)
      PROVE  Shown(truth)'
  <2> DEFINE base == Base(anc)
             E == Deltas(upd, base)
             h == highWater'
  <2>1. CASE /\ Ready(upd, anc, h) /\ Clean(base, E)
             /\ Publish(base, E, anc, t)
    <3>1. /\ Fit(upd, anc, h) /\ h \in Nat /\ h >= highWater
          /\ HasBase(anc) /\ Joined(base, E, h)
      BY <1>3, <2>1, CandidateFits DEF TakesIn, Advance, Ready
    <3>2. upd \subseteq seenEvents' /\ anc \in seenEvents' \cup {None}
      BY <1>3 DEF TakesIn, Registered, Candidate, WaitInv
    <3>3. \A n \in seenEvents' : WellFormed(n) /\ TrueTo(truth, n)
      BY DEF Told
    <3>4. /\ base.seq \in Nat /\ base.depth \in Depth /\ base.seq <= h
          /\ base.depth = truth[base.seq]
      <4>1. CASE anc # None
        <5>1. anc \in Messages /\ anc.kind = "snapshot" /\ anc.seq <= h
          BY <3>1, <4>1 DEF Fit
        <5>2. anc.seq \in Nat /\ anc.levels \in Depth
          BY <5>1, FeedAssumption DEF IsMessage
        <5>3. anc.levels = truth[anc.seq]
          BY <3>2, <3>3, <4>1, <5>1 DEF TrueTo
        <5>4. QED
          BY <4>1, <5>1, <5>2, <5>3 DEF Base
      <4>2. CASE anc = None
        BY <3>1, <4>2 DEF HasBase, Base, Accepted, Shown, IInv, CoreInv, NoSeq
      <4>3. QED
        BY <4>1, <4>2
    <3>5. /\ E \subseteq Messages
          /\ \A u \in E : /\ u.kind = "update" /\ WellFormed(u) /\ TrueTo(truth, u)
                          /\ u.seq \in Nat /\ u.seq > base.seq /\ u.seq <= h
      BY <3>1, <3>2, <3>3, FeedAssumption DEF Fit, Deltas, IsMessage
    <3> HIDE DEF base, E, h
    <3>6. Replay(base, E) = truth[h]
      BY <3>1, <3>4, <3>5, TrueReplay
    <3>7. LastSeq(base, E) = h
      BY <3>1, <3>4, <3>5, JoinedEndsAtHigh DEF Bounded
    <3>8. QED
      BY <2>1, <3>6, <3>7 DEF Publish, Shown
  <2>2. CASE Suspended
    BY <1>2, <2>2
  <2>3. QED
    BY <1>3, <2>1, <2>2, TryPublishKinds DEF TakesIn
<1>4. QED
  BY <1>1, <1>2, <1>3, StepKinds DEF Dropped

\* In a session whose well-formed messages tell the truth, the published book
\* is the source's book at its sequence, whatever the feed loses, repeats,
\* delays or corrupts detectably.
THEOREM HonestViewIsTrue == Spec => []TrueToSource
<1> DEFINE Honesty == \A m \in Messages : Honest(m)
           Holds == Honesty => Told(History) /\ Shown(History)
<1>1. Init => Holds
  BY DEF Init, Told, Shown, Accepted, NoSeq
<1>2. IInv /\ WaitInv /\ Holds /\ [Next]_vars => Holds'
  <2> SUFFICES ASSUME IInv, WaitInv, Holds, [Next]_vars, Honesty
               PROVE  Told(History)' /\ Shown(History)'
    OBVIOUS
  <2>1. Told(History)'
    <3>1. ASSUME NEW m \in Messages, NEW t, Receive(m, t)
          PROVE  Told(History)'
      BY <3>1, ToldByReceive DEF Honest
    <3>2. CASE seenEvents' = seenEvents
      BY <3>2 DEF Told
    <3>3. QED
      BY <3>1, <3>2 DEF Next, CheckTimeout, vars, seen
  <2>2. QED
    BY <2>1, ShownKept
<1>3. Holds => TrueToSource
  BY DEF Shown, TrueToSource
<1>4. QED
  BY <1>1, <1>2, <1>3, Waits, Invariant, PTL DEF Spec

-----------------------------------------------------------------------------
\* Episodes.

\* A feed that has not started its clock while its book is not usable has
\* registered nothing; what waits is finite and within its bound.
EpisodeInv ==
    /\ IsFiniteSet(updates) /\ Cardinality(updates) <= MaxBuffer
    /\ ~book.valid /\ since = NoTime => seenEvents = {} /\ seenUpdates = {}

\* What a step at time t makes of the episode: a book that is usable then is a
\* new one or the old one untouched, another one has a running clock.
EpisodeMoves(t) ==
    IF book'.valid
    THEN publication' = publication + 1 \/ (book.valid /\ publication' = publication)
    ELSE publication' = publication /\ since' \in {since, t} \ {NoTime}

LEMMA EpisodeStarts == Init => EpisodeInv
BY FS_EmptySet, ConfigAssumption DEF Init, EpisodeInv

\* What waits is discarded or kept, and its clock runs, unless the book is
\* published; only an overflow restarts a running clock.
LEMMA EpisodeAfterReset ==
    ASSUME IInv, NEW t \in Nat, Reset(t)
    PROVE  EpisodeInv' /\ EpisodeMoves(t) /\ (since # NoTime => since' = since)
<1>1. book \in [depth : Depth, seq : Nat \cup {NoSeq}, valid : BOOLEAN] /\ t # NoTime
  BY DEF IInv, CoreInv, NoTime
<1>2. updates' = {} /\ ~book'.valid /\ publication' = publication
  BY <1>1 DEF Reset, Discard, Invalidate, published
<1>3. since' = IF since = NoTime THEN t ELSE since
  BY DEF Reset, Invalidate
<1>4. IsFiniteSet(updates') /\ Cardinality(updates') <= MaxBuffer
  BY <1>2, FS_EmptySet, ConfigAssumption
<1>5. QED
  BY <1>1, <1>2, <1>3, <1>4 DEF EpisodeInv, EpisodeMoves

LEMMA EpisodeAfterTry ==
    ASSUME IInv, NEW t \in Nat, NEW upd, NEW anc, IsFiniteSet(upd), TryPublish(upd, anc, t)
    PROVE  /\ EpisodeInv' /\ EpisodeMoves(t)
           /\ since # NoTime /\ Cardinality(upd) <= MaxBuffer /\ ~book'.valid => since' = since
<1>1. book \in [depth : Depth, seq : Nat \cup {NoSeq}, valid : BOOLEAN] /\ t # NoTime
  BY DEF IInv, CoreInv, NoTime
<1>2. IsFiniteSet({}) /\ Cardinality({}) <= MaxBuffer
  BY FS_EmptySet, ConfigAssumption
<1>3. CASE Publish(Base(anc), Deltas(upd, Base(anc)), anc, t)
  BY <1>2, <1>3 DEF Publish, EpisodeInv, EpisodeMoves
<1>4. CASE Reset(t)
  BY <1>4, EpisodeAfterReset
<1>5. CASE Wait(upd, anc, t) /\ Cardinality(upd) <= MaxBuffer
  <2>1. /\ updates' = upd /\ ~book'.valid /\ publication' = publication
        /\ since' = IF since = NoTime THEN t ELSE since
    <3>1. Cardinality(upd) \in Nat
      BY FS_CardinalityType
    <3>2. ~(Cardinality(upd) > MaxBuffer)
      BY <1>5, <3>1, ConfigAssumption
    <3>3. QED
      BY <1>1, <1>5, <3>2 DEF Wait, Invalidate, published
  <2>2. QED
    BY <1>1, <1>5, <2>1 DEF EpisodeInv, EpisodeMoves
<1>6. CASE Wait(upd, anc, t) /\ ~(Cardinality(upd) <= MaxBuffer)
  <2>1. updates' = {} /\ ~book'.valid /\ publication' = publication /\ since' = t
    BY <1>1, <1>6 DEF Wait, ResetAndRestart, Discard, published
  <2>2. QED
    BY <1>1, <1>2, <1>6, <2>1 DEF EpisodeInv, EpisodeMoves
<1>7. QED
  BY <1>3, <1>4, <1>5, <1>6 DEF TryPublish

\* Nothing happens to the book and its clock.
LEMMA EpisodeStays ==
    ASSUME IInv, EpisodeInv, NEW t \in Nat, UNCHANGED <<book, published, since, buffer>>,
           book.valid \/ since # NoTime
    PROVE  EpisodeInv' /\ EpisodeMoves(t) /\ since' = since
BY DEF IInv, CoreInv, EpisodeInv, EpisodeMoves, published, buffer

\* A delivery: a snapshot, unlike a delta, never restarts a running clock.
LEMMA EpisodeAfterReceive ==
    ASSUME IInv, EpisodeInv, NEW m \in Messages, NEW t \in Nat, Receive(m, t)
    PROVE  /\ EpisodeInv' /\ EpisodeMoves(t)
           /\ m.kind = "snapshot" /\ since # NoTime /\ ~book'.valid => since' = since
<1>1. seenEvents # {} \/ seenUpdates # {} \/ Accepted => book.valid \/ since # NoTime
  BY DEF EpisodeInv, IInv, CoreInv
<1>2. CASE RejectContent(m, t) \/ ConflictEvent(m, t)
  BY <1>2, EpisodeAfterReset DEF RejectContent, ConflictEvent
<1>3. CASE RepeatEvent(m)
  BY <1>1, <1>3, EpisodeStays DEF RepeatEvent
<1>4. CASE ReceiveUpdate(m, t)
  <2>1. m.kind # "snapshot"
    BY <1>4 DEF ReceiveUpdate
  <2>2. CASE RepeatUpdate(m) \/ CoveredUpdate(m)
    BY <1>1, <2>2, EpisodeStays DEF RepeatUpdate, CoveredUpdate
  <2>3. CASE ConflictUpdate(m, t)
    BY <2>3, EpisodeAfterReset DEF ConflictUpdate
  <2>4. CASE BufferUpdate(m, t)
    <3>1. IsFiniteSet(updates \cup {m})
      BY FS_AddElement DEF EpisodeInv
    <3>2. QED
      BY <2>1, <2>4, <3>1, EpisodeAfterTry DEF BufferUpdate
  <2>5. QED
    BY <1>4, <2>2, <2>3, <2>4 DEF ReceiveUpdate
<1>5. CASE ReceiveSnapshot(m, t)
  <2>1. CASE ConflictSnapshot(m, t) \/ RejectSnapshot(m, t)
    BY <2>1, EpisodeAfterReset DEF ConflictSnapshot, RejectSnapshot
  <2>2. CASE AnchorSnapshot(m, t)
    <3>1. PICK upd, anc : upd \subseteq updates /\ TryPublish(upd, anc, t)
      BY <2>2 DEF AnchorSnapshot
    <3>2. IsFiniteSet(upd) /\ Cardinality(upd) <= MaxBuffer
      <4>1. IsFiniteSet(upd) /\ Cardinality(upd) <= Cardinality(updates)
        BY <3>1, FS_Subset DEF EpisodeInv
      <4>2. Cardinality(upd) \in Nat /\ Cardinality(updates) \in Nat
        BY <4>1, FS_CardinalityType DEF EpisodeInv
      <4>3. QED
        BY <4>1, <4>2, ConfigAssumption DEF EpisodeInv
    <3>3. QED
      BY <3>1, <3>2, EpisodeAfterTry
  <2>3. QED
    BY <1>5, <2>1, <2>2 DEF ReceiveSnapshot
<1>6. QED
  BY <1>2, <1>3, <1>4, <1>5 DEF Receive

\* A check of the timeout: an episode that has run its time gives way to the
\* next one, with nothing waiting.
LEMMA EpisodeAfterCheck ==
    ASSUME IInv, EpisodeInv, NEW t \in Nat, CheckTimeout(t)
    PROVE  /\ EpisodeInv' /\ EpisodeMoves(t)
           /\ ~book.valid /\ since # NoTime /\ t - since >= Timeout =>
                  ~book'.valid /\ since' = t /\ Discard
<1>1. book \in [depth : Depth, seq : Nat \cup {NoSeq}, valid : BOOLEAN] /\ t # NoTime
  BY DEF IInv, CoreInv, NoTime
<1>2. CASE StillWaiting(t)
  <2>1. ~(~book.valid /\ since # NoTime /\ t - since >= Timeout)
    BY <1>2, ConfigAssumption DEF StillWaiting, IInv, CoreInv, NoTime
  <2>2. UNCHANGED <<book, published, since, buffer>> /\ (book.valid \/ since # NoTime)
    BY <1>2 DEF StillWaiting
  <2>3. QED
    BY <2>1, <2>2, EpisodeStays
<1>3. CASE StartEpisode(t)
  BY <1>1, <1>3 DEF StartEpisode, published, buffer, EpisodeInv, EpisodeMoves
<1>4. CASE Expire(t)
  <2>1. updates' = {} /\ ~book'.valid /\ publication' = publication /\ since' = t /\ Discard
    BY <1>1, <1>4 DEF Expire, ResetAndRestart, Discard, published
  <2>2. IsFiniteSet(updates') /\ Cardinality(updates') <= MaxBuffer
    BY <2>1, FS_EmptySet, ConfigAssumption
  <2>3. QED
    BY <1>1, <2>1, <2>2 DEF EpisodeInv, EpisodeMoves
<1>5. QED
  BY <1>2, <1>3, <1>4 DEF CheckTimeout

LEMMA EpisodesAlways == Spec => []EpisodeInv
<1>1. ASSUME IInv, EpisodeInv, [Next]_vars
      PROVE  EpisodeInv'
  <2>1. CASE UNCHANGED vars
    BY <1>1, <2>1 DEF vars, buffer, seen, EpisodeInv
  <2>2. ASSUME NEW t \in clock .. MaxTime, NEW m \in Messages, Receive(m, t)
        PROVE  EpisodeInv'
    <3>1. t \in Nat
      BY <1>1, ConfigAssumption DEF IInv, CoreInv
    <3>2. QED
      BY <1>1, <2>2, <3>1, EpisodeAfterReceive
  <2>3. ASSUME NEW t \in clock .. MaxTime, CheckTimeout(t)
        PROVE  EpisodeInv'
    <3>1. t \in Nat
      BY <1>1, ConfigAssumption DEF IInv, CoreInv
    <3>2. QED
      BY <1>1, <2>3, <3>1, EpisodeAfterCheck
  <2>4. QED
    BY <1>1, <2>1, <2>2, <2>3 DEF Next
<1>2. QED
  BY <1>1, EpisodeStarts, Invariant, PTL DEF Spec

\* Of all deliveries in a running episode that publish nothing, only one that
\* overflows the buffer moves the clock, and that one always does.
LEMMA DeliveryMovesClock ==
    ASSUME IInv, EpisodeInv, since # NoTime, NEW m \in Messages, NEW t \in Nat,
           Receive(m, t), ~book'.valid
    PROVE  since' = IF Overflows(m) THEN t ELSE since
<1>1. ASSUME NEW u, Reset(u)
      PROVE  since' = since
  BY <1>1 DEF Reset, Invalidate
<1> m.seq \in Nat /\ book.seq \in Nat \cup {NoSeq} /\ NoSeq \in Int
  BY FeedAssumption DEF IsMessage, IInv, CoreInv, NoSeq
<1>2. CASE RejectContent(m, t)
  BY <1>1, <1>2 DEF RejectContent, Overflows
<1>3. CASE RepeatEvent(m) \/ ConflictEvent(m, t)
  BY <1>1, <1>3 DEF RepeatEvent, ConflictEvent, Overflows, Known
<1>4. CASE WellFormed(m) /\ ~Known(m) /\ ReceiveUpdate(m, t)
  <2>1. CASE RepeatUpdate(m) \/ CoveredUpdate(m)
    BY <2>1 DEF RepeatUpdate, CoveredUpdate, Overflows
  <2>2. CASE ConflictUpdate(m, t)
    BY <1>1, <2>2 DEF ConflictUpdate, Overflows
  <2>3. CASE BufferUpdate(m, t)
    <3> DEFINE waiting == updates \cup {m}
               joined == Ready(waiting, anchor, highWater')
    <3>1. highWater' = Larger(highWater, m.seq)
      BY <1>4 DEF Receive, WellFormed
    <3>2. Overflows(m) <=> Cardinality(waiting) > MaxBuffer /\ ~joined
      <4>1. m.kind = "update" /\ (Accepted => m.seq > book.seq)
        BY <1>4, <2>3 DEF ReceiveUpdate, BufferUpdate
      <4>2. \A n \in seenUpdates : n.seq # m.seq
        BY <2>3 DEF BufferUpdate
      <4>3. joined <=> HasBase(anchor) /\ Joined(Base(anchor), Deltas(waiting, Base(anchor)),
                                                Larger(highWater, m.seq))
        BY <3>1 DEF Ready
      <4>4. QED
        BY <1>4, <4>1, <4>2, <4>3 DEF Overflows
    <3>3. Cardinality(waiting) \in Nat
      BY FS_AddElement, FS_CardinalityType DEF EpisodeInv
    <3>4. TryPublish(waiting, anchor, t)
      BY <2>3 DEF BufferUpdate
    <3>5. CASE joined /\ Reset(t)
      BY <1>1, <3>2, <3>5
    <3>6. CASE ~joined /\ Wait(waiting, anchor, t)
      <4>1. CASE Cardinality(waiting) <= MaxBuffer
        <5>1. ~(Cardinality(waiting) > MaxBuffer)
          BY <3>3, <4>1, ConfigAssumption
        <5>2. QED
          BY <3>2, <3>6, <5>1 DEF Wait, Invalidate
      <4>2. CASE ~(Cardinality(waiting) <= MaxBuffer)
        <5>1. Cardinality(waiting) > MaxBuffer
          BY <3>3, <4>2, ConfigAssumption
        <5>2. QED
          BY <3>2, <3>6, <4>2, <5>1 DEF Wait, ResetAndRestart
      <4>3. QED
        BY <4>1, <4>2
    <3>7. ~Publish(Base(anchor), Deltas(waiting, Base(anchor)), anchor, t)
      BY DEF Publish
    <3>8. QED
      BY <3>4, <3>5, <3>6, <3>7 DEF TryPublish, Ready
  <2>4. QED
    BY <1>4, <2>1, <2>2, <2>3 DEF ReceiveUpdate
<1>5. CASE ReceiveSnapshot(m, t)
  <2>1. m.kind = "snapshot" /\ ~Overflows(m)
    BY <1>5 DEF ReceiveSnapshot, Overflows
  <2>2. QED
    BY <2>1, EpisodeAfterReceive
<1>6. QED
  BY <1>2, <1>3, <1>4, <1>5 DEF Receive

\* The clock of a running episode stops with a publication, restarts at an
\* overflow of the buffer or at the end of its timeout, and always does; no
\* other delivery or check moves it (_invalidate, receive, check_timeout).
THEOREM OnlyOverflowAndExpiryRestart == Spec => EpisodeClockMoves
<1> DEFINE Moves ==
        since # NoTime =>
            /\ \A m \in Messages : Receive(m, clock') =>
                   since' = IF book'.valid THEN NoTime
                            ELSE IF Overflows(m) THEN clock' ELSE since
            /\ CheckTimeout(clock') =>
                   since' = IF clock' - since >= Timeout THEN clock' ELSE since
<1>1. ASSUME IInv, IInv', EpisodeInv, since # NoTime
      PROVE  Moves
  <2>1. clock' \in Nat /\ since \in Nat /\ ~book.valid /\ (book'.valid => since' = NoTime)
    BY <1>1 DEF IInv, CoreInv
  <2>2. ASSUME NEW m \in Messages, Receive(m, clock')
        PROVE  since' = IF book'.valid THEN NoTime
                        ELSE IF Overflows(m) THEN clock' ELSE since
    BY <1>1, <2>1, <2>2, DeliveryMovesClock
  <2>3. ASSUME CheckTimeout(clock')
        PROVE  since' = IF clock' - since >= Timeout THEN clock' ELSE since
    <3>1. CASE StillWaiting(clock')
      <4>1. since' = since /\ clock' - since < Timeout
        BY <2>1, <3>1 DEF StillWaiting
      <4>2. ~(clock' - since >= Timeout)
        <5>1. clock' \in Nat /\ since \in Nat /\ Timeout \in Nat
          BY <2>1, ConfigAssumption
        <5>2. \A a, b, c \in Nat : a - b < c => ~(a - b >= c)
          OBVIOUS
        <5>3. QED
          BY <4>1, <5>1, <5>2
      <4>3. QED
        BY <4>1, <4>2
    <3>2. CASE StartEpisode(clock')
      BY <1>1, <3>2 DEF StartEpisode
    <3>3. CASE Expire(clock')
      BY <3>3 DEF Expire, ResetAndRestart
    <3>4. QED
      BY <2>3, <3>1, <3>2, <3>3 DEF CheckTimeout
  <2>4. QED
    BY <2>2, <2>3
<1>2. IInv /\ IInv' /\ EpisodeInv /\ [Next]_vars => [Moves]_vars
  BY <1>1
<1>3. QED
  BY <1>2, Invariant, EpisodesAlways, PTL DEF Spec, EpisodeClockMoves

=============================================================================
