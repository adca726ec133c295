---------------------------- MODULE LocalRecovery ----------------------------
(***************************************************************************)
(* lob_sim/recovery.py, class LocalRecovery: a consumer of an unreliable   *)
(* feed.  Deltas that arrive early wait in a bounded buffer, a snapshot    *)
(* that is behind waits as the anchor, and a book is published only when   *)
(* a gapless chain reaches the highest sequence number ever observed.      *)
(*                                                                         *)
(* A feed message has the fields of Book's messages and                    *)
(*   index   MarketMessage.event_index, its identity                       *)
(*   time    MarketMessage.state_time_ns                                   *)
(*   own     its session_id is this session's                              *)
(* Fingerprints are values: two messages have one fingerprint when they    *)
(* differ at most in their index.  Reasons, the version and the            *)
(* required_snapshot_sequence of the published BookState are left out: the *)
(* version is always `publication`, and _accepted is always `book` without *)
(* its validity, so book.seq # NoSeq says that _accepted is not None.      *)
(***************************************************************************)
EXTENDS Book, FiniteSets

CONSTANTS
    Messages,           \* the messages the feed may deliver
    MaxBuffer,          \* RecoveryConfig.max_buffer
    Timeout,            \* RecoveryConfig.timeout_ns
    MaxTime,            \* bound: the local clock stops here
    None,               \* the absent anchor
    History             \* what a correct book is at each sequence number

ASSUME ConfigAssumption ==
    MaxBuffer \in Nat \ {0} /\ Timeout \in Nat \ {0} /\ MaxTime \in Nat

IsMessage(m) ==
    /\ m.seq \in Nat /\ m.time \in Nat
    /\ m.sound \in BOOLEAN /\ m.own \in BOOLEAN
    /\ \/ m.kind = "snapshot" /\ m.levels \in Depth
       \/ m.kind = "update" /\ IsBatch(m.levels)

ASSUME FeedAssumption == None \notin Messages /\ \A m \in Messages : IsMessage(m)

NoTime == -1            \* a time that is None

VARIABLES
    book,               \* _book: depth, seq and usability of the last publication
    stateTime,          \* _state_time, source time of the published book
    lastReceive,        \* _last_receive, local time of the last publication
    clock,              \* _last_clock
    highWater,          \* _high_water
    publication,        \* _publication
    provenance,         \* _provenance: the messages the published book came from
    since,              \* _since, when the current episode (or retry) began
    updates,            \* _updates, at most one buffered delta per sequence
    anchor,             \* _anchor, an isolated snapshot or None
    needsSnapshot,      \* _needs_snapshot
    seenEvents,         \* _seen_events: first message seen under each index
    seenUpdates,        \* _seen_updates: first update seen at each sequence
    seenSnapshots       \* _seen_snapshots: depth seen at each sequence

published == <<stateTime, lastReceive, publication, provenance>>
buffer == <<updates, anchor, needsSnapshot>>
seen == <<seenEvents, seenUpdates, seenSnapshots>>
vars == <<book, published, clock, highWater, since, buffer, seen>>

TypeOK ==
    /\ book \in [depth : Depth, seq : Nat \cup {NoSeq}, valid : BOOLEAN]
    /\ stateTime \in Nat \cup {NoTime} /\ lastReceive \in Nat \cup {NoTime}
    /\ clock \in Nat /\ highWater \in Nat /\ publication \in Nat
    /\ since \in Nat \cup {NoTime}
    /\ updates \subseteq Messages /\ anchor \in Messages \cup {None}
    /\ needsSnapshot \in BOOLEAN
    /\ provenance \subseteq Messages
    /\ seenEvents \subseteq Messages /\ seenUpdates \subseteq Messages
    /\ seenSnapshots \subseteq Nat \X Depth

Init ==
    /\ book = [depth |-> EmptyDepth, seq |-> NoSeq, valid |-> FALSE]
    /\ stateTime = NoTime /\ lastReceive = NoTime
    /\ clock = 0 /\ highWater = 0 /\ publication = 0 /\ since = NoTime
    /\ provenance = {}
    /\ updates = {} /\ anchor = None /\ needsSnapshot = TRUE
    /\ seenEvents = {} /\ seenUpdates = {} /\ seenSnapshots = {}

-----------------------------------------------------------------------------
\* Candidate books.

Accepted == book.seq # NoSeq

\* _validate_content: the batch is acceptable on a book of its own.
WellFormed(m) ==
    /\ m.own
    /\ m.sound
    /\ ~Crossed(IF m.kind = "snapshot" THEN m.levels
                                       ELSE Overlay(EmptyDepth, m.levels))

\* Two messages with the same _fingerprint.
SameContent(m, n) ==
    /\ m.kind = n.kind /\ m.seq = n.seq /\ m.time = n.time
    /\ m.levels = n.levels

\* Mutant: the requirement of a snapshot is not met by having one.
HasBaseUnlessRequired(anc) == ~needsSnapshot /\ (anc # None \/ Accepted)

\* Where a candidate starts: the anchor, or the last accepted book unless a
\* snapshot is required.
HasBase(anc) == anc # None \/ (Accepted /\ ~needsSnapshot)

Base(anc) ==
    IF anc # None
    THEN [seq |-> anc.seq, depth |-> anc.levels, time |-> anc.time]
    ELSE [seq |-> book.seq, depth |-> book.depth, time |-> stateTime]

Deltas(upd, base) == {u \in upd : u.seq > base.seq}

\* Mutant: the chain need not reach what is known to exist.
JoinedShort(base, deltas, high) ==
    \A u \in deltas : \A n \in base.seq + 1 .. u.seq : \E v \in deltas : v.seq = n

\* Mutant: the chain may have gaps.
JoinedWithGaps(base, deltas, high) ==
    base.seq >= high \/ \E u \in deltas : u.seq >= high

\* No gap between the base and the deltas, and the end is at the high water.
Joined(base, deltas, high) ==
    /\ \A u \in deltas : \A n \in base.seq + 1 .. u.seq :
           \E v \in deltas : v.seq = n
    /\ base.seq >= high \/ \E u \in deltas : u.seq >= high

\* The last message of a set of deltas, one per sequence.
Latest(deltas) == CHOOSE u \in deltas : \A v \in deltas : v.seq <= u.seq

\* A base after its deltas, applied in sequence order: absolute sizes, so
\* every level is as the last delta that touches it says.
Replay(base, deltas) ==
    [k \in Keys |->
        LET touching == {u \in deltas : k \in DOMAIN u.levels}
        IN  IF touching = {} THEN base.depth[k] ELSE Latest(touching).levels[k]]

LastSeq(base, deltas) ==
    IF deltas = {} THEN base.seq ELSE Latest(deltas).seq

LastTime(base, deltas) ==
    IF deltas = {} THEN base.time ELSE Latest(deltas).time

\* Mutant: the candidate may cross.
CleanIfCrossed(base, deltas) ==
    \A u \in deltas :
        u.time >= base.time /\ \A v \in deltas : v.seq < u.seq => v.time <= u.time

\* The loop over the candidate raises no BookError: state times never move
\* backwards and no prefix of the chain leaves a crossed book.
Clean(base, deltas) ==
    /\ ~Crossed(base.depth)
    /\ \A u \in deltas :
           /\ u.time >= base.time
           /\ \A v \in deltas : v.seq < u.seq => v.time <= u.time
           /\ ~Crossed(Replay(base, {v \in deltas : v.seq <= u.seq}))

-----------------------------------------------------------------------------
\* What the handlers are made of.

\* Mutant: an invalid book starts no episode clock.
InvalidateUntimed(t) == book' = [book EXCEPT !.valid = FALSE] /\ UNCHANGED since

\* _invalidate, without and with reset: the episode clock starts only when
\* none runs.
Invalidate(t) ==
    /\ since' = IF since = NoTime THEN t ELSE since
    /\ book' = [book EXCEPT !.valid = FALSE]

Discard == updates' = {} /\ anchor' = None /\ needsSnapshot' = TRUE

\* Overflow and timeout restart the episode clock.
ResetAndRestart(t) ==
    /\ Discard
    /\ since' = t
    /\ book' = [book EXCEPT !.valid = FALSE]
    /\ UNCHANGED published

\* Any other fault does not.
Reset(t) == Discard /\ Invalidate(t) /\ UNCHANGED published

\* Mutant: a new snapshot is added to the provenance it replaces.
OriginKept(anc) == provenance \cup ({anc} \ {None})

\* The messages behind a base.
Origin(anc) == IF anc # None THEN {anc} ELSE provenance

\* The end of _try_publish.
Publish(base, deltas, anc, t) ==
    /\ book' = [depth |-> Replay(base, deltas), seq |-> LastSeq(base, deltas),
                valid |-> TRUE]
    /\ publication' = publication + 1
    /\ lastReceive' = t
    /\ stateTime' = LastTime(base, deltas)
    /\ provenance' = Origin(anc) \cup deltas
    /\ updates' = {} /\ anchor' = None /\ needsSnapshot' = FALSE
    /\ since' = NoTime

\* Mutant: the buffer has no limit.
WaitUnbounded(upd, anc, t) ==
    /\ updates' = upd /\ anchor' = anc /\ UNCHANGED needsSnapshot
    /\ Invalidate(t) /\ UNCHANGED published

\* Nothing to publish yet: keep the candidate, unless it no longer fits.
Wait(upd, anc, t) ==
    \/ /\ Cardinality(upd) <= MaxBuffer
       /\ updates' = upd /\ anchor' = anc /\ UNCHANGED needsSnapshot
       /\ Invalidate(t) /\ UNCHANGED published
    \/ /\ Cardinality(upd) > MaxBuffer
       /\ ResetAndRestart(t)

\* _try_publish and the buffer check that follows it in receive, for the
\* buffer `upd` and anchor `anc` the handler leaves.
TryPublish(upd, anc, t) ==
    LET base == Base(anc)
        deltas == Deltas(upd, base)
        ready == HasBase(anc) /\ Joined(base, deltas, highWater')
    IN  \/ ready /\ Clean(base, deltas) /\ Publish(base, deltas, anc, t)
        \/ ready /\ ~Clean(base, deltas) /\ Reset(t)
        \/ ~ready /\ Wait(upd, anc, t)

-----------------------------------------------------------------------------
\* receive, by what becomes of the message.  Receive adds the clock and the
\* high water, which the code updates first.

\* Mutant: an index is never recognised.
KnownNever(m) == FALSE

Known(m) == \E n \in seenEvents : n.index = m.index

\* The fingerprint of every message is registered once it is well-formed.
Register(m) == seenEvents' = seenEvents \cup {m}

RejectContent(m, t) ==
    /\ ~WellFormed(m)
    /\ Reset(t)
    /\ UNCHANGED seen

RepeatEvent(m) ==
    /\ WellFormed(m)
    /\ \E n \in seenEvents : n.index = m.index /\ SameContent(m, n)
    /\ UNCHANGED <<book, published, since, buffer, seen>>

ConflictEvent(m, t) ==
    /\ WellFormed(m)
    /\ \E n \in seenEvents : n.index = m.index /\ ~SameContent(m, n)
    /\ Reset(t)
    /\ UNCHANGED seen

RepeatUpdate(m) ==
    /\ \E n \in seenUpdates : n.seq = m.seq /\ SameContent(m, n)
    /\ UNCHANGED <<book, published, since, buffer, seenUpdates>>

ConflictUpdate(m, t) ==
    /\ \E n \in seenUpdates : n.seq = m.seq /\ ~SameContent(m, n)
    /\ Reset(t)
    /\ UNCHANGED seenUpdates

\* A delta a later publication already covers is registered and dropped.
CoveredUpdate(m) ==
    /\ \A n \in seenUpdates : n.seq # m.seq
    /\ Accepted /\ m.seq <= book.seq
    /\ seenUpdates' = seenUpdates \cup {m}
    /\ UNCHANGED <<book, published, since, buffer>>

BufferUpdate(m, t) ==
    /\ \A n \in seenUpdates : n.seq # m.seq
    /\ ~(Accepted /\ m.seq <= book.seq)
    /\ seenUpdates' = seenUpdates \cup {m}
    /\ TryPublish(updates \cup {m}, anchor, t)

ReceiveUpdate(m, t) ==
    /\ m.kind = "update"
    /\ RepeatUpdate(m) \/ ConflictUpdate(m, t) \/ CoveredUpdate(m)
           \/ BufferUpdate(m, t)
    /\ UNCHANGED seenSnapshots

\* Another depth was seen at this sequence; the first one stays registered.
ConflictSnapshot(m, t) ==
    /\ \E s \in seenSnapshots : s[1] = m.seq /\ s[2] # m.levels
    /\ Reset(t)
    /\ UNCHANGED seenSnapshots

\* Mutant: a snapshot may be of an earlier time than the published book.
RegressesInSequence(m) ==
    /\ Accepted
    /\ m.seq < book.seq \/ (m.seq = book.seq /\ m.levels # book.depth)

\* The snapshot would take the published book back or contradict it.
Regresses(m) ==
    /\ Accepted
    /\ \/ m.seq < book.seq
       \/ m.time < stateTime
       \/ m.seq = book.seq /\ m.levels # book.depth

RejectSnapshot(m, t) ==
    /\ \A s \in seenSnapshots : s[1] = m.seq => s[2] = m.levels
    /\ Regresses(m)
    /\ seenSnapshots' = seenSnapshots \cup {<<m.seq, m.levels>>}
    /\ Reset(t)

Newest(m) == anchor # None => m.seq >= anchor.seq

\* The newest snapshot becomes the anchor and prunes the deltas it covers.
AnchorSnapshot(m, t) ==
    /\ \A s \in seenSnapshots : s[1] = m.seq => s[2] = m.levels
    /\ ~Regresses(m)
    /\ seenSnapshots' = seenSnapshots \cup {<<m.seq, m.levels>>}
    /\ \/ Newest(m) /\ TryPublish({u \in updates : u.seq > m.seq}, m, t)
       \/ ~Newest(m) /\ TryPublish(updates, anchor, t)

ReceiveSnapshot(m, t) ==
    /\ m.kind = "snapshot"
    /\ ConflictSnapshot(m, t) \/ RejectSnapshot(m, t) \/ AnchorSnapshot(m, t)
    /\ UNCHANGED seenUpdates

\* The whole handler.  A message from the future, or a local time before the
\* last one, raises ValueError and changes nothing.
Receive(m, t) ==
    /\ t >= clock /\ t >= m.time
    /\ clock' = t
    /\ highWater' = IF m.own THEN Larger(highWater, m.seq) ELSE highWater
    /\ \/ RejectContent(m, t)
       \/ RepeatEvent(m)
       \/ ConflictEvent(m, t)
       \/ /\ WellFormed(m) /\ ~Known(m)
          /\ Register(m)
          /\ ReceiveUpdate(m, t) \/ ReceiveSnapshot(m, t)

-----------------------------------------------------------------------------
\* check_timeout, by what it finds.

StillWaiting(t) ==
    /\ book.valid \/ (since # NoTime /\ t - since < Timeout)
    /\ UNCHANGED <<book, published, since, buffer>>

\* Mutant: the clock is armed as if the timeout had already passed.
StartOverdue(t) ==
    /\ ~book.valid /\ since = NoTime
    /\ since' = t - Timeout
    /\ UNCHANGED <<book, published, buffer>>

StartEpisode(t) ==
    /\ ~book.valid /\ since = NoTime
    /\ since' = t
    /\ UNCHANGED <<book, published, buffer>>

Expire(t) ==
    /\ ~book.valid /\ since # NoTime /\ t - since >= Timeout
    /\ ResetAndRestart(t)

CheckTimeout(t) ==
    /\ t >= clock
    /\ clock' = t
    /\ StillWaiting(t) \/ StartEpisode(t) \/ Expire(t)
    /\ UNCHANGED <<highWater, seen>>

-----------------------------------------------------------------------------
Next ==
    \E t \in clock .. MaxTime :
        \/ \E m \in Messages : Receive(m, t)
        \/ CheckTimeout(t)

Spec == Init /\ [][Next]_vars

-----------------------------------------------------------------------------
\* Safety.

\* The published book is usable only while it stands at the highest sequence
\* number this session has shown, in whatever message that number came and
\* whatever became of the message (class docstring: "publish only a complete
\* candidate reaching the observed high water").
ValidAtHighWater == book.valid => book.seq = highWater

\* The published book is explained by its provenance: one snapshot and every
\* delta between it and the book, none missing, with state times that never
\* move back, replayed in sequence order.  A repaired gap, a pruned buffer or
\* an extended provenance leaves no message out and none in twice.
PublishedChain ==
    Accepted =>
        \E s \in provenance :
            LET base == [seq |-> s.seq, depth |-> s.levels, time |-> s.time]
                deltas == provenance \ {s}
            IN  /\ s.kind = "snapshot"
                /\ \A u \in deltas : u.kind = "update"
                /\ {u.seq : u \in deltas} = s.seq + 1 .. book.seq
                /\ Cardinality(deltas) = book.seq - s.seq
                /\ book.depth = Replay(base, deltas)
                /\ \A u, v \in provenance : u.seq <= v.seq => u.time <= v.time
                /\ stateTime = LastTime(base, deltas)

\* A message is true to a source whose book is `truth` at each sequence when it
\* tells what that book did, or is one that _validate_content refuses.
TrueTo(truth, m) ==
    /\ WellFormed(m) /\ m.kind = "snapshot" => m.levels = truth[m.seq]
    /\ WellFormed(m) /\ m.kind = "update" /\ m.seq > 0 =>
           Overlay(truth[m.seq - 1], m.levels) = truth[m.seq]

Honest(m) == TrueTo(History, m)

\* Whatever the feed loses, repeats, delays or corrupts detectably, the last
\* published book of an honest session is the source's book at its sequence.
TrueToSource ==
    (\A m \in Messages : Honest(m)) /\ Accepted =>
        book.depth = History[book.seq]

\* An invalid book that was once valid, or behind which anything waits, has a
\* running episode clock, and a valid one has none: the timeout that retries
\* recovery can neither be missing nor fire on a usable book.
ClockRunsWhileInvalid ==
    /\ book.valid => since = NoTime
    /\ ~book.valid /\ (Accepted \/ updates # {} \/ anchor # None) =>
           since # NoTime /\ since <= clock

\* What waits is never more than the configured buffer, and waits for
\* something: nothing is buffered behind a usable book or a published one.
BufferBounded ==
    /\ Cardinality(updates) <= MaxBuffer
    /\ book.valid => updates = {} /\ anchor = None /\ ~needsSnapshot
    /\ \A u \in updates : Accepted => u.seq > book.seq

-----------------------------------------------------------------------------
\* Action properties.

\* Publications never go back: not in sequence, state time or receive time;
\* and one sequence number is never published with two different depths.
NeverRollsBack ==
    [][Accepted =>
           /\ book'.seq >= book.seq
           /\ stateTime' >= stateTime
           /\ lastReceive' >= lastReceive
           /\ book'.seq = book.seq => book'.depth = book.depth]_vars

\* Only news refreshes an age: a publication uses the message just delivered,
\* and that message was never registered before (module docstring:
\* "duplicate delivery never refreshes a clock").
OnlyNewsRefreshes ==
    [][<<lastReceive, stateTime, publication>>'
           # <<lastReceive, stateTime, publication>> =>
       \E m \in provenance' \ provenance : seenEvents' \ seenEvents = {m}]_vars

\* A full snapshot that is new, well-formed, at or above the high water and
\* in no conflict ends the episode at once, whatever is buffered, anchored or
\* required and however many faults went before.
Rescues(m) ==
    /\ WellFormed(m) /\ m.kind = "snapshot" /\ ~Known(m)
    /\ m.seq >= highWater
    /\ ~Regresses(m)
    /\ \A s \in seenSnapshots : s[1] = m.seq => s[2] = m.levels

SnapshotRescues ==
    [][\A m \in Messages, t \in 0 .. MaxTime :
           Rescues(m) /\ Receive(m, t) =>
               book' = [depth |-> m.levels, seq |-> m.seq, valid |-> TRUE]]_vars

\* The new delta m is one too many: with it the buffer exceeds its limit and
\* the chain still does not reach the high water.
Overflows(m) ==
    LET waiting == updates \cup {m}
        base == Base(anchor)
    IN  /\ WellFormed(m) /\ m.kind = "update" /\ ~Known(m)
        /\ \A n \in seenUpdates : n.seq # m.seq
        /\ Accepted => m.seq > book.seq
        /\ Cardinality(waiting) > MaxBuffer
        /\ ~(HasBase(anchor)
                 /\ Joined(base, Deltas(waiting, base), Larger(highWater, m.seq)))

\* The running clock of an episode, from which its timeout is measured, stops
\* with a publication, and restarts, at the present, when the buffer overflows
\* or the timeout has run out.  Nothing else moves it: no fault, conflict,
\* foreign or repeated message that resets or leaves the candidate, and no
\* early check postpones the timeout (_invalidate, recovery.py:108).
EpisodeClockMoves ==
    [][since # NoTime =>
           /\ \A m \in Messages : Receive(m, clock') =>
                  since' = IF book'.valid THEN NoTime
                           ELSE IF Overflows(m) THEN clock' ELSE since
           /\ CheckTimeout(clock') =>
                  since' = IF clock' - since >= Timeout THEN clock' ELSE since]_vars

-----------------------------------------------------------------------------
\* LocalRecovery does what FeedView promises: the buffer, the anchor, the
\* identity histories and the timer are invisible to a consumer of the view.
Contract ==
    INSTANCE FeedView WITH view <- book, high <- highWater,
                           asOf <- stateTime, issue <- publication

KeepsContract == Contract!Spec

=============================================================================
