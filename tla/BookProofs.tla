----------------------------- MODULE BookProofs -----------------------------
(***************************************************************************)
(* The two components that are one book and no more.  OrderBook for every  *)
(* price grid, message set and history: its state is well-typed, a usable  *)
(* book covers every sequence it was offered, and an honest feed is        *)
(* reproduced exactly.  Replay for every recording: its book is an         *)
(* OrderBook, and every query is answered from the messages visible at its *)
(* time.                                                                   *)
(***************************************************************************)
EXTENDS Replay, NaturalSums

\* A book is typed, whatever a message does to it.
LEMMA OverlayType ==
    ASSUME NEW depth \in Depth, NEW changes, IsBatch(changes)
    PROVE  Overlay(depth, changes) \in Depth
BY DEF Overlay, Depth, IsBatch

\* The larger of two integers is one of them and no less than either.
LEMMA LargerBounds ==
    ASSUME NEW a \in Int, NEW b \in Int
    PROVE  /\ Larger(a, b) >= a /\ Larger(a, b) >= b
           /\ Larger(a, b) = a \/ Larger(a, b) = b
BY DEF Larger

\* A commit leaves a book.
LEMMA CommitType ==
    ASSUME NEW b \in BookState, NEW seq \in Nat, NEW depth \in Depth
    PROVE  Commit(b, seq, depth) \in BookState
BY DEF Commit, BookState

\* A rejection leaves a book.
LEMMA RejectType ==
    ASSUME NEW b \in BookState, NEW seq \in Nat \cup {NoSeq}
    PROVE  Reject(b, seq) \in BookState
<1>1. b.floor \in Nat
  BY DEF BookState
<1>2. Larger(b.floor, seq) \in Nat
  BY <1>1 DEF Larger, NoSeq
<1>3. QED
  BY <1>2 DEF Reject, BookState

\* The recovery floor is above the accepted sequence and at or above every
\* sequence ever offered; while the book is usable, so is its own sequence.
FloorCovers ==
    /\ book.floor > book.seq
    /\ book.floor >= offered
    /\ book.valid => book.seq # NoSeq /\ book.seq >= offered

IInv == TypeOK /\ FloorCovers

\* Before the first message nothing was offered and the floor is zero.
LEMMA InitIInv == Init => IInv
BY DEF Init, IInv, TypeOK, FloorCovers, InitBook, BookState, Depth, EmptyDepth, NoSeq

\* Every method, on every message, preserves the inductive invariant.
LEMMA NextIInv == IInv /\ [Next]_vars => IInv'
<1> SUFFICES ASSUME IInv, [Next]_vars
             PROVE  IInv'
  OBVIOUS
<1> USE DEF IInv
<1>1. ASSUME NEW m \in Messages, AcceptSnapshot(m)
      PROVE  IInv'
  <2>1. m.seq \in Nat /\ m.levels \in Depth /\ offered \in Int
    BY <1>1, MessagesAssumption
       DEF AcceptSnapshot, AcceptsSnapshot, TypeOK, BookState, NoSeq
  <2>2. TypeOK'
    BY <1>1, <2>1, CommitType, LargerBounds DEF AcceptSnapshot, TypeOK, Offer
  <2>3. FloorCovers'
    BY <1>1, <2>1
       DEF AcceptSnapshot, AcceptsSnapshot, FloorCovers, Offer, Commit, Larger, TypeOK,
           BookState, NoSeq
  <2>4. QED
    BY <2>2, <2>3
<1>2. ASSUME NEW m \in Messages, AcceptUpdate(m)
      PROVE  IInv'
  <2>1. m.seq \in Nat /\ IsBatch(m.levels) /\ offered \in Int
    BY <1>2, MessagesAssumption
       DEF AcceptUpdate, AcceptsUpdate, TypeOK, BookState, NoSeq
  <2>2. TypeOK'
    <3>1. Overlay(book.depth, m.levels) \in Depth
      BY <2>1, OverlayType DEF TypeOK, BookState
    <3>2. QED
      BY <1>2, <2>1, <3>1, CommitType, LargerBounds DEF AcceptUpdate, TypeOK, Offer
  <2>3. FloorCovers'
    BY <1>2, <2>1
       DEF AcceptUpdate, AcceptsUpdate, FloorCovers, Offer, Commit, Larger, TypeOK,
           BookState, NoSeq
  <2>4. QED
    BY <2>2, <2>3
<1>3. ASSUME NEW m \in Messages, RejectMessage(m)
      PROVE  IInv'
  <2>1. m.seq \in Nat \cup {NoSeq}
    BY MessagesAssumption
  <2>2. TypeOK'
    BY <1>3, <2>1, RejectType DEF RejectMessage, TypeOK, Offer, Larger, NoSeq
  <2>3. FloorCovers'
    BY <1>3, <2>1
       DEF RejectMessage, FloorCovers, Offer, Reject, Larger, TypeOK, BookState, NoSeq
  <2>4. QED
    BY <2>2, <2>3
<1>4. CASE UNCHANGED vars
  BY <1>4 DEF vars, TypeOK, FloorCovers
<1>5. QED
  BY <1>1, <1>2, <1>3, <1>4 DEF Next

\* The state of the book is always a BookState (every method either commits
\* a whole new state or replaces three fields of the last one).
THEOREM TypeCorrect == Spec => []TypeOK
<1>1. IInv => TypeOK
  BY DEF IInv
<1>2. QED
  BY <1>1, InitIInv, NextIInv, PTL DEF Spec

\* A usable book covers every sequence it was ever offered: the floor that
\* _reject raises keeps any snapshot below a rejected message out.
THEOREM UsableCoversOffered == Spec => []ValidCoversOffered
<1>1. IInv => ValidCoversOffered
  BY DEF IInv, FloorCovers, ValidCoversOffered
<1>2. QED
  BY <1>1, InitIInv, NextIInv, PTL DEF Spec

\* A committed version is always of a strictly later sequence.
THEOREM VersionsRise == Spec => VersionsMoveForward
<1>1. IInv /\ [Next]_vars => [book'.version # book.version => book'.seq > book.seq]_vars
  <2> SUFFICES ASSUME IInv, Next, book'.version # book.version
               PROVE  book'.seq > book.seq
    BY DEF vars
  <2>1. ASSUME NEW m \in Messages, AcceptSnapshot(m)
        PROVE  book'.seq > book.seq
    BY <2>1, MessagesAssumption
       DEF AcceptSnapshot, AcceptsSnapshot, IInv, FloorCovers, Commit, TypeOK, BookState, NoSeq
  <2>2. ASSUME NEW m \in Messages, AcceptUpdate(m)
        PROVE  book'.seq > book.seq
    BY <2>2, MessagesAssumption
       DEF AcceptUpdate, AcceptsUpdate, IInv, Commit, TypeOK, BookState, NoSeq
  <2>3. ASSUME NEW m \in Messages, RejectMessage(m)
        PROVE  FALSE
    BY <2>3 DEF RejectMessage, Reject, IInv, TypeOK, BookState
  <2>4. QED
    BY <2>1, <2>2, <2>3 DEF Next
<1>2. QED
  BY <1>1, InitIInv, NextIInv, PTL DEF Spec, VersionsMoveForward

\* The depth of an honest session is the source's depth.
LEMMA InitTrue == Init => TrueToSource
BY DEF Init, TrueToSource, InitBook, NoSeq

\* An accepted message of an honest session brings the depth of its sequence.
LEMMA NextTrue == IInv /\ TrueToSource /\ [Next]_vars => TrueToSource'
<1> SUFFICES ASSUME IInv, TrueToSource, [Next]_vars,
                    \A m \in Messages : Honest(m)
             PROVE  book'.seq # NoSeq => book'.depth = History[book'.seq]
  BY DEF TrueToSource
<1>1. ASSUME NEW m \in Messages, AcceptSnapshot(m)
      PROVE  book'.depth = History[book'.seq]
  <2>1. m.seq # NoSeq
    BY <1>1 DEF AcceptSnapshot, AcceptsSnapshot, IInv, TypeOK, BookState, NoSeq
  <2>2. Honest(m)
    OBVIOUS
  <2>3. QED
    BY <1>1, <2>1, <2>2 DEF AcceptSnapshot, AcceptsSnapshot, Honest, Commit
<1>2. ASSUME NEW m \in Messages, AcceptUpdate(m)
      PROVE  book'.depth = History[book'.seq]
  <2>1. m.seq \in Nat
    BY <1>2, MessagesAssumption
       DEF AcceptUpdate, AcceptsUpdate, IInv, TypeOK, BookState, NoSeq
  <2>2. book.seq \in Nat /\ m.seq = book.seq + 1 /\ book.depth = History[book.seq]
    BY <1>2 DEF AcceptUpdate, AcceptsUpdate, IInv, FloorCovers, TypeOK, BookState,
                NoSeq, TrueToSource
  <2>3. Overlay(book.depth, m.levels) = History[m.seq]
    <3>1. m.seq > 0 /\ m.seq - 1 = book.seq
      BY <2>2
    <3>2. Honest(m)
      OBVIOUS
    <3>3. QED
      BY <1>2, <2>2, <3>1, <3>2 DEF AcceptUpdate, AcceptsUpdate, Honest
  <2>4. QED
    BY <1>2, <2>3 DEF AcceptUpdate, Commit
<1>3. ASSUME NEW m \in Messages, RejectMessage(m)
      PROVE  book'.seq = book.seq /\ book'.depth = book.depth
  BY <1>3 DEF RejectMessage, Reject, IInv, TypeOK, BookState
<1>4. QED
  BY <1>1, <1>2, <1>3 DEF Next, vars, TrueToSource

\* Whatever is lost, repeated, reordered or malformed, an honest session's
\* last accepted depth is the source's depth at that sequence.
THEOREM HonestBookIsTrue == Spec => []TrueToSource
<1>1. Init => IInv /\ TrueToSource
  BY InitIInv, InitTrue
<1>2. IInv /\ TrueToSource /\ [Next]_vars => (IInv /\ TrueToSource)'
  BY NextIInv, NextTrue
<1>3. QED
  BY <1>1, <1>2, PTL DEF Spec

-----------------------------------------------------------------------------
\* The replay.

\* The messages of a recording: finitely many, one for every index.
Recorded(M) ==
    /\ IsFiniteSet(M)
    /\ \A m \in M : m.time \in Nat /\ m.index \in Nat
    /\ \A m, n \in M : m.index = n.index => m = n

\* Of any messages of a recording one is the latest.
LEMMA SomeLatest ==
    ASSUME NEW M, Recorded(M), NEW S \in SUBSET M, S # {}
    PROVE  \E m \in S : \A n \in S \ {m} : Follows(m, n)
<1> DEFINE Last(s) == \E m \in s : \A n \in s \ {m} : Follows(m, n)
           Bad == {s \in SUBSET M : s # {} /\ ~Last(s)}
<1>1. SUFFICES ASSUME Bad # {} PROVE FALSE
  OBVIOUS
<1>2. ASSUME NEW s \in SUBSET M
      PROVE  IsFiniteSet(s) /\ Cardinality(s) \in Nat
  BY FS_Subset, FS_CardinalityType DEF Recorded
<1>3. PICK s \in Bad : \A r \in Bad : Cardinality(s) <= Cardinality(r)
  <2>1. \A s \in Bad : IsFiniteSet(s)
    BY <1>2
  <2> HIDE DEF Bad
  <2>2. QED
    BY <1>1, <2>1, SmallestSet
<1>4. PICK x \in s : TRUE
  OBVIOUS
<1>5. s \ {x} \in SUBSET M /\ s \ {x} \notin Bad
  <2>1. Cardinality(s \ {x}) = Cardinality(s) - 1
    BY <1>2, FS_RemoveElement
  <2>2. s \ {x} \in SUBSET M /\ Cardinality(s) \in Nat
    BY <1>2
  <2> HIDE DEF Bad
  <2>3. QED
    BY <1>3, <2>1, <2>2
<1>6. CASE s \ {x} = {}
  BY <1>6
<1>7. CASE s \ {x} # {}
  <2>1. PICK y \in s \ {x} : \A n \in (s \ {x}) \ {y} : Follows(y, n)
    BY <1>5, <1>7
  <2>2. CASE Follows(y, x)
    BY <2>1, <2>2
  <2>3. CASE ~Follows(y, x)
    <3>1. Follows(x, y)
      BY <2>1, <2>3 DEF Recorded, Follows
    <3>2. ASSUME NEW n \in (s \ {x}) \ {y} PROVE Follows(x, n)
      <4>1. Follows(y, n)
        BY <2>1
      <4>2. QED
        BY <3>1, <4>1 DEF Recorded, Follows
    <3>3. \A n \in s \ {x} : Follows(x, n)
      BY <3>1, <3>2
    <3>4. QED
      BY <3>3
  <2>4. QED
    BY <2>2, <2>3
<1>8. QED
  BY <1>6, <1>7

\* It is the one Latest chooses.
LEMMA LatestFollows ==
    ASSUME NEW M, Recorded(M), NEW S \in SUBSET M, S # {}
    PROVE  /\ Latest(S) \in S
           /\ \A n \in S \ {Latest(S)} : Follows(Latest(S), n)
<1> DEFINE P(m) == \A n \in S \ {m} : Follows(m, n)
<1>1. \E m \in S : P(m)
  BY SomeLatest
<1>2. Latest(S) = CHOOSE m \in S : P(m)
  BY DEF Latest
<1> HIDE DEF P
<1>3. Latest(S) \in S /\ P(Latest(S))
  BY <1>1, <1>2
<1>4. QED
  BY <1>3 DEF P

\* There is no other.
LEMMA LatestIs ==
    ASSUME NEW M, Recorded(M), NEW S \in SUBSET M, NEW m \in S,
           \A n \in S \ {m} : Follows(m, n)
    PROVE  Latest(S) = m
<1> DEFINE k == Latest(S)
<1>1. k \in S /\ \A n \in S \ {k} : Follows(k, n)
  BY LatestFollows
<1> HIDE DEF k
<1>2. ASSUME k # m PROVE FALSE
  <2>1. Follows(k, m) /\ Follows(m, k)
    BY <1>1, <1>2
  <2>2. QED
    BY <1>1, <2>1 DEF Follows, Recorded
<1>3. QED
  BY <1>2 DEF k

\* What messages leave, from what fewer messages leave.
FirstView == [book |-> InitBook, news |-> None]

Extended(v, s) ==
    IF s = {} THEN FirstView
    ELSE Fed(v[s \ {Latest(s)}], Latest(s))

IsViews(v, M) == v = [s \in SUBSET M |-> Extended(v, s)]

\* The reference is defined on every recording: views of sets of n messages
\* give those of sets of n + 1.
LEMMA ViewsExist ==
    ASSUME NEW M, Recorded(M)
    PROVE  \E v : IsViews(v, M)
<1> DEFINE Small(n) == {s \in SUBSET M : Cardinality(s) <= n}
           Solves(v, n) == v = [s \in Small(n) |-> Extended(v, s)]
           Bad == {n \in Nat : ~\E v : Solves(v, n)}
<1>0. \A s \in SUBSET M : IsFiniteSet(s) /\ Cardinality(s) \in Nat
  BY FS_Subset, FS_CardinalityType DEF Recorded
<1>1. ASSUME Bad # {}
      PROVE  FALSE
  <2>1. PICK n \in Bad : \A m \in Bad : n <= m
    <3>1. Bad \in SUBSET Nat
      OBVIOUS
    <3> HIDE DEF Bad
    <3>2. QED
      BY <1>1, <3>1, LeastNatural
  <2>2. CASE n = 0
    <3> DEFINE v == [s \in Small(n) |-> FirstView]
    <3>1. ASSUME NEW s \in Small(n)
          PROVE  s = {}
      <4>1. IsFiniteSet(s) /\ Cardinality(s) \in Nat /\ Cardinality(s) <= 0
        BY <1>0, <2>2
      <4>2. Cardinality(s) = 0
        BY <4>1
      <4>3. QED
        BY <4>1, <4>2, FS_EmptySet
    <3>2. Solves(v, n)
      BY <3>1 DEF Extended
    <3>3. QED
      BY <3>2
  <2>3. CASE n # 0
    <3>1. n - 1 \in Nat /\ n - 1 < n
      BY <2>3
    <3>2. PICK v : Solves(v, n - 1)
      <4>1. n - 1 \notin Bad
        <5>1. ASSUME n - 1 \in Bad PROVE FALSE
          <6>1. n <= n - 1
            BY <2>1, <5>1
          <6>2. QED
            BY <6>1, <3>1
        <5>2. QED
          BY <5>1
      <4>2. QED
        BY <3>1, <4>1
    <3> DEFINE w == [s \in Small(n) |-> Extended(v, s)]
    <3>3. ASSUME NEW s \in Small(n)
          PROVE  Extended(v, s) = Extended(w, s)
      <4>1. CASE s = {}
        BY <4>1 DEF Extended
      <4>2. CASE s # {}
        <5> DEFINE r == s \ {Latest(s)}
        <5>1. Latest(s) \in s
          BY <4>2, LatestFollows
        <5>2. Cardinality(r) = Cardinality(s) - 1
          BY <1>0, <5>1, FS_RemoveElement
        <5>3. r \in Small(n) /\ r \in Small(n - 1)
          BY <1>0, <5>2
        <5>4. v[r] = w[r]
          <6>1. w[r] = Extended(v, r)
            BY <5>3
          <6>2. v[r] = Extended(v, r)
            <7> HIDE DEF r, Small
            <7> QED
              BY <3>2, <5>3
          <6>3. QED
            BY <6>1, <6>2
        <5>5. QED
          BY <5>4, <4>2 DEF Extended
      <4>3. QED
        BY <4>1, <4>2
    <3>4. Solves(w, n)
      BY <3>3
    <3>5. QED
      BY <3>4
  <2>4. QED
    BY <2>2, <2>3
<1>2. PICK v : Solves(v, Cardinality(M))
  BY <1>0, <1>1
<1>3. Small(Cardinality(M)) = SUBSET M
  BY FS_Subset DEF Recorded
<1>4. QED
  BY <1>2, <1>3 DEF IsViews

\* What it is defined as.
LEMMA ViewsChosen ==
    ASSUME NEW M
    PROVE  Views(M) = CHOOSE v : IsViews(v, M)
BY DEF Views, IsViews, Extended, FirstView

\* No messages leave an empty book, and a later one is fed to what the others left.
LEMMA ViewsGrow ==
    ASSUME NEW M, Recorded(M)
    PROVE  /\ Views(M)[{}] = FirstView
           /\ \A S \in SUBSET M : \A m \in M \ S :
                  (\A n \in S : Follows(m, n)) =>
                      Views(M)[S \cup {m}] = Fed(Views(M)[S], m)
<1> DEFINE v == Views(M)
<1>1. IsViews(v, M)
  BY ViewsExist, ViewsChosen
<1> HIDE DEF v
<1>2. \A s \in SUBSET M : v[s] = Extended(v, s)
  BY <1>1 DEF IsViews
<1>3. v[{}] = FirstView
  BY <1>2 DEF Extended
<1>4. ASSUME NEW S \in SUBSET M, NEW m \in M \ S, \A n \in S : Follows(m, n)
      PROVE  v[S \cup {m}] = Fed(v[S], m)
  <2> DEFINE s == S \cup {m}
  <2>1. s \in SUBSET M /\ s # {} /\ s \ {m} = S /\ m \in s
    OBVIOUS
  <2>2. Latest(s) = m
    <3>1. \A n \in s \ {m} : Follows(m, n)
      BY <1>4
    <3> HIDE DEF s
    <3>2. QED
      BY <2>1, <3>1, LatestIs
  <2>3. v[s] = Extended(v, s)
    BY <1>2, <2>1
  <2> HIDE DEF s
  <2>4. v[s] = Fed(v[S], m)
    BY <2>1, <2>2, <2>3 DEF Extended
  <2>5. QED
    BY <2>4 DEF s
<1>5. QED
  BY <1>3, <1>4 DEF v

-----------------------------------------------------------------------------
\* The timeline of a recording, what has been taken off it, and its answers.
MessageItem(m) == <<m.time, 0, m.index, m>>
QueryItem(q) == <<q.time, 1, q.place, q>>

Items == {MessageItem(m) : m \in recording[1]} \cup {QueryItem(q) : q \in recording[2]}

Processed == {m \in recording[1] : MessageItem(m) \notin timeline}

Answered(a, q) ==
    LET view == ViewAt(q.time)
    IN  /\ a.state = view.book
        /\ IF view.news = None THEN a.last = None /\ a.age = None
           ELSE a.last = Dates(view.news) /\ a.age = q.time - view.news.time

\* The inductive invariant: the items left come after those taken, the book
\* and the dates are what the messages taken leave, and every query taken
\* has been answered as it should be.
ReplayInv ==
    /\ recording \in Recordings
    /\ timeline \subseteq Items
    /\ \A x \in Items \ timeline : \A y \in timeline : ~Sorts(y, x)
    /\ \E news \in recording[1] \cup {None} :
           /\ Views(recording[1])[Processed] = [book |-> book, news |-> news]
           /\ last = IF news = None THEN None ELSE Dates(news)
    /\ \A q \in recording[2] : QueryItem(q) \notin timeline => \E a \in answers : a.id = q.id
    /\ \A a \in answers : \A q \in recording[2] : a.id = q.id => Answered(a, q)

\* What the assumption on recordings says of the one being replayed.
LEMMA RecordingFacts ==
    ASSUME recording \in Recordings
    PROVE  /\ Recorded(recording[1])
           /\ \A q \in recording[2] : q.time \in Nat /\ q.place \in Nat
           /\ \A p, q \in recording[2] : p.id = q.id \/ p.place = q.place => p = q
           /\ \A m \in recording[1] : m # None /\ Dates(m) # None
BY RecordingsAssumption DEF Recorded

\* Before the first item the book is empty and nothing is answered.
LEMMA ReplayStarts ==
    ASSUME ReplayInit
    PROVE  ReplayInv
<1>1. recording \in Recordings /\ timeline = Items /\ answers = {} /\ last = None
  BY DEF ReplayInit, Items, MessageItem, QueryItem
<1>2. Recorded(recording[1])
  BY <1>1, RecordingFacts
<1>3. Processed = {}
  BY <1>1 DEF Processed, Items
<1>4. \A q \in recording[2] : QueryItem(q) \in timeline
  BY <1>1 DEF Items
<1>5. Views(recording[1])[Processed] = [book |-> book, news |-> None]
  BY <1>2, <1>3, ViewsGrow DEF FirstView, ReplayInit, Init
<1>6. QED
  BY <1>1, <1>4, <1>5 DEF ReplayInv

\* Taking an item leaves what comes after it.
LEMMA TakeKeeps ==
    ASSUME ReplayInv, NEW x \in timeline, NEW rank,
           Take(x, rank)
    PROVE  /\ recording' = recording /\ timeline' = timeline \ {x} /\ x[2] = rank
           /\ x \in Items /\ Items' = Items /\ timeline' \subseteq Items'
           /\ \A y \in Items' \ timeline' : \A z \in timeline' : ~Sorts(z, y)
           /\ \A y \in Items \ timeline : ~Sorts(x, y)
           /\ \A y \in timeline : ~Sorts(y, x)
<1>1. /\ recording' = recording /\ timeline' = timeline \ {x} /\ x[2] = rank
      /\ \A y \in timeline : ~Sorts(y, x)
  BY DEF Take
<1>2. Items' = Items
  BY <1>1 DEF Items
<1>3. QED
  BY <1>1, <1>2 DEF ReplayInv

\* A message taken is the latest of those taken.
LEMMA MessageTaken ==
    ASSUME ReplayInv, NEW x \in timeline, Take(x, 0)
    PROVE  /\ x[4] \in recording[1] \ Processed /\ x = MessageItem(x[4])
           /\ Processed' = Processed \cup {x[4]}
           /\ Views(recording[1])'[Processed'] =
                  Fed(Views(recording[1])[Processed], x[4])
           /\ \A q \in recording[2] : QueryItem(q) \notin timeline' => QueryItem(q) \notin timeline
<1> DEFINE m == x[4]
<1>1. /\ recording' = recording /\ timeline' = timeline \ {x} /\ x[2] = 0 /\ x \in Items
      /\ \A y \in Items \ timeline : ~Sorts(x, y)
  BY TakeKeeps
<1>2. m \in recording[1] /\ x = MessageItem(m)
  BY <1>1 DEF Items, MessageItem, QueryItem
<1>3. Recorded(recording[1])
  BY RecordingFacts DEF ReplayInv
<1> HIDE DEF m
<1>4. m \notin Processed
  BY <1>2 DEF Processed
<1>5. \A n \in recording[1] : MessageItem(n) = x <=> n = m
  BY <1>2 DEF MessageItem
<1>6. Processed' = Processed \cup {m}
  BY <1>1, <1>2, <1>5 DEF Processed
<1>7. ASSUME NEW n \in Processed PROVE Follows(m, n)
  <2>1. n \in recording[1] /\ MessageItem(n) \in Items \ timeline /\ n # m
    BY <1>4 DEF Processed, Items
  <2>2. ~Sorts(MessageItem(m), MessageItem(n))
    BY <1>1, <1>2, <2>1
  <2>3. /\ m.time \in Nat /\ n.time \in Nat /\ m.index \in Nat /\ n.index \in Nat
        /\ m.index # n.index
    BY <1>2, <1>3, <2>1 DEF Recorded
  <2>4. QED
    BY <2>2, <2>3 DEF Sorts, MessageItem, Follows
<1>8. Processed \in SUBSET recording[1] /\ m \in recording[1] \ Processed
  BY <1>2, <1>4 DEF Processed
<1>9. Views(recording[1])[Processed \cup {m}]
          = Fed(Views(recording[1])[Processed], m)
  BY <1>3, <1>7, <1>8, ViewsGrow
<1>10. Views(recording[1])' = Views(recording[1])
  BY <1>1
<1>11. \A q \in recording[2] : QueryItem(q) # x
  BY <1>1 DEF QueryItem
<1>12. QED
  BY <1>1, <1>2, <1>6, <1>8, <1>9, <1>10, <1>11 DEF m

\* An answer stays true, since the messages visible by a time are.
LEMMA AnsweredStays ==
    ASSUME recording' = recording, NEW a, NEW q
    PROVE  Answered(a, q)' <=> Answered(a, q)
BY DEF Answered, ViewAt, Seen

\* A message keeps the invariant, taken or refused.
LEMMA MessageKeeps ==
    ASSUME ReplayInv, NEW x \in timeline,
           AcceptMessage(x) \/ RefuseMessage(x)
    PROVE  ReplayInv'
<1> DEFINE m == x[4]
           v == Views(recording[1])[Processed]
           w == Views(recording[1])'[Processed']
<1>1. Take(x, 0) /\ answers' = answers
  BY DEF AcceptMessage, RefuseMessage
<1>2. /\ m \in recording[1] /\ w = Fed(v, m)
      /\ \A q \in recording[2] : QueryItem(q) \notin timeline' => QueryItem(q) \notin timeline
  BY <1>1, MessageTaken
<1>3. /\ recording' = recording /\ Items' = Items /\ timeline' \subseteq Items'
      /\ \A y \in Items' \ timeline' : \A z \in timeline' : ~Sorts(z, y)
  BY <1>1, TakeKeeps
<1>4. PICK news \in recording[1] \cup {None} :
          /\ v = [book |-> book, news |-> news]
          /\ last = IF news = None THEN None ELSE Dates(news)
  BY DEF ReplayInv
<1>5. \E next \in recording'[1] \cup {None} :
          /\ w = [book |-> book', news |-> next]
          /\ last' = IF next = None THEN None ELSE Dates(next)
  <2> HIDE DEF v, w
  <2>1. CASE AcceptMessage(x)
    <3>1. /\ Accepts(book, m) /\ last' = Dates(m) /\ m # None
          /\ book' = Commit(book, m.seq, DepthAfter(book, m))
      BY <1>2, <2>1, RecordingFacts
         DEF AcceptMessage, ReplayInv, AcceptSnapshot, AcceptUpdate, Accepts, AcceptsSnapshot,
             AcceptsUpdate, DepthAfter
    <3>2. v.book = book
      BY <1>4
    <3> HIDE DEF m
    <3>3. w = [book |-> book', news |-> m]
      BY <1>2, <3>1, <3>2 DEF Fed
    <3>4. QED
      BY <1>2, <1>3, <3>1, <3>3
  <2>2. CASE RefuseMessage(x)
    <3>1. /\ ~Accepts(book, m) /\ last' = last
          /\ book' = Reject(book, m.seq)
      BY <2>2 DEF RefuseMessage, RejectMessage
    <3>2. v.book = book
      BY <1>4
    <3> HIDE DEF m
    <3>3. w = [v EXCEPT !.book = book']
      BY <1>2, <3>1, <3>2 DEF Fed
    <3>4. w = [book |-> book', news |-> news]
      BY <1>4, <3>3
    <3>5. QED
      BY <1>3, <1>4, <3>1, <3>4
  <2>3. QED
    BY <2>1, <2>2
<1>6. \A q \in recording'[2] :
          QueryItem(q)' \notin timeline' => \E a \in answers' : a.id = q.id
  BY <1>1, <1>2, <1>3 DEF ReplayInv
<1>7. \A a \in answers' : \A q \in recording'[2] : a.id = q.id => Answered(a, q)'
  BY <1>1, <1>3, AnsweredStays DEF ReplayInv
<1>8. QED
  BY <1>3, <1>5, <1>6, <1>7 DEF ReplayInv

\* When a query comes, the messages taken are those visible at its time.
LEMMA QueryTaken ==
    ASSUME ReplayInv, NEW x \in timeline, Take(x, 1)
    PROVE  /\ x[4] \in recording[2] /\ x = QueryItem(x[4])
           /\ Processed = Seen(x[4].time) /\ Processed' = Processed
<1> DEFINE q == x[4]
<1>1. /\ recording' = recording /\ timeline' = timeline \ {x} /\ x[2] = 1 /\ x \in Items
      /\ \A y \in Items \ timeline : ~Sorts(x, y)
      /\ \A y \in timeline : ~Sorts(y, x)
  BY TakeKeeps
<1>2. q \in recording[2] /\ x = QueryItem(q)
  BY <1>1 DEF Items, MessageItem, QueryItem
<1>3. Recorded(recording[1]) /\ q.time \in Nat
  BY <1>2, RecordingFacts DEF ReplayInv
<1> HIDE DEF q
<1>4. ASSUME NEW m \in recording[1]
      PROVE  MessageItem(m) \notin timeline <=> m.time <= q.time
  <2>1. m.time \in Nat /\ MessageItem(m) \in Items
    BY <1>3 DEF Recorded, Items
  <2>2. Sorts(x, MessageItem(m)) <=> q.time < m.time
    BY <1>2, <1>3, <2>1 DEF Sorts, QueryItem, MessageItem
  <2>3. Sorts(MessageItem(m), x) <=> m.time <= q.time
    BY <1>2, <1>3, <2>1 DEF Sorts, QueryItem, MessageItem
  <2>4. QED
    BY <1>1, <1>3, <2>1, <2>2, <2>3
<1>5. Processed = Seen(q.time)
  BY <1>4 DEF Processed, Seen
<1>6. \A m \in recording[1] : MessageItem(m) # x
  BY <1>1 DEF MessageItem
<1>7. Processed' = Processed
  BY <1>1, <1>6 DEF Processed
<1>8. QED
  BY <1>2, <1>5, <1>7 DEF q

\* An answer keeps the invariant: it is what the messages taken leave.
LEMMA AnswerKeeps ==
    ASSUME ReplayInv, NEW x \in timeline, Answer(x)
    PROVE  ReplayInv'
<1> DEFINE q == x[4]
           v == Views(recording[1])[Processed]
<1>1. /\ Take(x, 1) /\ book' = book /\ last' = last
      /\ answers' = answers \cup {Result(q)}
  BY DEF Answer, vars
<1>2. /\ q \in recording[2] /\ x = QueryItem(q)
      /\ Processed = Seen(q.time) /\ Processed' = Processed
  BY <1>1, QueryTaken
<1>3. /\ recording' = recording /\ timeline' = timeline \ {x}
      /\ Items' = Items /\ timeline' \subseteq Items'
      /\ \A y \in Items' \ timeline' : \A z \in timeline' : ~Sorts(z, y)
  BY <1>1, TakeKeeps
<1>4. PICK news \in recording[1] \cup {None} :
          /\ v = [book |-> book, news |-> news]
          /\ last = IF news = None THEN None ELSE Dates(news)
  BY DEF ReplayInv
<1>5. /\ \A p \in recording[2] : p.id = q.id => p = q
      /\ \A m \in recording[1] : m # None /\ Dates(m) # None
  BY <1>2, RecordingFacts DEF ReplayInv
<1> HIDE DEF q
<1>6. Answered(Result(q), q)
  <2>1. ViewAt(q.time) = [book |-> book, news |-> news]
    BY <1>2, <1>4 DEF ViewAt
  <2>2. Dates(news).visible = news.time
    BY DEF Dates
  <2>3. QED
    BY <1>4, <1>5, <2>1, <2>2 DEF Answered, Result
<1>7. Result(q).id = q.id
  BY DEF Result
<1>8. \A a \in answers' : \A p \in recording'[2] : a.id = p.id => Answered(a, p)'
  <2>1. \A a \in answers' : \A p \in recording[2] : a.id = p.id => Answered(a, p)
    BY <1>1, <1>5, <1>6, <1>7 DEF ReplayInv
  <2>2. QED
    BY <1>3, <2>1, AnsweredStays
<1>9. \A p \in recording'[2] :
          QueryItem(p)' \notin timeline' => \E a \in answers' : a.id = p.id
  <2>1. \A p \in recording[2] : QueryItem(p) = x => p = q
    BY <1>2 DEF QueryItem
  <2>2. QED
    BY <1>1, <1>3, <1>7, <2>1 DEF ReplayInv
<1>10. \E next \in recording'[1] \cup {None} :
          /\ Views(recording[1])'[Processed'] = [book |-> book', news |-> next]
          /\ last' = IF next = None THEN None ELSE Dates(next)
  <2>1. Views(recording[1])' = Views(recording[1])
    BY <1>3
  <2>2. QED
    BY <1>1, <1>2, <1>3, <1>4, <2>1
<1>11. QED
  BY <1>3, <1>8, <1>9, <1>10 DEF ReplayInv

\* Every item keeps the invariant.
LEMMA ReplayKeeps == ReplayInv /\ [ReplayNext]_replayVars => ReplayInv'
<1> SUFFICES ASSUME ReplayInv, [ReplayNext]_replayVars PROVE ReplayInv'
  OBVIOUS
<1>1. CASE UNCHANGED replayVars
  <2>1. UNCHANGED <<recording, timeline, book, last, answers>>
    BY <1>1 DEF replayVars, vars
  <2>2. Items' = Items /\ Processed' = Processed
    BY <2>1 DEF Items, Processed
  <2>3. Views(recording[1])' = Views(recording[1])
    BY <2>1
  <2>4. \A a \in answers' : \A q \in recording'[2] : a.id = q.id => Answered(a, q)'
    BY <2>1, AnsweredStays DEF ReplayInv
  <2>5. QED
    BY <2>1, <2>2, <2>3, <2>4 DEF ReplayInv
<1>2. CASE ReplayNext
  BY <1>1, <1>2, MessageKeeps, AnswerKeeps DEF ReplayNext, Done
<1>3. QED
  BY <1>1, <1>2

\* The replay uses its book as OrderBook allows, on messages it may be offered
\* (run_replay): all that is proved of the book above holds of the replay's.
THEOREM ReplayUsesBook == ReplaySpec => Spec
<1>1. ReplayInit => Init /\ ReplayInv
  BY ReplayStarts DEF ReplayInit
<1>2. ReplayInv /\ [ReplayNext]_replayVars => [Next]_vars
  <2> SUFFICES ASSUME ReplayInv, ReplayNext, ~UNCHANGED vars
               PROVE  Next
    BY DEF replayVars
  <2>1. PICK x \in timeline : AcceptMessage(x) \/ RefuseMessage(x)
    BY DEF ReplayNext, Done, Answer, replayVars
  <2>2. x[4] \in recording[1] /\ recording \in Recordings
    BY <2>1, MessageTaken DEF AcceptMessage, RefuseMessage, ReplayInv
  <2>3. x[4] \in Messages
    BY <2>2, RecordingsAssumption
  <2>4. QED
    BY <2>1, <2>3 DEF AcceptMessage, RefuseMessage, Next
<1>3. QED
  BY <1>1, <1>2, ReplayKeeps, PTL DEF ReplaySpec, Spec

\* Every query is answered from the messages visible at its time, all of them
\* and no other (run_replay): what was recorded for later, and in which order
\* the recording lists what is visible, makes no difference.
THEOREM QueriesSeeThePast == ReplaySpec => []AnswersAreCausal
<1>1. ReplayInit => ReplayInv
  BY ReplayStarts
<1>2. ReplayInv => AnswersAreCausal
  <2> SUFFICES ASSUME ReplayInv, NEW q \in recording[2]
               PROVE  /\ timeline = {} => {a \in answers : a.id = q.id} # {}
                      /\ \A a \in {b \in answers : b.id = q.id} : Answered(a, q)
    BY DEF AnswersAreCausal, Answered
  <2>1. QED
    BY DEF ReplayInv
<1>3. QED
  BY <1>1, <1>2, ReplayKeeps, PTL DEF ReplaySpec

=============================================================================
