------------------------------- MODULE Replay -------------------------------
(***************************************************************************)
(* run_replay of lob_lab/replay.py: recorded messages and cost queries are *)
(* sorted into one timeline and run through one OrderBook.  A query is a   *)
(* record of its id, its place in the input and the time it is asked at;   *)
(* what it asks of the book (estimate_cost) is a function of the answered  *)
(* state and left out.                                                     *)
(***************************************************************************)
EXTENDS OrderBook, FiniteSets

CONSTANTS
    Recordings,         \* recordings, each a pair of a set of messages and a
                        \* set of queries; a message has its event_index,
                        \* visible_time_ns and source_time_ns in the fields
                        \* index, time and source
    None                \* None

\* The dates of an accepted message.
Dates(m) == [visible |-> m.time, source |-> m.source]

\* What run_replay lets through: unique indices and ids, natural times.
ASSUME RecordingsAssumption ==
    \A r \in Recordings :
        /\ r[1] \subseteq Messages
        /\ \A m, n \in r[1] : m.index = n.index => m = n
        /\ \A p, q \in r[2] : p.id = q.id \/ p.place = q.place => p = q
        /\ \A m \in r[1] : m.time \in Nat /\ m.index \in Nat
        /\ \A q \in r[2] : q.time \in Nat /\ q.place \in Nat
        /\ IsFiniteSet(r[1])
        /\ None \notin r[1] \cup {Dates(m) : m \in r[1]}

VARIABLES
    recording,          \* events and queries
    timeline,           \* what is left of the timeline, a set of items
    last,               \* last_visible, last_source: both of the message
                        \* accepted last, None before one is
    answers             \* results, by query

replayVars == <<vars, recording, timeline, last, answers>>

ReplayInit ==
    /\ Init
    /\ recording \in Recordings
    /\ timeline = {<<m.time, 0, m.index, m>> : m \in recording[1]}
                      \cup {<<q.time, 1, q.place, q>> : q \in recording[2]}
    /\ last = None /\ answers = {}

\* Mutant: messages of one time are sorted by sequence.
SortsBySequence(x, y) ==
    \/ x[1] < y[1]
    \/ x[1] = y[1] /\ x[2] < y[2]
    \/ x[1] = y[1] /\ x[2] = 0 /\ y[2] = 0 /\ x[4].seq < y[4].seq

\* The sort key: time, messages before queries, index or input order.
Sorts(x, y) ==
    \/ x[1] < y[1]
    \/ x[1] = y[1] /\ x[2] < y[2]
    \/ x[1] = y[1] /\ x[2] = y[2] /\ x[3] < y[3]

\* The loop takes the items in the order of the timeline.
Take(x, priority) ==
    /\ x[2] = priority
    /\ \A y \in timeline : ~Sorts(y, x)
    /\ timeline' = timeline \ {x}
    /\ UNCHANGED recording

AcceptMessage(x) ==
    /\ Take(x, 0)
    /\ AcceptSnapshot(x[4]) \/ AcceptUpdate(x[4])
    /\ last' = Dates(x[4])
    /\ UNCHANGED answers

\* The book raises BookError, which becomes a result.
RefuseMessage(x) ==
    /\ Take(x, 0)
    /\ RejectMessage(x[4])
    /\ UNCHANGED <<last, answers>>

\* QueryResult: the state, the dates of the last accepted message and its age;
\* there is an estimate exactly when the state is valid.
Result(q) ==
    [id |-> q.id, state |-> book, last |-> last,
     age |-> IF last = None THEN None ELSE q.time - last.visible]

Answer(x) ==
    /\ Take(x, 1)
    /\ answers' = answers \cup {Result(x[4])}
    /\ UNCHANGED <<vars, last>>

Done == timeline = {} /\ UNCHANGED replayVars

ReplayNext ==
    (\E x \in timeline : AcceptMessage(x) \/ RefuseMessage(x) \/ Answer(x)) \/ Done

ReplaySpec == ReplayInit /\ [][ReplayNext]_replayVars

-----------------------------------------------------------------------------
\* The reference: the messages visible by a time, one after the other, of a
\* recording that has nothing else.

Seen(t) == {m \in recording[1] : m.time <= t}

Follows(m, n) == m.time > n.time \/ (m.time = n.time /\ m.index > n.index)

Latest(messages) == CHOOSE m \in messages : \A n \in messages \ {m} : Follows(m, n)

Fed(view, m) ==
    IF Accepts(view.book, m)
    THEN [book |-> Commit(view.book, m.seq, DepthAfter(view.book, m)), news |-> m]
    ELSE [view EXCEPT !.book = Reject(@, m.seq)]

\* What messages leave is what the latest adds to what the others leave.
Views(recorded) ==
    LET view[messages \in SUBSET recorded] ==
            IF messages = {} THEN [book |-> InitBook, news |-> None]
            ELSE Fed(view[messages \ {Latest(messages)}], Latest(messages))
    IN  view

ViewAt(t) == Views(recording[1])[Seen(t)]

\* Every query is answered from the messages visible at its time, all of them
\* and no other, whatever was recorded for later; its age counts from the last
\* message that was accepted, not from one that was refused; and the end of
\* the timeline leaves no query without an answer.
AnswersAreCausal ==
    \A q \in recording[2] :
        LET given == {a \in answers : a.id = q.id}
            view == ViewAt(q.time)
        IN  /\ timeline = {} => given # {}
            /\ \A a \in given :
                   /\ a.state = view.book
                   /\ IF view.news = None THEN a.last = None /\ a.age = None
                      ELSE /\ a.last = Dates(view.news)
                           /\ a.age = q.time - view.news.time

=============================================================================
