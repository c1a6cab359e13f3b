-------------------------- MODULE LeafServerProofs --------------------------
(***************************************************************************)
(* For every set of options and every stream of records: the inserting and *)
(* the serving thread exclude each other, a reply is of one moment, and no *)
(* more points are inserted than asked for.  The cubes hold exactly what   *)
(* was read.                                                               *)
(***************************************************************************)
EXTENDS LeafServer, FiniteSetTheorems, TLAPS

(* The manager, as far as its shape goes.                                  *)
ManagerShape ==
  /\ cubes \in [{0, 1} -> {NoCube} \cup SUBSET Records]
  /\ windows \in [{0, 1} -> Nat \cup {-1}]
  /\ parity \in {0, 1} /\ latestAt \in Nat \cup {-1}
  /\ \A s \in {0, 1} : windows[s] \in Nat => cubes[s] \in SUBSET Records

LEMMA WindowType ==
  ASSUME NEW ts \in Nat
  PROVE  Manager!WindowOf(ts) \in Nat
  BY ServerAssumption DEF ServerAssumption, Manager!WindowOf

LEMMA ServedIs ==
  ASSUME ManagerShape
  PROVE  \A x : x \in Manager!Served <=> \E s \in {0, 1} : windows[s] \in Nat /\ x \in cubes[s]
<1>1. \A s \in {0, 1} : windows[s] >= 0 <=> windows[s] \in Nat
  BY DEF ManagerShape
<1> QED
  BY <1>1 DEF Manager!Served, Manager!Visited, Manager!Slots

LEMMA ServedWillBe ==
  (ManagerShape =>
    \A x : x \in Manager!Served <=> \E s \in {0, 1} : windows[s] \in Nat /\ x \in cubes[s])'
<1>1. ManagerShape =>
        \A x : x \in Manager!Served <=> \E s \in {0, 1} : windows[s] \in Nat /\ x \in cubes[s]
  BY ServedIs
<1> QED
  BY <1>1, PTL

(* Adding records to the cube of a time serves no others than these.       *)
LEMMA AddIs ==
  ASSUME ManagerShape, NEW ts \in Nat, NEW add \in SUBSET Records, Manager!AddTo(ts, add)
  PROVE  ManagerShape' /\ Manager!Served' \subseteq Manager!Served \cup add
<1> DEFINE w == Manager!WindowOf(ts)
           c == parity
           p == 1 - parity
<1>1. w \in Nat
  BY WindowType
<1>2. c \in {0, 1} /\ p \in {0, 1} /\ c # p /\ \A s \in {0, 1} : s = c \/ s = p
  BY DEF ManagerShape
<1>3. latestAt' \in Nat \cup {-1}
  BY DEF ManagerShape, Manager!AddTo, Manager!HitCurrent, Manager!HitPrevious, Manager!NewPrevious,
         Manager!NextWindow, Manager!Jump, Manager!Latest
<1>4. PICK s \in {c, p} :
        /\ \/ /\ w = windows[s] /\ cubes' = [cubes EXCEPT ![s] = @ \cup add]
              /\ windows' = windows
           \/ cubes' = [cubes EXCEPT ![s] = add] /\ windows' = [windows EXCEPT ![s] = w]
           \/ /\ cubes' = [cubes EXCEPT ![c] = add, ![p] = NoCube]
              /\ windows' = [windows EXCEPT ![c] = w, ![p] = -1]
        /\ parity' \in {c, p}
  BY DEF Manager!AddTo, Manager!HitCurrent, Manager!HitPrevious, Manager!NewPrevious,
         Manager!NextWindow, Manager!Jump, Manager!Current, Manager!Previous, Manager!NoWindow
<1> HIDE DEF w, c, p
<1>5. ManagerShape'
  BY <1>1, <1>2, <1>3, <1>4 DEF ManagerShape
<1>6. ASSUME NEW x \in Manager!Served' PROVE x \in Manager!Served \cup add
  <2>1. (\A y : y \in Manager!Served <=> \E t \in {0, 1} : windows[t] \in Nat /\ y \in cubes[t])'
    BY <1>5, ServedWillBe
  <2>2. PICK t \in {0, 1} : windows'[t] \in Nat /\ x \in cubes'[t]
    BY <2>1
  <2>3. x \in add \/ (windows[t] \in Nat /\ x \in cubes[t])
    BY <1>1, <1>2, <1>4, <2>2 DEF ManagerShape
  <2> QED
    BY <2>3, ServedIs
<1> QED
  BY <1>5, <1>6

-----------------------------------------------------------------------------
(* What was read, and how far the batch has been inserted.                 *)
StreamTypes ==
  /\ options \in Scenarios
  /\ arrived \in Seq(Records) /\ closed \in BOOLEAN
  /\ buffer \in [1 .. options.batch -> Timestamps]
  /\ filled \in 0 .. options.batch /\ position \in 0 .. filled /\ slot \in 0 .. options.batch
  /\ done \in BOOLEAN /\ insertedPoints \in Nat
  /\ Len(arrived) <= options.records /\ filled <= Len(arrived)

CubeTypes == ManagerShape /\ seen \subseteq Records /\ plain \subseteq Records

LEMMA OptionTypes ==
  ASSUME NEW o \in Scenarios
  PROVE  /\ o.sliding \in BOOLEAN /\ o.batch \in Nat \ {0} /\ o.maximum \in Nat /\ o.lateness \in Nat
         /\ o.records \in Nat /\ o.records <= MaxRecords /\ MaxRecords \in Nat
  BY ServerAssumption DEF ServerAssumption

LEMMA ConcatIs ==
  ASSUME NEW S, NEW a \in Seq(S), NEW b \in Seq(S)
  PROVE  /\ a \o b \in Seq(S) /\ Len(a \o b) = Len(a) + Len(b)
         /\ \A i \in 1 .. Len(a) : (a \o b)[i] = a[i]
         /\ \A i \in 1 .. Len(b) : (a \o b)[Len(a) + i] = b[i]
  OBVIOUS

(* The batch that a read appends, and where its records are in the stream. *)
LEMMA ReadIs ==
  ASSUME StreamTypes, Read
  PROVE  \E k \in 1 .. options.batch, times \in [1 .. options.batch -> Timestamps] :
           /\ arrived' \in Seq(Records) /\ Len(arrived') = Len(arrived) + k
           /\ Len(arrived') <= options.records
           /\ \A i \in 1 .. Len(arrived) : arrived'[i] = arrived[i]
           /\ \A i \in 1 .. k : arrived'[Len(arrived) + i] = [ts |-> times[i], n |-> Len(arrived) + i]
           /\ Timely(arrived')
           /\ buffer' = [i \in 1 .. options.batch |-> IF i <= k THEN times[i] ELSE buffer[i]]
           /\ filled' = k /\ closed' \in BOOLEAN /\ position' = 0 /\ slot' = 0
           /\ UNCHANGED <<options, content, done, insertedPoints>>
<1>0. PICK k \in 1 .. options.batch : \E few \in [1 .. k -> Timestamps] :
        LET batch == [i \in 1 .. k |-> [ts |-> few[i], n |-> Len(arrived) + i]]
        IN  /\ Len(arrived) + k <= options.records
            /\ Timely(arrived \o batch)
            /\ arrived' = arrived \o batch
            /\ buffer' = [i \in 1 .. options.batch |-> IF i <= k THEN few[i] ELSE buffer[i]]
            /\ filled' = k
            /\ closed' = (k < options.batch)
            /\ UNCHANGED options
  BY DEF Read
<1>1. PICK few \in [1 .. k -> Timestamps] :
        LET batch == [i \in 1 .. k |-> [ts |-> few[i], n |-> Len(arrived) + i]]
        IN  /\ Len(arrived) + k <= options.records
            /\ Timely(arrived \o batch)
            /\ arrived' = arrived \o batch
            /\ buffer' = [i \in 1 .. options.batch |-> IF i <= k THEN few[i] ELSE buffer[i]]
            /\ filled' = k
            /\ closed' = (k < options.batch)
            /\ UNCHANGED options
  BY <1>0
<1> DEFINE batch == [i \in 1 .. k |-> [ts |-> few[i], n |-> Len(arrived) + i]]
           times == [i \in 1 .. options.batch |-> IF i <= k THEN few[i] ELSE 0]
<1>2. /\ options.batch \in Nat /\ options.records \in Nat /\ options.records <= MaxRecords
      /\ MaxRecords \in Nat /\ Len(arrived) \in Nat /\ 0 \in Timestamps
      /\ k \in Nat /\ k <= options.batch
  BY OptionTypes, ServerAssumption DEF StreamTypes, ServerAssumption
<1>3. \A i \in 1 .. k : batch[i] \in Records
  BY <1>1, <1>2 DEF Records
<1>4. batch \in Seq(Records) /\ Len(batch) = k
  <2>1. batch \in [1 .. k -> Records]
    BY <1>3
  <2> HIDE DEF batch
  <2> QED
    BY <1>2, <2>1
<1>5. /\ arrived' \in Seq(Records) /\ Len(arrived') = Len(arrived) + k
      /\ \A i \in 1 .. Len(arrived) : arrived'[i] = arrived[i]
      /\ \A i \in 1 .. k : arrived'[Len(arrived) + i] = batch[i]
  <2>1. arrived' = arrived \o batch /\ arrived \in Seq(Records)
    BY <1>1 DEF StreamTypes
  <2> HIDE DEF batch
  <2>2. batch \in Seq(Records)
    BY <1>4
  <2>3. arrived \o batch \in Seq(Records)
    BY <2>1, <2>2, ConcatIs
  <2>4. Len(arrived \o batch) = Len(arrived) + Len(batch)
    BY <2>1, <2>2, ConcatIs
  <2>5. \A i \in 1 .. Len(arrived) : (arrived \o batch)[i] = arrived[i]
    BY <2>1, <2>2, ConcatIs
  <2>6. \A i \in 1 .. Len(batch) : (arrived \o batch)[Len(arrived) + i] = batch[i]
    BY <2>1, <2>2, ConcatIs
  <2> QED
    BY <1>4, <2>1, <2>3, <2>4, <2>5, <2>6
<1>6. times \in [1 .. options.batch -> Timestamps] /\ \A i \in 1 .. k : times[i] = few[i]
  <2>1. \A i \in 1 .. k : few[i] \in Timestamps /\ i \in 1 .. options.batch /\ i <= k
    BY <1>2
  <2>2. \A i \in 1 .. options.batch : i <= k => i \in 1 .. k
    BY <1>2
  <2> QED
    BY <1>2, <2>1, <2>2
<1>7. /\ position' = 0 /\ slot' = 0 /\ UNCHANGED <<content, done, insertedPoints>>
      /\ closed' \in BOOLEAN
  BY <1>1 DEF Read, Rewind
<1>8. buffer' = [i \in 1 .. options.batch |-> IF i <= k THEN times[i] ELSE buffer[i]]
  BY <1>1, <1>2, <1>6
<1>9. \A i \in 1 .. k : batch[i] = [ts |-> times[i], n |-> Len(arrived) + i]
  BY <1>6
<1>10. /\ Len(arrived') <= options.records /\ Timely(arrived')
       /\ filled' = k /\ UNCHANGED options
  BY <1>1, <1>5
<1> HIDE DEF times, batch
<1> QED
  BY <1>5, <1>6, <1>7, <1>8, <1>9, <1>10

LEMMA ReadKeepsTypes ==
  ASSUME StreamTypes, CubeTypes, Read
  PROVE  StreamTypes' /\ CubeTypes' /\ filled' > 0
<1>1. PICK k \in 1 .. options.batch, times \in [1 .. options.batch -> Timestamps] :
           /\ arrived' \in Seq(Records) /\ Len(arrived') = Len(arrived) + k
           /\ Len(arrived') <= options.records
           /\ buffer' = [i \in 1 .. options.batch |-> IF i <= k THEN times[i] ELSE buffer[i]]
           /\ filled' = k /\ closed' \in BOOLEAN /\ position' = 0 /\ slot' = 0
           /\ UNCHANGED <<options, content, done, insertedPoints>>
  BY ReadIs
<1>2. options.batch \in Nat /\ Len(arrived) \in Nat
  BY OptionTypes DEF StreamTypes
<1> QED
  BY <1>1, <1>2 DEF StreamTypes, CubeTypes, ManagerShape, content, mgr

(* The step of the loop, as far as the stream goes: the time in the slot,  *)
(* the record that add would read, and the one whose turn it is.           *)
LEMMA SlotIs ==
  ASSUME StreamTypes, InLoop
  PROVE  /\ buffer[slot + 1] \in Nat
         /\ position < filled => Streamed \in Records
         /\ Turn \in SUBSET Records
         /\ slot + 1 \in 1 .. options.batch
<1>1. options.batch \in Nat /\ Len(arrived) \in Nat /\ Timestamps \subseteq Nat
  BY OptionTypes, ServerAssumption DEF StreamTypes, ServerAssumption
<1>2. slot + 1 \in 1 .. options.batch
  BY <1>1 DEF StreamTypes, InLoop
<1>3. \A j \in 0 .. filled - 1 : arrived[Len(arrived) - filled + j + 1] \in Records
  <2> SUFFICES ASSUME NEW j \in 0 .. filled - 1
               PROVE  arrived[Len(arrived) - filled + j + 1] \in Records
    OBVIOUS
  <2>1. Len(arrived) - filled + j + 1 \in 1 .. Len(arrived)
    BY <1>1 DEF StreamTypes
  <2> QED
    BY <2>1 DEF StreamTypes
<1>4. position < filled => Streamed \in Records
  BY <1>1, <1>3 DEF StreamTypes, Streamed
<1>5. Turn \in SUBSET Records
  BY <1>1, <1>3 DEF StreamTypes, Turn
<1> QED
  BY <1>1, <1>2, <1>4, <1>5 DEF StreamTypes

(* Everything that is inserted, and what a step of the loop adds to it.    *)
Held == plain \cup Manager!Served

LEMMA InsertOneIs ==
  ASSUME StreamTypes, CubeTypes, InsertOne
  PROVE  /\ StreamTypes' /\ CubeTypes' /\ ~done
         /\ \/ insertedPoints' = insertedPoints /\ done' = TRUE /\ Held' \subseteq Held
            \/ /\ insertedPoints' = insertedPoints + 1
               /\ done' = (options.maximum # 0 /\ insertedPoints + 1 = options.maximum)
               /\ \E r : Held' \subseteq Held \cup {r}
<1>1. /\ InLoop /\ slot' = slot + 1 /\ seen' = seen \cup Turn /\ ~done
      /\ UNCHANGED <<options, arrived, closed, buffer, filled>>
  BY DEF InsertOne, stdin, InLoop
<1>2. /\ buffer[slot + 1] \in Nat /\ (position < filled => Streamed \in Records)
      /\ Turn \in SUBSET Records /\ slot + 1 \in 1 .. options.batch
  BY <1>1, SlotIs
<1>3. options.batch \in Nat /\ filled \in Nat /\ position \in Nat /\ filled <= options.batch
  BY OptionTypes DEF StreamTypes
<1>4. ASSUME Counted \/ Failed,
             position' = position \/ (position < filled /\ position' = position + 1)
      PROVE  /\ StreamTypes'
             /\ \/ Failed
                \/ /\ insertedPoints' = insertedPoints + 1
                   /\ done' = (options.maximum # 0 /\ insertedPoints + 1 = options.maximum)
  <2>1. position' \in 0 .. filled /\ slot' \in 0 .. options.batch
    BY <1>1, <1>2, <1>3, <1>4 DEF StreamTypes
  <2>2. insertedPoints' \in Nat
    BY <1>4 DEF Counted, Failed, StreamTypes
  <2>3. done' \in BOOLEAN
    BY <1>4, Zenon DEF Counted, Failed
  <2> QED
    BY <1>1, <1>4, <2>1, <2>2, <2>3 DEF StreamTypes, Counted
<1>5. ASSUME ManagerShape', plain' \subseteq Records PROVE CubeTypes'
  BY <1>1, <1>2, <1>5 DEF CubeTypes
<1>6. CASE InsertPlain
  <2>1. UNCHANGED mgr
    BY <1>6 DEF InsertPlain
  <2>2. ManagerShape' /\ Manager!Served' = Manager!Served
    BY <2>1 DEF mgr, CubeTypes, ManagerShape, Manager!Served, Manager!Visited
  <2>3. CASE position < filled
    <3>1. plain' = plain \cup {Streamed} /\ position' = position + 1 /\ Counted
      BY <1>6, <2>3 DEF InsertPlain
    <3>2. plain' \subseteq Records /\ Held' \subseteq Held \cup {Streamed}
      BY <1>2, <2>2, <2>3, <3>1 DEF CubeTypes, Held
    <3> QED
      BY <1>1, <1>4, <1>5, <2>2, <2>3, <3>1, <3>2 DEF Counted
  <2>4. CASE ~(position < filled)
    <3>1. plain' = plain /\ position' = position /\ Failed
      BY <1>6, <2>4 DEF InsertPlain
    <3> QED
      BY <1>1, <1>4, <1>5, <2>2, <3>1 DEF Failed, CubeTypes, Held
  <2> QED
    BY <2>3, <2>4
<1>7. CASE InsertSliding
  <2>1. plain' = plain
    BY <1>7 DEF InsertSliding
  <2>2. CASE position < filled
    <3>1. Manager!AddTo(buffer[slot + 1], {Streamed}) /\ position' = position + 1 /\ Counted
      BY <1>7, <2>2 DEF InsertSliding
    <3>2. ManagerShape' /\ Manager!Served' \subseteq Manager!Served \cup {Streamed}
      BY <1>2, <2>2, <3>1, AddIs DEF CubeTypes
    <3>3. Held' \subseteq Held \cup {Streamed}
      BY <2>1, <3>2 DEF Held
    <3> QED
      BY <1>1, <1>4, <1>5, <2>1, <2>2, <3>1, <3>2, <3>3 DEF Counted, CubeTypes
  <2>3. CASE ~(position < filled)
    <3>1. Manager!AddTo(buffer[slot + 1], {}) /\ position' = position /\ Failed
      BY <1>7, <2>3 DEF InsertSliding
    <3>2. ManagerShape' /\ Manager!Served' \subseteq Manager!Served \cup {}
      BY <1>2, <3>1, AddIs DEF CubeTypes
    <3>3. Held' \subseteq Held
      BY <2>1, <3>2 DEF Held
    <3> QED
      BY <1>1, <1>4, <1>5, <2>1, <3>1, <3>2, <3>3 DEF Failed, CubeTypes
  <2> QED
    BY <2>2, <2>3
<1>8. CASE Discard
  <2>1. /\ plain' = plain /\ position' = position /\ Counted
        /\ UNCHANGED <<cubes, windows, parity>> /\ Manager!Latest(buffer[slot + 1])
    BY <1>8 DEF Discard, Manager!TooOld
  <2>2. ManagerShape' /\ Manager!Served' = Manager!Served
    BY <1>2, <2>1 DEF CubeTypes, ManagerShape, Manager!Latest, Manager!Served, Manager!Visited
  <2> QED
    BY <1>1, <1>4, <1>5, <2>1, <2>2 DEF Counted, CubeTypes, Held
<1> QED
  BY <1>6, <1>7, <1>8 DEF InsertOne

-----------------------------------------------------------------------------
(***************************************************************************)
(* The threads.  Who holds shared_mutex is told by where the threads are,  *)
(* so that the cubes stand still while a query visits them, and what it    *)
(* has counted so far is what a visit now would count.                     *)
(***************************************************************************)
ThreadTypes ==
  /\ inserter \in {"read", "lock", "batch", "over"}
  /\ lock \in {"free", "inserter", "server"}
  /\ request \in {"idle", "polling", "query", "plain", "current", "previous", "reply",
                  "shutdown", "finishing", "over"}
  /\ answer \subseteq Records
  /\ finish \in BOOLEAN /\ keepRunning \in BOOLEAN
  /\ main \in {"wait", "join", "serverJoin", "over"}

Exclusion ==
  /\ lock = "inserter" <=> inserter = "batch"
  /\ lock = "server" <=> request \in {"plain", "current", "previous", "reply", "finishing"}

AnswerSoFar ==
  /\ request = "plain" => ~options.sliding
  /\ request \in {"current", "previous"} => options.sliding
  /\ request = "current" => answer = {}
  /\ request = "previous" =>
       answer = IF Manager!Current \in Manager!Visited THEN cubes[Manager!Current] ELSE {}
  /\ request = "reply" => answer = Content

PointsCounted ==
  /\ IsFiniteSet(Held) /\ Cardinality(Held) <= insertedPoints
  /\ options.maximum # 0 =>
       insertedPoints <= options.maximum /\ (~done => insertedPoints < options.maximum)

ServerInv ==
  /\ StreamTypes /\ CubeTypes /\ ThreadTypes
  /\ Exclusion /\ AnswerSoFar /\ PointsCounted
  /\ inserter \in {"lock", "batch"} => filled > 0

(* Steps of threads that leave the cubes and the stream alone.             *)
LEMMA SteadyKeeps ==
  ASSUME StreamTypes, CubeTypes, PointsCounted, UNCHANGED <<content, options, arrived, buffer, filled, loop>>,
         closed' \in BOOLEAN
  PROVE  /\ StreamTypes' /\ CubeTypes' /\ PointsCounted'
         /\ Content' = Content /\ Manager!Visited' = Manager!Visited
         /\ Manager!Current' = Manager!Current
<1>1. StreamTypes'
  BY DEF StreamTypes, loop
<1>2. CubeTypes'
  BY DEF CubeTypes, ManagerShape, content, mgr
<1>3. Held' = Held /\ Manager!Served' = Manager!Served /\ Manager!Visited' = Manager!Visited
  BY DEF Held, Manager!Served, Manager!Visited, content, mgr
<1>4. PointsCounted'
  BY <1>3 DEF PointsCounted, loop
<1> QED
  BY <1>1, <1>2, <1>3, <1>4 DEF Content, content, mgr, Manager!Current

LEMMA VisitTypes ==
  ASSUME CubeTypes
  PROVE  /\ Content \subseteq Records
         /\ Manager!Current \in {0, 1} /\ Manager!Previous \in {0, 1}
         /\ \A s \in Manager!Visited : cubes[s] \subseteq Records
         /\ Manager!Served = (IF Manager!Current \in Manager!Visited THEN cubes[Manager!Current] ELSE {})
                        \cup (IF Manager!Previous \in Manager!Visited THEN cubes[Manager!Previous] ELSE {})
<1>1. /\ Manager!Current \in {0, 1} /\ Manager!Previous \in {0, 1}
      /\ \A s \in {0, 1} : s = Manager!Current \/ s = Manager!Previous
  BY DEF CubeTypes, ManagerShape, Manager!Current, Manager!Previous
<1>2. \A s : s \in Manager!Visited <=> s \in {0, 1} /\ windows[s] \in Nat
  <2>1. \A s \in {0, 1} : windows[s] >= 0 <=> windows[s] \in Nat
    BY DEF CubeTypes, ManagerShape
  <2> QED
    BY <2>1 DEF Manager!Visited, Manager!Slots
<1>3. \A s \in Manager!Visited : cubes[s] \subseteq Records
  BY <1>2 DEF CubeTypes, ManagerShape
<1>4. Content \subseteq Records
  BY <1>3 DEF Content, CubeTypes, Manager!Served
<1>5. Manager!Visited \subseteq {Manager!Current, Manager!Previous}
  BY <1>1, <1>2
<1>6. Manager!Served = UNION {cubes[s] : s \in Manager!Visited}
  BY DEF Manager!Served
<1>7. Manager!Served = (IF Manager!Current \in Manager!Visited THEN cubes[Manager!Current] ELSE {})
                  \cup (IF Manager!Previous \in Manager!Visited THEN cubes[Manager!Previous] ELSE {})
  BY <1>5, <1>6
<1> QED
  BY <1>1, <1>3, <1>4, <1>7

(* The steps of the serving thread, as far as the lock and the answer go.  *)
LEMMA ServingIs ==
  ASSUME ThreadTypes, Serving \/ AskQuery \/ AskShutdown \/ Ending
  PROVE  /\ UNCHANGED <<content, stdin, loop, inserter>>
         /\ finish' \in BOOLEAN /\ keepRunning' \in BOOLEAN
         /\ main' \in {"wait", "join", "serverJoin", "over"}
         /\ \/ UNCHANGED <<request, lock, answer>>
            \/ /\ request \in {"idle", "polling"}
               /\ request' \in {"idle", "polling", "query", "shutdown", "over"}
               /\ UNCHANGED <<lock, answer>>
            \/ /\ request' = IF options.sliding THEN "current" ELSE "plain"
               /\ request = "query" /\ lock = "free" /\ lock' = "server" /\ answer' = {}
            \/ /\ request = "current" /\ request' = "previous" /\ lock' = lock
               /\ Visit(Manager!Current)
            \/ /\ request = "previous" /\ request' = "reply" /\ lock' = lock
               /\ Visit(Manager!Previous)
            \/ request = "plain" /\ request' = "reply" /\ lock' = lock /\ answer' = plain
            \/ request = "reply" /\ request' = "idle" /\ lock' = "free" /\ answer' = {}
            \/ /\ request = "shutdown" /\ request' = "finishing" /\ lock = "free" /\ lock' = "server"
               /\ answer' = answer
            \/ request = "finishing" /\ request' = "idle" /\ lock' = "free" /\ answer' = answer
<1>1. CASE Poll \/ PollNothing \/ StopServing \/ AskQuery \/ AskShutdown
  BY <1>1 DEF ThreadTypes, Poll, PollNothing, StopServing, AskQuery, AskShutdown, Go, ending
<1>2. CASE LockQuery \/ VisitCurrent \/ VisitPrevious \/ VisitPlain \/ Reply \/ LockShutdown
  BY <1>2 DEF ThreadTypes, LockQuery, VisitCurrent, VisitPrevious, VisitPlain, Reply, LockShutdown, Go, ending
<1>3. CASE SetFinish
  BY <1>3 DEF ThreadTypes, SetFinish, Go
<1>4. CASE Ending
  BY <1>4 DEF ThreadTypes, Ending, SeeFinish, JoinInserter, JoinServer, Advance, serving
<1> QED
  BY <1>1, <1>2, <1>3, <1>4 DEF Serving

LEMMA ServingKeepsInv ==
  ASSUME ServerInv, Serving \/ AskQuery \/ AskShutdown \/ Ending
  PROVE  ServerInv'
<1>1. ThreadTypes /\ Exclusion /\ AnswerSoFar /\ CubeTypes /\ StreamTypes /\ PointsCounted
  BY DEF ServerInv
<1>2. UNCHANGED <<content, stdin, loop, inserter>>
  BY <1>1, ServingIs
<1>3. /\ StreamTypes' /\ CubeTypes' /\ PointsCounted' /\ Content' = Content
      /\ Manager!Visited' = Manager!Visited /\ Manager!Current' = Manager!Current
      /\ UNCHANGED <<options, cubes, filled, inserter>>
  BY <1>1, <1>2, SteadyKeeps DEF StreamTypes, stdin, content, mgr
<1>4. /\ Content \subseteq Records
      /\ \A s \in Manager!Visited : cubes[s] \subseteq Records
      /\ Manager!Served = (IF Manager!Current \in Manager!Visited THEN cubes[Manager!Current] ELSE {})
                     \cup (IF Manager!Previous \in Manager!Visited THEN cubes[Manager!Previous] ELSE {})
  BY <1>1, VisitTypes
<1>5. ThreadTypes'
  BY <1>1, <1>2, <1>4, ServingIs DEF ThreadTypes, Visit, CubeTypes
<1>6. Exclusion'
  BY <1>1, <1>2, ServingIs DEF ThreadTypes, Exclusion
<1>7. AnswerSoFar'
  <2>1. options.sliding \in BOOLEAN
    BY <1>1, OptionTypes DEF StreamTypes
  <2>2. CASE UNCHANGED <<request, lock, answer>>
    BY <1>1, <1>3, <2>2 DEF AnswerSoFar
  <2>3. CASE request = "current" /\ request' = "previous" /\ Visit(Manager!Current)
    BY <1>1, <1>3, <2>3 DEF AnswerSoFar, Visit
  <2>4. CASE request = "previous" /\ request' = "reply" /\ Visit(Manager!Previous)
    BY <1>1, <1>3, <1>4, <2>4 DEF AnswerSoFar, Visit, Content
  <2>5. CASE request = "plain" /\ request' = "reply" /\ answer' = plain
    BY <1>1, <1>3, <2>5 DEF AnswerSoFar, Content
  <2>6. CASE request' \notin {"plain", "current", "previous", "reply"}
    BY <2>6 DEF AnswerSoFar
  <2>7. CASE request' = (IF options.sliding THEN "current" ELSE "plain") /\ answer' = {}
    BY <1>3, <2>1, <2>7 DEF AnswerSoFar
  <2> QED
    BY <1>1, <2>2, <2>3, <2>4, <2>5, <2>6, <2>7, ServingIs
<1> QED
  BY <1>1, <1>3, <1>5, <1>6, <1>7 DEF ServerInv

(* The inserting thread.                                                   *)
LEMMA PointsAdded ==
  ASSUME StreamTypes, CubeTypes, PointsCounted, InsertOne
  PROVE  PointsCounted'
<1>1. /\ StreamTypes' /\ ~done
      /\ \/ insertedPoints' = insertedPoints /\ done' = TRUE /\ Held' \subseteq Held
         \/ /\ insertedPoints' = insertedPoints + 1
            /\ done' = (options.maximum # 0 /\ insertedPoints + 1 = options.maximum)
            /\ \E r : Held' \subseteq Held \cup {r}
  BY InsertOneIs
<1>2. options' = options /\ options.maximum \in Nat /\ insertedPoints \in Nat
  BY OptionTypes DEF InsertOne, stdin, StreamTypes
<1>3. IsFiniteSet(Held) /\ Cardinality(Held) \in Nat /\ Cardinality(Held) <= insertedPoints
  BY FS_CardinalityType DEF PointsCounted
<1>4. CASE insertedPoints' = insertedPoints /\ done' = TRUE /\ Held' \subseteq Held
  <2>1. IsFiniteSet(Held') /\ Cardinality(Held') <= Cardinality(Held) /\ Cardinality(Held') \in Nat
    BY <1>3, <1>4, FS_Subset, FS_CardinalityType
  <2> QED
    BY <1>2, <1>3, <1>4, <2>1 DEF PointsCounted
<1>5. CASE /\ insertedPoints' = insertedPoints + 1
           /\ done' = (options.maximum # 0 /\ insertedPoints + 1 = options.maximum)
           /\ \E r : Held' \subseteq Held \cup {r}
  <2>1. PICK r : Held' \subseteq Held \cup {r}
    BY <1>5
  <2>2. /\ IsFiniteSet(Held \cup {r}) /\ Cardinality(Held \cup {r}) \in Nat
        /\ Cardinality(Held \cup {r}) <= Cardinality(Held) + 1
    BY <1>3, FS_AddElement, FS_CardinalityType
  <2>3. /\ IsFiniteSet(Held') /\ Cardinality(Held') <= Cardinality(Held \cup {r})
        /\ Cardinality(Held') \in Nat
    BY <2>1, <2>2, FS_Subset, FS_CardinalityType
  <2>4. options.maximum # 0 => insertedPoints < options.maximum
    BY <1>1 DEF PointsCounted
  <2>5. Cardinality(Held') <= insertedPoints'
    BY <1>2, <1>3, <1>5, <2>2, <2>3
  <2>6. options.maximum # 0 =>
          insertedPoints' <= options.maximum /\ (~done' => insertedPoints' < options.maximum)
    <3>1. ~done' => ~(options.maximum # 0 /\ insertedPoints + 1 = options.maximum)
      BY <1>5, Zenon
    <3>2. insertedPoints' = insertedPoints + 1
      BY <1>5
    <3>3. ASSUME options.maximum # 0
          PROVE  insertedPoints' <= options.maximum
      BY <1>2, <2>4, <3>2, <3>3
    <3>4. ASSUME options.maximum # 0, insertedPoints + 1 # options.maximum
          PROVE  insertedPoints' < options.maximum
      BY <1>2, <2>4, <3>2, <3>4
    <3> QED
      BY <3>1, <3>3, <3>4, Zenon
  <2> QED
    BY <1>2, <2>3, <2>5, <2>6 DEF PointsCounted
<1> QED
  BY <1>1, <1>4, <1>5

LEMMA InsertingKeepsInv ==
  ASSUME ServerInv, Read \/ CloseStdin \/ Inserting
  PROVE  ServerInv'
<1>1. ThreadTypes /\ Exclusion /\ AnswerSoFar /\ CubeTypes /\ StreamTypes /\ PointsCounted
  BY DEF ServerInv
<1>2. /\ UNCHANGED <<options, serving, ending>>
      /\ inserter \in {"read", "lock", "batch"}
  BY DEF Read, CloseStdin, Inserting, ReadNothing, LockBatch, InsertOne, Unlock, InLoop, stdin
<1>3. inserter' \in {"read", "lock", "batch", "over"} /\ lock' \in {"free", "inserter", "server"}
  BY <1>1 DEF ThreadTypes, Read, CloseStdin, Inserting, ReadNothing, LockBatch, InsertOne, Unlock
<1>4. ThreadTypes'
  BY <1>1, <1>2, <1>3 DEF ThreadTypes, serving, ending
<1>5. Exclusion'
  BY <1>1, <1>2 DEF ThreadTypes, Exclusion, serving, Read, CloseStdin, Inserting, ReadNothing,
                    LockBatch, InsertOne, Unlock, InLoop
<1>6. CASE InsertOne
  <2>1. StreamTypes' /\ CubeTypes' /\ PointsCounted'
    BY <1>1, <1>6, InsertOneIs, PointsAdded
  <2>2. request' = request /\ request \notin {"plain", "current", "previous", "reply"}
    BY <1>1, <1>2, <1>6 DEF InsertOne, InLoop, Exclusion, serving
  <2>3. UNCHANGED <<inserter, filled>> /\ inserter = "batch"
    BY <1>6 DEF InsertOne, stdin, InLoop
  <2> QED
    BY <1>4, <1>5, <2>1, <2>2, <2>3 DEF ServerInv, AnswerSoFar
<1>7. ASSUME UNCHANGED <<content, serving, options>>,
             StreamTypes', CubeTypes', PointsCounted', inserter' \in {"lock", "batch"} => filled' > 0
      PROVE  ServerInv'
  <2>1. Content' = Content /\ Manager!Visited' = Manager!Visited /\ Manager!Current' = Manager!Current
    BY <1>7 DEF Content, Manager!Served, Manager!Visited, Manager!Current, content, mgr
  <2>2. AnswerSoFar'
    BY <1>1, <1>7, <2>1 DEF AnswerSoFar, serving, content, mgr
  <2> QED
    BY <1>4, <1>5, <1>7, <2>2 DEF ServerInv
<1>8. CASE Read
  <2>1. StreamTypes' /\ CubeTypes' /\ filled' > 0 /\ UNCHANGED <<content, done, insertedPoints>>
    BY <1>1, <1>8, ReadKeepsTypes DEF Read
  <2>2. PointsCounted'
    BY <1>1, <1>2, <2>1 DEF PointsCounted, Held, Manager!Served, Manager!Visited, content, mgr
  <2> QED
    BY <1>2, <1>7, <2>1, <2>2
<1>9. CASE CloseStdin \/ ReadNothing \/ LockBatch \/ Unlock
  <2>1. /\ UNCHANGED <<content, options, arrived, buffer, filled, loop>> /\ closed' \in BOOLEAN
        /\ inserter' \in {"lock", "batch"} => inserter \in {"lock", "batch"}
    BY <1>1, <1>9 DEF CloseStdin, ReadNothing, LockBatch, Unlock, stdin, StreamTypes
  <2>2. StreamTypes' /\ CubeTypes' /\ PointsCounted'
    BY <1>1, <2>1, SteadyKeeps
  <2> QED
    BY <1>2, <1>7, <2>1, <2>2 DEF ServerInv
<1> QED
  BY <1>6, <1>8, <1>9 DEF Inserting

LEMMA InitServerInv == Init => ServerInv
<1> SUFFICES ASSUME Init PROVE ServerInv
  OBVIOUS
<1>1. /\ options.batch \in Nat \ {0} /\ options.maximum \in Nat /\ options.records \in Nat
      /\ 0 \in Timestamps /\ options \in Scenarios
  BY OptionTypes, ServerAssumption DEF ServerAssumption, Init
<1>2. arrived \in Seq(Records) /\ Len(arrived) = 0
  BY DEF Init
<1>3. StreamTypes
  <2>1. buffer \in [1 .. options.batch -> Timestamps]
    BY <1>1 DEF Init
  <2>2. /\ filled \in 0 .. options.batch /\ position \in 0 .. filled /\ slot \in 0 .. options.batch
        /\ insertedPoints \in Nat /\ Len(arrived) <= options.records /\ filled <= Len(arrived)
    BY <1>1, <1>2 DEF Init
  <2>3. done \in BOOLEAN /\ closed \in BOOLEAN
    BY DEF Init
  <2> QED
    BY <1>1, <1>2, <2>1, <2>2, <2>3 DEF StreamTypes
<1>4. /\ cubes = [s \in {0, 1} |-> NoCube] /\ windows = [s \in {0, 1} |-> -1]
      /\ parity = 0 /\ latestAt = -1
  BY DEF Init, Manager!InitManager, Manager!Slots, Manager!NoWindow
<1>5. CubeTypes
  BY <1>4 DEF Init, CubeTypes, ManagerShape
<1>6. Held = {}
  BY <1>4, <1>5, ServedIs DEF Held, Init, CubeTypes
<1>7. PointsCounted
  BY <1>1, <1>6, FS_EmptySet DEF PointsCounted, Init
<1> QED
  BY <1>3, <1>5, <1>7 DEF Init, ServerInv, ThreadTypes, Exclusion, AnswerSoFar

LEMMA ServerInductive == Spec => []ServerInv
<1>1. ServerInv /\ [Next]_vars => ServerInv'
  <2> SUFFICES ASSUME ServerInv, [Next]_vars PROVE ServerInv'
    OBVIOUS
  <2>1. CASE Next
    BY <2>1, ServingKeepsInv, InsertingKeepsInv DEF Next
  <2>2. CASE UNCHANGED vars
    <3>1. UNCHANGED <<content, stdin, loop, inserter, lock, serving, ending>>
      BY <2>2 DEF vars
    <3>2. /\ StreamTypes' /\ CubeTypes' /\ PointsCounted' /\ Content' = Content
          /\ Manager!Visited' = Manager!Visited /\ Manager!Current' = Manager!Current
      BY <3>1, SteadyKeeps DEF ServerInv, StreamTypes, stdin
    <3> QED
      BY <3>1, <3>2 DEF ServerInv, ThreadTypes, Exclusion, AnswerSoFar, stdin, serving, ending, content, mgr
  <2> QED
    BY <2>1, <2>2
<1> QED
  BY <1>1, InitServerInv, PTL DEF Spec

(* Every variable of the server keeps its type.                            *)
THEOREM TypeCorrect == Spec => []TypeOK
<1>1. ServerInv => TypeOK
  BY DEF ServerInv, StreamTypes, CubeTypes, ThreadTypes, ManagerShape, TypeOK, Manager!TypeOK,
         Manager!Slots, Manager!NoWindow
<1> QED
  BY <1>1, ServerInductive, PTL

(* A query sees whole batches and one moment, although it visits two cubes *)
(* one after the other.                                                    *)
THEOREM RepliesAreConsistent == Spec => []RepliesConsistent
<1>1. ServerInv => RepliesConsistent
  BY DEF ServerInv, Exclusion, AnswerSoFar, ThreadTypes, RepliesConsistent
<1> QED
  BY <1>1, ServerInductive, PTL

(* No more points are inserted than --max-points, for any batch size.      *)
THEOREM NeverAboveMaximum == Spec => []AtMostMaximum
<1>1. ASSUME ServerInv PROVE AtMostMaximum
  <2>1. options.maximum \in Nat /\ insertedPoints \in Nat /\ Cardinality(Held) \in Nat
    BY <1>1, OptionTypes, FS_CardinalityType DEF ServerInv, StreamTypes, PointsCounted
  <2> QED
    BY <1>1, <2>1 DEF ServerInv, PointsCounted, Held, AtMostMaximum
<1>2. ServerInv => AtMostMaximum
  BY <1>1
<1> QED
  BY <1>2, ServerInductive, PTL
-----------------------------------------------------------------------------
(***************************************************************************)
(* The contents of the cubes: the time that chooses a cube is the time of  *)
(* the record that is inserted, through short reads and old times in the   *)
(* buffer, and the cubes hold exactly the records whose turn came, when a  *)
(* batch of several records has none that is late by more than a window.   *)
(***************************************************************************)
Sliding == INSTANCE SlidingCubeProofs

(* With a sliding window records are inserted one by one, or late by at    *)
(* most one window.  Otherwise a record may be discarded in the middle of  *)
(* a batch, which leaves it in the stream.                                 *)
Aligned == \A x \in Scenarios : x.sliding => x.batch = 1 \/ x.lateness <= 1

Base     == Len(arrived) - filled                  \* the records of earlier batches
Consumed == IF slot < filled THEN slot ELSE filled   \* of the records of this one

Prefix(n) == { arrived[i] : i \in 1 .. n }

(* The slots of the batch hold the times of its records, the others those  *)
(* of earlier ones; what was seen is what was read up to this slot, and    *)
(* the stream over the buffer is at the record of the slot.                *)
StreamInv ==
  /\ Timely(arrived)
  /\ \A i \in 1 .. Len(arrived) : arrived[i].n = i
  /\ \A j \in 1 .. filled : buffer[j] = arrived[Base + j].ts
  /\ \A j \in 1 .. options.batch :
       j > filled => buffer[j] = 0 \/ \E i \in 1 .. Base : arrived[i].ts = buffer[j]
  /\ inserter # "over" => seen = Prefix(Base + Consumed)
  /\ inserter = "read" => slot >= filled
  /\ slot < options.batch => position = Consumed

CubesInv == IF options.sliding THEN Sliding!IInv ELSE plain = seen

ContentInv == ServerInv /\ StreamInv /\ CubesInv

-----------------------------------------------------------------------------
(* The manager is that of SlidingCube, over the records of stdin.          *)
LEMMA Slides == Sliding!SlidingAssumption
  BY ServerAssumption DEF ServerAssumption, Sliding!SlidingAssumption, Records

LEMMA InsertedOnce ==
  ASSUME Sliding!IInv, NEW r \in Records, r \notin seen, seen' = seen \cup {r},
         Manager!AddTo(r.ts, {r}) \/ Manager!TooOld(r.ts)
  PROVE  Sliding!IInv'
<1>1. Sliding!Insert(r)
  BY DEF Sliding!Insert, Sliding!AddTo, Sliding!HitCurrent, Sliding!HitPrevious, Sliding!NewPrevious,
         Sliding!NextWindow, Sliding!Jump, Sliding!TooOld, Sliding!Latest, Sliding!WindowOf,
         Sliding!Current, Sliding!Previous, Sliding!NoWindow,
         Manager!AddTo, Manager!HitCurrent, Manager!HitPrevious, Manager!NewPrevious,
         Manager!NextWindow, Manager!Jump, Manager!TooOld, Manager!Latest, Manager!WindowOf,
         Manager!Current, Manager!Previous, Manager!NoWindow
<1>2. Sliding!SlidingAssumption
  BY Slides
<1> QED
  BY <1>1, <1>2, Sliding!InsertKeepsIInv DEF Sliding!SlidingAssumption

(* A time of an earlier record, and no record to read for it.              *)
LEMMA OldTime ==
  ASSUME Sliding!IInv, NEW t \in Nat, t <= latestAt, seen' = seen,
         Manager!AddTo(t, {}) \/ Manager!TooOld(t)
  PROVE  Sliding!IInv'
<1>1. CASE Manager!AddTo(t, {})
  <2>1. Sliding!AddTo(t, {})
    BY <1>1 DEF Sliding!AddTo, Sliding!HitCurrent, Sliding!HitPrevious, Sliding!NewPrevious,
         Sliding!NextWindow, Sliding!Jump, Sliding!Latest, Sliding!WindowOf,
         Sliding!Current, Sliding!Previous, Sliding!NoWindow,
         Manager!AddTo, Manager!HitCurrent, Manager!HitPrevious, Manager!NewPrevious,
         Manager!NextWindow, Manager!Jump, Manager!Latest, Manager!WindowOf,
         Manager!Current, Manager!Previous, Manager!NoWindow
  <2>2. Sliding!SlidingAssumption
    BY Slides
  <2> QED
    BY <2>1, <2>2, Sliding!AddNothing DEF Sliding!SlidingAssumption
<1>2. CASE Manager!TooOld(t)
  <2>1. latestAt \in Nat \cup {-1}
    BY DEF Sliding!IInv, Sliding!TypeOK
  <2>2. latestAt' = latestAt /\ UNCHANGED <<cubes, windows, parity, seen>>
    BY <1>2, <2>1 DEF Manager!TooOld, Manager!Latest
  <2> QED
    BY <2>2 DEF Sliding!IInv, Sliding!TypeOK, Sliding!VisitsCubes, Sliding!WindowsComplete,
                Sliding!Adjacent, Sliding!NothingMissed, Sliding!Visited, Sliding!Current, Sliding!Previous
<1> QED
  BY <1>1, <1>2

(* A record that lags by one window at most is never discarded.            *)
LEMMA NeverTooOld ==
  ASSUME StreamTypes, Timely(arrived), Sliding!IInv, options.lateness <= 1,
         NEW n \in 1 .. Len(arrived), seen = Prefix(n - 1)
  PROVE  ~Manager!TooOld(arrived[n].ts)
<1> SUFFICES ASSUME Manager!TooOld(arrived[n].ts) PROVE FALSE
  OBVIOUS
<1>1. /\ Len(arrived) \in Nat /\ DOMAIN arrived = 1 .. Len(arrived)
      /\ \A i \in 1 .. Len(arrived) : arrived[i].ts \in Nat
      /\ options.lateness \in Nat
  <2>1. arrived \in Seq(Records) /\ options.lateness \in Nat
    BY OptionTypes DEF StreamTypes
  <2>2. \A i \in 1 .. Len(arrived) : arrived[i] \in Records
    BY <2>1
  <2>3. \A r \in Records : r.ts \in Nat
    BY ServerAssumption DEF ServerAssumption, Records
  <2> QED
    BY <2>1, <2>2, <2>3
<1>2. Manager!WindowOf(arrived[n].ts) \in Nat
  BY <1>1, WindowType
<1>3. Manager!WindowOf(arrived[n].ts) < windows[parity] - 1
  BY DEF Manager!TooOld, Manager!Current
<1>4. CASE latestAt = -1
  BY <1>2, <1>3, <1>4 DEF Sliding!IInv, Sliding!Adjacent, Sliding!Current, Sliding!NoWindow
<1>5. CASE latestAt # -1
  <2>1. PICK x \in seen : x.ts = latestAt
    BY <1>5 DEF Sliding!IInv, Sliding!Adjacent
  <2>2. PICK i \in 1 .. n - 1 : arrived[i].ts = latestAt
    BY <2>1 DEF Prefix
  <2>3. windows[parity] = Manager!WindowOf(latestAt)
    BY <1>5 DEF Sliding!IInv, Sliding!Adjacent, Sliding!Current, Sliding!WindowOf, Manager!WindowOf
  <2>4. i \in DOMAIN arrived /\ n \in DOMAIN arrived /\ i < n
    BY <1>1
  <2>5. windows[parity] <= Manager!WindowOf(arrived[n].ts) + options.lateness
    BY <2>2, <2>3, <2>4 DEF Timely
  <2>6. windows[parity] \in Nat
    BY <1>1, <2>2, <2>3, <2>4, WindowType
  <2> QED
    BY <1>1, <1>2, <1>3, <2>5, <2>6
<1> QED
  BY <1>4, <1>5

LEMMA PrefixGrows ==
  ASSUME NEW n \in Nat
  PROVE  Prefix(n + 1) = Prefix(n) \cup {arrived[n + 1]}
<1>1. 1 .. n + 1 = (1 .. n) \cup {n + 1}
  OBVIOUS
<1> QED
  BY <1>1 DEF Prefix

-----------------------------------------------------------------------------
(* The turn of a record of the batch: its time is in the slot, and the     *)
(* stream over the buffer is at it.                                        *)
LEMMA TurnIs ==
  ASSUME ContentInv, InsertOne, slot < filled
  PROVE  /\ Base + slot \in Nat /\ Base + slot + 1 \in 1 .. Len(arrived)
         /\ arrived[Base + slot + 1] \in Records /\ arrived[Base + slot + 1] \notin seen
         /\ seen = Prefix(Base + slot) /\ seen' = Prefix(Base + slot + 1)
         /\ seen' = seen \cup {arrived[Base + slot + 1]}
         /\ position = slot /\ Streamed = arrived[Base + slot + 1]
         /\ buffer[slot + 1] = arrived[Base + slot + 1].ts
<1> DEFINE n == Base + slot
<1>1. StreamTypes /\ StreamInv /\ inserter = "batch" /\ slot < options.batch /\ seen' = seen \cup Turn
  BY DEF ContentInv, ServerInv, InsertOne, InLoop
<1>2. /\ filled \in Nat /\ slot \in Nat /\ Len(arrived) \in Nat /\ filled <= Len(arrived)
      /\ arrived \in Seq(Records)
  BY <1>1, OptionTypes DEF StreamTypes
<1>3. n \in Nat /\ n + 1 \in 1 .. Len(arrived) /\ slot + 1 \in 1 .. filled
  BY <1>2 DEF Base
<1>4. seen = Prefix(n) /\ position = slot
  BY <1>1 DEF StreamInv, Consumed
<1>5. Turn = {arrived[n + 1]} /\ Streamed = arrived[n + 1]
  BY <1>4 DEF Turn, Streamed, Base
<1>6. buffer[slot + 1] = arrived[n + 1].ts
  <2>1. buffer[slot + 1] = arrived[Base + (slot + 1)].ts
    BY <1>1, <1>3 DEF StreamInv
  <2>2. Base + (slot + 1) = n + 1
    BY <1>2 DEF Base
  <2> QED
    BY <2>1, <2>2
<1>7. arrived[n + 1] \notin seen
  <2>1. \A i \in 1 .. n : i \in 1 .. Len(arrived) /\ i # n + 1
    BY <1>2, <1>3
  <2>2. \A i \in 1 .. Len(arrived) : arrived[i].n = i
    BY <1>1 DEF StreamInv
  <2>3. \A i \in 1 .. n : arrived[i] # arrived[n + 1]
    BY <1>3, <2>1, <2>2
  <2> QED
    BY <1>4, <2>3 DEF Prefix
<1>8. arrived[n + 1] \in Records
  BY <1>2, <1>3
<1> HIDE DEF n
<1>9. seen' = Prefix(n + 1)
  BY <1>1, <1>3, <1>4, <1>5, PrefixGrows
<1> QED
  BY <1>1, <1>3, <1>4, <1>5, <1>6, <1>7, <1>8, <1>9 DEF n

(* A slot past the end of a short read: nothing is read, for a time that   *)
(* is not new.                                                             *)
LEMMA PastTheEnd ==
  ASSUME ContentInv, InsertOne, ~(slot < filled)
  PROVE  /\ seen' = seen /\ seen = Prefix(Len(arrived)) /\ position = filled
         /\ buffer[slot + 1] \in Nat
         /\ options.sliding => buffer[slot + 1] <= latestAt
<1>1. /\ StreamTypes /\ StreamInv /\ inserter = "batch" /\ filled > 0
      /\ slot < options.batch /\ seen' = seen \cup Turn /\ InLoop
  BY DEF ContentInv, ServerInv, InsertOne, InLoop
<1>2. /\ filled \in Nat /\ slot \in Nat /\ Len(arrived) \in Nat /\ filled <= Len(arrived)
      /\ arrived \in Seq(Records) /\ options.batch \in Nat
  BY <1>1, OptionTypes DEF StreamTypes
<1>3. seen' = seen /\ position = filled
  BY <1>1 DEF Turn, StreamInv, Consumed
<1>4. seen = Prefix(Len(arrived))
  <2>1. Base + Consumed = Len(arrived)
    BY <1>2 DEF Base, Consumed
  <2> QED
    BY <1>1, <2>1 DEF StreamInv
<1>5. slot + 1 \in 1 .. options.batch /\ slot + 1 > filled /\ buffer[slot + 1] \in Nat
  BY <1>1, <1>2, SlotIs
<1>6. ASSUME options.sliding PROVE buffer[slot + 1] <= latestAt
  <2>1. Sliding!IInv
    BY <1>6 DEF ContentInv, CubesInv
  <2>2. \A x \in seen : x.ts <= latestAt
    BY <2>1 DEF Sliding!IInv, Sliding!Adjacent
  <2>3. \A i \in 1 .. Len(arrived) : arrived[i].ts <= latestAt
    BY <1>4, <2>2 DEF Prefix
  <2>4. buffer[slot + 1] = 0 \/ \E i \in 1 .. Base : arrived[i].ts = buffer[slot + 1]
    BY <1>1, <1>5 DEF StreamInv
  <2>5. CASE buffer[slot + 1] = 0
    <3>1. 1 \in 1 .. Len(arrived)
      BY <1>1, <1>2
    <3>2. arrived[1] \in Records
      BY <1>2, <3>1
    <3>3. arrived[1].ts \in Nat
      BY <3>2, ServerAssumption DEF ServerAssumption, Records
    <3>4. latestAt \in Nat \cup {-1}
      BY <2>1 DEF Sliding!IInv, Sliding!TypeOK
    <3> QED
      BY <2>3, <2>5, <3>1, <3>3, <3>4
  <2>6. CASE \E i \in 1 .. Base : arrived[i].ts = buffer[slot + 1]
    <3>1. \A i \in 1 .. Base : i \in 1 .. Len(arrived)
      BY <1>2 DEF Base
    <3> QED
      BY <2>3, <2>6, <3>1
  <2> QED
    BY <2>4, <2>5, <2>6
<1> QED
  BY <1>3, <1>4, <1>5, <1>6

(* Every record goes where its own time sends it, and to nowhere else.     *)
LEMMA CubesStep ==
  ASSUME ContentInv, InsertOne
  PROVE  CubesInv'
<1>1. /\ StreamTypes /\ CubesInv /\ options' = options
      /\ InsertPlain \/ InsertSliding \/ Discard
  BY DEF ContentInv, ServerInv, InsertOne, stdin
<1> DEFINE r == arrived[Base + slot + 1]
<1>2. CASE slot < filled
  <2>1. /\ r \in Records /\ r \notin seen /\ seen' = seen \cup {r}
        /\ position < filled /\ Streamed = r /\ buffer[slot + 1] = r.ts
    BY <1>2, TurnIs
  <2> HIDE DEF r
  <2>2. CASE options.sliding
    <3>1. Manager!AddTo(r.ts, {r}) \/ Manager!TooOld(r.ts)
      BY <1>1, <2>1, <2>2 DEF InsertPlain, InsertSliding, Discard
    <3>2. Sliding!IInv
      BY <1>1, <2>2 DEF CubesInv
    <3>3. Sliding!IInv'
      BY <2>1, <3>1, <3>2, InsertedOnce
    <3> QED
      BY <1>1, <2>2, <3>3 DEF CubesInv
  <2>3. CASE ~options.sliding
    <3>1. plain' = plain \cup {r}
      BY <1>1, <2>1, <2>3 DEF InsertPlain, InsertSliding, Discard
    <3> QED
      BY <1>1, <2>1, <2>3, <3>1 DEF CubesInv
  <2> QED
    BY <2>2, <2>3
<1>3. CASE ~(slot < filled)
  <2>1. /\ seen' = seen /\ ~(position < filled) /\ buffer[slot + 1] \in Nat
        /\ options.sliding => buffer[slot + 1] <= latestAt
    <3>1. position = filled /\ filled \in Nat
      BY <1>1, <1>3, PastTheEnd, OptionTypes DEF StreamTypes
    <3> QED
      BY <1>3, <3>1, PastTheEnd
  <2>2. CASE options.sliding
    <3>1. Manager!AddTo(buffer[slot + 1], {}) \/ Manager!TooOld(buffer[slot + 1])
      BY <1>1, <2>1, <2>2 DEF InsertPlain, InsertSliding, Discard
    <3>2. Sliding!IInv
      BY <1>1, <2>2 DEF CubesInv
    <3>3. Sliding!IInv'
      BY <2>1, <2>2, <3>1, <3>2, OldTime
    <3> QED
      BY <1>1, <2>2, <3>3 DEF CubesInv
  <2>3. CASE ~options.sliding
    <3>1. plain' = plain
      BY <1>1, <2>1, <2>3 DEF InsertPlain, InsertSliding, Discard
    <3> QED
      BY <1>1, <2>1, <2>3, <3>1 DEF CubesInv
  <2> QED
    BY <2>2, <2>3
<1> QED
  BY <1>2, <1>3

(* The stream over the buffer stays at the record of the slot: where a     *)
(* discarded record would stay behind, the batch has no other.             *)
LEMMA PositionStep ==
  ASSUME Aligned, ContentInv, InsertOne, slot + 1 < options.batch
  PROVE  position' = IF slot < filled THEN slot + 1 ELSE filled
<1>1. /\ StreamTypes /\ StreamInv /\ CubesInv
      /\ InsertPlain \/ InsertSliding \/ Discard
  BY DEF ContentInv, ServerInv, InsertOne
<1>2. CASE slot < filled
  <2>1. position = slot /\ Base + slot + 1 \in 1 .. Len(arrived) /\ Base + slot \in Nat
        /\ seen = Prefix(Base + slot) /\ buffer[slot + 1] = arrived[Base + slot + 1].ts
    BY <1>2, TurnIs
  <2>2. CASE Discard
    <3>1. options.sliding /\ Manager!TooOld(arrived[Base + slot + 1].ts)
      BY <2>1, <2>2 DEF Discard
    <3>2. options.lateness <= 1
      <4>1. options.batch # 1
        BY <1>1, OptionTypes DEF StreamTypes
      <4> QED
        BY <1>1, <3>1, <4>1 DEF Aligned, StreamTypes
    <3>3. Timely(arrived) /\ Sliding!IInv
      BY <1>1, <3>1 DEF StreamInv, CubesInv
    <3>4. Base + slot + 1 - 1 = Base + slot
      BY <2>1
    <3>5. seen = Prefix(Base + slot + 1 - 1)
      BY <2>1, <3>4
    <3> QED
      BY <1>1, <2>1, <3>1, <3>2, <3>3, <3>5, NeverTooOld
  <2>3. CASE InsertPlain \/ InsertSliding
    BY <1>2, <2>1, <2>3 DEF InsertPlain, InsertSliding
  <2> QED
    BY <1>1, <2>2, <2>3
<1>3. CASE ~(slot < filled)
  <2>1. position = filled /\ filled \in Nat
    BY <1>1, <1>3, PastTheEnd, OptionTypes DEF StreamTypes
  <2> QED
    BY <1>1, <1>3, <2>1 DEF InsertPlain, InsertSliding, Discard
<1> QED
  BY <1>2, <1>3

LEMMA StreamStep ==
  ASSUME Aligned, ContentInv, InsertOne
  PROVE  StreamInv'
<1>1. /\ StreamTypes /\ StreamInv /\ slot' = slot + 1 /\ inserter' = "batch" /\ inserter = "batch"
      /\ UNCHANGED <<options, arrived, buffer, filled>>
  BY DEF ContentInv, ServerInv, InsertOne, InLoop, stdin
<1>2. slot \in Nat /\ filled \in Nat /\ Len(arrived) \in Nat /\ filled <= Len(arrived)
  BY <1>1, OptionTypes DEF StreamTypes
<1>3. Consumed' = IF slot < filled THEN slot + 1 ELSE filled
  BY <1>1, <1>2 DEF Consumed
<1>4. Base' = Base
  BY <1>1 DEF Base
<1>5. seen' = Prefix(Base + Consumed')
  <2>1. CASE slot < filled
    <3>1. Base + Consumed' = Base + slot + 1
      BY <1>2, <1>3, <2>1 DEF Base
    <3> QED
      BY <2>1, <3>1, TurnIs
  <2>2. CASE ~(slot < filled)
    <3>1. Base + Consumed' = Len(arrived)
      BY <1>2, <1>3, <2>2 DEF Base
    <3> QED
      BY <2>2, <3>1, PastTheEnd
  <2> QED
    BY <2>1, <2>2
<1>6. seen' = Prefix(Base + Consumed)'
  BY <1>1, <1>4, <1>5 DEF Prefix
<1>7. slot' < options.batch => position' = Consumed'
  BY <1>1, <1>3, PositionStep
<1> QED
  BY <1>1, <1>4, <1>6, <1>7 DEF StreamInv, Timely

(* A read puts the times of the new batch in the first slots, and leaves   *)
(* the others to earlier batches.                                          *)
LEMMA ReadKeepsContent ==
  ASSUME ContentInv, Read
  PROVE  StreamInv' /\ CubesInv'
<1>1. /\ StreamTypes /\ StreamInv /\ CubesInv
      /\ inserter = "read" /\ inserter' = "lock"
  BY DEF ContentInv, ServerInv, Read
<1>2. PICK k \in 1 .. options.batch, times \in [1 .. options.batch -> Timestamps] :
        /\ arrived' \in Seq(Records) /\ Len(arrived') = Len(arrived) + k
        /\ \A i \in 1 .. Len(arrived) : arrived'[i] = arrived[i]
        /\ \A i \in 1 .. k : arrived'[Len(arrived) + i] = [ts |-> times[i], n |-> Len(arrived) + i]
        /\ Timely(arrived')
        /\ buffer' = [i \in 1 .. options.batch |-> IF i <= k THEN times[i] ELSE buffer[i]]
        /\ filled' = k /\ position' = 0 /\ slot' = 0
        /\ UNCHANGED <<options, content>>
  BY <1>1, ReadIs
<1>3. /\ options.batch \in Nat /\ filled \in Nat /\ slot \in Nat
      /\ Len(arrived) \in Nat /\ filled <= Len(arrived) /\ k \in Nat /\ k > 0 /\ k <= options.batch
  BY <1>1, OptionTypes DEF StreamTypes
<1>4. Base' = Len(arrived) /\ Consumed' = 0
  BY <1>2, <1>3 DEF Base, Consumed
<1>5. seen' = Prefix(Base + Consumed)'
  <2>1. Base + Consumed = Len(arrived)
    BY <1>1, <1>3 DEF Base, Consumed, StreamInv
  <2>2. seen' = { arrived[i] : i \in 1 .. Len(arrived) }
    BY <1>1, <1>2, <2>1 DEF StreamInv, Prefix, content
  <2>3. Base' + Consumed' = Len(arrived)
    BY <1>3, <1>4
  <2>4. seen' = { arrived'[i] : i \in 1 .. Len(arrived) }
    BY <1>2, <2>2
  <2> QED
    BY <2>3, <2>4 DEF Prefix
<1>6. \A i \in 1 .. Len(arrived') : arrived'[i].n = i
  <2> SUFFICES ASSUME NEW i \in 1 .. Len(arrived') PROVE arrived'[i].n = i
    OBVIOUS
  <2>1. CASE i <= Len(arrived)
    BY <1>1, <1>2, <1>3, <2>1 DEF StreamInv
  <2>2. CASE ~(i <= Len(arrived))
    <3> DEFINE j == i - Len(arrived)
    <3>1. j \in 1 .. k /\ i = Len(arrived) + j
      BY <1>2, <1>3, <2>2
    <3> HIDE DEF j
    <3>2. arrived'[i] = [ts |-> times[j], n |-> Len(arrived) + j]
      BY <1>2, <3>1
    <3> QED
      BY <3>1, <3>2
  <2> QED
    BY <2>1, <2>2
<1>7. \A j \in 1 .. filled' : buffer'[j] = arrived'[Base' + j].ts
  <2> SUFFICES ASSUME NEW j \in 1 .. k PROVE buffer'[j] = arrived'[Len(arrived) + j].ts
    BY <1>2, <1>4
  <2>1. buffer'[j] = times[j]
    BY <1>2, <1>3
  <2>2. arrived'[Len(arrived) + j] = [ts |-> times[j], n |-> Len(arrived) + j]
    BY <1>2
  <2> QED
    BY <2>1, <2>2
<1>8. \A j \in 1 .. options'.batch :
        j > filled' => buffer'[j] = 0 \/ \E i \in 1 .. Base' : arrived'[i].ts = buffer'[j]
  <2> SUFFICES ASSUME NEW j \in 1 .. options.batch, j > k
               PROVE  buffer'[j] = 0 \/ \E i \in 1 .. Len(arrived) : arrived'[i].ts = buffer'[j]
    BY <1>2, <1>4
  <2>1. buffer'[j] = buffer[j]
    BY <1>2, <1>3
  <2>2. CASE j <= filled
    <3>1. buffer[j] = arrived[Base + j].ts /\ Base + j \in 1 .. Len(arrived)
      BY <1>1, <1>3, <2>2 DEF StreamInv, Base
    <3> QED
      BY <1>2, <2>1, <3>1
  <2>3. CASE j > filled
    <3>1. buffer[j] = 0 \/ \E i \in 1 .. Base : arrived[i].ts = buffer[j]
      BY <1>1, <2>3 DEF StreamInv
    <3>2. \A i \in 1 .. Base : i \in 1 .. Len(arrived)
      BY <1>3 DEF Base
    <3> QED
      BY <1>2, <2>1, <3>1, <3>2
  <2> QED
    BY <1>3, <2>2, <2>3
<1>9. Timely(arrived)'
  BY <1>2 DEF Timely
<1>10. StreamInv'
  BY <1>1, <1>2, <1>4, <1>5, <1>6, <1>7, <1>8, <1>9 DEF StreamInv
<1>11. CubesInv'
  BY <1>1, <1>2 DEF CubesInv, content, mgr, Sliding!IInv, Sliding!TypeOK, Sliding!VisitsCubes,
                    Sliding!WindowsComplete, Sliding!Adjacent, Sliding!NothingMissed,
                    Sliding!Visited, Sliding!Current, Sliding!Previous
<1> QED
  BY <1>10, <1>11

-----------------------------------------------------------------------------
(* Steps of threads that leave the cubes and the stream alone.             *)
LEMMA ContentStays ==
  ASSUME ContentInv, UNCHANGED <<content, options, arrived, buffer, filled, position, slot>>,
         inserter' = inserter \/ inserter' # "read" \/ slot >= filled,
         inserter = "over" => inserter' = "over"
  PROVE  StreamInv' /\ CubesInv'
<1>1. StreamInv /\ CubesInv
  BY DEF ContentInv
<1>2. Base' = Base /\ Consumed' = Consumed /\ seen' = seen
  BY DEF Base, Consumed, content
<1>3. Prefix(Base + Consumed)' = Prefix(Base + Consumed)
  BY <1>2 DEF Prefix
<1>4. StreamInv'
  BY <1>1, <1>2, <1>3 DEF StreamInv, Timely
<1>5. CubesInv'
  BY <1>1 DEF CubesInv, content, mgr, Sliding!IInv, Sliding!TypeOK, Sliding!VisitsCubes,
              Sliding!WindowsComplete, Sliding!Adjacent, Sliding!NothingMissed,
              Sliding!Visited, Sliding!Current, Sliding!Previous
<1> QED
  BY <1>4, <1>5

LEMMA ContentInductive ==
  ASSUME Aligned, ContentInv, [Next]_vars
  PROVE  StreamInv' /\ CubesInv'
<1>1. CASE Read
  BY <1>1, ReadKeepsContent
<1>2. CASE InsertOne
  BY <1>2, StreamStep, CubesStep
<1>3. CASE CloseStdin \/ ReadNothing \/ LockBatch
  BY <1>3, ContentStays DEF CloseStdin, ReadNothing, LockBatch, stdin, loop
<1>4. CASE Unlock
  <2>1. /\ UNCHANGED <<content, options, arrived, buffer, filled, position, slot>>
        /\ ~InLoop /\ inserter = "batch" /\ inserter' = IF done THEN "over" ELSE "read"
    BY <1>4 DEF Unlock, stdin, loop
  <2>2. inserter' = "read" => slot >= filled
    <3>1. StreamTypes
      BY DEF ContentInv, ServerInv
    <3>2. options.batch \in Nat
      BY <3>1, OptionTypes DEF StreamTypes
    <3>3. ASSUME inserter' = "read" PROVE ~(slot < options.batch)
      BY <2>1, <3>3 DEF InLoop
    <3> QED
      BY <3>1, <3>2, <3>3 DEF StreamTypes
  <2> QED
    BY <2>1, <2>2, ContentStays
<1>5. CASE Serving \/ AskQuery \/ AskShutdown \/ Ending
  <2>1. UNCHANGED <<content, stdin, loop, inserter>>
    BY <1>5, ServingIs DEF ContentInv, ServerInv
  <2> QED
    BY <2>1, ContentStays DEF stdin, loop
<1>6. CASE UNCHANGED vars
  BY <1>6, ContentStays DEF vars, stdin, loop
<1> QED
  BY <1>1, <1>2, <1>3, <1>4, <1>5, <1>6 DEF Next, Inserting

LEMMA InitContent == Init => StreamInv /\ CubesInv
<1> SUFFICES ASSUME Init PROVE StreamInv /\ CubesInv
  OBVIOUS
<1>1. /\ arrived = <<>> /\ Len(arrived) = 0 /\ filled = 0 /\ slot = 0 /\ position = 0
      /\ seen = {} /\ plain = {} /\ inserter = "read"
      /\ buffer = [i \in 1 .. options.batch |-> 0]
  BY DEF Init
<1>2. Base = 0 /\ Consumed = 0
  BY <1>1 DEF Base, Consumed
<1>3. Prefix(Base + Consumed) = {}
  BY <1>2 DEF Prefix
<1>4. StreamInv
  BY <1>1, <1>2, <1>3 DEF StreamInv, Timely
<1>5. Sliding!Init
  BY DEF Init, Sliding!Init, Manager!InitManager, Sliding!InitManager, Manager!Slots, Sliding!Slots,
         Manager!NoWindow, Sliding!NoWindow
<1>6. Sliding!IInv
  BY <1>5, Slides, Sliding!InitIsIInv DEF Sliding!SlidingAssumption
<1> QED
  BY <1>1, <1>4, <1>6 DEF CubesInv

(* Where no record can be discarded from the middle of a batch, the cubes  *)
(* hold what was read: through batches, short reads, a maximum and the     *)
(* replacement of windows.                                                 *)
THEOREM ContentsExact == Aligned => (Spec => []ContentExact)
<1> SUFFICES ASSUME Aligned PROVE Spec => []ContentExact
  OBVIOUS
<1>1. ContentInv /\ [Next]_vars => StreamInv' /\ CubesInv'
  BY ContentInductive
<1>2. ContentInv => ContentExact
  <2> SUFFICES ASSUME ContentInv, options.sliding PROVE Manager!Served = Manager!Promise!Recent(seen)
    BY DEF ContentExact, Content, ContentInv, CubesInv
  <2>1. Sliding!IInv
    BY DEF ContentInv, CubesInv
  <2>2. Sliding!Served = Sliding!Promise!Recent(seen)
    BY <2>1, Slides, Sliding!ServedIsRecent DEF Sliding!SlidingAssumption
  <2> QED
    BY <2>2 DEF Manager!Served, Sliding!Served, Manager!Visited, Sliding!Visited, Manager!Slots, Sliding!Slots,
                Manager!Promise!Recent, Sliding!Promise!Recent, Manager!WindowOf, Sliding!WindowOf
<1> QED
  BY <1>1, <1>2, InitContent, ServerInductive, PTL DEF Spec, ContentInv
=============================================================================
