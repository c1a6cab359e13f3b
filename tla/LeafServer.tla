----------------------------- MODULE LeafServer -----------------------------
(***************************************************************************)
(* NanocubeServer: a thread that inserts the records of stdin, batch by    *)
(* batch, a thread that serves requests, and the main thread that ends the *)
(* process after a shutdown request.  They share the cubes under           *)
(* shared_mutex, and the flag finish under nothing.                        *)
(*                                                                         *)
(* Requests are served one at a time, by the thread that polls: mongoose   *)
(* 5.4 has no option num_threads, and ignores what --threads asks for.  So *)
(* that shared_mutex is shared (by serveShutdown) makes no difference.     *)
(*                                                                         *)
(* A batch is read into a buffer.  The time that chooses the cube of the   *)
(* i-th record is read from the i-th slot of the buffer; the record itself *)
(* is read from a stream over the buffer, by the add of the chosen cube.   *)
(* After a short read the slots past its end keep older records.           *)
(*                                                                         *)
(* Abstracted: an answer is the set of the records it counts; requests     *)
(* that read no cube (schema, version, timing) are left out; no record is  *)
(* truncated.                                                              *)
(***************************************************************************)
EXTENDS Integers, FiniteSets, Sequences

CONSTANTS
  Timestamps,   \* the times of the records
  WindowSize,   \* --sliding-window, when there is one
  Scenarios,    \* the options and the streams of records to consider
  MaxRecords,   \* bound on the number of records that arrive
  NoCube

Records == [ts : Timestamps, n : 1 .. MaxRecords]   \* n: the place in stdin

(* A scenario: whether there is a sliding window, --batch-size and         *)
(* --max-points (0: none), by how many windows records come late, and how  *)
(* many arrive.                                                            *)
ASSUME ServerAssumption ==
  /\ Timestamps \subseteq Nat /\ 0 \in Timestamps
  /\ Scenarios \subseteq [sliding : BOOLEAN, batch : Nat \ {0}, maximum : Nat, lateness : Nat,
                          records : 0 .. MaxRecords]
  /\ \A x \in Scenarios : x.maximum # 0 => x.batch <= x.maximum
  /\ MaxRecords \in Nat
  /\ WindowSize \in Nat /\ WindowSize > 0
  /\ \A S \in SUBSET Records : NoCube # S

VARIABLES
  options,    \* the scenario, which never changes
  cubes, windows, parity, latestAt,   \* the SlidingCubeManager
  seen,       \* history: the records whose turn to be inserted came
  plain,      \* the plain cube
  arrived,    \* history: the records read from stdin
  closed,     \* stdin was closed by its writer
  buffer,     \* the times in the slots of the buffer
  filled,     \* the number of records of the last read
  position,   \* the number of them consumed from the stream over the buffer
  slot,       \* i, the loop variable
  done,
  insertedPoints,
  inserter,   \* where the inserting thread is
  lock,       \* who holds shared_mutex
  request,    \* where the serving thread is
  answer,     \* the records it has counted so far
  finish,
  keepRunning,
  main        \* where the main thread is

mgr      == <<cubes, windows, parity, latestAt>>
content  == <<mgr, seen, plain>>
stdin    == <<options, arrived, closed, buffer, filled>>
loop     == <<position, slot, done, insertedPoints>>
serving  == <<request, answer>>
ending   == <<finish, keepRunning, main>>
vars     == <<content, stdin, loop, inserter, lock, serving, ending>>

Manager == INSTANCE SlidingCube

-----------------------------------------------------------------------------
(* The inserting thread.                                                   *)

(* The records lag the newest of those before them by so many windows.     *)
Timely(stream) ==
  \A i, j \in DOMAIN stream :
    i < j => Manager!WindowOf(stream[i].ts) <= Manager!WindowOf(stream[j].ts) + options.lateness

(* Mutant: a new batch goes on reading where the last one ended.           *)
Rewind_Continues == position' = position /\ slot' = 0

Rewind == position' = 0 /\ slot' = 0   \* a new stream over the buffer

(* input_stream.read returns a full batch, or less once stdin is closed.   *)
Read ==
  /\ inserter = "read" /\ ~closed
  /\ \E k \in 1 .. options.batch : \E times \in [1 .. k -> Timestamps] :
       LET batch == [i \in 1 .. k |-> [ts |-> times[i], n |-> Len(arrived) + i]]
       IN  /\ Len(arrived) + k <= options.records
           /\ Timely(arrived \o batch)
           /\ arrived' = arrived \o batch
           /\ buffer' = [i \in 1 .. options.batch |-> IF i <= k THEN times[i] ELSE buffer[i]]
           /\ filled' = k
           /\ closed' = (k < options.batch)
           /\ UNCHANGED options
  /\ Rewind
  /\ inserter' = "lock"
  /\ UNCHANGED <<content, done, insertedPoints, lock, serving, ending>>

(* Mutant: a read of nothing is tried again.                               *)
ReadNothing_Retries ==
  /\ inserter = "read" /\ closed
  /\ inserter' = "read"
  /\ UNCHANGED <<content, stdin, loop, lock, serving, ending>>

ReadNothing ==
  /\ inserter = "read" /\ closed
  /\ inserter' = "over"
  /\ UNCHANGED <<content, stdin, loop, lock, serving, ending>>

LockBatch ==
  /\ inserter = "lock" /\ lock = "free"
  /\ lock' = "inserter"
  /\ inserter' = "batch"
  /\ UNCHANGED <<content, stdin, loop, serving, ending>>

InLoop == inserter = "batch" /\ slot < options.batch /\ ~done

Streamed == arrived[Len(arrived) - filled + position + 1]   \* what add reads next

Turn == IF slot < filled THEN {arrived[Len(arrived) - filled + slot + 1]} ELSE {}

(* Mutant: one record more than the maximum is inserted.                   *)
Counted_OneMore ==
  /\ insertedPoints' = insertedPoints + 1
  /\ done' = (options.maximum # 0 /\ insertedPoints + 1 > options.maximum)

Counted ==
  /\ insertedPoints' = insertedPoints + 1
  /\ done' = (options.maximum # 0 /\ insertedPoints + 1 = options.maximum)

Failed == done' = TRUE /\ UNCHANGED insertedPoints

(* The plain cube reads the next record, or finds the end of the stream.   *)
InsertPlain ==
  /\ ~options.sliding
  /\ IF position < filled
     THEN plain' = plain \cup {Streamed} /\ position' = position + 1 /\ Counted
     ELSE Failed /\ UNCHANGED <<plain, position>>
  /\ UNCHANGED mgr

(* Mutant: the time is always read from the first slot.                    *)
InsertSliding_FirstSlot ==
  /\ options.sliding
  /\ IF position < filled
     THEN Manager!AddTo(buffer[1], {Streamed}) /\ position' = position + 1 /\ Counted
     ELSE Manager!AddTo(buffer[1], {}) /\ Failed /\ UNCHANGED position
  /\ UNCHANGED plain

(* A cube was found for the time in the slot, and reads the next record.   *)
InsertSliding ==
  /\ options.sliding
  /\ IF position < filled
     THEN Manager!AddTo(buffer[slot + 1], {Streamed}) /\ position' = position + 1 /\ Counted
     ELSE Manager!AddTo(buffer[slot + 1], {}) /\ Failed /\ UNCHANGED position
  /\ UNCHANGED plain

(* None was found: the record is discarded, but not read from the stream.  *)
Discard ==
  /\ options.sliding
  /\ Manager!TooOld(buffer[slot + 1])
  /\ Counted
  /\ UNCHANGED <<plain, position>>

InsertOne ==
  /\ InLoop
  /\ InsertPlain \/ InsertSliding \/ Discard
  /\ seen' = seen \cup Turn
  /\ slot' = slot + 1
  /\ UNCHANGED <<stdin, inserter, lock, serving, ending>>

(* Mutant: the thread ends with the lock in its hands.                     *)
Unlock_KeptWhenDone ==
  /\ inserter = "batch" /\ ~InLoop
  /\ lock' = IF done THEN lock ELSE "free"
  /\ inserter' = IF done THEN "over" ELSE "read"
  /\ UNCHANGED <<content, stdin, loop, serving, ending>>

Unlock ==
  /\ inserter = "batch" /\ ~InLoop
  /\ lock' = "free"
  /\ inserter' = IF done THEN "over" ELSE "read"
  /\ UNCHANGED <<content, stdin, loop, serving, ending>>

-----------------------------------------------------------------------------
(* The serving thread: polls while the server runs, and serves the request *)
(* a poll finds.                                                           *)

Go(from, to) == request = from /\ request' = to

Poll ==
  /\ keepRunning
  /\ Go("idle", "polling")
  /\ UNCHANGED <<content, stdin, loop, inserter, lock, answer, ending>>

PollNothing ==
  /\ Go("polling", "idle")
  /\ UNCHANGED <<content, stdin, loop, inserter, lock, answer, ending>>

StopServing ==
  /\ ~keepRunning
  /\ Go("idle", "over")
  /\ UNCHANGED <<content, stdin, loop, inserter, lock, answer, ending>>

AskQuery ==
  /\ Go("polling", "query")
  /\ UNCHANGED <<content, stdin, loop, inserter, lock, answer, ending>>

(* Mutant: a query does not wait for the cubes.                            *)
LockQuery_Unguarded ==
  /\ Go("query", IF options.sliding THEN "current" ELSE "plain")
  /\ lock' = "server" /\ answer' = {}
  /\ UNCHANGED <<content, stdin, loop, inserter, ending>>

LockQuery ==
  /\ Go("query", IF options.sliding THEN "current" ELSE "plain")
  /\ lock = "free"
  /\ lock' = "server" /\ answer' = {}
  /\ UNCHANGED <<content, stdin, loop, inserter, ending>>

(* apply: the current cube, if it has a window, then the previous one.     *)
Visit(s) == answer' = IF s \in Manager!Visited THEN answer \cup cubes[s] ELSE answer

VisitCurrent ==
  /\ Go("current", "previous")
  /\ Visit(Manager!Current)
  /\ UNCHANGED <<content, stdin, loop, inserter, lock, ending>>

VisitPrevious ==
  /\ Go("previous", "reply")
  /\ Visit(Manager!Previous)
  /\ UNCHANGED <<content, stdin, loop, inserter, lock, ending>>

VisitPlain ==
  /\ Go("plain", "reply")
  /\ answer' = plain
  /\ UNCHANGED <<content, stdin, loop, inserter, lock, ending>>

Reply ==
  /\ Go("reply", "idle")
  /\ lock' = "free" /\ answer' = {}
  /\ UNCHANGED <<content, stdin, loop, inserter, ending>>

(* A shutdown with the right passcode: respond, sleep, set finish, with    *)
(* the mutex held.                                                         *)
AskShutdown ==
  /\ Go("polling", "shutdown")
  /\ UNCHANGED <<content, stdin, loop, inserter, lock, answer, ending>>

LockShutdown ==
  /\ Go("shutdown", "finishing")
  /\ lock = "free"
  /\ lock' = "server"
  /\ UNCHANGED <<content, stdin, loop, inserter, answer, ending>>

SetFinish ==
  /\ Go("finishing", "idle")
  /\ finish' = TRUE
  /\ lock' = "free"
  /\ UNCHANGED <<content, stdin, loop, inserter, answer, keepRunning, main>>

-----------------------------------------------------------------------------
(* The main thread: wait for finish, join the inserting thread, stop the   *)
(* server and join it.                                                     *)

Advance(from, to) ==
  /\ main = from /\ main' = to
  /\ UNCHANGED <<content, stdin, loop, inserter, lock, serving, finish>>

SeeFinish    == finish /\ Advance("wait", "join") /\ UNCHANGED keepRunning
JoinInserter == inserter = "over" /\ Advance("join", "serverJoin") /\ keepRunning' = FALSE
JoinServer   ==
  /\ request = "over"
  /\ Advance("serverJoin", "over") /\ UNCHANGED keepRunning

CloseStdin ==
  /\ ~closed /\ inserter = "read"
  /\ closed' = TRUE
  /\ UNCHANGED <<content, options, arrived, buffer, filled, loop, inserter, lock, serving, ending>>

-----------------------------------------------------------------------------
Init ==
  /\ options \in Scenarios
  /\ Manager!InitManager /\ seen = {} /\ plain = {}
  /\ arrived = <<>> /\ closed = FALSE
  /\ buffer = [i \in 1 .. options.batch |-> 0] /\ filled = 0
  /\ position = 0 /\ slot = 0 /\ done = FALSE /\ insertedPoints = 0
  /\ inserter = "read"
  /\ lock = "free" /\ request = "idle" /\ answer = {}
  /\ finish = FALSE /\ keepRunning = TRUE /\ main = "wait"

Inserting == ReadNothing \/ LockBatch \/ InsertOne \/ Unlock

Serving ==
  \/ Poll \/ PollNothing \/ StopServing
  \/ LockQuery \/ VisitCurrent \/ VisitPrevious \/ VisitPlain \/ Reply
  \/ LockShutdown \/ SetFinish

Ending == SeeFinish \/ JoinInserter \/ JoinServer

Next ==
  \/ Read \/ CloseStdin \/ Inserting
  \/ AskQuery \/ AskShutdown \/ Serving
  \/ Ending

Spec == Init /\ [][Next]_vars

(* Every thread that can run does, and the lock passes over no waiting     *)
(* thread for ever (an assumption on boost::shared_mutex); nobody has to   *)
(* send a record, a request or the end of stdin.                           *)
Fairness ==
  /\ WF_vars(Inserting) /\ WF_vars(Serving) /\ WF_vars(Ending)
  /\ SF_vars(LockBatch) /\ SF_vars(LockQuery) /\ SF_vars(LockShutdown)

FairSpec == Spec /\ Fairness

-----------------------------------------------------------------------------
(* Properties.                                                             *)

Content == IF options.sliding THEN Manager!Served ELSE plain

(* The state of the manager and of every thread has its shape.             *)
TypeOK ==
  /\ options \in Scenarios
  /\ Manager!TypeOK /\ plain \subseteq Records
  /\ arrived \in Seq(Records) /\ closed \in BOOLEAN
  /\ buffer \in [1 .. options.batch -> Timestamps]
  /\ filled \in 0 .. options.batch /\ position \in 0 .. filled /\ slot \in 0 .. options.batch
  /\ done \in BOOLEAN /\ insertedPoints \in Nat
  /\ inserter \in {"read", "lock", "batch", "over"}
  /\ lock \in {"free", "inserter", "server"}
  /\ request \in {"idle", "polling", "query", "plain", "current", "previous", "reply",
                  "shutdown", "finishing", "over"}
  /\ answer \subseteq Records
  /\ finish \in BOOLEAN /\ keepRunning \in BOOLEAN
  /\ main \in {"wait", "join", "serverJoin", "over"}

(* Between batches the cubes hold exactly the records whose turn came and  *)
(* that are not out of reach: each in the cube its own time chose, also    *)
(* when other records of its batch were discarded or the read was short.   *)
ContentExact ==
  lock # "inserter" =>
    Content = IF options.sliding THEN Manager!Promise!Recent(seen) ELSE seen

(* A reply counts the records of whole batches, and of one moment: no      *)
(* record is missed or counted twice because the cubes were filled, or     *)
(* their roles swapped, while the query was visiting them.                 *)
RepliesConsistent ==
  request = "reply" => answer = Content /\ inserter # "batch"

(* --max-points: no more records are inserted than asked for, wherever in  *)
(* a batch the last of them is.                                            *)
AtMostMaximum ==
  options.maximum # 0 => Cardinality(plain \cup Manager!Served) <= options.maximum

(* Every query is answered, also while stdin stays silent or after a       *)
(* shutdown was asked for.                                                 *)
QueriesAnswered == request = "query" ~> request = "idle"

(* Once shutdown was asked for and stdin is closed the process ends.       *)
EndsWithStdin == finish /\ closed ~> main = "over"

(* An authorized shutdown, which replies that it is in progress, ends the  *)
(* process.                                                                *)
ShutdownEnds == finish ~> main = "over"
=============================================================================
