----------------------------- MODULE TwoWindows -----------------------------
(***************************************************************************)
(* What the sliding window promises: of the records received so far, those *)
(* of the newest window and of the one before it are served, whatever the  *)
(* order they came in; a record older than that is discarded.              *)
(***************************************************************************)
EXTENDS Integers

CONSTANTS Records, Window   \* Window[r]: the window the time of r falls in

VARIABLES
  seen,     \* the records received so far
  served    \* those a query counts

Recent(S) == { r \in S : \A s \in S : Window[s] <= Window[r] + 1 }

Init == seen = {} /\ served = {}

Insert(r) ==
  /\ r \notin seen
  /\ seen' = seen \cup {r}
  /\ served' = Recent(seen')

Next == \E r \in Records : Insert(r)

Spec == Init /\ [][Next]_<<seen, served>>
=============================================================================
