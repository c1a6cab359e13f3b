-------------------------------- MODULE Cube --------------------------------
(***************************************************************************)
(* What a nanocube promises: for each product bin (a path prefix in every  *)
(* dimension), exactly the bag of the records inserted so far whose        *)
(* address lies in the bin, until the cube is destroyed.                   *)
(***************************************************************************)
EXTENDS Integers, Sequences

CONSTANTS Addresses, Bins

VARIABLE answers   \* answers[b][a]: the records at address a seen in bin b

Gone == <<>>       \* the value of answers once the cube is destroyed

Covers(b, a) ==
  \A d \in DOMAIN b :
    Len(b[d]) <= Len(a[d]) /\ SubSeq(a[d], 1, Len(b[d])) = b[d]

Init == answers = [b \in Bins |-> [a \in Addresses |-> 0]]

Add(a) ==
  /\ DOMAIN answers = Bins /\ DOMAIN answers' = Bins
  /\ \A b \in Bins :
       answers'[b] = IF Covers(b, a) THEN [answers[b] EXCEPT ![a] = @ + 1] ELSE answers[b]

Destroy == answers # Gone /\ answers' = Gone

Next == Destroy \/ \E a \in Addresses : Add(a)

Spec == Init /\ [][Next]_answers
=============================================================================
