------------------------- MODULE SlidingCubeProofs -------------------------
(***************************************************************************)
(* For every set of records, window size and order of arrival: the two     *)
(* slots of SlidingCubeManager hold the complete cubes of the two newest   *)
(* windows, and what is served is what TwoWindows promises.                *)
(***************************************************************************)
EXTENDS SlidingCube, TLAPS

(* Windows are numbered from 0, in the order of time.                      *)
LEMMA WindowType ==
  ASSUME NEW t \in Nat
  PROVE  /\ WindowOf(t) \in Nat
         /\ WindowSize * WindowOf(t) <= t
         /\ t < WindowSize * WindowOf(t) + WindowSize
  BY SlidingAssumption DEF SlidingAssumption, WindowOf

LEMMA WindowMonotone ==
  ASSUME NEW t \in Nat, NEW u \in Nat, WindowOf(t) < WindowOf(u)
  PROVE  t < u
<1> DEFINE q == WindowOf(t)
<1> DEFINE p == WindowOf(u)
<1>1. WindowSize \in Nat
  BY SlidingAssumption DEF SlidingAssumption
<1>2. q \in Nat /\ p \in Nat /\ q < p
  BY WindowType
<1>3. t < WindowSize * q + WindowSize /\ WindowSize * p <= u
  BY WindowType
<1> HIDE DEF q, p
<1>4. WindowSize * (q + 1) <= WindowSize * p
  BY <1>1, <1>2
<1> QED
  BY <1>1, <1>2, <1>3, <1>4

(* The state before a record, as the arithmetic of the cases needs it.     *)
LEMMA StateFacts ==
  ASSUME IInv
  PROVE  /\ parity \in Slots /\ Current \in Slots /\ Previous \in Slots
         /\ Current # Previous /\ \A s \in Slots : s = Current \/ s = Previous
         /\ windows[Current] \in Nat \cup {NoWindow}
         /\ windows[Previous] \in {NoWindow, windows[Current] - 1}
         /\ windows[Previous] \in Nat \cup {NoWindow}
         /\ DOMAIN cubes = Slots /\ DOMAIN windows = Slots
         /\ \A s \in Slots : windows[s] \in Nat <=> cubes[s] # NoCube
         /\ \A s \in Slots : windows[s] \in Nat =>
              cubes[s] = { r \in seen : WindowOf(r.ts) = windows[s] }
<1>1. parity \in Slots /\ Current \in Slots /\ Previous \in Slots
      /\ Current # Previous /\ \A s \in Slots : s = Current \/ s = Previous
  BY DEF IInv, TypeOK, Slots, Current, Previous
<1>2. windows \in [Slots -> Nat \cup {NoWindow}] /\ DOMAIN cubes = Slots
  BY DEF IInv, TypeOK
<1>3. \A s \in Slots : s \in Visited <=> windows[s] \in Nat
  BY <1>2 DEF Visited, NoWindow
<1> QED
  BY <1>1, <1>2, <1>3 DEF IInv, Adjacent, VisitsCubes, WindowsComplete

(* No record seen is of a window after the current one.                    *)
LEMMA CurrentIsNewest ==
  ASSUME IInv, NEW r \in seen
  PROVE  /\ windows[Current] \in Nat /\ WindowOf(r.ts) \in Nat
         /\ WindowOf(r.ts) <= windows[Current]
<1>1. r.ts \in Nat /\ r.ts <= latestAt /\ latestAt \in Nat
  BY SlidingAssumption DEF SlidingAssumption, IInv, TypeOK, Adjacent
<1>2. windows[Current] = WindowOf(latestAt)
  BY <1>1 DEF IInv, Adjacent
<1>3. WindowOf(r.ts) \in Nat /\ WindowOf(latestAt) \in Nat
  BY <1>1, WindowType
<1>4. ~(WindowOf(latestAt) < WindowOf(r.ts))
  BY <1>1, WindowMonotone
<1> QED
  BY <1>2, <1>3, <1>4

(* The newest time after a record, and its window.                         *)
LEMMA NewestTime ==
  ASSUME IInv, NEW r \in Records, Latest(r.ts)
  PROVE  /\ latestAt' \in Nat
         /\ WindowOf(latestAt') = IF WindowOf(r.ts) > windows[Current]
                                  THEN WindowOf(r.ts) ELSE windows[Current]
         /\ \A s \in seen \cup {r} : s.ts <= latestAt'
         /\ \E s \in seen \cup {r} : s.ts = latestAt'
<1>1. r.ts \in Nat /\ WindowOf(r.ts) \in Nat /\ latestAt \in Nat \cup {-1}
  BY SlidingAssumption, WindowType DEF SlidingAssumption, IInv, TypeOK
<1>2. latestAt' = IF r.ts > latestAt THEN r.ts ELSE latestAt
  BY DEF Latest
<1>3. \A s \in seen : s.ts <= latestAt /\ s.ts \in Nat
  BY SlidingAssumption DEF SlidingAssumption, IInv, TypeOK, Adjacent
<1>4. \A s \in seen \cup {r} : s.ts <= latestAt'
  BY <1>1, <1>2, <1>3
<1>5. CASE latestAt = -1
  <2>1. windows[Current] = -1 /\ latestAt' = r.ts
    BY <1>1, <1>2, <1>5 DEF IInv, Adjacent, NoWindow
  <2> QED
    BY <1>1, <1>4, <2>1
<1>6. CASE latestAt # -1
  <2>1. /\ latestAt \in Nat /\ windows[Current] = WindowOf(latestAt)
        /\ \E s \in seen : s.ts = latestAt
    BY <1>1, <1>6 DEF IInv, Adjacent
  <2>2. WindowOf(latestAt) \in Nat
    BY <2>1, WindowType
  <2>3. CASE WindowOf(r.ts) > WindowOf(latestAt)
    <3>1. latestAt < r.ts
      BY <1>1, <2>1, <2>3, <2>2, WindowMonotone
    <3> QED
      BY <1>1, <1>2, <1>4, <2>1, <2>2, <2>3, <3>1
  <2>4. CASE WindowOf(r.ts) < WindowOf(latestAt)
    <3>1. r.ts < latestAt
      BY <1>1, <2>1, <2>4, WindowMonotone
    <3> QED
      BY <1>1, <1>2, <1>4, <2>1, <2>2, <2>4, <3>1
  <2>5. CASE WindowOf(r.ts) = WindowOf(latestAt)
    BY <1>1, <1>2, <1>4, <2>1, <2>2, <2>5
  <2> QED
    BY <1>1, <2>2, <2>3, <2>4, <2>5
<1> QED
  BY <1>5, <1>6

(* Whatever case of at a record falls in, the invariant is kept.           *)
LEMMA InsertKeepsIInv ==
  ASSUME IInv, NEW r \in Records, Insert(r)
  PROVE  IInv'
<1> DEFINE w == WindowOf(r.ts)
<1> DEFINE c == windows[Current]
<1> DEFINE p == windows[Previous]
<1>1. r.ts \in Nat /\ w \in Nat
  BY SlidingAssumption, WindowType DEF SlidingAssumption
<1>2. /\ parity \in Slots /\ Current \in Slots /\ Previous \in Slots
      /\ Current # Previous /\ \A s \in Slots : s = Current \/ s = Previous
      /\ c \in Nat \cup {-1} /\ p \in {-1, c - 1} /\ p \in Nat \cup {-1}
      /\ \A s \in Slots : windows[s] \in Nat <=> cubes[s] # NoCube
      /\ \A s \in Slots : windows[s] \in Nat =>
           cubes[s] = { x \in seen : WindowOf(x.ts) = windows[s] }
  BY StateFacts DEF NoWindow
<1>3. seen' = seen \cup {r} /\ seen' \subseteq Records
  BY DEF Insert, IInv, TypeOK
<1>4. \A x \in seen : c \in Nat /\ WindowOf(x.ts) \in Nat /\ WindowOf(x.ts) <= c
  BY CurrentIsNewest
<1>5. p = -1 => \A x \in seen : WindowOf(x.ts) # c - 1
  BY DEF IInv, NothingMissed, NoWindow
<1>6. /\ cubes \in [Slots -> {NoCube} \cup SUBSET Records]
      /\ windows \in [Slots -> Nat \cup {-1}]
      /\ seen \subseteq Records
      /\ \A S \in SUBSET Records : S # NoCube
  BY SlidingAssumption DEF SlidingAssumption, IInv, TypeOK, NoWindow
<1>7. Latest(r.ts)
  BY DEF Insert, AddTo, HitCurrent, HitPrevious, NewPrevious, NextWindow, Jump, TooOld
<1>8. /\ latestAt' \in Nat
      /\ WindowOf(latestAt') = IF w > c THEN w ELSE c
      /\ \A s \in seen' : s.ts <= latestAt'
      /\ \E s \in seen' : s.ts = latestAt'
  BY <1>3, <1>7, NewestTime
<1> HIDE DEF w, c, p
<1>9. ASSUME NEW cur \in Slots, NEW prev \in Slots,
             parity' = cur, prev = 1 - cur,
             cubes' \in [Slots -> {NoCube} \cup SUBSET Records],
             windows' \in [Slots -> Nat \cup {-1}],
             windows'[cur] = IF w > c THEN w ELSE c,
             windows'[prev] \in {-1, windows'[cur] - 1},
             \A s \in Slots : windows'[s] \in Nat <=> cubes'[s] # NoCube,
             \A s \in Slots : windows'[s] \in Nat =>
               cubes'[s] = { x \in seen' : WindowOf(x.ts) = windows'[s] },
             windows'[prev] = -1 =>
               \A x \in seen' : WindowOf(x.ts) # windows'[cur] - 1
      PROVE  IInv'
  <2>1. TypeOK'
    BY <1>3, <1>8, <1>9 DEF TypeOK, NoWindow
  <2>2. \A s \in Slots : windows'[s] >= 0 <=> windows'[s] \in Nat
    BY <1>9
  <2>3. VisitsCubes' /\ WindowsComplete'
    BY <1>9, <2>2 DEF VisitsCubes, WindowsComplete, Visited
  <2>4. Adjacent'
    BY <1>8, <1>9 DEF Adjacent, Current, Previous, NoWindow
  <2>5. NothingMissed'
    BY <1>9 DEF NothingMissed, Current, Previous, NoWindow
  <2> QED
    BY <2>1, <2>3, <2>4, <2>5 DEF IInv
<1>10. CASE HitCurrent(r.ts, {r})
  <2>1. /\ w = c /\ cubes' = [cubes EXCEPT ![Current] = @ \cup {r}]
        /\ windows' = windows /\ parity' = parity
    BY <1>10 DEF HitCurrent, w, c
  <2>2. windows[Current] = c /\ windows[Previous] = p /\ Current = parity /\ Previous = 1 - parity
    BY DEF c, p, Current, Previous
  <2>3. cubes[Current] = { x \in seen : WindowOf(x.ts) = c } /\ c \in Nat
    BY <1>1, <1>2, <2>1, <2>2
  <2>4. cubes'[Current] = { x \in seen' : WindowOf(x.ts) = c }
    BY <1>2, <1>3, <1>6, <2>1, <2>3 DEF w
  <2>5. cubes'[Previous] = cubes[Previous]
    BY <1>2, <1>6, <2>1
  <2>6. p \in Nat => cubes'[Previous] = { x \in seen' : WindowOf(x.ts) = p }
    <3>1. p \in Nat => w # p
      BY <1>2, <2>1, <2>3
    <3> QED
      BY <1>2, <1>3, <2>2, <2>5, <3>1 DEF w
  <2>7. cubes'[Current] \in SUBSET Records
    BY <1>3, <2>4
  <2>8. cubes' \in [Slots -> {NoCube} \cup SUBSET Records]
    BY <1>2, <1>6, <2>1, <2>7
  <2>9. p = -1 => \A x \in seen' : WindowOf(x.ts) # c - 1
    BY <1>1, <1>3, <1>5, <2>1, <2>3 DEF w
  <2> QED
    BY <1>1, <1>2, <1>6, <1>9, <2>1, <2>2, <2>3, <2>4, <2>5, <2>6, <2>7, <2>8, <2>9
<1>11. CASE HitPrevious(r.ts, {r})
  <2>1. /\ w = p /\ cubes' = [cubes EXCEPT ![Previous] = @ \cup {r}]
        /\ windows' = windows /\ parity' = parity
    BY <1>11 DEF HitPrevious, w, p
  <2>2. windows[Current] = c /\ windows[Previous] = p /\ Current = parity /\ Previous = 1 - parity
    BY DEF c, p, Current, Previous
  <2>3. p = c - 1 /\ p \in Nat /\ c \in Nat
    BY <1>1, <1>2, <2>1
  <2>4. cubes[Previous] = { x \in seen : WindowOf(x.ts) = p } /\ cubes[Current] = { x \in seen : WindowOf(x.ts) = c }
    BY <1>2, <2>2, <2>3
  <2>5. cubes'[Previous] = { x \in seen' : WindowOf(x.ts) = p }
    BY <1>2, <1>3, <1>6, <2>1, <2>4 DEF w
  <2>6. cubes'[Current] = { x \in seen' : WindowOf(x.ts) = c }
    <3>1. w # c
      BY <2>1, <2>3
    <3> QED
      BY <1>2, <1>3, <1>6, <2>1, <2>4, <3>1 DEF w
  <2>7. cubes'[Previous] \in SUBSET Records /\ cubes'[Current] \in SUBSET Records
    BY <1>3, <2>5, <2>6
  <2>8. cubes' \in [Slots -> {NoCube} \cup SUBSET Records]
    BY <1>2, <1>6, <2>1, <2>7
  <2> QED
    BY <1>1, <1>2, <1>6, <1>9, <2>1, <2>2, <2>3, <2>5, <2>6, <2>7, <2>8
<1>12. CASE NewPrevious(r.ts, {r})
  <2>1. /\ w = c - 1 /\ w # p /\ cubes' = [cubes EXCEPT ![Previous] = {r}]
        /\ windows' = [windows EXCEPT ![Previous] = c - 1] /\ parity' = parity
    BY <1>12 DEF NewPrevious, w, p, c
  <2>2. windows[Current] = c /\ windows[Previous] = p /\ Current = parity /\ Previous = 1 - parity
    BY DEF c, p, Current, Previous
  <2>3. p = -1 /\ c - 1 \in Nat /\ c \in Nat
    BY <1>1, <1>2, <2>1
  <2>4. cubes[Current] = { x \in seen : WindowOf(x.ts) = c }
    BY <1>2, <2>2, <2>3
  <2>5. cubes'[Previous] = { x \in seen' : WindowOf(x.ts) = c - 1 } /\ windows'[Previous] = c - 1
    <3>1. cubes'[Previous] = {r} /\ windows'[Previous] = c - 1
      BY <1>2, <1>6, <2>1
    <3>2. { x \in seen' : WindowOf(x.ts) = c - 1 } = {r}
      BY <1>3, <1>5, <2>1, <2>3 DEF w
    <3> QED
      BY <3>1, <3>2
  <2>6. cubes'[Current] = { x \in seen' : WindowOf(x.ts) = c } /\ windows'[Current] = c
    <3>1. w # c
      BY <2>1, <2>3
    <3>2. cubes'[Current] = cubes[Current] /\ windows'[Current] = windows[Current]
      BY <1>2, <1>6, <2>1
    <3> QED
      BY <1>3, <2>2, <2>4, <3>1, <3>2 DEF w
  <2>7. cubes'[Previous] \in SUBSET Records /\ cubes'[Current] \in SUBSET Records
    BY <1>3, <2>5, <2>6
  <2>8. cubes' \in [Slots -> {NoCube} \cup SUBSET Records] /\ windows' \in [Slots -> Nat \cup {-1}]
    BY <1>2, <1>6, <2>1, <2>3, <2>7
  <2> QED
    BY <1>1, <1>2, <1>6, <1>9, <2>1, <2>2, <2>3, <2>5, <2>6, <2>7, <2>8
<1>13. CASE NextWindow(r.ts, {r})
  <2>1. /\ w = c + 1 /\ cubes' = [cubes EXCEPT ![Previous] = {r}]
        /\ windows' = [windows EXCEPT ![Previous] = w] /\ parity' = 1 - parity
    BY <1>13 DEF NextWindow, w, c
  <2>2. windows[Current] = c /\ Current = parity /\ Previous = 1 - parity /\ Current = 1 - Previous
    BY <1>2 DEF c, Current, Previous, Slots
  <2>3. cubes'[Previous] = {r} /\ windows'[Previous] = w
    BY <1>2, <1>6, <2>1
  <2>4. cubes'[Current] = cubes[Current] /\ windows'[Current] = c
    BY <1>2, <1>6, <2>1, <2>2
  <2>5. { x \in seen' : WindowOf(x.ts) = w } = {r}
    <3>1. \A x \in seen : WindowOf(x.ts) # w
      BY <1>4, <1>1, <2>1
    <3> QED
      BY <1>3, <3>1 DEF w
  <2>6. c \in Nat => cubes'[Current] = { x \in seen' : WindowOf(x.ts) = c }
    <3>1. w # c
      BY <1>2, <2>1
    <3>2. c \in Nat => cubes[Current] = { x \in seen : WindowOf(x.ts) = c }
      BY <1>2, <2>2
    <3> QED
      BY <1>3, <2>4, <3>1, <3>2 DEF w
  <2>7. cubes' \in [Slots -> {NoCube} \cup SUBSET Records] /\ windows' \in [Slots -> Nat \cup {-1}]
    BY <1>1, <1>2, <1>6, <2>1
  <2>8. windows'[Current] = -1 => \A x \in seen' : WindowOf(x.ts) # w - 1
    <3>1. SUFFICES ASSUME c = -1 PROVE \A x \in seen' : WindowOf(x.ts) # w - 1
      BY <2>4
    <3>2. seen' = {r}
      BY <1>3, <1>4, <3>1
    <3> QED
      BY <1>1, <3>2 DEF w
  <2>9. cubes'[Current] # NoCube <=> c \in Nat
    BY <1>2, <2>2, <2>4
  <2>10. cubes'[Previous] # NoCube
    BY <1>6, <2>3
  <2> QED
    BY <1>1, <1>2, <1>9, <2>1, <2>2, <2>3, <2>4, <2>5, <2>6, <2>7, <2>8, <2>9, <2>10
<1>14. CASE Jump(r.ts, {r})
  <2>1. /\ w > c + 1 /\ parity' = parity
        /\ cubes' = [cubes EXCEPT ![Current] = {r}, ![Previous] = NoCube]
        /\ windows' = [windows EXCEPT ![Current] = w, ![Previous] = -1]
    BY <1>14 DEF Jump, w, c, NoWindow
  <2>2. Current = parity /\ Previous = 1 - parity
    BY DEF Current, Previous
  <2>3. /\ cubes'[Current] = {r} /\ cubes'[Previous] = NoCube
        /\ windows'[Current] = w /\ windows'[Previous] = -1
    BY <1>2, <1>6, <2>1
  <2>4. \A x \in seen : WindowOf(x.ts) # w /\ WindowOf(x.ts) # w - 1
    BY <1>1, <1>4, <2>1
  <2>5. { x \in seen' : WindowOf(x.ts) = w } = {r}
    BY <1>3, <2>4 DEF w
  <2>6. \A x \in seen' : WindowOf(x.ts) # w - 1
    BY <1>1, <1>3, <2>4 DEF w
  <2>7. cubes' \in [Slots -> {NoCube} \cup SUBSET Records] /\ windows' \in [Slots -> Nat \cup {-1}]
    BY <1>1, <1>2, <1>6, <2>1
  <2>8. w > c /\ {r} # NoCube /\ w \in Nat
    BY <1>1, <1>2, <1>6, <2>1
  <2> QED
    BY <1>2, <1>9, <2>1, <2>2, <2>3, <2>5, <2>6, <2>7, <2>8
<1>15. CASE TooOld(r.ts)
  <2>1. w < c - 1 /\ w # p /\ cubes' = cubes /\ windows' = windows /\ parity' = parity
    BY <1>15 DEF TooOld, w, c, p
  <2>2. windows[Current] = c /\ windows[Previous] = p /\ Current = parity /\ Previous = 1 - parity
    BY DEF c, p, Current, Previous
  <2>3. \A s \in Slots : windows[s] \in Nat => w # windows[s]
    BY <1>1, <1>2, <2>1, <2>2
  <2>4. \A s \in Slots : windows[s] \in Nat =>
          cubes[s] = { x \in seen' : WindowOf(x.ts) = windows[s] }
    BY <1>2, <1>3, <2>3 DEF w
  <2>5. p = -1 => \A x \in seen' : WindowOf(x.ts) # c - 1
    BY <1>1, <1>2, <1>3, <1>5, <2>1 DEF w
  <2> QED
    BY <1>1, <1>2, <1>6, <1>9, <2>1, <2>2, <2>4, <2>5
<1> QED
  BY <1>10, <1>11, <1>12, <1>13, <1>14, <1>15 DEF Insert, AddTo

(* A time that is not new, for which nothing is added: at most an empty    *)
(* cube is made for a window that has no records.                          *)
LEMMA AddNothing ==
  ASSUME IInv, NEW t \in Nat, t <= latestAt, AddTo(t, {}), seen' = seen
  PROVE  IInv'
<1> DEFINE w == WindowOf(t)
<1> DEFINE c == windows[Current]
<1> DEFINE p == windows[Previous]
<1>1. latestAt \in Nat /\ c = WindowOf(latestAt) /\ c \in Nat
  BY WindowType DEF IInv, TypeOK, Adjacent
<1>2. w \in Nat /\ w <= c
  <2>1. ~(WindowOf(latestAt) < w) /\ w \in Nat
    BY <1>1, WindowType, WindowMonotone
  <2> QED
    BY <1>1, <2>1
<1>3. /\ Current \in Slots /\ Previous \in Slots /\ Current # Previous
      /\ \A s \in Slots : s = Current \/ s = Previous
      /\ p \in {-1, c - 1} /\ p \in Nat \cup {-1}
      /\ cubes \in [Slots -> {NoCube} \cup SUBSET Records]
      /\ windows \in [Slots -> Nat \cup {-1}]
      /\ \A s \in Slots : windows[s] \in Nat => cubes[s] = { x \in seen : WindowOf(x.ts) = windows[s] }
  BY StateFacts DEF IInv, TypeOK, NoWindow
<1>4. latestAt' = latestAt
  BY <1>1 DEF AddTo, HitCurrent, HitPrevious, NewPrevious, NextWindow, Jump, Latest
<1>5. CASE HitCurrent(t, {}) \/ HitPrevious(t, {})
  <2>1. /\ windows' = windows /\ parity' = parity
        /\ \E s \in Slots : windows[s] \in Nat /\ cubes' = [cubes EXCEPT ![s] = @ \cup {}]
    BY <1>2, <1>3, <1>5 DEF HitCurrent, HitPrevious, w
  <2>2. cubes' = cubes
    BY <1>3, <2>1
  <2> QED
    BY <1>4, <2>1, <2>2 DEF IInv, TypeOK, VisitsCubes, WindowsComplete, Adjacent, NothingMissed,
                            Visited, Current, Previous
<1>6. CASE NewPrevious(t, {})
  <2>1. /\ w = c - 1 /\ w # p /\ parity' = parity
        /\ cubes' = [cubes EXCEPT ![Previous] = {}]
        /\ windows' = [windows EXCEPT ![Previous] = c - 1]
    BY <1>6 DEF NewPrevious
  <2>2. p = -1 /\ c - 1 \in Nat
    BY <1>2, <1>3, <2>1
  <2>3. \A x \in seen : WindowOf(x.ts) # c - 1
    BY <2>2 DEF IInv, NothingMissed, NoWindow
  <2>4. /\ cubes'[Previous] = {} /\ cubes'[Current] = cubes[Current]
        /\ windows'[Previous] = c - 1 /\ windows'[Current] = c
        /\ Current' = Current /\ Previous' = Previous
    BY <1>3, <2>1 DEF Current, Previous
  <2>5. /\ cubes' \in [Slots -> {NoCube} \cup SUBSET Records]
        /\ windows' \in [Slots -> Nat \cup {-1}]
    BY <1>3, <2>1, <2>2
  <2>6. \A s \in Slots : windows'[s] >= 0 <=> windows'[s] \in Nat
    BY <2>5
  <2> HIDE DEF c, p
  <2>7. \A s \in Slots : windows'[s] \in Nat => cubes'[s] = { x \in seen : WindowOf(x.ts) = windows'[s] }
    <3>1. cubes'[Previous] = { x \in seen : WindowOf(x.ts) = windows'[Previous] }
      BY <2>3, <2>4
    <3>2. cubes'[Current] = { x \in seen : WindowOf(x.ts) = windows'[Current] }
      BY <1>1, <1>3, <2>4 DEF c
    <3> QED
      BY <1>3, <3>1, <3>2
  <2>8. VisitsCubes'
    <3>1. \A s \in Slots : windows[s] \in Nat => cubes[s] # NoCube
      BY StateFacts
    <3>2. cubes'[Previous] # NoCube /\ cubes'[Current] # NoCube
      BY <1>1, <1>3, <2>4, <3>1, SlidingAssumption DEF SlidingAssumption, c
    <3> QED
      BY <1>1, <1>3, <2>2, <2>4, <2>6, <3>2 DEF VisitsCubes, Visited
  <2>9. WindowsComplete'
    BY <2>6, <2>7 DEF WindowsComplete, Visited
  <2>10. Adjacent' /\ NothingMissed'
    BY <1>1, <1>4, <2>2, <2>4 DEF IInv, Adjacent, NothingMissed, NoWindow, c
  <2>11. TypeOK'
    BY <1>4, <2>1, <2>5 DEF IInv, TypeOK, NoWindow
  <2> QED
    BY <2>8, <2>9, <2>10, <2>11 DEF IInv
<1>7. CASE NextWindow(t, {}) \/ Jump(t, {})
  BY <1>1, <1>2, <1>7 DEF NextWindow, Jump
<1> QED
  BY <1>5, <1>6, <1>7 DEF AddTo

LEMMA InitIsIInv == Init => IInv
<1> SUFFICES ASSUME Init PROVE IInv
  OBVIOUS
<1>1. /\ cubes = [s \in Slots |-> NoCube] /\ windows = [s \in Slots |-> -1]
      /\ parity = 0 /\ latestAt = -1 /\ seen = {}
  BY DEF Init, InitManager, NoWindow
<1>2. TypeOK
  BY <1>1 DEF TypeOK, NoWindow, Slots
<1>3. Visited = {}
  BY <1>1 DEF Visited
<1>4. VisitsCubes /\ WindowsComplete
  BY <1>1, <1>3 DEF VisitsCubes, WindowsComplete
<1>5. Adjacent /\ NothingMissed
  BY <1>1 DEF Adjacent, NothingMissed, NoWindow, Current, Previous, Slots
<1> QED
  BY <1>2, <1>4, <1>5 DEF IInv

(* The invariant is inductive.                                             *)
LEMMA Inductive == Spec => []IInv
<1>1. Init => IInv
  BY InitIsIInv
<1>2. IInv /\ [Next]_vars => IInv'
  <2> SUFFICES ASSUME IInv, [Next]_vars PROVE IInv'
    OBVIOUS
  <2>1. CASE Next
    BY <2>1, InsertKeepsIInv DEF Next
  <2>2. CASE UNCHANGED vars
    BY <2>2 DEF vars, mgr, IInv, TypeOK, VisitsCubes, WindowsComplete, Visited,
                Adjacent, NothingMissed, Current, Previous
  <2> QED
    BY <2>1, <2>2
<1> QED
  BY <1>1, <1>2, PTL DEF Spec

-----------------------------------------------------------------------------
(* at always leaves two slots that hold a cube or nothing.                 *)
THEOREM TypeCorrect == Spec => []TypeOK
<1>1. IInv => TypeOK
  BY DEF IInv
<1> QED
  BY <1>1, Inductive, PTL

(* A visit by apply follows no null pointer and skips no cube.             *)
THEOREM AppliesToCubes == Spec => []VisitsCubes
<1>1. IInv => VisitsCubes
  BY DEF IInv
<1> QED
  BY <1>1, Inductive, PTL

(* Each served cube is complete for its window, and pure.                  *)
THEOREM CubesComplete == Spec => []WindowsComplete
<1>1. IInv => WindowsComplete
  BY DEF IInv
<1> QED
  BY <1>1, Inductive, PTL

(* The current slot follows the newest record, the other one just behind.  *)
THEOREM SlotsAdjacent == Spec => []Adjacent
<1>1. IInv => Adjacent
  BY DEF IInv
<1> QED
  BY <1>1, Inductive, PTL

(* A window that a jump leaves without a cube is one that had no record.   *)
THEOREM JumpsDropNothing == Spec => []NothingMissed
<1>1. IInv => NothingMissed
  BY DEF IInv
<1> QED
  BY <1>1, Inductive, PTL

-----------------------------------------------------------------------------
(* What is served: the records of the current window and the one before.   *)
LEMMA ServedIs ==
  ASSUME IInv
  PROVE  Served = { x \in seen : WindowOf(x.ts) >= windows[Current] - 1 }
<1> DEFINE c == windows[Current]
<1> DEFINE p == windows[Previous]
<1>1. /\ Current \in Slots /\ Previous \in Slots
      /\ \A s \in Slots : s = Current \/ s = Previous
      /\ c \in Nat \cup {-1} /\ p \in {-1, c - 1} /\ p \in Nat \cup {-1}
      /\ \A s \in Slots : windows[s] \in Nat =>
           cubes[s] = { x \in seen : WindowOf(x.ts) = windows[s] }
  BY StateFacts DEF NoWindow
<1>2. \A x \in seen : c \in Nat /\ WindowOf(x.ts) \in Nat /\ WindowOf(x.ts) <= c
  BY CurrentIsNewest
<1>3. p = -1 => \A x \in seen : WindowOf(x.ts) # c - 1
  BY DEF IInv, NothingMissed, NoWindow
<1>4. \A s \in Slots : s \in Visited <=> windows[s] \in Nat
  <2>1. windows[Current] = c /\ windows[Previous] = p
    OBVIOUS
  <2> HIDE DEF c, p
  <2> QED
    BY <1>1, <2>1 DEF Visited
<1>5. \A x : x \in Served <=> \E s \in Slots : windows[s] \in Nat /\ x \in cubes[s]
  BY <1>4 DEF Served, Visited
<1>6. ASSUME NEW x \in Served
      PROVE  x \in seen /\ WindowOf(x.ts) >= c - 1
  <2>1. PICK s \in Slots : windows[s] \in Nat /\ x \in cubes[s]
    BY <1>5, <1>6
  <2>2. x \in seen /\ WindowOf(x.ts) = windows[s]
    BY <1>1, <2>1
  <2>3. CASE s = Current
    BY <1>1, <2>2, <2>3
  <2>4. CASE s = Previous
    BY <1>1, <2>1, <2>2, <2>4
  <2> QED
    BY <1>1, <2>3, <2>4
<1>7. ASSUME NEW x \in seen, WindowOf(x.ts) >= c - 1
      PROVE  x \in Served
  <2>1. WindowOf(x.ts) = c \/ WindowOf(x.ts) = c - 1
    BY <1>2, <1>7
  <2>2. CASE WindowOf(x.ts) = c
    BY <1>1, <1>2, <1>5, <2>2
  <2>3. CASE WindowOf(x.ts) = c - 1
    <3>1. p = c - 1 /\ p \in Nat
      BY <1>1, <1>2, <1>3, <2>3
    <3> QED
      BY <1>1, <1>5, <2>3, <3>1
  <2> QED
    BY <2>1, <2>2, <2>3
<1> QED
  BY <1>6, <1>7

(* Served this way are exactly the records of the two newest windows seen. *)
LEMMA ServedIsRecent ==
  ASSUME IInv
  PROVE  Served = Promise!Recent(seen)
<1> DEFINE c == windows[Current]
<1>1. Served = { x \in seen : WindowOf(x.ts) >= c - 1 }
  BY ServedIs
<1>2. c \in Nat \cup {-1} /\ seen \subseteq Records
  BY StateFacts DEF NoWindow, IInv, TypeOK
<1>3. \A x \in seen : c \in Nat /\ WindowOf(x.ts) \in Nat /\ WindowOf(x.ts) <= c
  BY CurrentIsNewest
<1>4. c \in Nat => \E x \in seen : WindowOf(x.ts) = c
  BY DEF IInv, Adjacent, NoWindow
<1> HIDE DEF c
<1> DEFINE recent == { x \in seen : \A y \in seen : WindowOf(y.ts) <= WindowOf(x.ts) + 1 }
<1>5. \A x \in seen :
        (\A y \in seen : WindowOf(y.ts) <= WindowOf(x.ts) + 1) <=> WindowOf(x.ts) >= c - 1
  <2> TAKE x \in seen
  <2>1. ASSUME \A y \in seen : WindowOf(y.ts) <= WindowOf(x.ts) + 1
        PROVE  WindowOf(x.ts) >= c - 1
    <3>1. PICK y \in seen : WindowOf(y.ts) = c
      BY <1>3, <1>4
    <3> QED
      BY <1>3, <2>1, <3>1
  <2>2. ASSUME WindowOf(x.ts) >= c - 1, NEW y \in seen
        PROVE  WindowOf(y.ts) <= WindowOf(x.ts) + 1
    BY <1>3, <2>2
  <2> QED
    BY <2>1, <2>2
<1>6. Served = recent
  BY <1>1, <1>5
<1>7. \A x \in Records : [q \in Records |-> WindowOf(q.ts)][x] = WindowOf(x.ts)
  OBVIOUS
<1>8. recent = Promise!Recent(seen)
  BY <1>2, <1>7 DEF Promise!Recent
<1> QED
  BY <1>6, <1>8

(* The two slots implement the promise: every record, in any order, leaves *)
(* exactly the records of the two newest windows served.                   *)
THEOREM Refinement == Spec => ImplementsTwoWindows
<1>1. Init => Promise!Init
  <2> SUFFICES ASSUME Init PROVE seen = {} /\ Served = {}
    BY DEF Promise!Init
  <2>1. windows = [s \in Slots |-> -1] /\ seen = {}
    BY DEF Init, InitManager, NoWindow
  <2>2. Visited = {}
    BY <2>1 DEF Visited
  <2> QED
    BY <2>1, <2>2 DEF Served
<1>2. (IInv => Served = Promise!Recent(seen))'
  <2>1. IInv => Served = Promise!Recent(seen)
    BY ServedIsRecent
  <2> QED
    BY <2>1, PTL
<1>3. IInv' /\ [Next]_vars => [Promise!Next]_<<seen, Served>>
  <2> SUFFICES ASSUME IInv', [Next]_vars PROVE [Promise!Next]_<<seen, Served>>
    OBVIOUS
  <2>1. CASE UNCHANGED vars
    BY <2>1 DEF vars, mgr, Served, Visited
  <2>2. CASE Next
    <3>1. PICK r \in Records : Insert(r)
      BY <2>2 DEF Next
    <3>2. r \notin seen /\ seen' = seen \cup {r}
      BY <3>1 DEF Insert
    <3>3. Served' = Promise!Recent(seen')
      BY <1>2 DEF Promise!Recent
    <3>4. Promise!Insert(r)
      BY <3>2, <3>3 DEF Promise!Insert
    <3> QED
      BY <3>4 DEF Promise!Next
  <2> QED
    BY <2>1, <2>2
<1> QED
  BY <1>1, <1>3, Inductive, PTL DEF Spec, ImplementsTwoWindows, Promise!Spec
=============================================================================
