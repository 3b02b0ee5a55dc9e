------------------------ MODULE PortSchedulingProofs ------------------------
(***************************************************************************)
(* Proofs about PortScheduling, for every set of sources and every bound:   *)
(* the scheduler never has two commands on the wire, never loses a wake-up, *)
(* stalls only the one way the ghost variable dropped records, and          *)
(* implements CommandToken.                                                 *)
(***************************************************************************)
EXTENDS PortScheduling, TLAPS, SequenceTheorems, FiniteSetTheorems,
        WellFoundedInduction

----------------------------------------------------------------------------
(* The walk of find_next_source.                                           *)

(* Every place the search of find_next_source looks at is an index of the *)
(* array of sources.                                                      *)
LEMMA VisitedIndex ==
  ASSUME NEW s \in SchedulerType, NEW i \in Indexes(s)
  PROVE  Visited(s, i) \in Indexes(s)
<1>1. Len(s.sources) \in Nat /\ s.cur \in Nat
  BY DEF SchedulerType
<1>2. FirstVisited(s) \in Indexes(s)
  BY <1>1 DEF FirstVisited, Indexes
<1> QED BY <1>1, <1>2 DEF Visited, Indexes

(* The search of find_next_source visits every index: it starts behind    *)
(* the current source and wraps around once.                              *)
LEMMA EveryIndexVisited ==
  ASSUME NEW s \in SchedulerType, NEW idx \in Indexes(s)
  PROVE  \E i \in Indexes(s) : Visited(s, i) = idx
<1>1. Len(s.sources) \in Nat /\ s.cur \in Nat
  BY DEF SchedulerType
<1>2. FirstVisited(s) \in Indexes(s)
  BY <1>1 DEF FirstVisited, Indexes
<1>3. CASE idx >= FirstVisited(s)
  <2>1. idx - FirstVisited(s) \in Indexes(s)
    BY <1>1, <1>2, <1>3 DEF Indexes
  <2>2. Visited(s, idx - FirstVisited(s)) = idx
    BY <1>1, <1>2, <1>3 DEF Visited, Indexes
  <2> QED BY <2>1, <2>2
<1>4. CASE idx < FirstVisited(s)
  <2>1. idx - FirstVisited(s) + Len(s.sources) \in Indexes(s)
    BY <1>1, <1>2, <1>4 DEF Indexes
  <2>2. Visited(s, idx - FirstVisited(s) + Len(s.sources)) = idx
    BY <1>1, <1>2, <1>4 DEF Visited, Indexes
  <2> QED BY <2>1, <2>2
<1> QED BY <1>1, <1>2, <1>3, <1>4 DEF Indexes

(* A nonempty set of naturals has a least element: the initial segments     *)
(* 0..i of its elements are finite, and strict inclusion of finite sets is  *)
(* well founded.                                                            *)
LEMMA LeastElement ==
  ASSUME NEW T \in SUBSET Nat, T # {}
  PROVE  \E i \in T : \A j \in T : ~(j < i)
<1> DEFINE Segments == {0 .. i : i \in T}
<1>1. Segments \subseteq FiniteSubsetsOf(Nat)
  <2>1. \A i \in T : IsFiniteSet(0 .. i)
    BY FS_Interval
  <2> QED BY <2>1 DEF FiniteSubsetsOf
<1>2. Segments # {}
  OBVIOUS
<1>3. PICK m \in Segments : \A y \in Segments : ~(<<y, m>> \in StrictSubsetOrdering(Nat))
  <2> HIDE DEF Segments
  <2> QED BY <1>1, <1>2, FS_StrictSubsetOrderingWellFounded, WFMin
<1>4. PICK i \in T : m = 0 .. i
  OBVIOUS
<1>5. ASSUME NEW j \in T, j < i PROVE FALSE
  <2>1. 0 .. j \in SUBSET Nat /\ 0 .. i \in SUBSET Nat
    OBVIOUS
  <2>2. 0 .. j \subseteq 0 .. i
    BY <1>5
  <2>3. i \in 0 .. i /\ i \notin 0 .. j
    BY <1>5
  <2>4. <<0 .. j, 0 .. i>> \in StrictSubsetOrdering(Nat)
    BY <2>1, <2>2, <2>3 DEF StrictSubsetOrdering
  <2> QED BY <1>3, <1>4, <2>4
<1> QED BY <1>5

(* find_next_source finds a source with a command whenever there is one.   *)
LEMMA NextIndexPending ==
  ASSUME NEW s \in SchedulerType, AnyPending(s)
  PROVE  NextIndex(s) \in Indexes(s) /\ HasCommand(s, NextIndex(s))
<1> DEFINE T == {i \in Indexes(s) : HasCommand(s, Visited(s, i))}
<1>1. Len(s.sources) \in Nat
  BY DEF SchedulerType
<1>2. T # {}
  BY EveryIndexVisited DEF AnyPending
<1>3. T \in SUBSET Nat
  BY <1>1 DEF Indexes
<1>4. PICK i \in T : \A j \in T : ~(j < i)
  BY <1>2, <1>3, LeastElement
<1>5. \A j \in 0 .. i - 1 : j \in Indexes(s) /\ j < i
  BY <1>1, <1>4 DEF Indexes
<1>6. i \in Indexes(s) /\ IsNext(s, i)
  BY <1>4, <1>5 DEF IsNext
<1>7. \A k \in Indexes(s) : IsNext(s, k) => HasCommand(s, Visited(s, k))
  BY DEF IsNext
<1> QED BY <1>6, <1>7, VisitedIndex DEF NextIndex

----------------------------------------------------------------------------
(* What the entry points of the scheduler do to the fields of the record.  *)

(* A source that is registered has an index in the array.                 *)
LEMMA IndexOfRegistered ==
  ASSUME NEW s \in SchedulerType, NEW p \in Registered(s)
  PROVE  IndexOf(s, p) \in Indexes(s) /\ SourceAt(s, IndexOf(s, p)) = p
<1>1. Len(s.sources) \in Nat
  BY DEF SchedulerType
<1>2. PICK i \in 1 .. Len(s.sources) : s.sources[i] = p
  BY DEF Registered
<1>3. i - 1 \in Indexes(s) /\ SourceAt(s, i - 1) = p
  BY <1>1, <1>2 DEF Indexes, SourceAt
<1> QED BY <1>3 DEF IndexOf

(* With distinct sources an index determines its source and conversely.    *)
LEMMA IndexOfSourceAt ==
  ASSUME NEW s \in SchedulerType, Distinct(s), NEW idx \in Indexes(s)
  PROVE  /\ SourceAt(s, idx) \in Registered(s)
         /\ SourceAt(s, idx) \in Sources
         /\ IndexOf(s, SourceAt(s, idx)) = idx
<1>1. Len(s.sources) \in Nat /\ s.sources \in Seq(Sources)
  BY DEF SchedulerType
<1>2. idx + 1 \in 1 .. Len(s.sources)
  BY <1>1 DEF Indexes
<1>3. SourceAt(s, idx) \in Registered(s) /\ SourceAt(s, idx) \in Sources
  BY <1>1, <1>2 DEF SourceAt, Registered
<1>4. \A j \in Indexes(s) : SourceAt(s, j) = SourceAt(s, idx) => j = idx
  BY <1>1, <1>2 DEF Distinct, SourceAt, Indexes
<1> QED BY <1>3, <1>4, IndexOfRegistered

(* schedule_next_command changes nothing but the timer, which it arms if  *)
(* no command runs and some source has commands.                          *)
LEMMA ScheduleNextEffect ==
  ASSUME NEW s \in SchedulerType, NEW t, t = ScheduleNext(s)
  PROVE  /\ t \in SchedulerType
         /\ t.sources = s.sources
         /\ t.pending = s.pending
         /\ t.cur = s.cur
         /\ t.inCommand = s.inCommand
         /\ t.timer = (s.timer \/ (~s.inCommand /\ AnyPending(s)))
BY Zenon DEF ScheduleNext, SchedulerType

(* Removing one element of a sequence shifts the later ones down.           *)
LEMMA RemoveAtProperties ==
  ASSUME NEW S, NEW seq \in Seq(S), NEW k \in 1 .. Len(seq),
         NEW r, r = RemoveAt(seq, k)
  PROVE  /\ r \in Seq(S)
         /\ Len(r) = Len(seq) - 1
         /\ \A i \in 1 .. Len(seq) - 1 :
              r[i] = IF i < k THEN seq[i] ELSE seq[i + 1]
<1>1. Len(seq) \in Nat /\ k \in Nat /\ k <= Len(seq) /\ 1 <= k
  OBVIOUS
<1>2. PICK left : left = SubSeq(seq, 1, k - 1)
  OBVIOUS
<1>3. PICK right : right = SubSeq(seq, k + 1, Len(seq))
  OBVIOUS
<1>4. r = left \o right
  BY <1>2, <1>3, Zenon DEF RemoveAt
<1>5. /\ left \in Seq(S) /\ Len(left) = k - 1
      /\ \A i \in 1 .. k - 1 : left[i] = seq[i]
  BY <1>1, <1>2
<1>6. /\ right \in Seq(S) /\ Len(right) = Len(seq) - k
      /\ \A i \in 1 .. Len(seq) - k : right[i] = seq[k + i]
  BY <1>1, <1>3
<1>7. r \in Seq(S) /\ Len(r) = Len(seq) - 1
  BY <1>1, <1>4, <1>5, <1>6
<1>8. \A i \in 1 .. k - 1 : r[i] = left[i]
  BY <1>1, <1>4, <1>5, <1>6
<1>9. \A i \in 1 .. Len(seq) - k : r[k - 1 + i] = right[i]
  BY <1>1, <1>4, <1>5, <1>6
<1>10. ASSUME NEW i \in 1 .. Len(seq) - 1
      PROVE  r[i] = IF i < k THEN seq[i] ELSE seq[i + 1]
  <2>1. CASE i < k
    BY <1>1, <1>5, <1>8, <2>1
  <2>2. CASE i >= k
    <3>1. i - (k - 1) \in 1 .. Len(seq) - k /\ i = k - 1 + (i - (k - 1))
      BY <1>1, <2>2
    <3>2. r[i] = right[i - (k - 1)]
      BY <1>9, <3>1
    <3>3. right[i - (k - 1)] = seq[k + (i - (k - 1))]
      BY <1>6, <3>1
    <3>4. k + (i - (k - 1)) = i + 1
      BY <1>1
    <3> QED BY <2>2, <3>2, <3>3, <3>4, <1>1
  <2> QED BY <1>1, <2>1, <2>2
<1> QED BY <1>7, <1>10

(* mm_port_scheduler_register_source appends a source with nothing to     *)
(* send and leaves the turn and the timer alone.                          *)
LEMMA RegisterEffect ==
  ASSUME NEW s \in SchedulerType, Distinct(s),
         NEW p \in Sources, p \notin Registered(s),
         NEW t, t = RegisterSource(s, p)
  PROVE  /\ t \in SchedulerType
         /\ Distinct(t)
         /\ Registered(t) = Registered(s) \union {p}
         /\ \A q \in Registered(s) : IndexOf(t, q) = IndexOf(s, q)
         /\ t.pending = [s.pending EXCEPT ![p] = 0]
         /\ t.cur = s.cur /\ t.inCommand = s.inCommand /\ t.timer = s.timer
         /\ AnyPending(t) => AnyPending(s)
<1>1. PICK old : old = s.sources
  OBVIOUS
<1>2. PICK new : new = Append(old, p)
  OBVIOUS
<1>3. PICK depth : depth = [s.pending EXCEPT ![p] = 0]
  OBVIOUS
<1>4. t = [s EXCEPT !.sources = new, !.pending = depth]
  BY <1>1, <1>2, <1>3, Zenon DEF RegisterSource
<1>5. /\ old \in Seq(Sources) /\ new \in Seq(Sources)
      /\ Len(old) \in Nat /\ Len(new) = Len(old) + 1
      /\ \A i \in 1 .. Len(old) : new[i] = old[i] /\ old[i] \in Sources
      /\ new[Len(old) + 1] = p
  BY <1>1, <1>2 DEF SchedulerType
<1>6. /\ depth \in [Sources -> Nat] /\ depth[p] = 0
      /\ \A q \in Sources \ {p} : depth[q] = s.pending[q]
  BY <1>3 DEF SchedulerType
<1>7. /\ t \in SchedulerType
      /\ t.sources = new /\ t.pending = depth
      /\ t.cur = s.cur /\ t.inCommand = s.inCommand /\ t.timer = s.timer
  BY <1>4, <1>5, <1>6, Zenon DEF SchedulerType
<1>8. \A i \in 1 .. Len(old) : old[i] # p
  BY <1>1 DEF Registered
<1>9. Distinct(t)
  <2>1. \A i, j \in 1 .. Len(old) : old[i] = old[j] => i = j
    BY <1>1 DEF Distinct
  <2>2. \A i, j \in 1 .. Len(new) : new[i] = new[j] => i = j
    BY <1>5, <1>8, <2>1
  <2> QED BY <1>7, <2>2 DEF Distinct
<1>10. Registered(t) = Registered(s) \union {p}
  <2>1. {new[i] : i \in 1 .. Len(new)} = {old[i] : i \in 1 .. Len(old)} \union {p}
    BY <1>5
  <2>2. Registered(t) = {new[i] : i \in 1 .. Len(new)}
    BY <1>7, Zenon DEF Registered
  <2>3. Registered(s) = {old[i] : i \in 1 .. Len(old)}
    BY <1>1, Zenon DEF Registered
  <2> QED BY <2>1, <2>2, <2>3
<1>11. ASSUME NEW q \in Registered(s) PROVE IndexOf(t, q) = IndexOf(s, q)
  <2>1. PICK m : m = IndexOf(s, q)
    OBVIOUS
  <2>2. m \in 0 .. Len(old) - 1 /\ old[m + 1] = q
    BY <1>1, <2>1, IndexOfRegistered DEF Indexes, SourceAt
  <2>3. m \in 0 .. Len(new) - 1 /\ new[m + 1] = q
    BY <1>5, <2>2
  <2>4. m \in Indexes(t) /\ SourceAt(t, m) = q
    BY <1>7, <2>3 DEF Indexes, SourceAt
  <2> QED BY <1>7, <1>9, <2>1, <2>4, IndexOfSourceAt
<1>12. AnyPending(t) => AnyPending(s)
  <2>1. ASSUME NEW idx \in 0 .. Len(new) - 1, depth[new[idx + 1]] > 0
        PROVE  idx \in 0 .. Len(old) - 1 /\ s.pending[old[idx + 1]] > 0
    <3>1. idx \in 0 .. Len(old) - 1
      BY <1>5, <1>6, <2>1
    <3>2. new[idx + 1] = old[idx + 1] /\ old[idx + 1] \in Sources \ {p}
      BY <1>5, <1>8, <3>1
    <3> QED BY <1>6, <2>1, <3>1, <3>2
  <2> QED BY <1>1, <1>7, <2>1 DEF AnyPending, HasCommand, SourceAt, Indexes
<1> QED BY <1>3, <1>7, <1>9, <1>10, <1>11, <1>12

(* mm_port_scheduler_unregister_source removes the source, moves the      *)
(* later ones down and leaves cur_source and in_command alone.            *)
LEMMA UnregisterEffect ==
  ASSUME NEW s \in SchedulerType, Distinct(s), NEW p \in Registered(s),
         NEW t, t = UnregisterSource(s, p),
         NEW k, k = IndexOf(s, p)
  PROVE  /\ t \in SchedulerType
         /\ Distinct(t)
         /\ Registered(t) = Registered(s) \ {p}
         /\ \A q \in Registered(t) :
              IndexOf(t, q) = IF IndexOf(s, q) < k THEN IndexOf(s, q)
                                                   ELSE IndexOf(s, q) - 1
         /\ t.pending = [s.pending EXCEPT ![p] = 0]
         /\ t.cur = s.cur /\ t.inCommand = s.inCommand
         /\ s.timer => t.timer
         /\ s.inCommand => t.timer = s.timer
         /\ AnyPending(t) => AnyPending(s)
<1>1. PICK old : old = s.sources
  OBVIOUS
<1>2. PICK new : new = RemoveAt(old, k + 1)
  OBVIOUS
<1>3. PICK depth : depth = [s.pending EXCEPT ![p] = 0]
  OBVIOUS
<1>4. PICK r : r = [s EXCEPT !.sources = new, !.pending = depth]
  OBVIOUS
<1>5. t = IF s.cur = k THEN ScheduleNext(r) ELSE r
  BY <1>1, <1>2, <1>3, <1>4, Zenon DEF UnregisterSource
<1>6. /\ old \in Seq(Sources) /\ Len(old) \in Nat
      /\ k \in 0 .. Len(old) - 1 /\ old[k + 1] = p
      /\ p \in Sources
  <2>1. k \in Indexes(s) /\ SourceAt(s, k) = p
    BY IndexOfRegistered, Zenon
  <2> QED BY <1>1, <2>1 DEF SchedulerType, Indexes, SourceAt, Registered
<1>7. /\ new \in Seq(Sources)
      /\ Len(new) = Len(old) - 1
      /\ \A i \in 1 .. Len(old) - 1 : new[i] = IF i < k + 1 THEN old[i] ELSE old[i + 1]
  <2>1. k + 1 \in 1 .. Len(old)
    BY <1>6
  <2>2. old \in Seq(Sources)
    BY <1>6
  <2>3. PICK j : j = k + 1 /\ j \in 1 .. Len(old)
    BY <2>1
  <2>4. new = RemoveAt(old, j)
    BY <1>2, <2>3
  <2> QED BY <2>2, <2>3, <2>4, RemoveAtProperties
<1>8. /\ depth \in [Sources -> Nat] /\ depth[p] = 0
      /\ \A q \in Sources \ {p} : depth[q] = s.pending[q]
  BY <1>3, <1>6 DEF SchedulerType
<1>9. /\ r \in SchedulerType
      /\ r.sources = new /\ r.pending = depth
      /\ r.cur = s.cur /\ r.inCommand = s.inCommand /\ r.timer = s.timer
  BY <1>4, <1>7, <1>8, Zenon DEF SchedulerType
<1>10. /\ t \in SchedulerType
       /\ t.sources = new /\ t.pending = depth
       /\ t.cur = s.cur /\ t.inCommand = s.inCommand
  BY <1>5, <1>9, ScheduleNextEffect, Zenon
<1>11. /\ s.timer => t.timer
       /\ s.inCommand => t.timer = s.timer
  <2>1. t.timer = r.timer \/ t.timer = (r.timer \/ (~r.inCommand /\ AnyPending(r)))
    BY <1>5, <1>9, ScheduleNextEffect, Zenon
  <2> QED BY <1>9, <1>10, <2>1 DEF SchedulerType
<1>12. \A i, j \in 1 .. Len(old) : old[i] = old[j] => i = j
  BY <1>1 DEF Distinct
<1>13. \A i \in 1 .. Len(new) :
         /\ i < k + 1 => new[i] = old[i] /\ i \in 1 .. Len(old) /\ i # k + 1
         /\ i >= k + 1 => new[i] = old[i + 1] /\ i + 1 \in 1 .. Len(old) /\ i + 1 # k + 1
  BY <1>6, <1>7
<1>14. Distinct(t)
  <2>1. ASSUME NEW i \in 1 .. Len(new), NEW j \in 1 .. Len(new), new[i] = new[j]
        PROVE  i = j
    <3>1. CASE i < k + 1 /\ j < k + 1
      BY <1>12, <1>13, <2>1, <3>1
    <3>2. CASE i >= k + 1 /\ j >= k + 1
      <4>1. i + 1 = j + 1
        BY <1>12, <1>13, <2>1, <3>2
      <4> QED BY <4>1, <1>6, <1>7
    <3>3. CASE i < k + 1 /\ j >= k + 1
      <4>1. i = j + 1
        BY <1>12, <1>13, <2>1, <3>3
      <4> QED BY <4>1, <3>3, <1>6, <1>7
    <3>4. CASE i >= k + 1 /\ j < k + 1
      <4>1. i + 1 = j
        BY <1>12, <1>13, <2>1, <3>4
      <4> QED BY <4>1, <3>4, <1>6, <1>7
    <3> QED BY <1>6, <1>7, <3>1, <3>2, <3>3, <3>4
  <2> QED BY <1>10, <2>1 DEF Distinct
<1>15. ASSUME NEW i \in 1 .. Len(new)
       PROVE  \E j \in 1 .. Len(old) : old[j] = new[i] /\ old[j] # p
  <2>1. CASE i < k + 1
    BY <1>6, <1>12, <1>13, <2>1
  <2>2. CASE i >= k + 1
    <3>1. i + 1 \in 1 .. Len(old) /\ old[i + 1] = new[i] /\ i + 1 # k + 1
      BY <1>13, <2>2
    <3>2. old[i + 1] # p
      BY <1>6, <1>12, <3>1
    <3> QED BY <3>1, <3>2
  <2> QED BY <1>6, <1>7, <2>1, <2>2
<1>16. ASSUME NEW i \in 1 .. Len(old), old[i] # p
       PROVE  \E j \in 1 .. Len(new) : new[j] = old[i]
  <2>1. CASE i < k + 1
    BY <1>6, <1>7, <2>1
  <2>2. CASE i > k + 1
    <3>1. i - 1 \in 1 .. Len(new) /\ i - 1 >= k + 1 /\ (i - 1) + 1 = i
      BY <1>6, <1>7, <2>2
    <3>2. new[i - 1] = old[i]
      BY <1>13, <3>1
    <3> QED BY <3>1, <3>2
  <2> QED BY <1>6, <1>16, <2>1, <2>2
<1>17. Registered(t) = Registered(s) \ {p}
  <2>1. Registered(t) = {new[i] : i \in 1 .. Len(new)}
    BY <1>10, Zenon DEF Registered
  <2>2. Registered(s) = {old[i] : i \in 1 .. Len(old)}
    BY <1>1, Zenon DEF Registered
  <2>3. {new[i] : i \in 1 .. Len(new)} \subseteq {old[i] : i \in 1 .. Len(old)} \ {p}
    BY <1>15
  <2>4. {old[i] : i \in 1 .. Len(old)} \ {p} \subseteq {new[i] : i \in 1 .. Len(new)}
    BY <1>16
  <2> QED BY ONLY <2>1, <2>2, <2>3, <2>4
<1>18. ASSUME NEW q \in Registered(t)
       PROVE  IndexOf(t, q) = IF IndexOf(s, q) < k THEN IndexOf(s, q)
                                                   ELSE IndexOf(s, q) - 1
  <2>1. PICK m : m = IndexOf(s, q)
    OBVIOUS
  <2>2. PICK j : j = IF m < k THEN m ELSE m - 1
    OBVIOUS
  <2>3. m \in 0 .. Len(old) - 1 /\ old[m + 1] = q /\ q # p
    BY <1>1, <1>17, <2>1, IndexOfRegistered DEF Indexes, SourceAt
  <2>4. j \in 0 .. Len(new) - 1 /\ new[j + 1] = q
    <3>1. m # k
      BY <1>6, <2>3
    <3>2. CASE m < k
      BY <1>6, <1>7, <2>2, <2>3, <3>2
    <3>3. CASE m > k
      <4>1. j = m - 1 /\ m \in 1 .. Len(new) /\ m >= k + 1
        BY <1>6, <1>7, <2>2, <2>3, <3>3
      <4>2. new[m] = old[m + 1]
        BY <1>13, <4>1
      <4> QED BY <1>6, <1>7, <2>3, <4>1, <4>2
    <3> QED BY <1>6, <2>3, <3>1, <3>2, <3>3
  <2>5. j \in Indexes(t) /\ SourceAt(t, j) = q
    BY <1>10, <2>4 DEF Indexes, SourceAt
  <2>6. IndexOf(t, q) = j
    BY <1>10, <1>14, <2>5, IndexOfSourceAt
  <2> QED BY <2>1, <2>2, <2>6
<1>19. AnyPending(t) => AnyPending(s)
  <2>1. ASSUME NEW idx \in 0 .. Len(new) - 1, depth[new[idx + 1]] > 0
        PROVE  \E j \in 0 .. Len(old) - 1 : s.pending[old[j + 1]] > 0
    <3>1. idx + 1 \in 1 .. Len(new)
      BY <1>6, <1>7
    <3>2. PICK i \in 1 .. Len(old) : old[i] = new[idx + 1] /\ old[i] # p
      BY <1>15, <3>1
    <3>3. s.pending[old[i]] > 0
      BY <1>6, <1>8, <2>1, <3>2
    <3>4. i - 1 \in 0 .. Len(old) - 1 /\ (i - 1) + 1 = i
      BY <1>6
    <3> QED BY <3>3, <3>4
  <2> QED BY <1>1, <1>10, <2>1 DEF AnyPending, HasCommand, SourceAt, Indexes
<1> QED BY <1>3, <1>10, <1>11, <1>14, <1>17, <1>18, <1>19

(* mm_port_scheduler_notify_num_pending stores the number and arms the    *)
(* timer where that makes it necessary.                                   *)
LEMMA NotifyEffect ==
  ASSUME NEW s \in SchedulerType, NEW p \in Registered(s), p \in Sources, NEW n \in Nat,
         AnyPending(s) /\ ~s.inCommand => s.timer,
         NEW t, t = NotifyNumPending(s, p, n)
  PROVE  /\ t \in SchedulerType
         /\ t.sources = s.sources
         /\ t.pending = [s.pending EXCEPT ![p] = n]
         /\ t.cur = s.cur /\ t.inCommand = s.inCommand
         /\ t.timer => s.timer \/ ~s.inCommand
         /\ AnyPending(t) /\ ~t.inCommand => t.timer
<1>1. PICK depth : depth = [s.pending EXCEPT ![p] = n]
  OBVIOUS
<1>2. PICK r : r = [s EXCEPT !.pending = depth]
  OBVIOUS
<1>3. depth \in [Sources -> Nat]
  BY <1>1 DEF SchedulerType
<1>4. /\ r \in SchedulerType
      /\ r.sources = s.sources /\ r.pending = depth
      /\ r.cur = s.cur /\ r.inCommand = s.inCommand /\ r.timer = s.timer
  BY <1>2, <1>3, Zenon DEF SchedulerType
<1>5. CASE s.pending[p] # n
  <2>1. t = ScheduleNext(r)
    BY <1>1, <1>2, <1>5, Zenon DEF NotifyNumPending
  <2>2. /\ t \in SchedulerType
        /\ t.sources = r.sources /\ t.pending = r.pending
        /\ t.cur = r.cur /\ t.inCommand = r.inCommand
        /\ t.timer = (r.timer \/ (~r.inCommand /\ AnyPending(r)))
    BY <1>4, <2>1, ScheduleNextEffect
  <2>3. AnyPending(t) = AnyPending(r)
    BY <1>4, <2>2, Zenon DEF AnyPending, HasCommand, SourceAt, Indexes
  <2> QED BY <1>1, <1>4, <2>2, <2>3, Zenon
<1>6. CASE s.pending[p] = n
  <2>1. t = s
    BY <1>6, Zenon DEF NotifyNumPending
  <2>2. s.pending = [s.pending EXCEPT ![p] = n]
    BY <1>6 DEF SchedulerType
  <2> QED BY <2>1, <2>2, Zenon
<1> QED BY <1>5, <1>6

(* mm_port_scheduler_notify_command_done of the current source ends its   *)
(* turn and arms the timer if anybody has commands.                       *)
LEMMA DoneEffect ==
  ASSUME NEW s \in SchedulerType, NEW p \in Registered(s), p \in Sources,
         IndexOf(s, p) = s.cur, NEW n \in Nat,
         NEW t, t = NotifyCommandDone(s, p, n)
  PROVE  /\ t \in SchedulerType
         /\ t.sources = s.sources
         /\ t.pending = [s.pending EXCEPT ![p] = n]
         /\ t.cur = s.cur /\ ~t.inCommand
         /\ AnyPending(t) => t.timer
<1>1. PICK depth : depth = [s.pending EXCEPT ![p] = n]
  OBVIOUS
<1>2. PICK r : r = [s EXCEPT !.inCommand = FALSE, !.pending = depth]
  OBVIOUS
<1>3. depth \in [Sources -> Nat]
  BY <1>1 DEF SchedulerType
<1>4. /\ r \in SchedulerType
      /\ r.sources = s.sources /\ r.pending = depth
      /\ r.cur = s.cur /\ r.inCommand = FALSE /\ r.timer = s.timer
  BY <1>2, <1>3, Zenon DEF SchedulerType
<1>5. t = ScheduleNext(r)
  BY <1>1, <1>2, Zenon DEF NotifyCommandDone, IsCurrent
<1>6. /\ t \in SchedulerType
      /\ t.sources = s.sources /\ t.pending = depth
      /\ t.cur = s.cur /\ t.inCommand = FALSE
      /\ t.timer = (s.timer \/ (~r.inCommand /\ AnyPending(r)))
  BY <1>4, <1>5, ScheduleNextEffect, Zenon
<1>7. AnyPending(t) = AnyPending(r)
  BY <1>4, <1>6, Zenon DEF AnyPending, HasCommand, SourceAt, Indexes
<1> QED BY <1>1, <1>4, <1>6, <1>7, Zenon

(* run_next_command gives the turn to a source that has commands, and     *)
(* changes nothing but the timer if there is none.                        *)
LEMMA RunNextEffect ==
  ASSUME NEW s \in SchedulerType, NEW t, t = RunNext(s)
  PROVE  /\ t \in SchedulerType
         /\ t.sources = s.sources /\ t.pending = s.pending
         /\ t.timer = FALSE
         /\ AnyPending(s) => t.inCommand /\ t.cur \in Indexes(s) /\ HasCommand(s, t.cur)
         /\ ~AnyPending(s) => t.inCommand = s.inCommand /\ t.cur = s.cur
<1>1. CASE AnyPending(s)
  <2>1. PICK c : c = NextIndex(s)
    OBVIOUS
  <2>2. c \in Indexes(s) /\ HasCommand(s, c) /\ c \in Nat
    BY <1>1, <2>1, NextIndexPending DEF Indexes, SchedulerType
  <2>3. t = [s EXCEPT !.timer = FALSE, !.cur = c, !.inCommand = TRUE]
    BY <1>1, <2>1, Zenon DEF RunNext
  <2>4. /\ t \in SchedulerType
        /\ t.sources = s.sources /\ t.pending = s.pending
        /\ t.timer = FALSE /\ t.cur = c /\ t.inCommand = TRUE
    BY <2>2, <2>3, Zenon DEF SchedulerType
  <2> QED BY <1>1, <2>2, <2>4, Zenon
<1>2. CASE ~AnyPending(s)
  <2>1. t = [s EXCEPT !.timer = FALSE]
    BY <1>2, Zenon DEF RunNext
  <2> QED BY <1>2, <2>1, Zenon DEF SchedulerType
<1> QED BY <1>1, <1>2

(* Who is registered, and where, depends on the array only.                *)
LEMMA SameArray ==
  ASSUME NEW s, NEW t, t.sources = s.sources
  PROVE  /\ Registered(t) = Registered(s)
         /\ Distinct(t) = Distinct(s)
         /\ Indexes(t) = Indexes(s)
         /\ \A p : IndexOf(t, p) = IndexOf(s, p)
         /\ \A idx : SourceAt(t, idx) = SourceAt(s, idx)
BY Zenon DEF Registered, Distinct, Indexes, IndexOf, SourceAt

----------------------------------------------------------------------------
(* The inductive invariant.                                                *)

(* The inductive invariant holds in the initial state, with no source     *)
(* registered.                                                            *)
LEMMA InitIInv == Init => IInv
<1> SUFFICES ASSUME Init PROVE IInv
  OBVIOUS
<1>1. /\ sched.sources = <<>> /\ sched.pending = [p \in Sources |-> 0]
      /\ sched.cur = GMaxUint /\ sched.inCommand = FALSE /\ sched.timer = FALSE
  BY DEF Init, NewScheduler
<1>2. sched \in SchedulerType
  <2>1. <<>> \in Seq(Sources) /\ [p \in Sources |-> 0] \in [Sources -> Nat] /\ GMaxUint \in Nat
    BY SchedulerAssumption
  <2> QED BY <2>1, Zenon DEF Init, NewScheduler, SchedulerType
<1>3. TypeOK
  <2>1. queue \in [Sources -> 0 .. MaxPending]
    BY MaxPendingAssumption DEF Init
  <2>2. owes \in SUBSET Sources /\ dropped \in BOOLEAN /\ overtook \in [Sources -> SUBSET Sources]
    BY DEF Init
  <2> QED BY <1>2, <2>1, <2>2 DEF TypeOK
<1>4. Len(sched.sources) = 0 /\ Registered(sched) = {} /\ Indexes(sched) = {}
  BY <1>1 DEF Registered, Indexes
<1> QED
  BY <1>1, <1>3, <1>4
  DEF Init, IInv, Distinct, OneCommand, NoStall, PendingIsQueue, AnyPending

(* Registering a source keeps the inductive invariant.                    *)
LEMMA RegisterIInv ==
  ASSUME IInv, NEW p \in Sources, Register(p)
  PROVE  IInv'
<1>1. /\ sched \in SchedulerType /\ Distinct(sched) /\ p \notin Registered(sched)
      /\ sched' = RegisterSource(sched, p)
      /\ UNCHANGED <<queue, owes, dropped, overtook>>
  BY DEF IInv, TypeOK, Register
<1>2. /\ sched' \in SchedulerType
      /\ Distinct(sched')
      /\ Registered(sched') = Registered(sched) \union {p}
      /\ \A q \in Registered(sched) : IndexOf(sched', q) = IndexOf(sched, q)
      /\ sched'.pending = [sched.pending EXCEPT ![p] = 0]
      /\ sched'.cur = sched.cur /\ sched'.inCommand = sched.inCommand
      /\ sched'.timer = sched.timer
      /\ AnyPending(sched') => AnyPending(sched)
  BY <1>1, RegisterEffect
<1>3. TypeOK'
  BY <1>1, <1>2 DEF IInv, TypeOK
<1>4. NoStall'
  BY <1>1, <1>2 DEF IInv, NoStall, IsCurrent
<1>5. PendingIsQueue'
  BY <1>1, <1>2 DEF IInv, PendingIsQueue, SchedulerType, TypeOK
<1>6. \A q \in Sources \ Registered(sched') : queue'[q] = 0
  BY <1>1, <1>2 DEF IInv
<1>7. dropped' => sched'.inCommand /\ \A q \in owes' : IndexOf(sched', q) < sched'.cur
  BY <1>1, <1>2 DEF IInv
<1> QED
  BY <1>1, <1>2, <1>3, <1>4, <1>5, <1>6, <1>7 DEF IInv, OneCommand

(* A source that tells the new length of its queue keeps the inductive    *)
(* invariant.                                                             *)
LEMMA NotifyIInv ==
  ASSUME IInv, NEW p \in Sources, p \in Registered(sched), NEW n \in 0 .. MaxPending,
         sched' = NotifyNumPending(sched, p, n),
         queue' = [queue EXCEPT ![p] = n],
         UNCHANGED <<owes, dropped>>, overtook' \in [Sources -> SUBSET Sources]
  PROVE  IInv'
<1>1. sched \in SchedulerType /\ n \in Nat /\ (AnyPending(sched) /\ ~sched.inCommand => sched.timer)
  BY MaxPendingAssumption DEF IInv, TypeOK
<1>2. /\ sched' \in SchedulerType
      /\ sched'.sources = sched.sources
      /\ sched'.pending = [sched.pending EXCEPT ![p] = n]
      /\ sched'.cur = sched.cur /\ sched'.inCommand = sched.inCommand
      /\ sched'.timer => sched.timer \/ ~sched.inCommand
      /\ AnyPending(sched') /\ ~sched'.inCommand => sched'.timer
  BY <1>1, NotifyEffect
<1>3. /\ Registered(sched') = Registered(sched)
      /\ Distinct(sched') = Distinct(sched)
      /\ \A q : IndexOf(sched', q) = IndexOf(sched, q)
  BY <1>2, SameArray
<1>4. TypeOK'
  BY <1>2 DEF IInv, TypeOK
<1>5. NoStall'
  BY <1>2, <1>3, Zenon DEF IInv, NoStall, IsCurrent
<1>6. PendingIsQueue'
  BY <1>2 DEF IInv, PendingIsQueue, SchedulerType, TypeOK
<1>7. \A q \in Sources \ Registered(sched') : queue'[q] = 0
  BY <1>3 DEF IInv, TypeOK
<1>8. dropped' => sched'.inCommand /\ \A q \in owes' : IndexOf(sched', q) < sched'.cur
  BY <1>2, <1>3 DEF IInv
<1> QED
  BY <1>2, <1>3, <1>4, <1>5, <1>6, <1>7, <1>8 DEF IInv, OneCommand

(* Queueing a command keeps the inductive invariant.                      *)
LEMMA SubmitIInv ==
  ASSUME IInv, NEW p \in Sources, Submit(p)
  PROVE  IInv'
<1>1. queue[p] + 1 \in 0 .. MaxPending /\ queue' = [queue EXCEPT ![p] = queue[p] + 1]
  BY MaxPendingAssumption DEF IInv, TypeOK, Submit
<1>2. overtook' \in [Sources -> SUBSET Sources]
  BY DEF IInv, TypeOK, Submit
<1> QED BY <1>1, <1>2, NotifyIInv DEF Submit

(* Dropping a queued command keeps the inductive invariant.               *)
LEMMA CancelIInv ==
  ASSUME IInv, NEW p \in Sources, Cancel(p)
  PROVE  IInv'
<1>1. 0 \in 0 .. MaxPending /\ queue' = [queue EXCEPT ![p] = 0]
  BY MaxPendingAssumption DEF Cancel
<1>2. overtook' \in [Sources -> SUBSET Sources]
  BY DEF IInv, TypeOK, Cancel
<1> QED BY <1>1, <1>2, NotifyIInv DEF Cancel

(* The timer only fires between two commands; the source it chooses is      *)
(* then the one that owes the notification.                                 *)
LEMMA TimerIInv ==
  ASSUME IInv, TimerFires
  PROVE  IInv'
<1>1. /\ sched \in SchedulerType /\ Distinct(sched)
      /\ ~sched.inCommand /\ ~dropped /\ owes = {}
      /\ sched' = RunNext(sched)
      /\ UNCHANGED <<queue, dropped>>
  BY DEF IInv, TypeOK, TimerFires
<1>2. /\ sched' \in SchedulerType
      /\ sched'.sources = sched.sources /\ sched'.pending = sched.pending
      /\ sched'.timer = FALSE
      /\ AnyPending(sched) => /\ sched'.inCommand
                              /\ sched'.cur \in Indexes(sched)
                              /\ HasCommand(sched, sched'.cur)
      /\ ~AnyPending(sched) => sched'.inCommand = sched.inCommand /\ sched'.cur = sched.cur
  BY <1>1, RunNextEffect
<1>3. /\ Registered(sched') = Registered(sched)
      /\ Distinct(sched') = Distinct(sched)
      /\ Indexes(sched') = Indexes(sched)
  BY <1>2, SameArray
<1>4. PendingIsQueue' /\ \A q \in Sources \ Registered(sched') : queue'[q] = 0
  BY <1>1, <1>2, <1>3 DEF IInv, PendingIsQueue
<1>5. AnyPending(sched') = AnyPending(sched)
  BY <1>2, Zenon DEF AnyPending, HasCommand, SourceAt, Indexes
<1>6. CASE AnyPending(sched)
  <2>1. PICK q : q = SourceAt(sched', sched'.cur)
    OBVIOUS
  <2>2. q \in Registered(sched') /\ q \in Sources /\ IndexOf(sched', q) = sched'.cur
    BY <1>1, <1>2, <1>3, <1>6, <2>1, IndexOfSourceAt
  <2>3. owes' = {q}
    BY <1>1, <1>6, <2>1 DEF TimerFires
  <2>4. overtook' \in [Sources -> SUBSET Sources]
    BY <1>6, <2>1, <2>2 DEF TimerFires, IInv, TypeOK
  <2>5. TypeOK'
    BY <1>1, <1>2, <2>2, <2>3, <2>4 DEF IInv, TypeOK
  <2>6. NoStall' /\ OneCommand'
    BY <2>2, <2>3 DEF NoStall, OneCommand, IsCurrent
  <2> QED
    BY <1>1, <1>2, <1>3, <1>4, <1>6, <2>2, <2>3, <2>5, <2>6 DEF IInv
<1>7. CASE ~AnyPending(sched)
  <2>1. UNCHANGED <<owes, overtook>>
    BY <1>7 DEF TimerFires
  <2>2. TypeOK'
    BY <1>1, <1>2, <2>1 DEF IInv, TypeOK
  <2>3. NoStall' /\ OneCommand'
    BY <1>1, <1>2, <1>7, <2>1 DEF NoStall, OneCommand
  <2> QED
    BY <1>1, <1>2, <1>3, <1>4, <1>5, <1>7, <2>1, <2>2, <2>3 DEF IInv
<1> QED BY <1>6, <1>7

(* A source that finishes either is the current one, and the turn passes    *)
(* on, or its index was shifted away, and nothing but its queue changes.    *)
LEMMA FinishIInv ==
  ASSUME IInv, NEW p \in Sources, Finish(p)
  PROVE  IInv'
<1>1. /\ sched \in SchedulerType /\ Distinct(sched) /\ p \in Registered(sched)
      /\ owes = {p} /\ owes' = {}
      /\ sched.inCommand
      /\ queue[p] - 1 \in 0 .. MaxPending /\ queue[p] - 1 \in Nat
      /\ queue' = [queue EXCEPT ![p] = queue[p] - 1]
      /\ sched' = NotifyCommandDone(sched, p, queue[p] - 1)
      /\ UNCHANGED dropped
  BY MaxPendingAssumption DEF IInv, TypeOK, OneCommand, Finish
<1>2. queue' \in [Sources -> 0 .. MaxPending] /\ overtook' \in [Sources -> SUBSET Sources]
  BY <1>1 DEF IInv, TypeOK, Finish
<1>3. CASE IsCurrent(sched, p)
  <2>1. ~dropped
    BY <1>1, <1>3 DEF IInv, IsCurrent, SchedulerType
  <2>2. /\ sched' \in SchedulerType
        /\ sched'.sources = sched.sources
        /\ sched'.pending = [sched.pending EXCEPT ![p] = queue[p] - 1]
        /\ ~sched'.inCommand
        /\ AnyPending(sched') => sched'.timer
    <3>1. PICK n : n = queue[p] - 1
      OBVIOUS
    <3>2. n \in Nat /\ sched' = NotifyCommandDone(sched, p, n)
      BY <1>1, <3>1
    <3>3. IndexOf(sched, p) = sched.cur
      BY <1>3 DEF IsCurrent
    <3> QED BY <1>1, <3>1, <3>2, <3>3, DoneEffect
  <2>3. Registered(sched') = Registered(sched) /\ Distinct(sched') = Distinct(sched)
    BY <2>2, SameArray
  <2>4. TypeOK'
    BY <1>1, <1>2, <2>2 DEF IInv, TypeOK
  <2>5. PendingIsQueue'
    BY <1>1, <2>1, <2>2 DEF IInv, PendingIsQueue, SchedulerType, TypeOK
  <2>6. \A q \in Sources \ Registered(sched') : queue'[q] = 0
    BY <1>1, <2>3 DEF IInv, TypeOK
  <2> QED
    BY <1>1, <2>1, <2>2, <2>3, <2>4, <2>5, <2>6 DEF IInv, OneCommand, NoStall
<1>4. CASE ~IsCurrent(sched, p)
  <2>1. sched' = sched
    BY <1>1, <1>4, Zenon DEF NotifyCommandDone
  <2>2. dropped
    BY <1>1, <1>4 DEF IInv, NoStall
  <2>3. TypeOK'
    BY <1>1, <1>2, <2>1 DEF IInv, TypeOK
  <2>4. \A q \in Sources \ Registered(sched') : queue'[q] = 0
    BY <1>1, <2>1 DEF IInv, TypeOK
  <2> QED
    BY <1>1, <2>1, <2>2, <2>3, <2>4 DEF IInv, OneCommand, NoStall, PendingIsQueue
<1> QED BY <1>3, <1>4

(* Disposing a source keeps the inductive invariant; at the current       *)
(* source the stall is recorded in dropped.                               *)
LEMMA UnregisterIInv ==
  ASSUME IInv, NEW p \in Sources, Unregister(p)
  PROVE  IInv'
<1>1. PICK k : k = IndexOf(sched, p)
  OBVIOUS
<1>2. /\ sched \in SchedulerType /\ Distinct(sched) /\ p \in Registered(sched)
      /\ sched' = UnregisterSource(sched, p)
      /\ queue' = [queue EXCEPT ![p] = 0]
      /\ owes' = owes \ {p}
      /\ dropped' = (dropped \/ (sched.inCommand /\ k <= sched.cur))
  BY <1>1 DEF IInv, TypeOK, Unregister
<1>3. /\ sched' \in SchedulerType
      /\ Distinct(sched')
      /\ Registered(sched') = Registered(sched) \ {p}
      /\ \A q \in Registered(sched') :
           IndexOf(sched', q) = IF IndexOf(sched, q) < k THEN IndexOf(sched, q)
                                                         ELSE IndexOf(sched, q) - 1
      /\ sched'.pending = [sched.pending EXCEPT ![p] = 0]
      /\ sched'.cur = sched.cur /\ sched'.inCommand = sched.inCommand
      /\ sched.timer => sched'.timer
      /\ sched.inCommand => sched'.timer = sched.timer
      /\ AnyPending(sched') => AnyPending(sched)
  BY <1>1, <1>2, UnregisterEffect
<1>4. /\ k \in Nat /\ sched.cur \in Nat
      /\ \A q \in Registered(sched) : IndexOf(sched, q) \in Nat /\ (IndexOf(sched, q) = k => q = p)
  <2>1. \A q \in Registered(sched) : /\ IndexOf(sched, q) \in Indexes(sched)
                                    /\ SourceAt(sched, IndexOf(sched, q)) = q
    BY <1>2, IndexOfRegistered
  <2> QED BY <1>1, <1>2, <2>1 DEF Indexes, SchedulerType
<1>5. TypeOK'
  <2>1. queue' \in [Sources -> 0 .. MaxPending]
    BY <1>2, MaxPendingAssumption DEF IInv, TypeOK
  <2>2. overtook' \in [Sources -> SUBSET Sources] /\ dropped' \in BOOLEAN
    BY <1>2 DEF Unregister
  <2> QED BY <1>2, <1>3, <2>1, <2>2 DEF IInv, TypeOK
<1>6. owes' \subseteq Registered(sched') /\ OneCommand'
  BY <1>2, <1>3 DEF IInv, OneCommand
<1>7. PendingIsQueue'
  BY <1>2, <1>3 DEF IInv, PendingIsQueue, SchedulerType, TypeOK
<1>8. \A q \in Sources \ Registered(sched') : queue'[q] = 0
  BY <1>2, <1>3 DEF IInv, TypeOK
<1>9. NoStall'
  <2>1. SUFFICES ASSUME sched'.inCommand, ~dropped'
                 PROVE  \E q \in owes' : IsCurrent(sched', q)
    BY DEF NoStall
  <2>2. PICK q \in owes : q \in Registered(sched) /\ IndexOf(sched, q) = sched.cur
    BY <1>2, <1>3, <2>1 DEF IInv, NoStall, IsCurrent
  <2>3. sched.cur < k /\ q # p
    <3>1. ~(k <= sched.cur)
      BY <1>2, <1>3, <2>1, Zenon
    <3> QED BY <1>1, <1>4, <2>2, <3>1
  <2> QED BY <1>2, <1>3, <2>2, <2>3 DEF IsCurrent
<1>10. dropped' => sched'.inCommand /\ \A q \in owes' : IndexOf(sched', q) < sched'.cur
  <2>1. SUFFICES ASSUME dropped'
                 PROVE  sched'.inCommand /\ \A q \in owes' : IndexOf(sched', q) < sched'.cur
    OBVIOUS
  <2>2. sched'.inCommand
    BY <1>2, <1>3, <2>1 DEF IInv
  <2>3. ASSUME NEW q \in owes' PROVE IndexOf(sched', q) < sched'.cur
    <3>1. q \in Registered(sched) /\ q \in Registered(sched') /\ q # p /\ q \in owes
      BY <1>2, <1>3 DEF IInv
    <3>2. CASE dropped
      BY <1>3, <1>4, <3>1, <3>2 DEF IInv
    <3>3. CASE ~dropped /\ k <= sched.cur
      <4>1. IndexOf(sched, q) = sched.cur
        BY <1>3, <2>2, <3>1, <3>3 DEF IInv, NoStall, IsCurrent, OneCommand
      <4> QED BY <1>3, <1>4, <3>1, <3>3, <4>1
    <3> QED BY <1>2, <2>1, <3>2, <3>3
  <2> QED BY <2>2, <2>3
<1> QED
  BY <1>2, <1>3, <1>5, <1>6, <1>7, <1>8, <1>9, <1>10 DEF IInv

(* A step that changes nothing keeps the inductive invariant.             *)
LEMMA StutterIInv ==
  ASSUME IInv, UNCHANGED vars
  PROVE  IInv'
BY DEF vars, IInv, TypeOK, OneCommand, NoStall, PendingIsQueue

(* Every step of the sources and the scheduler keeps the inductive        *)
(* invariant.                                                             *)
LEMMA NextIInv == IInv /\ [Next]_vars => IInv'
BY RegisterIInv, SubmitIInv, CancelIInv, TimerIInv, FinishIInv, UnregisterIInv, StutterIInv
DEF Next

----------------------------------------------------------------------------
(* The inductive invariant holds in every reachable state of the          *)
(* scheduler and its sources.                                             *)
THEOREM Invariance == Spec => []IInv
BY InitIInv, NextIInv, PTL DEF Spec

(* The variables keep their types.                                         *)
THEOREM SpecTypeOK == Spec => []TypeOK
<1>1. IInv => TypeOK
  BY DEF IInv
<1> QED BY <1>1, Invariance, PTL

(* Two sources never have a command on the wire at the same time.          *)
THEOREM SpecOneCommand == Spec => []OneCommand
<1>1. IInv => OneCommand
  BY DEF IInv
<1> QED BY <1>1, Invariance, PTL

(* The scheduler waits for nobody but the current source, unless an index   *)
(* at or before the running source was unregistered.                        *)
THEOREM SpecNoStall == Spec => []NoStall
<1>1. IInv => NoStall
  BY DEF IInv
<1> QED BY <1>1, Invariance, PTL

(* The scheduler's idea of every queue depth is right.                      *)
THEOREM SpecPendingIsQueue == Spec => []PendingIsQueue
<1>1. IInv => PendingIsQueue
  BY DEF IInv
<1> QED BY <1>1, Invariance, PTL

(* A registered source with queued commands has a nonzero num_pending in  *)
(* the scheduler.                                                         *)
LEMMA PendingWhenQueued ==
  ASSUME IInv, ~sched.inCommand, NEW p \in Sources, queue[p] > 0
  PROVE  AnyPending(sched)
<1>1. sched \in SchedulerType /\ p \in Registered(sched) /\ sched.pending[p] > 0
  BY DEF IInv, TypeOK, PendingIsQueue
<1>2. IndexOf(sched, p) \in Indexes(sched) /\ SourceAt(sched, IndexOf(sched, p)) = p
  BY <1>1, IndexOfRegistered
<1> QED BY <1>1, <1>2 DEF AnyPending, HasCommand

(* Whenever a queue is not empty and nothing runs, the timer is armed.      *)
THEOREM SpecWakeupArmed == Spec => []WakeupArmed
<1>1. IInv => WakeupArmed
  BY PendingWhenQueued DEF WakeupArmed, Waiting, IInv
<1> QED BY <1>1, Invariance, PTL

----------------------------------------------------------------------------
(* Every step of the scheduler is a step of the abstract turn taking.      *)

(* The initial state is an initial state of the abstract turn taking.     *)
LEMMA TokenInit == Init => Token!Init
BY DEF Init, Token!Init

(* A send timer that fires is a grant of the abstract turn, or changes    *)
(* nothing the abstract specification sees.                               *)
LEMMA TimerToken ==
  ASSUME IInv, TimerFires
  PROVE  Token!Next \/ UNCHANGED <<{p \in Sources : queue[p] > 0}, owes>>
<1>1. sched \in SchedulerType /\ Distinct(sched) /\ ~dropped /\ owes = {}
  BY DEF IInv, TypeOK, TimerFires
<1>2. CASE AnyPending(sched)
  <2>1. /\ sched'.sources = sched.sources
        /\ sched'.cur \in Indexes(sched) /\ HasCommand(sched, sched'.cur)
    BY <1>1, <1>2, RunNextEffect DEF TimerFires
  <2>2. PICK q : q = SourceAt(sched, sched'.cur)
    OBVIOUS
  <2>3. SourceAt(sched', sched'.cur) = q
    BY <2>1, <2>2, Zenon DEF SourceAt
  <2>4. q \in Sources /\ sched.pending[q] > 0
    BY <1>1, <2>1, <2>2, IndexOfSourceAt DEF HasCommand
  <2>5. queue[q] > 0
    BY <1>1, <2>4 DEF IInv, PendingIsQueue
  <2>6. owes' = {q} /\ UNCHANGED queue
    BY <1>1, <1>2, <2>3 DEF TimerFires
  <2> QED BY <1>1, <2>4, <2>5, <2>6 DEF Token!Next, Token!Grant
<1>3. CASE ~AnyPending(sched)
  BY <1>3 DEF TimerFires
<1> QED BY <1>2, <1>3

(* Every step maps to a step of the abstract turn taking or to a stutter. *)
LEMMA TokenStep ==
  IInv /\ [Next]_vars => [Token!Next]_<<{p \in Sources : queue[p] > 0}, owes>>
<1> SUFFICES ASSUME IInv, [Next]_vars
             PROVE  [Token!Next]_<<{p \in Sources : queue[p] > 0}, owes>>
  OBVIOUS
<1> DEFINE waiting == {p \in Sources : queue[p] > 0}
<1>0. queue \in [Sources -> 0 .. MaxPending] /\ MaxPending \in Nat
  BY MaxPendingAssumption DEF IInv, TypeOK
<1>1. ASSUME NEW p \in Sources, Register(p) PROVE UNCHANGED <<waiting, owes>>
  BY <1>1 DEF Register
<1>2. ASSUME NEW p \in Sources, Submit(p) PROVE Token!Enqueue(p)
  BY <1>0, <1>2 DEF Submit, Token!Enqueue
<1>3. ASSUME NEW p \in Sources, Cancel(p) PROVE Token!Withdraw(p)
  BY <1>0, <1>3 DEF Cancel, Waiting, Token!Withdraw
<1>4. ASSUME NEW p \in Sources, Finish(p) PROVE Token!Release(p)
  BY <1>0, <1>4 DEF Finish, Token!Release
<1>5. ASSUME NEW p \in Sources, Unregister(p) PROVE Token!Release(p) \/ Token!Withdraw(p)
  BY <1>0, <1>5 DEF Unregister, Token!Release, Token!Withdraw
<1>6. CASE UNCHANGED vars
  BY <1>6 DEF vars
<1> QED
  BY <1>1, <1>2, <1>3, <1>4, <1>5, <1>6, TimerToken DEF Next, Token!Next

(* The port scheduler implements turn taking: one holder at a time, always  *)
(* a source that has something to send.                                     *)
THEOREM SpecImplementsToken == Spec => TokenSpec
BY TokenInit, TokenStep, Invariance, PTL DEF Spec, TokenSpec, Token!Spec

----------------------------------------------------------------------------
(* The round.                                                              *)

(* With cur_source at c the walk of find_next_source visits the index i      *)
(* before the index j.                                                      *)
Precedes(c, i, j) == IF (i > c) = (j > c) THEN i < j ELSE i > c

(* Whoever had the turn while p waits comes after p in the round.            *)
RoundOK ==
  \A p \in Sources : Waiting(p) =>
    \A q \in overtook[p] :
      /\ p \in Registered(sched) /\ q \in Registered(sched)
      /\ Precedes(sched.cur, IndexOf(sched, p), IndexOf(sched, q))

(* The array has no place for as many sources as the counter can count.      *)
LEMMA ShortArray ==
  ASSUME NEW s \in SchedulerType, Distinct(s)
  PROVE  Len(s.sources) < GMaxUint
<1>1. s.sources \in Seq(Sources) /\ Len(s.sources) \in Nat BY DEF SchedulerType
<1>2. PICK n : n = Len(s.sources) OBVIOUS
<1>3. s.sources \in Injection(1 .. n, Sources)
  <2>1. PICK f : f = s.sources OBVIOUS
  <2>2. f \in [1 .. n -> Sources] BY <1>1, <1>2, <2>1
  <2>3. \A i, j \in 1 .. n : f[i] = f[j] => i = j BY <1>2, <2>1, Zenon DEF Distinct
  <2>4. IsInjective(f) BY <2>2, <2>3 DEF IsInjective
  <2> QED BY <2>1, <2>2, <2>4, Zenon DEF Injection
<1>4. IsFiniteSet(1 .. n) /\ Cardinality(1 .. n) = n
  <2>1. n \in Nat BY <1>1, <1>2
  <2> QED BY ONLY <2>1, FS_Interval
<1>5. Cardinality(1 .. n) <= Cardinality(Sources)
  BY <1>3, <1>4, SchedulerAssumption, FS_Injection DEF ExistsInjection
<1>6. Cardinality(Sources) \in Nat BY SchedulerAssumption, FS_CardinalityType
<1> QED BY <1>1, <1>2, <1>4, <1>5, <1>6, SchedulerAssumption

(* The walk visits the indexes in the order of the round.                    *)
LEMMA WalkInOrder ==
  ASSUME NEW s \in SchedulerType, Distinct(s), NEW i \in Indexes(s), NEW j \in Indexes(s), i < j
  PROVE  Precedes(s.cur, Visited(s, i), Visited(s, j))
<1>1. Len(s.sources) \in Nat /\ s.cur \in Nat /\ GMaxUint \in Nat
  BY SchedulerAssumption DEF SchedulerType
<1>2. Len(s.sources) < GMaxUint BY ShortArray
<1>3. PICK f, n, c : f = FirstVisited(s) /\ n = Len(s.sources) /\ c = s.cur OBVIOUS
<1>4. f = IF c + 1 >= n THEN 0 ELSE c + 1
  BY <1>1, <1>2, <1>3 DEF FirstVisited
<1>5. i \in 0 .. n - 1 /\ j \in 0 .. n - 1 BY <1>3 DEF Indexes
<1>6. PICK v, w : v = Visited(s, i) /\ w = Visited(s, j) OBVIOUS
<1>7. /\ v = IF f + i < n THEN f + i ELSE f + i - n
      /\ w = IF f + j < n THEN f + j ELSE f + j - n
  BY <1>3, <1>6 DEF Visited
<1>8. Precedes(c, v, w)
  <2>1. c \in Nat /\ n \in Nat /\ i \in Nat /\ j \in Nat /\ i < j /\ j < n BY <1>1, <1>3, <1>5
  <2>2. CASE c + 1 >= n
    <3>1. v = i /\ w = j BY ONLY <1>4, <1>7, <2>1, <2>2
    <3> QED BY ONLY <2>1, <2>2, <3>1 DEF Precedes
  <2>3. CASE c + 1 < n
    <3>1. f = c + 1 BY ONLY <1>4, <2>1, <2>3
    <3>2. CASE f + i < n /\ f + j < n BY ONLY <1>7, <2>1, <3>1, <3>2 DEF Precedes
    <3>3. CASE f + i < n /\ f + j >= n BY ONLY <1>7, <2>1, <3>1, <3>3 DEF Precedes
    <3>4. CASE f + i >= n BY ONLY <1>7, <2>1, <3>1, <3>4 DEF Precedes
    <3> QED BY ONLY <2>1, <3>1, <3>2, <3>3, <3>4
  <2> QED BY ONLY <2>1, <2>2, <2>3
<1> QED BY <1>3, <1>6, <1>8

(* find_next_source takes the first source of the round that has a command.  *)
LEMMA NextIsFirst ==
  ASSUME NEW s \in SchedulerType, Distinct(s), NEW idx \in Indexes(s), HasCommand(s, idx),
         idx # NextIndex(s)
  PROVE  Precedes(s.cur, NextIndex(s), idx)
<1>1. PICK j \in Indexes(s) : Visited(s, j) = idx BY EveryIndexVisited
<1>2. Len(s.sources) \in Nat BY DEF SchedulerType
<1> DEFINE T == {i \in Indexes(s) : HasCommand(s, Visited(s, i))}
<1>3. T # {} /\ T \in SUBSET Nat BY <1>1, <1>2 DEF Indexes
<1>4. PICK m \in T : \A i \in T : ~(i < m) BY <1>3, LeastElement
<1>5. IsNext(s, m) BY <1>2, <1>4 DEF IsNext, Indexes
<1>6. PICK i \in Indexes(s) : IsNext(s, i) /\ NextIndex(s) = Visited(s, i)
  BY <1>4, <1>5, Zenon DEF NextIndex
<1>7. i < j
  <2>1. i # j BY <1>1, <1>6
  <2>2. ~(j < i) BY <1>1, <1>2, <1>6 DEF IsNext, Indexes
  <2> QED BY <1>2, <2>1, <2>2 DEF Indexes
<1> QED BY <1>1, <1>6, <1>7, WalkInOrder

(* When the turn goes to the source at n, the first of the round, what came  *)
(* after p still does, and now the source at n does as well.                *)
LEMMA NextRound ==
  ASSUME NEW c \in Nat, NEW n \in Nat, NEW i \in Nat, i # n
  PROVE  /\ Precedes(n, i, n)
         /\ Precedes(c, n, i) => ~Precedes(c, i, n)
         /\ \A j \in Nat : Precedes(c, n, i) /\ Precedes(c, i, j) => Precedes(n, i, j)
BY DEF Precedes

(* The chosen source precedes every other that waits.                        *)
LEMMA TimerChooses ==
  ASSUME IInv, TimerFires, AnyPending(sched), NEW q, q = SourceAt(sched', sched'.cur)
  PROVE  /\ q \in Registered(sched) /\ sched'.sources = sched.sources
         /\ sched'.cur = IndexOf(sched, q)
         /\ \A p \in Sources \ {q} : Waiting(p) =>
              p \in Registered(sched) /\ Precedes(sched.cur, sched'.cur, IndexOf(sched, p))
<1>1. /\ sched \in SchedulerType /\ Distinct(sched) /\ ~dropped /\ owes = {}
      /\ sched' = RunNext(sched)
  BY DEF IInv, TypeOK, TimerFires
<1>2. PICK n : n = NextIndex(sched) OBVIOUS
<1>3. n \in Indexes(sched) /\ n \in Nat BY <1>1, <1>2, NextIndexPending DEF Indexes, SchedulerType
<1>4. sched' = [sched EXCEPT !.timer = FALSE, !.cur = n, !.inCommand = TRUE]
  BY <1>1, <1>2, Zenon DEF RunNext
<1>5. sched'.sources = sched.sources /\ sched'.cur = n
  BY <1>1, <1>4 DEF SchedulerType
<1>6. q = SourceAt(sched, n) BY <1>5, Zenon DEF SourceAt
<1>7. q \in Registered(sched) /\ IndexOf(sched, q) = n
  BY <1>1, <1>3, <1>6, IndexOfSourceAt
<1>8. ASSUME NEW p \in Sources \ {q}, Waiting(p)
      PROVE  p \in Registered(sched) /\ Precedes(sched.cur, n, IndexOf(sched, p))
  <2>1. p \in Registered(sched) /\ queue[p] > 0 /\ sched.pending[p] = queue[p]
    <3>1. queue[p] \in Nat BY MaxPendingAssumption DEF IInv, TypeOK
    <3> QED BY <1>1, <1>8, <3>1 DEF Waiting, IInv, PendingIsQueue
  <2>2. PICK i : i = IndexOf(sched, p) OBVIOUS
  <2>3. i \in Indexes(sched) /\ SourceAt(sched, i) = p BY <1>1, <2>1, <2>2, IndexOfRegistered
  <2>4. HasCommand(sched, i) BY <2>1, <2>3 DEF HasCommand
  <2>5. i # n BY <1>6, <2>3, <1>8
  <2> QED BY <1>1, <1>2, <2>1, <2>2, <2>3, <2>4, <2>5, NextIsFirst
<1> QED BY <1>5, <1>7, <1>8

(* Nothing but a command that fires, a new registration or a removal touches *)
(* the round: the array and cur_source stay, waiting sources may stop, and   *)
(* who starts to wait starts with nobody that overtook it.                  *)
LEMMA SameRound ==
  ASSUME RoundOK, sched'.sources = sched.sources, sched'.cur = sched.cur,
         \A p \in Sources : Waiting(p)' => (Waiting(p) /\ overtook'[p] = overtook[p]) \/ overtook'[p] = {}
  PROVE  RoundOK'
<1>1. /\ Registered(sched') = Registered(sched)
      /\ \A q : IndexOf(sched', q) = IndexOf(sched, q)
  BY SameArray
<1>2. ASSUME NEW p \in Sources, Waiting(p)', NEW q \in overtook'[p]
      PROVE  /\ p \in Registered(sched') /\ q \in Registered(sched')
             /\ Precedes(sched'.cur, IndexOf(sched', p), IndexOf(sched', q))
  <2>1. Waiting(p) /\ q \in overtook[p] BY <1>2
  <2>2. /\ p \in Registered(sched) /\ q \in Registered(sched)
        /\ Precedes(sched.cur, IndexOf(sched, p), IndexOf(sched, q))
    BY <2>1 DEF RoundOK
  <2>3. IndexOf(sched', p) = IndexOf(sched, p) /\ IndexOf(sched', q) = IndexOf(sched, q) BY <1>1
  <2> QED BY <1>1, <2>2, <2>3
<1> QED BY <1>2 DEF RoundOK

(* A grant keeps the round in order.                                         *)
LEMMA TimerRound ==
  ASSUME IInv, RoundOK, TimerFires
  PROVE  RoundOK'
<1>1. CASE AnyPending(sched)
  <2>1. PICK q : q = SourceAt(sched', sched'.cur) OBVIOUS
  <2>2. /\ q \in Registered(sched) /\ sched'.sources = sched.sources
        /\ sched'.cur = IndexOf(sched, q)
        /\ \A p \in Sources \ {q} : Waiting(p) =>
             p \in Registered(sched) /\ Precedes(sched.cur, sched'.cur, IndexOf(sched, p))
    BY <1>1, <2>1, TimerChooses
  <2>3. /\ owes = {} /\ owes' = {q} /\ queue' = queue
        /\ overtook' = [p \in Sources |-> IF p = q THEN {} ELSE overtook[p] \union {q}]
    BY <1>1, <2>1 DEF TimerFires, IInv
  <2>4. /\ Registered(sched') = Registered(sched)
        /\ \A r : IndexOf(sched', r) = IndexOf(sched, r)
    BY <2>2, SameArray
  <2>5. /\ sched \in SchedulerType /\ sched.cur \in Nat
        /\ \A r \in Registered(sched) : /\ IndexOf(sched, r) \in Nat
                                       /\ SourceAt(sched, IndexOf(sched, r)) = r
    <3>1. sched \in SchedulerType BY DEF IInv, TypeOK
    <3>2. Len(sched.sources) \in Nat /\ sched.cur \in Nat BY <3>1 DEF SchedulerType
    <3> QED BY <3>1, <3>2, IndexOfRegistered DEF Indexes
  <2>6. ASSUME NEW p \in Sources, Waiting(p)', NEW r \in overtook'[p]
        PROVE  /\ p \in Registered(sched') /\ r \in Registered(sched')
               /\ Precedes(sched'.cur, IndexOf(sched', p), IndexOf(sched', r))
    <3>1. p # q /\ Waiting(p) /\ r \in overtook[p] \union {q} BY <2>3, <2>6 DEF Waiting
    <3>2. PICK c, n, i, j : /\ c = sched.cur /\ n = sched'.cur
                            /\ i = IndexOf(sched, p) /\ j = IndexOf(sched, r)
      OBVIOUS
    <3>3. p \in Registered(sched) /\ Precedes(c, n, i) BY <2>2, <3>1, <3>2
    <3>4. c \in Nat /\ n \in Nat /\ i \in Nat BY <2>2, <2>5, <3>2, <3>3
    <3>5. i # n BY <2>2, <2>5, <3>1, <3>2, <3>3
    <3>6. CASE r = q
      <4>1. j = n BY <2>2, <3>2, <3>6
      <4>2. Precedes(n, i, n) BY <3>4, <3>5, NextRound
      <4> QED BY <2>2, <2>4, <3>2, <3>3, <3>6, <4>1, <4>2
    <3>7. CASE r \in overtook[p]
      <4>1. r \in Registered(sched) /\ Precedes(c, i, j) BY <3>1, <3>2, <3>7 DEF RoundOK
      <4>2. j \in Nat BY <2>5, <3>2, <4>1
      <4>3. Precedes(n, i, j) BY <3>3, <3>4, <3>5, <4>1, <4>2, NextRound
      <4> QED BY <2>4, <3>2, <3>3, <4>1, <4>3
    <3> QED BY <3>1, <3>6, <3>7
  <2> QED BY <2>6 DEF RoundOK
<1>2. CASE ~AnyPending(sched)
  <2>1. sched \in SchedulerType /\ sched' = RunNext(sched) /\ UNCHANGED <<queue, owes, overtook>>
    BY <1>2 DEF IInv, TypeOK, TimerFires
  <2>2. sched'.sources = sched.sources /\ sched'.cur = sched.cur
    BY <1>2, <2>1, RunNextEffect
  <2> QED BY <2>1, <2>2, SameRound DEF Waiting
<1> QED BY <1>1, <1>2

(* Every other step keeps it, too.                                           *)
LEMMA NextRoundOK == IInv /\ RoundOK /\ [Next]_vars => RoundOK'
<1> SUFFICES ASSUME IInv, RoundOK, [Next]_vars PROVE RoundOK'
  OBVIOUS
<1>1. /\ sched \in SchedulerType /\ Distinct(sched) /\ owes \in SUBSET Sources
      /\ queue \in [Sources -> 0 .. MaxPending] /\ overtook \in [Sources -> SUBSET Sources]
      /\ MaxPending \in Nat /\ (AnyPending(sched) /\ ~sched.inCommand => sched.timer)
  BY MaxPendingAssumption DEF IInv, TypeOK
<1>2. ASSUME NEW p \in Sources, Register(p) PROVE RoundOK'
  <2>1. /\ p \notin Registered(sched) /\ sched' = RegisterSource(sched, p)
        /\ UNCHANGED <<queue, owes, overtook>>
    BY <1>2 DEF Register
  <2>2. sched \in SchedulerType /\ Distinct(sched) BY <1>1
  <2>3. /\ sched' \in SchedulerType
        /\ Distinct(sched')
        /\ Registered(sched') = Registered(sched) \union {p}
        /\ \A q \in Registered(sched) : IndexOf(sched', q) = IndexOf(sched, q)
        /\ sched'.pending = [sched.pending EXCEPT ![p] = 0]
        /\ sched'.cur = sched.cur /\ sched'.inCommand = sched.inCommand
        /\ sched'.timer = sched.timer
        /\ AnyPending(sched') => AnyPending(sched)
    BY ONLY <2>1, <2>2, p \in Sources, RegisterEffect
  <2> QED BY <2>1, <2>3 DEF RoundOK, Waiting
<1>3. ASSUME NEW p \in Sources, NEW n \in Nat, p \in Registered(sched),
             sched' = NotifyNumPending(sched, p, n)
      PROVE  sched'.sources = sched.sources /\ sched'.cur = sched.cur
  <2>1. sched \in SchedulerType /\ (AnyPending(sched) /\ ~sched.inCommand => sched.timer) BY <1>1
  <2> QED BY ONLY <2>1, <1>3, NotifyEffect
<1>4. ASSUME NEW p \in Sources, Submit(p) PROVE RoundOK'
  <2>1. PICK n : n = queue[p] + 1 OBVIOUS
  <2>2. n \in Nat /\ p \in Registered(sched) /\ sched' = NotifyNumPending(sched, p, n)
    BY <1>1, <1>4, <2>1 DEF Submit
  <2>3. sched'.sources = sched.sources /\ sched'.cur = sched.cur BY <1>3, <2>2
  <2>4. ASSUME NEW q \in Sources, Waiting(q)'
        PROVE  (Waiting(q) /\ overtook'[q] = overtook[q]) \/ overtook'[q] = {}
    BY <1>1, <1>4, <2>4 DEF Submit, Waiting
  <2> QED BY <2>3, <2>4, SameRound
<1>5. ASSUME NEW p \in Sources, Cancel(p) PROVE RoundOK'
  <2>1. sched'.sources = sched.sources /\ sched'.cur = sched.cur BY <1>3, <1>5 DEF Cancel
  <2>2. ASSUME NEW q \in Sources, Waiting(q)'
        PROVE  (Waiting(q) /\ overtook'[q] = overtook[q]) \/ overtook'[q] = {}
    BY <1>1, <1>5, <2>2 DEF Cancel, Waiting
  <2> QED BY <2>1, <2>2, SameRound
<1>6. ASSUME NEW p \in Sources, Finish(p) PROVE RoundOK'
  <2>1. PICK n : n = queue[p] - 1 OBVIOUS
  <2>2. n \in Nat /\ p \in Registered(sched) /\ sched' = NotifyCommandDone(sched, p, n)
    BY <1>1, <1>6, <2>1 DEF Finish, IInv
  <2>3. sched'.sources = sched.sources /\ sched'.cur = sched.cur
    <3>1. CASE IsCurrent(sched, p)
      <4>1. sched \in SchedulerType /\ IndexOf(sched, p) = sched.cur BY <1>1, <3>1 DEF IsCurrent
      <4>2. /\ sched' \in SchedulerType
            /\ sched'.sources = sched.sources
            /\ sched'.pending = [sched.pending EXCEPT ![p] = n]
            /\ sched'.cur = sched.cur /\ ~sched'.inCommand
            /\ AnyPending(sched') => sched'.timer
        BY ONLY <4>1, <2>2, p \in Sources, DoneEffect
      <4> QED BY <4>2
    <3>2. CASE ~IsCurrent(sched, p) BY <2>2, <3>2, Zenon DEF NotifyCommandDone
    <3> QED BY <3>1, <3>2
  <2>4. ASSUME NEW q \in Sources, Waiting(q)'
        PROVE  (Waiting(q) /\ overtook'[q] = overtook[q]) \/ overtook'[q] = {}
    BY <1>1, <1>6, <2>4 DEF Finish, Waiting
  <2> QED BY <2>3, <2>4, SameRound
<1>7. ASSUME NEW p \in Sources, Unregister(p) PROVE RoundOK'
  BY <1>7 DEF Unregister, RoundOK
<1>8. CASE UNCHANGED vars
  BY <1>8, SameRound DEF vars, Waiting
<1> QED BY <1>2, <1>4, <1>5, <1>6, <1>7, <1>8, TimerRound DEF Next

(* While a source waits for the turn no other source gets it twice: the walk *)
(* of find_next_source starts behind the one that had it last.              *)
THEOREM SpecRoundRobin == Spec => RoundRobin
<1>1. Init => RoundOK BY DEF Init, RoundOK
<1>2. Spec => []RoundOK BY <1>1, NextRoundOK, Invariance, PTL DEF Spec
<1>3. IInv /\ RoundOK /\ [Next]_vars =>
        [\A q \in owes' \ owes : \A p \in Sources \ {q} : Waiting(p) => q \notin overtook[p]]_vars
  <2> SUFFICES ASSUME IInv, RoundOK, Next, NEW q \in owes' \ owes, NEW p \in Sources \ {q},
                      Waiting(p), q \in overtook[p]
               PROVE  FALSE
    OBVIOUS
  <2>1. TimerFires /\ AnyPending(sched)
    BY DEF Next, Register, Submit, Cancel, Finish, Unregister, TimerFires
  <2>2. q = SourceAt(sched', sched'.cur) BY <2>1 DEF TimerFires
  <2>3. /\ q \in Registered(sched) /\ sched'.cur = IndexOf(sched, q)
        /\ p \in Registered(sched) /\ Precedes(sched.cur, sched'.cur, IndexOf(sched, p))
    BY <2>1, <2>2, TimerChooses
  <2>4. Precedes(sched.cur, IndexOf(sched, p), IndexOf(sched, q)) BY DEF RoundOK
  <2>5. sched \in SchedulerType BY DEF IInv, TypeOK
  <2>6. /\ IndexOf(sched, p) \in Indexes(sched) /\ SourceAt(sched, IndexOf(sched, p)) = p
        /\ IndexOf(sched, q) \in Indexes(sched) /\ SourceAt(sched, IndexOf(sched, q)) = q
    BY <2>3, <2>5, IndexOfRegistered
  <2>7. PICK c, n, i : c = sched.cur /\ n = IndexOf(sched, q) /\ i = IndexOf(sched, p) OBVIOUS
  <2>8. c \in Nat /\ n \in Nat /\ i \in Nat BY <2>5, <2>6, <2>7 DEF Indexes, SchedulerType
  <2>9. i # n BY <2>6, <2>7
  <2> QED BY <2>3, <2>4, <2>7, <2>8, <2>9, NextRound
<1> QED BY <1>2, <1>3, Invariance, PTL DEF Spec, RoundRobin
=============================================================================
