------------------------ MODULE DeviceProbingProofs ------------------------
(***************************************************************************)
(* Proofs about DeviceProbing for any ports, plugins and answers: whatever *)
(* completes inside what, a support check keeps its asserts and goes on,   *)
(* and a device that left the table keeps no modem.  The invariant is      *)
(* proved bottom up: completions nested in each other, the operations of a *)
(* check, then those of the daemon that runs checks for its devices.       *)
(***************************************************************************)
EXTENDS DeviceProbing, TLAPS, SequenceTheorems, FiniteSetTheorems, WellFoundedInduction


(* A nonempty set of naturals has a least element.                            *)
LEMMA LeastElement ==
  ASSUME NEW T \in SUBSET Nat, T # {}
  PROVE  \E i \in T : \A j \in T : ~(j < i)
<1> DEFINE Segments == {0 .. i : i \in T}
<1>1. Segments \subseteq FiniteSubsetsOf(Nat)
  <2>1. \A i \in T : IsFiniteSet(0 .. i)
    BY FS_Interval
  <2> QED BY <2>1 DEF FiniteSubsetsOf
<1>2. Segments # {}
  OBVIOUS
<1>3. PICK m \in Segments : \A y \in Segments : ~(<<y, m>> \in StrictSubsetOrdering(Nat))
  BY <1>1, <1>2, FS_StrictSubsetOrderingWellFounded, WFMin
<1>4. PICK i \in T : m = 0 .. i
  OBVIOUS
<1>5. ASSUME NEW j \in T, j < i PROVE FALSE
  <2>1. 0 .. j \in Segments
    OBVIOUS
  <2>2. <<0 .. j, 0 .. i>> \in StrictSubsetOrdering(Nat)
    BY <1>5 DEF StrictSubsetOrdering
  <2> QED BY <1>3, <1>4, <2>1, <2>2
<1> QED BY <1>5

(* Induction on the steps 0, ..., n of a walk, for what holds of a set of them. *)
LEMMA UpTo ==
  ASSUME NEW n \in Nat, NEW P \in SUBSET (0 .. n), 0 \in P,
         \A i \in 1 .. n : i - 1 \in P => i \in P
  PROVE  P = 0 .. n
<1> DEFINE T == (0 .. n) \ P
<1>1. ASSUME T # {} PROVE FALSE
  <2>1. T \in SUBSET Nat
    OBVIOUS
  <2> HIDE DEF T
  <2>2. PICK i \in T : \A j \in T : ~(j < i)
    BY <1>1, <2>1, LeastElement
  <2> USE DEF T
  <2>3. i \in 1 .. n /\ i - 1 \in 0 .. n
    OBVIOUS
  <2>4. i - 1 \in P
    BY <2>2, <2>3
  <2> QED BY <2>3, <2>4
<1> QED BY <1>1

(* A nonempty set of indices has a last one.                                  *)
LEMMA LastIndex ==
  ASSUME NEW n \in Nat, NEW s \in SUBSET (1 .. n), s # {}
  PROVE  /\ Max(s) \in s /\ \A j \in s : Max(s) >= j
<1> DEFINE U == {i \in Nat : \A j \in s : i >= j}
<1>1. n \in U
  OBVIOUS
<1>2. PICK m \in U : \A j \in U : ~(j < m)
  <2> HIDE DEF U
  <2>1. U # {} /\ U \in SUBSET Nat
    BY <1>1 DEF U
  <2> QED BY <2>1, LeastElement
<1>3. m \in s
  <2>0. PICK x \in s : x \in 1 .. n /\ m >= x
    <3>1. PICK x \in s : TRUE
      OBVIOUS
    <3> QED BY <3>1
  <2>1. m # 0
    BY <2>0
  <2>2. CASE m \notin s
    <3>1. m - 1 \in U
      BY <2>1, <2>2
    <3> QED BY <3>1, <1>2
  <2> QED BY <2>1, <2>2
<1>4. \E x \in s : \A y \in s : x >= y
  BY <1>3
<1> QED BY <1>4 DEF Max

(* The last of the first i indices is i.                                      *)
LEMMA LastOfPrefix ==
  ASSUME NEW n \in Nat, NEW i \in 1 .. n
  PROVE  /\ Max(1 .. i) = i /\ (1 .. i) \ {i} = 1 .. (i - 1) /\ 1 .. i # {}
         /\ 1 .. i \in SUBSET (1 .. n) /\ i \in 0 .. n /\ i - 1 \in 0 .. n
<1>1. Max(1 .. i) \in 1 .. i /\ \A j \in 1 .. i : Max(1 .. i) >= j
  <2>1. i \in Nat /\ 1 .. i \in SUBSET (1 .. i) /\ 1 .. i # {}
    OBVIOUS
  <2> QED BY <2>1, LastIndex
<1>2. Max(1 .. i) = i
  BY <1>1
<1>3. (1 .. i) \ {i} = 1 .. (i - 1)
  OBVIOUS
<1>4. 1 .. i # {} /\ 1 .. i \in SUBSET (1 .. n)
  OBVIOUS
<1>5. i \in 0 .. n /\ i - 1 \in 0 .. n
  OBVIOUS
<1> QED BY <1>2, <1>3, <1>4, <1>5

(* The last index of a set that gets one more.                                *)
LEMMA LastWithNext ==
  ASSUME NEW k \in Nat \ {0}, NEW s \in SUBSET (1 .. k), s # {}
  PROVE  IF k \in s THEN Max(s) = k /\ s \ {Max(s)} \in SUBSET (1 .. (k - 1))
         ELSE s \in SUBSET (1 .. (k - 1)) /\ s \ {Max(s)} \in SUBSET (1 .. (k - 1))
<1>1. Max(s) \in s /\ \A j \in s : Max(s) >= j
  <2>1. k \in Nat
    OBVIOUS
  <2> QED BY <2>1, LastIndex
<1>2. Max(s) \in 1 .. k
  BY <1>1
<1>3. CASE k \in s
  <2>1. Max(s) >= k
    BY <1>1, <1>3
  <2>2. Max(s) = k
    BY <2>1, <1>2
  <2>3. \A j \in s \ {k} : j \in 1 .. (k - 1)
    OBVIOUS
  <2>4. s \ {k} \in SUBSET (1 .. (k - 1))
    BY <2>3
  <2> QED BY <1>3, <2>2, <2>4
<1>4. CASE k \notin s
  <2>1. \A j \in s : j \in 1 .. (k - 1)
    BY <1>4
  <2>2. s \in SUBSET (1 .. (k - 1))
    BY <2>1
  <2> QED BY <1>4, <2>2
<1> QED BY <1>3, <1>4

(* What holds of the start of a walk and is kept by every step holds at its   *)
(* end; the set it is said with may depend on the step.                        *)
LEMMA Walked ==
  ASSUME NEW n \in Nat, NEW w, NEW S, w[0] \in S[0],
         \A i \in 1 .. n : w[i - 1] \in S[i - 1] => w[i] \in S[i]
  PROVE  w[n] \in S[n]
<1> DEFINE P == {i \in 0 .. n : w[i] \in S[i]}
<1>1. 0 \in P
  OBVIOUS
<1>2. \A i \in 1 .. n : i - 1 \in P => i \in P
  OBVIOUS
<1>3. P \in SUBSET (0 .. n)
  OBVIOUS
<1> HIDE DEF P
<1>4. P = 0 .. n
  BY <1>1, <1>2, <1>3, UpTo
<1> QED BY <1>4 DEF P

-----------------------------------------------------------------------------
KeepStep(kept, T, x) == IF x \in T THEN Append(kept, x) ELSE kept
LaunchStart(c) ==
  [c EXCEPT !.minWait = FALSE, !.waiting = <<>>, !.broken = @ \/ c.running # <<>>]
ReleaseStart(w, d, p) ==
  [w EXCEPT !.devices[d].probes = Without(@, p), !.devices[d].ignored = @ \ {p}]

(* Kept, element by element. *)
KeepTable(t, T, s, n) ==
  t = [i \in 0 .. n |-> IF i = 0 THEN <<>> ELSE KeepStep(t[i - 1], T, s[i])]

(* The table of its partial results exists.                                   *)
LEMMA KeepTableExists ==
  ASSUME NEW T, NEW s, NEW n \in Nat
  PROVE  \E t : KeepTable(t, T, s, n)
<1> DEFINE P == {k \in 0 .. n : \E t : KeepTable(t, T, s, k)}
<1>1. 0 \in P
  <2> DEFINE t == [i \in 0 .. 0 |-> <<>>]
  <2>1. KeepTable(t, T, s, 0)
    BY DEF KeepTable
  <2> QED BY <2>1
<1>2. ASSUME NEW k \in 1 .. n, k - 1 \in P PROVE k \in P
  <2>1. PICK t : KeepTable(t, T, s, k - 1)
    BY <1>2
  <2> DEFINE u == [i \in 0 .. k |-> IF i = k THEN KeepStep(t[k - 1], T, s[k]) ELSE t[i]]
  <2>2. ASSUME NEW i \in 1 .. k PROVE u[i] = KeepStep(u[i - 1], T, s[i])
    <3>1. u[i - 1] = t[i - 1]
      BY <2>2
    <3>2. CASE i = k
      BY <3>1, <3>2
    <3>3. CASE i # k
      <4>1. i \in 0 .. (k - 1) /\ i # 0
        BY <3>3
      <4>2. t[i] = KeepStep(t[i - 1], T, s[i])
        BY <2>1, <4>1 DEF KeepTable
      <4>3. u[i] = t[i]
        BY <3>3
      <4> QED BY <3>1, <4>2, <4>3
    <3> QED BY <3>2, <3>3
  <2>3. u[0] = <<>>
    <3>1. 0 \in 0 .. (k - 1)
      OBVIOUS
    <3>2. t[0] = <<>>
      BY <2>1, <3>1 DEF KeepTable
    <3> QED BY <3>2
  <2>4. KeepTable(u, T, s, k)
    <3> HIDE DEF u
    <3>1. u = [i \in 0 .. k |-> u[i]]
      BY DEF u
    <3>2. \A i \in 0 .. k : u[i] = IF i = 0 THEN <<>> ELSE KeepStep(u[i - 1], T, s[i])
      BY <2>2, <2>3
    <3> QED BY <3>1, <3>2 DEF KeepTable
  <2> QED BY <2>4
<1>3. P \in SUBSET (0 .. n)
  OBVIOUS
<1> HIDE DEF P
<1>4. n \in P
  BY <1>1, <1>2, <1>3, UpTo
<1> QED BY <1>4 DEF P

KeepSteps(T, list) ==
  \E w : /\ w[0] = <<>>
         /\ \A i \in 1 .. Len(list) : w[i] = KeepStep(w[i - 1], T, list[i])
         /\ Kept(list, T) = w[Len(list)]

(* So it is the last of a series of steps.                                    *)
LEMMA KeepWalk ==
  ASSUME NEW T, NEW list, NEW S, list \in Seq(S)
  PROVE  KeepSteps(T, list)
<1> DEFINE n == Len(list)
           t == CHOOSE t : KeepTable(t, T, list, n)
<1>1. n \in Nat
  OBVIOUS
<1>2. KeepTable(t, T, list, n)
  <2> HIDE DEF n
  <2> QED BY <1>1, KeepTableExists
<1>3. Kept(list, T) = t[n]
  BY Zenon DEF Kept, KeepStep, KeepTable
<1> HIDE DEF t, n
<1>4. t[0] = <<>>
  BY <1>1, <1>2 DEF KeepTable
<1>5. \A i \in 1 .. n : t[i] = KeepStep(t[i - 1], T, list[i])
  BY <1>1, <1>2 DEF KeepTable
<1> QED BY <1>3, <1>4, <1>5 DEF n, KeepSteps

(* The suggestion to the ports on the list. *)
SuggestTable(t, f, g, base, s, n) ==
  t = [m \in SUBSET (1 .. n) |-> IF m = {} THEN base
          ELSE port_context_set_suggestion(f, t[m \ {Max(m)}], s[Max(m)], g)]

(* The table of its partial results exists.                                   *)
LEMMA SuggestTableExists ==
  ASSUME NEW f, NEW g, NEW base, NEW s, NEW n \in Nat
  PROVE  \E t : SuggestTable(t, f, g, base, s, n)
<1> DEFINE P == {k \in 0 .. n : \E t : SuggestTable(t, f, g, base, s, k)}
<1>1. 0 \in P
  <2> DEFINE t == [m \in SUBSET (1 .. 0) |-> base]
  <2>1. \A m \in SUBSET (1 .. 0) : m = {}
    OBVIOUS
  <2>2. SuggestTable(t, f, g, base, s, 0)
    BY <2>1 DEF SuggestTable
  <2> QED BY <2>2
<1>2. ASSUME NEW k \in 1 .. n, k - 1 \in P PROVE k \in P
  <2>1. PICK t : SuggestTable(t, f, g, base, s, k - 1)
    BY <1>2
  <2> DEFINE u == [m \in SUBSET (1 .. k) |-> IF k \in m
          THEN port_context_set_suggestion(f, t[m \ {k}], s[k], g) ELSE t[m]]
  <2>2. ASSUME NEW m \in SUBSET (1 .. k), m # {}
        PROVE  u[m] = port_context_set_suggestion(f, u[m \ {Max(m)}], s[Max(m)], g)
    <3>1. IF k \in m THEN Max(m) = k /\ m \ {Max(m)} \in SUBSET (1 .. (k - 1))
          ELSE m \in SUBSET (1 .. (k - 1)) /\ m \ {Max(m)} \in SUBSET (1 .. (k - 1))
      <4>1. k \in Nat \ {0}
        OBVIOUS
      <4> QED BY <2>2, <4>1, LastWithNext
    <3>2. m \ {Max(m)} \in SUBSET (1 .. k) /\ k \notin m \ {Max(m)}
      BY <3>1
    <3>3. u[m \ {Max(m)}] = t[m \ {Max(m)}]
      BY <3>2
    <3>4. CASE k \in m
      BY <3>1, <3>3, <3>4
    <3>5. CASE k \notin m
      <4>1. t[m] = port_context_set_suggestion(f, t[m \ {Max(m)}], s[Max(m)], g)
        BY <2>1, <2>2, <3>1, <3>5 DEF SuggestTable
      <4> QED BY <3>3, <3>5, <4>1
    <3> QED BY <3>4, <3>5
  <2>3. u[{}] = base
    <3>1. {} \in SUBSET (1 .. (k - 1)) /\ {} \in SUBSET (1 .. k)
      OBVIOUS
    <3>2. t[{}] = base
      BY <2>1, <3>1 DEF SuggestTable
    <3> QED BY <3>1, <3>2
  <2>4. SuggestTable(u, f, g, base, s, k)
    <3> HIDE DEF u
    <3>1. u = [m \in SUBSET (1 .. k) |-> u[m]]
      BY DEF u
    <3> QED BY <2>2, <2>3, <3>1 DEF SuggestTable
  <2> QED BY <2>4
<1>3. P \in SUBSET (0 .. n)
  OBVIOUS
<1> HIDE DEF P
<1>4. n \in P
  BY <1>1, <1>2, <1>3, UpTo
<1> QED BY <1>4 DEF P

SuggestSteps(f, c, p, g) ==
  \E w : /\ w[0] = c
         /\ \A i \in 1 .. Len(c.running) : w[i] = port_context_set_suggestion(f, w[i - 1], c.running[i], g)
         /\ device_context_suggest_plugin(f, c, p, g) = w[Len(c.running)]

(* So it is the last of a series of steps.                                    *)
LEMMA SuggestWalk ==
  ASSUME NEW f, NEW c, NEW p, NEW g, NEW S, c.running \in Seq(S),
         g # None \/ OnlyWaiters(c, p)
  PROVE  SuggestSteps(f, c, p, g)
<1> DEFINE n == Len(c.running)
           s == c.running
           base == c
           t == CHOOSE t : SuggestTable(t, f, g, base, s, n)
<1>1. n \in Nat /\ DOMAIN s = 1 .. n /\ DOMAIN c.running = 1 .. n
  OBVIOUS
<1>2. SuggestTable(t, f, g, base, s, n)
  <2> HIDE DEF s, base, n
  <2> QED BY <1>1, SuggestTableExists
<1>3. device_context_suggest_plugin(f, c, p, g) = t[1 .. n]
  <2> HIDE DEF n
  <2> QED BY <1>1, Zenon DEF device_context_suggest_plugin, FoldLeft, MapThenFoldSet, SuggestTable
<1>4. \A i \in 1 .. n : s[i] = c.running[i]
  OBVIOUS
<1> HIDE DEF s, base, t, n
<1> DEFINE w == [i \in 0 .. n |-> t[1 .. i]]
<1>5. w[0] = base
  <2>1. 1 .. 0 = {} /\ {} \in SUBSET (1 .. n) /\ 0 \in 0 .. n
    BY <1>1
  <2> QED BY <1>2, <2>1 DEF SuggestTable
<1>6. ASSUME NEW i, i \in 1 .. n PROVE w[i] = port_context_set_suggestion(f, w[i - 1], s[i], g)
  <2>1. /\ Max(1 .. i) = i /\ (1 .. i) \ {i} = 1 .. (i - 1) /\ 1 .. i # {}
        /\ 1 .. i \in SUBSET (1 .. n) /\ i \in 0 .. n /\ i - 1 \in 0 .. n
    BY ONLY <1>1, <1>6, LastOfPrefix
  <2>2. t[1 .. i] = port_context_set_suggestion(f, t[1 .. (i - 1)], s[i], g)
    BY <1>2, <2>1 DEF SuggestTable
  <2>3. w[i] = t[1 .. i] /\ w[i - 1] = t[1 .. (i - 1)]
    BY <2>1
  <2> QED BY <2>2, <2>3
<1>7. w[n] = t[1 .. n]
  BY <1>1
<1> HIDE DEF w
<1>8. \A i \in 1 .. n : w[i] = port_context_set_suggestion(f, w[i - 1], c.running[i], g)
  BY <1>4, <1>6
<1> QED BY <1>3, <1>5, <1>7, <1>8 DEF base, n, SuggestSteps

(* The ports that waited for the first timer are run. *)
LaunchTable(t, base, s, n) ==
  t = [m \in SUBSET (1 .. n) |-> IF m = {} THEN base ELSE Launched(t[m \ {Max(m)}], s[Max(m)])]

(* The table of its partial results exists.                                   *)
LEMMA LaunchTableExists ==
  ASSUME NEW base, NEW s, NEW n \in Nat
  PROVE  \E t : LaunchTable(t, base, s, n)
<1> DEFINE P == {k \in 0 .. n : \E t : LaunchTable(t, base, s, k)}
<1>1. 0 \in P
  <2> DEFINE t == [m \in SUBSET (1 .. 0) |-> base]
  <2>1. \A m \in SUBSET (1 .. 0) : m = {}
    OBVIOUS
  <2>2. LaunchTable(t, base, s, 0)
    BY <2>1 DEF LaunchTable
  <2> QED BY <2>2
<1>2. ASSUME NEW k \in 1 .. n, k - 1 \in P PROVE k \in P
  <2>1. PICK t : LaunchTable(t, base, s, k - 1)
    BY <1>2
  <2> DEFINE u == [m \in SUBSET (1 .. k) |-> IF k \in m THEN Launched(t[m \ {k}], s[k]) ELSE t[m]]
  <2>2. ASSUME NEW m \in SUBSET (1 .. k), m # {}
        PROVE  u[m] = Launched(u[m \ {Max(m)}], s[Max(m)])
    <3>1. IF k \in m THEN Max(m) = k /\ m \ {Max(m)} \in SUBSET (1 .. (k - 1))
          ELSE m \in SUBSET (1 .. (k - 1)) /\ m \ {Max(m)} \in SUBSET (1 .. (k - 1))
      <4>1. k \in Nat \ {0}
        OBVIOUS
      <4> QED BY <2>2, <4>1, LastWithNext
    <3>2. m \ {Max(m)} \in SUBSET (1 .. k) /\ k \notin m \ {Max(m)}
      BY <3>1
    <3>3. u[m \ {Max(m)}] = t[m \ {Max(m)}]
      BY <3>2
    <3>4. CASE k \in m
      BY <3>1, <3>3, <3>4
    <3>5. CASE k \notin m
      <4>1. t[m] = Launched(t[m \ {Max(m)}], s[Max(m)])
        BY <2>1, <2>2, <3>1, <3>5 DEF LaunchTable
      <4> QED BY <3>3, <3>5, <4>1
    <3> QED BY <3>4, <3>5
  <2>3. u[{}] = base
    <3>1. {} \in SUBSET (1 .. (k - 1)) /\ {} \in SUBSET (1 .. k)
      OBVIOUS
    <3>2. t[{}] = base
      BY <2>1, <3>1 DEF LaunchTable
    <3> QED BY <3>1, <3>2
  <2>4. LaunchTable(u, base, s, k)
    <3> HIDE DEF u
    <3>1. u = [m \in SUBSET (1 .. k) |-> u[m]]
      BY DEF u
    <3> QED BY <2>2, <2>3, <3>1 DEF LaunchTable
  <2> QED BY <2>4
<1>3. P \in SUBSET (0 .. n)
  OBVIOUS
<1> HIDE DEF P
<1>4. n \in P
  BY <1>1, <1>2, <1>3, UpTo
<1> QED BY <1>4 DEF P

LaunchSteps(c) ==
  \E w : /\ w[0] = LaunchStart(c)
         /\ \A i \in 1 .. Len(c.waiting) : w[i] = Launched(w[i - 1], c.waiting[i])
         /\ device_context_min_wait_time_elapsed(c) = w[Len(c.waiting)]

(* So it is the last of a series of steps.                                    *)
LEMMA LaunchWalk ==
  ASSUME NEW c, NEW S, c.waiting \in Seq(S)
  PROVE  LaunchSteps(c)
<1> DEFINE n == Len(c.waiting)
           s == c.waiting
           base == LaunchStart(c)
           t == CHOOSE t : LaunchTable(t, base, s, n)
<1>1. n \in Nat /\ DOMAIN s = 1 .. n /\ DOMAIN c.waiting = 1 .. n
  OBVIOUS
<1>2. LaunchTable(t, base, s, n)
  <2> HIDE DEF s, base, n
  <2> QED BY <1>1, LaunchTableExists
<1>3. device_context_min_wait_time_elapsed(c) = t[1 .. n]
  <2> HIDE DEF n
  <2> QED BY <1>1, Zenon
          DEF device_context_min_wait_time_elapsed, LaunchStart, FoldLeft, MapThenFoldSet, LaunchTable
<1>4. \A i \in 1 .. n : s[i] = c.waiting[i]
  OBVIOUS
<1> HIDE DEF s, base, t, n
<1> DEFINE w == [i \in 0 .. n |-> t[1 .. i]]
<1>5. w[0] = base
  <2>1. 1 .. 0 = {} /\ {} \in SUBSET (1 .. n) /\ 0 \in 0 .. n
    BY <1>1
  <2> QED BY <1>2, <2>1 DEF LaunchTable
<1>6. ASSUME NEW i, i \in 1 .. n PROVE w[i] = Launched(w[i - 1], s[i])
  <2>1. /\ Max(1 .. i) = i /\ (1 .. i) \ {i} = 1 .. (i - 1) /\ 1 .. i # {}
        /\ 1 .. i \in SUBSET (1 .. n) /\ i \in 0 .. n /\ i - 1 \in 0 .. n
    BY ONLY <1>1, <1>6, LastOfPrefix
  <2>2. t[1 .. i] = Launched(t[1 .. (i - 1)], s[i])
    BY <1>2, <2>1 DEF LaunchTable
  <2>3. w[i] = t[1 .. i] /\ w[i - 1] = t[1 .. (i - 1)]
    BY <2>1
  <2> QED BY <2>2, <2>3
<1>7. w[n] = t[1 .. n]
  BY <1>1
<1> HIDE DEF w
<1>8. \A i \in 1 .. n : w[i] = Launched(w[i - 1], c.waiting[i])
  BY <1>4, <1>6
<1> QED BY <1>3, <1>5, <1>7, <1>8 DEF base, n, LaunchSteps

(* The ports of a cancelled check are cancelled. *)
CancelTable(t, base, s, n) ==
  t = [m \in SUBSET (1 .. n) |-> IF m = {} THEN base ELSE PortCancelled(t[m \ {Max(m)}], s[Max(m)])]

(* The table of its partial results exists.                                   *)
LEMMA CancelTableExists ==
  ASSUME NEW base, NEW s, NEW n \in Nat
  PROVE  \E t : CancelTable(t, base, s, n)
<1> DEFINE P == {k \in 0 .. n : \E t : CancelTable(t, base, s, k)}
<1>1. 0 \in P
  <2> DEFINE t == [m \in SUBSET (1 .. 0) |-> base]
  <2>1. \A m \in SUBSET (1 .. 0) : m = {}
    OBVIOUS
  <2>2. CancelTable(t, base, s, 0)
    BY <2>1 DEF CancelTable
  <2> QED BY <2>2
<1>2. ASSUME NEW k \in 1 .. n, k - 1 \in P PROVE k \in P
  <2>1. PICK t : CancelTable(t, base, s, k - 1)
    BY <1>2
  <2> DEFINE u == [m \in SUBSET (1 .. k) |-> IF k \in m THEN PortCancelled(t[m \ {k}], s[k]) ELSE t[m]]
  <2>2. ASSUME NEW m \in SUBSET (1 .. k), m # {}
        PROVE  u[m] = PortCancelled(u[m \ {Max(m)}], s[Max(m)])
    <3>1. IF k \in m THEN Max(m) = k /\ m \ {Max(m)} \in SUBSET (1 .. (k - 1))
          ELSE m \in SUBSET (1 .. (k - 1)) /\ m \ {Max(m)} \in SUBSET (1 .. (k - 1))
      <4>1. k \in Nat \ {0}
        OBVIOUS
      <4> QED BY <2>2, <4>1, LastWithNext
    <3>2. m \ {Max(m)} \in SUBSET (1 .. k) /\ k \notin m \ {Max(m)}
      BY <3>1
    <3>3. u[m \ {Max(m)}] = t[m \ {Max(m)}]
      BY <3>2
    <3>4. CASE k \in m
      BY <3>1, <3>3, <3>4
    <3>5. CASE k \notin m
      <4>1. t[m] = PortCancelled(t[m \ {Max(m)}], s[Max(m)])
        BY <2>1, <2>2, <3>1, <3>5 DEF CancelTable
      <4> QED BY <3>3, <3>5, <4>1
    <3> QED BY <3>4, <3>5
  <2>3. u[{}] = base
    <3>1. {} \in SUBSET (1 .. (k - 1)) /\ {} \in SUBSET (1 .. k)
      OBVIOUS
    <3>2. t[{}] = base
      BY <2>1, <3>1 DEF CancelTable
    <3> QED BY <3>1, <3>2
  <2>4. CancelTable(u, base, s, k)
    <3> HIDE DEF u
    <3>1. u = [m \in SUBSET (1 .. k) |-> u[m]]
      BY DEF u
    <3> QED BY <2>2, <2>3, <3>1 DEF CancelTable
  <2> QED BY <2>4
<1>3. P \in SUBSET (0 .. n)
  OBVIOUS
<1> HIDE DEF P
<1>4. n \in P
  BY <1>1, <1>2, <1>3, UpTo
<1> QED BY <1>4 DEF P

CancelSteps(c) ==
  \E w : /\ w[0] = NoneWaiting(c)
         /\ \A i \in 1 .. Len(c.running) : w[i] = PortCancelled(w[i - 1], c.running[i])
         /\ AllCancelled(c) = w[Len(c.running)]

(* So it is the last of a series of steps.                                    *)
LEMMA CancelWalk ==
  ASSUME NEW c, NEW S, c.running \in Seq(S)
  PROVE  CancelSteps(c)
<1> DEFINE n == Len(c.running)
           s == c.running
           base == NoneWaiting(c)
           t == CHOOSE t : CancelTable(t, base, s, n)
<1>1. n \in Nat /\ DOMAIN s = 1 .. n /\ DOMAIN c.running = 1 .. n
  OBVIOUS
<1>2. CancelTable(t, base, s, n)
  <2> HIDE DEF s, base, n
  <2> QED BY <1>1, CancelTableExists
<1>3. AllCancelled(c) = t[1 .. n]
  <2> HIDE DEF n
  <2> QED BY <1>1, Zenon DEF AllCancelled, FoldLeft, MapThenFoldSet, CancelTable
<1>4. \A i \in 1 .. n : s[i] = c.running[i]
  OBVIOUS
<1> HIDE DEF s, base, t, n
<1> DEFINE w == [i \in 0 .. n |-> t[1 .. i]]
<1>5. w[0] = base
  <2>1. 1 .. 0 = {} /\ {} \in SUBSET (1 .. n) /\ 0 \in 0 .. n
    BY <1>1
  <2> QED BY <1>2, <2>1 DEF CancelTable
<1>6. ASSUME NEW i, i \in 1 .. n PROVE w[i] = PortCancelled(w[i - 1], s[i])
  <2>1. /\ Max(1 .. i) = i /\ (1 .. i) \ {i} = 1 .. (i - 1) /\ 1 .. i # {}
        /\ 1 .. i \in SUBSET (1 .. n) /\ i \in 0 .. n /\ i - 1 \in 0 .. n
    BY ONLY <1>1, <1>6, LastOfPrefix
  <2>2. t[1 .. i] = PortCancelled(t[1 .. (i - 1)], s[i])
    BY <1>2, <2>1 DEF CancelTable
  <2>3. w[i] = t[1 .. i] /\ w[i - 1] = t[1 .. (i - 1)]
    BY <2>1
  <2> QED BY <2>2, <2>3
<1>7. w[n] = t[1 .. n]
  BY <1>1
<1> HIDE DEF w
<1>8. \A i \in 1 .. n : w[i] = PortCancelled(w[i - 1], c.running[i])
  BY <1>4, <1>6
<1> QED BY <1>3, <1>5, <1>7, <1>8 DEF base, n, CancelSteps

(* The ports of a device are reported to its check. *)
ReportTable(t, base, s, n) ==
  t = [m \in SUBSET (1 .. n) |-> IF m = {} THEN base
          ELSE mm_plugin_manager_device_support_check_add_port(t[m \ {Max(m)}], s[Max(m)])]

(* The table of its partial results exists.                                   *)
LEMMA ReportTableExists ==
  ASSUME NEW base, NEW s, NEW n \in Nat
  PROVE  \E t : ReportTable(t, base, s, n)
<1> DEFINE P == {k \in 0 .. n : \E t : ReportTable(t, base, s, k)}
<1>1. 0 \in P
  <2> DEFINE t == [m \in SUBSET (1 .. 0) |-> base]
  <2>1. \A m \in SUBSET (1 .. 0) : m = {}
    OBVIOUS
  <2>2. ReportTable(t, base, s, 0)
    BY <2>1 DEF ReportTable
  <2> QED BY <2>2
<1>2. ASSUME NEW k \in 1 .. n, k - 1 \in P PROVE k \in P
  <2>1. PICK t : ReportTable(t, base, s, k - 1)
    BY <1>2
  <2> DEFINE u == [m \in SUBSET (1 .. k) |-> IF k \in m
          THEN mm_plugin_manager_device_support_check_add_port(t[m \ {k}], s[k]) ELSE t[m]]
  <2>2. ASSUME NEW m \in SUBSET (1 .. k), m # {}
        PROVE  u[m] = mm_plugin_manager_device_support_check_add_port(u[m \ {Max(m)}], s[Max(m)])
    <3>1. IF k \in m THEN Max(m) = k /\ m \ {Max(m)} \in SUBSET (1 .. (k - 1))
          ELSE m \in SUBSET (1 .. (k - 1)) /\ m \ {Max(m)} \in SUBSET (1 .. (k - 1))
      <4>1. k \in Nat \ {0}
        OBVIOUS
      <4> QED BY <2>2, <4>1, LastWithNext
    <3>2. m \ {Max(m)} \in SUBSET (1 .. k) /\ k \notin m \ {Max(m)}
      BY <3>1
    <3>3. u[m \ {Max(m)}] = t[m \ {Max(m)}]
      BY <3>2
    <3>4. CASE k \in m
      BY <3>1, <3>3, <3>4
    <3>5. CASE k \notin m
      <4>1. t[m] = mm_plugin_manager_device_support_check_add_port(t[m \ {Max(m)}], s[Max(m)])
        BY <2>1, <2>2, <3>1, <3>5 DEF ReportTable
      <4> QED BY <3>3, <3>5, <4>1
    <3> QED BY <3>4, <3>5
  <2>3. u[{}] = base
    <3>1. {} \in SUBSET (1 .. (k - 1)) /\ {} \in SUBSET (1 .. k)
      OBVIOUS
    <3>2. t[{}] = base
      BY <2>1, <3>1 DEF ReportTable
    <3> QED BY <3>1, <3>2
  <2>4. ReportTable(u, base, s, k)
    <3> HIDE DEF u
    <3>1. u = [m \in SUBSET (1 .. k) |-> u[m]]
      BY DEF u
    <3> QED BY <2>2, <2>3, <3>1 DEF ReportTable
  <2> QED BY <2>4
<1>3. P \in SUBSET (0 .. n)
  OBVIOUS
<1> HIDE DEF P
<1>4. n \in P
  BY <1>1, <1>2, <1>3, UpTo
<1> QED BY <1>4 DEF P

ReportSteps(w0, ports) ==
  \E w : /\ w[0] = w0
         /\ \A i \in 1 .. Len(ports) :
              w[i] = mm_plugin_manager_device_support_check_add_port(w[i - 1], ports[i])
         /\ AllReported(w0, ports) = w[Len(ports)]

(* So it is the last of a series of steps.                                    *)
LEMMA ReportWalk ==
  ASSUME NEW w0, NEW ports, NEW S, ports \in Seq(S)
  PROVE  ReportSteps(w0, ports)
<1> DEFINE n == Len(ports)
           s == ports
           base == w0
           t == CHOOSE t : ReportTable(t, base, s, n)
<1>1. n \in Nat /\ DOMAIN s = 1 .. n /\ DOMAIN ports = 1 .. n
  OBVIOUS
<1>2. ReportTable(t, base, s, n)
  <2> HIDE DEF s, base, n
  <2> QED BY <1>1, ReportTableExists
<1>3. AllReported(w0, ports) = t[1 .. n]
  <2> HIDE DEF n
  <2> QED BY <1>1, Zenon DEF AllReported, FoldLeft, MapThenFoldSet, ReportTable
<1>4. \A i \in 1 .. n : s[i] = ports[i]
  OBVIOUS
<1> HIDE DEF s, base, t, n
<1> DEFINE w == [i \in 0 .. n |-> t[1 .. i]]
<1>5. w[0] = base
  <2>1. 1 .. 0 = {} /\ {} \in SUBSET (1 .. n) /\ 0 \in 0 .. n
    BY <1>1
  <2> QED BY <1>2, <2>1 DEF ReportTable
<1>6. ASSUME NEW i, i \in 1 .. n PROVE w[i] = mm_plugin_manager_device_support_check_add_port(w[i - 1], s[i])
  <2>1. /\ Max(1 .. i) = i /\ (1 .. i) \ {i} = 1 .. (i - 1) /\ 1 .. i # {}
        /\ 1 .. i \in SUBSET (1 .. n) /\ i \in 0 .. n /\ i - 1 \in 0 .. n
    BY ONLY <1>1, <1>6, LastOfPrefix
  <2>2. t[1 .. i] = mm_plugin_manager_device_support_check_add_port(t[1 .. (i - 1)], s[i])
    BY <1>2, <2>1 DEF ReportTable
  <2>3. w[i] = t[1 .. i] /\ w[i - 1] = t[1 .. (i - 1)]
    BY <2>1
  <2> QED BY <2>2, <2>3
<1>7. w[n] = t[1 .. n]
  BY <1>1
<1> HIDE DEF w
<1>8. \A i \in 1 .. n : w[i] = mm_plugin_manager_device_support_check_add_port(w[i - 1], ports[i])
  BY <1>4, <1>6
<1> QED BY <1>3, <1>5, <1>7, <1>8 DEF base, n, ReportSteps

(* The ports left on a device are removed. *)
RemoveTable(t, base, s, n) ==
  t = [m \in SUBSET (1 .. n) |-> IF m = {} THEN base ELSE device_removed(t[m \ {Max(m)}], s[Max(m)])]

(* The table of its partial results exists.                                   *)
LEMMA RemoveTableExists ==
  ASSUME NEW base, NEW s, NEW n \in Nat
  PROVE  \E t : RemoveTable(t, base, s, n)
<1> DEFINE P == {k \in 0 .. n : \E t : RemoveTable(t, base, s, k)}
<1>1. 0 \in P
  <2> DEFINE t == [m \in SUBSET (1 .. 0) |-> base]
  <2>1. \A m \in SUBSET (1 .. 0) : m = {}
    OBVIOUS
  <2>2. RemoveTable(t, base, s, 0)
    BY <2>1 DEF RemoveTable
  <2> QED BY <2>2
<1>2. ASSUME NEW k \in 1 .. n, k - 1 \in P PROVE k \in P
  <2>1. PICK t : RemoveTable(t, base, s, k - 1)
    BY <1>2
  <2> DEFINE u == [m \in SUBSET (1 .. k) |-> IF k \in m THEN device_removed(t[m \ {k}], s[k]) ELSE t[m]]
  <2>2. ASSUME NEW m \in SUBSET (1 .. k), m # {}
        PROVE  u[m] = device_removed(u[m \ {Max(m)}], s[Max(m)])
    <3>1. IF k \in m THEN Max(m) = k /\ m \ {Max(m)} \in SUBSET (1 .. (k - 1))
          ELSE m \in SUBSET (1 .. (k - 1)) /\ m \ {Max(m)} \in SUBSET (1 .. (k - 1))
      <4>1. k \in Nat \ {0}
        OBVIOUS
      <4> QED BY <2>2, <4>1, LastWithNext
    <3>2. m \ {Max(m)} \in SUBSET (1 .. k) /\ k \notin m \ {Max(m)}
      BY <3>1
    <3>3. u[m \ {Max(m)}] = t[m \ {Max(m)}]
      BY <3>2
    <3>4. CASE k \in m
      BY <3>1, <3>3, <3>4
    <3>5. CASE k \notin m
      <4>1. t[m] = device_removed(t[m \ {Max(m)}], s[Max(m)])
        BY <2>1, <2>2, <3>1, <3>5 DEF RemoveTable
      <4> QED BY <3>3, <3>5, <4>1
    <3> QED BY <3>4, <3>5
  <2>3. u[{}] = base
    <3>1. {} \in SUBSET (1 .. (k - 1)) /\ {} \in SUBSET (1 .. k)
      OBVIOUS
    <3>2. t[{}] = base
      BY <2>1, <3>1 DEF RemoveTable
    <3> QED BY <3>1, <3>2
  <2>4. RemoveTable(u, base, s, k)
    <3> HIDE DEF u
    <3>1. u = [m \in SUBSET (1 .. k) |-> u[m]]
      BY DEF u
    <3> QED BY <2>2, <2>3, <3>1 DEF RemoveTable
  <2> QED BY <2>4
<1>3. P \in SUBSET (0 .. n)
  OBVIOUS
<1> HIDE DEF P
<1>4. n \in P
  BY <1>1, <1>2, <1>3, UpTo
<1> QED BY <1>4 DEF P

RemoveSteps(w0, ports) ==
  \E w : /\ w[0] = w0
         /\ \A i \in 1 .. Len(ports) : w[i] = device_removed(w[i - 1], ports[i])
         /\ AllRemoved(w0, ports) = w[Len(ports)]

(* So it is the last of a series of steps.                                    *)
LEMMA RemoveWalk ==
  ASSUME NEW w0, NEW ports, NEW S, ports \in Seq(S)
  PROVE  RemoveSteps(w0, ports)
<1> DEFINE n == Len(ports)
           s == ports
           base == w0
           t == CHOOSE t : RemoveTable(t, base, s, n)
<1>1. n \in Nat /\ DOMAIN s = 1 .. n /\ DOMAIN ports = 1 .. n
  OBVIOUS
<1>2. RemoveTable(t, base, s, n)
  <2> HIDE DEF s, base, n
  <2> QED BY <1>1, RemoveTableExists
<1>3. AllRemoved(w0, ports) = t[1 .. n]
  <2> HIDE DEF n
  <2> QED BY <1>1, Zenon DEF AllRemoved, FoldLeft, MapThenFoldSet, RemoveTable
<1>4. \A i \in 1 .. n : s[i] = ports[i]
  OBVIOUS
<1> HIDE DEF s, base, t, n
<1> DEFINE w == [i \in 0 .. n |-> t[1 .. i]]
<1>5. w[0] = base
  <2>1. 1 .. 0 = {} /\ {} \in SUBSET (1 .. n) /\ 0 \in 0 .. n
    BY <1>1
  <2> QED BY <1>2, <2>1 DEF RemoveTable
<1>6. ASSUME NEW i, i \in 1 .. n PROVE w[i] = device_removed(w[i - 1], s[i])
  <2>1. /\ Max(1 .. i) = i /\ (1 .. i) \ {i} = 1 .. (i - 1) /\ 1 .. i # {}
        /\ 1 .. i \in SUBSET (1 .. n) /\ i \in 0 .. n /\ i - 1 \in 0 .. n
    BY ONLY <1>1, <1>6, LastOfPrefix
  <2>2. t[1 .. i] = device_removed(t[1 .. (i - 1)], s[i])
    BY <1>2, <2>1 DEF RemoveTable
  <2>3. w[i] = t[1 .. i] /\ w[i - 1] = t[1 .. (i - 1)]
    BY <2>1
  <2> QED BY <2>2, <2>3
<1>7. w[n] = t[1 .. n]
  BY <1>1
<1> HIDE DEF w
<1>8. \A i \in 1 .. n : w[i] = device_removed(w[i - 1], ports[i])
  BY <1>4, <1>6
<1> QED BY <1>3, <1>5, <1>7, <1>8 DEF base, n, RemoveSteps

(* The ports that came meanwhile are added. *)
AddTable(t, base, s, n) ==
  t = [m \in SUBSET (1 .. n) |-> IF m = {} THEN base ELSE device_added(t[m \ {Max(m)}], s[Max(m)])]

(* The table of its partial results exists.                                   *)
LEMMA AddTableExists ==
  ASSUME NEW base, NEW s, NEW n \in Nat
  PROVE  \E t : AddTable(t, base, s, n)
<1> DEFINE P == {k \in 0 .. n : \E t : AddTable(t, base, s, k)}
<1>1. 0 \in P
  <2> DEFINE t == [m \in SUBSET (1 .. 0) |-> base]
  <2>1. \A m \in SUBSET (1 .. 0) : m = {}
    OBVIOUS
  <2>2. AddTable(t, base, s, 0)
    BY <2>1 DEF AddTable
  <2> QED BY <2>2
<1>2. ASSUME NEW k \in 1 .. n, k - 1 \in P PROVE k \in P
  <2>1. PICK t : AddTable(t, base, s, k - 1)
    BY <1>2
  <2> DEFINE u == [m \in SUBSET (1 .. k) |-> IF k \in m THEN device_added(t[m \ {k}], s[k]) ELSE t[m]]
  <2>2. ASSUME NEW m \in SUBSET (1 .. k), m # {}
        PROVE  u[m] = device_added(u[m \ {Max(m)}], s[Max(m)])
    <3>1. IF k \in m THEN Max(m) = k /\ m \ {Max(m)} \in SUBSET (1 .. (k - 1))
          ELSE m \in SUBSET (1 .. (k - 1)) /\ m \ {Max(m)} \in SUBSET (1 .. (k - 1))
      <4>1. k \in Nat \ {0}
        OBVIOUS
      <4> QED BY <2>2, <4>1, LastWithNext
    <3>2. m \ {Max(m)} \in SUBSET (1 .. k) /\ k \notin m \ {Max(m)}
      BY <3>1
    <3>3. u[m \ {Max(m)}] = t[m \ {Max(m)}]
      BY <3>2
    <3>4. CASE k \in m
      BY <3>1, <3>3, <3>4
    <3>5. CASE k \notin m
      <4>1. t[m] = device_added(t[m \ {Max(m)}], s[Max(m)])
        BY <2>1, <2>2, <3>1, <3>5 DEF AddTable
      <4> QED BY <3>3, <3>5, <4>1
    <3> QED BY <3>4, <3>5
  <2>3. u[{}] = base
    <3>1. {} \in SUBSET (1 .. (k - 1)) /\ {} \in SUBSET (1 .. k)
      OBVIOUS
    <3>2. t[{}] = base
      BY <2>1, <3>1 DEF AddTable
    <3> QED BY <3>1, <3>2
  <2>4. AddTable(u, base, s, k)
    <3> HIDE DEF u
    <3>1. u = [m \in SUBSET (1 .. k) |-> u[m]]
      BY DEF u
    <3> QED BY <2>2, <2>3, <3>1 DEF AddTable
  <2> QED BY <2>4
<1>3. P \in SUBSET (0 .. n)
  OBVIOUS
<1> HIDE DEF P
<1>4. n \in P
  BY <1>1, <1>2, <1>3, UpTo
<1> QED BY <1>4 DEF P

AddSteps(w0, ports) ==
  \E w : /\ w[0] = w0
         /\ \A i \in 1 .. Len(ports) : w[i] = device_added(w[i - 1], ports[i])
         /\ AllAdded(w0, ports) = w[Len(ports)]

(* So it is the last of a series of steps.                                    *)
LEMMA AddWalk ==
  ASSUME NEW w0, NEW ports, NEW S, ports \in Seq(S)
  PROVE  AddSteps(w0, ports)
<1> DEFINE n == Len(ports)
           s == ports
           base == w0
           t == CHOOSE t : AddTable(t, base, s, n)
<1>1. n \in Nat /\ DOMAIN s = 1 .. n /\ DOMAIN ports = 1 .. n
  OBVIOUS
<1>2. AddTable(t, base, s, n)
  <2> HIDE DEF s, base, n
  <2> QED BY <1>1, AddTableExists
<1>3. AllAdded(w0, ports) = t[1 .. n]
  <2> HIDE DEF n
  <2> QED BY <1>1, Zenon DEF AllAdded, FoldLeft, MapThenFoldSet, AddTable
<1>4. \A i \in 1 .. n : s[i] = ports[i]
  OBVIOUS
<1> HIDE DEF s, base, t, n
<1> DEFINE w == [i \in 0 .. n |-> t[1 .. i]]
<1>5. w[0] = base
  <2>1. 1 .. 0 = {} /\ {} \in SUBSET (1 .. n) /\ 0 \in 0 .. n
    BY <1>1
  <2> QED BY <1>2, <2>1 DEF AddTable
<1>6. ASSUME NEW i, i \in 1 .. n PROVE w[i] = device_added(w[i - 1], s[i])
  <2>1. /\ Max(1 .. i) = i /\ (1 .. i) \ {i} = 1 .. (i - 1) /\ 1 .. i # {}
        /\ 1 .. i \in SUBSET (1 .. n) /\ i \in 0 .. n /\ i - 1 \in 0 .. n
    BY ONLY <1>1, <1>6, LastOfPrefix
  <2>2. t[1 .. i] = device_added(t[1 .. (i - 1)], s[i])
    BY <1>2, <2>1 DEF AddTable
  <2>3. w[i] = t[1 .. i] /\ w[i - 1] = t[1 .. (i - 1)]
    BY <2>1
  <2> QED BY <2>2, <2>3
<1>7. w[n] = t[1 .. n]
  BY <1>1
<1> HIDE DEF w
<1>8. \A i \in 1 .. n : w[i] = device_added(w[i - 1], ports[i])
  BY <1>4, <1>6
<1> QED BY <1>3, <1>5, <1>7, <1>8 DEF base, n, AddSteps

(* A released port reaches the checks of its device. *)
ReleaseTable(t, d, p, base, s, n) ==
  t = [m \in SUBSET (1 .. n) |-> IF m = {} THEN base ELSE PortReleased(t[m \ {Max(m)}], s[Max(m)], d, p)]

(* The table of its partial results exists.                                   *)
LEMMA ReleaseTableExists ==
  ASSUME NEW d, NEW p, NEW base, NEW s, NEW n \in Nat
  PROVE  \E t : ReleaseTable(t, d, p, base, s, n)
<1> DEFINE P == {k \in 0 .. n : \E t : ReleaseTable(t, d, p, base, s, k)}
<1>1. 0 \in P
  <2> DEFINE t == [m \in SUBSET (1 .. 0) |-> base]
  <2>1. \A m \in SUBSET (1 .. 0) : m = {}
    OBVIOUS
  <2>2. ReleaseTable(t, d, p, base, s, 0)
    BY <2>1 DEF ReleaseTable
  <2> QED BY <2>2
<1>2. ASSUME NEW k \in 1 .. n, k - 1 \in P PROVE k \in P
  <2>1. PICK t : ReleaseTable(t, d, p, base, s, k - 1)
    BY <1>2
  <2> DEFINE u == [m \in SUBSET (1 .. k) |-> IF k \in m THEN PortReleased(t[m \ {k}], s[k], d, p) ELSE t[m]]
  <2>2. ASSUME NEW m \in SUBSET (1 .. k), m # {}
        PROVE  u[m] = PortReleased(u[m \ {Max(m)}], s[Max(m)], d, p)
    <3>1. IF k \in m THEN Max(m) = k /\ m \ {Max(m)} \in SUBSET (1 .. (k - 1))
          ELSE m \in SUBSET (1 .. (k - 1)) /\ m \ {Max(m)} \in SUBSET (1 .. (k - 1))
      <4>1. k \in Nat \ {0}
        OBVIOUS
      <4> QED BY <2>2, <4>1, LastWithNext
    <3>2. m \ {Max(m)} \in SUBSET (1 .. k) /\ k \notin m \ {Max(m)}
      BY <3>1
    <3>3. u[m \ {Max(m)}] = t[m \ {Max(m)}]
      BY <3>2
    <3>4. CASE k \in m
      BY <3>1, <3>3, <3>4
    <3>5. CASE k \notin m
      <4>1. t[m] = PortReleased(t[m \ {Max(m)}], s[Max(m)], d, p)
        BY <2>1, <2>2, <3>1, <3>5 DEF ReleaseTable
      <4> QED BY <3>3, <3>5, <4>1
    <3> QED BY <3>4, <3>5
  <2>3. u[{}] = base
    <3>1. {} \in SUBSET (1 .. (k - 1)) /\ {} \in SUBSET (1 .. k)
      OBVIOUS
    <3>2. t[{}] = base
      BY <2>1, <3>1 DEF ReleaseTable
    <3> QED BY <3>1, <3>2
  <2>4. ReleaseTable(u, d, p, base, s, k)
    <3> HIDE DEF u
    <3>1. u = [m \in SUBSET (1 .. k) |-> u[m]]
      BY DEF u
    <3> QED BY <2>2, <2>3, <3>1 DEF ReleaseTable
  <2> QED BY <2>4
<1>3. P \in SUBSET (0 .. n)
  OBVIOUS
<1> HIDE DEF P
<1>4. n \in P
  BY <1>1, <1>2, <1>3, UpTo
<1> QED BY <1>4 DEF P

ReleaseSteps(w0, d, p) ==
  \E w : /\ w[0] = ReleaseStart(w0, d, p)
         /\ \A i \in 1 .. Len(w0.checks) : w[i] = PortReleased(w[i - 1], i, d, p)
         /\ mm_device_release_port_name(w0, d, p) = w[Len(w0.checks)]

(* So it is the last of a series of steps.                                    *)
LEMMA ReleaseWalk ==
  ASSUME NEW w0, NEW d, NEW p, NEW S, w0.checks \in Seq(S)
  PROVE  ReleaseSteps(w0, d, p)
<1> DEFINE n == Len(w0.checks)
           s == [i \in DOMAIN w0.checks |-> i]
           base == ReleaseStart(w0, d, p)
           t == CHOOSE t : ReleaseTable(t, d, p, base, s, n)
<1>1. n \in Nat /\ DOMAIN s = 1 .. n /\ DOMAIN w0.checks = 1 .. n
  OBVIOUS
<1>2. ReleaseTable(t, d, p, base, s, n)
  <2> HIDE DEF s, base, n
  <2> QED BY <1>1, ReleaseTableExists
<1>3. mm_device_release_port_name(w0, d, p) = t[1 .. n]
  <2> HIDE DEF n
  <2> QED BY <1>1, Zenon
          DEF mm_device_release_port_name, FoldLeftDomain, ReleaseStart, FoldLeft, MapThenFoldSet, ReleaseTable
<1>4. \A i \in 1 .. n : s[i] = i
  OBVIOUS
<1> HIDE DEF s, base, t, n
<1> DEFINE w == [i \in 0 .. n |-> t[1 .. i]]
<1>5. w[0] = base
  <2>1. 1 .. 0 = {} /\ {} \in SUBSET (1 .. n) /\ 0 \in 0 .. n
    BY <1>1
  <2> QED BY <1>2, <2>1 DEF ReleaseTable
<1>6. ASSUME NEW i, i \in 1 .. n PROVE w[i] = PortReleased(w[i - 1], s[i], d, p)
  <2>1. /\ Max(1 .. i) = i /\ (1 .. i) \ {i} = 1 .. (i - 1) /\ 1 .. i # {}
        /\ 1 .. i \in SUBSET (1 .. n) /\ i \in 0 .. n /\ i - 1 \in 0 .. n
    BY ONLY <1>1, <1>6, LastOfPrefix
  <2>2. t[1 .. i] = PortReleased(t[1 .. (i - 1)], s[i], d, p)
    BY <1>2, <2>1 DEF ReleaseTable
  <2>3. w[i] = t[1 .. i] /\ w[i - 1] = t[1 .. (i - 1)]
    BY <2>1
  <2> QED BY <2>2, <2>3
<1>7. w[n] = t[1 .. n]
  BY <1>1
<1> HIDE DEF w
<1>8. \A i \in 1 .. n : w[i] = PortReleased(w[i - 1], i, d, p)
  BY <1>4, <1>6
<1> QED BY <1>3, <1>5, <1>7, <1>8 DEF base, n, ReleaseSteps

-----------------------------------------------------------------------------
(* Sequences: what is kept of a list, and the plugins to try on a port.       *)

(* What an appended element adds to the range.                                *)
LEMMA RangeOfAppend ==
  ASSUME NEW S, NEW list \in Seq(S), NEW x
  PROVE  Range(Append(list, x)) = Range(list) \cup {x}
<1> DEFINE more == Append(list, x)
<1>1. /\ DOMAIN more = 1 .. (Len(list) + 1) /\ DOMAIN list = 1 .. Len(list) /\ Len(list) \in Nat
      /\ \A i \in 1 .. Len(list) : more[i] = list[i]
      /\ more[Len(list) + 1] = x
  OBVIOUS
<1> HIDE DEF more
<1>2. Range(more) = {more[i] : i \in 1 .. (Len(list) + 1)}
  BY <1>1 DEF Range
<1>3. Range(list) = {list[i] : i \in 1 .. Len(list)}
  BY <1>1 DEF Range
<1>4. ASSUME NEW y \in Range(more) PROVE y \in Range(list) \cup {x}
  <2>1. PICK i \in 1 .. (Len(list) + 1) : y = more[i]
    BY <1>2
  <2>2. i \in 1 .. Len(list) \/ i = Len(list) + 1
    BY <1>1
  <2> QED BY <1>1, <1>3, <2>1, <2>2
<1>5. ASSUME NEW y \in Range(list) \cup {x} PROVE y \in Range(more)
  <2>1. CASE y = x
    <3>1. Len(list) + 1 \in 1 .. (Len(list) + 1)
      BY <1>1
    <3> QED BY <1>1, <1>2, <2>1, <3>1
  <2>2. CASE y \in Range(list)
    <3>1. PICK i \in 1 .. Len(list) : y = list[i]
      BY <1>3, <2>2
    <3>2. i \in 1 .. (Len(list) + 1)
      BY <1>1
    <3> QED BY <1>1, <1>2, <3>1, <3>2
  <2> QED BY <2>1, <2>2
<1>6. Range(more) = Range(list) \cup {x}
  BY <1>4, <1>5
<1> QED BY <1>6 DEF more

(* The elements of a list, and when there are none.                           *)
LEMMA RangeElements ==
  ASSUME NEW S, NEW list \in Seq(S)
  PROVE  /\ \A x : x \in Range(list) <=> \E i \in 1 .. Len(list) : x = list[i]
         /\ Range(list) \subseteq S
         /\ list = <<>> <=> Range(list) = {}
<1>1. DOMAIN list = 1 .. Len(list) /\ Len(list) \in Nat /\ \A i \in 1 .. Len(list) : list[i] \in S
  OBVIOUS
<1>2. Range(list) = {list[i] : i \in 1 .. Len(list)}
  BY <1>1 DEF Range
<1>3. ASSUME Range(list) = {} PROVE list = <<>>
  <2>1. Len(list) = 0
    <3>1. CASE Len(list) # 0
      <4>1. 1 \in 1 .. Len(list)
        BY <1>1, <3>1
      <4> QED BY <1>2, <1>3, <4>1
    <3> QED BY <3>1
  <2> QED BY <2>1
<1>4. ASSUME list = <<>> PROVE Range(list) = {}
  <2>1. 1 .. Len(list) = {}
    BY <1>4
  <2> QED BY <1>2, <2>1
<1> QED BY <1>1, <1>2, <1>3, <1>4

(* What is kept are the elements of the list that are in the set.             *)
LEMMA KeptElements ==
  ASSUME NEW S, NEW list \in Seq(S), NEW T
  PROVE  Kept(list, T) \in Seq(S) /\ Range(Kept(list, T)) = Range(list) \cap T
<1> DEFINE n == Len(list)
           Good == [i \in 0 .. n |-> {kept \in Seq(S) : Range(kept) = {list[j] : j \in 1 .. i} \cap T}]
<1>1. PICK w : /\ w[0] = <<>>
               /\ \A i \in 1 .. n : w[i] = KeepStep(w[i - 1], T, list[i])
               /\ Kept(list, T) = w[n]
  BY KeepWalk DEF KeepSteps
<1>2. n \in Nat
  OBVIOUS
<1>3. w[0] \in Good[0]
  <2>1. <<>> \in Seq(S) /\ Range(<<>>) = {}
    BY DEF Range
  <2>2. {list[j] : j \in 1 .. 0} = {}
    OBVIOUS
  <2> QED BY <1>1, <1>2, <2>1, <2>2
<1>4. ASSUME NEW i \in 1 .. n, w[i - 1] \in Good[i - 1] PROVE w[i] \in Good[i]
  <2>1. i - 1 \in 0 .. n /\ i \in 0 .. n /\ 1 .. i = (1 .. (i - 1)) \cup {i} /\ list[i] \in S
    OBVIOUS
  <2>2. w[i - 1] \in Seq(S) /\ Range(w[i - 1]) = {list[j] : j \in 1 .. (i - 1)} \cap T
    BY <1>4, <2>1
  <2>3. {list[j] : j \in 1 .. i} = {list[j] : j \in 1 .. (i - 1)} \cup {list[i]}
    BY <2>1
  <2>4. w[i] = KeepStep(w[i - 1], T, list[i])
    BY <1>1
  <2>5. CASE list[i] \in T
    <3>1. w[i] = Append(w[i - 1], list[i])
      BY <2>4, <2>5 DEF KeepStep
    <3>2. w[i] \in Seq(S) /\ Range(w[i]) = Range(w[i - 1]) \cup {list[i]}
      BY <2>1, <2>2, <3>1, RangeOfAppend
    <3>3. Range(w[i]) = {list[j] : j \in 1 .. i} \cap T
      BY <2>2, <2>3, <2>5, <3>2
    <3> QED BY <2>1, <3>2, <3>3
  <2>6. CASE list[i] \notin T
    <3>1. w[i] = w[i - 1]
      BY <2>4, <2>6 DEF KeepStep
    <3>2. Range(w[i]) = {list[j] : j \in 1 .. i} \cap T
      BY <2>2, <2>3, <2>6, <3>1
    <3> QED BY <2>1, <2>2, <3>1, <3>2
  <2> QED BY <2>5, <2>6
<1> HIDE DEF Good
<1>5. w[n] \in Good[n]
  BY <1>2, <1>3, <1>4, Walked
<1>6. n \in 0 .. n
  BY <1>2
<1>7. w[n] \in Seq(S) /\ Range(w[n]) = {list[j] : j \in 1 .. n} \cap T
  BY <1>5, <1>6 DEF Good
<1>8. Range(list) = {list[j] : j \in 1 .. n}
  <2>1. \A x : x \in Range(list) <=> \E i \in 1 .. Len(list) : x = list[i]
    BY RangeElements
  <2> QED BY <2>1
<1> QED BY <1>1, <1>7, <1>8

(* Without takes one port off a list.                                         *)
LEMMA WithoutElements ==
  ASSUME NEW list \in Seq(Ports), NEW p
  PROVE  Without(list, p) \in Seq(Ports) /\ Range(Without(list, p)) = Range(list) \ {p}
<1>1. Range(list) \subseteq Ports
  BY RangeElements
<1>2. Without(list, p) \in Seq(Ports) /\ Range(Without(list, p)) = Range(list) \cap (Ports \ {p})
  BY KeptElements DEF Without
<1> QED BY <1>1, <1>2

List(p) == plugin_manager_build_plugins_list(p)

(* The plugins to try on a port are plugins, the generic one at the end.      *)
LEMMA ListType ==
  ASSUME NEW p \in Ports
  PROVE  List(p) \in Seq(AllPlugins) /\ Len(List(p)) \in Nat \ {0}
<1> DEFINE sure == {i \in DOMAIN Plugins : Hint[<<Plugins[i], p>>] = "supported"}
           likely == Kept(Plugins, {g \in Range(Plugins) : Hint[<<g, p>>] = "likely"})
           maybe == Kept(Plugins, {g \in Range(Plugins) : Hint[<<g, p>>] = "maybe"})
           first == IF sure # {} THEN <<Plugins[Min(sure)]>> ELSE Reverse(likely) \o maybe
<1>1. Plugins \in Seq(Range(Plugins))
  BY SupportCheckAssumption
<1>2. likely \in Seq(Range(Plugins)) /\ maybe \in Seq(Range(Plugins))
  BY <1>1, KeptElements
<1>3. sure # {} => Plugins[Min(sure)] \in Range(Plugins)
  <2>1. sure \in SUBSET Nat
    BY <1>1
  <2>2. ASSUME sure # {} PROVE \E i \in sure : \A j \in sure : i =< j
    <3> HIDE DEF sure
    <3>1. PICK i \in sure : \A j \in sure : ~(j < i)
      BY <2>1, <2>2, LeastElement
    <3>2. \A j \in sure : i =< j
      BY <2>1, <3>1
    <3> QED BY <3>2
  <2>3. ASSUME sure # {} PROVE Min(sure) \in sure
    <3> HIDE DEF sure
    <3> QED BY <2>2, <2>3 DEF Min
  <2> QED BY <2>3 DEF Range
<1>4. Reverse(likely) \in Seq(Range(Plugins))
  <2> HIDE DEF likely
  <2> QED BY <1>2 DEF Reverse
<1>5. first \in Seq(Range(Plugins))
  <2> HIDE DEF likely, maybe, sure
  <2>1. Reverse(likely) \o maybe \in Seq(Range(Plugins))
    BY <1>2, <1>4
  <2> QED BY <1>3, <2>1
<1>6. List(p) = Append(first, Generic)
  BY DEF List, plugin_manager_build_plugins_list
<1> HIDE DEF first
<1>7. first \in Seq(AllPlugins) /\ Generic \in AllPlugins
  <2>1. \A i \in 1 .. Len(first) : first[i] \in AllPlugins
    BY <1>5 DEF AllPlugins
  <2> QED BY <1>5, <2>1 DEF AllPlugins
<1> QED BY <1>6, <1>7

(* The plugin found on the list of a port is one of the list, or there is none. *)
LEMMA FindType ==
  ASSUME NEW p \in Ports, NEW from \in Nat, NEW g
  PROVE  Find(p, from, g) \in 0 .. Len(List(p))
<1> DEFINE at == IF from = 0 THEN {} ELSE {i \in from .. Len(List(p)) : List(p)[i] = g}
<1>1. Len(List(p)) \in Nat
  BY ListType
<1>2. at \in SUBSET (0 .. Len(List(p))) /\ at \in SUBSET Nat
  <2> HIDE DEF List
  <2> QED BY <1>1
<1>3. Find(p, from, g) = IF at = {} THEN 0 ELSE Min(at)
  BY DEF Find, List
<1> HIDE DEF at
<1>4. ASSUME at # {} PROVE Min(at) \in at
  <2>1. PICK i \in at : \A j \in at : ~(j < i)
    BY <1>2, <1>4, LeastElement
  <2>2. \A j \in at : i =< j
    BY <1>2, <2>1
  <2> QED BY <2>1, <2>2 DEF Min
<1>5. CASE at = {}
  BY <1>1, <1>3, <1>5
<1>6. CASE at # {}
  BY <1>2, <1>3, <1>4, <1>6
<1> QED BY <1>5, <1>6

-----------------------------------------------------------------------------
(* The invariant of one check.                                                *)

(* The ports that are asked or wait, and those that are just completing.      *)
Doing == {"checking", "deferred", "recheck", "until", "returning"}
Busy(c) == {p \in Ports : c.port[p].stage \in Doing}
Ending(c) == {p \in Ports : c.port[p].stage = "done"}
Parked == {"deferred", "recheck", "until"}

(* A port is on the list as long as it is busy or completing; only then it    *)
(* has found anything; one that waits for a suggestion has none, one that is  *)
(* to be asked again has; a cancelled one does not wait.                      *)
PortInv(c, p) ==
  LET pc == c.port[p] IN
  /\ Runs(c, p) <=> pc.stage \in Doing \cup {"done"}
  /\ pc.stage # "done" => pc.best = None
  /\ pc.stage = "until" => pc.suggested = None
  /\ pc.stage = "recheck" => pc.suggested # None
  /\ pc.stage = "checking" => pc.current # 0
  /\ pc.current \in 0 .. Len(plugin_manager_build_plugins_list(p))
  /\ pc.cancelled => pc.stage \notin Parked

(* Ports run after the minimum wait and as long as the task does; timers have *)
(* a task.                                                                    *)
Timed(c) == c.minProbing \/ c.extraProbing
Phases(c) ==
  /\ c.running # <<>> => c.task /\ ~c.minWait
  /\ c.minWait => c.minProbing
  /\ Timed(c) => c.task
  /\ c.waiting # <<>> => c.minWait

CheckInv(c) ==
  /\ c \in DeviceContexts /\ ~c.broken
  /\ \A p \in Ports : PortInv(c, p)
  /\ Phases(c)

(* Net ports are not deferred, and answer before the timers elapse.           *)
NetInv(c) ==
  \A p \in NetPorts :
    LET pc == c.port[p] IN
    /\ pc.stage # "deferred"
    /\ pc.stage = "checking" /\ pc.suggested = None /\ ~pc.cancelled => Timed(c)

(* What keeps a check going: a timer, or a port that does not only wait.      *)
Alive(c) == c.task => Timed(c) \/ (c.running # <<>> /\ ~OnlyWaiters(c, None))


(* What completing other ports in place may do to a port: it is gone, it is   *)
(* told of a plugin, or nothing.                                              *)
PortAfter(a, b) ==
  /\ b.stage = "done" <=> a.stage = "done"
  /\ b.stage \in Doing =>
       /\ b.cancelled = a.cancelled
       /\ b.stage = a.stage \/ (b.stage = "recheck" /\ a.stage = "until")
       /\ b.suggested = None => a.suggested = None

(* What it does to the check: the timers are left alone, and the ports that   *)
(* the device is told to ignore are not busy.                                 *)
Since(c, d) ==
  /\ CheckInv(d)
  /\ d.cancelled = c.cancelled /\ d.minWait = c.minWait /\ d.waiting = c.waiting
  /\ d.minProbing = c.minProbing /\ d.extraProbing = c.extraProbing
  /\ \A q \in Ports : d.port[q].stage \in Doing /\ q \in d.ignored => q \in c.ignored

After(c, d) == Since(c, d) /\ \A q \in Ports : PortAfter(c.port[q], d.port[q])

(* A check comes after itself.                                                *)
LEMMA AfterRefl ==
  ASSUME NEW c, CheckInv(c)
  PROVE  After(c, c)
BY DEF After, Since, PortAfter

(* What comes after what comes after a check comes after it.                  *)
LEMMA AfterTrans ==
  ASSUME NEW c, NEW d, NEW e, After(c, d), After(d, e)
  PROVE  After(c, e)
<1>1. ASSUME NEW q \in Ports PROVE PortAfter(c.port[q], e.port[q])
  <2>1. PortAfter(c.port[q], d.port[q]) /\ PortAfter(d.port[q], e.port[q])
    BY DEF After
  <2> QED BY <2>1 DEF PortAfter, Doing
<1>2. Since(c, e)
  <2>1. Since(c, d) /\ Since(d, e)
    BY DEF After
  <2>2. ASSUME NEW q \in Ports, e.port[q].stage \in Doing, q \in e.ignored PROVE q \in c.ignored
    <3>1. PortAfter(d.port[q], e.port[q])
      BY DEF After
    <3>2. d.port[q].stage \in Doing
      BY <2>2, <3>1 DEF PortAfter, Doing
    <3> QED BY <2>1, <2>2, <3>2 DEF Since
  <2> QED BY <2>1, <2>2 DEF Since
<1> QED BY <1>1, <1>2 DEF After

(* Nothing of this makes a net port wait with all timers elapsed.             *)
LEMMA AfterNet ==
  ASSUME NEW c, NEW d, NetInv(c), After(c, d)
  PROVE  NetInv(d)
<1>1. ASSUME NEW p \in NetPorts
      PROVE  /\ d.port[p].stage # "deferred"
             /\ d.port[p].stage = "checking" /\ d.port[p].suggested = None /\ ~d.port[p].cancelled
                  => Timed(d)
  <2>1. p \in Ports
    BY DeviceProbingAssumption
  <2>2. PortAfter(c.port[p], d.port[p])
    BY <2>1 DEF After
  <2>3. /\ c.port[p].stage # "deferred"
        /\ c.port[p].stage = "checking" /\ c.port[p].suggested = None /\ ~c.port[p].cancelled
             => Timed(c)
    BY DEF NetInv
  <2>4. Timed(d) = Timed(c)
    BY DEF After, Since, Timed
  <2> QED BY <2>2, <2>3, <2>4 DEF PortAfter, Doing
<1> QED BY <1>1 DEF NetInv

(* The list of plugins to ask on a port is only looked at through its length. *)
LEMMA NoPortContextType ==
  NoPortContext \in PortContexts
BY DEF NoPortContext, PortContexts, Stages

(* The fields of a check.                                                     *)
LEMMA CheckFields ==
  ASSUME NEW c \in DeviceContexts
  PROVE  /\ c.task \in BOOLEAN /\ c.cancelled \in BOOLEAN /\ c.minWait \in BOOLEAN
         /\ c.minProbing \in BOOLEAN /\ c.extraProbing \in BOOLEAN
         /\ c.waiting \in Seq(Ports) /\ c.running \in Seq(Ports)
         /\ c.port \in [Ports -> PortContexts] /\ c.best \in AllPlugins \cup {None}
         /\ c.result \in Results /\ c.ignored \in SUBSET Ports
         /\ c.stale \in BOOLEAN /\ c.broken \in BOOLEAN
BY DEF DeviceContexts

(* The fields of a port context.                                              *)
LEMMA PortFields ==
  ASSUME NEW c \in DeviceContexts, NEW p \in Ports
  PROVE  /\ c.port[p] \in PortContexts /\ c.port[p].stage \in Stages
         /\ c.port[p].cancelled \in BOOLEAN /\ c.port[p].current \in Nat
         /\ c.port[p].best \in AllPlugins \cup {None}
         /\ c.port[p].suggested \in AllPlugins \cup {None}
<1>1. c.port \in [Ports -> PortContexts]
  BY CheckFields
<1>2. c.port[p] \in PortContexts
  BY <1>1
<1> QED BY <1>2 DEF PortContexts

(* One port context is changed and nothing else.                              *)
PortSet(c, p, x) == [c EXCEPT !.port[p] = x]

(* Changing a port context changes nothing else of the check.                 *)
LEMMA PortSetType ==
  ASSUME NEW c \in DeviceContexts, NEW p \in Ports, NEW x \in PortContexts
  PROVE  LET d == PortSet(c, p, x) IN
         /\ d \in DeviceContexts
         /\ d.task = c.task /\ d.cancelled = c.cancelled /\ d.minWait = c.minWait
         /\ d.minProbing = c.minProbing /\ d.extraProbing = c.extraProbing
         /\ d.waiting = c.waiting /\ d.running = c.running /\ d.best = c.best
         /\ d.result = c.result /\ d.ignored = c.ignored /\ d.stale = c.stale
         /\ d.broken = c.broken
         /\ d.port[p] = x /\ \A q \in Ports : q # p => d.port[q] = c.port[q]
BY DEF PortSet, DeviceContexts

(* A check stays in order when the port context that changes does.            *)
LEMMA PortSetInv ==
  ASSUME NEW c, CheckInv(c), NEW p \in Ports, NEW x \in PortContexts,
         PortInv(PortSet(c, p, x), p)
  PROVE  CheckInv(PortSet(c, p, x))
<1> DEFINE d == PortSet(c, p, x)
<1>1. c \in DeviceContexts /\ ~c.broken
  BY DEF CheckInv
<1>2. /\ d \in DeviceContexts /\ d.broken = c.broken /\ d.running = c.running
      /\ d.task = c.task /\ d.minWait = c.minWait /\ d.waiting = c.waiting
      /\ d.minProbing = c.minProbing /\ d.extraProbing = c.extraProbing
      /\ d.port[p] = x /\ \A q \in Ports : q # p => d.port[q] = c.port[q]
  BY <1>1, PortSetType
<1> HIDE DEF d
<1>3. ASSUME NEW q \in Ports PROVE PortInv(d, q)
  <2>1. CASE q = p
    BY <2>1 DEF d
  <2>2. CASE q # p
    <3>1. PortInv(c, q)
      BY DEF CheckInv
    <3> QED BY <1>2, <2>2, <3>1 DEF PortInv, Runs
  <2> QED BY <2>1, <2>2
<1>4. Phases(d)
  BY <1>2 DEF CheckInv, Phases, Timed
<1>5. CheckInv(d)
  BY <1>1, <1>2, <1>3, <1>4 DEF CheckInv
<1> QED BY <1>5 DEF d

(* The ports left to complete are fewer when one is completing.               *)
LEMMA FewerBusy ==
  ASSUME NEW c, NEW d, NEW n \in Nat, Cardinality(Busy(c)) =< n,
         Busy(d) \subseteq Busy(c)
  PROVE  Cardinality(Busy(d)) =< n
<1>1. IsFiniteSet(Ports) /\ Busy(c) \subseteq Ports
  BY SupportCheckAssumption DEF Busy
<1>2. IsFiniteSet(Busy(c))
  BY <1>1, FS_Subset
<1>3. /\ IsFiniteSet(Busy(d)) /\ Cardinality(Busy(d)) =< Cardinality(Busy(c))
  BY <1>2, FS_Subset
<1>4. Cardinality(Busy(c)) \in Nat /\ Cardinality(Busy(d)) \in Nat
  BY <1>2, <1>3, FS_CardinalityType
<1> QED BY <1>3, <1>4

(* A port that is not busy any more leaves one busy port less.                *)
LEMMA OneLessBusy ==
  ASSUME NEW c, NEW d, NEW n \in Nat, Cardinality(Busy(c)) =< n + 1,
         NEW p \in Busy(c), Busy(d) \subseteq Busy(c) \ {p}
  PROVE  Cardinality(Busy(d)) =< n
<1>1. IsFiniteSet(Ports) /\ Busy(c) \subseteq Ports
  BY SupportCheckAssumption DEF Busy
<1>2. IsFiniteSet(Busy(c))
  BY <1>1, FS_Subset
<1>3. IsFiniteSet(Busy(c) \ {p}) /\ Cardinality(Busy(c) \ {p}) = Cardinality(Busy(c)) - 1
  BY <1>2, FS_RemoveElement
<1>4. /\ IsFiniteSet(Busy(d)) /\ Cardinality(Busy(d)) =< Cardinality(Busy(c) \ {p})
  BY <1>3, FS_Subset
<1>5. Cardinality(Busy(c)) \in Nat /\ Cardinality(Busy(d)) \in Nat
  BY <1>2, <1>4, FS_CardinalityType
<1> QED BY <1>3, <1>4, <1>5
-----------------------------------------------------------------------------
(* Completion, and what it sets off in place.                                 *)

(* Using a freed port context keeps the check in order.                       *)
LEMMA StaleKeeps ==
  ASSUME NEW c, CheckInv(c)
  PROVE  LET d == [c EXCEPT !.stale = TRUE] IN After(c, d) /\ (Alive(c) => Alive(d))
<1> DEFINE d == [c EXCEPT !.stale = TRUE]
<1>1. /\ d \in DeviceContexts /\ d.port = c.port /\ d.running = c.running /\ d.broken = c.broken
      /\ d.task = c.task /\ d.cancelled = c.cancelled /\ d.minWait = c.minWait
      /\ d.minProbing = c.minProbing /\ d.extraProbing = c.extraProbing
      /\ d.waiting = c.waiting /\ d.ignored = c.ignored
  BY DEF CheckInv, DeviceContexts
<1> HIDE DEF d
<1>2. CheckInv(d)
  <2>1. \A q \in Ports : PortInv(c, q) => PortInv(d, q)
    BY <1>1 DEF PortInv, Runs
  <2>2. Phases(c) => Phases(d)
    BY <1>1 DEF Phases, Timed
  <2> QED BY <1>1, <2>1, <2>2 DEF CheckInv
<1>3. After(c, d)
  BY <1>1, <1>2 DEF After, Since, PortAfter
<1>4. Alive(c) => Alive(d)
  BY <1>1 DEF Alive, Timed, OnlyWaiters
<1> QED BY <1>3, <1>4 DEF d

(* Completing a port that waits for a suggestion leaves a check that goes on. *)
Completes(f, n) ==
  \A c \in DeviceContexts, p \in Ports :
    CheckInv(c) /\ c.port[p].stage = "until" /\ Cardinality(Busy(c)) =< n
      => After(c, f[c][p]) /\ Alive(f[c][p])

(* Nothing that completes in place makes another port busy.                   *)
LEMMA AfterBusy ==
  ASSUME NEW c, NEW d, After(c, d)
  PROVE  Busy(d) \subseteq Busy(c) /\ Ending(d) = Ending(c)
<1>1. \A q \in Ports : PortAfter(c.port[q], d.port[q])
  BY DEF After
<1> QED BY <1>1 DEF Busy, Ending, PortAfter, Doing

(* A change of one port context.                                              *)
LEMMA PortSetAfter ==
  ASSUME NEW c, CheckInv(c), NEW p \in Ports, NEW x \in PortContexts,
         PortInv(PortSet(c, p, x), p), PortAfter(c.port[p], x)
  PROVE  After(c, PortSet(c, p, x))
<1> DEFINE d == PortSet(c, p, x)
<1>1. c \in DeviceContexts
  BY DEF CheckInv
<1>2. /\ d.ignored = c.ignored
      /\ d.cancelled = c.cancelled /\ d.minWait = c.minWait /\ d.waiting = c.waiting
      /\ d.minProbing = c.minProbing /\ d.extraProbing = c.extraProbing
      /\ d.port[p] = x /\ \A q \in Ports : q # p => d.port[q] = c.port[q]
  BY <1>1, PortSetType
<1>3. CheckInv(d)
  BY PortSetInv
<1> HIDE DEF d
<1>4. \A q \in Ports : PortAfter(c.port[q], d.port[q])
  BY <1>2 DEF PortAfter
<1>5. After(c, d)
  BY <1>2, <1>3, <1>4 DEF After, Since
<1> QED BY <1>5 DEF d

(* A suggestion to a port keeps the check in order, whatever it completes.    *)
LEMMA SuggestionKeeps ==
  ASSUME NEW f, NEW n \in Nat, Completes(f, n),
         NEW c, CheckInv(c), Cardinality(Busy(c)) =< n, NEW p \in Ports,
         NEW g \in AllPlugins \cup {None}
  PROVE  LET d == port_context_set_suggestion(f, c, p, g) IN
         /\ After(c, d)
         /\ g = None /\ (Alive(c) \/ (Runs(c, p) /\ c.port[p].stage = "until")) => Alive(d)
<1> DEFINE d == port_context_set_suggestion(f, c, p, g)
           pc == c.port[p]
<1>1. c \in DeviceContexts /\ PortInv(c, p)
  BY DEF CheckInv
<1>2. /\ pc \in PortContexts /\ pc.stage \in Stages /\ pc.cancelled \in BOOLEAN
      /\ pc.current \in Nat /\ pc.best \in AllPlugins \cup {None}
      /\ pc.suggested \in AllPlugins \cup {None}
  BY <1>1, PortFields
<1>3. CASE ~Runs(c, p)
  <2>1. d = [c EXCEPT !.stale = TRUE]
    BY <1>3 DEF port_context_set_suggestion
  <2> HIDE DEF d
  <2>2. After(c, d) /\ (Alive(c) => Alive(d))
    BY <2>1, StaleKeeps
  <2> QED BY <2>2, <1>3 DEF d
<1>4. CASE Runs(c, p) /\ (pc.best # None \/ pc.suggested # None)
  <2>1. d = c
    BY <1>4 DEF port_context_set_suggestion
  <2>2. pc.stage # "until"
    BY <1>1, <1>4 DEF PortInv
  <2> HIDE DEF d
  <2>3. After(c, d) /\ (Alive(c) => Alive(d))
    BY <2>1, AfterRefl
  <2> QED BY <2>2, <2>3 DEF d
<1>5. CASE Runs(c, p) /\ pc.best = None /\ pc.suggested = None /\ pc.stage = "until" /\ g = None
  <2>1. d = f[c][p]
    BY <1>5 DEF port_context_set_suggestion
  <2>2. After(c, f[c][p]) /\ Alive(f[c][p])
    BY <1>1, <1>5 DEF Completes
  <2> HIDE DEF d
  <2>3. After(c, d) /\ Alive(d)
    BY <2>1, <2>2
  <2> QED BY <2>3 DEF d
<1>6. CASE Runs(c, p) /\ pc.best = None /\ pc.suggested = None /\ pc.stage = "until" /\ g # None
  <2> DEFINE x == [pc EXCEPT !.stage = "recheck", !.suggested = g, !.current = Find(p, pc.current, g)]
  <2>1. d = PortSet(c, p, x)
    <3>1. d = [c EXCEPT !.port[p].stage = "recheck", !.port[p].suggested = g,
                        !.port[p].current = Find(p, pc.current, g)]
      BY <1>6 DEF port_context_set_suggestion
    <3>2. c.port \in [Ports -> PortContexts]
      BY <1>1, CheckFields
    <3> QED BY <3>1, <3>2, <1>1 DEF PortSet, DeviceContexts, PortContexts
  <2>2. Find(p, pc.current, g) \in 0 .. Len(List(p)) /\ Len(List(p)) \in Nat
    BY <1>2, FindType, ListType
  <2>3. /\ x \in PortContexts /\ x.stage = "recheck" /\ x.suggested = g /\ x.best = pc.best
        /\ x.current = Find(p, pc.current, g) /\ x.cancelled = pc.cancelled
    <3> HIDE DEF List
    <3>1. Find(p, pc.current, g) \in Nat
      BY <2>2
    <3> QED BY <1>2, <3>1 DEF PortContexts, Stages
  <2> HIDE DEF x
  <2> DEFINE e == PortSet(c, p, x)
  <2>4. e.running = c.running /\ e.port[p] = x
    BY <1>1, <2>3, PortSetType
  <2> HIDE DEF e, d
  <2>5. PortInv(e, p)
    BY <1>1, <1>6, <2>2, <2>3, <2>4 DEF PortInv, Runs, Doing, Parked, List
  <2>6. PortAfter(pc, x)
    BY <1>6, <2>3 DEF PortAfter
  <2>7. After(c, e)
    BY <2>3, <2>5, <2>6, PortSetAfter DEF e
  <2> QED BY <1>6, <2>1, <2>7 DEF d, e
<1>7. CASE Runs(c, p) /\ pc.best = None /\ pc.suggested = None /\ pc.stage # "until"
           /\ g \in {None, Generic} \cup NoIcera
  <2>1. d = c
    BY <1>7 DEF port_context_set_suggestion
  <2> HIDE DEF d
  <2>3. After(c, d) /\ (Alive(c) => Alive(d))
    BY <2>1, AfterRefl
  <2> QED BY <1>7, <2>3 DEF d
<1>8. CASE Runs(c, p) /\ pc.best = None /\ pc.suggested = None /\ pc.stage # "until"
           /\ g \notin {None, Generic} \cup NoIcera
  <2> DEFINE x == [pc EXCEPT !.suggested = g]
  <2>1. d = PortSet(c, p, x)
    <3>1. d = [c EXCEPT !.port[p].suggested = g]
      BY <1>8 DEF port_context_set_suggestion
    <3> QED BY <3>1 DEF PortSet
  <2>3. /\ x \in PortContexts /\ x.stage = pc.stage /\ x.suggested = g /\ x.best = pc.best
        /\ x.current = pc.current /\ x.cancelled = pc.cancelled
    BY <1>2 DEF PortContexts
  <2> HIDE DEF x
  <2> DEFINE e == PortSet(c, p, x)
  <2>4. e.running = c.running /\ e.port[p] = x
    BY <1>1, <2>3, PortSetType
  <2> HIDE DEF e, d
  <2>5. PortInv(e, p)
    BY <1>1, <1>8, <2>3, <2>4 DEF PortInv, Runs
  <2>6. PortAfter(pc, x)
    BY <1>8, <2>3 DEF PortAfter
  <2>7. After(c, e)
    BY <2>3, <2>5, <2>6, PortSetAfter DEF e
  <2> QED BY <1>8, <2>1, <2>7 DEF d, e
<1> QED BY <1>3, <1>4, <1>5, <1>6, <1>7, <1>8

(* If all running ports only wait, all but one do.                            *)
LEMMA OnlyWaitersAll ==
  ASSUME NEW c \in DeviceContexts, NEW p, OnlyWaiters(c, None)
  PROVE  OnlyWaiters(c, p)
<1>1. Range(c.running) \subseteq Ports
  BY CheckFields, RangeElements
<1> QED BY <1>1, SupportCheckAssumption DEF OnlyWaiters

(* A suggestion to all of them; that there is none ends the wait of the first.*)
LEMMA SuggestKeeps ==
  ASSUME NEW f, NEW n \in Nat, Completes(f, n),
         NEW c, CheckInv(c), Cardinality(Busy(c)) =< n, NEW p,
         NEW g \in AllPlugins \cup {None}
  PROVE  LET d == device_context_suggest_plugin(f, c, p, g) IN
         /\ After(c, d)
         /\ g = None /\ c.running # <<>> /\ OnlyWaiters(c, None) => Alive(d)
<1> DEFINE d == device_context_suggest_plugin(f, c, p, g)
           m == Len(c.running)
<1>1. c \in DeviceContexts /\ c.running \in Seq(Ports)
  BY CheckFields DEF CheckInv
<1>2. CASE g # None \/ OnlyWaiters(c, p)
  <2>1. PICK w : /\ w[0] = c
                 /\ \A i \in 1 .. Len(c.running) :
                      w[i] = port_context_set_suggestion(f, w[i - 1], c.running[i], g)
                 /\ d = w[Len(c.running)]
    <3>1. SuggestSteps(f, c, p, g)
      BY <1>1, <1>2, SuggestWalk
    <3> QED BY <3>1 DEF SuggestSteps
  <2>2. m \in Nat /\ \A i \in 1 .. m : c.running[i] \in Ports
    BY <1>1
  <2> DEFINE Wait == g = None /\ OnlyWaiters(c, None)
             S == [i \in 0 .. m |-> {e \in {w[i]} : After(c, e) /\ (Wait /\ i > 0 => Alive(e))}]
  <2>3. w[0] \in S[0]
    BY <2>1, <2>2, AfterRefl
  <2>4. ASSUME NEW i \in 1 .. m, w[i - 1] \in S[i - 1] PROVE w[i] \in S[i]
    <3>1. i - 1 \in 0 .. m /\ i \in 0 .. m /\ c.running[i] \in Ports
      BY <2>2
    <3>2. After(c, w[i - 1]) /\ (Wait /\ i - 1 > 0 => Alive(w[i - 1]))
      BY <2>4, <3>1
    <3> DEFINE a == w[i - 1]
               q == c.running[i]
    <3>3. CheckInv(a) /\ Cardinality(Busy(a)) =< n
      BY <3>2, AfterBusy, FewerBusy DEF After, Since
    <3>4. w[i] = port_context_set_suggestion(f, a, q, g)
      BY <2>1
    <3> HIDE DEF a, q
    <3>5. /\ After(a, w[i])
          /\ g = None /\ (Alive(a) \/ (Runs(a, q) /\ a.port[q].stage = "until")) => Alive(w[i])
      <4>1. q \in Ports
        BY <3>1 DEF q
      <4> QED BY <3>3, <3>4, <4>1, SuggestionKeeps
    <3>6. After(c, w[i])
      BY <3>2, <3>5, AfterTrans DEF a
    <3>7. ASSUME Wait, i = 1 PROVE Alive(w[i])
      <4>1. a = c
        BY <2>1, <3>7 DEF a
      <4>2. q \in Range(c.running) \ {None}
        <5>1. q \in Range(c.running)
          BY <1>1, <2>2, RangeElements DEF q
        <5>2. q \in Ports
          BY <3>1 DEF q
        <5> QED BY <5>1, <5>2, SupportCheckAssumption
      <4>3. Runs(c, q) /\ c.port[q].stage = "until"
        BY <3>7, <4>2 DEF OnlyWaiters, Runs
      <4> QED BY <3>5, <3>7, <4>1, <4>3
    <3>8. ASSUME Wait, i # 1 PROVE Alive(w[i])
      <4>1. i - 1 > 0
        BY <3>8, <2>2
      <4> QED BY <3>2, <3>5, <3>8, <4>1 DEF a
    <3> QED BY <3>1, <3>6, <3>7, <3>8
  <2> HIDE DEF S, Wait
  <2>5. w[m] \in S[m]
    <3> HIDE DEF m
    <3> QED BY <2>2, <2>3, <2>4, Walked
  <2>6. After(c, d) /\ (Wait /\ m > 0 => Alive(d))
    <3>1. m \in 0 .. m /\ d = w[m]
      BY <2>1, <2>2
    <3> HIDE DEF m, d
    <3> QED BY <2>5, <3>1 DEF S
  <2>7. c.running # <<>> => m > 0
    BY <1>1
  <2> QED BY <2>6, <2>7 DEF Wait
<1>3. CASE g = None /\ ~OnlyWaiters(c, p)
  <2>1. d = c
    BY <1>3 DEF device_context_suggest_plugin
  <2>2. After(c, c) /\ ~OnlyWaiters(c, p)
    BY <1>3, AfterRefl
  <2> HIDE DEF d
  <2>3. g = None /\ c.running # <<>> /\ OnlyWaiters(c, None) => Alive(d)
    BY <1>1, <1>3, OnlyWaitersAll
  <2> QED BY <2>1, <2>2, <2>3 DEF d
<1> QED BY <1>2, <1>3
-----------------------------------------------------------------------------
(* What is found is kept by the check, what is ignored is not busy.           *)
LEMMA FoundKeeps ==
  ASSUME NEW c, CheckInv(c), NEW g \in AllPlugins \cup {None}
  PROVE  After(c, [c EXCEPT !.best = g])
<1> DEFINE d == [c EXCEPT !.best = g]
<1>1. /\ d \in DeviceContexts /\ d.port = c.port /\ d.running = c.running /\ d.broken = c.broken
      /\ d.task = c.task /\ d.cancelled = c.cancelled /\ d.minWait = c.minWait
      /\ d.minProbing = c.minProbing /\ d.extraProbing = c.extraProbing
      /\ d.waiting = c.waiting /\ d.ignored = c.ignored
  BY DEF CheckInv, DeviceContexts
<1> HIDE DEF d
<1>2. CheckInv(d)
  <2>1. \A q \in Ports : PortInv(c, q) => PortInv(d, q)
    BY <1>1 DEF PortInv, Runs
  <2>2. Phases(c) => Phases(d)
    BY <1>1 DEF Phases, Timed
  <2> QED BY <1>1, <2>1, <2>2 DEF CheckInv
<1>3. After(c, d)
  BY <1>1, <1>2 DEF After, Since, PortAfter
<1> QED BY <1>3 DEF d

(* So does having the device ignore a port.                                   *)
LEMMA IgnoredKeeps ==
  ASSUME NEW c, CheckInv(c), NEW p \in Ports, c.port[p].stage = "done"
  PROVE  After(c, [c EXCEPT !.ignored = @ \cup {p}])
<1> DEFINE d == [c EXCEPT !.ignored = @ \cup {p}]
<1>1. /\ d \in DeviceContexts /\ d.port = c.port /\ d.running = c.running /\ d.broken = c.broken
      /\ d.task = c.task /\ d.cancelled = c.cancelled /\ d.minWait = c.minWait
      /\ d.minProbing = c.minProbing /\ d.extraProbing = c.extraProbing
      /\ d.waiting = c.waiting /\ d.ignored = c.ignored \cup {p}
  BY DEF CheckInv, DeviceContexts
<1> HIDE DEF d
<1>2. CheckInv(d)
  <2>1. \A q \in Ports : PortInv(c, q) => PortInv(d, q)
    BY <1>1 DEF PortInv, Runs
  <2>2. Phases(c) => Phases(d)
    BY <1>1 DEF Phases, Timed
  <2> QED BY <1>1, <2>1, <2>2 DEF CheckInv
<1>3. After(c, d)
  BY <1>1, <1>2 DEF After, Since, PortAfter, Doing
<1> QED BY <1>3 DEF d

(* So does setting the best plugin with the suggestions that it makes.        *)
LEMMA BestKeeps ==
  ASSUME NEW f, NEW n \in Nat, Completes(f, n),
         NEW c, CheckInv(c), Cardinality(Busy(c)) =< n,
         NEW p \in Ports, c.port[p].stage = "done", NEW g \in AllPlugins \cup {None}
  PROVE  After(c, device_context_set_best_plugin(f, c, p, g))
<1> DEFINE d == device_context_set_best_plugin(f, c, p, g)
<1>1. CASE g = None /\ c.best # None
  <2>1. d = c
    BY <1>1 DEF device_context_set_best_plugin
  <2> QED BY <2>1, AfterRefl
<1>2. CASE g = None /\ c.best = None
  <2> DEFINE e == [c EXCEPT !.ignored = @ \cup {p}]
  <2>1. d = device_context_suggest_plugin(f, e, p, None)
    BY <1>2 DEF device_context_set_best_plugin
  <2>2. After(c, e)
    BY IgnoredKeeps
  <2> HIDE DEF e, d
  <2>3. CheckInv(e) /\ Cardinality(Busy(e)) =< n
    BY <2>2, AfterBusy, FewerBusy DEF After, Since
  <2>4. After(e, d)
    BY <2>1, <2>3, SuggestKeeps
  <2>5. After(c, d)
    BY <2>2, <2>4, AfterTrans
  <2> QED BY <2>5 DEF d
<1>3. CASE g # None /\ (c.best = None \/ (c.best = Generic /\ g # Generic))
  <2> DEFINE e == [c EXCEPT !.best = g]
  <2>1. d = device_context_suggest_plugin(f, e, p, g)
    BY <1>3 DEF device_context_set_best_plugin
  <2>2. After(c, e)
    BY FoundKeeps
  <2> HIDE DEF e, d
  <2>3. CheckInv(e) /\ Cardinality(Busy(e)) =< n
    BY <2>2, AfterBusy, FewerBusy DEF After, Since
  <2>4. After(e, d)
    BY <2>1, <2>3, SuggestKeeps
  <2>5. After(c, d)
    BY <2>2, <2>4, AfterTrans
  <2> QED BY <2>5 DEF d
<1>4. CASE /\ g # None /\ ~(c.best = None \/ (c.best = Generic /\ g # Generic))
           /\ g \in OnlyIcera /\ c.best \in NoIcera
  <2>1. d = [c EXCEPT !.best = g]
    BY <1>4 DEF device_context_set_best_plugin
  <2> QED BY <2>1, FoundKeeps
<1>5. CASE /\ g # None /\ ~(c.best = None \/ (c.best = Generic /\ g # Generic))
           /\ ~(g \in OnlyIcera /\ c.best \in NoIcera)
  <2>1. d = c
    BY <1>5 DEF device_context_set_best_plugin
  <2> QED BY <2>1, AfterRefl
<1> QED BY <1>1, <1>2, <1>3, <1>4, <1>5

(* So does what a port that is done tells the others.                         *)
LEMMA ToldKeeps ==
  ASSUME NEW f, NEW n \in Nat, Completes(f, n),
         NEW c, CheckInv(c), Cardinality(Busy(c)) =< n,
         NEW p \in Ports, c.port[p].stage = "done"
  PROVE  After(c, Told(f, c, p))
<1>1. c.port[p].best \in AllPlugins \cup {None}
  BY PortFields DEF CheckInv
<1>2. CASE c.port[p].cancelled
  BY <1>2, AfterRefl DEF Told
<1>3. CASE ~c.port[p].cancelled
  <2>1. Told(f, c, p) = device_context_set_best_plugin(f, c, p, c.port[p].best)
    BY <1>3 DEF Told
  <2> QED BY <1>1, <2>1, BestKeeps
<1> QED BY <1>2, <1>3

(* A port that is done leaves the list, on which it still is.                 *)
LEMMA DroppedKeeps ==
  ASSUME NEW c, CheckInv(c), NEW p \in Ports, c.port[p].stage = "done"
  PROVE  LET d == Dropped(c, p) IN
         /\ Since(c, d) /\ d.task /\ ~d.minWait
         /\ d.port[p] = NoPortContext /\ \A q \in Ports : q # p => d.port[q] = c.port[q]
<1> DEFINE d == Dropped(c, p)
<1>1. c \in DeviceContexts /\ ~c.broken /\ PortInv(c, p) /\ Phases(c)
  BY DEF CheckInv
<1>2. /\ c.running \in Seq(Ports) /\ c.port \in [Ports -> PortContexts] /\ c.broken \in BOOLEAN
  BY <1>1, CheckFields
<1>3. Runs(c, p)
  BY <1>1 DEF PortInv
<1>4. /\ Without(c.running, p) \in Seq(Ports)
      /\ Range(Without(c.running, p)) = Range(c.running) \ {p}
  BY <1>2, WithoutElements
<1>5. /\ d \in DeviceContexts /\ d.running = Without(c.running, p)
      /\ d.port = [c.port EXCEPT ![p] = NoPortContext] /\ d.broken = (c.broken \/ ~Runs(c, p))
      /\ d.task = c.task /\ d.cancelled = c.cancelled /\ d.minWait = c.minWait
      /\ d.minProbing = c.minProbing /\ d.extraProbing = c.extraProbing
      /\ d.waiting = c.waiting /\ d.ignored = c.ignored
  <2> DEFINE e == [c EXCEPT !.running = Without(@, p), !.port[p] = NoPortContext,
                            !.broken = @ \/ ~Runs(c, p)]
  <2>1. d = e
    BY DEF Dropped
  <2>2. [c.port EXCEPT ![p] = NoPortContext] \in [Ports -> PortContexts]
    BY <1>2, NoPortContextType
  <2>3. (c.broken \/ ~Runs(c, p)) \in BOOLEAN
    OBVIOUS
  <2> HIDE DEF d
  <2> QED BY <1>1, <1>4, <2>1, <2>2, <2>3 DEF DeviceContexts
<1>6. d.port[p] = NoPortContext /\ \A q \in Ports : q # p => d.port[q] = c.port[q]
  BY <1>2, <1>5
<1>7. c.running # <<>>
  BY <1>2, <1>3, RangeElements DEF Runs
<1>8. c.task /\ ~c.minWait
  BY <1>1, <1>7 DEF Phases
<1> HIDE DEF d
<1>9. ASSUME NEW q \in Ports PROVE PortInv(d, q)
  <2>1. CASE q = p
    <3>1. ~Runs(d, p)
      BY <1>4, <1>5 DEF Runs
    <3>2. d.port[p] = NoPortContext
      BY <1>6
    <3>3. Len(plugin_manager_build_plugins_list(p)) \in Nat
      BY ListType DEF List
    <3> QED BY <2>1, <3>1, <3>2, <3>3 DEF PortInv, NoPortContext, Doing, Parked
  <2>2. CASE q # p
    <3>1. PortInv(c, q) /\ d.port[q] = c.port[q]
      BY <1>6, <2>2 DEF CheckInv
    <3>2. Runs(d, q) <=> Runs(c, q)
      BY <1>4, <1>5, <2>2 DEF Runs
    <3> QED BY <3>1, <3>2 DEF PortInv
  <2> QED BY <2>1, <2>2
<1>10. Phases(d)
  BY <1>1, <1>5, <1>8 DEF Phases, Timed
<1>11. ~d.broken
  BY <1>1, <1>3, <1>5
<1>12. CheckInv(d)
  BY <1>5, <1>9, <1>10, <1>11 DEF CheckInv
<1>13. Since(c, d)
  BY <1>5, <1>12 DEF Since
<1> QED BY <1>5, <1>6, <1>8, <1>13 DEF d

(* The check is continued: it ends, or it is alive.                           *)
LEMMA ContinueKeeps ==
  ASSUME NEW f, NEW n \in Nat, Completes(f, n),
         NEW c, CheckInv(c), Cardinality(Busy(c)) =< n,
         c.running = <<>> => Timed(c) \/ (c.task /\ ~c.minWait)
  PROVE  LET d == device_context_continue(f, c) IN After(c, d) /\ Alive(d)
<1> DEFINE d == device_context_continue(f, c)
<1>1. c \in DeviceContexts /\ ~c.broken /\ Phases(c)
  BY DEF CheckInv
<1>2. CASE c.running = <<>> /\ Timed(c)
  <2>1. d = c
    BY <1>2 DEF device_context_continue, device_context_complete, Timed
  <2>2. After(c, c) /\ Alive(c)
    BY <1>2, AfterRefl DEF Alive
  <2> QED BY <2>1, <2>2
<1>3. CASE c.running = <<>> /\ ~Timed(c)
  <2> DEFINE r == IF c.cancelled THEN "cancelled"
                  ELSE IF c.best = None THEN "unsupported" ELSE c.best
  <2>1. d = [c EXCEPT !.task = FALSE, !.broken = @ \/ c.minWait, !.result = r]
    BY <1>3 DEF device_context_continue, device_context_complete, Timed
  <2>2. r \in Results /\ c.broken \in BOOLEAN /\ c.minWait \in BOOLEAN
    BY <1>1, CheckFields DEF Results
  <2> HIDE DEF r
  <2>3. /\ d \in DeviceContexts /\ d.port = c.port /\ d.running = c.running
        /\ d.broken = (c.broken \/ c.minWait)
        /\ d.task = FALSE /\ d.cancelled = c.cancelled /\ d.minWait = c.minWait
        /\ d.minProbing = c.minProbing /\ d.extraProbing = c.extraProbing
        /\ d.waiting = c.waiting /\ d.ignored = c.ignored
    <3> HIDE DEF d
    <3> QED BY <1>1, <2>1, <2>2 DEF DeviceContexts
  <2> HIDE DEF d
  <2>4. CheckInv(d)
    <3>1. \A q \in Ports : PortInv(c, q) => PortInv(d, q)
      BY <2>3 DEF PortInv, Runs
    <3>2. Phases(d)
      BY <1>1, <1>3, <2>3 DEF Phases, Timed
    <3>3. ~d.broken
      BY <1>1, <1>3, <2>3
    <3> QED BY <2>3, <3>1, <3>2, <3>3 DEF CheckInv
  <2>5. After(c, d)
    BY <2>3, <2>4 DEF After, Since, PortAfter
  <2>6. Alive(d)
    BY <2>3 DEF Alive
  <2> QED BY <2>5, <2>6 DEF d
<1>4. CASE c.running # <<>> /\ OnlyWaiters(c, None)
  <2>1. d = device_context_suggest_plugin(f, c, None, None)
    BY <1>4 DEF device_context_continue
  <2> HIDE DEF d
  <2>2. After(c, d) /\ Alive(d)
    BY <1>4, <2>1, SuggestKeeps
  <2> QED BY <2>2 DEF d
<1>5. CASE c.running # <<>> /\ ~OnlyWaiters(c, None)
  <2>1. d = c
    BY <1>5 DEF device_context_continue
  <2>2. After(c, c) /\ Alive(c)
    BY <1>5, AfterRefl DEF Alive
  <2> QED BY <2>1, <2>2
<1> QED BY <1>2, <1>3, <1>4, <1>5
-----------------------------------------------------------------------------
(* A port that completes in place, and whatever it takes with it.             *)
Gone(c, d, p) ==
  /\ Since(c, d) /\ Alive(d) /\ d.port[p].stage \notin Doing \cup {"done"}
  /\ \A q \in Ports : q # p => PortAfter(c.port[q], d.port[q])

(* A port that is done goes and the check continues or is completed.          *)
LEMMA RunReady ==
  ASSUME NEW f, NEW n \in Nat, Completes(f, n),
         NEW c, CheckInv(c), Cardinality(Busy(c)) =< n,
         NEW p \in Ports, c.port[p].stage = "done"
  PROVE  Gone(c, port_context_run_ready(f, c, p), p)
<1> DEFINE t == Told(f, c, p)
           e == Dropped(t, p)
           d == device_context_continue(f, e)
<1>1. d = port_context_run_ready(f, c, p)
  BY DEF port_context_run_ready
<1>2. After(c, t)
  BY ToldKeeps
<1> HIDE DEF t
<1>3. /\ CheckInv(t) /\ t.port[p].stage = "done" /\ Cardinality(Busy(t)) =< n
  <2>1. PortAfter(c.port[p], t.port[p])
    BY <1>2 DEF After
  <2>2. CheckInv(t) /\ Cardinality(Busy(t)) =< n
    BY <1>2, AfterBusy, FewerBusy DEF After, Since
  <2> QED BY <2>1, <2>2 DEF PortAfter
<1>4. /\ Since(t, e) /\ e.task /\ ~e.minWait
      /\ e.port[p] = NoPortContext /\ \A q \in Ports : q # p => e.port[q] = t.port[q]
  BY <1>3, DroppedKeeps
<1> HIDE DEF e
<1>5. CheckInv(e) /\ Cardinality(Busy(e)) =< n
  <2>1. Busy(e) \subseteq Busy(t)
    BY <1>4 DEF Busy, NoPortContext, Doing
  <2> QED BY <1>3, <1>4, <2>1, FewerBusy DEF Since
<1>6. After(e, d) /\ Alive(d)
  BY <1>4, <1>5, ContinueKeeps
<1> HIDE DEF d
<1>7. d.port[p].stage \notin Doing \cup {"done"}
  <2>1. PortAfter(e.port[p], d.port[p])
    BY <1>6 DEF After
  <2>2. e.port[p].stage = "none"
    <3>1. NoPortContext.stage = "none"
      BY DEF NoPortContext
    <3> QED BY <1>4, <3>1
  <2> QED BY <2>1, <2>2 DEF PortAfter, Doing
<1>8. ASSUME NEW q \in Ports, q # p PROVE PortAfter(c.port[q], d.port[q])
  <2>1. PortAfter(c.port[q], t.port[q]) /\ e.port[q] = t.port[q]
    BY <1>2, <1>4, <1>8 DEF After
  <2>2. PortAfter(e.port[q], d.port[q])
    BY <1>6 DEF After
  <2> QED BY <2>1, <2>2 DEF PortAfter, Doing
<1>9. Since(c, d)
  <2>1. Since(c, t) /\ Since(t, e) /\ Since(e, d)
    BY <1>2, <1>4, <1>6 DEF After
  <2>2. ASSUME NEW q \in Ports, d.port[q].stage \in Doing, q \in d.ignored PROVE q \in c.ignored
    <3>1. q # p
      BY <1>7, <2>2
    <3>2. /\ PortAfter(e.port[q], d.port[q]) /\ e.port[q] = t.port[q]
      BY <1>4, <1>6, <3>1 DEF After
    <3>3. e.port[q].stage \in Doing /\ t.port[q].stage \in Doing
      BY <2>2, <3>2 DEF PortAfter, Doing
    <3> QED BY <2>1, <2>2, <3>3 DEF Since
  <2> QED BY <2>1, <2>2 DEF Since
<1> QED BY <1>1, <1>6, <1>7, <1>8, <1>9 DEF Gone

(* A completion inside another one.                                           *)
Ended(c, p) == PortSet(c, p, [c.port[p] EXCEPT !.stage = "done"])

(* A port that begins to complete.                                            *)
LEMMA EndedPort ==
  ASSUME NEW c \in DeviceContexts, NEW p \in Ports
  PROVE  /\ Ended(c, p) = [c EXCEPT !.port[p].stage = "done"]
         /\ [c.port[p] EXCEPT !.stage = "done"] \in PortContexts
         /\ Ended(c, p).port[p] = [c.port[p] EXCEPT !.stage = "done"]
         /\ Ended(c, p).port[p].stage = "done"
         /\ Ended(c, p).port[p].best = c.port[p].best
         /\ Ended(c, p).port[p].current = c.port[p].current
<1>1. c.port[p] \in PortContexts
  BY PortFields
<1>2. [c.port[p] EXCEPT !.stage = "done"] \in PortContexts
  BY <1>1 DEF PortContexts, Stages
<1>3. Ended(c, p) = [c EXCEPT !.port[p].stage = "done"]
  BY DEF Ended, PortSet
<1>4. Ended(c, p).port[p] = [c.port[p] EXCEPT !.stage = "done"]
  BY <1>2, PortSetType DEF Ended
<1> QED BY <1>1, <1>2, <1>3, <1>4 DEF PortContexts

(* Completing a port that waits, when the completions inside are in order.    *)
LEMMA CompleteWith ==
  ASSUME NEW f, NEW n \in Nat, Completes(f, n),
         NEW c, CheckInv(c), NEW p \in Ports, c.port[p].stage = "until",
         Cardinality(Busy(c)) =< n + 1
  PROVE  LET d == port_context_complete_with(f, c, p) IN After(c, d) /\ Alive(d)
<1> DEFINE e == Ended(c, p)
           d == port_context_complete_with(f, c, p)
           x == [c.port[p] EXCEPT !.stage = "done"]
<1>1. c \in DeviceContexts /\ PortInv(c, p)
  BY DEF CheckInv
<1>2. d = port_context_run_ready(f, e, p)
  BY <1>1, EndedPort DEF port_context_complete_with
<1>3. /\ x \in PortContexts /\ e.port[p] = x /\ x.stage = "done" /\ x.best = c.port[p].best
      /\ x.current = c.port[p].current
  BY <1>1, EndedPort
<1>4. /\ e.running = c.running /\ \A q \in Ports : q # p => e.port[q] = c.port[q]
      /\ e.cancelled = c.cancelled /\ e.minWait = c.minWait /\ e.waiting = c.waiting
      /\ e.minProbing = c.minProbing /\ e.extraProbing = c.extraProbing
      /\ e.ignored = c.ignored
  BY <1>1, <1>3, PortSetType DEF Ended
<1>5. CheckInv(e)
  <2> HIDE DEF x
  <2>1. PortInv(e, p)
    <3> HIDE DEF e
    <3> QED BY <1>1, <1>3, <1>4 DEF PortInv, Runs, Doing, Parked
  <2>2. PortInv(PortSet(c, p, x), p)
    BY <2>1 DEF Ended, x
  <2>3. CheckInv(PortSet(c, p, x))
    BY <1>3, <2>2, PortSetInv
  <2> QED BY <2>3 DEF Ended, x
<1> HIDE DEF x, e
<1>6. Cardinality(Busy(e)) =< n
  <2>1. p \in Busy(c)
    BY DEF Busy, Doing
  <2>2. Busy(e) \subseteq Busy(c) \ {p}
    BY <1>3, <1>4 DEF Busy, Doing
  <2> QED BY <2>1, <2>2, OneLessBusy
<1>7. Gone(e, d, p)
  BY <1>2, <1>3, <1>5, <1>6, RunReady
<1> HIDE DEF d
<1>8. Since(c, d)
  <2>1. Since(e, d)
    BY <1>7 DEF Gone
  <2> QED BY <1>4, <2>1 DEF Since
<1>9. ASSUME NEW q \in Ports PROVE PortAfter(c.port[q], d.port[q])
  <2>1. CASE q = p
    BY <1>7, <2>1 DEF Gone, PortAfter
  <2>2. CASE q # p
    BY <1>4, <1>7, <2>2 DEF Gone
  <2> QED BY <2>1, <2>2
<1> QED BY <1>7, <1>8, <1>9 DEF After, Gone, d

-----------------------------------------------------------------------------
(* The completions that are nested: the table is as it is defined.            *)
NestedStep(n, h) ==
  [c \in DeviceContexts |-> [p \in Ports |->
    IF n = 0 THEN [c EXCEPT !.broken = TRUE] ELSE port_context_complete_with(h, c, p)]]
NestedTable(t, n) == t = [i \in 0 .. n |-> NestedStep(i, t[i - 1])]

(* The table of the nested completions exists.                                *)
LEMMA NestedTableExists ==
  ASSUME NEW n \in Nat
  PROVE  \E t : NestedTable(t, n)
<1> DEFINE P == {k \in 0 .. n : \E t : NestedTable(t, k)}
<1>1. 0 \in P
  <2> DEFINE t == [i \in 0 .. 0 |-> NestedStep(0, 0)]
  <2>1. \A h : NestedStep(0, h) = NestedStep(0, 0)
    BY DEF NestedStep
  <2>2. NestedTable(t, 0)
    BY <2>1 DEF NestedTable
  <2> QED BY <2>2
<1>2. ASSUME NEW k \in 1 .. n, k - 1 \in P PROVE k \in P
  <2>1. PICK t : NestedTable(t, k - 1)
    BY <1>2
  <2> DEFINE u == [i \in 0 .. k |-> IF i = k THEN NestedStep(k, t[k - 1]) ELSE t[i]]
  <2>2. ASSUME NEW i \in 0 .. k PROVE u[i] = NestedStep(i, u[i - 1])
    <3>1. CASE i = k
      <4>1. u[i - 1] = t[i - 1]
        BY <3>1
      <4> QED BY <3>1, <4>1
    <3>2. CASE i # k
      <4>1. i \in 0 .. (k - 1)
        BY <3>2
      <4>2. t[i] = NestedStep(i, t[i - 1])
        BY <2>1, <4>1 DEF NestedTable
      <4>3. CASE i = 0
        <5>1. NestedStep(0, t[i - 1]) = NestedStep(0, u[i - 1])
          BY DEF NestedStep
        <5> QED BY <3>2, <4>2, <4>3, <5>1
      <4>4. CASE i # 0
        <5>1. i - 1 \in 0 .. k /\ i - 1 # k
          BY <4>1, <4>4
        <5>2. u[i - 1] = t[i - 1]
          BY <5>1
        <5> QED BY <3>2, <4>2, <5>2
      <4> QED BY <4>3, <4>4
    <3> QED BY <3>1, <3>2
  <2>3. NestedTable(u, k)
    <3> HIDE DEF u
    <3>1. u = [i \in 0 .. k |-> u[i]]
      BY DEF u
    <3> QED BY <2>2, <3>1 DEF NestedTable
  <2> QED BY <2>3
<1>3. P \in SUBSET (0 .. n)
  OBVIOUS
<1> HIDE DEF P
<1>4. n \in P
  BY <1>1, <1>2, <1>3, UpTo
<1> QED BY <1>4 DEF P

(* How many ports there are is a natural number.                              *)
LEMMA PortsNumber == Cardinality(Ports) \in Nat
BY SupportCheckAssumption, FS_CardinalityType

(* What the nested completions are.                                           *)
LEMMA NestedIs ==
  NestedTable(Nested, Cardinality(Ports))
<1> DEFINE n == Cardinality(Ports)
<1>1. n \in Nat
  BY PortsNumber
<1>2. \E t : NestedTable(t, n)
  <2> HIDE DEF n
  <2> QED BY <1>1, NestedTableExists
<1>3. Nested = CHOOSE t : NestedTable(t, n)
  BY DEF Nested, NestedTable, NestedStep
<1> QED BY <1>2, <1>3

(* Each level of nesting completes a port while no more are busy than that.   *)
LEMMA NestedCompletes ==
  ASSUME NEW n \in 0 .. Cardinality(Ports)
  PROVE  Completes(Nested[n], n)
<1> DEFINE m == Cardinality(Ports)
           P == {k \in 0 .. m : Completes(Nested[k], k)}
<1>1. m \in Nat
  BY PortsNumber
<1>2. 0 \in P
  <2>1. ASSUME NEW c \in DeviceContexts, NEW p \in Ports, c.port[p].stage = "until",
               Cardinality(Busy(c)) =< 0
        PROVE  FALSE
    <3>1. p \in Busy(c) /\ IsFiniteSet(Busy(c))
      <4>1. IsFiniteSet(Ports) /\ Busy(c) \subseteq Ports
        BY SupportCheckAssumption DEF Busy
      <4>2. p \in Busy(c)
        BY <2>1 DEF Busy, Doing
      <4> QED BY <4>1, <4>2, FS_Subset
    <3>2. Cardinality(Busy(c)) \in Nat /\ Cardinality(Busy(c)) = 0
      BY <2>1, <3>1, FS_CardinalityType
    <3> QED BY <3>1, <3>2, FS_EmptySet
  <2>2. Completes(Nested[0], 0)
    BY <2>1 DEF Completes
  <2> QED BY <1>1, <2>2
<1>3. ASSUME NEW k \in 1 .. m, k - 1 \in P PROVE k \in P
  <2>1. Completes(Nested[k - 1], k - 1) /\ k - 1 \in Nat /\ k \in 0 .. m /\ k = (k - 1) + 1
    BY <1>1, <1>3
  <2>2. Nested[k] = NestedStep(k, Nested[k - 1])
    BY <2>1, NestedIs DEF NestedTable
  <2>3. ASSUME NEW c \in DeviceContexts, NEW p \in Ports
        PROVE  Nested[k][c][p] = port_context_complete_with(Nested[k - 1], c, p)
    <3>1. k # 0
      BY <1>1
    <3> QED BY <2>2, <3>1 DEF NestedStep
  <2>4. ASSUME NEW c \in DeviceContexts, NEW p \in Ports, CheckInv(c),
               c.port[p].stage = "until", Cardinality(Busy(c)) =< k
        PROVE  After(c, Nested[k][c][p]) /\ Alive(Nested[k][c][p])
    <3>1. Cardinality(Busy(c)) =< (k - 1) + 1
      BY <2>1, <2>4
    <3> HIDE DEF m
    <3> QED BY <2>1, <2>3, <2>4, <3>1, CompleteWith
  <2>5. Completes(Nested[k], k)
    BY <2>4 DEF Completes
  <2> QED BY <2>1, <2>5
<1>4. P \in SUBSET (0 .. m)
  OBVIOUS
<1> HIDE DEF P, m
<1>5. P = 0 .. m
  BY <1>1, <1>2, <1>3, <1>4, UpTo
<1> QED BY <1>5 DEF P, m

(* As many levels as there are ports are enough for every check.              *)
LEMMA InPlaceCompletes ==
  /\ Cardinality(Ports) \in Nat /\ Completes(InPlace, Cardinality(Ports))
  /\ \A c : Cardinality(Busy(c)) =< Cardinality(Ports)
<1>1. Cardinality(Ports) \in Nat
  BY PortsNumber
<1>2. Cardinality(Ports) \in 0 .. Cardinality(Ports)
  BY <1>1
<1>3. Completes(InPlace, Cardinality(Ports))
  BY <1>2, NestedCompletes DEF InPlace
<1>4. ASSUME NEW c PROVE Cardinality(Busy(c)) =< Cardinality(Ports)
  <2>1. IsFiniteSet(Ports) /\ Busy(c) \subseteq Ports
    BY SupportCheckAssumption DEF Busy
  <2> QED BY <2>1, FS_Subset
<1> QED BY <1>1, <1>3, <1>4

(* What an operation that completes a port does to the check.                 *)
LEMMA CompletePort ==
  ASSUME NEW c \in DeviceContexts, NEW p \in Ports,
         c.port[p].stage \notin {"done", "returning"}, CheckInv(Ended(c, p))
  PROVE  Gone(Ended(c, p), port_context_complete(c, p), p)
<1> DEFINE e == Ended(c, p)
<1>1. port_context_complete(c, p) = port_context_run_ready(InPlace, e, p)
  BY EndedPort DEF port_context_complete, port_context_complete_with
<1>2. e.port[p].stage = "done"
  BY EndedPort
<1> HIDE DEF e
<1>3. CheckInv(e)
  BY DEF e
<1>4. Gone(e, port_context_run_ready(InPlace, e, p), p)
  BY <1>2, <1>3, InPlaceCompletes, RunReady
<1> QED BY <1>1, <1>4 DEF e
-----------------------------------------------------------------------------
(* The operations of a check: each leads from a good check to a good one, and *)
(* only the ports of P may have begun to wait.                                *)
Good(c) == CheckInv(c) /\ NetInv(c) /\ Ending(c) = {} /\ (~Mute => Alive(c))

(* What an operation may do to c, the ports of P being those it is about.      *)
Leads(c, d, P) ==
  /\ Good(d) /\ d.cancelled = c.cancelled
  /\ \A q \in Ports : d.port[q].stage \in Parked =>
       /\ c.port[q].stage \in Parked \/ q \in P
       /\ q \in d.ignored => q \in c.ignored

(* The check e is c but for one port.                                         *)
Aside(c, e, p) ==
  /\ e.cancelled = c.cancelled /\ e.minWait = c.minWait /\ e.waiting = c.waiting
  /\ e.minProbing = c.minProbing /\ e.extraProbing = c.extraProbing
  /\ e.ignored = c.ignored /\ e.running = c.running /\ e.task = c.task
  /\ \A q \in Ports : q # p => e.port[q] = c.port[q]

(* A good check leads to itself.                                              *)
LEMMA LeadsRefl ==
  ASSUME NEW c, Good(c), NEW P
  PROVE  Leads(c, c, P)
BY DEF Leads

(* Changing a port context leaves the others aside.                           *)
LEMMA PortSetAside ==
  ASSUME NEW c \in DeviceContexts, NEW p \in Ports, NEW x \in PortContexts
  PROVE  Aside(c, PortSet(c, p, x), p) /\ PortSet(c, p, x).port[p] = x
         /\ PortSet(c, p, x) \in DeviceContexts
BY PortSetType DEF Aside

(* A port that completed is gone and the check is still good.                 *)
LEMMA GoneLeads ==
  ASSUME NEW c, Good(c), NEW p \in Ports, NEW e, Aside(c, e, p), NEW d, Gone(e, d, p), NEW P
  PROVE  Leads(c, d, P)
<1>1. CheckInv(d) /\ Alive(d) /\ d.port[p].stage \notin Doing \cup {"done"}
  BY DEF Gone, Since
<1>2. /\ d.cancelled = c.cancelled /\ d.minProbing = c.minProbing /\ d.extraProbing = c.extraProbing
      /\ \A q \in Ports : d.port[q].stage \in Doing /\ q \in d.ignored => q \in c.ignored
  BY DEF Gone, Since, Aside
<1>3. \A q \in Ports : q # p => PortAfter(c.port[q], d.port[q])
  BY DEF Gone, Aside
<1>4. NetInv(d)
  <2>1. ASSUME NEW q \in NetPorts
        PROVE  /\ d.port[q].stage # "deferred"
               /\ d.port[q].stage = "checking" /\ d.port[q].suggested = None /\ ~d.port[q].cancelled
                    => Timed(d)
    <3>1. q \in Ports
      BY DeviceProbingAssumption
    <3>2. CASE q = p
      BY <1>1, <3>2 DEF Doing
    <3>3. CASE q # p
      <4>1. PortAfter(c.port[q], d.port[q])
        BY <1>3, <3>1, <3>3
      <4>2. /\ c.port[q].stage # "deferred"
            /\ c.port[q].stage = "checking" /\ c.port[q].suggested = None /\ ~c.port[q].cancelled
                 => Timed(c)
        BY DEF Good, NetInv
      <4>3. Timed(d) = Timed(c)
        BY <1>2 DEF Timed
      <4> QED BY <4>1, <4>2, <4>3 DEF PortAfter, Doing
    <3> QED BY <3>2, <3>3
  <2> QED BY <2>1 DEF NetInv
<1>5. Ending(d) = {}
  <2>1. ASSUME NEW q \in Ports PROVE d.port[q].stage # "done"
    <3>1. c.port[q].stage # "done"
      BY DEF Good, Ending
    <3> QED BY <1>1, <1>3, <3>1 DEF PortAfter
  <2> QED BY <2>1 DEF Ending
<1>6. ASSUME NEW q \in Ports, d.port[q].stage \in Parked
      PROVE  c.port[q].stage \in Parked /\ (q \in d.ignored => q \in c.ignored)
  <2>1. d.port[q].stage \in Doing /\ q # p
    BY <1>1, <1>6 DEF Parked, Doing
  <2>2. PortAfter(c.port[q], d.port[q])
    BY <1>3, <2>1
  <2> QED BY <1>2, <1>6, <2>1, <2>2 DEF PortAfter, Parked
<1> QED BY <1>1, <1>2, <1>4, <1>5, <1>6 DEF Leads, Good

(* Port p of a good check is changed to x and completes.                      *)
LEMMA CompleteLeads ==
  ASSUME NEW c, Good(c), NEW p \in Ports, c.port[p].stage \in Doing,
         NEW x \in PortContexts, x.stage \notin {"done", "returning"},
         x.current \in 0 .. Len(List(p)), NEW P
  PROVE  LET d == port_context_complete(PortSet(c, p, x), p) IN
         Leads(c, d, P) /\ d.port[p].stage \notin Parked
<1> DEFINE a == PortSet(c, p, x)
           y == [x EXCEPT !.stage = "done"]
           e == PortSet(c, p, y)
           d == port_context_complete(a, p)
<1>1. c \in DeviceContexts /\ CheckInv(c) /\ PortInv(c, p)
  BY DEF Good, CheckInv
<1>2. a \in DeviceContexts /\ a.port[p] = x
  BY <1>1, PortSetAside
<1>3. y \in PortContexts /\ y.stage = "done" /\ y.current = x.current
  BY DEF PortContexts, Stages
<1>4. Aside(c, e, p) /\ e.port[p] = y /\ e \in DeviceContexts
  BY <1>1, <1>3, PortSetAside
<1>5. Ended(a, p) = e
  <2>1. Ended(a, p) = PortSet(a, p, y)
    BY <1>2 DEF Ended
  <2>2. PortSet(a, p, y) = e
    <3> HIDE DEF y
    <3> QED BY <1>1 DEF PortSet, DeviceContexts
  <2> QED BY <2>1, <2>2
<1> HIDE DEF y
<1>6. CheckInv(e)
  <2>1. PortInv(e, p)
    <3> HIDE DEF e
    <3> QED BY <1>1, <1>3, <1>4 DEF PortInv, Aside, Runs, List, Doing, Parked
  <2> QED BY <1>1, <1>3, <2>1, PortSetInv
<1> HIDE DEF e
<1>7. Gone(e, d, p)
  <2> HIDE DEF a
  <2>1. Gone(Ended(a, p), port_context_complete(a, p), p)
    BY <1>2, <1>5, <1>6, CompletePort
  <2> QED BY <1>5, <2>1
<1> HIDE DEF d, a
<1>8. Leads(c, d, P)
  BY <1>4, <1>7, GoneLeads
<1>9. d.port[p].stage \notin Parked
  BY <1>7 DEF Gone, Parked, Doing
<1> QED BY <1>8, <1>9 DEF d, a

(* It is changed and goes on.                                                 *)
LEMMA PortLeads ==
  ASSUME NEW c, Good(c), NEW p \in Ports, c.port[p].stage \in Doing,
         NEW x \in PortContexts, x.stage \in Doing, x.best = None,
         x.current \in 0 .. Len(List(p)),
         x.stage = "until" => x.suggested = None,
         x.stage = "recheck" => x.suggested # None,
         x.stage = "checking" => x.current # 0,
         x.cancelled => x.stage \notin Parked,
         p \in NetPorts => x.stage # "deferred",
         p \in NetPorts /\ x.stage = "checking" /\ x.suggested = None /\ ~x.cancelled => Timed(c),
         x.stage = "until" /\ ~Mute => Timed(c),
         NEW P, x.stage \in Parked => p \in P
  PROVE  Leads(c, PortSet(c, p, x), P)
<1> DEFINE d == PortSet(c, p, x)
<1>1. c \in DeviceContexts /\ CheckInv(c) /\ PortInv(c, p)
  BY DEF Good, CheckInv
<1>2. Aside(c, d, p) /\ d.port[p] = x /\ d \in DeviceContexts
  BY <1>1, PortSetAside
<1>3. CheckInv(d)
  <2>1. PortInv(d, p)
    <3> HIDE DEF d
    <3>1. Runs(d, p) <=> Runs(c, p)
      BY <1>2 DEF Aside, Runs
    <3>2. Runs(c, p)
      BY <1>1 DEF PortInv
    <3>3. x.stage # "done"
      BY DEF Doing
    <3> QED BY <1>2, <3>1, <3>2, <3>3 DEF PortInv, List
  <2> QED BY <1>1, <2>1, PortSetInv
<1> HIDE DEF d
<1>4. Timed(d) = Timed(c)
  BY <1>2 DEF Aside, Timed
<1>5. NetInv(d)
  <2>1. ASSUME NEW q \in NetPorts
        PROVE  /\ d.port[q].stage # "deferred"
               /\ d.port[q].stage = "checking" /\ d.port[q].suggested = None /\ ~d.port[q].cancelled
                    => Timed(d)
    <3>1. q \in Ports
      BY DeviceProbingAssumption
    <3>2. CASE q = p
      BY <1>2, <1>4, <3>2
    <3>3. CASE q # p
      <4>1. d.port[q] = c.port[q]
        BY <1>2, <3>1, <3>3 DEF Aside
      <4> QED BY <1>4, <4>1 DEF Good, NetInv
    <3> QED BY <3>2, <3>3
  <2> QED BY <2>1 DEF NetInv
<1>6. Ending(d) = {}
  <2>1. ASSUME NEW q \in Ports PROVE d.port[q].stage # "done"
    <3>1. CASE q = p
      BY <1>2, <3>1 DEF Doing
    <3>2. CASE q # p
      BY <1>2, <3>2 DEF Good, Ending, Aside
    <3> QED BY <3>1, <3>2
  <2> QED BY <2>1 DEF Ending
<1>7. ~Mute => Alive(d)
  <2>1. CASE x.stage = "until"
    BY <1>4, <2>1 DEF Alive
  <2>2. CASE x.stage # "until"
    <3>1. Runs(d, p) /\ d.running \in Seq(Ports)
      <4>1. x.stage \in Doing \cup {"done"}
        OBVIOUS
      <4>2. PortInv(d, p)
        BY <1>3 DEF CheckInv
      <4> QED BY <1>2, <4>1, <4>2, CheckFields DEF PortInv
    <3>2. p \in Range(d.running) \ {None} /\ d.running # <<>>
      BY <3>1, RangeElements, SupportCheckAssumption DEF Runs
    <3> QED BY <1>2, <2>2, <3>2 DEF Alive, OnlyWaiters
  <2> QED BY <2>1, <2>2
<1>8. ASSUME NEW q \in Ports, d.port[q].stage \in Parked
      PROVE  /\ c.port[q].stage \in Parked \/ q \in P
             /\ q \in d.ignored => q \in c.ignored
  <2>1. CASE q = p
    BY <1>2, <1>8, <2>1 DEF Aside
  <2>2. CASE q # p
    BY <1>2, <1>8, <2>2 DEF Aside
  <2> QED BY <2>1, <2>2
<1>9. Leads(c, d, P)
  BY <1>2, <1>3, <1>5, <1>6, <1>7, <1>8 DEF Leads, Good, Aside
<1> QED BY <1>9 DEF d

(* A port goes on to ask its next plugin, or completes.                       *)
LEMMA NextLeads ==
  ASSUME NEW c, Good(c), NEW p \in Ports, c.port[p].stage \in Doing,
         NEW x \in PortContexts, x.stage \notin {"done", "returning"}, x.best = None,
         x.current \in 0 .. Len(List(p)),
         p \in NetPorts /\ x.suggested = None /\ ~x.cancelled => Timed(c), NEW P
  PROVE  Leads(c, port_context_next(PortSet(c, p, x), p), P)
<1> DEFINE a == PortSet(c, p, x)
           d == port_context_next(a, p)
<1>1. c \in DeviceContexts
  BY DEF Good, CheckInv
<1>2. a \in DeviceContexts /\ a.port[p] = x
  BY <1>1, PortSetAside
<1>3. CASE x.cancelled \/ x.current = 0
  <2>1. d = port_context_complete(a, p)
    BY <1>2, <1>3 DEF port_context_next
  <2>2. Leads(c, port_context_complete(a, p), P)
    BY CompleteLeads
  <2> QED BY <2>1, <2>2
<1>4. CASE ~x.cancelled /\ x.current # 0
  <2> DEFINE y == [x EXCEPT !.stage = "checking"]
  <2>1. d = [a EXCEPT !.port[p].stage = "checking"]
    BY <1>2, <1>4 DEF port_context_next
  <2>2. /\ y \in PortContexts /\ y.stage = "checking" /\ y.best = x.best /\ y.current = x.current
        /\ y.suggested = x.suggested /\ y.cancelled = x.cancelled
    BY DEF PortContexts, Stages
  <2>3. d = PortSet(a, p, y)
    <3> HIDE DEF a, d
    <3> QED BY <1>2, <2>1 DEF PortSet
  <2>4. PortSet(a, p, y) = PortSet(c, p, y)
    <3> HIDE DEF y
    <3> QED BY <1>1 DEF PortSet, DeviceContexts
  <2> HIDE DEF y, a, d
  <2>5. Leads(c, PortSet(c, p, y), P)
    <3>1. "checking" \in Doing /\ "checking" \notin Parked
      BY DEF Doing, Parked
    <3> QED BY <1>4, <2>2, <3>1, PortLeads
  <2> QED BY <2>3, <2>4, <2>5 DEF d, a
<1> QED BY <1>3, <1>4
-----------------------------------------------------------------------------
(* A plugin answers for a port.                                               *)

(* What the list of plugins holds are plugins.                                *)
LEMMA PluginType ==
  ASSUME NEW p \in Ports, NEW i \in 1 .. Len(List(p))
  PROVE  Plugin(p, i) \in AllPlugins
<1>1. List(p) \in Seq(AllPlugins)
  BY ListType
<1>2. Plugin(p, i) = List(p)[i]
  BY DEF Plugin, List
<1> HIDE DEF List
<1> QED BY <1>1, <1>2

(* A port context set to what it is.                                          *)
LEMMA PortSetSame ==
  ASSUME NEW c \in DeviceContexts, NEW p \in Ports
  PROVE  PortSet(c, p, c.port[p]) = c
BY DEF PortSet, DeviceContexts

(* A plugin that does not support the port: the next or the suggested one.    *)
LEMMA UnsupportedLeads ==
  ASSUME NEW c, Good(c), NEW p \in Ports, c.port[p].stage = "checking", NEW g, NEW P
  PROVE  Leads(c, port_context_unsupported(c, p, g), P)
<1> DEFINE pc == c.port[p]
           d == port_context_unsupported(c, p, g)
<1>1. c \in DeviceContexts /\ CheckInv(c) /\ PortInv(c, p)
  BY DEF Good, CheckInv
<1>2. /\ pc \in PortContexts /\ pc.stage = "checking" /\ pc.cancelled \in BOOLEAN
      /\ pc.current \in Nat /\ pc.best = None /\ pc.suggested \in AllPlugins \cup {None}
  BY <1>1, PortFields DEF PortInv
<1>3. /\ pc.current \in 0 .. Len(List(p)) /\ Len(List(p)) \in Nat /\ pc.stage \in Doing
  BY <1>1, <1>2, ListType DEF PortInv, List, Doing
<1>4. p \in NetPorts /\ pc.suggested = None /\ ~pc.cancelled => Timed(c)
  BY DEF Good, NetInv
<1>5. CASE pc.suggested = None
  <2> DEFINE i == IF pc.current = Len(List(p)) THEN 0 ELSE pc.current + 1
             x == [pc EXCEPT !.current = i]
  <2>1. d = port_context_next(PortSet(c, p, x), p)
    BY <1>5 DEF port_context_unsupported, PortSet, List
  <2>2. i \in 0 .. Len(List(p)) /\ i \in Nat
    <3> HIDE DEF List
    <3> QED BY <1>3
  <2> HIDE DEF i
  <2>3. /\ x \in PortContexts /\ x.stage = pc.stage /\ x.best = pc.best /\ x.current = i
        /\ x.cancelled = pc.cancelled /\ x.suggested = pc.suggested
    BY <1>2, <2>2 DEF PortContexts
  <2> HIDE DEF x, pc
  <2>4. Leads(c, port_context_next(PortSet(c, p, x), p), P)
    BY <1>2, <1>3, <1>4, <2>2, <2>3, NextLeads DEF pc
  <2> QED BY <2>1, <2>4
<1>6. CASE pc.suggested # None /\ pc.suggested = g
  <2>1. d = port_context_complete(PortSet(c, p, pc), p)
    BY <1>1, <1>6, PortSetSame DEF port_context_unsupported
  <2>2. Leads(c, port_context_complete(PortSet(c, p, pc), p), P)
    BY <1>2, <1>3, CompleteLeads
  <2> QED BY <2>1, <2>2
<1>7. CASE pc.suggested # None /\ pc.suggested # g
  <2> DEFINE i == Find(p, pc.current, pc.suggested)
             x == [pc EXCEPT !.current = i]
  <2>1. d = port_context_next(PortSet(c, p, x), p)
    BY <1>7 DEF port_context_unsupported, PortSet
  <2>2. i \in 0 .. Len(List(p)) /\ i \in Nat
    <3>1. i \in 0 .. Len(List(p))
      BY <1>2, FindType
    <3> HIDE DEF List, i
    <3> QED BY <1>3, <3>1
  <2> HIDE DEF i
  <2>3. /\ x \in PortContexts /\ x.stage = pc.stage /\ x.best = pc.best /\ x.current = i
        /\ x.cancelled = pc.cancelled /\ x.suggested = pc.suggested
    BY <1>2, <2>2 DEF PortContexts
  <2> HIDE DEF x, pc
  <2>4. Leads(c, port_context_next(PortSet(c, p, x), p), P)
    BY <1>2, <1>3, <1>4, <2>2, <2>3, NextLeads DEF pc
  <2> QED BY <2>1, <2>4
<1> QED BY <1>5, <1>6, <1>7

(* A plugin that supports the port ends its search.                           *)
LEMMA SupportedLeads ==
  ASSUME NEW c, Good(c), NEW p \in Ports, c.port[p].stage = "checking",
         NEW g \in AllPlugins, NEW P
  PROVE  Leads(c, port_context_supported(c, p, g), P)
<1> DEFINE pc == c.port[p]
           x == [pc EXCEPT !.best = g]
           d == port_context_supported(c, p, g)
<1>1. c \in DeviceContexts /\ CheckInv(c) /\ PortInv(c, p)
  BY DEF Good, CheckInv
<1>2. pc \in PortContexts
  BY <1>1, PortFields
<1>3. pc.current \in 0 .. Len(List(p)) /\ pc.stage \in Doing
  BY <1>1 DEF PortInv, List, Doing
<1>4. x \in PortContexts /\ x.stage = pc.stage /\ x.current = pc.current
  BY <1>2 DEF PortContexts
<1>5. d = port_context_complete(PortSet(c, p, x), p)
  BY DEF port_context_supported, PortSet
<1> HIDE DEF x, d
<1>6. Leads(c, port_context_complete(PortSet(c, p, x), p), P)
  BY <1>3, <1>4, CompleteLeads
<1> QED BY <1>5, <1>6 DEF d

(* A plugin that has to look again later: the port is deferred.               *)
LEMMA DeferLeads ==
  ASSUME NEW c, Good(c), NEW p \in Ports, c.port[p].stage = "checking",
         ~c.port[p].cancelled, p \notin NetPorts
  PROVE  Leads(c, port_context_defer(c, p), {p})
<1> DEFINE pc == c.port[p]
           i == IF pc.suggested = None THEN pc.current ELSE Find(p, pc.current, pc.suggested)
           x == [pc EXCEPT !.stage = "deferred", !.current = i]
           d == port_context_defer(c, p)
<1>1. c \in DeviceContexts /\ CheckInv(c) /\ PortInv(c, p)
  BY DEF Good, CheckInv
<1>2. /\ pc \in PortContexts /\ pc.current \in Nat /\ pc.best = None
      /\ pc.current \in 0 .. Len(List(p)) /\ pc.stage \in Doing /\ Len(List(p)) \in Nat
  BY <1>1, PortFields, ListType DEF PortInv, List, Doing
<1>3. i \in 0 .. Len(List(p)) /\ i \in Nat
  <2>1. Find(p, pc.current, pc.suggested) \in 0 .. Len(List(p))
    BY <1>2, FindType
  <2> HIDE DEF List
  <2> QED BY <1>2, <2>1
<1>4. d = PortSet(c, p, x)
  <2>1. d = [c EXCEPT !.port[p].stage = "deferred", !.port[p].current = i]
    BY DEF port_context_defer
  <2> HIDE DEF i, d
  <2> QED BY <1>1, <2>1 DEF PortSet, DeviceContexts
<1> HIDE DEF i
<1>5. /\ x \in PortContexts /\ x.stage = "deferred" /\ x.current = i /\ x.best = pc.best
      /\ x.cancelled = pc.cancelled
  BY <1>2, <1>3 DEF PortContexts, Stages
<1> HIDE DEF x, d
<1>6. Leads(c, PortSet(c, p, x), {p})
  <2>1. "deferred" \in Doing
    BY DEF Doing
  <2> QED BY <1>2, <1>3, <1>5, <2>1, PortLeads
<1> QED BY <1>4, <1>6 DEF d

(* A port that waits for a suggestion, unless it has one already.             *)
LEMMA UntilLeads ==
  ASSUME NEW c, Good(c), NEW p \in Ports, c.port[p].stage = "checking",
         ~c.port[p].cancelled, ~Mute => p \in NetPorts, NEW g \in AllPlugins
  PROVE  Leads(c, port_context_defer_until_suggested(c, p, g), {p})
<1> DEFINE pc == c.port[p]
           d == port_context_defer_until_suggested(c, p, g)
<1>1. c \in DeviceContexts /\ CheckInv(c) /\ PortInv(c, p)
  BY DEF Good, CheckInv
<1>2. /\ pc \in PortContexts /\ pc.current \in Nat /\ pc.best = None
      /\ pc.current \in 0 .. Len(List(p)) /\ pc.stage \in Doing /\ Len(List(p)) \in Nat
  BY <1>1, PortFields, ListType DEF PortInv, List, Doing
<1>3. CASE pc.suggested = None
  <2> DEFINE x == [pc EXCEPT !.stage = "until"]
  <2>1. d = PortSet(c, p, x)
    BY <1>3 DEF port_context_defer_until_suggested, PortSet
  <2>2. /\ x \in PortContexts /\ x.stage = "until" /\ x.current = pc.current /\ x.best = pc.best
        /\ x.cancelled = pc.cancelled /\ x.suggested = pc.suggested
    BY <1>2 DEF PortContexts, Stages
  <2> HIDE DEF x, d
  <2>3. Leads(c, PortSet(c, p, x), {p})
    <3>1. "until" \in Doing
      BY DEF Doing
    <3>2. ~Mute => Timed(c)
      BY <1>3 DEF Good, NetInv
    <3> QED BY <1>2, <1>3, <2>2, <3>1, <3>2, PortLeads
  <2> QED BY <2>1, <2>3 DEF d
<1>4. CASE pc.suggested # None /\ pc.suggested = g
  <2>1. d = port_context_supported(c, p, g)
    BY <1>4 DEF port_context_defer_until_suggested
  <2> QED BY <2>1, SupportedLeads
<1>5. CASE pc.suggested # None /\ pc.suggested # g
  <2> DEFINE i == Find(p, pc.current, pc.suggested)
             x == [pc EXCEPT !.current = i]
  <2>1. d = port_context_next(PortSet(c, p, x), p)
    BY <1>5 DEF port_context_defer_until_suggested, PortSet
  <2>2. i \in 0 .. Len(List(p)) /\ i \in Nat
    <3>1. i \in 0 .. Len(List(p))
      BY <1>2, FindType
    <3> HIDE DEF List, i
    <3> QED BY <1>2, <3>1
  <2> HIDE DEF i
  <2>3. /\ x \in PortContexts /\ x.stage = pc.stage /\ x.best = pc.best /\ x.current = i
        /\ x.cancelled = pc.cancelled /\ x.suggested = pc.suggested
    BY <1>2, <2>2 DEF PortContexts
  <2> HIDE DEF x, d
  <2>4. Leads(c, port_context_next(PortSet(c, p, x), p), {p})
    BY <1>2, <1>5, <2>2, <2>3, NextLeads
  <2> QED BY <2>1, <2>4 DEF d
<1> QED BY <1>3, <1>4, <1>5

(* Any answer of a plugin, also to a port that was cancelled meanwhile.       *)
LEMMA AnswerLeads ==
  ASSUME NEW c, Good(c), NEW p \in Ports, c.port[p].stage = "checking",
         NEW answer \in Answers,
         p \in NetPorts => answer \in {"unsupported", "until"},
         answer = "until" /\ ~Mute => p \in NetPorts,
         NEW P, answer \in {"defer", "until"} => p \in P
  PROVE  Leads(c, plugin_supports_port_ready(c, p, answer), P)
<1> DEFINE d == plugin_supports_port_ready(c, p, answer)
           g == Plugin(p, c.port[p].current)
<1>1. c \in DeviceContexts /\ CheckInv(c) /\ PortInv(c, p)
  BY DEF Good, CheckInv
<1>2. g \in AllPlugins
  <2>1. c.port[p].current \in 0 .. Len(List(p)) /\ c.port[p].current # 0 /\ Len(List(p)) \in Nat
    BY <1>1, ListType DEF PortInv, List
  <2>2. c.port[p].current \in 1 .. Len(List(p))
    <3> HIDE DEF List
    <3> QED BY <2>1
  <2> QED BY <2>2, PluginType
<1>3. CASE c.port[p].cancelled \/ answer = "unsupported"
  <2>1. d = port_context_unsupported(c, p, g)
    BY <1>3 DEF plugin_supports_port_ready
  <2> HIDE DEF g
  <2> QED BY <2>1, UnsupportedLeads
<1>4. CASE ~c.port[p].cancelled /\ answer = "supported"
  <2>1. d = port_context_supported(c, p, g)
    BY <1>4 DEF plugin_supports_port_ready
  <2> HIDE DEF g
  <2> QED BY <1>2, <2>1, SupportedLeads
<1>5. CASE ~c.port[p].cancelled /\ answer = "defer"
  <2>1. d = port_context_defer(c, p)
    BY <1>5 DEF plugin_supports_port_ready
  <2>2. Leads(c, d, {p})
    BY <1>5, <2>1, DeferLeads
  <2> QED BY <1>5, <2>2 DEF Leads
<1>6. CASE ~c.port[p].cancelled /\ answer = "until"
  <2>1. d = port_context_defer_until_suggested(c, p, g)
    BY <1>6 DEF plugin_supports_port_ready
  <2> HIDE DEF g
  <2>2. Leads(c, d, {p})
    BY <1>2, <1>6, <2>1, UntilLeads
  <2> QED BY <1>6, <2>2 DEF Leads
<1> QED BY <1>3, <1>4, <1>5, <1>6 DEF Answers

(* A deferral expires; a port with nothing to ask returns.                    *)
LEMMA DeferReadyLeads ==
  ASSUME NEW c, Good(c), NEW p \in Ports, c.port[p].stage \in {"deferred", "recheck"}, NEW P
  PROVE  Leads(c, port_context_defer_ready(c, p), P)
<1> DEFINE x == c.port[p]
<1>1. c \in DeviceContexts /\ CheckInv(c) /\ PortInv(c, p)
  BY DEF Good, CheckInv
<1>2. x \in PortContexts /\ x.best = None /\ x.current \in 0 .. Len(List(p)) /\ x.stage \in Doing
  BY <1>1, PortFields DEF PortInv, List, Doing
<1>3. ~(p \in NetPorts /\ x.suggested = None)
  BY <1>1 DEF Good, NetInv, PortInv
<1>4. port_context_defer_ready(c, p) = port_context_next(PortSet(c, p, x), p)
  BY <1>1, PortSetSame DEF port_context_defer_ready
<1>5. Leads(c, port_context_next(PortSet(c, p, x), p), P)
  BY <1>2, <1>3, NextLeads
<1> QED BY <1>4, <1>5

(* A port without a plugin to ask returns from its idle.                      *)
LEMMA ReturnLeads ==
  ASSUME NEW c, Good(c), NEW p \in Ports, c.port[p].stage = "returning", NEW P
  PROVE  Leads(c, port_context_return(c, p), P)
<1> DEFINE e == Ended(c, p)
           y == [c.port[p] EXCEPT !.stage = "done"]
           d == port_context_return(c, p)
<1>1. c \in DeviceContexts /\ CheckInv(c) /\ PortInv(c, p)
  BY DEF Good, CheckInv
<1>2. /\ y \in PortContexts /\ e.port[p] = y /\ e.port[p].stage = "done"
      /\ e.port[p].best = c.port[p].best /\ e.port[p].current = c.port[p].current
  BY <1>1, EndedPort
<1>3. d = port_context_run_ready(InPlace, e, p)
  BY <1>1, EndedPort DEF port_context_return
<1>4. Aside(c, e, p)
  BY <1>1, <1>2, PortSetAside DEF Ended
<1>5. CheckInv(e)
  <2>1. PortInv(e, p)
    <3> HIDE DEF e, y
    <3> QED BY <1>1, <1>2, <1>4 DEF PortInv, Aside, Runs, Doing, Parked
  <2> QED BY <1>1, <1>2, <2>1, PortSetInv DEF Ended
<1> HIDE DEF e, d
<1>6. Gone(e, d, p)
  BY <1>2, <1>3, <1>5, InPlaceCompletes, RunReady
<1>7. Leads(c, d, P)
  BY <1>4, <1>6, GoneLeads
<1> QED BY <1>7 DEF d

(* A cancelled port does not wait any more.                                   *)
LEMMA CancelPortLeads ==
  ASSUME NEW c, Good(c), NEW p \in Ports, Runs(c, p), NEW P
  PROVE  LET d == port_context_cancel(c, p) IN
         Leads(c, d, P) /\ d.port[p].stage \notin Parked
<1> DEFINE pc == c.port[p]
           x == [pc EXCEPT !.cancelled = TRUE]
           d == port_context_cancel(c, p)
<1>1. c \in DeviceContexts /\ CheckInv(c) /\ PortInv(c, p)
  BY DEF Good, CheckInv
<1>2. /\ pc \in PortContexts /\ pc.stage \in Doing /\ pc.best = None
      /\ pc.current \in 0 .. Len(List(p))
  BY <1>1, PortFields DEF Good, Ending, PortInv, List
<1>3. /\ x \in PortContexts /\ x.stage = pc.stage /\ x.cancelled = TRUE /\ x.best = pc.best
      /\ x.current = pc.current /\ x.suggested = pc.suggested
  BY <1>2 DEF PortContexts
<1>4. PortSet(c, p, x) = [c EXCEPT !.port[p].cancelled = TRUE]
  BY DEF PortSet
<1>5. CASE pc.stage \in {"done", "returning"} \/ pc.cancelled
  <2>1. d = c
    BY <1>5 DEF port_context_cancel
  <2>2. pc.stage \notin Parked
    BY <1>1, <1>5 DEF PortInv, Parked
  <2> QED BY <2>1, <2>2, LeadsRefl
<1>6. CASE pc.stage \in Parked /\ ~pc.cancelled
  <2>1. d = port_context_complete(PortSet(c, p, x), p)
    BY <1>4, <1>6 DEF port_context_cancel, Parked
  <2> HIDE DEF x, d
  <2>2. Leads(c, d, P) /\ d.port[p].stage \notin Parked
    BY <1>2, <1>3, <1>6, <2>1, CompleteLeads DEF Parked
  <2> QED BY <2>2 DEF d
<1>7. CASE pc.stage = "checking" /\ ~pc.cancelled
  <2>1. d = PortSet(c, p, x)
    BY <1>4, <1>7 DEF port_context_cancel
  <2> HIDE DEF x, d
  <2>2. Leads(c, d, P)
    <3>1. "checking" \in Doing /\ "checking" \notin Parked
      BY DEF Doing, Parked
    <3>2. pc.current # 0
      BY <1>1, <1>7 DEF PortInv
    <3> QED BY <1>2, <1>3, <1>7, <2>1, <3>1, <3>2, PortLeads
  <2>3. d.port[p] = x
    BY <1>1, <1>3, <2>1, PortSetAside
  <2>4. d.port[p].stage \notin Parked
    BY <1>3, <1>7, <2>3 DEF Parked
  <2> QED BY <2>2, <2>4 DEF d
<1> QED BY <1>2, <1>5, <1>6, <1>7 DEF Doing, Parked
-----------------------------------------------------------------------------
(* The whole check: it starts, ports come and go, timers elapse, it is        *)
(* cancelled and it ends.                                                     *)

(* A new check is good.                                                       *)
LEMMA RunGood ==
  Good(device_context_run) /\ device_context_run.task /\ ~device_context_run.cancelled
  /\ \A p \in Ports : device_context_run.port[p].stage \notin Parked
<1> DEFINE c == device_context_run
           f == [p \in Ports |-> NoPortContext]
<1>1. f \in [Ports -> PortContexts]
  BY NoPortContextType
<1>2. <<>> \in Seq(Ports) /\ Range(<<>>) = {}
  BY DEF Range
<1>3. c \in DeviceContexts
  <2> HIDE DEF f
  <2>1. c = [task |-> TRUE, cancelled |-> FALSE, minWait |-> TRUE, minProbing |-> TRUE,
             extraProbing |-> FALSE, waiting |-> <<>>, running |-> <<>>,
             port |-> f, best |-> None, result |-> None,
             ignored |-> {}, stale |-> FALSE, broken |-> FALSE]
    BY DEF device_context_run, f
  <2> HIDE DEF c
  <2>2. None \in Results /\ None \in AllPlugins \cup {None} /\ {} \in SUBSET Ports
    BY DEF Results
  <2> QED BY <1>1, <1>2, <2>1, <2>2 DEF DeviceContexts
<1>4. /\ c.task /\ ~c.cancelled /\ c.minWait /\ c.minProbing /\ ~c.broken
      /\ c.waiting = <<>> /\ c.running = <<>> /\ c.port = f
  BY DEF device_context_run
<1>5. ASSUME NEW p \in Ports PROVE c.port[p] = NoPortContext
  BY <1>4
<1> HIDE DEF c, f
<1>6. /\ NoPortContext.stage = "none" /\ NoPortContext.best = None
      /\ NoPortContext.current = 0 /\ NoPortContext.cancelled = FALSE
  BY DEF NoPortContext
<1>7. ASSUME NEW p \in Ports PROVE PortInv(c, p)
  <2>1. Len(plugin_manager_build_plugins_list(p)) \in Nat
    BY ListType DEF List
  <2>2. ~Runs(c, p)
    BY <1>2, <1>4 DEF Runs
  <2> QED BY <1>5, <1>6, <2>1, <2>2 DEF PortInv, Doing, Parked
<1>8. Phases(c) /\ Timed(c)
  BY <1>4 DEF Phases, Timed
<1>9. CheckInv(c)
  BY <1>3, <1>4, <1>7, <1>8 DEF CheckInv
<1>10. NetInv(c)
  BY <1>5, <1>6, DeviceProbingAssumption DEF NetInv
<1>11. Ending(c) = {} /\ Alive(c)
  BY <1>5, <1>6, <1>8 DEF Ending, Alive
<1>12. \A p \in Ports : c.port[p].stage \notin Parked
  BY <1>5, <1>6 DEF Parked
<1> QED BY <1>4, <1>9, <1>10, <1>11, <1>12 DEF Good, c

(* So is what is left of a check whose task has returned.                     *)
LEMMA FinishedGood ==
  ASSUME NEW c, Good(c), ~c.task
  PROVE  Good(Finished(c)) /\ Finished(c).task = FALSE
<1> DEFINE d == Finished(c)
           r == device_context_run
<1>1. c \in DeviceContexts /\ CheckInv(c) /\ r \in DeviceContexts /\ CheckInv(r)
  BY RunGood DEF Good, CheckInv
<1>2. r.waiting = <<>> /\ r.extraProbing = FALSE
  BY DEF device_context_run
<1>3. /\ d \in DeviceContexts /\ d.running = c.running /\ d.port = c.port
      /\ d.broken = c.broken /\ d.task = FALSE /\ d.minWait = FALSE /\ d.minProbing = FALSE
      /\ d.extraProbing = r.extraProbing /\ d.waiting = r.waiting
  <2> HIDE DEF r
  <2>1. d = [r EXCEPT !.task = FALSE, !.minWait = FALSE, !.minProbing = FALSE,
                  !.running = c.running, !.port = c.port, !.broken = c.broken, !.stale = c.stale]
    BY DEF Finished, r
  <2> HIDE DEF d
  <2> QED BY <1>1, <2>1 DEF DeviceContexts
<1> HIDE DEF d, r
<1>4. c.running = <<>> /\ ~Timed(c)
  BY <1>1 DEF CheckInv, Phases
<1>5. ~Timed(d) /\ Phases(d)
  BY <1>2, <1>3, <1>4 DEF Phases, Timed
<1>6. CheckInv(d)
  <2>1. \A q \in Ports : PortInv(c, q) => PortInv(d, q)
    BY <1>3 DEF PortInv, Runs
  <2> QED BY <1>1, <1>3, <1>5, <2>1 DEF CheckInv
<1>7. NetInv(d)
  BY <1>3, <1>4 DEF Good, NetInv
<1>8. Ending(d) = {} /\ Alive(d)
  BY <1>3 DEF Good, Ending, Alive
<1> QED BY <1>3, <1>6, <1>7, <1>8 DEF Good, d

(* A port is run: it is asked, or there is nothing to ask.                    *)
LEMMA RunPort ==
  ASSUME NEW c \in DeviceContexts, NEW p \in Ports
  PROVE  \E x \in PortContexts :
           /\ device_context_run_port_context(c, p) = PortSet(c, p, x)
           /\ x.stage \in {"checking", "returning"} /\ x.best = None /\ ~x.cancelled
           /\ x.current \in 0 .. Len(List(p)) /\ (x.stage = "checking" => x.current # 0)
<1> DEFINE suggested == IF c.best = Generic THEN None ELSE c.best
           first == IF suggested = None THEN 1 ELSE Find(p, 1, suggested)
           x == [NoPortContext EXCEPT
                  !.stage = IF first = 0 THEN "returning" ELSE "checking",
                  !.current = first, !.suggested = suggested]
<1>1. suggested \in AllPlugins \cup {None}
  BY CheckFields
<1>2. first \in 0 .. Len(List(p)) /\ first \in Nat
  <2>1. Find(p, 1, suggested) \in 0 .. Len(List(p)) /\ Len(List(p)) \in Nat \ {0}
    BY FindType, ListType
  <2> HIDE DEF suggested, List
  <2> QED BY <2>1
<1>3. device_context_run_port_context(c, p) = PortSet(c, p, x)
  BY DEF device_context_run_port_context, PortSet
<1> HIDE DEF first, suggested
<1>4. /\ x \in PortContexts /\ x.stage = (IF first = 0 THEN "returning" ELSE "checking")
      /\ x.current = first /\ x.best = NoPortContext.best /\ x.cancelled = NoPortContext.cancelled
  <2> HIDE DEF NoPortContext
  <2> QED BY <1>1, <1>2, NoPortContextType DEF PortContexts, Stages
<1>5. NoPortContext.best = None /\ NoPortContext.cancelled = FALSE
  BY DEF NoPortContext
<1> HIDE DEF x
<1> QED BY <1>2, <1>3, <1>4, <1>5

(* A port that is added waits for the first timer or is run at once.          *)
LEMMA AddedLeads ==
  ASSUME NEW c, Good(c), c.task, NEW p \in Ports, NEW P
  PROVE  Leads(c, device_context_port_added(c, p), P)
<1> DEFINE a == [c EXCEPT !.extraProbing = TRUE]
           d == device_context_port_added(c, p)
<1>1. c \in DeviceContexts /\ CheckInv(c) /\ Phases(c) /\ ~c.broken
  BY DEF Good, CheckInv
<1>2. c.running \in Seq(Ports) /\ c.waiting \in Seq(Ports) /\ c.port \in [Ports -> PortContexts]
  BY <1>1, CheckFields
<1>3. CASE p \in Range(c.running) \cup Range(c.waiting)
  <2>1. d = c
    BY <1>3 DEF device_context_port_added
  <2> QED BY <2>1, LeadsRefl
<1>4. CASE p \notin Range(c.running) \cup Range(c.waiting)
  <2>1. ASSUME NEW x \in PortContexts, x.best = None,
               x.stage \in {"checking", "returning", "waiting"},
               x.stage # "waiting" => ~c.minWait,
               x.stage = "checking" => x.current # 0,
               x.current \in 0 .. Len(List(p)), d \in DeviceContexts,
               d.port = [c.port EXCEPT ![p] = x], d.extraProbing = TRUE,
               d.minProbing = c.minProbing,
               d.broken = c.broken, d.task = c.task, d.minWait = c.minWait,
               d.cancelled = c.cancelled, d.ignored = c.ignored,
               IF x.stage = "waiting" THEN d.running = c.running /\ c.minWait
                                      ELSE d.running = <<p>> \o c.running /\ d.waiting = c.waiting
        PROVE  Leads(c, d, P)
    <3> HIDE DEF d
    <3>1. d.port[p] = x /\ \A q \in Ports : q # p => d.port[q] = c.port[q]
      BY <1>2, <2>1
    <3>2. /\ Runs(d, p) <=> x.stage # "waiting"
          /\ \A q \in Ports : q # p => (Runs(d, q) <=> Runs(c, q))
      <4>1. Range(<<p>> \o c.running) = {p} \cup Range(c.running)
        <5>1. <<p>> \in Seq(Ports)
          OBVIOUS
        <5>2. \A y : y \in Range(c.running) <=> \E i \in 1 .. Len(c.running) : y = c.running[i]
          BY <1>2, RangeElements
        <5> DEFINE s == <<p>> \o c.running
        <5>3. /\ s \in Seq(Ports) /\ Len(s) = Len(c.running) + 1 /\ Len(c.running) \in Nat
              /\ s[1] = p /\ \A i \in 1 .. Len(c.running) : s[i + 1] = c.running[i]
          BY <1>2
        <5>4. \A y : y \in Range(s) <=> \E i \in 1 .. Len(s) : y = s[i]
          BY <5>3, RangeElements
        <5> HIDE DEF s
        <5>5. ASSUME NEW y, y \in Range(s) PROVE y \in {p} \cup Range(c.running)
          <6>1. PICK i \in 1 .. Len(s) : y = s[i]
            BY <5>4, <5>5
          <6>2. CASE i = 1
            BY <5>3, <6>1, <6>2
          <6>3. CASE i # 1
            <7>1. i - 1 \in 1 .. Len(c.running) /\ i = (i - 1) + 1
              BY <5>3, <6>3
            <7> QED BY <5>2, <5>3, <6>1, <7>1
          <6> QED BY <6>2, <6>3
        <5>6. ASSUME NEW y, y \in {p} \cup Range(c.running) PROVE y \in Range(s)
          <6>1. CASE y = p
            <7>1. 1 \in 1 .. Len(s)
              BY <5>3
            <7> QED BY <5>3, <5>4, <6>1, <7>1
          <6>2. CASE y \in Range(c.running)
            <7>1. PICK i \in 1 .. Len(c.running) : y = c.running[i]
              BY <5>2, <6>2
            <7>2. i + 1 \in 1 .. Len(s)
              BY <5>3
            <7> QED BY <5>3, <5>4, <7>1, <7>2
          <6> QED BY <5>6, <6>1, <6>2
        <5>7. Range(s) = {p} \cup Range(c.running)
          BY <5>5, <5>6
        <5> QED BY <5>7 DEF s
      <4> QED BY <1>4, <2>1, <4>1 DEF Runs
    <3>3. ASSUME NEW q \in Ports PROVE PortInv(d, q)
      <4>1. CASE q = p
        BY <2>1, <3>1, <3>2, <4>1 DEF PortInv, Doing, Parked, List
      <4>2. CASE q # p
        <5>1. PortInv(c, q) /\ d.port[q] = c.port[q] /\ (Runs(d, q) <=> Runs(c, q))
          BY <1>1, <3>1, <3>2, <4>2 DEF CheckInv
        <5> QED BY <5>1 DEF PortInv
      <4> QED BY <4>1, <4>2
    <3>4. Phases(d) /\ Timed(d)
      <4>1. CASE x.stage = "waiting"
        BY <1>1, <2>1, <4>1 DEF Phases, Timed
      <4>2. CASE x.stage # "waiting"
        BY <1>1, <2>1, <4>2 DEF Phases, Timed
      <4> QED BY <4>1, <4>2
    <3>5. CheckInv(d)
      BY <1>1, <2>1, <3>3, <3>4 DEF CheckInv
    <3>6. NetInv(d) /\ Alive(d)
      <4>1. \A q \in NetPorts : d.port[q].stage # "deferred"
        BY <2>1, <3>1, DeviceProbingAssumption DEF Good, NetInv
      <4> QED BY <3>4, <4>1 DEF NetInv, Alive
    <3>7. Ending(d) = {}
      BY <2>1, <3>1 DEF Good, Ending
    <3>8. \A q \in Ports : d.port[q].stage \in Parked => c.port[q].stage \in Parked
      BY <2>1, <3>1 DEF Parked
    <3> QED BY <2>1, <3>5, <3>6, <3>7, <3>8 DEF Leads, Good
  <2>2. CASE c.minWait
    <3> DEFINE x == [c.port[p] EXCEPT !.stage = "waiting"]
               w == <<p>> \o c.waiting
    <3>1. d = [a EXCEPT !.waiting = w, !.port[p].stage = "waiting"]
      BY <1>4, <2>2 DEF device_context_port_added
    <3>2. PortInv(c, p) /\ ~Runs(c, p)
      BY <1>1, <1>4 DEF CheckInv, Runs
    <3>3. c.port[p] \in PortContexts
      BY <1>2
    <3>4. /\ x \in PortContexts /\ x.stage = "waiting" /\ x.best = c.port[p].best
          /\ x.cancelled = c.port[p].cancelled /\ x.current = c.port[p].current
      BY <3>3 DEF PortContexts, Stages
    <3>5. w \in Seq(Ports)
      <4>1. <<p>> \in Seq(Ports)
        OBVIOUS
      <4> QED BY <1>2, <4>1
    <3> HIDE DEF w
    <3>6. /\ d \in DeviceContexts /\ d.port = [c.port EXCEPT ![p] = x] /\ d.extraProbing = TRUE
          /\ d.minProbing = c.minProbing /\ d.broken = c.broken /\ d.task = c.task
          /\ d.minWait = c.minWait /\ d.cancelled = c.cancelled /\ d.ignored = c.ignored
          /\ d.running = c.running
      <4>1. d = [a EXCEPT !.waiting = w, !.port = [c.port EXCEPT ![p] = x]]
        BY <1>1, <3>1 DEF DeviceContexts
      <4>2. [c.port EXCEPT ![p] = x] \in [Ports -> PortContexts]
        BY <1>2, <3>4
      <4> HIDE DEF d, x
      <4> QED BY <1>1, <3>5, <4>1, <4>2 DEF DeviceContexts
    <3> HIDE DEF x, d
    <3>7. x.best = None /\ x.current \in 0 .. Len(List(p))
      BY <3>2, <3>4 DEF PortInv, List
    <3>8. Leads(c, d, P)
      BY <2>1, <2>2, <3>4, <3>6, <3>7 DEF d
    <3> QED BY <3>8 DEF d
  <2>3. CASE ~c.minWait
    <3> DEFINE b == [a EXCEPT !.running = <<p>> \o @]
    <3>1. d = device_context_run_port_context(b, p)
      BY <1>4, <2>3 DEF device_context_port_added
    <3>2. <<p>> \o c.running \in Seq(Ports)
      <4>1. <<p>> \in Seq(Ports)
        OBVIOUS
      <4> QED BY <1>2, <4>1
    <3>3. /\ b \in DeviceContexts /\ b.port = c.port /\ b.extraProbing = TRUE
          /\ b.minProbing = c.minProbing /\ b.broken = c.broken /\ b.task = c.task
          /\ b.minWait = c.minWait /\ b.cancelled = c.cancelled /\ b.ignored = c.ignored
          /\ b.running = <<p>> \o c.running /\ b.waiting = c.waiting
      BY <1>1, <3>2 DEF DeviceContexts
    <3> HIDE DEF b
    <3>4. PICK x \in PortContexts :
           /\ device_context_run_port_context(b, p) = PortSet(b, p, x)
           /\ x.stage \in {"checking", "returning"} /\ x.best = None /\ ~x.cancelled
           /\ x.current \in 0 .. Len(List(p)) /\ (x.stage = "checking" => x.current # 0)
      BY <3>3, RunPort
    <3>5. d = [b EXCEPT !.port[p] = x]
      BY <3>1, <3>4 DEF PortSet
    <3>6. /\ d \in DeviceContexts /\ d.port = [c.port EXCEPT ![p] = x] /\ d.extraProbing = TRUE
          /\ d.minProbing = c.minProbing /\ d.broken = c.broken /\ d.task = c.task
          /\ d.minWait = c.minWait /\ d.cancelled = c.cancelled /\ d.ignored = c.ignored
          /\ d.running = <<p>> \o c.running /\ d.waiting = c.waiting
      <4> HIDE DEF d
      <4> QED BY <3>3, <3>5 DEF DeviceContexts
    <3> HIDE DEF d
    <3>7. Leads(c, d, P)
      BY <2>1, <2>3, <3>4, <3>6 DEF d
    <3> QED BY <3>7 DEF d
  <2> QED BY <2>2, <2>3
<1> QED BY <1>3, <1>4
-----------------------------------------------------------------------------
(* A port that is released does not wait any more.                            *)
LEMMA ReleasedLeads ==
  ASSUME NEW c, Good(c), NEW p \in Ports, NEW P
  PROVE  LET d == device_context_port_released(c, p) IN
         Leads(c, d, P) /\ d.port[p].stage \notin Parked
<1> DEFINE d == device_context_port_released(c, p)
<1>1. c \in DeviceContexts /\ CheckInv(c) /\ Phases(c) /\ PortInv(c, p) /\ ~c.broken
  BY DEF Good, CheckInv
<1>2. c.running \in Seq(Ports) /\ c.waiting \in Seq(Ports) /\ c.port \in [Ports -> PortContexts]
  BY <1>1, CheckFields
<1>3. ~Runs(c, p) => c.port[p].stage \notin Parked
  BY <1>1 DEF PortInv, Parked, Doing
<1>4. CASE ~c.task
  <2>1. d = c
    BY <1>4 DEF device_context_port_released
  <2>2. ~Runs(c, p)
    <3>1. c.running = <<>>
      BY <1>1, <1>4 DEF Phases
    <3> QED BY <1>2, <3>1, RangeElements DEF Runs
  <2> QED BY <1>3, <2>1, <2>2, LeadsRefl
<1>5. CASE c.task /\ p \in Range(c.waiting)
  <2>1. d = [c EXCEPT !.waiting = Without(@, p), !.port[p] = NoPortContext]
    BY <1>5 DEF device_context_port_released
  <2>2. Without(c.waiting, p) \in Seq(Ports)
    BY <1>2, WithoutElements
  <2>3. /\ d \in DeviceContexts /\ d.port = [c.port EXCEPT ![p] = NoPortContext]
        /\ d.running = c.running /\ d.broken = c.broken /\ d.task = c.task
        /\ d.minWait = c.minWait /\ d.cancelled = c.cancelled /\ d.ignored = c.ignored
        /\ d.minProbing = c.minProbing /\ d.extraProbing = c.extraProbing
    <3>1. [c.port EXCEPT ![p] = NoPortContext] \in [Ports -> PortContexts]
      BY <1>2, NoPortContextType
    <3> HIDE DEF d
    <3> QED BY <1>1, <2>1, <2>2, <3>1 DEF DeviceContexts
  <2>4. c.minWait /\ c.minProbing /\ c.running = <<>>
    <3>1. c.waiting # <<>>
      BY <1>2, <1>5, RangeElements
    <3> QED BY <1>1, <3>1 DEF Phases
  <2>5. ~Runs(c, p)
    BY <1>2, <2>4, RangeElements DEF Runs
  <2> HIDE DEF d
  <2>6. d.port[p] = NoPortContext /\ \A q \in Ports : q # p => d.port[q] = c.port[q]
    BY <1>2, <2>3
  <2>7. /\ NoPortContext.stage = "none" /\ NoPortContext.best = None
        /\ NoPortContext.current = 0 /\ NoPortContext.cancelled = FALSE
    BY DEF NoPortContext
  <2>8. ASSUME NEW q \in Ports PROVE PortInv(d, q)
    <3>1. CASE q = p
      <4>1. Len(plugin_manager_build_plugins_list(p)) \in Nat
        BY ListType DEF List
      <4>2. ~Runs(d, p)
        BY <2>3, <2>5 DEF Runs
      <4> QED BY <2>6, <2>7, <3>1, <4>1, <4>2 DEF PortInv, Doing, Parked
    <3>2. CASE q # p
      <4>1. PortInv(c, q)
        BY <1>1 DEF CheckInv
      <4> QED BY <2>3, <2>6, <3>2, <4>1 DEF PortInv, Runs
    <3> QED BY <3>1, <3>2
  <2>9. Phases(d) /\ Timed(d)
    BY <1>1, <2>3, <2>4 DEF Phases, Timed
  <2>10. CheckInv(d)
    BY <1>1, <2>3, <2>8, <2>9 DEF CheckInv
  <2>11. NetInv(d) /\ Alive(d)
    <3>1. \A q \in NetPorts : d.port[q].stage # "deferred"
      BY <2>6, <2>7, DeviceProbingAssumption DEF Good, NetInv
    <3> QED BY <2>9, <3>1 DEF NetInv, Alive
  <2>12. Ending(d) = {}
    BY <2>6, <2>7 DEF Good, Ending
  <2>13. d.port[p].stage \notin Parked
    BY <2>6, <2>7 DEF Parked
  <2>14. \A q \in Ports : d.port[q].stage \in Parked => c.port[q].stage \in Parked
    BY <2>6, <2>13
  <2>15. Leads(c, d, P)
    BY <2>3, <2>10, <2>11, <2>12, <2>14 DEF Leads, Good
  <2> QED BY <2>13, <2>15 DEF d
<1>6. CASE c.task /\ p \notin Range(c.waiting) /\ Runs(c, p)
  <2>1. d = port_context_cancel(c, p)
    BY <1>6 DEF device_context_port_released
  <2> QED BY <1>6, <2>1, CancelPortLeads
<1>7. CASE c.task /\ p \notin Range(c.waiting) /\ ~Runs(c, p)
  <2>1. d = c
    BY <1>7 DEF device_context_port_released
  <2> QED BY <1>3, <1>7, <2>1, LeadsRefl
<1> QED BY <1>4, <1>5, <1>6, <1>7

(* The ports that waited for the first timer are run.                         *)
Starting(c, e) ==
  /\ CheckInv(e) /\ e.task /\ ~e.minWait /\ e.minProbing /\ e.cancelled = c.cancelled
  /\ Range(e.running) \cap Filtered = {}
  /\ \A q \in Ports : e.port[q].stage \notin Parked \cup {"done"}

(* The ports that waited are run one by one.                                  *)
LEMMA LaunchedStarts ==
  ASSUME NEW c, NEW e, Starting(c, e), NEW p \in Ports
  PROVE  Starting(c, Launched(e, p))
<1> DEFINE d == Launched(e, p)
<1>1. /\ e \in DeviceContexts /\ CheckInv(e) /\ PortInv(e, p) /\ Phases(e) /\ ~e.broken
      /\ e.task /\ ~e.minWait /\ e.minProbing
  BY DEF Starting, CheckInv
<1>2. e.running \in Seq(Ports) /\ e.port \in [Ports -> PortContexts]
  BY <1>1, CheckFields
<1>3. /\ NoPortContext.stage = "none" /\ NoPortContext.best = None
      /\ NoPortContext.current = 0 /\ NoPortContext.cancelled = FALSE
  BY DEF NoPortContext
<1>4. CASE p \in Filtered
  <2>1. d = PortSet(e, p, NoPortContext)
    BY <1>4 DEF Launched, PortSet
  <2> HIDE DEF d
  <2>2. Aside(e, d, p) /\ d.port[p] = NoPortContext
    BY <1>1, <2>1, NoPortContextType, PortSetAside
  <2>3. ~Runs(d, p)
    BY <1>4, <2>2 DEF Aside, Runs, Starting
  <2>4. Len(plugin_manager_build_plugins_list(p)) \in Nat
    BY ListType DEF List
  <2>5. PortInv(d, p)
    BY <1>3, <2>2, <2>3, <2>4 DEF PortInv, Doing, Parked
  <2>6. CheckInv(d)
    BY <1>1, <2>1, <2>5, NoPortContextType, PortSetInv
  <2>7. \A q \in Ports : d.port[q].stage \notin Parked \cup {"done"}
    BY <1>3, <2>2 DEF Aside, Starting, Parked
  <2>8. Starting(c, d)
    BY <2>2, <2>6, <2>7 DEF Starting, Aside
  <2> QED BY <2>8 DEF d
<1>5. CASE p \notin Filtered
  <2> DEFINE b == [e EXCEPT !.running = Append(@, p)]
             s == Append(e.running, p)
  <2>1. d = device_context_run_port_context(b, p)
    BY <1>5 DEF Launched
  <2>2. s \in Seq(Ports) /\ Range(s) = Range(e.running) \cup {p} /\ s # <<>>
    BY <1>2, RangeOfAppend
  <2> HIDE DEF s
  <2>3. /\ b \in DeviceContexts /\ b.port = e.port /\ b.extraProbing = e.extraProbing
        /\ b.minProbing = e.minProbing /\ b.broken = e.broken /\ b.task = e.task
        /\ b.minWait = e.minWait /\ b.cancelled = e.cancelled /\ b.waiting = e.waiting
        /\ b.running = s
    BY <1>1, <2>2 DEF DeviceContexts, s
  <2> HIDE DEF b, d
  <2>4. PICK x \in PortContexts :
         /\ device_context_run_port_context(b, p) = PortSet(b, p, x)
         /\ x.stage \in {"checking", "returning"} /\ x.best = None /\ ~x.cancelled
         /\ x.current \in 0 .. Len(List(p)) /\ (x.stage = "checking" => x.current # 0)
    BY <2>3, RunPort
  <2>5. d = PortSet(b, p, x)
    BY <2>1, <2>4 DEF d
  <2>6. /\ d \in DeviceContexts /\ d.broken = e.broken /\ d.task = e.task
        /\ d.minWait = e.minWait /\ d.cancelled = e.cancelled /\ d.waiting = e.waiting
        /\ d.minProbing = e.minProbing /\ d.extraProbing = e.extraProbing
        /\ d.running = s /\ d.port[p] = x /\ \A q \in Ports : q # p => d.port[q] = e.port[q]
    BY <2>3, <2>5, PortSetType
  <2>7. ASSUME NEW q \in Ports PROVE PortInv(d, q)
    <3>1. CASE q = p
      <4>1. Runs(d, p)
        BY <2>2, <2>6 DEF Runs
      <4> QED BY <2>4, <2>6, <3>1, <4>1 DEF PortInv, Doing, Parked, List
    <3>2. CASE q # p
      <4>1. PortInv(e, q) /\ d.port[q] = e.port[q] /\ (Runs(d, q) <=> Runs(e, q))
        BY <1>1, <2>2, <2>6, <3>2 DEF CheckInv, Runs
      <4> QED BY <4>1 DEF PortInv
    <3> QED BY <3>1, <3>2
  <2>8. Phases(d)
    BY <1>1, <2>6 DEF Phases, Timed
  <2>9. CheckInv(d)
    BY <1>1, <2>6, <2>7, <2>8 DEF CheckInv
  <2>10. \A q \in Ports : d.port[q].stage \notin Parked \cup {"done"}
    BY <2>4, <2>6 DEF Starting, Parked
  <2>11. Range(d.running) \cap Filtered = {}
    BY <1>5, <2>2, <2>6 DEF Starting
  <2>12. Starting(c, d)
    BY <1>1, <2>6, <2>9, <2>10, <2>11 DEF Starting
  <2> QED BY <2>12 DEF d
<1> QED BY <1>4, <1>5

(* The first timer elapses.                                                   *)
LEMMA MinWaitLeads ==
  ASSUME NEW c, Good(c), c.minWait, NEW P
  PROVE  Leads(c, device_context_min_wait_time_elapsed(c), P)
<1> DEFINE d == device_context_min_wait_time_elapsed(c)
           b == LaunchStart(c)
           n == Len(c.waiting)
<1>1. c \in DeviceContexts /\ CheckInv(c) /\ Phases(c) /\ ~c.broken
  BY DEF Good, CheckInv
<1>2. c.running \in Seq(Ports) /\ c.waiting \in Seq(Ports)
  BY <1>1, CheckFields
<1>3. c.running = <<>> /\ c.minProbing /\ c.task
  BY <1>1 DEF Phases, Timed
<1>4. Starting(c, b)
  <2>1. /\ b \in DeviceContexts /\ b.port = c.port /\ b.running = c.running
        /\ b.broken = (c.broken \/ c.running # <<>>)
        /\ b.task = c.task /\ b.cancelled = c.cancelled /\ b.minWait = FALSE
        /\ b.minProbing = c.minProbing /\ b.extraProbing = c.extraProbing /\ b.waiting = <<>>
    <3>1. <<>> \in Seq(Ports) /\ (c.broken \/ c.running # <<>>) \in BOOLEAN
      OBVIOUS
    <3> QED BY <1>1, <3>1 DEF LaunchStart, DeviceContexts
  <2> HIDE DEF b
  <2>2. \A q \in Ports : PortInv(c, q) => PortInv(b, q)
    BY <2>1 DEF PortInv, Runs
  <2>3. Phases(b)
    BY <1>3, <2>1 DEF Phases, Timed
  <2>4. CheckInv(b)
    BY <1>1, <1>3, <2>1, <2>2, <2>3 DEF CheckInv
  <2>5. Range(b.running) = {}
    BY <1>2, <1>3, <2>1, RangeElements
  <2>6. ASSUME NEW q \in Ports PROVE b.port[q].stage \notin Parked \cup {"done"}
    <3>1. PortInv(b, q) /\ ~Runs(b, q)
      BY <2>4, <2>5 DEF CheckInv, Runs
    <3> QED BY <3>1 DEF PortInv, Parked, Doing
  <2> QED BY <1>3, <2>1, <2>4, <2>5, <2>6 DEF Starting
<1>5. PICK w : /\ w[0] = LaunchStart(c)
               /\ \A i \in 1 .. Len(c.waiting) : w[i] = Launched(w[i - 1], c.waiting[i])
               /\ device_context_min_wait_time_elapsed(c) = w[Len(c.waiting)]
  <2>1. LaunchSteps(c)
    BY <1>2, LaunchWalk
  <2> QED BY <2>1 DEF LaunchSteps
<1>6. n \in Nat /\ \A i \in 1 .. n : c.waiting[i] \in Ports
  BY <1>2
<1> HIDE DEF b
<1> DEFINE S == [i \in 0 .. n |-> {e \in {w[i]} : Starting(c, e)}]
<1>7. w[0] \in S[0]
  BY <1>4, <1>5, <1>6 DEF b
<1>8. ASSUME NEW i \in 1 .. n, w[i - 1] \in S[i - 1] PROVE w[i] \in S[i]
  <2>1. i - 1 \in 0 .. n /\ i \in 0 .. n /\ c.waiting[i] \in Ports
    BY <1>6
  <2>2. Starting(c, w[i - 1])
    BY <1>8, <2>1
  <2>3. Starting(c, Launched(w[i - 1], c.waiting[i]))
    BY <2>1, <2>2, LaunchedStarts
  <2>4. Starting(c, w[i])
    BY <1>5, <2>3
  <2> QED BY <2>1, <2>4
<1>9. Starting(c, d)
  <2>1. w[n] \in S[n]
    <3> HIDE DEF S, n
    <3> QED BY <1>6, <1>7, <1>8, Walked
  <2>2. n \in 0 .. n /\ d = w[n]
    BY <1>5, <1>6
  <2> HIDE DEF n, d
  <2> QED BY <2>1, <2>2
<1> HIDE DEF d
<1>10. Timed(d) /\ CheckInv(d) /\ d.cancelled = c.cancelled
  BY <1>9 DEF Starting, Timed
<1>11. \A q \in Ports : d.port[q].stage \notin Parked \cup {"done"}
  BY <1>9 DEF Starting
<1>12. NetInv(d) /\ Alive(d) /\ Ending(d) = {}
  BY <1>10, <1>11, DeviceProbingAssumption DEF NetInv, Alive, Ending, Parked
<1>13. Leads(c, d, P)
  BY <1>10, <1>11, <1>12 DEF Leads, Good
<1> QED BY <1>13 DEF d

(* A probing timer elapses when no net port has still to answer.              *)
LEMMA TimerLeads ==
  ASSUME NEW c, Good(c), Prompt(c) = {}, ~c.minWait, Timed(c),
         NEW b \in DeviceContexts, b.port = c.port, b.running = c.running, b.broken = c.broken,
         b.task = c.task, b.minWait = c.minWait, b.cancelled = c.cancelled,
         b.ignored = c.ignored, b.waiting = c.waiting, NEW P
  PROVE  Leads(c, device_context_continue(InPlace, b), P)
<1> DEFINE d == device_context_continue(InPlace, b)
<1>1. CheckInv(c) /\ Phases(c) /\ ~c.broken /\ c.task
  BY DEF Good, CheckInv, Phases
<1>2. CheckInv(b)
  <2>1. \A q \in Ports : PortInv(c, q) => PortInv(b, q)
    BY DEF PortInv, Runs
  <2>2. Phases(b)
    BY <1>1 DEF Phases, Timed
  <2> QED BY <1>1, <2>1, <2>2 DEF CheckInv
<1>3. After(b, d) /\ Alive(d)
  <2>1. b.task /\ ~b.minWait
    BY <1>1
  <2> QED BY <1>2, <2>1, InPlaceCompletes, ContinueKeeps
<1> HIDE DEF d
<1>4. ASSUME NEW q \in Ports PROVE PortAfter(c.port[q], d.port[q])
  BY <1>3 DEF After
<1>5. NetInv(d)
  <2>1. ASSUME NEW q \in NetPorts PROVE d.port[q].stage \notin {"deferred", "checking"}
    <3>1. q \in Ports /\ PortAfter(c.port[q], d.port[q])
      BY <1>4, DeviceProbingAssumption
    <3>2. c.port[q].stage # "deferred" /\ c.port[q].stage # "checking"
      BY <3>1 DEF Good, NetInv, Prompt
    <3> QED BY <3>1, <3>2 DEF PortAfter, Doing
  <2> QED BY <2>1 DEF NetInv
<1>6. Ending(d) = {}
  BY <1>4 DEF Good, Ending, PortAfter
<1>7. ASSUME NEW q \in Ports, d.port[q].stage \in Parked
      PROVE  c.port[q].stage \in Parked /\ (q \in d.ignored => q \in c.ignored)
  <2>1. PortAfter(c.port[q], d.port[q]) /\ d.port[q].stage \in Doing
    BY <1>4, <1>7 DEF Parked, Doing
  <2>2. q \in d.ignored => q \in b.ignored
    BY <1>3, <2>1 DEF After, Since
  <2> QED BY <1>7, <2>1, <2>2 DEF PortAfter, Parked
<1>8. CheckInv(d) /\ d.cancelled = c.cancelled
  BY <1>3 DEF After, Since
<1>9. Leads(c, d, P)
  BY <1>3, <1>5, <1>6, <1>7, <1>8 DEF Leads, Good
<1> QED BY <1>9 DEF d

(* The two probing timers elapse.                                             *)
LEMMA ProbingTimersLead ==
  ASSUME NEW c, Good(c), Prompt(c) = {}, ~c.minWait, NEW P
  PROVE  /\ c.minProbing => Leads(c, device_context_min_probing_time_elapsed(c), P)
         /\ c.extraProbing => Leads(c, device_context_extra_probing_time_elapsed(c), P)
<1>1. c \in DeviceContexts
  BY DEF Good, CheckInv
<1>2. ASSUME c.minProbing PROVE Leads(c, device_context_min_probing_time_elapsed(c), P)
  <2> DEFINE b == [c EXCEPT !.minProbing = FALSE]
  <2>1. /\ b \in DeviceContexts /\ b.port = c.port /\ b.running = c.running
        /\ b.broken = c.broken /\ b.task = c.task /\ b.minWait = c.minWait
        /\ b.cancelled = c.cancelled /\ b.ignored = c.ignored /\ b.waiting = c.waiting
    BY <1>1 DEF DeviceContexts
  <2>2. device_context_min_probing_time_elapsed(c) = device_context_continue(InPlace, b)
    BY DEF device_context_min_probing_time_elapsed
  <2> HIDE DEF b
  <2>3. Leads(c, device_context_continue(InPlace, b), P)
    BY <1>2, <2>1, TimerLeads DEF Timed
  <2> QED BY <2>2, <2>3
<1>3. ASSUME c.extraProbing PROVE Leads(c, device_context_extra_probing_time_elapsed(c), P)
  <2> DEFINE b == [c EXCEPT !.extraProbing = FALSE]
  <2>1. /\ b \in DeviceContexts /\ b.port = c.port /\ b.running = c.running
        /\ b.broken = c.broken /\ b.task = c.task /\ b.minWait = c.minWait
        /\ b.cancelled = c.cancelled /\ b.ignored = c.ignored /\ b.waiting = c.waiting
    BY <1>1 DEF DeviceContexts
  <2>2. device_context_extra_probing_time_elapsed(c) = device_context_continue(InPlace, b)
    BY DEF device_context_extra_probing_time_elapsed
  <2> HIDE DEF b
  <2>3. Leads(c, device_context_continue(InPlace, b), P)
    BY <1>3, <2>1, TimerLeads DEF Timed
  <2> QED BY <2>2, <2>3
<1> QED BY <1>2, <1>3
-----------------------------------------------------------------------------
(* The cancellation of a check none of whose ports waits: each port is told,  *)
(* none completes in place, and the last thing done is to continue.           *)
Cancelling(c, a, R) ==
  /\ CheckInv(a) /\ a.task /\ a.running = c.running /\ a.waiting = <<>>
  /\ \A q \in Ports : a.port[q].stage \notin Parked \cup {"done"}
  /\ \A q \in R : a.port[q].stage = "checking" => a.port[q].cancelled

(* The ports that wait for the first timer are dropped by a cancellation.     *)
LEMMA NoneWaitingCancels ==
  ASSUME NEW c, Good(c), c.task, ~c.cancelled, \A q \in Ports : c.port[q].stage \notin Parked
  PROVE  Cancelling(c, NoneWaiting(c), {})
<1> DEFINE a == NoneWaiting(c)
           h == [p \in Ports |-> IF c.port[p].stage = "waiting" THEN NoPortContext ELSE c.port[p]]
           broken == c.broken \/ ~c.task \/ c.cancelled \/ (c.waiting # <<>> /\ c.running # <<>>)
<1>1. c \in DeviceContexts /\ CheckInv(c) /\ Phases(c) /\ ~c.broken
  BY DEF Good, CheckInv
<1>2. c.running \in Seq(Ports) /\ c.waiting \in Seq(Ports) /\ c.port \in [Ports -> PortContexts]
  BY <1>1, CheckFields
<1>3. ~broken /\ broken \in BOOLEAN
  BY <1>1 DEF Phases
<1>4. h \in [Ports -> PortContexts]
  BY <1>2, NoPortContextType
<1>5. a = [c EXCEPT !.cancelled = TRUE, !.waiting = <<>>, !.port = h, !.broken = broken]
  BY <1>1 DEF NoneWaiting, DeviceContexts
<1> HIDE DEF h, broken, a
<1>6. /\ a \in DeviceContexts /\ a.port = h /\ a.running = c.running /\ a.broken = broken
      /\ a.task = c.task /\ a.minWait = c.minWait /\ a.waiting = <<>>
      /\ a.minProbing = c.minProbing /\ a.extraProbing = c.extraProbing
  <2>1. <<>> \in Seq(Ports)
    OBVIOUS
  <2> QED BY <1>1, <1>3, <1>4, <1>5, <2>1 DEF DeviceContexts
<1>7. /\ NoPortContext.stage = "none" /\ NoPortContext.best = None
      /\ NoPortContext.current = 0 /\ NoPortContext.cancelled = FALSE
  BY DEF NoPortContext
<1>8. \A q \in Ports : a.port[q] = IF c.port[q].stage = "waiting" THEN NoPortContext ELSE c.port[q]
  BY <1>6 DEF h
<1>9. ASSUME NEW q \in Ports PROVE PortInv(a, q)
  <2>1. PortInv(c, q)
    BY <1>1 DEF CheckInv
  <2>2. Runs(a, q) <=> Runs(c, q)
    BY <1>6 DEF Runs
  <2>3. Len(plugin_manager_build_plugins_list(q)) \in Nat
    BY ListType DEF List
  <2>4. CASE c.port[q].stage = "waiting"
    BY <1>7, <1>8, <2>1, <2>2, <2>3, <2>4 DEF PortInv, Doing, Parked
  <2>5. CASE c.port[q].stage # "waiting"
    BY <1>8, <2>1, <2>2, <2>5 DEF PortInv
  <2> QED BY <2>4, <2>5
<1>10. Phases(a)
  BY <1>1, <1>6 DEF Phases, Timed
<1>11. CheckInv(a)
  BY <1>3, <1>6, <1>9, <1>10 DEF CheckInv
<1>12. \A q \in Ports : a.port[q].stage \notin Parked \cup {"done"}
  BY <1>7, <1>8 DEF Good, Ending, Parked
<1> QED BY <1>6, <1>11, <1>12 DEF Cancelling, a

(* One more port is cancelled; none of them completes in place.               *)
LEMMA PortCancels ==
  ASSUME NEW c, NEW a, NEW R \in SUBSET Ports, Cancelling(c, a, R), NEW p \in Ports,
         p \in Range(c.running)
  PROVE  Cancelling(c, PortCancelled(a, p), R \cup {p})
<1> DEFINE pc == a.port[p]
           x == [pc EXCEPT !.cancelled = TRUE]
           d == PortCancelled(a, p)
<1>1. /\ a \in DeviceContexts /\ CheckInv(a) /\ PortInv(a, p)
      /\ pc.stage \notin Parked \cup {"done"}
  BY DEF Cancelling, CheckInv
<1>2. Runs(a, p)
  BY DEF Cancelling, Runs
<1>3. d = port_context_cancel(a, p)
  BY <1>2 DEF PortCancelled
<1>4. pc \in PortContexts /\ pc.stage \in {"checking", "returning"}
  BY <1>1, <1>2, PortFields DEF PortInv, Doing, Parked
<1>5. CASE pc.stage = "returning" \/ pc.cancelled
  <2>1. d = a
    BY <1>3, <1>5 DEF port_context_cancel
  <2>2. Cancelling(c, a, R \cup {p})
    BY <1>5 DEF Cancelling
  <2> QED BY <2>1, <2>2
<1>6. CASE pc.stage = "checking" /\ ~pc.cancelled
  <2>1. d = PortSet(a, p, x)
    BY <1>3, <1>6 DEF port_context_cancel, PortSet
  <2>2. /\ x \in PortContexts /\ x.stage = pc.stage /\ x.cancelled = TRUE /\ x.best = pc.best
        /\ x.current = pc.current /\ x.suggested = pc.suggested
    BY <1>4 DEF PortContexts
  <2> HIDE DEF x, d
  <2>3. Aside(a, d, p) /\ d.port[p] = x
    BY <1>1, <2>1, <2>2, PortSetAside
  <2>4. PortInv(d, p)
    BY <1>1, <1>6, <2>2, <2>3 DEF PortInv, Aside, Runs, Parked
  <2>5. CheckInv(d)
    BY <1>1, <2>1, <2>2, <2>4, PortSetInv
  <2>6. \A q \in Ports : d.port[q].stage \notin Parked \cup {"done"}
    BY <1>1, <2>2, <2>3 DEF Cancelling, Aside
  <2>7. \A q \in R \cup {p} : d.port[q].stage = "checking" => d.port[q].cancelled
    BY <2>2, <2>3 DEF Cancelling, Aside
  <2>8. Cancelling(c, d, R \cup {p})
    BY <2>3, <2>5, <2>6, <2>7 DEF Cancelling, Aside
  <2> QED BY <2>8 DEF d
<1> QED BY <1>4, <1>5, <1>6

(* All running ports are cancelled.                                           *)
LEMMA AllCancels ==
  ASSUME NEW c, Good(c), c.task, ~c.cancelled, \A q \in Ports : c.port[q].stage \notin Parked
  PROVE  Cancelling(c, AllCancelled(c), Range(c.running))
<1> DEFINE n == Len(c.running)
           Done(i) == {c.running[j] : j \in 1 .. i}
<1>1. c \in DeviceContexts /\ c.running \in Seq(Ports)
  BY CheckFields DEF Good, CheckInv
<1>2. PICK w : /\ w[0] = NoneWaiting(c)
               /\ \A i \in 1 .. Len(c.running) : w[i] = PortCancelled(w[i - 1], c.running[i])
               /\ AllCancelled(c) = w[Len(c.running)]
  <2>1. CancelSteps(c)
    BY <1>1, CancelWalk
  <2> QED BY <2>1 DEF CancelSteps
<1>3. n \in Nat /\ \A i \in 1 .. n : c.running[i] \in Ports /\ c.running[i] \in Range(c.running)
  BY <1>1, RangeElements
<1> DEFINE S == [i \in 0 .. n |-> {a \in {w[i]} : Cancelling(c, a, Done(i))}]
<1>4. w[0] \in S[0]
  <2>1. Done(0) = {}
    OBVIOUS
  <2>2. Cancelling(c, w[0], Done(0))
    BY <1>2, <2>1, NoneWaitingCancels
  <2> HIDE DEF Done
  <2> QED BY <1>3, <2>2
<1>5. ASSUME NEW i \in 1 .. n, w[i - 1] \in S[i - 1] PROVE w[i] \in S[i]
  <2>1. i - 1 \in 0 .. n /\ i \in 0 .. n
    BY <1>3
  <2>2. Cancelling(c, w[i - 1], Done(i - 1))
    BY <1>5, <2>1
  <2>3. Done(i - 1) \in SUBSET Ports /\ Done(i) = Done(i - 1) \cup {c.running[i]}
    BY <1>3, <2>1
  <2> HIDE DEF Done
  <2>4. Cancelling(c, PortCancelled(w[i - 1], c.running[i]), Done(i - 1) \cup {c.running[i]})
    BY <1>3, <2>2, <2>3, PortCancels
  <2>5. Cancelling(c, w[i], Done(i))
    BY <1>2, <2>3, <2>4
  <2> QED BY <2>1, <2>5
<1>6. w[n] \in S[n]
  <2> HIDE DEF S, n
  <2> QED BY <1>3, <1>4, <1>5, Walked
<1>7. Cancelling(c, AllCancelled(c), Done(n))
  <2>1. n \in 0 .. n /\ AllCancelled(c) = w[n]
    BY <1>2, <1>3
  <2> HIDE DEF n, Done
  <2> QED BY <1>6, <2>1
<1>8. Done(n) = Range(c.running)
  BY <1>1, RangeElements
<1> HIDE DEF Done
<1> QED BY <1>7, <1>8

(* A check without a waiting port is cancelled as a whole.                    *)
LEMMA CancelLeads ==
  ASSUME NEW c, Good(c), c.task, ~c.cancelled, \A q \in Ports : c.port[q].stage \notin Parked
  PROVE  LET d == device_context_cancel(c) IN
         Good(d) /\ \A q \in Ports : d.port[q].stage \notin Parked
<1> DEFINE a == AllCancelled(c)
           b == [a EXCEPT !.minWait = FALSE, !.minProbing = FALSE, !.extraProbing = FALSE]
           d == device_context_cancel(c)
<1>1. Cancelling(c, a, Range(c.running))
  BY AllCancels
<1>2. d = device_context_continue(InPlace, b)
  BY DEF device_context_cancel
<1> HIDE DEF a, d
<1>3. /\ a \in DeviceContexts /\ CheckInv(a) /\ Phases(a) /\ ~a.broken /\ a.task
      /\ a.running = c.running /\ a.waiting = <<>>
  BY <1>1 DEF Cancelling, CheckInv
<1>4. /\ b \in DeviceContexts /\ b.port = a.port /\ b.running = a.running
      /\ b.broken = a.broken /\ b.task = a.task /\ b.minWait = FALSE
      /\ b.minProbing = FALSE /\ b.extraProbing = FALSE /\ b.waiting = a.waiting
  BY <1>3 DEF DeviceContexts
<1> HIDE DEF b
<1>5. CheckInv(b)
  <2>1. \A q \in Ports : PortInv(a, q) => PortInv(b, q)
    BY <1>4 DEF PortInv, Runs
  <2>2. Phases(b)
    BY <1>3, <1>4 DEF Phases, Timed
  <2> QED BY <1>3, <1>4, <2>1, <2>2 DEF CheckInv
<1>6. After(b, d) /\ Alive(d)
  <2>1. b.task /\ ~b.minWait
    BY <1>3, <1>4
  <2> QED BY <1>2, <1>5, <2>1, InPlaceCompletes, ContinueKeeps
<1>7. ASSUME NEW q \in Ports PROVE PortAfter(a.port[q], d.port[q])
  BY <1>4, <1>6 DEF After
<1>8. ASSUME NEW q \in Ports
      PROVE  /\ d.port[q].stage \notin Parked \cup {"done"}
             /\ d.port[q].stage = "checking" => d.port[q].cancelled
  <2>1. a.port[q].stage \notin Parked \cup {"done"} /\ PortAfter(a.port[q], d.port[q])
    BY <1>1, <1>7 DEF Cancelling
  <2>2. a.port[q].stage = "checking" => a.port[q].cancelled
    <3>1. ASSUME a.port[q].stage = "checking" PROVE q \in Range(c.running)
      <4>1. PortInv(a, q)
        BY <1>3 DEF CheckInv
      <4> QED BY <1>3, <3>1, <4>1 DEF PortInv, Runs, Doing
    <3> QED BY <1>1, <3>1 DEF Cancelling
  <2> QED BY <2>1, <2>2 DEF PortAfter, Doing, Parked
<1>9. NetInv(d) /\ Ending(d) = {}
  BY <1>8, DeviceProbingAssumption DEF NetInv, Ending, Parked
<1>10. Good(d) /\ \A q \in Ports : d.port[q].stage \notin Parked
  BY <1>6, <1>8, <1>9 DEF Good, After, Since
<1> QED BY <1>10 DEF d
-----------------------------------------------------------------------------
(* The daemon: its shape, and who may have a modem.                           *)
Tasks == [kind : Kinds, device : Nat, modem : Nat, n : Nat]
Checks == [device : Nat, check : DeviceContexts]
Daemons ==
  [devices : Seq(Devices), listed : Nat, checks : Seq(Checks), tracked : Nat,
   modems : Seq(Modems), tasks : SUBSET Tasks, inhibition : Seq(Ports), inhibiting : BOOLEAN,
   crashed : SUBSET Crashes]

(* A device that is not listed has no probes, and create_modem refuses it.    *)
DeviceInv(w, d) ==
  /\ w.devices[d].modem =< Len(w.modems)
  /\ d # w.listed => w.devices[d].modem = 0 /\ w.devices[d].probes = <<>>

TaskInv(w, t) ==
  /\ t.device \in 1 .. Len(w.devices) /\ t.modem =< Len(w.modems)
  /\ t.kind \in {"initialize", "sim", "disable"} => t.modem # 0

Base(w) ==
  /\ w \in Daemons /\ IsFiniteSet(w.tasks) /\ "check" \notin w.crashed
  /\ w.listed =< Len(w.devices) /\ w.tracked =< Len(w.checks)
  /\ \A d \in 1 .. Len(w.devices) : DeviceInv(w, d)
  /\ \A m \in 1 .. Len(w.modems) : w.modems[m].device \in 1 .. Len(w.devices)
  /\ \A k \in 1 .. Len(w.checks) : w.checks[k].device \in 1 .. Len(w.devices)
  /\ \A t \in w.tasks : TaskInv(w, t)

(* Nothing a check depends on has changed.                                    *)
Quiet(w, v) ==
  /\ v.checks = w.checks /\ v.tracked = w.tracked /\ v.listed = w.listed
  /\ Len(v.devices) = Len(w.devices)
  /\ \A d \in 1 .. Len(w.devices) : v.devices[d].probes = w.devices[d].probes

Calm(w, v) == Base(v) /\ Quiet(w, v)

(* Changing nothing is calm.                                                  *)
LEMMA CalmRefl == ASSUME NEW w, Base(w) PROVE Calm(w, w)
BY DEF Calm, Quiet

(* Calm changes add up.                                                       *)
LEMMA CalmTrans ==
  ASSUME NEW u, NEW v, NEW w, Calm(u, v), Calm(v, w)
  PROVE  Calm(u, w)
BY DEF Calm, Quiet

(* The fields of the daemon.                                                  *)
LEMMA DaemonFields ==
  ASSUME NEW w, Base(w)
  PROVE  /\ w.devices \in Seq(Devices) /\ w.listed \in Nat /\ w.checks \in Seq(Checks)
         /\ w.tracked \in Nat /\ w.modems \in Seq(Modems) /\ w.tasks \in SUBSET Tasks
         /\ w.inhibition \in Seq(Ports) /\ w.inhibiting \in BOOLEAN
         /\ w.crashed \in SUBSET Crashes
         /\ Len(w.devices) \in Nat /\ Len(w.modems) \in Nat /\ Len(w.checks) \in Nat
BY DEF Base, Daemons

(* The fields of a device.                                                    *)
LEMMA DeviceFields ==
  ASSUME NEW w, Base(w), NEW d \in 1 .. Len(w.devices)
  PROVE  LET x == w.devices[d] IN
         /\ x \in Devices /\ x.probes \in Seq(Ports) /\ x.ignored \in SUBSET Ports
         /\ x.plugin \in AllPlugins \cup {None} /\ x.modem \in 0 .. Len(w.modems)
         /\ x.reprobe \in BOOLEAN /\ x.inhibited \in BOOLEAN
<1>1. w.devices \in Seq(Devices) /\ Len(w.modems) \in Nat
  BY DaemonFields
<1>2. w.devices[d] \in Devices
  BY <1>1
<1>3. w.devices[d].modem =< Len(w.modems)
  BY DEF Base, DeviceInv
<1> QED BY <1>1, <1>2, <1>3 DEF Devices

(* The fields of a modem.                                                     *)
LEMMA ModemFields ==
  ASSUME NEW w, Base(w), NEW m \in 1 .. Len(w.modems)
  PROVE  LET x == w.modems[m] IN
         /\ x \in Modems /\ x.device \in 1 .. Len(w.devices) /\ x.valid \in BOOLEAN
         /\ x.path \in BOOLEAN /\ x.exported \in BOOLEAN /\ x.reprobe \in BOOLEAN
         /\ x.cancelled \in BOOLEAN /\ x.idle \in BOOLEAN /\ x.torn \in BOOLEAN
<1>1. w.modems \in Seq(Modems)
  BY DaemonFields
<1>2. w.modems[m] \in Modems
  BY <1>1
<1> QED BY <1>2 DEF Base, Modems

(* One device, one modem, the pending calls or the end are changed.           *)
DeviceSet(w, d, x) == [w EXCEPT !.devices[d] = x]
ModemSet(w, m, x) == [w EXCEPT !.modems[m] = x]

(* A device is changed and nothing else.                                      *)
LEMMA DeviceSetFields ==
  ASSUME NEW w, Base(w), NEW d \in 1 .. Len(w.devices), NEW x \in Devices
  PROVE  LET v == DeviceSet(w, d, x) IN
         /\ v \in Daemons /\ v.listed = w.listed /\ v.checks = w.checks
         /\ v.tracked = w.tracked /\ v.modems = w.modems /\ v.tasks = w.tasks
         /\ v.inhibition = w.inhibition /\ v.inhibiting = w.inhibiting /\ v.crashed = w.crashed
         /\ v.devices \in Seq(Devices) /\ Len(v.devices) = Len(w.devices)
         /\ v.devices[d] = x /\ \A e \in 1 .. Len(w.devices) : e # d => v.devices[e] = w.devices[e]
<1> DEFINE v == DeviceSet(w, d, x)
           s == [w.devices EXCEPT ![d] = x]
<1>1. w \in Daemons /\ w.devices \in Seq(Devices)
  BY DaemonFields DEF Base
<1>2. /\ s \in Seq(Devices) /\ Len(s) = Len(w.devices) /\ s[d] = x
      /\ \A e \in 1 .. Len(w.devices) : e # d => s[e] = w.devices[e]
  BY <1>1
<1>3. v = [w EXCEPT !.devices = s]
  BY <1>1 DEF DeviceSet, Daemons
<1> HIDE DEF s, v
<1>4. /\ v \in Daemons /\ v.listed = w.listed /\ v.checks = w.checks
      /\ v.tracked = w.tracked /\ v.modems = w.modems /\ v.tasks = w.tasks
      /\ v.inhibition = w.inhibition /\ v.inhibiting = w.inhibiting /\ v.crashed = w.crashed
      /\ v.devices = s
  BY <1>1, <1>2, <1>3 DEF Daemons
<1> QED BY <1>2, <1>4 DEF v

(* The daemon keeps its shape if the device is bare or listed.                *)
LEMMA DeviceSetBase ==
  ASSUME NEW w, Base(w), NEW d \in 1 .. Len(w.devices), NEW x \in Devices,
         x.modem =< Len(w.modems),
         d # w.listed => x.modem = 0 /\ x.probes = <<>>
  PROVE  /\ Base(DeviceSet(w, d, x))
         /\ x.probes = w.devices[d].probes => Calm(w, DeviceSet(w, d, x))
<1> DEFINE v == DeviceSet(w, d, x)
<1>1. /\ v \in Daemons /\ v.listed = w.listed /\ v.checks = w.checks
      /\ v.tracked = w.tracked /\ v.modems = w.modems /\ v.tasks = w.tasks
      /\ v.crashed = w.crashed
      /\ Len(v.devices) = Len(w.devices)
      /\ v.devices[d] = x /\ \A e \in 1 .. Len(w.devices) : e # d => v.devices[e] = w.devices[e]
  BY DeviceSetFields
<1> HIDE DEF v
<1>2. ASSUME NEW e \in 1 .. Len(v.devices) PROVE DeviceInv(v, e)
  <2>1. CASE e = d
    BY <1>1, <2>1 DEF DeviceInv
  <2>2. CASE e # d
    BY <1>1, <2>2 DEF DeviceInv, Base
  <2> QED BY <2>1, <2>2
<1>3. \A t \in v.tasks : TaskInv(v, t)
  BY <1>1 DEF Base, TaskInv
<1>4. Base(v)
  BY <1>1, <1>2, <1>3 DEF Base
<1>5. x.probes = w.devices[d].probes => Quiet(w, v)
  BY <1>1 DEF Quiet
<1> QED BY <1>4, <1>5 DEF v, Calm

(* So it does when a modem is changed.                                        *)
LEMMA ModemSetBase ==
  ASSUME NEW w, Base(w), NEW m \in 1 .. Len(w.modems), NEW x \in Modems,
         x.device = w.modems[m].device
  PROVE  LET v == ModemSet(w, m, x) IN
         /\ Calm(w, v) /\ v.devices = w.devices /\ Len(v.modems) = Len(w.modems)
         /\ v.modems[m] = x
<1> DEFINE v == ModemSet(w, m, x)
           s == [w.modems EXCEPT ![m] = x]
<1>1. w \in Daemons /\ w.modems \in Seq(Modems)
  BY DaemonFields DEF Base
<1>2. /\ s \in Seq(Modems) /\ Len(s) = Len(w.modems) /\ s[m] = x
      /\ \A e \in 1 .. Len(w.modems) : e # m => s[e] = w.modems[e]
  BY <1>1
<1>3. v = [w EXCEPT !.modems = s]
  BY <1>1 DEF ModemSet, Daemons
<1> HIDE DEF s, v
<1>4. /\ v \in Daemons /\ v.listed = w.listed /\ v.checks = w.checks
      /\ v.tracked = w.tracked /\ v.devices = w.devices /\ v.tasks = w.tasks
      /\ v.crashed = w.crashed /\ v.modems = s
  BY <1>1, <1>2, <1>3 DEF Daemons
<1>5. \A e \in 1 .. Len(v.devices) : DeviceInv(v, e)
  BY <1>2, <1>4 DEF Base, DeviceInv
<1>6. \A t \in v.tasks : TaskInv(v, t)
  BY <1>2, <1>4 DEF Base, TaskInv
<1>7. \A e \in 1 .. Len(v.modems) : v.modems[e].device \in 1 .. Len(v.devices)
  BY <1>2, <1>4 DEF Base
<1>8. Base(v)
  BY <1>4, <1>5, <1>6, <1>7 DEF Base
<1>9. Quiet(w, v)
  BY <1>4 DEF Quiet
<1> QED BY <1>2, <1>4, <1>8, <1>9 DEF v, Calm

(* A failed g_assert outside the plugin manager ends the daemon and no more.  *)
LEMMA AbortBase ==
  ASSUME NEW w, Base(w), NEW what \in Crashes, what # "check", NEW holds \in BOOLEAN
  PROVE  LET v == Require(w, holds, what) IN
         /\ Calm(w, v) /\ v.devices = w.devices /\ v.modems = w.modems /\ v.tasks = w.tasks
<1> DEFINE v == Require(w, holds, what)
<1>1. CASE holds
  BY <1>1, CalmRefl DEF Require
<1>2. CASE ~holds
  <2>1. v = [w EXCEPT !.crashed = @ \cup {what}]
    BY <1>2 DEF Require, Abort
  <2> HIDE DEF v
  <2>2. /\ v \in Daemons /\ v.listed = w.listed /\ v.checks = w.checks
        /\ v.tracked = w.tracked /\ v.devices = w.devices /\ v.tasks = w.tasks
        /\ v.crashed = w.crashed \cup {what} /\ v.modems = w.modems
    BY <2>1 DEF Base, Daemons
  <2>3. Base(v)
    BY <2>2 DEF Base, DeviceInv, TaskInv
  <2>4. Quiet(w, v)
    BY <2>2 DEF Quiet
  <2> QED BY <2>2, <2>3, <2>4 DEF v, Calm
<1> QED BY <1>1, <1>2

(* A call of an existing object is pending.                                   *)
LEMMA CallBase ==
  ASSUME NEW w, Base(w), NEW kind \in Kinds, NEW d \in 1 .. Len(w.devices),
         NEW m \in 0 .. Len(w.modems), kind \in {"initialize", "sim", "disable"} => m # 0
  PROVE  LET v == Call(w, kind, d, m) IN
         /\ Calm(w, v) /\ v.devices = w.devices /\ v.modems = w.modems
<1> DEFINE v == Call(w, kind, d, m)
           same == {t \in w.tasks : t.kind = kind /\ t.device = d /\ t.modem = m}
           n == Cardinality(same)
           t == [kind |-> kind, device |-> d, modem |-> m, n |-> n]
<1>1. n \in Nat
  <2>1. IsFiniteSet(w.tasks) /\ same \subseteq w.tasks
    BY DEF Base
  <2> HIDE DEF same
  <2>2. IsFiniteSet(same)
    BY <2>1, FS_Subset
  <2> QED BY <2>2, FS_CardinalityType
<1>2. v = [w EXCEPT !.tasks = @ \cup {t}]
  BY DEF Call
<1> HIDE DEF n, v
<1>3. t \in Tasks /\ t.kind = kind /\ t.device = d /\ t.modem = m
  <2>1. Len(w.modems) \in Nat /\ Len(w.devices) \in Nat
    BY DaemonFields
  <2> QED BY <1>1, <2>1 DEF Tasks
<1> HIDE DEF t
<1>4. /\ v \in Daemons /\ v.listed = w.listed /\ v.checks = w.checks
      /\ v.tracked = w.tracked /\ v.devices = w.devices /\ v.tasks = w.tasks \cup {t}
      /\ v.crashed = w.crashed /\ v.modems = w.modems
  BY <1>2, <1>3 DEF Base, Daemons
<1>5. IsFiniteSet(v.tasks)
  BY <1>4, FS_AddElement DEF Base
<1>6. m =< Len(w.modems)
  BY DaemonFields
<1>7. \A u \in v.tasks : TaskInv(v, u)
  BY <1>3, <1>4, <1>6 DEF Base, TaskInv
<1>8. Base(v)
  BY <1>4, <1>5, <1>7 DEF Base, DeviceInv
<1>9. Quiet(w, v)
  BY <1>4 DEF Quiet
<1> QED BY <1>4, <1>8, <1>9 DEF v, Calm
-----------------------------------------------------------------------------
(* The modem of a device.                                                     *)

(* Creating a modem: only a listed device has probes to create it from.       *)
LEMMA CreateCalm ==
  ASSUME NEW w, Base(w), NEW d \in 1 .. Len(w.devices)
  PROVE  Calm(w, mm_device_create_modem(w, d))
<1> DEFINE a == Require(w, w.devices[d].modem = 0, "modem")
           v == mm_device_create_modem(w, d)
<1>1. Calm(w, a) /\ a.devices = w.devices /\ a.modems = w.modems /\ Base(a)
  <2>1. "modem" \in Crashes /\ (w.devices[d].modem = 0) \in BOOLEAN
    BY DEF Crashes
  <2> QED BY <2>1, AbortBase DEF Calm
<1> HIDE DEF a
<1>2. CASE \/ w.devices[d].inhibited \/ w.devices[d].probes = <<>>
           \/ w.devices[d].plugin \in Refusing
  <2>1. v = a
    BY <1>2 DEF mm_device_create_modem, a
  <2> QED BY <1>1, <2>1
<1>3. CASE ~(\/ w.devices[d].inhibited \/ w.devices[d].probes = <<>>
             \/ w.devices[d].plugin \in Refusing)
  <2> DEFINE n == Len(a.modems) + 1
             s == Append(a.modems, NewModem(d))
             x == [a.devices[d] EXCEPT !.modem = n]
             b == DeviceSet(a, d, x)
  <2>1. v = [a EXCEPT !.modems = s, !.devices[d].modem = n]
    BY <1>3 DEF mm_device_create_modem, a
  <2>2. a \in Daemons /\ a.devices \in Seq(Devices) /\ a.modems \in Seq(Modems)
        /\ Len(a.modems) \in Nat /\ Len(a.devices) \in Nat
    BY <1>1, DaemonFields DEF Base
  <2>3. d \in 1 .. Len(a.devices)
    BY <1>1
  <2>4. NewModem(d) \in Modems /\ NewModem(d).device = d
    <3>1. d \in Nat
      BY <2>2, <2>3
    <3> QED BY <3>1 DEF NewModem, Modems
  <2>5. /\ s \in Seq(Modems) /\ Len(s) = Len(a.modems) + 1
        /\ \A m \in 1 .. Len(a.modems) : s[m] = a.modems[m]
        /\ s[Len(a.modems) + 1] = NewModem(d)
    <3> HIDE DEF NewModem
    <3> QED BY <2>2, <2>4
  <2> HIDE DEF s
  <2>6. a.devices[d] \in Devices /\ a.devices[d].probes # <<>>
    BY <1>1, <1>3, <2>2, <2>3
  <2>7. x \in Devices /\ x.modem = n /\ x.probes = a.devices[d].probes
    <3>1. n \in Nat
      BY <2>2
    <3> HIDE DEF n
    <3> QED BY <2>6, <3>1 DEF Devices
  <2> HIDE DEF x
  <2>8. /\ b \in Daemons /\ b.listed = a.listed /\ b.checks = a.checks
        /\ b.tracked = a.tracked /\ b.modems = a.modems /\ b.tasks = a.tasks
        /\ b.crashed = a.crashed /\ Len(b.devices) = Len(a.devices)
        /\ b.devices[d] = x /\ \A e \in 1 .. Len(a.devices) : e # d => b.devices[e] = a.devices[e]
    BY <1>1, <2>3, <2>7, DeviceSetFields
  <2>9. v = [b EXCEPT !.modems = s]
    BY <2>1, <2>2 DEF DeviceSet, Daemons, x
  <2> HIDE DEF b, v
  <2>10. /\ v \in Daemons /\ v.listed = a.listed /\ v.checks = a.checks
         /\ v.tracked = a.tracked /\ v.modems = s /\ v.tasks = a.tasks
         /\ v.crashed = a.crashed /\ v.devices = b.devices
    BY <2>5, <2>8, <2>9 DEF Daemons
  <2>11. d = a.listed
    BY <1>1, <2>3, <2>6 DEF Base, DeviceInv
  <2>12. ASSUME NEW e \in 1 .. Len(v.devices) PROVE DeviceInv(v, e)
    <3>1. CASE e = d
      BY <2>2, <2>5, <2>7, <2>8, <2>10, <2>11, <3>1 DEF DeviceInv
    <3>2. CASE e # d
      <4>1. DeviceInv(a, e) /\ v.devices[e] = a.devices[e]
        BY <1>1, <2>8, <2>10, <3>2 DEF Base
      <4>2. a.devices[e].modem \in Nat
        BY <1>1, <2>8, <2>10, DeviceFields
      <4> QED BY <2>2, <2>5, <2>10, <4>1, <4>2 DEF DeviceInv
    <3> QED BY <3>1, <3>2
  <2>13. ASSUME NEW t \in v.tasks PROVE TaskInv(v, t)
    <3>1. TaskInv(a, t) /\ t \in Tasks
      BY <1>1, <2>10, DaemonFields DEF Base
    <3> QED BY <2>2, <2>5, <2>8, <2>10, <3>1 DEF TaskInv, Tasks
  <2>14. ASSUME NEW m \in 1 .. Len(v.modems) PROVE v.modems[m].device \in 1 .. Len(v.devices)
    <3>1. m \in 1 .. Len(a.modems) \/ m = Len(a.modems) + 1
      BY <2>2, <2>5, <2>10
    <3> QED BY <1>1, <2>3, <2>4, <2>5, <2>8, <2>10, <3>1 DEF Base
  <2>15. Base(v)
    BY <1>1, <2>8, <2>10, <2>12, <2>13, <2>14 DEF Base
  <2>16. Quiet(a, v)
    BY <2>7, <2>8, <2>10 DEF Quiet
  <2> QED BY <1>1, <2>15, <2>16, CalmTrans DEF Calm, v
<1> QED BY <1>2, <1>3

(* Clearing the modem of a device leaves it none.                             *)
LEMMA ClearCalm ==
  ASSUME NEW w, Base(w), NEW d \in 1 .. Len(w.devices)
  PROVE  LET v == clear_modem(w, d) IN Calm(w, v) /\ v.devices[d].modem = 0
<1> DEFINE m == w.devices[d].modem
           v == clear_modem(w, d)
<1>1. m \in 0 .. Len(w.modems) /\ w.devices[d] \in Devices
  BY DeviceFields
<1>2. CASE m = 0
  <2>1. v = w
    BY <1>2 DEF clear_modem
  <2> QED BY <1>2, <2>1, CalmRefl
<1>3. CASE m # 0
  <2> DEFINE x == [w.devices[d] EXCEPT !.modem = 0]
             y == [w.modems[m] EXCEPT !.idle = FALSE, !.cancelled = TRUE]
             a == DeviceSet(w, d, x)
  <2>1. m \in 1 .. Len(w.modems) /\ Len(w.modems) \in Nat
    BY <1>1, <1>3, DaemonFields
  <2>2. v = [w EXCEPT !.devices[d].modem = 0, !.modems[m].idle = FALSE, !.modems[m].cancelled = TRUE]
    BY <1>3 DEF clear_modem
  <2>3. w.modems[m] \in Modems
    BY <2>1, ModemFields
  <2>4. w \in Daemons /\ w.modems \in Seq(Modems)
    BY DaemonFields DEF Base
  <2>5. v = ModemSet(a, m, y)
    <3>1. v = [a EXCEPT !.modems[m].idle = FALSE, !.modems[m].cancelled = TRUE]
      BY <2>2 DEF DeviceSet
    <3>2. a \in Daemons /\ a.modems = w.modems
      <4>1. x \in Devices
        BY <1>1 DEF Devices
      <4> HIDE DEF x
      <4> QED BY <4>1, DeviceSetFields
    <3> HIDE DEF a, m, x, v
    <3> QED BY <2>1, <2>3, <2>4, <3>1, <3>2 DEF ModemSet, Daemons, Modems
  <2>6. x \in Devices /\ x.modem = 0 /\ x.probes = w.devices[d].probes
    BY <1>1 DEF Devices
  <2>7. y \in Modems /\ y.device = w.modems[m].device
    BY <2>3 DEF Modems
  <2> HIDE DEF x, y, v, m
  <2>8. Calm(w, a) /\ Base(a)
    <3>1. d # w.listed => x.probes = <<>>
      BY <2>6 DEF Base, DeviceInv
    <3>2. x.modem =< Len(w.modems)
      BY <2>1, <2>6
    <3> QED BY <2>6, <3>1, <3>2, DeviceSetBase DEF Calm
  <2>9. a.modems = w.modems /\ a.devices[d] = x
    BY <2>6, DeviceSetFields
  <2> HIDE DEF a
  <2>10. Calm(a, v) /\ v.devices = a.devices
    BY <2>1, <2>5, <2>7, <2>8, <2>9, ModemSetBase
  <2>11. Calm(w, v) /\ v.devices[d].modem = 0
    BY <2>6, <2>8, <2>9, <2>10, CalmTrans
  <2> QED BY <2>11 DEF v
<1> QED BY <1>2, <1>3

(* Removing a modem begins.                                                   *)
LEMMA RemoveModemCalm ==
  ASSUME NEW w, Base(w), NEW d \in 1 .. Len(w.devices), NEW why \in Removals
  PROVE  Calm(w, mm_device_remove_modem(w, d, why))
<1> DEFINE m == w.devices[d].modem
           v == mm_device_remove_modem(w, d, why)
<1>1. m \in 0 .. Len(w.modems) /\ Len(w.modems) \in Nat
  BY DeviceFields, DaemonFields
<1>2. why \in Kinds /\ why \notin {"initialize", "sim", "disable"}
  BY DEF Removals, Kinds
<1>3. CASE m = 0
  <2>1. v = Call(w, why, d, 0)
    BY <1>3 DEF mm_device_remove_modem
  <2>2. 0 \in 0 .. Len(w.modems)
    BY <1>1
  <2> QED BY <1>2, <2>1, <2>2, CallBase
<1>4. CASE m # 0
  <2> DEFINE y == [w.modems[m] EXCEPT !.exported = FALSE, !.cancelled = TRUE, !.torn = TRUE,
                     !.idle = w.modems[m].idle \/ ~w.modems[m].cancelled]
             a == ModemSet(w, m, y)
  <2>1. m \in 1 .. Len(w.modems)
    BY <1>1, <1>4
  <2>2. v = Call(a, why, d, m)
    BY <1>4 DEF mm_device_remove_modem, ModemSet
  <2>3. w.modems[m] \in Modems
    BY <2>1, ModemFields
  <2>4. y \in Modems /\ y.device = w.modems[m].device
    BY <2>3 DEF Modems
  <2> HIDE DEF y, m
  <2>5. Calm(w, a) /\ a.devices = w.devices /\ Len(a.modems) = Len(w.modems)
    BY <2>1, <2>4, ModemSetBase
  <2> HIDE DEF a, v
  <2>6. Calm(a, v)
    BY <1>1, <1>2, <2>2, <2>5, CallBase DEF Calm
  <2>7. Calm(w, v)
    BY <2>5, <2>6, CalmTrans
  <2> QED BY <2>7 DEF v
<1> QED BY <1>3, <1>4

(* Removing a modem in place leaves the device none.                          *)
LEMMA RemoveQuickCalm ==
  ASSUME NEW w, Base(w), NEW d \in 1 .. Len(w.devices)
  PROVE  LET v == mm_device_remove_modem_quick(w, d) IN Calm(w, v) /\ v.devices[d].modem = 0
<1> DEFINE m == w.devices[d].modem
           v == mm_device_remove_modem_quick(w, d)
<1>1. m \in 0 .. Len(w.modems) /\ Len(w.modems) \in Nat
  BY DeviceFields, DaemonFields
<1>2. CASE m = 0
  <2>1. v = w
    BY <1>2 DEF mm_device_remove_modem_quick
  <2> QED BY <1>2, <2>1, CalmRefl
<1>3. CASE m # 0
  <2> DEFINE y == [w.modems[m] EXCEPT !.exported = FALSE]
             a == ModemSet(w, m, y)
  <2>1. m \in 1 .. Len(w.modems)
    BY <1>1, <1>3
  <2>2. v = clear_modem(a, d)
    BY <1>3 DEF mm_device_remove_modem_quick, ModemSet
  <2>3. w.modems[m] \in Modems
    BY <2>1, ModemFields
  <2>4. y \in Modems /\ y.device = w.modems[m].device
    BY <2>3 DEF Modems
  <2> HIDE DEF y, m
  <2>5. Calm(w, a) /\ a.devices = w.devices
    BY <2>1, <2>4, ModemSetBase
  <2> HIDE DEF a, v
  <2>6. Calm(a, v) /\ v.devices[d].modem = 0
    BY <2>2, <2>5, ClearCalm DEF Calm
  <2>7. Calm(w, v)
    BY <2>5, <2>6, CalmTrans
  <2> QED BY <2>6, <2>7 DEF v
<1> QED BY <1>2, <1>3

(* Setting a modem valid exports it or begins its removal.                    *)
LEMMA SetValidCalm ==
  ASSUME NEW w, Base(w), NEW m \in 1 .. Len(w.modems), NEW valid \in BOOLEAN
  PROVE  Calm(w, mm_base_modem_set_valid(w, m, valid))
<1> DEFINE y == [w.modems[m] EXCEPT !.valid = valid]
           a == ModemSet(w, m, y)
           v == mm_base_modem_set_valid(w, m, valid)
<1>1. w.modems[m] \in Modems
  BY ModemFields
<1>2. y \in Modems /\ y.device = w.modems[m].device
  BY <1>1 DEF Modems
<1>3. CASE valid /\ w.modems[m].valid
  <2>1. v = w
    BY <1>3 DEF mm_base_modem_set_valid
  <2> QED BY <2>1, CalmRefl
<1>4. CASE ~(valid /\ w.modems[m].valid)
  <2>1. v = modem_valid(a, m)
    BY <1>4 DEF mm_base_modem_set_valid, ModemSet
  <2> HIDE DEF y
  <2>2. /\ Calm(w, a) /\ Base(a) /\ a.devices = w.devices /\ Len(a.modems) = Len(w.modems)
    BY <1>2, ModemSetBase DEF Calm
  <2> HIDE DEF a, v
  <2> DEFINE d == a.modems[m].device
             z == [a.modems[m] EXCEPT !.path = TRUE, !.exported = TRUE]
  <2>3. m \in 1 .. Len(a.modems)
    BY <2>2
  <2>4. d \in 1 .. Len(a.devices) /\ a.modems[m] \in Modems
    BY <2>2, <2>3, ModemFields
  <2>5. Calm(a, modem_valid(a, m))
    <3>1. CASE a.devices[d].modem # m
      BY <2>2, <3>1, CalmRefl DEF modem_valid
    <3>2. CASE a.devices[d].modem = m /\ ~a.modems[m].valid
      <4>1. modem_valid(a, m) = mm_device_remove_modem(a, d, "invalid")
        BY <3>2 DEF modem_valid
      <4>2. "invalid" \in Removals
        BY DEF Removals
      <4> HIDE DEF d
      <4> QED BY <2>2, <2>4, <4>1, <4>2, RemoveModemCalm
    <3>3. CASE a.devices[d].modem = m /\ a.modems[m].valid
      <4>1. modem_valid(a, m) = export_modem(a, m)
        BY <3>3 DEF modem_valid
      <4>2. CASE a.modems[m].path
        BY <2>2, <4>1, <4>2, CalmRefl DEF export_modem
      <4>3. CASE ~a.modems[m].path
        <5>1. modem_valid(a, m) = ModemSet(a, m, z)
          BY <4>1, <4>3 DEF export_modem, ModemSet
        <5>2. z \in Modems /\ z.device = a.modems[m].device
          BY <2>4 DEF Modems
        <5> HIDE DEF z
        <5>3. Calm(a, ModemSet(a, m, z))
          BY <2>2, <2>3, <5>2, ModemSetBase
        <5> QED BY <5>1, <5>3
      <4> QED BY <4>2, <4>3
    <3> QED BY <3>1, <3>2, <3>3
  <2>6. Calm(w, v)
    BY <2>1, <2>2, <2>5, CalmTrans
  <2> QED BY <2>6 DEF v
<1> QED BY <1>3, <1>4

(* The initialization of a modem is called, if there is one.                  *)
LEMMA InitializeCalm ==
  ASSUME NEW w, Base(w), NEW d \in 1 .. Len(w.devices)
  PROVE  Calm(w, mm_device_initialize_modem(w, d))
<1> DEFINE m == w.devices[d].modem
<1>1. m \in 0 .. Len(w.modems) /\ "initialize" \in Kinds
  BY DeviceFields DEF Kinds
<1>2. CASE m = 0
  BY <1>2, CalmRefl DEF mm_device_initialize_modem
<1>3. CASE m # 0
  <2>1. mm_device_initialize_modem(w, d) = Call(w, "initialize", d, m)
    BY <1>3 DEF mm_device_initialize_modem
  <2> HIDE DEF m
  <2> QED BY <1>1, <1>3, <2>1, CallBase
<1> QED BY <1>2, <1>3

(* A new modem is initialized.                                                *)
LEMMA CreatedCalm ==
  ASSUME NEW w, Base(w), NEW d \in 1 .. Len(w.devices)
  PROVE  LET b == mm_device_create_modem(w, d) IN
         Calm(w, IF Created(w, b) THEN mm_device_initialize_modem(b, d) ELSE b)
<1> DEFINE b == mm_device_create_modem(w, d)
<1>1. Calm(w, b) /\ Base(b) /\ d \in 1 .. Len(b.devices)
  BY CreateCalm DEF Calm, Quiet
<1> HIDE DEF b
<1>2. Calm(b, mm_device_initialize_modem(b, d))
  BY <1>1, InitializeCalm
<1>3. Calm(w, IF Created(w, b) THEN mm_device_initialize_modem(b, d) ELSE b)
  BY <1>1, <1>2, CalmTrans
<1> QED BY <1>3 DEF b
-----------------------------------------------------------------------------
(* The checks of the daemon: each is good; the tracked one runs, and what     *)
(* waits there is a port of its device (the ports of X aside); any other that *)
(* still runs is for a device that has left.                                  *)
Goods(w) == \A k \in 1 .. Len(w.checks) : Good(w.checks[k].check)

(* A port that left the device, outside X, does not wait in the tracked check.  *)
Follows(w, X) ==
  w.tracked # 0 =>
    LET t == w.checks[w.tracked] IN
    /\ t.check.task /\ ~t.check.cancelled
    /\ \A q \in Ports : t.check.port[q].stage \in Parked =>
         q \in Range(w.devices[t.device].probes) \cup X

(* Only the tracked check may still run for the listed device.                *)
Stray(w) ==
  \A k \in 1 .. Len(w.checks) :
    k # w.tracked /\ w.checks[k].check.task => w.checks[k].device # w.listed

DInvBut(w, X) == Base(w) /\ Goods(w) /\ Follows(w, X) /\ Stray(w)
DInv(w) == DInvBut(w, {})

(* A calm change keeps the invariant.                                         *)
LEMMA CalmKeeps ==
  ASSUME NEW w, NEW v, NEW X, DInvBut(w, X), Calm(w, v)
  PROVE  DInvBut(v, X)
<1>1. /\ v.checks = w.checks /\ v.tracked = w.tracked /\ v.listed = w.listed
      /\ Len(v.devices) = Len(w.devices)
      /\ \A d \in 1 .. Len(w.devices) : v.devices[d].probes = w.devices[d].probes
  BY DEF Calm, Quiet
<1>2. Follows(v, X)
  <2>1. ASSUME w.tracked # 0 PROVE w.checks[w.tracked].device \in 1 .. Len(w.devices)
    <3>1. w.tracked \in 1 .. Len(w.checks)
      BY <2>1, DaemonFields DEF DInvBut, Base
    <3> QED BY <3>1 DEF DInvBut, Base
  <2> QED BY <1>1, <2>1 DEF DInvBut, Follows
<1> QED BY <1>1, <1>2 DEF DInvBut, Goods, Stray, Calm

(* One check is changed.                                                      *)
CheckSet(w, k, c) == [w EXCEPT !.checks[k].check = c]

(* The check is replaced and nothing else.                                    *)
LEMMA CheckSetFields ==
  ASSUME NEW w, Base(w), NEW k \in 1 .. Len(w.checks), NEW c \in DeviceContexts
  PROVE  LET v == CheckSet(w, k, c) IN
         /\ Base(v) /\ v.listed = w.listed /\ v.devices = w.devices /\ v.tracked = w.tracked
         /\ v.modems = w.modems
         /\ Len(v.checks) = Len(w.checks) /\ v.checks[k].check = c
         /\ v.checks[k].device = w.checks[k].device
         /\ \A j \in 1 .. Len(w.checks) : j # k => v.checks[j] = w.checks[j]
<1> DEFINE v == CheckSet(w, k, c)
           x == [w.checks[k] EXCEPT !.check = c]
           s == [w.checks EXCEPT ![k] = x]
<1>1. w \in Daemons /\ w.checks \in Seq(Checks)
  BY DaemonFields DEF Base
<1>2. w.checks[k] \in Checks
  BY <1>1
<1>3. x \in Checks /\ x.check = c /\ x.device = w.checks[k].device
  BY <1>2 DEF Checks
<1>4. v = [w EXCEPT !.checks = s]
  BY <1>1 DEF CheckSet, Daemons
<1> HIDE DEF x
<1>5. /\ s \in Seq(Checks) /\ Len(s) = Len(w.checks) /\ s[k] = x
      /\ \A j \in 1 .. Len(w.checks) : j # k => s[j] = w.checks[j]
  BY <1>1, <1>3
<1> HIDE DEF s, v
<1>6. /\ v \in Daemons /\ v.listed = w.listed /\ v.checks = s
      /\ v.tracked = w.tracked /\ v.devices = w.devices /\ v.tasks = w.tasks
      /\ v.crashed = w.crashed /\ v.modems = w.modems
  BY <1>1, <1>4, <1>5 DEF Daemons
<1>7. \A j \in 1 .. Len(v.checks) : v.checks[j].device \in 1 .. Len(v.devices)
  BY <1>3, <1>5, <1>6 DEF Base
<1>8. Base(v)
  BY <1>5, <1>6, <1>7 DEF Base, DeviceInv, TaskInv
<1> QED BY <1>3, <1>5, <1>6, <1>8 DEF v

(* What the end of a check does besides: it is untracked.                     *)
Shrinks(w, v, d, T) ==
  \A e \in 1 .. Len(w.devices) :
    /\ Range(v.devices[e].probes) \subseteq Range(w.devices[e].probes)
    /\ \A q \in Range(w.devices[e].probes) :
         (e = d /\ q \in T) \/ q \in Range(v.devices[e].probes)

(* The device ignores ports that it had probes of.                            *)
LEMMA IgnoreBase ==
  ASSUME NEW w, Base(w), NEW d \in 1 .. Len(w.devices), NEW T \in SUBSET Ports
  PROVE  LET v == mm_device_ignore_port(w, d, T) IN
         /\ Base(v) /\ v.listed = w.listed /\ v.checks = w.checks /\ v.tracked = w.tracked
         /\ Len(v.devices) = Len(w.devices) /\ Shrinks(w, v, d, T)
<1> DEFINE v == mm_device_ignore_port(w, d, T)
           mine == T \cap Range(w.devices[d].probes)
           rest == Kept(w.devices[d].probes, Ports \ mine)
           x == [w.devices[d] EXCEPT !.probes = rest, !.ignored = @ \cup mine]
<1>1. w \in Daemons /\ w.devices \in Seq(Devices) /\ w.devices[d] \in Devices
      /\ w.devices[d].probes \in Seq(Ports) /\ w.devices[d].modem \in 0 .. Len(w.modems)
      /\ Len(w.modems) \in Nat
  BY DaemonFields, DeviceFields DEF Base
<1>2. rest \in Seq(Ports) /\ Range(rest) = Range(w.devices[d].probes) \cap (Ports \ mine)
  BY <1>1, KeptElements
<1>3. Range(w.devices[d].probes) \subseteq Ports
  BY <1>1, RangeElements
<1>4. v = DeviceSet(w, d, x)
  <2>1. v = [w EXCEPT !.devices[d].probes = Kept(@, Ports \ mine), !.devices[d].ignored = @ \cup mine]
    BY DEF mm_device_ignore_port
  <2> HIDE DEF v, mine
  <2> QED BY <1>1, <2>1 DEF DeviceSet, Daemons, Devices
<1>5. /\ x \in Devices /\ x.probes = rest /\ x.modem = w.devices[d].modem
  <2> HIDE DEF rest, mine
  <2>1. mine \in SUBSET Ports
    BY DEF mine
  <2> QED BY <1>1, <1>2, <2>1 DEF Devices
<1>6. d # w.listed => x.modem = 0 /\ x.probes = <<>>
  <2> HIDE DEF x, rest
  <2>1. ASSUME d # w.listed PROVE x.modem = 0 /\ x.probes = <<>>
    <3>1. w.devices[d].modem = 0 /\ w.devices[d].probes = <<>>
      BY <2>1 DEF Base, DeviceInv
    <3>2. Range(w.devices[d].probes) = {}
      BY <1>1, <3>1, RangeElements
    <3>3. Range(rest) = {}
      BY <1>2, <3>2
    <3> QED BY <1>2, <1>5, <3>1, <3>3, RangeElements
  <2> QED BY <2>1
<1> HIDE DEF x, v
<1>7. Base(v)
  <2>1. x.modem =< Len(w.modems)
    BY <1>1, <1>5
  <2> QED BY <1>4, <1>5, <1>6, <2>1, DeviceSetBase
<1>8. /\ v.listed = w.listed /\ v.checks = w.checks /\ v.tracked = w.tracked
      /\ Len(v.devices) = Len(w.devices)
      /\ v.devices[d] = x /\ \A e \in 1 .. Len(w.devices) : e # d => v.devices[e] = w.devices[e]
  BY <1>4, <1>5, DeviceSetFields
<1>9. Shrinks(w, v, d, T)
  <2>1. ASSUME NEW e \in 1 .. Len(w.devices)
        PROVE  /\ Range(v.devices[e].probes) \subseteq Range(w.devices[e].probes)
               /\ \A q \in Range(w.devices[e].probes) :
                    (e = d /\ q \in T) \/ q \in Range(v.devices[e].probes)
    <3>1. CASE e = d
      <4>1. v.devices[e].probes = rest
        BY <1>5, <1>8, <3>1
      <4> HIDE DEF rest
      <4> QED BY <1>2, <1>3, <3>1, <4>1
    <3>2. CASE e # d
      BY <1>8, <3>2
    <3> QED BY <3>1, <3>2
  <2> QED BY <2>1 DEF Shrinks
<1> QED BY <1>7, <1>8, <1>9 DEF v

(* Another check is tracked, or none.                                         *)
LEMMA UntrackedBase ==
  ASSUME NEW w, Base(w), NEW k \in 0 .. Len(w.checks)
  PROVE  LET v == [w EXCEPT !.tracked = k] IN
         /\ Base(v) /\ v.tracked = k /\ v.listed = w.listed /\ v.checks = w.checks
         /\ v.devices = w.devices /\ v.modems = w.modems
<1> DEFINE v == [w EXCEPT !.tracked = k]
<1>1. w \in Daemons /\ Len(w.checks) \in Nat
  BY DaemonFields DEF Base
<1>2. /\ v \in Daemons /\ v.listed = w.listed /\ v.checks = w.checks
      /\ v.tracked = k /\ v.devices = w.devices /\ v.tasks = w.tasks
      /\ v.crashed = w.crashed /\ v.modems = w.modems
  BY <1>1 DEF Daemons
<1> HIDE DEF v
<1>3. k =< Len(w.checks)
  BY <1>1
<1>4. Base(v)
  BY <1>2, <1>3 DEF Base, DeviceInv, TaskInv
<1> QED BY <1>2, <1>4 DEF v

(* The end of a check: plugin, modem and setup of its device.                 *)
LEMMA SupportReadyBase ==
  ASSUME NEW w, Base(w), NEW k \in 1 .. Len(w.checks)
  PROVE  LET v == device_support_check_ready(w, k) IN
         /\ Base(v) /\ v.listed = w.listed /\ v.checks = w.checks
         /\ v.tracked = (IF w.tracked = k THEN 0 ELSE w.tracked)
         /\ Len(v.devices) = Len(w.devices)
         /\ \A e \in 1 .. Len(w.devices) : v.devices[e].probes = w.devices[e].probes
<1> DEFINE c == w.checks[k].check
           d == w.checks[k].device
           i == IF w.tracked = k THEN 0 ELSE w.tracked
           a == [w EXCEPT !.tracked = i]
           x == [w.devices[d] EXCEPT !.plugin = c.result]
           e == DeviceSet(a, d, x)
           b == mm_device_create_modem(e, d)
           v == device_support_check_ready(w, k)
<1>1. /\ w \in Daemons /\ d \in 1 .. Len(w.devices) /\ w.checks[k] \in Checks
      /\ Len(w.checks) \in Nat /\ w.tracked \in 0 .. Len(w.checks)
  BY DaemonFields DEF Base
<1>2. i \in 0 .. Len(w.checks)
  BY <1>1
<1>3. a = [w EXCEPT !.tracked = IF @ = k THEN 0 ELSE @]
  BY <1>1 DEF Daemons
<1>4. /\ Base(a) /\ a.tracked = i /\ a.listed = w.listed /\ a.checks = w.checks
      /\ a.devices = w.devices /\ a.modems = w.modems
  <2> HIDE DEF i
  <2> QED BY <1>2, UntrackedBase
<1>5. c.result \in Results
  BY <1>1, CheckFields DEF Checks
<1>6. CASE c.result \in {"unsupported", "cancelled"}
  <2>1. v = a
    BY <1>3, <1>6 DEF device_support_check_ready
  <2> QED BY <1>4, <2>1
<1>7. CASE c.result \notin {"unsupported", "cancelled"}
  <2>1. e = [a EXCEPT !.devices[d].plugin = c.result]
    BY <1>4 DEF DeviceSet
  <2>2. v = IF Created(a, b) THEN Call(b, "setup", d, 0) ELSE b
    <3> HIDE DEF b, a, e
    <3> QED BY <1>3, <1>7, <2>1 DEF device_support_check_ready, b
  <2> HIDE DEF c, d, i, a
  <2>3. w.devices[d] \in Devices /\ c.result \in AllPlugins \cup {None}
    BY <1>1, <1>5, <1>7, DeviceFields DEF Results
  <2>4. x \in Devices /\ x.probes = w.devices[d].probes /\ x.modem = w.devices[d].modem
    BY <2>3 DEF Devices
  <2> HIDE DEF x
  <2>5. Calm(a, e)
    <3>1. d \in 1 .. Len(a.devices)
      BY <1>1, <1>4
    <3>2. DeviceInv(a, d)
      BY <1>4, <3>1 DEF Base
    <3>3. x.modem =< Len(a.modems) /\ (d # a.listed => x.modem = 0 /\ x.probes = <<>>)
      BY <1>4, <2>4, <3>2 DEF DeviceInv
    <3> QED BY <1>4, <2>4, <3>1, <3>3, DeviceSetBase
  <2> HIDE DEF e
  <2>6. d \in 1 .. Len(e.devices) /\ Base(e)
    BY <1>1, <1>4, <2>5 DEF Calm, Quiet
  <2>7. Calm(e, b)
    BY <2>6, CreateCalm
  <2> HIDE DEF b
  <2>8. d \in 1 .. Len(b.devices) /\ Base(b)
    BY <2>6, <2>7 DEF Calm, Quiet
  <2>9. Calm(b, v)
    <3>1. "setup" \in Kinds /\ "setup" \notin {"initialize", "sim", "disable"}
          /\ 0 \in 0 .. Len(b.modems)
      <4>1. Len(b.modems) \in Nat
        BY <2>8, DaemonFields
      <4> QED BY <4>1 DEF Kinds
    <3>2. Calm(b, Call(b, "setup", d, 0))
      BY <2>8, <3>1, CallBase
    <3> HIDE DEF v
    <3> QED BY <2>2, <2>8, <3>2, CalmRefl
  <2> HIDE DEF v
  <2>10. Calm(a, v)
    BY <2>5, <2>7, <2>9, CalmTrans
  <2> QED BY <1>4, <2>10 DEF Calm, Quiet, v, i
<1> QED BY <1>6, <1>7
-----------------------------------------------------------------------------
(* What an operation on a check does to the daemon.                           *)
Ends(w, k, c) == w.checks[k].check.task /\ ~c.task

CheckedTo(w, k, c, v) ==
  /\ Base(v) /\ Goods(v) /\ v.listed = w.listed
  /\ Len(v.devices) = Len(w.devices) /\ Len(v.checks) = Len(w.checks)
  /\ \A j \in 1 .. Len(w.checks) : j # k => v.checks[j] = w.checks[j]
  /\ v.checks[k].device = w.checks[k].device
  /\ IF Ends(w, k, c)
       THEN /\ ~v.checks[k].check.task
            /\ v.tracked = (IF w.tracked = k THEN 0 ELSE w.tracked)
       ELSE v.checks[k].check = c /\ v.tracked = w.tracked
  /\ Shrinks(w, v, w.checks[k].device, c.ignored \ w.checks[k].check.ignored)

(* Adding a port does not end a check.                                        *)
LEMMA AddedTask ==
  ASSUME NEW c \in DeviceContexts, NEW p \in Ports
  PROVE  device_context_port_added(c, p).task = c.task
<1> DEFINE a == [c EXCEPT !.extraProbing = TRUE]
           d == device_context_port_added(c, p)
<1>1. c.running \in Seq(Ports) /\ c.waiting \in Seq(Ports) /\ c.port \in [Ports -> PortContexts]
  BY CheckFields
<1>2. CASE p \in Range(c.running) \cup Range(c.waiting)
  BY <1>2 DEF device_context_port_added
<1>3. CASE p \notin Range(c.running) \cup Range(c.waiting) /\ c.minWait
  <2>1. d = [a EXCEPT !.waiting = <<p>> \o @, !.port[p].stage = "waiting"]
    BY <1>3 DEF device_context_port_added
  <2> HIDE DEF d
  <2>2. d.task = c.task
    BY <2>1 DEF DeviceContexts
  <2> QED BY <2>2 DEF d
<1>4. CASE p \notin Range(c.running) \cup Range(c.waiting) /\ ~c.minWait
  <2> DEFINE s == <<p>> \o c.running
             b == [a EXCEPT !.running = s]
  <2>1. s \in Seq(Ports)
    BY <1>1
  <2>2. d = device_context_run_port_context(b, p)
    BY <1>4 DEF device_context_port_added, DeviceContexts
  <2> HIDE DEF s, d
  <2>3. b \in DeviceContexts /\ b.task = c.task
    BY <2>1 DEF DeviceContexts
  <2> HIDE DEF b
  <2>4. PICK x \in PortContexts : device_context_run_port_context(b, p) = PortSet(b, p, x)
    BY <2>3, RunPort
  <2>5. PortSet(b, p, x).task = b.task
    BY <2>3, PortSetType
  <2> QED BY <2>2, <2>3, <2>4, <2>5 DEF d
<1> QED BY <1>2, <1>3, <1>4

(* Probes that are not touched before or after.                               *)
LEMMA ShrinksSame ==
  ASSUME NEW w, NEW a, NEW b, NEW v, NEW d, NEW T, Shrinks(a, b, d, T),
         Len(a.devices) = Len(w.devices),
         \A e \in 1 .. Len(w.devices) : a.devices[e].probes = w.devices[e].probes,
         \A e \in 1 .. Len(w.devices) : v.devices[e].probes = b.devices[e].probes
  PROVE  Shrinks(w, v, d, T)
BY DEF Shrinks

(* Whatever leads a check to a good one leads the daemon on with it.          *)
LEMMA CheckedCore ==
  ASSUME NEW w, Base(w), Goods(w), NEW k \in 1 .. Len(w.checks), NEW c, Good(c)
  PROVE  CheckedTo(w, k, c, Checked(w, k, c))
<1> DEFINE old == w.checks[k].check
           d == w.checks[k].device
           T == c.ignored \ old.ignored
           w1 == CheckSet(w, k, c)
           a == Require(w1, ~c.stale, "freed")
           b == mm_device_ignore_port(a, d, T)
           v == Checked(w, k, c)
<1>1. c \in DeviceContexts /\ ~c.broken /\ d \in 1 .. Len(w.devices)
  BY DEF Good, CheckInv, Base
<1>2. c.stale \in BOOLEAN /\ T \in SUBSET Ports /\ c.task \in BOOLEAN
  BY <1>1, CheckFields
<1>3. v = IF old.task /\ ~c.task
            THEN [device_support_check_ready(b, k) EXCEPT !.checks[k].check = Finished(c)]
            ELSE b
  <2>1. Require(w1, ~c.broken, "check") = w1
    BY <1>1 DEF Require
  <2> QED BY <2>1 DEF Checked, CheckSet
<1> HIDE DEF v, T, d
<1>4. /\ Base(w1) /\ w1.listed = w.listed /\ w1.devices = w.devices /\ w1.tracked = w.tracked
      /\ Len(w1.checks) = Len(w.checks) /\ w1.checks[k].check = c
      /\ w1.checks[k].device = w.checks[k].device
      /\ \A j \in 1 .. Len(w.checks) : j # k => w1.checks[j] = w.checks[j]
  BY <1>1, CheckSetFields
<1> HIDE DEF w1
<1>5. Calm(w1, a) /\ Base(a)
  <2>1. "freed" \in Crashes /\ "freed" # "check" /\ (~c.stale) \in BOOLEAN
    BY <1>2 DEF Crashes
  <2> QED BY <1>4, <2>1, AbortBase DEF Calm
<1> HIDE DEF a
<1>6. /\ a.checks = w1.checks /\ a.tracked = w1.tracked /\ a.listed = w1.listed
      /\ Len(a.devices) = Len(w.devices)
      /\ \A e \in 1 .. Len(w.devices) : a.devices[e].probes = w.devices[e].probes
  BY <1>4, <1>5 DEF Calm, Quiet
<1>7. /\ Base(b) /\ b.listed = a.listed /\ b.checks = a.checks /\ b.tracked = a.tracked
      /\ Len(b.devices) = Len(a.devices) /\ Shrinks(a, b, d, T)
  BY <1>1, <1>2, <1>5, <1>6, IgnoreBase
<1> HIDE DEF b
<1>8. \A j \in 1 .. Len(w.checks) : Good(b.checks[j].check)
  BY <1>4, <1>6, <1>7 DEF Goods
<1>9. CASE Ends(w, k, c)
  <2> DEFINE e == device_support_check_ready(b, k)
             f == Finished(c)
  <2>1. /\ Base(e) /\ e.listed = b.listed /\ e.checks = b.checks
        /\ e.tracked = (IF b.tracked = k THEN 0 ELSE b.tracked)
        /\ Len(e.devices) = Len(b.devices)
        /\ \A i \in 1 .. Len(b.devices) : e.devices[i].probes = b.devices[i].probes
    BY <1>4, <1>6, <1>7, SupportReadyBase
  <2>2. v = CheckSet(e, k, f)
    BY <1>3, <1>9 DEF CheckSet, Ends
  <2>3. Good(f) /\ f.task = FALSE /\ f \in DeviceContexts
    BY <1>9, FinishedGood DEF Ends, Good, CheckInv
  <2> HIDE DEF e, f
  <2>4. /\ Base(v) /\ v.listed = e.listed /\ v.devices = e.devices /\ v.tracked = e.tracked
        /\ Len(v.checks) = Len(e.checks) /\ v.checks[k].check = f
        /\ v.checks[k].device = e.checks[k].device
        /\ \A j \in 1 .. Len(e.checks) : j # k => v.checks[j] = e.checks[j]
    BY <1>4, <1>6, <1>7, <2>1, <2>2, <2>3, CheckSetFields
  <2>5. Goods(v)
    <3>1. ASSUME NEW j \in 1 .. Len(v.checks) PROVE Good(v.checks[j].check)
      <4>1. CASE j = k
        BY <2>3, <2>4, <4>1
      <4>2. CASE j # k
        BY <1>4, <1>6, <1>7, <1>8, <2>1, <2>4, <4>2
      <4> QED BY <4>1, <4>2
    <3> QED BY <3>1 DEF Goods
  <2>6. Shrinks(w, v, d, T)
    BY <1>6, <1>7, <2>1, <2>4, ShrinksSame
  <2>7. \A j \in 1 .. Len(w.checks) : j # k => v.checks[j] = w.checks[j]
    BY <1>4, <1>6, <1>7, <2>1, <2>4
  <2>8. v.tracked = (IF w.tracked = k THEN 0 ELSE w.tracked)
    BY <1>4, <1>6, <1>7, <2>1, <2>4
  <2>9. /\ v.listed = w.listed /\ Len(v.devices) = Len(w.devices)
        /\ Len(v.checks) = Len(w.checks) /\ v.checks[k].device = w.checks[k].device
        /\ ~v.checks[k].check.task
    BY <1>4, <1>6, <1>7, <2>1, <2>3, <2>4
  <2> QED BY <1>9, <2>4, <2>5, <2>6, <2>7, <2>8, <2>9 DEF CheckedTo, v, d, T
<1>10. CASE ~Ends(w, k, c)
  <2>1. v = b
    BY <1>3, <1>10 DEF Ends
  <2>2. Goods(v)
    BY <1>4, <1>6, <1>7, <1>8, <2>1 DEF Goods
  <2>3. Shrinks(w, v, d, T)
    BY <1>6, <1>7, <2>1, ShrinksSame
  <2>4. \A j \in 1 .. Len(w.checks) : j # k => v.checks[j] = w.checks[j]
    BY <1>4, <1>6, <1>7, <2>1
  <2>5. /\ v.listed = w.listed /\ Len(v.devices) = Len(w.devices)
        /\ Len(v.checks) = Len(w.checks) /\ v.checks[k].device = w.checks[k].device
        /\ v.checks[k].check = c /\ v.tracked = w.tracked /\ Base(v)
    BY <1>4, <1>6, <1>7, <2>1
  <2> QED BY <1>10, <2>2, <2>3, <2>4, <2>5 DEF CheckedTo, v, d, T
<1> QED BY <1>9, <1>10

(* Ports of X may still have to be released; those of Y still have to after   *)
(* the operation.                                                             *)
LEMMA CheckedFollows ==
  ASSUME NEW w, NEW X, NEW Y, DInvBut(w, X), NEW k \in 1 .. Len(w.checks), NEW c, NEW P,
         LET old == w.checks[k].check IN
         /\ Leads(old, c, P) /\ (old.task \/ c = old)
         /\ P \subseteq Range(w.devices[w.checks[k].device].probes) \cup X,
         Y = X \/ (w.tracked = k /\ \A q \in X \ Y : c.port[q].stage \notin Parked)
  PROVE  LET v == Checked(w, k, c) IN DInvBut(v, Y) /\ CheckedTo(w, k, c, v)
<1> DEFINE old == w.checks[k].check
           d == w.checks[k].device
           T == c.ignored \ old.ignored
           v == Checked(w, k, c)
<1>1. CheckedTo(w, k, c, v)
  BY CheckedCore DEF DInvBut, Leads
<1> HIDE DEF v
<1>2. /\ Base(v) /\ Goods(v) /\ v.listed = w.listed
      /\ Len(v.devices) = Len(w.devices) /\ Len(v.checks) = Len(w.checks)
      /\ \A j \in 1 .. Len(w.checks) : j # k => v.checks[j] = w.checks[j]
      /\ v.checks[k].device = w.checks[k].device
      /\ Shrinks(w, v, d, T)
  BY <1>1 DEF CheckedTo
<1>3. Base(w) /\ w.tracked \in 0 .. Len(w.checks) /\ d \in 1 .. Len(w.devices)
      /\ Len(w.checks) \in Nat
  BY DaemonFields DEF DInvBut, Base
<1>4. \/ Ends(w, k, c) /\ ~v.checks[k].check.task
           /\ v.tracked = (IF w.tracked = k THEN 0 ELSE w.tracked)
      \/ ~Ends(w, k, c) /\ v.checks[k].check = c /\ v.tracked = w.tracked
  BY <1>1 DEF CheckedTo
<1>5. Stray(v)
  <2>1. ASSUME NEW j \in 1 .. Len(v.checks), j # v.tracked, v.checks[j].check.task
        PROVE  v.checks[j].device # v.listed
    <3>1. CASE j = k
      <4>1. w.tracked # k /\ c.task /\ ~Ends(w, k, c)
        BY <1>4, <2>1, <3>1
      <4>2. old.task
        BY <4>1
      <4> QED BY <1>2, <1>3, <3>1, <4>1, <4>2 DEF DInvBut, Stray
    <3>2. CASE j # k
      <4>1. j # w.tracked /\ v.checks[j] = w.checks[j] /\ j \in 1 .. Len(w.checks)
        BY <1>2, <1>4, <2>1, <3>2
      <4> QED BY <1>2, <2>1, <4>1 DEF DInvBut, Stray
    <3> QED BY <3>1, <3>2
  <2> QED BY <2>1 DEF Stray
<1>6. Follows(v, Y)
  <2>1. SUFFICES ASSUME v.tracked # 0
                 PROVE  LET t == v.checks[v.tracked] IN
                        /\ t.check.task /\ ~t.check.cancelled
                        /\ \A q \in Ports : t.check.port[q].stage \in Parked =>
                             q \in Range(v.devices[t.device].probes) \cup Y
    BY DEF Follows
  <2>2. v.tracked = w.tracked /\ w.tracked # 0 /\ w.tracked \in 1 .. Len(w.checks)
    BY <1>3, <1>4, <2>1
  <2> DEFINE t == w.checks[w.tracked]
  <2>3. /\ t.check.task /\ ~t.check.cancelled
        /\ \A q \in Ports : t.check.port[q].stage \in Parked =>
             q \in Range(w.devices[t.device].probes) \cup X
    BY <2>2 DEF DInvBut, Follows
  <2>4. CASE w.tracked = k
    <3>1. ~Ends(w, k, c) /\ v.checks[k].check = c
      BY <1>4, <2>2, <2>4
    <3>2. c.task /\ ~c.cancelled
      BY <2>3, <2>4, <3>1 DEF Ends, Leads
    <3>3. ASSUME NEW q \in Ports, c.port[q].stage \in Parked
          PROVE  q \in Range(v.devices[d].probes) \cup Y
      <4>1. old.port[q].stage \in Parked \/ q \in P
        BY <3>3 DEF Leads
      <4>2. q \notin T
        BY <3>3 DEF Leads
      <4>3. q \in Range(w.devices[d].probes) \cup X
        BY <2>3, <2>4, <4>1
      <4>4. CASE q \in X
        BY <3>3, <4>2, <4>4
      <4>5. CASE q \in Range(w.devices[d].probes)
        <5>1. q \in Range(v.devices[d].probes)
          BY <1>2, <1>3, <4>2, <4>5 DEF Shrinks
        <5> QED BY <5>1
      <4> QED BY <4>3, <4>4, <4>5
    <3>4. v.checks[v.tracked].check = c /\ v.checks[v.tracked].device = d
      BY <1>2, <2>2, <2>4, <3>1
    <3> HIDE DEF d, t, old
    <3> QED BY <3>2, <3>3, <3>4
  <2>5. CASE w.tracked # k
    <3>1. v.checks[v.tracked] = t /\ Y = X
      BY <1>2, <2>2, <2>5
    <3>2. ASSUME NEW q \in Ports, t.check.port[q].stage \in Parked
          PROVE  q \in Range(v.devices[t.device].probes) \cup Y
      <4>1. q \in Range(w.devices[t.device].probes) \cup X /\ t.device \in 1 .. Len(w.devices)
        BY <2>2, <2>3, <3>2, <1>3 DEF Base
      <4>2. CASE q \in X
        BY <3>1, <4>2
      <4>3. CASE q \in Range(w.devices[t.device].probes)
        <5>1. (t.device = d /\ q \in T) \/ q \in Range(v.devices[t.device].probes)
          BY <1>2, <4>1, <4>3 DEF Shrinks
        <5>2. ASSUME t.device = d, q \in T PROVE FALSE
          <6>1. old.task
            BY <5>2
          <6>2. d # w.listed
            BY <2>5, <6>1 DEF DInvBut, Stray
          <6>3. w.devices[d].probes = <<>>
            BY <1>3, <6>2 DEF Base, DeviceInv
          <6>4. q \notin Range(<<>>)
            BY DEF Range
          <6> QED BY <4>3, <5>2, <6>3, <6>4
        <5> QED BY <5>1, <5>2
      <4> QED BY <4>1, <4>2, <4>3
    <3> HIDE DEF t
    <3> QED BY <2>3, <3>1, <3>2
  <2> QED BY <2>4, <2>5
<1>7. DInvBut(v, Y)
  BY <1>2, <1>5, <1>6 DEF DInvBut
<1> QED BY <1>1, <1>7 DEF v

(* An operation that does not release a port keeps the invariant.             *)
LEMMA CheckedKeeps ==
  ASSUME NEW w, DInv(w), NEW k \in 1 .. Len(w.checks), NEW c, NEW P,
         LET old == w.checks[k].check IN
         /\ Leads(old, c, P) /\ (old.task \/ c = old)
         /\ P \subseteq Range(w.devices[w.checks[k].device].probes)
  PROVE  DInv(Checked(w, k, c))
BY CheckedFollows DEF DInv
-----------------------------------------------------------------------------
(* A device is checked, and ports are reported to its check.                  *)
LEMMA SupportCheckKeeps ==
  ASSUME NEW w, DInv(w), NEW d \in 1 .. Len(w.devices)
  PROVE  LET v == mm_plugin_manager_device_support_check(w, d) IN
         DInv(v) /\ v.tracked # 0 /\ v.devices = w.devices
<1> DEFINE v == mm_plugin_manager_device_support_check(w, d)
           k == Len(w.checks) + 1
           r == [device |-> d, check |-> device_context_run]
           s == Append(w.checks, r)
<1>1. CASE w.tracked # 0
  BY <1>1 DEF mm_plugin_manager_device_support_check
<1>2. CASE w.tracked = 0
  <2>1. w \in Daemons /\ w.checks \in Seq(Checks) /\ Len(w.checks) \in Nat /\ Base(w)
        /\ Len(w.devices) \in Nat
    BY DaemonFields DEF DInv, DInvBut, Base
  <2>2. /\ Good(device_context_run) /\ device_context_run.task /\ ~device_context_run.cancelled
        /\ \A p \in Ports : device_context_run.port[p].stage \notin Parked
    BY RunGood
  <2>3. r \in Checks /\ r.device = d /\ r.check = device_context_run
    BY <2>1, <2>2 DEF Checks, Good, CheckInv
  <2>4. v = [w EXCEPT !.checks = s, !.tracked = k]
    BY <1>2 DEF mm_plugin_manager_device_support_check
  <2> HIDE DEF r, v
  <2>5. /\ s \in Seq(Checks) /\ Len(s) = k /\ s[k] = r
        /\ \A j \in 1 .. Len(w.checks) : s[j] = w.checks[j]
    BY <2>1, <2>3
  <2>6. k \in Nat /\ k # 0
    BY <2>1
  <2> HIDE DEF s, k
  <2>7. /\ v \in Daemons /\ v.listed = w.listed /\ v.checks = s /\ v.tracked = k
        /\ v.devices = w.devices /\ v.tasks = w.tasks /\ v.modems = w.modems
        /\ v.crashed = w.crashed
    BY <2>1, <2>4, <2>5, <2>6 DEF Daemons
  <2>8. ASSUME NEW j \in 1 .. Len(v.checks)
        PROVE  j = k \/ (j \in 1 .. Len(w.checks) /\ v.checks[j] = w.checks[j])
    BY <2>1, <2>5, <2>7 DEF k
  <2>9. Base(v)
    <3>1. \A j \in 1 .. Len(v.checks) : v.checks[j].device \in 1 .. Len(v.devices)
      BY <2>1, <2>3, <2>5, <2>7, <2>8 DEF Base
    <3> QED BY <2>1, <2>5, <2>6, <2>7, <3>1 DEF Base, DeviceInv, TaskInv
  <2>10. Goods(v)
    BY <2>2, <2>3, <2>5, <2>7, <2>8 DEF Goods, DInv, DInvBut
  <2>11. Follows(v, {})
    BY <2>2, <2>3, <2>5, <2>7 DEF Follows
  <2>12. Stray(v)
    BY <1>2, <2>7, <2>8 DEF DInv, DInvBut, Stray
  <2> QED BY <2>6, <2>7, <2>9, <2>10, <2>11, <2>12 DEF DInv, DInvBut, v
<1> QED BY <1>1, <1>2

(* A port is added to the tracked check.                                      *)
LEMMA AddPortKeeps ==
  ASSUME NEW w, DInv(w), w.tracked # 0, NEW p \in Ports
  PROVE  LET v == mm_plugin_manager_device_support_check_add_port(w, p) IN
         DInv(v) /\ v.tracked # 0
<1> DEFINE k == w.tracked
           old == w.checks[k].check
           c == device_context_port_added(old, p)
           v == Checked(w, k, c)
<1>1. k \in 1 .. Len(w.checks)
  BY DaemonFields DEF DInv, DInvBut, Base
<1>2. Good(old) /\ old.task
  BY <1>1 DEF DInv, DInvBut, Goods, Follows
<1>3. Leads(old, c, {})
  BY <1>2, AddedLeads
<1>4. c.task
  BY <1>2, AddedTask DEF Good, CheckInv
<1> HIDE DEF c
<1>5. DInv(v) /\ CheckedTo(w, k, c, v)
  <2>1. {} \subseteq Range(w.devices[w.checks[k].device].probes) \cup {}
    OBVIOUS
  <2> HIDE DEF k
  <2> QED BY <1>1, <1>2, <1>3, <2>1, CheckedFollows DEF DInv
<1>6. v.tracked = w.tracked
  BY <1>4, <1>5 DEF CheckedTo, Ends
<1> QED BY <1>5, <1>6 DEF mm_plugin_manager_device_support_check_add_port, c

(* The device is checked for one port.                                        *)
LEMMA AddSingleKeeps ==
  ASSUME NEW w, DInv(w), NEW d \in 1 .. Len(w.devices), NEW p \in Ports
  PROVE  DInv(device_support_check_add_single_port(w, d, p))
<1> DEFINE a == mm_plugin_manager_device_support_check(w, d)
<1>1. DInv(a) /\ a.tracked # 0
  BY SupportCheckKeeps
<1> HIDE DEF a
<1>2. DInv(mm_plugin_manager_device_support_check_add_port(a, p))
  BY <1>1, AddPortKeeps
<1> QED BY <1>2 DEF device_support_check_add_single_port, a

(* All ports of a list are added to the tracked check.                        *)
LEMMA ReportedKeeps ==
  ASSUME NEW w, DInv(w), w.tracked # 0, NEW ports \in Seq(Ports)
  PROVE  DInv(AllReported(w, ports))
<1> DEFINE n == Len(ports)
<1>1. PICK x : /\ x[0] = w
               /\ \A i \in 1 .. Len(ports) :
                    x[i] = mm_plugin_manager_device_support_check_add_port(x[i - 1], ports[i])
               /\ AllReported(w, ports) = x[Len(ports)]
  <2>1. ReportSteps(w, ports)
    BY ReportWalk
  <2> QED BY <2>1 DEF ReportSteps
<1>2. n \in Nat /\ \A i \in 1 .. n : ports[i] \in Ports
  OBVIOUS
<1> HIDE DEF n
<1> DEFINE P == {i \in 0 .. n : DInv(x[i]) /\ x[i].tracked # 0}
<1>3. 0 \in P
  BY <1>1, <1>2
<1>4. ASSUME NEW i \in 1 .. n, i - 1 \in P PROVE i \in P
  <2>1. DInv(x[i - 1]) /\ x[i - 1].tracked # 0 /\ ports[i] \in Ports
    BY <1>2, <1>4
  <2>2. x[i] = mm_plugin_manager_device_support_check_add_port(x[i - 1], ports[i])
    BY <1>1 DEF n
  <2>3. DInv(x[i]) /\ x[i].tracked # 0
    BY <2>1, <2>2, AddPortKeeps
  <2> QED BY <1>2, <2>3
<1>5. P = 0 .. n
  <2>1. P \in SUBSET (0 .. n)
    OBVIOUS
  <2> HIDE DEF P
  <2> QED BY <1>2, <1>3, <1>4, <2>1, UpTo
<1>6. DInv(x[n])
  BY <1>2, <1>5
<1> QED BY <1>1, <1>6 DEF n

(* The device is checked for all of its ports.                                *)
LEMMA AddAllKeeps ==
  ASSUME NEW w, DInv(w), NEW d \in 1 .. Len(w.devices)
  PROVE  DInv(device_support_check_add_all_ports(w, d))
<1> DEFINE a == Require(w, w.tracked = 0, "ongoing")
           b == mm_plugin_manager_device_support_check(a, d)
<1>1. Calm(w, a) /\ a.devices = w.devices
  <2>1. "ongoing" \in Crashes /\ "ongoing" # "check" /\ (w.tracked = 0) \in BOOLEAN
    BY DEF Crashes
  <2> QED BY <2>1, AbortBase DEF DInv, DInvBut
<1> HIDE DEF a
<1>2. DInv(a)
  BY <1>1, CalmKeeps DEF DInv
<1>3. DInv(b) /\ b.tracked # 0
  BY <1>1, <1>2, SupportCheckKeeps
<1> HIDE DEF b
<1>4. w.devices[d].probes \in Seq(Ports)
  BY DeviceFields DEF DInv, DInvBut
<1>5. DInv(AllReported(b, w.devices[d].probes))
  BY <1>3, <1>4, ReportedKeeps
<1> QED BY <1>5 DEF device_support_check_add_all_ports, b, a
-----------------------------------------------------------------------------
(* A port is released, and the device with its last one.                      *)
NotParked(w, p) == w.checks[w.tracked].check.port[p].stage \notin Parked

(* The checks up to i know that port p of device d is released.               *)
Releasing(v, d, p, n, i) ==
  /\ DInvBut(v, {p}) /\ v.listed = d /\ Len(v.checks) = n
  /\ v.tracked # 0 /\ (v.tracked =< i \/ v.checks[v.tracked].device # d) => NotParked(v, p)

(* The device has dropped the port, no check knows yet.                       *)
LEMMA ReleaseStarts ==
  ASSUME NEW w, DInv(w), w.listed # 0, NEW p \in Ports
  PROVE  Releasing(ReleaseStart(w, w.listed, p), w.listed, p, Len(w.checks), 0)
<1> DEFINE d == w.listed
           v == ReleaseStart(w, d, p)
           rest == Without(w.devices[d].probes, p)
           x == [w.devices[d] EXCEPT !.probes = rest, !.ignored = @ \ {p}]
<1>1. Base(w) /\ w \in Daemons /\ w.tracked \in 0 .. Len(w.checks) /\ d \in 1 .. Len(w.devices)
  BY DaemonFields DEF DInv, DInvBut, Base
<1>2. w.devices[d] \in Devices /\ w.devices[d].probes \in Seq(Ports)
      /\ w.devices[d].ignored \in SUBSET Ports
      /\ w.devices[d].modem \in 0 .. Len(w.modems) /\ Len(w.modems) \in Nat
  BY <1>1, DeviceFields, DaemonFields
<1>3. rest \in Seq(Ports) /\ Range(rest) = Range(w.devices[d].probes) \cap (Ports \ {p})
  BY <1>2, KeptElements DEF Without
<1>4. Range(w.devices[d].probes) \subseteq Ports
  BY <1>2, RangeElements
<1>5. v = DeviceSet(w, d, x)
  <2>1. v = [w EXCEPT !.devices[d].probes = Without(@, p), !.devices[d].ignored = @ \ {p}]
    BY DEF ReleaseStart
  <2> HIDE DEF v, d
  <2> QED BY <1>1, <1>2, <2>1 DEF DeviceSet, Daemons, Devices
<1>6. x \in Devices /\ x.probes = rest /\ x.modem = w.devices[d].modem
  <2> HIDE DEF rest, d
  <2> QED BY <1>2, <1>3 DEF Devices
<1> HIDE DEF x, v
<1>7. Base(v)
  <2>1. x.modem =< Len(w.modems)
    BY <1>2, <1>6
  <2> QED BY <1>1, <1>5, <1>6, <2>1, DeviceSetBase
<1>8. /\ v.listed = w.listed /\ v.checks = w.checks /\ v.tracked = w.tracked
      /\ Len(v.devices) = Len(w.devices)
      /\ v.devices[d] = x /\ \A e \in 1 .. Len(w.devices) : e # d => v.devices[e] = w.devices[e]
  BY <1>1, <1>5, <1>6, DeviceSetFields
<1>9. DInvBut(v, {p}) /\ (v.tracked # 0 /\ v.checks[v.tracked].device # d => NotParked(v, p))
  <2> DEFINE t == w.checks[w.tracked]
  <2>1. ASSUME w.tracked # 0
        PROVE  /\ t.check.task /\ ~t.check.cancelled /\ t.device \in 1 .. Len(w.devices)
               /\ \A q \in Ports : t.check.port[q].stage \in Parked =>
                    q \in Range(w.devices[t.device].probes)
    BY <1>1, <2>1 DEF DInv, DInvBut, Follows, Base
  <2>2. Follows(v, {p})
    <3>1. ASSUME w.tracked # 0, NEW q \in Ports, t.check.port[q].stage \in Parked
          PROVE  q \in Range(v.devices[t.device].probes) \cup {p}
      <4>1. q \in Range(w.devices[t.device].probes)
        BY <2>1, <3>1
      <4>2. CASE t.device = d
        <5>1. v.devices[t.device].probes = rest
          BY <1>6, <1>8, <4>2
        <5> HIDE DEF rest, d
        <5> QED BY <1>3, <4>1, <4>2, <5>1
      <4>3. CASE t.device # d
        BY <1>8, <2>1, <3>1, <4>1, <4>3
      <4> QED BY <4>2, <4>3
    <3> QED BY <1>8, <2>1, <3>1 DEF Follows
  <2>3. ASSUME v.tracked # 0, v.checks[v.tracked].device # d PROVE NotParked(v, p)
    <3>1. w.tracked # 0 /\ t.device # w.listed /\ t = v.checks[v.tracked]
      BY <1>8, <2>3
    <3>2. w.devices[t.device].probes = <<>>
      BY <1>1, <2>1, <3>1 DEF Base, DeviceInv
    <3>3. p \notin Range(<<>>)
      BY DEF Range
    <3> QED BY <2>1, <3>1, <3>2, <3>3 DEF NotParked
  <2>4. Goods(v) /\ Stray(v)
    BY <1>8 DEF DInv, DInvBut, Goods, Stray
  <2> QED BY <1>7, <2>2, <2>3, <2>4 DEF DInvBut
<1>10. ~(v.tracked =< 0) \/ v.tracked = 0
  BY <1>1, <1>8
<1> QED BY <1>8, <1>9, <1>10 DEF Releasing, v

(* The next check is told.                                                    *)
LEMMA PortReleases ==
  ASSUME NEW v, NEW d, NEW p \in Ports, NEW n \in Nat, NEW k \in 1 .. n,
         Releasing(v, d, p, n, k - 1)
  PROVE  Releasing(PortReleased(v, k, d, p), d, p, n, k)
<1> DEFINE old == v.checks[k].check
           c == device_context_port_released(old, p)
           u == Checked(v, k, c)
<1>1. /\ DInvBut(v, {p}) /\ v.listed = d /\ Len(v.checks) = n /\ k \in 1 .. Len(v.checks)
      /\ v.tracked \in 0 .. n
      /\ v.tracked # 0 /\ (v.tracked =< k - 1 \/ v.checks[v.tracked].device # d) => NotParked(v, p)
  BY DaemonFields DEF Releasing, DInvBut, Base
<1>2. CASE v.checks[k].device # d
  <2>1. PortReleased(v, k, d, p) = v
    BY <1>2 DEF PortReleased
  <2>2. v.tracked =< k => v.tracked =< k - 1 \/ v.tracked = k
    BY <1>1
  <2> QED BY <1>1, <1>2, <2>1, <2>2 DEF Releasing
<1>3. CASE v.checks[k].device = d
  <2>1. PortReleased(v, k, d, p) = u
    BY <1>3 DEF PortReleased
  <2>2. Good(old)
    BY <1>1 DEF DInvBut, Goods
  <2>3. Leads(old, c, {}) /\ c.port[p].stage \notin Parked
    BY <2>2, ReleasedLeads
  <2>4. old.task \/ c = old
    BY DEF device_context_port_released
  <2> HIDE DEF c
  <2>5. DInvBut(u, {p}) /\ CheckedTo(v, k, c, u)
    <3>1. {} \subseteq Range(v.devices[v.checks[k].device].probes) \cup {p}
      OBVIOUS
    <3> QED BY <1>1, <2>3, <2>4, <3>1, CheckedFollows
  <2> HIDE DEF u
  <2>6. /\ u.listed = v.listed /\ Len(u.checks) = Len(v.checks)
        /\ \A j \in 1 .. Len(v.checks) : j # k => u.checks[j] = v.checks[j]
        /\ \/ Ends(v, k, c) /\ u.tracked = (IF v.tracked = k THEN 0 ELSE v.tracked)
           \/ u.checks[k].check = c /\ u.tracked = v.tracked
    BY <2>5 DEF CheckedTo
  <2>7. ASSUME u.tracked # 0, u.tracked =< k \/ u.checks[u.tracked].device # d
        PROVE  NotParked(u, p)
    <3>1. u.tracked = v.tracked /\ v.tracked \in 1 .. n
      BY <1>1, <2>6, <2>7
    <3>2. CASE v.tracked = k
      <4>1. u.checks[k].check = c
        BY <2>6, <2>7, <3>1, <3>2
      <4> QED BY <2>3, <3>1, <3>2, <4>1 DEF NotParked
    <3>3. CASE v.tracked # k
      <4>1. u.checks[u.tracked] = v.checks[v.tracked]
        BY <1>1, <2>6, <3>1, <3>3
      <4>2. v.tracked =< k - 1 \/ v.checks[v.tracked].device # d
        BY <2>7, <3>1, <3>3, <4>1
      <4>3. NotParked(v, p)
        BY <1>1, <3>1, <4>2
      <4> QED BY <4>1, <4>3 DEF NotParked
    <3> QED BY <3>2, <3>3
  <2> QED BY <1>1, <2>1, <2>5, <2>6, <2>7 DEF Releasing
<1> QED BY <1>2, <1>3

(* In the end all of them know.                                               *)
LEMMA ReleaseKeeps ==
  ASSUME NEW w, DInv(w), w.listed # 0, NEW p \in Ports
  PROVE  LET v == mm_device_release_port_name(w, w.listed, p) IN
         DInv(v) /\ v.listed = w.listed
<1> DEFINE n == Len(w.checks)
           d == w.listed
           v == mm_device_release_port_name(w, d, p)
<1>1. w.checks \in Seq(Checks) /\ n \in Nat
  BY DaemonFields DEF DInv, DInvBut
<1>2. PICK x : /\ x[0] = ReleaseStart(w, d, p)
               /\ \A i \in 1 .. Len(w.checks) : x[i] = PortReleased(x[i - 1], i, d, p)
               /\ v = x[Len(w.checks)]
  <2>1. ReleaseSteps(w, d, p)
    BY <1>1, ReleaseWalk
  <2> QED BY <2>1 DEF ReleaseSteps
<1>3. Releasing(x[0], d, p, n, 0)
  BY <1>2, ReleaseStarts
<1> HIDE DEF n, d, v
<1> DEFINE P == {i \in 0 .. n : Releasing(x[i], d, p, n, i)}
<1>4. 0 \in P
  BY <1>1, <1>3
<1>5. ASSUME NEW i \in 1 .. n, i - 1 \in P PROVE i \in P
  <2>1. Releasing(x[i - 1], d, p, n, i - 1)
    BY <1>5
  <2>2. x[i] = PortReleased(x[i - 1], i, d, p)
    BY <1>2 DEF n
  <2>3. Releasing(x[i], d, p, n, i)
    BY <1>1, <2>1, <2>2, PortReleases
  <2> QED BY <1>1, <2>3
<1>6. P = 0 .. n
  <2>1. P \in SUBSET (0 .. n)
    OBVIOUS
  <2> HIDE DEF P
  <2> QED BY <1>1, <1>4, <1>5, <2>1, UpTo
<1>7. Releasing(v, d, p, n, n)
  <2>1. n \in P
    <3> HIDE DEF P
    <3> QED BY <1>1, <1>6
  <2> QED BY <1>2, <2>1 DEF n
<1>8. DInvBut(v, {p}) /\ v.listed = d /\ (v.tracked # 0 => NotParked(v, p))
  <2>1. v.tracked =< n
    BY <1>7, DaemonFields DEF Releasing, DInvBut, Base
  <2> QED BY <1>7, <2>1 DEF Releasing
<1>9. DInv(v)
  <2>1. Follows(v, {})
    BY <1>8 DEF DInvBut, Follows, NotParked
  <2> QED BY <1>8, <2>1 DEF DInv, DInvBut
<1> QED BY <1>8, <1>9 DEF v, d
-----------------------------------------------------------------------------
(* The device goes with its last probe.                                       *)

(* The ports of an inhibited device are noted.                                *)
LEMMA InhibitionCalm ==
  ASSUME NEW w, Base(w), NEW i \in BOOLEAN, NEW s \in Seq(Ports)
  PROVE  Calm(w, [w EXCEPT !.inhibiting = i, !.inhibition = s])
<1> DEFINE v == [w EXCEPT !.inhibiting = i, !.inhibition = s]
<1>1. w \in Daemons
  BY DEF Base
<1>2. /\ v \in Daemons /\ v.listed = w.listed /\ v.checks = w.checks
      /\ v.tracked = w.tracked /\ v.devices = w.devices /\ v.tasks = w.tasks
      /\ v.crashed = w.crashed /\ v.modems = w.modems
  BY <1>1 DEF Daemons
<1> HIDE DEF v
<1>3. Base(v)
  BY <1>2 DEF Base, DeviceInv, TaskInv
<1>4. Quiet(w, v)
  BY <1>2 DEF Quiet
<1> QED BY <1>3, <1>4 DEF Calm, v

(* A port of an inhibited device is forgotten.                                *)
LEMMA UntrackCalm ==
  ASSUME NEW w, Base(w), NEW p
  PROVE  Calm(w, device_inhibited_untrack_port(w, p))
<1> DEFINE s == Without(w.inhibition, p)
           i == w.inhibiting
<1>1. w \in Daemons /\ w.inhibition \in Seq(Ports) /\ w.inhibiting \in BOOLEAN
  BY DaemonFields DEF Base
<1>2. s \in Seq(Ports)
  BY <1>1, WithoutElements
<1>3. device_inhibited_untrack_port(w, p) = [w EXCEPT !.inhibiting = i, !.inhibition = s]
  <2>1. device_inhibited_untrack_port(w, p) = [w EXCEPT !.inhibition = s]
    BY DEF device_inhibited_untrack_port
  <2> HIDE DEF s
  <2> QED BY <1>1, <2>1 DEF Daemons
<1> HIDE DEF s, i
<1>4. i \in BOOLEAN
  BY <1>1 DEF i
<1>5. Calm(w, [w EXCEPT !.inhibiting = i, !.inhibition = s])
  BY <1>2, <1>4, InhibitionCalm
<1> QED BY <1>3, <1>5

(* The check of a device without ports is cancelled.                          *)
LEMMA CancelledBase ==
  ASSUME NEW w, DInv(w), w.listed # 0, w.devices[w.listed].probes = <<>>
  PROVE  LET v == mm_plugin_manager_device_support_check_cancel(w) IN
         /\ Base(v) /\ Goods(v) /\ v.tracked = 0 /\ v.listed = w.listed
         /\ Len(v.devices) = Len(w.devices) /\ v.devices[w.listed].probes = <<>>
<1> DEFINE k == w.tracked
           old == w.checks[k].check
           c == device_context_cancel(old)
           a == [w EXCEPT !.tracked = 0]
           v == mm_plugin_manager_device_support_check_cancel(w)
<1>1. Base(w) /\ Goods(w) /\ k \in 0 .. Len(w.checks) /\ w.listed \in 1 .. Len(w.devices)
      /\ Len(w.checks) \in Nat
  BY DaemonFields DEF DInv, DInvBut, Base
<1>2. CASE k = 0
  <2>1. v = w
    BY <1>2 DEF mm_plugin_manager_device_support_check_cancel
  <2> QED BY <1>1, <1>2, <2>1
<1>3. CASE k # 0
  <2>1. v = Checked(a, k, c)
    BY <1>3 DEF mm_plugin_manager_device_support_check_cancel
  <2>2. Base(a) /\ a.tracked = 0 /\ a.listed = w.listed /\ a.checks = w.checks
        /\ a.devices = w.devices
    <3>1. 0 \in 0 .. Len(w.checks)
      BY <1>1
    <3> QED BY <1>1, <3>1, UntrackedBase
  <2>3. k \in 1 .. Len(w.checks) /\ w.checks[k].device \in 1 .. Len(w.devices) /\ Good(old)
    BY <1>1, <1>3 DEF Base, Goods
  <2>4. /\ old.task /\ ~old.cancelled
        /\ \A q \in Ports : old.port[q].stage \in Parked => q \in Range(w.devices[w.checks[k].device].probes)
    BY <1>3 DEF DInv, DInvBut, Follows
  <2>5. w.devices[w.checks[k].device].probes = <<>>
    BY <1>1, <2>3 DEF Base, DeviceInv
  <2>6. \A q \in Ports : q \notin Range(<<>>)
    BY DEF Range
  <2>7. Good(c)
    BY <2>3, <2>4, <2>5, <2>6, CancelLeads
  <2> HIDE DEF c, a, v, k
  <2>8. CheckedTo(a, k, c, v)
    BY <2>1, <2>2, <2>3, <2>7, <1>1, CheckedCore DEF Goods
  <2>9. /\ Base(v) /\ Goods(v) /\ v.listed = a.listed /\ Len(v.devices) = Len(a.devices)
        /\ v.tracked = 0
        /\ \A e \in 1 .. Len(a.devices) : Range(v.devices[e].probes) \subseteq Range(a.devices[e].probes)
    BY <2>2, <2>8 DEF CheckedTo, Shrinks
  <2>10. v.devices[w.listed].probes = <<>>
    <3>1. w.listed \in 1 .. Len(v.devices)
      BY <1>1, <2>2, <2>9
    <3>2. v.devices[w.listed].probes \in Seq(Ports)
      BY <2>9, <3>1, DeviceFields
    <3>3. Range(v.devices[w.listed].probes) = {}
      <4>1. Range(v.devices[w.listed].probes) \subseteq Range(a.devices[w.listed].probes)
        BY <1>1, <2>2, <2>9
      <4>2. a.devices[w.listed].probes = <<>> /\ Range(<<>>) = {}
        BY <2>2 DEF Range
      <4> QED BY <4>1, <4>2
    <3> QED BY <3>2, <3>3, RangeElements
  <2> QED BY <2>2, <2>9, <2>10 DEF v
<1> QED BY <1>2, <1>3

(* The device leaves the table when it has neither modem nor probe.           *)
LEMMA UnlistedKeeps ==
  ASSUME NEW w, Base(w), Goods(w), w.tracked = 0, w.listed # 0,
         w.devices[w.listed].modem = 0, w.devices[w.listed].probes = <<>>
  PROVE  DInv([w EXCEPT !.listed = 0])
<1> DEFINE v == [w EXCEPT !.listed = 0]
<1>1. w \in Daemons
  BY DEF Base
<1>2. /\ v \in Daemons /\ v.listed = 0 /\ v.checks = w.checks
      /\ v.tracked = w.tracked /\ v.devices = w.devices /\ v.tasks = w.tasks
      /\ v.crashed = w.crashed /\ v.modems = w.modems
  BY <1>1 DEF Daemons
<1> HIDE DEF v
<1>3. ASSUME NEW e \in 1 .. Len(v.devices) PROVE DeviceInv(v, e)
  BY <1>2 DEF Base, DeviceInv
<1>4. Len(v.devices) \in Nat
  BY <1>2, DaemonFields
<1>5. Base(v)
  BY <1>2, <1>3, <1>4 DEF Base, TaskInv
<1>6. Stray(v)
  BY <1>2, <1>4 DEF Stray, Base
<1>7. Follows(v, {}) /\ Goods(v)
  BY <1>2 DEF Follows, Goods
<1> QED BY <1>5, <1>6, <1>7 DEF DInv, DInvBut, v

(* A port is removed, with the last one its device.                           *)
LEMMA RemovedKeeps ==
  ASSUME NEW w, DInv(w), NEW p \in Ports
  PROVE  DInv(device_removed(w, p))
<1> DEFINE d == w.listed
           a == mm_device_release_port_name(w, d, p)
           e == mm_plugin_manager_device_support_check_cancel(a)
           b == mm_device_remove_modem_quick(e, d)
           v == device_removed(w, p)
<1>1. CASE p \notin Owned(w)
  <2>1. v = device_inhibited_untrack_port(w, p)
    BY <1>1 DEF device_removed
  <2>2. Calm(w, device_inhibited_untrack_port(w, p))
    BY UntrackCalm DEF DInv, DInvBut
  <2> QED BY <2>1, <2>2, CalmKeeps DEF DInv
<1>2. CASE p \in Owned(w)
  <2>1. d # 0
    BY <1>2 DEF Owned
  <2>2. DInv(a) /\ a.listed = d
    BY <2>1, ReleaseKeeps
  <2>3. CASE a.devices[d].probes # <<>>
    <3>1. v = a
      BY <1>2, <2>3 DEF device_removed
    <3> QED BY <2>2, <3>1
  <2>4. CASE a.devices[d].probes = <<>>
    <3>1. v = [b EXCEPT !.listed = 0]
      BY <1>2, <2>4 DEF device_removed
    <3> HIDE DEF a, d, v
    <3>2. /\ Base(e) /\ Goods(e) /\ e.tracked = 0 /\ e.listed = d
          /\ e.devices[d].probes = <<>>
      BY <2>1, <2>2, <2>4, CancelledBase
    <3> HIDE DEF e
    <3>3. d \in 1 .. Len(e.devices)
      BY <2>1, <3>2, DaemonFields DEF Base
    <3>4. Calm(e, b) /\ b.devices[d].modem = 0
      BY <3>2, <3>3, RemoveQuickCalm
    <3> HIDE DEF b
    <3>5. /\ Base(b) /\ Goods(b) /\ b.tracked = 0 /\ b.listed = d /\ b.devices[d].probes = <<>>
      BY <3>2, <3>3, <3>4 DEF Calm, Quiet, Goods
    <3> QED BY <2>1, <3>1, <3>4, <3>5, UnlistedKeeps DEF v
  <2> QED BY <2>3, <2>4
<1> QED BY <1>1, <1>2
-----------------------------------------------------------------------------
(* Ports that are added.                                                      *)

(* The device grabs a port.                                                   *)
LEMMA GrabKeeps ==
  ASSUME NEW w, DInv(w), w.listed # 0, NEW p \in Ports
  PROVE  LET v == mm_device_grab_port(w, w.listed, p) IN
         DInv(v) /\ v.listed = w.listed /\ Len(v.devices) = Len(w.devices)
<1> DEFINE d == w.listed
           v == mm_device_grab_port(w, d, p)
           s == <<p>> \o w.devices[d].probes
           x == [w.devices[d] EXCEPT !.probes = s]
<1>1. Base(w) /\ w \in Daemons /\ w.tracked \in 0 .. Len(w.checks) /\ d \in 1 .. Len(w.devices)
  BY DaemonFields DEF DInv, DInvBut, Base
<1>2. w.devices[d] \in Devices /\ w.devices[d].probes \in Seq(Ports)
      /\ w.devices[d].modem \in 0 .. Len(w.modems) /\ Len(w.modems) \in Nat
  BY <1>1, DeviceFields, DaemonFields
<1>3. /\ s \in Seq(Ports) /\ Len(s) = Len(w.devices[d].probes) + 1
      /\ \A i \in 1 .. Len(w.devices[d].probes) : s[i + 1] = w.devices[d].probes[i]
  BY <1>2
<1> HIDE DEF s
<1>4. Range(w.devices[d].probes) \subseteq Range(s)
  <2>1. ASSUME NEW q \in Range(w.devices[d].probes) PROVE q \in Range(s)
    <3>1. PICK i \in 1 .. Len(w.devices[d].probes) : q = w.devices[d].probes[i]
      BY <1>2, RangeElements
    <3>2. i + 1 \in 1 .. Len(s) /\ s[i + 1] = q
      BY <1>2, <1>3, <3>1
    <3> QED BY <1>3, <3>2, RangeElements
  <2> QED BY <2>1
<1>5. v = DeviceSet(w, d, x)
  <2>1. v = [w EXCEPT !.devices[d].probes = <<p>> \o @]
    BY DEF mm_device_grab_port
  <2>2. v = [w EXCEPT !.devices[d].probes = s]
    BY <2>1 DEF s
  <2> HIDE DEF v, d
  <2> QED BY <2>2 DEF DeviceSet
<1>6. x \in Devices /\ x.probes = s /\ x.modem = w.devices[d].modem
  <2> HIDE DEF d
  <2> QED BY <1>2, <1>3 DEF Devices
<1> HIDE DEF x, v
<1>7. Base(v)
  <2>1. x.modem =< Len(w.modems)
    BY <1>2, <1>6
  <2> QED BY <1>1, <1>5, <1>6, <2>1, DeviceSetBase
<1>8. /\ v.listed = w.listed /\ v.checks = w.checks /\ v.tracked = w.tracked
      /\ Len(v.devices) = Len(w.devices)
      /\ v.devices[d] = x /\ \A e \in 1 .. Len(w.devices) : e # d => v.devices[e] = w.devices[e]
  BY <1>1, <1>5, <1>6, DeviceSetFields
<1>9. \A e \in 1 .. Len(w.devices) : Range(w.devices[e].probes) \subseteq Range(v.devices[e].probes)
  BY <1>4, <1>6, <1>8
<1>10. Follows(v, {})
  <2>1. ASSUME w.tracked # 0
        PROVE w.checks[w.tracked].device \in 1 .. Len(w.devices)
    BY <1>1, <2>1 DEF Base
  <2> QED BY <1>8, <1>9, <2>1 DEF DInv, DInvBut, Follows
<1>11. Goods(v) /\ Stray(v)
  BY <1>8 DEF DInv, DInvBut, Goods, Stray
<1> QED BY <1>7, <1>8, <1>10, <1>11 DEF DInv, DInvBut, v

(* A new device is listed.                                                    *)
LEMMA NewDeviceKeeps ==
  ASSUME NEW w, DInv(w), w.listed = 0
  PROVE  LET d == Len(w.devices) + 1
             v == [w EXCEPT !.devices = Append(@, NewDevice), !.listed = d] IN
         DInv(v) /\ v.listed = d /\ Len(v.devices) = d /\ d # 0
<1> DEFINE d == Len(w.devices) + 1
           s == Append(w.devices, NewDevice)
           v == [w EXCEPT !.devices = Append(@, NewDevice), !.listed = d]
<1>1. w \in Daemons /\ w.devices \in Seq(Devices) /\ Len(w.devices) \in Nat /\ Base(w)
      /\ w.tracked \in 0 .. Len(w.checks) /\ Len(w.modems) \in Nat /\ Len(w.checks) \in Nat
  BY DaemonFields DEF DInv, DInvBut, Base
<1>2. NewDevice \in Devices /\ NewDevice.modem = 0
  BY DEF NewDevice, Devices
<1>3. v = [w EXCEPT !.devices = s, !.listed = d]
  OBVIOUS
<1> HIDE DEF v
<1>4. /\ s \in Seq(Devices) /\ Len(s) = d /\ s[d] = NewDevice
      /\ \A e \in 1 .. Len(w.devices) : s[e] = w.devices[e]
  BY <1>1, <1>2
<1>5. /\ d \in Nat /\ d # 0 /\ d \notin 1 .. Len(w.devices)
      /\ \A e \in 1 .. d : e = d \/ e \in 1 .. Len(w.devices)
      /\ \A e \in 1 .. Len(w.devices) : e \in 1 .. d
  BY <1>1
<1> HIDE DEF s, d
<1>6. /\ v \in Daemons /\ v.listed = d /\ v.checks = w.checks /\ v.devices = s
      /\ v.tracked = w.tracked /\ v.tasks = w.tasks
      /\ v.crashed = w.crashed /\ v.modems = w.modems
  BY <1>1, <1>3, <1>4, <1>5 DEF Daemons
<1>7. ASSUME NEW e \in 1 .. Len(v.devices) PROVE DeviceInv(v, e)
  <2>1. CASE e = d
    BY <1>1, <1>2, <1>4, <1>6, <2>1 DEF DeviceInv
  <2>2. CASE e # d
    <3>1. e \in 1 .. Len(w.devices)
      BY <1>4, <1>5, <1>6, <2>2
    <3>2. DeviceInv(w, e) /\ e # w.listed
      BY <1>1, <3>1 DEF Base
    <3> QED BY <1>4, <1>6, <3>1, <3>2 DEF DeviceInv
  <2> QED BY <2>1, <2>2
<1>8. \A t \in v.tasks : TaskInv(v, t)
  BY <1>1, <1>4, <1>5, <1>6 DEF Base, TaskInv
<1>9. /\ \A m \in 1 .. Len(v.modems) : v.modems[m].device \in 1 .. Len(v.devices)
      /\ \A k \in 1 .. Len(v.checks) : v.checks[k].device \in 1 .. Len(v.devices)
  BY <1>1, <1>4, <1>5, <1>6 DEF Base
<1>10. Base(v)
  <2>1. v.listed =< Len(v.devices)
    BY <1>4, <1>5, <1>6
  <2> QED BY <1>1, <1>6, <1>7, <1>8, <1>9, <2>1 DEF Base
<1>11. \A k \in 1 .. Len(w.checks) : w.checks[k].device \in 1 .. Len(w.devices)
  BY <1>1 DEF Base
<1>12. Stray(v)
  BY <1>5, <1>6, <1>11 DEF Stray
<1>13. Follows(v, {})
  <2>1. ASSUME w.tracked # 0
        PROVE  w.checks[w.tracked].device \in 1 .. Len(w.devices)
    <3>1. w.tracked \in 1 .. Len(w.checks)
      BY <1>1, <2>1
    <3> QED BY <1>11, <3>1
  <2> QED BY <1>4, <1>6, <2>1 DEF DInv, DInvBut, Follows
<1>14. Goods(v)
  BY <1>6 DEF DInv, DInvBut, Goods
<1> QED BY <1>4, <1>5, <1>6, <1>10, <1>12, <1>13, <1>14 DEF DInv, DInvBut, v, d

(* A port for a device that has others.                                       *)
LEMMA AdditionalKeeps ==
  ASSUME NEW w, DInv(w), w.listed # 0, NEW p \in Ports
  PROVE  DInv(additional_port(w, w.listed, p))
<1> DEFINE d == w.listed
           a == mm_device_grab_port(w, d, p)
           dev == a.devices[d]
           b == Require(a, dev.modem = 0, "modem")
           v == additional_port(w, d, p)
<1>1. DInv(a) /\ a.listed = d /\ Base(a) /\ d \in 1 .. Len(a.devices)
  <2>1. DInv(a) /\ a.listed = d
    BY GrabKeeps
  <2> HIDE DEF a
  <2>2. Base(a)
    BY <2>1 DEF DInv, DInvBut
  <2> QED BY <2>1, <2>2, DaemonFields DEF Base
<1>2. v = IF a.tracked # 0 THEN device_support_check_add_single_port(a, d, p)
          ELSE IF dev.plugin = None THEN device_support_check_add_all_ports(b, d)
          ELSE IF dev.modem = 0 THEN device_support_check_add_all_ports(a, d)
          ELSE mm_device_remove_modem(a, d, "additional")
  BY DEF additional_port
<1> HIDE DEF a, d, v
<1>3. DInv(device_support_check_add_single_port(a, d, p))
  BY <1>1, AddSingleKeeps
<1>4. DInv(device_support_check_add_all_ports(a, d))
  BY <1>1, AddAllKeeps
<1>5. DInv(device_support_check_add_all_ports(b, d))
  <2>1. "modem" \in Crashes /\ "modem" # "check" /\ (dev.modem = 0) \in BOOLEAN
    BY DEF Crashes
  <2>2. Calm(a, b) /\ b.devices = a.devices
    BY <1>1, <2>1, AbortBase
  <2> HIDE DEF b
  <2>3. DInv(b)
    BY <1>1, <2>2, CalmKeeps DEF DInv
  <2> QED BY <1>1, <2>2, <2>3, AddAllKeeps
<1>6. DInv(mm_device_remove_modem(a, d, "additional"))
  <2>1. "additional" \in Removals
    BY DEF Removals
  <2>2. Calm(a, mm_device_remove_modem(a, d, "additional"))
    BY <1>1, <2>1, RemoveModemCalm
  <2> QED BY <1>1, <2>2, CalmKeeps DEF DInv
<1>7. DInv(v)
  BY <1>2, <1>3, <1>4, <1>5, <1>6
<1> QED BY <1>7 DEF v, d

(* A port of an inhibited device is noted.                                    *)
LEMMA TrackCalm ==
  ASSUME NEW w, Base(w), NEW p \in Ports
  PROVE  Calm(w, device_inhibited_track_port(w, p))
<1> DEFINE s == Append(w.inhibition, p)
           i == w.inhibiting
<1>1. w \in Daemons /\ w.inhibition \in Seq(Ports) /\ w.inhibiting \in BOOLEAN
  BY DaemonFields DEF Base
<1>2. CASE p \in Range(w.inhibition)
  <2>1. device_inhibited_track_port(w, p) = w
    BY <1>2 DEF device_inhibited_track_port
  <2> QED BY <2>1, CalmRefl
<1>3. CASE p \notin Range(w.inhibition)
  <2>1. s \in Seq(Ports)
    BY <1>1
  <2>2. device_inhibited_track_port(w, p) = [w EXCEPT !.inhibition = s]
    BY <1>3 DEF device_inhibited_track_port
  <2> HIDE DEF s
  <2>3. device_inhibited_track_port(w, p) = [w EXCEPT !.inhibiting = i, !.inhibition = s]
    BY <1>1, <2>2 DEF Daemons
  <2> HIDE DEF i
  <2>4. i \in BOOLEAN
    BY <1>1 DEF i
  <2>5. Calm(w, [w EXCEPT !.inhibiting = i, !.inhibition = s])
    BY <2>1, <2>4, InhibitionCalm
  <2> QED BY <2>3, <2>5
<1> QED BY <1>2, <1>3

(* A port is added.                                                           *)
LEMMA AddedKeeps ==
  ASSUME NEW w, DInv(w), NEW p \in Ports
  PROVE  DInv(device_added(w, p))
<1>1. Base(w) /\ (w.listed # 0 => w.listed \in 1 .. Len(w.devices))
  BY DaemonFields DEF DInv, DInvBut, Base
<1>2. CASE w.inhibiting
  <2>1. device_added(w, p) = device_inhibited_track_port(w, p)
    BY <1>2 DEF device_added
  <2>2. Calm(w, device_inhibited_track_port(w, p))
    BY <1>1, TrackCalm
  <2> QED BY <2>1, <2>2, CalmKeeps DEF DInv
<1>3. CASE ~w.inhibiting /\ p \in Owned(w)
  <2>1. w.listed # 0
    BY <1>3 DEF Owned
  <2>2. device_added(w, p) = existing_port(w, w.listed, p)
    BY <1>3 DEF device_added
  <2>3. DInv(device_support_check_add_single_port(w, w.listed, p))
    BY <1>1, <2>1, AddSingleKeeps
  <2> QED BY <2>2, <2>3 DEF existing_port
<1>4. CASE ~w.inhibiting /\ p \notin Owned(w) /\ w.listed # 0
  <2>1. device_added(w, p) = additional_port(w, w.listed, p)
    BY <1>4 DEF device_added
  <2> QED BY <1>4, <2>1, AdditionalKeeps
<1>5. CASE ~w.inhibiting /\ p \notin Owned(w) /\ w.listed = 0
  <2> DEFINE d == Len(w.devices) + 1
             v == [w EXCEPT !.devices = Append(@, NewDevice), !.listed = d]
             a == mm_device_grab_port(v, v.listed, p)
  <2>1. DInv(v) /\ v.listed = d /\ Len(v.devices) = d /\ d # 0
    BY <1>5, NewDeviceKeeps
  <2>2. device_added(w, p) = device_support_check_add_single_port(a, d, p)
    BY <1>5, <2>1 DEF device_added, first_port
  <2> HIDE DEF v, d
  <2>3. DInv(a) /\ a.listed = d
    BY <2>1, GrabKeeps
  <2> HIDE DEF a
  <2>4. d \in 1 .. Len(a.devices)
    BY <2>1, <2>3, DaemonFields DEF DInv, DInvBut, Base
  <2>5. DInv(device_support_check_add_single_port(a, d, p))
    BY <2>3, <2>4, AddSingleKeeps
  <2> QED BY <2>2, <2>5
<1> QED BY <1>2, <1>3, <1>4, <1>5
-----------------------------------------------------------------------------
(* Inhibition, and what follows the removal of a modem.                       *)

(* All ports left on a device are removed.                                    *)
LEMMA AllRemovedKeeps ==
  ASSUME NEW w, DInv(w), NEW ports \in Seq(Ports)
  PROVE  DInv(AllRemoved(w, ports))
<1> DEFINE n == Len(ports)
<1>1. PICK x : /\ x[0] = w
               /\ \A i \in 1 .. Len(ports) : x[i] = device_removed(x[i - 1], ports[i])
               /\ AllRemoved(w, ports) = x[Len(ports)]
  <2>1. RemoveSteps(w, ports)
    BY RemoveWalk
  <2> QED BY <2>1 DEF RemoveSteps
<1>2. n \in Nat /\ \A i \in 1 .. n : ports[i] \in Ports
  OBVIOUS
<1> HIDE DEF n
<1> DEFINE P == {i \in 0 .. n : DInv(x[i])}
<1>3. 0 \in P
  BY <1>1, <1>2
<1>4. ASSUME NEW i \in 1 .. n, i - 1 \in P PROVE i \in P
  <2>1. x[i] = device_removed(x[i - 1], ports[i]) /\ DInv(x[i - 1]) /\ ports[i] \in Ports
    BY <1>1, <1>2, <1>4 DEF n
  <2>2. DInv(x[i])
    BY <2>1, RemovedKeeps
  <2> QED BY <1>2, <2>2
<1>5. P = 0 .. n
  <2>1. P \in SUBSET (0 .. n)
    OBVIOUS
  <2> HIDE DEF P
  <2> QED BY <1>2, <1>3, <1>4, <2>1, UpTo
<1>6. DInv(x[n])
  BY <1>2, <1>5
<1> QED BY <1>1, <1>6 DEF n

(* All ports that came meanwhile are added.                                   *)
LEMMA AllAddedKeeps ==
  ASSUME NEW w, DInv(w), NEW ports \in Seq(Ports)
  PROVE  DInv(AllAdded(w, ports))
<1> DEFINE n == Len(ports)
<1>1. PICK x : /\ x[0] = w
               /\ \A i \in 1 .. Len(ports) : x[i] = device_added(x[i - 1], ports[i])
               /\ AllAdded(w, ports) = x[Len(ports)]
  <2>1. AddSteps(w, ports)
    BY AddWalk
  <2> QED BY <2>1 DEF AddSteps
<1>2. n \in Nat /\ \A i \in 1 .. n : ports[i] \in Ports
  OBVIOUS
<1> HIDE DEF n
<1> DEFINE P == {i \in 0 .. n : DInv(x[i])}
<1>3. 0 \in P
  BY <1>1, <1>2
<1>4. ASSUME NEW i \in 1 .. n, i - 1 \in P PROVE i \in P
  <2>1. x[i] = device_added(x[i - 1], ports[i]) /\ DInv(x[i - 1]) /\ ports[i] \in Ports
    BY <1>1, <1>2, <1>4 DEF n
  <2>2. DInv(x[i])
    BY <2>1, AddedKeeps
  <2> QED BY <1>2, <2>2
<1>5. P = 0 .. n
  <2>1. P \in SUBSET (0 .. n)
    OBVIOUS
  <2> HIDE DEF P
  <2> QED BY <1>2, <1>3, <1>4, <2>1, UpTo
<1>6. DInv(x[n])
  BY <1>2, <1>5
<1> QED BY <1>1, <1>6 DEF n

(* The device has its modem back.                                             *)
LEMMA UninhibitCalm ==
  ASSUME NEW w, Base(w), NEW d \in 1 .. Len(w.devices)
  PROVE  Calm(w, mm_device_uninhibit(w, d))
<1> DEFINE a == Require(w, w.devices[d].inhibited, "inhibited")
           x == [a.devices[d] EXCEPT !.inhibited = FALSE]
           e == DeviceSet(a, d, x)
           b == mm_device_create_modem(e, d)
           v == mm_device_uninhibit(w, d)
<1>1. Calm(w, a) /\ a.devices = w.devices /\ Base(a)
  <2>1. "inhibited" \in Crashes /\ "inhibited" # "check" /\ w.devices[d].inhibited \in BOOLEAN
    BY DeviceFields DEF Crashes
  <2> QED BY <2>1, AbortBase DEF Calm
<1>2. v = IF Created(a, b) THEN mm_device_initialize_modem(b, d) ELSE b
  BY DEF mm_device_uninhibit, DeviceSet
<1>3. Created(a, b) = Created(e, b)
  <2>1. a.modems = e.modems
    BY DEF DeviceSet
  <2> HIDE DEF b
  <2> QED BY <2>1 DEF Created
<1> HIDE DEF a
<1>4. d \in 1 .. Len(a.devices) /\ a.devices[d] \in Devices /\ a.devices[d].modem =< Len(a.modems)
  BY <1>1, DeviceFields DEF Base, DeviceInv
<1>5. x \in Devices /\ x.modem = a.devices[d].modem /\ x.probes = a.devices[d].probes
  BY <1>4 DEF Devices
<1> HIDE DEF x
<1>6. Calm(a, e) /\ Base(e) /\ d \in 1 .. Len(e.devices)
  <2>1. d # a.listed => x.modem = 0 /\ x.probes = <<>>
    BY <1>1, <1>4, <1>5 DEF Base, DeviceInv
  <2>2. Calm(a, e)
    BY <1>1, <1>4, <1>5, <2>1, DeviceSetBase
  <2> HIDE DEF e
  <2> QED BY <1>4, <2>2 DEF Calm, Quiet
<1> HIDE DEF e, v
<1>7. Calm(e, v)
  BY <1>2, <1>3, <1>6, CreatedCalm
<1>8. Calm(w, v)
  BY <1>1, <1>6, <1>7, CalmTrans
<1> QED BY <1>8 DEF v

(* An inhibition ends, with the ports that came and went meanwhile.           *)
LEMMA InhibitionEndsKeeps ==
  ASSUME NEW w, DInv(w)
  PROVE  DInv(remove_device_inhibition(w))
<1> DEFINE d == w.listed
           ports == w.inhibition
           left == IF d = 0 THEN <<>> ELSE w.devices[d].probes
           a == [w EXCEPT !.inhibiting = FALSE, !.inhibition = <<>>]
           gone == AllRemoved(a, left)
           b == Require(gone, gone.listed = 0, "device")
           v == remove_device_inhibition(w)
<1>1. /\ Base(w) /\ ports \in Seq(Ports) /\ (d # 0 => d \in 1 .. Len(w.devices))
  BY DaemonFields DEF DInv, DInvBut, Base
<1>2. left \in Seq(Ports)
  <2>1. CASE d = 0
    <3>1. <<>> \in Seq(Ports)
      OBVIOUS
    <3> QED BY <2>1, <3>1
  <2>2. CASE d # 0
    BY <1>1, <2>2, DeviceFields
  <2> QED BY <2>1, <2>2
<1>3. v = IF ports = <<>> THEN IF d = 0 THEN a ELSE mm_device_uninhibit(a, d)
          ELSE AllAdded(b, ports \o left)
  BY DEF remove_device_inhibition
<1>4. Calm(w, a)
  <2>1. FALSE \in BOOLEAN /\ <<>> \in Seq(Ports)
    OBVIOUS
  <2> QED BY <1>1, <2>1, InhibitionCalm
<1> HIDE DEF a, left, v, ports, d
<1>5. DInv(a) /\ Base(a) /\ (d # 0 => d \in 1 .. Len(a.devices))
  BY <1>1, <1>4, CalmKeeps DEF DInv, Calm, Quiet
<1>6. CASE ports = <<>>
  <2>1. d # 0 => DInv(mm_device_uninhibit(a, d))
    BY <1>5, UninhibitCalm, CalmKeeps DEF DInv
  <2>2. DInv(v)
    BY <1>3, <1>5, <1>6, <2>1
  <2> QED BY <2>2 DEF v
<1>7. CASE ports # <<>>
  <2>1. DInv(gone) /\ Base(gone)
    <3>1. DInv(gone)
      BY <1>2, <1>5, AllRemovedKeeps
    <3> HIDE DEF gone
    <3> QED BY <3>1 DEF DInv, DInvBut
  <2> HIDE DEF gone
  <2>2. Calm(gone, b)
    <3>1. "device" \in Crashes /\ "device" # "check" /\ (gone.listed = 0) \in BOOLEAN
      BY DEF Crashes
    <3> QED BY <2>1, <3>1, AbortBase
  <2> HIDE DEF b
  <2>3. DInv(b)
    BY <2>1, <2>2, CalmKeeps DEF DInv
  <2>4. ports \o left \in Seq(Ports)
    BY <1>1, <1>2
  <2>5. DInv(AllAdded(b, ports \o left))
    BY <2>3, <2>4, AllAddedKeeps
  <2> QED BY <1>3, <1>7, <2>5 DEF v
<1> QED BY <1>6, <1>7

(* The removal of a modem is finished and its reason goes on.                 *)
LEMMA ModemGoneKeeps ==
  ASSUME NEW w, DInv(w), NEW t \in Tasks, TaskInv(w, t), t.kind \in Removals
  PROVE  DInv(Removed(w, t))
<1> DEFINE a == IF t.modem = 0 THEN w ELSE clear_modem(w, t.device)
           v == Removed(w, t)
<1>1. Base(w) /\ t.device \in 1 .. Len(w.devices)
  BY DEF DInv, DInvBut, TaskInv
<1>2. Calm(w, a)
  BY <1>1, CalmRefl, ClearCalm
<1>3. CASE t.kind = "additional"
  <2>1. v = device_support_check_add_all_ports(a, t.device)
    BY <1>3 DEF Removed
  <2> HIDE DEF a
  <2>2. DInv(a) /\ t.device \in 1 .. Len(a.devices)
    BY <1>1, <1>2, CalmKeeps DEF DInv, Calm, Quiet
  <2>3. DInv(device_support_check_add_all_ports(a, t.device))
    BY <2>2, AddAllKeeps
  <2> QED BY <2>1, <2>3
<1>4. CASE t.kind = "invalid"
  <2> DEFINE d == t.device
             x == [a.devices[d] EXCEPT !.reprobe = TRUE]
             e == DeviceSet(a, d, x)
  <2>1. v = IF t.modem # 0 /\ w.modems[t.modem].reprobe THEN e ELSE a
    BY <1>4 DEF Removed, DeviceSet
  <2> HIDE DEF a, v
  <2>2. DInv(a) /\ d \in 1 .. Len(a.devices) /\ Base(a)
    BY <1>1, <1>2, CalmKeeps DEF DInv, Calm, Quiet
  <2>3. a.devices[d] \in Devices /\ a.devices[d].modem =< Len(a.modems)
        /\ (d # a.listed => a.devices[d].modem = 0 /\ a.devices[d].probes = <<>>)
    BY <2>2, DeviceFields DEF Base, DeviceInv
  <2>4. x \in Devices /\ x.modem = a.devices[d].modem /\ x.probes = a.devices[d].probes
    BY <2>3 DEF Devices
  <2> HIDE DEF x
  <2>5. Calm(a, e)
    BY <2>2, <2>3, <2>4, DeviceSetBase
  <2> HIDE DEF e
  <2>6. DInv(e)
    BY <2>2, <2>5, CalmKeeps DEF DInv
  <2> QED BY <2>1, <2>2, <2>6 DEF v
<1>5. CASE t.kind = "inhibit"
  <2>1. v = [a EXCEPT !.inhibiting = TRUE, !.inhibition = <<>>]
    BY <1>5 DEF Removed
  <2> HIDE DEF a, v
  <2>2. DInv(a) /\ Base(a)
    BY <1>2, CalmKeeps DEF DInv, Calm
  <2>3. Calm(a, v)
    <3>1. TRUE \in BOOLEAN /\ <<>> \in Seq(Ports)
      OBVIOUS
    <3> QED BY <2>1, <2>2, <3>1, InhibitionCalm
  <2>4. DInv(v)
    BY <2>2, <2>3, CalmKeeps DEF DInv
  <2> QED BY <2>4 DEF v
<1> QED BY <1>3, <1>4, <1>5 DEF Removals
-----------------------------------------------------------------------------
(* The steps of the daemon.                                                   *)

(* A port that is asked or waits has a check with a task.                     *)
LEMMA DoingTask ==
  ASSUME NEW c, Good(c), NEW p \in Ports, c.port[p].stage \in Doing
  PROVE  c.task
<1>1. PortInv(c, p) /\ Phases(c) /\ c \in DeviceContexts
  BY DEF Good, CheckInv
<1>2. p \in Range(c.running) /\ c.running \in Seq(Ports)
  BY <1>1, CheckFields DEF PortInv, Runs
<1>3. c.running # <<>>
  BY <1>2, RangeElements
<1> QED BY <1>1, <1>3 DEF Phases

(* The daemon starts in order.                                                *)
LEMMA InitDInv ==
  Init => DInv(daemon)
<1> SUFFICES ASSUME Init PROVE DInv(daemon)
  OBVIOUS
<1>1. daemon \in Daemons
  <2>1. /\ <<>> \in Seq(Devices) /\ <<>> \in Seq(Checks) /\ <<>> \in Seq(Modems)
        /\ <<>> \in Seq(Ports)
    OBVIOUS
  <2> QED BY <2>1 DEF Init, Daemons
<1>2. /\ daemon.devices = <<>> /\ daemon.listed = 0 /\ daemon.checks = <<>>
      /\ daemon.tracked = 0 /\ daemon.modems = <<>> /\ daemon.tasks = {}
      /\ daemon.crashed = {}
  BY DEF Init
<1>3. IsFiniteSet({})
  BY FS_EmptySet
<1>4. Base(daemon)
  BY <1>1, <1>2, <1>3 DEF Base
<1> QED BY <1>2, <1>4 DEF DInv, DInvBut, Goods, Follows, Stray

(* The keys of the lists of the daemon.                                       *)
LEMMA KeysAreIndices ==
  ASSUME NEW w, DInv(w)
  PROVE  /\ DOMAIN w.checks = 1 .. Len(w.checks) /\ DOMAIN w.modems = 1 .. Len(w.modems)
         /\ DOMAIN w.devices = 1 .. Len(w.devices) /\ Base(w) /\ w.tasks \subseteq Tasks
BY DaemonFields DEF DInv, DInvBut

(* A plugin answers.                                                          *)
LEMMA AnswersKeep ==
  ASSUME DInv(daemon), NEW k \in DOMAIN daemon.checks, NEW p \in Ports, NEW answer \in Answers,
         PluginAnswers(k, p, answer)
  PROVE  DInv(daemon')
<1> DEFINE c == daemon.checks[k].check
           P == Range(daemon.devices[daemon.checks[k].device].probes)
           d == plugin_supports_port_ready(c, p, answer)
<1>1. k \in 1 .. Len(daemon.checks)
  BY KeysAreIndices
<1>2. Good(c)
  BY <1>1 DEF DInv, DInvBut, Goods
<1>3. c.port[p].stage = "checking" /\ daemon' = Checked(daemon, k, d)
  BY DEF PluginAnswers, Step
<1>4. c.task
  BY <1>2, <1>3, DoingTask DEF Doing
<1>5. /\ p \in NetPorts => answer \in {"unsupported", "until"}
      /\ answer = "until" /\ ~Mute => p \in NetPorts
      /\ answer \in {"defer", "until"} => p \in P
  <2>1. answer \in AnswersFor(k, p)
    BY DEF PluginAnswers
  <2>2. CASE p \notin P
    <3>1. answer = "unsupported"
      BY <2>1, <2>2 DEF AnswersFor
    <3> QED BY <3>1
  <2>3. CASE p \in P /\ p \in NetPorts
    <3>1. answer \in {"unsupported", "until"}
      BY <2>1, <2>3 DEF AnswersFor
    <3> QED BY <2>3, <3>1
  <2>4. CASE p \in P /\ p \notin NetPorts
    <3>1. answer = "until" => Mute
      BY <2>1, <2>4 DEF AnswersFor
    <3> QED BY <2>4, <3>1
  <2> QED BY <2>2, <2>3, <2>4
<1> HIDE DEF P
<1>6. Leads(c, d, P)
  BY <1>2, <1>3, <1>5, AnswerLeads
<1> HIDE DEF d
<1>7. P \subseteq Range(daemon.devices[daemon.checks[k].device].probes)
  BY DEF P
<1>8. DInv(Checked(daemon, k, d))
  BY <1>1, <1>4, <1>6, <1>7, CheckedKeeps
<1> QED BY <1>3, <1>8

(* Any source of a check that leads to a good check.                          *)
LEMMA SourceKeeps ==
  ASSUME DInv(daemon), NEW k \in 1 .. Len(daemon.checks), NEW d,
         daemon.checks[k].check.task, Leads(daemon.checks[k].check, d, {}),
         daemon' = Checked(daemon, k, d)
  PROVE  DInv(daemon')
<1>1. {} \subseteq Range(daemon.devices[daemon.checks[k].device].probes)
  OBVIOUS
<1>2. DInv(Checked(daemon, k, d))
  BY <1>1, CheckedKeeps
<1> QED BY <1>2

(* The sources of a port context.                                             *)
LEMMA CheckStepsKeep ==
  ASSUME DInv(daemon), NEW k \in DOMAIN daemon.checks, NEW p \in Ports,
         Deferred(k, p) \/ Rechecked(k, p) \/ Returned(k, p)
  PROVE  DInv(daemon')
<1> DEFINE c == daemon.checks[k].check
<1>1. k \in 1 .. Len(daemon.checks)
  BY KeysAreIndices
<1>2. Good(c)
  BY <1>1 DEF DInv, DInvBut, Goods
<1>3. CASE Deferred(k, p) \/ Rechecked(k, p)
  <2>1. c.port[p].stage \in {"deferred", "recheck"}
    BY <1>3 DEF Deferred, Rechecked, CheckStep
  <2>2. daemon' = Checked(daemon, k, port_context_defer_ready(c, p))
    BY <1>3 DEF Deferred, Rechecked, CheckStep, Step
  <2>3. Leads(c, port_context_defer_ready(c, p), {})
    BY <1>2, <2>1, DeferReadyLeads
  <2>4. c.task
    BY <1>2, <2>1, DoingTask DEF Doing
  <2> QED BY <1>1, <2>2, <2>3, <2>4, SourceKeeps
<1>4. CASE Returned(k, p)
  <2>1. c.port[p].stage = "returning"
    BY <1>4 DEF Returned, CheckStep
  <2>2. daemon' = Checked(daemon, k, port_context_return(c, p))
    BY <1>4 DEF Returned, CheckStep, Step
  <2>3. Leads(c, port_context_return(c, p), {})
    BY <1>2, <2>1, ReturnLeads
  <2>4. c.task
    BY <1>2, <2>1, DoingTask DEF Doing
  <2> QED BY <1>1, <2>2, <2>3, <2>4, SourceKeeps
<1> QED BY <1>3, <1>4

(* The timers of a check.                                                     *)
LEMMA TimersKeep ==
  ASSUME DInv(daemon), NEW k \in DOMAIN daemon.checks,
         MinWaitElapsed(k) \/ MinProbingElapsed(k) \/ ExtraProbingElapsed(k)
  PROVE  DInv(daemon')
<1> DEFINE c == daemon.checks[k].check
<1>1. k \in 1 .. Len(daemon.checks)
  BY KeysAreIndices
<1>2. Good(c) /\ Phases(c)
  BY <1>1 DEF DInv, DInvBut, Goods, Good, CheckInv
<1>3. CASE MinWaitElapsed(k)
  <2>1. c.minWait /\ daemon' = Checked(daemon, k, device_context_min_wait_time_elapsed(c))
    BY <1>3 DEF MinWaitElapsed, TimerStep, Step
  <2>2. c.task
    BY <1>2, <2>1 DEF Phases, Timed
  <2>3. Leads(c, device_context_min_wait_time_elapsed(c), {})
    BY <1>2, <2>1, MinWaitLeads
  <2> QED BY <1>1, <2>1, <2>2, <2>3, SourceKeeps
<1>4. CASE MinProbingElapsed(k)
  <2>1. /\ c.minProbing /\ ~c.minWait /\ Prompt(c) = {}
        /\ daemon' = Checked(daemon, k, device_context_min_probing_time_elapsed(c))
    BY <1>4 DEF MinProbingElapsed, TimerStep, Step
  <2>2. c.task
    BY <1>2, <2>1 DEF Phases, Timed
  <2>3. Leads(c, device_context_min_probing_time_elapsed(c), {})
    BY <1>2, <2>1, ProbingTimersLead
  <2> QED BY <1>1, <2>1, <2>2, <2>3, SourceKeeps
<1>5. CASE ExtraProbingElapsed(k)
  <2>1. /\ c.extraProbing /\ ~c.minWait /\ Prompt(c) = {}
        /\ daemon' = Checked(daemon, k, device_context_extra_probing_time_elapsed(c))
    BY <1>5 DEF ExtraProbingElapsed, TimerStep, Step
  <2>2. c.task
    BY <1>2, <2>1 DEF Phases, Timed
  <2>3. Leads(c, device_context_extra_probing_time_elapsed(c), {})
    BY <1>2, <2>1, ProbingTimersLead
  <2> QED BY <1>1, <2>1, <2>2, <2>3, SourceKeeps
<1> QED BY <1>3, <1>4, <1>5
-----------------------------------------------------------------------------
(* Callbacks and events.                                                      *)

(* A call is not pending any more.                                            *)
LEMMA TaskGone ==
  ASSUME NEW w, Base(w), NEW t \in w.tasks
  PROVE  LET v == [w EXCEPT !.tasks = @ \ {t}] IN
         Calm(w, v) /\ v.devices = w.devices /\ v.modems = w.modems
<1> DEFINE v == [w EXCEPT !.tasks = @ \ {t}]
<1>1. w \in Daemons /\ w.tasks \in SUBSET Tasks /\ IsFiniteSet(w.tasks)
  BY DaemonFields DEF Base
<1>2. /\ v \in Daemons /\ v.listed = w.listed /\ v.checks = w.checks
      /\ v.tracked = w.tracked /\ v.devices = w.devices /\ v.tasks = w.tasks \ {t}
      /\ v.crashed = w.crashed /\ v.modems = w.modems
  BY <1>1 DEF Daemons
<1> HIDE DEF v
<1>3. IsFiniteSet(w.tasks \ {t})
  BY <1>1, FS_Difference
<1>4. Base(v)
  BY <1>2, <1>3 DEF Base, DeviceInv, TaskInv
<1>5. Quiet(w, v)
  BY <1>2 DEF Quiet
<1> QED BY <1>2, <1>4, <1>5 DEF Calm, v

(* The callbacks of the pending calls.                                        *)
LEMMA TasksKeep ==
  ASSUME DInv(daemon), NEW t \in daemon.tasks, NEW ok \in BOOLEAN, TaskReady(t, ok)
  PROVE  DInv(daemon')
<1> DEFINE w == [daemon EXCEPT !.tasks = @ \ {t}]
<1>1. Base(daemon) /\ t \in Tasks
  BY KeysAreIndices
<1>2. TaskInv(daemon, t)
  BY <1>1 DEF Base
<1>3. Calm(daemon, w) /\ w.devices = daemon.devices /\ w.modems = daemon.modems
  BY <1>1, TaskGone
<1>4. daemon' = CASE t.kind = "setup"      -> mm_device_initialize_modem(w, t.device)
                  [] t.kind = "initialize" ->
                       IF ok THEN mm_base_modem_set_valid(w, t.modem, TRUE) ELSE w
                  [] t.kind = "sim"        -> mm_base_modem_set_valid(w, t.modem, FALSE)
                  [] t.kind = "disable"    -> IF ok /\ ~w.modems[t.modem].cancelled
                                                THEN mm_device_remove_modem(w, t.device, "inhibit")
                                                ELSE w
                  [] OTHER                 -> Removed(w, t)
  BY Zenon DEF TaskReady, Step
<1> HIDE DEF w
<1>5. DInv(w) /\ Base(w) /\ TaskInv(w, t)
  BY <1>2, <1>3, CalmKeeps DEF DInv, Calm, TaskInv
<1>6. t.device \in 1 .. Len(w.devices)
  BY <1>5 DEF TaskInv
<1>7. t.kind \in {"initialize", "sim", "disable"} => t.modem \in 1 .. Len(w.modems)
  <2>1. t.modem \in Nat /\ Len(w.modems) \in Nat
    BY <1>1, <1>5, DaemonFields DEF Tasks
  <2> QED BY <1>5, <2>1 DEF TaskInv
<1>8. CASE t.kind = "setup"
  <2>1. daemon' = mm_device_initialize_modem(w, t.device)
    BY <1>4, <1>8
  <2>2. Calm(w, mm_device_initialize_modem(w, t.device))
    BY <1>5, <1>6, InitializeCalm
  <2> QED BY <1>5, <2>1, <2>2, CalmKeeps DEF DInv
<1>9. CASE t.kind = "initialize"
  <2>1. daemon' = IF ok THEN mm_base_modem_set_valid(w, t.modem, TRUE) ELSE w
    BY <1>4, <1>9
  <2>2. Calm(w, mm_base_modem_set_valid(w, t.modem, TRUE))
    BY <1>5, <1>7, <1>9, SetValidCalm
  <2>3. DInv(mm_base_modem_set_valid(w, t.modem, TRUE))
    BY <1>5, <2>2, CalmKeeps DEF DInv
  <2> QED BY <1>5, <2>1, <2>3
<1>10. CASE t.kind = "sim"
  <2>1. daemon' = mm_base_modem_set_valid(w, t.modem, FALSE)
    BY <1>4, <1>10
  <2>2. Calm(w, mm_base_modem_set_valid(w, t.modem, FALSE))
    BY <1>5, <1>7, <1>10, SetValidCalm
  <2> QED BY <1>5, <2>1, <2>2, CalmKeeps DEF DInv
<1>11. CASE t.kind = "disable"
  <2>1. daemon' = IF ok /\ ~w.modems[t.modem].cancelled
                    THEN mm_device_remove_modem(w, t.device, "inhibit") ELSE w
    BY <1>4, <1>11
  <2>2. Calm(w, mm_device_remove_modem(w, t.device, "inhibit"))
    <3>1. "inhibit" \in Removals
      BY DEF Removals
    <3> QED BY <1>5, <1>6, <3>1, RemoveModemCalm
  <2>3. DInv(mm_device_remove_modem(w, t.device, "inhibit"))
    BY <1>5, <2>2, CalmKeeps DEF DInv
  <2> QED BY <1>5, <2>1, <2>3
<1>12. CASE t.kind \notin {"setup", "initialize", "sim", "disable"}
  <2>1. daemon' = Removed(w, t)
    BY <1>4, <1>12
  <2>2. t.kind \in Removals
    BY <1>1, <1>12 DEF Tasks, Kinds, Removals
  <2>3. DInv(Removed(w, t))
    BY <1>1, <1>5, <2>2, ModemGoneKeeps
  <2> QED BY <2>1, <2>3
<1> QED BY <1>8, <1>9, <1>10, <1>11, <1>12

(* What a modem does by itself.                                               *)
LEMMA ModemStepsKeep ==
  ASSUME DInv(daemon), NEW m \in DOMAIN daemon.modems, NEW reprobe \in BOOLEAN,
         ModemInvalidated(m) \/ SimEvent(m) \/ PortLost(m, reprobe)
  PROVE  DInv(daemon')
<1>1. Base(daemon) /\ m \in 1 .. Len(daemon.modems)
  BY KeysAreIndices
<1>2. /\ daemon.modems[m] \in Modems /\ daemon.modems[m].device \in 1 .. Len(daemon.devices)
      /\ daemon.modems[m].reprobe \in BOOLEAN
  BY <1>1, ModemFields
<1>3. CASE ModemInvalidated(m)
  <2> DEFINE y == [daemon.modems[m] EXCEPT !.idle = FALSE]
             w == ModemSet(daemon, m, y)
  <2>1. daemon' = mm_base_modem_set_valid(w, m, FALSE)
    BY <1>3 DEF ModemInvalidated, Step, ModemSet
  <2>2. y \in Modems /\ y.device = daemon.modems[m].device
    BY <1>2 DEF Modems
  <2> HIDE DEF y
  <2>3. Calm(daemon, w) /\ Base(w) /\ m \in 1 .. Len(w.modems)
    BY <1>1, <2>2, ModemSetBase DEF Calm
  <2> HIDE DEF w
  <2>4. Calm(w, mm_base_modem_set_valid(w, m, FALSE))
    BY <2>3, SetValidCalm
  <2>5. Calm(daemon, daemon')
    BY <2>1, <2>3, <2>4, CalmTrans
  <2> QED BY <2>5, CalmKeeps DEF DInv
<1>4. CASE PortLost(m, reprobe)
  <2> DEFINE y == [daemon.modems[m] EXCEPT !.reprobe = daemon.modems[m].reprobe \/ reprobe,
                                           !.cancelled = TRUE,
                                           !.idle = daemon.modems[m].idle \/ ~daemon.modems[m].cancelled]
  <2>1. daemon' = ModemSet(daemon, m, y)
    BY <1>4 DEF PortLost, Step, ModemSet
  <2>2. y \in Modems /\ y.device = daemon.modems[m].device
    BY <1>2 DEF Modems
  <2> HIDE DEF y
  <2>3. Calm(daemon, daemon')
    BY <1>1, <2>1, <2>2, ModemSetBase
  <2> QED BY <2>3, CalmKeeps DEF DInv
<1>5. CASE SimEvent(m)
  <2> DEFINE d == daemon.modems[m].device
             y == [daemon.modems[m] EXCEPT !.reprobe = TRUE]
             w == ModemSet(daemon, m, y)
  <2>1. daemon' = Call(w, "sim", d, m)
    BY <1>5 DEF SimEvent, Step, ModemSet
  <2>2. y \in Modems /\ y.device = daemon.modems[m].device
    BY <1>2 DEF Modems
  <2> HIDE DEF y
  <2>3. Calm(daemon, w) /\ Base(w) /\ Len(w.modems) = Len(daemon.modems)
        /\ w.devices = daemon.devices
    BY <1>1, <2>2, ModemSetBase DEF Calm
  <2> HIDE DEF w
  <2>4. "sim" \in Kinds /\ m \in 0 .. Len(w.modems) /\ m # 0 /\ d \in 1 .. Len(w.devices)
    <3>1. Len(w.modems) \in Nat
      BY <2>3, DaemonFields
    <3> QED BY <1>1, <1>2, <2>3, <3>1 DEF Kinds
  <2> HIDE DEF d
  <2>5. Calm(w, Call(w, "sim", d, m))
    BY <2>3, <2>4, CallBase
  <2>6. Calm(daemon, daemon')
    BY <2>1, <2>3, <2>5, CalmTrans
  <2> QED BY <2>6, CalmKeeps DEF DInv
<1> QED BY <1>3, <1>4, <1>5

(* What a device and the client of the inhibition do.                         *)
LEMMA DeviceStepsKeep ==
  ASSUME DInv(daemon), (\E d \in DOMAIN daemon.devices : Reprobe(d)) \/ Inhibit
  PROVE  DInv(daemon')
<1>1. Base(daemon)
  BY KeysAreIndices
<1>2. CASE \E d \in DOMAIN daemon.devices : Reprobe(d)
  <2>1. PICK d \in 1 .. Len(daemon.devices) : Reprobe(d)
    BY <1>2, KeysAreIndices
  <2> DEFINE x == [daemon.devices[d] EXCEPT !.reprobe = FALSE]
             w == DeviceSet(daemon, d, x)
             a == mm_device_create_modem(w, d)
  <2>2. daemon' = IF Created(w, a) THEN mm_device_initialize_modem(a, d) ELSE a
    BY <2>1 DEF Reprobe, Step, DeviceSet
  <2>3. daemon.devices[d] \in Devices /\ DeviceInv(daemon, d)
    BY <1>1, DeviceFields DEF Base
  <2>4. x \in Devices /\ x.probes = daemon.devices[d].probes /\ x.modem = daemon.devices[d].modem
    BY <2>3 DEF Devices
  <2> HIDE DEF x
  <2>5. Calm(daemon, w)
    BY <1>1, <2>3, <2>4, DeviceSetBase DEF DeviceInv
  <2> HIDE DEF w
  <2>6. Base(w) /\ d \in 1 .. Len(w.devices)
    BY <2>5 DEF Calm, Quiet
  <2>7. Calm(w, daemon')
    BY <2>2, <2>6, CreatedCalm
  <2>8. Calm(daemon, daemon')
    BY <2>5, <2>7, CalmTrans
  <2> QED BY <2>8, CalmKeeps DEF DInv
<1>3. CASE Inhibit
  <2> DEFINE d == daemon.listed
             m == daemon.devices[d].modem
             x == [daemon.devices[d] EXCEPT !.inhibited = TRUE]
             w == DeviceSet(daemon, d, x)
  <2>1. daemon' = Call(w, "disable", d, m) /\ d # 0 /\ m # 0
    BY <1>3 DEF Inhibit, Step, DeviceSet
  <2>2. d \in 1 .. Len(daemon.devices)
    BY <1>1, <2>1, DaemonFields DEF Base
  <2>3. daemon.devices[d] \in Devices /\ DeviceInv(daemon, d) /\ m \in 0 .. Len(daemon.modems)
    BY <1>1, <2>2, DeviceFields DEF Base
  <2>4. x \in Devices /\ x.probes = daemon.devices[d].probes /\ x.modem = m
    BY <2>3 DEF Devices
  <2> HIDE DEF x, d, m
  <2>5. Calm(daemon, w) /\ w.modems = daemon.modems
    <3>1. x.modem =< Len(daemon.modems)
      BY <2>3, <2>4, DaemonFields, <1>1
    <3>2. d # daemon.listed => x.modem = 0 /\ x.probes = <<>>
      BY DEF d
    <3> QED BY <1>1, <2>2, <2>4, <3>1, <3>2, DeviceSetBase, DeviceSetFields
  <2> HIDE DEF w
  <2>6. Base(w) /\ d \in 1 .. Len(w.devices) /\ m \in 0 .. Len(w.modems) /\ "disable" \in Kinds
    BY <2>2, <2>3, <2>5 DEF Calm, Quiet, Kinds
  <2>7. Calm(w, Call(w, "disable", d, m))
    BY <2>1, <2>6, CallBase
  <2>8. Calm(daemon, daemon')
    BY <2>1, <2>5, <2>7, CalmTrans
  <2> QED BY <2>8, CalmKeeps DEF DInv
<1> QED BY <1>2, <1>3
-----------------------------------------------------------------------------
(* The invariant of the daemon, and what follows from it.                     *)

(* Every step of the daemon.                                                  *)
LEMMA NextKeeps ==
  DInv(daemon) /\ [Next]_vars => DInv(daemon')
<1> SUFFICES ASSUME DInv(daemon), [Next]_vars PROVE DInv(daemon')
  OBVIOUS
<1>1. ASSUME NEW p \in Ports, PortAdded(p) PROVE DInv(daemon')
  <2>1. daemon' = device_added(daemon, p)
    BY <1>1 DEF PortAdded, Step
  <2>2. DInv(device_added(daemon, p))
    BY AddedKeeps
  <2> QED BY <2>1, <2>2
<1>2. ASSUME NEW p \in Ports, PortRemoved(p) PROVE DInv(daemon')
  <2>1. daemon' = device_removed(daemon, p)
    BY <1>2 DEF PortRemoved, Step
  <2>2. DInv(device_removed(daemon, p))
    BY RemovedKeeps
  <2> QED BY <2>1, <2>2
<1>3. ASSUME NEW k \in DOMAIN daemon.checks, CheckNext(k) PROVE DInv(daemon')
  <2>1. CASE \E p \in Ports, answer \in Answers : PluginAnswers(k, p, answer)
    BY <2>1, AnswersKeep
  <2>2. CASE \E p \in Ports : Deferred(k, p) \/ Rechecked(k, p) \/ Returned(k, p)
    BY <2>2, CheckStepsKeep
  <2>3. CASE MinWaitElapsed(k) \/ MinProbingElapsed(k) \/ ExtraProbingElapsed(k)
    BY <2>3, TimersKeep
  <2> QED BY <1>3, <2>1, <2>2, <2>3 DEF CheckNext
<1>4. ASSUME NEW t \in daemon.tasks, NEW ok \in BOOLEAN, TaskReady(t, ok) PROVE DInv(daemon')
  BY <1>4, TasksKeep
<1>5. ASSUME NEW m \in DOMAIN daemon.modems, ModemInvalidated(m) \/ SimEvent(m)
      PROVE  DInv(daemon')
  <2>1. TRUE \in BOOLEAN
    OBVIOUS
  <2> QED BY <1>5, <2>1, ModemStepsKeep
<1>6. ASSUME NEW m \in DOMAIN daemon.modems, NEW reprobe \in BOOLEAN, PortLost(m, reprobe)
      PROVE  DInv(daemon')
  BY <1>6, ModemStepsKeep
<1>7. ASSUME NEW d \in DOMAIN daemon.devices, Reprobe(d) PROVE DInv(daemon')
  BY <1>7, DeviceStepsKeep
<1>8. CASE Inhibit
  BY <1>8, DeviceStepsKeep
<1>9. CASE Uninhibit
  <2>1. daemon' = remove_device_inhibition(daemon)
    BY <1>9 DEF Uninhibit, Step
  <2>2. DInv(remove_device_inhibition(daemon))
    BY InhibitionEndsKeeps
  <2> QED BY <2>1, <2>2
<1>10. CASE UNCHANGED vars
  BY <1>10 DEF vars
<1> QED BY <1>1, <1>2, <1>3, <1>4, <1>5, <1>6, <1>7, <1>8, <1>9, <1>10 DEF Next

(* A good check whose task has not returned goes on.                          *)
LEMMA GoodGoes ==
  ASSUME NEW c, Good(c), c.task, ~Mute
  PROVE  Goes(c)
<1>1. /\ CheckInv(c) /\ Phases(c) /\ Alive(c) /\ Ending(c) = {}
      /\ c \in DeviceContexts
  BY DEF Good, CheckInv
<1>2. c.running \in Seq(Ports)
  BY <1>1, CheckFields
<1>3. c.waiting # <<>> => c.minWait
  BY <1>1 DEF Phases
<1>4. CASE Timed(c)
  BY <1>3, <1>4 DEF Timed, Goes
<1>5. CASE ~Timed(c)
  <2>1. ~OnlyWaiters(c, None)
    BY <1>1, <1>5 DEF Alive
  <2>2. PICK p \in Range(c.running) : c.port[p].stage # "until"
    BY <2>1 DEF OnlyWaiters
  <2>3. p \in Ports /\ PortInv(c, p)
    BY <1>1, <1>2, RangeElements DEF CheckInv
  <2>4. c.port[p].stage \in {"checking", "deferred", "recheck", "returning"}
    <3>1. c.port[p].stage \in Doing \cup {"done"}
      BY <2>2, <2>3 DEF PortInv, Runs
    <3>2. c.port[p].stage # "done"
      BY <1>1, <2>3 DEF Ending
    <3> QED BY <2>2, <3>1, <3>2 DEF Doing
  <2> QED BY <1>3, <2>4 DEF Goes
<1> QED BY <1>4, <1>5

(* Every check, every device and every pending call of the daemon are in      *)
(* order, whatever the ports, the plugins and the client do: the inductive     *)
(* invariant the three properties below follow from.                          *)
THEOREM SpecDInv == Spec => []DInv(daemon)
<1>1. DInv(daemon) /\ [Next]_vars => DInv(daemon)'
  BY NextKeeps
<1> QED BY <1>1, InitDInv, PTL DEF Spec

(* Every g_assert of the plugin manager holds, whatever completes inside      *)
(* what: the completion of a check finds its task, and a port its list.       *)
THEOREM SpecCheckAssertsHold == Spec => []CheckAssertsHold
<1>1. DInv(daemon) => CheckAssertsHold
  BY DEF DInv, DInvBut, Base, CheckAssertsHold
<1> QED BY <1>1, SpecDInv, PTL

(* A device object that left the table of the base manager has no modem,      *)
(* whichever callback that holds it runs later.                               *)
THEOREM SpecGoneIsBare == Spec => []GoneIsBare
<1>1. DInv(daemon) => GoneIsBare
  BY KeysAreIndices DEF Base, DeviceInv, GoneIsBare
<1> QED BY <1>1, SpecDInv, PTL

(* No support check is left with nothing that could still complete it, if no  *)
(* control port waits for a suggestion: only net ports do.                    *)
THEOREM SpecCheckGoesOn == ASSUME ~Mute PROVE Spec => []CheckGoesOn
<1>1. DInv(daemon) => CheckGoesOn
  <2> SUFFICES ASSUME DInv(daemon), NEW k \in DOMAIN daemon.checks, daemon.checks[k].check.task
               PROVE  Goes(daemon.checks[k].check)
    BY DEF CheckGoesOn
  <2>1. Good(daemon.checks[k].check)
    BY KeysAreIndices DEF DInv, DInvBut, Goods
  <2> QED BY <2>1, GoodGoes
<1> QED BY <1>1, SpecDInv, PTL
=============================================================================
