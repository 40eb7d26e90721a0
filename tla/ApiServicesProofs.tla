-------------------------- MODULE ApiServicesProofs --------------------------
(***************************************************************************)
(* Proofs about the services behind the API.  They share no state, so that *)
(* each has an invariant of its own, which a step of another cannot touch. *)
(***************************************************************************)
EXTENDS ApiServices, FiniteSetTheorems, SequenceTheorems, WellFoundedInduction, TLAPS

\* A step is one service's, and leaves what the others keep alone.
LEMMA StepsAreOfOne ==
    ASSUME [Next]_vars
    PROVE  /\ [MediaNext]_mediaVars /\ [RealtimeNext]_realtimeVars /\ [PackageNext]_packageVars
           /\ [SearchNext]_searchVars /\ [NoticesNext]_noticeVars
           /\ [AccountsNext \/ CatalogNext]_apiVars /\ UNCHANGED serving
  <1>1. CASE UNCHANGED vars
    BY <1>1 DEF vars
  <1>2. CASE Next
    BY <1>2 DEF Next, ServeAccounts, ServeCatalog, ServePackage, ServeSearch, ServeMedia,
                ServeRealtime, ServeNotices
  <1> QED
    BY <1>1, <1>2

-----------------------------------------------------------------------------
(* What filter picks.  A set of numbers that holds 0 and, with each number, the next holds
   all: this is how what a function computes step by step is followed. *)

\* Every set of numbers has a least one.
LEMMA SmallestIn ==
    ASSUME NEW T, T \subseteq Nat, T # {} PROVE \E x \in T : \A y \in T : x <= y
  <1> DEFINE R == OpToRel(<, Nat)
  <1>1. IsWellFoundedOn(R, Nat)
    BY NatLessThanWellFounded
  <1>2. \A x, y \in Nat : x < y => <<x, y>> \in R
    BY DEF OpToRel
  <1> HIDE DEF R
  <1>3. PICK x \in T : \A y \in T : ~ (<<y, x>> \in R)
    BY <1>1, WFMin
  <1>4. \A y \in T : ~ (y < x)
    BY <1>2, <1>3
  <1>5. \A y \in T : y \in Nat /\ x \in Nat
    OBVIOUS
  <1> QED
    BY <1>4, <1>5

\* What holds of 0 and passes to the next number holds of all that are counted.
LEMMA SetInduction ==
    ASSUME NEW n \in Nat, NEW T, 0 \in T, \A i \in 0..(n - 1) : i \in T => i + 1 \in T
    PROVE  0..n \subseteq T
  <1> DEFINE U == {i \in 0..n : i \notin T}
  <1>1. SUFFICES ASSUME U # {} PROVE FALSE
    OBVIOUS
  <1>2. U \subseteq Nat
    OBVIOUS
  <1>3. PICK x \in U : \A y \in U : x <= y
    <2> HIDE DEF U
    <2> QED
      BY <1>1, <1>2, SmallestIn
  <1>4. x # 0 /\ x \in 0..n
    OBVIOUS
  <1>5. x - 1 \in 0..(n - 1) /\ ~(x <= x - 1) /\ x = (x - 1) + 1
    BY <1>4
  <1>6. x - 1 \in T
    BY <1>3, <1>5
  <1>7. x \in T
    BY <1>5, <1>6
  <1> QED
    BY <1>7

\* The function that Picked computes by
Picks(list, positions, n, f) ==
    f = [i \in 0..n |->
            IF i = 0 THEN <<>>
            ELSE IF i \in positions THEN Append(f[i - 1], list[i]) ELSE f[i - 1]]

LEMMA PicksExists ==
    ASSUME NEW list, NEW positions, NEW n \in Nat
    PROVE  \E f : Picks(list, positions, n, f)
  <1> DEFINE T == {k \in 0..n : \E f : Picks(list, positions, k, f)}
  <1>1. 0 \in T
    <2> DEFINE f == [i \in 0..0 |-> <<>>]
    <2>1. Picks(list, positions, 0, f)
      BY DEF Picks
    <2> HIDE DEF f
    <2> QED
      BY <2>1
  <1>2. ASSUME NEW k \in 0..(n - 1), k \in T PROVE k + 1 \in T
    <2>1. PICK f : Picks(list, positions, k, f)
      BY <1>2
    <2> DEFINE last == IF k + 1 \in positions THEN Append(f[k], list[k + 1]) ELSE f[k]
               g == [i \in 0..(k + 1) |-> IF i = k + 1 THEN last ELSE f[i]]
    <2>2. \A i \in 0..k : g[i] = f[i] /\ f[i] = (IF i = 0 THEN <<>>
                 ELSE IF i \in positions THEN Append(f[i - 1], list[i]) ELSE f[i - 1])
      <3>1. \A i \in 0..k : g[i] = f[i]
        OBVIOUS
      <3> HIDE DEF g
      <3> QED
        BY <2>1, <3>1 DEF Picks
    <2>3. g[k + 1] = (IF k + 1 \in positions THEN Append(g[k], list[k + 1]) ELSE g[k])
      OBVIOUS
    <2>4. g = [i \in 0..(k + 1) |-> g[i]]
      OBVIOUS
    <2> HIDE DEF g, last
    <2>5. \A i \in 0..(k + 1) : g[i] = (IF i = 0 THEN <<>>
                 ELSE IF i \in positions THEN Append(g[i - 1], list[i]) ELSE g[i - 1])
      <3>1. SUFFICES ASSUME NEW i \in 0..(k + 1)
                     PROVE g[i] = (IF i = 0 THEN <<>>
                 ELSE IF i \in positions THEN Append(g[i - 1], list[i]) ELSE g[i - 1])
        OBVIOUS
      <3>2. CASE i = k + 1
        <4>1. i # 0 /\ i - 1 = k
          BY <3>2
        <4> QED
          BY <2>3, <3>2, <4>1
      <3>3. CASE i \in 1..k
        <4>1. i - 1 \in 0..k /\ i \in 0..k
          BY <3>3
        <4> QED
          BY <2>2, <3>3, <4>1
      <3>4. CASE i = 0
        BY <2>2, <3>4
      <3> QED
        BY <3>2, <3>3, <3>4
    <2>6. Picks(list, positions, k + 1, g)
      BY <2>4, <2>5 DEF Picks
    <2> QED
      BY <2>6
  <1>3. 0..n \subseteq T
    <2> HIDE DEF T
    <2> QED
      BY <1>1, <1>2, SetInduction
  <1> QED
    BY <1>3

LEMMA PickedIs ==
    ASSUME NEW S, NEW list \in Seq(S), NEW positions
    PROVE  \E f : Picks(list, positions, Len(list), f) /\ Picked(list, positions) = f[Len(list)]
  <1> DEFINE f == CHOOSE f : Picks(list, positions, Len(list), f)
  <1>1. Picked(list, positions) = f[Len(list)]
    BY DEF Picked, Picks
  <1>2. \E g : Picks(list, positions, Len(list), g)
    <2>1. Len(list) \in Nat
      OBVIOUS
    <2> QED
      BY <2>1, PicksExists
  <1>3. Picks(list, positions, Len(list), f)
    BY <1>2
  <1> HIDE DEF f
  <1> QED
    BY <1>1, <1>3

\* What it is step by step
Steps(list, positions, n, f) ==
    /\ f[0] = <<>>
    /\ \A k \in 0..(n - 1) :
           f[k + 1] = IF k + 1 \in positions THEN Append(f[k], list[k + 1]) ELSE f[k]

LEMMA PicksSteps ==
    ASSUME NEW list, NEW positions, NEW n \in Nat, NEW f, Picks(list, positions, n, f)
    PROVE  Steps(list, positions, n, f)
  <1>1. \A i \in 0..n : f[i] = (IF i = 0 THEN <<>>
                 ELSE IF i \in positions THEN Append(f[i - 1], list[i]) ELSE f[i - 1])
    BY DEF Picks
  <1>0. 0 \in 0..n
    OBVIOUS
  <1>2. f[0] = <<>>
    BY <1>0, <1>1, Zenon
  <1>3. ASSUME NEW k \in 0..(n - 1)
        PROVE  f[k + 1] = IF k + 1 \in positions THEN Append(f[k], list[k + 1]) ELSE f[k]
    <2>1. k + 1 \in 0..n /\ k + 1 # 0 /\ (k + 1) - 1 = k
      OBVIOUS
    <2> QED
      BY <1>1, <2>1
  <1> QED
    BY <1>2, <1>3 DEF Steps


\* None of the elements at the positions is missing.
KeepsAll(list, positions, some) ==
    \A i \in DOMAIN list : i \in positions => \E j \in DOMAIN some : some[j] = list[i]

\* What is picked are the elements at the positions, each as often as there.
LEMMA PickedElements ==
    ASSUME NEW S, NEW list \in Seq(S), NEW positions
    PROVE  /\ Picked(list, positions) \in Seq(S)
           /\ \A j \in DOMAIN Picked(list, positions) :
                  \E i \in DOMAIN list : i \in positions /\ list[i] = Picked(list, positions)[j]
           /\ KeepsAll(list, positions, Picked(list, positions))
           /\ IsInjective(list) => IsInjective(Picked(list, positions))
           /\ Len(Picked(list, positions)) <= Len(list)
  <1> DEFINE n == Len(list)
  <1>1. n \in Nat /\ DOMAIN list = 1..n
    OBVIOUS
  <1>2. PICK f : Picks(list, positions, n, f) /\ Picked(list, positions) = f[n]
    BY PickedIs
  <1> HIDE DEF n
  <1>3. /\ f[0] = <<>>
        /\ \A k \in 0..(n - 1) :
               f[k + 1] = IF k + 1 \in positions THEN Append(f[k], list[k + 1]) ELSE f[k]
    <2>1. Steps(list, positions, n, f)
      BY <1>1, <1>2, PicksSteps
    <2> QED
      BY <2>1 DEF Steps
  <1> DEFINE From(k) == \A j \in DOMAIN f[k] : \E i \in 1..k : i \in positions /\ list[i] = f[k][j]
             All(k) == \A i \in 1..k : i \in positions => \E j \in DOMAIN f[k] : f[k][j] = list[i]
             T == {k \in 0..n : f[k] \in Seq(S) /\ From(k) /\ All(k) /\ (IsInjective(list) => IsInjective(f[k]))
                               /\ Len(f[k]) <= k}
  <1>4. 0 \in T
    <2>1. <<>> \in Seq(S) /\ IsInjective(<<>>) /\ DOMAIN <<>> = {}
      BY DEF IsInjective
    <2>2. From(0) /\ All(0)
      BY <1>3, <2>1
    <2>3. f[0] \in Seq(S) /\ IsInjective(f[0]) /\ 0 \in 0..n /\ Len(f[0]) <= 0
      BY <1>1, <1>3, <2>1
    <2> HIDE DEF From, All
    <2> QED
      BY <2>2, <2>3
  <1>5. ASSUME NEW k \in 0..(n - 1), k \in T PROVE k + 1 \in T
    <2>1. /\ f[k] \in Seq(S) /\ From(k) /\ All(k) /\ (IsInjective(list) => IsInjective(f[k]))
          /\ k + 1 \in 0..n /\ k + 1 \in 1..n /\ list[k + 1] \in S /\ Len(f[k]) <= k
          /\ Len(f[k]) \in Nat /\ k \in Nat
      BY <1>1, <1>5
    <2>2. CASE k + 1 \notin positions
      <3>1. f[k + 1] = f[k]
        BY <1>3, <2>2
      <3>2. From(k + 1) /\ All(k + 1)
        BY <1>1, <2>1, <2>2, <3>1
      <3> QED
        BY <2>1, <3>1, <3>2
    <2>3. CASE k + 1 \in positions
      <3> DEFINE m == Len(f[k])
      <3>1. f[k + 1] = Append(f[k], list[k + 1])
        BY <1>3, <2>3
      <3>2. /\ m \in Nat /\ f[k + 1] \in Seq(S) /\ DOMAIN f[k + 1] = 1..(m + 1)
            /\ f[k + 1][m + 1] = list[k + 1] /\ \A j \in 1..m : f[k + 1][j] = f[k][j]
            /\ DOMAIN f[k] = 1..m /\ Len(f[k + 1]) <= k + 1
        BY <2>1, <3>1
      <3> HIDE DEF m
      <3>3. From(k + 1)
        <4>1. SUFFICES ASSUME NEW j \in 1..(m + 1)
                       PROVE  \E i \in 1..(k + 1) : i \in positions /\ list[i] = f[k + 1][j]
          BY <3>2
        <4>2. CASE j = m + 1
          BY <2>3, <3>2, <4>2
        <4>3. CASE j \in 1..m
          <5>1. PICK i \in 1..k : i \in positions /\ list[i] = f[k][j]
            BY <2>1, <3>2, <4>3
          <5> QED
            BY <3>2, <4>3, <5>1
        <4> QED
          BY <3>2, <4>2, <4>3
      <3>4. All(k + 1)
        <4>1. SUFFICES ASSUME NEW i \in 1..(k + 1), i \in positions
                       PROVE  \E j \in 1..(m + 1) : f[k + 1][j] = list[i]
          BY <3>2
        <4>2. CASE i = k + 1
          <5>1. m + 1 \in 1..(m + 1)
            BY <3>2
          <5> QED
            BY <3>2, <4>2, <5>1
        <4>3. CASE i \in 1..k
          <5>1. PICK j \in 1..m : f[k][j] = list[i]
            BY <2>1, <3>2, <4>1, <4>3
          <5> QED
            BY <3>2, <5>1
        <4> QED
          BY <4>2, <4>3
      <3>5. ASSUME IsInjective(list) PROVE IsInjective(f[k + 1])
        <4>1. \A j \in 1..m : f[k][j] # list[k + 1]
          <5> SUFFICES ASSUME NEW j \in 1..m, f[k][j] = list[k + 1] PROVE FALSE
            OBVIOUS
          <5>1. PICK i \in 1..k : i \in positions /\ list[i] = f[k][j]
            BY <2>1, <3>2
          <5> QED
            <6>1. i \in 1..n /\ i # k + 1
              BY <1>1
            <6>2. list[i] = list[k + 1]
              BY <5>1
            <6> QED
              BY <1>1, <2>1, <3>5, <6>1, <6>2 DEF IsInjective
        <4>2. IsInjective(f[k])
          BY <2>1, <3>5
        <4> QED
          BY <3>2, <4>1, <4>2 DEF IsInjective
      <3> HIDE DEF From, All
      <3> QED
        BY <2>1, <3>2, <3>3, <3>4, <3>5
    <2> QED
      BY <2>2, <2>3
  <1>6. n \in T
    <2> HIDE DEF T
    <2> QED
      BY <1>1, <1>4, <1>5, SetInduction
  <1> QED
    BY <1>1, <1>2, <1>6 DEF KeepsAll

\* What is appended elsewhere is not picked,
LEMMA PickedOfFirst ==
    ASSUME NEW S, NEW s \in Seq(S), NEW t \in Seq(S), NEW positions \in SUBSET DOMAIN s
    PROVE  Picked(s \o t, positions) = Picked(s, positions)
  <1> DEFINE m == Len(s)
             n == Len(t)
  <1>0. m \in Nat /\ n \in Nat /\ m + n \in Nat
    OBVIOUS
  <1>1. /\ s \o t \in Seq(S) /\ Len(s \o t) = m + n
        /\ \A i \in 1..m : (s \o t)[i] = s[i]
        /\ DOMAIN s = 1..m
    OBVIOUS
  <1>2. PICK f : Picks(s \o t, positions, m + n, f) /\ Picked(s \o t, positions) = f[m + n]
    BY <1>1, PickedIs
  <1>3. PICK g : Picks(s, positions, m, g) /\ Picked(s, positions) = g[m]
    BY <1>1, PickedIs
  <1>4. /\ f[0] = <<>>
        /\ \A k \in 0..(m + n - 1) :
               f[k + 1] = IF k + 1 \in positions THEN Append(f[k], (s \o t)[k + 1]) ELSE f[k]
    <2>1. Steps(s \o t, positions, m + n, f)
      BY <1>0, <1>2, PicksSteps
    <2> QED
      BY <2>1 DEF Steps
  <1>5. /\ g[0] = <<>>
        /\ \A k \in 0..(m - 1) :
               g[k + 1] = IF k + 1 \in positions THEN Append(g[k], s[k + 1]) ELSE g[k]
    <2>1. Steps(s, positions, m, g)
      BY <1>0, <1>3, PicksSteps
    <2> QED
      BY <2>1 DEF Steps
  <1> HIDE DEF m, n
  <1>6. f[m] = g[m]
    <2> DEFINE T == {k \in 0..m : f[k] = g[k]}
    <2>1. 0 \in T
      BY <1>0, <1>4, <1>5
    <2>2. ASSUME NEW k \in 0..(m - 1), k \in T PROVE k + 1 \in T
      <3>1. /\ k \in 0..(m + n - 1) /\ k + 1 \in 0..m /\ k + 1 \in 1..m
        BY <1>0
      <3>2. (s \o t)[k + 1] = s[k + 1] /\ f[k] = g[k]
        BY <1>1, <2>2, <3>1
      <3> QED
        BY <1>4, <1>5, <3>1, <3>2
    <2>3. m \in T
      <3> HIDE DEF T
      <3>1. 0..m \subseteq T
        BY <1>0, <2>1, <2>2, SetInduction
      <3> QED
        BY <1>0, <3>1
    <2> QED
      BY <2>3
  <1>7. f[m + n] = f[m]
    <2> DEFINE T == {k \in 0..n : f[m + k] = f[m]}
    <2>1. 0 \in T
      BY <1>0
    <2>2. ASSUME NEW k \in 0..(n - 1), k \in T PROVE k + 1 \in T
      <3>1. m + k \in 0..(m + n - 1) /\ m + k + 1 \notin positions /\ m + (k + 1) = m + k + 1
        BY <1>0, <1>1
      <3> QED
        BY <1>0, <1>4, <2>2, <3>1
    <2>3. n \in T
      <3> HIDE DEF T
      <3>1. 0..n \subseteq T
        BY <1>0, <2>1, <2>2, SetInduction
      <3> QED
        BY <1>0, <3>1
    <2> QED
      BY <2>3
  <1> QED
    BY <1>2, <1>3, <1>6, <1>7

\* and what is appended where all is picked is picked as it is.
LEMMA PickedOfLast ==
    ASSUME NEW S, NEW s \in Seq(S), NEW t \in Seq(S)
    PROVE  Picked(s \o t, (Len(s) + 1)..(Len(s) + Len(t))) = t
  <1> DEFINE m == Len(s)
             n == Len(t)
             positions == (m + 1)..(m + n)
  <1>0. m \in Nat /\ n \in Nat /\ m + n \in Nat
    OBVIOUS
  <1>1. /\ s \o t \in Seq(S) /\ Len(s \o t) = m + n
        /\ \A i \in 1..n : (s \o t)[m + i] = t[i] /\ t[i] \in S
    OBVIOUS
  <1>2. PICK f : Picks(s \o t, positions, m + n, f) /\ Picked(s \o t, positions) = f[m + n]
    BY <1>1, PickedIs
  <1>3. /\ f[0] = <<>>
        /\ \A k \in 0..(m + n - 1) :
               f[k + 1] = IF k + 1 \in positions THEN Append(f[k], (s \o t)[k + 1]) ELSE f[k]
    <2>1. Steps(s \o t, positions, m + n, f)
      BY <1>0, <1>2, PicksSteps
    <2> QED
      BY <2>1 DEF Steps
  <1> HIDE DEF m, n
  <1>4. f[m] = <<>>
    <2> DEFINE T == {k \in 0..m : f[k] = <<>>}
    <2>1. 0 \in T
      BY <1>0, <1>3
    <2>2. ASSUME NEW k \in 0..(m - 1), k \in T PROVE k + 1 \in T
      <3>1. k \in 0..(m + n - 1) /\ k + 1 \notin positions /\ k + 1 \in 0..m
        BY <1>0
      <3> QED
        BY <1>3, <2>2, <3>1
    <2>3. m \in T
      <3> HIDE DEF T
      <3>1. 0..m \subseteq T
        BY <1>0, <2>1, <2>2, SetInduction
      <3> QED
        BY <1>0, <3>1
    <2> QED
      BY <2>3
  <1>5. f[m + n] \in Seq(S) /\ Len(f[m + n]) = n /\ \A i \in 1..n : f[m + n][i] = t[i]
    <2> DEFINE T == {k \in 0..n : /\ f[m + k] \in Seq(S) /\ Len(f[m + k]) = k
                                  /\ \A i \in 1..k : f[m + k][i] = t[i]}
    <2>1. 0 \in T
      <3>1. m + 0 = m /\ <<>> \in Seq(S) /\ Len(<<>>) = 0 /\ 1..0 = {}
        BY <1>0
      <3>2. f[m + 0] = <<>> /\ 0 \in 0..n
        BY <1>0, <1>4, <3>1
      <3>3. f[m + 0] \in Seq(S) /\ Len(f[m + 0]) = 0
        BY <3>1, <3>2
      <3> QED
        BY <3>1, <3>2, <3>3
    <2>2. ASSUME NEW k \in 0..(n - 1), k \in T PROVE k + 1 \in T
      <3>1. /\ m + k \in 0..(m + n - 1) /\ m + k + 1 \in positions /\ m + (k + 1) = m + k + 1
            /\ k + 1 \in 1..n /\ k \in Nat /\ k + 1 \in 0..n
        BY <1>0
      <3>2. f[m + (k + 1)] = Append(f[m + k], t[k + 1])
        <4>1. (s \o t)[m + k + 1] = t[k + 1]
          BY <1>1, <3>1
        <4> QED
          BY <1>3, <3>1, <4>1
      <3>3. f[m + k] \in Seq(S) /\ Len(f[m + k]) = k /\ \A i \in 1..k : f[m + k][i] = t[i]
        BY <2>2
      <3> DEFINE before == f[m + k]
                 after == f[m + (k + 1)]
      <3> HIDE DEF before, after
      <3>4. before \in Seq(S) /\ Len(before) = k /\ t[k + 1] \in S /\ after = Append(before, t[k + 1])
        BY <1>1, <3>1, <3>2, <3>3 DEF before, after
      <3>5. /\ after \in Seq(S) /\ Len(after) = k + 1 /\ after[k + 1] = t[k + 1]
            /\ \A i \in 1..k : after[i] = before[i]
        BY <3>1, <3>4
      <3>6. \A i \in 1..(k + 1) : after[i] = t[i]
        BY <3>1, <3>3, <3>5 DEF before
      <3> QED
        BY <3>1, <3>5, <3>6 DEF after
    <2>3. n \in T
      <3> HIDE DEF T
      <3>1. 0..n \subseteq T
        BY <1>0, <2>1, <2>2, SetInduction
      <3> QED
        BY <1>0, <3>1
    <2> QED
      BY <2>3
  <1>6. f[m + n] = t
    BY <1>5, SeqEqual DEF n
  <1> QED
    BY <1>2, <1>6 DEF m, n

-----------------------------------------------------------------------------
(* Uploads *)

\* What a call has stored by the time it is where it is
Before(at) ==
    CASE at = "object"  -> {"thumbnail"}
      [] at = "enqueue" -> {"thumbnail", "object"}
      [] at \in {"asset", "done"} -> {"thumbnail", "object", "job"}
      [] OTHER -> {}

\* An upload has stored what comes before the step it is at, and a call that completes a
\* session holds all of its parts but the ones it missed: this is what an end that drops the
\* session relies on.
UploadInv ==
    \A u \in Uploads :
        /\ "thumbnail" \in Before(upload[u].at) => u \in thumbnails
        /\ "object" \in Before(upload[u].at) => u \in objects
        /\ "job" \in Before(upload[u].at) => u \in jobs
        /\ upload[u].at = "done" => assets[u] # None
        /\ upload[u].at \in {"new", "notFound"} => upload[u].of = None

TransferInv ==
    \A t \in Transfers :
        /\ \A u \in Uploads :
               upload[u].of = t /\ upload[u].at = "done" => transfer[t].at = "gone"
        /\ \A u \in Uploads :
               upload[u].of = t /\ upload[u].at \notin {"new", "failed", "notFound"}
                   => upload[u].parts + upload[u].missed = transfer[t].parts

MediaInv ==
    /\ MediaTypeOK /\ AssetIsWhole
    /\ UploadInv /\ TransferInv /\ DroppedIsUploaded

LEMMA MediaStarts == MediaInit => MediaInv
  BY MediaAssumption DEF MediaInit, MediaInv, MediaTypeOK, AssetIsWhole, UploadInv, TransferInv,
                         DroppedIsUploaded, Before

LEMMA MediaStep == MediaInv /\ [MediaNext]_mediaVars => MediaInv'
  <1> SUFFICES ASSUME MediaInv, [MediaNext]_mediaVars PROVE MediaInv'
    OBVIOUS
  <1> USE MediaAssumption DEF Underway, Joined
  <1>1. ASSUME NEW u \in Uploads, StartUpload(u) PROVE MediaInv'
    <2>1. MediaTypeOK'
      BY <1>1 DEF StartUpload, UploadGoes, MediaInv, MediaTypeOK
    <2>2. AssetIsWhole' /\ UploadInv'
      BY <1>1 DEF StartUpload, UploadGoes, MediaInv, MediaTypeOK, AssetIsWhole, UploadInv, Before
    <2>3. TransferInv'
      BY <1>1 DEF StartUpload, UploadGoes, MediaInv, MediaTypeOK, UploadInv, TransferInv
    <2>4. DroppedIsUploaded'
      BY <1>1 DEF StartUpload, UploadGoes, MediaInv, MediaTypeOK, UploadInv, TransferInv,
                  DroppedIsUploaded
    <2> QED
      BY <2>1, <2>2, <2>3, <2>4 DEF MediaInv
  <1>2. ASSUME NEW u \in Uploads, CompleteTransfer(u) PROVE MediaInv'
    <2>1. PICK t \in Transfers :
              \/ transfer[t].at = "open"
                 /\ upload' = [upload EXCEPT ![u] = Joined(t, transfer[t].parts)]
              \/ upload' = [upload EXCEPT ![u].at = "notFound"]
      BY <1>2 DEF CompleteTransfer, UploadGoes
    <2>2. upload[u].at = "new" /\ UNCHANGED <<transfer, objects, thumbnails, jobs, assets>>
      BY <1>2 DEF CompleteTransfer
    <2>3. MediaTypeOK'
      BY <2>1, <2>2 DEF MediaInv, MediaTypeOK, Joined, Underway
    <2>4. AssetIsWhole' /\ UploadInv'
      BY <2>1, <2>2 DEF MediaInv, MediaTypeOK, AssetIsWhole, UploadInv, Before, Joined
    <2>5. /\ \A w \in Uploads \ {u} : upload'[w] = upload[w]
          /\ \/ upload'[u].at = "thumbnail" /\ upload'[u].of = t
                /\ upload'[u].parts = transfer[t].parts /\ upload'[u].missed = 0
             \/ upload'[u].at = "notFound"
      BY <2>1, <2>2 DEF MediaInv, MediaTypeOK, Joined
    <2>6. TransferInv'
      BY <2>2, <2>5 DEF MediaInv, MediaTypeOK, TransferInv
    <2>7. DroppedIsUploaded'
      <3> SUFFICES ASSUME NEW t2 \in Transfers, transfer[t2].at = "gone"
                   PROVE  \E w \in Uploads :
                              /\ upload'[w].of = t2 /\ upload'[w].at = "done"
                              /\ upload'[w].parts + upload'[w].missed = transfer[t2].parts
                              /\ assets[w] # None
        BY <2>2 DEF DroppedIsUploaded
      <3>1. PICK w \in Uploads : /\ upload[w].of = t2 /\ upload[w].at = "done"
                                 /\ upload[w].parts + upload[w].missed = transfer[t2].parts
                                 /\ assets[w] # None
        BY DEF MediaInv, DroppedIsUploaded
      <3>2. upload'[w] = upload[w]
        BY <2>1, <2>2, <3>1 DEF MediaInv, MediaTypeOK
      <3> QED
        BY <3>1, <3>2
    <2> QED
      BY <2>3, <2>4, <2>6, <2>7 DEF MediaInv
  <1>3. ASSUME NEW u \in Uploads, StoreThumbnail(u) PROVE MediaInv'
    <2>1. MediaTypeOK'
      BY <1>3 DEF StoreThumbnail, UploadGoes, MediaInv, MediaTypeOK
    <2>2. AssetIsWhole' /\ UploadInv'
      BY <1>3 DEF StoreThumbnail, UploadGoes, MediaInv, MediaTypeOK, AssetIsWhole, UploadInv, Before
    <2>3. TransferInv'
      BY <1>3 DEF StoreThumbnail, UploadGoes, MediaInv, MediaTypeOK, UploadInv, TransferInv
    <2>4. DroppedIsUploaded'
      BY <1>3 DEF StoreThumbnail, UploadGoes, MediaInv, MediaTypeOK, UploadInv, TransferInv,
                  DroppedIsUploaded
    <2> QED
      BY <2>1, <2>2, <2>3, <2>4 DEF MediaInv
  <1>4. ASSUME NEW u \in Uploads, StoreObject(u) PROVE MediaInv'
    BY <1>4 DEF StoreObject, UploadGoes, MediaInv, MediaTypeOK, AssetIsWhole, UploadInv,
                TransferInv, DroppedIsUploaded, Before
  <1>5. ASSUME NEW u \in Uploads, Enqueue(u) PROVE MediaInv'
    BY <1>5 DEF Enqueue, UploadGoes, MediaInv, MediaTypeOK, AssetIsWhole, UploadInv,
                TransferInv, DroppedIsUploaded, Before
  <1>6. ASSUME NEW u \in Uploads, CreateAsset(u) PROVE MediaInv'
    <2>1. MediaTypeOK'
      BY <1>6 DEF CreateAsset, UploadGoes, MediaInv, MediaTypeOK
    <2>2. AssetIsWhole' /\ UploadInv'
      BY <1>6 DEF CreateAsset, UploadGoes, MediaInv, MediaTypeOK, AssetIsWhole, UploadInv, Before
    <2>3. TransferInv'
      BY <1>6 DEF CreateAsset, UploadGoes, MediaInv, MediaTypeOK, UploadInv, TransferInv
    <2>4. DroppedIsUploaded'
      <3>1. /\ upload[u].at = "asset" /\ upload'[u].of = upload[u].of /\ upload'[u].at = "done"
            /\ upload'[u].parts = upload[u].parts /\ assets'[u] # None
            /\ upload'[u].missed = upload[u].missed
            /\ \A w \in Uploads \ {u} : upload'[w] = upload[w] /\ assets'[w] = assets[w]
            /\ \A t \in Transfers :
                  /\ transfer'[t].parts = transfer[t].parts
                  /\ t # upload[u].of => transfer'[t] = transfer[t]
        BY <1>6 DEF CreateAsset, UploadGoes, MediaInv, MediaTypeOK
      <3>2. SUFFICES ASSUME NEW t \in Transfers, transfer'[t].at = "gone"
                     PROVE  \E w \in Uploads :
                                /\ upload'[w].of = t /\ upload'[w].at = "done"
                                /\ upload'[w].parts + upload'[w].missed = transfer'[t].parts
                                /\ assets'[w] # None
        BY DEF DroppedIsUploaded
      <3>3. CASE t = upload[u].of
        <4>1. upload[u].parts + upload[u].missed = transfer[t].parts
          BY <3>1, <3>3 DEF MediaInv, TransferInv
        <4> QED
          BY <3>1, <3>3, <4>1
      <3>4. CASE t # upload[u].of
        <4>1. PICK w \in Uploads : /\ upload[w].of = t /\ upload[w].at = "done"
                                   /\ upload[w].parts + upload[w].missed = transfer[t].parts
                                   /\ assets[w] # None
          BY <3>1, <3>2, <3>4 DEF MediaInv, DroppedIsUploaded
        <4>2. w # u
          BY <3>1, <4>1
        <4> QED
          BY <3>1, <4>1, <4>2
      <3> QED
        BY <3>3, <3>4
    <2> QED
      BY <2>1, <2>2, <2>3, <2>4 DEF MediaInv
  <1>7. ASSUME NEW u \in Uploads, UploadFails(u) PROVE MediaInv'
    <2>1. /\ upload[u].at \in Underway
          /\ upload' = [upload EXCEPT ![u].at = "failed"]
          /\ UNCHANGED <<transfer, objects, thumbnails, jobs, assets>>
      BY <1>7 DEF UploadFails, UploadGoes
    <2>2. MediaTypeOK'
      BY <2>1 DEF MediaInv, MediaTypeOK
    <2>3. AssetIsWhole' /\ UploadInv'
      BY <2>1 DEF MediaInv, MediaTypeOK, AssetIsWhole, UploadInv, Before
    <2>4. TransferInv'
      BY <2>1 DEF MediaInv, MediaTypeOK, TransferInv
    <2>5. DroppedIsUploaded'
      BY <2>1 DEF MediaInv, MediaTypeOK, DroppedIsUploaded
    <2> QED
      BY <2>2, <2>3, <2>4, <2>5 DEF MediaInv
  <1>8. ASSUME NEW u \in Uploads, Process(u) PROVE MediaInv'
    <2>1. MediaTypeOK'
      BY <1>8 DEF Process, UploadGoes, MediaInv, MediaTypeOK
    <2>2. AssetIsWhole' /\ UploadInv'
      BY <1>8 DEF Process, UploadGoes, MediaInv, MediaTypeOK, AssetIsWhole, UploadInv, Before
    <2>3. TransferInv'
      BY <1>8 DEF Process, UploadGoes, MediaInv, MediaTypeOK, UploadInv, TransferInv
    <2>4. DroppedIsUploaded'
      BY <1>8 DEF Process, UploadGoes, MediaInv, MediaTypeOK, UploadInv, TransferInv,
                  DroppedIsUploaded
    <2> QED
      BY <2>1, <2>2, <2>3, <2>4 DEF MediaInv
  <1>9. ASSUME NEW t \in Transfers, StartTransfer(t) PROVE MediaInv'
    BY <1>9 DEF StartTransfer, MediaInv, MediaTypeOK, AssetIsWhole, UploadInv,
                TransferInv, DroppedIsUploaded, Before
  <1>10. ASSUME NEW t \in Transfers, AppendPart(t) PROVE MediaInv'
    <2>1. /\ transfer[t].at = "open" /\ transfer[t].parts < MaxParts
          /\ transfer' = [transfer EXCEPT ![t].parts = transfer[t].parts + 1]
          /\ UNCHANGED <<objects, thumbnails, jobs, assets>>
      BY <1>10 DEF AppendPart
    <2>2. ASSUME NEW u \in Uploads
          PROVE  /\ upload'[u].at = upload[u].at /\ upload'[u].of = upload[u].of
                 /\ upload'[u].parts = upload[u].parts /\ upload'[u].missed \in Nat
                 /\ upload'[u].missed = IF upload[u].of = t /\ upload[u].at \in Underway
                                        THEN upload[u].missed + 1 ELSE upload[u].missed
                 /\ upload'[u] \in [at : Underway \cup {"new", "done", "failed", "notFound"},
                                    of : Transfers \cup {None}, parts : 0..MaxParts, missed : Nat]
      <3>1. upload[u] \in [at : Underway \cup {"new", "done", "failed", "notFound"},
                           of : Transfers \cup {None}, parts : 0..MaxParts, missed : Nat]
        BY DEF MediaInv, MediaTypeOK
      <3>2. upload'[u] = IF upload[u].of = t /\ upload[u].at \in Underway
                         THEN [upload[u] EXCEPT !.missed = upload[u].missed + 1] ELSE upload[u]
        BY <1>10 DEF AppendPart
      <3> QED
        BY <3>1, <3>2
    <2>3. MediaTypeOK'
      <3>1. transfer' \in [Transfers -> [at : {"none", "open", "gone"}, parts : 0..MaxParts]]
        BY <2>1 DEF MediaInv, MediaTypeOK
      <3>2. upload' = [u \in Uploads |-> upload'[u]]
        BY <1>10 DEF AppendPart
      <3> QED
        BY <2>1, <2>2, <3>1, <3>2 DEF MediaInv, MediaTypeOK
    <2>4. AssetIsWhole' /\ UploadInv'
      BY <2>1, <2>2 DEF MediaInv, MediaTypeOK, AssetIsWhole, UploadInv, Before
    <2>5. /\ \A t2 \in Transfers \ {t} : transfer'[t2] = transfer[t2]
          /\ transfer'[t].at = "open" /\ transfer'[t].parts = transfer[t].parts + 1
      BY <2>1 DEF MediaInv, MediaTypeOK
    <2>6. TransferInv'
      <3> SUFFICES ASSUME NEW t2 \in Transfers, NEW u \in Uploads, upload[u].of = t2
                   PROVE  /\ upload[u].at = "done" => transfer'[t2].at = "gone"
                          /\ upload[u].at \notin {"new", "failed", "notFound"} =>
                                 upload[u].parts + upload'[u].missed = transfer'[t2].parts
        BY <2>2 DEF TransferInv
      <3>1. /\ upload[u].at = "done" => transfer[t2].at = "gone"
            /\ upload[u].at \notin {"new", "failed", "notFound"} =>
                   upload[u].parts + upload[u].missed = transfer[t2].parts
            /\ upload[u].at \notin {"new", "failed", "notFound", "done"} =>
                   upload[u].at \in Underway
            /\ upload[u].parts \in Nat /\ upload[u].missed \in Nat /\ None # t2
        BY DEF MediaInv, MediaTypeOK, TransferInv
      <3>2. CASE t2 = t
        BY <2>1, <2>2, <2>5, <3>1, <3>2 DEF Underway
      <3>3. CASE t2 # t
        BY <2>2, <2>5, <3>1, <3>3
      <3> QED
        BY <3>2, <3>3
    <2>7. DroppedIsUploaded'
      <3> SUFFICES ASSUME NEW t2 \in Transfers, transfer'[t2].at = "gone"
                   PROVE  \E u \in Uploads :
                              /\ upload'[u].of = t2 /\ upload'[u].at = "done" /\ assets[u] # None
                              /\ upload'[u].parts + upload'[u].missed = transfer'[t2].parts
        BY <2>1 DEF DroppedIsUploaded
      <3>1. t2 # t
        BY <2>5
      <3>2. PICK u \in Uploads : /\ upload[u].of = t2 /\ upload[u].at = "done" /\ assets[u] # None
                                 /\ upload[u].parts + upload[u].missed = transfer[t2].parts
        BY <2>5, <3>1 DEF MediaInv, DroppedIsUploaded
      <3> QED
        BY <2>2, <2>5, <3>1, <3>2
    <2> QED
      BY <2>3, <2>4, <2>6, <2>7 DEF MediaInv
  <1>11. CASE UNCHANGED mediaVars
    BY <1>11 DEF mediaVars, MediaInv, MediaTypeOK, AssetIsWhole, UploadInv,
                TransferInv, DroppedIsUploaded
  <1> QED
    BY <1>1, <1>2, <1>3, <1>4, <1>5, <1>6, <1>7, <1>8, <1>9, <1>10, <1>11 DEF MediaNext

\* Of any uploads and sessions: what stops halfway leaves no row without its media, its
\* thumbnail and its job, and the parts that are lost with a session are the ones it accepted
\* while the upload that dropped it was on its way (MediaService.upload,
\* completeResumableUpload, appendResumableUploadPart).
THEOREM UploadsStayWhole == Spec => []UploadsAreWhole
  <1>1. Init => MediaInv
    BY MediaStarts DEF Init
  <1>2. MediaInv /\ [Next]_vars => MediaInv'
    BY MediaStep, StepsAreOfOne
  <1>3. MediaInv => UploadsAreWhole
    BY DEF MediaInv, UploadsAreWhole
  <1> QED
    BY <1>1, <1>2, <1>3, PTL DEF Spec

-----------------------------------------------------------------------------
(* Connections *)

\* The types of all but the limiter's buckets, which connections do not meet
ConnectionTypeOK ==
    /\ socket \in [Sockets -> [at : {"new", "open", "closed"}, user : Listeners \cup {None},
                               session : RSessions \cup {None}, rooms : SUBSET Rooms]]
    /\ \A s \in Sockets : socket[s].at # "new" =>
           socket[s].user \in Listeners /\ socket[s].session \in RSessions
    /\ members \in [Rooms -> SUBSET Sockets] /\ typing \in [Rooms -> SUBSET Sockets]
    /\ recovery \in [RSessions -> [user : Listeners, rooms : SUBSET Rooms] \cup {None}]

\* Only an open connection joins, types or resumes, so that nothing comes back for one
\* that is gone, and its record is what its session was given.
ConnectionInv == ConnectionTypeOK /\ GoneLeavesLittle

LEMMA ConnectionsStart == RealtimeInit => ConnectionInv
  BY DEF RealtimeInit, ConnectionInv, ConnectionTypeOK, GoneLeavesLittle

LEMMA ConnectionStep == ConnectionInv /\ [RealtimeNext]_realtimeVars => ConnectionInv'
  <1> SUFFICES ASSUME ConnectionInv, [RealtimeNext]_realtimeVars PROVE ConnectionInv'
    OBVIOUS
  <1> USE NoSessionAssumption DEF ConnectionInv, ConnectionTypeOK, GoneLeavesLittle
  <1>1. ASSUME NEW s \in Sockets, Connect(s) PROVE ConnectionInv'
    <2>1. PICK u \in Listeners, x \in RSessions :
              socket' = [socket EXCEPT ![s] = [at |-> "open", user |-> u, session |-> x, rooms |-> {}]]
      BY <1>1 DEF Connect
    <2>2. socket[s].at = "new" /\ UNCHANGED <<members, typing, recovery>>
      BY <1>1 DEF Connect
    <2>3. ConnectionTypeOK'
      BY <2>1, <2>2
    <2>4. \A q \in Sockets : /\ socket[q].at = "closed" => socket'[q] = socket[q]
                             /\ socket'[q].at = "closed" => socket'[q] = socket[q]
      BY <2>1, <2>2
    <2>5. GoneLeavesLittle'
      BY <2>2, <2>4
    <2> QED
      BY <2>3, <2>5
  <1>2. ASSUME NEW s \in Sockets, JoinRoom(s) PROVE ConnectionInv'
    <2>1. PICK r \in Rooms : /\ members' = [members EXCEPT ![r] = members[r] \cup {s}]
                             /\ socket' = [socket EXCEPT ![s].rooms = socket[s].rooms \cup {r}]
      BY <1>2 DEF JoinRoom
    <2>2. socket[s].at = "open" /\ UNCHANGED <<typing, recovery>>
      BY <1>2 DEF JoinRoom, Handles
    <2> QED
      BY <2>1, <2>2
  <1>3. ASSUME NEW s \in Sockets, LeaveRoom(s) PROVE ConnectionInv'
    <2>1. PICK r \in Rooms : /\ members' = [members EXCEPT ![r] = members[r] \ {s}]
                             /\ socket' = [socket EXCEPT ![s].rooms = socket[s].rooms \ {r}]
      BY <1>3 DEF LeaveRoom
    <2>2. socket[s].at = "open" /\ UNCHANGED <<typing, recovery>>
      BY <1>3 DEF LeaveRoom, Handles
    <2>3. ConnectionTypeOK'
      BY <2>1, <2>2
    <2>4. \A q \in Sockets, p \in Rooms :
              socket'[q].at = "closed" =>
                  q \notin members'[p] /\ (q \in typing'[p] => p \notin socket'[q].rooms)
      BY <2>1, <2>2
    <2>5. \A q \in Sockets : socket[q].at = "closed" => socket'[q] = socket[q]
      BY <2>1, <2>2
    <2> QED
      BY <2>2, <2>3, <2>4, <2>5
  <1>4. ASSUME NEW s \in Sockets, StartTyping(s) \/ StopTyping(s) PROVE ConnectionInv'
    <2>1. PICK r \in Rooms : \/ typing' = [typing EXCEPT ![r] = typing[r] \cup {s}]
                             \/ typing' = [typing EXCEPT ![r] = typing[r] \ {s}]
      BY <1>4 DEF StartTyping, StopTyping
    <2>2. socket[s].at = "open" /\ UNCHANGED <<socket, members, recovery>>
      BY <1>4 DEF StartTyping, StopTyping, Handles
    <2> QED
      BY <2>1, <2>2
  <1>5. ASSUME NEW s \in Sockets, Resume(s) PROVE ConnectionInv'
    BY <1>5 DEF Resume
  <1>6. ASSUME NEW s \in Sockets, Disconnect(s) PROVE ConnectionInv'
    <2>1. /\ socket' = [socket EXCEPT ![s].at = "closed"]
          /\ members' = [r \in Rooms |-> members[r] \ {s}]
          /\ typing' = [r \in Rooms |-> IF r \in socket[s].rooms THEN typing[r] \ {s} ELSE typing[r]]
          /\ recovery' = [recovery EXCEPT ![socket[s].session] =
                              [user |-> socket[s].user, rooms |-> socket[s].rooms]]
          /\ socket[s].at = "open" /\ socket[s].session \in RSessions
          /\ socket[s].user \in Listeners
      BY <1>6 DEF Disconnect, Gone
    <2>2. ConnectionTypeOK'
      BY <2>1
    <2>3. \A q \in Sockets, p \in Rooms :
              socket'[q].at = "closed" =>
                  q \notin members'[p] /\ (q \in typing'[p] => p \notin socket'[q].rooms)
      BY <2>1
    <2>4. \A q \in Sockets : socket[q].at = "closed" => socket'[q] = socket[q]
      BY <2>1
    <2>5. /\ socket'[s].at = "closed" /\ socket'[s].session = socket[s].session
          /\ socket'[s].rooms = socket[s].rooms
      BY <2>1
    <2>6. ASSUME NEW x \in RSessions, recovery'[x] # None
          PROVE  \E q \in Sockets : /\ socket'[q].at = "closed" /\ socket'[q].session = x
                                     /\ socket'[q].rooms = recovery'[x].rooms
      <3>1. CASE x = socket[s].session
        BY <2>1, <2>5, <3>1
      <3>2. CASE x # socket[s].session
        BY <2>1, <2>4, <2>6, <3>2
      <3> QED
        BY <3>1, <3>2
    <2> QED
      BY <2>2, <2>3, <2>6
  <1>7. CASE UNCHANGED <<socket, members, typing, recovery>>
    BY <1>7
  <1> QED
    BY <1>1, <1>2, <1>3, <1>4, <1>5, <1>6, <1>7
    DEF RealtimeNext, realtimeVars, SendPresence, Send, Limited, Tick

\* However connections join, type, resume and go: one that is gone is in no room and types
\* only where it had not joined, and what is stored under a session are the rooms that one
\* connection of it, now gone, had joined (handleDisconnect, cleanupTypingState).
THEOREM ConnectionsLeaveLittle == Spec => []GoneLeavesLittle
  <1>1. Init => ConnectionInv
    BY ConnectionsStart DEF Init
  <1>2. ConnectionInv /\ [Next]_vars => ConnectionInv'
    BY ConnectionStep, StepsAreOfOne
  <1>3. ConnectionInv => GoneLeavesLittle
    BY DEF ConnectionInv
  <1> QED
    BY <1>1, <1>2, <1>3, PTL DEF Spec

\* What the limiter and the presence add: a handler's socket is open, and so are those of
\* the rooms, whose users are known.
PresenceInv ==
    /\ fetched \in [Sockets -> [room : Rooms, users : SUBSET Listeners] \cup {None}]
    /\ presence \in [Rooms -> SUBSET Listeners]
    /\ buckets \in [Listeners -> Seq(0..MaxTick)] /\ tick \in 0..MaxTick
    /\ \A r \in Rooms : \A s \in members[r] : socket[s].at # "new"
    /\ WindowsHold

LEMMA PresenceStarts == RealtimeInit => PresenceInv
  BY TickAssumption DEF RealtimeInit, PresenceInv, WindowsHold

\* A user's bucket keeps some of its requests, and the one that is let in.
LEMMA CountedKeeps ==
    ASSUME ConnectionInv, PresenceInv, NEW s \in Sockets, socket[s].at = "open", Counted(s)
    PROVE  buckets' \in [Listeners -> Seq(0..MaxTick)] /\ WindowsHold'
  <1> DEFINE u == socket[s].user
             ticks == 0..MaxTick
             recent == Recent(u)
             kept == IF Allowed(s) THEN Append(recent, tick) ELSE recent
  <1>1. u \in Listeners /\ buckets \in [Listeners -> Seq(ticks)] /\ tick \in ticks
    BY DEF ConnectionInv, ConnectionTypeOK, PresenceInv
  <1>2. buckets' = [buckets EXCEPT ![u] = kept]
    BY DEF Counted
  <1>3. recent \in Seq(ticks) /\ Len(recent) <= Len(buckets[u])
    <2> DEFINE positions == {i \in DOMAIN buckets[u] : buckets[u][i] + Window > tick}
    <2>1. recent = Picked(buckets[u], positions)
      BY DEF Recent
    <2>2. buckets[u] \in Seq(ticks)
      BY <1>1
    <2> HIDE DEF positions, ticks, recent, u
    <2> QED
      BY <2>1, <2>2, PickedElements
  <1> HIDE DEF recent, u, ticks
  <1>4. kept \in Seq(ticks)
    BY <1>1, <1>3
  <1>6. Len(buckets[u]) <= MaxRequests /\ MaxRequests \in Nat /\ Len(buckets[u]) \in Nat
    BY <1>1, TickAssumption DEF PresenceInv, WindowsHold
  <1>7. Len(recent) \in Nat /\ (Allowed(s) => Len(recent) < MaxRequests)
    BY <1>3 DEF Allowed, recent, u
  <1>8. Len(kept) <= MaxRequests
    <2>1. CASE Allowed(s)
      <3>1. Len(kept) = Len(recent) + 1
        BY <1>3, <2>1
      <3> QED
        BY <1>6, <1>7, <2>1, <3>1
    <2>2. CASE ~Allowed(s)
      BY <1>3, <1>6, <1>7, <2>2
    <2> QED
      BY <2>1, <2>2
  <1> HIDE DEF kept
  <1>5. buckets' \in [Listeners -> Seq(ticks)]
    BY <1>1, <1>2, <1>4
  <1>9. WindowsHold'
    <2> SUFFICES ASSUME NEW v \in Listeners PROVE Len(buckets'[v]) <= MaxRequests
      BY DEF WindowsHold
    <2> QED
      BY <1>1, <1>2, <1>8 DEF PresenceInv, WindowsHold
  <1> QED
    BY <1>5, <1>9 DEF ticks

LEMMA PresenceStep ==
    ConnectionInv /\ PresenceInv /\ [RealtimeNext]_realtimeVars => PresenceInv'
  <1> SUFFICES ASSUME ConnectionInv, PresenceInv, [RealtimeNext]_realtimeVars PROVE PresenceInv'
    OBVIOUS
  <1> USE DEF PresenceInv
  <1>w. UNCHANGED buckets => WindowsHold'
    BY DEF WindowsHold
  <1>0. /\ \A s \in Sockets : socket[s].at # "new" => socket[s].user \in Listeners
        /\ members \in [Rooms -> SUBSET Sockets]
        /\ socket \in [Sockets -> [at : {"new", "open", "closed"}, user : Listeners \cup {None},
                                   session : RSessions \cup {None}, rooms : SUBSET Rooms]]
    BY DEF ConnectionInv, ConnectionTypeOK
  <1>1. ASSUME NEW s \in Sockets, Connect(s) PROVE PresenceInv'
    BY <1>w, <1>0, <1>1 DEF Connect
  <1>2. ASSUME NEW s \in Sockets, JoinRoom(s) \/ LeaveRoom(s) PROVE PresenceInv'
    <2>1. PICK r \in Rooms, present \in SUBSET Sockets :
              /\ present \subseteq members[r] \cup {s}
              /\ \E x \in SUBSET Rooms : socket' = [socket EXCEPT ![s].rooms = x]
              /\ members' = [members EXCEPT ![r] = present]
              /\ fetched' = [fetched EXCEPT ![s] = [room |-> r, users |-> UsersOf(members'[r])]]
      <3>1. CASE JoinRoom(s)
        <4>1. PICK r \in Rooms :
                  /\ members' = [members EXCEPT ![r] = members[r] \cup {s}]
                  /\ socket' = [socket EXCEPT ![s].rooms = socket[s].rooms \cup {r}]
                  /\ fetched' = [fetched EXCEPT ![s] = [room |-> r, users |-> UsersOf(members'[r])]]
          BY <3>1 DEF JoinRoom
        <4>2. members[r] \cup {s} \in SUBSET Sockets /\ socket[s].rooms \cup {r} \in SUBSET Rooms
          BY <1>0
        <4> QED
          BY <4>1, <4>2
      <3>2. CASE LeaveRoom(s)
        <4>1. PICK r \in Rooms :
                  /\ members' = [members EXCEPT ![r] = members[r] \ {s}]
                  /\ socket' = [socket EXCEPT ![s].rooms = socket[s].rooms \ {r}]
                  /\ fetched' = [fetched EXCEPT ![s] = [room |-> r, users |-> UsersOf(members'[r])]]
          BY <3>2 DEF LeaveRoom
        <4>2. members[r] \ {s} \in SUBSET Sockets /\ socket[s].rooms \ {r} \in SUBSET Rooms
          BY <1>0
        <4> QED
          BY <4>1, <4>2
      <3> QED
        BY <1>2, <3>1, <3>2
    <2>2. socket[s].at = "open" /\ Counted(s) /\ UNCHANGED <<presence, tick>>
      BY <1>2 DEF JoinRoom, LeaveRoom, Handles
    <2>3. members'[r] = present /\ \A x \in present : socket[x].at # "new"
      BY <1>0, <2>1, <2>2
    <2>4. UsersOf(members'[r]) \subseteq Listeners
      BY <1>0, <2>3 DEF UsersOf
    <2>5. fetched' \in [Sockets -> [room : Rooms, users : SUBSET Listeners] \cup {None}]
      BY <2>1, <2>4
    <2>6. \A x \in Sockets : socket'[x].at = socket[x].at
      BY <1>0, <2>1
    <2>7. \A q \in Rooms : \A x \in members'[q] : x \in Sockets /\ socket[x].at # "new"
      BY <1>0, <2>1, <2>3
    <2> QED
      BY <2>2, <2>5, <2>6, <2>7, CountedKeeps
  <1>3. ASSUME NEW s \in Sockets, SendPresence(s) PROVE PresenceInv'
    <2>1. fetched[s] \in [room : Rooms, users : SUBSET Listeners]
      BY <1>3 DEF SendPresence
    <2> QED
      BY <1>w, <1>0, <1>3, <2>1 DEF SendPresence
  <1>4. ASSUME NEW s \in Sockets, Send(s) \/ StartTyping(s) \/ StopTyping(s) \/ Limited(s)
        PROVE  PresenceInv'
    <2>1. socket[s].at = "open" /\ Counted(s) /\ UNCHANGED <<socket, members, fetched, presence, tick>>
      BY <1>4 DEF Send, StartTyping, StopTyping, Limited, Handles
    <2> QED
      BY <2>1, CountedKeeps
  <1>5. ASSUME NEW s \in Sockets, Resume(s) PROVE PresenceInv'
    BY <1>w, <1>0, <1>5 DEF Resume
  <1>6. ASSUME NEW s \in Sockets, Disconnect(s) PROVE PresenceInv'
    BY <1>w, <1>0, <1>6 DEF Disconnect, Gone
  <1>7. CASE Tick
    BY <1>w, <1>7, TickAssumption DEF Tick
  <1>8. CASE UNCHANGED realtimeVars
    BY <1>w, <1>8 DEF realtimeVars
  <1> QED
    BY <1>1, <1>2, <1>3, <1>4, <1>5, <1>6, <1>7, <1>8 DEF RealtimeNext

LEMMA RoomsAreTyped == ConnectionInv /\ PresenceInv => RealtimeTypeOK /\ WindowsHold
  BY DEF ConnectionInv, ConnectionTypeOK, PresenceInv, RealtimeTypeOK

-----------------------------------------------------------------------------
(* Searches *)

SearchStages == {"new", "terms", "meili", "postgres", "recent", "analytics",
                 "complete", "suggest", "answered", "failed"}

RealQueries == Queries \ {NoQuery}

Texts == STRING \cup Queries

SearchOf == [at : SearchStages, user : Searchers \cup {None}, query : Queries \cup {NoQuery},
             filters : Filters, terms : SUBSET (Queries \cup {NoQuery}),
             results : SUBSET Documents, suggestions : Seq(Texts)]

\* Recent queries and suggestions are each there once.
SearchTypes ==
    /\ recents \in [Searchers -> Seq(RealQueries)] /\ search \in [Searches -> SearchOf]
    /\ \A row \in analytics : row.by \in Searches /\ row.query \in RealQueries
    /\ \A u \in Searchers : IsInjective(recents[u])
    /\ \A s \in Searches :
           Len(search[s].suggestions) <= Limit /\ IsInjective(search[s].suggestions)

CountsOf(s) == {row.count : row \in {r \in analytics : r.by = s}}

\* What a search has recorded by the stage it is at
Records(s) ==
    /\ search[s].at \in {"terms", "meili", "postgres", "recent", "analytics", "complete"} =>
           search[s].query # NoQuery
    /\ search[s].at \in {"new", "terms", "meili", "postgres", "recent", "analytics"} =>
           \A row \in analytics : row.by # s
    /\ search[s].at \in {"complete", "suggest", "answered"} /\ search[s].query # NoQuery =>
           CountsOf(s) = {Cardinality(search[s].results)}
    /\ /\ search[s].at \in {"analytics", "complete", "suggest", "answered"}
       /\ search[s].query # NoQuery /\ search[s].user # None
       => Contains(recents[search[s].user], search[s].query)
    /\ search[s].at = "answered" /\ search[s].query # NoQuery /\ search[s].user # None =>
           \/ Contains(search[s].suggestions, search[s].query)
           \/ Len(search[s].suggestions) = Limit

SearchInv == SearchTypes /\ \A s \in Searches : Records(s)

LEMMA Concatenated ==
    \A S : \A s, t \in Seq(S) :
        /\ s \o t \in Seq(S) /\ Len(s \o t) = Len(s) + Len(t)
        /\ \A i \in 1..Len(s) : (s \o t)[i] = s[i]
        /\ \A j \in 1..Len(t) : (s \o t)[Len(s) + j] = t[j]
  OBVIOUS

LEMMA PickedOfInjective ==
    \A S : \A list \in Seq(S) : IsInjective(list) => \A positions :
        LET some == Picked(list, positions)
        IN  /\ some \in Seq(S) /\ IsInjective(some)
            /\ \A j \in DOMAIN some : \E i \in DOMAIN list : i \in positions /\ list[i] = some[j]
            /\ \A i \in DOMAIN list : i \in positions => \E j \in DOMAIN some : some[j] = list[i]
  <1> SUFFICES ASSUME NEW S, NEW list \in Seq(S), IsInjective(list), NEW positions
               PROVE  LET some == Picked(list, positions)
                      IN  /\ some \in Seq(S) /\ IsInjective(some)
                          /\ \A j \in DOMAIN some :
                                 \E i \in DOMAIN list : i \in positions /\ list[i] = some[j]
                          /\ \A i \in DOMAIN list : i \in positions =>
                                 \E j \in DOMAIN some : some[j] = list[i]
    OBVIOUS
  <1> DEFINE some == Picked(list, positions)
  <1>1. some \in Seq(S) /\ IsInjective(some)
    BY PickedElements
  <1>2. \A j \in DOMAIN some : \E i \in DOMAIN list : i \in positions /\ list[i] = some[j]
    BY PickedElements
  <1>3. \A i \in DOMAIN list : i \in positions => \E j \in DOMAIN some : some[j] = list[i]
    <2>1. KeepsAll(list, positions, Picked(list, positions))
      BY PickedElements
    <2> HIDE DEF some
    <2>2. KeepsAll(list, positions, some)
      BY <2>1 DEF some
    <2> QED
      BY ONLY <2>2 DEF KeepsAll
  <1> HIDE DEF some
  <1> QED
    BY <1>1, <1>2, <1>3 DEF some

\* The query that is recorded comes first, and no other is lost.
LEMMA RecordedKeeps ==
    ASSUME NEW queries \in Seq(RealQueries), IsInjective(queries), NEW query \in RealQueries
    PROVE  /\ Recorded(queries, query) \in Seq(RealQueries)
           /\ IsInjective(Recorded(queries, query)) /\ Contains(Recorded(queries, query), query)
           /\ \A q : Contains(queries, q) => Contains(Recorded(queries, query), q)
  <1> DEFINE kept == {i \in DOMAIN queries : queries[i] # query}
             others == Picked(queries, kept)
             first == <<query>>
  <1>1. Recorded(queries, query) = first \o others
    BY DEF Recorded
  <1>0. \A positions :
            LET list == Picked(queries, positions)
            IN  /\ list \in Seq(RealQueries) /\ IsInjective(list)
                /\ \A j \in DOMAIN list : \E i \in DOMAIN queries :
                       i \in positions /\ queries[i] = list[j]
                /\ \A i \in DOMAIN queries : i \in positions =>
                       \E j \in DOMAIN list : list[j] = queries[i]
    BY PickedOfInjective
  <1> HIDE DEF kept
  <1>2. /\ others \in Seq(RealQueries) /\ IsInjective(others)
        /\ \A j \in DOMAIN others : \E i \in DOMAIN queries : i \in kept /\ queries[i] = others[j]
        /\ \A i \in DOMAIN queries : i \in kept => \E j \in DOMAIN others : others[j] = queries[i]
    BY <1>0
  <1>3. \A j \in DOMAIN others : others[j] # query
    BY <1>2 DEF kept
  <1> HIDE DEF others
  <1>4. /\ Len(others) \in Nat /\ DOMAIN others = 1..Len(others)
        /\ first \in Seq(RealQueries) /\ Len(first) = 1 /\ first[1] = query
    BY <1>2
  <1> HIDE DEF first
  <1> DEFINE all == first \o others
  <1>5. /\ all \in Seq(RealQueries) /\ Len(all) = 1 + Len(others) /\ all[1] = query
        /\ \A j \in 1..Len(others) : all[1 + j] = others[j]
    <2>1. /\ all \in Seq(RealQueries) /\ Len(all) = Len(first) + Len(others)
          /\ \A i \in 1..Len(first) : all[i] = first[i]
          /\ \A j \in 1..Len(others) : all[Len(first) + j] = others[j]
      <3>1. first \in Seq(RealQueries) /\ others \in Seq(RealQueries)
        BY <1>2, <1>4
      <3> QED
        BY <3>1, Concatenated
    <2> HIDE DEF all
    <2> QED
      BY <1>4, <2>1
  <1> HIDE DEF all
  <1>6. IsInjective(all)
    <2>1. SUFFICES ASSUME NEW a \in 1..(1 + Len(others)), NEW b \in 1..(1 + Len(others)),
                          all[a] = all[b]
                   PROVE  a = b
      BY <1>5 DEF IsInjective
    <2>2. \A i \in 1..(1 + Len(others)) :
              i = 1 \/ (i - 1 \in 1..Len(others) /\ all[i] = others[i - 1])
      BY <1>4, <1>5
    <2>3. CASE a = 1 \/ b = 1
      <3>1. \A i \in 1..(1 + Len(others)) : i # 1 => all[i] # query
        BY <1>3, <1>4, <2>2
      <3> QED
        BY <1>5, <2>1, <2>3, <3>1
    <2>4. CASE a # 1 /\ b # 1
      <3>1. /\ a - 1 \in DOMAIN others /\ b - 1 \in DOMAIN others
            /\ others[a - 1] = others[b - 1]
        BY <1>4, <2>1, <2>2, <2>4
      <3>2. a - 1 = b - 1
        BY <1>2, <3>1 DEF IsInjective
      <3> QED
        BY <1>4, <3>2
    <2> QED
      BY <2>3, <2>4
  <1>7. Contains(all, query)
    BY <1>4, <1>5 DEF Contains
  <1>8. ASSUME NEW q, Contains(queries, q) PROVE Contains(all, q)
    <2>1. CASE q = query
      BY <1>7, <2>1
    <2>2. CASE q # query
      <3>1. PICK i \in DOMAIN queries : queries[i] = q
        BY <1>8 DEF Contains
      <3>2. PICK j \in 1..Len(others) : others[j] = q
        BY <1>2, <1>4, <2>2, <3>1 DEF kept
      <3>3. all[1 + j] = q /\ 1 + j \in 1..Len(all)
        BY <1>4, <1>5, <3>2
      <3> QED
        BY <3>3 DEF Contains
    <2> QED
      BY <2>1, <2>2
  <1> QED
    BY <1>1, <1>5, <1>6, <1>7, <1>8 DEF all

\* Suggestions repeat nothing, and leave out a recent query only where there is no room.
LEMMA SuggestionsKeep ==
    ASSUME NEW titles \in Seq(Texts), IsInjective(titles),
           NEW queries \in Seq(RealQueries), IsInjective(queries)
    PROVE  /\ Suggestions(titles, queries) \in Seq(Texts)
           /\ Len(Suggestions(titles, queries)) <= Limit
           /\ IsInjective(Suggestions(titles, queries))
           /\ \A q : Contains(queries, q) =>
                  \/ Contains(Suggestions(titles, queries), q)
                  \/ Len(Suggestions(titles, queries)) = Limit
  <1> DEFINE fresh == {i \in DOMAIN queries : ~Contains(titles, queries[i])}
             more == Picked(queries, fresh)
             all == titles \o more
             n == IF Len(all) < Limit THEN Len(all) ELSE Limit
             some == SubSeq(all, 1, n)
  <1>1. Suggestions(titles, queries) = some
    BY DEF Suggestions
  <1> HIDE DEF fresh
  <1>0. \A positions :
            LET list == Picked(queries, positions)
            IN  /\ list \in Seq(RealQueries) /\ IsInjective(list)
                /\ \A j \in DOMAIN list : \E i \in DOMAIN queries :
                       i \in positions /\ queries[i] = list[j]
                /\ \A i \in DOMAIN queries : i \in positions =>
                       \E j \in DOMAIN list : list[j] = queries[i]
    BY PickedOfInjective
  <1>2. /\ more \in Seq(RealQueries) /\ IsInjective(more)
        /\ \A j \in DOMAIN more : \E i \in DOMAIN queries : i \in fresh /\ queries[i] = more[j]
        /\ \A i \in DOMAIN queries : i \in fresh => \E j \in DOMAIN more : more[j] = queries[i]
    BY <1>0
  <1>3. \A j \in DOMAIN more : ~Contains(titles, more[j])
    BY <1>2 DEF fresh
  <1> HIDE DEF more
  <1> DEFINE m == Len(titles)
             k == Len(more)
  <1>4. /\ m \in Nat /\ k \in Nat /\ DOMAIN titles = 1..m /\ DOMAIN more = 1..k
        /\ more \in Seq(Texts) /\ Limit \in Nat
    <2>1. more \in Seq(Texts)
      <3>1. \A j \in 1..Len(more) : more[j] \in Texts
        BY <1>2 DEF Texts, RealQueries
      <3> QED
        BY <1>2, <3>1
    <2> QED
      BY <1>2, <2>1, SearchAssumptionHolds DEF SearchAssumption
  <1>5. /\ all \in Seq(Texts) /\ Len(all) = m + k
        /\ \A i \in 1..m : all[i] = titles[i]
        /\ \A j \in 1..k : all[m + j] = more[j]
    BY <1>4
  <1> HIDE DEF all
  <1>6. /\ n \in Nat /\ n <= Limit /\ n <= m + k /\ (n = m + k \/ n = Limit)
    BY <1>4, <1>5
  <1> HIDE DEF n
  <1>7. /\ some \in Seq(Texts) /\ Len(some) = n /\ \A i \in 1..n : some[i] = all[i]
    BY <1>4, <1>5, <1>6
  <1> HIDE DEF some, m, k
  <1>8. IsInjective(all)
    <2>1. SUFFICES ASSUME NEW a \in 1..(m + k), NEW b \in 1..(m + k), all[a] = all[b]
                   PROVE  a = b
      BY <1>5 DEF IsInjective
    <2>2. \A i \in 1..(m + k) : i \in 1..m \/ (i - m \in 1..k /\ all[i] = more[i - m])
      BY <1>4, <1>5
    <2>3. \A i \in 1..m : Contains(titles, all[i])
      BY <1>5 DEF Contains, m
    <2>4. CASE a \in 1..m /\ b \in 1..m
      BY <1>4, <1>5, <2>1, <2>4 DEF IsInjective
    <2>5. CASE a \notin 1..m /\ b \notin 1..m
      <3>1. a - m \in DOMAIN more /\ b - m \in DOMAIN more /\ more[a - m] = more[b - m]
        BY <1>4, <2>1, <2>2, <2>5
      <3>2. a - m = b - m
        BY <1>2, <3>1 DEF IsInjective
      <3> QED
        BY <1>4, <3>2
    <2>6. CASE a \in 1..m /\ b \notin 1..m
      BY <1>3, <1>4, <2>1, <2>2, <2>3, <2>6
    <2>7. CASE a \notin 1..m /\ b \in 1..m
      BY <1>3, <1>4, <2>1, <2>2, <2>3, <2>7
    <2> QED
      BY <2>4, <2>5, <2>6, <2>7
  <1>9. IsInjective(some)
    <2>1. \A i \in 1..n : i \in 1..(m + k)
      BY <1>4, <1>6
    <2> QED
      BY <1>5, <1>7, <1>8, <2>1 DEF IsInjective
  <1>10. ASSUME NEW q, Contains(queries, q), n # Limit PROVE Contains(some, q)
    <2>1. n = m + k
      BY <1>6, <1>10
    <2>2. \E i \in 1..(m + k) : all[i] = q
      <3>1. CASE Contains(titles, q)
        <4>1. PICK i \in 1..m : titles[i] = q
          BY <3>1 DEF Contains, m
        <4> QED
          BY <1>4, <1>5, <4>1
      <3>2. CASE ~Contains(titles, q)
        <4>1. PICK i \in DOMAIN queries : queries[i] = q
          BY <1>10 DEF Contains
        <4>2. PICK j \in 1..k : more[j] = q
          BY <1>2, <1>4, <3>2, <4>1 DEF fresh
        <4>3. m + j \in 1..(m + k) /\ all[m + j] = q
          BY <1>4, <1>5, <4>2
        <4> QED
          BY <4>3
      <3> QED
        BY <3>1, <3>2
    <2> QED
      BY <1>7, <2>1, <2>2 DEF Contains
  <1> QED
    BY <1>1, <1>6, <1>7, <1>9, <1>10

LEMMA TitlesDiffer ==
    ASSUME NEW query, NEW types
    PROVE  Titles(query, types) \in Seq(Texts) /\ IsInjective(Titles(query, types))
  <1> DEFINE those == {i \in DOMAIN Index : query \in Index[i].words /\ Index[i].type \in types}
             found == Picked(Index, those)
             titles == [i \in DOMAIN found |-> found[i].title]
  <1>1. Titles(query, types) = titles
    BY DEF Titles
  <1>2. /\ Index \in Seq(Document)
        /\ \A i, j \in DOMAIN Index : i # j => Index[i].title # Index[j].title
    BY SearchAssumptionHolds DEF SearchAssumption
  <1>3. IsInjective(Index)
    BY <1>2 DEF IsInjective
  <1> HIDE DEF those
  <1>4. /\ found \in Seq(Document) /\ IsInjective(found)
        /\ \A j \in DOMAIN found : \E i \in DOMAIN Index : i \in those /\ Index[i] = found[j]
    BY <1>2, <1>3, PickedOfInjective
  <1> HIDE DEF found
  <1>5. \A j \in DOMAIN found : found[j].title \in Texts
    <2>1. \A j \in DOMAIN found : found[j] \in Document
      BY <1>4
    <2>2. \A d \in Document : d.title \in STRING
      BY DEF Document
    <2> QED
      BY <2>1, <2>2 DEF Texts
  <1>6. titles \in Seq(Texts)
    <2>1. DOMAIN found = 1..Len(found) /\ Len(found) \in Nat
      BY <1>4
    <2> QED
      BY <1>5, <2>1
  <1>7. IsInjective(titles)
    <2>1. SUFFICES ASSUME NEW a \in DOMAIN found, NEW b \in DOMAIN found,
                          found[a].title = found[b].title
                   PROVE  a = b
      BY DEF IsInjective
    <2>2. PICK i \in DOMAIN Index : Index[i] = found[a]
      BY <1>4
    <2>3. PICK j \in DOMAIN Index : Index[j] = found[b]
      BY <1>4
    <2>4. i = j
      BY <1>2, <2>1, <2>2, <2>3
    <2> QED
      BY <1>4, <2>2, <2>3, <2>4 DEF IsInjective
  <1> QED
    BY <1>1, <1>6, <1>7

LEMMA SearchesStart == SearchInit => SearchInv
  <1> SUFFICES ASSUME SearchInit PROVE SearchInv
    OBVIOUS
  <1> USE SearchAssumptionHolds
  <1>1. Limit \in Nat /\ IsInjective(<<>>) /\ Len(<<>>) = 0
    BY DEF SearchAssumption, IsInjective
  <1>2. NoFilter \in Filters
    BY DEF NoFilter, Filters
  <1>3. [at |-> "new", user |-> None, query |-> NoQuery, filters |-> NoFilter,
         terms |-> {}, results |-> {}, suggestions |-> <<>>] \in SearchOf
    BY <1>2 DEF SearchOf, SearchStages
  <1>4. SearchTypes
    BY <1>1, <1>3 DEF SearchInit, SearchTypes
  <1>5. \A s \in Searches : Records(s)
    BY DEF SearchInit, Records
  <1> QED
    BY <1>4, <1>5 DEF SearchInv

\* A step of one search, which adds to what is recorded, leaves what others rely on.
LEMMA OneSearches ==
    ASSUME SearchInv, NEW s \in Searches, NEW new \in SearchOf,
           search' = [search EXCEPT ![s] = new],
           Len(new.suggestions) <= Limit, IsInjective(new.suggestions),
           recents' \in [Searchers -> Seq(RealQueries)],
           \A u \in Searchers :
               /\ IsInjective(recents'[u])
               /\ \A q : Contains(recents[u], q) => Contains(recents'[u], q),
           analytics \subseteq analytics',
           \A row \in analytics' \ analytics : row.by = s /\ row.query \in RealQueries,
           Records(s)'
    PROVE  SearchInv'
  <1>1. SearchTypes /\ search' \in [Searches -> SearchOf] /\ search'[s] = new
        /\ \A x \in Searches \ {s} : search'[x] = search[x]
    BY DEF SearchInv, SearchTypes
  <1>2. SearchTypes'
    <2>1. \A x \in Searches : Len(search'[x].suggestions) <= Limit
                              /\ IsInjective(search'[x].suggestions)
      BY <1>1 DEF SearchTypes
    <2>2. \A row \in analytics' : row.by \in Searches /\ row.query \in RealQueries
      BY <1>1 DEF SearchTypes
    <2> QED
      BY <1>1, <2>1, <2>2 DEF SearchTypes
  <1>3. ASSUME NEW x \in Searches, x # s PROVE Records(x)'
    <2>1. Records(x) /\ search'[x] = search[x] /\ search[x] \in SearchOf
      BY <1>1, <1>3 DEF SearchInv, SearchTypes
    <2>2. \A row : row.by = x => (row \in analytics <=> row \in analytics')
      BY <1>3
    <2>3. CountsOf(x)' = CountsOf(x)
      BY <2>2 DEF CountsOf
    <2>4. search[x].user # None => search[x].user \in Searchers
      BY <2>1 DEF SearchOf
    <2> QED
      BY <2>1, <2>2, <2>3, <2>4 DEF Records
  <1> QED
    BY <1>2, <1>3 DEF SearchInv

\* Of the steps that record nothing
LEMMA OneSearchesOn ==
    ASSUME SearchInv, NEW s \in Searches, NEW new \in SearchOf,
           search' = [search EXCEPT ![s] = new], UNCHANGED <<recents, analytics>>,
           Len(new.suggestions) <= Limit, IsInjective(new.suggestions), Records(s)'
    PROVE  SearchInv'
  <1>1. recents' \in [Searchers -> Seq(RealQueries)]
        /\ \A u \in Searchers : IsInjective(recents'[u]) /\ recents'[u] = recents[u]
    BY DEF SearchInv, SearchTypes
  <1> QED
    BY <1>1, OneSearches

LEMMA SearchStep == SearchInv /\ [SearchNext]_searchVars => SearchInv'
  <1> SUFFICES ASSUME SearchInv, [SearchNext]_searchVars PROVE SearchInv'
    OBVIOUS
  <1> USE SearchAssumptionHolds
  <1>0. /\ search \in [Searches -> SearchOf] /\ Limit \in Nat
        /\ \A s \in Searches :
               /\ search[s] \in SearchOf /\ Records(s)
               /\ Len(search[s].suggestions) <= Limit /\ IsInjective(search[s].suggestions)
    BY DEF SearchInv, SearchTypes, SearchAssumption
  <1>1. ASSUME NEW s \in Searches, Ask(s) PROVE SearchInv'
    <2>1. PICK user \in Searchers \cup {None}, demand \in Demands :
              search' = [search EXCEPT ![s] =
               [search[s] EXCEPT !.user = user, !.query = demand.query, !.filters = demand.filters,
                         !.at = IF demand.query = NoQuery THEN "suggest" ELSE "terms",
                         !.results = IF demand.query = NoQuery THEN Trending(demand.filters) ELSE {}]]
      BY <1>1 DEF Ask
    <2>2. search[s].at = "new" /\ UNCHANGED <<recents, analytics>>
      BY <1>1 DEF Ask
    <2> DEFINE new == [search[s] EXCEPT !.user = user, !.query = demand.query,
                         !.filters = demand.filters,
                         !.at = IF demand.query = NoQuery THEN "suggest" ELSE "terms",
                         !.results = IF demand.query = NoQuery THEN Trending(demand.filters) ELSE {}]
    <2>3. demand.query \in Queries /\ demand.filters \in Filters
      BY DEF SearchAssumption
    <2>4. Trending(demand.filters) \subseteq Documents
      BY DEF Trending
    <2>5. /\ new \in SearchOf /\ new.suggestions = search[s].suggestions
          /\ new.query = demand.query
          /\ new.at = IF demand.query = NoQuery THEN "suggest" ELSE "terms"
      BY <1>0, <2>3, <2>4 DEF SearchOf, SearchStages
    <2>6. search' = [search EXCEPT ![s] = new]
      BY <2>1
    <2> HIDE DEF new
    <2>7. search'[s] = new
      BY <1>0, <2>6
    <2>8. Records(s)'
      BY <1>0, <2>2, <2>5, <2>7 DEF Records
    <2> QED
      BY <1>0, <2>2, <2>5, <2>6, <2>8, OneSearchesOn
  <1>2. ASSUME NEW s \in Searches, Expand(s) PROVE SearchInv'
    <2> DEFINE new == [search[s] EXCEPT !.terms = Expanded(search[s].query),
                                        !.at = IF UseMeili THEN "meili" ELSE "postgres"]
    <2>1. search' = [search EXCEPT ![s] = new] /\ search[s].at = "terms"
          /\ UNCHANGED <<recents, analytics>>
      BY <1>0, <1>2 DEF Expand
    <2>2. Expanded(search[s].query) \subseteq Queries \cup {NoQuery}
      BY <1>0 DEF Expanded, SearchAssumption, SearchOf
    <2>3. /\ new \in SearchOf /\ new.suggestions = search[s].suggestions
          /\ new.query = search[s].query /\ new.at \in {"meili", "postgres"}
      BY <1>0, <2>2 DEF SearchOf, SearchStages
    <2> HIDE DEF new
    <2>4. search'[s] = new
      BY <1>0, <2>1
    <2>5. Records(s)'
      BY <1>0, <2>1, <2>3, <2>4 DEF Records
    <2> QED
      BY <1>0, <2>1, <2>3, <2>5, OneSearchesOn
  <1>3. ASSUME NEW s \in Searches, AskMeili(s) \/ AskPostgres(s) PROVE SearchInv'
    <2>1. PICK results \in SUBSET Documents, at \in {"recent", "postgres"} :
              search' = [search EXCEPT ![s] =
                            [search[s] EXCEPT !.results = results, !.at = at]]
      <3>1. MeiliResults(search[s].terms, search[s].filters) \subseteq Documents
            /\ PostgresResults(search[s].query, search[s].filters) \subseteq Documents
            /\ search[s].results \subseteq Documents
        BY <1>0 DEF MeiliResults, PostgresResults, SearchOf
      <3>2. [search[s] EXCEPT !.at = "postgres"]
                = [search[s] EXCEPT !.results = search[s].results, !.at = "postgres"]
        BY <1>0 DEF SearchOf
      <3>3. CASE search' = [search EXCEPT ![s].at = "postgres"]
        BY <1>0, <3>1, <3>2, <3>3
      <3>4. CASE search' = [search EXCEPT
                     ![s].results = MeiliResults(search[s].terms, search[s].filters),
                     ![s].at = "recent"]
        BY <1>0, <3>1, <3>4
      <3>5. CASE search' = [search EXCEPT
                     ![s].results = PostgresResults(search[s].query, search[s].filters),
                     ![s].at = "recent"]
        BY <1>0, <3>1, <3>5
      <3> QED
        BY <1>3, <3>3, <3>4, <3>5 DEF AskMeili, AskPostgres, Continues
    <2>2. search[s].at \in {"meili", "postgres"} /\ UNCHANGED <<recents, analytics>>
      BY <1>3 DEF AskMeili, AskPostgres
    <2> DEFINE new == [search[s] EXCEPT !.results = results, !.at = at]
    <2>3. /\ new \in SearchOf /\ new.suggestions = search[s].suggestions
          /\ new.query = search[s].query /\ new.at = at
      BY <1>0 DEF SearchOf, SearchStages
    <2>4. search' = [search EXCEPT ![s] = new]
      BY <2>1
    <2> HIDE DEF new
    <2>5. search'[s] = new
      BY <1>0, <2>4
    <2>6. Records(s)'
      BY <1>0, <2>2, <2>3, <2>5 DEF Records
    <2> QED
      BY <1>0, <2>2, <2>3, <2>4, <2>6, OneSearchesOn
  <1>4. ASSUME NEW s \in Searches, RecordRecent(s) PROVE SearchInv'
    <2> DEFINE user == search[s].user
               query == search[s].query
               new == [search[s] EXCEPT !.at = "analytics"]
    <2>1. /\ search' = [search EXCEPT ![s] = new] /\ search[s].at = "recent"
          /\ analytics' = analytics
          /\ recents' = IF user = None THEN recents
                        ELSE [recents EXCEPT ![user] = Recorded(recents[user], query)]
      BY <1>0, <1>4 DEF RecordRecent, Continues
    <2>2. /\ new \in SearchOf /\ new.suggestions = search[s].suggestions
          /\ new.query = query /\ new.user = user /\ new.at = "analytics"
      BY <1>0 DEF SearchOf, SearchStages
    <2>3. query \in RealQueries /\ user \in Searchers \cup {None}
      BY <1>0, <2>1 DEF SearchOf, RealQueries, Records
    <2> HIDE DEF new, user, query
    <2>4. /\ recents \in [Searchers -> Seq(RealQueries)]
          /\ \A u \in Searchers : IsInjective(recents[u])
      BY DEF SearchInv, SearchTypes
    <2>5. /\ recents' \in [Searchers -> Seq(RealQueries)]
          /\ user # None => Contains(recents'[user], query)
          /\ \A u \in Searchers :
                /\ IsInjective(recents'[u])
                /\ \A q : Contains(recents[u], q) => Contains(recents'[u], q)
      <3>1. CASE user = None
        BY <2>1, <2>4, <3>1
      <3>2. CASE user # None
        <4> DEFINE all == Recorded(recents[user], query)
        <4>1. user \in Searchers /\ recents[user] \in Seq(RealQueries) /\ IsInjective(recents[user])
          BY <2>3, <2>4, <3>2
        <4>2. /\ all \in Seq(RealQueries) /\ IsInjective(all) /\ Contains(all, query)
              /\ \A q : Contains(recents[user], q) => Contains(all, q)
          BY <2>3, <4>1, RecordedKeeps
        <4> HIDE DEF all
        <4>3. recents' = [recents EXCEPT ![user] = all]
          BY <2>1, <3>2 DEF all
        <4>4. /\ recents' \in [Searchers -> Seq(RealQueries)] /\ recents'[user] = all
              /\ \A u \in Searchers : u # user => recents'[u] = recents[u]
          BY <2>4, <4>1, <4>2, <4>3
        <4> QED
          BY <2>4, <4>2, <4>4
      <3> QED
        BY <3>1, <3>2
    <2>6. search'[s] = new
      BY <1>0, <2>1
    <2>7. Records(s)'
      BY <1>0, <2>1, <2>2, <2>5, <2>6 DEF Records, user, query
    <2> QED
      BY <1>0, <2>1, <2>2, <2>5, <2>7, OneSearches
  <1>5. ASSUME NEW s \in Searches, RecordAnalytics(s) PROVE SearchInv'
    <2> DEFINE new == [search[s] EXCEPT !.at = "complete"]
               row == [by |-> s, query |-> search[s].query, user |-> search[s].user,
                       count |-> Cardinality(search[s].results)]
    <2>1. /\ search' = [search EXCEPT ![s] = new] /\ search[s].at = "analytics"
          /\ analytics' = analytics \cup {row} /\ recents' = recents
      BY <1>0, <1>5 DEF RecordAnalytics, Continues
    <2>2. /\ new \in SearchOf /\ new.suggestions = search[s].suggestions
          /\ new.query = search[s].query /\ new.user = search[s].user /\ new.at = "complete"
          /\ new.results = search[s].results
      BY <1>0 DEF SearchOf, SearchStages
    <2>3. row.by = s /\ row.query \in RealQueries /\ row.count = Cardinality(search[s].results)
      BY <1>0, <2>1 DEF SearchOf, RealQueries, Records
    <2> HIDE DEF new, row
    <2>4. search'[s] = new
      BY <1>0, <2>1
    <2>5. CountsOf(s)' = {Cardinality(search[s].results)}
      <3>1. \A x \in analytics : x.by # s
        BY <1>0, <2>1 DEF Records
      <3>2. {r \in analytics' : r.by = s} = {row}
        BY <2>1, <2>3, <3>1
      <3> QED
        BY <2>3, <3>2 DEF CountsOf
    <2>6. Records(s)'
      BY <1>0, <2>1, <2>2, <2>4, <2>5 DEF Records
    <2>7. /\ recents' \in [Searchers -> Seq(RealQueries)]
          /\ \A u \in Searchers : IsInjective(recents'[u]) /\ recents'[u] = recents[u]
      BY <2>1 DEF SearchInv, SearchTypes
    <2> QED
      BY <1>0, <2>1, <2>2, <2>3, <2>6, <2>7, OneSearches
  <1>6. ASSUME NEW s \in Searches, Complete(s) \/ Suggest(s) PROVE SearchInv'
    <2>1. PICK titles \in Seq(Texts), at \in {"suggest", "answered"} :
              /\ IsInjective(titles)
              /\ at = "answered" => search[s].at = "suggest"
              /\ at = "suggest" => search[s].at = "complete"
              /\ search' = [search EXCEPT ![s] = [search[s] EXCEPT
                     !.suggestions = Suggestions(titles, RecentOf(search[s].user)), !.at = at]]
      <3>1. CASE Complete(s)
        <4>1. PICK types :
                  search' = [search EXCEPT ![s].suggestions =
                                        Suggestions(Titles(search[s].query, types),
                                                    RecentOf(search[s].user)),
                                    ![s].at = "suggest"]
          BY <3>1 DEF Complete
        <4>2. search[s].at = "complete"
          BY <3>1 DEF Complete
        <4>3. /\ Titles(search[s].query, types) \in Seq(Texts)
              /\ IsInjective(Titles(search[s].query, types))
          BY TitlesDiffer
        <4> QED
          BY <1>0, <4>1, <4>2, <4>3
      <3>2. CASE Suggest(s)
        <4>1. search[s].suggestions \in Seq(Texts) /\ IsInjective(search[s].suggestions)
          BY <1>0 DEF SearchOf
        <4> QED
          BY <1>0, <3>2, <4>1 DEF Suggest
      <3> QED
        BY <1>6, <3>1, <3>2
    <2>2. UNCHANGED <<recents, analytics>>
      BY <1>6 DEF Complete, Suggest
    <2> DEFINE some == Suggestions(titles, RecentOf(search[s].user))
               new == [search[s] EXCEPT !.suggestions = some, !.at = at]
    <2>3. /\ RecentOf(search[s].user) \in Seq(RealQueries) /\ IsInjective(RecentOf(search[s].user))
      BY <1>0 DEF RecentOf, SearchInv, SearchTypes, SearchOf, IsInjective
    <2>4. /\ some \in Seq(Texts) /\ Len(some) <= Limit /\ IsInjective(some)
          /\ \A q : Contains(RecentOf(search[s].user), q) =>
                 Contains(some, q) \/ Len(some) = Limit
      BY <2>1, <2>3, SuggestionsKeep
    <2> HIDE DEF some
    <2>5. /\ new \in SearchOf /\ new.suggestions = some
          /\ new.query = search[s].query /\ new.at = at /\ new.user = search[s].user
          /\ new.results = search[s].results
      BY <1>0, <2>4 DEF SearchOf, SearchStages
    <2>6. search' = [search EXCEPT ![s] = new]
      BY <2>1 DEF some
    <2> HIDE DEF new
    <2>7. search'[s] = new
      BY <1>0, <2>6
    <2>8. Records(s)'
      BY <1>0, <2>1, <2>2, <2>4, <2>5, <2>7 DEF Records, RecentOf, CountsOf
    <2> QED
      BY <1>0, <2>2, <2>4, <2>5, <2>6, <2>8, OneSearchesOn
  <1>7. ASSUME NEW s \in Searches, QueryFails(s) PROVE SearchInv'
    <2> DEFINE new == [search[s] EXCEPT !.at = "failed"]
    <2>1. search' = [search EXCEPT ![s] = new] /\ UNCHANGED <<recents, analytics>>
      BY <1>0, <1>7 DEF QueryFails, Continues
    <2>2. new \in SearchOf /\ new.suggestions = search[s].suggestions /\ new.at = "failed"
      BY <1>0 DEF SearchOf, SearchStages
    <2> HIDE DEF new
    <2>3. search'[s] = new
      BY <1>0, <2>1
    <2>4. Records(s)'
      BY <2>2, <2>3 DEF Records
    <2> QED
      BY <1>0, <2>1, <2>2, <2>4, OneSearchesOn
  <1>8. CASE UNCHANGED searchVars
    <2>1. SearchTypes'
      BY <1>8 DEF searchVars, SearchInv, SearchTypes
    <2>2. \A s \in Searches : Records(s)'
      BY <1>8 DEF searchVars, SearchInv, Records, CountsOf
    <2> QED
      BY <2>1, <2>2 DEF SearchInv
  <1> QED
    BY <1>1, <1>2, <1>3, <1>4, <1>5, <1>6, <1>7, <1>8 DEF SearchNext

LEMMA SearchesAreTyped == SearchInv => SearchTypeOK
  BY DEF SearchInv, SearchTypes, SearchOf, SearchStages, SearchTypeOK, RealQueries

LEMMA SearchesRecord == SearchInv => AnsweredIsRecorded
  BY DEF SearchInv, Records, CountsOf, AnsweredIsRecorded

\* However searches fail, race and repeat: one that was answered has been counted once, with
\* what it found, and its user has the query among the recent ones and, where there is room,
\* among the suggestions (search, recordRecentSearch, recordSearchAnalytics, getSuggestions).
THEOREM SearchesAreRecorded == Spec => []AnsweredIsRecorded
  <1>1. Init => SearchInv
    BY SearchesStart DEF Init
  <1>2. SearchInv /\ [Next]_vars => SearchInv'
    BY SearchStep, StepsAreOfOne
  <1> QED
    BY <1>1, <1>2, SearchesRecord, PTL DEF Spec

-----------------------------------------------------------------------------
(* Notifications *)

NoticeOf ==
    [at : {"new", "creating", "digesting", "gathering", "marking", "answered", "notFound", "failed"},
     user : Readers \cup {None}, demand : NoticeDemands \cup {None}, admits : SUBSET Channels,
     title : {"template", "own", "digest"}, delivered : Seq(Channels), skipped : Seq(Channels),
     upTo : Nat, about : SUBSET Notifiers, read : BOOLEAN]

NoticeRow == [by : Notifiers, user : Readers, read : BOOLEAN,
              title : {"template", "own", "digest"}, of : SUBSET Notifiers]

NoticeItem == [of : Notifiers, channel : Channels, max : Nat, dated : BOOLEAN,
               status : {"queued", "completed", "failed"}]

NoticeTypes ==
    /\ notices \subseteq NoticeRow /\ wishes \in [Readers -> SUBSET Channels]
    /\ template \in BOOLEAN /\ noticeItems \in Seq(NoticeItem)
    /\ notice \in [Notifiers -> NoticeOf]

\* c asked for a notification, and the row is there.
Created(c) == notice[c].at = "answered" /\ notice[c].demand # None

OwnItems(c) == {i \in DOMAIN noticeItems : noticeItems[i].of = c}

ItemChannels == [i \in DOMAIN noticeItems |-> noticeItems[i].channel]

\* What a call has left in the queue by the stage it is at
Queues(c) ==
    /\ Created(c) /\ notice[c].demand.waits =>
           Picked(ItemChannels, OwnItems(c)) = notice[c].delivered
    /\ ~(Created(c) /\ notice[c].demand.waits) => OwnItems(c) = {}
    /\ Created(c) /\ ~notice[c].demand.waits =>
           /\ notice[c].upTo <= Len(noticeItems)
           /\ \A i \in 1..notice[c].upTo : noticeItems[i].status # "queued"

\* What it has in its hands, and in the table
Tells(c) ==
    /\ notice[c].at = "creating" => notice[c].demand # None /\ notice[c].title # "digest"
    /\ notice[c].at \in {"marking", "gathering", "digesting"} => notice[c].demand = None
    /\ notice[c].at \in {"creating", "gathering", "digesting"} => notice[c].user \in Readers
    /\ notice[c].at = "gathering" => c \notin notice[c].about
    /\ notice[c].at = "digesting" =>
           notice[c].about \subseteq
               {m.by : m \in {m \in notices : m.user = notice[c].user}} \ {c}
    /\ Created(c) => \E n \in notices : n.by = c /\ n.user = notice[c].user
    /\ \A i \in DOMAIN notice[c].delivered, j \in DOMAIN notice[c].skipped :
           notice[c].delivered[i] # notice[c].skipped[j]

NoticeInv ==
    NoticeTypes /\ DigestsAreOwn /\ \A c \in Notifiers : Queues(c) /\ Tells(c)

LEMMA NoticesStart == NoticeInit => NoticeInv
  <1> SUFFICES ASSUME NoticeInit PROVE NoticeInv
    OBVIOUS
  <1>1. Uncalled \in NoticeOf /\ Defaults \subseteq Channels
    BY DEF Uncalled, NoticeOf, Defaults
  <1>2. NoticeTypes
    <2>1. /\ notice \in [Notifiers -> NoticeOf] /\ wishes \in [Readers -> SUBSET Channels]
          /\ noticeItems = <<>> /\ notices = {} /\ template = FALSE
      BY <1>1 DEF NoticeInit
    <2>2. <<>> \in Seq(NoticeItem)
      OBVIOUS
    <2> QED
      BY <2>1, <2>2 DEF NoticeTypes
  <1>3. DigestsAreOwn
    BY DEF NoticeInit, DigestsAreOwn
  <1>4. \A c \in Notifiers : Queues(c) /\ Tells(c)
    BY DEF NoticeInit, Uncalled, Queues, Tells, Created, OwnItems
  <1> QED
    BY <1>2, <1>3, <1>4 DEF NoticeInv

\* A pass leaves the items in their places, and none waiting.
LEMMA PassKeeps ==
    ASSUME NEW items \in Seq(NoticeItem)
    PROVE  /\ Pass(items) \in Seq(NoticeItem) /\ Len(Pass(items)) = Len(items)
           /\ \A i \in 1..Len(items) :
                  /\ Pass(items)[i].of = items[i].of
                  /\ Pass(items)[i].channel = items[i].channel
                  /\ Pass(items)[i].status # "queued"
  <1> DEFINE n == Len(items)
             Tried(item) == IF item.status # "queued" THEN item
                            ELSE [item EXCEPT !.status = IF item.max >= 1 THEN "completed"
                                                                          ELSE "failed"]
  <1>1. n \in Nat /\ DOMAIN items = 1..n /\ \A i \in 1..n : items[i] \in NoticeItem
    OBVIOUS
  <1>2. Pass(items) = [i \in 1..n |-> Tried(items[i])]
    BY <1>1 DEF Pass
  <1>3. \A item \in NoticeItem :
            /\ Tried(item) \in NoticeItem /\ Tried(item).of = item.of
            /\ Tried(item).channel = item.channel /\ Tried(item).status # "queued"
    BY DEF NoticeItem
  <1> HIDE DEF n, Tried
  <1>4. [i \in 1..n |-> Tried(items[i])] \in Seq(NoticeItem)
        /\ Len([i \in 1..n |-> Tried(items[i])]) = n
    BY <1>1, <1>3
  <1> QED
    BY <1>1, <1>2, <1>3, <1>4 DEF n

\* A step of one call that leaves the queue alone and adds at most its own row, the others'
\* but for what is read
LEMMA OneNotifies ==
    ASSUME NoticeInv, NEW c \in Notifiers, NEW new \in NoticeOf,
           notice' = [notice EXCEPT ![c] = new], notices' \subseteq NoticeRow,
           UNCHANGED <<wishes, template, noticeItems>>,
           \A n \in notices : \E m \in notices' : m.by = n.by /\ m.user = n.user,
           notice[c].at # "answered", new.at # "answered" \/ new.demand = None,
           Tells(c)', DigestsAreOwn'
    PROVE  NoticeInv'
  <1>1. /\ NoticeTypes /\ notice'[c] = new /\ notice' \in [Notifiers -> NoticeOf]
        /\ \A d \in Notifiers \ {c} : notice'[d] = notice[d]
    BY DEF NoticeInv, NoticeTypes
  <1>2. NoticeTypes'
    BY <1>1 DEF NoticeTypes
  <1>3. \A d \in Notifiers : Queues(d)'
    <2>1. ItemChannels' = ItemChannels /\ \A d \in Notifiers : OwnItems(d)' = OwnItems(d)
      BY DEF ItemChannels, OwnItems
    <2>2. ~Created(c)' /\ ~Created(c)
      BY <1>1 DEF Created
    <2>3. \A d \in Notifiers \ {c} : Created(d)' = Created(d)
      BY <1>1 DEF Created
    <2> QED
      BY <1>1, <2>1, <2>2, <2>3 DEF NoticeInv, Queues
  <1>4. ASSUME NEW d \in Notifiers, d # c PROVE Tells(d)'
    <2>1. Tells(d) /\ notice'[d] = notice[d]
      BY <1>1, <1>4 DEF NoticeInv
    <2>2. Created(d)' = Created(d)
      BY <2>1 DEF Created
    <2>3. \A u : {m.by : m \in {m \in notices : m.user = u}}
                     \subseteq {m.by : m \in {m \in notices' : m.user = u}}
      OBVIOUS
    <2> QED
      BY <2>1, <2>2, <2>3 DEF Tells
  <1> QED
    BY <1>2, <1>3, <1>4 DEF NoticeInv

LEMMA ChannelsOfItems ==
    \A items \in Seq(NoticeItem) :
        LET channels == [i \in DOMAIN items |-> items[i].channel]
        IN  /\ channels \in Seq(Channels) /\ Len(channels) = Len(items)
            /\ \A i \in 1..Len(items) : channels[i] = items[i].channel
  <1> SUFFICES ASSUME NEW items \in Seq(NoticeItem)
               PROVE  LET channels == [i \in DOMAIN items |-> items[i].channel]
                      IN  /\ channels \in Seq(Channels) /\ Len(channels) = Len(items)
                          /\ \A i \in 1..Len(items) : channels[i] = items[i].channel
    OBVIOUS
  <1>1. /\ Len(items) \in Nat /\ DOMAIN items = 1..Len(items)
        /\ \A i \in 1..Len(items) : items[i] \in NoticeItem
    OBVIOUS
  <1>2. \A i \in 1..Len(items) : items[i].channel \in Channels
    BY <1>1 DEF NoticeItem
  <1> QED
    BY <1>1, <1>2

\* create queues what it says that it delivers, after what is there or not at all.
LEMMA OneCreates ==
    ASSUME NoticeInv, NEW c \in Notifiers, NoticeCreated(c)
    PROVE  NoticeInv'
  <1> DEFINE call == notice[c]
             channels == call.demand.channels
             normal == [i \in DOMAIN channels |-> NormalChannel(channels[i])]
             wants == IF channels = <<>> THEN <<"in-app">> ELSE normal
             admitted == {i \in DOMAIN wants : Admits(call.admits, wants[i])}
             refused == DOMAIN wants \ admitted
             delivered == Picked(wants, admitted)
             skipped == Picked(wants, refused)
             queued == [i \in DOMAIN delivered |->
                           [of |-> c, channel |-> delivered[i], max |-> call.demand.max,
                            dated |-> call.demand.dated, status |-> "queued"]]
             new == [call EXCEPT !.at = "answered", !.delivered = delivered,
                                 !.skipped = skipped, !.upTo = Len(noticeItems)]
             n == Len(noticeItems)
  <1>1. /\ NoticeTypes /\ DigestsAreOwn /\ \A d \in Notifiers : Queues(d) /\ Tells(d)
        /\ noticeItems \in Seq(NoticeItem) /\ notice \in [Notifiers -> NoticeOf]
        /\ n \in Nat /\ DOMAIN noticeItems = 1..n
        /\ \A i \in 1..n : noticeItems[i] \in NoticeItem
    BY DEF NoticeInv, NoticeTypes
  <1>2. /\ call.at = "creating" /\ notices' = notices \cup {NewNotice(c)}
        /\ noticeItems' = IF call.demand.waits THEN noticeItems \o queued ELSE Pass(noticeItems)
        /\ notice' = [notice EXCEPT ![c] = new] /\ UNCHANGED <<wishes, template>>
    BY DEF NoticeCreated
  <1>3. /\ call \in NoticeOf /\ call.demand \in NoticeDemands /\ call.user \in Readers
        /\ call.title # "digest" /\ channels \in Seq(STRING) /\ call.demand.max \in Nat
        /\ call.demand.dated \in BOOLEAN
    BY <1>1, <1>2, NoticeAssumption DEF NoticeOf, Tells, Demand
  <1>4. wants \in Seq(Channels)
    <2>1. \A channel : NormalChannel(channel) \in Channels
      BY DEF NormalChannel, Channels
    <2>2. "in-app" \in Channels
      BY DEF Channels
    <2>3. normal \in Seq(Channels)
      BY <1>3, <2>1
    <2> HIDE DEF normal
    <2> QED
      BY <2>2, <2>3
  <1> HIDE DEF wants
  <1>5. /\ delivered \in Seq(Channels) /\ skipped \in Seq(Channels)
        /\ \A j \in DOMAIN delivered :
               \E i \in DOMAIN wants : i \in admitted /\ wants[i] = delivered[j]
        /\ \A j \in DOMAIN skipped :
               \E i \in DOMAIN wants : i \in refused /\ wants[i] = skipped[j]
    <2> HIDE DEF admitted, refused
    <2> QED
      BY <1>4, PickedElements
  <1>6. \A i \in DOMAIN delivered, j \in DOMAIN skipped : delivered[i] # skipped[j]
    <2>1. /\ \A i \in DOMAIN delivered : Admits(call.admits, delivered[i])
          /\ \A j \in DOMAIN skipped : ~Admits(call.admits, skipped[j])
      <3> HIDE DEF delivered, skipped
      <3> QED
        BY <1>5
    <2> QED
      BY <2>1
  <1> HIDE DEF delivered, skipped
  <1> DEFINE k == Len(delivered)
  <1>7. /\ k \in Nat /\ DOMAIN delivered = 1..k /\ queued \in Seq(NoticeItem) /\ Len(queued) = k
        /\ \A i \in 1..k : queued[i].of = c /\ queued[i].channel = delivered[i]
    <2> DEFINE Item(i) == [of |-> c, channel |-> delivered[i], max |-> call.demand.max,
                           dated |-> call.demand.dated, status |-> "queued"]
    <2>1. k \in Nat /\ DOMAIN delivered = 1..k
      BY <1>5
    <2>2. \A i \in 1..k : /\ Item(i) \in NoticeItem /\ Item(i).of = c
                           /\ Item(i).channel = delivered[i]
      BY <1>3, <1>5 DEF NoticeItem
    <2>3. queued = [i \in 1..k |-> Item(i)]
      BY <2>1
    <2> HIDE DEF Item, k, queued
    <2> QED
      BY <2>1, <2>2, <2>3
  <1>8. /\ new \in NoticeOf /\ new.at = "answered" /\ new.delivered = delivered
        /\ new.demand = call.demand /\ new.user = call.user /\ new.skipped = skipped
        /\ new.upTo = n
    BY <1>1, <1>3, <1>5 DEF NoticeOf
  <1> HIDE DEF new, k, queued
  <1>9. /\ notice'[c] = new /\ notice' \in [Notifiers -> NoticeOf]
        /\ \A d \in Notifiers \ {c} : notice'[d] = notice[d]
    BY <1>1, <1>2, <1>8
  <1>10. /\ Created(c)' /\ OwnItems(c) = {}
         /\ \A d \in Notifiers \ {c} : Created(d)' = Created(d)
    BY <1>1, <1>2, <1>3, <1>8, <1>9, NoticeAssumption DEF Created, Queues
  <1>11. /\ NewNotice(c) \in NoticeRow /\ NewNotice(c).by = c /\ NewNotice(c).user = call.user
         /\ NewNotice(c).title # "digest"
    BY <1>1, <1>3 DEF NewNotice, NoticeRow, NoticeOf
  <1>12. DigestsAreOwn'
    BY <1>1, <1>2, <1>11 DEF DigestsAreOwn
  <1>13. ASSUME NEW d \in Notifiers PROVE Tells(d)'
    <2>1. CASE d = c
      BY <1>2, <1>3, <1>6, <1>8, <1>9, <1>11, <2>1 DEF Tells
    <2>2. CASE d # c
      <3>1. \A u : {m.by : m \in {m \in notices : m.user = u}}
                       \subseteq {m.by : m \in {m \in notices' : m.user = u}}
        BY <1>2
      <3> QED
        BY <1>1, <1>2, <1>9, <1>10, <2>2, <3>1 DEF Tells
    <2> QED
      BY <2>1, <2>2
  <1>14. noticeItems' \in Seq(NoticeItem) /\ \A d \in Notifiers : Queues(d)'
    <2>1. CASE call.demand.waits
      <3> DEFINE all == noticeItems \o queued
      <3>1. noticeItems' = all
        BY <1>2, <2>1
      <3>2. /\ all \in Seq(NoticeItem) /\ Len(all) = n + k
            /\ \A i \in 1..n : all[i] = noticeItems[i]
            /\ \A j \in 1..k : all[n + j] = queued[j]
        BY <1>1, <1>7, Concatenated
      <3> HIDE DEF all, n
      <3>3. ItemChannels' = ItemChannels \o delivered
        <4> DEFINE both == ItemChannels \o delivered
        <4>1. /\ ItemChannels \in Seq(Channels) /\ Len(ItemChannels) = n
              /\ \A i \in 1..n : ItemChannels[i] = noticeItems[i].channel
          BY <1>1, ChannelsOfItems DEF ItemChannels, n
        <4>2. /\ both \in Seq(Channels) /\ Len(both) = Len(ItemChannels) + Len(delivered)
              /\ \A i \in 1..Len(ItemChannels) : both[i] = ItemChannels[i]
              /\ \A j \in 1..Len(delivered) : both[Len(ItemChannels) + j] = delivered[j]
          <5>1. ItemChannels \in Seq(Channels) /\ delivered \in Seq(Channels)
            BY <1>5, <4>1
          <5> QED
            BY <5>1, Concatenated
        <4> HIDE DEF both
        <4>3. /\ ItemChannels' \in Seq(Channels) /\ Len(ItemChannels') = n + k
              /\ \A i \in 1..(n + k) : ItemChannels'[i] = all[i].channel
          BY <3>1, <3>2, ChannelsOfItems DEF ItemChannels
        <4>4. \A i \in 1..(n + k) : i \in 1..n \/ (i - n \in 1..k /\ i = n + (i - n))
          BY <1>1, <1>7
        <4>5. \A i \in 1..(n + k) : ItemChannels'[i] = both[i]
          <5>1. ASSUME NEW i \in 1..n PROVE ItemChannels'[i] = both[i]
            <6>1. i \in 1..(n + k)
              BY <1>1, <1>7
            <6> QED
              BY <3>2, <4>1, <4>2, <4>3, <6>1
          <5>2. ASSUME NEW j \in 1..k PROVE ItemChannels'[n + j] = both[n + j]
            <6>1. n + j \in 1..(n + k)
              BY <1>1, <1>7
            <6>2. both[n + j] = delivered[j]
              BY <4>1, <4>2 DEF k
            <6> QED
              BY <1>7, <3>2, <4>3, <6>1, <6>2
          <5> QED
            BY <4>4, <5>1, <5>2
        <4>6. ItemChannels' = both
          <5>1. Len(both) = n + k
            BY <4>1, <4>2 DEF k
          <5> QED
            BY <4>2, <4>3, <4>5, <5>1, SeqEqual
        <4> QED
          BY <4>6 DEF both
      <3>4. ItemChannels \in Seq(Channels) /\ Len(ItemChannels) = n /\ DOMAIN ItemChannels = 1..n
        BY <1>1 DEF ItemChannels, NoticeItem
      <3>5. ASSUME NEW d \in Notifiers, d # c PROVE Queues(d)'
        <4>1. OwnItems(d)' = OwnItems(d) /\ OwnItems(d) \subseteq DOMAIN ItemChannels
          <5>1. \A i \in 1..(n + k) : i \in 1..n \/ (i - n \in 1..k /\ i = n + (i - n))
            BY <1>1, <1>7
          <5>2. \A i \in 1..(n + k) : i \notin 1..n => all[i].of = c
            BY <1>7, <3>2, <5>1
          <5>3. DOMAIN all = 1..(n + k)
            BY <1>1, <1>7, <3>2
          <5> QED
            BY <1>1, <1>7, <3>1, <3>2, <3>4, <3>5, <5>2, <5>3 DEF OwnItems
        <4>2. Picked(ItemChannels, OwnItems(d))' = Picked(ItemChannels, OwnItems(d))
          BY <1>5, <3>3, <3>4, <4>1, PickedOfFirst
        <4>3. Queues(d) /\ notice'[d] = notice[d] /\ Created(d)' = Created(d)
          BY <1>1, <1>9, <1>10, <3>5
        <4>4. notice[d] \in NoticeOf /\ n <= n + k
          BY <1>1, <1>7
        <4>5. \A m \in Nat : m <= n => /\ m <= n + k
                                       /\ \A i \in 1..m : noticeItems'[i] = noticeItems[i]
          BY <1>1, <1>7, <3>1, <3>2
        <4> QED
          BY <3>1, <3>2, <4>1, <4>2, <4>3, <4>4, <4>5 DEF Queues, NoticeOf, n
      <3>6. Queues(c)'
        <4>1. OwnItems(c)' = (n + 1)..(n + k)
          <5>1. DOMAIN all = 1..(n + k)
            BY <1>1, <1>7, <3>2
          <5>2. \A i \in 1..n : all[i].of # c
            BY <1>1, <1>10, <3>2 DEF OwnItems
          <5>3. \A i \in (n + 1)..(n + k) : i - n \in 1..k /\ i = n + (i - n)
            BY <1>1, <1>7
          <5>4. \A i \in (n + 1)..(n + k) : all[i].of = c
            BY <1>7, <3>2, <5>3
          <5>5. \A i : i \in 1..(n + k) <=> (i \in 1..n \/ i \in (n + 1)..(n + k))
            BY <1>1, <1>7
          <5> QED
            BY <3>1, <5>1, <5>2, <5>4, <5>5 DEF OwnItems
        <4>2. Picked(ItemChannels, OwnItems(c))' = delivered
          BY <1>5, <3>3, <3>4, <4>1, PickedOfLast DEF k
        <4> QED
          BY <1>8, <1>9, <1>10, <2>1, <4>2 DEF Queues
      <3> QED
        BY <3>1, <3>2, <3>5, <3>6
    <2>2. CASE ~call.demand.waits
      <3>1. /\ noticeItems' \in Seq(NoticeItem) /\ Len(noticeItems') = n
            /\ \A i \in 1..n : /\ noticeItems'[i].of = noticeItems[i].of
                                /\ noticeItems'[i].channel = noticeItems[i].channel
                                /\ noticeItems'[i].status # "queued"
        BY <1>1, <1>2, <2>2, PassKeeps
      <3>2. DOMAIN noticeItems' = DOMAIN noticeItems
        BY <1>1, <3>1
      <3>3. ItemChannels' = ItemChannels /\ \A d \in Notifiers : OwnItems(d)' = OwnItems(d)
        BY <1>1, <3>1, <3>2 DEF ItemChannels, OwnItems
      <3>4. ASSUME NEW d \in Notifiers, d # c PROVE Queues(d)'
        <4>1. Queues(d) /\ notice'[d] = notice[d] /\ Created(d)' = Created(d)
          BY <1>1, <1>9, <1>10, <3>4
        <4>2. notice[d] \in NoticeOf
          BY <1>1
        <4>3. \A m \in Nat : m <= n => \A i \in 1..m : noticeItems'[i].status # "queued"
          BY <1>1, <3>1
        <4> QED
          BY <3>1, <3>3, <4>1, <4>2, <4>3 DEF Queues, NoticeOf
      <3>5. Queues(c)'
        BY <1>1, <1>8, <1>9, <1>10, <2>2, <3>1, <3>3 DEF Queues
      <3> QED
        BY <3>1, <3>4, <3>5
    <2> QED
      BY <2>1, <2>2
  <1>15. NoticeTypes'
    BY <1>1, <1>2, <1>9, <1>11, <1>14 DEF NoticeTypes
  <1> QED
    BY <1>12, <1>13, <1>14, <1>15 DEF NoticeInv

LEMMA NoticeStep == NoticeInv /\ [NoticesNext]_noticeVars => NoticeInv'
  <1> SUFFICES ASSUME NoticeInv, [NoticesNext]_noticeVars PROVE NoticeInv'
    OBVIOUS
  <1> USE NoticeAssumption
  <1>0. /\ NoticeTypes /\ DigestsAreOwn /\ notices \subseteq NoticeRow
        /\ notice \in [Notifiers -> NoticeOf] /\ wishes \in [Readers -> SUBSET Channels]
        /\ \A c \in Notifiers : notice[c] \in NoticeOf /\ Queues(c) /\ Tells(c)
    BY DEF NoticeInv, NoticeTypes
  <1>a. /\ Uncalled \in NoticeOf /\ Uncalled.delivered = <<>> /\ Uncalled.demand = None
        /\ Uncalled.title = "own"
    BY DEF Uncalled, NoticeOf
  <1>1. ASSUME UNCHANGED <<notices, noticeItems, notice>>,
               wishes' \in [Readers -> SUBSET Channels], template' \in BOOLEAN
        PROVE  NoticeInv'
    <2>1. NoticeTypes' /\ DigestsAreOwn'
      BY <1>0, <1>1 DEF NoticeTypes, DigestsAreOwn
    <2>2. ASSUME NEW c \in Notifiers PROVE Queues(c)' /\ Tells(c)'
      <3>1. /\ ItemChannels' = ItemChannels /\ OwnItems(c)' = OwnItems(c)
            /\ Created(c)' = Created(c)
        BY <1>1 DEF ItemChannels, OwnItems, Created
      <3>2. Queues(c)'
        BY <1>0, <1>1, <3>1 DEF Queues
      <3>3. Tells(c)'
        BY <1>0, <1>1, <3>1 DEF Tells
      <3> QED
        BY <3>2, <3>3
    <2> QED
      BY <2>1, <2>2 DEF NoticeInv
  <1>2. ASSUME NEW u \in Readers, NEW on \in Wishes, SetPreferences(u, on) PROVE NoticeInv'
    BY <1>0, <1>1, <1>2 DEF SetPreferences, NoticeTypes
  <1>3. CASE RegisterTemplate
    BY <1>0, <1>1, <1>3 DEF RegisterTemplate
  <1>4. CASE UNCHANGED noticeVars
    BY <1>0, <1>1, <1>4 DEF noticeVars, NoticeTypes
  <1>5. ASSUME NEW c \in Notifiers, NEW new \in NoticeOf,
               notice' = [notice EXCEPT ![c] = new],
               UNCHANGED <<notices, wishes, template, noticeItems>>,
               notice[c].at # "answered", new.at # "answered", Tells(c)'
        PROVE  NoticeInv'
    <2>1. DigestsAreOwn' /\ \A n \in notices : \E m \in notices' : m.by = n.by /\ m.user = n.user
      BY <1>0, <1>5 DEF DigestsAreOwn
    <2> QED
      BY <1>0, <1>5, <2>1, OneNotifies
  <1>6. ASSUME NEW c \in Notifiers, NEW u \in Readers, NEW d \in NoticeDemands,
               CreateNotice(c, u, d)
        PROVE  NoticeInv'
    <2> DEFINE new == [Uncalled EXCEPT !.at = "creating", !.user = u, !.demand = d,
                !.admits = IF d.preferences = None THEN wishes[u] ELSE d.preferences,
                !.title = NoticeTitle(d)]
    <2>1. /\ notice' = [notice EXCEPT ![c] = new] /\ notice[c].at = "new"
          /\ UNCHANGED <<notices, wishes, template, noticeItems>>
      BY <1>6 DEF CreateNotice
    <2>2. /\ d.preferences = None \/ d.preferences \subseteq Channels
          /\ NoticeTitle(d) \in {"template", "own"}
      BY DEF Demand, NoticeTitle
    <2>3. /\ new \in NoticeOf /\ new.at = "creating" /\ new.demand = d /\ new.user = u
          /\ new.title # "digest" /\ new.delivered = <<>>
      <3> DEFINE admits == IF d.preferences = None THEN wishes[u] ELSE d.preferences
                 title == NoticeTitle(d)
      <3>1. admits \in SUBSET Channels
        BY <1>0, <2>2
      <3>2. title \in {"template", "own"}
        BY <2>2
      <3> HIDE DEF admits, title
      <3>3. new = [Uncalled EXCEPT !.at = "creating", !.user = u, !.demand = d,
                                   !.admits = admits, !.title = title]
        BY DEF admits, title
      <3> HIDE DEF new
      <3> QED
        BY <1>a, <3>1, <3>2, <3>3 DEF NoticeOf
    <2> HIDE DEF new
    <2>4. notice'[c] = new
      BY <1>0, <2>1
    <2>5. Tells(c)'
      BY <2>3, <2>4 DEF Tells, Created
    <2> QED
      BY <1>5, <2>1, <2>3, <2>5
  <1>7. ASSUME NEW c \in Notifiers, NEW by \in Notifiers, NEW read \in BOOLEAN,
               FindNotice(c, by, read)
        PROVE  NoticeInv'
    <2> DEFINE new == [Uncalled EXCEPT
                !.at = IF \E n \in notices : n.by = by THEN "marking" ELSE "notFound",
                !.about = {by}, !.read = read]
    <2>1. /\ notice' = [notice EXCEPT ![c] = new] /\ notice[c].at = "new"
          /\ UNCHANGED <<notices, wishes, template, noticeItems>>
      BY <1>7 DEF FindNotice
    <2>2. /\ new \in NoticeOf /\ new.at \in {"marking", "notFound"} /\ new.demand = None
          /\ new.delivered = <<>>
      BY <1>a DEF NoticeOf
    <2> HIDE DEF new
    <2>3. notice'[c] = new
      BY <1>0, <2>1
    <2>4. Tells(c)'
      BY <2>2, <2>3 DEF Tells, Created
    <2> QED
      BY <1>5, <2>1, <2>2, <2>4
  <1>8. ASSUME NEW c \in Notifiers, NEW u \in Readers, NEW named \in SUBSET (Notifiers \ {c}),
               AskDigest(c, u, named)
        PROVE  NoticeInv'
    <2> DEFINE new == [Uncalled EXCEPT !.at = "gathering", !.user = u, !.title = "digest",
                                       !.about = named]
    <2>1. /\ notice' = [notice EXCEPT ![c] = new] /\ notice[c].at = "new"
          /\ UNCHANGED <<notices, wishes, template, noticeItems>>
      BY <1>8 DEF AskDigest
    <2>2. /\ new \in NoticeOf /\ new.at = "gathering" /\ new.demand = None /\ new.user = u
          /\ new.about = named /\ new.delivered = <<>>
      BY <1>a DEF NoticeOf
    <2> HIDE DEF new
    <2>3. notice'[c] = new
      BY <1>0, <2>1
    <2>4. Tells(c)'
      BY <2>2, <2>3 DEF Tells, Created
    <2> QED
      BY <1>5, <2>1, <2>2, <2>4
  <1>9. ASSUME NEW c \in Notifiers, GatherDigest(c) PROVE NoticeInv'
    <2> DEFINE user == notice[c].user
               found == {n \in notices : n.by \in notice[c].about /\ n.user = user}
               about == {n.by : n \in found}
               new == [notice[c] EXCEPT !.at = "digesting", !.about = about]
    <2>1. /\ notice' = [notice EXCEPT ![c] = new] /\ notice[c].at = "gathering"
          /\ UNCHANGED <<notices, wishes, template, noticeItems>>
      BY <1>9 DEF GatherDigest
    <2>2. about \subseteq {m.by : m \in {m \in notices : m.user = user}} \ {c}
      BY <1>0, <2>1 DEF Tells
    <2>3. about \subseteq Notifiers
      BY <1>0 DEF NoticeRow
    <2> HIDE DEF about
    <2>4. /\ new \in NoticeOf /\ new.at = "digesting" /\ new.demand = notice[c].demand
          /\ new.user = user /\ new.about = about /\ new.delivered = notice[c].delivered
          /\ new.skipped = notice[c].skipped
      <3>1. notice[c] \in NoticeOf
        BY <1>0
      <3> QED
        BY <2>3, <3>1 DEF NoticeOf
    <2> HIDE DEF new, user
    <2>5. notice'[c] = new
      BY <1>0, <2>1
    <2>6. Tells(c)'
      BY <1>0, <2>1, <2>2, <2>4, <2>5 DEF Tells, Created, user
    <2> QED
      BY <1>5, <2>1, <2>4, <2>6
  <1>10. ASSUME NEW c \in Notifiers, NoticeFails(c) PROVE NoticeInv'
    <2> DEFINE new == [notice[c] EXCEPT !.at = "failed"]
    <2>1. /\ notice' = [notice EXCEPT ![c] = new]
          /\ notice[c].at \in {"creating", "marking", "gathering", "digesting"}
          /\ UNCHANGED <<notices, wishes, template, noticeItems>>
      BY <1>0, <1>10 DEF NoticeFails
    <2>2. /\ new \in NoticeOf /\ new.at = "failed" /\ new.delivered = notice[c].delivered
          /\ new.skipped = notice[c].skipped
      <3>1. notice[c] \in NoticeOf
        BY <1>0
      <3> QED
        BY <3>1 DEF NoticeOf
    <2> HIDE DEF new
    <2>3. notice'[c] = new
      BY <1>0, <2>1
    <2>4. Tells(c)'
      BY <1>0, <2>2, <2>3 DEF Tells, Created
    <2> QED
      BY <1>5, <2>1, <2>2, <2>4
  <1>11. ASSUME NEW c \in Notifiers, MarkNotice(c) PROVE NoticeInv'
    <2> DEFINE new == [notice[c] EXCEPT !.at = "answered"]
               Marked(n) == IF n.by \in notice[c].about THEN [n EXCEPT !.read = notice[c].read]
                                                        ELSE n
    <2>1. /\ notice' = [notice EXCEPT ![c] = new] /\ notice[c].at = "marking"
          /\ notices' = {Marked(n) : n \in notices}
          /\ UNCHANGED <<wishes, template, noticeItems>>
      BY <1>0, <1>11 DEF MarkNotice
    <2>2. \A n \in notices : /\ Marked(n) \in NoticeRow /\ Marked(n).by = n.by
                             /\ Marked(n).user = n.user /\ Marked(n).title = n.title
                             /\ Marked(n).of = n.of
      BY <1>0 DEF NoticeRow, NoticeOf
    <2>3. /\ new \in NoticeOf /\ new.at = "answered" /\ new.demand = None
          /\ new.delivered = notice[c].delivered /\ new.skipped = notice[c].skipped
      <3>1. notice[c] \in NoticeOf /\ notice[c].demand = None
        BY <1>0, <2>1 DEF Tells
      <3> QED
        BY <3>1 DEF NoticeOf
    <2> HIDE DEF new, Marked
    <2>4. notice'[c] = new /\ notices' \subseteq NoticeRow
      BY <1>0, <2>1, <2>2
    <2>5. \A n \in notices : \E m \in notices' : m.by = n.by /\ m.user = n.user
      BY <2>1, <2>2
    <2>6. DigestsAreOwn'
      <3>1. SUFFICES ASSUME NEW n \in notices, n.title = "digest", NEW x \in n.of
                     PROVE  /\ \E m \in notices' : m.user = n.user /\ m.by = x
                            /\ x # n.by
        BY <2>1, <2>2 DEF DigestsAreOwn
      <3>2. x # n.by /\ \E m \in notices : m.user = n.user /\ m.by = x
        BY <1>0, <3>1 DEF DigestsAreOwn
      <3> QED
        BY <2>5, <3>2
    <2>7. Tells(c)'
      BY <1>0, <2>3, <2>4 DEF Tells, Created
    <2> QED
      BY <1>0, <2>1, <2>3, <2>4, <2>5, <2>6, <2>7, OneNotifies
  <1>12. ASSUME NEW c \in Notifiers, DigestCreated(c) PROVE NoticeInv'
    <2> DEFINE new == [notice[c] EXCEPT !.at = "answered"]
               row == NewNotice(c)
    <2>1. /\ notice' = [notice EXCEPT ![c] = new] /\ notice[c].at = "digesting"
          /\ notices' = notices \cup {row}
          /\ UNCHANGED <<wishes, template, noticeItems>>
      BY <1>0, <1>12 DEF DigestCreated
    <2>2. /\ new \in NoticeOf /\ new.at = "answered" /\ new.demand = None
          /\ new.delivered = notice[c].delivered /\ new.skipped = notice[c].skipped
      <3>1. notice[c] \in NoticeOf /\ notice[c].demand = None
        BY <1>0, <2>1 DEF Tells
      <3> QED
        BY <3>1 DEF NoticeOf
    <2>3. /\ row \in NoticeRow /\ row.by = c /\ row.user = notice[c].user
          /\ row.of = notice[c].about
      BY <1>0, <2>1 DEF NewNotice, NoticeRow, NoticeOf, Tells
    <2> HIDE DEF new, row
    <2>4. /\ notice'[c] = new /\ notices' \subseteq NoticeRow
          /\ \A n \in notices : \E m \in notices' : m.by = n.by /\ m.user = n.user
      BY <1>0, <2>1, <2>3
    <2>5. DigestsAreOwn'
      <3>1. row.of \subseteq {m.by : m \in {m \in notices : m.user = row.user}} \ {row.by}
        BY <1>0, <2>1, <2>3 DEF Tells
      <3>2. \A u : {m.by : m \in {m \in notices : m.user = u}}
                       \subseteq {m.by : m \in {m \in notices' : m.user = u}}
        BY <2>1
      <3> QED
        BY <1>0, <2>1, <3>1, <3>2 DEF DigestsAreOwn
    <2>6. Tells(c)'
      BY <1>0, <2>2, <2>4 DEF Tells, Created
    <2> QED
      BY <1>0, <2>1, <2>2, <2>4, <2>5, <2>6, OneNotifies
  <1> QED
    BY <1>2, <1>3, <1>4, <1>6, <1>7, <1>8, <1>9, <1>10, <1>11, <1>12, OneCreates DEF NoticesNext

LEMMA NoticesAreTyped == NoticeInv => NoticeTypeOK
  <1> SUFFICES ASSUME NoticeInv PROVE NoticeTypeOK
    OBVIOUS
  <1>1. /\ \A n \in notices : n \in NoticeRow
        /\ \A i \in DOMAIN noticeItems : noticeItems[i] \in NoticeItem
        /\ \A c \in Notifiers : notice[c] \in NoticeOf
    BY DEF NoticeInv, NoticeTypes
  <1>2. wishes \in [Readers -> SUBSET Channels] /\ template \in BOOLEAN
    BY DEF NoticeInv, NoticeTypes
  <1> QED
    BY <1>1, <1>2 DEF NoticeRow, NoticeItem, NoticeOf, NoticeTypeOK

LEMMA QueuesAreEmptied == NoticeInv => QueueIsEmptied
  <1> SUFFICES ASSUME NoticeInv, NEW c \in Notifiers
               PROVE  /\ Created(c) /\ ~notice[c].demand.waits =>
                             \A i \in 1..notice[c].upTo :
                                 noticeItems[i].dated \/ noticeItems[i].status # "queued"
                      /\ Picked(ItemChannels, OwnItems(c))
                             = IF Created(c) /\ notice[c].demand.waits THEN notice[c].delivered
                                                                       ELSE <<>>
                      /\ OwnItems(c) # {} => \E n \in notices : n.by = c /\ n.user = notice[c].user
                      /\ ToSet(notice[c].delivered) \cap ToSet(notice[c].skipped) = {}
    BY DEF QueueIsEmptied, Created, OwnItems, ItemChannels
  <1>1. Queues(c) /\ Tells(c) /\ noticeItems \in Seq(NoticeItem)
    BY DEF NoticeInv, NoticeTypes
  <1>2. OwnItems(c) = {} => Picked(ItemChannels, OwnItems(c)) = <<>>
    <2>1. ItemChannels \in Seq(Channels)
      BY <1>1, ChannelsOfItems DEF ItemChannels
    <2>2. /\ Picked(ItemChannels, {}) \in Seq(Channels)
          /\ \A j \in DOMAIN Picked(ItemChannels, {}) : \E i \in DOMAIN ItemChannels : i \in {}
      BY <2>1, PickedElements
    <2> DEFINE none == Picked(ItemChannels, {})
    <2>3. none \in Seq(Channels) /\ \A j \in DOMAIN none : FALSE
      BY <2>2
    <2> HIDE DEF none
    <2>4. none = <<>>
      BY <2>3
    <2> QED
      BY <2>4 DEF none
  <1>3. ToSet(notice[c].delivered) \cap ToSet(notice[c].skipped) = {}
    BY <1>1 DEF Tells, ToSet
  <1> QED
    BY <1>1, <1>2, <1>3 DEF Queues, Tells

\* Of any number of calls, users and channels: the queue holds of each call the channels it
\* was answered, in order, and nothing without a date that was there when a call that does not
\* wait was answered; a digest is of notifications of its own user; and no user has more
\* requests counted than the limiter admits (create, processQueue, createDigest,
\* InMemoryRateLimiter.allow).
THEOREM ListsAlwaysHold == Spec => []ListsHold
  <1> DEFINE Inv == SearchInv /\ ConnectionInv /\ PresenceInv /\ NoticeInv
  <1>1. Init => Inv
    BY SearchesStart, ConnectionsStart, PresenceStarts, NoticesStart DEF Init
  <1>2. Inv /\ [Next]_vars => Inv'
    BY SearchStep, ConnectionStep, PresenceStep, NoticeStep, StepsAreOfOne
  <1>3. Inv => ListsHold
    BY SearchesAreTyped, RoomsAreTyped, NoticesAreTyped, QueuesAreEmptied
    DEF ListsHold, NoticeInv
  <1> HIDE DEF Inv
  <1> QED
    BY <1>1, <1>2, <1>3, PTL DEF Spec

-----------------------------------------------------------------------------
(* Users of the package *)

\* c registered a user: its session is of the user that it made.
Registered(c) == asked[c].at = "done" /\ asked[c].session = c

VisitInv ==
    \A c \in Callers :
        /\ asked[c].at = "new" => asked[c].session = None
        /\ asked[c].at = "save" => /\ asked[c].session = None /\ asked[c].email \in Addresses
                                  /\ asked[c].password \in Passwords
        /\ \A d \in asked[c].before : asked[d].at = "done"

\* Who is saved, or has a session, was registered under that address.
SavedInv ==
    /\ \A e \in Addresses : saved[e] # None =>
           Registered(saved[e].id) /\ asked[saved[e].id].email = e
    /\ \A c \in Callers : asked[c].session # None =>
           /\ Registered(asked[c].session)
           /\ asked[asked[c].session].email = asked[c].email
           /\ asked[c].email \in Addresses /\ saved[asked[c].email] # None

\* An address that is registered stays so: who looks later is refused, so that any two
\* who saved a user under one address looked before either of them had.
SavesRan ==
    \A c, d \in Callers :
        (/\ asked[c].at = "save" \/ Registered(c)
         /\ Registered(d) /\ c # d /\ asked[c].email = asked[d].email)
        => d \notin asked[c].before

PackageInv == PackageTypeOK /\ VisitInv /\ SavedInv /\ SavesRan

LEMMA PackageStarts == PackageInit => PackageInv
  BY NobodyAssumption
  DEF PackageInit, PackageInv, PackageTypeOK, Visitor, VisitInv, SavedInv, SavesRan, Registered

\* The facts about a visit that begins
LEMMA Visit ==
    ASSUME PackageInv, NEW c \in Callers, NEW e \in Addresses, NEW p \in Passwords,
           NEW at \in {"save", "done"}, NEW session \in Callers \cup {None},
           asked[c].at = "new", Visits(c, e, p, at, session), UNCHANGED saved,
           at = "save" => session = None /\ saved[e] = None,
           session # None => saved[e] # None /\ session = saved[e].id
    PROVE  PackageInv'
  <1> DEFINE new == [at |-> at, email |-> e, password |-> p, session |-> session,
                     before |-> {d \in Callers : asked[d].at = "done"}]
  <1>1. asked' = [asked EXCEPT ![c] = new]
    BY DEF Visits
  <1>2. /\ new \in Visitor /\ new.at = at /\ new.email = e /\ new.password = p
        /\ new.session = session /\ new.before = {d \in Callers : asked[d].at = "done"}
    BY DEF Visitor
  <1> HIDE DEF new
  <1>3. asked'[c] = new /\ \A d \in Callers \ {c} : asked'[d] = asked[d]
    BY <1>1 DEF PackageInv, PackageTypeOK
  <1>4. PackageTypeOK'
    BY <1>1, <1>2 DEF PackageInv, PackageTypeOK
  <1>5. VisitInv'
    BY <1>2, <1>3, NobodyAssumption DEF PackageInv, PackageTypeOK, VisitInv, Visitor
  <1>6. session # c
    BY NobodyAssumption DEF PackageInv, PackageTypeOK, SavedInv, Registered
  <1>7. \A d \in Callers : Registered(d)' <=> Registered(d)
    BY <1>2, <1>3, <1>6 DEF Registered
  <1>8. \A d \in Callers : Registered(d) => asked'[d] = asked[d] /\ d # c
    BY <1>3 DEF Registered
  <1>9. \A a \in Addresses : saved[a] # None => saved[a].id \in Callers
    BY DEF PackageInv, PackageTypeOK
  <1>10. \A d \in Callers : asked[d].session # None => asked[d].session \in Callers
    BY DEF PackageInv, PackageTypeOK, Visitor
  <1>11. SavedInv'
    <2>1. \A a \in Addresses : saved'[a] # None =>
             /\ asked'[saved'[a].id].at = "done" /\ asked'[saved'[a].id].session = saved'[a].id
             /\ asked'[saved'[a].id].email = a
      BY <1>8, <1>9 DEF PackageInv, SavedInv, Registered
    <2>2. ASSUME NEW d \in Callers, asked'[d].session # None
          PROVE  /\ asked'[asked'[d].session].at = "done"
                 /\ asked'[asked'[d].session].session = asked'[d].session
                 /\ asked'[asked'[d].session].email = asked'[d].email
                 /\ asked'[d].email \in Addresses /\ saved'[asked'[d].email] # None
      <3>1. CASE d = c
        BY <1>2, <1>3, <1>8, <1>9, <2>2, <3>1 DEF PackageInv, SavedInv, Registered
      <3>2. CASE d # c
        BY <1>3, <1>8, <1>10, <2>2, <3>2 DEF PackageInv, SavedInv, Registered
      <3> QED
        BY <3>1, <3>2
    <2> QED
      BY <2>1, <2>2 DEF SavedInv, Registered
  <1>12. \A d \in Callers : Registered(d) =>
             asked[d].email \in Addresses /\ saved[asked[d].email] # None
    BY NobodyAssumption DEF PackageInv, SavedInv, Registered
  <1>13. SavesRan'
    <2> SUFFICES ASSUME NEW b \in Callers, NEW d \in Callers,
                        asked'[b].at = "save" \/ Registered(b)',
                        Registered(d)', b # d, asked'[b].email = asked'[d].email
                 PROVE  d \notin asked'[b].before
      BY DEF SavesRan
    <2>1. CASE b = c
      BY <1>2, <1>3, <1>7, <1>8, <1>12, <2>1
    <2>2. CASE b # c
      BY <1>3, <1>7, <1>8, <2>2 DEF PackageInv, SavesRan
    <2> QED
      BY <2>1, <2>2
  <1> QED
    BY <1>4, <1>5, <1>11, <1>13 DEF PackageInv

LEMMA PackageStep == PackageInv /\ [PackageNext]_packageVars => PackageInv'
  <1> SUFFICES ASSUME PackageInv, [PackageNext]_packageVars PROVE PackageInv'
    OBVIOUS
  <1>1. ASSUME NEW c \in Callers, SignUp(c) PROVE PackageInv'
    BY <1>1, Visit DEF SignUp
  <1>2. ASSUME NEW c \in Callers, SignIn(c) PROVE PackageInv'
    <2>1. PICK e \in Addresses, p \in Passwords :
              Visits(c, e, p, "done",
                     IF saved[e] # None /\ saved[e].password = p THEN saved[e].id ELSE None)
      BY <1>2 DEF SignIn
    <2> DEFINE session == IF saved[e] # None /\ saved[e].password = p THEN saved[e].id ELSE None
    <2>2. session \in Callers \cup {None} /\ (session # None => saved[e] # None /\ session = saved[e].id)
      BY DEF PackageInv, PackageTypeOK
    <2>3. asked[c].at = "new" /\ UNCHANGED saved /\ Visits(c, e, p, "done", session)
      BY <1>2, <2>1 DEF SignIn
    <2> HIDE DEF session
    <2> QED
      BY <2>2, <2>3, Visit
  <1>3. ASSUME NEW c \in Callers, Save(c) PROVE PackageInv'
    <2>1. /\ asked[c].at = "save" /\ asked[c].session = None
          /\ asked[c].email \in Addresses /\ asked[c].password \in Passwords
      BY <1>3 DEF Save, PackageInv, VisitInv
    <2>2. /\ \A d \in Callers \ {c} : asked'[d] = asked[d]
          /\ asked'[c].at = "done" /\ asked'[c].session = c /\ asked'[c].before = asked[c].before
          /\ asked'[c].email = asked[c].email /\ asked' \in [Callers -> Visitor]
      <3> DEFINE new == [asked[c] EXCEPT !.at = "done", !.session = c]
      <3>1. asked' = [asked EXCEPT ![c] = new]
        BY <1>3 DEF Save
      <3>2. asked[c] \in Visitor
        BY DEF PackageInv, PackageTypeOK
      <3>3. /\ new \in Visitor /\ new.at = "done" /\ new.session = c
            /\ new.before = asked[c].before /\ new.email = asked[c].email
        BY <3>2 DEF Visitor
      <3> HIDE DEF new
      <3> QED
        BY <3>1, <3>3 DEF PackageInv, PackageTypeOK
    <2>3. /\ \A e \in Addresses \ {asked[c].email} : saved'[e] = saved[e]
          /\ saved'[asked[c].email] = [id |-> c, password |-> asked[c].password]
          /\ saved' \in [Addresses -> [id : Callers, password : Passwords] \cup {None}]
      BY <1>3, <2>1 DEF Save, PackageInv, PackageTypeOK
    <2>4. saved'[asked[c].email] # None /\ saved'[asked[c].email].id = c
      BY <2>1, <2>3, NobodyAssumption
    <2>5. \A d \in Callers : Registered(d)' <=> Registered(d) \/ d = c
      BY <2>1, <2>2 DEF Registered
    <2>6. PackageTypeOK' /\ VisitInv'
      BY <2>1, <2>2, <2>3, NobodyAssumption DEF PackageInv, PackageTypeOK, VisitInv, Visitor
    <2>7. SavedInv'
      <3>1. \A a \in Addresses : saved[a] # None => saved[a].id \in Callers
        BY DEF PackageInv, PackageTypeOK
      <3>2. \A d \in Callers : asked[d].session # None => asked[d].session \in Callers
        BY DEF PackageInv, PackageTypeOK, Visitor
      <3>3. \A d \in Callers : asked'[d].email = asked[d].email
        BY <2>2
      <3>4. \A a \in Addresses : saved'[a] # None =>
               /\ asked'[saved'[a].id].at = "done" /\ asked'[saved'[a].id].session = saved'[a].id
               /\ asked'[saved'[a].id].email = a
        BY <2>1, <2>2, <2>3, <2>4, <3>1, <3>3 DEF PackageInv, SavedInv, Registered
      <3>5. ASSUME NEW d \in Callers, asked'[d].session # None
            PROVE  /\ asked'[asked'[d].session].at = "done"
                   /\ asked'[asked'[d].session].session = asked'[d].session
                   /\ asked'[asked'[d].session].email = asked'[d].email
                   /\ asked'[d].email \in Addresses /\ saved'[asked'[d].email] # None
        <4>1. CASE d = c
          BY <2>1, <2>2, <2>4, <4>1
        <4>2. CASE d # c
          BY <2>2, <2>3, <2>4, <3>2, <3>3, <3>5, <4>2 DEF PackageInv, SavedInv, Registered
        <4> QED
          BY <4>1, <4>2
      <3> QED
        BY <3>4, <3>5 DEF SavedInv, Registered
    <2>8. SavesRan'
      BY <2>1, <2>2, <2>5 DEF PackageInv, PackageTypeOK, VisitInv, SavesRan, Registered
    <2> QED
      BY <2>6, <2>7, <2>8 DEF PackageInv
  <1>4. CASE UNCHANGED packageVars
    BY <1>4 DEF packageVars, PackageInv, PackageTypeOK, VisitInv, SavedInv, SavesRan, Registered
  <1> QED
    BY <1>1, <1>2, <1>3, <1>4 DEF PackageNext

LEMMA PackageRaces == PackageInv => SessionOfNobodyNeedsARace
  BY NobodyAssumption
  DEF PackageInv, PackageTypeOK, Visitor, VisitInv, SavedInv, SavesRan, Registered,
      SessionOfNobodyNeedsARace

-----------------------------------------------------------------------------
(* The tables and the requests on them *)

Places == {"new", "create", "profile", "compare", "sign", "store", "update", "write", "channel",
           "newChannel", "podcast", "done"}

Call == [op : Ops \cup {None}, at : Places, actor : Users \cup {None}, target : Users \cup {None},
         key : Emails \cup Names \cup Urls \cup {None}, secret : Secrets \cup {None},
         row : Rows \cup {None}, read : Secrets \cup {None}, token : Tokens \cup {None},
         answer : Answers \cup {None}, held : BOOLEAN, before : SUBSET Requests]

Running(c) == calls[c].at \notin {"new", "done"}

\* What a request holds where it is: this is about its own record, and about ids, which
\* stay made.
CallHolds(call) ==
    /\ call.at = "new" => call.op = None /\ call.target = None /\ call.token = None
                          /\ call.answer = None /\ call.before = {}
    /\ call.at # "new" => call.op \in Ops
    /\ call.at = "done" => call.answer \in Answers
    /\ call.at # "done" => call.answer = None
    /\ call.at = "create" => /\ call.op \in {"register", "createUser"} /\ call.key \in Emails
                             /\ call.target = None
    /\ call.at = "profile" => call.op \in {"register", "createUser", "updateProfile"}
    /\ call.at = "compare" => call.op = "login"
    /\ call.at \in {"sign", "store"} => call.op \in {"register", "login"}
    /\ call.at \in {"profile", "compare", "sign", "store", "update"} => call.target \in made \cap Users
    /\ call.at = "store" => call.token # None
    /\ call.at = "update" => call.op = "updateUser" /\ call.key \in Emails \cup {None}
    /\ call.at = "write" => call.op \in {"change", "remove"} /\ call.row \in made \cap Rows
    /\ call.at = "write" /\ call.op = "change" => call.key \in Names
    /\ call.at \in {"channel", "newChannel", "podcast"} => call.op = "createFeed"
    /\ call.at \in {"channel", "newChannel"} => call.row = None
    /\ call.op = "createFeed" => call.key \in Urls /\ call.actor \in made \cap Users
    /\ call.at = "podcast" => call.row \in made \cap Rows
    /\ call.token # None => /\ call.op \in {"register", "login"} /\ call.target \in made \cap Users
                            /\ call.token.user = call.target /\ call.at \in {"store", "done"}
    /\ call.op \in {"register", "login"} /\ call.answer = "ok" => call.token # None

CallsHold ==
    /\ calls \in [Requests -> Call]
    /\ \A c \in Requests : CallHolds(calls[c])
    /\ \A c, d \in Requests : d \in calls[c].before => calls[d].at = "done"

\* Whatever is in a table has an id that has been given out.
IdsAreMade ==
    /\ made \subseteq Users \cup Rows
    /\ \A u \in Users : users[u] # None \/ profiles[u] > 0 => u \in made
    /\ \A r \in Rows : rows[r] # None => r \in made

TableTypes ==
    /\ users \in [Users -> UserRow \cup {None}]
    /\ profiles \in [Users -> Nat]
    /\ rows \in [Rows -> Row \cup {None}]
    /\ \A r \in Rows : rows[r] # None => WellFormed(rows[r])
    /\ second \in 0..MaxSecond

Tables == TableTypes /\ IdsAreMade /\ CallsHold

-----------------------------------------------------------------------------
(* What a step of request c may do *)

OthersStay(c) == \A d \in Requests \ {c} : calls'[d] = calls[d]

CallMoves(c) ==
    /\ calls' \in [Requests -> Call] /\ OthersStay(c) /\ calls'[c].at # "new"
    /\ \/ calls[c].at = "new" /\ calls'[c].before = {d \in Requests : calls[d].at = "done"}
       \/ /\ Running(c)
          /\ calls'[c].op = calls[c].op /\ calls'[c].actor = calls[c].actor
          /\ calls'[c].key = calls[c].key /\ calls'[c].before = calls[c].before
          /\ calls'[c].held = calls[c].held
          /\ calls[c].target = None \/ calls'[c].target = calls[c].target
          /\ calls[c].op # "createFeed" => calls'[c].row = calls[c].row

\* Two requests that have begun and have not ended overlap, and go on doing so.
LEMMA Beside ==
    ASSUME CallsHold, NEW c \in Requests, NEW d \in Requests, c # d, Running(c), Running(d)
    PROVE  Overlap(c, d)
  BY DEF CallsHold, Running, Overlap

LEMMA OverlapStays ==
    ASSUME CallsHold, NEW s \in Requests, CallMoves(s),
           NEW c \in Requests, NEW d \in Requests, Overlap(c, d)
    PROVE  Overlap(c, d)'
  BY DEF CallsHold, CallMoves, OthersStay, Running, Overlap

\* A request that has begun
LEMMA Asked ==
    ASSUME NEW op \in Ops
    PROVE  /\ Request(op) \in Call
           /\ Request(op).op = op /\ Request(op).at = "done" /\ Request(op).actor = None
           /\ Request(op).target = None /\ Request(op).key = None /\ Request(op).secret = None
           /\ Request(op).row = None /\ Request(op).read = None /\ Request(op).token = None
           /\ Request(op).answer = None /\ Request(op).held = FALSE
           /\ Request(op).before = {d \in Requests : calls[d].at = "done"}
  BY DEF Request, Call, Places

UsersMove(c) ==
    /\ users' \in [Users -> UserRow \cup {None}]
    /\ made \subseteq made' /\ made' \subseteq Users \cup Rows
    /\ \A u \in Users : users'[u] # None => u \in made'
    /\ \A u \in Users \cap made : users[u] = None => users'[u] = None
    /\ \A u \in Users : users'[u] # None /\ (users[u] # None => users'[u].email # users[u].email)
           => calls[c].at \in {"create", "update"} /\ users'[u].email = calls[c].key
    /\ \A u \in Users \cap made : users'[u] # None /\ users'[u].token # users[u].token
           => /\ calls[c].at = "store" /\ calls[c].target = u /\ users'[u].token = calls[c].token
              /\ calls'[c].answer = "ok" /\ calls'[c].token = calls[c].token

ProfilesMove(c) ==
    \/ profiles' = profiles
    \/ /\ calls[c].at = "profile" /\ calls'[c].at # "profile"
       /\ profiles' = [profiles EXCEPT ![calls[c].target] = profiles[calls[c].target] + 1]

RowsMove(c) ==
    /\ rows' \in [Rows -> Row \cup {None}]
    /\ \A r \in Rows : rows'[r] # None => WellFormed(rows'[r]) /\ r \in made'
    /\ \A r \in Rows \cap made : rows[r] = None => rows'[r] = None
    /\ \A r \in Rows : rows[r] # None /\ rows'[r] # None
           => rows'[r].table = rows[r].table /\ rows'[r].owner = rows[r].owner
    /\ \A r \in Rows : rows[r] # None /\ rows'[r] = None
           => /\ calls[c].at = "write" /\ calls[c].op = "remove" /\ calls[c].row = r
              /\ calls'[c].answer = "ok"
    /\ \A r \in Rows : rows'[r] # None /\ (rows[r] # None => rows'[r].key # rows[r].key)
           => \/ /\ rows'[r].table # "podcast" /\ rows'[r].key = calls'[c].key
                 /\ calls'[c].op \in {"create", "change"} /\ calls'[c].answer = "ok"
              \/ calls[c].at = "podcast" /\ rows'[r].table = "podcast" /\ rows'[r].key = calls[c].key
              \/ calls[c].at = "newChannel" /\ rows'[r].table = "channel"
                 /\ rows'[r].key = Imported(calls[c].actor)

KnownUrl(url) == \E r \in Rows : rows[r] # None /\ rows[r].table = "podcast" /\ rows[r].key = url

\* A channel of another than u, of the slug of u's imported feeds
OthersChannel(row, u) ==
    row # None /\ row.table = "channel" /\ row.key = Imported(u) /\ row.owner # u

KnownSlug(slug) == \E r \in Rows : rows[r] # None /\ rows[r].table = "channel" /\ rows[r].key = slug

\* What c has found in the tables when it gets where it is, and when it is answered
Finds(c) ==
    /\ calls'[c].at = "create" =>
           calls[c].at = "new" /\ (calls'[c].op = "register" => ~HasEmail(calls'[c].key))
    /\ calls'[c].op = "register" /\ calls'[c].answer = "taken" =>
           calls[c].at = "create" /\ HasEmail(calls[c].key)
    /\ calls'[c].at = "profile" =>
           \/ calls[c].at = "new" /\ profiles[calls'[c].target] = 0
           \/ calls[c].at = "create" /\ calls'[c].target \notin made
    /\ calls'[c].at = "write" =>
           /\ calls[c].at = "new" /\ rows[calls'[c].row] # None
           /\ calls'[c].op = "change" => rows[calls'[c].row].table # "podcast"
    /\ calls'[c].op \in {"change", "remove"} /\ calls'[c].answer = "missing" =>
           calls[c].at = "write" /\ rows[calls[c].row] = None
    /\ calls'[c].at = "channel" =>
           /\ calls[c].at = "new" /\ ~KnownUrl(calls'[c].key)
           /\ calls'[c].held = \E r \in Rows : OthersChannel(rows'[r], calls'[c].actor)
    /\ calls'[c].at = "newChannel" =>
           /\ calls[c].at = "channel"
           /\ \A r \in Rows : rows'[r] # None /\ rows'[r].table = "channel"
                              => rows'[r].owner # calls'[c].actor
    /\ calls'[c].at = "podcast" =>
           /\ calls[c].at \in {"channel", "newChannel"}
           /\ rows'[calls'[c].row] # None /\ rows'[calls'[c].row].table = "channel"
    /\ calls'[c].op = "createFeed" /\ calls'[c].answer = "taken" =>
           \/ /\ calls[c].at = "newChannel" /\ calls'[c].row = None
              /\ KnownSlug(Imported(calls[c].actor))
           \/ /\ calls[c].at = "podcast" /\ calls'[c].row # None
              /\ KnownUrl(calls[c].key)
    /\ calls'[c].op = "createFeed" /\ calls'[c].answer = "broken" =>
           \/ calls[c].at = "newChannel" /\ users[calls[c].actor] = None
           \/ calls[c].at = "podcast" /\ (rows[calls[c].row] = None
                                          \/ rows[calls[c].row].table # "channel")
    /\ calls'[c].answer = "ok" /\ calls'[c].token # None =>
           /\ calls[c].at = "store" /\ users'[calls'[c].target] # None
           /\ users'[calls'[c].target].token = calls'[c].token

Moves(c) ==
    /\ CallMoves(c) /\ CallHolds(calls[c])' /\ UsersMove(c) /\ ProfilesMove(c) /\ RowsMove(c)
    /\ Finds(c) /\ second' = second

-----------------------------------------------------------------------------
(* Why what goes wrong had a race.  A request that is on its way holds what it found when  *)
(* it got where it is, or another has changed that since, and then the two overlap.        *)

AddressRace(c) ==
    \E d \in Requests : /\ Overlap(c, d) /\ calls[d].key = calls[c].key
                        /\ calls[d].op \in {"register", "createUser", "updateUser"}

AddressInv ==
    \A c \in Requests :
        /\ calls[c].op = "register"
        /\ \/ calls[c].at = "create" /\ HasEmail(calls[c].key)
           \/ calls[c].answer = "taken"
        => AddressRace(c)

MakesProfile(c, u) ==
    calls[c].target = u /\ calls[c].op \in {"register", "createUser", "updateProfile"}

ProfileInv ==
    /\ \A c \in Requests : calls[c].at = "profile" /\ profiles[calls[c].target] > 0
           => \E d \in Requests : Overlap(c, d) /\ MakesProfile(d, calls[c].target)
    /\ \A u \in Users : profiles[u] > 1
           => \E c, d \in Requests : Overlap(c, d) /\ MakesProfile(c, u) /\ MakesProfile(d, u)

\* A request makes one profile at most: those that still can, and those there are.
Making == {c \in Requests : calls[c].at \in {"new", "create", "profile"}}

ProfilesCounted ==
    \A u \in Users : profiles[u] + Cardinality(Making) <= Cardinality(Requests) + 1

MissingInv ==
    \A c \in Requests :
        \/ calls[c].at = "write" /\ rows[calls[c].row] = None
        \/ calls[c].op \in {"change", "remove"} /\ calls[c].answer = "missing"
        => \E d \in Requests : /\ Overlap(c, d) /\ calls[d].op = "remove"
                               /\ calls[d].row = calls[c].row /\ calls[d].answer = "ok"

UrlRace(c) ==
    \E d \in Requests : /\ Overlap(c, d) /\ calls[d].op = "createFeed"
                        /\ calls[d].key = calls[c].key

\* d makes or may make the channel of u's imported feeds, or has given a channel that slug.
TakesSlug(d, u) ==
    \/ calls[d].op = "createFeed" /\ calls[d].actor = u
    \/ calls[d].op \in {"create", "change"} /\ calls[d].answer = "ok" /\ calls[d].key = Imported(u)

SlugRace(c) == \E d \in Requests : Overlap(c, d) /\ TakesSlug(d, calls[c].actor)

RemoveRace(c) == \E d \in Requests : Overlap(c, d) /\ calls[d].op = "remove"

FeedInv ==
    \A c \in Requests :
        /\ calls[c].at \in {"channel", "newChannel", "podcast"} /\ KnownUrl(calls[c].key)
               => UrlRace(c)
        /\ \A r \in Rows : /\ calls[c].at \in {"channel", "newChannel"}
                           /\ OthersChannel(rows[r], calls[c].actor)
               => calls[c].held \/ SlugRace(c)
        /\ calls[c].at = "newChannel" /\ KnownSlug(Imported(calls[c].actor))
               => calls[c].held \/ SlugRace(c)
        /\ calls[c].at = "podcast" /\ rows[calls[c].row] = None => RemoveRace(c)
        /\ calls[c].at = "podcast" /\ rows[calls[c].row] # None
               => rows[calls[c].row].table = "channel"
        /\ calls[c].op = "createFeed" /\ calls[c].answer = "taken" /\ calls[c].row # None
               => UrlRace(c)
        /\ calls[c].op = "createFeed" /\ calls[c].answer = "taken" /\ calls[c].row = None
               => calls[c].held \/ SlugRace(c)
        /\ calls[c].op = "createFeed" /\ calls[c].answer = "broken"
               => users[calls[c].actor] = None \/ RemoveRace(c)

Changing == \A c \in Requests : calls[c].at = "write" /\ calls[c].op = "change"
                => rows[calls[c].row] = None \/ rows[calls[c].row].table # "podcast"

ApiInv ==
    /\ Tables /\ Changing /\ ProfilesCounted
    /\ AddressInv /\ ProfileInv /\ MissingInv /\ FeedInv /\ LatestSessionWorks

\* What a step of s leaves of a request that has begun
LEMMA Keeps ==
    ASSUME CallsHold, NEW s \in Requests, CallMoves(s), NEW d \in Requests, calls[d].at # "new"
    PROVE  /\ calls'[d].op = calls[d].op /\ calls'[d].key = calls[d].key
           /\ calls'[d].actor = calls[d].actor /\ calls'[d].before = calls[d].before
           /\ calls'[d].held = calls[d].held
           /\ calls[d].target # None => calls'[d].target = calls[d].target
           /\ calls[d].op # "createFeed" => calls'[d].row = calls[d].row
           /\ calls[d].at = "done" => calls'[d] = calls[d]
  <1>1. calls[s].at = "done" => FALSE
    BY DEF CallMoves, Running
  <1> QED
    BY <1>1 DEF CallMoves, OthersStay, Running

LEMMA TablesMove == ASSUME Tables, NEW s \in Requests, Moves(s) PROVE Tables'
  <1>1. CallsHold'
    <2>1. \A c \in Requests : CallHolds(calls[c])'
      BY DEF Tables, CallsHold, Moves, CallMoves, OthersStay, UsersMove, CallHolds
    <2>2. \A c, d \in Requests : d \in calls'[c].before => calls'[d].at = "done"
      BY DEF Tables, CallsHold, Moves, CallMoves, OthersStay, Running, CallHolds
    <2> QED
      BY <2>1, <2>2 DEF CallsHold, Moves, CallMoves
  <1>2. \A u \in Users : profiles'[u] > 0 => u \in made'
    BY DEF Tables, TableTypes, IdsAreMade, CallsHold, CallHolds, Moves, ProfilesMove, UsersMove
  <1>3. IdsAreMade'
    BY <1>2 DEF Moves, UsersMove, RowsMove, IdsAreMade
  <1>4. profiles' \in [Users -> Nat]
    BY DEF Tables, TableTypes, CallsHold, CallHolds, Moves, ProfilesMove
  <1>5. TableTypes'
    BY <1>4 DEF Moves, UsersMove, RowsMove, Tables, TableTypes, WellFormed
  <1> QED
    BY <1>1, <1>3, <1>5 DEF Tables

LEMMA SessionMove == ASSUME ApiInv, NEW s \in Requests, Moves(s) PROVE LatestSessionWorks'
  <1> SUFFICES ASSUME NEW c \in Requests, calls'[c].answer = "ok", calls'[c].token # None,
                      users'[calls'[c].token.user] # None,
                      users'[calls'[c].token.user].token # calls'[c].token
               PROVE  \E d \in Requests \ {c} :
                          /\ calls'[d].answer = "ok" /\ calls'[d].token # None
                          /\ calls'[d].token.user = calls'[c].token.user
                          /\ d \notin calls'[c].before
    BY DEF LatestSessionWorks
  <1> DEFINE u == calls'[c].token.user
  <1>1. c # s
    BY DEF Moves, CallHolds, Finds
  <1>2. calls'[c] = calls[c]
    BY <1>1 DEF Moves, CallMoves, OthersStay
  <1>3. u \in made \cap Users
    BY <1>2 DEF ApiInv, Tables, CallsHold, CallHolds
  <1>4. users[u] # None
    BY <1>3 DEF Moves, UsersMove
  <1>5. calls[s].answer = None /\ s \notin calls[c].before
    BY ValueAssumption DEF ApiInv, Tables, CallsHold, CallHolds, Moves, CallMoves, Running
  <1>6. CASE users[u].token # calls[c].token
    <2>1. PICK d \in Requests \ {c} : /\ calls[d].answer = "ok" /\ calls[d].token # None
                                      /\ calls[d].token.user = u /\ d \notin calls[c].before
      BY <1>2, <1>4, <1>6 DEF ApiInv, LatestSessionWorks
    <2>2. d # s
      BY <1>5, <2>1, ValueAssumption DEF Answers
    <2> QED
      BY <1>2, <2>1, <2>2 DEF Moves, CallMoves, OthersStay
  <1>7. CASE users[u].token = calls[c].token
    <2>1. /\ calls[s].at = "store" /\ calls[s].target = u /\ calls'[s].answer = "ok"
          /\ calls'[s].token = calls[s].token
      BY <1>2, <1>3, <1>7 DEF Moves, UsersMove
    <2>2. calls'[s].token # None /\ calls'[s].token.user = u
      BY <2>1 DEF ApiInv, Tables, CallsHold, CallHolds
    <2> QED
      BY <1>1, <1>2, <1>5, <2>1, <2>2
  <1> QED
    BY <1>6, <1>7

LEMMA AddressMove == ASSUME ApiInv, NEW s \in Requests, Moves(s) PROVE AddressInv'
  <1> SUFFICES ASSUME NEW c \in Requests, calls'[c].op = "register",
                      \/ calls'[c].at = "create" /\ HasEmail(calls[c].key)'
                      \/ calls'[c].answer = "taken"
               PROVE  AddressRace(c)'
    BY DEF AddressInv
  <1>1. CallsHold /\ CallMoves(s) /\ UsersMove(s) /\ Finds(s) /\ CallsHold'
    BY TablesMove DEF ApiInv, Tables, Moves
  <1>2. ASSUME AddressRace(c), calls[c].at # "new" PROVE AddressRace(c)'
    <2>1. PICK d \in Requests : /\ Overlap(c, d) /\ calls[d].key = calls[c].key
                                /\ calls[d].op \in {"register", "createUser", "updateUser"}
      BY <1>2 DEF AddressRace
    <2>2. Overlap(c, d)' /\ calls[d].at # "new"
      BY <1>1, <2>1, OverlapStays DEF Overlap
    <2> QED
      BY <1>1, <1>2, <2>1, <2>2, Keeps DEF AddressRace
  <1>3. CASE c = s
    <2>1. calls[c].at = "create" /\ HasEmail(calls[c].key)
      <3>1. CASE calls'[c].at = "create"
        <4>1. calls[s].at = "new" /\ ~\E u \in Users : users[u] # None /\ users[u].email = calls'[s].key
          BY <1>1, <1>3, <3>1 DEF Finds, HasEmail
        <4>2. PICK u \in Users : users'[u] # None /\ users'[u].email = calls'[s].key
          BY <1>1, <1>3, <3>1, ValueAssumption DEF HasEmail, CallsHold, CallHolds, Answers
        <4> QED
          BY <1>1, <4>1, <4>2 DEF UsersMove
      <3>2. CASE calls'[c].at # "create"
        BY <1>1, <1>3, <3>2 DEF Finds
      <3> QED
        BY <3>1, <3>2
    <2>2. calls[c].op = "register"
      BY <1>1, <1>3, <2>1 DEF CallMoves, Running
    <2> QED
      BY <1>2, <2>1, <2>2 DEF ApiInv, AddressInv
  <1>4. CASE c # s
    <2>1. calls'[c] = calls[c] /\ calls[c].at # "new"
      BY <1>1, <1>4, ValueAssumption DEF CallMoves, OthersStay, CallsHold, CallHolds, Ops
    <2>2. CASE AddressRace(c)
      BY <1>2, <2>1, <2>2
    <2>3. CASE ~AddressRace(c)
      <3>1. calls[c].at = "create" /\ HasEmail(calls[c].key)' /\ ~HasEmail(calls[c].key)
        BY <2>1, <2>3 DEF ApiInv, AddressInv
      <3>2. PICK u \in Users : users'[u] # None /\ users'[u].email = calls[c].key
        BY <2>1, <3>1 DEF HasEmail
      <3>3. calls[s].at \in {"create", "update"} /\ calls[s].key = calls[c].key
        BY <1>1, <3>1, <3>2 DEF UsersMove, HasEmail
      <3>4. calls[s].op \in {"register", "createUser", "updateUser"}
        BY <1>1, <3>3 DEF CallsHold, CallHolds
      <3>5. Overlap(c, s)
        BY <1>1, <1>4, <3>1, <3>3, Beside DEF Running
      <3> QED
        BY <2>3, <3>3, <3>4, <3>5 DEF AddressRace
    <2> QED
      BY <2>2, <2>3
  <1> QED
    BY <1>3, <1>4

LEMMA ProfileMove == ASSUME ApiInv, NEW s \in Requests, Moves(s) PROVE ProfileInv'
  <1>1. /\ CallsHold /\ CallMoves(s) /\ ProfilesMove(s) /\ UsersMove(s) /\ Finds(s)
        /\ TableTypes /\ IdsAreMade
    BY DEF ApiInv, Tables, Moves
  <1>2. ASSUME NEW c \in Requests, NEW d \in Requests, NEW u \in Users,
               Overlap(c, d), MakesProfile(d, u)
        PROVE  Overlap(c, d)' /\ MakesProfile(d, u)'
    <2>1. Overlap(c, d)' /\ calls[d].at # "new"
      BY <1>1, <1>2, OverlapStays DEF Overlap
    <2>2. calls[d].target # None
      BY <1>2, IdAssumption DEF MakesProfile
    <2> QED
      BY <1>1, <1>2, <2>1, <2>2, Keeps DEF MakesProfile
  <1>3. ASSUME NEW c \in Requests, calls'[c].at = "profile", profiles'[calls'[c].target] > 0
        PROVE  \E d \in Requests : Overlap(c, d)' /\ MakesProfile(d, calls[c].target)'
    <2>1. CASE c = s
      <3>1. profiles' = profiles
        BY <1>1, <1>3, <2>1 DEF ProfilesMove
      <3>2. calls'[c].target \in Users
        BY <1>3, TablesMove DEF ApiInv, Tables, CallsHold, CallHolds
      <3> QED
        BY <1>1, <1>3, <2>1, <3>1, <3>2 DEF Finds, IdsAreMade, TableTypes
    <2>2. CASE c # s
      <3>1. calls'[c] = calls[c] /\ calls[c].at = "profile" /\ calls[c].target \in Users
        BY <1>1, <1>3, <2>2 DEF CallMoves, OthersStay, CallsHold, CallHolds
      <3>2. CASE profiles[calls[c].target] > 0
        <4>1. PICK d \in Requests : Overlap(c, d) /\ MakesProfile(d, calls[c].target)
          BY <3>1, <3>2 DEF ApiInv, ProfileInv
        <4>2. Overlap(c, d)' /\ (calls'[d].target = calls[c].target
                                 /\ calls'[d].op \in {"register", "createUser", "updateProfile"})
          BY <1>2, <3>1, <4>1 DEF MakesProfile
        <4> QED
          BY <3>1, <4>2 DEF MakesProfile
      <3>3. CASE ~(profiles[calls[c].target] > 0)
        <4>1. calls[s].at = "profile" /\ calls[s].target = calls[c].target
          BY <1>1, <1>3, <3>1, <3>3 DEF ProfilesMove, TableTypes
        <4>2. Overlap(c, s) /\ MakesProfile(s, calls[c].target)
          BY <1>1, <2>2, <3>1, <4>1, Beside DEF Running, MakesProfile, CallsHold, CallHolds
        <4>3. Overlap(c, s)' /\ (calls'[s].target = calls[c].target
                                 /\ calls'[s].op \in {"register", "createUser", "updateProfile"})
          BY <1>2, <3>1, <4>2 DEF MakesProfile
        <4> QED
          BY <3>1, <4>3 DEF MakesProfile
      <3> QED
        BY <3>2, <3>3
    <2> QED
      BY <2>1, <2>2
  <1>4. ASSUME NEW u \in Users, profiles'[u] > 1
        PROVE  \E c, d \in Requests : Overlap(c, d)' /\ MakesProfile(c, u)' /\ MakesProfile(d, u)'
    <2>1. \E c, d \in Requests : Overlap(c, d) /\ MakesProfile(c, u) /\ MakesProfile(d, u)
      <3>1. CASE profiles[u] > 1
        BY <3>1 DEF ApiInv, ProfileInv
      <3>2. CASE ~(profiles[u] > 1)
        <4>1. calls[s].at = "profile" /\ calls[s].target = u /\ profiles[u] > 0
          BY <1>1, <1>4, <3>2 DEF ProfilesMove, TableTypes, CallsHold, CallHolds
        <4>2. PICK d \in Requests : Overlap(s, d) /\ MakesProfile(d, u)
          BY <4>1 DEF ApiInv, ProfileInv
        <4>3. MakesProfile(s, u)
          BY <1>1, <4>1 DEF MakesProfile, CallsHold, CallHolds
        <4> QED
          BY <4>2, <4>3
      <3> QED
        BY <3>1, <3>2
    <2>2. PICK c \in Requests, d \in Requests : Overlap(c, d) /\ MakesProfile(c, u) /\ MakesProfile(d, u)
      BY <2>1
    <2>3. Overlap(d, c)
      BY <2>2 DEF Overlap
    <2> QED
      BY <1>2, <2>2, <2>3
  <1> QED
    BY <1>3, <1>4 DEF ProfileInv

LEMMA CountMove == ASSUME ApiInv, NEW s \in Requests, Moves(s) PROVE ProfilesCounted'
  <1>1. /\ CallMoves(s) /\ ProfilesMove(s) /\ Finds(s) /\ TableTypes /\ CallsHold
    BY DEF ApiInv, Tables, Moves
  <1>2. Making' \subseteq Making
    BY <1>1 DEF CallMoves, OthersStay, Finds, Making, Running, CallsHold
  <1>3. IsFiniteSet(Making) /\ IsFiniteSet(Making') /\ Making \subseteq Requests
    BY <1>2, ValueAssumption, FS_Subset DEF Making
  <1>4. /\ Cardinality(Making) \in Nat /\ Cardinality(Making') \in Nat
        /\ Cardinality(Requests) \in Nat /\ Cardinality(Making') <= Cardinality(Making)
    BY <1>2, <1>3, ValueAssumption, FS_Subset, FS_CardinalityType
  <1>5. CASE profiles' = profiles
    BY <1>1, <1>4, <1>5 DEF ApiInv, ProfilesCounted, TableTypes
  <1>6. CASE profiles' # profiles
    <2>1. /\ calls[s].at = "profile" /\ calls'[s].at # "profile"
          /\ profiles' = [profiles EXCEPT ![calls[s].target] = profiles[calls[s].target] + 1]
      BY <1>1, <1>6 DEF ProfilesMove
    <2>2. s \in Making /\ s \notin Making'
      BY <1>1, <2>1 DEF Making, CallMoves, Finds
    <2>3. IsFiniteSet(Making \ {s}) /\ Cardinality(Making \ {s}) = Cardinality(Making) - 1
      BY <1>3, <2>2, FS_RemoveElement
    <2>4. Cardinality(Making') <= Cardinality(Making) - 1
      BY <1>2, <2>2, <2>3, FS_Subset
    <2> QED
      BY <1>1, <1>4, <2>1, <2>4 DEF ApiInv, ProfilesCounted, TableTypes
  <1> QED
    BY <1>5, <1>6

LEMMA MissingMove == ASSUME ApiInv, NEW s \in Requests, Moves(s) PROVE MissingInv'
  <1> SUFFICES ASSUME NEW c \in Requests,
                      \/ calls'[c].at = "write" /\ rows'[calls'[c].row] = None
                      \/ calls'[c].op \in {"change", "remove"} /\ calls'[c].answer = "missing"
               PROVE  \E d \in Requests : /\ Overlap(c, d)' /\ calls'[d].op = "remove"
                                          /\ calls'[d].row = calls'[c].row /\ calls'[d].answer = "ok"
    BY DEF MissingInv
  <1>1. /\ CallsHold /\ CallMoves(s) /\ RowsMove(s) /\ Finds(s) /\ CallsHold'
    BY TablesMove DEF ApiInv, Tables, Moves
  <1>2. ASSUME NEW d \in Requests, Overlap(c, d), calls[d].op = "remove", calls[d].answer = "ok",
               calls[d].row = calls[c].row, calls[c].at # "new", calls[c].op # "createFeed"
        PROVE  /\ Overlap(c, d)' /\ calls'[d].op = "remove"
               /\ calls'[d].row = calls'[c].row /\ calls'[d].answer = "ok"
    <2>1. Overlap(c, d)'
      BY <1>1, <1>2, OverlapStays
    <2>2. calls[d].at = "done"
      BY <1>1, <1>2, ValueAssumption DEF CallsHold, CallHolds, Answers
    <2> QED
      BY <1>1, <1>2, <2>1, <2>2, Keeps
  <1>3. calls[c].at # "new" /\ calls[c].op \in {"change", "remove"}
        /\ \/ calls[c].at = "write" /\ rows'[calls[c].row] = None
           \/ calls[c].answer = "missing"
    <2>1. CASE c = s
      <3>1. CASE calls'[c].at = "write" /\ rows'[calls'[c].row] = None
        <4>1. calls[s].at = "new" /\ rows[calls'[s].row] # None /\ calls'[s].row \in Rows
          BY <1>1, <2>1, <3>1 DEF Finds, CallsHold, CallHolds
        <4> QED
          BY <1>1, <2>1, <3>1, <4>1 DEF RowsMove
      <3>2. CASE calls'[c].op \in {"change", "remove"} /\ calls'[c].answer = "missing"
        <4>1. calls[s].at = "write" /\ rows[calls[s].row] = None /\ calls[s].row \in made \cap Rows
          BY <1>1, <2>1, <3>2 DEF Finds, CallsHold, CallHolds
        <4> QED
          BY <1>1, <2>1, <4>1 DEF RowsMove, CallsHold, CallHolds
      <3> QED
        BY <3>1, <3>2
    <2>2. CASE c # s
      BY <1>1, <2>2, ValueAssumption DEF CallMoves, OthersStay, CallsHold, CallHolds, Answers
    <2> QED
      BY <2>1, <2>2
  <1>4. CASE \/ calls[c].at = "write" /\ rows[calls[c].row] = None
             \/ calls[c].answer = "missing"
    <2>1. PICK d \in Requests : /\ Overlap(c, d) /\ calls[d].op = "remove"
                                /\ calls[d].row = calls[c].row /\ calls[d].answer = "ok"
      BY <1>3, <1>4 DEF ApiInv, MissingInv
    <2> QED
      BY <1>2, <1>3, <2>1
  <1>5. CASE calls[c].at = "write" /\ rows[calls[c].row] # None /\ calls[c].answer # "missing"
    <2>1. calls[c].row \in Rows
      BY <1>1, <1>5 DEF CallsHold, CallHolds
    <2>2. /\ calls[s].at = "write" /\ calls[s].op = "remove" /\ calls[s].row = calls[c].row
          /\ calls'[s].answer = "ok"
      BY <1>1, <1>3, <1>5, <2>1 DEF RowsMove
    <2>3. c # s
      BY <1>1, <2>2, <1>5, ValueAssumption DEF CallMoves, Finds, CallsHold, CallHolds, Running, Answers
    <2>4. Overlap(c, s)'
      BY <1>1, <1>5, <2>2, <2>3, Beside, OverlapStays DEF Running
    <2>5. /\ calls'[s].op = "remove" /\ calls'[s].row = calls[c].row
          /\ calls'[c].row = calls[c].row
      BY <1>1, <1>3, <2>2, Keeps
    <2> QED
      BY <2>2, <2>4, <2>5
  <1> QED
    BY <1>3, <1>4, <1>5

LEMMA ChangingMove == ASSUME ApiInv, NEW s \in Requests, Moves(s) PROVE Changing'
  <1> SUFFICES ASSUME NEW c \in Requests, calls'[c].at = "write", calls'[c].op = "change",
                      rows'[calls'[c].row] # None
               PROVE  rows'[calls'[c].row].table # "podcast"
    BY DEF Changing
  <1>1. CallsHold /\ CallMoves(s) /\ RowsMove(s) /\ Finds(s) /\ CallsHold' /\ IdsAreMade
    BY TablesMove DEF ApiInv, Tables, Moves
  <1>2. CASE c = s
    BY <1>1, <1>2 DEF Finds, RowsMove, CallsHold, CallHolds
  <1>3. CASE c # s
    BY <1>1, <1>3 DEF ApiInv, Changing, CallMoves, OthersStay, RowsMove, CallsHold, CallHolds
  <1> QED
    BY <1>2, <1>3

\* A URL and a slug that are new in the tables were put there by the step.
LEMMA NewUrl ==
    ASSUME ApiInv, NEW s \in Requests, Moves(s), NEW url, KnownUrl(url)', ~KnownUrl(url)
    PROVE  calls[s].at = "podcast" /\ calls[s].key = url
  <1>1. RowsMove(s)
    BY DEF Moves
  <1>2. PICK r \in Rows : rows'[r] # None /\ rows'[r].table = "podcast" /\ rows'[r].key = url
    BY DEF KnownUrl
  <1>3. rows[r] # None => rows'[r].key # rows[r].key
    BY <1>1, <1>2 DEF RowsMove, KnownUrl
  <1> QED
    BY <1>1, <1>2, <1>3 DEF RowsMove

LEMMA NewSlug ==
    ASSUME ApiInv, NEW s \in Requests, Moves(s), NEW u \in Users, NEW r \in Rows,
           rows'[r] # None, rows'[r].table = "channel", rows'[r].key = Imported(u),
           ~(rows[r] # None /\ rows[r].table = "channel" /\ rows[r].key = Imported(u))
    PROVE  \/ calls[s].at = "newChannel" /\ calls[s].actor = u
           \/ /\ calls'[s].op \in {"create", "change"} /\ calls'[s].answer = "ok"
              /\ calls'[s].key = Imported(u)
  <1>1. RowsMove(s)
    BY DEF Moves
  <1>2. rows[r] # None => rows'[r].key # rows[r].key
    BY <1>1 DEF RowsMove
  <1>3. \/ calls[s].at = "newChannel" /\ Imported(u) = Imported(calls[s].actor)
        \/ /\ calls'[s].op \in {"create", "change"} /\ calls'[s].answer = "ok"
           /\ calls'[s].key = Imported(u)
    BY <1>1, <1>2 DEF RowsMove
  <1> QED
    BY <1>3 DEF Imported

LEMMA FeedMove == ASSUME ApiInv, NEW s \in Requests, Moves(s) PROVE FeedInv'
  <1>1. /\ CallsHold /\ CallMoves(s) /\ UsersMove(s) /\ RowsMove(s) /\ Finds(s) /\ CallsHold'
        /\ IdsAreMade
    BY TablesMove DEF ApiInv, Tables, Moves
  <1>2. ASSUME NEW c \in Requests, calls[c].at # "new", UrlRace(c) PROVE UrlRace(c)'
    <2>1. PICK d \in Requests : /\ Overlap(c, d) /\ calls[d].op = "createFeed"
                                /\ calls[d].key = calls[c].key
      BY <1>2 DEF UrlRace
    <2>2. Overlap(c, d)' /\ calls[d].at # "new"
      BY <1>1, <2>1, OverlapStays DEF Overlap
    <2> QED
      BY <1>1, <1>2, <2>1, <2>2, Keeps DEF UrlRace
  <1>12. ASSUME NEW c \in Requests, calls[c].at # "new", SlugRace(c) PROVE SlugRace(c)'
    <2>1. PICK d \in Requests : Overlap(c, d) /\ TakesSlug(d, calls[c].actor)
      BY <1>12 DEF SlugRace
    <2>2. Overlap(c, d)' /\ calls[d].at # "new" /\ calls'[c].actor = calls[c].actor
      BY <1>1, <1>12, <2>1, OverlapStays, Keeps DEF Overlap
    <2>3. calls[d].answer = "ok" => calls'[d] = calls[d]
      BY <1>1, <2>2, Keeps, ValueAssumption DEF CallsHold, CallHolds, Answers
    <2>4. TakesSlug(d, calls[c].actor)'
      BY <1>1, <2>1, <2>2, <2>3, Keeps DEF TakesSlug
    <2> QED
      BY <2>2, <2>4 DEF SlugRace
  <1>3. ASSUME NEW c \in Requests, calls[c].at # "new", RemoveRace(c) PROVE RemoveRace(c)'
    <2>1. PICK d \in Requests : Overlap(c, d) /\ calls[d].op = "remove"
      BY <1>3 DEF RemoveRace
    <2>2. Overlap(c, d)' /\ calls[d].at # "new"
      BY <1>1, <2>1, OverlapStays DEF Overlap
    <2> QED
      BY <1>1, <2>1, <2>2, Keeps DEF RemoveRace
  <1> DEFINE Seeking(c) == calls[c].at \in {"channel", "newChannel", "podcast"}
  <1>4. ASSUME NEW c \in Requests, Seeking(c)
        PROVE  calls[c].op = "createFeed" /\ Running(c) /\ calls[c].actor \in Users \cap made
    BY <1>1, <1>4 DEF CallsHold, CallHolds, Running
  <1>5. ASSUME NEW c \in Requests, Seeking(c)', ~Seeking(c)
        PROVE  c = s /\ calls[c].at = "new" /\ calls'[c].at = "channel" /\ ~KnownUrl(calls'[c].key)
    BY <1>1, <1>5 DEF CallMoves, OthersStay, Finds
  <1>13. ASSUME NEW c \in Requests, Seeking(c), c # s,
                \/ calls[s].at = "newChannel" /\ calls[s].actor = calls[c].actor
                \/ /\ calls'[s].op \in {"create", "change"} /\ calls'[s].answer = "ok"
                   /\ calls'[s].key = Imported(calls[c].actor)
         PROVE  SlugRace(c)'
    <2>1. Running(c) /\ calls'[c] = calls[c]
      BY <1>1, <1>4, <1>13 DEF CallMoves, OthersStay
    <2>2. Overlap(c, s)'
      BY <1>1, <1>13, <2>1 DEF Overlap, Running, CallMoves, CallsHold
    <2>3. TakesSlug(s, calls[c].actor)'
      <3>1. CASE calls[s].at = "newChannel" /\ calls[s].actor = calls[c].actor
        <4>1. calls[s].op = "createFeed"
          BY <1>4, <3>1
        <4> QED
          BY <1>1, <2>1, <3>1, <4>1, Keeps DEF TakesSlug
      <3> QED
        BY <1>13, <2>1, <3>1 DEF TakesSlug
    <2> QED
      BY <2>2, <2>3 DEF SlugRace
  <1>6. ASSUME NEW c \in Requests, Seeking(c)', KnownUrl(calls[c].key)' PROVE UrlRace(c)'
    <2> DEFINE url == calls'[c].key
    <2>0. \E r \in Rows : rows'[r] # None /\ rows'[r].table = "podcast" /\ rows'[r].key = url
      BY <1>6 DEF KnownUrl
    <2>1. CASE Seeking(c)
      <3>1. calls[c].key = url
        BY <1>1, <2>1, Keeps
      <3>2. CASE KnownUrl(url)
        BY <1>2, <2>1, <3>1, <3>2 DEF ApiInv, FeedInv, KnownUrl
      <3>3. CASE ~KnownUrl(url)
        <4> HIDE DEF url
        <4>1. calls[s].at = "podcast" /\ calls[s].key = url
          BY <2>0, <3>3, NewUrl DEF KnownUrl
        <4>2. c # s
          BY <1>1, <1>6, <4>1 DEF Finds
        <4>3. Overlap(c, s) /\ calls[s].op = "createFeed"
          BY <1>1, <1>4, <2>1, <4>1, <4>2, Beside
        <4> QED
          BY <1>2, <2>1, <3>1, <4>1, <4>3 DEF UrlRace
      <3> QED
        BY <3>2, <3>3
    <2>2. CASE ~Seeking(c)
      <3>1. c = s /\ calls[s].at = "new"
        BY <1>5, <1>6, <2>2
      <3>2. ~\E r \in Rows : rows[r] # None /\ rows[r].table = "podcast" /\ rows[r].key = url
        BY <1>5, <1>6, <2>2 DEF KnownUrl
      <3> HIDE DEF url
      <3>3. calls[s].at = "podcast"
        BY <2>0, <3>2, NewUrl DEF KnownUrl
      <3> QED
        BY <3>1, <3>3
    <2> QED
      BY <2>1, <2>2
  <1>14. ASSUME NEW c \in Requests, calls'[c].at \in {"channel", "newChannel"}, NEW r \in Rows,
                OthersChannel(rows'[r], calls'[c].actor)
         PROVE  calls'[c].held \/ SlugRace(c)'
    <2>1. CASE calls[c].at \in {"channel", "newChannel"}
      <3> DEFINE u == calls[c].actor
      <3>1. /\ Seeking(c) /\ u \in Users /\ calls'[c].actor = u /\ calls'[c].held = calls[c].held
        BY <1>1, <1>4, <2>1, Keeps
      <3>2. CASE OthersChannel(rows[r], u)
        <4>1. calls[c].held \/ SlugRace(c)
          BY <2>1, <3>2 DEF ApiInv, FeedInv
        <4> QED
          BY <1>12, <2>1, <3>1, <4>1
      <3>3. CASE ~OthersChannel(rows[r], u)
        <4>1. /\ rows'[r] # None /\ rows'[r].table = "channel" /\ rows'[r].key = Imported(u)
              /\ rows'[r].owner # u
          BY <1>14, <3>1 DEF OthersChannel
        <4>2. ~(rows[r] # None /\ rows[r].table = "channel" /\ rows[r].key = Imported(u))
          BY <1>1, <3>3, <4>1 DEF OthersChannel, RowsMove
        <4>3. \/ calls[s].at = "newChannel" /\ calls[s].actor = u
              \/ /\ calls'[s].op \in {"create", "change"} /\ calls'[s].answer = "ok"
                 /\ calls'[s].key = Imported(u)
          BY <3>1, <4>1, <4>2, NewSlug
        <4>4. c # s
          <5>1. calls'[c].op = "createFeed"
            BY <1>1, <1>4, <3>1, Keeps
          <5> QED
            BY <1>1, <1>14, <4>3, <5>1 DEF Finds
        <4> QED
          BY <1>13, <3>1, <4>3, <4>4
      <3> QED
        BY <3>2, <3>3
    <2>2. CASE calls[c].at \notin {"channel", "newChannel"}
      <3>1. c = s /\ calls'[c].at = "channel"
        BY <1>1, <1>14, <2>2 DEF CallMoves, OthersStay, Finds
      <3> QED
        BY <1>1, <1>14, <3>1 DEF Finds
    <2> QED
      BY <2>1, <2>2
  <1>7. ASSUME NEW c \in Requests, calls'[c].at = "newChannel", KnownSlug(Imported(calls[c].actor))'
        PROVE  calls'[c].held \/ SlugRace(c)'
    <2> DEFINE u == calls'[c].actor
    <2>1. Seeking(c) /\ calls[c].actor = u /\ u \in Users /\ calls'[c].held = calls[c].held
      <3>1. Seeking(c)
        BY <1>1, <1>7 DEF CallMoves, OthersStay, Finds
      <3>2. calls[c].actor = u /\ calls'[c].held = calls[c].held
        BY <1>1, <3>1, Keeps
      <3> QED
        BY <1>4, <3>1, <3>2
    <2>2. PICK r \in Rows : rows'[r] # None /\ rows'[r].table = "channel" /\ rows'[r].key = Imported(u)
      BY <1>7 DEF KnownSlug, Imported
    <2>3. CASE calls[c].at = "newChannel" /\ KnownSlug(Imported(u))
      <3>1. calls[c].held \/ SlugRace(c)
        BY <2>1, <2>3 DEF ApiInv, FeedInv, KnownSlug, Imported
      <3> QED
        BY <1>12, <2>1, <3>1
    <2>4. CASE calls[c].at # "newChannel"
      <3>1. c = s
        BY <1>1, <1>7, <2>4 DEF CallMoves, OthersStay
      <3>2. OthersChannel(rows'[r], u)
        BY <1>1, <1>7, <2>2, <3>1 DEF Finds, OthersChannel
      <3> QED
        BY <1>7, <1>14, <3>2
    <2>5. CASE calls[c].at = "newChannel" /\ ~KnownSlug(Imported(u))
      <3>1. c # s
        BY <1>1, <1>7, <2>5 DEF Finds
      <3>2. ~(rows[r] # None /\ rows[r].table = "channel" /\ rows[r].key = Imported(u))
        BY <2>5 DEF KnownSlug
      <3> HIDE DEF u
      <3>3. \/ calls[s].at = "newChannel" /\ calls[s].actor = u
            \/ /\ calls'[s].op \in {"create", "change"} /\ calls'[s].answer = "ok"
               /\ calls'[s].key = Imported(u)
        BY <2>1, <2>2, <3>2, NewSlug
      <3> QED
        BY <1>13, <2>1, <3>1, <3>3
    <2> QED
      BY <2>3, <2>4, <2>5
  <1>8. ASSUME NEW c \in Requests, calls'[c].at = "podcast", rows'[calls'[c].row] = None
        PROVE  RemoveRace(c)'
    <2>1. c # s
      BY <1>1, <1>8 DEF Finds
    <2>2. calls'[c] = calls[c] /\ calls[c].row \in Rows /\ Seeking(c)
      BY <1>1, <1>8, <2>1 DEF CallMoves, OthersStay, CallsHold, CallHolds
    <2>3. CASE rows[calls[c].row] = None
      BY <1>3, <1>8, <2>2, <2>3 DEF ApiInv, FeedInv
    <2>4. CASE rows[calls[c].row] # None
      <3>1. calls[s].at = "write" /\ calls[s].op = "remove"
        BY <1>1, <1>8, <2>2, <2>4 DEF RowsMove
      <3>2. Overlap(c, s)
        BY <1>1, <1>4, <2>1, <2>2, <3>1, Beside DEF Running
      <3> QED
        BY <1>3, <2>2, <3>1, <3>2 DEF RemoveRace
    <2> QED
      BY <2>3, <2>4
  <1>9. ASSUME NEW c \in Requests, calls'[c].at = "podcast", rows'[calls'[c].row] # None
        PROVE  rows'[calls'[c].row].table = "channel"
    <2>1. CASE c = s
      BY <1>1, <1>9, <2>1 DEF Finds
    <2>2. CASE c # s
      BY <1>1, <1>9, <2>2 DEF CallMoves, OthersStay, CallsHold, CallHolds, RowsMove, ApiInv, FeedInv
    <2> QED
      BY <2>1, <2>2
  <1>10. ASSUME NEW c \in Requests, calls'[c].op = "createFeed", calls'[c].answer = "taken"
         PROVE  /\ calls'[c].row # None => UrlRace(c)'
                /\ calls'[c].row = None => calls'[c].held \/ SlugRace(c)'
    <2>1. CASE c = s
      <3>1. Seeking(c)
        BY <1>1, <1>10, <2>1 DEF Finds
      <3>2. /\ calls'[c].row # None => UrlRace(c)
            /\ calls'[c].row = None => calls[c].held \/ SlugRace(c)
        BY <1>1, <1>10, <2>1 DEF Finds, ApiInv, FeedInv
      <3>3. calls'[c].held = calls[c].held
        BY <1>1, <3>1, Keeps
      <3> QED
        BY <1>2, <1>12, <3>1, <3>2, <3>3
    <2>2. CASE c # s
      <3>1. calls'[c] = calls[c] /\ calls[c].at # "new"
        BY <1>1, <1>10, <2>2, ValueAssumption DEF CallMoves, OthersStay, CallsHold, CallHolds, Ops
      <3> QED
        BY <1>2, <1>10, <1>12, <3>1 DEF ApiInv, FeedInv
    <2> QED
      BY <2>1, <2>2
  <1>11. ASSUME NEW c \in Requests, calls'[c].op = "createFeed", calls'[c].answer = "broken"
         PROVE  users'[calls'[c].actor] = None \/ RemoveRace(c)'
    <2>1. CASE c = s
      <3>1. Seeking(c) /\ calls'[c].actor = calls[c].actor
        <4>1. Seeking(c)
          BY <1>1, <1>11, <2>1 DEF Finds
        <4> QED
          BY <1>1, <4>1, Keeps
      <3>2. users[calls[c].actor] = None \/ RemoveRace(c)
        BY <1>1, <1>11, <2>1 DEF Finds, ApiInv, FeedInv
      <3> QED
        BY <1>1, <1>3, <1>4, <3>1, <3>2 DEF UsersMove
    <2>2. CASE c # s
      <3>1. calls'[c] = calls[c] /\ calls[c].at # "new" /\ calls[c].actor \in Users \cap made
        BY <1>1, <1>11, <2>2, ValueAssumption DEF CallMoves, OthersStay, CallsHold, CallHolds, Ops
      <3>2. users[calls[c].actor] = None \/ RemoveRace(c)
        BY <1>11, <3>1 DEF ApiInv, FeedInv
      <3> QED
        BY <1>1, <1>3, <3>1, <3>2 DEF UsersMove
    <2> QED
      BY <2>1, <2>2
  <1> QED
    BY <1>6, <1>7, <1>8, <1>9, <1>10, <1>11, <1>14 DEF FeedInv

LEMMA InvMoves == ASSUME ApiInv, NEW s \in Requests, Moves(s) PROVE ApiInv'
  BY TablesMove, ChangingMove, CountMove, AddressMove, ProfileMove, MissingMove, FeedMove, SessionMove
  DEF ApiInv

\* x asks what y asks, wherever each is.
AsksAs(x, y) ==
    /\ x.op = y.op /\ x.actor = y.actor /\ x.target = y.target /\ x.key = y.key
    /\ x.secret = y.secret /\ x.row = y.row /\ x.read = y.read /\ x.held = y.held
    /\ x.before = y.before

\* The record of a request that begins
Fresh(request) ==
    /\ request \in Call /\ request.at = "done" /\ request.token = None /\ request.answer = None
    /\ request.before = {d \in Requests : calls[d].at = "done"}

LEMMA BeginsMoves ==
    ASSUME CallsHold, NEW c \in Requests, calls[c].at = "new", NEW request, Fresh(request),
           NEW at \in Places \ {"new"}, Begins(c, request, at)
    PROVE  /\ CallMoves(c) /\ AsksAs(calls'[c], request)
           /\ calls'[c].at = at /\ calls'[c].token = None /\ calls'[c].answer = None
  <1> DEFINE new == [request EXCEPT !.at = at]
  <1>1. /\ new \in Call /\ AsksAs(new, request) /\ new.at = at
        /\ new.token = None /\ new.answer = None
        /\ new.before = {d \in Requests : calls[d].at = "done"}
    BY DEF Fresh, Call, AsksAs
  <1>2. calls' = [calls EXCEPT ![c] = new]
    BY DEF Begins
  <1> HIDE DEF new
  <1> QED
    BY <1>1, <1>2 DEF CallsHold, CallMoves, OthersStay

LEMMA RefusedMoves ==
    ASSUME CallsHold, NEW c \in Requests, calls[c].at = "new", NEW request, Fresh(request),
           NEW answer \in Answers, Refused(c, request, answer)
    PROVE  /\ CallMoves(c) /\ AsksAs(calls'[c], request)
           /\ calls'[c].at = "done" /\ calls'[c].token = None /\ calls'[c].answer = answer
  <1> DEFINE new == [request EXCEPT !.answer = answer]
  <1>1. /\ new \in Call /\ AsksAs(new, request) /\ new.at = "done"
        /\ new.token = None /\ new.answer = answer
        /\ new.before = {d \in Requests : calls[d].at = "done"}
    BY DEF Fresh, Call, AsksAs
  <1>2. calls' = [calls EXCEPT ![c] = new]
    BY DEF Refused
  <1> HIDE DEF new
  <1> QED
    BY <1>1, <1>2 DEF CallsHold, CallMoves, OthersStay

LEMMA GoesMoves ==
    ASSUME CallsHold, NEW c \in Requests, Running(c), NEW at \in Places \ {"new"}, Goes(c, at)
    PROVE  /\ CallMoves(c) /\ AsksAs(calls'[c], calls[c])
           /\ calls'[c].at = at /\ calls'[c].token = calls[c].token
           /\ calls'[c].answer = calls[c].answer
  <1> DEFINE new == [calls[c] EXCEPT !.at = at]
  <1>0. calls[c] \in Call
    BY DEF CallsHold
  <1>1. /\ new \in Call /\ AsksAs(new, calls[c]) /\ new.at = at
        /\ new.token = calls[c].token /\ new.answer = calls[c].answer
    BY <1>0 DEF Call, AsksAs
  <1>2. calls' = [calls EXCEPT ![c] = new]
    BY DEF Goes
  <1> HIDE DEF new
  <1> QED
    BY <1>1, <1>2 DEF CallsHold, CallMoves, OthersStay, AsksAs

LEMMA EndsMoves ==
    ASSUME CallsHold, NEW c \in Requests, Running(c), NEW answer \in Answers, Ends(c, answer)
    PROVE  /\ CallMoves(c) /\ AsksAs(calls'[c], calls[c])
           /\ calls'[c].at = "done" /\ calls'[c].token = calls[c].token
           /\ calls'[c].answer = answer
  <1> DEFINE new == [calls[c] EXCEPT !.at = "done", !.answer = answer]
  <1>0. calls[c] \in Call
    BY DEF CallsHold
  <1>1. /\ new \in Call /\ AsksAs(new, calls[c]) /\ new.at = "done"
        /\ new.token = calls[c].token /\ new.answer = answer
    <2>1. new \in Call
      BY <1>0, ZenonT(40) DEF Call, Places
    <2>2. /\ AsksAs(new, calls[c]) /\ new.at = "done"
          /\ new.token = calls[c].token /\ new.answer = answer
      BY <1>0 DEF Call, AsksAs
    <2> QED
      BY <2>1, <2>2
  <1>2. calls' = [calls EXCEPT ![c] = new]
    BY DEF Ends
  <1> HIDE DEF new
  <1> QED
    BY <1>1, <1>2 DEF CallsHold, CallMoves, OthersStay, AsksAs

\* A request whose step leaves the tables alone
LEMMA TablesStay ==
    ASSUME Tables, NEW c \in Requests, onlyCalls
    PROVE  /\ UsersMove(c) /\ ProfilesMove(c) /\ RowsMove(c)
           /\ second' = second
  BY DEF onlyCalls, Tables, TableTypes, IdsAreMade, UsersMove, ProfilesMove, RowsMove, WellFormed

LEMMA RegisterMoves == ASSUME Tables, NEW c \in Requests, Register(c) PROVE Moves(c)
  <1> USE ValueAssumption DEF Answers, Ops
  <1>1. PICK e \in Emails, s \in NewSecrets :
            LET request == [Request("register") EXCEPT !.key = e, !.secret = s]
            IN  IF HasEmail(e) THEN Refused(c, request, "conflict") ELSE Begins(c, request, "create")
    BY DEF Register
  <1> DEFINE request == [Request("register") EXCEPT !.key = e, !.secret = s]
  <1>2. Fresh(request) /\ request.op = "register" /\ request.key = e /\ request.target = None
    <2>1. Request("register") \in Call
      BY Asked
    <2>2. request \in Call
      BY <2>1 DEF Call
    <2>3. /\ request.op = Request("register").op /\ request.key = e
          /\ request.at = Request("register").at /\ request.target = Request("register").target
          /\ request.token = Request("register").token
          /\ request.answer = Request("register").answer
          /\ request.before = Request("register").before
      BY <2>1 DEF Call
    <2> HIDE DEF request
    <2> QED
      BY <2>2, <2>3, Asked DEF Fresh
  <1>3. calls[c].at = "new" /\ onlyCalls /\ CallsHold
    BY DEF Register, Tables
  <1> HIDE DEF request
  <1>4. CASE HasEmail(e)
    <2>1. Refused(c, request, "conflict")
      BY <1>1, <1>4 DEF request
    <2>2. /\ CallMoves(c) /\ AsksAs(calls'[c], request) /\ calls'[c].at = "done"
          /\ calls'[c].token = None /\ calls'[c].answer = "conflict"
      BY <1>2, <1>3, <2>1, RefusedMoves
    <2>3. CallHolds(calls[c])' /\ Finds(c)
      BY <1>2, <1>3, <2>2 DEF AsksAs, CallHolds, Finds
    <2> QED
      BY <1>3, <2>2, <2>3, TablesStay DEF Moves
  <1>5. CASE ~HasEmail(e)
    <2>1. Begins(c, request, "create")
      BY <1>1, <1>5 DEF request
    <2>2. /\ CallMoves(c) /\ AsksAs(calls'[c], request) /\ calls'[c].at = "create"
          /\ calls'[c].token = None /\ calls'[c].answer = None
      BY <1>2, <1>3, <2>1, BeginsMoves DEF Places
    <2>3. CallHolds(calls[c])'
      BY <1>2, <2>2 DEF AsksAs, CallHolds
    <2>4. Finds(c)
      BY <1>2, <1>3, <1>5, <2>2 DEF AsksAs, Finds, HasEmail
    <2> QED
      BY <1>3, <2>2, <2>3, <2>4, TablesStay DEF Moves
  <1> QED
    BY <1>4, <1>5

LEMMA CreateUserMoves == ASSUME Tables, NEW c \in Requests, CreateUser(c) PROVE Moves(c)
  <1> USE ValueAssumption DEF Answers, Ops
  <1>1. PICK e \in Emails, s \in NewSecrets \cup {None} :
            Begins(c, [Request("createUser") EXCEPT !.key = e, !.secret = s], "create")
    BY DEF CreateUser
  <1> DEFINE request == [Request("createUser") EXCEPT !.key = e, !.secret = s]
  <1>2. /\ Fresh(request) /\ request.op = "createUser" /\ request.actor = None
        /\ request.target = None /\ request.key = e /\ request.row = None /\ request.secret = s
    <2>1. Request("createUser") \in Call
      BY Asked
    <2>2. request \in Call
      BY <2>1 DEF Call
    <2>3. /\ request.at = Request("createUser").at
          /\ request.token = Request("createUser").token
          /\ request.answer = Request("createUser").answer
          /\ request.before = Request("createUser").before
          /\ request.op = Request("createUser").op
          /\ request.actor = Request("createUser").actor
          /\ request.target = Request("createUser").target /\ request.key = e
          /\ request.row = Request("createUser").row /\ request.secret = s
      BY <2>1 DEF Call
    <2> HIDE DEF request
    <2> QED
      BY <2>2, <2>3, Asked DEF Fresh
  <1>3. calls[c].at = "new" /\ onlyCalls /\ CallsHold /\ Begins(c, request, "create")
    BY <1>1 DEF CreateUser, Tables
  <1> HIDE DEF request
  <1>4. /\ CallMoves(c) /\ AsksAs(calls'[c], request) /\ calls'[c].at = "create"
        /\ calls'[c].token = None /\ calls'[c].answer = None
    BY <1>2, <1>3, BeginsMoves DEF Places
  <1>5. CallHolds(calls[c])' /\ Finds(c)
    BY <1>2, <1>3, <1>4 DEF AsksAs, CallHolds, Finds
  <1> QED
    BY <1>3, <1>4, <1>5, TablesStay DEF Moves

LEMMA NewUserIsNew == UserIdLeft => NewUser \in Users \ made
  BY DEF UserIdLeft, NewUser

LEMMA InsertUserMoves == ASSUME Tables, NEW c \in Requests, InsertUser(c) PROVE Moves(c)
  <1> USE ValueAssumption DEF Answers, Ops
  <1>1. /\ calls[c].at = "create" /\ calls[c].op \in {"register", "createUser"}
        /\ calls[c].key \in Emails /\ calls[c].target = None /\ calls[c].token = None
        /\ CallsHold /\ Running(c) /\ calls[c] \in Call /\ UNCHANGED <<profiles, rows, second>>
        /\ calls[c].answer = None
    BY DEF InsertUser, Tables, CallsHold, CallHolds, Running
  <1>2. CASE HasEmail(calls[c].key)
    <2>1. Ends(c, "taken") /\ onlyCalls
      BY <1>1, <1>2 DEF InsertUser, onlyCalls
    <2>2. /\ CallMoves(c) /\ AsksAs(calls'[c], calls[c]) /\ calls'[c].at = "done"
          /\ calls'[c].token = None /\ calls'[c].answer = "taken"
      BY <1>1, <2>1, EndsMoves
    <2>3. CallHolds(calls[c])' /\ Finds(c)
      BY <1>1, <1>2, <2>2 DEF AsksAs, CallHolds, Finds
    <2> QED
      BY <2>1, <2>2, <2>3, TablesStay DEF Moves
  <1>3. CASE ~HasEmail(calls[c].key)
    <2> DEFINE u == NewUser
               row == [email |-> calls[c].key, secret |-> calls[c].secret, token |-> None]
               new == [calls[c] EXCEPT !.at = "profile", !.target = u]
    <2>1. u \in Users \ made
      BY <1>1, <1>3, NewUserIsNew DEF InsertUser
    <2>2. /\ users' = [users EXCEPT ![u] = row] /\ made' = made \cup {u}
          /\ calls' = [calls EXCEPT ![c] = new]
      BY <1>1, <1>3 DEF InsertUser
    <2>3. row \in UserRow /\ row.email = calls[c].key
      BY <1>1 DEF UserRow, Call
    <2> HIDE DEF u
    <2>4. new \in Call
      BY <1>1, <2>1 DEF Call, Places
    <2>5. /\ new.op = calls[c].op /\ new.actor = calls[c].actor /\ new.key = calls[c].key
          /\ new.before = calls[c].before /\ new.row = calls[c].row /\ new.token = calls[c].token
          /\ new.answer = calls[c].answer /\ new.at = "profile" /\ new.target = u
          /\ new.held = calls[c].held
      BY <1>1 DEF Call
    <2> HIDE DEF row, new
    <2>6. calls'[c] = new /\ CallMoves(c)
      BY <1>1, <2>2, <2>4, <2>5 DEF CallMoves, OthersStay, CallsHold
    <2>7. CallHolds(calls[c])' /\ Finds(c)
      BY <1>1, <2>1, <2>2, <2>5, <2>6 DEF CallHolds, Finds
    <2>8. UsersMove(c)
      BY <1>1, <2>1, <2>2, <2>3 DEF UsersMove, Tables, TableTypes, IdsAreMade
    <2>9. ProfilesMove(c) /\ RowsMove(c)
      BY <1>1, <2>2 DEF ProfilesMove, RowsMove, Tables, TableTypes, IdsAreMade, WellFormed
    <2> QED
      BY <1>1, <2>6, <2>7, <2>8, <2>9 DEF Moves
  <1> QED
    BY <1>2, <1>3

LEMMA InsertProfileMoves == ASSUME Tables, NEW c \in Requests, InsertProfile(c) PROVE Moves(c)
  <1> USE ValueAssumption DEF Answers, Ops
  <1>1. /\ calls[c].at = "profile" /\ calls[c].op \in {"register", "createUser", "updateProfile"}
        /\ calls[c].target \in made \cap Users /\ calls[c].token = None
        /\ CallsHold /\ Running(c) /\ UNCHANGED <<users, rows, made, second>>
        /\ calls[c].answer = None
    BY DEF InsertProfile, Tables, CallsHold, CallHolds, Running
  <1>2. \/ profiles' = profiles
        \/ profiles' = [profiles EXCEPT ![calls[c].target] = profiles[calls[c].target] + 1]
    BY DEF InsertProfile
  <1>3. \/ Goes(c, "sign") /\ calls[c].op = "register"
        \/ Ends(c, "ok") /\ calls[c].op # "register"
        \/ Ends(c, "broken")
    BY <1>1 DEF InsertProfile
  <1>4. /\ CallMoves(c) /\ AsksAs(calls'[c], calls[c]) /\ calls'[c].token = None
        /\ \/ calls'[c].at = "sign" /\ calls[c].op = "register" /\ calls'[c].answer = None
           \/ calls'[c].at = "done" /\ calls'[c].answer = "ok" /\ calls[c].op # "register"
           \/ calls'[c].at = "done" /\ calls'[c].answer = "broken"
    BY <1>1, <1>3, GoesMoves, EndsMoves DEF Places
  <1>5. CallHolds(calls[c])' /\ Finds(c)
    BY <1>1, <1>4 DEF AsksAs, CallHolds, Finds
  <1>6. UsersMove(c) /\ RowsMove(c)
    BY <1>1 DEF UsersMove, RowsMove, Tables, TableTypes, IdsAreMade, WellFormed
  <1>7. ProfilesMove(c)
    BY <1>1, <1>2, <1>4 DEF ProfilesMove
  <1> QED
    BY <1>1, <1>4, <1>5, <1>6, <1>7 DEF Moves

LEMMA LoginMoves == ASSUME Tables, NEW c \in Requests, Login(c) PROVE Moves(c)
  <1> USE ValueAssumption DEF Answers, Ops
  <1>0. calls[c].at = "new" /\ onlyCalls /\ CallsHold
    BY DEF Login, Tables
  <1>1. PICK e \in Emails, s \in Secrets :
            LET request == [Request("login") EXCEPT !.key = e, !.secret = s]
            IN  \/ \E u \in Users :
                       users[u] # None /\ Begins(c, [request EXCEPT !.target = u,
                                                                   !.read = users[u].secret], "compare")
                \/ Refused(c, request, "unauthorized")
    BY DEF Login
  <1> DEFINE request == [Request("login") EXCEPT !.key = e, !.secret = s]
  <1>2. /\ Fresh(request) /\ request.op = "login" /\ request.actor = None
        /\ request.target = None /\ request.key = e /\ request.row = None /\ request.secret = s
    <2>1. Request("login") \in Call
      BY Asked
    <2>2. request \in Call
      BY <2>1 DEF Call
    <2>3. /\ request.at = Request("login").at /\ request.token = Request("login").token
          /\ request.answer = Request("login").answer
          /\ request.before = Request("login").before /\ request.op = Request("login").op
          /\ request.actor = Request("login").actor /\ request.target = Request("login").target
          /\ request.key = e /\ request.row = Request("login").row /\ request.secret = s
      BY <2>1 DEF Call
    <2> HIDE DEF request
    <2> QED
      BY <2>2, <2>3, Asked DEF Fresh
  <1> HIDE DEF request
  <1>3. CASE Refused(c, request, "unauthorized")
    <2>1. /\ CallMoves(c) /\ AsksAs(calls'[c], request) /\ calls'[c].at = "done"
          /\ calls'[c].token = None /\ calls'[c].answer = "unauthorized"
      BY <1>0, <1>2, <1>3, RefusedMoves
    <2>2. CallHolds(calls[c])' /\ Finds(c)
      BY <1>0, <1>2, <2>1 DEF AsksAs, CallHolds, Finds
    <2> QED
      BY <1>0, <2>1, <2>2, TablesStay DEF Moves
  <1>4. ASSUME NEW u \in Users, users[u] # None,
               Begins(c, [request EXCEPT !.target = u, !.read = users[u].secret], "compare")
        PROVE  Moves(c)
    <2> DEFINE asked2 == [request EXCEPT !.target = u, !.read = users[u].secret]
    <2>1. users[u].secret \in Secrets \cup {None} /\ u \in made
      BY <1>4 DEF Tables, TableTypes, IdsAreMade, UserRow
    <2>2. asked2 \in Call
      BY <1>2, <2>1 DEF Fresh, Call
    <2>3. /\ asked2.at = request.at /\ asked2.token = request.token /\ asked2.answer = request.answer
          /\ asked2.before = request.before /\ asked2.op = request.op /\ asked2.target = u
      BY <1>2 DEF Fresh, Call
    <2> HIDE DEF asked2
    <2>4. Fresh(asked2)
      BY <1>2, <2>2, <2>3 DEF Fresh
    <2>5. Begins(c, asked2, "compare")
      BY <1>4 DEF asked2
    <2>6. /\ CallMoves(c) /\ AsksAs(calls'[c], asked2) /\ calls'[c].at = "compare"
          /\ calls'[c].token = None /\ calls'[c].answer = None
      BY <1>0, <2>4, <2>5, BeginsMoves DEF Places
    <2>7. u \in made'
      BY <1>0, <2>1 DEF onlyCalls
    <2>8. CallHolds(calls[c])' /\ Finds(c)
      BY <1>0, <1>2, <2>3, <2>6, <2>7 DEF AsksAs, CallHolds, Finds
    <2> QED
      BY <1>0, <2>6, <2>8, TablesStay DEF Moves
  <1> QED
    BY <1>1, <1>3, <1>4 DEF request

LEMMA CompareMoves == ASSUME Tables, NEW c \in Requests, Compare(c) PROVE Moves(c)
  <1> USE ValueAssumption DEF Answers, Ops
  <1>1. /\ calls[c].at = "compare" /\ calls[c].op = "login" /\ calls[c].target \in made \cap Users
        /\ calls[c].token = None /\ calls[c].answer = None /\ CallsHold /\ Running(c) /\ onlyCalls
    BY DEF Compare, Tables, CallsHold, CallHolds, Running
  <1>2. Goes(c, "sign") \/ Ends(c, "unauthorized")
    BY DEF Compare
  <1>3. /\ CallMoves(c) /\ AsksAs(calls'[c], calls[c]) /\ calls'[c].token = None
        /\ \/ calls'[c].at = "sign" /\ calls'[c].answer = None
           \/ calls'[c].at = "done" /\ calls'[c].answer = "unauthorized"
    BY <1>1, <1>2, GoesMoves, EndsMoves DEF Places
  <1>4. CallHolds(calls[c])' /\ Finds(c)
    BY <1>1, <1>3 DEF AsksAs, CallHolds, Finds, onlyCalls
  <1> QED
    BY <1>1, <1>3, <1>4, TablesStay DEF Moves

LEMMA SignMoves == ASSUME Tables, NEW c \in Requests, Sign(c) PROVE Moves(c)
  <1> USE ValueAssumption DEF Answers, Ops
  <1> DEFINE token == [user |-> calls[c].target, at |-> second]
             new == [calls[c] EXCEPT !.token = token, !.at = "store"]
  <1>1. /\ calls[c].at = "sign" /\ calls[c].op \in {"register", "login"} /\ calls[c] \in Call
        /\ calls[c].target \in made \cap Users /\ calls[c].answer = None
        /\ CallsHold /\ Running(c) /\ onlyCalls
    BY DEF Sign, Tables, CallsHold, CallHolds, Running
  <1>2. calls' = [calls EXCEPT ![c] = new]
    BY DEF Sign
  <1>3. token \in Tokens /\ token.user = calls[c].target
    BY <1>1 DEF Tables, TableTypes, Tokens
  <1>4. token # None
    BY <1>3
  <1> HIDE DEF token
  <1>5. new \in Call
    <2>1. ASSUME NEW x \in Call, NEW t \in Tokens \cup {None}
          PROVE  [x EXCEPT !.token = t, !.at = "store"] \in Call
      <3> DEFINE y == [x EXCEPT !.token = t]
      <3>1. y \in Call /\ "store" \in Places
        BY DEF Call, Places
      <3> HIDE DEF y
      <3>2. [y EXCEPT !.at = "store"] \in Call
        BY <3>1 DEF Call
      <3> QED
        BY <3>2 DEF Call, y
    <2> QED
      BY <1>1, <1>3, <2>1
  <1>6. /\ new.op = calls[c].op /\ new.actor = calls[c].actor /\ new.key = calls[c].key
        /\ new.before = calls[c].before /\ new.row = calls[c].row /\ new.token = token
        /\ new.answer = calls[c].answer /\ new.at = "store" /\ new.target = calls[c].target
        /\ new.held = calls[c].held
    BY <1>1 DEF Call
  <1> HIDE DEF new
  <1>7. calls'[c] = new /\ CallMoves(c)
    BY <1>1, <1>2, <1>5, <1>6 DEF CallMoves, OthersStay, CallsHold
  <1>8. CallHolds(calls[c])' /\ Finds(c)
    BY <1>1, <1>3, <1>4, <1>6, <1>7 DEF CallHolds, Finds, onlyCalls
  <1> QED
    BY <1>1, <1>7, <1>8, TablesStay DEF Moves

LEMMA StoreMoves == ASSUME Tables, NEW c \in Requests, Store(c) PROVE Moves(c)
  <1> USE ValueAssumption DEF Answers, Ops
  <1> DEFINE u == calls[c].target
  <1>1. /\ calls[c].at = "store" /\ calls[c].op \in {"register", "login"} /\ calls[c] \in Call
        /\ u \in made \cap Users /\ calls[c].answer = None /\ calls[c].token \in Tokens
        /\ calls[c].token.user = u
        /\ CallsHold /\ Running(c) /\ UNCHANGED <<profiles, rows, made, second>>
    BY DEF Store, Tables, CallsHold, CallHolds, Running, Call
  <1>2. CASE users[u] = None
    <2>1. Ends(c, "missing") /\ onlyCalls
      BY <1>1, <1>2 DEF Store, onlyCalls
    <2>2. /\ CallMoves(c) /\ AsksAs(calls'[c], calls[c]) /\ calls'[c].at = "done"
          /\ calls'[c].token = calls[c].token /\ calls'[c].answer = "missing"
      BY <1>1, <2>1, EndsMoves
    <2>3. CallHolds(calls[c])' /\ Finds(c)
      BY <1>1, <2>1, <2>2 DEF AsksAs, CallHolds, Finds, onlyCalls
    <2> QED
      BY <2>1, <2>2, <2>3, TablesStay DEF Moves
  <1>3. CASE users[u] # None
    <2> DEFINE row == [users[u] EXCEPT !.token = calls[c].token]
    <2>1. Ends(c, "ok") /\ users' = [users EXCEPT ![u] = row]
      BY <1>1, <1>3 DEF Store
    <2>2. users[u] \in UserRow
      BY <1>1, <1>3 DEF Tables, TableTypes
    <2>3. row \in UserRow /\ row.email = users[u].email /\ row.token = calls[c].token
      BY <1>1, <2>2 DEF UserRow
    <2>4. row # None
      BY <2>3
    <2> HIDE DEF row
    <2>5. /\ CallMoves(c) /\ AsksAs(calls'[c], calls[c]) /\ calls'[c].at = "done"
          /\ calls'[c].token = calls[c].token /\ calls'[c].answer = "ok"
      BY <1>1, <2>1, EndsMoves
    <2>6. users'[u] = row
      BY <1>1, <2>1 DEF Tables, TableTypes
    <2>7. CallHolds(calls[c])' /\ Finds(c)
      BY <1>1, <2>3, <2>4, <2>5, <2>6 DEF AsksAs, CallHolds, Finds
    <2>8. UsersMove(c)
      BY <1>1, <1>3, <2>1, <2>3, <2>4, <2>5 DEF UsersMove, Tables, TableTypes, IdsAreMade
    <2>9. ProfilesMove(c) /\ RowsMove(c)
      BY <1>1 DEF ProfilesMove, RowsMove, Tables, TableTypes, IdsAreMade, WellFormed
    <2> QED
      BY <1>1, <2>5, <2>7, <2>8, <2>9 DEF Moves
  <1> QED
    BY <1>2, <1>3

LEMMA RefreshMoves == ASSUME Tables, NEW c \in Requests, Refresh(c) PROVE Moves(c)
  <1> USE ValueAssumption DEF Answers, Ops
  <1>0. calls[c].at = "new" /\ onlyCalls /\ CallsHold
    BY DEF Refresh, Tables
  <1>1. PICK d \in Requests :
            /\ calls[d].op \in {"register", "login"} /\ calls[d].answer = "ok"
            /\ \E answer \in {"ok", "unauthorized"} :
                   Refused(c, [Request("refresh") EXCEPT !.target = calls[d].token.user], answer)
    BY DEF Refresh
  <1> DEFINE u == calls[d].token.user
  <1>2. u \in Users
    BY <1>0, <1>1 DEF CallsHold, CallHolds
  <1> HIDE DEF u
  <1> DEFINE request == [Request("refresh") EXCEPT !.target = u]
  <1>3. /\ Fresh(request) /\ request.op = "refresh" /\ request.actor = None
        /\ request.target = u /\ request.key = None /\ request.row = None
    <2>1. Request("refresh") \in Call
      BY Asked
    <2>2. request \in Call
      BY <2>1, <1>2 DEF Call
    <2>3. /\ request.at = Request("refresh").at /\ request.token = Request("refresh").token
          /\ request.answer = Request("refresh").answer
          /\ request.before = Request("refresh").before /\ request.op = Request("refresh").op
          /\ request.actor = Request("refresh").actor /\ request.target = u
          /\ request.key = Request("refresh").key /\ request.row = Request("refresh").row
      BY <2>1 DEF Call
    <2> HIDE DEF request
    <2> QED
      BY <2>2, <2>3, Asked DEF Fresh
  <1>4. PICK answer \in {"ok", "unauthorized"} : Refused(c, request, answer)
    BY <1>1 DEF u
  <1> HIDE DEF request
  <1>5. /\ CallMoves(c) /\ AsksAs(calls'[c], request) /\ calls'[c].at = "done"
        /\ calls'[c].token = None /\ calls'[c].answer = answer
    BY <1>0, <1>3, <1>4, RefusedMoves
  <1>6. CallHolds(calls[c])' /\ Finds(c)
    BY <1>0, <1>3, <1>5 DEF AsksAs, CallHolds, Finds
  <1> QED
    BY <1>0, <1>5, <1>6, TablesStay DEF Moves

LEMMA UpdateUserMoves == ASSUME Tables, NEW c \in Requests, UpdateUser(c) PROVE Moves(c)
  <1> USE ValueAssumption DEF Answers, Ops
  <1>1. PICK u \in made \cap Users, e \in Emails \cup {None}, s \in NewSecrets \cup {None} :
            Begins(c, [Request("updateUser") EXCEPT !.target = u, !.key = e, !.secret = s], "update")
    BY DEF UpdateUser
  <1> DEFINE request == [Request("updateUser") EXCEPT !.target = u, !.key = e, !.secret = s]
  <1>2. /\ Fresh(request) /\ request.op = "updateUser" /\ request.actor = None
        /\ request.target = u /\ request.key = e /\ request.row = None /\ request.secret = s
    <2>1. Request("updateUser") \in Call
      BY Asked
    <2>2. request \in Call
      BY <2>1, ZenonT(40) DEF Call
    <2>3. /\ request.at = Request("updateUser").at
          /\ request.token = Request("updateUser").token
          /\ request.answer = Request("updateUser").answer
          /\ request.before = Request("updateUser").before
          /\ request.op = Request("updateUser").op
          /\ request.actor = Request("updateUser").actor /\ request.target = u
          /\ request.key = e /\ request.row = Request("updateUser").row /\ request.secret = s
      BY <2>1 DEF Call
    <2> HIDE DEF request
    <2> QED
      BY <2>2, <2>3, Asked DEF Fresh
  <1>3. calls[c].at = "new" /\ onlyCalls /\ CallsHold /\ Begins(c, request, "update")
    BY <1>1 DEF UpdateUser, Tables
  <1> HIDE DEF request
  <1>4. /\ CallMoves(c) /\ AsksAs(calls'[c], request) /\ calls'[c].at = "update"
        /\ calls'[c].token = None /\ calls'[c].answer = None
    BY <1>2, <1>3, BeginsMoves DEF Places
  <1>5. CallHolds(calls[c])' /\ Finds(c)
    BY <1>2, <1>3, <1>4 DEF AsksAs, CallHolds, Finds, onlyCalls
  <1> QED
    BY <1>3, <1>4, <1>5, TablesStay DEF Moves

LEMMA WriteUserMoves == ASSUME Tables, NEW c \in Requests, WriteUser(c) PROVE Moves(c)
  <1> USE ValueAssumption DEF Answers, Ops
  <1> DEFINE u == calls[c].target
             row == [users[u] EXCEPT
                        !.email = IF calls[c].key = None THEN users[u].email ELSE calls[c].key,
                        !.secret = IF calls[c].secret = None THEN users[u].secret
                                                             ELSE calls[c].secret]
  <1>1. /\ calls[c].at = "update" /\ calls[c].op = "updateUser" /\ calls[c] \in Call
        /\ u \in made \cap Users /\ calls[c].answer = None /\ calls[c].token = None
        /\ calls[c].key \in Emails \cup {None}
        /\ CallsHold /\ Running(c) /\ UNCHANGED <<profiles, rows, made, second>>
    BY DEF WriteUser, Tables, CallsHold, CallHolds, Running
  <1>2. \/ (Ends(c, "missing") \/ Ends(c, "taken")) /\ users' = users
        \/ Ends(c, "ok") /\ users[u] # None /\ users' = [users EXCEPT ![u] = row]
    BY <1>1 DEF WriteUser
  <1>3. /\ CallMoves(c) /\ AsksAs(calls'[c], calls[c]) /\ calls'[c].at = "done"
        /\ calls'[c].token = None /\ calls'[c].answer \in {"missing", "taken", "ok"}
    BY <1>1, <1>2, EndsMoves
  <1>4. CallHolds(calls[c])' /\ Finds(c)
    BY <1>1, <1>3 DEF AsksAs, CallHolds, Finds
  <1>5. ProfilesMove(c) /\ RowsMove(c)
    BY <1>1 DEF ProfilesMove, RowsMove, Tables, TableTypes, IdsAreMade, WellFormed
  <1>6. CASE users' = users
    BY <1>1, <1>3, <1>4, <1>6, TablesStay DEF Moves, onlyCalls
  <1>7. CASE users[u] # None /\ users' = [users EXCEPT ![u] = row]
    <2>1. users[u] \in UserRow
      BY <1>1, <1>7 DEF Tables, TableTypes
    <2>2. /\ row \in UserRow /\ row.token = users[u].token
          /\ row.email = IF calls[c].key = None THEN users[u].email ELSE calls[c].key
      BY <1>1, <2>1 DEF UserRow, Call
    <2>3. row # None
      BY <2>2
    <2> HIDE DEF row
    <2>4. UsersMove(c)
      BY <1>1, <1>7, <2>1, <2>2, <2>3 DEF UsersMove, Tables, TableTypes, IdsAreMade
    <2> QED
      BY <1>1, <1>3, <1>4, <1>5, <2>4 DEF Moves
  <1> HIDE DEF row
  <1> QED
    BY <1>2, <1>6, <1>7

LEMMA RemoveUserMoves == ASSUME Tables, NEW c \in Requests, RemoveUser(c) PROVE Moves(c)
  <1> USE ValueAssumption DEF Answers, Ops
  <1>0. calls[c].at = "new" /\ CallsHold /\ UNCHANGED <<profiles, rows, made, second>>
    BY DEF RemoveUser, Tables
  <1>1. PICK u \in made \cap Users :
            LET request == [Request("removeUser") EXCEPT !.target = u]
            IN  \/ (Refused(c, request, "missing") \/ Refused(c, request, "broken")) /\ users' = users
                \/ Refused(c, request, "ok") /\ users' = [users EXCEPT ![u] = None]
    BY DEF RemoveUser
  <1> DEFINE request == [Request("removeUser") EXCEPT !.target = u]
  <1>2. /\ Fresh(request) /\ request.op = "removeUser" /\ request.actor = None
        /\ request.target = u /\ request.key = None /\ request.row = None
    <2>1. Request("removeUser") \in Call
      BY Asked
    <2>2. request \in Call
      BY <2>1 DEF Call
    <2>3. /\ request.at = Request("removeUser").at
          /\ request.token = Request("removeUser").token
          /\ request.answer = Request("removeUser").answer
          /\ request.before = Request("removeUser").before
          /\ request.op = Request("removeUser").op
          /\ request.actor = Request("removeUser").actor /\ request.target = u
          /\ request.key = Request("removeUser").key /\ request.row = Request("removeUser").row
      BY <2>1 DEF Call
    <2> HIDE DEF request
    <2> QED
      BY <2>2, <2>3, Asked DEF Fresh
  <1> HIDE DEF request
  <1>3. \/ (Refused(c, request, "missing") \/ Refused(c, request, "broken")) /\ users' = users
        \/ Refused(c, request, "ok") /\ users' = [users EXCEPT ![u] = None]
    BY <1>1 DEF request
  <1>4. /\ CallMoves(c) /\ AsksAs(calls'[c], request) /\ calls'[c].at = "done"
        /\ calls'[c].token = None /\ calls'[c].answer \in {"missing", "broken", "ok"}
    BY <1>0, <1>2, <1>3, RefusedMoves
  <1>5. CallHolds(calls[c])' /\ Finds(c)
    BY <1>0, <1>2, <1>4 DEF AsksAs, CallHolds, Finds
  <1>6. UsersMove(c)
    BY <1>0, <1>3 DEF UsersMove, Tables, TableTypes, IdsAreMade
  <1>7. ProfilesMove(c) /\ RowsMove(c)
    BY <1>0 DEF ProfilesMove, RowsMove, Tables, TableTypes, IdsAreMade, WellFormed
  <1> QED
    BY <1>0, <1>4, <1>5, <1>6, <1>7 DEF Moves

LEMMA UpdateProfileMoves == ASSUME Tables, NEW c \in Requests, UpdateProfile(c) PROVE Moves(c)
  <1> USE ValueAssumption DEF Answers, Ops
  <1>0. calls[c].at = "new" /\ onlyCalls /\ CallsHold
    BY DEF UpdateProfile, Tables
  <1>1. PICK u \in made \cap Users, actor \in made \cap Users :
            LET request == [Request("updateProfile") EXCEPT !.target = u, !.actor = actor]
            IN  \/ Refused(c, request, "forbidden") \/ Refused(c, request, "ok")
                \/ ~(profiles[u] > 0) /\ Begins(c, request, "profile")
    BY DEF UpdateProfile
  <1> DEFINE request == [Request("updateProfile") EXCEPT !.target = u, !.actor = actor]
  <1>2. /\ Fresh(request) /\ request.op = "updateProfile" /\ request.actor = actor
        /\ request.target = u /\ request.key = None /\ request.row = None
    <2>1. Request("updateProfile") \in Call
      BY Asked
    <2>2. request \in Call
      BY <2>1 DEF Call
    <2>3. /\ request.at = Request("updateProfile").at
          /\ request.token = Request("updateProfile").token
          /\ request.answer = Request("updateProfile").answer
          /\ request.before = Request("updateProfile").before
          /\ request.op = Request("updateProfile").op /\ request.actor = actor
          /\ request.target = u /\ request.key = Request("updateProfile").key
          /\ request.row = Request("updateProfile").row
      BY <2>1 DEF Call
    <2> HIDE DEF request
    <2> QED
      BY <2>2, <2>3, Asked DEF Fresh
  <1> HIDE DEF request
  <1>3. CASE Refused(c, request, "forbidden") \/ Refused(c, request, "ok")
    <2>1. /\ CallMoves(c) /\ AsksAs(calls'[c], request) /\ calls'[c].at = "done"
          /\ calls'[c].token = None /\ calls'[c].answer \in {"forbidden", "ok"}
      BY <1>0, <1>2, <1>3, RefusedMoves
    <2>2. CallHolds(calls[c])' /\ Finds(c)
      BY <1>0, <1>2, <2>1 DEF AsksAs, CallHolds, Finds
    <2> QED
      BY <1>0, <2>1, <2>2, TablesStay DEF Moves
  <1>4. CASE ~(profiles[u] > 0) /\ Begins(c, request, "profile")
    <2>1. /\ CallMoves(c) /\ AsksAs(calls'[c], request) /\ calls'[c].at = "profile"
          /\ calls'[c].token = None /\ calls'[c].answer = None
      BY <1>0, <1>2, <1>4, BeginsMoves DEF Places
    <2>2. profiles[u] = 0
      BY <1>4 DEF Tables, TableTypes
    <2>3. CallHolds(calls[c])' /\ Finds(c)
      BY <1>0, <1>2, <2>1, <2>2 DEF AsksAs, CallHolds, Finds, onlyCalls
    <2> QED
      BY <1>0, <2>1, <2>3, TablesStay DEF Moves
  <1> QED
    BY <1>1, <1>3, <1>4 DEF request

-----------------------------------------------------------------------------
(* The steps of the catalog *)

LEMMA NewRowIsNew == RowIdLeft => NewRow \in Rows \ made
  BY DEF RowIdLeft, NewRow

\* A row that is inserted is of no id that anything has.
LEMMA InsertedMoves ==
    ASSUME Tables, NEW c \in Requests, NEW row \in Row, WellFormed(row), Inserted(row),
           UNCHANGED <<users, profiles, second>>,
           \/ /\ row.table # "podcast" /\ row.key = calls'[c].key
              /\ calls'[c].op = "create" /\ calls'[c].answer = "ok"
           \/ calls[c].at = "podcast" /\ row.table = "podcast" /\ row.key = calls[c].key
           \/ /\ calls[c].at = "newChannel" /\ row.table = "channel"
              /\ row.key = Imported(calls[c].actor)
    PROVE  /\ UsersMove(c) /\ ProfilesMove(c) /\ RowsMove(c) /\ NewRow \in Rows \ made
           /\ rows'[NewRow] = row /\ made' = made \cup {NewRow}
  <1> DEFINE r == NewRow
  <1>1. r \in Rows \ made /\ rows' = [rows EXCEPT ![r] = row] /\ made' = made \cup {r}
    BY NewRowIsNew DEF Inserted
  <1> HIDE DEF r
  <1>2. rows'[r] = row /\ row # None /\ rows[r] = None
    BY <1>1, ValueAssumption DEF Tables, TableTypes, IdsAreMade
  <1>3. UsersMove(c)
    BY <1>1 DEF UsersMove, Tables, TableTypes, IdsAreMade
  <1>4. \A q \in Rows : q # r => rows'[q] = rows[q]
    BY <1>1 DEF Tables, TableTypes
  <1>5. RowsMove(c)
    <2>1. rows' \in [Rows -> Row \cup {None}]
      BY <1>1 DEF Tables, TableTypes
    <2>2. \A q \in Rows : rows'[q] # None => WellFormed(rows'[q]) /\ q \in made'
      BY <1>1, <1>2, <1>4 DEF Tables, TableTypes, IdsAreMade
    <2> QED
      BY <1>1, <1>2, <1>4, <2>1, <2>2 DEF RowsMove, Tables, TableTypes, IdsAreMade
  <1> QED
    BY <1>1, <1>2, <1>3, <1>5 DEF ProfilesMove, r

LEMMA NewRowsForm ==
    ASSUME Tables, NEW row \in NewRows
    PROVE  /\ row \in Row /\ WellFormed(row)
           /\ row.table # "podcast" /\ row.key \in Names \cup {None}
  <1> USE ValueAssumption, IdAssumption
  <1>1. /\ row \in Row /\ row.table # "podcast" /\ row.key \in Names \cup {None}
        /\ row.table \in Owned <=> row.owner # None
        /\ row.table \in DOMAIN ParentOf <=> row.parent # None
        /\ row.table \in Keyed <=> row.key # None
    BY DEF NewRows, Row, Keys, Names, Owned, Keyed, ParentOf
  <1> QED
    BY <1>1 DEF WellFormed

LEMMA CreateRowMoves == ASSUME Tables, NEW c \in Requests, CreateRow(c) PROVE Moves(c)
  <1> USE ValueAssumption DEF Answers, Ops
  <1>0. calls[c].at = "new" /\ CallsHold /\ UNCHANGED <<users, profiles, second>>
    BY DEF CreateRow, Tables
  <1>1. PICK row \in NewRows, actor \in made \cap Users :
            LET request == [Request("create") EXCEPT !.actor = actor, !.key = row.key]
            IN  \/ /\ \/ Refused(c, request, "forbidden") \/ Refused(c, request, "taken")
                      \/ Refused(c, request, "broken")
                   /\ UNCHANGED <<rows, made>>
                \/ Refused(c, [request EXCEPT !.row = NewRow], "ok") /\ Inserted(row)
    BY DEF CreateRow
  <1> DEFINE request == [Request("create") EXCEPT !.actor = actor, !.key = row.key]
  <1>2. /\ Fresh(request) /\ request.op = "create" /\ request.actor = actor
        /\ request.target = None /\ request.key = row.key /\ request.row = None
    <2>1. Request("create") \in Call
      BY Asked
    <2>2. request \in Call
      BY <2>1, NewRowsForm DEF Call
    <2>3. /\ request.at = Request("create").at /\ request.token = Request("create").token
          /\ request.answer = Request("create").answer
          /\ request.before = Request("create").before /\ request.op = Request("create").op
          /\ request.actor = actor /\ request.target = Request("create").target
          /\ request.key = row.key /\ request.row = Request("create").row
      BY <2>1 DEF Call
    <2> HIDE DEF request
    <2> QED
      BY <2>2, <2>3, Asked DEF Fresh
  <1> HIDE DEF request
  <1>3. CASE /\ \/ Refused(c, request, "forbidden") \/ Refused(c, request, "taken")
                \/ Refused(c, request, "broken")
             /\ UNCHANGED <<rows, made>>
    <2>1. /\ CallMoves(c) /\ AsksAs(calls'[c], request) /\ calls'[c].at = "done"
          /\ calls'[c].token = None /\ calls'[c].answer \in {"forbidden", "taken", "broken"}
      BY <1>0, <1>2, <1>3, RefusedMoves
    <2>2. CallHolds(calls[c])' /\ Finds(c)
      BY <1>0, <1>2, <2>1 DEF AsksAs, CallHolds, Finds
    <2> QED
      BY <1>0, <1>3, <2>1, <2>2, TablesStay DEF Moves, onlyCalls
  <1>4. CASE Refused(c, [request EXCEPT !.row = NewRow], "ok") /\ Inserted(row)
    <2> DEFINE r == NewRow
               made2 == [request EXCEPT !.row = r]
    <2>1. r \in Rows \ made /\ Inserted(row)
      BY <1>4, NewRowIsNew DEF Inserted
    <2> HIDE DEF r
    <2>2. made2 \in Call
      BY <1>2, <2>1 DEF Fresh, Call
    <2>3. /\ made2.at = request.at /\ made2.token = request.token /\ made2.answer = request.answer
          /\ made2.before = request.before /\ made2.op = request.op
          /\ made2.key = request.key
      BY <1>2 DEF Fresh, Call
    <2> HIDE DEF made2
    <2>4. Fresh(made2)
      BY <1>2, <2>2, <2>3 DEF Fresh
    <2>5. Refused(c, made2, "ok")
      BY <1>4 DEF made2, r
    <2>6. /\ CallMoves(c) /\ AsksAs(calls'[c], made2) /\ calls'[c].at = "done"
          /\ calls'[c].token = None /\ calls'[c].answer = "ok"
      BY <1>0, <2>4, <2>5, RefusedMoves
    <2>7. CallHolds(calls[c])' /\ Finds(c)
      BY <1>0, <1>2, <2>3, <2>6 DEF AsksAs, CallHolds, Finds
    <2>8. calls'[c].key = row.key /\ calls'[c].op = "create"
      BY <1>2, <2>3, <2>6 DEF AsksAs
    <2>9. UsersMove(c) /\ ProfilesMove(c) /\ RowsMove(c)
      BY <1>0, <2>1, <2>6, <2>8, NewRowsForm, InsertedMoves
    <2> QED
      BY <1>0, <2>6, <2>7, <2>9 DEF Moves
  <1> QED
    BY <1>1, <1>3, <1>4 DEF request

LEMMA TriggerImportMoves == ASSUME Tables, NEW c \in Requests, TriggerImport(c) PROVE Moves(c)
  <1> USE ValueAssumption DEF Answers, Ops
  <1>0. calls[c].at = "new" /\ onlyCalls /\ CallsHold
    BY DEF TriggerImport, Tables, onlyRequests, onlyCalls
  <1>1. PICK r \in made \cap Rows, answer \in {"notFound", "imported"} :
            Refused(c, [Request("importFeed") EXCEPT !.row = r], answer)
    BY DEF TriggerImport
  <1> DEFINE request == [Request("importFeed") EXCEPT !.row = r]
  <1>2. /\ Fresh(request) /\ request.op = "importFeed" /\ request.actor = None
        /\ request.target = None /\ request.key = None /\ request.row = r
    <2>1. Request("importFeed") \in Call
      BY Asked
    <2>2. request \in Call
      BY <2>1 DEF Call
    <2>3. /\ request.at = Request("importFeed").at
          /\ request.token = Request("importFeed").token
          /\ request.answer = Request("importFeed").answer
          /\ request.before = Request("importFeed").before
          /\ request.op = Request("importFeed").op
          /\ request.actor = Request("importFeed").actor
          /\ request.target = Request("importFeed").target
          /\ request.key = Request("importFeed").key /\ request.row = r
      BY <2>1 DEF Call
    <2> HIDE DEF request
    <2> QED
      BY <2>2, <2>3, Asked DEF Fresh
  <1>3. Refused(c, request, answer)
    BY <1>1
  <1> HIDE DEF request
  <1>4. /\ CallMoves(c) /\ AsksAs(calls'[c], request) /\ calls'[c].at = "done"
        /\ calls'[c].token = None /\ calls'[c].answer = answer
    BY <1>0, <1>2, <1>3, RefusedMoves
  <1>5. CallHolds(calls[c])' /\ Finds(c)
    BY <1>0, <1>2, <1>4 DEF AsksAs, CallHolds, Finds
  <1> QED
    BY <1>0, <1>4, <1>5, TablesStay DEF Moves

LEMMA FindMoves == ASSUME Tables, NEW c \in Requests, Find(c) PROVE Moves(c)
  <1> USE ValueAssumption DEF Answers, Ops
  <1>0. calls[c].at = "new" /\ onlyCalls /\ CallsHold
    BY DEF Find, Tables, onlyRequests, onlyCalls
  <1>1. PICK r \in made \cap Rows, actor \in made \cap Users, op \in {"change", "remove"},
             key \in Names \cup {None} :
            LET request == [Request(op) EXCEPT !.row = r, !.actor = actor, !.key = key]
            IN  \/ Refused(c, request, "notFound") \/ Refused(c, request, "forbidden")
                \/ /\ rows[r] # None /\ RulesOf[rows[r].table][op] # "nobody"
                   /\ key \in IF op = "change" /\ rows[r] # None THEN NamesOf(rows[r].table) ELSE {None}
                   /\ Begins(c, request, "write")
    BY ZenonT(40) DEF Find
  <1> DEFINE request == [Request(op) EXCEPT !.row = r, !.actor = actor, !.key = key]
  <1>2. /\ Fresh(request) /\ request.op = op /\ request.actor = actor /\ request.target = None
        /\ request.key = key /\ request.row = r
    <2>1. Request(op) \in Call
      BY Asked
    <2>2. request \in Call
      BY <2>1 DEF Call
    <2>3. /\ request.at = Request(op).at /\ request.token = Request(op).token
          /\ request.answer = Request(op).answer /\ request.before = Request(op).before
          /\ request.op = Request(op).op /\ request.actor = actor
          /\ request.target = Request(op).target /\ request.key = key /\ request.row = r
      BY <2>1 DEF Call
    <2> HIDE DEF request
    <2> QED
      BY <2>2, <2>3, Asked DEF Fresh
  <1> HIDE DEF request
  <1>3. CASE Refused(c, request, "notFound") \/ Refused(c, request, "forbidden")
    <2>1. /\ CallMoves(c) /\ AsksAs(calls'[c], request) /\ calls'[c].at = "done"
          /\ calls'[c].token = None /\ calls'[c].answer \in {"notFound", "forbidden"}
      BY <1>0, <1>2, <1>3, RefusedMoves
    <2>2. CallHolds(calls[c])' /\ Finds(c)
      BY <1>0, <1>2, <2>1 DEF AsksAs, CallHolds, Finds
    <2> QED
      BY <1>0, <2>1, <2>2, TablesStay DEF Moves
  <1>4. CASE /\ rows[r] # None /\ RulesOf[rows[r].table][op] # "nobody"
             /\ key \in IF op = "change" /\ rows[r] # None THEN NamesOf(rows[r].table) ELSE {None}
             /\ Begins(c, request, "write")
    <2>1. /\ CallMoves(c) /\ AsksAs(calls'[c], request) /\ calls'[c].at = "write"
          /\ calls'[c].token = None /\ calls'[c].answer = None
      BY <1>0, <1>2, <1>4, BeginsMoves DEF Places
    <2>2. op = "change" => rows[r].table # "podcast"
      BY <1>4 DEF RulesOf, PodcastRules, Rules
    <2>4. op = "change" => key \in Names
      BY <1>4 DEF NamesOf, Names
    <2>3. CallHolds(calls[c])' /\ Finds(c)
      BY <1>0, <1>2, <1>4, <2>1, <2>2, <2>4 DEF AsksAs, CallHolds, Finds, onlyCalls
    <2> QED
      BY <1>0, <2>1, <2>3, TablesStay DEF Moves
  <1> QED
    BY <1>1, <1>3, <1>4 DEF request

LEMMA ChangeMoves == ASSUME Tables, Changing, NEW c \in Requests, Change(c) PROVE Moves(c)
  <1> USE ValueAssumption DEF Answers, Ops
  <1> DEFINE r == calls[c].row
             changed == IF rows[r].table \in Keyed THEN [rows[r] EXCEPT !.key = calls[c].key]
                                                   ELSE rows[r]
  <1>1. /\ calls[c].at = "write" /\ calls[c].op = "change" /\ r \in made \cap Rows
        /\ calls[c].answer = None /\ calls[c].token = None /\ calls[c].key \in Names
        /\ CallsHold /\ Running(c) /\ UNCHANGED <<users, profiles, made, second>>
    BY DEF Change, Tables, CallsHold, CallHolds, Running
  <1>2. \/ Ends(c, "missing") /\ rows[r] = None /\ rows' = rows
        \/ Ends(c, "taken") /\ rows' = rows
        \/ Ends(c, "ok") /\ rows[r] # None /\ rows' = [rows EXCEPT ![r] = changed]
    BY <1>1 DEF Change
  <1>3. /\ CallMoves(c) /\ AsksAs(calls'[c], calls[c]) /\ calls'[c].at = "done"
        /\ calls'[c].token = None /\ calls'[c].answer \in {"missing", "taken", "ok"}
        /\ calls'[c].answer = "missing" => rows[r] = None
        /\ rows' # rows => calls'[c].answer = "ok"
    BY <1>1, <1>2, EndsMoves
  <1>4. CallHolds(calls[c])' /\ Finds(c)
    BY <1>1, <1>3 DEF AsksAs, CallHolds, Finds
  <1>5. CASE rows' = rows
    BY <1>1, <1>3, <1>4, <1>5, TablesStay DEF Moves, onlyCalls
  <1>6. CASE rows[r] # None /\ rows' = [rows EXCEPT ![r] = changed]
    <2>1. rows[r] \in Row /\ WellFormed(rows[r]) /\ rows[r].table # "podcast"
      BY <1>1, <1>6 DEF Tables, TableTypes, Changing
    <2>2. /\ changed \in Row /\ changed.table = rows[r].table /\ changed.owner = rows[r].owner
          /\ changed.parent = rows[r].parent
          /\ changed.key = IF rows[r].table \in Keyed THEN calls[c].key ELSE rows[r].key
      BY <1>1, <2>1 DEF Row, Keys
    <2> HIDE DEF changed
    <2>3. calls[c].key # None
      BY <1>1 DEF Keys
    <2>4. WellFormed(changed) /\ changed # None
      BY <2>1, <2>2, <2>3 DEF WellFormed
    <2>5. /\ changed.key # rows[r].key => changed.key = calls'[c].key
          /\ calls'[c].op = "change"
      BY <1>1, <1>3, <2>2 DEF AsksAs
    <2>6. rows'[r] = changed /\ \A q \in Rows : q # r => rows'[q] = rows[q]
      BY <1>1, <1>6 DEF Tables, TableTypes
    <2>7. RowsMove(c)
      <3>1. rows' \in [Rows -> Row \cup {None}]
        BY <1>1, <1>6, <2>2 DEF Tables, TableTypes
      <3>2. \A q \in Rows : rows'[q] # None => WellFormed(rows'[q]) /\ q \in made'
        BY <1>1, <2>4, <2>6 DEF Tables, TableTypes, IdsAreMade
      <3> QED
        <4>1. changed.key # rows[r].key => calls'[c].answer = "ok"
          BY <1>1, <1>3, <2>6
        <4> QED
          BY <1>1, <1>6, <2>1, <2>2, <2>4, <2>5, <2>6, <3>1, <3>2, <4>1
          DEF RowsMove, Tables, IdsAreMade
    <2>8. UsersMove(c) /\ ProfilesMove(c)
      BY <1>1 DEF UsersMove, ProfilesMove, Tables, TableTypes, IdsAreMade
    <2> QED
      BY <1>1, <1>3, <1>4, <2>7, <2>8 DEF Moves
  <1> HIDE DEF changed
  <1> QED
    BY <1>2, <1>5, <1>6

LEMMA DeleteMoves == ASSUME Tables, NEW c \in Requests, Delete(c) PROVE Moves(c)
  <1> USE ValueAssumption DEF Answers, Ops
  <1> DEFINE r == calls[c].row
  <1>1. /\ calls[c].at = "write" /\ calls[c].op = "remove" /\ r \in made \cap Rows
        /\ calls[c].answer = None /\ calls[c].token = None
        /\ CallsHold /\ Running(c) /\ UNCHANGED <<users, profiles, made, second>>
    BY DEF Delete, Tables, CallsHold, CallHolds, Running
  <1>2. \/ Ends(c, "missing") /\ rows[r] = None /\ rows' = rows
        \/ Ends(c, "broken") /\ rows' = rows
        \/ Ends(c, "ok") /\ rows' = [rows EXCEPT ![r] = None]
    BY <1>1 DEF Delete
  <1>3. /\ CallMoves(c) /\ AsksAs(calls'[c], calls[c]) /\ calls'[c].at = "done"
        /\ calls'[c].token = None /\ calls'[c].answer \in {"missing", "broken", "ok"}
        /\ calls'[c].answer = "missing" => rows[r] = None
        /\ rows' # rows => calls'[c].answer = "ok"
    BY <1>1, <1>2, EndsMoves
  <1>4. CallHolds(calls[c])' /\ Finds(c)
    BY <1>1, <1>3 DEF AsksAs, CallHolds, Finds
  <1>5. UsersMove(c) /\ ProfilesMove(c)
    BY <1>1 DEF UsersMove, ProfilesMove, Tables, TableTypes, IdsAreMade
  <1>6. CASE rows' = rows
    BY <1>1, <1>3, <1>4, <1>6, TablesStay DEF Moves, onlyCalls
  <1>7. CASE rows' # rows /\ rows' = [rows EXCEPT ![r] = None]
    <2>1. RowsMove(c)
      BY <1>1, <1>3, <1>7 DEF RowsMove, Tables, TableTypes, IdsAreMade, WellFormed
    <2> QED
      BY <1>1, <1>3, <1>4, <1>5, <2>1 DEF Moves
  <1> QED
    BY <1>2, <1>6, <1>7

LEMMA CreateFeedMoves == ASSUME Tables, NEW c \in Requests, CreateFeed(c) PROVE Moves(c)
  <1> USE ValueAssumption DEF Answers, Ops
  <1>0. calls[c].at = "new" /\ onlyCalls /\ CallsHold
    BY DEF CreateFeed, Tables, onlyRequests, onlyCalls
  <1>1. PICK url \in Urls, actor \in made \cap Users :
            LET request == [Request("createFeed") EXCEPT !.actor = actor, !.key = url,
                                                         !.held = SlugHeld(actor)]
            IN  \/ Refused(c, request, "ok")
                \/ Begins(c, request, "channel")
                   /\ ~\E r \in Rows : rows[r] # None /\ rows[r].table = "podcast" /\ rows[r].key = url
    BY DEF CreateFeed
  <1> DEFINE request == [Request("createFeed") EXCEPT !.actor = actor, !.key = url,
                                                         !.held = SlugHeld(actor)]
  <1>2. /\ Fresh(request) /\ request.op = "createFeed" /\ request.actor = actor
        /\ request.target = None /\ request.key = url /\ request.row = None
        /\ request.held = SlugHeld(actor)
    <2>1. Request("createFeed") \in Call
      BY Asked
    <2>2. request \in Call
      <3>1. SlugHeld(actor) \in BOOLEAN
        BY DEF SlugHeld
      <3> QED
        BY <2>1, <3>1 DEF Call
    <2>3. /\ request.at = Request("createFeed").at
          /\ request.token = Request("createFeed").token
          /\ request.answer = Request("createFeed").answer
          /\ request.before = Request("createFeed").before
          /\ request.op = Request("createFeed").op /\ request.actor = actor
          /\ request.target = Request("createFeed").target /\ request.key = url
          /\ request.row = Request("createFeed").row
          /\ request.held = SlugHeld(actor)
      BY <2>1 DEF Call
    <2> HIDE DEF request
    <2> QED
      BY <2>2, <2>3, Asked DEF Fresh
  <1> HIDE DEF request
  <1>3. CASE Refused(c, request, "ok")
    <2>1. /\ CallMoves(c) /\ AsksAs(calls'[c], request) /\ calls'[c].at = "done"
          /\ calls'[c].token = None /\ calls'[c].answer = "ok"
      BY <1>0, <1>2, <1>3, RefusedMoves
    <2>2. CallHolds(calls[c])' /\ Finds(c)
      BY <1>0, <1>2, <2>1 DEF AsksAs, CallHolds, Finds, onlyCalls
    <2> QED
      BY <1>0, <2>1, <2>2, TablesStay DEF Moves
  <1>4. CASE /\ Begins(c, request, "channel")
             /\ ~\E r \in Rows : rows[r] # None /\ rows[r].table = "podcast" /\ rows[r].key = url
    <2>1. /\ CallMoves(c) /\ AsksAs(calls'[c], request) /\ calls'[c].at = "channel"
          /\ calls'[c].token = None /\ calls'[c].answer = None
      BY <1>0, <1>2, <1>4, BeginsMoves DEF Places
    <2>2. CallHolds(calls[c])'
      BY <1>0, <1>2, <2>1 DEF AsksAs, CallHolds, onlyCalls
    <2>4. SlugHeld(actor) = \E r \in Rows : OthersChannel(rows'[r], actor)
      BY <1>0 DEF SlugHeld, OthersChannel, onlyCalls
    <2>3. Finds(c)
      BY <1>0, <1>2, <1>4, <2>1, <2>4 DEF AsksAs, Finds, KnownUrl
    <2> QED
      BY <1>0, <2>1, <2>2, <2>3, TablesStay DEF Moves
  <1> QED
    BY <1>1, <1>3, <1>4 DEF request

LEMMA FindChannelMoves == ASSUME Tables, NEW c \in Requests, FindChannel(c) PROVE Moves(c)
  <1> USE ValueAssumption DEF Answers, Ops
  <1> DEFINE own == {r \in Rows : rows[r] # None /\ rows[r].table = "channel"
                                  /\ rows[r].owner = calls[c].actor}
  <1>1. /\ calls[c].at = "channel" /\ calls[c].op = "createFeed" /\ calls[c] \in Call
        /\ calls[c].answer = None /\ calls[c].token = None /\ calls[c].key \in Urls
        /\ calls[c].actor \in made \cap Users /\ CallsHold /\ Running(c) /\ onlyCalls
        /\ calls[c].row = None
    BY DEF FindChannel, Tables, CallsHold, CallHolds, Running, onlyRequests, onlyCalls
  <1>2. CASE own = {} /\ Goes(c, "newChannel")
    <2>1. /\ CallMoves(c) /\ AsksAs(calls'[c], calls[c]) /\ calls'[c].at = "newChannel"
          /\ calls'[c].token = None /\ calls'[c].answer = None
      BY <1>1, <1>2, GoesMoves DEF Places
    <2>2. CallHolds(calls[c])'
      BY <1>1, <2>1 DEF AsksAs, CallHolds, onlyCalls
    <2>3. \A r \in Rows : rows'[r] # None /\ rows'[r].table = "channel"
                          => rows'[r].owner # calls'[c].actor
      BY <1>1, <1>2, <2>1 DEF AsksAs, onlyCalls
    <2>4. Finds(c)
      BY <1>1, <2>1, <2>3 DEF AsksAs, Finds
    <2> QED
      BY <1>1, <2>1, <2>2, <2>4, TablesStay DEF Moves
  <1>3. ASSUME NEW r \in own, calls' = [calls EXCEPT ![c].row = r, ![c].at = "podcast"]
        PROVE  Moves(c)
    <2> DEFINE new == [calls[c] EXCEPT !.row = r, !.at = "podcast"]
    <2>1. calls' = [calls EXCEPT ![c] = new]
      BY <1>3
    <2>2. r \in Rows \cap made /\ rows[r] # None /\ rows[r].table = "channel"
      BY DEF Tables, IdsAreMade
    <2>3. new \in Call
      BY <1>1, <2>2 DEF Call, Places
    <2>4. /\ new.op = calls[c].op /\ new.actor = calls[c].actor /\ new.key = calls[c].key
          /\ new.before = calls[c].before /\ new.row = r /\ new.token = calls[c].token
          /\ new.answer = calls[c].answer /\ new.at = "podcast" /\ new.target = calls[c].target
          /\ new.held = calls[c].held
      BY <1>1 DEF Call
    <2> HIDE DEF new
    <2>5. calls'[c] = new /\ CallMoves(c)
      BY <1>1, <2>1, <2>3, <2>4 DEF CallMoves, OthersStay, CallsHold
    <2>6. CallHolds(calls[c])' /\ Finds(c)
      BY <1>1, <2>2, <2>4, <2>5 DEF CallHolds, Finds, onlyCalls
    <2> QED
      BY <1>1, <2>5, <2>6, TablesStay DEF Moves
  <1> QED
    BY <1>2, <1>3 DEF FindChannel

LEMMA InsertChannelMoves == ASSUME Tables, NEW c \in Requests, InsertChannel(c) PROVE Moves(c)
  <1> USE ValueAssumption DEF Answers, Ops
  <1> DEFINE actor == calls[c].actor
             row == [table |-> "channel", owner |-> actor, parent |-> None, key |-> Imported(actor)]
  <1>1. /\ calls[c].at = "newChannel" /\ calls[c].op = "createFeed" /\ calls[c] \in Call
        /\ calls[c].answer = None /\ calls[c].token = None /\ calls[c].key \in Urls
        /\ actor \in made \cap Users /\ CallsHold /\ Running(c) /\ calls[c].row = None
        /\ UNCHANGED <<users, profiles, second>>
    BY DEF InsertChannel, Tables, CallsHold, CallHolds, Running
  <1>2. \/ Ends(c, "taken") /\ Taken(row, None) /\ UNCHANGED <<rows, made>>
        \/ Ends(c, "broken") /\ ~Refers(row) /\ UNCHANGED <<rows, made>>
        \/ /\ Inserted(row)
           /\ calls' = [calls EXCEPT ![c].row = NewRow, ![c].at = "podcast"]
    BY DEF InsertChannel
  <1>3. Taken(row, None) => KnownSlug(Imported(actor))
    BY DEF Taken, KnownSlug
  <1>4. ~Refers(row) => users[actor] = None
    BY DEF Refers, ParentOf
  <1>5. CASE /\ \/ Ends(c, "taken") /\ KnownSlug(Imported(actor))
                \/ Ends(c, "broken") /\ users[actor] = None
             /\ UNCHANGED <<rows, made>>
    <2>1. /\ CallMoves(c) /\ AsksAs(calls'[c], calls[c]) /\ calls'[c].at = "done"
          /\ calls'[c].token = None /\ calls'[c].answer \in {"taken", "broken"}
          /\ calls'[c].answer = "taken" => KnownSlug(Imported(actor))
          /\ calls'[c].answer = "broken" => users[actor] = None
      BY <1>1, <1>5, EndsMoves
    <2>2. CallHolds(calls[c])' /\ Finds(c)
      BY <1>1, <1>5, <2>1 DEF AsksAs, CallHolds, Finds
    <2> QED
      BY <1>1, <1>5, <2>1, <2>2, TablesStay DEF Moves, onlyCalls
  <1>6. CASE /\ Inserted(row)
             /\ calls' = [calls EXCEPT ![c].row = NewRow, ![c].at = "podcast"]
    <2> DEFINE r == NewRow
               new == [calls[c] EXCEPT !.row = r, !.at = "podcast"]
    <2>1. row \in Row
      BY <1>1 DEF Row, Keys, Names, Keyed, Owned
    <2>2. WellFormed(row)
      BY <1>1, IdAssumption DEF WellFormed, Owned, Keyed, ParentOf, Keys, Names, Imported
    <2>3. row.table = "channel" /\ row.key = Imported(actor)
      OBVIOUS
    <2> HIDE DEF row
    <2>4. /\ UsersMove(c) /\ ProfilesMove(c) /\ RowsMove(c) /\ r \in Rows \ made
          /\ rows'[r] = row /\ made' = made \cup {r}
      BY <1>1, <1>6, <2>1, <2>2, <2>3, InsertedMoves
    <2>5. calls' = [calls EXCEPT ![c] = new]
      BY <1>6
    <2> HIDE DEF r
    <2>6. new \in Call
      BY <1>1, <2>4 DEF Call, Places
    <2>7. /\ new.op = calls[c].op /\ new.actor = calls[c].actor /\ new.key = calls[c].key
          /\ new.before = calls[c].before /\ new.row = r /\ new.token = calls[c].token
          /\ new.answer = calls[c].answer /\ new.at = "podcast" /\ new.target = calls[c].target
          /\ new.held = calls[c].held
      BY <1>1 DEF Call
    <2> HIDE DEF new
    <2>8. calls'[c] = new /\ CallMoves(c)
      BY <1>1, <2>5, <2>6, <2>7 DEF CallMoves, OthersStay, CallsHold
    <2>9. row # None
      BY <2>1
    <2>10. CallHolds(calls[c])' /\ Finds(c)
      BY <1>1, <2>3, <2>4, <2>7, <2>8, <2>9 DEF CallHolds, Finds
    <2> QED
      BY <1>1, <2>4, <2>8, <2>10 DEF Moves
  <1>7. CASE Ends(c, "taken") /\ Taken(row, None) /\ UNCHANGED <<rows, made>>
    <2>1. Ends(c, "taken") /\ KnownSlug(Imported(actor)) /\ UNCHANGED <<rows, made>>
      BY <1>3, <1>7
    <2> QED
      BY <1>5, <2>1
  <1>8. CASE Ends(c, "broken") /\ ~Refers(row) /\ UNCHANGED <<rows, made>>
    <2>1. Ends(c, "broken") /\ users[actor] = None /\ UNCHANGED <<rows, made>>
      BY <1>4, <1>8
    <2> QED
      BY <1>5, <2>1
  <1> QED
    BY <1>2, <1>6, <1>7, <1>8

LEMMA InsertPodcastMoves == ASSUME Tables, NEW c \in Requests, InsertPodcast(c) PROVE Moves(c)
  <1> USE ValueAssumption DEF Answers, Ops
  <1> DEFINE row == [table |-> "podcast", owner |-> None, parent |-> calls[c].row,
                     key |-> calls[c].key]
  <1>1. /\ calls[c].at = "podcast" /\ calls[c].op = "createFeed" /\ calls[c] \in Call
        /\ calls[c].answer = None /\ calls[c].token = None /\ calls[c].key \in Urls
        /\ calls[c].actor \in made \cap Users /\ calls[c].row \in made \cap Rows
        /\ CallsHold /\ Running(c) /\ UNCHANGED <<users, profiles, second>>
    BY DEF InsertPodcast, Tables, CallsHold, CallHolds, Running
  <1>2. \/ Ends(c, "taken") /\ Taken(row, None) /\ UNCHANGED <<rows, made>>
        \/ Ends(c, "broken") /\ ~Refers(row) /\ UNCHANGED <<rows, made>>
        \/ Inserted(row) /\ Ends(c, "ok")
    BY DEF InsertPodcast
  <1>3. Taken(row, None) => KnownUrl(calls[c].key)
    BY DEF Taken, KnownUrl
  <1>4. ~Refers(row) => rows[calls[c].row] = None \/ rows[calls[c].row].table # "channel"
    BY DEF Refers, ParentOf, Owned
  <1>5. /\ CallMoves(c) /\ AsksAs(calls'[c], calls[c]) /\ calls'[c].at = "done"
        /\ calls'[c].token = None /\ calls'[c].answer \in {"taken", "broken", "ok"}
        /\ calls'[c].answer = "taken" => KnownUrl(calls[c].key)
        /\ calls'[c].answer = "broken" => rows[calls[c].row] = None
                                           \/ rows[calls[c].row].table # "channel"
        /\ calls'[c].answer # "ok" => UNCHANGED <<rows, made>>
        /\ calls'[c].answer = "ok" => Inserted(row)
    <2> HIDE DEF row
    <2> QED
      BY <1>1, <1>2, <1>3, <1>4, EndsMoves
  <1>6. made \subseteq made'
    BY <1>5 DEF Inserted
  <1>7. CallHolds(calls[c])' /\ Finds(c)
    <2>1. calls'[c].row # None
      BY <1>1, <1>5, IdAssumption DEF AsksAs
    <2> QED
      BY <1>1, <1>5, <1>6, <2>1 DEF AsksAs, CallHolds, Finds
  <1>8. CASE calls'[c].answer # "ok"
    BY <1>1, <1>5, <1>7, <1>8, TablesStay DEF Moves, onlyCalls
  <1>9. CASE calls'[c].answer = "ok"
    <2>1. row \in Row
      BY <1>1 DEF Row, Keys, Keyed, Owned
    <2>2. WellFormed(row)
      BY <1>1, IdAssumption DEF WellFormed, Owned, Keyed, ParentOf, Keys
    <2>3. row.table = "podcast" /\ row.key = calls[c].key
      OBVIOUS
    <2> HIDE DEF row
    <2> QED
      BY <1>1, <1>5, <1>7, <1>9, <2>1, <2>2, <2>3, InsertedMoves DEF Moves
  <1> QED
    BY <1>8, <1>9

LEMMA ApiStep == ApiInv /\ [AccountsNext \/ CatalogNext]_apiVars => ApiInv'
  <1> SUFFICES ASSUME ApiInv, [AccountsNext \/ CatalogNext]_apiVars PROVE ApiInv'
    OBVIOUS
  <1>0. Tables /\ Changing
    BY DEF ApiInv
  <1>1. ASSUME NEW c \in Requests,
               \/ Register(c) \/ CreateUser(c) \/ InsertUser(c) \/ InsertProfile(c)
               \/ Login(c) \/ Compare(c) \/ Sign(c) \/ Store(c) \/ Refresh(c)
               \/ UpdateUser(c) \/ WriteUser(c) \/ RemoveUser(c) \/ UpdateProfile(c)
        PROVE  Moves(c)
    BY <1>0, <1>1, RegisterMoves, CreateUserMoves, InsertUserMoves, InsertProfileMoves, LoginMoves,
       CompareMoves, SignMoves, StoreMoves, RefreshMoves, UpdateUserMoves, WriteUserMoves,
       RemoveUserMoves, UpdateProfileMoves
  <1>2. ASSUME NEW c \in Requests,
               \/ CreateRow(c) \/ TriggerImport(c) \/ Find(c) \/ Change(c) \/ Delete(c)
               \/ CreateFeed(c) \/ FindChannel(c) \/ InsertChannel(c) \/ InsertPodcast(c)
        PROVE  Moves(c)
    BY <1>0, <1>2, CreateRowMoves, TriggerImportMoves, FindMoves, ChangeMoves, DeleteMoves,
       CreateFeedMoves, FindChannelMoves, InsertChannelMoves, InsertPodcastMoves
  <1>3. ASSUME UNCHANGED <<users, profiles, rows, made, calls>>, second' \in 0..MaxSecond
        PROVE  ApiInv'
    <2>1. Tables' /\ ProfilesCounted'
      BY <1>0, <1>3
      DEF ApiInv, Tables, TableTypes, IdsAreMade, CallsHold, CallHolds, WellFormed,
          ProfilesCounted, Making
    <2>2. Changing' /\ LatestSessionWorks'
      BY <1>3 DEF ApiInv, Changing, LatestSessionWorks, Overlap
    <2>3. AddressInv' /\ MissingInv'
      BY <1>3 DEF ApiInv, AddressInv, AddressRace, HasEmail, MissingInv, Overlap
    <2>4. ProfileInv'
      BY <1>3 DEF ApiInv, ProfileInv, MakesProfile, Overlap
    <2>5. FeedInv'
      BY <1>3 DEF ApiInv, FeedInv, UrlRace, TakesSlug, SlugRace, RemoveRace, KnownUrl, KnownSlug, Overlap
    <2> QED
      BY <2>1, <2>2, <2>3, <2>4, <2>5 DEF ApiInv
  <1>4. CASE SecondPasses
    <2>1. second' \in 0..MaxSecond
      BY <1>0, <1>4, ValueAssumption DEF SecondPasses, Tables, TableTypes
    <2> QED
      BY <1>3, <1>4, <2>1 DEF SecondPasses
  <1>5. CASE UNCHANGED apiVars
    BY <1>0, <1>3, <1>5 DEF apiVars, Tables, TableTypes
  <1> QED
    BY <1>1, <1>2, <1>4, <1>5, InvMoves DEF AccountsNext, CatalogNext

LEMMA ApiStarts == Init => ApiInv
  <1> USE ValueAssumption, IdAssumption
  <1> SUFFICES ASSUME Init PROVE ApiInv
    OBVIOUS
  <1>1. /\ users = InitialUsers /\ profiles = InitialProfiles /\ rows = InitialRows /\ second = 0
        /\ made = {u \in Users : InitialUsers[u] # None} \cup {r \in Rows : InitialRows[r] # None}
        /\ calls = [c \in Requests |-> Idle] /\ ApiAssumption
    BY ApiAssumptionHolds DEF Init
  <1>2. Idle \in Call
    BY DEF Idle, Call, Places
  <1>3. /\ Idle.at = "new" /\ Idle.op = None /\ Idle.target = None /\ Idle.token = None
        /\ Idle.answer = None /\ Idle.before = {}
    BY DEF Idle
  <1>4. CallsHold
    BY <1>1, <1>2, <1>3 DEF CallsHold, CallHolds, Ops, Answers
  <1>5. TableTypes
    BY <1>1 DEF ApiAssumption, TableTypes
  <1>6. IdsAreMade
    BY <1>1 DEF ApiAssumption, IdsAreMade
  <1>7. ProfilesCounted
    <2>1. Making = Requests
      BY <1>1, <1>3 DEF Making
    <2>2. Cardinality(Requests) \in Nat
      BY FS_CardinalityType
    <2> QED
      BY <1>1, <2>1, <2>2 DEF ApiAssumption, ProfilesCounted
  <1>8. Changing /\ AddressInv /\ MissingInv /\ FeedInv /\ LatestSessionWorks
    BY <1>1, <1>3 DEF Changing, AddressInv, MissingInv, FeedInv, LatestSessionWorks, Ops, Answers
  <1>9. ProfileInv
    BY <1>1, <1>3 DEF ApiAssumption, ProfileInv
  <1> QED
    BY <1>4, <1>5, <1>6, <1>7, <1>8, <1>9 DEF ApiInv, Tables

\* The invariant of the tables and of the requests on them: what a request found is so until
\* another that runs beside it changes it.
THEOREM SpecApiInv == Spec => []ApiInv
  <1>1. ApiInv /\ [Next]_vars => ApiInv'
    BY ApiStep, StepsAreOfOne
  <1> QED
    BY <1>1, ApiStarts, PTL DEF Spec

LEMMA TablesAreTyped == ApiInv => TablesTypeOK
  <1> SUFFICES ASSUME ApiInv PROVE TablesTypeOK
    OBVIOUS
  <1>1. IsFiniteSet(Making) /\ Cardinality(Making) \in Nat /\ Cardinality(Requests) \in Nat
    BY ValueAssumption, FS_Subset, FS_CardinalityType DEF Making
  <1>2. profiles \in [Users -> 0..Cardinality(Requests) + 1]
    BY <1>1 DEF ApiInv, Tables, TableTypes, ProfilesCounted
  <1> QED
    BY <1>2 DEF ApiInv, Tables, TableTypes, IdsAreMade, CallsHold, CallHolds, TablesTypeOK

LEMMA RacesAreNeeded ==
    ApiInv => /\ TakenAddressNeedsARace /\ SecondProfileNeedsARace
              /\ RefusedFeedNeedsARace /\ MissingNeedsARace
  <1> SUFFICES ASSUME ApiInv
               PROVE  /\ TakenAddressNeedsARace /\ SecondProfileNeedsARace
                      /\ RefusedFeedNeedsARace /\ MissingNeedsARace
    OBVIOUS
  <1>1. TakenAddressNeedsARace
    BY DEF ApiInv, AddressInv, AddressRace, TakenAddressNeedsARace
  <1>2. SecondProfileNeedsARace
    BY DEF ApiInv, ProfileInv, MakesProfile, SecondProfileNeedsARace
  <1>3. RefusedFeedNeedsARace
    BY DEF ApiInv, FeedInv, UrlRace, TakesSlug, SlugRace, RemoveRace, RefusedFeedNeedsARace
  <1>4. MissingNeedsARace
    BY DEF ApiInv, MissingInv, MissingNeedsARace
  <1> QED
    BY <1>1, <1>2, <1>3, <1>4

\* Of any requests to any tables: what the services do not guard against goes wrong only when
\* two requests ran side by side, an address or a URL that was found free and is refused, a
\* row that was found and is missing, a second profile, a session of nobody (register,
\* feeds.create, update and remove, profiles.update, the package's register).
THEOREM TablesAlwaysHold == Spec => []TablesHold
  <1>1. Init => PackageInv /\ serving \in Served
    BY PackageStarts DEF Init
  <1>2. PackageInv /\ serving \in Served /\ [Next]_vars => PackageInv' /\ (serving \in Served)'
    BY PackageStep, StepsAreOfOne
  <1>3. ApiInv /\ PackageInv /\ serving \in Served => TablesHold
    BY TablesAreTyped, RacesAreNeeded, PackageRaces DEF TablesHold, OnlyRacesGoWrong, PackageInv
  <1> QED
    BY <1>1, <1>2, <1>3, SpecApiInv, PTL DEF Spec

\* A refresh token that was answered works until a later or a concurrent sign-in of that
\* user is stored, with any sign-ins, updates and removals (AuthService.register, login,
\* refresh).
THEOREM LatestSessionsWork == Spec => []LatestSessionWorks
  <1>1. ApiInv => LatestSessionWorks
    BY DEF ApiInv
  <1> QED
    BY <1>1, SpecApiInv, PTL
=============================================================================
