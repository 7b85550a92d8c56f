-------------------------- MODULE UnlockRelayProofs --------------------------
(***************************************************************************)
(* Theorems about UnlockRelay.  A window is full when the limiter's list   *)
(* is, because each forwarded call that can still share a window with one  *)
(* of this moment has its time in the list (Limited); for the share of a   *)
(* wallet, requests under way count as well, since they may be forwarded   *)
(* later (ShareInv).  The reading the guard trusts was asked for before    *)
(* the credit got low, if it suffices (GuardInv).                          *)
(***************************************************************************)
EXTENDS UnlockRelay, FiniteSetTheorems, WellFoundedInduction, TLAPS

-----------------------------------------------------------------------------
(* 1. A limit of the last calls.  The limiter remembers times in a list,   *)
(* and forgets those that left the window; what it let through are events, *)
(* each with its time.  Nothing here needs the list to be in order.        *)

\* A set of numbers that is not empty has a least one.
LEMMA LeastNumber ==
  ASSUME NEW N \in SUBSET Nat, N # {}
  PROVE  \E m \in N : \A n \in N : m <= n
<1> DEFINE R == {ss \in Nat \X Nat : ss[1] < ss[2]}
<1>1. IsWellFoundedOn(R, Nat) BY NatLessThanWellFounded DEF OpToRel
<1>2. N \subseteq Nat OBVIOUS
<1> HIDE DEF R
<1>3. PICK m \in N : \A n \in N : ~(<<n, m>> \in R) BY <1>1, <1>2, WFMin
<1>4. ASSUME NEW n \in N PROVE m <= n
  <2>1. m \in Nat /\ n \in Nat BY <1>2
  <2>2. <<n, m>> \in Nat \X Nat BY <2>1
  <2>3. ~(n < m) BY <1>3, <2>2 DEF R
  <2> QED BY <2>1, <2>3
<1> QED BY <1>4

\* What is dropped from a list is its front, and all of it is old.
LEMMA DropsTheFront ==
  ASSUME NEW list \in Seq(Nat), NEW last \in Int
  PROVE  \E k \in 1 .. Len(list) + 1 :
           /\ DropUpTo(list, last) = SubSeq(list, k, Len(list))
           /\ \A j \in 1 .. k - 1 : list[j] <= last
<1> DEFINE First(i) == /\ \A j \in 1 .. i - 1 : list[j] <= last
                       /\ i = Len(list) + 1 \/ list[i] > last
<1>1. Len(list) \in Nat /\ \A i \in 1 .. Len(list) : list[i] \in Nat OBVIOUS
<1>2. \E i \in 1 .. Len(list) + 1 : First(i)
  <2> DEFINE N == {i \in 1 .. Len(list) : list[i] > last}
  <2>1. CASE N = {}
    <3>1. \A j \in 1 .. Len(list) + 1 - 1 : list[j] <= last BY <1>1, <2>1
    <3>2. First(Len(list) + 1) BY <3>1
    <3> QED BY <1>1, <3>2
  <2>2. CASE N # {}
    <3>1. N \in SUBSET Nat BY <1>1
    <3>2. PICK m \in N : \A n \in N : m <= n
      <4> HIDE DEF N
      <4> QED BY <2>2, <3>1, LeastNumber
    <3>3. m \in 1 .. Len(list) /\ list[m] > last BY <3>2
    <3>4. \A j \in 1 .. m - 1 : list[j] <= last BY <1>1, <3>2, <3>3
    <3>5. First(m) BY <3>3, <3>4
    <3> QED BY <1>1, <3>3, <3>5
  <2> QED BY <2>1, <2>2
<1> DEFINE k == CHOOSE i \in 1 .. Len(list) + 1 : First(i)
<1>3. k \in 1 .. Len(list) + 1 /\ First(k)
  <2> HIDE DEF First
  <2> QED BY <1>2
<1>4. DropUpTo(list, last) = SubSeq(list, k, Len(list)) BY DEF DropUpTo
<1> HIDE DEF k
<1> QED BY <1>3, <1>4

\* Where a list has times from t on.
From(list, t) == {i \in DOMAIN list : list[i] >= t}

LEMMA FromFinite ==
  ASSUME NEW list \in Seq(Nat), NEW t
  PROVE  /\ IsFiniteSet(From(list, t)) /\ Cardinality(From(list, t)) \in Nat
         /\ Cardinality(From(list, t)) <= Len(list)
<1>1. DOMAIN list = 1 .. Len(list) /\ Len(list) \in Nat OBVIOUS
<1>2. IsFiniteSet(1 .. Len(list)) /\ Cardinality(1 .. Len(list)) = Len(list)
  <2>1. 1 \in Int /\ Len(list) \in Int BY <1>1
  <2> DEFINE n == Len(list)
  <2>2. IsFiniteSet(1 .. n) /\ Cardinality(1 .. n) = IF 1 > n THEN 0 ELSE n - 1 + 1
    BY <2>1, FS_Interval
  <2> HIDE DEF n
  <2>3. n \in Nat BY <1>1 DEF n
  <2>4. Cardinality(1 .. n) = n BY <2>2, <2>3
  <2> QED BY <2>2, <2>4 DEF n
<1>3. From(list, t) \in SUBSET (1 .. Len(list)) BY <1>1 DEF From
<1> QED BY <1>2, <1>3, FS_Subset, FS_CardinalityType

\* A list that is pruned is a list of times, and has lost none within the window.
LEMMA Pruned ==
  ASSUME NEW list \in Seq(Nat), NEW window \in Nat, now \in Nat
  PROVE  /\ Prune(list, window) \in Seq(Nat)
         /\ \A t \in Int : t > now - window =>
              Cardinality(From(list, t)) <= Cardinality(From(Prune(list, window), t))
<1> DEFINE last == now - window
           short == Prune(list, window)
<1>0. last \in Int OBVIOUS
<1>1. PICK k \in 1 .. Len(list) + 1 :
        short = SubSeq(list, k, Len(list)) /\ \A j \in 1 .. k - 1 : list[j] <= last
  BY <1>0, DropsTheFront DEF Prune
<1> HIDE DEF short
<1>2. Len(list) \in Nat /\ DOMAIN list = 1 .. Len(list) OBVIOUS
<1>3. /\ short \in Seq(Nat) /\ Len(short) = Len(list) - k + 1
      /\ \A i \in 1 .. Len(list) - k + 1 : short[i] = list[i + k - 1]
  BY <1>1, <1>2
<1>4. DOMAIN short = 1 .. Len(list) - k + 1 BY <1>3
<1>5. ASSUME NEW t \in Int, t > last
      PROVE  Cardinality(From(list, t)) <= Cardinality(From(short, t))
  <2> DEFINE f == [i \in From(list, t) |-> i - k + 1]
  <2>1. ASSUME NEW i \in From(list, t)
        PROVE  i \in Nat /\ i - k + 1 \in From(short, t)
    <3>1. i \in 1 .. Len(list) /\ list[i] >= t /\ list[i] \in Nat BY <1>2 DEF From
    <3>2. i >= k BY <1>0, <1>1, <1>5, <3>1
    <3>3. i - k + 1 \in 1 .. Len(list) - k + 1 BY <1>2, <3>1, <3>2
    <3>4. short[i - k + 1] = list[i] BY <1>3, <3>1, <3>3
    <3> QED BY <1>4, <3>1, <3>3, <3>4 DEF From
  <2>2. f \in Injection(From(list, t), From(short, t)) BY <2>1 DEF Injection, IsInjective
  <2> HIDE DEF f
  <2>3. IsFiniteSet(From(short, t)) BY <1>3, <1>5, FromFinite
  <2> QED BY <2>2, <2>3, FS_Injection
<1> QED BY <1>3, <1>5 DEF short

LEMMA Appended ==
  ASSUME NEW list \in Seq(Nat), NEW n \in Nat, NEW t \in Int, t <= n
  PROVE  /\ Append(list, n) \in Seq(Nat)
         /\ Cardinality(From(Append(list, n), t)) = Cardinality(From(list, t)) + 1
<1> DEFINE e == Len(list) + 1
<1>1. e \in Nat /\ DOMAIN list = 1 .. Len(list) /\ DOMAIN Append(list, n) = 1 .. e OBVIOUS
<1>2. From(Append(list, n), t) = From(list, t) \cup {e} BY <1>1 DEF From
<1>3. e \notin From(list, t) BY <1>1 DEF From
<1>4. IsFiniteSet(From(list, t)) BY FromFinite
<1>5. Append(list, n) \in Seq(Nat) OBVIOUS
<1> HIDE DEF e
<1> QED BY <1>2, <1>3, <1>4, <1>5, FS_AddElement

-----------------------------------------------------------------------------
\* Events within a window, and those from t on.
Within(times, t, window) == {e \in DOMAIN times : times[e] \in t .. t + window - 1}
Since(times, t) == {e \in DOMAIN times : times[e] >= t}

\* No window has more events than the limit, and what can still be in a window with an
\* event of this moment is in the list.
Limited(moment, times, list, window, limit) ==
  /\ IsFiniteSet(DOMAIN times) /\ times \in [DOMAIN times -> 0 .. moment]
  /\ list \in Seq(Nat)
  /\ \A t \in Nat : Cardinality(Within(times, t, window)) <= limit
  /\ \A t \in Nat : t > moment - window =>
       Cardinality(Since(times, t)) <= Cardinality(From(list, t))

LEMMA EventsFinite ==
  ASSUME NEW times, IsFiniteSet(DOMAIN times), NEW t, NEW window
  PROVE  /\ IsFiniteSet(Within(times, t, window)) /\ Cardinality(Within(times, t, window)) \in Nat
         /\ IsFiniteSet(Since(times, t)) /\ Cardinality(Since(times, t)) \in Nat
<1>1. Within(times, t, window) \in SUBSET DOMAIN times /\ Since(times, t) \in SUBSET DOMAIN times
  BY DEF Within, Since
<1> QED BY <1>1, FS_Subset, FS_CardinalityType

LEMMA LimitedNone ==
  ASSUME NEW moment, NEW times, DOMAIN times = {}, times \in [DOMAIN times -> 0 .. moment],
         NEW window, NEW limit \in Nat
  PROVE  Limited(moment, times, <<>>, window, limit)
<1>1. \A t : Within(times, t, window) = {} /\ Since(times, t) = {} BY DEF Within, Since
<1>2. IsFiniteSet({}) /\ Cardinality({}) = 0 BY FS_EmptySet
<1>3. \A t : From(<<>>, t) = {} BY DEF From
<1>4. ASSUME NEW t \in Nat
      PROVE  /\ Cardinality(Within(times, t, window)) <= limit
             /\ Cardinality(Since(times, t)) <= Cardinality(From(<<>>, t))
  <2>1. /\ Cardinality(Within(times, t, window)) = 0 /\ Cardinality(Since(times, t)) = 0
        /\ Cardinality(From(<<>>, t)) = 0
    BY <1>1, <1>2, <1>3
  <2>2. 0 <= limit /\ 0 <= 0 OBVIOUS
  <2> QED BY <2>1, <2>2
<1>5. <<>> \in Seq(Nat) OBVIOUS
<1> QED BY <1>2, <1>4, <1>5 DEF Limited

\* Time goes on.
LEMMA LimitedLater ==
  ASSUME NEW moment \in Nat, NEW times, NEW list, NEW window \in Nat, NEW limit,
         Limited(moment, times, list, window, limit)
  PROVE  Limited(moment + 1, times, list, window, limit)
<1>1. times \in [DOMAIN times -> 0 .. moment + 1]
  <2>1. times \in [DOMAIN times -> 0 .. moment] BY DEF Limited
  <2>2. \A x \in 0 .. moment : x \in 0 .. moment + 1 OBVIOUS
  <2> QED BY <2>1, <2>2
<1>2. \A t \in Nat : t > moment + 1 - window => t > moment - window OBVIOUS
<1> QED BY <1>1, <1>2 DEF Limited

\* Events end, or are told under another name.
LEMMA LimitedFewer ==
  ASSUME NEW moment \in Nat, NEW times, NEW list, NEW window \in Nat, NEW limit \in Nat,
         Limited(moment, times, list, window, limit),
         NEW times2, NEW was \in [DOMAIN times2 -> DOMAIN times],
         times2 = [e \in DOMAIN times2 |-> times[was[e]]],
         \A d, e \in DOMAIN times2 : was[d] = was[e] => d = e
  PROVE  Limited(moment, times2, list, window, limit)
<1>1. IsFiniteSet(DOMAIN times2)
  <2>1. was \in Injection(DOMAIN times2, DOMAIN times) BY DEF Injection, IsInjective
  <2> QED BY <2>1, FS_Injection DEF Limited
<1>2. times \in [DOMAIN times -> 0 .. moment] BY DEF Limited
<1>3. times2 \in [DOMAIN times2 -> 0 .. moment] BY <1>2
<1>4. ASSUME NEW t
      PROVE  /\ Cardinality(Within(times2, t, window)) <= Cardinality(Within(times, t, window))
             /\ Cardinality(Since(times2, t)) <= Cardinality(Since(times, t))
  <2>1. IsFiniteSet(Within(times, t, window)) /\ IsFiniteSet(Since(times, t))
    BY EventsFinite DEF Limited
  <2> DEFINE A == Within(times2, t, window)
             B == Within(times, t, window)
             f == [e \in A |-> was[e]]
             C == Since(times2, t)
             D == Since(times, t)
             g == [e \in C |-> was[e]]
  <2>2. f \in Injection(A, B) BY DEF Injection, IsInjective, Within
  <2>3. g \in Injection(C, D) BY DEF Injection, IsInjective, Since
  <2> HIDE DEF A, B, C, D, f, g
  <2>4. IsFiniteSet(B) /\ IsFiniteSet(D) BY <2>1 DEF B, D
  <2>5. Cardinality(A) <= Cardinality(B) BY <2>2, <2>4, FS_Injection
  <2>6. Cardinality(C) <= Cardinality(D) BY <2>3, <2>4, FS_Injection
  <2> QED BY <2>5, <2>6 DEF A, B, C, D
<1>5. list \in Seq(Nat) BY DEF Limited
<1>6. ASSUME NEW t \in Nat PROVE Cardinality(Within(times2, t, window)) <= limit
  <2>1. Cardinality(Within(times, t, window)) <= limit BY DEF Limited
  <2>2. /\ Cardinality(Within(times2, t, window)) \in Nat
        /\ Cardinality(Within(times, t, window)) \in Nat
    BY <1>1, EventsFinite DEF Limited
  <2>3. Cardinality(Within(times2, t, window)) <= Cardinality(Within(times, t, window)) BY <1>4
  <2> QED BY <2>1, <2>2, <2>3
<1>7. ASSUME NEW t \in Nat, t > moment - window
      PROVE  Cardinality(Since(times2, t)) <= Cardinality(From(list, t))
  <2>1. Cardinality(Since(times, t)) <= Cardinality(From(list, t)) BY <1>7 DEF Limited
  <2>2. Cardinality(Since(times2, t)) \in Nat /\ Cardinality(Since(times, t)) \in Nat
    BY <1>1, EventsFinite DEF Limited
  <2>3. Cardinality(From(list, t)) \in Nat BY <1>5, FromFinite
  <2>4. Cardinality(Since(times2, t)) <= Cardinality(Since(times, t)) BY <1>4
  <2> QED BY <2>1, <2>2, <2>3, <2>4
<1> QED BY <1>1, <1>3, <1>5, <1>6, <1>7 DEF Limited

\* The list is pruned.
LEMMA LimitedPruned ==
  ASSUME now \in Nat, NEW times, NEW list, NEW window \in Nat, NEW limit,
         Limited(now, times, list, window, limit)
  PROVE  Limited(now, times, Prune(list, window), window, limit)
<1>1. list \in Seq(Nat) BY DEF Limited
<1>2. Prune(list, window) \in Seq(Nat) BY <1>1, Pruned
<1>3. ASSUME NEW t \in Nat, t > now - window
      PROVE  Cardinality(Since(times, t)) <= Cardinality(From(Prune(list, window), t))
  <2>1. Cardinality(Since(times, t)) <= Cardinality(From(list, t)) BY <1>3 DEF Limited
  <2>2. Cardinality(From(list, t)) <= Cardinality(From(Prune(list, window), t))
    BY <1>1, <1>3, Pruned
  <2>3. Cardinality(Since(times, t)) \in Nat BY EventsFinite DEF Limited
  <2>4. Cardinality(From(list, t)) \in Nat /\ Cardinality(From(Prune(list, window), t)) \in Nat
    BY <1>1, <1>2, FromFinite
  <2> QED BY <2>1, <2>2, <2>3, <2>4
<1> QED BY <1>2, <1>3 DEF Limited

\* Below the limit, one more event is let through and written down.
LEMMA LimitedTakes ==
  ASSUME now \in Nat, NEW times, NEW list, NEW window \in Nat \ {0}, NEW limit \in Nat,
         Limited(now, times, list, window, limit), Len(list) < limit,
         NEW e, e \notin DOMAIN times, NEW times2,
         times2 = [d \in DOMAIN times \cup {e} |-> IF d = e THEN now ELSE times[d]]
  PROVE  Limited(now, times2, Append(list, now), window, limit)
<1>1. list \in Seq(Nat) /\ IsFiniteSet(DOMAIN times) /\ times \in [DOMAIN times -> 0 .. now]
  BY DEF Limited
<1>2. IsFiniteSet(DOMAIN times2) BY <1>1, FS_AddElement
<1>3. times2 \in [DOMAIN times2 -> 0 .. now] BY <1>1
<1>4. Append(list, now) \in Seq(Nat) BY <1>1
<1>5. ASSUME NEW t \in Nat, t <= now
      PROVE  Cardinality(Since(times2, t)) = Cardinality(Since(times, t)) + 1
  <2>1. Since(times2, t) = Since(times, t) \cup {e} /\ e \notin Since(times, t) BY <1>5 DEF Since
  <2>2. IsFiniteSet(Since(times, t)) BY <1>1, EventsFinite
  <2> QED BY <2>1, <2>2, FS_AddElement
<1>6. ASSUME NEW t \in Nat, t > now - window
      PROVE  Cardinality(Since(times2, t)) <= Cardinality(From(Append(list, now), t))
  <2>1. CASE t <= now
    <3>1. Cardinality(Since(times, t)) <= Cardinality(From(list, t)) BY <1>6 DEF Limited
    <3>2. Cardinality(Since(times2, t)) = Cardinality(Since(times, t)) + 1 BY <1>5, <2>1
    <3>3. Cardinality(From(Append(list, now), t)) = Cardinality(From(list, t)) + 1
      BY <1>1, <2>1, Appended
    <3>4. Cardinality(Since(times, t)) \in Nat /\ Cardinality(From(list, t)) \in Nat
      <4>1. Cardinality(Since(times, t)) \in Nat BY <1>1, EventsFinite
      <4>2. Cardinality(From(list, t)) \in Nat BY <1>1, FromFinite
      <4> QED BY <4>1, <4>2
    <3> QED BY <3>1, <3>2, <3>3, <3>4
  <2>2. CASE t > now
    <3>1. \A x \in 0 .. now : ~(x >= t) BY <2>2
    <3>2. Since(times2, t) = {} BY <1>3, <3>1 DEF Since
    <3>3. Cardinality(Since(times2, t)) = 0 BY <3>2, FS_EmptySet
    <3>4. Cardinality(From(Append(list, now), t)) \in Nat BY <1>4, FromFinite
    <3> QED BY <3>3, <3>4
  <2> QED BY <2>1, <2>2
<1>7. ASSUME NEW t \in Nat PROVE Cardinality(Within(times2, t, window)) <= limit
  <2>1. CASE now \in t .. t + window - 1
    <3>1. t > now - window /\ t <= now BY <2>1
    <3>2. Within(times2, t, window) \in SUBSET Since(times2, t) BY <1>3 DEF Within, Since
    <3>3. IsFiniteSet(Since(times2, t)) BY <1>2, EventsFinite
    <3>4. Cardinality(Within(times2, t, window)) <= Cardinality(Since(times2, t))
      BY <3>2, <3>3, FS_Subset
    <3>5. Cardinality(Since(times2, t)) = Cardinality(Since(times, t)) + 1 BY <1>5, <3>1
    <3>6. Cardinality(Since(times, t)) <= Cardinality(From(list, t)) BY <3>1 DEF Limited
    <3>7. Cardinality(From(list, t)) <= Len(list) BY <1>1, FromFinite
    <3>8. /\ Cardinality(Within(times2, t, window)) \in Nat /\ Cardinality(Since(times, t)) \in Nat
          /\ Cardinality(From(list, t)) \in Nat /\ Len(list) \in Nat
      <4>1. Cardinality(Within(times2, t, window)) \in Nat BY <1>2, EventsFinite
      <4>2. Cardinality(Since(times, t)) \in Nat BY <1>1, EventsFinite
      <4>3. Cardinality(From(list, t)) \in Nat BY <1>1, FromFinite
      <4>4. Len(list) \in Nat BY <1>1
      <4> QED BY <4>1, <4>2, <4>3, <4>4
    <3>9. Cardinality(Since(times2, t)) \in Nat BY <1>2, EventsFinite
    <3>10. Cardinality(Since(times, t)) <= Len(list) BY <3>6, <3>7, <3>8
    <3>11. Cardinality(Since(times2, t)) <= limit BY <3>5, <3>8, <3>9, <3>10
    <3> QED BY <3>4, <3>8, <3>9, <3>11
  <2>2. CASE now \notin t .. t + window - 1
    <3>1. Within(times2, t, window) = Within(times, t, window) BY <2>2 DEF Within
    <3> QED BY <3>1 DEF Limited
  <2> QED BY <2>1, <2>2
<1> QED BY <1>2, <1>3, <1>4, <1>6, <1>7 DEF Limited

-----------------------------------------------------------------------------
(* 2. The state of the relay.                                              *)

Waypoints == {"chain", "cid", "balance", "told"}
Sends == [wallet : Wallets \cup {Nobody}, charged : Nat, at : Nat]

\* A request goes to a point, or is answered.
LEMMA Moves ==
  ASSUME TypeOK, NEW r \in Requests, NEW x
  PROVE  /\ Go(r, x) => \A q \in Requests : at'[q] = IF q = r THEN x ELSE at[q]
         /\ x \in Waypoints \cup {"ready", "lit"} /\ Go(r, x) =>
              at' \in [Requests -> {"ready", "chain", "cid", "balance", "told", "lit"}]
         /\ Reply(r) => /\ at' \in [Requests -> {"ready", "chain", "cid", "balance", "told", "lit"}]
                        /\ call' \in [Requests -> Calls]
                        /\ \A q \in Requests : /\ at'[q] = IF q = r THEN "ready" ELSE at[q]
                                               /\ q # r => call'[q] = call[q]
<1> DEFINE At == [Requests -> {"ready", "chain", "cid", "balance", "told", "lit"}]
<1>1. at \in At /\ call \in [Requests -> Calls] BY DEF TypeOK
<1>2. ASSUME NEW y, Go(r, y)
      PROVE  /\ \A q \in Requests : at'[q] = IF q = r THEN y ELSE at[q]
             /\ y \in Waypoints \cup {"ready", "lit"} => at' \in At
  BY <1>1, <1>2 DEF Go, Waypoints
<1>3. ASSUME Reply(r)
      PROVE  call' \in [Requests -> Calls] /\ \A q \in Requests : q # r => call'[q] = call[q]
  <2>1. Unknown \in Int BY DEF Unknown
  <2>2. Idle \in Calls BY <2>1 DEF Idle, Calls
  <2>3. call' = [call EXCEPT ![r] = Idle] BY <1>3 DEF Reply
  <2> QED BY <1>1, <2>2, <2>3
<1>4. Reply(r) => Go(r, "ready") BY DEF Reply
<1> QED BY <1>2, <1>3, <1>4

LEMMA PrunedLists ==
  ASSUME TypeOK
  PROVE  /\ now \in Nat /\ PerHour \in Nat /\ PerDay \in Nat /\ PerWallet \in Nat
         /\ Hour \in Nat \ {0} /\ Day \in Nat \ {0} /\ WalletWindow \in Nat \ {0}
         /\ lastHour \in Seq(Nat) /\ lastDay \in Seq(Nat)
         /\ Prune(lastHour, Hour) \in Seq(Nat) /\ Prune(lastDay, Day) \in Seq(Nat)
         /\ \A w \in Wallets : Prune(taken[w], WalletWindow) \in Seq(Nat)
<1>1. /\ now \in Nat /\ PerHour \in Nat /\ PerDay \in Nat /\ PerWallet \in Nat
      /\ Hour \in Nat \ {0} /\ Day \in Nat \ {0} /\ WalletWindow \in Nat \ {0}
      /\ Hour \in Nat /\ Day \in Nat /\ WalletWindow \in Nat
  BY RelayAssumption DEF TypeOK
<1>2. lastHour \in Seq(Nat) /\ lastDay \in Seq(Nat) /\ \A w \in Wallets : taken[w] \in Seq(Nat)
  BY DEF TypeOK
<1>3. ASSUME NEW w \in Wallets PROVE Prune(taken[w], WalletWindow) \in Seq(Nat)
  BY <1>1, <1>2, Pruned
<1>4. Prune(lastHour, Hour) \in Seq(Nat) /\ Prune(lastDay, Day) \in Seq(Nat)
  BY <1>1, <1>2, Pruned
<1> QED BY <1>1, <1>2, <1>3, <1>4

\* What Forward() does: a call is sent and both ceilings are taken from, or it is not and
\* the lists are pruned, if that.
LEMMA ForwardDoes ==
  ASSUME NEW r, NEW cents, Forward(r, cents)
  PROVE  \/ /\ Enough(cents) /\ MayForward /\ Go(r, "lit") /\ call' = call
            /\ lastHour' = Append(Prune(lastHour, Hour), now)
            /\ lastDay' = Append(Prune(lastDay, Day), now)
            /\ forwarded' = Append(forwarded, [wallet |-> call[r].wallet,
                                               charged |-> call[r].charged, at |-> now])
         \/ /\ Reply(r) /\ forwarded' = forwarded
            /\ lastHour' \in {lastHour, Prune(lastHour, Hour)}
            /\ lastDay' \in {lastDay, Prune(lastDay, Day)}
BY DEF Forward, TakeGlobal, Check

LEMMA ForwardTypes ==
  ASSUME TypeOK, NEW r \in Requests, NEW cents, Forward(r, cents)
  PROVE  /\ lastHour' \in Seq(Nat) /\ lastDay' \in Seq(Nat)
         /\ at' \in [Requests -> {"ready", "chain", "cid", "balance", "told", "lit"}]
         /\ call' \in [Requests -> Calls]
         /\ forwarded' \in Seq(Sends)
<1>1. /\ now \in Nat /\ lastHour \in Seq(Nat) /\ lastDay \in Seq(Nat)
      /\ Prune(lastHour, Hour) \in Seq(Nat) /\ Prune(lastDay, Day) \in Seq(Nat)
  BY PrunedLists
<1>2. forwarded \in Seq(Sends) /\ call[r] \in Calls /\ call \in [Requests -> Calls]
  BY DEF TypeOK, Sends
<1>3. [wallet |-> call[r].wallet, charged |-> call[r].charged, at |-> now] \in Sends
  BY <1>1, <1>2 DEF Calls, Sends
<1>4. CASE Reply(r) /\ forwarded' = forwarded
           /\ lastHour' \in {lastHour, Prune(lastHour, Hour)}
           /\ lastDay' \in {lastDay, Prune(lastDay, Day)}
  BY <1>1, <1>2, <1>4, Moves
<1>5. CASE /\ Go(r, "lit") /\ call' = call
           /\ lastHour' = Append(Prune(lastHour, Hour), now)
           /\ lastDay' = Append(Prune(lastDay, Day), now)
           /\ forwarded' = Append(forwarded, [wallet |-> call[r].wallet,
                                              charged |-> call[r].charged, at |-> now])
  <2> DEFINE f == [wallet |-> call[r].wallet, charged |-> call[r].charged, at |-> now]
  <2>1. f \in Sends /\ forwarded' = Append(forwarded, f) BY <1>3, <1>5
  <2> HIDE DEF f
  <2>2. forwarded' \in Seq(Sends) BY <1>2, <2>1
  <2>3. lastHour' \in Seq(Nat) /\ lastDay' \in Seq(Nat) BY <1>1, <1>5
  <2>4. "lit" \in Waypoints \cup {"ready", "lit"} OBVIOUS
  <2>5. at' \in [Requests -> {"ready", "chain", "cid", "balance", "told", "lit"}]
    BY <1>5, <2>4, Moves
  <2> QED BY <1>2, <1>5, <2>2, <2>3, <2>5
<1> QED BY <1>4, <1>5, ForwardDoes

\* The balance stays a number of cents, and the time it got low a time.
LEMMA BalanceTypes ==
  ASSUME TypeOK, NEW c \in Int, Balance(c)
  PROVE  credit' \in Int /\ lowSince' \in Nat \cup {Never}
BY DEF TypeOK, Balance

LEMMA RequestTypes == ASSUME TypeOK, NEW r \in Requests, RequestStep(r) PROVE TypeOK'
<1> DEFINE At == [Requests -> {"ready", "chain", "cid", "balance", "told", "lit"}]
<1>1. /\ now \in Nat /\ credit \in Int /\ lowSince \in Nat \cup {Never} /\ at \in At
      /\ taken \in [Wallets -> Seq(Nat)] /\ lastHour \in Seq(Nat) /\ lastDay \in Seq(Nat)
      /\ reading \in SUBSET [cents : Int, at : Nat] /\ call \in [Requests -> Calls]
      /\ forwarded \in Seq(Sends)
  BY DEF TypeOK, Sends
<1>2. SUFFICES /\ now' \in Nat /\ credit' \in Int /\ lowSince' \in Nat \cup {Never} /\ at' \in At
               /\ taken' \in [Wallets -> Seq(Nat)] /\ lastHour' \in Seq(Nat) /\ lastDay' \in Seq(Nat)
               /\ reading' \in SUBSET [cents : Int, at : Nat] /\ call' \in [Requests -> Calls]
               /\ forwarded' \in Seq(Sends)
  BY DEF TypeOK, Sends
<1>3. \A x \in Waypoints \cup {"ready", "lit"} : Go(r, x) => at' \in At BY Moves
<1>4. Reply(r) => at' \in At /\ call' \in [Requests -> Calls] BY Moves
<1>5. CASE Arrive(r)
  <2>1. PICK w \in Wallets :
          /\ Charge(w)
          /\ IF MayCharge(w)
               THEN Go(r, "chain") /\ call' = [call EXCEPT ![r].wallet = w, ![r].charged = now]
               ELSE UNCHANGED requests
    BY <1>5 DEF Arrive
  <2>2. taken' \in [Wallets -> Seq(Nat)]
    <3>1. Prune(taken[w], WalletWindow) \in Seq(Nat) BY PrunedLists
    <3>2. Append(Prune(taken[w], WalletWindow), now) \in Seq(Nat) BY <1>1, <3>1
    <3> QED BY <1>1, <2>1, <3>1, <3>2 DEF Charge
  <2>3. at' \in At /\ call' \in [Requests -> Calls]
    <3>1. CASE Go(r, "chain") /\ call' = [call EXCEPT ![r].wallet = w, ![r].charged = now]
      <4>1. call' \in [Requests -> Calls] BY <1>1, <3>1 DEF Calls
      <4> QED BY <1>3, <3>1, <4>1 DEF Waypoints
    <3>2. CASE UNCHANGED requests BY <1>1, <3>2 DEF requests
    <3> QED BY <2>1, <3>1, <3>2
  <2>4. UNCHANGED <<now, credit, lowSince, lastHour, lastDay, reading, forwarded>>
    BY <1>5 DEF Arrive, account
  <2> QED BY <1>1, <2>2, <2>3, <2>4
<1>6. CASE LetIn(r)
  BY <1>1, <1>3, <1>6 DEF LetIn, account, limiter, Waypoints
<1>7. CASE CheckCid(r)
  <2>1. UNCHANGED <<now, credit, lowSince, taken, reading>> BY <1>7 DEF CheckCid, account
  <2>2. CASE \E cents : Forward(r, cents) BY <1>1, <2>1, <2>2, ForwardTypes
  <2>3. CASE Go(r, "balance") /\ call' = [call EXCEPT ![r].began = now]
             /\ UNCHANGED <<lastHour, lastDay, forwarded>>
    <3>1. call' \in [Requests -> Calls] BY <1>1, <2>3 DEF Calls
    <3> QED BY <1>1, <1>3, <2>1, <2>3, <3>1 DEF Waypoints
  <2> QED BY <1>7, <2>2, <2>3 DEF CheckCid
<1>8. CASE ReadBalance(r)
  <2>1. PICK cents \in {credit, Unknown} : call' = [call EXCEPT ![r].cents = cents]
    BY <1>8 DEF ReadBalance
  <2>2. Unknown \in Int BY DEF Unknown
  <2>3. cents \in Int BY <1>1, <2>2
  <2>4. call' \in [Requests -> Calls] BY <1>1, <2>1, <2>3 DEF Calls
  <2> QED BY <1>1, <1>3, <1>8, <2>4 DEF ReadBalance, account, limiter, Waypoints
<1>9. CASE Told(r)
  <2>1. reading' = {[cents |-> call[r].cents, at |-> call[r].began]} BY <1>9 DEF Told, Stamp
  <2>2. reading' \in SUBSET [cents : Int, at : Nat] BY <1>1, <2>1 DEF Calls
  <2> QED BY <1>1, <1>9, <2>2, ForwardTypes DEF Told, account
<1>10. CASE LitRuns(r)
  <2>1. Balance(credit - 1) /\ Reply(r) /\ UNCHANGED <<now, limiter, reading, forwarded>>
    BY <1>10 DEF LitRuns
  <2>2. credit' \in Int /\ lowSince' \in Nat \cup {Never} BY <1>1, <2>1, BalanceTypes
  <2> QED BY <1>1, <1>4, <2>1, <2>2 DEF limiter
<1>11. CASE TurnedAway(r) \/ CidRefused(r) \/ LitFails(r)
  BY <1>1, <1>4, <1>11 DEF TurnedAway, CidRefused, LitFails, EndsAt, account, limiter
<1> QED BY <1>5, <1>6, <1>7, <1>8, <1>9, <1>10, <1>11 DEF RequestStep

LEMMA TypesNext == ASSUME TypeOK, [Next]_vars PROVE TypeOK'
<1>1. CASE UNCHANGED vars BY <1>1 DEF TypeOK, vars, account, limiter, requests
<1>2. CASE Tick BY <1>2 DEF TypeOK, Tick, account, limiter, requests
<1>3. CASE UploadSeals \/ TopUp
  <2>1. credit' \in Int /\ lowSince' \in Nat \cup {Never}
    <3>1. credit - 1 \in Int /\ MaxCredit \in Int BY RelayAssumption DEF TypeOK
    <3> QED BY <1>3, <3>1, BalanceTypes DEF UploadSeals, TopUp
  <2> QED BY <1>3, <2>1 DEF TypeOK, UploadSeals, TopUp, limiter, requests
<1>4. CASE Restart
  BY <1>4 DEF TypeOK, Restart, account, Idle, Calls, Unknown
<1> QED BY <1>1, <1>2, <1>3, <1>4, RequestTypes DEF Next

-----------------------------------------------------------------------------
(* 3. The ceilings.                                                        *)

\* When each call was forwarded.
Sent == [i \in DOMAIN forwarded |-> forwarded[i].at]

CeilingInv ==
  /\ Limited(now, Sent, lastHour, Hour, PerHour)
  /\ Limited(now, Sent, lastDay, Day, PerDay)

LEMMA ForwardKeepsCeilings ==
  ASSUME TypeOK, CeilingInv, NEW r \in Requests, NEW cents, Forward(r, cents), now' = now
  PROVE  CeilingInv'
<1>1. /\ now \in Nat /\ PerHour \in Nat /\ PerDay \in Nat /\ Hour \in Nat \ {0} /\ Day \in Nat \ {0}
      /\ Hour \in Nat /\ Day \in Nat
  BY PrunedLists
<1>2. /\ Limited(now, Sent, lastHour, Hour, PerHour) /\ Limited(now, Sent, lastDay, Day, PerDay)
      /\ Limited(now, Sent, Prune(lastHour, Hour), Hour, PerHour)
      /\ Limited(now, Sent, Prune(lastDay, Day), Day, PerDay)
  BY <1>1, LimitedPruned DEF CeilingInv
<1>3. CASE /\ Reply(r) /\ forwarded' = forwarded
           /\ lastHour' \in {lastHour, Prune(lastHour, Hour)}
           /\ lastDay' \in {lastDay, Prune(lastDay, Day)}
  <2>1. Sent' = Sent BY <1>3 DEF Sent
  <2> QED BY <1>2, <1>3, <2>1 DEF CeilingInv
<1>4. CASE /\ MayForward
           /\ lastHour' = Append(Prune(lastHour, Hour), now)
           /\ lastDay' = Append(Prune(lastDay, Day), now)
           /\ forwarded' = Append(forwarded, [wallet |-> call[r].wallet,
                                              charged |-> call[r].charged, at |-> now])
  <2> DEFINE f == [wallet |-> call[r].wallet, charged |-> call[r].charged, at |-> now]
             e == Len(forwarded) + 1
  <2>1. f.at = now /\ forwarded' = Append(forwarded, f) BY <1>4
  <2> HIDE DEF f
  <2>2. forwarded \in Seq(Sends) BY DEF TypeOK, Sends
  <2>3. /\ DOMAIN forwarded = 1 .. Len(forwarded) /\ Len(forwarded) \in Nat
        /\ DOMAIN forwarded' = DOMAIN forwarded \cup {e} /\ e \notin DOMAIN forwarded
        /\ \A i \in DOMAIN forwarded : forwarded'[i] = forwarded[i]
        /\ forwarded'[e] = f
    BY <2>1, <2>2
  <2>4. DOMAIN Sent = DOMAIN forwarded BY DEF Sent
  <2> HIDE DEF e
  <2>5. Sent' = [d \in DOMAIN Sent \cup {e} |-> IF d = e THEN now ELSE Sent[d]]
    BY <2>1, <2>3, <2>4 DEF Sent
  <2>6. Len(Prune(lastHour, Hour)) < PerHour /\ Len(Prune(lastDay, Day)) < PerDay
    BY <1>4 DEF MayForward
  <2>7. PICK sent : sent = Sent' OBVIOUS
  <2>8. /\ e \notin DOMAIN Sent
        /\ sent = [d \in DOMAIN Sent \cup {e} |-> IF d = e THEN now ELSE Sent[d]]
    BY <2>3, <2>4, <2>5, <2>7
  <2>9. ASSUME NEW list, NEW window \in Nat \ {0}, NEW limit \in Nat,
               Limited(now, Sent, list, window, limit), Len(list) < limit
        PROVE  Limited(now, sent, Append(list, now), window, limit)
    BY <1>1, <2>8, <2>9, LimitedTakes
  <2>10. /\ Limited(now, sent, Append(Prune(lastHour, Hour), now), Hour, PerHour)
         /\ Limited(now, sent, Append(Prune(lastDay, Day), now), Day, PerDay)
    BY <1>1, <1>2, <2>6, <2>9
  <2> QED BY <1>4, <2>7, <2>10 DEF CeilingInv
<1> QED BY <1>3, <1>4, ForwardDoes

\* Nothing was sent, as after a restart, when the limiter is empty.
LEMMA CeilingsOfNone ==
  ASSUME NEW times, times = [i \in DOMAIN <<>> |-> times[i]], NEW moment \in Nat
  PROVE  Limited(moment, times, <<>>, Hour, PerHour) /\ Limited(moment, times, <<>>, Day, PerDay)
<1>1. PerHour \in Nat /\ PerDay \in Nat BY RelayAssumption
<1>2. DOMAIN <<>> = {} OBVIOUS
<1>3. DOMAIN times = {} /\ times \in [DOMAIN times -> 0 .. moment] BY <1>2
<1> QED BY <1>1, <1>3, LimitedNone

LEMMA CeilingsNext == ASSUME TypeOK, CeilingInv, [Next]_vars PROVE CeilingInv'
<1>1. now \in Nat /\ Hour \in Nat /\ Day \in Nat BY PrunedLists
<1>2. CASE UNCHANGED <<now, lastHour, lastDay, forwarded>> BY <1>2 DEF CeilingInv, Sent
<1>3. CASE Tick
  <2>1. now' = now + 1 /\ UNCHANGED <<lastHour, lastDay, forwarded>> BY <1>3 DEF Tick, limiter
  <2>2. Sent' = Sent BY <2>1 DEF Sent
  <2>3. /\ Limited(now + 1, Sent, lastHour, Hour, PerHour)
        /\ Limited(now + 1, Sent, lastDay, Day, PerDay)
    BY <1>1, LimitedLater DEF CeilingInv
  <2> QED BY <2>1, <2>2, <2>3 DEF CeilingInv
<1>4. CASE Restart
  <2>1. now' \in Nat /\ lastHour' = <<>> /\ lastDay' = <<>> /\ forwarded' = <<>>
    BY <1>1, <1>4 DEF Restart
  <2>2. Sent' = [i \in DOMAIN <<>> |-> Sent'[i]] BY <2>1 DEF Sent
  <2> QED BY <2>1, <2>2, CeilingsOfNone DEF CeilingInv
<1>5. CASE UploadSeals \/ TopUp BY <1>2, <1>5 DEF UploadSeals, TopUp, limiter
<1>6. ASSUME NEW r \in Requests, RequestStep(r) PROVE CeilingInv'
  <2>1. CASE Arrive(r) \/ LetIn(r) \/ ReadBalance(r) \/ LitRuns(r) \/ TurnedAway(r) \/ CidRefused(r)
             \/ LitFails(r)
    BY <1>2, <2>1 DEF Arrive, LetIn, ReadBalance, LitRuns, TurnedAway, CidRefused, LitFails, EndsAt,
                      limiter
  <2>2. CASE CheckCid(r) BY <1>2, <2>2, ForwardKeepsCeilings DEF CheckCid
  <2>3. CASE Told(r) BY <2>3, ForwardKeepsCeilings DEF Told
  <2> QED BY <1>6, <2>1, <2>2, <2>3 DEF RequestStep
<1>7. CASE UNCHANGED vars BY <1>2, <1>7 DEF vars, limiter
<1> QED BY <1>3, <1>4, <1>5, <1>6, <1>7 DEF Next

-----------------------------------------------------------------------------
(* 4. The share of a wallet.  takeWallet() counts a request when it        *)
(* arrives, and it is forwarded many awaits later, if it is: what counts   *)
(* against the limit are the calls that were forwarded, and the requests   *)
(* that may still be.                                                      *)

UnderWay(r) == at[r] \in Waypoints

ShareOf(sends, points, held, w) ==
  [e \in {<<"sent", i>> : i \in {j \in DOMAIN sends : sends[j].wallet = w}}
         \cup {<<"held", r>> : r \in {q \in Requests : points[q] \in Waypoints /\ held[q].wallet = w}}
     |-> IF e[1] = "sent" THEN sends[e[2]].charged ELSE held[e[2]].charged]

Share(w) == ShareOf(forwarded, at, call, w)

ShareInv == \A w \in Wallets : Limited(now, Share(w), taken[w], WalletWindow, PerWallet)

\* What is in a share.
Shows(share, sends, points, held, w) ==
  /\ \A i : <<"sent", i>> \in DOMAIN share <=> i \in DOMAIN sends /\ sends[i].wallet = w
  /\ \A r : <<"held", r>> \in DOMAIN share <=>
              r \in Requests /\ points[r] \in Waypoints /\ held[r].wallet = w
  /\ \A e \in DOMAIN share : \/ \E i \in DOMAIN sends : e = <<"sent", i>>
                             \/ \E r \in Requests : e = <<"held", r>>
  /\ \A i : <<"sent", i>> \in DOMAIN share => share[<<"sent", i>>] = sends[i].charged
  /\ \A r : <<"held", r>> \in DOMAIN share => share[<<"held", r>>] = held[r].charged
  /\ share = [e \in DOMAIN share |-> share[e]]

LEMMA InShare ==
  ASSUME NEW sends, NEW points, NEW held, NEW w
  PROVE  Shows(ShareOf(sends, points, held, w), sends, points, held, w)
<1> DEFINE share == ShareOf(sends, points, held, w)
<1> DEFINE S == {<<"sent", i>> : i \in {j \in DOMAIN sends : sends[j].wallet = w}}
           H == {<<"held", r>> : r \in {q \in Requests : points[q] \in Waypoints /\ held[q].wallet = w}}
<1>1. \A i, r : <<"sent", i>> # <<"held", r>> OBVIOUS
<1>2. \A i : <<"sent", i>> \in S \cup H <=> i \in DOMAIN sends /\ sends[i].wallet = w
  BY <1>1
<1>3. \A r : <<"held", r>> \in S \cup H <=>
              r \in Requests /\ points[r] \in Waypoints /\ held[r].wallet = w
  BY <1>1
<1>4. \A e \in S \cup H : \/ \E i \in DOMAIN sends : e = <<"sent", i>>
                          \/ \E r \in Requests : e = <<"held", r>>
  OBVIOUS
<1>5. share = [e \in S \cup H |->
                 IF e[1] = "sent" THEN sends[e[2]].charged ELSE held[e[2]].charged]
  BY DEF ShareOf
<1>6. \A i : "sent" = <<"sent", i>>[1] /\ i = <<"sent", i>>[2] OBVIOUS
<1>7. \A r : "held" = <<"held", r>>[1] /\ r = <<"held", r>>[2] /\ "held" # "sent" OBVIOUS
<1> HIDE DEF S, H, share
<1>8. DOMAIN share = S \cup H BY <1>5
<1>9. \A i : <<"sent", i>> \in DOMAIN share => share[<<"sent", i>>] = sends[i].charged
  BY <1>5, <1>6, <1>8
<1>10. \A r : <<"held", r>> \in DOMAIN share => share[<<"held", r>>] = held[r].charged
  BY <1>5, <1>7, <1>8
<1>11. share = [e \in DOMAIN share |-> share[e]] BY <1>5
<1>12. Shows(share, sends, points, held, w)
  BY <1>2, <1>3, <1>4, <1>8, <1>9, <1>10, <1>11 DEF Shows
<1> QED BY <1>12 DEF share

\* Requests end, or go on; none begins, and nothing is forwarded.
LEMMA ShareQuiet ==
  ASSUME TypeOK, ShareInv, UNCHANGED <<now, taken, forwarded>>,
         \A r \in Requests : UnderWay(r)' => /\ UnderWay(r) /\ call'[r].wallet = call[r].wallet
                                             /\ call'[r].charged = call[r].charged
  PROVE  ShareInv'
<1> SUFFICES ASSUME NEW w \in Wallets
             PROVE  Limited(now, Share(w)', taken[w], WalletWindow, PerWallet)
  BY DEF ShareInv
<1>1. now \in Nat /\ WalletWindow \in Nat /\ PerWallet \in Nat BY PrunedLists
<1>2. Limited(now, Share(w), taken[w], WalletWindow, PerWallet) BY DEF ShareInv
<1>3. PICK old, new : /\ old = Share(w) /\ Shows(old, forwarded, at, call, w)
                      /\ new = Share(w)' /\ Shows(new, forwarded', at', call', w)
  BY InShare DEF Share
<1>4. ASSUME NEW e \in DOMAIN new PROVE e \in DOMAIN old /\ new[e] = old[e]
  <2>1. CASE \E i \in DOMAIN forwarded' : e = <<"sent", i>> BY <1>3, <1>4, <2>1 DEF Shows, UnderWay
  <2>2. CASE \E r \in Requests : e = <<"held", r>>
    <3>1. PICK r \in Requests : e = <<"held", r>> BY <2>2
    <3>2. UnderWay(r)' /\ call'[r].wallet = w /\ new[e] = call'[r].charged
      BY <1>3, <1>4, <3>1 DEF Shows, UnderWay
    <3> QED BY <3>1, <3>2, <1>3 DEF Shows, UnderWay
  <2> QED BY <1>3, <1>4, <2>1, <2>2 DEF Shows, UnderWay
<1> DEFINE was == [e \in DOMAIN new |-> e]
<1>5. was \in [DOMAIN new -> DOMAIN old] /\ \A d, e \in DOMAIN new : was[d] = was[e] => d = e
  BY <1>4
<1>6. new = [e \in DOMAIN new |-> old[was[e]]]
  <2>1. new = [e \in DOMAIN new |-> new[e]] BY <1>3 DEF Shows, UnderWay
  <2> QED BY <1>4, <2>1
<1> HIDE DEF was
<1>7. Limited(now, new, taken[w], WalletWindow, PerWallet)
  <2>1. Limited(now, old, taken[w], WalletWindow, PerWallet) BY <1>2, <1>3
  <2> QED BY <1>1, <1>5, <1>6, <2>1, LimitedFewer
<1> QED BY <1>3, <1>7

\* A request that is under way is forwarded: it counts as before, under another name.
LEMMA ShareForward ==
  ASSUME TypeOK, ShareInv, UNCHANGED <<now, taken, call>>,
         NEW r \in Requests, UnderWay(r), Go(r, "lit"),
         forwarded' = Append(forwarded, [wallet |-> call[r].wallet, charged |-> call[r].charged,
                                         at |-> now])
  PROVE  ShareInv'
<1> DEFINE f == [wallet |-> call[r].wallet, charged |-> call[r].charged, at |-> now]
           n == Len(forwarded) + 1
<1>1. f.wallet = call[r].wallet /\ f.charged = call[r].charged OBVIOUS
<1>2. forwarded' = Append(forwarded, f) OBVIOUS
<1> HIDE DEF f
<1>3. forwarded \in Seq(Sends) BY DEF TypeOK, Sends
<1>4. /\ DOMAIN forwarded' = DOMAIN forwarded \cup {n} /\ n \notin DOMAIN forwarded
      /\ \A i \in DOMAIN forwarded : forwarded'[i] = forwarded[i]
      /\ forwarded'[n] = f
  BY <1>2, <1>3
<1> HIDE DEF n
<1>5. \A q \in Requests : at'[q] = IF q = r THEN "lit" ELSE at[q] BY Moves
<1>6. \A q \in Requests : UnderWay(q)' <=> UnderWay(q) /\ q # r
  BY <1>5 DEF UnderWay, Waypoints
<1> SUFFICES ASSUME NEW w \in Wallets
             PROVE  Limited(now, Share(w)', taken[w], WalletWindow, PerWallet)
  BY DEF ShareInv
<1>7. now \in Nat /\ WalletWindow \in Nat /\ PerWallet \in Nat BY PrunedLists
<1>8. Limited(now, Share(w), taken[w], WalletWindow, PerWallet) BY DEF ShareInv
<1>9. PICK old, new : /\ old = Share(w) /\ Shows(old, forwarded, at, call, w)
                      /\ new = Share(w)' /\ Shows(new, forwarded', at', call', w)
  BY InShare DEF Share
<1> DEFINE was == [e \in DOMAIN new |-> IF e = <<"sent", n>> THEN <<"held", r>> ELSE e]
<1>10. ASSUME NEW e \in DOMAIN new, e # <<"sent", n>>
       PROVE  e \in DOMAIN old /\ new[e] = old[e] /\ e # <<"held", r>>
  <2>1. CASE \E i \in DOMAIN forwarded' : e = <<"sent", i>>
    <3>1. PICK i \in DOMAIN forwarded' : e = <<"sent", i>> BY <2>1
    <3>2. i # n /\ i \in DOMAIN forwarded /\ forwarded'[i] = forwarded[i] BY <1>4, <1>10, <3>1
    <3>3. forwarded'[i].wallet = w /\ new[e] = forwarded'[i].charged
      BY <1>9, <1>10, <3>1 DEF Shows, UnderWay
    <3>4. e \in DOMAIN old /\ old[e] = forwarded[i].charged
      BY <3>1, <3>2, <3>3, <1>9 DEF Shows, UnderWay
    <3> QED BY <3>1, <3>2, <3>3, <3>4
  <2>2. CASE \E q \in Requests : e = <<"held", q>>
    <3>1. PICK q \in Requests : e = <<"held", q>> BY <2>2
    <3>2. UnderWay(q)' /\ call[q].wallet = w /\ new[e] = call[q].charged
      BY <1>9, <1>10, <3>1 DEF Shows, UnderWay
    <3>3. UnderWay(q) /\ q # r BY <1>6, <3>2
    <3>4. e \in DOMAIN old /\ old[e] = call[q].charged BY <3>1, <3>2, <3>3, <1>9 DEF Shows, UnderWay
    <3> QED BY <3>1, <3>2, <3>3, <3>4
  <2> QED BY <1>9, <1>10, <2>1, <2>2 DEF Shows, UnderWay
<1>11. ASSUME <<"sent", n>> \in DOMAIN new
       PROVE  /\ <<"held", r>> \in DOMAIN old
              /\ new[<<"sent", n>>] = old[<<"held", r>>]
  <2>1. forwarded'[n].wallet = w /\ new[<<"sent", n>>] = forwarded'[n].charged
    BY <1>9, <1>11 DEF Shows, UnderWay
  <2>2. call[r].wallet = w /\ new[<<"sent", n>>] = call[r].charged BY <1>1, <1>4, <2>1
  <2> QED BY <2>2, <1>9 DEF Shows, UnderWay
<1>12. was \in [DOMAIN new -> DOMAIN old] BY <1>10, <1>11
<1>13. \A d, e \in DOMAIN new : was[d] = was[e] => d = e BY <1>10
<1>14. new = [e \in DOMAIN new |-> old[was[e]]]
  <2>1. new = [e \in DOMAIN new |-> new[e]] BY <1>9 DEF Shows, UnderWay
  <2> QED BY <1>10, <1>11, <2>1
<1> HIDE DEF was
<1>15. Limited(now, new, taken[w], WalletWindow, PerWallet)
  <2>1. Limited(now, old, taken[w], WalletWindow, PerWallet) BY <1>8, <1>9
  <2> QED BY <1>7, <1>12, <1>13, <1>14, <2>1, LimitedFewer
<1> QED BY <1>9, <1>15

\* A request arrives, and the limit of its wallet is taken from, or it is refused.
LEMMA ShareArrive ==
  ASSUME TypeOK, ShareInv, NEW r \in Requests, Arrive(r)
  PROVE  ShareInv'
<1>1. at[r] = "ready" /\ UNCHANGED <<now, forwarded>> BY DEF Arrive
<1>2. PICK v \in Wallets :
        /\ Charge(v)
        /\ IF MayCharge(v)
             THEN Go(r, "chain") /\ call' = [call EXCEPT ![r].wallet = v, ![r].charged = now]
             ELSE UNCHANGED requests
  BY DEF Arrive
<1>3. now \in Nat /\ WalletWindow \in Nat \ {0} /\ WalletWindow \in Nat /\ PerWallet \in Nat
  BY PrunedLists
<1> DEFINE short == Prune(taken[v], WalletWindow)
<1>4. taken' = [taken EXCEPT ![v] = IF Len(short) < PerWallet THEN Append(short, now) ELSE short]
  BY <1>2 DEF Charge
<1>5. taken'[v] = (IF Len(short) < PerWallet THEN Append(short, now) ELSE short)
      /\ \A w \in Wallets : w # v => taken'[w] = taken[w]
  BY <1>4 DEF TypeOK
<1>6. \A w \in Wallets : Limited(now, Share(w), taken[w], WalletWindow, PerWallet) BY DEF ShareInv
<1>7. Limited(now, Share(v), short, WalletWindow, PerWallet) BY <1>3, <1>6, LimitedPruned
<1>8. CASE ~MayCharge(v)
  <2>1. at' = at /\ call' = call BY <1>2, <1>8 DEF requests
  <2>2. \A w : Share(w)' = Share(w) BY <1>1, <2>1 DEF Share, UnderWay
  <2>3. taken'[v] = short BY <1>5, <1>8 DEF MayCharge
  <2>4. ASSUME NEW w \in Wallets PROVE Limited(now, Share(w), taken'[w], WalletWindow, PerWallet)
    BY <1>5, <1>6, <1>7, <2>3
  <2> QED BY <1>1, <2>2, <2>4 DEF ShareInv
<1>9. CASE MayCharge(v)
  <2>1. Go(r, "chain") /\ call' = [call EXCEPT ![r].wallet = v, ![r].charged = now] BY <1>2, <1>9
  <2>2. Len(short) < PerWallet /\ taken'[v] = Append(short, now) BY <1>5, <1>9 DEF MayCharge
  <2>3. \A q \in Requests : at'[q] = IF q = r THEN "chain" ELSE at[q] BY <2>1, Moves
  <2>4. /\ call'[r].wallet = v /\ call'[r].charged = now
        /\ \A q \in Requests : q # r => call'[q] = call[q]
    BY <2>1 DEF TypeOK, Calls
  <2>5. UnderWay(r)' /\ ~UnderWay(r) /\ \A q \in Requests : q # r => (UnderWay(q)' <=> UnderWay(q))
    BY <1>1, <2>3 DEF UnderWay, Waypoints
  <2> HIDE DEF short
  <2>6. ASSUME NEW w \in Wallets
        PROVE  Limited(now, Share(w)', taken'[w], WalletWindow, PerWallet)
    <3>1. PICK old, new : /\ old = Share(w) /\ Shows(old, forwarded, at, call, w)
                          /\ new = Share(w)' /\ Shows(new, forwarded', at', call', w)
      BY InShare DEF Share
    <3>2. ASSUME NEW e \in DOMAIN new, w # v \/ e # <<"held", r>>
          PROVE  e \in DOMAIN old /\ new[e] = old[e]
      <4>1. CASE \E i \in DOMAIN forwarded' : e = <<"sent", i>>
        BY <1>1, <3>1, <3>2, <4>1 DEF Shows, UnderWay
      <4>2. CASE \E q \in Requests : e = <<"held", q>>
        <5>1. PICK q \in Requests : e = <<"held", q>> BY <4>2
        <5>2. UnderWay(q)' /\ call'[q].wallet = w /\ new[e] = call'[q].charged
          BY <3>1, <3>2, <5>1 DEF Shows, UnderWay
        <5>3. q # r BY <2>4, <3>2, <5>1, <5>2
        <5>4. UnderWay(q) /\ call'[q] = call[q] BY <2>4, <2>5, <5>2, <5>3
        <5> QED BY <5>1, <5>2, <5>4, <3>1 DEF Shows, UnderWay
      <4> QED BY <3>1, <3>2, <4>1, <4>2 DEF Shows, UnderWay
    <3>3. ASSUME NEW e \in DOMAIN old PROVE e \in DOMAIN new /\ e # <<"held", r>>
      <4>1. CASE \E i \in DOMAIN forwarded : e = <<"sent", i>>
        BY <1>1, <3>1, <3>3, <4>1 DEF Shows, UnderWay
      <4>2. CASE \E q \in Requests : e = <<"held", q>>
        <5>1. PICK q \in Requests : e = <<"held", q>> BY <4>2
        <5>2. UnderWay(q) /\ call[q].wallet = w BY <3>3, <5>1, <3>1 DEF Shows, UnderWay
        <5>3. q # r /\ UnderWay(q)' /\ call'[q].wallet = w BY <2>4, <2>5, <5>2
        <5> QED BY <3>1, <5>1, <5>3 DEF Shows, UnderWay
      <4> QED BY <3>3, <4>1, <4>2, <3>1 DEF Shows, UnderWay
    <3>4. new = [e \in DOMAIN new |-> new[e]] BY <3>1 DEF Shows, UnderWay
    <3>5. CASE w # v
      <4>1. DOMAIN new = DOMAIN old BY <3>2, <3>3, <3>5
      <4>2. old = [e \in DOMAIN old |-> old[e]] BY <3>1 DEF Shows, UnderWay
      <4>3. new = old BY <3>2, <3>4, <3>5, <4>1, <4>2
      <4> QED BY <1>5, <1>6, <3>1, <3>5, <4>3
    <3>6. CASE w = v
      <4> DEFINE e == <<"held", r>>
      <4>1. e \in DOMAIN new /\ new[e] = now BY <2>4, <2>5, <3>1, <3>6 DEF Shows, UnderWay
      <4>2. DOMAIN new = DOMAIN old \cup {e} /\ e \notin DOMAIN old
        BY <3>2, <3>3, <3>6, <4>1
      <4>3. \A d \in DOMAIN new : new[d] = IF d = e THEN now ELSE old[d]
        BY <3>2, <3>6, <4>1
      <4> HIDE DEF e
      <4>4. new = [d \in DOMAIN old \cup {e} |-> IF d = e THEN now ELSE old[d]]
        BY <3>4, <4>2, <4>3
      <4>5. Limited(now, new, Append(short, now), WalletWindow, PerWallet)
        <5>1. Limited(now, old, short, WalletWindow, PerWallet) BY <1>7, <3>1, <3>6
        <5>2. Len(short) < PerWallet BY <2>2
        <5> QED BY <1>3, <4>2, <4>4, <5>1, <5>2, LimitedTakes
      <4> QED BY <2>2, <3>1, <3>6, <4>5
    <3> QED BY <3>5, <3>6
  <2> QED BY <1>1, <2>6 DEF ShareInv
<1> QED BY <1>8, <1>9

\* Nothing counts, as after a restart.
LEMMA ShareOfNone ==
  ASSUME NEW moment \in Nat, NEW points, \A r \in Requests : points[r] = "ready", NEW held, NEW w
  PROVE  Limited(moment, ShareOf(<<>>, points, held, w), <<>>, WalletWindow, PerWallet)
<1> DEFINE share == ShareOf(<<>>, points, held, w)
<1>1. Shows(share, <<>>, points, held, w) BY InShare
<1> HIDE DEF share
<1>2. DOMAIN <<>> = {} OBVIOUS
<1>3. \A e \in DOMAIN share : FALSE BY <1>1, <1>2 DEF Shows, Waypoints
<1>4. DOMAIN share = {} BY <1>3
<1>5. share = [e \in DOMAIN share |-> share[e]] BY <1>1 DEF Shows
<1>6. share \in [DOMAIN share -> 0 .. moment] BY <1>3, <1>5
<1>7. PerWallet \in Nat BY RelayAssumption
<1>8. Limited(moment, share, <<>>, WalletWindow, PerWallet) BY <1>4, <1>6, <1>7, LimitedNone
<1> QED BY <1>8 DEF share

\* Replies, and refusals of the ceilings.
LEMMA ShareReply ==
  ASSUME TypeOK, ShareInv, NEW r \in Requests, Reply(r), UNCHANGED <<now, taken, forwarded>>
  PROVE  ShareInv'
<1>1. \A q \in Requests : /\ at'[q] = IF q = r THEN "ready" ELSE at[q]
                          /\ q # r => call'[q] = call[q]
  BY Moves
<1>2. \A q \in Requests : UnderWay(q)' => UnderWay(q) /\ call'[q] = call[q]
  BY <1>1 DEF UnderWay, Waypoints
<1> QED BY <1>2, ShareQuiet

LEMMA ShareForwards ==
  ASSUME TypeOK, ShareInv, NEW r \in Requests, UnderWay(r), NEW cents, Forward(r, cents),
         UNCHANGED <<now, taken>>
  PROVE  ShareInv'
BY ForwardDoes, ShareReply, ShareForward

LEMMA SharesNext == ASSUME TypeOK, ShareInv, [Next]_vars PROVE ShareInv'
<1>1. now \in Nat /\ WalletWindow \in Nat BY PrunedLists
<1>2. CASE UNCHANGED <<now, taken, forwarded, at, call>>
  <2>1. \A r \in Requests : UnderWay(r)' => UnderWay(r) BY <1>2 DEF UnderWay
  <2> QED BY <1>2, <2>1, ShareQuiet
<1>3. CASE Tick
  <2>1. now' = now + 1 /\ UNCHANGED <<taken, forwarded, at, call>>
    BY <1>3 DEF Tick, limiter, requests
  <2>2. \A w : Share(w)' = Share(w) BY <2>1 DEF Share, UnderWay
  <2>3. ASSUME NEW w \in Wallets PROVE Limited(now + 1, Share(w), taken[w], WalletWindow, PerWallet)
    BY <1>1, LimitedLater DEF ShareInv
  <2> QED BY <2>1, <2>2, <2>3 DEF ShareInv
<1>4. CASE Restart
  <2>1. /\ now' \in Nat /\ forwarded' = <<>> /\ taken' = [w \in Wallets |-> <<>>]
        /\ \A r \in Requests : at'[r] = "ready"
    BY <1>1, <1>4 DEF Restart
  <2>2. ASSUME NEW w \in Wallets
        PROVE  Limited(now', Share(w)', taken'[w], WalletWindow, PerWallet)
    <3>1. taken'[w] = <<>> BY <2>1
    <3> QED BY <2>1, <3>1, ShareOfNone DEF Share
  <2> QED BY <2>2 DEF ShareInv
<1>5. CASE UploadSeals \/ TopUp BY <1>2, <1>5 DEF UploadSeals, TopUp, limiter, requests
<1>6. ASSUME NEW r \in Requests, RequestStep(r) PROVE ShareInv'
  <2>1. CASE LetIn(r)
    <3>1. at[r] = "chain" /\ Go(r, "cid") /\ UNCHANGED <<now, taken, call, forwarded>>
      BY <2>1 DEF LetIn, limiter
    <3>2. \A q \in Requests : at'[q] = IF q = r THEN "cid" ELSE at[q] BY <3>1, Moves
    <3>3. \A q \in Requests : UnderWay(q)' => UnderWay(q) BY <3>1, <3>2 DEF UnderWay, Waypoints
    <3> QED BY <3>1, <3>3, ShareQuiet
  <2>2. CASE CheckCid(r)
    <3>1. at[r] = "cid" /\ UNCHANGED <<now, taken>> BY <2>2 DEF CheckCid
    <3>2. UnderWay(r) BY <3>1 DEF UnderWay, Waypoints
    <3>3. CASE \E cents : Forward(r, cents) BY <3>1, <3>2, <3>3, ShareForwards
    <3>4. CASE Go(r, "balance") /\ call' = [call EXCEPT ![r].began = now] /\ forwarded' = forwarded
      <4>1. \A q \in Requests : at'[q] = IF q = r THEN "balance" ELSE at[q] BY <3>4, Moves
      <4>2. \A q \in Requests : UnderWay(q)' => UnderWay(q) BY <3>2, <4>1 DEF UnderWay
      <4>3. \A q \in Requests : /\ call'[q].wallet = call[q].wallet
                                /\ call'[q].charged = call[q].charged
        BY <3>4 DEF TypeOK, Calls
      <4> QED BY <3>1, <3>4, <4>2, <4>3, ShareQuiet
    <3> QED BY <2>2, <3>3, <3>4 DEF CheckCid
  <2>3. CASE ReadBalance(r)
    <3>1. at[r] = "balance" /\ Go(r, "told") /\ UNCHANGED <<now, taken, forwarded>>
      BY <2>3 DEF ReadBalance, limiter
    <3>2. PICK cents \in {credit, Unknown} : call' = [call EXCEPT ![r].cents = cents]
      BY <2>3 DEF ReadBalance
    <3>3. \A q \in Requests : at'[q] = IF q = r THEN "told" ELSE at[q] BY <3>1, Moves
    <3>4. \A q \in Requests : UnderWay(q)' => UnderWay(q) BY <3>1, <3>3 DEF UnderWay, Waypoints
    <3>5. \A q \in Requests : call'[q].wallet = call[q].wallet /\ call'[q].charged = call[q].charged
      BY <3>2 DEF TypeOK, Calls
    <3> QED BY <3>1, <3>4, <3>5, ShareQuiet
  <2>4. CASE Told(r)
    <3>1. at[r] = "told" /\ UNCHANGED <<now, taken>> /\ Forward(r, call[r].cents) BY <2>4 DEF Told
    <3>2. UnderWay(r) BY <3>1 DEF UnderWay, Waypoints
    <3> QED BY <3>1, <3>2, ShareForwards
  <2>5. CASE LitRuns(r) \/ TurnedAway(r) \/ CidRefused(r) \/ LitFails(r)
    BY <2>5, ShareReply DEF LitRuns, TurnedAway, CidRefused, LitFails, EndsAt, limiter
  <2> QED BY <1>6, <2>1, <2>2, <2>3, <2>4, <2>5, ShareArrive DEF RequestStep
<1>7. CASE UNCHANGED vars BY <1>2, <1>7 DEF vars, limiter, requests
<1> QED BY <1>3, <1>4, <1>5, <1>6, <1>7 DEF Next

-----------------------------------------------------------------------------
(* 5. The guard of the reserve.                                            *)

\* A reading that suffices for the reserve was asked for before the credit got low.
Trusts(cents, from) ==
  cents # Unknown /\ cents >= Reserve /\ lowSince # Never => from <= lowSince

Asking == {"balance", "told"}

GuardInv ==
  /\ credit >= Reserve <=> lowSince = Never
  /\ \A b \in reading : Reserve # 0 /\ b.at <= now /\ Trusts(b.cents, b.at)
  /\ \A b, c \in reading : b = c
  /\ \A r \in Requests :
       /\ at[r] \in Asking => Reserve # 0 /\ call[r].began <= now
       /\ at[r] = "told" => Trusts(call[r].cents, call[r].began)

\* Requests that begin to ask, or go on, are the only ones the guard depends on.
LEMMA GuardQuiet ==
  ASSUME TypeOK, GuardInv, UNCHANGED <<now, account>>,
         \A q \in Requests : at'[q] \in Asking => at'[q] = at[q] /\ call'[q] = call[q],
         reading' = reading
  PROVE  GuardInv'
BY DEF GuardInv, Trusts, account, Asking

\* Time passes, or the credit changes: what was asked before it got low was asked before.
LEMMA GuardBalance ==
  ASSUME TypeOK, GuardInv, NEW c \in Int, Balance(c), UNCHANGED <<now, reading>>,
         \A q \in Requests : at'[q] \in Asking => at'[q] = at[q] /\ call'[q] = call[q]
  PROVE  GuardInv'
<1>1. /\ now \in Nat /\ lowSince \in Nat \cup {Never} /\ credit \in Int /\ Reserve \in Nat
      /\ call \in [Requests -> Calls] /\ reading \in SUBSET [cents : Int, at : Nat]
  BY RelayAssumption DEF TypeOK
<1>2. /\ credit' = c
      /\ lowSince' = IF c >= Reserve THEN Never ELSE IF lowSince = Never THEN now ELSE lowSince
  BY DEF Balance
<1>3. credit' >= Reserve <=> lowSince' = Never BY <1>1, <1>2 DEF Never
<1>4. ASSUME NEW cents, NEW from \in Nat, from <= now, Trusts(cents, from)
      PROVE  Trusts(cents, from)'
  BY <1>1, <1>2, <1>4 DEF Trusts
<1>5. \A b \in reading : b.at \in Nat /\ Reserve # 0 /\ b.at <= now /\ Trusts(b.cents, b.at)'
  <2>1. ASSUME NEW b \in reading
        PROVE  b.at \in Nat /\ Reserve # 0 /\ b.at <= now /\ Trusts(b.cents, b.at)
    BY <1>1 DEF GuardInv
  <2> QED BY <1>4, <2>1
<1>6. ASSUME NEW r \in Requests, at'[r] \in Asking
      PROVE  /\ Reserve # 0 /\ call'[r].began <= now
             /\ at'[r] = "told" => Trusts(call[r].cents, call[r].began)'
  <2>1. at[r] = at'[r] /\ call'[r] = call[r] BY <1>6
  <2>2. call[r].began \in Nat BY <1>1 DEF Calls
  <2>3. Reserve # 0 /\ call[r].began <= now BY <1>6, <2>1 DEF GuardInv
  <2>4. CASE at[r] = "told"
    <3>1. Trusts(call[r].cents, call[r].began) BY <2>4 DEF GuardInv
    <3>2. PICK cents, from : cents = call[r].cents /\ from = call[r].began OBVIOUS
    <3>3. Trusts(cents, from)' BY <1>4, <2>2, <2>3, <3>1, <3>2
    <3>4. call'[r].cents = cents /\ call'[r].began = from BY <2>1, <3>2
    <3> QED BY <2>1, <2>3, <3>3, <3>4 DEF Trusts
  <2> QED BY <2>1, <2>3, <2>4
<1> QED BY <1>3, <1>5, <1>6 DEF GuardInv, Asking, Trusts

LEMMA ForwardPoints ==
  ASSUME TypeOK, NEW r \in Requests, NEW cents, Forward(r, cents)
  PROVE  \A q \in Requests : at'[q] \in Asking => at'[q] = at[q] /\ call'[q] = call[q]
BY ForwardDoes, Moves DEF Asking

LEMMA GuardRequest ==
  ASSUME TypeOK, GuardInv, NEW r \in Requests, RequestStep(r)
  PROVE  GuardInv'
<1>1. CASE Arrive(r)
  <2>1. UNCHANGED <<now, account, reading>> BY <1>1 DEF Arrive
  <2>2. PICK v \in Wallets :
          IF MayCharge(v)
            THEN Go(r, "chain") /\ call' = [call EXCEPT ![r].wallet = v, ![r].charged = now]
            ELSE UNCHANGED requests
    BY <1>1 DEF Arrive
  <2>3. ASSUME NEW q \in Requests, at'[q] \in Asking PROVE at'[q] = at[q] /\ call'[q] = call[q]
    <3>1. CASE UNCHANGED requests BY <3>1 DEF requests
    <3>2. CASE Go(r, "chain") /\ call' = [call EXCEPT ![r].wallet = v, ![r].charged = now]
      <4>1. q # r /\ at'[q] = at[q] BY <2>3, <3>2, Moves DEF Asking
      <4> QED BY <3>2, <4>1 DEF TypeOK
    <3> QED BY <2>2, <3>1, <3>2
  <2> QED BY <2>1, <2>3, GuardQuiet
<1>2. CASE LetIn(r)
  <2>1. Go(r, "cid") /\ UNCHANGED <<now, account, reading, call>> BY <1>2 DEF LetIn, limiter
  <2>2. \A q \in Requests : at'[q] \in Asking => at'[q] = at[q] BY <2>1, Moves DEF Asking
  <2> QED BY <2>1, <2>2, GuardQuiet
<1>3. CASE CheckCid(r)
  <2>1. UNCHANGED <<now, account, reading>> BY <1>3 DEF CheckCid
  <2>2. CASE \E cents : Forward(r, cents) BY <2>1, <2>2, ForwardPoints, GuardQuiet
  <2>3. CASE /\ Reserve # 0 /\ Go(r, "balance") /\ call' = [call EXCEPT ![r].began = now]
    <3>1. /\ \A q \in Requests : at'[q] = IF q = r THEN "balance" ELSE at[q]
          /\ \A q \in Requests : q # r => call'[q] = call[q]
          /\ call'[r].began = now /\ now \in Nat
      BY <2>3, Moves DEF TypeOK, Calls
    <3>2. \A b \in reading : Reserve # 0 /\ b.at <= now /\ Trusts(b.cents, b.at)'
      BY <2>1 DEF GuardInv, Trusts, account
    <3>3. (credit' >= Reserve <=> lowSince' = Never) /\ \A b, c \in reading : b = c
      BY <2>1 DEF GuardInv, account
    <3>4. ASSUME NEW q \in Requests
          PROVE  /\ at'[q] \in Asking => Reserve # 0 /\ call'[q].began <= now
                 /\ at'[q] = "told" => Trusts(call[q].cents, call[q].began)'
      <4>1. CASE q = r BY <2>3, <3>1, <4>1
      <4>2. CASE q # r BY <2>1, <3>1, <4>2 DEF GuardInv, Trusts, account
      <4> QED BY <4>1, <4>2
    <3> QED BY <2>1, <3>2, <3>3, <3>4 DEF GuardInv, Trusts
  <2> QED BY <1>3, <2>2, <2>3 DEF CheckCid
<1>4. CASE ReadBalance(r)
  <2>1. at[r] = "balance" /\ Go(r, "told") /\ UNCHANGED <<now, account, reading>>
    BY <1>4 DEF ReadBalance
  <2>2. PICK cents \in {credit, Unknown} : call' = [call EXCEPT ![r].cents = cents]
    BY <1>4 DEF ReadBalance
  <2>3. /\ \A q \in Requests : at'[q] = IF q = r THEN "told" ELSE at[q]
        /\ \A q \in Requests : q # r => call'[q] = call[q]
        /\ call'[r].began = call[r].began /\ call'[r].cents = cents
    BY <2>1, <2>2, Moves DEF TypeOK, Calls
  <2>4. credit >= Reserve <=> lowSince = Never BY DEF GuardInv
  <2>5. Trusts(call[r].cents, call[r].began)' BY <2>1, <2>2, <2>3, <2>4 DEF Trusts, account
  <2>6. Reserve # 0 /\ call[r].began <= now BY <2>1 DEF GuardInv, Asking
  <2>7. ASSUME NEW q \in Requests
        PROVE  /\ at'[q] \in Asking => Reserve # 0 /\ call'[q].began <= now
               /\ at'[q] = "told" => Trusts(call[q].cents, call[q].began)'
    <3>1. CASE q = r BY <2>3, <2>5, <2>6, <3>1
    <3>2. CASE q # r BY <2>1, <2>3, <3>2 DEF GuardInv, Trusts, account
    <3> QED BY <3>1, <3>2
  <2> QED BY <2>1, <2>4, <2>7 DEF GuardInv, Trusts, account
<1>5. CASE Told(r)
  <2>1. /\ at[r] = "told" /\ UNCHANGED <<now, account>> /\ Forward(r, call[r].cents)
        /\ reading' = {[cents |-> call[r].cents, at |-> call[r].began]}
    BY <1>5 DEF Told, Stamp
  <2>2. Reserve # 0 /\ call[r].began <= now /\ Trusts(call[r].cents, call[r].began)
    BY <2>1 DEF GuardInv, Asking
  <2>3. \A b \in reading' : Reserve # 0 /\ b.at <= now /\ Trusts(b.cents, b.at)'
    BY <2>1, <2>2 DEF Trusts, account
  <2>4. \A b, c \in reading' : b = c BY <2>1
  <2>5. \A q \in Requests : at'[q] \in Asking => at'[q] = at[q] /\ call'[q] = call[q]
    BY <2>1, ForwardPoints
  <2> QED BY <2>1, <2>3, <2>4, <2>5 DEF GuardInv, Trusts, account, Asking
<1>6. CASE LitRuns(r)
  <2>1. Balance(credit - 1) /\ Reply(r) /\ UNCHANGED <<now, reading>> BY <1>6 DEF LitRuns
  <2>2. credit - 1 \in Int BY DEF TypeOK
  <2>3. \A q \in Requests : at'[q] \in Asking => at'[q] = at[q] /\ call'[q] = call[q]
    BY <2>1, Moves DEF Asking
  <2> QED BY <2>1, <2>2, <2>3, GuardBalance
<1>7. CASE TurnedAway(r) \/ CidRefused(r) \/ LitFails(r)
  <2>1. Reply(r) /\ UNCHANGED <<now, account, reading>>
    BY <1>7 DEF TurnedAway, CidRefused, LitFails, EndsAt
  <2>2. \A q \in Requests : at'[q] \in Asking => at'[q] = at[q] /\ call'[q] = call[q]
    BY <2>1, Moves DEF Asking
  <2> QED BY <2>1, <2>2, GuardQuiet
<1> QED BY <1>1, <1>2, <1>3, <1>4, <1>5, <1>6, <1>7 DEF RequestStep

LEMMA GuardNext == ASSUME TypeOK, GuardInv, [Next]_vars PROVE GuardInv'
<1>1. CASE UNCHANGED vars BY <1>1, GuardQuiet DEF vars, requests
<1>2. CASE Tick
  <2>1. now' = now + 1 /\ UNCHANGED <<account, reading, at, call>> BY <1>2 DEF Tick, requests
  <2>2. \A n \in Nat : n <= now => n <= now + 1 BY DEF TypeOK
  <2>3. (\A b \in reading : b.at \in Nat) /\ \A r \in Requests : call[r].began \in Nat
    BY DEF TypeOK, Calls
  <2> QED BY <2>1, <2>2, <2>3 DEF GuardInv, Trusts, account
<1>3. CASE UploadSeals \/ TopUp
  <2>1. credit - 1 \in Int /\ MaxCredit \in Int BY RelayAssumption DEF TypeOK
  <2>2. /\ UNCHANGED <<now, reading, at, call>>
        /\ Balance(credit - 1) \/ Balance(MaxCredit)
    BY <1>3 DEF UploadSeals, TopUp, requests
  <2> QED BY <2>1, <2>2, GuardBalance
<1>4. CASE Restart
  <2>1. /\ reading' = {} /\ UNCHANGED <<now, account>>
        /\ \A r \in Requests : at'[r] = "ready"
    BY <1>4 DEF Restart
  <2> QED BY <2>1 DEF GuardInv, account, Asking
<1> QED BY <1>1, <1>2, <1>3, <1>4, GuardRequest DEF Next

\* Where a step forwards a call that the guard let through.
LEMMA GuardStep ==
  ASSUME TypeOK, GuardInv, Next, NEW r \in Requests, at'[r] = "lit", at[r] # "lit",
         Known(r), lowSince # Never
  PROVE  Began(r) < lowSince + Refresh
<1>1. now \in Nat /\ lowSince \in Nat /\ Refresh \in Nat \ {0} /\ Reserve \in Nat
      /\ call \in [Requests -> Calls] /\ reading \in SUBSET [cents : Int, at : Nat]
  BY RelayAssumption DEF TypeOK
<1>2. ~(Tick \/ UploadSeals \/ TopUp \/ Restart) BY DEF Tick, UploadSeals, TopUp, Restart, requests
<1>3. PICK q \in Requests : RequestStep(q) BY <1>2 DEF Next
<1>4. ASSUME NEW cents, Forward(q, cents) PROVE q = r /\ Enough(cents)
  BY <1>4, ForwardDoes, Moves
<1>5. CASE CheckCid(q)
  <2>1. at[q] = "cid" BY <1>5 DEF CheckCid
  <2>2. ~Go(q, "balance") BY Moves
  <2>3. q = r BY <1>4, <1>5, <2>2 DEF CheckCid
  <2>4. PICK c \in reading : c.cents # Unknown BY <2>1, <2>3 DEF Known
  <2>5. Reserve # 0 /\ \A b \in reading : b = c BY <2>4 DEF GuardInv
  <2>6. Fresh /\ \E b \in reading : Forward(q, b.cents) BY <1>5, <2>2, <2>5 DEF CheckCid
  <2>7. now - c.at < Refresh /\ Enough(c.cents) BY <1>4, <2>5, <2>6 DEF Fresh
  <2>8. c.at <= lowSince BY <2>4, <2>7 DEF GuardInv, Trusts, Enough
  <2>9. c.at \in Nat BY <1>1, <2>4
  <2> QED BY <1>1, <2>1, <2>3, <2>7, <2>8, <2>9 DEF Began
<1>6. CASE Told(q)
  <2>1. at[q] = "told" /\ q = r /\ Enough(call[q].cents) BY <1>4, <1>6 DEF Told
  <2>2. call[r].cents # Unknown BY <2>1 DEF Known
  <2>3. call[r].began <= lowSince BY <2>1, <2>2 DEF GuardInv, Trusts, Enough
  <2>4. call[r].began \in Nat BY <1>1 DEF Calls
  <2> QED BY <1>1, <2>1, <2>3, <2>4 DEF Began
<1>7. CASE Arrive(q)
  <2>1. Go(q, "chain") \/ at' = at BY <1>7 DEF Arrive, requests
  <2> QED BY <2>1, Moves
<1>8. CASE LetIn(q) \/ ReadBalance(q)
  <2>1. Go(q, "cid") \/ Go(q, "told") BY <1>8 DEF LetIn, ReadBalance
  <2> QED BY <2>1, Moves
<1>9. CASE LitRuns(q) \/ TurnedAway(q) \/ CidRefused(q) \/ LitFails(q)
  <2>1. Reply(q) BY <1>9 DEF LitRuns, TurnedAway, CidRefused, LitFails, EndsAt
  <2> QED BY <2>1, Moves
<1> QED BY <1>3, <1>5, <1>6, <1>7, <1>8, <1>9 DEF RequestStep

-----------------------------------------------------------------------------
(* 6. What holds in every state.                                           *)

RelayInv == TypeOK /\ CeilingInv /\ ShareInv /\ GuardInv

LEMMA RelayInit == Init => RelayInv
<1> SUFFICES ASSUME Init PROVE RelayInv OBVIOUS
<1>1. now = 0 /\ Reserve \in Nat /\ MaxCredit \in Nat BY RelayAssumption DEF Init
<1>2. TypeOK BY <1>1 DEF Init, TypeOK, Idle, Calls, Unknown
<1>3. CeilingInv
  <2>1. Sent = [i \in DOMAIN <<>> |-> Sent[i]] BY DEF Init, Sent
  <2>2. lastHour = <<>> /\ lastDay = <<>> /\ now \in Nat BY <1>1 DEF Init
  <2> QED BY <2>1, <2>2, CeilingsOfNone DEF CeilingInv
<1>4. ShareInv
  <2>1. now \in Nat /\ forwarded = <<>> /\ \A r \in Requests : at[r] = "ready" BY <1>1 DEF Init
  <2>2. ASSUME NEW w \in Wallets PROVE Limited(now, Share(w), taken[w], WalletWindow, PerWallet)
    <3>1. taken[w] = <<>> BY DEF Init
    <3> QED BY <2>1, <3>1, ShareOfNone DEF Share
  <2> QED BY <2>2 DEF ShareInv
<1>5. GuardInv BY <1>1 DEF Init, GuardInv, Asking, Never
<1> QED BY <1>2, <1>3, <1>4, <1>5 DEF RelayInv

LEMMA RelayNext == RelayInv /\ [Next]_vars => RelayInv'
BY TypesNext, CeilingsNext, SharesNext, GuardNext DEF RelayInv

LEMMA RelayInvariant == Spec => []RelayInv
BY RelayInit, RelayNext, PTL DEF Spec

\* Every variable of the limiter, the guard and the requests keeps its type.
THEOREM TypeCorrect == Spec => []TypeOK
<1>1. RelayInv => TypeOK BY DEF RelayInv
<1> QED BY <1>1, RelayInvariant, PTL

\* createUnlockLimiter(), takeGlobal(): in no hour and on no day does this process forward
\* more calls than the ceilings allow.
THEOREM CeilingsAlways == Spec => []CeilingsHold
<1>1. RelayInv => CeilingsHold
  <2> SUFFICES ASSUME RelayInv, NEW t \in 0 .. now
               PROVE  /\ Count(LAMBDA f : f.at \in t .. t + Hour - 1) <= PerHour
                      /\ Count(LAMBDA f : f.at \in t .. t + Day - 1) <= PerDay
    BY DEF CeilingsHold
  <2>1. t \in Nat OBVIOUS
  <2>2. ASSUME NEW window
        PROVE  Within(Sent, t, window) =
                 {i \in DOMAIN forwarded : forwarded[i].at \in t .. t + window - 1}
    BY DEF Within, Sent
  <2>3. /\ Cardinality(Within(Sent, t, Hour)) <= PerHour
        /\ Cardinality(Within(Sent, t, Day)) <= PerDay
    BY <2>1 DEF RelayInv, CeilingInv, Limited
  <2> QED BY <2>2, <2>3 DEF Count
<1> QED BY <1>1, RelayInvariant, PTL

\* createUnlockLimiter(), takeWallet(): of what a wallet was charged for within a window, no
\* more is forwarded than its share, whenever that is.
THEOREM WalletShareAlways == Spec => []WalletShareHolds
<1>1. RelayInv => WalletShareHolds
  <2> SUFFICES ASSUME RelayInv, NEW w \in Wallets, NEW t \in 0 .. now
               PROVE  Count(LAMBDA f : f.wallet = w /\ f.charged \in t .. t + WalletWindow - 1)
                        <= PerWallet
    BY DEF WalletShareHolds
  <2>1. t \in Nat OBVIOUS
  <2> DEFINE share == Share(w)
             In == Within(share, t, WalletWindow)
             Calls1 == {i \in DOMAIN forwarded :
                          forwarded[i].wallet = w /\ forwarded[i].charged \in t .. t + WalletWindow - 1}
             name == [i \in Calls1 |-> <<"sent", i>>]
  <2>2. Shows(share, forwarded, at, call, w) BY InShare DEF Share
  <2>3. Limited(now, share, taken[w], WalletWindow, PerWallet) BY DEF RelayInv, ShareInv
  <2>4. PerWallet \in Nat BY RelayAssumption
  <2> HIDE DEF share
  <2>5. IsFiniteSet(In) /\ Cardinality(In) \in Nat BY <2>3, EventsFinite DEF Limited
  <2>6. Cardinality(In) <= PerWallet BY <2>1, <2>3 DEF Limited
  <2>7. ASSUME NEW i \in Calls1 PROVE <<"sent", i>> \in In
    <3>1. <<"sent", i>> \in DOMAIN share /\ share[<<"sent", i>>] = forwarded[i].charged
      BY <2>2 DEF Shows
    <3> QED BY <3>1 DEF Within
  <2>8. name \in Injection(Calls1, In) BY <2>7 DEF Injection, IsInjective
  <2> HIDE DEF In, Calls1, name
  <2>9. IsFiniteSet(Calls1) /\ Cardinality(Calls1) <= Cardinality(In) BY <2>5, <2>8, FS_Injection
  <2>10. Cardinality(Calls1) \in Nat BY <2>9, FS_CardinalityType
  <2>11. Cardinality(Calls1) <= PerWallet BY <2>4, <2>5, <2>6, <2>9, <2>10
  <2> QED BY <2>11 DEF Count, Calls1
<1> QED BY <1>1, RelayInvariant, PTL

\* createSpendGuard(), check(): the reserve is overspent for no longer than a reading lasts.
THEOREM GuardCatches == Spec => GuardCatchesUp
<1>1. RelayInv /\ [Next]_vars =>
        [\A r \in Requests :
           (at'[r] = "lit" /\ at[r] # "lit" /\ Known(r) /\ lowSince # Never)
             => Began(r) < lowSince + Refresh]_vars
  BY GuardStep DEF RelayInv
<1> QED BY <1>1, RelayInvariant, PTL DEF Spec, GuardCatchesUp
=============================================================================
