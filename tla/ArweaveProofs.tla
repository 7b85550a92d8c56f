--------------------------- MODULE ArweaveProofs ---------------------------
(***************************************************************************)
(* Theorems about the client of Arweave: which nodes it takes and what it  *)
(* believes of them (NodeSelection), for any number of nodes, liars,       *)
(* callers and discoveries; and what it sends them (ChunkPush), for any    *)
(* number of nodes, blocks, passes and chunks.                             *)
(***************************************************************************)
EXTENDS NodeSelection, ChunkPush, FiniteSetTheorems, WellFoundedInduction, TLAPS

-----------------------------------------------------------------------------
(* 1. Values of untrusted nodes.                                           *)

Valued(f) == f \in [DOMAIN f -> Int] /\ IsFiniteSet(DOMAIN f) /\ DOMAIN f # {}

Size(f) == Cardinality(DOMAIN f)
Rank(f, v) == Cardinality(UpTo(f, v))

\* A set of numbers that is not empty has a least one.
LEMMA LeastNumber ==
  ASSUME NEW N \in SUBSET Nat, N # {}
  PROVE  \E m \in N : \A n \in N : m <= n
<1> DEFINE R == {ss \in Nat \X Nat : ss[1] < ss[2]}
<1>1. IsWellFoundedOn(R, Nat) BY NatLessThanWellFounded DEF OpToRel
<1>2. N \subseteq Nat OBVIOUS
<1> HIDE DEF R
<1>3. PICK m \in N : \A n \in N : ~(<<n, m>> \in R) BY <1>1, <1>2, WFMin
<1>4. ASSUME NEW n \in N PROVE m <= n
  <2>1. m \in Nat /\ n \in Nat BY <1>2
  <2>2. <<n, m>> \in Nat \X Nat BY <2>1
  <2>3. ~(n < m) BY <1>3, <2>2 DEF R
  <2> QED BY <2>1, <2>3
<1> QED BY <1>4

LEMMA RankType ==
  ASSUME NEW f, Valued(f), NEW v
  PROVE  /\ Size(f) \in Nat \ {0} /\ Rank(f, v) \in Nat /\ Rank(f, v) <= Size(f)
         /\ IsFiniteSet(UpTo(f, v))
<1>1. UpTo(f, v) \in SUBSET DOMAIN f BY DEF UpTo
<1>2. IsFiniteSet(DOMAIN f) /\ DOMAIN f # {} BY DEF Valued
<1>3. IsFiniteSet(UpTo(f, v)) /\ Rank(f, v) <= Size(f) BY <1>1, <1>2, FS_Subset DEF Rank, Size
<1>4. Size(f) \in Nat /\ Rank(f, v) \in Nat BY <1>2, <1>3, FS_CardinalityType DEF Rank, Size
<1>5. Size(f) # 0 BY <1>2, FS_EmptySet DEF Size
<1> QED BY <1>3, <1>4, <1>5

\* More values are up to a higher one.
LEMMA RankGrows ==
  ASSUME NEW f, Valued(f), NEW v \in Values(f), NEW w \in Values(f), w < v
  PROVE  Rank(f, w) < Rank(f, v)
<1>1. v \in Int /\ w \in Int BY DEF Valued, Values
<1>2. \A p \in DOMAIN f : f[p] \in Int BY DEF Valued
<1>3. UpTo(f, w) \in SUBSET UpTo(f, v) BY <1>1, <1>2 DEF UpTo
<1>4. PICK p \in DOMAIN f : f[p] = v BY DEF Values
<1>5. p \in UpTo(f, v) /\ p \notin UpTo(f, w) BY <1>1, <1>4 DEF UpTo
<1>6. IsFiniteSet(UpTo(f, v)) /\ Rank(f, v) \in Nat /\ Rank(f, w) \in Nat BY RankType
<1>7. Rank(f, w) <= Rank(f, v) /\ Rank(f, w) # Rank(f, v)
  BY <1>3, <1>5, <1>6, FS_Subset DEF Rank
<1> QED BY <1>6, <1>7

LEMMA LeastValue ==
  ASSUME NEW f, Valued(f), NEW S \in SUBSET Values(f), S # {}
  PROVE  \E v \in S : \A w \in S : v <= w
<1> DEFINE N == {Rank(f, v) : v \in S}
<1>1. N \in SUBSET Nat /\ N # {} BY RankType
<1>2. PICK k \in N : \A n \in N : k <= n
  <2> HIDE DEF N
  <2> QED BY <1>1, LeastNumber
<1>3. PICK v \in S : Rank(f, v) = k BY <1>2
<1>4. ASSUME NEW w \in S PROVE v <= w
  <2>1. v \in Int /\ w \in Int BY DEF Valued, Values
  <2>2. Rank(f, v) <= Rank(f, w) BY <1>2, <1>3
  <2>3. ~(w < v)
    <3>1. SUFFICES ASSUME w < v PROVE FALSE OBVIOUS
    <3>2. Rank(f, w) < Rank(f, v) BY <3>1, RankGrows
    <3>3. Rank(f, w) \in Nat /\ Rank(f, v) \in Nat BY RankType
    <3> QED BY <2>2, <3>2, <3>3
  <2> QED BY <2>1, <2>3
<1> QED BY <1>4

LEMMA GreatestValue ==
  ASSUME NEW f, Valued(f), NEW S \in SUBSET Values(f), S # {}
  PROVE  \E v \in S : \A w \in S : w <= v
<1> DEFINE N == {Size(f) - Rank(f, v) : v \in S}
<1>1. N \in SUBSET Nat /\ N # {}
  <2>1. ASSUME NEW v \in S PROVE Size(f) - Rank(f, v) \in Nat BY RankType
  <2> QED BY <2>1
<1>2. PICK k \in N : \A n \in N : k <= n
  <2> HIDE DEF N
  <2> QED BY <1>1, LeastNumber
<1>3. PICK v \in S : Size(f) - Rank(f, v) = k BY <1>2
<1>4. ASSUME NEW w \in S PROVE w <= v
  <2>1. v \in Int /\ w \in Int BY DEF Valued, Values
  <2>2. Size(f) - Rank(f, v) <= Size(f) - Rank(f, w) BY <1>2, <1>3
  <2>3. ~(v < w)
    <3>1. SUFFICES ASSUME v < w PROVE FALSE OBVIOUS
    <3>2. Rank(f, v) < Rank(f, w) BY <3>1, RankGrows
    <3>3. Rank(f, w) \in Nat /\ Rank(f, v) \in Nat /\ Size(f) \in Nat BY RankType
    <3> QED BY <2>2, <3>2, <3>3
  <2> QED BY <2>1, <2>3
<1> QED BY <1>4

\* What robustAgg() returns: the highest of few values, the lower median of others.
LEMMA RobustAggIs ==
  ASSUME NEW f, Valued(f)
  PROVE  /\ RobustAgg(f) \in Values(f)
         /\ Size(f) < MedianMin => \A w \in Values(f) : w <= RobustAgg(f)
         /\ ~(Size(f) < MedianMin) =>
              /\ Reaches(f, RobustAgg(f))
              /\ \A w \in Values(f) : Reaches(f, w) => RobustAgg(f) <= w
<1>1. Values(f) # {} BY DEF Values, Valued
<1>2. PICK high \in Values(f) : \A w \in Values(f) : w <= high BY <1>1, GreatestValue
<1>3. CASE Size(f) < MedianMin
  <2>1. RobustAgg(f) = CHOOSE v \in Values(f) : \A w \in Values(f) : w <= v
    BY <1>3 DEF RobustAgg, Size
  <2> QED BY <1>2, <1>3, <2>1
<1>4. CASE ~(Size(f) < MedianMin)
  <2> DEFINE S == {v \in Values(f) : Reaches(f, v)}
  <2>1. RobustAgg(f) = CHOOSE v \in Values(f) :
                         Reaches(f, v) /\ \A w \in Values(f) : Reaches(f, w) => v <= w
    BY <1>4 DEF RobustAgg, Size
  <2>2. UpTo(f, high) = DOMAIN f BY <1>2 DEF UpTo, Values
  <2>3. Size(f) >= (Size(f) + 1) \div 2 BY RankType
  <2>4. Reaches(f, high) BY <2>2, <2>3 DEF Reaches, Size
  <2>5. S \in SUBSET Values(f) /\ S # {} BY <1>2, <2>4
  <2>6. PICK v \in S : \A w \in S : v <= w
    <3> HIDE DEF S
    <3> QED BY <2>5, LeastValue
  <2>7. v \in Values(f) /\ Reaches(f, v) /\ \A w \in Values(f) : Reaches(f, w) => v <= w
    BY <2>6
  <2> QED BY <1>4, <2>1, <2>7
<1> QED BY <1>3, <1>4

\* A value taken by robustAgg() stays among those of honest nodes while liars are fewer,
\* and of too few nodes is no lower than any honest one (config/arweave.js:177-181).
THEOREM MinorityCannotMove ==
  ASSUME NEW f, Valued(f) PROVE Outvotes(f, RobustAgg(f))
<1> DEFINE v == RobustAgg(f)
<1> DEFINE L == DOMAIN f \cap Liars
<1> DEFINE H == DOMAIN f \ Liars
<1> DEFINE few == 2 * Cardinality(L) < Size(f)
<1>1. \A p \in DOMAIN f : f[p] \in Int BY DEF Valued
<1>2. v \in Int BY RobustAggIs DEF Valued, Values
<1>3. Size(f) \in Nat \ {0} BY RankType
<1>4. IsFiniteSet(DOMAIN f) /\ L \in SUBSET DOMAIN f /\ H \in SUBSET DOMAIN f BY DEF Valued
<1>5. IsFiniteSet(L) /\ IsFiniteSet(H) BY <1>4, FS_Subset
<1>6. Cardinality(L) \in Nat /\ Cardinality(H) \in Nat BY <1>5, FS_CardinalityType
<1>7. Cardinality(H) = Size(f) - Cardinality(L)
  <2>1. H = DOMAIN f \ L OBVIOUS
  <2> QED BY <1>4, <2>1, FS_Difference DEF Size
<1> HIDE DEF L, H
<1>8. ASSUME Size(f) < MedianMin, NEW p \in H PROVE v >= f[p]
  <2>1. f[p] \in Values(f) BY <1>4 DEF Values
  <2> QED BY <1>1, <1>2, <1>4, <1>8, <2>1, RobustAggIs
<1>9. ASSUME few PROVE H # {}
  <2>1. Cardinality(H) # 0 BY <1>3, <1>6, <1>7, <1>9
  <2> QED BY <2>1, FS_EmptySet
<1>10. ASSUME few, Size(f) < MedianMin PROVE \E p \in H : v >= f[p] BY <1>8, <1>9, <1>10
<1>11. ASSUME few, ~(Size(f) < MedianMin) PROVE \E p \in H : v >= f[p]
  <2>1. Rank(f, v) >= (Size(f) + 1) \div 2 BY <1>11, RobustAggIs DEF Reaches, Rank, Size
  <2>2. Rank(f, v) \in Nat BY RankType
  <2>3. Rank(f, v) > Cardinality(L) BY <1>3, <1>6, <1>11, <2>1, <2>2
  <2>4. ~(UpTo(f, v) \in SUBSET L)
    <3>1. UpTo(f, v) \in SUBSET L => Rank(f, v) <= Cardinality(L) BY <1>5, FS_Subset DEF Rank
    <3> QED BY <1>6, <2>2, <2>3, <3>1
  <2>5. PICK p \in UpTo(f, v) : p \notin L BY <2>4
  <2>6. p \in H /\ f[p] <= v BY <2>5 DEF UpTo, L, H
  <2> QED BY <1>1, <1>2, <1>4, <2>6
<1>12. ASSUME few, ~(Size(f) < MedianMin) PROVE \E p \in H : v <= f[p]
  <2> DEFINE S == {f[p] : p \in H}
  <2>1. S \in SUBSET Values(f) /\ S # {} BY <1>4, <1>9, <1>12 DEF Values
  <2>2. PICK w \in S : \A u \in S : u <= w
    <3> HIDE DEF S
    <3> QED BY <2>1, GreatestValue
  <2>3. H \in SUBSET UpTo(f, w) BY <1>4, <2>2 DEF UpTo
  <2>4. IsFiniteSet(UpTo(f, w)) /\ Rank(f, w) \in Nat BY RankType
  <2>5. Cardinality(H) <= Rank(f, w) BY <2>3, <2>4, FS_Subset DEF Rank
  <2>6. Rank(f, w) >= (Size(f) + 1) \div 2 BY <1>3, <1>6, <1>7, <1>12, <2>4, <2>5
  <2>7. Reaches(f, w) BY <2>6 DEF Reaches, Rank, Size
  <2>8. v <= w BY <1>12, <2>1, <2>2, <2>7, RobustAggIs
  <2> QED BY <2>2, <2>8
<1>13. ~(Size(f) < MedianMin) <=> Size(f) >= MedianMin BY <1>3, SelectionAssumption
<1> HIDE DEF v
<1> QED BY <1>8, <1>10, <1>11, <1>12, <1>13 DEF Outvotes, Size, L, H, v

-----------------------------------------------------------------------------
(* 2. Discovery: types.                                                    *)

Listing == [is : {"none", "seeds", "probing", "listed", "failed"},
            candidates : SUBSET Peers, list : SUBSET Peers]
Holding == [id : SUBSET Discoveries, list : SUBSET Peers]

LEMMA HealthyArePeers == ASSUME NEW f PROVE Healthy(f) \subseteq DOMAIN f BY DEF Healthy

LEMMA Fresh ==
  /\ NoDiscovery \in Listing /\ Idle \in Holding
  /\ \A d \in Discoveries : [Idle EXCEPT !.id = {d}] \in Holding
  /\ \A L \in SUBSET Peers : [Idle EXCEPT !.list = L] \in Holding
  /\ \A L \in SUBSET Peers : [NoDiscovery EXCEPT !.is = "listed", !.list = L] \in Listing
  /\ [NoDiscovery EXCEPT !.is = "seeds"] \in Listing
  /\ [NoDiscovery EXCEPT !.is = "failed"] \in Listing
  BY DEF NoDiscovery, Idle, Listing, Holding

LEMMA SelectionTypeInit == SelectionInit => SelectionTypeOK
  BY SelectionAssumption DEF SelectionInit, SelectionTypeOK, NoDiscovery, Idle

LEMMA Aged ==
  ASSUME NEW C \in SUBSET [id : Discoveries, old : BOOLEAN]
  PROVE  /\ {[c EXCEPT !.old = TRUE] : c \in C} \in SUBSET [id : Discoveries, old : BOOLEAN]
         /\ \A c \in C : [c EXCEPT !.old = TRUE].id = c.id
<1>1. \A c \in C : /\ [c EXCEPT !.old = TRUE] \in [id : Discoveries, old : BOOLEAN]
                   /\ [c EXCEPT !.old = TRUE].id = c.id
  OBVIOUS
<1> QED BY <1>1

\* What peersFromSeeds() makes of a discovery.
LEMMA Asking ==
  ASSUME NEW g \in [Discoveries -> Listing], NEW d \in Discoveries, NEW S \in SUBSET Peers
  PROVE  [g EXCEPT ![d].is = "probing", ![d].candidates = S] \in [Discoveries -> Listing]
  BY DEF Listing

\* The promise of a discovery settles with a list of nodes.
LEMMA SettleTypes ==
  ASSUME SelectionTypeOK, NEW d \in Discoveries, NEW L \in SUBSET Peers,
         NEW point \in {"ready", "nodes", "ask", "unavailable"}, Settle(d, point, L)
  PROVE  /\ stage' \in [Requests -> {"ready", "nodes", "ask", "unavailable"}]
         /\ call' \in [Requests -> Holding]
<1>1. [Idle EXCEPT !.list = L] \in Holding BY Fresh
<1>2. call \in [Requests -> Holding] BY DEF SelectionTypeOK, Holding
<1> QED BY <1>1, <1>2 DEF Settle, SelectionTypeOK

LEMMA SelectionTypeNext == SelectionTypeOK /\ [SelectionNext]_selectionVars => SelectionTypeOK'
<1> SUFFICES ASSUME SelectionTypeOK, [SelectionNext]_selectionVars PROVE SelectionTypeOK' OBVIOUS
<1> USE DEF SelectionTypeOK
<1>1. found \in [Discoveries -> Listing] /\ call \in [Requests -> Holding]
  BY DEF Listing, Holding
<1>2. ASSUME NEW p \in Peers, NodeChanges(p) PROVE SelectionTypeOK' BY <1>2 DEF NodeChanges
<1>3. ASSUME GrowsOld PROVE SelectionTypeOK'
  <2>1. cache' = {[c EXCEPT !.old = TRUE] : c \in cache} BY <1>3 DEF GrowsOld
  <2>2. cache' \in SUBSET [id : Discoveries, old : BOOLEAN] BY <2>1, Aged
  <2> QED BY <1>3, <2>2 DEF GrowsOld
<1>4. ASSUME NEW d \in Discoveries, AskSeeds(d) PROVE SelectionTypeOK'
  <2>1. PICK reported \in SUBSET Peers :
          found' = [found EXCEPT ![d].is = "probing",
                                 ![d].candidates = Seeds \cup file \cup reported]
    BY <1>4 DEF AskSeeds
  <2>2. Seeds \cup file \cup reported \in SUBSET Peers BY SelectionAssumption
  <2>3. found' \in [Discoveries -> Listing] BY <1>1, <2>1, <2>2, Asking
  <2> QED BY <1>4, <2>3 DEF AskSeeds, Listing
<1>5. ASSUME NEW d \in Discoveries, NoneHealthy(d) PROVE SelectionTypeOK'
  <2>1. found' \in [Discoveries -> Listing] BY <1>1, <1>5, Fresh DEF NoneHealthy
  <2>2. cache' \subseteq cache BY <1>5 DEF NoneHealthy, Forget
  <2>3. Settle(d, "unavailable", {}) BY <1>5 DEF NoneHealthy
  <2>4. stage' \in [Requests -> {"ready", "nodes", "ask", "unavailable"}]
        /\ call' \in [Requests -> Holding]
    BY <2>3, SettleTypes
  <2> QED BY <1>5, <2>1, <2>2, <2>4 DEF NoneHealthy, Listing, Holding
<1>6. ASSUME NEW d \in Discoveries, Select(d) PROVE SelectionTypeOK'
  <2>1. PICK heights \in Probes(d) :
          /\ found' = [found EXCEPT ![d] =
                        [NoDiscovery EXCEPT !.is = "listed", !.list = Healthy(heights)]]
          /\ file' = Healthy(heights)
          /\ Settle(d, "ask", Healthy(heights))
    BY <1>6 DEF Select
  <2>2. Healthy(heights) \in SUBSET Peers BY <2>1, HealthyArePeers DEF Probes
  <2>3. found' \in [Discoveries -> Listing] BY <1>1, <2>1, <2>2, Fresh
  <2>4. stage' \in [Requests -> {"ready", "nodes", "ask", "unavailable"}]
        /\ call' \in [Requests -> Holding]
    BY <2>1, <2>2, SettleTypes
  <2> QED BY <1>6, <2>1, <2>2, <2>3, <2>4 DEF Select, Listing, Holding
<1>7. ASSUME NEW d \in Discoveries, Collect(d) PROVE SelectionTypeOK'
  <2>1. found' \in [Discoveries -> Listing] BY <1>1, <1>7, Fresh DEF Collect
  <2> QED BY <1>7, <2>1 DEF Collect, Listing
<1>8. ASSUME NEW r \in Requests, CachedNodes(r) PROVE SelectionTypeOK'
  <2>1. call' \in [Requests -> Holding]
    <3>1. PICK c \in cache :
            call' = [call EXCEPT ![r] = IF c.id \in Running THEN [Idle EXCEPT !.id = {c.id}]
                                        ELSE [Idle EXCEPT !.list = found[c.id].list]]
      BY <1>8 DEF CachedNodes
    <3>2. c.id \in Discoveries /\ found[c.id].list \in SUBSET Peers BY <1>1 DEF Listing
    <3>3. /\ [Idle EXCEPT !.id = {c.id}] \in Holding
          /\ [Idle EXCEPT !.list = found[c.id].list] \in Holding
      BY <3>2, Fresh
    <3> QED BY <1>1, <3>1, <3>3
  <2>2. stage' \in [Requests -> {"ready", "nodes", "ask", "unavailable"}] BY <1>8 DEF CachedNodes
  <2> QED BY <1>8, <2>1, <2>2 DEF CachedNodes, Holding
<1>9. ASSUME NEW r \in Requests, NewDiscovery(r) PROVE SelectionTypeOK'
  <2>1. PICK d \in Discoveries :
          /\ found' = [found EXCEPT ![d] = [NoDiscovery EXCEPT !.is = "seeds"]]
          /\ cache' = {[id |-> d, old |-> FALSE]}
          /\ call' = [call EXCEPT ![r] = [Idle EXCEPT !.id = {d}]]
          /\ dropped' = (dropped \cup {c.id : c \in cache}) \ {d}
    BY <1>9 DEF NewDiscovery
  <2>2. found' \in [Discoveries -> Listing] BY <1>1, <2>1, Fresh
  <2>3. call' \in [Requests -> Holding] BY <1>1, <2>1, Fresh
  <2>4. dropped' \in SUBSET Discoveries BY <2>1
  <2>5. stage' \in [Requests -> {"ready", "nodes", "ask", "unavailable"}]
        /\ up' = up /\ file' = file
    BY <1>9 DEF NewDiscovery
  <2>6. cache' \in SUBSET [id : Discoveries, old : BOOLEAN] BY <2>1
  <2> QED BY <2>2, <2>3, <2>4, <2>5, <2>6 DEF Listing, Holding
<1>10. ASSUME NEW r \in Requests, Answered(r) \/ Return(r) PROVE SelectionTypeOK'
  <2>1. call' \in [Requests -> Holding] BY <1>1, <1>10, Fresh DEF Answered, Return
  <2> QED BY <1>10, <2>1 DEF Answered, Return, Holding
<1>11. ASSUME NEW r \in Requests, NoAnswer(r) PROVE SelectionTypeOK'
  <2>1. call' \in [Requests -> Holding] BY <1>1, <1>11, Fresh DEF NoAnswer
  <2>2. cache' = {} /\ dropped' \in SUBSET Discoveries BY <1>11 DEF NoAnswer, InvalidateNodes
  <2>3. stage' \in [Requests -> {"ready", "nodes", "ask", "unavailable"}] BY <1>11 DEF NoAnswer
  <2>4. up' = up /\ found' = found /\ file' = file BY <1>11 DEF NoAnswer
  <2> QED BY <2>1, <2>2, <2>3, <2>4 DEF Holding
<1>12. CASE UNCHANGED selectionVars BY <1>12 DEF selectionVars
<1> QED
  BY <1>2, <1>3, <1>4, <1>5, <1>6, <1>7, <1>8, <1>9, <1>10, <1>11, <1>12
  DEF SelectionNext, DiscoveryStep, RequestStep

\* Every variable keeps its type.
THEOREM SelectionTypeCorrect == SelectionSpec => []SelectionTypeOK
  BY SelectionTypeInit, SelectionTypeNext, PTL DEF SelectionSpec

-----------------------------------------------------------------------------
(* 3. Prices and heights.                                                  *)

LEMMA HonestNumbers == AllPrices \subseteq Int /\ AllHeights \subseteq Int
<1>1. Tip \in Int BY SelectionAssumption
<1> QED BY <1>1, SelectionAssumption DEF AllPrices, AllHeights

\* "With 3 quotes, one inflated quote cannot raise the fee and one deflated quote
\* cannot shrink it" (config/arweave.js:472-474), for any number of quotes.
THEOREM PricesAreHonest == SelectionSpec => []LiarsDoNotSetPrices
<1>1. SelectionTypeOK => LiarsDoNotSetPrices
  <2> SUFFICES ASSUME SelectionTypeOK, NEW r \in Requests, stage[r] = "ask", NEW f \in Answers(r),
                      NEW fee \in Fee(f)
               PROVE  Outvotes(f, fee)
    BY DEF LiarsDoNotSetPrices
  <2>1. PICK S \in Asked(call[r].list) : f \in Partial(S \cap up, AllPrices) BY DEF Answers
  <2>2. f # Nothing BY DEF Answers
  <2>3. DOMAIN f \subseteq Peers /\ f \in [DOMAIN f -> AllPrices]
    BY <2>1 DEF Partial, SelectionTypeOK
  <2>4. IsFiniteSet(DOMAIN f) BY <2>3, SelectionAssumption, FS_Subset
  <2>5. DOMAIN f # {} BY <2>2, <2>3 DEF Nothing
  <2>6. f \in [DOMAIN f -> Int] BY <2>3, HonestNumbers
  <2>7. Valued(f) BY <2>4, <2>5, <2>6 DEF Valued
  <2>8. fee = RobustAgg(f) BY DEF Fee
  <2> QED BY <2>7, <2>8, MinorityCannotMove
<1> QED BY <1>1, SelectionTypeCorrect, PTL

\* Honest nodes stay on the list, if MAX_PEER_LAG allows for the block they may lack
\* (config/arweave.js:371-375).
THEOREM HonestStay == MaxLag >= 1 => (SelectionSpec => []HonestNodesAreKept)
<1> SUFFICES ASSUME MaxLag >= 1 PROVE SelectionSpec => []HonestNodesAreKept OBVIOUS
<1>1. SelectionTypeOK => HonestNodesAreKept
  <2> SUFFICES ASSUME SelectionTypeOK, NEW d \in Discoveries, NEW f \in Probes(d),
                      Cardinality(DOMAIN f) >= MedianMin,
                      2 * Cardinality(DOMAIN f \cap Liars) < Cardinality(DOMAIN f)
               PROVE  DOMAIN f \ Liars \subseteq Healthy(f)
    BY DEF HonestNodesAreKept
  <2> DEFINE v == RobustAgg(f)
  <2>1. DOMAIN f \subseteq Peers /\ f \in [DOMAIN f -> AllHeights] BY DEF Probes, SelectionTypeOK
  <2>2. IsFiniteSet(DOMAIN f) BY <2>1, SelectionAssumption, FS_Subset
  <2>3. DOMAIN f # {}
    <3>1. SUFFICES ASSUME DOMAIN f = {} PROVE FALSE OBVIOUS
    <3>2. Cardinality(DOMAIN f) = 0 /\ DOMAIN f \cap Liars = {} BY <3>1, FS_EmptySet
    <3>3. Cardinality(DOMAIN f \cap Liars) = 0 BY <3>2, FS_EmptySet
    <3> QED BY <3>2, <3>3
  <2>4. f \in [DOMAIN f -> Int] BY <2>1, HonestNumbers
  <2>5. Valued(f) BY <2>2, <2>3, <2>4 DEF Valued
  <2>6. Outvotes(f, v) BY <2>5, MinorityCannotMove
  <2>7. \A p \in DOMAIN f \ Liars : f[p] \in {Tip - 1, Tip} BY DEF Probes, Says
  <2>8. Tip \in Int /\ MaxLag \in Int BY SelectionAssumption
  <2>9. v \in Int BY <2>5, RobustAggIs DEF Valued, Values
  <2> HIDE DEF v
  <2>10. PICK p \in DOMAIN f \ Liars : v >= f[p] BY <2>6 DEF Outvotes
  <2>11. PICK q \in DOMAIN f \ Liars : v <= f[q] BY <2>6 DEF Outvotes
  <2>12. v >= Tip - 1 /\ v <= Tip BY <2>7, <2>8, <2>9, <2>10, <2>11
  <2>13. ASSUME NEW h \in DOMAIN f \ Liars PROVE Distance(f[h], v) <= MaxLag
    BY <2>7, <2>8, <2>9, <2>12, <2>13 DEF Distance
  <2> QED BY <2>13 DEF Healthy, v
<1> QED BY <1>1, SelectionTypeCorrect, PTL

-----------------------------------------------------------------------------
(* 4. One discovery for all.                                               *)

\* A discovery that runs is in the cache, or was dropped from it.
SharedInv ==
  /\ \A b, c \in cache : b = c
  /\ Running \ dropped \subseteq {c.id : c \in cache}

LEMMA SharedInit == SelectionInit => SharedInv
  BY DEF SelectionInit, SharedInv, Running, NoDiscovery

LEMMA SharedNext == SelectionTypeOK /\ SharedInv /\ [SelectionNext]_selectionVars => SharedInv'
<1> SUFFICES ASSUME SelectionTypeOK, SharedInv, [SelectionNext]_selectionVars PROVE SharedInv' OBVIOUS
<1> USE DEF SelectionTypeOK, SharedInv
<1>1. ASSUME Running' \subseteq Running, cache' = cache, dropped' = dropped PROVE SharedInv'
  BY <1>1
<1>2. ASSUME NEW p \in Peers, NodeChanges(p) PROVE SharedInv'
  BY <1>1, <1>2 DEF NodeChanges, Running
<1>3. ASSUME GrowsOld PROVE SharedInv'
  <2>1. cache' = {[c EXCEPT !.old = TRUE] : c \in cache} BY <1>3 DEF GrowsOld
  <2>2. \A c \in cache : [c EXCEPT !.old = TRUE].id = c.id BY Aged
  <2>3. {c.id : c \in cache} \subseteq {c.id : c \in cache'}
    <3>1. ASSUME NEW c \in cache PROVE \E b \in cache' : b.id = c.id BY <2>1, <2>2
    <3> QED BY <3>1
  <2>4. Running' = Running /\ dropped' = dropped BY <1>3 DEF GrowsOld, Running
  <2>5. \A b, c \in cache' : b = c BY <2>1
  <2> HIDE DEF Running
  <2> QED BY <2>3, <2>4, <2>5
<1>4. ASSUME NEW d \in Discoveries, AskSeeds(d) PROVE SharedInv'
  <2>1. /\ found[d].is = "seeds"
        /\ \E C : found' = [found EXCEPT ![d].is = "probing", ![d].candidates = C]
    BY <1>4 DEF AskSeeds
  <2>2. Running' \subseteq Running BY <2>1 DEF Running
  <2> QED BY <1>1, <1>4, <2>2 DEF AskSeeds
<1>5. ASSUME NEW d \in Discoveries, NoneHealthy(d) PROVE SharedInv'
  <2>1. cache' = {c \in cache : c.id # d} /\ dropped' = dropped \cup {d}
    BY <1>5 DEF NoneHealthy, Forget
  <2>2. Running' \subseteq Running BY <1>5 DEF NoneHealthy, Running, NoDiscovery
  <2> QED BY <2>1, <2>2
<1>6. ASSUME NEW d \in Discoveries, Select(d) PROVE SharedInv'
  BY <1>1, <1>6 DEF Select, Running, NoDiscovery
<1>7. ASSUME NEW d \in Discoveries, Collect(d) PROVE SharedInv'
  BY <1>1, <1>7 DEF Collect, Running, NoDiscovery
<1>8. ASSUME NEW r \in Requests, CachedNodes(r) \/ Answered(r) \/ Return(r) PROVE SharedInv'
  BY <1>1, <1>8 DEF CachedNodes, Answered, Return, Running
<1>9. ASSUME NEW r \in Requests, NewDiscovery(r) PROVE SharedInv'
  <2>1. PICK d \in Discoveries :
          /\ found' = [found EXCEPT ![d] = [NoDiscovery EXCEPT !.is = "seeds"]]
          /\ cache' = {[id |-> d, old |-> FALSE]}
          /\ dropped' = (dropped \cup {c.id : c \in cache}) \ {d}
    BY <1>9 DEF NewDiscovery
  <2>2. Running' \subseteq Running \cup {d} BY <2>1 DEF Running, NoDiscovery
  <2>3. {c.id : c \in cache'} = {d} BY <2>1
  <2> QED BY <2>1, <2>2, <2>3
<1>10. ASSUME NEW r \in Requests, NoAnswer(r) PROVE SharedInv'
  <2>1. cache' = {} /\ dropped' = dropped \cup {c.id : c \in cache} /\ Running' = Running
    BY <1>10 DEF NoAnswer, InvalidateNodes, Running
  <2> QED BY <2>1
<1>11. CASE UNCHANGED selectionVars BY <1>1, <1>11 DEF selectionVars, Running
<1> QED
  BY <1>2, <1>3, <1>4, <1>5, <1>6, <1>7, <1>8, <1>9, <1>10, <1>11
  DEF SelectionNext, DiscoveryStep, RequestStep

\* Next to the discovery in the cache only those go on that were dropped from it
\* (config/arweave.js:400-411).
THEOREM Shared == SelectionSpec => []OneDiscoveryForAll
<1>1. SelectionInit => SelectionTypeOK /\ SharedInv BY SelectionTypeInit, SharedInit
<1>2. SelectionTypeOK /\ SharedInv /\ [SelectionNext]_selectionVars => (SelectionTypeOK /\ SharedInv)' BY SelectionTypeNext, SharedNext
<1>3. SelectionTypeOK /\ SharedInv => OneDiscoveryForAll
  <2> SUFFICES ASSUME SharedInv PROVE Cardinality(Running \ dropped) <= 1
    BY DEF OneDiscoveryForAll
  <2> DEFINE T == Running \ dropped
  <2>1. \A x, y \in T : x = y BY DEF SharedInv
  <2> HIDE DEF T
  <2>2. CASE T = {}
    <3>1. Cardinality(T) = 0 BY <2>2, FS_EmptySet
    <3> QED BY <3>1 DEF T
  <2>3. CASE T # {}
    <3>1. PICK x : T = {x} BY <2>1, <2>3
    <3>2. Cardinality(T) = 1 BY <3>1, FS_Singleton
    <3> QED BY <3>2 DEF T
  <2> QED BY <2>2, <2>3
<1> QED BY <1>1, <1>2, <1>3, PTL DEF SelectionSpec

-----------------------------------------------------------------------------
(* 5. States of a push.                                                    *)

Tasks == [at : {"none", "post", "save", "ended"}, retries : 0 .. ChunkRetries]

Used(s) == Those(s, "done") \cup Those(s, "active")

\* What a state says was sent was received, and what it counts on lies apart.
Good(s, got) ==
  /\ \A n \in Nodes : /\ 0 .. (s[n].next - 1) \subseteq got[n]
                      /\ s[n].is = "done" => s[n].next = Total
  /\ Apart(Used(s)) /\ Cardinality(Used(s)) <= MinHolders

\* Only active nodes are sent anything, and only while their pass is in its uploads.
TaskInv ==
  \A p \in Pass :
    /\ at[p] \in {"next", "loop", "probe"} =>
         \A n \in Nodes : task[p][n].at \in {"none", "ended"}
    /\ \A n \in Nodes :
         /\ task[p][n].at = "post" => holders[p][n].is = "active" /\ holders[p][n].next < Total
         /\ task[p][n].at = "save" => holders[p][n].is = "active"

GoodInv == Good(row, received) /\ \A p \in Pass : Good(holders[p], received)

PushInv == TypeOK /\ TaskInv /\ GoodInv

LEMMA UsedFinite ==
  ASSUME NEW s, NEW T \in SUBSET Used(s)
  PROVE  /\ IsFiniteSet(Used(s)) /\ Cardinality(Used(s)) \in Nat
         /\ IsFiniteSet(T) /\ Cardinality(T) \in Nat /\ Cardinality(T) <= Cardinality(Used(s))
<1>1. Used(s) \in SUBSET Nodes BY DEF Used, Those
<1>2. IsFiniteSet(Used(s)) BY <1>1, PushAssumption, FS_Subset
<1> QED BY <1>2, FS_Subset, FS_CardinalityType

\* A state that counts on fewer nodes, and says no more of what was sent, is good too.
LEMMA GoodFewer ==
  ASSUME NEW s, NEW got, Good(s, got), NEW z, NEW more,
         Used(z) \subseteq Used(s), \A n \in Nodes : got[n] \subseteq more[n],
         \A n \in Nodes : /\ 0 .. (z[n].next - 1) \subseteq more[n]
                          /\ z[n].is = "done" => z[n].next = Total
  PROVE  Good(z, more)
<1>1. Apart(Used(z)) BY DEF Good, Apart
<1>2. Cardinality(Used(z)) <= Cardinality(Used(s)) /\ Cardinality(Used(z)) \in Nat
      /\ Cardinality(Used(s)) \in Nat
  BY UsedFinite
<1>3. Cardinality(Used(s)) <= MinHolders BY DEF Good
<1>4. Cardinality(Used(z)) <= MinHolders BY <1>2, <1>3, PushAssumption
<1> QED BY <1>1, <1>4 DEF Good

LEMMA GoodStays ==
  ASSUME NEW s, NEW got, NEW more, Good(s, got), \A n \in Nodes : got[n] \subseteq more[n]
  PROVE  Good(s, more)
<1>1. \A n \in Nodes : /\ 0 .. (s[n].next - 1) \subseteq more[n]
                       /\ s[n].is = "done" => s[n].next = Total
  BY DEF Good
<1> QED BY <1>1, GoodFewer

\* BeginUploads() counts a holder with its last chunk as done.
LEMMA FinishedGood ==
  ASSUME NEW s \in [Nodes -> Holder], NEW got, Good(s, got)
  PROVE  LET z == [n \in Nodes |-> Finished(s[n])]
         IN  z \in [Nodes -> Holder] /\ Good(z, got)
<1> DEFINE z == [n \in Nodes |-> Finished(s[n])]
<1>1. ASSUME NEW n \in Nodes
      PROVE  /\ Finished(s[n]) \in Holder /\ Finished(s[n]).next = s[n].next
             /\ Finished(s[n]).is = "done" =>
                  s[n].is = "done" \/ (s[n].is = "active" /\ s[n].next = Total)
             /\ Finished(s[n]).is = "active" => s[n].is = "active"
  <2> DEFINE h == s[n]
  <2>1. h \in Holder OBVIOUS
  <2> HIDE DEF h
  <2>2. CASE h.is = "active" /\ h.next = Total
    <3>1. Finished(h) = [h EXCEPT !.is = "done"] BY <2>2 DEF Finished
    <3>2. Finished(h) \in Holder /\ Finished(h).next = h.next /\ Finished(h).is = "done"
      BY <2>1, <3>1 DEF Holder
    <3> QED BY <2>2, <3>2 DEF h
  <2>3. CASE ~(h.is = "active" /\ h.next = Total)
    <3>1. Finished(h) = h BY <2>3 DEF Finished
    <3> QED BY <2>1, <3>1 DEF h
  <2> QED BY <2>2, <2>3
<1>2. z \in [Nodes -> Holder] BY <1>1
<1>3. Used(z) \subseteq Used(s) BY <1>1 DEF Used, Those
<1>4. \A n \in Nodes : /\ 0 .. (z[n].next - 1) \subseteq got[n]
                       /\ z[n].is = "done" => z[n].next = Total
  BY <1>1 DEF Good
<1> HIDE DEF z
<1>5. Good(z, got) BY <1>3, <1>4, GoodFewer
<1> QED BY <1>2, <1>5 DEF z

\* findLongTermNodes() adds nodes in other blocks, and no more than are needed.
LEMMA FreshGood ==
  ASSUME TypeOK, NEW p \in Pass, Good(holders[p], received),
         NEW fresh \in SUBSET Candidates(p), Apart(fresh),
         Cardinality(fresh) <= Need(p),
         NEW more, \A n \in Nodes : received[n] \subseteq more[n], \A n \in fresh : 0 \in more[n]
  PROVE  /\ With(holders[p], fresh) \in [Nodes -> Holder]
         /\ Good(With(holders[p], fresh), more)
<1> DEFINE s == holders[p]
<1> DEFINE z == With(holders[p], fresh)
<1>1. s \in [Nodes -> Holder] BY DEF TypeOK
<1>2. fresh \in SUBSET Nodes BY DEF Candidates
<1>3. Total \in Nat \ {0} /\ MinHolders \in Nat BY PushAssumption
<1>4. ASSUME NEW n \in Nodes
      PROVE  /\ z[n] \in Holder
             /\ n \notin fresh => z[n] = s[n]
             /\ n \in fresh => z[n].next = 1 /\ (z[n].is = "done" => Total = 1)
  BY <1>1, <1>3 DEF With, Holder
<1>5. z \in [Nodes -> Holder] BY <1>4 DEF With
<1>6. Used(z) \subseteq Used(s) \cup fresh BY <1>4 DEF Used, Those
<1>7. Apart(Used(s) \cup fresh)
  <2>1. Apart(Used(s)) BY DEF Good
  <2>2. \A n \in fresh : BlockOf[n] \notin UsedBlocks(p) BY DEF Candidates
  <2>3. \A m \in Used(s), n \in fresh : BlockOf[m] # BlockOf[n]
    BY <2>2 DEF UsedBlocks, Used, Done, Active
  <2> QED BY <2>1, <2>3 DEF Apart
<1>8. Cardinality(Used(s) \cup fresh) <= MinHolders /\ IsFiniteSet(Used(s) \cup fresh)
  <2>1. IsFiniteSet(Done(p)) /\ IsFiniteSet(Active(p)) /\ IsFiniteSet(fresh)
    BY <1>2, PushAssumption, FS_Subset DEF Done, Active, Those
  <2>2. Used(s) = Done(p) \cup Active(p) /\ Done(p) \cap Active(p) = {}
    BY DEF Used, Done, Active, Those
  <2>3. IsFiniteSet(Used(s)) BY UsedFinite
  <2>4. /\ Cardinality(Done(p)) \in Nat /\ Cardinality(Active(p)) \in Nat
        /\ Cardinality(fresh) \in Nat
    BY <2>1, FS_CardinalityType
  <2>5. Cardinality(Used(s)) = Cardinality(Done(p)) + Cardinality(Active(p))
    <3>1. Cardinality(Done(p) \cap Active(p)) = 0 BY <2>2, FS_EmptySet
    <3>2. Cardinality(Done(p) \cup Active(p)) =
            Cardinality(Done(p)) + Cardinality(Active(p)) - Cardinality(Done(p) \cap Active(p))
      BY <2>1, FS_Union
    <3> QED BY <2>2, <2>4, <3>1, <3>2
  <2>6. /\ IsFiniteSet(Used(s) \cup fresh)
        /\ Cardinality(Used(s) \cup fresh) <= Cardinality(Used(s)) + Cardinality(fresh)
    <3>1. IsFiniteSet(Used(s) \cap fresh) BY <2>1, FS_Subset
    <3>2. Cardinality(Used(s) \cap fresh) \in Nat BY <3>1, FS_CardinalityType
    <3>3. Cardinality(Used(s)) \in Nat BY <2>3, FS_CardinalityType
    <3>4. /\ IsFiniteSet(Used(s) \cup fresh)
          /\ Cardinality(Used(s) \cup fresh) =
               Cardinality(Used(s)) + Cardinality(fresh) - Cardinality(Used(s) \cap fresh)
      BY <2>1, <2>3, FS_Union
    <3> HIDE DEF s
    <3> QED BY <2>4, <3>2, <3>3, <3>4
  <2>7. Cardinality(Used(s) \cup fresh) \in Nat BY <2>6, FS_CardinalityType
  <2> QED BY <1>3, <2>4, <2>5, <2>6, <2>7 DEF Need
<1>9. \A n \in Nodes : /\ 0 .. (z[n].next - 1) \subseteq more[n]
                       /\ z[n].is = "done" => z[n].next = Total
  <2>1. ASSUME NEW n \in fresh PROVE 0 .. (z[n].next - 1) = {0} BY <1>2, <1>4
  <2>2. ASSUME NEW n \in Nodes, n \notin fresh PROVE 0 .. (z[n].next - 1) \subseteq more[n]
    BY <1>4, <2>2 DEF Good
  <2>3. ASSUME NEW n \in Nodes, z[n].is = "done" PROVE z[n].next = Total
    BY <1>4, <2>3 DEF Good
  <2>4. ASSUME NEW n \in fresh PROVE 0 .. (z[n].next - 1) \subseteq more[n]
    BY <1>2, <2>1
  <2> QED BY <2>2, <2>3, <2>4
<1>10. Apart(Used(z)) BY <1>6, <1>7 DEF Apart
<1>11. Cardinality(Used(z)) <= MinHolders
  <2>1. Cardinality(Used(z)) <= Cardinality(Used(s) \cup fresh) BY <1>6, <1>8, FS_Subset
  <2>2. Cardinality(Used(z)) \in Nat /\ Cardinality(Used(s) \cup fresh) \in Nat
    BY <1>8, UsedFinite, FS_CardinalityType
  <2> QED BY <1>3, <1>8, <2>1, <2>2
<1> HIDE DEF z
<1>12. Good(z, more) BY <1>9, <1>10, <1>11 DEF Good
<1> QED BY <1>5, <1>12 DEF z

-----------------------------------------------------------------------------
(* 6. One upload.                                                          *)

\* What a step of uploadTo() makes of its holder h and task, and what was received.
Moved(p, n, h, t, got) ==
  /\ h \in Holder /\ t \in Tasks /\ got \in SUBSET Chunks
  /\ holders' = [holders EXCEPT ![p] = [holders[p] EXCEPT ![n] = h]]
  /\ task' = [task EXCEPT ![p] = [task[p] EXCEPT ![n] = t]]
  /\ received' = [received EXCEPT ![n] = got]
  /\ received[n] \subseteq got /\ 0 .. (h.next - 1) \subseteq got
  /\ h.is = "done" => h.next = Total
  /\ h.is \in {"done", "active"} => holders[p][n].is \in {"done", "active"}
  /\ t.at = "post" => h.is = "active" /\ h.next < Total
  /\ t.at = "save" => h.is = "active"

LEMMA AcceptsMoves ==
  ASSUME PushInv, NEW p \in Pass, NEW n \in Nodes, task[p][n].at = "post", Accepts(p, n)
  PROVE  \E h, t, got : Moved(p, n, h, t, got)
<1> DEFINE old == holders[p][n]
<1> DEFINE next == old.next + 1
<1> DEFINE got == received[n] \cup {next - 1}
<1>1. old \in Holder /\ old.is = "active" /\ old.next < Total
  BY DEF PushInv, TypeOK, TaskInv
<1>2. 0 .. (old.next - 1) \subseteq received[n] BY DEF PushInv, GoodInv, Good
<1>3. received[n] \in SUBSET Chunks BY DEF PushInv, TypeOK
<1>4. Total \in Nat \ {0} /\ ChunkRetries \in Nat BY PushAssumption
<1>5. old.next \in Nat /\ next \in 0 .. Total BY <1>1, <1>4 DEF Holder
<1>6. next - 1 \in Chunks BY <1>1, <1>4, <1>5 DEF Chunks
<1>7. 0 .. (next - 1) \subseteq got BY <1>2, <1>5
<1>8. got \in SUBSET Chunks BY <1>3, <1>6
<1>9. received' = [received EXCEPT ![n] = got] BY DEF Accepts
<1>10. CASE next % SaveEvery = 0
  <2> DEFINE h == [old EXCEPT !.next = next]
  <2> DEFINE t == [at |-> "save", retries |-> 0]
  <2>1. h \in Holder /\ h.next = next /\ h.is = "active" BY <1>1, <1>5 DEF Holder
  <2>2. holders' = [holders EXCEPT ![p][n].next = next] BY <1>10 DEF Accepts
  <2>3. holders' = [holders EXCEPT ![p] = [holders[p] EXCEPT ![n] = h]] BY <2>2, Zenon
  <2>4. task' = [task EXCEPT ![p][n] = t] BY <1>10 DEF Accepts, SetTask
  <2>5. task' = [task EXCEPT ![p] = [task[p] EXCEPT ![n] = t]] BY <2>4, Zenon
  <2>6. t \in Tasks /\ t.at = "save" BY <1>4 DEF Tasks
  <2> HIDE DEF old, next, got, h, t
  <2>7. Moved(p, n, h, t, got)
    BY <1>1, <1>7, <1>8, <1>9, <2>1, <2>3, <2>5, <2>6 DEF Moved, old, got
  <2> QED BY <2>7
<1>11. CASE next % SaveEvery # 0
  <2> DEFINE h == Advanced(old, next)
  <2> DEFINE t == [at |-> IF next = Total THEN "ended" ELSE "post", retries |-> 0]
  <2>1. /\ h \in Holder /\ h.next = next
        /\ next = Total => h.is = "done"
        /\ next # Total => h.is = "active"
    BY <1>1, <1>5 DEF Holder, Advanced
  <2>2. holders' = [holders EXCEPT ![p][n] = Advanced(@, next)] BY <1>11 DEF Accepts
  <2>3. holders' = [holders EXCEPT ![p] = [holders[p] EXCEPT ![n] = h]] BY <2>2, Zenon
  <2>4. task' = [task EXCEPT ![p][n] = t] BY <1>11 DEF Accepts, SetTask
  <2>5. task' = [task EXCEPT ![p] = [task[p] EXCEPT ![n] = t]] BY <2>4, Zenon
  <2>6. t \in Tasks /\ (t.at = "post" => next # Total) /\ t.at # "save" BY <1>4 DEF Tasks
  <2>7. next # Total => next < Total BY <1>4, <1>5
  <2> HIDE DEF old, next, got, h, t
  <2>8. Moved(p, n, h, t, got)
    BY <1>1, <1>7, <1>8, <1>9, <2>1, <2>3, <2>5, <2>6, <2>7 DEF Moved, old, got
  <2> QED BY <2>8
<1> QED BY <1>10, <1>11

\* The other steps of an upload leave what was received, and the count of chunks.
LEMMA OtherMoves ==
  ASSUME PushInv, NEW p \in Pass, NEW n \in Nodes,
         NEW h \in Holder, NEW t \in Tasks, h.next = holders[p][n].next,
         holders' = [holders EXCEPT ![p] = [holders[p] EXCEPT ![n] = h]],
         task' = [task EXCEPT ![p] = [task[p] EXCEPT ![n] = t]], received' = received,
         h.is = "done" => h.next = Total,
         h.is \in {"done", "active"} => holders[p][n].is \in {"done", "active"},
         t.at = "post" => h.is = "active" /\ h.next < Total, t.at # "save"
  PROVE  \E g, u, got : Moved(p, n, g, u, got)
<1>1. received \in [Nodes -> SUBSET Chunks] BY DEF PushInv, TypeOK
<1>2. received' = [received EXCEPT ![n] = received[n]] BY <1>1
<1>3. 0 .. (h.next - 1) \subseteq received[n] BY DEF PushInv, GoodInv, Good
<1>4. Moved(p, n, h, t, received[n]) BY <1>1, <1>2, <1>3 DEF Moved
<1> QED BY <1>4

LEMMA EndsMoves ==
  ASSUME PushInv, NEW p \in Pass, NEW n \in Nodes, SetTask(p, n, "ended", 0),
         UNCHANGED <<holders, received>>
  PROVE  \E g, u, got : Moved(p, n, g, u, got)
<1> DEFINE t == [at |-> "ended", retries |-> 0]
<1> DEFINE h == holders[p][n]
<1>1. t \in Tasks BY PushAssumption DEF Tasks
<1>2. task' = [task EXCEPT ![p][n] = t] BY DEF SetTask
<1>3. task' = [task EXCEPT ![p] = [task[p] EXCEPT ![n] = t]] BY <1>2, Zenon
<1>4. h \in Holder /\ (h.is = "done" => h.next = Total)
  BY DEF PushInv, TypeOK, GoodInv, Good
<1>5. holders' = [holders EXCEPT ![p] = [holders[p] EXCEPT ![n] = h]]
  BY DEF PushInv, TypeOK
<1> HIDE DEF h
<1> QED BY <1>1, <1>3, <1>4, <1>5, OtherMoves DEF h

LEMMA TaskMoves ==
  ASSUME PushInv, NEW p \in Pass, NEW n \in Nodes, TaskStep(p, n)
  PROVE  /\ \E h, t, got : Moved(p, n, h, t, got)
         /\ status' = status /\ row' \in {row, holders[p]}
         /\ \/ at' = at
            \/ at[p] = "uploads" /\ \E x \in {"throws", "fatal"} : at' = [at EXCEPT ![p] = x]
<1> DEFINE old == holders[p][n]
<1>0. old \in Holder /\ (old.is = "done" => old.next = Total)
  BY DEF PushInv, TypeOK, GoodInv, Good
<1>1. CASE PostChunk(p, n)
  <2>1. /\ task[p][n].at = "post" /\ status' = status /\ row' = row BY <1>1 DEF PostChunk
  <2>2. old.is = "active" /\ old.next < Total BY <2>1 DEF PushInv, TaskInv
  <2>3. CASE Accepts(p, n) /\ at' = at BY <2>1, <2>3, AcceptsMoves
  <2>4. CASE Drops(p, n) /\ at' = at
    <3> DEFINE h == [old EXCEPT !.is = "failed"]
    <3> DEFINE t == [at |-> "ended", retries |-> 0]
    <3>1. holders' = [holders EXCEPT ![p][n].is = "failed"] /\ task' = [task EXCEPT ![p][n] = t]
          /\ received' = received
      BY <2>4 DEF Drops, SetTask
    <3>2. holders' = [holders EXCEPT ![p] = [holders[p] EXCEPT ![n] = h]] BY <3>1, Zenon
    <3>3. task' = [task EXCEPT ![p] = [task[p] EXCEPT ![n] = t]] BY <3>1, Zenon
    <3>4. h \in Holder /\ h.next = old.next /\ h.is = "failed" BY <1>0 DEF Holder
    <3>5. t \in Tasks /\ t.at = "ended" BY PushAssumption DEF Tasks
    <3> HIDE DEF h, t, old
    <3>6. \E g, u, got : Moved(p, n, g, u, got)
      BY <3>1, <3>2, <3>3, <3>4, <3>5, OtherMoves DEF old
    <3> QED BY <2>1, <2>4, <3>6
  <2>5. CASE /\ task[p][n].retries < ChunkRetries
             /\ SetTask(p, n, "post", task[p][n].retries + 1)
             /\ UNCHANGED <<at, holders, received>>
    <3> DEFINE t == [at |-> "post", retries |-> task[p][n].retries + 1]
    <3>1. task' = [task EXCEPT ![p][n] = t] BY <2>5 DEF SetTask
    <3>2. task' = [task EXCEPT ![p] = [task[p] EXCEPT ![n] = t]] BY <3>1, Zenon
    <3>3. task[p][n].retries \in 0 .. ChunkRetries BY DEF PushInv, TypeOK
    <3>4. t \in Tasks /\ t.at = "post" BY <2>5, <3>3, PushAssumption DEF Tasks
    <3>5. holders' = [holders EXCEPT ![p] = [holders[p] EXCEPT ![n] = old]]
      BY <2>5 DEF PushInv, TypeOK
    <3> HIDE DEF t, old
    <3>6. \E g, u, got : Moved(p, n, g, u, got)
      BY <1>0, <2>2, <2>5, <3>2, <3>4, <3>5, OtherMoves DEF old
    <3> QED BY <2>1, <2>5, <3>6
  <2>6. CASE Throws(p, n, "fatal") /\ UNCHANGED <<holders, received>>
    <3>1. \E g, u, got : Moved(p, n, g, u, got) BY <2>6, EndsMoves DEF Throws
    <3> QED BY <2>1, <2>6, <3>1 DEF Throws
  <2> QED BY <1>1, <2>3, <2>4, <2>5, <2>6 DEF PostChunk
<1>2. CASE SaveProgress(p, n)
  <2>1. task[p][n].at = "save" /\ UNCHANGED <<status, received>> BY <1>2 DEF SaveProgress
  <2>2. old.is = "active" BY <2>1 DEF PushInv, TaskInv
  <2>3. CASE /\ Save(p)
             /\ holders' = [holders EXCEPT ![p][n] = Advanced(@, @.next)]
             /\ SetTask(p, n, IF holders[p][n].next = Total THEN "ended" ELSE "post", 0)
             /\ UNCHANGED at
    <3> DEFINE h == Advanced(old, old.next)
    <3> DEFINE t == [at |-> IF old.next = Total THEN "ended" ELSE "post", retries |-> 0]
    <3>1. holders' = [holders EXCEPT ![p] = [holders[p] EXCEPT ![n] = h]] BY <2>3, Zenon
    <3>2. task' = [task EXCEPT ![p][n] = t] BY <2>3 DEF SetTask
    <3>3. task' = [task EXCEPT ![p] = [task[p] EXCEPT ![n] = t]] BY <3>2, Zenon
    <3>4. /\ h \in Holder /\ h.next = old.next
          /\ old.next = Total => h.is = "done"
          /\ old.next # Total => h.is = "active"
      BY <1>0, <2>2 DEF Holder, Advanced
    <3>5. t \in Tasks /\ t.at # "save" /\ (t.at = "post" => old.next # Total)
      BY PushAssumption DEF Tasks
    <3>6. old.next # Total => old.next < Total BY <1>0, PushAssumption DEF Holder
    <3> HIDE DEF h, t, old
    <3>7. \E g, u, got : Moved(p, n, g, u, got)
      BY <2>1, <2>2, <3>1, <3>3, <3>4, <3>5, <3>6, OtherMoves DEF old
    <3> QED BY <2>1, <2>3, <3>7 DEF Save
  <2>4. CASE Throws(p, n, "throws") /\ UNCHANGED <<row, holders>>
    <3>1. \E g, u, got : Moved(p, n, g, u, got) BY <2>1, <2>4, EndsMoves DEF Throws
    <3> QED BY <2>1, <2>4, <3>1 DEF Throws
  <2> QED BY <1>2, <2>3, <2>4 DEF SaveProgress
<1> QED BY <1>1, <1>2 DEF TaskStep

-----------------------------------------------------------------------------
(* 7. The push: invariant.                                                 *)

Places == {"next", "loop", "probe", "uploads", "throws", "fatal", "over"}

LEMMA PushInit == Init => PushInv
<1> SUFFICES ASSUME Init PROVE PushInv OBVIOUS
<1>1. Total \in Nat \ {0} /\ MinHolders \in Nat /\ ChunkRetries \in Nat BY PushAssumption
<1>2. NoHolder \in Holder /\ NoTask \in Tasks BY <1>1 DEF NoHolder, NoTask, Holder, Tasks
<1>3. TypeOK BY <1>2 DEF Init, TypeOK, Tasks
<1>4. TaskInv BY DEF Init, TaskInv, NoTask
<1> DEFINE s == [n \in Nodes |-> NoHolder]
<1>5. Used(s) = {} BY DEF Used, Those, NoHolder
<1>6. Cardinality(Used(s)) <= MinHolders
  <2>1. Cardinality(Used(s)) = 0 BY <1>5, FS_EmptySet
  <2> QED BY <1>1, <2>1
<1>7. Apart(Used(s)) BY <1>5 DEF Apart
<1>8. \A n \in Nodes : /\ 0 .. (s[n].next - 1) \subseteq received[n]
                       /\ s[n].is = "done" => s[n].next = Total
  BY DEF NoHolder
<1> HIDE DEF s
<1>9. Good(s, received) BY <1>6, <1>7, <1>8 DEF Good
<1>10. GoodInv BY <1>9 DEF GoodInv, Init, s
<1> QED BY <1>3, <1>4, <1>10 DEF PushInv

\* A step of an upload.
LEMMA MovedKeeps ==
  ASSUME PushInv, NEW p \in Pass, NEW n \in Nodes, NEW h, NEW t, NEW got,
         Moved(p, n, h, t, got), task[p][n].at \in {"post", "save"},
         status' = status, row' \in {row, holders[p]},
         \/ at' = at
         \/ at[p] = "uploads" /\ \E x \in {"throws", "fatal"} : at' = [at EXCEPT ![p] = x]
  PROVE  PushInv'
<1> USE DEF Moved
<1> DEFINE z == [holders[p] EXCEPT ![n] = h]
<1>1. TypeOK /\ TaskInv /\ GoodInv BY DEF PushInv
<1>2. holders[p] \in [Nodes -> Holder] /\ task[p] \in [Nodes -> Tasks]
  BY <1>1 DEF TypeOK, Tasks
<1>3. z \in [Nodes -> Holder] /\ [task[p] EXCEPT ![n] = t] \in [Nodes -> Tasks] BY <1>2
<1>4. /\ \A q \in Pass : q # p => holders'[q] = holders[q] /\ task'[q] = task[q]
      /\ holders'[p] = z /\ task'[p] = [task[p] EXCEPT ![n] = t]
  BY <1>1 DEF TypeOK
<1>5. TypeOK'
  <2>1. holders' \in [Pass -> [Nodes -> Holder]] BY <1>1, <1>3 DEF TypeOK
  <2>2. task' \in [Pass -> [Nodes -> Tasks]] BY <1>1, <1>3 DEF TypeOK, Tasks
  <2>3. received' \in [Nodes -> SUBSET Chunks] BY <1>1 DEF TypeOK
  <2>4. row' \in [Nodes -> Holder] BY <1>1, <1>2 DEF TypeOK
  <2>5. at' \in [Pass -> Places] BY <1>1 DEF TypeOK, Places
  <2> QED BY <1>1, <2>1, <2>2, <2>3, <2>4, <2>5 DEF TypeOK, Tasks, Places
<1>6. \A m \in Nodes : received[m] \subseteq received'[m] BY <1>1 DEF TypeOK
<1>7. ASSUME NEW s, Good(s, received) PROVE Good(s, received') BY <1>6, <1>7, GoodStays
<1>8. Good(holders[p], received) /\ Good(row, received) BY <1>1 DEF GoodInv
<1>9. Good(z, received')
  <2>1. Used(z) \subseteq Used(holders[p]) BY <1>2 DEF Used, Those
  <2>2. \A m \in Nodes : m # n => z[m] = holders[p][m] BY <1>2
  <2>3. z[n] = h BY <1>2
  <2>4. received'[n] = got BY <1>1 DEF TypeOK
  <2>5. \A m \in Nodes : /\ 0 .. (z[m].next - 1) \subseteq received'[m]
                         /\ z[m].is = "done" => z[m].next = Total
    BY <1>6, <1>8, <2>2, <2>3, <2>4 DEF Good
  <2> DEFINE w == holders[p]
  <2> DEFINE more == received'
  <2>6. /\ Good(w, received) /\ Used(z) \subseteq Used(w)
        /\ \A m \in Nodes : received[m] \subseteq more[m]
        /\ \A m \in Nodes : /\ 0 .. (z[m].next - 1) \subseteq more[m]
                            /\ z[m].is = "done" => z[m].next = Total
    BY <1>6, <1>8, <2>1, <2>5
  <2> HIDE DEF z, w, more
  <2>7. Good(z, more) BY ONLY <2>6, GoodFewer
  <2> QED BY <2>7 DEF more
<1>10. GoodInv'
  <2>1. Good(row, received)' BY <1>7, <1>8
  <2>2. \A q \in Pass : Good(holders'[q], received') BY <1>1, <1>4, <1>7, <1>9 DEF GoodInv
  <2> QED BY <2>1, <2>2 DEF GoodInv
<1>11. TaskInv'
  <2>1. at[p] \notin {"next", "loop", "probe"} BY <1>1 DEF TaskInv
  <2>2. \A q \in Pass : at'[q] \in {"next", "loop", "probe"} => at'[q] = at[q] /\ q # p
    BY <1>1, <2>1 DEF TypeOK
  <2>3. ASSUME NEW q \in Pass, q # p
        PROVE  /\ at'[q] \in {"next", "loop", "probe"} =>
                    \A m \in Nodes : task'[q][m].at \in {"none", "ended"}
               /\ \A m \in Nodes :
                    /\ task'[q][m].at = "post" => holders'[q][m].is = "active" /\ holders'[q][m].next < Total
                    /\ task'[q][m].at = "save" => holders'[q][m].is = "active"
    BY <1>1, <1>4, <2>2, <2>3 DEF TaskInv
  <2>4. ASSUME NEW m \in Nodes
        PROVE  /\ task'[p][m].at = "post" => holders'[p][m].is = "active" /\ holders'[p][m].next < Total
               /\ task'[p][m].at = "save" => holders'[p][m].is = "active"
    <3>1. CASE m = n BY <1>2, <1>4, <3>1
    <3>2. CASE m # n
      <4>1. task'[p][m] = task[p][m] /\ holders'[p][m] = holders[p][m] BY <1>2, <1>4, <3>2
      <4> QED BY <1>1, <4>1 DEF TaskInv
    <3> QED BY <3>1, <3>2
  <2> QED BY <2>2, <2>3, <2>4 DEF TaskInv
<1> QED BY <1>5, <1>10, <1>11 DEF PushInv

\* pushChunks() sets its uploads off from a good state.
LEMMA BeginKeeps ==
  ASSUME PushInv, NEW p \in Pass, NEW s \in [Nodes -> Holder], BeginUploads(p, s),
         at[p] \in {"loop", "probe"}, status' = status, row' = row,
         received' \in [Nodes -> SUBSET Chunks],
         \A n \in Nodes : received[n] \subseteq received'[n], Good(s, received')
  PROVE  PushInv'
<1> DEFINE z == [n \in Nodes |-> Finished(s[n])]
<1> DEFINE T == [n \in Nodes |->
                   IF Unfinished(s[n]) THEN [at |-> "post", retries |-> 0] ELSE NoTask]
<1>1. TypeOK /\ TaskInv /\ GoodInv BY DEF PushInv
<1>2. /\ at' = [at EXCEPT ![p] = "uploads"] /\ holders' = [holders EXCEPT ![p] = z]
      /\ task' = [task EXCEPT ![p] = T]
  BY DEF BeginUploads, Go
<1>3. z \in [Nodes -> Holder] /\ Good(z, received') BY FinishedGood
<1>4. T \in [Nodes -> Tasks] BY PushAssumption DEF Tasks, NoTask
<1>5. ASSUME NEW n \in Nodes
      PROVE  /\ T[n].at = "post" => z[n].is = "active" /\ z[n].next < Total
             /\ T[n].at # "save"
  <2>1. CASE Unfinished(s[n])
    <3>1. T[n] = [at |-> "post", retries |-> 0] BY <2>1
    <3>2. s[n].next # Total BY <2>1, PushAssumption DEF Unfinished, Holder
    <3>3. z[n] = s[n] BY <3>2 DEF Finished
    <3> HIDE DEF z, T
    <3> QED BY <2>1, <3>1, <3>3 DEF Unfinished
  <2>2. CASE ~Unfinished(s[n])
    <3>1. T[n] = [at |-> "none", retries |-> 0] BY <2>2 DEF NoTask
    <3> HIDE DEF z, T
    <3> QED BY <3>1
  <2> QED BY <2>1, <2>2
<1> HIDE DEF z, T
<1>6. /\ \A q \in Pass : q # p => /\ holders'[q] = holders[q] /\ task'[q] = task[q]
                                  /\ at'[q] = at[q]
      /\ holders'[p] = z /\ task'[p] = T /\ at'[p] = "uploads"
  BY <1>1, <1>2 DEF TypeOK
<1>7. TypeOK'
  <2>1. holders' \in [Pass -> [Nodes -> Holder]] BY <1>1, <1>2, <1>3 DEF TypeOK
  <2>2. task' \in [Pass -> [Nodes -> Tasks]] BY <1>1, <1>2, <1>4 DEF TypeOK, Tasks
  <2>3. at' \in [Pass -> Places] BY <1>1, <1>2 DEF TypeOK, Places
  <2> QED BY <1>1, <2>1, <2>2, <2>3 DEF TypeOK, Tasks, Places
<1>8. GoodInv'
  <2>1. ASSUME NEW y, Good(y, received) PROVE Good(y, received') BY <2>1, GoodStays
  <2>2. Good(row', received') BY <1>1, <2>1 DEF GoodInv
  <2>3. \A q \in Pass : Good(holders'[q], received') BY <1>1, <1>3, <1>6, <2>1 DEF GoodInv
  <2> QED BY <2>2, <2>3 DEF GoodInv
<1>9. TaskInv' BY <1>1, <1>5, <1>6 DEF TaskInv
<1> QED BY <1>7, <1>8, <1>9 DEF PushInv

\* The steps of a pass that touch no holder and no task.
LEMMA GoesKeeps ==
  ASSUME PushInv, NEW p \in Pass, NEW x \in Places, at' = [at EXCEPT ![p] = x],
         x \in {"next", "loop", "probe"} =>
           \A n \in Nodes : task[p][n].at \in {"none", "ended"},
         status' \in {"pending_confirmation", "pending_stake", "storage_failed"},
         row' \in {row, holders[p]}, UNCHANGED <<holders, task, received>>
  PROVE  PushInv'
<1>1. TypeOK /\ TaskInv /\ GoodInv BY DEF PushInv
<1>2. TypeOK' BY <1>1 DEF TypeOK, Places
<1>3. GoodInv' BY <1>1 DEF GoodInv
<1>4. TaskInv'
  <2>1. \A q \in Pass : at'[q] = IF q = p THEN x ELSE at[q] BY <1>1 DEF TypeOK
  <2> QED BY <1>1, <2>1 DEF TaskInv
<1> QED BY <1>2, <1>3, <1>4 DEF PushInv

LEMMA PushNext == PushInv /\ [Next]_vars => PushInv'
<1> SUFFICES ASSUME PushInv, [Next]_vars PROVE PushInv' OBVIOUS
<1>0. TypeOK /\ TaskInv /\ GoodInv BY DEF PushInv
<1>1. ASSUME NEW p \in Pass, Start(p) PROVE PushInv'
  <2>1. /\ at[p] = "next" /\ holders' = [holders EXCEPT ![p] = row]
        /\ at' = [at EXCEPT ![p] = "loop"] /\ UNCHANGED <<status, row, task, received>>
    BY <1>1 DEF Start, Go
  <2>2. TypeOK' BY <1>0, <2>1 DEF TypeOK
  <2>3. GoodInv'
    <3>1. \A q \in Pass : holders'[q] \in {row, holders[q]} BY <1>0, <2>1 DEF TypeOK
    <3> QED BY <1>0, <2>1, <3>1 DEF GoodInv
  <2>4. TaskInv'
    <3>1. \A n \in Nodes : task[p][n].at \in {"none", "ended"} BY <1>0, <2>1 DEF TaskInv
    <3>2. \A q \in Pass : q # p => holders'[q] = holders[q] /\ at'[q] = at[q]
      BY <1>0, <2>1 DEF TypeOK
    <3> QED BY <1>0, <2>1, <3>1, <3>2 DEF TaskInv
  <2> QED BY <2>2, <2>3, <2>4 DEF PushInv
<1>2. ASSUME NEW p \in Pass, Loop(p) PROVE PushInv'
  <2>1. at[p] = "loop" /\ received' = received BY <1>2 DEF Loop
  <2>2. \A n \in Nodes : task[p][n].at \in {"none", "ended"} BY <1>0, <2>1 DEF TaskInv
  <2>3. CASE Pushed(p)
    <3>1. /\ at' = [at EXCEPT ![p] = "over"] /\ row' \in {row, holders[p]}
          /\ status' \in {status, "pending_stake"} /\ UNCHANGED <<holders, task>>
      BY <2>3 DEF Pushed, Go, Save
    <3> QED BY <1>0, <2>1, <3>1, GoesKeeps DEF TypeOK, Places
  <2>4. CASE Go(p, "probe") /\ UNCHANGED <<status, row, holders, task>>
    <3>1. status' \in {"pending_confirmation", "pending_stake", "storage_failed"}
      BY <1>0, <2>4 DEF TypeOK
    <3> QED BY <2>1, <2>2, <2>4, <3>1, GoesKeeps DEF Go, Places
  <2>5. CASE BeginUploads(p, holders[p]) /\ UNCHANGED <<status, row>>
    <3>1. holders[p] \in [Nodes -> Holder] /\ received' \in [Nodes -> SUBSET Chunks]
      BY <1>0, <2>1 DEF TypeOK
    <3>2. Good(holders[p], received') BY <1>0, <2>1 DEF GoodInv
    <3> QED BY <2>1, <2>5, <3>1, <3>2, BeginKeeps
  <2> QED BY <1>2, <2>3, <2>4, <2>5 DEF Loop
<1>3. ASSUME NEW p \in Pass, Probe(p) PROVE PushInv'
  <2>0. PICK ok \in SUBSET Candidates(p) : \E fresh \in SUBSET ok :
          /\ Apart(fresh)
          /\ Cardinality(fresh) = Smaller(Need(p), Cardinality({BlockOf[n] : n \in ok}))
          /\ received' = [n \in Nodes |-> received[n] \cup (IF n \in ok THEN {0} ELSE {})]
          /\ \/ Go(p, "throws") /\ UNCHANGED <<holders, task>>
             \/ BeginUploads(p, With(holders[p], fresh))
    BY <1>3 DEF Probe
  <2>1. PICK fresh \in SUBSET ok :
          /\ Apart(fresh)
          /\ Cardinality(fresh) = Smaller(Need(p), Cardinality({BlockOf[n] : n \in ok}))
          /\ received' = [n \in Nodes |-> received[n] \cup (IF n \in ok THEN {0} ELSE {})]
          /\ \/ Go(p, "throws") /\ UNCHANGED <<holders, task>>
             \/ BeginUploads(p, With(holders[p], fresh))
    BY <2>0
  <2>2. at[p] = "probe" /\ UNCHANGED <<status, row>> BY <1>3 DEF Probe
  <2>3. received' \in [Nodes -> SUBSET Chunks]
    <3>1. 0 \in Chunks BY PushAssumption DEF Chunks
    <3> QED BY <1>0, <2>1, <3>1 DEF TypeOK
  <2>4. \A n \in Nodes : received[n] \subseteq received'[n] BY <2>1
  <2>5. CASE Go(p, "throws") /\ UNCHANGED <<holders, task>>
    <3>1. at' = [at EXCEPT ![p] = "throws"] BY <2>5 DEF Go
    <3>2. TypeOK' BY <1>0, <2>2, <2>3, <2>5, <3>1 DEF TypeOK
    <3>3. GoodInv'
      <4>1. ASSUME NEW s, Good(s, received) PROVE Good(s, received') BY <2>4, <4>1, GoodStays
      <4> QED BY <1>0, <2>2, <2>5, <4>1 DEF GoodInv
    <3>4. TaskInv'
      <4>1. \A q \in Pass : at'[q] = IF q = p THEN "throws" ELSE at[q] BY <1>0, <3>1 DEF TypeOK
      <4> QED BY <1>0, <2>5, <4>1 DEF TaskInv
    <3> QED BY <3>2, <3>3, <3>4 DEF PushInv
  <2>6. CASE BeginUploads(p, With(holders[p], fresh))
    <3>1. Good(holders[p], received) BY <1>0 DEF GoodInv
    <3>2. Cardinality(fresh) <= Need(p)
      <4>1. fresh \in SUBSET Nodes /\ {BlockOf[n] : n \in ok} = {BlockOf[n] : n \in ok}
        BY <2>1 DEF Candidates
      <4>2. Cardinality(fresh) \in Nat BY <4>1, PushAssumption, FS_Subset, FS_CardinalityType
      <4>3. Need(p) \in Int
        <5>1. IsFiniteSet(Done(p)) /\ IsFiniteSet(Active(p))
          BY PushAssumption, FS_Subset DEF Done, Active, Those
        <5>2. Cardinality(Done(p)) \in Nat /\ Cardinality(Active(p)) \in Nat
          BY <5>1, FS_CardinalityType
        <5> QED BY <5>2, PushAssumption DEF Need
      <4>4. Cardinality({BlockOf[n] : n \in ok}) \in Nat
        <5> DEFINE f == [n \in ok |-> BlockOf[n]]
        <5> DEFINE B == {BlockOf[n] : n \in ok}
        <5>1. ok \in SUBSET Nodes BY DEF Candidates
        <5>2. IsFiniteSet(ok) BY <5>1, PushAssumption, FS_Subset
        <5>3. f \in Surjection(ok, B) BY DEF Surjection
        <5> HIDE DEF f, B
        <5>4. IsFiniteSet(B) BY <5>2, <5>3, FS_Surjection
        <5> QED BY <5>4, FS_CardinalityType DEF B
      <4> QED BY <2>1, <4>2, <4>3, <4>4 DEF Smaller
    <3>3. \A n \in fresh : 0 \in received'[n] BY <2>1 DEF Candidates
    <3>4. /\ With(holders[p], fresh) \in [Nodes -> Holder]
          /\ Good(With(holders[p], fresh), received')
      BY <1>0, <2>1, <2>4, <3>1, <3>2, <3>3, FreshGood
    <3> QED BY <2>2, <2>3, <2>4, <2>6, <3>4, BeginKeeps
  <2> QED BY <2>1, <2>5, <2>6
<1>4. ASSUME NEW p \in Pass, ProbeIsFatal(p) \/ Caught(p) \/ CaughtUnsaved(p) PROVE PushInv'
  <2>1. /\ \E x \in {"fatal", "over"} : at' = [at EXCEPT ![p] = x]
        /\ row' \in {row, holders[p]} /\ status' \in {status, "storage_failed"}
        /\ UNCHANGED <<holders, task, received>>
    BY <1>4 DEF ProbeIsFatal, Caught, CaughtUnsaved, Go, Save
  <2> QED BY <1>0, <2>1, GoesKeeps DEF TypeOK, Places
<1>5. ASSUME NEW p \in Pass, AllReturned(p) PROVE PushInv'
  <2>1. /\ \A n \in Nodes : task[p][n].at \in {"none", "ended"}
        /\ at' = [at EXCEPT ![p] = "loop"] /\ row' = holders[p]
        /\ UNCHANGED <<status, holders, task, received>>
    BY <1>5 DEF AllReturned, Go, Save
  <2> QED BY <1>0, <2>1, GoesKeeps DEF TypeOK, Places
<1>6. ASSUME NEW p \in Pass, NEW n \in Nodes, TaskStep(p, n) PROVE PushInv'
  <2>1. task[p][n].at \in {"post", "save"} BY <1>6 DEF TaskStep, PostChunk, SaveProgress
  <2>2. PICK h, t, got : Moved(p, n, h, t, got) BY <1>6, TaskMoves
  <2>3. /\ status' = status /\ row' \in {row, holders[p]}
        /\ \/ at' = at
           \/ at[p] = "uploads" /\ \E x \in {"throws", "fatal"} : at' = [at EXCEPT ![p] = x]
    BY <1>6, TaskMoves
  <2> QED BY <2>1, <2>2, <2>3, MovedKeeps
<1>7. ASSUME Restart PROVE PushInv'
  <2>1. NoTask \in Tasks BY PushAssumption DEF NoTask, Tasks
  <2>2. TypeOK' BY <1>0, <1>7, <2>1 DEF Restart, TypeOK, Tasks
  <2>3. GoodInv' BY <1>0, <1>7 DEF Restart, GoodInv
  <2>4. TaskInv' BY <1>7 DEF Restart, TaskInv, NoTask
  <2> QED BY <2>2, <2>3, <2>4 DEF PushInv
<1>8. CASE UNCHANGED vars
  <2>1. TypeOK' BY <1>0, <1>8 DEF TypeOK, vars
  <2>2. GoodInv' /\ TaskInv' BY <1>0, <1>8 DEF GoodInv, TaskInv, vars
  <2> QED BY <2>1, <2>2 DEF PushInv
<1> QED BY <1>1, <1>2, <1>3, <1>4, <1>5, <1>6, <1>7, <1>8 DEF Next, PassStep

LEMMA PushInvariant == Spec => []PushInv
  BY PushInit, PushNext, PTL DEF Spec

\* Every variable keeps its type.
THEOREM TypeCorrect == Spec => []TypeOK
<1>1. PushInv => TypeOK BY DEF PushInv
<1> QED BY <1>1, PushInvariant, PTL

\* A holder that counts as done answered 200 to every chunk, by whatever passes it was
\* sent them (controller/arweave.js:423-449).
THEOREM HolderHasAll == Spec => []DoneHasEveryChunk
<1>1. PushInv => DoneHasEveryChunk
  <2> SUFFICES ASSUME PushInv, NEW s \in States, NEW n \in Nodes, s[n].is = "done"
               PROVE  received[n] = Chunks
    BY DEF DoneHasEveryChunk, Those
  <2>1. Good(s, received) BY DEF PushInv, GoodInv, States
  <2>2. 0 .. (Total - 1) \subseteq received[n] BY <2>1 DEF Good
  <2>3. received[n] \subseteq Chunks BY DEF PushInv, TypeOK
  <2> QED BY <2>2, <2>3 DEF Chunks
<1> QED BY <1>1, PushInvariant, PTL

\* No two holders a state counts on are in one block, and there are never more than are
\* needed (controller/arweave.js:455-461).
THEOREM SpreadOut == Spec => []HoldersAreApart
<1>1. PushInv => HoldersAreApart
  <2> SUFFICES ASSUME PushInv, NEW s \in States
               PROVE  Apart(Used(s)) /\ Cardinality(Used(s)) <= MinHolders
    BY DEF HoldersAreApart, Used
  <2>1. Good(s, received) BY DEF PushInv, GoodInv, States
  <2> QED BY <2>1 DEF Good
<1> QED BY <1>1, PushInvariant, PTL

-----------------------------------------------------------------------------
(* 8. The push implements Replication.                                     *)

\* What a good state calls done may be counted.
LEMMA GoodCounts ==
  ASSUME TypeOK, NEW s, Good(s, received)
  PROVE  /\ Those(s, "done") \in SUBSET Nodes /\ Spread(Those(s, "done"))
         /\ Those(s, "done") \subseteq Whole
<1> DEFINE S == Those(s, "done")
<1>1. S \subseteq Used(s) BY DEF Used
<1>2. Apart(S) BY <1>1 DEF Good, Apart
<1>3. Cardinality(S) <= MinHolders
  <2>1. /\ Cardinality(S) \in Nat /\ Cardinality(Used(s)) \in Nat
        /\ Cardinality(S) <= Cardinality(Used(s))
    BY <1>1, UsedFinite
  <2>2. Cardinality(Used(s)) <= MinHolders BY DEF Good
  <2> QED BY <2>1, <2>2, PushAssumption
<1>4. S \subseteq Whole
  <2> SUFFICES ASSUME NEW n \in S PROVE n \in Nodes /\ received[n] = Chunks BY DEF Whole
  <2>1. n \in Nodes /\ s[n].is = "done" BY DEF Those
  <2>2. s[n].next = Total /\ 0 .. (s[n].next - 1) \subseteq received[n] BY <2>1 DEF Good
  <2>3. received[n] \subseteq Chunks BY <2>1 DEF TypeOK
  <2> QED BY <2>1, <2>2, <2>3 DEF Chunks
<1> QED BY <1>2, <1>3, <1>4 DEF Spread, Those

\* Nodes receive something, and the row stays.
LEMMA ReceivedAppears ==
  ASSUME TypeOK, \A n \in Nodes : received[n] \subseteq received'[n],
         received' \in [Nodes -> SUBSET Chunks], row' = row, status' = status
  PROVE  Replicated!CopiesAppear
<1>1. Whole' \in SUBSET Nodes BY DEF Whole
<1>2. Whole \subseteq Whole' BY DEF Whole, TypeOK
<1>3. Whole' = Whole \cup Whole' BY <1>2
<1>4. Those(row, "done")' = Those(row, "done") BY DEF Those
<1> QED BY <1>1, <1>3, <1>4 DEF Replicated!CopiesAppear

\* The row is written, or stays, and nothing is received.
LEMMA RowCounts ==
  ASSUME PushInv, NEW p \in Pass, row' \in {row, holders[p]}, received' = received
  PROVE  /\ Those(row, "done")' \in {S \in SUBSET Nodes : Spread(S)}
         /\ Those(row, "done")' \subseteq Whole /\ Whole' = Whole
         /\ status' = status => Replicated!Recount
         /\ status = "pending_confirmation" /\ status' = "storage_failed" => Replicated!GiveUp
<1>1. TypeOK /\ Good(row, received) /\ Good(holders[p], received) BY DEF PushInv, GoodInv
<1>2. Good(row', received) BY <1>1
<1>3. /\ Those(row', "done") \in SUBSET Nodes /\ Spread(Those(row', "done"))
      /\ Those(row', "done") \subseteq Whole
  BY <1>1, <1>2, GoodCounts
<1>4. Those(row, "done")' = Those(row', "done") BY DEF Those
<1>5. Whole' = Whole BY DEF Whole
<1> QED BY <1>3, <1>4, <1>5 DEF Replicated!Recount, Replicated!GiveUp

LEMMA ReplicationStep ==
  PushInv /\ [Next]_vars => [Replicated!Next]_(Replicated!replicationVars)
<1> SUFFICES ASSUME PushInv, [Next]_vars
             PROVE  Replicated!Next \/ UNCHANGED Replicated!replicationVars
  OBVIOUS
<1>0. TypeOK BY DEF PushInv
<1>1. ASSUME NEW p \in Pass,
             Start(p) \/ ProbeIsFatal(p) \/ AllReturned(p) \/ CaughtUnsaved(p)
      PROVE  Replicated!Next
  <2>1. row' \in {row, holders[p]} /\ UNCHANGED <<status, received>>
    BY <1>1 DEF Start, ProbeIsFatal, AllReturned, CaughtUnsaved, Save
  <2> QED BY <2>1, RowCounts DEF Replicated!Next
<1>2. ASSUME NEW p \in Pass, Loop(p) PROVE Replicated!Next
  <2>1. received' = received BY <1>2 DEF Loop
  <2>2. CASE UNCHANGED <<status, row>> BY <2>1, <2>2, RowCounts DEF Replicated!Next
  <2>3. CASE ~UNCHANGED <<status, row>>
    <3>1. /\ Cardinality(Done(p)) >= MinHolders
          /\ status = "pending_confirmation" /\ status' = "pending_stake" /\ row' = holders[p]
      BY <1>2, <2>3 DEF Loop, Pushed, BeginUploads, Save
    <3>2. /\ Those(row, "done")' \in {S \in SUBSET Nodes : Spread(S)}
          /\ Those(row, "done")' \subseteq Whole /\ Whole' = Whole
      BY <2>1, <3>1, RowCounts
    <3>3. Those(row, "done")' = Done(p) BY <3>1 DEF Those, Done
    <3>4. Cardinality(Done(p)) \in Nat BY UsedFinite DEF Used, Done
    <3>5. Cardinality(Done(p)) <= MinHolders BY <3>2, <3>3 DEF Spread
    <3>6. Cardinality(Done(p)) = MinHolders BY <3>1, <3>4, <3>5, PushAssumption
    <3> QED BY <3>1, <3>2, <3>3, <3>6 DEF Replicated!Next, Replicated!Store
  <2> QED BY <2>2, <2>3
<1>3. ASSUME NEW p \in Pass, Probe(p) PROVE Replicated!Next
  <2>1. UNCHANGED <<status, row>> BY <1>3 DEF Probe
  <2>2. PICK ok \in SUBSET Candidates(p) :
          received' = [n \in Nodes |-> received[n] \cup (IF n \in ok THEN {0} ELSE {})]
    BY <1>3 DEF Probe
  <2>3. received' \in [Nodes -> SUBSET Chunks]
    <3>1. 0 \in Chunks BY PushAssumption DEF Chunks
    <3> QED BY <1>0, <2>2, <3>1 DEF TypeOK
  <2>4. \A n \in Nodes : received[n] \subseteq received'[n] BY <2>2
  <2> QED BY <1>0, <2>1, <2>3, <2>4, ReceivedAppears DEF Replicated!Next
<1>4. ASSUME NEW p \in Pass, Caught(p) PROVE Replicated!Next
  <2>1. /\ row' = holders[p] /\ received' = received
        /\ \/ status' = status
           \/ status = "pending_confirmation" /\ status' = "storage_failed"
    BY <1>4 DEF Caught, Save
  <2> QED BY <2>1, RowCounts DEF Replicated!Next
<1>5. ASSUME NEW p \in Pass, NEW n \in Nodes, PostChunk(p, n) PROVE Replicated!Next
  <2>1. UNCHANGED <<status, row>> /\ TaskStep(p, n) BY <1>5 DEF PostChunk, TaskStep
  <2>2. PICK h, t, got : Moved(p, n, h, t, got) BY <2>1, TaskMoves
  <2>3. /\ received' = [received EXCEPT ![n] = got]
        /\ received[n] \subseteq got /\ got \in SUBSET Chunks
    BY <2>2 DEF Moved
  <2>4. received' \in [Nodes -> SUBSET Chunks] /\ \A m \in Nodes : received[m] \subseteq received'[m]
    BY <1>0, <2>3 DEF TypeOK
  <2> QED BY <1>0, <2>1, <2>4, ReceivedAppears DEF Replicated!Next
<1>6. ASSUME NEW p \in Pass, NEW n \in Nodes, SaveProgress(p, n) PROVE Replicated!Next
  <2>1. row' \in {row, holders[p]} /\ UNCHANGED <<status, received>>
    BY <1>6 DEF SaveProgress, Save
  <2> QED BY <2>1, RowCounts DEF Replicated!Next
<1>7. CASE Restart \/ UNCHANGED vars
  <2>1. UNCHANGED <<status, row, received>> BY <1>7 DEF Restart, vars
  <2>2. UNCHANGED Replicated!replicationVars
    BY <2>1 DEF Replicated!replicationVars, Whole, Those
  <2> QED BY <2>2
<1> QED BY <1>1, <1>2, <1>3, <1>4, <1>5, <1>6, <1>7 DEF Next, PassStep, TaskStep

LEMMA ReplicationInit == Init => Replicated!Init
<1> SUFFICES ASSUME Init PROVE Replicated!Init OBVIOUS
<1>1. status = "pending_confirmation" BY DEF Init
<1>2. Those(row, "done") = {} BY DEF Init, Those, NoHolder
<1>3. 0 \in Chunks BY PushAssumption DEF Chunks
<1>4. Whole = {} BY <1>3 DEF Init, Whole
<1> QED BY <1>1, <1>2, <1>4 DEF Replicated!Init

\* pushChunks(): whatever passes, uploads, saves and restarts come in between, nodes only
\* gain copies, the row counts nodes that have one, and enough of them store the book.
THEOREM PushImplements == Spec => ImplementsReplication
<1> QED BY PushInvariant, ReplicationInit, ReplicationStep, PTL
    DEF Spec, ImplementsReplication, Replicated!Spec

\* processUpload(): a stored book has been taken whole by MinHolders nodes in as many
\* blocks, although an upload that outlives its pass may make the row forget them.
THEOREM StoredIsApart == Spec => []Replicated!StoredIsSpread
<1>1. Replicated!Init => Replicated!StoredIsSpread
  BY DEF Replicated!Init, Replicated!StoredIsSpread
<1>2. Replicated!StoredIsSpread /\ [Replicated!Next]_(Replicated!replicationVars)
        => Replicated!StoredIsSpread'
  <2> SUFFICES ASSUME Replicated!StoredIsSpread,
                      [Replicated!Next]_(Replicated!replicationVars), status' = "pending_stake"
               PROVE  \E S \in SUBSET Nodes :
                        Spread(S) /\ Cardinality(S) = MinHolders /\ S \subseteq Whole'
    BY DEF Replicated!StoredIsSpread, Spread, Apart
  <2>1. CASE Replicated!Store BY <2>1 DEF Replicated!Store
  <2>2. CASE ~Replicated!Store
    <3>1. status = "pending_stake" /\ Whole \subseteq Whole'
      BY <2>2 DEF Replicated!Next, Replicated!CopiesAppear, Replicated!Recount,
                  Replicated!GiveUp, Replicated!replicationVars
    <3> QED BY <3>1 DEF Replicated!StoredIsSpread
  <2> QED BY <2>1, <2>2
<1> QED BY <1>1, <1>2, PushImplements, PTL DEF ImplementsReplication, Replicated!Spec
=============================================================================
