---------------------------- MODULE NodeSelection ----------------------------
(***************************************************************************)
(* config/arweave.js: the list of healthy nodes, found by asking seeds and *)
(* probing their peers, shared by all callers and kept for a while; and    *)
(* the values, heights and prices, that are taken from nodes which may lie *)
(***************************************************************************)
EXTENDS Integers, FiniteSets

CONSTANTS
  Peers, Liars, Seeds,  \* nodes; those that say anything; ARWEAVE_PEER_SEEDS
  Discoveries,          \* bound: discoveries known at the same time
  Requests,             \* callers of getPrice() at the same time
  MedianMin,            \* MEDIAN_MIN
  Quorum, MaxAttempts,  \* PRICE_QUORUM, MAX_ATTEMPTS
  MaxLag,               \* MAX_PEER_LAG
  Tip,                  \* height of the chain
  Heights, Prices,      \* what liars may say
  HonestPrices, Cap     \* what honest nodes ask, and ARWEAVE_MAX_REWARD_AR

ASSUME SelectionAssumption ==
  /\ IsFiniteSet(Peers) /\ Liars \subseteq Peers /\ Seeds \subseteq Peers
  /\ {MedianMin, Quorum, MaxAttempts, MaxLag, Tip, Cap} \subseteq Nat
  /\ Heights \subseteq Nat /\ Prices \subseteq Nat
  /\ HonestPrices \subseteq Nat /\ HonestPrices # {}

VARIABLES
  up,        \* nodes that answer
  cache,     \* _nodes: none, or one [id, old]
  found,     \* the discoveries, by id
  file,      \* ARWEAVE_PEER_CACHE_FILE
  stage, call,  \* requests: the await, what they hold across it
  dropped       \* history: discoveries that were taken out of the cache

selectionVars == <<up, cache, found, file, stage, call, dropped>>

Partial(S, T) == UNION {[R -> T] : R \in SUBSET S}
AllHeights == Heights \cup {Tip - 1, Tip}
AllPrices == Prices \cup HonestPrices

Nothing == [x \in {} |-> 0]
NoDiscovery == [is |-> "none", candidates |-> {}, list |-> {}]
Idle == [id |-> {}, list |-> {}]

SelectionTypeOK ==
  /\ up \in SUBSET Peers
  /\ cache \in SUBSET [id : Discoveries, old : BOOLEAN]
  /\ found \in [Discoveries -> [is : {"none", "seeds", "probing", "listed", "failed"},
                                candidates : SUBSET Peers, list : SUBSET Peers]]
  /\ file \in SUBSET Peers
  /\ stage \in [Requests -> {"ready", "nodes", "ask", "unavailable"}]
  /\ call \in [Requests -> [id : SUBSET Discoveries, list : SUBSET Peers]]
  /\ dropped \in SUBSET Discoveries

SelectionInit ==
  /\ up = Peers /\ cache = {} /\ file = {} /\ dropped = {}
  /\ found = [d \in Discoveries |-> NoDiscovery]
  /\ stage = [r \in Requests |-> "ready"] /\ call = [r \in Requests |-> Idle]

-----------------------------------------------------------------------------
(* Values of untrusted nodes.                                              *)

UpTo(f, v) == {p \in DOMAIN f : f[p] <= v}

Values(f) == {f[p] : p \in DOMAIN f}

\* sorted[floor((n - 1) / 2)]: at least that many values, and one, are up to it.
Reaches(f, v) == Cardinality(UpTo(f, v)) >= (Cardinality(DOMAIN f) + 1) \div 2

\* Bug: a median of whatever number of values.
MedianOfAny(f) ==
  CHOOSE v \in Values(f) : Reaches(f, v) /\ \A w \in Values(f) : Reaches(f, w) => v <= w

\* Bug: the highest of whatever number of values.
HighestOfAny(f) == CHOOSE v \in Values(f) : \A w \in Values(f) : w <= v

\* robustAgg(): the lower median, or the highest of too few values.
RobustAgg(f) ==
  IF Cardinality(DOMAIN f) < MedianMin
    THEN CHOOSE v \in Values(f) : \A w \in Values(f) : w <= v
    ELSE CHOOSE v \in Values(f) : Reaches(f, v) /\ \A w \in Values(f) : Reaches(f, w) => v <= w

Distance(a, b) == IF a < b THEN b - a ELSE a - b

\* The nodes of selectNodes() within reach of the tip.
Healthy(heights) == {p \in DOMAIN heights : Distance(heights[p], RobustAgg(heights)) <= MaxLag}

-----------------------------------------------------------------------------
(* Discovery.                                                              *)

Honest == Peers \ Liars

\* Any node of the network may go away or come back.
NodeChanges(p) ==
  /\ up' = IF p \in up THEN up \ {p} ELSE up \cup {p}
  /\ UNCHANGED <<cache, found, file, stage, call, dropped>>

Running == {d \in Discoveries : found[d].is \in {"seeds", "probing"}}

\* peersFromSeeds(): seeds and cached nodes, and the peers those that answer report.
AskSeeds(d) ==
  /\ found[d].is = "seeds"
  /\ \E reported \in {S \in SUBSET Peers : up \cap (Seeds \cup file) = {} => S = {}} :
       found' = [found EXCEPT ![d].is = "probing",
                              ![d].candidates = Seeds \cup file \cup reported]
  /\ UNCHANGED <<up, cache, file, stage, call, dropped>>

\* Heights a node may report: honest ones have the newest block or the one before.
Says(p) == IF p \in Liars THEN Heights ELSE {Tip - 1, Tip}

\* probeNode() of all candidates: what those that are up may answer.
Probes(d) ==
  {heights \in [found[d].candidates \cap up -> AllHeights] :
     \A p \in DOMAIN heights : heights[p] \in Says(p)}

\* Bug: whatever is cached when a discovery fails is taken out.
ForgetAny(d) == cache' = {}

\* Bug: a discovery that failed is kept like any other.
ForgetNone(d) == UNCHANGED cache

\* promise.catch(): only its own promise.
Forget(d) == cache' = {c \in cache : c.id # d}

Waiting(d) == {r \in Requests : stage[r] = "nodes" /\ d \in call[r].id}

\* The promise settles for all who wait for it.
Settle(d, point, list) ==
  /\ stage' = [r \in Requests |-> IF r \in Waiting(d) THEN point ELSE stage[r]]
  /\ call' = [r \in Requests |-> IF r \in Waiting(d) THEN [Idle EXCEPT !.list = list] ELSE call[r]]

\* Nothing answered: the promise rejects.
NoneHealthy(d) ==
  /\ found[d].is = "probing" /\ found[d].candidates \cap up = {}
  /\ Forget(d) /\ dropped' = dropped \cup {d}
  /\ found' = [found EXCEPT ![d] = [NoDiscovery EXCEPT !.is = "failed"]]
  /\ Settle(d, "unavailable", {})
  /\ UNCHANGED <<up, file>>

\* The list is kept by the cache, and written to the file.
Select(d) ==
  /\ found[d].is = "probing" /\ found[d].candidates \cap up # {}
  /\ \E heights \in Probes(d) :
       LET list == Healthy(heights)
       IN  /\ found' = [found EXCEPT ![d] = [NoDiscovery EXCEPT !.is = "listed", !.list = list]]
           /\ file' = list
           /\ Settle(d, "ask", list)
  /\ UNCHANGED <<up, cache, dropped>>

\* A promise that nobody holds is gone.
Collect(d) ==
  /\ found[d].is \in {"listed", "failed"} /\ \A c \in cache : c.id # d
  /\ found' = [found EXCEPT ![d] = NoDiscovery]
  /\ UNCHANGED <<up, cache, file, stage, call, dropped>>

\* NODE_CACHE_MS pass.
GrowsOld ==
  /\ \E c \in cache : ~c.old
  /\ cache' = {[c EXCEPT !.old = TRUE] : c \in cache}
  /\ UNCHANGED <<up, found, file, stage, call, dropped>>

-----------------------------------------------------------------------------
(* getNodes(), and nodeGetWinston() of getPrice().                         *)

\* getNodes(), cached: a list, or a promise that is still pending.
CachedNodes(r) ==
  /\ stage[r] = "ready"
  /\ \E c \in cache :
       /\ ~c.old
       /\ call' = [call EXCEPT ![r] =
            IF c.id \in Running THEN [Idle EXCEPT !.id = {c.id}]
            ELSE [Idle EXCEPT !.list = found[c.id].list]]
       /\ stage' = [stage EXCEPT ![r] =
            IF c.id \in Running THEN "nodes"
            ELSE IF found[c.id].is = "listed" THEN "ask" ELSE "unavailable"]
  /\ UNCHANGED <<up, cache, found, file, dropped>>

\* getNodes(), not cached or no longer good: a new discovery for all who come.
NewDiscovery(r) ==
  /\ stage[r] = "ready" /\ \A c \in cache : c.old
  /\ \E d \in Discoveries :
       /\ found[d].is = "none"
       /\ found' = [found EXCEPT ![d] = [NoDiscovery EXCEPT !.is = "seeds"]]
       /\ cache' = {[id |-> d, old |-> FALSE]}
       /\ call' = [call EXCEPT ![r] = [Idle EXCEPT !.id = {d}]]
       /\ dropped' = (dropped \cup {c.id : c \in cache}) \ {d}
  /\ stage' = [stage EXCEPT ![r] = "nodes"]
  /\ UNCHANGED <<up, file>>

Quotes(p) == IF p \in Liars THEN Prices ELSE HonestPrices

\* Bug: a list is kept though none of its nodes answered.
KeepNodes == UNCHANGED <<cache, dropped>>

\* invalidateNodes()
InvalidateNodes == cache' = {} /\ dropped' = dropped \cup {c.id : c \in cache}

Least(a, b) == IF a < b THEN a ELSE b

Asked(list) ==
  {S \in SUBSET list : Cardinality(S) = Least(MaxAttempts + Quorum - 1, Cardinality(list))}

\* Any that are asked may fail: they are gone, refuse, or send something that is not
\* a number.  Of the answers as many as wanted are taken.
Answers(r) ==
  {f \in UNION {Partial(S \cap up, AllPrices) : S \in Asked(call[r].list)} :
     /\ f # Nothing /\ Cardinality(DOMAIN f) <= Quorum
     /\ \A p \in DOMAIN f : f[p] \in Quotes(p)}

\* getPrice(): the price, or none if it is above the cap.
Fee(f) == {v \in {RobustAgg(f)} : v <= Cap}

\* There are answers; what the fee is, is Fee() of them.
Answered(r) ==
  /\ stage[r] = "ask" /\ Answers(r) # {}
  /\ stage' = [stage EXCEPT ![r] = "ready"] /\ call' = [call EXCEPT ![r] = Idle]
  /\ UNCHANGED <<up, cache, found, file, dropped>>

\* None of them answers, though they may be up: the list that is cached is dropped,
\* whosever it is by now.
NoAnswer(r) ==
  /\ stage[r] = "ask"
  /\ InvalidateNodes
  /\ call' = [call EXCEPT ![r] = Idle] /\ stage' = [stage EXCEPT ![r] = "unavailable"]
  /\ UNCHANGED <<up, found, file>>

\* The caller has been told ArweaveUnavailableError.
Return(r) ==
  /\ stage[r] = "unavailable"
  /\ stage' = [stage EXCEPT ![r] = "ready"] /\ call' = [call EXCEPT ![r] = Idle]
  /\ UNCHANGED <<up, cache, found, file, dropped>>

DiscoveryStep(d) == AskSeeds(d) \/ NoneHealthy(d) \/ Select(d) \/ Collect(d)
RequestStep(r) == CachedNodes(r) \/ NewDiscovery(r) \/ Answered(r) \/ NoAnswer(r) \/ Return(r)

SelectionNext ==
  \/ \E p \in Peers : NodeChanges(p)
  \/ GrowsOld
  \/ \E d \in Discoveries : DiscoveryStep(d)
  \/ \E r \in Requests : RequestStep(r)

\* Every request over the network is answered or times out.
SelectionFairness ==
  /\ \A d \in Discoveries : WF_selectionVars(DiscoveryStep(d))
  /\ \A r \in Requests : WF_selectionVars(RequestStep(r))

SelectionSpec == SelectionInit /\ [][SelectionNext]_selectionVars /\ SelectionFairness

-----------------------------------------------------------------------------
(* Properties                                                              *)

\* A value taken from enough nodes stays between those of honest ones as long as
\* the liars are fewer; of too few nodes it is no lower than any honest one.
Outvotes(f, v) ==
  LET few == 2 * Cardinality(DOMAIN f \cap Liars) < Cardinality(DOMAIN f)
      honest == DOMAIN f \ Liars
  IN  /\ few => \E p \in honest : v >= f[p]
      /\ few /\ Cardinality(DOMAIN f) >= MedianMin => \E p \in honest : v <= f[p]
      /\ Cardinality(DOMAIN f) < MedianMin => \A p \in honest : v >= f[p]

\* "With 3 quotes, one inflated quote cannot raise the fee and one deflated quote
\* cannot shrink it" (config/arweave.js:472-474), whatever list the quotes are from.
LiarsDoNotSetPrices ==
  \A r \in Requests : stage[r] = "ask" =>
    \A f \in Answers(r) : \A fee \in Fee(f) : Outvotes(f, fee)

\* Honest nodes that were probed stay on the list as long as liars among the
\* answers are fewer and there are enough answers: no claimed height drives them out.
HonestNodesAreKept ==
  \A d \in Discoveries : found[d].is = "probing" =>
    \A f \in Probes(d) :
      /\ Cardinality(DOMAIN f) >= MedianMin
      /\ 2 * Cardinality(DOMAIN f \cap Liars) < Cardinality(DOMAIN f)
      => DOMAIN f \ Liars \subseteq Healthy(f)

\* "Concurrent callers share one discovery": next to the one in the cache only
\* those go on that were dropped from it, by their own failure, by age or by a
\* caller whose nodes all failed; an old one that fails does not drop a newer one.
OneDiscoveryForAll == Cardinality(Running \ dropped) <= 1

\* Nodes of which liars cannot drive the honest ones off the list.
Reliable(C) ==
  \/ C # {} /\ C \cap Liars = {}
  \/ Cardinality(C) >= MedianMin /\ 2 * Cardinality(C \cap Liars) < Cardinality(C)

\* "A failed discovery is not cached", nor is a list that does not work: once honest
\* nodes stay up and quote prices, and discoveries reach nodes among which liars are
\* few, a time comes from which no caller is told that there are none.  Whatever was
\* cached before, liars that answer /info and refuse /price included, is dropped.
UnavailabilityEnds ==
  /\ <>[](Honest \subseteq up)
  /\ <>[](\A d \in Discoveries :
            found[d].is = "probing" => Reliable(found[d].candidates \cap up))
  /\ <>[][\A r \in Requests : NoAnswer(r) => call[r].list \cap Honest = {}]_selectionVars
  => <>[](\A r \in Requests : stage[r] # "unavailable")
=============================================================================
