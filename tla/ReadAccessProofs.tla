-------------------------- MODULE ReadAccessProofs --------------------------
(***************************************************************************)
(* Theorems about ReadAccess.  While a request runs, `opened' has every    *)
(* door that is open by any view of the contracts there is, and `closed'   *)
(* every door that is closed by one; what a request has learned at each    *)
(* await is written down in these two (DoorsInv).                          *)
(***************************************************************************)
EXTENDS ReadAccess, TLAPS

\* What a request at a point x has learned of the doors.  Behind the door of the
\* uploader, a wallet is not the uploader, unless it asks for its rental only.
Learned(x, w, kind, open, shut) ==
  /\ x \in {"row", "stake", "librarian", "window"} => kind # "status"
  /\ x = "stake" => w = Uploader
  /\ x \in {"paused", "rental"} => w # Uploader \/ kind = "status"
  /\ x \in {"librarian", "window"} => w # Uploader /\ "rental" \in shut
  /\ x = "window" => "librarian" \in open
  /\ x = "granted" => IF kind = "status" THEN "rental" \in open
                      ELSE open \cap Doors # {} \/ ReviewFacts \subseteq open
  /\ x = "denied" => IF kind = "status" THEN "rental" \in shut ELSE Doors \subseteq shut

\* open and shut tell no less than a view of the contracts.
Knows(c, w, open, shut) == OpenTo(c, w) \subseteq open /\ Facts \ OpenTo(c, w) \subseteq shut

\* When one half of the review door was open and the door was not, the other was closed.
HalfOpen(open, shut) ==
  /\ "librarian" \in open => "review" \in open \/ "window" \in shut
  /\ "window" \in open => "review" \in open \/ "librarian" \in shut

DoorsInv ==
  /\ Uploader \notin chain.rented /\ Uploader \notin behind.rented
  /\ \A r \in Requests :
       /\ at[r] # "ready" => \A c \in Views : Knows(c, call[r].wallet, opened[r], closed[r])
       /\ Learned(at[r], call[r].wallet, call[r].kind, opened[r], closed[r])
       /\ HalfOpen(opened[r], closed[r])

\* The times between which a message is accepted.
TimesInv ==
  \A m \in Messages :
    \/ accepted[m].first = Never /\ accepted[m].last = Never
    \/ /\ m.expires - m.issued <= MaxWindow
       /\ accepted[m].first # Never /\ accepted[m].last # Never
       /\ m.issued <= accepted[m].first + MaxSkew /\ accepted[m].last < m.expires

AccessInv == TypeOK /\ DoorsInv /\ TimesInv

Message ==
  [statement : {"unlock", "upload"}, site : {"ours", "other"}, chainId : {"ours", "other"},
   sealedKey : {"this book", "another"}, sessionKey : {"named", "another", "unusable"},
   wallet : Wallets, signer : Wallets, issued : Nat, expires : Nat]

LEMMA OpenFacts == ASSUME NEW c, NEW w PROVE OpenTo(c, w) \subseteq Facts
  BY DEF OpenTo

LEMMA WhatIsOpen ==
  ASSUME NEW c, NEW w
  PROVE  /\ "uploader" \in OpenTo(c, w) <=> w = Uploader /\ c.staker = w
         /\ "rental" \in OpenTo(c, w) <=> w # Uploader /\ ~c.paused /\ w \in c.rented
         /\ "librarian" \in OpenTo(c, w) <=> w # Uploader /\ w \in c.librarians
         /\ "window" \in OpenTo(c, w) <=> w # Uploader /\ c.active /\ ~c.over /\ c.staker # w
         /\ "review" \in OpenTo(c, w) <=> "librarian" \in OpenTo(c, w) /\ "window" \in OpenTo(c, w)
  BY DEF OpenTo, IsOpen, Facts, Doors, ReviewFacts

\* More is learned of a view.
LEMMA HalfOpenGrows ==
  ASSUME NEW open, NEW shut, HalfOpen(open, shut), NEW c, NEW w
  PROVE  HalfOpen(open \cup OpenTo(c, w), shut \cup (Facts \ OpenTo(c, w)))
  BY WhatIsOpen DEF HalfOpen, Facts, ReviewFacts

LEMMA AccessInit == Init => AccessInv
<1> SUFFICES ASSUME Init PROVE AccessInv OBVIOUS
<1>1. TypeOK BY AccessAssumption DEF Init, TypeOK, Contracts, Idle, Never
<1>2. DoorsInv BY DEF Init, DoorsInv, Learned, HalfOpen
<1>3. TimesInv BY DEF Init, TimesInv
<1> QED BY <1>1, <1>2, <1>3 DEF AccessInv

\* What requests see when only the contracts change.
LEMMA ChainKeeps ==
  ASSUME AccessInv, NEW c \in Contracts, ChainMoves(c), Uploader \notin c.rented
  PROVE  AccessInv'
<1>1. TypeOK /\ DoorsInv /\ TimesInv BY DEF AccessInv
<1>2. /\ chain' = c /\ behind' = chain /\ at' = at /\ call' = call /\ accepted' = accepted
      /\ now' = now /\ registered' = registered /\ moves' = moves + 1
  BY DEF ChainMoves, requestVars
<1>3. \A r \in Requests :
        /\ opened'[r] = IF at[r] # "ready" THEN opened[r] \cup OpenTo(c, call[r].wallet)
                        ELSE opened[r]
        /\ closed'[r] = IF at[r] # "ready" THEN closed[r] \cup (Facts \ OpenTo(c, call[r].wallet))
                        ELSE closed[r]
  BY <1>1 DEF ChainMoves, Running, TypeOK
<1>4. TypeOK'
  <2>1. opened' \in [Requests -> SUBSET Facts]
    BY <1>1, OpenFacts DEF TypeOK, ChainMoves
  <2>2. closed' \in [Requests -> SUBSET Facts]
    BY <1>1 DEF TypeOK, ChainMoves
  <2> QED BY <1>1, <1>2, <2>1, <2>2 DEF TypeOK
<1>5. DoorsInv'
  <2>1. Uploader \notin chain'.rented /\ Uploader \notin behind'.rented
    BY <1>1, <1>2 DEF DoorsInv
  <2>2. Views' = {c, chain} BY <1>2 DEF Views
  <2>3. ASSUME NEW r \in Requests
        PROVE  /\ opened[r] \subseteq opened'[r] /\ closed[r] \subseteq closed'[r]
               /\ HalfOpen(opened'[r], closed'[r])
               /\ at[r] # "ready" =>
                    \A v \in {c, chain} : Knows(v, call[r].wallet, opened'[r], closed'[r])
    <3>1. at[r] # "ready" => Knows(chain, call[r].wallet, opened[r], closed[r])
      BY <1>1 DEF DoorsInv, Views
    <3>2. HalfOpen(opened[r], closed[r]) BY <1>1 DEF DoorsInv
    <3>3. HalfOpen(opened'[r], closed'[r])
      <4> DEFINE new == OpenTo(c, call[r].wallet)
      <4>1. HalfOpen(opened[r] \cup new, closed[r] \cup (Facts \ new)) BY <3>2, HalfOpenGrows
      <4> HIDE DEF new
      <4>2. \/ opened'[r] = opened[r] /\ closed'[r] = closed[r]
            \/ opened'[r] = opened[r] \cup new /\ closed'[r] = closed[r] \cup (Facts \ new)
        BY <1>3 DEF new
      <4> QED BY <3>2, <4>1, <4>2
    <3> QED BY <1>3, <3>1, <3>3 DEF Knows
  <2>4. ASSUME NEW r \in Requests
        PROVE  Learned(at[r], call[r].wallet, call[r].kind, opened'[r], closed'[r])
    BY <1>1, <2>3 DEF DoorsInv, Learned
  <2> QED BY <1>2, <2>1, <2>2, <2>3, <2>4 DEF DoorsInv
<1>6. TimesInv' BY <1>1, <1>2 DEF TimesInv
<1> QED BY <1>4, <1>5, <1>6 DEF AccessInv

LEMMA ChainStepKeeps == ASSUME AccessInv, ChainStep PROVE AccessInv'
<1>1. TypeOK /\ DoorsInv /\ TimesInv BY DEF AccessInv
<1>2. chain \in Contracts /\ Uploader \notin chain.rented BY <1>1 DEF TypeOK, DoorsInv
<1>3. ASSUME NEW w \in Wallets, Stake(w) PROVE AccessInv'
  <2> DEFINE c == [chain EXCEPT !.staker = w, !.active = TRUE]
  <2>1. ChainMoves(c) BY <1>3 DEF Stake
  <2>2. c \in Contracts /\ Uploader \notin c.rented BY <1>2 DEF Contracts
  <2> QED BY <2>1, <2>2, ChainKeeps
<1>4. ASSUME NEW w \in Wallets, Rent(w) PROVE AccessInv'
  <2> DEFINE c == [chain EXCEPT !.rented = @ \cup {w}]
  <2>1. ChainMoves(c) /\ w # Uploader BY <1>4 DEF Rent
  <2>2. c \in Contracts /\ Uploader \notin c.rented BY <1>2, <2>1 DEF Contracts
  <2> QED BY <2>1, <2>2, ChainKeeps
<1>5. ASSUME NEW w \in Wallets, RentalEnds(w) PROVE AccessInv'
  <2> DEFINE c == [chain EXCEPT !.rented = @ \ {w}]
  <2>1. ChainMoves(c) BY <1>5 DEF RentalEnds
  <2>2. c \in Contracts /\ Uploader \notin c.rented BY <1>2 DEF Contracts
  <2> QED BY <2>1, <2>2, ChainKeeps
<1>6. CASE Unstake
  <2> DEFINE c == [chain EXCEPT !.active = FALSE]
  <2>1. ChainMoves(c) BY <1>6 DEF Unstake
  <2>2. c \in Contracts /\ Uploader \notin c.rented BY <1>2 DEF Contracts
  <2> QED BY <2>1, <2>2, ChainKeeps
<1>7. CASE PeriodEnds
  <2> DEFINE c == [chain EXCEPT !.over = TRUE]
  <2>1. ChainMoves(c) BY <1>7 DEF PeriodEnds
  <2>2. c \in Contracts /\ Uploader \notin c.rented BY <1>2 DEF Contracts
  <2> QED BY <2>1, <2>2, ChainKeeps
<1>8. CASE Pause
  <2> DEFINE c == [chain EXCEPT !.paused = ~@]
  <2>1. ChainMoves(c) BY <1>8 DEF Pause
  <2>2. c \in Contracts /\ Uploader \notin c.rented BY <1>2 DEF Contracts
  <2> QED BY <2>1, <2>2, ChainKeeps
<1>11. ASSUME NEW w \in Wallets, Joins(w) PROVE AccessInv'
  <2> DEFINE c == [chain EXCEPT !.librarians = @ \cup {w}]
  <2>1. ChainMoves(c) BY <1>11 DEF Joins
  <2>2. c \in Contracts /\ Uploader \notin c.rented BY <1>2 DEF Contracts
  <2> QED BY <2>1, <2>2, ChainKeeps
<1>12. ASSUME NEW w \in Wallets, Leaves(w) PROVE AccessInv'
  <2> DEFINE c == [chain EXCEPT !.librarians = @ \ {w}]
  <2>1. ChainMoves(c) BY <1>12 DEF Leaves
  <2>2. c \in Contracts /\ Uploader \notin c.rented BY <1>2 DEF Contracts
  <2> QED BY <2>1, <2>2, ChainKeeps
<1>9. CASE CatchUp
  <2>1. Views' \subseteq Views BY <1>9 DEF CatchUp, Views
  <2>2. UNCHANGED <<now, chain, moves, registered, requestVars, history>> /\ behind' = chain
    BY <1>9 DEF CatchUp
  <2>3. TypeOK' BY <1>1, <2>2 DEF TypeOK, requestVars, history
  <2>4. DoorsInv' BY <1>1, <2>1, <2>2 DEF DoorsInv, requestVars, history
  <2>5. TimesInv' BY <1>1, <2>2 DEF TimesInv, history
  <2> QED BY <2>3, <2>4, <2>5 DEF AccessInv
<1>10. CASE Registers
  <2>1. TypeOK' BY <1>1, <1>10 DEF Registers, TypeOK, chainVars, requestVars, history
  <2>2. DoorsInv' BY <1>1, <1>10 DEF Registers, DoorsInv, Views, chainVars, requestVars, history
  <2>3. TimesInv' BY <1>1, <1>10 DEF Registers, TimesInv, history
  <2> QED BY <2>1, <2>2, <2>3 DEF AccessInv
<1> QED BY <1>3, <1>4, <1>5, <1>6, <1>7, <1>8, <1>9, <1>10, <1>11, <1>12 DEF ChainStep

-----------------------------------------------------------------------------
(* The requests.                                                           *)

Points == {"ready", "row", "stake", "paused", "rental", "librarian", "window",
           "denied", "unreadable", "unavailable", "granted"}

\* A request that goes on, and has learned what it must have where it gets to.
LEMMA GoKeeps ==
  ASSUME AccessInv, NEW r \in Requests, NEW x \in Points, Go(r, x),
         UNCHANGED <<now, chainVars, registered, call, history>>,
         at[r] # "ready", Learned(x, call[r].wallet, call[r].kind, opened[r], closed[r])
  PROVE  AccessInv'
<1>1. TypeOK /\ DoorsInv /\ TimesInv BY DEF AccessInv
<1>2. /\ UNCHANGED <<now, chain, behind, moves, registered, call, opened, closed, accepted>>
      /\ at' = [at EXCEPT ![r] = x]
  BY DEF chainVars, history, Go
<1>3. \A q \in Requests : at'[q] = IF q = r THEN x ELSE at[q] BY <1>1, <1>2 DEF TypeOK
<1>4. TypeOK' BY <1>1, <1>2 DEF TypeOK, Points
<1>5. Views' = Views BY <1>2 DEF Views
<1>6. DoorsInv'
  <2>1. ASSUME NEW q \in Requests
        PROVE  /\ at'[q] # "ready" => \A c \in Views : Knows(c, call[q].wallet, opened[q], closed[q])
               /\ Learned(at'[q], call[q].wallet, call[q].kind, opened[q], closed[q])
               /\ HalfOpen(opened[q], closed[q])
    BY <1>1, <1>3 DEF DoorsInv
  <2> QED BY <1>1, <1>2, <1>5, <2>1 DEF DoorsInv
<1>7. TimesInv' BY <1>1, <1>2 DEF TimesInv
<1> QED BY <1>4, <1>6, <1>7 DEF AccessInv

\* A request that begins, where it need not have learned anything.
LEMMA BeginKeeps ==
  ASSUME AccessInv, NEW r \in Requests, NEW kind \in Kinds, NEW w \in Wallets,
         NEW x \in {"row", "paused"}, Begin(r, kind, w, x),
         IF x = "row" THEN kind # "status" ELSE kind = "status",
         accepted' \in [Messages -> [first : Nat \cup {Never}, last : Nat \cup {Never}]],
         TimesInv'
  PROVE  AccessInv'
<1>1. TypeOK /\ DoorsInv BY DEF AccessInv
<1> DEFINE open == OpenTo(chain, w) \cup OpenTo(behind, w)
<1> DEFINE shut == Facts \ (OpenTo(chain, w) \cap OpenTo(behind, w))
<1>2. /\ at' = [at EXCEPT ![r] = x]
      /\ call' = [call EXCEPT ![r] = [kind |-> kind, wallet |-> w]]
      /\ opened' = [opened EXCEPT ![r] = open] /\ closed' = [closed EXCEPT ![r] = shut]
      /\ UNCHANGED <<now, chain, behind, moves, registered>>
  BY DEF Begin, Go, chainVars
<1>3. open \in SUBSET Facts /\ shut \in SUBSET Facts BY OpenFacts
<1>4. \A c \in Views : Knows(c, w, open, shut) BY DEF Views, Knows
<1>8. HalfOpen(open, shut) BY WhatIsOpen DEF HalfOpen, Facts, ReviewFacts
<1> HIDE DEF open, shut
<1>5. TypeOK' BY <1>1, <1>2, <1>3 DEF TypeOK
<1>6. /\ at'[r] = x /\ call'[r].wallet = w /\ call'[r].kind = kind
      /\ opened'[r] = open /\ closed'[r] = shut
      /\ \A q \in Requests : q # r => /\ at'[q] = at[q] /\ call'[q] = call[q]
                                      /\ opened'[q] = opened[q] /\ closed'[q] = closed[q]
  BY <1>1, <1>2 DEF TypeOK
<1>7. DoorsInv'
  <2>1. Learned(x, w, kind, open, shut) BY DEF Learned
  <2>2. Views' = Views BY <1>2 DEF Views
  <2>3. ASSUME NEW q \in Requests
        PROVE  /\ \A c \in Views : at'[q] # "ready" => Knows(c, call'[q].wallet, opened'[q], closed'[q])
               /\ Learned(at'[q], call'[q].wallet, call'[q].kind, opened'[q], closed'[q])
               /\ HalfOpen(opened'[q], closed'[q])
    <3>1. CASE q = r BY <1>4, <1>6, <1>8, <2>1, <3>1
    <3>2. CASE q # r BY <1>1, <1>6, <3>2 DEF DoorsInv
    <3> QED BY <3>1, <3>2
  <2> QED BY <1>1, <1>2, <2>2, <2>3 DEF DoorsInv
<1> QED BY <1>5, <1>7 DEF AccessInv

LEMMA ArriveKeeps == ASSUME AccessInv, NEW r \in Requests, Arrive(r) PROVE AccessInv'
<1>1. accepted' = accepted BY DEF Arrive
<1>2. TimesInv' BY <1>1 DEF AccessInv, TimesInv
<1>3. accepted' \in [Messages -> [first : Nat \cup {Never}, last : Nat \cup {Never}]]
  BY <1>1 DEF AccessInv, TypeOK
<1>4. PICK w \in Wallets : Begin(r, "params", w, "row") \/ Begin(r, "status", w, "paused")
  BY DEF Arrive
<1> QED BY <1>2, <1>3, <1>4, BeginKeeps DEF Kinds

\* A message that is verified is accepted in time, and its window is short.
LEMMA ArriveSignedKeeps == ASSUME AccessInv, NEW r \in Requests, ArriveSigned(r) PROVE AccessInv'
<1>1. TypeOK /\ TimesInv BY DEF AccessInv
<1>2. PICK m \in Messages :
        /\ Verified(m) /\ Begin(r, "unlock", m.wallet, "row")
        /\ accepted' = [accepted EXCEPT
             ![m] = [first |-> IF @.first = Never THEN now ELSE @.first, last |-> now]]
  BY DEF ArriveSigned
<1>3. m \in Message BY AccessAssumption DEF Message
<1>4. now \in Nat /\ accepted \in [Messages -> [first : Nat \cup {Never}, last : Nat \cup {Never}]]
  BY <1>1 DEF TypeOK
<1> DEFINE first == IF accepted[m].first = Never THEN now ELSE accepted[m].first
<1>5. accepted' = [accepted EXCEPT ![m] = [first |-> first, last |-> now]] BY <1>2, <1>4
<1>6. first \in Nat
  <2>1. accepted[m].first \in Nat \cup {Never} BY <1>4
  <2> QED BY <1>4, <2>1
<1>7. /\ m.expires - m.issued <= MaxWindow /\ m.issued <= now + MaxSkew /\ now < m.expires
  BY <1>2 DEF Verified, InScope, InTime
<1>8. m.issued <= first + MaxSkew BY <1>1, <1>7 DEF TimesInv
<1> HIDE DEF first
<1>9. accepted' \in [Messages -> [first : Nat \cup {Never}, last : Nat \cup {Never}]]
  BY <1>4, <1>5, <1>6
<1>10. TimesInv'
  <2>1. /\ accepted'[m].first = first /\ accepted'[m].last = now
        /\ \A n \in Messages : n # m => accepted'[n] = accepted[n]
    BY <1>4, <1>5
  <2>2. first # Never /\ now # Never BY <1>4, <1>6 DEF Never
  <2> QED BY <1>1, <1>7, <1>8, <2>1, <2>2 DEF TimesInv
<1>11. m.wallet \in Wallets BY <1>3 DEF Message
<1> QED BY <1>2, <1>9, <1>10, <1>11, BeginKeeps DEF Kinds

LEMMA ReplyKeeps == ASSUME AccessInv, NEW r \in Requests, Reply(r) PROVE AccessInv'
<1>1. TypeOK /\ DoorsInv /\ TimesInv BY DEF AccessInv
<1>2. /\ at' = [at EXCEPT ![r] = "ready"] /\ call' = [call EXCEPT ![r] = Idle]
      /\ opened' = [opened EXCEPT ![r] = {}] /\ closed' = [closed EXCEPT ![r] = {}]
      /\ UNCHANGED <<now, chain, behind, moves, registered, accepted>>
  BY DEF Reply, Go, chainVars
<1>3. TypeOK' BY <1>1, <1>2 DEF TypeOK, Idle
<1>4. DoorsInv'
  <2>1. Views' = Views BY <1>2 DEF Views
  <2>2. at'[r] = "ready"
        /\ \A q \in Requests : q # r => /\ at'[q] = at[q] /\ call'[q] = call[q]
                                        /\ opened'[q] = opened[q] /\ closed'[q] = closed[q]
    BY <1>1, <1>2 DEF TypeOK
  <2>3. ASSUME NEW q \in Requests
        PROVE  /\ at'[q] # "ready" =>
                    \A c \in Views : Knows(c, call'[q].wallet, opened'[q], closed'[q])
               /\ Learned(at'[q], call'[q].wallet, call'[q].kind, opened'[q], closed'[q])
               /\ HalfOpen(opened'[q], closed'[q])
    <3>1. CASE q = r
      <4>1. at'[q] = "ready" /\ opened'[q] = {} BY <1>1, <1>2, <3>1 DEF TypeOK
      <4> QED BY <4>1 DEF Learned, HalfOpen
    <3>2. CASE q # r BY <1>1, <2>2, <3>2 DEF DoorsInv
    <3> QED BY <3>1, <3>2
  <2> QED BY <1>1, <1>2, <2>1, <2>3 DEF DoorsInv
<1>5. TimesInv' BY <1>1, <1>2 DEF TimesInv
<1> QED BY <1>3, <1>4, <1>5 DEF AccessInv

\* Each question is answered by some view, of which the request knows what is open.
LEMMA AskKeeps ==
  ASSUME AccessInv, NEW r \in Requests, NEW point \in Points \ {"ready"}, NEW leads,
         Ask(r, point, leads),
         \A c \in Views : /\ leads[c] \in Points
                          /\ Learned(leads[c], call[r].wallet, call[r].kind, opened[r], closed[r])
  PROVE  AccessInv'
<1>1. PICK view \in Views : Go(r, leads[view]) BY DEF Ask
<1>2. at[r] # "ready" /\ UNCHANGED <<now, chainVars, registered, call, history>> BY DEF Ask
<1> QED BY <1>1, <1>2, GoKeeps

LEMMA RequestStepKeeps == ASSUME AccessInv, NEW r \in Requests, RequestStep(r) PROVE AccessInv'
<1> DEFINE w == call[r].wallet
<1> DEFINE kind == call[r].kind
<1>1. DoorsInv BY DEF AccessInv
<1>2. /\ at[r] # "ready" => \A c \in Views : Knows(c, w, opened[r], closed[r])
      /\ Learned(at[r], w, kind, opened[r], closed[r])
      /\ \A c \in Views : Uploader \notin c.rented
  BY <1>1 DEF DoorsInv, Views
<1>3. CASE ReadRow(r)
  <2> DEFINE x == IF registered THEN FirstDoor(w) ELSE "unavailable"
  <2>1. Go(r, x) /\ at[r] = "row" /\ UNCHANGED <<now, chainVars, registered, call, history>>
    BY <1>3 DEF ReadRow
  <2>2. x \in Points /\ Learned(x, w, kind, opened[r], closed[r])
    BY <1>2, <2>1 DEF Learned, FirstDoor, Points
  <2> QED BY <2>1, <2>2, GoKeeps
<1>4. CASE AskStake(r)
  <2> DEFINE leads == [c \in Views |-> IF c.staker = w THEN "granted" ELSE "denied"]
  <2>1. Ask(r, "stake", leads) /\ at[r] = "stake" BY <1>4 DEF AskStake, Ask
  <2>2. ASSUME NEW c \in Views
        PROVE  leads[c] \in Points /\ Learned(leads[c], w, kind, opened[r], closed[r])
    <3>1. w = Uploader /\ kind # "status" BY <1>2, <2>1 DEF Learned
    <3>2. Knows(c, w, opened[r], closed[r]) BY <1>2, <2>1
    <3>3. CASE c.staker = w
      <4>1. "uploader" \in opened[r] BY <3>1, <3>2, <3>3, WhatIsOpen DEF Knows
      <4> QED BY <3>1, <3>3, <4>1 DEF Learned, Points, Doors
    <3>4. CASE c.staker # w
      <4>1. Doors \subseteq closed[r]
        BY <3>1, <3>2, <3>4, WhatIsOpen DEF Knows, Facts, Doors
      <4> QED BY <3>1, <3>4, <4>1 DEF Learned, Points
    <3> QED BY <3>3, <3>4
  <2> QED BY <2>1, <2>2, AskKeeps DEF Points
<1>5. CASE AskPaused(r)
  <2> DEFINE leads == [c \in Views |-> IF c.paused THEN "unavailable" ELSE "rental"]
  <2>1. Ask(r, "paused", leads) /\ at[r] = "paused" BY <1>5 DEF AskPaused, Ask
  <2>2. \A c \in Views : leads[c] \in Points /\ Learned(leads[c], w, kind, opened[r], closed[r])
    BY <1>2, <2>1 DEF Learned, Points
  <2> QED BY <2>1, <2>2, AskKeeps DEF Points
<1>6. CASE AskRental(r)
  <2> DEFINE leads == [c \in Views |->
        IF c.paused THEN "unavailable" ELSE IF w \in c.rented THEN "granted" ELSE NoRental(r)]
  <2>1. Ask(r, "rental", leads) /\ at[r] = "rental" BY <1>6 DEF AskRental, Ask
  <2>2. ASSUME NEW c \in Views
        PROVE  leads[c] \in Points /\ Learned(leads[c], w, kind, opened[r], closed[r])
    <3>1. Knows(c, w, opened[r], closed[r]) /\ Uploader \notin c.rented BY <1>2, <2>1
    <3>2. w # Uploader \/ kind = "status" BY <1>2, <2>1 DEF Learned
    <3>3. CASE c.paused BY <3>3 DEF Learned, Points
    <3>4. CASE ~c.paused /\ w \in c.rented
      <4>1. w # Uploader BY <3>1, <3>4
      <4>2. "rental" \in opened[r] BY <3>1, <3>4, <4>1, WhatIsOpen DEF Knows
      <4> QED BY <3>4, <4>2 DEF Learned, Points, Doors
    <3>5. CASE ~c.paused /\ w \notin c.rented
      <4>1. leads[c] = NoRental(r) BY <3>5
      <4>2. "rental" \in closed[r] BY <3>1, <3>5, WhatIsOpen DEF Knows, Facts, Doors
      <4> QED BY <3>2, <4>1, <4>2 DEF Learned, Points, NoRental
    <3> QED BY <3>3, <3>4, <3>5
  <2> QED BY <2>1, <2>2, AskKeeps DEF Points
<1>7. CASE AskLibrarian(r)
  <2> DEFINE leads == [c \in Views |-> IF w \in c.librarians THEN "window" ELSE "denied"]
  <2>1. Ask(r, "librarian", leads) /\ at[r] = "librarian" BY <1>7 DEF AskLibrarian, Ask
  <2>2. ASSUME NEW c \in Views
        PROVE  leads[c] \in Points /\ Learned(leads[c], w, kind, opened[r], closed[r])
    <3>1. Knows(c, w, opened[r], closed[r]) BY <1>2, <2>1
    <3>2. w # Uploader /\ kind # "status" /\ "rental" \in closed[r] BY <1>2, <2>1 DEF Learned
    <3>3. w \in c.librarians => "librarian" \in opened[r] BY <3>1, <3>2, WhatIsOpen DEF Knows
    <3>4. w \notin c.librarians => Doors \subseteq closed[r]
      BY <3>1, <3>2, WhatIsOpen DEF Knows, Facts, Doors
    <3> QED BY <3>2, <3>3, <3>4 DEF Learned, Points
  <2> QED BY <2>1, <2>2, AskKeeps DEF Points
<1>8. CASE AskWindow(r)
  <2> DEFINE leads == [c \in Views |-> IF ReviewOpen(c, w) THEN "granted" ELSE "denied"]
  <2>1. Ask(r, "window", leads) /\ at[r] = "window" BY <1>8 DEF AskWindow, Ask
  <2>2. ASSUME NEW c \in Views
        PROVE  leads[c] \in Points /\ Learned(leads[c], w, kind, opened[r], closed[r])
    <3>1. Knows(c, w, opened[r], closed[r]) BY <1>2, <2>1
    <3>2. w # Uploader /\ kind # "status" /\ "rental" \in closed[r] /\ "librarian" \in opened[r]
      BY <1>2, <2>1 DEF Learned
    <3>3. CASE ReviewOpen(c, w)
      <4>1. "window" \in opened[r] BY <3>1, <3>2, <3>3, WhatIsOpen DEF Knows, ReviewOpen
      <4> QED BY <3>2, <3>3, <4>1 DEF Learned, Points, ReviewFacts
    <3>4. CASE ~ReviewOpen(c, w)
      <4>1. Doors \subseteq closed[r]
        BY <3>1, <3>2, <3>4, WhatIsOpen DEF Knows, ReviewOpen, Facts, Doors
      <4> QED BY <3>2, <3>4, <4>1 DEF Learned, Points
    <3> QED BY <3>3, <3>4
  <2> QED BY <2>1, <2>2, AskKeeps DEF Points
<1>9. CASE Fails(r)
  <2>1. CASE Go(r, "unreadable") /\ at[r] \in {"librarian", "window"}
             /\ UNCHANGED <<now, chainVars, registered, call, history>>
    BY <2>1, GoKeeps DEF Learned, Points
  <2> QED BY <1>9, <2>1, ReplyKeeps DEF Fails
<1> QED BY <1>3, <1>4, <1>5, <1>6, <1>7, <1>8, <1>9, ArriveKeeps, ArriveSignedKeeps, ReplyKeeps
        DEF RequestStep, Answer

LEMMA AccessNext == AccessInv /\ [Next]_vars => AccessInv'
<1> SUFFICES ASSUME AccessInv, [Next]_vars PROVE AccessInv' OBVIOUS
<1>1. TypeOK /\ DoorsInv /\ TimesInv BY DEF AccessInv
<1>2. CASE Tick
  <2>1. TypeOK' BY <1>1, <1>2 DEF Tick, TypeOK, chainVars, requestVars, history
  <2>2. DoorsInv' BY <1>1, <1>2 DEF Tick, DoorsInv, Views, chainVars, requestVars, history
  <2>3. TimesInv' BY <1>1, <1>2 DEF Tick, TimesInv, history
  <2> QED BY <2>1, <2>2, <2>3 DEF AccessInv
<1>3. CASE UNCHANGED vars
  <2>1. TypeOK' BY <1>1, <1>3 DEF vars, TypeOK, chainVars, requestVars, history
  <2>2. DoorsInv' BY <1>1, <1>3 DEF vars, DoorsInv, Views, chainVars, requestVars, history
  <2>3. TimesInv' BY <1>1, <1>3 DEF vars, TimesInv, history
  <2> QED BY <2>1, <2>2, <2>3 DEF AccessInv
<1> QED BY <1>2, <1>3, ChainStepKeeps, RequestStepKeeps DEF Next

LEMMA AccessInvariant == Spec => []AccessInv
  BY AccessInit, AccessNext, PTL DEF Spec

-----------------------------------------------------------------------------
(* Theorems.                                                               *)

\* Every variable keeps its type.
THEOREM TypeCorrect == Spec => []TypeOK
<1>1. AccessInv => TypeOK BY DEF AccessInv
<1> QED BY <1>1, AccessInvariant, PTL

\* Who is let in had a door open, and who is told of a rental had it, at some moment
\* while the request ran, unless both halves of the review door changed meanwhile
\* (checkReadAccess() and getRentalStatus(), controller/rental.controller.js).
THEOREM ReadersOnly == Spec => []OpenedForReadersOnly
<1>1. AccessInv => OpenedForReadersOnly
  <2> SUFFICES ASSUME AccessInv, NEW r \in Requests, at[r] = "granted"
               PROVE  IF call[r].kind = "status" THEN "rental" \in opened[r]
                      ELSE \/ opened[r] \cap Doors # {}
                           \/ ReviewFacts \subseteq opened[r] \cap closed[r]
    BY DEF OpenedForReadersOnly
  <2>1. /\ Learned("granted", call[r].wallet, call[r].kind, opened[r], closed[r])
        /\ HalfOpen(opened[r], closed[r])
    BY DEF AccessInv, DoorsInv
  <2>2. ReviewFacts \subseteq opened[r] =>
          opened[r] \cap Doors # {} \/ ReviewFacts \subseteq closed[r]
    BY <2>1 DEF HalfOpen, ReviewFacts, Doors
  <2> QED BY <2>1, <2>2 DEF Learned
<1> QED BY <1>1, AccessInvariant, PTL

\* Who is turned away found every door closed at some moment while the request ran.
THEOREM EveryDoorTried == Spec => []TurnedAwayAtEveryDoor
<1>1. AccessInv => TurnedAwayAtEveryDoor
  BY DEF AccessInv, DoorsInv, Learned, TurnedAwayAtEveryDoor
<1> QED BY <1>1, AccessInvariant, PTL

\* However a message was dated, it is not accepted for longer than the longest window
\* and the skew together (verifyUnlockRequest(), services/unlockAuth.service.js).
THEOREM ShortLived == Spec => []SignatureIsShortLived
<1>1. AccessInv => SignatureIsShortLived
  <2> SUFFICES ASSUME AccessInv, NEW m \in Messages
               PROVE  accepted[m].last - accepted[m].first < MaxWindow + MaxSkew
    BY DEF SignatureIsShortLived
  <2>1. MaxWindow \in Nat \ {0} /\ MaxSkew \in Nat /\ m \in Message
    BY AccessAssumption DEF Message
  <2>2. m.issued \in Nat /\ m.expires \in Nat BY <2>1 DEF Message
  <2>3. accepted[m].first \in Nat \cup {Never} /\ accepted[m].last \in Nat \cup {Never}
    BY DEF AccessInv, TypeOK
  <2>4. TimesInv BY DEF AccessInv
  <2> QED BY <2>1, <2>2, <2>3, <2>4 DEF TimesInv, Never
<1> QED BY <1>1, AccessInvariant, PTL

=============================================================================
