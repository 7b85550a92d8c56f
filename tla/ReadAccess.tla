------------------------------ MODULE ReadAccess ------------------------------
(***************************************************************************)
(* controller/rental.controller.js and the gate of unlock.controller.js    *)
(* for one book: a signed message is checked against the clock, then the   *)
(* doors to the book are tried one after another, each with its own reads  *)
(* of a chain that moves on in between.  Requests share nothing.           *)
(***************************************************************************)
EXTENDS Integers, FiniteSets

CONSTANTS
  Wallets, Uploader, Nobody,
  Librarians,           \* wallets that are active librarians at first
  Requests,             \* requests that run at the same time
  Messages,             \* the messages wallets have signed
  MaxWindow, MaxSkew,   \* MAX_WINDOW_SECONDS, MAX_CLOCK_SKEW_SECONDS
  MaxTime, MaxMoves     \* bounds of what is explored

ASSUME AccessAssumption ==
  /\ Uploader \in Wallets /\ Nobody \notin Wallets
  /\ Librarians \subseteq Wallets
  \* statement, site, chain and resources: what the message names, and by whom it is
  \* signed; session: what the session key that comes with it is.
  /\ Messages \subseteq
       [statement : {"unlock", "upload"}, site : {"ours", "other"}, chainId : {"ours", "other"},
        sealedKey : {"this book", "another"}, sessionKey : {"named", "another", "unusable"},
        wallet : Wallets, signer : Wallets, issued : Nat, expires : Nat]
  /\ MaxWindow \in Nat \ {0} /\ {MaxSkew, MaxTime, MaxMoves} \subseteq Nat

VARIABLES
  now,                   \* unix seconds
  chain, behind, moves,  \* the contracts, what a provider one change behind tells of them
  registered,            \* the row of the book is past registration
  at, call,              \* requests: the await, the arguments
  opened, closed,        \* history: what was open, and was not, while they ran
  accepted               \* history: when a message was first and last accepted

chainVars == <<chain, behind, moves>>
requestVars == <<at, call>>
history == <<opened, closed, accepted>>

vars == <<now, chainVars, registered, requestVars, history>>

Doors == {"uploader", "rental", "review"}

\* What opens the door of the review, both at once.
ReviewFacts == {"librarian", "window"}
Facts == Doors \cup ReviewFacts

Kinds == {"params", "unlock", "status"}
Idle == [kind |-> "none", wallet |-> Nobody]
Never == -1

Contracts == [staker : Wallets \cup {Nobody}, active : BOOLEAN, over : BOOLEAN,
              paused : BOOLEAN, rented : SUBSET Wallets, librarians : SUBSET Wallets]

TypeOK ==
  /\ now \in Nat /\ moves \in Nat /\ registered \in BOOLEAN
  /\ chain \in Contracts /\ behind \in Contracts
  /\ at \in [Requests -> {"ready", "row", "stake", "paused", "rental", "librarian", "window",
                          "denied", "unreadable", "unavailable", "granted"}]
  /\ call \in [Requests -> [kind : Kinds \cup {"none"}, wallet : Wallets \cup {Nobody}]]
  /\ opened \in [Requests -> SUBSET Facts] /\ closed \in [Requests -> SUBSET Facts]
  /\ accepted \in [Messages -> [first : Nat \cup {Never}, last : Nat \cup {Never}]]

Init ==
  /\ now = 0 /\ moves = 0 /\ registered = FALSE
  /\ chain = [staker |-> Nobody, active |-> FALSE, over |-> FALSE, paused |-> FALSE,
              rented |-> {}, librarians |-> Librarians]
  /\ behind = chain
  /\ at = [r \in Requests |-> "ready"] /\ call = [r \in Requests |-> Idle]
  /\ opened = [r \in Requests |-> {}] /\ closed = [r \in Requests |-> {}]
  /\ accepted = [m \in Messages |-> [first |-> Never, last |-> Never]]

-----------------------------------------------------------------------------
(* The contracts and the clock.                                            *)

\* Is it open to a wallet: a door of the decryption Action, or half of one.
IsOpen(fact, c, w) ==
  CASE fact = "uploader"  -> w = Uploader /\ c.staker = w
    [] fact = "rental"    -> w # Uploader /\ ~c.paused /\ w \in c.rented
    [] fact = "librarian" -> w # Uploader /\ w \in c.librarians
    [] fact = "window"    -> w # Uploader /\ c.active /\ ~c.over /\ c.staker # w
    [] fact = "review"    -> /\ w # Uploader /\ w \in c.librarians
                             /\ c.active /\ ~c.over /\ c.staker # w

OpenTo(c, w) == {fact \in Facts : IsOpen(fact, c, w)}

Running == {r \in Requests : at[r] # "ready"}

Tick ==
  /\ now < MaxTime /\ now' = now + 1
  /\ UNCHANGED <<chainVars, registered, requestVars, history>>

ChainMoves(c) ==
  /\ moves < MaxMoves /\ moves' = moves + 1
  /\ chain' = c /\ behind' = chain
  /\ opened' = [r \in Requests |->
       IF r \in Running THEN opened[r] \cup OpenTo(c, call[r].wallet) ELSE opened[r]]
  /\ closed' = [r \in Requests |->
       IF r \in Running THEN closed[r] \cup (Facts \ OpenTo(c, call[r].wallet)) ELSE closed[r]]
  /\ UNCHANGED <<now, registered, requestVars, accepted>>

Stake(w) ==
  chain.staker = Nobody /\ ChainMoves([chain EXCEPT !.staker = w, !.active = TRUE])

Unstake == chain.active /\ chain.over /\ ChainMoves([chain EXCEPT !.active = FALSE])

PeriodEnds == chain.active /\ ~chain.over /\ ChainMoves([chain EXCEPT !.over = TRUE])

Rent(w) ==
  w # Uploader /\ w \notin chain.rented /\ ChainMoves([chain EXCEPT !.rented = @ \cup {w}])

RentalEnds(w) == w \in chain.rented /\ ChainMoves([chain EXCEPT !.rented = @ \ {w}])

Pause == ChainMoves([chain EXCEPT !.paused = ~@])

Joins(w) ==
  w \notin chain.librarians /\ ChainMoves([chain EXCEPT !.librarians = @ \cup {w}])

Leaves(w) ==
  w \in chain.librarians /\ ChainMoves([chain EXCEPT !.librarians = @ \ {w}])

CatchUp ==
  /\ behind # chain /\ behind' = chain
  /\ UNCHANGED <<now, chain, moves, registered, requestVars, history>>

Registers ==
  /\ ~registered /\ registered' = TRUE
  /\ UNCHANGED <<now, chainVars, requestVars, history>>

ChainStep ==
  \/ \E w \in Wallets : Stake(w) \/ Rent(w) \/ RentalEnds(w) \/ Joins(w) \/ Leaves(w)
  \/ Unstake \/ PeriodEnds \/ Pause \/ CatchUp \/ Registers

-----------------------------------------------------------------------------
(* The signed message.                                                     *)

\* parseWalletMessage(): the shape of an unlock message, whose window is not empty.
Parsed(m) == m.statement = "unlock" /\ m.issued < m.expires

\* checkScope()
InScope(m) ==
  m.site = "ours" /\ m.chainId = "ours" /\ m.expires - m.issued <= MaxWindow

\* decodeSessionKey(), and what the resources name.
NamesThisRead(m) == m.sealedKey = "this book" /\ m.sessionKey = "named"

\* checkSignature()
SignedByItsWallet(m) == m.signer = m.wallet

\* checkTimes()
InTime(m) == m.issued <= now + MaxSkew /\ now < m.expires

\* Bug: a message may say for how long it is good.
VerifiedForAnyWindow(m) ==
  Parsed(m) /\ NamesThisRead(m) /\ SignedByItsWallet(m) /\ InTime(m)

\* verifyUnlockRequest()
Verified(m) ==
  Parsed(m) /\ InScope(m) /\ NamesThisRead(m) /\ SignedByItsWallet(m) /\ InTime(m)

-----------------------------------------------------------------------------
(* The requests.                                                           *)

Go(r, point) == at' = [at EXCEPT ![r] = point]

Begin(r, kind, w, point) ==
  /\ Go(r, point)
  /\ call' = [call EXCEPT ![r] = [kind |-> kind, wallet |-> w]]
  /\ LET both == OpenTo(chain, w) \cap OpenTo(behind, w)
     IN  /\ opened' = [opened EXCEPT ![r] = OpenTo(chain, w) \cup OpenTo(behind, w)]
         /\ closed' = [closed EXCEPT ![r] = Facts \ both]
  /\ UNCHANGED <<now, chainVars, registered>>

\* getDecryptParams() and getRentalStatus() take the word of whoever asks.
Arrive(r) ==
  /\ at[r] = "ready"
  /\ \E w \in Wallets :
       Begin(r, "params", w, "row") \/ Begin(r, "status", w, "paused")
  /\ UNCHANGED accepted

\* unlockKey(): the row is there, and the message is checked.
ArriveSigned(r) ==
  /\ at[r] = "ready"
  /\ \E m \in Messages :
       /\ Verified(m)
       /\ Begin(r, "unlock", m.wallet, "row")
       /\ accepted' = [accepted EXCEPT
            ![m] = [first |-> IF @.first = Never THEN now ELSE @.first, last |-> now]]

FirstDoor(w) == IF w = Uploader THEN "stake" ELSE "paused"

\* checkReadAccess(): the status of the row, and whose book it is.
ReadRow(r) ==
  /\ at[r] = "row"
  /\ Go(r, IF registered THEN FirstDoor(call[r].wallet) ELSE "unavailable")
  /\ UNCHANGED <<now, chainVars, registered, call, history>>

\* What providers may tell of the contracts.
Views == {chain, behind}

\* A read of the chain, answered by any provider, and where each answer leads.
Ask(r, point, leads) ==
  /\ at[r] = point
  /\ \E view \in Views : Go(r, leads[view])
  /\ UNCHANGED <<now, chainVars, registered, call, history>>

\* The door of the uploader: a stake outlives unstake().
AskStake(r) ==
  Ask(r, "stake", [c \in Views |-> IF c.staker = call[r].wallet THEN "granted" ELSE "denied"])

\* isRentalActive(): a paused contract is asked nothing more.
AskPaused(r) ==
  Ask(r, "paused", [c \in Views |-> IF c.paused THEN "unavailable" ELSE "rental"])

\* Bug: who did not rent is turned away at once.
NoOtherDoor(r) == "denied"

\* The door that is tried next; a question about the rental has no other.
NoRental(r) == IF call[r].kind = "status" THEN "denied" ELSE "librarian"

\* Paused in the meantime, the contract reverts.
AskRental(r) ==
  Ask(r, "rental", [c \in Views |->
    IF c.paused THEN "unavailable"
    ELSE IF call[r].wallet \in c.rented THEN "granted" ELSE NoRental(r)])

\* isActiveLibrarian()
AskLibrarian(r) ==
  Ask(r, "librarian",
      [c \in Views |-> IF call[r].wallet \in c.librarians THEN "window" ELSE "denied"])

\* Bug: the end of the time to challenge is not looked at.
ReviewOpenAnyTime(c, w) == c.active /\ c.staker # w

\* isLibrarianReviewAllowed()
ReviewOpen(c, w) == c.active /\ ~c.over /\ c.staker # w

AskWindow(r) ==
  Ask(r, "window", [c \in Views |-> IF ReviewOpen(c, call[r].wallet) THEN "granted" ELSE "denied"])

Reply(r) ==
  /\ Go(r, "ready") /\ call' = [call EXCEPT ![r] = Idle]
  /\ opened' = [opened EXCEPT ![r] = {}] /\ closed' = [closed EXCEPT ![r] = {}]
  /\ UNCHANGED <<now, chainVars, registered, accepted>>

Answer(r) == at[r] \in {"denied", "unreadable", "unavailable", "granted"} /\ Reply(r)

\* A ChainError is an answer of its own; of the review door it is a refusal.
Fails(r) ==
  \/ at[r] \in {"row", "stake", "paused", "rental"} /\ Reply(r)
  \/ /\ at[r] \in {"librarian", "window"} /\ Go(r, "unreadable")
     /\ UNCHANGED <<now, chainVars, registered, call, history>>

RequestStep(r) ==
  \/ Arrive(r) \/ ArriveSigned(r) \/ ReadRow(r)
  \/ AskStake(r) \/ AskPaused(r) \/ AskRental(r) \/ AskLibrarian(r) \/ AskWindow(r)
  \/ Answer(r) \/ Fails(r)

Next == Tick \/ ChainStep \/ \E r \in Requests : RequestStep(r)

Spec == Init /\ [][Next]_vars

-----------------------------------------------------------------------------
(* Properties                                                              *)

\* Whoever is let in had a door open to them at some moment while the request ran,
\* and who is told that a rental is active had it then: what the awaits learn one
\* after another, of providers that lag, opens no door that was never open.  The one
\* exception is the door of the review, which is asked about in two reads: a wallet
\* may get in that was a librarian at one moment and had a book to review at another,
\* never both, if each of the two changed while the request ran.
OpenedForReadersOnly ==
  \A r \in Requests : at[r] = "granted" =>
    IF call[r].kind = "status" THEN "rental" \in opened[r]
    ELSE \/ opened[r] \cap Doors # {}
         \/ ReviewFacts \subseteq opened[r] \cap closed[r]

\* Whoever is turned away found every door closed at some moment: a door that was
\* open all the while lets the reader in, whatever becomes of the others.  (Not so if
\* the chain cannot be read, or rentals are paused: that is an answer of its own, or
\* for the door of the review a refusal, "unreadable".)
TurnedAwayAtEveryDoor ==
  \A r \in Requests : at[r] = "denied" =>
    IF call[r].kind = "status" THEN "rental" \in closed[r] ELSE Doors \subseteq closed[r]

\* However the clock of the wallet was set, a signature works for no longer than
\* the longest window and the skew together.
SignatureIsShortLived ==
  \A m \in Messages : accepted[m].last - accepted[m].first < MaxWindow + MaxSkew
=============================================================================
