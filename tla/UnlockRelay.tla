----------------------------- MODULE UnlockRelay -----------------------------
(***************************************************************************)
(* controller/unlock.controller.js: signed requests of readers are held to *)
(* the ceilings and the credit reserve of unlockRateLimit.service.js, and  *)
(* forwarded to Lit at a price.  What the chain says of a reader is in     *)
(* ReadAccess; here the reader passes or does not.  The Action that        *)
(* answers is not part of this code.                                       *)
(***************************************************************************)
EXTENDS Integers, Sequences, FiniteSets

CONSTANTS
  Wallets, Nobody,
  Requests,                 \* requests that run at the same time
  PerWallet, WalletWindow,  \* perWallet, perWalletWindowMs
  PerHour, Hour, PerDay, Day,
  Reserve, Refresh,         \* minCreditCents, refreshMs; a call costs one cent
  MaxTime, MaxCredit, MaxDebt  \* bounds of what is explored

ASSUME RelayAssumption ==
  /\ Nobody \notin Wallets
  /\ {PerWallet, PerHour, PerDay} \subseteq Nat \ {0}
  /\ {WalletWindow, Hour, Day, Refresh} \subseteq Nat \ {0}
  /\ {Reserve, MaxTime, MaxCredit, MaxDebt} \subseteq Nat

VARIABLES
  now,                       \* Date.now()
  credit,                    \* cents on the Lit account
  taken, lastHour, lastDay,  \* the limiter: times of what it let through
  reading,                   \* the guard: none, or one [cents, at]
  at, call,                  \* requests: the await, what they hold across it
  forwarded,                 \* history: what this process sent to Lit
  lowSince                   \* history: since when the credit is below the reserve

limiter == <<taken, lastHour, lastDay>>
requests == <<at, call>>
account == <<credit, lowSince>>

vars == <<now, account, limiter, reading, requests, forwarded>>

Unknown == -1000   \* creditCents: null
Never == -1
Idle == [wallet |-> Nobody, charged |-> 0, began |-> 0, cents |-> Unknown]

Calls == [wallet : Wallets \cup {Nobody}, charged : Nat, began : Nat, cents : Int]

TypeOK ==
  /\ now \in Nat /\ credit \in Int /\ lowSince \in Nat \cup {Never}
  /\ taken \in [Wallets -> Seq(Nat)] /\ lastHour \in Seq(Nat) /\ lastDay \in Seq(Nat)
  /\ reading \in SUBSET [cents : Int, at : Nat]
  /\ at \in [Requests -> {"ready", "chain", "cid", "balance", "told", "lit"}]
  /\ call \in [Requests -> Calls]
  /\ forwarded \in Seq([wallet : Wallets \cup {Nobody}, charged : Nat, at : Nat])

Init ==
  /\ now = 0
  /\ credit = MaxCredit /\ lowSince = IF MaxCredit < Reserve THEN 0 ELSE Never
  /\ taken = [w \in Wallets |-> <<>>] /\ lastHour = <<>> /\ lastDay = <<>>
  /\ reading = {}
  /\ at = [r \in Requests |-> "ready"] /\ call = [r \in Requests |-> Idle]
  /\ forwarded = <<>>

-----------------------------------------------------------------------------
(* Time and the account.                                                   *)

Tick ==
  /\ now < MaxTime /\ now' = now + 1
  /\ UNCHANGED <<account, limiter, reading, requests, forwarded>>

\* The balance of the account, and since when it is below the reserve.
Balance(c) ==
  /\ credit' = c
  /\ lowSince' = IF c >= Reserve THEN Never ELSE IF lowSince = Never THEN now ELSE lowSince

\* An upload seals its key on the same account.
UploadSeals ==
  /\ credit > -MaxDebt /\ Balance(credit - 1)
  /\ UNCHANGED <<now, limiter, reading, requests, forwarded>>

TopUp ==
  /\ credit < Reserve /\ Balance(MaxCredit)
  /\ UNCHANGED <<now, limiter, reading, requests, forwarded>>

-----------------------------------------------------------------------------
(* createUnlockLimiter()                                                   *)

\* Drop from the front of a list while it begins with a time no later than last.
DropUpTo(list, last) ==
  LET first == CHOOSE i \in 1 .. Len(list) + 1 :
                 /\ \A j \in 1 .. i - 1 : list[j] <= last
                 /\ i = Len(list) + 1 \/ list[i] > last
  IN  SubSeq(list, first, Len(list))

\* Bug: a time is dropped one tick before its window is over.
PruneEarly(list, window) == DropUpTo(list, now - window + 1)

\* prune()
Prune(list, window) == DropUpTo(list, now - window)

MayCharge(w) == Len(Prune(taken[w], WalletWindow)) < PerWallet

\* takeWallet()
Charge(w) ==
  LET list == Prune(taken[w], WalletWindow)
  IN  taken' = [taken EXCEPT ![w] = IF Len(list) < PerWallet THEN Append(list, now) ELSE list]

MayForward ==
  /\ Len(Prune(lastHour, Hour)) < PerHour
  /\ Len(Prune(lastDay, Day)) < PerDay

\* Bug: only the ceiling of the hour is taken from.
TakeHour ==
  /\ lastHour' = IF MayForward THEN Append(Prune(lastHour, Hour), now) ELSE Prune(lastHour, Hour)
  /\ lastDay' = Prune(lastDay, Day)

\* takeGlobal(): takes from both ceilings or from neither.
TakeGlobal ==
  LET next(list) == IF MayForward THEN Append(list, now) ELSE list
  IN  /\ lastHour' = next(Prune(lastHour, Hour))
      /\ lastDay' = next(Prune(lastDay, Day))

-----------------------------------------------------------------------------
(* unlockKey()                                                             *)

Go(r, point) == at' = [at EXCEPT ![r] = point]

Reply(r) == Go(r, "ready") /\ call' = [call EXCEPT ![r] = Idle]

\* Continue at point if the check passes, else answer.
Check(r, passes, point) ==
  IF passes THEN Go(r, point) /\ UNCHANGED call ELSE Reply(r)

\* The row and the signed message pass, and the ceiling of the wallet is taken from.
Arrive(r) ==
  /\ at[r] = "ready"
  /\ \E w \in Wallets :
       /\ Charge(w)
       /\ IF MayCharge(w)
            THEN Go(r, "chain") /\ call' = [call EXCEPT ![r].wallet = w, ![r].charged = now]
            ELSE UNCHANGED requests
  /\ UNCHANGED <<now, account, lastHour, lastDay, reading, forwarded>>

\* Bug: the time the answer arrived is written.
StampOnArrival(r) == now

\* The time at which check() began.
Stamp(r) == call[r].began

Enough(cents) == cents = Unknown \/ cents >= Reserve

\* Past the guard: take from the ceilings and send, without an await in between.
Forward(r, cents) ==
  IF Enough(cents)
    THEN /\ TakeGlobal /\ Check(r, MayForward, "lit")
         /\ forwarded' =
              IF MayForward
                THEN Append(forwarded,
                       [wallet |-> call[r].wallet, charged |-> call[r].charged, at |-> now])
                ELSE forwarded
    ELSE Reply(r) /\ UNCHANGED <<lastHour, lastDay, forwarded>>

Fresh == \E b \in reading : now - b.at < Refresh

\* checkReadAccess() lets the reader pass.
LetIn(r) ==
  /\ at[r] = "chain" /\ Go(r, "cid")
  /\ UNCHANGED <<now, account, limiter, reading, call, forwarded>>

\* The code has the CID that is permitted, looked up or cached; then check(), with
\* the reading it has if that is fresh.
CheckCid(r) ==
  /\ at[r] = "cid"
  /\ IF Reserve = 0 THEN Forward(r, Unknown)
     ELSE IF Fresh THEN \E b \in reading : Forward(r, b.cents)
     ELSE /\ Go(r, "balance") /\ call' = [call EXCEPT ![r].began = now]
          /\ UNCHANGED <<lastHour, lastDay, forwarded>>
  /\ UNCHANGED <<now, account, taken, reading>>

\* The billing endpoint reads the account, or it cannot be read.
ReadBalance(r) ==
  /\ at[r] = "balance" /\ Go(r, "told")
  /\ \E cents \in {credit, Unknown} : call' = [call EXCEPT ![r].cents = cents]
  /\ UNCHANGED <<now, account, limiter, reading, forwarded>>

Told(r) ==
  /\ at[r] = "told"
  /\ reading' = {[cents |-> call[r].cents, at |-> Stamp(r)]}
  /\ Forward(r, call[r].cents)
  /\ UNCHANGED <<now, account, taken>>

\* The Action runs, and the account pays; the answer is passed on.
LitRuns(r) ==
  /\ at[r] = "lit" /\ credit > -MaxDebt /\ Balance(credit - 1) /\ Reply(r)
  /\ UNCHANGED <<now, limiter, reading, forwarded>>

\* A request ends where it is: what was taken from a ceiling stays taken.
EndsAt(r, point) ==
  /\ at[r] = point /\ Reply(r)
  /\ UNCHANGED <<now, account, limiter, reading, forwarded>>

\* A reader with no door, or a chain that cannot be read.
TurnedAway(r) == EndsAt(r, "chain")

\* Another Action, or no answer what its CID is.
CidRefused(r) == EndsAt(r, "cid")

\* Lit cannot be reached, and charges nothing.
LitFails(r) == EndsAt(r, "lit")

\* Limits and requests are in memory.
Restart ==
  /\ taken' = [w \in Wallets |-> <<>>] /\ lastHour' = <<>> /\ lastDay' = <<>> /\ reading' = {}
  /\ at' = [r \in Requests |-> "ready"] /\ call' = [r \in Requests |-> Idle]
  /\ forwarded' = <<>>
  /\ UNCHANGED <<now, account>>

RequestStep(r) ==
  \/ Arrive(r) \/ LetIn(r) \/ CheckCid(r) \/ ReadBalance(r) \/ Told(r) \/ LitRuns(r)
  \/ TurnedAway(r) \/ CidRefused(r) \/ LitFails(r)

Next ==
  \/ Tick \/ UploadSeals \/ TopUp \/ Restart
  \/ \E r \in Requests : RequestStep(r)

Spec == Init /\ [][Next]_vars

-----------------------------------------------------------------------------
(* Properties                                                              *)

\* How many of the calls this process forwarded satisfy a condition.
Count(satisfies(_)) ==
  Cardinality({i \in DOMAIN forwarded : satisfies(forwarded[i])})

\* A wallet gets its share: of the requests it was charged for, on arrival, within one
\* window, however long they were under way, at most perWallet were ever forwarded.
WalletShareHolds ==
  \A w \in Wallets, t \in 0 .. now :
    Count(LAMBDA f : f.wallet = w /\ f.charged \in t .. t + WalletWindow - 1) <= PerWallet

\* The ceilings hold for whatever hour and whatever day one looks at, with all
\* requests of this process together: the check and the take are one step.
CeilingsHold ==
  \A t \in 0 .. now :
    /\ Count(LAMBDA f : f.at \in t .. t + Hour - 1) <= PerHour
    /\ Count(LAMBDA f : f.at \in t .. t + Day - 1) <= PerDay

Began(r) == IF at[r] = "told" THEN call[r].began ELSE now
Known(r) ==
  IF at[r] = "told" THEN call[r].cents # Unknown ELSE \E b \in reading : b.cents # Unknown

\* The reserve may be overspent while a reading is trusted, and no longer: a check
\* that starts when the credit has been below the reserve for refreshMs forwards
\* nothing, unless the balance could not be read.
GuardCatchesUp ==
  [][\A r \in Requests :
       (at'[r] = "lit" /\ at[r] # "lit" /\ Known(r) /\ lowSince # Never)
         => Began(r) < lowSince + Refresh]_vars

=============================================================================
