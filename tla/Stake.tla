--------------------------------- MODULE Stake ---------------------------------
(***************************************************************************)
(* The stake service of the API process (stake_service.go): concurrent     *)
(* HTTP requests that stake or withdraw through one platform account, the  *)
(* transactions of that account by nonce, the operation records, and the   *)
(* user rows that updateUserScore changes in the background while the      *)
(* listener adds stakes that wallets make on the chain themselves.         *)
(*                                                                         *)
(* A request leaves at most one record, so records is a set of requests.   *)
(* total_amount of a user row is represented by the set of the stakes that *)
(* have been added to it.                                                  *)
(***************************************************************************)
EXTENDS Integers, Sequences, FiniteSets

CONSTANTS
  Requests,     \* HTTP requests
  Directs,      \* stakes that wallets make on the chain themselves
  Wallets, Tokens, Amounts,
  Prices,       \* gas prices the node may suggest; a higher one replaces a lower
  MaxCrashes,   \* bound: crashes of the API process
  MaxFaults     \* bound: failed or unacknowledged calls

ASSUME StakeConstantsOK ==
  /\ Requests \cap Directs = {} /\ IsFiniteSet(Requests)
  /\ Amounts \subseteq Nat /\ Prices \subseteq Nat
  /\ MaxCrashes \in Nat /\ MaxFaults \in Nat

VARIABLES
  \* the node
  slot,       \* slot[n]: transaction of the platform account with nonce n
  mined,      \* how many of them are in blocks
  replaced,   \* history: a pending transaction was replaced by another one
  \* the API process
  req,        \* req[r]: parameters and progress of a request
  scorer,     \* scorer[r]: progress of go updateUserScore for r
  \* the database
  records,    \* user_operation_record: requests whose record is stored
  rows,       \* users: [wallet, token, stakes], in the order of their ids
  direct,     \* stakes of the chain, as the listener has stored them
  raced,      \* history: wallets with an update made between another one's read and write
  unscored,   \* history: requests whose update failed or died
  crashes, faults

nodeVars == <<slot, mined, replaced>>
userVars == <<rows, direct, raced, unscored>>
counters == <<crashes, faults>>
vars == <<nodeVars, req, scorer, records, userVars, counters>>

Nonces  == 0..(2 * Cardinality(Requests))
NoTx    == [kind |-> "none"]
Waiting == [pc |-> "waiting"]
Unknown == [pc |-> "unknown"]
Idle    == [pc |-> "idle"]

Started == {r \in Requests : req[r].pc # "waiting"}
Staking == {r \in Started : req[r].kind = "stake"}
Stakes  == records \cap Staking           \* rows with event_type "Staked"
Withdrawals == records \ Staking          \* rows with event_type "withdraw"

\* All rows with event_type "Staked": those of the listener too.
Staked == Stakes \cup {d \in Directs : direct[d].pc # "unknown"}
AmountOf(s) == IF s \in Requests THEN req[s].amount ELSE direct[s].amount
WalletOf(s) == IF s \in Requests THEN req[s].wallet ELSE direct[s].wallet
TokenOf(s)  == IF s \in Requests THEN req[s].token ELSE direct[s].token

TypeOK ==
  /\ slot \in [Nonces -> {NoTx} \cup [kind : {"approve", "deposit", "withdraw"}, by : Requests,
                                       price : Prices]]
  /\ mined \in Nonces
  /\ replaced \in BOOLEAN
  /\ \A r \in Started :
       /\ req[r].pc \in {"nonce", "approve", "deposit", "withdraw", "record", "done", "failed"}
       /\ req[r].nonce \in Nonces
  /\ \A r \in Requests : scorer[r].pc \in {"idle", "begun", "read"}
  /\ records \subseteq Started
  /\ rows \in Seq([wallet : Wallets, token : Tokens, stakes : SUBSET (Requests \cup Directs)])
  /\ \A i, j \in DOMAIN rows :
       rows[i].wallet = rows[j].wallet /\ rows[i].token = rows[j].token => i = j
  /\ \A d \in Directs : direct[d].pc \in {"unknown", "staked", "withdrawn"}
  /\ raced \subseteq Wallets /\ unscored \subseteq Requests
  /\ crashes \in 0..MaxCrashes /\ faults \in 0..MaxFaults

Init ==
  /\ slot = [n \in Nonces |-> NoTx] /\ mined = 0 /\ replaced = FALSE
  /\ req = [r \in Requests |-> Waiting]
  /\ scorer = [r \in Requests |-> Idle]
  /\ records = {} /\ rows = <<>>
  /\ direct = [d \in Directs |-> Unknown]
  /\ raced = {} /\ unscored = {}
  /\ crashes = 0 /\ faults = 0

Fault == faults < MaxFaults /\ faults' = faults + 1

-----------------------------------------------------------------------------
(***************************************************************************)
(* The node (external).                                                    *)
(***************************************************************************)

\* PendingNonceAt: the first nonce without a mined or pending transaction.
PendingNonce == CHOOSE n \in Nonces :
  slot[n] = NoTx /\ \A m \in Nonces : m < n => slot[m] # NoTx

\* A transaction is refused when its nonce is mined, or pending at no lower price.
Accepts(r, n) ==
  /\ n >= mined
  /\ slot[n] # NoTx => slot[n].price < req[r].price

Submit(r, n, kind) ==
  /\ slot' = [slot EXCEPT ![n] = [kind |-> kind, by |-> r, price |-> req[r].price]]
  /\ replaced' = (replaced \/ slot[n] # NoTx)
  /\ UNCHANGED mined

Mine ==
  /\ mined \in Nonces /\ slot[mined] # NoTx
  /\ mined' = mined + 1
  /\ UNCHANGED <<slot, replaced, req, scorer, records, userVars, counters>>

-----------------------------------------------------------------------------
(***************************************************************************)
(* A request, from one call to the next.  Requests that fail before they   *)
(* send anything (parameters, balance) leave nothing behind and are left   *)
(* out.                                                                    *)
(***************************************************************************)
BeginStake(r, w, token, amount) ==
  /\ req[r].pc = "waiting"
  /\ req' = [req EXCEPT ![r] = [pc |-> "nonce", kind |-> "stake", wallet |-> w,
                token |-> token, amount |-> amount, nonce |-> 0, price |-> 0]]
  /\ UNCHANGED <<nodeVars, scorer, records, userVars, counters>>

\* ProcessWithdraw finds the stake record of that wallet, whoever stored it (its
\* lock has expired).
BeginWithdraw(r, stake) ==
  /\ req[r].pc = "waiting" /\ stake \in Staked
  /\ req' = [req EXCEPT ![r] = [pc |-> "nonce", kind |-> "withdraw", of |-> stake,
                wallet |-> WalletOf(stake), token |-> TokenOf(stake),
                amount |-> AmountOf(stake), nonce |-> 0, price |-> 0]]
  /\ UNCHANGED <<nodeVars, scorer, records, userVars, counters>>

Goto(r, pc) == req' = [req EXCEPT ![r].pc = pc]
End(r, pc)  == req' = [req EXCEPT ![r].pc = pc, ![r].nonce = 0, ![r].price = 0]

\* PendingNonceAt and SuggestGasPrice.
GetNonce(r) ==
  /\ req[r].pc = "nonce"
  /\ \E price \in Prices :
       req' = [req EXCEPT ![r].pc = IF req[r].kind = "stake" THEN "approve" ELSE "withdraw",
                          ![r].nonce = PendingNonce, ![r].price = price]
  /\ UNCHANGED <<nodeVars, scorer, records, userVars, counters>>

\* Mutant of DepositNonce: the nonce is asked for again, as in the code that is
\* commented out.
DepositNonceAgain(r) == PendingNonce

\* The deposit takes the nonce after the approval's.
DepositNonce(r) == req[r].nonce + 1

NonceOf(r) == IF req[r].pc = "deposit" THEN DepositNonce(r) ELSE req[r].nonce

AfterSend(r) == IF req[r].pc = "approve" THEN "deposit" ELSE "record"

Sending(r) == req[r].pc \in {"approve", "deposit", "withdraw"}

\* approve, Deposit or Withdraw is sent and accepted.
Send(r) ==
  /\ Sending(r) /\ Accepts(r, NonceOf(r))
  /\ Submit(r, NonceOf(r), req[r].pc)
  /\ Goto(r, AfterSend(r))
  /\ UNCHANGED <<scorer, records, userVars, counters>>

\* The node refuses it: the request ends with an error.
SendRefused(r) ==
  /\ Sending(r) /\ ~Accepts(r, NonceOf(r))
  /\ End(r, "failed")
  /\ UNCHANGED <<nodeVars, scorer, records, userVars, counters>>

\* Mutant of SendFails: a failed approval is ignored.
SendFailsIgnored(r) ==
  /\ Sending(r) /\ Fault
  /\ IF req[r].pc = "approve" THEN Goto(r, "deposit") ELSE End(r, "failed")
  /\ UNCHANGED <<nodeVars, scorer, records, userVars, crashes>>

\* The call fails; the node may have taken the transaction all the same.
SendFails(r) ==
  /\ Sending(r) /\ Fault
  /\ \/ UNCHANGED nodeVars
     \/ Accepts(r, NonceOf(r)) /\ Submit(r, NonceOf(r), req[r].pc)
  /\ End(r, "failed")
  /\ UNCHANGED <<scorer, records, userVars, crashes>>

\* The record is created, and for a stake updateUserScore is started.
Record(r) ==
  /\ req[r].pc = "record"
  /\ records' = records \cup {r}
  /\ scorer' = IF req[r].kind = "stake" THEN [scorer EXCEPT ![r].pc = "begun"] ELSE scorer
  /\ End(r, "done")
  /\ UNCHANGED <<nodeVars, userVars, counters>>

\* The record is not created: an error is returned for a transaction that was sent.
RecordFails(r) ==
  /\ req[r].pc = "record" /\ Fault
  /\ End(r, "failed")
  /\ UNCHANGED <<nodeVars, scorer, records, userVars, crashes>>

-----------------------------------------------------------------------------
(***************************************************************************)
(* updateUserScore: read the wallet's row, then create or save it.         *)
(***************************************************************************)
RowsOf(w) == {i \in DOMAIN rows : rows[i].wallet = w}

\* Mutant of RowOf: no unique key on the table, every write inserts a row.
RowOfNone(w, t) == {}

\* The row with the key (wallet, token), if there is one.
RowOf(w, t) == {i \in RowsOf(w) : rows[i].token = t}

\* First by chain and address: the row with the lowest id, whatever its token.
ScoreRead(r) ==
  /\ scorer[r].pc = "begun"
  /\ LET mine == RowsOf(req[r].wallet)
     IN scorer' = [scorer EXCEPT ![r] =
          IF mine = {} THEN [pc |-> "read", row |-> 0, stakes |-> {}]
          ELSE LET i == CHOOSE i \in mine : \A j \in mine : i <= j
               IN [pc |-> "read", row |-> i, stakes |-> rows[i].stakes]]
  /\ UNCHANGED <<nodeVars, req, records, userVars, counters>>

\* A change of w's rows by anyone but r: what another update has read is old now.
Touch(w, r) ==
  raced' = raced \cup {v \in {w} : \E q \in Requests \ {r} :
                                     scorer[q].pc = "read" /\ req[q].wallet = v}

\* Mutant of Saved: the amount is assigned, not added.
SavedAssign(r) == {r}

\* What Save writes: the amount that was read plus the new one.
Saved(r) == scorer[r].stakes \cup {r}

ScoreWrite(r) ==
  /\ scorer[r].pc = "read"
  /\ LET w == req[r].wallet  t == req[r].token  i == scorer[r].row
     IN \/ /\ i # 0
           /\ rows' = [rows EXCEPT ![i].stakes = Saved(r)]
           /\ UNCHANGED unscored
        \/ /\ i = 0 /\ RowOf(w, t) = {}
           /\ rows' = Append(rows, [wallet |-> w, token |-> t, stakes |-> Saved(r)])
           /\ UNCHANGED unscored
        \/ /\ i = 0 /\ RowOf(w, t) # {}     \* the unique key (wallet, token) refuses it
           /\ unscored' = unscored \cup {r}
           /\ UNCHANGED rows
  /\ Touch(req[r].wallet, r)
  /\ scorer' = [scorer EXCEPT ![r] = Idle]
  /\ UNCHANGED <<nodeVars, req, records, direct, counters>>

\* A query of updateUserScore fails: the error is printed and the update is lost.
ScoreFails(r) ==
  /\ scorer[r].pc # "idle" /\ Fault
  /\ scorer' = [scorer EXCEPT ![r] = Idle]
  /\ unscored' = unscored \cup {r}
  /\ UNCHANGED <<nodeVars, req, records, rows, direct, raced, crashes>>

-----------------------------------------------------------------------------
(***************************************************************************)
(* The listener process, and the end of the API process.                   *)
(***************************************************************************)

\* updateDbUserAmount stores a stake of the chain: record and upsert of the row of
\* (wallet, token) in one transaction.
ListenerStake(d, w, token, amount) ==
  /\ direct[d].pc = "unknown"
  /\ direct' = [direct EXCEPT ![d] = [pc |-> "staked", wallet |-> w, token |-> token,
                                      amount |-> amount]]
  /\ rows' = IF RowOf(w, token) = {}
             THEN Append(rows, [wallet |-> w, token |-> token, stakes |-> {d}])
             ELSE [i \in DOMAIN rows |->
                     IF i \in RowOf(w, token)
                     THEN [rows[i] EXCEPT !.stakes = @ \cup {d}] ELSE rows[i]]
  /\ raced' = raced \cup {v \in {w} : \E q \in Requests :
                                        scorer[q].pc = "read" /\ req[q].wallet = v}
  /\ UNCHANGED <<nodeVars, req, scorer, records, unscored, counters>>

\* ... and its withdrawal, whose record has event_type "Withdrawn"; the amount is
\* subtracted from the same row.
ListenerWithdrawal(d) ==
  /\ direct[d].pc = "staked"
  /\ direct' = [direct EXCEPT ![d].pc = "withdrawn"]
  /\ rows' = [i \in DOMAIN rows |->
                IF i \in RowOf(direct[d].wallet, direct[d].token)
                THEN [rows[i] EXCEPT !.stakes = @ \ {d}] ELSE rows[i]]
  /\ raced' = raced \cup {v \in {direct[d].wallet} : \E q \in Requests :
                                        scorer[q].pc = "read" /\ req[q].wallet = v}
  /\ UNCHANGED <<nodeVars, req, scorer, records, unscored, counters>>

\* Every request and every update under way is lost.
Crash ==
  /\ crashes < MaxCrashes
  /\ crashes' = crashes + 1
  /\ req' = [r \in Requests |->
       IF r \in Started /\ req[r].pc # "done" THEN [req[r] EXCEPT !.pc = "failed", !.nonce = 0, !.price = 0]
       ELSE req[r]]
  /\ scorer' = [r \in Requests |-> Idle]
  /\ unscored' = unscored \cup {r \in Requests : scorer[r].pc # "idle"}
  /\ UNCHANGED <<nodeVars, records, rows, direct, raced, faults>>

Begin(r) ==
  \/ \E w \in Wallets, t \in Tokens, amount \in Amounts : BeginStake(r, w, t, amount)
  \/ \E stake \in Staked : BeginWithdraw(r, stake)

Serve(r) ==
  \/ Begin(r) \/ GetNonce(r) \/ Send(r) \/ SendRefused(r) \/ SendFails(r)
  \/ Record(r) \/ RecordFails(r)
  \/ ScoreRead(r) \/ ScoreWrite(r) \/ ScoreFails(r)

Listener ==
  \E d \in Directs :
    \/ \E w \in Wallets, t \in Tokens, amount \in Amounts : ListenerStake(d, w, t, amount)
    \/ ListenerWithdrawal(d)

Next == Mine \/ (\E r \in Requests : Serve(r)) \/ Listener \/ Crash

Spec == Init /\ [][Next]_vars

-----------------------------------------------------------------------------
(***************************************************************************)
(* What the API shows: GetStakeRecords and GetStakeOverview take a stake   *)
(* for withdrawn when the wallet has a "withdraw" record of that amount.   *)
(***************************************************************************)
StakeRecords(w) == {s \in Staked : WalletOf(s) = w}

ShownWithdrawn(s) ==
  \E q \in Withdrawals : req[q].wallet = WalletOf(s) /\ req[q].amount = AmountOf(s)

ActiveStakes(w) == {s \in StakeRecords(w) : ~ShownWithdrawn(s)}

ReallyWithdrawn(s) ==
  \/ s \in Directs /\ direct[s].pc = "withdrawn"
  \/ \E q \in Withdrawals : req[q].of = s

-----------------------------------------------------------------------------
(***************************************************************************)
(* Properties.                                                             *)
(***************************************************************************)
Sent(n, kind, r) == slot[n] # NoTx /\ slot[n].kind = kind /\ slot[n].by = r

\* As long as no pending transaction was replaced at a higher gas price, every
\* deposit that was accepted comes directly after the approval of the same request,
\* so it finds the allowance it needs however requests, refusals, unacknowledged
\* calls and crashes interleave; and every stake on record has such a deposit.
\* (The deposit uses nonce + 1 without asking the node again.)
DepositsBacked ==
  ~replaced =>
    /\ \A n \in Nonces : slot[n].kind = "deposit" =>
         n > 0 /\ Sent(n - 1, "approve", slot[n].by)
    /\ \A r \in Stakes : \E n \in Nonces : Sent(n, "deposit", r)

\* The nonces in use have no gap: a transaction of the platform account never waits
\* for one that nobody is going to send, even when a request dies between its
\* approval and its deposit.
NoNonceGap == \A n \in Nonces : slot[n] # NoTx => \A m \in 0..n : slot[m] # NoTx

\* When no update is under way, the rows of a wallet add up to its stakes on record
\* less those the listener saw withdrawn, unless two updates raced or one failed:
\* updateUserScore reads and saves without a lock, next to the listener's upserts.
TotalsMatchRecords ==
  \A w \in Wallets :
    /\ w \notin raced
    /\ \A r \in Requests : scorer[r].pc = "idle" \/ req[r].wallet # w
    /\ \A r \in unscored : req[r].wallet # w
    => UNION {rows[i].stakes : i \in RowsOf(w)}
       = {s \in StakeRecords(w) : s \in Directs => direct[s].pc = "staked"}

-----------------------------------------------------------------------------
(***************************************************************************)
(* What the repository says and the code does not do.                      *)
(***************************************************************************)

\* The comments of GetStakeOverview ("count the stake records that have not been
\* withdrawn"): the active stakes are the ones that were not withdrawn.
ActiveMeansNotWithdrawn ==
  \A w \in Wallets :
    ActiveStakes(w) = {s \in StakeRecords(w) : ~ReallyWithdrawn(s)}
=============================================================================
