------------------------------ MODULE StakeProofs ------------------------------
(***************************************************************************)
(* Theorems about Stake, for every value of its constants: any number of   *)
(* concurrent requests, any wallets, tokens, amounts and gas prices, any   *)
(* number of crashes and faults.                                           *)
(***************************************************************************)
EXTENDS Stake, FiniteSetTheorems, TLAPS

USE DEF StakeConstantsOK

Stakers == Requests \cup Directs

StakeReq ==
  [pc : {"nonce", "approve", "deposit", "record", "done", "failed"}, kind : {"stake"},
   wallet : Wallets, token : Tokens, amount : Amounts, nonce : Nonces, price : Nat]
WithdrawReq ==
  [pc : {"nonce", "withdraw", "record", "done", "failed"}, kind : {"withdraw"}, of : Stakers,
   wallet : Wallets, token : Tokens, amount : Amounts, nonce : Nonces, price : Nat]
Tx     == [kind : {"approve", "deposit", "withdraw"}, by : Requests, price : Prices]
Score  == [pc : {"begun"}] \cup [pc : {"read"}, row : Nat, stakes : SUBSET Stakers]
Direct == [pc : {"staked", "withdrawn"}, wallet : Wallets, token : Tokens, amount : Amounts]
Row    == [wallet : Wallets, token : Tokens, stakes : SUBSET Stakers]

\* The node and the requests.
NodeInv == slot \in [Nonces -> {NoTx} \cup Tx] /\ mined \in Nonces /\ replaced \in BOOLEAN

ReqTyped == req \in [Requests -> {Waiting} \cup StakeReq \cup WithdrawReq]

ReqInv ==
  /\ ReqTyped
  /\ \A r \in Requests : Sending(r) => req[r].price \in Prices

\* The tables and the updates of scores, which only a stake on record gets.
TableInv ==
  /\ scorer \in [Requests -> {Idle} \cup Score]
  /\ \A r \in Requests : scorer[r].pc # "idle" => r \in records /\ req[r].kind = "stake"
  /\ records \subseteq Requests /\ \A r \in records : req[r].pc = "done"
  /\ direct \in [Directs -> {Unknown} \cup Direct]
  /\ raced \subseteq Wallets /\ unscored \subseteq records
  /\ crashes \in 0..MaxCrashes /\ faults \in 0..MaxFaults

\* One row for each wallet and token.
RowsInv ==
  /\ rows \in Seq(Row)
  /\ \A i, j \in DOMAIN rows :
       rows[i].wallet = rows[j].wallet /\ rows[i].token = rows[j].token => i = j
  /\ \A r \in Requests : scorer[r].pc = "read" /\ scorer[r].row # 0 =>
       scorer[r].row \in RowsOf(req[r].wallet)

TypeInv == NodeInv /\ ReqInv /\ TableInv /\ RowsInv

Used(n) == slot[n] # NoTx

\* A request sends each kind of transaction at most once, and the kinds it has: what
\* it has still to send is not in a slot.
SentOnce ==
  /\ \A n \in Nonces : Used(n) =>
       /\ req[slot[n].by].pc \notin {"waiting", "nonce", "approve", "withdraw"}
       /\ slot[n].kind = "withdraw" <=> req[slot[n].by].kind = "withdraw"
       /\ slot[n].kind = "deposit" => req[slot[n].by].pc # "deposit"
  /\ \A n, m \in Nonces :
       Used(n) /\ Used(m) /\ slot[n].by = slot[m].by /\ slot[n].kind = slot[m].kind => n = m

\* Every nonce below the one that a request sends with is in use.
NoncesFilled ==
  /\ NoNonceGap
  /\ \A r \in Requests : Sending(r) => \A m \in Nonces : m < NonceOf(r) => Used(m)

NonceInv == SentOnce /\ NoncesFilled

\* A request at its deposit has its approval in a slot, one that is past it the deposit.
Backed ==
  /\ \A n \in Nonces : slot[n].kind = "deposit" =>
       n > 0 /\ Sent(n - 1, "approve", slot[n].by)
  /\ \A r \in Requests : req[r].pc = "deposit" => Sent(req[r].nonce, "approve", r)
  /\ \A r \in Requests : req[r].pc \in {"record", "done"} /\ req[r].kind = "stake" =>
       \E n \in Nonces : Sent(n, "deposit", r)

\* Wallets without a race or a lost update.
Clean(w) == w \notin raced /\ \A r \in unscored : req[r].wallet # w

\* The stakes of a wallet that the updates so far have added to its rows.
Added(w) == {s \in StakeRecords(w) : /\ s \in Directs => direct[s].pc = "staked"
                                     /\ s \in Requests => scorer[s].pc = "idle"}
First(S) == CHOOSE i \in S : \A j \in S : i <= j

\* The rows of such a wallet hold those stakes, a direct one in the row of its token,
RowsAddUp(w) ==
  /\ \A i \in RowsOf(w) : rows[i].stakes \subseteq Added(w)
  /\ \A s \in Added(w) : \E i \in RowsOf(w) : s \in rows[i].stakes
  /\ \A i \in RowsOf(w) : \A d \in rows[i].stakes \cap Directs : rows[i].token = direct[d].token

\* and an update under way has read what the row still says.
HasRead(row, stakes, w) ==
  \/ RowsOf(w) = {} /\ row = 0 /\ stakes = {}
  \/ /\ RowsOf(w) # {} /\ row = First(RowsOf(w))
     /\ stakes = rows[First(RowsOf(w))].stakes

ReadersCurrent(w) ==
  \A r \in Requests : scorer[r].pc = "read" /\ req[r].wallet = w =>
    HasRead(scorer[r].row, scorer[r].stakes, w)

WalletInv(w) == RowsAddUp(w) /\ ReadersCurrent(w)

TotalsInv == \A w \in Wallets : Clean(w) => WalletInv(w)

Inv == TypeInv /\ NonceInv /\ (~replaced => Backed) /\ TotalsInv

-----------------------------------------------------------------------------
(***************************************************************************)
(* Requests.                                                               *)
(***************************************************************************)

\* Only request r changes.
Others(r) == req' = [q \in Requests |-> IF q = r THEN req'[r] ELSE req[q]]

\* Request r goes to pc with nonce n and price p, and keeps what it is about.
Moves(r, pc, n, p) ==
  /\ Others(r)
  /\ req'[r].pc = pc /\ req'[r].nonce = n /\ req'[r].price = p
  /\ UNCHANGED <<req[r].kind, req[r].wallet, req[r].token, req[r].amount>>

LEMMA StartedFields ==
  ASSUME ReqInv, NEW r \in Requests
  PROVE  /\ req[r] = Waiting \/ req[r] \in StakeReq \/ req[r] \in WithdrawReq
         /\ req[r].pc = "waiting" <=> req[r] = Waiting
         /\ req[r].pc # "waiting" =>
              /\ req[r].kind \in {"stake", "withdraw"} /\ req[r].wallet \in Wallets
              /\ req[r].token \in Tokens /\ req[r].amount \in Amounts
              /\ req[r].nonce \in Nonces /\ req[r].price \in Nat
              /\ req[r].kind = "stake" => req[r] \in StakeReq
              /\ req[r].kind = "withdraw" => req[r] \in WithdrawReq
<1>1. req[r] = Waiting \/ req[r] \in StakeReq \/ req[r] \in WithdrawReq
  BY DEF ReqInv, ReqTyped
<1>2. Waiting.pc = "waiting"
  BY DEF Waiting
<1> HIDE DEF Waiting
<1>3. CASE req[r] \in StakeReq
  BY <1>2, <1>3 DEF StakeReq
<1>4. CASE req[r] \in WithdrawReq
  BY <1>2, <1>4 DEF WithdrawReq
<1>5. QED
  BY <1>1, <1>2, <1>3, <1>4

LEMMA FieldsSet ==
  ASSUME ReqInv, NEW r \in Requests, req[r].pc # "waiting", NEW pc, NEW n, NEW p,
         req' = [req EXCEPT ![r].pc = pc, ![r].nonce = n, ![r].price = p]
  PROVE  /\ Moves(r, pc, n, p)
         /\ n \in Nonces /\ p \in Nat =>
              /\ req[r].kind = "stake"
                   /\ pc \in {"nonce", "approve", "deposit", "record", "done", "failed"}
                 => req'[r] \in StakeReq
              /\ req[r].kind = "withdraw"
                   /\ pc \in {"nonce", "withdraw", "record", "done", "failed"}
                 => req'[r] \in WithdrawReq
<1>1. DOMAIN req = Requests
  BY DEF ReqInv, ReqTyped
<1>2. CASE req[r].kind = "stake"
  <2>1. req[r] \in StakeReq
    BY <1>2, StartedFields
  <2>2. Moves(r, pc, n, p)
    BY <1>1, <2>1 DEF StakeReq, Moves, Others
  <2>3. ASSUME n \in Nonces, p \in Nat,
               pc \in {"nonce", "approve", "deposit", "record", "done", "failed"}
        PROVE  req'[r] \in StakeReq
    BY <1>1, <2>1, <2>3 DEF StakeReq
  <2>4. QED
    BY <1>2, <2>2, <2>3
<1>3. CASE req[r].kind = "withdraw"
  <2>1. req[r] \in WithdrawReq
    BY <1>3, StartedFields
  <2>2. Moves(r, pc, n, p)
    BY <1>1, <2>1 DEF WithdrawReq, Moves, Others
  <2>3. ASSUME n \in Nonces, p \in Nat,
               pc \in {"nonce", "withdraw", "record", "done", "failed"}
        PROVE  req'[r] \in WithdrawReq
    BY <1>1, <2>1, <2>3 DEF WithdrawReq
  <2>4. QED
    BY <1>3, <2>2, <2>3
<1>4. QED
  BY <1>2, <1>3, StartedFields

LEMMA PcSet ==
  ASSUME ReqInv, NEW r \in Requests, req[r].pc # "waiting", NEW pc,
         req' = [req EXCEPT ![r].pc = pc]
  PROVE  /\ Moves(r, pc, req[r].nonce, req[r].price)
         /\ req[r].kind = "stake"
              /\ pc \in {"nonce", "approve", "deposit", "record", "done", "failed"}
            => req'[r] \in StakeReq
         /\ req[r].kind = "withdraw" /\ pc \in {"nonce", "withdraw", "record", "done", "failed"}
            => req'[r] \in WithdrawReq
<1>1. DOMAIN req = Requests
  BY DEF ReqInv, ReqTyped
<1>2. CASE req[r].kind = "stake"
  <2>1. req[r] \in StakeReq
    BY <1>2, StartedFields
  <2>2. Moves(r, pc, req[r].nonce, req[r].price)
    BY <1>1, <2>1 DEF StakeReq, Moves, Others
  <2>3. ASSUME pc \in {"nonce", "approve", "deposit", "record", "done", "failed"}
        PROVE  req'[r] \in StakeReq
    BY <1>1, <2>1, <2>3 DEF StakeReq
  <2>4. QED
    BY <1>2, <2>2, <2>3
<1>3. CASE req[r].kind = "withdraw"
  <2>1. req[r] \in WithdrawReq
    BY <1>3, StartedFields
  <2>2. Moves(r, pc, req[r].nonce, req[r].price)
    BY <1>1, <2>1 DEF WithdrawReq, Moves, Others
  <2>3. ASSUME pc \in {"nonce", "withdraw", "record", "done", "failed"}
        PROVE  req'[r] \in WithdrawReq
    BY <1>1, <2>1, <2>3 DEF WithdrawReq
  <2>4. QED
    BY <1>3, <2>2, <2>3
<1>4. QED
  BY <1>2, <1>3, StartedFields

\* The kind of a request and where it is.
LEMMA PcKinds ==
  ASSUME ReqInv, NEW r \in Requests
  PROVE  /\ req[r].pc \in {"approve", "deposit"} => req[r].kind = "stake"
         /\ req[r].pc = "withdraw" => req[r].kind = "withdraw"
         /\ req[r].pc \in {"waiting", "nonce", "approve", "deposit", "withdraw", "record", "done",
                           "failed"}
<1>1. req[r] = Waiting \/ req[r] \in StakeReq \/ req[r] \in WithdrawReq
  BY StartedFields
<1>2. QED
  BY <1>1 DEF Waiting, StakeReq, WithdrawReq

\* The ways in which a step changes the requests and the slots.
SameSlots == slot' = slot /\ replaced' = replaced

Begun(r) == /\ req[r].pc = "waiting" /\ req'[r].pc = "nonce" /\ Others(r)
            /\ SameSlots

Priced(r) == /\ req[r].pc = "nonce"
             /\ \E p \in Prices : Moves(r, IF req[r].kind = "stake" THEN "approve"
                   ELSE "withdraw",
                                        PendingNonce, p)
             /\ SameSlots

Submitted(r) == /\ Sending(r) /\ Accepts(r, NonceOf(r)) /\ Submit(r, NonceOf(r), req[r].pc)
                /\ \/ Moves(r, AfterSend(r), req[r].nonce, req[r].price)
                   \/ Moves(r, "failed", 0, 0)

Ended(r) == /\ Sending(r) \/ req[r].pc = "record"
            /\ Moves(r, "failed", 0, 0) \/ (req[r].pc = "record" /\ Moves(r, "done", 0, 0))
            /\ SameSlots

AllLost ==
  /\ \A r \in Requests :
       /\ req[r].pc \in {"waiting", "done"} => req'[r] = req[r]
       /\ req[r].pc \notin {"waiting", "done"} =>
            /\ req'[r].pc = "failed" /\ req'[r].nonce = 0
            /\ UNCHANGED <<req[r].kind, req[r].wallet, req[r].token, req[r].amount>>
  /\ SameSlots

RequestsMove ==
  \/ req' = req /\ SameSlots
  \/ \E r \in Requests : Begun(r) \/ Priced(r) \/ Submitted(r) \/ Ended(r)
  \/ AllLost

LEMMA NoncesHaveZero == 0 \in Nonces /\ Nonces \subseteq Nat
<1>1. Cardinality(Requests) \in Nat
  BY StakeConstantsOK, FS_CardinalityType
<1>2. QED
  BY <1>1 DEF Nonces

LEMMA OthersKept ==
  ASSUME NEW r \in Requests, Others(r)
  PROVE  DOMAIN req' = Requests /\ \A q \in Requests : q # r => req'[q] = req[q]
BY DEF Others

\* One request that is typed keeps all of them typed.
LEMMA OneRequest ==
  ASSUME ReqInv, NEW r \in Requests, Others(r), req'[r] \in StakeReq \cup WithdrawReq,
         Sending(r)' => req'[r].price \in Prices
  PROVE  ReqInv'
<1>1. req \in [Requests -> {Waiting} \cup StakeReq \cup WithdrawReq]
  BY DEF ReqInv, ReqTyped
<1> HIDE DEF StakeReq, WithdrawReq, Waiting
<1>2. ReqTyped'
  BY <1>1 DEF ReqTyped, Others
<1>3. \A q \in Requests : q # r => req'[q] = req[q]
  BY OthersKept
<1>4. \A q \in Requests : Sending(q)' => req'[q].price \in Prices
  BY <1>3 DEF ReqInv, Sending
<1>5. QED
  BY <1>2, <1>4 DEF ReqInv

-----------------------------------------------------------------------------
(***************************************************************************)
(* There are always nonces left: a request uses at most two.               *)
(***************************************************************************)
UsedNonces == {n \in Nonces : Used(n)}

LEMMA NoncesFinite ==
  /\ Cardinality(Requests) \in Nat /\ IsFiniteSet(Nonces)
  /\ Cardinality(Nonces) = 2 * Cardinality(Requests) + 1
<1>1. Cardinality(Requests) \in Nat
  BY StakeConstantsOK, FS_CardinalityType
<1> DEFINE top == 2 * Cardinality(Requests)
<1>2. top \in Nat
  BY <1>1
<1> HIDE DEF top
<1>3. IsFiniteSet(0..top) /\ Cardinality(0..top) = top - 0 + 1
  BY <1>2, FS_Interval
<1>4. QED
  BY <1>1, <1>2, <1>3 DEF Nonces, top

LEMMA FewNoncesUsed ==
  ASSUME NodeInv, ReqInv, SentOnce
  PROVE  /\ IsFiniteSet(UsedNonces)
         /\ Cardinality(UsedNonces) <= 2 * Cardinality(Requests)
<1> DEFINE Second == {n \in UsedNonces : slot[n].kind = "deposit"}
           First1 == {n \in UsedNonces : slot[n].kind # "deposit"}
           by1 == [n \in First1 |-> slot[n].by]
           by2 == [n \in Second |-> slot[n].by]
<1>1. \A n \in UsedNonces :
        slot[n].by \in Requests /\ slot[n].kind \in {"approve", "deposit", "withdraw"}
  BY DEF UsedNonces, Used, NodeInv, Tx
<1>2. by2 \in Injection(Second, Requests)
  <2>1. by2 \in [Second -> Requests]
    BY <1>1
  <2>2. \A n, m \in Second : by2[n] = by2[m] => n = m
    BY DEF SentOnce, UsedNonces
  <2>3. QED
    BY <2>1, <2>2 DEF Injection, IsInjective
<1>3. by1 \in Injection(First1, Requests)
  <2>1. by1 \in [First1 -> Requests]
    BY <1>1
  <2>2. ASSUME NEW n \in First1, NEW m \in First1, by1[n] = by1[m]
        PROVE  n = m
    <3>1. Used(n) /\ Used(m) /\ n \in Nonces /\ m \in Nonces /\ slot[n].by = slot[m].by
      BY <2>2 DEF UsedNonces
    <3>2. slot[n].kind \in {"approve", "withdraw"} /\ slot[m].kind \in {"approve", "withdraw"}
      BY <1>1
    <3>3. slot[n].kind = slot[m].kind
      BY <3>1, <3>2 DEF SentOnce
    <3>4. QED
      BY <3>1, <3>3 DEF SentOnce
  <2>3. QED
    BY <2>1, <2>2 DEF Injection, IsInjective
<1> HIDE DEF by1, by2
<1>4. /\ IsFiniteSet(First1) /\ Cardinality(First1) <= Cardinality(Requests)
      /\ IsFiniteSet(Second) /\ Cardinality(Second) <= Cardinality(Requests)
  BY <1>2, <1>3, StakeConstantsOK, FS_Injection
<1>5. UsedNonces = First1 \cup Second /\ First1 \cap Second = {}
  OBVIOUS
<1> HIDE DEF First1, Second
<1>6. /\ IsFiniteSet(First1 \cup Second)
      /\ Cardinality(First1 \cup Second)
           = Cardinality(First1) + Cardinality(Second) - Cardinality(First1 \cap Second)
  BY <1>4, FS_Union
<1>7. /\ Cardinality(First1) \in Nat /\ Cardinality(Second) \in Nat
      /\ Cardinality(Requests) \in Nat /\ Cardinality({}) = 0
  BY <1>4, StakeConstantsOK, FS_CardinalityType, FS_EmptySet
<1>8. /\ IsFiniteSet(UsedNonces)
      /\ Cardinality(UsedNonces) = Cardinality(First1) + Cardinality(Second) - 0
  BY <1>5, <1>6, <1>7
<1>9. QED
  BY <1>4, <1>7, <1>8

\* The nonce after a run of used ones is in range.
LEMMA NextNonceFits ==
  ASSUME NodeInv, ReqInv, SentOnce, NEW n \in Nonces, \A m \in 0..n : Used(m)
  PROVE  n + 1 \in Nonces
<1>1. n \in Nat /\ n <= 2 * Cardinality(Requests) /\ Cardinality(Requests) \in Nat
  BY NoncesFinite DEF Nonces
<1>2. 0..n \subseteq UsedNonces
  BY <1>1 DEF UsedNonces, Nonces
<1>3. IsFiniteSet(UsedNonces) /\ Cardinality(UsedNonces) <= 2 * Cardinality(Requests)
  BY FewNoncesUsed
<1>4. Cardinality(0..n) <= Cardinality(UsedNonces)
  BY <1>2, <1>3, FS_Subset
<1>5. Cardinality(0..n) = n - 0 + 1
  BY <1>1, FS_Interval
<1>6. Cardinality(UsedNonces) \in Nat
  BY <1>3, FS_CardinalityType
<1>7. QED
  BY <1>1, <1>3, <1>4, <1>5, <1>6 DEF Nonces

\* PendingNonceAt answers with a free nonce, and all below it are in use.
LEMMA PendingIsFree ==
  ASSUME NodeInv, ReqInv, SentOnce
  PROVE  /\ PendingNonce \in Nonces /\ ~Used(PendingNonce)
         /\ \A m \in Nonces : m < PendingNonce => Used(m)
<1> DEFINE Free == {n \in Nonces : ~Used(n)}
<1>1. Free # {}
  <2> SUFFICES ASSUME Free = {} PROVE FALSE
    OBVIOUS
  <2>1. UsedNonces = Nonces
    BY DEF UsedNonces
  <2>2. QED
    BY <2>1, FewNoncesUsed, NoncesFinite
<1>2. Free \subseteq Nat
  BY NoncesHaveZero
<1>3. IsWellFoundedOn(OpToRel(<, Nat), Nat)
  BY NatLessThanWellFounded
<1> HIDE DEF Free
<1>4. PICK n \in Free : \A m \in Free : ~ (<<m, n>> \in OpToRel(<, Nat))
  BY <1>1, <1>2, <1>3, WFMin
<1>5. \A m \in Free : ~ (m < n)
  BY <1>2, <1>4 DEF OpToRel
<1>6. n \in Nonces /\ slot[n] = NoTx /\ \A m \in Nonces : m < n => slot[m] # NoTx
  BY <1>5 DEF Free, Used
<1>7. PendingNonce \in Nonces /\ slot[PendingNonce] = NoTx
      /\ \A m \in Nonces : m < PendingNonce => slot[m] # NoTx
  BY <1>6 DEF PendingNonce
<1>8. QED
  BY <1>7 DEF Used

-----------------------------------------------------------------------------
(***************************************************************************)
(* How a step changes the requests.                                        *)
(***************************************************************************)

\* A stake on record has the parameters of a stake.
LEMMA StakedFields ==
  ASSUME ReqInv, TableInv, NEW s \in Staked
  PROVE  /\ s \in Stakers /\ WalletOf(s) \in Wallets
         /\ TokenOf(s) \in Tokens /\ AmountOf(s) \in Amounts
<1>1. CASE s \in Stakes
  <2>1. s \in Requests /\ req[s].pc # "waiting"
    BY <1>1 DEF Stakes, Staking, Started
  <2>2. /\ req[s].wallet \in Wallets /\ req[s].token \in Tokens
        /\ req[s].amount \in Amounts
    BY <2>1, StartedFields
  <2>3. QED
    BY <2>1, <2>2 DEF WalletOf, TokenOf, AmountOf, Stakers
<1>2. CASE s \in Directs /\ direct[s].pc # "unknown"
  <2>1. direct[s] \in Direct
    BY <1>2 DEF TableInv, Unknown
  <2>2. s \notin Requests
    BY <1>2, StakeConstantsOK
  <2>3. QED
    BY <1>2, <2>1, <2>2 DEF WalletOf, TokenOf, AmountOf, Stakers, Direct
<1>3. QED
  BY <1>1, <1>2 DEF Staked

LEMMA BeginStep ==
  ASSUME TypeInv, NEW r \in Requests, Begin(r)
  PROVE  ReqInv' /\ Begun(r)
<1>1. DOMAIN req = Requests /\ ReqInv /\ TableInv
  BY DEF TypeInv, ReqInv, ReqTyped
<1>2. 0 \in Nonces
  BY NoncesHaveZero
<1>3. CASE \E w \in Wallets, t \in Tokens, amount \in Amounts : BeginStake(r, w, t, amount)
  <2>1. PICK w \in Wallets, t \in Tokens, amount \in Amounts : BeginStake(r, w, t, amount)
    BY <1>3
  <2>2. req'[r] \in StakeReq /\ req'[r].pc = "nonce"
    BY <1>1, <1>2, <2>1 DEF BeginStake, StakeReq
  <2>3. Others(r)
    BY <1>1, <2>1 DEF BeginStake, Others
  <2>4. ReqInv'
    BY <1>1, <2>2, <2>3, OneRequest DEF Sending
  <2>5. QED
    BY <2>1, <2>2, <2>3, <2>4 DEF BeginStake, Begun, SameSlots, nodeVars
<1>4. CASE \E stake \in Staked : BeginWithdraw(r, stake)
  <2>1. PICK stake \in Staked : BeginWithdraw(r, stake)
    BY <1>4
  <2> DEFINE w == WalletOf(stake)
             t == TokenOf(stake)
             amount == AmountOf(stake)
  <2>2. stake \in Stakers /\ w \in Wallets /\ t \in Tokens /\ amount \in Amounts
    BY <1>1, StakedFields
  <2>3. req[r].pc = "waiting" /\ SameSlots
    BY <2>1 DEF BeginWithdraw, SameSlots, nodeVars
  <2>4. req' = [req EXCEPT ![r] = [pc |-> "nonce", kind |-> "withdraw", of |-> stake,
                  wallet |-> w, token |-> t, amount |-> amount, nonce |-> 0, price |-> 0]]
    BY <2>1 DEF BeginWithdraw
  <2> HIDE DEF w, t, amount
  <2>5. req'[r] \in WithdrawReq /\ req'[r].pc = "nonce"
    BY <1>1, <1>2, <2>2, <2>4 DEF WithdrawReq
  <2>6. Others(r)
    BY <1>1, <2>4 DEF Others
  <2>7. ReqInv'
    BY <1>1, <2>5, <2>6, OneRequest DEF Sending
  <2>8. QED
    BY <2>3, <2>5, <2>6, <2>7 DEF Begun
<1>5. QED
  BY <1>3, <1>4 DEF Begin

\* A request that ends.
LEMMA EndStep ==
  ASSUME TypeInv, NEW r \in Requests, req[r].pc # "waiting", NEW pc \in {"done", "failed"},
         End(r, pc)
  PROVE  ReqInv' /\ Moves(r, pc, 0, 0)
<1>1. ReqInv /\ req[r].kind \in {"stake", "withdraw"}
  BY StartedFields DEF TypeInv
<1>2. req' = [req EXCEPT ![r].pc = pc, ![r].nonce = 0, ![r].price = 0]
  BY DEF End
<1>3. 0 \in Nonces /\ 0 \in Nat
  BY NoncesHaveZero
<1>4. Moves(r, pc, 0, 0) /\ req'[r] \in StakeReq \cup WithdrawReq
  BY <1>1, <1>2, <1>3, FieldsSet
<1>5. ReqInv'
  BY <1>1, <1>4, OneRequest DEF Moves, Sending
<1>6. QED
  BY <1>4, <1>5

LEMMA GetNonceStep ==
  ASSUME TypeInv, SentOnce, NEW r \in Requests, GetNonce(r)
  PROVE  ReqInv' /\ Priced(r)
<1> DEFINE pc == IF req[r].kind = "stake" THEN "approve" ELSE "withdraw"
<1>1. PICK p \in Prices :
        req' = [req EXCEPT ![r].pc = pc, ![r].nonce = PendingNonce, ![r].price = p]
  BY DEF GetNonce
<1>2. ReqInv /\ req[r].pc = "nonce" /\ SameSlots
  BY DEF GetNonce, TypeInv, SameSlots, nodeVars
<1>3. PendingNonce \in Nonces /\ p \in Nat /\ req[r].kind \in {"stake", "withdraw"}
  BY <1>2, StartedFields, PendingIsFree, StakeConstantsOK DEF TypeInv
<1>4. /\ req[r].kind = "stake" => pc = "approve"
      /\ req[r].kind = "withdraw" => pc = "withdraw"
  OBVIOUS
<1> PICK target : target = pc
  OBVIOUS
<1>5. /\ req' = [req EXCEPT ![r].pc = target, ![r].nonce = PendingNonce, ![r].price = p]
      /\ req[r].kind = "stake" => target = "approve"
      /\ req[r].kind = "withdraw" => target = "withdraw"
  BY <1>1, <1>4
<1> HIDE DEF pc
<1> PICK n : n = PendingNonce
  OBVIOUS
<1>6. Moves(r, target, n, p) /\ req'[r] \in StakeReq \cup WithdrawReq
  BY <1>2, <1>3, <1>5, FieldsSet
<1>7. req'[r].price = p /\ Others(r)
  BY <1>6 DEF Moves
<1>8. ReqInv'
  BY <1>2, <1>6, <1>7, OneRequest DEF Sending
<1>9. Priced(r)
  BY <1>2, <1>6 DEF Priced, pc
<1>10. QED
  BY <1>8, <1>9

LEMMA SendStep ==
  ASSUME TypeInv, NEW r \in Requests, Send(r)
  PROVE  ReqInv' /\ Submitted(r)
<1>1. ReqInv /\ Sending(r)
  BY DEF TypeInv, Send
<1>2. req[r].pc \in {"approve", "deposit", "withdraw"} /\ req[r].price \in Prices
  BY <1>1 DEF Sending, ReqInv
<1> PICK pc : pc = AfterSend(r)
  OBVIOUS
<1>3. req' = [req EXCEPT ![r].pc = pc]
  BY DEF Send, Goto
<1>4. /\ req[r].kind = "stake" => pc \in {"deposit", "record"}
      /\ req[r].kind = "withdraw" => pc = "record"
  BY <1>1, <1>2, PcKinds DEF AfterSend
<1>5. req[r].kind \in {"stake", "withdraw"}
  BY <1>1, <1>2, StartedFields
<1>6. Moves(r, pc, req[r].nonce, req[r].price) /\ req'[r] \in StakeReq \cup WithdrawReq
  BY <1>1, <1>2, <1>3, <1>4, <1>5, PcSet
<1>7. Others(r) /\ req'[r].price \in Prices
  BY <1>2, <1>6 DEF Moves
<1>8. ReqInv'
  BY <1>1, <1>6, <1>7, OneRequest
<1>9. QED
  BY <1>1, <1>6, <1>8 DEF Send, Submitted

LEMMA ReqSame ==
  ASSUME ReqInv, req' = req
  PROVE  ReqInv'
BY DEF ReqInv, ReqTyped, Sending

LEMMA CrashStep ==
  ASSUME TypeInv, Crash
  PROVE  ReqInv' /\ AllLost
<1>1. ReqInv /\ SameSlots
  BY DEF TypeInv, Crash, SameSlots, nodeVars
<1>2. 0 \in Nonces
  BY NoncesHaveZero
<1>3. /\ DOMAIN req' = Requests
      /\ \A r \in Requests : req'[r] =
           IF r \in Started /\ req[r].pc # "done"
           THEN [req[r] EXCEPT !.pc = "failed", !.nonce = 0, !.price = 0]
           ELSE req[r]
      /\ req' = [r \in Requests |-> req'[r]]
  BY DEF Crash
<1>4. \A r \in Requests : req[r].pc \in {"waiting", "done"} => req'[r] = req[r]
  BY <1>3 DEF Started
<1>5. ASSUME NEW r \in Requests, req[r].pc \notin {"waiting", "done"}
      PROVE  /\ req'[r].pc = "failed" /\ req'[r].nonce = 0
             /\ UNCHANGED <<req[r].kind, req[r].wallet, req[r].token, req[r].amount>>
             /\ req'[r] \in StakeReq \cup WithdrawReq
  <2>1. req'[r] = [req[r] EXCEPT !.pc = "failed", !.nonce = 0, !.price = 0]
    BY <1>3, <1>5 DEF Started
  <2> PICK q : q = req[r]
    OBVIOUS
  <2> PICK last : last = [q EXCEPT !.pc = "failed", !.nonce = 0, !.price = 0]
    OBVIOUS
  <2>2. CASE q \in StakeReq
    <3>1. last \in StakeReq /\ last.pc = "failed" /\ last.nonce = 0
      BY <1>2, <2>2 DEF StakeReq
    <3>2. /\ last.kind = q.kind /\ last.wallet = q.wallet
          /\ last.token = q.token /\ last.amount = q.amount
      BY <2>2 DEF StakeReq
    <3>3. QED
      BY <2>1, <3>1, <3>2
  <2>3. CASE q \in WithdrawReq
    <3>1. last \in WithdrawReq /\ last.pc = "failed" /\ last.nonce = 0
      BY <1>2, <2>3 DEF WithdrawReq
    <3>2. /\ last.kind = q.kind /\ last.wallet = q.wallet
          /\ last.token = q.token /\ last.amount = q.amount
      BY <2>3 DEF WithdrawReq
    <3>3. QED
      BY <2>1, <3>1, <3>2
  <2>4. QED
    BY <1>1, <1>5, <2>2, <2>3, StartedFields
<1>6. AllLost
  BY <1>1, <1>4, <1>5 DEF AllLost
<1>7. \A r \in Requests : req'[r] \in {Waiting} \cup StakeReq \cup WithdrawReq
  BY <1>1, <1>4, <1>5, StartedFields
<1>8. \A r \in Requests : ~Sending(r)'
  <2> SUFFICES ASSUME NEW r \in Requests PROVE req'[r].pc \notin {"approve", "deposit",
        "withdraw"}
    BY DEF Sending
  <2>1. QED
    BY <1>4, <1>5
<1>9. QED
  BY <1>3, <1>6, <1>7, <1>8 DEF ReqInv, ReqTyped

LEMMA ServeStep ==
  ASSUME TypeInv, SentOnce, NEW r \in Requests, Serve(r)
  PROVE  ReqInv' /\ RequestsMove
<1>1. CASE Begin(r)
  BY <1>1, BeginStep DEF RequestsMove
<1>2. CASE GetNonce(r)
  BY <1>2, GetNonceStep DEF RequestsMove
<1>3. CASE Send(r)
  BY <1>3, SendStep DEF RequestsMove
<1>4. CASE SendRefused(r)
  <2>1. Sending(r) /\ End(r, "failed") /\ SameSlots
    BY <1>4 DEF SendRefused, SameSlots, nodeVars
  <2>2. QED
    BY <2>1, EndStep DEF RequestsMove, Ended, Sending
<1>5. CASE SendFails(r)
  <2>1. Sending(r) /\ End(r, "failed")
    BY <1>5 DEF SendFails
  <2>2. ReqInv' /\ Moves(r, "failed", 0, 0)
    BY <2>1, EndStep DEF Sending
  <2>3. SameSlots \/ (Accepts(r, NonceOf(r)) /\ Submit(r, NonceOf(r), req[r].pc))
    BY <1>5 DEF SendFails, SameSlots, nodeVars
  <2>4. QED
    BY <2>1, <2>2, <2>3 DEF RequestsMove, Ended, Submitted, Sending
<1>6. CASE Record(r)
  <2>1. req[r].pc = "record" /\ End(r, "done") /\ SameSlots
    BY <1>6 DEF Record, SameSlots, nodeVars
  <2>2. QED
    BY <2>1, EndStep DEF RequestsMove, Ended
<1>7. CASE RecordFails(r)
  <2>1. req[r].pc = "record" /\ End(r, "failed") /\ SameSlots
    BY <1>7 DEF RecordFails, SameSlots, nodeVars
  <2>2. QED
    BY <2>1, EndStep DEF RequestsMove, Ended
<1>8. CASE ScoreRead(r) \/ ScoreWrite(r) \/ ScoreFails(r)
  <2>1. req' = req /\ SameSlots
    BY <1>8 DEF ScoreRead, ScoreWrite, ScoreFails, SameSlots, nodeVars
  <2>2. QED
    BY <2>1, ReqSame DEF RequestsMove, TypeInv
<1>9. QED
  BY <1>1, <1>2, <1>3, <1>4, <1>5, <1>6, <1>7, <1>8 DEF Serve

LEMMA ReqStep ==
  ASSUME TypeInv, NonceInv, [Next]_vars
  PROVE  ReqInv' /\ RequestsMove
<1>1. SentOnce /\ ReqInv
  BY DEF NonceInv, TypeInv
<1>2. CASE \E r \in Requests : Serve(r)
  BY <1>1, <1>2, ServeStep
<1>3. CASE Crash
  BY <1>3, CrashStep DEF RequestsMove
<1>4. CASE Mine \/ Listener \/ UNCHANGED vars
  <2>1. req' = req /\ SameSlots
    BY <1>4 DEF Mine, Listener, ListenerStake, ListenerWithdrawal, vars, SameSlots, nodeVars
  <2>2. QED
    BY <1>1, <2>1, ReqSame DEF RequestsMove
<1>5. QED
  BY <1>2, <1>3, <1>4 DEF Next

-----------------------------------------------------------------------------
(***************************************************************************)
(* Nonces.                                                                 *)
(***************************************************************************)

\* The nonce that a request sends with is in range.
LEMMA NonceFits ==
  ASSUME TypeInv, NonceInv, NEW r \in Requests, Sending(r)
  PROVE  /\ req[r].nonce \in Nonces /\ NonceOf(r) \in Nonces
         /\ req[r].pc = "deposit" => NonceOf(r) = req[r].nonce + 1
         /\ req[r].pc # "deposit" => NonceOf(r) = req[r].nonce
<1>1. NodeInv /\ ReqInv /\ SentOnce /\ NoncesFilled
  BY DEF TypeInv, NonceInv
<1>2. req[r].nonce \in Nonces
  BY <1>1, StartedFields DEF Sending
<1>3. CASE req[r].pc = "deposit"
  <2>1. NonceOf(r) = req[r].nonce + 1
    BY <1>3 DEF NonceOf, DepositNonce
  <2>2. \A m \in Nonces : m < req[r].nonce + 1 => Used(m)
    BY <1>1, <2>1 DEF NoncesFilled
  <2> PICK n \in Nonces : n = req[r].nonce
    BY <1>2
  <2>3. n \in Nat /\ n <= 2 * Cardinality(Requests) /\ Cardinality(Requests) \in Nat
    BY NoncesFinite DEF Nonces
  <2>4. \A m \in 0..n : m \in Nonces /\ m < n + 1
    BY <2>3 DEF Nonces
  <2>5. n + 1 \in Nonces
    BY <1>1, <2>2, <2>4, NextNonceFits
  <2>6. QED
    BY <1>2, <1>3, <2>1, <2>5
<1>4. CASE req[r].pc # "deposit"
  BY <1>2, <1>4 DEF NonceOf
<1>5. QED
  BY <1>3, <1>4

LEMMA MinedStep ==
  ASSUME [Next]_vars
  PROVE  mined' = mined \/ Mine
<1>1. CASE \E r \in Requests : Serve(r)
  BY <1>1 DEF Serve, Begin, BeginStake, BeginWithdraw, GetNonce, Send, SendRefused, SendFails,
    Submit, Record, RecordFails, ScoreRead, ScoreWrite, ScoreFails, nodeVars
<1>2. CASE Listener \/ Crash \/ UNCHANGED vars
  BY <1>2 DEF Listener, ListenerStake, ListenerWithdrawal, Crash, vars, nodeVars
<1>3. QED
  BY <1>1, <1>2 DEF Next

\* What an accepted transaction does to the slots.
LEMMA SlotTaken ==
  ASSUME TypeInv, NonceInv, NEW r \in Requests, Submitted(r)
  PROVE  /\ NonceOf(r) \in Nonces
         /\ slot'[NonceOf(r)] \in Tx /\ slot'[NonceOf(r)].by = r
         /\ slot'[NonceOf(r)].kind = req[r].pc /\ slot'[NonceOf(r)] # NoTx
         /\ \A n \in Nonces : n # NonceOf(r) => slot'[n] = slot[n]
         /\ slot' \in [Nonces -> {NoTx} \cup Tx]
         /\ replaced' = (replaced \/ Used(NonceOf(r)))
<1>1. Sending(r) /\ Submit(r, NonceOf(r), req[r].pc)
  BY DEF Submitted
<1>2. NonceOf(r) \in Nonces /\ slot \in [Nonces -> {NoTx} \cup Tx]
  BY <1>1, NonceFits DEF TypeInv, NodeInv
<1>3. req[r].price \in Prices /\ req[r].pc \in {"approve", "deposit", "withdraw"}
  BY <1>1 DEF TypeInv, ReqInv, Sending
<1> PICK k \in Nonces : k = NonceOf(r)
  BY <1>2
<1> DEFINE tx == [kind |-> req[r].pc, by |-> r, price |-> req[r].price]
<1>4. tx \in Tx /\ tx.by = r /\ tx.kind = req[r].pc /\ tx # NoTx
  BY <1>3 DEF Tx, NoTx
<1>5. slot' = [slot EXCEPT ![k] = tx] /\ replaced' = (replaced \/ slot[k] # NoTx)
  BY <1>1 DEF Submit
<1> HIDE DEF tx
<1>6. QED
  BY <1>2, <1>4, <1>5 DEF Used

LEMMA NodeStep ==
  ASSUME TypeInv, NonceInv, RequestsMove, [Next]_vars
  PROVE  NodeInv'
<1>1. NodeInv /\ ReqInv /\ SentOnce /\ NoNonceGap
  BY DEF TypeInv, NonceInv, NoncesFilled
<1>2. slot' \in [Nonces -> {NoTx} \cup Tx] /\ replaced' \in BOOLEAN
  <2>1. CASE SameSlots
    BY <1>1, <2>1 DEF SameSlots, NodeInv
  <2>2. CASE \E r \in Requests : Submitted(r)
    BY <1>1, <2>2, SlotTaken DEF NodeInv
  <2>3. QED
    BY <2>1, <2>2 DEF RequestsMove, Begun, Priced, Ended, AllLost
<1>3. mined' \in Nonces
  <2>1. CASE mined' = mined
    BY <1>1, <2>1 DEF NodeInv
  <2>2. CASE Mine
    <3>1. mined \in Nonces /\ Used(mined) /\ mined' = mined + 1
      BY <2>2 DEF Mine, Used
    <3>2. \A m \in 0..mined : Used(m)
      BY <1>1, <3>1 DEF NoNonceGap, Used
    <3> PICK n \in Nonces : n = mined
      BY <3>1
    <3>3. n + 1 \in Nonces
      BY <1>1, <3>2, NextNonceFits
    <3>4. QED
      BY <3>1, <3>3
  <2>3. QED
    BY <2>1, <2>2, MinedStep
<1>4. QED
  BY <1>2, <1>3 DEF NodeInv

LEMMA SentOnceStep ==
  ASSUME TypeInv, NonceInv, RequestsMove
  PROVE  SentOnce'
<1>1. SentOnce /\ ReqInv
  BY DEF TypeInv, NonceInv
<1>2. \A n \in Nonces : Used(n) => slot[n].by \in Requests
  BY DEF TypeInv, NodeInv, Tx, Used
<1>3. CASE req' = req /\ SameSlots
  BY <1>1, <1>3 DEF SentOnce, Used, SameSlots
<1>4. ASSUME NEW r \in Requests, Begun(r) \/ Priced(r)
      PROVE  SentOnce'
  <2>1. /\ req[r].pc \in {"waiting", "nonce"} /\ slot' = slot
        /\ \A q \in Requests : q # r => req'[q] = req[q]
    BY <1>4, OthersKept DEF Begun, Priced, Moves, SameSlots
  <2>2. \A n \in Nonces : Used(n) => slot[n].by # r
    BY <1>1, <2>1 DEF SentOnce
  <2>3. \A n \in Nonces : Used(n) => req'[slot[n].by] = req[slot[n].by]
    BY <1>2, <2>1, <2>2
  <2>4. QED
    BY <1>1, <2>1, <2>3 DEF SentOnce, Used
<1>5. ASSUME NEW r \in Requests, Submitted(r)
      PROVE  SentOnce'
  <2> PICK k \in Nonces : k = NonceOf(r)
    BY <1>5, SlotTaken
  <2>1. /\ slot'[k].by = r /\ slot'[k].kind = req[r].pc
        /\ \A n \in Nonces : n # k => slot'[n] = slot[n]
    BY <1>5, SlotTaken
  <2>2. req[r].pc \in {"approve", "deposit", "withdraw"}
    BY <1>5 DEF Submitted, Sending
  <2>3. /\ \A q \in Requests : q # r => req'[q] = req[q]
        /\ req'[r].kind = req[r].kind
        /\ req'[r].pc = AfterSend(r) \/ req'[r].pc = "failed"
    BY <1>5, OthersKept DEF Submitted, Moves
  <2>4. /\ req'[r].pc \in {"deposit", "record", "failed"}
        /\ req'[r].pc = "deposit" => req[r].pc = "approve"
    BY <2>2, <2>3 DEF AfterSend
  <2>5. \A n \in Nonces : Used(n) /\ slot[n].by = r =>
          req[r].pc = "deposit" /\ slot[n].kind # "deposit"
    BY <1>1, <2>2 DEF SentOnce
  <2>6. req[r].pc = "withdraw" <=> req[r].kind = "withdraw"
    BY <1>1, <2>2, PcKinds
  <2>7. ASSUME NEW n \in Nonces, Used(n)'
        PROVE  /\ req'[slot'[n].by].pc \notin {"waiting", "nonce", "approve", "withdraw"}
               /\ slot'[n].kind = "withdraw" <=> req'[slot'[n].by].kind = "withdraw"
               /\ slot'[n].kind = "deposit" => req'[slot'[n].by].pc # "deposit"
    <3>1. CASE n = k
      BY <2>1, <2>3, <2>4, <2>6, <3>1
    <3>2. CASE n # k
      <4>1. Used(n) /\ slot'[n] = slot[n]
        BY <2>1, <2>7, <3>2 DEF Used
      <4>2. CASE slot[n].by = r
        BY <1>1, <2>3, <2>4, <2>5, <4>1, <4>2 DEF SentOnce
      <4>3. CASE slot[n].by # r
        <5>1. req'[slot[n].by] = req[slot[n].by]
          BY <1>2, <2>3, <4>1, <4>3
        <5>2. QED
          BY <1>1, <4>1, <5>1 DEF SentOnce
      <4>4. QED
        BY <4>2, <4>3
    <3>3. QED
      BY <3>1, <3>2
  <2>8. ASSUME NEW n \in Nonces, NEW m \in Nonces, Used(n)', Used(m)',
               slot'[n].by = slot'[m].by, slot'[n].kind = slot'[m].kind
        PROVE  n = m
    <3>1. CASE n = k /\ m # k
      BY <2>1, <2>5, <2>8, <3>1 DEF Used
    <3>2. CASE m = k /\ n # k
      BY <2>1, <2>5, <2>8, <3>2 DEF Used
    <3>3. CASE m # k /\ n # k
      BY <1>1, <2>1, <2>8, <3>3 DEF SentOnce, Used
    <3>4. QED
      BY <3>1, <3>2, <3>3
  <2>9. QED
    BY <2>7, <2>8 DEF SentOnce
<1>6. CASE AllLost \/ \E r \in Requests : Ended(r)
  <2>1. /\ slot' = slot
        /\ \A q \in Requests : req'[q] = req[q] \/
             /\ req[q].pc \notin {"waiting", "done"} /\ req'[q].pc \in {"failed", "done"}
             /\ req'[q].kind = req[q].kind
    BY <1>6, OthersKept DEF AllLost, Ended, Moves, SameSlots, Sending
  <2>2. \A n \in Nonces : Used(n) =>
          /\ req'[slot[n].by].pc = req[slot[n].by].pc \/ req'[slot[n].by].pc \in {"failed",
                "done"}
          /\ req'[slot[n].by].kind = req[slot[n].by].kind
    BY <1>2, <2>1
  <2>3. QED
    BY <1>1, <2>1, <2>2 DEF SentOnce, Used
<1>7. QED
  BY <1>3, <1>4, <1>5, <1>6 DEF RequestsMove

\* A used nonce stays used.
LEMMA StaysUsed ==
  ASSUME TypeInv, NonceInv, RequestsMove
  PROVE  \A n \in Nonces : Used(n) => Used(n)'
<1>1. CASE SameSlots
  BY <1>1 DEF SameSlots, Used
<1>2. CASE \E r \in Requests : Submitted(r)
  BY <1>2, SlotTaken DEF Used
<1>3. QED
  BY <1>1, <1>2 DEF RequestsMove, Begun, Priced, Ended, AllLost

LEMMA NoncesFilledStep ==
  ASSUME TypeInv, NonceInv, RequestsMove, ReqInv'
  PROVE  NoncesFilled'
<1>1. NoncesFilled /\ SentOnce /\ NodeInv /\ ReqInv
  BY DEF TypeInv, NonceInv
<1>2. \A n \in Nonces : Used(n) => Used(n)'
  BY StaysUsed
<1>3. Nonces \subseteq Nat
  BY NoncesHaveZero
<1>4. NoNonceGap'
  <2>1. CASE SameSlots
    BY <1>1, <2>1 DEF SameSlots, NoncesFilled, NoNonceGap
  <2>2. ASSUME NEW r \in Requests, Submitted(r)
        PROVE  NoNonceGap'
    <3> PICK k \in Nonces : k = NonceOf(r)
      BY <2>2, SlotTaken
    <3>1. Used(k)' /\ \A n \in Nonces : n # k => slot'[n] = slot[n]
      BY <2>2, SlotTaken DEF Used
    <3>2. \A m \in Nonces : m < k => Used(m)
      BY <1>1, <2>2 DEF NoncesFilled, Submitted
    <3>3. ASSUME NEW n \in Nonces, Used(n)', NEW m \in 0..n
          PROVE  Used(m)'
      <4>1. m \in Nonces /\ n \in Nat /\ m \in Nat /\ k \in Nat
        BY <1>3, NoncesFinite DEF Nonces
      <4>2. CASE n = k
        BY <1>2, <3>1, <3>2, <4>1, <4>2
      <4>3. CASE n # k
        BY <1>1, <1>2, <3>1, <3>3, <4>1, <4>3 DEF NoncesFilled, NoNonceGap, Used
      <4>4. QED
        BY <4>2, <4>3
    <3>4. QED
      BY <3>3 DEF NoNonceGap, Used
  <2>3. QED
    BY <2>1, <2>2 DEF RequestsMove, Begun, Priced, Ended, AllLost
<1> DEFINE Below(r) == \A m \in Nonces : m < NonceOf(r) => Used(m)
<1>5. \A r \in Requests : Sending(r) => Below(r)
  BY <1>1 DEF NoncesFilled
<1>6. ASSUME NEW q \in Requests, Sending(q)', req'[q] = req[q]
      PROVE  Below(q)'
  <2>1. Sending(q) /\ NonceOf(q)' = NonceOf(q)
    BY <1>6 DEF Sending, NonceOf, DepositNonce
  <2>2. QED
    BY <1>2, <1>5, <2>1
<1>7. ASSUME NEW q \in Requests, Sending(q)', req'[q] # req[q]
      PROVE  Below(q)'
  <2>1. req'[q].pc \in {"approve", "deposit", "withdraw"}
    BY <1>7 DEF Sending
  <2>2. Priced(q) \/ Submitted(q)
    BY <1>7, <2>1, OthersKept DEF RequestsMove, Begun, Ended, Priced, Submitted, AllLost, Moves
  <2>3. CASE Priced(q)
    <3>1. /\ req'[q].nonce = PendingNonce
          /\ req'[q].pc = IF req[q].kind = "stake" THEN "approve" ELSE "withdraw"
      BY <2>3 DEF Priced, Moves
    <3>2. NonceOf(q)' = PendingNonce
      BY <3>1 DEF NonceOf
    <3>3. \A m \in Nonces : m < PendingNonce => Used(m)
      BY <1>1, PendingIsFree
    <3>4. QED
      BY <1>2, <3>2, <3>3
  <2>4. CASE Submitted(q)
    <3>1. Sending(q) /\ req'[q].nonce = req[q].nonce /\ req'[q].pc = AfterSend(q)
      BY <2>1, <2>4 DEF Submitted, Moves
    <3>2. req[q].pc = "approve" /\ req'[q].pc = "deposit"
      BY <2>1, <3>1 DEF AfterSend
    <3> PICK k \in Nonces : k = NonceOf(q)
      BY <2>4, SlotTaken
    <3>3. k = req[q].nonce
      BY <3>1, <3>2, NonceFits
    <3>4. NonceOf(q)' = req[q].nonce + 1
      BY <3>1, <3>2 DEF NonceOf, DepositNonce
    <3>5. NonceOf(q)' = k + 1
      BY <3>3, <3>4
    <3>6. \A m \in Nonces : m < k => Used(m)
      BY <1>5, <3>1
    <3>7. Used(k)'
      BY <2>4, SlotTaken DEF Used
    <3>8. \A m \in Nonces : m < k + 1 => m < k \/ m = k
      BY <1>3
    <3>9. QED
      BY <1>2, <3>5, <3>6, <3>7, <3>8
  <2>5. QED
    BY <2>2, <2>3, <2>4
<1>8. \A r \in Requests : Sending(r)' => Below(r)'
  BY <1>6, <1>7
<1>9. QED
  BY <1>4, <1>8 DEF NoncesFilled

LEMMA BackedStep ==
  ASSUME TypeInv, NonceInv, ~replaced => Backed, RequestsMove, ~replaced'
  PROVE  Backed'
<1>1. SentOnce /\ ReqInv /\ NodeInv
  BY DEF TypeInv, NonceInv
<1>2. ~replaced
  <2>1. CASE SameSlots
    BY <2>1 DEF SameSlots
  <2>2. CASE \E r \in Requests : Submitted(r)
    BY <2>2 DEF Submitted, Submit
  <2>3. QED
    BY <2>1, <2>2 DEF RequestsMove, Begun, Priced, Ended, AllLost
<1>3. Backed
  BY <1>2
<1>4. \A r \in Requests : req[r].pc = "deposit" =>
        req[r].nonce \in Nonces /\ Used(req[r].nonce)
  BY <1>3, NonceFits DEF Backed, Sent, Used, Sending
<1>5. ASSUME SameSlots,
             \A q \in Requests :
               \/ req'[q] = req[q]
               \/ req'[q].pc \notin {"deposit", "record", "done"}
               \/ req[q].pc = "record" /\ req'[q].pc = "done" /\ req'[q].kind = req[q].kind
      PROVE  Backed'
  <2>1. \A n, kind, q : Sent(n, kind, q)' = Sent(n, kind, q)
    BY <1>5 DEF Sent, SameSlots
  <2>2. slot' = slot
    BY <1>5 DEF SameSlots
  <2>3. \A r \in Requests : req'[r].pc = "deposit" => Sent(req'[r].nonce, "approve", r)
    BY <1>3, <1>5 DEF Backed
  <2>4. \A r \in Requests : req'[r].pc \in {"record", "done"} /\ req'[r].kind = "stake" =>
       \E n \in Nonces : Sent(n, "deposit", r)
    BY <1>3, <1>5 DEF Backed
  <2>5. QED
    BY <1>3, <2>1, <2>2, <2>3, <2>4 DEF Backed, Sent
<1>6. ASSUME NEW r \in Requests, Submitted(r)
      PROVE  Backed'
  <2> PICK k \in Nonces : k = NonceOf(r)
    BY <1>6, SlotTaken
  <2>1. /\ slot'[k].by = r /\ slot'[k].kind = req[r].pc /\ slot'[k] # NoTx
        /\ \A n \in Nonces : n # k => slot'[n] = slot[n]
        /\ ~Used(k)
    BY <1>6, SlotTaken
  <2>2. \A n \in Nonces : Used(n) => n # k /\ slot'[n] = slot[n]
    BY <2>1
  <2>3. \A n \in Nonces : \A kind, q : Sent(n, kind, q) => Sent(n, kind, q)'
    BY <2>2 DEF Sent, Used
  <2>4. /\ \A q \in Requests : q # r => req'[q] = req[q]
        /\ \/ req'[r].pc = AfterSend(r) /\ req'[r].nonce = req[r].nonce
           \/ req'[r].pc = "failed"
        /\ req'[r].kind = req[r].kind
        /\ Sending(r)
    BY <1>6, OthersKept DEF Submitted, Moves
  <2>5. ASSUME NEW n \in Nonces, slot'[n].kind = "deposit"
        PROVE  n > 0 /\ Sent(n - 1, "approve", slot[n].by)'
    <3>1. CASE n = k
      <4>1. req[r].pc = "deposit"
        BY <2>1, <2>5, <3>1
      <4>2. k = req[r].nonce + 1
        BY <2>4, <4>1, NonceFits
      <4> PICK m \in Nonces : m = req[r].nonce
        BY <1>4, <4>1
      <4>3. m \in Nat /\ k = m + 1 /\ m = k - 1
        BY <4>2, NoncesHaveZero
      <4>4. Sent(m, "approve", r)'
        BY <1>3, <2>3, <4>1 DEF Backed
      <4>5. slot'[n].by = r
        BY <2>1, <3>1
      <4>6. n - 1 = m /\ n > 0
        BY <3>1, <4>3
      <4>7. QED
        BY <4>4, <4>5, <4>6 DEF Sent
    <3>2. CASE n # k
      <4>1. slot'[n] = slot[n] /\ slot[n].kind = "deposit"
        BY <2>1, <2>5, <3>2
      <4>2. n > 0 /\ Sent(n - 1, "approve", slot[n].by)
        BY <1>3, <4>1 DEF Backed
      <4>3. n - 1 \in Nonces
        BY <4>2, NoncesFinite DEF Nonces
      <4> PICK m \in Nonces : m = n - 1
        BY <4>3
      <4> PICK q : q = slot[n].by
        OBVIOUS
      <4>4. Sent(m, "approve", q)
        BY <4>2
      <4>5. Sent(m, "approve", q)'
        BY <2>3, <4>4
      <4>6. QED
        BY <4>1, <4>2, <4>5 DEF Sent
    <3>3. QED
      BY <3>1, <3>2
  <2>6. ASSUME NEW q \in Requests, req'[q].pc = "deposit"
        PROVE  Sent(req[q].nonce, "approve", q)'
    <3>1. CASE q = r
      <4>1. req[r].pc = "approve" /\ req'[r].nonce = req[r].nonce
        BY <2>4, <2>6, <3>1 DEF AfterSend, Sending
      <4>2. k = req[r].nonce
        BY <2>4, <4>1, NonceFits
      <4>3. Sent(k, "approve", r)'
        BY <2>1, <4>1 DEF Sent
      <4>4. QED
        BY <3>1, <4>1, <4>2, <4>3 DEF Sent
    <3>2. CASE q # r
      <4>1. req'[q] = req[q] /\ req[q].pc = "deposit"
        BY <2>4, <2>6, <3>2
      <4> PICK m \in Nonces : m = req[q].nonce
        BY <1>4, <4>1
      <4>2. Sent(m, "approve", q)
        BY <1>3, <4>1 DEF Backed
      <4>3. Sent(m, "approve", q)'
        BY <2>3, <4>2
      <4>4. QED
        BY <4>1, <4>3 DEF Sent
    <3>3. QED
      BY <3>1, <3>2
  <2>7. ASSUME NEW q \in Requests, req'[q].pc \in {"record", "done"}, req'[q].kind = "stake"
        PROVE  \E n \in Nonces : Sent(n, "deposit", q)'
    <3>1. CASE q = r
      <4>1. req[r].pc \in {"deposit", "withdraw"} /\ req[r].kind = "stake"
        BY <2>4, <2>7, <3>1 DEF AfterSend, Sending
      <4>2. req[r].pc = "deposit"
        BY <1>1, <4>1, PcKinds
      <4>3. Sent(k, "deposit", r)'
        BY <2>1, <4>2 DEF Sent
      <4>4. QED
        BY <3>1, <4>3
    <3>2. CASE q # r
      BY <1>3, <2>3, <2>4, <2>7, <3>2 DEF Backed
    <3>3. QED
      BY <3>1, <3>2
  <2>8. QED
    BY <2>5, <2>6, <2>7 DEF Backed, Sent
<1>7. CASE req' = req /\ SameSlots
  BY <1>5, <1>7
<1>8. CASE AllLost
  BY <1>5, <1>8 DEF AllLost
<1>9. ASSUME NEW r \in Requests, Begun(r) \/ Priced(r) \/ Ended(r)
      PROVE  Backed'
  <2>1. SameSlots /\ \A q \in Requests : q # r => req'[q] = req[q]
    BY <1>9, OthersKept DEF Begun, Priced, Ended, Moves
  <2>2. \/ req'[r].pc \notin {"deposit", "record", "done"}
        \/ req[r].pc = "record" /\ req'[r].pc = "done" /\ req'[r].kind = req[r].kind
    BY <1>9 DEF Begun, Priced, Ended, Moves
  <2>3. QED
    BY <1>5, <2>1, <2>2
<1>10. QED
  BY <1>6, <1>7, <1>8, <1>9 DEF RequestsMove

-----------------------------------------------------------------------------
(***************************************************************************)
(* The tables.                                                             *)
(***************************************************************************)

\* A request on record does not change any more.
LEMMA RecordsFixed ==
  ASSUME TypeInv, RequestsMove
  PROVE  \A q \in records : q \in Requests /\ req[q].pc = "done" /\ req'[q] = req[q]
<1>1. \A q \in records : q \in Requests /\ req[q].pc = "done"
  BY DEF TypeInv, TableInv
<1>2. ASSUME NEW q \in Requests, req[q].pc = "done"
      PROVE  req'[q] = req[q]
  BY <1>2, OthersKept DEF RequestsMove, Begun, Priced, Submitted, Ended, AllLost, Moves, Sending
<1>3. QED
  BY <1>1, <1>2

\* Only the update of r changes.
ScorerOnly(r) == /\ scorer' = [q \in Requests |-> IF q = r THEN scorer'[r] ELSE scorer[q]]
                 /\ scorer'[r] \in {Idle} \cup Score

LEMMA ScorerPcs ==
  ASSUME TableInv, NEW r \in Requests
  PROVE  /\ scorer[r] \in {Idle} \cup Score
         /\ scorer[r].pc = "idle" <=> scorer[r] = Idle
         /\ scorer[r].pc = "read" => scorer[r].row \in Nat /\ scorer[r].stakes \subseteq Stakers
         /\ scorer[r].pc \in {"idle", "begun", "read"}
<1>1. scorer[r] \in {Idle} \cup Score
  BY DEF TableInv
<1>2. QED
  BY <1>1 DEF Idle, Score

LEMMA RecordScorer ==
  ASSUME TypeInv, NEW r \in Requests, Record(r)
  PROVE  IF req[r].kind = "stake"
         THEN ScorerOnly(r) /\ scorer[r] = Idle /\ scorer'[r].pc = "begun"
         ELSE scorer' = scorer
<1>1. CASE req[r].kind = "stake"
  <2>1. scorer \in [Requests -> {Idle} \cup Score] /\ r \notin records
    BY DEF TypeInv, TableInv, Record
  <2>2. scorer[r] = Idle
    BY <2>1, ScorerPcs DEF TypeInv, TableInv
  <2>3. scorer' = [scorer EXCEPT ![r].pc = "begun"]
    BY <1>1 DEF Record
  <2>4. scorer'[r] \in [pc : {"begun"}] /\ scorer'[r].pc = "begun"
    BY <2>1, <2>2, <2>3 DEF Idle
  <2>5. ScorerOnly(r)
    BY <2>1, <2>3, <2>4 DEF ScorerOnly, Score
  <2>6. QED
    BY <1>1, <2>2, <2>4, <2>5
<1>2. QED
  BY <1>1 DEF Record

\* The least element.
LEMMA FirstIsLeast ==
  ASSUME NEW S, S \subseteq Nat, S # {}
  PROVE  First(S) \in S /\ \A j \in S : First(S) <= j
<1>1. IsWellFoundedOn(OpToRel(<, Nat), Nat)
  BY NatLessThanWellFounded
<1>2. PICK n \in S : \A m \in S : ~ (<<m, n>> \in OpToRel(<, Nat))
  BY <1>1, WFMin
<1>3. \A m \in S : ~ (m < n)
  BY <1>2 DEF OpToRel
<1>4. \A m \in S : n <= m
  BY <1>3
<1>5. QED
  BY <1>4 DEF First

LEMMA RowsTyped ==
  ASSUME RowsInv
  PROVE  /\ DOMAIN rows = 1..Len(rows) /\ Len(rows) \in Nat
         /\ \A i \in DOMAIN rows : /\ rows[i] \in Row /\ rows[i].wallet \in Wallets
                                   /\ rows[i].token \in Tokens /\ rows[i].stakes \subseteq Stakers
         /\ \A w : RowsOf(w) \subseteq Nat /\ RowsOf(w) \subseteq DOMAIN rows
<1>1. rows \in Seq(Row)
  BY DEF RowsInv
<1>2. /\ DOMAIN rows = 1..Len(rows) /\ Len(rows) \in Nat
      /\ \A i \in DOMAIN rows : rows[i] \in Row
  BY <1>1
<1>3. \A w : RowsOf(w) \subseteq Nat /\ RowsOf(w) \subseteq DOMAIN rows
  BY <1>2 DEF RowsOf
<1>4. QED
  BY <1>2, <1>3 DEF Row

LEMMA ReadScorer ==
  ASSUME TypeInv, NEW r \in Requests, ScoreRead(r)
  PROVE  /\ ScorerOnly(r) /\ scorer'[r].pc = "read"
         /\ scorer'[r].row # 0 => scorer'[r].row \in RowsOf(req[r].wallet)
         /\ HasRead(scorer'[r].row, scorer'[r].stakes, req[r].wallet)
<1> DEFINE mine == RowsOf(req[r].wallet)
           i == First(mine)
           new == IF mine = {} THEN [pc |-> "read", row |-> 0, stakes |-> {}]
                  ELSE [pc |-> "read", row |-> i, stakes |-> rows[i].stakes]
<1>1. scorer' = [scorer EXCEPT ![r] = new]
  BY DEF ScoreRead, First
<1>2. scorer \in [Requests -> {Idle} \cup Score]
  BY DEF TypeInv, TableInv
<1>3. CASE mine = {}
  <2>1. scorer'[r] = [pc |-> "read", row |-> 0, stakes |-> {}]
    BY <1>1, <1>2, <1>3
  <2>2. [pc |-> "read", row |-> 0, stakes |-> {}] \in Score
    BY DEF Score
  <2>3. ScorerOnly(r)
    BY <1>1, <1>2, <2>1, <2>2 DEF ScorerOnly
  <2>4. QED
    BY <1>3, <2>1, <2>3 DEF HasRead
<1>4. CASE mine # {}
  <2>1. mine \subseteq Nat /\ mine \subseteq DOMAIN rows
    BY RowsTyped DEF TypeInv
  <2>2. i \in mine
    BY <1>4, <2>1, FirstIsLeast
  <2>3. i \in Nat /\ rows[i].stakes \subseteq Stakers
    BY <2>1, <2>2, RowsTyped DEF TypeInv
  <2>4. scorer'[r] = [pc |-> "read", row |-> i, stakes |-> rows[i].stakes]
    BY <1>1, <1>2, <1>4
  <2>5. [pc |-> "read", row |-> i, stakes |-> rows[i].stakes] \in Score
    BY <2>3 DEF Score
  <2>6. ScorerOnly(r)
    BY <1>1, <1>2, <2>4, <2>5 DEF ScorerOnly
  <2>7. QED
    BY <1>4, <2>2, <2>4, <2>6 DEF HasRead
<1>5. QED
  BY <1>3, <1>4

LEMMA IdleScorer ==
  ASSUME TypeInv, NEW r \in Requests, scorer' = [scorer EXCEPT ![r] = Idle]
  PROVE  ScorerOnly(r) /\ scorer'[r] = Idle
BY DEF TypeInv, TableInv, ScorerOnly

\* The counters.
LEMMA CountersStep ==
  ASSUME TypeInv, [Next]_vars
  PROVE  crashes' \in 0..MaxCrashes /\ faults' \in 0..MaxFaults
<1>1. crashes \in 0..MaxCrashes /\ faults \in 0..MaxFaults
  BY DEF TypeInv, TableInv
<1>2. /\ crashes' = crashes \/ (crashes < MaxCrashes /\ crashes' = crashes + 1)
      /\ faults' = faults \/ (faults < MaxFaults /\ faults' = faults + 1)
  <2>1. CASE \E r \in Requests : Serve(r)
    BY <2>1 DEF Serve, Begin, BeginStake, BeginWithdraw, GetNonce, Send, SendRefused, SendFails,
      Record, RecordFails, ScoreRead, ScoreWrite, ScoreFails, Fault, counters
  <2>2. CASE Mine \/ Listener \/ Crash \/ UNCHANGED vars
    BY <2>2 DEF Mine, Listener, ListenerStake, ListenerWithdrawal, Crash, vars, counters
  <2>3. QED
    BY <2>1, <2>2 DEF Next
<1>3. QED
  BY <1>1, <1>2, StakeConstantsOK

Quiet == UNCHANGED <<scorer, records, userVars>>

\* The steps by what they do to the tables.
LEMMA TableMoves ==
  ASSUME [Next]_vars
  PROVE  \/ Quiet
         \/ \E r \in Requests : Record(r) \/ ScoreRead(r) \/ ScoreWrite(r) \/ ScoreFails(r)
         \/ Listener \/ Crash
<1>1. CASE \E r \in Requests : Serve(r)
  BY <1>1 DEF Serve, Begin, BeginStake, BeginWithdraw, GetNonce, Send, SendRefused, SendFails,
    RecordFails, Quiet
<1>2. CASE Mine \/ UNCHANGED vars
  BY <1>2 DEF Mine, vars, Quiet
<1>3. QED
  BY <1>1, <1>2 DEF Next

LEMMA OwnScorer ==
  ASSUME TypeInv, NEW r \in Requests, scorer[r].pc # "idle"
  PROVE  /\ r \in records /\ req[r].kind = "stake" /\ req[r].pc = "done"
         /\ req[r].wallet \in Wallets /\ req[r].token \in Tokens
<1>1. r \in records /\ req[r].kind = "stake" /\ req[r].pc = "done" /\ ReqInv
  BY DEF TypeInv, TableInv
<1>2. QED
  BY <1>1, StartedFields

\* One update changes: what TableInv says of the updates and of the records stays true.
LEMMA ScorerOnlyStep ==
  ASSUME TypeInv, RequestsMove, NEW r \in Requests, ScorerOnly(r), records \subseteq records',
         scorer'[r].pc # "idle" => r \in records' /\ req'[r].kind = "stake"
  PROVE  /\ scorer' \in [Requests -> {Idle} \cup Score]
         /\ \A q \in Requests : scorer'[q].pc # "idle" => q \in records' /\ req'[q].kind = "stake"
<1>1. scorer \in [Requests -> {Idle} \cup Score]
  BY DEF TypeInv, TableInv
<1>2. \A q \in records : req'[q] = req[q]
  BY RecordsFixed
<1> HIDE DEF Score, Idle
<1>3. scorer' \in [Requests -> {Idle} \cup Score] /\ \A q \in Requests : q # r
      => scorer'[q] = scorer[q]
  BY <1>1 DEF ScorerOnly
<1>4. QED
  BY <1>2, <1>3 DEF TypeInv, TableInv

LEMMA TableStep ==
  ASSUME TypeInv, RequestsMove, [Next]_vars
  PROVE  TableInv'
<1> DEFINE Scorers == /\ scorer \in [Requests -> {Idle} \cup Score]
                      /\ \A r \in Requests : scorer[r].pc # "idle" =>
                           r \in records /\ req[r].kind = "stake"
           Records == records \subseteq Requests /\ \A r \in records : req[r].pc = "done"
           Directly == direct \in [Directs -> {Unknown} \cup Direct]
           History == raced \subseteq Wallets /\ unscored \subseteq records
           Counters == crashes \in 0..MaxCrashes /\ faults \in 0..MaxFaults
<1>1. TableInv /\ Scorers /\ Records /\ Directly /\ History
  BY DEF TypeInv, TableInv
<1>2. \A q \in records : q \in Requests /\ req'[q] = req[q]
  BY RecordsFixed
<1>3. Counters'
  BY CountersStep
<1>4. scorer' = scorer /\ records' = records => Scorers'
  BY <1>1, <1>2
<1>5. records' = records => Records'
  BY <1>1, <1>2
<1>6. direct' = direct => Directly'
  BY <1>1
<1>7. raced' = raced /\ unscored' = unscored /\ records \subseteq records' => History'
  BY <1>1
<1>8. Scorers' /\ Records' /\ Directly' /\ History' /\ Counters' => TableInv'
  BY DEF TableInv
<1>9. CASE Quiet
  BY <1>3, <1>4, <1>5, <1>6, <1>7, <1>8, <1>9 DEF Quiet, userVars
<1>10. ASSUME NEW r \in Requests, Record(r)
       PROVE  TableInv'
  <2>1. /\ records' = records \cup {r} /\ direct' = direct /\ raced' = raced
        /\ unscored' = unscored /\ req[r].pc = "record" /\ End(r, "done")
    BY <1>10 DEF Record, userVars
  <2>2. Moves(r, "done", 0, 0)
    BY <2>1, EndStep
  <2>3. req'[r].pc = "done" /\ req'[r].kind = req[r].kind
    BY <2>2 DEF Moves
  <2>4. Records'
    BY <1>1, <1>2, <2>1, <2>3
  <2>5. Scorers'
    <3>1. CASE req[r].kind = "stake"
      <4>1. ScorerOnly(r)
        BY <1>10, <3>1, RecordScorer
      <4>2. QED
        BY <2>1, <2>3, <3>1, <4>1, ScorerOnlyStep
    <3>2. CASE req[r].kind # "stake"
      BY <1>1, <1>2, <1>10, <2>1, <3>2, RecordScorer
    <3>3. QED
      BY <3>1, <3>2
  <2>6. Directly' /\ History'
    BY <1>1, <2>1
  <2>7. QED
    BY <1>3, <1>8, <2>4, <2>5, <2>6
<1>11. ASSUME NEW r \in Requests, ScoreRead(r) \/ ScoreWrite(r) \/ ScoreFails(r)
       PROVE  TableInv'
  <2>1. records' = records /\ direct' = direct /\ scorer[r].pc # "idle"
    BY <1>11 DEF ScoreRead, ScoreWrite, ScoreFails, userVars
  <2>2. r \in records /\ req[r].kind = "stake" /\ req[r].wallet \in Wallets
    BY <2>1, OwnScorer
  <2>3. ScorerOnly(r)
    <3>1. CASE ScoreRead(r)
      BY <3>1, ReadScorer
    <3>2. CASE ScoreWrite(r) \/ ScoreFails(r)
      BY <3>2, IdleScorer DEF ScoreWrite, ScoreFails
    <3>3. QED
      BY <1>11, <3>1, <3>2
  <2>4. Scorers'
    BY <1>2, <2>1, <2>2, <2>3, ScorerOnlyStep
  <2>5. raced' = raced \/ Touch(req[r].wallet, r)
    BY <1>11 DEF ScoreRead, ScoreWrite, ScoreFails, userVars
  <2>6. raced' \subseteq Wallets
    BY <1>1, <2>2, <2>5 DEF Touch
  <2>7. unscored' \subseteq unscored \cup {r}
    BY <1>11 DEF ScoreRead, ScoreWrite, ScoreFails, userVars
  <2>8. QED
    BY <1>1, <1>3, <1>5, <1>6, <1>8, <2>1, <2>2, <2>4, <2>6, <2>7
<1>12. CASE Listener
  <2>1. scorer' = scorer /\ records' = records /\ unscored' = unscored
    BY <1>12 DEF Listener, ListenerStake, ListenerWithdrawal
  <2>2. PICK d \in Directs :
          \/ \E w \in Wallets, t \in Tokens, amount \in Amounts : ListenerStake(d, w, t, amount)
          \/ ListenerWithdrawal(d)
    BY <1>12 DEF Listener
  <2>3. Directly' /\ raced' \subseteq Wallets
    <3>1. CASE \E w \in Wallets, t \in Tokens, amount \in Amounts :
                 ListenerStake(d, w, t, amount)
      <4>1. PICK w \in Wallets, t \in Tokens, amount \in Amounts : ListenerStake(d, w, t, amount)
        BY <3>1
      <4>2. Directly'
        BY <1>1, <4>1 DEF ListenerStake, Direct
      <4>3. raced' \subseteq Wallets
        BY <1>1, <4>1 DEF ListenerStake
      <4>4. QED
        BY <4>2, <4>3
    <3>2. CASE ListenerWithdrawal(d)
      <4>1. direct[d] \in Direct /\ direct' = [direct EXCEPT ![d].pc = "withdrawn"]
        BY <1>1, <3>2 DEF ListenerWithdrawal, Unknown
      <4>2. Directly'
        BY <1>1, <4>1 DEF Direct
      <4>3. raced' \subseteq Wallets
        BY <1>1, <3>2, <4>1 DEF ListenerWithdrawal, Direct
      <4>4. QED
        BY <4>2, <4>3
    <3>3. QED
      BY <2>2, <3>1, <3>2
  <2>4. QED
    BY <1>1, <1>3, <1>4, <1>5, <1>8, <2>1, <2>3
<1>13. CASE Crash
  <2>1. /\ scorer' = [q \in Requests |-> Idle] /\ records' = records /\ direct' = direct
        /\ raced' = raced /\ unscored' = unscored \cup {r \in Requests : scorer[r].pc # "idle"}
    BY <1>13 DEF Crash
  <2>2. Scorers'
    BY <2>1 DEF Idle
  <2>3. History'
    BY <1>1, <2>1
  <2>4. QED
    BY <1>3, <1>5, <1>6, <1>8, <2>1, <2>2, <2>3
<1>14. QED
  BY <1>9, <1>10, <1>11, <1>12, <1>13, TableMoves

-----------------------------------------------------------------------------
(***************************************************************************)
(* The rows.                                                               *)
(***************************************************************************)

\* Row i gets the stakes S, and nothing else changes.
RowSet(i, S) ==
  /\ i \in DOMAIN rows /\ DOMAIN rows' = DOMAIN rows /\ rows' \in Seq(Row)
  /\ \A j \in DOMAIN rows : /\ rows'[j].wallet = rows[j].wallet /\ rows'[j].token = rows[j].token
                            /\ rows'[j].stakes = IF j = i THEN S ELSE rows[j].stakes

\* A row with key (w, t) is added, which there was not.
RowAdded(w, t, S) ==
  /\ RowOf(w, t) = {} /\ rows' \in Seq(Row)
  /\ Len(rows) + 1 \notin DOMAIN rows /\ DOMAIN rows' = DOMAIN rows \cup {Len(rows) + 1}
  /\ \A j \in DOMAIN rows : rows'[j] = rows[j]
  /\ rows'[Len(rows) + 1].wallet = w /\ rows'[Len(rows) + 1].token = t
  /\ rows'[Len(rows) + 1].stakes = S

LEMMA SetRow ==
  ASSUME RowsInv, NEW i \in DOMAIN rows, NEW S \in SUBSET Stakers,
         rows' = [rows EXCEPT ![i].stakes = S]
  PROVE  RowSet(i, S)
<1>1. rows \in Seq(Row)
  BY DEF RowsInv
<1>2. rows[i] \in Row
  BY <1>1
<1> PICK row : row = [rows[i] EXCEPT !.stakes = S]
  OBVIOUS
<1>3. /\ row \in Row /\ row.wallet = rows[i].wallet /\ row.token = rows[i].token
      /\ row.stakes = S
  BY <1>2 DEF Row
<1>4. rows' = [rows EXCEPT ![i] = row]
  OBVIOUS
<1> HIDE DEF Row
<1>5. rows' \in Seq(Row)
  BY <1>1, <1>3, <1>4
<1>6. DOMAIN rows' = DOMAIN rows /\ \A j \in DOMAIN rows : rows'[j] = IF j = i THEN row
      ELSE rows[j]
  BY <1>1, <1>4
<1>7. QED
  BY <1>3, <1>5, <1>6 DEF RowSet

LEMMA AddRow ==
  ASSUME RowsInv, NEW w \in Wallets, NEW t \in Tokens, NEW S \in SUBSET Stakers,
         RowOf(w, t) = {}, rows' = Append(rows, [wallet |-> w, token |-> t, stakes |-> S])
  PROVE  RowAdded(w, t, S)
<1> PICK row : row = [wallet |-> w, token |-> t, stakes |-> S]
  OBVIOUS
<1>1. row \in Row /\ row.wallet = w /\ row.token = t /\ row.stakes = S
  BY DEF Row
<1>2. rows \in Seq(Row)
  BY DEF RowsInv
<1>3. rows' = Append(rows, row)
  OBVIOUS
<1> HIDE DEF Row
<1>4. rows' \in Seq(Row)
  BY <1>1, <1>2, <1>3
<1>5. /\ Len(rows) + 1 \notin DOMAIN rows /\ DOMAIN rows' = DOMAIN rows \cup {Len(rows) + 1}
      /\ \A j \in DOMAIN rows : rows'[j] = rows[j]
      /\ rows'[Len(rows) + 1] = row
  BY <1>1, <1>2, <1>3
<1>6. QED
  BY <1>1, <1>4, <1>5 DEF RowAdded

\* The unique key: at most one row.
LEMMA OneRow ==
  ASSUME RowsInv, NEW w, NEW t
  PROVE  \A i, j \in RowOf(w, t) : i = j
BY DEF RowsInv, RowOf, RowsOf

\* An update of the row with key (w, t), as the listener makes it.
LEMMA SetKeyRow ==
  ASSUME RowsInv, NEW w, NEW t, NEW i \in RowOf(w, t), NEW S \in SUBSET Stakers,
         rows' = [j \in DOMAIN rows |-> IF j \in RowOf(w, t) THEN [rows[j] EXCEPT !.stakes = S]
                                                           ELSE rows[j]]
  PROVE  RowSet(i, S)
<1>1. rows \in Seq(Row) /\ i \in DOMAIN rows
  BY DEF RowsInv, RowOf, RowsOf
<1>2. \A j \in DOMAIN rows : j \in RowOf(w, t) <=> j = i
  BY OneRow
<1>3. rows[i] \in Row
  BY <1>1
<1> PICK row : row = [rows[i] EXCEPT !.stakes = S]
  OBVIOUS
<1>4. /\ row \in Row /\ row.wallet = rows[i].wallet /\ row.token = rows[i].token
      /\ row.stakes = S
  BY <1>3 DEF Row
<1>5. rows' = [j \in DOMAIN rows |-> IF j = i THEN row ELSE rows[j]]
  BY <1>2
<1> HIDE DEF Row
<1>6. DOMAIN rows = 1..Len(rows) /\ Len(rows) \in Nat /\ \A j \in DOMAIN rows : rows[j] \in Row
  BY <1>1
<1> PICK f : f = [j \in DOMAIN rows |-> IF j = i THEN row ELSE rows[j]]
  OBVIOUS
<1>7. DOMAIN f = DOMAIN rows /\ \A j \in DOMAIN rows : f[j] = IF j = i THEN row ELSE rows[j]
  OBVIOUS
<1>8. f \in [1..Len(rows) -> Row]
  BY <1>4, <1>6, <1>7
<1>9. f \in Seq(Row)
  BY <1>6, <1>8
<1>10. rows' = f
  BY <1>5
<1>11. QED
  BY <1>1, <1>4, <1>7, <1>9, <1>10 DEF RowSet

LEMMA WriteRows ==
  ASSUME TypeInv, NEW r \in Requests, ScoreWrite(r)
  PROVE  \/ scorer[r].row # 0 /\ RowSet(scorer[r].row, Saved(r)) /\ unscored' = unscored
         \/ /\ scorer[r].row = 0 /\ RowAdded(req[r].wallet, req[r].token, Saved(r))
            /\ unscored' = unscored
         \/ rows' = rows /\ r \in unscored' /\ unscored \subseteq unscored'
<1>1. scorer[r].pc = "read" /\ RowsInv /\ TableInv
  BY DEF ScoreWrite, TypeInv
<1>2. req[r].wallet \in Wallets /\ req[r].token \in Tokens
  BY <1>1, OwnScorer
<1>3. Saved(r) \in SUBSET Stakers
  BY <1>1, ScorerPcs DEF Saved, Stakers
<1>4. CASE scorer[r].row # 0
  <2>1. scorer[r].row \in DOMAIN rows
    BY <1>1, <1>4 DEF RowsInv, RowsOf
  <2>2. rows' = [rows EXCEPT ![scorer[r].row].stakes = Saved(r)] /\ unscored' = unscored
    BY <1>4 DEF ScoreWrite
  <2>3. QED
    BY <1>1, <1>3, <1>4, <2>1, <2>2, SetRow
<1>5. CASE scorer[r].row = 0 /\ RowOf(req[r].wallet, req[r].token) = {}
  <2>1. /\ rows' = Append(rows, [wallet |-> req[r].wallet, token |-> req[r].token,
                                 stakes |-> Saved(r)])
        /\ unscored' = unscored
    BY <1>5 DEF ScoreWrite
  <2>2. QED
    BY <1>1, <1>2, <1>3, <1>5, <2>1, AddRow
<1>6. CASE scorer[r].row = 0 /\ RowOf(req[r].wallet, req[r].token) # {}
  BY <1>6 DEF ScoreWrite
<1>7. QED
  BY <1>4, <1>5, <1>6

LEMMA ListenerStakeRows ==
  ASSUME TypeInv, NEW d \in Directs, NEW w \in Wallets, NEW t \in Tokens, NEW amount \in Amounts,
         ListenerStake(d, w, t, amount)
  PROVE  \/ RowAdded(w, t, {d})
         \/ \E i \in RowOf(w, t) : RowSet(i, rows[i].stakes \cup {d})
<1>1. RowsInv
  BY DEF TypeInv
<1>2. CASE RowOf(w, t) = {}
  <2>1. rows' = Append(rows, [wallet |-> w, token |-> t, stakes |-> {d}])
    BY <1>2 DEF ListenerStake
  <2>2. {d} \in SUBSET Stakers
    BY DEF Stakers
  <2>3. QED
    BY <1>1, <1>2, <2>1, <2>2, AddRow
<1>3. CASE RowOf(w, t) # {}
  <2> PICK i \in RowOf(w, t) : TRUE
    BY <1>3
  <2> PICK S : S = rows[i].stakes \cup {d}
    OBVIOUS
  <2>1. rows' = [j \in DOMAIN rows |-> IF j \in RowOf(w, t)
                   THEN [rows[j] EXCEPT !.stakes = rows[j].stakes \cup {d}] ELSE rows[j]]
    BY <1>3 DEF ListenerStake
  <2>2. \A j \in RowOf(w, t) : rows[j].stakes \cup {d} = S
    BY <1>1, OneRow
  <2>3. rows' = [j \in DOMAIN rows |-> IF j \in RowOf(w, t) THEN [rows[j] EXCEPT !.stakes = S]
                                                            ELSE rows[j]]
    BY <2>1, <2>2
  <2>4. i \in DOMAIN rows
    BY DEF RowOf, RowsOf
  <2>5. S \in SUBSET Stakers
    BY <1>1, <2>4, RowsTyped DEF Stakers
  <2>6. RowSet(i, S)
    BY <1>1, <2>3, <2>5, SetKeyRow
  <2>7. QED
    BY <2>6
<1>4. QED
  BY <1>2, <1>3

LEMMA ListenerWithdrawalRows ==
  ASSUME TypeInv, NEW d \in Directs, ListenerWithdrawal(d)
  PROVE  \/ RowOf(direct[d].wallet, direct[d].token) = {} /\ rows' = rows
         \/ \E i \in RowOf(direct[d].wallet, direct[d].token) : RowSet(i, rows[i].stakes \ {d})
<1>1. RowsInv
  BY DEF TypeInv
<1> PICK w : w = direct[d].wallet
  OBVIOUS
<1> PICK t : t = direct[d].token
  OBVIOUS
<1>2. rows' = [j \in DOMAIN rows |-> IF j \in RowOf(w, t)
                 THEN [rows[j] EXCEPT !.stakes = rows[j].stakes \ {d}] ELSE rows[j]]
  BY DEF ListenerWithdrawal
<1>3. CASE RowOf(w, t) = {}
  <2>1. rows' = [j \in DOMAIN rows |-> rows[j]]
    BY <1>2, <1>3
  <2>2. rows \in Seq(Row)
    BY <1>1 DEF RowsInv
  <2>3. rows' = rows
    BY <2>1, <2>2
  <2>4. QED
    BY <1>3, <2>3
<1>4. CASE RowOf(w, t) # {}
  <2> PICK i \in RowOf(w, t) : TRUE
    BY <1>4
  <2> PICK S : S = rows[i].stakes \ {d}
    OBVIOUS
  <2>1. \A j \in RowOf(w, t) : rows[j].stakes \ {d} = S
    BY <1>1, OneRow
  <2>2. rows' = [j \in DOMAIN rows |-> IF j \in RowOf(w, t) THEN [rows[j] EXCEPT !.stakes = S]
                                                            ELSE rows[j]]
    BY <1>2, <2>1
  <2>3. i \in DOMAIN rows
    BY DEF RowOf, RowsOf
  <2>4. S \in SUBSET Stakers
    BY <1>1, <2>3, RowsTyped DEF Stakers
  <2>5. RowSet(i, S)
    BY <1>1, <2>2, <2>4, SetKeyRow
  <2>6. QED
    BY <2>5
<1>5. QED
  BY <1>3, <1>4

\* What a step does to the rows.
RowsMove ==
  \/ rows' = rows
  \/ \E i, S : RowSet(i, S)
  \/ \E w, t, S : RowAdded(w, t, S)

LEMMA RowsMoves ==
  ASSUME TypeInv, [Next]_vars
  PROVE  RowsMove
<1>1. CASE Quiet \/ Crash
  BY <1>1 DEF Quiet, userVars, Crash, RowsMove
<1>2. ASSUME NEW r \in Requests, Record(r) \/ ScoreRead(r) \/ ScoreFails(r)
      PROVE  RowsMove
  BY <1>2 DEF Record, ScoreRead, ScoreFails, userVars, RowsMove
<1>3. ASSUME NEW r \in Requests, ScoreWrite(r)
      PROVE  RowsMove
  BY <1>3, WriteRows DEF RowsMove
<1>4. CASE Listener
  BY <1>4, ListenerStakeRows, ListenerWithdrawalRows DEF Listener, RowsMove
<1>5. QED
  BY <1>1, <1>2, <1>3, <1>4, TableMoves

\* An update that has read in the next state had read before, or reads in this step.
LEMMA ReadersStep ==
  ASSUME TypeInv, [Next]_vars, NEW q \in Requests, scorer'[q].pc = "read"
  PROVE  scorer'[q] = scorer[q] \/ ScoreRead(q)
<1>1. Idle.pc = "idle"
  BY DEF Idle
<1> HIDE DEF Idle, Score
<1>2. CASE Quiet \/ Listener
  BY <1>2 DEF Quiet, Listener, ListenerStake, ListenerWithdrawal
<1>3. CASE Crash
  BY <1>1, <1>3 DEF Crash
<1>4. ASSUME NEW r \in Requests, Record(r) \/ ScoreRead(r) \/ ScoreWrite(r) \/ ScoreFails(r)
      PROVE  scorer'[q] = scorer[q] \/ ScoreRead(q)
  <2>1. scorer' = scorer \/ (ScorerOnly(r) /\ scorer'[r].pc \in {"begun", "idle"})
        \/ (ScorerOnly(r) /\ ScoreRead(r))
    <3>1. CASE Record(r)
      BY <3>1, RecordScorer
    <3>2. CASE ScoreRead(r)
      BY <3>2, ReadScorer
    <3>3. CASE ScoreWrite(r) \/ ScoreFails(r)
      BY <1>1, <3>3, IdleScorer DEF ScoreWrite, ScoreFails
    <3>4. QED
      BY <1>4, <3>1, <3>2, <3>3
  <2>2. QED
    BY <2>1 DEF ScorerOnly
<1>5. QED
  BY <1>2, <1>3, <1>4, TableMoves

LEMMA RowsStep ==
  ASSUME TypeInv, RequestsMove, [Next]_vars
  PROVE  RowsInv'
<1> DEFINE Keys == \A i, j \in DOMAIN rows :
             rows[i].wallet = rows[j].wallet /\ rows[i].token = rows[j].token => i = j
<1>1. RowsInv /\ Keys /\ RowsMove
  BY RowsMoves DEF TypeInv, RowsInv
<1>2. /\ rows' \in Seq(Row) /\ DOMAIN rows \subseteq DOMAIN rows'
      /\ \A i \in DOMAIN rows : rows'[i].wallet = rows[i].wallet
  BY <1>1 DEF RowsMove, RowSet, RowAdded, RowsInv
<1>3. Keys'
  <2>1. CASE rows' = rows \/ \E i, S : RowSet(i, S)
    BY <1>1, <2>1 DEF RowSet
  <2>2. ASSUME NEW w, NEW t, NEW S, RowAdded(w, t, S)
        PROVE  Keys'
    <3>1. \A i \in DOMAIN rows : ~ (rows[i].wallet = w /\ rows[i].token = t)
      BY <2>2 DEF RowAdded, RowOf, RowsOf
    <3>2. QED
      BY <1>1, <2>2, <3>1 DEF RowAdded
  <2>3. QED
    BY <1>1, <2>1, <2>2 DEF RowsMove
<1>4. ASSUME NEW q \in Requests, scorer'[q].pc = "read", scorer'[q].row # 0
      PROVE  scorer'[q].row \in RowsOf(req[q].wallet)'
  <2>1. CASE ScoreRead(q)
    <3>1. scorer'[q].row \in RowsOf(req[q].wallet) /\ rows' = rows /\ req' = req
      BY <1>4, <2>1, ReadScorer DEF ScoreRead, userVars
    <3>2. QED
      BY <3>1 DEF RowsOf
  <2>2. CASE scorer'[q] = scorer[q]
    <3>1. scorer[q].row \in RowsOf(req[q].wallet) /\ q \in records
      BY <1>1, <1>4, <2>2, OwnScorer DEF RowsInv
    <3>2. req'[q] = req[q]
      BY <3>1, RecordsFixed
    <3>3. QED
      BY <1>2, <2>2, <3>1, <3>2 DEF RowsOf
  <2>3. QED
    BY <1>4, <2>1, <2>2, ReadersStep
<1>5. QED
  BY <1>2, <1>3, <1>4 DEF RowsInv

\* The types, without the totals.
LEMMA TypeStep ==
  ASSUME TypeInv, NonceInv, ~replaced => Backed, [Next]_vars
  PROVE  TypeInv' /\ NonceInv' /\ (~replaced => Backed)' /\ RequestsMove
<1>1. ReqInv' /\ RequestsMove
  BY ReqStep
<1>2. NodeInv' /\ TableInv' /\ RowsInv'
  BY <1>1, NodeStep, TableStep, RowsStep
<1>3. SentOnce' /\ NoncesFilled'
  BY <1>1, SentOnceStep, NoncesFilledStep
<1>4. ~replaced' => Backed'
  BY <1>1, BackedStep
<1>5. QED
  BY <1>1, <1>2, <1>3, <1>4 DEF TypeInv, NonceInv

-----------------------------------------------------------------------------
(***************************************************************************)
(* Totals.                                                                 *)
(***************************************************************************)
Credited(w) ==
  {r \in records : req[r].kind = "stake" /\ req[r].wallet = w /\ scorer[r].pc = "idle"}
    \cup {d \in Directs : direct[d].pc = "staked" /\ direct[d].wallet = w}

LEMMA AddedIsCredited ==
  ASSUME TypeInv, TypeInv', NEW w
  PROVE  Added(w) = Credited(w) /\ Added(w)' = Credited(w)'
<1>1. /\ \A r \in records : r \in Requests /\ r \notin Directs /\ req[r].pc = "done"
      /\ \A r \in records' : r \in Requests /\ r \notin Directs /\ req'[r].pc = "done"
      /\ \A d \in Directs : d \notin Requests
  BY StakeConstantsOK DEF TypeInv, TableInv
<1>2. Added(w) = Credited(w)
  BY <1>1 DEF Added, Credited, StakeRecords, Staked, Stakes, Staking, Started, WalletOf
<1>3. Added(w)' = Credited(w)'
  BY <1>1 DEF Added, Credited, StakeRecords, Staked, Stakes, Staking, Started, WalletOf
<1>4. QED
  BY <1>2, <1>3

SameRows(w) ==
  /\ RowsOf(w)' = RowsOf(w)
  /\ \A i \in RowsOf(w) : rows'[i].stakes = rows[i].stakes /\ rows'[i].token = rows[i].token

LEMMA OtherRows ==
  ASSUME NEW w
  PROVE  /\ rows' = rows => SameRows(w)
         /\ \A i, S : RowSet(i, S) /\ rows[i].wallet # w => SameRows(w)
         /\ \A v, t, S : RowAdded(v, t, S) /\ v # w => SameRows(w)
<1>1. rows' = rows => SameRows(w)
  BY DEF SameRows, RowsOf
<1>2. ASSUME NEW i, NEW S, RowSet(i, S), rows[i].wallet # w
      PROVE  SameRows(w)
  BY <1>2 DEF SameRows, RowsOf, RowSet
<1>3. ASSUME NEW v, NEW t, NEW S, RowAdded(v, t, S), v # w
      PROVE  SameRows(w)
  BY <1>3 DEF SameRows, RowsOf, RowAdded
<1>4. QED
  BY <1>1, <1>2, <1>3

\* A wallet whose rows and stakes a step leaves alone.
LEMMA SameTotals ==
  ASSUME NEW w, RowsAddUp(w), SameRows(w), Added(w)' = Added(w),
         \A d \in Added(w) \cap Directs : direct'[d].token = direct[d].token
  PROVE  RowsAddUp(w)'
<1>1. \A i \in RowsOf(w)' : rows'[i].stakes \subseteq Added(w)
  BY DEF SameRows, RowsAddUp
<1>2. \A s \in Added(w) : \E i \in RowsOf(w)' : s \in rows'[i].stakes
  BY DEF SameRows, RowsAddUp
<1>3. \A i \in RowsOf(w)' : \A d \in rows'[i].stakes \cap Directs :
      rows'[i].token = direct'[d].token
  BY DEF SameRows, RowsAddUp
<1>4. QED
  BY <1>1, <1>2, <1>3 DEF RowsAddUp

LEMMA SameReaders ==
  ASSUME NEW w, ReadersCurrent(w), SameRows(w), RowsInv,
         \A q \in Requests : scorer'[q].pc = "read" /\ req'[q].wallet = w =>
           scorer'[q] = scorer[q] /\ req[q].wallet = w
  PROVE  ReadersCurrent(w)'
<1>1. \A row, stakes : HasRead(row, stakes, w) => HasRead(row, stakes, w)'
  <2>1. RowsOf(w)' = RowsOf(w) /\ First(RowsOf(w))' = First(RowsOf(w))
    BY DEF SameRows, First
  <2>2. RowsOf(w) # {} => First(RowsOf(w)) \in RowsOf(w)
    BY RowsTyped, FirstIsLeast
  <2>3. RowsOf(w) # {} =>
          rows[First(RowsOf(w))].stakes = rows'[First(RowsOf(w))].stakes
    BY <2>2 DEF SameRows
  <2>4. QED
    BY <2>1, <2>3 DEF HasRead
<1>2. ASSUME NEW q \in Requests, scorer'[q].pc = "read", req'[q].wallet = w
      PROVE  HasRead(scorer[q].row, scorer[q].stakes, w)'
  <2> PICK row : row = scorer[q].row
    OBVIOUS
  <2> PICK stakes : stakes = scorer[q].stakes
    OBVIOUS
  <2>1. scorer'[q].row = row /\ scorer'[q].stakes = stakes
    BY <1>2
  <2>2. HasRead(row, stakes, w)
    BY <1>2 DEF ReadersCurrent
  <2>3. HasRead(row, stakes, w)'
    BY <1>1, <2>2
  <2>4. QED
    BY <2>1, <2>3 DEF HasRead
<1>3. QED
  BY <1>2 DEF ReadersCurrent

\* The histories only grow, and the wallet of a lost update is fixed.
LEMMA CleanBefore ==
  ASSUME TypeInv, RequestsMove, raced \subseteq raced', unscored \subseteq unscored',
         NEW w, Clean(w)'
  PROVE  Clean(w)
<1>1. \A q \in unscored : req'[q] = req[q]
  BY RecordsFixed DEF TypeInv, TableInv
<1>2. QED
  BY <1>1 DEF Clean

\* A stake s is added to row i of a wallet,
LEMMA StakeInRow ==
  ASSUME NEW w, RowsAddUp(w), NEW s, NEW i \in RowsOf(w), RowSet(i, rows[i].stakes \cup {s}),
         \A d \in Added(w) \cap Directs : direct'[d].token = direct[d].token,
         s \in Directs => direct'[s].token = rows[i].token,
         Added(w)' = Added(w) \cup {s}
  PROVE  RowsAddUp(w)'
<1>1. RowsOf(w)' = RowsOf(w)
  BY DEF RowSet, RowsOf
<1>2. \A j \in RowsOf(w) : /\ rows'[j].token = rows[j].token
                           /\ rows'[j].stakes = IF j = i THEN rows[i].stakes \cup {s}
                                                         ELSE rows[j].stakes
  BY DEF RowSet, RowsOf
<1>3. \A j \in RowsOf(w) : rows'[j].stakes \subseteq Added(w) \cup {s}
  BY <1>2 DEF RowsAddUp
<1>4. \A x \in Added(w) \cup {s} : \E j \in RowsOf(w) : x \in rows'[j].stakes
  BY <1>2 DEF RowsAddUp
<1>5. ASSUME NEW j \in RowsOf(w), NEW d \in rows'[j].stakes \cap Directs
      PROVE  rows'[j].token = direct'[d].token
  <2>1. CASE d \in rows[j].stakes
    BY <1>2, <2>1 DEF RowsAddUp
  <2>2. CASE d \notin rows[j].stakes
    <3>1. j = i /\ d = s
      BY <1>2, <1>5, <2>2
    <3>2. QED
      BY <1>2, <3>1
  <2>3. QED
    BY <2>1, <2>2
<1>6. QED
  BY <1>1, <1>3, <1>4, <1>5 DEF RowsAddUp

\* or to a new row of its token.
LEMMA StakeInNewRow ==
  ASSUME RowsInv, NEW w, RowsAddUp(w), NEW s, NEW t, RowAdded(w, t, {s}),
         \A d \in Added(w) \cap Directs : direct'[d].token = direct[d].token,
         s \in Directs => direct'[s].token = t,
         Added(w)' = Added(w) \cup {s}
  PROVE  RowsAddUp(w)'
<1> PICK n : n = Len(rows) + 1
  OBVIOUS
<1>1. RowsOf(w)' = RowsOf(w) \cup {n} /\ n \notin RowsOf(w)
  BY DEF RowAdded, RowsOf
<1>2. /\ \A j \in RowsOf(w) : rows'[j] = rows[j]
      /\ rows'[n].stakes = {s} /\ rows'[n].token = t
  BY DEF RowAdded, RowsOf
<1>3. \A j \in RowsOf(w) \cup {n} : rows'[j].stakes \subseteq Added(w) \cup {s}
  BY <1>2 DEF RowsAddUp
<1>4. \A x \in Added(w) \cup {s} : \E j \in RowsOf(w) \cup {n} : x \in rows'[j].stakes
  BY <1>2 DEF RowsAddUp
<1>5. \A j \in RowsOf(w) \cup {n} : \A d \in rows'[j].stakes \cap Directs :
        rows'[j].token = direct'[d].token
  BY <1>2 DEF RowsAddUp
<1>6. QED
  BY <1>1, <1>3, <1>4, <1>5 DEF RowsAddUp

\* A stake is taken out of the one row that holds it.
LEMMA StakeOutOfRow ==
  ASSUME NEW w, RowsAddUp(w), NEW d, NEW i \in RowsOf(w), RowSet(i, rows[i].stakes \ {d}),
         \A j \in RowsOf(w) : d \in rows[j].stakes => j = i,
         \A e \in Added(w) \cap Directs : direct'[e].token = direct[e].token,
         Added(w)' = Added(w) \ {d}
  PROVE  RowsAddUp(w)'
<1>1. RowsOf(w)' = RowsOf(w)
  BY DEF RowSet, RowsOf
<1>2. \A j \in RowsOf(w) : /\ rows'[j].token = rows[j].token
                           /\ rows'[j].stakes = IF j = i THEN rows[i].stakes \ {d}
                                                         ELSE rows[j].stakes
  BY DEF RowSet, RowsOf
<1>3. \A j \in RowsOf(w) : rows'[j].stakes \subseteq Added(w) \ {d}
  BY <1>2 DEF RowsAddUp
<1>4. \A x \in Added(w) \ {d} : \E j \in RowsOf(w) : x \in rows'[j].stakes
  BY <1>2 DEF RowsAddUp
<1>5. \A j \in RowsOf(w) : \A e \in rows'[j].stakes \cap Directs :
      rows'[j].token = direct'[e].token
  BY <1>2 DEF RowsAddUp
<1>6. QED
  BY <1>1, <1>3, <1>4, <1>5 DEF RowsAddUp

\* Every step keeps the totals of the wallets that stay clean.
LEMMA QuietTotals ==
  ASSUME TypeInv, TypeInv', RequestsMove, NEW w, WalletInv(w),
         Quiet \/ \E r \in Requests : Record(r)
  PROVE  WalletInv(w)'
<1>1. \A q \in records : q \in Requests /\ req[q].pc = "done" /\ req'[q] = req[q]
  BY RecordsFixed
<1>2. rows' = rows /\ direct' = direct
  BY DEF Quiet, userVars, Record
<1>3. /\ Credited(w)' = Credited(w)
      /\ \A q \in Requests : scorer'[q].pc = "read" => scorer'[q] = scorer[q]
  <2>1. CASE Quiet
    BY <1>1, <2>1 DEF Quiet, userVars, Credited
  <2>2. ASSUME NEW r \in Requests, Record(r)
        PROVE  /\ Credited(w)' = Credited(w)
               /\ \A q \in Requests : scorer'[q].pc = "read" => scorer'[q] = scorer[q]
    <3>1. /\ records' = records \cup {r} /\ direct' = direct /\ req[r].pc = "record"
          /\ End(r, "done")
      BY <2>2 DEF Record, userVars
    <3>2. Moves(r, "done", 0, 0)
      BY <3>1, EndStep
    <3>3. r \notin records /\ req'[r].kind = req[r].kind
      BY <1>1, <3>1, <3>2 DEF Moves
    <3>4. /\ \A q \in Requests : q # r => scorer'[q] = scorer[q]
          /\ req[r].kind = "stake" => scorer'[r].pc = "begun"
          /\ req[r].kind # "stake" => scorer' = scorer
      BY <2>2, RecordScorer DEF ScorerOnly
    <3>5. Credited(w)' = Credited(w)
      BY <1>1, <3>1, <3>3, <3>4 DEF Credited
    <3>6. QED
      BY <3>4, <3>5
  <2>3. QED
    BY <2>1, <2>2
<1>4. Added(w)' = Added(w)
  BY <1>3, AddedIsCredited
<1>5. \A q \in Requests : scorer[q].pc = "read" => req'[q] = req[q]
  BY <1>1, OwnScorer
<1>6. RowsInv /\ RowsAddUp(w) /\ ReadersCurrent(w) /\ SameRows(w)
  BY <1>2, OtherRows DEF WalletInv, TypeInv
<1>7. RowsAddUp(w)'
  BY <1>2, <1>4, <1>6, SameTotals
<1>8. ReadersCurrent(w)'
  BY <1>3, <1>5, <1>6, SameReaders
<1>9. QED
  BY <1>7, <1>8 DEF WalletInv

LEMMA ReadTotals ==
  ASSUME TypeInv, TypeInv', NEW w, WalletInv(w), NEW r \in Requests, ScoreRead(r)
  PROVE  WalletInv(w)'
<1>1. /\ rows' = rows /\ direct' = direct /\ records' = records /\ req' = req
      /\ scorer[r].pc = "begun"
  BY DEF ScoreRead, userVars
<1>2. /\ \A q \in Requests : q # r => scorer'[q] = scorer[q]
      /\ scorer'[r].pc = "read"
      /\ HasRead(scorer'[r].row, scorer'[r].stakes, req[r].wallet)
  BY ReadScorer DEF ScorerOnly
<1>3. records \subseteq Requests
  BY DEF TypeInv, TableInv
<1>4. Credited(w)' = Credited(w)
  BY <1>1, <1>2, <1>3 DEF Credited
<1>5. Added(w)' = Added(w)
  BY <1>4, AddedIsCredited
<1>6. RowsAddUp(w)'
  BY <1>1, <1>5, OtherRows, SameTotals DEF WalletInv
<1>7. \A row, stakes : HasRead(row, stakes, w)' = HasRead(row, stakes, w)
  BY <1>1 DEF HasRead, RowsOf, First
<1>8. ASSUME NEW q \in Requests, scorer'[q].pc = "read", req[q].wallet = w
      PROVE  HasRead(scorer'[q].row, scorer'[q].stakes, w)
  BY <1>2, <1>8 DEF WalletInv, ReadersCurrent
<1>9. ReadersCurrent(w)'
  BY <1>1, <1>7, <1>8 DEF ReadersCurrent, HasRead, RowsOf, First
<1>10. QED
  BY <1>6, <1>9 DEF WalletInv

\* A wallet that another step's update or listener event is about.
NoReaders(w) == \A q \in Requests : ~ (scorer[q].pc = "read" /\ req[q].wallet = w)

LEMMA WriteTotals ==
  ASSUME TypeInv, TypeInv', NEW w, WalletInv(w), Clean(w)', NEW r \in Requests, ScoreWrite(r)
  PROVE  WalletInv(w)'
<1>1. /\ direct' = direct /\ records' = records /\ req' = req /\ scorer[r].pc = "read"
      /\ Touch(req[r].wallet, r) /\ scorer' = [scorer EXCEPT ![r] = Idle]
  BY DEF ScoreWrite
<1>2. /\ \A q \in Requests : q # r => scorer'[q] = scorer[q]
      /\ scorer'[r] = Idle /\ scorer'[r].pc = "idle"
  BY <1>1, IdleScorer DEF ScorerOnly, Idle
<1>3. /\ records \subseteq Requests /\ r \in records /\ req[r].kind = "stake"
      /\ \A d \in Directs : d \notin Requests
  BY <1>1, OwnScorer, StakeConstantsOK DEF TypeInv, TableInv
<1>4. RowsInv /\ RowsAddUp(w) /\ ReadersCurrent(w)
  BY DEF TypeInv, WalletInv
<1>5. CASE req[r].wallet # w
  <2>1. Credited(w)' = Credited(w)
    BY <1>1, <1>2, <1>3, <1>5 DEF Credited
  <2>2. Added(w)' = Added(w)
    BY <2>1, AddedIsCredited
  <2>3. scorer[r].row # 0 => rows[scorer[r].row].wallet # w
    BY <1>1, <1>4, <1>5 DEF RowsInv, RowsOf
  <2>4. SameRows(w)
    BY <1>5, <2>3, WriteRows, OtherRows
  <2>5. RowsAddUp(w)'
    BY <1>1, <1>4, <2>2, <2>4, SameTotals
  <2>6. ReadersCurrent(w)'
    BY <1>1, <1>2, <1>4, <2>4, SameReaders
  <2>7. QED
    BY <2>5, <2>6 DEF WalletInv
<1>6. CASE req[r].wallet = w
  <2>1. Credited(w)' = Credited(w) \cup {r}
    BY <1>1, <1>2, <1>3, <1>6 DEF Credited
  <2>2. Added(w)' = Added(w) \cup {r}
    BY <2>1, AddedIsCredited
  <2>3. \A q \in Requests \ {r} : ~ (scorer[q].pc = "read" /\ req[q].wallet = w)
    BY <1>1, <1>6 DEF Touch, Clean
  <2>4. ReadersCurrent(w)'
    BY <1>1, <1>2, <2>3 DEF ReadersCurrent
  <2>5. HasRead(scorer[r].row, scorer[r].stakes, w)
    BY <1>1, <1>4, <1>6 DEF ReadersCurrent
  <2>6. r \notin unscored'
    BY <1>1, <1>6 DEF Clean
  <2>7. RowsAddUp(w)'
    <3>1. CASE RowsOf(w) = {}
      <4>1. scorer[r].row = 0 /\ Saved(r) = {r}
        BY <2>5, <3>1 DEF HasRead, Saved
      <4>2. RowOf(w, req[r].token) = {}
        BY <3>1 DEF RowOf
      <4>3. RowAdded(w, req[r].token, {r})
        BY <1>6, <2>6, <4>1, WriteRows
      <4>4. QED
        BY <1>1, <1>3, <1>4, <2>2, <4>3, StakeInNewRow
    <3>2. CASE RowsOf(w) # {}
      <4> PICK i : i = First(RowsOf(w))
        OBVIOUS
      <4>1. i \in RowsOf(w)
        BY <1>4, <3>2, RowsTyped, FirstIsLeast
      <4>2. scorer[r].row = i /\ Saved(r) = rows[i].stakes \cup {r} /\ i # 0
        <5>1. scorer[r].row = i /\ Saved(r) = rows[i].stakes \cup {r}
          BY <2>5, <3>2 DEF HasRead, Saved
        <5>2. DOMAIN rows = 1..Len(rows) /\ Len(rows) \in Nat
          BY <1>4, RowsTyped
        <5>3. i # 0
          BY <4>1, <5>2 DEF RowsOf
        <5>4. QED
          BY <5>1, <5>3
      <4>3. RowSet(i, rows[i].stakes \cup {r})
        BY <2>6, <4>2, WriteRows
      <4>4. QED
        BY <1>1, <1>3, <1>4, <2>2, <4>1, <4>3, StakeInRow
    <3>3. QED
      BY <3>1, <3>2
  <2>8. QED
    BY <2>4, <2>7 DEF WalletInv
<1>7. QED
  BY <1>5, <1>6

\* A failed update and a crash leave the clean wallets alone.
LEMMA LostTotals ==
  ASSUME TypeInv, TypeInv', RequestsMove, NEW w, WalletInv(w), Clean(w)',
         Crash \/ \E r \in Requests : ScoreFails(r)
  PROVE  WalletInv(w)'
<1>1. rows' = rows /\ direct' = direct /\ records' = records
  BY DEF Crash, ScoreFails
<1>2. \A q \in records : q \in Requests /\ req[q].pc = "done" /\ req'[q] = req[q]
  BY RecordsFixed
<1>3. Idle.pc = "idle"
  BY DEF Idle
<1> HIDE DEF Idle
<1>4. \A q \in Requests :
        \/ scorer'[q] = scorer[q]
        \/ scorer'[q] = Idle /\ (scorer[q].pc # "idle" => q \in unscored')
  <2>1. CASE Crash
    BY <2>1 DEF Crash
  <2>2. ASSUME NEW r \in Requests, ScoreFails(r)
        PROVE  \A q \in Requests :
                 \/ scorer'[q] = scorer[q]
                 \/ scorer'[q] = Idle /\ (scorer[q].pc # "idle" => q \in unscored')
    <3>1. ScorerOnly(r) /\ scorer'[r] = Idle /\ r \in unscored'
      BY <2>2, IdleScorer DEF ScoreFails
    <3>2. QED
      BY <3>1 DEF ScorerOnly
  <2>3. QED
    BY <2>1, <2>2
<1>5. \A q \in records : req[q].wallet = w => q \notin unscored'
  BY <1>2 DEF Clean
<1>6. \A q \in records : req[q].wallet = w => (scorer'[q].pc = "idle" <=> scorer[q].pc = "idle")
  BY <1>2, <1>3, <1>4, <1>5
<1>7. Credited(w)' = Credited(w)
  BY <1>1, <1>2, <1>6 DEF Credited
<1>8. Added(w)' = Added(w)
  BY <1>7, AddedIsCredited
<1>9. RowsInv /\ RowsAddUp(w) /\ ReadersCurrent(w) /\ SameRows(w)
  BY <1>1, OtherRows DEF WalletInv, TypeInv
<1>10. RowsAddUp(w)'
  BY <1>1, <1>8, <1>9, SameTotals
<1>11. \A q \in Requests : scorer'[q].pc = "read" => scorer'[q] = scorer[q] /\ req'[q] = req[q]
  BY <1>2, <1>3, <1>4, OwnScorer
<1>12. ReadersCurrent(w)'
  BY <1>9, <1>11, SameReaders
<1>13. QED
  BY <1>10, <1>12 DEF WalletInv

LEMMA ListenerStakeTotals ==
  ASSUME TypeInv, TypeInv', NEW w, WalletInv(w), Clean(w)', NEW d \in Directs,
         NEW v \in Wallets, NEW t \in Tokens, NEW amount \in Amounts,
         ListenerStake(d, v, t, amount)
  PROVE  WalletInv(w)'
<1>1. /\ direct[d].pc = "unknown" /\ records' = records /\ req' = req /\ scorer' = scorer
      /\ \A e \in Directs : e # d => direct'[e] = direct[e]
      /\ direct'[d].pc = "staked" /\ direct'[d].wallet = v /\ direct'[d].token = t
  BY DEF ListenerStake, TypeInv, TableInv
<1>2. RowsInv /\ RowsAddUp(w) /\ ReadersCurrent(w)
  BY DEF TypeInv, WalletInv
<1>3. records \subseteq Requests /\ d \notin records
  BY StakeConstantsOK DEF TypeInv, TableInv
<1>4. d \notin Added(w)
  BY <1>1, <1>3, AddedIsCredited DEF Credited
<1>5. \A e \in Added(w) \cap Directs : direct'[e].token = direct[e].token
  BY <1>1, <1>4
<1>6. CASE v # w
  <2>1. Credited(w)' = Credited(w)
    BY <1>1, <1>6 DEF Credited
  <2>2. Added(w)' = Added(w)
    BY <2>1, AddedIsCredited
  <2>3. \A i \in RowOf(v, t) : rows[i].wallet # w
    BY <1>6 DEF RowOf, RowsOf
  <2>4. SameRows(w)
    <3>1. CASE RowAdded(v, t, {d})
      BY <1>6, <3>1, OtherRows
    <3>2. ASSUME NEW i \in RowOf(v, t), RowSet(i, rows[i].stakes \cup {d})
          PROVE  SameRows(w)
      BY <2>3, <3>2, OtherRows
    <3>3. QED
      BY <3>1, <3>2, ListenerStakeRows
  <2>5. RowsAddUp(w)'
    BY <1>2, <1>5, <2>2, <2>4, SameTotals
  <2>6. ReadersCurrent(w)'
    BY <1>1, <1>2, <2>4, SameReaders
  <2>7. QED
    BY <2>5, <2>6 DEF WalletInv
<1>7. CASE v = w
  <2>1. Credited(w)' = Credited(w) \cup {d}
    BY <1>1, <1>7 DEF Credited
  <2>2. Added(w)' = Added(w) \cup {d}
    BY <2>1, AddedIsCredited
  <2>3. NoReaders(w)
    BY <1>7 DEF ListenerStake, Clean, NoReaders
  <2>4. ReadersCurrent(w)'
    BY <1>1, <2>3 DEF ReadersCurrent, NoReaders
  <2>5. CASE RowAdded(w, t, {d})
    <3>1. RowsAddUp(w)'
      BY <1>1, <1>2, <1>5, <2>2, <2>5, StakeInNewRow
    <3>2. QED
      BY <2>4, <3>1 DEF WalletInv
  <2>6. ASSUME NEW i \in RowOf(w, t), RowSet(i, rows[i].stakes \cup {d})
        PROVE  WalletInv(w)'
    <3>1. i \in RowsOf(w) /\ rows[i].token = t
      BY DEF RowOf
    <3>2. RowsAddUp(w)'
      BY <1>1, <1>2, <1>5, <2>2, <2>6, <3>1, StakeInRow
    <3>3. QED
      BY <2>4, <3>2 DEF WalletInv
  <2>7. QED
    BY <1>7, <2>5, <2>6, ListenerStakeRows
<1>8. QED
  BY <1>6, <1>7

LEMMA ListenerWithdrawalTotals ==
  ASSUME TypeInv, TypeInv', NEW w, WalletInv(w), Clean(w)', NEW d \in Directs,
         ListenerWithdrawal(d)
  PROVE  WalletInv(w)'
<1> PICK v : v = direct[d].wallet
  OBVIOUS
<1> PICK t : t = direct[d].token
  OBVIOUS
<1>1. /\ direct[d].pc = "staked" /\ records' = records /\ req' = req /\ scorer' = scorer
      /\ direct' = [direct EXCEPT ![d].pc = "withdrawn"]
  BY DEF ListenerWithdrawal
<1>2. direct \in [Directs -> {Unknown} \cup Direct] /\ direct[d] \in Direct
  BY <1>1 DEF TypeInv, TableInv, Unknown
<1>3. direct'[d].pc = "withdrawn" /\ direct'[d].token = direct[d].token
  BY <1>1, <1>2 DEF Direct
<1>4. \A e \in Directs : e # d => direct'[e] = direct[e]
  BY <1>1, <1>2
<1>5. RowsInv /\ RowsAddUp(w) /\ ReadersCurrent(w)
  BY DEF TypeInv, WalletInv
<1>6. records \subseteq Requests /\ d \notin records
  BY StakeConstantsOK DEF TypeInv, TableInv
<1>7. \A e \in Added(w) \cap Directs : direct'[e].token = direct[e].token
  BY <1>3, <1>4
<1>8. CASE v # w
  <2>1. Credited(w)' = Credited(w)
    BY <1>1, <1>3, <1>4, <1>8 DEF Credited
  <2>2. Added(w)' = Added(w)
    BY <2>1, AddedIsCredited
  <2>3. \A i \in RowOf(v, t) : rows[i].wallet # w
    BY <1>8 DEF RowOf, RowsOf
  <2>4. SameRows(w)
    BY <2>3, ListenerWithdrawalRows, OtherRows
  <2>5. RowsAddUp(w)'
    BY <1>5, <1>7, <2>2, <2>4, SameTotals
  <2>6. ReadersCurrent(w)'
    BY <1>1, <1>5, <2>4, SameReaders
  <2>7. QED
    BY <2>5, <2>6 DEF WalletInv
<1>9. CASE v = w
  <2>1. Credited(w)' = Credited(w) \ {d}
    BY <1>1, <1>3, <1>4, <1>6 DEF Credited
  <2>2. Added(w)' = Added(w) \ {d} /\ d \in Added(w)
    <3>1. d \in Credited(w)
      BY <1>1, <1>9 DEF Credited
    <3>2. QED
      BY <2>1, <3>1, AddedIsCredited
  <2>3. NoReaders(w)
    BY <1>9 DEF ListenerWithdrawal, Clean, NoReaders
  <2>4. ReadersCurrent(w)'
    BY <1>1, <2>3 DEF ReadersCurrent, NoReaders
  <2>5. \A j \in RowsOf(w) : d \in rows[j].stakes => j \in RowOf(w, t)
    BY <1>5 DEF RowsAddUp, RowOf
  <2>6. RowOf(w, t) # {}
    BY <1>5, <2>2, <2>5 DEF RowsAddUp
  <2>7. PICK i \in RowOf(w, t) : RowSet(i, rows[i].stakes \ {d})
    BY <1>9, <2>6, ListenerWithdrawalRows
  <2>8. i \in RowsOf(w) /\ \A j \in RowsOf(w) : d \in rows[j].stakes => j = i
    BY <1>5, <2>5, OneRow DEF RowOf
  <2>9. RowsAddUp(w)'
    BY <1>5, <1>7, <2>2, <2>7, <2>8, StakeOutOfRow
  <2>10. QED
    BY <2>4, <2>9 DEF WalletInv
<1>10. QED
  BY <1>8, <1>9

LEMMA TotalsStep ==
  ASSUME TypeInv, TypeInv', RequestsMove, [Next]_vars, TotalsInv
  PROVE  TotalsInv'
<1> SUFFICES ASSUME NEW w \in Wallets, Clean(w)'
             PROVE  WalletInv(w)'
  BY DEF TotalsInv
<1>1. raced \subseteq raced' /\ unscored \subseteq unscored'
  <2>1. CASE Quiet \/ Listener \/ Crash
    BY <2>1 DEF Quiet, userVars, Listener, ListenerStake, ListenerWithdrawal, Crash
  <2>2. CASE \E r \in Requests : Record(r) \/ ScoreRead(r) \/ ScoreWrite(r) \/ ScoreFails(r)
    BY <2>2 DEF Record, ScoreRead, ScoreWrite, ScoreFails, Touch, userVars
  <2>3. QED
    BY <2>1, <2>2, TableMoves
<1>2. WalletInv(w)
  BY <1>1, CleanBefore DEF TotalsInv
<1>3. CASE Quiet \/ Crash
  BY <1>2, <1>3, QuietTotals, LostTotals
<1>4. CASE \E r \in Requests : Record(r) \/ ScoreRead(r) \/ ScoreWrite(r) \/ ScoreFails(r)
  BY <1>2, <1>4, QuietTotals, ReadTotals, WriteTotals, LostTotals
<1>5. CASE Listener
  BY <1>2, <1>5, ListenerStakeTotals, ListenerWithdrawalTotals DEF Listener
<1>6. QED
  BY <1>3, <1>4, <1>5, TableMoves

-----------------------------------------------------------------------------
(***************************************************************************)
(* The theorems.                                                           *)
(***************************************************************************)
LEMMA InitInv ==
  ASSUME Init
  PROVE  Inv
<1>1. NodeInv /\ ReqInv
  BY NoncesHaveZero DEF Init, NodeInv, ReqInv, ReqTyped, Sending, Waiting
<1>2. TableInv
  BY StakeConstantsOK DEF Init, TableInv, Idle
<1>3. rows = <<>> /\ DOMAIN rows = {}
  BY DEF Init
<1>4. RowsInv
  BY <1>3 DEF Init, RowsInv, Idle
<1>5. \A n \in Nonces : slot[n] = NoTx
  BY DEF Init
<1>6. \A r \in Requests : ~Sending(r) /\ req[r].pc = "waiting"
  BY DEF Init, Waiting, Sending
<1>7. NonceInv
  BY <1>5, <1>6 DEF NonceInv, SentOnce, NoncesFilled, NoNonceGap, Used
<1>8. Backed
  BY <1>5, <1>6 DEF Backed, NoTx
<1>9. ASSUME NEW w \in Wallets
      PROVE  WalletInv(w)
  <2>1. RowsOf(w) = {}
    BY <1>3 DEF RowsOf
  <2>2. Added(w) = {}
    BY DEF Init, Added, StakeRecords, Staked, Stakes, Unknown
  <2>3. \A r \in Requests : scorer[r].pc = "idle"
    BY DEF Init, Idle
  <2>4. QED
    BY <2>1, <2>2, <2>3 DEF WalletInv, RowsAddUp, ReadersCurrent
<1>10. QED
  BY <1>1, <1>2, <1>4, <1>7, <1>8, <1>9 DEF Inv, TypeInv, TotalsInv

LEMMA InvStep ==
  ASSUME Inv, [Next]_vars
  PROVE  Inv'
<1>1. TypeInv' /\ NonceInv' /\ (~replaced => Backed)' /\ RequestsMove
  BY TypeStep DEF Inv
<1>2. TotalsInv'
  BY <1>1, TotalsStep DEF Inv
<1>3. QED
  BY <1>1, <1>2 DEF Inv

\* The inductive invariant: the types, the nonces that requests and transactions hold,
\* the approvals that deposits need, and the rows of clean wallets.
THEOREM Invariant == Spec => []Inv
<1>1. Init => Inv
  BY InitInv
<1>2. Inv /\ [Next]_vars => Inv'
  BY InvStep
<1>3. QED
  BY <1>1, <1>2, PTL DEF Spec

\* Type correctness of the service, its tables and the node.
THEOREM TypeCorrect == Spec => []TypeOK
<1>1. Inv => TypeOK
  <2> SUFFICES ASSUME Inv PROVE TypeOK
    OBVIOUS
  <2>1. NodeInv /\ ReqInv /\ TableInv /\ RowsInv
    BY DEF Inv, TypeInv
  <2>2. /\ slot \in [Nonces -> {NoTx} \cup [kind : {"approve", "deposit", "withdraw"},
                                            by : Requests, price : Prices]]
        /\ mined \in Nonces /\ replaced \in BOOLEAN
    BY <2>1 DEF NodeInv, Tx
  <2>3. ASSUME NEW r \in Started
        PROVE  /\ req[r].pc \in {"nonce", "approve", "deposit", "withdraw", "record", "done",
                                 "failed"}
               /\ req[r].nonce \in Nonces
    <3>1. r \in Requests /\ req[r].pc # "waiting"
      BY DEF Started
    <3>2. QED
      BY <2>1, <3>1, PcKinds, StartedFields
  <2>4. \A r \in Requests : scorer[r].pc \in {"idle", "begun", "read"}
    BY <2>1, ScorerPcs
  <2>5. records \subseteq Started /\ unscored \subseteq Requests
    BY <2>1 DEF TableInv, Started
  <2>6. \A d \in Directs : direct[d].pc \in {"unknown", "staked", "withdrawn"}
    BY <2>1 DEF TableInv, Unknown, Direct
  <2>7. /\ rows \in Seq([wallet : Wallets, token : Tokens,
                         stakes : SUBSET (Requests \cup Directs)])
        /\ \A i, j \in DOMAIN rows :
             rows[i].wallet = rows[j].wallet /\ rows[i].token = rows[j].token => i = j
    BY <2>1 DEF RowsInv, Row, Stakers
  <2>8. /\ raced \subseteq Wallets
        /\ crashes \in 0..MaxCrashes /\ faults \in 0..MaxFaults
    BY <2>1 DEF TableInv
  <2>9. QED
    BY <2>2, <2>3, <2>4, <2>5, <2>6, <2>7, <2>8 DEF TypeOK
<1>2. QED
  BY <1>1, Invariant, PTL

\* The nonces in use have no gap, however the requests interleave, are refused or die
\* between two transactions: no transaction of the platform account waits for one that
\* nobody is going to send.
THEOREM NoncesHaveNoGap == Spec => []NoNonceGap
<1>1. Inv => NoNonceGap
  BY DEF Inv, NonceInv, NoncesFilled
<1>2. QED
  BY <1>1, Invariant, PTL

\* As long as nothing was replaced, every deposit comes directly after the approval of
\* its request, and every stake on record has a deposit.
THEOREM DepositsAreBacked == Spec => []DepositsBacked
<1>1. Inv => DepositsBacked
  <2> SUFFICES ASSUME Inv, ~replaced PROVE DepositsBacked
    BY DEF DepositsBacked
  <2>1. Backed /\ TableInv
    BY DEF Inv, TypeInv
  <2>2. \A r \in Stakes : r \in Requests /\ req[r].pc = "done" /\ req[r].kind = "stake"
    BY <2>1 DEF Stakes, Staking, TableInv
  <2>3. QED
    BY <2>1, <2>2 DEF Backed, DepositsBacked
<1>2. QED
  BY <1>1, Invariant, PTL

\* Without a race of two updates and without a lost one, the rows of a wallet add up to
\* its stakes on record once no update is under way: nothing else loses or doubles an
\* amount.
THEOREM TotalsAreRecords == Spec => []TotalsMatchRecords
<1>1. Inv => TotalsMatchRecords
  <2> SUFFICES ASSUME Inv, NEW w \in Wallets, w \notin raced,
                      \A r \in Requests : scorer[r].pc = "idle" \/ req[r].wallet # w,
                      \A r \in unscored : req[r].wallet # w
               PROVE  UNION {rows[i].stakes : i \in RowsOf(w)}
                      = {s \in StakeRecords(w) : s \in Directs => direct[s].pc = "staked"}
    BY DEF TotalsMatchRecords
  <2>1. RowsAddUp(w)
    BY DEF Inv, TotalsInv, Clean, WalletInv
  <2>2. \A s \in StakeRecords(w) : s \in Requests => req[s].wallet = w
    BY DEF StakeRecords, WalletOf
  <2>3. Added(w) = {s \in StakeRecords(w) : s \in Directs => direct[s].pc = "staked"}
    BY <2>2 DEF Added
  <2>4. \A s : s \in UNION {rows[i].stakes : i \in RowsOf(w)} <=> s \in Added(w)
    BY <2>1, Zenon DEF RowsAddUp
  <2>5. QED
    BY <2>3, <2>4
<1>2. QED
  BY <1>1, Invariant, PTL
=============================================================================
