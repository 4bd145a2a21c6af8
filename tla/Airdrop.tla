-------------------------------- MODULE Airdrop --------------------------------
(***************************************************************************)
(* What the airdrop tables say: the airdrop contract of one chain, the     *)
(* passes of the listener over its events with the three transactions of   *)
(* SaveAirdropEvents (airdrop_sync.go), and the queries with which the API *)
(* answers overview, available and ranking (airDrop_service.go).           *)
(*                                                                         *)
(* A block holds one event and is named by its position in log; only       *)
(* confirmed blocks are considered (module Indexer has the confirmations   *)
(* and the reorganisations).  Tables refer to events by position: claims   *)
(* is the set of stored RewardClaimed events, and source[a, u] the event   *)
(* that airdrop_whitelist.total_reward of (a, u) was last set from.        *)
(***************************************************************************)
EXTENDS Integers, Sequences, FiniteSetsExt

CONSTANTS
  Airdrops, Users,
  Older,        \* airdrops created and activated before the first block
  Amounts,      \* amounts a total or a claim may have
  BatchSize,    \* 1000 in the code: largest range of one eth_getLogs call
  MaxLog,       \* bound: blocks
  MaxCrashes,   \* bound: process crashes
  MaxFaults     \* bound: failed or unacknowledged calls

ASSUME AirdropConstantsOK ==
  /\ IsFiniteSet(Airdrops) /\ Older \subseteq Airdrops
  /\ Amounts \subseteq Nat \ {0}
  /\ BatchSize \in Nat \ {0}
  /\ MaxLog \in Nat /\ MaxCrashes \in Nat /\ MaxFaults \in Nat

VARIABLES
  log,            \* events of the contract, oldest first
  \* the database
  claims,         \* reward_claimed_events: positions of the stored events
  source,         \* airdrop_whitelist: source[a, u], 0 when there is no row
  campaigns,      \* airdrop_campaigns: "none", "inactive" or "active"
  height,         \* chain.last_block_num
  \* the listener
  pc,             \* "down", "idle", the handler it is at, or "end"
  lastBlockNum,   \* first block of the next pass
  targetBlockNum, \* last block of this pass
  success,        \* no handler of this pass has failed
  open,           \* the handler's block number is written, its rows are not
  passedOver,     \* history: events that the listener passed over unstored
  \* the API
  reader,         \* the request being answered, after its first query
  crashes, faults

tables   == <<claims, source, campaigns>>
pass     == <<targetBlockNum, success, open>>
counters == <<crashes, faults>>
vars == <<log, tables, height, pc, lastBlockNum, pass, passedOver, reader, counters>>

gap == passedOver # {}

Positions == 1..Len(log)
Pairs     == Airdrops \X Users

Of(kinds, S) == {i \in S \cap Positions : log[i].kind \in kinds}
About(kind, a, u, S) == {i \in Of({kind}, S) : log[i].airdrop = a /\ log[i].user = u}
SumOf(S) == MapThenSumSet(LAMBDA i : log[i].amount, S)
Latest(S) == CHOOSE i \in S : \A j \in S : j <= i

\* The contract's books after block n.
TotalAt(a, u, n) ==
  LET T == About("total", a, u, 1..n) IN IF T = {} THEN 0 ELSE log[Latest(T)].amount
ClaimedAt(a, u, n) == SumOf(About("claim", a, u, 1..n))

Event ==
  [kind : {"claim", "total"}, airdrop : Airdrops, user : Users, amount : Amounts]
    \cup [kind : {"created", "activated"}, airdrop : Airdrops]
    \cup [kind : {"other"}]

NoRequest == [scope |-> {}]

TypeOK ==
  /\ log \in Seq(Event) /\ Len(log) <= MaxLog
  /\ claims \subseteq Of({"claim"}, Positions)
  /\ \A p \in Pairs : source[p] \in {0} \cup Of({"total"}, Positions)
  /\ campaigns \in [Airdrops -> {"none", "inactive", "active"}]
  /\ height \in 0..Len(log)
  /\ pc \in {"down", "idle", "claims", "totals", "admin", "end"}
  /\ lastBlockNum \in 0..Len(log) + 1 /\ targetBlockNum \in 0..Len(log)
  /\ success \in BOOLEAN /\ open \in BOOLEAN
  /\ passedOver \subseteq Positions
  /\ reader.scope \subseteq Airdrops
  /\ crashes \in 0..MaxCrashes /\ faults \in 0..MaxFaults

Init ==
  /\ log = <<>>
  /\ claims = {} /\ source = [p \in Pairs |-> 0]
  /\ campaigns = [a \in Airdrops |-> IF a \in Older THEN "active" ELSE "none"]
  /\ height = 0
  /\ pc = "down" /\ lastBlockNum = 0
  /\ targetBlockNum = 0 /\ success = TRUE /\ open = FALSE
  /\ passedOver = {}
  /\ reader = NoRequest
  /\ crashes = 0 /\ faults = 0

-----------------------------------------------------------------------------
(***************************************************************************)
(* The contract (external).  An airdrop is created once, activated once,   *)
(* and pays a user at most the total recorded for that user.               *)
(***************************************************************************)
Emit(e) ==
  /\ Len(log) < MaxLog
  /\ log' = Append(log, e)
  /\ UNCHANGED <<tables, height, pc, lastBlockNum, pass, passedOver, reader, counters>>

Seen(kind, a) == a \in Older \/ \E i \in Of({kind}, Positions) : log[i].airdrop = a

Create(a) == ~Seen("created", a) /\ Emit([kind |-> "created", airdrop |-> a])

Activate(a) ==
  /\ Seen("created", a) /\ ~Seen("activated", a)
  /\ Emit([kind |-> "activated", airdrop |-> a])

SetTotal(a, u, amount) ==
  /\ Seen("created", a)
  /\ amount >= ClaimedAt(a, u, Len(log)) /\ amount # TotalAt(a, u, Len(log))
  /\ Emit([kind |-> "total", airdrop |-> a, user |-> u, amount |-> amount])

Claim(a, u, amount) ==
  /\ ClaimedAt(a, u, Len(log)) + amount <= TotalAt(a, u, Len(log))
  /\ Emit([kind |-> "claim", airdrop |-> a, user |-> u, amount |-> amount])

\* A block with events of the other handlers, or with none.
OtherBlock == Emit([kind |-> "other"])

Contract ==
  \/ \E a \in Airdrops : Create(a) \/ Activate(a)
  \/ \E a \in Airdrops, u \in Users, amount \in Amounts :
       SetTotal(a, u, amount) \/ Claim(a, u, amount)
  \/ OtherBlock

-----------------------------------------------------------------------------
(***************************************************************************)
(* The listener's pass (sync.go), as far as it matters to these tables.    *)
(***************************************************************************)
AirdropKinds == {"claim", "total", "created", "activated"}
Batch == Of(AirdropKinds \cup {"other"}, lastBlockNum..targetBlockNum)

\* The tables show the effect of event i, or of a later one that replaces it.
Stored(i) ==
  CASE log[i].kind = "claim"     -> i \in claims
    [] log[i].kind = "total"     -> source[log[i].airdrop, log[i].user] >= i
    [] log[i].kind = "created"   -> campaigns[log[i].airdrop] # "none"
    [] log[i].kind = "activated" -> campaigns[log[i].airdrop] = "active"

Unstored(S) == {i \in Of(AirdropKinds, S) : ~Stored(i)}

\* Mutant of Boot: the process starts over from the first block.
BootFromStart ==
  /\ pc = "down" /\ pc' = "idle"
  /\ lastBlockNum' = 0
  /\ UNCHANGED <<log, tables, height, pass, passedOver, reader, counters>>

Boot ==
  /\ pc = "down" /\ pc' = "idle"
  /\ lastBlockNum' = height
  /\ UNCHANGED <<log, tables, height, pass, passedOver, reader, counters>>

\* The process dies; it will be back at height, behind whatever the pass under
\* way had not stored by then.
Crash ==
  /\ pc # "down" /\ crashes < MaxCrashes
  /\ crashes' = crashes + 1
  /\ pc' = "down" /\ lastBlockNum' = 0
  /\ targetBlockNum' = 0 /\ success' = TRUE /\ open' = FALSE
  /\ passedOver' = passedOver \cup Unstored(lastBlockNum..(height - 1))
  /\ UNCHANGED <<log, tables, height, reader, faults>>

Fault == faults < MaxFaults /\ faults' = faults + 1

Target == IF Len(log) - lastBlockNum > BatchSize THEN lastBlockNum + BatchSize
                                                 ELSE Len(log)

\* A tick with something to read.  The stake and pool handlers of the same pass
\* run first: they may write the block number, and they may fail.
BeginPass ==
  /\ pc = "idle" /\ Len(log) > lastBlockNum
  /\ targetBlockNum' = Target
  /\ pc' = "claims"
  /\ \/ UNCHANGED <<height, success, faults>>
     \/ /\ Of({"other"}, lastBlockNum..Target) # {}
        /\ height' \in {height, Target}
        /\ \/ UNCHANGED <<success, faults>>
           \/ Fault /\ success' = FALSE
  /\ UNCHANGED <<log, tables, lastBlockNum, open, passedOver, reader, crashes>>

\* eth_getLogs fails: the range counts as empty.
PassUnread ==
  /\ pc = "idle" /\ Len(log) > lastBlockNum
  /\ Fault
  /\ height' = Target /\ lastBlockNum' = Target + 1
  /\ passedOver' = passedOver \cup Unstored(lastBlockNum..Target)
  /\ UNCHANGED <<log, tables, pc, pass, reader, crashes>>

KindsOf(stage) ==
  CASE stage = "claims" -> {"claim"}
    [] stage = "totals" -> {"total"}
    [] stage = "admin"  -> {"created", "activated"}

Stages == {"claims", "totals", "admin"}
After(stage) ==
  CASE stage = "claims" -> "totals" [] stage = "totals" -> "admin" [] stage = "admin" -> "end"

Work == Of(KindsOf(pc), Batch)

SkipStage ==
  /\ pc \in Stages /\ Work = {}
  /\ pc' = After(pc)
  /\ UNCHANGED <<log, tables, height, lastBlockNum, pass, passedOver, reader, counters>>

\* updateBlockNumber, called last in each transaction, uses another connection:
\* the block number is visible before the rows.
WriteHeight ==
  /\ pc \in Stages /\ Work # {} /\ ~open
  /\ height' = targetBlockNum /\ open' = TRUE
  /\ UNCHANGED <<log, tables, pc, lastBlockNum, targetBlockNum, success, passedOver,
                 reader, counters>>

\* saveAirdropEvents: INSERT ... ON CONFLICT DO NOTHING.
SaveClaims ==
  /\ claims' = claims \cup Work
  /\ UNCHANGED <<source, campaigns>>

\* applyTotalRewardUpdates: one upsert per event in the order of the log, so the
\* last one of the batch remains.
ApplyTotals ==
  /\ source' = [p \in Pairs |->
       LET mine == About("total", p[1], p[2], Work)
       IN IF mine = {} THEN source[p] ELSE Latest(mine)]
  /\ UNCHANGED <<claims, campaigns>>

\* Mutant of SaveAdmin: the activations are applied before the creations.
SaveAdminReversed ==
  LET Named(kind) == {log[i].airdrop : i \in Of({kind}, Work)}
  IN campaigns' = [a \in Airdrops |->
       CASE a \in Named("activated") /\ campaigns[a] # "none" -> "active"
         [] a \in Named("created") /\ campaigns[a] = "none"   -> "inactive"
         [] OTHER -> campaigns[a]]
  /\ UNCHANGED <<claims, source>>

\* saveAirdropAdminEvents: all creations (an upsert that leaves is_active alone),
\* then all activations (an UPDATE, without effect when there is no row).
SaveAdmin ==
  LET Named(kind) == {log[i].airdrop : i \in Of({kind}, Work)}
      Row(a) == IF a \in Named("created") /\ campaigns[a] = "none" THEN "inactive"
                                                                   ELSE campaigns[a]
  IN campaigns' = [a \in Airdrops |->
       IF a \in Named("activated") /\ Row(a) # "none" THEN "active" ELSE Row(a)]
  /\ UNCHANGED <<claims, source>>

SaveRows ==
  /\ pc \in Stages /\ open
  /\ CASE pc = "claims" -> SaveClaims [] pc = "totals" -> ApplyTotals [] pc = "admin" -> SaveAdmin

CommitStage ==
  /\ SaveRows
  /\ pc' = After(pc) /\ open' = FALSE
  /\ UNCHANGED <<log, height, lastBlockNum, targetBlockNum, success, passedOver, reader, counters>>

\* Mutant of Return: the remaining transactions are tried although one failed.
ReturnLate == pc' = After(pc) /\ open' = FALSE /\ success' = FALSE

\* SaveAirdropEvents returns at the first error.
Return == pc' = "end" /\ open' = FALSE /\ success' = FALSE

\* The transaction is committed, but its acknowledgement is lost.
CommitUnacknowledged ==
  /\ SaveRows
  /\ Fault /\ Return
  /\ UNCHANGED <<log, height, lastBlockNum, targetBlockNum, passedOver, reader, crashes>>

\* A statement or the commit fails: rollback.
StageFails ==
  /\ pc \in Stages /\ Work # {}
  /\ Fault /\ Return
  /\ UNCHANGED <<log, tables, height, lastBlockNum, targetBlockNum, passedOver, reader, crashes>>

\* Mutant of FinishPass: the next range starts one block too far.
FinishPassSkips ==
  /\ pc = "end" /\ success
  /\ height' = targetBlockNum
  /\ lastBlockNum' = targetBlockNum + 2
  /\ pc' = "idle" /\ targetBlockNum' = 0
  /\ UNCHANGED <<log, tables, success, open, passedOver, reader, counters>>

\* Every handler succeeded.  (The block number is written here when there was
\* nothing to store, and by the handlers otherwise.)
FinishPass ==
  /\ pc = "end" /\ success
  /\ height' = targetBlockNum
  /\ lastBlockNum' = targetBlockNum + 1
  /\ pc' = "idle" /\ targetBlockNum' = 0
  /\ UNCHANGED <<log, tables, success, open, passedOver, reader, counters>>

\* Some handler failed: the next tick reads from the same block again.
RetryPass ==
  /\ pc = "end" /\ ~success
  /\ pc' = "idle" /\ targetBlockNum' = 0 /\ success' = TRUE
  /\ UNCHANGED <<log, tables, height, lastBlockNum, open, passedOver, reader, counters>>

\* updateBlockNumber fails in a pass with nothing to store.
FinishFails ==
  /\ pc = "end" /\ success /\ Of(AirdropKinds, Batch) = {}
  /\ Fault
  /\ pc' = "idle" /\ targetBlockNum' = 0
  /\ UNCHANGED <<log, tables, height, lastBlockNum, success, open, passedOver, reader, crashes>>

Listener ==
  \/ Boot \/ Crash \/ BeginPass \/ PassUnread \/ SkipStage \/ WriteHeight
  \/ CommitStage \/ CommitUnacknowledged \/ StageFails
  \/ FinishPass \/ RetryPass \/ FinishFails

-----------------------------------------------------------------------------
(***************************************************************************)
(* The API: each query is a statement of its own.                          *)
(***************************************************************************)

\* Overview sums over all airdrops.  Available has an item for each row of
\* airdrop_campaigns, computed by queries about that airdrop.
Items == {{a} : a \in {b \in Airdrops : campaigns[b] # "none"}}
Scopes == {Airdrops} \cup Items

SumTotals(r) == [r EXCEPT !.source = [a \in r.scope |-> source[a, r.user]]]
SumClaims(r) == [r EXCEPT !.claimed =
                   SumOf(UNION {About("claim", a, r.user, claims) : a \in r.scope})]

Query(q, r) == IF q = "totals" THEN SumTotals(r) ELSE SumClaims(r)

\* Mutant of QueryOrder: the claims are read before the totals.
QueryOrderReversed == <<"claims", "totals">>

\* The totals are read first, then the claims.
QueryOrder == <<"totals", "claims">>

Blank(u, A) == [user |-> u, scope |-> A, source |-> [a \in A |-> 0], claimed |-> 0]

Request(u, A) ==
  /\ reader = NoRequest
  /\ reader' = Query(QueryOrder[1], Blank(u, A))
  /\ UNCHANGED <<log, tables, height, pc, lastBlockNum, pass, passedOver, counters>>

\* The first query fails.  Overview returns the error; Available drops it, takes
\* the sum for zero and goes on.
RequestFails(u, A) ==
  /\ reader = NoRequest
  /\ Fault
  /\ reader' = IF A = Airdrops THEN NoRequest ELSE Blank(u, A)
  /\ UNCHANGED <<log, tables, height, pc, lastBlockNum, pass, passedOver, crashes>>

\* The second query completes the answer.
Reply ==
  /\ reader # NoRequest
  /\ reader' = NoRequest
  /\ UNCHANGED <<log, tables, height, pc, lastBlockNum, pass, passedOver, counters>>

\* The second query fails.  Overview returns the error; Available drops it and
\* reports the whole total as pending.
ReplyFails ==
  /\ reader # NoRequest
  /\ Fault
  /\ reader' = NoRequest
  /\ UNCHANGED <<log, tables, height, pc, lastBlockNum, pass, passedOver, crashes>>

Api ==
  \/ \E u \in Users, A \in Scopes : Request(u, A) \/ RequestFails(u, A)
  \/ Reply \/ ReplyFails

Next == Contract \/ Listener \/ Api

Spec == Init /\ [][Next]_vars

\* What the request under way is answered if its second query runs now, as it may
\* at any time: the pending reward, never below zero.
Answer == Query(QueryOrder[2], reader)
Pending ==
  LET value(a) == IF Answer.source[a] = 0 THEN 0 ELSE log[Answer.source[a]].amount
      total    == MapThenSumSet(value, Answer.scope)
  IN IF total > Answer.claimed THEN total - Answer.claimed ELSE 0

(***************************************************************************)
(* Ranking by amount, of one airdrop or of all of them.                    *)
(***************************************************************************)
RankingScopes == {Airdrops} \cup {{a} : a \in Airdrops}

ClaimTotal(u, A) == SumOf(UNION {About("claim", a, u, claims) : a \in A})

\* SUM(claim_amount)::text, for amounts below 100.
Text(n) == IF n < 10 THEN <<n>> ELSE <<n \div 10, n % 10>>

TextLess(s, t) ==
  \/ s[1] < t[1]
  \/ s[1] = t[1] /\ Len(s) < Len(t)
  \/ s[1] = t[1] /\ Len(s) = 2 /\ Len(t) = 2 /\ s[2] < t[2]

\* ORDER BY total_amount DESC: the name is the output column, which is text.
ListedBefore(u, v, A) == TextLess(Text(ClaimTotal(v, A)), Text(ClaimTotal(u, A)))

\* The users that are counted (totalUsers) and listed: those with a claim.
Ranked(A) == {log[i].user : i \in {j \in claims : log[j].airdrop \in A}}

\* currentUserRank: one more than there are users with a larger sum, which is a
\* number here; -1 for a user without a claim.
CurrentUserRank(u, A) ==
  IF ClaimTotal(u, A) = 0 THEN -1
  ELSE 1 + Cardinality({v \in Ranked(A) : ClaimTotal(v, A) > ClaimTotal(u, A)})

-----------------------------------------------------------------------------
(***************************************************************************)
(* Properties.                                                             *)
(***************************************************************************)

\* A total is never in the whitelist before the claims that precede it on the
\* chain are in the claims table, whichever of the two transactions failed or was
\* repeated: claims are saved first, and an error there keeps the totals from being
\* applied.  The exceptions are claims that the listener never reads again: those of a
\* range whose eth_getLogs failed, and those of a range whose block number was already
\* written, through the global connection, when the process died before the commit.
ClaimsBeforeTotals ==
  \A a \in Airdrops, u \in Users :
    About("claim", a, u, 1..source[a, u]) \ passedOver \subseteq claims

\* The whitelist never returns to an older total, although passes are repeated
\* after failures and a restart reads the last block again.
WhitelistNeverGoesBack == [][\A p \in Pairs : source'[p] >= source[p]]_vars

\* Unless a crash or a failed eth_getLogs made the listener pass over an event, the
\* tables show every event behind lastBlockNum; in particular an activated
\* campaign is active, also when it was created in the same batch.
TablesCurrent ==
  ~gap /\ pc # "down" => Unstored(0..(lastBlockNum - 1)) = {}

\* The pending reward that an answer from two successful queries promises is at most
\* what the contract had left for the user when it recorded the totals the answer
\* was computed from, although the totals and the claims are read by two statements
\* between which the listener may commit anything.  (Available ignores a failed
\* query of the claims; then its answer is the whole total, and nothing bounds it.)
PendingNeverOverstated ==
  reader # NoRequest /\ ~gap =>
    Pending <= MapThenSumSet(
                 LAMBDA a : TotalAt(a, Answer.user, Answer.source[a])
                            - ClaimedAt(a, Answer.user, Answer.source[a]),
                 Answer.scope)

-----------------------------------------------------------------------------
(***************************************************************************)
(* What the repository says and the code does not do.                      *)
(***************************************************************************)

\* The schema's notes: the ranking aggregates SUM(claim_amount) and sorts by it.
\* So a user whose rank is better is listed earlier.
RankingBySum ==
  \A A \in RankingScopes : \A u, v \in Ranked(A) :
    CurrentUserRank(u, A) < CurrentUserRank(v, A) => ListedBefore(u, v, A)
=============================================================================
