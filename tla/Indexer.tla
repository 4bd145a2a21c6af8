------------------------------- MODULE Indexer -------------------------------
(***************************************************************************)
(* The unified event listener of one chain: the goroutine that StartSync   *)
(* (src/src/app/sync/sync.go) starts for a row of table chain, the three   *)
(* families of handlers it calls (stake, liquidity pool, airdrop) and the  *)
(* block chain it reads through the RPC client.                            *)
(*                                                                         *)
(* An event is one log of the monitored contract.  What matters of it is   *)
(* which handler takes it, on which canonical block it sits, and how many  *)
(* times its effect is in the database.                                    *)
(***************************************************************************)
EXTENDS Integers

CONSTANTS
  Events,          \* logs the contract may emit
  Kind,            \* Kind[e]: the handler that takes e, one of the numbers below
  Confirmations,   \* 6 in the code: blocks the listener stays behind the head
  BatchSize,       \* 1000 in the code: largest range of one eth_getLogs call
  WordSize,        \* 2^64 in the code: block numbers are uint64
  InitHead,        \* head of the chain when the system is first started
  InitLastBlock,   \* chain.last_block_num before the first start
  MaxHead,         \* bound: last block the model mines
  MaxReorgDepth,   \* bound: blocks a reorganisation may replace
  MaxReorgs,       \* bound: number of reorganisations
  MaxCrashes,      \* bound: number of process crashes
  MaxDbFaults,     \* bound: failed or unacknowledged database calls
  MaxRpcFaults     \* bound: failed eth_getLogs calls

\* The handlers in the order the loop calls them; logs of an unknown topic, or
\* that a parser rejects, have no handler.
Unhandled == 0
Stake     == 1   \* updateDbUserAmount
Pool      == 2   \* saveLiquidityPoolEvents
Claim     == 3   \* saveAirdropEvents
Total     == 4   \* applyTotalRewardUpdates
Admin     == 5   \* saveAirdropAdminEvents
Done      == 6   \* all handlers have run

ASSUME ConstantsOK ==
  /\ Kind \in [Events -> Unhandled..Admin]
  /\ Confirmations \in Nat /\ BatchSize \in Nat \ {0}
  /\ InitHead \in Nat /\ InitLastBlock \in Nat /\ MaxHead \in Nat
  /\ WordSize \in Nat /\ WordSize > MaxHead + BatchSize + InitLastBlock + Confirmations
  /\ InitHead <= MaxHead
  /\ MaxReorgDepth \in Nat /\ MaxReorgs \in Nat
  /\ MaxCrashes \in Nat /\ MaxDbFaults \in Nat /\ MaxRpcFaults \in Nat

VARIABLES
  \* the chain, as the RPC node shows it
  head,            \* number of the latest block
  blockOf,         \* blockOf[e]: block of e on the canonical chain, 0 when on none
  \* the database
  dbLastBlock,     \* chain.last_block_num
  stored,          \* stored[e]: how many times e's effect is in the database
  \* the goroutine
  pc,              \* where it stands in the loop
  bootBlock,       \* chain.LastBlockNum of the row read by StartSync
  lastBlockNum,    \* first block the next pass asks for
  targetBlockNum,  \* last block the current pass asks for
  batch,           \* logs of the current pass
  stage,           \* handler the current pass is at
  success,         \* no handler of the current pass has failed
  \* faults so far
  reorgs, crashes, dbFaults, rpcFaults

chainVars  == <<head, blockOf>>
dbVars     == <<dbLastBlock, stored>>
passVars   == <<targetBlockNum, batch, stage, success>>
cursorVars == <<bootBlock, lastBlockNum>>
faultVars  == <<reorgs, crashes, dbFaults, rpcFaults>>
vars == <<chainVars, dbVars, pc, cursorVars, passVars, faultVars>>

\* uint64 subtraction: wraps below zero
Sub64(a, b) == IF a >= b THEN a - b ELSE a - b + WordSize

Logs(from, to) == {e \in Events : blockOf[e] > 0 /\ blockOf[e] \in from..to}

Handled(k) == {e \in batch : Kind[e] = k}

\* Mutant of StoredBy: the claim and airdrop statements lose their ON CONFLICT.
StoredByWithoutConflict(k) ==
  [e \in Events |-> IF e \in Handled(k) THEN stored[e] + 1 ELSE stored[e]]

\* The database after handler k has stored its part of the batch.  The stake
\* and pool tables have no key on the event and the aggregates are increments,
\* so every run adds; claims are inserted ON CONFLICT DO NOTHING and whitelist
\* and campaign rows are upserts, so a second run changes nothing.
StoredBy(k) ==
  [e \in Events |-> IF e \notin Handled(k) THEN stored[e]
                    ELSE IF k <= Pool THEN stored[e] + 1 ELSE 1]

TypeOK ==
  /\ head \in InitHead..MaxHead
  /\ blockOf \in [Events -> 0..MaxHead]
  /\ dbLastBlock \in Nat
  /\ stored \in [Events -> Nat]
  /\ pc \in {"down", "idle", "fetch", "empty", "save", "commit"}
  /\ bootBlock \in Nat /\ lastBlockNum \in Nat /\ targetBlockNum \in Nat
  /\ batch \subseteq Events
  /\ stage \in 0..Done
  /\ success \in BOOLEAN
  /\ reorgs \in 0..MaxReorgs /\ crashes \in 0..MaxCrashes
  /\ dbFaults \in 0..MaxDbFaults /\ rpcFaults \in 0..MaxRpcFaults

Init ==
  /\ head = InitHead
  /\ blockOf = [e \in Events |-> 0]
  /\ dbLastBlock = InitLastBlock
  /\ stored = [e \in Events |-> 0]
  /\ pc = "down"
  /\ bootBlock = 0 /\ lastBlockNum = 0
  /\ targetBlockNum = 0 /\ batch = {} /\ stage = 0 /\ success = TRUE
  /\ reorgs = 0 /\ crashes = 0 /\ dbFaults = 0 /\ rpcFaults = 0

-----------------------------------------------------------------------------
(***************************************************************************)
(* The chain (external).                                                   *)
(***************************************************************************)

\* A block is appended with any of the events that are not on the chain yet.
Mine ==
  /\ head < MaxHead
  /\ head' = head + 1
  /\ \E new \in SUBSET {e \in Events : blockOf[e] = 0} :
       blockOf' = [e \in Events |-> IF e \in new THEN head + 1 ELSE blockOf[e]]
  /\ UNCHANGED <<dbVars, pc, cursorVars, passVars, faultVars>>

\* The last depth blocks are replaced by a branch one block longer, on which
\* each of their events sits in some new block or in none.
Reorg(depth) ==
  /\ reorgs < MaxReorgs
  /\ depth <= head
  /\ head < MaxHead
  /\ LET fork    == head - depth
         dropped == {e \in Events : blockOf[e] > fork}
     IN \E at \in [dropped -> {0} \cup (fork + 1)..(head + 1)] :
          blockOf' = [e \in Events |-> IF e \in dropped THEN at[e] ELSE blockOf[e]]
  /\ head' = head + 1
  /\ reorgs' = reorgs + 1
  /\ UNCHANGED <<dbVars, pc, cursorVars, passVars, crashes, dbFaults, rpcFaults>>

-----------------------------------------------------------------------------
(***************************************************************************)
(* Start, stop and the timer.                                              *)
(***************************************************************************)

\* StartSync reads the chain row; the goroutine starts from its block number.
Boot ==
  /\ pc = "down"
  /\ pc' = "idle"
  /\ bootBlock' = dbLastBlock
  /\ lastBlockNum' = dbLastBlock
  /\ UNCHANGED <<chainVars, dbVars, passVars, faultVars>>

EndPass == targetBlockNum' = 0 /\ batch' = {} /\ stage' = 0 /\ success' = TRUE

\* The process dies: everything the goroutine held in memory is gone and a
\* transaction that was open is rolled back.
Crash ==
  /\ pc # "down" /\ crashes < MaxCrashes
  /\ crashes' = crashes + 1
  /\ pc' = "down" /\ bootBlock' = 0 /\ lastBlockNum' = 0
  /\ EndPass
  /\ UNCHANGED <<chainVars, dbVars, reorgs, dbFaults, rpcFaults>>

\* Mutant of Tick: the listener follows the head, without confirmations.
TickUnconfirmed ==
  /\ pc = "idle" /\ head > lastBlockNum
  /\ targetBlockNum' = IF head - lastBlockNum > BatchSize
                       THEN lastBlockNum + BatchSize ELSE head
  /\ pc' = "fetch"
  /\ UNCHANGED <<chainVars, dbVars, cursorVars, batch, stage, success, faultVars>>

\* Mutant of Tick: it waits until a whole batch of blocks is confirmed.
TickFullBatch ==
  /\ pc = "idle"
  /\ Sub64(head, Confirmations) >= lastBlockNum + BatchSize
  /\ targetBlockNum' = lastBlockNum + BatchSize
  /\ pc' = "fetch"
  /\ UNCHANGED <<chainVars, dbVars, cursorVars, batch, stage, success, faultVars>>

\* A tick with something to read: the head less the confirmations, at most
\* BatchSize blocks further.  (A tick that fails to get the head, or whose
\* target is not beyond lastBlockNum, changes nothing.)
Tick ==
  /\ pc = "idle"
  /\ LET confirmed == Sub64(head, Confirmations)
     IN /\ confirmed > lastBlockNum
        /\ targetBlockNum' = IF confirmed - lastBlockNum > BatchSize
                             THEN lastBlockNum + BatchSize ELSE confirmed
  /\ pc' = "fetch"
  /\ UNCHANGED <<chainVars, dbVars, cursorVars, batch, stage, success, faultVars>>

\* Mutant of FetchLogs: the range is left open at its end ("latest").
FetchLogsToLatest ==
  /\ pc = "fetch"
  /\ batch' = Logs(lastBlockNum, head)
  /\ pc' = IF batch' = {} THEN "empty" ELSE "save"
  /\ stage' = IF batch' = {} THEN 0 ELSE Stake
  /\ UNCHANGED <<chainVars, dbVars, cursorVars, targetBlockNum, success, faultVars>>

\* eth_getLogs over the range, both ends included.
FetchLogs ==
  /\ pc = "fetch"
  /\ batch' = Logs(lastBlockNum, targetBlockNum)
  /\ pc' = IF batch' = {} THEN "empty" ELSE "save"
  /\ stage' = IF batch' = {} THEN 0 ELSE Stake
  /\ UNCHANGED <<chainVars, dbVars, cursorVars, targetBlockNum, success, faultVars>>

\* eth_getLogs fails: the error is logged, the inner loop continues, and the
\* pass goes on as one that found no logs.
FetchFails ==
  /\ pc = "fetch" /\ rpcFaults < MaxRpcFaults
  /\ rpcFaults' = rpcFaults + 1
  /\ pc' = "empty"
  /\ UNCHANGED <<chainVars, dbVars, cursorVars, passVars, reorgs, crashes, dbFaults>>

\* Mutant of EmptyPass: updateBlockNumber is forgotten.
EmptyPassUnsaved ==
  /\ pc = "empty"
  /\ lastBlockNum' = targetBlockNum + 1
  /\ pc' = "idle" /\ EndPass
  /\ UNCHANGED <<chainVars, dbVars, bootBlock, faultVars>>

\* Mutant of EmptyPass: the next range starts one block too far.
EmptyPassSkips ==
  /\ pc = "empty"
  /\ dbLastBlock' = targetBlockNum
  /\ lastBlockNum' = targetBlockNum + 2
  /\ pc' = "idle" /\ EndPass
  /\ UNCHANGED <<chainVars, stored, bootBlock, faultVars>>

\* A pass without logs: updateBlockNumber, then lastBlockNum moves on.
EmptyPass ==
  /\ pc = "empty"
  /\ dbLastBlock' = targetBlockNum
  /\ lastBlockNum' = targetBlockNum + 1
  /\ pc' = "idle" /\ EndPass
  /\ UNCHANGED <<chainVars, stored, bootBlock, faultVars>>

-----------------------------------------------------------------------------
(***************************************************************************)
(* The handlers of a pass.                                                 *)
(***************************************************************************)

\* No event of this kind in the batch: the handler is not called.
SkipStage ==
  /\ pc = "save" /\ stage \in Stake..Admin
  /\ Handled(stage) = {}
  /\ stage' = stage + 1
  /\ UNCHANGED <<chainVars, dbVars, pc, cursorVars, targetBlockNum, batch,
                 success, faultVars>>

\* Mutant of StageError: the failure of the handler is not remembered.
StageErrorForgotten ==
  /\ dbFaults < MaxDbFaults
  /\ dbFaults' = dbFaults + 1
  /\ stage' = IF stage >= Claim THEN Done ELSE stage + 1
  /\ pc' = "save"
  /\ UNCHANGED <<chainVars, cursorVars, targetBlockNum, batch, success,
                 reorgs, crashes, rpcFaults>>

\* The call returned an error: the pass has failed, the loop goes on with the
\* next handler; SaveAirdropEvents returns at its first error.
StageError ==
  /\ dbFaults < MaxDbFaults
  /\ dbFaults' = dbFaults + 1
  /\ success' = FALSE
  /\ stage' = IF stage >= Claim THEN Done ELSE stage + 1
  /\ pc' = "save"
  /\ UNCHANGED <<chainVars, cursorVars, targetBlockNum, batch,
                 reorgs, crashes, rpcFaults>>

StageOk ==
  /\ stage' = stage + 1
  /\ pc' = "save"
  /\ UNCHANGED <<chainVars, cursorVars, targetBlockNum, batch, success, faultVars>>

\* A statement of the handler's transaction fails and it is rolled back.
HandlerFails ==
  /\ pc = "save" /\ stage \in Stake..Admin /\ Handled(stage) # {}
  /\ StageError
  /\ UNCHANGED dbVars

\* updateDbUserAmount: records, user totals and the block number of the chain
\* row are written in one transaction.
StakeWrites ==
  /\ pc = "save" /\ stage = Stake /\ Handled(Stake) # {}
  /\ stored' = StoredBy(Stake)
  /\ dbLastBlock' = targetBlockNum

StakeCommit == StakeWrites /\ StageOk

\* ... committed, but the acknowledgement never arrives.
StakeCommitUnacknowledged == StakeWrites /\ StageError

\* Mutant of HeightWrite: the first block of the range is written, not the last.
HeightWriteFirst ==
  /\ pc = "save" /\ stage \in Pool..Admin /\ Handled(stage) # {}
  /\ dbLastBlock' = lastBlockNum
  /\ pc' = "commit"
  /\ UNCHANGED <<chainVars, stored, cursorVars, passVars, faultVars>>

\* The other handlers write the block number through the global connection
\* while their own transaction is still open: it is visible at once.
HeightWrite ==
  /\ pc = "save" /\ stage \in Pool..Admin /\ Handled(stage) # {}
  /\ dbLastBlock' = targetBlockNum
  /\ pc' = "commit"
  /\ UNCHANGED <<chainVars, stored, cursorVars, passVars, faultVars>>

RowsWrite ==
  /\ pc = "commit"
  /\ stored' = StoredBy(stage)
  /\ UNCHANGED dbLastBlock

RowsCommit == RowsWrite /\ StageOk

RowsCommitUnacknowledged == RowsWrite /\ StageError

\* The commit fails after the block number was written: the rows are lost.
RowsRollback ==
  /\ pc = "commit"
  /\ StageError
  /\ UNCHANGED dbVars

-----------------------------------------------------------------------------
(***************************************************************************)
(* The end of a pass.                                                      *)
(***************************************************************************)

Parsed == {e \in batch : Kind[e] # Unhandled}

\* Mutant of RetryPass: lastBlockNum moves although a handler failed.
RetryPassAdvances ==
  /\ pc = "save" /\ stage = Done /\ ~success
  /\ lastBlockNum' = targetBlockNum + 1
  /\ pc' = "idle" /\ EndPass
  /\ UNCHANGED <<chainVars, dbVars, bootBlock, faultVars>>

\* Mutant of RetryPass: a failed pass steps back one block, below zero too.
RetryPassStepsBack ==
  /\ pc = "save" /\ stage = Done /\ ~success
  /\ lastBlockNum' = lastBlockNum - 1
  /\ pc' = "idle" /\ EndPass
  /\ UNCHANGED <<chainVars, dbVars, bootBlock, faultVars>>

\* Every handler succeeded: lastBlockNum moves past the range.  When nothing
\* was parsed the block number is written here.
FinishPass ==
  /\ pc = "save" /\ stage = Done /\ success
  /\ dbLastBlock' = IF Parsed = {} THEN targetBlockNum ELSE dbLastBlock
  /\ lastBlockNum' = targetBlockNum + 1
  /\ pc' = "idle" /\ EndPass
  /\ UNCHANGED <<chainVars, stored, bootBlock, faultVars>>

\* A handler failed: lastBlockNum stays and the next tick reads the range again.
RetryPass ==
  /\ pc = "save" /\ stage = Done /\ ~success
  /\ pc' = "idle" /\ EndPass
  /\ UNCHANGED <<chainVars, dbVars, cursorVars, faultVars>>

\* updateBlockNumber fails in a pass with nothing parsed.
HeightWriteFails ==
  /\ \/ pc = "empty"
     \/ pc = "save" /\ stage = Done /\ success /\ Parsed = {}
  /\ dbFaults < MaxDbFaults
  /\ dbFaults' = dbFaults + 1
  /\ pc' = "idle" /\ EndPass
  /\ UNCHANGED <<chainVars, dbVars, cursorVars, reorgs, crashes, rpcFaults>>

-----------------------------------------------------------------------------
Chain == Mine \/ \E depth \in 1..MaxReorgDepth : Reorg(depth)

\* The steps of the goroutine in which every call it makes succeeds.
Progress ==
  \/ Boot \/ Tick \/ FetchLogs \/ EmptyPass
  \/ SkipStage \/ StakeCommit \/ HeightWrite \/ RowsCommit
  \/ FinishPass \/ RetryPass

Faults ==
  \/ Crash \/ FetchFails \/ HandlerFails \/ StakeCommitUnacknowledged
  \/ RowsCommitUnacknowledged \/ RowsRollback \/ HeightWriteFails

Next == Chain \/ Progress \/ Faults

Spec == Init /\ [][Next]_vars

\* The chain keeps producing blocks; the ticker keeps firing and the goroutine
\* is scheduled, so a call that can succeed is made.
Fairness == WF_vars(Mine) /\ WF_vars(Progress)

FairSpec == Spec /\ Fairness
-----------------------------------------------------------------------------
(***************************************************************************)
(* Properties.                                                             *)
(***************************************************************************)

\* Within the life of a process nothing is skipped: as long as eth_getLogs has
\* not failed, every handled event whose block the listener has moved past since
\* it was started is in the database, whatever handlers failed and were retried
\* on the way.  (lastBlockNum may only move when the pass succeeded.)
NoLossSinceBoot ==
  rpcFaults = 0 =>
    \A e \in Events :
      /\ Kind[e] # Unhandled
      /\ blockOf[e] > 0 /\ blockOf[e] >= bootBlock /\ blockOf[e] < lastBlockNum
      => stored[e] >= 1

\* Nothing is in the database that the chain has since dropped: the six blocks
\* the listener stays behind the head protect every row it writes.
NoPhantom == \A e \in Events : stored[e] >= 1 => blockOf[e] > 0

\* How often an event may be counted.  Each crash, failed database call and
\* reorganisation costs at most one repetition, and claims and the airdrop
\* upserts are never repeated: their statements are idempotent.
DuplicatesBounded ==
  \A e \in Events :
    stored[e] <= IF Kind[e] >= Claim THEN 1 ELSE 1 + crashes + dbFaults + reorgs

\* The position in memory is never more than one block past the one in the
\* database, so a restart goes back by at most the block it reads twice.
CursorBacked == pc # "down" => lastBlockNum <= dbLastBlock + 1

\* A pass reads confirmed blocks only, however long it takes and whatever the
\* chain does meanwhile.  (The loop skips a tick when "the current block height
\* is insufficient"; the test is made on the difference of two uint64.)
TargetConfirmed ==
  pc \notin {"down", "idle"} => targetBlockNum + Confirmations <= head

\* chain.last_block_num never goes back, although each handler overwrites it
\* with the target of its own pass and failed passes are repeated.
HeightMonotone == [][dbLastBlock' >= dbLastBlock]_vars

\* Every handled event that comes to rest on a block deep enough to be read is
\* stored in the end, unless a crash or a failed eth_getLogs intervened.  The tick
\* condition "target <= lastBlockNum" makes the listener wait for one block more
\* than the confirmations, hence the strict bound.
EventuallyStored ==
  \A e \in Events :
    <>[](/\ Kind[e] # Unhandled /\ crashes = 0 /\ rpcFaults = 0
         /\ blockOf[e] > InitLastBlock /\ blockOf[e] < MaxHead - Confirmations)
    => <>(stored[e] >= 1)

\* Whatever bounded sequence of crashes and failures occurs, the listener ends
\* up waiting at the last confirmed block.
CatchesUp == <>[](pc = "idle" /\ lastBlockNum >= MaxHead - Confirmations)

-----------------------------------------------------------------------------
(***************************************************************************)
(* What the repository says and the code does not do.                      *)
(***************************************************************************)

\* The loop's comment ("when all events were processed, update the block number")
\* and the description of the column ("last processed block"): when no pass is
\* running, the events of the blocks up to last_block_num have been stored.
HeightMeansStored ==
  pc = "idle" =>
    \A e \in Events :
      /\ Kind[e] # Unhandled
      /\ blockOf[e] > InitLastBlock /\ blockOf[e] <= dbLastBlock
      => stored[e] >= 1

\* last_block_num is "the last processed block": no block is processed twice, so
\* without any failure of a call each event counts once.
ProcessedOnce == dbFaults = 0 /\ reorgs = 0 => \A e \in Events : stored[e] <= 1
=============================================================================
