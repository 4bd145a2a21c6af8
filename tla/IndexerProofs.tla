---------------------------- MODULE IndexerProofs ----------------------------
(***************************************************************************)
(* Theorems about Indexer, for every value of its constants; the last of   *)
(* them is that it implements EventStore.                                  *)
(***************************************************************************)
EXTENDS IndexerStore, TLAPS

USE ConstantsOK
USE DEF ConstantsOK, Unhandled, Stake, Pool, Claim, Total, Admin, Done

-----------------------------------------------------------------------------
(***************************************************************************)
(* Type correctness.  TypeOK is not inductive alone: a commit that succeeds *)
(* increments stage, which stays in range because only the handlers with a  *)
(* separate commit step are ever in it.                                     *)
(***************************************************************************)
\* The uint64 subtraction of the tick yields a block number again.
LEMMA Sub64Type == ASSUME NEW a \in 0..MaxHead
                   PROVE  Sub64(a, Confirmations) \in Nat
  BY DEF Sub64

\* What a handler adds to the tables keeps them tables of counts.
LEMMA StoredByType == ASSUME TypeOK, NEW k \in Stake..Admin
                      PROVE  StoredBy(k) \in [Events -> Nat]
  BY DEF TypeOK, StoredBy

\* A handler's error changes nothing but the counters of the pass.
LEMMA StageErrorEffect ==
  ASSUME TypeInv, stage \in Stake..Admin, StageError
  PROVE  /\ stage' \in 0..Done /\ stage' > stage /\ pc' = "save"
         /\ ~success' /\ success' \in BOOLEAN
         /\ dbFaults' = dbFaults + 1 /\ dbFaults' \in 0..MaxDbFaults
         /\ UNCHANGED <<head, blockOf, bootBlock, lastBlockNum, targetBlockNum,
                        batch, reorgs, crashes, rpcFaults>>
<1>1. ~success' /\ success' \in BOOLEAN
  BY DEF StageError
<1>2. QED
  BY <1>1 DEF StageError, TypeInv, TypeOK, chainVars, cursorVars

\* It keeps TypeInv when the tables keep their types.
LEMMA StageErrorType ==
  ASSUME TypeInv, stage \in Stake..Admin, StageError,
         stored' \in [Events -> Nat], dbLastBlock' \in Nat
  PROVE  TypeInv'
  BY StageErrorEffect DEF TypeInv, TypeOK, PassShape, InPass

\* TypeInv is inductive.
LEMMA TypeInvStep == TypeInv /\ [Next]_vars => TypeInv'
<1> SUFFICES ASSUME TypeInv, [Next]_vars PROVE TypeInv'
  OBVIOUS
<1> USE DEF TypeInv, TypeOK, PassShape, InPass, chainVars, dbVars, passVars, cursorVars, faultVars
<1>1. CASE Mine
  BY <1>1 DEF Mine
<1>2. ASSUME NEW depth \in 1..MaxReorgDepth, Reorg(depth) PROVE TypeInv'
  <2> DEFINE fork == head - depth
             dropped == {e \in Events : blockOf[e] > fork}
  <2>1. PICK at \in [dropped -> {0} \cup (fork + 1)..(head + 1)] :
          blockOf' = [e \in Events |-> IF e \in dropped THEN at[e] ELSE blockOf[e]]
    BY <1>2 DEF Reorg
  <2>2. fork + 1 \in Nat /\ head + 1 <= MaxHead /\ fork \in Int
    BY <1>2 DEF Reorg
  <2>3. \A e \in dropped : at[e] \in 0..MaxHead
    BY <2>1, <2>2
  <2> HIDE DEF fork, dropped
  <2>4. blockOf' \in [Events -> 0..MaxHead]
    BY <2>1, <2>3
  <2>5. QED
    BY <1>2, <2>4 DEF Reorg
<1>3. CASE Boot
  BY <1>3 DEF Boot
<1>4. CASE Crash
  BY <1>4 DEF Crash, EndPass
<1>5. CASE Tick
  <2>1. Sub64(head, Confirmations) \in Nat
    BY Sub64Type
  <2>2. QED
    BY <1>5, <2>1 DEF Tick
<1>6. CASE FetchLogs
  BY <1>6 DEF FetchLogs, Logs
<1>7. CASE FetchFails
  BY <1>7 DEF FetchFails
<1>8. CASE EmptyPass
  BY <1>8 DEF EmptyPass, EndPass
<1>9. CASE SkipStage
  BY <1>9 DEF SkipStage
<1>10. CASE StakeCommit
  BY <1>10, StoredByType DEF StakeCommit, StakeWrites, StageOk
<1>11. CASE HeightWrite
  BY <1>11 DEF HeightWrite
<1>12. CASE RowsCommit
  BY <1>12, StoredByType DEF RowsCommit, RowsWrite, StageOk
<1>13. CASE FinishPass
  BY <1>13 DEF FinishPass, EndPass
<1>14. CASE RetryPass
  BY <1>14 DEF RetryPass, EndPass
<1>15. CASE HandlerFails
  BY <1>15, StageErrorType DEF HandlerFails
<1>16. CASE StakeCommitUnacknowledged
  <2>1. stored' \in [Events -> Nat] /\ dbLastBlock' \in Nat
    BY <1>16, StoredByType DEF StakeCommitUnacknowledged, StakeWrites
  <2>2. QED
    BY <1>16, <2>1, StageErrorType DEF StakeCommitUnacknowledged, StakeWrites
<1>17. CASE RowsCommitUnacknowledged
  <2>1. stored' \in [Events -> Nat] /\ dbLastBlock' \in Nat
    BY <1>17, StoredByType DEF RowsCommitUnacknowledged, RowsWrite
  <2>2. QED
    BY <1>17, <2>1, StageErrorType DEF RowsCommitUnacknowledged, RowsWrite
<1>18. CASE RowsRollback
  BY <1>18, StageErrorType DEF RowsRollback
<1>19. CASE HeightWriteFails
  BY <1>19 DEF HeightWriteFails, EndPass
<1>20. CASE UNCHANGED vars
  BY <1>20 DEF vars
<1>21. QED
  BY <1>1, <1>2, <1>3, <1>4, <1>5, <1>6, <1>7, <1>8, <1>9, <1>10, <1>11, <1>12,
     <1>13, <1>14, <1>15, <1>16, <1>17, <1>18, <1>19, <1>20
     DEF Next, Chain, Progress, Faults

\* The strengthened type invariant holds in every reachable state.
LEMMA TypeInvariance == Spec => []TypeInv
<1>1. Init => TypeInv
  BY DEF Init, TypeInv, TypeOK, PassShape, InPass
<1>2. QED
  BY <1>1, TypeInvStep, PTL DEF Spec

\* Every variable keeps its type: block numbers and counters never leave the
\* naturals, whatever the order of failures.
THEOREM TypeCorrect == Spec => []TypeOK
  BY TypeInvariance, PTL DEF TypeInv

-----------------------------------------------------------------------------
(***************************************************************************)
(* Counting.  Every step that adds to FaultCount pays for the repetition it *)
(* may cause; every step that stores an event consumes its Pending slot;    *)
(* and lastBlockNum moves exactly when the events below it were counted.    *)
(***************************************************************************)

\* A pass always has a range to read.
LEMMA RangeInvStep == TypeInv /\ RangeInv /\ [Next]_vars => RangeInv'
<1> SUFFICES ASSUME TypeInv, RangeInv, [Next]_vars PROVE RangeInv'
  OBVIOUS
<1> USE DEF TypeInv, TypeOK, RangeInv, Reading, chainVars, dbVars, passVars, cursorVars, faultVars
<1>1. CASE Chain
  BY <1>1 DEF Chain, Mine, Reorg
<1>2. CASE Tick
  <2>1. Sub64(head, Confirmations) \in Nat
    BY Sub64Type
  <2>2. QED
    BY <1>2, <2>1 DEF Tick
<1>3. CASE Boot \/ FetchLogs \/ EmptyPass \/ SkipStage \/ StakeCommit \/ HeightWrite
           \/ RowsCommit \/ FinishPass \/ RetryPass
  BY <1>3 DEF Boot, FetchLogs, EmptyPass, SkipStage, StakeCommit, StakeWrites, StageOk,
              HeightWrite, RowsCommit, RowsWrite, FinishPass, RetryPass
<1>4. CASE Faults
  BY <1>4 DEF Faults, Crash, FetchFails, HandlerFails, StakeCommitUnacknowledged, StakeWrites,
              StageError, RowsCommitUnacknowledged, RowsWrite, RowsRollback, HeightWriteFails
<1>5. CASE UNCHANGED vars
  BY <1>5 DEF vars
<1>6. QED
  BY <1>1, <1>2, <1>3, <1>4, <1>5 DEF Next, Progress

\* A handler stores an event of its own at most once more, the airdrop handlers
\* at most once in all, and no other event.
LEMMA StoredByAdds ==
  ASSUME TypeInv, NEW k \in Stake..Admin, NEW e \in Events
  PROVE  /\ StoredBy(k)[e] \in Nat
         /\ StoredBy(k)[e] <= stored[e] + (IF e \in batch /\ Kind[e] = k THEN 1 ELSE 0)
         /\ StoredBy(k)[e] >= stored[e] \/ (Kind[e] >= Claim /\ StoredBy(k)[e] = 1)
         /\ Kind[e] >= Claim /\ stored[e] <= 1 => StoredBy(k)[e] <= 1
         /\ e \in batch /\ Kind[e] = k => StoredBy(k)[e] >= 1
         /\ ~(e \in batch /\ Kind[e] = k) => StoredBy(k)[e] = stored[e]
  BY DEF StoredBy, Handled, TypeInv, TypeOK

\* CountInv is inductive, relative to types and to ranges being nonempty.
LEMMA CountInvStep == TypeInv /\ RangeInv /\ CountInv /\ [Next]_vars => CountInv'
<1> SUFFICES ASSUME TypeInv, RangeInv, CountInv, [Next]_vars, NEW e \in Events
             PROVE  /\ stored'[e] + (IF Pending(e)' THEN 1 ELSE 0)
                          <= FaultCount' + (IF Passed(e)' THEN 1 ELSE 0)
                    /\ Kind[e] >= Claim => stored'[e] <= 1
  BY DEF CountInv
<1> DEFINE Goal == /\ stored'[e] + (IF Pending(e)' THEN 1 ELSE 0)
                          <= FaultCount' + (IF Passed(e)' THEN 1 ELSE 0)
                   /\ Kind[e] >= Claim => stored'[e] <= 1
<1>0. /\ stored[e] + (IF Pending(e) THEN 1 ELSE 0)
            <= FaultCount + (IF Passed(e) THEN 1 ELSE 0)
      /\ Kind[e] >= Claim => stored[e] <= 1
      /\ stored[e] \in Nat /\ Kind[e] \in Unhandled..Admin /\ blockOf[e] \in 0..MaxHead
      /\ FaultCount \in Nat
  BY DEF CountInv, TypeInv, TypeOK, FaultCount
<1> USE <1>0 DEF Pending, Passed, Upper, FaultCount, InPass, TypeInv, TypeOK, PassShape,
                 chainVars, dbVars, passVars, cursorVars, faultVars
<1>1. CASE Mine
  <2>1. blockOf'[e] = blockOf[e] \/ blockOf[e] = 0
    BY <1>1 DEF Mine
  <2>2. QED
    BY <1>1, <2>1 DEF Mine
<1>2. ASSUME NEW depth \in 1..MaxReorgDepth, Reorg(depth) PROVE Goal
  <2>1. /\ UNCHANGED <<stored, pc, batch, stage, success, targetBlockNum, lastBlockNum,
                       crashes, dbFaults>>
        /\ reorgs' = reorgs + 1
    BY <1>2 DEF Reorg
  <2>2. QED
    BY <2>1
<1>3. CASE Boot
  BY <1>3 DEF Boot
<1>4. CASE Crash
  BY <1>4 DEF Crash, EndPass
<1>5. CASE Tick
  BY <1>5 DEF Tick
<1>6. CASE FetchLogs
  <2>1. e \in batch' => blockOf[e] > 0 /\ blockOf[e] <= targetBlockNum /\ blockOf[e] >= lastBlockNum
    BY <1>6 DEF FetchLogs, Logs
  <2>2. lastBlockNum < targetBlockNum
    BY <1>6 DEF FetchLogs, RangeInv, Reading
  <2>3. QED
    BY <1>6, <2>1, <2>2 DEF FetchLogs
<1>7. CASE FetchFails
  BY <1>7 DEF FetchFails
<1>8. CASE EmptyPass
  BY <1>8 DEF EmptyPass, EndPass, RangeInv, Reading
<1>9. CASE SkipStage
  <2>1. e \in batch => Kind[e] # stage
    BY <1>9 DEF SkipStage, Handled
  <2>2. QED
    BY <1>9, <2>1 DEF SkipStage
<1>10. CASE StakeCommit
  BY <1>10, StoredByAdds DEF StakeCommit, StakeWrites, StageOk
<1>11. CASE HeightWrite
  BY <1>11 DEF HeightWrite
<1>12. CASE RowsCommit
  BY <1>12, StoredByAdds DEF RowsCommit, RowsWrite, StageOk
<1>13. CASE FinishPass
  BY <1>13 DEF FinishPass, EndPass
<1>14. CASE RetryPass
  BY <1>14 DEF RetryPass, EndPass
<1>15. CASE HandlerFails
  BY <1>15, StageErrorEffect DEF HandlerFails, RangeInv, Reading
<1>16. CASE StakeCommitUnacknowledged
  BY <1>16, StageErrorEffect, StoredByAdds DEF StakeCommitUnacknowledged, StakeWrites, RangeInv, Reading
<1>17. CASE RowsCommitUnacknowledged
  BY <1>17, StageErrorEffect, StoredByAdds DEF RowsCommitUnacknowledged, RowsWrite, RangeInv, Reading
<1>18. CASE RowsRollback
  BY <1>18, StageErrorEffect DEF RowsRollback, RangeInv, Reading
<1>19. CASE HeightWriteFails
  BY <1>19 DEF HeightWriteFails, EndPass, RangeInv, Reading
<1>20. CASE UNCHANGED vars
  BY <1>20 DEF vars
<1>21. QED
  BY <1>1, <1>2, <1>3, <1>4, <1>5, <1>6, <1>7, <1>8, <1>9, <1>10, <1>11, <1>12,
     <1>13, <1>14, <1>15, <1>16, <1>17, <1>18, <1>19, <1>20
     DEF Next, Chain, Progress, Faults

\* Duplicates are bounded by the faults: an event is counted at most once more
\* than there were crashes, database faults and reorganisations, and claims and
\* airdrop upserts at most once.
THEOREM DuplicatesAreBounded == Spec => []DuplicatesBounded
<1>1. Init => RangeInv /\ CountInv
  BY DEF Init, RangeInv, Reading, CountInv, Pending, Passed, FaultCount, InPass
<1>2. TypeInv /\ CountInv => DuplicatesBounded
  <2> SUFFICES ASSUME TypeInv, CountInv, NEW e \in Events
               PROVE  stored[e] <= IF Kind[e] >= Claim THEN 1 ELSE 1 + crashes + dbFaults + reorgs
    BY DEF DuplicatesBounded
  <2>1. stored[e] \in Nat /\ FaultCount \in Nat
    BY DEF TypeInv, TypeOK, FaultCount
  <2>2. stored[e] <= FaultCount + 1 /\ (Kind[e] >= Claim => stored[e] <= 1)
    BY <2>1 DEF CountInv
  <2>3. QED
    BY <2>2 DEF FaultCount, TypeInv, TypeOK
<1>3. QED
  BY <1>1, <1>2, TypeInvariance, TypeInvStep, RangeInvStep, CountInvStep, PTL DEF Spec

-----------------------------------------------------------------------------
(***************************************************************************)
(* The block number in the database.                                       *)
(***************************************************************************)

\* HeightInv is inductive relative to types and nonempty ranges.
LEMMA HeightInvStep == TypeInv /\ RangeInv /\ HeightInv /\ [Next]_vars => HeightInv'
<1> SUFFICES ASSUME TypeInv, RangeInv, HeightInv, [Next]_vars PROVE HeightInv'
  OBVIOUS
<1> USE DEF TypeInv, TypeOK, PassShape, InPass, HeightInv, HandledSoFar, RangeInv, Reading,
            chainVars, dbVars, passVars, cursorVars, faultVars
<1>1. CASE Chain
  BY <1>1 DEF Chain, Mine, Reorg
<1>2. CASE Boot \/ Tick
  BY <1>2 DEF Boot, Tick
<1>3. CASE FetchLogs
  BY <1>3 DEF FetchLogs, Logs
<1>4. CASE EmptyPass
  BY <1>4 DEF EmptyPass, EndPass
<1>5. CASE SkipStage
  BY <1>5 DEF SkipStage, Handled
<1>6. CASE StakeCommit
  BY <1>6 DEF StakeCommit, StakeWrites, StageOk
<1>7. CASE HeightWrite
  BY <1>7 DEF HeightWrite
<1>8. CASE RowsCommit
  BY <1>8 DEF RowsCommit, RowsWrite, StageOk
<1>9. CASE FinishPass
  <2>1. Parsed # {} => HandledSoFar # {}
    BY <1>9 DEF FinishPass, Parsed
  <2>2. QED
    BY <1>9, <2>1 DEF FinishPass, EndPass
<1>10. CASE RetryPass
  BY <1>10 DEF RetryPass, EndPass
<1>11. CASE Crash \/ FetchFails
  BY <1>11 DEF Crash, EndPass, FetchFails
<1>12. ASSUME StageError, stage \in Stake..Admin, pc \in {"save", "commit"},
              dbLastBlock' \in {dbLastBlock, targetBlockNum}
       PROVE  HeightInv'
  BY <1>12, StageErrorEffect
<1>13. CASE HandlerFails \/ StakeCommitUnacknowledged \/ RowsCommitUnacknowledged \/ RowsRollback
  BY <1>12, <1>13 DEF HandlerFails, StakeCommitUnacknowledged, StakeWrites,
                      RowsCommitUnacknowledged, RowsWrite, RowsRollback
<1>14. CASE HeightWriteFails
  BY <1>14 DEF HeightWriteFails, EndPass
<1>15. CASE UNCHANGED vars
  BY <1>15 DEF vars
<1>16. QED
  BY <1>1, <1>2, <1>3, <1>4, <1>5, <1>6, <1>7, <1>8, <1>9, <1>10, <1>11, <1>13,
     <1>14, <1>15 DEF Next, Progress, Faults

\* A restart goes back by at most one block: the position in memory never runs
\* ahead of the block number in the database by more.
THEOREM CursorIsBacked == Spec => []CursorBacked
<1>1. Init => RangeInv /\ HeightInv
  BY DEF Init, RangeInv, Reading, HeightInv, InPass
<1>2. HeightInv => CursorBacked
  BY DEF HeightInv, CursorBacked
<1>3. QED
  BY <1>1, <1>2, TypeInvariance, TypeInvStep, RangeInvStep, HeightInvStep, PTL DEF Spec

\* On a chain older than the confirmations the subtraction of the tick does not
\* wrap, and TargetInv is inductive.
LEMMA TargetInvStep ==
  InitHead >= Confirmations => (TypeInv /\ RangeInv /\ TargetInv /\ [Next]_vars => TargetInv')
<1> SUFFICES ASSUME InitHead >= Confirmations, TypeInv, RangeInv, TargetInv, [Next]_vars
             PROVE  TargetInv'
  OBVIOUS
<1> USE DEF TypeInv, TypeOK, PassShape, InPass, TargetInv, RangeInv, Reading,
            chainVars, dbVars, passVars, cursorVars, faultVars
<1>1. CASE Chain
  <2>1. /\ head' = head + 1
        /\ UNCHANGED <<pc, dbLastBlock, lastBlockNum, targetBlockNum>>
    BY <1>1 DEF Chain, Mine, Reorg
  <2>2. QED
    BY <2>1
<1>2. CASE Boot
  BY <1>2 DEF Boot
<1>3. CASE Tick
  <2>1. Sub64(head, Confirmations) = head - Confirmations
    BY DEF Sub64
  <2>2. QED
    BY <1>3, <2>1 DEF Tick
<1>4. CASE FetchLogs \/ FetchFails \/ SkipStage
  BY <1>4 DEF FetchLogs, FetchFails, SkipStage
<1>5. CASE EmptyPass
  BY <1>5 DEF EmptyPass, EndPass
<1>6. CASE StakeCommit \/ HeightWrite \/ RowsCommit
  BY <1>6 DEF StakeCommit, StakeWrites, StageOk, HeightWrite, RowsCommit, RowsWrite
<1>7. CASE FinishPass \/ RetryPass
  BY <1>7 DEF FinishPass, RetryPass, EndPass
<1>8. CASE Crash
  BY <1>8 DEF Crash, EndPass
<1>9. ASSUME StageError, stage \in Stake..Admin, pc \in {"save", "commit"},
             dbLastBlock' \in {dbLastBlock, targetBlockNum}
      PROVE  TargetInv'
  BY <1>9, StageErrorEffect
<1>10. CASE HandlerFails \/ StakeCommitUnacknowledged \/ RowsCommitUnacknowledged \/ RowsRollback
  BY <1>9, <1>10 DEF HandlerFails, StakeCommitUnacknowledged, StakeWrites,
                     RowsCommitUnacknowledged, RowsWrite, RowsRollback
<1>11. CASE HeightWriteFails
  BY <1>11 DEF HeightWriteFails, EndPass
<1>12. CASE UNCHANGED vars
  BY <1>12 DEF vars
<1>13. QED
  BY <1>1, <1>2, <1>3, <1>4, <1>5, <1>6, <1>7, <1>8, <1>10, <1>11, <1>12
     DEF Next, Progress, Faults

\* The invariants above together, for the theorems that need them all.
LEMMA TargetInvariance ==
  ASSUME InitHead >= Confirmations
  PROVE  Spec => [](TypeInv /\ RangeInv /\ TargetInv)
<1>1. Init => RangeInv /\ TargetInv
  BY DEF Init, RangeInv, TargetInv, Reading
<1>2. TypeInv /\ RangeInv /\ TargetInv /\ [Next]_vars => TargetInv'
  BY TargetInvStep
<1>3. QED
  BY <1>1, <1>2, TypeInvariance, RangeInvStep, PTL DEF Spec

\* A pass reads confirmed blocks only, on every chain that had the number of
\* confirmations when the system was first started.
THEOREM TargetIsConfirmed ==
  ASSUME InitHead >= Confirmations
  PROVE  Spec => []TargetConfirmed
<1>1. TypeInv /\ TargetInv => TargetConfirmed
  BY DEF TypeInv, TypeOK, TargetInv, TargetConfirmed, Reading
<1>2. QED
  BY <1>1, TargetInvariance, PTL

\* chain.last_block_num never goes back: a failed pass leaves it at most at the
\* target of that pass, and the target of the repetition is not smaller.
THEOREM HeightIsMonotone ==
  ASSUME InitHead >= Confirmations
  PROVE  Spec => HeightMonotone
<1>1. TypeInv /\ TargetInv /\ [Next]_vars => [dbLastBlock' >= dbLastBlock]_vars
  <2> SUFFICES ASSUME TypeInv, TargetInv, Next
               PROVE  dbLastBlock' >= dbLastBlock
    OBVIOUS
  <2>1. dbLastBlock' = dbLastBlock \/ (Reading /\ dbLastBlock' = targetBlockNum)
    BY DEF Next, Chain, Mine, Reorg, Progress, Boot, Tick, FetchLogs, EmptyPass, SkipStage,
           StakeCommit, StakeWrites, StageOk, HeightWrite, RowsCommit, RowsWrite, FinishPass,
           RetryPass, Faults, Crash, FetchFails, HandlerFails, StakeCommitUnacknowledged,
           RowsCommitUnacknowledged, RowsRollback, HeightWriteFails, Reading, dbVars
  <2>2. QED
    BY <2>1 DEF TypeInv, TypeOK, TargetInv
<1>2. QED
  BY <1>1, TargetInvariance, PTL DEF Spec, HeightMonotone

-----------------------------------------------------------------------------
(***************************************************************************)
(* Reorganisations no deeper than the confirmations never touch a block a   *)
(* pass has read.                                                           *)
(***************************************************************************)

\* A step of the chain keeps every event behind the confirmations where it is,
\* and moves others only to blocks that are not behind them.
LEMMA ShallowChain ==
  ASSUME MaxReorgDepth <= Confirmations, TypeInv, Chain, NEW e \in Events
  PROVE  /\ head' = head + 1
         /\ \/ blockOf'[e] = blockOf[e]
            \/ /\ blockOf[e] = 0 \/ blockOf[e] + Confirmations > head
               /\ blockOf'[e] = 0 \/ blockOf'[e] + Confirmations > head
<1> USE DEF TypeInv, TypeOK
<1>1. CASE Mine
  BY <1>1 DEF Mine
<1>2. ASSUME NEW depth \in 1..MaxReorgDepth, Reorg(depth)
      PROVE  /\ head' = head + 1
             /\ \/ blockOf'[e] = blockOf[e]
                \/ /\ blockOf[e] + Confirmations > head
                   /\ blockOf'[e] = 0 \/ blockOf'[e] + Confirmations > head
  <2> DEFINE fork == head - depth
             dropped == {f \in Events : blockOf[f] > fork}
  <2>1. PICK at \in [dropped -> {0} \cup (fork + 1)..(head + 1)] :
          blockOf' = [f \in Events |-> IF f \in dropped THEN at[f] ELSE blockOf[f]]
    BY <1>2 DEF Reorg
  <2>2. CASE e \in dropped
    <3>1. blockOf'[e] = at[e] /\ at[e] \in {0} \cup (fork + 1)..(head + 1)
      BY <2>1, <2>2
    <3>2. blockOf[e] > fork
      BY <2>2
    <3>3. QED
      BY <1>2, <3>1, <3>2 DEF Reorg
  <2>3. CASE e \notin dropped
    BY <1>2, <2>1, <2>3 DEF Reorg
  <2>4. QED
    BY <2>2, <2>3
<1>3. QED
  BY <1>1, <1>2 DEF Chain

\* SettledInv is inductive on such a chain.
LEMMA SettledInvStep ==
  ASSUME MaxReorgDepth <= Confirmations
  PROVE  TypeInv /\ TargetInv /\ SettledInv /\ [Next]_vars => SettledInv'
<1> SUFFICES ASSUME TypeInv, TargetInv, SettledInv, [Next]_vars, NEW e \in Events,
                    stored'[e] >= 1 \/ e \in batch'
             PROVE  Settled(e)'
  BY DEF SettledInv
<1> USE DEF TypeInv, TypeOK, PassShape, Settled, chainVars, dbVars, passVars, cursorVars, faultVars
<1>1. CASE Chain
  <2>1. UNCHANGED <<stored, batch>>
    BY <1>1 DEF Chain, Mine, Reorg
  <2>2. Settled(e)
    BY <2>1 DEF SettledInv
  <2>3. QED
    BY <1>1, <2>2, ShallowChain
<1>2. CASE FetchLogs
  BY <1>2 DEF FetchLogs, Logs, TargetInv, Reading, SettledInv
<1>3. CASE StakeCommit \/ StakeCommitUnacknowledged
  <2>1. batch' = batch /\ UNCHANGED <<head, blockOf>> /\ stored' = StoredBy(Stake)
    BY <1>3 DEF StakeCommit, StakeCommitUnacknowledged, StakeWrites, StageOk, StageError
  <2>2. QED
    BY <2>1, StoredByAdds DEF SettledInv
<1>4. CASE RowsCommit \/ RowsCommitUnacknowledged
  <2>1. batch' = batch /\ UNCHANGED <<head, blockOf>> /\ stored' = StoredBy(stage)
        /\ stage \in Stake..Admin
    BY <1>4 DEF RowsCommit, RowsCommitUnacknowledged, RowsWrite, StageOk, StageError
  <2>2. QED
    BY <2>1, StoredByAdds DEF SettledInv
<1>5. ASSUME UNCHANGED <<head, blockOf, stored>>, batch' = batch \/ batch' = {}
      PROVE  Settled(e)'
  BY <1>5 DEF SettledInv
<1>6. CASE Boot \/ Tick \/ EmptyPass \/ SkipStage \/ HeightWrite \/ FinishPass \/ RetryPass
  BY <1>5, <1>6 DEF Boot, Tick, EmptyPass, EndPass, SkipStage, HeightWrite, FinishPass, RetryPass
<1>7. CASE Crash \/ FetchFails \/ HandlerFails \/ RowsRollback \/ HeightWriteFails
  BY <1>5, <1>7 DEF Crash, EndPass, FetchFails, HandlerFails, RowsRollback, StageError, HeightWriteFails
<1>8. CASE UNCHANGED vars
  BY <1>5, <1>8 DEF vars
<1>9. QED
  BY <1>1, <1>2, <1>3, <1>4, <1>6, <1>7, <1>8 DEF Next, Progress, Faults

\* No row outlives its event: with reorganisations no deeper than the
\* confirmations the database never holds an event the chain has dropped,
\* whatever calls fail and wherever the process crashes.
THEOREM NothingPhantom ==
  ASSUME InitHead >= Confirmations, MaxReorgDepth <= Confirmations
  PROVE  Spec => []NoPhantom
<1>1. Init => SettledInv
  BY DEF Init, SettledInv
<1>2. TypeInv /\ TargetInv /\ SettledInv /\ [Next]_vars => SettledInv'
  BY SettledInvStep
<1>3. TypeInv /\ SettledInv => NoPhantom
  BY DEF SettledInv, Settled, NoPhantom
<1>4. QED
  BY <1>1, <1>2, <1>3, TargetInvariance, PTL DEF Spec

-----------------------------------------------------------------------------
(***************************************************************************)
(* Nothing is skipped.  LossInv adds to the property what a pass knows: its *)
(* batch is all the chain shows in its range, and while it has not failed   *)
(* every event of the handlers behind it is stored.                         *)
(***************************************************************************)

\* LossInv is inductive.
LEMMA LossInvStep ==
  ASSUME InitHead >= Confirmations, MaxReorgDepth <= Confirmations
  PROVE  TypeInv /\ RangeInv /\ TargetInv /\ LossInv /\ [Next]_vars => LossInv'
<1> SUFFICES ASSUME TypeInv, RangeInv, TargetInv, LossInv, [Next]_vars, rpcFaults' = 0
             PROVE  LossInv'
  BY DEF LossInv
<1>0. rpcFaults = 0 /\ ~FetchFails
  <2>1. ~FetchFails
    BY DEF FetchFails, TypeInv, TypeOK
  <2>2. UNCHANGED rpcFaults
    BY <2>1 DEF Next, Chain, Mine, Reorg, Progress, Boot, Tick, FetchLogs, EmptyPass, SkipStage,
           StakeCommit, StakeWrites, StageOk, HeightWrite, RowsCommit, RowsWrite, FinishPass,
           RetryPass, Faults, Crash, HandlerFails, StageError, StakeCommitUnacknowledged,
           RowsCommitUnacknowledged, RowsRollback, HeightWriteFails, vars, faultVars
  <2>3. QED
    BY <2>1, <2>2
<1> USE <1>0
<1> USE DEF TypeInv, TypeOK, PassShape, InPass, RangeInv, Reading, TargetInv,
            LossInv, NoLossSinceBoot, BatchInv, CursorInv, HandledInv, HandledSoFar,
            chainVars, dbVars, passVars, cursorVars, faultVars
<1>1. CASE Chain
  <2>1. UNCHANGED <<dbLastBlock, stored, pc, bootBlock, lastBlockNum, targetBlockNum,
                    batch, stage, success>>
    BY <1>1 DEF Chain, Mine, Reorg
  <2>2. head' = head + 1 /\ CursorInv' /\ HandledInv'
    BY <1>1, <2>1 DEF Chain, Mine, Reorg
  <2>3. ASSUME NEW e \in Events
        PROVE  /\ blockOf'[e] \in 0..MaxHead
               /\ \/ blockOf'[e] = blockOf[e]
                  \/ /\ blockOf[e] = 0 \/ blockOf[e] + Confirmations > head
                     /\ blockOf'[e] = 0 \/ blockOf'[e] + Confirmations > head
    BY <1>1, ShallowChain, TypeInvStep
  <2>4. BatchInv'
    BY <2>1, <2>3
  <2>5. NoLossSinceBoot'
    BY <2>1, <2>3
  <2>6. QED
    BY <2>2, <2>4, <2>5
<1>2. CASE Boot
  BY <1>2 DEF Boot
<1>3. CASE Tick
  BY <1>3 DEF Tick
<1>4. CASE FetchLogs
  BY <1>4 DEF FetchLogs, Logs
<1>6. CASE EmptyPass
  BY <1>6 DEF EmptyPass, EndPass
<1>7. CASE SkipStage
  BY <1>7 DEF SkipStage, Handled
<1>8. ASSUME NEW k \in Stake..Admin, stage = k, pc \in {"save", "commit"},
             stored' = StoredBy(k), StageOk
      PROVE  LossInv'
  <2>1. /\ pc' = "save" /\ stage' = k + 1
        /\ UNCHANGED <<head, blockOf, bootBlock, lastBlockNum, targetBlockNum, batch, success>>
    BY <1>8 DEF StageOk
  <2>2. \A e \in Events : stored[e] >= 1 => stored'[e] >= 1
    BY <1>8, StoredByAdds
  <2>3. HandledInv'
    BY <1>8, <2>1, <2>2, StoredByAdds
  <2>4. QED
    BY <1>8, <2>1, <2>2, <2>3
<1>9. CASE StakeCommit
  BY <1>8, <1>9 DEF StakeCommit, StakeWrites
<1>10. CASE RowsCommit
  BY <1>8, <1>10 DEF RowsCommit, RowsWrite
<1>11. CASE HeightWrite
  BY <1>11 DEF HeightWrite
<1>12. CASE FinishPass
  <2>1. \A e \in batch : Kind[e] # Unhandled => stored[e] >= 1
    BY <1>12 DEF FinishPass
  <2>2. QED
    BY <1>12, <2>1 DEF FinishPass, EndPass
<1>13. CASE RetryPass
  BY <1>13 DEF RetryPass, EndPass
<1>14. CASE Crash
  BY <1>14 DEF Crash, EndPass
<1>15. ASSUME StageError, stage \in Stake..Admin, pc \in {"save", "commit"},
              \A e \in Events : stored[e] >= 1 => stored'[e] >= 1
       PROVE  LossInv'
  BY <1>15, StageErrorEffect
<1>16. CASE HandlerFails \/ RowsRollback
  BY <1>15, <1>16 DEF HandlerFails, RowsRollback
<1>17. CASE StakeCommitUnacknowledged \/ RowsCommitUnacknowledged
  <2>1. stage \in Stake..Admin /\ stored' = StoredBy(stage) /\ StageError
        /\ pc \in {"save", "commit"}
    BY <1>17 DEF StakeCommitUnacknowledged, StakeWrites, RowsCommitUnacknowledged, RowsWrite
  <2>2. \A e \in Events : stored[e] >= 1 => stored'[e] >= 1
    BY <2>1, StoredByAdds
  <2>3. QED
    BY <1>15, <2>1, <2>2
<1>18. CASE HeightWriteFails
  BY <1>18 DEF HeightWriteFails, EndPass
<1>19. CASE UNCHANGED vars
  BY <1>19 DEF vars
<1>20. QED
  BY <1>1, <1>2, <1>3, <1>4, <1>6, <1>7, <1>9, <1>10, <1>11, <1>12, <1>13,
     <1>14, <1>16, <1>17, <1>18, <1>19 DEF Next, Progress, Faults

\* Within the life of a process no handled event is skipped: with reorganisations
\* no deeper than the confirmations, and until an eth_getLogs fails, every event
\* between the block the process started from and the block it will read next is
\* in the database, for any number of crashes and failed database calls.
THEOREM NothingLost ==
  ASSUME InitHead >= Confirmations, MaxReorgDepth <= Confirmations
  PROVE  Spec => []NoLossSinceBoot
<1>1. Init => LossInv
  BY DEF Init, LossInv, NoLossSinceBoot, BatchInv, CursorInv, HandledInv, InPass
<1>2. TypeInv /\ RangeInv /\ TargetInv /\ LossInv /\ [Next]_vars => LossInv'
  BY LossInvStep
<1>3. LossInv => NoLossSinceBoot
  BY DEF LossInv, NoLossSinceBoot
<1>4. QED
  BY <1>1, <1>2, <1>3, TargetInvariance, PTL DEF Spec

-----------------------------------------------------------------------------
(***************************************************************************)
(* The invariant that the refinement needs in addition.                    *)
(***************************************************************************)

\* The position only ever moves to just behind a confirmed block, and a batch is
\* never older than the position: whatever the fault, no step reads below it.
LEMMA StoreInvStep ==
  ASSUME InitHead >= Confirmations, MaxReorgDepth <= Confirmations
  PROVE  TypeInv /\ RangeInv /\ TargetInv /\ SettledInv /\ StoreInv /\ [Next]_vars => StoreInv'
<1> SUFFICES ASSUME TypeInv, RangeInv, TargetInv, SettledInv, StoreInv, [Next]_vars
             PROVE  StoreInv'
  OBVIOUS
<1> USE DEF TypeInv, TypeOK, PassShape, InPass, RangeInv, Reading, TargetInv, StoreInv, CursorInv,
            BatchInRange, chainVars, dbVars, passVars, cursorVars, faultVars
<1>1. CASE Chain
  <2>1. head' = head + 1 /\ UNCHANGED <<bootBlock, lastBlockNum, batch>>
    BY <1>1 DEF Chain, Mine, Reorg
  <2>2. \A e \in batch : blockOf'[e] = blockOf[e]
    BY <1>1, ShallowChain DEF SettledInv, Settled
  <2>3. QED
    BY <2>1, <2>2
<1>2. CASE Boot
  BY <1>2 DEF Boot
<1>3. CASE FetchLogs
  BY <1>3 DEF FetchLogs, Logs
<1>4. CASE EmptyPass \/ FinishPass
  BY <1>4 DEF EmptyPass, FinishPass, EndPass
<1>5. CASE Crash
  BY <1>5 DEF Crash, EndPass
<1>6. CASE Tick \/ SkipStage \/ StakeCommit \/ HeightWrite \/ RowsCommit \/ RetryPass
  BY <1>6 DEF Tick, SkipStage, StakeCommit, StakeWrites, StageOk, HeightWrite, RowsCommit,
              RowsWrite, RetryPass, EndPass
<1>7. CASE FetchFails \/ HandlerFails \/ StakeCommitUnacknowledged \/ RowsCommitUnacknowledged
           \/ RowsRollback \/ HeightWriteFails
  BY <1>7 DEF FetchFails, HandlerFails, StakeCommitUnacknowledged, StakeWrites,
              RowsCommitUnacknowledged, RowsWrite, RowsRollback, StageError, HeightWriteFails, EndPass
<1>8. CASE UNCHANGED vars
  BY <1>8 DEF vars
<1>9. QED
  BY <1>1, <1>2, <1>3, <1>4, <1>5, <1>6, <1>7, <1>8 DEF Next, Progress, Faults

-----------------------------------------------------------------------------
(***************************************************************************)
(* Every step of Indexer is a step of EventStore, or changes nothing there. *)
(***************************************************************************)
\* All that is known of a state of the listener.
AllInv == /\ TypeInv /\ RangeInv /\ CountInv /\ HeightInv /\ TargetInv
          /\ SettledInv /\ LossInv /\ StoreInv

\* A new block makes the block at the confirmations final, and no other.
LEMMA ChainSettles ==
  ASSUME InitHead >= Confirmations, MaxReorgDepth <= Confirmations, AllInv, AllInv', Chain
  PROVE  Store!Settle
<1> USE DEF AllInv, TypeInv, TypeOK
<1>1. /\ head' = head + 1
      /\ UNCHANGED <<stored, dbLastBlock, pc, bootBlock, lastBlockNum, rpcFaults, crashes, dbFaults>>
      /\ reorgs' \in {reorgs, reorgs + 1}
  BY DEF Chain, Mine, Reorg, dbVars, cursorVars, faultVars
<1>2. FaultCount' \in {FaultCount, FaultCount + 1}
  <2>1. crashes \in Nat /\ dbFaults \in Nat /\ reorgs \in Nat
    OBVIOUS
  <2>2. CASE reorgs' = reorgs
    BY <1>1, <2>1, <2>2 DEF FaultCount
  <2>3. CASE reorgs' = reorgs + 1
    BY <1>1, <2>1, <2>3 DEF FaultCount
  <2>4. QED
    BY <1>1, <2>2, <2>3
<1>3. ASSUME NEW e \in Events,
             (IF Settled(e)' THEN blockOf'[e] ELSE 0) # (IF Settled(e) THEN blockOf[e] ELSE 0)
      PROVE  (IF Settled(e) THEN blockOf[e] ELSE 0) = 0
             /\ (IF Settled(e)' THEN blockOf'[e] ELSE 0) = head' - Confirmations
  BY <1>1, <1>3, ShallowChain DEF Settled
<1> DEFINE final == [e \in Events |-> IF Settled(e) THEN blockOf[e] ELSE 0]
           new == {e \in Events : final'[e] # final[e]}
<1>4. new \in SUBSET {e \in Events : final[e] = 0}
  BY <1>3
<1>5. final' = [e \in Events |-> IF e \in new THEN head' - Confirmations ELSE final[e]]
  <2>1. ASSUME NEW e \in Events
        PROVE  final'[e] = IF e \in new THEN head' - Confirmations ELSE final[e]
    BY <1>3
  <2>2. final' = [e \in Events |-> final'[e]]
    OBVIOUS
  <2>3. QED
    BY <2>1, <2>2
<1> HIDE DEF new
<1>6. \E n \in SUBSET {e \in Events : final[e] = 0} :
         final' = [e \in Events |-> IF e \in n THEN head' - Confirmations ELSE final[e]]
  BY <1>4, <1>5
<1> HIDE DEF final
<1>7. /\ head' - Confirmations = head - Confirmations + 1
      /\ UNCHANGED <<stored, dbLastBlock, pc, bootBlock, lastBlockNum, rpcFaults>>
  BY <1>1
<1>8. QED
  BY <1>2, <1>6, <1>7 DEF Store!Settle, final

\* What a pass has done so far stays within what its target allows.
LEMMA CommitForward ==
  ASSUME AllInv, dbLastBlock' = dbLastBlock \/ (Reading /\ dbLastBlock' = targetBlockNum)
  PROVE  /\ dbLastBlock' \in Nat
         /\ dbLastBlock' = dbLastBlock
            \/ (dbLastBlock' >= dbLastBlock /\ dbLastBlock' <= head - Confirmations)
  BY DEF AllInv, TypeInv, TypeOK, TargetInv, Reading

\* The number of faults is a number.
LEMMA SumType == \A x, y, z \in Nat : x + y + z \in Nat
  OBVIOUS

\* A handler stores final events of its batch, which the process has not moved
\* past, and no event more often than there were faults.
LEMMA StoredIsDelivered ==
  ASSUME AllInv, AllInv', NEW k \in Stake..Admin, stored' = StoredBy(k), InPass,
         NEW e \in Events, stored'[e] # stored[e]
  PROVE  /\ Settled(e) /\ blockOf[e] >= lastBlockNum /\ Kind[e] # Unhandled
         /\ stored'[e] = stored[e] + 1
         /\ stored'[e] <= IF Kind[e] >= Claim THEN 1 ELSE 1 + FaultCount'
<1> USE DEF AllInv, TypeInv, TypeOK
<1>1. e \in batch /\ Kind[e] = k
  BY StoredByAdds
<1>2. Settled(e) /\ blockOf[e] >= lastBlockNum /\ Kind[e] # Unhandled
  BY <1>1 DEF SettledInv, StoreInv, BatchInRange
<1>3. stored[e] \in Nat /\ stored'[e] \in Nat /\ (Kind[e] >= Claim => stored[e] <= 1)
  BY DEF CountInv
<1>4. stored'[e] = stored[e] + 1
  BY <1>1, <1>3, StoredByAdds
<1>5. FaultCount' \in Nat
  <2>1. crashes' \in Nat /\ dbFaults' \in Nat /\ reorgs' \in Nat
    OBVIOUS
  <2>2. QED
    BY <2>1, SumType DEF FaultCount
<1>6. stored'[e] <= FaultCount' + 1 /\ (Kind[e] >= Claim => stored'[e] <= 1)
  BY <1>3, <1>5 DEF CountInv
<1>7. QED
  BY <1>2, <1>4, <1>5, <1>6

\* A step of the goroutine inside a pass, successful or not, that leaves the
\* position alone is a delivery.
LEMMA DeliverStep ==
  ASSUME AllInv, AllInv', pc # "down", pc' # "down",
         UNCHANGED <<head, blockOf, bootBlock, lastBlockNum, rpcFaults>>,
         dbLastBlock' = dbLastBlock \/ (Reading /\ dbLastBlock' = targetBlockNum),
         FaultCount' \in {FaultCount, FaultCount + 1},
         \/ stored' = stored
         \/ InPass /\ \E k \in Stake..Admin : stored' = StoredBy(k)
  PROVE  Store!Deliver
<1>1. UNCHANGED <<head - Confirmations,
                  [e \in Events |-> IF Settled(e) THEN blockOf[e] ELSE 0]>>
  BY DEF Settled
<1>2. ASSUME NEW e \in Events, stored'[e] # stored[e]
      PROVE  /\ Settled(e) /\ blockOf[e] >= lastBlockNum /\ Kind[e] # Unhandled
             /\ stored'[e] = stored[e] + 1
             /\ stored'[e] <= IF Kind[e] >= Claim THEN 1 ELSE 1 + FaultCount'
  <2>1. PICK k \in Stake..Admin : InPass /\ stored' = StoredBy(k)
    BY <1>2
  <2>2. QED
    BY <1>2, <2>1, StoredIsDelivered
<1>3. Store!Commit
  BY CommitForward DEF Store!Commit, AllInv, TypeInv, TypeOK
<1> DEFINE some == {e \in Events : stored'[e] # stored[e]}
           final == [e \in Events |-> IF Settled(e) THEN blockOf[e] ELSE 0]
<1>4. some \in SUBSET (Events \ {e \in Events : Kind[e] = Unhandled})
  BY <1>2
<1>5. ASSUME NEW e \in some
      PROVE  /\ final[e] > 0 /\ final[e] >= lastBlockNum
             /\ stored[e] + 1 <= IF e \in {f \in Events : Kind[f] >= Claim} THEN 1 ELSE 1 + FaultCount'
  BY <1>2, <1>5 DEF Settled
<1>6. stored' = [e \in Events |-> IF e \in some THEN stored[e] + 1 ELSE stored[e]]
  <2>1. ASSUME NEW e \in Events
        PROVE  stored'[e] = IF e \in some THEN stored[e] + 1 ELSE stored[e]
    BY <1>2
  <2>2. stored' = [e \in Events |-> stored'[e]]
    BY DEF AllInv, TypeInv, TypeOK
  <2>3. QED
    BY <2>1, <2>2
<1> HIDE DEF some, final
<1>7. \E s \in SUBSET (Events \ {e \in Events : Kind[e] = Unhandled}) :
         /\ \A e \in s :
              /\ final[e] > 0 /\ final[e] >= lastBlockNum
              /\ stored[e] + 1 <= IF e \in {f \in Events : Kind[f] >= Claim} THEN 1 ELSE 1 + FaultCount'
         /\ stored' = [e \in Events |-> IF e \in s THEN stored[e] + 1 ELSE stored[e]]
  BY <1>4, <1>5, <1>6
<1>8. QED
  BY <1>1, <1>3, <1>7 DEF Store!Deliver, final

\* The end of a successful pass moves the position over events that are stored.
LEMMA AdvanceStep ==
  ASSUME AllInv, AllInv', EmptyPass \/ FinishPass
  PROVE  Store!Advance
<1> USE DEF AllInv, TypeInv, TypeOK
<1>1. /\ Reading /\ pc # "down" /\ pc' # "down"
      /\ UNCHANGED <<head, blockOf, stored, bootBlock, rpcFaults, crashes, dbFaults, reorgs>>
      /\ lastBlockNum' = targetBlockNum + 1
      /\ dbLastBlock' \in {dbLastBlock, targetBlockNum}
  BY DEF EmptyPass, FinishPass, EndPass, Reading, chainVars, faultVars
<1>2. UNCHANGED <<head - Confirmations, FaultCount,
                  [e \in Events |-> IF Settled(e) THEN blockOf[e] ELSE 0]>>
  BY <1>1 DEF Settled, FaultCount
<1>3. lastBlockNum' \in (lastBlockNum + 1)..(head - Confirmations + 1)
  BY <1>1 DEF RangeInv, TargetInv
<1>4. lastBlockNum' <= dbLastBlock' + 1
  BY <1>1 DEF HeightInv
<1>5. ASSUME rpcFaults = 0, NEW e \in Events, Kind[e] # Unhandled, Settled(e),
             blockOf[e] >= lastBlockNum, blockOf[e] < lastBlockNum'
      PROVE  stored[e] >= 1
  <2>1. NoLossSinceBoot' /\ rpcFaults' = 0 /\ blockOf' = blockOf /\ stored' = stored
        /\ bootBlock' = bootBlock
    BY <1>1, <1>5 DEF LossInv
  <2>2. bootBlock <= lastBlockNum /\ blockOf[e] > 0 /\ blockOf[e] \in Nat
    BY <1>5 DEF StoreInv, CursorInv, Settled
  <2>3. blockOf[e] >= bootBlock
    BY <1>5, <2>2
  <2>4. QED
    BY <1>5, <2>1, <2>2, <2>3 DEF NoLossSinceBoot
<1>6. Store!Commit
  BY <1>1, CommitForward DEF Store!Commit
<1>7. \A e \in Events \ {f \in Events : Kind[f] = Unhandled} :
         LET final == [f \in Events |-> IF Settled(f) THEN blockOf[f] ELSE 0] IN
           rpcFaults = 0 /\ final[e] > 0 /\ final[e] >= lastBlockNum /\ final[e] < lastBlockNum'
             => stored[e] >= 1
  BY <1>5
<1>8. QED
  BY <1>1, <1>2, <1>3, <1>4, <1>6, <1>7 DEF Store!Advance

\* Steps that change neither the tables nor the position.
LEMMA SilentStep ==
  ASSUME UNCHANGED <<head, blockOf, stored, dbLastBlock, bootBlock, lastBlockNum, faultVars>>,
         pc # "down" <=> pc' # "down"
  PROVE  UNCHANGED Store!vars
  BY DEF Store!vars, Settled, FaultCount, faultVars

\* A fault of the database inside a pass.
LEMMA FaultyDelivery ==
  ASSUME AllInv, AllInv', StageError, pc # "down", stage \in Stake..Admin,
         UNCHANGED chainVars,
         dbLastBlock' = dbLastBlock \/ (Reading /\ dbLastBlock' = targetBlockNum),
         stored' = stored \/ (InPass /\ \E k \in Stake..Admin : stored' = StoredBy(k))
  PROVE  Store!Deliver
<1>1. /\ pc' # "down" /\ dbFaults' = dbFaults + 1
      /\ UNCHANGED <<head, blockOf, bootBlock, lastBlockNum, rpcFaults, crashes, reorgs>>
  BY StageErrorEffect DEF AllInv
<1>2. FaultCount' = FaultCount + 1
  BY <1>1 DEF FaultCount, AllInv, TypeInv, TypeOK
<1>3. QED
  BY <1>1, <1>2, DeliverStep

\* Every step of the listener and of its environment is one of EventStore.
LEMMA NextSimulates ==
  ASSUME InitHead >= Confirmations, MaxReorgDepth <= Confirmations,
         AllInv, AllInv', [Next]_vars
  PROVE  [Store!Next]_(Store!vars)
<1> USE DEF chainVars, dbVars, cursorVars, faultVars
<1>1. CASE Chain
  BY <1>1, ChainSettles DEF Store!Next
<1>2. CASE Boot
  <2>1. Store!Start
    BY <1>2 DEF Boot, Store!Start, Settled, FaultCount
  <2>2. QED
    BY <2>1 DEF Store!Next
<1>3. CASE Crash
  <2>1. FaultCount' = FaultCount + 1
    BY <1>3 DEF Crash, FaultCount, AllInv, TypeInv, TypeOK
  <2>2. Store!Stop
    BY <1>3, <2>1 DEF Crash, Store!Stop, Settled
  <2>3. QED
    BY <2>2 DEF Store!Next
<1>4. CASE FetchFails
  <2>1. Store!Outage
    BY <1>4 DEF FetchFails, Store!Outage, Settled, FaultCount
  <2>2. QED
    BY <2>1 DEF Store!Next
<1>5. CASE EmptyPass \/ FinishPass
  BY <1>5, AdvanceStep DEF Store!Next
<1>6. CASE Tick \/ FetchLogs \/ SkipStage \/ RetryPass
  BY <1>6, SilentStep DEF Tick, FetchLogs, SkipStage, RetryPass
<1>7. CASE StakeCommit \/ HeightWrite \/ RowsCommit
  <2>1. /\ InPass /\ Reading /\ pc # "down" /\ pc' # "down"
        /\ UNCHANGED <<head, blockOf, bootBlock, lastBlockNum, rpcFaults, crashes, dbFaults, reorgs>>
        /\ dbLastBlock' \in {dbLastBlock, targetBlockNum}
    BY <1>7 DEF StakeCommit, StakeWrites, StageOk, HeightWrite, RowsCommit, RowsWrite, InPass, Reading
  <2>2. stored' = stored \/ \E k \in Stake..Admin : stored' = StoredBy(k)
    BY <1>7 DEF StakeCommit, StakeWrites, HeightWrite, RowsCommit, RowsWrite,
                AllInv, TypeInv, PassShape
  <2>3. FaultCount' = FaultCount
    BY <2>1 DEF FaultCount
  <2>4. QED
    BY <2>1, <2>2, <2>3, DeliverStep DEF Store!Next
<1>8. CASE HandlerFails \/ StakeCommitUnacknowledged \/ RowsCommitUnacknowledged \/ RowsRollback
  <2>1. /\ StageError /\ InPass /\ Reading /\ pc # "down" /\ stage \in Stake..Admin
        /\ UNCHANGED <<head, blockOf>>
        /\ dbLastBlock' \in {dbLastBlock, targetBlockNum}
    BY <1>8 DEF HandlerFails, StakeCommitUnacknowledged, StakeWrites, RowsCommitUnacknowledged,
                RowsWrite, RowsRollback, StageError, InPass, Reading, AllInv, TypeInv, PassShape
  <2>2. stored' = stored \/ \E k \in Stake..Admin : stored' = StoredBy(k)
    BY <1>8, <2>1 DEF HandlerFails, StakeCommitUnacknowledged, StakeWrites,
                      RowsCommitUnacknowledged, RowsWrite, RowsRollback
  <2>3. QED
    BY <2>1, <2>2, FaultyDelivery DEF Store!Next
<1>9. CASE HeightWriteFails
  <2>1. /\ pc # "down" /\ pc' # "down" /\ stored' = stored /\ dbLastBlock' = dbLastBlock
        /\ UNCHANGED <<head, blockOf, bootBlock, lastBlockNum, rpcFaults, crashes, reorgs>>
        /\ dbFaults' = dbFaults + 1
    BY <1>9 DEF HeightWriteFails
  <2>2. FaultCount' = FaultCount + 1
    BY <2>1 DEF FaultCount, AllInv, TypeInv, TypeOK
  <2>3. QED
    BY <2>1, <2>2, DeliverStep DEF Store!Next
<1>10. CASE UNCHANGED vars
  BY <1>10, SilentStep DEF vars
<1>11. QED
  BY <1>1, <1>2, <1>3, <1>4, <1>5, <1>6, <1>7, <1>8, <1>9, <1>10
     DEF Next, Progress, Faults

\* On a chain older than the confirmations, whose reorganisations are no deeper
\* than they are, the listener implements EventStore: with any number of
\* handlers, events, crashes and failed calls.
THEOREM IndexerImplements ==
  ASSUME InitHead >= Confirmations, MaxReorgDepth <= Confirmations
  PROVE  Spec => ImplementsEventStore
<1>1. Init => Store!Init
  BY DEF Init, Store!Init, Settled, FaultCount
<1>2. Init => RangeInv /\ CountInv /\ HeightInv /\ TargetInv /\ SettledInv /\ LossInv /\ StoreInv
  BY DEF Init, RangeInv, Reading, CountInv, Pending, Passed, FaultCount, InPass, HeightInv,
         TargetInv, SettledInv, Settled, LossInv, NoLossSinceBoot, BatchInv, CursorInv,
         HandledInv, StoreInv, BatchInRange
<1>3. AllInv /\ [Next]_vars => AllInv'
  BY TypeInvStep, RangeInvStep, CountInvStep, HeightInvStep, TargetInvStep, SettledInvStep,
     LossInvStep, StoreInvStep DEF AllInv
<1>4. AllInv /\ AllInv' /\ [Next]_vars => [Store!Next]_(Store!vars)
  BY NextSimulates
<1>5. Init => TypeInv
  BY DEF Init, TypeInv, TypeOK, PassShape, InPass
<1>6. Init => AllInv
  BY <1>2, <1>5 DEF AllInv
<1>7. QED
  BY <1>1, <1>3, <1>4, <1>6, PTL DEF Spec, ImplementsEventStore, Store!Spec
=============================================================================
