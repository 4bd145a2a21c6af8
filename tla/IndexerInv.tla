----------------------------- MODULE IndexerInv ------------------------------
(***************************************************************************)
(* The inductive invariants behind the properties of Indexer.  They are    *)
(* state predicates TLC can check; IndexerProofs proves them.              *)
(***************************************************************************)
EXTENDS Indexer

InPass  == pc \in {"save", "commit"}
Reading == pc \in {"fetch", "empty", "save", "commit"}

-----------------------------------------------------------------------------
(***************************************************************************)
(* Types, and the values the scratch variables have outside a pass.        *)
(***************************************************************************)
PassShape ==
  /\ pc = "commit" => stage \in Pool..Admin
  /\ ~InPass => success /\ batch = {}

TypeInv == TypeOK /\ PassShape

-----------------------------------------------------------------------------
(***************************************************************************)
(* How often an event is counted.  An event of the batch whose handler has *)
(* not run yet will be counted once more; an event below Upper, the first  *)
(* block that will be read again should nothing else fail, has been        *)
(* counted once without a fault to blame.                                  *)
(***************************************************************************)
FaultCount == crashes + dbFaults + reorgs

Pending(e) == InPass /\ e \in batch /\ stage <= Kind[e]

Upper == CASE pc = "down"        -> 0
           [] InPass /\ success  -> targetBlockNum + 1
           [] OTHER              -> lastBlockNum

Passed(e) == blockOf[e] > 0 /\ blockOf[e] < Upper

CountInv ==
  \A e \in Events :
    /\ stored[e] + (IF Pending(e) THEN 1 ELSE 0)
         <= FaultCount + (IF Passed(e) THEN 1 ELSE 0)
    /\ Kind[e] >= Claim => stored[e] <= 1

\* The range of a pass is not empty.
RangeInv == Reading => lastBlockNum < targetBlockNum

-----------------------------------------------------------------------------
(***************************************************************************)
(* The block number in the database against the position in memory.        *)
(***************************************************************************)
HandledSoFar == {e \in batch : Kind[e] # Unhandled /\ Kind[e] < stage}

HeightInv ==
  /\ pc # "down" => lastBlockNum <= dbLastBlock + 1
  /\ InPass /\ success /\ HandledSoFar # {} => dbLastBlock = targetBlockNum
  /\ pc = "commit" => dbLastBlock = targetBlockNum

\* Targets stay confirmed and only grow.
TargetInv ==
  /\ Reading => /\ targetBlockNum + Confirmations <= head
                /\ targetBlockNum <= lastBlockNum + BatchSize
                /\ dbLastBlock <= targetBlockNum
  /\ pc = "idle" => \/ dbLastBlock <= lastBlockNum
                    \/ /\ dbLastBlock + Confirmations <= head
                       /\ dbLastBlock <= lastBlockNum + BatchSize

-----------------------------------------------------------------------------
(***************************************************************************)
(* What has been read.                                                     *)
(***************************************************************************)

\* The batch of a pass is exactly what the chain shows in its range.
BatchInv ==
  pc \in {"empty", "save", "commit"} =>
    \A e \in Events : e \in batch <=> /\ blockOf[e] > 0
                                      /\ blockOf[e] >= lastBlockNum
                                      /\ blockOf[e] <= targetBlockNum

\* The cursor left its starting point for confirmed blocks only.
CursorInv ==
  /\ bootBlock <= lastBlockNum
  /\ lastBlockNum = bootBlock \/ lastBlockNum + Confirmations <= head + 1

HandledInv == InPass /\ success => \A e \in HandledSoFar : stored[e] >= 1

\* All of this holds until an eth_getLogs fails.
LossInv ==
  rpcFaults = 0 => NoLossSinceBoot /\ BatchInv /\ CursorInv /\ HandledInv

\* Everything read or stored is on the chain, behind the confirmations.
Settled(e) == blockOf[e] > 0 /\ blockOf[e] + Confirmations <= head

SettledInv == \A e \in Events : stored[e] >= 1 \/ e \in batch => Settled(e)
=============================================================================
