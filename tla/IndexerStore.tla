----------------------------- MODULE IndexerStore -----------------------------
(***************************************************************************)
(* Indexer implements EventStore.  A block is final once it is behind the  *)
(* confirmations; a pass with its handlers is a series of deliveries, and  *)
(* its end moves the position.                                             *)
(***************************************************************************)
EXTENDS IndexerInv

Store == INSTANCE EventStore WITH
  Idempotent <- {e \in Events : Kind[e] >= Claim},
  Ignored    <- {e \in Events : Kind[e] = Unhandled},
  Base       <- InitLastBlock,
  frontier   <- head - Confirmations,
  final      <- [e \in Events |-> IF Settled(e) THEN blockOf[e] ELSE 0],
  delivered  <- stored,
  committed  <- dbLastBlock,
  up         <- pc # "down",
  start      <- bootBlock,
  position   <- lastBlockNum,
  faults     <- FaultCount,
  outages    <- rpcFaults

\* The listener keeps the promise of EventStore: whatever order handlers commit,
\* fail and repeat in, seen from the tables it delivers final events it has not
\* moved past, and moves past delivered ones only.
ImplementsEventStore == Store!Spec
-----------------------------------------------------------------------------
(***************************************************************************)
(* What the refinement needs beyond the invariants of Indexer.             *)
(***************************************************************************)

\* Also after a failed eth_getLogs, a batch lies in the range of its pass.
BatchInRange == \A e \in batch : blockOf[e] >= lastBlockNum

StoreInv == CursorInv /\ BatchInRange
=============================================================================
