------------------------------ MODULE MCIndexer ------------------------------
(***************************************************************************)
(* Instances of Indexer for TLC.  Real sizes are 6 confirmations, 1000     *)
(* blocks per call and 64-bit words; the instances keep their order        *)
(* (1 < BatchSize, Confirmations < MaxHead < WordSize).                    *)
(***************************************************************************)
EXTENDS IndexerStore

CONSTANTS stake1, stake2, pool1, claim1, total1, admin1, other1

\* Any of the events above may be used by a cfg.
KindOf ==
  [e \in Events |-> CASE e \in {stake1, stake2} -> Stake
                      [] e = pool1  -> Pool
                      [] e = claim1 -> Claim
                      [] e = total1 -> Total
                      [] e = admin1 -> Admin
                      [] e = other1 -> Unhandled]
=============================================================================
