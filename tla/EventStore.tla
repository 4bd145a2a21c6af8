------------------------------ MODULE EventStore ------------------------------
(***************************************************************************)
(* What the listener of a chain promises to the rest of the system, with   *)
(* its passes, handlers and transactions left out: final events are        *)
(* delivered to the tables at least once, in the order of their blocks as  *)
(* far as the position tells, and more than once only at the price of a    *)
(* fault.  Indexer implements it.                                          *)
(***************************************************************************)
EXTENDS Integers

CONSTANTS
  Events,
  Idempotent,   \* events whose second delivery changes nothing
  Ignored,      \* events nobody handles
  Base          \* committed position before the first start

VARIABLES
  frontier,     \* blocks up to this one are final
  final,        \* final[e]: block of e once it is final, 0 before
  delivered,    \* delivered[e]: how many times e counts in the tables
  committed,    \* position that survives a restart
  up,           \* the process runs
  start,        \* position it started from
  position,     \* first block it has not moved past
  faults,       \* crashes, failed calls, reorganisations
  outages       \* reads of the chain that failed

vars == <<frontier, final, delivered, committed, up, start, position, faults, outages>>

Init ==
  /\ frontier \in Nat
  /\ final = [e \in Events |-> 0]
  /\ delivered = [e \in Events |-> 0]
  /\ committed = Base
  /\ up = FALSE /\ start = 0 /\ position = 0
  /\ faults = 0 /\ outages = 0

\* One more block is final, with any new events.
Settle ==
  /\ frontier' = frontier + 1
  /\ \E new \in SUBSET {e \in Events : final[e] = 0} :
       final' = [e \in Events |-> IF e \in new THEN frontier' ELSE final[e]]
  /\ faults' \in {faults, faults + 1}
  /\ UNCHANGED <<delivered, committed, up, start, position, outages>>

\* The committed position never goes back nor beyond what is final.
Commit == committed' = committed \/ committed' \in committed..frontier

\* Final events the process has not moved past are delivered, any number of
\* them at once, none more often than the faults account for.
Deliver ==
  /\ up
  /\ faults' \in {faults, faults + 1}
  /\ \E some \in SUBSET (Events \ Ignored) :
       /\ \A e \in some :
            /\ final[e] > 0 /\ final[e] >= position
            /\ delivered[e] + 1 <= IF e \in Idempotent THEN 1 ELSE 1 + faults'
       /\ delivered' = [e \in Events |-> IF e \in some THEN delivered[e] + 1 ELSE delivered[e]]
  /\ Commit
  /\ UNCHANGED <<frontier, final, up, start, position, outages>>

\* Unless a read failed, the process moves past events that are delivered.
Advance ==
  /\ up
  /\ position' \in (position + 1)..(frontier + 1)
  /\ position' <= committed' + 1
  /\ outages = 0 =>
       \A e \in Events \ Ignored :
         final[e] > 0 /\ final[e] >= position /\ final[e] < position' => delivered[e] >= 1
  /\ Commit
  /\ UNCHANGED <<frontier, final, delivered, up, start, faults, outages>>

Outage == up /\ outages' = outages + 1
          /\ UNCHANGED <<frontier, final, delivered, committed, up, start, position, faults>>

Stop ==
  /\ up /\ up' = FALSE /\ start' = 0 /\ position' = 0
  /\ faults' = faults + 1
  /\ UNCHANGED <<frontier, final, delivered, committed, outages>>

Start ==
  /\ ~up /\ up' = TRUE
  /\ start' = committed /\ position' = committed
  /\ UNCHANGED <<frontier, final, delivered, committed, faults, outages>>

Next == Settle \/ Deliver \/ Advance \/ Outage \/ Stop \/ Start

Spec == Init /\ [][Next]_vars
-----------------------------------------------------------------------------
TypeOK ==
  /\ frontier \in Nat /\ final \in [Events -> Nat] /\ delivered \in [Events -> Nat]
  /\ committed \in Nat /\ up \in BOOLEAN /\ start \in Nat /\ position \in Nat
  /\ faults \in Nat /\ outages \in Nat

\* What the users of the tables rely on: between the blocks the process started
\* from and moved past, every final event counts, and none counts more often
\* than there were faults to repeat it.
AtLeastOnce ==
  outages = 0 =>
    \A e \in Events \ Ignored :
      final[e] > 0 /\ final[e] >= start /\ final[e] < position => delivered[e] >= 1

AtMostOncePerFault ==
  \A e \in Events : delivered[e] <= IF e \in Idempotent THEN 1 ELSE 1 + faults
=============================================================================
