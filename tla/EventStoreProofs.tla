--------------------------- MODULE EventStoreProofs ---------------------------
(***************************************************************************)
(* EventStore keeps its promises, for every value of its constants.        *)
(***************************************************************************)
EXTENDS EventStore, TLAPS

\* The position moves over final blocks only, so what becomes final later lies
\* beyond it; that is why moving it over delivered events is enough.
Inv ==
  /\ TypeOK
  /\ start <= position
  /\ position = start \/ position <= frontier + 1
  /\ AtLeastOnce
  /\ AtMostOncePerFault

LEMMA InvStep == Inv /\ [Next]_vars => Inv'
<1> SUFFICES ASSUME Inv, [Next]_vars PROVE Inv'
  OBVIOUS
<1> USE DEF Inv, TypeOK, AtLeastOnce, AtMostOncePerFault
<1>1. CASE Settle
  BY <1>1 DEF Settle
<1>2. CASE Deliver
  <2>1. PICK some \in SUBSET (Events \ Ignored) :
          /\ \A e \in some :
               /\ final[e] > 0 /\ final[e] >= position
               /\ delivered[e] + 1 <= IF e \in Idempotent THEN 1 ELSE 1 + faults'
          /\ delivered' = [e \in Events |-> IF e \in some THEN delivered[e] + 1 ELSE delivered[e]]
    BY <1>2 DEF Deliver
  <2>2. /\ committed' \in Nat
        /\ UNCHANGED <<frontier, final, up, start, position, outages>>
        /\ faults' \in Nat /\ faults' >= faults
    BY <1>2 DEF Deliver, Commit
  <2>3. delivered' \in [Events -> Nat] /\ \A e \in Events : delivered'[e] >= delivered[e]
    BY <2>1
  <2>4. AtMostOncePerFault'
    BY <2>1, <2>2
  <2>5. QED
    BY <2>2, <2>3, <2>4
<1>3. CASE Advance
  <2>1. /\ position' \in Nat /\ position' > position /\ position' <= frontier + 1
        /\ UNCHANGED <<frontier, final, delivered, up, start, faults, outages>>
    BY <1>3 DEF Advance
  <2>2. committed' \in Nat
    BY <1>3 DEF Advance, Commit
  <2>3. ASSUME outages = 0, NEW e \in Events \ Ignored, final[e] > 0, final[e] >= start,
               final[e] < position'
        PROVE  delivered[e] >= 1
    BY <1>3, <2>1, <2>3 DEF Advance
  <2>4. AtLeastOnce'
    BY <2>1, <2>3
  <2>5. QED
    BY <2>1, <2>2, <2>4
<1>4. CASE Outage
  BY <1>4 DEF Outage
<1>5. CASE Stop \/ Start
  <2>1. up' \in BOOLEAN
    BY <1>5 DEF Stop, Start
  <2>2. QED
    BY <1>5, <2>1 DEF Stop, Start
<1>6. CASE UNCHANGED vars
  BY <1>6 DEF vars
<1>7. QED
  BY <1>1, <1>2, <1>3, <1>4, <1>5, <1>6 DEF Next

\* Users of an implementation of EventStore may rely on both promises: nothing
\* between the start and the position is missing until a read fails, and no event
\* counts more often than the faults account for.
THEOREM PromisesKept ==
  ASSUME Base \in Nat
  PROVE  Spec => [](AtLeastOnce /\ AtMostOncePerFault)
<1>1. Init => Inv
  <2> SUFFICES ASSUME Init PROVE Inv
    OBVIOUS
  <2>1. up \in BOOLEAN
    BY DEF Init
  <2>2. QED
    BY <2>1 DEF Init, Inv, TypeOK, AtLeastOnce, AtMostOncePerFault
<1>2. Inv => AtLeastOnce /\ AtMostOncePerFault
  BY DEF Inv
<1>3. QED
  BY <1>1, <1>2, InvStep, PTL DEF Spec
=============================================================================
