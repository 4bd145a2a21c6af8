---------------------------- MODULE LiquidityProofs ----------------------------
(***************************************************************************)
(* Theorems about Liquidity, for every value of its constants: any number  *)
(* of pools, users, events, crashes and faults, and any history of blocks. *)
(***************************************************************************)
EXTENDS Liquidity, SumsAndPages

Senders == Users \cup {ZeroAddress}
Parsed  == [sender : Senders, tokens : BOOLEAN, created : 0..now]
Stored  == [at : DOMAIN log, sender : Senders, tokens : BOOLEAN, created : 0..now]
PoolRows(p) == [tokens : BOOLEAN, count : Nat \ {0}, reserves : 0..Version(p, Len(log)),
                last : Of(p, Len(log))]

BaseInv ==
  /\ log \in [1..MaxLog -> Event] /\ now \in 0..MaxTime
  /\ height \in 0..MaxLog /\ pc \in {"down", "idle", "parsed"} /\ watched \in Pools
  /\ lastBlockNum \in 0..(MaxLog + 1) /\ targetBlockNum \in 0..MaxLog
  /\ crashes \in 0..MaxCrashes /\ faults \in 0..MaxFaults

\* A pass holds events of the watched pool up to the end of its range, which is not
\* behind what was stored.
PassInv ==
  /\ DOMAIN parsed \subseteq Of(watched, targetBlockNum)
  /\ parsed \in [DOMAIN parsed -> Parsed]
  /\ pc = "parsed" => DOMAIN parsed # {} /\ height <= targetBlockNum
  /\ pc # "parsed" => parsed = NoEvents

\* The tables: no event lies behind the height, and a pool without a row has none.
TablesInv ==
  /\ events \in Seq(Stored) /\ \A i \in DOMAIN events : events[i].at <= height
  /\ made \in Seq(Pools) /\ \A i, j \in DOMAIN made : made[i] = made[j] => i = j
  /\ DOMAIN pools = Pools
  /\ \A p \in Pools : IF HasRow(p) THEN pools[p] \in PoolRows(p) ELSE pools[p] = NoRow

CountInv    == TxCountMatchesRows
ReservesInv == ReservesFollowEvents

\* What the request being answered has counted is not more than there is now.
ReaderInv ==
  reader # NoRequest =>
    /\ reader = [request |-> reader.request, next |-> reader.next, got |-> reader.got,
                 pool |-> reader.pool]
    /\ reader.request \in Requests /\ reader.next \in 2..Len(Queries(reader.request))
    /\ reader.request \in {"events", "pools"} =>
         /\ "count" \in DOMAIN reader.got
         /\ reader.got["count"] \in Nat /\ reader.got["count"] <= Len(Listed(reader.request))

\* Every failed call has left at most one trace, in the tables or in the pass.
UnknownSenders == {i \in DOMAIN events : events[i].sender = ZeroAddress}
UnknownTokens  == {i \in DOMAIN events : ~events[i].tokens}
BlindRows      == {p \in ToSet(made) : ~pools[p].tokens}
EmptyReserves  == {p \in ToSet(made) : pools[p].reserves = 0}
LostSenders    == {i \in DOMAIN parsed : parsed[i].sender = ZeroAddress}
LostTokens     == {i \in DOMAIN parsed : ~parsed[i].tokens}

FailuresInv ==
  Cardinality(UnknownSenders) + Cardinality(UnknownTokens) + Cardinality(BlindRows)
  + Cardinality(EmptyReserves) + Cardinality(LostSenders) + Cardinality(LostTokens) <= faults

TypeInv == BaseInv /\ PassInv /\ TablesInv

Inv == TypeInv /\ CountInv /\ ReservesInv /\ ReaderInv /\ FailuresInv

-----------------------------------------------------------------------------
(***************************************************************************)
(* The blocks and what a pass holds of them.                               *)
(***************************************************************************)
LEMMA Bounds ==
  /\ MaxLog \in Nat /\ MaxTime \in Nat /\ MaxCrashes \in Nat /\ MaxFaults \in Nat
  /\ ZeroAddress \notin Users
BY LiquidityConstantsOK

LEMMA Numbers ==
  ASSUME BaseInv
  PROVE  /\ now \in Nat /\ height \in Nat /\ faults \in Nat /\ targetBlockNum \in Nat
         /\ now = now + 0 /\ faults = faults + 0 /\ height <= height
BY Bounds DEF BaseInv

LEMMA LogTyped ==
  ASSUME BaseInv
  PROVE  /\ DOMAIN log = 1..MaxLog /\ Len(log) = MaxLog
         /\ \A i \in DOMAIN log : log[i].pool \in Pools /\ log[i].user \in Users
<1>1. log \in [1..MaxLog -> Event] /\ MaxLog \in Nat
  BY Bounds DEF BaseInv
<1>2. DOMAIN log = 1..MaxLog /\ \A i \in DOMAIN log : log[i] \in Event
  BY <1>1
<1>3. Len(log) = MaxLog
  BY <1>1, <1>2
<1>4. QED
  BY <1>2, <1>3 DEF Event

\* The events of a pool up to n.
LEMMA OfFinite ==
  ASSUME BaseInv, NEW p, NEW n \in Nat
  PROVE  /\ Of(p, n) \subseteq DOMAIN log /\ Of(p, n) \subseteq 1..n
         /\ IsFiniteSet(Of(p, n)) /\ Version(p, n) \in Nat
         /\ Version(p, n) = 0 => Of(p, n) = {}
<1>1. Of(p, n) \subseteq DOMAIN log /\ Of(p, n) \subseteq 1..n
  BY LogTyped, Bounds DEF Of
<1>2. IsFiniteSet(1..n)
  BY FS_Interval
<1>3. IsFiniteSet(Of(p, n))
  BY <1>1, <1>2, FS_Subset
<1>4. QED
  BY <1>1, <1>3, FS_CardinalityType, FS_EmptySet DEF Version

LEMMA VersionGrows ==
  ASSUME BaseInv, NEW p, NEW m \in Nat, NEW n \in Nat, m <= n
  PROVE  Of(p, m) \subseteq Of(p, n) /\ Version(p, m) <= Version(p, n)
<1>1. Of(p, m) \subseteq Of(p, n)
  BY DEF Of
<1>2. QED
  BY <1>1, OfFinite, FS_Subset DEF Version

\* The stored events.
LEMMA StoredFacts ==
  ASSUME TablesInv
  PROVE  /\ DOMAIN events = 1..Len(events) /\ Len(events) \in Nat
         /\ \A i \in DOMAIN events :
              events[i] \in Stored /\ events[i].at \in DOMAIN log /\ events[i].at <= height
<1> PICK S : S = Stored
  OBVIOUS
<1>1. events \in Seq(S)
  BY DEF TablesInv
<1>2. /\ DOMAIN events = 1..Len(events) /\ Len(events) \in Nat
      /\ \A i \in DOMAIN events : events[i] \in S
  BY <1>1
<1>3. \A x \in S : x.at \in DOMAIN log
  BY DEF Stored
<1>4. QED
  BY <1>2, <1>3 DEF TablesInv

\* A pass with parsed events.
LEMMA ParsedFacts ==
  ASSUME BaseInv, PassInv
  PROVE  /\ DOMAIN parsed \subseteq DOMAIN log /\ DOMAIN parsed \subseteq Nat
         /\ \A i \in DOMAIN parsed : log[i].pool = watched /\ i <= targetBlockNum
         /\ IsFiniteSet(DOMAIN parsed) /\ Cardinality(DOMAIN parsed) \in Nat
         /\ pc = "parsed" => Cardinality(DOMAIN parsed) # 0
<1>1. targetBlockNum \in Nat
  BY Bounds DEF BaseInv
<1>2. /\ Of(watched, targetBlockNum) \subseteq DOMAIN log
      /\ IsFiniteSet(Of(watched, targetBlockNum))
      /\ Of(watched, targetBlockNum) \subseteq 1..targetBlockNum
  BY <1>1, OfFinite
<1>3. IsFiniteSet(DOMAIN parsed)
  BY <1>2, FS_Subset DEF PassInv
<1>4. \A i \in Of(watched, targetBlockNum) :
        log[i].pool = watched /\ i <= targetBlockNum /\ i \in Nat
  BY <1>1 DEF Of
<1>5. QED
  BY <1>2, <1>3, <1>4, FS_CardinalityType, FS_EmptySet DEF PassInv

\* The greatest element of a finite set of numbers.
LEMMA Greatest ==
  ASSUME NEW n \in Nat, NEW D, D \subseteq 1..n, D # {}
  PROVE  \E i \in D : \A j \in D : j <= i
<1> DEFINE Rev == {n - i : i \in D}
<1>0. \A i \in D : i \in 1..n /\ n - i \in Nat
  OBVIOUS
<1>1. Rev \subseteq Nat /\ Rev # {}
  BY <1>0
<1>2. IsWellFoundedOn(OpToRel(<, Nat), Nat)
  BY NatLessThanWellFounded
<1> HIDE DEF Rev
<1>3. PICK m \in Rev : \A k \in Rev : ~ (<<k, m>> \in OpToRel(<, Nat))
  BY <1>1, <1>2, WFMin
<1>4. m \in Nat /\ \A k \in Rev : ~ (k < m)
  BY <1>1, <1>3 DEF OpToRel
<1>5. PICK i \in D : m = n - i
  BY DEF Rev
<1>6. \A j \in D : n - j \in Rev
  BY DEF Rev
<1>7. ASSUME NEW j \in D
      PROVE  j <= i
  <2>1. ~ (n - j < n - i)
    BY <1>4, <1>5, <1>6
  <2>2. i \in 1..n /\ j \in 1..n
    OBVIOUS
  <2>3. QED
    BY <2>1, <2>2
<1>8. QED
  BY <1>7

LEMMA LastIsParsed ==
  ASSUME BaseInv, PassInv, pc = "parsed"
  PROVE  LastEvent \in DOMAIN parsed
<1>1. targetBlockNum \in Nat
  BY Bounds DEF BaseInv
<1>2. DOMAIN parsed \subseteq 1..targetBlockNum /\ DOMAIN parsed # {}
  BY <1>1, OfFinite DEF PassInv
<1>3. \E i \in DOMAIN parsed : \A j \in DOMAIN parsed : j <= i
  BY <1>1, <1>2, Greatest
<1>4. QED
  BY <1>3 DEF LastEvent

\* A finite set of numbers in ascending order: the k-th has k elements up to it.
LEMMA Ascending ==
  ASSUME NEW D, D \subseteq Nat, IsFiniteSet(D)
  PROVE  \E f \in [1..Cardinality(D) -> D] : \A j, k \in DOMAIN f : j < k => f[j] < f[k]
<1> DEFINE n == Cardinality(D)
           UpTo(i) == {m \in D : m <= i}
           rank == [i \in D |-> Cardinality(UpTo(i))]
<1>1. n \in Nat
  BY FS_CardinalityType
<1>2. \A i \in D : IsFiniteSet(UpTo(i)) /\ i \in UpTo(i)
  <2>1. \A i \in D : UpTo(i) \in SUBSET D /\ i \in UpTo(i)
    OBVIOUS
  <2>2. QED
    BY <2>1, FS_Subset
<1>3. \A i \in D : rank[i] \in 1..n
  <2> SUFFICES ASSUME NEW i \in D PROVE Cardinality(UpTo(i)) \in 1..n
    OBVIOUS
  <2>1. UpTo(i) \in SUBSET D /\ UpTo(i) # {}
    BY <1>2
  <2> HIDE DEF UpTo
  <2>2. Cardinality(UpTo(i)) \in Nat /\ Cardinality(UpTo(i)) # 0 /\ Cardinality(UpTo(i)) <= n
    BY <1>2, <2>1, FS_Subset, FS_CardinalityType, FS_EmptySet
  <2>3. QED
    BY <1>1, <2>2
<1>4. \A i, j \in D : i < j => rank[i] < rank[j]
  <2> SUFFICES ASSUME NEW i \in D, NEW j \in D, i < j
               PROVE  Cardinality(UpTo(i)) < Cardinality(UpTo(j))
    OBVIOUS
  <2>0. (\A m \in D : m <= i => m <= j) /\ ~ (j <= i) /\ j <= j
    OBVIOUS
  <2>1. UpTo(i) \in SUBSET UpTo(j) /\ j \notin UpTo(i) /\ j \in UpTo(j)
    BY <2>0
  <2>2. UpTo(i) # UpTo(j)
    BY <2>1
  <2> HIDE DEF UpTo
  <2>3. /\ Cardinality(UpTo(i)) <= Cardinality(UpTo(j))
        /\ Cardinality(UpTo(i)) # Cardinality(UpTo(j))
        /\ Cardinality(UpTo(i)) \in Nat /\ Cardinality(UpTo(j)) \in Nat
    BY <1>2, <2>1, <2>2, FS_Subset, FS_CardinalityType
  <2>4. QED
    BY <2>3
<1> HIDE DEF n, UpTo
<1>5. rank \in Injection(D, 1..n)
  <2>1. rank \in [D -> 1..n]
    BY <1>3
  <2> HIDE DEF rank
  <2>2. ASSUME NEW i \in D, NEW j \in D, rank[i] = rank[j]
        PROVE  i = j
    <3>1. ~ (i < j) /\ ~ (j < i)
      BY <1>1, <1>3, <1>4, <2>2
    <3>2. QED
      BY <3>1
  <2>3. QED
    BY <2>1, <2>2 DEF Injection, IsInjective
<1> HIDE DEF rank
<1>6. rank \in Surjection(D, 1..n)
  <2>1. IsFiniteSet(1..n) /\ Cardinality(1..n) = n
    BY <1>1, FS_Interval
  <2>2. Cardinality(D) = Cardinality(1..n)
    BY <2>1 DEF n
  <2> PICK T : T = 1..n
    OBVIOUS
  <2>3. IsFiniteSet(T) /\ Cardinality(D) = Cardinality(T) /\ rank \in Injection(D, T)
    BY <1>5, <2>1, <2>2
  <2>4. rank \in Surjection(D, T)
    BY <2>3, FS_Injection
  <2>5. QED
    BY <2>4
<1>7. \A k \in 1..n : \E i \in D : rank[i] = k
  BY <1>6 DEF Surjection
<1> DEFINE f == [k \in 1..n |-> CHOOSE i \in D : rank[i] = k]
<1>8. \A k \in 1..n : f[k] \in D /\ rank[f[k]] = k
  BY <1>7
<1>9. f \in [1..n -> D]
  BY <1>8
<1> HIDE DEF f
<1>10. ASSUME NEW j \in 1..n, NEW k \in 1..n, j < k
       PROVE  f[j] < f[k]
  <2>1. f[j] \in Nat /\ f[k] \in Nat /\ f[j] \in D /\ f[k] \in D
    BY <1>8
  <2>2. ~ (f[k] < f[j])
    BY <1>1, <1>4, <1>8, <1>10, <2>1
  <2>3. f[k] # f[j]
    BY <1>8, <1>10
  <2>4. QED
    BY <2>1, <2>2, <2>3
<1>11. QED
  BY <1>9, <1>10 DEF n

-----------------------------------------------------------------------------
(***************************************************************************)
(* The rows that a pass adds to the events.                                *)
(***************************************************************************)
Parts == Cardinality(DOMAIN parsed)

\* The parsed event ids[k] becomes the k-th new row.
EventsAdded(ids) ==
  /\ ids \in Injection(1..Parts, DOMAIN parsed) /\ ids \in Surjection(1..Parts, DOMAIN parsed)
  /\ events' \in Seq(Stored) /\ DOMAIN events' = 1..(Len(events) + Parts)
  /\ \A i \in DOMAIN events : events'[i] = events[i]
  /\ \A k \in 1..Parts : /\ events'[Len(events) + k].at = ids[k]
                         /\ events'[Len(events) + k].sender = parsed[ids[k]].sender
                         /\ events'[Len(events) + k].tokens = parsed[ids[k]].tokens

LEMMA NewRows ==
  ASSUME TypeInv, pc = "parsed", events' = events \o NewEvents
  PROVE  \E ids : EventsAdded(ids)
<1>1. BaseInv /\ PassInv /\ events \in Seq(Stored)
  BY DEF TypeInv, TablesInv
<1>2. /\ DOMAIN parsed \subseteq DOMAIN log /\ DOMAIN parsed \subseteq Nat
      /\ IsFiniteSet(DOMAIN parsed) /\ Parts \in Nat
  BY <1>1, ParsedFacts DEF Parts
<1> PICK D : D = DOMAIN parsed
  OBVIOUS
<1> PICK n : n = Parts
  OBVIOUS
<1> DEFINE Orders(f) == \A j, k \in DOMAIN f : j < k => f[j] < f[k]
           chosen == CHOOSE f \in [1..n -> D] : Orders(f)
<1>3. \E f \in [1..n -> D] : Orders(f)
  BY <1>2, Ascending DEF Parts
<1>4. chosen \in [1..n -> D] /\ Orders(chosen)
  BY <1>3
<1> PICK ids : ids = chosen
  OBVIOUS
<1>5. ids \in [1..n -> D] /\ \A j, k \in 1..n : j < k => ids[j] < ids[k]
  BY <1>4
<1>6. NewEvents = [k \in DOMAIN ids |-> [at |-> ids[k], sender |-> parsed[ids[k]].sender,
                                       tokens |-> parsed[ids[k]].tokens,
                                       created |-> parsed[ids[k]].created]]
  BY DEF NewEvents, Parts
<1> HIDE DEF chosen
<1>7. ids \in Injection(1..n, D)
  <2>1. ASSUME NEW j \in 1..n, NEW k \in 1..n, ids[j] = ids[k]
        PROVE  j = k
    <3>1. ids[j] \in Nat /\ n \in Nat
      BY <1>2, <1>5
    <3>2. ~ (j < k) /\ ~ (k < j)
      BY <1>5, <2>1, <3>1
    <3>3. QED
      BY <3>1, <3>2
  <2>2. QED
    BY <1>5, <2>1 DEF Injection, IsInjective
<1>8. ids \in Surjection(1..n, D)
  <2> PICK T : T = 1..n
    OBVIOUS
  <2>1. IsFiniteSet(T) /\ Cardinality(T) = n
    BY <1>2, FS_Interval
  <2>2. Cardinality(T) = Cardinality(D) /\ IsFiniteSet(D) /\ ids \in Injection(T, D)
    BY <1>2, <1>7, <2>1 DEF Parts
  <2>3. ids \in Surjection(T, D)
    BY <2>2, FS_Injection
  <2>4. QED
    BY <2>3
<1>9. \A k \in 1..n : parsed[ids[k]] \in Parsed /\ ids[k] \in DOMAIN log
  BY <1>1, <1>2, <1>5 DEF PassInv
<1>10. \A k \in 1..n : [at |-> ids[k], sender |-> parsed[ids[k]].sender,
                       tokens |-> parsed[ids[k]].tokens,
                       created |-> parsed[ids[k]].created] \in Stored
  BY <1>9 DEF Stored, Parsed
<1> PICK new : new = NewEvents
  OBVIOUS
<1>11. /\ new \in [1..n -> Stored]
       /\ \A k \in 1..n : /\ new[k].at = ids[k] /\ new[k].sender = parsed[ids[k]].sender
                          /\ new[k].tokens = parsed[ids[k]].tokens
  BY <1>5, <1>6, <1>10
<1>12. new \in Seq(Stored) /\ Len(new) = n /\ events' = events \o new
  BY <1>2, <1>11
<1> HIDE DEF Stored
<1>13. /\ events' \in Seq(Stored) /\ DOMAIN events' = 1..(Len(events) + n)
       /\ \A i \in DOMAIN events : events'[i] = events[i]
       /\ \A k \in 1..n : events'[Len(events) + k] = new[k]
  <2>1. /\ Len(events) \in Nat /\ DOMAIN events = 1..Len(events) /\ n \in Nat
    BY <1>1, <1>2
  <2> PICK S : S = Stored
    OBVIOUS
  <2> PICK old : old = events
    OBVIOUS
  <2>2. old \in Seq(S) /\ new \in Seq(S) /\ Len(new) = n
    BY <1>1, <1>12
  <2>3. old \o new \in Seq(S)
    BY <2>2
  <2>4. Len(old \o new) = Len(old) + n
    <3>1. Len(old \o new) = Len(old) + Len(new)
      <4> HIDE <2>2
      <4> SUFFICES ASSUME NEW T, NEW s \in Seq(T), NEW t \in Seq(T)
                   PROVE  Len(s \o t) = Len(s) + Len(t)
        BY <2>2
      <4>1. QED
        OBVIOUS
    <3>2. QED
      BY <2>2, <3>1
  <2>5. \A i \in 1..(Len(old) + n) :
          (old \o new)[i] = IF i <= Len(old) THEN old[i] ELSE new[i - Len(old)]
    BY <2>2
  <2>6. DOMAIN (old \o new) = 1..(Len(old) + n)
    BY <2>3, <2>4
  <2>7. \A k \in 1..n : /\ Len(old) + k \in 1..(Len(old) + n)
                        /\ ~ (Len(old) + k <= Len(old)) /\ (Len(old) + k) - Len(old) = k
    BY <2>1
  <2>8. \A i \in 1..Len(old) : i \in 1..(Len(old) + n) /\ i <= Len(old)
    BY <2>1
  <2>9. QED
    BY <1>12, <2>1, <2>3, <2>5, <2>6, <2>7, <2>8
<1>14. EventsAdded(ids)
  BY <1>7, <1>8, <1>11, <1>13 DEF EventsAdded
<1>15. QED
  BY <1>14

LEMMA AddedDomain ==
  ASSUME TypeInv, NEW ids, EventsAdded(ids)
  PROVE  /\ DOMAIN events \subseteq DOMAIN events' /\ Parts \in Nat
         /\ \A k \in 1..Parts : Len(events) + k \in DOMAIN events' /\ ids[k] \in DOMAIN parsed
<1>1. DOMAIN events = 1..Len(events) /\ Len(events) \in Nat /\ Parts \in Nat
  BY StoredFacts, ParsedFacts DEF TypeInv, Parts
<1> PICK L \in Nat : L = Len(events)
  BY <1>1
<1> PICK n \in Nat : n = Parts
  BY <1>1
<1>2. DOMAIN events' = 1..(L + n) /\ DOMAIN events = 1..L
  BY <1>1 DEF EventsAdded
<1>3. QED
  BY <1>1, <1>2 DEF EventsAdded, Injection

\* How many rows have a property, when those of before had it before and the new ones
\* are those of the parsed events X.
Adds(ids, A, X, B) ==
  /\ EventsAdded(ids)
  /\ A \in SUBSET DOMAIN events /\ X \in SUBSET DOMAIN parsed /\ B \in SUBSET DOMAIN events'
  /\ \A i \in DOMAIN events : i \in B <=> i \in A
  /\ \A k \in 1..Parts : Len(events) + k \in B <=> ids[k] \in X

LEMMA AddedCount ==
  ASSUME TypeInv, NEW ids, NEW A, NEW X, NEW B, Adds(ids, A, X, B)
  PROVE  /\ IsFiniteSet(A) /\ IsFiniteSet(X) /\ IsFiniteSet(B)
         /\ Cardinality(B) = Cardinality(A) + Cardinality(X)
<1> USE DEF Adds
<1> PICK L : L = Len(events)
  OBVIOUS
<1> PICK n : n = Parts
  OBVIOUS
<1>1. /\ L \in Nat /\ DOMAIN events = 1..L /\ n \in Nat
      /\ IsFiniteSet(DOMAIN parsed)
  BY ParsedFacts DEF TypeInv, TablesInv, Parts
<1>2. IsFiniteSet(A) /\ IsFiniteSet(X)
  <2>1. IsFiniteSet(1..L)
    BY <1>1, FS_Interval
  <2>2. QED
    BY <1>1, <2>1, FS_Subset
<1> DEFINE N == B \ DOMAIN events
           g == [i \in N |-> ids[i - L]]
<1>3. /\ \A i \in N : i - L \in 1..n /\ i = L + (i - L)
      /\ \A k \in 1..n : L + k \notin DOMAIN events /\ (L + k) - L = k /\ L + k \in DOMAIN events'
  BY <1>1 DEF EventsAdded
<1>4. \A k \in 1..n : L + k \in N <=> ids[k] \in X
  BY <1>3
<1>5. ids \in [1..n -> DOMAIN parsed] /\ (\A j, k \in 1..n : ids[j] = ids[k] => j = k)
      /\ \A x \in DOMAIN parsed : \E k \in 1..n : ids[k] = x
  BY DEF EventsAdded, Injection, IsInjective, Surjection
<1>6. \A i \in N : ids[i - L] \in X
  <2> SUFFICES ASSUME NEW i \in N PROVE ids[i - L] \in X
    OBVIOUS
  <2> PICK k \in 1..n : i = L + k /\ i - L = k
    BY <1>3
  <2>1. QED
    BY <1>4
<1> HIDE DEF N
<1>7. g \in Injection(N, X)
  <2>1. g \in [N -> X]
    BY <1>6
  <2>2. ASSUME NEW i \in N, NEW j \in N, g[i] = g[j]
        PROVE  i = j
    <3>1. i - L = j - L
      BY <1>3, <1>5, <2>2
    <3>2. QED
      BY <1>3, <3>1
  <2>3. QED
    BY <2>1, <2>2 DEF Injection, IsInjective
<1>8. g \in Surjection(N, X)
  <2>1. ASSUME NEW x \in X
        PROVE  \E i \in N : g[i] = x
    <3>1. PICK k \in 1..n : ids[k] = x
      BY <1>5
    <3>2. L + k \in N /\ g[L + k] = x
      BY <1>3, <1>4, <3>1
    <3>3. QED
      BY <3>2
  <2>2. QED
    BY <1>7, <2>1 DEF Injection, Surjection
<1> HIDE DEF g
<1>9. IsFiniteSet(N) /\ Cardinality(N) = Cardinality(X)
  BY <1>2, <1>7, <1>8, FS_Injection
<1>10. B = A \cup N /\ A \cap N = {}
  BY DEF N, EventsAdded
<1>11. /\ IsFiniteSet(A \cup N)
       /\ Cardinality(A \cup N) = Cardinality(A) + Cardinality(N) - Cardinality(A \cap N)
  BY <1>2, <1>9, FS_Union
<1>12. Cardinality(A) \in Nat /\ Cardinality(X) \in Nat /\ Cardinality({}) = 0
  BY <1>2, FS_CardinalityType, FS_EmptySet
<1>13. Cardinality(B) = Cardinality(A) + Cardinality(X) - 0 /\ IsFiniteSet(B)
  BY <1>9, <1>10, <1>11, <1>12
<1>14. QED
  BY <1>2, <1>12, <1>13

-----------------------------------------------------------------------------
(***************************************************************************)
(* What a pass writes.                                                     *)
(***************************************************************************)
LEMMA RowWritten ==
  ASSUME TypeInv, pc = "parsed", NEW t \in BOOLEAN, NEW r \in 0..Version(watched, Len(log))
  PROVE  /\ PoolRow(t, r) \in PoolRows(watched)
         /\ PoolRow(t, r).count = pools[watched].count + Parts
         /\ PoolRow(t, r).reserves = r
         /\ PoolRow(t, r).tokens = IF HasRow(watched) THEN pools[watched].tokens ELSE t
<1>1. BaseInv /\ PassInv /\ watched \in Pools
  BY DEF TypeInv, BaseInv
<1>2. Parts \in Nat /\ Parts # 0
  BY <1>1, ParsedFacts DEF Parts
<1>3. LastEvent \in Of(watched, Len(log))
  <2>1. targetBlockNum \in Nat /\ Len(log) \in Nat /\ targetBlockNum <= Len(log)
    BY <1>1, LogTyped, Bounds DEF BaseInv
  <2>2. QED
    BY <1>1, <2>1, LastIsParsed, VersionGrows DEF PassInv
<1> PICK last : last = LastEvent
  OBVIOUS
<1> PICK parts : parts = Parts
  OBVIOUS
<1>4. CASE HasRow(watched)
  <2> PICK old : old = pools[watched]
    OBVIOUS
  <2>1. old \in PoolRows(watched)
    BY <1>1, <1>4 DEF TypeInv, TablesInv
  <2>2. PoolRow(t, r) = [old EXCEPT !.count = old.count + parts, !.last = last, !.reserves = r]
    BY <1>4 DEF PoolRow, Parts
  <2>3. old.count \in Nat /\ old.count + parts \in Nat \ {0}
    BY <1>2, <2>1 DEF PoolRows
  <2>4. [old EXCEPT !.count = old.count + parts, !.last = last, !.reserves = r]
          \in PoolRows(watched)
    BY <1>3, <2>1, <2>3 DEF PoolRows
  <2>5. /\ PoolRow(t, r).count = old.count + parts /\ PoolRow(t, r).reserves = r
        /\ PoolRow(t, r).tokens = old.tokens
    BY <2>1, <2>2 DEF PoolRows
  <2>6. QED
    BY <1>4, <2>2, <2>4, <2>5
<1>5. CASE ~HasRow(watched)
  <2>1. PoolRow(t, r) = [tokens |-> t, count |-> parts, reserves |-> r, last |-> last]
    BY <1>5 DEF PoolRow, Parts
  <2>2. pools[watched].count = 0
    BY <1>1, <1>5 DEF TypeInv, TablesInv, NoRow
  <2>3. [tokens |-> t, count |-> parts, reserves |-> r, last |-> last] \in PoolRows(watched)
    BY <1>2, <1>3 DEF PoolRows
  <2>4. QED
    BY <1>2, <1>5, <2>1, <2>2, <2>3
<1>6. QED
  BY <1>4, <1>5

LEMMA MadeWritten ==
  ASSUME TypeInv, made' = IF HasRow(watched) THEN made ELSE Append(made, watched)
  PROVE  /\ made' \in Seq(Pools) /\ \A i, j \in DOMAIN made' : made'[i] = made'[j] => i = j
         /\ ToSet(made)' = ToSet(made) \cup {watched}
         /\ Len(made) <= Len(made')
<1>1. made \in Seq(Pools) /\ watched \in Pools
  BY DEF TypeInv, TablesInv, BaseInv
<1>2. \A i, j \in DOMAIN made : made[i] = made[j] => i = j
  BY DEF TypeInv, TablesInv
<1>3. CASE HasRow(watched)
  BY <1>1, <1>2, <1>3 DEF HasRow, ToSet
<1>4. CASE ~HasRow(watched)
  <2>1. made' = Append(made, watched)
    BY <1>4
  <2>2. /\ made' \in Seq(Pools) /\ Len(made') = Len(made) + 1 /\ Len(made) \in Nat
        /\ DOMAIN made = 1..Len(made) /\ DOMAIN made' = DOMAIN made \cup {Len(made) + 1}
    BY <1>1, <2>1
  <2>3. /\ \A i \in DOMAIN made : made'[i] = made[i]
        /\ made'[Len(made) + 1] = watched
    BY <1>1, <2>1
  <2>4. \A i \in DOMAIN made : made[i] # watched
    BY <1>4 DEF HasRow, ToSet
  <2>5. QED
    BY <1>2, <2>2, <2>3, <2>4 DEF ToSet
<1>5. QED
  BY <1>3, <1>4

\* The log does not change, so neither does what it says of a pool.
LEMMA SameLog ==
  ASSUME log' = log
  PROVE  /\ \A p, n : Of(p, n)' = Of(p, n) /\ Version(p, n)' = Version(p, n)
         /\ \A p : PoolRows(p)' = PoolRows(p)
         /\ now' = now => Stored' = Stored /\ Parsed' = Parsed
<1>1. \A p, n : Of(p, n)' = Of(p, n) /\ Version(p, n)' = Version(p, n)
  BY DEF Of, Version
<1>2. \A p : PoolRows(p)' = PoolRows(p)
  BY <1>1 DEF PoolRows
<1>3. now' = now => Stored' = Stored /\ Parsed' = Parsed
  BY DEF Stored, Parsed
<1>4. QED
  BY <1>1, <1>2, <1>3

\* The choices of WriteRows.
Wrote(t, r, ids) ==
  /\ t \in BOOLEAN /\ r \in 0..Version(watched, Len(log))
  /\ r = 0 \/ r >= Version(watched, targetBlockNum)
  /\ EventsAdded(ids)
  /\ pools' = [pools EXCEPT ![watched] = PoolRow(t, r)]
  /\ made' = IF HasRow(watched) THEN made ELSE Append(made, watched)

LEMMA WriteChoices ==
  ASSUME TypeInv, pc = "parsed", NEW k \in Nat, WriteRows(k)
  PROVE  \E t \in BOOLEAN : \E r, ids : \E cost \in Nat :
           /\ Wrote(t, r, ids) /\ faults' = faults + (k + cost) /\ faults' <= MaxFaults
           /\ (IF t THEN 0 ELSE 1) + (IF r = 0 THEN 1 ELSE 0) <= cost
<1>1. PICK t \in BOOLEAN, n \in targetBlockNum..Len(log), answered \in BOOLEAN :
        /\ t \/ ~HasRow(watched)
        /\ Failing(k + (IF t THEN 0 ELSE 1) + (IF answered THEN 0 ELSE 1))
        /\ events' = events \o NewEvents
        /\ pools' = [pools EXCEPT ![watched] = PoolRow(t, IF answered THEN ReservesAt(n) ELSE 0)]
        /\ made' = IF HasRow(watched) THEN made ELSE Append(made, watched)
  BY DEF WriteRows
<1>2. PICK ids : EventsAdded(ids)
  BY <1>1, NewRows
<1>3. BaseInv /\ PassInv /\ targetBlockNum \in Nat /\ Len(log) \in Nat /\ n \in Nat
      /\ targetBlockNum <= n /\ n <= Len(log)
  BY LogTyped, Bounds DEF TypeInv, BaseInv
<1> DEFINE r == IF answered THEN ReservesAt(n) ELSE 0
           cost == (IF t THEN 0 ELSE 1) + (IF answered THEN 0 ELSE 1)
<1>4. /\ Version(watched, n) \in Nat /\ Version(watched, n) <= Version(watched, Len(log))
      /\ Version(watched, targetBlockNum) <= Version(watched, n)
      /\ Version(watched, Len(log)) \in Nat /\ Version(watched, targetBlockNum) \in Nat
  BY <1>3, OfFinite, VersionGrows
<1>5. Version(watched, targetBlockNum) # 0
  BY <1>3, OfFinite DEF PassInv
<1>6. /\ r \in 0..Version(watched, Len(log))
      /\ r = 0 \/ r >= Version(watched, targetBlockNum)
      /\ r = 0 => ~answered
  BY <1>4, <1>5 DEF ReservesAt
<1>7. pools' = [pools EXCEPT ![watched] = PoolRow(t, r)]
  BY <1>1
<1>8. faults' = faults + (k + cost) /\ faults' <= MaxFaults /\ cost \in Nat
  <2>1. faults \in Nat /\ MaxFaults \in Nat
    BY <1>3, Bounds DEF BaseInv
  <2>2. QED
    BY <1>1, <2>1 DEF Failing
<1>9. (IF t THEN 0 ELSE 1) + (IF r = 0 THEN 1 ELSE 0) <= cost
  BY <1>6
<1> HIDE DEF r, cost
<1>10. Wrote(t, r, ids)
  BY <1>1, <1>2, <1>6, <1>7 DEF Wrote
<1>11. QED
  BY <1>1, <1>8, <1>9, <1>10

\* The tables, the counts and the reserves after the commit.
LEMMA WriteTables ==
  ASSUME TypeInv, CountInv, ReservesInv, pc = "parsed", NEW t, NEW r, NEW ids, Wrote(t, r, ids),
         height' = targetBlockNum, UNCHANGED <<log, now>>
  PROVE  TablesInv' /\ CountInv' /\ ReservesInv'
<1>1. BaseInv /\ PassInv /\ TablesInv /\ watched \in Pools
  BY DEF TypeInv, BaseInv
<1>2. /\ DOMAIN parsed \subseteq DOMAIN log
      /\ \A i \in DOMAIN parsed : log[i].pool = watched /\ i <= targetBlockNum /\ i \in Nat
      /\ Parts \in Nat
  BY <1>1, ParsedFacts DEF Parts
<1>3. EventsAdded(ids) /\ t \in BOOLEAN /\ r \in 0..Version(watched, Len(log))
  BY DEF Wrote
<1>4. /\ DOMAIN events = 1..Len(events) /\ Len(events) \in Nat
      /\ \A i \in DOMAIN events : events[i].at \in DOMAIN log /\ events[i].at <= height
  BY <1>1, StoredFacts
<1>5. \A k \in 1..Parts : ids[k] \in DOMAIN parsed
  BY <1>3 DEF EventsAdded, Injection
<1>6. \A i \in DOMAIN events' :
        \/ i \in DOMAIN events /\ events'[i] = events[i]
        \/ /\ i \notin DOMAIN events
           /\ \E k \in 1..Parts : i = Len(events) + k /\ events'[i].at = ids[k]
  <2> SUFFICES ASSUME NEW i \in DOMAIN events', i \notin DOMAIN events
               PROVE  \E k \in 1..Parts : i = Len(events) + k
    BY <1>3 DEF EventsAdded
  <2> PICK L \in Nat : L = Len(events)
    BY <1>4
  <2> PICK n \in Nat : n = Parts
    BY <1>2
  <2>1. i \in 1..(L + n) /\ i \notin 1..L
    BY <1>3, <1>4 DEF EventsAdded
  <2>2. i - L \in 1..n /\ i = L + (i - L)
    BY <2>1
  <2>3. QED
    BY <2>2
<1>7. height <= targetBlockNum /\ targetBlockNum \in Nat /\ height \in Nat
  BY <1>1, Bounds DEF PassInv, BaseInv
<1>8. /\ DOMAIN pools' = Pools
      /\ pools'[watched] = PoolRow(t, r) /\ \A p \in Pools : p # watched => pools'[p] = pools[p]
  BY <1>1 DEF TablesInv, Wrote
<1>9. TablesInv'
  <2>1. events' \in Seq(Stored)'
    BY <1>3, SameLog DEF EventsAdded
  <2>2. \A i \in DOMAIN events' : events'[i].at <= targetBlockNum
    <3>1. ASSUME NEW i \in DOMAIN events
          PROVE  events[i].at <= targetBlockNum
      <4> PICK a : a = events[i].at
        OBVIOUS
      <4>1. a \in Nat /\ a <= height
        BY <1>1, <1>4, LogTyped, Bounds
      <4>2. QED
        BY <1>7, <4>1
    <3>2. QED
      BY <1>2, <1>5, <1>6, <3>1
  <2>3. /\ made' \in Seq(Pools) /\ \A i, j \in DOMAIN made' : made'[i] = made'[j] => i = j
        /\ \A p : HasRow(p)' <=> HasRow(p) \/ p = watched
    BY MadeWritten DEF Wrote, HasRow
  <2>4. PoolRow(t, r) \in PoolRows(watched)
    BY <1>3, RowWritten
  <2>5. \A p \in Pools : IF HasRow(p)' THEN pools'[p] \in PoolRows(p)' ELSE pools'[p] = NoRow
    BY <1>1, <1>8, <2>3, <2>4, SameLog DEF TablesInv
  <2>6. \A i \in DOMAIN events' : events'[i].at <= height'
    BY <2>2
  <2>7. QED
    BY <1>8, <2>1, <2>3, <2>5, <2>6 DEF TablesInv
<1>10. ASSUME NEW p \in Pools
       PROVE  pools'[p].count = Cardinality(RowsOf(p)')
  <2> DEFINE X == IF p = watched THEN DOMAIN parsed ELSE {}
  <2>1. pools[p].count = Cardinality(RowsOf(p))
    BY DEF CountInv, TxCountMatchesRows
  <2>2. X \in SUBSET DOMAIN parsed /\ RowsOf(p) \in SUBSET DOMAIN events
        /\ RowsOf(p)' \in SUBSET DOMAIN events'
    BY DEF RowsOf
  <2>3. \A i \in DOMAIN events : i \in RowsOf(p)' <=> i \in RowsOf(p)
    <3>1. \A i \in DOMAIN events : i \in DOMAIN events' /\ events'[i] = events[i]
      BY <1>2, <1>3, <1>4 DEF EventsAdded
    <3>2. QED
      BY <3>1 DEF RowsOf
  <2>4. \A k \in 1..Parts : Len(events) + k \in RowsOf(p)' <=> ids[k] \in X
    <3>1. \A k \in 1..Parts : /\ Len(events) + k \in DOMAIN events'
                              /\ events'[Len(events) + k].at = ids[k]
      BY <1>2, <1>3, <1>4 DEF EventsAdded
    <3>2. QED
      BY <1>2, <1>5, <3>1 DEF RowsOf
  <2> PICK B : B = RowsOf(p)'
    OBVIOUS
  <2> PICK A : A = RowsOf(p)
    OBVIOUS
  <2> PICK Y : Y = X
    OBVIOUS
  <2>9. Adds(ids, A, Y, B)
    BY <1>3, <2>2, <2>3, <2>4 DEF Adds
  <2>10. Cardinality(B) = Cardinality(A) + Cardinality(Y) /\ IsFiniteSet(A)
    BY <2>9, AddedCount
  <2> HIDE DEF X
  <2>5. Cardinality(B) = Cardinality(RowsOf(p)) + Cardinality(X) /\ IsFiniteSet(RowsOf(p))
    BY <2>10
  <2>6. CASE p = watched
    <3>1. Cardinality(X) = Parts
      BY <2>6 DEF X, Parts
    <3>2. pools'[p].count = pools[p].count + Parts
      BY <1>3, <1>8, <2>6, RowWritten
    <3>3. QED
      BY <2>1, <2>5, <3>1, <3>2
  <2>7. CASE p # watched
    <3>1. Cardinality(X) = 0
      BY <2>7, FS_EmptySet DEF X
    <3>2. Cardinality(RowsOf(p)) \in Nat
      BY <2>5, FS_CardinalityType
    <3>3. pools'[p] = pools[p]
      BY <1>8, <2>7
    <3>4. QED
      BY <2>1, <2>5, <3>1, <3>2, <3>3
  <2>8. QED
    BY <2>6, <2>7
<1>11. ASSUME NEW i \in DOMAIN events', NEW p, p = log[events'[i].at].pool
       PROVE  pools'[p].reserves = 0 \/ pools'[p].reserves >= Version(p, events'[i].at)
  <2>1. CASE p = watched
    <3>1. pools'[p].reserves = r
      BY <1>3, <1>8, <2>1, RowWritten
    <3> PICK a : a = events'[i].at
      OBVIOUS
    <3>2. a \in Nat /\ a <= targetBlockNum
      <4>1. events'[i] \in Stored
        <5> PICK S : S = Stored
          OBVIOUS
        <5> PICK new : new = events'
          OBVIOUS
        <5>1. new \in Seq(S) /\ i \in DOMAIN new
          BY <1>3, <1>11 DEF EventsAdded
        <5>2. new[i] \in S
          BY <5>1
        <5>3. QED
          BY <5>2
      <4>2. a \in DOMAIN log
        BY <4>1 DEF Stored
      <4>3. a <= targetBlockNum
        BY <1>9 DEF TablesInv
      <4>4. QED
        BY <1>1, <4>2, <4>3, LogTyped, Bounds
    <3>3. Version(watched, a) <= Version(watched, targetBlockNum)
      BY <1>1, <1>7, <3>2, VersionGrows
    <3>4. Version(watched, a) \in Nat /\ Version(watched, targetBlockNum) \in Nat
      BY <1>1, <1>7, <3>2, OfFinite
    <3>5. r = 0 \/ (r >= Version(watched, targetBlockNum) /\ r \in Int)
      BY <1>3 DEF Wrote
    <3>6. r = 0 \/ r >= Version(watched, a)
      BY <3>3, <3>4, <3>5
    <3>7. QED
      BY <2>1, <3>1, <3>6
  <2>2. CASE p # watched
    <3>1. i \in DOMAIN events /\ events'[i] = events[i]
      BY <1>2, <1>5, <1>6, <1>11, <2>2
    <3>2. p \in Pools
      BY <1>1, <1>4, <1>11, <3>1, LogTyped
    <3>3. pools'[p] = pools[p]
      BY <1>8, <2>2, <3>2
    <3>4. QED
      BY <1>11, <3>1, <3>3 DEF ReservesInv, ReservesFollowEvents
  <2>3. QED
    BY <2>1, <2>2
<1>12. CountInv'
  BY <1>10 DEF CountInv, TxCountMatchesRows
<1>13. ReservesInv'
  BY <1>11, SameLog DEF ReservesInv, ReservesFollowEvents
<1>14. QED
  BY <1>9, <1>12, <1>13

-----------------------------------------------------------------------------
(***************************************************************************)
(* The traces of failed calls.                                             *)
(***************************************************************************)
LEMMA OneMore ==
  ASSUME NEW A, NEW B, NEW x, NEW c \in {0, 1}, IsFiniteSet(A),
         B \subseteq A \cup (IF c = 0 THEN {} ELSE {x})
  PROVE  IsFiniteSet(B) /\ Cardinality(B) <= Cardinality(A) + c
<1>1. Cardinality(A) \in Nat
  BY FS_CardinalityType
<1>2. CASE c = 0
  <2>1. B \subseteq A
    BY <1>2
  <2>2. IsFiniteSet(B) /\ Cardinality(B) <= Cardinality(A)
    BY <2>1, FS_Subset
  <2>3. QED
    BY <1>1, <1>2, <2>2
<1>3. CASE c = 1
  <2> PICK C : C = A \cup {x}
    OBVIOUS
  <2>1. B \subseteq C
    BY <1>3
  <2>2. /\ IsFiniteSet(C) /\ Cardinality(C) \in Nat
        /\ Cardinality(C) = Cardinality(A) \/ Cardinality(C) = Cardinality(A) + 1
    BY FS_AddElement, FS_CardinalityType
  <2>3. IsFiniteSet(B) /\ Cardinality(B) <= Cardinality(C) /\ Cardinality(B) \in Nat
    BY <2>1, <2>2, FS_Subset, FS_CardinalityType
  <2>4. QED
    BY <1>1, <1>3, <2>2, <2>3
<1>4. QED
  BY <1>2, <1>3

\* The sets that FailuresInv counts are finite.
LEMMA TracesFinite ==
  ASSUME TypeInv
  PROVE  /\ IsFiniteSet(ToSet(made)) /\ IsFiniteSet(BlindRows) /\ IsFiniteSet(EmptyReserves)
         /\ IsFiniteSet(UnknownSenders) /\ IsFiniteSet(UnknownTokens)
         /\ IsFiniteSet(LostSenders) /\ IsFiniteSet(LostTokens)
<1>1. made \in Seq(Pools) /\ IsFiniteSet(DOMAIN parsed)
  BY ParsedFacts DEF TypeInv, TablesInv
<1>2. IsFiniteSet(ToSet(made))
  <2>1. DOMAIN made = 1..Len(made) /\ Len(made) \in Nat
    BY <1>1
  <2>2. IsFiniteSet(DOMAIN made)
    BY <2>1, FS_Interval
  <2> PICK S : S = ToSet(made)
    OBVIOUS
  <2> PICK D : D = DOMAIN made
    OBVIOUS
  <2>3. made \in Surjection(D, S)
    BY <1>1 DEF Surjection, ToSet
  <2>4. IsFiniteSet(S)
    BY <2>2, <2>3, FS_Surjection
  <2>5. QED
    BY <2>4
<1>3. IsFiniteSet(DOMAIN events)
  <2>1. DOMAIN events = 1..Len(events) /\ Len(events) \in Nat
    BY StoredFacts DEF TypeInv
  <2>2. QED
    BY <2>1, FS_Interval
<1>4. BlindRows \subseteq ToSet(made) /\ EmptyReserves \subseteq ToSet(made)
  BY DEF BlindRows, EmptyReserves
<1>5. UnknownSenders \subseteq DOMAIN events /\ UnknownTokens \subseteq DOMAIN events
  BY DEF UnknownSenders, UnknownTokens
<1>6. LostSenders \subseteq DOMAIN parsed /\ LostTokens \subseteq DOMAIN parsed
  BY DEF LostSenders, LostTokens
<1>7. QED
  BY <1>1, <1>2, <1>3, <1>4, <1>5, <1>6, FS_Subset

LEMMA WriteFailures ==
  ASSUME TypeInv, FailuresInv, pc = "parsed", NEW t, NEW r, NEW ids, Wrote(t, r, ids),
         NEW k \in Nat, NEW cost \in Nat, faults' = faults + (k + cost),
         (IF t THEN 0 ELSE 1) + (IF r = 0 THEN 1 ELSE 0) <= cost,
         parsed' = NoEvents
  PROVE  FailuresInv'
<1> DEFINE unknown == IF t THEN 0 ELSE 1
           empty   == IF r = 0 THEN 1 ELSE 0
<1>1. unknown \in {0, 1} /\ empty \in {0, 1}
  OBVIOUS
<1>2. EventsAdded(ids) /\ t \in BOOLEAN /\ r \in 0..Version(watched, Len(log))
  BY DEF Wrote
<1>3. watched \in Pools /\ DOMAIN pools = Pools /\ ToSet(made) \subseteq Pools
  BY DEF TypeInv, TablesInv, BaseInv, ToSet
<1>4. /\ pools'[watched] = PoolRow(t, r) /\ \A p \in Pools : p # watched => pools'[p] = pools[p]
      /\ ToSet(made)' = ToSet(made) \cup {watched}
  BY <1>3, MadeWritten DEF Wrote
<1>5. /\ pools'[watched].reserves = r
      /\ pools'[watched].tokens = IF HasRow(watched) THEN pools[watched].tokens ELSE t
  BY <1>2, <1>4, RowWritten
<1>6. BlindRows' \subseteq BlindRows \cup (IF unknown = 0 THEN {} ELSE {watched})
  <2> SUFFICES ASSUME NEW p \in ToSet(made)', ~pools'[p].tokens
               PROVE  p \in BlindRows \/ (~t /\ p = watched)
    BY DEF BlindRows
  <2>1. CASE p = watched
    BY <1>5, <2>1 DEF HasRow, BlindRows
  <2>2. CASE p # watched
    BY <1>3, <1>4, <2>2 DEF BlindRows
  <2>3. QED
    BY <2>1, <2>2
<1>7. EmptyReserves' \subseteq EmptyReserves \cup (IF empty = 0 THEN {} ELSE {watched})
  <2> SUFFICES ASSUME NEW p \in ToSet(made)', pools'[p].reserves = 0
               PROVE  p \in EmptyReserves \/ (r = 0 /\ p = watched)
    BY DEF EmptyReserves
  <2>1. CASE p = watched
    BY <1>5, <2>1
  <2>2. CASE p # watched
    BY <1>3, <1>4, <2>2 DEF EmptyReserves
  <2>3. QED
    BY <2>1, <2>2
<1> PICK un : un = unknown
  OBVIOUS
<1> PICK em : em = empty
  OBVIOUS
<1>8. un \in {0, 1} /\ em \in {0, 1} /\ un + em <= cost
  OBVIOUS
<1>9. /\ Cardinality(BlindRows') <= Cardinality(BlindRows) + un
      /\ Cardinality(BlindRows') \in Nat
  <2> PICK A : A = BlindRows
    OBVIOUS
  <2> PICK B : B = BlindRows'
    OBVIOUS
  <2>1. IsFiniteSet(A) /\ B \subseteq A \cup (IF un = 0 THEN {} ELSE {watched})
    BY <1>6, TracesFinite
  <2>2. IsFiniteSet(B) /\ Cardinality(B) <= Cardinality(A) + un
    BY <1>8, <2>1, OneMore
  <2>3. QED
    BY <2>2, FS_CardinalityType
<1>10. /\ Cardinality(EmptyReserves') <= Cardinality(EmptyReserves) + em
       /\ Cardinality(EmptyReserves') \in Nat
  <2> PICK A : A = EmptyReserves
    OBVIOUS
  <2> PICK B : B = EmptyReserves'
    OBVIOUS
  <2>1. IsFiniteSet(A) /\ B \subseteq A \cup (IF em = 0 THEN {} ELSE {watched})
    BY <1>7, TracesFinite
  <2>2. IsFiniteSet(B) /\ Cardinality(B) <= Cardinality(A) + em
    BY <1>8, <2>1, OneMore
  <2>3. QED
    BY <2>2, FS_CardinalityType
<1> HIDE DEF unknown, empty
<1>11. Cardinality(UnknownSenders') = Cardinality(UnknownSenders) + Cardinality(LostSenders)
  <2> PICK A : A = UnknownSenders
    OBVIOUS
  <2> PICK X : X = LostSenders
    OBVIOUS
  <2> PICK B : B = UnknownSenders'
    OBVIOUS
  <2>1. Adds(ids, A, X, B)
    <3>1. /\ A \in SUBSET DOMAIN events /\ X \in SUBSET DOMAIN parsed
          /\ B \in SUBSET DOMAIN events'
      BY DEF UnknownSenders, LostSenders
    <3>2. \A i \in DOMAIN events : i \in B <=> i \in A
      BY <1>2, AddedDomain DEF UnknownSenders, EventsAdded
    <3>3. \A j \in 1..Parts : Len(events) + j \in B <=> ids[j] \in X
      BY <1>2, AddedDomain DEF UnknownSenders, LostSenders, EventsAdded
    <3>4. QED
      BY <1>2, <3>1, <3>2, <3>3 DEF Adds
  <2>2. Cardinality(B) = Cardinality(A) + Cardinality(X)
    BY <2>1, AddedCount
  <2>3. QED
    BY <2>2
<1>12. Cardinality(UnknownTokens') = Cardinality(UnknownTokens) + Cardinality(LostTokens)
  <2> PICK A : A = UnknownTokens
    OBVIOUS
  <2> PICK X : X = LostTokens
    OBVIOUS
  <2> PICK B : B = UnknownTokens'
    OBVIOUS
  <2>1. Adds(ids, A, X, B)
    <3>1. /\ A \in SUBSET DOMAIN events /\ X \in SUBSET DOMAIN parsed
          /\ B \in SUBSET DOMAIN events'
      BY DEF UnknownTokens, LostTokens
    <3>2. \A i \in DOMAIN events : i \in B <=> i \in A
      BY <1>2, AddedDomain DEF UnknownTokens, EventsAdded
    <3>3. \A j \in 1..Parts : Len(events) + j \in B <=> ids[j] \in X
      BY <1>2, AddedDomain DEF UnknownTokens, LostTokens, EventsAdded
    <3>4. QED
      BY <1>2, <3>1, <3>2, <3>3 DEF Adds
  <2>2. Cardinality(B) = Cardinality(A) + Cardinality(X)
    BY <2>1, AddedCount
  <2>3. QED
    BY <2>2
<1>13. LostSenders' = {} /\ LostTokens' = {}
  BY DEF LostSenders, LostTokens, NoEvents
<1>14. /\ Cardinality(BlindRows) \in Nat /\ Cardinality(EmptyReserves) \in Nat
       /\ Cardinality(UnknownSenders) \in Nat /\ Cardinality(UnknownTokens) \in Nat
       /\ Cardinality(LostSenders) \in Nat /\ Cardinality(LostTokens) \in Nat
  BY TracesFinite, FS_CardinalityType
<1>15. Cardinality(LostSenders') = 0 /\ Cardinality(LostTokens') = 0
  BY <1>13, FS_EmptySet
<1>16. QED
  <2> DEFINE us == Cardinality(UnknownSenders)
             ut == Cardinality(UnknownTokens)
             bl == Cardinality(BlindRows)
             er == Cardinality(EmptyReserves)
             ls == Cardinality(LostSenders)
             lt == Cardinality(LostTokens)
  <2> PICK bl2 \in Nat : bl2 = Cardinality(BlindRows')
    BY <1>9
  <2> PICK er2 \in Nat : er2 = Cardinality(EmptyReserves')
    BY <1>10
  <2>1. us + ut + bl + er + ls + lt <= faults
    BY DEF FailuresInv
  <2>2. faults \in Nat
    BY Bounds DEF TypeInv, BaseInv
  <2>3. bl2 <= bl + un /\ er2 <= er + em
    BY <1>9, <1>10
  <2>4. us \in Nat /\ ut \in Nat /\ bl \in Nat /\ er \in Nat /\ ls \in Nat /\ lt \in Nat
    BY <1>14
  <2> HIDE DEF us, ut, bl, er, ls, lt
  <2>5. (us + ls) + (ut + lt) + bl2 + er2 + 0 + 0 <= faults + (k + cost)
    BY <1>8, <2>1, <2>2, <2>3, <2>4
  <2>6. /\ Cardinality(UnknownSenders') = us + ls /\ Cardinality(UnknownTokens') = ut + lt
    BY <1>11, <1>12 DEF us, ut, ls, lt
  <2>7. QED
    BY <1>15, <2>5, <2>6 DEF FailuresInv

\* A step that writes no row: the pass is kept or dropped.
LEMMA KeptFailures ==
  ASSUME TypeInv, FailuresInv, UNCHANGED <<events, pools, made>>,
         parsed' = parsed \/ parsed' = NoEvents, NEW c \in Nat, faults' = faults + c
  PROVE  FailuresInv'
<1>1. /\ Cardinality(BlindRows) \in Nat /\ Cardinality(EmptyReserves) \in Nat
      /\ Cardinality(UnknownSenders) \in Nat /\ Cardinality(UnknownTokens) \in Nat
      /\ Cardinality(LostSenders) \in Nat /\ Cardinality(LostTokens) \in Nat
  BY TracesFinite, FS_CardinalityType
<1>2. /\ BlindRows' = BlindRows /\ EmptyReserves' = EmptyReserves
      /\ UnknownSenders' = UnknownSenders /\ UnknownTokens' = UnknownTokens
  BY DEF BlindRows, EmptyReserves, UnknownSenders, UnknownTokens, ToSet
<1>3. \/ LostSenders' = LostSenders /\ LostTokens' = LostTokens
      \/ LostSenders' = {} /\ LostTokens' = {}
  BY DEF LostSenders, LostTokens, NoEvents
<1>4. Cardinality({}) = 0
  BY FS_EmptySet
<1>5. faults \in Nat
  BY Bounds DEF TypeInv, BaseInv
<1> PICK ls \in Nat : ls = Cardinality(LostSenders')
  BY <1>1, <1>3, <1>4
<1> PICK lt \in Nat : lt = Cardinality(LostTokens')
  BY <1>1, <1>3, <1>4
<1>6. ls <= Cardinality(LostSenders) /\ lt <= Cardinality(LostTokens)
  BY <1>1, <1>3, <1>4
<1>7. Cardinality(UnknownSenders) + Cardinality(UnknownTokens) + Cardinality(BlindRows)
      + Cardinality(EmptyReserves) + ls + lt <= faults + c
  BY <1>1, <1>5, <1>6 DEF FailuresInv
<1>8. QED
  BY <1>2, <1>7 DEF FailuresInv

\* The parsed events that a pass begins with: one failure, one lost sender or
\* unknown pair of tokens.
LEMMA ParsePass ==
  ASSUME TypeInv, FailuresInv, NEW target \in Targets, Parse(target)
  PROVE  /\ PassInv' /\ FailuresInv' /\ faults' \in 0..MaxFaults
         /\ target \in 0..MaxLog /\ height <= target
<1>1. BaseInv /\ PassInv /\ TablesInv
  BY DEF TypeInv
<1>2. PICK lost \in SUBSET Batch(target), blind \in SUBSET Batch(target) :
        /\ Failing(Cardinality(lost) + Cardinality(blind))
        /\ parsed' = [i \in Batch(target) |->
                       [sender |-> IF i \in lost THEN ZeroAddress ELSE log[i].user,
                        tokens |-> i \notin blind /\ (NeedsCall \/ pools[watched].tokens),
                        created |-> now]]
  BY DEF Parse
<1>3. target \in 0..MaxLog /\ height <= target /\ target \in Nat
  BY <1>1, LogTyped, Bounds DEF Targets
<1>4. Batch(target) \subseteq Of(watched, target) /\ Batch(target) # {}
  BY DEF Batch, Parse
<1>5. IsFiniteSet(Of(watched, target)) /\ Of(watched, target) \subseteq DOMAIN log
  BY <1>1, <1>3, OfFinite
<1>6. IsFiniteSet(lost) /\ IsFiniteSet(blind)
  BY <1>4, <1>5, FS_Subset
<1>7. Cardinality(lost) \in Nat /\ Cardinality(blind) \in Nat
  BY <1>6, FS_CardinalityType
<1>8. \A i \in Batch(target) : log[i].user \in Users
  BY <1>1, <1>4, <1>5, LogTyped
<1>9. /\ DOMAIN parsed' = Batch(target)
      /\ \A i \in Batch(target) :
           /\ parsed'[i].sender = IF i \in lost THEN ZeroAddress ELSE log[i].user
           /\ parsed'[i].tokens = (i \notin blind /\ (NeedsCall \/ pools[watched].tokens))
           /\ parsed'[i] = [sender |-> parsed'[i].sender, tokens |-> parsed'[i].tokens,
                            created |-> now]
  BY <1>2
<1>10. PassInv'
  <2>6. now \in 0..now /\ now' = now
    BY <1>1, Numbers DEF Parse
  <2>1. \A i \in Batch(target) : parsed'[i] \in Parsed
    <3>1. \A i \in Batch(target) : parsed'[i].sender \in Senders
      BY <1>8, <1>9 DEF Senders
    <3>2. \A i \in Batch(target) : parsed'[i].tokens \in BOOLEAN
      BY <1>9
    <3>3. QED
      BY <1>9, <2>6, <3>1, <3>2 DEF Parsed
  <2>2. parsed' \in [DOMAIN parsed' -> Parsed]
    BY <1>2, <1>9, <2>1
  <2>3. Of(watched, targetBlockNum)' = Of(watched, target)
    BY DEF Of, Parse
  <2>4. pc' = "parsed" /\ height' = height /\ targetBlockNum' = target
    BY DEF Parse, tables
  <2>5. QED
    BY <1>3, <1>4, <1>9, <2>2, <2>3, <2>4, <2>6 DEF PassInv, Parsed, Senders
<1>11. LostSenders' \subseteq lost
  BY <1>8, <1>9, Bounds DEF LostSenders
<1>12. LostTokens' \subseteq blind
  <2>1. \A i \in Batch(target) : ~parsed'[i].tokens => i \in blind
    BY <1>9 DEF NeedsCall
  <2>2. QED
    BY <1>9, <2>1 DEF LostTokens
<1> PICK ls \in Nat : ls = Cardinality(LostSenders') /\ ls <= Cardinality(lost)
  BY <1>6, <1>7, <1>11, FS_Subset, FS_CardinalityType
<1> PICK lt \in Nat : lt = Cardinality(LostTokens') /\ lt <= Cardinality(blind)
  BY <1>6, <1>7, <1>12, FS_Subset, FS_CardinalityType
<1>13. faults \in Nat /\ MaxFaults \in Nat
  BY Bounds DEF TypeInv, BaseInv
<1>14. faults' = faults + (Cardinality(lost) + Cardinality(blind)) /\ faults' \in 0..MaxFaults
  BY <1>2, <1>7, <1>13 DEF Failing
<1>15. /\ BlindRows' = BlindRows /\ EmptyReserves' = EmptyReserves
       /\ UnknownSenders' = UnknownSenders /\ UnknownTokens' = UnknownTokens
  BY DEF BlindRows, EmptyReserves, UnknownSenders, UnknownTokens, ToSet, Parse, tables
<1>16. /\ Cardinality(BlindRows) \in Nat /\ Cardinality(EmptyReserves) \in Nat
       /\ Cardinality(UnknownSenders) \in Nat /\ Cardinality(UnknownTokens) \in Nat
       /\ Cardinality(LostSenders) \in Nat /\ Cardinality(LostTokens) \in Nat
  BY TracesFinite, FS_CardinalityType
<1>17. Cardinality(UnknownSenders) + Cardinality(UnknownTokens) + Cardinality(BlindRows)
       + Cardinality(EmptyReserves) + ls + lt <= faults + (Cardinality(lost) + Cardinality(blind))
  BY <1>7, <1>13, <1>16 DEF FailuresInv
<1>18. FailuresInv'
  BY <1>14, <1>15, <1>17 DEF FailuresInv
<1>19. QED
  BY <1>3, <1>10, <1>14, <1>18

-----------------------------------------------------------------------------
(***************************************************************************)
(* Steps that write no rows, and the request being answered.               *)
(***************************************************************************)
LEMMA KeptTables ==
  ASSUME TypeInv, CountInv, ReservesInv, UNCHANGED <<log, events, pools, made>>,
         NEW n \in Nat, now' = now + n, NEW h \in Nat, height' = h, height <= h
  PROVE  TablesInv' /\ CountInv' /\ ReservesInv'
<1>1. BaseInv /\ TablesInv /\ now \in Nat /\ height \in Nat
  BY Bounds DEF TypeInv, BaseInv
<1>2. \A i \in DOMAIN events : events[i].at <= h
  <2> SUFFICES ASSUME NEW i \in DOMAIN events PROVE events[i].at <= h
    OBVIOUS
  <2> PICK a : a = events[i].at
    OBVIOUS
  <2>1. a \in Nat /\ a <= height
    BY <1>1, StoredFacts, LogTyped, Bounds
  <2>2. QED
    BY <1>1, <2>1
<1>3. events' \in Seq(Stored)'
  <2> PICK S : S = Stored
    OBVIOUS
  <2> PICK T : T = Stored'
    OBVIOUS
  <2> PICK m \in Nat : m = now'
    BY <1>1
  <2>1. S \subseteq T
    <3>1. \A k \in 0..now : k \in 0..m
      BY <1>1
    <3>2. QED
      BY <3>1 DEF Stored
  <2>2. events \in Seq(S)
    BY <1>1 DEF TablesInv
  <2>3. events \in Seq(T)
    BY <2>1, <2>2
  <2>4. QED
    BY <2>3
<1>4. \A p : HasRow(p)' <=> HasRow(p)
  BY DEF HasRow, ToSet
<1>5. TablesInv'
  BY <1>1, <1>2, <1>3, <1>4, SameLog DEF TablesInv
<1>6. CountInv' /\ ReservesInv'
  BY SameLog DEF CountInv, TxCountMatchesRows, ReservesInv, ReservesFollowEvents, RowsOf
<1>7. QED
  BY <1>5, <1>6

\* A waiting request: its list has only grown.
LEMMA KeptReader ==
  ASSUME TypeInv, ReaderInv, reader' = reader, Len(events) <= Len(events'),
         Len(made) <= Len(made'), Len(events') \in Nat, Len(made') \in Nat
  PROVE  ReaderInv'
<1>1. Len(events) \in Nat /\ Len(made) \in Nat
  BY StoredFacts DEF TypeInv, TablesInv
<1> PICK ne \in Nat : ne = Len(events')
  OBVIOUS
<1> PICK nm \in Nat : nm = Len(made')
  OBVIOUS
<1> SUFFICES ASSUME reader # NoRequest PROVE ReaderInv'
  BY DEF ReaderInv
<1> PICK r : r = reader
  OBVIOUS
<1>2. ASSUME r.request \in {"events", "pools"}
      PROVE  r.got["count"] <= Len(Listed(r.request))'
  <2>1. r.got["count"] \in Nat /\ r.got["count"] <= Len(Listed(r.request))
    BY <1>2 DEF ReaderInv
  <2>2. CASE r.request = "events"
    BY <1>1, <2>1, <2>2 DEF Listed
  <2>3. CASE r.request # "events"
    BY <1>1, <2>1, <2>3 DEF Listed, ActivePools
  <2>4. QED
    BY <2>2, <2>3
<1>3. Len(Queries(r.request))' = Len(Queries(r.request))
  BY DEF Queries, StatsQueries, GrowthQueries, ListQueries
<1>4. QED
  BY <1>2, <1>3 DEF ReaderInv, Queries, StatsQueries, GrowthQueries, ListQueries

LEMMA QueriedFacts ==
  ASSUME NEW r, NEW next \in Nat, NEW q, q = Queries(r.request)[next],
         r = [request |-> r.request, next |-> next, got |-> r.got, pool |-> r.pool]
  PROVE  /\ Queried(r) = [request |-> r.request, next |-> next + 1, got |-> Queried(r).got,
                          pool |-> r.pool]
         /\ DOMAIN Queried(r).got = DOMAIN r.got \cup {q}
         /\ Queried(r).got[q] = Query(q, r)
         /\ \A x \in DOMAIN r.got : x # q => Queried(r).got[x] = r.got[x]
<1> PICK got : got = [x \in DOMAIN r.got \cup {q} |-> IF x = q THEN Query(q, r) ELSE r.got[x]]
  OBVIOUS
<1>1. r.next = next
  OBVIOUS
<1>2. Queried(r) = [r EXCEPT !.next = next + 1, !.got = got]
  BY <1>1 DEF Queried
<1> PICK request : request = r.request
  OBVIOUS
<1> PICK pool : pool = r.pool
  OBVIOUS
<1> PICK last : last = [r EXCEPT !.next = next + 1, !.got = got]
  OBVIOUS
<1>3. r \in [request : {request}, next : {next}, got : {r.got}, pool : {pool}]
  OBVIOUS
<1>4. last \in [request : {request}, next : {next + 1}, got : {got}, pool : {pool}]
  BY <1>3
<1>5. last = [request |-> request, next |-> next + 1, got |-> got, pool |-> pool]
  BY <1>4
<1>6. Queried(r) = last /\ last.got = got
  BY <1>2, <1>5
<1>7. /\ DOMAIN got = DOMAIN r.got \cup {q} /\ got[q] = Query(q, r)
      /\ \A x \in DOMAIN r.got : x # q => got[x] = r.got[x]
  OBVIOUS
<1>8. QED
  BY <1>5, <1>6, <1>7

\* The number of queries of a request, and which is the first.
LEMMA QueriesAre ==
  \A request :
    /\ Len(Queries(request)) = IF request \in {"stats", "growth"} THEN 4 ELSE 2
    /\ Len(Queries(request))' = Len(Queries(request))
    /\ request \notin {"stats", "growth"} =>
         Queries(request)[1] = "count" /\ Queries(request)[2] = "rows"
    /\ request = "stats" => /\ Queries(request)[1] = "fees" /\ Queries(request)[2] = "today"
                            /\ Queries(request)[3] = "active" /\ Queries(request)[4] = "total"
    /\ request = "growth" => /\ Queries(request)[1] = "asked" /\ Queries(request)[2] = "day"
                             /\ Queries(request)[3] = "last" /\ Queries(request)[4] = "prev"
BY DEF Queries, StatsQueries, GrowthQueries, ListQueries

\* A request with its first query.
LEMMA RequestBegun ==
  ASSUME NEW request \in Requests, RequestBegin(request)
  PROVE  LET q == Queries(request)[1]
         IN  \E p \in PoolsAsked(request) : \E r :
               /\ r.request = request /\ r.pool = p /\ r.got = <<>>
               /\ reader' = [request |-> request, next |-> 2, got |-> reader'.got, pool |-> p]
               /\ q \in DOMAIN reader'.got /\ reader'.got[q] = Query(q, r)
<1> PICK q : q = Queries(request)[1]
  OBVIOUS
<1> PICK p \in PoolsAsked(request) :
      reader' = Queried([request |-> request, next |-> 1, got |-> <<>>, pool |-> p])
  BY DEF RequestBegin
<1> PICK r : r = [request |-> request, next |-> 1, got |-> <<>>, pool |-> p]
  OBVIOUS
<1>1. /\ r.request = request /\ r.got = <<>> /\ r.pool = p
      /\ r = [request |-> r.request, next |-> 1, got |-> r.got, pool |-> r.pool]
  OBVIOUS
<1>2. 1 \in Nat /\ 1 + 1 = 2
  OBVIOUS
<1>3. reader' = Queried(r)
  OBVIOUS
<1>4. /\ Queried(r) = [request |-> request, next |-> 2, got |-> Queried(r).got, pool |-> p]
      /\ q \in DOMAIN Queried(r).got /\ Queried(r).got[q] = Query(q, r)
  BY <1>1, <1>2, QueriedFacts
<1>5. QED
  BY <1>1, <1>3, <1>4

\* The second or third query of a request that has four.
LEMMA RequestGoesOn ==
  ASSUME ReaderInv, RequestNext
  PROVE  LET q == Queries(reader.request)[reader.next]
         IN  /\ reader # NoRequest /\ reader.request \in {"stats", "growth"}
             /\ reader.next = 2 \/ reader.next = 3
             /\ reader' = [request |-> reader.request, next |-> reader.next + 1,
                           got |-> reader'.got, pool |-> reader.pool]
             /\ DOMAIN reader'.got = DOMAIN reader.got \cup {q}
             /\ reader'.got[q] = Query(q, reader)
             /\ \A x \in DOMAIN reader.got : x # q => reader'.got[x] = reader.got[x]
<1> PICK r : r = reader
  OBVIOUS
<1>1. /\ r # NoRequest /\ reader' = Queried(r) /\ r.next # Len(Queries(r.request))
  BY DEF RequestNext, LastQuery
<1>2. /\ r = [request |-> r.request, next |-> r.next, got |-> r.got, pool |-> r.pool]
      /\ r.request \in Requests /\ r.next \in 2..Len(Queries(r.request))
  BY <1>1 DEF ReaderInv
<1>3. r.request \in {"stats", "growth"} /\ (r.next = 2 \/ r.next = 3)
  <2> PICK k : k = Len(Queries(r.request))
    OBVIOUS
  <2>1. r.next \in 2..k /\ r.next # k
    BY <1>1, <1>2
  <2>2. k = 2 \/ (k = 4 /\ r.request \in {"stats", "growth"})
    BY QueriesAre
  <2>3. \A x : (x \in 2..2 => x = 2) /\ (x \in 2..4 => x = 2 \/ x = 3 \/ x = 4)
    OBVIOUS
  <2>4. k # 2
    BY <2>1, <2>3
  <2>5. QED
    BY <2>1, <2>2, <2>3, <2>4
<1>4. r.next \in Nat
  BY <1>3
<1>5. QED
  BY <1>1, <1>2, <1>3, <1>4, QueriedFacts

LEMMA RequestSteps ==
  ASSUME TypeInv, ReaderInv,
         (\E request \in Requests : RequestBegin(request)) \/ RequestNext \/ RequestReply
  PROVE  ReaderInv'
<1>1. UNCHANGED <<events, made>>
  BY DEF RequestBegin, RequestNext, RequestReply, tables
<1>2. Len(events) \in Nat /\ Len(made) \in Nat
  BY StoredFacts DEF TypeInv, TablesInv
<1> PICK s : s = reader'
  OBVIOUS
<1>3. ASSUME /\ s = [request |-> s.request, next |-> s.next, got |-> s.got, pool |-> s.pool]
             /\ s.request \in Requests /\ s.next \in 2..Len(Queries(s.request))
             /\ s.request \in {"events", "pools"} =>
                  "count" \in DOMAIN s.got /\ s.got["count"] = Len(Listed(s.request))
      PROVE  ReaderInv'
  <2> PICK n : n = Len(Listed(s.request))
    OBVIOUS
  <2>1. n \in Nat /\ n <= n /\ Len(Listed(reader.request))' = n
    BY <1>1, <1>2 DEF Listed, ActivePools
  <2>2. Len(Queries(reader.request))' = Len(Queries(s.request))
    BY QueriesAre DEF Queries, StatsQueries, GrowthQueries, ListQueries
  <2>3. QED
    BY <1>3, <2>1, <2>2 DEF ReaderInv, Requests
<1>4. ASSUME NEW request \in Requests, RequestBegin(request)
      PROVE  ReaderInv'
  <2> PICK q : q = Queries(request)[1]
    OBVIOUS
  <2> PICK p, r : /\ r.request = request
                  /\ s = [request |-> request, next |-> 2, got |-> s.got, pool |-> p]
                  /\ q \in DOMAIN s.got /\ s.got[q] = Query(q, r)
    BY <1>4, RequestBegun
  <2>1. /\ s.request = request /\ s.next = 2
        /\ s = [request |-> s.request, next |-> s.next, got |-> s.got, pool |-> s.pool]
    OBVIOUS
  <2>2. ASSUME request \in {"events", "pools"}
        PROVE  "count" \in DOMAIN s.got /\ s.got["count"] = Len(Listed(request))
    <3>1. q = "count"
      BY <2>2, QueriesAre
    <3>2. Query("count", r) = Len(Listed(r.request))
      BY DEF Query
    <3>3. QED
      BY <3>1, <3>2
  <2>3. s.next \in 2..Len(Queries(s.request))
    <3>1. Len(Queries(s.request)) = 2 \/ Len(Queries(s.request)) = 4
      BY QueriesAre
    <3>2. 2 \in 2..2 /\ 2 \in 2..4
      OBVIOUS
    <3>3. QED
      BY <2>1, <3>1, <3>2
  <2>4. QED
    BY <1>3, <2>1, <2>2, <2>3
<1>5. ASSUME RequestNext
      PROVE  ReaderInv'
  <2> PICK r : r = reader
    OBVIOUS
  <2>1. /\ r.request \in {"stats", "growth"} /\ (r.next = 2 \/ r.next = 3)
        /\ s = [request |-> r.request, next |-> r.next + 1, got |-> s.got, pool |-> r.pool]
    BY <1>5, RequestGoesOn
  <2>2. /\ s.request \in {"stats", "growth"} /\ s.next \in 2..4
        /\ s = [request |-> s.request, next |-> s.next, got |-> s.got, pool |-> s.pool]
    BY <2>1
  <2>3. Len(Queries(s.request)) = 4
    BY <2>2, QueriesAre
  <2>4. QED
    BY <1>3, <2>2, <2>3 DEF Requests
<1>6. RequestReply => ReaderInv'
  BY DEF RequestReply, ReaderInv
<1>7. QED
  BY <1>4, <1>5, <1>6

-----------------------------------------------------------------------------
(***************************************************************************)
(* Every step preserves the invariant.                                     *)
(***************************************************************************)
LEMMA NoPass ==
  ASSUME pc' # "parsed", parsed' = NoEvents
  PROVE  PassInv'
<1>1. DOMAIN NoEvents = {} /\ NoEvents \in [DOMAIN NoEvents -> Parsed]
  BY DEF NoEvents
<1>2. QED
  BY <1>1 DEF PassInv, Parsed, Senders

LEMMA NoRowsWritten ==
  ASSUME Inv, UNCHANGED <<log, events, pools, made>>, NEW n \in Nat, now' = now + n,
         NEW h \in Nat, height' = h, height <= h, parsed' = parsed \/ parsed' = NoEvents,
         NEW c \in Nat, faults' = faults + c, reader' = reader \/ ReaderInv',
         BaseInv', PassInv'
  PROVE  Inv'
<1>1. TablesInv' /\ CountInv' /\ ReservesInv'
  BY KeptTables DEF Inv
<1>2. FailuresInv'
  BY KeptFailures DEF Inv
<1>3. ReaderInv'
  <2>1. Len(events) \in Nat /\ Len(made) \in Nat
    BY StoredFacts DEF Inv, TypeInv, TablesInv
  <2>2. QED
    BY <2>1, KeptReader DEF Inv
<1>4. QED
  BY <1>1, <1>2, <1>3 DEF Inv, TypeInv

LEMMA TickStep ==
  ASSUME Inv, Tick
  PROVE  Inv'
<1>1. BaseInv /\ PassInv
  BY DEF Inv, TypeInv
<1>2. /\ UNCHANGED <<log, events, pools, made, height, pc, watched, lastBlockNum, targetBlockNum,
                     parsed, reader, crashes, faults>>
      /\ now' = now + 1 /\ now < MaxTime
  BY DEF Tick, tables, listener, counters
<1>3. BaseInv'
  <2>1. now + 1 \in 0..MaxTime
    BY <1>1, <1>2, Bounds DEF BaseInv
  <2>2. QED
    BY <1>1, <1>2, <2>1 DEF BaseInv
<1>4. PassInv'
  <2> PICK P : P = Parsed
    OBVIOUS
  <2> PICK Q : Q = Parsed'
    OBVIOUS
  <2> PICK n \in Nat : n = now
    BY <1>1, Numbers
  <2>1. \A k \in 0..n : k \in 0..(n + 1)
    OBVIOUS
  <2>2. P \subseteq Q
    BY <1>2, <2>1 DEF Parsed, Senders
  <2>3. parsed \in [DOMAIN parsed -> P]
    BY <1>1 DEF PassInv
  <2>4. parsed' \in [DOMAIN parsed' -> Q]
    BY <1>2, <2>2, <2>3
  <2>5. QED
    BY <1>1, <1>2, <2>4, SameLog DEF PassInv
<1>5. QED
  BY <1>1, <1>2, <1>3, <1>4, Numbers, NoRowsWritten

LEMMA BootStep ==
  ASSUME Inv, NEW p \in Pools, Boot(p)
  PROVE  Inv'
<1>1. BaseInv
  BY DEF Inv, TypeInv
<1>2. /\ UNCHANGED <<log, now, events, pools, made, height, reader, crashes, faults>>
      /\ pc' = "idle" /\ watched' = p /\ lastBlockNum' = height /\ targetBlockNum' = 0
      /\ parsed' = NoEvents
  BY DEF Boot, tables, counters
<1>3. BaseInv'
  <2>1. height \in 0..(MaxLog + 1) /\ 0 \in 0..MaxLog
    BY <1>1, Bounds DEF BaseInv
  <2>2. QED
    BY <1>1, <1>2, <2>1 DEF BaseInv
<1>4. PassInv'
  BY <1>2, NoPass
<1>5. QED
  BY <1>1, <1>2, <1>3, <1>4, Numbers, NoRowsWritten

LEMMA CrashStep ==
  ASSUME Inv, Crash
  PROVE  Inv'
<1>1. BaseInv
  BY DEF Inv, TypeInv
<1>2. /\ UNCHANGED <<log, now, events, pools, made, height, watched, lastBlockNum, reader,
                     faults>>
      /\ crashes < MaxCrashes /\ crashes' = crashes + 1 /\ pc' = "down" /\ targetBlockNum' = 0
      /\ parsed' = NoEvents
  BY DEF Crash, tables
<1>3. BaseInv'
  <2>1. crashes + 1 \in 0..MaxCrashes /\ 0 \in 0..MaxLog
    BY <1>1, <1>2, Bounds DEF BaseInv
  <2>2. QED
    BY <1>1, <1>2, <2>1 DEF BaseInv
<1>4. PassInv'
  BY <1>2, NoPass
<1>5. QED
  BY <1>1, <1>2, <1>3, <1>4, Numbers, NoRowsWritten

LEMMA ParseStep ==
  ASSUME Inv, NEW target \in Targets, Parse(target)
  PROVE  Inv'
<1>1. BaseInv /\ TypeInv
  BY DEF Inv, TypeInv
<1>2. /\ UNCHANGED <<log, now, events, pools, made, height, watched, lastBlockNum, reader,
                     crashes>>
      /\ pc' = "parsed" /\ targetBlockNum' = target
  BY DEF Parse, tables
<1>3. PassInv' /\ FailuresInv' /\ faults' \in 0..MaxFaults /\ target \in 0..MaxLog
  BY ParsePass DEF Inv
<1>4. BaseInv'
  BY <1>1, <1>2, <1>3 DEF BaseInv
<1>5. TablesInv' /\ CountInv' /\ ReservesInv'
  BY <1>1, <1>2, Numbers, KeptTables DEF Inv
<1>6. ReaderInv'
  <2>1. Len(events) \in Nat /\ Len(made) \in Nat
    BY <1>1, StoredFacts DEF TypeInv, TablesInv
  <2>2. QED
    BY <1>1, <1>2, <2>1, KeptReader DEF Inv
<1>7. QED
  BY <1>3, <1>4, <1>5, <1>6 DEF Inv, TypeInv

LEMMA EmptyPassStep ==
  ASSUME Inv, NEW target \in Targets, EmptyPass(target)
  PROVE  Inv'
<1>1. BaseInv /\ PassInv
  BY DEF Inv, TypeInv
<1>2. /\ UNCHANGED <<log, now, events, pools, made, pc, watched, targetBlockNum, parsed, reader,
                     crashes>>
      /\ pc = "idle" /\ height' = target /\ lastBlockNum' = target + 1
  BY DEF EmptyPass
<1>7. PICK c \in Nat : faults' = faults + c /\ faults' \in 0..MaxFaults
  <2>1. faults \in 0..MaxFaults /\ faults \in Nat /\ MaxFaults \in Nat
    BY <1>1, Numbers, Bounds DEF BaseInv
  <2>2. CASE faults' = faults
    <3>1. faults' = faults + 0 /\ 0 \in Nat
      BY <2>1, <2>2
    <3>2. QED
      BY <2>1, <2>2, <3>1
  <2>3. CASE Failing(1)
    <3>1. faults + 1 \in 0..MaxFaults /\ 1 \in Nat
      BY <2>1, <2>3 DEF Failing
    <3>2. QED
      BY <2>3, <3>1 DEF Failing
  <2>4. QED
    BY <2>2, <2>3 DEF EmptyPass
<1>3. target \in 0..MaxLog /\ target \in Nat /\ height <= target
  BY <1>1, LogTyped, Bounds DEF Targets
<1>4. BaseInv'
  <2>1. target + 1 \in 0..(MaxLog + 1)
    BY <1>3, Bounds
  <2>2. QED
    BY <1>1, <1>2, <1>3, <1>7, <2>1 DEF BaseInv
<1>5. PassInv'
  BY <1>1, <1>2, NoPass DEF PassInv
<1>6. QED
  BY <1>1, <1>2, <1>3, <1>4, <1>5, <1>7, Numbers, NoRowsWritten

LEMMA SaveFailsStep ==
  ASSUME Inv, SaveFails
  PROVE  Inv'
<1>1. BaseInv /\ PassInv
  BY DEF Inv, TypeInv
<1>2. /\ UNCHANGED <<log, now, events, pools, made, watched, lastBlockNum, reader, crashes>>
      /\ pc = "parsed" /\ pc' = "idle" /\ targetBlockNum' = 0 /\ parsed' = NoEvents
      /\ height' \in {height, targetBlockNum} /\ faults + 1 <= MaxFaults /\ faults' = faults + 1
  BY DEF SaveFails, EndPass, Failing
<1> PICK h \in Nat : height' = h /\ h \in 0..MaxLog /\ height <= h
  BY <1>1, <1>2, Numbers DEF BaseInv, PassInv
<1>3. BaseInv'
  <2>1. faults + 1 \in 0..MaxFaults /\ 0 \in 0..MaxLog
    BY <1>1, <1>2, Bounds DEF BaseInv
  <2>2. QED
    BY <1>1, <1>2, <2>1 DEF BaseInv
<1>4. PassInv'
  BY <1>2, NoPass
<1>5. QED
  BY <1>1, <1>2, <1>3, <1>4, Numbers, NoRowsWritten

LEMMA SaveSteps ==
  ASSUME Inv, Save \/ SaveUnacknowledged
  PROVE  Inv'
<1>1. BaseInv /\ PassInv /\ TypeInv
  BY DEF Inv, TypeInv
<1>2. /\ UNCHANGED <<log, now, watched, reader, crashes>>
      /\ pc = "parsed" /\ pc' = "idle" /\ targetBlockNum' = 0 /\ parsed' = NoEvents
      /\ height' = targetBlockNum
      /\ lastBlockNum' = targetBlockNum + 1 \/ lastBlockNum' = lastBlockNum
  BY DEF Save, SaveUnacknowledged, EndPass
<1> PICK k \in Nat : WriteRows(k)
  BY DEF Save, SaveUnacknowledged
<1>3. \E t \in BOOLEAN : \E r, ids : \E cost \in Nat :
        /\ Wrote(t, r, ids) /\ faults' = faults + (k + cost) /\ faults' <= MaxFaults
        /\ (IF t THEN 0 ELSE 1) + (IF r = 0 THEN 1 ELSE 0) <= cost
  BY <1>1, <1>2, WriteChoices
<1> PICK t \in BOOLEAN : \E r, ids : \E cost \in Nat :
        /\ Wrote(t, r, ids) /\ faults' = faults + (k + cost) /\ faults' <= MaxFaults
        /\ (IF t THEN 0 ELSE 1) + (IF r = 0 THEN 1 ELSE 0) <= cost
  BY <1>3
<1> PICK r, ids : \E cost \in Nat :
        /\ Wrote(t, r, ids) /\ faults' = faults + (k + cost) /\ faults' <= MaxFaults
        /\ (IF t THEN 0 ELSE 1) + (IF r = 0 THEN 1 ELSE 0) <= cost
  OBVIOUS
<1> PICK cost \in Nat :
        /\ Wrote(t, r, ids) /\ faults' = faults + (k + cost) /\ faults' <= MaxFaults
        /\ (IF t THEN 0 ELSE 1) + (IF r = 0 THEN 1 ELSE 0) <= cost
  OBVIOUS
<1>4. TablesInv' /\ CountInv' /\ ReservesInv'
  BY <1>1, <1>2, WriteTables DEF Inv
<1>5. FailuresInv'
  BY <1>1, <1>2, WriteFailures DEF Inv
<1>6. BaseInv'
  <2>1. faults + (k + cost) \in Nat
    BY <1>1, Numbers
  <2>2. faults' \in 0..MaxFaults
    BY <2>1, Bounds
  <2>3. targetBlockNum \in 0..MaxLog /\ targetBlockNum + 1 \in 0..(MaxLog + 1) /\ 0 \in 0..MaxLog
    BY <1>1, Bounds DEF BaseInv
  <2>4. QED
    BY <1>1, <1>2, <2>2, <2>3 DEF BaseInv
<1>7. PassInv'
  BY <1>2, NoPass
<1>8. ReaderInv'
  <2>1. EventsAdded(ids) /\ made' = IF HasRow(watched) THEN made ELSE Append(made, watched)
    BY DEF Wrote
  <2>2. Len(made) <= Len(made') /\ made' \in Seq(Pools)
    BY <1>1, <2>1, MadeWritten
  <2>3. Len(made') \in Nat
    BY <2>2
  <2>4. Len(events) <= Len(events') /\ Len(events') \in Nat
    <3>1. Len(events) \in Nat /\ Parts \in Nat
      BY <1>1, StoredFacts, ParsedFacts DEF TypeInv, Parts
    <3> PICK n \in Nat : n = Len(events) + Parts
      BY <3>1
    <3> PICK S : S = Stored
      OBVIOUS
    <3> PICK new : new = events'
      OBVIOUS
    <3>2. new \in Seq(S) /\ DOMAIN new = 1..n
      BY <2>1 DEF EventsAdded
    <3>3. Len(new) = n
      BY <3>2
    <3>4. QED
      BY <3>1, <3>3
  <2>5. QED
    BY <1>1, <1>2, <2>2, <2>3, <2>4, KeptReader DEF Inv
<1>9. QED
  BY <1>4, <1>5, <1>6, <1>7, <1>8 DEF Inv, TypeInv

LEMMA ApiStep ==
  ASSUME Inv, Api
  PROVE  Inv'
<1>1. BaseInv /\ PassInv
  BY DEF Inv, TypeInv
<1>2. UNCHANGED <<log, now, events, pools, made, height, pc, watched, lastBlockNum,
                  targetBlockNum, parsed, crashes, faults>>
  BY DEF Api, RequestBegin, RequestNext, RequestReply, tables, listener, counters
<1>3. ReaderInv'
  BY RequestSteps DEF Api, Inv
<1>4. BaseInv' /\ PassInv'
  BY <1>1, <1>2, SameLog DEF BaseInv, PassInv
<1>5. QED
  BY <1>1, <1>2, <1>3, <1>4, Numbers, NoRowsWritten

LEMMA InvStep ==
  ASSUME Inv, [Next]_vars
  PROVE  Inv'
<1>1. CASE Tick
  BY <1>1, TickStep
<1>2. CASE \E p \in Pools : Boot(p)
  BY <1>2, BootStep
<1>3. CASE Crash
  BY <1>3, CrashStep
<1>4. CASE \E target \in Targets : Parse(target) \/ EmptyPass(target)
  BY <1>4, ParseStep, EmptyPassStep
<1>5. CASE Save \/ SaveUnacknowledged
  BY <1>5, SaveSteps
<1>6. CASE SaveFails
  BY <1>6, SaveFailsStep
<1>7. CASE Api
  BY <1>7, ApiStep
<1>8. CASE UNCHANGED vars
  <2>1. BaseInv /\ PassInv
    BY DEF Inv, TypeInv
  <2>2. UNCHANGED <<log, now, events, pools, made, height, pc, watched, lastBlockNum,
                    targetBlockNum, parsed, reader, crashes, faults>>
    BY <1>8 DEF vars, tables, listener, counters
  <2>3. BaseInv' /\ PassInv'
    BY <2>1, <2>2, SameLog DEF BaseInv, PassInv
  <2>4. QED
    BY <2>1, <2>2, <2>3, Numbers, NoRowsWritten
<1>9. QED
  BY <1>1, <1>2, <1>3, <1>4, <1>5, <1>6, <1>7, <1>8 DEF Next, Listener

LEMMA InvInit ==
  ASSUME Init
  PROVE  Inv
<1>1. BaseInv
  BY Bounds DEF Init, BaseInv
<1>2. DOMAIN parsed = {} /\ DOMAIN events = {} /\ DOMAIN made = {} /\ parsed = NoEvents
  BY DEF Init, NoEvents
<1>3. PassInv
  BY <1>2 DEF Init, PassInv, Parsed, Senders, NoEvents
<1>4. ToSet(made) = {}
  BY <1>2 DEF ToSet
<1>5. TablesInv
  BY <1>2, <1>4 DEF Init, TablesInv, HasRow
<1>6. Cardinality({}) = 0
  BY FS_EmptySet
<1>7. CountInv
  <2>1. \A p \in Pools : RowsOf(p) = {} /\ pools[p].count = 0
    BY <1>2 DEF Init, RowsOf, NoRow
  <2>2. QED
    BY <1>6, <2>1 DEF CountInv, TxCountMatchesRows
<1>8. ReservesInv
  BY <1>2 DEF ReservesInv, ReservesFollowEvents
<1>9. ReaderInv
  BY DEF Init, ReaderInv
<1>10. /\ UnknownSenders = {} /\ UnknownTokens = {} /\ BlindRows = {} /\ EmptyReserves = {}
       /\ LostSenders = {} /\ LostTokens = {}
  BY <1>2, <1>4 DEF UnknownSenders, UnknownTokens, BlindRows, EmptyReserves,
              LostSenders, LostTokens
<1>11. FailuresInv
  BY <1>6, <1>10 DEF Init, FailuresInv
<1>12. QED
  BY <1>1, <1>3, <1>5, <1>7, <1>8, <1>9, <1>11 DEF Inv, TypeInv

-----------------------------------------------------------------------------
(***************************************************************************)
(* The sums over stored rows are Total, of which Sums has the lemmas.      *)
(***************************************************************************)
SumFee(S) == MapThenSumSet(Fee, S)
SumIn0(S) == MapThenSumSet(In0, S)

LEMMA FeesOfIs ==
  \A S : FeesOf(S) = SumFee(Swaps \cap S)
BY DEF FeesOf, SumFee

LEMMA FeesTodayIs ==
  FeesToday = SumIn0({i \in Swaps : events[i].created \div Day = now \div Day})
BY DEF FeesToday, SumIn0

LEMMA SumFeeIs ==
  ASSUME NEW S, IsFiniteSet(S), NEW F, \A i \in S : F[i] = Fee(i)
  PROVE  SumFee(S) = Total(F, S)
<1> DEFINE Body(h) == [t \in SUBSET S |-> IF t = {} THEN 0
      ELSE Fee(CHOOSE x \in t : TRUE)
           + h[t \ {CHOOSE x \in t : TRUE}]]
<1> DEFINE G == CHOOSE h : h = Body(h)
<1>1. SumFee(S) = G[S]
  BY DEF SumFee, MapThenSumSet, MapThenFoldSet
<1>2. \A t \in SUBSET S : t # {} =>
        F[CHOOSE x \in t : TRUE] = Fee(CHOOSE x \in t : TRUE)
  BY ChosenIn DEF Chosen
<1>3. \A k : Summing(k, F, S) <=> k = Body(k)
  BY <1>2 DEF Summing, Chosen
<1> PICK g : g = G
  OBVIOUS
<1> HIDE DEF Body
<1>4. g = Body(g)
  BY <1>3, SummingExists
<1> HIDE DEF G
<1>5. Summing(g, F, S) /\ S \in SUBSET S
  BY <1>3, <1>4
<1>6. Total(F, S) = g[S]
  BY <1>5, TotalIs
<1>7. QED
  BY <1>1, <1>6

LEMMA SumIn0Is ==
  ASSUME NEW S, IsFiniteSet(S), NEW F, \A i \in S : F[i] = In0(i)
  PROVE  SumIn0(S) = Total(F, S)
<1> DEFINE Body(h) == [t \in SUBSET S |-> IF t = {} THEN 0
      ELSE In0(CHOOSE x \in t : TRUE)
           + h[t \ {CHOOSE x \in t : TRUE}]]
<1> DEFINE G == CHOOSE h : h = Body(h)
<1>1. SumIn0(S) = G[S]
  BY DEF SumIn0, MapThenSumSet, MapThenFoldSet
<1>2. \A t \in SUBSET S : t # {} =>
        F[CHOOSE x \in t : TRUE] = In0(CHOOSE x \in t : TRUE)
  BY ChosenIn DEF Chosen
<1>3. \A k : Summing(k, F, S) <=> k = Body(k)
  BY <1>2 DEF Summing, Chosen
<1> PICK g : g = G
  OBVIOUS
<1> HIDE DEF Body
<1>4. g = Body(g)
  BY <1>3, SummingExists
<1> HIDE DEF G
<1>5. Summing(g, F, S) /\ S \in SUBSET S
  BY <1>3, <1>4
<1>6. Total(F, S) = g[S]
  BY <1>5, TotalIs
<1>7. QED
  BY <1>1, <1>6

LEMMA ValuesTyped ==
  \A i : In0(i) \in Nat /\ In1(i) \in Nat /\ Fee(i) \in Nat /\ In0(i) <= Fee(i)
BY DEF In0, In1, Fee

LEMMA RowsFinite ==
  ASSUME TablesInv
  PROVE  IsFiniteSet(DOMAIN events) /\ Swaps \in SUBSET DOMAIN events /\ IsFiniteSet(Swaps)
<1>1. IsFiniteSet(DOMAIN events)
  BY StoredFacts, FS_Interval
<1>2. Swaps \in SUBSET DOMAIN events
  BY DEF Swaps
<1>3. QED
  BY <1>1, <1>2, FS_Subset

-----------------------------------------------------------------------------
(***************************************************************************)
(* The numbers of GetLiquidityStats.                                       *)
(***************************************************************************)

\* The fee of every stored event of E, on the blocks L, and the events that are swaps.
FeeList(L, E) == [i \in DOMAIN E |-> IF L[E[i].at].kind = "swap01" THEN 2
                                     ELSE IF L[E[i].at].kind = "swap10" THEN 1 ELSE 0]
SwapRows(L, E) == {i \in DOMAIN E : L[E[i].at].kind \in {"swap01", "swap10"}}

\* The fees of the first n stored events.
SumTo(n) == Total(FeeList(log, events), {i \in SwapRows(log, events) : i <= n})

\* What a request for the statistics has so far: the fees of the rows it has seen, of
\* which those of today, read later, are a part, and no more pools than there are.
StatsInv ==
  reader # NoRequest /\ reader.request = "stats" =>
    /\ "fees" \in DOMAIN reader.got
    /\ reader.got["fees"].rows \in 0..Len(events)
    /\ reader.got["fees"].sum = SumTo(reader.got["fees"].rows)
    /\ reader.next \in 3..4 =>
         /\ "today" \in DOMAIN reader.got
         /\ reader.got["today"].rows \in reader.got["fees"].rows..Len(events)
         /\ reader.got["today"].sum \in Nat
         /\ reader.got["today"].sum <= SumTo(reader.got["today"].rows)
    /\ reader.next = 4 =>
         /\ "active" \in DOMAIN reader.got
         /\ reader.got["active"] \in Nat /\ reader.got["active"] <= Len(made)

LEMMA FeesTyped ==
  ASSUME NEW L, NEW E
  PROVE  /\ \A i \in DOMAIN E : FeeList(L, E)[i] \in Nat
         /\ SwapRows(L, E) \in SUBSET DOMAIN E
BY DEF FeeList, SwapRows

LEMMA FeesAdded ==
  ASSUME TablesInv
  PROVE  /\ TotalFees = SumTo(Len(events)) /\ FeesToday \in Nat
         /\ FeesToday <= SumTo(Len(events)) /\ SumTo(Len(events)) \in Nat
         /\ \A n \in Nat, m \in Nat : n <= m =>
              SumTo(m) = SumTo(n) + FeesOf((n + 1)..m) /\ SumTo(n) \in Nat
<1> PICK F : F = FeeList(log, events)
  OBVIOUS
<1> PICK S : S = Swaps
  OBVIOUS
<1> PICK D : D = {i \in Swaps : events[i].created \div Day = now \div Day}
  OBVIOUS
<1>1. S = SwapRows(log, events) /\ S \in SUBSET DOMAIN events /\ D \in SUBSET S
  BY DEF Swaps, SwapRows, Kind
<1>2. IsFiniteSet(S) /\ IsFiniteSet(D)
  BY <1>1, RowsFinite, FS_Subset
<1>3. \A i \in S : F[i] = Fee(i) /\ F[i] \in Nat
  BY DEF FeeList, Fee, In0, In1, Kind, Swaps
<1> PICK G : G = [i \in D |-> In0(i)]
  OBVIOUS
<1>4. \A i \in D : G[i] = In0(i)
  OBVIOUS
<1>5. \A i \in D : G[i] \in Nat /\ F[i] \in Nat /\ G[i] <= F[i]
  BY <1>1, <1>3, <1>4, ValuesTyped
<1>6. \A n : SumTo(n) = Total(F, {i \in S : i <= n})
  BY <1>1 DEF SumTo
<1>7. FeesToday = Total(G, D)
  BY <1>2, <1>4, SumIn0Is, FeesTodayIs
<1>8. ASSUME NEW T
      PROVE  FeesOf(T) = Total(F, S \cap T) /\ FeesOf(T) \in Nat
  <2> PICK U : U = S \cap T
    OBVIOUS
  <2>1. IsFiniteSet(U) /\ \A i \in U : F[i] = Fee(i) /\ F[i] \in Nat
    BY <1>2, <1>3, FS_Subset
  <2>2. SumFee(U) = Total(F, U)
    BY <2>1, SumFeeIs
  <2>3. Total(F, U) \in Nat
    BY <2>1, TotalNat
  <2>4. QED
    BY <2>2, <2>3, FeesOfIs
<1>9. Len(events) \in Nat /\ DOMAIN events = 1..Len(events)
  BY StoredFacts
<1>10. {i \in S : i <= Len(events)} = S /\ S \cap DOMAIN events = S
  BY <1>1, <1>9
<1>11. SumTo(Len(events)) = Total(F, S) /\ TotalFees = Total(F, S) /\ TotalFees \in Nat
  <2>1. SumTo(Len(events)) = Total(F, S)
    BY <1>6, <1>10
  <2>2. TotalFees = FeesOf(DOMAIN events)
    BY DEF TotalFees
  <2>3. QED
    BY <1>8, <1>10, <2>1, <2>2
<1>12. Total(G, D) \in Nat
  BY <1>2, <1>5, TotalNat
<1>13. Total(G, D) <= Total(F, D)
  <2>1. \A i \in D : G[i] \in Int /\ F[i] \in Int /\ G[i] <= F[i]
    BY <1>5
  <2>2. QED
    BY <1>2, <2>1, TotalMonotone
<1>14. Total(F, D) <= Total(F, S)
  BY <1>1, <1>2, <1>3, TotalSubset
<1>15. Total(F, D) \in Nat
  BY <1>2, <1>5, TotalNat
<1>16. ASSUME NEW n \in Nat, NEW m \in Nat, n <= m
       PROVE  SumTo(m) = SumTo(n) + FeesOf((n + 1)..m) /\ SumTo(n) \in Nat
  <2> PICK A : A = {i \in S : i <= n}
    OBVIOUS
  <2> PICK B : B = S \cap ((n + 1)..m)
    OBVIOUS
  <2>1. \A i \in S : i \in Nat
    BY <1>1, <1>9
  <2>2. {i \in S : i <= m} = A \cup B /\ A \cap B = {}
    BY <1>16, <2>1
  <2>3. IsFiniteSet(A) /\ IsFiniteSet(B) /\ A \subseteq S /\ B \subseteq S
    BY <1>2, FS_Subset
  <2>4. \A i \in A \cup B : F[i] \in Int
    BY <1>3, <2>3
  <2>5. Total(F, A \cup B) = Total(F, A) + Total(F, B)
    BY <2>2, <2>3, <2>4, TotalUnion
  <2>6. Total(F, A) \in Nat
    BY <1>3, <2>3, TotalNat
  <2>7. QED
    BY <1>6, <1>8, <2>2, <2>5, <2>6
<1>17. QED
  BY <1>7, <1>11, <1>12, <1>13, <1>14, <1>15, <1>16

\* New rows leave the fees of the old ones as they are.
LEMMA FeesStay ==
  ASSUME TypeInv, NEW ids, EventsAdded(ids), log' = log, NEW n \in 0..Len(events)
  PROVE  SumTo(n)' = SumTo(n)
<1> PICK L : L = log
  OBVIOUS
<1> PICK E : E = events
  OBVIOUS
<1> PICK M : M = events'
  OBVIOUS
<1>1. DOMAIN E \subseteq DOMAIN M /\ \A i \in DOMAIN E : M[i] = E[i]
  BY AddedDomain DEF EventsAdded
<1>2. \A i \in DOMAIN M : i <= n => i \in DOMAIN E
  <2>1. /\ DOMAIN M = 1..(Len(events) + Parts) /\ DOMAIN E = 1..Len(events)
        /\ Len(events) \in Nat /\ Parts \in Nat
    BY StoredFacts, ParsedFacts DEF TypeInv, Parts, EventsAdded
  <2>2. QED
    BY <2>1
<1> PICK F : F = FeeList(L, E)
  OBVIOUS
<1> PICK G : G = FeeList(L, M)
  OBVIOUS
<1> PICK S : S = {i \in SwapRows(L, E) : i <= n}
  OBVIOUS
<1>3. S = {i \in SwapRows(L, M) : i <= n}
  BY <1>1, <1>2 DEF SwapRows
<1>4. \A i \in S : F[i] = G[i]
  BY <1>1 DEF SwapRows, FeeList
<1>5. IsFiniteSet(S)
  <2>1. S \in SUBSET DOMAIN events /\ IsFiniteSet(DOMAIN events)
    BY RowsFinite DEF TypeInv, SwapRows
  <2>2. QED
    BY <2>1, FS_Subset
<1>6. Total(F, S) = Total(G, S)
  BY <1>4, <1>5, TotalSame
<1>7. SumTo(n) = Total(F, S) /\ SumTo(n)' = Total(G, S)
  BY <1>3 DEF SumTo
<1>8. QED
  BY <1>6, <1>7

LEMMA KeptStats ==
  ASSUME TypeInv, StatsInv, reader' = reader,
         NEW k \in Nat, Len(events') = k, Len(events) <= k,
         \A n \in 0..Len(events) : SumTo(n)' = SumTo(n),
         NEW m \in Nat, Len(made') = m, Len(made) <= m, Len(made) \in Nat
  PROVE  StatsInv'
<1> PICK r : r = reader
  OBVIOUS
<1>1. Len(events) \in Nat
  BY StoredFacts DEF TypeInv
<1>2. ASSUME r # NoRequest, r.request = "stats"
      PROVE  /\ r.got["fees"].rows \in 0..k
             /\ r.got["fees"].sum = SumTo(r.got["fees"].rows)'
  <2>1. r.got["fees"].rows \in 0..Len(events)
    BY <1>2 DEF StatsInv
  <2>2. QED
    BY <1>1, <1>2, <2>1 DEF StatsInv
<1>3. ASSUME r # NoRequest, r.request = "stats", r.next \in 3..4
      PROVE  /\ r.got["today"].rows \in r.got["fees"].rows..k
             /\ r.got["today"].sum <= SumTo(r.got["today"].rows)'
  <2>1. /\ r.got["today"].rows \in r.got["fees"].rows..Len(events)
        /\ r.got["fees"].rows \in 0..Len(events)
    BY <1>3 DEF StatsInv
  <2>2. r.got["today"].rows \in 0..Len(events)
    BY <1>1, <2>1
  <2>3. QED
    BY <1>1, <1>3, <2>1, <2>2 DEF StatsInv
<1>4. ASSUME r # NoRequest, r.request = "stats", r.next = 4
      PROVE  r.got["active"] \in Nat /\ r.got["active"] <= m
  BY <1>4 DEF StatsInv
<1>5. NoRequest' = NoRequest
  BY DEF NoRequest
<1>6. QED
  BY <1>2, <1>3, <1>4, <1>5 DEF StatsInv

LEMMA StatsAsked ==
  ASSUME TypeInv, ReaderInv, StatsInv,
         (\E request \in Requests : RequestBegin(request)) \/ RequestNext \/ RequestReply
  PROVE  StatsInv'
<1>1. UNCHANGED <<log, events, made>>
  BY DEF RequestBegin, RequestNext, RequestReply, tables
<1> PICK k : k = Len(events)
  OBVIOUS
<1> PICK total : total = SumTo(k)
  OBVIOUS
<1>2. Len(events)' = k /\ k \in Nat /\ Len(made)' = Len(made) /\ Len(made) \in Nat
  BY <1>1, StoredFacts DEF TypeInv, TablesInv
<1>3. \A n : SumTo(n)' = SumTo(n)
  BY <1>1 DEF SumTo
<1>4. FeesToday \in Nat /\ FeesToday <= total /\ TotalFees = total
  BY FeesAdded DEF TypeInv
<1> PICK s : s = reader'
  OBVIOUS
<1>5. ASSUME NEW request \in Requests, RequestBegin(request)
      PROVE  StatsInv'
  <2> PICK q : q = Queries(request)[1]
    OBVIOUS
  <2> PICK p, r : /\ s = [request |-> request, next |-> 2, got |-> s.got, pool |-> p]
                  /\ q \in DOMAIN s.got /\ s.got[q] = Query(q, r)
    BY <1>5, RequestBegun
  <2>1. s.request = request /\ s.next = 2
    OBVIOUS
  <2>2. ASSUME request = "stats"
        PROVE  "fees" \in DOMAIN s.got /\ s.got["fees"] = [sum |-> total, rows |-> k]
    <3>1. q = "fees"
      BY <2>2, QueriesAre
    <3>2. Query("fees", r) = [sum |-> total, rows |-> k]
      BY <1>4 DEF Query
    <3>3. QED
      BY <3>1, <3>2
  <2>3. k \in 0..k /\ 2 # 4 /\ 2 \notin 3..4
    BY <1>2
  <2>4. ASSUME request = "stats"
        PROVE  s.got["fees"].rows \in 0..k /\ s.got["fees"].sum = SumTo(s.got["fees"].rows)'
    BY <1>3, <2>2, <2>3, <2>4
  <2>5. QED
    BY <1>2, <2>1, <2>2, <2>3, <2>4 DEF StatsInv
<1>6. ASSUME RequestNext
      PROVE  StatsInv'
  <2> PICK r : r = reader
    OBVIOUS
  <2> PICK q : q = Queries(r.request)[r.next]
    OBVIOUS
  <2>1. /\ r # NoRequest /\ (r.next = 2 \/ r.next = 3)
        /\ s = [request |-> r.request, next |-> r.next + 1, got |-> s.got, pool |-> r.pool]
        /\ DOMAIN s.got = DOMAIN r.got \cup {q} /\ s.got[q] = Query(q, r)
        /\ \A x \in DOMAIN r.got : x # q => s.got[x] = r.got[x]
    BY <1>6, RequestGoesOn
  <2>2. s.request = r.request /\ s.next = r.next + 1
    BY <2>1
  <2>3. CASE r.request # "stats"
    BY <2>2, <2>3 DEF StatsInv
  <2>4. CASE r.request = "stats" /\ r.next = 2
    <3>1. q = "today" /\ Query("today", r) = [sum |-> FeesToday, rows |-> k]
      BY <2>4, QueriesAre DEF Query
    <3>2. /\ "fees" \in DOMAIN r.got /\ r.got["fees"].rows \in 0..k
          /\ r.got["fees"].sum = SumTo(r.got["fees"].rows)
      BY <1>6, <2>1, <2>4, RequestGoesOn DEF StatsInv
    <3>3. /\ "fees" \in DOMAIN s.got /\ s.got["fees"] = r.got["fees"]
          /\ "today" \in DOMAIN s.got /\ s.got["today"] = [sum |-> FeesToday, rows |-> k]
      BY <2>1, <3>1, <3>2
    <3>4. s.next = 3 /\ 3 # 4
      BY <2>2, <2>4
    <3> PICK n : n = s.got["fees"].rows
      OBVIOUS
    <3>5. n \in 0..k /\ s.got["fees"].sum = SumTo(n)' /\ k \in n..k
      BY <1>2, <1>3, <3>2, <3>3
    <3>6. s.got["today"].rows = k /\ s.got["today"].sum = FeesToday
      BY <3>3
    <3>7. FeesToday <= SumTo(k)'
      BY <1>3, <1>4
    <3>8. QED
      BY <1>2, <1>4, <3>3, <3>4, <3>5, <3>6, <3>7 DEF StatsInv
  <2>5. CASE r.request = "stats" /\ r.next = 3
    <3>1. q = "active" /\ Query("active", r) = Len(made)
      BY <2>5, QueriesAre DEF Query, ActivePools
    <3>2. 3 \in 3..4 /\ s.next = 4
      BY <2>2, <2>5
    <3>3. /\ "fees" \in DOMAIN r.got /\ r.got["fees"].rows \in 0..k
          /\ r.got["fees"].sum = SumTo(r.got["fees"].rows)
          /\ "today" \in DOMAIN r.got
          /\ r.got["today"].rows \in r.got["fees"].rows..k
          /\ r.got["today"].sum \in Nat
          /\ r.got["today"].sum <= SumTo(r.got["today"].rows)
      BY <1>6, <2>5, <3>2, RequestGoesOn DEF StatsInv
    <3>4. /\ "fees" \in DOMAIN s.got /\ s.got["fees"] = r.got["fees"]
          /\ "today" \in DOMAIN s.got /\ s.got["today"] = r.got["today"]
          /\ "active" \in DOMAIN s.got /\ s.got["active"] = Len(made)
      BY <2>1, <3>1, <3>3
    <3>5. Len(made) <= Len(made)
      BY <1>2
    <3>6. QED
      BY <1>2, <1>3, <3>2, <3>3, <3>4, <3>5 DEF StatsInv
  <2>6. QED
    BY <2>1, <2>3, <2>4, <2>5
<1>7. RequestReply => StatsInv'
  BY DEF RequestReply, StatsInv
<1>8. QED
  BY <1>5, <1>6, <1>7

\* What a step does to the tables while a request waits: it adds the rows of a pass, or
\* nothing.
LEMMA TablesStep ==
  ASSUME Inv, [Next]_vars
  PROVE  \/ Api
         \/ /\ UNCHANGED <<log, now, reader>> /\ \E ids : EventsAdded(ids)
            /\ made' \in Seq(Pools) /\ Len(made) <= Len(made')
         \/ UNCHANGED <<log, events, made, reader>> /\ (now' = now \/ now' = now + 1)
<1>1. TypeInv
  BY DEF Inv
<1>2. CASE Save \/ SaveUnacknowledged
  <2>1. UNCHANGED <<log, now, reader>> /\ pc = "parsed"
    BY <1>2 DEF Save, SaveUnacknowledged, EndPass
  <2> PICK k \in Nat : WriteRows(k)
    BY <1>2 DEF Save, SaveUnacknowledged
  <2>2. /\ events' = events \o NewEvents
        /\ made' = IF HasRow(watched) THEN made ELSE Append(made, watched)
    BY DEF WriteRows
  <2>3. \E ids : EventsAdded(ids)
    BY <1>1, <2>1, <2>2, NewRows
  <2>4. made' \in Seq(Pools) /\ Len(made) <= Len(made')
    BY <1>1, <2>2, MadeWritten
  <2>5. QED
    BY <2>1, <2>3, <2>4
<1>3. [Next]_vars => \/ Save \/ SaveUnacknowledged \/ Api
                     \/ /\ UNCHANGED <<log, events, made, reader>>
                        /\ now' = now \/ now' = now + 1
  BY DEF Next, Listener, Tick, Boot, Crash, Parse, EmptyPass, SaveFails, EndPass, vars, tables
<1>4. QED
  BY <1>2, <1>3

\* How many rows there are then.
LEMMA RowsAdded ==
  ASSUME TypeInv, NEW ids, EventsAdded(ids)
  PROVE  \E k \in Nat : Len(events') = k /\ Len(events) <= k
<1>1. Len(events) \in Nat /\ Parts \in Nat
  BY StoredFacts, ParsedFacts DEF TypeInv, Parts
<1> PICK n \in Nat : n = Len(events) + Parts
  BY <1>1
<1> PICK S : S = Stored'
  OBVIOUS
<1> PICK T : T = Stored
  OBVIOUS
<1> PICK new : new = events'
  OBVIOUS
<1>2. new \in Seq(T) /\ DOMAIN new = 1..n
  BY DEF EventsAdded
<1>3. Len(new) = n
  BY <1>2
<1>4. QED
  BY <1>1, <1>3

LEMMA StatsStep ==
  ASSUME Inv, StatsInv, [Next]_vars
  PROVE  StatsInv'
<1>1. TypeInv /\ TablesInv /\ ReaderInv /\ Len(made) \in Nat /\ Len(events) \in Nat
  BY StoredFacts DEF Inv, TypeInv, TablesInv
<1>2. CASE Api
  BY <1>1, <1>2, StatsAsked DEF Api
<1>3. ASSUME UNCHANGED <<log, reader>>, NEW ids, EventsAdded(ids),
             made' \in Seq(Pools), Len(made) <= Len(made')
      PROVE  StatsInv'
  <2> PICK k \in Nat : Len(events') = k /\ Len(events) <= k
    BY <1>1, <1>3, RowsAdded
  <2>1. \A n \in 0..Len(events) : SumTo(n)' = SumTo(n)
    BY <1>1, <1>3, FeesStay
  <2> PICK m \in Nat : m = Len(made')
    BY <1>3
  <2>2. QED
    BY <1>1, <1>3, <2>1, KeptStats
<1>4. CASE UNCHANGED <<log, events, made, reader>>
  <2>1. \A n : SumTo(n)' = SumTo(n)
    BY <1>4 DEF SumTo
  <2> PICK k \in Nat : k = Len(events)
    BY <1>1
  <2> PICK m \in Nat : m = Len(made)
    BY <1>1
  <2>2. Len(events') = k /\ Len(events) <= k /\ Len(made') = m /\ Len(made) <= m
    BY <1>4
  <2>3. QED
    BY <1>1, <1>4, <2>1, <2>2, KeptStats
<1>5. QED
  BY <1>2, <1>3, <1>4, TablesStep

-----------------------------------------------------------------------------
(***************************************************************************)
(* The weeks of GetRewardDistribution.                                     *)
(***************************************************************************)

\* What a request for the growth of a pool has so far: the day begins no earlier than
\* a day before the clock was looked at, and the last week holds everything that was
\* stored by then or was seen in the day.
GrowthInv ==
  reader # NoRequest /\ reader.request = "growth" =>
    /\ "asked" \in DOMAIN reader.got
    /\ reader.got["asked"].time \in 0..now /\ reader.got["asked"].rows \in 0..Len(events)
    /\ reader.next \in 3..4 =>
         /\ "day" \in DOMAIN reader.got
         /\ \A i \in reader.got["day"] :
              /\ i \in Swaps \cap RowsOf(reader.pool)
              /\ events[i].created >= reader.got["asked"].time - Day
    /\ reader.next = 4 =>
         /\ "last" \in DOMAIN reader.got
         /\ reader.got["last"] \subseteq LastWeek(reader.pool, reader.got["asked"].time)
         /\ \A i \in LastWeek(reader.pool, reader.got["asked"].time) :
              i <= reader.got["asked"].rows \/ i \in reader.got["day"] =>
                i \in reader.got["last"]

\* New rows leave the old ones where they are in every list of swaps.
LEMMA SwapsStay ==
  ASSUME TypeInv, NEW ids, EventsAdded(ids), log' = log, NEW p, NEW t
  PROVE  /\ \A i \in DOMAIN events :
              /\ i \in (Swaps \cap RowsOf(p))' <=> i \in Swaps \cap RowsOf(p)
              /\ i \in LastWeek(p, t)' <=> i \in LastWeek(p, t)
              /\ events'[i] = events[i]
         /\ \A i \in LastWeek(p, t)' : i \in DOMAIN events \/ i > Len(events)
         /\ Swaps \subseteq DOMAIN events /\ LastWeek(p, t) \subseteq DOMAIN events
<1>1. DOMAIN events \subseteq DOMAIN events' /\ \A i \in DOMAIN events : events'[i] = events[i]
  BY AddedDomain DEF EventsAdded
<1>2. /\ DOMAIN events' = 1..(Len(events) + Parts) /\ DOMAIN events = 1..Len(events)
      /\ Len(events) \in Nat /\ Parts \in Nat
  BY StoredFacts, ParsedFacts DEF TypeInv, Parts, EventsAdded
<1>3. \A i \in DOMAIN events :
        /\ i \in Swaps' <=> i \in Swaps
        /\ i \in RowsOf(p)' <=> i \in RowsOf(p)
  BY <1>1 DEF Swaps, Kind, RowsOf
<1>4. \A i \in DOMAIN events : i \in LastWeek(p, t)' <=> i \in LastWeek(p, t)
  BY <1>1, <1>3 DEF LastWeek, SwapsBetween
<1>5. \A i \in LastWeek(p, t)' : i \in DOMAIN events'
  BY DEF LastWeek, SwapsBetween, Swaps
<1>6. Swaps \subseteq DOMAIN events /\ LastWeek(p, t) \subseteq DOMAIN events
  BY DEF LastWeek, SwapsBetween, Swaps
<1>7. \A i \in DOMAIN events' : i \in DOMAIN events \/ i > Len(events)
  BY <1>2
<1>8. QED
  BY <1>1, <1>3, <1>4, <1>5, <1>6, <1>7

LEMMA KeptGrowth ==
  ASSUME TypeInv, GrowthInv, UNCHANGED <<log, now, reader>>, NEW ids, EventsAdded(ids)
  PROVE  GrowthInv'
<1> PICK r : r = reader
  OBVIOUS
<1> SUFFICES ASSUME r # NoRequest, r.request = "growth"
             PROVE  GrowthInv'
  BY DEF GrowthInv, NoRequest
<1> PICK p : p = r.pool
  OBVIOUS
<1> PICK t : t = r.got["asked"].time
  OBVIOUS
<1> PICK n : n = r.got["asked"].rows
  OBVIOUS
<1>1. "asked" \in DOMAIN r.got /\ t \in 0..now /\ n \in 0..Len(events) /\ Len(events) \in Nat
  BY StoredFacts DEF GrowthInv, TypeInv
<1> PICK k \in Nat : Len(events') = k /\ Len(events) <= k
  BY RowsAdded
<1>2. n \in 0..k
  BY <1>1
<1>3. ASSUME r.next \in 3..4
      PROVE  /\ "day" \in DOMAIN r.got
             /\ \A i \in r.got["day"] : i \in DOMAIN events
             /\ \A i \in r.got["day"] :
                  i \in (Swaps \cap RowsOf(p))' /\ events'[i].created >= t - Day
  <2>1. /\ "day" \in DOMAIN r.got
        /\ \A i \in r.got["day"] : i \in Swaps \cap RowsOf(p) /\ events[i].created >= t - Day
    BY <1>3 DEF GrowthInv
  <2>2. \A i \in r.got["day"] : i \in DOMAIN events
    BY <2>1, SwapsStay
  <2>3. QED
    BY <2>1, <2>2, SwapsStay
<1>4. ASSUME r.next = 4
      PROVE  /\ "last" \in DOMAIN r.got /\ r.got["last"] \subseteq LastWeek(p, t)'
             /\ \A i \in LastWeek(p, t)' :
                  i <= n \/ i \in r.got["day"] => i \in r.got["last"]
  <2>1. /\ "last" \in DOMAIN r.got /\ r.got["last"] \subseteq LastWeek(p, t)
        /\ \A i \in LastWeek(p, t) : i <= n \/ i \in r.got["day"] => i \in r.got["last"]
    BY <1>4 DEF GrowthInv
  <2>2. r.got["last"] \subseteq LastWeek(p, t)'
    BY <2>1, SwapsStay
  <2>3. ASSUME NEW i \in LastWeek(p, t)', i <= n \/ i \in r.got["day"]
        PROVE  i \in r.got["last"]
    <3>1. i \in DOMAIN events
      <4>1. CASE i \in r.got["day"]
        <5>1. 4 \in 3..4
          OBVIOUS
        <5>2. QED
          BY <1>3, <1>4, <4>1, <5>1
      <4>2. CASE i <= n
        <5>1. i \in DOMAIN events \/ i > Len(events)
          BY <2>3, SwapsStay
        <5>2. i \in DOMAIN events'
          BY <2>3 DEF LastWeek, SwapsBetween, Swaps
        <5>3. i \in Nat
          BY <5>2 DEF EventsAdded
        <5>4. QED
          BY <1>1, <4>2, <5>1, <5>3
      <4>3. QED
        BY <2>3, <4>1, <4>2
    <3>2. i \in LastWeek(p, t)
      BY <2>3, <3>1, SwapsStay
    <3>3. QED
      BY <2>1, <2>3, <3>2
  <2>4. QED
    BY <2>1, <2>2, <2>3
<1>5. NoRequest' = NoRequest /\ Day' = Day
  BY DEF NoRequest
<1>6. QED
  BY <1>1, <1>2, <1>3, <1>4, <1>5 DEF GrowthInv

LEMMA GrowthAsked ==
  ASSUME TypeInv, ReaderInv, GrowthInv,
         (\E request \in Requests : RequestBegin(request)) \/ RequestNext \/ RequestReply
  PROVE  GrowthInv'
<1>1. UNCHANGED <<log, now, events, made>>
  BY DEF RequestBegin, RequestNext, RequestReply, tables
<1>2. /\ Len(events)' = Len(events) /\ now' = now /\ events' = events
      /\ now \in Nat /\ Len(events) \in Nat /\ Day \in Nat
  BY <1>1, Numbers, StoredFacts, LiquidityConstantsOK DEF TypeInv
<1>3. /\ \A p : (Swaps \cap RowsOf(p))' = Swaps \cap RowsOf(p)
      /\ \A p, t : LastWeek(p, t)' = LastWeek(p, t)
  BY <1>1 DEF Swaps, Kind, RowsOf, LastWeek, SwapsBetween
<1> PICK s : s = reader'
  OBVIOUS
<1>5. ASSUME NEW request \in Requests, RequestBegin(request)
      PROVE  GrowthInv'
  <2> PICK q : q = Queries(request)[1]
    OBVIOUS
  <2> PICK p, r : /\ s = [request |-> request, next |-> 2, got |-> s.got, pool |-> p]
                  /\ q \in DOMAIN s.got /\ s.got[q] = Query(q, r)
    BY <1>5, RequestBegun
  <2>1. s.request = request /\ s.next = 2 /\ 2 # 4 /\ 2 \notin 3..4
    OBVIOUS
  <2>2. ASSUME request = "growth"
        PROVE  "asked" \in DOMAIN s.got /\ s.got["asked"] = [time |-> now, rows |-> Len(events)]
    <3>1. q = "asked"
      BY <2>2, QueriesAre
    <3>2. Query("asked", r) = [time |-> now, rows |-> Len(events)]
      BY DEF Query
    <3>3. QED
      BY <3>1, <3>2
  <2>3. now \in 0..now /\ Len(events) \in 0..Len(events)
    BY <1>2
  <2>4. QED
    BY <1>2, <2>1, <2>2, <2>3 DEF GrowthInv
<1>6. ASSUME RequestNext
      PROVE  GrowthInv'
  <2> PICK r : r = reader
    OBVIOUS
  <2> PICK q : q = Queries(r.request)[r.next]
    OBVIOUS
  <2>1. /\ r # NoRequest /\ (r.next = 2 \/ r.next = 3)
        /\ s = [request |-> r.request, next |-> r.next + 1, got |-> s.got, pool |-> r.pool]
        /\ DOMAIN s.got = DOMAIN r.got \cup {q} /\ s.got[q] = Query(q, r)
        /\ \A x \in DOMAIN r.got : x # q => s.got[x] = r.got[x]
    BY <1>6, RequestGoesOn
  <2>2. s.request = r.request /\ s.next = r.next + 1 /\ s.pool = r.pool
    BY <2>1
  <2> PICK p : p = r.pool
    OBVIOUS
  <2> PICK t : t = r.got["asked"].time
    OBVIOUS
  <2> PICK n : n = r.got["asked"].rows
    OBVIOUS
  <2>3. CASE r.request # "growth"
    BY <2>2, <2>3 DEF GrowthInv
  <2>4. ASSUME r.request = "growth"
        PROVE  "asked" \in DOMAIN r.got /\ t \in 0..now /\ n \in 0..Len(events)
    BY <1>6, <2>4, RequestGoesOn DEF GrowthInv
  <2>5. CASE r.request = "growth" /\ r.next = 2
    <3>1. q = "day" /\ Query("day", r) = SwapsOfDay(p)
      BY <2>5, QueriesAre DEF Query
    <3>2. /\ "asked" \in DOMAIN s.got /\ s.got["asked"] = r.got["asked"]
          /\ "day" \in DOMAIN s.got /\ s.got["day"] = SwapsOfDay(p)
      BY <2>1, <2>4, <2>5, <3>1
    <3>3. ASSUME NEW i \in SwapsOfDay(p)
          PROVE  i \in Swaps \cap RowsOf(p) /\ events[i].created >= t - Day
      <4>1. i \in Swaps \cap RowsOf(p) /\ events[i].created >= now - Day
        BY DEF SwapsOfDay
      <4>2. events[i].created \in Nat
        <5>1. i \in DOMAIN events
          BY <4>1 DEF Swaps
        <5>2. events[i] \in Stored
          BY <5>1, StoredFacts DEF TypeInv
        <5>3. QED
          BY <5>2 DEF Stored
      <4>3. QED
        BY <1>2, <2>4, <2>5, <4>1, <4>2
    <3>4. s.next = 3 /\ 3 # 4
      BY <2>2, <2>5
    <3>5. QED
      BY <1>2, <1>3, <2>2, <2>4, <2>5, <3>2, <3>3, <3>4 DEF GrowthInv
  <2>6. CASE r.request = "growth" /\ r.next = 3
    <3>1. q = "last" /\ Query("last", r) = LastWeek(p, t)
      BY <2>6, QueriesAre DEF Query
    <3>2. 3 \in 3..4 /\ s.next = 4
      BY <2>2, <2>6
    <3>3. /\ "day" \in DOMAIN r.got
          /\ \A i \in r.got["day"] : i \in Swaps \cap RowsOf(p) /\ events[i].created >= t - Day
      BY <1>6, <2>6, <3>2, RequestGoesOn DEF GrowthInv
    <3>4. /\ "asked" \in DOMAIN s.got /\ s.got["asked"] = r.got["asked"]
          /\ "day" \in DOMAIN s.got /\ s.got["day"] = r.got["day"]
          /\ "last" \in DOMAIN s.got /\ s.got["last"] = LastWeek(p, t)
      BY <2>1, <2>4, <2>6, <3>1, <3>3
    <3>5. QED
      BY <1>2, <1>3, <2>2, <2>4, <2>6, <3>2, <3>3, <3>4 DEF GrowthInv
  <2>7. QED
    BY <2>1, <2>3, <2>5, <2>6
<1>7. RequestReply => GrowthInv'
  BY DEF RequestReply, GrowthInv
<1>8. QED
  BY <1>5, <1>6, <1>7

LEMMA GrowthStep ==
  ASSUME Inv, GrowthInv, [Next]_vars
  PROVE  GrowthInv'
<1>1. TypeInv /\ ReaderInv /\ now \in Nat
  BY Numbers DEF Inv, TypeInv
<1>2. CASE Api
  BY <1>1, <1>2, GrowthAsked DEF Api
<1>3. CASE UNCHANGED <<log, now, reader>> /\ \E ids : EventsAdded(ids)
  BY <1>1, <1>3, KeptGrowth
<1>4. CASE UNCHANGED <<log, events, made, reader>> /\ (now' = now \/ now' = now + 1)
  <2>1. \A t \in 0..now : t \in 0..(now')
    BY <1>1, <1>4
  <2>2. /\ \A p : (Swaps \cap RowsOf(p))' = Swaps \cap RowsOf(p)
        /\ \A p, t : LastWeek(p, t)' = LastWeek(p, t)
    BY <1>4 DEF Swaps, Kind, RowsOf, LastWeek, SwapsBetween
  <2>3. NoRequest' = NoRequest
    BY DEF NoRequest
  <2> PICK r : r = reader
    OBVIOUS
  <2> SUFFICES ASSUME r # NoRequest, r.request = "growth" PROVE GrowthInv'
    BY <1>4, <2>3 DEF GrowthInv
  <2>4. r.got["asked"].time \in 0..(now')
    BY <2>1 DEF GrowthInv
  <2>5. QED
    BY <1>4, <2>2, <2>4 DEF GrowthInv
<1>5. QED
  BY <1>2, <1>3, <1>4, TablesStep

\* The answer of a request for growth.
LEMMA WeeksJoined ==
  ASSUME Inv, GrowthInv
  PROVE  WeeksAddUp
<1> SUFFICES ASSUME Answering("growth") PROVE WeeksAddUp
  BY DEF WeeksAddUp
<1> PICK r : r = reader
  OBVIOUS
<1>1. r # NoRequest /\ r.request = "growth" /\ r.next = 4
  <2>1. r # NoRequest /\ r.request = "growth" /\ r.next = Len(Queries(r.request))
    BY DEF Answering, LastQuery
  <2>2. QED
    BY <2>1, QueriesAre
<1>2. r = [request |-> r.request, next |-> 4, got |-> r.got, pool |-> r.pool]
  BY <1>1 DEF Inv, ReaderInv
<1> PICK a : a = Answer
  OBVIOUS
<1> PICK p : p = r.pool
  OBVIOUS
<1> PICK t : t = r.got["asked"].time
  OBVIOUS
<1> PICK n : n = r.got["asked"].rows
  OBVIOUS
<1>3. /\ "asked" \in DOMAIN r.got /\ t \in 0..now
      /\ "day" \in DOMAIN r.got
      /\ \A i \in r.got["day"] : i \in Swaps \cap RowsOf(p) /\ events[i].created >= t - Day
      /\ "last" \in DOMAIN r.got /\ r.got["last"] \subseteq LastWeek(p, t)
      /\ \A i \in LastWeek(p, t) : i <= n \/ i \in r.got["day"] => i \in r.got["last"]
  <2>1. 4 \in 3..4
    OBVIOUS
  <2>2. QED
    BY <1>1, <2>1 DEF GrowthInv
<1>4. /\ a["prev"] = WeekBefore(p, t) /\ a["asked"] = r.got["asked"]
      /\ a["day"] = r.got["day"] /\ a["last"] = r.got["last"]
  <2> PICK q : q = Queries(r.request)[4]
    OBVIOUS
  <2>1. q = "prev" /\ 4 \in Nat
    BY <1>1, QueriesAre
  <2>2. /\ Queried(r).got[q] = Query(q, r)
        /\ \A x \in DOMAIN r.got : x # q => Queried(r).got[x] = r.got[x]
    <3>1. r = [request |-> r.request, next |-> 4, got |-> r.got, pool |-> r.pool]
      BY <1>2
    <3>2. q = Queries(r.request)[4] /\ 4 \in Nat
      BY <2>1
    <3>3. QED
      BY ONLY <3>1, <3>2, QueriedFacts
  <2>3. Query("prev", r) = WeekBefore(p, t)
    BY DEF Query
  <2>4. QED
    BY <1>3, <2>1, <2>2, <2>3 DEF Answer
<1>5. /\ t \in Nat /\ Day \in Nat /\ Window \in Nat /\ Day <= Window
      /\ \A i \in Swaps : i \in DOMAIN events /\ events[i].created \in Nat
  <2>1. now \in Nat
    BY Numbers DEF Inv, TypeInv
  <2>2. \A i \in DOMAIN events : events[i] \in Stored
    BY StoredFacts DEF Inv, TypeInv
  <2>3. \A i \in DOMAIN events : events[i].created \in Nat
    BY <2>1, <2>2 DEF Stored
  <2>4. QED
    BY <1>3, <2>1, <2>3, LiquidityConstantsOK DEF Swaps
<1> DEFINE Rows == Swaps \cap RowsOf(p)
<1>6. \A i : i \in LastWeek(p, t) <=> i \in Rows /\ events[i].created \in (t - Window)..(t - 1)
  BY DEF LastWeek, SwapsBetween
<1>7. \A i : i \in WeekBefore(p, t) <=>
        i \in Rows /\ events[i].created \in (t - 2 * Window)..((t - Window) - 1)
  BY DEF WeekBefore, SwapsBetween
<1>8. \A i \in Rows : events[i].created \in Nat
  BY <1>5
<1> HIDE DEF Rows
<1>9. r.got["last"] \cap WeekBefore(p, t) = {}
  BY <1>3, <1>5, <1>6, <1>7, <1>8
<1> DEFINE weeks == {i \in Rows : events[i].created \in (t - 2 * Window)..(t - 1)}
<1>10. weeks = LastWeek(p, t) \cup WeekBefore(p, t)
  BY <1>5, <1>6, <1>7, <1>8
<1> HIDE DEF weeks
<1>11. weeks \cap 1..n \subseteq r.got["last"] \cup WeekBefore(p, t)
  <2>1. \A i \in 1..n : i <= n
    OBVIOUS
  <2>2. QED
    BY <1>3, <1>10, <2>1
<1>12. r.got["last"] \cup WeekBefore(p, t) \subseteq weeks
  BY <1>3, <1>10
<1>13. ASSUME NEW i \in r.got["day"], i \notin r.got["last"]
       PROVE  events[i].created >= t
  <2>1. i \in Rows /\ events[i].created >= t - Day /\ events[i].created \in Nat
    BY <1>3, <1>8, <1>13 DEF Rows
  <2>2. i \notin LastWeek(p, t)
    BY <1>3, <1>13
  <2>3. QED
    BY <1>5, <1>6, <2>1, <2>2
<1>14. QED
  BY <1>4, <1>9, <1>11, <1>12, <1>13 DEF WeeksAddUp, weeks, Rows

-----------------------------------------------------------------------------
(***************************************************************************)
(* Lists of pools, their pages, and the pools of a user.                   *)
(***************************************************************************)

\* The same set in descending order.
LEMMA Descending ==
  ASSUME NEW D, D \subseteq Nat, IsFiniteSet(D)
  PROVE  \E f \in [1..Cardinality(D) -> D] : \A j, k \in DOMAIN f : j < k => f[j] > f[k]
<1> PICK n : n = Cardinality(D)
  OBVIOUS
<1>1. n \in Nat
  BY FS_CardinalityType
<1>2. PICK f \in [1..n -> D] : \A j, k \in DOMAIN f : j < k => f[j] < f[k]
  BY Ascending
<1> DEFINE g == [k \in 1..n |-> f[n + 1 - k]]
<1>3. \A k \in 1..n : n + 1 - k \in 1..n /\ g[k] = f[n + 1 - k] /\ f[n + 1 - k] \in D
  BY <1>1
<1>4. g \in [1..n -> D]
  BY <1>3
<1>5. ASSUME NEW j \in 1..n, NEW k \in 1..n, j < k
      PROVE  g[j] > g[k]
  <2>1. n + 1 - k < n + 1 - j
    BY <1>1, <1>5
  <2>2. f[n + 1 - k] < f[n + 1 - j] /\ f[n + 1 - k] \in Nat /\ f[n + 1 - j] \in Nat
    BY <1>2, <1>3, <2>1
  <2>3. g[k] < g[j] /\ g[k] \in Nat /\ g[j] \in Nat
    BY <1>3, <2>2
  <2>4. QED
    BY <2>3
<1>6. DOMAIN g = 1..n
  OBVIOUS
<1> HIDE DEF g
<1>7. \A j, k \in DOMAIN g : j < k => g[j] > g[k]
  BY <1>5, <1>6
<1>8. QED
  BY <1>4, <1>7

\* The list of the pools in scope holds each of them once.
LEMMA ListFacts ==
  ASSUME TablesInv, NEW scope
  PROVE  /\ NewestFirst(scope) \in Seq(Pools) /\ Len(NewestFirst(scope)) <= Len(made)
         /\ IsInjective(NewestFirst(scope))
         /\ ToSet(NewestFirst(scope)) = {p \in ToSet(made) : p \in scope}
<1> PICK L : L = made
  OBVIOUS
<1>1. /\ L \in Seq(Pools) /\ Len(L) \in Nat /\ DOMAIN L = 1..Len(L)
      /\ \A i \in DOMAIN L : L[i] \in Pools
      /\ \A i, j \in DOMAIN L : L[i] = L[j] => i = j
  <2>1. L \in Seq(Pools) /\ \A i, j \in DOMAIN L : L[i] = L[j] => i = j
    BY DEF TablesInv
  <2>2. QED
    BY <2>1
<1> DEFINE ids == {i \in DOMAIN L : L[i] \in scope}
<1>2. ids \subseteq DOMAIN L /\ ids \subseteq Nat
  BY <1>1
<1>3. IsFiniteSet(DOMAIN L) /\ Cardinality(DOMAIN L) = Len(L)
  <2>1. 1 \in Int /\ Len(L) \in Int /\ (IF 1 > Len(L) THEN 0 ELSE Len(L) - 1 + 1) = Len(L)
    BY <1>1
  <2>2. QED
    BY <1>1, <2>1, FS_Interval
<1>4. IsFiniteSet(ids) /\ Cardinality(ids) \in Nat /\ Cardinality(ids) <= Len(L)
  BY <1>2, <1>3, FS_Subset, FS_CardinalityType
<1> PICK D : D = ids
  OBVIOUS
<1> PICK n : n = Cardinality(D)
  OBVIOUS
<1> DEFINE Orders(f) == \A j, k \in DOMAIN f : j < k => f[j] > f[k]
           newest == CHOOSE f \in [1..Cardinality(D) -> D] : Orders(f)
<1>5. NewestFirst(scope) = [k \in DOMAIN newest |-> L[newest[k]]]
  BY DEF NewestFirst, ActivePools
<1>6. \A i : i \in D <=> i \in DOMAIN L /\ L[i] \in scope
  OBVIOUS
<1>7. D \subseteq DOMAIN L /\ D \subseteq Nat /\ IsFiniteSet(D) /\ n \in Nat /\ n <= Len(L)
  BY <1>2, <1>4
<1> HIDE DEF ids
<1>8. \E f \in [1..Cardinality(D) -> D] : Orders(f)
  BY <1>7, Descending
<1>9. newest \in [1..n -> D] /\ Orders(newest)
  BY <1>8
<1> PICK f : f = newest
  OBVIOUS
<1>10. f \in [1..n -> D] /\ \A j, k \in 1..n : j < k => f[j] > f[k]
  BY <1>9
<1>11. NewestFirst(scope) = [k \in 1..n |-> L[f[k]]]
  BY <1>5, <1>10
<1> HIDE DEF newest
<1>12. f \in Injection(1..n, D)
  <2>1. ASSUME NEW j \in 1..n, NEW k \in 1..n, f[j] = f[k]
        PROVE  j = k
    <3>1. f[j] \in Nat
      BY <1>7, <1>10
    <3>2. ~ (j < k) /\ ~ (k < j)
      BY <1>10, <2>1, <3>1
    <3>3. QED
      BY <1>7, <3>2
  <2>2. QED
    BY <1>10, <2>1 DEF Injection, IsInjective
<1>13. f \in Surjection(1..n, D)
  <2> PICK T : T = 1..n
    OBVIOUS
  <2>1. IsFiniteSet(T) /\ Cardinality(T) = n
    BY <1>7, FS_Interval
  <2>2. Cardinality(T) = Cardinality(D) /\ IsFiniteSet(D) /\ f \in Injection(T, D)
    BY <1>7, <1>12, <2>1
  <2>3. f \in Surjection(T, D)
    BY <2>2, FS_Injection
  <2>4. QED
    BY <2>3
<1> PICK list : list = NewestFirst(scope)
  OBVIOUS
<1>14. list = [k \in 1..n |-> L[f[k]]]
  BY <1>11
<1>15. \A k \in 1..n : f[k] \in D /\ f[k] \in DOMAIN L /\ L[f[k]] \in Pools /\ list[k] = L[f[k]]
  BY <1>1, <1>7, <1>10, <1>14
<1>16. list \in [1..n -> Pools] /\ DOMAIN list = 1..n
  BY <1>14, <1>15
<1>17. list \in Seq(Pools) /\ Len(list) = n
  BY <1>7, <1>16
<1>18. IsInjective(list)
  <2>1. ASSUME NEW j \in 1..n, NEW k \in 1..n, list[j] = list[k]
        PROVE  j = k
    <3>1. f[j] = f[k]
      BY <1>1, <1>15, <2>1
    <3>2. QED
      BY <1>12, <3>1 DEF Injection, IsInjective
  <2>2. QED
    BY <1>16, <2>1 DEF IsInjective
<1>19. ToSet(list) = {p \in ToSet(L) : p \in scope}
  <2>1. ASSUME NEW k \in 1..n
        PROVE  list[k] \in ToSet(L) /\ list[k] \in scope
    BY <1>6, <1>15 DEF ToSet
  <2>2. ASSUME NEW i \in DOMAIN L, L[i] \in scope
        PROVE  L[i] \in ToSet(list)
    <3>1. PICK k \in 1..n : f[k] = i
      BY <1>6, <1>13, <2>2 DEF Surjection
    <3>2. QED
      BY <1>15, <1>16, <3>1 DEF ToSet
  <2>3. QED
    BY <1>16, <2>1, <2>2 DEF ToSet
<1>20. QED
  BY <1>7, <1>17, <1>18, <1>19

\* The pages of any size, joined, are the list.
LEMMA PoolPagesJoin ==
  ASSUME TablesInv, NEW scope, NEW size \in Int
  PROVE  FlattenSeq([n \in 1..Len(made) |-> PoolPage(scope, n, size)]) = NewestFirst(scope)
<1> PICK N : N = Len(made)
  OBVIOUS
<1> PICK list : list = NewestFirst(scope)
  OBVIOUS
<1> PICK z : z = PageSize(size)
  OBVIOUS
<1>1. z \in Nat \ {0}
  <2>1. MaxPageSize \in Nat /\ DefaultPageSize \in 1..MaxPageSize
    BY LiquidityConstantsOK
  <2>2. QED
    BY <2>1 DEF PageSize
<1>2. list \in Seq(Pools) /\ Len(list) <= N /\ N \in Nat
  BY ListFacts DEF TablesInv
<1> PICK pages : pages = [n \in 1..N |-> PoolPage(scope, n, size)]
  OBVIOUS
<1>3. Paged(pages, N, list, z)
  BY DEF Paged, PoolPage, ListPage, Least
<1>4. FlattenSeq(pages) = list
  BY <1>1, <1>2, <1>3, PagesJoin
<1>5. QED
  BY <1>4

\* The sender of a stored or parsed event is the user whose transaction it is, or
\* unknown.
SendersInv ==
  /\ \A i \in DOMAIN events : events[i].sender \in {log[events[i].at].user, ZeroAddress}
  /\ \A i \in DOMAIN parsed : parsed[i].sender \in {log[i].user, ZeroAddress}

LEMMA SendersStep ==
  ASSUME Inv, SendersInv, [Next]_vars
  PROVE  SendersInv'
<1>1. TypeInv /\ BaseInv /\ PassInv /\ TablesInv
  BY DEF Inv, TypeInv
<1>2. ASSUME NEW target \in Targets, Parse(target)
      PROVE  SendersInv'
  <2>1. UNCHANGED <<log, events>>
    BY <1>2 DEF Parse, tables
  <2>2. PICK lost \in SUBSET Batch(target), blind \in SUBSET Batch(target) :
          parsed' = [i \in Batch(target) |->
                       [sender |-> IF i \in lost THEN ZeroAddress ELSE log[i].user,
                        tokens |-> i \notin blind /\ (NeedsCall \/ pools[watched].tokens),
                        created |-> now]]
    BY <1>2 DEF Parse
  <2>3. DOMAIN parsed' = Batch(target)
        /\ \A i \in Batch(target) : parsed'[i].sender \in {log[i].user, ZeroAddress}
    BY <2>2
  <2>4. QED
    BY <2>1, <2>3 DEF SendersInv
<1>3. CASE Save \/ SaveUnacknowledged
  <2>1. log' = log /\ pc = "parsed" /\ parsed' = NoEvents
    BY <1>3 DEF Save, SaveUnacknowledged, EndPass
  <2>2. PICK k \in Nat : WriteRows(k)
    BY <1>3 DEF Save, SaveUnacknowledged
  <2>3. events' = events \o NewEvents
    BY <2>2 DEF WriteRows
  <2> PICK ids : EventsAdded(ids)
    BY <1>1, <2>1, <2>3, NewRows
  <2> PICK E : E = events'
    OBVIOUS
  <2>4. /\ DOMAIN events = 1..Len(events) /\ Len(events) \in Nat
        /\ Parts \in Nat /\ DOMAIN E = 1..(Len(events) + Parts)
    BY <1>1, StoredFacts, ParsedFacts DEF EventsAdded, Parts
  <2>5. ASSUME NEW i \in DOMAIN events
        PROVE  E[i].sender \in {log[E[i].at].user, ZeroAddress}
    BY <2>5 DEF EventsAdded, SendersInv
  <2>6. ASSUME NEW m \in 1..Parts
        PROVE  LET i == Len(events) + m IN E[i].sender \in {log[E[i].at].user, ZeroAddress}
    <3>1. ids[m] \in DOMAIN parsed
      BY DEF EventsAdded, Injection
    <3>2. parsed[ids[m]].sender \in {log[ids[m]].user, ZeroAddress}
      BY <3>1 DEF SendersInv
    <3>3. E[Len(events) + m].at = ids[m] /\ E[Len(events) + m].sender = parsed[ids[m]].sender
      BY DEF EventsAdded
    <3>4. QED
      BY <3>2, <3>3
  <2>7. ASSUME NEW i \in DOMAIN E
        PROVE  E[i].sender \in {log[E[i].at].user, ZeroAddress}
    <3>1. CASE i \in DOMAIN events
      BY <2>5, <3>1
    <3>2. CASE i \notin DOMAIN events
      <4>1. i - Len(events) \in 1..Parts /\ Len(events) + (i - Len(events)) = i
        BY <2>4, <3>2
      <4>2. QED
        BY <2>6, <4>1
    <3>3. QED
      BY <3>1, <3>2
  <2>8. DOMAIN parsed' = {}
    BY <2>1 DEF NoEvents
  <2>9. QED
    BY <2>1, <2>7, <2>8 DEF SendersInv
<1>4. CASE UNCHANGED <<log, events>> /\ (UNCHANGED parsed \/ parsed' = NoEvents)
  <2>1. DOMAIN NoEvents = {}
    BY DEF NoEvents
  <2>2. CASE UNCHANGED <<log, events, parsed>>
    BY <2>2 DEF SendersInv
  <2>3. CASE UNCHANGED <<log, events>> /\ parsed' = NoEvents
    BY <2>1, <2>3 DEF SendersInv
  <2>4. QED
    BY <1>4, <2>2, <2>3
<1>5. [Next]_vars => \/ \E target \in Targets : Parse(target)
                     \/ Save \/ SaveUnacknowledged
                     \/ UNCHANGED <<log, events>> /\ (UNCHANGED parsed \/ parsed' = NoEvents)
  BY DEF Next, Listener, Api, Tick, Boot, Crash, EmptyPass, SaveFails, EndPass, RequestBegin,
         RequestNext, RequestReply, vars, tables, listener
<1>6. QED
  BY <1>2, <1>3, <1>4, <1>5

\* The pools of a user are those of his transactions, as far as they could be fetched.
LEMMA UserPoolsAre ==
  ASSUME TypeInv, SendersInv, NEW u \in Users
  PROVE  {p \in ToSet(made) : p \in UserPools(u)} =
         {p \in ToSet(made) : \E i \in RowsOf(p) :
                                log[events[i].at].user = u /\ events[i].sender # ZeroAddress}
<1>1. ToSet(made) \subseteq Pools
  BY DEF TypeInv, TablesInv, ToSet
<1>2. u # ZeroAddress
  BY Bounds
<1>3. ASSUME NEW p, NEW i \in RowsOf(p)
      PROVE  events[i].sender = u <=> log[events[i].at].user = u /\ events[i].sender # ZeroAddress
  <2>1. i \in DOMAIN events
    BY DEF RowsOf
  <2>2. events[i].sender \in {log[events[i].at].user, ZeroAddress}
    BY <2>1 DEF SendersInv
  <2>3. QED
    BY <1>2, <2>2
<1>4. QED
  BY <1>1, <1>3 DEF UserPools

LEMMA ListsFound == TypeInv /\ SendersInv => MyPoolsFound
<1> SUFFICES ASSUME TypeInv, SendersInv PROVE MyPoolsFound
  OBVIOUS
<1>1. TablesInv /\ ToSet(made) \subseteq Pools
  BY DEF TypeInv, TablesInv, ToSet
<1>2. ASSUME NEW size \in {MaxPageSize, MaxPageSize + 1}, NEW scope
      PROVE  LET list == FlattenSeq([n \in 1..Len(made) |-> PoolPage(scope, n, size)])
             IN  IsInjective(list) /\ ToSet(list) = {p \in ToSet(made) : p \in scope}
  <2>1. size \in Int
    BY LiquidityConstantsOK
  <2>2. FlattenSeq([n \in 1..Len(made) |-> PoolPage(scope, n, size)]) = NewestFirst(scope)
    BY <1>1, <2>1, PoolPagesJoin
  <2>3. QED
    BY <1>1, <2>2, ListFacts
<1>3. {p \in ToSet(made) : p \in Pools} = ToSet(ActivePools)
  BY <1>1 DEF ActivePools
<1>4. QED
  BY <1>2, <1>3, UserPoolsAre DEF MyPoolsFound

-----------------------------------------------------------------------------
(***************************************************************************)
(* The theorems.                                                           *)
(***************************************************************************)

\* The inductive invariant of the listener and the API.
THEOREM Invariant == Spec => []Inv
<1>1. Init => Inv
  BY InvInit
<1>2. Inv /\ [Next]_vars => Inv'
  BY InvStep
<1>3. QED
  BY <1>1, <1>2, PTL DEF Spec

\* Every variable keeps its type; in particular a pool has one row, whose last event
\* and reserves are of the pool, and a pass holds events of its range only.
THEOREM TypeCorrect == Spec => []TypeOK
<1>1. Inv => TypeOK
  <2> SUFFICES ASSUME Inv PROVE TypeOK
    OBVIOUS
  <2>1. BaseInv /\ PassInv /\ TablesInv /\ ReaderInv
    BY DEF Inv, TypeInv
  <2>2. Len(log) = MaxLog /\ log \in [1..MaxLog -> Event] /\ now \in 0..MaxTime
    BY <2>1, LogTyped DEF BaseInv
  <2>3. \A i \in DOMAIN events : events[i] \in
          [at : DOMAIN log, sender : Users \cup {ZeroAddress}, tokens : BOOLEAN, created : 0..now]
    BY <2>1, StoredFacts DEF Stored, Senders
  <2>4. made \in Seq(Pools) /\ IsInjective(made)
    BY <2>1 DEF TablesInv, IsInjective
  <2>5. \A p \in Pools : IF HasRow(p)
          THEN pools[p] \in [tokens : BOOLEAN, count : Nat \ {0},
                             reserves : 0..Version(p, Len(log)), last : Of(p, Len(log))]
          ELSE pools[p] = NoRow
    BY <2>1 DEF TablesInv, PoolRows
  <2>6. DOMAIN parsed \subseteq Of(watched, targetBlockNum)
    BY <2>1 DEF PassInv
  <2>7. reader # NoRequest => reader.request \in Requests /\ reader.next \in 2..4
    <3>1. \A q : Len(Queries(q)) = 2 \/ Len(Queries(q)) = 4
      BY QueriesAre
    <3>2. 2..2 \subseteq 2..4
      OBVIOUS
    <3>3. QED
      BY <2>1, <3>1, <3>2 DEF ReaderInv
  <2>8. /\ height \in 0..Len(log) /\ pc \in {"down", "idle", "parsed"} /\ watched \in Pools
        /\ lastBlockNum \in 0..Len(log) + 1 /\ targetBlockNum \in 0..Len(log)
        /\ crashes \in 0..MaxCrashes /\ faults \in 0..MaxFaults
    BY <2>1, <2>2 DEF BaseInv
  <2>9. QED
    BY <2>2, <2>3, <2>4, <2>5, <2>6, <2>7, <2>8 DEF TypeOK
<1>2. QED
  BY <1>1, Invariant, PTL

\* tx_count of a pool is the number of its stored events, however often a range is
\* stored again, whatever fails and wherever the listener stops.
THEOREM CountsAreRows == Spec => []TxCountMatchesRows
<1>1. Inv => TxCountMatchesRows
  BY DEF Inv, CountInv
<1>2. QED
  BY <1>1, Invariant, PTL

\* The reserves of a pool are empty or not older than any stored event of it.
THEOREM ReservesAreCurrent == Spec => []ReservesFollowEvents
<1>1. Inv => ReservesFollowEvents
  BY DEF Inv, ReservesInv
<1>2. QED
  BY <1>1, Invariant, PTL

\* The tables never hold more zero addresses and empty reserves than calls failed.
THEOREM FailuresAreLocal == Spec => []FailuresStayLocal
<1>1. Inv => FailuresStayLocal
  <2> SUFFICES ASSUME Inv PROVE FailuresStayLocal
    OBVIOUS
  <2>1. /\ Cardinality(BlindRows) \in Nat /\ Cardinality(EmptyReserves) \in Nat
        /\ Cardinality(UnknownSenders) \in Nat /\ Cardinality(UnknownTokens) \in Nat
        /\ Cardinality(LostSenders) \in Nat /\ Cardinality(LostTokens) \in Nat
    BY TracesFinite, FS_CardinalityType DEF Inv
  <2>2. faults \in Nat
    BY Numbers DEF Inv, TypeInv
  <2>3. Cardinality(UnknownSenders) + Cardinality(UnknownTokens) + Cardinality(BlindRows)
        + Cardinality(EmptyReserves) <= faults
    BY <2>1, <2>2 DEF Inv, FailuresInv
  <2>4. QED
    BY <2>3 DEF FailuresStayLocal, UnknownSenders, UnknownTokens, BlindRows, EmptyReserves
<1>2. QED
  BY <1>1, Invariant, PTL

\* A list is never shorter than the total that was counted before it.
THEOREM PagesReachTotals == Spec => []PagesReachTotal
<1>1. Inv => PagesReachTotal
  <2> SUFFICES ASSUME Inv, NEW request \in {"events", "pools"}, Answering(request)
               PROVE  Answer["count"] <= Answer["rows"]
    BY DEF PagesReachTotal
  <2> PICK r : r = reader
    OBVIOUS
  <2>1. /\ r.request = request /\ r # NoRequest /\ r.next = Len(Queries(r.request))
    BY DEF Answering, LastQuery
  <2>2. Len(Queries(r.request)) = 2 /\ Queries(r.request)[2] = "rows"
    BY <2>1, QueriesAre
  <2>3. /\ r = [request |-> r.request, next |-> 2, got |-> r.got, pool |-> r.pool]
        /\ "count" \in DOMAIN r.got /\ r.got["count"] <= Len(Listed(r.request))
    BY <2>1, <2>2 DEF Inv, ReaderInv
  <2>4. /\ Queried(r).got["rows"] = Query("rows", r)
        /\ Queried(r).got["count"] = r.got["count"]
    <3>1. 2 \in Nat /\ "count" # "rows"
      OBVIOUS
    <3>2. QED
      BY <2>2, <2>3, <3>1, QueriedFacts
  <2>5. Query("rows", r) = Len(Listed(r.request))
    BY DEF Query
  <2>6. QED
    BY <2>3, <2>4, <2>5 DEF Answer
<1>2. QED
  BY <1>1, Invariant, PTL

\* Whatever is stored and however long it takes between the queries of a growth rate, the
\* two weeks it compares share no swap, miss none that was stored when the request looked
\* at the clock, and hold all of the day but what was created since then; for every length
\* of the day and the week.
THEOREM WeeksAdd == Spec => []WeeksAddUp
<1>1. Init => GrowthInv
  BY DEF Init, GrowthInv
<1>2. Inv /\ GrowthInv /\ [Next]_vars => GrowthInv'
  BY GrowthStep
<1>3. Inv /\ GrowthInv => WeeksAddUp
  BY WeeksJoined
<1>4. QED
  BY <1>1, <1>2, <1>3, Invariant, PTL DEF Spec

\* The statistics never show more active pools than pools.  They may show more fees today
\* than fees, but by no more than the fees of what was stored between the two queries.
THEOREM StatsAgree == Spec => []StatsConsistent
<1>1. Init => StatsInv
  BY DEF Init, StatsInv
<1>2. Inv /\ StatsInv /\ [Next]_vars => StatsInv'
  BY StatsStep
<1>3. Inv /\ StatsInv => StatsConsistent
  <2> SUFFICES ASSUME Inv, StatsInv, Answering("stats")
               PROVE  /\ Answer["active"] <= Answer["total"]
                      /\ Answer["today"].sum <= Answer["fees"].sum
                           + FeesOf((Answer["fees"].rows + 1)..Answer["today"].rows)
    BY DEF StatsConsistent
  <2> PICK r : r = reader
    OBVIOUS
  <2>1. r # NoRequest /\ r.request = "stats" /\ r.next = 4 /\ 4 \in 3..4
    <3>1. r # NoRequest /\ r.request = "stats" /\ r.next = Len(Queries(r.request))
      BY DEF Answering, LastQuery
    <3>2. QED
      BY <3>1, QueriesAre
  <2>2. r = [request |-> r.request, next |-> 4, got |-> r.got, pool |-> r.pool]
    BY <2>1 DEF Inv, ReaderInv
  <2> PICK n : n = r.got["fees"].rows
    OBVIOUS
  <2> PICK m : m = r.got["today"].rows
    OBVIOUS
  <2>3. /\ "fees" \in DOMAIN r.got /\ n \in 0..Len(events) /\ r.got["fees"].sum = SumTo(n)
        /\ "today" \in DOMAIN r.got /\ m \in n..Len(events)
        /\ r.got["today"].sum \in Nat /\ r.got["today"].sum <= SumTo(m)
        /\ "active" \in DOMAIN r.got /\ r.got["active"] <= Len(made)
    BY <2>1 DEF StatsInv
  <2>4. /\ Queried(r).got["total"] = Query("total", r)
        /\ \A x \in DOMAIN r.got : x # "total" => Queried(r).got[x] = r.got[x]
    <3>1. 4 \in Nat /\ Queries(r.request)[4] = "total"
      BY <2>1, QueriesAre
    <3>2. QED
      BY <2>2, <3>1, QueriedFacts
  <2>5. Query("total", r) = Len(made)
    BY DEF Query
  <2>6. SumTo(m) = SumTo(n) + FeesOf((n + 1)..m)
    <3>1. n \in Nat /\ m \in Nat /\ n <= m
      BY <2>3, StoredFacts DEF Inv, TypeInv
    <3>2. QED
      BY <3>1, FeesAdded DEF Inv, TypeInv
  <2>7. QED
    BY <2>3, <2>4, <2>5, <2>6 DEF Answer
<1>4. QED
  BY <1>1, <1>2, <1>3, Invariant, PTL DEF Spec

\* A user finds under "my" each pool with a stored event of his whose sender could be
\* fetched, once and on some page, and no other; and the pages of all active pools hold
\* each of them once, for any number of pools and any size of a page.
THEOREM MyPoolsAreFound == Spec => []MyPoolsFound
<1>1. Init => SendersInv
  BY DEF Init, SendersInv, NoEvents
<1>2. Inv /\ SendersInv /\ [Next]_vars => SendersInv'
  BY SendersStep
<1>3. Inv /\ SendersInv => MyPoolsFound
  BY ListsFound DEF Inv
<1>4. QED
  BY <1>1, <1>2, <1>3, Invariant, PTL DEF Spec
=============================================================================
