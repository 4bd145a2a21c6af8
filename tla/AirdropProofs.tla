----------------------------- MODULE AirdropProofs -----------------------------
(***************************************************************************)
(* Theorems about Airdrop, for every value of its constants: any airdrops, *)
(* users, amounts, batch size and number of blocks, crashes and faults.    *)
(***************************************************************************)
EXTENDS Airdrop, SumsAndPages

USE AirdropConstantsOK
USE DEF AirdropConstantsOK

InPass == pc \in Stages \cup {"end"}

\* The range of a pass, and how the stored block number lies to it: a range that is
\* read again ends no earlier than the one before, and the block number is the end
\* of the range by the time rows are committed.
RangeInv ==
  /\ InPass => /\ lastBlockNum < targetBlockNum /\ targetBlockNum <= lastBlockNum + BatchSize
               /\ height <= targetBlockNum
  /\ pc = "idle" => height <= lastBlockNum + BatchSize
  /\ pc # "down" => lastBlockNum <= height + 1
  /\ ~InPass => success
  /\ open => pc \in Stages /\ height = targetBlockNum

\* A transaction is only begun for something to store.
OpenInv == open => Work # {}

\* A whitelist row was set from a total of its own pair, at most at the stored block.
SourceInv ==
  \A p \in Pairs : source[p] # 0 =>
    source[p] \in About("total", p[1], p[2], Positions) /\ source[p] <= height

\* An airdrop is created before it is activated, and what is older is active.
CampaignInv ==
  /\ \A i \in Of({"activated"}, Positions) :
       \/ log[i].airdrop \in Older
       \/ \E j \in Of({"created"}, 1..(i - 1)) : log[j].airdrop = log[i].airdrop
  /\ \A a \in Older : campaigns[a] = "active"

\* Events of the range under way, and whether the transaction of a stage committed.
InRange(kinds) == Of(kinds, lastBlockNum..targetBlockNum)
Passed(later) == pc \in later \/ (pc = "end" /\ success)

\* What the transactions of the pass have stored so far.
SavedInv ==
  /\ Passed({"totals", "admin"}) => InRange({"claim"}) \subseteq claims
  /\ Passed({"admin"}) => \A i \in InRange({"total"}) : Stored(i)
  /\ Passed({}) /\ ~gap => \A i \in InRange({"created", "activated"}) : Stored(i)

\* First block that will be read again; everything below it is stored.
Position == IF pc = "down" THEN height ELSE lastBlockNum
BehindInv ==
  /\ ~gap => \A i \in Of(AirdropKinds, 0..(Position - 1)) : Stored(i)
  /\ Of({"claim"}, 0..(Position - 1)) \subseteq claims \cup passedOver

\* The contract's books in a log L: the events of one kind about a pair up to block n,
\* what was claimed by them, and the total.
EventsIn(L, kind, a, u, n) ==
  {i \in (1..n) \cap (1..Len(L)) :
     L[i].kind = kind /\ L[i].airdrop = a /\ L[i].user = u}
AmountsOf(L) == [i \in 1..Len(L) |-> L[i].amount]
Claimed(L, a, u, n) == Total(AmountsOf(L), EventsIn(L, "claim", a, u, n))
Allowed(L, a, u, n) ==
  LET T == EventsIn(L, "total", a, u, n) IN IF T = {} THEN 0 ELSE L[Latest(T)].amount

\* Nobody ever claimed more than the total that held at the time.
BooksInv ==
  \A a \in Airdrops, u \in Users, n \in 0..Len(log) :
    Claimed(log, a, u, n) <= Allowed(log, a, u, n)

\* A request under way holds totals of its user's rows that were current when it read them.
ReaderInv ==
  reader # NoRequest =>
    \E u \in Users, A \in SUBSET Airdrops : \E s \in [A -> 0..MaxLog] :
      /\ reader = [user |-> u, scope |-> A, source |-> s, claimed |-> 0]
      /\ \A a \in A : s[a] # 0 => /\ s[a] \in About("total", a, u, Positions)
                                  /\ s[a] <= source[<<a, u>>]

TypeInv == TypeOK /\ RangeInv /\ OpenInv /\ SourceInv
Inv ==
  /\ TypeInv /\ CampaignInv /\ SavedInv /\ BehindInv /\ ClaimsBeforeTotals
  /\ BooksInv /\ ReaderInv

-----------------------------------------------------------------------------
(***************************************************************************)
(* Sets of positions.                                                      *)
(***************************************************************************)

\* A set of positions that is not empty has a last one.  (Counting back from the
\* upper bound, it is the least one.)
LEMMA LastIsLast ==
  ASSUME NEW n \in Nat, NEW S, S \subseteq 1..n, S # {}
  PROVE  Latest(S) \in S /\ \A j \in S : j <= Latest(S)
<1> DEFINE T == {n - i : i \in S}
<1>1. T \subseteq Nat /\ T # {}
  <2>1. \A i \in S : i \in Int /\ 1 <= i /\ i <= n
    OBVIOUS
  <2>2. \A i \in S : n - i \in Nat
    BY <2>1
  <2>3. PICK i \in S : TRUE
    OBVIOUS
  <2>4. n - i \in T
    OBVIOUS
  <2>5. QED
    BY <2>2, <2>4
<1>2. IsWellFoundedOn(OpToRel(<, Nat), Nat)
  BY NatLessThanWellFounded
<1> HIDE DEF T
<1>3. PICK m \in T : \A k \in T : ~ (<<k, m>> \in OpToRel(<, Nat))
  BY <1>1, <1>2, WFMin
<1>4. \A k \in T : ~ (k < m)
  BY <1>1, <1>3 DEF OpToRel
<1>5. PICK i \in S : m = n - i
  BY DEF T
<1>6. \A j \in S : j <= i
  <2> SUFFICES ASSUME NEW j \in S PROVE j <= i
    OBVIOUS
  <2>1. n - j \in T
    BY DEF T
  <2>2. QED
    BY <1>4, <1>5, <2>1
<1>7. QED
  BY <1>6 DEF Latest

\* What an event of the log consists of.
LEMMA EventFields ==
  ASSUME TypeOK, NEW i \in Positions
  PROVE  /\ log[i].kind \in {"claim", "total"} =>
              log[i].airdrop \in Airdrops /\ log[i].user \in Users
         /\ log[i].kind \in {"created", "activated"} => log[i].airdrop \in Airdrops
         /\ log[i].kind \in AirdropKinds \cup {"other"}
<1>1. log[i] \in Event
  BY DEF TypeOK, Positions
<1>2. CASE log[i] \in [kind : {"claim", "total"}, airdrop : Airdrops, user : Users, amount :
      Amounts]
  BY <1>2 DEF AirdropKinds
<1>3. CASE log[i] \in [kind : {"created", "activated"}, airdrop : Airdrops]
  BY <1>3 DEF AirdropKinds
<1>4. CASE log[i] \in [kind : {"other"}]
  BY <1>4 DEF AirdropKinds
<1>5. QED
  BY <1>1, <1>2, <1>3, <1>4 DEF Event

\* The batch holds every event of the range, so the work of a stage is the events
\* of its kinds in the range.
LEMMA WorkIsInRange ==
  ASSUME TypeOK
  PROVE  Work = InRange(KindsOf(pc))
<1>1. Batch = (lastBlockNum..targetBlockNum) \cap Positions
  BY EventFields DEF Batch, Of
<1>2. QED
  BY <1>1 DEF Work, InRange, Of

\* The range that the next pass reads.
LEMMA TargetFits ==
  ASSUME TypeInv, pc = "idle", Len(log) > lastBlockNum
  PROVE  /\ Target \in 0..Len(log) /\ lastBlockNum < Target
         /\ Target <= lastBlockNum + BatchSize /\ height <= Target
<1>1. Len(log) \in Nat /\ lastBlockNum \in Nat /\ height \in Nat /\ height <= Len(log)
  BY DEF TypeInv, TypeOK
<1>2. height <= lastBlockNum + BatchSize
  BY DEF TypeInv, RangeInv
<1>3. QED
  BY <1>1, <1>2 DEF Target

-----------------------------------------------------------------------------
(***************************************************************************)
(* The log.                                                                *)
(***************************************************************************)

\* The contract appends an event, and activates only what was created.
LEMMA ContractEmits ==
  ASSUME Contract
  PROVE  \E e \in Event : Emit(e) /\ (e.kind = "activated" => Seen("created", e.airdrop))
<1>1. ASSUME NEW a \in Airdrops, Create(a)
      PROVE  \E e \in Event : Emit(e) /\ (e.kind = "activated" => Seen("created", e.airdrop))
  <2> DEFINE e == [kind |-> "created", airdrop |-> a]
  <2>1. e \in Event /\ e.kind # "activated"
    BY DEF Event
  <2>2. Emit(e)
    BY <1>1 DEF Create
  <2>3. QED
    BY <2>1, <2>2
<1>2. ASSUME NEW a \in Airdrops, Activate(a)
      PROVE  \E e \in Event : Emit(e) /\ (e.kind = "activated" => Seen("created", e.airdrop))
  <2> DEFINE e == [kind |-> "activated", airdrop |-> a]
  <2>1. e \in Event /\ e.airdrop = a
    BY DEF Event
  <2>2. Emit(e) /\ Seen("created", a)
    BY <1>2 DEF Activate
  <2>3. QED
    BY <2>1, <2>2
<1>3. ASSUME NEW a \in Airdrops, NEW u \in Users, NEW amount \in Amounts,
             SetTotal(a, u, amount) \/ Claim(a, u, amount)
      PROVE  \E e \in Event : Emit(e) /\ (e.kind = "activated" => Seen("created", e.airdrop))
  <2>1. PICK k \in {"claim", "total"} :
          Emit([kind |-> k, airdrop |-> a, user |-> u, amount |-> amount])
    BY <1>3 DEF SetTotal, Claim
  <2> DEFINE e == [kind |-> k, airdrop |-> a, user |-> u, amount |-> amount]
  <2>2. e \in Event /\ e.kind # "activated"
    BY DEF Event
  <2>3. QED
    BY <2>1, <2>2
<1>4. ASSUME OtherBlock
      PROVE  \E e \in Event : Emit(e) /\ (e.kind = "activated" => Seen("created", e.airdrop))
  <2> DEFINE e == [kind |-> "other"]
  <2>1. e \in Event /\ e.kind # "activated"
    BY DEF Event
  <2>2. QED
    BY <1>4, <2>1 DEF OtherBlock
<1>5. QED
  BY <1>1, <1>2, <1>3, <1>4 DEF Contract

\* A new event is the last one and changes no other.
LEMMA EmitExtends ==
  ASSUME TypeOK, NEW e \in Event, Emit(e)
  PROVE  /\ log' \in Seq(Event) /\ Len(log') = Len(log) + 1 /\ Len(log') <= MaxLog
         /\ Positions' = Positions \cup {Len(log) + 1}
         /\ \A i \in Positions : log'[i] = log[i]
         /\ log'[Len(log) + 1] = e
<1>1. log \in Seq(Event) /\ log' = Append(log, e) /\ Len(log) < MaxLog
  BY DEF TypeOK, Emit
<1> HIDE DEF Event
<1>2. /\ log' \in Seq(Event) /\ Len(log') = Len(log) + 1
      /\ \A i \in 1..Len(log) : log'[i] = log[i]
      /\ log'[Len(log) + 1] = e
  BY <1>1
<1>3. Len(log) \in Nat
  BY <1>1
<1>4. QED
  BY <1>1, <1>2, <1>3 DEF Positions

-----------------------------------------------------------------------------
(***************************************************************************)
(* The tables.                                                             *)
(***************************************************************************)

\* The upserts of a batch leave each row at the last total of its pair in the
\* range, which is never older than the one it had.
LEMMA TotalsApplied ==
  ASSUME TypeInv, open, pc = "totals", ApplyTotals, NEW p \in Pairs
  PROVE  /\ source'[p] >= source[p]
         /\ source'[p] = source[p] \/ source'[p] \in About("total", p[1], p[2],
               InRange({"total"}))
         /\ \A i \in About("total", p[1], p[2], InRange({"total"})) : source'[p] >= i
<1> DEFINE mine == About("total", p[1], p[2], Work)
<1>1. Work = InRange({"total"})
  BY WorkIsInRange DEF TypeInv, KindsOf
<1>2. source'[p] = IF mine = {} THEN source[p] ELSE Latest(mine)
  BY DEF ApplyTotals
<1>3. Len(log) \in Nat /\ mine \subseteq 1..Len(log)
  BY DEF TypeInv, TypeOK, About, Of, Positions
<1>4. source[p] \in Nat
  BY DEF TypeInv, TypeOK, Of, Positions
<1>5. CASE mine = {}
  BY <1>1, <1>2, <1>4, <1>5
<1>6. CASE mine # {}
  <2>1. Latest(mine) \in mine /\ \A j \in mine : j <= Latest(mine)
    BY <1>3, <1>6, LastIsLast
  <2>2. \A j \in mine : j \in Nat
    BY <1>3
  <2>3. source[p] <= Latest(mine)
    <3>1. CASE source[p] = 0
      BY <2>1, <2>2, <3>1
    <3>2. CASE source[p] # 0
      <4>1. source[p] \in About("total", p[1], p[2], Positions) /\ source[p] <= targetBlockNum
        BY <3>2 DEF TypeInv, SourceInv, RangeInv
      <4>2. CASE source[p] >= lastBlockNum
        <5>1. source[p] \in mine
          BY <4>1, <4>2, <1>1, <1>4 DEF About, Of, InRange, TypeInv, TypeOK
        <5>2. QED
          BY <2>1, <5>1
      <4>3. CASE source[p] < lastBlockNum
        <5>1. Latest(mine) >= lastBlockNum
          BY <2>1, <1>1 DEF About, Of, InRange, TypeInv, TypeOK
        <5>2. QED
          BY <4>3, <5>1, <2>1, <2>2, <1>4 DEF TypeInv, TypeOK
      <4>4. QED
        BY <4>2, <4>3, <1>4 DEF TypeInv, TypeOK
    <3>3. QED
      BY <3>1, <3>2
  <2>4. QED
    BY <1>1, <1>2, <1>4, <1>6, <2>1, <2>2, <2>3
<1>7. QED
  BY <1>5, <1>6

\* A campaign never goes back, and what is created or activated in the batch is.
LEMMA AdminSaved ==
  ASSUME TypeOK, pc = "admin", SaveAdmin
  PROVE  /\ campaigns' \in [Airdrops -> {"none", "inactive", "active"}]
         /\ \A a \in Airdrops :
              /\ campaigns[a] # "none" => campaigns'[a] # "none"
              /\ campaigns[a] = "active" => campaigns'[a] = "active"
         /\ \A i \in InRange({"created"}) : campaigns'[log[i].airdrop] # "none"
         /\ \A i \in InRange({"activated"}) :
              \/ campaigns[log[i].airdrop] # "none"
              \/ \E j \in InRange({"created"}) : log[j].airdrop = log[i].airdrop
              => campaigns'[log[i].airdrop] = "active"
<1> DEFINE Created   == {log[i].airdrop : i \in Of({"created"}, Work)}
           Activated == {log[i].airdrop : i \in Of({"activated"}, Work)}
<1>1. /\ Of({"created"}, Work) = InRange({"created"})
      /\ Of({"activated"}, Work) = InRange({"activated"})
  BY WorkIsInRange DEF KindsOf, Of, InRange
<1> DEFINE Upserted(a) == IF a \in Created /\ campaigns[a] = "none" THEN "inactive"
      ELSE campaigns[a]
<1>2. campaigns' = [a \in Airdrops |->
        IF a \in Activated /\ Upserted(a) # "none" THEN "active" ELSE Upserted(a)]
  BY DEF SaveAdmin
<1>3. \A i \in InRange({"created"}) : log[i].airdrop \in Created /\ log[i].airdrop \in Airdrops
  BY <1>1, EventFields DEF InRange, Of
<1>4. \A i \in InRange({"activated"}) : log[i].airdrop \in Activated
      /\ log[i].airdrop \in Airdrops
  BY <1>1, EventFields DEF InRange, Of
<1>5. \A i \in InRange({"activated"}) :
        (\E j \in InRange({"created"}) : log[j].airdrop = log[i].airdrop)
        => log[i].airdrop \in Created
  BY <1>3
<1> HIDE DEF Created, Activated
<1>6. campaigns \in [Airdrops -> {"none", "inactive", "active"}]
  BY DEF TypeOK
<1>7. /\ campaigns' \in [Airdrops -> {"none", "inactive", "active"}]
      /\ \A a \in Airdrops :
           /\ campaigns[a] # "none" => campaigns'[a] # "none"
           /\ campaigns[a] = "active" => campaigns'[a] = "active"
  BY <1>2, <1>6
<1>8. \A i \in InRange({"created"}) : campaigns'[log[i].airdrop] # "none"
  BY <1>2, <1>3
<1>9. \A i \in InRange({"activated"}) :
        \/ campaigns[log[i].airdrop] # "none"
        \/ \E j \in InRange({"created"}) : log[j].airdrop = log[i].airdrop
        => campaigns'[log[i].airdrop] = "active"
  BY <1>2, <1>4, <1>5
<1>10. QED
  BY <1>7, <1>8, <1>9

\* What a transaction leaves in the tables that it writes.
LEMMA RowsSaved ==
  ASSUME TypeInv, SaveRows
  PROVE  /\ claims \subseteq claims' /\ claims' \subseteq claims \cup InRange({"claim"})
         /\ \A p \in Pairs : source'[p] >= source[p]
         /\ \A p \in Pairs :
              source'[p] = source[p] \/ source'[p] \in About("total", p[1], p[2],
                    InRange({"total"}))
         /\ campaigns' \in [Airdrops -> {"none", "inactive", "active"}]
         /\ \A a \in Airdrops : /\ campaigns[a] # "none" => campaigns'[a] # "none"
                                /\ campaigns[a] = "active" => campaigns'[a] = "active"
<1>1. \A p \in Pairs : source[p] \in Nat
  BY DEF TypeInv, TypeOK, Of, Positions
<1>2. campaigns \in [Airdrops -> {"none", "inactive", "active"}]
  BY DEF TypeInv, TypeOK
<1>3. CASE pc = "claims"
  <2>1. SaveClaims
    BY <1>3 DEF SaveRows
  <2>2. Work = InRange({"claim"})
    BY <1>3, WorkIsInRange DEF TypeInv, KindsOf
  <2>3. QED
    BY <1>1, <1>2, <2>1, <2>2 DEF SaveClaims
<1>4. CASE pc = "totals"
  <2>1. ApplyTotals /\ open
    BY <1>4 DEF SaveRows
  <2>2. QED
    BY <1>2, <1>4, <2>1, TotalsApplied DEF ApplyTotals
<1>5. CASE pc = "admin"
  <2>1. SaveAdmin
    BY <1>5 DEF SaveRows
  <2>2. QED
    BY <1>1, <1>5, <2>1, AdminSaved DEF SaveAdmin, TypeInv
<1>6. QED
  BY <1>3, <1>4, <1>5 DEF SaveRows, Stages

\* Such a transaction leaves rows of the right form.
LEMMA RowsTyped ==
  ASSUME TypeInv, SaveRows, log' = log, height' = height
  PROVE  /\ claims' \subseteq Of({"claim"}, Positions)'
         /\ \A p \in Pairs : source'[p] \in {0} \cup Of({"total"}, Positions)'
         /\ SourceInv'
<1>1. claims' \subseteq Of({"claim"}, Positions)'
  BY RowsSaved DEF TypeInv, TypeOK, Of, Positions, InRange
<1>2. targetBlockNum = height
  BY DEF SaveRows, TypeInv, RangeInv
<1>3. ASSUME NEW p \in Pairs
      PROVE  source'[p] # 0 => /\ source'[p] \in About("total", p[1], p[2], Positions)
                               /\ source'[p] <= height
  <2>1. CASE source'[p] = source[p]
    BY <2>1 DEF TypeInv, SourceInv
  <2>2. CASE source'[p] \in About("total", p[1], p[2], InRange({"total"}))
    BY <1>2, <2>2 DEF About, Of, InRange, Positions, TypeInv, TypeOK
  <2>3. QED
    BY <2>1, <2>2, RowsSaved
<1>4. SourceInv'
  BY <1>3 DEF SourceInv, About, Of, Positions
<1>5. \A p \in Pairs : source'[p] \in {0} \cup Of({"total"}, Positions)'
  BY <1>3 DEF About, Of, Positions
<1>6. QED
  BY <1>1, <1>4, <1>5

LEMMA TypeInit ==
  ASSUME Init
  PROVE  TypeInv
<1>1. log \in Seq(Event) /\ Len(log) = 0
  BY DEF Init
<1> HIDE DEF Event
<1>2. \A p \in Pairs : source[p] = 0
  BY DEF Init
<1>3. campaigns \in [Airdrops -> {"none", "inactive", "active"}]
  BY DEF Init
<1>4. reader.scope \subseteq Airdrops
  BY DEF Init, NoRequest
<1>5. TypeOK
  <2> HIDE DEF Pairs
  <2>1. success \in BOOLEAN /\ open \in BOOLEAN /\ passedOver \subseteq Positions
    BY DEF Init
  <2>2. QED
    BY <1>1, <1>2, <1>3, <1>4, <2>1 DEF Init, TypeOK
<1>6. RangeInv /\ OpenInv /\ SourceInv
  BY <1>2 DEF Init, RangeInv, OpenInv, SourceInv, InPass, Stages
<1>7. QED
  BY <1>5, <1>6 DEF TypeInv

\* What TypeInv says of the tables.
TablesTyped ==
  /\ log \in Seq(Event) /\ Len(log) <= MaxLog
  /\ claims \subseteq Of({"claim"}, Positions)
  /\ \A p \in Pairs : source[p] \in {0} \cup Of({"total"}, Positions)
  /\ campaigns \in [Airdrops -> {"none", "inactive", "active"}]
  /\ SourceInv

LEMMA TablesUntouched ==
  ASSUME TypeInv, log' = log, tables' = tables, height' >= height, height' \in Nat
  PROVE  TablesTyped'
<1>1. claims' = claims /\ source' = source /\ campaigns' = campaigns
  BY DEF tables
<1>2. \A p \in Pairs : source[p] \in Nat
  BY DEF TypeInv, TypeOK, Of, Positions
<1>3. height \in Nat
  BY DEF TypeInv, TypeOK
<1>4. \A p \in Pairs : source[p] # 0 =>
        source[p] \in About("total", p[1], p[2], Positions) /\ source[p] <= height'
  BY <1>2, <1>3 DEF TypeInv, SourceInv
<1>5. SourceInv'
  BY <1>1, <1>4 DEF SourceInv, About, Of, Positions
<1>6. QED
  BY <1>1, <1>5 DEF TablesTyped, TypeInv, TypeOK, Of, Positions

\* A step of the contract adds an event and moves nothing.
LEMMA TypeAfterEmit ==
  ASSUME TypeInv, NEW e \in Event, Emit(e)
  PROVE  TypeInv'
<1>1. /\ log' \in Seq(Event) /\ Len(log') = Len(log) + 1 /\ Len(log') <= MaxLog
      /\ Positions' = Positions \cup {Len(log) + 1}
      /\ \A i \in Positions : log'[i] = log[i]
  BY EmitExtends DEF TypeInv
<1>2. UNCHANGED <<claims, source, campaigns, height, pc, lastBlockNum, targetBlockNum, success,
                  open, passedOver, reader, crashes, faults>>
  BY DEF Emit, tables, pass, counters
<1> HIDE DEF Event
<1>3. claims' \subseteq Of({"claim"}, Positions)'
  BY <1>1, <1>2 DEF TypeInv, TypeOK, Of
<1>4. \A p \in Pairs : source'[p] \in {0} \cup Of({"total"}, Positions)'
  BY <1>1, <1>2 DEF TypeInv, TypeOK, Of
<1>5. SourceInv'
  BY <1>1, <1>2 DEF TypeInv, SourceInv, About, Of
<1>6. RangeInv'
  BY <1>2 DEF TypeInv, RangeInv, InPass, Stages
<1>7. /\ height' \in 0..Len(log') /\ lastBlockNum' \in 0..Len(log') + 1
      /\ targetBlockNum' \in 0..Len(log')
  BY <1>1, <1>2 DEF TypeInv, TypeOK
<1>8. TypeOK'
  BY <1>1, <1>2, <1>3, <1>4, <1>7 DEF TypeInv, TypeOK
<1>9. OpenInv'
  <2>1. Batch \subseteq Batch'
    BY <1>1, <1>2 DEF Batch, Of
  <2>2. \A i \in Batch : i \in Positions
    BY DEF Batch, Of
  <2>3. Work \subseteq Work'
    BY <1>1, <1>2, <2>1, <2>2 DEF Work, Of
  <2>4. QED
    BY <1>2, <2>3 DEF TypeInv, OpenInv
<1>10. QED
  BY <1>5, <1>6, <1>8, <1>9 DEF TypeInv

\* A step of the listener keeps the types and the range of its pass.
LEMMA TypeAfterListener ==
  ASSUME TypeInv, Listener
  PROVE  TypeInv'
<1> DEFINE Control ==
      /\ height \in 0..Len(log)
      /\ pc \in {"down", "idle", "claims", "totals", "admin", "end"}
      /\ lastBlockNum \in 0..Len(log) + 1 /\ targetBlockNum \in 0..Len(log)
<1>1. Control /\ RangeInv /\ Len(log) \in Nat
  BY DEF TypeInv, TypeOK
<1> DEFINE Flags == success \in BOOLEAN /\ open \in BOOLEAN /\ passedOver \subseteq Positions
           Bounds == crashes \in 0..MaxCrashes /\ faults \in 0..MaxFaults
<1>0. Flags' /\ Bounds'
  <2>1. success' \in BOOLEAN /\ open' \in BOOLEAN /\ log' = log
    BY DEF TypeInv, TypeOK, Listener, Boot, Crash, BeginPass, PassUnread, SkipStage, WriteHeight,
          CommitStage,
      CommitUnacknowledged, StageFails, FinishPass, RetryPass, FinishFails, Return, pass
  <2>4. \A S : Unstored(S) \subseteq Positions
    BY DEF Unstored, Of
  <2>5. passedOver' = passedOver \/ \E S : passedOver' = passedOver \cup Unstored(S)
    BY DEF Listener, Boot, Crash, BeginPass, PassUnread, SkipStage, WriteHeight, CommitStage,
      CommitUnacknowledged, StageFails, FinishPass, RetryPass, FinishFails, Return, pass
  <2>6. Positions' = Positions /\ passedOver \subseteq Positions
    BY <2>1 DEF TypeInv, TypeOK, Positions
  <2>7. Flags'
    BY <2>1, <2>4, <2>5, <2>6
  <2>2. Bounds
    BY DEF TypeInv, TypeOK
  <2>8. MaxCrashes \in Nat /\ MaxFaults \in Nat
    BY AirdropConstantsOK DEF AirdropConstantsOK
  <2>3. Bounds'
    BY ONLY <2>2, <2>8, Listener, AirdropConstantsOK
      DEF AirdropConstantsOK, Listener, Boot, Crash, BeginPass, PassUnread, SkipStage, WriteHeight, CommitStage,
      CommitUnacknowledged, StageFails, FinishPass, RetryPass, FinishFails, Fault, counters
  <2>9. QED
    BY <2>3, <2>7
<1>14. OpenInv' /\ (~InPass \/ SkipStage => ~open)
  <2>1. ~InPass \/ SkipStage => ~open
    BY DEF TypeInv, RangeInv, OpenInv, SkipStage, InPass
  <2>2. CASE WriteHeight
    <3>1. Work' = Work /\ Work # {}
      BY <2>2 DEF WriteHeight, Work, Batch, Of, Positions
    <3>2. QED
      BY <2>1, <3>1 DEF OpenInv
  <2>3. CASE ~WriteHeight
    <3>1. ~open'
      BY <2>1, <2>3 DEF Listener, Boot, Crash, BeginPass, PassUnread, SkipStage, CommitStage,
        CommitUnacknowledged, StageFails, FinishPass, RetryPass, FinishFails, Return, pass,
        InPass, Stages, TypeInv, RangeInv
    <3>2. QED
      BY <2>1, <3>1 DEF OpenInv
  <2>4. QED
    BY <2>1, <2>2, <2>3
<1>2. ASSUME log' = log, reader' = reader, Control', RangeInv', TablesTyped'
      PROVE  TypeInv'
  BY <1>0, <1>14, <1>2 DEF TypeInv, TypeOK, TablesTyped
<1>3. CASE Boot
  <2>1. Control' /\ RangeInv'
    <3>1. Control'
      BY <1>1, <1>3 DEF Boot, pass, counters, RangeInv, InPass, Stages
    <3>2. RangeInv'
      BY <1>1, <1>3 DEF Boot, pass, counters, RangeInv, InPass, Stages
    <3>3. QED
      BY <3>1, <3>2
  <2>2. QED
    BY <1>1, <1>2, <1>3, <2>1, TablesUntouched DEF Boot
<1>4. CASE Crash
  <2>2. Control' /\ RangeInv'
    <3>1. Control'
      BY <1>1, <1>4 DEF Crash, RangeInv, InPass, Stages
    <3>2. RangeInv'
      BY <1>1, <1>4 DEF Crash, RangeInv, InPass, Stages
    <3>3. QED
      BY <3>1, <3>2
  <2>3. QED
    BY <1>1, <1>2, <1>4, <2>2, TablesUntouched DEF Crash
<1>5. CASE BeginPass
  <2>1. /\ Target \in 0..Len(log) /\ lastBlockNum < Target
        /\ Target <= lastBlockNum + BatchSize /\ height <= Target
    BY <1>5, TargetFits DEF BeginPass
  <2> HIDE DEF Target
  <2>2. height' \in {height, Target}
    BY <1>5 DEF BeginPass
  <2>3. /\ Len(log) > lastBlockNum /\ targetBlockNum' = Target /\ pc' = "claims" /\ pc = "idle"
        /\ UNCHANGED <<log, tables, lastBlockNum, open, passedOver, reader, crashes>>
    BY <1>5 DEF BeginPass
  <2>4. Control'
    BY <1>1, <2>1, <2>2, <2>3
  <2>5. RangeInv'
    <3>1. ~open'
      BY <1>1, <2>3 DEF RangeInv, Stages
    <3>2. PICK n \in {height, Target} : height' = n
      BY <2>2
    <3>3. lastBlockNum <= n + 1 /\ n <= Target
      BY <1>1, <2>1, <2>3 DEF RangeInv
    <3>4. pc' = "claims" /\ lastBlockNum' = lastBlockNum /\ targetBlockNum' = Target
      BY <2>3
    <3>5. ~open'
      BY <2>3, <3>1
    <3>6. QED
      BY <2>1, <3>2, <3>3, <3>4, <3>5 DEF RangeInv, InPass, Stages
  <2>6. QED
    BY <1>1, <1>2, <2>1, <2>2, <2>3, <2>4, <2>5, TablesUntouched
<1>6. CASE PassUnread
  <2>1. /\ Target \in 0..Len(log) /\ lastBlockNum < Target
        /\ Target <= lastBlockNum + BatchSize /\ height <= Target
    BY <1>6, TargetFits DEF PassUnread
  <2> HIDE DEF Target
  <2>3. /\ pc = "idle" /\ height' = Target /\ lastBlockNum' = Target + 1
        /\ UNCHANGED <<log, tables, pc, targetBlockNum, success, open, reader, crashes>>
    BY <1>6 DEF PassUnread, pass
  <2>4. Control'
    BY <1>1, <2>1, <2>3
  <2>5. RangeInv'
    BY <1>1, <2>1, <2>3 DEF RangeInv, InPass, Stages
  <2>6. QED
    BY <1>1, <1>2, <2>1, <2>3, <2>4, <2>5, TablesUntouched
<1>7. CASE SkipStage
  <2>1. Control' /\ RangeInv'
    <3>1. Control'
      BY <1>1, <1>7 DEF SkipStage, pass, counters, RangeInv, InPass, Stages, After
    <3>2. RangeInv'
      BY <1>1, <1>14, <1>7 DEF SkipStage, pass, counters, RangeInv, InPass, Stages, After
    <3>3. QED
      BY <3>1, <3>2
  <2>2. QED
    BY <1>1, <1>2, <1>7, <2>1, TablesUntouched DEF SkipStage
<1>8. CASE WriteHeight
  <2>1. Control' /\ RangeInv'
    <3>1. Control'
      BY <1>1, <1>8 DEF WriteHeight, counters, RangeInv, InPass, Stages
    <3>2. RangeInv'
      BY <1>1, <1>8 DEF WriteHeight, counters, RangeInv, InPass, Stages
    <3>3. QED
      BY <3>1, <3>2
  <2>2. height' >= height
    BY <1>1, <1>8 DEF WriteHeight, RangeInv, InPass
  <2>3. QED
    BY <1>1, <1>2, <1>8, <2>1, <2>2, TablesUntouched DEF WriteHeight
<1>9. CASE CommitStage \/ CommitUnacknowledged
  <2>1. SaveRows /\ UNCHANGED <<log, height, reader>>
    BY <1>9 DEF CommitStage, CommitUnacknowledged
  <2>2. Control' /\ RangeInv'
    <3>1. Control'
      BY <1>1, <1>9 DEF CommitStage, CommitUnacknowledged, Return, SaveRows, counters,
                      RangeInv, InPass, Stages, After
    <3>2. RangeInv'
      BY <1>1, <1>9 DEF CommitStage, CommitUnacknowledged, Return, SaveRows, counters,
                      RangeInv, InPass, Stages, After
    <3>3. QED
      BY <3>1, <3>2
  <2>3. TablesTyped'
    BY <2>1, RowsTyped, RowsSaved DEF TablesTyped, TypeInv, TypeOK
  <2>4. QED
    BY <1>2, <2>1, <2>2, <2>3
<1>10. CASE StageFails
  <2>1. Control' /\ RangeInv'
    <3>1. Control'
      BY <1>1, <1>10 DEF StageFails, Return, RangeInv, InPass, Stages
    <3>2. RangeInv'
      BY <1>1, <1>10 DEF StageFails, Return, RangeInv, InPass, Stages
    <3>3. QED
      BY <3>1, <3>2
  <2>2. QED
    BY <1>1, <1>2, <1>10, <2>1, TablesUntouched DEF StageFails
<1>11. CASE FinishPass
  <2>1. Control' /\ RangeInv'
    <3>1. Control'
      BY <1>1, <1>11 DEF FinishPass, counters, RangeInv, InPass, Stages
    <3>2. RangeInv'
      BY <1>1, <1>11 DEF FinishPass, counters, RangeInv, InPass, Stages
    <3>3. QED
      BY <3>1, <3>2
  <2>2. height' >= height
    BY <1>1, <1>11 DEF FinishPass, RangeInv, InPass
  <2>3. QED
    BY <1>1, <1>2, <1>11, <2>1, <2>2, TablesUntouched DEF FinishPass
<1>12. CASE RetryPass \/ FinishFails
  <2>1. Control' /\ RangeInv'
    <3>1. Control'
      BY <1>1, <1>12 DEF RetryPass, FinishFails, RangeInv, InPass, Stages
    <3>2. RangeInv'
      BY <1>1, <1>12 DEF RetryPass, FinishFails, RangeInv, InPass, Stages
    <3>3. QED
      BY <3>1, <3>2
  <2>2. QED
    BY <1>1, <1>2, <1>12, <2>1, TablesUntouched DEF RetryPass, FinishFails
<1>13. QED
  BY <1>3, <1>4, <1>5, <1>6, <1>7, <1>8, <1>9, <1>10, <1>11, <1>12 DEF Listener

\* The API writes nothing but its own request.
LEMMA ApiReadsOnly ==
  ASSUME TypeInv, Api
  PROVE  /\ UNCHANGED <<log, claims, source, campaigns, height, pc, lastBlockNum, targetBlockNum,
                        success, open, passedOver, crashes>>
         /\ reader'.scope \subseteq Airdrops /\ faults' \in 0..MaxFaults
<1>1. NoRequest.scope = {} /\ faults \in 0..MaxFaults
  BY DEF NoRequest, TypeInv, TypeOK
<1>2. ASSUME NEW u \in Users, NEW A \in Scopes
      PROVE  /\ Blank(u, A).scope = A /\ Query(QueryOrder[1], Blank(u, A)).scope = A
             /\ A \subseteq Airdrops
  BY DEF Blank, Query, QueryOrder, SumTotals, Scopes, Items
<1>3. ASSUME NEW u \in Users, NEW A \in Scopes, Request(u, A) \/ RequestFails(u, A)
      PROVE  reader'.scope \subseteq Airdrops /\ faults' \in 0..MaxFaults
  <2> HIDE DEF Blank, Query, QueryOrder
  <2>1. reader' \in {NoRequest, Blank(u, A), Query(QueryOrder[1], Blank(u, A))}
    BY <1>3 DEF Request, RequestFails
  <2>2. faults' \in 0..MaxFaults
    BY <1>1, <1>3 DEF Request, RequestFails, Fault, counters
  <2>3. QED
    BY <1>1, <1>2, <2>1, <2>2
<1>4. ASSUME Reply \/ ReplyFails
      PROVE  reader'.scope \subseteq Airdrops /\ faults' \in 0..MaxFaults
  <2>1. reader' = NoRequest
    BY <1>4 DEF Reply, ReplyFails
  <2>2. faults' \in 0..MaxFaults
    BY <1>1, <1>4 DEF Reply, ReplyFails, Fault, counters
  <2>3. QED
    BY <1>1, <2>1, <2>2
<1>5. UNCHANGED <<log, claims, source, campaigns, height, pc, lastBlockNum, targetBlockNum,
                  success, open, passedOver, crashes>>
  BY DEF Api, Request, RequestFails, Reply, ReplyFails, tables, pass, counters
<1>6. QED
  BY <1>3, <1>4, <1>5 DEF Api

\* TypeInv is inductive.
LEMMA TypeStep ==
  ASSUME TypeInv, [Next]_vars
  PROVE  TypeInv'
<1>1. CASE Contract
  <2>1. PICK e \in Event : Emit(e) /\ (e.kind = "activated" => Seen("created", e.airdrop))
    BY <1>1, ContractEmits
  <2>2. Emit(e)
    BY <2>1
  <2>3. QED
    BY <2>2, TypeAfterEmit
<1>2. CASE Listener
  BY <1>2, TypeAfterListener
<1>3. ASSUME UNCHANGED <<log, claims, source, campaigns, height, pc, lastBlockNum, targetBlockNum,
                         success, open, passedOver, crashes>>,
             reader'.scope \subseteq Airdrops, faults' \in 0..MaxFaults
      PROVE  TypeInv'
  <2>1. TypeOK'
    BY <1>3 DEF TypeInv, TypeOK, Of, Positions
  <2>2. RangeInv' /\ OpenInv'
    BY <1>3 DEF TypeInv, RangeInv, OpenInv, InPass, Work, Batch, Of, Positions
  <2>3. SourceInv'
    BY <1>3 DEF TypeInv, SourceInv, About, Of, Positions
  <2>4. QED
    BY <2>1, <2>2, <2>3 DEF TypeInv
<1>4. CASE Api
  BY <1>3, <1>4, ApiReadsOnly
<1>5. CASE UNCHANGED vars
  BY <1>3, <1>5 DEF vars, tables, pass, counters, TypeInv, TypeOK
<1>6. QED
  BY <1>1, <1>2, <1>4, <1>5 DEF Next

\* The log is only extended and the tables only gain: a claim stays, a total is only
\* replaced by a later one, a campaign does not go back.
TablesGrow ==
  /\ Positions \subseteq Positions' /\ \A i \in Positions : log'[i] = log[i]
  /\ claims \subseteq claims'
  /\ \A p \in Pairs : source'[p] >= source[p]
  /\ \A a \in Airdrops : /\ campaigns[a] # "none" => campaigns'[a] # "none"
                         /\ campaigns[a] = "active" => campaigns'[a] = "active"

LEMMA StepsGrow ==
  ASSUME TypeInv, [Next]_vars
  PROVE  TablesGrow
<1>1. \A p \in Pairs : source[p] \in Nat
  BY DEF TypeInv, TypeOK, Of, Positions
<1>2. CASE Contract
  <2>1. PICK e \in Event : Emit(e) /\ (e.kind = "activated" => Seen("created", e.airdrop))
    BY <1>2, ContractEmits
  <2>2. Emit(e)
    BY <2>1
  <2>3. claims' = claims /\ source' = source /\ campaigns' = campaigns
    BY <2>2 DEF Emit, tables
  <2>4. Positions \subseteq Positions' /\ \A i \in Positions : log'[i] = log[i]
    BY <2>2, EmitExtends DEF TypeInv
  <2>5. QED
    BY <1>1, <2>3, <2>4 DEF TablesGrow
<1>3. ASSUME UNCHANGED <<log, tables>> PROVE TablesGrow
  BY <1>1, <1>3 DEF TablesGrow, tables, Positions
<1>4. CASE Listener
  <2>1. CASE CommitStage \/ CommitUnacknowledged
    <3>1. SaveRows /\ log' = log
      BY <2>1 DEF CommitStage, CommitUnacknowledged
    <3>2. QED
      BY <3>1, RowsSaved DEF TablesGrow, Positions
  <2>2. CASE ~(CommitStage \/ CommitUnacknowledged)
    BY <1>3, <1>4, <2>2 DEF Listener, Boot, Crash, BeginPass, PassUnread, SkipStage, WriteHeight,
      StageFails, FinishPass, RetryPass, FinishFails
  <2>3. QED
    BY <2>1, <2>2
<1>5. CASE Api
  BY <1>3, <1>5, ApiReadsOnly DEF tables
<1>6. CASE UNCHANGED vars
  BY <1>3, <1>6 DEF vars
<1>7. QED
  BY <1>2, <1>4, <1>5, <1>6 DEF Next

\* What the tables show they keep showing.
LEMMA StoredStays ==
  ASSUME TypeInv, TypeInv', TablesGrow, NEW i \in Positions, log[i].kind \in AirdropKinds,
        Stored(i)
  PROVE  Stored(i)'
<1>1. log'[i] = log[i] /\ i \in Nat
  BY DEF TablesGrow, Positions, TypeInv, TypeOK
<1>2. CASE log[i].kind = "claim"
  BY <1>1, <1>2 DEF Stored, TablesGrow
<1>3. CASE log[i].kind = "total"
  <2> DEFINE p == <<log[i].airdrop, log[i].user>>
  <2>1. p \in Pairs
    BY <1>3, EventFields DEF TypeInv, Pairs
  <2>2. source[p] >= i
    BY <1>3 DEF Stored
  <2>8. source[p] \in Nat
    <3>1. source[p] \in {0} \cup Of({"total"}, Positions)
      BY <2>1 DEF TypeInv, TypeOK
    <3>2. QED
      BY <3>1 DEF Of, Positions
  <2>3. source[p] \in Nat /\ source'[p] >= source[p]
    BY <2>1, <2>8 DEF TablesGrow
  <2>7. source'[p] \in Nat
    <3>1. source'[p] \in {0} \cup Of({"total"}, Positions)'
      BY <2>1 DEF TypeInv, TypeOK
    <3>2. QED
      BY <3>1 DEF Of, Positions
  <2>4. PICK n \in Nat : source'[p] = n
    BY <2>7
  <2>5. n >= i
    BY <1>1, <2>2, <2>3, <2>4
  <2>6. QED
    BY <1>1, <1>3, <2>4, <2>5 DEF Stored
<1>4. CASE log[i].kind \in {"created", "activated"}
  BY <1>1, <1>4, EventFields DEF TypeInv, Stored, TablesGrow
<1>5. QED
  BY <1>2, <1>3, <1>4 DEF AirdropKinds

-----------------------------------------------------------------------------
(***************************************************************************)
(* What the passes have stored.                                            *)
(***************************************************************************)
LEMMA CampaignStep ==
  ASSUME TypeInv, CampaignInv, TablesGrow, [Next]_vars
  PROVE  CampaignInv'
<1>1. \A a \in Older : campaigns'[a] = "active"
  BY DEF CampaignInv, TablesGrow
<1>2. CASE Contract
  <2>1. PICK e \in Event : Emit(e) /\ (e.kind = "activated" => Seen("created", e.airdrop))
    BY <1>2, ContractEmits
  <2>2. Emit(e)
    BY <2>1
  <2>3. /\ Positions' = Positions \cup {Len(log) + 1}
        /\ \A i \in Positions : log'[i] = log[i]
        /\ log'[Len(log) + 1] = e
    BY <2>2, EmitExtends DEF TypeInv
  <2>4. Len(log) \in Nat /\ Positions = 1..Len(log)
    BY DEF TypeInv, TypeOK, Positions
  <2>5. ASSUME NEW i \in Positions', log'[i].kind = "activated"
        PROVE  \/ log'[i].airdrop \in Older
               \/ \E j \in 1..(i - 1) : /\ j \in Positions' /\ log'[j].kind = "created"
                                        /\ log'[j].airdrop = log'[i].airdrop
    <3>1. CASE i \in Positions
      <4>1. log[i].airdrop \in Older
            \/ \E j \in Of({"created"}, 1..(i - 1)) : log[j].airdrop = log[i].airdrop
        BY <2>3, <2>5, <3>1 DEF CampaignInv, Of
      <4>2. QED
        BY <2>3, <3>1, <4>1 DEF Of
    <3>2. CASE i = Len(log) + 1
      <4>1. Seen("created", e.airdrop)
        BY <2>1, <2>3, <2>5, <3>2
      <4>2. e.airdrop \in Older \/ \E j \in Positions : log[j].kind = "created"
            /\ log[j].airdrop = e.airdrop
        BY <4>1 DEF Seen, Of
      <4>3. QED
        BY <2>3, <2>4, <3>2, <4>2
    <3>3. QED
      BY <2>3, <3>1, <3>2
  <2>6. QED
    BY <1>1, <2>5 DEF CampaignInv, Of
<1>3. CASE log' = log
  BY <1>1, <1>3 DEF CampaignInv, Of, Positions
<1>4. Contract \/ log' = log
  BY ApiReadsOnly DEF Next, Listener, Boot, Crash, BeginPass, PassUnread, SkipStage, WriteHeight,
    CommitStage, CommitUnacknowledged, StageFails, FinishPass, RetryPass, FinishFails, vars
<1>5. QED
  BY <1>2, <1>3, <1>4

\* What a stage that commits has stored of the range.
LEMMA StageStored ==
  ASSUME TypeInv, TypeInv', TablesGrow, CampaignInv, BehindInv, SaveRows, log' = log,
         NEW i \in InRange(KindsOf(pc)), pc = "admin" => ~gap
  PROVE  Stored(i)'
<1>1. i \in Positions /\ log'[i] = log[i] /\ i \in Nat
  BY DEF InRange, Of, Positions, TypeInv, TypeOK
<1>2. CASE pc = "claims"
  <2>1. i \in claims' /\ log[i].kind = "claim"
    BY <1>2, WorkIsInRange DEF SaveRows, SaveClaims, KindsOf, TypeInv, InRange, Of
  <2>2. QED
    BY <1>1, <2>1 DEF Stored
<1>3. CASE pc = "totals"
  <2> DEFINE p == <<log[i].airdrop, log[i].user>>
  <2>1. log[i].kind = "total" /\ ApplyTotals /\ open
    BY <1>3 DEF SaveRows, KindsOf, InRange, Of
  <2>2. p \in Pairs
    BY <1>1, <2>1, EventFields DEF TypeInv, Pairs
  <2>3. i \in About("total", p[1], p[2], InRange({"total"}))
    BY <1>1, <1>3, <2>1 DEF About, InRange, Of, KindsOf
  <2>4. source'[p] >= i
    BY <1>3, <2>1, <2>2, <2>3, TotalsApplied
  <2>5. QED
    BY <1>1, <2>1, <2>4 DEF Stored
<1>4. CASE pc = "admin"
  <2>1. SaveAdmin /\ log[i].kind \in {"created", "activated"}
    BY <1>4 DEF SaveRows, KindsOf, InRange, Of
  <2>2. CASE log[i].kind = "created"
    <3>1. i \in InRange({"created"})
      BY <2>2 DEF InRange, Of
    <3>2. campaigns'[log[i].airdrop] # "none"
      BY <1>4, <2>1, <3>1, AdminSaved DEF TypeInv
    <3>3. QED
      BY <1>1, <2>2, <3>2 DEF Stored
  <2>3. CASE log[i].kind = "activated"
    <3>1. i \in InRange({"activated"}) /\ i \in Of({"activated"}, Positions)
      BY <2>3 DEF InRange, Of
    <3>2. CASE log[i].airdrop \in Older
      <4>1. campaigns'[log[i].airdrop] = "active"
        BY <3>2 DEF CampaignInv, TablesGrow
      <4>2. QED
        BY <1>1, <2>3, <4>1 DEF Stored
    <3>3. CASE \E j \in Of({"created"}, 1..(i - 1)) : log[j].airdrop = log[i].airdrop
      <4>1. PICK j \in Of({"created"}, 1..(i - 1)) : log[j].airdrop = log[i].airdrop
        BY <3>3
      <4>2. CASE j >= lastBlockNum
        <5>1. j \in InRange({"created"})
          BY <1>1, <4>1, <4>2 DEF InRange, Of, TypeInv, TypeOK
        <5>2. QED
          BY <1>1, <1>4, <2>1, <2>3, <3>1, <4>1, <5>1, AdminSaved DEF Stored, TypeInv
      <4>3. CASE j < lastBlockNum
        <5>1. j \in Of(AirdropKinds, 0..(Position - 1))
          BY <1>1, <1>4, <4>1, <4>3 DEF Of, AirdropKinds, Position, TypeInv, TypeOK
        <5>2. Stored(j) /\ log[j].kind = "created"
          BY <1>4, <5>1, <4>1 DEF BehindInv, Of
        <5>3. campaigns[log[i].airdrop] # "none"
          BY <4>1, <5>2 DEF Stored
        <5>4. QED
          BY <1>1, <1>4, <2>1, <2>3, <3>1, <5>3, AdminSaved DEF Stored, TypeInv
      <4>4. QED
        BY <1>1, <4>1, <4>2, <4>3 DEF Of, TypeInv, TypeOK
    <3>4. QED
      BY <3>1, <3>2, <3>3 DEF CampaignInv
  <2>4. QED
    BY <2>1, <2>2, <2>3
<1>5. QED
  BY <1>2, <1>3, <1>4 DEF SaveRows, Stages

\* What a pass has stored of its range stays stored until the pass ends.
LEMMA SavedKept ==
  ASSUME TypeInv, TypeInv', TablesGrow, SavedInv,
         UNCHANGED <<pc, lastBlockNum, targetBlockNum, success, passedOver>>
  PROVE  SavedInv'
<1>1. \A kinds : InRange(kinds)' = InRange(kinds)
  BY DEF InRange, Of, TablesGrow, TypeInv, TypeOK, Positions
<1>2. ASSUME NEW i \in Positions, log[i].kind \in AirdropKinds, Stored(i)
      PROVE  Stored(i)'
  BY <1>2, StoredStays
<1>3. ASSUME NEW kinds \in SUBSET AirdropKinds, NEW i \in InRange(kinds)
      PROVE  i \in Positions /\ log[i].kind \in AirdropKinds
  BY DEF InRange, Of
<1>4. Passed({"totals", "admin"})' => InRange({"claim"})' \subseteq claims'
  BY <1>1 DEF SavedInv, Passed, TablesGrow
<1>5. Passed({"admin"})' => \A i \in InRange({"total"})' : Stored(i)'
  <2> SUFFICES ASSUME Passed({"admin"}), NEW i \in InRange({"total"}) PROVE Stored(i)'
    BY <1>1 DEF Passed
  <2>1. Stored(i) /\ {"total"} \in SUBSET AirdropKinds
    BY DEF SavedInv, AirdropKinds
  <2>2. QED
    BY <1>2, <1>3, <2>1
<1>6. Passed({})' /\ ~gap' => \A i \in InRange({"created", "activated"})' : Stored(i)'
  <2> SUFFICES ASSUME Passed({}), ~gap, NEW i \in InRange({"created", "activated"})
               PROVE  Stored(i)'
    BY <1>1 DEF Passed, gap
  <2>1. Stored(i) /\ {"created", "activated"} \in SUBSET AirdropKinds
    BY DEF SavedInv, AirdropKinds
  <2>2. QED
    BY <1>2, <1>3, <2>1
<1>7. QED
  BY <1>4, <1>5, <1>6 DEF SavedInv

\* A stage that commits, or has nothing to do, passes on what is stored.
LEMMA SavedGrows ==
  ASSUME TypeInv, TypeInv', TablesGrow, SavedInv, pc \in Stages, pc' = After(pc),
         UNCHANGED <<log, lastBlockNum, targetBlockNum, success, passedOver>>,
         \A i \in InRange(KindsOf(pc)) : (pc = "admin" => ~gap) => Stored(i)'
  PROVE  SavedInv'
<1>1. \A kinds : InRange(kinds)' = InRange(kinds)
  BY DEF InRange, Of, Positions
<1>2. ASSUME NEW i \in InRange({"total"}), Stored(i)
      PROVE  Stored(i)'
  BY <1>2, StoredStays DEF InRange, Of, AirdropKinds
<1>3. CASE pc = "claims"
  <2>1. pc' = "totals" /\ \A i \in InRange({"claim"}) : Stored(i)'
    BY <1>3 DEF After, KindsOf
  <2>2. \A i \in InRange({"claim"}) : i \in claims'
    BY <2>1 DEF Stored, InRange, Of
  <2>3. QED
    BY <1>1, <2>1, <2>2 DEF SavedInv, Passed
<1>4. CASE pc = "totals"
  <2>1. pc' = "admin" /\ \A i \in InRange({"total"}) : Stored(i)'
    BY <1>4 DEF After, KindsOf
  <2>2. InRange({"claim"}) \subseteq claims'
    BY <1>4 DEF SavedInv, Passed, TablesGrow
  <2>3. QED
    BY <1>1, <2>1, <2>2 DEF SavedInv, Passed
<1>5. CASE pc = "admin"
  <2>1. pc' = "end" /\ (~gap => \A i \in InRange({"created", "activated"}) : Stored(i)')
    BY <1>5 DEF After, KindsOf
  <2>2. InRange({"claim"}) \subseteq claims'
    BY <1>5 DEF SavedInv, Passed, TablesGrow
  <2>3. \A i \in InRange({"total"}) : Stored(i)'
    BY <1>2, <1>5 DEF SavedInv, Passed
  <2>4. QED
    BY <1>1, <2>1, <2>2, <2>3 DEF SavedInv, Passed, gap
<1>6. QED
  BY <1>3, <1>4, <1>5 DEF Stages

LEMMA SavedStep ==
  ASSUME TypeInv, TypeInv', TablesGrow, CampaignInv, BehindInv, SavedInv, [Next]_vars
  PROVE  SavedInv'
<1>1. CASE Contract
  <2>1. PICK e \in Event : Emit(e) /\ (e.kind = "activated" => Seen("created", e.airdrop))
    BY <1>1, ContractEmits
  <2>2. Emit(e)
    BY <2>1
  <2>3. UNCHANGED <<pc, lastBlockNum, targetBlockNum, success, passedOver>>
    BY <2>2 DEF Emit, pass
  <2>4. QED
    BY <2>3, SavedKept
<1>2. CASE Boot \/ Crash \/ BeginPass \/ PassUnread \/ FinishPass \/ RetryPass \/ FinishFails
  <2>1. pc' \notin {"totals", "admin", "end"}
    BY <1>2 DEF Boot, Crash, BeginPass, PassUnread, FinishPass, RetryPass, FinishFails
  <2>2. QED
    BY <2>1 DEF SavedInv, Passed
<1>3. CASE CommitUnacknowledged \/ StageFails
  <2>1. pc' = "end" /\ ~success'
    BY <1>3 DEF CommitUnacknowledged, StageFails, Return
  <2>2. QED
    BY <2>1 DEF SavedInv, Passed
<1>4. CASE SkipStage
  <2>1. InRange(KindsOf(pc)) = {}
    BY <1>4, WorkIsInRange DEF SkipStage, TypeInv
  <2>2. pc \in Stages /\ pc' = After(pc) /\ UNCHANGED <<log, lastBlockNum, targetBlockNum,
        success, passedOver>>
    BY <1>4 DEF SkipStage, pass
  <2>3. QED
    BY <2>1, <2>2, SavedGrows
<1>5. CASE WriteHeight
  BY <1>5, SavedKept DEF WriteHeight
<1>6. CASE CommitStage
  <2>1. /\ SaveRows /\ pc \in Stages /\ pc' = After(pc)
        /\ UNCHANGED <<log, lastBlockNum, targetBlockNum, success, passedOver>>
    BY <1>6 DEF CommitStage, SaveRows
  <2>2. \A i \in InRange(KindsOf(pc)) : (pc = "admin" => ~gap) => Stored(i)'
    BY <2>1, StageStored
  <2>3. QED
    BY <2>1, <2>2, SavedGrows
<1>7. CASE Api
  BY <1>7, SavedKept, ApiReadsOnly
<1>8. CASE UNCHANGED vars
  BY <1>8, SavedKept DEF vars, pass
<1>9. QED
  BY <1>1, <1>2, <1>3, <1>4, <1>5, <1>6, <1>7, <1>8 DEF Next, Listener

LEMMA BehindStep ==
  ASSUME TypeInv, TypeInv', TablesGrow, SavedInv, BehindInv, [Next]_vars
  PROVE  BehindInv'
<1>1. ASSUME NEW i \in Of(AirdropKinds, Positions), Stored(i)
      PROVE  Stored(i)'
  BY <1>1, StoredStays DEF Of
<1>0. claims \subseteq claims' /\ Position \in Nat /\ Position <= Len(log) + 1 /\ Len(log) \in Nat
  BY DEF TablesGrow, Position, TypeInv, TypeOK
<1>2. ASSUME passedOver' = passedOver, Position' = Position,
             Len(log') >= Len(log), \A i \in Positions : log'[i] = log[i]
      PROVE  BehindInv'
  <2>1. ASSUME NEW kinds, NEW i \in Of(kinds, 0..(Position - 1))'
        PROVE  i \in Of(kinds, 0..(Position - 1))
    <3>1. i \in 0..(Position - 1) /\ i \in Positions' /\ log'[i].kind \in kinds
      BY <1>2, <2>1 DEF Of
    <3>2. i \in Positions
      BY <1>0, <3>1 DEF Positions
    <3>3. QED
      BY <1>2, <3>1, <3>2 DEF Of
  <2>2. ASSUME ~gap', NEW i \in Of(AirdropKinds, 0..(Position - 1))'
        PROVE  Stored(i)'
    <3>1. ~gap /\ i \in Of(AirdropKinds, 0..(Position - 1)) /\ i \in Of(AirdropKinds, Positions)
      BY <1>2, <2>1, <2>2 DEF gap, Of
    <3>2. QED
      BY <1>1, <3>1 DEF BehindInv
  <2>3. ASSUME NEW i \in Of({"claim"}, 0..(Position - 1))'
        PROVE  i \in claims' \cup passedOver'
    BY <1>0, <1>2, <2>1, <2>3 DEF BehindInv
  <2>4. QED
    BY <2>2, <2>3 DEF BehindInv
\* The position moves past events that are stored or on record as passed over.
<1>3. ASSUME log' = log, NEW n \in Nat, n = Position', passedOver \subseteq passedOver',
             \A i \in Of(AirdropKinds, Position..(n - 1)) :
               ~gap' \/ log[i].kind = "claim" => Stored(i) \/ Stored(i)' \/ i \in passedOver'
      PROVE  BehindInv'
  <2>1. ASSUME NEW i \in Of(AirdropKinds, 0..(n - 1))
        PROVE  /\ i \in Of(AirdropKinds, Positions)
               /\ i \in Of(AirdropKinds, 0..(Position - 1)) \/ i \in Of(AirdropKinds, Position..(n - 1))
    <3>1. i \in 0..(n - 1) /\ i \in Positions /\ log[i].kind \in AirdropKinds /\ i \in Nat
      BY DEF Of, Positions
    <3>2. CASE i < Position
      BY <1>0, <3>1, <3>2 DEF Of
    <3>3. CASE i >= Position
      BY <1>0, <3>1, <3>3 DEF Of
    <3>4. QED
      BY <1>0, <3>1, <3>2, <3>3
  <2>2. ASSUME ~gap', NEW i \in Of(AirdropKinds, 0..(n - 1))
        PROVE  Stored(i)'
    <3>1. ~gap /\ i \notin passedOver'
      BY <1>3, <2>2 DEF gap
    <3>2. Stored(i) \/ Stored(i)'
      BY <1>3, <2>1, <2>2, <3>1 DEF BehindInv
    <3>3. QED
      BY <1>1, <2>1, <2>2, <3>2
  <2>3. ASSUME NEW i \in Of({"claim"}, 0..(n - 1))
        PROVE  i \in claims' \cup passedOver'
    <3>1. i \in Of(AirdropKinds, 0..(n - 1)) /\ log[i].kind = "claim" /\ log'[i].kind = "claim"
      BY <1>3, <2>3 DEF Of, AirdropKinds
    <3>2. CASE i \in Of(AirdropKinds, 0..(Position - 1))
      <4>1. i \in Of({"claim"}, 0..(Position - 1))
        BY <3>1, <3>2 DEF Of
      <4>2. QED
        BY <1>0, <1>3, <4>1 DEF BehindInv
    <3>3. CASE i \in Of(AirdropKinds, Position..(n - 1))
      <4>1. Stored(i) \/ Stored(i)' \/ i \in passedOver'
        BY <1>3, <3>1, <3>3
      <4>2. QED
        BY <1>0, <3>1, <4>1 DEF Stored
    <3>4. QED
      BY <2>1, <3>1, <3>2, <3>3
  <2>4. \A S, kinds : Of(kinds, S)' = Of(kinds, S)
    BY <1>3 DEF Of, Positions
  <2>5. QED
    BY <1>3, <2>2, <2>3, <2>4 DEF BehindInv
<1>4. CASE Contract
  <2>1. PICK e \in Event : Emit(e) /\ (e.kind = "activated" => Seen("created", e.airdrop))
    BY <1>4, ContractEmits
  <2>2. Emit(e)
    BY <2>1
  <2>3. passedOver' = passedOver /\ Position' = Position
    BY <2>2 DEF Emit, Position
  <2>4. Len(log') = Len(log) + 1 /\ Len(log) \in Nat /\ \A i \in Positions : log'[i] = log[i]
    BY <2>2, EmitExtends DEF TypeInv, TypeOK
  <2>5. QED
    BY <1>2, <2>3, <2>4
<1>5. ASSUME UNCHANGED <<log, passedOver, pc, lastBlockNum, height>>
      PROVE  BehindInv'
  BY <1>2, <1>5 DEF Position, TypeInv, TypeOK
<1>6. CASE Boot
  BY <1>2, <1>6 DEF Boot, Position, TypeInv, TypeOK
<1>7. CASE BeginPass \/ SkipStage \/ WriteHeight \/ CommitStage \/ CommitUnacknowledged
           \/ StageFails \/ RetryPass \/ FinishFails
  <2>1. UNCHANGED <<log, passedOver, lastBlockNum>> /\ pc # "down" /\ pc' # "down"
    BY <1>7 DEF BeginPass, SkipStage, WriteHeight, CommitStage, CommitUnacknowledged, StageFails,
      RetryPass, FinishFails, Return, SaveRows, Stages, After, pass
  <2>2. QED
    BY <1>2, <2>1 DEF Position, TypeInv, TypeOK
<1>8. CASE Crash
  <2>1. /\ log' = log /\ pc # "down" /\ pc' = "down" /\ height' = height
        /\ passedOver' = passedOver \cup Unstored(lastBlockNum..(height - 1))
    BY <1>8 DEF Crash
  <2>2. \A i \in Of(AirdropKinds, lastBlockNum..(height - 1)) : Stored(i) \/ i \in passedOver'
    BY <2>1 DEF Unstored
  <2>3. height \in Nat /\ height = Position' /\ Position = lastBlockNum
    BY <2>1 DEF Position, TypeInv, TypeOK
  <2>4. QED
    BY <1>3, <2>1, <2>2, <2>3
<1>9. CASE PassUnread
  <2>1. /\ log' = log /\ pc = "idle" /\ pc' = pc /\ lastBlockNum' = Target + 1
        /\ passedOver' = passedOver \cup Unstored(lastBlockNum..Target)
    BY <1>9 DEF PassUnread
  <2>2. Target \in Nat
    BY <1>9, TargetFits DEF PassUnread
  <2>3. \A i \in Of(AirdropKinds, lastBlockNum..Target) : Stored(i) \/ i \in passedOver'
    BY <2>1 DEF Unstored
  <2>4. Target + 1 \in Nat /\ Target + 1 = Position' /\ Position = lastBlockNum
        /\ (Target + 1) - 1 = Target
    BY <2>1, <2>2 DEF Position
  <2>5. QED
    BY <1>3, <2>1, <2>3, <2>4
<1>10. CASE FinishPass
  <2>1. /\ pc = "end" /\ success /\ pc' = "idle" /\ lastBlockNum' = targetBlockNum + 1
        /\ log' = log /\ passedOver' = passedOver
    BY <1>10 DEF FinishPass
  <2>2. \A i \in Of(AirdropKinds, lastBlockNum..targetBlockNum) :
          ~gap' \/ log[i].kind = "claim" => Stored(i)
    <3> SUFFICES ASSUME NEW i \in Of(AirdropKinds, lastBlockNum..targetBlockNum),
                        ~gap \/ log[i].kind = "claim"
                 PROVE  Stored(i)
      BY <2>1 DEF gap
    <3>1. i \in InRange({"claim"}) \/ i \in InRange({"total"}) \/ i \in InRange({"created",
          "activated"})
      BY DEF Of, InRange, AirdropKinds
    <3>2. CASE i \in InRange({"claim"})
      BY <2>1, <3>2 DEF SavedInv, Passed, Stored, InRange, Of
    <3>3. CASE i \in InRange({"total"}) \/ i \in InRange({"created", "activated"})
      <4>1. ~gap
        BY <3>3 DEF InRange, Of
      <4>2. QED
        BY <2>1, <3>3, <4>1 DEF SavedInv, Passed
    <3>4. QED
      BY <3>1, <3>2, <3>3
  <2>3. /\ targetBlockNum + 1 \in Nat /\ targetBlockNum + 1 = Position' /\ Position = lastBlockNum
        /\ (targetBlockNum + 1) - 1 = targetBlockNum
    BY <2>1 DEF Position, TypeInv, TypeOK
  <2>4. QED
    BY <1>3, <2>1, <2>2, <2>3
<1>11. CASE Api
  BY <1>5, <1>11, ApiReadsOnly
<1>12. CASE UNCHANGED vars
  BY <1>5, <1>12 DEF vars, pass
<1>13. QED
  BY <1>4, <1>6, <1>7, <1>8, <1>9, <1>10, <1>11, <1>12 DEF Next, Listener

\* A total that a transaction writes is one of the range of the pass, whose claims
\* are stored by then, and so are those before the range.
LEMMA ClaimsStep ==
  ASSUME TypeInv, TypeInv', TablesGrow, SavedInv, BehindInv, ClaimsBeforeTotals, [Next]_vars
  PROVE  ClaimsBeforeTotals'
<1>1. passedOver \subseteq passedOver'
  BY ApiReadsOnly DEF Next, Contract, Create, Activate, SetTotal, Claim, OtherBlock, Emit,
    Listener, Boot, Crash, BeginPass, PassUnread, SkipStage, WriteHeight, CommitStage,
    CommitUnacknowledged, StageFails, FinishPass, RetryPass, FinishFails, vars
<1>2. source' = source \/ (pc = "totals" /\ ApplyTotals /\ open /\ log' = log)
  <2>1. CASE Contract
    BY <2>1 DEF Contract, Create, Activate, SetTotal, Claim, OtherBlock, Emit, tables
  <2>2. CASE Listener
    BY <2>2 DEF Listener, Boot, Crash, BeginPass, PassUnread, SkipStage, WriteHeight, CommitStage,
      CommitUnacknowledged, StageFails, FinishPass, RetryPass, FinishFails, tables, SaveRows,
      Stages, SaveClaims, SaveAdmin
  <2>3. CASE Api
    BY <2>3, ApiReadsOnly
  <2>4. CASE UNCHANGED vars
    BY <2>4 DEF vars, tables
  <2>5. QED
    BY <2>1, <2>2, <2>3, <2>4 DEF Next
<1>3. ASSUME NEW p \in Pairs, NEW n \in Nat, source'[p] = n,
             NEW i \in 1..n, i \in Positions', log'[i].kind = "claim",
             log'[i].airdrop = p[1], log'[i].user = p[2], i \notin passedOver'
      PROVE  i \in claims'
  <2>1. claims \subseteq claims' /\ i \in Nat /\ Len(log) \in Nat
    BY DEF TablesGrow, TypeInv, TypeOK
  <2>2. CASE source' = source
    <3>1. n = source[p] /\ n # 0
      BY <1>3, <2>2
    <3>2. n \in Positions
      BY <3>1 DEF TypeInv, SourceInv, About, Of
    <3>3. i \in Positions
      BY <2>1, <3>2 DEF Positions
    <3>4. log'[i] = log[i]
      BY <3>3 DEF TablesGrow
    <3>5. i \in About("claim", p[1], p[2], 1..source[p])
      BY <1>3, <3>1, <3>3, <3>4 DEF About, Of
    <3>6. p[1] \in Airdrops /\ p[2] \in Users /\ p = <<p[1], p[2]>>
      BY DEF Pairs
    <3>7. About("claim", p[1], p[2], 1..source[p[1], p[2]]) \ passedOver \subseteq claims
      BY <3>6 DEF ClaimsBeforeTotals
    <3>8. QED
      BY <1>1, <1>3, <2>1, <3>5, <3>6, <3>7
  <2>3. CASE pc = "totals" /\ ApplyTotals /\ open /\ log' = log /\ source'[p] # source[p]
    <3>1. n \in InRange({"total"})
      BY <1>3, <2>3, TotalsApplied DEF About, Of
    <3>2. i \in Positions /\ log[i].kind = "claim" /\ i <= targetBlockNum
      BY <1>3, <2>1, <2>3, <3>1 DEF InRange, Of, Positions, TypeInv, TypeOK
    <3>3. CASE i >= lastBlockNum
      <4>1. i \in InRange({"claim"})
        BY <2>1, <3>2, <3>3 DEF InRange, Of, TypeInv, TypeOK
      <4>2. QED
        BY <2>1, <2>3, <4>1 DEF SavedInv, Passed
    <3>4. CASE i < lastBlockNum
      <4>1. i \in Of({"claim"}, 0..(Position - 1))
        BY <2>1, <2>3, <3>2, <3>4 DEF Of, Position, TypeInv, TypeOK
      <4>2. QED
        BY <1>1, <1>3, <2>1, <4>1 DEF BehindInv
    <3>5. QED
      BY <2>1, <3>3, <3>4 DEF TypeInv, TypeOK
  <2>4. CASE source'[p] = source[p] /\ log' = log
    <3>1. n = source[p] /\ i \in Positions /\ log'[i] = log[i]
      BY <1>3, <2>4 DEF Positions
    <3>2. p[1] \in Airdrops /\ p[2] \in Users /\ p = <<p[1], p[2]>>
      BY DEF Pairs
    <3>3. i \in About("claim", p[1], p[2], 1..source[p])
      BY <1>3, <3>1 DEF About, Of
    <3>4. About("claim", p[1], p[2], 1..source[p[1], p[2]]) \ passedOver \subseteq claims
      BY <3>2 DEF ClaimsBeforeTotals
    <3>5. QED
      BY <1>1, <1>3, <2>1, <3>2, <3>3, <3>4
  <2>5. QED
    BY <1>2, <2>2, <2>3, <2>4
<1>4. \A q \in Pairs : source'[q] \in Nat
  <2>1. \A q \in Pairs : source'[q] \in {0} \cup Of({"total"}, Positions)'
    BY DEF TypeInv, TypeOK
  <2>2. log' \in Seq(Event)
    BY DEF TypeInv, TypeOK
  <2> HIDE DEF Event
  <2>3. QED
    BY <2>1, <2>2 DEF Of, Positions
<1>5. ASSUME NEW a \in Airdrops, NEW u \in Users,
             NEW i \in About("claim", a, u, 1..source[a, u])', i \notin passedOver'
      PROVE  i \in claims'
  <2> DEFINE p == <<a, u>>
  <2>1. p \in Pairs /\ p[1] = a /\ p[2] = u
    BY DEF Pairs
  <2>2. PICK n \in Nat : source'[p] = n
    <3> HIDE DEF p
    <3>1. QED
      BY <1>4, <2>1
  <2>3. /\ i \in 1..n /\ i \in Positions' /\ log'[i].kind = "claim"
        /\ log'[i].airdrop = a /\ log'[i].user = u
    BY <2>2 DEF About, Of
  <2>4. QED
    BY <1>3, <1>5, <2>1, <2>2, <2>3
<1>6. QED
  BY <1>5 DEF ClaimsBeforeTotals

-----------------------------------------------------------------------------
(***************************************************************************)
(* The contract's books, and the sums that the API answers with.           *)
(***************************************************************************)

\* SumOf is the sum of the amounts.
AmountSum(L, S) == MapThenSumSet(LAMBDA i : L[i].amount, S)

LEMMA AmountSumIs ==
  ASSUME NEW L, NEW S, IsFiniteSet(S), NEW F, \A i \in S : F[i] = L[i].amount
  PROVE  AmountSum(L, S) = Total(F, S)
<1> DEFINE G == CHOOSE h : h = [s \in SUBSET S |->
      IF s = {} THEN 0 ELSE L[CHOOSE x \in s : TRUE].amount + h[s \ {CHOOSE x \in s : TRUE}]]
<1>1. AmountSum(L, S) = G[S]
  BY DEF AmountSum, MapThenSumSet, MapThenFoldSet
<1> PICK g : g = G
  OBVIOUS
<1> PICK k : Summing(k, F, S)
  BY SummingExists
<1>2. \A s \in SUBSET S : s # {} => F[CHOOSE x \in s : TRUE] = L[CHOOSE x \in s : TRUE].amount
  BY ChosenIn DEF Chosen
<1> DEFINE Body(h) == [s \in SUBSET S |->
      IF s = {} THEN 0 ELSE L[CHOOSE x \in s : TRUE].amount + h[s \ {CHOOSE x \in s : TRUE}]]
<1>3. k = Body(k)
  BY <1>2 DEF Summing, Chosen
<1>4. g = CHOOSE h : h = Body(h)
  OBVIOUS
<1> HIDE DEF G, Body
<1>5. g = Body(g)
  BY <1>3, <1>4
<1>6. \A s \in SUBSET S :
        Body(g)[s] = IF s = {} THEN 0
                     ELSE F[CHOOSE x \in s : TRUE] + g[s \ {CHOOSE x \in s : TRUE}]
  BY <1>2 DEF Body
<1>7. Body(g) = [s \in SUBSET S |-> Body(g)[s]]
  BY DEF Body
<1>8. Summing(g, F, S)
  BY <1>5, <1>6, <1>7 DEF Summing, Chosen
<1>9. S \in SUBSET S
  OBVIOUS
<1>10. Total(F, S) = g[S]
  BY <1>8, <1>9, TotalIs
<1>11. QED
  BY <1>1, <1>10

LEMMA AmountsTyped ==
  ASSUME NEW L \in Seq(Event), NEW i \in 1..Len(L), L[i].kind \in {"claim", "total"}
  PROVE  L[i].amount \in Nat
<1>1. L[i] \in Event
  OBVIOUS
<1>2. CASE L[i] \in [kind : {"claim", "total"}, airdrop : Airdrops, user : Users,
                      amount : Amounts]
  BY <1>2
<1>3. CASE L[i] \in [kind : {"created", "activated"}, airdrop : Airdrops]
  BY <1>3
<1>4. CASE L[i] \in [kind : {"other"}]
  BY <1>4
<1>5. QED
  BY <1>1, <1>2, <1>3, <1>4 DEF Event

LEMMA SumsOfAmounts ==
  ASSUME TypeOK, NEW S \in SUBSET Positions
  PROVE  SumOf(S) = Total(AmountsOf(log), S)
<1>1. IsFiniteSet(S)
  <2>1. Len(log) \in Nat
    BY DEF TypeOK
  <2>2. IsFiniteSet(1..Len(log))
    BY <2>1, FS_Interval
  <2>3. QED
    BY <2>2, FS_Subset DEF Positions
<1>2. \A i \in S : AmountsOf(log)[i] = log[i].amount
  BY DEF AmountsOf, Positions
<1> PICK F : F = AmountsOf(log)
  OBVIOUS
<1>3. AmountSum(log, S) = Total(F, S)
  BY <1>1, <1>2, AmountSumIs
<1>4. QED
  BY <1>3 DEF SumOf, AmountSum

\* The operators of the specification are these books of the log.
LEMMA BooksAreKept ==
  ASSUME TypeOK, NEW a, NEW u, NEW n
  PROVE  /\ About("claim", a, u, 1..n) = EventsIn(log, "claim", a, u, n)
         /\ About("total", a, u, 1..n) = EventsIn(log, "total", a, u, n)
         /\ ClaimedAt(a, u, n) = Claimed(log, a, u, n)
         /\ TotalAt(a, u, n) = Allowed(log, a, u, n)
<1>1. /\ About("claim", a, u, 1..n) = EventsIn(log, "claim", a, u, n)
      /\ About("total", a, u, 1..n) = EventsIn(log, "total", a, u, n)
  BY DEF About, Of, Positions, EventsIn
<1>2. About("claim", a, u, 1..n) \in SUBSET Positions
  BY DEF About, Of
<1>3. ClaimedAt(a, u, n) = Claimed(log, a, u, n)
  BY <1>1, <1>2, SumsOfAmounts DEF ClaimedAt, Claimed
<1>4. TotalAt(a, u, n) = Allowed(log, a, u, n)
  BY <1>1 DEF TotalAt, Allowed
<1>5. QED
  BY <1>1, <1>3, <1>4

\* The log M extends L, which has m events, by one.
OneLonger(L, M, m) == Len(L) = m /\ Len(M) = m + 1 /\ \A i \in 1..m : M[i] = L[i]

\* Events in a log that extends another by one.
LEMMA EventsKept ==
  ASSUME NEW L, NEW M, NEW m \in Nat, OneLonger(L, M, m), NEW n \in 0..m, NEW kind, NEW a, NEW u
  PROVE  EventsIn(M, kind, a, u, n) = EventsIn(L, kind, a, u, n)
<1>1. (1..n) \cap (1..m) = (1..n) \cap (1..(m + 1))
  OBVIOUS
<1>2. QED
  BY <1>1 DEF EventsIn, OneLonger

LEMMA EventsAfter ==
  ASSUME NEW L, NEW M, NEW m \in Nat, OneLonger(L, M, m), NEW kind, NEW a, NEW u
  PROVE  EventsIn(M, kind, a, u, m + 1) =
           IF M[m + 1].kind = kind /\ M[m + 1].airdrop = a /\ M[m + 1].user = u
           THEN EventsIn(L, kind, a, u, m) \cup {m + 1} ELSE EventsIn(L, kind, a, u, m)
<1>1. (1..(m + 1)) = (1..m) \cup {m + 1} /\ m + 1 \notin 1..m
  OBVIOUS
<1>2. QED
  BY <1>1 DEF EventsIn, OneLonger

LEMMA FiniteEvents ==
  ASSUME NEW m \in Nat, NEW S, S \subseteq 1..m
  PROVE  IsFiniteSet(S)
<1>1. IsFiniteSet(1..m)
  BY FS_Interval
<1>2. QED
  BY <1>1, FS_Subset

LEMMA ClaimedExtended ==
  ASSUME NEW L, NEW M, NEW m \in Nat, OneLonger(L, M, m),
         NEW n \in 0..m, NEW a, NEW u
  PROVE  Claimed(M, a, u, n) = Claimed(L, a, u, n) /\ Allowed(M, a, u, n) = Allowed(L, a, u, n)
<1> PICK S : S = EventsIn(L, "claim", a, u, n)
  OBVIOUS
<1> PICK T : T = EventsIn(L, "total", a, u, n)
  OBVIOUS
<1>1. S = EventsIn(M, "claim", a, u, n) /\ T = EventsIn(M, "total", a, u, n)
  BY EventsKept
<1>2. S \subseteq 1..m /\ T \subseteq 1..m
  BY DEF EventsIn, OneLonger
<1>3. IsFiniteSet(S)
  BY <1>2, FiniteEvents
<1> PICK F : F = AmountsOf(L)
  OBVIOUS
<1> PICK G : G = AmountsOf(M)
  OBVIOUS
<1>4. \A i \in S : F[i] = G[i]
  BY <1>2 DEF AmountsOf, OneLonger
<1>5. Total(F, S) = Total(G, S)
  BY <1>3, <1>4, TotalSame
<1>6. Claimed(M, a, u, n) = Claimed(L, a, u, n)
  BY <1>1, <1>5 DEF Claimed
<1>7. CASE T # {}
  <2>1. Latest(T) \in 1..m
    BY <1>2, <1>7, LastIsLast
  <2>2. QED
    BY <1>1, <1>6, <2>1 DEF Allowed, OneLonger
<1>8. CASE T = {}
  BY <1>1, <1>6, <1>8 DEF Allowed
<1>9. QED
  BY <1>7, <1>8

\* What was claimed after a further event.
LEMMA ClaimedAfter ==
  ASSUME NEW L, NEW M, NEW m \in Nat, OneLonger(L, M, m), NEW a, NEW u,
         \A i \in EventsIn(M, "claim", a, u, m + 1) : M[i].amount \in Nat
  PROVE  Claimed(M, a, u, m + 1) =
           IF M[m + 1].kind = "claim" /\ M[m + 1].airdrop = a /\ M[m + 1].user = u
           THEN Claimed(L, a, u, m) + M[m + 1].amount ELSE Claimed(L, a, u, m)
<1>0. EventsIn(M, "claim", a, u, m + 1) =
        IF M[m + 1].kind = "claim" /\ M[m + 1].airdrop = a /\ M[m + 1].user = u
        THEN EventsIn(L, "claim", a, u, m) \cup {m + 1} ELSE EventsIn(L, "claim", a, u, m)
  BY EventsAfter
<1> PICK S : S = EventsIn(L, "claim", a, u, m)
  OBVIOUS
<1> PICK T : T = EventsIn(M, "claim", a, u, m + 1)
  OBVIOUS
<1> PICK G : G = AmountsOf(M)
  OBVIOUS
<1>1. /\ Claimed(M, a, u, m + 1) = Total(G, T) /\ Claimed(M, a, u, m) = Total(G, S)
      /\ Claimed(M, a, u, m) = Claimed(L, a, u, m)
  <2>1. Claimed(M, a, u, m) = Claimed(L, a, u, m)
    BY ClaimedExtended
  <2>2. m \in 0..m
    OBVIOUS
  <2>3. S = EventsIn(M, "claim", a, u, m)
    BY <2>2, EventsKept
  <2>4. QED
    BY <2>1, <2>3 DEF Claimed
<1>2. T = IF M[m + 1].kind = "claim" /\ M[m + 1].airdrop = a /\ M[m + 1].user = u
          THEN S \cup {m + 1} ELSE S
  BY <1>0
<1>3. S \subseteq 1..m /\ T \subseteq 1..(m + 1)
  BY DEF EventsIn, OneLonger
<1>4. IsFiniteSet(S)
  BY <1>3, FiniteEvents
<1>5. \A i \in T : G[i] = M[i].amount /\ G[i] \in Int
  BY <1>3 DEF AmountsOf, OneLonger
<1>6. CASE M[m + 1].kind = "claim" /\ M[m + 1].airdrop = a /\ M[m + 1].user = u
  <2>1. T = S \cup {m + 1} /\ m + 1 \notin S
    BY <1>2, <1>3, <1>6
  <2> PICK x : x = m + 1
    OBVIOUS
  <2>2. T = S \cup {x} /\ x \notin S /\ x \in T
    BY <2>1
  <2>3. Total(G, S \cup {x}) = Total(G, S) + G[x]
    BY <1>4, <1>5, <2>2, TotalAdd
  <2>4. G[x] = M[m + 1].amount
    BY <1>5, <2>2
  <2>5. QED
    BY <1>1, <1>6, <2>2, <2>3, <2>4
<1>7. CASE ~ (M[m + 1].kind = "claim" /\ M[m + 1].airdrop = a /\ M[m + 1].user = u)
  BY <1>1, <1>2, <1>7
<1>8. QED
  BY <1>6, <1>7

\* The total after a further event.
LEMMA AllowedAfter ==
  ASSUME NEW L, NEW M, NEW m \in Nat, OneLonger(L, M, m), NEW a, NEW u
  PROVE  Allowed(M, a, u, m + 1) =
           IF M[m + 1].kind = "total" /\ M[m + 1].airdrop = a /\ M[m + 1].user = u
           THEN M[m + 1].amount ELSE Allowed(L, a, u, m)
<1>0. EventsIn(M, "total", a, u, m + 1) =
        IF M[m + 1].kind = "total" /\ M[m + 1].airdrop = a /\ M[m + 1].user = u
        THEN EventsIn(L, "total", a, u, m) \cup {m + 1} ELSE EventsIn(L, "total", a, u, m)
  BY EventsAfter
<1> PICK S : S = EventsIn(L, "total", a, u, m)
  OBVIOUS
<1> PICK T : T = EventsIn(M, "total", a, u, m + 1)
  OBVIOUS
<1>1. T = IF M[m + 1].kind = "total" /\ M[m + 1].airdrop = a /\ M[m + 1].user = u
          THEN S \cup {m + 1} ELSE S
  BY <1>0
<1>2. S \subseteq 1..m /\ T \subseteq 1..(m + 1)
  BY DEF EventsIn, OneLonger
<1>3. CASE M[m + 1].kind = "total" /\ M[m + 1].airdrop = a /\ M[m + 1].user = u
  <2>1. m + 1 \in T /\ T # {}
    BY <1>1, <1>3
  <2> PICK l : l = Latest(T)
    OBVIOUS
  <2>2. l \in T /\ \A j \in T : j <= l
    BY <1>2, <2>1, LastIsLast
  <2>3. l = m + 1
    BY <1>2, <2>1, <2>2
  <2>4. QED
    BY <1>3, <2>1, <2>3 DEF Allowed
<1>4. CASE ~ (M[m + 1].kind = "total" /\ M[m + 1].airdrop = a /\ M[m + 1].user = u)
  <2>1. T = S
    BY <1>1, <1>4
  <2>2. CASE S = {}
    BY <1>4, <2>1, <2>2 DEF Allowed
  <2>3. CASE S # {}
    <3>1. Latest(S) \in 1..m
      BY <1>2, <2>3, LastIsLast
    <3>2. M[Latest(S)] = L[Latest(S)]
      BY <3>1 DEF OneLonger
    <3>3. QED
      BY <1>4, <2>1, <2>3, <3>2 DEF Allowed
  <2>4. QED
    BY <2>2, <2>3
<1>5. QED
  BY <1>3, <1>4

\* The books hold after an event that pays no more than the total, or sets no total below
\* what was paid, or is about another pair.
LEMMA BooksExtended ==
  ASSUME NEW L, NEW M, NEW m \in Nat, OneLonger(L, M, m), NEW a, NEW u,
         \A i \in EventsIn(M, "claim", a, u, m + 1) : M[i].amount \in Nat,
         NEW e, M[m + 1] = e, Claimed(L, a, u, m) <= Allowed(L, a, u, m),
         \/ e.kind \notin {"claim", "total"}
         \/ ~ (e.airdrop = a /\ e.user = u)
         \/ e.kind = "claim" /\ Claimed(L, a, u, m) + e.amount <= Allowed(L, a, u, m)
         \/ e.kind = "total" /\ Claimed(L, a, u, m) <= e.amount
  PROVE  Claimed(M, a, u, m + 1) <= Allowed(M, a, u, m + 1)
<1>1. Claimed(M, a, u, m + 1) =
        IF e.kind = "claim" /\ e.airdrop = a /\ e.user = u
        THEN Claimed(L, a, u, m) + e.amount ELSE Claimed(L, a, u, m)
  BY ClaimedAfter
<1>2. Allowed(M, a, u, m + 1) =
        IF e.kind = "total" /\ e.airdrop = a /\ e.user = u THEN e.amount ELSE Allowed(L, a, u, m)
  BY AllowedAfter
<1>3. QED
  BY <1>1, <1>2

\* A step of the contract is such an event.
LEMMA BooksAfterEmit ==
  ASSUME TypeOK, Contract, NEW L, L = log, NEW M \in Seq(Event), M = log', NEW m \in Nat,
         m = Len(L), OneLonger(L, M, m), BooksInv, NEW a \in Airdrops, NEW u \in Users
  PROVE  Claimed(M, a, u, m + 1) <= Allowed(M, a, u, m + 1)
<1>1. /\ ClaimedAt(a, u, m) = Claimed(L, a, u, m) /\ TotalAt(a, u, m) = Allowed(L, a, u, m)
      /\ Claimed(L, a, u, m) <= Allowed(L, a, u, m)
  BY BooksAreKept DEF BooksInv
<1>2. \A i \in EventsIn(M, "claim", a, u, m + 1) : M[i].amount \in Nat
  BY AmountsTyped DEF EventsIn
<1>3. \A e \in Event : Emit(e) => M[m + 1] = e
  BY EmitExtends
<1> PICK e : e = M[m + 1]
  OBVIOUS
<1> HIDE DEF Event
<1>4. ASSUME NEW b \in Airdrops, Create(b) \/ Activate(b)
      PROVE  e.kind \notin {"claim", "total"}
  <2>1. PICK k \in {"created", "activated"} : Emit([kind |-> k, airdrop |-> b])
    BY <1>4 DEF Create, Activate
  <2>2. [kind |-> k, airdrop |-> b] \in Event
    BY DEF Event
  <2>3. e = [kind |-> k, airdrop |-> b]
    BY <1>3, <2>1, <2>2
  <2>4. QED
    BY <2>3
<1>5. ASSUME OtherBlock
      PROVE  e.kind \notin {"claim", "total"}
  <2>1. [kind |-> "other"] \in Event
    BY DEF Event
  <2>2. e = [kind |-> "other"]
    BY <1>3, <1>5, <2>1 DEF OtherBlock
  <2>3. QED
    BY <2>2
<1>6. ASSUME NEW b \in Airdrops, NEW v \in Users, NEW amount \in Amounts, SetTotal(b, v, amount)
      PROVE  \/ ~ (e.airdrop = a /\ e.user = u)
             \/ e.kind = "total" /\ Claimed(L, a, u, m) <= e.amount
  <2>1. [kind |-> "total", airdrop |-> b, user |-> v, amount |-> amount] \in Event
    BY DEF Event
  <2>2. e = [kind |-> "total", airdrop |-> b, user |-> v, amount |-> amount]
    BY <1>3, <1>6, <2>1 DEF SetTotal
  <2>3. a = b /\ u = v => amount >= ClaimedAt(a, u, m)
    BY <1>6 DEF SetTotal
  <2>4. QED
    BY <1>1, <2>2, <2>3
<1>7. ASSUME NEW b \in Airdrops, NEW v \in Users, NEW amount \in Amounts, Claim(b, v, amount)
      PROVE  \/ ~ (e.airdrop = a /\ e.user = u)
             \/ e.kind = "claim" /\ Claimed(L, a, u, m) + e.amount <= Allowed(L, a, u, m)
  <2>1. [kind |-> "claim", airdrop |-> b, user |-> v, amount |-> amount] \in Event
    BY DEF Event
  <2>2. e = [kind |-> "claim", airdrop |-> b, user |-> v, amount |-> amount]
    BY <1>3, <1>7, <2>1 DEF Claim
  <2>3. a = b /\ u = v => ClaimedAt(a, u, m) + amount <= TotalAt(a, u, m)
    BY <1>7 DEF Claim
  <2>4. QED
    BY <1>1, <2>2, <2>3
<1>8. \/ e.kind \notin {"claim", "total"}
      \/ ~ (e.airdrop = a /\ e.user = u)
      \/ e.kind = "claim" /\ Claimed(L, a, u, m) + e.amount <= Allowed(L, a, u, m)
      \/ e.kind = "total" /\ Claimed(L, a, u, m) <= e.amount
  BY <1>4, <1>5, <1>6, <1>7 DEF Contract
<1>9. QED
  BY <1>1, <1>2, <1>8, BooksExtended

LEMMA BooksStep ==
  ASSUME TypeInv, TypeOK', BooksInv, [Next]_vars
  PROVE  BooksInv'
<1>1. CASE Contract
  <2> PICK L : L = log
    OBVIOUS
  <2> PICK M \in Seq(Event) : M = log'
    BY DEF TypeOK
  <2> PICK m \in Nat : m = Len(L)
    BY DEF TypeInv, TypeOK
  <2>1. PICK e \in Event : Emit(e)
    BY <1>1, ContractEmits
  <2>2. OneLonger(L, M, m)
    BY <2>1, EmitExtends DEF TypeInv, OneLonger, Positions
  <2>3. ASSUME NEW a \in Airdrops, NEW u \in Users, NEW n \in 0..Len(M)
        PROVE  Claimed(M, a, u, n) <= Allowed(M, a, u, n)
    <3>1. CASE n \in 0..m
      <4>1. Claimed(L, a, u, n) <= Allowed(L, a, u, n)
        BY <3>1 DEF BooksInv
      <4>2. QED
        BY <2>2, <3>1, <4>1, ClaimedExtended
    <3>2. CASE n = m + 1
      BY <1>1, <2>2, <3>2, BooksAfterEmit DEF TypeInv
    <3>3. QED
      BY <2>2, <3>1, <3>2 DEF OneLonger
  <2>4. QED
    BY <2>3 DEF BooksInv
<1>2. ASSUME log' = log
      PROVE  BooksInv'
  BY <1>2 DEF BooksInv
<1>3. CASE Listener
  BY <1>2, <1>3 DEF Listener, Boot, Crash, BeginPass, PassUnread, SkipStage, WriteHeight,
    CommitStage, CommitUnacknowledged, StageFails, FinishPass, RetryPass, FinishFails
<1>4. CASE Api
  BY <1>2, <1>4, ApiReadsOnly
<1>5. CASE UNCHANGED vars
  BY <1>2, <1>5 DEF vars
<1>6. QED
  BY <1>1, <1>3, <1>4, <1>5 DEF Next

LEMMA ReaderStep ==
  ASSUME TypeInv, TypeInv', TablesGrow, ReaderInv, [Next]_vars
  PROVE  ReaderInv'
<1>1. ASSUME NEW R, reader' = R,
             R # NoRequest =>
               \E u \in Users, A \in SUBSET Airdrops : \E s \in [A -> 0..MaxLog] :
                 /\ R = [user |-> u, scope |-> A, source |-> s, claimed |-> 0]
                 /\ \A a \in A : s[a] # 0 => /\ s[a] \in About("total", a, u, Positions)
                                             /\ s[a] <= source[<<a, u>>]
      PROVE  ReaderInv'
  <2> SUFFICES ASSUME R # NoRequest
               PROVE  \E u \in Users, A \in SUBSET Airdrops : \E s \in [A -> 0..MaxLog] :
                 /\ R = [user |-> u, scope |-> A, source |-> s, claimed |-> 0]
                 /\ \A a \in A : s[a] # 0 => /\ s[a] \in About("total", a, u, Positions)'
                                             /\ s[a] <= source'[<<a, u>>]
    BY <1>1 DEF ReaderInv
  <2>1. PICK u \in Users, A \in SUBSET Airdrops :
          \E s \in [A -> 0..MaxLog] :
            /\ R = [user |-> u, scope |-> A, source |-> s, claimed |-> 0]
            /\ \A a \in A : s[a] # 0 => /\ s[a] \in About("total", a, u, Positions)
                                        /\ s[a] <= source[<<a, u>>]
    BY <1>1
  <2>2. PICK s \in [A -> 0..MaxLog] :
          /\ R = [user |-> u, scope |-> A, source |-> s, claimed |-> 0]
          /\ \A a \in A : s[a] # 0 => /\ s[a] \in About("total", a, u, Positions)
                                      /\ s[a] <= source[<<a, u>>]
    BY <2>1
  <2>3. ASSUME NEW a \in A, s[a] # 0
        PROVE  s[a] \in About("total", a, u, Positions)' /\ s[a] <= source'[<<a, u>>]
    <3>1. s[a] \in About("total", a, u, Positions) /\ s[a] <= source[<<a, u>>] /\ s[a] \in Nat
      BY <2>2, <2>3
    <3>2. s[a] \in About("total", a, u, Positions)'
      BY <3>1 DEF TablesGrow, About, Of
    <3>3. PICK p \in Pairs : p = <<a, u>>
      BY DEF Pairs
    <3>4. source'[p] >= source[p] /\ source[p] \in Nat /\ source'[p] \in Nat
      <4>1. source'[p] >= source[p] /\ source[p] \in Nat
        BY DEF TablesGrow, TypeInv, TypeOK, Of, Positions
      <4>2. source'[p] \in {0} \cup Of({"total"}, Positions)'
        BY DEF TypeInv, TypeOK
      <4>3. log' \in Seq(Event)
        BY DEF TypeInv, TypeOK
      <4> HIDE DEF Event
      <4>4. QED
        BY <4>1, <4>2, <4>3 DEF Of, Positions
    <3>5. s[a] <= source[p]
      BY <3>1, <3>3
    <3>6. s[a] <= source'[p]
      BY <3>1, <3>4, <3>5
    <3>7. QED
      BY <3>2, <3>3, <3>6
  <2>4. QED
    BY <2>2, <2>3
<1>2. ASSUME reader' = reader
      PROVE  ReaderInv'
  BY <1>1, <1>2 DEF ReaderInv
<1>3. ASSUME NEW u \in Users, NEW A \in Scopes, Request(u, A)
      PROVE  ReaderInv'
  <2>1. A \in SUBSET Airdrops
    BY DEF Scopes, Items
  <2>2. \A a \in A : <<a, u>> \in Pairs
    BY <2>1 DEF Pairs
  <2> DEFINE r == Blank(u, A)
  <2>3. r.scope = A /\ r.user = u
    BY DEF Blank
  <2> DEFINE s == [a \in r.scope |-> source[a, r.user]]
  <2>4. \A a \in A : s[a] = source[<<a, u>>]
    <3> HIDE DEF r
    <3> SUFFICES ASSUME NEW a \in A PROVE s[a] = source[<<a, u>>]
      OBVIOUS
    <3>1. a \in r.scope
      BY <2>3
    <3>2. s[a] = source[a, r.user]
      BY <3>1, Zenon
    <3>3. QED
      BY <2>3, <3>2, Zenon
  <2>5. DOMAIN s = A /\ s = [a \in DOMAIN s |-> s[a]]
    BY <2>3
  <2> PICK f : f = s
    OBVIOUS
  <2>6. SumTotals(r) = [r EXCEPT !.source = f]
    <3> HIDE DEF r
    <3>1. QED
      BY DEF SumTotals
  <2> HIDE DEF s
  <2>7. reader' = [user |-> u, scope |-> A, source |-> f, claimed |-> 0]
    <3>1. QueryOrder[1] = "totals"
      BY DEF QueryOrder
    <3>2. reader' = Query(QueryOrder[1], r)
      BY <1>3 DEF Request
    <3> PICK z : z = [a \in A |-> 0]
      OBVIOUS
    <3>3. r = [user |-> u, scope |-> A, source |-> z, claimed |-> 0]
      BY DEF Blank
    <3> HIDE DEF r
    <3>4. Query("totals", r) = SumTotals(r)
      BY DEF Query
    <3>5. [r EXCEPT !.source = f] = [user |-> u, scope |-> A, source |-> f, claimed |-> 0]
      BY <3>3
    <3>6. QED
      BY <2>6, <3>1, <3>2, <3>4, <3>5
  <2>8. \A p \in Pairs : source[p] \in Nat /\ source[p] \in 0..MaxLog
    <3>1. \A p \in Pairs : source[p] \in {0} \cup Of({"total"}, Positions)
      BY DEF TypeInv, TypeOK
    <3>2. Len(log) \in Nat /\ Len(log) <= MaxLog
      BY DEF TypeInv, TypeOK
    <3>3. QED
      BY <3>1, <3>2 DEF Of, Positions
  <2>9. f \in [A -> 0..MaxLog]
    BY <2>2, <2>4, <2>5, <2>8
  <2>10. ASSUME NEW a \in A, f[a] # 0
         PROVE  f[a] \in About("total", a, u, Positions) /\ f[a] <= source[<<a, u>>]
    <3>1. PICK p \in Pairs : p = <<a, u>>
      BY <2>2
    <3>2. source[p] # 0 /\ f[a] = source[p] /\ p[1] = a /\ p[2] = u
      BY <3>1, <2>4, <2>10
    <3>3. source[p] \in About("total", p[1], p[2], Positions) /\ source[p] \in Nat
      BY <2>8, <3>1, <3>2 DEF TypeInv, SourceInv
    <3>4. QED
      BY <3>1, <3>2, <3>3
  <2>11. QED
    BY <1>1, <2>1, <2>7, <2>9, <2>10
<1>4. ASSUME NEW u \in Users, NEW A \in Scopes, RequestFails(u, A)
      PROVE  ReaderInv'
  <2>1. A \in SUBSET Airdrops
    BY DEF Scopes, Items
  <2> DEFINE s == [a \in A |-> 0]
  <2>2. s \in [A -> 0..MaxLog] /\ \A a \in A : s[a] = 0
    OBVIOUS
  <2>3. reader' = NoRequest \/ reader' = [user |-> u, scope |-> A, source |-> s, claimed |-> 0]
    BY <1>4 DEF RequestFails, Blank
  <2> HIDE DEF s
  <2>4. QED
    BY <1>1, <2>1, <2>2, <2>3
<1>5. CASE Reply \/ ReplyFails
  BY <1>1, <1>5 DEF Reply, ReplyFails
<1>6. CASE Contract
  BY <1>2, <1>6 DEF Contract, Create, Activate, SetTotal, Claim, OtherBlock, Emit
<1>7. CASE Listener
  BY <1>2, <1>7 DEF Listener, Boot, Crash, BeginPass, PassUnread, SkipStage, WriteHeight,
    CommitStage, CommitUnacknowledged, StageFails, FinishPass, RetryPass, FinishFails
<1>8. CASE UNCHANGED vars
  BY <1>2, <1>8 DEF vars
<1>9. QED
  BY <1>3, <1>4, <1>5, <1>6, <1>7, <1>8 DEF Next, Api

\* The two sums of the property, over the airdrops S of an answer for user u whose totals
\* were read from the events s.
PromisedSum(s, S) == MapThenSumSet(LAMBDA a : IF s[a] = 0 THEN 0 ELSE log[s[a]].amount, S)
OwedSum(u, s, S) == MapThenSumSet(LAMBDA a : TotalAt(a, u, s[a]) - ClaimedAt(a, u, s[a]), S)

LEMMA SumsOfAnswer ==
  PendingNeverOverstated <=>
    (reader # NoRequest /\ ~gap =>
       (IF PromisedSum(Answer.source, Answer.scope) > Answer.claimed
        THEN PromisedSum(Answer.source, Answer.scope) - Answer.claimed ELSE 0)
       <= OwedSum(Answer.user, Answer.source, Answer.scope))
BY DEF PendingNeverOverstated, Pending, PromisedSum, OwedSum

LEMMA PromisedSumIs ==
  ASSUME NEW s, NEW S, IsFiniteSet(S), NEW F,
         \A a \in S : F[a] = IF s[a] = 0 THEN 0 ELSE log[s[a]].amount
  PROVE  PromisedSum(s, S) = Total(F, S)
<1> DEFINE V(a) == IF s[a] = 0 THEN 0 ELSE log[s[a]].amount
<1> DEFINE Body(h) == [t \in SUBSET S |->
      IF t = {} THEN 0 ELSE V(CHOOSE x \in t : TRUE) + h[t \ {CHOOSE x \in t : TRUE}]]
<1> DEFINE G == CHOOSE h : h = Body(h)
<1>1. PromisedSum(s, S) = G[S]
  BY DEF PromisedSum, MapThenSumSet, MapThenFoldSet
<1> PICK g : g = G
  OBVIOUS
<1> HIDE DEF V
<1> PICK k : Summing(k, F, S)
  BY SummingExists
<1>2. \A t \in SUBSET S : t # {} => F[CHOOSE x \in t : TRUE] = V(CHOOSE x \in t : TRUE)
  BY ChosenIn DEF Chosen, V
<1>3. k = Body(k)
  BY <1>2 DEF Summing, Chosen
<1>4. g = CHOOSE h : h = Body(h)
  OBVIOUS
<1> HIDE DEF G, Body
<1>5. g = Body(g)
  BY <1>3, <1>4
<1>6. \A t \in SUBSET S :
        Body(g)[t] = IF t = {} THEN 0
                     ELSE F[CHOOSE x \in t : TRUE] + g[t \ {CHOOSE x \in t : TRUE}]
  BY <1>2 DEF Body
<1>7. Body(g) = [t \in SUBSET S |-> Body(g)[t]]
  BY DEF Body
<1>8. Summing(g, F, S)
  BY <1>5, <1>6, <1>7 DEF Summing, Chosen
<1>9. S \in SUBSET S
  OBVIOUS
<1>10. Total(F, S) = g[S]
  BY <1>8, <1>9, TotalIs
<1>11. QED
  BY <1>1, <1>10

LEMMA OwedSumIs ==
  ASSUME NEW u, NEW s, NEW S, IsFiniteSet(S), NEW F,
         \A a \in S : F[a] = TotalAt(a, u, s[a]) - ClaimedAt(a, u, s[a])
  PROVE  OwedSum(u, s, S) = Total(F, S)
<1> DEFINE V(a) == TotalAt(a, u, s[a]) - ClaimedAt(a, u, s[a])
<1> DEFINE Body(h) == [t \in SUBSET S |->
      IF t = {} THEN 0 ELSE V(CHOOSE x \in t : TRUE) + h[t \ {CHOOSE x \in t : TRUE}]]
<1> DEFINE G == CHOOSE h : h = Body(h)
<1>1. OwedSum(u, s, S) = G[S]
  BY DEF OwedSum, MapThenSumSet, MapThenFoldSet
<1> PICK g : g = G
  OBVIOUS
<1> HIDE DEF V
<1> PICK k : Summing(k, F, S)
  BY SummingExists
<1>2. \A t \in SUBSET S : t # {} => F[CHOOSE x \in t : TRUE] = V(CHOOSE x \in t : TRUE)
  BY ChosenIn DEF Chosen, V
<1>3. k = Body(k)
  BY <1>2 DEF Summing, Chosen
<1>4. g = CHOOSE h : h = Body(h)
  OBVIOUS
<1> HIDE DEF G, Body
<1>5. g = Body(g)
  BY <1>3, <1>4
<1>6. \A t \in SUBSET S :
        Body(g)[t] = IF t = {} THEN 0
                     ELSE F[CHOOSE x \in t : TRUE] + g[t \ {CHOOSE x \in t : TRUE}]
  BY <1>2 DEF Body
<1>7. Body(g) = [t \in SUBSET S |-> Body(g)[t]]
  BY DEF Body
<1>8. Summing(g, F, S)
  BY <1>5, <1>6, <1>7 DEF Summing, Chosen
<1>9. S \in SUBSET S
  OBVIOUS
<1>10. Total(F, S) = g[S]
  BY <1>8, <1>9, TotalIs
<1>11. QED
  BY <1>1, <1>10

\* The total that was read from a row is the one that held at its event.
LEMMA ReadTotal ==
  ASSUME TypeOK, NEW a, NEW u, NEW n \in Nat, n # 0 => n \in About("total", a, u, Positions)
  PROVE  TotalAt(a, u, n) = IF n = 0 THEN 0 ELSE log[n].amount
<1> PICK T : T = About("total", a, u, 1..n)
  OBVIOUS
<1>1. T \subseteq 1..n
  BY DEF About, Of
<1>2. CASE n = 0
  <2>1. T = {}
    BY <1>1, <1>2
  <2>2. QED
    BY <1>2, <2>1 DEF TotalAt
<1>3. CASE n # 0
  <2>1. n \in T
    BY <1>3 DEF About, Of
  <2>2. Latest(T) \in T /\ \A j \in T : j <= Latest(T)
    BY <1>1, <2>1, LastIsLast
  <2>3. Latest(T) = n
    BY <1>1, <2>1, <2>2
  <2>4. QED
    BY <1>3, <2>1, <2>3 DEF TotalAt
<1>4. QED
  BY <1>2, <1>3

\* The claims up to the events that the totals were read from are among those that the
\* second query adds up.
LEMMA ClaimsCovered ==
  ASSUME TypeInv, ClaimsBeforeTotals, ~gap, NEW u \in Users, NEW A \in SUBSET Airdrops,
         NEW s \in [A -> Nat], \A a \in A : s[a] # 0 => s[a] <= source[<<a, u>>],
         NEW K, \A a \in A : K[a] = ClaimedAt(a, u, s[a])
  PROVE  /\ Total(K, A) <= SumOf(UNION {About("claim", a, u, claims) : a \in A})
         /\ SumOf(UNION {About("claim", a, u, claims) : a \in A}) \in Nat
<1> PICK U : U = claims
  OBVIOUS
<1>1. U \in SUBSET Positions /\ \A i \in U : log[i].kind = "claim"
  BY DEF TypeInv, TypeOK, Of
<1> PICK F : F = AmountsOf(log)
  OBVIOUS
<1>2. IsFiniteSet(U) /\ IsFiniteSet(A)
  <2>1. Len(log) \in Nat
    BY DEF TypeInv, TypeOK
  <2>2. QED
    BY <1>1, <2>1, FiniteEvents, FS_Subset DEF Positions
<1>3. \A i \in U : F[i] \in Nat
  <2>1. log \in Seq(Event)
    BY DEF TypeInv, TypeOK
  <2>2. \A i \in U : log[i].amount \in Nat
    BY <1>1, <2>1, AmountsTyped DEF Positions
  <2>3. QED
    BY <1>1, <2>2 DEF AmountsOf, Positions
<1> PICK X : X = [a \in A |-> About("claim", a, u, 1..s[a])]
  OBVIOUS
<1>4. \A a \in A : X[a] \in SUBSET U
  <2> SUFFICES ASSUME NEW a \in A PROVE About("claim", a, u, 1..s[a]) \subseteq U
    OBVIOUS
  <2>1. CASE s[a] = 0
    BY <2>1 DEF About, Of
  <2>2. CASE s[a] # 0
    <3>1. PICK p \in Pairs : p = <<a, u>>
      BY DEF Pairs
    <3>2. source[p] \in Nat /\ s[a] <= source[p]
      BY <2>2, <3>1 DEF TypeInv, TypeOK, Of, Positions
    <3>3. About("claim", a, u, 1..source[p]) \subseteq U
      BY <3>1 DEF ClaimsBeforeTotals, gap
    <3>4. 1..s[a] \subseteq 1..source[p]
      BY <3>2
    <3>5. QED
      BY <3>3, <3>4 DEF About, Of
  <2>3. QED
    BY <2>1, <2>2
<1>5. \A a, b \in A : a # b => X[a] \cap X[b] = {}
  BY DEF About
<1>6. \A a \in A : K[a] = Total(F, X[a])
  <2> SUFFICES ASSUME NEW a \in A PROVE ClaimedAt(a, u, s[a]) = Total(F, X[a])
    OBVIOUS
  <2>1. X[a] \in SUBSET Positions /\ X[a] = About("claim", a, u, 1..s[a])
    BY <1>1, <1>4
  <2>2. QED
    BY <2>1, SumsOfAmounts DEF ClaimedAt, TypeInv
<1> PICK J : J = Joined(X, U, A)
  OBVIOUS
<1>7. Total(K, A) = Total(F, J)
  <2>1. \A i \in U : F[i] \in Int
    BY <1>3
  <2>2. QED
    BY <1>2, <1>4, <1>5, <1>6, <2>1, TotalParts
<1> PICK B : B = UNION {About("claim", a, u, claims) : a \in A}
  OBVIOUS
<1>8. B \in SUBSET U /\ J \in SUBSET B
  <2>1. B \in SUBSET U
    BY DEF About, Of
  <2>2. ASSUME NEW i \in J PROVE i \in B
    <3>1. PICK a \in A : i \in U /\ i \in About("claim", a, u, 1..s[a])
      BY DEF Joined
    <3>2. i \in About("claim", a, u, claims)
      BY <3>1 DEF About, Of
    <3>3. QED
      BY <3>2
  <2>3. QED
    BY <2>1, <2>2
<1>9. IsFiniteSet(B) /\ \A i \in B : F[i] \in Nat
  BY <1>2, <1>3, <1>8, FS_Subset
<1>10. Total(F, J) <= Total(F, B)
  BY <1>8, <1>9, TotalSubset
<1>11. SumOf(B) = Total(F, B)
  BY <1>1, <1>8, SumsOfAmounts DEF TypeInv
<1>12. Total(F, B) \in Nat
  BY <1>9, TotalNat
<1>13. QED
  BY <1>7, <1>10, <1>11, <1>12

LEMMA BooksTyped ==
  ASSUME TypeOK, NEW a, NEW u, NEW n \in Nat
  PROVE  ClaimedAt(a, u, n) \in Nat
<1> PICK S : S = About("claim", a, u, 1..n)
  OBVIOUS
<1> PICK F : F = AmountsOf(log)
  OBVIOUS
<1>1. S \in SUBSET Positions /\ S \subseteq 1..n /\ \A i \in S : log[i].kind = "claim"
  BY DEF About, Of
<1>2. IsFiniteSet(S)
  BY <1>1, FiniteEvents
<1>3. \A i \in S : F[i] \in Nat
  <2>1. log \in Seq(Event)
    BY DEF TypeOK
  <2>2. \A i \in S : log[i].amount \in Nat
    BY <1>1, <2>1, AmountsTyped DEF Positions
  <2>3. QED
    BY <1>1, <2>2 DEF AmountsOf, Positions
<1>4. Total(F, S) \in Nat
  BY <1>2, <1>3, TotalNat
<1>5. QED
  BY <1>1, <1>4, SumsOfAmounts DEF ClaimedAt

\* For each airdrop the answer counts what the contract still owed after the event of the
\* total, and takes away at least what had been claimed by then.
LEMMA PendingBounded ==
  ASSUME TypeInv, ClaimsBeforeTotals, BooksInv, ReaderInv
  PROVE  PendingNeverOverstated
<1> SUFFICES ASSUME reader # NoRequest, ~gap
             PROVE  (IF PromisedSum(Answer.source, Answer.scope) > Answer.claimed
                     THEN PromisedSum(Answer.source, Answer.scope) - Answer.claimed ELSE 0)
                    <= OwedSum(Answer.user, Answer.source, Answer.scope)
  BY SumsOfAnswer
<1>1. PICK u \in Users, A \in SUBSET Airdrops :
        \E s \in [A -> 0..MaxLog] :
          /\ reader = [user |-> u, scope |-> A, source |-> s, claimed |-> 0]
          /\ \A a \in A : s[a] # 0 => /\ s[a] \in About("total", a, u, Positions)
                                      /\ s[a] <= source[<<a, u>>]
  BY DEF ReaderInv
<1>2. PICK s \in [A -> 0..MaxLog] :
        /\ reader = [user |-> u, scope |-> A, source |-> s, claimed |-> 0]
        /\ \A a \in A : s[a] # 0 => /\ s[a] \in About("total", a, u, Positions)
                                    /\ s[a] <= source[<<a, u>>]
  BY <1>1
<1>0. s \in [A -> Nat] /\ \A a \in A : s[a] \in Nat
  BY <1>2
<1> PICK C : C = SumOf(UNION {About("claim", a, u, claims) : a \in A})
  OBVIOUS
<1>3. Answer.source = s /\ Answer.scope = A /\ Answer.user = u /\ Answer.claimed = C
  <2>1. QueryOrder[2] = "claims"
    BY DEF QueryOrder
  <2>2. Answer = SumClaims(reader)
    BY <2>1 DEF Answer, Query
  <2>3. reader.user = u /\ reader.scope = A
    BY <1>2
  <2>4. SumOf(UNION {About("claim", a, reader.user, claims) : a \in reader.scope}) = C
    BY <2>3
  <2>5. SumClaims(reader) = [reader EXCEPT !.claimed = C]
    BY <2>4 DEF SumClaims
  <2>6. QED
    BY <1>2, <2>2, <2>5
<1>4. IsFiniteSet(A)
  BY FS_Subset
<1> PICK T : T = [a \in A |-> TotalAt(a, u, s[a])]
  OBVIOUS
<1> PICK K : K = [a \in A |-> ClaimedAt(a, u, s[a])]
  OBVIOUS
<1> PICK R : R = [a \in A |-> TotalAt(a, u, s[a]) - ClaimedAt(a, u, s[a])]
  OBVIOUS
<1>5. \A a \in A : T[a] = IF s[a] = 0 THEN 0 ELSE log[s[a]].amount
  BY <1>0, <1>2, ReadTotal DEF TypeInv
<1>6. PromisedSum(s, A) = Total(T, A)
  BY <1>4, <1>5, PromisedSumIs
<1>7. OwedSum(u, s, A) = Total(R, A)
  BY <1>4, OwedSumIs
<1>8. \A a \in A : T[a] \in Nat /\ K[a] \in Nat /\ K[a] <= T[a]
  <2> SUFFICES ASSUME NEW a \in A PROVE T[a] \in Nat /\ K[a] \in Nat /\ K[a] <= T[a]
    OBVIOUS
  <2>1. s[a] \in 0..Len(log) /\ Len(log) \in Nat
    <3>1. Len(log) \in Nat
      BY DEF TypeInv, TypeOK
    <3>2. s[a] \in Nat /\ (s[a] # 0 => s[a] \in 1..Len(log))
      BY <1>0, <1>2 DEF About, Of, Positions
    <3>3. QED
      BY <3>1, <3>2
  <2>2. K[a] <= T[a]
    BY <2>1, BooksAreKept DEF BooksInv, TypeInv
  <2>3. K[a] \in Nat
    BY <2>1, BooksTyped DEF TypeInv
  <2>4. T[a] \in Nat
    <3>1. CASE s[a] = 0
      BY <1>5, <3>1
    <3>2. CASE s[a] # 0
      <4>1. s[a] \in 1..Len(log) /\ log[s[a]].kind = "total"
        BY <1>2, <3>2 DEF About, Of, Positions
      <4>2. log \in Seq(Event)
        BY DEF TypeInv, TypeOK
      <4>3. log[s[a]].amount \in Nat
        BY <4>1, <4>2, AmountsTyped
      <4>4. QED
        BY <1>5, <3>2, <4>3
    <3>3. QED
      BY <3>1, <3>2
  <2>5. QED
    BY <2>2, <2>3, <2>4
<1>9. \A a \in A : R[a] = T[a] - K[a] /\ R[a] \in Nat /\ T[a] \in Int /\ K[a] \in Int
  BY <1>8
<1>10. Total(R, A) = Total(T, A) - Total(K, A)
  BY <1>4, <1>9, TotalMinus
<1>11. Total(R, A) \in Nat /\ Total(T, A) \in Int /\ Total(K, A) \in Int
  BY <1>4, <1>9, TotalNat, TotalType
<1>12. Total(K, A) <= C /\ C \in Nat
  <2>1. \A a \in A : s[a] # 0 => s[a] <= source[<<a, u>>]
    BY <1>2
  <2>2. \A a \in A : K[a] = ClaimedAt(a, u, s[a])
    OBVIOUS
  <2>3. QED
    BY <1>0, <2>1, <2>2, ClaimsCovered
<1>13. QED
  BY <1>3, <1>6, <1>7, <1>10, <1>11, <1>12

-----------------------------------------------------------------------------
(***************************************************************************)
(* The theorems.                                                           *)
(***************************************************************************)
LEMMA InvInit ==
  ASSUME Init
  PROVE  Inv
<1>1. TypeInv
  BY TypeInit
<1>2. Positions = {}
  BY DEF Init, Positions
<1>3. CampaignInv
  <2>1. campaigns = [a \in Airdrops |-> IF a \in Older THEN "active" ELSE "none"]
    BY DEF Init
  <2>2. QED
    BY <1>2, <2>1 DEF CampaignInv, Of
<1>4. SavedInv /\ BehindInv
  BY <1>2 DEF Init, SavedInv, BehindInv, gap, Passed, Of, InRange
<1>5. ClaimsBeforeTotals
  BY <1>2 DEF ClaimsBeforeTotals, About, Of
<1>6. BooksInv /\ ReaderInv
  <2> SUFFICES ASSUME NEW a \in Airdrops, NEW u \in Users, NEW n \in 0..0
               PROVE  Claimed(log, a, u, n) <= Allowed(log, a, u, n)
    BY DEF Init, BooksInv, ReaderInv
  <2>1. EventsIn(log, "claim", a, u, n) = {} /\ EventsIn(log, "total", a, u, n) = {}
    BY DEF EventsIn
  <2>2. QED
    BY <2>1, TotalEmpty DEF Claimed, Allowed
<1>7. QED
  BY <1>1, <1>3, <1>4, <1>5, <1>6 DEF Inv

LEMMA InvStep ==
  ASSUME Inv, [Next]_vars
  PROVE  Inv'
<1>1. TypeInv /\ TypeInv' /\ TablesGrow
  BY TypeStep, StepsGrow DEF Inv
<1>2. CampaignInv'
  BY <1>1, CampaignStep DEF Inv
<1>3. SavedInv'
  BY <1>1, SavedStep DEF Inv
<1>4. BehindInv'
  BY <1>1, BehindStep DEF Inv
<1>5. ClaimsBeforeTotals'
  BY <1>1, ClaimsStep DEF Inv
<1>6. BooksInv'
  BY <1>1, BooksStep DEF Inv, TypeInv
<1>7. ReaderInv'
  BY <1>1, ReaderStep DEF Inv
<1>8. QED
  BY <1>1, <1>2, <1>3, <1>4, <1>5, <1>6, <1>7 DEF Inv

\* The inductive invariant: types, what the pass has saved of its range, what lies behind
\* the position, claims before totals, the contract's books and the request under way.
THEOREM Invariant == Spec => []Inv
<1>1. Init => Inv
  BY InvInit
<1>2. Inv /\ [Next]_vars => Inv'
  BY InvStep
<1>3. QED
  BY <1>1, <1>2, PTL DEF Spec

\* Types of the tables, of the pass and of the request under way.
THEOREM TypeCorrect == Spec => []TypeOK
<1>1. Inv => TypeOK
  BY DEF Inv, TypeInv
<1>2. QED
  BY <1>1, Invariant, PTL

\* No total is in the whitelist before the claims that precede it on the chain are in
\* the claims table, but for those that the listener passed over: a failed eth_getLogs, or
\* a crash between the block number's write and the commit.
THEOREM ClaimsPrecedeTotals == Spec => []ClaimsBeforeTotals
<1>1. Inv => ClaimsBeforeTotals
  BY DEF Inv
<1>2. QED
  BY <1>1, Invariant, PTL

\* The tables show every event behind lastBlockNum, unless one was passed over.
THEOREM TablesAreCurrent == Spec => []TablesCurrent
<1>1. Inv => TablesCurrent
  BY DEF Inv, BehindInv, TablesCurrent, Position, Unstored
<1>2. QED
  BY <1>1, Invariant, PTL

\* No step makes a row of the whitelist return to an older total.
THEOREM WhitelistOnlyAdvances == Spec => WhitelistNeverGoesBack
<1>1. Inv /\ [Next]_vars => [\A p \in Pairs : source'[p] >= source[p]]_vars
  BY StepsGrow DEF Inv, TablesGrow
<1>2. QED
  BY <1>1, Invariant, PTL DEF Spec, WhitelistNeverGoesBack

\* Two successful queries never promise more than the contract had left for the user after
\* the totals that were read, whatever the listener commits between them, unless it passed
\* over an event.
THEOREM PendingIsOwed == Spec => []PendingNeverOverstated
<1>1. Inv => PendingNeverOverstated
  BY PendingBounded DEF Inv
<1>2. QED
  BY <1>1, Invariant, PTL
=============================================================================
