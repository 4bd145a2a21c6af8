------------------------------ MODULE ScoreProofs ------------------------------
(***************************************************************************)
(* Theorems about Score, for every value of its constants: any rows, any   *)
(* number of overlapping passes, any scale of the stamps, any number of    *)
(* hours, operations, crashes and faults.                                  *)
(***************************************************************************)
EXTENDS Score, FiniteSetTheorems, TLAPS

USE DEF ScoreConstantsOK

\* A pass runs only in the process that scores, whose tables nobody else writes.
PassOK(p) ==
  \/ p = Off
  \/ /\ p.time \in 1..now /\ mode = "scoring"
     /\ \/ p = [pc |-> "read", time |-> p.time, todo |-> p.todo] /\ DOMAIN p.todo = {}
        \/ p = [pc |-> "rows", time |-> p.time, todo |-> p.todo]
        \/ /\ p = [pc |-> "write", time |-> p.time, todo |-> p.todo, key |-> p.key,
                   found |-> p.found]
           /\ p.key \in DOMAIN p.todo
     /\ DOMAIN p.todo \subseteq DOMAIN users
     /\ \A k \in DOMAIN p.todo : p.todo[k] \in Row

ProcessInv ==
  /\ now \in 0..MaxHours /\ lastRun \in 0..now
  /\ mode \in {"down", "indexing", "scoring"} /\ overlapped \in BOOLEAN
  /\ crashes \in 0..MaxCrashes /\ faults \in 0..MaxFaults /\ retries \in 0..MaxFaults

ChainInv ==
  /\ ops \in Seq([key : Keys, kind : Kinds, stamp : 0..MaxHours]) /\ indexed \in 0..Len(ops)
  /\ records \in Seq(Record)
  /\ Len(records) <= MaxRecords

UsersInv ==
  /\ DOMAIN users \subseteq Keys /\ users \in [DOMAIN users -> Row]
  /\ \A k \in DOMAIN users : users[k].jfTime <= now

PassesInv == DOMAIN passes = Slots /\ \A s \in Slots : PassOK(passes[s])

TypeInv == ProcessInv /\ ChainInv /\ UsersInv /\ PassesInv

\* The job has yet to score row k this hour.
Due(k) == /\ users[k].jfTime < lastRun \/ users[k].jfAmount = Zero
          /\ users[k].jfTime <= lastRun

\* Without overlap there is one pass at a time, at the hour cron fired last, and the
\* rows it has read and not yet written are still what the table holds.
OnePass ==
  /\ \A s, r \in Slots : passes[s] # Off /\ passes[r] # Off => s = r
  /\ \A s \in Slots : passes[s] # Off =>
       /\ passes[s].time = lastRun
       /\ passes[s].pc = "read" => \A k \in DOMAIN users : Due(k)
       /\ \A k \in DOMAIN passes[s].todo : passes[s].todo[k] = users[k] /\ Due(k)
       /\ passes[s].pc = "write" =>
            LET k == passes[s].key
            IN passes[s].found = Window(k, users[k].jfTime, lastRun)

\* What a row has been scored for: jf_amount holds records of the row up to jf_time,
\* all of them but the late ones, each once; an hour's points are credited with each
\* hour that jf_time advances.  A row whose jf_time is ahead of the job is new.
Scores(k) ==
  LET u == users[k]
  IN /\ u.jfTime > lastRun => u.jfAmount = Zero
     /\ \A i \in Ids :
          /\ u.jfAmount[i] <= 1
          /\ u.jfAmount[i] = 1 => i \in RecordsOf(k) /\ records[i].time <= u.jfTime
          /\ u.jf[i] > 0 => u.jfAmount[i] = 1
     /\ \A i \in RecordsOf(k) :
          /\ u.jf[i] > 0 => u.jf[i] <= u.jfTime - records[i].time
          /\ records[i].time <= u.jfTime /\ ~records[i].late => u.jfAmount[i] = 1

ScoresInv == \A k \in DOMAIN users : Scores(k)

\* The records of an operation: one when the listener has passed it, and one more for
\* every time that it was set back or did not advance.
Copies(o) == {i \in RecordIds : records[i].op = o}

CopiesInv ==
  /\ \A i \in RecordIds : records[i].op <= Len(ops)
  /\ \A o \in 1..Len(ops) :
       Cardinality(Copies(o)) <= crashes + retries + (IF o <= indexed THEN 1 ELSE 0)

\* A stake earns up to its withdrawal and no longer, unless the withdrawal is late.
Ends(k) ==
  \A i, w \in RecordsOf(k) :
    /\ records[i].kind = "Staked" /\ records[w].kind = "Withdrawn"
    /\ records[i].time <= records[w].time /\ ~records[w].late
    => users[k].jf[i] - users[k].jf[w] <= records[w].time - records[i].time

EndsInv == \A k \in DOMAIN users : Ends(k)

Inv == /\ TypeInv /\ TotalsMatchRecords /\ CopiesInv
       /\ ~overlapped => OnePass /\ ScoresInv /\ EndsInv

-----------------------------------------------------------------------------
(***************************************************************************)
(* Bags of records.                                                        *)
(***************************************************************************)
LEMMA BagsTyped ==
  /\ Zero \in [Ids -> Nat]
  /\ \A S : One(S) \in [Ids -> Nat]
  /\ \A a, b \in [Ids -> Nat] : a (+) b \in [Ids -> Nat]
<1>1. Zero \in [Ids -> Nat]
  BY DEF Zero
<1>2. \A S : One(S) \in [Ids -> Nat]
  BY DEF One
<1>3. \A a, b \in [Ids -> Nat] : a (+) b \in [Ids -> Nat]
  BY DEF (+)
<1>4. QED
  BY <1>1, <1>2, <1>3

\* What a bag says of a record.
LEMMA BagCounts ==
  ASSUME NEW i \in Ids
  PROVE  /\ Zero[i] = 0
         /\ \A S : One(S)[i] = IF i \in S THEN 1 ELSE 0
         /\ \A a, b : (a (+) b)[i] = a[i] + b[i]
BY DEF Zero, One, (+)

\* A time stamp is not later in the unit the code takes it for.
LEMMA StampFits ==
  ASSUME NEW stamp \in Nat
  PROVE  OperationTime(stamp) \in 0..stamp
<1> DEFINE q == stamp \div StampScale
<1>1. StampScale \in Nat /\ StampScale >= 1
  BY ScoreConstantsOK
<1>2. q \in Int /\ StampScale * q <= stamp /\ stamp < StampScale * (q + 1)
  BY <1>1
<1> HIDE DEF q
<1>3. q >= 0
  BY <1>1, <1>2
<1>4. q <= stamp
  BY <1>1, <1>2, <1>3
<1>5. QED
  BY <1>2, <1>3, <1>4 DEF OperationTime, q

-----------------------------------------------------------------------------
(***************************************************************************)
(* The listener stores a batch.  Names for what UpdateDbUserAmount defines *)
(* locally.                                                                *)
(***************************************************************************)
Batch(n)      == SubSeq(ops, indexed + 1, indexed + n)
KeysIn(n)     == {Batch(n)[i].key : i \in 1..n}
NewIds(n, k)  == {Len(records) + i : i \in {j \in 1..n : Batch(n)[j].key = k}}
IsLate(op)    == op.key \in DOMAIN users /\ OperationTime(op.stamp) <= users[op.key].jfTime
NewRecords(n) == [i \in 1..n |->
  [op |-> indexed + i, key |-> Batch(n)[i].key, kind |-> Batch(n)[i].kind,
   time |-> OperationTime(Batch(n)[i].stamp),
   late |-> Batch(n)[i].key \notin DOMAIN users \/ IsLate(Batch(n)[i])]]

LEMMA StoredBatch ==
  ASSUME NEW n, UpdateDbUserAmount(n)
  PROVE  /\ mode = "indexing" /\ indexed + n <= Len(ops) /\ Len(records) + n <= MaxRecords
         /\ records' = records \o NewRecords(n)
         /\ users' = [k \in DOMAIN users \cup KeysIn(n) |->
              IF k \in KeysIn(n) THEN Upsert(k, NewIds(n, k)) ELSE users[k]]
         /\ Advance(n)
         /\ UNCHANGED <<now, ops, mode, job, crashes, faults>>
BY DEF UpdateDbUserAmount, Batch, KeysIn, NewIds, IsLate, NewRecords

\* The operations of a batch and the records made of them.
LEMMA BatchFields ==
  ASSUME ChainInv, NEW n \in Nat \ {0}, indexed + n <= Len(ops)
  PROVE  /\ \A i \in 1..n : /\ Batch(n)[i].key \in Keys /\ Batch(n)[i].kind \in Kinds
                            /\ Batch(n)[i].stamp \in 0..MaxHours
         /\ NewRecords(n) \in Seq(Record)
         /\ Len(NewRecords(n)) = n
         /\ KeysIn(n) \subseteq Keys
<1> DEFINE Op == [key : Keys, kind : Kinds, stamp : 0..MaxHours]
           Rec == Record
<1>1. ops \in Seq(Op) /\ indexed \in Nat
  BY DEF ChainInv
<1>2. ASSUME NEW i \in 1..n
      PROVE  Batch(n)[i] \in Op
  <2> HIDE DEF Op
  <2>1. indexed + i \in 1..Len(ops)
    BY <1>1
  <2>2. Batch(n)[i] = ops[indexed + i]
    BY <1>1 DEF Batch
  <2>3. QED
    BY <1>1, <2>1, <2>2
<1>3. ASSUME NEW i \in 1..n
      PROVE  NewRecords(n)[i] \in Rec
  <2>1. /\ Batch(n)[i].key \in Keys /\ Batch(n)[i].kind \in Kinds
        /\ Batch(n)[i].stamp \in 0..MaxHours /\ indexed + i \in Nat \ {0}
    BY <1>1, <1>2
  <2>2. OperationTime(Batch(n)[i].stamp) \in 0..MaxHours
    <3> DEFINE stamp == Batch(n)[i].stamp
    <3> HIDE DEF stamp
    <3>1. stamp \in Nat /\ stamp <= MaxHours /\ MaxHours \in Nat
      BY <2>1, ScoreConstantsOK DEF stamp
    <3>2. OperationTime(stamp) \in 0..stamp
      BY <3>1, StampFits
    <3>3. OperationTime(stamp) \in 0..MaxHours
      BY <3>1, <3>2
    <3>4. QED
      BY <3>3 DEF stamp
  <2>3. (Batch(n)[i].key \notin DOMAIN users \/ IsLate(Batch(n)[i])) \in BOOLEAN
    BY DEF IsLate
  <2>4. QED
    BY <2>1, <2>2, <2>3 DEF NewRecords, Record
<1>4. NewRecords(n) = [i \in 1..n |-> NewRecords(n)[i]]
  BY DEF NewRecords
<1>5. NewRecords(n) \in Seq(Rec) /\ Len(NewRecords(n)) = n
  <2> DEFINE f == NewRecords(n)
  <2> HIDE DEF f, Rec
  <2>1. f = [i \in 1..n |-> f[i]] /\ \A i \in 1..n : f[i] \in Rec
    BY <1>3, <1>4 DEF f
  <2>2. f \in [1..n -> Rec]
    BY <2>1
  <2>3. f \in Seq(Rec) /\ Len(f) = n
    BY <2>2
  <2>4. QED
    BY <2>3 DEF f
<1>6. KeysIn(n) \subseteq Keys
  BY <1>2 DEF KeysIn
<1>7. QED
  BY <1>2, <1>5, <1>6

\* The records after the batch: the old ones stay, the new ones follow.
LEMMA RecordsAfterBatch ==
  ASSUME ChainInv, NEW n \in Nat \ {0}, indexed + n <= Len(ops), Len(records) + n <= MaxRecords,
         records' = records \o NewRecords(n)
  PROVE  /\ records' \in Seq(Record)
         /\ Len(records') = Len(records) + n
         /\ \A i \in RecordIds : records'[i] = records[i]
         /\ \A j \in 1..n : records'[Len(records) + j] = NewRecords(n)[j]
         /\ \A i \in RecordIds' : i \in RecordIds \/ \E j \in 1..n : i = Len(records) + j
<1> DEFINE Rec == Record
<1>1. records \in Seq(Rec) /\ NewRecords(n) \in Seq(Rec) /\ Len(NewRecords(n)) = n
  BY BatchFields DEF ChainInv
<1> DEFINE f == NewRecords(n)
<1>2. f \in Seq(Rec) /\ Len(f) = n /\ records' = records \o f
  BY <1>1
<1> HIDE DEF Rec, f
<1>3. /\ records' \in Seq(Rec) /\ Len(records') = Len(records) + n
      /\ \A i \in 1..Len(records) : records'[i] = records[i]
      /\ \A j \in 1..n : records'[Len(records) + j] = f[j]
  <2>1. records' \in Seq(Rec) /\ Len(records') = Len(records) + n
    <3>1. records \in Seq(Rec) /\ f \in Seq(Rec)
      BY <1>1, <1>2
    <3>2. records \o f \in Seq(Rec) /\ Len(records \o f) = Len(records) + Len(f)
      BY ONLY <3>1
    <3>3. QED
      BY <1>2, <3>2
  <2>2. \A i \in 1..Len(records) : records'[i] = records[i]
    BY <1>1, <1>2
  <2>3. \A j \in 1..n : records'[Len(records) + j] = f[j]
    BY <1>1, <1>2
  <2>4. QED
    BY <2>1, <2>2, <2>3
<1>4. Len(records) \in Nat
  BY <1>1
<1>5. \A i \in 1..(Len(records) + n) :
        i \in 1..Len(records) \/ \E j \in 1..n : i = Len(records) + j
  <2> TAKE i \in 1..(Len(records) + n)
  <2>1. CASE i <= Len(records)
    BY <2>1
  <2>2. CASE i > Len(records)
    <3>1. i - Len(records) \in 1..n /\ i = Len(records) + (i - Len(records))
      BY <1>4, <2>2
    <3>2. QED
      BY <3>1
  <2>3. QED
    BY <1>4, <2>1, <2>2
<1>6. QED
  BY <1>3, <1>5 DEF RecordIds, Rec, f

-----------------------------------------------------------------------------
(***************************************************************************)
(* Types.                                                                  *)
(***************************************************************************)
LEMMA TypeInit ==
  ASSUME Init
  PROVE  TypeInv
<1>1. ProcessInv
  <2>1. overlapped \in BOOLEAN /\ mode \in {"down", "indexing", "scoring"}
    BY DEF Init
  <2>2. now = 0 /\ lastRun = 0 /\ crashes = 0 /\ faults = 0 /\ retries = 0
    BY DEF Init
  <2>3. QED
    BY <2>1, <2>2, ScoreConstantsOK DEF ProcessInv
<1>2. ChainInv
  BY ScoreConstantsOK DEF Init, ChainInv
<1>3. UsersInv
  BY DEF Init, UsersInv
<1>4. PassesInv
  BY DEF Init, PassesInv, PassOK
<1>5. QED
  BY <1>1, <1>2, <1>3, <1>4 DEF TypeInv

\* The process, the clock and the bounds.
LEMMA ProcessStep ==
  ASSUME TypeInv, [Next]_vars
  PROVE  ProcessInv' /\ now' >= now /\ now' \in Nat
<1>1. /\ now \in Nat /\ now <= MaxHours /\ lastRun \in Nat /\ lastRun <= now
      /\ crashes \in Nat /\ crashes <= MaxCrashes /\ faults \in Nat /\ faults <= MaxFaults
      /\ retries \in Nat /\ retries <= MaxFaults
      /\ mode \in {"down", "indexing", "scoring"} /\ overlapped \in BOOLEAN
  BY ScoreConstantsOK DEF TypeInv, ProcessInv
<1>2. /\ mode' \in {"down", "indexing", "scoring"}
      /\ overlapped' \in BOOLEAN
  BY <1>1 DEF Next, vars, Hour, Operate, Boot, BootIndexing, BootScoring, Crash, Index,
    UpdateDbUserAmount, Pass, JobBegin, JobRead, JobWrite, JobQuery, JobFails, job
<1>3. /\ now' = now \/ (now < MaxHours /\ now' = now + 1)
      /\ lastRun' = lastRun \/ (now' = now /\ lastRun' = now)
  BY DEF Next, vars, Hour, Operate, Boot, BootIndexing, BootScoring, Crash, Index,
    UpdateDbUserAmount, Pass, JobBegin, JobRead, JobWrite, JobQuery, JobFails, job
<1>4. /\ crashes' = crashes \/ (crashes < MaxCrashes /\ crashes' = crashes + 1)
      /\ faults' = faults \/ (faults + retries < MaxFaults /\ faults' = faults + 1)
      /\ retries' = retries \/ (faults + retries < MaxFaults /\ retries' = retries + 1)
  BY DEF Next, Advance, vars, Hour, Operate, Boot, BootIndexing, BootScoring, Crash, Index,
    UpdateDbUserAmount, Pass, JobBegin, JobRead, JobWrite, JobQuery, JobFails, counters
<1>5. now' \in 0..MaxHours /\ now' >= now /\ lastRun' \in 0..now'
  BY <1>1, <1>3, ScoreConstantsOK
<1>6. crashes' \in 0..MaxCrashes /\ faults' \in 0..MaxFaults /\ retries' \in 0..MaxFaults
  BY <1>1, <1>4, ScoreConstantsOK
<1>7. now' \in Nat
  BY <1>1, <1>3
<1>8. QED
  BY <1>2, <1>5, <1>6, <1>7 DEF ProcessInv

LEMMA ChainStep ==
  ASSUME TypeInv, [Next]_vars
  PROVE  ChainInv'
<1>1. ChainInv
  BY DEF TypeInv
<1> DEFINE Op == [key : Keys, kind : Kinds, stamp : 0..MaxHours]
           Rec == Record
<1>2. /\ ops \in Seq(Op) /\ indexed \in Nat /\ indexed <= Len(ops)
      /\ records \in Seq(Rec) /\ Len(records) <= MaxRecords /\ Len(ops) \in Nat
  BY <1>1 DEF ChainInv
<1>3. ASSUME UNCHANGED <<ops, indexed, records>> PROVE ChainInv'
  BY <1>1, <1>3 DEF ChainInv
<1>4. ASSUME NEW k \in Keys, NEW kind \in Kinds, Operate(k, kind)
      PROVE  ChainInv'
  <2>1. [key |-> k, kind |-> kind, stamp |-> now] \in Op
    BY DEF TypeInv, ProcessInv
  <2>2. ops' = Append(ops, [key |-> k, kind |-> kind, stamp |-> now]) /\ UNCHANGED <<indexed, records>>
    BY <1>4 DEF Operate, tables
  <2>3. ops' \in Seq(Op) /\ Len(ops') = Len(ops) + 1
    <3> HIDE DEF Op
    <3>1. QED
      BY <1>2, <2>1, <2>2
  <2>4. indexed' \in 0..Len(ops')
    BY <1>2, <2>2, <2>3
  <2>5. QED
    BY <1>2, <2>2, <2>3, <2>4 DEF ChainInv
<1>5. CASE Crash
  <2>1. /\ UNCHANGED <<ops, records>>
        /\ indexed' \in {indexed} \cup (IF indexed > 0 THEN {indexed - 1} ELSE {})
    BY <1>5 DEF Crash, tables
  <2>2. indexed' \in 0..Len(ops)
    BY <1>2, <2>1
  <2>3. QED
    BY <1>2, <2>1, <2>2 DEF ChainInv
<1>6. ASSUME NEW n \in 1..MaxOps, UpdateDbUserAmount(n)
      PROVE  ChainInv'
  <2>1. /\ indexed + n <= Len(ops) /\ Len(records) + n <= MaxRecords
        /\ records' = records \o NewRecords(n) /\ ops' = ops
        /\ indexed' = indexed + n \/ indexed' = indexed
    BY <1>6, StoredBatch DEF Advance
  <2>2. n \in Nat \ {0}
    OBVIOUS
  <2>3. records' \in Seq(Rec) /\ Len(records') = Len(records) + n
    BY <1>1, <2>1, <2>2, RecordsAfterBatch
  <2> HIDE DEF Op, Rec
  <2>4. indexed' \in 0..Len(ops') /\ Len(records') <= MaxRecords
    BY <1>2, <2>1, <2>2, <2>3
  <2>5. QED
    BY <1>2, <2>1, <2>3, <2>4 DEF ChainInv, Op, Rec
<1>7. CASE Hour
  BY <1>3, <1>7 DEF Hour, chain, tables
<1>8. CASE Boot
  BY <1>3, <1>8 DEF Boot, BootIndexing, BootScoring, chain, tables
<1>9. ASSUME NEW s \in Slots, Pass(s) \/ JobFails(s)
      PROVE  ChainInv'
  BY <1>3, <1>9 DEF Pass, JobBegin, JobRead, JobWrite, JobQuery, JobFails, chain, tables
<1>10. CASE UNCHANGED vars
  BY <1>3, <1>10 DEF vars, chain, tables
<1>11. QED
  BY <1>4, <1>5, <1>6, <1>7, <1>8, <1>9, <1>10 DEF Next, Index

\* Only the listener and the job write rows, the one in the process that indexes, the
\* other in the process that scores.
LEMMA RowsWritten ==
  ASSUME [Next]_vars
  PROVE  \/ UNCHANGED tables
         \/ \E n \in 1..MaxOps : UpdateDbUserAmount(n)
         \/ \E s \in Slots : JobWrite(s)
BY DEF Next, vars, Hour, Operate, Boot, BootIndexing, BootScoring, Crash, Index, Pass, JobBegin,
  JobRead, JobQuery, JobFails

LEMMA ScoredRow ==
  ASSUME NEW row \in Row, NEW old \in Row, NEW found, NEW time \in 0..MaxHours
  PROVE  LET new == Scored(row, old, found, time)
         IN /\ new \in Row
            /\ new.total = row.total /\ new.jfTime = time
            /\ new.jf = old.jf (+) old.jfAmount
            /\ new.jfAmount = IF found = {} THEN row.jfAmount ELSE old.jfAmount (+) One(found)
<1> DEFINE jf == old.jf (+) old.jfAmount
           amount == old.jfAmount (+) One(found)
<1>1. jf \in [Ids -> Nat] /\ amount \in [Ids -> Nat]
  BY BagsTyped DEF Row
<1> HIDE DEF jf, amount
<1>2. CASE found = {}
  <2>1. Scored(row, old, found, time) = [row EXCEPT !.jf = jf, !.jfTime = time]
    BY <1>2 DEF Scored, jf
  <2>2. QED
    BY <1>1, <1>2, <2>1 DEF Row, jf
<1>3. CASE found # {}
  <2>1. Scored(row, old, found, time)
          = [row EXCEPT !.jf = jf, !.jfTime = time, !.jfAmount = amount]
    BY <1>3 DEF Scored, jf, amount
  <2>2. QED
    BY <1>1, <1>3, <2>1 DEF Row, jf, amount
<1>4. QED
  BY <1>2, <1>3

LEMMA UpsertedRow ==
  ASSUME TypeInv, NEW k, NEW ids
  PROVE  LET new == Upsert(k, ids)
         IN /\ new \in Row /\ new.jfTime <= now
            /\ k \in DOMAIN users =>
                 /\ new.total = users[k].total (+) One(ids)
                 /\ new.jf = users[k].jf /\ new.jfAmount = users[k].jfAmount
                 /\ new.jfTime = users[k].jfTime
            /\ k \notin DOMAIN users =>
                 /\ new.total = One(ids) /\ new.jf = Zero /\ new.jfAmount = Zero
                 /\ new.jfTime = now
<1>1. CASE k \in DOMAIN users
  <2>1. users[k] \in Row /\ users[k].jfTime <= now
    BY <1>1 DEF TypeInv, UsersInv
  <2> DEFINE total == users[k].total (+) One(ids)
  <2>2. total \in [Ids -> Nat]
    BY <2>1, BagsTyped DEF Row
  <2> HIDE DEF total
  <2>3. Upsert(k, ids) = [users[k] EXCEPT !.total = total]
    BY <1>1, <2>1 DEF Upsert, total, Row
  <2>4. QED
    BY <1>1, <2>1, <2>2, <2>3 DEF Row, total
<1>2. CASE k \notin DOMAIN users
  <2>1. Upsert(k, ids) = [total |-> One(ids), jfAmount |-> Zero, jf |-> Zero, jfTime |-> now]
    BY <1>2 DEF Upsert
  <2>2. One(ids) \in [Ids -> Nat] /\ Zero \in [Ids -> Nat]
    BY BagsTyped
  <2>3. now \in 0..MaxHours
    BY DEF TypeInv, ProcessInv
  <2>4. QED
    BY <1>2, <2>1, <2>2, <2>3 DEF Row
<1>3. QED
  BY <1>1, <1>2

\* What a pass writes.
LEMMA WrittenRow ==
  ASSUME TypeInv, NEW s \in Slots, JobWrite(s)
  PROVE  LET p == passes[s]
         IN /\ p.key \in DOMAIN p.todo /\ p.key \in DOMAIN users /\ mode = "scoring"
            /\ p.time \in 0..MaxHours /\ p.time <= now
            /\ p.todo[p.key] \in Row /\ users[p.key] \in Row
            /\ users' = [users EXCEPT ![p.key]
                           = Scored(users[p.key], p.todo[p.key], p.found, p.time)]
            /\ records' = records /\ lastRun' = lastRun /\ overlapped' = overlapped
            /\ passes' = [passes EXCEPT ![s] = Without(p, p.key)]
<1> DEFINE p == passes[s]
<1>1. p.pc = "write" /\ p # Off
  BY DEF JobWrite, Off
<1>2. PassOK(p)
  BY DEF TypeInv, PassesInv
<1>3. /\ p.key \in DOMAIN p.todo /\ p.time \in 1..now /\ mode = "scoring"
      /\ DOMAIN p.todo \subseteq DOMAIN users /\ \A k \in DOMAIN p.todo : p.todo[k] \in Row
  BY <1>1, <1>2 DEF PassOK
<1>4. users[p.key] \in Row
  BY <1>3 DEF TypeInv, UsersInv
<1>5. now \in Nat /\ now <= MaxHours
  BY DEF TypeInv, ProcessInv
<1>6. /\ users' = [users EXCEPT ![p.key] = Scored(users[p.key], p.todo[p.key], p.found, p.time)]
      /\ records' = records /\ lastRun' = lastRun /\ overlapped' = overlapped
      /\ passes' = [passes EXCEPT ![s] = Without(p, p.key)]
  BY <1>3 DEF JobWrite
<1>7. p.time \in 0..MaxHours /\ p.time <= now
  BY <1>3, <1>5, ScoreConstantsOK
<1>8. p.key \in DOMAIN users /\ p.todo[p.key] \in Row
  BY <1>3
<1> HIDE DEF p
<1>9. QED
  BY <1>3, <1>4, <1>6, <1>7, <1>8 DEF p

LEMMA UsersStep ==
  ASSUME TypeInv, [Next]_vars
  PROVE  UsersInv' /\ DOMAIN users \subseteq DOMAIN users'
<1>1. now' >= now /\ now' \in Nat /\ now \in Nat
  BY ProcessStep DEF TypeInv, ProcessInv
<1>2. /\ DOMAIN users \subseteq Keys /\ users \in [DOMAIN users -> Row]
      /\ \A k \in DOMAIN users : users[k].jfTime <= now /\ users[k].jfTime \in Nat
  BY DEF TypeInv, UsersInv, Row
<1>3. CASE UNCHANGED tables
  BY <1>1, <1>2, <1>3 DEF UsersInv, tables
<1>4. ASSUME NEW n \in 1..MaxOps, UpdateDbUserAmount(n)
      PROVE  UsersInv' /\ DOMAIN users \subseteq DOMAIN users'
  <2> DEFINE D == DOMAIN users \cup KeysIn(n)
             New(k) == IF k \in KeysIn(n) THEN Upsert(k, NewIds(n, k)) ELSE users[k]
  <2>1. users' = [k \in D |-> New(k)] /\ indexed + n <= Len(ops) /\ now' = now
    BY <1>4, StoredBatch
  <2>2. D \subseteq Keys
    BY <1>2, <2>1, BatchFields DEF TypeInv
  <2>3. \A k \in D : New(k) \in Row /\ New(k).jfTime <= now
    BY <1>2, UpsertedRow
  <2> HIDE DEF D, New
  <2>4. DOMAIN users' = D /\ \A k \in D : users'[k] = New(k)
    BY <2>1
  <2>5. users' \in [D -> Row]
    BY <2>1, <2>3
  <2>6. UsersInv'
    BY <2>1, <2>2, <2>3, <2>4, <2>5 DEF UsersInv
  <2>7. QED
    BY <2>4, <2>6 DEF D
<1>5. ASSUME NEW s \in Slots, JobWrite(s)
      PROVE  UsersInv' /\ DOMAIN users \subseteq DOMAIN users'
  <2> DEFINE p == passes[s]
             new == Scored(users[p.key], p.todo[p.key], p.found, p.time)
  <2>1. /\ p.key \in DOMAIN users /\ p.time \in 0..MaxHours /\ p.time <= now
        /\ p.todo[p.key] \in Row /\ users[p.key] \in Row
        /\ users' = [users EXCEPT ![p.key] = new]
    BY <1>5, WrittenRow
  <2>2. new \in Row /\ new.jfTime = p.time
    BY <2>1, ScoredRow
  <2>3. now' = now
    BY <1>5 DEF JobWrite
  <2> HIDE DEF new, p
  <2>4. QED
    BY <1>2, <2>1, <2>2, <2>3 DEF UsersInv
<1>6. QED
  BY <1>3, <1>4, <1>5, RowsWritten DEF tables

\* A pass stays a pass while others write rows and time goes on.
LEMMA PassKept ==
  ASSUME TypeInv, NEW p, PassOK(p), now' >= now, now' \in Nat, mode' = mode,
         DOMAIN users \subseteq DOMAIN users'
  PROVE  PassOK(p)'
<1>1. now \in Nat
  BY DEF TypeInv, ProcessInv
<1>2. PICK n \in Nat : now' = n
  OBVIOUS
<1>3. 1..now \subseteq 1..n
  BY <1>1, <1>2
<1>4. QED
  BY <1>2, <1>3 DEF PassOK

LEMMA WithoutOK ==
  ASSUME NEW p, PassOK(p), p # Off, NEW k \in DOMAIN p.todo
  PROVE  PassOK(Without(p, k))
<1>1. CASE DOMAIN p.todo = {k}
  BY <1>1 DEF Without, PassOK
<1>2. CASE DOMAIN p.todo # {k}
  <2> DEFINE todo == [j \in DOMAIN p.todo \ {k} |-> p.todo[j]]
             q == [pc |-> "rows", time |-> p.time, todo |-> todo]
  <2>1. Without(p, k) = q
    BY <1>2 DEF Without
  <2>2. /\ DOMAIN todo \subseteq DOMAIN p.todo
        /\ \A j \in DOMAIN todo : todo[j] = p.todo[j]
    OBVIOUS
  <2> HIDE DEF todo
  <2>3. q.time = p.time /\ q.todo = todo /\ q.pc = "rows"
    OBVIOUS
  <2>4. /\ p.time \in 1..now /\ mode = "scoring" /\ DOMAIN p.todo \subseteq DOMAIN users
        /\ \A j \in DOMAIN p.todo : p.todo[j] \in Row
    BY DEF PassOK
  <2>5. PassOK(q)
    BY <2>2, <2>3, <2>4 DEF PassOK
  <2>6. QED
    BY <2>1, <2>5
<1>3. QED
  BY <1>1, <1>2

LEMMA PassesStep ==
  ASSUME TypeInv, [Next]_vars
  PROVE  PassesInv'
<1>1. /\ now' >= now /\ now' \in Nat /\ now \in Nat /\ lastRun \in Nat
      /\ DOMAIN users \subseteq DOMAIN users'
  BY ProcessStep, UsersStep DEF TypeInv, ProcessInv
<1>2. DOMAIN passes = Slots /\ \A r \in Slots : PassOK(passes[r])
  BY DEF TypeInv, PassesInv
<1>3. ASSUME passes' = passes, mode' = mode
      PROVE  PassesInv'
  BY <1>1, <1>2, <1>3, PassKept DEF PassesInv
<1>4. ASSUME passes' = passes, mode # "scoring"
      PROVE  PassesInv'
  <2>1. \A r \in Slots : passes[r] = Off
    BY <1>2, <1>4 DEF PassOK
  <2>2. QED
    BY <1>2, <1>4, <2>1 DEF PassesInv, PassOK
<1>5. ASSUME NEW s \in Slots, NEW q, PassOK(q), passes' = [passes EXCEPT ![s] = q], mode' = mode
      PROVE  PassesInv'
  <2>1. \A r \in Slots : PassOK(IF r = s THEN q ELSE passes[r])
    BY <1>2, <1>5
  <2>2. PassOK(q)'
    BY <1>1, <1>5, PassKept
  <2>3. \A r \in Slots : PassOK(passes[r])'
    BY <1>1, <1>2, <1>5, PassKept
  <2>4. QED
    BY <1>2, <1>5, <2>2, <2>3 DEF PassesInv
<1>6. CASE Boot
  BY <1>4, <1>6 DEF Boot, BootIndexing, BootScoring, job
<1>7. CASE Crash
  BY <1>7 DEF Crash, PassesInv, PassOK
<1>8. CASE Hour \/ Index \/ UNCHANGED vars \/ \E k \in Keys, kind \in Kinds : Operate(k, kind)
  BY <1>3, <1>8 DEF Hour, Index, UpdateDbUserAmount, Operate, vars, job
<1>9. ASSUME NEW s \in Slots, JobBegin(s)
      PROVE  PassesInv'
  <2> DEFINE none == [k \in {} |-> Zero]
             q == [pc |-> "read", time |-> now, todo |-> none]
  <2>1. DOMAIN none = {}
    OBVIOUS
  <2>2. now \in 1..now /\ mode = "scoring" /\ mode' = mode /\ passes' = [passes EXCEPT ![s] = q]
    BY <1>1, <1>9 DEF JobBegin
  <2> HIDE DEF none
  <2>3. PassOK(q)
    BY <2>1, <2>2 DEF PassOK
  <2>4. QED
    BY <1>5, <2>2, <2>3
<1>10. ASSUME NEW s \in Slots, JobRead(s)
       PROVE  PassesInv'
  <2> DEFINE p == passes[s]
             q == IF DOMAIN users = {} THEN Off
                  ELSE [pc |-> "rows", time |-> p.time, todo |-> users]
  <2>1. p.pc = "read" /\ p # Off /\ PassOK(p)
    BY <1>2, <1>10 DEF JobRead, Off
  <2>2. p = [pc |-> "read", time |-> p.time, todo |-> p.todo] /\ p.time \in 1..now
        /\ mode = "scoring"
    BY <2>1 DEF PassOK
  <2>3. [p EXCEPT !.pc = "rows", !.todo = users] = [pc |-> "rows", time |-> p.time,
        todo |-> users]
    <3> DEFINE new == [p EXCEPT !.pc = "rows", !.todo = users]
    <3>1. p \in [pc : {"read"}, time : {p.time}, todo : {p.todo}]
      BY <2>2
    <3>2. new \in [pc : {"rows"}, time : {p.time}, todo : {users}]
      BY <3>1
    <3> HIDE DEF new, p
    <3>3. new = [pc |-> "rows", time |-> p.time, todo |-> users]
      BY <3>2
    <3>4. QED
      BY <3>3 DEF new
  <2>4. passes' = [passes EXCEPT ![s] = q] /\ mode' = mode
    BY <1>2, <1>10, <2>3 DEF JobRead
  <2>5. \A k \in DOMAIN users : users[k] \in Row
    BY DEF TypeInv, UsersInv
  <2>6. PassOK(q)
    BY <2>2, <2>5 DEF PassOK
  <2> HIDE DEF q
  <2>7. QED
    BY <1>5, <2>4, <2>6
<1>11. ASSUME NEW s \in Slots, passes[s].pc = "rows", NEW k \in DOMAIN passes[s].todo,
      JobQuery(s, k)
       PROVE  PassesInv'
  <2> DEFINE p == passes[s]
             q == [pc |-> "write", time |-> p.time, todo |-> p.todo, key |-> k,
                   found |-> Window(k, p.todo[k].jfTime, p.time)]
  <2>1. p.pc = "rows" /\ p # Off /\ PassOK(p)
    BY <1>2, <1>11 DEF Off
  <2>2. passes' = [passes EXCEPT ![s] = q] /\ mode' = mode
    BY <1>2, <1>11 DEF JobQuery
  <2>3. PassOK(q)
    BY <1>11, <2>1 DEF PassOK
  <2> HIDE DEF q
  <2>4. QED
    BY <1>5, <2>2, <2>3
<1>12. ASSUME NEW s \in Slots, JobWrite(s)
       PROVE  PassesInv'
  <2>1. /\ passes[s].key \in DOMAIN passes[s].todo /\ mode' = mode
        /\ passes' = [passes EXCEPT ![s] = Without(passes[s], passes[s].key)]
    BY <1>12, WrittenRow DEF JobWrite
  <2>2. passes[s] # Off /\ PassOK(passes[s])
    BY <1>2, <1>12 DEF JobWrite, Off
  <2>3. QED
    BY <1>5, <2>1, <2>2, WithoutOK
<1>13. ASSUME NEW s \in Slots, JobFails(s)
       PROVE  PassesInv'
  <2>1. passes[s] # Off /\ PassOK(passes[s]) /\ mode' = mode
    BY <1>2, <1>13 DEF JobFails
  <2>2. CASE passes' = [passes EXCEPT ![s] = Off]
    BY <1>5, <2>1, <2>2 DEF PassOK
  <2>3. ASSUME NEW k \in DOMAIN passes[s].todo, passes' = [passes EXCEPT ![s] = Without(@, k)]
        PROVE  PassesInv'
    <3>1. passes' = [passes EXCEPT ![s] = Without(passes[s], k)]
      BY <1>2, <2>3
    <3>2. QED
      BY <1>5, <2>1, <3>1, WithoutOK
  <2>4. CASE passes[s].pc = "write" /\ passes' = [passes EXCEPT ![s] = Without(@, @.key)]
    <3>1. passes' = [passes EXCEPT ![s] = Without(passes[s], passes[s].key)]
      BY <1>2, <2>4
    <3>2. passes[s].key \in DOMAIN passes[s].todo
      BY <2>1, <2>4 DEF PassOK
    <3>3. QED
      BY <1>5, <2>1, <3>1, <3>2, WithoutOK
  <2>5. QED
    BY <1>13, <2>2, <2>3, <2>4 DEF JobFails
<1>14. QED
  BY <1>6, <1>7, <1>8, <1>9, <1>10, <1>11, <1>12, <1>13 DEF Next, Pass

LEMMA TypeStep ==
  ASSUME TypeInv, [Next]_vars
  PROVE  TypeInv'
BY ProcessStep, ChainStep, UsersStep, PassesStep DEF TypeInv

-----------------------------------------------------------------------------
(***************************************************************************)
(* Totals.                                                                 *)
(***************************************************************************)

\* The records of a row after a batch.
LEMMA RecordsOfRow ==
  ASSUME ChainInv, NEW n \in Nat \ {0}, UpdateDbUserAmount(n), NEW k
  PROVE  /\ RecordsOf(k)' = RecordsOf(k) \cup NewIds(n, k)
         /\ \A i \in NewIds(n, k) : i \in Ids /\ i \notin RecordIds /\ i \in RecordIds'
         /\ RecordIds \subseteq Ids /\ RecordIds \subseteq RecordIds'
         /\ \A i \in RecordIds : records'[i] = records[i]
         /\ k \notin KeysIn(n) => NewIds(n, k) = {}
         /\ \A i \in NewIds(n, k) : k \in DOMAIN users =>
              records'[i].late \/ ~(records'[i].time <= users[k].jfTime)
         /\ \A i \in NewIds(n, k) : k \notin DOMAIN users => records'[i].late
         /\ \A i \in RecordIds' : records'[i].key \in KeysIn(n) \/ i \in RecordIds
<1>1. /\ indexed + n <= Len(ops) /\ Len(records) + n <= MaxRecords
      /\ records' = records \o NewRecords(n)
  BY StoredBatch
<1>2. /\ Len(records') = Len(records) + n
      /\ \A i \in RecordIds : records'[i] = records[i]
      /\ \A j \in 1..n : records'[Len(records) + j] = NewRecords(n)[j]
      /\ \A i \in RecordIds' : i \in RecordIds \/ \E j \in 1..n : i = Len(records) + j
  BY <1>1, RecordsAfterBatch
<1>3. Len(records) \in Nat
  BY DEF ChainInv
<1>4. RecordIds \subseteq Ids /\ RecordIds \subseteq RecordIds'
  BY <1>1, <1>2, <1>3, ScoreConstantsOK DEF RecordIds, Ids
<1>5. ASSUME NEW j \in 1..n
      PROVE  /\ Len(records) + j \in Ids /\ Len(records) + j \notin RecordIds
             /\ Len(records) + j \in RecordIds'
             /\ records'[Len(records) + j].key = Batch(n)[j].key
             /\ Batch(n)[j].key \in KeysIn(n)
             /\ records'[Len(records) + j].late
                  <=> Batch(n)[j].key \notin DOMAIN users \/ IsLate(Batch(n)[j])
             /\ records'[Len(records) + j].time = OperationTime(Batch(n)[j].stamp)
  <2>1. /\ Len(records) + j \in Ids /\ Len(records) + j \notin RecordIds
        /\ Len(records) + j \in RecordIds'
    BY <1>1, <1>2, <1>3, ScoreConstantsOK DEF RecordIds, Ids
  <2>2. records'[Len(records) + j] = NewRecords(n)[j]
    BY <1>2
  <2>3. NewRecords(n)[j] = [op |-> indexed + j, key |-> Batch(n)[j].key,
                            kind |-> Batch(n)[j].kind,
                            time |-> OperationTime(Batch(n)[j].stamp),
                            late |-> Batch(n)[j].key \notin DOMAIN users \/ IsLate(Batch(n)[j])]
    BY DEF NewRecords
  <2>4. Batch(n)[j].key \in KeysIn(n)
    BY DEF KeysIn
  <2>5. /\ records'[Len(records) + j].key = Batch(n)[j].key
        /\ records'[Len(records) + j].time = OperationTime(Batch(n)[j].stamp)
    BY <2>2, <2>3
  <2>6. records'[Len(records) + j].late
          <=> Batch(n)[j].key \notin DOMAIN users \/ IsLate(Batch(n)[j])
    <3> DEFINE late == Batch(n)[j].key \notin DOMAIN users \/ IsLate(Batch(n)[j])
               r == records'[Len(records) + j]
    <3>1. r.late = late
      BY <2>2, <2>3
    <3> HIDE DEF late, r
    <3>2. r.late <=> late
      BY <3>1
    <3>3. QED
      BY <3>2 DEF late, r
  <2>7. QED
    BY <2>1, <2>4, <2>5, <2>6
<1>6. RecordsOf(k)' = RecordsOf(k) \cup NewIds(n, k)
  <2>1. ASSUME NEW i \in RecordsOf(k)' PROVE i \in RecordsOf(k) \cup NewIds(n, k)
    <3>1. i \in RecordIds' /\ records'[i].key = k
      BY DEF RecordsOf
    <3>2. CASE i \in RecordIds
      BY <1>2, <3>1, <3>2 DEF RecordsOf
    <3>3. CASE \E j \in 1..n : i = Len(records) + j
      BY <1>5, <3>1, <3>3 DEF NewIds
    <3>4. QED
      BY <1>2, <3>1, <3>2, <3>3
  <2>2. ASSUME NEW i \in RecordsOf(k) PROVE i \in RecordsOf(k)'
    BY <1>2, <1>4 DEF RecordsOf
  <2>3. ASSUME NEW i \in NewIds(n, k) PROVE i \in RecordsOf(k)'
    BY <1>5 DEF NewIds, RecordsOf
  <2>4. QED
    BY <2>1, <2>2, <2>3
<1>7. \A i \in NewIds(n, k) : i \in Ids /\ i \notin RecordIds /\ i \in RecordIds'
  BY <1>5 DEF NewIds
<1>8. k \notin KeysIn(n) => NewIds(n, k) = {}
  BY DEF NewIds, KeysIn
<1>9. ASSUME NEW i \in NewIds(n, k)
      PROVE  /\ k \in DOMAIN users => records'[i].late \/ ~(records'[i].time <= users[k].jfTime)
             /\ k \notin DOMAIN users => records'[i].late
  <2>1. PICK j \in 1..n : i = Len(records) + j /\ Batch(n)[j].key = k
    BY DEF NewIds
  <2>2. /\ records'[i].late <=> k \notin DOMAIN users \/ IsLate(Batch(n)[j])
        /\ records'[i].time = OperationTime(Batch(n)[j].stamp)
    BY <1>5, <2>1
  <2>3. CASE k \notin DOMAIN users
    BY <1>5, <2>1, <2>3
  <2>4. CASE k \in DOMAIN users
    BY <2>1, <2>2, <2>4 DEF IsLate
  <2>5. QED
    BY <2>3, <2>4
<1>10. \A i \in RecordIds' : records'[i].key \in KeysIn(n) \/ i \in RecordIds
  BY <1>2, <1>5
<1>11. QED
  BY <1>2, <1>4, <1>6, <1>7, <1>8, <1>9, <1>10

LEMMA BagUnion ==
  ASSUME NEW S, NEW T, \A i \in Ids : ~ (i \in S /\ i \in T)
  PROVE  One(S \cup T) = One(S) (+) One(T)
<1>1. \A i \in Ids : One(S \cup T)[i] = One(S)[i] + One(T)[i]
  BY DEF One
<1>2. QED
  BY <1>1 DEF One, (+)

LEMMA TotalsStep ==
  ASSUME TypeInv, TotalsMatchRecords, [Next]_vars
  PROVE  TotalsMatchRecords'
<1>1. CASE UNCHANGED tables
  BY <1>1 DEF TotalsMatchRecords, tables, RecordIds, RecordsOf
<1>2. ASSUME NEW n \in 1..MaxOps, UpdateDbUserAmount(n)
      PROVE  TotalsMatchRecords'
  <2>1. users' = [k \in DOMAIN users \cup KeysIn(n) |->
                    IF k \in KeysIn(n) THEN Upsert(k, NewIds(n, k)) ELSE users[k]]
    BY <1>2, StoredBatch
  <2>2. ChainInv /\ n \in Nat \ {0}
    BY DEF TypeInv
  <2>3. \A i \in RecordIds' : records'[i].key \in DOMAIN users'
    <3> SUFFICES ASSUME NEW i \in RecordIds' PROVE records'[i].key \in DOMAIN users'
      OBVIOUS
    <3>1. records'[i].key \in KeysIn(n) \/ i \in RecordIds
      BY <1>2, <2>2, RecordsOfRow
    <3>2. i \in RecordIds => records'[i] = records[i]
      BY <1>2, <2>2, RecordsOfRow
    <3>3. QED
      BY <2>1, <3>1, <3>2 DEF TotalsMatchRecords
  <2>4. ASSUME NEW k \in DOMAIN users'
        PROVE  users'[k].total = One(RecordsOf(k)')
    <3>1. /\ RecordsOf(k)' = RecordsOf(k) \cup NewIds(n, k)
          /\ \A i \in NewIds(n, k) : i \notin RecordIds
          /\ k \notin KeysIn(n) => NewIds(n, k) = {}
      BY <1>2, <2>2, RecordsOfRow
    <3>2. One(RecordsOf(k) \cup NewIds(n, k)) = One(RecordsOf(k)) (+) One(NewIds(n, k))
      BY <3>1, BagUnion DEF RecordsOf
    <3>3. CASE k \notin KeysIn(n)
      BY <2>1, <3>1, <3>3 DEF TotalsMatchRecords
    <3>4. CASE k \in KeysIn(n) /\ k \in DOMAIN users
      <4>1. users'[k].total = users[k].total (+) One(NewIds(n, k))
        BY <2>1, <3>4, UpsertedRow
      <4>2. users[k].total = One(RecordsOf(k))
        BY <3>4 DEF TotalsMatchRecords
      <4>3. QED
        BY <3>1, <3>2, <4>1, <4>2
    <3>5. CASE k \in KeysIn(n) /\ k \notin DOMAIN users
      <4>1. users'[k].total = One(NewIds(n, k))
        BY <2>1, <3>5, UpsertedRow
      <4>2. RecordsOf(k) = {}
        BY <3>5 DEF TotalsMatchRecords, RecordsOf
      <4>3. QED
        BY <3>1, <4>1, <4>2
    <3>6. QED
      BY <2>1, <3>3, <3>4, <3>5
  <2>5. QED
    BY <2>3, <2>4 DEF TotalsMatchRecords
<1>3. ASSUME NEW s \in Slots, JobWrite(s)
      PROVE  TotalsMatchRecords'
  <2> DEFINE p == passes[s]
             new == Scored(users[p.key], p.todo[p.key], p.found, p.time)
  <2>1. /\ p.key \in DOMAIN users /\ p.time \in 0..MaxHours
        /\ p.todo[p.key] \in Row /\ users[p.key] \in Row
        /\ users' = [users EXCEPT ![p.key] = new] /\ records' = records
    BY <1>3, WrittenRow
  <2>2. new.total = users[p.key].total
    BY <2>1, ScoredRow
  <2> HIDE DEF new
  <2>3. DOMAIN users' = DOMAIN users /\ \A k \in DOMAIN users : users'[k].total = users[k].total
    BY <2>1, <2>2
  <2>4. QED
    BY <2>1, <2>3 DEF TotalsMatchRecords, RecordIds, RecordsOf
<1>4. QED
  BY <1>1, <1>2, <1>3, RowsWritten

-----------------------------------------------------------------------------
(***************************************************************************)
(* Operations read again.                                                  *)
(***************************************************************************)
LEMMA CopiesFinite ==
  ASSUME ChainInv, NEW o
  PROVE  IsFiniteSet(Copies(o)) /\ Cardinality(Copies(o)) \in Nat
<1>1. Len(records) \in Int
  BY DEF ChainInv
<1>2. IsFiniteSet(RecordIds)
  BY <1>1, FS_Interval DEF RecordIds
<1>3. Copies(o) \in SUBSET RecordIds
  BY DEF Copies
<1>4. QED
  BY <1>2, <1>3, FS_Subset, FS_CardinalityType

LEMMA NewRecordOp ==
  ASSUME NEW n, NEW j \in 1..n
  PROVE  NewRecords(n)[j].op = indexed + j
<1> DEFINE late == Batch(n)[j].key \notin DOMAIN users \/ IsLate(Batch(n)[j])
           time == OperationTime(Batch(n)[j].stamp)
<1>1. NewRecords(n)[j] = [op |-> indexed + j, key |-> Batch(n)[j].key,
                          kind |-> Batch(n)[j].kind, time |-> time, late |-> late]
  BY DEF NewRecords
<1> HIDE DEF late, time
<1>2. QED
  BY <1>1

\* A batch makes one record of each of its operations, and none of any other.
LEMMA CopiesStored ==
  ASSUME ChainInv, NEW n \in Nat \ {0}, UpdateDbUserAmount(n), NEW o \in Nat
  PROVE  Cardinality(Copies(o)') <= Cardinality(Copies(o))
                                      + IF indexed < o /\ o <= indexed + n THEN 1 ELSE 0
<1>1. /\ indexed + n <= Len(ops) /\ Len(records) + n <= MaxRecords
      /\ records' = records \o NewRecords(n)
  BY StoredBatch
<1>2. /\ \A i \in RecordIds : records'[i] = records[i]
      /\ \A j \in 1..n : records'[Len(records) + j] = NewRecords(n)[j]
      /\ \A i \in RecordIds' : i \in RecordIds \/ \E j \in 1..n : i = Len(records) + j
  BY <1>1, RecordsAfterBatch
<1>3. Len(records) \in Nat /\ indexed \in Nat
  BY DEF ChainInv
<1>4. \A j \in 1..n : records'[Len(records) + j].op = indexed + j
  BY <1>2, NewRecordOp
<1> DEFINE new == Len(records) + (o - indexed)
<1>5. ASSUME NEW i \in Copies(o)', i \notin Copies(o)
      PROVE  i = new /\ indexed < o /\ o <= indexed + n
  <2>1. i \in RecordIds' /\ records'[i].op = o /\ i \notin RecordIds
    BY <1>2, <1>5 DEF Copies
  <2>2. PICK j \in 1..n : i = Len(records) + j
    BY <1>2, <2>1
  <2>3. o = indexed + j
    BY <1>4, <2>1, <2>2
  <2>4. QED
    BY <1>3, <2>2, <2>3
<1> HIDE DEF new
<1>6. IsFiniteSet(Copies(o)) /\ Cardinality(Copies(o)) \in Nat
  BY CopiesFinite
<1>7. CASE indexed < o /\ o <= indexed + n
  <2>1. /\ IsFiniteSet(Copies(o) \cup {new})
        /\ Cardinality(Copies(o) \cup {new}) <= Cardinality(Copies(o)) + 1
    BY <1>6, FS_AddElement
  <2>2. Copies(o)' \in SUBSET (Copies(o) \cup {new})
    BY <1>5
  <2>3. IsFiniteSet(Copies(o)') /\ Cardinality(Copies(o)') <= Cardinality(Copies(o) \cup {new})
    BY <2>1, <2>2, FS_Subset
  <2>4. Cardinality(Copies(o)') \in Nat /\ Cardinality(Copies(o) \cup {new}) \in Nat
    BY <2>1, <2>3, FS_CardinalityType
  <2>5. QED
    BY <1>6, <1>7, <2>1, <2>3, <2>4
<1>8. CASE ~(indexed < o /\ o <= indexed + n)
  <2>1. Copies(o)' \in SUBSET Copies(o)
    BY <1>5, <1>8
  <2>2. Cardinality(Copies(o)') <= Cardinality(Copies(o))
    BY <1>6, <2>1, FS_Subset
  <2>3. QED
    BY <1>6, <1>8, <2>2
<1>9. QED
  BY <1>7, <1>8

LEMMA CopiesStep ==
  ASSUME TypeInv, CopiesInv, [Next]_vars
  PROVE  CopiesInv'
<1>1. /\ ChainInv /\ indexed \in Nat /\ crashes \in Nat /\ retries \in Nat /\ Len(ops) \in Nat
      /\ indexed <= Len(ops)
  BY DEF TypeInv, ChainInv, ProcessInv
<1>2. \A o : Cardinality(Copies(o)) \in Nat
  BY <1>1, CopiesFinite
<1>3. ASSUME UNCHANGED <<ops, indexed, records, crashes, retries>>
      PROVE  CopiesInv'
  BY <1>3 DEF CopiesInv, Copies, RecordIds
<1>4. ASSUME NEW k \in Keys, NEW kind \in Kinds, Operate(k, kind)
      PROVE  CopiesInv'
  <2> DEFINE op == [key |-> k, kind |-> kind, stamp |-> now]
  <2>1. ops' = Append(ops, op) /\ UNCHANGED <<indexed, records, crashes, retries>>
    BY <1>4 DEF Operate, tables, counters
  <2>2. Len(ops') = Len(ops) + 1
    <3>1. ops \in Seq([key : Keys, kind : Kinds, stamp : 0..MaxHours])
      BY <1>1 DEF ChainInv
    <3> HIDE DEF op
    <3>2. QED
      BY <2>1, <3>1
  <2>3. \A o : Copies(o)' = Copies(o)
    BY <2>1 DEF Copies, RecordIds
  <2>4. \A i \in RecordIds : records[i].op <= Len(ops) /\ records[i].op \in Nat
    <3>1. \A i \in 1..Len(records) : records[i] \in Record
      BY <1>1 DEF ChainInv
    <3>2. QED
      BY <3>1 DEF CopiesInv, Record, RecordIds
  <2>5. Copies(Len(ops) + 1) = {}
    BY <1>1, <2>4 DEF Copies
  <2>6. ASSUME NEW o \in 1..Len(ops')
        PROVE  Cardinality(Copies(o)) <= crashes + retries + (IF o <= indexed THEN 1 ELSE 0)
    <3>1. CASE o \in 1..Len(ops)
      BY <3>1 DEF CopiesInv
    <3>2. CASE o = Len(ops) + 1
      <4>1. Cardinality(Copies(o)) = 0
        BY <2>5, <3>2, FS_EmptySet
      <4>2. QED
        BY <1>1, <4>1
    <3>3. QED
      BY <1>1, <2>2, <3>1, <3>2
  <2>7. \A i \in RecordIds : records[i].op <= Len(ops')
    BY <1>1, <2>2, <2>4
  <2>8. QED
    BY <2>1, <2>3, <2>6, <2>7 DEF CopiesInv, RecordIds
<1>5. CASE Crash
  <2>1. /\ UNCHANGED <<ops, records, retries>> /\ crashes' = crashes + 1
        /\ indexed' = indexed \/ indexed' = indexed - 1
    BY <1>5 DEF Crash, tables
  <2>2. \A o \in 1..Len(ops) :
          Cardinality(Copies(o)) <= crashes' + retries + (IF o <= indexed' THEN 1 ELSE 0)
    <3> SUFFICES ASSUME NEW o \in 1..Len(ops)
                 PROVE  Cardinality(Copies(o))
                          <= crashes' + retries + (IF o <= indexed' THEN 1 ELSE 0)
      OBVIOUS
    <3>1. Cardinality(Copies(o)) <= crashes + retries + (IF o <= indexed THEN 1 ELSE 0)
      BY DEF CopiesInv
    <3>2. QED
      BY <1>1, <1>2, <2>1, <3>1
  <2>3. QED
    BY <2>1, <2>2 DEF CopiesInv, Copies, RecordIds
<1>6. ASSUME NEW n \in 1..MaxOps, UpdateDbUserAmount(n)
      PROVE  CopiesInv'
  <2>1. /\ indexed + n <= Len(ops) /\ Len(records) + n <= MaxRecords
        /\ records' = records \o NewRecords(n) /\ ops' = ops /\ crashes' = crashes
        /\ \/ indexed' = indexed + n /\ retries' = retries
           \/ indexed' = indexed /\ retries' = retries + 1
    BY <1>6, StoredBatch DEF Advance
  <2>2. n \in Nat \ {0}
    OBVIOUS
  <2>3. ASSUME NEW i \in RecordIds' PROVE records'[i].op <= Len(ops)
    <3>1. /\ \A j \in RecordIds : records'[j] = records[j]
          /\ \A j \in 1..n : records'[Len(records) + j] = NewRecords(n)[j]
          /\ i \in RecordIds \/ \E j \in 1..n : i = Len(records) + j
      BY <1>1, <2>1, <2>2, RecordsAfterBatch
    <3>2. CASE i \in RecordIds
      BY <3>1, <3>2 DEF CopiesInv
    <3>3. ASSUME NEW j \in 1..n, i = Len(records) + j PROVE records'[i].op <= Len(ops)
      <4>1. records'[i].op = indexed + j
        BY <3>1, <3>3, NewRecordOp
      <4>2. QED
        BY <1>1, <2>1, <2>2, <4>1
    <3>4. QED
      BY <3>1, <3>2, <3>3
  <2>4. ASSUME NEW o \in 1..Len(ops)
        PROVE  Cardinality(Copies(o)') <= crashes + retries' + (IF o <= indexed' THEN 1 ELSE 0)
    <3>1. /\ Cardinality(Copies(o)) <= crashes + retries + (IF o <= indexed THEN 1 ELSE 0)
          /\ Cardinality(Copies(o)) \in Nat
      BY <1>2 DEF CopiesInv
    <3>2. Cardinality(Copies(o)') <= Cardinality(Copies(o))
                                       + IF indexed < o /\ o <= indexed + n THEN 1 ELSE 0
      BY <1>1, <1>6, <2>2, CopiesStored
    <3>3. Cardinality(Copies(o)') \in Nat
      <4>1. ChainInv'
        BY ChainStep
      <4>2. Len(records') \in Int
        BY <4>1 DEF ChainInv
      <4>3. IsFiniteSet(RecordIds')
        BY <4>2, FS_Interval DEF RecordIds
      <4>4. Copies(o)' \in SUBSET RecordIds'
        BY DEF Copies
      <4>5. QED
        BY <4>3, <4>4, FS_Subset, FS_CardinalityType
    <3>4. QED
      BY <1>1, <2>1, <2>2, <3>1, <3>2, <3>3
  <2>5. QED
    BY <2>1, <2>3, <2>4 DEF CopiesInv
<1>7. CASE Hour \/ Boot \/ UNCHANGED vars
  BY <1>3, <1>7 DEF Hour, Boot, BootIndexing, BootScoring, vars, chain, tables, counters
<1>8. ASSUME NEW s \in Slots, Pass(s) \/ JobFails(s)
      PROVE  CopiesInv'
  BY <1>3, <1>8 DEF Pass, JobBegin, JobRead, JobWrite, JobQuery, JobFails, chain, tables, counters
<1>9. QED
  BY <1>4, <1>5, <1>6, <1>7, <1>8 DEF Next, Index

-----------------------------------------------------------------------------
(***************************************************************************)
(* Passes that do not overlap.                                             *)
(***************************************************************************)

\* What such a pass writes: an hour's points for the amount so far, then the
\* operations up to the hour, which are those that its query found.
LEMMA ScoreWritten ==
  ASSUME TypeInv, OnePass, NEW s \in Slots, JobWrite(s)
  PROVE  LET k == passes[s].key
         IN /\ k \in DOMAIN users /\ Due(k) /\ DOMAIN users' = DOMAIN users
            /\ \A j \in DOMAIN users : j # k => users'[j] = users[j]
            /\ users'[k].jfTime = lastRun
            /\ \A i \in Ids :
                 /\ users'[k].jf[i] = users[k].jf[i] + users[k].jfAmount[i]
                 /\ users'[k].jfAmount[i] = users[k].jfAmount[i]
                      + IF i \in Window(k, users[k].jfTime, lastRun) THEN 1 ELSE 0
            /\ records' = records /\ lastRun' = lastRun
<1> DEFINE p == passes[s]
           k == p.key
           u == users[k]
           new == Scored(u, u, p.found, lastRun)
<1>1. /\ k \in DOMAIN p.todo /\ k \in DOMAIN users /\ p.time \in 0..MaxHours /\ u \in Row
      /\ users' = [users EXCEPT ![k] = Scored(u, p.todo[k], p.found, p.time)]
      /\ records' = records /\ lastRun' = lastRun
  BY WrittenRow
<1>2. p.time = lastRun /\ p.todo[k] = u /\ Due(k) /\ p.found = Window(k, u.jfTime, lastRun)
  BY <1>1 DEF OnePass, JobWrite, Off
<1>3. users' = [users EXCEPT ![k] = new]
  BY <1>1, <1>2
<1>4. /\ new.jfTime = lastRun /\ new.jf = u.jf (+) u.jfAmount
      /\ new.jfAmount = IF p.found = {} THEN u.jfAmount ELSE u.jfAmount (+) One(p.found)
  BY <1>1, <1>2, ScoredRow
<1> HIDE DEF new
<1>5. ASSUME NEW i \in Ids
      PROVE  /\ new.jf[i] = u.jf[i] + u.jfAmount[i]
             /\ new.jfAmount[i] = u.jfAmount[i]
                  + IF i \in Window(k, u.jfTime, lastRun) THEN 1 ELSE 0
  <2>1. u.jfAmount[i] \in Nat
    BY <1>1 DEF Row
  <2>2. QED
    BY <1>2, <1>4, <2>1, BagCounts
<1>6. DOMAIN users' = DOMAIN users /\ users'[k] = new
      /\ \A j \in DOMAIN users : j # k => users'[j] = users[j]
  BY <1>1, <1>3
<1>7. QED
  BY <1>1, <1>2, <1>4, <1>5, <1>6

\* Passes that have overlapped have done so for good.
LEMMA OverlapStays ==
  ASSUME [Next]_vars, ~overlapped'
  PROVE  ~overlapped
BY DEF Next, vars, Hour, Operate, Boot, BootIndexing, BootScoring, Crash, Index,
  UpdateDbUserAmount, Pass, JobBegin, JobRead, JobWrite, JobQuery, JobFails, job

LEMMA OnePassStep ==
  ASSUME TypeInv, OnePass, ScoresInv, ~overlapped', [Next]_vars
  PROVE  OnePass'
<1>1. DOMAIN passes = Slots /\ \A r \in Slots : PassOK(passes[r])
  BY DEF TypeInv, PassesInv
<1>2. /\ now \in Nat /\ lastRun \in Nat
      /\ \A k \in DOMAIN users : users[k].jfTime \in Nat /\ users[k].jfTime <= now
  BY DEF TypeInv, ProcessInv, UsersInv, Row
<1>3. ASSUME UNCHANGED <<passes, users, records, lastRun>>
      PROVE  OnePass'
  BY <1>3 DEF OnePass, Due, Window, RecordsOf, RecordIds
<1>4. ASSUME \A r \in Slots : passes'[r] = Off
      PROVE  OnePass'
  BY <1>4 DEF OnePass
\* One pass goes on, with rows that it has still to write.
<1>5. ASSUME NEW s \in Slots, NEW q, passes' = [passes EXCEPT ![s] = q],
             passes[s] # Off, UNCHANGED <<records, lastRun>>, DOMAIN users' = DOMAIN users,
             q # Off => /\ q.time = lastRun /\ q.pc # "read"
                        /\ \A k \in DOMAIN q.todo :
                             q.todo[k] = users[k] /\ users'[k] = users[k] /\ Due(k)
                        /\ q.pc = "write" =>
                             /\ q.key \in DOMAIN q.todo
                             /\ q.found = Window(q.key, users[q.key].jfTime, lastRun)
      PROVE  OnePass'
  <2>1. \A r \in Slots : passes'[r] = IF r = s THEN q ELSE passes[r]
    BY <1>1, <1>5
  <2>2. \A r \in Slots : r # s => passes[r] = Off
    BY <1>5 DEF OnePass
  <2>3. \A r \in Slots : r # s => passes'[r] = Off
    BY <2>1, <2>2
  <2>4. ASSUME q # Off
        PROVE  /\ q.time = lastRun' /\ q.pc # "read"
               /\ \A k \in DOMAIN q.todo : q.todo[k] = users'[k] /\ Due(k)'
               /\ q.pc = "write" => q.found = Window(q.key, users[q.key].jfTime, lastRun)'
    <3>1. /\ q.time = lastRun' /\ q.pc # "read"
          /\ \A k \in DOMAIN q.todo : q.todo[k] = users'[k] /\ Due(k)'
      BY <1>5, <2>4 DEF Due
    <3>2. q.pc = "write" => q.found = Window(q.key, users[q.key].jfTime, lastRun)'
      BY <1>5, <2>4 DEF Window, RecordsOf, RecordIds
    <3>3. QED
      BY <3>1, <3>2
  <2>5. passes'[s] = q
    BY <2>1
  <2>6. QED
    BY <2>3, <2>4, <2>5 DEF OnePass
<1>6. CASE Hour \/ UNCHANGED vars \/ \E k \in Keys, kind \in Kinds : Operate(k, kind)
  BY <1>3, <1>6 DEF Hour, Operate, vars, tables, job
<1>7. CASE Boot
  BY <1>3, <1>7 DEF Boot, BootIndexing, BootScoring, tables, job
<1>8. CASE Crash
  BY <1>4, <1>8 DEF Crash
<1>9. CASE Index
  <2>1. passes' = passes /\ mode = "indexing"
    BY <1>9 DEF Index, UpdateDbUserAmount, job
  <2>2. QED
    BY <1>1, <1>4, <2>1 DEF PassOK
<1>10. ASSUME NEW s \in Slots, JobBegin(s)
       PROVE  OnePass'
  <2> DEFINE none == [k \in {} |-> Zero]
             q == [pc |-> "read", time |-> now, todo |-> none]
  <2>1. /\ now > lastRun /\ lastRun' = now /\ passes' = [passes EXCEPT ![s] = q]
        /\ users' = users /\ \A r \in Slots : passes[r] = Off
    BY <1>10 DEF JobBegin, tables
  <2>2. DOMAIN none = {}
    OBVIOUS
  <2> HIDE DEF none
  <2>3. passes'[s] = q /\ \A r \in Slots : r # s => passes'[r] = Off
    BY <1>1, <2>1
  <2>4. ASSUME NEW k \in DOMAIN users PROVE Due(k)'
    <3>1. users[k].jfTime > lastRun => users[k].jfAmount = Zero
      BY DEF ScoresInv, Scores
    <3>2. (users[k].jfTime < now \/ users[k].jfAmount = Zero) /\ users[k].jfTime <= now
      BY <1>2, <2>1, <3>1
    <3>3. QED
      BY <2>1, <3>2 DEF Due
  <2>5. QED
    BY <2>1, <2>2, <2>3, <2>4 DEF OnePass
<1>11. ASSUME NEW s \in Slots, JobRead(s)
       PROVE  OnePass'
  <2> DEFINE p == passes[s]
             new == [p EXCEPT !.pc = "rows", !.todo = users]
             q == IF DOMAIN users = {} THEN Off ELSE new
  <2>1. p.pc = "read" /\ p # Off /\ PassOK(p) /\ p.time = lastRun /\ \A k \in DOMAIN users :
        Due(k)
    BY <1>1, <1>11 DEF JobRead, Off, OnePass
  <2>2. p \in [pc : {"read"}, time : {p.time}, todo : {p.todo}]
    BY <2>1 DEF PassOK
  <2>3. new \in [pc : {"rows"}, time : {p.time}, todo : {users}]
    BY <2>2
  <2>4. passes' = [passes EXCEPT ![s] = q] /\ UNCHANGED <<users, records, lastRun>>
    BY <1>1, <1>11 DEF JobRead, tables
  <2> HIDE DEF new
  <2>5. new.pc = "rows" /\ new.time = lastRun /\ new.todo = users
    BY <2>1, <2>3
  <2>6. q # Off => /\ q.time = lastRun /\ q.pc = "rows"
                   /\ \A k \in DOMAIN q.todo :
                        q.todo[k] = users[k] /\ users'[k] = users[k] /\ Due(k)
    BY <2>1, <2>4, <2>5
  <2> HIDE DEF q
  <2>7. QED
    BY <1>5, <2>1, <2>4, <2>6
<1>12. ASSUME NEW s \in Slots, passes[s].pc = "rows", NEW k \in DOMAIN passes[s].todo,
      JobQuery(s, k)
       PROVE  OnePass'
  <2> DEFINE p == passes[s]
             q == [pc |-> "write", time |-> p.time, todo |-> p.todo, key |-> k,
                   found |-> Window(k, p.todo[k].jfTime, p.time)]
  <2>1. p # Off
    BY <1>12 DEF Off
  <2>2. passes' = [passes EXCEPT ![s] = q] /\ UNCHANGED <<users, records, lastRun>>
    BY <1>1, <1>12 DEF JobQuery, tables
  <2>3. p.time = lastRun /\ \A j \in DOMAIN p.todo : p.todo[j] = users[j] /\ Due(j)
    BY <2>1 DEF OnePass
  <2>4. /\ q.time = lastRun /\ q.pc # "read" /\ q.key \in DOMAIN q.todo
        /\ \A j \in DOMAIN q.todo : q.todo[j] = users[j] /\ users'[j] = users[j] /\ Due(j)
        /\ q.found = Window(q.key, users[q.key].jfTime, lastRun)
    BY <1>12, <2>2, <2>3
  <2> HIDE DEF q
  <2>5. QED
    BY <1>5, <2>1, <2>2, <2>4
\* A row is done with, or given up.
<1>13. ASSUME NEW s \in Slots, passes[s] # Off, NEW k \in DOMAIN passes[s].todo,
              passes' = [passes EXCEPT ![s] = Without(passes[s], k)],
              UNCHANGED <<records, lastRun>>, DOMAIN users' = DOMAIN users,
              \A j \in DOMAIN users : j # k => users'[j] = users[j]
       PROVE  OnePass'
  <2> DEFINE p == passes[s]
             todo == [j \in DOMAIN p.todo \ {k} |-> p.todo[j]]
             q == Without(p, k)
  <2>1. /\ p.time = lastRun /\ \A j \in DOMAIN p.todo : p.todo[j] = users[j] /\ Due(j)
        /\ DOMAIN p.todo \subseteq DOMAIN users
    BY <1>1, <1>13 DEF OnePass, PassOK
  <2>2. q = Off \/ q = [pc |-> "rows", time |-> p.time, todo |-> todo]
    BY DEF Without
  <2>3. DOMAIN todo = DOMAIN p.todo \ {k} /\ \A j \in DOMAIN todo : todo[j] = p.todo[j]
    OBVIOUS
  <2> HIDE DEF q, todo
  <2>4. q # Off => /\ q.time = lastRun /\ q.pc = "rows"
                   /\ \A j \in DOMAIN q.todo :
                        q.todo[j] = users[j] /\ users'[j] = users[j] /\ Due(j)
    BY <1>13, <2>1, <2>2, <2>3
  <2>5. passes' = [passes EXCEPT ![s] = q]
    BY <1>13 DEF q
  <2>6. QED
    BY <1>5, <1>13, <2>4, <2>5
<1>14. ASSUME NEW s \in Slots, JobWrite(s)
       PROVE  OnePass'
  <2>1. /\ passes[s] # Off /\ passes[s].key \in DOMAIN passes[s].todo
        /\ passes' = [passes EXCEPT ![s] = Without(passes[s], passes[s].key)]
        /\ UNCHANGED <<records, lastRun>>
    <3>1. passes[s] # Off
      BY <1>14 DEF JobWrite, Off
    <3>2. QED
      BY <1>14, <3>1, WrittenRow
  <2>2. /\ DOMAIN users' = DOMAIN users
        /\ \A j \in DOMAIN users : j # passes[s].key => users'[j] = users[j]
    BY <1>14, ScoreWritten
  <2>3. QED
    BY <1>13, <2>1, <2>2
<1>15. ASSUME NEW s \in Slots, JobFails(s)
       PROVE  OnePass'
  <2>1. passes[s] # Off /\ UNCHANGED <<users, records, lastRun>>
    BY <1>15 DEF JobFails, tables
  <2>2. CASE passes' = [passes EXCEPT ![s] = Off]
    BY <1>5, <2>1, <2>2
  <2>3. ASSUME NEW k \in DOMAIN passes[s].todo, passes' = [passes EXCEPT ![s] = Without(@, k)]
        PROVE  OnePass'
    <3>1. passes' = [passes EXCEPT ![s] = Without(passes[s], k)]
      BY <1>1, <2>3
    <3>2. QED
      BY <1>13, <2>1, <3>1
  <2>4. CASE passes[s].pc = "write" /\ passes' = [passes EXCEPT ![s] = Without(@, @.key)]
    <3>1. passes' = [passes EXCEPT ![s] = Without(passes[s], passes[s].key)]
      BY <1>1, <2>4
    <3>2. passes[s].key \in DOMAIN passes[s].todo
      BY <1>1, <2>1, <2>4 DEF PassOK
    <3>3. QED
      BY <1>13, <2>1, <3>1, <3>2
  <2>5. QED
    BY <1>15, <2>2, <2>3, <2>4 DEF JobFails
<1>16. QED
  BY <1>6, <1>7, <1>8, <1>9, <1>10, <1>11, <1>12, <1>14, <1>15 DEF Next, Pass

\* A record of the window joins the amount once, and earns from the next hour on.
LEMMA ScoresStep ==
  ASSUME TypeInv, TotalsMatchRecords, OnePass, ScoresInv, [Next]_vars
  PROVE  ScoresInv'
<1>1. /\ now \in Nat /\ lastRun \in Nat /\ lastRun <= now
      /\ lastRun' = lastRun \/ (lastRun' = now /\ tables' = tables)
  <2>1. lastRun' = lastRun \/ (lastRun' = now /\ tables' = tables)
    BY DEF Next, vars, Hour, Operate, Boot, BootIndexing, BootScoring, Crash,
      Index, UpdateDbUserAmount, Pass, JobBegin, JobRead, JobWrite, JobQuery, JobFails, job
  <2>2. QED
    BY <2>1 DEF TypeInv, ProcessInv
<1>2. ASSUME NEW k \in DOMAIN users
      PROVE  /\ users[k].jfTime \in Nat /\ users[k].jf \in [Ids -> Nat]
             /\ users[k].jfAmount \in [Ids -> Nat]
  BY DEF TypeInv, UsersInv, Row
<1>3. \A i \in RecordIds : records[i].time \in Nat /\ i \in Ids
  <2> DEFINE Rec == Record
  <2>1. records \in Seq(Rec) /\ Len(records) <= MaxRecords
    BY DEF TypeInv, ChainInv
  <2> HIDE DEF Rec
  <2>2. \A i \in 1..Len(records) : records[i] \in Rec /\ i \in 1..MaxRecords
    BY <2>1, ScoreConstantsOK
  <2>3. QED
    BY <2>2 DEF Rec, Record, RecordIds, Ids
<1>4. CASE UNCHANGED tables
  <2> SUFFICES ASSUME NEW k \in DOMAIN users PROVE Scores(k)'
    BY <1>4 DEF ScoresInv, tables
  <2>1. Scores(k)
    BY DEF ScoresInv
  <2>2. PICK n \in {lastRun, now} : lastRun' = n
    BY <1>1
  <2>3. users[k].jfTime > n => users[k].jfAmount = Zero
    BY <1>1, <1>2, <2>1 DEF Scores
  <2>4. QED
    BY <1>4, <2>1, <2>2, <2>3 DEF Scores, RecordsOf, RecordIds, tables
<1>5. ASSUME NEW n \in 1..MaxOps, UpdateDbUserAmount(n)
      PROVE  ScoresInv'
  <2> SUFFICES ASSUME NEW k \in DOMAIN users' PROVE Scores(k)'
    BY DEF ScoresInv
  <2>1. /\ users' = [j \in DOMAIN users \cup KeysIn(n) |->
                      IF j \in KeysIn(n) THEN Upsert(j, NewIds(n, j)) ELSE users[j]]
        /\ lastRun' = lastRun
    BY <1>5, StoredBatch DEF job
  <2>2. ChainInv /\ n \in Nat \ {0}
    BY DEF TypeInv
  <2>3. /\ RecordsOf(k)' = RecordsOf(k) \cup NewIds(n, k)
        /\ \A i \in NewIds(n, k) : i \in Ids /\ i \notin RecordIds
        /\ \A i \in RecordIds : records'[i] = records[i]
        /\ k \in DOMAIN users => \A i \in NewIds(n, k) :
             records'[i].late \/ ~(records'[i].time <= users[k].jfTime)
        /\ k \notin DOMAIN users => \A i \in NewIds(n, k) : records'[i].late
    BY <1>5, <2>2, RecordsOfRow
  <2>4. CASE k \in DOMAIN users
    <3>1. /\ users'[k].jf = users[k].jf /\ users'[k].jfAmount = users[k].jfAmount
          /\ users'[k].jfTime = users[k].jfTime
      BY <2>1, <2>4, UpsertedRow
    <3>2. Scores(k)
      BY <2>4 DEF ScoresInv
    <3>3. ASSUME NEW i \in NewIds(n, k) PROVE users[k].jf[i] = 0
      <4>1. i \in Ids /\ i \notin RecordsOf(k)
        BY <2>3 DEF RecordsOf
      <4>2. ~(users[k].jf[i] > 0)
        BY <3>2, <4>1 DEF Scores
      <4>3. QED
        BY <1>2, <2>4, <4>1, <4>2
    <3>4. \A i \in RecordsOf(k) : records'[i] = records[i]
      BY <2>3 DEF RecordsOf
    <3>5. \A i \in Ids :
            /\ users'[k].jfAmount[i] <= 1
            /\ users'[k].jfAmount[i] = 1 =>
                 i \in RecordsOf(k)' /\ records'[i].time <= users'[k].jfTime
            /\ users'[k].jf[i] > 0 => users'[k].jfAmount[i] = 1
      BY <2>3, <3>1, <3>2, <3>4 DEF Scores
    <3>6. ASSUME NEW i \in RecordsOf(k)'
          PROVE  /\ users'[k].jf[i] > 0 => users'[k].jf[i] <= users'[k].jfTime - records'[i].time
                 /\ records'[i].time <= users'[k].jfTime /\ ~records'[i].late
                      => users'[k].jfAmount[i] = 1
      <4>1. CASE i \in RecordsOf(k)
        BY <3>1, <3>2, <3>4, <4>1 DEF Scores
      <4>2. CASE i \in NewIds(n, k)
        BY <2>3, <2>4, <3>1, <3>3, <4>2
      <4>3. QED
        BY <2>3, <4>1, <4>2
    <3>7. users'[k].jfTime > lastRun' => users'[k].jfAmount = Zero
      BY <2>1, <3>1, <3>2 DEF Scores
    <3>8. QED
      BY <3>5, <3>6, <3>7 DEF Scores
  <2>5. CASE k \notin DOMAIN users
    <3>1. users'[k].jf = Zero /\ users'[k].jfAmount = Zero
      BY <2>1, <2>5, UpsertedRow
    <3>2. RecordsOf(k) = {}
      BY <2>5 DEF TotalsMatchRecords, RecordsOf
    <3>3. \A i \in Ids : Zero[i] = 0
      BY BagCounts
    <3>4. \A i \in RecordsOf(k)' : i \in Ids /\ records'[i].late
      BY <2>3, <2>5, <3>2
    <3>5. QED
      BY <3>1, <3>3, <3>4 DEF Scores
  <2>6. QED
    BY <2>4, <2>5
<1>6. ASSUME NEW s \in Slots, JobWrite(s)
      PROVE  ScoresInv'
  <2>0. PICK k : k = passes[s].key
    OBVIOUS
  <2> DEFINE found == Window(k, users[k].jfTime, lastRun)
  <2>1. /\ k \in DOMAIN users /\ Due(k) /\ DOMAIN users' = DOMAIN users
        /\ \A j \in DOMAIN users : j # k => users'[j] = users[j]
        /\ users'[k].jfTime = lastRun
        /\ \A i \in Ids : /\ users'[k].jf[i] = users[k].jf[i] + users[k].jfAmount[i]
                          /\ users'[k].jfAmount[i]
                               = users[k].jfAmount[i] + IF i \in found THEN 1 ELSE 0
        /\ records' = records /\ lastRun' = lastRun
    BY <1>6, <2>0, ScoreWritten
  <2>2. \A i : i \in found <=> i \in RecordsOf(k) /\ records[i].time > users[k].jfTime
                              /\ records[i].time <= lastRun
    BY DEF Window
  <2> HIDE DEF found
  <2>3. Scores(k) /\ RecordsOf(k) \subseteq RecordIds
    BY <2>1 DEF ScoresInv, RecordsOf
  <2>4. ASSUME NEW j \in DOMAIN users, j # k PROVE Scores(j)'
    BY <2>1, <2>4 DEF ScoresInv, Scores, RecordsOf, RecordIds
  <2>5. ASSUME NEW i \in Ids
        PROVE  LET jf == users[k].jf[i] + users[k].jfAmount[i]
                   amount == users[k].jfAmount[i] + IF i \in found THEN 1 ELSE 0
               IN /\ amount <= 1
                  /\ amount = 1 => i \in RecordsOf(k) /\ records[i].time <= lastRun
                  /\ jf > 0 => amount = 1
                  /\ i \in RecordsOf(k) =>
                       /\ jf > 0 => jf <= lastRun - records[i].time
                       /\ records[i].time <= lastRun /\ ~records[i].late => amount = 1
    <3>1. /\ users[k].jf[i] \in Nat /\ users[k].jfAmount[i] \in Nat /\ users[k].jfTime \in Nat
          /\ i \in RecordsOf(k) => records[i].time \in Nat
      BY <1>2, <1>3, <2>1, <2>3
    <3>2. /\ users[k].jfAmount[i] <= 1
          /\ users[k].jfAmount[i] = 1 =>
               i \in RecordsOf(k) /\ records[i].time <= users[k].jfTime
          /\ users[k].jf[i] > 0 => users[k].jfAmount[i] = 1
          /\ i \in RecordsOf(k) =>
               /\ users[k].jf[i] > 0 => users[k].jf[i] <= users[k].jfTime - records[i].time
               /\ records[i].time <= users[k].jfTime /\ ~records[i].late
                    => users[k].jfAmount[i] = 1
      BY <2>3 DEF Scores
    <3>3. CASE users[k].jfAmount[i] = 0
      BY <1>1, <2>2, <3>1, <3>2, <3>3
    <3>4. CASE users[k].jfAmount[i] = 1
      <4>1. i \notin found
        BY <2>2, <3>1, <3>2, <3>4
      <4>2. users[k].jfTime < lastRun
        BY <2>1, <3>4, BagCounts DEF Due
      <4>3. QED
        BY <1>1, <2>2, <3>1, <3>2, <3>4, <4>1, <4>2
    <3>5. QED
      BY <3>1, <3>2, <3>3, <3>4
  <2>6. Scores(k)'
    <3>1. ~(users'[k].jfTime > lastRun')
      BY <1>1, <2>1
    <3>2. RecordsOf(k)' = RecordsOf(k)
      BY <2>1 DEF RecordsOf, RecordIds
    <3>3. QED
      BY <2>1, <3>1, <3>2, <2>5, <1>3, <2>3 DEF Scores
  <2>7. QED
    BY <2>1, <2>4, <2>6 DEF ScoresInv
<1>7. QED
  BY <1>4, <1>5, <1>6, RowsWritten

\* The points of a stake less those its withdrawal takes back grow only while the
\* withdrawal is past jf_time.
LEMMA EndsStep ==
  ASSUME TypeInv, TotalsMatchRecords, OnePass, ScoresInv, EndsInv, [Next]_vars
  PROVE  EndsInv'
<1>1. ASSUME NEW k \in DOMAIN users
      PROVE  /\ users[k].jfTime \in Nat
             /\ \A i \in Ids : users[k].jf[i] \in Nat /\ users[k].jfAmount[i] \in Nat
  BY DEF TypeInv, UsersInv, Row
<1>2. \A i \in RecordIds : records[i].time \in Nat /\ i \in Ids
  <2>1. records \in Seq(Record) /\ Len(records) <= MaxRecords
    BY DEF TypeInv, ChainInv
  <2>2. \A i \in 1..Len(records) : records[i] \in Record /\ i \in 1..MaxRecords
    BY <2>1, ScoreConstantsOK
  <2>3. QED
    BY <2>2 DEF Record, RecordIds, Ids
<1>3. CASE UNCHANGED tables
  BY <1>3 DEF EndsInv, Ends, RecordsOf, RecordIds, tables
\* A stake's points so far, and that its withdrawal has still to be found.
<1>4. ASSUME NEW k \in DOMAIN users, NEW i \in RecordsOf(k)
      PROVE  users[k].jf[i] = 0
               \/ /\ users[k].jfAmount[i] = 1 /\ records[i].time <= users[k].jfTime
                  /\ users[k].jf[i] <= users[k].jfTime - records[i].time
  <2>1. Scores(k) /\ i \in Ids /\ users[k].jf[i] \in Nat
    BY <1>1, <1>2 DEF ScoresInv, RecordsOf
  <2>2. QED
    BY <2>1 DEF Scores
<1>5. ASSUME NEW n \in 1..MaxOps, UpdateDbUserAmount(n)
      PROVE  EndsInv'
  <2> SUFFICES ASSUME NEW k \in DOMAIN users', NEW i \in RecordsOf(k)', NEW w \in RecordsOf(k)',
                      records'[i].kind = "Staked", records'[w].kind = "Withdrawn",
                      records'[i].time <= records'[w].time, ~records'[w].late
               PROVE  users'[k].jf[i] - users'[k].jf[w] <= records'[w].time - records'[i].time
    BY DEF EndsInv, Ends
  <2>1. users' = [j \in DOMAIN users \cup KeysIn(n) |->
                    IF j \in KeysIn(n) THEN Upsert(j, NewIds(n, j)) ELSE users[j]]
    BY <1>5, StoredBatch
  <2>2. ChainInv /\ n \in Nat \ {0}
    BY DEF TypeInv
  <2>3. /\ RecordsOf(k)' = RecordsOf(k) \cup NewIds(n, k)
        /\ \A j \in NewIds(n, k) : j \in Ids /\ j \notin RecordIds /\ j \in RecordIds'
        /\ \A j \in RecordIds : records'[j] = records[j]
        /\ k \in DOMAIN users => \A j \in NewIds(n, k) :
             records'[j].late \/ ~(records'[j].time <= users[k].jfTime)
    BY <1>5, <2>2, RecordsOfRow
  <2>4. \A j \in RecordIds' : records'[j].time \in Nat
    <3>1. ChainInv'
      BY ChainStep
    <3>2. records' \in Seq(Record)
      BY <3>1 DEF ChainInv
    <3>3. \A j \in 1..Len(records') : records'[j] \in Record
      BY <3>2
    <3>4. QED
      BY <3>3 DEF Record, RecordIds
  <2>5. i \in RecordIds' /\ w \in RecordIds'
    BY DEF RecordsOf
  <2>6. CASE k \in DOMAIN users
    <3>1. users'[k].jf = users[k].jf
      BY <2>1, <2>6, UpsertedRow
    <3>2. Scores(k) /\ Ends(k)
      BY <2>6 DEF ScoresInv, EndsInv
    <3>3. ASSUME NEW j \in NewIds(n, k)
          PROVE  users[k].jf[j] = 0
      <4>1. j \in Ids /\ j \notin RecordsOf(k)
        BY <2>3 DEF RecordsOf
      <4>2. QED
        BY <1>1, <2>6, <3>2, <4>1 DEF Scores
    <3>4. \A j \in RecordsOf(k) : records'[j] = records[j] /\ users[k].jf[j] \in Nat
      BY <1>1, <1>2, <2>3, <2>6 DEF RecordsOf
    <3>5. records'[i].time \in Nat /\ records'[w].time \in Nat /\ users[k].jfTime \in Nat
      BY <1>1, <2>4, <2>5, <2>6
    <3>6. CASE i \in RecordsOf(k) /\ w \in RecordsOf(k)
      BY <3>1, <3>2, <3>4, <3>6 DEF Ends
    <3>7. CASE i \in RecordsOf(k) /\ w \in NewIds(n, k)
      <4>1. users[k].jf[i] = 0 \/ users[k].jf[i] <= users[k].jfTime - records'[i].time
        BY <1>4, <2>6, <3>4, <3>7
      <4>2. ~(records'[w].time <= users[k].jfTime)
        BY <2>3, <2>6, <3>7
      <4>3. users[k].jf[w] = 0 /\ users[k].jf[i] \in Nat
        BY <3>3, <3>4, <3>7
      <4>4. QED
        BY <3>1, <3>5, <4>1, <4>2, <4>3
    <3>8. CASE i \in NewIds(n, k)
      <4>1. users[k].jf[i] = 0 /\ users[k].jf[w] \in Nat
        BY <2>3, <3>3, <3>4, <3>8
      <4>2. QED
        BY <3>1, <3>5, <4>1
    <3>9. QED
      BY <2>3, <3>6, <3>7, <3>8
  <2>7. CASE k \notin DOMAIN users
    <3>1. users'[k].jf = Zero
      BY <2>1, <2>7, UpsertedRow
    <3>2. RecordsOf(k) = {}
      BY <2>7 DEF TotalsMatchRecords, RecordsOf
    <3>3. i \in Ids /\ w \in Ids
      BY <2>3, <3>2
    <3>4. Zero[i] = 0 /\ Zero[w] = 0
      BY <3>3, BagCounts
    <3>5. records'[i].time \in Nat /\ records'[w].time \in Nat
      BY <2>4, <2>5
    <3>6. QED
      BY <3>1, <3>4, <3>5
  <2>8. QED
    BY <2>6, <2>7
<1>6. ASSUME NEW s \in Slots, JobWrite(s)
      PROVE  EndsInv'
  <2>0. PICK k : k = passes[s].key
    OBVIOUS
  <2>1. /\ k \in DOMAIN users /\ DOMAIN users' = DOMAIN users
        /\ \A j \in DOMAIN users : j # k => users'[j] = users[j]
        /\ \A i \in Ids : users'[k].jf[i] = users[k].jf[i] + users[k].jfAmount[i]
        /\ records' = records
    BY <1>6, <2>0, ScoreWritten
  <2>2. ASSUME NEW j \in DOMAIN users, j # k PROVE Ends(j)'
    BY <2>1, <2>2 DEF EndsInv, Ends, RecordsOf, RecordIds
  <2>3. ASSUME NEW i \in RecordsOf(k), NEW w \in RecordsOf(k),
               records[i].kind = "Staked", records[w].kind = "Withdrawn",
               records[i].time <= records[w].time, ~records[w].late
        PROVE  users'[k].jf[i] - users'[k].jf[w] <= records[w].time - records[i].time
    <3>1. /\ users'[k].jf[i] = users[k].jf[i] + users[k].jfAmount[i]
          /\ users'[k].jf[w] = users[k].jf[w] + users[k].jfAmount[w]
          /\ records[i].time \in Nat /\ records[w].time \in Nat
          /\ users[k].jf[i] \in Nat /\ users[k].jfAmount[i] \in Nat
          /\ users[k].jf[w] \in Nat /\ users[k].jfAmount[w] \in Nat /\ users[k].jfTime \in Nat
      BY <1>1, <1>2, <2>1 DEF RecordsOf
    <3>2. Scores(k) /\ i \in Ids /\ w \in Ids
      BY <1>2, <2>1 DEF ScoresInv, RecordsOf
    <3>3. /\ users[k].jfAmount[i] <= 1 /\ users[k].jfAmount[w] <= 1
          /\ users[k].jfAmount[i] = 1 => records[i].time <= users[k].jfTime
          /\ users[k].jf[i] > 0 => /\ users[k].jfAmount[i] = 1
                                   /\ users[k].jf[i] <= users[k].jfTime - records[i].time
          /\ users[k].jf[w] > 0 => users[k].jfAmount[w] = 1
          /\ records[w].time <= users[k].jfTime => users[k].jfAmount[w] = 1
      BY <2>3, <3>2 DEF Scores
    <3>4. users[k].jf[i] - users[k].jf[w] <= records[w].time - records[i].time
      BY <2>1, <2>3 DEF EndsInv, Ends
    <3>5. CASE users[k].jfAmount[w] = 1
      BY <3>1, <3>3, <3>4, <3>5
    <3>6. CASE users[k].jfAmount[i] = 0
      BY <2>3, <3>1, <3>3, <3>6
    <3>7. CASE users[k].jfAmount[i] = 1 /\ users[k].jfAmount[w] = 0
      <4>1. users[k].jf[w] = 0 /\ records[w].time > users[k].jfTime
        BY <3>1, <3>3, <3>7
      <4>2. users[k].jf[i] = 0 \/ users[k].jf[i] <= users[k].jfTime - records[i].time
        BY <3>1, <3>3
      <4>3. QED
        BY <3>1, <3>3, <3>7, <4>1, <4>2
    <3>8. users[k].jfAmount[i] \in {0, 1} /\ users[k].jfAmount[w] \in {0, 1}
      BY <3>1, <3>3
    <3>9. QED
      BY <3>5, <3>6, <3>7, <3>8
  <2>4. Ends(k)'
    BY <2>1, <2>3 DEF Ends, RecordsOf, RecordIds
  <2>5. QED
    BY <2>1, <2>2, <2>4 DEF EndsInv
<1>7. QED
  BY <1>3, <1>5, <1>6, RowsWritten

-----------------------------------------------------------------------------
(***************************************************************************)
(* The theorems.                                                           *)
(***************************************************************************)
LEMMA InvInit ==
  ASSUME Init
  PROVE  Inv
<1>1. TypeInv
  BY TypeInit
<1>2. DOMAIN users = {} /\ RecordIds = {}
  BY DEF Init, RecordIds
<1>3. TotalsMatchRecords /\ ScoresInv /\ EndsInv
  BY <1>2 DEF TotalsMatchRecords, ScoresInv, EndsInv
<1>4. OnePass
  BY DEF Init, OnePass
<1>5. CopiesInv
  <2>1. 1..Len(ops) = {}
    BY DEF Init
  <2>2. QED
    BY <1>2, <2>1 DEF CopiesInv
<1>6. QED
  BY <1>1, <1>3, <1>4, <1>5 DEF Inv

LEMMA InvStep ==
  ASSUME Inv, [Next]_vars
  PROVE  Inv'
<1>1. TypeInv' /\ TotalsMatchRecords' /\ CopiesInv'
  BY TypeStep, TotalsStep, CopiesStep DEF Inv
<1>2. ASSUME ~overlapped' PROVE OnePass' /\ ScoresInv' /\ EndsInv'
  <2>1. ~overlapped
    BY <1>2, OverlapStays
  <2>2. OnePass /\ ScoresInv /\ EndsInv
    BY <2>1 DEF Inv
  <2>3. QED
    BY <1>2, <2>2, OnePassStep, ScoresStep, EndsStep DEF Inv
<1>3. QED
  BY <1>1, <1>2 DEF Inv

\* The inductive invariant: types, totals, the records of each operation and, while no
\* two passes overlapped, the one pass with its copies and the scores of every row.
THEOREM Invariant == Spec => []Inv
<1>1. Init => Inv
  BY InvInit
<1>2. Inv /\ [Next]_vars => Inv'
  BY InvStep
<1>3. QED
  BY <1>1, <1>2, PTL DEF Spec

\* Types of the tables, the process and its passes.
THEOREM TypeCorrect == Spec => []TypeOK
<1>1. Inv => TypeOK
  <2> SUFFICES ASSUME Inv PROVE TypeOK
    OBVIOUS
  <2>1. ProcessInv /\ ChainInv /\ UsersInv /\ PassesInv
    BY DEF Inv, TypeInv
  <2>2. \E K \in SUBSET Keys : users \in [K -> Row]
    BY <2>1 DEF UsersInv
  <2>3. \A s \in Slots :
          \/ passes[s] = Off
          \/ /\ passes[s].pc \in {"read", "rows", "write"}
             /\ passes[s].time \in 1..now
             /\ DOMAIN passes[s].todo \subseteq DOMAIN users
             /\ passes[s].pc = "write" => passes[s].key \in DOMAIN passes[s].todo
    BY <2>1 DEF PassesInv, PassOK
  <2>4. now \in 0..MaxHours /\ lastRun \in 0..MaxHours
    BY <2>1, ScoreConstantsOK DEF ProcessInv
  <2>5. mode \in {"down", "indexing", "scoring"} /\ overlapped \in BOOLEAN
        /\ crashes \in 0..MaxCrashes /\ faults \in 0..MaxFaults /\ retries \in 0..MaxFaults
    BY <2>1 DEF ProcessInv
  <2>6. QED
    BY <2>1, <2>2, <2>3, <2>4, <2>5 DEF TypeOK, ChainInv
<1>2. QED
  BY <1>1, Invariant, PTL

\* The total of a row is always the sum of its operation records, also when passes of
\* the job overlap.
THEOREM TotalsAreRecords == Spec => []TotalsMatchRecords
<1>1. Inv => TotalsMatchRecords
  BY DEF Inv
<1>2. QED
  BY <1>1, Invariant, PTL

\* Without overlapping passes, no record is in jf_amount twice, and of an operation that
\* the listener stored again at most one record more for every crash and every pass that
\* stored a batch and did not advance.
THEOREM OperationsCountedPerReading == Spec => []CountedPerReading
<1>1. Inv => CountedPerReading
  <2> SUFFICES ASSUME Inv, ~overlapped
               PROVE  /\ \A k \in DOMAIN users : \A i \in Ids : users[k].jfAmount[i] <= 1
                      /\ \A o \in 1..Len(ops) :
                           Cardinality(CountedCopies(o)) <= 1 + crashes + retries
    BY DEF CountedPerReading
  <2>1. \A k \in DOMAIN users : \A i \in Ids : users[k].jfAmount[i] <= 1
    BY DEF Inv, ScoresInv, Scores
  <2>2. ASSUME NEW o \in 1..Len(ops)
        PROVE  Cardinality(CountedCopies(o)) <= 1 + crashes + retries
    <3>1. ChainInv /\ indexed \in Nat /\ crashes \in Nat /\ retries \in Nat
      BY DEF Inv, TypeInv, ChainInv, ProcessInv
    <3>2. CountedCopies(o) \in SUBSET Copies(o)
      BY DEF CountedCopies, Copies
    <3>3. IsFiniteSet(Copies(o)) /\ Cardinality(Copies(o)) \in Nat
      BY <3>1, CopiesFinite
    <3>4. /\ Cardinality(CountedCopies(o)) <= Cardinality(Copies(o))
          /\ Cardinality(CountedCopies(o)) \in Nat
      BY <3>2, <3>3, FS_Subset, FS_CardinalityType
    <3>5. Cardinality(Copies(o)) <= crashes + retries + (IF o <= indexed THEN 1 ELSE 0)
      BY DEF Inv, CopiesInv
    <3>6. QED
      BY <3>1, <3>3, <3>4, <3>5
  <2>3. QED
    BY <2>1, <2>2
<1>2. QED
  BY <1>1, Invariant, PTL

\* Without overlapping passes, a record is credited with no more hours than lie between
\* its operation and jf_time, and a stake earns for no more hours than lie between it and
\* its withdrawal, unless the withdrawal was stored late.
THEOREM HoursNotOvercredited == Spec => []NeverOvercredited
<1>1. Inv => NeverOvercredited
  <2> SUFFICES ASSUME Inv, ~overlapped, NEW k \in DOMAIN users, NEW i \in RecordsOf(k)
               PROVE  LET jf == users[k].jf
                      IN /\ jf[i] > 0 => jf[i] <= users[k].jfTime - records[i].time
                         /\ \A w \in RecordsOf(k) :
                              /\ records[i].kind = "Staked" /\ records[w].kind = "Withdrawn"
                              /\ records[i].time <= records[w].time /\ ~records[w].late
                              => jf[i] - jf[w] <= records[w].time - records[i].time
    BY DEF NeverOvercredited
  <2>1. Scores(k) /\ Ends(k)
    BY DEF Inv, ScoresInv, EndsInv
  <2>2. QED
    BY <2>1 DEF Scores, Ends
<1>2. QED
  BY <1>1, Invariant, PTL

\* Without overlapping passes, the job leaves out no operation but the late ones.
THEOREM OnlyLateLeftOut == Spec => []OnlyLateSkipped
<1>1. Inv => OnlyLateSkipped
  <2> SUFFICES ASSUME Inv, ~overlapped, NEW k \in DOMAIN users, NEW i \in RecordsOf(k),
                      records[i].time <= users[k].jfTime /\ ~records[i].late
               PROVE  users[k].jfAmount[i] >= 1
    BY DEF OnlyLateSkipped
  <2>1. users[k].jfAmount[i] = 1
    BY DEF Inv, ScoresInv, Scores
  <2>2. QED
    BY <2>1
<1>2. QED
  BY <1>1, Invariant, PTL

\* Without overlapping passes, no step takes points back or moves jf_time back.
THEOREM ScoresOnlyGrow == Spec => ScoreMonotone
<1> DEFINE Grows == ~overlapped' => \A k \in DOMAIN users :
              /\ users'[k].jfTime >= users[k].jfTime
              /\ \A i \in Ids : users'[k].jf[i] >= users[k].jf[i]
<1>1. ASSUME Inv, [Next]_vars PROVE Grows
  <2> SUFFICES ASSUME ~overlapped', NEW k \in DOMAIN users
               PROVE  /\ users'[k].jfTime >= users[k].jfTime
                      /\ \A i \in Ids : users'[k].jf[i] >= users[k].jf[i]
    OBVIOUS
  <2>1. OnePass /\ TypeInv
    BY <1>1, OverlapStays DEF Inv
  <2>2. /\ users[k].jfTime \in Nat
        /\ \A i \in Ids : users[k].jf[i] \in Nat /\ users[k].jfAmount[i] \in Nat
    BY <2>1 DEF TypeInv, UsersInv, Row
  <2>3. ASSUME users'[k].jfTime = users[k].jfTime, users'[k].jf = users[k].jf
        PROVE  /\ users'[k].jfTime >= users[k].jfTime
               /\ \A i \in Ids : users'[k].jf[i] >= users[k].jf[i]
    BY <2>2, <2>3
  <2>4. CASE UNCHANGED tables
    BY <2>3, <2>4 DEF tables
  <2>5. ASSUME NEW n \in 1..MaxOps, UpdateDbUserAmount(n)
        PROVE  users'[k].jfTime = users[k].jfTime /\ users'[k].jf = users[k].jf
    <3>1. users'[k] = IF k \in KeysIn(n) THEN Upsert(k, NewIds(n, k)) ELSE users[k]
      BY <2>5, StoredBatch
    <3>2. QED
      BY <2>1, <3>1, UpsertedRow
  <2>6. ASSUME NEW s \in Slots, JobWrite(s)
        PROVE  /\ users'[k].jfTime >= users[k].jfTime
               /\ \A i \in Ids : users'[k].jf[i] >= users[k].jf[i]
    <3>1. CASE k # passes[s].key
      BY <2>1, <2>2, <2>6, <3>1, ScoreWritten
    <3>2. CASE k = passes[s].key
      <4>1. /\ Due(k) /\ users'[k].jfTime = lastRun
            /\ \A i \in Ids : users'[k].jf[i] = users[k].jf[i] + users[k].jfAmount[i]
        BY <2>1, <2>6, <3>2, ScoreWritten
      <4>2. users[k].jfTime <= lastRun
        BY <4>1 DEF Due
      <4>3. \A i \in Ids : users'[k].jf[i] >= users[k].jf[i]
        BY <2>2, <4>1
      <4>4. QED
        BY <4>1, <4>2, <4>3
    <3>3. QED
      BY <3>1, <3>2
  <2>7. QED
    BY <1>1, <2>3, <2>4, <2>5, <2>6, RowsWritten
<1>2. Inv /\ [Next]_vars => [Grows]_vars
  BY <1>1
<1>3. QED
  BY <1>2, Invariant, PTL DEF Spec, ScoreMonotone
=============================================================================
