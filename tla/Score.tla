-------------------------------- MODULE Score --------------------------------
(***************************************************************************)
(* The stake ledger of the listener process and the hourly score job: how  *)
(* core.Start brings up the one or the other, the transaction with which   *)
(* the listener stores stake operations (updateDbUserAmount) and the job   *)
(* that turns them into points (computeIntegral).                          *)
(*                                                                         *)
(* One chain; a key is one row of table users (token, wallet).  A sum of   *)
(* amounts is represented by how often each operation record is in it, so  *)
(* total_amount, jf_amount and jf are bags of record numbers: jf counts    *)
(* for each record the hours whose points were added for it (a stake) or   *)
(* taken back for it (a withdrawal).  All operations are of one amount.    *)
(* Time is counted in hours.                                               *)
(***************************************************************************)
EXTENDS Integers, Sequences, FiniteSets

CONSTANTS
  Keys,         \* (token, wallet) pairs
  Slots,        \* passes of the job that may run at the same time
  StampScale,   \* clock units per unit the code takes a stamp of the contract for
  MaxHours,     \* bound: the clock
  MaxOps,       \* bound: stake operations on the chain
  MaxRecords,   \* bound: rows of user_operation_record
  MaxCrashes,   \* bound: process crashes
  MaxFaults     \* bound: failed queries and updates of the job, and passes of the
                \*   listener that store a batch and do not advance

ASSUME ScoreConstantsOK ==
  /\ StampScale \in Nat \ {0}
  /\ MaxHours \in Nat /\ MaxOps \in Nat /\ MaxRecords \in Nat
  /\ MaxCrashes \in Nat /\ MaxFaults \in Nat

VARIABLES
  now,         \* the clock
  ops,         \* operations on the chain, in order: [key, kind, stamp]
  indexed,     \* how many of them the listener has passed
  records,     \* table user_operation_record: [op, key, kind, time, late]
  users,       \* table users: a row for some of the keys
  mode,        \* the process: "down", "indexing" (StartSync blocks), "scoring"
  lastRun,     \* hour at which cron last fired
  passes,      \* passes[s]: a running pass of the job
  overlapped,  \* a pass was started while another one was running
  crashes, faults,
  retries      \* batches the listener stored and will read again

tables   == <<records, users>>
chain    == <<ops, indexed>>
job      == <<lastRun, passes, overlapped>>
counters == <<crashes, faults, retries>>
vars == <<now, chain, tables, mode, job, counters>>

Ids == 1..MaxRecords
Zero == [i \in Ids |-> 0]
One(S) == [i \in Ids |-> IF i \in S THEN 1 ELSE 0]
a (+) b == [i \in Ids |-> a[i] + b[i]]

RecordIds == 1..Len(records)
RecordsOf(k) == {i \in RecordIds : records[i].key = k}

Kinds == {"Staked", "Withdrawn"}

\* The hash of its transaction (op) tells which operation a record was made of.
Record == [op : Nat \ {0}, key : Keys, kind : Kinds, time : 0..MaxHours, late : BOOLEAN]

Row == [total : [Ids -> Nat], jfAmount : [Ids -> Nat], jf : [Ids -> Nat],
        jfTime : 0..MaxHours]

Off == [pc |-> "off"]

TypeOK ==
  /\ now \in 0..MaxHours /\ lastRun \in 0..MaxHours
  /\ ops \in Seq([key : Keys, kind : Kinds, stamp : 0..MaxHours])
  /\ indexed \in 0..Len(ops)
  /\ records \in Seq(Record)
  /\ Len(records) <= MaxRecords
  /\ \E K \in SUBSET Keys : users \in [K -> Row]
  /\ mode \in {"down", "indexing", "scoring"}
  /\ \A s \in Slots :
       \/ passes[s] = Off
       \/ /\ passes[s].pc \in {"read", "rows", "write"}
          /\ passes[s].time \in 1..now
          /\ DOMAIN passes[s].todo \subseteq DOMAIN users
          /\ passes[s].pc = "write" => passes[s].key \in DOMAIN passes[s].todo
  /\ overlapped \in BOOLEAN
  /\ crashes \in 0..MaxCrashes /\ faults \in 0..MaxFaults
  /\ retries \in 0..MaxFaults

Init ==
  /\ now = 0 /\ lastRun = 0
  /\ ops = <<>> /\ indexed = 0
  /\ records = <<>>
  /\ users = [k \in {} |-> Zero]
  /\ mode = "down"
  /\ passes = [s \in Slots |-> Off]
  /\ overlapped = FALSE
  /\ crashes = 0 /\ faults = 0 /\ retries = 0

-----------------------------------------------------------------------------
(***************************************************************************)
(* The clock and the chain (external).                                     *)
(***************************************************************************)
Hour ==
  /\ now < MaxHours
  /\ now' = now + 1
  /\ UNCHANGED <<chain, tables, mode, job, counters>>

OpsOf(k, kind) == {i \in 1..Len(ops) : ops[i].key = k /\ ops[i].kind = kind}

\* A wallet stakes on the chain, or withdraws one of its stakes.
Operate(k, kind) ==
  /\ Len(ops) < MaxOps
  /\ kind = "Withdrawn" => Cardinality(OpsOf(k, "Withdrawn")) < Cardinality(OpsOf(k, "Staked"))
  /\ ops' = Append(ops, [key |-> k, kind |-> kind, stamp |-> now])
  /\ UNCHANGED <<now, indexed, tables, mode, job, counters>>

-----------------------------------------------------------------------------
(***************************************************************************)
(* The process.                                                            *)
(***************************************************************************)

\* StartSync finds a chain to listen to: it waits for its goroutines for ever,
\* and core.Start gets no further.
BootIndexing ==
  /\ mode = "down" /\ mode' = "indexing"
  /\ UNCHANGED <<now, chain, tables, job, counters>>

\* StartSync returns (the query of table chain fails, or the table has no chain
\* with a contract address): InitComputeIntegral starts cron and blocks.
BootScoring ==
  /\ mode = "down" /\ mode' = "scoring"
  /\ UNCHANGED <<now, chain, tables, job, counters>>

\* Mutant of Crash: the listener steps back a block before the first one too.
CrashBeforeFirst ==
  /\ mode # "down" /\ crashes < MaxCrashes
  /\ crashes' = crashes + 1
  /\ mode' = "down"
  /\ passes' = [s \in Slots |-> Off]
  /\ indexed' \in {indexed, indexed - 1}
  /\ UNCHANGED <<now, ops, tables, lastRun, overlapped, faults, retries>>

\* The process dies.  A restarted listener may read its last block again.
Crash ==
  /\ mode # "down" /\ crashes < MaxCrashes
  /\ crashes' = crashes + 1
  /\ mode' = "down"
  /\ passes' = [s \in Slots |-> Off]
  /\ indexed' \in {indexed} \cup (IF indexed > 0 THEN {indexed - 1} ELSE {})
  /\ UNCHANGED <<now, ops, tables, lastRun, overlapped, faults, retries>>

-----------------------------------------------------------------------------
(***************************************************************************)
(* The listener stores a batch of operations (one transaction).            *)
(***************************************************************************)

\* time.UnixMilli of a stamp of the contract.
OperationTime(stamp) == stamp \div StampScale

\* Mutant of Upsert: total_amount = EXCLUDED.total_amount.
UpsertOverwrites(k, ids) ==
  IF k \in DOMAIN users
  THEN [users[k] EXCEPT !.total = One(ids)]
  ELSE [total |-> One(ids), jfAmount |-> Zero, jf |-> Zero, jfTime |-> now]

\* The upsert of a row: an insert leaves the score columns to their defaults,
\* jf_time to CURRENT_TIMESTAMP.
Upsert(k, ids) ==
  IF k \in DOMAIN users
  THEN [users[k] EXCEPT !.total = @ (+) One(ids)]
  ELSE [total |-> One(ids), jfAmount |-> Zero, jf |-> Zero, jfTime |-> now]

\* Mutant of Advance: the next pass begins with the last block of this one, which may
\* hold an operation.
AdvanceShort(n) ==
  \/ indexed' \in {indexed + n - 1, indexed + n} /\ retries' = retries
  \/ faults + retries < MaxFaults /\ retries' = retries + 1 /\ indexed' = indexed

\* The next pass begins behind the blocks of this one, or reads them again when
\* another handler of the pass fails or the acknowledgement of the commit is lost.
Advance(n) ==
  \/ indexed' = indexed + n /\ retries' = retries
  \/ faults + retries < MaxFaults /\ retries' = retries + 1 /\ indexed' = indexed

UpdateDbUserAmount(n) ==
  /\ mode = "indexing"
  /\ indexed + n <= Len(ops) /\ Len(records) + n <= MaxRecords
  /\ LET batch  == SubSeq(ops, indexed + 1, indexed + n)
         keys   == {batch[i].key : i \in 1..n}
         ids(k) == {Len(records) + i : i \in {j \in 1..n : batch[j].key = k}}
         late(op) == /\ op.key \in DOMAIN users
                     /\ OperationTime(op.stamp) <= users[op.key].jfTime
     IN /\ records' = records \o [i \in 1..n |->
              [op |-> indexed + i, key |-> batch[i].key, kind |-> batch[i].kind,
               time |-> OperationTime(batch[i].stamp),
               late |-> batch[i].key \notin DOMAIN users \/ late(batch[i])]]
        /\ users' = [k \in DOMAIN users \cup keys |->
              IF k \in keys THEN Upsert(k, ids(k)) ELSE users[k]]
  /\ Advance(n)
  /\ UNCHANGED <<now, ops, mode, job, crashes, faults>>

-----------------------------------------------------------------------------
(***************************************************************************)
(* The score job.                                                          *)
(***************************************************************************)

\* Mutant of JobBegin: the pass works with the time of the previous one.
JobBeginPrevious(s) ==
  /\ mode = "scoring" /\ now > lastRun
  /\ passes[s] = Off
  /\ lastRun' = now
  /\ passes' = [passes EXCEPT ![s] = [pc |-> "read", time |-> lastRun,
                                      todo |-> [k \in {} |-> Zero]]]
  /\ overlapped' = (overlapped \/ \E r \in Slots : passes[r] # Off)
  /\ UNCHANGED <<now, chain, tables, mode, counters>>

\* Cron fires on the hour and takes the time; it does not wait for a pass that
\* is still running, and makes up for no hour it missed.
JobBegin(s) ==
  /\ mode = "scoring" /\ now > lastRun
  /\ passes[s] = Off
  /\ lastRun' = now
  /\ passes' = [passes EXCEPT ![s] = [pc |-> "read", time |-> now,
                                      todo |-> [k \in {} |-> Zero]]]
  /\ overlapped' = (overlapped \/ \E r \in Slots : passes[r] # Off)
  /\ UNCHANGED <<now, chain, tables, mode, counters>>

\* The rows of the chain are read once, before the loop.
JobRead(s) ==
  /\ passes[s].pc = "read"
  /\ passes' = [passes EXCEPT ![s] =
       IF DOMAIN users = {} THEN Off ELSE [@ EXCEPT !.pc = "rows", !.todo = users]]
  /\ UNCHANGED <<now, chain, tables, mode, lastRun, overlapped, counters>>

\* Mutant of Window: only stakes are looked for.
WindowOfStakes(k, after, upto) ==
  {i \in RecordsOf(k) : records[i].time > after /\ records[i].time <= upto
                         /\ records[i].kind = "Staked"}

Window(k, after, upto) ==
  {i \in RecordsOf(k) : records[i].time > after /\ records[i].time <= upto}

\* The operations of the next row since its last score.
JobQuery(s, k) ==
  /\ passes[s].pc = "rows"
  /\ passes' = [passes EXCEPT ![s] =
       [pc |-> "write", time |-> @.time, todo |-> @.todo, key |-> k,
        found |-> Window(k, @.todo[k].jfTime, @.time)]]
  /\ UNCHANGED <<now, chain, tables, mode, lastRun, overlapped, counters>>

\* The pass without row k, over when no row is left.
Without(p, k) ==
  IF DOMAIN p.todo = {k} THEN Off
  ELSE [pc |-> "rows", time |-> p.time,
        todo |-> [j \in DOMAIN p.todo \ {k} |-> p.todo[j]]]

\* The columns the job writes, from the row it read: the points of the amount so
\* far are added, then the amount grows by what was found.  (The points of the
\* operations found are computed but their sum is dropped.)  jf_amount is not
\* among the columns when nothing was found.
Scored(row, old, found, time) ==
  LET jf == old.jf (+) old.jfAmount
  IN IF found = {} THEN [row EXCEPT !.jf = jf, !.jfTime = time]
     ELSE [row EXCEPT !.jf = jf, !.jfTime = time, !.jfAmount = old.jfAmount (+) One(found)]

JobWrite(s) ==
  /\ passes[s].pc = "write"
  /\ LET p == passes[s]
     IN /\ users' = [users EXCEPT ![p.key] = Scored(@, p.todo[p.key], p.found, p.time)]
        /\ passes' = [passes EXCEPT ![s] = Without(p, p.key)]
  /\ UNCHANGED <<now, chain, records, mode, lastRun, overlapped, counters>>

\* Mutant of JobFails: a failed query of a row's operations is taken for an empty
\* result (its "continue" is missing).
JobFailsGoesOn(s) ==
  /\ passes[s] # Off /\ passes[s].pc = "rows" /\ faults + retries < MaxFaults
  /\ faults' = faults + 1
  /\ \E k \in DOMAIN passes[s].todo :
       passes' = [passes EXCEPT ![s] = [pc |-> "write", time |-> @.time,
                                        todo |-> @.todo, key |-> k, found |-> {}]]
  /\ UNCHANGED <<now, chain, tables, mode, lastRun, overlapped, crashes, retries>>

\* A query or update fails: without the rules or the rows the pass is over, with
\* a failed query or update of one row it goes on to the next.
JobFails(s) ==
  /\ passes[s] # Off /\ faults + retries < MaxFaults
  /\ faults' = faults + 1
  /\ \/ passes[s].pc = "read" /\ passes' = [passes EXCEPT ![s] = Off]
     \/ /\ passes[s].pc = "rows"
        /\ \E k \in DOMAIN passes[s].todo : passes' = [passes EXCEPT ![s] = Without(@, k)]
     \/ passes[s].pc = "write" /\ passes' = [passes EXCEPT ![s] = Without(@, @.key)]
  /\ UNCHANGED <<now, chain, tables, mode, lastRun, overlapped, crashes, retries>>
-----------------------------------------------------------------------------
Pass(s) ==
  \/ JobBegin(s) \/ JobRead(s) \/ JobWrite(s)
  \/ passes[s].pc = "rows" /\ \E k \in DOMAIN passes[s].todo : JobQuery(s, k)

Index == \E n \in 1..MaxOps : UpdateDbUserAmount(n)

Boot == BootIndexing \/ BootScoring

Next ==
  \/ Hour \/ \E k \in Keys, kind \in Kinds : Operate(k, kind)
  \/ Boot \/ Crash \/ Index
  \/ \E s \in Slots : Pass(s) \/ JobFails(s)

Spec == Init /\ [][Next]_vars

\* The process is started again when it is down, its goroutines are scheduled
\* and the clock runs.
Fairness == WF_vars(Hour) /\ WF_vars(Boot) /\ WF_vars(Index) /\ \A s \in Slots : WF_vars(Pass(s))

FairSpec == Spec /\ Fairness
-----------------------------------------------------------------------------
(***************************************************************************)
(* Properties.                                                             *)
(***************************************************************************)

\* The total of a row is the sum of its operation records, whatever crashed,
\* was read twice or was scored meanwhile: both are written in one transaction
\* and the job writes its own columns only.
TotalsMatchRecords ==
  /\ \A i \in RecordIds : records[i].key \in DOMAIN users
  /\ \A k \in DOMAIN users : users[k].total = One(RecordsOf(k))

\* The records of an operation that are in jf_amount.
CountedCopies(o) ==
  {i \in RecordIds : records[i].op = o /\ users[records[i].key].jfAmount[i] > 0}

\* How often an operation counts.  As long as passes do not overlap, no record is
\* in jf_amount twice: the windows (jf_time, now] of successive passes are disjoint,
\* also when a pass fails half way or the process dies in it.  But nothing keeps
\* the listener from storing an operation again, and the second record counts as
\* well: an operation counts once, and once more at most for every crash and for
\* every pass of the listener that stored a batch and did not advance.
CountedPerReading ==
  ~overlapped =>
    /\ \A k \in DOMAIN users : \A i \in Ids : users[k].jfAmount[i] <= 1
    /\ \A o \in 1..Len(ops) : Cardinality(CountedCopies(o)) <= 1 + crashes + retries

\* Hours of points, as long as passes do not overlap.  A record is credited with no
\* more hours than lie between its operation and jf_time: an operation found by a
\* pass joins the amount only after that pass has added the points of the amount.
\* And a stake ends with its withdrawal: the hours added for the one less those taken
\* back for the other are at most the hours between the two.  This is said of a
\* withdrawal that was not late; one stored after jf_time has passed it never joins
\* the amount, and its stake earns on.
NeverOvercredited ==
  ~overlapped => \A k \in DOMAIN users : \A i \in RecordsOf(k) :
    LET jf == users[k].jf
    IN /\ jf[i] > 0 => jf[i] <= users[k].jfTime - records[i].time
       /\ \A w \in RecordsOf(k) :
            /\ records[i].kind = "Staked" /\ records[w].kind = "Withdrawn"
            /\ records[i].time <= records[w].time /\ ~records[w].late
            => jf[i] - jf[w] <= records[w].time - records[i].time

\* What the job leaves out was late: an operation whose time is past jf_time
\* when it is stored is in jf_amount once jf_time has passed it.
OnlyLateSkipped ==
  ~overlapped =>
    \A k \in DOMAIN users : \A i \in RecordsOf(k) :
      records[i].time <= users[k].jfTime /\ ~records[i].late
      => users[k].jfAmount[i] >= 1

\* Scores are never taken back and their time never goes back while passes do
\* not overlap.
ScoreMonotone ==
  [][~overlapped' => \A k \in DOMAIN users :
       /\ users'[k].jfTime >= users[k].jfTime
       /\ \A i \in Ids : users'[k].jf[i] >= users[k].jf[i]]_vars

-----------------------------------------------------------------------------
(***************************************************************************)
(* What the repository says and the code does not do.                      *)
(***************************************************************************)

\* Column users.jf_amount is "the total amount at the time the score is
\* computed": when the job has computed it, every operation up to then is in it.
AmountIsTotal ==
  [][\A k \in DOMAIN users :
       users'[k].jfTime # users[k].jfTime =>
         \A i \in RecordsOf(k) :
           records[i].time <= users'[k].jfTime => users'[k].jfAmount[i] >= 1]_vars

\* core.Start "starts a thread" for the listener and goes on to the score job:
\* a process that listens also scores.
ListenerScores == mode = "indexing" ~> (mode = "down" \/ \E s \in Slots : passes[s] # Off)
=============================================================================
