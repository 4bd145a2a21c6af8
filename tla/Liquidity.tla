------------------------------- MODULE Liquidity -------------------------------
(***************************************************************************)
(* The liquidity tables of one chain: passes of the listener that parse    *)
(* the events of the pool it watches, store them and bring the pool's row  *)
(* up to date with calls to the contract (liquidity_pool_sync.go), and the *)
(* requests that list and add up these rows (liquidity_pool_service.go,    *)
(* liquidity_pool_api.go).                                                 *)
(*                                                                         *)
(* A block holds one pool event and is named by its position in log.  A    *)
(* range may end anywhere in log: the blocks behind its end stand for the  *)
(* confirmations and for those that are not there yet.                     *)
(* The contract's reserves after n blocks are named by the number of the   *)
(* pool's events up to n, 0 standing for reserves (and price) "0".         *)
(***************************************************************************)
EXTENDS Integers, SequencesExt

CONSTANTS
  Pools, Users, Kinds,
  Window,                          \* seven days, in steps of the clock
  Day,                             \* a day
  MaxPageSize, DefaultPageSize,    \* 100 and 20
  MaxLog, MaxTime,                 \* bounds: blocks, clock
  MaxCrashes, MaxFaults            \* bounds: crashes, failed or unacknowledged calls

ZeroAddress == "0x0"

ASSUME LiquidityConstantsOK ==
  /\ Kinds \subseteq {"swap01", "swap10", "add", "remove"}
  /\ Day \in 1..Window /\ DefaultPageSize \in 1..MaxPageSize
  /\ {Window, MaxPageSize, MaxLog, MaxTime, MaxCrashes, MaxFaults} \subseteq Nat
  /\ ZeroAddress \notin Users         \* it sends no transactions

VARIABLES
  log,      \* events of the pools of the chain, oldest first; never changes
  now,
  \* the database
  events,   \* liquidity_pool_events, in the order of their ids
  pools,    \* liquidity_pools: the row of a pool
  made,     \* the pools with a row, oldest row first
  height,   \* chain.last_block_num
  \* the listener
  pc, watched, lastBlockNum, targetBlockNum,
  parsed,   \* the parsed events of this pass, by position
  \* the API
  reader,   \* the request being answered
  crashes, faults

tables   == <<events, pools, made, height>>
listener == <<pc, watched, lastBlockNum, targetBlockNum, parsed>>
counters == <<crashes, faults>>
vars == <<log, now, tables, listener, reader, counters>>

NoRow == [count |-> 0, tokens |-> FALSE]
\* GetLiquidityStats, GetLiquidityPoolEvents, PostLiquidityPools for all pools, and
\* the growth of one of the pools that GetRewardDistribution has listed.
Requests == {"stats", "events", "pools", "growth"}
NoRequest == [request |-> "none"]
NoEvents == <<>>

Event == [kind : Kinds, pool : Pools, user : Users]
Of(p, n) == {i \in 1..n : i <= Len(log) /\ log[i].pool = p}
Version(p, n) == Cardinality(Of(p, n))
HasRow(p) == p \in ToSet(made)
RowsOf(p) == {i \in DOMAIN events : log[events[i].at].pool = p}

TypeOK ==
  /\ log \in [1..MaxLog -> Event] /\ now \in 0..MaxTime
  /\ \A i \in DOMAIN events : events[i] \in
       [at : DOMAIN log, sender : Users \cup {ZeroAddress}, tokens : BOOLEAN, created : 0..now]
  /\ made \in Seq(Pools) /\ IsInjective(made)
  /\ \A p \in Pools : IF HasRow(p)
       THEN pools[p] \in [tokens : BOOLEAN, count : Nat \ {0}, reserves : 0..Version(p, Len(log)),
                          last : Of(p, Len(log))]
       ELSE pools[p] = NoRow
  /\ height \in 0..Len(log)
  /\ pc \in {"down", "idle", "parsed"} /\ watched \in Pools
  /\ lastBlockNum \in 0..Len(log) + 1 /\ targetBlockNum \in 0..Len(log)
  /\ DOMAIN parsed \subseteq Of(watched, targetBlockNum)
  /\ reader # NoRequest => reader.request \in Requests /\ reader.next \in 2..4
  /\ crashes \in 0..MaxCrashes /\ faults \in 0..MaxFaults

Init ==
  /\ log \in [1..MaxLog -> Event] /\ now = 0
  /\ events = <<>> /\ pools = [p \in Pools |-> NoRow] /\ made = <<>> /\ height = 0
  /\ pc = "down" /\ watched \in Pools /\ lastBlockNum = 0 /\ targetBlockNum = 0
  /\ parsed = NoEvents
  /\ reader = NoRequest
  /\ crashes = 0 /\ faults = 0

\* k calls fail.
Failing(k) == faults + k <= MaxFaults /\ faults' = faults + k

-----------------------------------------------------------------------------
Tick ==
  /\ now < MaxTime
  /\ now' = now + 1
  /\ UNCHANGED <<log, tables, listener, reader, counters>>

-----------------------------------------------------------------------------
(***************************************************************************)
(* The listener's pass, as far as it matters to these tables.              *)
(***************************************************************************)

\* A start, with the contract that the row of the chain names by then.
Boot(p) ==
  /\ pc = "down"
  /\ pc' = "idle" /\ watched' = p /\ lastBlockNum' = height
  /\ targetBlockNum' = 0 /\ parsed' = NoEvents
  /\ UNCHANGED <<log, now, tables, reader, counters>>

Crash ==
  /\ pc # "down" /\ crashes < MaxCrashes
  /\ crashes' = crashes + 1
  /\ pc' = "down" /\ targetBlockNum' = 0 /\ parsed' = NoEvents
  /\ UNCHANGED <<log, now, tables, watched, lastBlockNum, reader, faults>>

\* Mutant of Batch: the range is read up to the head.
BatchToLatest(target) == {i \in Of(watched, Len(log)) : i >= lastBlockNum}

Batch(target) == {i \in Of(watched, target) : i >= lastBlockNum}

\* Mutant of NeedsCall: whatever the row says is taken.
NeedsCallWithoutRow == ~HasRow(watched)

\* getPoolTokenAddresses asks the contract when there is no row, or one with zero
\* addresses; the update of that row has empty numbers, which PostgreSQL refuses.
NeedsCall == ~pools[watched].tokens

\* Ends of a range: some blocks behind the head.  The chain only grows, so no range
\* ends before one that was stored.
Targets == {n \in DOMAIN log : n > lastBlockNum /\ n >= height}

\* GetUserAddress and the parse functions, and CreateInBatches in the transaction
\* that follows: created_at is set then, and nobody sees the rows before the commit.
\* The sender of a transaction that cannot be fetched is stored as the zero address,
\* as are tokens that the contract was asked for in vain.
Parse(target) ==
  /\ pc = "idle" /\ Batch(target) # {}
  /\ pc' = "parsed" /\ targetBlockNum' = target
  /\ \E lost \in SUBSET Batch(target), blind \in SUBSET Batch(target) :
       /\ blind # {} => NeedsCall
       /\ Failing(Cardinality(lost) + Cardinality(blind))
       /\ parsed' = [i \in Batch(target) |->
                       [sender |-> IF i \in lost THEN ZeroAddress ELSE log[i].user,
                        tokens |-> i \notin blind /\ (NeedsCall \/ pools[watched].tokens),
                        created |-> now]]
  /\ UNCHANGED <<log, now, tables, watched, lastBlockNum, reader, crashes>>

\* No events in the range, or eth_getLogs fails, which is only logged.
EmptyPass(target) ==
  /\ pc = "idle"
  /\ \/ Batch(target) = {} /\ UNCHANGED faults
     \/ Failing(1)
  /\ height' = target /\ lastBlockNum' = target + 1
  /\ UNCHANGED <<log, now, events, pools, made, pc, watched, targetBlockNum, parsed, reader,
                 crashes>>

\* The rows of the transaction, in the order of the chain.
NewEvents ==
  LET ids == CHOOSE f \in [1..Cardinality(DOMAIN parsed) -> DOMAIN parsed] :
               \A j, k \in DOMAIN f : j < k => f[j] < f[k]
  IN [k \in DOMAIN ids |-> [at |-> ids[k], sender |-> parsed[ids[k]].sender,
                            tokens |-> parsed[ids[k]].tokens,
                            created |-> parsed[ids[k]].created]]

Least(m, n) == IF m < n THEN m ELSE n

LastEvent == CHOOSE i \in DOMAIN parsed : \A j \in DOMAIN parsed : j <= i

\* Mutant of ReservesAt: the state before the events is asked for.
ReservesAtBefore(n) == Version(watched, lastBlockNum)

\* GetPoolReserves asks a node that has at least the blocks of the range.
ReservesAt(n) == Version(watched, n)

\* updateLiquidityPoolInfo, with reserves r; t: a new row's tokens are known.
PoolRow(t, r) ==
  IF HasRow(watched)
  THEN [pools[watched] EXCEPT !.count = @ + Cardinality(DOMAIN parsed), !.last = LastEvent,
                              !.reserves = r]
  ELSE [tokens |-> t, count |-> Cardinality(DOMAIN parsed), reserves |-> r,
        last |-> LastEvent]

\* The statements of one transaction, when none of them fails; k other calls do.
WriteRows(k) ==
  \E t \in BOOLEAN, n \in targetBlockNum..Len(log), answered \in BOOLEAN :
    /\ t \/ ~HasRow(watched)
    /\ Failing(k + (IF t THEN 0 ELSE 1) + (IF answered THEN 0 ELSE 1))
    /\ events' = events \o NewEvents
    /\ pools' = [pools EXCEPT ![watched] = PoolRow(t, IF answered THEN ReservesAt(n) ELSE 0)]
    /\ made' = IF HasRow(watched) THEN made ELSE Append(made, watched)

EndPass ==
  /\ pc = "parsed" /\ pc' = "idle" /\ targetBlockNum' = 0 /\ parsed' = NoEvents
  /\ UNCHANGED <<log, now, watched, reader, crashes>>

\* saveLiquidityPoolEvents commits, and so do the other handlers of the pass.
Save ==
  /\ EndPass /\ WriteRows(0)
  /\ height' = targetBlockNum /\ lastBlockNum' = targetBlockNum + 1

\* It commits, but the answer is lost or another handler of the pass fails: the
\* range will be read again.
SaveUnacknowledged ==
  /\ EndPass /\ WriteRows(1)
  /\ height' = targetBlockNum /\ UNCHANGED lastBlockNum

\* Mutant of SaveFails: tx_count is added through the global connection.
SaveFailsCounting ==
  /\ EndPass /\ Failing(1)
  /\ pools' = IF HasRow(watched)
              THEN [pools EXCEPT ![watched].count = @ + Cardinality(DOMAIN parsed)] ELSE pools
  /\ height' \in {height, targetBlockNum}
  /\ UNCHANGED <<events, made, lastBlockNum>>

\* It is rolled back; the block number, written through the global connection as
\* its last statement, may stay.
SaveFails ==
  /\ EndPass /\ Failing(1)
  /\ height' \in {height, targetBlockNum}
  /\ UNCHANGED <<events, pools, made, lastBlockNum>>

Listener ==
  \/ \E p \in Pools : Boot(p)
  \/ Crash
  \/ \E target \in Targets : Parse(target) \/ EmptyPass(target)
  \/ Save \/ SaveUnacknowledged \/ SaveFails

-----------------------------------------------------------------------------
(***************************************************************************)
(* Sums over events and lists of pools.                                    *)
(***************************************************************************)
Kind(i) == log[events[i].at].kind
Swaps == {i \in DOMAIN events : Kind(i) \in {"swap01", "swap10"}}

\* A swap takes 2 of token0, or 1 of token1.
In0(i) == IF Kind(i) = "swap01" THEN 2 ELSE 0
In1(i) == IF Kind(i) = "swap10" THEN 1 ELSE 0

\* calculateTotalFees takes the first amount that is not zero, calculateFeesTodayChange
\* that of token0 going in; the rate is the same.
Fee(i) == IF In0(i) > 0 THEN In0(i) ELSE In1(i)
FeesOf(S) == MapThenSumSet(Fee, Swaps \cap S)
TotalFees == FeesOf(DOMAIN events)
FeesToday == MapThenSumSet(In0, {i \in Swaps : events[i].created \div Day = now \div Day})

\* is_active: the code never deactivates a pool.
ActivePools == made

\* ListUserPoolAddresses compares user_address with the address of the request as it
\* is: users are those that ask in the spelling that is stored, that of from.Hex().
UserPools(u) == {p \in Pools : \E i \in RowsOf(p) : events[i].sender = u}

\* Mutant of ListPage: the page that is asked for is taken for its offset.
ListPageByNumber(list, page, size) == SubSeq(list, page, Least(page + size - 1, Len(list)))

\* ORDER BY created_at DESC OFFSET (page - 1) * size LIMIT size.
ListPage(list, page, size) ==
  SubSeq(list, (page - 1) * size + 1, Least(page * size, Len(list)))

PageSize(size) == IF size \in 1..MaxPageSize THEN size ELSE DefaultPageSize

\* The rows of pools in scope, newest first.
NewestFirst(scope) ==
  LET ids == {i \in DOMAIN ActivePools : ActivePools[i] \in scope}
      newest == CHOOSE f \in [1..Cardinality(ids) -> ids] :
                  \A j, k \in DOMAIN f : j < k => f[j] > f[k]
  IN [k \in DOMAIN newest |-> ActivePools[newest[k]]]

\* PostLiquidityPools, GetPoolPerformance and GetRewardDistribution: a page of all
\* active pools, or of those of a user.
PoolPage(scope, page, size) == ListPage(NewestFirst(scope), page, PageSize(size))

-----------------------------------------------------------------------------
(***************************************************************************)
(* Requests of several queries, between which the listener commits.        *)
(***************************************************************************)

\* Mutant of StatsQueries: totals before parts.
StatsQueriesReversed == <<"total", "active", "today", "fees">>

\* GetLiquidityStats, when it has valued the pools of the user.
StatsQueries == <<"fees", "today", "active", "total">>

\* GetRewardDistribution looks at the clock once; then come the queries of each pool.
GrowthQueries == <<"asked", "day", "last", "prev">>

\* Mutant of ListQueries: the rows are fetched before they are counted.
ListQueriesReversed == <<"rows", "count">>

\* A list and its total: Count, then Find with offset and limit.
ListQueries == <<"count", "rows">>

Queries(request) ==
  CASE request = "stats"  -> StatsQueries
    [] request = "growth" -> GrowthQueries
    [] OTHER              -> ListQueries

Listed(request) == IF request = "events" THEN events ELSE ActivePools

\* computeVolumeUSDForPeriod: created_at >= from AND created_at < to.  The result is
\* kept as the rows that are added up, on the side of the stable token: the listener
\* leaves the symbols empty, and with empty symbols every volume is 0.
SwapsBetween(p, from, to) ==
  {i \in Swaps \cap RowsOf(p) : events[i].created \in from..(to - 1)}

\* compute24hVolumeUSD looks at the clock itself, and knows no end.
SwapsOfDay(p) == {i \in Swaps \cap RowsOf(p) : events[i].created >= now - Day}

LastWeek(p, asked) == SwapsBetween(p, asked - Window, asked)

\* Mutant of WeekBefore: it looks at the clock again.
WeekBeforeNow(p, asked) == SwapsBetween(p, now - 2 * Window, now - Window)

WeekBefore(p, asked) == SwapsBetween(p, asked - 2 * Window, asked - Window)

\* What query q of request r finds; rows, of the table by then, is history.
Query(q, r) ==
  CASE q = "fees"   -> [sum |-> TotalFees, rows |-> Len(events)]
    [] q = "today"  -> [sum |-> FeesToday, rows |-> Len(events)]
    [] q = "active" -> Len(ActivePools)
    [] q = "total"  -> Len(made)
    [] q = "asked"  -> [time |-> now, rows |-> Len(events)]
    [] q = "day"    -> SwapsOfDay(r.pool)
    [] q = "last"   -> LastWeek(r.pool, r.got["asked"].time)
    [] q = "prev"   -> WeekBefore(r.pool, r.got["asked"].time)
    [] q \in {"count", "rows"} -> Len(Listed(r.request))

\* Request r after its next query.
Queried(r) ==
  LET q == Queries(r.request)[r.next]
  IN [r EXCEPT !.next = @ + 1,
               !.got = [x \in DOMAIN r.got \cup {q} |-> IF x = q THEN Query(q, r) ELSE r.got[x]]]

\* Growth is asked of a pool in the table.
PoolsAsked(request) == IF request = "growth" THEN ToSet(ActivePools) ELSE {"all"}

RequestBegin(request) ==
  /\ reader = NoRequest
  /\ \E p \in PoolsAsked(request) :
       reader' = Queried([request |-> request, next |-> 1, got |-> <<>>, pool |-> p])
  /\ UNCHANGED <<log, now, tables, listener, counters>>

LastQuery == reader.next = Len(Queries(reader.request))

RequestNext ==
  /\ reader # NoRequest /\ ~LastQuery
  /\ reader' = Queried(reader)
  /\ UNCHANGED <<log, now, tables, listener, counters>>

\* The last query and the answer.
RequestReply ==
  /\ reader # NoRequest /\ LastQuery
  /\ reader' = NoRequest
  /\ UNCHANGED <<log, now, tables, listener, counters>>

Api ==
  \/ \E request \in Requests : RequestBegin(request)
  \/ RequestNext \/ RequestReply

Next == Tick \/ Listener \/ Api

Spec == Init /\ [][Next]_vars

\* The answer, if the last query is made now.
Answer == Queried(reader).got
Answering(request) == reader # NoRequest /\ reader.request = request /\ LastQuery

-----------------------------------------------------------------------------
(***************************************************************************)
(* Properties                                                              *)
(***************************************************************************)

\* tx_count of a pool is the number of its stored events, however often a range is
\* stored again and whatever fails, and no event is without a pool row
\* (updateLiquidityPoolInfo in the transaction of saveLiquidityPoolEvents).
TxCountMatchesRows ==
  \A p \in Pools : pools[p].count = Cardinality(RowsOf(p))

\* Reserves and price of a pool are never older than an event that is stored of it,
\* unless the call to the contract failed (GetPoolReserves after the insertion).
ReservesFollowEvents ==
  \A i \in DOMAIN events : LET p == log[events[i].at].pool IN
    pools[p].reserves = 0 \/ pools[p].reserves >= Version(p, events[i].at)

\* A failed call spoils the one row it was made for: zero addresses that a failure
\* left in a pool's row are not passed on to its events, and reserves lost to a
\* failure come back with the next event (getPoolTokenAddresses, GetUserAddress,
\* updateLiquidityPoolInfo).
FailuresStayLocal ==
  Cardinality({i \in DOMAIN events : events[i].sender = ZeroAddress})
  + Cardinality({i \in DOMAIN events : ~events[i].tokens})
  + Cardinality({p \in ToSet(made) : ~pools[p].tokens})
  + Cardinality({p \in ToSet(made) : pools[p].reserves = 0}) <= faults

\* A user finds under "my" every pool with a stored event of his whose sender
\* could be fetched, and no other; the pages of a list hold each pool once, in the
\* largest size and beyond it (PostLiquidityPools).
MyPoolsFound ==
  \A size \in {MaxPageSize, MaxPageSize + 1} :
    LET Pages(scope) == FlattenSeq([n \in 1..Len(made) |-> PoolPage(scope, n, size)])
    IN /\ IsInjective(Pages(Pools)) /\ ToSet(Pages(Pools)) = ToSet(ActivePools)
       /\ \A u \in Users : LET mine == Pages(UserPools(u)) IN
            /\ IsInjective(mine)
            /\ ToSet(mine) = {p \in ToSet(made) : \E i \in RowsOf(p) :
                               log[events[i].at].user = u /\ events[i].sender # ZeroAddress}

\* While the clock goes on and the listener commits between the queries of a growth
\* rate, the two weeks it compares share no swap and miss none that was stored when
\* the request looked at the clock; a swap that the answer has in the day and not in
\* the week has been created since then (GetRewardDistribution, Compute24hStats).
WeeksAddUp ==
  Answering("growth") =>
    LET asked == Answer["asked"].time
        weeks == {i \in Swaps \cap RowsOf(reader.pool) :
                    events[i].created \in (asked - 2 * Window)..(asked - 1)}
    IN /\ Answer["last"] \cap Answer["prev"] = {}
       /\ weeks \cap 1..Answer["asked"].rows \subseteq Answer["last"] \cup Answer["prev"]
       /\ Answer["last"] \cup Answer["prev"] \subseteq weeks
       /\ \A i \in Answer["day"] \ Answer["last"] : events[i].created >= asked

\* An answer never has more active pools than pools.  It may have more fees today
\* than fees, which it reads first, but by no more than those of the swaps that the
\* listener stored between the two queries (GetLiquidityStats).
StatsConsistent ==
  Answering("stats") =>
    LET fees == Answer["fees"]  today == Answer["today"]
    IN /\ Answer["active"] <= Answer["total"]
       /\ today.sum <= fees.sum + FeesOf((fees.rows + 1)..today.rows)

\* A page that begins within the total that comes with it is not empty, although the
\* listener commits between counting and listing (GetLiquidityPoolEvents,
\* ListActivePools).
PagesReachTotal ==
  Answering("events") \/ Answering("pools") => Answer["count"] <= Answer["rows"]
=============================================================================
