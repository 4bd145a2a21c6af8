--------------------------------- MODULE Login ---------------------------------
(***************************************************************************)
(* Login of the API process (auth_api.go, jwt_util.go) and what a logged   *)
(* in caller is shown (airDrop_api.go, airDrop_service.go): one-time       *)
(* nonces in Redis under the address as the client spelled it, concurrent  *)
(* verifications that read, check and delete a nonce in separate steps,    *)
(* tokens, and the rows of user_task_status that a login creates under the *)
(* lower-case address.                                                     *)
(*                                                                         *)
(* An address is a wallet and the form it is spelled in: lower-case,       *)
(* with upper-case digits (or 0X), or without 0x; IsHexAddress accepts all *)
(* of them.  Nonces are numbered in the order they are generated.          *)
(***************************************************************************)
EXTENDS Integers, SequencesExt

CONSTANTS
  Wallets, Requests,
  Addresses,                    \* [wallet, form], as clients spell them
  NonceTTL, JwtTTL,             \* lifetimes, in steps of the clock
  MaxPageSize, DefaultPageSize, \* of a task list: 100 and 20
  BoundTasks,                   \* tasks that airdrop_task_bindings gives an airdrop
  Listed,                       \* wallets with a proof in airdrop_whitelist
  MaxTime, MaxNonces, MaxTasks, \* bounds: clock, nonces generated, rows of tasks
  MaxFaults, MaxCrashes         \* bounds: failed calls, crashes of the API process

ASSUME LoginConstantsOK ==
  /\ Addresses \subseteq [wallet : Wallets, form : {"lower", "mixed", "bare"}]
  /\ NonceTTL \in Nat \ {0} /\ JwtTTL \in Nat \ {0}
  /\ MaxPageSize \in Nat /\ DefaultPageSize \in 1..MaxPageSize
  /\ Listed \subseteq Wallets /\ BoundTasks \subseteq Nat
  /\ MaxTime \in Nat /\ MaxNonces \in Nat /\ MaxTasks \in Nat
  /\ MaxFaults \in Nat /\ MaxCrashes \in Nat

VARIABLES
  now,
  redis,     \* redis[a]: the value of user_nonce_a
  issued,    \* history: the nonces, and whether the key was deleted since
  req,       \* req[r]: progress of a verification; "granted": its token is in use
  numTasks,  \* rows of tasks, ordered by task_id
  rows,      \* rows[w][t]: user_status of a lower-case address, 0 without a row
  faults, crashes

loginVars == <<redis, issued, req>>
taskVars == <<numTasks, rows>>
counters == <<faults, crashes>>
vars == <<now, loginVars, taskVars, counters>>

NoAddress == [wallet |-> "none", form |-> "none"]
NoKey == [nonce |-> 0, expires |-> 0]
NoToken == "none"
Nonces == 1..Len(issued)
Idle == [pc |-> "idle"]

Active  == {r \in Requests : req[r].pc \in {"checked", "deleted"}}
Granted == {r \in Requests : req[r].pc = "granted"}

TypeOK ==
  /\ now \in 0..MaxTime
  /\ redis \in [Addresses -> [nonce : 0..MaxNonces, expires : 0..(MaxTime + NonceTTL)]]
  /\ \A n \in Nonces : issued[n] \in [address : Addresses, at : 0..now, set : BOOLEAN,
                                      ended : BOOLEAN]
  /\ \A r \in Requests :
       /\ req[r].pc \in {"idle", "checked", "deleted", "granted", "lost"}
       /\ r \in Active \cup Granted =>
            /\ req[r].address \in Addresses /\ req[r].signer \in Wallets
            /\ req[r].nonce \in Nonces /\ req[r].at \in 0..now
  /\ numTasks \in 0..MaxTasks
  /\ rows \in [Wallets -> [1..MaxTasks -> 0..2]]
  /\ \A w \in Wallets : \A t \in 1..MaxTasks : rows[w][t] # 0 => t <= numTasks
  /\ faults \in 0..MaxFaults /\ crashes \in 0..MaxCrashes

Init ==
  /\ now = 0
  /\ redis = [a \in Addresses |-> NoKey] /\ issued = <<>>
  /\ req = [r \in Requests |-> Idle]
  /\ numTasks \in 0..MaxTasks
  /\ rows = [w \in Wallets |-> [t \in 1..MaxTasks |-> 0]]
  /\ faults = 0 /\ crashes = 0

Fault == faults < MaxFaults /\ faults' = faults + 1

\* strings.ToLower: a missing 0x stays missing.
Lower(a) == IF a.form = "mixed" THEN [a EXCEPT !.form = "lower"] ELSE a

-----------------------------------------------------------------------------
(***************************************************************************)
(* Nonces.                                                                 *)
(***************************************************************************)
\* Mutant of Put: minutes for seconds.
PutTooLong(a, n) == redis' = [redis EXCEPT ![a] = [nonce |-> n, expires |-> now + 60 * NonceTTL]]

Put(a, n) == redis' = [redis EXCEPT ![a] = [nonce |-> n, expires |-> now + NonceTTL]]

Record(a, set) ==
  issued' = Append(issued, [address |-> a, at |-> now, set |-> set, ended |-> FALSE])

\* The client is sent the nonce whether or not Redis has stored it.
GetNonce(a) ==
  /\ Len(issued) < MaxNonces
  /\ \/ /\ Put(a, Len(issued) + 1) /\ Record(a, TRUE)
        /\ UNCHANGED faults
     \/ /\ Fault /\ Record(a, FALSE)
        /\ UNCHANGED redis
  /\ UNCHANGED <<now, req, taskVars, crashes>>

\* Mutant of Matches: any nonce will do while one is stored.
MatchesAny(a, n) == redis[a].nonce # 0

Matches(a, n) == redis[a].nonce # 0 /\ redis[a].nonce = n

\* verifySignature compares addresses, whatever their spelling.
Signed(a, signer) == a.wallet = signer

\* Verify, up to the signature: one Redis read, then comparisons.  What is
\* refused changes nothing.
CheckNonce(r, a, n, signer) ==
  /\ req[r].pc = "idle"
  /\ Matches(a, n) /\ Signed(a, signer)
  /\ req' = [req EXCEPT ![r] = [pc |-> "checked", address |-> a, nonce |-> n,
                                signer |-> signer, at |-> now]]
  /\ UNCHANGED <<now, redis, issued, taskVars, counters>>

\* Mutants of Del: the key is lower-cased as the row is; every key goes.
DelLower(a) == redis' = [redis EXCEPT ![Lower(a)] = NoKey]
DelAll(a) == redis' = [b \in Addresses |-> NoKey]

Del(a) == redis' = [redis EXCEPT ![a] = NoKey]

\* Redis.Del, whose result is ignored, and GenerateJWT.  The key may hold a later
\* nonce by now: it goes with it.
DeleteNonce(r) ==
  /\ req[r].pc = "checked"
  /\ req' = [req EXCEPT ![r] = [pc |-> "deleted", address |-> req[r].address,
                nonce |-> req[r].nonce, signer |-> req[r].signer, at |-> req[r].at,
                expires |-> now + JwtTTL]]
  /\ \/ /\ Del(req[r].address)
        /\ issued' = [n \in Nonces |-> IF issued[n].address = req[r].address
                        THEN [issued[n] EXCEPT !.ended = TRUE] ELSE issued[n]]
        /\ UNCHANGED faults
     \/ Fault /\ UNCHANGED <<redis, issued>>
  /\ UNCHANGED <<now, taskVars, crashes>>

-----------------------------------------------------------------------------
(***************************************************************************)
(* Tasks of the logged in wallet.                                          *)
(***************************************************************************)

\* Mutants of Bind: the address keeps its spelling; a conflict sets the status again.
BindAsSpelled(a) ==
  IF a.form = "lower"
  THEN [rows EXCEPT ![a.wallet] = [t \in 1..MaxTasks |->
           IF t <= numTasks /\ @[t] = 0 THEN 1 ELSE @[t]]]
  ELSE rows
BindAgain(a) ==
  IF Lower(a).form = "lower"
  THEN [rows EXCEPT ![a.wallet] = [t \in 1..MaxTasks |-> IF t <= numTasks THEN 1 ELSE 0]]
  ELSE rows

\* INSERT ... ON CONFLICT DO NOTHING: the CHECK on wallet_address refuses an
\* address without 0x, and with it the whole statement.
Bind(a) ==
  IF Lower(a).form = "lower"
  THEN [rows EXCEPT ![a.wallet] = [t \in 1..MaxTasks |->
           IF t <= numTasks /\ @[t] = 0 THEN 1 ELSE @[t]]]
  ELSE rows

\* The rest of Verify: the insertion, whose error is ignored, and the reply.
Grant(r) ==
  /\ req[r].pc = "deleted"
  /\ \E fails \in BOOLEAN :
       /\ req' = [req EXCEPT ![r] = [pc |-> "granted", address |-> req[r].address,
                     nonce |-> req[r].nonce, signer |-> req[r].signer, at |-> req[r].at,
                     expires |-> req[r].expires, tasks |-> numTasks, unbound |-> fails]]
       /\ IF fails THEN Fault /\ UNCHANGED rows
                   ELSE rows' = Bind(req[r].address) /\ UNCHANGED faults
  /\ UNCHANGED <<now, redis, issued, numTasks, crashes>>

-----------------------------------------------------------------------------
(***************************************************************************)
(* The rest of the world: no code of the process adds tasks or completes   *)
(* them.                                                                   *)
(***************************************************************************)
AddTask ==
  /\ numTasks < MaxTasks
  /\ numTasks' = numTasks + 1
  /\ UNCHANGED <<now, loginVars, rows, counters>>

Complete(w, t) ==
  /\ rows[w][t] = 1
  /\ rows' = [rows EXCEPT ![w][t] = 2]
  /\ UNCHANGED <<now, loginVars, numTasks, counters>>

\* Redis drops a key when its time is over.
Tick ==
  /\ now < MaxTime
  /\ now' = now + 1
  /\ redis' = [a \in Addresses |-> IF redis[a].expires <= now' THEN NoKey ELSE redis[a]]
  /\ UNCHANGED <<issued, req, taskVars, counters>>

\* The API process dies: verifications under way end without a token.
Crash ==
  /\ crashes < MaxCrashes /\ Active # {}
  /\ crashes' = crashes + 1
  /\ req' = [r \in Requests |-> IF r \in Active THEN [pc |-> "lost"] ELSE req[r]]
  /\ UNCHANGED <<now, redis, issued, taskVars, faults>>

Next ==
  \/ \E a \in Addresses : GetNonce(a)
  \/ \E r \in Requests, a \in Addresses, n \in Nonces, w \in Wallets : CheckNonce(r, a, n, w)
  \/ \E r \in Requests : DeleteNonce(r) \/ Grant(r)
  \/ AddTask
  \/ \E w \in Wallets, t \in 1..MaxTasks : Complete(w, t)
  \/ Tick
  \/ Crash

Spec == Init /\ [][Next]_vars

-----------------------------------------------------------------------------
(***************************************************************************)
(* What a caller is shown.                                                 *)
(***************************************************************************)

\* ValidateJWT.
Valid(token) == token \in Granted /\ now < req[token].expires

\* extractWalletAddress: the address of a valid token, else that of the query.
Extract(token, query) == Lower(IF Valid(token) THEN req[token].address ELSE query)

\* COALESCE(user_status, 0) of the row of the lower-case address.
Status(a, t) == IF Lower(a).form = "lower" THEN rows[a.wallet][t] ELSE 0

AllTasks(a) == [t \in 1..numTasks |-> [task |-> t, status |-> Status(a, t)]]

Least(m, n) == IF m < n THEN m ELSE n

\* Mutant of UserTasks: the first page skips a page of rows.
UserTasksShifted(a, page, size) ==
  SubSeq(AllTasks(a), page * size + 1, Least((page + 1) * size, numTasks))

\* ORDER BY task_id OFFSET (page - 1) * size LIMIT size.
UserTasks(a, page, size) ==
  SubSeq(AllTasks(a), (page - 1) * size + 1, Least(page * size, numTasks))

PageSize(size) == IF size \in 1..MaxPageSize THEN size ELSE DefaultPageSize

UserTaskList(body, token, query, page, size) ==
  UserTasks(IF body = NoAddress THEN Extract(token, query) ELSE body,
            IF page <= 0 THEN 1 ELSE page, PageSize(size))

\* listTasksForAirdrop; its order does not matter here.
AirdropTasks(a) == {AllTasks(a)[t] : t \in BoundTasks \cap (1..numTasks)}

\* ClaimProof: whether there is a proof under the lower-case address.
ClaimProof(a) == Lower(a).form = "lower" /\ a.wallet \in Listed

\* ClaimReward.
ClaimReward(body, token, query) ==
  ClaimProof(IF body = NoAddress THEN Extract(token, query) ELSE body)

-----------------------------------------------------------------------------
(***************************************************************************)
(* Properties                                                              *)
(***************************************************************************)

\* A token is granted only for a nonce that was generated for that very spelling
\* of the address, to a request signed by that wallet, and checked before the
\* nonce expired: whatever other requests store, replace and delete meanwhile
\* (Verify, GenerateNonceForUser).
SessionsBacked ==
  \A r \in Active \cup Granted :
    LET nonce == issued[req[r].nonce] IN
    /\ nonce.set /\ nonce.address = req[r].address
    /\ req[r].signer = req[r].address.wallet
    /\ req[r].at < nonce.at + NonceTTL

\* A verification never starts from a nonce whose key a verification has deleted:
\* only requests that read it before the deletion can share a nonce (the Get and
\* Del of Verify).
SpentNonceRefused ==
  [][\A r \in Requests :
       req[r].pc = "idle" /\ req'[r].pc = "checked" => ~issued[req'[r].nonce].ended]_vars

\* A nonce sent to a client can be used for its whole lifetime, unless Redis did
\* not store it, the same address asked for another, or a verification of the same
\* address finished: logins of other addresses, crashes of the process and time
\* do not disturb it (GenerateNonceForUser, Verify).
NonceServes ==
  \A n \in Nonces :
    /\ issued[n].set /\ ~issued[n].ended /\ now < issued[n].at + NonceTTL
    /\ \A m \in Nonces : m > n /\ issued[m].set => issued[m].address # issued[n].address
    => Matches(issued[n].address, n)

\* While its token lives, a login that could bind its tasks is shown each of them
\* as begun, in every page size and in the list of an airdrop, under the token and
\* under any spelling with 0x; the pages of a list hold every task once, and a
\* listed wallet finds its proof (Verify, UserTaskList, ClaimReward).
CallerServed ==
  \A r \in Granted :
    LET a == req[r].address
        Pages(body, token, size) ==
          FlattenSeq([p \in 1..numTasks |-> UserTaskList(body, token, NoAddress, p, size)])
        Begun(shown) == \A row \in shown :
          row.task <= req[r].tasks /\ ~req[r].unbound => row.status >= 1
        Same == [wallet : {a.wallet}, form : {"lower", "mixed"}]
        Own(shown) == a.form # "bare" => Begun(shown)
    IN /\ Valid(r) => \A size \in 0..(MaxPageSize + 1) :
            /\ [i \in DOMAIN Pages(NoAddress, r, size) |-> Pages(NoAddress, r, size)[i].task]
                 = [t \in 1..numTasks |-> t]
            /\ Own(ToSet(Pages(NoAddress, r, size)))
            /\ \A b \in Same : Own(ToSet(Pages(b, NoToken, size)))
       /\ Own(AirdropTasks(a))
       /\ a.wallet \in Listed => \A b \in Same : ClaimReward(b, NoToken, NoAddress)
       /\ Valid(r) /\ a.form # "bare" =>
            (ClaimReward(NoAddress, r, NoAddress) <=> a.wallet \in Listed)

\* A login never takes back a task: the status of a wallet's task only rises,
\* however often the wallet logs in (ON CONFLICT DO NOTHING in Verify).
StatusKept ==
  [][\A w \in Wallets, t \in 1..MaxTasks : rows'[w][t] >= rows[w][t]]_vars
=============================================================================
