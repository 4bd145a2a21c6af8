------------------------------ MODULE LoginProofs ------------------------------
(***************************************************************************)
(* Theorems about Login, for every value of its constants: any wallets,    *)
(* spellings, lifetimes and number of concurrent verifications.            *)
(***************************************************************************)
EXTENDS Login, SumsAndPages

USE LoginConstantsOK
USE DEF LoginConstantsOK

NonceRecord == [address : Addresses, at : Nat, set : BOOLEAN, ended : BOOLEAN]

\* TypeOK says what the nonces issued are; that they are a sequence, and that every
\* request has a place in req, is what makes it inductive.
TypeInv ==
  /\ TypeOK
  /\ issued \in Seq(NonceRecord) /\ Len(issued) <= MaxNonces
  /\ req = [r \in Requests |-> req[r]]

\* A key in Redis holds a nonce that was stored for its very address, that no
\* verification has deleted, and that has time left.
KeysInv ==
  \A a \in Addresses : redis[a].nonce # 0 =>
    LET nonce == issued[redis[a].nonce] IN
    /\ redis[a].nonce \in Nonces
    /\ nonce.set /\ nonce.address = a /\ ~nonce.ended
    /\ redis[a].expires = nonce.at + NonceTTL /\ now < redis[a].expires

-----------------------------------------------------------------------------
(***************************************************************************)
(* Type correctness.                                                       *)
(***************************************************************************)

\* A new nonce is the last of the nonces issued and changes no other.
LEMMA RecordAppends ==
  ASSUME TypeInv, NEW a \in Addresses, NEW set \in BOOLEAN, Record(a, set),
         Len(issued) < MaxNonces
  PROVE  /\ issued' \in Seq(NonceRecord) /\ Len(issued') = Len(issued) + 1
         /\ Len(issued') <= MaxNonces
         /\ Nonces' = Nonces \cup {Len(issued) + 1}
         /\ \A n \in Nonces : issued'[n] = issued[n]
         /\ issued'[Len(issued) + 1] = [address |-> a, at |-> now, set |-> set, ended |-> FALSE]
<1> DEFINE rec == [address |-> a, at |-> now, set |-> set, ended |-> FALSE]
<1>1. rec \in NonceRecord
  BY DEF TypeInv, TypeOK, NonceRecord
<1>2. issued' = Append(issued, rec) /\ issued \in Seq(NonceRecord)
  BY DEF Record, TypeInv
<1> HIDE DEF rec
<1>3. /\ issued' \in Seq(NonceRecord) /\ Len(issued') = Len(issued) + 1
      /\ \A n \in 1..Len(issued) : issued'[n] = issued[n]
      /\ issued'[Len(issued) + 1] = rec
  BY <1>1, <1>2
<1>4. Len(issued) \in Nat /\ Len(issued') \in Nat
  BY <1>2, <1>3
<1>5. Nonces' = Nonces \cup {Len(issued) + 1}
  BY <1>3, <1>4 DEF Nonces
<1>6. Len(issued') <= MaxNonces
  BY <1>3, <1>4
<1>7. QED
  BY <1>3, <1>5, <1>6 DEF rec, Nonces

\* A deletion that succeeds ends the nonces of the address and changes nothing
\* else about a nonce; one that fails changes none.
LEMMA DeleteMarks ==
  ASSUME TypeInv, NEW r \in Requests, DeleteNonce(r)
  PROVE  /\ issued' \in Seq(NonceRecord) /\ Len(issued') = Len(issued) /\ Nonces' = Nonces
         /\ \A n \in Nonces :
              /\ issued[n] \in NonceRecord /\ issued'[n] \in NonceRecord
              /\ issued'[n].address = issued[n].address /\ issued'[n].at = issued[n].at
              /\ issued'[n].set = issued[n].set
         /\ \/ redis' = redis /\ issued' = issued
            \/ /\ Del(req[r].address)
               /\ \A n \in Nonces : issued[n].address # req[r].address => issued'[n] = issued[n]
<1>1. issued \in Seq(NonceRecord) /\ Len(issued) \in Nat
      /\ \A n \in Nonces : issued[n] \in NonceRecord
  BY DEF TypeInv, Nonces
<1>2. CASE issued' = issued /\ redis' = redis
  BY <1>1, <1>2 DEF Nonces
<1> DEFINE marked == [n \in Nonces |-> IF issued[n].address = req[r].address
                        THEN [issued[n] EXCEPT !.ended = TRUE] ELSE issued[n]]
<1>3. CASE Del(req[r].address) /\ issued' = marked
  <2>1. ASSUME NEW n \in Nonces
        PROVE  /\ marked[n] \in NonceRecord
               /\ marked[n].address = issued[n].address /\ marked[n].at = issued[n].at
               /\ marked[n].set = issued[n].set
               /\ issued[n].address # req[r].address => marked[n] = issued[n]
    BY <1>1 DEF NonceRecord
  <2>2. marked \in [1..Len(issued) -> NonceRecord]
    BY <2>1 DEF Nonces
  <2> HIDE DEF marked
  <2>3. marked \in Seq(NonceRecord) /\ Len(marked) = Len(issued)
    BY <1>1, <2>2
  <2>4. Nonces' = Nonces
    BY <1>3, <2>3 DEF Nonces
  <2>5. QED
    BY <1>1, <1>3, <2>1, <2>3, <2>4
<1>4. QED
  BY <1>2, <1>3 DEF DeleteNonce

\* What the nonces and the requests are, apart from the clock and the tables.
NonceOK(n) == issued[n] \in [address : Addresses, at : 0..now, set : BOOLEAN, ended : BOOLEAN]
RequestOK(r) ==
  /\ req[r].pc \in {"idle", "checked", "deleted", "granted", "lost"}
  /\ r \in Active \cup Granted =>
       /\ req[r].address \in Addresses /\ req[r].signer \in Wallets
       /\ req[r].nonce \in Nonces /\ req[r].at \in 0..now

Key == [nonce : 0..MaxNonces, expires : 0..(MaxTime + NonceTTL)]

LEMMA NoKeyType == NoKey \in Key
  BY DEF NoKey, Key

\* A request that goes on keeps what it was checked with.
LEMMA RequestStep ==
  ASSUME TypeInv, NEW r \in Requests,
         req' = [req EXCEPT ![r] = req'[r]], Nonces \subseteq Nonces', now' = now,
         RequestOK(r)'
  PROVE  /\ req' = [q \in Requests |-> req'[q]]
         /\ \A q \in Requests : RequestOK(q)'
<1>1. ASSUME NEW q \in Requests, q # r PROVE req'[q] = req[q]
  BY <1>1 DEF TypeInv
<1>2. req' = [q \in Requests |-> req'[q]]
  BY DEF TypeInv
<1>3. ASSUME NEW q \in Requests, q # r PROVE RequestOK(q)'
  BY <1>1, <1>3 DEF TypeInv, TypeOK, RequestOK, Active, Granted
<1>4. QED
  BY <1>2, <1>3

\* Binding the tasks of a wallet leaves a status for each task and wallet, and takes
\* none back.
LEMMA BindRaises ==
  ASSUME TypeInv, NEW a \in Addresses
  PROVE  /\ Bind(a) \in [Wallets -> [1..MaxTasks -> 0..2]]
         /\ \A w \in Wallets, t \in 1..MaxTasks :
              /\ Bind(a)[w][t] >= rows[w][t]
              /\ Bind(a)[w][t] # 0 => t <= numTasks
<1>0. /\ rows \in [Wallets -> [1..MaxTasks -> 0..2]] /\ numTasks \in Nat
      /\ \A w \in Wallets, t \in 1..MaxTasks :
           rows[w][t] \in 0..2 /\ rows[w][t] >= rows[w][t] /\ (rows[w][t] # 0 => t <= numTasks)
  <2>1. rows \in [Wallets -> [1..MaxTasks -> 0..2]] /\ numTasks \in Nat
        /\ \A w \in Wallets : \A t \in 1..MaxTasks : rows[w][t] # 0 => t <= numTasks
    BY DEF TypeInv, TypeOK
  <2>2. ASSUME NEW w \in Wallets, NEW t \in 1..MaxTasks
        PROVE  rows[w][t] \in 0..2
    BY <2>1
  <2>3. QED
    BY <2>1, <2>2
<1>1. CASE Lower(a).form # "lower"
  <2>1. Bind(a) = rows
    BY <1>1 DEF Bind
  <2>2. QED
    BY <1>0, <2>1
<1>2. CASE Lower(a).form = "lower"
  <2> DEFINE new == [t \in 1..MaxTasks |->
                       IF t <= numTasks /\ rows[a.wallet][t] = 0 THEN 1 ELSE rows[a.wallet][t]]
  <2>1. a.wallet \in Wallets
    OBVIOUS
  <2>2. new \in [1..MaxTasks -> 0..2]
        /\ \A t \in 1..MaxTasks : new[t] >= rows[a.wallet][t] /\ (new[t] # 0 => t <= numTasks)
    BY <1>0, <2>1
  <2>3. Bind(a) = [rows EXCEPT ![a.wallet] = new]
    BY <1>2 DEF Bind
  <2> HIDE DEF new
  <2>4. Bind(a)[a.wallet] = new /\ \A w \in Wallets \ {a.wallet} : Bind(a)[w] = rows[w]
    BY <1>0, <2>1, <2>3
  <2>5. Bind(a) \in [Wallets -> [1..MaxTasks -> 0..2]]
    BY <1>0, <2>1, <2>2, <2>3
  <2>6. QED
    BY <1>0, <2>2, <2>4, <2>5
<1>3. QED
  BY <1>1, <1>2

LEMMA TypeInvStep == TypeInv /\ [Next]_vars => TypeInv'
<1> SUFFICES ASSUME TypeInv, [Next]_vars PROVE TypeInv'
  OBVIOUS
<1>0. /\ \A n \in Nonces : NonceOK(n)
      /\ \A r \in Requests : RequestOK(r)
      /\ Len(issued) \in Nat
  BY DEF TypeInv, TypeOK, NonceOK, RequestOK, Key
<1> USE DEF counters, taskVars, loginVars
<1>1. ASSUME NEW a \in Addresses, GetNonce(a)
      PROVE  TypeInv'
  <2>1. PICK set \in BOOLEAN : Record(a, set)
    BY <1>1 DEF GetNonce
  <2>2. /\ issued' \in Seq(NonceRecord) /\ Len(issued') = Len(issued) + 1
        /\ Len(issued') <= MaxNonces
        /\ Nonces' = Nonces \cup {Len(issued) + 1}
        /\ \A n \in Nonces : issued'[n] = issued[n]
        /\ issued'[Len(issued) + 1] = [address |-> a, at |-> now, set |-> set, ended |-> FALSE]
    BY <1>1, <2>1, RecordAppends DEF GetNonce
  <2>3. /\ UNCHANGED <<now, req, numTasks, rows, crashes>> /\ faults' \in 0..MaxFaults
    <3>1. UNCHANGED <<now, req, numTasks, rows, crashes>>
      BY <1>1 DEF GetNonce
    <3>2. faults' = faults \/ (faults < MaxFaults /\ faults' = faults + 1)
      BY <1>1 DEF GetNonce, Fault
    <3>3. QED
      BY <3>1, <3>2 DEF TypeInv, TypeOK
  <2>4. redis' \in [Addresses -> Key]
    <3>1. Len(issued) + 1 \in 0..MaxNonces /\ now + NonceTTL \in 0..(MaxTime + NonceTTL)
      BY <1>1, <1>0 DEF GetNonce, TypeInv, TypeOK
    <3>2. [nonce |-> Len(issued) + 1, expires |-> now + NonceTTL] \in Key
      BY <3>1 DEF Key
    <3>3. redis' = redis \/ Put(a, Len(issued) + 1)
      BY <1>1 DEF GetNonce
    <3>4. QED
      BY <3>2, <3>3 DEF Put, TypeInv, TypeOK, Key
  <2>5. \A n \in Nonces' : NonceOK(n)'
    <3>1. ASSUME NEW n \in Nonces PROVE NonceOK(n)'
      BY <1>0, <2>2, <2>3, <3>1 DEF NonceOK
    <3>2. ASSUME NEW n \in Nonces', n \notin Nonces PROVE NonceOK(n)'
      <4>1. n = Len(issued) + 1
        BY <2>2, <3>2
      <4>2. issued'[n] = [address |-> a, at |-> now, set |-> set, ended |-> FALSE]
        BY <2>2, <4>1
      <4>3. now' = now /\ now \in 0..now
        BY <2>3 DEF TypeInv, TypeOK
      <4>4. QED
        BY <4>2, <4>3 DEF NonceOK
    <3>3. QED
      BY <3>1, <3>2
  <2>6. \A r \in Requests : RequestOK(r)'
    BY <1>0, <2>2, <2>3 DEF RequestOK, Active, Granted
  <2>7. QED
    BY <2>2, <2>3, <2>4, <2>5, <2>6 DEF TypeInv, TypeOK, NonceOK, RequestOK, Key
<1>2. ASSUME NEW r \in Requests, NEW a \in Addresses, NEW n \in Nonces, NEW w \in Wallets,
             CheckNonce(r, a, n, w)
      PROVE  TypeInv'
  <2>1. UNCHANGED <<now, redis, issued, numTasks, rows, faults, crashes, Nonces>>
    BY <1>2 DEF CheckNonce, Nonces
  <2>2. req' = [req EXCEPT ![r] = req'[r]] /\ RequestOK(r)'
    BY <1>2, <2>1 DEF CheckNonce, RequestOK, TypeInv, TypeOK
  <2>3. QED
    BY <2>1, <2>2, RequestStep DEF TypeInv, TypeOK, RequestOK
<1>3. ASSUME NEW r \in Requests, DeleteNonce(r)
      PROVE  TypeInv'
  <2>1. /\ UNCHANGED <<now, numTasks, rows, crashes>> /\ faults' \in 0..MaxFaults
        /\ req[r].address \in Addresses
    BY <1>3, <1>0 DEF DeleteNonce, Fault, TypeInv, TypeOK, RequestOK, Active
  <2>2. /\ issued' \in Seq(NonceRecord) /\ Len(issued') = Len(issued) /\ Nonces' = Nonces
        /\ \A n \in Nonces : issued'[n] \in NonceRecord /\ issued'[n].at = issued[n].at
    BY <1>3, DeleteMarks
  <2>3. redis' \in [Addresses -> Key]
    <3>1. redis' = redis \/ Del(req[r].address)
      BY <1>3 DEF DeleteNonce
    <3>2. QED
      BY <3>1, NoKeyType DEF Del, TypeInv, TypeOK, Key
  <2>4. \A n \in Nonces' : NonceOK(n)'
    BY <1>0, <2>1, <2>2 DEF NonceOK, NonceRecord
  <2>5. req' = [req EXCEPT ![r] = req'[r]] /\ RequestOK(r)'
    BY <1>3, <1>0, <2>1, <2>2 DEF DeleteNonce, RequestOK, Active, TypeInv
  <2>6. QED
    BY <2>1, <2>2, <2>3, <2>4, <2>5, RequestStep DEF TypeInv, TypeOK, NonceOK, RequestOK, Key
<1>4. ASSUME NEW r \in Requests, Grant(r)
      PROVE  TypeInv'
  <2>1. /\ UNCHANGED <<now, redis, issued, numTasks, crashes, Nonces>> /\ faults' \in 0..MaxFaults
        /\ req[r].address \in Addresses
    BY <1>4, <1>0 DEF Grant, Fault, TypeInv, TypeOK, RequestOK, Active, Nonces
  <2>2. rows' = rows \/ rows' = Bind(req[r].address)
    BY <1>4 DEF Grant
  <2>3. /\ rows' \in [Wallets -> [1..MaxTasks -> 0..2]]
        /\ \A w \in Wallets, t \in 1..MaxTasks : rows'[w][t] # 0 => t <= numTasks
    <3>1. CASE rows' = rows
      BY <3>1 DEF TypeInv, TypeOK
    <3>2. CASE rows' = Bind(req[r].address)
      BY <2>1, <3>2, BindRaises
    <3>3. QED
      BY <2>2, <3>1, <3>2
  <2>4. req' = [req EXCEPT ![r] = req'[r]] /\ RequestOK(r)'
    BY <1>4, <1>0, <2>1 DEF Grant, RequestOK, Active, TypeInv
  <2>5. QED
    BY <2>1, <2>3, <2>4, RequestStep DEF TypeInv, TypeOK, RequestOK
<1>5. CASE AddTask
  BY <1>5 DEF AddTask, TypeInv, TypeOK, Nonces, Active, Granted
<1>6. ASSUME NEW w \in Wallets, NEW t \in 1..MaxTasks, Complete(w, t)
      PROVE  TypeInv'
  <2>1. rows' = [rows EXCEPT ![w] = [rows[w] EXCEPT ![t] = 2]] /\ rows[w][t] # 0
    BY <1>6 DEF Complete, TypeInv, TypeOK
  <2>2. [rows[w] EXCEPT ![t] = 2] \in [1..MaxTasks -> 0..2]
    BY DEF TypeInv, TypeOK
  <2>3. QED
    BY <1>6, <2>1, <2>2 DEF Complete, TypeInv, TypeOK, Nonces, Active, Granted
<1>7. CASE Tick
  <2>1. /\ now' = now + 1 /\ now' \in 0..MaxTime
        /\ UNCHANGED <<issued, req, numTasks, rows, faults, crashes, Nonces>>
    BY <1>7 DEF Tick, TypeInv, TypeOK, Nonces
  <2>2. redis' \in [Addresses -> Key]
    BY <1>7, NoKeyType DEF Tick, TypeInv, TypeOK, Key
  <2>3. \A n \in Nonces' : NonceOK(n)'
    BY <1>0, <2>1 DEF NonceOK, TypeInv, TypeOK
  <2>4. \A r \in Requests : RequestOK(r)'
    BY <1>0, <2>1 DEF RequestOK, Active, Granted, TypeInv, TypeOK
  <2>5. QED
    BY <2>1, <2>2, <2>3, <2>4 DEF TypeInv, TypeOK, NonceOK, RequestOK, Key
<1>8. CASE Crash
  <2>1. /\ UNCHANGED <<now, redis, issued, numTasks, rows, faults, Nonces>>
        /\ crashes' \in 0..MaxCrashes
    BY <1>8 DEF Crash, TypeInv, TypeOK, Nonces
  <2>2. req' = [r \in Requests |-> req'[r]]
    BY <1>8 DEF Crash
  <2>3. \A r \in Requests : RequestOK(r)'
    BY <1>8, <1>0, <2>1 DEF Crash, RequestOK, Active, Granted
  <2>4. QED
    BY <2>1, <2>2, <2>3 DEF TypeInv, TypeOK, RequestOK
<1>9. CASE UNCHANGED vars
  BY <1>9 DEF vars, TypeInv, TypeOK, Nonces, Active, Granted
<1>10. QED
  BY <1>1, <1>2, <1>3, <1>4, <1>5, <1>6, <1>7, <1>8, <1>9 DEF Next
-----------------------------------------------------------------------------
(***************************************************************************)
(* The keys in Redis.                                                      *)
(***************************************************************************)
LEMMA KeysInvStep == TypeInv /\ KeysInv /\ [Next]_vars => KeysInv'
<1> SUFFICES ASSUME TypeInv, KeysInv, [Next]_vars,
                    NEW a \in Addresses, redis'[a].nonce # 0
             PROVE  LET nonce == issued'[redis'[a].nonce] IN
                    /\ redis'[a].nonce \in Nonces'
                    /\ nonce.set /\ nonce.address = a /\ ~nonce.ended
                    /\ redis'[a].expires = nonce.at + NonceTTL /\ now' < redis'[a].expires
  BY DEF KeysInv
<1> USE DEF counters, taskVars, loginVars
<1>0. redis \in [Addresses -> Key] /\ now \in Nat /\ Len(issued) \in Nat
  BY DEF TypeInv, TypeOK, Key
<1>1. ASSUME NEW b \in Addresses, GetNonce(b)
      PROVE  LET nonce == issued'[redis'[a].nonce] IN
             /\ redis'[a].nonce \in Nonces'
             /\ nonce.set /\ nonce.address = a /\ ~nonce.ended
             /\ redis'[a].expires = nonce.at + NonceTTL /\ now' < redis'[a].expires
  <2>1. PICK set \in BOOLEAN :
          Record(b, set) /\ (redis' = redis \/ (set = TRUE /\ Put(b, Len(issued) + 1)))
    BY <1>1 DEF GetNonce
  <2>2. /\ Nonces' = Nonces \cup {Len(issued) + 1}
        /\ \A n \in Nonces : issued'[n] = issued[n]
        /\ issued'[Len(issued) + 1] = [address |-> b, at |-> now, set |-> set, ended |-> FALSE]
        /\ now' = now
    BY <1>1, <2>1, RecordAppends DEF GetNonce
  <2>3. CASE redis'[a] = redis[a]
    BY <2>2, <2>3 DEF KeysInv
  <2>4. CASE redis'[a] # redis[a]
    <3>1. a = b /\ set = TRUE /\ redis'[a] = [nonce |-> Len(issued) + 1, expires |-> now + NonceTTL]
      BY <1>0, <2>1, <2>4 DEF Put
    <3>2. QED
      BY <1>0, <2>2, <3>1
  <2>5. QED
    BY <2>3, <2>4
<1>2. ASSUME NEW r \in Requests, DeleteNonce(r)
      PROVE  LET nonce == issued'[redis'[a].nonce] IN
             /\ redis'[a].nonce \in Nonces'
             /\ nonce.set /\ nonce.address = a /\ ~nonce.ended
             /\ redis'[a].expires = nonce.at + NonceTTL /\ now' < redis'[a].expires
  <2>1. now' = now /\ Nonces' = Nonces
    BY <1>2, DeleteMarks DEF DeleteNonce
  <2>2. CASE redis' = redis /\ issued' = issued
    BY <2>1, <2>2 DEF KeysInv
  <2>3. CASE Del(req[r].address)
             /\ \A n \in Nonces : issued[n].address # req[r].address => issued'[n] = issued[n]
    <3>1. a # req[r].address /\ redis'[a] = redis[a]
      BY <1>0, <2>3 DEF Del, NoKey
    <3>2. issued'[redis[a].nonce] = issued[redis[a].nonce]
      BY <2>3, <3>1 DEF KeysInv
    <3>3. QED
      BY <2>1, <3>1, <3>2 DEF KeysInv
  <2>4. QED
    BY <1>2, <2>2, <2>3, DeleteMarks
<1>3. CASE Tick
  <2>1. redis'[a] = redis[a] /\ ~(redis[a].expires <= now') /\ now' = now + 1
        /\ UNCHANGED <<issued, Nonces>>
    BY <1>0, <1>3 DEF Tick, NoKey, Nonces
  <2>2. redis[a].expires \in Nat
    BY <1>0 DEF Key
  <2>3. QED
    BY <1>0, <2>1, <2>2 DEF KeysInv
<1>4. CASE UNCHANGED <<now, redis, issued>>
  BY <1>4 DEF KeysInv, Nonces
<1>5. QED
  BY <1>1, <1>2, <1>3, <1>4
     DEF Next, CheckNonce, Grant, AddTask, Complete, Crash, vars

-----------------------------------------------------------------------------
(***************************************************************************)
(* Sessions.                                                               *)
(***************************************************************************)

\* A nonce keeps its address, its time and its storage for ever.
LEMMA NoncesKept ==
  ASSUME TypeInv, [Next]_vars
  PROVE  /\ Nonces \subseteq Nonces'
         /\ \A n \in Nonces : /\ issued'[n].address = issued[n].address
                              /\ issued'[n].at = issued[n].at /\ issued'[n].set = issued[n].set
<1> USE DEF counters, taskVars, loginVars
<1>1. ASSUME NEW a \in Addresses, GetNonce(a)
      PROVE  Nonces \subseteq Nonces' /\ \A n \in Nonces : issued'[n] = issued[n]
  <2>1. PICK set \in BOOLEAN : Record(a, set) /\ Len(issued) < MaxNonces
    BY <1>1 DEF GetNonce
  <2>2. QED
    BY <2>1, RecordAppends
<1>2. ASSUME NEW r \in Requests, DeleteNonce(r)
      PROVE  /\ Nonces \subseteq Nonces'
             /\ \A n \in Nonces : /\ issued'[n].address = issued[n].address
                                  /\ issued'[n].at = issued[n].at /\ issued'[n].set = issued[n].set
  BY <1>2, DeleteMarks
<1>3. CASE issued' = issued
  BY <1>3 DEF Nonces
<1>4. QED
  BY <1>1, <1>2, <1>3 DEF Next, CheckNonce, Grant, AddTask, Complete, Tick, Crash, vars

\* What a request was checked with stays with it; a request is checked with a nonce
\* that is in Redis at that moment.
LEMMA SessionsBackedStep ==
  TypeInv /\ KeysInv /\ SessionsBacked /\ [Next]_vars => SessionsBacked'
<1> SUFFICES ASSUME TypeInv, KeysInv, SessionsBacked, [Next]_vars, NEW r \in Requests,
                    r \in (Active \cup Granted)'
             PROVE  LET nonce == issued'[req'[r].nonce] IN
                    /\ nonce.set /\ nonce.address = req'[r].address
                    /\ req'[r].signer = req'[r].address.wallet
                    /\ req'[r].at < nonce.at + NonceTTL
  BY DEF SessionsBacked, Active, Granted
<1> USE DEF counters, taskVars, loginVars
<1>1. CASE r \in Active \cup Granted /\ req'[r].address = req[r].address
           /\ req'[r].nonce = req[r].nonce /\ req'[r].signer = req[r].signer
           /\ req'[r].at = req[r].at
  <2>1. req[r].nonce \in Nonces
    BY <1>1 DEF TypeInv, TypeOK
  <2>2. QED
    BY <1>1, <2>1, NoncesKept DEF SessionsBacked
<1>2. ASSUME NEW q \in Requests, NEW a \in Addresses, NEW n \in Nonces, NEW w \in Wallets,
             CheckNonce(q, a, n, w), q = r
      PROVE  LET nonce == issued'[req'[r].nonce] IN
             /\ nonce.set /\ nonce.address = req'[r].address
             /\ req'[r].signer = req'[r].address.wallet
             /\ req'[r].at < nonce.at + NonceTTL
  <2>1. /\ req'[r].address = a /\ req'[r].nonce = n /\ req'[r].signer = w /\ req'[r].at = now
        /\ UNCHANGED issued
    BY <1>2 DEF CheckNonce, TypeInv
  <2>2. redis[a].nonce = n /\ redis[a].nonce # 0 /\ a.wallet = w
    BY <1>2 DEF CheckNonce, Matches, Signed
  <2>3. issued[n].set /\ issued[n].address = a /\ now < issued[n].at + NonceTTL
    BY <2>2 DEF KeysInv
  <2>4. QED
    BY <2>1, <2>2, <2>3
<1>3. ASSUME NEW q \in Requests, DeleteNonce(q) \/ Grant(q), q = r
      PROVE  r \in Active \cup Granted /\ req'[r].address = req[r].address
             /\ req'[r].nonce = req[r].nonce /\ req'[r].signer = req[r].signer
             /\ req'[r].at = req[r].at
  BY <1>3 DEF DeleteNonce, Grant, Active, TypeInv
<1>4. CASE req'[r] = req[r]
  BY <1>1, <1>4 DEF Active, Granted
<1>5. ASSUME NEW q \in Requests, q # r,
             \/ \E a \in Addresses, n \in Nonces, w \in Wallets : CheckNonce(q, a, n, w)
             \/ DeleteNonce(q) \/ Grant(q)
      PROVE  req'[r] = req[r]
  BY <1>5 DEF CheckNonce, DeleteNonce, Grant, TypeInv
<1>6. CASE Crash
  <2>1. r \notin Active
    BY <1>6 DEF Crash, Active, Granted
  <2>2. req'[r] = req[r]
    BY <1>6, <2>1 DEF Crash
  <2>3. QED
    BY <1>4, <2>2
<1>7. QED
  BY <1>1, <1>2, <1>3, <1>4, <1>5, <1>6 DEF Next, GetNonce, AddTask, Complete, Tick, vars

-----------------------------------------------------------------------------
(***************************************************************************)
(* Nonces that are still good.                                             *)
(***************************************************************************)

\* Nothing takes a nonce away before its time but a later nonce of its address or
\* a verification of its address.
LEMMA NonceServesStep ==
  TypeInv /\ KeysInv /\ NonceServes /\ [Next]_vars => NonceServes'
<1> DEFINE serves(n) ==
      /\ issued[n].set /\ ~issued[n].ended /\ now < issued[n].at + NonceTTL
      /\ \A m \in Nonces : m > n /\ issued[m].set => issued[m].address # issued[n].address
<1> SUFFICES ASSUME TypeInv, KeysInv, NonceServes, [Next]_vars,
                    NEW n \in Nonces', serves(n)'
             PROVE  redis'[issued'[n].address].nonce # 0 /\ redis'[issued'[n].address].nonce = n
  BY DEF NonceServes, Matches
<1> USE DEF counters, taskVars, loginVars
<1>0. redis \in [Addresses -> Key] /\ now \in Nat /\ Len(issued) \in Nat
      /\ \A m \in Nonces : issued[m] \in NonceRecord
  BY DEF TypeInv, TypeOK, Key, Nonces
<1>a. ASSUME n \in Nonces, serves(n)
      PROVE  redis[issued[n].address].nonce # 0 /\ redis[issued[n].address].nonce = n
  BY <1>a DEF NonceServes, Matches
<1>1. ASSUME NEW a \in Addresses, GetNonce(a)
      PROVE  redis'[issued'[n].address].nonce # 0 /\ redis'[issued'[n].address].nonce = n
  <2>1. PICK set \in BOOLEAN :
          Record(a, set) /\ ((set = FALSE /\ redis' = redis) \/ (set = TRUE /\ Put(a, Len(issued) + 1)))
    BY <1>1 DEF GetNonce
  <2>2. /\ Nonces' = Nonces \cup {Len(issued) + 1}
        /\ \A m \in Nonces : issued'[m] = issued[m]
        /\ issued'[Len(issued) + 1] = [address |-> a, at |-> now, set |-> set, ended |-> FALSE]
        /\ now' = now
    BY <1>1, <2>1, RecordAppends DEF GetNonce
  <2>3. CASE n = Len(issued) + 1
    <3>1. set = TRUE /\ issued'[n].address = a
      BY <2>2, <2>3
    <3>2. redis'[a] = [nonce |-> n, expires |-> now + NonceTTL]
      BY <1>0, <2>1, <2>3, <3>1 DEF Put
    <3>3. QED
      BY <1>0, <2>3, <3>1, <3>2
  <2>4. CASE n \in Nonces
    <3>1. serves(n)
      BY <2>2, <2>4
    <3>2. Len(issued) + 1 > n
      BY <1>0, <2>4 DEF Nonces
    <3>3. set = TRUE => issued[n].address # a
      BY <2>2, <2>4, <3>2
    <3>4. issued[n].address \in Addresses
      BY <1>0, <2>4 DEF NonceRecord
    <3>5. redis'[issued[n].address] = redis[issued[n].address]
      BY <1>0, <2>1, <3>3, <3>4 DEF Put
    <3>6. QED
      BY <1>a, <2>2, <2>4, <3>1, <3>5
  <2>5. QED
    BY <2>2, <2>3, <2>4
<1>2. ASSUME NEW r \in Requests, DeleteNonce(r)
      PROVE  redis'[issued'[n].address].nonce # 0 /\ redis'[issued'[n].address].nonce = n
  <2>1. /\ now' = now /\ Nonces' = Nonces
        /\ \A m \in Nonces : /\ issued'[m].address = issued[m].address
                             /\ issued'[m].at = issued[m].at /\ issued'[m].set = issued[m].set
    BY <1>2, DeleteMarks DEF DeleteNonce
  <2>2. CASE redis' = redis /\ issued' = issued
    BY <1>a, <2>1, <2>2
  <2>3. CASE /\ Del(req[r].address)
             /\ \A m \in Nonces : issued'[m] = IF issued[m].address = req[r].address
                                     THEN [issued[m] EXCEPT !.ended = TRUE] ELSE issued[m]
    <3>1. issued[n].address # req[r].address
      BY <1>0, <2>1, <2>3 DEF NonceRecord
    <3>2. issued'[n] = issued[n] /\ serves(n)
      BY <2>1, <2>3, <3>1
    <3>3. issued[n].address \in Addresses
      BY <1>0, <2>1 DEF NonceRecord
    <3>4. redis'[issued[n].address] = redis[issued[n].address]
      BY <1>0, <2>3, <3>1, <3>3 DEF Del
    <3>5. QED
      BY <1>a, <2>1, <3>2, <3>4
  <2>4. QED
    BY <1>2, <2>2, <2>3 DEF DeleteNonce
<1>3. CASE Tick
  <2>1. UNCHANGED <<issued, Nonces>> /\ now' = now + 1
    BY <1>3 DEF Tick, Nonces
  <2>2. issued[n] \in NonceRecord
    BY <1>0, <2>1
  <2>3. serves(n)
    BY <1>0, <2>1, <2>2 DEF NonceRecord
  <2>4. redis[issued[n].address].nonce = n /\ redis[issued[n].address].nonce # 0
    BY <1>a, <2>1, <2>3
  <2>5. redis[issued[n].address].expires = issued[n].at + NonceTTL
    BY <2>2, <2>4 DEF KeysInv, NonceRecord
  <2>6. redis'[issued[n].address] = redis[issued[n].address]
    BY <1>0, <1>3, <2>1, <2>2, <2>5 DEF Tick, NonceRecord
  <2>7. QED
    BY <2>1, <2>4, <2>6
<1>4. CASE UNCHANGED <<now, redis, issued>>
  BY <1>a, <1>4 DEF Nonces
<1>5. QED
  BY <1>1, <1>2, <1>3, <1>4 DEF Next, CheckNonce, Grant, AddTask, Complete, Crash, vars

-----------------------------------------------------------------------------
(***************************************************************************)
(* The tasks that a login has bound, and what its caller is shown.         *)
(***************************************************************************)
\* No step lowers the status of a wallet's task.
LEMMA StatusKeptStep ==
  ASSUME TypeInv, [Next]_vars, NEW w \in Wallets, NEW t \in 1..MaxTasks
  PROVE  rows'[w][t] >= rows[w][t]
<1> USE DEF counters, taskVars, loginVars
<1>1. rows \in [Wallets -> [1..MaxTasks -> 0..2]] /\ rows[w][t] \in 0..2
  BY DEF TypeInv, TypeOK
<1>2. ASSUME NEW r \in Requests, Grant(r)
      PROVE  rows'[w][t] >= rows[w][t]
  <2>1. req[r].address \in Addresses
    BY <1>2 DEF Grant, Active, TypeInv, TypeOK
  <2>2. rows' = rows \/ rows' = Bind(req[r].address)
    BY <1>2 DEF Grant
  <2>3. QED
    BY <1>1, <2>1, <2>2, BindRaises
<1>3. ASSUME NEW v \in Wallets, NEW u \in 1..MaxTasks, Complete(v, u)
      PROVE  rows'[w][t] >= rows[w][t]
  <2>1. rows' = [rows EXCEPT ![v] = [rows[v] EXCEPT ![u] = 2]]
    BY <1>3 DEF Complete
  <2>2. rows'[w][t] \in {rows[w][t], 2}
    BY <1>1, <2>1
  <2>3. QED
    BY <1>1, <2>2
<1>4. CASE rows' = rows
  BY <1>1, <1>4
<1>5. QED
  BY <1>2, <1>3, <1>4 DEF Next, GetNonce, CheckNonce, DeleteNonce, AddTask, Tick, Crash, vars

\* A login knows the tasks there were, and unless its insertion failed or was refused
\* the wallet has had a row for each of them ever since.
BoundInv ==
  \A r \in Granted :
    /\ req[r].tasks \in 0..numTasks
    /\ ~req[r].unbound /\ req[r].address.form # "bare" =>
         \A t \in 1..req[r].tasks : rows[req[r].address.wallet][t] # 0

LEMMA BoundInvStep ==
  ASSUME TypeInv, TypeInv', BoundInv, [Next]_vars
  PROVE  BoundInv'
<1> SUFFICES ASSUME NEW r \in Granted'
             PROVE  /\ req'[r].tasks \in 0..numTasks'
                    /\ ~req'[r].unbound /\ req'[r].address.form # "bare" =>
                         \A t \in 1..req'[r].tasks : rows'[req'[r].address.wallet][t] # 0
  BY DEF BoundInv
<1> USE DEF counters, taskVars, loginVars
<1>0. r \in Requests /\ req'[r].pc = "granted" /\ numTasks \in 0..MaxTasks /\ MaxTasks \in Nat
      /\ req'[r].address \in Addresses
  BY DEF Granted, TypeInv, TypeOK
<1>1. CASE req'[r] = req[r] /\ numTasks' \in {numTasks, numTasks + 1}
  <2>1. r \in Granted /\ req[r].address \in Addresses
    BY <1>0, <1>1 DEF Granted
  <2> PICK n : n = req[r].tasks
    OBVIOUS
  <2> PICK w : w = req[r].address.wallet
    OBVIOUS
  <2>2. n \in 0..numTasks /\ n \in 0..numTasks' /\ w \in Wallets
    BY <1>0, <1>1, <2>1 DEF BoundInv
  <2>3. ASSUME NEW t \in 1..n, rows[w][t] # 0
        PROVE  rows'[w][t] # 0
    <3>1. t \in 1..MaxTasks
      BY <1>0, <2>2
    <3>2. rows'[w][t] >= rows[w][t]
      BY <2>2, <3>1, StatusKeptStep
    <3>3. rows[w][t] \in 0..2
      BY <2>2, <3>1 DEF TypeInv, TypeOK
    <3>4. ~ (0 >= rows[w][t])
      BY <2>3, <3>3
    <3>5. QED
      BY <3>2, <3>4
  <2>4. ~req[r].unbound /\ req[r].address.form # "bare" => \A t \in 1..n : rows[w][t] # 0
    BY <2>1 DEF BoundInv
  <2>5. QED
    BY <1>1, <2>2, <2>3, <2>4
<1>2. ASSUME Grant(r)
      PROVE  /\ req'[r].tasks \in 0..numTasks'
             /\ ~req'[r].unbound /\ req'[r].address.form # "bare" =>
                  \A t \in 1..req'[r].tasks : rows'[req'[r].address.wallet][t] # 0
  <2>1. PICK fails \in BOOLEAN :
          /\ req'[r].tasks = numTasks /\ req'[r].unbound = fails
          /\ req'[r].address = req[r].address
          /\ ~fails => rows' = Bind(req[r].address)
          /\ numTasks' = numTasks
    BY <1>0, <1>2 DEF Grant, TypeInv
  <2> PICK a : a = req[r].address
    OBVIOUS
  <2>2. a \in Addresses /\ a.wallet \in Wallets
    BY <1>0, <2>1
  <2>3. ASSUME ~fails, a.form # "bare", NEW t \in 1..numTasks
        PROVE  rows'[a.wallet][t] # 0
    <3>1. Lower(a).form = "lower"
      BY <2>2, <2>3 DEF Lower
    <3>2. rows' = [rows EXCEPT ![a.wallet] = [u \in 1..MaxTasks |->
             IF u <= numTasks /\ rows[a.wallet][u] = 0 THEN 1 ELSE rows[a.wallet][u]]]
      BY <2>1, <2>3, <3>1 DEF Bind
    <3>3. rows'[a.wallet] = [u \in 1..MaxTasks |->
             IF u <= numTasks /\ rows[a.wallet][u] = 0 THEN 1 ELSE rows[a.wallet][u]]
      BY <2>2, <3>2 DEF TypeInv, TypeOK
    <3>4. t \in 1..MaxTasks /\ t <= numTasks
      BY <1>0
    <3>5. QED
      BY <3>3, <3>4
  <2>4. QED
    BY <1>0, <2>1, <2>3
<1>3. ASSUME NEW q \in Requests, q # r,
             \/ \E a \in Addresses, n \in Nonces, w \in Wallets : CheckNonce(q, a, n, w)
             \/ DeleteNonce(q) \/ Grant(q)
      PROVE  req'[r] = req[r] /\ numTasks' = numTasks
  <2>1. req = [s \in Requests |-> req[s]] /\ r \in Requests
    BY <1>0 DEF TypeInv
  <2>2. req' = [req EXCEPT ![q] = req'[q]]
    BY <1>3, <2>1 DEF CheckNonce, DeleteNonce, Grant
  <2>3. req'[r] = req[r]
    BY <1>3, <2>1, <2>2
  <2>4. numTasks' = numTasks
    BY <1>3 DEF CheckNonce, DeleteNonce, Grant
  <2>5. QED
    BY <2>3, <2>4
<1>4. /\ ~ \E a \in Addresses, n \in Nonces, w \in Wallets : CheckNonce(r, a, n, w)
      /\ ~ DeleteNonce(r)
  BY <1>0 DEF CheckNonce, DeleteNonce, TypeInv
<1>5. CASE Crash
  <2>1. req'[r] = req[r] /\ numTasks' = numTasks
    BY <1>0, <1>5 DEF Crash
  <2>2. QED
    BY <1>1, <2>1
<1>6. CASE UNCHANGED req /\ numTasks' \in {numTasks, numTasks + 1}
  BY <1>1, <1>6
<1>7. [Next]_vars =>
        \/ \E q \in Requests :
             \/ \E a \in Addresses, n \in Nonces, w \in Wallets : CheckNonce(q, a, n, w)
             \/ DeleteNonce(q) \/ Grant(q)
        \/ Crash
        \/ UNCHANGED req /\ numTasks' \in {numTasks, numTasks + 1}
  BY DEF Next, GetNonce, AddTask, Complete, Tick, vars
<1>8. QED
  BY <1>0, <1>1, <1>2, <1>3, <1>4, <1>5, <1>6, <1>7

\* All pages of the list for an address, joined.
TaskPages(body, token, size) ==
  FlattenSeq([p \in 1..numTasks |-> UserTaskList(body, token, NoAddress, p, size)])
Asker(body, token) == IF body = NoAddress THEN Extract(token, NoAddress) ELSE body

\* They are the tasks, whatever the size.
LEMMA TaskPagesJoin ==
  ASSUME TypeInv, NEW body, NEW token, NEW size \in Int
  PROVE  TaskPages(body, token, size) = AllTasks(Asker(body, token))
<1> PICK n : n = numTasks
  OBVIOUS
<1> PICK list : list = AllTasks(Asker(body, token))
  OBVIOUS
<1> PICK z : z = PageSize(size)
  OBVIOUS
<1>1. n \in Nat /\ z \in Nat \ {0}
  BY DEF TypeInv, TypeOK, PageSize
<1> PICK S : S = {list[t] : t \in 1..n}
  OBVIOUS
<1>2. list \in Seq(S) /\ Len(list) = n
  <2>1. list = [t \in 1..n |-> list[t]]
    BY DEF AllTasks
  <2>2. \A t \in 1..n : list[t] \in S
    OBVIOUS
  <2>3. list \in [1..n -> S]
    BY <2>1, <2>2
  <2>4. QED
    BY <1>1, <2>3
<1> PICK pages : pages = [p \in 1..n |-> UserTaskList(body, token, NoAddress, p, size)]
  OBVIOUS
<1>3. \A p \in 1..n : ~ (p <= 0)
  BY <1>1
<1>4. \A p \in 1..n : pages[p] = UserTasks(Asker(body, token), p, z)
  BY <1>3 DEF UserTaskList, Asker
<1>5. \A p \in 1..n : pages[p] = SubSeq(list, (p - 1) * z + 1, IF p * z < n THEN p * z ELSE n)
  BY <1>4 DEF UserTasks, Least
<1>6. pages = [p \in 1..n |-> pages[p]]
  OBVIOUS
<1>7. Paged(pages, n, list, z)
  BY <1>2, <1>5, <1>6 DEF Paged
<1>8. FlattenSeq(pages) = list
  BY <1>1, <1>2, <1>7, PagesJoin
<1>9. QED
  BY <1>8 DEF TaskPages

\* The spellings of a wallet with 0x.
Spellings(w) == [wallet : {w}, form : {"lower", "mixed"}]

LEMMA SpellingFacts ==
  /\ \A w : \A b \in Spellings(w) : Lower(b).form = "lower" /\ b.wallet = w /\ b # NoAddress
  /\ \A a \in Addresses : a.form # "bare" => a \in Spellings(a.wallet)
                                              /\ Lower(a) \in Spellings(a.wallet)
BY DEF Spellings, Lower, NoAddress

\* What a login that has bound its tasks is shown under any of them.
ShownTo(r, shown) ==
  req[r].address.form # "bare" =>
    \A row \in shown : row.task <= req[r].tasks /\ ~req[r].unbound => row.status >= 1

LEMMA TasksShown ==
  ASSUME TypeInv, BoundInv, NEW r \in Granted, NEW b, NEW shown,
         req[r].address.form # "bare" => b \in Spellings(req[r].address.wallet),
         shown \subseteq {AllTasks(b)[t] : t \in 1..numTasks}
  PROVE  ShownTo(r, shown)
<1> SUFFICES ASSUME req[r].address.form # "bare", ~req[r].unbound, NEW t \in 1..numTasks,
                    AllTasks(b)[t].task <= req[r].tasks
             PROVE  AllTasks(b)[t].status >= 1
  BY DEF ShownTo
<1> PICK w : w = req[r].address.wallet
  OBVIOUS
<1>1. w \in Wallets /\ numTasks \in 0..MaxTasks
  <2>1. r \in Requests /\ req[r].address \in Addresses
    BY DEF TypeInv, TypeOK, Granted
  <2>2. QED
    BY <2>1 DEF TypeInv, TypeOK
<1>2. AllTasks(b)[t] = [task |-> t, status |-> rows[w][t]]
  BY SpellingFacts DEF AllTasks, Status
<1>3. req[r].tasks \in 0..numTasks /\ \A u \in 1..req[r].tasks : rows[w][u] # 0
  BY DEF BoundInv
<1>4. t <= req[r].tasks
  BY <1>2
<1>5. t \in 1..req[r].tasks
  BY <1>1, <1>3, <1>4
<1>6. t \in 1..MaxTasks /\ rows[w][t] # 0
  BY <1>1, <1>3, <1>5
<1>7. rows[w][t] \in 0..2
  <2>1. rows \in [Wallets -> [1..MaxTasks -> 0..2]]
    BY DEF TypeInv, TypeOK
  <2>2. rows[w] \in [1..MaxTasks -> 0..2]
    BY <1>1, <2>1
  <2>3. QED
    BY <1>6, <2>2
<1>8. rows[w][t] >= 1
  BY <1>6, <1>7
<1>9. QED
  BY <1>2, <1>8

LEMMA CallersServed == TypeInv /\ BoundInv => CallerServed
<1> SUFFICES ASSUME TypeInv, BoundInv PROVE CallerServed
  OBVIOUS
<1>1. \A s \in 0..(MaxPageSize + 1) : s \in Int
  OBVIOUS
<1>2. ASSUME NEW b
      PROVE  /\ ToSet(AllTasks(b)) = {AllTasks(b)[t] : t \in 1..numTasks}
             /\ [i \in DOMAIN AllTasks(b) |-> AllTasks(b)[i].task] = [t \in 1..numTasks |-> t]
  BY DEF ToSet, AllTasks
<1>3. ASSUME NEW r \in Granted
      PROVE  req[r].address \in Addresses
  BY DEF TypeInv, TypeOK, Granted
<1>4. ASSUME NEW r \in Granted, Valid(r), NEW size \in 0..(MaxPageSize + 1)
      PROVE  /\ [i \in DOMAIN TaskPages(NoAddress, r, size) |->
                   TaskPages(NoAddress, r, size)[i].task] = [t \in 1..numTasks |-> t]
             /\ ShownTo(r, ToSet(TaskPages(NoAddress, r, size)))
  <2> PICK b : b = Lower(req[r].address)
    OBVIOUS
  <2>1. Asker(NoAddress, r) = b
    BY <1>4 DEF Asker, Extract
  <2>2. TaskPages(NoAddress, r, size) = AllTasks(b)
    BY <1>1, <2>1, TaskPagesJoin
  <2>3. req[r].address.form # "bare" => b \in Spellings(req[r].address.wallet)
    BY <1>3, SpellingFacts
  <2>4. ShownTo(r, ToSet(AllTasks(b)))
    BY <1>2, <2>3, TasksShown
  <2>5. QED
    BY <1>2, <2>2, <2>4
<1>5. ASSUME NEW r \in Granted, NEW b \in Spellings(req[r].address.wallet),
             NEW size \in 0..(MaxPageSize + 1)
      PROVE  ShownTo(r, ToSet(TaskPages(b, NoToken, size)))
  <2>1. Asker(b, NoToken) = b
    BY SpellingFacts DEF Asker
  <2>2. TaskPages(b, NoToken, size) = AllTasks(b)
    BY <1>1, <2>1, TaskPagesJoin
  <2>3. ShownTo(r, ToSet(AllTasks(b)))
    BY <1>2, TasksShown
  <2>4. QED
    BY <2>2, <2>3
<1>6. ASSUME NEW r \in Granted
      PROVE  ShownTo(r, AirdropTasks(req[r].address))
  <2> PICK a : a = req[r].address
    OBVIOUS
  <2>1. a.form # "bare" => a \in Spellings(a.wallet)
    BY <1>3, SpellingFacts
  <2>2. AirdropTasks(a) \subseteq {AllTasks(a)[t] : t \in 1..numTasks}
    BY DEF AirdropTasks
  <2>3. QED
    BY <2>1, <2>2, TasksShown
<1>7. ASSUME NEW r \in Granted, req[r].address.wallet \in Listed,
             NEW b \in Spellings(req[r].address.wallet)
      PROVE  ClaimReward(b, NoToken, NoAddress)
  BY <1>7, SpellingFacts DEF ClaimReward, ClaimProof
<1>8. ASSUME NEW r \in Granted, Valid(r), req[r].address.form # "bare"
      PROVE  ClaimReward(NoAddress, r, NoAddress) <=> req[r].address.wallet \in Listed
  <2> PICK b : b = Lower(req[r].address)
    OBVIOUS
  <2>1. Lower(b).form = "lower" /\ b.wallet = req[r].address.wallet
    BY <1>3, <1>8, SpellingFacts
  <2>2. ClaimReward(NoAddress, r, NoAddress) <=> ClaimProof(b)
    BY <1>8 DEF ClaimReward, Extract
  <2>3. QED
    BY <2>1, <2>2 DEF ClaimProof
<1>9. ASSUME NEW r \in Granted
      PROVE  LET a == req[r].address
             IN /\ Valid(r) => \A size \in 0..(MaxPageSize + 1) :
                     /\ [i \in DOMAIN TaskPages(NoAddress, r, size) |->
                           TaskPages(NoAddress, r, size)[i].task] = [t \in 1..numTasks |-> t]
                     /\ ShownTo(r, ToSet(TaskPages(NoAddress, r, size)))
                     /\ \A b \in Spellings(a.wallet) : ShownTo(r, ToSet(TaskPages(b, NoToken, size)))
                /\ ShownTo(r, AirdropTasks(a))
                /\ a.wallet \in Listed =>
                     \A b \in Spellings(a.wallet) : ClaimReward(b, NoToken, NoAddress)
                /\ Valid(r) /\ a.form # "bare" =>
                     (ClaimReward(NoAddress, r, NoAddress) <=> a.wallet \in Listed)
  BY <1>4, <1>5, <1>6, <1>7, <1>8
<1>10. QED
  BY <1>9 DEF CallerServed, ShownTo, TaskPages, Spellings

-----------------------------------------------------------------------------
(***************************************************************************)
(* The theorems.                                                           *)
(***************************************************************************)
LEMMA LoginInit == Init => TypeInv /\ KeysInv /\ SessionsBacked /\ NonceServes
<1> SUFFICES ASSUME Init PROVE TypeInv /\ KeysInv /\ SessionsBacked /\ NonceServes
  OBVIOUS
<1>1. issued \in Seq(NonceRecord) /\ Len(issued) = 0 /\ Nonces = {}
  BY DEF Init, Nonces
<1>2. redis \in [Addresses -> Key] /\ \A a \in Addresses : redis[a].nonce = 0
  BY NoKeyType DEF Init, NoKey
<1>3. rows \in [Wallets -> [1..MaxTasks -> 0..2]]
      /\ \A w \in Wallets, t \in 1..MaxTasks : rows[w][t] = 0
  BY DEF Init
<1>4. req = [r \in Requests |-> req[r]] /\ \A r \in Requests : req[r].pc = "idle"
  BY DEF Init, Idle
<1>5. TypeInv
  BY <1>1, <1>2, <1>3, <1>4 DEF Init, TypeInv, TypeOK, Key, Active, Granted
<1>6. KeysInv /\ SessionsBacked /\ NonceServes
  BY <1>1, <1>2, <1>4 DEF KeysInv, NonceServes, SessionsBacked, Active, Granted
<1>7. QED
  BY <1>5, <1>6

LoginInv == TypeInv /\ KeysInv /\ SessionsBacked /\ NonceServes

LEMMA LoginInvariant == Spec => []LoginInv
<1>1. LoginInv /\ [Next]_vars => LoginInv'
  BY TypeInvStep, KeysInvStep, SessionsBackedStep, NonceServesStep DEF LoginInv
<1>2. QED
  BY <1>1, LoginInit, PTL DEF Spec, LoginInv

\* The variables of login keep their types: keys, nonces, requests and task rows,
\* whoever does what in which order.
THEOREM LoginTypeCorrect == Spec => []TypeOK
<1>1. TypeInv => TypeOK
  BY DEF TypeInv
<1>2. QED
  BY <1>1, LoginInvariant, PTL DEF LoginInv

\* A token is only granted for a nonce of the very address, signed by its wallet and
\* checked before it expired, whatever other requests do to the key meanwhile
\* (Verify, GenerateNonceForUser).
THEOREM SessionsAreBacked == Spec => []SessionsBacked
  BY LoginInvariant, PTL DEF LoginInv

\* A nonce that was stored serves its address until it expires, the address asks
\* for another or a verification of the address ends: no other login, crash or
\* failure takes it away (GenerateNonceForUser, Verify).
THEOREM NoncesServe == Spec => []NonceServes
  BY LoginInvariant, PTL DEF LoginInv

\* No verification starts from a nonce whose key another one has deleted, however
\* their reads, checks and deletions interleave (Verify).
THEOREM SpentNoncesAreRefused == Spec => SpentNonceRefused
<1>1. ASSUME TypeInv, KeysInv, [Next]_vars, NEW r \in Requests,
             req[r].pc = "idle", req'[r].pc = "checked"
      PROVE  ~issued[req'[r].nonce].ended
  <2> USE DEF counters, taskVars, loginVars
  <2>1. ASSUME NEW q \in Requests, NEW a \in Addresses, NEW n \in Nonces, NEW w \in Wallets,
               CheckNonce(q, a, n, w)
        PROVE  ~issued[req'[r].nonce].ended
    <3>1. q = r /\ req'[r].nonce = n
      BY <1>1, <2>1 DEF CheckNonce, TypeInv
    <3>2. redis[a].nonce = n /\ redis[a].nonce # 0
      BY <2>1 DEF CheckNonce, Matches
    <3>3. QED
      BY <1>1, <3>1, <3>2 DEF KeysInv
  <2>2. ASSUME NEW q \in Requests
        PROVE  ~DeleteNonce(q) /\ ~Grant(q)
    BY <1>1 DEF DeleteNonce, Grant, TypeInv
  <2>3. ~Crash /\ req' # req
    BY <1>1 DEF Crash
  <2>4. QED
    BY <1>1, <2>1, <2>2, <2>3 DEF Next, GetNonce, AddTask, Complete, Tick, vars
<1>2. TypeInv /\ KeysInv /\ [Next]_vars
        => [\A r \in Requests : req[r].pc = "idle" /\ req'[r].pc = "checked"
                                  => ~issued[req'[r].nonce].ended]_vars
  BY <1>1
<1>3. QED
  BY <1>2, LoginInvariant, PTL DEF Spec, LoginInv, SpentNonceRefused

\* The status of a wallet's task never goes back, however often the wallet logs in
\* and under whatever spelling (the insertion in Verify).
THEOREM StatusIsKept == Spec => StatusKept
<1>1. TypeInv /\ [Next]_vars
        => [\A w \in Wallets, t \in 1..MaxTasks : rows'[w][t] >= rows[w][t]]_vars
  BY StatusKeptStep
<1>2. QED
  BY <1>1, LoginInvariant, PTL DEF Spec, LoginInv, StatusKept

\* While its token lives, a login that could bind its tasks is shown each of them as
\* begun, on the pages of any size and under any spelling with 0x; the pages hold each
\* task once, and a listed wallet finds its proof (Verify, UserTaskList, ClaimReward).
THEOREM CallersAreServed == Spec => []CallerServed
<1>1. Init => BoundInv
  BY DEF Init, BoundInv, Granted, Idle
<1>2. LoginInv /\ LoginInv' /\ BoundInv /\ [Next]_vars => BoundInv'
  BY BoundInvStep DEF LoginInv
<1>3. LoginInv /\ BoundInv => CallerServed
  BY CallersServed DEF LoginInv
<1>4. QED
  BY <1>1, <1>2, <1>3, LoginInvariant, PTL DEF Spec
================================================================================
