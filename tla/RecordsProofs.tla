--------------------------- MODULE RecordsProofs ----------------------------
(***************************************************************************)
(* Theorems about Records for every value of its constants: the inductive  *)
(* invariant and what follows from it, and that a disposable paste, once   *)
(* it is exhausted, stays so.                                              *)
(***************************************************************************)
EXTENDS Records, TLAPS

-----------------------------------------------------------------------------
(* The record and its counters *)

\* Record.GetBody keeps a record a record.
LEMMA TouchType ==
    ASSUME NEW r \in HashRecords
    PROVE  Touch(r) \in HashRecords
<1>1. DecreasedCounter(r) \in Nat
  BY DEF DecreasedCounter, HashRecords
<1>2. IncreasedClicks(r) \in 0 .. (ClicksWidth - 1)
  BY ClicksWidthAssumption DEF IncreasedClicks, HashRecords
<1> QED  BY <1>1, <1>2 DEF Touch, HashRecords

LEMMA WithTTLType ==
    ASSUME NEW r \in HashRecords, NEW t \in Int
    PROVE  WithTTL(r, t) \in HashRecords
BY DEF WithTTL, HashRecords

LEMMA NewRecordType ==
    ASSUME NEW p \in Pastes, NEW ttl \in TTLs, NEW d \in Disposables
    PROVE  NewRecord(p, ttl, d) \in HashRecords
BY ClicksWidthAssumption, TTLsAssumption, DisposablesAssumption
   DEF NewRecord, HashRecords

LEMMA ZeroRecordType == ZeroRecord(NoBody) \in HashRecords
BY ClicksWidthAssumption DEF ZeroRecord, HashRecords

LEMMA FormatSecType ==
    ASSUME NEW d \in Int
    PROVE  FormatSec(d) \in Int
BY SecondAssumption DEF FormatSec

LEMMA SecondsPositive ==
    ASSUME NEW n \in Int, n > 0
    PROVE  n * Second \in Nat \ {0}
BY SecondAssumption

-----------------------------------------------------------------------------
(* Types *)

LEMMA ElapseType ==
    ASSUME NEW d \in Int, NEW f \in Int
    PROVE  Elapse(d, Step, f) \in Int /\ (f >= 0 => Elapse(d, Step, f) \in Nat)
BY StepAssumption DEF Elapse

\* A read costs one unit of the countdown and makes one click.
LEMMA TouchBalanced ==
    ASSUME TypeOK, NEW r \in HashRecords, NEW d \in Dates,
           r.body \in Pastes, Balanced(r), Readable(r, d)
    PROVE  Balanced(Touch(r))
<1> DEFINE p == r.body
<1> DEFINE q == Touch(r)
<1>1. /\ q.body = p /\ q.eternal = r.eternal
      /\ q.clicks = IncreasedClicks(r) /\ q.countdown = DecreasedCounter(r)
  BY DEF Touch, HashRecords
<1>2. CASE ~Limited(p)
  BY <1>1, <1>2 DEF Balanced
<1>3. CASE Limited(p)
  <2>1. ~r.eternal /\ r.clicks + r.countdown = terms[p].disposable
    BY <1>3 DEF Balanced
  <2>2. r.clicks \in Nat /\ r.countdown \in Nat /\ r.countdown >= 1
    BY <2>1, ClicksWidthAssumption DEF HashRecords, Readable, CounterExhausted
  <2>3. terms[p].disposable \in 0 .. (ClicksWidth - 1)
    <3>1. terms[p] \in [ttl : TTLs \cup {0}, disposable : Disposables \cup {0}]
      BY DEF TypeOK
    <3>2. terms[p].disposable \in Disposables \cup {0}
      BY <3>1
    <3>3. 0 \in 0 .. (ClicksWidth - 1)
      BY ClicksWidthAssumption
    <3> QED  BY <3>2, <3>3, DisposablesAssumption
  <2>4. r.clicks + 1 \in 0 .. (ClicksWidth - 1)
    BY <2>1, <2>2, <2>3, ClicksWidthAssumption
  <2>5. IncreasedClicks(r) = r.clicks + 1
    BY <2>4, ClicksWidthAssumption DEF IncreasedClicks
  <2>6. DecreasedCounter(r) = r.countdown - 1
    BY <2>1, <2>2 DEF DecreasedCounter
  <2> QED  BY <1>1, <1>3, <2>1, <2>2, <2>5, <2>6 DEF Balanced
<1> QED  BY <1>2, <1>3

LEMMA NewBalanced ==
    ASSUME NEW p \in Pastes, NEW ttl \in TTLs, NEW d \in Disposables
    PROVE  /\ NewRecord(p, ttl, d).body = p
           /\ NewRecord(p, ttl, d).eternal <=> d = 0
           /\ NewRecord(p, ttl, d).clicks + NewRecord(p, ttl, d).countdown = d
<1>1. d \in Int
  BY ClicksWidthAssumption, DisposablesAssumption
<1>2. 0 + d = d
  BY <1>1
<1> QED  BY <1>2 DEF NewRecord

-----------------------------------------------------------------------------
(* What Redis holds *)

\* The part of the invariant that is about Redis.
StoreInv ==
    /\ hash \in [Keys -> HashRecords \cup {Absent}]
    /\ exp \in [Keys -> Nat]
    /\ StoredGenuine
    /\ StoredBalanced

LEMMA StoreUnchanged ==
    ASSUME IInv, UNCHANGED redis, UNCHANGED <<home, terms>>
    PROVE  StoreInv'
BY DEF IInv, TypeOK, StoreInv, redis, StoredGenuine, Conservation, StoredBalanced,
       Balanced, Limited

LEMMA SetHashKeeps ==
    ASSUME IInv, NEW w \in Workers, pc[w] = "hset", SetHash(key[w], rec[w]),
           UNCHANGED <<home, terms>>
    PROVE  StoreInv'
<1>1. /\ key[w] \in Keys /\ rec[w] \in HashRecords /\ rec[w].body \in Pastes
      /\ home[rec[w].body] = key[w] /\ Balanced(rec[w])
  BY NoBodyAssumption DEF IInv, TypeOK, Phases, Postings, Conservation, InHandBalanced
<1>2. hash' \in [Keys -> HashRecords \cup {Absent}] /\ exp' \in [Keys -> Nat]
  BY <1>1 DEF SetHash, IInv, TypeOK
<1>3. \A k \in Keys : hash'[k] = IF k = key[w] THEN rec[w] ELSE hash[k]
  BY DEF SetHash, IInv, TypeOK
<1>4. StoredGenuine'
  BY <1>1, <1>3 DEF IInv, StoredGenuine
<1>5. StoredBalanced'
  BY <1>1, <1>3 DEF IInv, Conservation, StoredBalanced, Balanced, Limited
<1> QED  BY <1>2, <1>4, <1>5 DEF StoreInv

LEMMA SetExpiryKeeps ==
    ASSUME IInv, NEW w \in Workers, SetExpiry(key[w], arm[w]), UNCHANGED <<home, terms>>
    PROVE  StoreInv'
<1>1. hash' \in [Keys -> HashRecords \cup {Absent}] /\ exp' \in [Keys -> Nat]
  <2>1. CASE arm[w] > 0
    <3>1. arm[w] * Second \in Nat
      BY <2>1, SecondsPositive DEF IInv, TypeOK
    <3> QED  BY <2>1, <3>1 DEF IInv, TypeOK, SetExpiry, redis
  <2>2. CASE ~(arm[w] > 0)
    BY <2>2 DEF IInv, TypeOK, SetExpiry, redis
  <2> QED  BY <2>1, <2>2
<1>2. \A k \in Keys : hash'[k] \in {hash[k], Absent}
  BY DEF IInv, TypeOK, SetExpiry, redis
<1>3. StoredGenuine'
  BY <1>2 DEF IInv, StoredGenuine
<1>4. StoredBalanced'
  BY <1>2 DEF IInv, Conservation, StoredBalanced, Balanced, Limited
<1> QED  BY <1>1, <1>3, <1>4 DEF StoreInv

-----------------------------------------------------------------------------
(* The end of a request *)

LEMMA DoneKeeps ==
    ASSUME IInv, NEW w \in Workers, Done(w), StoreInv', UNCHANGED <<home, terms, life>>,
           served' \in [Pastes -> Nat],
           \/ status' = status
           \/ /\ op[w] \in Posts
              /\ \E s \in {"accepted", "refused"} :
                    status' = [status EXCEPT ![rec[w].body] = s]
    PROVE  IInv'
<1>1. TypeOK'
  <2>1. /\ pc' \in [Workers -> Labels] /\ op' \in [Workers -> AllOps]
        /\ key' \in [Workers -> Keys \cup {NoKey}] /\ arm' \in [Workers -> Int]
    BY DEF IInv, TypeOK, Done, Labels, AllOps
  <2>2. rec' \in [Workers -> HashRecords] /\ date' \in [Workers -> Dates]
    BY ZeroRecordType DEF IInv, TypeOK, Done, NoDate, DateFromTTL, Dates
  <2>3. status' \in [Pastes -> {"unsent", "sent", "accepted", "refused"}]
    BY DEF IInv, TypeOK
  <2> QED  BY <2>1, <2>2, <2>3 DEF IInv, TypeOK, StoreInv
<1>2. \A v \in Workers \ {w} :
         pc'[v] = pc[v] /\ op'[v] = op[v] /\ key'[v] = key[v] /\ rec'[v] = rec[v]
  BY DEF Done, IInv, TypeOK
<1>3. pc'[w] = "idle" /\ op'[w] = "get" /\ key'[w] = NoKey /\ rec'[w] = ZeroRecord(NoBody)
  BY DEF Done, IInv, TypeOK
<1>4. ZeroRecord(NoBody).body = NoBody
  BY DEF ZeroRecord
<1>5. Phases'
  BY <1>2, <1>3, <1>4 DEF IInv, Phases, Posts
<1>6. Postings'
  <2>1. \A p \in Pastes : status'[p] = "unsent" => status[p] = "unsent"
    BY DEF IInv, TypeOK
  <2>2. ASSUME NEW v \in Workers \ {w}, op[v] \in Posts
        PROVE  status'[rec[v].body] = "sent"
    <3>1. rec[v].body \in Pastes /\ status[rec[v].body] = "sent"
      BY <2>2 DEF IInv, Phases, Postings
    <3>2. op[w] \in Posts => rec[w].body # rec[v].body
      BY <2>2 DEF IInv, Postings
    <3> QED  BY <3>1, <3>2 DEF IInv, TypeOK
  <2> QED  BY <1>2, <1>3, <1>4, <2>1, <2>2 DEF IInv, Postings, Posts
<1>7. InHandBalanced'
  BY <1>2, <1>3, <1>4 DEF IInv, Conservation, InHandBalanced, Balanced, Limited
<1> QED  BY <1>1, <1>5, <1>6, <1>7 DEF IInv, StoreInv, Conservation

LEMMA RefuseKeeps ==
    ASSUME IInv, NEW w \in Workers, Refuse(w), UNCHANGED redis
    PROVE  IInv'
BY DoneKeeps, StoreUnchanged DEF Refuse, IInv, TypeOK

LEMMA AcceptKeeps ==
    ASSUME IInv, NEW w \in Workers, Accept(w), op[w] \in Posts, StoreInv'
    PROVE  IInv'
BY DoneKeeps DEF Accept, IInv, TypeOK

LEMMA ServeKeeps ==
    ASSUME IInv, NEW w \in Workers, Serve(w), StoreInv'
    PROVE  IInv'
<1>1. served' \in [Pastes -> Nat]
  BY DEF Serve, IInv, TypeOK
<1> QED  BY <1>1, DoneKeeps DEF Serve

LEMMA StoredKeeps ==
    ASSUME IInv, NEW w \in Workers, pc[w] \in {"hset", "arm", "expire"},
           Stored(w), StoreInv'
    PROVE  IInv'
<1>1. CASE op[w] = "get" /\ Serve(w)
  BY <1>1, ServeKeeps
<1>2. CASE op[w] \in {"keyed", "custom"} /\ Accept(w)
  BY <1>2, AcceptKeeps DEF Posts
<1>3. CASE /\ op[w] = "anon"
           /\ pc' = [pc EXCEPT ![w] = "quota"]
           /\ UNCHANGED <<locals, clients>>
  <2>1. TypeOK'
    BY <1>3 DEF IInv, TypeOK, StoreInv, locals, clients, Labels, Commands
  <2>2. \A v \in Workers : pc'[v] = IF v = w THEN "quota" ELSE pc[v]
    BY <1>3 DEF IInv, TypeOK
  <2>3. Phases'
    BY <1>3, <2>2 DEF IInv, Phases, Posts, locals
  <2>4. Postings'
    BY <1>3, <2>2 DEF IInv, Postings, Posts, locals, clients
  <2>5. InHandBalanced'
    BY <1>3 DEF IInv, Conservation, InHandBalanced, Balanced, Limited, locals, clients
  <2> QED  BY <2>1, <2>3, <2>4, <2>5 DEF IInv, StoreInv, Conservation
<1> QED  BY <1>1, <1>2, <1>3 DEF Stored

-----------------------------------------------------------------------------
(* The steps of a request *)

\* Nothing but the worker's place, date and argument of EXPIRE moves: what
\* remains to be shown are the types and the phase it comes to.
LEMMA PlaceKeeps ==
    ASSUME IInv, NEW w \in Workers, TypeOK', UNCHANGED <<redis, op, key, rec, clients>>,
           \A v \in Workers \ {w} : pc'[v] = pc[v],
           Phases',
           pc'[w] \in {"requested", "generate"} => pc[w] \in {"requested", "generate"},
           pc[w] \in {"requested", "generate"} => pc'[w] \in {"requested", "generate"}
    PROVE  IInv'
<1>1. StoreInv'
  BY StoreUnchanged DEF clients
<1>2. Postings'
  BY DEF IInv, Postings, clients
<1>3. InHandBalanced'
  BY DEF IInv, Conservation, InHandBalanced, Balanced, Limited, clients
<1> QED  BY <1>1, <1>2, <1>3 DEF IInv, StoreInv, Conservation

LEMMA TickKeeps ==
    ASSUME IInv, Tick
    PROVE  IInv'
<1>1. \A k \in Keys : hash'[k] \in {hash[k], Absent}
  BY DEF Tick
<1>2. TypeOK'
  <2>1. hash' \in [Keys -> HashRecords \cup {Absent}]
    BY <1>1 DEF Tick, IInv, TypeOK
  <2>2. exp' \in [Keys -> Nat]
    BY ElapseType DEF Tick, IInv, TypeOK
  <2>3. date' \in [Workers -> Dates]
    BY ElapseType DEF Tick, IInv, TypeOK, Dates
  <2>4. life' \in [Pastes -> Nat]
    BY ElapseType DEF Tick, IInv, TypeOK
  <2> QED  BY <2>1, <2>2, <2>3, <2>4 DEF Tick, IInv, TypeOK
<1>3. Phases' /\ Postings'
  BY DEF Tick, IInv, Phases, Postings
<1>4. StoredGenuine'
  BY <1>1 DEF Tick, IInv, StoredGenuine
<1>5. Conservation'
  BY <1>1 DEF Tick, IInv, Conservation, StoredBalanced, InHandBalanced, Balanced, Limited
<1> QED  BY <1>2, <1>3, <1>4, <1>5 DEF IInv

LEMMA CrashKeeps ==
    ASSUME IInv, Crash
    PROVE  IInv'
<1>1. \A w \in Workers : /\ pc'[w] = "idle" /\ op'[w] = "get" /\ key'[w] = NoKey
                         /\ rec'[w] = ZeroRecord(NoBody)
  BY DEF Crash
<1>2. ZeroRecord(NoBody).body = NoBody
  BY DEF ZeroRecord
<1>3. StoreInv'
  BY StoreUnchanged DEF Crash
<1>4. TypeOK'
  BY ZeroRecordType
     DEF Crash, IInv, TypeOK, NoDate, DateFromTTL, Dates, Labels, AllOps, redis
<1>5. Phases'
  BY <1>1, <1>2 DEF Phases, Posts
<1>6. Postings'
  BY <1>1, <1>2 DEF Crash, IInv, TypeOK, Postings, Posts
<1>7. InHandBalanced'
  BY <1>1, <1>2 DEF InHandBalanced
<1> QED  BY <1>3, <1>4, <1>5, <1>6, <1>7 DEF IInv, StoreInv, Conservation

LEMMA ReadStartKeeps ==
    ASSUME IInv, NEW w \in Workers, NEW o \in Ops, NEW k \in Keys, ReadStart(w, o, k)
    PROVE  IInv'
<1>1. \A v \in Workers : /\ pc'[v] = IF v = w THEN "exists" ELSE pc[v]
                         /\ op'[v] = IF v = w THEN o ELSE op[v]
                         /\ key'[v] = IF v = w THEN k ELSE key[v]
  BY DEF ReadStart, Goto, IInv, TypeOK
<1>2. o \in {"get", "clicks"} /\ pc[w] = "idle" /\ rec' = rec
  BY DEF ReadStart
<1>3. rec[w] = ZeroRecord(NoBody) /\ rec[w].body = NoBody
  <2>1. rec[w] = ZeroRecord(NoBody)
    BY <1>2 DEF IInv, Phases
  <2> QED  BY <2>1 DEF ZeroRecord
<1>4. StoreInv'
  BY StoreUnchanged DEF ReadStart, clients
<1>5. TypeOK'
  BY OpsAssumption
     DEF ReadStart, Goto, IInv, TypeOK, Labels, Commands, redis, clients
<1>6. Phases'
  BY <1>1, <1>2, <1>3 DEF IInv, Phases, Posts
<1>7. Postings'
  BY <1>1, <1>2, <1>3 DEF ReadStart, IInv, Postings, Posts, clients
<1>8. InHandBalanced'
  BY <1>2 DEF ReadStart, IInv, Conservation, InHandBalanced, Balanced, Limited, clients
<1> QED  BY <1>4, <1>5, <1>6, <1>7, <1>8 DEF IInv, StoreInv, Conservation

LEMMA ExistsKeeps ==
    ASSUME IInv, NEW w \in Workers, Exists(w)
    PROVE  IInv'
<1>1. CASE Refuse(w)
  BY <1>1, RefuseKeeps DEF Exists
<1>2. CASE Goto(w, "hgetall") /\ UNCHANGED <<locals, clients>>
  <2>1. \A v \in Workers : pc'[v] = IF v = w THEN "hgetall" ELSE pc[v]
    BY <1>2 DEF Goto, IInv, TypeOK
  <2>2. TypeOK'
    BY <1>2 DEF Exists, Goto, IInv, TypeOK, Labels, Commands, redis, locals, clients
  <2>3. Phases'
    BY <1>2, <2>1 DEF Exists, IInv, Phases, locals
  <2> QED  BY <1>2, <2>1, <2>2, <2>3, PlaceKeeps DEF Exists, locals
<1> QED  BY <1>1, <1>2 DEF Exists

LEMMA HGetAllKeeps ==
    ASSUME IInv, NEW w \in Workers, HGetAll(w)
    PROVE  IInv'
<1>1. pc[w] = "hgetall" /\ key[w] \in Keys /\ op[w] \in {"get", "clicks"}
  BY DEF HGetAll, IInv, Phases
<1> DEFINE r == IF hash[key[w]] = Absent THEN ZeroRecord(NoBody) ELSE hash[key[w]]
<1>2. /\ r \in HashRecords
      /\ \/ r = ZeroRecord(NoBody) /\ r.body = NoBody
         \/ r.body \in Pastes /\ home[r.body] = key[w] /\ Balanced(r)
  <2>1. CASE hash[key[w]] = Absent
    BY <2>1, ZeroRecordType DEF ZeroRecord
  <2>2. CASE hash[key[w]] # Absent
    BY <1>1, <2>2 DEF IInv, TypeOK, StoredGenuine, Conservation, StoredBalanced
  <2> QED  BY <2>1, <2>2
<1>3. rec' = [rec EXCEPT ![w] = r]
  BY DEF HGetAll
<1> HIDE DEF r
<1>4. \A v \in Workers : /\ pc'[v] = IF v = w THEN "load" ELSE pc[v]
                         /\ rec'[v] = IF v = w THEN r ELSE rec[v]
  BY <1>3 DEF HGetAll, Goto, IInv, TypeOK
<1>5. StoreInv'
  BY StoreUnchanged DEF HGetAll, clients
<1>6. TypeOK'
  BY <1>2, <1>3 DEF HGetAll, Goto, IInv, TypeOK, Labels, redis, clients
<1>7. Phases'
  BY <1>1, <1>2, <1>4, NoBodyAssumption DEF HGetAll, IInv, Phases, Posts
<1>8. Postings'
  BY <1>1, <1>2, <1>4 DEF HGetAll, IInv, Postings, Posts, clients
<1>9. InHandBalanced'
  BY <1>2, <1>4 DEF HGetAll, IInv, Conservation, InHandBalanced, Balanced, Limited, clients
<1> QED  BY <1>5, <1>6, <1>7, <1>8, <1>9 DEF IInv, StoreInv, Conservation

LEMMA LoadKeeps ==
    ASSUME IInv, NEW w \in Workers, Load(w)
    PROVE  IInv'
<1>1. CASE op[w] = "clicks" /\ Done(w)
  BY <1>1, DoneKeeps, StoreUnchanged DEF Load, IInv, TypeOK, clients
<1>2. CASE op[w] = "get" /\ ~(op[w] = "clicks" /\ Done(w))
  <2>1. \A v \in Workers : pc'[v] = IF v = w THEN "body" ELSE pc[v]
    BY <1>2 DEF Load, Goto, IInv, TypeOK
  <2>2. DateFromTTL(rec[w].ttl) \in Dates
    BY DEF IInv, TypeOK, HashRecords, DateFromTTL, Dates
  <2>3. TypeOK'
    <3>1. date' \in [Workers -> Dates] /\ pc' \in [Workers -> Labels]
      BY <1>2, <2>2 DEF Load, Goto, IInv, TypeOK, Labels
    <3>2. UNCHANGED <<op, key, rec, arm>> /\ UNCHANGED redis /\ UNCHANGED clients
      BY <1>2 DEF Load
    <3> QED  BY <3>1, <3>2 DEF IInv, TypeOK, redis, clients
  <2>4. Phases'
    BY <1>2, <2>1 DEF Load, IInv, Phases
  <2> QED  BY <1>2, <2>1, <2>3, <2>4, PlaceKeeps DEF Load
<1> QED  BY <1>1, <1>2 DEF Load

LEMMA GetBodyKeeps ==
    ASSUME IInv, NEW w \in Workers, GetBody(w)
    PROVE  IInv'
<1>1. CASE Refuse(w)
  BY <1>1, RefuseKeeps DEF GetBody
<1>2. CASE ~Refuse(w)
  <2> DEFINE r == Touch(rec[w])
  <2>1. pc[w] = "body" /\ op[w] = "get" /\ Readable(rec[w], date[w])
    BY <1>2 DEF GetBody, IInv, Phases
  <2>2. rec[w] \in HashRecords
    BY DEF IInv, TypeOK
  <2>3. rec[w].body \in Pastes
    <3>1. rec[w] # ZeroRecord(NoBody)
      BY <2>1 DEF Readable, CounterExhausted, ZeroRecord
    <3> QED  BY <2>2, <3>1 DEF IInv, Phases, HashRecords
  <2>4. r \in HashRecords
    BY <2>2, TouchType
  <2>5. r.body = rec[w].body
    BY <2>2 DEF Touch, HashRecords
  <2>6. Balanced(r)
    <3>1. Balanced(rec[w])
      BY <2>3, NoBodyAssumption DEF IInv, Conservation, InHandBalanced
    <3>2. TypeOK /\ date[w] \in Dates
      BY DEF IInv, TypeOK
    <3> QED  BY <2>1, <2>2, <2>3, <3>1, <3>2, TouchBalanced
  <2>7. rec' = [rec EXCEPT ![w] = r] /\ pc' = [pc EXCEPT ![w] = "prepare"]
    BY <1>2 DEF GetBody, Goto
  <2> HIDE DEF r
  <2>8. \A v \in Workers : /\ pc'[v] = IF v = w THEN "prepare" ELSE pc[v]
                           /\ rec'[v] = IF v = w THEN r ELSE rec[v]
    BY <2>7 DEF IInv, TypeOK
  <2>9. UNCHANGED <<redis, op, key, date, arm, clients>>
    BY <1>2 DEF GetBody
  <2>10. StoreInv'
    BY <2>9, StoreUnchanged DEF clients
  <2>11. TypeOK'
    BY <2>4, <2>7, <2>9 DEF IInv, TypeOK, Labels, redis, clients
  <2>12. Phases'
    BY <2>1, <2>3, <2>5, <2>8, <2>9, NoBodyAssumption DEF IInv, Phases, Posts
  <2>13. Postings'
    BY <2>1, <2>3, <2>5, <2>8, <2>9, NoBodyAssumption DEF IInv, Postings, Posts, clients
  <2>14. InHandBalanced'
    BY <2>6, <2>8, <2>9
       DEF IInv, Conservation, InHandBalanced, Balanced, Limited, clients
  <2> QED  BY <2>10, <2>11, <2>12, <2>13, <2>14 DEF IInv, StoreInv, Conservation
<1> QED  BY <1>1, <1>2

LEMMA PostStartKeeps ==
    ASSUME IInv, NEW w \in Workers, NEW p \in Pastes, NEW o \in Ops,
           NEW k \in Keys \cup {NoKey}, NEW t \in TTLs, NEW d \in Disposables,
           PostStart(w, p, o, k, t, d)
    PROVE  IInv'
<1> DEFINE r == NewRecord(p, t, d)
<1> DEFINE at == IF o = "custom" THEN "requested" ELSE "generate"
<1>1. pc[w] = "idle" /\ status[p] = "unsent" /\ o \in Posts /\ o \in AllOps
  BY DEF PostStart, Posts, AllOps
<1>2. o = "custom" => k \in Keys
  BY DEF PostStart
<1>3. r \in HashRecords
  BY NewRecordType
<1>4. r.body = p /\ (r.eternal <=> d = 0) /\ r.clicks + r.countdown = d
  BY NewBalanced
<1>5. rec' = [rec EXCEPT ![w] = r] /\ pc' = [pc EXCEPT ![w] = at]
  BY DEF PostStart, Goto
<1> HIDE DEF r
<1>6. \A v \in Workers : /\ pc'[v] = IF v = w THEN at ELSE pc[v]
                         /\ op'[v] = IF v = w THEN o ELSE op[v]
                         /\ key'[v] = IF v = w THEN k ELSE key[v]
                         /\ rec'[v] = IF v = w THEN r ELSE rec[v]
  BY <1>5 DEF PostStart, IInv, TypeOK
<1>7. \A q \in Pastes :
         /\ status'[q] = IF q = p THEN "sent" ELSE status[q]
         /\ terms'[q] = IF q = p THEN [ttl |-> t, disposable |-> d] ELSE terms[q]
  BY DEF PostStart, IInv, TypeOK
<1>8. UNCHANGED <<redis, home>>
  BY DEF PostStart
\* Nobody has got the body yet, and no hash has.
<1>9. home[p] = NoKey /\ \A v \in Workers : op[v] \in Posts => rec[v].body # p
  BY <1>1 DEF IInv, Postings
<1>10. \A v \in Workers : v # w => rec[v].body # p
  <2> SUFFICES ASSUME NEW v \in Workers, v # w, rec[v].body = p
               PROVE  FALSE
    OBVIOUS
  <2>1. rec[v].body # NoBody /\ op[v] \notin Posts
    BY <1>9, NoBodyAssumption
  <2>2. rec[v] # ZeroRecord(NoBody)
    BY <2>1 DEF ZeroRecord
  <2>3. pc[v] \notin {"idle", "exists", "hgetall", "requested", "generate"}
    BY <2>1, <2>2 DEF IInv, Phases
  <2>4. key[v] \in Keys
    BY <2>3 DEF IInv, Phases
  <2>5. home[p] = key[v]
    BY <2>1, <2>3 DEF IInv, Postings
  <2> QED  BY <1>9, <2>4, <2>5, NoKeyAssumption
<1>11. TypeOK'
  <2>1. [ttl |-> t, disposable |-> d] \in [ttl : TTLs \cup {0}, disposable : Disposables \cup {0}]
    OBVIOUS
  <2>2. DateFromTTL(t) \in Dates /\ t \in Nat
    BY TTLsAssumption DEF DateFromTTL, Dates
  <2>3. at \in Labels
    BY DEF Labels, Commands
  <2> QED  BY <1>1, <1>3, <1>5, <2>1, <2>2, <2>3 DEF PostStart, IInv, TypeOK, redis
<1>12. StoredGenuine'
  BY <1>8 DEF IInv, StoredGenuine, redis
<1>13. \A k2 \in Keys : hash[k2] # Absent => hash[k2].body \in Pastes \ {p}
  BY <1>9, NoKeyAssumption DEF IInv, StoredGenuine
<1>14. StoredBalanced'
  BY <1>7, <1>8, <1>13
     DEF IInv, Conservation, StoredBalanced, Balanced, Limited, redis
<1>15. Balanced(r)'
  BY <1>4, <1>7 DEF Balanced, Limited
<1>16. \A v \in Workers : v # w /\ rec[v].body # NoBody => rec[v].body \in Pastes \ {p}
  BY <1>10 DEF IInv, TypeOK, HashRecords
<1>17. InHandBalanced'
  BY <1>6, <1>7, <1>15, <1>16
     DEF IInv, Conservation, InHandBalanced, Balanced, Limited
<1>18. Phases'
  BY <1>1, <1>2, <1>4, <1>6, NoBodyAssumption DEF IInv, Phases, Posts
<1>19. Postings'
  <2>1. \A q \in Pastes : status'[q] = "unsent" => home'[q] = NoKey
    BY <1>7, <1>8 DEF IInv, Postings
  <2>2. \A v \in Workers : op'[v] \in Posts => status'[rec'[v].body] = "sent"
    <3>1. \A v \in Workers : op[v] \in Posts =>
             rec[v].body \in Pastes /\ status[rec[v].body] = "sent"
      BY DEF IInv, Phases, Postings
    <3> QED  BY <1>4, <1>6, <1>7, <3>1
  <2>3. \A u, v \in Workers :
           op'[u] \in Posts /\ op'[v] \in Posts /\ rec'[u].body = rec'[v].body => u = v
    BY <1>4, <1>6, <1>10 DEF IInv, Postings
  <2>4. \A v \in Workers :
           pc'[v] \in {"requested", "generate"} => home'[rec'[v].body] = NoKey
    BY <1>4, <1>6, <1>8, <1>9 DEF IInv, Postings
  <2>5. \A v \in Workers :
           rec'[v].body # NoBody /\ pc'[v] \notin {"requested", "generate"} =>
              home'[rec'[v].body] = key'[v]
    BY <1>4, <1>6, <1>8 DEF IInv, Postings
  <2> QED  BY <2>1, <2>2, <2>3, <2>4, <2>5 DEF Postings
<1> QED  BY <1>11, <1>12, <1>14, <1>17, <1>18, <1>19 DEF IInv, Conservation

\* A POST is given its key: nobody else has its body.
LEMMA HomeKeeps ==
    ASSUME IInv, NEW w \in Workers, NEW k \in Keys,
           pc[w] \in {"requested", "generate"},
           pc' = [pc EXCEPT ![w] = "prepare"],
           key' = [key EXCEPT ![w] = k],
           home' = [home EXCEPT ![rec[w].body] = k],
           UNCHANGED <<redis, op, rec, date, arm, status, terms, life, served>>
    PROVE  IInv'
<1> DEFINE p == rec[w].body
<1>1. op[w] \in Posts /\ p \in Pastes /\ home[p] = NoKey /\ status[p] = "sent"
  BY DEF IInv, Phases, Postings
<1>2. \A v \in Workers : /\ pc'[v] = IF v = w THEN "prepare" ELSE pc[v]
                         /\ key'[v] = IF v = w THEN k ELSE key[v]
  BY DEF IInv, TypeOK
<1>3. \A q \in Pastes : home'[q] = IF q = p THEN k ELSE home[q]
  BY DEF IInv, TypeOK
<1>4. \A v \in Workers : v # w => rec[v].body # p
  <2> SUFFICES ASSUME NEW v \in Workers, v # w, rec[v].body = p
               PROVE  FALSE
    OBVIOUS
  <2>1. op[v] \notin Posts /\ rec[v].body # NoBody
    BY <1>1, NoBodyAssumption DEF IInv, Postings
  <2>2. rec[v] # ZeroRecord(NoBody)
    BY <2>1 DEF ZeroRecord
  <2>3. pc[v] \notin {"idle", "exists", "hgetall", "requested", "generate"}
    BY <2>1, <2>2 DEF IInv, Phases
  <2> QED  BY <1>1, <2>1, <2>3, NoKeyAssumption DEF IInv, Phases, Postings
<1>5. TypeOK'
  BY DEF IInv, TypeOK, Labels, redis
<1>6. StoredGenuine'
  BY <1>1, <1>3, NoKeyAssumption DEF IInv, StoredGenuine, redis
<1>7. Conservation'
  BY DEF IInv, Conservation, StoredBalanced, InHandBalanced, Balanced, Limited, redis
<1>8. Phases'
  BY <1>1, <1>2 DEF IInv, Phases, Posts
<1>9. Postings'
  <2>1. \A v \in Workers : rec[v].body # NoBody => rec[v].body \in Pastes
    BY DEF IInv, TypeOK, HashRecords
  <2> QED  BY <1>1, <1>2, <1>3, <1>4, <2>1, NoBodyAssumption DEF IInv, Postings, Phases
<1> QED  BY <1>5, <1>6, <1>7, <1>8, <1>9 DEF IInv

LEMMA RequestedKeeps ==
    ASSUME IInv, NEW w \in Workers, Requested(w)
    PROVE  IInv'
<1>1. CASE Refuse(w)
  BY <1>1, RefuseKeeps DEF Requested
<1>2. CASE ~Refuse(w)
  <2>1. pc[w] = "requested" /\ key[w] \in Keys /\ key' = [key EXCEPT ![w] = key[w]]
    BY <1>2 DEF Requested, IInv, Phases, TypeOK, locals
  <2> QED  BY <1>2, <2>1, HomeKeeps DEF Requested, Goto, locals
<1> QED  BY <1>1, <1>2

LEMMA GenerateKeeps ==
    ASSUME IInv, NEW w \in Workers, NEW k \in Keys, Generate(w, k)
    PROVE  IInv'
BY HomeKeeps DEF Generate, Goto

LEMMA PrepareKeeps ==
    ASSUME IInv, NEW w \in Workers, Prepare(w)
    PROVE  IInv'
<1> DEFINE r == WithTTL(rec[w], Until(date[w]))
<1>1. pc[w] = "prepare" /\ op[w] # "clicks" /\ rec[w].body \in Pastes
  BY DEF Prepare, IInv, Phases
<1>2. rec[w] \in HashRecords /\ Until(date[w]) \in Int
  BY DEF IInv, TypeOK, Dates, Until
<1>3. r \in HashRecords
  BY <1>2, WithTTLType
<1>4. /\ r.body = rec[w].body /\ r.eternal = rec[w].eternal
      /\ r.clicks = rec[w].clicks /\ r.countdown = rec[w].countdown
  BY <1>2 DEF WithTTL, HashRecords
<1>5. Balanced(rec[w])
  BY <1>1, NoBodyAssumption DEF IInv, Conservation, InHandBalanced
<1>6. rec' = [rec EXCEPT ![w] = r] /\ pc' = [pc EXCEPT ![w] = "hset"]
  BY DEF Prepare, Goto
<1> HIDE DEF r
<1>7. \A v \in Workers : /\ pc'[v] = IF v = w THEN "hset" ELSE pc[v]
                         /\ rec'[v] = IF v = w THEN r ELSE rec[v]
  BY <1>6 DEF IInv, TypeOK
<1>8. UNCHANGED <<redis, op, key, date, arm, clients>>
  BY DEF Prepare
<1>9. StoreInv'
  BY <1>8, StoreUnchanged DEF clients
<1>10. TypeOK'
  BY <1>3, <1>6, <1>8 DEF IInv, TypeOK, Labels, Commands, redis, clients
<1>11. Phases'
  BY <1>1, <1>4, <1>7, <1>8, NoBodyAssumption DEF IInv, Phases, Posts
<1>12. Postings'
  BY <1>1, <1>4, <1>7, <1>8, NoBodyAssumption DEF IInv, Postings, Posts, clients
<1>13. InHandBalanced'
  BY <1>4, <1>5, <1>7, <1>8
     DEF IInv, Conservation, InHandBalanced, Balanced, Limited, clients
<1> QED  BY <1>9, <1>10, <1>11, <1>12, <1>13 DEF IInv, StoreInv, Conservation

LEMMA QuotaVerdictKeeps ==
    ASSUME IInv, NEW w \in Workers, QuotaVerdict(w)
    PROVE  IInv'
<1>1. op[w] \in Posts
  BY DEF QuotaVerdict, IInv, Phases
<1>2. CASE Refuse(w)
  BY <1>2, RefuseKeeps DEF QuotaVerdict
<1>3. CASE Accept(w)
  BY <1>1, <1>3, AcceptKeeps, StoreUnchanged DEF QuotaVerdict, Accept
<1> QED  BY <1>2, <1>3 DEF QuotaVerdict

LEMMA HSetKeeps ==
    ASSUME IInv, NEW w \in Workers, HSet(w)
    PROVE  IInv'
<1>1. pc[w] = "hset" /\ SetHash(key[w], rec[w])
  BY DEF HSet
<1>2. CASE Stored(w)
  <2>1. UNCHANGED <<home, terms>>
    BY <1>2 DEF Stored, Serve, Accept, clients
  <2> QED  BY <1>1, <1>2, <2>1, SetHashKeeps, StoredKeeps
<1>3. CASE Goto(w, "arm") /\ UNCHANGED <<locals, clients>>
  <2>1. StoreInv'
    BY <1>1, <1>3, SetHashKeeps DEF clients
  <2>2. \A v \in Workers : pc'[v] = IF v = w THEN "arm" ELSE pc[v]
    BY <1>3 DEF Goto, IInv, TypeOK
  <2>3. TypeOK'
    BY <1>3, <2>1 DEF Goto, IInv, TypeOK, StoreInv, Labels, locals, clients
  <2>4. Phases'
    BY <1>1, <1>3, <2>2 DEF IInv, Phases, locals
  <2>5. Postings'
    BY <1>1, <1>3, <2>2 DEF IInv, Postings, locals, clients
  <2>6. InHandBalanced'
    BY <1>3 DEF IInv, Conservation, InHandBalanced, Balanced, Limited, locals, clients
  <2> QED  BY <2>1, <2>3, <2>4, <2>5, <2>6 DEF IInv, StoreInv, Conservation
<1> QED  BY <1>2, <1>3 DEF HSet

LEMMA ArmKeeps ==
    ASSUME IInv, NEW w \in Workers, Arm(w)
    PROVE  IInv'
<1>1. \A v \in Workers : pc'[v] = IF v = w THEN "expire" ELSE pc[v]
  BY DEF Arm, Goto, IInv, TypeOK
<1>2. FormatSec(Until(date[w])) \in Int
  BY FormatSecType DEF IInv, TypeOK, Dates, Until
<1>3. TypeOK'
  BY <1>2 DEF Arm, Goto, IInv, TypeOK, Labels, Commands, redis, clients
<1>4. Phases'
  BY <1>1 DEF Arm, IInv, Phases
<1> QED  BY <1>1, <1>3, <1>4, PlaceKeeps DEF Arm

LEMMA ExpireKeeps ==
    ASSUME IInv, NEW w \in Workers, Expire(w)
    PROVE  IInv'
<1>1. pc[w] = "expire" /\ SetExpiry(key[w], arm[w]) /\ Stored(w)
  BY DEF Expire
<1>2. UNCHANGED <<home, terms>>
  BY <1>1 DEF Stored, Serve, Accept, clients
<1> QED  BY <1>1, <1>2, SetExpiryKeeps, StoredKeeps

\* A command that is executed and sent again: only Redis has changed.
LEMMA UnackedKeeps ==
    ASSUME IInv, NEW w \in Workers, HSetUnacked(w) \/ ExpireUnacked(w)
    PROVE  IInv'
<1>1. UNCHANGED <<pc, locals, clients>>
  BY DEF HSetUnacked, ExpireUnacked
<1>2. StoreInv'
  BY <1>1, SetHashKeeps, SetExpiryKeeps DEF HSetUnacked, ExpireUnacked, clients
<1>3. TypeOK' /\ Phases' /\ Postings' /\ InHandBalanced'
  BY <1>1, <1>2
     DEF IInv, TypeOK, StoreInv, Phases, Postings, Conservation, InHandBalanced, Balanced,
         Limited, locals, clients
<1> QED  BY <1>2, <1>3 DEF IInv, StoreInv, Conservation

-----------------------------------------------------------------------------
(* The theorems *)

LEMMA InitInv == Init => IInv
<1> SUFFICES ASSUME Init PROVE IInv
  OBVIOUS
<1>1. ZeroRecord(NoBody).body = NoBody
  BY DEF ZeroRecord
<1>2. TypeOK
  BY ZeroRecordType DEF Init, TypeOK, NoDate, DateFromTTL, Dates, Labels, AllOps
<1>3. Phases /\ Postings
  BY <1>1 DEF Init, Phases, Postings, Posts
<1>4. StoredGenuine /\ Conservation
  BY <1>1 DEF Init, StoredGenuine, Conservation, StoredBalanced, InHandBalanced
<1> QED  BY <1>2, <1>3, <1>4 DEF IInv

LEMMA NextInv == IInv /\ [Next]_vars => IInv'
<1> SUFFICES ASSUME IInv, [Next]_vars PROVE IInv'
  OBVIOUS
<1>1. CASE Tick
  BY <1>1, TickKeeps
<1>2. CASE Crash
  BY <1>2, CrashKeeps
<1>3. ASSUME NEW w \in Workers, Start(w)
      PROVE  IInv'
  BY <1>3, ReadStartKeeps, PostStartKeeps DEF Start
<1>4. ASSUME NEW w \in Workers, Proceed(w)
      PROVE  IInv'
  <2>1. CASE Exists(w) \/ HGetAll(w) \/ Load(w) \/ GetBody(w)
    BY <2>1, ExistsKeeps, HGetAllKeeps, LoadKeeps, GetBodyKeeps
  <2>2. CASE Requested(w) \/ KeysExhausted(w) \/ Prepare(w) \/ QuotaVerdict(w)
    BY <2>2, RequestedKeeps, RefuseKeeps, PrepareKeeps, QuotaVerdictKeeps DEF KeysExhausted
  <2>3. CASE HSet(w) \/ Arm(w) \/ Expire(w)
    BY <2>3, HSetKeeps, ArmKeeps, ExpireKeeps
  <2>4. CASE \E k \in Keys : Generate(w, k)
    BY <2>4, GenerateKeeps
  <2> QED  BY <1>4, <2>1, <2>2, <2>3, <2>4 DEF Proceed
<1>5. ASSUME NEW w \in Workers, Fault(w)
      PROVE  IInv'
  BY <1>5, UnackedKeeps, RefuseKeeps DEF Fault, Fail
<1>6. CASE UNCHANGED vars
  BY <1>6
     DEF vars, redis, locals, clients, IInv, TypeOK, Phases, Postings, StoredGenuine,
         Conservation, StoredBalanced, InHandBalanced, Balanced, Limited
<1> QED  BY <1>1, <1>2, <1>3, <1>4, <1>5, <1>6 DEF Next

\* The inductive invariant of the life of a record holds whatever the number
\* of workers, keys and pastes, under every interleaving of their commands and
\* with failing commands, lost answers and crashes.
THEOREM Invariant == Spec => []IInv
<1> QED  BY InitInv, NextInv, PTL DEF Spec

\* Every variable keeps the shape the code gives it.
THEOREM TypeCorrect == Spec => []TypeOK
<1>1. IInv => TypeOK
  BY DEF IInv
<1> QED  BY Invariant, <1>1, PTL

\* Redis only ever holds what a POST sent to that very key: the zero record of
\* a reader who lost its key between EXISTS and HGETALL is never stored.
THEOREM OnlyGenuineStored == Spec => []StoredGenuine
<1>1. IInv => StoredGenuine
  BY DEF IInv
<1> QED  BY Invariant, <1>1, PTL

\* Clicks and countdown of a disposable record move together in every copy,
\* and the uint32 clicks counter never wraps while the countdown lasts.
THEOREM CountersConserved == Spec => []Conservation
<1>1. IInv => Conservation
  BY DEF IInv
<1> QED  BY Invariant, <1>1, PTL

-----------------------------------------------------------------------------
(* Exhausted for good                                                      *)
(*                                                                         *)
(* The only way back would be a worker that still writes a copy of the     *)
(* paste.  Spent(p) says that there is none: who has a copy has just read  *)
(* it and finds it exhausted; Phases and Postings (IInv) say that workers  *)
(* at other steps have other bodies, and a new POST another paste.         *)

\* A POST that was not sent has no terms, so its paste is not exhausted.
Unsent == \A p \in Pastes : status[p] = "unsent" => ~Limited(p)

\* What the steps of others leave as it is for paste p.
Untouched(p) ==
    /\ terms'[p] = terms[p]
    /\ served'[p] = served[p]
    /\ \A k \in Keys : hash'[k] \in {hash[k], Absent} \/ hash'[k].body # p

-----------------------------------------------------------------------------
(* Statuses and terms *)

\* No step takes a status back to "unsent", and only POST writes terms.
LEMMA StatusAndTerms ==
    ASSUME IInv, [Next]_vars, NEW p \in Pastes
    PROVE  /\ status'[p] = "unsent" => status[p] = "unsent"
           /\ \/ terms'[p] = terms[p]
              \/ status[p] = "unsent" /\ status'[p] = "sent"
<1> DEFINE Fine == /\ status'[p] = "unsent" => status[p] = "unsent"
                   /\ \/ terms'[p] = terms[p]
                      \/ status[p] = "unsent" /\ status'[p] = "sent"
<1>1. \A w \in Workers : Refuse(w) \/ Accept(w) \/ Serve(w) => Fine
  BY DEF Refuse, Accept, Serve, IInv, TypeOK
<1>2. UNCHANGED clients => Fine
  BY DEF clients
<1>3. \A w \in Workers : Stored(w) => Fine
  BY <1>1, <1>2 DEF Stored
<1>4. CASE Tick \/ Crash \/ UNCHANGED vars
  BY <1>4 DEF Tick, Crash, vars, clients, IInv, TypeOK
<1>5. ASSUME NEW w \in Workers, Start(w) PROVE Fine
  BY <1>2, <1>5 DEF Start, ReadStart, PostStart, clients, IInv, TypeOK
<1>6. ASSUME NEW w \in Workers, Proceed(w) PROVE Fine
  <2>1. CASE Exists(w) \/ HGetAll(w) \/ Load(w) \/ GetBody(w)
    BY <1>1, <1>2, <2>1 DEF Exists, HGetAll, Load, GetBody, clients
  <2>2. CASE Requested(w) \/ KeysExhausted(w) \/ Prepare(w) \/ QuotaVerdict(w)
    BY <1>1, <1>2, <2>2 DEF Requested, KeysExhausted, Prepare, QuotaVerdict, clients
  <2>3. CASE HSet(w) \/ Arm(w) \/ Expire(w)
    BY <1>2, <1>3, <2>3 DEF HSet, Arm, Expire
  <2>4. CASE \E k \in Keys : Generate(w, k)
    BY <2>4 DEF Generate
  <2> QED  BY <1>6, <2>1, <2>2, <2>3, <2>4 DEF Proceed
<1>7. ASSUME NEW w \in Workers, Fault(w) PROVE Fine
  BY <1>1, <1>2, <1>7 DEF Fault, HSetUnacked, ExpireUnacked, Fail
<1> QED  BY <1>4, <1>5, <1>6, <1>7 DEF Next

LEMMA UnsentInvariant == Spec => []Unsent
<1>1. Init => Unsent
  BY DEF Init, Unsent, Limited
<1>2. IInv /\ Unsent /\ [Next]_vars => Unsent'
  BY StatusAndTerms DEF Unsent, Limited
<1> QED  BY <1>1, <1>2, Invariant, PTL DEF Spec

-----------------------------------------------------------------------------
(* The steps, for a paste that is exhausted *)

\* A worker that is neither about to look at a record nor at its counter does
\* not have the exhausted paste.
LEMMA HandsEmpty ==
    ASSUME NEW p \in Pastes, Spent(p), NEW w \in Workers, pc[w] \notin {"load", "body"}
    PROVE  rec[w].body # p
BY DEF Spent

\* A step of worker w that takes no other worker's record along.
LEMMA SpentKeeps ==
    ASSUME NEW p \in Pastes, Spent(p), NEW w \in Workers, Untouched(p),
           \A v \in Workers \ {w} : pc'[v] = pc[v] /\ rec'[v] = rec[v],
           \/ rec'[w].body # p
           \/ CounterExhausted(rec'[w]) /\ pc'[w] \in {"load", "body"}
    PROVE  Spent(p)' /\ served'[p] = served[p]
BY DEF Spent, Untouched, IsStored, Limited, CounterExhausted

LEMMA DoneSpent ==
    ASSUME IInv, NEW p \in Pastes, Spent(p), NEW w \in Workers, Done(w), Untouched(p)
    PROVE  Spent(p)' /\ served'[p] = served[p]
<1>1. \A v \in Workers \ {w} : pc'[v] = pc[v] /\ rec'[v] = rec[v]
  BY DEF Done, IInv, TypeOK
<1>2. rec'[w].body # p
  BY NoBodyAssumption DEF Done, IInv, TypeOK, ZeroRecord
<1> QED  BY <1>1, <1>2, SpentKeeps

LEMMA RefuseSpent ==
    ASSUME IInv, NEW p \in Pastes, Spent(p), NEW w \in Workers, Refuse(w), UNCHANGED redis
    PROVE  Spent(p)' /\ served'[p] = served[p]
BY DoneSpent DEF Refuse, Untouched, redis

\* What follows SetByKey does not serve the exhausted paste.
LEMMA StoredSpent ==
    ASSUME IInv, NEW p \in Pastes, Spent(p), NEW w \in Workers,
           pc[w] \in {"hset", "expire"}, Stored(w),
           \A k \in Keys : hash'[k] \in {hash[k], Absent} \/ hash'[k].body # p
    PROVE  Spent(p)' /\ served'[p] = served[p]
<1>1. rec[w].body # p
  BY HandsEmpty
<1>2. CASE Serve(w)
  BY <1>1, <1>2, DoneSpent DEF Serve, Untouched
<1>3. CASE Accept(w)
  BY <1>3, DoneSpent DEF Accept, Untouched
<1>4. CASE pc' = [pc EXCEPT ![w] = "quota"] /\ UNCHANGED <<locals, clients>>
  <2>1. \A v \in Workers \ {w} : pc'[v] = pc[v] /\ rec'[v] = rec[v]
    BY <1>4 DEF locals, IInv, TypeOK
  <2>2. rec'[w].body # p /\ Untouched(p)
    BY <1>1, <1>4 DEF locals, clients, Untouched
  <2> QED  BY <2>1, <2>2, SpentKeeps
<1> QED  BY <1>2, <1>3, <1>4 DEF Stored

\* SetHash of a worker that writes another paste.
LEMMA SetHashSpent ==
    ASSUME IInv, NEW p \in Pastes, Spent(p), NEW w \in Workers, pc[w] = "hset",
           SetHash(key[w], rec[w])
    PROVE  \A k \in Keys : hash'[k] \in {hash[k], Absent} \/ hash'[k].body # p
<1>1. rec[w].body # p
  BY HandsEmpty
<1> QED  BY <1>1 DEF SetHash, IInv, TypeOK

LEMMA SetExpirySpent ==
    ASSUME IInv, NEW p \in Pastes, NEW k \in Keys \cup {NoKey}, NEW s \in Int,
           SetExpiry(k, s)
    PROVE  \A j \in Keys : hash'[j] \in {hash[j], Absent}
BY DEF SetExpiry, redis, IInv, TypeOK

\* A step that moves worker w to another place with another body in its hands.
LEMMA GotoSpent ==
    ASSUME IInv, NEW p \in Pastes, Spent(p), NEW w \in Workers, Untouched(p),
           NEW l, pc' = [pc EXCEPT ![w] = l], rec[w].body # p, UNCHANGED rec
    PROVE  Spent(p)' /\ served'[p] = served[p]
<1>1. \A v \in Workers \ {w} : pc'[v] = pc[v] /\ rec'[v] = rec[v]
  BY DEF IInv, TypeOK
<1> QED  BY <1>1, SpentKeeps

LEMMA ReadSpent ==
    ASSUME IInv, NEW p \in Pastes, Spent(p), NEW w \in Workers,
           Exists(w) \/ HGetAll(w) \/ Load(w) \/ GetBody(w)
    PROVE  Spent(p)' /\ served'[p] = served[p]
<1>1. CASE Exists(w)
  <2>1. CASE Refuse(w)
    BY <1>1, <2>1, RefuseSpent DEF Exists
  <2>2. CASE Goto(w, "hgetall") /\ UNCHANGED <<locals, clients>>
    <3>1. Untouched(p) /\ UNCHANGED rec /\ rec[w].body # p
      BY <1>1, <2>2, HandsEmpty DEF Exists, Untouched, redis, locals, clients
    <3> QED  BY <2>2, <3>1, GotoSpent DEF Goto
  <2> QED  BY <1>1, <2>1, <2>2 DEF Exists
<1>2. CASE HGetAll(w)
  <2> DEFINE r == IF hash[key[w]] = Absent THEN ZeroRecord(NoBody) ELSE hash[key[w]]
  <2>1. r.body # p \/ CounterExhausted(r)
    <3>1. key[w] \in Keys
      BY <1>2 DEF HGetAll, IInv, Phases
    <3>2. CASE hash[key[w]] = Absent
      BY <3>2, NoBodyAssumption DEF ZeroRecord
    <3>3. CASE hash[key[w]] # Absent
      BY <3>1, <3>3 DEF Spent, IsStored
    <3> QED  BY <3>2, <3>3
  <2>2. rec' = [rec EXCEPT ![w] = r] /\ pc' = [pc EXCEPT ![w] = "load"]
    BY <1>2 DEF HGetAll, Goto
  <2> HIDE DEF r
  <2>3. rec'[w] = r /\ pc'[w] = "load"
    BY <2>2 DEF IInv, TypeOK
  <2>4. \A v \in Workers \ {w} : pc'[v] = pc[v] /\ rec'[v] = rec[v]
    BY <2>2 DEF IInv, TypeOK
  <2>5. Untouched(p)
    BY <1>2 DEF HGetAll, Untouched, redis, clients
  <2> QED  BY <2>1, <2>3, <2>4, <2>5, SpentKeeps
<1>3. CASE Load(w)
  <2>1. Untouched(p)
    BY <1>3 DEF Load, Untouched, redis, clients
  <2>2. CASE Done(w)
    BY <2>1, <2>2, DoneSpent
  <2>3. CASE Goto(w, "body") /\ UNCHANGED rec
    <3>1. pc'[w] = "body" /\ \A v \in Workers \ {w} : pc'[v] = pc[v] /\ rec'[v] = rec[v]
      BY <2>3 DEF Goto, IInv, TypeOK
    <3>2. rec'[w].body # p \/ CounterExhausted(rec'[w])
      BY <2>3 DEF Spent
    <3> QED  BY <2>1, <3>1, <3>2, SpentKeeps
  <2> QED  BY <1>3, <2>2, <2>3 DEF Load
<1>4. CASE GetBody(w)
  <2>1. CASE Refuse(w)
    BY <1>4, <2>1, RefuseSpent DEF GetBody
  <2>2. CASE ~Refuse(w)
    <3> DEFINE r == Touch(rec[w])
    <3>1. Readable(rec[w], date[w]) /\ rec' = [rec EXCEPT ![w] = r]
          /\ pc' = [pc EXCEPT ![w] = "prepare"] /\ UNCHANGED <<redis, clients>>
      BY <1>4, <2>2 DEF GetBody, Goto
    <3>2. rec[w].body # p
      BY <3>1 DEF Readable, Spent
    <3>3. r.body = rec[w].body
      BY DEF Touch
    <3> HIDE DEF r
    <3>4. rec'[w].body # p /\ \A v \in Workers \ {w} : pc'[v] = pc[v] /\ rec'[v] = rec[v]
      BY <3>1, <3>2, <3>3 DEF IInv, TypeOK
    <3>5. Untouched(p)
      BY <3>1 DEF Untouched, redis, clients
    <3> QED  BY <3>4, <3>5, SpentKeeps
  <2> QED  BY <2>1, <2>2
<1> QED  BY <1>1, <1>2, <1>3, <1>4

LEMMA PostSpent ==
    ASSUME IInv, NEW p \in Pastes, Spent(p), NEW w \in Workers,
           \/ Requested(w) \/ KeysExhausted(w) \/ Prepare(w) \/ QuotaVerdict(w)
           \/ \E k \in Keys : Generate(w, k)
    PROVE  Spent(p)' /\ served'[p] = served[p]
<1>1. rec[w].body # p
  BY HandsEmpty DEF Requested, KeysExhausted, Prepare, QuotaVerdict, Generate
<1>2. CASE Refuse(w) /\ UNCHANGED redis
  BY <1>2, RefuseSpent
<1>3. CASE Accept(w) /\ UNCHANGED redis
  BY <1>3, DoneSpent DEF Accept, Untouched, redis
<1>4. CASE Goto(w, "prepare") /\ UNCHANGED <<redis, rec, terms, served>>
  <2>1. Untouched(p)
    BY <1>4 DEF Untouched, redis
  <2> QED  BY <1>1, <1>4, <2>1, GotoSpent DEF Goto
<1>5. CASE Prepare(w)
  <2> DEFINE r == WithTTL(rec[w], Until(date[w]))
  <2>1. rec' = [rec EXCEPT ![w] = r] /\ pc' = [pc EXCEPT ![w] = "hset"]
    BY <1>5 DEF Prepare, Goto
  <2>2. r.body = rec[w].body
    BY DEF WithTTL, IInv, TypeOK, HashRecords
  <2> HIDE DEF r
  <2>3. rec'[w].body # p /\ \A v \in Workers \ {w} : pc'[v] = pc[v] /\ rec'[v] = rec[v]
    BY <1>1, <2>1, <2>2 DEF IInv, TypeOK
  <2>4. Untouched(p)
    BY <1>5 DEF Prepare, Untouched, redis, clients
  <2> QED  BY <2>3, <2>4, SpentKeeps
<1> QED  BY <1>2, <1>3, <1>4, <1>5
         DEF Requested, KeysExhausted, QuotaVerdict, Generate, locals

LEMMA WriteSpent ==
    ASSUME IInv, NEW p \in Pastes, Spent(p), NEW w \in Workers,
           HSet(w) \/ Arm(w) \/ Expire(w)
    PROVE  Spent(p)' /\ served'[p] = served[p]
<1>1. rec[w].body # p
  BY HandsEmpty DEF HSet, Arm, Expire
<1>2. CASE HSet(w)
  <2>1. \A k \in Keys : hash'[k] \in {hash[k], Absent} \/ hash'[k].body # p
    BY <1>2, SetHashSpent DEF HSet
  <2>2. CASE Stored(w)
    BY <1>2, <2>1, <2>2, StoredSpent DEF HSet
  <2>3. CASE Goto(w, "arm") /\ UNCHANGED <<locals, clients>>
    <3>1. Untouched(p) /\ UNCHANGED rec
      BY <2>1, <2>3 DEF Untouched, locals, clients
    <3> QED  BY <1>1, <2>3, <3>1, GotoSpent DEF Goto
  <2> QED  BY <1>2, <2>2, <2>3 DEF HSet
<1>3. CASE Arm(w)
  <2>1. Untouched(p) /\ UNCHANGED rec
    BY <1>3 DEF Arm, Untouched, redis, clients
  <2> QED  BY <1>1, <1>3, <2>1, GotoSpent DEF Arm, Goto
<1>4. CASE Expire(w)
  <2>1. \A k \in Keys : hash'[k] \in {hash[k], Absent}
    BY <1>4, SetExpirySpent DEF Expire, IInv, TypeOK
  <2> QED  BY <1>4, <2>1, StoredSpent DEF Expire
<1> QED  BY <1>2, <1>3, <1>4

LEMMA FaultSpent ==
    ASSUME IInv, NEW p \in Pastes, Spent(p), NEW w \in Workers, Fault(w)
    PROVE  Spent(p)' /\ served'[p] = served[p]
<1>1. CASE Fail(w)
  BY <1>1, RefuseSpent DEF Fail
<1>2. CASE HSetUnacked(w) \/ ExpireUnacked(w)
  <2>1. \A k \in Keys : hash'[k] \in {hash[k], Absent} \/ hash'[k].body # p
    BY <1>2, SetHashSpent, SetExpirySpent DEF HSetUnacked, ExpireUnacked, IInv, TypeOK
  <2> QED  BY <1>2, <2>1
           DEF HSetUnacked, ExpireUnacked, Spent, IsStored, Limited, CounterExhausted,
               locals, clients
<1> QED  BY <1>1, <1>2 DEF Fault

LEMMA StartSpent ==
    ASSUME IInv, Unsent, NEW p \in Pastes, Spent(p), NEW w \in Workers, Start(w)
    PROVE  Spent(p)' /\ served'[p] = served[p]
<1>1. ASSUME NEW o \in Ops, NEW k \in Keys, ReadStart(w, o, k)
      PROVE  Spent(p)' /\ served'[p] = served[p]
  <2>1. Untouched(p) /\ UNCHANGED rec /\ rec[w].body # p
    BY <1>1, HandsEmpty DEF ReadStart, Untouched, redis, clients
  <2> QED  BY <1>1, <2>1, GotoSpent DEF ReadStart, Goto
<1>2. ASSUME NEW q \in Pastes, NEW o \in Ops, NEW k \in Keys \cup {NoKey},
             NEW t \in TTLs, NEW d \in Disposables, PostStart(w, q, o, k, t, d)
      PROVE  Spent(p)' /\ served'[p] = served[p]
  <2>1. q # p
    BY <1>2 DEF PostStart, Unsent, Spent
  <2>2. NewRecord(q, t, d).body = q
    BY DEF NewRecord
  <2>3. rec'[w].body # p /\ \A v \in Workers \ {w} : pc'[v] = pc[v] /\ rec'[v] = rec[v]
    BY <1>2, <2>1, <2>2 DEF PostStart, Goto, IInv, TypeOK
  <2>4. Untouched(p)
    BY <1>2, <2>1 DEF PostStart, Untouched, redis, IInv, TypeOK
  <2> QED  BY <2>3, <2>4, SpentKeeps
<1> QED  BY <1>1, <1>2 DEF Start

LEMMA OtherSpent ==
    ASSUME IInv, NEW p \in Pastes, Spent(p), Tick \/ Crash \/ UNCHANGED vars
    PROVE  Spent(p)' /\ served'[p] = served[p]
<1>1. CASE Tick
  BY <1>1 DEF Tick, Spent, IsStored, Limited, CounterExhausted
<1>2. CASE Crash
  <2>1. \A w \in Workers : rec'[w].body # p
    BY <1>2, NoBodyAssumption DEF Crash, ZeroRecord
  <2> QED  BY <1>2, <2>1 DEF Crash, Spent, IsStored, Limited, CounterExhausted, redis
<1>3. CASE UNCHANGED vars
  BY <1>3 DEF vars, redis, locals, clients, Spent, IsStored, Limited, CounterExhausted
<1> QED  BY <1>1, <1>2, <1>3

\* Once the last readable copy of a disposable paste is gone, no race of readers
\* and writers, no repeated command, failure, crash or new POST brings one back,
\* and nobody gets the body any more.
THEOREM ExhaustedForGood == Spec => ExhaustionIsFinal
<1>1. ASSUME IInv, Unsent, [Next]_vars, NEW p \in Pastes, Spent(p)
      PROVE  Spent(p)' /\ served'[p] = served[p]
  <2>1. CASE Tick \/ Crash \/ UNCHANGED vars
    BY <1>1, <2>1, OtherSpent
  <2>2. ASSUME NEW w \in Workers, Start(w) \/ Proceed(w) \/ Fault(w)
        PROVE  Spent(p)' /\ served'[p] = served[p]
    BY <1>1, <2>2, StartSpent, ReadSpent, PostSpent, WriteSpent, FaultSpent DEF Proceed
  <2> QED  BY <1>1, <2>1, <2>2 DEF Next
<1>2. IInv /\ Unsent /\ [Next]_vars =>
         [\A p \in Pastes : Spent(p) => Spent(p)' /\ served'[p] = served[p]]_vars
  BY <1>1
<1> QED  BY <1>2, Invariant, UnsentInvariant, PTL DEF Spec, ExhaustionIsFinal
=============================================================================
