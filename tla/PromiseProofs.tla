---------------------------- MODULE PromiseProofs ---------------------------
(***************************************************************************)
(* The promise of the ttl parameter: the key that a POST was given is not  *)
(* empty before the lifetime is over, for every value of the constants of  *)
(* Records.                                                                *)
(*                                                                         *)
(* A read takes the stored ttl, dates it from now, writes what is left of  *)
(* it back and arms the expiry with that, in whole seconds; time passes in *)
(* between and commands are repeated or lost.  PromiseInv says that each   *)
(* of these copies covers what is left of the lifetime, and that an EXPIRE *)
(* that removes the record comes only when nothing is left of it.          *)
(*                                                                         *)
(* The other two parts are the opposite direction: a record with a ttl is  *)
(* not left without an expiry, and no expiry is further away than one ttl  *)
(* (WithinInv).                                                            *)
(***************************************************************************)
EXTENDS RecordsProofs

-----------------------------------------------------------------------------
(* Whole seconds *)

\* What FormatSec cuts off is less than a second, and never everything.
LEMMA FormatSecCovers ==
    ASSUME NEW d \in Int, NEW l \in Nat, l > 0, d >= l
    PROVE  FormatSec(d) > 0 /\ FormatSec(d) * Second + Second > l
<1>1. CASE d < Second
  <2>1. FormatSec(d) = 1
    BY <1>1 DEF FormatSec
  <2> QED  BY <1>1, <2>1, SecondAssumption
<1>2. CASE d >= Second
  <2>1. FormatSec(d) = d \div Second
    BY <1>2, SecondAssumption DEF FormatSec
  <2>2. /\ d \div Second \in Int
        /\ d = Second * (d \div Second) + (d % Second)
        /\ 0 <= d % Second /\ d % Second < Second
    BY SecondAssumption
  <2>3. d \div Second > 0
    BY <1>2, SecondAssumption
  <2>4. (d \div Second) * Second = Second * (d \div Second)
    BY <2>2, SecondAssumption
  <2> QED  BY <2>1, <2>2, <2>3, <2>4, SecondAssumption
<1> QED  BY <1>1, <1>2, SecondAssumption

-----------------------------------------------------------------------------
(* What workers have at hand *)

\* Nobody has the body of a POST that was not sent.
LEMMA UnsentNowhere ==
    ASSUME IInv, NEW p \in Pastes, status[p] = "unsent"
    PROVE  /\ home[p] = NoKey
           /\ \A w \in Workers : rec[w].body # p
           /\ \A k \in Keys : hash[k] # Absent => hash[k].body # p
<1>1. home[p] = NoKey
  BY DEF IInv, Postings
<1>2. \A k \in Keys : hash[k] # Absent => hash[k].body # p
  BY <1>1, NoKeyAssumption DEF IInv, StoredGenuine
<1>3. ASSUME NEW w \in Workers, rec[w].body = p
      PROVE  FALSE
  <2>1. rec[w].body # NoBody /\ op[w] \notin Posts
    BY <1>3, NoBodyAssumption DEF IInv, Postings
  <2>2. rec[w] # ZeroRecord(NoBody)
    BY <2>1 DEF ZeroRecord
  <2>3. pc[w] \notin {"idle", "exists", "hgetall", "requested", "generate"}
    BY <2>1, <2>2 DEF IInv, Phases
  <2>4. key[w] \in Keys /\ home[p] = key[w]
    BY <1>3, <2>1, <2>3 DEF IInv, Phases, Postings
  <2> QED  BY <1>1, <2>4, NoKeyAssumption
<1> QED  BY <1>1, <1>2, <1>3

\* A worker that the step leaves alone.
LEMMA HandStays ==
    ASSUME IInv, NEW w \in Workers, HandCovers(w),
           pc'[w] = pc[w], rec'[w] = rec[w], date'[w] = date[w], arm'[w] = arm[w],
           rec[w].body # NoBody =>
               terms'[rec[w].body] = terms[rec[w].body] /\ life'[rec[w].body] = life[rec[w].body]
    PROVE  HandCovers(w)'
<1>1. pc[w] = "expire" => rec[w].body # NoBody
  BY NoBodyAssumption DEF IInv, Phases
<1> QED  BY <1>1 DEF HandCovers, TTLCovers, DateCovers, SecondsCover, Mortal

\* One worker moves on, lifetimes stay.
LEMMA HandMoves ==
    ASSUME IInv, HandsCover, NEW w \in Workers, UNCHANGED <<terms, life>>,
           \A v \in Workers \ {w} : /\ pc'[v] = pc[v] /\ rec'[v] = rec[v]
                                    /\ date'[v] = date[v] /\ arm'[v] = arm[v],
           HandCovers(w)'
    PROVE  HandsCover'
BY HandStays DEF HandsCover

\* The handler returns.
LEMMA DoneCovers ==
    ASSUME IInv, HandsCover, NEW w \in Workers, Done(w), UNCHANGED <<terms, life>>
    PROVE  HandsCover'
<1>1. \A v \in Workers \ {w} : /\ pc'[v] = pc[v] /\ rec'[v] = rec[v]
                               /\ date'[v] = date[v] /\ arm'[v] = arm[v]
  BY DEF Done, IInv, TypeOK
<1>2. pc'[w] = "idle" /\ rec'[w].body = NoBody
  BY DEF Done, IInv, TypeOK, ZeroRecord
<1>3. HandCovers(w)'
  BY <1>2 DEF HandCovers
<1> QED  BY <1>1, <1>3, HandMoves

\* Only the place of a worker changes.
LEMMA GotoCovers ==
    ASSUME IInv, HandsCover, NEW w \in Workers, NEW l, Goto(w, l),
           UNCHANGED <<rec, date, arm, terms, life>>,
           pc[w] # "load", l # "expire", l = "arm" => ~date[w].eternal
    PROVE  HandsCover'
<1>1. \A v \in Workers : pc'[v] = IF v = w THEN l ELSE pc[v]
  BY DEF Goto, IInv, TypeOK
<1>2. HandCovers(w)'
  BY <1>1 DEF HandsCover, HandCovers, TTLCovers, DateCovers, Mortal
<1> QED  BY <1>1, <1>2, HandMoves

\* What SetByKey writes for the ttl covers as its date does.
LEMMA UntilCovers ==
    ASSUME NEW p \in Pastes, NEW d, DateCovers(p, d)
    PROVE  TTLCovers(p, Until(d))
BY DEF DateCovers, TTLCovers, Until

\* A date that is made from a ttl covers as the ttl does.
LEMMA FromTTLCovers ==
    ASSUME NEW p \in Pastes, NEW t \in Int, TTLCovers(p, t)
    PROVE  DateCovers(p, DateFromTTL(t))
<1>1. DateFromTTL(t).left = t /\ (DateFromTTL(t).eternal <=> t = 0)
  BY DEF DateFromTTL
<1> QED  BY <1>1 DEF DateCovers, TTLCovers

\* A record goes on with the ttl it had.
LEMMA TouchCovers ==
    ASSUME IInv, HandsCover, NEW w \in Workers, pc[w] = "body",
           rec' = [rec EXCEPT ![w] = Touch(rec[w])],
           Goto(w, "prepare"), UNCHANGED <<date, arm, terms, life>>
    PROVE  HandsCover'
<1>1. \A v \in Workers : /\ pc'[v] = IF v = w THEN "prepare" ELSE pc[v]
                         /\ v # w => rec'[v] = rec[v]
  BY DEF Goto, IInv, TypeOK
<1>2. rec'[w].body = rec[w].body /\ rec'[w].ttl = rec[w].ttl
  BY DEF IInv, TypeOK, Touch, HashRecords
<1>3. HandCovers(w)'
  BY <1>1, <1>2 DEF HandsCover, HandCovers, TTLCovers, DateCovers, Mortal
<1> QED  BY <1>1, <1>3, HandMoves

\* A record goes to its HSET with the ttl that is left of its date.
LEMMA SaveCovers ==
    ASSUME IInv, HandsCover, NEW w \in Workers, Prepare(w)
    PROVE  HandsCover'
<1>0. /\ pc[w] = "prepare" /\ rec[w].body \in Pastes
      /\ rec' = [rec EXCEPT ![w] = WithTTL(rec[w], Until(date[w]))]
      /\ Goto(w, "hset") /\ UNCHANGED <<date, arm, terms, life>>
  BY DEF Prepare, IInv, Phases, clients
<1>1. \A v \in Workers : /\ pc'[v] = IF v = w THEN "hset" ELSE pc[v]
                         /\ v # w => rec'[v] = rec[v]
  BY <1>0 DEF Goto, IInv, TypeOK
<1>2. rec'[w].body = rec[w].body /\ rec'[w].ttl = Until(date[w])
  BY <1>0 DEF IInv, TypeOK, WithTTL, HashRecords
<1>3. DateCovers(rec[w].body, date[w])
  BY <1>0, NoBodyAssumption DEF HandsCover, HandCovers
<1>4. TTLCovers(rec[w].body, Until(date[w]))
  BY <1>0, <1>3, UntilCovers
<1>5. HandCovers(w)'
  BY <1>0, <1>1, <1>2, <1>3, <1>4 DEF HandCovers, TTLCovers, DateCovers, Mortal
<1> QED  BY <1>0, <1>1, <1>5, HandMoves

LEMMA ReadHands ==
    ASSUME IInv, HandsCover, StoreCovers, NEW w \in Workers,
           Exists(w) \/ HGetAll(w) \/ Load(w) \/ GetBody(w)
    PROVE  HandsCover'
<1>1. CASE Exists(w)
  BY <1>1, DoneCovers, GotoCovers DEF Exists, Refuse, locals, clients
<1>2. CASE HGetAll(w)
  <2>1. key[w] \in Keys /\ \A v \in Workers : /\ pc'[v] = IF v = w THEN "load" ELSE pc[v]
                                              /\ v # w => rec'[v] = rec[v]
    BY <1>2 DEF HGetAll, Goto, IInv, TypeOK, Phases
  <2>2. \/ rec'[w].body = NoBody
        \/ hash[key[w]] # Absent /\ rec'[w] = hash[key[w]]
    BY <1>2 DEF HGetAll, IInv, TypeOK, ZeroRecord
  <2>3. HandCovers(w)'
    BY <1>2, <2>1, <2>2 DEF HGetAll, clients, StoreCovers, HandCovers, TTLCovers, Mortal
  <2> QED  BY <1>2, <2>1, <2>3, HandMoves DEF HGetAll, clients
<1>3. CASE Load(w)
  <2>1. CASE Done(w)
    BY <1>3, <2>1, DoneCovers DEF Load, clients
  <2>2. CASE ~Done(w)
    <3>1. /\ date' = [date EXCEPT ![w] = DateFromTTL(rec[w].ttl)] /\ Goto(w, "body")
          /\ UNCHANGED <<op, key, rec, arm, clients>>
      BY <1>3, <2>2 DEF Load
    <3>2. \A v \in Workers : /\ pc'[v] = IF v = w THEN "body" ELSE pc[v]
                             /\ date'[v] = IF v = w THEN DateFromTTL(rec[w].ttl) ELSE date[v]
      BY <3>1 DEF Goto, IInv, TypeOK
    <3>3. rec[w].body # NoBody => /\ TTLCovers(rec[w].body, rec[w].ttl)
                                  /\ DateCovers(rec[w].body, DateFromTTL(rec[w].ttl))
      BY FromTTLCovers DEF HandsCover, HandCovers, IInv, TypeOK, HashRecords
    <3>4. HandCovers(w)'
      BY <3>1, <3>2, <3>3 DEF HandCovers, TTLCovers, DateCovers, Mortal, clients
    <3> QED  BY <3>1, <3>2, <3>4, HandMoves DEF clients
  <2> QED  BY <2>1, <2>2
<1>4. CASE GetBody(w)
  <2>1. CASE Refuse(w)
    BY <2>1, DoneCovers DEF Refuse
  <2>2. CASE ~Refuse(w)
    BY <1>4, <2>2, TouchCovers DEF GetBody, clients
  <2> QED  BY <2>1, <2>2
<1> QED  BY <1>1, <1>2, <1>3, <1>4

LEMMA PostHands ==
    ASSUME IInv, HandsCover, NEW w \in Workers,
           \/ Requested(w) \/ KeysExhausted(w) \/ Prepare(w) \/ QuotaVerdict(w)
           \/ \E k \in Keys : Generate(w, k)
    PROVE  HandsCover'
<1>1. CASE Prepare(w)
  BY <1>1, SaveCovers
<1>2. CASE Requested(w) \/ \E k \in Keys : Generate(w, k)
  BY <1>2, DoneCovers, GotoCovers DEF Requested, Generate, Refuse, locals
<1>3. CASE KeysExhausted(w) \/ QuotaVerdict(w)
  BY <1>3, DoneCovers DEF KeysExhausted, QuotaVerdict, Refuse, Accept
<1> QED  BY <1>1, <1>2, <1>3

\* What follows SetByKey.
LEMMA StoredHands ==
    ASSUME IInv, HandsCover, NEW w \in Workers, pc[w] \in {"hset", "expire"}, Stored(w)
    PROVE  HandsCover'
BY DoneCovers, GotoCovers DEF Stored, Serve, Accept, Goto, locals, clients

LEMMA WriteHands ==
    ASSUME IInv, HandsCover, NEW w \in Workers, HSet(w) \/ Arm(w) \/ Expire(w)
    PROVE  HandsCover'
<1>1. CASE HSet(w)
  BY <1>1, StoredHands, GotoCovers DEF HSet, locals, clients
<1>2. CASE Arm(w)
  <2> DEFINE p == rec[w].body
  <2>1. /\ pc[w] = "arm" /\ p \in Pastes /\ ~date[w].eternal
        /\ life[p] \in Nat /\ date[w].left \in Int /\ DateCovers(p, date[w])
        /\ TTLCovers(p, rec[w].ttl)
    BY <1>2, NoBodyAssumption
       DEF Arm, IInv, TypeOK, Phases, Dates, HandsCover, HandCovers
  <2>2. \A v \in Workers : /\ pc'[v] = IF v = w THEN "expire" ELSE pc[v]
                           /\ arm'[v] = IF v = w THEN FormatSec(Until(date[w])) ELSE arm[v]
    BY <1>2 DEF Arm, Goto, IInv, TypeOK
  <2>3. Until(date[w]) = date[w].left
    BY <2>1 DEF Until
  <2>4. SecondsCover(p, arm'[w])
    BY <2>1, <2>2, <2>3, FormatSecCovers DEF SecondsCover, DateCovers
  <2>5. UNCHANGED <<rec, date, terms, life>>
    BY <1>2 DEF Arm, clients
  <2>6. HandCovers(w)'
    BY <2>1, <2>2, <2>4, <2>5 DEF HandCovers, TTLCovers, DateCovers, SecondsCover, Mortal
  <2> QED  BY <2>2, <2>5, <2>6, HandMoves
<1>3. CASE Expire(w)
  BY <1>3, StoredHands DEF Expire
<1> QED  BY <1>1, <1>2, <1>3

LEMMA FaultHands ==
    ASSUME IInv, HandsCover, NEW w \in Workers, Fault(w)
    PROVE  HandsCover'
<1>1. CASE Fail(w)
  BY <1>1, DoneCovers DEF Fail, Refuse
<1>2. CASE HSetUnacked(w) \/ ExpireUnacked(w)
  BY <1>2, HandStays DEF HSetUnacked, ExpireUnacked, locals, clients, HandsCover
<1> QED  BY <1>1, <1>2 DEF Fault

LEMMA StartHands ==
    ASSUME IInv, HandsCover, NEW w \in Workers, Start(w)
    PROVE  HandsCover'
<1>1. ASSUME NEW o \in Ops, NEW k \in Keys, ReadStart(w, o, k)
      PROVE  HandsCover'
  BY <1>1, GotoCovers DEF ReadStart, clients
<1>2. ASSUME NEW p \in Pastes, NEW o \in Ops, NEW k \in Keys \cup {NoKey},
             NEW t \in TTLs, NEW d \in Disposables, PostStart(w, p, o, k, t, d)
      PROVE  HandsCover'
  <2>1. \A v \in Workers : rec[v].body # p
    BY <1>2, UnsentNowhere DEF PostStart
  <2>2. /\ rec'[w].body = p /\ rec'[w].ttl = t /\ date'[w] = DateFromTTL(t)
        /\ pc'[w] \in {"requested", "generate"} /\ terms'[p].ttl = t /\ life'[p] = t
    BY <1>2 DEF PostStart, Goto, NewRecord, IInv, TypeOK
  <2>3. DateFromTTL(t).left = t /\ (DateFromTTL(t).eternal <=> t = 0) /\ t \in Nat
    BY TTLsAssumption DEF DateFromTTL
  <2>6. HandCovers(w)'
    BY <2>2, <2>3 DEF HandCovers, TTLCovers, DateCovers, Mortal
  <2>4. \A q \in Pastes \ {p} : terms'[q] = terms[q] /\ life'[q] = life[q]
    BY <1>2 DEF PostStart, IInv, TypeOK
  <2>5. ASSUME NEW v \in Workers \ {w}
        PROVE  HandCovers(v)'
    <3>1. /\ pc'[v] = pc[v] /\ rec'[v] = rec[v] /\ date'[v] = date[v] /\ arm'[v] = arm[v]
      BY <1>2 DEF PostStart, Goto, IInv, TypeOK
    <3>2. rec[v].body # NoBody => rec[v].body \in Pastes \ {p}
      BY <2>1 DEF IInv, TypeOK, HashRecords
    <3> QED  BY <2>4, <3>1, <3>2, HandStays DEF HandsCover
  <2> QED  BY <2>5, <2>6 DEF HandsCover
<1> QED  BY <1>1, <1>2 DEF Start

-----------------------------------------------------------------------------
(* What Redis holds *)

\* A worker that writes a key has a paste that was given it.
LEMMA HandsHome ==
    ASSUME IInv, NEW w \in Workers, pc[w] \in {"hset", "arm", "expire"}
    PROVE  rec[w].body \in Pastes /\ key[w] \in Keys /\ home[rec[w].body] = key[w]
BY NoBodyAssumption DEF IInv, Phases, Postings

LEMMA StoreStays ==
    ASSUME IInv, StoreCovers, UNCHANGED redis, UNCHANGED <<home, terms, life>>
    PROVE  StoreCovers'
BY DEF StoreCovers, redis, TTLCovers, ExpiryCovers, Mortal

LEMMA SetHashCovers ==
    ASSUME IInv, HandsCover, StoreCovers, NEW w \in Workers, pc[w] = "hset",
           SetHash(key[w], rec[w]), UNCHANGED <<home, terms, life>>
    PROVE  StoreCovers'
<1>1. \A k \in Keys : hash'[k] = IF k = key[w] THEN rec[w] ELSE hash[k]
  BY DEF SetHash, IInv, TypeOK
<1>2. TTLCovers(rec[w].body, rec[w].ttl)
  BY NoBodyAssumption DEF HandsCover, HandCovers, IInv, Phases
<1>3. exp' = exp
  BY DEF SetHash
<1>4. \A k \in Keys : hash'[k] # Absent => TTLCovers(hash'[k].body, hash'[k].ttl)
  BY <1>1, <1>2 DEF StoreCovers
<1>5. \A k \in Keys : hash'[k] = Absent => exp'[k] = 0
  BY <1>1, <1>3, AbsentAssumption DEF StoreCovers, IInv, TypeOK
<1> QED  BY <1>3, <1>4, <1>5 DEF StoreCovers, TTLCovers, ExpiryCovers, Mortal

LEMMA SetExpiryCovers ==
    ASSUME IInv, HandsCover, StoreCovers, NEW w \in Workers, pc[w] = "expire",
           SetExpiry(key[w], arm[w]), UNCHANGED <<home, terms, life>>
    PROVE  StoreCovers'
<1>1. key[w] \in Keys /\ rec[w].body \in Pastes /\ arm[w] \in Int
  BY DEF IInv, TypeOK, Phases
<1>2. \A k \in Keys : /\ hash'[k] \in {hash[k], Absent}
                      /\ hash'[k] = Absent /\ hash[k] # Absent => exp'[k] = 0
                      /\ \/ exp'[k] \in {exp[k], 0}
                         \/ k = key[w] /\ exp'[k] = arm[w] * Second /\ hash[k] # Absent
                            /\ arm[w] > 0 /\ hash' = hash
  BY <1>1 DEF SetExpiry, redis, IInv, TypeOK
<1>3. \A k \in Keys : hash'[k] # Absent => TTLCovers(hash'[k].body, hash'[k].ttl)
  BY <1>2 DEF StoreCovers
<1>4. \A k \in Keys : hash'[k] = Absent => exp'[k] = 0
  BY <1>2 DEF StoreCovers
<1>5. ASSUME NEW k \in Keys, exp'[k] # 0
      PROVE  \E p \in Pastes : home[p] = k /\ ExpiryCovers(p, exp'[k])
  <2>1. CASE exp'[k] = exp[k]
    BY <1>5, <2>1 DEF StoreCovers
  <2>2. CASE k = key[w] /\ exp'[k] = arm[w] * Second /\ arm[w] > 0
    <3> DEFINE p == rec[w].body
    <3>1. p \in Pastes /\ home[p] = k
      BY <2>2, HandsHome
    <3>2. DateCovers(p, date[w]) /\ ~date[w].eternal /\ SecondsCover(p, arm[w])
      BY <3>1, NoBodyAssumption DEF HandsCover, HandCovers
    <3>3. life[p] \in Nat /\ arm[w] * Second \in Nat
      BY <2>2, <1>1, SecondsPositive DEF IInv, TypeOK
    <3>4. ExpiryCovers(p, exp'[k])
      BY <2>2, <3>2, <3>3, SecondAssumption DEF DateCovers, SecondsCover, ExpiryCovers
    <3> QED  BY <3>1, <3>4
  <2> QED  BY <1>2, <1>5, <2>1, <2>2
<1> QED  BY <1>3, <1>4, <1>5 DEF StoreCovers, TTLCovers, ExpiryCovers, Mortal

\* A POST that had no key is given one: what covered an expiry still does.
LEMMA HomeCovers ==
    ASSUME IInv, StoreCovers, NEW p \in Pastes, NEW k \in Keys, home[p] = NoKey,
           home' = [home EXCEPT ![p] = k], UNCHANGED redis, UNCHANGED <<terms, life>>
    PROVE  StoreCovers'
<1>1. \A q \in Pastes : home[q] \in Keys => home'[q] = home[q]
  BY NoKeyAssumption DEF IInv, TypeOK
<1> QED  BY <1>1 DEF StoreCovers, redis, TTLCovers, ExpiryCovers, Mortal

LEMMA StartStore ==
    ASSUME IInv, StoreCovers, NEW w \in Workers, Start(w)
    PROVE  StoreCovers'
<1>1. ASSUME NEW o \in Ops, NEW k \in Keys, ReadStart(w, o, k)
      PROVE  StoreCovers'
  BY <1>1, StoreStays DEF ReadStart, clients
<1>2. ASSUME NEW p \in Pastes, NEW o \in Ops, NEW k \in Keys \cup {NoKey},
             NEW t \in TTLs, NEW d \in Disposables, PostStart(w, p, o, k, t, d)
      PROVE  StoreCovers'
  <2>1. home[p] = NoKey /\ \A j \in Keys : hash[j] # Absent => hash[j].body # p
    BY <1>2, UnsentNowhere DEF PostStart
  <2>2. \A q \in Pastes \ {p} : terms'[q] = terms[q] /\ life'[q] = life[q]
    BY <1>2 DEF PostStart, IInv, TypeOK
  <2>3. \A j \in Keys : hash[j] # Absent => hash[j].body \in Pastes \ {p}
    BY <2>1 DEF IInv, StoredGenuine
  <2>4. UNCHANGED <<hash, exp, home>>
    BY <1>2 DEF PostStart, redis
  <2>5. \A q \in Pastes : home[q] \in Keys => q # p
    BY <2>1, NoKeyAssumption
  <2> QED  BY <2>2, <2>3, <2>4, <2>5
           DEF StoreCovers, TTLCovers, ExpiryCovers, Mortal
<1> QED  BY <1>1, <1>2 DEF Start

LEMMA ProceedStore ==
    ASSUME IInv, HandsCover, StoreCovers, NEW w \in Workers, Proceed(w) \/ Fault(w)
    PROVE  StoreCovers'
<1>1. Stored(w) => UNCHANGED <<home, terms, life>>
  BY DEF Stored, Serve, Accept, clients
<1>2. CASE Exists(w) \/ HGetAll(w) \/ Load(w) \/ GetBody(w) \/ Arm(w)
  BY <1>2, StoreStays DEF Exists, HGetAll, Load, GetBody, Arm, Refuse, clients
<1>3. CASE KeysExhausted(w) \/ Prepare(w) \/ QuotaVerdict(w) \/ Fail(w)
  BY <1>3, StoreStays DEF KeysExhausted, Prepare, QuotaVerdict, Fail, Refuse, Accept, clients
<1>4. CASE Requested(w) \/ \E k \in Keys : Generate(w, k)
  <2>1. rec[w].body \in Pastes /\ home[rec[w].body] = NoKey
        /\ (pc[w] = "requested" => key[w] \in Keys)
    BY <1>4 DEF Requested, Generate, IInv, Phases, Postings
  <2> QED  BY <1>4, <2>1, StoreStays, HomeCovers DEF Requested, Generate, Refuse
<1>5. CASE HSet(w) \/ HSetUnacked(w)
  BY <1>1, <1>5, SetHashCovers DEF HSet, HSetUnacked, locals, clients
<1>6. CASE Expire(w) \/ ExpireUnacked(w)
  BY <1>1, <1>6, SetExpiryCovers DEF Expire, ExpireUnacked, clients
<1> QED  BY <1>2, <1>3, <1>4, <1>5, <1>6 DEF Proceed, Fault

-----------------------------------------------------------------------------
(* Time *)

\* What covers a lifetime still does when time has passed.
LEMMA ElapseCovers ==
    ASSUME NEW d \in Int, NEW l \in Nat, NEW f \in {-1, 0}, l > 0 => d >= l
    PROVE  Elapse(l, Step, 0) > 0 => Elapse(d, Step, f) >= Elapse(l, Step, 0)
BY StepAssumption DEF Elapse

LEMMA TickHands ==
    ASSUME IInv, HandsCover, Tick
    PROVE  HandsCover'
<1> SUFFICES ASSUME NEW w \in Workers
             PROVE  HandCovers(w)'
  BY DEF HandsCover
<1> DEFINE p == rec[w].body
<1>1. UNCHANGED <<pc, rec, arm, terms>>
  BY DEF Tick
<1>2. /\ date'[w].eternal <=> date[w].eternal
      /\ ~date[w].eternal => date'[w].left = Elapse(date[w].left, Step, -1)
  BY DEF Tick, IInv, TypeOK, Dates
<1>3. pc[w] = "expire" => p # NoBody
  BY NoBodyAssumption DEF IInv, Phases
<1>4. CASE p = NoBody
  BY <1>1, <1>2, <1>3, <1>4 DEF HandsCover, HandCovers
<1>5. CASE p # NoBody
  <2>1. p \in Pastes /\ rec[w].ttl \in Int /\ arm[w] \in Int /\ date[w].left \in Int
        /\ life[p] \in Nat
    BY <1>5 DEF IInv, TypeOK, HashRecords, Dates
  <2>2. life'[p] = IF Mortal(p) THEN Elapse(life[p], Step, 0) ELSE life[p]
    BY <2>1 DEF Tick
  <2>3. HandCovers(w)
    BY DEF HandsCover
  <2>4. life'[p] <= life[p] /\ life'[p] \in Nat
    BY <2>1, <2>2, StepAssumption DEF Elapse
  <2>5. TTLCovers(p, rec[w].ttl)'
    BY <1>1, <1>5, <2>1, <2>3, <2>4 DEF HandCovers, TTLCovers, Mortal
  <2>6. ASSUME pc[w] # "load"
        PROVE  DateCovers(p, date[w])'
    <3>1. DateCovers(p, date[w])
      BY <1>5, <2>3, <2>6 DEF HandCovers
    <3>2. CASE date[w].eternal
      BY <1>2, <3>2 DEF DateCovers
    <3>3. CASE ~date[w].eternal
      <4>1. Mortal(p) /\ (life[p] > 0 => date[w].left >= life[p])
        BY <3>1, <3>3 DEF DateCovers
      <4>2. life'[p] > 0 => date'[w].left >= life'[p]
        BY <1>2, <2>1, <2>2, <3>3, <4>1, ElapseCovers
      <4> QED  BY <1>1, <4>1, <4>2 DEF DateCovers, Mortal
    <3> QED  BY <3>2, <3>3
  <2>7. ASSUME pc[w] = "expire"
        PROVE  SecondsCover(p, arm[w])'
    <3>1. arm[w] * Second \in Int /\ Second \in Int
      BY <2>1, SecondAssumption
    <3>2. SecondsCover(p, arm[w])
      BY <2>3, <2>7 DEF HandCovers
    <3> QED  BY <1>1, <2>1, <2>4, <3>1, <3>2 DEF SecondsCover
  <2> QED  BY <1>1, <1>2, <2>3, <2>5, <2>6, <2>7 DEF HandCovers
<1> QED  BY <1>4, <1>5

LEMMA TickStore ==
    ASSUME IInv, StoreCovers, Tick
    PROVE  StoreCovers'
<1>1. UNCHANGED <<home, terms>>
  BY DEF Tick
<1>2. \A p \in Pastes : /\ life[p] \in Nat /\ life'[p] \in Nat /\ life'[p] <= life[p]
                        /\ Mortal(p) => life'[p] = Elapse(life[p], Step, 0)
  BY StepAssumption DEF Tick, Elapse, IInv, TypeOK
<1>3. \A k \in Keys : /\ exp[k] \in Nat /\ exp'[k] = Elapse(exp[k], Step, 0)
                      /\ hash'[k] = IF Due(k) THEN Absent ELSE hash[k]
  BY DEF Tick, IInv, TypeOK
<1>4. \A k \in Keys : hash'[k] # Absent =>
         /\ hash'[k] = hash[k] /\ hash[k].body \in Pastes /\ hash[k].ttl \in Int
         /\ TTLCovers(hash[k].body, hash[k].ttl)
  BY <1>3 DEF IInv, TypeOK, StoredGenuine, HashRecords, StoreCovers
<1>5. \A k \in Keys : hash'[k] # Absent => TTLCovers(hash[k].body, hash[k].ttl)'
  <2> SUFFICES ASSUME NEW k \in Keys, hash'[k] # Absent
               PROVE  TTLCovers(hash[k].body, hash[k].ttl)'
    OBVIOUS
  <2> QED  BY <1>1, <1>2, <1>4 DEF TTLCovers, Mortal
<1>6. \A k \in Keys : hash'[k] = Absent => exp'[k] = 0
  BY <1>3, StepAssumption DEF StoreCovers, Due, Elapse
<1>7. ASSUME NEW k \in Keys, exp'[k] # 0
      PROVE  \E p \in Pastes : home'[p] = k /\ ExpiryCovers(p, exp[k])'
  <2>1. exp[k] # 0
    BY <1>3, <1>7, StepAssumption DEF Elapse
  <2>2. PICK p \in Pastes : home[p] = k /\ ExpiryCovers(p, exp[k])
    BY <2>1 DEF StoreCovers
  <2>3. ExpiryCovers(p, exp[k])'
    BY <1>1, <1>2, <1>3, <2>2, StepAssumption, SecondAssumption
    DEF ExpiryCovers, Elapse, Mortal
  <2> QED  BY <1>1, <2>2, <2>3
<1> QED  BY <1>5, <1>6, <1>7 DEF StoreCovers

\* KeptUntilPromised speaks of a key like this.
Lasting(k) == Running(k) /\ ~ReadOut(k)

LEMMA TickWritten ==
    ASSUME IInv, StoreCovers, WrittenStays, Tick
    PROVE  WrittenStays'
<1>1. UNCHANGED <<pc, op, rec, status, home, terms>>
  BY DEF Tick
<1> SUFFICES ASSUME NEW p \in Pastes, Written(p)'
             PROVE  home[p] \in Keys /\ (Lasting(home[p])' => hash'[home[p]] # Absent)
  BY <1>1 DEF WrittenStays, Lasting
<1> DEFINE k == home[p]
<1>2. Written(p)
  BY <1>1 DEF Written
<1>3. k \in Keys
  BY <1>2 DEF WrittenStays
<1>4. ASSUME Lasting(k)'
      PROVE  hash'[k] # Absent
  <2>1. ASSUME NEW q \in Pastes, home[q] = k, Mortal(q)
        PROVE  life[q] \in Nat /\ life[q] >= Second /\ life[q] - Step >= Second
    <3>1. life[q] \in Nat /\ life'[q] = Elapse(life[q], Step, 0)
      BY <2>1 DEF Tick, IInv, TypeOK
    <3>2. life'[q] >= Second
      BY <1>1, <1>4, <2>1 DEF Lasting, Running, Mortal
    <3> QED  BY <3>1, <3>2, StepAssumption, SecondAssumption DEF Elapse
  <2>2. ~ReadOut(k)
    BY <1>1, <1>4 DEF Lasting, ReadOut, Limited, Tick
  <2>3. hash[k] # Absent
    BY <1>2, <2>1, <2>2 DEF WrittenStays, Running
  <2>4. ~Due(k)
    <3> SUFFICES ASSUME exp[k] # 0, exp[k] <= Step PROVE FALSE
      BY DEF Due
    <3>1. PICK q \in Pastes : home[q] = k /\ ExpiryCovers(q, exp[k])
      BY <1>3 DEF StoreCovers
    <3>2. exp[k] \in Nat
      BY <1>3 DEF IInv, TypeOK
    <3> QED  BY <2>1, <3>1, <3>2, StepAssumption, SecondAssumption DEF ExpiryCovers
  <2> QED  BY <1>3, <2>3, <2>4 DEF Tick
<1> QED  BY <1>3, <1>4

-----------------------------------------------------------------------------
(* What was written *)

\* The record of a key that lasts is not taken away.
Untaken ==
    \A k \in Keys : Lasting(k) /\ hash[k] # Absent => hash'[k] # Absent

LEMMA DisposablesNat ==
    ASSUME IInv, NEW p \in Pastes
    PROVE  terms[p].disposable \in Nat
<1>1. terms[p].disposable \in Disposables \cup {0}
  BY DEF IInv, TypeOK
<1>2. \A d \in Disposables \cup {0} : d \in Nat
  BY DisposablesAssumption
<1> QED  BY <1>1, <1>2

\* A key that lasts after a step did so before it, when no lifetime grows and no
\* answer is taken back.
LEMMA LastingBefore ==
    ASSUME IInv, UNCHANGED <<home, terms, life>>,
           \A p \in Pastes : served'[p] \in {served[p], served[p] + 1},
           NEW k
    PROVE  Lasting(k)' => Lasting(k)
<1>1. \A p \in Pastes : served[p] \in Nat /\ terms[p].disposable \in Nat
  BY DisposablesNat DEF IInv, TypeOK
<1> SUFFICES ASSUME Lasting(k)', ReadOut(k) PROVE FALSE
  BY DEF Lasting, Running, Mortal
<1>2. PICK p \in Pastes : home[p] = k /\ Limited(p) /\ served[p] >= terms[p].disposable
  BY DEF ReadOut
<1> QED  BY <1>1, <1>2 DEF Lasting, ReadOut, Limited

\* A step that keeps the records that last and only writes what is already written.
LEMMA WrittenKept ==
    ASSUME IInv, WrittenStays, Untaken, UNCHANGED <<home, terms, life>>,
           \A p \in Pastes : served'[p] \in {served[p], served[p] + 1},
           \A p \in Pastes : Written(p)' => Written(p)
    PROVE  WrittenStays'
BY LastingBefore DEF WrittenStays, Untaken, Lasting

LEMMA RedisUntaken == UNCHANGED redis => Untaken
BY DEF redis, Untaken

LEMMA ServedGrows ==
    ASSUME IInv
    PROVE  /\ UNCHANGED served => \A p \in Pastes : served'[p] \in {served[p], served[p] + 1}
           /\ \A w \in Workers : Serve(w) =>
                 \A p \in Pastes : served'[p] \in {served[p], served[p] + 1}
BY DEF IInv, TypeOK, Serve

LEMMA SetHashUntaken ==
    ASSUME IInv, NEW w \in Workers, pc[w] = "hset", SetHash(key[w], rec[w])
    PROVE  Untaken
<1>1. \A k \in Keys : hash'[k] = IF k = key[w] THEN rec[w] ELSE hash[k]
  BY DEF SetHash, IInv, TypeOK
<1>2. rec[w] # Absent
  BY AbsentAssumption DEF IInv, TypeOK
<1> QED  BY <1>1, <1>2 DEF Untaken

\* An EXPIRE that removes the record comes when nothing is left of a lifetime.
LEMMA SetExpiryUntaken ==
    ASSUME IInv, HandsCover, NEW w \in Workers, pc[w] = "expire", SetExpiry(key[w], arm[w])
    PROVE  Untaken
<1> SUFFICES ASSUME NEW k \in Keys, Running(k)
             PROVE  hash'[k] = hash[k]
  BY DEF Untaken, Lasting
<1>1. CASE k # key[w] \/ hash' = hash
  BY <1>1 DEF SetExpiry, redis, IInv, TypeOK
<1>2. CASE k = key[w] /\ arm[w] <= 0
  <2> DEFINE p == rec[w].body
  <2>1. p \in Pastes /\ home[p] = k
    BY <1>2, HandsHome
  <2>2. DateCovers(p, date[w]) /\ ~date[w].eternal /\ SecondsCover(p, arm[w])
    BY <2>1, NoBodyAssumption DEF HandsCover, HandCovers
  <2>3. life[p] \in Nat /\ arm[w] \in Int
    BY <2>1 DEF IInv, TypeOK
  <2> QED  BY <1>2, <2>1, <2>2, <2>3, SecondAssumption DEF DateCovers, SecondsCover, Running
<1> QED  BY <1>1, <1>2 DEF SetExpiry, redis

\* The handler returns and tells the poster that the record is there only if it
\* was written.
LEMMA DoneWritten ==
    ASSUME IInv, WrittenStays, Untaken, NEW w \in Workers, Done(w),
           UNCHANGED <<home, terms, life>>,
           \A p \in Pastes : served'[p] \in {served[p], served[p] + 1},
           \A p \in Pastes : status'[p] = "accepted" => Written(p)
    PROVE  WrittenStays'
<1>1. \A v \in Workers \ {w} : pc'[v] = pc[v] /\ op'[v] = op[v] /\ rec'[v] = rec[v]
  BY DEF Done, IInv, TypeOK
<1>2. op'[w] \notin Posts
  BY DEF Done, IInv, TypeOK, Posts
<1> QED  BY <1>1, <1>2, WrittenKept DEF Written

\* A step that brings its worker to no place behind the HSET of a POST.
LEMMA MoveWritten ==
    ASSUME IInv, WrittenStays, Untaken, NEW w \in Workers,
           UNCHANGED <<status, home, terms, life, served>>,
           \A v \in Workers \ {w} : pc'[v] = pc[v] /\ op'[v] = op[v] /\ rec'[v] = rec[v],
           pc'[w] \notin {"arm", "expire", "quota"} \/ op'[w] \notin Posts
    PROVE  WrittenStays'
BY WrittenKept, ServedGrows DEF Written

LEMMA RefuseWritten ==
    ASSUME IInv, WrittenStays, NEW w \in Workers, Refuse(w), UNCHANGED redis
    PROVE  WrittenStays'
<1>1. \A p \in Pastes : status'[p] = "accepted" => Written(p)
  BY DEF Refuse, Written, IInv, TypeOK
<1>2. Untaken /\ Done(w) /\ UNCHANGED <<home, terms, life, served>>
  BY RedisUntaken DEF Refuse
<1> QED  BY <1>1, <1>2, ServedGrows, DoneWritten

LEMMA ReadWritten ==
    ASSUME IInv, WrittenStays, NEW w \in Workers,
           Exists(w) \/ HGetAll(w) \/ Load(w) \/ GetBody(w)
    PROVE  WrittenStays'
<1>1. Untaken
  BY RedisUntaken DEF Exists, HGetAll, Load, GetBody, Refuse, clients
<1>2. CASE Refuse(w) /\ UNCHANGED redis
  BY <1>2, RefuseWritten
<1>3. CASE Load(w) /\ Done(w)
  BY <1>1, <1>3, ServedGrows, DoneWritten DEF Load, clients, Written
<1>4. CASE \E l \in {"hgetall", "load", "body", "prepare"} :
              Goto(w, l) /\ UNCHANGED op /\ UNCHANGED clients
              /\ \A v \in Workers \ {w} : rec'[v] = rec[v]
  <2>1. pc'[w] \notin {"arm", "expire", "quota"} /\ \A v \in Workers \ {w} : pc'[v] = pc[v]
    BY <1>4 DEF Goto, IInv, TypeOK
  <2> QED  BY <1>1, <1>4, <2>1, MoveWritten DEF clients
<1>5. \A r : rec' = [rec EXCEPT ![w] = r] => \A v \in Workers \ {w} : rec'[v] = rec[v]
  BY DEF IInv, TypeOK
<1>6. CASE Exists(w) \/ HGetAll(w)
  BY <1>2, <1>4, <1>5, <1>6 DEF Exists, HGetAll, locals
<1>7. CASE Load(w)
  BY <1>3, <1>4, <1>7 DEF Load
<1>8. CASE GetBody(w)
  BY <1>2, <1>4, <1>5, <1>8 DEF GetBody
<1> QED  BY <1>6, <1>7, <1>8

LEMMA PostWritten ==
    ASSUME IInv, WrittenStays, NEW w \in Workers,
           \/ Requested(w) \/ KeysExhausted(w) \/ Prepare(w) \/ QuotaVerdict(w)
           \/ \E k \in Keys : Generate(w, k)
    PROVE  WrittenStays'
<1>1. CASE Refuse(w) /\ UNCHANGED redis
  BY <1>1, RefuseWritten
<1>2. CASE QuotaVerdict(w) /\ Accept(w)
  <2>1. op[w] \in Posts /\ Written(rec[w].body)
    BY <1>2 DEF QuotaVerdict, IInv, Phases, Written
  <2>2. \A p \in Pastes : status'[p] = "accepted" => Written(p)
    BY <1>2, <2>1 DEF Accept, Written, IInv, TypeOK
  <2> QED  BY <1>2, <2>2, RedisUntaken, ServedGrows, DoneWritten DEF QuotaVerdict, Accept
<1>3. CASE Prepare(w)
  <2>1. /\ pc'[w] = "hset"
        /\ \A v \in Workers \ {w} : pc'[v] = pc[v] /\ op'[v] = op[v] /\ rec'[v] = rec[v]
    BY <1>3 DEF Prepare, Goto, IInv, TypeOK
  <2> QED  BY <1>3, <2>1, RedisUntaken, MoveWritten DEF Prepare, clients
<1>4. CASE \E k \in Keys : /\ home' = [home EXCEPT ![rec[w].body] = k]
                           /\ pc[w] \in {"requested", "generate"}
                           /\ Goto(w, "prepare")
                           /\ UNCHANGED <<redis, op, rec, status, terms, life, served>>
  <2>1. PICK k \in Keys : home' = [home EXCEPT ![rec[w].body] = k]
    BY <1>4
  <2>2. home[rec[w].body] = NoKey
    BY <1>4 DEF IInv, Postings
  <2>3. \A p \in Pastes : Written(p)' => Written(p)
    BY <1>4 DEF Goto, Written, IInv, TypeOK
  <2>4. ASSUME NEW p \in Pastes, Written(p)
        PROVE  /\ home'[p] = home[p] /\ home[p] \in Keys
               /\ Lasting(home[p])' => Lasting(home[p])
    <3>1. home[p] \in Keys
      BY <2>4 DEF WrittenStays
    <3>2. \A q \in Pastes : home[q] # NoKey => home'[q] = home[q]
      BY <2>1, <2>2 DEF IInv, TypeOK
    <3>3. home'[p] = home[p]
      BY <3>1, <3>2, NoKeyAssumption
    <3>4. Lasting(home[p])' => Lasting(home[p])
      BY <1>4, <3>1, <3>2, <3>3, NoKeyAssumption
      DEF Lasting, Running, ReadOut, Mortal, Limited
    <3> QED  BY <3>1, <3>3, <3>4
  <2> QED  BY <1>4, <2>3, <2>4 DEF WrittenStays, Lasting, redis
<1>5. CASE Requested(w) /\ ~Refuse(w)
  BY <1>4, <1>5 DEF Requested, locals, IInv, Phases
<1>6. CASE \E k \in Keys : Generate(w, k)
  BY <1>4, <1>6 DEF Generate
<1> QED  BY <1>1, <1>2, <1>3, <1>5, <1>6 DEF Requested, KeysExhausted, QuotaVerdict

\* What follows SetByKey, once the record of this request is written.
LEMMA StoredWritten ==
    ASSUME IInv, WrittenStays, Untaken, NEW w \in Workers, Stored(w),
           pc[w] \in {"hset", "expire"},
           op[w] \in Posts => Written(rec[w].body) \/ hash'[key[w]] # Absent
    PROVE  WrittenStays'
<1> DEFINE p == rec[w].body
<1>1. UNCHANGED <<home, terms, life>>
  BY DEF Stored, Serve, Accept, clients
<1>2. \A q \in Pastes : Written(q)' => Written(q) \/ (q = p /\ op[w] \in Posts)
  <2>1. CASE Serve(w)
    BY <2>1 DEF Serve, Done, Written, IInv, TypeOK, Posts
  <2>2. CASE op[w] \in Posts /\ Accept(w)
    BY <2>2 DEF Accept, Done, Written, IInv, TypeOK, Posts
  <2>3. CASE op[w] \in Posts /\ pc' = [pc EXCEPT ![w] = "quota"] /\ UNCHANGED <<locals, clients>>
    BY <2>3 DEF locals, clients, Written, IInv, TypeOK
  <2> QED  BY <2>1, <2>2, <2>3 DEF Stored, Posts
<1>3. op[w] \in Posts => p \in Pastes /\ key[w] \in Keys /\ home[p] = key[w]
  BY NoBodyAssumption DEF IInv, Phases, Postings
<1>4. \A q \in Pastes : Lasting(home[q])' => Lasting(home[q])
  <2>1. \A q \in Pastes : served'[q] \in {served[q], served[q] + 1}
    BY ServedGrows DEF Stored, Accept, clients
  <2>2. \A k : Lasting(k)' => Lasting(k)
    BY <1>1, <2>1, LastingBefore
  <2> QED  BY <1>1, <2>2 DEF Lasting, Running, ReadOut, Mortal, Limited
<1>5. ASSUME NEW q \in Pastes, Written(q)
      PROVE  home'[q] \in Keys /\ (Lasting(home[q])' => hash'[home'[q]] # Absent)
  BY <1>1, <1>4, <1>5 DEF WrittenStays, Untaken, Lasting
<1>6. ASSUME NEW q \in Pastes, q = p, op[w] \in Posts, ~Written(q)
      PROVE  home'[q] \in Keys /\ hash'[home'[q]] # Absent
  BY <1>1, <1>3, <1>6
<1> QED  BY <1>1, <1>2, <1>5, <1>6 DEF WrittenStays, Lasting

LEMMA WriteWritten ==
    ASSUME IInv, HandsCover, WrittenStays, NEW w \in Workers,
           HSet(w) \/ Arm(w) \/ Expire(w)
    PROVE  WrittenStays'
<1>1. CASE HSet(w)
  <2>1. UNCHANGED <<home, terms, life>>
    BY <1>1 DEF HSet, Stored, Serve, Accept, clients
  <2>2. Untaken
    BY <1>1, SetHashUntaken DEF HSet
  <2>3. key[w] \in Keys /\ rec[w].body \in Pastes /\ home[rec[w].body] = key[w]
    BY <1>1, NoBodyAssumption DEF HSet, IInv, Phases, Postings
  <2>4. hash'[key[w]] = rec[w] /\ rec[w] # Absent
    BY <1>1, <2>3, AbsentAssumption DEF HSet, SetHash, IInv, TypeOK
  <2>5. CASE Stored(w)
    BY <1>1, <2>2, <2>4, <2>5, StoredWritten DEF HSet
  <2>6. CASE Goto(w, "arm") /\ UNCHANGED <<locals, clients>>
    <3>1. \A q \in Pastes : Written(q)' => Written(q) \/ q = rec[w].body
      BY <2>6 DEF Goto, locals, clients, Written, IInv, TypeOK
    <3>2. \A q \in Pastes : Lasting(home[q])' => Lasting(home[q])
      BY <2>1, <2>6 DEF Lasting, Running, ReadOut, Mortal, Limited, clients
    <3> QED  BY <2>1, <2>2, <2>3, <2>4, <3>1, <3>2 DEF WrittenStays, Untaken, Lasting
  <2> QED  BY <1>1, <2>5, <2>6 DEF HSet
<1>2. CASE Arm(w)
  <2>1. \A q \in Pastes : Written(q)' => Written(q)
    BY <1>2 DEF Arm, Goto, clients, Written, IInv, TypeOK
  <2> QED  BY <1>2, <2>1, RedisUntaken, ServedGrows, WrittenKept DEF Arm, clients
<1>3. CASE Expire(w)
  <2>2. Untaken
    BY <1>3, SetExpiryUntaken DEF Expire
  <2>3. op[w] \in Posts => Written(rec[w].body)
    BY <1>3 DEF Expire, Written
  <2> QED  BY <1>3, <2>2, <2>3, StoredWritten DEF Expire
<1> QED  BY <1>1, <1>2, <1>3

LEMMA FaultWritten ==
    ASSUME IInv, HandsCover, WrittenStays, NEW w \in Workers, Fault(w)
    PROVE  WrittenStays'
<1>1. CASE Fail(w)
  BY <1>1, RefuseWritten DEF Fail
<1>2. CASE HSetUnacked(w) \/ ExpireUnacked(w)
  <2>1. Untaken
    BY <1>2, SetHashUntaken, SetExpiryUntaken DEF HSetUnacked, ExpireUnacked, clients
  <2>2. \A q \in Pastes : Written(q)' => Written(q)
    BY <1>2 DEF HSetUnacked, ExpireUnacked, locals, clients, Written
  <2> QED  BY <1>2, <2>1, <2>2, ServedGrows, WrittenKept
           DEF HSetUnacked, ExpireUnacked, clients
<1> QED  BY <1>1, <1>2 DEF Fault

LEMMA StartWritten ==
    ASSUME IInv, WrittenStays, NEW w \in Workers, Start(w)
    PROVE  WrittenStays'
<1>1. ASSUME NEW o \in Ops, NEW k \in Keys, ReadStart(w, o, k)
      PROVE  WrittenStays'
  <2>1. /\ pc'[w] = "exists"
        /\ \A v \in Workers \ {w} : pc'[v] = pc[v] /\ op'[v] = op[v] /\ rec'[v] = rec[v]
    BY <1>1 DEF ReadStart, Goto, IInv, TypeOK
  <2> QED  BY <1>1, <2>1, RedisUntaken, MoveWritten DEF ReadStart, clients
<1>2. ASSUME NEW p \in Pastes, NEW o \in Ops, NEW k \in Keys \cup {NoKey},
             NEW t \in TTLs, NEW d \in Disposables, PostStart(w, p, o, k, t, d)
      PROVE  WrittenStays'
  <2>1. /\ pc'[w] \in {"requested", "generate"}
        /\ \A v \in Workers \ {w} : pc'[v] = pc[v] /\ op'[v] = op[v] /\ rec'[v] = rec[v]
    BY <1>2 DEF PostStart, Goto, IInv, TypeOK
  <2>2. /\ status[p] = "unsent" /\ status'[p] = "sent"
        /\ \A q \in Pastes \ {p} : /\ status'[q] = status[q]
                                   /\ terms'[q] = terms[q] /\ life'[q] = life[q]
    BY <1>2 DEF PostStart, IInv, TypeOK
  <2>3. ~Written(p)'
    BY <2>1, <2>2, UnsentNowhere DEF Written
  <2>4. \A q \in Pastes \ {p} : Written(q)' => Written(q)
    BY <2>1, <2>2 DEF Written
  <2>5. UNCHANGED <<hash, home, served>>
    BY <1>2 DEF PostStart, redis
  <2>6. home[p] = NoKey
    BY <2>2, UnsentNowhere
  <2>7. \A h \in Keys : Lasting(h)' => Lasting(h)
    BY <2>2, <2>5, <2>6, NoKeyAssumption DEF Lasting, Running, ReadOut, Mortal, Limited
  <2> QED  BY <2>3, <2>4, <2>5, <2>7 DEF WrittenStays, Lasting
<1> QED  BY <1>1, <1>2 DEF Start

-----------------------------------------------------------------------------
(* The theorem *)

LEMMA CrashPromise ==
    ASSUME IInv, PromiseInv, Crash
    PROVE  PromiseInv'
<1>1. \A w \in Workers : pc'[w] = "idle" /\ op'[w] = "get" /\ rec'[w].body = NoBody
  BY DEF Crash, ZeroRecord
<1>2. HandsCover'
  BY <1>1 DEF HandsCover, HandCovers
<1>3. StoreCovers'
  BY StoreStays DEF Crash, PromiseInv
<1>4. \A p \in Pastes : Written(p)' => Written(p)
  BY <1>1 DEF Crash, Written, Posts
<1>5. WrittenStays'
  BY <1>4, RedisUntaken, ServedGrows, WrittenKept DEF Crash, PromiseInv
<1> QED  BY <1>2, <1>3, <1>5 DEF PromiseInv

LEMMA PromiseInit == Init => PromiseInv
BY NoKeyAssumption DEF Init, PromiseInv, HandsCover, HandCovers, StoreCovers, WrittenStays,
   Written, ZeroRecord

LEMMA PromiseNext == IInv /\ PromiseInv /\ [Next]_vars => PromiseInv'
<1> SUFFICES ASSUME IInv, PromiseInv, [Next]_vars PROVE PromiseInv'
  OBVIOUS
<1> USE DEF PromiseInv
<1>1. CASE Tick
  BY <1>1, TickHands, TickStore, TickWritten
<1>2. CASE Crash
  BY <1>2, CrashPromise
<1>3. ASSUME NEW w \in Workers, Start(w)
      PROVE  PromiseInv'
  BY <1>3, StartHands, StartStore, StartWritten
<1>4. ASSUME NEW w \in Workers, Proceed(w)
      PROVE  PromiseInv'
  <2>1. HandsCover'
    BY <1>4, ReadHands, PostHands, WriteHands DEF Proceed
  <2>2. StoreCovers'
    BY <1>4, ProceedStore
  <2>3. WrittenStays'
    BY <1>4, ReadWritten, PostWritten, WriteWritten DEF Proceed
  <2> QED  BY <2>1, <2>2, <2>3
<1>5. ASSUME NEW w \in Workers, Fault(w)
      PROVE  PromiseInv'
  BY <1>5, FaultHands, ProceedStore, FaultWritten
<1>6. CASE UNCHANGED vars
  <2>1. HandsCover'
    BY <1>6 DEF vars, locals, clients, HandsCover, HandCovers, TTLCovers, DateCovers,
                SecondsCover, Mortal
  <2>2. StoreCovers'
    BY <1>6, StoreStays DEF vars, clients
  <2>3. \A p \in Pastes : Written(p)' => Written(p)
    BY <1>6 DEF vars, locals, clients, Written
  <2>4. WrittenStays'
    BY <1>6, <2>3, RedisUntaken, ServedGrows, WrittenKept DEF vars, clients
  <2> QED  BY <2>1, <2>2, <2>4
<1> QED  BY <1>1, <1>2, <1>3, <1>4, <1>5, <1>6 DEF Next

\* What a request has at hand, and what Redis holds, of a paste always covers what is
\* left of its lifetime: the ttl, the date made of it, the seconds of an EXPIRE.
THEOREM PromiseInvariant == Spec => []PromiseInv
<1> QED  BY PromiseInit, PromiseNext, Invariant, PTL DEF Spec

\* A POST that was answered with 201 finds its key taken until less than a second of
\* its lifetime is left, and for good when its ttl is 0, unless the key is read out:
\* whatever requests read it and rewrite its expiry meanwhile, however their commands
\* interleave, and whichever of them are repeated, fail or die half-way.  When two
\* POSTs were given the key, one of their records is there until the shorter lifetime
\* is over.
THEOREM PromiseOfTTLKept == Spec => []KeptUntilPromised
<1>1. IInv /\ PromiseInv => KeptUntilPromised
  <2> SUFFICES ASSUME IInv, PromiseInv, NEW p \in Pastes, status[p] = "accepted",
                      Running(home[p]), ~ReadOut(home[p])
               PROVE  \E q \in Pastes : home[q] = home[p] /\ IsStored(q, home[p])
    BY DEF KeptUntilPromised
  <2>1. home[p] \in Keys /\ hash[home[p]] # Absent
    BY DEF PromiseInv, WrittenStays, Written
  <2> QED  BY <2>1 DEF IInv, StoredGenuine, IsStored
<1> QED  BY <1>1, Invariant, PromiseInvariant, PTL

-----------------------------------------------------------------------------
(* And then it goes: records with a ttl are armed *)

\* Nothing is saved at the very instant at which its date is over: the ttl 0 that
\* is stored then stands for an eternal record.
SavedInTime ==
    \A w \in Workers : pc[w] = "prepare" => date[w].eternal \/ date[w].left # 0

\* A paste with a ttl keeps one in every copy.
MortalHand(w) ==
    rec[w].body # NoBody /\ Mortal(rec[w].body) =>
        rec[w].ttl # 0 /\ (pc[w] # "load" => ~date[w].eternal)

MortalHands == \A w \in Workers : MortalHand(w)

MortalStore ==
    \A k \in Keys : hash[k] # Absent /\ Mortal(hash[k].body) => hash[k].ttl # 0

Arming(w, k) == key[w] = k /\ ~date[w].eternal /\ pc[w] \in {"hset", "arm", "expire"}

\* One worker moves on; the terms stay.
LEMMA MortalMoves ==
    ASSUME MortalHands, NEW w \in Workers, UNCHANGED terms,
           \A v \in Workers \ {w} : pc'[v] = pc[v] /\ rec'[v] = rec[v] /\ date'[v] = date[v],
           MortalHand(w)'
    PROVE  MortalHands'
BY DEF MortalHands, MortalHand, Mortal

LEMMA MortalStays ==
    ASSUME MortalStore, UNCHANGED redis, UNCHANGED terms
    PROVE  MortalStore'
BY DEF MortalStore, Mortal, redis

LEMMA MortalDone ==
    ASSUME IInv, MortalHands, NEW w \in Workers, Done(w), UNCHANGED terms
    PROVE  MortalHands'
<1>1. rec'[w].body = NoBody
  BY DEF Done, IInv, TypeOK, ZeroRecord
<1>2. \A v \in Workers \ {w} : pc'[v] = pc[v] /\ rec'[v] = rec[v] /\ date'[v] = date[v]
  BY DEF Done, IInv, TypeOK
<1> QED  BY <1>1, <1>2, MortalMoves DEF MortalHand

LEMMA MortalGoto ==
    ASSUME IInv, MortalHands, NEW w \in Workers, NEW l, Goto(w, l), pc[w] # "load",
           UNCHANGED <<rec, date, terms>>
    PROVE  MortalHands'
<1>1. MortalHand(w)'
  BY DEF Goto, MortalHands, MortalHand, Mortal, IInv, TypeOK
<1>2. \A v \in Workers \ {w} : pc'[v] = pc[v]
  BY DEF Goto, IInv, TypeOK
<1> QED  BY <1>1, <1>2, MortalMoves

\* SetByKey stores what is left of the date, which is not exactly nothing.
LEMMA MortalSave ==
    ASSUME IInv, MortalHands, SavedInTime, NEW w \in Workers, Prepare(w)
    PROVE  MortalHands'
<1>0. rec[w].body \in Pastes /\ pc[w] = "prepare" /\ UNCHANGED <<date, terms>>
  BY DEF Prepare, clients, IInv, Phases
<1>1. \A v \in Workers : /\ pc'[v] = IF v = w THEN "hset" ELSE pc[v]
                         /\ v # w => rec'[v] = rec[v]
  BY DEF Prepare, Goto, IInv, TypeOK
<1>2. rec'[w].body = rec[w].body /\ rec'[w].ttl = Until(date[w])
  BY DEF Prepare, IInv, TypeOK, WithTTL, HashRecords
<1>3. Mortal(rec[w].body) => ~date[w].eternal /\ Until(date[w]) # 0
  BY <1>0, NoBodyAssumption DEF MortalHands, MortalHand, SavedInTime, Until
<1>4. MortalHand(w)'
  BY <1>0, <1>1, <1>2, <1>3 DEF MortalHand, Mortal
<1> QED  BY <1>0, <1>1, <1>4, MortalMoves

LEMMA MortalRead ==
    ASSUME IInv, MortalHands, MortalStore, NEW w \in Workers,
           Exists(w) \/ HGetAll(w) \/ Load(w) \/ GetBody(w)
    PROVE  MortalHands'
<1>1. CASE Exists(w)
  BY <1>1, MortalDone, MortalGoto DEF Exists, Refuse, locals, clients
<1>2. CASE HGetAll(w)
  <2>1. key[w] \in Keys /\ \A v \in Workers : /\ pc'[v] = IF v = w THEN "load" ELSE pc[v]
                                              /\ v # w => rec'[v] = rec[v]
    BY <1>2 DEF HGetAll, Goto, IInv, TypeOK, Phases
  <2>2. \/ rec'[w].body = NoBody
        \/ hash[key[w]] # Absent /\ rec'[w] = hash[key[w]]
    BY <1>2 DEF HGetAll, IInv, TypeOK, ZeroRecord
  <2>3. MortalHand(w)'
    BY <1>2, <2>1, <2>2 DEF HGetAll, clients, MortalStore, MortalHand, Mortal
  <2> QED  BY <1>2, <2>1, <2>3, MortalMoves DEF HGetAll, clients
<1>3. CASE Load(w)
  <2>1. CASE Done(w)
    BY <1>3, <2>1, MortalDone DEF Load, clients
  <2>2. CASE ~Done(w)
    <3>1. /\ date' = [date EXCEPT ![w] = DateFromTTL(rec[w].ttl)] /\ Goto(w, "body")
          /\ UNCHANGED <<rec, terms>>
      BY <1>3, <2>2 DEF Load, clients
    <3>2. \A v \in Workers : /\ v # w => pc'[v] = pc[v]
                             /\ date'[v] = IF v = w THEN DateFromTTL(rec[w].ttl) ELSE date[v]
      BY <3>1 DEF Goto, IInv, TypeOK
    <3>3. DateFromTTL(rec[w].ttl).eternal <=> rec[w].ttl = 0
      BY DEF DateFromTTL
    <3>4. MortalHand(w)'
      BY <3>1, <3>2, <3>3 DEF MortalHands, MortalHand, Mortal
    <3> QED  BY <3>1, <3>2, <3>4, MortalMoves
  <2> QED  BY <2>1, <2>2
<1>4. CASE GetBody(w)
  <2>1. CASE Refuse(w)
    BY <2>1, MortalDone DEF Refuse
  <2>2. CASE ~Refuse(w)
    <3>1. /\ pc[w] = "body" /\ UNCHANGED <<date, terms>>
          /\ rec' = [rec EXCEPT ![w] = Touch(rec[w])]
      BY <1>4, <2>2 DEF GetBody, clients
    <3>2. \A v \in Workers : /\ pc'[v] = IF v = w THEN "prepare" ELSE pc[v]
                             /\ v # w => rec'[v] = rec[v]
      BY <1>4, <2>2, <3>1 DEF GetBody, Goto, IInv, TypeOK
    <3>3. rec'[w].body = rec[w].body /\ rec'[w].ttl = rec[w].ttl
      BY <3>1 DEF Touch, IInv, TypeOK
    <3>4. MortalHand(w)'
      BY <3>1, <3>2, <3>3 DEF MortalHands, MortalHand, Mortal
    <3> QED  BY <3>1, <3>2, <3>4, MortalMoves
  <2> QED  BY <2>1, <2>2
<1> QED  BY <1>1, <1>2, <1>3, <1>4

LEMMA MortalPost ==
    ASSUME IInv, MortalHands, SavedInTime, NEW w \in Workers,
           \/ Requested(w) \/ KeysExhausted(w) \/ Prepare(w) \/ QuotaVerdict(w)
           \/ \E k \in Keys : Generate(w, k)
    PROVE  MortalHands'
<1>1. CASE Prepare(w)
  BY <1>1, MortalSave
<1>2. CASE Requested(w) \/ \E k \in Keys : Generate(w, k)
  BY <1>2, MortalDone, MortalGoto DEF Requested, Generate, Refuse, locals
<1>3. CASE KeysExhausted(w) \/ QuotaVerdict(w)
  BY <1>3, MortalDone DEF KeysExhausted, QuotaVerdict, Refuse, Accept
<1> QED  BY <1>1, <1>2, <1>3

LEMMA MortalWrite ==
    ASSUME IInv, MortalHands, NEW w \in Workers, HSet(w) \/ Arm(w) \/ Expire(w)
    PROVE  MortalHands'
<1>1. ASSUME Stored(w), pc[w] \in {"hset", "expire"}
      PROVE  MortalHands'
  BY <1>1, MortalDone, MortalGoto DEF Stored, Serve, Accept, Goto, locals, clients
<1> QED  BY <1>1, MortalGoto DEF HSet, Arm, Expire, locals, clients

\* One worker moves on that writes nothing and is not in the window between HSET
\* and EXPIRE, or stays in it.
LEMMA ArmedMoves ==
    ASSUME ExpiryArmed, NEW w \in Workers, UNCHANGED redis, UNCHANGED terms,
           \A v \in Workers \ {w} : pc'[v] = pc[v] /\ key'[v] = key[v] /\ date'[v] = date[v],
           \/ pc[w] \notin {"hset", "arm", "expire"}
           \/ \A k \in Keys : Arming(w, k) => Arming(w, k)'
    PROVE  ExpiryArmed'
BY DEF ExpiryArmed, Arming, Mortal, redis

LEMMA ArmedHSet ==
    ASSUME IInv, MortalHands, ExpiryArmed, NEW w \in Workers, HSet(w) \/ HSetUnacked(w)
    PROVE  ExpiryArmed'
<1>1. /\ pc[w] = "hset" /\ key[w] \in Keys /\ rec[w].body # NoBody /\ UNCHANGED <<exp, terms>>
      /\ \A k \in Keys : hash'[k] = IF k = key[w] THEN rec[w] ELSE hash[k]
  BY NoBodyAssumption DEF HSet, HSetUnacked, SetHash, Stored, Serve, Accept, clients, IInv,
     TypeOK, Phases
<1>2. \A v \in Workers \ {w} : pc'[v] = pc[v] /\ key'[v] = key[v] /\ date'[v] = date[v]
  BY DEF HSet, HSetUnacked, Stored, Serve, Accept, Done, Goto, locals, IInv, TypeOK
<1>3. ~date[w].eternal => Arming(w, key[w])'
  BY DEF HSet, HSetUnacked, Goto, locals, Arming, IInv, TypeOK
<1>4. Mortal(rec[w].body) => ~date[w].eternal
  BY <1>1 DEF MortalHands, MortalHand
<1>5. ~date[w].eternal => key'[w] = key[w]
  BY <1>3 DEF HSet, HSetUnacked, locals
<1> SUFFICES ASSUME NEW k \in Keys, hash'[k] # Absent, Mortal(hash'[k].body), exp[k] = 0
             PROVE  \E v \in Workers : Arming(v, k)'
  BY <1>1 DEF ExpiryArmed, Arming, Mortal
<1>6. CASE k = key[w]
  BY <1>1, <1>3, <1>4, <1>5, <1>6 DEF Arming
<1>7. CASE k # key[w]
  BY <1>1, <1>2, <1>7 DEF ExpiryArmed, Arming
<1> QED  BY <1>6, <1>7

LEMMA ArmedExpire ==
    ASSUME IInv, ExpiryArmed, NEW w \in Workers, Expire(w) \/ ExpireUnacked(w)
    PROVE  ExpiryArmed'
<1>1. /\ pc[w] = "expire" /\ key[w] \in Keys /\ arm[w] \in Int /\ UNCHANGED terms
      /\ SetExpiry(key[w], arm[w])
  BY DEF Expire, ExpireUnacked, Stored, Serve, Accept, clients, IInv, TypeOK, Phases
<1>2. arm[w] > 0 => arm[w] * Second # 0
  BY <1>1, SecondsPositive
<1>3. /\ hash'[key[w]] # Absent => exp'[key[w]] # 0
      /\ \A k \in Keys : k # key[w] => hash'[k] = hash[k] /\ exp'[k] = exp[k]
  BY <1>1, <1>2 DEF SetExpiry, redis, IInv, TypeOK
<1>4. \A v \in Workers \ {w} : pc'[v] = pc[v] /\ key'[v] = key[v] /\ date'[v] = date[v]
  BY DEF Expire, ExpireUnacked, Stored, Serve, Accept, Done, Goto, locals, IInv, TypeOK
<1> SUFFICES ASSUME NEW k \in Keys, k # key[w], hash[k] # Absent, Mortal(hash[k].body),
                    exp[k] = 0
             PROVE  \E v \in Workers : Arming(v, k)'
  BY <1>1, <1>3 DEF ExpiryArmed, Arming, Mortal
<1> QED  BY <1>4 DEF ExpiryArmed, Arming

LEMMA ArmedStarts ==
    ASSUME IInv, MortalHands, MortalStore, ExpiryArmed, NEW w \in Workers, Start(w)
    PROVE  MortalHands' /\ MortalStore' /\ ExpiryArmed'
<1>1. ASSUME NEW o \in Ops, NEW k \in Keys, ReadStart(w, o, k)
      PROVE  MortalHands' /\ MortalStore' /\ ExpiryArmed'
  <2>1. \A v \in Workers \ {w} : pc'[v] = pc[v] /\ key'[v] = key[v] /\ date'[v] = date[v]
    BY <1>1 DEF ReadStart, Goto, IInv, TypeOK
  <2> QED  BY <1>1, <2>1, MortalGoto, MortalStays, ArmedMoves DEF ReadStart, clients
<1>2. ASSUME NEW p \in Pastes, NEW o \in Ops, NEW k \in Keys \cup {NoKey},
             NEW t \in TTLs, NEW d \in Disposables, PostStart(w, p, o, k, t, d)
      PROVE  MortalHands' /\ MortalStore' /\ ExpiryArmed'
  <2>1. /\ \A v \in Workers : rec[v].body # p
        /\ \A j \in Keys : hash[j] # Absent => hash[j].body \in Pastes \ {p}
    BY <1>2, UnsentNowhere DEF PostStart, IInv, StoredGenuine
  <2>2. /\ rec'[w].body = p /\ rec'[w].ttl = t /\ date'[w] = DateFromTTL(t)
        /\ terms'[p].ttl = t /\ pc[w] = "idle" /\ UNCHANGED redis
        /\ \A q \in Pastes \ {p} : terms'[q] = terms[q]
    BY <1>2 DEF PostStart, Goto, NewRecord, IInv, TypeOK
  <2>3. \A v \in Workers \ {w} : /\ pc'[v] = pc[v] /\ key'[v] = key[v]
                                 /\ rec'[v] = rec[v] /\ date'[v] = date[v]
    BY <1>2 DEF PostStart, Goto, IInv, TypeOK
  <2>4. DateFromTTL(t).eternal <=> t = 0
    BY DEF DateFromTTL
  <2>5. MortalHand(w)'
    BY <2>2, <2>4 DEF MortalHand, Mortal
  <2>6. \A v \in Workers : rec[v].body # NoBody => rec[v].body \in Pastes \ {p}
    BY <2>1 DEF IInv, TypeOK, HashRecords
  <2>7. MortalHands'
    BY <2>2, <2>3, <2>5, <2>6 DEF MortalHands, MortalHand, Mortal
  <2>8. MortalStore'
    BY <2>1, <2>2 DEF MortalStore, Mortal, redis
  <2>9. ExpiryArmed'
    BY <2>1, <2>2, <2>3 DEF ExpiryArmed, Mortal, redis
  <2> QED  BY <2>7, <2>8, <2>9
<1> QED  BY <1>1, <1>2 DEF Start

LEMMA ArmedProceeds ==
    ASSUME IInv, MortalHands, MortalStore, SavedInTime, ExpiryArmed,
           NEW w \in Workers, Proceed(w)
    PROVE  MortalHands' /\ MortalStore' /\ ExpiryArmed'
<1>1. MortalHands'
  BY MortalRead, MortalPost, MortalWrite DEF Proceed
<1>2. CASE HSet(w)
  <2>1. /\ \A k \in Keys : hash'[k] = IF k = key[w] THEN rec[w] ELSE hash[k]
        /\ rec[w].body # NoBody /\ UNCHANGED terms
    BY <1>2, NoBodyAssumption
       DEF HSet, SetHash, Stored, Serve, Accept, clients, IInv, TypeOK, Phases
  <2>2. MortalStore'
    BY <2>1 DEF MortalStore, MortalHands, MortalHand, Mortal
  <2> QED  BY <1>1, <1>2, <2>2, ArmedHSet
<1>3. CASE Expire(w)
  <2>1. UNCHANGED terms /\ \A k \in Keys : hash'[k] \in {hash[k], Absent}
    BY <1>3 DEF Expire, SetExpiry, redis, Stored, Serve, Accept, clients, IInv, TypeOK
  <2>2. MortalStore'
    BY <2>1 DEF MortalStore, Mortal
  <2> QED  BY <1>1, <1>3, <2>2, ArmedExpire
<1>4. CASE Arm(w)
  <2>1. /\ UNCHANGED <<key, date, terms>> /\ UNCHANGED redis /\ pc'[w] = "expire"
        /\ \A v \in Workers \ {w} : pc'[v] = pc[v]
    BY <1>4 DEF Arm, Goto, clients, IInv, TypeOK
  <2> QED  BY <1>1, <2>1, MortalStays, ArmedMoves DEF Arming
<1>5. CASE /\ ~HSet(w) /\ ~Expire(w) /\ ~Arm(w)
  <2>1. UNCHANGED redis /\ UNCHANGED terms
    BY <1>5 DEF Proceed, Exists, HGetAll, Load, GetBody, Requested, KeysExhausted, Prepare,
                QuotaVerdict, Generate, Refuse, Accept, clients
  <2>2. pc[w] \notin {"hset", "arm", "expire"}
    BY <1>5 DEF Proceed, Exists, HGetAll, Load, GetBody, Requested, KeysExhausted, Prepare,
                QuotaVerdict, Generate
  <2>3. Done(w) \/ \E l : Goto(w, l)
    BY <1>5 DEF Proceed, Exists, HGetAll, Load, GetBody, Requested, KeysExhausted, Prepare,
                QuotaVerdict, Generate, Refuse, Accept
  <2>4. \A v \in Workers \ {w} : key'[v] = key[v] /\ date'[v] = date[v]
    BY <1>5 DEF Proceed, Exists, HGetAll, Load, GetBody, Requested, KeysExhausted, Prepare,
                QuotaVerdict, Generate, Refuse, Accept, Done, locals, IInv, TypeOK
  <2>5. \A v \in Workers \ {w} : pc'[v] = pc[v]
    BY <2>3 DEF Done, Goto, IInv, TypeOK
  <2> QED  BY <1>1, <2>1, <2>2, <2>4, <2>5, MortalStays, ArmedMoves
<1> QED  BY <1>2, <1>3, <1>4, <1>5

LEMMA ArmedRetries ==
    ASSUME IInv, MortalHands, MortalStore, ExpiryArmed, NEW w \in Workers,
           HSetUnacked(w) \/ ExpireUnacked(w)
    PROVE  MortalHands' /\ MortalStore' /\ ExpiryArmed'
<1>1. UNCHANGED <<pc, rec, date, terms>>
  BY DEF HSetUnacked, ExpireUnacked, locals, clients
<1>2. MortalHands'
  BY <1>1 DEF MortalHands, MortalHand, Mortal
<1>3. \A k \in Keys : hash'[k] \in {hash[k], Absent} \/
                      (hash'[k] = rec[w] /\ rec[w].body # NoBody)
  BY NoBodyAssumption
     DEF HSetUnacked, ExpireUnacked, SetHash, SetExpiry, redis, IInv, TypeOK, Phases
<1>4. MortalStore'
  BY <1>1, <1>3 DEF MortalStore, MortalHands, MortalHand, Mortal
<1> QED  BY <1>2, <1>4, ArmedHSet, ArmedExpire

LEMMA ArmedTick ==
    ASSUME IInv, MortalHands, MortalStore, ExpiryArmed, Tick
    PROVE  MortalHands' /\ MortalStore' /\ ExpiryArmed'
<1>1. UNCHANGED <<pc, key, rec, terms>>
  BY DEF Tick
<1>2. \A w \in Workers : date'[w].eternal <=> date[w].eternal
  BY DEF Tick, IInv, TypeOK, Dates
<1>3. \A k \in Keys : hash'[k] # Absent =>
         hash'[k] = hash[k] /\ (exp'[k] = 0 => exp[k] = 0)
  BY StepAssumption DEF Tick, Due, Elapse, IInv, TypeOK
<1>4. MortalHands'
  BY <1>1, <1>2 DEF MortalHands, MortalHand, Mortal
<1>5. MortalStore'
  BY <1>1, <1>3 DEF MortalStore, Mortal
<1>6. ExpiryArmed'
  BY <1>1, <1>2, <1>3 DEF ExpiryArmed, Mortal
<1> QED  BY <1>4, <1>5, <1>6

\* As long as commands do not fail and the process does not die, and no record is
\* saved at the very instant at which its time is over, a record with a ttl has an
\* expiry in Redis or a worker that is about to give it one.
THEOREM ExpiryStaysArmed ==
    ASSUME Faults \subseteq {"retry"}
    PROVE  Spec /\ []SavedInTime => []ExpiryArmed
<1> DEFINE Inv == MortalHands /\ MortalStore /\ ExpiryArmed
<1>1. Init => Inv
  BY DEF Init, MortalHands, MortalHand, MortalStore, ExpiryArmed, ZeroRecord
<1>2. IInv /\ SavedInTime /\ Inv /\ [Next]_vars => Inv'
  <2> SUFFICES ASSUME IInv, SavedInTime, Inv, [Next]_vars PROVE Inv'
    OBVIOUS
  <2>1. CASE Tick
    BY <2>1, ArmedTick
  <2>2. ~Crash /\ \A w \in Workers : ~Fail(w)
    BY DEF Crash, Fail
  <2>3. ASSUME NEW w \in Workers, Start(w) \/ Proceed(w) \/ Fault(w)
        PROVE  Inv'
    BY <2>2, <2>3, ArmedStarts, ArmedProceeds, ArmedRetries DEF Fault
  <2>4. CASE UNCHANGED vars
    BY <2>4 DEF vars, redis, locals, clients, MortalHands, MortalHand, MortalStore,
                ExpiryArmed, Mortal
  <2> QED  BY <2>1, <2>2, <2>3, <2>4 DEF Next
<1>3. Inv => ExpiryArmed
  OBVIOUS
<1> HIDE DEF Inv
<1> QED  BY <1>1, <1>2, <1>3, Invariant, PTL DEF Spec

-----------------------------------------------------------------------------
(* It goes within one ttl: how far reads can push an expiry *)

\* How far away an expiry may be on behalf of a paste.
Lasts(p, e) == Mortal(p) /\ (e <= terms[p].ttl \/ e <= Second)

\* Neither the ttl nor the date of a record, nor an EXPIRE made of them, is longer
\* than the ttl of its POST.
WithinHand(w) ==
    /\ rec[w].body # NoBody =>
          /\ rec[w].ttl <= terms[rec[w].body].ttl
          /\ pc[w] # "load" => date[w].left <= terms[rec[w].body].ttl
    /\ pc[w] = "expire" => Lasts(rec[w].body, arm[w] * Second)

WithinHands == \A w \in Workers : WithinHand(w)

WithinStore ==
    \A k \in Keys : hash[k] # Absent => hash[k].ttl <= terms[hash[k].body].ttl

WithinInv == WithinHands /\ WithinStore /\ ExpiryWithinTTL

\* FormatSec rounds up to a whole second, and otherwise down.
LEMMA FormatSecWithin ==
    ASSUME NEW d \in Int, NEW t \in Nat, d <= t
    PROVE  FormatSec(d) * Second <= t \/ FormatSec(d) * Second <= Second
<1>1. CASE d > 0 /\ d < Second
  <2>1. FormatSec(d) = 1
    BY <1>1 DEF FormatSec
  <2> QED  BY <2>1, SecondAssumption
<1>2. CASE ~(d > 0 /\ d < Second)
  <2>1. FormatSec(d) = d \div Second
    BY <1>2 DEF FormatSec
  <2>2. /\ d \div Second \in Int
        /\ d = Second * (d \div Second) + (d % Second)
        /\ 0 <= d % Second
    BY SecondAssumption
  <2>3. (d \div Second) * Second = Second * (d \div Second)
    BY <2>2, SecondAssumption
  <2> QED  BY <2>1, <2>2, <2>3, SecondAssumption
<1> QED  BY <1>1, <1>2

LEMMA TermsType ==
    ASSUME IInv, NEW p \in Pastes
    PROVE  terms[p].ttl \in Nat
<1>1. terms[p].ttl \in TTLs \cup {0}
  BY DEF IInv, TypeOK
<1>2. \A t \in TTLs \cup {0} : t \in Nat
  BY TTLsAssumption
<1> QED  BY <1>1, <1>2

\* One worker moves on; the terms stay.
LEMMA WithinMoves ==
    ASSUME WithinHands, NEW w \in Workers, UNCHANGED terms,
           \A v \in Workers \ {w} : /\ pc'[v] = pc[v] /\ rec'[v] = rec[v]
                                    /\ date'[v] = date[v] /\ arm'[v] = arm[v],
           WithinHand(w)'
    PROVE  WithinHands'
BY DEF WithinHands, WithinHand, Lasts, Mortal

LEMMA WithinDone ==
    ASSUME IInv, WithinHands, NEW w \in Workers, Done(w), UNCHANGED terms
    PROVE  WithinHands'
<1>1. rec'[w].body = NoBody /\ pc'[w] = "idle"
  BY DEF Done, IInv, TypeOK, ZeroRecord
<1>2. \A v \in Workers \ {w} : /\ pc'[v] = pc[v] /\ rec'[v] = rec[v]
                               /\ date'[v] = date[v] /\ arm'[v] = arm[v]
  BY DEF Done, IInv, TypeOK
<1> QED  BY <1>1, <1>2, WithinMoves DEF WithinHand

LEMMA WithinGoto ==
    ASSUME IInv, WithinHands, NEW w \in Workers, NEW l, Goto(w, l), pc[w] # "load",
           l # "expire", UNCHANGED <<rec, date, arm, terms>>
    PROVE  WithinHands'
<1>1. \A v \in Workers : pc'[v] = IF v = w THEN l ELSE pc[v]
  BY DEF Goto, IInv, TypeOK
<1>2. WithinHand(w)'
  BY <1>1 DEF WithinHands, WithinHand
<1> QED  BY <1>1, <1>2, WithinMoves

\* SetByKey stores what is left of the date.
LEMMA WithinSave ==
    ASSUME IInv, WithinHands, NEW w \in Workers, Prepare(w)
    PROVE  WithinHands'
<1>0. rec[w].body \in Pastes /\ pc[w] = "prepare" /\ UNCHANGED <<date, arm, terms>>
  BY DEF Prepare, clients, IInv, Phases
<1>1. \A v \in Workers : /\ pc'[v] = IF v = w THEN "hset" ELSE pc[v]
                         /\ v # w => rec'[v] = rec[v]
  BY DEF Prepare, Goto, IInv, TypeOK
<1>2. rec'[w].body = rec[w].body /\ rec'[w].ttl = Until(date[w])
  BY DEF Prepare, IInv, TypeOK, WithTTL, HashRecords
<1>3. date[w].left <= terms[rec[w].body].ttl
  BY <1>0, NoBodyAssumption DEF WithinHands, WithinHand
<1>4. Until(date[w]) <= terms[rec[w].body].ttl
  BY <1>0, <1>3, TermsType DEF Until
<1>5. WithinHand(w)'
  BY <1>0, <1>1, <1>2, <1>3, <1>4 DEF WithinHand
<1> QED  BY <1>0, <1>1, <1>5, WithinMoves

LEMMA WithinRead ==
    ASSUME IInv, WithinHands, WithinStore, NEW w \in Workers,
           Exists(w) \/ HGetAll(w) \/ Load(w) \/ GetBody(w)
    PROVE  WithinHands'
<1>1. CASE Exists(w)
  BY <1>1, WithinDone, WithinGoto DEF Exists, Refuse, locals, clients
<1>2. CASE HGetAll(w)
  <2>1. key[w] \in Keys /\ \A v \in Workers : /\ pc'[v] = IF v = w THEN "load" ELSE pc[v]
                                              /\ v # w => rec'[v] = rec[v]
    BY <1>2 DEF HGetAll, Goto, IInv, TypeOK, Phases
  <2>2. \/ rec'[w].body = NoBody
        \/ hash[key[w]] # Absent /\ rec'[w] = hash[key[w]]
    BY <1>2 DEF HGetAll, IInv, TypeOK, ZeroRecord
  <2>3. WithinHand(w)'
    BY <1>2, <2>1, <2>2 DEF HGetAll, clients, WithinStore, WithinHand
  <2> QED  BY <1>2, <2>1, <2>3, WithinMoves DEF HGetAll, clients
<1>3. CASE Load(w)
  <2>1. CASE Done(w)
    BY <1>3, <2>1, WithinDone DEF Load, clients
  <2>2. CASE ~Done(w)
    <3>1. /\ date' = [date EXCEPT ![w] = DateFromTTL(rec[w].ttl)] /\ Goto(w, "body")
          /\ UNCHANGED <<rec, arm, terms>>
      BY <1>3, <2>2 DEF Load, clients
    <3>2. \A v \in Workers : /\ pc'[v] = IF v = w THEN "body" ELSE pc[v]
                             /\ date'[v] = IF v = w THEN DateFromTTL(rec[w].ttl) ELSE date[v]
      BY <3>1 DEF Goto, IInv, TypeOK
    <3>3. DateFromTTL(rec[w].ttl).left = rec[w].ttl
      BY DEF DateFromTTL
    <3>4. WithinHand(w)'
      BY <3>1, <3>2, <3>3 DEF WithinHands, WithinHand
    <3> QED  BY <3>1, <3>2, <3>4, WithinMoves
  <2> QED  BY <2>1, <2>2
<1>4. CASE GetBody(w)
  <2>1. CASE Refuse(w)
    BY <2>1, WithinDone DEF Refuse
  <2>2. CASE ~Refuse(w)
    <3>1. /\ pc[w] = "body" /\ UNCHANGED <<date, arm, terms>>
          /\ rec' = [rec EXCEPT ![w] = Touch(rec[w])]
      BY <1>4, <2>2 DEF GetBody, clients
    <3>2. \A v \in Workers : /\ pc'[v] = IF v = w THEN "prepare" ELSE pc[v]
                             /\ v # w => rec'[v] = rec[v]
      BY <1>4, <2>2, <3>1 DEF GetBody, Goto, IInv, TypeOK
    <3>3. rec'[w].body = rec[w].body /\ rec'[w].ttl = rec[w].ttl
      BY <3>1 DEF Touch, IInv, TypeOK
    <3>4. WithinHand(w)'
      BY <3>1, <3>2, <3>3 DEF WithinHands, WithinHand
    <3> QED  BY <3>1, <3>2, <3>4, WithinMoves
  <2> QED  BY <2>1, <2>2
<1> QED  BY <1>1, <1>2, <1>3, <1>4

LEMMA WithinPost ==
    ASSUME IInv, WithinHands, NEW w \in Workers,
           \/ Requested(w) \/ KeysExhausted(w) \/ Prepare(w) \/ QuotaVerdict(w)
           \/ \E k \in Keys : Generate(w, k)
    PROVE  WithinHands'
<1>1. CASE Prepare(w)
  BY <1>1, WithinSave
<1>2. CASE Requested(w) \/ \E k \in Keys : Generate(w, k)
  BY <1>2, WithinDone, WithinGoto DEF Requested, Generate, Refuse, locals
<1>3. CASE KeysExhausted(w) \/ QuotaVerdict(w)
  BY <1>3, WithinDone DEF KeysExhausted, QuotaVerdict, Refuse, Accept
<1> QED  BY <1>1, <1>2, <1>3

LEMMA WithinStored ==
    ASSUME IInv, WithinHands, NEW w \in Workers, Stored(w), pc[w] \in {"hset", "expire"}
    PROVE  WithinHands'
BY WithinDone, WithinGoto DEF Stored, Serve, Accept, Goto, locals, clients

LEMMA WithinWrite ==
    ASSUME IInv, HandsCover, WithinHands, NEW w \in Workers, HSet(w) \/ Arm(w) \/ Expire(w)
    PROVE  WithinHands'
<1>1. CASE HSet(w)
  BY <1>1, WithinStored, WithinGoto DEF HSet, locals, clients
<1>2. CASE Expire(w)
  BY <1>2, WithinStored DEF Expire
<1>3. CASE Arm(w)
  <2>1. PICK b \in Pastes, d \in Int : b = rec[w].body /\ d = Until(date[w])
    <3>1. rec[w].body \in Pastes
      BY <1>3 DEF Arm, IInv, Phases
    <3>2. Until(date[w]) \in Int
      BY DEF IInv, TypeOK, Dates, Until
    <3> QED  BY <3>1, <3>2
  <2>2. /\ pc[w] = "arm" /\ UNCHANGED <<rec, date, terms>>
        /\ \A v \in Workers : /\ pc'[v] = IF v = w THEN "expire" ELSE pc[v]
                              /\ arm'[v] = IF v = w THEN FormatSec(d) ELSE arm[v]
    BY <1>3, <2>1 DEF Arm, Goto, clients, IInv, TypeOK
  <2>3. /\ b # NoBody /\ date[w].left <= terms[b].ttl
        /\ rec[w].ttl <= terms[b].ttl
    BY <2>1, <2>2, NoBodyAssumption DEF WithinHands, WithinHand
  <2>4. ~date[w].eternal /\ Mortal(b)
    BY <2>1, <2>2, <2>3 DEF HandsCover, HandCovers, DateCovers
  <2>5. FormatSec(d) * Second <= terms[b].ttl \/ FormatSec(d) * Second <= Second
    BY <2>1, <2>3, <2>4, TermsType, FormatSecWithin DEF Until
  <2>6. WithinHand(w)'
    BY <2>1, <2>2, <2>3, <2>4, <2>5 DEF WithinHand, Lasts, Mortal
  <2> QED  BY <2>2, <2>6, WithinMoves
<1> QED  BY <1>1, <1>2, <1>3

LEMMA WithinFault ==
    ASSUME IInv, WithinHands, NEW w \in Workers, Fault(w)
    PROVE  WithinHands'
<1>1. CASE Fail(w)
  BY <1>1, WithinDone DEF Fail, Refuse
<1>2. CASE HSetUnacked(w) \/ ExpireUnacked(w)
  BY <1>2 DEF HSetUnacked, ExpireUnacked, locals, clients, WithinHands, WithinHand, Lasts, Mortal
<1> QED  BY <1>1, <1>2 DEF Fault

LEMMA WithinStart ==
    ASSUME IInv, WithinHands, NEW w \in Workers, Start(w)
    PROVE  WithinHands'
<1>1. ASSUME NEW o \in Ops, NEW k \in Keys, ReadStart(w, o, k)
      PROVE  WithinHands'
  <2>1. pc[w] = "idle"
    BY <1>1 DEF ReadStart
  <2> QED  BY <1>1, <2>1, WithinGoto DEF ReadStart, clients
<1>2. ASSUME NEW p \in Pastes, NEW o \in Ops, NEW k \in Keys \cup {NoKey},
             NEW t \in TTLs, NEW d \in Disposables, PostStart(w, p, o, k, t, d)
      PROVE  WithinHands'
  <2>1. /\ rec'[w].body = p /\ rec'[w].ttl = t /\ date'[w].left = t
        /\ pc'[w] \notin {"load", "expire"} /\ terms'[p].ttl = t /\ t \in Nat
    BY <1>2, TTLsAssumption DEF PostStart, Goto, NewRecord, DateFromTTL, IInv, TypeOK
  <2>2. WithinHand(w)'
    BY <2>1 DEF WithinHand
  <2>3. ASSUME NEW v \in Workers \ {w}
        PROVE  WithinHand(v)'
    <3>1. pc'[v] = pc[v] /\ rec'[v] = rec[v] /\ date'[v] = date[v] /\ arm'[v] = arm[v]
      BY <1>2 DEF PostStart, Goto, IInv, TypeOK
    <3>2. rec[v].body # p
      BY <1>2, UnsentNowhere DEF PostStart
    <3>3. rec[v].body \in Pastes => terms'[rec[v].body] = terms[rec[v].body]
      BY <1>2, <3>2 DEF PostStart, IInv, TypeOK
    <3>4. /\ rec[v].body # NoBody => rec[v].body \in Pastes
          /\ pc[v] = "expire" => rec[v].body \in Pastes
      BY DEF IInv, TypeOK, HashRecords, Phases
    <3> QED  BY <3>1, <3>3, <3>4 DEF WithinHands, WithinHand, Lasts, Mortal
  <2> QED  BY <2>2, <2>3 DEF WithinHands
<1> QED  BY <1>1, <1>2 DEF Start

LEMMA WithinTick ==
    ASSUME IInv, WithinHands, Tick
    PROVE  WithinHands'
<1> SUFFICES ASSUME NEW w \in Workers
             PROVE  WithinHand(w)'
  BY DEF WithinHands
<1>1. UNCHANGED <<pc, rec, arm, terms>>
  BY DEF Tick
<1>2. CASE date[w].eternal
  BY <1>1, <1>2 DEF Tick, WithinHands, WithinHand, Lasts, Mortal
<1>3. CASE ~date[w].eternal
  <2>1. date'[w].left = Elapse(date[w].left, Step, -1) /\ date[w].left \in Int
    BY <1>3 DEF Tick, IInv, TypeOK, Dates
  <2>2. date'[w].left <= date[w].left \/ date'[w].left = -1
    BY <2>1, StepAssumption DEF Elapse
  <2>3. date'[w].left \in Int
    BY <2>1, StepAssumption DEF Elapse
  <2>4. rec[w].body # NoBody => rec[w].body \in Pastes
    BY DEF IInv, TypeOK, HashRecords
  <2> QED  BY <1>1, <2>1, <2>2, <2>3, <2>4, TermsType
           DEF WithinHands, WithinHand, Lasts, Mortal
<1> QED  BY <1>2, <1>3

-----------------------------------------------------------------------------
(* The store of the same *)

\* A POST keeps the key it was given, and its terms from then on.
Settled ==
    \A p \in Pastes : home[p] \in Keys => home'[p] = home[p] /\ terms'[p] = terms[p]

\* Every expiry comes nearer or stays.
LEMMA ExpiryNearer ==
    ASSUME IInv, IInv', ExpiryWithinTTL, Settled,
           NEW k \in Keys, exp'[k] <= exp[k], exp'[k] # 0
    PROVE  \E p \in Pastes : home'[p] = k /\ Lasts(p, exp[k])'
<1>1. exp[k] \in Nat /\ exp'[k] \in Nat /\ exp[k] # 0
  BY DEF IInv, TypeOK
<1>2. PICK p \in Pastes : home[p] = k /\ Mortal(p) /\ (exp[k] <= terms[p].ttl \/ exp[k] <= Second)
  BY <1>1 DEF ExpiryWithinTTL
<1>3. home'[p] = k /\ terms'[p] = terms[p] /\ terms[p].ttl \in Nat
  BY <1>2, TermsType DEF Settled
<1> QED  BY <1>1, <1>2, <1>3, SecondAssumption DEF Lasts, Mortal

LEMMA SettledStep ==
    ASSUME IInv, [Next]_vars
    PROVE  Settled
<1>1. ASSUME NEW w \in Workers, Start(w)
      PROVE  Settled
  <2>1. ASSUME NEW p \in Pastes, NEW o \in Ops, NEW k \in Keys \cup {NoKey},
               NEW t \in TTLs, NEW d \in Disposables, PostStart(w, p, o, k, t, d)
        PROVE  Settled
    <3>1. home[p] = NoKey
      BY <2>1, UnsentNowhere DEF PostStart
    <3> QED  BY <2>1, <3>1, NoKeyAssumption DEF PostStart, Settled, IInv, TypeOK
  <2> QED  BY <1>1, <2>1 DEF Start, ReadStart, clients, Settled
<1>2. ASSUME NEW w \in Workers, Requested(w) \/ \E k \in Keys : Generate(w, k)
      PROVE  Settled
  <2>1. home[rec[w].body] = NoKey /\ rec[w].body \in Pastes
    BY <1>2 DEF Requested, Generate, IInv, Phases, Postings
  <2> QED  BY <1>2, <2>1, NoKeyAssumption
           DEF Requested, Generate, Refuse, Settled, IInv, TypeOK
<1>3. ASSUME NEW w \in Workers, Proceed(w) \/ Fault(w)
      PROVE  Settled
  BY <1>2, <1>3
  DEF Proceed, Fault, Settled, Exists, HGetAll, Load, GetBody, KeysExhausted, Prepare,
      QuotaVerdict, HSet, Arm, Expire, HSetUnacked, ExpireUnacked, Fail, Stored, Serve,
      Accept, Refuse, clients
<1>4. CASE Tick \/ Crash \/ UNCHANGED vars
  BY <1>4 DEF Tick, Crash, vars, clients, Settled
<1> QED  BY <1>1, <1>3, <1>4 DEF Next

\* EXPIRE is as long as the ttl of the paste in hand.
LEMMA WithinSetExpiry ==
    ASSUME IInv, IInv', WithinHands, ExpiryWithinTTL, Settled, NEW w \in Workers,
           pc[w] = "expire", SetExpiry(key[w], arm[w])
    PROVE  ExpiryWithinTTL'
<1>1. PICK b \in Pastes : b = rec[w].body
  BY DEF IInv, Phases
<1>2. b # NoBody /\ home[b] = key[w] /\ key[w] \in Keys
  BY <1>1, NoBodyAssumption DEF IInv, Phases, Postings
<1>3. Lasts(b, arm[w] * Second)
  BY <1>1 DEF WithinHands, WithinHand
<1>4. home'[b] = key[w] /\ terms'[b] = terms[b]
  BY <1>2 DEF Settled
<1> SUFFICES ASSUME NEW k \in Keys, exp'[k] # 0
             PROVE  \E p \in Pastes : home'[p] = k /\ Lasts(p, exp[k])'
  BY DEF ExpiryWithinTTL, Lasts
<1>5. exp'[k] = exp[k] \/ (k = key[w] /\ exp'[k] = arm[w] * Second)
  BY <1>2 DEF SetExpiry, redis, IInv, TypeOK
<1>6. CASE exp'[k] = exp[k]
  <2>1. exp'[k] <= exp[k]
    BY <1>6 DEF IInv, TypeOK
  <2> QED  BY <2>1, ExpiryNearer
<1>7. CASE k = key[w] /\ exp'[k] = arm[w] * Second
  BY <1>3, <1>4, <1>7 DEF Lasts, Mortal
<1> QED  BY <1>5, <1>6, <1>7

LEMMA WithinExpiry ==
    ASSUME IInv, IInv', WithinHands, ExpiryWithinTTL, [Next]_vars
    PROVE  ExpiryWithinTTL'
<1>0. Settled
  BY SettledStep
<1>1. ASSUME NEW w \in Workers, Expire(w) \/ ExpireUnacked(w)
      PROVE  ExpiryWithinTTL'
  BY <1>0, <1>1, WithinSetExpiry DEF Expire, ExpireUnacked
<1>2. ASSUME \A k \in Keys : exp'[k] <= exp[k]
      PROVE  ExpiryWithinTTL'
  BY <1>0, <1>2, ExpiryNearer DEF ExpiryWithinTTL, Lasts
<1>3. CASE UNCHANGED exp
  BY <1>2, <1>3 DEF IInv, TypeOK
<1>4. CASE Tick
  <2>1. \A k \in Keys : exp'[k] <= exp[k]
    BY <1>4, StepAssumption DEF Tick, Elapse, IInv, TypeOK
  <2> QED  BY <1>2, <2>1
<1>5. \/ Tick \/ UNCHANGED exp
      \/ \E w \in Workers : Expire(w) \/ ExpireUnacked(w)
  BY DEF Next, vars, redis, Crash, Start, ReadStart, PostStart, Proceed, Fault, Exists, HGetAll,
         Load, GetBody, Requested, Generate, KeysExhausted, Prepare, QuotaVerdict, HSet,
         SetHash, Arm, HSetUnacked, Fail
<1> QED  BY <1>1, <1>3, <1>4, <1>5

LEMMA WithinStoreNext ==
    ASSUME IInv, IInv', WithinHands, WithinStore, [Next]_vars
    PROVE  WithinStore'
<1>0. Settled
  BY SettledStep
<1>1. ASSUME NEW k \in Keys, hash'[k] # Absent, hash'[k] = hash[k]
      PROVE  hash'[k].ttl <= terms'[hash'[k].body].ttl
  <2>1. hash[k].body \in Pastes /\ home[hash[k].body] = k
    BY <1>1 DEF IInv, StoredGenuine
  <2> QED  BY <1>0, <1>1, <2>1 DEF Settled, WithinStore
<1>2. ASSUME NEW w \in Workers, pc[w] = "hset", SetHash(key[w], rec[w])
      PROVE  WithinStore'
  <2>1. rec[w].body \in Pastes /\ rec[w].body # NoBody /\ home[rec[w].body] = key[w]
        /\ key[w] \in Keys
    BY <1>2, NoBodyAssumption DEF IInv, Phases, Postings
  <2>2. rec[w].ttl <= terms'[rec[w].body].ttl
    BY <1>0, <2>1 DEF Settled, WithinHands, WithinHand
  <2>3. \A k \in Keys : hash'[k] = IF k = key[w] THEN rec[w] ELSE hash[k]
    BY <1>2 DEF SetHash, IInv, TypeOK
  <2> QED  BY <1>1, <2>2, <2>3 DEF WithinStore
<1>3. ASSUME \A k \in Keys : hash'[k] \in {hash[k], Absent}
      PROVE  WithinStore'
  BY <1>1, <1>3 DEF WithinStore
<1>4. ASSUME NEW w \in Workers, SetExpiry(key[w], arm[w])
      PROVE  \A k \in Keys : hash'[k] \in {hash[k], Absent}
  BY <1>4 DEF SetExpiry, redis, IInv, TypeOK
<1>5. \/ \A k \in Keys : hash'[k] \in {hash[k], Absent}
      \/ \E w \in Workers : SetExpiry(key[w], arm[w])
      \/ \E w \in Workers : pc[w] = "hset" /\ SetHash(key[w], rec[w])
  BY DEF Next, vars, redis, Crash, Tick, Start, ReadStart, PostStart, Proceed, Fault, Exists,
         HGetAll, Load, GetBody, Requested, Generate, KeysExhausted, Prepare, QuotaVerdict,
         HSet, Arm, Expire, HSetUnacked, ExpireUnacked, Fail
<1> QED  BY <1>2, <1>3, <1>4, <1>5

LEMMA WithinNext ==
    ASSUME IInv, IInv', HandsCover, WithinInv, [Next]_vars
    PROVE  WithinInv'
<1>1. WithinStore' /\ ExpiryWithinTTL'
  BY WithinStoreNext, WithinExpiry DEF WithinInv
<1>2. WithinHands'
  <2> USE DEF WithinInv
  <2>1. CASE Tick
    BY <2>1, WithinTick
  <2>2. CASE Crash
    BY <2>2 DEF Crash, WithinHands, WithinHand, ZeroRecord
  <2>3. ASSUME NEW w \in Workers, Start(w) \/ Proceed(w) \/ Fault(w)
        PROVE  WithinHands'
    BY <2>3, WithinStart, WithinRead, WithinPost, WithinWrite, WithinFault DEF Proceed
  <2>4. CASE UNCHANGED vars
    BY <2>4 DEF vars, locals, clients, WithinHands, WithinHand, Lasts, Mortal
  <2> QED  BY <2>1, <2>2, <2>3, <2>4 DEF Next
<1> QED  BY <1>1, <1>2 DEF WithinInv

\* However many requests read a paste and push its expiry back, a key of Redis never
\* has longer to live than the ttl of a POST it was given to, or one second: from the
\* last EXPIRE on, a paste that nobody reads any more is gone within its ttl.
THEOREM ExpiryBounded == Spec => []ExpiryWithinTTL
<1>1. Init => WithinInv
  BY DEF Init, WithinInv, WithinHands, WithinHand, WithinStore, ExpiryWithinTTL, ZeroRecord
<1>2. WithinInv => ExpiryWithinTTL
  BY DEF WithinInv
<1>3. IInv /\ IInv' /\ PromiseInv /\ WithinInv /\ [Next]_vars => WithinInv'
  BY WithinNext DEF PromiseInv
<1> QED  BY <1>1, <1>2, <1>3, Invariant, PromiseInvariant, PTL DEF Spec
=============================================================================
