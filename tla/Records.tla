------------------------------ MODULE Records -------------------------------
(***************************************************************************)
(* The life of the records of the paste service: the handlers of           *)
(* GET /{key}, GET /{key}/clicks/ and POST /, from the application         *)
(* services (GetService, CacheService) through RedisRecordRepository down  *)
(* to the commands that Redis executes.                                    *)
(*                                                                         *)
(* A worker is a goroutine of net/http that serves one request at a time.  *)
(* Redis executes single commands atomically; nothing else is atomic, so   *)
(* each command is a step of its own, and so is each piece of Go code      *)
(* between two commands that reads the clock.  Time passes between any two *)
(* steps.  Every duration is kept as time left, so the clock itself is not *)
(* part of the state.                                                      *)
(*                                                                         *)
(* Deadlines: the 3 seconds of a request's context and the socket timeouts *)
(* of the client show as a command that fails, executed or not.            *)
(***************************************************************************)
EXTENDS Domain

CONSTANTS
    Keys,         \* record keys
    Workers,      \* goroutines serving requests
    Pastes,       \* POST requests; each stands for its own body
    TTLs,         \* values of the ttl parameter that pass validation
    Disposables,  \* values of the disposable parameter, 0 for no limit
    Ops,          \* requests that clients send: a subset of AllOps
    Faults,       \* what may go wrong: a subset of AllFaults
    Step,         \* units of time between two ticks of the clock
    MaxServed,    \* bound: clients stop reading when a paste was served so often
    NoKey, NoBody, Absent

AllOps == {"get", "clicks", "anon", "keyed", "custom"}
Posts == {"anon", "keyed", "custom"}
AllFaults == {"error", "retry", "crash"}

\* The fields of redisKeyRecord.
HashRecords ==
    [body : Pastes \cup {NoBody}, ttl : Int, clicks : 0 .. (ClicksWidth - 1),
     countdown : Nat, eternal : BOOLEAN]

ASSUME OpsAssumption == Ops \subseteq AllOps
ASSUME FaultsAssumption == Faults \subseteq AllFaults
ASSUME TTLsAssumption == TTLs \subseteq Nat
\* disposable is a uint8 and the clicks counter a uint32, so a record that is
\* read once for each unit of its counter cannot wrap its clicks.
ASSUME DisposablesAssumption == Disposables \subseteq 0 .. (ClicksWidth - 1)
ASSUME StepAssumption == Step \in Nat \ {0}
ASSUME MaxServedAssumption == MaxServed \in Nat
ASSUME NoKeyAssumption == NoKey \notin Keys
ASSUME NoBodyAssumption == NoBody \notin Pastes
ASSUME AbsentAssumption == Absent \notin HashRecords

VARIABLES
    hash,    \* Redis: the hash stored under a key, or Absent
    exp,     \* Redis: time to the expiry of a key, 0 when it has none
    pc,      \* the command or the piece of code a worker is at
    op,      \* the request a worker serves
    key,     \* the key it works on, NoKey until one is chosen
    rec,     \* the record in its hands
    date,    \* the ExpirationDate of that record
    arm,     \* the argument of its EXPIRE, in seconds
    \* What clients know, for the properties only:
    status,  \* of a POST: "unsent", "sent", "accepted" (201) or "refused"
    home,    \* the key a POST was given
    terms,   \* the ttl and disposable parameters it carried
    life,    \* time left of the lifetime it asked for
    served   \* 200 answers that carried the body of a disposable paste

redis == <<hash, exp>>
locals == <<op, key, rec, date, arm>>
clients == <<status, home, terms, life, served>>
vars == <<redis, pc, locals, clients>>

-----------------------------------------------------------------------------
(* Redis *)

\* HSET writes the fields and leaves the expiry of the key as it is.
SetHash(k, r) == hash' = [hash EXCEPT ![k] = r] /\ UNCHANGED exp

\* EXPIRE does nothing to a missing key and removes the key when the number
\* of seconds is not positive.
SetExpiry(k, seconds) ==
    \/ /\ hash[k] = Absent
       /\ UNCHANGED redis
    \/ /\ hash[k] # Absent /\ seconds <= 0
       /\ hash' = [hash EXCEPT ![k] = Absent]
       /\ exp' = [exp EXCEPT ![k] = 0]
    \/ /\ hash[k] # Absent /\ seconds > 0
       /\ exp' = [exp EXCEPT ![k] = seconds * Second]
       /\ UNCHANGED hash

Due(k) == exp[k] # 0 /\ exp[k] <= Step

Mortal(p) == terms[p].ttl # 0
Limited(p) == terms[p].disposable # 0

\* Time passes: Redis drops the keys that are due, every date comes nearer.
Tick ==
    /\ hash' = [k \in Keys |-> IF Due(k) THEN Absent ELSE hash[k]]
    /\ exp' = [k \in Keys |-> Elapse(exp[k], Step, 0)]
    /\ date' = [w \in Workers |->
                  IF date[w].eternal THEN date[w]
                  ELSE [left |-> Elapse(date[w].left, Step, -1), eternal |-> FALSE]]
    /\ life' = [p \in Pastes |->
                  IF Mortal(p) THEN Elapse(life[p], Step, 0) ELSE life[p]]
    /\ UNCHANGED <<pc, op, key, rec, arm, status, home, terms, served>>

-----------------------------------------------------------------------------
(* The answers *)

NoDate == DateFromTTL(0)

\* The handler returns: the worker is free, nothing of the request is left.
Done(w) ==
    /\ pc' = [pc EXCEPT ![w] = "idle"]
    /\ op' = [op EXCEPT ![w] = "get"]
    /\ key' = [key EXCEPT ![w] = NoKey]
    /\ rec' = [rec EXCEPT ![w] = ZeroRecord(NoBody)]
    /\ date' = [date EXCEPT ![w] = NoDate]
    /\ arm' = [arm EXCEPT ![w] = 0]

\* 404 or 500 to a reader, 409, 403 or 500 to a poster.
Refuse(w) ==
    /\ Done(w)
    /\ status' = IF op[w] \in Posts
                 THEN [status EXCEPT ![rec[w].body] = "refused"] ELSE status
    /\ UNCHANGED <<home, terms, life, served>>

\* 201 with the key of the new record.
Accept(w) ==
    /\ Done(w)
    /\ status' = [status EXCEPT ![rec[w].body] = "accepted"]
    /\ UNCHANGED <<home, terms, life, served>>

\* 200 (or 303) with the body.
Serve(w) ==
    /\ Done(w)
    /\ served' = [p \in Pastes |->
                    IF rec[w].body = p /\ Limited(p) THEN served[p] + 1 ELSE served[p]]
    /\ UNCHANGED <<status, home, terms, life>>

\* What follows a SetByKey that succeeded: serveUnprivileged goes on to
\* manageQuota, the others answer.
Stored(w) ==
    \/ op[w] = "get" /\ Serve(w)
    \/ op[w] \in {"keyed", "custom"} /\ Accept(w)
    \/ /\ op[w] = "anon"
       /\ pc' = [pc EXCEPT ![w] = "quota"]
       /\ UNCHANGED <<locals, clients>>

Goto(w, label) == pc' = [pc EXCEPT ![w] = label]

-----------------------------------------------------------------------------
(* GET /{key} and GET /{key}/clicks/ *)

ReadStart(w, o, k) ==
    /\ pc[w] = "idle"
    /\ o \in Ops \cap {"get", "clicks"}
    /\ \A p \in Pastes : served[p] < MaxServed
    /\ op' = [op EXCEPT ![w] = o]
    /\ key' = [key EXCEPT ![w] = k]
    /\ Goto(w, "exists")
    /\ UNCHANGED <<redis, rec, date, arm, clients>>

\* Mutant: a missing key is not answered.
ExistsUnanswered(w) ==
    /\ pc[w] = "exists"
    /\ hash[key[w]] # Absent
    /\ Goto(w, "hgetall")
    /\ UNCHANGED <<redis, locals, clients>>

\* GetByKey asks EXISTS first ...
Exists(w) ==
    /\ pc[w] = "exists"
    /\ \/ hash[key[w]] = Absent /\ Refuse(w)
       \/ /\ hash[key[w]] # Absent
          /\ Goto(w, "hgetall")
          /\ UNCHANGED <<locals, clients>>
    /\ UNCHANGED redis

\* ... and fetches the fields with a second command.  By then the key may be
\* gone; HGETALL of a missing key is no error and scans into zero values.
HGetAll(w) ==
    /\ pc[w] = "hgetall"
    /\ rec' = [rec EXCEPT ![w] = IF hash[key[w]] = Absent
                                 THEN ZeroRecord(NoBody) ELSE hash[key[w]]]
    /\ Goto(w, "load")
    /\ UNCHANGED <<redis, op, key, date, arm, clients>>

\* GetByKey dates the record from the stored ttl and from now.  GetClicks
\* answers with what it has got.
Load(w) ==
    /\ pc[w] = "load"
    /\ \/ op[w] = "clicks" /\ Done(w)
       \/ /\ op[w] = "get"
          /\ date' = [date EXCEPT ![w] = DateFromTTL(rec[w].ttl)]
          /\ Goto(w, "body")
          /\ UNCHANGED <<op, key, rec, arm>>
    /\ UNCHANGED <<redis, clients>>

\* Mutant: the body is answered without writing the record back.
GetBodyUnsaved(w) ==
    /\ pc[w] = "body"
    /\ \/ ~Readable(rec[w], date[w]) /\ Refuse(w)
       \/ Readable(rec[w], date[w]) /\ Serve(w)
    /\ UNCHANGED redis

\* Record.GetBody reads the clock and moves the counters.
GetBody(w) ==
    /\ pc[w] = "body"
    /\ \/ ~Readable(rec[w], date[w]) /\ Refuse(w)
       \/ /\ Readable(rec[w], date[w])
          /\ rec' = [rec EXCEPT ![w] = Touch(rec[w])]
          /\ Goto(w, "prepare")
          /\ UNCHANGED <<op, key, date, arm, clients>>
    /\ UNCHANGED redis

-----------------------------------------------------------------------------
(* POST / *)

\* Validation has passed: without a key of the API the ttl is not zero and no
\* record key is asked for.
PostStart(w, p, o, k, ttl, disposable) ==
    /\ pc[w] = "idle"
    /\ status[p] = "unsent"
    /\ o \in Ops \cap Posts
    /\ o = "anon" => ttl # 0
    /\ k \in IF o = "custom" THEN Keys ELSE {NoKey}
    /\ op' = [op EXCEPT ![w] = o]
    /\ key' = [key EXCEPT ![w] = k]
    /\ rec' = [rec EXCEPT ![w] = NewRecord(p, ttl, disposable)]
    /\ date' = [date EXCEPT ![w] = DateFromTTL(ttl)]
    /\ Goto(w, IF o = "custom" THEN "requested" ELSE "generate")
    /\ status' = [status EXCEPT ![p] = "sent"]
    /\ terms' = [terms EXCEPT ![p] = [ttl |-> ttl, disposable |-> disposable]]
    /\ life' = [life EXCEPT ![p] = ttl]
    /\ UNCHANGED <<redis, arm, home, served>>

\* getRecordKey: EXISTS of the requested key.
Requested(w) ==
    /\ pc[w] = "requested"
    /\ \/ hash[key[w]] # Absent /\ Refuse(w)
       \/ /\ hash[key[w]] = Absent
          /\ home' = [home EXCEPT ![rec[w].body] = key[w]]
          /\ Goto(w, "prepare")
          /\ UNCHANGED <<locals, status, terms, life, served>>
    /\ UNCHANGED redis

\* GenerateUniqueKey: the EXISTS that finds a random key unused, ...
Generate(w, k) ==
    /\ pc[w] = "generate"
    /\ hash[k] = Absent
    /\ key' = [key EXCEPT ![w] = k]
    /\ home' = [home EXCEPT ![rec[w].body] = k]
    /\ Goto(w, "prepare")
    /\ UNCHANGED <<redis, op, rec, date, arm, status, terms, life, served>>

\* ... or one collision after the other up to the maximal length.
KeysExhausted(w) ==
    /\ pc[w] = "generate"
    /\ \E k \in Keys : hash[k] # Absent
    /\ Refuse(w)
    /\ UNCHANGED redis

\* Mutant: a refused post takes its record back.
QuotaVerdictCleaning(w) ==
    /\ pc[w] = "quota"
    /\ \/ Accept(w) /\ UNCHANGED redis
       \/ /\ Refuse(w)
          /\ hash' = [hash EXCEPT ![key[w]] = Absent]
          /\ exp' = [exp EXCEPT ![key[w]] = 0]

\* The verdict of manageQuota (module Quota); the record stays either way.
QuotaVerdict(w) ==
    /\ pc[w] = "quota"
    /\ Accept(w) \/ Refuse(w)
    /\ UNCHANGED redis

-----------------------------------------------------------------------------
(* SetByKey, which both end in *)

\* The hash is filled in: the clock is read for the ttl that is left.
Prepare(w) ==
    /\ pc[w] = "prepare"
    /\ rec' = [rec EXCEPT ![w] = WithTTL(rec[w], Until(date[w]))]
    /\ Goto(w, "hset")
    /\ UNCHANGED <<redis, op, key, date, arm, clients>>

\* Mutant: a reader relies on the expiry that the key had when it was read.
HSetUnarmed(w) ==
    /\ pc[w] = "hset"
    /\ SetHash(key[w], rec[w])
    /\ \/ (date[w].eternal \/ op[w] = "get") /\ Stored(w)
       \/ ~date[w].eternal /\ op[w] # "get" /\ Goto(w, "arm") /\ UNCHANGED <<locals, clients>>

HSet(w) ==
    /\ pc[w] = "hset"
    /\ SetHash(key[w], rec[w])
    /\ \/ date[w].eternal /\ Stored(w)
       \/ ~date[w].eternal /\ Goto(w, "arm") /\ UNCHANGED <<locals, clients>>

\* For EXPIRE the clock is read once more.
Arm(w) ==
    /\ pc[w] = "arm"
    /\ arm' = [arm EXCEPT ![w] = FormatSec(Until(date[w]))]
    /\ Goto(w, "expire")
    /\ UNCHANGED <<redis, op, key, rec, date, clients>>

Expire(w) ==
    /\ pc[w] = "expire"
    /\ SetExpiry(key[w], arm[w])
    /\ Stored(w)

-----------------------------------------------------------------------------
(* Failures *)

\* Redis executes a write, its answer is lost, go-redis sends it again.
HSetUnacked(w) ==
    /\ "retry" \in Faults
    /\ pc[w] = "hset"
    /\ SetHash(key[w], rec[w])
    /\ UNCHANGED <<pc, locals, clients>>

ExpireUnacked(w) ==
    /\ "retry" \in Faults
    /\ pc[w] = "expire"
    /\ SetExpiry(key[w], arm[w])
    /\ UNCHANGED <<pc, locals, clients>>

Commands == {"exists", "hgetall", "requested", "generate", "hset", "expire", "quota"}

\* A command fails, or the context is over: every caller returns the error.
Fail(w) ==
    /\ "error" \in Faults
    /\ pc[w] \in Commands
    /\ Refuse(w)
    /\ UNCHANGED redis

\* The process dies and is started again; Redis goes on.
Crash ==
    /\ "crash" \in Faults
    /\ pc' = [w \in Workers |-> "idle"]
    /\ op' = [w \in Workers |-> "get"]
    /\ key' = [w \in Workers |-> NoKey]
    /\ rec' = [w \in Workers |-> ZeroRecord(NoBody)]
    /\ date' = [w \in Workers |-> NoDate]
    /\ arm' = [w \in Workers |-> 0]
    /\ status' = [p \in Pastes |-> IF status[p] = "sent" THEN "refused" ELSE status[p]]
    /\ UNCHANGED <<redis, home, terms, life, served>>

-----------------------------------------------------------------------------
(* The specification *)

Init ==
    /\ hash = [k \in Keys |-> Absent]
    /\ exp = [k \in Keys |-> 0]
    /\ pc = [w \in Workers |-> "idle"]
    /\ op = [w \in Workers |-> "get"]
    /\ key = [w \in Workers |-> NoKey]
    /\ rec = [w \in Workers |-> ZeroRecord(NoBody)]
    /\ date = [w \in Workers |-> NoDate]
    /\ arm = [w \in Workers |-> 0]
    /\ status = [p \in Pastes |-> "unsent"]
    /\ home = [p \in Pastes |-> NoKey]
    /\ terms = [p \in Pastes |-> [ttl |-> 0, disposable |-> 0]]
    /\ life = [p \in Pastes |-> 0]
    /\ served = [p \in Pastes |-> 0]

Start(w) ==
    \/ \E o \in Ops, k \in Keys : ReadStart(w, o, k)
    \/ \E p \in Pastes, o \in Ops, k \in Keys \cup {NoKey}, t \in TTLs, d \in Disposables :
          PostStart(w, p, o, k, t, d)

\* What a request does when nothing goes wrong with it.
Proceed(w) ==
    \/ Exists(w) \/ HGetAll(w) \/ Load(w) \/ GetBody(w)
    \/ Requested(w) \/ KeysExhausted(w) \/ QuotaVerdict(w)
    \/ Prepare(w) \/ HSet(w) \/ Arm(w) \/ Expire(w)
    \/ \E k \in Keys : Generate(w, k)

Fault(w) == HSetUnacked(w) \/ ExpireUnacked(w) \/ Fail(w)

Next ==
    \/ Tick
    \/ Crash
    \/ \E w \in Workers : Start(w) \/ Proceed(w) \/ Fault(w)

Spec == Init /\ [][Next]_vars

\* Time does not stop, and the scheduler and Redis serve every request.
Fairness == WF_vars(Tick) /\ \A w \in Workers : WF_vars(Proceed(w))

FairSpec == Spec /\ Fairness

-----------------------------------------------------------------------------
(* Properties *)

Labels == Commands \cup {"idle", "load", "body", "prepare", "arm"}

Dates == [left : Int, eternal : BOOLEAN]

\* Every variable holds a value of the shape the code gives it; a date that has
\* passed is -1, whatever passed with it.
TypeOK ==
    /\ hash \in [Keys -> HashRecords \cup {Absent}]
    /\ exp \in [Keys -> Nat]
    /\ pc \in [Workers -> Labels]
    /\ op \in [Workers -> AllOps]
    /\ key \in [Workers -> Keys \cup {NoKey}]
    /\ rec \in [Workers -> HashRecords]
    /\ date \in [Workers -> Dates]
    /\ arm \in [Workers -> Int]
    /\ status \in [Pastes -> {"unsent", "sent", "accepted", "refused"}]
    /\ home \in [Pastes -> Keys \cup {NoKey}]
    /\ terms \in [Pastes -> [ttl : TTLs \cup {0}, disposable : Disposables \cup {0}]]
    /\ life \in [Pastes -> Nat]
    /\ served \in [Pastes -> Nat]

IsStored(p, k) == hash[k] # Absent /\ hash[k].body = p

\* Redis only ever holds what a POST sent to that very key.  In particular a
\* record that vanishes between the EXISTS and the HGETALL of a reader, whose
\* fields are then all zero, is never written back as an empty record.
StoredGenuine ==
    \A k \in Keys : hash[k] # Absent =>
        hash[k].body \in Pastes /\ home[hash[k].body] = k

Balanced(r) ==
    /\ r.eternal <=> ~Limited(r.body)
    /\ Limited(r.body) => r.clicks + r.countdown = terms[r.body].disposable

StoredBalanced == \A k \in Keys : hash[k] # Absent => Balanced(hash[k])

InHandBalanced == \A w \in Workers : rec[w].body # NoBody => Balanced(rec[w])

\* The two counters of a disposable record move together, stored and in the
\* hands of any number of concurrent readers: a click is worth one unit of the
\* countdown, and neither is created, lost or wrapped on its own.
Conservation == StoredBalanced /\ InHandBalanced

\* Nothing that could still be read is left of paste p: what is stored is
\* exhausted, and so is every copy a reader took.
Spent(p) ==
    /\ Limited(p)
    /\ \A k \in Keys : IsStored(p, k) => CounterExhausted(hash[k])
    /\ \A w \in Workers : rec[w].body = p =>
          CounterExhausted(rec[w]) /\ pc[w] \in {"load", "body"}

\* Once no readable copy is left, stored or in flight, there never is one again
\* and no reader gets the body, whatever races, retries, failures and crashes.
ExhaustionIsFinal ==
    [][\A p \in Pastes : Spent(p) => Spent(p)' /\ served'[p] = served[p]]_vars

\* No POST that was given key k comes to the last second of its lifetime.
Running(k) == \A p \in Pastes : home[p] = k => (Mortal(p) => life[p] >= Second)

\* A POST that was given key k has been read as often as it allowed: from then on
\* nobody is promised that its record stays (nor does the code remove it).
ReadOut(k) ==
    \E p \in Pastes : home[p] = k /\ Limited(p) /\ served[p] >= terms[p].disposable

\* The promise of the ttl parameter to the poster: once a POST was answered with
\* 201 its key is not empty before the last second of its lifetime, and never when
\* the ttl is 0.  Readers rewrite the record and its expiry all the time, and die
\* in the middle of it.  A key that was looked up by two POSTs and given to both
\* keeps one of the two records until the shorter lifetime is over.
KeptUntilPromised ==
    \A p \in Pastes :
        status[p] = "accepted" /\ Running(home[p]) /\ ~ReadOut(home[p])
            => \E q \in Pastes : home[q] = home[p] /\ IsStored(q, home[p])

\* However often readers push an expiry back, race, fail and retry, a key of Redis
\* never has longer to live than the ttl of a POST it was given to, or the one
\* second that is the least go-redis can ask for: a paste that nobody reads any
\* more is gone after one ttl.
ExpiryWithinTTL ==
    \A k \in Keys : exp[k] # 0 =>
        \E p \in Pastes : /\ home[p] = k /\ Mortal(p)
                          /\ exp[k] <= terms[p].ttl \/ exp[k] <= Second

\* A record with a ttl that has no expiry in Redis is about to get one: the
\* window between HSET and EXPIRE stays open only while a worker is in it.
\* (As long as commands do not fail and the process does not die.)
ExpiryArmed ==
    \A k \in Keys :
        hash[k] # Absent /\ Mortal(hash[k].body) /\ exp[k] = 0 =>
            \E w \in Workers : /\ key[w] = k /\ ~date[w].eternal
                               /\ pc[w] \in {"hset", "arm", "expire"}

\* Every request is answered.
EveryRequestAnswered == \A w \in Workers : pc[w] # "idle" ~> pc[w] = "idle"

\* A paste with a ttl that nobody reads any more disappears from Redis.
UnreadDisappears ==
    \A p \in Pastes :
        <>[](Mortal(p) /\ \A w \in Workers : key[w] # home[p] /\ rec[w].body # p)
            => <>[](\A k \in Keys : ~IsStored(p, k))

-----------------------------------------------------------------------------
(* The inductive invariant *)

\* What a worker has at hand at each of its steps.
Phases ==
    \A w \in Workers :
        /\ pc[w] = "idle" => op[w] = "get" /\ key[w] = NoKey
        /\ pc[w] \in {"idle", "exists", "hgetall"} => rec[w] = ZeroRecord(NoBody)
        /\ pc[w] \in {"exists", "hgetall", "load"} => op[w] \in {"get", "clicks"}
        /\ pc[w] = "body" => op[w] = "get"
        /\ pc[w] \in {"requested", "generate", "quota"} => op[w] \in Posts
        /\ pc[w] \in {"prepare", "hset", "arm", "expire"} => op[w] # "clicks"
        /\ pc[w] \notin {"idle", "generate"} => key[w] \in Keys
        /\ op[w] \in Posts \/ pc[w] \in {"prepare", "hset", "arm", "expire"}
              => rec[w].body \in Pastes
        /\ rec[w].body = NoBody => rec[w] = ZeroRecord(NoBody)

\* A POST is in one pair of hands; it is given one key; nobody else has its body
\* before that, and everybody who has it is working on that key.
Postings ==
    /\ \A p \in Pastes : status[p] = "unsent" => home[p] = NoKey
    /\ \A w \in Workers : op[w] \in Posts => status[rec[w].body] = "sent"
    /\ \A v, w \in Workers :
          op[v] \in Posts /\ op[w] \in Posts /\ rec[v].body = rec[w].body => v = w
    /\ \A w \in Workers :
          pc[w] \in {"requested", "generate"} => home[rec[w].body] = NoKey
    /\ \A w \in Workers :
          rec[w].body # NoBody /\ pc[w] \notin {"requested", "generate"} =>
              home[rec[w].body] = key[w]

\* TypeOK, StoredGenuine and Conservation hold because of what workers have at
\* hand; this conjunction is inductive.
IInv == TypeOK /\ Phases /\ Postings /\ StoredGenuine /\ Conservation
-----------------------------------------------------------------------------
(* Why promises are kept *)

\* What is known of a paste covers what is left of its lifetime: a stored ttl,
\* in which 0 stands for eternal; a date in hand; the seconds of an EXPIRE; and the
\* expiry of a key.
TTLCovers(p, ttl) == ttl = 0 \/ (Mortal(p) /\ (life[p] > 0 => ttl >= life[p]))
DateCovers(p, d) == d.eternal \/ (Mortal(p) /\ (life[p] > 0 => d.left >= life[p]))
SecondsCover(p, s) == life[p] > 0 => s > 0 /\ s * Second + Second > life[p]
ExpiryCovers(p, e) == Mortal(p) /\ e + Second > life[p]

HandCovers(w) ==
    /\ rec[w].body # NoBody =>
          /\ TTLCovers(rec[w].body, rec[w].ttl)
          /\ pc[w] # "load" => DateCovers(rec[w].body, date[w])
    /\ pc[w] \in {"arm", "expire"} => ~date[w].eternal
    /\ pc[w] = "expire" => SecondsCover(rec[w].body, arm[w])

HandsCover == \A w \in Workers : HandCovers(w)

\* The expiry of a key covers one of the POSTs that it was given to.
StoreCovers ==
    /\ \A k \in Keys : hash[k] # Absent => TTLCovers(hash[k].body, hash[k].ttl)
    /\ \A k \in Keys : hash[k] = Absent => exp[k] = 0
    /\ \A k \in Keys : exp[k] # 0 =>
          \E p \in Pastes : home[p] = k /\ ExpiryCovers(p, exp[k])

\* A record of p was written, whether the poster has been told or is about to be.
Written(p) ==
    \/ status[p] = "accepted"
    \/ \E w \in Workers : /\ op[w] \in Posts /\ rec[w].body = p
                          /\ pc[w] \in {"arm", "expire", "quota"}

WrittenStays ==
    \A p \in Pastes : Written(p) =>
        home[p] \in Keys /\ (Running(home[p]) /\ ~ReadOut(home[p]) => hash[home[p]] # Absent)

\* With IInv, inductive: why KeptUntilPromised holds.
PromiseInv == HandsCover /\ StoreCovers /\ WrittenStays
=============================================================================
