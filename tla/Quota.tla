-------------------------------- MODULE Quota -------------------------------
(***************************************************************************)
(* The quota of posters without an API key: CacheService.serveUnprivileged *)
(* and manageQuota over RedisQuotaRepository.  Redis keeps one hash for    *)
(* each source address, with the number of posts that are left; the key    *)
(* expires QuotaResetPeriod after it was written last.                     *)
(*                                                                         *)
(* Reading takes two commands and writing one script, and the record of    *)
(* the post is in Redis before its quota is looked at.  Records models     *)
(* those first steps of the handler; here they are the one step Record.    *)
(***************************************************************************)
EXTENDS Integers

CONSTANTS
    IPs,          \* source addresses
    Workers,      \* goroutines serving posts
    QuotaConfig,  \* DefaultQuotaConfig.Quota
    ResetPeriod,  \* DefaultQuotaConfig.QuotaResetPeriod, in ticks
    Faults,       \* what may go wrong: a subset of {"error", "retry", "crash"}
    MaxPosts,     \* bound: an address stops posting when it is charged so many
    NoIP, Absent

ASSUME QuotaConfigAssumption == QuotaConfig \in Nat \ {0}
ASSUME ResetPeriodAssumption == ResetPeriod \in Nat \ {0}
ASSUME QuotaFaultsAssumption == Faults \subseteq {"error", "retry", "crash"}
ASSUME MaxPostsAssumption == MaxPosts \in Nat
ASSUME NoIPAssumption == NoIP \notin IPs
ASSUME QuotaAbsentAssumption == Absent \notin Nat

VARIABLES
    value,    \* Redis: the posts an address has left, or Absent
    left,     \* Redis: ticks until that key expires, 0 when it is absent
    pc,       \* where a worker is
    ip,       \* the source address it serves
    quota,    \* the value of the Quota aggregate in its hands
    \* What the address knows, for the properties only:
    charged,  \* posts accepted since its key was last absent
    raced     \* whether two of its posts were in flight at once since then

redis == <<value, left>>
locals == <<ip, quota>>
clients == <<charged, raced>>
vars == <<redis, pc, locals, clients>>

-----------------------------------------------------------------------------
(* The Quota aggregate *)

\* Mutant: the aggregate drops what Quota.Sub returns.
SubNowhere(q) == q

\* Mutant: an unsigned counter (of 16 bits) without the check for zero.
SubWrapping(q) == (q - 1) % (2 ^ 16)

Sub(q) == IF q = 0 THEN q ELSE q - 1

\* Mutant: one post too many.
ExhaustedLate(q) == q < 0

Exhausted(q) == q < 1

-----------------------------------------------------------------------------
(* Steps of a request *)

Goto(w, label) == pc' = [pc EXCEPT ![w] = label]

Done(w) ==
    /\ Goto(w, "idle")
    /\ ip' = [ip EXCEPT ![w] = NoIP]
    /\ quota' = [quota EXCEPT ![w] = 0]

Start(w, i) ==
    /\ pc[w] = "idle"
    /\ charged[i] < MaxPosts
    /\ Goto(w, "record")
    /\ ip' = [ip EXCEPT ![w] = i]
    /\ raced' = [raced EXCEPT ![i] = @ \/ \E v \in Workers : ip[v] = i]
    /\ UNCHANGED <<redis, quota, charged>>

\* GenerateUniqueKey and SetByKey: the record is stored, whatever follows, or
\* every key that is tried is in use and the post is answered with 500.
Record(w) ==
    /\ pc[w] = "record"
    /\ \/ Goto(w, "exists") /\ UNCHANGED locals
       \/ Done(w)
    /\ UNCHANGED <<redis, clients>>

\* GetByID asks EXISTS; ErrQuotaNotFound makes manageQuota start a new quota.
Exists(w) ==
    /\ pc[w] = "exists"
    /\ \/ /\ value[ip[w]] = Absent
          /\ quota' = [quota EXCEPT ![w] = QuotaConfig]
          /\ Goto(w, "manage")
       \/ /\ value[ip[w]] # Absent
          /\ Goto(w, "hgetall")
          /\ UNCHANGED quota
    /\ UNCHANGED <<redis, ip, clients>>

\* HGETALL of a key that has expired meanwhile scans into the value 0.
HGetAll(w) ==
    /\ pc[w] = "hgetall"
    /\ quota' = [quota EXCEPT ![w] =
                   IF value[ip[w]] = Absent THEN 0 ELSE value[ip[w]]]
    /\ Goto(w, "manage")
    /\ UNCHANGED <<redis, ip, clients>>

\* Mutant: two commands instead of a script, and the second one is lost.
SetQuotaTorn(i, q) ==
    /\ value' = [value EXCEPT ![i] = q]
    /\ UNCHANGED left

\* SetByID runs a script: HSET and EXPIRE in one atomic step.
SetQuota(i, q) ==
    /\ value' = [value EXCEPT ![i] = q]
    /\ left' = [left EXCEPT ![i] = ResetPeriod]

\* Mutant: a refused post is written back, too, and so renews the expiry.
ManageRenewing(w) ==
    /\ pc[w] = "manage"
    /\ \/ Exhausted(Sub(quota[w])) /\ SetQuota(ip[w], quota[w]) /\ Done(w)
       \/ /\ ~Exhausted(Sub(quota[w]))
          /\ quota' = [quota EXCEPT ![w] = Sub(@)]
          /\ Goto(w, "eval")
          /\ UNCHANGED <<redis, ip>>
    /\ UNCHANGED clients

\* manageQuota: subtract, and either answer 403 and leave Redis as it is ...
Manage(w) ==
    /\ pc[w] = "manage"
    /\ \/ Exhausted(Sub(quota[w])) /\ Done(w)
       \/ /\ ~Exhausted(Sub(quota[w]))
          /\ quota' = [quota EXCEPT ![w] = Sub(@)]
          /\ Goto(w, "eval")
          /\ UNCHANGED ip
    /\ UNCHANGED <<redis, clients>>

\* ... or write the quota and answer 201.
Eval(w) ==
    /\ pc[w] = "eval"
    /\ SetQuota(ip[w], quota[w])
    /\ charged' = [charged EXCEPT ![ip[w]] = @ + 1]
    /\ UNCHANGED raced
    /\ Done(w)

-----------------------------------------------------------------------------
(* Time and failures *)

Due(i) == left[i] = 1

Crowded(i) == \E v, w \in Workers : v # w /\ ip[v] = i /\ ip[w] = i

\* Redis drops the quotas that are due.
Tick ==
    /\ value' = [i \in IPs |-> IF Due(i) THEN Absent ELSE value[i]]
    /\ left' = [i \in IPs |-> IF left[i] = 0 THEN 0 ELSE left[i] - 1]
    /\ charged' = [i \in IPs |-> IF Due(i) THEN 0 ELSE charged[i]]
    /\ raced' = [i \in IPs |-> IF Due(i) THEN Crowded(i) ELSE raced[i]]
    /\ UNCHANGED <<pc, locals>>

\* Redis runs the script, its answer is lost, go-redis sends it again.
EvalUnacked(w) ==
    /\ "retry" \in Faults
    /\ pc[w] = "eval"
    /\ SetQuota(ip[w], quota[w])
    /\ UNCHANGED <<pc, locals, clients>>

\* A command fails; the post is answered with 500.
Fail(w) ==
    /\ "error" \in Faults
    /\ pc[w] \in {"record", "exists", "hgetall", "eval"}
    /\ Done(w)
    /\ UNCHANGED <<redis, clients>>

Crash ==
    /\ "crash" \in Faults
    /\ pc' = [w \in Workers |-> "idle"]
    /\ ip' = [w \in Workers |-> NoIP]
    /\ quota' = [w \in Workers |-> 0]
    /\ UNCHANGED <<redis, clients>>

Init ==
    /\ value = [i \in IPs |-> Absent]
    /\ left = [i \in IPs |-> 0]
    /\ pc = [w \in Workers |-> "idle"]
    /\ ip = [w \in Workers |-> NoIP]
    /\ quota = [w \in Workers |-> 0]
    /\ charged = [i \in IPs |-> 0]
    /\ raced = [i \in IPs |-> FALSE]

Proceed(w) == Record(w) \/ Exists(w) \/ HGetAll(w) \/ Manage(w) \/ Eval(w)

Next ==
    \/ Tick
    \/ Crash
    \/ \E w \in Workers : \/ \E i \in IPs : Start(w, i)
                          \/ Proceed(w) \/ EvalUnacked(w) \/ Fail(w)

Spec == Init /\ [][Next]_vars

Fairness == WF_vars(Tick) /\ \A w \in Workers : WF_vars(Proceed(w))

FairSpec == Spec /\ Fairness

-----------------------------------------------------------------------------
(* Properties *)

Labels == {"idle", "record", "exists", "hgetall", "manage", "eval"}

\* Every variable holds a value of the shape the code gives it.
TypeOK ==
    /\ value \in [IPs -> Nat \cup {Absent}]
    /\ left \in [IPs -> 0 .. ResetPeriod]
    /\ pc \in [Workers -> Labels]
    /\ ip \in [Workers -> IPs \cup {NoIP}]
    /\ quota \in [Workers -> 0 .. QuotaConfig]
    /\ charged \in [IPs -> Nat]
    /\ raced \in [IPs -> BOOLEAN]

\* A stored quota has posts left and an expiry, whatever fails: the post that
\* would use it up is refused before it is written, and the script leaves no
\* moment between HSET and EXPIRE.  So no address is locked out for ever.
StoredCanEnd ==
    \A i \in IPs : /\ value[i] # Absent => value[i] \in 1 .. (QuotaConfig - 1)
                   /\ value[i] = Absent <=> left[i] = 0

\* The last unit is stored and no request in flight knows better.
Drained(i) ==
    /\ value[i] = 1
    /\ \A w \in Workers : ip[w] = i =>
          \/ pc[w] \in {"record", "exists", "hgetall"}
          \/ pc[w] = "manage" /\ quota[w] <= 1

\* From there on no post of the address is accepted before its key has expired,
\* however many requests it sends at once.
DrainedUntilReset ==
    [][\A i \in IPs : Drained(i) /\ value'[i] # Absent =>
          Drained(i)' /\ charged'[i] = charged[i]]_vars

\* An address whose posts come one at a time has paid a unit of the quota for each
\* that was accepted, whatever fails, is sent twice or expires in the middle of it:
\* no more are accepted than the quota allows.  (Posts in flight at once may share
\* a unit.)
NotOverdrawn ==
    \A i \in IPs : ~raced[i] /\ value[i] # Absent => charged[i] + value[i] <= QuotaConfig

\* Refused posts do not keep the quota alive: an address whose last unit is
\* stored can post again sooner or later, even if it never stops trying.
LockoutEnds == \A i \in IPs : value[i] = 1 ~> value[i] # 1
=============================================================================
