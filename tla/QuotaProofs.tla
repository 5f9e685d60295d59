---------------------------- MODULE QuotaProofs -----------------------------
(***************************************************************************)
(* Theorems about Quota for every number of addresses and workers, every   *)
(* quota and reset period, and all faults.                                 *)
(*                                                                         *)
(* What the script writes was read, subtracted and tested by a worker      *)
(* before, so the invariant must say what workers have in their hands.     *)
(***************************************************************************)
EXTENDS Quota, TLAPS

\* A worker has an address while it serves a post; a quota that is about to be
\* written has passed the test of manageQuota.
InHand ==
    \A w \in Workers :
        /\ pc[w] # "idle" => ip[w] \in IPs
        /\ pc[w] = "idle" => ip[w] = NoIP
        /\ pc[w] = "eval" => quota[w] \in 1 .. (QuotaConfig - 1)

QInv == TypeOK /\ StoredCanEnd /\ InHand

-----------------------------------------------------------------------------
(* The parts of a step *)

\* A post that manageQuota lets through costs one unit and leaves at least one.
LEMMA SubTested ==
    ASSUME NEW q \in 0 .. QuotaConfig
    PROVE  /\ Sub(q) \in 0 .. QuotaConfig
           /\ ~Exhausted(Sub(q)) => Sub(q) \in 1 .. (QuotaConfig - 1) /\ q > 1
BY QuotaConfigAssumption DEF Sub, Exhausted

\* The script keeps what is stored in shape.
LEMMA SetQuotaKeeps ==
    ASSUME QInv, NEW i \in IPs, NEW q \in 1 .. (QuotaConfig - 1), SetQuota(i, q)
    PROVE  /\ value' \in [IPs -> Nat \cup {Absent}]
           /\ left' \in [IPs -> 0 .. ResetPeriod]
           /\ StoredCanEnd'
<1>1. q \in Nat /\ q # Absent
  BY QuotaConfigAssumption, QuotaAbsentAssumption
<1>2. value' \in [IPs -> Nat \cup {Absent}] /\ left' \in [IPs -> 0 .. ResetPeriod]
  BY <1>1, ResetPeriodAssumption DEF SetQuota, QInv, TypeOK
<1>3. \A j \in IPs : /\ value'[j] = IF j = i THEN q ELSE value[j]
                     /\ left'[j] = IF j = i THEN ResetPeriod ELSE left[j]
  BY DEF SetQuota, QInv, TypeOK
<1>4. StoredCanEnd'
  BY <1>1, <1>3, ResetPeriodAssumption DEF QInv, StoredCanEnd
<1> QED  BY <1>2, <1>4

\* A step of one worker that leaves Redis as it is.
LEMMA WorkerKeeps ==
    ASSUME QInv, NEW w \in Workers, UNCHANGED <<redis, charged>>,
           raced' \in [IPs -> BOOLEAN],
           NEW l \in Labels, pc' = [pc EXCEPT ![w] = l],
           NEW i \in IPs \cup {NoIP}, ip' = [ip EXCEPT ![w] = i],
           NEW q \in 0 .. QuotaConfig, quota' = [quota EXCEPT ![w] = q],
           IF l = "idle" THEN i = NoIP ELSE i \in IPs,
           l = "eval" => q \in 1 .. (QuotaConfig - 1)
    PROVE  QInv'
<1>1. TypeOK'
  BY DEF QInv, TypeOK, redis
<1>2. StoredCanEnd'
  BY DEF QInv, StoredCanEnd, redis
<1>3. InHand'
  BY DEF QInv, TypeOK, InHand
<1> QED  BY <1>1, <1>2, <1>3 DEF QInv

LEMMA DoneKeeps ==
    ASSUME QInv, NEW w \in Workers, Done(w), UNCHANGED <<redis, clients>>
    PROVE  QInv'
<1>1. 0 \in 0 .. QuotaConfig /\ "idle" \in Labels /\ raced' \in [IPs -> BOOLEAN]
  BY QuotaConfigAssumption DEF Labels, QInv, TypeOK, clients
<1> QED  BY <1>1, WorkerKeeps DEF Done, Goto, clients

-----------------------------------------------------------------------------
(* The steps *)

LEMMA StartKeeps ==
    ASSUME QInv, NEW w \in Workers, NEW i \in IPs, Start(w, i)
    PROVE  QInv'
<1>1. "record" \in Labels /\ quota[w] \in 0 .. QuotaConfig
      /\ quota' = [quota EXCEPT ![w] = quota[w]] /\ raced' \in [IPs -> BOOLEAN]
  BY DEF Start, QInv, TypeOK, Labels
<1> QED  BY <1>1, WorkerKeeps DEF Start, Goto

LEMMA RecordKeeps ==
    ASSUME QInv, NEW w \in Workers, Record(w)
    PROVE  QInv'
<1>1. CASE Done(w)
  BY <1>1, DoneKeeps DEF Record
<1>2. CASE Goto(w, "exists") /\ UNCHANGED locals
  <2>1. /\ "exists" \in Labels /\ quota[w] \in 0 .. QuotaConfig /\ ip[w] \in IPs
        /\ quota' = [quota EXCEPT ![w] = quota[w]] /\ ip' = [ip EXCEPT ![w] = ip[w]]
        /\ raced' \in [IPs -> BOOLEAN]
    BY <1>2 DEF Record, QInv, TypeOK, InHand, Labels, locals, clients
  <2> QED  BY <1>2, <2>1, WorkerKeeps DEF Record, Goto, clients
<1> QED  BY <1>1, <1>2 DEF Record

LEMMA ExistsKeeps ==
    ASSUME QInv, NEW w \in Workers, Exists(w)
    PROVE  QInv'
<1>1. /\ "manage" \in Labels /\ "hgetall" \in Labels /\ ip[w] \in IPs
      /\ QuotaConfig \in 0 .. QuotaConfig /\ quota[w] \in 0 .. QuotaConfig
      /\ raced' \in [IPs -> BOOLEAN]
  BY QuotaConfigAssumption DEF Exists, QInv, TypeOK, InHand, Labels, clients
<1>2. /\ UNCHANGED <<redis, charged>>
      /\ ip' = [ip EXCEPT ![w] = ip[w]]
      /\ \/ /\ quota' = [quota EXCEPT ![w] = QuotaConfig]
            /\ pc' = [pc EXCEPT ![w] = "manage"]
         \/ /\ quota' = [quota EXCEPT ![w] = quota[w]]
            /\ pc' = [pc EXCEPT ![w] = "hgetall"]
  BY DEF Exists, Goto, QInv, TypeOK, clients
<1>3. CASE pc' = [pc EXCEPT ![w] = "manage"] /\ quota' = [quota EXCEPT ![w] = QuotaConfig]
  BY <1>1, <1>2, <1>3, WorkerKeeps
<1>4. CASE pc' = [pc EXCEPT ![w] = "hgetall"] /\ quota' = [quota EXCEPT ![w] = quota[w]]
  BY <1>1, <1>2, <1>4, WorkerKeeps
<1> QED  BY <1>2, <1>3, <1>4

LEMMA HGetAllKeeps ==
    ASSUME QInv, NEW w \in Workers, HGetAll(w)
    PROVE  QInv'
<1> DEFINE q == IF value[ip[w]] = Absent THEN 0 ELSE value[ip[w]]
<1>1. /\ "manage" \in Labels /\ ip[w] \in IPs /\ ip' = [ip EXCEPT ![w] = ip[w]]
      /\ raced' \in [IPs -> BOOLEAN]
  BY DEF HGetAll, QInv, TypeOK, InHand, Labels, clients
<1>2. q \in 0 .. QuotaConfig
  <2>1. CASE value[ip[w]] = Absent
    BY <2>1, QuotaConfigAssumption
  <2>2. CASE value[ip[w]] # Absent
    BY <1>1, <2>2, QuotaConfigAssumption DEF QInv, StoredCanEnd
  <2> QED  BY <2>1, <2>2
<1>3. /\ UNCHANGED <<redis, charged>>
      /\ quota' = [quota EXCEPT ![w] = q] /\ pc' = [pc EXCEPT ![w] = "manage"]
  BY DEF HGetAll, Goto, clients
<1> HIDE DEF q
<1> QED  BY <1>1, <1>2, <1>3, WorkerKeeps

LEMMA ManageKeeps ==
    ASSUME QInv, NEW w \in Workers, Manage(w)
    PROVE  QInv'
<1>1. CASE Done(w)
  BY <1>1, DoneKeeps DEF Manage
<1>2. CASE ~Done(w)
  <2>1. /\ "eval" \in Labels /\ ip[w] \in IPs /\ ip' = [ip EXCEPT ![w] = ip[w]]
        /\ quota[w] \in 0 .. QuotaConfig /\ raced' \in [IPs -> BOOLEAN]
    BY <1>2 DEF Manage, QInv, TypeOK, InHand, Labels, clients
  <2>2. Sub(quota[w]) \in 0 .. QuotaConfig /\ Sub(quota[w]) \in 1 .. (QuotaConfig - 1)
    BY <1>2, <2>1, SubTested DEF Manage
  <2>3. quota' = [quota EXCEPT ![w] = Sub(quota[w])]
    BY <1>2 DEF Manage
  <2> QED  BY <1>2, <2>1, <2>2, <2>3, WorkerKeeps DEF Manage, Goto, clients
<1> QED  BY <1>1, <1>2

LEMMA EvalKeeps ==
    ASSUME QInv, NEW w \in Workers, Eval(w) \/ EvalUnacked(w)
    PROVE  QInv'
<1>1. ip[w] \in IPs /\ quota[w] \in 1 .. (QuotaConfig - 1)
  BY DEF Eval, EvalUnacked, QInv, InHand
<1>2. /\ value' \in [IPs -> Nat \cup {Absent}]
      /\ left' \in [IPs -> 0 .. ResetPeriod]
      /\ StoredCanEnd'
  BY <1>1, SetQuotaKeeps DEF Eval, EvalUnacked
<1>3. TypeOK'
  BY <1>1, <1>2, QuotaConfigAssumption
     DEF Eval, EvalUnacked, Done, Goto, QInv, TypeOK, Labels, locals, clients
<1>4. InHand'
  BY DEF Eval, EvalUnacked, Done, Goto, QInv, TypeOK, InHand, locals
<1> QED  BY <1>2, <1>3, <1>4 DEF QInv

LEMMA TickKeeps ==
    ASSUME QInv, Tick
    PROVE  QInv'
<1>1. TypeOK'
  <2>1. raced' \in [IPs -> BOOLEAN]
    <3>1. ASSUME NEW i \in IPs
          PROVE  (IF Due(i) THEN Crowded(i) ELSE raced[i]) \in BOOLEAN
      BY Zenon DEF QInv, TypeOK, Crowded
    <3> QED  BY <3>1 DEF Tick
  <2> QED  BY <2>1, ResetPeriodAssumption DEF Tick, QInv, TypeOK, locals
<1>2. StoredCanEnd'
  <2> SUFFICES ASSUME NEW i \in IPs
               PROVE  /\ value'[i] # Absent => value'[i] \in 1 .. (QuotaConfig - 1)
                      /\ value'[i] = Absent <=> left'[i] = 0
    BY DEF StoredCanEnd
  <2>1. left[i] \in 0 .. ResetPeriod
    BY DEF QInv, TypeOK
  <2>2. /\ value'[i] = IF left[i] = 1 THEN Absent ELSE value[i]
        /\ left'[i] = IF left[i] = 0 THEN 0 ELSE left[i] - 1
    BY DEF Tick, Due
  <2> QED  BY <2>1, <2>2, ResetPeriodAssumption DEF QInv, StoredCanEnd
<1>3. InHand'
  BY DEF Tick, QInv, InHand, locals
<1> QED  BY <1>1, <1>2, <1>3 DEF QInv

LEMMA CrashKeeps ==
    ASSUME QInv, Crash
    PROVE  QInv'
<1>1. TypeOK'
  BY QuotaConfigAssumption DEF Crash, QInv, TypeOK, Labels, redis, clients
<1>2. StoredCanEnd'
  BY DEF Crash, QInv, StoredCanEnd, redis
<1>3. InHand'
  BY DEF Crash, InHand
<1> QED  BY <1>1, <1>2, <1>3 DEF QInv

-----------------------------------------------------------------------------
(* The theorems *)

LEMMA InitInv == Init => QInv
BY QuotaConfigAssumption, ResetPeriodAssumption
   DEF Init, QInv, TypeOK, StoredCanEnd, InHand, Labels

LEMMA NextInv == QInv /\ [Next]_vars => QInv'
<1> SUFFICES ASSUME QInv, [Next]_vars PROVE QInv'
  OBVIOUS
<1>1. CASE Tick
  BY <1>1, TickKeeps
<1>2. CASE Crash
  BY <1>2, CrashKeeps
<1>3. ASSUME NEW w \in Workers, NEW i \in IPs, Start(w, i)
      PROVE  QInv'
  BY <1>3, StartKeeps
<1>4. ASSUME NEW w \in Workers, Proceed(w)
      PROVE  QInv'
  BY <1>4, RecordKeeps, ExistsKeeps, HGetAllKeeps, ManageKeeps, EvalKeeps DEF Proceed
<1>5. ASSUME NEW w \in Workers, EvalUnacked(w) \/ Fail(w)
      PROVE  QInv'
  BY <1>5, EvalKeeps, DoneKeeps DEF Fail
<1>6. CASE UNCHANGED vars
  BY <1>6 DEF vars, redis, locals, clients, QInv, TypeOK, StoredCanEnd, InHand
<1> QED  BY <1>1, <1>2, <1>3, <1>4, <1>5, <1>6 DEF Next

\* The invariant holds under every interleaving of posts, with failing commands,
\* repeated scripts and crashes of the server, for any quota and reset period.
THEOREM QuotaInvariant == Spec => []QInv
<1> QED  BY InitInv, NextInv, PTL DEF Spec

\* No address is locked out for ever: whatever quota is stored, by whichever
\* interleaving of posts, failures, repeated scripts and crashes, it has a unit
\* left and an expiry.
THEOREM QuotaCanEnd == Spec => []StoredCanEnd
<1>1. QInv => StoredCanEnd
  BY DEF QInv
<1> QED  BY <1>1, QuotaInvariant, PTL

\* A step of worker w that writes nothing to the drained quota of address i.
LEMMA DrainedKeeps ==
    ASSUME QInv, NEW i \in IPs, Drained(i), NEW w \in Workers,
           value'[i] = value[i],
           \A v \in Workers \ {w} :
              pc'[v] = pc[v] /\ ip'[v] = ip[v] /\ quota'[v] = quota[v],
           ip'[w] = i => \/ pc'[w] \in {"record", "exists", "hgetall"}
                         \/ pc'[w] = "manage" /\ quota'[w] <= 1
    PROVE  Drained(i)'
BY DEF Drained

\* Once the last unit of a quota is stored, and no post has seen a larger one,
\* no race of posts gets any of them accepted before the key has expired.
THEOREM DrainedStays == Spec => DrainedUntilReset
<1>1. ASSUME QInv, [Next]_vars, NEW i \in IPs, Drained(i), value'[i] # Absent
      PROVE  Drained(i)' /\ charged'[i] = charged[i]
  <2>1. CASE Tick
    BY <1>1, <2>1 DEF Tick, Drained, locals
  <2>2. CASE Crash
    BY <1>1, <2>2, NoIPAssumption DEF Crash, Drained, redis, clients
  <2>3. CASE UNCHANGED vars
    BY <1>1, <2>3 DEF vars, redis, locals, clients, Drained
  <2>4. ASSUME NEW w \in Workers,
               \/ \E j \in IPs : Start(w, j)
               \/ Record(w) \/ Exists(w) \/ HGetAll(w) \/ Manage(w) \/ Fail(w)
        PROVE  Drained(i)' /\ charged'[i] = charged[i]
    <3>1. UNCHANGED <<redis, charged>>
      BY <2>4 DEF Start, Record, Exists, HGetAll, Manage, Fail, clients
    <3>2. \A v \in Workers \ {w} :
             pc'[v] = pc[v] /\ ip'[v] = ip[v] /\ quota'[v] = quota[v]
      BY <1>1, <2>4 DEF Start, Record, Exists, HGetAll, Manage, Fail, Done, Goto,
                        locals, QInv, TypeOK
    <3>3. ASSUME ip'[w] = i
          PROVE  \/ pc'[w] \in {"record", "exists", "hgetall"}
                 \/ pc'[w] = "manage" /\ quota'[w] <= 1
      <4>1. ~Done(w)
        BY <1>1, <3>3, NoIPAssumption DEF Done, QInv, TypeOK
      <4>2. CASE \E j \in IPs : Start(w, j)
        BY <1>1, <4>2 DEF Start, Goto, QInv, TypeOK
      <4>3. CASE Record(w)
        BY <1>1, <4>1, <4>3 DEF Record, Goto, QInv, TypeOK
      <4>4. CASE Exists(w)
        BY <1>1, <3>3, <4>4, QuotaAbsentAssumption DEF Exists, Goto, Drained, QInv, TypeOK
      <4>5. CASE HGetAll(w)
        BY <1>1, <3>3, <4>5, QuotaAbsentAssumption DEF HGetAll, Goto, Drained, QInv, TypeOK
      <4>6. CASE Manage(w)
        <5>1. ip[w] = i /\ pc[w] = "manage" /\ ~Exhausted(Sub(quota[w]))
          BY <3>3, <4>1, <4>6 DEF Manage
        <5>2. quota[w] \in 0 .. QuotaConfig /\ quota[w] <= 1
          BY <1>1, <5>1 DEF Drained, QInv, TypeOK
        <5> QED  BY <5>1, <5>2, SubTested, QuotaConfigAssumption
      <4> QED  BY <2>4, <4>1, <4>2, <4>3, <4>4, <4>5, <4>6 DEF Fail
    <3>4. Drained(i)'
      BY <1>1, <3>1, <3>2, <3>3, DrainedKeeps DEF redis
    <3> QED  BY <3>1, <3>4
  <2>5. ASSUME NEW w \in Workers, Eval(w) \/ EvalUnacked(w)
        PROVE  Drained(i)' /\ charged'[i] = charged[i]
    <3>1. ip[w] # i
      BY <1>1, <2>5 DEF Drained, Eval, EvalUnacked
    <3>2. value'[i] = value[i] /\ charged'[i] = charged[i]
      BY <1>1, <2>5, <3>1 DEF Eval, EvalUnacked, SetQuota, QInv, TypeOK, clients
    <3>3. \A v \in Workers \ {w} :
             pc'[v] = pc[v] /\ ip'[v] = ip[v] /\ quota'[v] = quota[v]
      BY <1>1, <2>5 DEF Eval, EvalUnacked, Done, Goto, locals, QInv, TypeOK
    <3>4. ip'[w] # i
      BY <1>1, <2>5, <3>1, NoIPAssumption
         DEF Eval, EvalUnacked, Done, locals, QInv, TypeOK
    <3> QED  BY <1>1, <3>2, <3>3, <3>4, DrainedKeeps
  <2> QED  BY <1>1, <2>1, <2>2, <2>3, <2>4, <2>5 DEF Next, Proceed
<1>2. QInv /\ [Next]_vars =>
         [\A i \in IPs : Drained(i) /\ value'[i] # Absent =>
             Drained(i)' /\ charged'[i] = charged[i]]_vars
  BY <1>1
<1> QED  BY <1>2, QuotaInvariant, PTL DEF Spec, DrainedUntilReset
-----------------------------------------------------------------------------
(* Posts that come one at a time *)

\* What an address has been charged, what is stored and what its only request in
\* flight has in its hands make up the quota at most.
Paid ==
    \A i \in IPs :
        /\ value[i] = Absent => charged[i] = 0
        /\ ~raced[i] =>
              /\ ~Crowded(i)
              /\ value[i] # Absent => charged[i] + value[i] <= QuotaConfig
              /\ \A w \in Workers : ip[w] = i =>
                    /\ pc[w] = "manage" => charged[i] + quota[w] <= QuotaConfig
                    /\ pc[w] = "eval" => charged[i] + quota[w] < QuotaConfig

\* A step of a worker that leaves what its address has paid as it is.
LEMMA PaidKeeps ==
    ASSUME QInv, Paid, NEW w \in Workers, UNCHANGED <<redis, clients>>,
           NEW l \in Labels, pc' = [pc EXCEPT ![w] = l],
           NEW i \in IPs \cup {NoIP}, ip' = [ip EXCEPT ![w] = i],
           i \in {ip[w], NoIP},
           NEW q \in 0 .. QuotaConfig, quota' = [quota EXCEPT ![w] = q],
           i \in IPs /\ ~raced[i] =>
               /\ l = "manage" => charged[i] + q <= QuotaConfig
               /\ l = "eval" => charged[i] + q < QuotaConfig
    PROVE  Paid'
<1> SUFFICES ASSUME NEW j \in IPs
             PROVE  /\ value'[j] = Absent => charged'[j] = 0
                    /\ ~raced'[j] =>
                       /\ ~Crowded(j)'
                       /\ value'[j] # Absent => charged'[j] + value'[j] <= QuotaConfig
                       /\ \A v \in Workers : ip'[v] = j =>
                          /\ pc'[v] = "manage" => charged'[j] + quota'[v] <= QuotaConfig
                          /\ pc'[v] = "eval" => charged'[j] + quota'[v] < QuotaConfig
  BY DEF Paid
<1>1. /\ value' = value /\ charged' = charged /\ raced' = raced
      /\ \A v \in Workers : ip'[v] = j => ip[v] = j
  BY NoIPAssumption DEF redis, clients, QInv, TypeOK
<1>2. ~Crowded(j) => ~Crowded(j)'
  BY <1>1 DEF Crowded
<1>3. ASSUME NEW v \in Workers, ip'[v] = j, ~raced[j]
      PROVE  /\ pc'[v] = "manage" => charged[j] + quota'[v] <= QuotaConfig
             /\ pc'[v] = "eval" => charged[j] + quota'[v] < QuotaConfig
  <2>1. CASE v = w
    BY <1>3, <2>1 DEF QInv, TypeOK
  <2>2. CASE v # w
    BY <1>1, <1>3, <2>2 DEF QInv, TypeOK, Paid
  <2> QED  BY <2>1, <2>2
<1> QED  BY <1>1, <1>2, <1>3 DEF Paid

LEMMA PaidDone ==
    ASSUME QInv, Paid, NEW w \in Workers, Done(w), UNCHANGED <<redis, clients>>
    PROVE  Paid'
<1>1. 0 \in 0 .. QuotaConfig /\ "idle" \in Labels
  BY QuotaConfigAssumption DEF Labels
<1> QED  BY <1>1, PaidKeeps, NoIPAssumption DEF Done, Goto

LEMMA PaidStart ==
    ASSUME QInv, Paid, NEW w \in Workers, NEW i \in IPs, Start(w, i)
    PROVE  Paid'
<1> SUFFICES ASSUME NEW j \in IPs
             PROVE  /\ value'[j] = Absent => charged'[j] = 0
                    /\ ~raced'[j] =>
                       /\ ~Crowded(j)'
                       /\ value'[j] # Absent => charged'[j] + value'[j] <= QuotaConfig
                       /\ \A v \in Workers : ip'[v] = j =>
                          /\ pc'[v] = "manage" => charged'[j] + quota'[v] <= QuotaConfig
                          /\ pc'[v] = "eval" => charged'[j] + quota'[v] < QuotaConfig
  BY DEF Paid
<1>1. /\ UNCHANGED <<value, charged, quota>>
      /\ pc' = [pc EXCEPT ![w] = "record"] /\ ip' = [ip EXCEPT ![w] = i]
      /\ raced' = [raced EXCEPT ![i] = raced[i] \/ \E v \in Workers : ip[v] = i]
  BY DEF Start, Goto, redis
<1>2. ~raced'[j] => ~raced[j] /\ (j = i => \A v \in Workers : ip[v] # i)
  BY <1>1, Zenon DEF QInv, TypeOK
<1>3. \A v \in Workers : /\ ip'[v] = IF v = w THEN i ELSE ip[v]
                         /\ pc'[v] = IF v = w THEN "record" ELSE pc[v]
  BY <1>1 DEF QInv, TypeOK
<1>4. ~raced'[j] => ~Crowded(j)'
  BY <1>2, <1>3 DEF Crowded, Paid
<1> QED  BY <1>1, <1>2, <1>3, <1>4 DEF Paid

LEMMA PaidExists ==
    ASSUME QInv, Paid, NEW w \in Workers, Exists(w)
    PROVE  Paid'
<1>1. /\ "manage" \in Labels /\ "hgetall" \in Labels /\ ip[w] \in IPs
      /\ QuotaConfig \in 0 .. QuotaConfig /\ quota[w] \in 0 .. QuotaConfig
      /\ UNCHANGED <<redis, clients>> /\ ip' = [ip EXCEPT ![w] = ip[w]]
  BY QuotaConfigAssumption DEF Exists, QInv, TypeOK, InHand, Labels
<1>2. CASE value[ip[w]] = Absent
  <2>1. /\ quota' = [quota EXCEPT ![w] = QuotaConfig] /\ pc' = [pc EXCEPT ![w] = "manage"]
        /\ charged[ip[w]] + QuotaConfig <= QuotaConfig
    BY <1>1, <1>2, QuotaConfigAssumption DEF Exists, Goto, Paid
  <2> QED  BY <1>1, <2>1, PaidKeeps
<1>3. CASE value[ip[w]] # Absent
  <2>1. quota' = [quota EXCEPT ![w] = quota[w]] /\ pc' = [pc EXCEPT ![w] = "hgetall"]
    BY <1>1, <1>3 DEF Exists, Goto, QInv, TypeOK
  <2> QED  BY <1>1, <2>1, PaidKeeps
<1> QED  BY <1>2, <1>3

LEMMA PaidHGetAll ==
    ASSUME QInv, Paid, NEW w \in Workers, HGetAll(w)
    PROVE  Paid'
<1> DEFINE q == IF value[ip[w]] = Absent THEN 0 ELSE value[ip[w]]
<1>1. /\ "manage" \in Labels /\ ip[w] \in IPs /\ ip' = [ip EXCEPT ![w] = ip[w]]
      /\ UNCHANGED <<redis, clients>>
      /\ quota' = [quota EXCEPT ![w] = q] /\ pc' = [pc EXCEPT ![w] = "manage"]
  BY DEF HGetAll, Goto, QInv, TypeOK, InHand, Labels
<1>2. q \in 0 .. QuotaConfig /\ (~raced[ip[w]] => charged[ip[w]] + q <= QuotaConfig)
  BY <1>1, QuotaConfigAssumption DEF QInv, StoredCanEnd, Paid
<1> HIDE DEF q
<1> QED  BY <1>1, <1>2, PaidKeeps

LEMMA PaidManage ==
    ASSUME QInv, Paid, NEW w \in Workers, Manage(w)
    PROVE  Paid'
<1>1. CASE Done(w)
  BY <1>1, PaidDone DEF Manage
<1>2. CASE ~Done(w)
  <2>1. /\ "eval" \in Labels /\ ip[w] \in IPs /\ ip' = [ip EXCEPT ![w] = ip[w]]
        /\ quota[w] \in 0 .. QuotaConfig /\ UNCHANGED <<redis, clients>>
        /\ quota' = [quota EXCEPT ![w] = Sub(quota[w])] /\ pc' = [pc EXCEPT ![w] = "eval"]
    BY <1>2 DEF Manage, Goto, QInv, TypeOK, InHand, Labels
  <2>2. Sub(quota[w]) \in 0 .. QuotaConfig /\ Sub(quota[w]) = quota[w] - 1
    BY <1>2, <2>1, QuotaConfigAssumption DEF Manage, Sub, Exhausted
  <2>3. ~raced[ip[w]] => charged[ip[w]] + Sub(quota[w]) < QuotaConfig
    <3>1. ~raced[ip[w]] => charged[ip[w]] + quota[w] <= QuotaConfig
      BY <2>1 DEF Paid, Manage
    <3>2. charged[ip[w]] \in Nat
      BY <2>1 DEF QInv, TypeOK
    <3> QED  BY <2>1, <2>2, <3>1, <3>2, QuotaConfigAssumption
  <2> QED  BY <2>1, <2>2, <2>3, PaidKeeps
<1> QED  BY <1>1, <1>2

LEMMA PaidRecord ==
    ASSUME QInv, Paid, NEW w \in Workers, Record(w)
    PROVE  Paid'
<1>1. CASE Done(w)
  BY <1>1, PaidDone DEF Record
<1>2. CASE Goto(w, "exists") /\ UNCHANGED locals
  <2>1. /\ "exists" \in Labels /\ quota[w] \in 0 .. QuotaConfig /\ ip[w] \in IPs
        /\ quota' = [quota EXCEPT ![w] = quota[w]] /\ ip' = [ip EXCEPT ![w] = ip[w]]
    BY <1>2 DEF Record, QInv, TypeOK, InHand, Labels, locals
  <2> QED  BY <1>2, <2>1, PaidKeeps DEF Record, Goto
<1> QED  BY <1>1, <1>2 DEF Record

\* The script stores what is in hand; the answer of the last run charges for it.
LEMMA PaidEval ==
    ASSUME QInv, Paid, NEW w \in Workers, Eval(w) \/ EvalUnacked(w)
    PROVE  Paid'
<1> SUFFICES ASSUME NEW j \in IPs
             PROVE  /\ value'[j] = Absent => charged'[j] = 0
                    /\ ~raced'[j] =>
                       /\ ~Crowded(j)'
                       /\ value'[j] # Absent => charged'[j] + value'[j] <= QuotaConfig
                       /\ \A v \in Workers : ip'[v] = j =>
                          /\ pc'[v] = "manage" => charged'[j] + quota'[v] <= QuotaConfig
                          /\ pc'[v] = "eval" => charged'[j] + quota'[v] < QuotaConfig
  BY DEF Paid
<1>1. /\ pc[w] = "eval" /\ ip[w] \in IPs /\ quota[w] \in 1 .. (QuotaConfig - 1)
      /\ value' = [value EXCEPT ![ip[w]] = quota[w]] /\ raced' = raced
  BY DEF Eval, EvalUnacked, SetQuota, QInv, InHand, clients
<1>2. \A v \in Workers : /\ ip'[v] = j => ip[v] = j
                         /\ ip'[v] = j => pc'[v] = pc[v] /\ quota'[v] = quota[v]
  BY NoIPAssumption DEF Eval, EvalUnacked, Done, Goto, locals, QInv, TypeOK
<1>3. ~Crowded(j) => ~Crowded(j)'
  BY <1>2 DEF Crowded
<1>4. charged[j] \in Nat /\ (value[j] # Absent => value[j] \in Nat)
  BY DEF QInv, TypeOK
<1>5. CASE j # ip[w]
  <2>1. value'[j] = value[j] /\ charged'[j] = charged[j]
    BY <1>1, <1>5 DEF Eval, EvalUnacked, QInv, TypeOK, clients
  <2> QED  BY <1>1, <1>2, <1>3, <2>1 DEF Paid
<1>6. CASE j = ip[w]
  <2>1. value'[j] = quota[w] /\ value'[j] # Absent
    BY <1>1, <1>6, QuotaConfigAssumption, QuotaAbsentAssumption DEF QInv, TypeOK
  <2>2. ASSUME ~raced[j]
        PROVE  charged[j] + quota[w] < QuotaConfig
               /\ \A v \in Workers : ip[v] = j => v = w
    BY <1>1, <1>6, <2>2 DEF Paid, Crowded
  <2>3. CASE Eval(w)
    <3>1. charged'[j] = charged[j] + 1 /\ ip'[w] = NoIP
      BY <1>6, <2>3 DEF Eval, Done, QInv, TypeOK
    <3>2. ~raced[j] => \A v \in Workers : ip'[v] # j
      BY <1>2, <2>2, <3>1, NoIPAssumption
    <3> QED  BY <1>1, <1>3, <1>4, <2>1, <2>2, <3>1, <3>2, QuotaConfigAssumption DEF Paid
  <2>4. CASE EvalUnacked(w)
    <3>1. charged' = charged /\ UNCHANGED <<pc, ip, quota>>
      BY <2>4 DEF EvalUnacked, locals, clients
    <3> QED  BY <1>1, <1>3, <1>4, <2>1, <2>2, <3>1, QuotaConfigAssumption DEF Paid
  <2> QED  BY <2>3, <2>4
<1> QED  BY <1>5, <1>6

LEMMA PaidTick ==
    ASSUME QInv, Paid, Tick
    PROVE  Paid'
<1> SUFFICES ASSUME NEW j \in IPs
             PROVE  /\ value'[j] = Absent => charged'[j] = 0
                    /\ ~raced'[j] =>
                       /\ ~Crowded(j)'
                       /\ value'[j] # Absent => charged'[j] + value'[j] <= QuotaConfig
                       /\ \A v \in Workers : ip'[v] = j =>
                          /\ pc'[v] = "manage" => charged'[j] + quota'[v] <= QuotaConfig
                          /\ pc'[v] = "eval" => charged'[j] + quota'[v] < QuotaConfig
  BY DEF Paid
<1>1. UNCHANGED <<pc, ip, quota>> /\ (Crowded(j)' <=> Crowded(j))
  BY DEF Tick, locals, Crowded
<1>2. \A v \in Workers : quota[v] \in 0 .. QuotaConfig
                         /\ (pc[v] = "eval" => quota[v] < QuotaConfig)
  BY QuotaConfigAssumption DEF QInv, TypeOK, InHand
<1>3. CASE Due(j)
  <2>1. value'[j] = Absent /\ charged'[j] = 0 /\ (raced'[j] <=> Crowded(j))
    BY <1>3 DEF Tick
  <2> QED  BY <1>1, <1>2, <2>1, QuotaConfigAssumption
<1>4. CASE ~Due(j)
  <2>1. value'[j] = value[j] /\ charged'[j] = charged[j] /\ raced'[j] = raced[j]
    BY <1>4 DEF Tick
  <2> QED  BY <1>1, <2>1 DEF Paid
<1> QED  BY <1>3, <1>4

LEMMA PaidNext == QInv /\ Paid /\ [Next]_vars => Paid'
<1> SUFFICES ASSUME QInv, Paid, [Next]_vars PROVE Paid'
  OBVIOUS
<1>1. CASE Tick
  BY <1>1, PaidTick
<1>2. CASE Crash
  BY <1>2, NoIPAssumption DEF Crash, Paid, Crowded, redis, clients
<1>3. ASSUME NEW w \in Workers, NEW i \in IPs, Start(w, i)
      PROVE  Paid'
  BY <1>3, PaidStart
<1>4. ASSUME NEW w \in Workers, Proceed(w)
      PROVE  Paid'
  BY <1>4, PaidRecord, PaidExists, PaidHGetAll, PaidManage, PaidEval DEF Proceed
<1>5. ASSUME NEW w \in Workers, EvalUnacked(w) \/ Fail(w)
      PROVE  Paid'
  BY <1>5, PaidEval, PaidDone DEF Fail
<1>6. CASE UNCHANGED vars
  BY <1>6 DEF vars, redis, locals, clients, Paid, Crowded
<1> QED  BY <1>1, <1>2, <1>3, <1>4, <1>5, <1>6 DEF Next

\* An address whose posts come one at a time is never accepted more often than its
\* quota allows, for any quota and number of addresses, although scripts run twice,
\* answers are lost, the key expires under a request and the server crashes.
THEOREM QuotaPaid == Spec => []NotOverdrawn
<1>1. Init => Paid
  BY NoIPAssumption DEF Init, Paid, Crowded
<1>2. Paid => NotOverdrawn
  BY DEF Paid, NotOverdrawn
<1> QED  BY <1>1, <1>2, PaidNext, QuotaInvariant, PTL DEF Spec

\* Every variable of the quota keeps its shape; a quota in hand never exceeds the
\* configured one and never wraps below zero.
THEOREM QuotaTypes == Spec => []TypeOK
<1>1. QInv => TypeOK
  BY DEF QInv
<1> QED  BY <1>1, QuotaInvariant, PTL
=============================================================================
