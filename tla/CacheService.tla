---------------------------- MODULE CacheService ----------------------------
(***************************************************************************)
(* CacheService.Serve, which composes the API keys, the usage events, the  *)
(* records and the quota of the other modules, in this order:              *)
(*                                                                         *)
(*   with an API key     check it, publish the event, store the record     *)
(*   without             store the record, charge the quota                *)
(*                                                                         *)
(* A worker runs one POST at a time through the steps of the modules; a    *)
(* step here is a step of one or two of them and leaves the others alone.  *)
(* pc is where it is in Records, qpc in Quota, kpc in APIKeys.  Readers    *)
(* meet the rest of the service in the records alone: module Records.      *)
(***************************************************************************)
EXTENDS Integers

CONSTANTS
    ClicksWidth, Second, Keys, Workers, Pastes, TTLs, Disposables, Ops, Step,
    MaxServed, NoKey, NoBody,                       \* module Records
    IPs, QuotaConfig, ResetPeriod, MaxPosts, NoIP,  \* module Quota
    Names, Admins, AdminCommands, NoName,           \* module APIKeys
    Faults,        \* a subset of {"error", "retry", "crash"}
    Outages,       \* module UsageEvents
    Absent,
    Nobody         \* who has posted a paste that nobody has posted

VARIABLES
    hash, exp, pc, op, key, rec, date, arm, status, home, terms, life, served,
    value, left, qpc, ip, quota, charged, raced,
    db, kpc, cmd, name, valid, generated,
    channel, event,
    poster   \* the address or the API key a paste was posted with, or Nobody
             \* (for the properties only)

R == INSTANCE Records
Q == INSTANCE Quota WITH pc <- qpc
K == INSTANCE APIKeys WITH pc <- kpc
E == INSTANCE UsageEvents WITH Requests <- Pastes

\* What the parts assume of their constants.
ASSUME PartsAssumption ==
    /\ R!ClicksWidthAssumption /\ R!SecondAssumption /\ R!OpsAssumption
    /\ R!FaultsAssumption /\ R!TTLsAssumption /\ R!DisposablesAssumption
    /\ R!StepAssumption /\ R!MaxServedAssumption /\ R!NoKeyAssumption /\ R!NoBodyAssumption
    /\ R!AbsentAssumption
    /\ Q!QuotaConfigAssumption /\ Q!ResetPeriodAssumption /\ Q!QuotaFaultsAssumption
    /\ Q!MaxPostsAssumption /\ Q!NoIPAssumption /\ Q!QuotaAbsentAssumption
    /\ K!CommandsAssumption /\ K!ActorsAssumption /\ K!AbsentKeyAssumption
    /\ K!NoNameAssumption /\ K!KeyFaultsAssumption

\* Who has posted a paste tells whether an API key was shown.
ASSUME PostersAssumption == IPs \cap Names = {}

records == <<hash, exp, pc, op, key, rec, date, arm, status, home, terms, life, served>>
quotas == <<value, left, qpc, ip, quota, charged, raced>>
apikeys == <<db, kpc, cmd, name, valid, generated>>
events == <<channel, event>>
vars == <<records, quotas, apikeys, events, poster>>

-----------------------------------------------------------------------------
(* Serve, with an API key *)

Idle(w) == pc[w] = "idle" /\ qpc[w] = "idle" /\ kpc[w] = "idle"

Free(w) == Idle(w) /\ E!Serving

ShowKey(w, n) ==
    /\ Free(w)
    /\ K!Request(w, n)
    /\ UNCHANGED <<records, quotas, events, poster>>

CheckKey(w) ==
    /\ K!Exists(w) \/ K!GetID(w) \/ K!CheckValid(w)
    /\ UNCHANGED <<records, quotas, events, poster>>

\* Mutant: logAPIKeyUsage has no case for eternal records.
ReportedCustom(o, ttl) == o = "custom"

\* logAPIKeyUsage (Posting!UsageReason): an eternal record and a requested key
\* are always reported, others when their key is short or their body large.
Reported(o, ttl) == ttl = 0 \/ o = "custom"

\* Mutant: the key is looked up, neither its id nor its flag is looked at.
PostWithKeyFound(w, p, o, k, ttl, d) ==
    /\ kpc[w] \in {"getid", "privileged"}
    /\ o \in {"keyed", "custom"}
    /\ R!PostStart(w, p, o, k, ttl, d)
    /\ E!NotifyAll(p) \/ (~Reported(o, ttl) /\ UNCHANGED events)
    /\ poster' = [poster EXCEPT ![p] = name[w]]
    /\ UNCHANGED <<quotas, apikeys>>

\* Past validation: the event is published, then the record is dealt with.
PostWithKey(w, p, o, k, ttl, d) ==
    /\ kpc[w] = "privileged"
    /\ o \in {"keyed", "custom"}
    /\ R!PostStart(w, p, o, k, ttl, d)
    /\ E!NotifyAll(p) \/ (~Reported(o, ttl) /\ UNCHANGED events)
    /\ poster' = [poster EXCEPT ![p] = name[w]]
    /\ UNCHANGED <<quotas, apikeys>>

\* The parameters are refused.
RejectKey(w) ==
    /\ pc[w] = "idle"
    /\ K!Serve(w)
    /\ UNCHANGED <<records, quotas, events, poster>>

-----------------------------------------------------------------------------
(* Serve, without an API key *)

PostAnonymously(w, p, i, ttl, d) ==
    /\ Free(w)
    /\ R!PostStart(w, p, "anon", NoKey, ttl, d)
    /\ Q!Start(w, i)
    /\ poster' = [poster EXCEPT ![p] = i]
    /\ UNCHANGED <<apikeys, events>>

\* manageQuota decides what Records leaves open.
Answer(w, verdict) ==
    /\ R!QuotaVerdict(w)
    /\ status' = [status EXCEPT ![rec[w].body] = verdict]

\* Mutant: the error of an exhausted quota is not looked at.
ManageQuotaLenient(w) ==
    /\ pc[w] = "quota"
    /\ \/ (Q!Exists(w) \/ Q!HGetAll(w)) /\ UNCHANGED records
       \/ /\ Q!Manage(w)
          /\ IF qpc'[w] = "idle" THEN Answer(w, "accepted") ELSE UNCHANGED records
       \/ Q!Eval(w) /\ Answer(w, "accepted")
    /\ UNCHANGED <<apikeys, events, poster>>

ManageQuota(w) ==
    /\ pc[w] = "quota"
    /\ \/ (Q!Exists(w) \/ Q!HGetAll(w)) /\ UNCHANGED records
       \/ /\ Q!Manage(w)
          /\ IF qpc'[w] = "idle" THEN Answer(w, "refused") ELSE UNCHANGED records
       \/ Q!Eval(w) /\ Answer(w, "accepted")
    /\ UNCHANGED <<apikeys, events, poster>>

-----------------------------------------------------------------------------
(* The record of a post *)

\* Mutant: the event is published by the request itself, which waits for it.
RecordStepWaiting(w) ==
    /\ pc[w] # "quota"
    /\ rec[w].body \in Pastes => event[rec[w].body] # "raised"
    /\ R!Proceed(w)
    /\ IF op[w] \in {"keyed", "custom"} /\ pc'[w] = "idle"
       THEN K!Serve(w) ELSE UNCHANGED apikeys
    /\ IF op[w] = "anon" /\ pc'[w] \in {"quota", "idle"}
       THEN Q!Record(w) /\ (pc'[w] = "idle" <=> qpc'[w] = "idle") ELSE UNCHANGED quotas
    /\ UNCHANGED <<events, poster>>

\* The last step of the record ends a privileged request, and lets an anonymous
\* one go on to its quota, or end when there is no key for it.
RecordStep(w) ==
    /\ pc[w] # "quota"
    /\ R!Proceed(w)
    /\ IF op[w] \in {"keyed", "custom"} /\ pc'[w] = "idle"
       THEN K!Serve(w) ELSE UNCHANGED apikeys
    /\ IF op[w] = "anon" /\ pc'[w] \in {"quota", "idle"}
       THEN Q!Record(w) /\ (pc'[w] = "idle" <=> qpc'[w] = "idle") ELSE UNCHANGED quotas
    /\ UNCHANGED <<events, poster>>

-----------------------------------------------------------------------------
(* The rest of the world *)

\* A command to one of the databases fails, or its answer is lost.
Fail(w) ==
    /\ \/ K!Fail(w) /\ UNCHANGED <<records, quotas>>
       \/ /\ R!Fail(w)
          /\ IF op[w] = "anon" THEN Q!Fail(w) ELSE UNCHANGED quotas
          /\ IF op[w] \in {"keyed", "custom"} THEN K!Serve(w) ELSE UNCHANGED apikeys
       \/ /\ R!HSetUnacked(w) \/ R!ExpireUnacked(w)
          /\ UNCHANGED <<quotas, apikeys>>
       \/ Q!EvalUnacked(w) /\ UNCHANGED <<records, apikeys>>
    /\ UNCHANGED <<events, poster>>

Administer(a) ==
    /\ \/ \E n \in Names :
             K!Generate(a, n) \/ \E c \in AdminCommands : K!Command(a, c, n)
       \/ K!Execute(a) \/ K!Unacked(a) \/ K!Fail(a)
    /\ UNCHANGED <<records, quotas, events, poster>>

Tick ==
    /\ R!Tick /\ Q!Tick
    /\ UNCHANGED <<apikeys, events, poster>>

\* The process starts, a goroutine publishes, the broker comes and goes.
Background ==
    /\ E!Start \/ E!ChannelCloses \/ \E p \in Pastes : E!Notify(p)
    /\ UNCHANGED <<records, quotas, apikeys, poster>>

Exit ==
    /\ R!Crash /\ Q!Crash /\ K!Crash /\ E!Exit
    /\ UNCHANGED poster

Init == R!Init /\ Q!Init /\ K!Init /\ E!Init /\ poster = [p \in Pastes |-> Nobody]

Begin(w) ==
    \/ \E n \in Names : ShowKey(w, n)
    \/ \E p \in Pastes, i \in IPs, t \in TTLs, d \in Disposables : PostAnonymously(w, p, i, t, d)

Authorized(w) ==
    \E p \in Pastes, o \in Ops, k \in Keys \cup {NoKey}, t \in TTLs, d \in Disposables :
        PostWithKey(w, p, o, k, t, d)

Proceed(w) == CheckKey(w) \/ RejectKey(w) \/ RecordStep(w) \/ ManageQuota(w)

Next ==
    \/ Tick \/ Exit \/ Background
    \/ \E a \in Admins : Administer(a)
    \/ \E w \in Workers : Begin(w) \/ Authorized(w) \/ Proceed(w) \/ Fail(w)

Spec == Init /\ [][Next]_vars

\* Workers are fair, to requests that are refused as to those that are let in; the
\* goroutines of events and the broker need not be.
FairSpec == Spec /\ \A w \in Workers : WF_vars(Proceed(w))

-----------------------------------------------------------------------------
(* Properties *)

\* Whoever is let in for an eternal record shows a key that gen has made, and the
\* event of its use is raised before the record is written: no crash, failure or
\* race in between leaves an eternal record whose event was never raised.  (The
\* event may be lost all the same, and the record is written then, too.)
Audited ==
    \A p \in Pastes : status[p] # "unsent" /\ terms[p].ttl = 0 =>
        poster[p] \in generated /\ event[p] # "none"

\* The quota means what it says: once the last unit of an address is stored and no
\* request in flight knows better, no paste of that address is answered with 201
\* before its quota is reset, whatever else the address, the other posters and the
\* failures do, although its records are written all the same.
DrainedAddressWaits ==
    [][\A i \in IPs : Q!Drained(i) /\ value'[i] # Absent =>
          /\ Q!Drained(i)'
          /\ \A p \in Pastes : poster[p] = i /\ status[p] # "accepted"
                              => status'[p] # "accepted"]_vars

\* Once an API key is gone from its database and no request is past the check with
\* it, nothing more is stored with it: no POST that shows it gets in, no request
\* that did before still writes, no repeated command of an administrator makes the
\* key valid again.  (Of a POST; readers, who write records back, are not composed.)
RemovedKeyStoresNothing ==
    [][\A n \in Names : K!Gone(n) =>
          /\ K!Gone(n)'
          /\ \A p \in Pastes : poster'[p] = n => poster[p] = n
          /\ \A k \in Keys : hash'[k] \notin {hash[k], Absent}
                              => poster[hash'[k].body] # n]_vars

\* Every POST is answered, even if the broker never answers and no goroutine of an
\* event ever runs.
EveryPostAnswered == \A w \in Workers : ~Idle(w) ~> Idle(w)
=============================================================================
