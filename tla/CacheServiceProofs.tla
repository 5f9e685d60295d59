------------------------- MODULE CacheServiceProofs -------------------------
(***************************************************************************)
(* What is proved of a part of the service alone holds in the whole, for   *)
(* every number of workers, posts, keys and administrators, and from it    *)
(* follows what relates the parts: who posted a record, with which key, on *)
(* whose quota, and whether its event was raised.                          *)
(***************************************************************************)
EXTENDS CacheService, TLAPS

-----------------------------------------------------------------------------
(* Every step of the service is a step of each part, or leaves it alone *)

LEMMA LeftAlone ==
    /\ UNCHANGED records => UNCHANGED R!vars
    /\ UNCHANGED quotas => UNCHANGED Q!vars
    /\ UNCHANGED apikeys => UNCHANGED K!vars
    /\ UNCHANGED events => UNCHANGED E!vars
BY DEF records, R!vars, R!redis, R!locals, R!clients,
       quotas, Q!vars, Q!redis, Q!locals, Q!clients,
       apikeys, K!vars, events, E!vars

LEMMA RecordsStep == [Next]_vars => [R!Next]_(R!vars)
<1> SUFFICES ASSUME [Next]_vars, ~UNCHANGED R!vars PROVE R!Next
  OBVIOUS
<1>1. ASSUME NEW w \in Workers, NEW p \in Pastes, NEW o, NEW k \in Keys \cup {NoKey},
             NEW t \in TTLs, NEW d \in Disposables, R!PostStart(w, p, o, k, t, d)
      PROVE  R!Next
  <2>1. o \in Ops
    BY <1>1 DEF R!PostStart
  <2> QED  BY <1>1, <2>1 DEF R!Next, R!Start
<1>2. ASSUME NEW w \in Workers, R!Proceed(w) \/ R!Fault(w)
      PROVE  R!Next
  BY <1>2 DEF R!Next
<1>3. ASSUME NEW w \in Workers, Begin(w) \/ Authorized(w)
      PROVE  R!Next
  <2>1. \A n : ~ShowKey(w, n)
    BY LeftAlone DEF ShowKey
  <2> QED  BY <1>1, <1>3, <2>1 DEF Begin, PostAnonymously, Authorized, PostWithKey
<1>4. ASSUME NEW w \in Workers, Proceed(w)
      PROVE  R!Next
  <2>1. ManageQuota(w) \/ RecordStep(w)
    BY <1>4, LeftAlone DEF Proceed, CheckKey, RejectKey
  <2>2. R!Proceed(w)
    BY <2>1, LeftAlone DEF ManageQuota, Answer, RecordStep, R!Proceed
  <2> QED  BY <1>2, <2>2
<1>5. ASSUME NEW w \in Workers, Fail(w)
      PROVE  R!Next
  <2>1. R!Fault(w)
    BY <1>5, LeftAlone DEF Fail, R!Fault
  <2> QED  BY <1>2, <2>1
<1>6. CASE Tick \/ Exit
  BY <1>6 DEF Tick, Exit, R!Next
<1>7. CASE Background \/ (\E a \in Admins : Administer(a)) \/ UNCHANGED vars
  BY <1>7, LeftAlone DEF Background, Administer, vars
<1> QED  BY <1>3, <1>4, <1>5, <1>6, <1>7 DEF Next

LEMMA QuotaStep == [Next]_vars => [Q!Next]_(Q!vars)
<1> SUFFICES ASSUME [Next]_vars, ~UNCHANGED Q!vars PROVE Q!Next
  OBVIOUS
<1>1. ASSUME NEW w \in Workers, Begin(w) \/ Authorized(w)
      PROVE  Q!Next
  BY <1>1, LeftAlone
  DEF Begin, ShowKey, PostAnonymously, Authorized, PostWithKey, Q!Next
<1>2. ASSUME NEW w \in Workers, Proceed(w)
      PROVE  Q!Next
  <2>1. ManageQuota(w) \/ RecordStep(w)
    BY <1>2, LeftAlone DEF Proceed, CheckKey, RejectKey
  <2>2. Q!Proceed(w)
    BY <2>1, LeftAlone DEF ManageQuota, RecordStep, Q!Proceed
  <2> QED  BY <2>2 DEF Q!Next
<1>3. ASSUME NEW w \in Workers, Fail(w)
      PROVE  Q!Next
  BY <1>3, LeftAlone DEF Fail, Q!Next
<1>4. CASE Tick \/ Exit
  BY <1>4 DEF Tick, Exit, Q!Next
<1>5. CASE Background \/ (\E a \in Admins : Administer(a)) \/ UNCHANGED vars
  BY <1>5, LeftAlone DEF Background, Administer, vars
<1> QED  BY <1>1, <1>2, <1>3, <1>4, <1>5 DEF Next

LEMMA KeysStep == [Next]_vars => [K!Next]_(K!vars)
<1> SUFFICES ASSUME [Next]_vars, ~UNCHANGED K!vars PROVE K!Next
  OBVIOUS
<1>1. ASSUME NEW w \in Workers, K!Exists(w) \/ K!GetID(w) \/ K!CheckValid(w) \/ K!Serve(w)
      PROVE  K!Next
  BY <1>1 DEF K!Next
<1>2. ASSUME NEW w \in Workers, Begin(w) \/ Authorized(w)
      PROVE  K!Next
  BY <1>2, LeftAlone
  DEF Begin, ShowKey, PostAnonymously, Authorized, PostWithKey, K!Next
<1>3. ASSUME NEW w \in Workers, Proceed(w)
      PROVE  K!Next
  BY <1>1, <1>3, LeftAlone DEF Proceed, CheckKey, RejectKey, RecordStep, ManageQuota
<1>4. ASSUME NEW w \in Workers, Fail(w)
      PROVE  K!Next
  <2>1. K!Fail(w) \/ K!Serve(w)
    BY <1>4, LeftAlone DEF Fail
  <2> QED  BY <1>1, <2>1 DEF K!Next, K!Actors
<1>5. ASSUME NEW a \in Admins, Administer(a)
      PROVE  K!Next
  BY <1>5 DEF Administer, K!Next, K!Actors
<1>6. CASE Exit
  BY <1>6 DEF Exit, K!Next
<1>7. CASE Tick \/ Background \/ UNCHANGED vars
  BY <1>7, LeftAlone DEF Tick, Background, vars
<1> QED  BY <1>2, <1>3, <1>4, <1>5, <1>6, <1>7 DEF Next

LEMMA EventsStep == [Next]_vars => [E!Next]_(E!vars)
<1> SUFFICES ASSUME [Next]_vars, ~UNCHANGED E!vars PROVE E!Next
  OBVIOUS
<1>1. ASSUME NEW w \in Workers, Begin(w) \/ Authorized(w)
      PROVE  E!Next
  BY <1>1, LeftAlone
  DEF Begin, ShowKey, PostAnonymously, Authorized, PostWithKey, E!Next
<1>2. ASSUME NEW w \in Workers
      PROVE  ~Proceed(w) /\ ~Fail(w)
  BY LeftAlone DEF Proceed, CheckKey, RejectKey, RecordStep, ManageQuota, Fail
<1>3. CASE Background \/ Exit
  BY <1>3 DEF Background, Exit, E!Next
<1>4. CASE Tick \/ (\E a \in Admins : Administer(a)) \/ UNCHANGED vars
  BY <1>4, LeftAlone DEF Tick, Administer, vars
<1> QED  BY <1>1, <1>2, <1>3, <1>4 DEF Next

-----------------------------------------------------------------------------
(* What is proved of a part holds in the service *)

RP == INSTANCE PromiseProofs
QP == INSTANCE QuotaProofs WITH pc <- qpc
KP == INSTANCE APIKeysProofs WITH pc <- kpc

\* The constants of the service are such as the proofs of the parts assume.
LEMMA ProofsApply ==
    /\ RP!ClicksWidthAssumption /\ RP!SecondAssumption /\ RP!OpsAssumption
    /\ RP!FaultsAssumption /\ RP!TTLsAssumption /\ RP!DisposablesAssumption
    /\ RP!StepAssumption /\ RP!MaxServedAssumption /\ RP!NoKeyAssumption /\ RP!NoBodyAssumption
    /\ RP!AbsentAssumption
    /\ QP!QuotaConfigAssumption /\ QP!ResetPeriodAssumption /\ QP!QuotaFaultsAssumption
    /\ QP!MaxPostsAssumption /\ QP!NoIPAssumption /\ QP!QuotaAbsentAssumption
    /\ KP!CommandsAssumption /\ KP!ActorsAssumption /\ KP!AbsentKeyAssumption
    /\ KP!NoNameAssumption /\ KP!KeyFaultsAssumption
BY PartsAssumption
DEF R!HashRecords, RP!HashRecords, R!AllOps, RP!AllOps, R!AllFaults, RP!AllFaults, K!AllCommands, KP!AllCommands

\* RP, QP and KP instantiate the same definitions as R, Q and K: written out, both
\* read the same.
LEMMA SameRecords ==
    /\ R!Init => RP!Init
    /\ [R!Next]_(R!vars) => [RP!Next]_(RP!vars)
BY DEF R!DateFromTTL, RP!DateFromTTL, R!Expired, RP!Expired, R!Until, RP!Until,
       R!Elapse, RP!Elapse, R!FormatSec, RP!FormatSec, R!NewRecord, RP!NewRecord,
       R!ZeroRecord, RP!ZeroRecord, R!CounterExhausted, RP!CounterExhausted,
       R!DecreasedCounter, RP!DecreasedCounter, R!IncreasedClicks,
       RP!IncreasedClicks, R!Readable, RP!Readable, R!Touch, RP!Touch, R!WithTTL,
       RP!WithTTL, R!AllOps, RP!AllOps, R!Posts, RP!Posts, R!AllFaults,
       RP!AllFaults, R!redis, RP!redis, R!locals, RP!locals, R!clients,
       RP!clients, R!vars, RP!vars, R!SetHash, RP!SetHash, R!SetExpiry,
       RP!SetExpiry, R!Due, RP!Due, R!Mortal, RP!Mortal, R!Limited, RP!Limited,
       R!Tick, RP!Tick, R!NoDate, RP!NoDate, R!Done, RP!Done, R!Refuse, RP!Refuse,
       R!Accept, RP!Accept, R!Serve, RP!Serve, R!Stored, RP!Stored, R!Goto,
       RP!Goto, R!ReadStart, RP!ReadStart, R!Exists, RP!Exists, R!HGetAll,
       RP!HGetAll, R!Load, RP!Load, R!GetBody, RP!GetBody, R!PostStart,
       RP!PostStart, R!Requested, RP!Requested, R!Generate, RP!Generate,
       R!KeysExhausted, RP!KeysExhausted, R!Prepare, RP!Prepare, R!QuotaVerdict,
       RP!QuotaVerdict, R!HSet, RP!HSet, R!Arm, RP!Arm, R!Expire, RP!Expire,
       R!HSetUnacked, RP!HSetUnacked, R!ExpireUnacked, RP!ExpireUnacked,
       R!Commands, RP!Commands, R!Fail, RP!Fail, R!Crash, RP!Crash, R!Init,
       RP!Init, R!Start, RP!Start, R!Proceed, RP!Proceed, R!Fault, RP!Fault,
       R!Next, RP!Next

LEMMA SameQuota ==
    /\ Q!Init => QP!Init
    /\ [Q!Next]_(Q!vars) => [QP!Next]_(QP!vars)
BY DEF Q!redis, QP!redis, Q!locals, QP!locals, Q!clients, QP!clients, Q!vars,
       QP!vars, Q!Sub, QP!Sub, Q!Exhausted, QP!Exhausted, Q!Goto, QP!Goto, Q!Done,
       QP!Done, Q!Start, QP!Start, Q!Record, QP!Record, Q!Exists, QP!Exists,
       Q!HGetAll, QP!HGetAll, Q!SetQuota, QP!SetQuota, Q!Manage, QP!Manage,
       Q!Eval, QP!Eval, Q!Due, QP!Due, Q!Crowded, QP!Crowded, Q!Tick, QP!Tick,
       Q!EvalUnacked, QP!EvalUnacked, Q!Fail, QP!Fail, Q!Crash, QP!Crash, Q!Init,
       QP!Init, Q!Proceed, QP!Proceed, Q!Next, QP!Next

LEMMA SameKeys ==
    /\ K!Init => KP!Init
    /\ [K!Next]_(K!vars) => [KP!Next]_(KP!vars)
BY DEF K!AllCommands, KP!AllCommands, K!vars, KP!vars, K!Actors, KP!Actors,
       K!Goto, KP!Goto, K!Done, KP!Done, K!Generate, KP!Generate, K!Command,
       KP!Command, K!Flag, KP!Flag, K!Read, KP!Read, K!HSet, KP!HSet, K!Write,
       KP!Write, K!Del, KP!Del, K!Delete, KP!Delete, K!Unacked, KP!Unacked,
       K!Execute, KP!Execute, K!Request, KP!Request, K!Exists,
       KP!Exists, K!GetID, KP!GetID, K!CheckValid, KP!CheckValid, K!Serve,
       KP!Serve, K!Fail, KP!Fail, K!Crash, KP!Crash, K!Init, KP!Init, K!Next,
       KP!Next

LEMMA Parts == Spec => RP!Spec /\ QP!Spec /\ KP!Spec
<1>1. Init => R!Init /\ Q!Init /\ K!Init
  BY DEF Init
<1> QED  BY <1>1, RecordsStep, QuotaStep, KeysStep, SameRecords, SameQuota, SameKeys, PTL
         DEF Spec, RP!Spec, QP!Spec, KP!Spec

\* In the service, too, records are genuine, balanced, kept as promised, gone one
\* ttl after their last read and stay exhausted, quotas end and are not overdrawn,
\* and keys are generated and stay removed and revoked.
THEOREM PartsKept ==
    Spec => /\ [](RP!StoredGenuine /\ RP!Conservation /\ RP!KeptUntilPromised)
            /\ []RP!ExpiryWithinTTL
            /\ RP!ExhaustionIsFinal
            /\ [](QP!StoredCanEnd /\ QP!NotOverdrawn) /\ QP!DrainedUntilReset
            /\ []KP!OnlyGenerated /\ KP!GoneIsFinal /\ KP!RevokedUntilReauthorized
<1>1. RP!Spec => /\ []RP!StoredGenuine /\ []RP!Conservation /\ []RP!KeptUntilPromised
                 /\ []RP!ExpiryWithinTTL /\ RP!ExhaustionIsFinal
  BY RP!OnlyGenuineStored, RP!CountersConserved, RP!PromiseOfTTLKept, RP!ExpiryBounded,
     RP!ExhaustedForGood, ProofsApply
<1>2. QP!Spec => []QP!StoredCanEnd /\ []QP!NotOverdrawn /\ QP!DrainedUntilReset
  BY QP!QuotaCanEnd, QP!QuotaPaid, QP!DrainedStays, ProofsApply
<1>3. KP!Spec => []KP!OnlyGenerated /\ KP!GoneIsFinal /\ KP!RevokedUntilReauthorized
  BY KP!KeysGenerated, KP!RemovedForGood, KP!RevokedStays, ProofsApply
<1> QED  BY <1>1, <1>2, <1>3, Parts, PTL

-----------------------------------------------------------------------------
(* Eternal records are audited *)

EventTypes == event \in [Pastes -> {"none", "raised", "taken", "lost"}]

AInv == DOMAIN poster = Pastes /\ EventTypes /\ Audited

\* An event that was raised is not forgotten, nor is a key that was generated.
LEMMA EventsKeep ==
    ASSUME EventTypes, [E!Next]_(E!vars)
    PROVE  EventTypes' /\ \A p \in Pastes : event[p] # "none" => event'[p] # "none"
BY DEF EventTypes, E!Next, E!vars, E!Start, E!Exit, E!ChannelCloses, E!NotifyAll, E!Notify

LEMMA GeneratedGrows == [K!Next]_(K!vars) => generated \subseteq generated'
BY DEF K!Next, K!vars, K!Generate, K!Command, K!Execute, K!Read, K!Write, K!Delete,
       K!Unacked, K!Request, K!Exists, K!GetID, K!CheckValid, K!Serve, K!Fail, K!Crash

\* Only the start of a POST sends it.
LEMMA UnsentStays ==
    ASSUME RP!IInv, NEW w \in Workers, R!Proceed(w) \/ R!Fault(w)
    PROVE  /\ UNCHANGED terms
           /\ \A p \in Pastes : status[p] = "unsent" => status'[p] = "unsent"
<1>1. /\ op[w] \in R!Posts => rec[w].body \in Pastes /\ status[rec[w].body] = "sent"
      /\ pc[w] = "quota" => op[w] \in R!Posts
  BY DEF RP!IInv, RP!Phases, RP!Postings, RP!Posts, R!Posts
<1>2. status \in [Pastes -> {"unsent", "sent", "accepted", "refused"}]
  BY DEF RP!IInv, RP!TypeOK
<1>3. CASE R!Refuse(w)
  BY <1>1, <1>2, <1>3 DEF R!Refuse
<1>4. CASE R!Stored(w) \/ (R!Accept(w) /\ pc[w] = "quota")
  BY <1>1, <1>2, <1>4 DEF R!Stored, R!Accept, R!Serve, R!Posts, R!clients
<1>5. CASE UNCHANGED <<status, terms>>
  BY <1>5
<1>6. \/ R!Refuse(w) \/ R!Stored(w) \/ (R!Accept(w) /\ pc[w] = "quota")
      \/ UNCHANGED <<status, terms>>
  BY DEF R!Proceed, R!Exists, R!HGetAll, R!Load, R!GetBody, R!Requested, R!Generate,
         R!KeysExhausted, R!Prepare, R!QuotaVerdict, R!HSet, R!Arm, R!Expire, R!Fault,
         R!HSetUnacked, R!ExpireUnacked, R!Fail, R!clients
<1> QED  BY <1>3, <1>4, <1>5, <1>6

\* A step that is not the start of a POST.
LEMMA AuditedStays ==
    ASSUME AInv, EventTypes', UNCHANGED <<poster, terms>>,
           \A p \in Pastes : status[p] = "unsent" => status'[p] = "unsent",
           \A p \in Pastes : event[p] # "none" => event'[p] # "none",
           generated \subseteq generated'
    PROVE  AInv'
BY DEF AInv, Audited

\* The start of a POST.
LEMMA AuditedStarts ==
    ASSUME AInv, RP!IInv, KP!KInv, NEW w \in Workers, NEW p \in Pastes,
           NEW i, NEW o, NEW k, NEW ttl, NEW d, [E!Next]_(E!vars), UNCHANGED generated,
           PostAnonymously(w, p, i, ttl, d) \/ PostWithKey(w, p, o, k, ttl, d)
    PROVE  AInv'
<1>1. /\ status' = [status EXCEPT ![p] = "sent"] /\ DOMAIN status = Pastes
      /\ terms' = [terms EXCEPT ![p] = [ttl |-> ttl, disposable |-> d]]
      /\ DOMAIN terms = Pastes
  BY DEF PostAnonymously, PostWithKey, R!PostStart, RP!IInv, RP!TypeOK
<1>2. DOMAIN poster' = Pastes /\ \A q \in Pastes \ {p} : poster'[q] = poster[q]
  BY DEF PostAnonymously, PostWithKey, AInv
<1>3. EventTypes' /\ \A q \in Pastes : event[q] # "none" => event'[q] # "none"
  BY EventsKeep DEF AInv
<1>4. ttl = 0 => poster'[p] \in generated /\ event'[p] # "none"
  <2>1. CASE PostAnonymously(w, p, i, ttl, d)
    BY <2>1 DEF PostAnonymously, R!PostStart
  <2>2. CASE PostWithKey(w, p, o, k, ttl, d)
    <3>1. poster'[p] = name[w] /\ kpc[w] = "privileged"
      BY <2>2 DEF PostWithKey, AInv
    <3>2. name[w] \in generated
      BY <3>1 DEF KP!KInv, KP!Roles
    <3>3. ttl = 0 => event'[p] # "none"
      BY <2>2 DEF PostWithKey, Reported, E!NotifyAll, AInv, EventTypes
    <3> QED  BY <3>1, <3>2, <3>3
  <2> QED  BY <2>1, <2>2
<1> QED  BY <1>1, <1>2, <1>3, <1>4 DEF AInv, Audited

LEMMA AuditedNext == AInv /\ RP!IInv /\ KP!KInv /\ [Next]_vars => AInv'
<1> SUFFICES ASSUME AInv, RP!IInv, KP!KInv, [Next]_vars PROVE AInv'
  OBVIOUS
<1>1. /\ [E!Next]_(E!vars)
      /\ EventTypes' /\ \A p \in Pastes : event[p] # "none" => event'[p] # "none"
  BY EventsStep, EventsKeep DEF AInv
<1>2. generated \subseteq generated'
  BY KeysStep, GeneratedGrows
<1>3. ASSUME UNCHANGED poster, UNCHANGED records
      PROVE  AInv'
  BY <1>1, <1>2, <1>3, AuditedStays DEF records
<1>4. ASSUME NEW w \in Workers, UNCHANGED poster, R!Proceed(w) \/ R!Fault(w)
      PROVE  AInv'
  BY <1>1, <1>2, <1>4, UnsentStays, AuditedStays
<1>5. ASSUME NEW w \in Workers, Begin(w) \/ Authorized(w)
      PROVE  AInv'
  <2>1. CASE \E n \in Names : ShowKey(w, n)
    BY <1>3, <2>1 DEF ShowKey
  <2>2. CASE \E p \in Pastes, i \in IPs, t \in TTLs, d \in Disposables :
                PostAnonymously(w, p, i, t, d)
    BY <1>1, <2>2, AuditedStarts DEF PostAnonymously, apikeys
  <2>3. CASE Authorized(w)
    BY <1>1, <2>3, AuditedStarts DEF Authorized, PostWithKey, apikeys
  <2> QED  BY <1>5, <2>1, <2>2, <2>3 DEF Begin
<1>6. ASSUME NEW w \in Workers, Proceed(w)
      PROVE  AInv'
  BY <1>3, <1>4, <1>6
  DEF Proceed, CheckKey, RejectKey, RecordStep, ManageQuota, Answer, R!Proceed
<1>7. ASSUME NEW w \in Workers, Fail(w)
      PROVE  AInv'
  BY <1>3, <1>4, <1>7 DEF Fail, R!Fault
<1>8. CASE Tick
  BY <1>1, <1>2, <1>8, AuditedStays DEF Tick, R!Tick
<1>9. CASE Exit
  <2>1. /\ UNCHANGED <<poster, terms>>
        /\ \A p \in Pastes : status[p] = "unsent" => status'[p] = "unsent"
    BY <1>9 DEF Exit, R!Crash
  <2> QED  BY <1>1, <1>2, <2>1, AuditedStays
<1>10. CASE Background \/ (\E a \in Admins : Administer(a)) \/ UNCHANGED vars
  BY <1>3, <1>10 DEF Background, Administer, vars
<1> QED  BY <1>5, <1>6, <1>7, <1>8, <1>9, <1>10 DEF Next

\* No crash, failure or race leaves an eternal record in Redis whose poster had no
\* generated key, or before which the event of its use was not raised.
THEOREM EternalAudited == Spec => []Audited
<1>1. Init => AInv
  BY DEF Init, R!Init, E!Init, AInv, EventTypes, Audited
<1>2. AInv => Audited
  BY DEF AInv
<1>3. RP!Spec => []RP!IInv
  BY RP!Invariant, ProofsApply
<1>4. KP!Spec => []KP!KInv
  BY KP!KeysInvariant, ProofsApply
<1> QED  BY <1>1, <1>2, <1>3, <1>4, Parts, AuditedNext, PTL DEF Spec

-----------------------------------------------------------------------------
(* Whose record a request has in hand *)

\* Where an anonymous post is in Records and where it is in Quota go together, and
\* what it has in hand was posted from the address it is charged to; what another
\* post has in hand was posted with the key that let it in.
Linked(w) ==
    /\ op[w] = "anon" <=> qpc[w] # "idle"
    /\ pc[w] = "quota" => op[w] = "anon"
    /\ op[w] = "anon" =>
          /\ ip[w] = poster[rec[w].body]
          /\ pc[w] = "quota" <=> qpc[w] # "record"
    /\ op[w] \in {"keyed", "custom"} =>
          /\ kpc[w] = "privileged" /\ name[w] \in Names
          /\ poster[rec[w].body] = name[w]
    /\ op[w] \in {"get", "clicks"} => pc[w] = "idle"

LInv == DOMAIN poster = Pastes /\ \A w \in Workers : Linked(w)

\* What the step of one worker does in Records, to itself and to the others: its
\* request is over, or it goes on with the body it has.
LEMMA RecordMoves ==
    ASSUME RP!IInv, NEW w \in Workers, R!Proceed(w) \/ R!Fault(w)
    PROVE  /\ \A v \in Workers \ {w} : pc'[v] = pc[v] /\ op'[v] = op[v] /\ rec'[v] = rec[v]
           /\ pc[w] # "idle"
           /\ \/ pc'[w] = "idle" /\ op'[w] = "get"
              \/ /\ pc'[w] # "idle" /\ op'[w] = op[w] /\ pc[w] # "quota"
                 /\ op[w] \in R!Posts => rec'[w].body = rec[w].body
                 /\ pc'[w] = "quota" => op[w] = "anon"
<1> DEFINE Others == \A v \in Workers \ {w} :
               pc'[v] = pc[v] /\ op'[v] = op[v] /\ rec'[v] = rec[v]
           Over == pc'[w] = "idle" /\ op'[w] = "get"
           GoesOn == /\ pc'[w] # "idle" /\ op'[w] = op[w] /\ pc[w] # "quota"
                     /\ op[w] \in R!Posts => rec'[w].body = rec[w].body
                     /\ pc'[w] = "quota" => op[w] = "anon"
<1>0. pc[w] # "idle"
  BY DEF R!Proceed, R!Exists, R!HGetAll, R!Load, R!GetBody, R!Requested, R!Generate,
         R!KeysExhausted, R!Prepare, R!QuotaVerdict, R!HSet, R!Arm, R!Expire, R!Fault,
         R!HSetUnacked, R!ExpireUnacked, R!Fail, R!Commands
<1> SUFFICES Others /\ (Over \/ GoesOn)
  BY <1>0
<1>1. /\ DOMAIN pc = Workers /\ DOMAIN op = Workers /\ DOMAIN rec = Workers
      /\ rec[w] \in RP!HashRecords
      /\ pc[w] \in {"exists", "hgetall", "load"} => op[w] \in {"get", "clicks"}
      /\ pc[w] = "body" => op[w] = "get"
  BY DEF RP!IInv, RP!TypeOK, RP!Phases
<1>2. CASE R!Done(w)
  <2>1. Others /\ Over
    BY <1>1, <1>2 DEF R!Done
  <2> QED  BY <2>1
<1>3. ASSUME R!Stored(w), pc[w] # "quota"
      PROVE  Others /\ (Over \/ GoesOn)
  <2>1. CASE op[w] = "anon" /\ pc' = [pc EXCEPT ![w] = "quota"] /\ UNCHANGED R!locals
    BY <1>1, <1>3, <2>1 DEF R!locals
  <2> QED  BY <1>2, <1>3, <2>1 DEF R!Stored, R!Serve, R!Accept
<1>4. ASSUME NEW l, l \notin {"idle", "quota"}, R!Goto(w, l), pc[w] # "quota",
             UNCHANGED <<op, rec>>
      PROVE  Others /\ GoesOn
  BY <1>1, <1>4 DEF R!Goto
<1>5. CASE R!Exists(w) \/ R!Load(w) \/ R!Requested(w) \/ R!KeysExhausted(w) \/ R!QuotaVerdict(w)
           \/ R!Arm(w) \/ R!Fail(w) \/ (\E k \in Keys : R!Generate(w, k))
  BY <1>2, <1>4, <1>5
  DEF R!Exists, R!Load, R!Requested, R!KeysExhausted, R!QuotaVerdict, R!Arm, R!Fail,
      R!Generate, R!Refuse, R!Accept, R!locals
<1>6. CASE R!HGetAll(w) \/ R!GetBody(w) \/ R!Prepare(w)
  <2>1. CASE R!Done(w)
    BY <1>2, <2>1
  <2>2. CASE ~R!Done(w)
    <3>1. /\ UNCHANGED op
          /\ \E l \in {"load", "prepare", "hset"} : R!Goto(w, l)
          /\ \E r : rec' = [rec EXCEPT ![w] = r] /\ (pc[w] = "prepare" => r.body = rec[w].body)
          /\ pc[w] \in {"hgetall", "body", "prepare"}
      BY <1>1, <1>6, <2>2 DEF R!HGetAll, R!GetBody, R!Prepare, R!Refuse, R!WithTTL, RP!HashRecords
    <3>2. PICK l \in {"load", "prepare", "hset"} : pc' = [pc EXCEPT ![w] = l]
      BY <3>1 DEF R!Goto
    <3>3. pc'[w] \notin {"idle", "quota"} /\ \A v \in Workers \ {w} : pc'[v] = pc[v]
      BY <1>1, <3>2
    <3>4. op[w] \in R!Posts => rec'[w].body = rec[w].body
      BY <1>1, <3>1 DEF R!Posts
    <3> QED  BY <1>1, <3>1, <3>3, <3>4
  <2> QED  BY <2>1, <2>2
<1>7. CASE R!HSet(w) \/ R!Expire(w)
  BY <1>3, <1>4, <1>7 DEF R!HSet, R!Expire, R!locals
<1>8. CASE R!HSetUnacked(w) \/ R!ExpireUnacked(w)
  BY <1>1, <1>8 DEF R!HSetUnacked, R!ExpireUnacked, R!locals
<1> QED  BY <1>5, <1>6, <1>7, <1>8 DEF R!Proceed, R!Fault

\* What the step of one worker does in Quota.
LEMMA QuotaMoves ==
    ASSUME QP!QInv, NEW w \in Workers, Q!Proceed(w) \/ Q!Fail(w) \/ Q!EvalUnacked(w)
    PROVE  /\ \A v \in Workers \ {w} : qpc'[v] = qpc[v] /\ ip'[v] = ip[v]
           /\ qpc'[w] = "idle" \/ (qpc'[w] # "record" /\ ip'[w] = ip[w])
BY DEF QP!QInv, QP!TypeOK, Q!Proceed, Q!Record, Q!Exists, Q!HGetAll, Q!Manage, Q!Eval, Q!Fail,
       Q!EvalUnacked, Q!Goto, Q!Done, Q!redis, Q!locals, Q!clients

\* What the step of one worker does in APIKeys, and what an administrator does.
LEMMA KeyMoves ==
    ASSUME KP!KInv, NEW w \in Workers,
           \/ K!Exists(w) \/ K!GetID(w) \/ K!CheckValid(w) \/ K!Serve(w) \/ K!Fail(w)
           \/ \E n \in Names : K!Request(w, n)
    PROVE  \A v \in Workers \ {w} : kpc'[v] = kpc[v] /\ name'[v] = name[v]
<1>1. \A v \in Workers : v \in DOMAIN kpc /\ v \in DOMAIN name
  BY DEF KP!KInv, KP!TypeOK, KP!Actors
<1> QED  BY <1>1 DEF K!Exists, K!GetID, K!CheckValid, K!Serve, K!Fail, K!Request, K!Goto, K!Done

LEMMA AdminMoves ==
    ASSUME KP!KInv, NEW a \in Admins, Administer(a)
    PROVE  \A v \in Workers : kpc'[v] = kpc[v] /\ name'[v] = name[v]
<1>1. \A v \in Workers : v \in DOMAIN kpc /\ v \in DOMAIN name
  BY DEF KP!KInv, KP!TypeOK, KP!Actors
<1>2. a \notin Workers
  BY PartsAssumption DEF K!ActorsAssumption
<1> QED  BY <1>1, <1>2
         DEF Administer, K!Generate, K!Command, K!Execute, K!Read, K!Write, K!Delete,
             K!Unacked, K!Fail, K!Goto, K!Done

\* A worker that the step leaves alone.
LEMMA LinkedStays ==
    ASSUME NEW w \in Workers, Linked(w), UNCHANGED poster,
           pc'[w] = pc[w], op'[w] = op[w], rec'[w] = rec[w],
           qpc'[w] = qpc[w], ip'[w] = ip[w],
           op[w] \in {"keyed", "custom"} => kpc'[w] = kpc[w] /\ name'[w] = name[w]
    PROVE  Linked(w)'
BY DEF Linked

\* The start of a POST: nobody else has its paste in hand.
LEMMA LinkedStarts ==
    ASSUME LInv, RP!IInv, QP!QInv, NEW w \in Workers, NEW p \in Pastes, NEW who, NEW x,
           NEW k, NEW ttl, NEW d, R!PostStart(w, p, x, k, ttl, d),
           poster' = [poster EXCEPT ![p] = who],
           \/ x = "anon" /\ Q!Start(w, who)
           \/ /\ x \in {"keyed", "custom"} /\ UNCHANGED quotas
              /\ kpc[w] = "privileged" /\ who = name[w] /\ who \in Names,
           UNCHANGED apikeys
    PROVE  LInv'
<1>1. /\ pc[w] = "idle" /\ op[w] = "get" /\ status[p] = "unsent"
      /\ pc'[w] \in {"requested", "generate"} /\ op'[w] = x /\ rec'[w].body = p
      /\ \A v \in Workers \ {w} : pc'[v] = pc[v] /\ op'[v] = op[v] /\ rec'[v] = rec[v]
  BY DEF R!PostStart, R!Goto, R!NewRecord, RP!IInv, RP!TypeOK, RP!Phases
<1>2. qpc[w] = "idle"
  BY <1>1 DEF LInv, Linked
<1>3. /\ \A v \in Workers \ {w} : qpc'[v] = qpc[v] /\ ip'[v] = ip[v]
      /\ \/ x = "anon" /\ qpc'[w] = "record" /\ ip'[w] = who
         \/ /\ x \in {"keyed", "custom"} /\ qpc'[w] = "idle"
            /\ kpc[w] = "privileged" /\ who = name[w] /\ who \in Names
      /\ UNCHANGED <<kpc, name>>
  BY <1>2 DEF Q!Start, Q!Goto, quotas, apikeys, QP!QInv, QP!TypeOK
<1>4. poster'[p] = who /\ DOMAIN poster' = Pastes
      /\ \A q \in Pastes \ {p} : poster'[q] = poster[q]
  BY DEF LInv
<1>5. Linked(w)'
  BY <1>1, <1>3, <1>4 DEF Linked
<1>6. ASSUME NEW v \in Workers \ {w}
      PROVE  Linked(v)'
  <2>1. op[v] \in {"anon", "keyed", "custom"} => rec[v].body \in Pastes \ {p}
    BY <1>1 DEF RP!IInv, RP!Phases, RP!Postings, RP!Posts
  <2>2. Linked(v)
    BY DEF LInv
  <2> QED  BY <1>1, <1>3, <1>4, <2>1, <2>2 DEF Linked
<1> QED  BY <1>4, <1>5, <1>6 DEF LInv

LEMMA LinkedInit == Init => LInv
BY DEF Init, R!Init, Q!Init, LInv, Linked

LEMMA LinkedNext == LInv /\ RP!IInv /\ QP!QInv /\ KP!KInv /\ [Next]_vars => LInv'
<1> SUFFICES ASSUME LInv, RP!IInv, QP!QInv, KP!KInv, [Next]_vars PROVE LInv'
  OBVIOUS
<1> DEFINE SameKey(v) == kpc'[v] = kpc[v] /\ name'[v] = name[v]
<1>1. ASSUME UNCHANGED <<poster, pc, op, rec, qpc, ip>>,
             \A v \in Workers : op[v] \in {"keyed", "custom"} => SameKey(v)
      PROVE  LInv'
  BY <1>1, LinkedStays DEF LInv
<1>2. ASSUME UNCHANGED <<records, quotas, poster>>,
             \A v \in Workers : op[v] \in {"keyed", "custom"} => SameKey(v)
      PROVE  LInv'
  BY <1>1, <1>2 DEF records, quotas
<1>0. /\ UNCHANGED apikeys => \A v \in Workers : SameKey(v)
      /\ \A w \in Workers : pc[w] = "idle" => op[w] = "get"
  BY DEF apikeys, RP!IInv, RP!Phases
\* One worker moves on, in one of the two modules or in both.
<1>3. ASSUME NEW w \in Workers, UNCHANGED poster, Linked(w)',
             \A v \in Workers \ {w} : /\ pc'[v] = pc[v] /\ op'[v] = op[v] /\ rec'[v] = rec[v]
                                      /\ qpc'[v] = qpc[v] /\ ip'[v] = ip[v] /\ SameKey(v)
      PROVE  LInv'
  BY <1>3, LinkedStays DEF LInv
<1>4. ASSUME NEW w \in Workers, Begin(w) \/ Authorized(w)
      PROVE  LInv'
  <2>1. CASE \E n \in Names : ShowKey(w, n)
    <3>1. op[w] = "get" /\ \A v \in Workers \ {w} : SameKey(v)
      BY <1>0, <2>1, KeyMoves DEF ShowKey, Free, Idle
    <3> QED  BY <1>2, <2>1, <3>1 DEF ShowKey
  <2>2. CASE \E p \in Pastes, i \in IPs, t \in TTLs, d \in Disposables :
                PostAnonymously(w, p, i, t, d)
    BY <2>2, LinkedStarts DEF PostAnonymously
  <2>3. CASE Authorized(w)
    <3>1. kpc[w] = "privileged" => name[w] \in Names
      BY DEF KP!KInv, KP!Roles, KP!Actors
    <3> QED  BY <2>3, <3>1, LinkedStarts DEF Authorized, PostWithKey
  <2> QED  BY <1>4, <2>1, <2>2, <2>3 DEF Begin
<1>5. ASSUME NEW w \in Workers, RecordStep(w)
      PROVE  LInv'
  <2>1. R!Proceed(w) /\ pc[w] # "quota" /\ UNCHANGED poster /\ Linked(w)
    BY <1>5 DEF RecordStep, LInv
  <2>2. /\ \A v \in Workers \ {w} : pc'[v] = pc[v] /\ op'[v] = op[v] /\ rec'[v] = rec[v]
        /\ pc[w] # "idle"
        /\ \/ pc'[w] = "idle" /\ op'[w] = "get"
           \/ /\ pc'[w] # "idle" /\ op'[w] = op[w]
              /\ op[w] \in {"anon", "keyed", "custom"} => rec'[w].body = rec[w].body
              /\ pc'[w] = "quota" => op[w] = "anon"
    BY <2>1, RecordMoves DEF R!Posts
  <2>5. /\ \A v \in Workers \ {w} : SameKey(v)
        /\ pc'[w] # "idle" => SameKey(w)
    BY <1>0, <1>5, KeyMoves DEF RecordStep
  <2>3. CASE op[w] = "anon" /\ pc'[w] \in {"quota", "idle"}
    <3>1. Q!Record(w) /\ (pc'[w] = "idle" <=> qpc'[w] = "idle")
      BY <1>5, <2>3 DEF RecordStep
    <3>2. /\ \A v \in Workers \ {w} : qpc'[v] = qpc[v] /\ ip'[v] = ip[v]
          /\ qpc'[w] = "idle" \/ (qpc'[w] # "record" /\ ip'[w] = ip[w])
      BY <3>1, QuotaMoves DEF Q!Proceed
    <3>3. Linked(w)'
      BY <2>1, <2>2, <2>3, <2>5, <3>1, <3>2 DEF Linked
    <3> QED  BY <1>3, <2>1, <2>2, <2>5, <3>2, <3>3
  <2>4. CASE ~(op[w] = "anon" /\ pc'[w] \in {"quota", "idle"})
    <3>1. UNCHANGED <<qpc, ip>>
      BY <1>5, <2>4 DEF RecordStep, quotas
    <3>2. Linked(w)'
      BY <2>1, <2>2, <2>4, <2>5, <3>1 DEF Linked
    <3> QED  BY <1>3, <2>1, <2>2, <2>5, <3>1, <3>2
  <2> QED  BY <2>3, <2>4
<1>6. ASSUME NEW w \in Workers, ManageQuota(w)
      PROVE  LInv'
  <2>1. /\ pc[w] = "quota" /\ UNCHANGED poster /\ Linked(w) /\ Q!Proceed(w)
        /\ \A v \in Workers : SameKey(v)
    BY <1>0, <1>6 DEF ManageQuota, LInv, Q!Proceed
  <2>2. /\ \A v \in Workers \ {w} : qpc'[v] = qpc[v] /\ ip'[v] = ip[v]
        /\ qpc'[w] = "idle" \/ (qpc'[w] # "record" /\ ip'[w] = ip[w])
    BY <2>1, QuotaMoves
  <2>3. CASE UNCHANGED records /\ qpc'[w] # "idle"
    <3>1. UNCHANGED <<pc, op, rec>>
      BY <2>3 DEF records
    <3>2. Linked(w)'
      BY <2>1, <2>2, <2>3, <3>1 DEF Linked
    <3> QED  BY <1>3, <2>1, <2>2, <3>1, <3>2
  <2>4. CASE R!QuotaVerdict(w) /\ qpc'[w] = "idle"
    <3>1. /\ \A v \in Workers \ {w} : pc'[v] = pc[v] /\ op'[v] = op[v] /\ rec'[v] = rec[v]
          /\ pc'[w] = "idle" /\ op'[w] = "get"
      BY <2>1, <2>4, RecordMoves DEF R!Proceed
    <3>2. Linked(w)'
      BY <2>4, <3>1 DEF Linked
    <3> QED  BY <1>3, <2>1, <2>2, <3>1, <3>2
  <2>5. \/ UNCHANGED records /\ qpc'[w] # "idle"
        \/ R!QuotaVerdict(w) /\ qpc'[w] = "idle"
    <3>1. Q!Exists(w) \/ Q!HGetAll(w) => qpc'[w] # "idle"
      BY DEF Q!Exists, Q!HGetAll, Q!Goto, QP!QInv, QP!TypeOK
    <3>2. Q!Eval(w) => qpc'[w] = "idle"
      BY DEF Q!Eval, Q!Done, Q!Goto, QP!QInv, QP!TypeOK
    <3> QED  BY <1>6, <3>1, <3>2 DEF ManageQuota, Answer
  <2> QED  BY <2>3, <2>4, <2>5
<1>7. ASSUME NEW w \in Workers, Fail(w)
      PROVE  LInv'
  <2>1. UNCHANGED poster /\ Linked(w)
    BY <1>7 DEF Fail, LInv
  <2>2. CASE /\ R!Fail(w)
             /\ IF op[w] = "anon" THEN Q!Fail(w) ELSE UNCHANGED quotas
             /\ IF op[w] \in {"keyed", "custom"} THEN K!Serve(w) ELSE UNCHANGED apikeys
    <3>1. /\ \A v \in Workers \ {w} : pc'[v] = pc[v] /\ op'[v] = op[v] /\ rec'[v] = rec[v]
          /\ pc'[w] = "idle" /\ op'[w] = "get"
      BY <2>2 DEF R!Fail, R!Refuse, R!Done, RP!IInv, RP!TypeOK
    <3>2. /\ \A v \in Workers \ {w} : qpc'[v] = qpc[v] /\ ip'[v] = ip[v]
          /\ qpc'[w] = "idle"
      BY <2>1, <2>2 DEF Linked, Q!Fail, Q!Done, Q!Goto, quotas, QP!QInv, QP!TypeOK
    <3>3. Linked(w)'
      BY <3>1, <3>2 DEF Linked
    <3>4. \A v \in Workers \ {w} : SameKey(v)
      BY <1>0, <2>2, KeyMoves
    <3> QED  BY <1>3, <2>1, <3>1, <3>2, <3>3, <3>4
  <2>3. CASE UNCHANGED <<records, quotas>> /\ K!Fail(w)
    <3>1. kpc[w] # "privileged" /\ \A v \in Workers \ {w} : SameKey(v)
      BY <2>3, KeyMoves DEF K!Fail
    <3>2. op[w] \notin {"keyed", "custom"}
      BY <2>1, <3>1 DEF Linked
    <3> QED  BY <1>2, <2>1, <2>3, <3>1, <3>2
  <2>4. CASE (R!HSetUnacked(w) \/ R!ExpireUnacked(w)) /\ UNCHANGED <<quotas, apikeys>>
    BY <1>0, <1>1, <2>1, <2>4 DEF R!HSetUnacked, R!ExpireUnacked, R!locals, quotas
  <2>5. CASE Q!EvalUnacked(w) /\ UNCHANGED <<records, apikeys>>
    BY <1>0, <1>1, <2>1, <2>5 DEF Q!EvalUnacked, Q!locals, records
  <2> QED  BY <1>7, <2>2, <2>3, <2>4, <2>5 DEF Fail
<1>8. CASE Tick
  BY <1>0, <1>1, <1>8 DEF Tick, R!Tick, Q!Tick, Q!locals
<1>9. CASE Exit
  BY <1>9 DEF Exit, R!Crash, Q!Crash, LInv, Linked
<1>10. CASE Background \/ (\E a \in Admins : Administer(a)) \/ UNCHANGED vars
  <2>1. \A v \in Workers : SameKey(v)
    BY <1>0, <1>10, AdminMoves DEF Background, vars
  <2> QED  BY <1>2, <1>10, <2>1 DEF Background, Administer, vars
<1>11. ASSUME NEW w \in Workers, CheckKey(w) \/ RejectKey(w)
       PROVE  LInv'
  <2>1. \A v \in Workers \ {w} : SameKey(v)
    BY <1>11, KeyMoves DEF CheckKey, RejectKey
  <2>2. op[w] \notin {"keyed", "custom"}
    <3>1. pc[w] = "idle" \/ kpc[w] # "privileged"
      BY <1>11 DEF CheckKey, RejectKey, K!Exists, K!GetID, K!CheckValid
    <3> QED  BY <1>0, <3>1 DEF LInv, Linked
  <2> QED  BY <1>2, <1>11, <2>1, <2>2 DEF CheckKey, RejectKey
<1> QED  BY <1>4, <1>5, <1>6, <1>7, <1>8, <1>9, <1>10, <1>11 DEF Next, Proceed

-----------------------------------------------------------------------------
(* The quota of an address holds for its records *)

\* Whose paste a step of Records accepts: that of the worker, with a key or at the
\* end of its quota.
LEMMA AcceptedByWorker ==
    ASSUME RP!IInv, NEW w \in Workers, NEW p \in Pastes, R!Proceed(w) \/ R!Fault(w),
           status[p] # "accepted", status'[p] = "accepted"
    PROVE  rec[w].body = p /\ (pc[w] = "quota" \/ op[w] \in {"keyed", "custom"})
<1>1. DOMAIN status = Pastes
  BY DEF RP!IInv, RP!TypeOK
<1>2. ~R!Refuse(w)
  BY <1>1 DEF R!Refuse
<1>3. status' # status
  OBVIOUS
<1>4. R!Stored(w) \/ (pc[w] = "quota" /\ R!Accept(w))
  BY <1>2, <1>3
  DEF R!Proceed, R!Exists, R!HGetAll, R!Load, R!GetBody, R!Requested, R!Generate,
      R!KeysExhausted, R!Prepare, R!QuotaVerdict, R!HSet, R!Arm, R!Expire, R!Fault,
      R!HSetUnacked, R!ExpireUnacked, R!Fail, R!clients
<1>5. R!Accept(w) /\ (pc[w] = "quota" \/ op[w] \in {"keyed", "custom"})
  BY <1>3, <1>4 DEF R!Stored, R!Serve, R!clients
<1> QED  BY <1>1, <1>5 DEF R!Accept

LEMMA DrainedRefused ==
    ASSUME LInv, RP!IInv, [Next]_vars, NEW i \in IPs, NEW p \in Pastes, Q!Drained(i),
           poster[p] = i, status[p] # "accepted"
    PROVE  status'[p] # "accepted"
<1> SUFFICES ASSUME status'[p] = "accepted" PROVE FALSE
  OBVIOUS
<1>0. DOMAIN status = Pastes /\ status' # status
  BY DEF RP!IInv, RP!TypeOK
<1>1. ASSUME NEW w \in Workers, RecordStep(w)
      PROVE  FALSE
  <2>1. rec[w].body = p /\ op[w] \in {"keyed", "custom"}
    BY <1>1, AcceptedByWorker DEF RecordStep
  <2> QED  BY <2>1, PostersAssumption DEF LInv, Linked
<1>2. ASSUME NEW w \in Workers, ManageQuota(w)
      PROVE  FALSE
  <2>1. CASE Q!Eval(w)
    <3>1. rec[w].body = p /\ pc[w] = "quota"
      BY <1>2, <2>1, AcceptedByWorker DEF ManageQuota, Answer, R!Proceed, Q!Eval, Q!Exists,
                                          Q!HGetAll, Q!Manage, records
    <3>2. ip[w] = i
      BY <3>1 DEF LInv, Linked
    <3> QED  BY <2>1, <3>2 DEF Q!Drained, Q!Eval
  <2>2. CASE ~Q!Eval(w)
    BY <1>0, <1>2, <2>2 DEF ManageQuota, Answer, records
  <2> QED  BY <2>1, <2>2
<1>3. ASSUME NEW w \in Workers, Fail(w)
      PROVE  FALSE
  <2>1. R!Fail(w)
    BY <1>0, <1>3 DEF Fail, R!HSetUnacked, R!ExpireUnacked, R!clients, records
  <2> QED  BY <1>0, <2>1 DEF R!Fail, R!Refuse
<1>4. ASSUME NEW w \in Workers, Begin(w) \/ Authorized(w)
      PROVE  FALSE
  BY <1>0, <1>4 DEF Begin, ShowKey, PostAnonymously, Authorized, PostWithKey, R!PostStart, records
<1>5. CASE Tick \/ Exit
  BY <1>0, <1>5 DEF Tick, Exit, R!Tick, R!Crash
<1>6. CASE Background \/ (\E a \in Admins : Administer(a)) \/ UNCHANGED vars
  BY <1>0, <1>6 DEF Background, Administer, vars, records
<1>7. ASSUME NEW w \in Workers, CheckKey(w) \/ RejectKey(w)
      PROVE  FALSE
  BY <1>0, <1>7 DEF CheckKey, RejectKey, records
<1> QED  BY <1>1, <1>2, <1>3, <1>4, <1>5, <1>6, <1>7 DEF Next, Proceed

\* Once the last unit of an address is stored and no request in flight knows better,
\* no paste of that address is answered with 201 before its quota is reset, although
\* the record is written before the quota is looked at.
THEOREM DrainedAddressRefused == Spec => DrainedAddressWaits
<1>1. Init => LInv
  BY LinkedInit
<1>2. RP!Spec => []RP!IInv
  BY RP!Invariant, ProofsApply
<1>3. KP!Spec => []KP!KInv
  BY KP!KeysInvariant, ProofsApply
<1>4. QP!Spec => []QP!QInv /\ QP!DrainedUntilReset
  BY QP!QuotaInvariant, QP!DrainedStays, ProofsApply
<1>5. \A i \in IPs : /\ Q!Drained(i) <=> QP!Drained(i)
                     /\ Q!Drained(i)' <=> QP!Drained(i)'
  BY DEF Q!Drained, QP!Drained
<1>6. /\ LInv /\ RP!IInv /\ [Next]_vars
      /\ [\A i \in IPs : QP!Drained(i) /\ value'[i] # Absent =>
            QP!Drained(i)' /\ charged'[i] = charged[i]]_(QP!vars)
      => [\A i \in IPs : Q!Drained(i) /\ value'[i] # Absent =>
            /\ Q!Drained(i)'
            /\ \A p \in Pastes : poster[p] = i /\ status[p] # "accepted"
                                => status'[p] # "accepted"]_vars
  <2> SUFFICES ASSUME LInv, RP!IInv, [Next]_vars,
                      [\A i \in IPs : QP!Drained(i) /\ value'[i] # Absent =>
                          QP!Drained(i)' /\ charged'[i] = charged[i]]_(QP!vars),
                      NEW i \in IPs, Q!Drained(i), value'[i] # Absent
               PROVE  /\ Q!Drained(i)'
                      /\ \A p \in Pastes : poster[p] = i /\ status[p] # "accepted"
                                          => status'[p] # "accepted"
    OBVIOUS
  <2>1. Q!Drained(i)'
    <3>1. CASE UNCHANGED QP!vars
      BY <3>1 DEF Q!Drained, QP!vars, QP!redis, QP!locals, QP!clients
    <3> QED  BY <1>5, <3>1
  <2> QED  BY <2>1, DrainedRefused
<1> QED  BY <1>1, <1>2, <1>3, <1>4, <1>6, Parts, LinkedNext, PTL
         DEF Spec, DrainedAddressWaits, QP!DrainedUntilReset

-----------------------------------------------------------------------------
(* A removed key stores nothing *)

\* What a step of Records writes is what the worker has in hand.
LEMMA WrittenByWorker ==
    ASSUME RP!IInv, NEW w \in Workers, NEW k \in Keys, R!Proceed(w) \/ R!Fault(w),
           hash'[k] \notin {hash[k], Absent}
    PROVE  hash'[k] = rec[w] /\ pc[w] = "hset"
<1>1. DOMAIN hash = Keys
  BY DEF RP!IInv, RP!TypeOK
<1>2. R!HSet(w) \/ R!HSetUnacked(w) \/ R!Expire(w) \/ R!ExpireUnacked(w)
  BY DEF R!Proceed, R!Exists, R!HGetAll, R!Load, R!GetBody, R!Requested, R!Generate,
         R!KeysExhausted, R!Prepare, R!QuotaVerdict, R!Arm, R!Fault, R!Fail, R!redis
<1>3. CASE R!HSet(w) \/ R!HSetUnacked(w)
  BY <1>1, <1>3 DEF R!HSet, R!HSetUnacked, R!SetHash
<1>4. CASE R!Expire(w) \/ R!ExpireUnacked(w)
  BY <1>1, <1>4 DEF R!Expire, R!ExpireUnacked, R!SetExpiry, R!redis
<1> QED  BY <1>2, <1>3, <1>4

\* Who writes for a key is past the check with it.
LEMMA WriterPrivileged ==
    ASSUME LInv, RP!IInv, QP!QInv, NEW w \in Workers, pc[w] = "hset",
           NEW n \in Names, poster[rec[w].body] = n
    PROVE  kpc[w] = "privileged" /\ name[w] = n
<1>1. op[w] \in {"get", "clicks", "anon", "keyed", "custom"}
  BY DEF RP!IInv, RP!TypeOK, RP!AllOps
<1>2. Linked(w)
  BY DEF LInv
<1>3. op[w] # "anon"
  <2>1. qpc[w] # "idle" => ip[w] \in IPs
    BY DEF QP!QInv, QP!InHand
  <2> QED  BY <1>2, <2>1, PostersAssumption DEF Linked
<1> QED  BY <1>1, <1>2, <1>3 DEF Linked

LEMMA RemovedStoresNothing ==
    ASSUME LInv, RP!IInv, QP!QInv, [Next]_vars, NEW n \in Names, K!Gone(n)
    PROVE  /\ \A p \in Pastes : poster'[p] = n => poster[p] = n
           /\ \A k \in Keys : hash'[k] \notin {hash[k], Absent} =>
                 poster[hash'[k].body] # n
<1> DEFINE Posted == \A p \in Pastes : poster'[p] = n => poster[p] = n
           Stored == \A k \in Keys : hash'[k] \notin {hash[k], Absent} =>
                         poster[hash'[k].body] # n
<1>0. \A w \in Workers : ~(kpc[w] = "privileged" /\ name[w] = n)
  BY DEF K!Gone
<1>1. ASSUME NEW w \in Workers, R!Proceed(w) \/ R!Fault(w)
      PROVE  Stored
  BY <1>0, <1>1, WrittenByWorker, WriterPrivileged
<1>2. ASSUME UNCHANGED hash
      PROVE  Stored
  BY <1>2
<1>3. ASSUME NEW w \in Workers, Begin(w) \/ Authorized(w)
      PROVE  Posted /\ Stored
  <2>1. UNCHANGED hash
    BY <1>3 DEF Begin, ShowKey, PostAnonymously, Authorized, PostWithKey, R!PostStart,
                R!redis, records
  <2>2. \/ UNCHANGED poster
        \/ \E p \in Pastes : \E x : x # n /\ poster' = [poster EXCEPT ![p] = x]
    BY <1>0, <1>3, PostersAssumption
       DEF Begin, ShowKey, PostAnonymously, Authorized, PostWithKey
  <2>3. Posted
    BY <2>2 DEF LInv
  <2> QED  BY <1>2, <2>1, <2>3
<1>4. ASSUME NEW w \in Workers, RecordStep(w) \/ ManageQuota(w)
      PROVE  Posted /\ Stored
  <2>1. UNCHANGED poster /\ (R!Proceed(w) \/ UNCHANGED hash)
    BY <1>4 DEF RecordStep, ManageQuota, Answer, records, R!Proceed
  <2> QED  BY <1>1, <1>2, <2>1
<1>5. ASSUME NEW w \in Workers, Fail(w)
      PROVE  Posted /\ Stored
  <2>1. UNCHANGED poster /\ (R!Fault(w) \/ UNCHANGED hash)
    BY <1>5 DEF Fail, records, R!Fault
  <2> QED  BY <1>1, <1>2, <2>1
<1>6. CASE Tick
  <2>1. UNCHANGED poster /\ \A k \in Keys : hash'[k] \in {hash[k], Absent}
    BY <1>6 DEF Tick, R!Tick
  <2> QED  BY <2>1
<1>7. CASE Exit \/ Background \/ (\E a \in Admins : Administer(a)) \/ UNCHANGED vars
  BY <1>2, <1>7 DEF Exit, R!Crash, R!redis, Background, Administer, vars, records
<1>8. ASSUME NEW w \in Workers, CheckKey(w) \/ RejectKey(w)
      PROVE  Posted /\ Stored
  BY <1>2, <1>8 DEF CheckKey, RejectKey, records
<1> QED  BY <1>3, <1>4, <1>5, <1>6, <1>7, <1>8 DEF Next, Proceed

\* Once a key is gone and no request is past the check with it, it never comes back,
\* no POST gets in with it, and none that did before writes another record.
THEOREM RemovedKeyIsOut == Spec => RemovedKeyStoresNothing
<1>1. Init => LInv
  BY LinkedInit
<1>2. RP!Spec => []RP!IInv
  BY RP!Invariant, ProofsApply
<1>3. KP!Spec => []KP!KInv /\ KP!GoneIsFinal
  BY KP!KeysInvariant, KP!RemovedForGood, ProofsApply
<1>4. QP!Spec => []QP!QInv
  BY QP!QuotaInvariant, ProofsApply
<1>5. \A n \in Names : (K!Gone(n) <=> KP!Gone(n)) /\ (K!Gone(n)' <=> KP!Gone(n)')
  BY DEF K!Gone, KP!Gone
<1>6. /\ LInv /\ RP!IInv /\ QP!QInv /\ [Next]_vars
      /\ [\A n \in Names : KP!Gone(n) => KP!Gone(n)']_(KP!vars)
      => [\A n \in Names : K!Gone(n) =>
            /\ K!Gone(n)'
            /\ \A p \in Pastes : poster'[p] = n => poster[p] = n
            /\ \A k \in Keys : hash'[k] \notin {hash[k], Absent} =>
                  poster[hash'[k].body] # n]_vars
  <2> SUFFICES ASSUME LInv, RP!IInv, QP!QInv, [Next]_vars,
                      [\A n \in Names : KP!Gone(n) => KP!Gone(n)']_(KP!vars),
                      NEW n \in Names, K!Gone(n)
               PROVE  /\ K!Gone(n)'
                      /\ \A p \in Pastes : poster'[p] = n => poster[p] = n
                      /\ \A k \in Keys : hash'[k] \notin {hash[k], Absent} =>
                            poster[hash'[k].body] # n
    OBVIOUS
  <2>1. K!Gone(n)'
    <3>1. CASE UNCHANGED KP!vars
      BY <3>1 DEF K!Gone, KP!vars
    <3> QED  BY <1>5, <3>1
  <2> QED  BY <2>1, RemovedStoresNothing
<1> QED  BY <1>1, <1>2, <1>3, <1>4, <1>6, Parts, LinkedNext, PTL
         DEF Spec, RemovedKeyStoresNothing, KP!GoneIsFinal
=============================================================================
