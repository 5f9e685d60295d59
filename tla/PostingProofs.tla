--------------------------- MODULE PostingProofs ----------------------------
(***************************************************************************)
(* Theorems about Posting, for all limits that satisfy its assumptions.    *)
(*                                                                         *)
(* No property is inductive: what is known of a request at one stage was   *)
(* checked at an earlier one.  PInv says for each stage what the checks    *)
(* before it have established, and Counted how the length and the          *)
(* countdown of the loop of GenerateUniqueKey account for its collisions.  *)
(***************************************************************************)
EXTENDS Posting, TLAPS

\* What holds of the request since each of its checks.
Authorized ==
    stage \in {"validate", "requested", "generate", "keyed"} =>
        privileged = (query.apikey = "valid") /\ query.apikey \in {"none", "valid"}

Parsed ==
    stage \in {"authorize", "validate", "requested", "generate", "keyed"} =>
        /\ TTLParses(query) /\ LengthParses(query)
        /\ DisposableParses(query) /\ KeyParses(query)

Validated ==
    stage \in {"requested", "generate", "keyed"} =>
        /\ IF privileged THEN PrivilegedValid(query) ELSE UnprivilegedValid(query)
        /\ reason = IF privileged THEN UsageReason(query) ELSE "none"

\* The length of the key in hand, from the query or from the loop.
LengthKept ==
    /\ stage = "requested" => Requests(query) /\ length = query.key
    /\ stage \in {"generate", "keyed"} =>
          length \in PrivilegedMinKeyLength .. MaxKeyLength
    /\ stage = "generate" => ~Requests(query) /\ length >= KeyLength(query)
    /\ stage = "keyed" /\ ~Requests(query) => length >= KeyLength(query)

PInv ==
    /\ query \in Queries
    /\ Parsed
    /\ Authorized
    /\ Validated
    /\ LengthKept

Limits ==
    {MinTTL, DefaultTTL, UnprivilegedMaxTTL, PrivilegedMaxTTL,
     MaxKeyLength, DefaultKeyLength, UnprivilegedMinKeyLength,
     PrivilegedMinKeyLength, UnprivilegedMaxBodySize, PrivilegedMaxBodySize}

\* The limits of the configuration are numbers in their order.
LEMMA LimitsOrdered ==
    /\ Limits \subseteq Int
    /\ MaxDisposable \in Nat
    /\ 0 < MinTTL /\ MinTTL <= DefaultTTL
    /\ DefaultTTL <= UnprivilegedMaxTTL /\ UnprivilegedMaxTTL <= PrivilegedMaxTTL
    /\ 0 < PrivilegedMinKeyLength
    /\ PrivilegedMinKeyLength <= UnprivilegedMinKeyLength
    /\ UnprivilegedMinKeyLength <= DefaultKeyLength /\ DefaultKeyLength <= MaxKeyLength
    /\ UnprivilegedMaxBodySize <= PrivilegedMaxBodySize
BY TTLLimitsAssumption, KeyLimitsAssumption, BodyLimitsAssumption,
   MaxDisposableAssumption DEF Limits

\* A parameter that parses is missing or a number in its range.
LEMMA ParsedNumbers ==
    ASSUME NEW q \in Queries,
           TTLParses(q), LengthParses(q), DisposableParses(q), KeyParses(q)
    PROVE  /\ TTL(q) \in {0} \cup (MinTTL .. PrivilegedMaxTTL)
           /\ KeyLength(q) \in PrivilegedMinKeyLength .. MaxKeyLength
           /\ Disposable(q) \in 0 .. MaxDisposable
           /\ Requests(q) => q.key \in PrivilegedMinKeyLength .. MaxKeyLength
BY LimitsOrdered DEF Limits, TTLParses, LengthParses, DisposableParses, KeyParses,
   ParsesAs, TTL, KeyLength, Disposable, Requests

\* A request begins with nothing established.
LEMMA InitPInv == Init => PInv
BY DEF Init, PInv, Parsed, Authorized, Validated, LengthKept

\* Parse establishes Parsed.
LEMMA ParseKeeps == PInv /\ Parse => PInv'
BY DEF PInv, Parse, Refuse, Parsed, Authorized, Validated, LengthKept,
   TTLParses, LengthParses, DisposableParses, KeyParses

\* Authorize establishes Authorized.
LEMMA AuthorizeKeeps == PInv /\ Authorize => PInv'
BY DEF PInv, Authorize, Refuse, Parsed, Authorized, Validated, LengthKept,
   TTLParses, LengthParses, DisposableParses, KeyParses

\* Validate establishes Validated, and chooses the length of the key.
LEMMA ValidateKeeps == PInv /\ Validate => PInv'
<1> SUFFICES ASSUME PInv, Validate PROVE PInv'
    OBVIOUS
<1>1. Parsed' /\ Authorized' /\ (query \in Queries)'
    BY DEF PInv, Validate, Refuse, Parsed, Authorized,
       TTLParses, LengthParses, DisposableParses, KeyParses
<1>2. Validated'
    BY DEF PInv, Validate, Refuse, Validated, PrivilegedValid, UnprivilegedValid,
       UsageReason, Requests, TTL, KeyLength
<1>3. LengthKept'
    <2>1. KeyLength(query) \in PrivilegedMinKeyLength .. MaxKeyLength
        BY ParsedNumbers DEF PInv, Parsed, Validate
    <2>2. CASE stage' = "generate"
        BY <2>1, <2>2, LimitsOrdered
        DEF Limits, Validate, Refuse, LengthKept, Requests, KeyLength
    <2>3. CASE stage' # "generate"
        BY <2>3 DEF Validate, Refuse, LengthKept, Requests
    <2> QED BY <2>2, <2>3
<1> QED BY <1>1, <1>2, <1>3 DEF PInv

\* A requested key has the length that was parsed.
LEMMA RequestedKeeps == PInv /\ Requested => PInv'
<1> SUFFICES ASSUME PInv, Requested PROVE PInv'
    OBVIOUS
<1>1. Parsed' /\ Authorized' /\ Validated' /\ (query \in Queries)'
    BY DEF PInv, Requested, Parsed, Authorized, Validated, TTLParses, LengthParses,
       DisposableParses, KeyParses, PrivilegedValid, UnprivilegedValid, UsageReason,
       Requests, TTL, KeyLength
<1>2. query.key \in PrivilegedMinKeyLength .. MaxKeyLength
    BY ParsedNumbers DEF PInv, Requested, Parsed, LengthKept
<1>3. LengthKept'
    BY <1>2 DEF PInv, Requested, LengthKept, Requests
<1> QED BY <1>1, <1>3 DEF PInv

\* The length only grows, and never beyond the maximum.
LEMMA AttemptKeeps ==
    ASSUME NEW exists \in BOOLEAN, PInv, Attempt(exists) PROVE PInv'
<1>1. Parsed' /\ Authorized' /\ Validated' /\ (query \in Queries)'
    BY DEF PInv, Attempt, Refuse, Parsed, Authorized, Validated, TTLParses,
       LengthParses, DisposableParses, KeyParses, PrivilegedValid,
       UnprivilegedValid, UsageReason, Requests, TTL, KeyLength
<1>2. KeyLength(query) \in PrivilegedMinKeyLength .. MaxKeyLength
    BY ParsedNumbers DEF PInv, Attempt, Parsed
<1>3. LengthKept'
    BY <1>2, LimitsOrdered
    DEF Limits, PInv, Attempt, Refuse, LengthKept, Requests, KeyLength
<1> QED BY <1>1, <1>3 DEF PInv

\* A request that fails is refused.
LEMMA FailKeeps == PInv /\ Fail => PInv'
BY DEF PInv, Fail, Refuse, Parsed, Authorized, Validated, LengthKept

\* What the checks have established holds at every stage.
THEOREM StageInvariant == Spec => []PInv
<1>1. ASSUME PInv, [Next]_vars PROVE PInv'
    <2>1. CASE Parse BY <1>1, <2>1, ParseKeeps
    <2>2. CASE Authorize BY <1>1, <2>2, AuthorizeKeeps
    <2>3. CASE Validate BY <1>1, <2>3, ValidateKeeps
    <2>4. CASE Requested BY <1>1, <2>4, RequestedKeeps
    <2>5. CASE \E exists \in BOOLEAN : Attempt(exists)
        BY <1>1, <2>5, AttemptKeeps
    <2>6. CASE Fail BY <1>1, <2>6, FailKeeps
    <2>7. CASE UNCHANGED vars
        BY <1>1, <2>7 DEF vars, PInv, Parsed, Authorized, Validated, LengthKept,
           TTLParses, LengthParses, DisposableParses, KeyParses, PrivilegedValid,
           UnprivilegedValid, UsageReason, Requests, TTL, KeyLength
    <2> QED BY <1>1, <2>1, <2>2, <2>3, <2>4, <2>5, <2>6, <2>7 DEF Next, Proceed
<1> QED BY <1>1, InitPInv, PTL DEF Spec

\* A request that is given a key is within the limits of its class, whatever the
\* limits are: the checks of the handler and of the service complete each other.
THEOREM KeyedWithinLimits == Spec => []WithinLimits
<1>1. ASSUME PInv, stage = "keyed" PROVE WithinLimits
    <2>1. /\ TTL(query) \in {0} \cup (MinTTL .. PrivilegedMaxTTL)
          /\ KeyLength(query) \in PrivilegedMinKeyLength .. MaxKeyLength
          /\ Disposable(query) \in 0 .. MaxDisposable
        BY <1>1, ParsedNumbers DEF PInv, Parsed
    <2>2. /\ query.apikey \in {"none", "valid"}
          /\ privileged = (query.apikey = "valid")
          /\ IF privileged THEN PrivilegedValid(query) ELSE UnprivilegedValid(query)
          /\ length \in PrivilegedMinKeyLength .. MaxKeyLength
          /\ ~Requests(query) => length >= KeyLength(query)
        BY <1>1 DEF PInv, Authorized, Validated, LengthKept
    <2>3. CASE privileged
        BY <1>1, <2>1, <2>2, <2>3 DEF WithinLimits, PrivilegedValid
    <2>4. CASE ~privileged
        <3>1. UnprivilegedValid(query) /\ query.apikey = "none"
            BY <2>2, <2>4
        <3>2. length \in UnprivilegedMinKeyLength .. MaxKeyLength
            BY <2>1, <2>2, <3>1, LimitsOrdered DEF Limits, UnprivilegedValid
        <3>3. TTL(query) \in MinTTL .. UnprivilegedMaxTTL
            BY <2>1, <3>1, LimitsOrdered DEF Limits, UnprivilegedValid
        <3> QED BY <2>1, <2>4, <3>1, <3>2, <3>3 DEF WithinLimits, UnprivilegedValid
    <2> QED BY <2>3, <2>4
<1>2. PInv => WithinLimits
    BY <1>1 DEF WithinLimits
<1> QED BY <1>2, StageInvariant, PTL

\* The usage event says that the API key was needed, for any limits; the only
\* privilege that goes unreported is a ttl above the unprivileged maximum.
THEOREM UsageReported == Spec => []PrivilegesReported
<1>1. ASSUME PInv, stage \in {"requested", "generate", "keyed"}
      PROVE  PrivilegesReported
    <2>1. /\ TTL(query) \in {0} \cup (MinTTL .. PrivilegedMaxTTL)
          /\ KeyLength(query) \in PrivilegedMinKeyLength .. MaxKeyLength
          /\ query.size \in Nat
        BY <1>1, ParsedNumbers, QueriesAssumption DEF PInv, Parsed, AllQueries
    <2>2. /\ privileged = (query.apikey = "valid")
          /\ IF privileged THEN PrivilegedValid(query) ELSE UnprivilegedValid(query)
          /\ reason = IF privileged THEN UsageReason(query) ELSE "none"
        BY <1>1 DEF PInv, Authorized, Validated
    <2>3. CASE privileged
        <3>1. UsageReason(query) # "none" => ~UnprivilegedValid(query)
            BY <2>1, LimitsOrdered DEF Limits, UsageReason, UnprivilegedValid
        <3>2. UsageReason(query) = "none" =>
                  UnprivilegedValid(query) \/ TTL(query) > UnprivilegedMaxTTL
            BY <2>1, LimitsOrdered DEF Limits, UsageReason, UnprivilegedValid
        <3> QED BY <2>2, <2>3, <3>1, <3>2 DEF PrivilegesReported
    <2>4. CASE ~privileged
        BY <2>2, <2>4 DEF PrivilegesReported
    <2> QED BY <2>3, <2>4
<1>2. PInv => PrivilegesReported
    BY <1>1 DEF PrivilegesReported
<1> QED BY <1>2, StageInvariant, PTL
-----------------------------------------------------------------------------
(* The loop of GenerateUniqueKey *)

PerLength == AttemptsToIncreaseKeyMinLength

\* Attempts at all lengths from n on.
Attempts(n) == PerLength * (MaxKeyLength - n + 1)

\* The collisions so far, from the length the loop has come to and its countdown.
Collisions(n) == PerLength * (length - n) + (PerLength - countdown)

\* What the loop has counted when it goes on, when it ends, and before it begins.
Counted ==
    /\ tries \in Nat
    /\ stage \in {"parse", "authorize", "validate", "requested",
                  "generate", "keyed", "refused"}
    /\ stage \in {"parse", "authorize", "validate", "requested"} => tries = 0
    /\ stage = "generate" =>
          countdown \in 1 .. PerLength /\ tries = Collisions(KeyLength(query))
    /\ stage = "keyed" /\ ~Requests(query) =>
          /\ countdown \in 1 .. PerLength /\ tries - 1 = Collisions(KeyLength(query))
          /\ tries < Attempts(KeyLength(query))
    /\ stage = "refused" /\ tries > 0 /\ ~Requests(query) =>
          tries <= Attempts(KeyLength(query))

\* Attempts are counted in rounds of PerLength.
LEMMA Rounds ==
    ASSUME NEW a \in Nat, NEW r \in 0 .. (PerLength - 1)
    PROVE  /\ PerLength * a + r \in Nat
           /\ (PerLength * a + r) \div PerLength = a
           /\ PerLength * (a + 1) = PerLength * a + PerLength
<1> DEFINE P == PerLength
           n == P * a + r
<1>1. P \in Nat \ {0} /\ P * a \in Nat
  BY AttemptsAssumption DEF PerLength
<1>2. n \div P \in Int /\ n = P * (n \div P) + (n % P) /\ n % P \in 0 .. (P - 1)
  BY <1>1
<1>3. n \div P = a
  <2> DEFINE q == n \div P
             m == n % P
  <2>1. q \in Int /\ m \in 0 .. (P - 1) /\ P * a + r = P * q + m
    BY <1>2
  <2> HIDE DEF q, m, n
  <2>2. CASE q >= a + 1
    <3>1. P * q >= P * (a + 1)
      BY <1>1, <2>1, <2>2
    <3> QED  BY <1>1, <2>1, <3>1
  <2>3. CASE q <= a - 1
    <3>1. P * q <= P * (a - 1)
      BY <1>1, <2>1, <2>3
    <3>2. P * (a - 1) = P * a - P
      BY <1>1
    <3> QED  BY <1>1, <2>1, <3>1, <3>2
  <2>4. CASE q = a
    BY <2>4 DEF q
  <2> QED  BY <2>1, <2>2, <2>3, <2>4
<1>4. P * (a + 1) = P * a + P
  BY <1>1
<1> QED  BY <1>1, <1>3, <1>4

LEMMA RoundsGrow ==
    ASSUME NEW a \in Nat, NEW b \in Nat, a <= b
    PROVE  PerLength * a \in Nat /\ PerLength * a <= PerLength * b
BY AttemptsAssumption DEF PerLength
\* The loop is under way, between the length asked for and the maximum.
LEMMA CollisionsBounded ==
    ASSUME PInv, Counted, stage = "generate"
    PROVE  /\ ~Requests(query) /\ length \in Int /\ MaxKeyLength \in Int
           /\ KeyLength(query) \in Int
           /\ KeyLength(query) <= length /\ length <= MaxKeyLength
           /\ PerLength \in Nat \ {0}
           /\ PerLength * (length - KeyLength(query)) \in Nat
           /\ tries < Attempts(KeyLength(query))
           /\ length < MaxKeyLength => tries + 1 < Attempts(KeyLength(query))
           /\ countdown > 1 => tries + 1 < Attempts(KeyLength(query))
<1> DEFINE n == KeyLength(query)
<1>1. /\ ~Requests(query) /\ length \in Int /\ MaxKeyLength \in Int
      /\ n \in Int /\ n <= length /\ length <= MaxKeyLength
      /\ PerLength \in Nat \ {0}
      /\ countdown \in 1 .. PerLength /\ tries = Collisions(n)
  <2>1. n \in PrivilegedMinKeyLength .. MaxKeyLength
    BY ParsedNumbers DEF PInv, Parsed
  <2> QED  BY <2>1, LimitsOrdered, AttemptsAssumption
           DEF Limits, PInv, LengthKept, Counted, PerLength
<1> HIDE DEF n
<1>2. PerLength * (length - n) \in Nat
  BY <1>1, RoundsGrow
<1>3. Attempts(n) = PerLength * (MaxKeyLength - n) + PerLength
  BY <1>1, Rounds DEF Attempts
<1>4. PerLength * (length - n) <= PerLength * (MaxKeyLength - n)
      /\ PerLength * (MaxKeyLength - n) \in Nat
  BY <1>1, RoundsGrow
<1>5. length < MaxKeyLength =>
          PerLength * (length - n) + PerLength <= PerLength * (MaxKeyLength - n)
  <2> SUFFICES ASSUME length < MaxKeyLength
               PROVE  PerLength * (length - n) + PerLength <= PerLength * (MaxKeyLength - n)
    OBVIOUS
  <2>1. PerLength * (length - n + 1) = PerLength * (length - n) + PerLength
    BY <1>1, Rounds
  <2>2. PerLength * (length - n + 1) <= PerLength * (MaxKeyLength - n)
    BY <1>1, RoundsGrow
  <2> QED  BY <2>1, <2>2
<1>6. tries = PerLength * (length - n) + (PerLength - countdown)
  BY <1>1 DEF Collisions
<1>7. PerLength * (length - n) \in Int /\ PerLength * (MaxKeyLength - n) \in Int
  BY <1>2, <1>4
<1>8. tries < Attempts(n)
  BY <1>1, <1>3, <1>4, <1>6, <1>7
<1>9. length < MaxKeyLength => tries + 1 < Attempts(n)
  BY <1>1, <1>3, <1>5, <1>6, <1>7
<1>10. countdown > 1 => tries + 1 < Attempts(n)
  BY <1>1, <1>3, <1>4, <1>6, <1>7
<1> QED  BY <1>1, <1>2, <1>8, <1>9, <1>10 DEF n

\* A turn of the loop counts one more collision, or ends in time.
LEMMA AttemptCounts ==
    ASSUME NEW exists \in BOOLEAN, PInv, Counted, Attempt(exists) PROVE Counted'
<1> PICK n : n = KeyLength(query)
  OBVIOUS
<1>1. /\ ~Requests(query) /\ length \in Int /\ MaxKeyLength \in Int /\ n \in Int
      /\ n <= length /\ length <= MaxKeyLength
      /\ PerLength \in Nat \ {0} /\ PerLength * (length - n) \in Nat
      /\ tries < Attempts(n)
      /\ length < MaxKeyLength => tries + 1 < Attempts(n)
      /\ countdown > 1 => tries + 1 < Attempts(n)
  BY CollisionsBounded DEF Attempt
<1>2. /\ countdown \in 1 .. PerLength /\ tries = Collisions(n) /\ tries \in Nat
  BY DEF Attempt, Counted
<1>3. /\ tries' = tries + 1 /\ tries' \in Nat
      /\ UNCHANGED query /\ Requests(query)' = Requests(query)
      /\ KeyLength(query)' = n /\ Attempts(n)' = Attempts(n) /\ PerLength' = PerLength
  BY <1>2 DEF Attempt, Requests, KeyLength, Attempts, PerLength
<1>4. PerLength * (length + 1 - n) = PerLength * (length - n) + PerLength
  <2>1. PerLength * (length - n + 1) = PerLength * (length - n) + PerLength
    BY <1>1, Rounds
  <2>2. length + 1 - n = length - n + 1
    BY <1>1
  <2> QED  BY <2>1, <2>2
<1>5. Attempts(n) \in Int
  BY <1>1, AttemptsAssumption DEF Attempts, PerLength
<1>6. CASE stage' = "refused"
  BY <1>1, <1>2, <1>3, <1>5, <1>6 DEF Counted
<1>7. CASE stage' = "keyed"
  <2>1. /\ length' = length /\ countdown' = countdown
        /\ ~Spent(countdown) \/ length < MaxKeyLength
    BY <1>1, <1>7 DEF Attempt, Refuse
  <2>2. countdown > 1 \/ length < MaxKeyLength
    BY <1>2, <2>1 DEF Spent
  <2>3. tries' - 1 = Collisions(n)'
    BY <1>2, <1>3, <2>1 DEF Collisions, PerLength
  <2> QED  BY <1>1, <1>2, <1>3, <1>7, <2>1, <2>2, <2>3 DEF Counted, PerLength
<1>8. CASE stage' = "generate"
  <2>1. /\ length' = IF Spent(countdown) THEN length + 1 ELSE length
        /\ countdown' = IF Spent(countdown) THEN PerLength ELSE countdown - 1
    BY <1>8 DEF Attempt, Refuse, PerLength
  <2>2. CASE Spent(countdown)
    <3>1. countdown = 1 /\ countdown' = PerLength /\ length' = length + 1
      BY <1>2, <2>1, <2>2 DEF Spent
    <3>2. tries' = Collisions(n)'
      BY <1>1, <1>2, <1>3, <1>4, <3>1 DEF Collisions, PerLength
    <3> QED  BY <1>1, <1>3, <1>8, <3>1, <3>2 DEF Counted, PerLength
  <2>3. CASE ~Spent(countdown)
    <3>1. countdown > 1 /\ countdown' = countdown - 1 /\ length' = length
      BY <1>2, <2>1, <2>3 DEF Spent
    <3>2. tries' = Collisions(n)'
      BY <1>1, <1>2, <1>3, <3>1 DEF Collisions, PerLength
    <3> QED  BY <1>1, <1>2, <1>3, <1>8, <3>1, <3>2 DEF Counted, PerLength
  <2> QED  BY <2>2, <2>3
<1> QED  BY <1>6, <1>7, <1>8 DEF Attempt, Refuse

LEMMA CountedNext == PInv /\ Counted /\ [Next]_vars => Counted'
<1> SUFFICES ASSUME PInv, Counted, [Next]_vars PROVE Counted'
  OBVIOUS
<1>1. CASE Parse \/ Authorize \/ Requested
  BY <1>1 DEF Parse, Authorize, Requested, Refuse, Counted, PInv, LengthKept, Requests
<1>2. CASE Validate
  <2>1. CASE stage' = "generate"
    <3>1. /\ countdown' = PerLength /\ length' = KeyLength(query) /\ tries' = 0
          /\ UNCHANGED query
      BY <1>2, <2>1 DEF Validate, Refuse, Counted, PerLength
    <3>2. KeyLength(query)' = KeyLength(query) /\ KeyLength(query) \in Int
      BY <1>2, <3>1, ParsedNumbers, LimitsOrdered
      DEF KeyLength, PInv, Parsed, Validate, Limits
    <3>3. Collisions(KeyLength(query))' = 0 /\ PerLength' \in Nat \ {0}
      BY <3>1, <3>2, AttemptsAssumption DEF Collisions, PerLength
    <3> QED  BY <2>1, <3>1, <3>2, <3>3 DEF Counted, PerLength
  <2>2. CASE stage' # "generate"
    BY <1>2, <2>2 DEF Validate, Refuse, Counted
  <2> QED  BY <2>1, <2>2
<1>3. CASE \E exists \in BOOLEAN : Attempt(exists)
  BY <1>3, AttemptCounts
<1>4. CASE Fail
  <2>1. UNCHANGED <<query, tries>> /\ stage' = "refused" /\ tries' \in Nat
    BY <1>4 DEF Fail, Refuse, Counted
  <2>2. tries > 0 => stage = "generate"
    BY <1>4 DEF Fail, Counted
  <2>3. stage = "generate" => tries <= Attempts(KeyLength(query))
    <3>1. Attempts(KeyLength(query)) \in Int \/ stage # "generate"
      BY CollisionsBounded, AttemptsAssumption DEF Attempts, PerLength
    <3> QED  BY <3>1, CollisionsBounded DEF Counted
  <2>4. Attempts(KeyLength(query))' = Attempts(KeyLength(query))
    BY <2>1 DEF Attempts, KeyLength, PerLength
  <2> QED  BY <2>1, <2>2, <2>3, <2>4 DEF Counted
<1>5. CASE UNCHANGED vars
  BY <1>5 DEF vars, Counted, Collisions, Attempts, PerLength, KeyLength, Requests
<1> QED  BY <1>1, <1>2, <1>3, <1>4, <1>5 DEF Next, Proceed

\* For every configuration, the length of a key follows from the number of
\* collisions before it, and the loop of GenerateUniqueKey gives up in time.
THEOREM LoopCounted == Spec => []KeyGrowsWithCollisions
<1> DEFINE n == KeyLength(query)
<1>1. ASSUME PInv, Counted, ~Requests(query), stage = "generate"
      PROVE  length = n + tries \div PerLength /\ tries <= Attempts(n)
  <2>1. /\ length - n \in Nat /\ length \in Int /\ n \in Int
        /\ PerLength - countdown \in 0 .. (PerLength - 1)
        /\ tries = PerLength * (length - n) + (PerLength - countdown)
    BY <1>1, CollisionsBounded DEF Counted, Collisions
  <2>2. tries \div PerLength = length - n
    BY <2>1, Rounds
  <2>3. tries <= Attempts(n)
    <3>1. Attempts(n) \in Int
      BY <1>1, CollisionsBounded, AttemptsAssumption DEF Attempts, PerLength
    <3> QED  BY <1>1, <3>1, CollisionsBounded DEF Counted
  <2> QED  BY <2>1, <2>2, <2>3
<1>2. ASSUME PInv, Counted, ~Requests(query), stage = "keyed"
      PROVE  /\ length = n + (tries - 1) \div PerLength
             /\ tries < Attempts(n) /\ tries <= Attempts(n)
  <2>1. /\ length - n \in Nat /\ length \in Int /\ n \in Int
        /\ PerLength - countdown \in 0 .. (PerLength - 1)
        /\ tries - 1 = PerLength * (length - n) + (PerLength - countdown)
        /\ tries < Attempts(n)
    <3>1. n \in PrivilegedMinKeyLength .. MaxKeyLength
      BY <1>2, ParsedNumbers DEF PInv, Parsed
    <3> QED  BY <1>2, <3>1, LimitsOrdered, AttemptsAssumption
             DEF Counted, Collisions, PInv, LengthKept, Limits, PerLength
  <2>2. (tries - 1) \div PerLength = length - n
    BY <2>1, Rounds
  <2>3. Attempts(n) \in Int /\ tries \in Nat
    BY <1>2, <2>1, LimitsOrdered, AttemptsAssumption DEF Limits, Attempts, PerLength, Counted
  <2> QED  BY <2>1, <2>2, <2>3
<1>3. PInv /\ Counted => KeyGrowsWithCollisions
  <2> SUFFICES ASSUME PInv, Counted, ~Requests(query), tries > 0
               PROVE  /\ stage = "keyed" =>
                            /\ length = n + (tries - 1) \div PerLength
                            /\ tries < Attempts(n)
                      /\ stage = "generate" => length = n + tries \div PerLength
                      /\ tries <= Attempts(n)
    BY DEF KeyGrowsWithCollisions, Attempts, PerLength
  <2>1. stage \in {"generate", "keyed", "refused"}
    BY DEF Counted
  <2>2. tries <= Attempts(n)
    BY <1>1, <1>2, <2>1 DEF Counted
  <2> QED  BY <1>1, <1>2, <2>2
<1>4. Init => Counted
  BY DEF Init, Counted
<1> QED  BY <1>3, <1>4, CountedNext, StageInvariant, PTL DEF Spec
=============================================================================
