------------------------------ MODULE Posting -------------------------------
(***************************************************************************)
(* A POST before its record exists: the query parameters that Handlers     *)
(* parses, the limits that CacheService.Serve checks for the class of the  *)
(* poster, the usage event of an API key, and the loop of                  *)
(* GenerateUniqueKey.  Records begins where a request leaves this module.  *)
(*                                                                         *)
(* A request shares nothing with others here but the keys that exist, and  *)
(* whether a random key exists is anybody's guess, so one request is all   *)
(* there is to model.                                                      *)
(***************************************************************************)
EXTENDS Integers

CONSTANTS
    \* CacheValidationConfig and CachingConfig
    MinTTL, DefaultTTL, UnprivilegedMaxTTL, PrivilegedMaxTTL,
    MaxKeyLength, DefaultKeyLength, UnprivilegedMinKeyLength, PrivilegedMinKeyLength,
    UnprivilegedMaxBodySize, PrivilegedMaxBodySize,
    AttemptsToIncreaseKeyMinLength,
    MaxDisposable,  \* the largest uint8
    Queries,        \* requests: a subset of AllQueries
    Missing, Unparsable

ASSUME TTLLimitsAssumption ==
    /\ {MinTTL, DefaultTTL, UnprivilegedMaxTTL, PrivilegedMaxTTL} \subseteq Nat
    /\ 0 < MinTTL /\ MinTTL <= DefaultTTL
    /\ DefaultTTL <= UnprivilegedMaxTTL /\ UnprivilegedMaxTTL <= PrivilegedMaxTTL
ASSUME KeyLimitsAssumption ==
    /\ {MaxKeyLength, DefaultKeyLength, UnprivilegedMinKeyLength,
        PrivilegedMinKeyLength} \subseteq 1 .. 254
    /\ PrivilegedMinKeyLength <= UnprivilegedMinKeyLength
    /\ UnprivilegedMinKeyLength <= DefaultKeyLength /\ DefaultKeyLength <= MaxKeyLength
ASSUME BodyLimitsAssumption ==
    /\ {UnprivilegedMaxBodySize, PrivilegedMaxBodySize} \subseteq Nat
    /\ UnprivilegedMaxBodySize <= PrivilegedMaxBodySize
ASSUME AttemptsAssumption == AttemptsToIncreaseKeyMinLength \in Nat \ {0}
ASSUME MaxDisposableAssumption == MaxDisposable \in Nat
ASSUME SentinelsAssumption == {Missing, Unparsable} \cap Int = {}

\* A parameter is missing, no number, or a number; a requested key is its
\* length, Unparsable when it has a character that is not allowed; url tells
\* whether the parameter is set and the body then is a URL; apikey tells what
\* checkAPIKey finds (module APIKeys).
AllQueries ==
    [ttl : Int \cup {Missing, Unparsable}, len : Int \cup {Missing, Unparsable},
     disposable : Int \cup {Missing, Unparsable}, key : Nat \cup {Missing, Unparsable},
     url : {"unset", "valid", "invalid", Unparsable}, size : Nat,
     apikey : {"none", "unknown", "invalid", "valid"}]

ASSUME QueriesAssumption == Queries \subseteq AllQueries

VARIABLES
    stage,      \* what the request waits for: "parse", "authorize", "validate",
                \* "requested", "generate"; it ends "keyed" or "refused"
    query,      \* the request
    privileged, \* whether checkAPIKey has let it through
    reason,     \* the usage event that was published, or "none"
    length,     \* minLength of the loop, then the length of the key given
    countdown,  \* attempts until minLength grows
    tries       \* keys the loop has looked up (for the properties only)

vars == <<stage, query, privileged, reason, length, countdown, tries>>

-----------------------------------------------------------------------------
(* parseAndValidateRequestParams *)

ParsesAs(text, Range) == text = Missing \/ (text # Unparsable /\ text \in Range)

TTLParses(q) == ParsesAs(q.ttl, {0} \cup (MinTTL .. PrivilegedMaxTTL))
LengthParses(q) == ParsesAs(q.len, PrivilegedMinKeyLength .. MaxKeyLength)
DisposableParses(q) == ParsesAs(q.disposable, 0 .. MaxDisposable)
KeyParses(q) == ParsesAs(q.key, PrivilegedMinKeyLength .. MaxKeyLength)
URLParses(q) == q.url \notin {"invalid", Unparsable}

TTL(q) == IF q.ttl = Missing THEN DefaultTTL ELSE q.ttl
KeyLength(q) == IF q.len = Missing THEN DefaultKeyLength ELSE q.len
Disposable(q) == IF q.disposable = Missing THEN 0 ELSE q.disposable
Requests(q) == q.key # Missing

-----------------------------------------------------------------------------
(* The limits of CacheService *)

\* getRequestedKey has checked the requested key against the same limits.
PrivilegedValid(q) ==
    /\ q.size <= PrivilegedMaxBodySize
    /\ TTL(q) <= PrivilegedMaxTTL
    /\ KeyLength(q) >= PrivilegedMinKeyLength
    /\ KeyLength(q) <= MaxKeyLength

\* Mutant: a ttl of 0 is not below the minimum.
UnprivilegedValidEternal(q) ==
    /\ ~Requests(q)
    /\ q.size <= UnprivilegedMaxBodySize
    /\ TTL(q) = 0 \/ TTL(q) >= MinTTL
    /\ TTL(q) <= UnprivilegedMaxTTL
    /\ KeyLength(q) >= UnprivilegedMinKeyLength
    /\ KeyLength(q) <= MaxKeyLength

UnprivilegedValid(q) ==
    /\ ~Requests(q)
    /\ q.size <= UnprivilegedMaxBodySize
    /\ TTL(q) >= MinTTL
    /\ TTL(q) <= UnprivilegedMaxTTL
    /\ KeyLength(q) >= UnprivilegedMinKeyLength
    /\ KeyLength(q) <= MaxKeyLength

\* Mutant: large bodies are not reported.
UsageReasonSmall(q) ==
    IF TTL(q) = 0 THEN "PERSISTKEY"
    ELSE IF KeyLength(q) < UnprivilegedMinKeyLength THEN "CUSTOMKEYLEN"
    ELSE IF Requests(q) THEN "CUSTOMKEY"
    ELSE "none"

\* logAPIKeyUsage: the first reason that applies.
UsageReason(q) ==
    IF TTL(q) = 0 THEN "PERSISTKEY"
    ELSE IF KeyLength(q) < UnprivilegedMinKeyLength THEN "CUSTOMKEYLEN"
    ELSE IF Requests(q) THEN "CUSTOMKEY"
    ELSE IF q.size > UnprivilegedMaxBodySize THEN "LARGEBODY"
    ELSE "none"

-----------------------------------------------------------------------------
(* The steps of the request *)

Refuse == stage' = "refused"

\* 400, or on to Serve.
Parse ==
    /\ stage = "parse"
    /\ IF TTLParses(query) /\ LengthParses(query)
          /\ DisposableParses(query) /\ KeyParses(query) /\ URLParses(query)
       THEN stage' = "authorize" ELSE Refuse
    /\ UNCHANGED <<query, privileged, reason, length, countdown, tries>>

\* checkAPIKey: 401 for a key that is unknown or invalid.
Authorize ==
    /\ stage = "authorize"
    /\ IF query.apikey \in {"none", "valid"} THEN stage' = "validate" ELSE Refuse
    /\ privileged' = (query.apikey = "valid")
    /\ UNCHANGED <<query, reason, length, countdown, tries>>

\* 400, 401 or 413, or on to the key of the record.
Validate ==
    /\ stage = "validate"
    /\ \/ /\ IF privileged THEN PrivilegedValid(query) ELSE UnprivilegedValid(query)
          /\ reason' = IF privileged THEN UsageReason(query) ELSE "none"
          /\ stage' = IF Requests(query) THEN "requested" ELSE "generate"
          /\ length' = IF Requests(query) THEN query.key ELSE KeyLength(query)
          /\ countdown' = AttemptsToIncreaseKeyMinLength
       \/ /\ ~(IF privileged THEN PrivilegedValid(query) ELSE UnprivilegedValid(query))
          /\ Refuse
          /\ UNCHANGED <<reason, length, countdown>>
    /\ UNCHANGED <<query, privileged, tries>>

\* getRecordKey: a requested key is free or it is not.
Requested ==
    /\ stage = "requested"
    /\ stage' \in {"keyed", "refused"}
    /\ UNCHANGED <<query, privileged, reason, length, countdown, tries>>

Spent(n) == n - 1 < 1

\* Mutant: the countdown is not started again.
AttemptOnce(exists) ==
    /\ stage = "generate"
    /\ tries' = tries + 1
    /\ LET minLength == IF Spent(countdown) THEN length + 1 ELSE length IN
       \/ minLength > MaxKeyLength /\ Refuse /\ UNCHANGED <<length, countdown>>
       \/ /\ minLength <= MaxKeyLength /\ exists
          /\ length' = minLength
          /\ countdown' = countdown - 1
          /\ UNCHANGED stage
       \/ /\ minLength <= MaxKeyLength /\ ~exists
          /\ stage' = "keyed"
          /\ UNCHANGED <<length, countdown>>
    /\ UNCHANGED <<query, privileged, reason>>

\* Mutant: the loop does not give up at the maximal length.
AttemptForever(exists) ==
    /\ stage = "generate"
    /\ LET minLength == IF Spent(countdown) /\ length < MaxKeyLength
                        THEN length + 1 ELSE length IN
       \/ /\ exists
          /\ length' = minLength
          /\ countdown' = IF Spent(countdown) THEN AttemptsToIncreaseKeyMinLength
                          ELSE countdown - 1
          /\ UNCHANGED stage
       \/ ~exists /\ stage' = "keyed" /\ UNCHANGED <<length, countdown>>
    /\ UNCHANGED <<query, privileged, reason, tries>>

\* One turn of the loop of GenerateUniqueKey.  When the countdown ends at the
\* maximal length the loop gives up, even if this last key was unused.
Attempt(exists) ==
    /\ stage = "generate"
    /\ tries' = tries + 1
    /\ LET minLength == IF Spent(countdown) THEN length + 1 ELSE length IN
       \/ minLength > MaxKeyLength /\ Refuse /\ UNCHANGED <<length, countdown>>
       \/ /\ minLength <= MaxKeyLength /\ exists
          /\ length' = minLength
          /\ countdown' = IF Spent(countdown) THEN AttemptsToIncreaseKeyMinLength
                          ELSE countdown - 1
          /\ UNCHANGED stage
       \/ /\ minLength <= MaxKeyLength /\ ~exists
          /\ stage' = "keyed"
          /\ UNCHANGED <<length, countdown>>
    /\ UNCHANGED <<query, privileged, reason>>

\* The body cannot be read, a command fails, or the context is over.
Fail ==
    /\ stage \in {"parse", "authorize", "requested", "generate"}
    /\ stage = "authorize" => query.apikey # "none"
    /\ Refuse
    /\ UNCHANGED <<query, privileged, reason, length, countdown, tries>>

\* A request has come.
Init ==
    /\ stage = "parse"
    /\ query \in Queries
    /\ privileged = FALSE
    /\ reason = "none"
    /\ length = 0 /\ countdown = 0 /\ tries = 0

Proceed ==
    \/ Parse \/ Authorize \/ Validate \/ Requested
    \/ \E exists \in BOOLEAN : Attempt(exists)

Next == Proceed \/ Fail

Spec == Init /\ [][Next]_vars

\* The goroutine of the request runs and Redis answers.
FairSpec == Spec /\ WF_vars(Proceed)

-----------------------------------------------------------------------------
(* Properties *)

\* What reaches Records is within the limits of its class, although they are
\* checked in two layers that do not agree: the handler lets a ttl of 0, a short
\* key and a requested key through for everybody.
WithinLimits ==
    stage = "keyed" =>
        /\ Disposable(query) \in 0 .. MaxDisposable
        /\ IF privileged
           THEN /\ query.apikey = "valid"
                /\ TTL(query) \in {0} \cup (MinTTL .. PrivilegedMaxTTL)
                /\ length \in PrivilegedMinKeyLength .. MaxKeyLength
                /\ query.size <= PrivilegedMaxBodySize
           ELSE /\ query.apikey = "none" /\ ~Requests(query)
                /\ TTL(query) \in MinTTL .. UnprivilegedMaxTTL
                /\ length \in UnprivilegedMinKeyLength .. MaxKeyLength
                /\ query.size <= UnprivilegedMaxBodySize

\* The loop has a closed form: the key that is given is one longer than asked for
\* after every AttemptsToIncreaseKeyMinLength collisions, and the loop gives up
\* after that many attempts at each length, never before.
KeyGrowsWithCollisions ==
    LET perLength == AttemptsToIncreaseKeyMinLength
        all == perLength * (MaxKeyLength - KeyLength(query) + 1)
    IN  ~Requests(query) /\ tries > 0 =>
            /\ stage = "keyed" =>
                  /\ length = KeyLength(query) + (tries - 1) \div perLength
                  /\ tries < all
            /\ stage = "generate" => length = KeyLength(query) + tries \div perLength
            /\ tries <= all

\* Whatever a request gets through that would be refused without its API key is
\* reported, and nothing else is.  A ttl above the unprivileged maximum is the
\* exception: logAPIKeyUsage has no reason for it.
PrivilegesReported ==
    stage \in {"requested", "generate", "keyed"} =>
        \/ reason # "none" /\ ~UnprivilegedValid(query) /\ query.apikey = "valid"
        \/ reason = "none" /\ (UnprivilegedValid(query) \/ TTL(query) > UnprivilegedMaxTTL)

\* Every request ends, even if every key it draws is in use.
EveryPostEnds ==
    stage \in {"parse", "authorize", "validate", "requested", "generate"}
        ~> stage \in {"keyed", "refused"}
=============================================================================
