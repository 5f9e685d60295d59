------------------------------- MODULE Domain -------------------------------
(***************************************************************************)
(* The domain objects of the paste service, as pure operators: expiration  *)
(* dates, disposable and clicks counters, the Record aggregate and the     *)
(* Redis hash it is kept in.                                               *)
(*                                                                         *)
(* A Record aggregate is a pair: a hash (the fields of redisKeyRecord) and *)
(* an expiration date.  Durations are integers; the date of an             *)
(* ExpirationDate is kept as the time left until it, so that no clock      *)
(* value has to be remembered.  The url flag travels with the body and is  *)
(* one value with it.                                                      *)
(***************************************************************************)
EXTENDS Integers

CONSTANTS
    ClicksWidth,  \* number of values of the uint32 clicks counter
    Second        \* the length of a second, in units of time

ASSUME ClicksWidthAssumption == ClicksWidth \in Nat \ {0}
ASSUME SecondAssumption == Second \in Nat \ {0}

-----------------------------------------------------------------------------
(* ExpirationDate *)

\* A zero TTL stands for an eternal date.
DateFromTTL(ttl) == [left |-> ttl, eternal |-> ttl = 0]

Expired(date) == ~date.eternal /\ date.left < 0

\* Mutant: the unit of the stored ttl is taken for a second.
UntilInSeconds(date) == IF date.eternal THEN 0 ELSE date.left \div Second

Until(date) == IF date.eternal THEN 0 ELSE date.left

\* Every instant of the past is alike: nothing reads how long ago it was.
Elapse(d, step, floor) == IF d - step < floor THEN floor ELSE d - step

\* Mutant: a part of a second counts as a second.
FormatSecUp(d) == (d + Second - 1) \div Second

\* go-redis formats the argument of EXPIRE in whole seconds: it truncates,
\* except that a positive duration never becomes zero.
FormatSec(d) == IF d > 0 /\ d < Second THEN 1 ELSE d \div Second

-----------------------------------------------------------------------------
(* The record and its counters *)

NewRecord(body, ttl, disposable) ==
    [body |-> body, ttl |-> ttl, clicks |-> 0,
     countdown |-> disposable, eternal |-> disposable = 0]

\* What HGETALL of a missing key scans into: the zero value of every field.
ZeroRecord(nobody) ==
    [body |-> nobody, ttl |-> 0, clicks |-> 0, countdown |-> 0, eternal |-> FALSE]

\* Mutant: the check for an empty counter is off by one.
CounterExhaustedLate(r) == ~r.eternal /\ r.countdown < 0

CounterExhausted(r) == ~r.eternal /\ r.countdown < 1

\* Mutant: Sub forgets that an eternal counter does not count.
DecreasedEternal(r) == IF ~r.eternal /\ r.countdown = 0 THEN 0 ELSE r.countdown - 1

\* Mutant: the counter that Sub returns is dropped.
DecreasedNowhere(r) == r.countdown

DecreasedCounter(r) ==
    IF r.eternal \/ r.countdown = 0 THEN r.countdown ELSE r.countdown - 1

\* Mutant: the counter that Increase returns is dropped.
IncreasedNowhere(r) == r.clicks

IncreasedClicks(r) == (r.clicks + 1) % ClicksWidth

\* Mutant: only the date is looked at.
ReadableByDate(r, date) == ~Expired(date)

\* Record.GetBody refuses a record whose counter or date has run out ...
Readable(r, date) == ~CounterExhausted(r) /\ ~Expired(date)

\* Mutant: the clicks are not increased.
TouchCountdown(r) == [r EXCEPT !.countdown = DecreasedCounter(r)]

\* ... and otherwise moves both counters.
Touch(r) ==
    [body |-> r.body, ttl |-> r.ttl, clicks |-> IncreasedClicks(r),
     countdown |-> DecreasedCounter(r), eternal |-> r.eternal]

\* SetByKey stores the ttl that is left.
WithTTL(r, ttl) == [r EXCEPT !.ttl = ttl]
=============================================================================
