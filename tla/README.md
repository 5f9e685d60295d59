# Verification of paste.thek4n.ru

A paste service: `POST /` stores a body under a short key, `GET /{key}/` gives it
back (or redirects to it), `GET /{key}/clicks/` tells how often it was read. A
paste may have a time to live and may be *disposable*, readable a given number of
times. This directory holds TLA+ models of the service, what TLC checks of them on
small instances, and what TLAPS proves for all instances.

All state that outlives a request is in Redis, in three databases (records, quotas,
API keys). The server is `net/http` with a goroutine per request and no locks; Redis
executes one command (or one script) at a time. Everything hard about this program
is in what happens *between two commands*: the handlers are read-modify-write
sequences over keys that other requests change, that expire on their own, and whose
commands may fail, be executed twice or be the last thing a dying process did.

## Inventory

| Component | Code | State | Operations | Correct when |
|---|---|---|---|---|
| Domain objects | `internal/domain/objectvalue/request.go`, `aggregate/record.go` | none | expiration date, disposable counter, clicks counter, `Record.GetBody` | counters move together, never wrap, an exhausted or expired record is refused |
| Records over Redis | `service/get.go`, `service/cache.go`, `repository/record.go`, handlers in `webhandlers/` | database 0: a hash and an expiry for each key | `GetByKey`, `SetByKey`, `Exists`, `GenerateUniqueKey`; `Get`, `GetClicks`, `Cache` | a paste is there until its ttl is over and readable as often as allowed; only what was posted is stored; every record with a ttl disappears |
| Quota | `objectvalue/quota.go`, `aggregate/quota.go`, `repository/quota.go`, `manageQuota` | database 1: a counter with an expiry for each source address | `GetByID`, `SetByID` (a Lua script), `manageQuota` | a drained quota admits nobody, an undrained one admits, nobody is locked out for ever |
| Body codec | `compress`, `decompress`, `bufferPool` in `repository/record.go` | the buffers of a `sync.Pool`, shared by all requests | compress above 4096 bytes, unpack what looks like gzip | what is answered is what was posted |
| API keys | `service/apikeys.go`, `apikeyValidator.go`, `repository/apikey.go`, `cmd/paste/apikey.go` | database 2: an id and a flag for each key | `gen`, `revoke`, `reauthorize`, `rm`, `list`; `checkAPIKey` | only generated keys count; revoked and removed keys serve nothing |
| Key generator | `GenerateUniqueKey` | none | random keys, longer after every 20 collisions | ends with an unused key or an error |
| Validation | `webhandlers/cache.go`, `validate*` in `service/cache.go`, `domain/config` | none | defaults and limits of ttl, key, length, size, disposable | no request outside the limits of its class passes |
| Usage events | `domain/event`, `infrastructure/eventhandler`, `logAPIKeyUsage` | one AMQP channel of the process, a goroutine for each event | raise, publish; the broker may close the channel, and only a restart opens it again | at most one message per privileged POST, none for others; no request waits for it |
| The service as a whole | `CacheService.Serve`, `cmd/paste/paste.go` | that of its parts | a POST through all of them in order; administrators, broker, clock, exit and restart around it | each part behaves as it does alone; what one part lets in, another has on record |
| Rest | `cmd/paste`, health check, docs page, frontend, loggers, protobuf | configuration only | start-up, rendering, output | not modelled |

How they interact. `Cache` parses and validates the request; with an API key,
`checkAPIKey` reads database 2 up to three times, a goroutine is started to publish an
event, the key of the record is requested or generated, and `SetByKey` writes it. Without one, the record
is written first and `manageQuota` decides afterwards whether the answer is 201 or 403.
`Get` reads a record with two commands, moves its counters in memory, and writes it back
with two more. The command line changes database 2 while the server reads it.

## Modules

| Module | What it is |
|---|---|
| `Domain` | the domain objects as operators on records: `NewRecord`, `Readable`, `Touch`, `Until`, ... |
| `Records` | the life of records: every Redis command of GET, clicks and POST as a step, time, expiry, failures, crashes; its properties and the inductive invariant `IInv` |
| `RecordsClaims` | two statements of the documentation that the code does not keep |
| `PasteContract` | abstract: what the `disposable` parameter promises to the poster |
| `RecordsContract` | the refinement mapping from `Records` to `PasteContract` |
| `RecordsProofs`, `PromiseProofs`, `ContractProofs` | theorems about `Records`: its invariant and exhausted pastes; ttls; the refinement of `PasteContract` |
| `Quota` | the quota of posters without a key |
| `Bodies` | slices, buffers and the pool behind `compress` and `decompress` |
| `APIKeys` | command line processes and `checkAPIKey` on the same database |
| `Posting` | a POST before its record exists: parameters, limits, usage event, the loop of `GenerateUniqueKey` |
| `UsageEvents` | the goroutines that publish usage events, their channel, the process they die with |
| `CacheService` | `Records`, `Quota`, `APIKeys` and `UsageEvents` composed in the order of `Serve` |
| `PostingProofs`, `QuotaProofs`, `APIKeysProofs`, `BodiesProofs` | theorems about the others |
| `CacheServiceProofs` | the theorems about the parts hold in the composition; and what relates the parts |
| `MC*` | instances for TLC: model values and symmetry |

An operator whose comment begins with "Mutant:" is a plausible bug in the definition
that follows it. It is not part of the model; `PROJECT.json` says which property
notices it.

### Records

State. `hash` and `exp` are what Redis holds. `pc`, `op`, `key`, `rec`, `date`, `arm` are
the local variables of a request: where it is, which handler it runs, the record and the
`ExpirationDate` in its hands, the argument of its EXPIRE. `status`, `home`, `terms`,
`life`, `served` are what clients know; no action of the code reads them (only the bounds do).

| Action | Code |
|---|---|
| `ReadStart`, `Exists`, `HGetAll`, `Load`, `GetBody` | `Handlers.Get` / `GetClicks`, the two commands of `GetByKey`, dating the record, `Record.GetBody`, which reads the clock to refuse an expired one |
| `PostStart`, `Requested`, `Generate`, `KeysExhausted` | `servePrivileged` / `serveUnprivileged`, `getRecordKey`, `GenerateUniqueKey` |
| `Prepare`, `HSet`, `Arm`, `Expire` | `SetByKey` of a reader and of a poster: its two commands, and before each of them the reading of the clock that `record.TTL()` is |
| `QuotaVerdict` | the answer after `manageQuota`, whose own model is `Quota` |
| `HSetUnacked`, `ExpireUnacked` | a write is executed, its answer lost, go-redis repeats it (`MaxRetries: 5`) |
| `Fail`, `Crash` | a command fails or the context is over; the process dies |
| `Tick` | time passes: dates come nearer, Redis drops keys that are due |

Every duration is kept as *time left*, so there is no clock in the state, and dates that
have passed are all `-1`, which is all the code can tell. A second has two units and a
tick advances two, while ttls are odd: the model has remaining times below a second,
and never exactly nothing left at the moment it is read (there the stored ttl would be
the 0 that stands for "eternal"; the code has that instant too, one nanosecond wide).
`TakingTurns`, whose properties do not depend on it, has a ttl of 2 and reaches that instant.
Retries are not counted: a repeated command may be repeated again.

### Quota, Bodies, APIKeys

`Quota`: `Exists`, `HGetAll`, `Manage`, `Eval` are `GetByID`'s two commands, `manageQuota`
and the script of `SetByID`; `Record` stands for storing the record first. `charged`
counts accepted posts since the key was last absent, and `raced` notes whether two posts of
the address were in flight at once since then: concurrent posts are charged once for
several, so what is paid for is stated for addresses whose posts did not race.
(A post is refused when it would take the last unit: 49 are accepted of the 50 that
README.md:107 of the repository names. `DrainedUntilReset` counts as the code does.)

`Bodies`: a slice refers to a buffer of the pool or to memory of its own. `compress` and
`decompress` put their buffer back by a deferred call and return a slice of it, so
between two steps every buffer is in the pool and any may be handed out next; that is
the nondeterminism of `\E b \in Buffers`. Bodies are large (compressed), small, or begin
with the magic of a gzip file: `Archives` unpack and are then answered unpacked, `Broken`
ones do not unpack, so that `GetByKey` fails on every GET (`DecompressFails`; a stream
that went wrong in a shared buffer may fail, too), and `Bombs` unpack to more than
`MaxBodySize`, where `io.CopyN` stops without an error. The state has no clock and no
counters: an error path ends the request and writes nothing.

`APIKeys`: `Generate` draws the key of a `gen`; `Read` is `GetByID` of a revoke or
reauthorize, `Write` the `SetByID` that these three end in, `Delete` is `rm` (together
`Execute`); `Unacked` is a write that is executed and, its answer lost, sent again
(`MaxRetries: 5` here, too). `Exists`, `GetID`, `CheckValid` are the three reads of
`checkAPIKey`. `AdminCommands` says which commands an instance runs besides `gen`. `list`
changes nothing and is left out.

### Posting

One request, from the query to the key: `Parse` is the handler's check of every parameter,
`Authorize` and `Validate` are the two halves of `CacheService.Serve` before a key is
looked for (with `logAPIKeyUsage` between them for an API key), `Requested` and `Attempt`
are the two branches of `getRecordKey`; each turn of the generator's loop is a step. Texts are abstracted to whether and to what they parse.
What leaves `Posting` with a key enters `Records` at `Prepare`; there the key is the thing
that other requests share, so `Records` keeps the lookups and leaves out the lengths.

### UsageEvents, CacheService

`UsageEvents`: an event is raised by its request (`NotifyAll`), taken by the broker or lost
(`Notify`), and lost with the process (`Exit`). `Start` is `initBrokerChannel` before
`ListenAndServe`: a process that serves began with an open channel. Once closed, the
channel of a process stays closed.

`CacheService` has the variables of its parts and one of its own, `poster`. `pc`, `qpc` and
`kpc` are where one worker is in `Records`, `Quota` and `APIKeys`; it is idle when it is idle
in all three.

| Action | Code | Steps of the parts |
|---|---|---|
| `ShowKey`, `CheckKey`, `RejectKey` | `checkAPIKey`, and the answer to refused parameters | `APIKeys` |
| `PostWithKey` | `servePrivileged` and `logAPIKeyUsage` | `Records` starts a POST, `UsageEvents` raises its event |
| `PostAnonymously` | `serveUnprivileged` | `Records` starts a POST, `Quota` notes its address |
| `RecordStep` | from the choice of a key to `SetByKey` | `Records`; its last step ends the request in `APIKeys`, or leads to `Quota` |
| `ManageQuota` | `manageQuota` | `Quota`; its last step is the answer that `Records` leaves open |
| `Fail` | a command to one of the databases fails or its answer is lost | the part whose command it is |
| `Administer` | the command line | `APIKeys` |
| `Background` | start of the process, goroutines of events, the broker | `UsageEvents` |
| `Tick`, `Exit` | time; the process dies | all that have one |

## What TLC checks

Passing runs:

| Run | Instance | Properties and what they say |
|---|---|---|
| `OnePaste` | 1 key, 2 workers, 1 paste, ttl 0 or 5, disposable 0 or 2, all faults | `StoredGenuine`: Redis holds only what was posted to that key. `Conservation`: clicks and countdown of a disposable record belong together in every copy. `KeptUntilPromised`: a paste answered with 201 is there until less than a second of its lifetime is left, unless it was read as often as allowed. `ExhaustionIsFinal`: when no readable copy is left there never is one again. `TypeOK`. |
| `TwoPastes` | 1 key, 2 workers, 2 pastes, ttl 0 or 3, repeated commands | `KeptUntilPromised` where two POSTs find the same key free: one of their records is there until the shorter lifetime is over. `PromiseInv`, why: every ttl, date, EXPIRE and expiry covers what is left of the lifetime of a POST of its key. `ExpiryArmed`: a mortal record without an expiry is about to get one. `ExpiryWithinTTL`: no expiry is further away than the ttl of a POST of its key, or one second. |
| `Drain` | 1 key, 2 workers, fair | `EveryRequestAnswered`; `UnreadDisappears`: a paste with a ttl nobody reads any more leaves Redis. |
| `TakingTurns` | 2 keys, 2 workers that are never at the same key at once (`OneAtATime`), 2 pastes, ttl 0 or 2, repeated commands and crashes | `ImplementsContract`: the code refines `PasteContract`; `PromiseKept`: answers never exceed the limit. |
| `QuotaRaces` | 1 address, 3 workers, quota 4, all faults, fair | `StoredCanEnd`: a stored quota has something left and an expiry. `NotOverdrawn`: posts that did not race have each paid their unit. `DrainedUntilReset`: from a drained quota no race lets a post through before the reset. `LockoutEnds`: refused posts do not renew the lockout. `TypeOK`. |
| `BodiesSmall` | 2 workers, 2 buffers, a body that is large, small, broken and a bomb each | `SmallIntact`: bodies that need no compression never meet the pool. |
| `Posting` | every parameter below, at, between and above its limits | `WithinLimits`: what gets a key is within the limits of its class, although two layers check them differently. `PrivilegesReported`: what needed the API key is reported, except a ttl above the unprivileged maximum. `KeyGrowsWithCollisions`: the loop's length and end as closed formulas of the collisions. `EveryPostEnds`. |
| `KeyAdmins` | 2 administrators, 1 worker, 2 keys, failures, repeated commands and crashes | `OnlyGenerated`: only `gen` makes keys. `GoneIsFinal`, `RevokedUntilReauthorized`: removed and revoked keys serve no later request. |
| `WholeService` | 1 worker, 2 pastes on 1 key, 1 address, 1 API key, 1 administrator, all faults and outages, fair | `Audited`: whoever is let in for an eternal record has used a key that `gen` made, and the event of its use was raised before the record is written (it may be lost, and the record is written all the same). `EveryPostAnswered`: even if no event ever leaves. `DrainedAddressWaits`: once the last unit of an address is stored and no request in flight knows better, no paste of it is answered with 201 before the reset. `RemovedKeyStoresNothing`: once an API key is gone and no request is past the check with it, no POST gets in with it and none that did before still writes a record. |

Runs that end in a counterexample, each for a sentence of the documentation or a test
(`PROJECT.json`, "findings", quotes them):

| Run | What it shows |
|---|---|
| `SlidingTTL` | a read moves the expiry of a paste beyond the lifetime that was asked for |
| `DoubleServe` | two concurrent readers both get a paste with `disposable=1` |
| `BodiesLarge` | a single GET of a large body compresses it into the buffer it was unpacked to, and answers with garbage |

The models reach more that the documentation would not lead one to expect, and
`PROJECT.json` lists it with the hazards: a crash between HSET and EXPIRE leaves a paste
for ever, two POSTs may be given the same key (and an eternal record then expires with the
other one), a posted gzip file comes back unpacked or not at all, the usage of an eternal record may be lost with the process or with the channel, GetClicks may answer 0 for a record that
is gone, concurrent posts are charged once, the last post of a quota is refused (49 are
accepted of the README's 50), a removed API key may be written back, and a repeated HSET
of `gen` or reauthorize may undo a revoke or `rm` that came in between.

One more disagreement with the documentation shows in the state and not in an answer:
`docs.go:185` says of `disposable` "After number of this getting of this key, key will be
removed", and a test of `e2e_test.go:158` that it "should be removed" (178). Nothing in the code
removes the record. `Record.GetBody` refuses it, so readers get their 404, but it stays in
Redis until its ttl is over, for good when that is 0, and a POST that asks for its key is
answered with 409. No property asserts either outcome: `KeptUntilPromised` exempts a paste
that has been read as often as its poster allowed (`ReadOut`), and `ExhaustionIsFinal` says
that such a paste is not read again, stored or not.

### Bounds, and why they are enough

- *Workers.* Two: the races of the code are between one request's read and its write, and
  one other request. Three for the quota, so that a request can be overtaken by two.
- *Keys and pastes.* One key is where all requests meet. Two pastes on one key make the
  collisions of `GenerateUniqueKey` and of requested keys happen; two keys show that a
  paste keeps its own.
- *ttl* 3 or 5 with steps of 2: a record is read in the first and in the last second of
  its life, and expires between any two steps of a request. *disposable* 2: one read
  leaves it readable, the second exhausts it, a third is refused.
- `MaxServed` 3 (clients stop reading after so many answers), `MaxPosts` (a source
  address stops posting when it is charged so often) keep histories finite.
  `ClicksWidth` 3 is the smallest counter that does not wrap before a countdown of 2.
- *TakingTurns*: the restriction is part of its specification, `TurnsSpec`: what holds
  without it is the business of the other runs, and `DoubleServe` shows that the contract
  does not. Two workers at different keys have all the interleavings with another that is
  idle, reads or posts. Its requests are GET and POST to a requested key, the ones that
  change what the contract counts, and its faults a repeated command and a crash, which
  leaves behind what a failed command does.
- *Posting*: `MinTTL` 2 to `PrivilegedMaxTTL` 5 and lengths 2 to 4 leave one value on each
  side of every limit; 3 attempts for each length, so that a countdown ends, starts again,
  and ends at the maximal length. A `CHECK_DEADLOCK FALSE`, as its one request ends.
- *WholeService*: one worker, since the races within a part are the business of the runs
  above and their theorems; what is new is one request's way through four parts while an
  administrator, the broker, the clock and exits interfere. A ttl of 1 and a step of 1 let
  a record expire between any two steps.
- *Bodies*: two buffers tell the buffer in use from another one, and two workers are one
  request and one that disturbs it. `BodiesLarge` needs a single worker: the defect is in
  one GET. `Archives` is empty in both, for the size of the state space; `BodiesProofs` has them.
- *Symmetry* is used in runs without liveness properties; no choice in the models
  depends on the identity of a key, worker, paste or buffer.

### Fairness

`FairSpec` of `Records` and of `Quota` asks for weak fairness of `Tick` (time does not
stop) and of what each request does next when nothing goes wrong (`Proceed(w)`: the Go
scheduler runs every goroutine and Redis answers). Nothing is assumed about clients:
requests may never come, or never stop coming. A lost answer may repeat as often as it
likes, but not for ever: go-redis gives up after five retries. Crashes need no fairness. `Posting` is fair to its one request, not to the keys it
draws: every one of them may be in use. `CacheService` is fair to what a worker does next
and to nothing else: the broker may never answer, no goroutine of an event need ever run,
and a process that died need never be started again.

## What TLAPS proves

In `RecordsProofs`, for every number of keys, workers and pastes, every ttl and
disposable that fit their types, and every subset of requests and faults:

- `Invariant`: `Spec => []IInv`;
- `TypeCorrect`: `Spec => []TypeOK`;
- `OnlyGenuineStored`: `Spec => []StoredGenuine`;
- `CountersConserved`: `Spec => []Conservation`.

Assumptions are those that `Domain` and `Records` name: ttls are naturals, `Second`,
`Step` and `ClicksWidth` positive, the sentinels `NoKey` and `NoBody` are none of the
keys and pastes, and a disposable is smaller than `ClicksWidth` (`uint8` against `uint32`).

Argument. `StoredGenuine` and `Conservation` speak of Redis, but what HSET writes comes
from a worker, so neither is inductive. `IInv` adds `Phases`, what a worker has at hand at
each step (a body, a key, or the zero record of a request that has read nothing), and
`Postings`: a POST is in one pair of hands, its body is nowhere else before it is given a
key, and every copy of it is about to be written under that key. The zero record of a
reader who lost its key between EXISTS and HGETALL is not eternal and has no countdown, so
`Readable` refuses it, and it never comes to HSET; that is why nothing empty is stored. A
read that is let through has a countdown of at least 1, so by `Balanced` its clicks are
below the limit, and the increment does not wrap (`TouchBalanced`). Each action has a lemma;
those that answer share `DoneKeeps`, those that write share `SetHashKeeps` and
`SetExpiryKeeps`, which establish the part of the invariant that is about Redis (`StoreInv`).

In `PostingProofs`, for every configuration of limits that is ordered as `domain/config`
orders them, and every request:

- `KeyedWithinLimits`: `Spec => []WithinLimits`;
- `UsageReported`: `Spec => []PrivilegesReported`;
- `LoopCounted`: `Spec => []KeyGrowsWithCollisions`.

The first two follow from `PInv`, which says for each stage what the checks before it have
established; a ttl of an unprivileged poster is between its limits because the handler and
the service each check a part. For the third, `Counted` accounts for every collision: as many
rounds of attempts as the length has grown, and those the countdown has gone down.

Also in `RecordsProofs`, on top of `Invariant`:

- `ExhaustedForGood`: `Spec => ExhaustionIsFinal`. `Spent(p)` implies that whoever has a copy
  has just read it and will refuse it; `Phases` and `Postings` put everybody else's hands on
  other bodies, so no step writes the paste. A new POST is another paste, since one that was
  never sent has no limit to exhaust (`Unsent`).

In `PromiseProofs`, on top of `Invariant`, for the same constants:

- `PromiseOfTTLKept`: `Spec => []KeptUntilPromised`. A reader takes the stored ttl, dates it
  from now, writes what is left of that date back and arms the expiry with it, in whole
  seconds, while time passes and other readers do the same in any order. `PromiseInv`
  (`PromiseInvariant`) says that every one of these copies covers what is left of the
  lifetime: the ttl stored and in hand, the date, the seconds of an EXPIRE up to the second
  that formatting cuts off; and the expiry of a key covers one of the POSTs that were given
  the key (`StoreCovers`), which may not be the one whose record is there. So as long as no
  POST of a key is in its last second, neither an expiry nor an EXPIRE of a non-positive time
  removes its record, and only those two remove one.
- `ExpiryStaysArmed`: if commands are at most repeated, and nothing is saved at the very
  instant its time is over, `ExpiryArmed` always holds. Both hypotheses are needed: a failure
  or a crash after HSET leaves a record with a ttl and no expiry, and a ttl that is saved as
  0 is read as eternal (`SavedInTime` names that instant).
- `ExpiryBounded`: `Spec => []ExpiryWithinTTL`, without any hypothesis. Reads do move an expiry
  back (`SlidingTTL`), each from a date that was itself moved; `WithinInv` says that every ttl,
  date and EXPIRE on the way is at most the ttl of its POST, so that however many reads there
  are, the last of them moves it to one ttl from now at most. It bounds an
  expiry that is set; that a record with a ttl has one is `ExpiryStaysArmed`, with its hypotheses.

In `ContractProofs`, for any number of workers, keys and pastes, requests and faults, as long
as requests for the same key take turns (`TurnsSpec`):

- `ContractImplemented`: `TurnsSpec => ImplementsContract`. The reads left of a paste are with the
  request that has its record in hand, if there is one, and else in Redis. `Covered` says that
  what is stored is never more than what is in hand, so a request that fails, is repeated or
  crashes can only give reads up, and `Undisturbed` that it meets no record of another paste
  where it writes. `OneHolder` makes "the request that has it in hand" well defined, and
  `Views` says that requests for other keys change nothing of what it sees. With a second
  reader of the key `Covered` fails, and run `DoubleServe` shows what comes of it: the code
  does not make requests take turns, so this is what remains true of its `disposable`
  parameter without a race, not what it guarantees.
- `PromiseNeverBroken`: `TurnsSpec => []PromiseKept`, by induction over the steps of the
  contract.

In `QuotaProofs`, for every number of addresses and workers, every quota and reset period:

- `QuotaCanEnd`: `Spec => []StoredCanEnd`;
- `DrainedStays`: `Spec => DrainedUntilReset`;
- `QuotaPaid`: `Spec => []NotOverdrawn`;
- `QuotaTypes`: `Spec => []TypeOK`.

`InHand` says that what the script is about to write has passed the test of `manageQuota`.
For `QuotaPaid` the invariant follows the one post in flight of an address that has not
raced: what it has read, or is about to write, agrees with what has been charged.

In `APIKeysProofs`, for every number of keys, administrators and requests:

- `KeysGenerated`: `Spec => []OnlyGenerated`;
- `RemovedForGood`: `Spec => GoneIsFinal`;
- `RevokedStays`: `Spec => RevokedUntilReauthorized`.

`Roles` says that whoever is about to write a flag has read a key that existed, or is the
`gen` that draws it, and writes the flag of its command. It is assumed that the command line and the server are different
processes, and that gen's 16 random bytes are a string nobody has used.

In `BodiesProofs`, for every number of workers, buffers and pastes:

- `SmallStaysIntact`: `Spec => []SmallIntact`. A request for a small body holds no slice of
  a buffer at any step (`KeptApart`).

In `CacheServiceProofs`, for all constants that satisfy the assumptions of the parts
(`PartsAssumption`) and of the composition (`PostersAssumption`: a source address is no API key):

- `PartsKept`: `StoredGenuine`, `Conservation`, `KeptUntilPromised`, `ExpiryWithinTTL`, `ExhaustionIsFinal`,
  `StoredCanEnd`, `NotOverdrawn`, `DrainedUntilReset`, `OnlyGenerated`, `GoneIsFinal` and
  `RevokedUntilReauthorized` hold in the service, by instantiating the proof modules: an action
  of `CacheService` is made of actions of the parts (`RecordsStep`, `QuotaStep`, `KeysStep`).
- `EternalAudited`: `Spec => []Audited`, from the invariants of `Records` (a POST is sent by its
  start only) and of `APIKeys` (who is privileged has shown a generated key).
- `DrainedAddressRefused`: `Spec => DrainedAddressWaits`. `DrainedUntilReset` of `Quota` says
  that nothing is charged to a drained address any more; that no 201 is answered either is
  a matter of two parts. `Linked` ties them: a worker that `Quota` has in the middle of a
  post is one whose record `Records` has stored and not answered, posted by the address
  that `Quota` charges, and the other way round. So a 201 to this address is the step of
  `Quota` that charges it, and that step is excluded.
- `RemovedKeyIsOut`: `Spec => RemovedKeyStoresNothing`. `GoneIsFinal` of `APIKeys` is about the
  check alone. That no record comes after it takes the part of `Linked` that is about keys: a
  worker that `Records` has in the middle of a POST with a key is past the check in `APIKeys`
  with that very key, so there is none left when the key is `Gone`.

Only model-checked: liveness (`EveryRequestAnswered`, `UnreadDisappears`, `LockoutEnds`,
`EveryPostEnds`, `EveryPostAnswered`), which, like ENABLED, is out of the prover's reach. Every
safety property of a passing run, invariants and action properties alike, is the statement
of a theorem as well (`ExpiryArmed` with hypotheses).

## Plan

Done: the life of records, the quota, bodies, API keys, POST parameters, usage events, the
composition of `Serve`, and the theorems above. Left:

1. Readers and `clicks` in the composition; so far they meet the other parts in the records
   alone, and `Records` has them.

## Not modelled

Start-up beyond its order, flags, routing, the health check, the documentation page, the
frontend, logging and generated protobuf code, which keep no state the other parts depend
on. Two things met while reading them: with `--health` and `--docs` the routes `/health/` and
`/docs/` hide records under these keys, and the health check answers without asking the
database, although its comment says that it does. Whether a usage event arrives is not
modelled as a promise, since nothing in the code confirms it. `list` of API keys reads
only; it fails as a whole when a key is removed while it runs.

Redis itself and go-redis are modelled from how the code uses them: atomic commands, HSET
leaves the expiry alone, EXPIRE of a missing key does nothing and of a non-positive time
removes the key, durations are sent in whole seconds and a positive one is never sent as 0.
Redis does not lose data in the models.
