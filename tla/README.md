# tiercache: models, checks and proofs

TLA+ models of tiercache, the three-tier cache of this repository, with the TLC
runs that check them and the theorems TLAPS proves about them. Line numbers are
those of the files under `src/src/tiercache/` unless another file is named.
`PROJECT.json` names, for every definition, the lines of code it stands for.

## 1. The system

A `CacheManager` puts three tiers behind one interface. **hot** and **cold** are
in RAM, or in memcached; **dry** is a directory of files, an S3 bucket or a
MongoDB GridFS. A tracking store has a row per key. Calls are coroutines on one
asyncio event loop; nothing else runs concurrently, apart from the threads that
file operations are handed to.

| Component | State | Operations | What is hard |
|---|---|---|---|
| `RamBackend` (`backends/ram.py`) | an OrderedDict of (value, expiry, ttl), the bytes counted | get, set, delete, flush, keys, pop_expired | LRU order, byte count and sliding ttl have to agree through every mix of calls; evicted entries are out of the store before anybody has stored them elsewhere |
| `CacheManager` (`manager.py`) | the tiers and the tracking; the frames of suspended calls | get, set, delete, flush, purge, cleanup_expired, stats, keys, close | every await lets other calls run: what was read before it is stale after it; a cancelled call or a dead process stops half-way |
| `TTLResolver` (`manager.py`) | none | resolve | which of several ttls wins; hours become whole seconds before it is asked |
| Tracking rows (`tracking/*.py`) | tier, hits and more per key | record_hit, record_set, record_delete | five implementations of one contract; the row is written after the tier it describes |
| Tracking clients (`tracking/*.py`) | a connection, pool or client shared by all tasks, the tables, global counters, open transactions | record_hit, record_miss, get_stats, close | the client is made at the first call, by as many first calls as there are; updates and commits of several tasks mix on one connection |
| `LocalBackend` (`backends/dry/local.py`) | a `.bin` and a `.meta` file per key, in shard directories | get, set, delete, flush, keys, cleanup_expired, size_bytes | no lock at all, every file operation is a suspension; two files per key; crashes between any two operations |
| `S3Backend`, `MongoDBBackend` (`backends/dry/`) | objects, GridFS files | get, set, delete, flush, keys, size_bytes | get and keys delete what they find expired, one request after they found it; listings come in pages; MongoDB's set is a find, deletes and an upload |
| `MemcachedBackend` (`backends/memcached.py`) | items on a server: a value, or its chunks and their count | get, set, delete, flush | one request per chunk; the server drops items one by one; two layouts for one key |
| Configuration, serializer, null backend | none | | |

How they interact. `CacheManager` calls the tiers and the tracking directly, and
installs `_on_hot_evict` and `_on_cold_evict` as the `on_evict` callbacks of the
RAM tiers. A RAM tier awaits its callback after releasing its lock, inside the
very `get` or `set` that evicted. So the write to dry is part of the call that
evicted (README.md:28 calls it "background"; no task is made for it, the caller
waits), and an error in it is an error of that call.

What makes each component correct:

- a RAM tier serves what was last put, evicts the least recently used, expires
  exactly what was idle for its ttl, hands on everything it drops, counts bytes;
- the manager loses nothing between the tiers, answers with the current value,
  lets nothing come back that was deleted, finishes every call;
- tracking says where an entry is, and keeps its hits when it changes tier;
- the local tier is a map with a capacity, oldest out first, and a crash costs
  only what was being changed;
- the memcached tier never joins pieces of different values;
- the remote dry tiers replace and remove what was there, remove nothing that is
  live, and collect no copies;
- a tracking store counts what has been recorded once, and leaves neither open
  transactions nor connections behind.

## 2. The modules

| Module | Models | |
|---|---|---|
| `RamStore` | the data of a RAM tier and what each critical section does to it, as functions | pure; used by the next two |
| `RamBackend` | one RAM tier under any sequence of calls and the clock | extends RamStore |
| `RamStoreProofs`, `RamBackendProofs` | lemmas on the functions; the theorems | |
| `Tracking` | what each store's record_set, record_hit, record_delete do to a row | pure |
| `TTLResolver` | the conversion of a ttl, the rules and resolve; what the documentation says of their priority | pure |
| `CacheManager` | the manager: two RAM tiers, a dry tier, the rows, any number of tasks | composes RamStore, Tracking and TTLResolver |
| `CacheManagerProofs` | the theorems about it for any number of tasks | |
| `KeyValue` | what the cache promises to a single user: a map, and what each operation may do to it | abstract; CacheManager implements it |
| `CacheHistory` | CacheManager with history variables for what was deleted | extends CacheManager |
| `CacheOneTaskProofs` | the theorems about what the manager promises one task: that it implements KeyValue, and the history | |
| `LocalBackend` | the files of the local dry tier, one step per file operation | |
| `LocalBackendProofs` | the theorems about it | |
| `DocumentStore` | documents on a server, and tasks that reach it request by request | used by the next two |
| `S3Backend`, `MongoDBBackend` | the requests of the two remote dry tiers | extend DocumentStore |
| `RemoteDry` | either of them, called by several tasks, and what both promise | composes the two |
| `RemoteDryProofs` | the theorems about it | |
| `TrackingClient` | how the tracking stores reach their database: client, tables, counters, transactions | |
| `TrackingClientProofs` | the theorems about it | |
| `MemcachedBackend` | the items of the memcached tier, one step per request | |
| `MemcachedBackendProofs` | the theorems about it | |
| `MC...` | the instances for TLC | |

### How they correspond to the code

**Atomicity.** `RamBackend._lock` is an `asyncio.Lock` that no holder keeps across
a suspension: it is always free when a coroutine asks for it, and asking for a
free lock does not suspend. So each critical section of `ram.py` is one function
in `RamStore`, and everything a manager call does to the RAM tiers between two
suspensions is one action in `CacheManager`. A suspension is a place, `at`, in
the frame of a task. At an I/O place (`Waiting`) the operation takes effect in a
step of its own at any later time. Where the resumed coroutine then does more to
the RAM tiers (`Resumed`: look in cold, promote, sweep cold, delete the next key)
that is yet another step, because other tasks run between an I/O and the moment
its caller is scheduled.

**RamStore.** `_store` becomes a function `item` and a strict order `older` on the
resident keys. `Victims` is the `while` loop of `set` (line 69), given by what it
ends with: the smallest set of entries, oldest first, that makes enough room or
empties the store; the double deduction of lines 68 and 121 is in it. An expiry
instant is kept as the time left, so time is bounded without being stopped, and
how long ago an entry expired is forgotten.

**CacheManager.** The frame keeps the key, the value, the evicted pairs still to
demote (`todo`), where the coroutine goes after them (`then`) and the keys purge
has left (`batch`). `Demotion` is `_on_hot_evict` and `_on_cold_evict`, which are
the same code. `Abort` is a cancellation of the call or an exception of the I/O it
waits for; both unwind the coroutine and leave what is done done. `Restart` is the
end of the process with or without `close()`, which demotes nothing. `Spec` has both at
any time; `UndisturbedSpec` and `FairSpec` are without, for the properties that hold as
long as nothing is cut off. The code
never puts anything into cold; it may hold entries only because somebody else put
them there, so `ColdInit` says what it starts with. The dry tier is one value per
key here, written and read in single steps: what the local tier does inside those
steps is `LocalBackend`, and for one task `FilesAreTheMap` and `EvictsOldest`
there say that between its calls it is such a map, bounded. `stats` and `keys`
change nothing and are not actions. Nothing expires in the dry tier: the manager
never gives it a ttl (`_on_hot_evict` passes none). Nor is anything evicted from it
in this model, which is so of S3 and MongoDB; `LocalBackend` evicts by its capacity
(`dry/local.py:134`). `NoSilentLoss`, `IsAMap` and what else is said of the tiers
together is therefore said over a dry tier that never fills up; what a full one
drops is in `LocalBackend`.
`DryMiss` and `ColdMiss` are what these tiers answer for a key they lack: `NoVal`
stands for MISS, and `None`, a value like any other to the manager, is what
memcached, S3 and MongoDB answer. `None` is then promoted, demoted and tracked as
the code does it; `Seen` is what a reader of `get` cannot tell apart. A memcached
tier as hot is not an instance: it answers None to every miss, so the manager never
looks below it, and it has no hook, so nothing is ever demoted.

**KeyValue.** Its state is the map and the operation that is going on, and each of its
steps is of one operation: a get or a clean-up begins and changes nothing, a set writes
its key when it begins, a flush empties the map, a delete drops its key and a purge one
key after the other. The mapping takes the operation from the frame of the task, so a
call can only do to the map what its own operation may.

**TTLResolver.** Hours are counted in half seconds, fine enough that
`int(ttl_hours * 3600)` loses something. `RuleTTL` is what `config.py` makes of a
rule for one tier, `Resolve` the loop of `resolve`, and `Documented` the priority
that README and docstring promise, written without the loop and in the unit the
documentation uses, the time a call or a rule gives. `Lasts` compares it with the seconds an
entry gets: to the second, and 0 for ever. A time above 0 and below a second is left
open there, because the code makes it 0, which is for ever. Only `resolve("hot", ...)`
is ever called, so only the hot tier is modelled.

**RemoteDry.** A document is known by its key, the task that stored it and a number;
its value is left out, since the properties are about which document goes and which
stays. An S3 object is replaced by key in one request; GridFS files are found by key
and removed by id, and removing one that is gone raises NoFile. A page of a listing,
an object of a `delete_objects`, a head, a get and a delete are a step each; `find` is
one step. The server may refuse to remove an object of a `delete_objects` (`Refuse`): the
answer then has an error for it that the code does not look at. Which documents have a ttl is open: `Lapse` ends the time of any of them.
`begun` is history: what a call met when it began. `Abort` is a cancellation or the
end of a process, and the tasks may be of several processes.

**TrackingClient.** `Connect` is the await in `_conn` and `_get_pool`, after which the
client is kept, whoever else has kept one meanwhile; `Schema` is the statement that
makes the tables, and after it the code reads the client again. SQLite's updates go
into the open transaction of their connection and are committed by the next commit
there; another connection that writes meanwhile waits for the lock and gives up. The
other stores commit statement by statement. `count` has the two global counters and the
hits of one row, which is assumed to be there (`Tracking` has what a hit does without
one). `close` awaits in three stores, and gives the client up after that. `begun`, `due`,
`cutOn` and `anew` are history. A request of a cancelled call that the server carries out
later is left out.

**Tracking.** A row is its tier and its hits, the columns some code reads back;
the global counters are in `TrackingClient`. Rows are per store: SQLite
keeps the hits on a tier change; Redis, Postgres and MongoDB take `reset_hits` and
do not look at it; Redis creates a row for a hit on a key that has none.

**LocalBackend.** Opening a file for writing, writing it, removing it and listing a
directory are a step each. A file opened for writing
is empty until its write lands and remembers who has it open. Writing over what
another task wrote meanwhile may leave a mixture (`Torn`). Each key has a shard
directory of its own; `rmtree` takes a shard in one step; reading a sidecar or a data
file, which the code opens, reads and closes in three awaits, is one step; the sizes of
all files are taken in one step that fails if one is gone.

**MemcachedBackend.** A chunk is known by the value it is a piece of. `Vanish` is
the server dropping any one item, for memory or because its ttl is over. `Abort` is a
cancellation, an error of a request or the end of the process; `hurt` has the keys of
which a set was cut off halfway, and a request the server carries out later is left out.

## 3. The runs

Twelve runs: eight must pass, four exhibit disagreements between the code and what
its documentation says. Two keys are enough for the races of the manager and the
local tier: all of them are between two uses of one key, or one use of a key and
an eviction caused by another. The RAM tier alone is checked with three keys, so
that one eviction may leave the order of two others behind.

| Run | Instance | Shows |
|---|---|---|
| `RamBackend` | 3 keys, sizes 1 and 2 in 3, ttl 1 or never, clock steps 1 and 2 | `SizeNeverOverstated`, `OverCapacityOnlyAlone`, `MiscountIsOfOverwrites` (only an overwriting that evicts what it overwrites puts the byte count wrong), `LossIsHanded`, `EvictsLeastRecentlyUsed`, `SlidingWindow` |
| `CacheOneTask` | 1 task, 2 keys, sizes 1 and 2 in 2, SQLite rows, a dry tier that answers None, three rules, every kind of ttl and tags | The tiers are a map, operation by operation (`IsAMap`), get answers with its value (`GetAnswersCurrent`), the rows follow (`TrackingIsAccurate`, `HitHistorySurvivesTierChange`), entries live as long as documented, from one second on (`LifetimeByPriority`) |
| `CacheTwoTasks` | 2 tasks, 2 keys, a hot tier of one entry, fair | `NoSilentLoss`, `CallsReturn`, `EvictedReachesDry` |
| `CacheDeleted` | 1 task, cancellation, restart, an entry in cold, all flushes | `NothingComesBack`, `NoSilentLoss` |
| `LocalOneTask` | 1 task, 2 keys, sizes 1 and 2 in 2, ttl, crashes, clock to 2 | `FilesAreTheMap`, `CapacityKept`, `EvictsOldest`, `Advances` |
| `MemcachedOneTask` | 1 task, values of 1, 2 and 3 chunks, vanishing items, calls cut off | `NeverMixed` |
| `RemoteDry` | S3 and MongoDB, 2 tasks, 2 keys, pages of 1, cut off anywhere | `OneDocumentPerWriter`, `ReplacesWhatWasThere`, `RemovesOnlyExpired` |
| `TrackingClient` | the four stores, 2 tasks, 3 calls, cancellation, close, restart | `CountsWhatReturned`, `TransactionsAreClosed`, `ConnectionsBounded` |
| `CacheStalePromotion` | 2 tasks, a hot tier of one entry | refutes `PromotionKeepsNewerValue` |
| `CacheColdMemcached` | 1 task, a cold tier that answers None | refutes `GetAnswersCurrent` |
| `LocalTorn` | 2 tasks, 2 keys | refutes `GetAnswers` |
| `MemcachedShrink` | 1 task, a long value and a short one | refutes `AnswersLastSet` |

Bounds, all named: `MaxIdle` stops counting the idle time of a key above every ttl
(no property tells longer times apart); `MaxHits` stops gets of a key that was hit
so often (one hit is enough for a later step to lose it); `MaxTime` stops the clock of the local tier
after two ticks, enough for created, live and expired with a ttl of 0 or 1, where
0 is never; `MaxCalls` is 3 calls of the tracking stores by two tasks, two that overlap
and one after them, and with `MaxConn` at 3 each can have a connection, so that bound
never holds a call back; `Number` has more numbers than there are documents of one key
and writer, in the store or in some call's list; `PageSize` is 1, so two keys are two
pages and what follows a page is asked for. Two tasks with cancellation and restart
were too many states for `NoSilentLoss`: `CacheTwoTasks` has the one, `CacheDeleted` the
other, and theorem `NothingLost` both. Tier sizes are chosen so that a set evicts nothing, one entry, several,
and the very entry it overwrites.

Every passing property has a mutant in `PROJECT.json`: a definition of the model
changed as a plausible bug would change it, which TLC then finds to violate the
property. They stand, marked "Mutant", before the definitions they change, and
belong to no specification.

**Fairness.** `CacheTwoTasks` assumes weak fairness of `Proceed(t)` for each task:
asyncio runs every ready task in turn, and an I/O operation completes. Nothing is
assumed of calls: no task has to begin one. Nothing is cut off in this
run (`Undisturbed`), so every evicted value reaches dry. The local tier needs no fairness: `Advances` says of each step
of a call that it brings the call closer to its end, in an order without infinite
descent, so a call that is scheduled ends, whatever other calls and crashes do.

### What the code does not have

The four findings: a get that found an older value below hot writes it over a newer
one (`manager.py:115`); with memcached as the cold tier get answers None for what dry has
(`memcached.py:66`); a get of the local tier raises when a delete of the same key removes
the files between its two reads (`dry/local.py:49`; a set that has opened the data file, or
an eviction, gets in between the same way); a memcached value that replaces a longer one is not seen
(`memcached.py:76`).

Changing the constants of the other runs shows the limits of what passes:

- with two tasks `NothingComesBack` fails (a demotion or promotion under way puts
  a deleted value back), and so do `TrackingIsAccurate` (two tasks record the tier
  of a key in the order opposite to that of their writes), `EvictsOldest` (the list
  of sidecars is old by the time it is used), and `NeverMixed` (chunks of two sets
  interleave); and a sweep of the local tier removes what a set has written since the
  sweep found it expired (`dry/local.py:107`), which one task cannot show;
- with `Store` redis, postgres or mongodb `HitHistorySurvivesTierChange` fails;
- with an entry in cold `IsAMap`, `GetAnswersCurrent` and `TrackingIsAccurate` fail:
  a promoted entry stays in cold, and after a newer value has left hot for dry the
  older one in cold answers first;
- after a crash the local tier may exceed its capacity for good: data without a
  sidecar is counted and never evicted (`CapacityKept` therefore stops at a crash).

Seen while modelling, and not put into a run:

- The byte count of a RAM tier drifts below what is held after a set that evicts the
  entry it overwrites (`ram.py:69`); `SizeNeverOverstated` is therefore an inequality,
  `OverCapacityOnlyAlone` is about the counted size, and the bytes held may exceed the
  capacity. `MiscountIsOfOverwrites` says that this is the only way to a wrong count.
- A `ttl_hours` of less than a second is cut down to 0 (`manager.py:129`), and such an
  entry never expires; `LifetimeByPriority` holds from one second on.
- `S3Backend.flush` does not look at the errors in the answer of `delete_objects`
  (`s3.py:104`) and returns as if all objects were gone; that is why
  `ReplacesWhatWasThere` leaves out what was refused to the very call (`Refuse`).
- `config.py:39` gives cold a default ttl of 4 hours and `config.py:77` one of 24, as
  does README.md:237. Rules and defaults for cold and dry are computed and never used:
  `resolve` is only called for hot, and a demotion passes no ttl, so dry never expires
  anything (CHANGELOG.md:10 gives it a default of 168 hours).
- A promotion gives the entry the default ttl of hot, not the one its set asked for.
- MongoDB's TTL index is on a field that holds a float, so the server removes nothing;
  `tracking/mongodb.py` makes no TTL index although its docstring speaks of one.
- `MongoDBBackend.set` raises NoFile, and stores nothing, when another call removes the
  file between its find and its delete; `S3Backend.keys` raises when an object it has
  listed is deleted before it is looked at (`s3.py:128`).
- Any error of a get from S3 is answered None (`s3.py:64`), which the manager takes for
  a value.
- An increment of MongoDB's counters before the document is there does nothing and does
  not fail; that is why `CountsWhatReturned` is of calls that found it there.
- A set of a value in chunks that is cut off between two of them leaves the count of the
  value before over chunks of both (`memcached.py:82`): the next get joins them. That is
  why `NeverMixed` leaves out the keys in `hurt`.
- Of two first calls to SQLite or Postgres one leaves its connection behind, open for as
  long as the process lives; the second caller of a Postgres pool may find no table.

## 4. The proofs

TLAPS proves of the RAM tier, for any finite set of keys, any values, sizes, capacity,
ttls and clock steps (`RamBackendProofs`):

| Theorem | States |
|---|---|
| `TypeCorrect` | `Spec => []TypeOK` |
| `SizeCorrect` | `Spec => []SizeNeverOverstated` |
| `CapacityCorrect` | `Spec => []OverCapacityOnlyAlone` |
| `MiscountCorrect` | `Spec => MiscountIsOfOverwrites` |
| `LossCorrect` | `Spec => LossIsHanded` |
| `RecencyCorrect` | `Spec => EvictsLeastRecentlyUsed` |
| `WindowCorrect` | `Spec => SlidingWindow` |

of the manager, for any number of tasks interleaving at every suspension, every
tracking store, any tiers, and with cancelled calls and restarts allowed
(`CacheManagerProofs`):

| Theorem | States |
|---|---|
| `TypeCorrect` | `Spec => []TypeOK` |
| `NothingLost` | `Spec => NoSilentLoss` |
| `HitHistoryKept` | `Spec => HitHistorySurvivesTierChange`, with SQLite or no store |
| `LifetimesCorrect` | `Spec => LifetimeByPriority`, for every list of rules |
| `ValuesKeepToTheirKeys` | if each set of a key k writes a value of `W[k]`, then whatever the tiers, dry and the frames hold of k is of `W[k]`, in every state; over tiers that answer MISS |

of the manager with one task and, but for the last, with a cold tier that is empty at first
and answers MISS, and nothing cut off (`CacheOneTaskProofs`; `UndisturbedSpec` is `Spec` without `Abort` and `Restart`):

| Theorem | States |
|---|---|
| `CacheImplementsMap` | `UndisturbedSpec => IsAMap`, which is `KV!Spec`, when flush is of cold or of all tiers |
| `AnswersCurrent` | `UndisturbedSpec => GetAnswersCurrent` |
| `TrackingAccurate` | `UndisturbedSpec => []TrackingIsAccurate`, in every store that keeps rows, when hot is not flushed alone |
| `DeletedStaysDeleted` | `HSpec => []NothingComesBack`, with cancelled calls and restarts and whatever cold holds at first; over tiers that answer MISS |

of the local tier, for any keys, values, sizes, ttls and capacity, with crashes; the
first two for any number of tasks, the others for one (`LocalBackendProofs`):

| Theorem | States |
|---|---|
| `AlwaysAdvances` | `Spec => Advances` |
| `TypeCorrect` | `Spec => []TypeOK` |
| `FilesMatch` | `Spec => []FilesAreTheMap` |
| `CapacityHolds` | `Spec => []CapacityKept` |
| `OldestFirst` | `Spec => EvictsOldest` |

of the memcached tier, for values and chunks of any length, a server that drops items
at will and calls cut off anywhere; the first for any number of tasks, the second for one (`MemcachedBackendProofs`):

| Theorem | States |
|---|---|
| `TypeCorrect` | `Spec => []TypeOK` |
| `NoMixture` | `Spec => []NeverMixed` |

of both remote dry tiers, for any tasks, keys and page size, with calls cut off
anywhere (`RemoteDryProofs`):

| Theorem | States |
|---|---|
| `TypeCorrect` | `Spec => []TypeOK` |
| `CopiesBounded` | `Spec => []OneDocumentPerWriter` |
| `Replaced` | `Spec => []ReplacesWhatWasThere` |
| `OnlyExpiredRemoved` | `Spec => RemovesOnlyExpired` |

and of the tracking clients, on each of the four stores and for any finite set of tasks
(`TrackingClientProofs`):

| Theorem | States |
|---|---|
| `TypeCorrect` | `Spec => []TypeOK` |
| `TransactionsClosed` | `Spec => []TransactionsAreClosed` |
| `ConnectionsStayBounded` | `Spec => []ConnectionsBounded` |
| `CountsReturned` | `Spec => []CountsWhatReturned` |

That a theorem is of one task is no weakness of the proof. Several of these properties
are false of two: `CacheStalePromotion` shows a promotion that writes an old value over a
newer one, `LocalTorn` refutes the map of the local tier, and of memcached two sets of one
key may store their chunks in turn. The other conditions are those of the code's promise, too: with a cold tier that
answers None a get misses what dry has (`CacheColdMemcached`), a flush of hot alone or of
dry alone leaves part of the entries behind, and hot, flushed alone, leaves its rows.

They rest on the assumptions named in the modules (`KeyAssumption`: finitely many
keys; `SizeAssumption`, `TTLAssumption`: sizes and ttls are natural numbers;
`MaxIdleAssumption`: the bound on idle is above every ttl; `ColdAssumption`: what cold
begins with is a tier whose order is one of its entries; `ValAssumption`,
`CallAssumption`: the markers are no values, what a call asks for resolves to a ttl of
the tier, and the bounds on calls are well formed; `MissAssumption`: a miss is answered
with MISS or with a value, and a cold tier that answers with a value begins empty;
`RulesAssumption`: the rules are a sequence, hours and ttls are natural numbers, and the
markers for none are not; `FilesAssumption`: finitely many keys and tasks, natural sizes
and ttls, and markers that are neither values nor files; `ChunkAssumption`: values and
chunks have a length, and the markers are no values; `TaskAssumption`, `BoundAssumption`
and `PageAssumption`: finitely many tasks, bounds that are numbers, and pages of at least
one key). TLC evaluates each of them in the runs of its module.

The argument. `RamStoreProofs` shows of each function of `RamStore` which keys are
resident after it, that the order stays a strict total order, and what it does to the
size; `Bytes` is a cardinality, so that adding and removing entries follows from the
library's facts on finite sets. In `RamBackendProofs` the inductive invariant `Inv`
is the three state properties, that the order of the store is a strict total order on
its keys, and two more, without which the last two theorems cannot be had: `OrderIsRecency`, the order of the dictionary is that of the last
uses, which no property says of states but every eviction relies on; and
`TimeLeft`, the time left of an entry is its ttl less the time since its last use.
The size needs no more than an inequality, because the code's double deduction makes
equality false; how far each step moves the two apart is `MiscountCorrect`. A set is the one hard step: its victims are closed under "older",
they are handed on in order, and the smallest set of them that makes room leaves the
size within the capacity or the new entry alone.

For the manager `Inv` is `TypeOK`, that the frame of every task holds what its next step
uses (`FrameOK`), and the order of hot and of cold.
`NoSilentLoss` is an action property, so no invariant is looked for: `Kept(t)` says of
a step of `t` that every key held before (in a tier, in dry, or in the frame of some
task) is held after or was one that `t` removes. A task moves entries only through its
own frame, and `SoundStep` reduces a step to three questions: is the next frame well
formed, does each entry that left hot or cold go into it or into dry, and does each
entry that left the frame go into dry. Each action then answers these with the facts
of `RamStoreProofs` about the one function of the tier that it applies. What other
tasks hold is untouched, which is why the number of tasks does not matter.

`LifetimesCorrect` is about a recursive function, and the library's induction cannot be
used here. `Resolve` goes through the rules from the first on; where it comes to speak
is the smallest number with a property, and that every non-empty set of numbers has a
smallest is `SmallestNumber`, from the well-founded order of the numbers. If a rule on
the way to it were wrongly answered, so would the next be: `GoesThrough` and `AWayThrough`
take the last of those and find it to be the rule itself.

With one task the invariant can say what a frame knows of the tiers, since nothing changes
them while the task waits. `Alone` says it place by place: an evicted pair that is still to
be demoted is not in hot, but for the entry a set has just replaced; a key that is looked
for below hot is not in hot, and what was found of it is what dry still has; a key that is
being deleted has left hot first, then dry. From it follows where the one value of a key
is, `Here`: in hot, else in the frame on its way to dry, else in dry. That is the
refinement mapping, and `MapAfter` says of each step what becomes of it: a promotion, a
demotion, an eviction or an expiry moves the value and leaves the map as it is; and a step
that changes the map is the one with which a set, a delete or a flush begins, or with which
a purge turns to its next key. `Rows` is
the same for the rows: one is wrong only of a key that the frame is about to record.
For the history, `Remembered` says that what was condemned is out of the RAM tiers from
the moment its removal starts on dry, and that a value in any place was written by a set of
its key (`From`, which `ValuesKeepToTheirKeys` has for any number of tasks).

For the local tier and any number of tasks `Good` is all that `AlwaysAdvances` needs: a
frame has its fields, a removal leads back to where removals come from, and `Idle` alone
stands at idle. A step is closer by its own frame: the files it finds decide which way it
goes, never how far. Each stage of a call works through a list that was made before it,
and each step is to a later stage, or takes a key off the list, or is the second half of a
removal. The order is the lexicographic one of those three, and every list is finite.

For one task of the local tier there are three invariants, each on top of the last.
`Files`: the files of every key are what was meant, but for the keys the call at hand
touches (`Untouched`), and of those it is known how far they are (`Underway`); a crash
moves the touched keys to `hurt`. `Looked`: what set has read of the sidecars is all they
say (`Listed`), so the oldest it finds is the oldest there is. `Room`: as long as nothing crashed, the bytes that set counts
are those of the files (`Counted`), and where it stops evicting, the value fits or nothing
else is left (`Fitted`), so between calls all fits (`Capped`). `Bytes` is a recursive sum
over a set of files; that it does not matter which file is taken first (`Split`) is shown
by a smallest counterexample among finitely many sets.

For memcached `Whole` is that the chunks a count counts are pieces of one value, of as
many as that value has, but of the key that is being set or of which a set was cut off
(`Counted`); that a set has stored its first chunks (`Stored`), and that a get has read
nothing but pieces of one value (`Read`). Chunks that vanish make a get miss and never
mix, and a delete that is cut off only leaves fewer of them; so it is a set alone that can
leave a count above the chunks of two values. `MayAbort` and `MayVanish` may be true or
false.

For the remote tiers the invariant says what a frame knows while others change the
documents. `Before`: what a replacing call met when it began, and is still there, is
in what it has yet to look at (the files found, the page, the keys behind the marker), so
nothing of it is left when it returns. `Expiring`: what get and keys are about to remove
has expired, or, in S3, is newer than the call. `OwnFound`: a set that is about to upload
has found every document of its own, so none of them is left beside the new one.
`Evolves` is what other tasks may do to the documents under it (remove, let expire, add
with an id never met), and `KnowsOn` that this keeps what a frame knows; the actions then
answer only for their own frame.

For the tracking clients a transaction is that of a task that is to commit it: a step
changes one frame and one connection, and `StaysClosed` says what the two must have to do
with each other. The connections are bounded by counting those opened together with those
being made (`Accounted`): while there is no client none is opened yet, and every task may
be making one; from then on the one kind only turns into the other. `HitHistoryKept` needs
of the manager no more than its `Inv`: the four actions that write a row, one by one.
`CountsReturned` takes a ledger, `Tally`. For each counter it relates those calls that are
past their update, or have returned, to what the database counts and what the one open
transaction still has (`Kept`), and the calls begun to all of that and the updates ahead
(`Once`), so that a count is neither lost nor given twice. It holds of every connection by
itself, because a disconnect takes the writes of one with it; and only one has any
(`Lone`), because the lock of SQLite lets one write at a time.

What is only model-checked. Liveness: `CallsReturn` and `EvictedReachesDry`, for two tasks
and a hot tier of one entry; fairness and ENABLED are beyond what the prover does. And the
four disagreements, which are counterexamples and need no proof. Every other property of
every run is stated by one of these theorems.

## 5. Not modelled

- The serializer, the null backend and the example application: no state of their own.
- Configuration other than how it makes the ttl rules: it builds the objects once.
- The lazy client of `MongoDBBackend`: making it awaits nothing but the index.
- A manager over a memcached hot tier: it is only that tier (see section 2).
- The sync wrappers: each runs a call in an event loop of its own. An `asyncio.Lock`
  protects nothing between threads, and a client of redis, asyncpg or motor that an earlier
  call made belongs to a loop that is closed; both are outside these models.

## 6. Plan

Done: every component of section 1 that has a state, except as section 5 says; a theorem
for every safety and action property of the runs that must pass. Next:

1. The manager over a dry tier that fails or answers None for a value it has (`s3.py:64`),
   and over one where set is not atomic (MongoDB): which of `IsAMap` and `NoSilentLoss`
   survive.
2. The rows of redis in a run of their own (`redis.py:45`).
3. Proofs for several tasks of what is now proved for one, where it is true: that a get
   answers with a value some overlapping or last set wrote, that the local tier is the map
   for the keys no two calls use at once.
