# TLA+ models of logjam-tools

This directory holds TLA+ models of logjam-tools (`src/src/`):

- the importer's storage-side workers: the indexer and the stats-updater pool;
- the message-body codecs: decompression and compression into reusable buffers;
- the meta-information envelope and its byte-order conversion;
- the stream replay tool.

It also holds an abstract provisioning specification that the indexer is shown to implement, TLC configurations that model-check every module on small instances, and TLAPS proofs for every value of the constants.

## The system

| Part | Source | What it does |
|------|--------|--------------|
| Indexer, primary thread | `importer-indexer.c` `indexer`, `indexer_create_all_indexes`, `handle_indexer_request`, `ensure_databases_are_known`, `indexer_refresh_storage_sizes` | Indexes today's databases for every stream, then signals readiness. It spawns a background pass for tomorrow. Its poll loop handles `tick` (date rollover, storage sampling, hourly flush of the known-database cache), `$TERM`, and index requests from parsers. |
| Indexer, background threads | `bg_indexer`, `spawn_bg_indexer_for_date` | A detached thread creates every stream's database and indexes for one date, sleeping between streams. |
| Stats updater pool | `importer-statsupdater.c` | N workers pull update tasks (kind, database, map of namespace key to increments). Each entry is applied as an upsert. A lock conflict is retried while `--tries > 0`. Each worker keeps a cache of collection handles, refreshed hourly and staggered by worker id. |
| Decompression | `logjam-util.c` `decompress_frame*` | Decompresses a body into the worker's reusable buffer. The buffer grows by doubling up to `max_buffer_size` (32 MiB). |
| Compression | `logjam-util.c` `compress_message_data*` | Compresses a body with zlib or snappy into the producer's reusable buffer. The buffer is doubled until the codec's worst-case bound fits. |
| Envelope codec | `logjam-util.c` `htonll`, `ntohll`, `frame_extract_meta_info` | The last frame of every message is a meta header with its 64-bit fields in network byte order. A consumer accepts it only if the size, tag and version match. |
| Dump helpers | `logjam-util.c` `zmsg_savex`, `zmsg_loadx` | Write a message to a file as a frame count plus sized frames, and read it back. |
| Replay tool | `logjam-replay.c` | Replays a dump file, throttled to `messages_per_second`, and stops or rewinds at the end of the file. |
| JSON, logging, string helpers | `logjam-util.c`, `logjam-message.h` | Formatting and parsing only. |
| Controller, parsers, stream registry, date configuration | not under `src/` | Send ticks, `$TERM`, index requests and update tasks; hold the active streams and today's date. |

How the parts interact:

- The controller ticks every worker once a second.
- Parsers ask the indexer for a database before they write to it.
- The controller pushes update tasks to the updater pool.
- Both pools write to the same store, and the indexer's threads share each stream's `storage_size` field.

## Modules

### `Indexer` (with `MCIndexer`, `IndexerProofs`)

The state variables:

| Variable | Stands for |
|----------|------------|
| `now` | The wall-clock day. `AdvanceDay` moves it; this is modelled from the spec, because `config_update_date_info` is not under `src/`. |
| `today` | The day the indexer last read, `iso_date_today`. |
| `pc` | The primary thread's phase: startup, running or stopped. |
| `todo` | The streams the startup pass still has to index. |
| `ready` | Readiness has been signalled upstream. |
| `known` | The known-database cache, `state->databases`. |
| `ticks` | The tick counter, kept modulo `RefreshInterval * InfoInterval`. |
| `bgTodo[d]` | The streams the background pass for day `d` still has to index. |
| `pending`, `requested` | Index requests from parsers that have not been handled, and all requests ever made. |
| `indexed` | The databases whose index set was created without error. |
| `catalog` | The databases registered with `ensure_known_database`. |
| `storage[s]` | The day of the database last sampled into stream `s`'s `storage_size`. |

Each action models one whole handler:

- `StartupStep`: one stream of `indexer_create_all_indexes` at startup.
- `FinishStartup`: the readiness signal and the spawn of tomorrow's pass.
- `Tick`: the whole tick branch. On a date change it runs `ensure_databases_are_known` for today and spawns tomorrow's pass. It also refreshes storage sizes every `DATABASE_INFO_REFRESH_INTERVAL` ticks and flushes the known cache on the staggered hourly tick.
- `Terminate`: `$TERM`.
- `HandleRequest`: `handle_indexer_request`.
- `BgStep(d)`: one stream of a background pass.
- `ParserRequest`: a parser's request, modelled from the spec.

`Indexer` ends with the refinement mapping `Abs == INSTANCE Provisioning WITH day <- today`. The property `Provisioned == Abs!Spec` states that the indexer implements the abstract spec.

Store commands may fail when `StoreMayFail` is TRUE, because `create_index` and `indexer_check_disk_usage` only log their failures. The PULL queue is a set, which allows any order of handling.

### `StatsUpdater` (with `MCStatsUpdater`, `StatsUpdaterProofs`)

The state variables, per worker unless noted:

| Variable | Stands for |
|----------|------------|
| `queue` | The tasks still in the PULL socket (shared). |
| `task` | The task the worker is processing. |
| `left` | The keys of the task's map that are not yet visited. |
| `cur` | The key being upserted. |
| `tries` | The retry budget left for `cur`. |
| `collections` | The databases whose handles are cached. |
| `ticks` | The tick counter, modulo `RefreshInterval`. |
| `count` | `updates_count`. |
| `stopped` | The worker has received `$TERM`. |
| `outcome[e]` | Whether entry `e` was applied, or dropped with a logged error. |
| `lockFails[e]` | How many lock conflicts entry `e` met. |

Actions:

- `PullTask`: receive a task, `stats_updater_get_collections`, and the start of `update_collection`.
- `StartEntry`: the callback starts on the next key, with `tries = TOKU_TX_RETRIES`.
- `Upsert`: one `mongoc_collection_update`. It succeeds; or it meets a lock conflict and retries if `--tries > 0`; or it logs the error and drops the entry. The three callbacks share this loop.
- `FinishTask`: `zhash_destroy(&updates)`.
- `Tick`: counter reset and the staggered handle refresh.
- `Terminate`: `$TERM`.

Not modelled yet: the contents of the increments (`increments_to_bson`) and the parsing of namespace keys. They are data conversions, and no control decision depends on them.

### `Decompress` (with `MCDecompress`, `DecompressProofs`)

A body is its decompressed length, or `Invalid`.

- `size` is `zchunk_max_size(buffer)`. It persists across calls.
- `GzipStep` is one iteration of `decompress_frame_gzip`'s `while` loop.
- `decompress_frame_snappy` is three actions, in the order of its code:
  - `SnappyStep` reads the uncompressed length. It fails on an invalid body, starts the growth loop with `next_size = 2 * dest_size` if the body is larger than the buffer, and otherwise calls `snappy_uncompress` (`Uncompress`).
  - `SnappyGrow` is one iteration of `while (next_size < max_buffer_size) next_size *= 2`.
  - `SnappyResize` is the loop's exit: the cap, `zchunk_resize`, and `snappy_uncompress` into the new buffer.
  - `next` and `stage` hold `next_size` and the position in the function between these steps.
- `Receive` is the next call.

### `UpdateDelivery` (with `StatsUpdater`'s `Abs` and `StatsUpdaterProofs`)

This is the abstract spec of what the updater pool promises, written from spec.md sections 2, 4.2 and 6. It has no workers, retries in progress, caches or ticks.

- The state is the set `consumed` of tasks taken from the queue, and per entry an `outcome` and the `conflicts` it met before it settled.
- `Consume(t)` takes a task, once.
- `Settle(e, k, o)` settles an unsettled entry of a consumed task after `k` lock conflicts. `Allowed(k, o)` is the retry budget: an applied entry met fewer than `Retries`, an entry that met `Retries` is dropped, and without other store errors only the full budget drops an entry.

The mapping in `StatsUpdater` is as follows:

- `consumed` is the set of tasks no longer in the PULL socket.
- `outcome` is the concrete `outcome`.
- An entry's `conflicts` are its `lockFails` once it has settled, and 0 before.

A retried lock conflict therefore leaves the abstract state unchanged.

### `Provisioning` (with `IndexerRefinement`)

This is the abstract spec of what the indexer promises, written from spec.md sections 1 and 4.3. It has no threads, caches or ticks.

- The state is a current `day`, `ready`, the set `indexed` and the store's `catalog`.
- `Provision(db)` is an index pass on any database of a day up to tomorrow. A pass on a database of today registers it in the catalog. The pass may or may not leave the full index set behind.
- `Ready` signals readiness once, after every database of today is catalogued.
- `Rollover` is midnight, seen by a ready indexer. The day advances by one and the new day's databases are catalogued.

Under the mapping `day <- today`, the indexer's actions correspond as follows:

- the startup pass, `HandleRequest` on an unknown database and `BgStep` are `Provision` steps;
- `FinishStartup` is `Ready`;
- a `Tick` that sees a new date is `Rollover`;
- every other step is a stutter.

### `Compress` (with `MCCompress`, `CompressProofs`)

- `size` is the producer's buffer size. It persists across calls.
- `Call` is `compress_message_data`. An unknown method is logged and the body is left alone.
- Otherwise, if the buffer is smaller than the codec's bound, the growth starts at twice the size.
- `Grow` is one iteration of `while (next_size < bound)`.
- `Resize` is `zchunk_resize`.
- `Deflate` is the codec writing at most its bound, followed by the copy into the body.
- `LibraryBound` is zlib's `compressBound` and snappy's `snappy_max_compressed_length`, as the libraries define them.

### `Envelope` (with `MCEnvelope`)

The sequence number is a word of `Width` bytes of `CharBit` bits each.

- `Mem(x, big)` is the word's memory on a host of either byte order, and `FromMem` reads it back.
- `Htonll` is the code's loop: a shift by `CHAR_BIT` modulo the word width, plus the byte at address `i`.
- `Ntohll` is the reverse loop.
- `Send` is the producer's encoding, from the spec, because `meta_info_encode` is in `logjam-util.h`, outside `src/`.
- `Extract` is `frame_extract_meta_info`: the size check, the decode, and the tag and version check.
- The frame may arrive short, and tag or version may be those of a foreign or stale producer (`Others`).
- Producer and consumer pick their byte order independently for each message.

### `Replay` (with `MCReplay`, `ReplayProofs`)

A dump is a sequence of records. Each record is its frame count, its content size and the number of bytes missing from its end. The writer may have stopped mid-record.

The constant `Layout` gives each dump's record offsets, and `Layout[f][Len(f)+1]` is the file size (`zsys_file_size`). `LayoutAssumption` states how the records are laid out: one after the other from offset 0, each as long as `zmsg_savex` writes it (`OnDisk`). TLC evaluates this assumption on every replay run. `MCLayout` computes the offsets as sums over the records before each one. Taking the offsets as a constant, rather than defining them as a fold, is what lets the byte counter be reasoned about in a proof.

- `Timer` is `timer_event`, which refills the credit.
- `Throttle` is the `message_credit-- <= 0` branch.
- `LoadFails` is `zmsg_loadx` returning NULL, at the end of the file or on a corrupt record. The handler returns 1, which does not end the zloop.
- `Forward` sends a whole record.
- `ForwardPartial` sends the frames read before the record broke off in a size field (zmsg_loadx's "Unable to read properly, quit").
- Both `Forward` and `ForwardPartial` use `Send`: the counter grows by five words plus the content size, and the `== dump_file_size` test rewinds or stops.

## Runs

| Run | Checks | Shows |
|-----|--------|-------|
| `MCIndexer.cfg` | `TypeOK`, `DayCovered`, `EventuallyIndexed` | Wherever midnight falls, every stream's database of today and tomorrow is indexed or still scheduled for a pass. Under fairness of the threads, each is eventually indexed. |
| `MCIndexer_refines.cfg` | `TodayCatalogued`, `Provisioned` | Even with failing store commands, today's databases stay in the catalog once startup is over, and the indexer implements `Provisioning`. |
| `MCIndexer_NoWriteBeforeIndexed.cfg` | `NoWriteBeforeIndexed` (violation) | A parser can write to a database before it is indexed. |
| `MCIndexer_SampleNeverAhead.cfg` | `SampleNeverAhead` (violation) | A background pass overwrites the storage sample with tomorrow's size. |
| `MCDecompress.cfg` | `TypeOK`, `NoSpuriousFailure` | Only bodies that cannot fit under the ceiling are rejected. |
| `MCDecompress_gzip_loop.cfg` | `CallReturns` (violation) | The gzip loop never returns once the buffer is at the ceiling. |
| `MCDecompress_snappy_grow.cfg` | `BufferTight` (violation) | Snappy growth jumps straight to the ceiling. |
| `MCStatsUpdater.cfg` | `TypeOK`, `RetryBudget`, `TasksComplete`, `HandlesRefreshed`, `Delivered` | An entry is applied exactly when it met fewer lock conflicts than the budget, and dropped after the budget's worth. Every task a worker has read finishes, and handle caches keep being refreshed. The pool implements `UpdateDelivery`, so an applied or dropped entry is never upserted again. |
| `MCCompress.cfg` | `BufferHoldsOutput`, `GrowthTight` | Over calls reusing one buffer, the codec's output always fits the buffer (the code's assertion). A call never shrinks the buffer and grows it to less than twice the bound. |
| `MCEnvelope.cfg` | `WireNetworkOrder`, `RoundTrip` | On either byte order the wire bytes are big-endian. A consumer accepts exactly the whole frames of the current tag and version, and decodes them to what was sent. |
| `MCReplay.cfg` | `TypeOK`, `CounterTracksOffset`, `RateLimit`, `ReplayEnds`, `ReplayedForever` | With and without `--loop`, for dumps of whole records: the byte counter equals the file offset, at most `Rate` messages go out per timer period, the replay ends without `--loop`, and every record is replayed infinitely often with it. |
| `MCReplay_truncated.cfg` | `EveryReplayEnds` (violation) | A dump whose last record is cut never ends the replay. |

Bounds:

- Indexer: two streams, days 0 to 1 (and the day after, for tomorrow's databases), `RefreshInterval = 2` (so the hourly flush happens), and one parser (two in the violation runs; with fairness and no symmetry two parsers take more than fifteen minutes). Two streams are enough for one stream to be indexed while another is not, and one rollover is enough for midnight to fall inside the startup pass and the background pass. Streams and parsers are model values. The safety runs use symmetry, which is sound because every property is invariant under a permutation of streams and of parsers. `MCIndexer.cfg` checks a liveness property and uses none.
- Updater: two workers, three one-key tasks of the three kinds (two on the same database), `Retries = 2` (so both "k < budget" and "k = budget" happen), and `RefreshInterval = 2` (so both workers' staggered ticks come round). With the fairness of the liveness properties, tasks of two keys take more than seven minutes to check.
- Decompression: ceiling 8, initial size 2, and lengths 1, 3, 5, 8 and 9, so that bodies fit, need one or two doublings, sit exactly at the ceiling, or exceed it.
- Refinement: the indexer instance with failing store commands and one parser. With two parsers the run takes more than half an hour. Parsers only add requests, and a request becomes a `Provision` step whichever parser made it.
- Compression: all three methods, initial size 16, and lengths 0, 19, 40 and 100.
  - Some bounds fit the buffer.
  - Some need several doublings: snappy's bound for 40 is 78, which takes the buffer from 16 to 128.
  - Some calls follow a call that already grew the buffer.
  - The gzip bound of 19 is 32 = 2 * 16, which hits a power of two exactly.
- Envelope: 3-byte words of 2-bit bytes. This covers every value of a 6-bit word and both byte orders on both sides. With three bytes, a loop that visits the addresses in the wrong order gives wrong wire bytes. The frame size is whole or one byte short, and there is one foreign tag/version value.
- Replay: both values of `--loop` (the variable `endless`, fixed in the initial state), 2-byte words, `Rate = 3`, and dumps of one to three four-frame records of 0 to 2 content bytes, optionally followed by a cut record. With these, records of different offsets occur, the credit runs out within a period, and a rewind follows the last record.

Deadlock checking is off in the indexer runs (after `$TERM`, and after the last day, the system has stopped), in the updater runs (after `$TERM`), and in the replay runs without `--loop` (the tool exits once `zsys_interrupted` is set).

Fairness:

- Weak fairness for each thread's own steps: the primary's startup pass and request handling, each background pass, and each updater's pull, entry, upsert, finish and tick. Each thread runs its own loop, and ticks arrive every second.
- Replay: weak fairness for the timer and for each branch of the file handler. The zloop's timer fires every second, and the dump file's descriptor is always readable, so the handler is called again and again.
- No fairness for the store's answers, the controller's `$TERM`, the date, or the parsers.

## Findings

- **The gzip loop never ends** (`logjam-util.c:270`). The loop runs while the size is at most `max_buffer_size` and caps the doubled size at `max_buffer_size`. Once the buffer is at the ceiling, an invalid or oversized body is retried forever (`CallReturns`).
- **Snappy grows straight to the ceiling** (`logjam-util.c:304`). It doubles until it reaches `max_buffer_size`, not until the data fits (`BufferTight`).
- **Writes can reach unindexed databases** (`importer-indexer.c:477`). Tomorrow's databases are created by a detached, throttled thread that nothing waits for (`NoWriteBeforeIndexed`).
- **Tomorrow's size overwrites today's sample** (`importer-indexer.c:314`). Every database created records its size in the stream's shared `storage_size`, tomorrow's included (`SampleNeverAhead`).

- **A cut dump makes the replay spin forever** (`logjam-replay.c:60`). When the last record is cut, `zmsg_loadx` returns NULL or a partial message. The handler's `return 1` does not stop the zloop, and `bytes_read_from_file` never equals `dump_file_size`. Without `--loop` the tool polls the end of the file forever; with `--loop` it never rewinds (`EveryReplayEnds`).

## Proofs

### `IndexerProofs`

- `TypeCorrect == Spec => []TypeOK`, by `InitTypeOK` and `NextTypeOK`. `NextTypeOK` has one case per action and uses the lemmas `DbNameType`, `CreateIndexesGrows` and `CheckDiskUsageType`.
- `TodayCataloguedHolds == Spec => []TodayCatalogued`. `TodayCatalogued` alone is not inductive: `FinishStartup` needs every stream of today to be in the catalog already. The inductive invariant `CataloguedInv` adds `StartupCatalogued`, which says every stream the startup pass has visited is catalogued. TLC checked `CataloguedInv` as an invariant before the proof was written.
- The proofs assume only the ASSUMEs of `Indexer`: a finite, non-empty set of streams, `MaxDay \in Nat`, positive intervals and a Boolean `StoreMayFail`.

### `IndexerRefinement`

- `IndexerImplementsProvisioning == Spec => Provisioned`, for every set of streams and parsers and every `MaxDay`.
- The initial states map to `Abs!Init`. `StepRefines` shows that each step maps to an abstract step or a stutter; it has one case per action.
- A step maps to an abstract step only in reachable states, so the proof rests on `RefinementInvariant == Spec => []RefinementInv`. The inductive invariant `RefinementInv` conjoins five facts:
  - `CataloguedInv`;
  - the clock is at most one day ahead of `today` (`ClockInv`);
  - requests are for days the clock has reached (`RequestsInv`);
  - background passes are for days up to tomorrow (`BgInv`);
  - `ready` holds exactly when the startup pass has ended (`ReadyInv`).
- Without `ClockInv`, a tick could jump two days, which is not a `Rollover`. Without `ReadyInv`, a rollover could happen before readiness.
- TLC checked `RefinementInv` as an invariant with `MaxDay = 2` before the proof was written.
- `DayCoveredHolds == ~StoreMayFail => (Spec => []DayCovered)`. The hypothesis is needed: with failing store commands a database can be catalogued without its indexes, and `DayCovered` is then false. `MCIndexer.cfg`, the run that checks `DayCovered`, has `StoreMayFail = FALSE`.
  - The inductive invariant `CoverInv` adds `StartupToday`: during the startup pass `today` is still day 0.
  - The step proof `NextCover` also uses `RefinementInv`, already proved. A rollover needs `ClockInv` to know that the new today is the old tomorrow. It also needs `BgInv` to know that the new tomorrow's pass was just spawned.
  - TLC checked `CoverInv` with `MaxDay = 2` before the proof was written.

### `StatsUpdaterProofs`

- `RetryBudgetHolds == Spec => []RetryBudget`, for any number of workers, any tasks and any `Retries`.
- `RetryBudget` alone is not inductive. The inductive `BudgetInv` adds:
  - `FreshInv`: an entry still queued or still to be visited has no outcome and no conflicts;
  - `BusyInv`: a task in hand is no longer queued, and `cur` is a key of the worker's own task that has left `left`;
  - `ExclusiveInv`: no two workers hold one task;
  - `CurrentInv`: the entry being upserted has no outcome yet, `tries` is in `1..Retries`, and it has met `Retries - tries` conflicts.
- TLC checked `BudgetInv` before the proof was written.
- `TypeCorrect == Spec => []TypeOK`. The bound on `count` (`updates_count`) is not a matter of types: it holds because each task is pulled once. The inductive `TypeInv` adds `CountInv`: no worker has counted more tasks than have left the queue. The lemma `PulledCount` uses `FiniteSetTheorems`: a pull adds one task to those that have left the queue. The bound on `lockFails` comes from `CurrentInv`. This proof needs `IsFiniteSet(TaskIds)`, which is part of `TasksAssumption`: the controller pushes finitely many tasks. TLC checked `TypeInv` before the proof was written: 2.5 million states, with `StoreMayFail = TRUE`.
- `PoolImplementsDelivery == Spec => Delivered`: the pool implements `UpdateDelivery`. `StepDelivers` maps each step to an abstract step or a stutter:
  - `PullTask` is a `Consume`;
  - an `Upsert` that applies or drops an entry is a `Settle`, by the lemma `SettleRefines`;
  - a retried lock conflict and every other action leave the abstract state alone.
  
  `Allowed` holds at each settlement because `CurrentInv` gives the entry `Retries - tries` conflicts. The settled entry's task has left the queue because of `BusyInv`. So the proof rests on `BudgetInv` again.

### `DecompressProofs`

- `TypeCorrect == Spec => []TypeOK` and `NoSpuriousFailureHolds == Spec => []NoSpuriousFailure`, for every ceiling, initial size and set of lengths.
- `TypeOK /\ NoSpuriousFailure` is inductive. The proof needs no further invariant:
  - `CapRange`: the gzip loop caps every doubling, so the size stays in `1..max_buffer_size`.
  - `CapAtCeiling`: the snappy loop ends only once `next_size` has reached the ceiling, so the capped size is the ceiling itself. A body that fails there does not fit under the ceiling.

### `ReplayProofs`

- `RateLimitHolds == Spec => []RateLimit`, for every rate, dump and word size.
- `RateLimit` is not inductive: a send is allowed whenever the credit is positive. The inductive `CreditInv` says the messages sent since the last timer event plus the positive part of the credit are at most `Rate`.
- It is `<=`, not `=`: a failed load (`zmsg_loadx` returning NULL) spends a credit without sending. TLC found the equality false before the proof was written.
- `CounterTracksOffsetHolds == FourFrames => (Spec => []CounterTracksOffset)`. The hypothesis is needed. `bytes_read_from_file` adds five words per message, but `zmsg_savex` writes `1 + frames` words of header, so the two agree only for four-frame records. Every logjam message has four frames, and so does every record of the replay runs. With three-frame records TLC finds `CounterTracksOffset` violated.
  - The inductive `OffsetInv` only adds the types the step needs.
  - The lemma `WholeRecordCounted` carries the argument: a whole four-frame record takes up exactly what the counter adds for it, by `LayoutAssumption`.

### `CompressProofs`

- `OutputFits == Spec => []BufferHoldsOutput`: the code's assertion holds for every initial size, length and method.
- The inductive invariant adds two facts:
  - `GrowInv`: during the loop, `size < next < 2 * bound`;
  - `CalledInv`: once compression starts, the bound fits the buffer.
- `GrowthIsTight == Spec => GrowthTight` follows from the same invariant, by `StepTight`.
- Both proofs assume only the ASSUMEs of `Compress`, including `InitialSize > 0`.

What only TLC checks:

- The liveness properties (`EventuallyIndexed`, `TasksComplete`, `HandlesRefreshed`), because TLAPS cannot reason about fairness or ENABLED.
- The Decompress violation runs. They are findings, not theorems.
- Everything in `Envelope`. `Htonll`, `Ntohll` and `FromMem` are recursive functions over the bytes of a word, and `Pow2` is one over the exponent. Using the equation that defines a recursive function needs the inductive-definition theorem of `NaturalsInduction`, whose operator parameter no installed prover can instantiate. What the loops compute for every `Width` is a statement by induction over the bytes.
- `Replay`'s `TypeOK`. Its bound on `bytes_read_from_file` is a bound for the dumps of the runs, not a general fact. With a cut record the counter is not a file offset: a partial message may add up to the record's whole content, more than the record takes on disk. Bounding the counter in general would take the sum of the counted sizes of the records sent in a pass. Reasoning about such a sum needs induction over the records, which the provers cannot do: the fold lemmas of the community modules take operator parameters, which no installed prover can instantiate. The other properties of `Replay` that are not proved are liveness.
- `DayCovered` with failing store commands. It is false there, and `MCIndexer.cfg` runs without failures.

## Not modelled

- `zmq_msg_extract_meta_info` and `msg_extract_meta_info`. They repeat `frame_extract_meta_info`'s check on another frame type.
- `publish_on_zmq_transport`: four sends, with no state of this code.
- The string and JSON helpers, `set_thread_name`, `dump_meta_info` and `output_socket_ready`. They are formatting or I/O.
- The replay tool's option parsing, socket setup and statistics. No control decision depends on them.
- The zero-size buffer (`logjam-util.c:196`). With size 0 the doubling loop never ends, but the buffers are created by callers outside `src/`. `Compress` assumes a positive size.

## Plan for later sittings

1. Give the replay tool an abstract spec of playback order (each record after the one before, a rewind only after the last), and check it on dumps whose records do not all have four frames.
2. Add an algorithm module for `increments_to_bson` and the namespace-key parsing of the minutes and quants callbacks, checked against a reference definition.
3. Write a composed module in which the updater's writes depend on the indexer's provisioning.
