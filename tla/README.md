# A TLA+ model of the AppL flash translation layers

AppL is a user-space flash translation layer (FTL). A block front end or a
benchmark submits transactions of 4 KB reads and writes; an interface layer
admits them, gives them tags and calls one FTL (AppL itself in
`algorithm/layeredLSM`, or the baselines `Page_ftl`, `DFTL`, `leaFTL`); the FTL
maps logical blocks to flash pages through a block manager and a device back end
in `lower/`. All paths below are relative to `src/`.

| module | models | run |
|---|---|---|
| `SeqBlockManager` | segments, validity bitmaps, spare areas (`blockmanager/sequential`) | within `PageFTL` |
| `PageFTL` | the page-mapping FTL over the block manager and the in-memory device | `page_*` (`MCPageFTL`) |
| `PageFTLProofs`, `PageFTLStoreProofs` | theorems about `PageFTL` for every geometry | `tlapm` |
| `VectoredInterface` | admission, tags, retries, flush waits (`interface/`) | `vectored_*` (`MCVectored`) |
| `VectoredInterfaceProofs` | theorems about `VectoredInterface` for every budget and tag set | `tlapm` |
| `LayeredLSM` | AppL's LSM-tree, shortcut table and merges | `lsm` (`MCLayeredLSM`) |
| `LayeredLSMProofs` | theorems about `LayeredLSM` for every number of blocks, levels and runs | `tlapm` |
| `RunStorage` | where AppL's runs live: block table, sorted tables, collector | `appl` (`MCAppL`) |
| `IndexCache` | AppL's cache of shortcut pages and indexes, and its read path | `appl`, `appl_rewrite` |
| `RunIndex` | the index functions of a run, and the input of a merge | `appl` |
| `MemTable` | AppL's log run | `appl`, `appl_buffer_stale` |
| `TranslationMap` | what a mapping promises (abstract) | refined in `dftl` |
| `DemandFTL` | DFTL with its coarse cache | `dftl` (`MCDemandFTL`) |
| `DemandFTLProofs` | theorems about the control of `DemandFTL` for every number of requests, pages and slots | `tlapm` |
| `FineCache`, `SftlCache` | the other two caches of DFTL | `mappings` (`MCMappings`) |
| `LeaFTL`, `LeaGroup`, `LeaPages`, `LinearModel` | the learned FTL | `mappings` |
| `MaxHeap` | the array heap that picks victims (`include/data_struct/heap.c`) | `mappings` |
| `ThreadPool`, `BlockFrontEnd`, `Benchmark` | what drives the FTLs | `front` (`MCFrontEnd`) |
| `PuManager`, `AioDevice`, `AmfDevice`, `PartitionedSlab` | what lies below them | `front` |
| `DriverProofs` | theorems about `ThreadPool` and `Benchmark` as parts of `MCFrontEnd`, for every script, number of threads and plan the driver can run | `tlapm` |
| `BlockFrontEndProofs` | a theorem about `BlockFrontEnd`, `PuManager` and `PartitionedSlab` as parts of `MCFrontEnd`, for every number of slots, blocks and slabs | `tlapm` |
| `DeviceProofs` | theorems about `AioDevice` and `AmfDevice` as parts of `MCFrontEnd`, for every number of tags, wrappers and units, and the invariants of `PuManager` and `PartitionedSlab` | `tlapm` |

`PROJECT.json` maps each definition to the lines it models and lists the runs,
the mutants (one per checked property: a plausible bug of that code that breaks
it), the findings, the hazards and the theorems. Definitions introduced by
`\* Mistake:` are the mutants; no specification uses them.

A run that covers several parts (`appl`, `mappings`, `front`) gives each
part its own variables and instance. The first state chooses the part, in the
variable `part`, and the rest stays at `Off`; parts do not interact, and the
state space of such a run is the sum of those of its parts.

## 1. Inventory

**Interface** (`interface/vectored_interface.c`, `interface.c`, `queue.c`,
`include/utils/tag_q.c`). State: the admission budget `flying_cnt`, the number
of reads in flight, the tag queue, `req_q`, `retry_q`, one counter per
transaction. One host thread submits, one main thread serves, device threads
complete. An FTL may push a request to the retry queue from a callback
(`inf_assign_try`), and may answer a write with `UINT32_MAX`, after which the
next write must meet no read in flight. Hard: three kinds of thread race over
two queues and two counters, and completion frees the transaction. Correct:
budget and tags are conserved, no request is lost or touched after its
transaction is freed, a flush meets no read, everything submitted ends.

**Page FTL, block manager, in-memory device** (`algorithm/Page_ftl`,
`blockmanager/`, `lower/posix_memory/posix.c`). State: a mapping of pieces, a
write buffer of `L2PGAP` pieces, a one-page read buffer, an active and a reserve
segment; free queue, heap of candidates, page cursor, bitmap, counters and spare
area; a bounded device queue. Collection runs inside a write. Correct: the
mapping names valid pieces that name it back, every segment has one owner,
counters agree with the bitmap, no acknowledged write is lost, a read returns
the last write, collection always makes room.

**AppL** (`algorithm/layeredLSM`). State: a log run (memtable),
`total_level_num` levels of sorted runs, and the shortcut table, which names for
each block the one run that holds it. Runs are made of blocks (STEs), each with
an approximate index and a summary page; a block table with its own collector
places them on flash; a cache holds shortcut pages and indexes. Hard: whether a
copy is current is never stored but inferred from levels and recencies across
any number of merges, and the collector runs in the middle of flushes and
merges. Correct: the run the shortcut table names holds the last copy, stale
copies are recognised wherever merges carry them, runs are neither lost nor
freed twice, everything valid on flash has an owner, a read that misses in a
cache or is sent to a wrong page comes to an end with the right block.

**DFTL, SFTL, leaFTL** (`algorithm/DFTL`, `algorithm/leaFTL`). State: translation
pages (or learned groups) on flash, a bounded cache of them, pending lists of
requests that wait for a page, promised slots. Hard: requests, completions, two
collectors and evictions change the same tables between the look and the use.
Correct: the mapping found first is the last one applied, a dirty entry survives
its eviction, the cache accounts exactly for what it holds and promised, a
request that waits has one wake-up coming.

**Front end** (`interface/cheeze_hg_block.c`, `global_write_buffer.c`, `bench/`,
`include/utils/thpool.c`): slots shared with a kernel driver, a double write
buffer, workload generators, a thread pool. Correct: each request is answered
once and with data at least as new as what had been acknowledged; a benchmark
reads what it wrote and ends; no wake-up of the pool is lost.

**Below the FTLs** (`parallel_unit_manager/`, `lower/linux_aio`, `lower/AMF`,
`include/data_struct/partitioned_slab.c`): wrappers and tags, a page cache,
per-unit queues, callbacks, slabs for the contents of mapping pages. Correct:
each request ends once, no tag or wrapper serves two, a page is read as last
written.

Every part is listed with its status under `components` in `PROJECT.json`.

## 2. Plan

Done: the models in the table above, the refinement of `TranslationMap` by
`DemandFTL`, liveness of every part that waits, and the inductive proofs of
section 10: the page FTL (mapping, segments, counters, contents of the flash,
order of the device queue), the vectored interface, the thread pools, the benchmark
driver, the block device front end, the parallel unit manager, the slabs, both device
back ends, the control of the demand-paged FTL and AppL's LSM-tree.

Left: the step simulation of `TranslationMap` by `DemandFTL`, for the actions that
neither evict nor collect first.

## 3. The page FTL, its block manager and its device

`PageFTL` extends `SeqBlockManager` and adds the mapping, the buffers, the
control point `pc` of the main thread and the device queue. One action is one
stretch of code between two points where the device thread can be seen: sending
a request into the bounded queue blocks when it is full. Garbage collection is
modelled step by step (read every valid page, wait, copy piece by piece through
the collection buffer, erase, swap the reserve), because the device performs
earlier requests meanwhile. `DumpLoad` saves and rebuilds queue, heap and
cursors between two requests.

Data is a version per key: the host never writes the same version twice in a
row, which is all a staleness property needs. The spare area reads `ZeroKey`
when erased, as the calloc'ed memory does. The order in which the heap lists
candidates of equal weight is left open; `MaxHeap` models the array itself.

| run | instance | checks |
|---|---|---|
| `page_write` | 3 segments of 2 pages of 2 pieces, 3 keys, one dump and load | mapping, bitmap, counters, spare area and segments agree at every step (`MappingSound`, `BooksExact`, `SegmentsPartition`), nothing acknowledged is lost, collection makes room |
| `page_read` | 3 segments of 2 pages, 1 key, 2 reads in flight, queue of 4, one dump and load | reads served by flash are fresh, requests reach pages in the order that keeps writes on erased pages and reads on written ones, every read and write ends |
| `page_stale_buffer` | 1 key, 1 read, pages of one piece | *violation*, finding 1 |

Three segments are the fewest with which a free, an active and a reserve
segment exist at once, so every write sequence soon collects; two pieces per
page make partly valid pages, three keys make live pieces a collection must
move. `page_read` is about the reuse of a page number while a read of it is
queued; with one key its collections find nothing to copy, which is what
`page_write` is for. A joined read stays fresh only because the queue is shorter
than the number of requests between erasing a page and writing it again: with
these tiny segments a longer queue breaks it, in the real program 1024 stands
against at least 8192 pages per segment.

Fairness (`page_read`): weak fairness of the main thread and of the device
thread, two dedicated POSIX threads that loop for ever.

## 4. The interface

`VectoredInterface` has a host thread (make a transaction, spin for budget,
enqueue), the main thread (take a retry or a transaction, wait if the last write
asked for a flush, get a tag, call the FTL) and, for each request in the FTL,
steps of a completing thread: give back the budget, give back the tag, count the
transaction, free it. Retrying is two steps, as in `inf_assign_try`. The FTL is
external: a call returns before or after its request has ended, may retry the
kinds in `RetryKinds`, and, like leaFTL, may answer writes with `UINT32_MAX` when
`FlushAnswer` holds. A transaction slot is reused after it is freed, so a late
access would be seen.

| run | instance | checks |
|---|---|---|
| `vectored_retry` | 3 transactions of 1 or 2 requests, budget 2, an FTL that retries both kinds (DFTL) | budget, tags and both queues exact and never overrun, waiting for a tag is brief (`ResourcesExact`), nothing touched after free |
| `vectored_live` | 2 transactions, an FTL that retries reads and asks for flushes (leaFTL) | reads in flight are counted exactly and a flush meets none, every transaction ends |

A budget of 2 is the smallest that lets a transaction be admitted in one piece
while another is half finished; retries are bounded by `MaxRetry` per request,
without which no request need ever end. Fairness: weak fairness of admission
(one submitting thread, so its spin cannot be overtaken), of the main thread,
and of the completion of each request, which the device guarantees. FLUSH
requests are left out: in DFTL, `page_flush` waits on the main thread for a
queue only that thread drains, so nothing happens after one (see the hazards).

## 5. AppL's LSM-tree

`LayeredLSM` models insertion, flush, merging of upper levels, merging of two
runs of the last level, and the low-space rewrite, each as one action of the
main thread (`THREAD_COMPACTION` is off). Data is abstracted to freshness: a run
knows which of its entries are the last ones written. Everything that decides
which copy survives is kept: levels and recencies, the two validity checks, the
blocks moved by reference with the level and recency recorded with them, the
scan for the largest unlinked shares, slots, holes and the pools of indices.
`Merge` computes what the loop over sorted iterators computes, all lookups
against the table before the merge. That is what the loop does too: an entry is
linked after its only lookup, and a block is moved only if nothing else overlaps
it. Whether space is short comes from the block table and is external.

TLC identifies states that differ only in the names of run indices and in the
absolute values of recencies (view `LsmView`); the specification compares both
and nothing else.

Run `lsm`: 2 levels of 2 and 3 runs, STEs of 2 entries, and two loads (`MCLoads`;
a behaviour picks its load at the start). With 4 blocks and a memtable of one STE,
`LatestOnly` says that reads find the last copy and that every stale copy is refused
by the validity checks. There, and with 2 blocks, a memtable of two STEs, repeated
writes and one rewrite per flush, `RunsInPlace` says that run indices, levels with
their holes, the pool and the unlinked counters stay exact. Both are proved for
every instance and load (section 10).

Four blocks and STEs of two are enough for a merge that moves one block and
copies from another, and for a moved block that later carries a stale entry into
a second merge, which is where the mutant of `LatestOnly` fails. The code fixes two
levels (`lsmtree_parameter.cpp:312`). A last level of three keeps clear of the
comparison at `compaction.cpp:74`, which would drop two runs from a last level of
exactly four (`LastLevelAssumption`); the code's last level has at least 15. The pool has two indices
more than the levels have slots, as in `lsmtree_init`. The run does not check for
deadlock, because the program really ends where the disagreements of section 9
apply. `LatestOnly` is about the loads that are `Plain`: no forced
rewrite and no block twice in one STE of the memtable, two of those cases.

## 6. What AppL's tree rests on

Run `appl`, four parts.

`RunStorage` (part `store`): `block_table.cpp`, `sorted_table.cpp`, `gc.cpp` and
the writing half of `run_insert` and `run_merge`. The state of the storage is one
record that the operations transform in the order of the code; a block or summary
page is asked for at the point where the code asks, and the collector runs there
if it must. So a collection can move the block a merge is reading and the one it
is writing. 4 addresses, 6 segments of 2 one-page blocks of 3 pieces, memtable of
3, 5 run names, 3 flushes, one forced collection: enough for both kinds of
segment to be collected during a flush and during a merge. `StoreSound`: no
check of the code fails, everything valid has one owner, every segment one
place, counters exact. `StoreReadsFresh`: shortcut, run and block table lead to
the data written last. Devices too small for the number of runs end in the
abort "not effective gc on summary" and are not instances.

`IndexCache` (part `cache`): `page_cache.cpp`, `cache_layer.cpp`, `lsmtree_read`,
`run_query.cpp`, and the half of `run_insert` that links a written block to the
memtable. Two shortcut pages, two runs, two reads (4 in all), 3 merges, 2 writes,
room for 4 units with shortcut pages of 2 and indexes of 1, so that every
admission evicts something. The memtable is two places a block can be in, its page
buffer (`Buf`), which answers at once, and its pages on flash (`Log`), which are
read; a flush moves both into a run. Its STEs, which the code closes one by one as
they fill, are taken as open until then: a closed one gives the read of
`appl_rewrite` a page instead of a bad index. `CacheSound`: sizes and lists exact, and a waiting
read has exactly one to wait for. `ShortcutsKept`: the newest shortcuts are in
the cache or on flash. `NotFoundIsTrue`, `ReadsEnd`. Fairness: the device
completes reads and the main thread takes the head of the retry queue.
`DataOverlap = FALSE`, `RewriteOverlap = FALSE` and `ScPages = 20` keep three
disagreements out (section 9); the second, a block written while its read waits for
its shortcut page, is the subject of run `appl_rewrite`.

`RunIndex` (part `index`): a run of up to 7 addresses is written, queried,
retried, walked by a merge and freed, for each kind of index (Bloom filters,
guarded filters, packed linear model, compressed table) and three hash functions
(all collide, half, neighbours). `IndexFinds`: no read of an address the run holds
is answered "not found" or sent outside its block, and packing a line into bits
keeps it. `MergeInputExact`: the walk over the summary pages yields every entry
once and in order, whichever blocks are moved whole. The linear model is the one
of leaFTL (`LinearModel`). A query of an absent address, which could wrap in
`bs_search` or in the retry of a guarded filter, is not made: the shortcut table
names only runs that hold the block.

`MemTable` (part `mem`): the tree of the log run keeps one place per block, a
flush walks the newest copy of each. 3 blocks, pages of 2, 7 writes. As in the
shipped build, runs are of the kinds `RUN_LOG` and `RUN_NORMAL` only
(`pinning_enable` is false, `SC_MEM_OPT` undefined).

## 7. The demand-paged and the learned FTL

`TranslationMap` says what a mapping promises: one location per address, changed
only by applying a submitted update or by the collector moving the data, every
read answered with the location the mapping names. `DemandFTL` models
`algorithm/DFTL` with the coarse cache: the main thread's reads, writes, removals
and retries, the device's completions, both collectors, dump and load. Physical
addresses are the code's numbers. A map page is read or written when the
operation is issued, since the device serves one queue in order; its completion
is a step of its own, and everything the code does between the two can happen
there. A page that has been read is put into the cache (`Fill`), then those who wait
for it are served one by one (`Serve`) and its entry in the set of pages being read
is erased (`Served`), as in `demand_map_coarse_type_pending`.

Run `dftl`: 2 addresses with a translation page each, a cache of one page, 4
segments of 2 pages of 2 pieces, 2 requests, 3 flushes, one removal, one dump and
load; requests are interchangeable (symmetry). `MapRefined`: `DemandFTL`
implements `TranslationMap`; the location of an address is its entry in the
cached page, else in the page on flash, and the updates to come are those of the
requests that still have entries to assign. `MappingLatest`: a page
being read for a miss is patched when the collector moves what it names, and no
assertion of the FTL is reached (`NoAbort`).
`SlotsExact`: cached and promised pages never exceed the cache, and the promises are
those the misses in flight hold. `NobodyStranded`: each request in flight is run, with
the device or on the retry queue, once, or waits for a page whose reader is. One page
of cache makes every miss evict; one update in flight per address (`MaxAssign`)
keeps the overtaking of section 9 out.

Run `mappings`, seven parts:

- `fine` (`FineCache`): single entries cached (2), two per translation page, 3
  requests. The eviction of a dirty entry first reads its page, then writes every
  dirty entry of it; several misses and evictions wait for one read.
- `sftl` (`SftlCache`): compressed pages whose size changes with every update, two
  pages of three entries, 31 bytes, so that neither page fits with the other once
  fragmented. One request at a time. `upper_bound()--` on the first element is
  undefined in the code and a choice here.
- `line` (`LinearModel`): the quantized linear model over all sequences of 8 keys
  with steps 1, 2 and 7. `LearnedLookupExact` asks what the FTL relies on: a
  prediction is at most one page off.
- `index` (`LeaGroup`): the leveled segments of a group of 5 addresses, 4 batches,
  with predictions off by one where the line allows it.
- `ftl` (`LeaFTL`): group cache, write buffer, read buffer and joined reads,
  predictions that name a neighbouring page first, an update that waits for its map
  reads, collection of data pages. 3 addresses in 2 groups, room for one group, 2
  interchangeable reads (symmetry), 6 writes, pages of one sector in 3 segments of 2 pages, so that the third
  flush collects. The write that fills the buffer starts only when no read is in
  flight: the one before it answers `UINT32_MAX` (`leaFTL.cc:810`) and
  `vectored_main` holds the next write until the reads have ended
  (`vectored_interface.c:250`), which `FlushGuarded` of `VectoredInterface` states.
  `ReadsNotOlder` is about the reads that the read buffer does not answer; those it
  does may be stale (section 9). The two locked sections of a read's
  completion, which fill the read buffer and end the joined reads, are one step.
- `pages` (`LeaPages`): data and map pages from one pool of 6 segments, collected
  by different rules while a flush is half applied.
- `heap` (`MaxHeap`): 4 segments, weights to 3: although appends and weight
  changes leave the array unordered, the victim is a heaviest one.

`CachesExact` and `CachedMapLatest` state for the two DFTL caches that what they
hold, promised and queued adds up, and that the mapping found first is the last
one applied; `GroupCacheExact`, `ReadsNotOlder` and `PagesFound` state the same
concerns for leaFTL. `dftl`, `mappings` and `appl` do not check for deadlock: the
bounds end the behaviours.

## 8. Above and below the FTLs

Run `front`, seven parts:

- `pools` (`ThreadPool`): a pool of two threads that is used and destroyed, then
  one of a single thread that is reused, as `design_knob` and the flush thread do.
- `front` (`BlockFrontEnd`): 2 slots, 2 blocks, 3 sends of the kernel, with and
  without the write buffer.
- `bench` (`Benchmark`): ten plans of two benchmarks that between them use every
  generator, an odd number of requests, which `bench_add` makes even, and an odd
  number of commands. A completion first counts its request (`Reap`,
  `bench_reap_data`) and later, with the last of its command, the command (`EndReq`,
  `bench_transaction_end_req`). An odd number of commands leaves the last `buf` of
  the command array as `malloc` gave it (`bench_transaction.c:48`); of the outcomes
  the model has the one in which it is NULL, where the loop ends and the rest of the
  plan is not run (`RunDry`). Plans the driver cannot run are excluded (`Runnable`):
  `fillrand` of a range that does not begin at 0 reads past its array
  (`bench.c:1125`), and a benchmark of another kind behind one made on demand is made
  on demand too, which aborts (`bench_demand.c:82`) or divides by zero
  (`bench.c:276`). One is `vectored_main`'s sequential pair with two rounds: its number of
  requests is twice its range, and as these generators take no modulus it leaves the
  range. What is checked is that the ones that fit (`Fits`) stay in it.
- `pu` (`PuManager`): 2 pages, 2 wrappers, 3 requests, over a device with a thread
  of its own.
- `aio` (`AioDevice`): 3 tags, 5 calls, a kernel that completes in any order.
- `amf` (`AmfDevice`): both ways of issuing, 2 units, 2 device pages per page, 2
  wrappers, 1 return parameter, 3 requests.
- `slab` (`PartitionedSlab`): 4 pages, 3 slabs, 2 pieces per page, 5 inserts.

In each the scarce resource is smaller than the number of its users, so that
every wait happens. `DoneExactlyOnce` (pool), `DeviceEndsOnce` (back ends),
`AnsweredReadsFresh` (slots, write buffer, page cache and slabs: what is answered
is at least as new as what had been acknowledged), `BenchmarkSound`;
`RequestsAnswered` and `DriversEnd` are the liveness of all of them. Fairness is
weak, per thread: client and each worker of the pool, scanner, main thread, flush
thread, benchmark loop, sender, poller, issuer, and the devices, which complete
what they were given.

## 9. Findings

Three runs show a disagreement between the code and what its comments or its data
checker say:

1. *Stale read buffer* (`page_stale_buffer`, `Page_ftl/page.c:70`): nothing
   invalidates the one-page read buffer when its page is erased and rewritten.
2. *Older copy in the page buffer* (`appl_buffer_stale`, `page_aligner.cpp:34`):
   a block written twice within one page buffer is answered with the first copy.
3. *An index that is not there* (`appl_rewrite`, `run_query.cpp:138`): a read that
   waits for its shortcut page asks the shortcut table again when it comes back
   (`lsmtree.cpp:260`). If its block was written meanwhile, the table names the
   memtable (`run_insert.cpp:117`), and the result of the search for an STE, which
   may be `UINT32_MAX`, is used as an index.

The other disagreements met while modelling are kept out of the passing runs by
a constant, and appear when it is changed. In `LayeredLSM` (`TotalLevel` 2,
`SizeFactor` 2, `Spare` 1, `Pool` 7, STEs of 2, a load with a memtable of 2):

- A load with `force` 1, three blocks: the low-space rewrite (`compaction.cpp:134`) labels
  a run of the last level as one level newer than `compaction.cpp:62` does; stale
  copies in it then beat current ones and `ReadsLatest` fails.
- Two blocks: two fully overwritten runs merge into a run without entries, which
  stays in the level (`level.cpp:149`); the next merge that takes it follows a
  null pointer (`summary_page_set.cpp:158`). `MergedRunsHavePages` fails.
- A load with `repeats`, three blocks: an STE of the memtable in which a block follows
  itself counts as sorted (`summary_page.cpp:39`), is moved by reference and
  answers reads with the older copy. `ReadsLatest` fails.

Elsewhere:

- `IndexCache`, `DataOverlap = TRUE`: a retried read uses the run it missed in
  (`run_query.cpp:19`, `lsmtree.cpp:397`) after a merge freed it; the guard at
  `lsmtree.cpp:192` is commented out. `NoUseAfterFree` fails. With `ScPages = 5`,
  `MaxMerge = 6`, `MaxRead = 1` and three shortcut pages `ShortcutsKept` fails:
  when `cache_get_ppa` (`cache_layer.cpp:38`) compacts its segment, dirty pages
  are marked clean without being written.
- `MemTable`: fewer distinct blocks than STEs divide by zero in the flush
  (`WalkDefined`, near `summary_page_set.cpp:176`).
- `FineCache`, `SpecReload`, one request: after a restart the first eviction into
  a page starts from an empty one (`fine_cache.c:340`), and `LookupLatest` fails.
  `NoAbort` fails when every cached entry is being evicted
  (`demand_mapping.c:1115`), and when an entry being evicted is dirtied and chosen
  again, which frees it twice.
- `SftlCache`: `SizeExact` fails: rewriting a run of one entry and removing one
  leave the recorded size too large, and the check for it returns at once.
- `DemandFTL`: with `MaxAssign = 2`, three addresses and two cached pages an
  update can overtake an earlier one of the same address (`MappingLatest`); a read
  of a flushed address whose update is pending gets the old location
  (`ReadsNewest`; `check_flying_req` returns at once, `demand_mapping.c:1247`);
  with `MaxRemoves = 2` the map collector can take the active data segment
  (`gc_map.c:91`). `page_remove` of a buffered address removes the entry behind it
  (`page.c:163`).
- `LeaFTL`: the read buffer of the learned FTL has the defect of finding 1
  (`leaFTL/issue_io.cc:51`): the place of a block in the page comes from the spare
  area of now, the contents from before the page was collected and rewritten, and
  only the next device read replaces them (`leaFTL.cc:296`). With two addresses in
  one group, `Gap` 2, three segments of one page, `WbMax` 2, `MaxUnits` 2, one read
  and 8 writes, `EveryReadFresh` fails in 2 seconds.
- `LeaFTL`: `NoBreakpoint` fails when a read whose first page was the wrong one is
  retried after its group was evicted (`lea_cache_promote`, `leaFTL.cc:373`).
- `Benchmark`: `bench_is_finish_n` lets main pass with up to two commands not yet
  counted (`bench.c:303`), which `FreedWhenReaped` states as the bound it is.
  `inf_free` then frees the structures (`interface.c:738`) before the device is
  stopped, so a late `bench_transaction_end_req` uses freed memory. `vectored_main`
  reports a benchmark finished while its commands still run: it asks about the next
  one.
- `BlockFrontEnd`: `BufferedReadsFresh` fails: `global_write_buffer.c:128` looks at
  the buffer being flushed before the one being filled (the write buffer is off by
  default).
- `PuManager`, `TrimsBusy = TRUE`: a late completion refills the page cache after
  `pu_trim_block` emptied it, so `PagesFresh` fails. The default device completes
  inside the call.
- `PageFTL`, `CopyMetaOnly = TRUE` (the build switch `COPYMETA_ONLY`): the device
  records only `populate` while `posix_dump` saves only `storage`, so the first
  read after a load aborts.
- Observed and not expressed by a constant: the scheduling thread of the AMF
  back end leaves with a non-empty queue, since its `out_flag` is always true, and
  drops erases queued at exit; `cache_get_ppa` reports a dead shortcut page once
  and not once per piece, so its slab stays held until the segment is erased;
  `linux_aio` does not look at the result of `io_submit`; two pools at a time share
  `threads_keepalive`; in the build with block buffers a read is issued to the AMF
  library as a write (`block_buffer_write.c:220`).

## 10. Proofs

`PageFTLProofs` proves, for every number of segments, blocks, pages and pieces,
every key set, every queue capacity and every number of loads:

- `TypeCorrect`: `Spec => []TypeOK`;
- `MappingAlwaysSound`: a mapped key names a valid piece whose spare area names
  that key;
- `SegmentsAlwaysPartitioned`: active, reserve, queued and candidate segments
  are disjoint and exhaust the device.

They follow from one inductive invariant, `IInv` (`InductiveInvariant`).
`MappingSound` alone is not inductive: an allocation preserves it only if the
page handed out holds no valid piece (`CursorInv`: above the cursor nothing is
written), if no segment has two owners (`SegmentsPartition`), and if what waits in
the write buffer has the keys the mapping will be told (`BufferInv`,
`AssignInv`). An erase preserves it only if everything valid in the victim has
been copied first (`GcCover`, with `GcIdle` saying that outside a collection
there is no victim). Each action has a lemma; operations of the block manager
have theirs, cited by the actions that call them.

`PageFTLStoreProofs` first proves `BooksAlwaysExact`: counters, cursor, bitmap and
mapping agree. On top of `IInv` it needs `BooksInv`: where the page cursor stands
(`UsedExact`); which valid pieces no key maps to, the ones of the page being
assigned and the ones a collection has already moved (`BitsMapped`); and that a
collection reads each page once and gathers each key once (`GcOnce`), without
which a piece could be invalidated twice and the counter of its segment go off
by one.

It then proves what the flash holds:

- `NothingEverLost`: the buffer, or the page the mapping names once the queue is
  executed, holds the latest value of every key;
- `DeviceOrderAlwaysKept`: the device never writes a page that is not erased nor
  reads one that holds nothing;
- `OwnReadsAlwaysFresh`: a read answered from the buffer, by the mapping alone or
  by its own flash read returns the value written last before it was issued,
  although its page may be collected and erased while it is queued.

The invariant is `StoreInv`. It speaks of the queue as the device will execute
it: `Holds(p, n, d)` says that page `p` holds `d` after the first `n` requests,
`Ends` after all of them. Every queued write finds its page erased, every read
the value its request asked for (`QueueSound`); the pages handed out are the ones
that end up written (`PagesSound`); a collection's copies are still what the pages
hold (`GcPagesSound`); the buffers and the mapping lead to the latest values
(`BuffersLatest`, `AssignSound`, `MappingLatest`). A step of the device shifts the
queue by one and changes one page, a step of the main thread appends at most one
request: the lemmas are about these two.
These three theorems have the hypothesis `ContentsKept`: the build without
`COPYMETA_ONLY`, or no load. With the switch a load gives the flash back empty, and
they are false (section 9).

Assumptions: a positive geometry (`GeometryAssumption`), more than one segment
(`RoomAssumption`, the two that `page_map_create` takes), `ZeroKey` is a key,
`None` and `Junk` are none of the values they are told from, a positive queue
capacity.

`VectoredInterfaceProofs` proves, for every budget, set of tags, shape of
transactions and bound on retries:

- `TypeCorrect`;
- `ResourcesAlwaysExact`: the budget plus the requests admitted is `QDEPTH`, the
  free tags and the tags in use are all tags, neither queue is ever full when a
  request is put into it, and the main thread waits for a tag only while a
  completion is about to free one;
- `NeverUsedAfterFree`: no queue, local variable or FTL holds a request of a freed
  transaction;
- `FlushAlwaysGuarded`: the count of reads in flight is exact, and the write that
  follows a `UINT32_MAX` meets no read.

Their invariant (`IInv` of `VectoredInterface`) says for each status of a request
who holds it: the host (`HostOwns`), one of the queues, in one place
(`QueuesOwn`), the transaction's slot (`SlotsOwn`), a tag (`TagsOwn`), the local
variables of the main thread at each of its control points (`TaskOwns`), and what
is known of reads while it waits for a flush (`FlushOwns`). The counters follow
by counting these sets; a freed transaction has no request with a holder.
Assumptions: `QSIZE >= QDEPTH`, as many tags as the
budget, and no more requests in a transaction than it, as the code's constants
have them; an FTL that asks for flushes retries no write (`FtlAssumption`), as
leaFTL, the only one that asks, does.

`DriverProofs` proves two theorems. `JobsRunExactlyOnce`, for pools of any number of threads
and any script of calls: when `thpool_wait` has returned, every job added to the
pool before has been run, exactly once. Its invariant (`PoolInv`) says that a job
is in one place, the queue, one worker's hands or the list of jobs run
(`JobsOnce`), and that none disappears (`JobsKept`); that the counters of working
and living threads are the numbers of workers at certain lines (`CountsExact`),
without which `thpool_wait` could see zero while a job is in a worker's hands;
that workers exist only in a pool that is up (`WorkersOwned`); and what each wait
passed has seen (`WaitsDone`). Assumptions: a script makes a pool before it uses
it and waits before it destroys it (`ScriptAssumption`), as both callers do
(`design_knob.c:80-89`, `global_write_buffer.c:62-70`); a natural number of threads
per pool (`PoolAssumption`).

`BenchmarksAlwaysSound`, for every plan the driver can run, every number of requests
per command and every number in flight: a benchmark that writes and reads asks only
for blocks it has written, one that fits its range stays in it, and when main frees
its structures every request issued has been reaped, at most two commands of a
benchmark are not yet counted, and only a benchmark behind one with an odd number of
commands has not run. The first two are a lemma per generator (`BodySound`). For the
last, the end of the loop compares only counts, so the invariant (`BenchInv`) keeps
two accounts per benchmark: the requests reaped and those in flight, as a set of pairs
of a command and one of its requests, are the requests of the commands issued
(`RequestsAdd`), and the commands returned and those in flight are the commands issued
(`CommandsAdd`). It needs that no command is in flight twice (`FlyingOnce`), that the
count made is that of the generator's sequence (`BodiesMade`), and that the loop has
issued every benchmark it has passed (`LoopInOrder`). Assumption (`PlanAssumption`):
the plans are `Runnable`, that is, ranges and numbers are not empty, a plan is plain or
vectored, `fillrand` begins at block 0, and only benchmarks made on demand follow one
made on demand (section 8).

`BlockFrontEndProofs` proves `ReadsAlwaysFresh`, for any slots, blocks, requests,
pages and slabs: it is `AnsweredReadsFresh` with three invariants, one per part. For `BlockFrontEnd`
(`FrontInv`) the requests scanned and not finished form one line, from the queue into
the array of the scanner (`InLine`). The writes of a block still to be done number
without gaps from the version written last, wherever that is, to the version scanned
last, in the order of the line (`FrontVersions`): so a read that comes first in the
line finds everything scanned before it, and a flush changes nothing. A read has its
slot to itself, because a slot is only used again once it is answered (`FrontReads`),
and each of its blocks is still to be asked for, on its way, or in the slot and new
enough (`FrontBlocks`); the last block to end leaves only the third case
(`LastBlock`). Writes, whose slots are used again at once, need none of this: they
have taken their data along. For `PuManager` (`PuInv`), a request is in one place and
a wrapper taken for each (`PuPlaces`), no erase or write of a page is queued behind a
request for it (`PuOrder`), and medium and cache hold what was issued last
(`PuMedium`, `PuCache`). For `PartitionedSlab` (`SlabInv`), a slab is free once or
has one page. Assumptions: requests lie within the device and are not empty
(`FrontAssumption`); the FTL erases no block with requests in progress
(`TrimsBusy = FALSE`, section 9 has the counterexample); a positive queue depth and
pieces per page (`PuAssumption`, `SlabAssumption`).

`DeviceProofs` proves `DevicesEndOnce`: each request given to a back end is ended
once and never touched after. For `AioDevice`, a tag is in one place (free, at the
sender, in the kernel, at the poller) and so is a request (`AioInv`). For
`AmfDevice` (`AmfInv`), a wrapper has one owner (`UnitsOwned`); a page not done
belongs to a request that is not ended and owns its return parameter; the count of
that parameter, the pages not done and the pages still to be issued make up the
request (`CountsAdd`), and all pages of a request share the parameter (`OneParam`).
The page that fills the count is therefore the last one. Issuing happens under
`schedule_lock`, so a wrapper the callback frees is not in the issuer's hands;
`DirectOwned` says the same for the build without block buffers. Assumptions:
`AMF_PUNIT` and `R2PGAP` are positive, the other constants natural numbers.

`DemandFTLProofs` proves `SlotsAlwaysExact` and `NobodyEverStranded` for any number
of requests, translation pages and cache slots, with nothing assumed of the flash
side: the collectors may move what they like. The invariant (`ControlInv`) says
where a request is (`Placed`): run by the main thread, with the device or on the
retry queue, in one of them and once, or, having missed, on the waiting list of the
page of its current address and nowhere else, unless it is the one that reads the
page. And it says who reads a page (`Owned`): one request, in somebody's hands, on
the list of those who wait and holding the slot the page will take, until the page
is in the cache; from then on, while the waiters are served, the page has no slot of
its reader and is not `FLYING`. `SlotsExact` needs this because a waiter that is
served gives no slot back: it must hold none, which follows from its not being a
reader. A request that ends may leave nothing behind, since its place is reused
(`StartKeeps`). Each way of `cache_traverse_state` has a lemma; those that read no
page share one (`StepOfRun`). Assumptions: the cache has a slot, there are finitely
many requests, and `UINT32_MAX` is none of them (`DemandAssumption`).

`LayeredLSMProofs` proves two theorems, for any number of blocks, levels, runs per
level, indices, entries of the memtable and entries of an STE.

`RunsAlwaysInPlace`: every live run is the memtable or sits in one slot of one
level, the other indices are in the pool once each, the pool is never empty, no
level overflows, and `unlinked_lba_num` is the number of entries no read can reach.
Its invariant (`BooksInv`) has the levels, disjoint and with slots and recency list
in step (`PlacesInv`, `LevelOK`), and what the table names (`NamesInv`): live runs
that hold the block (`NamesLive`), not the memtable once that is flushed
(`NoFlushedMem`); the blocks of a sorted run are disjoint (`BlocksApart`), without
which an entry could be counted twice. All four kinds of merge are one step with
different sources, level and runs to free (`MergeStep`, `MergeBooks`); the lemmas
below it say what a merge makes of its sources: that moved and copied blocks are
disjoint (`MergedApart`), that they can be put in order (`OrderExists`), that every
entry the table names in a source is linked again (`NamedLinked`), and that what is
left is what `trivial_move` counts (`StaleCount`).

`LatestAlwaysRead`: reads find the last copy and every other copy is refused. It
needs `LevelsInv`, that levels and the runs in them have the same number, that a
later run has a later recency and that a moved block comes from no deeper level than
its run; and `CopiesInv`, that a copy the table does not name is in a run older than
the one it names, or in a moved block whose record is. A merge keeps this because no
run outside it lies, in level, between its sources and its result (`MergeFits`); a
forced rewrite breaks exactly that. It is about the `Plain` loads, without a
forced rewrite and without a block written twice in one STE of the memtable; section 9
has the counterexamples for the others. Assumptions: finitely many blocks, two levels
or more of two runs or more, a pool larger than the levels, a last level that does
not have exactly four runs.

TLC evaluates all assumptions in the runs and has checked each invariant on the
instance of a run.

Only model-checked:

- liveness under fairness, which is out of the prover's reach;
- `GcMakesRoom` of `PageFTL`, a sum over the segments against the number of keys, and
  the part of `FlashReadsFresh` about reads that join the page of another: it
  depends on the length of the queue against the size of a segment (section 3) and
  has no invariant simpler than counting the requests in between;
- the mapping itself in `DemandFTL` (`MappingLatest`, `MapRefined`), and the storage,
  index cache, indexes and log run of AppL, the other caches of DFTL and leaFTL.
  Several of these sort and filter with `SelectSeq`, `SetToSortSeq` and folds, whose
  defining recursion the prover cannot unfold. `LayeredLSM` is written without them:
  what its merges sort and count is stated by cardinalities and a choice, and the
  inductions its lemmas need are over sets of numbers (`SetInduction`).

## 11. Not modelled

Steps the models take together or leave out, where no property tells the difference:

- `PageFTL`: the two locked sections in which a read looks at the read buffer and then
  at the read in flight (`page.c:69`, `95`) are one step (`PageRead`).
- `SeqBlockManager`: `GetGcTarget` has no abort on a victim that was never written
  (`seq_block_manager.c:199`) and no NULL victim; when a collection starts every
  candidate is full, and `GcMakesRoom` says that there is one. `RunStorage`, whose
  candidates may be empty, has the abort (`TakeTarget`).
- `DemandFTL`: the limit on map segments (`gc.c:334`, `gc_map.c:44`) is off by default.
- `SftlCache`: the room left is compared as a signed number, `demand_mapping.c:984`
  compares unsigned ones; the sizes that would tell them apart are not reached.
- `BlockFrontEnd`: one scan of the slots is a snapshot, the code looks at them one by
  one; a request that arrives behind the scan is one that comes with the next.
- `AmfDevice`: pages read and pages written take the same way, and a wrapper is filled
  in the step that queues it, under the lock, not just before it
  (`block_buffer_write.c:117`); it is not shared until then.

The builds with `SC_MEM_OPT`, `THREAD_COMPACTION`, `TRACE_REPLAY` or `SYNC_WRITE`,
which this tree switches off, and with them the shortcut directory, pinned runs
and the copy paths of `gc.cpp` for fragmented blocks. Files that are not built:
`demand_mapping2.c`, `deprecated_code.c`, `sftl_temp`, `interface_org.c`,
`vectored_interface_update.c`. Functions nothing calls: bad-block tables,
synchronous calls of the parallel unit manager, `new_do_gc`, `page_map_trim`,
`lea_compaction` past its first line. The floating-point sizing of the levels
(`lsmtree_parameter.cpp`), statistics, timing and text output. AppL has no
restart: its dump writes parameters only. General-purpose containers are
modelled by what their users do with them. Undefined behaviour that no caller
reaches is not modelled: `get_seg` of the block manager on an empty queue, the
uninitialised pointer in its `pick_seg`, the dereference of the end iterator
before the test at `Page_ftl/page.c:286`. The models take the build without
`NO_MEMCPY_DATA`, in which pages have contents.
