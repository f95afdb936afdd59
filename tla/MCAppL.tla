------------------------------- MODULE MCAppL --------------------------------
(***************************************************************************)
(* What AppL's LSM-tree rests on, each part on an instance of its own      *)
(* within one run: the flash storage of the runs with its collector, the   *)
(* cache of shortcut pages and indexes with the read path, the index of a  *)
(* run, and the memtable.  Which one a behaviour is about is chosen at the *)
(* start; the variables of the others stay at Off.                         *)
(***************************************************************************)
EXTENDS Integers, Sequences, FiniteSets, FiniteSetsExt, SequencesExt

CONSTANTS None, Off,
    Lba, NOS, BPS, PPB, L2PGAP, MemEntries, MaxRuns, Sids, MaxForce, MaxFlush,
    Sc, Run, Req, MaxCache, ScSize, IdxSize, ScPages, MaxMerge, MaxRead, MaxInsert,
    DataOverlap, RewriteOverlap, Buf, Log,
    IdxLba, IdxGap, IdxPPB, Kinds, Hashes, Member, TICK, CORRECTION, SlopeBit, Range_,
    XFull, YFull, DeltaSize, PerChunk, CompMax, Prefetch, IdxReq,
    MemLba, MemGap, SteEntries, MaxWrites

VARIABLES
    part,
    s, pc, flushes, forced,
    c, where, live, req, flying, retryq, merges, reads, inserts,
    kind, hash, pp, open, blk, phase, comp, rd, it, ok,
    mpp, log, tree, valid, newest, iter, state

Store == INSTANCE RunStorage
Cache == INSTANCE IndexCache
Index == INSTANCE RunIndex WITH Lba <- IdxLba, L2PGAP <- IdxGap, PPB <- IdxPPB, Req <- IdxReq
Mem == INSTANCE MemTable WITH Lba <- MemLba, L2PGAP <- MemGap, pp <- mpp

storeVars == <<s, pc, flushes, forced>>
cacheVars == <<c, where, live, req, flying, retryq, merges, reads, inserts>>
indexVars == <<kind, hash, pp, open, blk, phase, comp, rd, it, ok>>
memVars == <<mpp, log, tree, valid, newest, iter, state>>
vars == <<part, storeVars, cacheVars, indexVars, memVars>>

NoStore == s = Off /\ pc = Off /\ flushes = Off /\ forced = Off
NoCache == /\ c = Off /\ where = Off /\ live = Off /\ req = Off /\ flying = Off /\ retryq = Off
           /\ merges = Off /\ reads = Off /\ inserts = Off
NoIndex == /\ kind = Off /\ hash = Off /\ pp = Off /\ open = Off /\ blk = Off /\ phase = Off
           /\ comp = Off /\ rd = Off /\ it = Off /\ ok = Off
NoMem == /\ mpp = Off /\ log = Off /\ tree = Off /\ valid = Off /\ newest = Off /\ iter = Off
         /\ state = Off

Init ==
    \/ part = "store" /\ Store!Init /\ NoCache /\ NoIndex /\ NoMem
    \/ part = "cache" /\ Cache!Init /\ NoStore /\ NoIndex /\ NoMem
    \/ part = "index" /\ Index!Init /\ NoStore /\ NoCache /\ NoMem
    \/ part = "mem" /\ Mem!Init /\ NoStore /\ NoCache /\ NoIndex
Next ==
    /\ UNCHANGED part
    /\ \/ part = "store" /\ Store!Next /\ UNCHANGED <<cacheVars, indexVars, memVars>>
       \/ part = "cache" /\ Cache!Next /\ UNCHANGED <<storeVars, indexVars, memVars>>
       \/ part = "index" /\ Index!Next /\ UNCHANGED <<storeVars, cacheVars, memVars>>
       \/ part = "mem" /\ Mem!Next /\ UNCHANGED <<storeVars, cacheVars, indexVars>>

\* The device answers every read and the main thread takes what came back.
Fair ==
    /\ WF_retryq(part = "cache" /\ Cache!TakesHead)
    /\ \A r \in Req : /\ WF_cacheVars(part = "cache" /\ Cache!MapArrives(r))
                      /\ WF_cacheVars(part = "cache" /\ Cache!DataArrives(r))
Spec == Init /\ [][Next]_vars /\ Fair

\* Every filter lies, some do, none of a neighbour does.
MCHashes == {[l \in IdxLba |-> 0], [l \in IdxLba |-> l % 2], [l \in IdxLba |-> l \div 3]}
-----------------------------------------------------------------------------
(* The storage keeps its books through flushes, merges and collections that *)
(* interrupt both: none of its checks fails, every valid piece and summary  *)
(* has one owner, every segment one place, and the counters agree with the  *)
(* bitmap.                                                                 *)
StoreSound ==
    part = "store" => /\ Store!NoCheckFails /\ Store!EverythingOwned
                      /\ Store!SegmentsPlaced /\ Store!CountersExact

(* A block is found where the shortcut table, the run and the block table   *)
(* name it, with the data written last, whatever the collector moved.      *)
StoreReadsFresh == part = "store" => Store!ReadsFresh

(* None of the checks of the two caches fails and what they hold is counted *)
(* within the budget; a read that waits has exactly one other to wait for. *)
CacheSound ==
    /\ part = "cache" => Cache!CacheSound /\ Cache!ReadersPaired
    /\ part = "index" => Index!CompWithinBudget

(* The shortcut table survives on flash while its pages are cached, updated *)
(* and evicted.                                                            *)
ShortcutsKept == part = "cache" => Cache!ShortcutsKept

(* A read is answered "not found" only if its block was never written.      *)
NotFoundIsTrue ==
    [][part = "cache" => \A r \in Req :
          req'[r].at.st = "notfound" /\ req[r].at.st # "notfound" => where[req'[r].lba] = None]_cacheVars

(* Every read is answered, also one that waits for a page another read      *)
(* asked for, and one whose index named a wrong page first.                *)
ReadsEnd ==
    \A r \in Req : (part = "cache" /\ req[r].at.st \in {"sc", "map", "data", "again"})
                     ~> (part = "cache" /\ req[r].at.st \in {"done", "notfound"})

(* Whatever kind of index a run has, false positives and wrong predictions  *)
(* cost reads and never the block, and packing a line in bits keeps it.    *)
IndexFinds == part = "index" => Index!EntriesFound /\ Index!LinesKept

(* A merge sees exactly the entries it must: of a sorted run every one once *)
(* and in order, of the memtable the newest copy of each block.            *)
MergeInputExact ==
    /\ part = "index" => Index!MergeSeesAll
    /\ part = "mem" => Mem!NewestValid
=============================================================================
