----------------------------- MODULE LayeredLSM ------------------------------
(***************************************************************************)
(* The LSM-tree of AppL: a log run (the memtable), levels of sorted runs,  *)
(* and the shortcut table, which names for every logical block the one run *)
(* a read goes to.  A full memtable is rewritten as a run of level 1; a    *)
(* full level is merged into one run of the next; in the last level the    *)
(* two runs with the largest share of unlinked entries are merged.  A      *)
(* merge drops the entries the shortcut table no longer names, and moves   *)
(* whole blocks (STEs) of a run by reference when no other source overlaps *)
(* them, stale entries included (trivial_move).                            *)
(*                                                                         *)
(* Data is abstracted to freshness: a run knows which of its entries are   *)
(* the last ones written.  Runs and their sc_info come from two pools that *)
(* are taken from and returned to together, so one index names both.  All  *)
(* steps are taken by the main thread.                                     *)
(***************************************************************************)
EXTENDS Integers, Sequences, FiniteSets, FiniteSetsExt, SequencesExt

CONSTANTS
    Lba,           \* logical blocks
    TotalLevel,    \* total_level_num
    SizeFactor,    \* runs of a level above the last
    Spare,         \* further runs of the last level
    Pool,          \* number of run indices
    BlockSectors,  \* MAX_SECTOR_IN_BLOCK, entries of an STE
    Loads,         \* the builds and workloads looked at
    None

ASSUME LbaAssumption == Lba \subseteq Nat /\ IsFiniteSet(Lba)
ASSUME ShapeAssumption ==
    /\ TotalLevel \in Nat \ {0, 1} /\ SizeFactor \in Nat \ {0, 1} /\ Spare \in Nat
    /\ BlockSectors \in Nat \ {0}
ASSUME PoolAssumption == Pool \in Nat /\ Pool > TotalLevel * SizeFactor + Spare
\* A load: the blocks the host writes, max_entry_num of the memtable, a bound on
\* forced reconstructions per flush, and whether the host may write a block again
\* within an STE of the memtable.
ASSUME LoadsAssumption ==
    Loads \subseteq [lbas : SUBSET Lba, entries : Nat \ {0}, force : Nat, repeats : BOOLEAN]
ASSUME LastLevelAssumption == SizeFactor + Spare # 4

Idx == 0 .. Pool - 1
Lev == 1 .. TotalLevel
LevelMax(i) == IF i = TotalLevel THEN SizeFactor + Spare ELSE SizeFactor

VARIABLES
    sc,           \* sc[k]: index of the run the shortcut table names for k
    info,         \* info[x]: the run with index x, None if x is free
    free_q,       \* free indices, in order of reuse
    now_recency,
    mem,          \* index of the memtable
    disk,         \* disk[i]: slots of level i, and its slots by recency
    pc, at,       \* control point of the main thread, level it looks at
    forced,       \* forced reconstructions of this flush
    written,      \* the blocks the host has written
    load          \* the build and workload of this behaviour

vars == <<sc, info, free_q, now_recency, mem, disk, pc, at, forced, written, load>>

\* A block of a run and a run.
SteSet == [lbas : (SUBSET Lba) \ {{}}, twice : SUBSET Lba, copied : BOOLEAN, level : 0..TotalLevel,
           recency : Nat, sorted : BOOLEAN]
RunSet == [level : 0..TotalLevel, recency : Nat, entries : Nat, unlinked : Nat,
           stes : Seq(SteSet), fresh : SUBSET Lba]

ASSUME NoneAssumption == None \notin Nat /\ None \notin RunSet

-----------------------------------------------------------------------------
(* Levels: slots and a recency list, newest first.                         *)

LevelInit(i) == [slot |-> [s \in 1..LevelMax(i) |-> None], order |-> <<>>]

LevelIsFull(lev) == Len(lev.order) >= Cardinality(DOMAIN lev.slot)

\* The first empty slot from now_run_num on, and then from the first slot on.
FreeSlot(lev) ==
    LET empty == {s \in DOMAIN lev.slot : lev.slot[s] = None}
        later == {s \in empty : s > Len(lev.order)}
    IN IF later # {} THEN Min(later) ELSE Min(empty)

LevelInsertRun(lev, x) ==
    [slot |-> [lev.slot EXCEPT ![FreeSlot(lev)] = x], order |-> <<FreeSlot(lev)>> \o lev.order]

\* The place of slot s in the recency list.
PlaceOf(lev, s) == CHOOSE i \in DOMAIN lev.order : lev.order[i] = s

LevelRemoveKeepsOrder(lev, s) == [lev EXCEPT !.slot[s] = None]

LevelRemove(lev, s) ==
    [slot |-> [lev.slot EXCEPT ![s] = None], order |-> RemoveAt(lev.order, PlaceOf(lev, s))]

RunsOf(lev) == [i \in DOMAIN lev.order |-> lev.slot[lev.order[i]]]

\* Is the unlinked share of run x larger than that of run y?
MoreUnlinked(x, y) == info[x].unlinked * info[y].entries > info[y].unlinked * info[x].entries

\* The slots a scan for the largest share can choose: it looks at the first
\* now_run_num slots, and the share of a run without entries, 0/0, compares with
\* nothing.
ScannedSlots(lev) ==
    {s \in 1..Len(lev.order) : lev.slot[s] # None /\ info[lev.slot[s]].entries > 0}

\* The first of the largest shares among the slots S.
MostUnlinkedSlot(lev, S) ==
    CHOOSE s \in S : \A t \in S \ {s} :
        IF t < s THEN MoreUnlinked(lev.slot[s], lev.slot[t])
                 ELSE ~MoreUnlinked(lev.slot[t], lev.slot[s])

\* level_get_compaction_target for two runs, the newer one first: the two largest
\* unlinked shares, or the two newest runs when the second share is zero.
TwoTargets(lev) ==
    LET first  == MostUnlinkedSlot(lev, ScannedSlots(lev))
        second == MostUnlinkedSlot(lev, ScannedSlots(lev) \ {first})
    IN IF Len(lev.order) = 2 \/ info[lev.slot[second]].unlinked = 0
       THEN <<lev.order[1], lev.order[2]>>
       ELSE IF PlaceOf(lev, first) < PlaceOf(lev, second) THEN <<first, second>> ELSE <<second, first>>

\* Are there two runs to merge?  If not, res[1] stays uninitialised.
TargetsExist(lev) == Len(lev.order) = 2 \/ Cardinality(ScannedSlots(lev)) >= 2

\* level_get_max_unlinked_run falls back to the first slot.
ForceTarget(lev) ==
    IF ScannedSlots(lev) = {} THEN 1 ELSE MostUnlinkedSlot(lev, ScannedSlots(lev))

\* The level without the merged runs: level_insert_run puts the others into a new
\* one, oldest first.
Rebuild(lev, i) ==
    LET n == Len(lev.order)
    IN IF n = 2 THEN LevelInit(i)
       ELSE [slot  |-> [s \in 1..LevelMax(i) |-> IF s <= n THEN lev.slot[lev.order[n + 1 - s]] ELSE None],
             order |-> [j \in 1..n |-> n + 1 - j]]

-----------------------------------------------------------------------------
(* Shortcut table.                                                         *)

\* __get_recency_cmp(a, b) > 0: a lower level is newer, then a later creation.
Newer(a, b) == a.level < b.level \/ (a.level = b.level /\ a.recency > b.recency)

\* shortcut_validity_check_lba: is the entry of k in run x not older than what
\* the table names?
ValidLba(x, k) == sc[k] = None \/ ~Newer(info[sc[k]], info[x])

\* shortcut_validity_check_by_value, for an entry that was moved with its block.
ValidByValue(x, ste, k) == sc[k] = None \/ sc[k] = x \/ ~Newer(info[sc[k]], ste)

EntryValid(x, ste, k) == ValidLba(x, k) /\ (ste.copied => ValidByValue(x, ste, k))

-----------------------------------------------------------------------------
(* Merging runs.                                                           *)

Start(ste) == Min(ste.lbas)
End(ste) == Max(ste.lbas)
Overlap(a, b) == Start(a) <= End(b) /\ Start(b) <= End(a)

Ste(K) == [lbas |-> K, twice |-> {}, copied |-> FALSE, level |-> 0, recency |-> 0, sorted |-> TRUE]

OpenSte(stes, n) == IF n % BlockSectors = 0 THEN {} ELSE stes[Len(stes)].lbas

\* The memtable's STEs with one more entry, in the order of arrival.  A block
\* written again right after itself leaves its STE sorted (sp_insert).
Arrive(stes, n, k) ==
    IF n % BlockSectors = 0 THEN Append(stes, Ste({k})) ELSE
    LET open == stes[Len(stes)]
    IN [stes EXCEPT ![Len(stes)] =
          [open EXCEPT !.lbas = @ \cup {k}, !.twice = @ \cup (open.lbas \cap {k}),
                       !.sorted = @ /\ k >= End(open)]]

\* __check_disjoint_spm: may block j of source i go by reference?
NonCopy(srcs, i, j) ==
    LET ste == info[srcs[i]].stes[j]
    IN /\ ste.sorted /\ ~ste.copied
       /\ \A h \in DOMAIN srcs : \A m \in DOMAIN info[srcs[h]].stes :
            ~Overlap(ste, info[srcs[h]].stes[m]) \/ (h = i /\ (m = j \/ srcs[i] # mem))

\* The blocks of source i that do go by reference: sp_set_noncopy_check looks at
\* the head of the list only, so the first one whose first entry is dropped, or
\* comes too early, keeps the rest back.
Moved(srcs, i) ==
    LET ste(j) == info[srcs[i]].stes[j]
        list == {j \in DOMAIN info[srcs[i]].stes : NonCopy(srcs, i, j)}
        hit(q) == /\ EntryValid(srcs[i], ste(q), Start(ste(q)))
                  /\ \A p \in list : p < q => Start(ste(p)) < Start(ste(q))
    IN {j \in list : \A q \in list : q <= j => hit(q)}

\* A moved block remembers where it came from when it holds stale entries.
FlagMovedWith(ste, x, from) ==
    [ste EXCEPT !.copied = \E k \in ste.lbas : ~ValidLba(x, k),
                !.level = from.level, !.recency = from.recency]

FlagMovedAsNewest(ste, x) == FlagMovedWith(ste, x, [level |-> info[x].level, recency |-> now_recency])

FlagMoved(ste, x) == FlagMovedWith(ste, x, info[x])

\* The blocks of the sources, and the one that e names.
Blocks(srcs) == UNION {{i} \X DOMAIN info[srcs[i]].stes : i \in DOMAIN srcs}
SteOf(srcs, e) == info[srcs[e[1]]].stes[e[2]]

\* The blocks that go by reference; a forced reconstruction copies everything.
MovedBlocks(srcs, force) == {e \in Blocks(srcs) : ~force /\ e[2] \in Moved(srcs, e[1])}

\* The stale entries that come along with the moved blocks mv.
StaleIn(srcs, mv) ==
    Cardinality({e \in mv \X Lba : /\ e[2] \in SteOf(srcs, e[1]).lbas
                                   /\ ~ValidLba(srcs[e[1][1]], e[2])})

\* Sorted entries fill blocks of BlockSectors; a moved block starts a new one.
Gap(starts, k) == Cardinality({s \in starts : s < k})
Nth(copied, starts, k) ==
    Cardinality({h \in copied : h < k /\ Gap(starts, h) = Gap(starts, k)}) \div BlockSectors
Pack(copied, starts) ==
    {Ste({h \in copied : /\ Gap(starts, h) = Gap(starts, k)
                         /\ Nth(copied, starts, h) = Nth(copied, starts, k)}) : k \in copied}

\* The blocks S in the order of their first entries.
InLbaOrder(S) ==
    CHOOSE s \in [1..Cardinality(S) -> S] :
        \A i, j \in 1..Cardinality(S) : i < j => Start(s[i]) < Start(s[j])

\* The sources from which the entry of k is copied.
Offers(srcs, mv, k) ==
    {i \in DOMAIN srcs : \E j \in DOMAIN info[srcs[i]].stes :
        /\ <<i, j>> \notin mv /\ k \in info[srcs[i]].stes[j].lbas
        /\ EntryValid(srcs[i], info[srcs[i]].stes[j], k)}

Copied(srcs, mv) == {k \in Lba : Offers(srcs, mv, k) # {}}
MovedIn(srcs, mv) == UNION {SteOf(srcs, e).lbas : e \in mv}

\* The entries a merge links to the new run.
LinkedBy(srcs, mv) ==
    Copied(srcs, mv) \cup UNION {{k \in SteOf(srcs, e).lbas : ValidLba(srcs[e[1]], k)} : e \in mv}

\* The blocks of the new run.
MergedBlocks(srcs, mv) ==
    {FlagMoved(SteOf(srcs, e), srcs[e[1]]) : e \in mv}
        \cup Pack(Copied(srcs, mv), {Start(SteOf(srcs, e)) : e \in mv})

\* run_merge of the sources, newest first, into a run of level lv.  Every entry
\* is looked up once, in the table as it was before: an entry is linked only
\* after its lookup, and the blocks moved overlap nothing else.  A lookup in a
\* moved STE that holds a block twice finds the first, older copy.
Merge(srcs, mv, lv) ==
    [level |-> lv, recency |-> now_recency,
     entries |-> Cardinality(Copied(srcs, mv)) + Cardinality(MovedIn(srcs, mv)),
     unlinked |-> StaleIn(srcs, mv),
     stes |-> InLbaOrder(MergedBlocks(srcs, mv)),
     fresh |-> {k \in Copied(srcs, mv) : k \in info[srcs[Min(Offers(srcs, mv, k))]].fresh}
                 \cup UNION {(SteOf(srcs, e).lbas \ SteOf(srcs, e).twice)
                                 \cap info[srcs[e[1]]].fresh : e \in mv}]

\* The memtable is read through its map; a block met twice in a summary page ends
\* the program ("sorting error!", or "BIT ERROR" when it is stale).
ReadInOrder(srcs, mv) ==
    \A e \in Blocks(srcs) \ mv : SteOf(srcs, e).twice # {} => srcs[e[1]] = mem

\* shortcut_link_bulk_lba: the blocks K now belong to run x; the runs named
\* before each lose one entry per block.
Linked(inf, K, x) ==
    [y \in Idx |-> IF inf[y] = None \/ y = x THEN inf[y]
                   ELSE [inf[y] EXCEPT !.unlinked = @ + Cardinality({k \in K : sc[k] = y})]]

\* run_free of the runs xs.
FreeRuns(inf, xs) == [y \in Idx |-> IF y \in ToSet(xs) THEN None ELSE inf[y]]

\* The indices that go back to the pool with the runs xs.
Returned(xs) == xs

\* The iterator of a run without entries has no page to read: sp_set_iter_move
\* follows a null pointer on it, and the program ends.
HasPages(x) == info[x].entries > 0

\* Merge srcs into a new run, relink, free the runs of dead.
MergeInto(srcs, lv, force, dead) ==
    LET mv == MovedBlocks(srcs, force)
        des == Head(free_q)
    IN /\ \A x \in ToSet(srcs) : HasPages(x)
       /\ ReadInOrder(srcs, mv)
       /\ info' = FreeRuns(Linked([info EXCEPT ![des] = Merge(srcs, mv, lv)], LinkedBy(srcs, mv), des), dead)
       /\ sc' = [k \in Lba |-> IF k \in LinkedBy(srcs, mv) THEN des ELSE sc[k]]
       /\ free_q' = Tail(free_q) \o Returned(dead)
       /\ now_recency' = now_recency + 1

-----------------------------------------------------------------------------
NewMem(rec) == [level |-> 0, recency |-> rec, entries |-> 0, unlinked |-> 0,
                stes |-> <<>>, fresh |-> {}]

Init ==
    /\ sc = [k \in Lba |-> None]
    /\ info = [x \in Idx |-> IF x = 0 THEN NewMem(0) ELSE None]
    /\ free_q = [i \in 1 .. Pool - 1 |-> i]
    /\ now_recency = 1
    /\ mem = 0
    /\ disk = [i \in Lev |-> LevelInit(i)]
    /\ pc = "idle" /\ at = 1 /\ forced = 0
    /\ written = {} /\ load \in Loads

RunIsFull == info[mem].entries >= load.entries

\* run_insert of a host write: link the block to the memtable, or drop the write
\* if the table names something newer.
Insert(k) ==
    /\ pc = "idle" /\ ~RunIsFull
    /\ k \in load.lbas
    /\ load.repeats \/ k \notin OpenSte(info[mem].stes, info[mem].entries)
    /\ written' = written \cup {k}
    /\ IF ValidLba(mem, k)
       THEN /\ sc' = [sc EXCEPT ![k] = mem]
            /\ info' = [x \in Idx |->
                 IF info[x] = None THEN None
                 ELSE [info[x] EXCEPT !.unlinked = @ + (IF sc[k] = x THEN 1 ELSE 0),
                                      !.entries = @ + (IF x = mem THEN 1 ELSE 0),
                                      !.stes = IF x = mem THEN Arrive(@, info[x].entries, k) ELSE @,
                                      !.fresh = IF x = mem THEN @ \cup {k} ELSE @ \ {k}]]
       ELSE /\ info' = [x \in Idx |-> IF info[x] = None THEN None
                                      ELSE [info[x] EXCEPT !.fresh = @ \ {k}]]
            /\ UNCHANGED sc
    /\ UNCHANGED <<free_q, now_recency, mem, disk, pc, at, forced>>

\* The first half of compaction_flush: the memtable becomes a run of level 1.
Flush ==
    /\ pc = "idle" /\ RunIsFull
    /\ MergeInto(<<mem>>, 1, FALSE, <<>>)
    /\ disk' = [disk EXCEPT ![1] = LevelInsertRun(@, Head(free_q))]
    /\ pc' = "compact" /\ at' = 1
    /\ UNCHANGED <<mem, forced, written>>

\* __compaction_another_level above the last level: all runs into one of the next.
CompactUpper ==
    /\ pc = "compact" /\ at < TotalLevel /\ LevelIsFull(disk[at])
    /\ MergeInto(RunsOf(disk[at]), at + 1, FALSE, RunsOf(disk[at]))
    /\ disk' = [disk EXCEPT ![at] = LevelInit(at),
                            ![at + 1] = LevelInsertRun(@, Head(free_q))]
    /\ at' = at + 1
    /\ UNCHANGED <<mem, pc, forced, written>>

\* The same in the last level: two runs into one.
CompactLast ==
    /\ pc = "compact" /\ at = TotalLevel /\ LevelIsFull(disk[at])
    /\ TargetsExist(disk[at])
    /\ LET lev == disk[at]
           two == TwoTargets(lev)
           srcs == <<lev.slot[two[1]], lev.slot[two[2]]>>
       IN /\ MergeInto(srcs, TotalLevel, FALSE, srcs)
          /\ disk' = [disk EXCEPT ![at] =
               LevelInsertRun(Rebuild(LevelRemove(LevelRemove(lev, two[1]), two[2]), at), Head(free_q))]
    /\ pc' = "space"
    /\ UNCHANGED <<mem, at, forced, written>>

CompactDone ==
    /\ pc = "compact" /\ ~LevelIsFull(disk[at])
    /\ pc' = "space"
    /\ UNCHANGED <<sc, info, free_q, now_recency, mem, disk, at, forced, written>>

\* The level number given to the run a forced reconstruction creates.
ForcedLevel == TotalLevel - 1

\* The loop of compaction_flush while free space is short (the answer of
\* gc_check_enough_space is external): rewrite the run of the last level with the
\* largest unlinked share.
ForceRewrite ==
    /\ pc = "space" /\ forced < load.force
    /\ disk[TotalLevel].slot[ForceTarget(disk[TotalLevel])] # None
    /\ LET lev == disk[TotalLevel]
           s == ForceTarget(lev)
       IN /\ MergeInto(<<lev.slot[s]>>, ForcedLevel, TRUE, <<lev.slot[s]>>)
          /\ disk' = [disk EXCEPT ![TotalLevel] =
               LevelInsertRun(LevelRemove(lev, s), Head(free_q))]
    /\ forced' = forced + 1
    /\ UNCHANGED <<mem, pc, at, written>>

\* The end of compaction_flush, and a new memtable: the old one's index goes to
\* the back of the queue before one is taken from its front.
FinishFlush ==
    /\ pc = "space"
    /\ LET q == free_q \o Returned(<<mem>>)
       IN /\ mem' = Head(q)
          /\ free_q' = Tail(q)
          /\ info' = [FreeRuns(info, <<mem>>) EXCEPT ![Head(q)] = NewMem(now_recency)]
    /\ now_recency' = now_recency + 1
    /\ pc' = "idle" /\ at' = 1 /\ forced' = 0
    /\ UNCHANGED <<sc, disk, written>>

Next ==
    /\ UNCHANGED load
    /\ \/ \E k \in Lba : Insert(k)
       \/ Flush \/ CompactUpper \/ CompactLast \/ CompactDone \/ ForceRewrite \/ FinishFlush

Spec == Init /\ [][Next]_vars

-----------------------------------------------------------------------------
(* Properties.                                                             *)

Live == {x \in Idx : info[x] # None}
LbasOf(x) == UNION {ste.lbas : ste \in ToSet(info[x].stes)}

\* Every variable has its type.
TypeOK ==
    /\ sc \in [Lba -> Idx \cup {None}]
    /\ info \in [Idx -> RunSet \cup {None}]
    /\ free_q \in Seq(Idx) /\ mem \in Idx /\ now_recency \in Nat
    /\ DOMAIN disk = Lev
    /\ \A i \in Lev : /\ disk[i].slot \in [1..LevelMax(i) -> Idx \cup {None}]
                      /\ disk[i].order \in Seq(1..LevelMax(i))
    /\ pc \in {"idle", "compact", "space"} /\ at \in Lev /\ forced \in Nat
    /\ written \subseteq Lba

\* A read finds what was written last: the run the shortcut table names is alive
\* and holds the last copy of the block (checked by __checking_data_check).
ReadsLatest ==
    \A k \in written : /\ sc[k] # None /\ info[sc[k]] # None
                        /\ k \in LbasOf(sc[k]) /\ k \in info[sc[k]].fresh

\* A stale copy is always recognised: an entry of a run the table does not name
\* for that block fails the checks of __pick_smallest_pair, whatever levels,
\* recencies and moved blocks it has been through.  A memtable just flushed is
\* exempt: it is newer than the run it became, and is freed unmerged.
StaleCopiesRefused ==
    \A x \in Live \ (IF pc = "idle" THEN {} ELSE {mem}) : \A j \in DOMAIN info[x].stes : \A k \in info[x].stes[j].lbas :
        sc[k] # x => ~EntryValid(x, info[x].stes[j], k)

\* unlinked_lba_num, on which level_get_compaction_target decides, is the number
\* of entries of the run that no read can reach.
UnlinkedExact ==
    \A x \in Live : info[x].unlinked = info[x].entries - Cardinality({k \in Lba : sc[k] = x})

\* Every live run is the memtable or sits in one slot of one level, and the other
\* indices are in the pool, once each: no merge loses a run or frees one twice.
EveryRunInPlace ==
    LET placed == UNION {{i} \X {s \in DOMAIN disk[i].slot : disk[i].slot[s] # None} : i \in Lev}
        runs == {disk[p[1]].slot[p[2]] : p \in placed}
    IN /\ Cardinality(runs) = Cardinality(placed) /\ mem \notin runs
       /\ Live = runs \cup {mem}
       /\ ToSet(free_q) = Idx \ Live /\ Len(free_q) = Cardinality(Idx \ Live)
       /\ \A i \in Lev : /\ ToSet(disk[i].order) = {s \in DOMAIN disk[i].slot : disk[i].slot[s] # None}
                         /\ Len(disk[i].order) = Cardinality(ToSet(disk[i].order))

\* __lsm_populate_new_run always finds an index ("empty ridx queue").
PoolNeverEmpty == free_q # <<>>

\* A merge of the last level is given two runs, and both have pages to read
\* ("SPI null!!" in sp_set_iter_move).
MergedRunsHavePages ==
    pc = "compact" /\ at = TotalLevel /\ LevelIsFull(disk[at])
      => /\ TargetsExist(disk[at])
         /\ \A s \in ToSet(TwoTargets(disk[at])) : HasPages(disk[at].slot[s])

\* Only the level being looked at may be full, so level_insert_run never meets a
\* full level ("level is full").
NoLevelOverflows ==
    \A i \in Lev : Len(disk[i].order) = LevelMax(i) => pc = "compact" /\ i = at

\* Reads find the last copy, and whatever else is left of it is never taken for it.
\* Two things lose this, so the loads with them are left out: a forced
\* reconstruction numbers its run as one of the level above, and a block written
\* again within one STE of the memtable is found in its older copy once moved.
Plain == load.force = 0 /\ ~load.repeats
LatestOnly == Plain => ReadsLatest /\ StaleCopiesRefused

\* Merges and forced rewrites keep the books: every run sits in one slot of one
\* level, the other indices are in the pool once each, no level is overfull, and
\* the unlinked entries that decide what to merge are counted exactly.
RunsInPlace == EveryRunInPlace /\ PoolNeverEmpty /\ NoLevelOverflows /\ UnlinkedExact
=============================================================================
