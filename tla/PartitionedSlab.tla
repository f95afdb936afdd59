-------------------------- MODULE PartitionedSlab ---------------------------
(***************************************************************************)
(* Where the contents of mapping pages are (data_struct/                   *)
(* partitioned_slab.c): the back ends keep only metadata pages             *)
(* (COPYMETA_ONLY), each in a slab of a fixed pool.  A slab is freed when  *)
(* the FTL has reported every piece of its page invalid, or with its whole *)
(* segment.  The calls come from the FTL's thread.                         *)
(***************************************************************************)
EXTENDS Integers, Sequences, FiniteSets, SequencesExt

CONSTANTS
    Key, block_in_partition,    \* metadata pages 0 .. n, and pages of a segment
    max_slab_num,
    L2PGAP,                     \* pieces of a page
    MaxInsert                   \* pages written in all

VARIABLES
    free_slabs,     \* free slabs, oldest first
    partitiones,    \* page -> its slab, or NoSlab
    slabs,          \* slab -> contents
    slab_deref_count,
    page,           \* the FTL's view: page -> contents (0: erased) and valid pieces
    inserts,        \* pages written so far
    got             \* history: every page read was the one written

slabVars == <<free_slabs, partitiones, slabs, slab_deref_count, page, inserts, got>>

NoSlab == -1
Slab == 0 .. max_slab_num - 1
Partition(k) == {x \in Key : x \div block_in_partition = k \div block_in_partition}

InitSlabs ==
    /\ free_slabs = [i \in 1 .. max_slab_num |-> i - 1]
    /\ partitiones = [k \in Key |-> NoSlab]
    /\ slabs = [s \in Slab |-> 0] /\ slab_deref_count = [s \in Slab |-> 0]
    /\ page = [k \in Key |-> [data |-> 0, valid |-> 0]]
    /\ inserts = 0 /\ got = TRUE

\* PS_master_insert, for a metadata page written after its segment was erased;
\* with no slab free the program aborts ("empty slab space!!").
Insert(k) ==
    /\ page[k].data = 0 /\ inserts < MaxInsert /\ free_slabs # <<>>
    /\ inserts' = inserts + 1
    /\ free_slabs' = Tail(free_slabs)
    /\ partitiones' = [partitiones EXCEPT ![k] = Head(free_slabs)]
    /\ slabs' = [slabs EXCEPT ![Head(free_slabs)] = inserts']
    /\ page' = [page EXCEPT ![k] = [data |-> inserts', valid |-> L2PGAP]]
    /\ UNCHANGED <<slab_deref_count, got>>

\* PS_master_get of a page with a valid piece.
Get(k) ==
    /\ page[k].valid > 0
    /\ got' = (got /\ partitiones[k] # NoSlab /\ slabs[partitiones[k]] = page[k].data)
    /\ UNCHANGED <<free_slabs, partitiones, slabs, slab_deref_count, page, inserts>>

\* PS_master_free_slab, told of one more invalid piece of the page.
LastPiece(s) == slab_deref_count[s] + 1 = L2PGAP
FreeSlab(k) ==
    /\ page[k].valid > 0
    /\ page' = [page EXCEPT ![k].valid = @ - 1]
    /\ LET s == partitiones[k]
       IN  IF s = NoSlab
           THEN UNCHANGED <<free_slabs, partitiones, slab_deref_count>>
           ELSE IF LastPiece(s)
           THEN /\ free_slabs' = Append(free_slabs, s)
                /\ slab_deref_count' = [slab_deref_count EXCEPT ![s] = 0]
                /\ partitiones' = [partitiones EXCEPT ![k] = NoSlab]
           ELSE /\ slab_deref_count' = [slab_deref_count EXCEPT ![s] = @ + 1]
                /\ UNCHANGED <<free_slabs, partitiones>>
    /\ UNCHANGED <<slabs, inserts, got>>

\* The one sequence of the pages S by number.
InOrder(S) ==
    {q \in [1 .. Cardinality(S) -> S] : \A i, j \in 1 .. Cardinality(S) : i < j => q[i] < q[j]}
\* PS_master_free_partition, as the segment of page k is erased, with whatever
\* the FTL still calls valid there.
FreePartition(k) ==
    /\ k % block_in_partition = 0 /\ \E x \in Partition(k) : page[x].data # 0
    /\ \E held \in InOrder({x \in Partition(k) : partitiones[x] # NoSlab}) :
          free_slabs' = free_slabs \o [i \in DOMAIN held |-> partitiones[held[i]]]
    /\ slab_deref_count' = [s \in Slab |-> IF \E x \in Partition(k) : partitiones[x] = s
                                           THEN 0 ELSE slab_deref_count[s]]
    /\ partitiones' = [x \in Key |-> IF x \in Partition(k) THEN NoSlab ELSE partitiones[x]]
    /\ page' = [x \in Key |-> IF x \in Partition(k) THEN [data |-> 0, valid |-> 0] ELSE page[x]]
    /\ UNCHANGED <<slabs, inserts, got>>

NextSlabs == \E k \in Key : Insert(k) \/ Get(k) \/ FreeSlab(k) \/ FreePartition(k)

(* A page with a valid piece is read as it was written, whatever was freed  *)
(* and reused around it; the free slabs and those of pages are the pool,    *)
(* each once; a page of which every piece was reported holds none, so the   *)
(* pool bounds the pages still used and not those waiting for an erase.     *)
SlabsExact ==
    /\ got
    /\ \A k \in Key : page[k].valid > 0 <=> partitiones[k] # NoSlab
    /\ LET held == {k \in Key : partitiones[k] # NoSlab}
       IN  /\ Len(free_slabs) + Cardinality(held) = max_slab_num
           /\ ToSet(free_slabs) \cup {partitiones[k] : k \in held} = Slab
           /\ \A k \in held : slab_deref_count[partitiones[k]] = L2PGAP - page[k].valid
=============================================================================
