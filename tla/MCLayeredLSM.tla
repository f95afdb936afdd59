---------------------------- MODULE MCLayeredLSM -----------------------------
(***************************************************************************)
(* LayeredLSM for TLC.  Run indices are only names and recencies are only  *)
(* compared, so states that differ by renaming the one and by an           *)
(* order-preserving renumbering of the other behave alike: the view names  *)
(* a run by its place and numbers the recencies in use from 0.             *)
(***************************************************************************)
EXTENDS LayeredLSM

LsmView ==
    LET inUse == UNION {{info[x].recency} \cup {ste.recency : ste \in ToSet(info[x].stes)} : x \in Live}
        rank == [n \in inUse |-> Cardinality({m \in inUse : m < n})]
        run(x) == IF x = None \/ info[x] = None THEN None
                  ELSE <<info[x].level, rank[info[x].recency], info[x].entries,
                         info[x].unlinked, info[x].fresh, {k \in Lba : sc[k] = x},
                         [j \in DOMAIN info[x].stes |->
                            <<info[x].stes[j].lbas, info[x].stes[j].twice, info[x].stes[j].copied,
                              info[x].stes[j].level, info[x].stes[j].sorted, rank[info[x].stes[j].recency]>>]>>
    IN <<run(mem), [i \in Lev |-> [s \in 1..LevelMax(i) |-> run(disk[i].slot[s])]],
         [i \in Lev |-> disk[i].order], Len(free_q), Cardinality(Live),
         pc, at, forced, written, load>>

\* Plain merges of four blocks with a memtable of one STE; and two blocks, each
\* written again within an STE of the two, with free space short at any flush.
MCLoads ==
    {[lbas |-> 0..3, entries |-> 2, force |-> 0, repeats |-> FALSE],
     [lbas |-> 0..1, entries |-> 4, force |-> 1, repeats |-> TRUE]}
=============================================================================
