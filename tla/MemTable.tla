------------------------------ MODULE MemTable ------------------------------
(***************************************************************************)
(* The memtable of AppL, a log run: writes gather in a page buffer         *)
(* (page_aligner.cpp), full pages are appended to the run and a tree       *)
(* (tree_mapping.cpp) names the place of each block.  A block may be       *)
(* written again at any time.  The flush walks the tree in address order.  *)
(***************************************************************************)
EXTENDS Integers, Sequences, FiniteSets, SequencesExt

CONSTANTS Lba, L2PGAP, SteEntries, MaxWrites     \* MaxWrites: entries of the memtable

VARIABLES
    pp,         \* page buffer: <<address, version>>
    log,        \* pieces written, in order
    tree,       \* address -> offset in log, from 0
    valid,      \* offsets whose piece is valid
    newest,     \* history: version of the last acknowledged write
    iter,       \* the merge's walk: step, STE it believes to be in, entries given
    state       \* "open", "walk", "done"

vars == <<pp, log, tree, valid, newest, iter, state>>

Absent == -1
Init ==
    /\ pp = <<>> /\ log = <<>> /\ valid = {} /\ state = "open"
    /\ tree = [l \in Lba |-> Absent] /\ newest = [l \in Lba |-> 0]
    /\ iter = [cnt |-> 0, ste |-> 0, given |-> <<>>]

\* tree_insert and the invalidation of the place it returns.
InsertPiece(s, e) ==
    [s EXCEPT !.tree[e[1]] = Len(s.log), !.valid = (@ \cup {Len(s.log)}) \ {s.tree[e[1]]},
              !.log = Append(@, e)]
\* __run_write_buffer
WriteBuffer(buf) == FoldLeft(InsertPiece, [log |-> log, tree |-> tree, valid |-> valid], buf)
Becomes(s) == log' = s.log /\ tree' = s.tree /\ valid' = s.valid

Written == Len(log) + Len(pp)
RunInsert(l) ==
    /\ state = "open" /\ Written < MaxWrites
    /\ newest' = [newest EXCEPT ![l] = @ + 1]
    /\ LET buf == Append(pp, <<l, newest[l] + 1>>)
       IN  IF Len(buf) = L2PGAP THEN pp' = <<>> /\ Becomes(WriteBuffer(buf))
           ELSE pp' = buf /\ UNCHANGED <<log, tree, valid>>
    /\ UNCHANGED <<iter, state>>

\* run_insert_done: the last page may be partly filled.  The merge starts.
RunInsertDone ==
    /\ state = "open" /\ Written = MaxWrites
    /\ pp' = <<>> /\ Becomes(WriteBuffer(pp))
    /\ state' = "walk"
    /\ UNCHANGED <<newest, iter>>

Stes == (Len(log) + SteEntries - 1) \div SteEntries
Distinct == Cardinality({l \in Lba : tree[l] # Absent})         \* now_contents_num
PerSte == Distinct \div Stes                                    \* ste_per_ent
\* The walk of the tree: a std::map, so in address order.
Walk == SetToSortSeq({l \in Lba : tree[l] # Absent}, <)
\* sp_set_iter_pick and sp_set_iter_move.  When PerSte is 0 the division of a
\* move that is not the last one traps.
IterMove ==
    /\ state = "walk" /\ iter.cnt < Len(Walk)
    /\ LET l == Walk[iter.cnt + 1]
           last == iter.cnt + 1 = Len(Walk)
       IN  /\ last \/ PerSte > 0
           /\ iter' = [cnt |-> iter.cnt + 1, given |-> Append(iter.given, <<l, tree[l]>>),
                       ste |-> IF last THEN iter.ste + 1
                               ELSE IF iter.ste # Stes THEN (iter.cnt + 1) \div PerSte ELSE iter.ste]
           /\ state' = IF last THEN "done" ELSE state
    /\ UNCHANGED <<pp, log, tree, valid, newest>>

Next == (\E l \in Lba : RunInsert(l)) \/ RunInsertDone \/ IterMove
Spec == Init /\ [][Next]_vars

\* run_query: the page buffer first (pp_find_value), then the tree.
Buffered(l) == {i \in DOMAIN pp : pp[i][1] = l}
FindValue(l) == pp[CHOOSE i \in Buffered(l) : \A j \in Buffered(l) : i <= j][2]
Value(l) == IF Buffered(l) # {} THEN FindValue(l)
            ELSE IF tree[l] = Absent THEN 0 ELSE log[tree[l] + 1][2]

(* Of the copies of a block in the log the newest alone is valid, the tree  *)
(* names it, and the flush is given exactly the valid pieces.               *)
NewestValid ==
    /\ valid = {tree[l] : l \in {x \in Lba : tree[x] # Absent}}
    /\ \A i \in DOMAIN log : \A j \in DOMAIN log :
          i < j /\ log[i][1] = log[j][1] => i - 1 \notin valid
    /\ state = "done" => valid = {iter.given[i][2] : i \in DOMAIN iter.given}

(* A read returns the last acknowledged write of the block.                 *)
BufferNewest == \A l \in Lba : Value(l) = newest[l]

(* The flush can take its next step: the walk never divides by zero.        *)
WalkDefined == state = "walk" => ENABLED IterMove
=============================================================================
