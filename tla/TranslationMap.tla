--------------------------- MODULE TranslationMap ---------------------------
(***************************************************************************)
(* What a flash translation layer promises of its address mapping: one     *)
(* location per logical address, changed only by applying an update that a *)
(* request submitted or by the garbage collector moving the data, and      *)
(* every read answered with the location the mapping names at that moment. *)
(* Caching, eviction, misses and dump-and-load are invisible here.         *)
(***************************************************************************)
CONSTANTS Lba, None

VARIABLES
    loc,     \* where the data of each address is, or None
    todo,    \* updates submitted and not applied: <<lba, location>>
    answers  \* the reads the latest step answered: <<lba, location>>

Init == loc = [l \in Lba |-> None] /\ todo = {} /\ answers = {}

\* Some submitted updates take effect, at most one of each address.
Apply ==
    /\ todo' \subseteq todo
    /\ \A l \in Lba :
          IF \E u \in todo \ todo' : u[1] = l
          THEN <<l, loc'[l]>> \in todo \ todo'
          ELSE loc'[l] = loc[l]

Submit == todo \subseteq todo' /\ UNCHANGED loc

\* The collector moves data: a mapped address stays mapped, an unmapped one
\* unmapped, and no address moves onto a location another one has or had.
Relocate ==
    /\ UNCHANGED todo
    /\ \A l \in Lba : loc'[l] = None <=> loc[l] = None
    /\ \A l, k \in Lba : l # k /\ loc'[l] # None => loc'[l] \notin {loc[k], loc'[k]}

\* A read sees the mapping before or after the update it is served with.
Served == \A a \in answers' : a[2] \in {loc[a[1]], loc'[a[1]]}

Next == Served /\ (Apply \/ Submit \/ Relocate)

Spec == Init /\ [][Next]_<<loc, todo, answers>>
=============================================================================
