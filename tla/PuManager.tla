----------------------------- MODULE PuManager ------------------------------
(***************************************************************************)
(* The parallel unit manager (parallel_unit_manager/pu_manager.c), which   *)
(* every FTL calls as its device: each request travels in one of QDEPTH    *)
(* wrappers, the pages of finished requests are kept in a direct-mapped    *)
(* cache of QDEPTH slots, and a read that finds its page there never goes  *)
(* to the device.  The device below is a queue served in order by a thread *)
(* of its own, as posix_memory is when it is built with LASYNC.            *)
(***************************************************************************)
EXTENDS Integers, Sequences, FiniteSets, SequencesExt

CONSTANTS
    Ppa, PerBlock,      \* page numbers 0 .. n, pages erased together
    QDEPTH,             \* wrappers, and slots of the cache
    Id,                 \* requests of the FTL
    MaxVer,             \* times a page may be written
    TrimsBusy           \* TRUE: blocks are erased with requests of theirs in flight

VARIABLES
    cached,     \* slot -> page number and contents
    medium,     \* page -> what the device holds, 0 when erased
    issued,     \* page -> what the FTL last wrote there, 0 since its erase
    writes,     \* page -> number of writes, which are the contents
    wrappers,   \* free wrappers
    devq,       \* the device's queue: requests, and erases as the block's first page
    serving,    \* the request the device thread has taken, and how far it is
    caller,     \* request whose call waits for a wrapper
    request,    \* the requests in progress
    right       \* history: every read was answered with what its page held

puVars == <<cached, medium, issued, writes, wrappers, devq, serving, caller, request, right>>

None == -1
Slot == 0 .. QDEPTH - 1
Fresh == [op |-> "R", ppa |-> 0, data |-> 0, want |-> 0, st |-> "idle"]
Block(p) == {x \in Ppa : x \div PerBlock = p \div PerBlock}

\* pu_create_body, again when a dump is loaded.
InitPu ==
    /\ cached = [s \in Slot |-> [ppa |-> None, data |-> 0]]
    /\ medium = [p \in Ppa |-> 0] /\ issued = [p \in Ppa |-> 0] /\ writes = [p \in Ppa |-> 0]
    /\ wrappers = QDEPTH /\ devq = <<>> /\ serving = None /\ caller = None
    /\ request = [i \in Id |-> Fresh] /\ right = TRUE

-----------------------------------------------------------------------------
(* The FTL's thread.                                                       *)

Busy(i) == request[i].st # "idle"
Idle(i) == caller = None /\ ~Busy(i) /\ \A j \in Id : j < i => Busy(j)

\* pu_write, of a page erased since it was last written.
PuWrite(i, p) ==
    /\ Idle(i) /\ issued[p] = 0 /\ writes[p] < MaxVer
    /\ issued' = [issued EXCEPT ![p] = writes[p] + 1]
    /\ writes' = [writes EXCEPT ![p] = @ + 1]
    /\ request' = [request EXCEPT ![i] = [op |-> "W", ppa |-> p, data |-> writes[p] + 1,
                                          want |-> writes[p] + 1, st |-> "call"]]
    /\ caller' = i
    /\ UNCHANGED <<cached, medium, wrappers, devq, serving, right>>

BufferHit(p) == cached[p % QDEPTH].ppa = p
\* pu_read, of a page written before; a hit ends the request within the call.
PuRead(i, p) ==
    /\ Idle(i) /\ issued[p] # 0
    /\ IF BufferHit(p)
       THEN right' = (right /\ cached[p % QDEPTH].data = issued[p]) /\ UNCHANGED <<caller, request>>
       ELSE /\ request' = [request EXCEPT ![i] = [Fresh EXCEPT !.ppa = p, !.want = issued[p], !.st = "call"]]
            /\ caller' = i /\ UNCHANGED right
    /\ UNCHANGED <<cached, medium, issued, writes, wrappers, devq, serving>>

\* get_pu_wrapper waits for a wrapper, then the request goes to the device.
GetWrapper ==
    /\ caller # None /\ wrappers > 0
    /\ wrappers' = wrappers - 1
    /\ devq' = Append(devq, <<"io", caller>>)
    /\ request' = [request EXCEPT ![caller].st = "queued"]
    /\ caller' = None
    /\ UNCHANGED <<cached, medium, issued, writes, serving, right>>

DropCached == [s \in Slot |-> [cached[s] EXCEPT !.ppa = None]]
\* pu_trim_block empties the whole cache and queues the erase.
PuTrim(p) ==
    /\ caller = None /\ p % PerBlock = 0 /\ \E x \in Block(p) : issued[x] # 0
    /\ TrimsBusy \/ \A i \in Id : request[i].ppa \in Block(p) => ~Busy(i)
    /\ cached' = DropCached
    /\ devq' = Append(devq, <<"trim", p>>)
    /\ issued' = [x \in Ppa |-> IF x \in Block(p) THEN 0 ELSE issued[x]]
    /\ UNCHANGED <<medium, writes, wrappers, serving, caller, request, right>>

-----------------------------------------------------------------------------
(* The device's thread.                                                    *)

Execute ==
    /\ serving = None /\ devq # <<>>
    /\ devq' = Tail(devq)
    /\ LET kind == Head(devq)[1]
           i == Head(devq)[2]
           r == request[i]
       IN  IF kind = "trim"
           THEN /\ medium' = [x \in Ppa |-> IF x \in Block(i) THEN 0 ELSE medium[x]]
                /\ UNCHANGED <<serving, request>>
           ELSE /\ serving' = i
                /\ medium' = IF r.op = "W" THEN [medium EXCEPT ![r.ppa] = r.data] ELSE medium
                /\ request' = [request EXCEPT ![i].data = IF r.op = "R" THEN medium[r.ppa] ELSE @,
                                              ![i].st = "moved"]
    /\ UNCHANGED <<cached, issued, writes, wrappers, caller, right>>

\* pu_end_req keeps the page, under the lock of the cache, ...
KeepPage ==
    /\ serving # None /\ request[serving].st = "moved"
    /\ LET r == request[serving]
       IN  cached' = [cached EXCEPT ![r.ppa % QDEPTH] = [ppa |-> r.ppa, data |-> r.data]]
    /\ request' = [request EXCEPT ![serving].st = "kept"]
    /\ UNCHANGED <<medium, issued, writes, wrappers, devq, serving, caller, right>>

\* ... gives the wrapper back and ends the request.
Released == wrappers + 1
EndReq ==
    /\ serving # None /\ request[serving].st = "kept"
    /\ wrappers' = Released
    /\ right' = (right /\ request[serving].data = request[serving].want)
    /\ request' = [request EXCEPT ![serving] = Fresh]
    /\ serving' = None
    /\ UNCHANGED <<cached, medium, issued, writes, devq, caller>>

Device == Execute \/ KeepPage \/ EndReq
NextPu ==
    \/ \E i \in Id, p \in Ppa : PuWrite(i, p) \/ PuRead(i, p)
    \/ \E p \in Ppa : PuTrim(p)
    \/ GetWrapper
    \/ Device

(* A read is answered with what was written last to its page before the     *)
(* read was sent, whether it came from the cache, met its write in the      *)
(* queue, or another page took its slot in between.                         *)
PagesFresh ==
    /\ right
    /\ wrappers = QDEPTH - Cardinality({i \in Id : request[i].st \in {"queued", "moved", "kept"}})
=============================================================================
