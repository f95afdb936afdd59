----------------------------- MODULE MCFrontEnd ------------------------------
(***************************************************************************)
(* What drives the FTLs and what they rest on: the thread pool, the block  *)
(* device front end, the benchmark driver, the parallel unit manager, the   *)
(* AIO and AMF back ends and the slabs of mapping pages, each on its own   *)
(* instance within one run; the variables of the parts a behaviour is not  *)
(* about stay at Off.                                                      *)
(***************************************************************************)
EXTENDS Integers, Sequences, FiniteSets

CONSTANTS Off, Pool, Threads, Script,
    Slots, Blocks, Requests, MaxSend, BufferSize, WithBuffer,
    Plans, PerCommand, MaxFlight,
    Ppa, PerBlock, QDEPTH, Id, MaxVer, TrimsBusy,
    MAX_REQ_NUM, MaxCalls,
    AMF_PUNIT, R2PGAP, RPPB, PPB, AmfDepth, MaxIssue,
    Key, block_in_partition, max_slab_num, L2PGAP, MaxInsert

VARIABLES part,
    keepalive, pool, worker, client,
    gwb, slot, scan, reqq, done, flight, buffer, disk, sends,
    plan, monitor, bench, flying,
    cached, medium, issued, writes, wrappers, devq, serving, caller, request, right,
    tagQ, private_list, cbs_queue, batch, kernel, polled, calls, waiting, ended,
    buffered, amf, direct, issuer, main, device, callback, finished,
    free_slabs, partitiones, slabs, slab_deref_count, page, inserts, got

Pools == INSTANCE ThreadPool
Front == INSTANCE BlockFrontEnd
Bench == INSTANCE Benchmark
Pu == INSTANCE PuManager
Aio == INSTANCE AioDevice
Amf == INSTANCE AmfDevice WITH pool <- direct
Slabs == INSTANCE PartitionedSlab

ASSUME PoolAssumption == Threads \in [Pool -> Nat] /\ Script \in Seq([op : Pools!Op, p : Pool])
ASSUME ScriptAssumption == Pools!ScriptSound
ASSUME PlanAssumption == Bench!PlansSound
ASSUME AioAssumption == MAX_REQ_NUM \in Nat /\ MaxCalls \in Nat
ASSUME AmfAssumption ==
    AMF_PUNIT \in Nat \ {0} /\ R2PGAP \in Nat \ {0} /\ RPPB \in Nat /\ PPB \in Nat /\ AmfDepth \in Nat /\ MaxIssue \in Nat
ASSUME FrontAssumption ==
    /\ Slots \in Nat \ {0} /\ Blocks \in Nat /\ WithBuffer \subseteq BOOLEAN
    /\ Requests \subseteq {r \in [op : {"R", "W", "D"}, pos : Nat, len : Nat \ {0}] : r.pos + r.len <= Blocks}
ASSUME PuAssumption == Ppa \subseteq Nat /\ QDEPTH \in Nat \ {0} /\ Id \subseteq Nat /\ IsFiniteSet(Id)
ASSUME SlabAssumption == Key \subseteq Nat /\ max_slab_num \in Nat /\ L2PGAP \in Nat \ {0}

poolVars == <<keepalive, pool, worker, client>>
frontVars == <<gwb, slot, scan, reqq, done, flight, buffer, disk, sends>>
benchVars == <<plan, monitor, bench, flying>>
puVars == <<cached, medium, issued, writes, wrappers, devq, serving, caller, request, right>>
aioVars == <<tagQ, private_list, cbs_queue, batch, kernel, polled, calls, waiting, ended>>
amfVars == <<buffered, amf, direct, issuer, main, device, callback, finished>>
slabVars == <<free_slabs, partitiones, slabs, slab_deref_count, page, inserts, got>>
vars == <<part, poolVars, frontVars, benchVars, puVars, aioVars, amfVars, slabVars>>

NoPools == keepalive = Off /\ pool = Off /\ worker = Off /\ client = Off
NoFront == /\ gwb = Off /\ slot = Off /\ scan = Off /\ reqq = Off /\ done = Off /\ flight = Off
           /\ buffer = Off /\ disk = Off /\ sends = Off
NoBench == plan = Off /\ monitor = Off /\ bench = Off /\ flying = Off
NoPu == /\ cached = Off /\ medium = Off /\ issued = Off /\ writes = Off /\ wrappers = Off /\ devq = Off
        /\ serving = Off /\ caller = Off /\ request = Off /\ right = Off
NoAio == /\ tagQ = Off /\ private_list = Off /\ cbs_queue = Off /\ batch = Off /\ kernel = Off
         /\ polled = Off /\ calls = Off /\ waiting = Off /\ ended = Off
NoAmf == /\ buffered = Off /\ amf = Off /\ direct = Off /\ issuer = Off /\ main = Off /\ device = Off
         /\ callback = Off /\ finished = Off
NoSlabs == /\ free_slabs = Off /\ partitiones = Off /\ slabs = Off /\ slab_deref_count = Off /\ page = Off
           /\ inserts = Off /\ got = Off

Init ==
    \/ part = "pools" /\ Pools!InitPools /\ NoFront /\ NoBench /\ NoPu /\ NoAio /\ NoAmf /\ NoSlabs
    \/ part = "front" /\ Front!InitFront /\ NoPools /\ NoBench /\ NoPu /\ NoAio /\ NoAmf /\ NoSlabs
    \/ part = "bench" /\ Bench!InitBench /\ NoPools /\ NoFront /\ NoPu /\ NoAio /\ NoAmf /\ NoSlabs
    \/ part = "pu" /\ Pu!InitPu /\ NoPools /\ NoFront /\ NoBench /\ NoAio /\ NoAmf /\ NoSlabs
    \/ part = "aio" /\ Aio!InitAio /\ NoPools /\ NoFront /\ NoBench /\ NoPu /\ NoAmf /\ NoSlabs
    \/ part = "amf" /\ Amf!InitAmf /\ NoPools /\ NoFront /\ NoBench /\ NoPu /\ NoAio /\ NoSlabs
    \/ part = "slab" /\ Slabs!InitSlabs /\ NoPools /\ NoFront /\ NoBench /\ NoPu /\ NoAio /\ NoAmf
Next ==
    /\ UNCHANGED part
    /\ \/ part = "pools" /\ Pools!NextPools /\ UNCHANGED <<frontVars, benchVars, puVars, aioVars, amfVars, slabVars>>
       \/ part = "front" /\ Front!NextFront /\ UNCHANGED <<poolVars, benchVars, puVars, aioVars, amfVars, slabVars>>
       \/ part = "bench" /\ Bench!NextB /\ UNCHANGED <<poolVars, frontVars, puVars, aioVars, amfVars, slabVars>>
       \/ part = "pu" /\ Pu!NextPu /\ UNCHANGED <<poolVars, frontVars, benchVars, aioVars, amfVars, slabVars>>
       \/ part = "aio" /\ Aio!NextAio /\ UNCHANGED <<poolVars, frontVars, benchVars, puVars, amfVars, slabVars>>
       \/ part = "amf" /\ Amf!NextAmf /\ UNCHANGED <<poolVars, frontVars, benchVars, puVars, aioVars, slabVars>>
       \/ part = "slab" /\ Slabs!NextSlabs /\ UNCHANGED <<poolVars, frontVars, benchVars, puVars, aioVars, amfVars>>

\* The fairness of each part, where the behaviour is about it.
Fair ==
    /\ WF_poolVars(part = "pools" /\ Pools!ClientSteps)
    /\ \A w \in Pools!Worker : WF_poolVars(part = "pools" /\ Pools!Steps(w))
    /\ WF_frontVars(part = "front" /\ Front!Scanner)
    /\ WF_frontVars(part = "front" /\ Front!MainThread)
    /\ WF_frontVars(part = "front" /\ Front!FlushThread)
    /\ WF_frontVars(part = "front" /\ Front!Device)
    /\ WF_benchVars(part = "bench" /\ Bench!Loop)
    /\ WF_benchVars(part = "bench" /\ Bench!Reaper)
    /\ WF_puVars(part = "pu" /\ Pu!GetWrapper)
    /\ WF_puVars(part = "pu" /\ Pu!Device)
    /\ WF_aioVars(part = "aio" /\ (Aio!AioCall \/ Aio!SendReq))
    /\ WF_aioVars(part = "aio" /\ Aio!Sender)
    /\ WF_aioVars(part = "aio" /\ Aio!Poller)
    /\ WF_amfVars(part = "amf" /\ Amf!Issuer)
    /\ WF_amfVars(part = "amf" /\ Amf!Main)
    /\ WF_amfVars(part = "amf" /\ Amf!Library)
Spec == Init /\ [][Next]_vars /\ Fair

-----------------------------------------------------------------------------
(* The instances.                                                          *)

\* knob: the pool design_knob uses and destroys; flush: one of one worker.
Do(op, p) == [op |-> op, p |-> p]
MCThreads == [flush |-> 1, knob |-> 2]
MCScript ==
    <<Do("init", "knob"), Do("add", "knob"), Do("add", "knob"), Do("add", "knob"), Do("wait", "knob"),
      Do("destroy", "knob"), Do("init", "flush"), Do("add", "flush"), Do("wait", "flush"),
      Do("add", "flush"), Do("wait", "flush"), Do("destroy", "flush")>>

Ask(op, pos, len) == [op |-> op, pos |-> pos, len |-> len]
MCRequests == {Ask("R", 0, 2), Ask("W", 0, 1), Ask("W", 0, 2), Ask("D", 1, 1)}

Four(t, n) == [type |-> t, start |-> 0, end |-> 4, number |-> n]
Two(t, n) == [type |-> t, start |-> 0, end |-> 2, number |-> n]
MCPlans ==
    {<<Two("VSSET", 4), Four("VSGET", 4)>>, <<Four("VSSET", 5), Four("VRW", 4)>>, <<Two("VRW", 6), Four("VSSET", 4)>>,
     <<Two("VRSET", 4), Two("VTEMPORAL", 2)>>, <<Four("VUNIQ", 4), Two("VRGET", 2)>>,
     <<Four("VPARTIAL", 8), Four("VSGET", 2)>>, <<Four("SEQSET", 4), Two("RANDGET", 2)>>,
     <<Four("SEQGET", 4), Two("RANDSET", 2)>>, <<Two("SEQRW", 6), Two("RANDRW", 4)>>,
     <<Two("MIXED", 2), Two("FILLRAND", 4)>>}

-----------------------------------------------------------------------------
(* When thpool_wait has returned, every job added to the pool before has   *)
(* been run, exactly once.                                                 *)
DoneExactlyOnce == part = "pools" => Pools!WaitMeansDone

(* A request sent to the AIO back end is in one control block until it      *)
(* ends, and ends once; one sent to the AMF back end ends once, after the   *)
(* last of its device pages: no tag, wrapper or return parameter serves two *)
(* requests at a time.                                                     *)
DeviceEndsOnce ==
    /\ part = "aio" => Aio!SentOnce
    /\ part = "amf" => Amf!EndedOnce

(* Without the write buffer, a read the kernel finds answered has all its  *)
(* blocks in its slot, each at least as new as the writes answered before  *)
(* the read was sent; with it, what was written last is in the buffer      *)
(* being filled, else in the one being flushed, else in the FTL.  Below    *)
(* the FTL, a page is read as it was last written, from the device or from *)
(* the cache of the parallel unit manager, and a mapping page from its     *)
(* slab.                                                                   *)
AnsweredReadsFresh ==
    /\ part = "front" => Front!AnsweredReadsFresh /\ Front!NewestKept
    /\ part = "pu" => Pu!PagesFresh
    /\ part = "slab" => Slabs!SlabsExact

(* Every request of the kernel is answered, and an FTL that finds every     *)
(* wrapper of the parallel unit manager taken gets one.                    *)
RequestsAnswered ==
    /\ \A i \in Front!Slot : (part = "front" /\ ~slot[i].recv) ~> (part = "front" /\ slot[i].recv)
    /\ (part = "pu" /\ caller # Pu!None) ~> (part = "pu" /\ caller = Pu!None)

(* A benchmark reads back only what it wrote and, where its requests fit,   *)
(* stays in its range; main frees its structures when every request it has *)
(* issued is reaped, with at most two commands of a benchmark, the slack of *)
(* bench_is_finish_n, not yet counted by their completions.                *)
BenchmarkSound == part = "bench" => Bench!ReadsWritten /\ Bench!FreedWhenReaped

(* No wake-up is lost: a client that adds jobs to a pool, waits for them    *)
(* and destroys it always gets through, every plan of benchmarks ends, and  *)
(* so does everything sent to the AIO or the AMF back end.                 *)
DriversEnd ==
    <>(/\ part = "pools" => Pools!ScriptDone
       /\ part = "bench" => Bench!PlanDone
       /\ part = "aio" => Aio!AllEnded
       /\ part = "amf" => Amf!AllIssued)
====
