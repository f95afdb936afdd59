----------------------------- MODULE ThreadPool ------------------------------
(***************************************************************************)
(* The thread pool (include/utils/thpool.c): a queue of jobs, a binary     *)
(* semaphore that says there are some, and workers that wait on it.  The   *)
(* flag threads_keepalive is one for all pools of the program.  One client *)
(* thread works through Script, a sequence of [op |-> ..., p |-> pool], the *)
(* way the program uses its pools: design_knob makes, uses and destroys one *)
(* while the LSM tree is being sized, and the flush thread has another.    *)
(*                                                                         *)
(* thpool_pause and thpool_resume have no effect and no caller: the workers *)
(* block the signal they send.                                             *)
(***************************************************************************)
EXTENDS Integers, Sequences, FiniteSets

CONSTANTS Pool, Threads, Script    \* Threads[p]: the number of workers of p

VARIABLES
    keepalive,   \* threads_keepalive
    pool,        \* per pool: jobs, sem, alive, working, up
    worker,      \* per worker: program counter and job
    client       \* pc: position in Script; at: where in that call; done: jobs run

poolVars == <<keepalive, pool, worker, client>>

Worker == UNION {{p} \X (1 .. Threads[p]) : p \in Pool}
Idle(at) == [at |-> at, job |-> 0]

InitPools ==
    /\ keepalive = 0
    /\ pool = [p \in Pool |-> [jobs |-> <<>>, sem |-> 0, alive |-> 0, working |-> 0, up |-> FALSE]]
    /\ worker = [w \in Worker |-> Idle("off")]
    /\ client = [pc |-> 1, at |-> "call", done |-> <<>>, added |-> [p \in Pool |-> {}]]

-----------------------------------------------------------------------------
(* The client.                                                             *)

Calls(op, p, at) ==
    /\ client.pc \in DOMAIN Script /\ client.at = at
    /\ Script[client.pc] = [op |-> op, p |-> p]
Return(c) == client' = [c EXCEPT !.pc = @ + 1, !.at = "call"]

\* thpool_init: the workers start, the client spins until all are alive.
CallInit(p) ==
    /\ Calls("init", p, "call")
    /\ keepalive' = 1
    /\ pool' = [pool EXCEPT ![p].up = TRUE]
    /\ worker' = [w \in Worker |-> IF w[1] = p THEN Idle("start") ELSE worker[w]]
    /\ client' = [client EXCEPT !.at = "spin"]
InitDone(p) ==
    /\ Calls("init", p, "spin") /\ pool[p].alive = Threads[p]
    /\ Return(client) /\ UNCHANGED <<keepalive, pool, worker>>

\* jobqueue_push, which posts the semaphore under the lock of the queue.
BsemPost(q) == [q EXCEPT !.sem = 1]
Push(q, job) == BsemPost([q EXCEPT !.jobs = Append(@, job)])

\* thpool_add_work; the job is the position in the script.
AddWork(p) ==
    /\ Calls("add", p, "call")
    /\ pool' = [pool EXCEPT ![p] = Push(@, client.pc)]
    /\ Return([client EXCEPT !.added[p] = @ \cup {client.pc}])
    /\ UNCHANGED <<keepalive, worker>>

\* thpool_wait: asleep until the condition is signalled, then it looks again.
BusyIfQueued(p) == pool[p].jobs # <<>>
Busy(p) == BusyIfQueued(p) \/ pool[p].working > 0
Wait(p) ==
    /\ Calls("wait", p, "call")
    /\ IF Busy(p) THEN client' = [client EXCEPT !.at = "asleep"] ELSE Return(client)
    /\ UNCHANGED <<keepalive, pool, worker>>

\* thpool_destroy: the semaphore is posted until every worker has left.
Destroy(p) ==
    /\ Calls("destroy", p, "call")
    /\ keepalive' = 0 /\ client' = [client EXCEPT !.at = "kill"]
    /\ UNCHANGED <<pool, worker>>
PostAll(p) ==
    /\ Calls("destroy", p, "kill") /\ pool[p].alive > 0 /\ pool[p].sem = 0
    /\ pool' = [pool EXCEPT ![p] = BsemPost(@)] /\ UNCHANGED <<keepalive, worker, client>>
\* jobqueue_clear: what is still queued is thrown away.
Cleared(q) == [q EXCEPT !.jobs = <<>>, !.sem = 0, !.up = FALSE]
Destroyed(p) ==
    /\ Calls("destroy", p, "kill") /\ pool[p].alive = 0
    /\ pool' = [pool EXCEPT ![p] = Cleared(@)]
    /\ Return(client) /\ UNCHANGED <<keepalive, worker>>

-----------------------------------------------------------------------------
(* thread_do.                                                              *)

Go(w, at) == worker' = [worker EXCEPT ![w].at = at]

Start(w) ==
    /\ worker[w].at = "start" /\ Go(w, "loop")
    /\ pool' = [pool EXCEPT ![w[1]].alive = @ + 1] /\ UNCHANGED <<keepalive, client>>

Loop(w) ==
    /\ worker[w].at = "loop" /\ Go(w, IF keepalive = 1 THEN "sem" ELSE "leave")
    /\ UNCHANGED <<keepalive, pool, client>>

\* bsem_wait.
SemWait(w) ==
    /\ worker[w].at = "sem" /\ pool[w[1]].sem = 1 /\ Go(w, "woken")
    /\ pool' = [pool EXCEPT ![w[1]].sem = 0] /\ UNCHANGED <<keepalive, client>>

\* A worker that finds the flag down after its wake-up leaves the job alone.
Woken(w) ==
    /\ worker[w].at = "woken"
    /\ IF keepalive = 1
       THEN Go(w, "pull") /\ pool' = [pool EXCEPT ![w[1]].working = @ + 1]
       ELSE Go(w, "loop") /\ UNCHANGED pool
    /\ UNCHANGED <<keepalive, client>>

\* jobqueue_pull: with more jobs behind it the semaphore is posted again.
PullSilently(q) == [q EXCEPT !.jobs = Tail(@)]
Pull(q) == [q EXCEPT !.jobs = Tail(@), !.sem = IF Len(q.jobs) > 1 THEN 1 ELSE @]
PullJob(w) ==
    LET q == pool[w[1]]
    IN /\ worker[w].at = "pull"
       /\ IF q.jobs = <<>> THEN Go(w, "rest") /\ UNCHANGED pool
          ELSE /\ worker' = [worker EXCEPT ![w] = [at |-> "run", job |-> Head(q.jobs)]]
               /\ pool' = [pool EXCEPT ![w[1]] = Pull(q)]
       /\ UNCHANGED <<keepalive, client>>

RunJob(w) ==
    /\ worker[w].at = "run" /\ worker' = [worker EXCEPT ![w] = Idle("rest")]
    /\ client' = [client EXCEPT !.done = Append(@, worker[w].job)]
    /\ UNCHANGED <<keepalive, pool>>

\* The last worker signals threads_all_idle.
Rest(w) ==
    LET p == w[1]
    IN /\ worker[w].at = "rest" /\ Go(w, "loop")
       /\ pool' = [pool EXCEPT ![p].working = @ - 1]
       /\ client' = IF pool[p].working = 1 /\ Calls("wait", p, "asleep")
                    THEN [client EXCEPT !.at = "call"] ELSE client
       /\ UNCHANGED keepalive

Leave(w) ==
    /\ worker[w].at = "leave" /\ Go(w, "off")
    /\ pool' = [pool EXCEPT ![w[1]].alive = @ - 1] /\ UNCHANGED <<keepalive, client>>

Steps(w) == Start(w) \/ Loop(w) \/ SemWait(w) \/ Woken(w) \/ PullJob(w) \/ RunJob(w) \/ Rest(w) \/ Leave(w)
ClientSteps ==
    \E p \in Pool : CallInit(p) \/ InitDone(p) \/ AddWork(p) \/ Wait(p) \/ Destroy(p) \/ PostAll(p) \/ Destroyed(p)
NextPools == (\E w \in Worker : Steps(w)) \/ ClientSteps

-----------------------------------------------------------------------------
\* When thpool_wait has returned, every job added before has been run, once,
\* and none is thrown away by thpool_destroy: what a caller that frees the
\* arguments of its jobs, or reuses a buffer, relies on.
Ran(j) == Cardinality({i \in DOMAIN client.done : client.done[i] = j})
WaitMeansDone ==
    /\ \A j \in DOMAIN Script : Ran(j) <= 1
    /\ \A i \in 1 .. client.pc - 1 : Script[i].op = "wait" =>
          \A j \in 1 .. i : Script[j] = [op |-> "add", p |-> Script[i].p] => Ran(j) = 1

\* The client is never stuck: no wake-up is lost between the semaphore, the
\* queue and the condition, and no worker has left a pool that is still used
\* because another pool was destroyed.
ScriptDone == client.pc = Len(Script) + 1
-----------------------------------------------------------------------------
(* The inductive invariant behind WaitMeansDone.                           *)

\* How the program uses a pool: it makes one that is not there, and destroys it
\* after a wait that follows its last job.
ScriptSound ==
    /\ \A i, k \in DOMAIN Script : k < i /\ Script[i].op = "init" /\ Script[k] = Script[i] =>
          \E m \in k .. i - 1 : Script[m] = [op |-> "destroy", p |-> Script[i].p]
    /\ \A i \in DOMAIN Script : Script[i].op = "destroy" =>
          \E k \in 1 .. i - 1 :
             /\ Script[k] = [op |-> "wait", p |-> Script[i].p]
             /\ \A m \in k .. i - 1 : Script[m] # [op |-> "add", p |-> Script[i].p]

Op == {"init", "add", "wait", "destroy"}
At == {"off", "start", "loop", "sem", "woken", "pull", "run", "rest", "leave"}
Job == DOMAIN Script
PoolRecord == [jobs : Seq(Job), sem : {0, 1}, alive : Nat, working : Nat, up : BOOLEAN]
WorkerRecord == [at : At, job : 0 .. Len(Script)]
PoolTypeOK ==
    /\ keepalive \in {0, 1}
    /\ pool \in [Pool -> PoolRecord]
    /\ worker \in [Worker -> WorkerRecord]
    /\ client \in [pc : 1 .. Len(Script) + 1, at : {"call", "spin", "asleep", "kill"},
                   done : Seq(Job), added : [Pool -> SUBSET Job]]

\* A job is the position of its thpool_add_work in the script.
AddedTo(j, p) == j \in 1 .. client.pc - 1 /\ Script[j] = [op |-> "add", p |-> p]
QueuedAt(j, p) == \E a \in DOMAIN pool[p].jobs : pool[p].jobs[a] = j
RunBy(j, w) == worker[w].at = "run" /\ worker[w].job = j
WasRun(j) == \E i \in DOMAIN client.done : client.done[i] = j

\* A job is in one place: once in the queue, with one worker, or run once.
JobsOnce ==
    /\ \A p \in Pool : \A a, b \in DOMAIN pool[p].jobs : pool[p].jobs[a] = pool[p].jobs[b] => a = b
    /\ \A v, w \in Worker : \A j \in Job : RunBy(j, v) /\ RunBy(j, w) => v = w
    /\ \A a, b \in DOMAIN client.done : client.done[a] = client.done[b] => a = b
    /\ \A p \in Pool : \A j \in Job : QueuedAt(j, p) =>
          AddedTo(j, p) /\ ~WasRun(j) /\ \A w \in Worker : ~RunBy(j, w)
    /\ \A w \in Worker : \A j \in Job : RunBy(j, w) => AddedTo(j, w[1]) /\ ~WasRun(j)
    /\ \A j \in Job : WasRun(j) => j < client.pc
    /\ \A w \in Worker : worker[w].at = "run" => worker[w].job \in Job

\* No job is dropped.
JobsKept ==
    \A p \in Pool : \A j \in Job : AddedTo(j, p) =>
        QueuedAt(j, p) \/ WasRun(j) \/ \E w \in Worker : w[1] = p /\ RunBy(j, w)

\* What thpool_wait has waited for is done.
WaitsDone ==
    \A i \in 1 .. client.pc - 1 : Script[i].op = "wait" =>
        \A j \in 1 .. i : Script[j] = [op |-> "add", p |-> Script[i].p] => WasRun(j)

\* num_threads_working and num_threads_alive count the workers at these lines.
WorkersAt(p, lines) == {w \in Worker : w[1] = p /\ worker[w].at \in lines}
AtJob == {"pull", "run", "rest"}
Alive == {"loop", "sem", "woken", "pull", "run", "rest", "leave"}
CountsExact ==
    \A p \in Pool : /\ pool[p].working = Cardinality(WorkersAt(p, AtJob))
                    /\ pool[p].alive = Cardinality(WorkersAt(p, Alive))

\* Workers start only inside thpool_init, and a pool that is not up has none.
WorkersOwned ==
    /\ \A w \in Worker : worker[w].at = "start" => Calls("init", w[1], "spin")
    /\ \A w \in Worker : ~pool[w[1]].up => worker[w].at = "off"
    /\ \A p \in Pool : pool[p].up =>
          \E k \in (1 .. client.pc) \cap DOMAIN Script :
             /\ Script[k] = [op |-> "init", p |-> p]
             /\ k = client.pc => client.at = "spin"
             /\ \A m \in k .. client.pc - 1 : Script[m] # [op |-> "destroy", p |-> p]

PoolInv == PoolTypeOK /\ JobsOnce /\ JobsKept /\ WaitsDone /\ CountsExact /\ WorkersOwned
=============================================================================
