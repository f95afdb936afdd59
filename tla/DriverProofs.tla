--------------------------- MODULE DriverProofs ---------------------------
(***************************************************************************)
(* Theorems about what drives the FTLs: the thread pool, for every script  *)
(* and number of threads, and the benchmark driver, for every plan it can  *)
(* run and every number of requests in flight.                             *)
(***************************************************************************)
EXTENDS MCFrontEnd, FiniteSetTheorems, SequenceTheorems, FunctionTheorems, TLAPS

-----------------------------------------------------------------------------
(* The thread pool.                                                        *)

\* The thread pool counts with the Cardinality of FiniteSets.
LEMMA PoolCardinality == \A S : Pools!Cardinality(S) = Cardinality(S)
BY DEF Pools!Cardinality, Cardinality

\* Every entry of the script is a call on a pool.
LEMMA ScriptType ==
    /\ Len(Script) \in Nat /\ Pools!Job = 1 .. Len(Script)
    /\ \A i \in Pools!Job : Script[i].op \in Pools!Op /\ Script[i].p \in Pool
<1>1. Script \in Seq([op : Pools!Op, p : Pool])
  BY PoolAssumption
<1>2. Len(Script) \in Nat /\ DOMAIN Script = 1 .. Len(Script)
  BY <1>1, LenProperties
<1>3. \A i \in 1 .. Len(Script) : Script[i] \in [op : Pools!Op, p : Pool]
  BY <1>1, ElementOfSeq
<1> QED  BY <1>2, <1>3 DEF Pools!Job

\* The workers of a pool are finitely many: Threads[p].
LEMMA WorkersFinite ==
    ASSUME NEW p \in Pool
    PROVE  /\ IsFiniteSet({w \in Pools!Worker : w[1] = p})
           /\ Cardinality({w \in Pools!Worker : w[1] = p}) = Threads[p]
<1> DEFINE W == {w \in Pools!Worker : w[1] = p}
           f == [i \in 1 .. Threads[p] |-> <<p, i>>]
<1>1. Threads[p] \in Nat
  BY PoolAssumption
<1>2. W = {p} \X (1 .. Threads[p])
  BY DEF Pools!Worker
<1>3. f \in Bijection(1 .. Threads[p], W)
  BY <1>2 DEF Bijection, Injection, Surjection, IsInjective
<1>4. IsFiniteSet(1 .. Threads[p]) /\ Cardinality(1 .. Threads[p]) = Threads[p]
  BY <1>1, FS_Interval
<1> HIDE DEF f, W
<1> QED  BY <1>3, <1>4, FS_Bijection DEF ExistsBijection, W

\* thpool_init has not been called.
LEMMA PoolsInit ==
    ASSUME Pools!InitPools
    PROVE  Pools!PoolInv
<1>1. client.pc = 1 /\ client.at = "call" /\ client.done = <<>>
  BY DEF Pools!InitPools
<1>2. Pools!PoolTypeOK
  <2>1. [jobs |-> <<>>, sem |-> 0, alive |-> 0, working |-> 0, up |-> FALSE] \in Pools!PoolRecord
    BY EmptySeq DEF Pools!PoolRecord
  <2>2. Pools!Idle("off") \in Pools!WorkerRecord
    BY ScriptType DEF Pools!WorkerRecord, Pools!Idle, Pools!At
  <2> QED  BY <2>1, <2>2, ScriptType, EmptySeq DEF Pools!InitPools, Pools!PoolTypeOK
<1>3. Pools!JobsOnce /\ Pools!JobsKept /\ Pools!WaitsDone
  BY <1>1 DEF Pools!InitPools, Pools!JobsOnce, Pools!JobsKept, Pools!WaitsDone, Pools!AddedTo, Pools!QueuedAt,
      Pools!RunBy, Pools!WasRun, Pools!Idle
<1>4. Pools!CountsExact
  <2> SUFFICES ASSUME NEW p \in Pool
               PROVE  pool[p].working = Cardinality(Pools!WorkersAt(p, Pools!AtJob))
                      /\ pool[p].alive = Cardinality(Pools!WorkersAt(p, Pools!Alive))
    BY PoolCardinality DEF Pools!CountsExact
  <2>1. Pools!WorkersAt(p, Pools!AtJob) = {} /\ Pools!WorkersAt(p, Pools!Alive) = {}
    BY DEF Pools!InitPools, Pools!WorkersAt, Pools!AtJob, Pools!Alive, Pools!Idle
  <2> QED  BY <2>1, FS_EmptySet, PoolCardinality DEF Pools!InitPools
<1>5. Pools!WorkersOwned
  <2>1. \A w \in Pools!Worker : w[1] \in Pool
    BY DEF Pools!Worker
  <2> QED  BY <2>1 DEF Pools!InitPools, Pools!WorkersOwned, Pools!Idle
<1> QED  BY <1>2, <1>3, <1>4, <1>5 DEF Pools!PoolInv

\* One worker goes from one line of thread_do to another: the numbers of workers
\* at any lines of a pool follow.
LEMMA CountMove ==
    ASSUME NEW w \in Pools!Worker, NEW p \in Pool, NEW lines,
           \A v \in Pools!Worker \ {w} : worker'[v].at = worker[v].at
    PROVE  /\ Cardinality(Pools!WorkersAt(p, lines)) \in Nat
           /\ (w[1] # p \/ (worker[w].at \in lines <=> worker'[w].at \in lines)) =>
                 Cardinality(Pools!WorkersAt(p, lines)') = Cardinality(Pools!WorkersAt(p, lines))
           /\ w[1] = p /\ worker[w].at \notin lines /\ worker'[w].at \in lines =>
                 Cardinality(Pools!WorkersAt(p, lines)') = Cardinality(Pools!WorkersAt(p, lines)) + 1
           /\ w[1] = p /\ worker[w].at \in lines /\ worker'[w].at \notin lines =>
                 /\ Cardinality(Pools!WorkersAt(p, lines)) > 0
                 /\ Cardinality(Pools!WorkersAt(p, lines)') = Cardinality(Pools!WorkersAt(p, lines)) - 1
<1> DEFINE S == {v \in Pools!Worker : v[1] = p /\ worker[v].at \in lines}
           T == {v \in Pools!Worker : v[1] = p /\ worker'[v].at \in lines}
<1>1. Pools!WorkersAt(p, lines) = S /\ Pools!WorkersAt(p, lines)' = T
  BY DEF Pools!WorkersAt
<1>2. IsFiniteSet(S) /\ IsFiniteSet(T)
  <2>1. S \subseteq {v \in Pools!Worker : v[1] = p} /\ T \subseteq {v \in Pools!Worker : v[1] = p}
    OBVIOUS
  <2> QED  BY <2>1, WorkersFinite, FS_Subset
<1>3. (w[1] # p \/ (worker[w].at \in lines <=> worker'[w].at \in lines)) => T = S
  OBVIOUS
<1>4. w[1] = p /\ worker[w].at \notin lines /\ worker'[w].at \in lines => T = S \cup {w} /\ w \notin S
  OBVIOUS
<1>5. w[1] = p /\ worker[w].at \in lines /\ worker'[w].at \notin lines => T = S \ {w} /\ w \in S
  OBVIOUS
<1> HIDE DEF S, T
<1>6. Cardinality(S) \in Nat /\ Cardinality(T) \in Nat
  BY <1>2, FS_CardinalityType
<1>7. w \notin S => Cardinality(S \cup {w}) = Cardinality(S) + 1
  BY <1>2, FS_AddElement
<1>8. w \in S => Cardinality(S \ {w}) = Cardinality(S) - 1
  BY <1>2, FS_RemoveElement
<1>9. w \in S => Cardinality(S) > 0
  BY <1>2, <1>6, FS_EmptySet
<1> QED  BY <1>1, <1>3, <1>4, <1>5, <1>6, <1>7, <1>8, <1>9

\* Nothing moves.
LEMMA CountStays ==
    ASSUME NEW p \in Pool, NEW lines, \A v \in Pools!Worker : worker'[v].at = worker[v].at
    PROVE  Cardinality(Pools!WorkersAt(p, lines)') = Cardinality(Pools!WorkersAt(p, lines))
<1>1. Pools!WorkersAt(p, lines)' = Pools!WorkersAt(p, lines)
  BY DEF Pools!WorkersAt
<1> QED  BY <1>1

\* The queues, the jobs being run and the jobs added stay as they are.
QueuesSame == \A p \in Pool : pool'[p].jobs = pool[p].jobs
RunsSame ==
    \A w \in Pools!Worker : /\ worker'[w].at = "run" <=> worker[w].at = "run"
                            /\ worker[w].at = "run" => worker'[w].job = worker[w].job
AddsSame == \A p \in Pool : \A j \in Pools!Job : Pools!AddedTo(j, p)' <=> Pools!AddedTo(j, p)

\* A call or a thread's step that leaves the queues, the jobs in the threads' hands
\* and the jobs added as they are keeps every job in its one place.
LEMMA JobsStay ==
    ASSUME Pools!PoolTypeOK, Pools!JobsOnce, Pools!JobsKept, QueuesSame, RunsSame, AddsSame,
           client'.done = client.done, client'.pc \in Nat, client'.pc >= client.pc
    PROVE  Pools!JobsOnce' /\ Pools!JobsKept'
<1>1. \A p \in Pool : \A j \in Pools!Job : Pools!QueuedAt(j, p)' <=> Pools!QueuedAt(j, p)
  BY DEF Pools!QueuedAt, QueuesSame
<1>2. \A w \in Pools!Worker : \A j \in Pools!Job : Pools!RunBy(j, w)' <=> Pools!RunBy(j, w)
  BY DEF Pools!RunBy, RunsSame
<1>3. \A j \in Pools!Job : Pools!WasRun(j)' <=> Pools!WasRun(j)
  BY DEF Pools!WasRun
<1>4. \A w \in Pools!Worker : w[1] \in Pool
  BY DEF Pools!Worker
<1>5. \A j \in Pools!Job : Pools!WasRun(j)' => j < client'.pc
  <2>1. \A j \in Pools!Job : Pools!WasRun(j) => j < client.pc
    BY DEF Pools!JobsOnce
  <2> QED  BY <2>1, <1>3, ScriptType DEF Pools!PoolTypeOK
<1>6. \A p \in Pool : \A a, b \in DOMAIN pool'[p].jobs : pool'[p].jobs[a] = pool'[p].jobs[b] => a = b
  BY DEF Pools!JobsOnce, QueuesSame
<1>7. \A a, b \in DOMAIN client'.done : client'.done[a] = client'.done[b] => a = b
  BY DEF Pools!JobsOnce
<1>8. \A w \in Pools!Worker : worker'[w].at = "run" => worker'[w].job \in Pools!Job
  BY DEF Pools!JobsOnce, RunsSame
<1>9. \A v, w \in Pools!Worker : \A j \in Pools!Job : Pools!RunBy(j, v)' /\ Pools!RunBy(j, w)' => v = w
  BY <1>2 DEF Pools!JobsOnce
<1>10. \A p \in Pool : \A j \in Pools!Job : Pools!QueuedAt(j, p)' =>
          Pools!AddedTo(j, p)' /\ ~Pools!WasRun(j)' /\ \A w \in Pools!Worker : ~Pools!RunBy(j, w)'
  BY <1>1, <1>2, <1>3 DEF Pools!JobsOnce, AddsSame
<1>11. \A w \in Pools!Worker : \A j \in Pools!Job : Pools!RunBy(j, w)' => Pools!AddedTo(j, w[1])' /\ ~Pools!WasRun(j)'
  BY <1>2, <1>3, <1>4 DEF Pools!JobsOnce, AddsSame
<1>12. Pools!JobsOnce'
  BY <1>5, <1>6, <1>7, <1>8, <1>9, <1>10, <1>11 DEF Pools!JobsOnce, Pools!Job, Pools!Worker
<1>13. Pools!JobsKept'
  BY <1>1, <1>2, <1>3 DEF Pools!JobsKept, AddsSame, Pools!Job, Pools!Worker
<1> QED  BY <1>12, <1>13

\* No call of thpool_wait returns, and no job run is forgotten.
LEMMA WaitsStay ==
    ASSUME Pools!PoolTypeOK, Pools!WaitsDone,
           \A j \in Pools!Job : Pools!WasRun(j) => Pools!WasRun(j)',
           \/ client'.pc = client.pc
           \/ client'.pc = client.pc + 1 /\ Script[client.pc].op # "wait"
    PROVE  Pools!WaitsDone'
<1> SUFFICES ASSUME NEW i \in 1 .. client'.pc - 1, Script[i].op = "wait",
                    NEW j \in 1 .. i, Script[j] = [op |-> "add", p |-> Script[i].p]
             PROVE  Pools!WasRun(j)'
  BY DEF Pools!WaitsDone
<1>1. client.pc \in 1 .. Len(Script) + 1 /\ Len(Script) \in Nat
  BY ScriptType DEF Pools!PoolTypeOK
<1>2. i # client.pc
  OBVIOUS
<1>3. i \in 1 .. client.pc - 1
  BY <1>1, <1>2
<1>4. j \in Pools!Job
  BY <1>1, <1>3, ScriptType
<1> QED  BY <1>3, <1>4 DEF Pools!WaitsDone

\* The client stays in its call, or leaves one that neither makes nor destroys a
\* pool: the pools that are up stay so.
LEMMA UpStays ==
    ASSUME Pools!PoolTypeOK, Pools!WorkersOwned, NEW p \in Pool, pool[p].up,
           \/ client'.pc = client.pc /\ (Pools!Calls("init", p, "spin") => client'.at = client.at)
           \/ /\ client'.pc = client.pc + 1 /\ client.pc \in DOMAIN Script
              /\ Script[client.pc] # [op |-> "destroy", p |-> p]
    PROVE  \E k \in (1 .. client'.pc) \cap DOMAIN Script :
             /\ Script[k] = [op |-> "init", p |-> p]
             /\ k = client'.pc => client'.at = "spin"
             /\ \A m \in k .. client'.pc - 1 : Script[m] # [op |-> "destroy", p |-> p]
<1>1. PICK k \in (1 .. client.pc) \cap DOMAIN Script :
             /\ Script[k] = [op |-> "init", p |-> p]
             /\ k = client.pc => client.at = "spin"
             /\ \A m \in k .. client.pc - 1 : Script[m] # [op |-> "destroy", p |-> p]
  BY DEF Pools!WorkersOwned
<1>2. client.pc \in Nat /\ k \in Nat
  BY <1>1, ScriptType DEF Pools!PoolTypeOK
<1>3. CASE client'.pc = client.pc /\ (Pools!Calls("init", p, "spin") => client'.at = client.at)
  <2>1. k = client.pc => client'.at = "spin"
    BY <1>1, <1>3 DEF Pools!Calls
  <2> QED  BY <2>1, <1>1, <1>3
<1>4. CASE /\ client'.pc = client.pc + 1 /\ client.pc \in DOMAIN Script
           /\ Script[client.pc] # [op |-> "destroy", p |-> p]
  <2>1. k \in 1 .. client'.pc /\ k # client'.pc
    BY <1>1, <1>2, <1>4
  <2>2. \A m \in k .. client'.pc - 1 : Script[m] # [op |-> "destroy", p |-> p]
    BY <1>1, <1>2, <1>4
  <2> QED  BY <2>1, <2>2, <1>1
<1> QED  BY <1>3, <1>4

\* A worker belongs to a pool; the records of a pool, a worker and the client.
LEMMA PoolShape ==
    ASSUME Pools!PoolTypeOK
    PROVE  /\ \A w \in Pools!Worker : w[1] \in Pool /\ worker[w] \in Pools!WorkerRecord
           /\ \A p \in Pool : pool[p] \in Pools!PoolRecord
           /\ client.pc \in 1 .. Len(Script) + 1 /\ client.pc \in Nat
           /\ client.at \in {"call", "spin", "asleep", "kill"} /\ client.done \in Seq(Pools!Job)
           /\ client.added \in [Pool -> SUBSET Pools!Job]
           /\ client = [pc |-> client.pc, at |-> client.at, done |-> client.done, added |-> client.added]
<1>1. \A w \in Pools!Worker : w[1] \in Pool
  BY DEF Pools!Worker
<1>2. Len(Script) \in Nat
  BY ScriptType
<1> QED  BY <1>1, <1>2 DEF Pools!PoolTypeOK, Pools!Job

\* A step of a worker keeps the ownership of the workers, whatever it does to
\* the queue.
LEMMA OwnedStay ==
    ASSUME Pools!PoolTypeOK, Pools!WorkersOwned, NEW w \in Pools!Worker,
           worker[w].at # "off", worker'[w].at # "start",
           \A v \in Pools!Worker \ {w} : worker'[v].at = worker[v].at,
           \A r \in Pool : pool'[r].up = pool[r].up,
           client'.pc = client.pc, client.at = "spin" => client'.at = "spin"
    PROVE  Pools!WorkersOwned'
<1>1. \A v \in Pools!Worker : worker'[v].at = "start" => Pools!Calls("init", v[1], "spin")'
  BY DEF Pools!WorkersOwned, Pools!Calls
<1>2. ASSUME NEW v \in Pools!Worker, ~pool'[v[1]].up
      PROVE  worker'[v].at = "off"
  <2>1. v[1] \in Pool /\ w[1] \in Pool
    BY PoolShape
  <2>2. ~pool[v[1]].up
    BY <2>1, <1>2
  <2>3. v # w /\ worker[v].at = "off"
    BY <2>2 DEF Pools!WorkersOwned
  <2> QED  BY <2>3
<1>3. ASSUME NEW r \in Pool, pool'[r].up
      PROVE  \E k \in (1 .. client'.pc) \cap DOMAIN Script :
               /\ Script[k] = [op |-> "init", p |-> r]
               /\ k = client'.pc => client'.at = "spin"
               /\ \A m \in k .. client'.pc - 1 : Script[m] # [op |-> "destroy", p |-> r]
  BY <1>3, UpStays DEF Pools!Calls
<1> QED  BY <1>1, <1>2, <1>3 DEF Pools!WorkersOwned, Pools!Worker

\* The workers stay where they are: so do the counts.
LEMMA CountsSame ==
    ASSUME Pools!CountsExact, worker' = worker,
           \A r \in Pool : pool'[r].working = pool[r].working /\ pool'[r].alive = pool[r].alive
    PROVE  Pools!CountsExact'
<1> SUFFICES ASSUME NEW r \in Pool
             PROVE  /\ pool'[r].working = Cardinality(Pools!WorkersAt(r, Pools!AtJob)')
                    /\ pool'[r].alive = Cardinality(Pools!WorkersAt(r, Pools!Alive)')
  BY PoolCardinality DEF Pools!CountsExact, Pools!AtJob, Pools!Alive, Pools!WorkersAt
<1>1. /\ Pools!WorkersAt(r, Pools!AtJob)' = Pools!WorkersAt(r, Pools!AtJob)
      /\ Pools!WorkersAt(r, Pools!Alive)' = Pools!WorkersAt(r, Pools!Alive)
  BY DEF Pools!WorkersAt, Pools!AtJob, Pools!Alive
<1> QED  BY <1>1, PoolCardinality DEF Pools!CountsExact

\* A worker stays among those that are at a job, or are not: so do the counts.
LEMMA CountsStay ==
    ASSUME Pools!CountsExact, NEW w \in Pools!Worker,
           \A v \in Pools!Worker \ {w} : worker'[v].at = worker[v].at,
           worker[w].at \in Pools!AtJob <=> worker'[w].at \in Pools!AtJob,
           worker[w].at \in Pools!Alive <=> worker'[w].at \in Pools!Alive,
           \A r \in Pool : pool'[r].working = pool[r].working /\ pool'[r].alive = pool[r].alive
    PROVE  Pools!CountsExact'
<1> SUFFICES ASSUME NEW r \in Pool
             PROVE  /\ pool'[r].working = Cardinality(Pools!WorkersAt(r, Pools!AtJob)')
                    /\ pool'[r].alive = Cardinality(Pools!WorkersAt(r, Pools!Alive)')
  BY PoolCardinality DEF Pools!CountsExact, Pools!AtJob, Pools!Alive, Pools!WorkersAt
<1>1. /\ Cardinality(Pools!WorkersAt(r, Pools!AtJob)') = Cardinality(Pools!WorkersAt(r, Pools!AtJob))
      /\ Cardinality(Pools!WorkersAt(r, Pools!Alive)') = Cardinality(Pools!WorkersAt(r, Pools!Alive))
  BY CountMove
<1> QED  BY <1>1, PoolCardinality DEF Pools!CountsExact

\* The steps of a worker that leave the queue and the script alone: start, loop,
\* bsem_wait, the look at the flag, and leaving.
LEMMA WorkerSteps ==
    ASSUME Pools!PoolInv, NEW w \in Pools!Worker,
           Pools!Start(w) \/ Pools!Loop(w) \/ Pools!SemWait(w) \/ Pools!Woken(w) \/ Pools!Leave(w)
    PROVE  Pools!PoolInv'
<1> DEFINE p == w[1]
<1>0. Pools!PoolTypeOK /\ Pools!CountsExact /\ Pools!WorkersOwned /\ p \in Pool
  BY PoolShape DEF Pools!PoolInv
<1>1. client' = client /\ keepalive' = keepalive
  BY DEF Pools!Start, Pools!Loop, Pools!SemWait, Pools!Woken, Pools!Leave
<1>2. PICK new \in Pools!At :
          /\ worker' = [worker EXCEPT ![w].at = new]
          /\ worker[w].at \in {"start", "loop", "sem", "woken", "leave"}
          /\ new \in {"loop", "sem", "leave", "woken", "pull", "off"}
          /\ new = "off" <=> worker[w].at = "leave"
          /\ new = "pull" => worker[w].at = "woken"
          /\ new = "pull" <=> (worker[w].at = "woken" /\ keepalive = 1)
  BY DEF Pools!Start, Pools!Loop, Pools!SemWait, Pools!Woken, Pools!Leave, Pools!Go, Pools!At
<1>3. /\ worker[w].at = "start" => pool' = [pool EXCEPT ![p].alive = @ + 1]
      /\ worker[w].at = "loop" => pool' = pool
      /\ worker[w].at = "sem" => pool' = [pool EXCEPT ![p].sem = 0]
      /\ worker[w].at = "woken" => pool' = IF keepalive = 1 THEN [pool EXCEPT ![p].working = @ + 1] ELSE pool
      /\ worker[w].at = "leave" => pool' = [pool EXCEPT ![p].alive = @ - 1]
  BY DEF Pools!Start, Pools!Loop, Pools!SemWait, Pools!Woken, Pools!Leave, Pools!Go
<1>4. /\ \A v \in Pools!Worker \ {w} : worker'[v] = worker[v]
      /\ worker'[w].at = new /\ worker'[w].job = worker[w].job
      /\ worker' \in [Pools!Worker -> Pools!WorkerRecord]
  BY <1>0, <1>2 DEF Pools!PoolTypeOK, Pools!WorkerRecord
<1>5. \A q \in Pool : /\ Cardinality(Pools!WorkersAt(q, Pools!AtJob)) = pool[q].working
                      /\ Cardinality(Pools!WorkersAt(q, Pools!Alive)) = pool[q].alive
                      /\ pool[q].working \in Nat /\ pool[q].alive \in Nat
  BY <1>0, PoolShape, PoolCardinality DEF Pools!CountsExact, Pools!PoolRecord
<1>6. worker[w].at = "leave" => pool[p].alive > 0
  BY <1>0, <1>2, <1>4, <1>5, CountMove DEF Pools!Alive
<1>7. /\ \A q \in Pool : pool'[q].jobs = pool[q].jobs /\ pool'[q].up = pool[q].up
      /\ \A q \in Pool : pool'[q] \in Pools!PoolRecord
      /\ \A q \in Pool : pool'[q].working = IF q = p /\ new = "pull" THEN pool[q].working + 1 ELSE pool[q].working
      /\ \A q \in Pool : pool'[q].alive = IF q # p THEN pool[q].alive ELSE
              IF worker[w].at = "start" THEN pool[q].alive + 1 ELSE
              IF worker[w].at = "leave" THEN pool[q].alive - 1 ELSE pool[q].alive
  <2>1. DOMAIN pool = Pool
    BY <1>0 DEF Pools!PoolTypeOK
  <2> SUFFICES ASSUME NEW q \in Pool
               PROVE  /\ pool'[q].jobs = pool[q].jobs /\ pool'[q].up = pool[q].up
                      /\ pool'[q] \in Pools!PoolRecord
                      /\ pool'[q].working = IF q = p /\ new = "pull" THEN pool[q].working + 1 ELSE pool[q].working
                      /\ pool'[q].alive = IF q # p THEN pool[q].alive ELSE
                             IF worker[w].at = "start" THEN pool[q].alive + 1 ELSE
                             IF worker[w].at = "leave" THEN pool[q].alive - 1 ELSE pool[q].alive
    OBVIOUS
  <2>2. pool[q] \in Pools!PoolRecord
    BY <1>0, PoolShape
  <2>3. /\ q # p \/ pool' = pool => pool'[q] = pool[q]
        /\ q = p /\ worker[w].at = "start" => pool'[q] = [pool[q] EXCEPT !.alive = @ + 1]
        /\ q = p /\ worker[w].at = "sem" => pool'[q] = [pool[q] EXCEPT !.sem = 0]
        /\ q = p /\ worker[w].at = "woken" /\ keepalive = 1 => pool'[q] = [pool[q] EXCEPT !.working = @ + 1]
        /\ q = p /\ worker[w].at = "leave" => pool'[q] = [pool[q] EXCEPT !.alive = @ - 1]
    BY <2>1, <1>2, <1>3
  <2>4. worker[w].at = "loop" \/ (worker[w].at = "woken" /\ keepalive # 1) => pool' = pool
    BY <1>3
  <2>5. CASE q # p \/ pool' = pool
    BY <2>2, <2>3, <2>5, <1>2, <1>3, <1>6 DEF Pools!PoolRecord
  <2>6. CASE q = p /\ worker[w].at = "start"
    BY <2>2, <2>3, <2>6, <1>2 DEF Pools!PoolRecord
  <2>7. CASE q = p /\ worker[w].at = "sem"
    BY <2>2, <2>3, <2>7, <1>2 DEF Pools!PoolRecord
  <2>8. CASE q = p /\ worker[w].at = "woken" /\ keepalive = 1
    BY <2>2, <2>3, <2>8, <1>2 DEF Pools!PoolRecord
  <2>9. CASE q = p /\ worker[w].at = "leave"
    BY <2>2, <2>3, <2>9, <1>2, <1>6 DEF Pools!PoolRecord
  <2> QED  BY <2>4, <2>5, <2>6, <2>7, <2>8, <2>9, <1>2
<1>8. Pools!PoolTypeOK'
  <2>1. pool' \in [Pool -> Pools!PoolRecord]
    <3>1. DOMAIN pool' = Pool /\ pool' = [q \in Pool |-> pool'[q]]
      BY <1>0, <1>2, <1>3 DEF Pools!PoolTypeOK
    <3> QED  BY <3>1, <1>7
  <2> QED  BY <2>1, <1>0, <1>1, <1>4 DEF Pools!PoolTypeOK, Pools!Job
<1>9. Pools!JobsOnce' /\ Pools!JobsKept'
  <2>1. QueuesSame
    BY <1>7 DEF QueuesSame
  <2>2. RunsSame
    BY <1>2, <1>4 DEF RunsSame
  <2>3. AddsSame
    BY <1>1 DEF AddsSame, Pools!AddedTo
  <2> QED  BY <2>1, <2>2, <2>3, <1>0, <1>1, JobsStay, PoolShape DEF Pools!PoolInv
<1>10. Pools!WaitsDone'
  BY <1>0, <1>1, WaitsStay DEF Pools!PoolInv, Pools!WasRun
<1>11. Pools!CountsExact'
  <2> SUFFICES ASSUME NEW q \in Pool
               PROVE  /\ pool'[q].working = Cardinality(Pools!WorkersAt(q, Pools!AtJob)')
                      /\ pool'[q].alive = Cardinality(Pools!WorkersAt(q, Pools!Alive)')
    BY PoolCardinality DEF Pools!CountsExact, Pools!AtJob, Pools!Alive, Pools!WorkersAt
  <2>1. \A v \in Pools!Worker \ {w} : worker'[v].at = worker[v].at
    BY <1>4
  <2>2. pool'[q].working = Cardinality(Pools!WorkersAt(q, Pools!AtJob)')
    <3>1. worker[w].at \notin Pools!AtJob /\ (new \in Pools!AtJob <=> new = "pull")
      BY <1>2 DEF Pools!AtJob
    <3>2. pool'[q].working = IF q = p /\ new = "pull" THEN pool[q].working + 1 ELSE pool[q].working
      BY <1>7
    <3> QED  BY <3>1, <3>2, <2>1, <1>4, <1>5, CountMove
  <2>3. pool'[q].alive = Cardinality(Pools!WorkersAt(q, Pools!Alive)')
    <3>1. /\ worker[w].at \in Pools!Alive <=> worker[w].at # "start"
          /\ new \in Pools!Alive <=> worker[w].at # "leave"
      BY <1>2 DEF Pools!Alive
    <3>2. pool'[q].alive = IF q # p THEN pool[q].alive ELSE
              IF worker[w].at = "start" THEN pool[q].alive + 1 ELSE
              IF worker[w].at = "leave" THEN pool[q].alive - 1 ELSE pool[q].alive
      BY <1>7
    <3> QED  BY <3>1, <3>2, <2>1, <1>4, <1>5, CountMove
  <2> QED  BY <2>2, <2>3
<1>12. Pools!WorkersOwned'
  <2>1. worker[w].at # "off" /\ worker'[w].at # "start" /\ \A v \in Pools!Worker \ {w} : worker'[v].at = worker[v].at
    BY <1>2, <1>4
  <2> QED  BY <2>1, <1>0, <1>1, <1>7, OwnedStay
<1> QED  BY <1>8, <1>9, <1>10, <1>11, <1>12 DEF Pools!PoolInv

\* What is left of a queue when its first element is taken.
LEMMA TakeHead ==
    ASSUME NEW S, NEW s \in Seq(S), s # <<>>
    PROVE  /\ Tail(s) \in Seq(S) /\ Head(s) \in S /\ Head(s) = s[1] /\ 1 \in DOMAIN s
           /\ Len(s) \in Nat /\ DOMAIN s = 1 .. Len(s)
           /\ \A i \in DOMAIN Tail(s) : i + 1 \in DOMAIN s /\ Tail(s)[i] = s[i + 1]
           /\ \A i \in DOMAIN s \ {1} : i - 1 \in DOMAIN Tail(s) /\ s[i] = Tail(s)[i - 1]
<1>1. Len(s) \in Nat /\ DOMAIN s = 1 .. Len(s) /\ Len(s) > 0
  BY LenProperties, EmptySeq
<1>2. Tail(s) \in Seq(S) /\ Len(Tail(s)) = Len(s) - 1 /\ Head(s) = s[1]
  BY HeadTailProperties
<1>3. DOMAIN Tail(s) = 1 .. Len(s) - 1
  BY <1>1, <1>2, LenProperties
<1>4. \A i \in 1 .. Len(s) - 1 : Tail(s)[i] = s[i + 1]
  BY HeadTailProperties
<1>5. s[1] \in S
  BY <1>1, ElementOfSeq
<1> QED  BY <1>1, <1>2, <1>3, <1>4, <1>5

\* jobqueue_pull: the first job leaves the queue for one worker.
LEMMA PullInv ==
    ASSUME Pools!PoolInv, NEW w \in Pools!Worker, Pools!PullJob(w), pool[w[1]].jobs # <<>>
    PROVE  Pools!PoolInv'
<1> DEFINE p == w[1]
           q == pool[p].jobs
<1>0. Pools!PoolTypeOK /\ Pools!CountsExact /\ Pools!WorkersOwned /\ Pools!JobsOnce /\ Pools!JobsKept /\ p \in Pool
  BY PoolShape DEF Pools!PoolInv
<1>1. client' = client /\ keepalive' = keepalive /\ worker[w].at = "pull"
      /\ worker' = [worker EXCEPT ![w] = [at |-> "run", job |-> Head(q)]]
      /\ pool' = [pool EXCEPT ![p] = Pools!Pull(pool[p])]
  BY DEF Pools!PullJob
<1>2. q \in Seq(Pools!Job) /\ pool[p] \in Pools!PoolRecord /\ q # <<>>
  BY <1>0, PoolShape DEF Pools!PoolRecord
<1>3. PICK s \in {0, 1} : Pools!Pull(pool[p]) = [pool[p] EXCEPT !.jobs = Tail(q), !.sem = s]
  BY <1>2 DEF Pools!Pull, Pools!PoolRecord
<1>4. /\ \A v \in Pools!Worker \ {w} : worker'[v] = worker[v]
      /\ worker'[w] = [at |-> "run", job |-> Head(q)]
      /\ DOMAIN worker' = Pools!Worker /\ worker' = [v \in Pools!Worker |-> worker'[v]]
  BY <1>0, <1>1 DEF Pools!PoolTypeOK
<1>5. /\ \A r \in Pool \ {p} : pool'[r] = pool[r]
      /\ pool'[p] = [pool[p] EXCEPT !.jobs = Tail(q), !.sem = s]
      /\ DOMAIN pool' = Pool /\ pool' = [r \in Pool |-> pool'[r]]
  BY <1>0, <1>1, <1>3 DEF Pools!PoolTypeOK
<1>6. /\ Head(q) \in Pools!Job /\ Tail(q) \in Seq(Pools!Job) /\ Head(q) = q[1] /\ 1 \in DOMAIN q
      /\ \A i \in DOMAIN Tail(q) : i + 1 \in DOMAIN q /\ Tail(q)[i] = q[i + 1]
      /\ \A i \in DOMAIN q \ {1} : i - 1 \in DOMAIN Tail(q) /\ q[i] = Tail(q)[i - 1]
      /\ DOMAIN Tail(q) \subseteq Nat \ {0}
  <2>1. DOMAIN Tail(q) = 1 .. Len(Tail(q)) /\ Len(Tail(q)) \in Nat
    BY <1>2, TakeHead, LenProperties
  <2> QED  BY <2>1, <1>2, TakeHead
<1>18. PICK h \in Pools!Job : h = Head(q)
  BY <1>6
<1>7. Pools!PoolTypeOK'
  <2>1. worker'[w] \in Pools!WorkerRecord
    BY <1>4, <1>6, ScriptType DEF Pools!At, Pools!WorkerRecord
  <2>2. pool'[p] \in Pools!PoolRecord
    BY <1>2, <1>5, <1>6 DEF Pools!PoolRecord
  <2>3. worker' \in [Pools!Worker -> Pools!WorkerRecord]
    BY <2>1, <1>0, <1>1, <1>4 DEF Pools!PoolTypeOK
  <2>4. pool' \in [Pool -> Pools!PoolRecord]
    BY <2>2, <1>0, <1>1, <1>5 DEF Pools!PoolTypeOK
  <2> QED  BY <2>3, <2>4, <1>0, <1>1 DEF Pools!PoolTypeOK
<1>8. \A r \in Pool : /\ pool'[r].jobs = IF r = p THEN Tail(q) ELSE pool[r].jobs
                      /\ pool'[r].up = pool[r].up /\ pool'[r].working = pool[r].working /\ pool'[r].alive = pool[r].alive
  <2>1. /\ pool'[p].jobs = Tail(q) /\ pool'[p].up = pool[p].up
        /\ pool'[p].working = pool[p].working /\ pool'[p].alive = pool[p].alive
    BY <1>2, <1>5 DEF Pools!PoolRecord
  <2> QED  BY <2>1, <1>5
<1>9. /\ \A r \in Pool : \A j \in Pools!Job : Pools!QueuedAt(j, r) <=>
            Pools!QueuedAt(j, r)' \/ (r = p /\ j = h)
      /\ ~Pools!QueuedAt(h, p)'
  <2>1. \A r \in Pool \ {p} : \A j \in Pools!Job : Pools!QueuedAt(j, r)' <=> Pools!QueuedAt(j, r)
    BY <1>8 DEF Pools!QueuedAt
  <2>2. \A j \in Pools!Job : Pools!QueuedAt(j, p)' <=> \E i \in DOMAIN Tail(q) : Tail(q)[i] = j
    BY <1>0, <1>8 DEF Pools!QueuedAt
  <2>3. \A j : Pools!QueuedAt(j, p) <=> \E i \in DOMAIN q : q[i] = j
    BY DEF Pools!QueuedAt
  <2>6. \A a, b \in DOMAIN q : q[a] = q[b] => a = b
    BY <1>0 DEF Pools!JobsOnce
  <2> HIDE DEF q
  <2>4. \A j \in Pools!Job : (\E i \in DOMAIN q : q[i] = j) <=> ((\E i \in DOMAIN Tail(q) : Tail(q)[i] = j) \/ j = h)
    BY <1>6, <1>18
  <2>5. ~\E i \in DOMAIN Tail(q) : Tail(q)[i] = h
    <3> SUFFICES ASSUME NEW i \in DOMAIN Tail(q), Tail(q)[i] = h  PROVE FALSE
      OBVIOUS
    <3>1. i + 1 \in DOMAIN q /\ q[i + 1] = q[1] /\ 1 \in DOMAIN q /\ i \in Nat \ {0}
      BY <1>6, <1>18
    <3>2. i + 1 = 1
      BY <3>1, <2>6
    <3> QED  BY <3>1, <3>2
  <2>7. \A j \in Pools!Job : Pools!QueuedAt(j, p) <=> Pools!QueuedAt(j, p)' \/ j = h
    BY <2>2, <2>3, <2>4
  <2>8. ~Pools!QueuedAt(h, p)'
    BY <2>2, <2>5, <1>6, <1>18
  <2> QED  BY <2>1, <2>7, <2>8
<1>10. Pools!AddedTo(h, p) /\ ~Pools!WasRun(h) /\ \A v \in Pools!Worker : ~Pools!RunBy(h, v)
  BY <1>0, <1>6, <1>18, <1>9 DEF Pools!JobsOnce
<1> HIDE DEF q
<1>11. \A v \in Pools!Worker : \A j \in Pools!Job :
          Pools!RunBy(j, v)' <=> Pools!RunBy(j, v) \/ (v = w /\ j = h)
  BY <1>1, <1>4, <1>6, <1>18 DEF Pools!RunBy
<1>12. /\ \A r \in Pool : \A j \in Pools!Job : Pools!AddedTo(j, r)' <=> Pools!AddedTo(j, r)
       /\ \A j \in Pools!Job : Pools!WasRun(j)' <=> Pools!WasRun(j)
  BY <1>1 DEF Pools!AddedTo, Pools!WasRun
<1>13. Pools!JobsOnce'
  <2>1. \A r \in Pool : \A a, b \in DOMAIN pool'[r].jobs : pool'[r].jobs[a] = pool'[r].jobs[b] => a = b
    <3>1. \A a, b \in DOMAIN q : q[a] = q[b] => a = b
      BY <1>0 DEF Pools!JobsOnce, q
    <3>2. \A a, b \in DOMAIN Tail(q) : Tail(q)[a] = Tail(q)[b] => a = b
      <4> SUFFICES ASSUME NEW a \in DOMAIN Tail(q), NEW b \in DOMAIN Tail(q), Tail(q)[a] = Tail(q)[b]
                   PROVE  a = b
        OBVIOUS
      <4>1. a + 1 \in DOMAIN q /\ b + 1 \in DOMAIN q /\ q[a + 1] = q[b + 1]
        BY <1>2, TakeHead DEF q
      <4>2. a \in Int /\ b \in Int
        BY <1>6, <1>18, LenProperties
      <4> QED  BY <3>1, <4>1, <4>2
    <3>3. \A a, b \in DOMAIN pool'[p].jobs : pool'[p].jobs[a] = pool'[p].jobs[b] => a = b
      <4>1. pool'[p].jobs = Tail(q)
        BY <1>0, <1>8
      <4> QED  BY <3>2, <4>1
    <3>4. ASSUME NEW r \in Pool, r # p
          PROVE  \A a, b \in DOMAIN pool'[r].jobs : pool'[r].jobs[a] = pool'[r].jobs[b] => a = b
      <4>1. pool'[r].jobs = pool[r].jobs
        BY <3>4, <1>8
      <4> QED  BY <4>1, <1>0 DEF Pools!JobsOnce
    <3> QED  BY <3>3, <3>4
  <2>2. \A v, x \in Pools!Worker : \A j \in Pools!Job : Pools!RunBy(j, v)' /\ Pools!RunBy(j, x)' => v = x
    BY <1>0, <1>10, <1>11 DEF Pools!JobsOnce
  <2>3. \A r \in Pool : \A j \in Pools!Job : Pools!QueuedAt(j, r)' =>
          Pools!AddedTo(j, r)' /\ ~Pools!WasRun(j)' /\ \A v \in Pools!Worker : ~Pools!RunBy(j, v)'
    <3> SUFFICES ASSUME NEW r \in Pool, NEW j \in Pools!Job, Pools!QueuedAt(j, r)'
                 PROVE  Pools!AddedTo(j, r)' /\ ~Pools!WasRun(j)' /\ \A v \in Pools!Worker : ~Pools!RunBy(j, v)'
      OBVIOUS
    <3>1. Pools!AddedTo(j, r) /\ ~Pools!WasRun(j) /\ \A v \in Pools!Worker : ~Pools!RunBy(j, v)
      BY <1>0, <1>9 DEF Pools!JobsOnce
    <3>2. j # h
      <4> SUFFICES ASSUME j = h  PROVE FALSE
        OBVIOUS
      <4>1. r = p
        BY <3>1, <1>10 DEF Pools!AddedTo
      <4> QED  BY <4>1, <1>9
    <3> QED  BY <3>1, <3>2, <1>11, <1>12
  <2>4. \A v \in Pools!Worker : \A j \in Pools!Job : Pools!RunBy(j, v)' => Pools!AddedTo(j, v[1])' /\ ~Pools!WasRun(j)'
    <3>1. \A v \in Pools!Worker : v[1] \in Pool
      BY <1>0, PoolShape
    <3> QED  BY <3>1, <1>0, <1>10, <1>11, <1>12 DEF Pools!JobsOnce
  <2>5. /\ \A j \in Pools!Job : Pools!WasRun(j)' => j < client'.pc
        /\ \A a, b \in DOMAIN client'.done : client'.done[a] = client'.done[b] => a = b
    BY <1>0, <1>1, <1>12 DEF Pools!JobsOnce
  <2>6. \A v \in Pools!Worker : worker'[v].at = "run" => worker'[v].job \in Pools!Job
    BY <1>0, <1>4, <1>6, <1>18 DEF Pools!JobsOnce
  <2> QED  BY <2>1, <2>2, <2>3, <2>4, <2>5, <2>6 DEF Pools!JobsOnce, Pools!Job, Pools!Worker
<1>14. Pools!JobsKept'
  <2> SUFFICES ASSUME NEW r \in Pool, NEW j \in Pools!Job, Pools!AddedTo(j, r)'
               PROVE  Pools!QueuedAt(j, r)' \/ Pools!WasRun(j)' \/ \E v \in Pools!Worker : v[1] = r /\ Pools!RunBy(j, v)'
    BY DEF Pools!JobsKept, Pools!Job, Pools!Worker
  <2>1. Pools!QueuedAt(j, r) \/ Pools!WasRun(j) \/ \E v \in Pools!Worker : v[1] = r /\ Pools!RunBy(j, v)
    BY <1>0, <1>12 DEF Pools!JobsKept
  <2> QED  BY <2>1, <1>9, <1>11, <1>12
<1>15. Pools!WaitsDone'
  BY <1>0, <1>1, WaitsStay DEF Pools!PoolInv, Pools!WasRun
<1>16. Pools!CountsExact'
  <2>1. /\ worker[w].at \in Pools!AtJob <=> worker'[w].at \in Pools!AtJob
        /\ worker[w].at \in Pools!Alive <=> worker'[w].at \in Pools!Alive
    BY <1>1, <1>4 DEF Pools!AtJob, Pools!Alive
  <2> QED  BY <2>1, <1>0, <1>4, <1>8, CountsStay
<1>17. Pools!WorkersOwned'
  BY <1>0, <1>1, <1>4, <1>8, OwnedStay
<1> QED  BY <1>7, <1>13, <1>14, <1>15, <1>16, <1>17 DEF Pools!PoolInv

\* jobqueue_pull on an empty queue.
LEMMA PullNothing ==
    ASSUME Pools!PoolInv, NEW w \in Pools!Worker, Pools!PullJob(w), pool[w[1]].jobs = <<>>
    PROVE  Pools!PoolInv'
<1>0. Pools!PoolTypeOK /\ Pools!CountsExact /\ Pools!WorkersOwned /\ Pools!JobsOnce /\ Pools!JobsKept
  BY DEF Pools!PoolInv
<1>1. client' = client /\ keepalive' = keepalive /\ worker[w].at = "pull" /\ pool' = pool
      /\ worker' = [worker EXCEPT ![w].at = "rest"]
  BY DEF Pools!PullJob, Pools!Go
<1>2. /\ \A v \in Pools!Worker \ {w} : worker'[v] = worker[v]
      /\ worker'[w].at = "rest"
      /\ worker' \in [Pools!Worker -> Pools!WorkerRecord]
  BY <1>0, <1>1 DEF Pools!PoolTypeOK, Pools!WorkerRecord, Pools!At
<1>3. Pools!PoolTypeOK'
  BY <1>0, <1>1, <1>2 DEF Pools!PoolTypeOK
<1>4. Pools!JobsOnce' /\ Pools!JobsKept'
  <2>1. QueuesSame /\ RunsSame /\ AddsSame
    BY <1>1, <1>2 DEF QueuesSame, RunsSame, AddsSame, Pools!AddedTo
  <2> QED  BY <2>1, <1>0, <1>1, JobsStay, PoolShape
<1>5. Pools!WaitsDone'
  BY <1>0, <1>1, WaitsStay DEF Pools!PoolInv, Pools!WasRun
<1>6. Pools!CountsExact'
  <2>1. /\ worker[w].at \in Pools!AtJob <=> worker'[w].at \in Pools!AtJob
        /\ worker[w].at \in Pools!Alive <=> worker'[w].at \in Pools!Alive
    BY <1>1, <1>2 DEF Pools!AtJob, Pools!Alive
  <2> QED  BY <2>1, <1>0, <1>1, <1>2, CountsStay
<1>7. Pools!WorkersOwned'
  BY <1>0, <1>1, <1>2, OwnedStay
<1> QED  BY <1>3, <1>4, <1>5, <1>6, <1>7 DEF Pools!PoolInv

\* The elements of a sequence with one more.
LEMMA OneMore ==
    ASSUME NEW S, NEW s \in Seq(S), NEW e \in S
    PROVE  /\ Append(s, e) \in Seq(S)
           /\ DOMAIN Append(s, e) = DOMAIN s \cup {Len(s) + 1}
           /\ \A i \in DOMAIN s : Append(s, e)[i] = s[i]
           /\ Append(s, e)[Len(s) + 1] = e
           /\ Len(s) \in Nat /\ DOMAIN s = 1 .. Len(s)
           /\ Len(s) + 1 \notin DOMAIN s
<1>1. Len(s) \in Nat /\ DOMAIN s = 1 .. Len(s)
  BY LenProperties
<1>2. Append(s, e) \in Seq(S) /\ Len(Append(s, e)) = Len(s) + 1
  BY AppendProperties
<1>3. DOMAIN Append(s, e) = 1 .. Len(s) + 1
  BY <1>2, LenProperties
<1>4. \A i \in 1 .. Len(s) : Append(s, e)[i] = s[i]
  BY AppendProperties
<1>5. Append(s, e)[Len(s) + 1] = e
  BY AppendProperties
<1>6. 1 .. Len(s) + 1 = 1 .. Len(s) \cup {Len(s) + 1}
  BY <1>1
<1> QED  BY <1>1, <1>2, <1>3, <1>4, <1>5, <1>6

\* thread_do runs the job it pulled.
LEMMA RunInv ==
    ASSUME Pools!PoolInv, NEW w \in Pools!Worker, Pools!RunJob(w)
    PROVE  Pools!PoolInv'
<1>0. Pools!PoolTypeOK /\ Pools!CountsExact /\ Pools!WorkersOwned /\ Pools!JobsOnce /\ Pools!JobsKept
  BY DEF Pools!PoolInv
<1>1. worker[w].at = "run" /\ pool' = pool /\ keepalive' = keepalive
      /\ worker' = [worker EXCEPT ![w] = Pools!Idle("rest")]
      /\ client' = [client EXCEPT !.done = Append(@, worker[w].job)]
  BY DEF Pools!RunJob
<1>2. PICK h \in Pools!Job : h = worker[w].job
  BY <1>0, <1>1 DEF Pools!JobsOnce
<1>3. /\ \A v \in Pools!Worker \ {w} : worker'[v] = worker[v]
      /\ worker'[w].at = "rest"
      /\ worker' \in [Pools!Worker -> Pools!WorkerRecord]
  <2>1. Pools!Idle("rest") \in Pools!WorkerRecord
    BY ScriptType DEF Pools!WorkerRecord, Pools!Idle, Pools!At
  <2> QED  BY <2>1, <1>0, <1>1 DEF Pools!PoolTypeOK, Pools!Idle
<1>4. /\ client'.pc = client.pc /\ client'.at = client.at /\ client'.done = Append(client.done, h)
      /\ client'.added = client.added
      /\ client' = [pc |-> client.pc, at |-> client.at, done |-> Append(client.done, h), added |-> client.added]
  BY <1>0, <1>1, <1>2, PoolShape
<1>5. /\ client.done \in Seq(Pools!Job) /\ client'.done \in Seq(Pools!Job)
      /\ DOMAIN client'.done = DOMAIN client.done \cup {Len(client.done) + 1}
      /\ \A i \in DOMAIN client.done : client'.done[i] = client.done[i]
      /\ client'.done[Len(client.done) + 1] = h /\ Len(client.done) + 1 \notin DOMAIN client.done
  BY <1>0, <1>4, PoolShape, OneMore
<1>6. Pools!PoolTypeOK'
  BY <1>0, <1>1, <1>3, <1>4, <1>5, PoolShape DEF Pools!PoolTypeOK
<1>7. \A j \in Pools!Job : Pools!WasRun(j)' <=> Pools!WasRun(j) \/ j = h
  <2> SUFFICES ASSUME NEW j \in Pools!Job
               PROVE  (\E i \in DOMAIN client'.done : client'.done[i] = j) <=>
                          (\E i \in DOMAIN client.done : client.done[i] = j) \/ j = h
    BY DEF Pools!WasRun
  <2> QED  BY <1>5
<1>8. Pools!RunBy(h, w) /\ ~Pools!WasRun(h) /\ Pools!AddedTo(h, w[1]) /\ w[1] \in Pool
  BY <1>0, <1>1, <1>2, PoolShape DEF Pools!RunBy, Pools!JobsOnce
<1>9. \A v \in Pools!Worker : \A j \in Pools!Job : Pools!RunBy(j, v)' <=> Pools!RunBy(j, v) /\ v # w
  BY <1>3 DEF Pools!RunBy
<1>10. \A v \in Pools!Worker : \A j \in Pools!Job : Pools!RunBy(j, v) => (v = w <=> j = h)
  BY <1>0, <1>2, <1>8 DEF Pools!JobsOnce, Pools!RunBy
<1>11. /\ \A r \in Pool : \A j \in Pools!Job : Pools!AddedTo(j, r)' <=> Pools!AddedTo(j, r)
       /\ \A r \in Pool : \A j \in Pools!Job : Pools!QueuedAt(j, r)' <=> Pools!QueuedAt(j, r)
  BY <1>1, <1>4 DEF Pools!AddedTo, Pools!QueuedAt
<1>12. Pools!JobsOnce'
  <2>1. \A r \in Pool : \A a, b \in DOMAIN pool'[r].jobs : pool'[r].jobs[a] = pool'[r].jobs[b] => a = b
    BY <1>0, <1>1 DEF Pools!JobsOnce
  <2>2. \A v, x \in Pools!Worker : \A j \in Pools!Job : Pools!RunBy(j, v)' /\ Pools!RunBy(j, x)' => v = x
    BY <1>0, <1>9 DEF Pools!JobsOnce
  <2>3. \A r \in Pool : \A j \in Pools!Job : Pools!QueuedAt(j, r)' =>
          Pools!AddedTo(j, r)' /\ ~Pools!WasRun(j)' /\ \A v \in Pools!Worker : ~Pools!RunBy(j, v)'
    <3> SUFFICES ASSUME NEW r \in Pool, NEW j \in Pools!Job, Pools!QueuedAt(j, r)'
                 PROVE  Pools!AddedTo(j, r)' /\ ~Pools!WasRun(j)' /\ \A v \in Pools!Worker : ~Pools!RunBy(j, v)'
      OBVIOUS
    <3>1. Pools!AddedTo(j, r) /\ ~Pools!WasRun(j) /\ \A v \in Pools!Worker : ~Pools!RunBy(j, v)
      BY <1>0, <1>11 DEF Pools!JobsOnce
    <3>2. j # h
      BY <3>1, <1>8
    <3> QED  BY <3>1, <3>2, <1>7, <1>9, <1>11
  <2>4. \A v \in Pools!Worker : \A j \in Pools!Job : Pools!RunBy(j, v)' => Pools!AddedTo(j, v[1])' /\ ~Pools!WasRun(j)'
    <3>1. \A v \in Pools!Worker : v[1] \in Pool
      BY <1>0, PoolShape
    <3> QED  BY <3>1, <1>0, <1>7, <1>9, <1>10, <1>11 DEF Pools!JobsOnce
  <2>5. \A j \in Pools!Job : Pools!WasRun(j)' => j < client'.pc
    <3>1. h < client.pc
      BY <1>0, <1>8, ScriptType, PoolShape DEF Pools!AddedTo
    <3>2. \A j \in Pools!Job : Pools!WasRun(j) => j < client.pc
      BY <1>0 DEF Pools!JobsOnce
    <3> QED  BY <3>1, <3>2, <1>4, <1>7
  <2>6. \A a, b \in DOMAIN client'.done : client'.done[a] = client'.done[b] => a = b
    <3>1. \A a, b \in DOMAIN client.done : client.done[a] = client.done[b] => a = b
      BY <1>0 DEF Pools!JobsOnce
    <3>2. \A a \in DOMAIN client.done : client.done[a] # h
      BY <1>8 DEF Pools!WasRun
    <3> QED  BY <3>1, <3>2, <1>5
  <2>7. \A v \in Pools!Worker : worker'[v].at = "run" => worker'[v].job \in Pools!Job
    BY <1>0, <1>3 DEF Pools!JobsOnce
  <2> QED  BY <2>1, <2>2, <2>3, <2>4, <2>5, <2>6, <2>7 DEF Pools!JobsOnce, Pools!Job, Pools!Worker
<1>13. Pools!JobsKept'
  <2> SUFFICES ASSUME NEW r \in Pool, NEW j \in Pools!Job, Pools!AddedTo(j, r)'
               PROVE  Pools!QueuedAt(j, r)' \/ Pools!WasRun(j)' \/ \E v \in Pools!Worker : v[1] = r /\ Pools!RunBy(j, v)'
    BY DEF Pools!JobsKept, Pools!Job, Pools!Worker
  <2>1. Pools!QueuedAt(j, r) \/ Pools!WasRun(j) \/ \E v \in Pools!Worker : v[1] = r /\ Pools!RunBy(j, v)
    BY <1>0, <1>11 DEF Pools!JobsKept
  <2> QED  BY <2>1, <1>7, <1>9, <1>10, <1>11
<1>14. Pools!WaitsDone'
  BY <1>0, <1>4, <1>7, WaitsStay DEF Pools!PoolInv
<1>15. Pools!CountsExact'
  <2>1. /\ worker[w].at \in Pools!AtJob <=> worker'[w].at \in Pools!AtJob
        /\ worker[w].at \in Pools!Alive <=> worker'[w].at \in Pools!Alive
    BY <1>1, <1>3 DEF Pools!AtJob, Pools!Alive
  <2> QED  BY <2>1, <1>0, <1>1, <1>3, CountsStay
<1>16. Pools!WorkersOwned'
  BY <1>0, <1>1, <1>3, <1>4, OwnedStay
<1> QED  BY <1>6, <1>12, <1>13, <1>14, <1>15, <1>16 DEF Pools!PoolInv

\* A worker that has run its job is not at work any more.
LEMMA RestInv ==
    ASSUME Pools!PoolInv, NEW w \in Pools!Worker, Pools!Rest(w)
    PROVE  Pools!PoolInv'
<1> DEFINE p == w[1]
<1>0. Pools!PoolTypeOK /\ Pools!CountsExact /\ Pools!WorkersOwned /\ Pools!JobsOnce /\ Pools!JobsKept /\ p \in Pool
  BY PoolShape DEF Pools!PoolInv
<1>1. worker[w].at = "rest" /\ keepalive' = keepalive
      /\ worker' = [worker EXCEPT ![w].at = "loop"]
      /\ pool' = [pool EXCEPT ![p].working = @ - 1]
      /\ client' = IF pool[p].working = 1 /\ Pools!Calls("wait", p, "asleep")
                    THEN [client EXCEPT !.at = "call"] ELSE client
  BY DEF Pools!Rest, Pools!Go
<1>2. /\ client'.pc = client.pc /\ client'.done = client.done /\ (client.at = "spin" => client'.at = "spin")
      /\ client' \in [pc : 1 .. Len(Script) + 1, at : {"call", "spin", "asleep", "kill"},
                      done : Seq(Pools!Job), added : [Pool -> SUBSET Pools!Job]]
  <2>1. CASE client' = client
    BY <2>1, <1>0 DEF Pools!PoolTypeOK
  <2>2. CASE client' = [client EXCEPT !.at = "call"] /\ client.at = "asleep"
    BY <2>2, <1>0, PoolShape
  <2> QED  BY <2>1, <2>2, <1>1 DEF Pools!Calls
<1>3. /\ \A v \in Pools!Worker \ {w} : worker'[v] = worker[v]
      /\ worker'[w].at = "loop"
      /\ worker' \in [Pools!Worker -> Pools!WorkerRecord]
  BY <1>0, <1>1 DEF Pools!PoolTypeOK, Pools!WorkerRecord, Pools!At
<1>4. \A q \in Pool : /\ Cardinality(Pools!WorkersAt(q, Pools!AtJob)) = pool[q].working
                      /\ Cardinality(Pools!WorkersAt(q, Pools!Alive)) = pool[q].alive
                      /\ pool[q].working \in Nat /\ pool[q].alive \in Nat
  BY <1>0, PoolShape, PoolCardinality DEF Pools!CountsExact, Pools!PoolRecord
<1>5. /\ worker[w].at \in Pools!AtJob /\ worker'[w].at \notin Pools!AtJob
      /\ worker[w].at \in Pools!Alive /\ worker'[w].at \in Pools!Alive
  BY <1>1, <1>3 DEF Pools!AtJob, Pools!Alive
<1>6. pool[p].working > 0
  BY <1>0, <1>3, <1>4, <1>5, CountMove
<1>7. /\ \A r \in Pool \ {p} : pool'[r] = pool[r]
      /\ pool'[p] = [pool[p] EXCEPT !.working = pool[p].working - 1]
  BY <1>0, <1>1 DEF Pools!PoolTypeOK
<1>8. /\ pool'[p].jobs = pool[p].jobs /\ pool'[p].up = pool[p].up /\ pool'[p].alive = pool[p].alive
      /\ pool'[p].working = pool[p].working - 1 /\ pool'[p] \in Pools!PoolRecord
  <2>1. pool[p] \in Pools!PoolRecord
    BY <1>0, PoolShape
  <2> QED  BY <2>1, <1>6, <1>7 DEF Pools!PoolRecord
<1>9. Pools!PoolTypeOK'
  <2>1. pool' \in [Pool -> Pools!PoolRecord]
    BY <1>0, <1>1, <1>7, <1>8 DEF Pools!PoolTypeOK
  <2> QED  BY <2>1, <1>0, <1>1, <1>2, <1>3 DEF Pools!PoolTypeOK
<1>10. Pools!JobsOnce' /\ Pools!JobsKept'
  <2>1. QueuesSame
    BY <1>7, <1>8 DEF QueuesSame
  <2>2. RunsSame /\ AddsSame
    BY <1>1, <1>2, <1>3 DEF RunsSame, AddsSame, Pools!AddedTo
  <2> QED  BY <2>1, <2>2, <1>0, <1>2, JobsStay, PoolShape
<1>11. Pools!WaitsDone'
  BY <1>0, <1>2, WaitsStay DEF Pools!PoolInv, Pools!WasRun
<1>12. Pools!CountsExact'
  <2> SUFFICES ASSUME NEW r \in Pool
               PROVE  /\ pool'[r].working = Cardinality(Pools!WorkersAt(r, Pools!AtJob)')
                      /\ pool'[r].alive = Cardinality(Pools!WorkersAt(r, Pools!Alive)')
    BY PoolCardinality DEF Pools!CountsExact, Pools!AtJob, Pools!Alive, Pools!WorkersAt
  <2>1. Cardinality(Pools!WorkersAt(r, Pools!AtJob)') =
            IF r = p THEN Cardinality(Pools!WorkersAt(r, Pools!AtJob)) - 1 ELSE Cardinality(Pools!WorkersAt(r, Pools!AtJob))
    BY <1>3, <1>5, CountMove
  <2>2. Cardinality(Pools!WorkersAt(r, Pools!Alive)') = Cardinality(Pools!WorkersAt(r, Pools!Alive))
    BY <1>3, <1>5, CountMove
  <2> QED  BY <2>1, <2>2, <1>4, <1>7, <1>8
<1>13. Pools!WorkersOwned'
  <2>1. \A r \in Pool : pool'[r].up = pool[r].up
    BY <1>7, <1>8
  <2> QED  BY <2>1, <1>0, <1>1, <1>2, <1>3, OwnedStay
<1> QED  BY <1>9, <1>10, <1>11, <1>12, <1>13 DEF Pools!PoolInv

\* A call returns: the client goes to the next entry of its script.
LEMMA ReturnStep ==
    ASSUME Pools!PoolTypeOK, client.pc \in Pools!Job, Pools!Return(client)
    PROVE  /\ client'.pc = client.pc + 1 /\ client'.at = "call" /\ client'.done = client.done
           /\ client.pc \in Nat /\ client'.pc \in Nat /\ client'.pc >= client.pc
           /\ client' \in [pc : 1 .. Len(Script) + 1, at : {"call", "spin", "asleep", "kill"},
                           done : Seq(Pools!Job), added : [Pool -> SUBSET Pools!Job]]
<1>1. client.pc \in 1 .. Len(Script) /\ Len(Script) \in Nat
  BY ScriptType
<1>2. client' = [client EXCEPT !.pc = client.pc + 1, !.at = "call"]
  BY DEF Pools!Return
<1>3. client' = [pc |-> client.pc + 1, at |-> "call", done |-> client.done, added |-> client.added]
  BY <1>2, PoolShape
<1>4. client.pc + 1 \in 1 .. Len(Script) + 1
  BY <1>1
<1> QED  BY <1>1, <1>3, <1>4, PoolShape

\* The jobs added when a call other than thpool_add_work returns.
LEMMA NoNewJob ==
    ASSUME Pools!PoolTypeOK, client.pc \in Pools!Job, client'.pc = client.pc + 1,
           Script[client.pc].op # "add"
    PROVE  AddsSame
<1> SUFFICES ASSUME NEW p \in Pool, NEW j \in Pools!Job
             PROVE  Pools!AddedTo(j, p)' <=> Pools!AddedTo(j, p)
  BY DEF AddsSame
<1>1. j \in Nat /\ client.pc \in Nat
  BY ScriptType
<1>2. j = client.pc => Script[j] # [op |-> "add", p |-> p]
  OBVIOUS
<1> QED  BY <1>1, <1>2, ScriptType DEF Pools!AddedTo

\* thpool_init has seen all its workers alive.
LEMMA InitDoneInv ==
    ASSUME Pools!PoolInv, NEW p \in Pool, Pools!InitDone(p)
    PROVE  Pools!PoolInv'
<1>0. Pools!PoolTypeOK /\ Pools!CountsExact /\ Pools!WorkersOwned /\ Pools!JobsOnce /\ Pools!JobsKept /\ Pools!WaitsDone
  BY DEF Pools!PoolInv
<1>1. keepalive' = keepalive /\ pool' = pool /\ worker' = worker /\ Pools!Return(client)
      /\ client.pc \in Pools!Job /\ Script[client.pc] = [op |-> "init", p |-> p] /\ pool[p].alive = Threads[p]
  BY DEF Pools!InitDone, Pools!Calls, Pools!Job
<1>2. /\ client'.pc = client.pc + 1 /\ client'.at = "call" /\ client'.done = client.done
      /\ client.pc \in Nat /\ client'.pc \in Nat /\ client'.pc >= client.pc
  BY <1>0, <1>1, ReturnStep
<1>3. Pools!PoolTypeOK'
  BY <1>0, <1>1, ReturnStep DEF Pools!PoolTypeOK
<1>4. Pools!JobsOnce' /\ Pools!JobsKept'
  <2>1. QueuesSame /\ RunsSame
    BY <1>1 DEF QueuesSame, RunsSame
  <2>2. AddsSame
    BY <1>0, <1>1, <1>2, NoNewJob
  <2> QED  BY <2>1, <2>2, <1>0, <1>2, JobsStay
<1>5. Pools!WaitsDone'
  <2>1. \A j \in Pools!Job : Pools!WasRun(j) => Pools!WasRun(j)'
    BY <1>2 DEF Pools!WasRun
  <2>2. client'.pc = client.pc + 1 /\ Script[client.pc].op # "wait"
    BY <1>1, <1>2
  <2> QED  BY <2>1, <2>2, <1>0, WaitsStay
<1>6. Pools!CountsExact'
  BY <1>0, <1>1, CountsSame
<1>7. \A v \in Pools!Worker : worker[v].at # "start"
  <2> SUFFICES ASSUME NEW v \in Pools!Worker, worker[v].at = "start"  PROVE FALSE
    OBVIOUS
  <2>1. v[1] = p
    <3>1. Pools!Calls("init", v[1], "spin")
      BY <1>0 DEF Pools!WorkersOwned
    <3>2. Script[client.pc].p = v[1] /\ Script[client.pc].p = p
      BY <3>1, <1>1 DEF Pools!Calls
    <3> QED  BY <3>2
  <2> DEFINE W == {x \in Pools!Worker : x[1] = p}
             A == Pools!WorkersAt(p, Pools!Alive)
  <2>2. A \subseteq W /\ v \in W /\ v \notin A
    BY <2>1 DEF Pools!WorkersAt, Pools!Alive
  <2>3. IsFiniteSet(W) /\ Cardinality(W) = Threads[p]
    BY WorkersFinite
  <2>4. Cardinality(A) = Threads[p]
    BY <1>0, <1>1, PoolCardinality DEF Pools!CountsExact
  <2> HIDE DEF W, A
  <2>5. A = W
    BY <2>2, <2>3, <2>4, FS_Subset
  <2> QED  BY <2>2, <2>5
<1>8. Pools!WorkersOwned'
  <2>1. \A v \in Pools!Worker : worker'[v].at = "start" => Pools!Calls("init", v[1], "spin")'
    BY <1>1, <1>7
  <2>2. \A v \in Pools!Worker : ~pool'[v[1]].up => worker'[v].at = "off"
    BY <1>0, <1>1 DEF Pools!WorkersOwned
  <2>3. ASSUME NEW r \in Pool, pool'[r].up
        PROVE  \E k \in (1 .. client'.pc) \cap DOMAIN Script :
                 /\ Script[k] = [op |-> "init", p |-> r]
                 /\ k = client'.pc => client'.at = "spin"
                 /\ \A m \in k .. client'.pc - 1 : Script[m] # [op |-> "destroy", p |-> r]
    <3>1. client'.pc = client.pc + 1 /\ client.pc \in DOMAIN Script /\ Script[client.pc] # [op |-> "destroy", p |-> r]
      BY <1>1, <1>2 DEF Pools!Job
    <3> QED  BY <3>1, <2>3, <1>0, <1>1, UpStays
  <2> QED  BY <2>1, <2>2, <2>3 DEF Pools!WorkersOwned, Pools!Worker
<1> QED  BY <1>3, <1>4, <1>5, <1>6, <1>8 DEF Pools!PoolInv

\* thpool_wait: it returns only when the queue is empty and nobody is at work, and
\* then every job of the pool has been run.
LEMMA WaitInv ==
    ASSUME Pools!PoolInv, NEW p \in Pool, Pools!Wait(p)
    PROVE  Pools!PoolInv'
<1>0. Pools!PoolTypeOK /\ Pools!CountsExact /\ Pools!WorkersOwned /\ Pools!JobsOnce /\ Pools!JobsKept /\ Pools!WaitsDone
  BY DEF Pools!PoolInv
<1>1. keepalive' = keepalive /\ pool' = pool /\ worker' = worker /\ client.at = "call"
      /\ client.pc \in Pools!Job /\ Script[client.pc] = [op |-> "wait", p |-> p]
  BY DEF Pools!Wait, Pools!Calls, Pools!Job
<1>2. QueuesSame /\ RunsSame /\ Pools!CountsExact'
  BY <1>0, <1>1, CountsSame DEF QueuesSame, RunsSame
<1>3. /\ \A v \in Pools!Worker : worker'[v].at # "start"
      /\ \A v \in Pools!Worker : ~pool'[v[1]].up => worker'[v].at = "off"
  BY <1>0, <1>1 DEF Pools!WorkersOwned, Pools!Calls
<1>4. CASE Pools!Busy(p)
  <2>1. client' = [client EXCEPT !.at = "asleep"]
    BY <1>4 DEF Pools!Wait
  <2>2. /\ client'.pc = client.pc /\ client'.done = client.done /\ client.pc \in Nat
        /\ client' \in [pc : 1 .. Len(Script) + 1, at : {"call", "spin", "asleep", "kill"},
                        done : Seq(Pools!Job), added : [Pool -> SUBSET Pools!Job]]
    BY <2>1, <1>0, PoolShape
  <2>3. Pools!PoolTypeOK'
    BY <2>2, <1>0, <1>1 DEF Pools!PoolTypeOK
  <2>4. Pools!JobsOnce' /\ Pools!JobsKept'
    <3>1. AddsSame
      BY <2>2 DEF AddsSame, Pools!AddedTo
    <3> QED  BY <3>1, <2>2, <1>0, <1>2, JobsStay
  <2>5. Pools!WaitsDone'
    BY <2>2, <1>0, WaitsStay DEF Pools!WasRun
  <2>6. Pools!WorkersOwned'
    <3>1. ASSUME NEW r \in Pool, pool'[r].up
          PROVE  \E k \in (1 .. client'.pc) \cap DOMAIN Script :
                   /\ Script[k] = [op |-> "init", p |-> r]
                   /\ k = client'.pc => client'.at = "spin"
                   /\ \A m \in k .. client'.pc - 1 : Script[m] # [op |-> "destroy", p |-> r]
      BY <3>1, <2>2, <1>0, <1>1, UpStays DEF Pools!Calls
    <3> QED  BY <3>1, <1>3 DEF Pools!WorkersOwned, Pools!Worker
  <2> QED  BY <2>3, <2>4, <2>5, <2>6, <1>2 DEF Pools!PoolInv
<1>5. CASE ~Pools!Busy(p)
  <2>1. Pools!Return(client)
    BY <1>5 DEF Pools!Wait
  <2>2. /\ client'.pc = client.pc + 1 /\ client'.at = "call" /\ client'.done = client.done
        /\ client.pc \in Nat /\ client'.pc \in Nat /\ client'.pc >= client.pc
    BY <2>1, <1>0, <1>1, ReturnStep
  <2>3. Pools!PoolTypeOK'
    BY <2>1, <1>0, <1>1, ReturnStep DEF Pools!PoolTypeOK
  <2>4. Pools!JobsOnce' /\ Pools!JobsKept'
    <3>1. AddsSame
      BY <2>2, <1>0, <1>1, NoNewJob
    <3> QED  BY <3>1, <2>2, <1>0, <1>2, JobsStay
  <2>5. \A j \in Pools!Job : Pools!AddedTo(j, p) => Pools!WasRun(j)
    <3> SUFFICES ASSUME NEW j \in Pools!Job, Pools!AddedTo(j, p)
                 PROVE  Pools!WasRun(j)
      OBVIOUS
    <3>1. pool[p].jobs = <<>> /\ pool[p].working = 0
      <4>1. pool[p].working \in Nat
        BY <1>0, PoolShape DEF Pools!PoolRecord
      <4> QED  BY <4>1, <1>5 DEF Pools!Busy, Pools!BusyIfQueued
    <3>2. ~Pools!QueuedAt(j, p)
      BY <3>1 DEF Pools!QueuedAt
    <3>3. Pools!WorkersAt(p, Pools!AtJob) = {}
      <4>1. Pools!WorkersAt(p, Pools!AtJob) \subseteq {w \in Pools!Worker : w[1] = p}
        BY DEF Pools!WorkersAt
      <4>2. IsFiniteSet(Pools!WorkersAt(p, Pools!AtJob))
        BY <4>1, WorkersFinite, FS_Subset
      <4>3. Cardinality(Pools!WorkersAt(p, Pools!AtJob)) = 0
        BY <3>1, <1>0, PoolCardinality DEF Pools!CountsExact
      <4> QED  BY <4>2, <4>3, FS_EmptySet
    <3>4. ~\E w \in Pools!Worker : w[1] = p /\ Pools!RunBy(j, w)
      BY <3>3 DEF Pools!WorkersAt, Pools!AtJob, Pools!RunBy
    <3> QED  BY <3>2, <3>4, <1>0 DEF Pools!JobsKept
  <2>6. Pools!WaitsDone'
    <3> SUFFICES ASSUME NEW i \in 1 .. client'.pc - 1, Script[i].op = "wait",
                        NEW j \in 1 .. i, Script[j] = [op |-> "add", p |-> Script[i].p]
                 PROVE  Pools!WasRun(j)
      BY <2>2 DEF Pools!WaitsDone, Pools!WasRun
    <3>1. j \in Pools!Job /\ i \in Nat /\ client.pc \in 1 .. Len(Script) /\ Len(Script) \in Nat /\ i <= client.pc
      BY <2>2, <1>1, ScriptType
    <3>2. CASE i = client.pc
      <4>1. j # client.pc
        BY <3>2, <1>1
      <4>2. Pools!AddedTo(j, p)
        BY <4>1, <3>1, <3>2, <1>1 DEF Pools!AddedTo
      <4> QED  BY <4>2, <3>1, <2>5
    <3>3. CASE i # client.pc
      <4>1. i \in 1 .. client.pc - 1
        BY <3>1, <3>3
      <4> QED  BY <4>1, <1>0 DEF Pools!WaitsDone
    <3> QED  BY <3>2, <3>3
  <2>7. Pools!WorkersOwned'
    <3>1. ASSUME NEW r \in Pool, pool'[r].up
          PROVE  \E k \in (1 .. client'.pc) \cap DOMAIN Script :
                   /\ Script[k] = [op |-> "init", p |-> r]
                   /\ k = client'.pc => client'.at = "spin"
                   /\ \A m \in k .. client'.pc - 1 : Script[m] # [op |-> "destroy", p |-> r]
      <4>1. client'.pc = client.pc + 1 /\ client.pc \in DOMAIN Script /\ Script[client.pc] # [op |-> "destroy", p |-> r]
        BY <1>1, <2>2 DEF Pools!Job
      <4> QED  BY <4>1, <3>1, <1>0, <1>1, UpStays
    <3> QED  BY <3>1, <1>3 DEF Pools!WorkersOwned, Pools!Worker
  <2> QED  BY <2>3, <2>4, <2>6, <2>7, <1>2 DEF Pools!PoolInv
<1> QED  BY <1>4, <1>5

\* thpool_add_work queues a job that is nowhere yet.
LEMMA AddInv ==
    ASSUME Pools!PoolInv, NEW p \in Pool, Pools!AddWork(p)
    PROVE  Pools!PoolInv'
<1>0. Pools!PoolTypeOK /\ Pools!CountsExact /\ Pools!WorkersOwned /\ Pools!JobsOnce /\ Pools!JobsKept /\ Pools!WaitsDone
  BY DEF Pools!PoolInv
<1>1. keepalive' = keepalive /\ worker' = worker /\ client.at = "call" /\ client.pc \in Pools!Job
      /\ Script[client.pc] = [op |-> "add", p |-> p]
      /\ pool' = [pool EXCEPT ![p] = Pools!Push(pool[p], client.pc)]
      /\ Pools!Return([client EXCEPT !.added[p] = @ \cup {client.pc}])
  BY DEF Pools!AddWork, Pools!Calls, Pools!Job
<1>2. PICK h \in Pools!Job : h = client.pc
  BY <1>1
<1>3. client.pc \in 1 .. Len(Script) /\ Len(Script) \in Nat /\ h \in Nat
  BY <1>1, <1>2, ScriptType
<1>4. /\ client'.pc = client.pc + 1 /\ client'.at = "call" /\ client'.done = client.done
      /\ client' \in [pc : 1 .. Len(Script) + 1, at : {"call", "spin", "asleep", "kill"},
                      done : Seq(Pools!Job), added : [Pool -> SUBSET Pools!Job]]
  <2> DEFINE more == [client.added EXCEPT ![p] = @ \cup {h}]
  <2>1. client' = [pc |-> client.pc + 1, at |-> "call", done |-> client.done, added |-> more]
    BY <1>0, <1>1, <1>2, PoolShape DEF Pools!Return
  <2>2. more \in [Pool -> SUBSET Pools!Job]
    <3>1. client.added \in [Pool -> SUBSET Pools!Job]
      BY <1>0, PoolShape
    <3> QED  BY <3>1, <1>2
  <2>3. client.pc + 1 \in 1 .. Len(Script) + 1
    BY <1>3
  <2> HIDE DEF more
  <2> QED  BY <2>1, <2>2, <2>3, <1>0, PoolShape
<1> DEFINE q == pool[p].jobs
<1>5. q \in Seq(Pools!Job) /\ pool[p] \in Pools!PoolRecord
  BY <1>0, PoolShape DEF Pools!PoolRecord
<1>6. /\ Append(q, h) \in Seq(Pools!Job) /\ Append(q, h)[Len(q) + 1] = h
      /\ DOMAIN Append(q, h) = DOMAIN q \cup {Len(q) + 1} /\ Len(q) + 1 \notin DOMAIN q
      /\ \A i \in DOMAIN q : Append(q, h)[i] = q[i]
  BY <1>5, OneMore
<1>7. /\ \A r \in Pool \ {p} : pool'[r] = pool[r]
      /\ pool'[p] = Pools!Push(pool[p], h)
  BY <1>0, <1>1, <1>2 DEF Pools!PoolTypeOK
<1>8. /\ pool'[p].jobs = Append(q, h) /\ pool'[p].up = pool[p].up /\ pool'[p].alive = pool[p].alive
      /\ pool'[p].working = pool[p].working /\ pool'[p] \in Pools!PoolRecord
  BY <1>5, <1>6, <1>7 DEF Pools!PoolRecord, Pools!Push, Pools!BsemPost
<1>9. Pools!PoolTypeOK'
  <2>1. pool' \in [Pool -> Pools!PoolRecord]
    BY <1>0, <1>1, <1>7, <1>8 DEF Pools!PoolTypeOK
  <2> QED  BY <2>1, <1>0, <1>1, <1>4 DEF Pools!PoolTypeOK
<1>10. /\ \A r \in Pool \ {p} : \A j \in Pools!Job : Pools!QueuedAt(j, r)' <=> Pools!QueuedAt(j, r)
       /\ \A j \in Pools!Job : Pools!QueuedAt(j, p)' <=> Pools!QueuedAt(j, p) \/ j = h
  <2>1. \A r \in Pool \ {p} : \A j \in Pools!Job : Pools!QueuedAt(j, r)' <=> Pools!QueuedAt(j, r)
    BY <1>7 DEF Pools!QueuedAt
  <2>2. \A j \in Pools!Job : Pools!QueuedAt(j, p)' <=> \E i \in DOMAIN Append(q, h) : Append(q, h)[i] = j
    BY <1>8 DEF Pools!QueuedAt
  <2>3. \A j \in Pools!Job : Pools!QueuedAt(j, p) <=> \E i \in DOMAIN q : q[i] = j
    BY DEF Pools!QueuedAt
  <2> HIDE DEF q
  <2>4. \A j \in Pools!Job : (\E i \in DOMAIN Append(q, h) : Append(q, h)[i] = j) <=> ((\E i \in DOMAIN q : q[i] = j) \/ j = h)
    BY <1>6
  <2> QED  BY <2>1, <2>2, <2>3, <2>4
<1>11. /\ \A v \in Pools!Worker : \A j \in Pools!Job : Pools!RunBy(j, v)' <=> Pools!RunBy(j, v)
       /\ \A j \in Pools!Job : Pools!WasRun(j)' <=> Pools!WasRun(j)
  BY <1>1, <1>4 DEF Pools!RunBy, Pools!WasRun
<1>12. \A r \in Pool : \A j \in Pools!Job : Pools!AddedTo(j, r)' <=> Pools!AddedTo(j, r) \/ (j = h /\ r = p)
  <2> SUFFICES ASSUME NEW r \in Pool, NEW j \in Pools!Job
               PROVE  Pools!AddedTo(j, r)' <=> Pools!AddedTo(j, r) \/ (j = h /\ r = p)
    OBVIOUS
  <2>1. j \in Nat /\ j >= 1
    BY ScriptType
  <2>2. Script[h] = [op |-> "add", p |-> r] <=> r = p
    BY <1>1, <1>2
  <2>3. Pools!AddedTo(j, r)' <=> j \in 1 .. client.pc /\ Script[j] = [op |-> "add", p |-> r]
    BY <1>3, <1>4 DEF Pools!AddedTo
  <2> QED  BY <2>1, <2>2, <2>3, <1>2, <1>3 DEF Pools!AddedTo
<1>13. /\ \A r \in Pool : ~Pools!AddedTo(h, r)
       /\ ~Pools!WasRun(h) /\ ~Pools!QueuedAt(h, p)
       /\ \A v \in Pools!Worker : ~Pools!RunBy(h, v)
  <2>1. \A r \in Pool : ~Pools!AddedTo(h, r)
    BY <1>2, <1>3 DEF Pools!AddedTo
  <2>2. ~Pools!WasRun(h)
    BY <1>0, <1>2, <1>3 DEF Pools!JobsOnce
  <2>3. ~Pools!QueuedAt(h, p)
    BY <2>1, <1>0 DEF Pools!JobsOnce
  <2>4. \A v \in Pools!Worker : ~Pools!RunBy(h, v)
    BY <2>1, <1>0, PoolShape DEF Pools!JobsOnce
  <2> QED  BY <2>1, <2>2, <2>3, <2>4
<1>14. Pools!JobsOnce'
  <2>1. \A r \in Pool : \A a, b \in DOMAIN pool'[r].jobs : pool'[r].jobs[a] = pool'[r].jobs[b] => a = b
    <3>1. \A a, b \in DOMAIN q : q[a] = q[b] => a = b
      BY <1>0 DEF Pools!JobsOnce
    <3>2. \A a \in DOMAIN q : q[a] # h
      BY <1>13 DEF Pools!QueuedAt
    <3>3. \A a, b \in DOMAIN Append(q, h) : Append(q, h)[a] = Append(q, h)[b] => a = b
      <4> HIDE DEF q
      <4> QED  BY <3>1, <3>2, <1>6
    <3> QED  BY <3>3, <1>0, <1>7, <1>8 DEF Pools!JobsOnce
  <2>2. \A v, x \in Pools!Worker : \A j \in Pools!Job : Pools!RunBy(j, v)' /\ Pools!RunBy(j, x)' => v = x
    BY <1>0, <1>11 DEF Pools!JobsOnce
  <2>3. \A r \in Pool : \A j \in Pools!Job : Pools!QueuedAt(j, r)' =>
          Pools!AddedTo(j, r)' /\ ~Pools!WasRun(j)' /\ \A v \in Pools!Worker : ~Pools!RunBy(j, v)'
    <3> SUFFICES ASSUME NEW r \in Pool, NEW j \in Pools!Job, Pools!QueuedAt(j, r)'
                 PROVE  Pools!AddedTo(j, r)' /\ ~Pools!WasRun(j)' /\ \A v \in Pools!Worker : ~Pools!RunBy(j, v)'
      OBVIOUS
    <3>1. CASE Pools!QueuedAt(j, r)
      <4>1. Pools!AddedTo(j, r) /\ ~Pools!WasRun(j) /\ \A v \in Pools!Worker : ~Pools!RunBy(j, v)
        BY <3>1, <1>0 DEF Pools!JobsOnce
      <4> QED  BY <4>1, <1>11, <1>12
    <3>2. CASE r = p /\ j = h
      BY <3>2, <1>11, <1>12, <1>13
    <3> QED  BY <3>1, <3>2, <1>10
  <2>4. \A v \in Pools!Worker : \A j \in Pools!Job : Pools!RunBy(j, v)' => Pools!AddedTo(j, v[1])' /\ ~Pools!WasRun(j)'
    <3>1. \A v \in Pools!Worker : v[1] \in Pool
      BY <1>0, PoolShape
    <3> QED  BY <3>1, <1>0, <1>11, <1>12 DEF Pools!JobsOnce
  <2>5. \A j \in Pools!Job : Pools!WasRun(j)' => j < client'.pc
    <3>1. \A j \in Pools!Job : j \in Nat
      BY ScriptType
    <3>2. \A j \in Pools!Job : Pools!WasRun(j) => j < client.pc
      BY <1>0 DEF Pools!JobsOnce
    <3> QED  BY <3>1, <3>2, <1>3, <1>4, <1>11
  <2>6. /\ \A a, b \in DOMAIN client'.done : client'.done[a] = client'.done[b] => a = b
        /\ \A v \in Pools!Worker : worker'[v].at = "run" => worker'[v].job \in Pools!Job
    BY <1>0, <1>1, <1>4 DEF Pools!JobsOnce
  <2> QED  BY <2>1, <2>2, <2>3, <2>4, <2>5, <2>6 DEF Pools!JobsOnce, Pools!Job, Pools!Worker
<1>15. Pools!JobsKept'
  <2> SUFFICES ASSUME NEW r \in Pool, NEW j \in Pools!Job, Pools!AddedTo(j, r)'
               PROVE  Pools!QueuedAt(j, r)' \/ Pools!WasRun(j)' \/ \E v \in Pools!Worker : v[1] = r /\ Pools!RunBy(j, v)'
    BY DEF Pools!JobsKept, Pools!Job, Pools!Worker
  <2>1. CASE Pools!AddedTo(j, r)
    <3>1. Pools!QueuedAt(j, r) \/ Pools!WasRun(j) \/ \E v \in Pools!Worker : v[1] = r /\ Pools!RunBy(j, v)
      BY <2>1, <1>0 DEF Pools!JobsKept
    <3> QED  BY <3>1, <1>10, <1>11
  <2>2. CASE j = h /\ r = p
    BY <2>2, <1>10
  <2> QED  BY <2>1, <2>2, <1>12
<1>16. Pools!WaitsDone'
  <2>1. client'.pc = client.pc + 1 /\ Script[client.pc].op # "wait"
    BY <1>1, <1>4
  <2> QED  BY <2>1, <1>0, <1>11, WaitsStay
<1>17. Pools!CountsExact'
  <2>1. \A r \in Pool : pool'[r].working = pool[r].working /\ pool'[r].alive = pool[r].alive
    BY <1>7, <1>8
  <2> QED  BY <2>1, <1>0, <1>1, CountsSame
<1>18. Pools!WorkersOwned'
  <2>1. \A r \in Pool : pool'[r].up = pool[r].up
    BY <1>7, <1>8
  <2>2. \A v \in Pools!Worker : worker'[v].at # "start" /\ (~pool'[v[1]].up => worker'[v].at = "off")
    BY <2>1, <1>0, <1>1, PoolShape DEF Pools!WorkersOwned, Pools!Calls
  <2>3. ASSUME NEW r \in Pool, pool'[r].up
        PROVE  \E k \in (1 .. client'.pc) \cap DOMAIN Script :
                 /\ Script[k] = [op |-> "init", p |-> r]
                 /\ k = client'.pc => client'.at = "spin"
                 /\ \A m \in k .. client'.pc - 1 : Script[m] # [op |-> "destroy", p |-> r]
    <3>1. client'.pc = client.pc + 1 /\ client.pc \in DOMAIN Script /\ Script[client.pc] # [op |-> "destroy", p |-> r]
      BY <1>1, <1>4 DEF Pools!Job
    <3> QED  BY <3>1, <2>1, <2>3, <1>0, UpStays
  <2> QED  BY <2>2, <2>3 DEF Pools!WorkersOwned, Pools!Worker
<1> QED  BY <1>9, <1>14, <1>15, <1>16, <1>17, <1>18 DEF Pools!PoolInv

\* thpool_destroy lowers the flag, and posts the semaphore as often as it takes.
LEMMA DestroyInv ==
    ASSUME Pools!PoolInv, NEW p \in Pool, Pools!Destroy(p) \/ Pools!PostAll(p)
    PROVE  Pools!PoolInv'
<1>0. Pools!PoolTypeOK /\ Pools!CountsExact /\ Pools!WorkersOwned /\ Pools!JobsOnce /\ Pools!JobsKept /\ Pools!WaitsDone
  BY DEF Pools!PoolInv
<1>1. keepalive' \in {0, 1} /\ worker' = worker /\ client.pc \in Pools!Job
      /\ Script[client.pc] = [op |-> "destroy", p |-> p]
  BY <1>0 DEF Pools!Destroy, Pools!PostAll, Pools!Calls, Pools!Job, Pools!PoolTypeOK
<1>2. client' = [client EXCEPT !.at = "kill"] /\ client.at # "spin"
  <2>1. CASE Pools!Destroy(p)
    BY <2>1 DEF Pools!Destroy, Pools!Calls
  <2>2. CASE Pools!PostAll(p)
    BY <2>2, <1>0, PoolShape DEF Pools!PostAll, Pools!Calls
  <2> QED  BY <2>1, <2>2
<1>3. pool' = pool \/ pool' = [pool EXCEPT ![p].sem = 1]
  <2>1. CASE Pools!Destroy(p)
    BY <2>1 DEF Pools!Destroy
  <2>2. CASE Pools!PostAll(p)
    BY <2>2, <1>0 DEF Pools!PostAll, Pools!BsemPost, Pools!PoolTypeOK
  <2> QED  BY <2>1, <2>2
<1>4. /\ client'.pc = client.pc /\ client'.done = client.done /\ client.pc \in Nat
      /\ client' \in [pc : 1 .. Len(Script) + 1, at : {"call", "spin", "asleep", "kill"},
                      done : Seq(Pools!Job), added : [Pool -> SUBSET Pools!Job]]
  BY <1>0, <1>2, PoolShape
<1>5. /\ pool' \in [Pool -> Pools!PoolRecord]
      /\ \A r \in Pool : /\ pool'[r].jobs = pool[r].jobs /\ pool'[r].up = pool[r].up
                         /\ pool'[r].working = pool[r].working /\ pool'[r].alive = pool[r].alive
  <2>1. CASE pool' = pool
    BY <2>1, <1>0 DEF Pools!PoolTypeOK
  <2>2. CASE pool' = [pool EXCEPT ![p].sem = 1]
    BY <2>2, <1>0 DEF Pools!PoolTypeOK, Pools!PoolRecord
  <2> QED  BY <2>1, <2>2, <1>3
<1>6. Pools!PoolTypeOK'
  BY <1>0, <1>1, <1>4, <1>5 DEF Pools!PoolTypeOK
<1>7. Pools!JobsOnce' /\ Pools!JobsKept'
  <2>1. QueuesSame /\ RunsSame /\ AddsSame
    BY <1>1, <1>4, <1>5 DEF QueuesSame, RunsSame, AddsSame, Pools!AddedTo
  <2> QED  BY <2>1, <1>0, <1>4, JobsStay
<1>8. Pools!WaitsDone'
  BY <1>0, <1>4, WaitsStay DEF Pools!WasRun
<1>9. Pools!CountsExact'
  <2>1. \A r \in Pool : pool'[r].working = pool[r].working /\ pool'[r].alive = pool[r].alive
    BY <1>5
  <2> QED  BY <2>1, <1>0, <1>1, CountsSame
<1>10. Pools!WorkersOwned'
  <2>1. \A v \in Pools!Worker : worker'[v].at # "start" /\ (~pool'[v[1]].up => worker'[v].at = "off")
    BY <1>0, <1>1, <1>2, <1>5, PoolShape DEF Pools!WorkersOwned, Pools!Calls
  <2>2. ASSUME NEW r \in Pool, pool'[r].up
        PROVE  \E k \in (1 .. client'.pc) \cap DOMAIN Script :
                 /\ Script[k] = [op |-> "init", p |-> r]
                 /\ k = client'.pc => client'.at = "spin"
                 /\ \A m \in k .. client'.pc - 1 : Script[m] # [op |-> "destroy", p |-> r]
    BY <2>2, <1>0, <1>2, <1>4, <1>5, UpStays DEF Pools!Calls
  <2> QED  BY <2>1, <2>2 DEF Pools!WorkersOwned, Pools!Worker
<1> QED  BY <1>6, <1>7, <1>8, <1>9, <1>10 DEF Pools!PoolInv

\* thpool_destroy returns: the queue it throws away is empty, since a wait came
\* after the last job, and its workers are gone.
LEMMA DestroyedInv ==
    ASSUME Pools!PoolInv, NEW p \in Pool, Pools!Destroyed(p)
    PROVE  Pools!PoolInv'
<1>0. Pools!PoolTypeOK /\ Pools!CountsExact /\ Pools!WorkersOwned /\ Pools!JobsOnce /\ Pools!JobsKept /\ Pools!WaitsDone
  BY DEF Pools!PoolInv
<1>1. keepalive' = keepalive /\ worker' = worker /\ client.pc \in Pools!Job /\ client.at = "kill"
      /\ Script[client.pc] = [op |-> "destroy", p |-> p] /\ pool[p].alive = 0
      /\ pool' = [pool EXCEPT ![p] = Pools!Cleared(pool[p])] /\ Pools!Return(client)
  BY DEF Pools!Destroyed, Pools!Calls, Pools!Job
<1>2. /\ client'.pc = client.pc + 1 /\ client'.at = "call" /\ client'.done = client.done
      /\ client.pc \in Nat /\ client'.pc \in Nat /\ client'.pc >= client.pc
  BY <1>0, <1>1, ReturnStep
<1> DEFINE q == pool[p].jobs
<1>3. q \in Seq(Pools!Job) /\ pool[p] \in Pools!PoolRecord
  BY <1>0, PoolShape DEF Pools!PoolRecord
<1>4. q = <<>>
  <2>1. PICK k \in 1 .. client.pc - 1 :
             /\ Script[k] = [op |-> "wait", p |-> p]
             /\ \A m \in k .. client.pc - 1 : Script[m] # [op |-> "add", p |-> p]
    BY <1>1, ScriptAssumption DEF Pools!ScriptSound, Pools!Job
  <2>2. \A a \in DOMAIN q : FALSE
    <3> SUFFICES ASSUME NEW a \in DOMAIN q  PROVE FALSE
      OBVIOUS
    <3>1. q[a] \in Pools!Job
      BY <1>3, ElementOfSeq, LenProperties
    <3>2. PICK j \in Pools!Job : j = q[a]
      BY <3>1
    <3>3. Pools!QueuedAt(j, p)
      BY <3>2 DEF Pools!QueuedAt
    <3>4. Pools!AddedTo(j, p) /\ ~Pools!WasRun(j)
      BY <3>3, <1>0 DEF Pools!JobsOnce
    <3>5. j \in 1 .. client.pc - 1 /\ j \notin k .. client.pc - 1 /\ Script[j] = [op |-> "add", p |-> p]
      BY <3>4, <2>1 DEF Pools!AddedTo
    <3>6. j \in 1 .. k
      BY <3>5, <2>1, <1>2
    <3>7. Pools!WasRun(j)
      BY <3>5, <3>6, <2>1, <1>0 DEF Pools!WaitsDone
    <3> QED  BY <3>4, <3>7
  <2>3. DOMAIN q = 1 .. Len(q) /\ Len(q) \in Nat
    BY <1>3, LenProperties
  <2> HIDE DEF q
  <2>4. Len(q) = 0
    BY <2>2, <2>3
  <2> QED  BY <2>4, <1>3, EmptySeq
<1>5. /\ \A r \in Pool \ {p} : pool'[r] = pool[r]
      /\ pool'[p] = Pools!Cleared(pool[p])
  BY <1>0, <1>1 DEF Pools!PoolTypeOK
<1>6. /\ pool'[p].jobs = q /\ pool'[p].up = FALSE /\ pool'[p].alive = pool[p].alive
      /\ pool'[p].working = pool[p].working /\ pool'[p] \in Pools!PoolRecord
  BY <1>3, <1>4, <1>5, EmptySeq DEF Pools!PoolRecord, Pools!Cleared
<1>7. Pools!PoolTypeOK'
  <2>1. pool' \in [Pool -> Pools!PoolRecord]
    BY <1>0, <1>1, <1>5, <1>6 DEF Pools!PoolTypeOK
  <2> QED  BY <2>1, <1>0, <1>1, ReturnStep DEF Pools!PoolTypeOK
<1>8. Pools!JobsOnce' /\ Pools!JobsKept'
  <2>1. QueuesSame
    BY <1>5, <1>6 DEF QueuesSame
  <2>2. RunsSame
    BY <1>1 DEF RunsSame
  <2>3. AddsSame
    BY <1>0, <1>1, <1>2, NoNewJob
  <2> QED  BY <2>1, <2>2, <2>3, <1>0, <1>2, JobsStay
<1>9. Pools!WaitsDone'
  <2>1. \A j \in Pools!Job : Pools!WasRun(j) => Pools!WasRun(j)'
    BY <1>2 DEF Pools!WasRun
  <2>2. client'.pc = client.pc + 1 /\ Script[client.pc].op # "wait"
    BY <1>1, <1>2
  <2> QED  BY <2>1, <2>2, <1>0, WaitsStay
<1>10. Pools!CountsExact'
  <2>1. \A r \in Pool : pool'[r].working = pool[r].working /\ pool'[r].alive = pool[r].alive
    BY <1>5, <1>6
  <2> QED  BY <2>1, <1>0, <1>1, CountsSame
<1>11. \A v \in Pools!Worker : worker[v].at # "start" /\ (v[1] = p => worker[v].at = "off")
  <2> SUFFICES ASSUME NEW v \in Pools!Worker
               PROVE  worker[v].at # "start" /\ (v[1] = p => worker[v].at = "off")
    OBVIOUS
  <2>1. worker[v].at # "start"
    BY <1>0, <1>1 DEF Pools!WorkersOwned, Pools!Calls
  <2>2. Pools!WorkersAt(p, Pools!Alive) = {}
    <3>1. Pools!WorkersAt(p, Pools!Alive) \subseteq {w \in Pools!Worker : w[1] = p}
      BY DEF Pools!WorkersAt
    <3>2. IsFiniteSet(Pools!WorkersAt(p, Pools!Alive))
      BY <3>1, WorkersFinite, FS_Subset
    <3>3. Cardinality(Pools!WorkersAt(p, Pools!Alive)) = 0
      BY <1>0, <1>1, PoolCardinality DEF Pools!CountsExact
    <3> QED  BY <3>2, <3>3, FS_EmptySet
  <2>3. v[1] = p => worker[v].at \notin Pools!Alive
    BY <2>2 DEF Pools!WorkersAt
  <2>4. worker[v].at \in Pools!At
    BY <1>0, PoolShape DEF Pools!WorkerRecord
  <2> QED  BY <2>1, <2>3, <2>4 DEF Pools!Alive, Pools!At
<1>12. Pools!WorkersOwned'
  <2>1. \A v \in Pools!Worker : worker'[v].at # "start" /\ (~pool'[v[1]].up => worker'[v].at = "off")
    BY <1>0, <1>1, <1>5, <1>11, PoolShape DEF Pools!WorkersOwned
  <2>2. ASSUME NEW r \in Pool, pool'[r].up
        PROVE  \E k \in (1 .. client'.pc) \cap DOMAIN Script :
                 /\ Script[k] = [op |-> "init", p |-> r]
                 /\ k = client'.pc => client'.at = "spin"
                 /\ \A m \in k .. client'.pc - 1 : Script[m] # [op |-> "destroy", p |-> r]
    <3>1. r # p /\ pool[r].up
      BY <2>2, <1>5, <1>6
    <3>2. client'.pc = client.pc + 1 /\ client.pc \in DOMAIN Script /\ Script[client.pc] # [op |-> "destroy", p |-> r]
      BY <3>1, <1>1, <1>2 DEF Pools!Job
    <3> QED  BY <3>1, <3>2, <1>0, UpStays
  <2> QED  BY <2>1, <2>2 DEF Pools!WorkersOwned, Pools!Worker
<1> QED  BY <1>7, <1>8, <1>9, <1>10, <1>12 DEF Pools!PoolInv

\* thpool_init makes the workers of a pool that has none.
LEMMA CallInitInv ==
    ASSUME Pools!PoolInv, NEW p \in Pool, Pools!CallInit(p)
    PROVE  Pools!PoolInv'
<1>0. Pools!PoolTypeOK /\ Pools!CountsExact /\ Pools!WorkersOwned /\ Pools!JobsOnce /\ Pools!JobsKept /\ Pools!WaitsDone
  BY DEF Pools!PoolInv
<1>1. keepalive' = 1 /\ client.pc \in Pools!Job /\ client.at = "call"
      /\ Script[client.pc] = [op |-> "init", p |-> p]
      /\ pool' = [pool EXCEPT ![p].up = TRUE]
      /\ worker' = [w \in Pools!Worker |-> IF w[1] = p THEN Pools!Idle("start") ELSE worker[w]]
      /\ client' = [client EXCEPT !.at = "spin"]
  BY DEF Pools!CallInit, Pools!Calls, Pools!Job
<1>2. /\ client'.pc = client.pc /\ client'.done = client.done /\ client.pc \in Nat /\ client'.at = "spin"
      /\ client' \in [pc : 1 .. Len(Script) + 1, at : {"call", "spin", "asleep", "kill"},
                      done : Seq(Pools!Job), added : [Pool -> SUBSET Pools!Job]]
  BY <1>0, <1>1, PoolShape
<1>3. ~pool[p].up
  <2> SUFFICES ASSUME pool[p].up  PROVE FALSE
    OBVIOUS
  <2>1. PICK k \in (1 .. client.pc) \cap DOMAIN Script :
             /\ Script[k] = [op |-> "init", p |-> p]
             /\ k = client.pc => client.at = "spin"
             /\ \A m \in k .. client.pc - 1 : Script[m] # [op |-> "destroy", p |-> p]
    BY <1>0 DEF Pools!WorkersOwned
  <2>2. k < client.pc /\ k \in DOMAIN Script /\ client.pc \in DOMAIN Script /\ Script[k] = Script[client.pc]
    BY <2>1, <1>1, <1>2 DEF Pools!Job
  <2>3. Script[client.pc].op = "init" /\ Script[client.pc].p = p
    BY <1>1
  <2>4. PICK m \in k .. client.pc - 1 : Script[m] = [op |-> "destroy", p |-> p]
    BY <2>2, <2>3, ScriptAssumption DEF Pools!ScriptSound
  <2> QED  BY <2>1, <2>4
<1>4. \A v \in Pools!Worker : worker[v].at # "start" /\ (v[1] = p => worker[v].at = "off")
  BY <1>0, <1>1, <1>3 DEF Pools!WorkersOwned, Pools!Calls
<1>5. /\ \A v \in Pools!Worker : v[1] = p => worker'[v].at = "start"
      /\ \A v \in Pools!Worker : v[1] # p => worker'[v] = worker[v]
      /\ worker' \in [Pools!Worker -> Pools!WorkerRecord]
  <2>1. Pools!Idle("start") \in Pools!WorkerRecord
    BY ScriptType DEF Pools!WorkerRecord, Pools!Idle, Pools!At
  <2> QED  BY <2>1, <1>0, <1>1, PoolShape DEF Pools!Idle
<1>6. /\ \A r \in Pool \ {p} : pool'[r] = pool[r]
      /\ pool'[p] = [pool[p] EXCEPT !.up = TRUE]
  BY <1>0, <1>1 DEF Pools!PoolTypeOK
<1>7. /\ pool'[p].jobs = pool[p].jobs /\ pool'[p].up = TRUE /\ pool'[p].alive = pool[p].alive
      /\ pool'[p].working = pool[p].working /\ pool'[p] \in Pools!PoolRecord
  <2>1. pool[p] \in Pools!PoolRecord
    BY <1>0, PoolShape
  <2> QED  BY <2>1, <1>6 DEF Pools!PoolRecord
<1>8. Pools!PoolTypeOK'
  <2>1. pool' \in [Pool -> Pools!PoolRecord]
    BY <1>0, <1>1, <1>6, <1>7 DEF Pools!PoolTypeOK
  <2> QED  BY <2>1, <1>1, <1>2, <1>5 DEF Pools!PoolTypeOK
<1>9. Pools!JobsOnce' /\ Pools!JobsKept'
  <2>1. QueuesSame
    BY <1>6, <1>7 DEF QueuesSame
  <2>2. RunsSame
    BY <1>4, <1>5 DEF RunsSame
  <2>3. AddsSame
    BY <1>2 DEF AddsSame, Pools!AddedTo
  <2> QED  BY <2>1, <2>2, <2>3, <1>0, <1>2, JobsStay
<1>10. Pools!WaitsDone'
  BY <1>0, <1>2, WaitsStay DEF Pools!WasRun
<1>11. Pools!CountsExact'
  <2>1. \A r \in Pool : pool'[r].working = pool[r].working /\ pool'[r].alive = pool[r].alive
    BY <1>6, <1>7
  <2>2. \A v \in Pools!Worker : /\ worker'[v].at \in Pools!AtJob <=> worker[v].at \in Pools!AtJob
                                /\ worker'[v].at \in Pools!Alive <=> worker[v].at \in Pools!Alive
    BY <1>4, <1>5 DEF Pools!AtJob, Pools!Alive
  <2>3. \A r \in Pool : /\ Pools!WorkersAt(r, Pools!AtJob)' = Pools!WorkersAt(r, Pools!AtJob)
                        /\ Pools!WorkersAt(r, Pools!Alive)' = Pools!WorkersAt(r, Pools!Alive)
    <3> SUFFICES ASSUME NEW r \in Pool
                 PROVE  /\ Pools!WorkersAt(r, Pools!AtJob)' = Pools!WorkersAt(r, Pools!AtJob)
                        /\ Pools!WorkersAt(r, Pools!Alive)' = Pools!WorkersAt(r, Pools!Alive)
      OBVIOUS
    <3> USE <2>2
    <3>1. Pools!WorkersAt(r, Pools!AtJob)' = {v \in Pools!Worker : v[1] = r /\ worker'[v].at \in Pools!AtJob}
      BY DEF Pools!WorkersAt, Pools!AtJob
    <3>2. Pools!WorkersAt(r, Pools!Alive)' = {v \in Pools!Worker : v[1] = r /\ worker'[v].at \in Pools!Alive}
      BY DEF Pools!WorkersAt, Pools!Alive
    <3> QED  BY <3>1, <3>2 DEF Pools!WorkersAt
  <2> QED  BY <2>1, <2>3, <1>0 DEF Pools!CountsExact, Pools!AtJob, Pools!Alive
<1>12. Pools!WorkersOwned'
  <2>1. \A v \in Pools!Worker : worker'[v].at = "start" => Pools!Calls("init", v[1], "spin")'
    <3>1. Pools!Calls("init", p, "spin")'
      BY <1>1, <1>2 DEF Pools!Calls, Pools!Job
    <3> QED  BY <3>1, <1>4, <1>5
  <2>2. \A v \in Pools!Worker : ~pool'[v[1]].up => worker'[v].at = "off"
    <3> SUFFICES ASSUME NEW v \in Pools!Worker, ~pool'[v[1]].up  PROVE worker'[v].at = "off"
      OBVIOUS
    <3>1. v[1] \in Pool
      BY <1>0, PoolShape
    <3>2. v[1] # p /\ ~pool[v[1]].up
      BY <3>1, <1>6, <1>7
    <3> QED  BY <3>2, <1>0, <1>5 DEF Pools!WorkersOwned
  <2>3. ASSUME NEW r \in Pool, pool'[r].up
        PROVE  \E k \in (1 .. client'.pc) \cap DOMAIN Script :
                 /\ Script[k] = [op |-> "init", p |-> r]
                 /\ k = client'.pc => client'.at = "spin"
                 /\ \A m \in k .. client'.pc - 1 : Script[m] # [op |-> "destroy", p |-> r]
    <3>1. CASE r = p
      <4>1. client.pc \in (1 .. client'.pc) \cap DOMAIN Script
        BY <1>1, <1>2, ScriptType DEF Pools!Job
      <4>2. \A m \in client.pc .. client'.pc - 1 : FALSE
        BY <1>2
      <4> QED  BY <4>1, <4>2, <3>1, <1>1, <1>2
    <3>2. CASE r # p
      BY <3>2, <2>3, <1>0, <1>1, <1>2, <1>6, UpStays DEF Pools!Calls
    <3> QED  BY <3>1, <3>2
  <2> QED  BY <2>1, <2>2, <2>3 DEF Pools!WorkersOwned, Pools!Worker
<1> QED  BY <1>8, <1>9, <1>10, <1>11, <1>12 DEF Pools!PoolInv

\* Every step of the client and of the workers.
LEMMA PoolsNext ==
    ASSUME Pools!PoolInv, Pools!NextPools
    PROVE  Pools!PoolInv'
<1>1. ASSUME NEW w \in Pools!Worker, Pools!Steps(w)
      PROVE  Pools!PoolInv'
  <2>1. CASE Pools!PullJob(w)
    BY <2>1, PullInv, PullNothing
  <2> QED  BY <2>1, <1>1, WorkerSteps, RunInv, RestInv DEF Pools!Steps
<1>2. ASSUME NEW p \in Pool,
             Pools!CallInit(p) \/ Pools!InitDone(p) \/ Pools!AddWork(p) \/ Pools!Wait(p) \/ Pools!Destroy(p)
                \/ Pools!PostAll(p) \/ Pools!Destroyed(p)
      PROVE  Pools!PoolInv'
  BY <1>2, CallInitInv, InitDoneInv, AddInv, WaitInv, DestroyInv, DestroyedInv
<1> QED  BY <1>1, <1>2 DEF Pools!NextPools, Pools!ClientSteps

\* The invariant gives what thpool_wait promises: a job in the list of jobs done
\* is there once.
LEMMA PoolsDone ==
    ASSUME Pools!PoolInv
    PROVE  Pools!WaitMeansDone
<1>0. Pools!PoolTypeOK /\ Pools!JobsOnce /\ Pools!WaitsDone
  BY DEF Pools!PoolInv
<1> DEFINE D(j) == {i \in DOMAIN client.done : client.done[i] = j}
<1>1. \A j : Pools!Ran(j) = Cardinality(D(j))
  BY PoolCardinality DEF Pools!Ran
<1>2. \A a, b \in DOMAIN client.done : client.done[a] = client.done[b] => a = b
  BY <1>0 DEF Pools!JobsOnce
<1>3. \A j : D(j) = {} \/ \E i : D(j) = {i}
  BY <1>2
<1>4. \A j : Pools!WasRun(j) => D(j) # {}
  BY DEF Pools!WasRun
<1> HIDE DEF D
<1>5. \A j : Cardinality(D(j)) \in {0, 1} /\ (D(j) # {} => Cardinality(D(j)) = 1)
  BY <1>3, FS_EmptySet, FS_Singleton
<1>6. \A j \in DOMAIN Script : Pools!Ran(j) <= 1
  <2>1. \A x \in {0, 1} : x <= 1
    OBVIOUS
  <2> QED  BY <2>1, <1>1, <1>5
<1>7. \A j : Pools!WasRun(j) => Pools!Ran(j) = 1
  BY <1>1, <1>4, <1>5
<1> QED  BY <1>0, <1>6, <1>7 DEF Pools!WaitMeansDone, Pools!WaitsDone

\* For every script of calls that makes a pool before it uses it and waits before
\* it destroys it, and for any number of threads: when thpool_wait has returned,
\* every job added to the pool before has been run, exactly once.
THEOREM JobsRunExactlyOnce == Spec => []DoneExactlyOnce
<1> DEFINE Inv == part = "pools" => Pools!PoolInv
<1>1. Init => Inv
  BY PoolsInit DEF Init
<1>2. Inv /\ [Next]_vars => Inv'
  <2> SUFFICES ASSUME Inv, [Next]_vars, part' = "pools"  PROVE Pools!PoolInv'
    OBVIOUS
  <2>1. part = "pools" /\ Pools!PoolInv
    BY DEF Next, vars
  <2>2. Pools!NextPools \/ UNCHANGED poolVars
    BY <2>1 DEF Next, vars
  <2>3. CASE UNCHANGED poolVars
    <3>1. keepalive' = keepalive /\ pool' = pool /\ worker' = worker /\ client' = client
      BY <2>3 DEF poolVars
    <3>2. Pools!PoolTypeOK'
      BY <3>1, <2>1 DEF Pools!PoolInv, Pools!PoolTypeOK
    <3>3. Pools!JobsOnce' /\ Pools!JobsKept'
      <4>1. QueuesSame /\ RunsSame /\ AddsSame
        BY <3>1 DEF QueuesSame, RunsSame, AddsSame, Pools!AddedTo
      <4> QED  BY <4>1, <3>1, <2>1, JobsStay, PoolShape DEF Pools!PoolInv
    <3>4. Pools!WaitsDone' /\ Pools!WorkersOwned'
      BY <3>1, <2>1 DEF Pools!PoolInv, Pools!WaitsDone, Pools!WorkersOwned, Pools!WasRun, Pools!Calls
    <3>5. Pools!CountsExact'
      BY <3>1, <2>1, CountsSame DEF Pools!PoolInv
    <3> QED  BY <3>2, <3>3, <3>4, <3>5 DEF Pools!PoolInv
  <2> QED  BY <2>1, <2>2, <2>3, PoolsNext
<1>3. Inv => DoneExactlyOnce
  BY PoolsDone DEF DoneExactlyOnce
<1> QED  BY <1>1, <1>2, <1>3, PTL DEF Spec

-----------------------------------------------------------------------------
(* The benchmark driver.                                                   *)

\* The benchmark driver counts with the Cardinality of FiniteSets.
LEMMA BenchCardinality == \A S : Bench!Cardinality(S) = Cardinality(S)
BY DEF Bench!Cardinality, Cardinality

\* The numbers of a benchmark: its commands have requests, and there are finitely
\* many of them.
LEMMA BenchNumbers ==
    ASSUME NEW t \in Bench!Asked
    PROVE  /\ t.start \in Nat /\ t.end \in Nat /\ t.number \in Nat
           /\ Bench!Width(t) \in Nat \ {0}
           /\ Bench!Count(t) \in Nat
           /\ Bench!Count(t) \div 2 \in Nat /\ t.number \div 2 \in Nat
<1>1. t.start \in Nat /\ t.end \in Nat /\ t.number \in Nat
  BY DEF Bench!Asked
<1>2. PerCommand \in Nat \ {0}
  BY PlanAssumption DEF Bench!PlansSound
<1>3. Bench!Width(t) \in Nat \ {0}
  BY <1>2 DEF Bench!Width
<1>4. \A a \in Nat, b \in Nat \ {0} : a \div b \in Nat
  OBVIOUS
<1>5. Bench!Count(t) \in Nat
  BY <1>1, <1>3, <1>4 DEF Bench!Count
<1> QED  BY <1>1, <1>3, <1>4, <1>5

\* Multiplying by a number of requests keeps the order of numbers of commands.
LEMMA TimesOrder ==
    ASSUME NEW a \in Nat, NEW b \in Nat, NEW w \in Nat, a <= b
    PROVE  a * w \in Nat /\ b * w \in Nat /\ a * w <= b * w
<1>1. \A d \in Nat : (a + d) * w = a * w + d * w /\ d * w \in Nat /\ a * w \in Nat
  OBVIOUS
<1>2. PICK d \in Nat : b = a + d
  <2>1. b - a \in Nat /\ b = a + (b - a)
    OBVIOUS
  <2> QED  BY <2>1
<1> QED  BY <1>1, <1>2

\* One more command has Width more requests.
LEMMA TimesNext ==
    ASSUME NEW a \in Nat, NEW w \in Nat
    PROVE  (a + 1) * w = a * w + w /\ a * w \in Nat
OBVIOUS

\* A function on 1 .. n is a sequence.
LEMMA FunctionIsSeq ==
    ASSUME NEW S, NEW n \in Nat, NEW f \in [1 .. n -> S]
    PROVE  f \in Seq(S) /\ Len(f) = n /\ DOMAIN f = 1 .. n
BY IsASeq, LenProperties

\* A command is an operation and the keys it is about.
LEMMA CommandType ==
    ASSUME NEW op \in {"R", "W"}, NEW keys \in Seq(Int)
    PROVE  /\ Bench!Command(op, keys) \in Bench!CommandRecord
           /\ Bench!Command(op, keys).op = op /\ Bench!Command(op, keys).keys = keys
BY DEF Bench!Command, Bench!CommandRecord

\* Every command of a benchmark has the operation op.
AllOf(b, op) == \A i \in DOMAIN b : b[i].op = op

\* No command of a benchmark leaves the range of t.
InRange(b, t) == \A i \in DOMAIN b : Bench!ToSet(b[i].keys) \subseteq t.start .. t.end

\* Every read has its write half a benchmark earlier.
ReadsBack(b) ==
    \A i \in DOMAIN b : b[i].op = "R" =>
        \E h \in 1 .. i - 1 : b[h].op = "W" /\ b[h].keys = b[i].keys /\ h = i - (Len(b) \div 2)

\* The commands on keys of a set.
CommandsOn(op, K) == {Bench!Command(op, keys) : keys \in Seq(K)}

\* A sequence of commands, each with its keys in a set of numbers.
LEMMA BodyOf ==
    ASSUME NEW n \in Nat, NEW op \in {"R", "W"}, NEW t, NEW K \in SUBSET Int,
           NEW b \in [1 .. n -> CommandsOn(op, K)]
    PROVE  /\ b \in Seq(Bench!CommandRecord) /\ Len(b) = n /\ AllOf(b, op)
           /\ K \subseteq t.start .. t.end => InRange(b, t)
<1>1. \A keys \in Seq(K) : keys \in Seq(Int) /\ Bench!ToSet(keys) \subseteq K
  <2> TAKE keys \in Seq(K)
  <2>1. Len(keys) \in Nat /\ keys \in [1 .. Len(keys) -> K] /\ DOMAIN keys = 1 .. Len(keys)
    BY LenProperties
  <2>2. keys \in [1 .. Len(keys) -> Int]
    BY <2>1
  <2>3. keys \in Seq(Int)
    BY <2>1, <2>2, FunctionIsSeq
  <2> QED  BY <2>1, <2>3 DEF Bench!ToSet
<1>2. \A i \in 1 .. n : /\ b[i] \in Bench!CommandRecord /\ b[i].op = op
                        /\ Bench!ToSet(b[i].keys) \subseteq K
  <2> TAKE i \in 1 .. n
  <2>1. PICK keys \in Seq(K) : b[i] = Bench!Command(op, keys)
    BY DEF CommandsOn
  <2> QED  BY <2>1, <1>1, CommandType
<1>3. b \in [1 .. n -> Bench!CommandRecord]
  BY <1>2
<1>4. b \in Seq(Bench!CommandRecord) /\ Len(b) = n
  BY <1>3, FunctionIsSeq
<1>5. AllOf(b, op)
  BY <1>2 DEF AllOf
<1>6. K \subseteq t.start .. t.end => InRange(b, t)
  BY <1>2 DEF InRange
<1> QED  BY <1>4, <1>5, <1>6

\* seqget, seqset: the keys of the range in turn.
LEMMA CyclicBody ==
    ASSUME NEW t \in Bench!Asked, t.start < t.end, NEW n \in Nat, NEW op \in {"R", "W"},
           NEW b \in Bench!Cyclic(op, t, n)
    PROVE  b \in Seq(Bench!CommandRecord) /\ Len(b) = n /\ AllOf(b, op) /\ InRange(b, t)
<1>1. t.start \in Nat /\ t.end \in Nat
  BY BenchNumbers
<1> DEFINE K == t.start .. t.end
<1>2. b = [i \in 1 .. n |-> Bench!Command(op, Bench!Wrapped(t, i))]
  BY DEF Bench!Cyclic
<1>3. \A i \in 1 .. n : Bench!Wrapped(t, i) \in Seq(K)
  <2> TAKE i \in 1 .. n
  <2>1. (i - 1) % (t.end - t.start) \in 0 .. (t.end - t.start) - 1
    <3>1. \A a \in Nat, d \in Nat \ {0} : a % d \in 0 .. d - 1
      OBVIOUS
    <3>2. i - 1 \in Nat /\ t.end - t.start \in Nat \ {0}
      BY <1>1
    <3> QED  BY <3>1, <3>2
  <2>2. t.start + ((i - 1) % (t.end - t.start)) \in K
    BY <1>1, <2>1
  <2> QED  BY <2>2 DEF Bench!Wrapped
<1>4. K \in SUBSET Int
  OBVIOUS
<1> HIDE DEF K
<1>5. b \in [1 .. n -> CommandsOn(op, K)]
  BY <1>2, <1>3 DEF CommandsOn
<1>6. K \subseteq t.start .. t.end
  BY DEF K
<1> QED  BY <1>4, <1>5, <1>6, BodyOf

\* rand(): any keys of the range.
LEMMA RandomBody ==
    ASSUME NEW t \in Bench!Asked, NEW n \in Nat, NEW op \in {"R", "W"},
           NEW b \in Bench!Random(op, t, n)
    PROVE  b \in Seq(Bench!CommandRecord) /\ Len(b) = n /\ AllOf(b, op) /\ InRange(b, t)
<1>1. t.start \in Nat /\ t.end \in Nat /\ Bench!Width(t) \in Nat
  BY BenchNumbers
<1> DEFINE K == Bench!In(t)
<1>2. K \in SUBSET Int /\ K \subseteq t.start .. t.end
  BY <1>1 DEF Bench!In
<1>3. b \in [1 .. n -> {Bench!Command(op, k) : k \in [1 .. Bench!Width(t) -> K]}]
  BY DEF Bench!Random
<1> HIDE DEF K
<1>5. \A k \in [1 .. Bench!Width(t) -> K] : k \in Seq(K)
  BY <1>1, FunctionIsSeq
<1>6. b \in [1 .. n -> CommandsOn(op, K)]
  BY <1>3, <1>5 DEF CommandsOn
<1> QED  BY <1>2, <1>6, BodyOf

\* vectored_set and vectored_get in sequence.
LEMMA SequentialBody ==
    ASSUME NEW t \in Bench!Asked, NEW op \in {"R", "W"}, NEW b \in Bench!Sequential(op, t)
    PROVE  /\ b \in Seq(Bench!CommandRecord) /\ Len(b) = Bench!Count(t)
           /\ Bench!Count(t) * Bench!Width(t) <= t.end - t.start => InRange(b, t)
<1> DEFINE n == Bench!Count(t)
           w == Bench!Width(t)
           K == t.start .. t.start + n * w - 1
<1>1. t.start \in Nat /\ t.end \in Nat /\ w \in Nat \ {0} /\ n \in Nat
  BY BenchNumbers
<1>2. b = [i \in 1 .. n |-> Bench!Command(op, Bench!Run(t, i))]
  BY DEF Bench!Sequential
<1>3. \A i \in 1 .. n, j \in 1 .. w : t.start + (i - 1) * w + j - 1 \in t.start .. t.start + n * w - 1
  <2> HIDE DEF n, w
  <2> TAKE i \in 1 .. n, j \in 1 .. w
  <2>1. i - 1 \in Nat /\ (i - 1) + 1 = i /\ i <= n
    BY <1>1
  <2>2. i * w = (i - 1) * w + w /\ (i - 1) * w \in Nat
    BY <2>1, <1>1, TimesNext
  <2>3. i * w <= n * w /\ n * w \in Nat
    BY <2>1, <1>1, TimesOrder
  <2> QED  BY <1>1, <2>2, <2>3
<1>4. \A i \in 1 .. n : Bench!Run(t, i) \in Seq(K)
  <2> TAKE i \in 1 .. n
  <2>1. Bench!Run(t, i) \in [1 .. w -> K]
    BY <1>3 DEF Bench!Run
  <2> HIDE DEF K, w
  <2> QED  BY <2>1, <1>1, FunctionIsSeq
<1>5. K \in SUBSET Int
  OBVIOUS
<1>6. n * w <= t.end - t.start => K \subseteq t.start .. t.end
  <2>1. n * w \in Nat
    BY <1>1, TimesOrder
  <2> HIDE DEF n, w
  <2> QED  BY <1>1, <2>1
<1> HIDE DEF K
<1>7. b \in [1 .. n -> CommandsOn(op, K)]
  BY <1>2, <1>4 DEF CommandsOn
<1> QED  BY <1>1, <1>5, <1>6, <1>7, BodyOf

\* vectored_partial_rw writes four blocks from a start.
LEMMA PartialBody ==
    ASSUME NEW t \in Bench!Asked, NEW b \in Bench!Partial(t)
    PROVE  b \in Seq(Bench!CommandRecord) /\ Len(b) = Bench!Count(t) \div 2 /\ AllOf(b, "W")
<1>1. t.start \in Nat /\ t.end \in Nat /\ Bench!Count(t) \div 2 \in Nat
  BY BenchNumbers
<1> DEFINE n == Bench!Count(t) \div 2
<1>2. \A k \in Bench!In(t) : [j \in 1 .. 4 |-> k + j - 1] \in Seq(Int)
  <2> TAKE k \in Bench!In(t)
  <2>1. [j \in 1 .. 4 |-> k + j - 1] \in [1 .. 4 -> Int]
    BY <1>1 DEF Bench!In
  <2>2. 4 \in Nat
    OBVIOUS
  <2> QED  BY <2>1, <2>2, FunctionIsSeq
<1>3. b \in [1 .. n -> CommandsOn("W", Int)]
  BY <1>2 DEF CommandsOn, Bench!Partial
<1>4. Int \in SUBSET Int /\ "W" \in {"R", "W"}
  OBVIOUS
<1> QED  BY <1>1, <1>3, <1>4, BodyOf

\* vectored_unique_rset: the first keys in any order, a command after the other.
LEMMA ChunkedBody ==
    ASSUME NEW t \in Bench!Asked,
           NEW f \in Bench!Shuffled(0 .. (Bench!Count(t) * Bench!Width(t)) - 1)
    PROVE  LET b == Bench!Chunked(f, t)
           IN  /\ b \in Seq(Bench!CommandRecord) /\ Len(b) = Bench!Count(t)
               /\ Bench!Count(t) * Bench!Width(t) <= t.end - t.start /\ t.start = 0 => InRange(b, t)
<1> DEFINE n == Bench!Count(t)
           w == Bench!Width(t)
           K == 0 .. n * w - 1
           b == Bench!Chunked(f, t)
<1>1. t.start \in Nat /\ t.end \in Nat /\ w \in Nat \ {0} /\ n \in Nat
  BY BenchNumbers
<1>2. n * w \in Nat
  BY <1>1, TimesOrder
<1>3. Cardinality(K) = n * w
  <2> HIDE DEF n, w
  <2>1. 0 \in Int /\ n * w - 1 \in Int
    BY <1>2
  <2> QED  BY <2>1, <1>2, FS_Interval
<1>4. f \in [K -> K]
  <2>1. f \in [0 .. Bench!Cardinality(K) - 1 -> K]
    BY DEF Bench!Shuffled
  <2> QED  BY <2>1, <1>3, BenchCardinality
<1>5. \A i \in 1 .. n, j \in 1 .. w : ((i - 1) * w + j) - 1 \in K
  <2> HIDE DEF n, w
  <2> TAKE i \in 1 .. n, j \in 1 .. w
  <2>1. i - 1 \in Nat /\ (i - 1) + 1 = i /\ i <= n
    BY <1>1
  <2>2. i * w = (i - 1) * w + w /\ (i - 1) * w \in Nat
    BY <2>1, <1>1, TimesNext
  <2>3. i * w <= n * w
    BY <2>1, <1>1, TimesOrder
  <2> QED  BY <1>1, <1>2, <2>2, <2>3
<1>6. K \in SUBSET Int
  OBVIOUS
<1>7. n * w <= t.end - t.start /\ t.start = 0 => K \subseteq t.start .. t.end
  <2> HIDE DEF n, w
  <2> QED  BY <1>1, <1>2
<1>8. b = [i \in 1 .. n |-> Bench!Command("W", [j \in 1 .. w |-> f[((i - 1) * w + j) - 1]])]
  BY DEF Bench!Chunked
<1> HIDE DEF K, b, n, w
<1>9. \A i \in 1 .. n : [j \in 1 .. w |-> f[((i - 1) * w + j) - 1]] \in Seq(K)
  <2> TAKE i \in 1 .. n
  <2>1. [j \in 1 .. w |-> f[((i - 1) * w + j) - 1]] \in [1 .. w -> K]
    BY <1>4, <1>5
  <2> QED  BY <2>1, <1>1, FunctionIsSeq
<1>10. b \in [1 .. n -> CommandsOn("W", K)]
  BY <1>8, <1>9 DEF CommandsOn
<1>11. "W" \in {"R", "W"}
  OBVIOUS
<1>12. /\ b \in Seq(Bench!CommandRecord) /\ Len(b) = n
       /\ n * w <= t.end - t.start /\ t.start = 0 => InRange(b, t)
  BY <1>1, <1>6, <1>7, <1>10, <1>11, BodyOf
<1> QED  BY <1>12 DEF b, n, w

\* fillrand: the keys of the range in any order, over and over.
LEMMA FillRandBody ==
    ASSUME NEW t \in Bench!Asked, t.start < t.end, NEW b \in Bench!FillRand(t)
    PROVE  b \in Seq(Bench!CommandRecord) /\ InRange(b, t)
<1> DEFINE K == t.start .. t.end
           d == (t.end - t.start) + 1
           n == t.number
<1>1. t.start \in Nat /\ t.end \in Nat /\ n \in Nat
  BY BenchNumbers
<1>2. d \in Nat \ {0} /\ Cardinality(K) = d
  <2>1. d \in Nat \ {0}
    BY <1>1
  <2>2. \A x, y \in Int : x < y => Cardinality(x .. y) = (y - x) + 1
    BY FS_Interval
  <2> QED  BY <2>1, <2>2, <1>1
<1>3. PICK f \in Bench!Shuffled(K) :
         b = [i \in 1 .. n |-> Bench!Command("W", <<f[(i - 1) % d]>>)]
  <2>1. Bench!FillRand(t) = {[i \in 1 .. n |-> Bench!Command("W", <<f[(i - 1) % d]>>)] : f \in Bench!Shuffled(K)}
    BY DEF Bench!FillRand
  <2> HIDE DEF K, d, n
  <2> QED  BY <2>1
<1>4. f \in [0 .. d - 1 -> K]
  <2>1. f \in [0 .. Bench!Cardinality(K) - 1 -> K]
    BY DEF Bench!Shuffled
  <2> QED  BY <2>1, <1>2, BenchCardinality
<1>5. K \in SUBSET Int /\ K \subseteq t.start .. t.end /\ "W" \in {"R", "W"}
  OBVIOUS
<1> HIDE DEF K, d, n
<1>6. \A i \in 1 .. n : <<f[(i - 1) % d]>> \in Seq(K)
  <2> TAKE i \in 1 .. n
  <2>1. \A a \in Nat, e \in Nat \ {0} : a % e \in 0 .. e - 1
    OBVIOUS
  <2>2. (i - 1) % d \in 0 .. d - 1
    BY <2>1, <1>1, <1>2
  <2>3. f[(i - 1) % d] \in K
    BY <2>2, <1>4
  <2> QED  BY <2>3
<1>7. b \in [1 .. n -> CommandsOn("W", K)]
  BY <1>3, <1>6 DEF CommandsOn
<1> QED  BY <1>1, <1>5, <1>7, BodyOf

\* mixed: reads and writes of any keys of the range.
LEMMA MixedBody ==
    ASSUME NEW t \in Bench!Asked, NEW b \in Bench!Mixed(t)
    PROVE  b \in Seq(Bench!CommandRecord) /\ InRange(b, t)
<1>1. t.start \in Nat /\ t.end \in Nat /\ t.number \in Nat
  BY BenchNumbers
<1> DEFINE S == {Bench!Command(op, <<k>>) : op \in {"R", "W"}, k \in Bench!In(t)}
<1>2. b \in [1 .. t.number -> S]
  BY DEF Bench!Mixed
<1>3. \A i \in 1 .. t.number : \E op \in {"R", "W"}, k \in Bench!In(t) : b[i] = Bench!Command(op, <<k>>)
  BY <1>2
<1> HIDE DEF S
<1>4. \A k \in Bench!In(t) : k \in t.start .. t.end /\ <<k>> \in Seq(Int) /\ Bench!ToSet(<<k>>) = {k}
  BY <1>1 DEF Bench!In, Bench!ToSet
<1>5. \A i \in 1 .. t.number :
         b[i] \in Bench!CommandRecord /\ Bench!ToSet(b[i].keys) \subseteq t.start .. t.end
  <2> TAKE i \in 1 .. t.number
  <2>1. PICK op \in {"R", "W"}, k \in Bench!In(t) : b[i] = Bench!Command(op, <<k>>)
    BY <1>3
  <2> DEFINE keys == <<k>>
  <2>2. keys \in Seq(Int) /\ Bench!ToSet(keys) \subseteq t.start .. t.end
    BY <1>4
  <2>3. b[i] = Bench!Command(op, keys)
    BY <2>1
  <2> HIDE DEF keys
  <2>4. b[i] \in Bench!CommandRecord /\ b[i].keys = keys
    BY <2>2, <2>3, CommandType
  <2> QED  BY <2>2, <2>4
<1>6. b \in [1 .. t.number -> Bench!CommandRecord]
  BY <1>2, <1>5
<1>7. b \in Seq(Bench!CommandRecord) /\ DOMAIN b = 1 .. t.number
  BY <1>1, <1>6, FunctionIsSeq
<1> QED  BY <1>5, <1>7 DEF InRange

\* The second half of a benchmark that writes and reads reads the first.
LEMMA WithReadsBody ==
    ASSUME NEW ws \in Seq(Bench!CommandRecord), AllOf(ws, "W"), NEW t
    PROVE  LET b == Bench!WithReads(ws)
           IN  /\ b \in Seq(Bench!CommandRecord) /\ ReadsBack(b) /\ Len(b) = Len(ws) + Len(ws)
               /\ InRange(ws, t) => InRange(b, t)
<1> DEFINE n == Len(ws)
           rs == [i \in DOMAIN ws |-> Bench!Command("R", ws[i].keys)]
           b == Bench!WithReads(ws)
<1>1. n \in Nat /\ DOMAIN ws = 1 .. n /\ ws \in [1 .. n -> Bench!CommandRecord]
  BY LenProperties
<1>2. \A i \in 1 .. n : /\ ws[i].op = "W" /\ ws[i].keys \in Seq(Int)
                        /\ rs[i] \in Bench!CommandRecord /\ rs[i].op = "R" /\ rs[i].keys = ws[i].keys
  <2> TAKE i \in 1 .. n
  <2>1. ws[i].op = "W"
    BY <1>1 DEF AllOf
  <2>2. ws[i].keys \in Seq(Int)
    BY <1>1 DEF Bench!CommandRecord
  <2>3. rs[i] = Bench!Command("R", ws[i].keys) /\ "R" \in {"R", "W"}
    BY <1>1
  <2> HIDE DEF rs
  <2> QED  BY <2>1, <2>2, <2>3, CommandType
<1>3. rs \in [1 .. n -> Bench!CommandRecord]
  BY <1>1, <1>2
<1>4. b = ws \o rs
  BY DEF Bench!WithReads
<1> HIDE DEF n, rs, b
<1>5. rs \in Seq(Bench!CommandRecord) /\ Len(rs) = n
  BY <1>1, <1>3, FunctionIsSeq
<1>6. /\ b \in Seq(Bench!CommandRecord) /\ Len(b) = n + n
      /\ \A i \in 1 .. n + n : b[i] = IF i <= n THEN ws[i] ELSE rs[i - n]
  <2> DEFINE C == Bench!CommandRecord
  <2> HIDE DEF C
  <2>1. ws \in Seq(C) /\ rs \in Seq(C)
    BY <1>5 DEF C
  <2>2. /\ ws \o rs \in Seq(C) /\ Len(ws \o rs) = Len(ws) + Len(rs)
        /\ \A i \in 1 .. Len(ws) + Len(rs) : (ws \o rs)[i] = IF i <= Len(ws) THEN ws[i] ELSE rs[i - Len(ws)]
    BY <2>1, ConcatProperties
  <2> QED  BY <2>2, <1>4, <1>5 DEF n, C
<1>7. DOMAIN b = 1 .. n + n
  BY <1>6, LenProperties
<1>8. Len(b) \div 2 = n
  BY <1>6, <1>1
<1>9. \A i \in 1 .. n : b[i] = ws[i] /\ b[i + n] = rs[i]
  <2> TAKE i \in 1 .. n
  <2>1. i \in 1 .. n + n /\ i + n \in 1 .. n + n /\ i <= n /\ ~(i + n <= n) /\ (i + n) - n = i
    BY <1>1
  <2> QED  BY <2>1, <1>6
<1>10. \A i \in DOMAIN b : i \in 1 .. n \/ \E h \in 1 .. n : i = h + n
  <2> TAKE i \in DOMAIN b
  <2>1. i \in 1 .. n \/ (i - n \in 1 .. n /\ i = (i - n) + n)
    BY <1>1, <1>7
  <2> QED  BY <2>1
<1>11. ReadsBack(b)
  <2> SUFFICES ASSUME NEW i \in DOMAIN b, b[i].op = "R"
               PROVE  \E h \in 1 .. i - 1 : b[h].op = "W" /\ b[h].keys = b[i].keys /\ h = i - (Len(b) \div 2)
    BY DEF ReadsBack
  <2>1. ~(i \in 1 .. n)
    BY <1>2, <1>9
  <2>2. PICK h \in 1 .. n : i = h + n
    BY <2>1, <1>10
  <2>3. h \in 1 .. i - 1 /\ h = i - n
    BY <2>2, <1>1
  <2>4. b[h] = ws[h] /\ b[i] = rs[h]
    BY <2>2, <1>9
  <2>5. b[h].op = "W" /\ b[h].keys = b[i].keys
    BY <2>4, <1>2
  <2> QED  BY <2>3, <2>5, <1>8
<1>12. ASSUME InRange(ws, t)  PROVE InRange(b, t)
  <2> SUFFICES ASSUME NEW i \in DOMAIN b  PROVE Bench!ToSet(b[i].keys) \subseteq t.start .. t.end
    BY DEF InRange
  <2>1. \A h \in 1 .. n : Bench!ToSet(ws[h].keys) \subseteq t.start .. t.end
    BY <1>1, <1>12 DEF InRange
  <2>2. CASE i \in 1 .. n
    BY <2>1, <2>2, <1>9
  <2>3. CASE \E h \in 1 .. n : i = h + n
    <3>1. PICK h \in 1 .. n : i = h + n
      BY <2>3
    <3>2. b[i].keys = ws[h].keys
      BY <3>1, <1>2, <1>9
    <3> QED  BY <3>1, <3>2, <2>1
  <2> QED  BY <2>2, <2>3, <1>10
<1> QED  BY <1>6, <1>11, <1>12 DEF b, n

\* What every generator makes.
LEMMA BodySound ==
    ASSUME NEW t \in Bench!Asked, t.start < t.end, NEW b \in Bench!Bodies(t)
    PROVE  /\ b \in Seq(Bench!CommandRecord)
           /\ t.type \in {"SEQRW", "RANDRW", "VRW", "VPARTIAL"} => ReadsBack(b)
           /\ t.type # "VPARTIAL" /\ Bench!Fits(t) => InRange(b, t)
<1>0. /\ t.number \in Nat /\ t.number \div 2 \in Nat
      /\ Bench!Count(t) \in Nat /\ Bench!Count(t) \div 2 \in Nat
  BY BenchNumbers
<1>a. "R" \in {"R", "W"} /\ "W" \in {"R", "W"}
  OBVIOUS
<1>1. CASE t.type \in {"SEQGET", "SEQSET"}
  <2>1. b \in Bench!Cyclic("R", t, t.number) \/ b \in Bench!Cyclic("W", t, t.number)
    BY <1>1 DEF Bench!Bodies
  <2> QED  BY <2>1, <1>0, <1>1, <1>a, CyclicBody
<1>2. CASE t.type \in {"RANDGET", "RANDSET"}
  <2>1. b \in Bench!Random("R", t, t.number) \/ b \in Bench!Random("W", t, t.number)
    BY <1>2 DEF Bench!Bodies
  <2> QED  BY <2>1, <1>0, <1>2, <1>a, RandomBody
<1>3. CASE t.type = "SEQRW"
  <2>1. PICK ws \in Bench!Cyclic("W", t, t.number \div 2) : b = Bench!WithReads(ws)
    BY <1>3 DEF Bench!Bodies, Bench!SeqRw
  <2>2. ws \in Seq(Bench!CommandRecord) /\ AllOf(ws, "W") /\ InRange(ws, t)
    BY <2>1, <1>0, <1>a, CyclicBody
  <2> QED  BY <2>1, <2>2, <1>3, WithReadsBody
<1>4. CASE t.type = "RANDRW"
  <2>1. PICK ws \in Bench!Random("W", t, t.number \div 2) : b = Bench!WithReads(ws)
    BY <1>4 DEF Bench!Bodies, Bench!RandRw
  <2>2. ws \in Seq(Bench!CommandRecord) /\ AllOf(ws, "W") /\ InRange(ws, t)
    BY <2>1, <1>0, <1>a, RandomBody
  <2> QED  BY <2>1, <2>2, <1>4, WithReadsBody
<1>5. CASE t.type = "MIXED"
  BY <1>5, MixedBody DEF Bench!Bodies
<1>6. CASE t.type = "FILLRAND"
  BY <1>6, FillRandBody DEF Bench!Bodies
<1>7. CASE t.type \in {"VSSET", "VSGET"}
  <2>1. b \in Bench!Sequential("R", t) \/ b \in Bench!Sequential("W", t)
    BY <1>7 DEF Bench!Bodies
  <2> QED  BY <2>1, <1>7, <1>a, SequentialBody DEF Bench!Fits
<1>8. CASE t.type \in {"VRSET", "VRGET", "VTEMPORAL"}
  <2>1. b \in Bench!Random("R", t, Bench!Count(t)) \/ b \in Bench!Random("W", t, Bench!Count(t))
    BY <1>8 DEF Bench!Bodies, Bench!Temporal
  <2> QED  BY <2>1, <1>0, <1>8, <1>a, RandomBody
<1>9. CASE t.type = "VUNIQ"
  <2>1. PICK f \in Bench!Shuffled(0 .. (Bench!Count(t) * Bench!Width(t)) - 1) : b = Bench!Chunked(f, t)
    BY <1>9 DEF Bench!Bodies
  <2> QED  BY <2>1, <1>9, ChunkedBody DEF Bench!Fits
<1>10. CASE t.type = "VRW"
  <2>1. PICK ws \in Bench!Random("W", t, Bench!Count(t) \div 2) : b = Bench!WithReads(ws)
    BY <1>10 DEF Bench!Bodies
  <2>2. ws \in Seq(Bench!CommandRecord) /\ AllOf(ws, "W") /\ InRange(ws, t)
    BY <2>1, <1>0, <1>a, RandomBody
  <2> QED  BY <2>1, <2>2, <1>10, WithReadsBody
<1>11. CASE t.type = "VPARTIAL"
  <2>1. PICK ws \in Bench!Partial(t) : b = Bench!WithReads(ws)
    BY <1>11 DEF Bench!Bodies
  <2>2. ws \in Seq(Bench!CommandRecord) /\ AllOf(ws, "W")
    BY <2>1, PartialBody
  <2> QED  BY <2>1, <2>2, <1>11, WithReadsBody
<1>12. t.type \in Bench!Plain \cup Bench!Vectored
  BY DEF Bench!Asked
<1> QED  BY <1>1, <1>2, <1>3, <1>4, <1>5, <1>6, <1>7, <1>8, <1>9, <1>10, <1>11, <1>12
           DEF Bench!Plain, Bench!Vectored

\* A vectored benchmark has as many commands as it asks for, and one less where it
\* reads back an odd number.
LEMMA VectoredLength ==
    ASSUME NEW t \in Bench!Asked, t.type \in Bench!Vectored, NEW b \in Bench!Bodies(t)
    PROVE  Len(b) \in Nat /\ Len(b) <= Bench!Count(t) /\ (Len(b) < Bench!Count(t) => Bench!CutShort(t))
<1> DEFINE n == Bench!Count(t)
<1>0. n \in Nat /\ n \div 2 \in Nat
  BY BenchNumbers
<1>a. "R" \in {"R", "W"} /\ "W" \in {"R", "W"}
  OBVIOUS
<1>1. CASE t.type \in {"VSSET", "VSGET"}
  <2>1. b \in Bench!Sequential("R", t) \/ b \in Bench!Sequential("W", t)
    BY <1>1 DEF Bench!Bodies
  <2>2. Len(b) = n
    BY <2>1, <1>a, SequentialBody
  <2> QED  BY <2>2, <1>0
<1>2. CASE t.type \in {"VRSET", "VRGET", "VTEMPORAL"}
  <2>1. b \in Bench!Random("R", t, n) \/ b \in Bench!Random("W", t, n)
    BY <1>2 DEF Bench!Bodies, Bench!Temporal
  <2>2. Len(b) = n
    BY <2>1, <1>0, <1>a, RandomBody
  <2> QED  BY <2>2, <1>0
<1>3. CASE t.type = "VUNIQ"
  <2>1. PICK f \in Bench!Shuffled(0 .. (Bench!Count(t) * Bench!Width(t)) - 1) : b = Bench!Chunked(f, t)
    BY <1>3 DEF Bench!Bodies
  <2>2. Len(b) = n
    BY <2>1, ChunkedBody
  <2> QED  BY <2>2, <1>0
<1>4. CASE t.type \in {"VRW", "VPARTIAL"}
  <2>1. PICK ws \in Bench!Random("W", t, n \div 2) \cup Bench!Partial(t) : b = Bench!WithReads(ws)
    BY <1>4 DEF Bench!Bodies
  <2>2. ws \in Seq(Bench!CommandRecord) /\ AllOf(ws, "W") /\ Len(ws) = n \div 2
    BY <2>1, <1>0, <1>a, RandomBody, PartialBody
  <2>3. Len(b) = n \div 2 + n \div 2
    BY <2>1, <2>2, WithReadsBody
  <2> HIDE DEF n
  <2>4. n \div 2 + n \div 2 <= n /\ (n \div 2 + n \div 2 < n => n % 2 = 1)
    BY <1>0
  <2> QED  BY <2>3, <2>4, <1>0, <1>4 DEF Bench!CutShort, n
<1> QED  BY <1>1, <1>2, <1>3, <1>4 DEF Bench!Vectored

\* A plan is a sequence of benchmarks, all plain or all vectored.
LEMMA PlanShape ==
    ASSUME plan \in {Bench!Added(p) : p \in Plans}
    PROVE  /\ Len(plan) \in Nat
           /\ \A k \in 1 .. Len(plan) : /\ plan[k] \in Bench!Asked /\ plan[k].start < plan[k].end
                                        /\ plan[k].type \in Bench!Vectored <=> Bench!IsVectored
<1>1. PICK p \in Plans : plan = Bench!Added(p)
  OBVIOUS
<1>2. /\ p \in Seq(Bench!Asked)
      /\ \A k \in DOMAIN p : p[k].start < p[k].end /\ (p[k].type \in Bench!Vectored <=> p[1].type \in Bench!Vectored)
  BY PlanAssumption DEF Bench!PlansSound, Bench!Runnable
<1>3. Len(p) \in Nat /\ DOMAIN p = 1 .. Len(p) /\ p \in [1 .. Len(p) -> Bench!Asked]
  BY <1>2, LenProperties
<1>4. \A t \in Bench!Asked : /\ [t EXCEPT !.number = 2 * (@ \div 2)] \in Bench!Asked
                             /\ [t EXCEPT !.number = 2 * (@ \div 2)].type = t.type
                             /\ [t EXCEPT !.number = 2 * (@ \div 2)].start = t.start
                             /\ [t EXCEPT !.number = 2 * (@ \div 2)].end = t.end
  <2> TAKE t \in Bench!Asked
  <2>1. t.number \in Nat
    BY DEF Bench!Asked
  <2>2. 2 * (t.number \div 2) \in Nat
    BY <2>1
  <2> QED  BY <2>2 DEF Bench!Asked
<1>5. plan = [k \in 1 .. Len(p) |-> [p[k] EXCEPT !.number = 2 * (@ \div 2)]]
  BY <1>1, <1>3 DEF Bench!Added
<1>6. plan \in [1 .. Len(p) -> Bench!Asked]
  BY <1>3, <1>4, <1>5
<1>7. plan \in Seq(Bench!Asked) /\ Len(plan) = Len(p)
  BY <1>3, <1>6, FunctionIsSeq
<1>8. \A k \in 1 .. Len(p) : plan[k].type = p[k].type /\ plan[k].start = p[k].start /\ plan[k].end = p[k].end
  BY <1>3, <1>4, <1>5
<1>9. \A k \in 1 .. Len(p) : plan[k].type \in Bench!Vectored <=> Bench!IsVectored
  <2> TAKE k \in 1 .. Len(p)
  <2>1. 1 \in 1 .. Len(p)
    BY <1>3
  <2> QED  BY <2>1, <1>2, <1>3, <1>8 DEF Bench!IsVectored
<1> QED  BY <1>2, <1>3, <1>6, <1>7, <1>8, <1>9

\* The fields of a monitor.
LEMMA MonitorShape ==
    ASSUME NEW mo \in Bench!MonitorRecord
    PROVE  /\ mo.body \in Seq(Bench!CommandRecord) /\ Len(mo.body) \in Nat /\ mo.made \in BOOLEAN
           /\ mo.command \in Nat /\ mo.issued \in Nat /\ mo.returned \in Nat /\ mo.m \in Nat /\ mo.r \in Nat
BY LenProperties DEF Bench!MonitorRecord

\* What the type invariant says of each variable.
LEMMA BenchShape ==
    ASSUME Bench!BenchTypeOK
    PROVE  /\ plan \in {Bench!Added(p) : p \in Plans} /\ Len(plan) \in Nat
           /\ \A k \in 1 .. Len(plan) : /\ plan[k] \in Bench!Asked /\ Bench!Width(plan[k]) \in Nat \ {0}
                                        /\ ~Bench!IsVectored => Bench!Width(plan[k]) = 1
           /\ \A k \in 1 .. Len(plan) + 1 : monitor[k] \in Bench!MonitorRecord
           /\ bench.n \in 1 .. Len(plan) + 1 /\ bench.at \in {"issue", "wait", "over"}
           /\ \A c \in flying : c.mark \in 1 .. Len(plan) /\ c.cmd \in Nat /\ c.left \in Nat /\ c.done \in Nat
<1>1. plan \in {Bench!Added(p) : p \in Plans} /\ Len(plan) \in Nat /\ \A k \in 1 .. Len(plan) : plan[k] \in Bench!Asked
  BY PlanShape DEF Bench!BenchTypeOK
<1>2. \A k \in 1 .. Len(plan) : Bench!Width(plan[k]) \in Nat \ {0}
  BY <1>1, BenchNumbers
<1>3. \A k \in 1 .. Len(plan) + 1 : monitor[k] \in Bench!MonitorRecord
  BY DEF Bench!BenchTypeOK
<1>4. bench.n \in 1 .. Len(plan) + 1 /\ bench.at \in {"issue", "wait", "over"}
  BY DEF Bench!BenchTypeOK
<1>5. \A c \in flying : c.mark \in 1 .. Len(plan) /\ c.cmd \in Nat /\ c.left \in Nat /\ c.done \in Nat
  BY DEF Bench!BenchTypeOK, Bench!FlyingRecord
<1>6. \A k \in 1 .. Len(plan) : ~Bench!IsVectored => Bench!Width(plan[k]) = 1
  <2> SUFFICES ASSUME NEW k \in 1 .. Len(plan), ~Bench!IsVectored  PROVE Bench!Width(plan[k]) = 1
    OBVIOUS
  <2>1. plan[k].type \in Bench!Plain
    BY <1>1, PlanShape DEF Bench!Asked
  <2> QED  BY <2>1 DEF Bench!Width, Bench!Plain
<1> QED  BY <1>1, <1>2, <1>3, <1>4, <1>5, <1>6

\* A benchmark's requests in flight are finitely many.
LEMMA UnreapedFinite ==
    ASSUME Bench!BenchTypeOK, NEW k \in 1 .. Len(plan)
    PROVE  IsFiniteSet(Bench!Unreaped(k)) /\ Cardinality(Bench!Unreaped(k)) \in Nat
<1>1. monitor[k].issued \in Nat /\ Bench!Width(plan[k]) \in Nat
  <2>1. k \in 1 .. Len(plan) + 1
    BY BenchShape
  <2> QED  BY <2>1, BenchShape, MonitorShape
<1>2. \A x \in Nat : IsFiniteSet(1 .. x)
  BY FS_Interval
<1>3. IsFiniteSet((1 .. monitor[k].issued) \X (1 .. Bench!Width(plan[k])))
  BY <1>1, <1>2, FS_Product
<1>4. Bench!Unreaped(k) \in SUBSET ((1 .. monitor[k].issued) \X (1 .. Bench!Width(plan[k])))
  BY DEF Bench!Unreaped
<1> QED  BY <1>3, <1>4, FS_Subset, FS_CardinalityType

\* And so are its commands.
LEMMA UnendedFinite ==
    ASSUME Bench!BenchTypeOK, NEW k \in 1 .. Len(plan)
    PROVE  IsFiniteSet(Bench!Unended(k)) /\ Cardinality(Bench!Unended(k)) \in Nat
<1>1. monitor[k].issued \in Nat
  <2>1. k \in 1 .. Len(plan) + 1
    BY BenchShape
  <2> QED  BY <2>1, BenchShape, MonitorShape
<1>2. IsFiniteSet(1 .. monitor[k].issued)
  <2>1. \A x \in Nat : IsFiniteSet(1 .. x)
    BY FS_Interval
  <2> QED  BY <2>1, <1>1
<1>3. Bench!Unended(k) \in SUBSET (1 .. monitor[k].issued)
  BY DEF Bench!Unended
<1> QED  BY <1>2, <1>3, FS_Subset, FS_CardinalityType

\* The monitor of a benchmark not yet made.
LEMMA NoMonitorType == Bench!NoMonitor \in Bench!MonitorRecord
<1>1. << >> \in Seq(Bench!CommandRecord)
  OBVIOUS
<1> QED  BY <1>1 DEF Bench!NoMonitor, Bench!MonitorRecord

\* The first state: nothing is made, nothing is in flight.
LEMMA BenchInit ==
    ASSUME Bench!InitBench
    PROVE  Bench!BenchInv
<1>1. /\ plan \in {Bench!Added(p) : p \in Plans} /\ monitor = [k \in 1 .. Len(plan) + 1 |-> Bench!NoMonitor]
      /\ bench = [n |-> 1, at |-> "issue"] /\ flying = {}
  BY DEF Bench!InitBench
<1>2. Len(plan) \in Nat /\ \A k \in 1 .. Len(plan) : plan[k] \in Bench!Asked
  BY <1>1, PlanShape
<1>3. Bench!BenchTypeOK
  BY <1>1, <1>2, NoMonitorType DEF Bench!BenchTypeOK
<1>4. \A k \in 1 .. Len(plan) + 1 : monitor[k] = Bench!NoMonitor
  BY <1>1
<1>5. ~Bench!NoMonitor.made /\ Bench!NoMonitor.issued = 0 /\ Bench!NoMonitor.r = 0 /\ Bench!NoMonitor.returned = 0
  BY DEF Bench!NoMonitor
<1>6. 1 .. Len(plan) \subseteq 1 .. Len(plan) + 1 /\ Len(plan) + 1 \in 1 .. Len(plan) + 1
  BY <1>2
<1>7. Bench!BodiesMade
  BY <1>4, <1>5, <1>6 DEF Bench!BodiesMade
<1>8. Bench!FlyingOnce /\ Bench!LoopInOrder
  BY <1>1, <1>2, <1>4, <1>5 DEF Bench!FlyingOnce, Bench!LoopInOrder
<1>9. Bench!RequestsAdd
  <2> SUFFICES ASSUME NEW k \in 1 .. Len(plan)
               PROVE  monitor[k].r + Cardinality(Bench!Unreaped(k)) = monitor[k].issued * Bench!Width(plan[k])
    BY BenchCardinality DEF Bench!RequestsAdd
  <2>1. Bench!Unreaped(k) = {}
    BY <1>1 DEF Bench!Unreaped
  <2>2. Cardinality(Bench!Unreaped(k)) = 0
    BY <2>1, FS_EmptySet
  <2>3. Bench!Width(plan[k]) \in Nat
    BY <1>2, BenchNumbers
  <2>4. monitor[k].r = 0 /\ monitor[k].issued = 0
    BY <1>4, <1>5, <1>6
  <2> QED  BY <2>2, <2>3, <2>4
<1>10. Bench!CommandsAdd
  <2> SUFFICES ASSUME NEW k \in 1 .. Len(plan)
               PROVE  monitor[k].returned + Cardinality(Bench!Unended(k)) = monitor[k].issued
    BY BenchCardinality DEF Bench!CommandsAdd
  <2>1. Bench!Unended(k) = {}
    BY <1>1 DEF Bench!Unended
  <2>2. Cardinality(Bench!Unended(k)) = 0
    BY <2>1, FS_EmptySet
  <2> QED  BY <2>2, <1>4, <1>5, <1>6
<1> QED  BY <1>3, <1>7, <1>8, <1>9, <1>10 DEF Bench!BenchInv

\* The account of a benchmark: requests reaped and in flight are those issued.
Account(k) ==
    monitor[k].r + Cardinality(Bench!Unreaped(k)) = monitor[k].issued * Bench!Width(plan[k])

\* RequestsAdd is the account of every benchmark.
LEMMA AccountsAdd == Bench!RequestsAdd <=> \A k \in 1 .. Len(plan) : Account(k)
BY BenchCardinality DEF Bench!RequestsAdd, Account

\* The account of a benchmark that a step does not touch.
LEMMA AccountStays ==
    ASSUME NEW k, Account(k), plan' = plan,
           monitor'[k].issued = monitor[k].issued, monitor'[k].r = monitor[k].r,
           \A c : c.mark = k => (c \in flying' <=> c \in flying)
    PROVE  Account(k)'
<1>1. Bench!Unreaped(k)' = Bench!Unreaped(k)
  BY DEF Bench!Unreaped
<1>2. Cardinality(Bench!Unreaped(k))' = Cardinality(Bench!Unreaped(k))
  BY <1>1
<1>3. Bench!Width(plan[k])' = Bench!Width(plan[k])
  OBVIOUS
<1> QED  BY <1>2, <1>3 DEF Account

\* The same for its commands.
Commands(k) == monitor[k].returned + Cardinality(Bench!Unended(k)) = monitor[k].issued

\* CommandsAdd is that of every vectored benchmark.
LEMMA CommandsAll == Bench!CommandsAdd <=> (Bench!IsVectored => \A k \in 1 .. Len(plan) : Commands(k))
BY BenchCardinality DEF Bench!CommandsAdd, Commands

\* The commands of a benchmark that a step does not touch.
LEMMA CommandsStay ==
    ASSUME NEW k, Commands(k), monitor'[k].issued = monitor[k].issued, monitor'[k].returned = monitor[k].returned,
           \A i : (\E c \in flying' : c.mark = k /\ c.cmd = i) <=> (\E c \in flying : c.mark = k /\ c.cmd = i)
    PROVE  Commands(k)'
<1>1. Bench!Unended(k)' = Bench!Unended(k)
  BY DEF Bench!Unended
<1>2. Cardinality(Bench!Unended(k))' = Cardinality(Bench!Unended(k))
  BY <1>1
<1> QED  BY <1>2 DEF Commands

\* What BodiesMade says of a benchmark and its monitor.
MonitorOk(k, mo) ==
    IF mo.made THEN /\ mo.body \in Bench!Bodies(plan[k]) /\ mo.m = Bench!Made(plan[k], mo.body)
                    /\ mo.command = IF Bench!IsVectored THEN Bench!Count(plan[k]) ELSE 0
                    /\ mo.issued <= Len(mo.body)
               ELSE mo = Bench!NoMonitor

\* BodiesMade is that of every benchmark.
LEMMA MonitorsOk ==
    Bench!BodiesMade <=> (\A k \in 1 .. Len(plan) : MonitorOk(k, monitor[k])) /\ ~monitor[Len(plan) + 1].made
BY DEF Bench!BodiesMade, MonitorOk

\* And it stays that of every benchmark.
LEMMA MonitorsStayOk ==
    ASSUME plan' = plan, \A k \in 1 .. Len(plan) : MonitorOk(k, monitor'[k]), ~monitor'[Len(plan) + 1].made
    PROVE  Bench!BodiesMade'
<1>1. Bench!IsVectored' = Bench!IsVectored
  BY DEF Bench!IsVectored
<1> QED  BY <1>1 DEF Bench!BodiesMade, MonitorOk

\* bench_make_data: the benchmark had nothing issued, and has nothing issued.
LEMMA MakeDataKeeps ==
    ASSUME Bench!BenchInv, Bench!MakeData
    PROVE  Bench!BenchInv'
<1> DEFINE n == bench.n
           t == plan[n]
<1>0. /\ Bench!BenchTypeOK /\ Bench!BodiesMade /\ Bench!FlyingOnce
      /\ Bench!RequestsAdd /\ Bench!CommandsAdd /\ Bench!LoopInOrder
  BY DEF Bench!BenchInv
<1>1. PICK body \in Bench!Bodies(t) :
         monitor' = [monitor EXCEPT ![n] =
             [Bench!NoMonitor EXCEPT !.made = TRUE, !.body = body, !.m = Bench!Made(t, body),
                                     !.command = IF Bench!IsVectored THEN Bench!Count(t) ELSE 0]]
  BY DEF Bench!MakeData
<1>2. /\ plan' = plan /\ bench' = bench /\ flying' = flying
      /\ bench.at = "issue" /\ n <= Len(plan) /\ ~monitor[n].made
  BY DEF Bench!MakeData, Bench!M
<1>3. n \in 1 .. Len(plan) /\ n \in 1 .. Len(plan) + 1 /\ Len(plan) \in Nat /\ n # Len(plan) + 1
  BY <1>0, <1>2, BenchShape
<1>4. t \in Bench!Asked /\ t.start < t.end
  BY <1>0, <1>3, PlanShape DEF Bench!BenchTypeOK
<1>5. body \in Seq(Bench!CommandRecord)
  BY <1>4, BodySound
<1>6. Bench!Count(t) \in Nat /\ Bench!Width(t) \in Nat /\ Len(body) \in Nat /\ Bench!Made(t, body) \in Nat
  <2>1. Bench!Count(t) \in Nat /\ Bench!Width(t) \in Nat
    BY <1>4, BenchNumbers
  <2>2. Len(body) \in Nat
    BY <1>5, LenProperties
  <2>3. Len(body) * Bench!Width(t) \in Nat
    BY <2>1, <2>2, TimesNext
  <2> QED  BY <2>1, <2>2, <2>3 DEF Bench!Made
<1> DEFINE c == IF Bench!IsVectored THEN Bench!Count(t) ELSE 0
           mo == [Bench!NoMonitor EXCEPT !.made = TRUE, !.body = body, !.m = Bench!Made(t, body), !.command = c]
<1>7. c \in Nat
  BY <1>6
<1> HIDE DEF c
<1>8. mo \in Bench!MonitorRecord
  <2>1. \A r \in Bench!MonitorRecord : [r EXCEPT !.made = TRUE] \in Bench!MonitorRecord
    BY DEF Bench!MonitorRecord
  <2>2. \A r \in Bench!MonitorRecord : \A f \in Seq(Bench!CommandRecord) : [r EXCEPT !.body = f] \in Bench!MonitorRecord
    BY DEF Bench!MonitorRecord
  <2>3. \A r \in Bench!MonitorRecord : \A f \in Nat : [r EXCEPT !.m = f] \in Bench!MonitorRecord
    BY DEF Bench!MonitorRecord
  <2>4. \A r \in Bench!MonitorRecord : \A f \in Nat : [r EXCEPT !.command = f] \in Bench!MonitorRecord
    BY DEF Bench!MonitorRecord
  <2>5. mo = [[[[Bench!NoMonitor EXCEPT !.made = TRUE] EXCEPT !.body = body] EXCEPT !.m = Bench!Made(t, body)] EXCEPT !.command = c]
    OBVIOUS
  <2> HIDE DEF mo
  <2> QED  BY <2>1, <2>2, <2>3, <2>4, <2>5, <1>5, <1>6, <1>7, NoMonitorType
<1>9. Bench!NoMonitor.issued = 0 /\ Bench!NoMonitor.r = 0 /\ Bench!NoMonitor.returned = 0
  BY DEF Bench!NoMonitor
<1>10. /\ mo.made /\ mo.body = body /\ mo.m = Bench!Made(t, body) /\ mo.command = c
       /\ mo.issued = 0 /\ mo.r = 0 /\ mo.returned = 0
  BY <1>9 DEF Bench!NoMonitor
<1>11. monitor' = [monitor EXCEPT ![n] = mo]
  BY <1>1 DEF c
<1> HIDE DEF mo
<1>12. monitor \in [1 .. Len(plan) + 1 -> Bench!MonitorRecord]
  BY <1>0 DEF Bench!BenchTypeOK
<1>13. /\ monitor' \in [1 .. Len(plan) + 1 -> Bench!MonitorRecord]
       /\ monitor'[n] = mo /\ \A k \in 1 .. Len(plan) + 1 : k # n => monitor'[k] = monitor[k]
  BY <1>3, <1>8, <1>11, <1>12
<1>14. monitor[n].issued = 0 /\ monitor[n].r = 0 /\ monitor[n].returned = 0
  <2>1. monitor[n] = Bench!NoMonitor
    BY <1>0, <1>2, <1>3 DEF Bench!BodiesMade
  <2> QED  BY <2>1 DEF Bench!NoMonitor
<1>15. \A k \in 1 .. Len(plan) : k \in 1 .. Len(plan) + 1
  BY <1>3
<1>16. \A k \in 1 .. Len(plan) : /\ monitor'[k].issued = monitor[k].issued /\ monitor'[k].r = monitor[k].r
                                 /\ monitor'[k].returned = monitor[k].returned
  BY <1>10, <1>13, <1>14, <1>15
<1>17. Bench!BenchTypeOK'
  BY <1>0, <1>2, <1>13 DEF Bench!BenchTypeOK, Bench!FlyingRecord
<1>18. Bench!BodiesMade'
  <2>1. ASSUME NEW k \in 1 .. Len(plan)
        PROVE  MonitorOk(k, monitor'[k])
    <3>1. CASE k = n
      <4>1. mo.issued <= Len(mo.body) /\ mo.command = IF Bench!IsVectored THEN Bench!Count(plan[n]) ELSE 0
        BY <1>6, <1>10 DEF c
      <4>2. monitor'[k] = mo /\ mo.body \in Bench!Bodies(plan[n]) /\ mo.m = Bench!Made(plan[n], mo.body) /\ mo.made
        BY <3>1, <1>1, <1>10, <1>13
      <4> QED  BY <3>1, <4>1, <4>2 DEF MonitorOk
    <3>2. CASE k # n
      BY <3>2, <1>0, <1>13, <1>15, MonitorsOk
    <3> QED  BY <3>1, <3>2
  <2>2. ~monitor'[Len(plan) + 1].made
    <3>1. Len(plan) + 1 \in 1 .. Len(plan) + 1
      BY <1>3
    <3> QED  BY <3>1, <1>0, <1>3, <1>13 DEF Bench!BodiesMade
  <2> QED  BY <2>1, <2>2, <1>2, MonitorsStayOk
<1>19. Bench!FlyingOnce'
  <2>1. \A d \in flying : d.mark \in 1 .. Len(plan)
    BY <1>0, BenchShape
  <2>2. \A d \in flying : monitor'[d.mark].issued = monitor[d.mark].issued
    BY <2>1, <1>16
  <2> QED  BY <2>2, <1>0, <1>2 DEF Bench!FlyingOnce, Bench!IsVectored
<1>20. Bench!RequestsAdd'
  <2> SUFFICES ASSUME NEW k \in 1 .. Len(plan)  PROVE Account(k)'
    BY <1>2, BenchCardinality DEF Account, Bench!RequestsAdd
  <2>1. Account(k)
    BY <1>0, AccountsAdd
  <2> QED  BY <2>1, <1>2, <1>16, AccountStays
<1>21. Bench!CommandsAdd'
  <2> SUFFICES ASSUME NEW k \in 1 .. Len(plan), Bench!IsVectored  PROVE Commands(k)'
    BY <1>2, BenchCardinality DEF Commands, Bench!CommandsAdd, Bench!IsVectored
  <2>1. Commands(k)
    BY <1>0, CommandsAll
  <2> QED  BY <2>1, <1>2, <1>16, CommandsStay
<1>22. Bench!LoopInOrder'
  <2>1. \A k \in 1 .. Len(plan) : k # n => monitor'[k] = monitor[k]
    BY <1>13, <1>15
  <2>2. \A k \in 1 .. n - 1 : k \in 1 .. Len(plan) /\ k # n
    BY <1>3
  <2>3. \A k \in n + 1 .. Len(plan) : k \in 1 .. Len(plan) /\ k # n
    BY <1>3
  <2> QED  BY <2>1, <2>2, <2>3, <1>0, <1>2 DEF Bench!LoopInOrder
<1> QED  BY <1>17, <1>18, <1>19, <1>20, <1>21, <1>22 DEF Bench!BenchInv

\* get_bench: one more command, all of its requests in flight.
LEMMA IssueKeeps ==
    ASSUME Bench!BenchInv, Bench!Issue
    PROVE  Bench!BenchInv'
<1> DEFINE n == bench.n
           w == Bench!Width(plan[n])
           i == monitor[n].issued + 1
           c == [mark |-> n, cmd |-> i, left |-> w, done |-> 0]
<1>0. /\ Bench!BenchTypeOK /\ Bench!BodiesMade /\ Bench!FlyingOnce
      /\ Bench!RequestsAdd /\ Bench!CommandsAdd /\ Bench!LoopInOrder
  BY DEF Bench!BenchInv
<1>1. /\ plan' = plan /\ bench' = bench /\ flying' = flying \cup {c}
      /\ monitor' = [monitor EXCEPT ![n].issued = @ + 1]
      /\ bench.at = "issue" /\ monitor[n].made /\ monitor[n].issued < Len(monitor[n].body)
  BY DEF Bench!Issue, Bench!M
<1>2. Len(plan) \in Nat /\ n \in 1 .. Len(plan) + 1
  BY <1>0, BenchShape
<1>3. n # Len(plan) + 1
  BY <1>0, <1>1 DEF Bench!BodiesMade
<1>4. n \in 1 .. Len(plan)
  BY <1>2, <1>3
<1>5. w \in Nat \ {0} /\ monitor[n] \in Bench!MonitorRecord
  BY <1>0, <1>2, <1>4, BenchShape
<1>6. monitor[n].issued \in Nat /\ i \in Nat /\ i \in 1 .. i
  BY <1>5, MonitorShape
<1>7. c.mark = n /\ c.cmd = i /\ c.left = w /\ c.done = 0
  OBVIOUS
<1>8. c \in Bench!FlyingRecord
  BY <1>4, <1>5, <1>6 DEF Bench!FlyingRecord
<1> DEFINE mo == [monitor[n] EXCEPT !.issued = i]
<1>9. mo \in Bench!MonitorRecord
  BY <1>5, <1>6 DEF Bench!MonitorRecord
<1>10. /\ mo.issued = i /\ mo.made = monitor[n].made /\ mo.body = monitor[n].body /\ mo.m = monitor[n].m
       /\ mo.r = monitor[n].r /\ mo.command = monitor[n].command /\ mo.returned = monitor[n].returned
  BY <1>5 DEF Bench!MonitorRecord
<1>11. monitor' = [monitor EXCEPT ![n] = mo]
  BY <1>1
<1>12. monitor \in [1 .. Len(plan) + 1 -> Bench!MonitorRecord]
  BY <1>0 DEF Bench!BenchTypeOK
<1> HIDE DEF mo, c
<1>13. /\ monitor' \in [1 .. Len(plan) + 1 -> Bench!MonitorRecord]
       /\ monitor'[n] = mo /\ \A k \in 1 .. Len(plan) + 1 : k # n => monitor'[k] = monitor[k]
  BY <1>2, <1>9, <1>11, <1>12
<1>14. \A k \in 1 .. Len(plan) : k \in 1 .. Len(plan) + 1
  BY <1>2
<1>15. Bench!BenchTypeOK'
  <2>1. Bench!FlyingRecord' = Bench!FlyingRecord
    BY <1>1 DEF Bench!FlyingRecord
  <2> QED  BY <2>1, <1>0, <1>1, <1>8, <1>13 DEF Bench!BenchTypeOK
<1>16. Bench!BodiesMade'
  <2>1. ASSUME NEW k \in 1 .. Len(plan)
        PROVE  MonitorOk(k, monitor'[k])
    <3>1. CASE k = n
      <4>1. MonitorOk(n, monitor[n])
        BY <1>0, <1>4, MonitorsOk
      <4>2. Len(monitor[n].body) \in Nat /\ i <= Len(monitor[n].body)
        BY <1>1, <1>5, <1>6, MonitorShape
      <4> QED  BY <3>1, <4>1, <4>2, <1>1, <1>10, <1>13 DEF MonitorOk
    <3>2. CASE k # n
      BY <3>2, <1>0, <1>13, <1>14, MonitorsOk
    <3> QED  BY <3>1, <3>2
  <2>2. ~monitor'[Len(plan) + 1].made
    <3>1. Len(plan) + 1 \in 1 .. Len(plan) + 1
      BY <1>2
    <3> QED  BY <3>1, <1>0, <1>3, <1>13 DEF Bench!BodiesMade
  <2> QED  BY <2>1, <2>2, <1>1, MonitorsStayOk
<1>17. \A d \in flying : /\ d.mark \in 1 .. Len(plan) /\ d.cmd \in 1 .. monitor[d.mark].issued
                         /\ d.left + d.done <= Bench!Width(plan[d.mark]) /\ d.done < Bench!Width(plan[d.mark])
                         /\ ~Bench!IsVectored => d.left = 1
  BY <1>0, BenchShape DEF Bench!FlyingOnce
<1>18. \A d \in flying : d.mark = n => d.cmd # i
  BY <1>17, <1>6
<1>19. Bench!FlyingOnce'
  <2>1. \A d \in flying : d.cmd \in 1 .. monitor'[d.mark].issued
    <3> TAKE d \in flying
    <3>1. CASE d.mark = n
      BY <3>1, <1>6, <1>10, <1>13, <1>17
    <3>2. CASE d.mark # n
      BY <3>2, <1>13, <1>14, <1>17
    <3> QED  BY <3>1, <3>2
  <2>2. /\ c.cmd \in 1 .. monitor'[c.mark].issued
        /\ c.left + c.done <= Bench!Width(plan[c.mark]) /\ c.done < Bench!Width(plan[c.mark])
    BY <1>5, <1>6, <1>7, <1>10, <1>13
  <2>4. ~Bench!IsVectored => c.left = 1
    BY <1>0, <1>4, <1>7, BenchShape
  <2>3. \A d, e \in flying' : d.mark = e.mark /\ d.cmd = e.cmd => d = e
    BY <1>0, <1>1, <1>7, <1>18 DEF Bench!FlyingOnce
  <2> QED  BY <2>1, <2>2, <2>3, <2>4, <1>1, <1>17 DEF Bench!FlyingOnce, Bench!IsVectored
<1>20. Account(n)'
  <2> DEFINE U == Bench!Unreaped(n)
             V == {i} \X (1 .. w)
  <2>1. U = {x \in (1 .. monitor[n].issued) \X (1 .. w) : \E d \in flying : d.mark = n /\ d.cmd = x[1] /\ x[2] <= d.left}
    BY DEF Bench!Unreaped
  <2>2. Bench!Unreaped(n)' = {x \in (1 .. i) \X (1 .. w) : \E d \in flying \cup {c} : d.mark = n /\ d.cmd = x[1] /\ x[2] <= d.left}
    BY <1>1, <1>10, <1>13 DEF Bench!Unreaped
  <2> HIDE DEF U, i, w
  <2>3. \A x : x \in U \cup V => x \in Bench!Unreaped(n)'
    <3> TAKE x
    <3>1. CASE x \in U
      <4>1. PICK d \in flying : d.mark = n /\ d.cmd = x[1] /\ x[2] <= d.left
        BY <3>1, <2>1
      <4>2. x \in (1 .. i) \X (1 .. w)
        BY <3>1, <2>1, <1>6 DEF i
      <4> QED  BY <4>1, <4>2, <2>2
    <3>2. CASE x \in V
      <4>1. x \in (1 .. i) \X (1 .. w) /\ x[1] = i /\ x[2] \in 1 .. w
        BY <3>2, <1>6
      <4>2. x[2] <= c.left
        BY <4>1, <1>7, <1>5
      <4> QED  BY <4>1, <4>2, <1>7, <2>2
    <3> QED  BY <3>1, <3>2
  <2>4. \A x : x \in Bench!Unreaped(n)' => x \in U \cup V
    <3> SUFFICES ASSUME NEW x \in Bench!Unreaped(n)'  PROVE x \in U \cup V
      OBVIOUS
    <3>1. PICK d \in flying \cup {c} : d.mark = n /\ d.cmd = x[1] /\ x[2] <= d.left
      BY <2>2
    <3>2. x \in (1 .. i) \X (1 .. w)
      BY <2>2
    <3>3. CASE d = c
      <4>1. x[1] = i /\ x[2] \in 1 .. w /\ x = <<x[1], x[2]>>
        BY <3>1, <3>2, <3>3, <1>7
      <4> QED  BY <4>1
    <3>4. CASE d \in flying
      <4>1. x[1] \in 1 .. monitor[n].issued
        BY <3>1, <3>4, <1>17
      <4>2. x \in (1 .. monitor[n].issued) \X (1 .. w)
        BY <3>2, <4>1
      <4> QED  BY <3>1, <3>4, <4>2, <2>1
    <3> QED  BY <3>1, <3>3, <3>4
  <2>5. Bench!Unreaped(n)' = U \cup V
    BY <2>3, <2>4
  <2>6. U \cap V = {}
    <3>1. \A x \in U : x[1] \in 1 .. monitor[n].issued
      BY <2>1
    <3>2. ~(i \in 1 .. monitor[n].issued)
      BY <1>6 DEF i
    <3> QED  BY <3>1, <3>2
  <2>7. IsFiniteSet(U) /\ Cardinality(U) \in Nat
    BY <1>0, <1>4, UnreapedFinite DEF U
  <2>8. IsFiniteSet(V) /\ Cardinality(V) = w
    <3>1. IsFiniteSet({i}) /\ Cardinality({i}) = 1
      BY FS_Singleton
    <3>2. IsFiniteSet(1 .. w) /\ Cardinality(1 .. w) = w
      BY <1>5, FS_Interval
    <3>3. IsFiniteSet(V) /\ Cardinality(V) = Cardinality({i}) * Cardinality(1 .. w)
      BY <3>1, <3>2, FS_Product
    <3> QED  BY <3>1, <3>2, <3>3, <1>5
  <2> HIDE DEF V
  <2>9. Cardinality(U \cup V) = Cardinality(U) + w
    <3>1. Cardinality(U \cap V) = 0
      BY <2>6, FS_EmptySet
    <3>2. Cardinality(U \cup V) = Cardinality(U) + Cardinality(V) - Cardinality(U \cap V)
      BY <2>7, <2>8, FS_Union
    <3> QED  BY <3>1, <3>2, <2>7, <2>8, <1>5
  <2>10. monitor[n].r + Cardinality(U) = monitor[n].issued * w
    BY <1>0, <1>4, AccountsAdd DEF Account, U, w
  <2>11. i * w = monitor[n].issued * w + w /\ monitor[n].issued * w \in Nat
    BY <1>5, <1>6, TimesNext DEF i
  <2>12. monitor[n].r \in Nat
    BY <1>5, MonitorShape
  <2>13. monitor[n].r + (Cardinality(U) + w) = i * w
    BY <2>7, <2>10, <2>11, <2>12, <1>5
  <2>14. monitor'[n].r = monitor[n].r /\ monitor'[n].issued = i /\ Cardinality(Bench!Unreaped(n))' = Cardinality(U) + w
    BY <1>10, <1>13, <2>5, <2>9
  <2>15. bench'.n = n /\ Bench!Width(plan[n])' = w
    BY <1>1 DEF w
  <2> QED  BY <2>13, <2>14, <2>15, <1>1 DEF Account, w
<1>21. Bench!RequestsAdd'
  <2> SUFFICES ASSUME NEW k \in 1 .. Len(plan)  PROVE Account(k)'
    BY <1>1, BenchCardinality DEF Account, Bench!RequestsAdd
  <2>1. CASE k = n
    BY <2>1, <1>1, <1>20
  <2>2. CASE k # n
    <3>1. Account(k)
      BY <1>0, AccountsAdd
    <3>2. \A d : d.mark = k => (d \in flying' <=> d \in flying)
      BY <2>2, <1>1, <1>7
    <3>3. monitor'[k] = monitor[k]
      BY <2>2, <1>13, <1>14
    <3> QED  BY <3>1, <3>2, <3>3, <1>1, AccountStays
  <2> QED  BY <2>1, <2>2
<1>22. Commands(n) => Commands(n)'
  <2> SUFFICES ASSUME Commands(n)  PROVE Commands(n)'
    OBVIOUS
  <2> DEFINE U == Bench!Unended(n)
  <2>1. U = {j \in 1 .. monitor[n].issued : \E d \in flying : d.mark = n /\ d.cmd = j}
    BY DEF Bench!Unended
  <2>2. Bench!Unended(n)' = {j \in 1 .. i : \E d \in flying \cup {c} : d.mark = n /\ d.cmd = j}
    BY <1>1, <1>10, <1>13 DEF Bench!Unended
  <2>3. Bench!Unended(n)' = U \cup {i} /\ ~(i \in U)
    <3> HIDE DEF U
    <3>1. \A j : j \in U \cup {i} => j \in Bench!Unended(n)'
      BY <2>1, <2>2, <1>6, <1>7
    <3>2. \A j : j \in Bench!Unended(n)' => j \in U \cup {i}
      BY <2>1, <2>2, <1>6, <1>7
    <3>3. ~(i \in U)
      BY <2>1, <1>6
    <3> QED  BY <3>1, <3>2, <3>3
  <2>4. IsFiniteSet(U) /\ Cardinality(U) \in Nat
    BY <1>0, <1>4, UnendedFinite
  <2>5. monitor[n].returned + Cardinality(U) = monitor[n].issued /\ monitor[n].returned \in Nat
    BY <1>5, MonitorShape DEF Commands
  <2> HIDE DEF U
  <2>6. Cardinality(U \cup {i}) = Cardinality(U) + 1
    BY <2>3, <2>4, FS_AddElement
  <2>7. monitor'[n].returned = monitor[n].returned /\ monitor'[n].issued = i /\ Cardinality(Bench!Unended(n))' = Cardinality(U) + 1
    BY <1>10, <1>13, <2>3, <2>6
  <2>8. monitor[n].returned + (Cardinality(U) + 1) = i
    BY <2>4, <2>5
  <2> QED  BY <2>7, <2>8, <1>1 DEF Commands
<1>23. Bench!CommandsAdd'
  <2> SUFFICES ASSUME NEW k \in 1 .. Len(plan), Bench!IsVectored  PROVE Commands(k)'
    BY <1>1, BenchCardinality DEF Commands, Bench!CommandsAdd, Bench!IsVectored
  <2>1. Commands(k)
    BY <1>0, CommandsAll
  <2>2. CASE k = n
    BY <2>1, <2>2, <1>1, <1>22
  <2>3. CASE k # n
    <3>1. \A j : (\E d \in flying' : d.mark = k /\ d.cmd = j) <=> (\E d \in flying : d.mark = k /\ d.cmd = j)
      BY <2>3, <1>1, <1>7
    <3>2. monitor'[k] = monitor[k]
      BY <2>3, <1>13, <1>14
    <3> QED  BY <2>1, <3>1, <3>2, CommandsStay
  <2> QED  BY <2>2, <2>3
<1>24. Bench!LoopInOrder'
  <2>1. \A k \in 1 .. Len(plan) : k # n => monitor'[k] = monitor[k]
    BY <1>13, <1>14
  <2>2. \A k \in 1 .. n - 1 : k \in 1 .. Len(plan) /\ k # n
    BY <1>4, <1>2
  <2>3. \A k \in n + 1 .. Len(plan) : k \in 1 .. Len(plan) /\ k # n
    BY <1>4, <1>2
  <2> QED  BY <2>1, <2>2, <2>3, <1>0, <1>1 DEF Bench!LoopInOrder
<1> QED  BY <1>15, <1>16, <1>19, <1>21, <1>23, <1>24 DEF Bench!BenchInv

\* When the loop has ended, all that was made is issued.
LEMMA AllIssued ==
    ASSUME Bench!BenchInv, bench.at # "issue", NEW k \in 1 .. Len(plan)
    PROVE  /\ monitor[k].issued = Len(monitor[k].body)
           /\ monitor[k].made \/ \E h \in 1 .. k - 1 : Bench!CutShort(plan[h])
<1>0. Bench!BenchTypeOK /\ Bench!BodiesMade /\ Bench!LoopInOrder
  BY DEF Bench!BenchInv
<1>1. Len(plan) \in Nat /\ bench.n \in 1 .. Len(plan) + 1
  BY <1>0, BenchShape
<1>2. CASE k < bench.n
  <2>1. k \in 1 .. bench.n - 1
    BY <1>1, <1>2
  <2> QED  BY <2>1, <1>0 DEF Bench!LoopInOrder
<1>3. CASE k = bench.n
  <2>1. bench.n <= Len(plan)
    BY <1>1, <1>3
  <2> QED  BY <2>1, <1>0, <1>3 DEF Bench!LoopInOrder
<1>4. CASE k > bench.n
  <2>1. k \in bench.n + 1 .. Len(plan) /\ bench.n <= Len(plan) /\ bench.n \in 1 .. k - 1
    BY <1>1, <1>4
  <2>2. ~monitor[k].made /\ Bench!CutShort(plan[bench.n])
    BY <2>1, <1>0 DEF Bench!LoopInOrder
  <2>3. monitor[k] = Bench!NoMonitor
    BY <2>2, <1>0 DEF Bench!BodiesMade
  <2>4. monitor[k].issued = 0 /\ monitor[k].body = << >>
    BY <2>3 DEF Bench!NoMonitor
  <2> QED  BY <2>1, <2>2, <2>4
<1> QED  BY <1>1, <1>2, <1>3, <1>4

\* When main leaves, all that was issued is reaped, and the slack of two commands is
\* all that is not counted.
LEMMA OverIdle ==
    ASSUME Bench!BenchInv, bench.at = "over"
    PROVE  /\ \A c \in flying : c.left = 0
           /\ \A k \in 1 .. Len(plan) : Cardinality(Bench!Unended(k)) <= 2
<1>0. /\ Bench!BenchTypeOK /\ Bench!BodiesMade /\ Bench!FlyingOnce
      /\ Bench!RequestsAdd /\ Bench!CommandsAdd /\ Bench!LoopInOrder
  BY DEF Bench!BenchInv
<1>1. Len(plan) \in Nat /\ \A k \in 1 .. Len(plan) : k \in 1 .. Len(plan) + 1
  BY <1>0, BenchShape
<1>2. \A k \in 1 .. Len(plan) : /\ monitor[k].r = monitor[k].m /\ monitor[k].command <= monitor[k].returned + 2
                               /\ monitor[k].issued = Len(monitor[k].body)
  BY <1>0, AllIssued DEF Bench!LoopInOrder, Bench!FinishN
<1>3. \A c \in flying : c.left = 0
  <2> SUFFICES ASSUME NEW c \in flying, c.left # 0  PROVE FALSE
    OBVIOUS
  <2> DEFINE n == c.mark
             w == Bench!Width(plan[n])
  <2>1. n \in 1 .. Len(plan) /\ n \in 1 .. Len(plan) + 1
    BY <1>0, <1>1, BenchShape
  <2>2. c.cmd \in 1 .. monitor[n].issued /\ c.left \in 1 .. w /\ w \in Nat /\ monitor[n].issued \in Nat
    <3>1. c.cmd \in 1 .. monitor[n].issued /\ c.left + c.done <= w
      BY <1>0, <2>1 DEF Bench!FlyingOnce
    <3>2. c.left \in Nat /\ c.done \in Nat /\ w \in Nat /\ monitor[n].issued \in Nat
      BY <1>0, <2>1, BenchShape, MonitorShape
    <3> QED  BY <3>1, <3>2
  <2>3. monitor[n].made
    <3>1. monitor[n].issued # 0
      BY <2>2
    <3>2. Bench!NoMonitor.issued = 0
      BY DEF Bench!NoMonitor
    <3> QED  BY <3>1, <3>2, <1>0, <2>1 DEF Bench!BodiesMade
  <2>4. monitor[n].m = monitor[n].issued * w
    BY <1>0, <1>2, <2>1, <2>3 DEF Bench!BodiesMade, Bench!Made
  <2>5. monitor[n].r + Cardinality(Bench!Unreaped(n)) = monitor[n].issued * w
    BY <1>0, <2>1, AccountsAdd DEF Account
  <2>6. IsFiniteSet(Bench!Unreaped(n)) /\ Cardinality(Bench!Unreaped(n)) \in Nat
    BY <1>0, <2>1, UnreapedFinite
  <2>7. monitor[n].r \in Nat
    BY <1>0, <2>1, BenchShape, MonitorShape
  <2>8. Cardinality(Bench!Unreaped(n)) = 0
    BY <1>2, <2>1, <2>4, <2>5, <2>6, <2>7
  <2>9. Bench!Unreaped(n) = {}
    BY <2>6, <2>8, FS_EmptySet
  <2>10. <<c.cmd, c.left>> \in Bench!Unreaped(n)
    BY <2>2 DEF Bench!Unreaped
  <2> QED  BY <2>9, <2>10
<1>4. ASSUME NEW k \in 1 .. Len(plan)  PROVE Cardinality(Bench!Unended(k)) <= 2
  <2>0. IsFiniteSet(Bench!Unended(k)) /\ Cardinality(Bench!Unended(k)) \in Nat
    BY <1>0, UnendedFinite
  <2>1. CASE ~Bench!IsVectored
    <3>1. flying = {}
      BY <2>1, <1>0, <1>3 DEF Bench!FlyingOnce
    <3>2. Bench!Unended(k) = {}
      BY <3>1 DEF Bench!Unended
    <3> QED  BY <3>2, FS_EmptySet
  <2>2. CASE Bench!IsVectored
    <3>1. monitor[k].returned + Cardinality(Bench!Unended(k)) = monitor[k].issued
      BY <2>2, <1>0, CommandsAll DEF Commands
    <3>2. monitor[k].returned \in Nat /\ monitor[k].issued \in Nat /\ monitor[k].command \in Nat
      BY <1>0, <1>1, BenchShape, MonitorShape
    <3>3. monitor[k].issued <= monitor[k].command
      <4>1. CASE monitor[k].made
        <5>1. plan[k] \in Bench!Asked /\ plan[k].type \in Bench!Vectored
          BY <2>2, <1>0, PlanShape DEF Bench!BenchTypeOK
        <5>2. monitor[k].body \in Bench!Bodies(plan[k]) /\ monitor[k].command = Bench!Count(plan[k])
          BY <4>1, <2>2, <1>0 DEF Bench!BodiesMade
        <5>3. Len(monitor[k].body) <= Bench!Count(plan[k])
          BY <5>1, <5>2, VectoredLength
        <5> QED  BY <5>2, <5>3, <1>2
      <4>2. CASE ~monitor[k].made
        <5>1. monitor[k].issued = 0
          BY <4>2, <1>0 DEF Bench!BodiesMade, Bench!NoMonitor
        <5> QED  BY <5>1, <3>2
      <4> QED  BY <4>1, <4>2
    <3>4. monitor[k].command <= monitor[k].returned + 2
      BY <1>2
    <3> QED  BY <2>0, <3>1, <3>2, <3>3, <3>4
  <2> QED  BY <2>1, <2>2
<1> QED  BY <1>3, <1>4

\* What LoopInOrder says of the monitors, in the next state.
LoopKept ==
    /\ \A k \in 1 .. bench.n - 1 : monitor'[k].made = monitor[k].made /\ monitor'[k].issued = monitor[k].issued
                                    /\ monitor'[k].body = monitor[k].body
    /\ \A k \in bench.n + 1 .. Len(plan) : monitor'[k].made = monitor[k].made
    /\ monitor'[bench.n].made = monitor[bench.n].made /\ monitor'[bench.n].issued = monitor[bench.n].issued
    /\ monitor'[bench.n].body = monitor[bench.n].body

\* bench_reap_data: one request less in flight, one more reaped.
LEMMA ReapKeeps ==
    ASSUME Bench!BenchInv, NEW c, Bench!Reap(c)
    PROVE  Bench!BenchInv'
<1> DEFINE n == c.mark
           w == Bench!Width(plan[n])
           e == [c EXCEPT !.left = @ - 1]
           E == IF Bench!IsVectored THEN {e} ELSE {}
<1>0. /\ Bench!BenchTypeOK /\ Bench!BodiesMade /\ Bench!FlyingOnce
      /\ Bench!RequestsAdd /\ Bench!CommandsAdd /\ Bench!LoopInOrder
  BY DEF Bench!BenchInv
<1>1. /\ plan' = plan /\ bench' = bench /\ c \in flying /\ c.left > 0
      /\ flying' = (flying \ {c}) \cup E
      /\ monitor' = [monitor EXCEPT ![n].r = @ + 1]
  BY DEF Bench!Reap
<1>2. \A d \in flying : /\ d.mark \in 1 .. Len(plan) /\ d.cmd \in Nat /\ d.left \in Nat /\ d.done \in Nat
                        /\ d.cmd \in 1 .. monitor[d.mark].issued
                        /\ d.left + d.done <= Bench!Width(plan[d.mark]) /\ d.done < Bench!Width(plan[d.mark])
                        /\ ~Bench!IsVectored => d.left = 1
  BY <1>0, BenchShape DEF Bench!FlyingOnce
<1>3. Len(plan) \in Nat /\ n \in 1 .. Len(plan) /\ n \in 1 .. Len(plan) + 1
  BY <1>0, <1>1, <1>2, BenchShape
<1>4. w \in Nat \ {0} /\ monitor[n] \in Bench!MonitorRecord
  BY <1>0, <1>3, BenchShape
<1>5. monitor[n].issued \in Nat /\ monitor[n].r \in Nat /\ monitor[n].returned \in Nat
  BY <1>4, MonitorShape
<1>6. c \in Bench!FlyingRecord /\ c.cmd \in 1 .. monitor[n].issued /\ c.left \in 1 .. w
  BY <1>0, <1>1, <1>2, <1>4 DEF Bench!BenchTypeOK
<1>7. e \in Bench!FlyingRecord /\ e.mark = n /\ e.cmd = c.cmd /\ e.left = c.left - 1 /\ e.done = c.done
  BY <1>6, <1>4 DEF Bench!FlyingRecord
<1>8. \A d : d \in E <=> Bench!IsVectored /\ d = e
  OBVIOUS
<1> DEFINE mo == [monitor[n] EXCEPT !.r = monitor[n].r + 1]
<1>9. mo \in Bench!MonitorRecord
  BY <1>4, <1>5 DEF Bench!MonitorRecord
<1>10. /\ mo.r = monitor[n].r + 1 /\ mo.issued = monitor[n].issued /\ mo.made = monitor[n].made
       /\ mo.body = monitor[n].body /\ mo.m = monitor[n].m /\ mo.command = monitor[n].command
       /\ mo.returned = monitor[n].returned
  BY <1>4 DEF Bench!MonitorRecord
<1>11. monitor \in [1 .. Len(plan) + 1 -> Bench!MonitorRecord]
  BY <1>0 DEF Bench!BenchTypeOK
<1>12. monitor' = [monitor EXCEPT ![n] = mo]
  BY <1>1
<1> HIDE DEF mo, e, E
<1>13. /\ monitor' \in [1 .. Len(plan) + 1 -> Bench!MonitorRecord]
       /\ monitor'[n] = mo /\ \A k \in 1 .. Len(plan) + 1 : k # n => monitor'[k] = monitor[k]
  BY <1>3, <1>9, <1>11, <1>12
<1>14. \A k \in 1 .. Len(plan) : k \in 1 .. Len(plan) + 1
  BY <1>3
<1>15. \A k \in 1 .. Len(plan) + 1 : /\ monitor'[k].issued = monitor[k].issued /\ monitor'[k].made = monitor[k].made
                                     /\ monitor'[k].body = monitor[k].body /\ monitor'[k].m = monitor[k].m
                                     /\ monitor'[k].command = monitor[k].command /\ monitor'[k].returned = monitor[k].returned
  BY <1>10, <1>13
<1>16. Bench!BenchTypeOK'
  <2>1. Bench!FlyingRecord' = Bench!FlyingRecord
    BY <1>1 DEF Bench!FlyingRecord
  <2>2. flying' \subseteq Bench!FlyingRecord
    BY <1>0, <1>1, <1>7, <1>8 DEF Bench!BenchTypeOK
  <2> QED  BY <2>1, <2>2, <1>0, <1>1, <1>13 DEF Bench!BenchTypeOK
<1>17. Bench!BodiesMade'
  <2>1. monitor[n].made
    <3>1. monitor[n].issued # 0
      BY <1>5, <1>6
    <3>2. Bench!NoMonitor.issued = 0
      BY DEF Bench!NoMonitor
    <3> QED  BY <3>1, <3>2, <1>0, <1>3 DEF Bench!BodiesMade
  <2>2. ASSUME NEW k \in 1 .. Len(plan)
        PROVE  MonitorOk(k, monitor'[k])
    <3>1. CASE k = n
      <4>1. MonitorOk(n, monitor[n])
        BY <1>0, <1>3, MonitorsOk
      <4> QED  BY <3>1, <4>1, <2>1, <1>3, <1>15 DEF MonitorOk
    <3>2. CASE k # n
      BY <3>2, <1>0, <1>13, <1>14, MonitorsOk
    <3> QED  BY <3>1, <3>2
  <2>3. ~monitor'[Len(plan) + 1].made
    <3>1. Len(plan) + 1 \in 1 .. Len(plan) + 1
      BY <1>3
    <3> QED  BY <3>1, <1>0, <1>15 DEF Bench!BodiesMade
  <2> QED  BY <2>2, <2>3, <1>1, MonitorsStayOk
<1>18. \A d \in flying \ {c} : d.mark = n => d.cmd # c.cmd
  BY <1>0, <1>1 DEF Bench!FlyingOnce
<1>19. Bench!FlyingOnce'
  <2>1. \A d \in flying' : /\ d.cmd \in 1 .. monitor[d.mark].issued /\ d.mark \in 1 .. Len(plan)
                           /\ d.left + d.done <= Bench!Width(plan[d.mark]) /\ d.done < Bench!Width(plan[d.mark])
                           /\ ~Bench!IsVectored => d.left = 1
    <3> TAKE d \in flying'
    <3>1. CASE d \in flying
      BY <3>1, <1>2
    <3>2. CASE Bench!IsVectored /\ d = e
      <4>1. d.mark = n /\ d.cmd = c.cmd /\ d.left = c.left - 1 /\ d.done = c.done
        BY <3>2, <1>7
      <4>2. (c.left - 1) + c.done <= w /\ c.done < w
        BY <1>1, <1>2, <1>4, <1>6
      <4> QED  BY <3>2, <4>1, <4>2, <1>3, <1>6
    <3> QED  BY <3>1, <3>2, <1>1, <1>8
  <2>2. \A d \in flying' : d.cmd \in 1 .. monitor'[d.mark].issued
    BY <2>1, <1>14, <1>15
  <2>3. \A d, f \in flying' : d.mark = f.mark /\ d.cmd = f.cmd => d = f
    BY <1>0, <1>1, <1>7, <1>8, <1>18 DEF Bench!FlyingOnce
  <2> QED  BY <2>1, <2>2, <2>3, <1>1 DEF Bench!FlyingOnce, Bench!IsVectored
<1>20. Account(n)'
  <2> DEFINE U == Bench!Unreaped(n)
             x0 == <<c.cmd, c.left>>
             P == (1 .. monitor[n].issued) \X (1 .. w)
  <2>1. U = {x \in P : \E d \in flying : d.mark = n /\ d.cmd = x[1] /\ x[2] <= d.left}
    BY DEF Bench!Unreaped
  <2>2. Bench!Unreaped(n)' = {x \in P : \E d \in flying' : d.mark = n /\ d.cmd = x[1] /\ x[2] <= d.left}
    BY <1>1, <1>3, <1>15 DEF Bench!Unreaped
  <2>3. x0 \in P /\ x0[1] = c.cmd /\ x0[2] = c.left /\ \A x \in P : x = <<x[1], x[2]>> /\ x[2] \in 1 .. w
    BY <1>6
  <2> HIDE DEF U, P, x0
  <2>4. x0 \in U
    BY <2>1, <2>3, <1>1, <1>6
  <2>5. \A x : x \in U \ {x0} => x \in Bench!Unreaped(n)'
    <3> SUFFICES ASSUME NEW x \in U, x # x0  PROVE x \in Bench!Unreaped(n)'
      OBVIOUS
    <3>1. x \in P
      BY <2>1
    <3>2. PICK d \in flying : d.mark = n /\ d.cmd = x[1] /\ x[2] <= d.left
      BY <2>1
    <3>3. CASE d # c
      BY <3>1, <3>2, <3>3, <1>1, <2>2
    <3>4. CASE d = c
      <4>1. x[2] # c.left
        BY <3>1, <3>2, <3>4, <2>3 DEF x0
      <4>2. x[2] \in 1 .. w /\ x[2] <= c.left
        BY <3>1, <3>2, <3>4, <2>3
      <4>3. c.left # 1 /\ x[2] <= c.left - 1
        BY <4>1, <4>2, <1>4, <1>6
      <4>4. e \in flying' /\ e.mark = n /\ e.cmd = x[1] /\ x[2] <= e.left
        BY <4>3, <3>2, <3>4, <1>1, <1>2, <1>7, <1>8
      <4> QED  BY <4>4, <3>1, <2>2
    <3> QED  BY <3>3, <3>4
  <2>6. \A x : x \in Bench!Unreaped(n)' => x \in U \ {x0}
    <3> SUFFICES ASSUME NEW x \in Bench!Unreaped(n)'  PROVE x \in U /\ x # x0
      OBVIOUS
    <3>1. x \in P /\ x[2] \in 1 .. w
      BY <2>2, <2>3
    <3>2. PICK d \in flying' : d.mark = n /\ d.cmd = x[1] /\ x[2] <= d.left
      BY <2>2
    <3>3. CASE d \in flying \ {c}
      <4>1. x[1] # c.cmd
        BY <3>2, <3>3, <1>18
      <4> QED  BY <4>1, <3>1, <3>2, <3>3, <2>1, <2>3
    <3>4. CASE Bench!IsVectored /\ d = e
      <4>1. x[1] = c.cmd /\ x[2] <= c.left - 1
        BY <3>2, <3>4, <1>7
      <4>2. x[2] <= c.left /\ x[2] # c.left
        BY <4>1, <3>1, <1>4, <1>6
      <4> QED  BY <4>1, <4>2, <3>1, <2>1, <2>3, <1>1
    <3> QED  BY <3>2, <3>3, <3>4, <1>1, <1>8
  <2>7. Bench!Unreaped(n)' = U \ {x0}
    BY <2>5, <2>6
  <2>8. IsFiniteSet(U) /\ Cardinality(U) \in Nat
    BY <1>0, <1>3, UnreapedFinite DEF U
  <2>9. Cardinality(U \ {x0}) = Cardinality(U) - 1
    BY <2>4, <2>8, FS_RemoveElement
  <2>10. monitor[n].r + Cardinality(U) = monitor[n].issued * w
    BY <1>0, <1>3, AccountsAdd DEF Account, U
  <2>11. (monitor[n].r + 1) + (Cardinality(U) - 1) = monitor[n].issued * w
    BY <2>8, <2>10, <1>5
  <2>12. monitor'[n].r = monitor[n].r + 1 /\ monitor'[n].issued = monitor[n].issued /\ Cardinality(Bench!Unreaped(n))' = Cardinality(U) - 1
    BY <1>10, <1>13, <2>7, <2>9
  <2> QED  BY <2>11, <2>12, <1>1 DEF Account
<1>21. Bench!RequestsAdd'
  <2> SUFFICES ASSUME NEW k \in 1 .. Len(plan)  PROVE Account(k)'
    BY <1>1, BenchCardinality DEF Account, Bench!RequestsAdd
  <2>1. CASE k = n
    BY <2>1, <1>20
  <2>2. CASE k # n
    <3>1. Account(k)
      BY <1>0, AccountsAdd
    <3>2. \A d : d.mark = k => (d \in flying' <=> d \in flying)
      BY <2>2, <1>1, <1>7, <1>8
    <3>3. monitor'[k] = monitor[k]
      BY <2>2, <1>13, <1>14
    <3> QED  BY <3>1, <3>2, <3>3, <1>1, AccountStays
  <2> QED  BY <2>1, <2>2
<1>22. Bench!CommandsAdd'
  <2> SUFFICES ASSUME NEW k \in 1 .. Len(plan), Bench!IsVectored  PROVE Commands(k)'
    BY <1>1, BenchCardinality DEF Commands, Bench!CommandsAdd, Bench!IsVectored
  <2>1. Commands(k)
    BY <1>0, CommandsAll
  <2>2. \A i : (\E d \in flying' : d.mark = k /\ d.cmd = i) <=> (\E d \in flying : d.mark = k /\ d.cmd = i)
    BY <1>1, <1>7, <1>8
  <2> QED  BY <2>1, <2>2, <1>14, <1>15, CommandsStay
<1>23. Bench!LoopInOrder'
  <2>1. bench.at # "over"
    <3>1. c.left # 0
      BY <1>6, <1>4
    <3> QED  BY <3>1, <1>1, OverIdle
  <2>2. \A k \in 1 .. Len(plan) + 1 : monitor'[k].made = monitor[k].made /\ monitor'[k].issued = monitor[k].issued
                                    /\ monitor'[k].body = monitor[k].body
    BY <1>15
  <2>3. LoopKept
    BY <2>2, <1>0, <1>3, BenchShape DEF LoopKept
  <2> QED  BY <2>1, <2>3, <1>0, <1>1 DEF Bench!LoopInOrder, LoopKept
<1> QED  BY <1>16, <1>17, <1>19, <1>21, <1>22, <1>23 DEF Bench!BenchInv

\* The end of vectored_end_req: one more request counted, and with the last of its
\* command one more command returned.
LEMMA EndReqKeeps ==
    ASSUME Bench!BenchInv, NEW c, Bench!EndReq(c)
    PROVE  Bench!BenchInv'
<1> DEFINE n == c.mark
           w == Bench!Width(plan[n])
           e == [c EXCEPT !.done = @ + 1]
           L == Bench!LastOf(c)
           E == IF L THEN {} ELSE {e}
<1>0. /\ Bench!BenchTypeOK /\ Bench!BodiesMade /\ Bench!FlyingOnce
      /\ Bench!RequestsAdd /\ Bench!CommandsAdd /\ Bench!LoopInOrder
  BY DEF Bench!BenchInv
<1>1. /\ plan' = plan /\ bench' = bench /\ c \in flying /\ c.done + c.left < w
      /\ flying' = (flying \ {c}) \cup E
      /\ monitor' = IF L THEN [monitor EXCEPT ![n].returned = @ + 1] ELSE monitor
  BY DEF Bench!EndReq
<1>2. \A d \in flying : /\ d.mark \in 1 .. Len(plan) /\ d.cmd \in Nat /\ d.left \in Nat /\ d.done \in Nat
                        /\ d.cmd \in 1 .. monitor[d.mark].issued
                        /\ d.left + d.done <= Bench!Width(plan[d.mark]) /\ d.done < Bench!Width(plan[d.mark])
                        /\ ~Bench!IsVectored => d.left = 1
  BY <1>0, BenchShape DEF Bench!FlyingOnce
<1>3. Len(plan) \in Nat /\ n \in 1 .. Len(plan) /\ n \in 1 .. Len(plan) + 1
  BY <1>0, <1>1, <1>2, BenchShape
<1>4. w \in Nat \ {0} /\ monitor[n] \in Bench!MonitorRecord /\ (~Bench!IsVectored => w = 1)
  BY <1>0, <1>3, BenchShape
<1>5. monitor[n].issued \in Nat /\ monitor[n].returned \in Nat
  BY <1>4, MonitorShape
<1>6. /\ c \in Bench!FlyingRecord /\ c.cmd \in 1 .. monitor[n].issued
      /\ c.left \in Nat /\ c.done \in Nat /\ c.cmd \in Nat /\ Bench!IsVectored
  BY <1>0, <1>1, <1>2, <1>4 DEF Bench!BenchTypeOK
<1>7. e \in Bench!FlyingRecord /\ e.mark = n /\ e.cmd = c.cmd /\ e.left = c.left /\ e.done = c.done + 1
  BY <1>6 DEF Bench!FlyingRecord
<1>8. /\ \A d : d \in E <=> ~L /\ d = e
      /\ L <=> c.done + 1 = w
  BY DEF Bench!LastOf
<1>9. L => c.left = 0
  BY <1>1, <1>4, <1>6, <1>8
<1> DEFINE mo == [monitor[n] EXCEPT !.returned = monitor[n].returned + 1]
<1>10. mo \in Bench!MonitorRecord
  BY <1>4, <1>5 DEF Bench!MonitorRecord
<1>11. /\ mo.r = monitor[n].r /\ mo.issued = monitor[n].issued /\ mo.made = monitor[n].made
       /\ mo.body = monitor[n].body /\ mo.m = monitor[n].m /\ mo.command = monitor[n].command
       /\ mo.returned = monitor[n].returned + 1
  BY <1>4 DEF Bench!MonitorRecord
<1>12. monitor \in [1 .. Len(plan) + 1 -> Bench!MonitorRecord]
  BY <1>0 DEF Bench!BenchTypeOK
<1>13. monitor' = IF L THEN [monitor EXCEPT ![n] = mo] ELSE monitor
  BY <1>1
<1> HIDE DEF mo, e, E, L
<1>14. /\ monitor' \in [1 .. Len(plan) + 1 -> Bench!MonitorRecord]
       /\ monitor'[n] = (IF L THEN mo ELSE monitor[n]) /\ \A k \in 1 .. Len(plan) + 1 : k # n => monitor'[k] = monitor[k]
  BY <1>3, <1>10, <1>12, <1>13
<1>15. \A k \in 1 .. Len(plan) : k \in 1 .. Len(plan) + 1
  BY <1>3
<1>16. \A k \in 1 .. Len(plan) + 1 : /\ monitor'[k].issued = monitor[k].issued /\ monitor'[k].made = monitor[k].made
                                     /\ monitor'[k].body = monitor[k].body /\ monitor'[k].m = monitor[k].m
                                     /\ monitor'[k].command = monitor[k].command /\ monitor'[k].r = monitor[k].r
                                     /\ monitor'[k].returned \in Nat /\ monitor'[k].returned >= monitor[k].returned
  <2> TAKE k \in 1 .. Len(plan) + 1
  <2>1. CASE k = n
    BY <2>1, <1>5, <1>11, <1>14
  <2>2. CASE k # n
    <3>1. monitor[k].returned \in Nat
      BY <1>0, BenchShape, MonitorShape
    <3> QED  BY <2>2, <3>1, <1>14
  <2> QED  BY <2>1, <2>2
<1>17. Bench!BenchTypeOK'
  <2>1. Bench!FlyingRecord' = Bench!FlyingRecord
    BY <1>1 DEF Bench!FlyingRecord
  <2>2. flying' \subseteq Bench!FlyingRecord
    BY <1>0, <1>1, <1>7, <1>8 DEF Bench!BenchTypeOK
  <2> QED  BY <2>1, <2>2, <1>0, <1>1, <1>14 DEF Bench!BenchTypeOK
<1>18. Bench!BodiesMade'
  <2>1. monitor[n].made
    <3>1. monitor[n].issued # 0
      BY <1>5, <1>6
    <3>2. Bench!NoMonitor.issued = 0
      BY DEF Bench!NoMonitor
    <3> QED  BY <3>1, <3>2, <1>0, <1>3 DEF Bench!BodiesMade
  <2>2. ASSUME NEW k \in 1 .. Len(plan)  PROVE MonitorOk(k, monitor'[k])
    <3>1. CASE k = n
      <4>1. MonitorOk(n, monitor[n])
        BY <1>0, <1>3, MonitorsOk
      <4> QED  BY <3>1, <4>1, <2>1, <1>3, <1>16 DEF MonitorOk
    <3>2. CASE k # n
      BY <3>2, <1>0, <1>14, <1>15, MonitorsOk
    <3> QED  BY <3>1, <3>2
  <2>3. ~monitor'[Len(plan) + 1].made
    <3>1. Len(plan) + 1 \in 1 .. Len(plan) + 1
      BY <1>3
    <3> QED  BY <3>1, <1>0, <1>16 DEF Bench!BodiesMade
  <2> QED  BY <2>2, <2>3, <1>1, MonitorsStayOk
<1>19. \A d \in flying \ {c} : d.mark = n => d.cmd # c.cmd
  BY <1>0, <1>1 DEF Bench!FlyingOnce
<1>20. Bench!FlyingOnce'
  <2>1. \A d \in flying' : /\ d.cmd \in 1 .. monitor[d.mark].issued /\ d.mark \in 1 .. Len(plan)
                           /\ d.left + d.done <= Bench!Width(plan[d.mark]) /\ d.done < Bench!Width(plan[d.mark])
                           /\ ~Bench!IsVectored => d.left = 1
    <3> TAKE d \in flying'
    <3>1. CASE d \in flying
      BY <3>1, <1>2
    <3>2. CASE ~L /\ d = e
      <4>1. d.mark = n /\ d.cmd = c.cmd /\ d.left = c.left /\ d.done = c.done + 1
        BY <3>2, <1>7
      <4>2. c.left + (c.done + 1) <= w /\ c.done + 1 < w
        BY <3>2, <1>1, <1>2, <1>4, <1>6, <1>8
      <4> QED  BY <4>1, <4>2, <1>3, <1>6
    <3> QED  BY <3>1, <3>2, <1>1, <1>8
  <2>2. \A d \in flying' : d.cmd \in 1 .. monitor'[d.mark].issued
    BY <2>1, <1>15, <1>16
  <2>3. \A d, f \in flying' : d.mark = f.mark /\ d.cmd = f.cmd => d = f
    BY <1>0, <1>1, <1>7, <1>8, <1>19 DEF Bench!FlyingOnce
  <2> QED  BY <2>1, <2>2, <2>3, <1>1 DEF Bench!FlyingOnce, Bench!IsVectored
<1>21. Bench!RequestsAdd'
  <2> SUFFICES ASSUME NEW k \in 1 .. Len(plan)  PROVE Account(k)'
    BY <1>1, BenchCardinality DEF Account, Bench!RequestsAdd
  <2>1. Account(k)
    BY <1>0, AccountsAdd
  <2> DEFINE P == (1 .. monitor[k].issued) \X (1 .. Bench!Width(plan[k]))
  <2>2. Bench!Unreaped(k) = {x \in P : \E d \in flying : d.mark = k /\ d.cmd = x[1] /\ x[2] <= d.left}
    BY DEF Bench!Unreaped
  <2>3. Bench!Unreaped(k)' = {x \in P : \E d \in flying' : d.mark = k /\ d.cmd = x[1] /\ x[2] <= d.left}
    BY <1>1, <1>15, <1>16 DEF Bench!Unreaped
  <2>4. \A x \in P : x[2] \in Nat /\ x[2] > 0
    BY <1>0, BenchShape
  <2> HIDE DEF P
  <2>5. \A x \in P : (\E d \in flying' : d.mark = k /\ d.cmd = x[1] /\ x[2] <= d.left)
                      <=> (\E d \in flying : d.mark = k /\ d.cmd = x[1] /\ x[2] <= d.left)
    <3> TAKE x \in P
    <3>1. ASSUME NEW d \in flying, d.mark = k, d.cmd = x[1], x[2] <= d.left
          PROVE  \E f \in flying' : f.mark = k /\ f.cmd = x[1] /\ x[2] <= f.left
      <4>1. CASE d # c
        BY <3>1, <4>1, <1>1
      <4>2. CASE d = c
        <5>1. ~L
          BY <3>1, <4>2, <2>4, <1>9
        <5>2. e \in flying' /\ e.mark = k /\ e.cmd = x[1] /\ x[2] <= e.left
          BY <5>1, <3>1, <4>2, <1>1, <1>7, <1>8
        <5> QED  BY <5>2
      <4> QED  BY <4>1, <4>2
    <3>2. ASSUME NEW d \in flying', d.mark = k, d.cmd = x[1], x[2] <= d.left
          PROVE  \E f \in flying : f.mark = k /\ f.cmd = x[1] /\ x[2] <= f.left
      <4>1. CASE d \in flying
        BY <3>2, <4>1
      <4>2. CASE d = e
        BY <3>2, <4>2, <1>1, <1>7
      <4> QED  BY <4>1, <4>2, <1>1, <1>8
    <3> QED  BY <3>1, <3>2
  <2>6. Bench!Unreaped(k)' = Bench!Unreaped(k)
    BY <2>2, <2>3, <2>5
  <2>7. Cardinality(Bench!Unreaped(k))' = Cardinality(Bench!Unreaped(k))
    BY <2>6
  <2> QED  BY <2>1, <2>7, <1>1, <1>15, <1>16 DEF Account
<1>22. ASSUME L, Commands(n)  PROVE Commands(n)'
  <2> DEFINE U == Bench!Unended(n)
             x0 == c.cmd
  <2>1. U = {i \in 1 .. monitor[n].issued : \E d \in flying : d.mark = n /\ d.cmd = i}
    BY DEF Bench!Unended
  <2>2. Bench!Unended(n)' = {i \in 1 .. monitor[n].issued : \E d \in flying' : d.mark = n /\ d.cmd = i}
    BY <1>1, <1>3, <1>16 DEF Bench!Unended
  <2>3. flying' = flying \ {c}
    BY <1>1, <1>8, <1>22
  <2> HIDE DEF U
  <2>4. x0 \in U
    BY <2>1, <1>1, <1>6
  <2>5. Bench!Unended(n)' = U \ {x0}
    <3>1. \A i : i \in U \ {x0} => i \in Bench!Unended(n)'
      BY <2>1, <2>2, <2>3
    <3>2. \A i : i \in Bench!Unended(n)' => i \in U \ {x0}
      BY <2>1, <2>2, <2>3, <1>19
    <3> QED  BY <3>1, <3>2
  <2>6. IsFiniteSet(U) /\ Cardinality(U) \in Nat
    BY <1>0, <1>3, UnendedFinite DEF U
  <2>7. Cardinality(U \ {x0}) = Cardinality(U) - 1
    BY <2>4, <2>6, FS_RemoveElement
  <2>8. monitor[n].returned + Cardinality(U) = monitor[n].issued
    BY <1>22 DEF Commands, U
  <2>9. (monitor[n].returned + 1) + (Cardinality(U) - 1) = monitor[n].issued
    BY <2>6, <2>8, <1>5
  <2>10. monitor'[n].returned = monitor[n].returned + 1 /\ monitor'[n].issued = monitor[n].issued /\ Cardinality(Bench!Unended(n))' = Cardinality(U) - 1
    BY <1>11, <1>14, <1>22, <2>5, <2>7
  <2> QED  BY <2>9, <2>10 DEF Commands
<1>23. Bench!CommandsAdd'
  <2> SUFFICES ASSUME NEW k \in 1 .. Len(plan)  PROVE Commands(k)'
    BY <1>1, BenchCardinality DEF Commands, Bench!CommandsAdd, Bench!IsVectored
  <2>1. Commands(k)
    BY <1>0, <1>6, CommandsAll
  <2>2. CASE k = n /\ L
    BY <2>1, <2>2, <1>22
  <2>3. CASE ~(k = n /\ L)
    <3>1. \A i : (\E d \in flying' : d.mark = k /\ d.cmd = i) <=> (\E d \in flying : d.mark = k /\ d.cmd = i)
      BY <2>3, <1>1, <1>7, <1>8
    <3>2. monitor'[k] = monitor[k]
      BY <2>3, <1>14, <1>15
    <3> QED  BY <2>1, <3>1, <3>2, CommandsStay
  <2> QED  BY <2>2, <2>3
<1>24. Bench!LoopInOrder'
  <2>0. \A k \in 1 .. Len(plan) + 1 : monitor'[k].made = monitor[k].made /\ monitor'[k].issued = monitor[k].issued
                                    /\ monitor'[k].body = monitor[k].body
    BY <1>16
  <2>1. LoopKept
    BY <2>0, <1>0, <1>3, BenchShape DEF LoopKept
  <2>2. ASSUME bench.at = "over", NEW k \in 1 .. Len(plan)  PROVE Bench!FinishN(k)'
    <3>1. monitor[k].command <= monitor[k].returned + 2 /\ monitor[k].r = monitor[k].m
      BY <2>2, <1>0 DEF Bench!LoopInOrder, Bench!FinishN
    <3>2. monitor[k].command \in Nat /\ monitor[k].returned \in Nat
      BY <1>0, <1>15, BenchShape, MonitorShape
    <3>3. monitor'[k].command <= monitor'[k].returned + 2 /\ monitor'[k].r = monitor'[k].m
      BY <3>1, <3>2, <1>15, <1>16
    <3> QED  BY <3>3 DEF Bench!FinishN
  <2> QED  BY <2>1, <2>2, <1>0, <1>1 DEF Bench!LoopInOrder, LoopKept
<1> QED  BY <1>17, <1>18, <1>20, <1>21, <1>23, <1>24 DEF Bench!BenchInv

\* What the invariant says where only the loop moves: the benchmarks are as they
\* were.
LEMMA LoopMoves ==
    ASSUME Bench!BenchInv, plan' = plan, monitor' = monitor, flying' = flying,
           bench' \in [n : 1 .. Len(plan) + 1, at : {"issue", "wait", "over"}],
           Bench!LoopInOrder'
    PROVE  Bench!BenchInv'
<1>0. Bench!BenchTypeOK /\ Bench!BodiesMade /\ Bench!FlyingOnce /\ Bench!RequestsAdd /\ Bench!CommandsAdd
  BY DEF Bench!BenchInv
<1>1. Bench!BenchTypeOK'
  BY <1>0 DEF Bench!BenchTypeOK, Bench!FlyingRecord
<1>2. Bench!BodiesMade' /\ Bench!FlyingOnce'
  BY <1>0 DEF Bench!BodiesMade, Bench!FlyingOnce, Bench!IsVectored
<1>3. Bench!RequestsAdd'
  BY <1>0 DEF Bench!RequestsAdd, Bench!Unreaped
<1>4. Bench!CommandsAdd'
  BY <1>0 DEF Bench!CommandsAdd, Bench!Unended, Bench!IsVectored
<1> QED  BY <1>1, <1>2, <1>3, <1>4 DEF Bench!BenchInv

\* The loop goes on to the next benchmark when all of this one is issued.
LEMMA NextBenchKeeps ==
    ASSUME Bench!BenchInv, Bench!NextBench
    PROVE  Bench!BenchInv'
<1> DEFINE n == bench.n
<1>0. Bench!BenchTypeOK /\ Bench!BodiesMade /\ Bench!LoopInOrder
  BY DEF Bench!BenchInv
<1>1. /\ plan' = plan /\ monitor' = monitor /\ flying' = flying
      /\ bench.at = "issue" /\ n <= Len(plan)
      /\ monitor[n].made /\ monitor[n].issued = IF Bench!IsVectored THEN monitor[n].command ELSE Len(monitor[n].body)
      /\ bench' = IF bench.n = Len(plan) THEN [n |-> bench.n + 1, at |-> "wait"] ELSE [bench EXCEPT !.n = @ + 1]
  BY DEF Bench!NextBench, Bench!M
<1>2. Len(plan) \in Nat /\ n \in 1 .. Len(plan) /\ bench \in [n : 1 .. Len(plan) + 1, at : {"issue", "wait", "over"}]
  BY <1>0, <1>1, BenchShape DEF Bench!BenchTypeOK
<1>3. /\ bench' \in [n : 1 .. Len(plan) + 1, at : {"issue", "wait", "over"}]
      /\ bench'.n = bench.n + 1 /\ bench'.at \in {"issue", "wait"}
      /\ bench'.at # "issue" => ~(bench'.n <= Len(plan))
  BY <1>1, <1>2
<1>4. monitor[n].issued = Len(monitor[n].body)
  <2>1. CASE ~Bench!IsVectored
    BY <2>1, <1>1
  <2>2. CASE Bench!IsVectored
    <3>1. plan[n] \in Bench!Asked /\ plan[n].type \in Bench!Vectored
      BY <2>2, <1>0, <1>2, PlanShape DEF Bench!BenchTypeOK
    <3>2. /\ monitor[n].body \in Bench!Bodies(plan[n]) /\ monitor[n].command = Bench!Count(plan[n])
          /\ monitor[n].issued <= Len(monitor[n].body)
      BY <2>2, <1>0, <1>1, <1>2 DEF Bench!BodiesMade
    <3>3. Len(monitor[n].body) \in Nat /\ Len(monitor[n].body) <= Bench!Count(plan[n])
      BY <3>1, <3>2, VectoredLength
    <3>4. monitor[n].issued = Bench!Count(plan[n]) /\ Bench!Count(plan[n]) \in Nat
      BY <2>2, <3>1, <3>2, <1>1, BenchNumbers
    <3> QED  BY <3>2, <3>3, <3>4
  <2> QED  BY <2>1, <2>2
<1>5. \A k \in 1 .. bench'.n - 1 : monitor[k].made /\ monitor[k].issued = Len(monitor[k].body)
  <2> TAKE k \in 1 .. bench'.n - 1
  <2>1. k \in 1 .. bench.n - 1 \/ k = bench.n
    BY <1>2, <1>3
  <2> QED  BY <2>1, <1>0, <1>1, <1>4 DEF Bench!LoopInOrder
<1>6. \A k \in bench'.n + 1 .. Len(plan) : ~monitor[k].made
  <2>1. \A k \in bench'.n + 1 .. Len(plan) : k \in bench.n + 1 .. Len(plan)
    BY <1>2, <1>3
  <2> QED  BY <2>1, <1>0 DEF Bench!LoopInOrder
<1>7. Bench!LoopInOrder'
  BY <1>1, <1>3, <1>5, <1>6 DEF Bench!LoopInOrder
<1> QED  BY <1>1, <1>3, <1>7, LoopMoves

\* The loop ends at a command that was not made: the benchmark is cut short.
LEMMA RunDryKeeps ==
    ASSUME Bench!BenchInv, Bench!RunDry
    PROVE  Bench!BenchInv'
<1> DEFINE n == bench.n
<1>0. Bench!BenchTypeOK /\ Bench!BodiesMade /\ Bench!LoopInOrder
  BY DEF Bench!BenchInv
<1>1. /\ plan' = plan /\ monitor' = monitor /\ flying' = flying
      /\ bench.at = "issue" /\ bench' = [bench EXCEPT !.at = "wait"] /\ Bench!IsVectored
      /\ monitor[n].made /\ monitor[n].issued = Len(monitor[n].body) /\ monitor[n].issued < monitor[n].command
  BY DEF Bench!RunDry, Bench!M
<1>2. Len(plan) \in Nat /\ n \in 1 .. Len(plan) + 1 /\ bench \in [n : 1 .. Len(plan) + 1, at : {"issue", "wait", "over"}]
  BY <1>0, BenchShape DEF Bench!BenchTypeOK
<1>3. n # Len(plan) + 1
  BY <1>0, <1>1 DEF Bench!BodiesMade
<1>4. n \in 1 .. Len(plan)
  BY <1>2, <1>3
<1>5. bench' \in [n : 1 .. Len(plan) + 1, at : {"issue", "wait", "over"}] /\ bench'.n = bench.n /\ bench'.at = "wait"
  BY <1>1, <1>2
<1>6. Bench!CutShort(plan[n])
  <2>1. plan[n] \in Bench!Asked /\ plan[n].type \in Bench!Vectored
    BY <1>0, <1>1, <1>4, PlanShape DEF Bench!BenchTypeOK
  <2>2. monitor[n].body \in Bench!Bodies(plan[n]) /\ monitor[n].command = Bench!Count(plan[n])
    BY <1>0, <1>1, <1>4 DEF Bench!BodiesMade
  <2> QED  BY <2>1, <2>2, <1>1, VectoredLength
<1>7. Bench!LoopInOrder'
  BY <1>0, <1>1, <1>5, <1>6 DEF Bench!LoopInOrder
<1> QED  BY <1>1, <1>5, <1>7, LoopMoves

\* bench_is_finish: main leaves when every benchmark is finished.
LEMMA FinishKeeps ==
    ASSUME Bench!BenchInv, Bench!Finish
    PROVE  Bench!BenchInv'
<1>0. Bench!BenchTypeOK /\ Bench!LoopInOrder
  BY DEF Bench!BenchInv
<1>1. /\ plan' = plan /\ monitor' = monitor /\ flying' = flying
      /\ bench.at = "wait" /\ bench' = [bench EXCEPT !.at = "over"]
      /\ \A k \in 1 .. Len(plan) : Bench!FinishN(k)
  BY DEF Bench!Finish
<1>2. bench \in [n : 1 .. Len(plan) + 1, at : {"issue", "wait", "over"}]
  BY <1>0 DEF Bench!BenchTypeOK
<1>3. bench' \in [n : 1 .. Len(plan) + 1, at : {"issue", "wait", "over"}] /\ bench'.n = bench.n
  BY <1>1, <1>2
<1>4. Bench!LoopInOrder'
  BY <1>0, <1>1, <1>3 DEF Bench!LoopInOrder, Bench!FinishN
<1> QED  BY <1>1, <1>3, <1>4, LoopMoves

\* The invariant gives what the driver promises.
LEMMA BenchSound ==
    ASSUME Bench!BenchInv
    PROVE  Bench!ReadsWritten /\ Bench!FreedWhenReaped
<1>0. Bench!BenchTypeOK /\ Bench!BodiesMade
  BY DEF Bench!BenchInv
<1>1. Bench!FreedWhenReaped
  <2> SUFFICES ASSUME bench.at = "over"
               PROVE  /\ \A c \in flying : c.left = 0
                      /\ \A k \in 1 .. Len(plan) : /\ monitor[k].issued = Len(monitor[k].body)
                                                   /\ Cardinality(Bench!Unended(k)) <= 2
                                                   /\ monitor[k].made \/ \E h \in 1 .. k - 1 : Bench!CutShort(plan[h])
    BY BenchCardinality DEF Bench!FreedWhenReaped
  <2> QED  BY OverIdle, AllIssued
<1>2. ASSUME NEW k \in 1 .. Len(plan)
      PROVE  /\ plan[k].type \in {"SEQRW", "RANDRW", "VRW", "VPARTIAL"} => ReadsBack(monitor[k].body)
             /\ plan[k].type # "VPARTIAL" /\ Bench!Fits(plan[k]) => InRange(monitor[k].body, plan[k])
  <2>1. plan[k] \in Bench!Asked /\ plan[k].start < plan[k].end
    BY <1>0, PlanShape DEF Bench!BenchTypeOK
  <2>2. CASE monitor[k].made
    <3>1. monitor[k].body \in Bench!Bodies(plan[k])
      BY <2>2, <1>0 DEF Bench!BodiesMade
    <3> QED  BY <3>1, <2>1, BodySound
  <2>3. CASE ~monitor[k].made
    <3>1. monitor[k].body = << >>
      BY <2>3, <1>0 DEF Bench!BodiesMade, Bench!NoMonitor
    <3>2. DOMAIN monitor[k].body = {}
      BY <3>1
    <3> QED  BY <3>2 DEF ReadsBack, InRange
  <2> QED  BY <2>2, <2>3
<1>3. Bench!ReadsWritten
  BY <1>2 DEF Bench!ReadsWritten, ReadsBack, InRange
<1> QED  BY <1>1, <1>3

\* For every set of plans the driver can run (PlansSound), every size of a command
\* and every number in flight: a benchmark that writes and reads asks only for blocks
\* it has written, one that fits its range stays in it, and when main frees its
\* structures every request issued has been reaped, in whatever order they ended, at
\* most two commands of a benchmark are still to be counted by their completions, and
\* only a benchmark behind one of an odd number of commands has not run.
THEOREM BenchmarksAlwaysSound == Spec => []BenchmarkSound
<1> DEFINE Inv == part = "bench" => Bench!BenchInv
<1>1. Init => Inv
  BY BenchInit DEF Init
<1>2. Inv /\ [Next]_vars => Inv'
  <2> SUFFICES ASSUME Inv, [Next]_vars, part' = "bench"  PROVE Bench!BenchInv'
    OBVIOUS
  <2>1. part = "bench" /\ Bench!BenchInv
    BY DEF Next, vars
  <2>2. Bench!NextB \/ UNCHANGED benchVars
    BY <2>1 DEF Next, vars
  <2>3. CASE UNCHANGED benchVars
    <3>1. plan' = plan /\ monitor' = monitor /\ bench' = bench /\ flying' = flying
      BY <2>3 DEF benchVars
    <3>2. bench' \in [n : 1 .. Len(plan) + 1, at : {"issue", "wait", "over"}] /\ Bench!LoopInOrder'
      BY <2>1, <3>1 DEF Bench!BenchInv, Bench!BenchTypeOK, Bench!LoopInOrder, Bench!FinishN
    <3> QED  BY <2>1, <3>1, <3>2, LoopMoves
  <2>4. CASE Bench!NextB
    <3>1. CASE Bench!MakeData
      BY <2>1, <3>1, MakeDataKeeps
    <3>2. CASE Bench!Issue
      BY <2>1, <3>2, IssueKeeps
    <3>3. CASE Bench!NextBench
      BY <2>1, <3>3, NextBenchKeeps
    <3>4. CASE Bench!Finish
      BY <2>1, <3>4, FinishKeeps
    <3>5. CASE Bench!RunDry
      BY <2>1, <3>5, RunDryKeeps
    <3>6. CASE Bench!Reaper
      BY <2>1, <3>6, ReapKeeps, EndReqKeeps DEF Bench!Reaper
    <3> QED  BY <2>4, <3>1, <3>2, <3>3, <3>4, <3>5, <3>6 DEF Bench!NextB, Bench!Loop
  <2> QED  BY <2>2, <2>3, <2>4
<1>3. Inv => BenchmarkSound
  BY BenchSound DEF BenchmarkSound
<1> QED  BY <1>1, <1>2, <1>3, PTL DEF Spec
=============================================================================
