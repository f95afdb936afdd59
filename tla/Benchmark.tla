----------------------------- MODULE Benchmark -------------------------------
(***************************************************************************)
(* The workload driver (bench/bench.c, bench_demand.c, bench_transaction.c) *)
(* and the loops of default_main.c and vectored_main.c around it: the      *)
(* benchmarks of a plan are generated and issued one after the other, their *)
(* requests end in any order, and the program waits until all have been    *)
(* reaped.  A vectored command carries PerCommand requests, a plain one is *)
(* a single request.  A completion counts its request in one step and its  *)
(* command in a later one.  rand() is a choice.                            *)
(***************************************************************************)
EXTENDS Integers, Sequences, FiniteSets, FiniteSetsExt, SequencesExt

CONSTANTS
    Plans,        \* sets of plans: sequences of [type, start, end, number]
    PerCommand,   \* request_num_per_command
    MaxFlight     \* bound on commands in flight

VARIABLES
    plan,         \* what bench_add was given
    monitor,      \* per benchmark: body, command_num, issued, returned, m_num, r_num
    bench,        \* _master->n_num, and where the main loop is
    flying        \* commands issued and not ended: mark, index, requests left to reap,
                  \* requests that have counted themselves done (done_cnt)

benchVars == <<plan, monitor, bench, flying>>

-----------------------------------------------------------------------------
(* The generators.                                                         *)

Command(op, keys) == [op |-> op, keys |-> keys]
Plain == {"SEQGET", "SEQSET", "RANDGET", "RANDSET", "SEQRW", "RANDRW", "MIXED", "FILLRAND"}
Vectored == {"VSSET", "VSGET", "VRSET", "VRGET", "VUNIQ", "VRW", "VTEMPORAL", "VPARTIAL"}

\* Requests of a command, and commands of a benchmark.
Width(t) == CASE t.type \in Plain -> 1 [] t.type = "VPARTIAL" -> 4 [] OTHER -> PerCommand
Count(t) == t.number \div Width(t)
In(t) == t.start .. t.end - 1

\* vectored_set, vectored_get with isseq: no modulus.
Run(t, i) == [j \in 1 .. Width(t) |-> t.start + (i - 1) * Width(t) + j - 1]
Sequential(op, t) == {[i \in 1 .. Count(t) |-> Command(op, Run(t, i))]}
\* seqget, seqset, seqrw, bench_make_ondemand.
Wrapped(t, i) == <<t.start + ((i - 1) % (t.end - t.start))>>
Cyclic(op, t, n) == {[i \in 1 .. n |-> Command(op, Wrapped(t, i))]}
Random(op, t, n) == [1 .. n -> {Command(op, k) : k \in [1 .. Width(t) -> In(t)]}]
\* vectored_partial_rw: four blocks from a random start.
Partial(t) == [1 .. Count(t) \div 2 -> {Command("W", [j \in 1 .. 4 |-> k + j - 1]) : k \in In(t)}]

\* The second half reads what the first half wrote.
WithReads(ws) == ws \o [i \in DOMAIN ws |-> Command("R", ws[i].keys)]

\* Every order of the keys: vectored_unique_rset from 0, fillrand from start.
Chunked(f, t) == [i \in 1 .. Count(t) |-> Command("W", [j \in 1 .. Width(t) |-> f[((i - 1) * Width(t) + j) - 1]])]
Shuffled(K) == {f \in [0 .. Cardinality(K) - 1 -> K] : IsInjective(f)}

\* seqrw and randrw write the first half and read it back.
SeqRw(t) == {WithReads(ws) : ws \in Cyclic("W", t, t.number \div 2)}
RandRw(t) == {WithReads(ws) : ws \in Random("W", t, t.number \div 2)}
Mixed(t) == [1 .. t.number -> {Command(op, <<k>>) : op \in {"R", "W"}, k \in In(t)}]
FillRand(t) ==
    {[i \in 1 .. t.number |-> Command("W", <<f[(i - 1) % ((t.end - t.start) + 1)]>>)] : f \in Shuffled(t.start .. t.end)}
\* Hot and cold keys are drawn from two parts of the range.
Temporal(t) == Random("R", t, Count(t))

Bodies(t) ==
    CASE t.type = "SEQGET" -> Cyclic("R", t, t.number)
      [] t.type = "SEQSET" -> Cyclic("W", t, t.number)
      [] t.type = "RANDGET" -> Random("R", t, t.number)
      [] t.type = "RANDSET" -> Random("W", t, t.number)
      [] t.type = "SEQRW" -> SeqRw(t)
      [] t.type = "RANDRW" -> RandRw(t)
      [] t.type = "MIXED" -> Mixed(t)
      [] t.type = "FILLRAND" -> FillRand(t)
      [] t.type = "VSSET" -> Sequential("W", t)
      [] t.type = "VSGET" -> Sequential("R", t)
      [] t.type = "VRSET" -> Random("W", t, Count(t))
      [] t.type = "VRGET" -> Random("R", t, Count(t))
      [] t.type = "VTEMPORAL" -> Temporal(t)
      [] t.type = "VUNIQ" -> {Chunked(f, t) : f \in Shuffled(0 .. (Count(t) * Width(t)) - 1)}
      [] t.type = "VRW" -> {WithReads(ws) : ws \in Random("W", t, Count(t) \div 2)}
      [] t.type = "VPARTIAL" -> {WithReads(ws) : ws \in Partial(t)}

-----------------------------------------------------------------------------
NoMonitor == [body |-> <<>>, made |-> FALSE, command |-> 0, issued |-> 0, returned |-> 0, m |-> 0, r |-> 0]

\* bench_add makes the number of requests even.
Added(p) == [k \in DOMAIN p |-> [p[k] EXCEPT !.number = 2 * (@ \div 2)]]

InitBench ==
    /\ plan \in {Added(p) : p \in Plans}
    /\ monitor = [k \in 1 .. Len(plan) + 1 |-> NoMonitor]
    /\ bench = [n |-> 1, at |-> "issue"] /\ flying = {}

M == monitor[bench.n]
IsVectored == plan[1].type \in Vectored

\* bench_make_data: the number of requests is counted from what was made.
Made(t, body) == Len(body) * Width(t)
MakeData ==
    /\ bench.at = "issue" /\ bench.n <= Len(plan) /\ ~M.made
    /\ LET t == plan[bench.n]
       IN \E body \in Bodies(t) :
            monitor' = [monitor EXCEPT ![bench.n] =
                [NoMonitor EXCEPT !.made = TRUE, !.body = body, !.m = Made(t, body),
                                  !.command = IF IsVectored THEN Count(t) ELSE 0]]
    /\ UNCHANGED <<plan, bench, flying>>

\* get_bench, get_vectored_bench and the call that submits the request.
Issue ==
    /\ bench.at = "issue" /\ M.made /\ M.issued < Len(M.body) /\ Cardinality(flying) < MaxFlight
    /\ monitor' = [monitor EXCEPT ![bench.n].issued = @ + 1]
    /\ flying' = flying \cup {[mark |-> bench.n, cmd |-> M.issued + 1, left |-> Width(plan[bench.n]), done |-> 0]}
    /\ UNCHANGED <<plan, bench>>

\* Mistake: only the commands returned are asked for.
AllReturned(k) == monitor[k].command <= monitor[k].returned + 2
\* bench_is_finish_n.
FinishN(k) ==
    /\ monitor[k].command <= monitor[k].returned + 2
    /\ monitor[k].r = monitor[k].m

\* The plain loop waits for the benchmark it has issued; the vectored one steps
\* to the next before it asks.
NextBench ==
    /\ bench.at = "issue" /\ bench.n <= Len(plan) /\ M.made
    /\ M.issued = IF IsVectored THEN M.command ELSE Len(M.body)
    /\ FinishN(IF IsVectored THEN bench.n + 1 ELSE bench.n)
    /\ bench' = IF bench.n = Len(plan) THEN [n |-> bench.n + 1, at |-> "wait"] ELSE [bench EXCEPT !.n = @ + 1]
    /\ UNCHANGED <<plan, monitor, flying>>

\* An odd number of commands leaves the last buf as malloc gave it; where that is
\* NULL, get_vectored_bench ends the loop and the rest of the plan is not run.
RunDry ==
    /\ bench.at = "issue" /\ IsVectored /\ M.made /\ M.issued = Len(M.body) /\ M.issued < M.command
    /\ bench' = [bench EXCEPT !.at = "wait"] /\ UNCHANGED <<plan, monitor, flying>>

\* bench_reap_data of one request; nothing of a plain request follows it here.
Reap(c) ==
    /\ c \in flying /\ c.left > 0
    /\ monitor' = [monitor EXCEPT ![c.mark].r = @ + 1]
    /\ flying' = (flying \ {c}) \cup IF IsVectored THEN {[c EXCEPT !.left = @ - 1]} ELSE {}
    /\ UNCHANGED <<plan, bench>>

\* The end of vectored_end_req of a request reaped before, and with the last of
\* its command bench_transaction_end_req.
LastOf(c) == c.done + 1 = Width(plan[c.mark])
EndReq(c) ==
    /\ c \in flying /\ c.done + c.left < Width(plan[c.mark])
    /\ monitor' = IF LastOf(c) THEN [monitor EXCEPT ![c.mark].returned = @ + 1] ELSE monitor
    /\ flying' = (flying \ {c}) \cup IF LastOf(c) THEN {} ELSE {[c EXCEPT !.done = @ + 1]}
    /\ UNCHANGED <<plan, bench>>

\* bench_is_finish: main leaves its loop and frees everything.
Finish ==
    /\ bench.at = "wait" /\ \A k \in 1 .. Len(plan) : FinishN(k)
    /\ bench' = [bench EXCEPT !.at = "over"] /\ UNCHANGED <<plan, monitor, flying>>

Loop == MakeData \/ Issue \/ NextBench \/ RunDry \/ Finish
Reaper == \E c \in flying : Reap(c) \/ EndReq(c)
NextB == Loop \/ Reaper

-----------------------------------------------------------------------------
\* A benchmark that writes and reads back an odd number of commands.
CutShort(t) == t.type \in {"VRW", "VPARTIAL"} /\ Count(t) % 2 = 1

\* The commands of a benchmark that are in flight.
Unended(k) == {i \in 1 .. monitor[k].issued : \E c \in flying : c.mark = k /\ c.cmd = i}

\* When the program frees its structures every request it has issued is reaped,
\* although the requests of several benchmarks may be in flight together and end in
\* any order; at most two commands of a benchmark are still to be counted, and only
\* a benchmark behind an odd number of commands has not run.
FreedWhenReaped ==
    bench.at = "over" =>
        /\ \A c \in flying : c.left = 0
        /\ \A k \in 1 .. Len(plan) :
              /\ monitor[k].issued = Len(monitor[k].body)
              /\ Cardinality(Unended(k)) <= 2
              /\ monitor[k].made \/ \E h \in 1 .. k - 1 : CutShort(plan[h])

\* The sequential vectored benchmarks and the unique one take no modulus: they stay
\* in the range only where it has room for all of their requests.
Fits(t) ==
    /\ t.type \in {"VSSET", "VSGET", "VUNIQ"} => Count(t) * Width(t) <= t.end - t.start
    /\ t.type = "VUNIQ" => t.start = 0

\* A benchmark that writes and reads asks only for blocks it has written before,
\* and one that fits its range does not leave it.
ReadsWritten ==
    \A k \in 1 .. Len(plan) : LET b == monitor[k].body IN
        /\ plan[k].type \in {"SEQRW", "RANDRW", "VRW", "VPARTIAL"} =>
             \A i \in DOMAIN b : b[i].op = "R" =>
                 \E h \in 1 .. i - 1 : b[h].op = "W" /\ b[h].keys = b[i].keys /\ h = i - (Len(b) \div 2)
        /\ plan[k].type # "VPARTIAL" /\ Fits(plan[k]) => \A i \in DOMAIN b : ToSet(b[i].keys) \subseteq plan[k].start .. plan[k].end

\* Every plan ends.
PlanDone == bench.at = "over"

-----------------------------------------------------------------------------
(* The inductive invariant behind FreedWhenReaped and ReadsWritten.        *)

\* What bench_add is given: a kind, a range and a number of requests.
Asked == [type : Plain \cup Vectored, start : Nat, end : Nat, number : Nat]
OnDemand == {"SEQGET", "SEQSET", "RANDGET", "RANDSET"}

\* The plans the driver can run: a range and a number that are not empty; one main
\* program, so kinds that are all plain or all vectored; fillrand from block 0, since
\* it indexes an array of the size of its range by block; and only benchmarks made on
\* demand behind one made on demand, whose loop makes its successor in the same way.
Runnable(p) ==
    /\ \A k \in DOMAIN p : /\ p[k].start < p[k].end
                           /\ Count(Added(p)[k]) > 0
                           /\ p[k].type = "FILLRAND" => p[k].start = 0
                           /\ p[k].type \in Vectored <=> p[1].type \in Vectored
    /\ \A k \in 1 .. Len(p) - 1 : p[k].type \in OnDemand => p[k + 1].type \in OnDemand

PlansSound ==
    /\ PerCommand \in Nat \ {0} /\ MaxFlight \in Nat
    /\ Plans \subseteq Seq(Asked) /\ \A p \in Plans : Runnable(p)

CommandRecord == [op : {"R", "W"}, keys : Seq(Int)]
MonitorRecord ==
    [body : Seq(CommandRecord), made : BOOLEAN, command : Nat, issued : Nat, returned : Nat, m : Nat, r : Nat]
FlyingRecord == [mark : 1 .. Len(plan), cmd : Nat, left : Nat, done : Nat]
BenchTypeOK ==
    /\ plan \in {Added(p) : p \in Plans}
    /\ monitor \in [1 .. Len(plan) + 1 -> MonitorRecord]
    /\ bench \in [n : 1 .. Len(plan) + 1, at : {"issue", "wait", "over"}]
    /\ flying \subseteq FlyingRecord

\* A benchmark has the requests its generator made, and counts them.
BodiesMade ==
    /\ \A k \in 1 .. Len(plan) :
          IF monitor[k].made THEN /\ monitor[k].body \in Bodies(plan[k])
                                  /\ monitor[k].m = Made(plan[k], monitor[k].body)
                                  /\ monitor[k].command = IF IsVectored THEN Count(plan[k]) ELSE 0
                                  /\ monitor[k].issued <= Len(monitor[k].body)
                             ELSE monitor[k] = NoMonitor
    /\ ~monitor[Len(plan) + 1].made

\* A command is in flight once, has some of its requests left or to be counted, and
\* has counted none that is not reaped; a plain one ends as it is reaped.
FlyingOnce ==
    /\ \A c \in flying : /\ c.cmd \in 1 .. monitor[c.mark].issued
                         /\ c.left + c.done <= Width(plan[c.mark])
                         /\ c.done < Width(plan[c.mark])
                         /\ ~IsVectored => c.left = 1
    /\ \A c, d \in flying : c.mark = d.mark /\ c.cmd = d.cmd => c = d

\* The requests of a benchmark that are in flight, and those reaped, are the
\* requests of the commands issued.
Unreaped(k) ==
    {x \in (1 .. monitor[k].issued) \X (1 .. Width(plan[k])) :
        \E c \in flying : c.mark = k /\ c.cmd = x[1] /\ x[2] <= c.left}
RequestsAdd ==
    \A k \in 1 .. Len(plan) : monitor[k].r + Cardinality(Unreaped(k)) = monitor[k].issued * Width(plan[k])

\* The commands of a vectored benchmark in flight, and those returned, are those issued.
CommandsAdd ==
    IsVectored => \A k \in 1 .. Len(plan) : monitor[k].returned + Cardinality(Unended(k)) = monitor[k].issued

\* The loop has issued all of the benchmarks it has passed, and the one it is at when it
\* left early.
LoopInOrder ==
    /\ \A k \in 1 .. bench.n - 1 : monitor[k].made /\ monitor[k].issued = Len(monitor[k].body)
    /\ \A k \in bench.n + 1 .. Len(plan) : ~monitor[k].made
    /\ bench.at # "issue" /\ bench.n <= Len(plan) =>
          /\ monitor[bench.n].made /\ monitor[bench.n].issued = Len(monitor[bench.n].body)
          /\ CutShort(plan[bench.n])
    /\ bench.at = "over" => \A k \in 1 .. Len(plan) : FinishN(k)

BenchInv == BenchTypeOK /\ BodiesMade /\ FlyingOnce /\ RequestsAdd /\ CommandsAdd /\ LoopInOrder
=============================================================================
