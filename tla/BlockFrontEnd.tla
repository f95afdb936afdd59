--------------------------- MODULE BlockFrontEnd -----------------------------
(***************************************************************************)
(* The block device front end (cheeze_hg_block.c, cheeze_block_main.c):    *)
(* the kernel puts requests into the slots of a shared page and raises     *)
(* `send`; a thread scans the slots, turns them into vectored requests and *)
(* queues them; the main thread hands their blocks to the FTL one by one,  *)
(* through the global write buffer when the program is built with one; a   *)
(* request's last block raises `recv`.  Writes and discards are answered   *)
(* when they are scanned, so their slot may be reused while they run.      *)
(*                                                                         *)
(* A block's contents are the number of the write that made them, counted  *)
(* per block in the order the requests are scanned.  The FTL is external:  *)
(* it applies writes in order and completes reads and writes at any time.  *)
(* Discards are not sent to a build with the write buffer.                 *)
(***************************************************************************)
EXTENDS Integers, Sequences, FiniteSets, FiniteSetsExt, SequencesExt

CONSTANTS
    Slots,       \* CHEEZE_QUEUE_SIZE
    Blocks,      \* number of logical blocks
    Requests,    \* what the kernel sends: records of op, pos and len
    MaxSend,     \* bound on requests
    BufferSize,  \* buffer_size of one write buffer
    WithBuffer   \* subset of BOOLEAN: builds without and with GLOBAL_WRITE_BUFFER

Slot == 0 .. Slots - 1
Lba == 0 .. Blocks - 1
NoVer == -1

VARIABLES
    gwb,      \* is the program built with the write buffer?
    slot,     \* shared page: op, pos, len, send, recv, buf; floor is a ghost
    scan,     \* scanner: check (snapshot), order still to do, previous_queue, arr
    reqq,     \* queue of vectored requests
    done,     \* blocks of its first request the main thread is through with
    flight,   \* blocks the FTL has not completed
    buffer,   \* write buffers: index, contents, what the flush thread does
    disk,     \* per block: scanned, acked, and the FTL's contents
    sends

frontVars == <<gwb, slot, scan, reqq, done, flight, buffer, disk, sends>>

Empty == [b \in Lba |-> NoVer]
Entries(c) == {b \in Lba : c[b] # NoVer}
Pages(r) == r.pos .. r.pos + r.len - 1

InitFront ==
    /\ gwb \in WithBuffer
    /\ slot = [i \in Slot |-> [op |-> "R", pos |-> 0, len |-> 0, send |-> FALSE, recv |-> TRUE,
                               buf |-> Empty, floor |-> Empty]]
    /\ scan = [order |-> <<>>, previous |-> 0, arr |-> <<>>]
    /\ reqq = <<>> /\ done = 0 /\ flight = {} /\ sends = 0
    /\ buffer = [index |-> 0, at |-> [n \in {0, 1} |-> Empty], job |-> "none", waiting |-> FALSE]
    /\ disk = [scanned |-> [b \in Lba |-> 0], acked |-> [b \in Lba |-> 0], ftl |-> [b \in Lba |-> 0]]

-----------------------------------------------------------------------------
(* The kernel (external): it uses a slot again once that is answered.      *)

Send(i, r) ==
    /\ slot[i].recv /\ sends < MaxSend
    /\ r.op = "D" => ~gwb
    /\ slot' = [slot EXCEPT ![i] = [op |-> r.op, pos |-> r.pos, len |-> r.len, send |-> TRUE, recv |-> FALSE,
                                    buf |-> Empty, floor |-> IF r.op = "R" THEN disk.acked ELSE Empty]]
    /\ sends' = sends + 1 /\ UNCHANGED <<gwb, scan, reqq, done, flight, buffer, disk>>

-----------------------------------------------------------------------------
(* get_vectored_request_arr.                                               *)

\* The scan starts at previous_queue: when slot i has its turn, and the slots of
\* S by turn.
Turn(i) == (i + Slots - scan.previous) % Slots
FirstOf(S) == CHOOSE i \in S : \A j \in S : Turn(i) <= Turn(j)
ByTurn(S) ==
    {q \in [1 .. Cardinality(S) -> S] : \A m, n \in 1 .. Cardinality(S) : m < n => Turn(q[m]) < Turn(q[n])}

\* previous_queue moves to the first slot with nothing to send, or back to the
\* start when the last slot is passed with something to send after that.
NextPrevious(check) ==
    LET idle == Slot \ check
    IN IF Slots - 1 \in check /\ (idle = {} \/ FirstOf(idle) >= scan.previous) THEN 0 ELSE FirstOf(idle)

Scan ==
    LET check == {i \in Slot : slot[i].send}
    IN /\ scan.order = <<>> /\ scan.arr = <<>> /\ check # {}
       /\ \E order \in ByTurn(check) :
             scan' = [scan EXCEPT !.order = order, !.previous = NextPrevious(check)]
       /\ UNCHANGED <<gwb, slot, reqq, done, flight, buffer, disk, sends>>

\* ch_ureq2vec_req: the data of a write is copied out of the slot.
VecReq(i) ==
    [slot |-> i, op |-> slot[i].op, pos |-> slot[i].pos, len |-> slot[i].len,
     ver |-> [b \in Lba |-> disk.scanned[b] + 1]]
Bump(count, r) == [b \in Lba |-> IF b \in Pages(r) /\ r.op # "R" THEN count[b] + 1 ELSE count[b]]

\* Only reads are answered later.
AckWrites(op) == op = "W"
AckNow(op) == op # "R"

TakeSlot ==
    LET i == Head(scan.order)
        r == VecReq(i)
        now == Bump(disk.scanned, r)
    IN /\ scan.order # <<>>
       /\ scan' = [scan EXCEPT !.order = Tail(@), !.arr = Append(@, r)]
       /\ slot' = [slot EXCEPT ![i].send = FALSE, ![i].recv = AckNow(r.op)]
       /\ disk' = [disk EXCEPT !.scanned = now, !.acked = IF AckNow(r.op) THEN now ELSE @]
       /\ UNCHANGED <<gwb, reqq, done, flight, buffer, sends>>

\* thread_test: assign_vectored_req in the order of the array.
Assign ==
    /\ scan.order = <<>> /\ scan.arr # <<>>
    /\ reqq' = Append(reqq, Head(scan.arr)) /\ scan' = [scan EXCEPT !.arr = Tail(@)]
    /\ UNCHANGED <<gwb, slot, done, flight, buffer, disk, sends>>

-----------------------------------------------------------------------------
(* The main thread: inf_algorithm_caller for one block after the other.    *)

\* The request at the head of the queue is the one the main thread works on.
Now == Head(reqq)
Block == Now.pos + done
Working(op) == reqq # <<>> /\ Now.op = op /\ ~buffer.waiting
Advance ==
    IF done + 1 < Now.len THEN done' = done + 1 /\ UNCHANGED reqq ELSE done' = 0 /\ reqq' = Tail(reqq)
Issue(v) == flight' = flight \cup {[r |-> Now, b |-> Block, ver |-> v]}

\* read_global_write_buffer: the buffer being flushed is asked first; its lock
\* is held as long as the flush runs.
OldFirst(b) ==
    LET old == buffer.at[1 - buffer.index][b]
        new == buffer.at[buffer.index][b]
    IN IF old # NoVer THEN old ELSE IF new # NoVer THEN new ELSE disk.ftl[b]

ReadBlock ==
    /\ Working("R") /\ (gwb => buffer.job # "running")
    /\ Issue(IF gwb THEN OldFirst(Block) ELSE disk.ftl[Block])
    /\ Advance /\ UNCHANGED <<gwb, slot, scan, buffer, disk, sends>>

WriteFtl ==
    /\ (Working("W") \/ Working("D")) /\ ~gwb
    /\ disk' = [disk EXCEPT !.ftl[Block] = Now.ver[Block]]
    /\ Issue(Now.ver[Block])
    /\ Advance /\ UNCHANGED <<gwb, slot, scan, buffer, sends>>

\* write_global_write_buffer: the request ends at once; a full buffer is given
\* to the flush thread when that has finished the other one.
PutBuffer(B, b, v) == [B EXCEPT !.at[B.index][b] = v]
WriteBuffer ==
    LET B == PutBuffer(buffer, Block, Now.ver[Block])
    IN /\ Working("W") /\ gwb
       /\ buffer' = [B EXCEPT !.waiting = Cardinality(Entries(B.at[B.index])) = BufferSize]
       /\ Issue(Now.ver[Block])
       /\ Advance /\ UNCHANGED <<gwb, slot, scan, disk, sends>>

SwitchAtOnce == buffer.waiting
CanSwitch == buffer.waiting /\ buffer.job = "none"
SwitchBuffer ==
    /\ CanSwitch
    /\ buffer' = [buffer EXCEPT !.waiting = FALSE, !.job = "queued", !.index = 1 - @]
    /\ UNCHANGED <<gwb, slot, scan, reqq, done, flight, disk, sends>>

\* flush_job, under the lock of its buffer.
StartFlush ==
    /\ buffer.job = "queued" /\ buffer' = [buffer EXCEPT !.job = "running"]
    /\ UNCHANGED <<gwb, slot, scan, reqq, done, flight, disk, sends>>
FlushBlock ==
    LET old == buffer.at[1 - buffer.index]
    IN /\ buffer.job = "running"
       /\ IF Entries(old) = {}
          THEN buffer' = [buffer EXCEPT !.job = "none"] /\ UNCHANGED disk
          ELSE LET b == Min(Entries(old))
               IN /\ disk' = [disk EXCEPT !.ftl[b] = old[b]]
                  /\ buffer' = [buffer EXCEPT !.at[1 - buffer.index][b] = NoVer]
       /\ UNCHANGED <<gwb, slot, scan, reqq, done, flight, sends>>

-----------------------------------------------------------------------------
(* cheeze_end_req: the data of a read goes to the slot's buffer; the last   *)
(* block of a request answers it if it is a read.                          *)

RaiseRecv(op, last) == op = "R" /\ last

EndBlock(f) ==
    LET last == Cardinality({g \in flight : g.r = f.r}) = 1 /\ f.r \notin ToSet(reqq)
        raise == RaiseRecv(f.r.op, last)
        buf == slot[f.r.slot].buf
        put == IF f.r.op = "R" THEN [buf EXCEPT ![f.b] = f.ver] ELSE buf
    IN /\ f \in flight /\ flight' = flight \ {f}
       /\ slot' = [slot EXCEPT ![f.r.slot].buf = put, ![f.r.slot].recv = @ \/ raise]
       /\ UNCHANGED <<gwb, scan, reqq, done, buffer, disk, sends>>

Scanner == Scan \/ TakeSlot \/ Assign
MainThread == ReadBlock \/ WriteFtl \/ WriteBuffer \/ SwitchBuffer
FlushThread == StartFlush \/ FlushBlock
Kernel == \E i \in Slot : \E r \in Requests : Send(i, r)
Device == \E f \in flight : EndBlock(f)

NextFront == Kernel \/ Scanner \/ MainThread \/ FlushThread \/ Device

-----------------------------------------------------------------------------
Fresh(i) == \A b \in Pages(slot[i]) : slot[i].buf[b] >= slot[i].floor[b]
Answered(i) == slot[i].op = "R" /\ slot[i].recv

\* A read is answered when all its blocks are in the buffer of its own slot, and
\* each is at least as new as the last write that had been answered when the
\* read was sent, although writes are answered before they reach the FTL and
\* their slots are used again while they run.
AnsweredReadsFresh == \A i \in Slot : Answered(i) /\ ~gwb => Fresh(i)

\* The same for a build with the global write buffer.
BufferedReadsFresh == \A i \in Slot : Answered(i) /\ gwb => Fresh(i)

\* What the main thread has written last is in the buffer being filled, or else
\* in the one being flushed, or else in the FTL: a flush never puts an older
\* block over a newer one and loses none.
Written(b) ==
    LET pending == {r \in ToSet(reqq) \cup ToSet(scan.arr) :
                       r.op # "R" /\ b \in Pages(r) /\ (reqq # <<>> /\ Now = r => b >= Block)}
    IN disk.scanned[b] - Cardinality(pending)
NewestKept ==
    \A b \in Lba :
        LET new == buffer.at[buffer.index][b]
            old == buffer.at[1 - buffer.index][b]
        IN Written(b) = IF new # NoVer THEN new ELSE IF old # NoVer THEN old ELSE disk.ftl[b]

\* Every request is answered.
RequestsAnswered == \A i \in Slot : ~slot[i].recv ~> slot[i].recv
=============================================================================
