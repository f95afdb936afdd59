----------------------------- MODULE AioDevice ------------------------------
(***************************************************************************)
(* The Linux AIO back end (lower/linux_aio/linux_aio.c).  A request is put *)
(* in the control block of a free tag and its tag queued; the sender       *)
(* thread takes the whole queue and submits it; the kernel finishes the    *)
(* control blocks in any order; the poller thread ends the requests and    *)
(* frees their tags.                                                       *)
(***************************************************************************)
EXTENDS Integers, Sequences, FiniteSets, SequencesExt

CONSTANTS MAX_REQ_NUM, MaxCalls      \* tags; requests sent in all, numbered from 1

VARIABLES
    tagQ,           \* free tags, oldest first
    private_list,   \* tag -> request in its control block
    cbs_queue,      \* tags to submit
    batch,          \* the sender's batch, between its lock and io_submit
    kernel,         \* tags submitted and not finished
    polled,         \* the tag the poller is ending
    calls,          \* requests sent
    waiting,        \* the caller waits for a tag
    ended           \* requests ended, in order

aioVars == <<tagQ, private_list, cbs_queue, batch, kernel, polled, calls, waiting, ended>>

Tag == 0 .. MAX_REQ_NUM - 1
NoTag == -1

InitAio ==
    /\ tagQ = [i \in 1 .. MAX_REQ_NUM |-> i - 1]
    /\ private_list = [t \in Tag |-> 0]
    /\ cbs_queue = <<>> /\ batch = <<>> /\ kernel = {} /\ polled = NoTag
    /\ calls = 0 /\ waiting = FALSE /\ ended = <<>>

\* aio_read and aio_write, up to tag_manager_get_tag.
AioCall ==
    /\ ~waiting /\ calls < MaxCalls
    /\ calls' = calls + 1 /\ waiting' = TRUE
    /\ UNCHANGED <<tagQ, private_list, cbs_queue, batch, kernel, polled, ended>>
\* send_req, once there is a tag.
SendReq ==
    /\ waiting /\ tagQ # <<>>
    /\ tagQ' = Tail(tagQ)
    /\ private_list' = [private_list EXCEPT ![Head(tagQ)] = calls]
    /\ cbs_queue' = Append(cbs_queue, Head(tagQ))
    /\ waiting' = FALSE
    /\ UNCHANGED <<batch, kernel, polled, calls, ended>>

TakeAll(q) == q
\* sender: the batch is taken under the lock and submitted outside it.
SenderTake ==
    /\ batch = <<>> /\ cbs_queue # <<>>
    /\ batch' = TakeAll(cbs_queue) /\ cbs_queue' = <<>>
    /\ UNCHANGED <<tagQ, private_list, kernel, polled, calls, waiting, ended>>
SenderSubmit ==
    /\ batch # <<>>
    /\ kernel' = kernel \cup ToSet(batch) /\ batch' = <<>>
    /\ UNCHANGED <<tagQ, private_list, cbs_queue, polled, calls, waiting, ended>>

\* poller: io_getevents gives one event; the request ends before its tag is free.
PollerEnd(t) ==
    /\ polled = NoTag /\ t \in kernel
    /\ kernel' = kernel \ {t} /\ polled' = t
    /\ ended' = Append(ended, private_list[t])
    /\ UNCHANGED <<tagQ, private_list, cbs_queue, batch, calls, waiting>>
PollerFree ==
    /\ polled # NoTag
    /\ tagQ' = Append(tagQ, polled) /\ polled' = NoTag
    /\ UNCHANGED <<private_list, cbs_queue, batch, kernel, calls, waiting, ended>>

Sender == SenderTake \/ SenderSubmit
Poller == PollerFree \/ \E t \in Tag : PollerEnd(t)
NextAio == AioCall \/ SendReq \/ SenderTake \/ SenderSubmit \/ PollerFree \/ \E t \in Tag : PollerEnd(t)

(* No request ends twice, and every request sent is in exactly one control  *)
(* block or has ended: a tag is in one place at a time.                     *)
SentOnce ==
    /\ IsInjective(ended)
    /\ LET busy == ToSet(cbs_queue) \cup ToSet(batch) \cup kernel
       IN  /\ 1 .. calls = ToSet(ended) \cup {private_list[t] : t \in busy} \cup (IF waiting THEN {calls} ELSE {})
           /\ busy \cap (ToSet(tagQ) \cup {polled}) = {}
           /\ \A t \in busy : private_list[t] \notin ToSet(ended)
           /\ Len(tagQ) + Len(cbs_queue) + Len(batch) + Cardinality(kernel) + Cardinality({polled} \ {NoTag})
                = MAX_REQ_NUM
AllEnded == calls = MaxCalls /\ Len(ended) = MaxCalls
-----------------------------------------------------------------------------
(* The inductive invariant behind SentOnce.                                *)

AioTypeOK ==
    /\ tagQ \in Seq(Tag) /\ cbs_queue \in Seq(Tag) /\ batch \in Seq(Tag)
    /\ kernel \in SUBSET Tag /\ polled \in Tag \cup {NoTag}
    /\ private_list \in [Tag -> 0 .. MaxCalls]
    /\ calls \in 0 .. MaxCalls /\ waiting \in BOOLEAN /\ ended \in Seq(1 .. MaxCalls)

Busy == ToSet(cbs_queue) \cup ToSet(batch) \cup kernel

\* A tag is in one place.
TagsApart ==
    /\ IsInjective(tagQ) /\ IsInjective(cbs_queue) /\ IsInjective(batch)
    /\ ToSet(cbs_queue) \cap ToSet(batch) = {}
    /\ kernel \cap (ToSet(cbs_queue) \cup ToSet(batch)) = {}
    /\ ToSet(tagQ) \cap (Busy \cup {polled}) = {}
    /\ polled \notin Busy

\* So is a request: with the caller that waits, in one control block, or ended.
RequestsApart ==
    /\ \A s, t \in Busy : private_list[s] = private_list[t] => s = t
    /\ \A t \in Busy : private_list[t] \notin ToSet(ended)
    /\ waiting => calls \notin ToSet(ended) /\ \A t \in Busy : private_list[t] # calls

AioInv == AioTypeOK /\ TagsApart /\ RequestsApart /\ SentOnce
=============================================================================
