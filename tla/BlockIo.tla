------------------------------ MODULE BlockIo -------------------------------
(***************************************************************************)
(* A request on an exported object, from its submission to its end         *)
(* (modules/cas_cache/volume/vol_block_dev_top.c), and the requests that   *)
(* OCF forwards for it to the disks below (vol_block_dev_bottom.c).        *)
(*                                                                         *)
(* A request in interrupt context is deferred to a workqueue.  A request   *)
(* with a flush is flushed first and then goes on without it.  Data that   *)
(* are too long for one I/O are split; the blk_data of the first part is   *)
(* the master that counts the parts still under way, plus one for the      *)
(* loop that submits them, and whoever brings the count to zero ends the   *)
(* request.  The bottom volume does the same below with a token of OCF,    *)
(* which ends once every bio it sent and its own loop are done.            *)
(*                                                                         *)
(* Requests share nothing here, so one request is modelled; its parts and  *)
(* their bios end in any order, on any CPU.  What OCF does with an I/O     *)
(* besides forwarding it is external.                                      *)
(***************************************************************************)
EXTENDS Integers, FiniteSets, Sequences

CONSTANTS
    MaxParts,   \* bound on the parts a request is split into
    MaxBios     \* bound on the bios sent for one I/O

VARIABLES
    flush, payload,  \* the request: asks for a flush, none, data or discard
    pc,         \* where the request is
    left,       \* parts yet to be submitted
    io,         \* the I/Os given to OCF, with the tokens below
    master,     \* blk_data of the first part
    cpl,        \* callers of blkdev_complete_data_master
    ends,       \* how often the request was ended, and how
    failed,     \* whether anything that was to be done failed
    lost,       \* history: an error was overwritten in the master, or dropped below
    ioFault     \* whether freed memory was used

ioVars == <<flush, payload, pc, left, io, master, cpl, ends, failed, lost, ioFault>>
fixed == <<flush, payload, lost>>

Parts == 1 .. MaxParts
\* The I/O of a flush and that of a discard, beside those of the parts.
Flush == 0
Discard == -1
Ios == Parts \cup {Flush, Discard}
\* The loop in blkdev_handle_data is the caller 0.
Callers == Parts \cup {0}

\* An I/O and the token of the request forwarded for it.
NoIo == [st |-> "none", count |-> 0, bios |-> 0, sent |-> 0, err |-> FALSE]
Idle == [at |-> "none", seen |-> FALSE, err |-> FALSE]

IoInit ==
    /\ flush \in BOOLEAN /\ payload \in {"none", "data", "discard"}
    /\ ~(flush /\ payload = "discard")
    /\ pc = "submit"
    /\ left = 0
    /\ io = [i \in Ios |-> NoIo]
    /\ master = [alive |-> FALSE, remaining |-> 0, error |-> FALSE]
    /\ cpl = [c \in Callers |-> Idle]
    /\ ends = <<>>
    /\ failed = FALSE /\ lost = FALSE /\ ioFault = FALSE

\* CAS_BIO_ENDIO
End(err) == ends' = Append(ends, err) /\ pc' = "ended"

\* An error of the request itself: nothing is under way for it.
EndFailed ==
    /\ End(TRUE)
    /\ failed' = TRUE
    /\ UNCHANGED <<fixed, left, io, master, cpl, ioFault>>

\* blkdev_defer_bio: the work, or the request fails when it cannot be
\* allocated.
DeferTo(where) ==
    /\ pc' = where
    /\ UNCHANGED <<ends, failed>>
DeferFails == End(TRUE) /\ failed' = TRUE
Defer(where) == DeferTo(where) \/ DeferFails

\* blkdev_submit_bio: in an interrupt the request is deferred.
Submit ==
    /\ pc = "submit"
    /\ Defer("deferred") \/ DeferTo("handle")
    /\ UNCHANGED <<fixed, left, io, master, cpl, ioFault>>

\* blkdev_defer_bio_work, with the handler it was given.
DeferredWork ==
    /\ \/ pc = "deferred" /\ pc' = "handle"
       \/ pc = "deferred noflush" /\ pc' = "noflush"
    /\ UNCHANGED <<fixed, left, io, master, cpl, ends, failed, ioFault>>

\* An I/O given to OCF, which forwards it with a token of one reference or
\* ends it without the disk.
NewIo(i) == io' = [io EXCEPT ![i] = [NoIo EXCEPT !.st = "submitted"]]

\* blkdev_handle_bio, blkdev_handle_flush
HandleFlush ==
    /\ pc = "handle" /\ flush
    /\ pc' = "wait"
    /\ NewIo(Flush)
    /\ UNCHANGED <<fixed, left, master, cpl, ends, failed, ioFault>>

HandleNoFlush ==
    /\ pc = "handle" /\ ~flush
    /\ pc' = "noflush"
    /\ UNCHANGED <<fixed, left, io, master, cpl, ends, failed, ioFault>>

\* ocf_volume_new_io fails for a flush or a discard.
NewIoFails ==
    /\ \/ pc = "handle" /\ flush
       \/ pc = "noflush" /\ payload = "discard"
    /\ EndFailed

\* blkdev_handle_discard
HandleDiscard ==
    /\ pc = "noflush" /\ payload = "discard"
    /\ pc' = "wait"
    /\ NewIo(Discard)
    /\ UNCHANGED <<fixed, left, master, cpl, ends, failed, ioFault>>

\* blkdev_handle_data, which refuses an empty request.
HandleEmpty ==
    /\ pc = "noflush" /\ payload = "none"
    /\ EndFailed

HandleData ==
    /\ pc = "noflush" /\ payload = "data"
    /\ pc' = "split"
    /\ left' \in Parts
    /\ UNCHANGED <<fixed, io, master, cpl, ends, failed, ioFault>>

\* The count of a new master: one for the loop and one for the part.  The
\* mutant forgets the loop.
PartOnly == 1
LoopAndPart == 2

\* blkdev_handle_data_single: the first part that is submitted makes its
\* blk_data the master.
Submitted == {p \in Parts : io[p].st # "none"}
HandlePart ==
    /\ pc = "split" /\ left > 0
    /\ left' = left - 1
    /\ NewIo(Cardinality(Submitted) + 1)
    /\ master' = IF Submitted = {}
                 THEN [alive |-> TRUE, remaining |-> LoopAndPart, error |-> FALSE]
                 ELSE [master EXCEPT !.remaining = @ + 1]
    /\ ioFault' = (ioFault \/ (Submitted # {} /\ ~master.alive))
    /\ UNCHANGED <<fixed, pc, cpl, ends, failed>>

\* A caller enters blkdev_complete_data_master.
Enter(c, err) ==
    cpl' = [cpl EXCEPT ![c] = [at |-> "load", seen |-> FALSE, err |-> err]]

\* The error path of the loop; the mutant leaves the master alone.
LeaveMaster == UNCHANGED cpl
AbortMaster == Enter(0, TRUE)

\* No memory for a part: the rest is not submitted.
PartFails ==
    /\ pc = "split" /\ left > 0
    /\ failed' = TRUE
    /\ left' = 0
    /\ IF Submitted = {}
       THEN End(TRUE) /\ UNCHANGED cpl
       ELSE AbortMaster /\ pc' = "wait" /\ UNCHANGED ends
    /\ UNCHANGED <<fixed, io, master, ioFault>>

\* All parts submitted.
LoopDone ==
    /\ pc = "split" /\ left = 0
    /\ pc' = "wait"
    /\ Enter(0, FALSE)
    /\ UNCHANGED <<fixed, left, io, master, ends, failed, ioFault>>

\* blkdev_complete_data_master: master->error is read and written back
\* without a lock, then the count is decremented atomically.  At the end of
\* the loop the error is the constant 0, and the compiler may leave out the
\* assignment, which then changes nothing.
LoadError(c) ==
    /\ cpl[c].at = "load"
    /\ \E at \in {"store"} \cup (IF c = 0 /\ ~cpl[c].err THEN {"dec"} ELSE {}) :
        cpl' = [cpl EXCEPT ![c].at = at, ![c].seen = master.error]
    /\ ioFault' = (ioFault \/ ~master.alive)
    /\ UNCHANGED <<fixed, pc, left, io, master, ends, failed>>

StoreError(c) ==
    /\ cpl[c].at = "store"
    /\ cpl' = [cpl EXCEPT ![c].at = "dec"]
    /\ master' = [master EXCEPT !.error = cpl[c].seen \/ cpl[c].err]
    /\ lost' = (lost \/ (master.error /\ ~cpl[c].seen /\ ~cpl[c].err))
    /\ ioFault' = (ioFault \/ ~master.alive)
    /\ UNCHANGED <<flush, payload, pc, left, io, ends, failed>>

DecRemaining(c) ==
    /\ cpl[c].at = "dec"
    /\ cpl' = [cpl EXCEPT ![c] = Idle]
    /\ ioFault' = (ioFault \/ ~master.alive)
    /\ IF master.remaining = 1
       THEN /\ End(master.error)
            /\ master' = [alive |-> FALSE, remaining |-> 0, error |-> FALSE]
       ELSE /\ master' = [master EXCEPT !.remaining = @ - 1]
            /\ UNCHANGED <<ends, pc>>
    /\ UNCHANGED <<fixed, left, io, failed>>

\* OCF forwards an I/O to the bottom volume, or ends it by itself.
Forward(i) ==
    /\ io[i].st = "submitted"
    /\ io' = [io EXCEPT ![i].st = "forwarding", ![i].count = 1]
    /\ UNCHANGED <<fixed, pc, left, master, cpl, ends, failed, ioFault>>

EndByOcf(i, err) ==
    /\ io[i].st = "submitted"
    /\ io' = [io EXCEPT ![i].st = "ending", ![i].err = err]
    /\ failed' = (failed \/ err)
    /\ UNCHANGED <<fixed, pc, left, master, cpl, ends, ioFault>>

\* ocf_forward_end: a reference of the token is dropped, the first error
\* kept; the last one ends the I/O.
ForwardEnd(t, err) ==
    [t EXCEPT !.count = @ - 1, !.err = @ \/ err,
              !.st = IF t.count = 1 THEN "ending" ELSE t.st]

\* block_dev_forward_io and block_dev_forward_discard send one more bio,
\* which has a reference of its own.
SendBio(i) ==
    /\ io[i].st = "forwarding" /\ io[i].sent < MaxBios
    /\ io' = [io EXCEPT ![i].bios = @ + 1, ![i].sent = @ + 1, ![i].count = @ + 1]
    /\ UNCHANGED <<fixed, pc, left, master, cpl, ends, failed, ioFault>>
ForwardData(p) == SendBio(p)
ForwardDiscard == SendBio(Discard)

\* block_dev_forward_flush sends one bio and gives it the token's reference.
ForwardFlush ==
    /\ io[Flush].st = "forwarding"
    /\ io' = [io EXCEPT ![Flush].bios = 1, ![Flush].st = "sent"]
    /\ UNCHANGED <<fixed, pc, left, master, cpl, ends, failed, ioFault>>

\* The loop ends, with an error when a bio could not be allocated or the
\* data were too short, or nothing had to be sent (a disk without flush or
\* discard): the loop's reference is dropped.
StopSending(i, err) ==
    /\ io[i].st = "forwarding"
    /\ i \in Parts => err \/ io[i].sent > 0
    /\ io' = [io EXCEPT ![i] = ForwardEnd([io[i] EXCEPT !.st = "sent", !.sent = 0], err)]
    /\ failed' = (failed \/ err)
    /\ UNCHANGED <<fixed, pc, left, master, cpl, ends, ioFault>>

\* cas_bd_forward_end takes "not supported" for no error if the bio has a
\* flag of CAS_BIO_DISCARD.  REQ_OP_DISCARD has the bit of REQ_OP_WRITE: the
\* bios of a flush or a discard have it, and those OCF sends to write the
\* data of a part.
DiscardFlag(i, dir) == i \in {Flush, Discard} \/ dir = "write"

BioEnd(i, dir, status) ==
    /\ io[i].bios > 0
    /\ LET excused == status = "not supported" /\ DiscardFlag(i, dir)
           err == status # "ok" /\ ~excused
           dropped == excused /\ i # Discard
       IN /\ io' = [io EXCEPT ![i] = ForwardEnd([io[i] EXCEPT !.bios = @ - 1], err)]
          /\ failed' = (failed \/ err \/ dropped)
          /\ lost' = (lost \/ dropped)
    /\ UNCHANGED <<flush, payload, pc, left, master, cpl, ends, ioFault>>

\* blkdev_complete_flush: the data follow, if there are any.
CompleteFlush ==
    /\ io[Flush].st = "ending"
    /\ io' = [io EXCEPT ![Flush].st = "done"]
    /\ IF io[Flush].err \/ payload = "none"
       THEN End(io[Flush].err) /\ UNCHANGED failed
       ELSE Defer("deferred noflush")
    /\ UNCHANGED <<fixed, left, master, cpl, ioFault>>

\* blkdev_complete_discard
CompleteDiscard ==
    /\ io[Discard].st = "ending"
    /\ io' = [io EXCEPT ![Discard].st = "done"]
    /\ End(io[Discard].err)
    /\ UNCHANGED <<fixed, left, master, cpl, failed, ioFault>>

\* blkdev_complete_data
CompletePart(p) ==
    /\ io[p].st = "ending"
    /\ io' = [io EXCEPT ![p].st = "done"]
    /\ Enter(p, io[p].err)
    /\ ioFault' = (ioFault \/ ~master.alive)
    /\ UNCHANGED <<fixed, pc, left, master, ends, failed>>

TopStep ==
    \/ Submit \/ DeferredWork
    \/ HandleFlush \/ HandleNoFlush \/ NewIoFails \/ HandleDiscard
    \/ HandleEmpty \/ HandleData \/ HandlePart \/ PartFails \/ LoopDone
    \/ CompleteFlush \/ CompleteDiscard
    \/ \E p \in Parts : CompletePart(p)
    \/ \E c \in Callers : LoadError(c) \/ StoreError(c) \/ DecRemaining(c)

BelowStep ==
    \/ ForwardFlush \/ ForwardDiscard \/ \E p \in Parts : ForwardData(p)
    \/ \E i \in Ios :
        \/ Forward(i)
        \/ \E err \in BOOLEAN : EndByOcf(i, err) \/ StopSending(i, err)
        \/ \E dir \in {"read", "write"}, status \in {"ok", "io error", "not supported"} :
              BioEnd(i, dir, status)

IoNext == TopStep \/ BelowStep

IoSpec == IoInit /\ [][IoNext]_ioVars

-----------------------------------------------------------------------------
(* Properties                                                              *)

\* Somebody will go on with the request: its handler or a deferred work, OCF
\* or the loop below with one of its I/Os, a disk with a bio, or a caller of
\* blkdev_complete_data_master.
Pending ==
    \/ pc \notin {"wait", "ended"}
    \/ \E i \in Ios : io[i].st \in {"submitted", "forwarding", "ending"} \/ io[i].bios > 0
    \/ \E c \in Callers : cpl[c].at # "none"

\* A request is ended at most once, and only when everything submitted for
\* it is over: every I/O completed, every bio below returned, every caller
\* gone from the master, which nobody uses after it was freed.  It is ended
\* with an error exactly if something failed, but for two kinds of error
\* that the code loses: one that two completions of parts write to
\* master->error at the same time (vol_block_dev_top.c:195), and "not
\* supported" of a write or a flush, which the test for a discard excuses
\* too (vol_block_dev_bottom.c:140).  The data of a request with a flush
\* enter the cache only after a flush that ended without an error, and no
\* order of completions leaves the request open with nobody to end it
\* (vol_block_dev_top.c:191-398, vol_block_dev_bottom.c:128-361).
EndsExact ==
    /\ ~ioFault
    /\ Len(ends) <= 1
    /\ \A i \in Ios : io[i].count = io[i].bios +
            (IF io[i].st = "forwarding" THEN 1 ELSE 0)
    /\ ends # <<>> =>
        /\ \A i \in Ios : io[i].st \in {"none", "done"}
        /\ \A c \in Callers : cpl[c] = Idle
        /\ ~master.alive
        /\ ends[1] => failed
        /\ failed => ends[1] \/ lost
    /\ flush /\ (\E p \in Parts : io[p].st # "none") =>
        io[Flush].st = "done" /\ ~io[Flush].err
    /\ ends # <<>> \/ Pending
=============================================================================
