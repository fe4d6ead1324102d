------------------------------ MODULE Devices -------------------------------
(***************************************************************************)
(* The polled device drivers: two ring protocols and two disks. The four   *)
(* machines share no state; each is the driver with its device.            *)
(***************************************************************************)
EXTENDS Integers, Sequences, FiniteSets

(***************************************************************************)
(* Descriptor rings of the e1000 driver (kernel/src/e1000.c).  The driver  *)
(* polls; the card moves its head registers on its own.  A frame is its    *)
(* number in the order in which it was queued, or came over the wire.      *)
(***************************************************************************)
CONSTANTS Count,      \* E1000_RX_DESC_COUNT and E1000_TX_DESC_COUNT
          MaxFrames   \* bound on the frames in each direction

VARIABLES tx, rx,     \* ring[i].status has DD, and the frame in buffer i
          tx_cur, rx_cur,
          TDH, TDT, RDH, RDT,
          queued,     \* frames that e1000_transmit has accepted
          sent,       \* frames on the wire
          came,       \* frames that came over the wire
          kept,       \* those that found a descriptor
          got         \* frames that e1000_poll_receive has returned

txs == <<tx, tx_cur, TDH, TDT, queued, sent>>
rxs == <<rx, rx_cur, RDH, RDT, came, kept, got>>
nicvars == <<tx, rx, tx_cur, rx_cur, TDH, TDT, RDH, RDT, queued, sent, came, kept, got>>

Index == 0..Count-1
succ(i) == (i + 1) % Count

e1000_setup_tx ==
    /\ tx = [i \in Index |-> [dd |-> TRUE, frame |-> 0]]
    /\ TDH = 0 /\ TDT = 0 /\ tx_cur = 0

e1000_setup_rx ==
    /\ rx = [i \in Index |-> [dd |-> FALSE, frame |-> 0]]
    /\ RDH = 0 /\ RDT = Count - 1 /\ rx_cur = 0

NicInit == e1000_setup_tx /\ e1000_setup_rx /\ queued = 0 /\ sent = <<>>
        /\ came = 0 /\ kept = <<>> /\ got = <<>>

\* Refused with -2 when the card has not consumed the descriptor.
e1000_transmit ==
    /\ queued < MaxFrames /\ tx[tx_cur].dd
    /\ queued' = queued + 1
    /\ tx' = [tx EXCEPT ![tx_cur] = [dd |-> FALSE, frame |-> queued + 1]]
    /\ tx_cur' = succ(tx_cur)
    /\ TDT' = succ(tx_cur)
    /\ UNCHANGED <<TDH, sent, rxs>>

\* Fault variant: the status of the descriptor is not cleared.
handedStale(d) == d

\* A descriptor that goes back to the card.
handed(d) == [d EXCEPT !.dd = FALSE]

e1000_poll_receive ==
    /\ rx[rx_cur].dd
    /\ got' = Append(got, rx[rx_cur].frame)
    /\ rx' = [rx EXCEPT ![rx_cur] = handed(@)]
    /\ RDT' = rx_cur
    /\ rx_cur' = succ(rx_cur)
    /\ UNCHANGED <<RDH, came, kept, txs>>

-----------------------------------------------------------------------------
(* The card: a ring whose head has reached the tail is empty to it.        *)

CardSends ==
    /\ TDH # TDT
    /\ sent' = Append(sent, tx[TDH].frame)
    /\ tx' = [tx EXCEPT ![TDH].dd = TRUE]
    /\ TDH' = succ(TDH)
    /\ UNCHANGED <<tx_cur, TDT, queued, rxs>>

CardReceives ==
    /\ came < MaxFrames
    /\ came' = came + 1
    /\ IF RDH = RDT THEN UNCHANGED <<rx, RDH, kept>>
       ELSE /\ rx' = [rx EXCEPT ![RDH] = [dd |-> TRUE, frame |-> came + 1]]
            /\ RDH' = succ(RDH)
            /\ kept' = Append(kept, came + 1)
    /\ UNCHANGED <<rx_cur, RDT, got, txs>>

NicNext == e1000_transmit \/ e1000_poll_receive \/ CardSends \/ CardReceives

-----------------------------------------------------------------------------
\* State is well typed.
NicTypeOK ==
    /\ \A i \in Index : tx[i].dd \in BOOLEAN /\ rx[i].dd \in BOOLEAN
    /\ {tx_cur, rx_cur, TDH, TDT, RDH, RDT} \subseteq Index
    /\ queued \in 0..MaxFrames /\ came \in 0..MaxFrames

\* What the driver reads is what the card stored, each frame once and in order,
\* and what the card sends is what was queued, although the rings wrap around
\* and the two sides move them at their own pace.
FramesInOrder ==
    /\ \A i \in DOMAIN sent : sent[i] = i
    /\ Len(got) <= Len(kept)
    /\ \A i \in DOMAIN got : got[i] = kept[i]

-----------------------------------------------------------------------------
(***************************************************************************)
(* Virtqueues with several buffers in flight, as the arm64 drivers use     *)
(* them: frames received by virtio_net.c and events of virtio_input.c,     *)
(* whose buffers all start with the device and go back to it as soon as    *)
(* they are read ("in"); and the sound buffers of virtio_snd.c, which the  *)
(* driver fills when they are free ("out").                                *)
(*                                                                         *)
(* Driver and device share the two rings.  Their indices run freely and    *)
(* wrap at 2^16, here at Wrap, a multiple of the ring size.  The device    *)
(* may complete buffers in any order.                                      *)
(***************************************************************************)
CONSTANTS Qsz,       \* RX_QSZ, TX_QSZ, VQSIZE
          Wrap,      \* 2^16
          Bufs,      \* buffer ids, at most Qsz of them
          MaxItems   \* bound on the frames, events or periods

VARIABLES way,                 \* "in" or "out"
          availRing, availIdx, \* written by the driver
          usedRing, usedIdx,   \* written by the device
          lastUsed,            \* the driver's place in the used ring
          lastAvail,           \* the device's place in the avail ring
          held,                \* buffers the device has taken and not completed
          busy,                \* g_tx[slot].busy; in the other queues: with the device
          buf,                 \* what each buffer holds
          items,               \* number of items made so far
          done, seen           \* items in the order of completion, and as they came out

ringvars == <<way, availRing, availIdx, usedRing, usedIdx, lastUsed, lastAvail, held,
          busy, buf, items, done, seen>>

Slots == 0..Qsz-1
inc(i) == (i + 1) % Wrap

\* Fault variant: the index is taken modulo the wrap, not the ring.
placeWrap(i) == IF i < Qsz THEN i ELSE Qsz - 1

place(i) == i % Qsz

\* rx_repost, tx_submit: the entry is written before the index.
publish(id) ==
    /\ availRing' = [availRing EXCEPT ![place(availIdx)] = id]
    /\ availIdx' = inc(availIdx)

\* virtio_net_init and vi_dev_init post all the buffers, virtio_snd_init none.
RingInit ==
    /\ way \in {"in", "out"}
    /\ availRing = [s \in Slots |-> IF way = "in" /\ s \in Bufs THEN s ELSE 0]
    /\ availIdx = IF way = "in" THEN Cardinality(Bufs) ELSE 0
    /\ usedRing = [s \in Slots |-> 0] /\ usedIdx = 0
    /\ lastUsed = 0 /\ lastAvail = 0
    /\ held = {} /\ busy = IF way = "in" THEN Bufs ELSE {}
    /\ buf = [b \in Bufs |-> 0] /\ items = 0 /\ done = <<>> /\ seen = <<>>

\* tx_submit: the first slot that is not busy.
tx_submit ==
    /\ way = "out" /\ items < MaxItems
    /\ \E b \in Bufs \ busy :
         /\ \A a \in Bufs \ busy : b <= a
         /\ buf' = [buf EXCEPT ![b] = items + 1]
         /\ busy' = busy \cup {b}
         /\ publish(b)
    /\ items' = items + 1
    /\ UNCHANGED <<way, usedRing, usedIdx, lastUsed, lastAvail, held, done, seen>>

\* tx_reclaim, virtio_net_poll_receive and vi_poll_one: one used entry.
Poll ==
    /\ lastUsed # usedIdx
    /\ lastUsed' = inc(lastUsed)
    /\ \E id \in {usedRing[place(lastUsed)]} :
         /\ seen' = Append(seen, buf[id])
         /\ IF way = "in" THEN publish(id) /\ UNCHANGED busy
            ELSE busy' = busy \ {id} /\ UNCHANGED <<availRing, availIdx>>
    /\ UNCHANGED <<way, usedRing, usedIdx, lastAvail, held, buf, items, done>>

-----------------------------------------------------------------------------
(* The device.                                                             *)

Take ==
    /\ lastAvail # availIdx
    /\ held' = held \cup {availRing[place(lastAvail)]}
    /\ lastAvail' = inc(lastAvail)
    /\ UNCHANGED <<way, availRing, availIdx, usedRing, usedIdx, lastUsed, busy, buf, items,
                   done, seen>>

Complete(id) ==
    /\ id \in held
    /\ IF way = "in"
       THEN items < MaxItems /\ items' = items + 1 /\ buf' = [buf EXCEPT ![id] = items + 1]
       ELSE UNCHANGED <<items, buf>>
    /\ done' = Append(done, buf'[id])
    /\ held' = held \ {id}
    /\ usedRing' = [usedRing EXCEPT ![place(usedIdx)] = id]
    /\ usedIdx' = inc(usedIdx)
    /\ UNCHANGED <<way, availRing, availIdx, lastUsed, lastAvail, busy, seen>>

RingNext == tx_submit \/ Poll \/ Take \/ \E id \in Bufs : Complete(id)

-----------------------------------------------------------------------------
\* State is well typed.
RingTypeOK ==
    /\ {availIdx, usedIdx, lastUsed, lastAvail} \subseteq 0..Wrap-1
    /\ held \subseteq Bufs /\ busy \subseteq Bufs /\ items \in 0..MaxItems

\* What comes out of the used ring is what the device put there, in that order,
\* and each item once: no buffer is filled again while its content is on the
\* way, also where the 16-bit indices wrap around.
ItemsInOrder ==
    /\ Len(seen) <= Len(done)
    /\ \A i \in DOMAIN seen : seen[i] = done[i]
    /\ \A i, j \in DOMAIN done : done[i] = done[j] => i = j

-----------------------------------------------------------------------------
(***************************************************************************)
(* The arm64 disk driver (kernel/arch/arm64/virtio_blk.c): one request at  *)
(* a time, in one header, one data buffer and one status byte that every   *)
(* request uses again.  The driver gives up after a number of spins; the   *)
(* device does not know and completes the request later.                   *)
(***************************************************************************)
CONSTANTS Sectors, Values, MaxRequests

VARIABLES disk,     \* what the device stores
          hdr,      \* g_req_hdr
          data,     \* g_req_data
          status,   \* g_req_stat: TRUE when the device wrote 0
          posted,   \* chains in the avail ring that the device has not fetched
          fetched,  \* the request the device works on
          used,     \* G_USED->idx, free-running
          blkUsed, \* g_last_used
          call,     \* the call under way, or the result of the last one
          requests, late

blkvars == <<disk, hdr, data, status, posted, fetched, used, blkUsed, call, requests, late>>

None == [op |-> "none"]
Request == [op : {"read"}, sector : Sectors] \cup [op : {"write"}, sector : Sectors, value : Values]

\* Fault variant: the place in the used ring is not moved on.
completedOnce == UNCHANGED blkUsed

completed == blkUsed' = used

BlkInit ==
    /\ disk \in [Sectors -> Values]
    /\ hdr = None /\ data \in Values /\ status = FALSE
    /\ posted = 0 /\ fetched = None /\ used = 0 /\ blkUsed = 0
    /\ call = [req |-> None, at |-> "idle", ok |-> FALSE] /\ requests = 0 /\ late = FALSE

\* vblk_read, vblk_write and the first half of do_request: fill the buffers,
\* publish the chain, kick.  Blocks fit the data buffer.
do_request(r) ==
    /\ call.at = "idle" /\ requests < MaxRequests
    /\ requests' = requests + 1
    /\ hdr' = [op |-> r.op, sector |-> r.sector]
    /\ data' = IF r.op = "write" THEN r.value ELSE data
    /\ status' = FALSE
    /\ posted' = posted + 1
    /\ call' = [req |-> r, at |-> "poll", ok |-> FALSE]
    /\ UNCHANGED <<disk, fetched, used, blkUsed, late>>

\* The poll loop sees the used index move.
Completed ==
    /\ call.at = "poll" /\ used # blkUsed
    /\ completed
    /\ call' = [call EXCEPT !.at = "idle", !.ok = status]
    /\ UNCHANGED <<disk, hdr, data, status, posted, fetched, used, requests, late>>

\* ... or runs out of spins.
TimedOut ==
    /\ call.at = "poll" /\ used = blkUsed
    /\ call' = [call EXCEPT !.at = "idle", !.ok = FALSE]
    /\ late' = TRUE
    /\ UNCHANGED <<disk, hdr, data, status, posted, fetched, used, blkUsed, requests>>

-----------------------------------------------------------------------------
(* The device: it reads the header when it fetches the chain, the data     *)
(* when it carries the request out, and may report an error.               *)

Fetch ==
    /\ posted > 0 /\ fetched = None
    /\ posted' = posted - 1 /\ fetched' = hdr
    /\ UNCHANGED <<disk, hdr, data, status, used, blkUsed, call, requests, late>>

Done(ok) ==
    /\ fetched # None
    /\ disk' = IF ok /\ fetched.op = "write" THEN [disk EXCEPT ![fetched.sector] = data] ELSE disk
    /\ data' = IF ok /\ fetched.op = "read" THEN disk[fetched.sector] ELSE data
    /\ status' = ok
    /\ used' = used + 1 /\ fetched' = None
    /\ UNCHANGED <<hdr, posted, blkUsed, call, requests, late>>

BlkNext ==
    \/ \E r \in Request : do_request(r)
    \/ Completed \/ TimedOut \/ Fetch \/ \E ok \in BOOLEAN : Done(ok)

-----------------------------------------------------------------------------
\* State is well typed.
BlkTypeOK ==
    /\ disk \in [Sectors -> Values] /\ data \in Values /\ call.at \in {"idle", "poll"}
    /\ {status, late} \subseteq BOOLEAN /\ posted \in Nat /\ blkUsed <= used

\* A call that reports success did its own transfer: the caller of a read
\* gets the sector it asked for, and a write is on the disk.  As long as no
\* request has timed out: one that has completes under the next call's name.
OwnTransfer ==
    ~late /\ call.at = "idle" /\ call.ok =>
        IF call.req.op = "read" THEN data = disk[call.req.sector]
        ELSE disk[call.req.sector] = call.req.value

-----------------------------------------------------------------------------
(***************************************************************************)
(* The PIO disk driver (kernel/src/ide.c): a transfer of several sectors   *)
(* with a poll before each, any of which may fail, and the cache flush     *)
(* that ends a write.                                                      *)
(***************************************************************************)
CONSTANTS IdeSectors,    \* 0..n
          IdeValues,
          MaxCount,   \* largest number of sectors of a call
          MaxCalls

VARIABLES platter, buffer, ideCall, drive, calls

idevars == <<platter, buffer, ideCall, drive, calls>>

Idle == [op |-> "none", lba |-> 0, count |-> 0, moved |-> 0, result |-> "none"]
Ready == [op |-> "none", lba |-> 0, left |-> 0]
Buffers == UNION {[1..n -> IdeValues] : n \in 0..MaxCount}

IdeInit ==
    /\ platter \in [IdeSectors -> IdeValues]
    /\ buffer = <<>> /\ ideCall = Idle /\ drive = Ready /\ calls = 0

\* Fault variant: the sector counter is tested before the last poll.
moreShort == ideCall.moved < ideCall.count - 1

more == ideCall.moved < ideCall.count

\* ide_read_sectors, ide_write_sectors up to the command: a count of 0 is
\* refused, a read that finds the drive not ready fails, a write does not ask.
start(op, lba, count, b) ==
    /\ ideCall.result # "open" /\ calls < MaxCalls
    /\ calls' = calls + 1 /\ buffer' = b
    /\ \/ /\ count > 0
          /\ ideCall' = [op |-> op, lba |-> lba, count |-> count, moved |-> 0, result |-> "open"]
          /\ drive' = [op |-> op, lba |-> lba, left |-> count]
       \/ /\ count = 0 \/ op = "read"
          /\ ideCall' = [Idle EXCEPT !.op = op, !.result = "failed"]
          /\ UNCHANGED drive
    /\ UNCHANGED platter

\* ide_block_read: the sectors that hold count bytes.
ide_read_sectors(lba, count) == start("read", lba, count, [i \in 1..count |-> "junk"])

ide_write_sectors(lba, b) == start("write", lba, Len(b), b)

\* One sector through the data port, in the direction of the command.
MoveSector ==
    /\ ideCall.result = "open" /\ more /\ drive.left > 0
    /\ \E i \in {ideCall.moved + 1}, s \in {drive.lba} :
         \/ /\ ideCall.op = "read"
            /\ buffer' = [buffer EXCEPT ![i] = platter[s]] /\ UNCHANGED platter
         \/ /\ ideCall.op = "write"
            /\ platter' = [platter EXCEPT ![s] = buffer[i]] /\ UNCHANGED buffer
    /\ ideCall' = [ideCall EXCEPT !.moved = @ + 1]
    /\ drive' = [drive EXCEPT !.lba = @ + 1, !.left = @ - 1]
    /\ UNCHANGED calls

\* ide_poll: ERR or DF, or no DRQ after it; the command is abandoned.
PollFails ==
    /\ ideCall.result = "open"
    /\ more \/ ideCall.op = "write"
    /\ ideCall' = [ideCall EXCEPT !.result = "failed"] /\ drive' = Ready
    /\ UNCHANGED <<platter, buffer, calls>>

\* All sectors moved; a write is flushed.
Finish ==
    /\ ideCall.result = "open" /\ ~more
    /\ ideCall' = [ideCall EXCEPT !.result = "ok"] /\ drive' = Ready
    /\ UNCHANGED <<platter, buffer, calls>>

IdeNext ==
    \/ \E lba \in IdeSectors, n \in 0..MaxCount :
         lba + n - 1 \in IdeSectors /\ ide_read_sectors(lba, n)
    \/ \E lba \in IdeSectors, b \in Buffers :
         lba + Len(b) - 1 \in IdeSectors /\ ide_write_sectors(lba, b)
    \/ MoveSector \/ PollFails \/ Finish

-----------------------------------------------------------------------------
\* State is well typed.
IdeTypeOK ==
    /\ platter \in [IdeSectors -> IdeValues]
    /\ ideCall.moved \in 0..ideCall.count /\ ideCall.result \in {"none", "open", "ok", "failed"}

\* A call that succeeds moved every sector, and a call that fails moved a
\* prefix: the sectors already transferred agree with the buffer.
PrefixMoved ==
    ideCall.result # "none" =>
        /\ ideCall.result = "ok" => ideCall.moved = ideCall.count
        /\ \A i \in 1..ideCall.moved : buffer[i] = platter[ideCall.lba + i - 1]
=============================================================================
