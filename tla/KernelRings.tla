---------------------------- MODULE KernelRings -----------------------------
(***************************************************************************)
(* The journal and the pseudo-terminals: rings in the kernel that programs *)
(* fill and read.                                                          *)
(***************************************************************************)
EXTENDS Integers, Sequences, SequencesExt, FiniteSetsExt

(***************************************************************************)
(* The event journal (kernel/src/journal.c) and the main loop that writes  *)
(* it to /journal.log (kernel/src/kernel.c).  The ring keeps the last      *)
(* Capacity records; the file is written from a buffer of Room bytes,      *)
(* oldest record first.  A reboot loses everything but the file.           *)
(***************************************************************************)
CONSTANTS Capacity, Room, Sizes, MaxRecords

VARIABLES ring, next_seq, persist_pending, file, disk

logvars == <<ring, next_seq, persist_pending, file, disk>>

Nothing == [seq |-> -1, level |-> "info", size |-> 0]
Levels == {"info", "fault"}

LogInit ==
    /\ ring = [i \in 0..Capacity-1 |-> Nothing] /\ next_seq = 0
    /\ persist_pending = FALSE /\ file = <<>> /\ disk \in BOOLEAN

\* WARN, ERROR, FAULT and APP ask for a flush, INFO does not.
journal_log(level, size) ==
    /\ next_seq < MaxRecords
    /\ ring' = [ring EXCEPT ![next_seq % Capacity] = [seq |-> next_seq, level |-> level, size |-> size]]
    /\ next_seq' = next_seq + 1
    /\ persist_pending' = (persist_pending \/ level # "info")
    /\ UNCHANGED <<file, disk>>

\* Fault variant: one record too many is taken to be in the ring.
inRingLong(seq) == seq < next_seq /\ (next_seq > Capacity => seq >= next_seq - Capacity - 1)

inRing(seq) == seq < next_seq /\ (next_seq > Capacity => seq >= next_seq - Capacity)
journal_get(seq) == IF inRing(seq) THEN ring[seq % Capacity] ELSE Nothing

\* The records in the ring, oldest first.
records == LET start == IF next_seq > Capacity THEN next_seq - Capacity ELSE 0
           IN [i \in 1..next_seq - start |-> ring[(start + i - 1) % Capacity]]

bytes(s) == FoldLeft(LAMBDA n, r : n + r.size, 0, s)

\* journal_format_all: as many records as fit; the last one may be cut, which
\* is a record lost.
journal_format_all ==
    LET whole == {n \in 0..Len(records) : bytes(SubSeq(records, 1, n)) <= Room}
    IN SubSeq(records, 1, Max(whole))

\* The main loop: the file is emptied and written again.  Without a disk the
\* flag is cleared all the same.
Flush ==
    /\ persist_pending
    /\ file' = IF disk THEN journal_format_all ELSE file
    /\ persist_pending' = FALSE
    /\ UNCHANGED <<ring, next_seq, disk>>

LogNext == (\E level \in Levels, size \in Sizes : journal_log(level, size)) \/ Flush

-----------------------------------------------------------------------------
\* State is well typed.
LogTypeOK ==
    /\ next_seq \in 0..MaxRecords /\ persist_pending \in BOOLEAN
    /\ \A i \in 0..Capacity-1 : ring[i].seq \in -1..MaxRecords-1

\* journal_get gives the record of that number or none, whatever has been
\* overwritten, and none of the last Capacity records is missing.
GetsTheRecord ==
    \A seq \in 0..MaxRecords-1 :
        /\ inRing(seq) => journal_get(seq).seq = seq
        /\ seq < next_seq /\ seq >= next_seq - Capacity => inRing(seq)

-----------------------------------------------------------------------------
(***************************************************************************)
(* Pseudo-terminals (kernel/src/pty.c) with the system calls that open     *)
(* them, start a shell on them and close them (process.c).  Each has two   *)
(* rings with free-running indices that are masked when used.              *)
(***************************************************************************)
CONSTANTS Ptys,      \* the pool, 1..n
          Size,      \* PTY_RING_SIZE, a power of two
          Wrap,      \* 2^64, a multiple of Size
          MaxBytes

VARIABLES pty,       \* g_ptys
          master,    \* ptys whose master fd is open
          slave,     \* ptys some living process has for stdin and stdout
          put, got   \* bytes accepted and read, per pty and direction

ptyvars == <<pty, master, slave, put, got>>

Ways == {"in", "out"}
Ring == [head |-> 0, tail |-> 0, data |-> [i \in 0..Size-1 |-> 0]]

PtyInit ==
    /\ pty = [p \in Ptys |-> [in |-> Ring, out |-> Ring, used |-> FALSE, raw |-> FALSE]]
    /\ master = {} /\ slave = {}
    /\ put = [p \in Ptys |-> [w \in Ways |-> 0]] /\ got = [p \in Ptys |-> [w \in Ways |-> <<>>]]

ring_used(r) == (r.head - r.tail) % Wrap

\* SYS_PTY_OPEN: the first one not in use; when the process has no fd left it
\* goes back at once.
pty_alloc(fdFree) ==
    \E p \in Ptys :
        /\ p = Min({q \in Ptys : ~pty[q].used})
        /\ pty' = [pty EXCEPT ![p].used = fdFree, ![p].in = Ring, ![p].out = Ring]
        /\ master' = IF fdFree THEN master \cup {p} ELSE master
        /\ put' = [put EXCEPT ![p] = [w \in Ways |-> 0]]
        /\ got' = [got EXCEPT ![p] = [w \in Ways |-> <<>>]]
        /\ UNCHANGED slave

\* SYS_SPAWN_PTY.
SpawnPty(p) ==
    /\ p \in master /\ slave' = slave \cup {p}
    /\ UNCHANGED <<pty, master, put, got>>

\* SYS_CLOSE of the master, or the end of its process: the fd goes.
CloseMaster(p) ==
    /\ p \in master /\ master' = master \ {p}
    /\ UNCHANGED <<pty, slave, put, got>>

\* The last process on the slave ends.
SlaveEnds(p) ==
    /\ p \in slave /\ slave' = slave \ {p}
    /\ UNCHANGED <<pty, master, put, got>>

\* Fault variant: a full ring takes one more byte.
roomMore(r) == ring_used(r) <= Size

room(r) == ring_used(r) < Size

\* ring_write of one byte: stored, or dropped when the ring is full.
ring_write(p, w) ==
    /\ p \in IF w = "in" THEN master ELSE slave
    /\ put[p][w] < MaxBytes
    /\ room(pty[p][w])
    /\ \E r \in {pty[p][w]}, n \in {put[p][w] + 1} :
         /\ pty' = [pty EXCEPT ![p][w] = [r EXCEPT !.data[r.head % Size] = n,
                                                   !.head = (@ + 1) % Wrap]]
         /\ put' = [put EXCEPT ![p][w] = n]
    /\ UNCHANGED <<master, slave, got>>

ring_read(p, w) ==
    /\ p \in IF w = "in" THEN slave ELSE master
    /\ ring_used(pty[p][w]) > 0
    /\ \E r \in {pty[p][w]} :
         /\ pty' = [pty EXCEPT ![p][w].tail = (@ + 1) % Wrap]
         /\ got' = [got EXCEPT ![p][w] = Append(@, r.data[r.tail % Size])]
    /\ UNCHANGED <<master, slave, put>>

\* TTY_IOCTL_SET_RAW, from either end.
pty_ioctl(p, on) ==
    /\ p \in master \cup slave
    /\ pty' = [pty EXCEPT ![p].raw = on]
    /\ UNCHANGED <<master, slave, put, got>>

PtyNext ==
    \/ \E fdFree \in BOOLEAN : (\E q \in Ptys : ~pty[q].used) /\ pty_alloc(fdFree)
    \/ \E p \in Ptys : SpawnPty(p) \/ CloseMaster(p) \/ SlaveEnds(p)
    \/ \E p \in Ptys, w \in Ways : ring_write(p, w) \/ ring_read(p, w)
    \/ \E p \in Ptys, on \in BOOLEAN : pty_ioctl(p, on)

-----------------------------------------------------------------------------
\* State is well typed.
PtyTypeOK ==
    /\ master \subseteq Ptys /\ slave \subseteq Ptys
    /\ \A p \in Ptys, w \in Ways : pty[p][w].head \in 0..Wrap-1 /\ pty[p][w].tail \in 0..Wrap-1

\* Each end reads the bytes the other end got accepted, in order and none of
\* an earlier session, also where the indices wrap; and an open end always
\* belongs to a pty that is in use.
BytesInOrder ==
    \A p \in Ptys, w \in Ways :
        /\ got[p][w] = [i \in 1..Len(got[p][w]) |-> i]
        /\ Len(got[p][w]) + ring_used(pty[p][w]) = put[p][w]
        /\ p \in master \cup slave => pty[p].used
=============================================================================
