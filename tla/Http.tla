-------------------------------- MODULE Http --------------------------------
(***************************************************************************)
(* Plain HTTP over the kernel's TCP (kernel/src/net.c): the connection     *)
(* slots, the keep-alive pool, net_http_get as each caller goes through it *)
(* and handle_tcp, which a frame runs from whichever net_poll finds it.    *)
(*                                                                         *)
(* A caller gives up the CPU only in net_wait_yield, so one action is what *)
(* happens between two yields.  The peer is external: it answers what      *)
(* reaches it or does not, and what it sends is delayed, lost, duplicated  *)
(* and reordered by the wire.  A byte of the peer's stream is <<q, k>>,    *)
(* byte k of the response to request q; byte 0 stands for the whole header *)
(* block.  A sequence number is <<e, n>>: place n in the stream of the     *)
(* connection that the peer accepted as its e-th, so that two connections  *)
(* never share numbers.                                                    *)
(***************************************************************************)
EXTENDS Integers, SequencesExt, FiniteSets

CONSTANTS Callers,      \* threads in SYS_NET_HTTP_GET
          Hosts,        \* (remote_ip, remote_port) pairs
          MaxConns,     \* NET_MAX_CONNS
          Cap,          \* out_cap
          Replies,      \* [kind, body]: what a peer may answer
          MaxRequests,  \* bound on requests
          MaxEpochs,    \* bound on connections a peer accepts
          MaxSeq        \* bound on rcv_nxt, which repeated FINs push on

VARIABLES conn,    \* g_tcp_conns
          call,    \* where each caller is in net_http_get
          wire,    \* segments on their way to us
          peer,    \* the peer's side of each slot's four-tuple
          sent,    \* sent[e] is what the peer put into its e-th stream
          asked    \* requests begun so far

vars == <<conn, call, wire, peer, sent, asked>>

Slots == 0 .. MaxConns - 1
NoOne == "none"
NoHost == "none"
Kinds == {"length", "close", "eof"}
TcpStates == {"CLOSED", "SYN_SENT", "ESTABLISHED", "DONE"}

Free == [state |-> "CLOSED", in_use |-> FALSE, idle |-> FALSE, ip |-> NoHost,
         rcv_nxt |-> <<0, 0>>, rx_buf |-> NoOne, rx_cap |-> 0, rx |-> <<>>]

Outside == [pc |-> "out", slot |-> 0, ip |-> NoHost, id |-> 0, close |-> FALSE]

-----------------------------------------------------------------------------
(* Slots. *)

Lowest(S) == CHOOSE s \in S : \A t \in S : s <= t

Unused == {s \in Slots : ~conn[s].in_use}
Idle   == {s \in Slots : conn[s].in_use /\ conn[s].idle}

\* Fault variant: a slot counts as free once its connection is closed.
allocatableClosed ==
    IF \E s \in Slots : conn[s].state = "CLOSED"
    THEN {Lowest({s \in Slots : conn[s].state = "CLOSED"})}
    ELSE IF Idle # {} THEN {Lowest(Idle)} ELSE {}

\* tcp_alloc: the first free slot, else the first idle connection is evicted.
allocatable ==
    IF Unused # {} THEN {Lowest(Unused)}
    ELSE IF Idle # {} THEN {Lowest(Idle)} ELSE {}

tcp_alloc(s) == [conn EXCEPT ![s] = [Free EXCEPT !.in_use = TRUE]]

tcp_free(c) == [c EXCEPT !.in_use = FALSE, !.idle = FALSE, !.state = "CLOSED",
                         !.rx_buf = NoOne]

\* tcp_find_idle: a pooled connection to this host that still stands.
reusable(ip) == {s \in Idle : conn[s].state = "ESTABLISHED" /\ conn[s].ip = ip}

\* Fault variant: the pooled connection stays marked idle.
tcp_find_idleKept(s, p) ==
    [conn EXCEPT ![s].rx_buf = p, ![s].rx_cap = Cap, ![s].rx = <<>>]

tcp_find_idle(s, p) ==
    [conn EXCEPT ![s].idle = FALSE, ![s].rx_buf = p, ![s].rx_cap = Cap, ![s].rx = <<>>]

-----------------------------------------------------------------------------
(* http_response_complete: the first header block in the buffer decides. *)

Kind(b) == b[3]
Size(b) == b[4]

Headers(rx) == {i \in DOMAIN rx : rx[i][2] = 0}

Complete(rx) ==
    /\ Headers(rx) # {}
    /\ LET h == Lowest(Headers(rx))
       IN  Kind(rx[h]) \in {"length", "close"} /\ Len(rx) - h >= Size(rx[h])

WantClose(rx) ==
    /\ Headers(rx) # {}
    /\ Kind(rx[Lowest(Headers(rx))]) \in {"close", "eof"}

-----------------------------------------------------------------------------
(* The peer and the wire; what tcp_send sends shows in what the peer does. *)

Seg(s, ip, seq, flag, byte) ==
    [slot |-> s, ip |-> ip, seq |-> seq, flag |-> flag, byte |-> byte]

NoByte == <<0, 0, "length", 0>>

Epochs == Len(sent)

\* tcp_send of a SYN: it is lost, or the peer takes it for a new connection and answers.
PeerHearsSyn(s, ip) ==
    \/ UNCHANGED <<wire, peer, sent>>
    \/ /\ Epochs < MaxEpochs
       /\ peer' = [peer EXCEPT ![s] = [ip |-> ip, epoch |-> Epochs + 1, open |-> TRUE]]
       /\ sent' = Append(sent, <<>>)
       /\ wire' = wire \cup {Seg(s, ip, <<Epochs + 1, 0>>, "SYNACK", NoByte)}

Reply(q, r) == [k \in 1 .. r.body + 1 |-> <<q, k - 1, r.kind, r.body>>]

\* tcp_send of the request: it is lost, or the peer of this connection answers it in full; a
\* peer that said it closes, or gave no length, sends a FIN behind the answer.
PeerHearsGet(s, q) ==
    \/ UNCHANGED <<wire, peer, sent>>
    \/ \E r \in Replies :
         LET e == peer[s].epoch
             n == Len(sent[e])
             bytes == Reply(q, r)
             data == {Seg(s, peer[s].ip, <<e, n + k>>, "DATA", bytes[k]) : k \in DOMAIN bytes}
             fin == {Seg(s, peer[s].ip, <<e, n + Len(bytes) + 1>>, "FIN", NoByte)}
         IN  /\ peer[s].open /\ peer[s].ip = conn[s].ip
             /\ sent' = [sent EXCEPT ![e] = @ \o bytes]
             /\ peer' = [peer EXCEPT ![s].open = r.kind = "length"]
             /\ wire' = wire \cup data \cup (IF r.kind = "length" THEN {} ELSE fin)

\* The peer drops the connection: FIN behind what it sent, or RST.
PeerEnds(s) ==
    LET e == peer[s].epoch
    IN  /\ peer[s].open
        /\ peer' = [peer EXCEPT ![s].open = FALSE]
        /\ \E flag \in {"FIN", "RST"} :
             wire' = wire \cup {Seg(s, peer[s].ip, <<e, Len(sent[e]) + 1>>, flag, NoByte)}
        /\ UNCHANGED <<conn, call, sent, asked>>

-----------------------------------------------------------------------------
(* handle_tcp: a segment meets the slot of its four-tuple. *)

Next1(seq) == <<seq[1], seq[2] + 1>>

\* Fault variant: a late or early segment is taken as if it were next.
acceptDataAnyOrder(c, m) ==
    [c EXCEPT !.rcv_nxt = Next1(m.seq),
              !.rx = IF Len(@) < c.rx_cap THEN Append(@, m.byte) ELSE @]

\* In-order data goes into the buffer while there is room, and is acknowledged
\* either way.
acceptData(c, m) ==
    IF m.seq = c.rcv_nxt
    THEN [c EXCEPT !.rcv_nxt = Next1(@),
                   !.rx = IF Len(@) < c.rx_cap THEN Append(@, m.byte) ELSE @]
    ELSE c

\* RST and FIN are taken whatever their sequence number is.
handle_tcp(c, m) ==
    IF m.flag = "RST" THEN [c EXCEPT !.state = "DONE"]
    ELSE IF c.state = "SYN_SENT"
         THEN IF m.flag = "SYNACK"
              THEN [c EXCEPT !.rcv_nxt = Next1(m.seq), !.state = "ESTABLISHED"]
              ELSE c
    ELSE IF m.flag = "DATA" THEN acceptData(c, m)
    ELSE IF m.flag = "FIN" THEN [c EXCEPT !.rcv_nxt = Next1(@), !.state = "DONE"]
    ELSE c

\* A segment stays on the wire: it may come again, late, or never.
Deliver(m) ==
    LET c == conn[m.slot]
    IN  /\ c.in_use /\ c.state # "CLOSED" /\ c.ip = m.ip
        /\ c.rcv_nxt[2] < MaxSeq
        /\ conn' = [conn EXCEPT ![m.slot] = handle_tcp(c, m)]
        /\ UNCHANGED <<call, wire, peer, sent, asked>>

-----------------------------------------------------------------------------
(* net_http_get. *)

Goto(p, pc, s, ip, id) == 
    [call EXCEPT ![p] = [pc |-> pc, slot |-> s, ip |-> ip, id |-> id, close |-> FALSE]]

\* A pooled connection to the host is reused and the request goes out at once.
Reuse(p, ip) ==
    /\ call[p].pc = "out" /\ asked < MaxRequests /\ reusable(ip) # {}
    /\ LET s == Lowest(reusable(ip))
       IN  /\ conn' = tcp_find_idle(s, p)
           /\ call' = Goto(p, "recv", s, ip, asked + 1)
           /\ PeerHearsGet(s, asked + 1)
    /\ asked' = asked + 1

\* Otherwise a slot is taken before the caller waits in resolve_mac; without
\* one the call returns -1.
Alloc(p, ip) ==
    /\ call[p].pc = "out" /\ asked < MaxRequests /\ reusable(ip) = {}
    /\ \/ /\ allocatable = {}
          /\ UNCHANGED <<conn, call>>
       \/ \E s \in allocatable :
            /\ conn' = tcp_alloc(s)
            /\ call' = Goto(p, "arp", s, ip, asked + 1)
    /\ asked' = asked + 1
    /\ UNCHANGED <<wire, peer, sent>>

Return(p) == [call EXCEPT ![p] = Outside]

\* resolve_mac timed out: -2.  The handshake timed out: -3.
GiveUp(p) ==
    /\ call[p].pc \in {"arp", "syn"}
    /\ conn' = [conn EXCEPT ![call[p].slot] = tcp_free(@)]
    /\ call' = Return(p)
    /\ UNCHANGED <<wire, peer, sent, asked>>

Connect(p) ==
    LET s == call[p].slot
    IN  /\ call[p].pc = "arp"
        /\ conn' = [conn EXCEPT ![s].state = "SYN_SENT", ![s].ip = call[p].ip,
                                ![s].rcv_nxt = <<0, 0>>, ![s].rx_buf = p,
                                ![s].rx_cap = Cap, ![s].rx = <<>>]
        /\ call' = [call EXCEPT ![p].pc = "syn"]
        /\ PeerHearsSyn(s, call[p].ip)
        /\ UNCHANGED asked

\* tcp_wait_state is content with any state from ESTABLISHED on, DONE included.
Request(p) ==
    LET s == call[p].slot
    IN  /\ call[p].pc = "syn" /\ conn[s].state \in {"ESTABLISHED", "DONE"}
        /\ call' = [call EXCEPT ![p].pc = "recv"]
        /\ PeerHearsGet(s, call[p].id)
        /\ UNCHANGED <<conn, asked>>

\* Fault variant: the caller's buffer stays attached to a pooled connection.
finishAttached(c, close) ==
    IF ~close /\ c.state = "ESTABLISHED" THEN [c EXCEPT !.idle = TRUE] ELSE tcp_free(c)

\* The connection goes back to the pool, or is closed and its slot freed.
finish(c, close) ==
    IF ~close /\ c.state = "ESTABLISHED"
    THEN [c EXCEPT !.idle = TRUE, !.rx_buf = NoOne, !.rx_cap = 0, !.rx = <<>>]
    ELSE tcp_free(c)

\* A turn of the receive loop ends it: the response is framed, or the peer has
\* closed, or the buffer is full.
Finish(p) ==
    LET s == call[p].slot
        c == conn[s]
    IN  /\ call[p].pc = "recv"
        /\ \/ /\ Complete(c.rx)
              /\ conn' = [conn EXCEPT ![s] = finish(c, WantClose(c.rx))]
           \/ /\ ~Complete(c.rx) /\ (c.state = "DONE" \/ Len(c.rx) >= c.rx_cap)
              /\ conn' = [conn EXCEPT ![s] = finish(c, TRUE)]
        /\ call' = Return(p)
        /\ UNCHANGED <<wire, peer, sent, asked>>

\* A turn that does not: want_close is what this look at the buffer says.
Look(p) ==
    LET c == conn[call[p].slot]
    IN  /\ call[p].pc = "recv"
        /\ ~Complete(c.rx) /\ c.state # "DONE" /\ Len(c.rx) < c.rx_cap
        /\ call' = [call EXCEPT ![p].close = WantClose(c.rx)]
        /\ UNCHANGED <<conn, wire, peer, sent, asked>>

\* The idle clock runs out: want_close is as the last look left it.
Timeout(p) ==
    /\ call[p].pc = "recv"
    /\ conn' = [conn EXCEPT ![call[p].slot] = finish(@, call[p].close)]
    /\ call' = Return(p)
    /\ UNCHANGED <<wire, peer, sent, asked>>

\* process_kill while the caller is parked in net_wait_yield: nobody frees its
\* slot, nobody detaches its buffer.
Kill(p) ==
    /\ call[p].pc \in {"arp", "syn", "recv"}
    /\ call' = [call EXCEPT ![p].pc = "dead"]
    /\ UNCHANGED <<conn, wire, peer, sent, asked>>

-----------------------------------------------------------------------------
Init ==
    /\ conn = [s \in Slots |-> Free]
    /\ call = [p \in Callers |-> Outside]
    /\ wire = {}
    /\ peer = [s \in Slots |-> [ip |-> NoHost, epoch |-> 0, open |-> FALSE]]
    /\ sent = <<>>
    /\ asked = 0

Next ==
    \/ \E p \in Callers :
         \/ \E ip \in Hosts : Reuse(p, ip) \/ Alloc(p, ip)
         \/ GiveUp(p)
         \/ Connect(p)
         \/ Request(p)
         \/ Finish(p)
         \/ Look(p)
         \/ Timeout(p)
         \/ Kill(p)
    \/ \E m \in wire : Deliver(m)
    \/ \E s \in Slots : PeerEnds(s)

Spec == Init /\ [][Next]_vars

-----------------------------------------------------------------------------
Inside(p) == call[p].pc # "out"

TypeOK ==
    /\ \A s \in Slots : /\ conn[s].state \in TcpStates
                        /\ conn[s].rx_buf \in Callers \cup {NoOne}
                        /\ conn[s].ip \in Hosts \cup {NoHost}
                        /\ Len(conn[s].rx) <= Cap
    /\ \A p \in Callers : call[p].pc \in {"out", "arp", "syn", "recv", "dead"}
                          /\ call[p].slot \in Slots /\ call[p].id \in 0 .. MaxRequests
    /\ asked \in 0 .. MaxRequests

\* A caller between tcp_alloc or tcp_find_idle and its return has a slot of its
\* own, which is neither free nor in the pool.
SlotIsOwned ==
    \A p, q \in Callers :
        Inside(p) =>
            /\ conn[call[p].slot].in_use /\ ~conn[call[p].slot].idle
            /\ (p # q /\ Inside(q)) => call[p].slot # call[q].slot

\* A buffer that handle_tcp may still write to belongs to a caller that has not
\* returned, and to its connection: net_http_get detaches it on every way out.
BufferIsWaitedFor ==
    \A s \in Slots : conn[s].in_use /\ conn[s].rx_buf # NoOne =>
        Inside(conn[s].rx_buf) /\ call[conn[s].rx_buf].slot = s

\* Whatever the wire loses, repeats or reorders, the buffer of a connection that
\* stands holds a piece of what one peer sent on it, without a gap, a repetition
\* or a swap.  (A FIN that overtakes data moves rcv_nxt past a byte that was not
\* received; what handle_tcp still takes in state DONE may then have a gap.)
InOrder ==
    \A s \in Slots : conn[s].state = "ESTABLISHED" /\ conn[s].rx # <<>> =>
        \E e \in DOMAIN sent : \E k \in 0 .. Len(sent[e]) - Len(conn[s].rx) :
            conn[s].rx = SubSeq(sent[e], k + 1, k + Len(conn[s].rx))
=============================================================================
