------------------------------ MODULE NetLock ------------------------------
(***************************************************************************)
(* What net_lock guards: DNS and ping (kernel/src/net.c), which meet their *)
(* answers in global variables, and the single TLS connection that         *)
(* net_tls.c keeps open between requests to one host.  The callers are the *)
(* system calls of process.c.                                              *)
(*                                                                         *)
(* A caller loses the CPU only in net_wait_yield: one action is what runs  *)
(* between two yields.  Name servers, hosts and the TLS peer are external; *)
(* their answers come late, twice or never.  The TCP stream under TLS      *)
(* keeps its order (module Http): a byte of it is <<q, k, kind>>, the      *)
(* header block (k = 0) or the one byte of body of the answer to call q.   *)
(***************************************************************************)
EXTENDS Integers, Sequences

CONSTANTS Callers,   \* processes
          Targets,   \* <<kind, host>>: what to resolve, ping and fetch from
          Pings,     \* count argument of SYS_NET_PING
          Cap,       \* out_cap of SYS_NET_HTTPS_GET
          MaxCalls   \* bound on the calls made

VARIABLES locked, owner,   \* g_net_locked, g_net_owner_pid
          call,            \* each caller's place in its system call
          dns,             \* g_dns_got, g_dns_result_ip
          echo,            \* g_got_reply, g_last_reply_ip, g_last_reply_seq
          tls,             \* g_tls_open, g_tls_host, g_stream_conn and its buffer
          onWire,          \* DNS answers and echo replies on their way
          calls,           \* calls made so far
          killed           \* some caller was killed inside a call

vars == <<locked, owner, call, dns, echo, tls, onWire, calls, killed>>

None == "none"
Out == [pc |-> "out", kind |-> None, host |-> None, id |-> 0, seq |-> 0,
        replies |-> 0, reuse |-> FALSE, got |-> <<>>, answer |-> None]

Inside(p) == call[p].pc \notin {"out", "lock", "dead"}

-----------------------------------------------------------------------------
(* net_lock and net_unlock. *)

Enter(p, kind, h) ==
    /\ call[p].pc = "out" /\ calls < MaxCalls
    /\ call' = [call EXCEPT ![p] = [Out EXCEPT !.pc = "lock", !.kind = kind, !.host = h,
                                                !.id = calls + 1]]
    /\ calls' = calls + 1
    /\ UNCHANGED <<locked, owner, dns, echo, tls, onWire, killed>>

\* Fault variant: any waiter may take the lock over from an owner that waits.
mayTakeAny(p) == ~locked \/ owner # None

\* Fault variant: the lock of a dead owner is never taken over.
mayTakeFree(p) == ~locked

\* The lock is free, or its owner is no longer alive.
mayTake(p) == ~locked \/ (owner # None /\ call[owner].pc = "dead")

Reusable(h) == tls.open /\ tls.host = h /\ tls.tcp = "est"

\* tls_teardown: close-notify, then tcp_close.
tls_teardown == [tls EXCEPT !.open = FALSE, !.tcp = None, !.inq = <<>>]

\* net_https_get up to the first wait: the pooled connection, or a new one.
startHttps(p) ==
    IF Reusable(call[p].host)
    THEN /\ call' = [call EXCEPT ![p].pc = "request", ![p].reuse = TRUE]
         /\ UNCHANGED tls
    ELSE /\ call' = [call EXCEPT ![p].pc = "connect"]
         /\ tls' = [tls_teardown EXCEPT !.tcp = "syn"]

Lock(p) ==
    /\ call[p].pc = "lock" /\ mayTake(p)
    /\ locked' = TRUE /\ owner' = p
    /\ \/ /\ call[p].kind = "https" /\ startHttps(p)
       \/ /\ call[p].kind # "https"
          /\ call' = [call EXCEPT ![p].pc = "arp"]
          /\ UNCHANGED tls
    /\ UNCHANGED <<dns, echo, onWire, calls, killed>>

\* net_unlock and the return to the caller; r is what it returns with.
Unlock(p, r) ==
    /\ locked' = FALSE /\ owner' = None
    /\ call' = [call EXCEPT ![p] = [r EXCEPT !.pc = "out"]]

-----------------------------------------------------------------------------
(* net_resolve and net_ping. *)

\* resolve_mac timed out.
ArpFails(p) ==
    /\ call[p].pc = "arp"
    /\ Unlock(p, Out)
    /\ UNCHANGED <<dns, echo, tls, onWire, calls, killed>>

\* The query goes out, with the one id that every query has; the server may
\* answer it.
SendQuery(p) ==
    /\ call[p].pc = "arp" /\ call[p].kind = "resolve"
    /\ dns' = [dns EXCEPT !.got = FALSE]
    /\ onWire' \in {onWire, onWire \cup {[kind |-> "dns", host |-> call[p].host, seq |-> 0]}}
    /\ call' = [call EXCEPT ![p].pc = "dns"]
    /\ UNCHANGED <<locked, owner, echo, tls, calls, killed>>

\* The wait for the answer: there is one, or time runs out.
AwaitDns(p) ==
    /\ call[p].pc = "dns"
    /\ Unlock(p, IF dns.got THEN [call[p] EXCEPT !.answer = dns.result] ELSE Out)
    /\ UNCHANGED <<dns, echo, tls, onWire, calls, killed>>

\* One echo request: every call numbers its own from 0, under one id.
SendEcho(p, n, replies) ==
    /\ echo' = [echo EXCEPT !.got = FALSE]
    /\ onWire' \in {onWire, onWire \cup {[kind |-> "echo", host |-> call[p].host, seq |-> n]}}
    /\ call' = [call EXCEPT ![p].pc = "ping", ![p].seq = n, ![p].replies = replies]
    /\ UNCHANGED <<locked, owner>>

FirstEcho(p) ==
    /\ call[p].pc = "arp" /\ call[p].kind = "ping"
    /\ SendEcho(p, 0, 0)
    /\ UNCHANGED <<dns, tls, calls, killed>>

\* A reply to this sequence number from this host, or a time-out, and the next.
AwaitEcho(p) ==
    LET c == call[p]
    IN  /\ c.pc = "ping"
        /\ \E hit \in {0, 1} :
             /\ hit = 1 <=> (echo.got /\ echo.host = c.host /\ echo.seq = c.seq)
             /\ \/ c.seq + 1 < Pings /\ SendEcho(p, c.seq + 1, c.replies + hit)
                \/ /\ c.seq + 1 >= Pings
                   /\ Unlock(p, [Out EXCEPT !.replies = c.replies + hit])
                   /\ UNCHANGED <<echo, onWire>>
        /\ UNCHANGED <<dns, tls, calls, killed>>

\* handle_ip and handle_icmp: the last answer received overwrites the one before.
Receive(m) ==
    /\ \/ m.kind = "dns" /\ dns' = [got |-> TRUE, result |-> m.host] /\ UNCHANGED echo
       \/ m.kind = "echo" /\ echo' = [got |-> TRUE, host |-> m.host, seq |-> m.seq]
          /\ UNCHANGED dns
    /\ UNCHANGED <<locked, owner, call, tls, onWire, calls, killed>>

-----------------------------------------------------------------------------
(* net_https_get. *)

\* tls_connect: tcp_open succeeded, or did not.
Connected(p) ==
    /\ call[p].pc = "connect"
    /\ \/ /\ tls' = [open |-> TRUE, host |-> call[p].host, tcp |-> "est", inq |-> <<>>]
          /\ call' = [call EXCEPT ![p].pc = "request"]
          /\ UNCHANGED <<locked, owner>>
       \/ /\ tls' = [tls EXCEPT !.tcp = None]
          /\ Unlock(p, Out)
    /\ UNCHANGED <<dns, echo, onWire, calls, killed>>

Answer(q, kind) == <<<<q, 0, kind>>, <<q, 1, kind>>>>

\* tls_request: the request goes out (and with it the handshake of a new
\* connection); the peer may answer.
Request(p) ==
    /\ call[p].pc = "request"
    /\ call' = [call EXCEPT ![p].pc = "read", ![p].got = <<>>]
    /\ \/ UNCHANGED tls
       \/ \E kind \in {"length", "eof"} :
            /\ tls.tcp = "est"
            /\ tls' = [tls EXCEPT !.inq = @ \o Answer(call[p].id, kind),
                                  !.tcp = IF kind = "eof" THEN "done" ELSE "est"]
    /\ UNCHANGED <<locked, owner, dns, echo, onWire, calls, killed>>

\* Fault variant: no retry, and a connection that failed stays in the pool.
failedKept(p, total) == Unlock(p, Out) /\ UNCHANGED tls

\* The peer closed, or the read or the write timed out, after total bytes: a
\* reused connection that gave nothing is replaced once; otherwise it is closed.
failed(p, total) ==
    IF call[p].reuse /\ total = 0
    THEN /\ call' = [call EXCEPT ![p].pc = "connect", ![p].reuse = FALSE, ![p].got = <<>>]
         /\ tls' = [tls_teardown EXCEPT !.tcp = "syn"]
         /\ UNCHANGED <<locked, owner>>
    ELSE Unlock(p, Out) /\ tls' = tls_teardown

Failed(p) ==
    /\ \/ call[p].pc = "request" /\ failed(p, 0)
       \/ call[p].pc = "read" /\ tls.inq = <<>> /\ failed(p, Len(call[p].got))
    /\ UNCHANGED <<dns, echo, onWire, calls, killed>>

Headers(got) == {i \in DOMAIN got : got[i][2] = 0}
First(got) == CHOOSE i \in Headers(got) : \A j \in Headers(got) : i <= j

\* A Content-Length of 1 was read in the first header block, and one byte more.
Framed(got) == Headers(got) # {} /\ got[First(got)][3] = "length" /\ Len(got) > First(got)

\* br_sslio_read: a byte comes out of the stream.
Read(p) ==
    LET got == Append(call[p].got, Head(tls.inq))
        left == [tls EXCEPT !.inq = Tail(@)]
    IN  /\ call[p].pc = "read" /\ tls.inq # <<>>
        /\ \/ /\ Framed(got)
              /\ Unlock(p, [call[p] EXCEPT !.got = got])
              /\ tls' = left
           \/ /\ ~Framed(got) /\ Len(got) < Cap
              /\ call' = [call EXCEPT ![p].got = got]
              /\ tls' = left
              /\ UNCHANGED <<locked, owner>>
           \/ /\ ~Framed(got) /\ Len(got) >= Cap
              /\ Unlock(p, [call[p] EXCEPT !.got = got])
              /\ tls' = tls_teardown
        /\ UNCHANGED <<dns, echo, onWire, calls, killed>>

PeerCloses ==
    /\ tls.tcp = "est"
    /\ tls' = [tls EXCEPT !.tcp = "done"]
    /\ UNCHANGED <<locked, owner, call, dns, echo, onWire, calls, killed>>

\* process_kill while the caller is parked.
Kill(p) ==
    /\ call[p].pc \notin {"out", "dead"}
    /\ call' = [call EXCEPT ![p] = [Out EXCEPT !.pc = "dead"]]
    /\ killed' = TRUE
    /\ UNCHANGED <<locked, owner, dns, echo, tls, onWire, calls>>

-----------------------------------------------------------------------------
Init ==
    /\ locked = FALSE /\ owner = None
    /\ call = [p \in Callers |-> Out]
    /\ dns = [got |-> FALSE, result |-> None]
    /\ echo = [got |-> FALSE, host |-> None, seq |-> 0]
    /\ tls = [open |-> FALSE, host |-> None, tcp |-> None, inq |-> <<>>]
    /\ onWire = {}
    /\ calls = 0
    /\ killed = FALSE

\* The steps a caller takes once it has the lock.
Proceed(p) ==
    \/ ArpFails(p) \/ SendQuery(p) \/ AwaitDns(p) \/ FirstEcho(p) \/ AwaitEcho(p)
    \/ Connected(p) \/ Request(p) \/ Failed(p) \/ Read(p)

Next ==
    \/ \E p \in Callers :
         \/ \E t \in Targets : Enter(p, t[1], t[2])
         \/ Lock(p)
         \/ Proceed(p)
         \/ Kill(p)
    \/ \E m \in onWire : Receive(m)
    \/ PeerCloses

\* A waiter looks at the lock again whenever it is scheduled, and every wait
\* inside a call has a deadline.
Spec == Init /\ [][Next]_vars /\ \A p \in Callers : WF_vars(Lock(p)) /\ WF_vars(Proceed(p))

-----------------------------------------------------------------------------
TypeOK ==
    /\ locked \in BOOLEAN /\ owner \in Callers \cup {None}
    /\ \A p \in Callers : /\ call[p].pc \in {"out", "lock", "arp", "dns", "ping", "connect",
                                              "request", "read", "dead"}
                          /\ call[p].replies \in 0 .. Pings /\ Len(call[p].got) <= Cap
    /\ tls.open \in BOOLEAN /\ tls.tcp \in {None, "syn", "est", "done"}

\* Two live callers are never both between net_lock and net_unlock, although a
\* waiter takes the lock from an owner that was killed; and a caller that is
\* there is the recorded owner.
OneInside ==
    \A p \in Callers : Inside(p) => locked /\ owner = p

\* As long as nobody is killed, an HTTPS response consists of bytes of the
\* answer to that request, whatever the peer closes, drops or answers late and
\* whichever pooled connection it comes from.
TlsOwnResponse ==
    ~killed => \A p \in Callers : call[p].kind = "https" =>
        \A i \in DOMAIN call[p].got : call[p].got[i][1] = call[p].id

\* "Self-heals if the owner process is killed": whoever waits for the lock gets
\* it or is killed itself, also when an owner dies with the lock.
WaiterGetsIn == \A p \in Callers : call[p].pc = "lock" ~> call[p].pc # "lock"
=============================================================================
