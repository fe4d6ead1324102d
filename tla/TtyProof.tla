------------------------------ MODULE TtyProof ------------------------------
(***************************************************************************)
(* Proofs about the terminal for any processes, buffer capacity, sizes of  *)
(* reads and number of keys.                                               *)
(*                                                                         *)
(* The bytes read so far followed by the bytes in the ring are one stream. *)
(* A read moves bytes from one part to the other, keys and finished lines  *)
(* are added at its end, and a reset cuts off the ring.  The inductive     *)
(* invariant says that the stream is in order and whole, and that what may *)
(* still be added (the finished line, later keys) comes after everything   *)
(* in it.                                                                  *)
(***************************************************************************)
EXTENDS Tty, SequenceTheorems, TLAPS

\* LinesWhole and DeliveredInOrder for any sequence of bytes.
Whole(s) ==
    \A i \in 1 .. Len(s) : s[i][1] > 0 /\ s[i][2] > 1 =>
        i > 1 /\ s[i - 1] = <<s[i][1], s[i][2] - 1>>

Before(x, y) ==
    IF x[1] = 0 /\ y[1] = 0 THEN x[2] < y[2]
    ELSE x[1] > 0 /\ y[1] > 0 => x[1] < y[1] \/ (x[1] = y[1] /\ x[2] < y[2])

Ordered(s) == \A i, j \in 1 .. Len(s) : i < j => Before(s[i], s[j])

\* No line in s is later than the last one finished, or than the one that waits
\* to be read, and no raw key in s is later than the last one typed.
Typed(s, ready, n, k) ==
    \A i \in 1 .. Len(s) : /\ s[i][1] <= n
                           /\ s[i][1] = 0 => s[i][2] <= k
                           /\ ready > 0 => s[i][1] < ready

TtyType == [input_length : Nat, cooked_length : Nat, line_ready : 0 .. MaxKeys,
            raw_input : Seq(Bytes), waiter_pid : Pids \cup {NoPid},
            ansi_mode : BOOLEAN, raw_input_mode : BOOLEAN]

Fits(T) == /\ T.input_length < Capacity
           /\ T.cooked_length < Capacity
           /\ Len(T.raw_input) < Capacity

\* The stream that the bytes g and the terminal T make, after n lines and k keys.
StreamOK(T, g, n, k) ==
    /\ Whole(g \o T.raw_input) /\ Ordered(g \o T.raw_input)
    /\ Typed(g \o T.raw_input, T.line_ready, n, k)
    /\ T.line_ready <= n

Sound(T, g, n, k) ==
    T \in TtyType /\ Fits(T) /\ g \in Seq(Bytes) /\ StreamOK(T, g, n, k)

ProcsType == /\ state \in [Pids -> States]
             /\ parent \in [Pids -> Pids \cup {NoPid}]
             /\ wait \in [Pids -> Pids \cup {NoPid}]
             /\ want \in [Pids -> Counts \cup {0}]
             /\ shell_pid \in Pids \cup {NoPid}

IInv == /\ Sound(tty, got, lines, keys)
        /\ keys \in 0 .. MaxKeys /\ lines \in 0 .. keys
        /\ ProcsType
        /\ WaiterIsBlocked /\ NoStrandedInput

-----------------------------------------------------------------------------
\* What SequenceTheorems says of bytes.
LEMMA Concat ==
    \A s, t \in Seq(Bytes) :
        /\ s \o t \in Seq(Bytes)
        /\ Len(s) \in Nat /\ Len(t) \in Nat
        /\ Len(s \o t) = Len(s) + Len(t)
        /\ \A i \in 1 .. Len(s) + Len(t) :
              (s \o t)[i] = IF i <= Len(s) THEN s[i] ELSE t[i - Len(s)]
        /\ \A i \in 1 .. Len(s) : s[i] \in Bytes
  BY ConcatProperties, LenProperties, ElementOfSeq

LEMMA Associative ==
    \A s, t, u \in Seq(Bytes) : (s \o t) \o u = s \o (t \o u)
  BY ConcatAssociative

LEMMA ByteType ==
    \A x \in Bytes : /\ x[1] \in Nat /\ x[2] \in Nat /\ x = <<x[1], x[2]>>
  BY TtyAssumption DEF Bytes

\* The first n bytes of s and the rest make s.
LEMMA Cut ==
    ASSUME NEW s \in Seq(Bytes), NEW n \in Nat
    PROVE  /\ First(s, n) \in Seq(Bytes) /\ SubSeq(s, n + 1, Len(s)) \in Seq(Bytes)
           /\ First(s, n) \o SubSeq(s, n + 1, Len(s)) = s
           /\ Len(First(s, n)) = IF n < Len(s) THEN n ELSE Len(s)
           /\ Len(SubSeq(s, n + 1, Len(s))) = IF n < Len(s) THEN Len(s) - n ELSE 0
           /\ \A i \in 1 .. Len(First(s, n)) : First(s, n)[i] = s[i]
<1> DEFINE m == IF n < Len(s) THEN n ELSE Len(s)
<1>1. Len(s) \in Nat /\ \A i \in 1 .. Len(s) : s[i] \in Bytes
  BY LenProperties, ElementOfSeq
<1>2. m \in 0 .. Len(s) /\ First(s, n) = SubSeq(s, 1, m)
  BY <1>1 DEF First
<1>3. /\ SubSeq(s, 1, m) \in Seq(Bytes) /\ Len(SubSeq(s, 1, m)) = m
      /\ \A i \in 1 .. m : SubSeq(s, 1, m)[i] = s[i]
  <2>1. \A i \in 1 .. m : s[i] \in Bytes
    BY <1>1, <1>2
  <2>2. 1 \in Int /\ m \in Int
    BY <1>2
  <2>3. /\ SubSeq(s, 1, m) \in Seq(Bytes)
        /\ Len(SubSeq(s, 1, m)) = IF 1 <= m THEN m - 1 + 1 ELSE 0
        /\ \A i \in 1 .. m - 1 + 1 : SubSeq(s, 1, m)[i] = s[1 + i - 1]
    BY <2>1, <2>2, SubSeqProperties
  <2> QED
    BY <1>2, <2>3
<1>4. CASE n < Len(s)
  <2>1. m = n /\ n + 1 \in Int /\ Len(s) \in Int /\ \A i \in n + 1 .. Len(s) : s[i] \in Bytes
    BY <1>1, <1>4
  <2>2. /\ SubSeq(s, n + 1, Len(s)) \in Seq(Bytes)
        /\ Len(SubSeq(s, n + 1, Len(s)))
             = IF n + 1 <= Len(s) THEN Len(s) - (n + 1) + 1 ELSE 0
    BY <2>1, SubSeqProperties
  <2>3. SubSeq(s, 1, n) \o SubSeq(s, n + 1, Len(s)) = SubSeq(s, 1, Len(s))
    <3>1. 1 \in 1 .. Len(s) + 1 /\ n \in 1 - 1 .. Len(s) /\ Len(s) \in n .. Len(s)
      BY <1>1, <1>4
    <3> QED
      BY Zenon, <3>1, ConcatAdjacentSubSeq
  <2>4. SubSeq(s, 1, Len(s)) = s
    BY SubSeqFull
  <2>5. First(s, n) = SubSeq(s, 1, n)
    BY <1>2, <2>1
  <2>6. First(s, n) \o SubSeq(s, n + 1, Len(s)) = s
    BY Zenon, <2>3, <2>4, <2>5
  <2>7. Len(SubSeq(s, n + 1, Len(s))) = Len(s) - n
    BY <1>1, <1>4, <2>2
  <2> QED
    BY Zenon, <1>2, <1>3, <1>4, <2>1, <2>2, <2>6, <2>7
<1>5. CASE ~(n < Len(s))
  <2>1. m = Len(s) /\ Len(s) < n + 1 /\ n + 1 \in Int /\ Len(s) \in Int
    BY <1>1, <1>5
  <2>2. SubSeq(s, n + 1, Len(s)) = <<>>
    BY <2>1, SubSeqEmpty
  <2>3. SubSeq(s, 1, Len(s)) = s /\ s \o <<>> = s /\ <<>> \in Seq(Bytes) /\ Len(<<>>) = 0
    BY SubSeqFull, ConcatEmptySeq, EmptySeq
  <2>4. First(s, n) = s
    BY Zenon, <1>2, <2>1, <2>3
  <2> HIDE DEF m
  <2> QED
    BY SMTT(60), <1>1, <1>5, <2>1, <2>2, <2>3, <2>4
<1> QED
  BY SMTT(60), <1>4, <1>5

\* A part that a stream starts with is in order and whole when the stream is.
LEMMA Prefix ==
    ASSUME NEW s \in Seq(Bytes), NEW t \in Seq(Bytes),
           Whole(s \o t), Ordered(s \o t)
    PROVE  Whole(s) /\ Ordered(s)
<1>1. /\ Len(s) \in Nat /\ Len(t) \in Nat /\ Len(s \o t) = Len(s) + Len(t)
      /\ \A i \in 1 .. Len(s) : (s \o t)[i] = s[i]
  BY Concat
<1>2. \A i \in 1 .. Len(s) : i \in 1 .. Len(s \o t) /\ (i > 1 => i - 1 \in 1 .. Len(s))
  BY <1>1
<1>3. Whole(s)
  BY Zenon, <1>1, <1>2 DEF Whole
<1>4. Ordered(s)
  BY <1>1, <1>2 DEF Ordered
<1> QED
  BY <1>3, <1>4

\* Keys typed after everything in the stream.
LEMMA AddKeys ==
    ASSUME NEW s \in Seq(Bytes), NEW t \in Seq(Bytes), NEW k \in Nat, NEW n, NEW ready,
           Whole(s), Ordered(s), Typed(s, ready, n, k),
           \A i \in 1 .. Len(t) : t[i] = <<0, k + i>>
    PROVE  Whole(s \o t) /\ Ordered(s \o t)
<1> DEFINE u == s \o t
<1>1. /\ Len(s) \in Nat /\ Len(t) \in Nat /\ Len(u) = Len(s) + Len(t)
      /\ \A i \in 1 .. Len(s) : u[i] = s[i] /\ s[i] \in Bytes
      /\ \A i \in 1 .. Len(u) : i > Len(s) => u[i] = t[i - Len(s)]
  BY Concat
<1>2. \A i \in 1 .. Len(s) : /\ s[i][1] \in Nat /\ s[i][2] \in Nat
                             /\ s[i][1] = 0 => s[i][2] <= k
  BY <1>1, ByteType DEF Typed
<1>3. \A i \in 1 .. Len(u) : i > Len(s) => u[i][1] = 0 /\ u[i][2] = k + (i - Len(s))
  <2> SUFFICES ASSUME NEW i \in 1 .. Len(u), i > Len(s)
               PROVE  u[i][1] = 0 /\ u[i][2] = k + (i - Len(s))
    OBVIOUS
  <2>1. i - Len(s) \in 1 .. Len(t)
    BY <1>1
  <2>2. u[i] = <<0, k + (i - Len(s))>>
    BY <1>1, <2>1
  <2> QED
    BY <2>2
<1> HIDE DEF u
<1>4. Whole(u)
  <2> SUFFICES ASSUME NEW i \in 1 .. Len(u), u[i][1] > 0, u[i][2] > 1
               PROVE  i > 1 /\ u[i - 1] = <<u[i][1], u[i][2] - 1>>
    BY DEF Whole
  <2>1. i \in 1 .. Len(s)
    <3> SUFFICES ASSUME i > Len(s) PROVE FALSE
      BY <1>1
    <3>1. u[i][1] = 0
      BY <1>3
    <3> QED
      BY <3>1
  <2>2. s[i][1] > 0 /\ s[i][2] > 1
    BY <1>1, <2>1
  <2>3. i > 1 /\ s[i - 1] = <<s[i][1], s[i][2] - 1>>
    BY <2>1, <2>2 DEF Whole
  <2>4. i - 1 \in 1 .. Len(s)
    BY <1>1, <2>1, <2>3
  <2> QED
    BY SMTT(60), <1>1, <2>1, <2>3, <2>4
<1>5. ASSUME NEW i \in 1 .. Len(u), NEW j \in 1 .. Len(u), i < j
      PROVE  Before(u[i], u[j])
  <2>1. CASE j <= Len(s)
    <3>1. i \in 1 .. Len(s) /\ j \in 1 .. Len(s)
      BY <1>1, <1>5, <2>1
    <3>2. Before(s[i], s[j])
      BY <1>5, <3>1 DEF Ordered
    <3> QED
      BY <1>1, <3>1, <3>2
  <2>2. CASE i <= Len(s) /\ j > Len(s)
    BY SMTT(60), <1>1, <1>2, <1>3, <1>5, <2>2 DEF Before
  <2>3. CASE i > Len(s)
    <3>1. /\ u[i][1] = 0 /\ u[i][2] = k + (i - Len(s))
          /\ u[j][1] = 0 /\ u[j][2] = k + (j - Len(s))
      BY <1>1, <1>3, <1>5, <2>3
    <3>2. k + (i - Len(s)) < k + (j - Len(s))
      BY <1>1, <1>5
    <3> QED
      BY <3>1, <3>2 DEF Before
  <2> QED
    BY <2>1, <2>2, <2>3, <1>1
<1> QED
  BY <1>4, <1>5 DEF Ordered, u

\* A line later than all lines in the stream, byte by byte.
LEMMA AddLine ==
    ASSUME NEW s \in Seq(Bytes), NEW t \in Seq(Bytes), NEW ready \in Nat \ {0}, NEW n, NEW k,
           Whole(s), Ordered(s), Typed(s, ready, n, k),
           \A i \in 1 .. Len(t) : t[i] = <<ready, i>>
    PROVE  Whole(s \o t) /\ Ordered(s \o t)
<1> DEFINE u == s \o t
<1>1. /\ Len(s) \in Nat /\ Len(t) \in Nat /\ Len(u) = Len(s) + Len(t)
      /\ \A i \in 1 .. Len(s) : u[i] = s[i] /\ s[i] \in Bytes
      /\ \A i \in 1 .. Len(u) : i > Len(s) => u[i] = t[i - Len(s)]
  BY Concat
<1>2. \A i \in 1 .. Len(s) : s[i][1] \in Nat /\ s[i][2] \in Nat /\ s[i][1] < ready
  BY SMTT(60), <1>1, ByteType DEF Typed
<1>3. \A i \in 1 .. Len(u) : i > Len(s) =>
          u[i] = <<ready, i - Len(s)>> /\ u[i][1] = ready /\ u[i][2] = i - Len(s)
  <2> SUFFICES ASSUME NEW i \in 1 .. Len(u), i > Len(s)
               PROVE  u[i] = <<ready, i - Len(s)>> /\ u[i][1] = ready /\ u[i][2] = i - Len(s)
    OBVIOUS
  <2>1. i - Len(s) \in 1 .. Len(t)
    BY <1>1
  <2>2. u[i] = <<ready, i - Len(s)>>
    BY <1>1, <2>1
  <2> QED
    BY <2>2
<1> HIDE DEF u
<1>4. Whole(u)
  <2> SUFFICES ASSUME NEW i \in 1 .. Len(u), u[i][1] > 0, u[i][2] > 1
               PROVE  i > 1 /\ u[i - 1] = <<u[i][1], u[i][2] - 1>>
    BY DEF Whole
  <2>1. CASE i <= Len(s)
    <3>1. s[i][1] > 0 /\ s[i][2] > 1
      BY <1>1, <2>1
    <3>2. i > 1 /\ s[i - 1] = <<s[i][1], s[i][2] - 1>>
      BY <1>1, <2>1, <3>1 DEF Whole
    <3>3. i - 1 \in 1 .. Len(s)
      BY <1>1, <2>1, <3>2
    <3> QED
      BY <1>1, <2>1, <3>2, <3>3
  <2>2. CASE i > Len(s)
    <3>1. i > 1 /\ i - 1 \in 1 .. Len(u) /\ i - 1 > Len(s)
      BY <1>1, <1>3, <2>2
    <3>2. u[i - 1] = <<ready, (i - 1) - Len(s)>>
      BY <1>3, <3>1
    <3> QED
      BY <1>1, <1>3, <2>2, <3>1, <3>2
  <2> QED
    BY <1>1, <2>1, <2>2
<1>5. ASSUME NEW i \in 1 .. Len(u), NEW j \in 1 .. Len(u), i < j
      PROVE  Before(u[i], u[j])
  <2>1. CASE j <= Len(s)
    <3>1. i \in 1 .. Len(s) /\ j \in 1 .. Len(s)
      BY <1>1, <1>5, <2>1
    <3>2. Before(s[i], s[j])
      BY <1>5, <3>1 DEF Ordered
    <3> QED
      BY <1>1, <3>1, <3>2
  <2>2. CASE i <= Len(s) /\ j > Len(s)
    BY <1>1, <1>2, <1>3, <1>5, <2>2 DEF Before
  <2>3. CASE i > Len(s)
    BY <1>1, <1>3, <1>5, <2>3 DEF Before
  <2> QED
    BY <2>1, <2>2, <2>3, <1>1
<1> QED
  BY <1>4, <1>5 DEF Ordered, u

\* The same two additions keep the stream within what was typed.
LEMMA AddedKeys ==
    ASSUME NEW s \in Seq(Bytes), NEW t \in Seq(Bytes), NEW k \in Nat, NEW n \in Nat,
           NEW ready \in Nat, Typed(s, ready, n, k), NEW m \in Nat, Len(t) <= m,
           \A i \in 1 .. Len(t) : t[i] = <<0, k + i>>
    PROVE  Typed(s \o t, ready, n, k + m)
<1> SUFFICES ASSUME NEW i \in 1 .. Len(s \o t)
             PROVE  /\ (s \o t)[i][1] <= n
                    /\ (s \o t)[i][1] = 0 => (s \o t)[i][2] <= k + m
                    /\ ready > 0 => (s \o t)[i][1] < ready
  BY DEF Typed
<1>1. Len(s) \in Nat /\ Len(t) \in Nat /\ Len(s \o t) = Len(s) + Len(t)
  BY Concat
<1>2. CASE i <= Len(s)
  <2>1. i \in 1 .. Len(s) /\ (s \o t)[i] = s[i] /\ s[i] \in Bytes
    BY <1>1, <1>2, Concat
  <2>2. s[i][2] \in Nat
    BY <2>1, ByteType
  <2> QED
    BY <2>1, <2>2 DEF Typed
<1>3. CASE i > Len(s)
  <2>1. i - Len(s) \in 1 .. Len(t) /\ (s \o t)[i] = t[i - Len(s)]
    BY <1>1, <1>3, Concat
  <2>2. (s \o t)[i] = <<0, k + (i - Len(s))>>
    BY <2>1
  <2>3. (s \o t)[i][1] = 0 /\ (s \o t)[i][2] = k + (i - Len(s))
    BY <2>2
  <2> QED
    BY <1>1, <2>1, <2>3
<1> QED
  BY <1>1, <1>2, <1>3

LEMMA AddedLine ==
    ASSUME NEW s \in Seq(Bytes), NEW t \in Seq(Bytes), NEW ready \in Nat \ {0},
           NEW n \in Nat, NEW k \in Nat, Typed(s, ready, n, k), ready <= n,
           \A i \in 1 .. Len(t) : t[i] = <<ready, i>>
    PROVE  Typed(s \o t, 0, n, k)
<1> SUFFICES ASSUME NEW i \in 1 .. Len(s \o t)
             PROVE  /\ (s \o t)[i][1] <= n
                    /\ (s \o t)[i][1] = 0 => (s \o t)[i][2] <= k
  BY DEF Typed
<1>1. Len(s) \in Nat /\ Len(t) \in Nat /\ Len(s \o t) = Len(s) + Len(t)
  BY Concat
<1>2. CASE i <= Len(s)
  <2>1. i \in 1 .. Len(s) /\ (s \o t)[i] = s[i]
    BY <1>1, <1>2, Concat
  <2> QED
    BY <2>1 DEF Typed
<1>3. CASE i > Len(s)
  <2>1. i - Len(s) \in 1 .. Len(t) /\ (s \o t)[i] = t[i - Len(s)]
    BY <1>1, <1>3, Concat
  <2>2. (s \o t)[i] = <<ready, i - Len(s)>>
    BY <2>1
  <2>3. (s \o t)[i][1] = ready
    BY <2>2
  <2> QED
    BY <2>3
<1> QED
  BY <1>1, <1>2, <1>3


-----------------------------------------------------------------------------
\* A terminal whose ring and finished line are the same is as sound, also after
\* more keys.
LEMMA Alike ==
    ASSUME NEW T, NEW g, NEW n \in Nat, NEW k \in Nat, NEW j \in Nat, k <= j,
           Sound(T, g, n, k), NEW U \in TtyType,
           U.input_length < Capacity, U.cooked_length < Capacity,
           U.line_ready = T.line_ready, U.raw_input = T.raw_input
    PROVE  Sound(U, g, n, j)
<1>1. T \in TtyType /\ T.raw_input \in Seq(Bytes) /\ g \in Seq(Bytes)
  BY DEF Sound, TtyType
<1>2. Typed(g \o T.raw_input, T.line_ready, n, j)
  <2>1. \A i \in 1 .. Len(g \o T.raw_input) : (g \o T.raw_input)[i][2] \in Nat
    BY SMTT(60), <1>1, Concat, ByteType
  <2> QED
    BY SMTT(60), <2>1 DEF Sound, StreamOK, Typed
<1> QED
  BY <1>1, <1>2 DEF Sound, StreamOK, Fits

\* tty_init, tty_reset: the ring is cut off the stream.
LEMMA FreshSound ==
    ASSUME NEW T, NEW g, NEW n \in Nat, NEW k \in Nat, Sound(T, g, n, k), NEW raw \in BOOLEAN
    PROVE  Sound(Fresh(raw), g, n, k)
<1>1. T \in TtyType /\ T.raw_input \in Seq(Bytes) /\ g \in Seq(Bytes)
  BY DEF Sound, TtyType
<1>2. Fresh(raw) \in TtyType /\ Fits(Fresh(raw))
  BY TtyAssumption, EmptySeq DEF Fresh, TtyType, Fits
<1>3. g \o <<>> = g
  BY <1>1, ConcatEmptySeq
<1>4. Whole(g) /\ Ordered(g)
  BY <1>1, Prefix DEF Sound, StreamOK
<1>5. Typed(g, 0, n, k)
  <2>1. \A i \in 1 .. Len(g) : i \in 1 .. Len(g \o T.raw_input) /\ (g \o T.raw_input)[i] = g[i]
    BY <1>1, Concat
  <2> QED
    BY <2>1 DEF Sound, StreamOK, Typed
<1> QED
  BY <1>1, <1>2, <1>3, <1>4, <1>5 DEF Sound, StreamOK, Fresh

\* The line that tty_fd_read puts into the ring.
LEMMA DrainIs ==
    ASSUME NEW T \in TtyType, Fits(T), NEW m
    PROVE  /\ drain(T, m) \in Seq(Bytes)
           /\ Len(drain(T, m)) = T.cooked_length + 1
           /\ \A i \in 1 .. T.cooked_length + 1 : drain(T, m)[i] = <<T.line_ready, i>>
<1> DEFINE c == T.cooked_length
           l == T.line_ready
           body == [i \in 1 .. c |-> <<l, i>>]
           last == <<<<l, c + 1>>>>
<1>1. c \in Nat /\ c < Capacity /\ l \in 0 .. MaxKeys
  BY DEF TtyType, Fits
<1>2. drain(T, m) = body \o last
  BY Zenon, <1>1 DEF drain
<1> HIDE DEF c, l
<1>3. body \in Seq(Bytes) /\ Len(body) = c /\ \A i \in 1 .. c : body[i] = <<l, i>>
  BY <1>1 DEF Bytes
<1>4. <<l, c + 1>> \in Bytes
  BY <1>1 DEF Bytes
<1>5. last \in Seq(Bytes) /\ Len(last) = 1 /\ last[1] = <<l, c + 1>>
  BY <1>4
<1> HIDE DEF body, last
<1>6. /\ body \o last \in Seq(Bytes)
      /\ Len(body \o last) = c + 1
      /\ \A i \in 1 .. c + 1 : (body \o last)[i] = IF i <= c THEN body[i] ELSE last[i - c]
  <2>1. Len(body) + Len(last) = c + 1
    BY <1>3, <1>5
  <2>2. /\ body \o last \in Seq(Bytes)
        /\ Len(body \o last) = Len(body) + Len(last)
        /\ \A i \in 1 .. Len(body) + Len(last) :
              (body \o last)[i] = IF i <= Len(body) THEN body[i] ELSE last[i - Len(body)]
    BY Zenon, <1>3, <1>5, Concat
  <2> QED
    BY <1>3, <2>1, <2>2
<1>7. ASSUME NEW i \in 1 .. c + 1
      PROVE  (body \o last)[i] = <<l, i>>
  <2>1. CASE i <= c
    BY <1>1, <1>3, <1>6, <2>1
  <2>2. CASE i = c + 1
    <3>1. (body \o last)[i] = last[i - c] /\ i - c = 1
      BY <1>1, <1>6, <2>2
    <3> QED
      BY <1>5, <2>2, <3>1
  <2>3. i <= c \/ i = c + 1
    BY <1>1
  <2> QED
    BY Zenon, <2>1, <2>2, <2>3
<1> QED
  BY Zenon, <1>2, <1>6, <1>7 DEF c, l

\* tty_fd_read moves bytes from the ring to the reader; a finished line that
\* goes into the empty ring is a later one than all that was read.
LEMMA ReadSound ==
    ASSUME NEW T, NEW g, NEW n \in Nat, NEW k \in Nat, NEW m \in Nat, Sound(T, g, n, k)
    PROVE  LET r == tty_fd_read(T, m)
           IN  /\ Sound(r.tty, g \o r.bytes, n, k)
               /\ r.tty.waiter_pid \in {T.waiter_pid, NoPid}
<1> DEFINE r == tty_fd_read(T, m)
           ring == IF drains(T) THEN drain(T, m) ELSE T.raw_input
           left == IF drains(T) THEN drained(T) ELSE T
           rest == SubSeq(ring, m + 1, Len(ring))
           head == First(ring, m)
<1>1. /\ T \in TtyType /\ T.raw_input \in Seq(Bytes) /\ g \in Seq(Bytes) /\ Fits(T)
      /\ StreamOK(T, g, n, k)
  BY DEF Sound, TtyType
<1>2. CASE m = 0
  <2>1. r.tty = T /\ r.bytes = <<>>
    BY <1>2 DEF tty_fd_read
  <2>2. g \o <<>> = g
    BY <1>1, ConcatEmptySeq
  <2> QED
    BY <2>1, <2>2
<1>3. CASE m # 0
  <2>1. r.tty = [left EXCEPT !.raw_input = rest] /\ r.bytes = head
    BY <1>3 DEF tty_fd_read
  <2>2. /\ ring \in Seq(Bytes) /\ Len(ring) <= Capacity
        /\ Whole(g \o ring) /\ Ordered(g \o ring) /\ Typed(g \o ring, left.line_ready, n, k)
    <3>1. CASE drains(T)
      <4>1. ring = drain(T, m) /\ left.line_ready = 0 /\ T.raw_input = <<>>
        BY <1>1, <3>1 DEF drains, drained, TtyType
      <4>2. T.line_ready \in Nat \ {0} /\ T.line_ready <= n
        BY <1>1, <3>1 DEF drains, TtyType, StreamOK
      <4>3. /\ ring \in Seq(Bytes) /\ Len(ring) = T.cooked_length + 1
            /\ \A i \in 1 .. Len(ring) : ring[i] = <<T.line_ready, i>>
        BY <1>1, <4>1, DrainIs
      <4>4. g \o T.raw_input = g
        BY <1>1, <4>1, ConcatEmptySeq
      <4> HIDE DEF ring, left
      <4>5. Whole(g) /\ Ordered(g) /\ Typed(g, T.line_ready, n, k)
        BY <1>1, <4>4 DEF StreamOK
      <4>6. Whole(g \o ring) /\ Ordered(g \o ring)
        BY SMTT(60), <1>1, <4>2, <4>3, <4>5, AddLine
      <4>7. Typed(g \o ring, 0, n, k)
        BY SMTT(60), <1>1, <4>2, <4>3, <4>5, AddedLine
      <4>8. Len(ring) <= Capacity
        BY <1>1, <4>3, TtyAssumption DEF Fits, TtyType
      <4> QED
        BY <4>1, <4>3, <4>6, <4>7, <4>8
    <3>2. CASE ~drains(T)
      <4>1. ring = T.raw_input /\ left = T
        BY <3>2
      <4>2. Len(ring) \in Nat /\ Capacity \in Nat
        BY <1>1, <4>1, LenProperties, TtyAssumption
      <4> HIDE DEF ring, left
      <4> QED
        BY <1>1, <4>1, <4>2 DEF StreamOK, Fits
    <3> QED
      BY <3>1, <3>2
  <2>3. /\ left \in TtyType /\ left.input_length < Capacity /\ left.cooked_length < Capacity
        /\ left.line_ready <= n /\ left.waiter_pid \in {T.waiter_pid, NoPid}
    <3>1. CASE drains(T)
      <4>1. left = [T EXCEPT !.line_ready = 0, !.cooked_length = 0, !.waiter_pid = NoPid]
        BY <3>1 DEF drained
      <4> HIDE DEF left
      <4>2. left \in TtyType
        <5>1. 0 \in 0 .. MaxKeys /\ 0 \in Nat /\ NoPid \in Pids \cup {NoPid}
          BY TtyAssumption
        <5> QED
          BY Zenon, <1>1, <4>1, <5>1 DEF TtyType
      <4>3. /\ left.line_ready = 0 /\ left.cooked_length = 0 /\ left.waiter_pid = NoPid
            /\ left.input_length = T.input_length
        BY <1>1, <4>1 DEF TtyType
      <4> QED
        BY <1>1, <4>2, <4>3, TtyAssumption DEF Fits
    <3>2. CASE ~drains(T)
      <4>1. left = T
        BY <3>2
      <4> HIDE DEF left
      <4> QED
        BY <1>1, <4>1 DEF StreamOK, Fits
    <3> QED
      BY <3>1, <3>2
  <2> HIDE DEF ring, left
  <2>4. /\ head \in Seq(Bytes) /\ rest \in Seq(Bytes) /\ head \o rest = ring
        /\ Len(rest) = IF m < Len(ring) THEN Len(ring) - m ELSE 0
    BY SMTT(60), <2>2, Cut
  <2> HIDE DEF head, rest
  <2>5. (g \o head) \o rest = g \o ring
    <3>1. (g \o head) \o rest = g \o (head \o rest)
      BY <1>1, <2>4, Associative, Zenon
    <3> QED
      BY <2>4, <3>1
  <2>6. Len(rest) < Capacity
    BY <1>3, <2>2, <2>4, LenProperties, TtyAssumption
  <2>7. g \o head \in Seq(Bytes)
    BY <1>1, <2>4, Concat
  <2>8. /\ r.tty \in TtyType /\ r.tty.raw_input = rest
        /\ r.tty.input_length = left.input_length /\ r.tty.cooked_length = left.cooked_length
        /\ r.tty.line_ready = left.line_ready /\ r.tty.waiter_pid = left.waiter_pid
    BY Zenon, <2>1, <2>3, <2>4 DEF TtyType
  <2> HIDE DEF r
  <2>9. Sound(r.tty, g \o head, n, k)
    BY Zenon, <2>2, <2>3, <2>5, <2>6, <2>7, <2>8 DEF Sound, StreamOK, Fits
  <2> QED
    BY <2>1, <2>3, <2>8, <2>9 DEF r
<1> QED
  BY <1>2, <1>3

\* tty_queue_raw_input appends as many of the keys as fit.
LEMMA QueueSound ==
    ASSUME NEW T, NEW g, NEW n \in Nat, NEW k \in Nat, NEW m \in Nat, Sound(T, g, n, k)
    PROVE  LET U == tty_queue_raw_input(T, [i \in 1 .. m |-> <<0, k + i>>])
           IN  Sound(U, g, n, k + m)
<1> DEFINE data == [i \in 1 .. m |-> <<0, k + i>>]
           ring == T.raw_input
           room == Capacity - 1 - Len(ring)
           add  == First(data, room)
           U    == tty_queue_raw_input(T, data)
<1>1. /\ T \in TtyType /\ ring \in Seq(Bytes) /\ g \in Seq(Bytes) /\ Fits(T)
      /\ StreamOK(T, g, n, k) /\ T.line_ready \in Nat
  BY DEF Sound, TtyType
<1>2. Len(ring) \in Nat /\ Len(ring) < Capacity /\ Capacity \in Nat
  BY <1>1, LenProperties, TtyAssumption DEF Fits
<1>3. room \in Nat
  BY <1>2
<1>4. data \in Seq(Bytes) /\ Len(data) = m /\ \A i \in 1 .. m : data[i] = <<0, k + i>>
  BY TtyAssumption DEF Bytes
<1>5. U = [T EXCEPT !.raw_input = ring \o add]
  BY <1>1 DEF tty_queue_raw_input, TtyType
<1> HIDE DEF data, room, U
<1>6. /\ add \in Seq(Bytes) /\ Len(add) = IF room < m THEN room ELSE m
      /\ \A i \in 1 .. Len(add) : add[i] = data[i]
  BY <1>3, <1>4, Cut
<1> HIDE DEF add
<1>7. Len(add) \in Nat /\ Len(add) <= m /\ Len(add) <= room
  BY <1>3, <1>6
<1>8. \A i \in 1 .. Len(add) : add[i] = <<0, k + i>>
  BY <1>4, <1>6, <1>7
<1>9. ring \o add \in Seq(Bytes) /\ Len(ring \o add) < Capacity
  <2>1. ring \o add \in Seq(Bytes) /\ Len(ring \o add) = Len(ring) + Len(add)
    BY Zenon, <1>1, <1>6, Concat
  <2> QED
    BY <1>2, <1>7, <2>1 DEF room
<1>10. g \o ring \in Seq(Bytes)
  BY <1>1, Concat
<1>11. g \o (ring \o add) = (g \o ring) \o add
  BY <1>1, <1>6, Associative, Zenon
<1>12. Whole((g \o ring) \o add) /\ Ordered((g \o ring) \o add)
  BY Zenon, <1>1, <1>6, <1>8, <1>10, AddKeys DEF StreamOK
<1>13. Typed((g \o ring) \o add, T.line_ready, n, k + m)
  BY Zenon, <1>1, <1>6, <1>7, <1>8, <1>10, AddedKeys DEF StreamOK
<1>14. /\ U \in TtyType /\ U.raw_input = ring \o add /\ U.line_ready = T.line_ready
       /\ U.input_length = T.input_length /\ U.cooked_length = T.cooked_length
  BY Zenon, <1>1, <1>5, <1>9 DEF TtyType
<1>15. Sound(U, g, n, k + m)
  BY Zenon, <1>1, <1>9, <1>11, <1>12, <1>13, <1>14 DEF Sound, StreamOK, Fits
<1> QED
  BY <1>15 DEF U, data

\* Enter: the finished line is later than all that is in the stream.
LEMMA EnterSound ==
    ASSUME NEW T, NEW g, NEW n \in Nat, NEW k \in Nat, NEW j \in Nat, NEW c \in Nat,
           Sound(T, g, n, k), n + 1 <= MaxKeys, k <= j, c < Capacity
    PROVE  Sound([T EXCEPT !.cooked_length = c, !.line_ready = n + 1, !.input_length = 0],
                 g, n + 1, j)
<1> DEFINE U == [T EXCEPT !.cooked_length = c, !.line_ready = n + 1, !.input_length = 0]
           s == g \o T.raw_input
<1>1. /\ T \in TtyType /\ T.raw_input \in Seq(Bytes) /\ g \in Seq(Bytes) /\ Fits(T)
      /\ StreamOK(T, g, n, k)
  BY DEF Sound, TtyType
<1>2. n + 1 \in 0 .. MaxKeys
  BY TtyAssumption
<1>3. /\ U \in TtyType /\ U.raw_input = T.raw_input /\ U.line_ready = n + 1
      /\ U.cooked_length = c /\ U.input_length = 0
  BY Zenon, <1>1, <1>2 DEF TtyType
<1>4. Fits(U)
  BY <1>1, <1>3, TtyAssumption DEF Fits
<1> HIDE DEF U
<1>5. \A i \in 1 .. Len(s) : s[i][1] \in Nat /\ s[i][2] \in Nat
  BY SMTT(60), <1>1, Concat, ByteType
<1>6. Typed(s, n + 1, n + 1, j)
  <2>1. Typed(s, T.line_ready, n, k)
    BY <1>1 DEF StreamOK
  <2> HIDE DEF s
  <2> SUFFICES ASSUME NEW i \in 1 .. Len(s)
               PROVE  /\ s[i][1] <= n + 1 /\ s[i][1] < n + 1
                      /\ s[i][1] = 0 => s[i][2] <= j
    BY DEF Typed
  <2>2. s[i][1] <= n /\ (s[i][1] = 0 => s[i][2] <= k)
    BY <2>1 DEF Typed
  <2> QED
    BY <1>5, <2>2
<1>7. Sound(U, g, n + 1, j)
  BY <1>1, <1>3, <1>4, <1>6 DEF Sound, StreamOK
<1> QED
  BY <1>7 DEF U

\* process_wake_tty_reader: the read is completed for the blocked reader, and
\* nobody is registered any more.
LEMMA WakeSound ==
    ASSUME NEW T, NEW n \in Nat, NEW k \in Nat, Sound(T, got, n, k), ProcsType,
           wake_tty_reader(T)
    PROVE  /\ Sound(tty', got', n, k) /\ tty'.waiter_pid = NoPid
           /\ state' \in [Pids -> States] /\ want' \in [Pids -> Counts \cup {0}]
<1> DEFINE U == [T EXCEPT !.waiter_pid = NoPid]
           q == T.waiter_pid
           r == tty_fd_read(U, want[q])
<1>1. T \in TtyType
  BY DEF Sound
<1>2. /\ U \in TtyType /\ U.waiter_pid = NoPid /\ U.input_length = T.input_length
      /\ U.cooked_length = T.cooked_length /\ U.line_ready = T.line_ready
      /\ U.raw_input = T.raw_input
  BY <1>1 DEF TtyType
<1>3. Sound(U, got, n, k)
  <2>1. U.input_length < Capacity /\ U.cooked_length < Capacity
    BY <1>2 DEF Sound, Fits
  <2> HIDE DEF U
  <2> QED
    BY <1>2, <2>1, Alike
<1>4. CASE q = NoPid \/ state[q] # "WAITING_IO"
  BY Zenon, <1>2, <1>3, <1>4 DEF wake_tty_reader, ProcsType
<1>5. CASE ~(q = NoPid \/ state[q] # "WAITING_IO")
  <2>1. q \in Pids
    BY <1>1, <1>5 DEF TtyType
  <2>2. want[q] \in Nat
    <3>1. want[q] \in Counts \cup {0}
      BY <2>1 DEF ProcsType
    <3>2. Counts \cup {0} \subseteq Nat
      BY TtyAssumption
    <3> QED
      BY <3>1, <3>2
  <2>3. /\ tty' = r.tty /\ got' = got \o r.bytes
        /\ state' = [state EXCEPT ![q] = "READY"] /\ want' = [want EXCEPT ![q] = 0]
    BY Zenon, <1>5 DEF wake_tty_reader
  <2> HIDE DEF U
  <2>4. Sound(r.tty, got \o r.bytes, n, k) /\ r.tty.waiter_pid \in {U.waiter_pid, NoPid}
    BY <1>3, <2>2, ReadSound
  <2>5. state' \in [Pids -> States] /\ want' \in [Pids -> Counts \cup {0}]
    BY <2>1, <2>3 DEF ProcsType, States
  <2> QED
    BY <1>2, <2>3, <2>4, <2>5
<1> QED
  BY <1>4, <1>5

-----------------------------------------------------------------------------
\* What an action has to leave behind.
LEMMA Next1 ==
    ASSUME Sound(tty', got', lines', keys'),
           keys' \in 0 .. MaxKeys, lines' \in 0 .. keys', ProcsType',
           tty'.waiter_pid = NoPid \/ (WaiterIsBlocked' /\ NoStrandedInput')
    PROVE  IInv'
  BY DEF IInv, WaiterIsBlocked, NoStrandedInput

\* System calls other than the end of a process.
LEMMA CallStep ==
    ASSUME IInv, NEW p \in Pids,
           \/ \E n \in Counts : SYS_READ(p, n)
           \/ tty_fd_write(p) \/ IoctlClear(p) \/ \E on \in BOOLEAN : IoctlSetRaw(p, on)
           \/ \E q \in Pids : Spawn(p, q) \/ SYS_WAITPID(p, q)
    PROVE  IInv'
<1>1. /\ Sound(tty, got, lines, keys) /\ tty \in TtyType /\ keys \in Nat /\ lines \in Nat
      /\ keys \in 0 .. MaxKeys /\ lines \in 0 .. keys /\ ProcsType
      /\ tty.input_length < Capacity /\ tty.cooked_length < Capacity
  BY TtyAssumption DEF IInv, Sound, Fits
<1>2. /\ keys' = keys /\ lines' = lines /\ keys <= keys'
      /\ keys' \in 0 .. MaxKeys /\ lines' \in 0 .. keys'
  <2>1. UNCHANGED <<keys, lines>>
    BY Zenon DEF SYS_READ, tty_fd_write, IoctlClear, IoctlSetRaw, Spawn, SYS_WAITPID
  <2> QED
    BY <1>1, <2>1
<1>3. ASSUME NEW n \in Counts, SYS_READ(p, n) PROVE IInv'
  <2>1. CASE HasInput(tty)
    <3> DEFINE r == tty_fd_read(tty, n)
    <3>1. n \in Nat /\ tty.waiter_pid = NoPid
      BY <2>1, TtyAssumption DEF IInv, NoStrandedInput
    <3>2. tty' = r.tty /\ got' = got \o r.bytes /\ UNCHANGED <<procs, shell_pid>>
      BY <1>3, <2>1 DEF SYS_READ
    <3>3. Sound(r.tty, got \o r.bytes, lines, keys) /\ r.tty.waiter_pid \in {tty.waiter_pid, NoPid}
      BY <1>1, <3>1, ReadSound
    <3>4. ProcsType'
      BY <1>1, <3>2 DEF ProcsType, procs
    <3> HIDE DEF r
    <3> QED
      BY <1>2, <3>1, <3>2, <3>3, <3>4, Next1
  <2>2. CASE ~HasInput(tty)
    <3>1. /\ tty' = [tty EXCEPT !.waiter_pid = p] /\ got' = got
          /\ state' = [state EXCEPT ![p] = "WAITING_IO"] /\ want' = [want EXCEPT ![p] = n]
          /\ UNCHANGED <<parent, wait, shell_pid>>
      BY <1>3, <2>2 DEF SYS_READ
    <3>2. /\ tty' \in TtyType /\ tty'.input_length = tty.input_length
          /\ tty'.cooked_length = tty.cooked_length /\ tty'.line_ready = tty.line_ready
          /\ tty'.raw_input = tty.raw_input /\ tty'.waiter_pid = p
      BY <1>1, <3>1 DEF TtyType
    <3>3. Sound(tty', got, lines, keys)
      <4>1. tty'.input_length < Capacity /\ tty'.cooked_length < Capacity /\ keys <= keys
        BY <1>1, <3>2
      <4> QED
        BY <1>1, <3>2, <4>1, Alike
    <3>4. ProcsType'
      BY <1>1, <3>1 DEF ProcsType, States
    <3>5. state'[p] = "WAITING_IO"
      BY <1>1, <3>1 DEF ProcsType
    <3> QED
      BY <1>2, <2>2, <3>1, <3>2, <3>3, <3>4, <3>5, Next1 DEF WaiterIsBlocked, NoStrandedInput, HasInput
  <2> QED
    BY <2>1, <2>2
<1>4. ASSUME tty_fd_write(p) \/ \E on \in BOOLEAN : IoctlSetRaw(p, on) PROVE IInv'
  <2>1. /\ tty' \in TtyType /\ tty'.input_length < Capacity
        /\ tty'.cooked_length = tty.cooked_length /\ tty'.line_ready = tty.line_ready
        /\ tty'.raw_input = tty.raw_input /\ tty'.waiter_pid = tty.waiter_pid
    <3>1. CASE tty_fd_write(p)
      BY Zenon, <1>1, <3>1 DEF tty_fd_write, TtyType
    <3>2. ASSUME NEW on \in BOOLEAN, IoctlSetRaw(p, on)
          PROVE  /\ tty' \in TtyType /\ tty'.input_length = 0
                 /\ tty'.cooked_length = tty.cooked_length /\ tty'.line_ready = tty.line_ready
                 /\ tty'.raw_input = tty.raw_input /\ tty'.waiter_pid = tty.waiter_pid
      BY Zenon, <1>1, <3>2 DEF IoctlSetRaw, TtyType
    <3>3. 0 < Capacity
      BY TtyAssumption
    <3> QED
      BY <1>4, <3>1, <3>2, <3>3
  <2>2. UNCHANGED <<procs, shell_pid, got>>
    BY Zenon, <1>4 DEF tty_fd_write, IoctlSetRaw
  <2>3. Sound(tty', got', lines', keys')
    BY SMTT(60), <1>1, <1>2, <2>1, <2>2, Alike
  <2>4. ProcsType' /\ WaiterIsBlocked' /\ NoStrandedInput'
    BY <1>1, <2>1, <2>2 DEF IInv, ProcsType, procs, WaiterIsBlocked, NoStrandedInput, HasInput
  <2> QED
    BY <1>2, <2>3, <2>4, Next1
<1>5. ASSUME IoctlClear(p) PROVE IInv'
  <2>1. tty' = Fresh(tty.raw_input_mode) /\ UNCHANGED <<procs, shell_pid, got>>
    BY <1>5 DEF IoctlClear, tty_reset
  <2>2. tty.raw_input_mode \in BOOLEAN
    BY <1>1 DEF TtyType
  <2>3. Sound(tty', got', lines', keys')
    BY <1>1, <1>2, <2>1, <2>2, FreshSound
  <2>4. ProcsType' /\ tty'.waiter_pid = NoPid
    BY <1>1, <2>1 DEF ProcsType, procs, Fresh
  <2> QED
    BY <1>2, <2>3, <2>4, Next1
<1>6. ASSUME NEW q \in Pids, Spawn(p, q) \/ SYS_WAITPID(p, q) PROVE IInv'
  <2>1. UNCHANGED <<tty, want, shell_pid, got>>
    BY <1>6 DEF Spawn, SYS_WAITPID
  <2>2. ProcsType'
    BY <1>1, <1>6 DEF ProcsType, Spawn, SYS_WAITPID, States
  <2>3. \A w \in Pids : state[w] = "WAITING_IO" => state'[w] = "WAITING_IO"
    BY <1>1, <1>6 DEF ProcsType, Spawn, SYS_WAITPID, Running
  <2>4. tty.waiter_pid \in Pids \cup {NoPid}
    BY SMTT(60), <1>1 DEF TtyType
  <2>5. WaiterIsBlocked' /\ NoStrandedInput'
    BY SMTT(60), <2>1, <2>3, <2>4 DEF IInv, WaiterIsBlocked, NoStrandedInput, HasInput
  <2> QED
    BY <1>1, <1>2, <2>1, <2>2, <2>5, Next1
<1> QED
  BY <1>3, <1>4, <1>5, <1>6

\* Processes end: a registered reader among them lets go of the terminal.
LEMMA DieStep ==
    ASSUME IInv, NEW dead \in SUBSET (Pids \cup {NoPid}), Die(tty, dead),
           UNCHANGED <<shell_pid, lines, got>>, keys' \in 0 .. MaxKeys, keys <= keys'
    PROVE  IInv'
<1>1. /\ Sound(tty, got, lines, keys) /\ tty \in TtyType /\ keys \in Nat /\ lines \in Nat
      /\ keys \in 0 .. MaxKeys /\ lines \in 0 .. keys /\ ProcsType
      /\ tty.input_length < Capacity /\ tty.cooked_length < Capacity
  BY TtyAssumption DEF IInv, Sound, Fits
<1>2. keys' \in Nat /\ lines' = lines /\ lines' \in 0 .. keys' /\ got' = got
  BY <1>1, TtyAssumption
<1>3. /\ tty' \in TtyType /\ tty'.input_length = tty.input_length
      /\ tty'.cooked_length = tty.cooked_length /\ tty'.line_ready = tty.line_ready
      /\ tty'.raw_input = tty.raw_input
      /\ tty'.waiter_pid = IF tty.waiter_pid \in dead THEN NoPid ELSE tty.waiter_pid
  BY <1>1 DEF Die, clear_pending_tty_wait, TtyType
<1>4. Sound(tty', got', lines', keys')
  BY <1>1, <1>2, <1>3, Alike
<1>5. ProcsType'
  <2>1. state' \in [Pids -> States]
    BY <1>1 DEF Die, ProcsType, States
  <2>2. wait' \in [Pids -> Pids \cup {NoPid}]
    BY <1>1 DEF Die, ProcsType
  <2>3. want' \in [Pids -> Counts \cup {0}]
    BY <1>1 DEF Die, ProcsType
  <2> QED
    BY <1>1, <2>1, <2>2, <2>3 DEF Die, ProcsType
<1>6. ASSUME tty'.waiter_pid # NoPid
      PROVE  WaiterIsBlocked' /\ NoStrandedInput'
  <2>1. tty'.waiter_pid = tty.waiter_pid /\ tty.waiter_pid \notin dead /\ tty.waiter_pid \in Pids
    BY <1>1, <1>3, <1>6 DEF TtyType
  <2>2. state[tty.waiter_pid] = "WAITING_IO" /\ ~HasInput(tty)
    BY <1>6, <2>1 DEF IInv, WaiterIsBlocked, NoStrandedInput
  <2>3. state'[tty.waiter_pid] = "WAITING_IO"
    BY <2>1, <2>2 DEF Die
  <2> QED
    BY <1>3, <2>1, <2>2, <2>3 DEF WaiterIsBlocked, NoStrandedInput, HasInput
<1> QED
  BY <1>2, <1>4, <1>5, <1>6, Next1

-----------------------------------------------------------------------------
\* The line being edited fits into its buffer.
LEMMA EditedFits ==
    ASSUME tty \in TtyType, tty.input_length < Capacity, NEW backspace \in BOOLEAN, NEW n \in Nat
    PROVE  Edited(backspace, n) \in Nat /\ Edited(backspace, n) < Capacity
<1>1. tty.input_length \in Nat
  BY DEF TtyType
<1> QED
  BY <1>1, TtyAssumption DEF Edited

\* Keys in raw mode and in cooked mode.
LEMMA KeyStep ==
    ASSUME IInv, NEW n \in Nat, NEW backspace \in BOOLEAN,
           DeliverRaw(n) \/ EditLine(backspace, n) \/ Enter(backspace, n)
    PROVE  IInv'
<1> DEFINE b == IF backspace THEN 1 ELSE 0
<1>1. /\ Sound(tty, got, lines, keys) /\ tty \in TtyType /\ keys \in Nat /\ lines \in Nat
      /\ keys \in 0 .. MaxKeys /\ lines \in 0 .. keys /\ ProcsType /\ MaxKeys \in Nat
      /\ tty.input_length < Capacity /\ tty.cooked_length < Capacity
  BY TtyAssumption DEF IInv, Sound, Fits
<1>2. Edited(backspace, n) \in Nat /\ Edited(backspace, n) < Capacity /\ b \in {0, 1}
  BY <1>1, EditedFits
<1>3. CASE DeliverRaw(n)
  <2> DEFINE U == tty_queue_raw_input(tty, [i \in 1 .. n |-> <<0, keys + i>>])
  <2>1. /\ keys' = keys + n /\ keys + n <= MaxKeys /\ wake_tty_reader(U)
        /\ UNCHANGED <<parent, wait, shell_pid, lines>>
    BY <1>3 DEF DeliverRaw
  <2>2. Sound(U, got, lines, keys + n)
    BY Zenon, <1>1, QueueSound
  <2> HIDE DEF U
  <2>3. /\ Sound(tty', got', lines, keys + n) /\ tty'.waiter_pid = NoPid
        /\ state' \in [Pids -> States] /\ want' \in [Pids -> Counts \cup {0}]
    BY <1>1, <2>1, <2>2, WakeSound
  <2>4. ProcsType' /\ keys' \in 0 .. MaxKeys /\ lines' \in 0 .. keys'
    BY <1>1, <2>1, <2>3 DEF ProcsType
  <2> QED
    BY <2>1, <2>3, <2>4, Next1
<1>4. CASE EditLine(backspace, n)
  <2>1. /\ tty' = [tty EXCEPT !.input_length = Edited(backspace, n)]
        /\ UNCHANGED <<procs, shell_pid, lines, got>>
        /\ keys' = keys + n + b /\ keys + n + b <= MaxKeys
    BY <1>4 DEF EditLine
  <2>2. /\ tty' \in TtyType /\ tty'.input_length = Edited(backspace, n)
        /\ tty'.cooked_length = tty.cooked_length /\ tty'.line_ready = tty.line_ready
        /\ tty'.raw_input = tty.raw_input /\ tty'.waiter_pid = tty.waiter_pid
    BY SMTT(60), <1>1, <1>2, <2>1 DEF TtyType
  <2>3. keys' \in 0 .. MaxKeys /\ lines' \in 0 .. keys' /\ keys' \in Nat /\ keys <= keys'
    BY <1>1, <1>2, <2>1
  <2>4. Sound(tty', got, lines, keys')
    BY <1>1, <1>2, <2>2, <2>3, Alike
  <2>5. ProcsType' /\ WaiterIsBlocked' /\ NoStrandedInput'
    BY <1>1, <2>1, <2>2 DEF IInv, ProcsType, procs, WaiterIsBlocked, NoStrandedInput, HasInput
  <2> QED
    BY <2>1, <2>3, <2>4, <2>5, Next1
<1>5. CASE Enter(backspace, n)
  <2> DEFINE U == [tty EXCEPT !.cooked_length = Edited(backspace, n),
                              !.line_ready = lines + 1, !.input_length = 0]
  <2>1. /\ keys' = keys + n + 1 + b /\ keys + n + 1 + b <= MaxKeys /\ lines' = lines + 1
        /\ wake_tty_reader(U) /\ UNCHANGED <<parent, wait, shell_pid>>
    BY <1>5 DEF Enter
  <2>2. /\ keys' \in 0 .. MaxKeys /\ lines' \in 0 .. keys' /\ lines + 1 <= MaxKeys
        /\ keys' \in Nat /\ lines + 1 \in Nat /\ keys <= keys'
    BY <1>1, <1>2, <2>1
  <2>3. Sound(U, got, lines + 1, keys')
    BY Zenon, <1>1, <1>2, <2>2, EnterSound
  <2> HIDE DEF U
  <2>4. /\ Sound(tty', got', lines + 1, keys') /\ tty'.waiter_pid = NoPid
        /\ state' \in [Pids -> States] /\ want' \in [Pids -> Counts \cup {0}]
    BY <1>1, <2>1, <2>2, <2>3, WakeSound
  <2>5. ProcsType'
    BY <1>1, <2>1, <2>4 DEF ProcsType
  <2> QED
    BY <2>1, <2>2, <2>4, <2>5, Next1
<1> QED
  BY <1>3, <1>4, <1>5

\* The terminal application starts, restarts and drops its shell.
LEMMA SessionStep ==
    ASSUME IInv, restart_shell \/ window_closed \/ activate
    PROVE  IInv'
<1>1. /\ Sound(tty, got, lines, keys) /\ keys \in Nat /\ lines \in Nat
      /\ keys \in 0 .. MaxKeys /\ lines \in 0 .. keys /\ ProcsType
  BY TtyAssumption DEF IInv
<1>2. tty' = Fresh(FALSE) /\ UNCHANGED <<parent, keys, lines, got>>
  BY Zenon DEF restart_shell, window_closed, activate, procs
<1>3. Sound(tty', got, lines, keys) /\ tty'.waiter_pid = NoPid
  <2>1. Sound(Fresh(FALSE), got, lines, keys)
    BY Zenon, <1>1, FreshSound
  <2> QED
    BY <1>2, <2>1 DEF Fresh
<1>4. ASSUME NEW st \in [Pids -> States], spawn_shell(st)
      PROVE  state' \in [Pids -> States] /\ shell_pid' \in Pids \cup {NoPid}
  BY <1>4 DEF spawn_shell, States
<1>5. CASE restart_shell
  <2>1. [state EXCEPT ![shell_pid] = "EXITED"] \in [Pids -> States]
    BY Zenon, <1>1 DEF ProcsType, States
  <2>2. state' \in [Pids -> States] /\ shell_pid' \in Pids \cup {NoPid}
    BY Zenon, <1>4, <1>5, <2>1 DEF restart_shell
  <2>3. wait' \in [Pids -> Pids \cup {NoPid}] /\ want' \in [Pids -> Counts \cup {0}]
    BY <1>1, <1>5 DEF ProcsType, restart_shell
  <2>4. ProcsType'
    BY <1>1, <1>2, <2>2, <2>3 DEF ProcsType
  <2> QED
    BY Zenon, <1>1, <1>2, <1>3, <2>4, Next1
<1>6. CASE window_closed
  <2>1. ProcsType'
    BY <1>1, <1>6 DEF ProcsType, window_closed, procs
  <2> QED
    BY Zenon, <1>1, <1>2, <1>3, <2>1, Next1
<1>7. CASE activate
  <2>1. state' \in [Pids -> States] /\ shell_pid' \in Pids \cup {NoPid}
    BY <1>1, <1>4, <1>7 DEF activate, ProcsType
  <2>2. ProcsType'
    BY <1>1, <1>2, <1>7, <2>1 DEF ProcsType, activate
  <2> QED
    BY Zenon, <1>1, <1>2, <1>3, <2>2, Next1
<1> QED
  BY <1>5, <1>6, <1>7

\* Every step preserves the invariant.
LEMMA StepIInv == IInv /\ [Next]_vars => IInv'
<1> SUFFICES ASSUME IInv, [Next]_vars PROVE IInv'
  OBVIOUS
<1>1. ASSUME NEW p \in Pids, End(p) PROVE IInv'
  <2>1. {p} \in SUBSET (Pids \cup {NoPid}) /\ keys' = keys /\ keys \in 0 .. MaxKeys
    BY <1>1 DEF End, IInv
  <2>2. keys <= keys'
    BY <2>1, TtyAssumption
  <2> QED
    BY <1>1, <2>1, <2>2, DieStep DEF End
<1>2. CASE interrupt_terminal
  <2>1. Foreground \subseteq Pids \cup {NoPid}
    BY DEF IInv, ProcsType, Foreground
  <2>2. keys' \in 0 .. MaxKeys /\ keys <= keys'
    BY <1>2, TtyAssumption DEF interrupt_terminal, IInv
  <2>3. PICK dead \in SUBSET Foreground : Die(tty, dead)
    BY <1>2 DEF interrupt_terminal
  <2> QED
    BY <1>2, <2>1, <2>2, <2>3, DieStep DEF interrupt_terminal
<1>3. CASE \E p \in Pids : SystemCall(p)
  BY <1>1, <1>3, CallStep DEF SystemCall
<1>4. CASE tty_handle_keyboard
  <2>1. \A n \in 0 .. MaxKeys : n \in Nat
    BY TtyAssumption
  <2>2. \A n \in 1 .. MaxKeys : n \in Nat
    BY TtyAssumption
  <2> QED
    BY Zenon, <1>2, <1>4, <2>1, <2>2, KeyStep DEF tty_handle_keyboard
<1>5. CASE tty_handle_serial_input
  BY Zenon, <1>2, <1>5, KeyStep DEF tty_handle_serial_input
<1>6. CASE UNCHANGED vars
  BY <1>6 DEF vars, IInv, ProcsType, WaiterIsBlocked, NoStrandedInput, HasInput
<1> QED
  BY <1>3, <1>4, <1>5, <1>6, SessionStep DEF Next

LEMMA InitIInv == Init => IInv
<1> SUFFICES ASSUME Init PROVE IInv
  OBVIOUS
<1>1. /\ tty = Fresh(FALSE) /\ keys = 0 /\ lines = 0 /\ got = <<>>
      /\ state \in [Pids -> States] /\ parent = [p \in Pids |-> NoPid]
      /\ wait = [p \in Pids |-> NoPid] /\ want = [p \in Pids |-> 0] /\ shell_pid \in Pids
  BY DEF Init, States
<1>2. ProcsType
  BY <1>1 DEF ProcsType
<1>3. /\ tty.raw_input = <<>> /\ tty.line_ready = 0 /\ tty.input_length = 0
      /\ tty.cooked_length = 0 /\ tty.waiter_pid = NoPid
  BY <1>1 DEF Fresh
<1>4. /\ <<>> \in Seq(Bytes) /\ Len(<<>>) = 0 /\ <<>> \o <<>> = <<>>
      /\ 0 \in 0 .. MaxKeys /\ 0 < Capacity
  BY EmptySeq, ConcatEmptySeq, TtyAssumption
<1>5. tty \in TtyType
  BY <1>1, <1>4 DEF TtyType, Fresh
<1>6. Fits(tty)
  BY <1>3, <1>4 DEF Fits
<1>7. Whole(<<>>) /\ Ordered(<<>>) /\ Typed(<<>>, 0, 0, 0)
  BY <1>4 DEF Whole, Ordered, Typed
<1>8. StreamOK(tty, got, lines, keys)
  <2>1. got \o tty.raw_input = <<>>
    BY <1>1, <1>3, <1>4, Zenon
  <2>2. tty.line_ready <= lines
    <3>1. tty.line_ready = 0 /\ lines = 0
      BY <1>1, <1>3, Zenon
    <3> QED
      BY <3>1
  <2>3. Typed(<<>>, tty.line_ready, lines, keys)
    BY <1>1, <1>3, <1>7, Zenon
  <2> QED
    BY <1>7, <2>1, <2>2, <2>3, Zenon DEF StreamOK
<1>9. Sound(tty, got, lines, keys)
  BY Zenon, <1>1, <1>4, <1>5, <1>6, <1>8 DEF Sound
<1>10. keys \in 0 .. MaxKeys /\ lines \in 0 .. keys
  BY <1>1, <1>4
<1> QED
  BY <1>2, <1>3, <1>9, <1>10, Zenon DEF IInv, WaiterIsBlocked, NoStrandedInput

THEOREM Inductive == Spec => []IInv
  BY InitIInv, StepIInv, PTL DEF Spec

-----------------------------------------------------------------------------
\* process_wake_tty_reader and process_clear_pending_tty_wait: whatever ends,
\* interrupts or wakes processes, waiter_pid names a process that is blocked in
\* its read, or nobody.
THEOREM WaiterStaysBlocked == Spec => []WaiterIsBlocked
<1>1. IInv => WaiterIsBlocked
  BY DEF IInv
<1> QED
  BY <1>1, Inductive, PTL

\* process_try_blocking_tty_read: no process sleeps on a terminal that has
\* something to read, however keys, reads and deaths interleave.
THEOREM NoLostWakeup == Spec => []NoStrandedInput
<1>1. IInv => NoStrandedInput
  BY DEF IInv
<1> QED
  BY <1>1, Inductive, PTL

\* tty_fd_read: for any sizes of reads and any buffer capacity no buffer
\* overflows, and the bytes of every line come out once, in order and in one
\* piece.
THEOREM LinesDelivered == Spec => []LinesExact
<1>1. ASSUME IInv PROVE LinesExact
  <2>1. /\ tty \in TtyType /\ got \in Seq(Bytes) /\ tty.raw_input \in Seq(Bytes) /\ Fits(tty)
        /\ Whole(got \o tty.raw_input) /\ Ordered(got \o tty.raw_input)
    BY <1>1 DEF IInv, Sound, StreamOK, TtyType
  <2>2. Whole(got) /\ Ordered(got)
    BY <2>1, Prefix
  <2>3. LinesWhole
    BY <2>2 DEF Whole, LinesWhole
  <2>4. DeliveredInOrder
    BY SMTT(60), <2>2 DEF Ordered, Before, DeliveredInOrder
  <2>5. TypeOK
    BY <1>1, <2>1 DEF IInv, TypeOK, TtyType, ProcsType
  <2>6. BuffersFit
    BY <2>1 DEF Fits, BuffersFit
  <2> QED
    BY <2>3, <2>4, <2>5, <2>6 DEF LinesExact
<1> QED
  BY <1>1, Inductive, PTL
=============================================================================
