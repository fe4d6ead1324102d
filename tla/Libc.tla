-------------------------------- MODULE Libc --------------------------------
(***************************************************************************)
(* The user C library: buffered FILE streams over kernel descriptors, the  *)
(* number formatter and scanner (libc/stdio.c), and from libc/stdlib.c the *)
(* atexit handlers, the environment and qsort.                             *)
(*                                                                         *)
(* Four machines that share nothing, each with an Init and a Next of its   *)
(* own: Stream, Exit, Env, and Pure, whose initial states are the inputs   *)
(* of the formatter and of qsort.                                          *)
(***************************************************************************)
EXTENDS Integers, Sequences, FiniteSets, FiniteSetsExt, SequencesExt, TLC

CONSTANTS
    Modes,      \* how a program opens the file: "r", "w", "a", "r+", "w+", "a+", "re-w"
    BufCap,     \* BUFSIZ
    MaxLen,     \* bound on the length of the file
    MaxOps,     \* bound on the calls on one stream
    DiskFills,  \* a write may fail after a part of it
    Handlers,   \* functions given to atexit
    Registrar,  \* those that call atexit when they run
    AtExitMax,  \* ATEXIT_MAX
    Names, Values,
    Numbers, Widths, Precs, Arrays

VARIABLES
    s,          \* the stream: the file behind it, the descriptor, the FILE
    how,        \* the mode it was opened with, "" when closed
    ideal, at,  \* what ISO C says the file holds and where the stream is
    fresh,      \* the next byte written is numbered fresh; also counts calls
    got,        \* the last fread: what it returned and what it had to
    exits,      \* the atexit table and the exit() that walks it
    env, meant, \* environ, and what each name was last set to ("" if unset)
    input       \* the case Pure looks at

svars == <<s, how, ideal, at, fresh, got>>
evars == <<exits>>
nvars == <<env, meant>>
pvars == <<input>>

(***************************************************************************)
(* Streams.                                                                *)
(***************************************************************************)
closed == [file |-> <<>>, off |-> 0, cap |-> BufCap, mode |-> "IDLE",
           buf |-> <<>>, pos |-> 0, err |-> FALSE, eof |-> FALSE]

StreamInit ==
    /\ s = closed
    /\ how = ""
    /\ ideal = <<>> /\ at = 0 /\ fresh = 1
    /\ got = [is |-> <<>>, due |-> <<>>]

(* The kernel's write at an offset, and write_all_fd up to a failure *)
pad(c, n) == [i \in 1..n |-> c]
writeAt(f, o, b) ==
    LET g == f \o pad(0, o - Len(f))
    IN  SubSeq(g, 1, o) \o b \o SubSeq(g, o + Len(b) + 1, Len(g))

put(st, b) ==
    {[st EXCEPT !.file = writeAt(@, st.off, SubSeq(b, 1, k)),
                !.off = @ + k, !.err = @ \/ k < Len(b)] :
        k \in IF DiskFills THEN 0..Len(b) ELSE {Len(b)}}

(* stdio.c: flush_write; pending bytes are dropped even when a write fails *)
flush_write(st) ==
    IF st.mode # "WRITE" \/ st.buf = <<>>
    THEN {st}
    ELSE put([st EXCEPT !.buf = <<>>], st.buf)

(* stdio.c: discard_read moves the descriptor back over unread bytes *)
discard_readStays(st) == [st EXCEPT !.buf = <<>>, !.pos = 0]
discard_read(st) ==
    [st EXCEPT !.off = IF st.mode = "READ" THEN @ - (Len(st.buf) - st.pos) ELSE @,
               !.buf = <<>>, !.pos = 0]

settled(st) == {[discard_read(f) EXCEPT !.mode = "IDLE"] : f \in flush_write(st)}

(* stdio.c: fread's loop, a byte at a time: buffer, refill, end of file *)
RECURSIVE take(_, _, _)
take(st, n, out) ==
    IF n = 0
    THEN [st |-> st, out |-> out]
    ELSE IF st.pos < Len(st.buf)
         THEN take([st EXCEPT !.pos = @ + 1], n - 1, Append(out, st.buf[st.pos + 1]))
         ELSE LET want == IF st.cap = 0 THEN n ELSE st.cap
                  chunk == SubSeq(st.file, st.off + 1, Min({st.off + want, Len(st.file)}))
                  read == [st EXCEPT !.off = @ + Len(chunk)]
              IN  IF chunk = <<>>
                  THEN [st |-> [st EXCEPT !.eof = TRUE], out |-> out]
                  ELSE IF st.cap = 0
                       THEN take(read, n - Len(chunk), out \o chunk)
                       ELSE take([read EXCEPT !.buf = chunk, !.pos = 0], n, out)

(* stdio.c: fwrite's loop: fill the buffer, flush it when it is full *)
RECURSIVE fill(_, _)
fill(st, b) ==
    IF b = <<>>
    THEN {st}
    ELSE IF Len(st.buf) = st.cap
         THEN UNION {IF f.err THEN {f} ELSE fill(f, b) : f \in flush_write(st)}
         ELSE fill([st EXCEPT !.buf = Append(@, b[1])], SubSeq(b, 2, Len(b)))

readable == how \in {"r", "r+", "w+", "a+"}
writable == how \notin {"", "r"}
calls == how # "" /\ fresh <= MaxOps
tick == fresh' = fresh + 1

(* stdio.c: fopen, with SYS_OPEN, SYS_CREAT and unlink *)
fopen(m) ==
    /\ m # "re-w"
    /\ how = "" /\ fresh <= MaxOps
    /\ how' = m
    /\ \E cap \in {0, BufCap} :
          s' = [closed EXCEPT !.cap = cap,
                    !.file = IF m \in {"w", "w+"} THEN <<>> ELSE s.file,
                    !.off = IF m \in {"a", "a+"} THEN Len(s.file) ELSE 0]
    /\ ideal' = IF m \in {"w", "w+"} THEN <<>> ELSE s.file
    /\ at' = IF m \in {"a", "a+"} THEN Len(s.file) ELSE 0
    /\ got' = [is |-> <<>>, due |-> <<>>]
    /\ tick

(* stdio.c: freopen for writing opens what is there and moves to its start *)
freopen ==
    /\ calls /\ "re-w" \in Modes
    /\ \E st \in flush_write(s) : s' = [closed EXCEPT !.file = st.file]
    /\ how' = "re-w"
    /\ ideal' = <<>> /\ at' = 0
    /\ got' = [is |-> <<>>, due |-> <<>>]
    /\ tick

fread(n) ==
    /\ calls /\ readable /\ ~s.err
    /\ \E f \in flush_write(s) :
          LET r == take([f EXCEPT !.mode = "READ"], n, <<>>)
          IN  /\ s' = r.st
              /\ got' = [is |-> r.out, due |-> SubSeq(ideal, at + 1, Min({at + n, Len(ideal)}))]
    /\ at' = Min({at + n, Max({at, Len(ideal)})})
    /\ tick /\ UNCHANGED <<how, ideal>>

idealWrite(b) ==
    LET o == IF how \in {"a", "a+"} THEN Len(ideal) ELSE at
    IN  /\ ideal' = writeAt(ideal, o, b)
        /\ at' = o + Len(b)

fwrite(n) ==
    /\ calls /\ writable
    /\ LET b == [i \in 1..n |-> fresh]
           st == [(IF s.mode = "READ" THEN discard_read(s) ELSE s) EXCEPT !.mode = "WRITE"]
       IN  /\ s' \in IF s.cap = 0 THEN put(st, b) ELSE fill(st, b)
           /\ idealWrite(b)
    /\ Len(ideal') <= MaxLen
    /\ tick /\ UNCHANGED <<how, got>>

(* stdio.c: vfprintf settles the buffer and writes to the descriptor *)
vfprintf ==
    /\ calls /\ writable
    /\ \E st \in settled(s) : s' \in put(st, <<fresh>>)
    /\ idealWrite(<<fresh>>)
    /\ Len(ideal') <= MaxLen
    /\ tick /\ UNCHANGED <<how, got>>

fflush ==
    /\ calls
    /\ s' \in flush_write(s)
    /\ tick /\ UNCHANGED <<how, ideal, at, got>>

base(whence, o, len) == CASE whence = "SET" -> 0 [] whence = "CUR" -> o [] whence = "END" -> len

fseek(whence, d) ==
    /\ calls
    /\ base(whence, at, Len(ideal)) + d <= Len(ideal)
    /\ \E st \in settled(s) :
          s' = [st EXCEPT !.off = Max({0, base(whence, @, Len(st.file)) + d}), !.eof = FALSE]
    /\ at' = Max({0, base(whence, at, Len(ideal)) + d})
    /\ tick /\ UNCHANGED <<how, ideal, got>>

ftell == s.off + CASE s.mode = "READ" -> s.pos - Len(s.buf)
                   [] s.mode = "WRITE" -> Len(s.buf)
                   [] OTHER -> 0

setvbuf(cap) ==
    /\ calls
    /\ \E st \in settled(s) : s' = [st EXCEPT !.cap = cap]
    /\ tick /\ UNCHANGED <<how, ideal, at, got>>

fclose ==
    /\ how # ""
    /\ \E st \in flush_write(s) :
          s' = [closed EXCEPT !.file = st.file, !.err = st.err]
    /\ how' = ""
    /\ at' = 0
    /\ UNCHANGED <<ideal, fresh, got>>

StreamNext ==
    \/ \E m \in Modes : fopen(m)
    \/ freopen
    \/ \E n \in 1..2 : fread(n) \/ fwrite(n)
    \/ vfprintf
    \/ fflush
    \/ \E w \in {"SET", "CUR", "END"}, d \in -1..1 : fseek(w, d)
    \/ \E cap \in {0, BufCap} : setvbuf(cap)
    \/ fclose

(***************************************************************************)
(* atexit and exit.                                                        *)
(***************************************************************************)
ExitInit == exits = [table |-> <<>>, i |-> -1, atExit |-> 0, ran |-> <<>>]

atexit(h) ==
    /\ Len(exits.table) < AtExitMax
    /\ exits' = [exits EXCEPT !.table = Append(@, h)]

AtExit(h) == exits.i = -1 /\ atexit(h)

(* exit reads atexit_count once, then counts down *)
exit ==
    /\ exits.i = -1
    /\ exits' = [exits EXCEPT !.i = Len(exits.table), !.atExit = Len(exits.table)]

RunHandler ==
    /\ exits.i > 0
    /\ LET h == exits.table[exits.i]
       IN  exits' = [exits EXCEPT !.i = @ - 1, !.ran = Append(@, exits.i),
                         !.table = IF h \in Registrar /\ Len(@) < AtExitMax
                                   THEN Append(@, CHOOSE g \in Handlers \ Registrar : TRUE)
                                   ELSE @]

ExitNext == (\E h \in Handlers : AtExit(h)) \/ exit \/ RunHandler

(***************************************************************************)
(* The environment: environ is an array of "NAME=VALUE" strings.           *)
(***************************************************************************)
EnvInit == env = <<>> /\ meant = [n \in Names |-> ""]

matches(n) == {i \in DOMAIN env : env[i].name = n}
getenv(n) == IF matches(n) = {} THEN "" ELSE env[Min(matches(n))].value

setenvAppends(n, v) == Append(env, [name |-> n, value |-> v])
replaced(n, v) ==
    IF matches(n) # {}
    THEN [env EXCEPT ![Min(matches(n))].value = v]
    ELSE Append(env, [name |-> n, value |-> v])

(* setenv and putenv; malloc or realloc may fail and then nothing changes *)
setenv(n, v, overwrite) ==
    /\ overwrite \/ getenv(n) = ""
    /\ env' = replaced(n, v)
    /\ meant' = [meant EXCEPT ![n] = v]

unsetenv(n) ==
    /\ env' = IF matches(n) = {} THEN env ELSE RemoveAt(env, Min(matches(n)))
    /\ meant' = [meant EXCEPT ![n] = ""]

EnvNext ==
    \/ \E n \in Names, v \in Values, o \in BOOLEAN : setenv(n, v, o)
    \/ \E n \in Names : unsetenv(n)

(***************************************************************************)
(* format, sscanf and qsort.                                               *)
(***************************************************************************)
PureInit ==
    input \in [kind : {"d"}, v : Numbers, left : BOOLEAN, zero : BOOLEAN,
               width : Widths, prec : Precs]
              \union [kind : {"f"}, ipart : {n \in Numbers : n >= 0}, frac : {<<5, 0>>}]
              \union [kind : {"sort"}, a : Arrays]

PureNext == UNCHANGED pvars

RECURSIVE utoa(_)
utoa(n) == IF n < 10 THEN <<n>> ELSE <<n % 10>> \o utoa(n \div 10)

(* "%-0W.Pd": prefix, padding, and the digits of num from the last back *)
formatted(c, prefix, num) ==
    LET wide == c.prec > c.width
        width == IF wide THEN c.prec ELSE c.width
        zero == c.zero \/ wide
        n == Max({0, width - Len(prefix) - Len(num)})
    IN  (IF ~c.left /\ ~zero THEN pad(" ", n) ELSE <<>>) \o prefix
        \o (IF ~c.left /\ zero THEN pad("0", n) ELSE <<>>) \o Reverse(num)
        \o (IF c.left THEN pad(" ", n) ELSE <<>>)

format_d(c) ==
    formatted(c, IF c.v < 0 THEN <<"-">> ELSE <<>>,
              [i \in DOMAIN utoa(IF c.v < 0 THEN -c.v ELSE c.v) |->
                  ToString(utoa(IF c.v < 0 THEN -c.v ELSE c.v)[i])])

(* "%f": num is filled from its high end down, with the last digit of the *)
(* integer part first, then the point, then the fraction; it is printed   *)
(* from its high end down                                                 *)
format_f(c) == utoa(c.ipart) \o <<".">> \o c.frac

(* sscanf "%d" *)
digits == {ToString(i) : i \in 0..9}
RECURSIVE scan(_, _)
scan(str, v) ==
    IF str = <<>> \/ Head(str) \notin digits
    THEN v
    ELSE scan(Tail(str), v * 10 + CHOOSE i \in 0..9 : ToString(i) = Head(str))
RECURSIVE sscanf_d(_)
sscanf_d(str) ==
    CASE str = <<>> -> 0
      [] str # <<>> /\ Head(str) = " " -> sscanf_d(Tail(str))
      [] str # <<>> /\ Head(str) = "-" -> -scan(Tail(str), 0)
      [] OTHER -> scan(str, 0)

swap(a, i, j) == [a EXCEPT ![i] = a[j], ![j] = a[i]]

(* qs_partition: the pivot is the first element, i the end of the smaller *)
RECURSIVE partitionShort(_, _, _, _, _)
partitionShort(a, lo, hi, i, j) ==
    IF j >= hi THEN [a |-> swap(a, lo, i - 1), p |-> i - 1]
    ELSE IF a[j] < a[lo] THEN partitionShort(swap(a, i, j), lo, hi, i + 1, j + 1)
         ELSE partitionShort(a, lo, hi, i, j + 1)
RECURSIVE scanned(_, _, _, _, _)
scanned(a, lo, hi, i, j) ==
    IF j > hi THEN [a |-> swap(a, lo, i - 1), p |-> i - 1]
    ELSE IF a[j] < a[lo] THEN scanned(swap(a, i, j), lo, hi, i + 1, j + 1)
         ELSE scanned(a, lo, hi, i, j + 1)
qs_partitionShort(a, lo, hi) == partitionShort(a, lo, hi, lo + 1, lo + 1)
qs_partition(a, lo, hi) == scanned(a, lo, hi, lo + 1, lo + 1)

RECURSIVE qs_rec(_, _, _)
qs_rec(a, lo, hi) ==
    IF lo >= hi THEN a
    ELSE LET r == qs_partition(a, lo, hi)
         IN  qs_rec(qs_rec(r.a, lo, r.p - 1), r.p + 1, hi)
qsort(a) == qs_rec(a, 1, Len(a))

-----------------------------------------------------------------------------

TypeOK ==
    /\ s.mode \in {"IDLE", "READ", "WRITE"}
    /\ Len(s.buf) <= BufCap /\ s.pos <= Len(s.buf)

exact ==
    /\ (IF s.mode = "WRITE" THEN writeAt(s.file, s.off, s.buf) ELSE s.file) = ideal
    /\ how # "" => ftell = at
    /\ got.is = got.due

(* Whatever the mix of reads, writes, seeks, fprintf, flushes and changes  *)
(* of buffering, the file under its buffer is what unbuffered calls would  *)
(* have made it, ftell is where they would be, and fread returned what     *)
(* they would have read (stdio.c: "the direction is switched transparently *)
(* when a + stream alternates").                                           *)
StreamExact == s.err \/ how \notin {"r", "w", "r+", "w+"} \/ exact

(* exit runs the handlers registered before it, each once, last first, and *)
(* the table never outgrows ATEXIT_MAX, although a handler may register.   *)
HandlersInReverse ==
    Len(exits.table) <= AtExitMax /\ exits.ran = [i \in DOMAIN exits.ran |-> exits.atExit + 1 - i]

(* getenv finds what a name was last set to, and no name appears twice *)
EnvExact ==
    /\ \A n \in Names : getenv(n) = meant[n]
    /\ \A i, j \in DOMAIN env : env[i].name = env[j].name => i = j

(* What "%d" prints, in any width, precision and alignment, "%d" reads     *)
(* back, and it fills the field; qsort returns its input sorted; "%f" puts *)
(* the fraction behind the point and every digit before it, but those last *)
(* digit first (format_d, format_f, sscanf, qsort in libc).                *)
PureExact ==
    /\ input.kind = "d" =>
          /\ sscanf_d(format_d(input)) = input.v
          /\ Len(format_d(input)) >= input.width
    /\ input.kind = "f" /\ utoa(input.ipart) = Reverse(utoa(input.ipart)) =>
          format_f(input) = Reverse(utoa(input.ipart)) \o <<".">> \o input.frac
    /\ input.kind = "sort" =>
          /\ \A i, j \in DOMAIN qsort(input.a) : i < j => qsort(input.a)[i] <= qsort(input.a)[j]
          /\ \A v \in Range(input.a) \union Range(qsort(input.a)) :
                Cardinality({i \in DOMAIN input.a : input.a[i] = v})
                = Cardinality({i \in DOMAIN qsort(input.a) : qsort(input.a)[i] = v})
=============================================================================
