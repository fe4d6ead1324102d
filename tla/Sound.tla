------------------------------- MODULE Sound --------------------------------
(***************************************************************************)
(* Sound output: the mixer's voices against the timer interrupt, the DMA   *)
(* ring of the AC97 controller, and the voices of the arm64 driver.        *)
(***************************************************************************)
EXTENDS Integers, Sequences, FiniteSetsExt

(***************************************************************************)
(* The voices of the sound mixer (kernel/src/audio.c).  Each process that  *)
(* plays sound has a ring.  audio_write and audio_release_voice run under  *)
(* the big kernel lock; audio_tick runs from the timer interrupt before    *)
(* the lock is taken, so it may fall between any two stores of theirs.     *)
(* The kernel context and the tick are therefore modelled store by store.  *)
(* A sample is the pid that wrote it and its number.                       *)
(***************************************************************************)
CONSTANTS Voices,      \* slots, 1..n
          Pids,
          RingSize,
          MaxSamples   \* bound on the samples of a process

VARIABLES voice,   \* g_voices: pid, ring, head, tail, pre_roll_active
          kern,    \* the context under the lock
          tick,    \* audio_tick
          sent,    \* samples each process has written
          gone,    \* reaped processes
          heard,   \* samples of each process that reached the mix
          torn     \* a voice was released while the tick was using it

voicevars == <<voice, kern, tick, sent, gone, heard, torn>>

Idle == [at |-> "idle"]
Cells == 0..RingSize-1

available(v) == (v.head - v.tail) % RingSize
free(v) == RingSize - 1 - available(v)

VoiceInit ==
    /\ voice = [s \in Voices |-> [pid |-> 0, ring |-> [c \in Cells |-> <<0, 0>>],
                                  head |-> 0, tail |-> 0, pre_roll_active |-> FALSE]]
    /\ kern = Idle /\ tick = Idle
    /\ sent = [p \in Pids |-> 0] /\ gone = {}
    /\ heard = [p \in Pids |-> <<>>] /\ torn = FALSE

-----------------------------------------------------------------------------
(* Under the lock.                                                         *)

\* voice_for_pid: the pointers before the pid.
claimed(s, p) ==
    [voice EXCEPT ![s].pid = p, ![s].head = 0, ![s].tail = 0, ![s].pre_roll_active = TRUE]

mine(p) == {s \in Voices : voice[s].pid = p}

\* The slot of the process, or the first free one.
voice_for_pid(p) ==
    /\ kern = Idle /\ p \notin gone /\ sent[p] < MaxSamples
    /\ mine(p) = {}
    /\ \E s \in mine(0) :
         /\ \A r \in mine(0) : s <= r
         /\ voice' = claimed(s, p)
         /\ kern' = [at |-> "copy", pid |-> p, slot |-> s]
    /\ UNCHANGED <<tick, sent, gone, heard, torn>>

\* audio_write in a voice of its own: what fits is accepted.
audio_write(p) ==
    /\ kern = Idle /\ p \notin gone /\ sent[p] < MaxSamples
    /\ \E s \in mine(p) : kern' = [at |-> "copy", pid |-> p, slot |-> s]
    /\ UNCHANGED <<voice, tick, sent, gone, heard, torn>>

\* Fault variant: the head moves before the bytes are there.
storesHeadFirst(v, x, step) ==
    IF step = 1 THEN [v EXCEPT !.head = (@ + 1) % RingSize]
    ELSE [v EXCEPT !.ring[(v.head - 1) % RingSize] = x]

\* voice_write: the bytes, then the head.
stores(v, x, step) ==
    IF step = 1 THEN [v EXCEPT !.ring[v.head] = x]
    ELSE [v EXCEPT !.head = (@ + 1) % RingSize]

Copy ==
    /\ kern.at = "copy"
    /\ \E v \in {voice[kern.slot]}, n \in {sent[kern.pid] + 1} :
         IF free(v) = 0
         THEN kern' = Idle /\ UNCHANGED <<voice, sent>>
         ELSE /\ voice' = [voice EXCEPT ![kern.slot] = stores(v, <<kern.pid, n>>, 1)]
              /\ sent' = [sent EXCEPT ![kern.pid] = n]
              /\ kern' = [kern EXCEPT !.at = "head"]
    /\ UNCHANGED <<tick, gone, heard, torn>>

Publish ==
    /\ kern.at = "head"
    /\ voice' = [voice EXCEPT ![kern.slot] = stores(@, <<kern.pid, sent[kern.pid]>>, 2)]
    /\ kern' = Idle
    /\ UNCHANGED <<tick, sent, gone, heard, torn>>

\* process_reap, audio_release_voice: the pid, the head, then the rest.
audio_release_voice(p) ==
    /\ kern = Idle /\ p \notin gone
    /\ gone' = gone \cup {p}
    /\ \/ /\ mine(p) = {} /\ UNCHANGED <<voice, kern, torn>>
       \/ \E s \in mine(p) :
            /\ voice' = [voice EXCEPT ![s].pid = 0]
            /\ kern' = [at |-> "relHead", slot |-> s]
            /\ torn' = (torn \/ (tick # Idle /\ tick.slot = s))
    /\ UNCHANGED <<tick, sent, heard>>

ReleaseHead ==
    /\ kern.at = "relHead"
    /\ voice' = [voice EXCEPT ![kern.slot].head = 0]
    /\ kern' = [kern EXCEPT !.at = "relTail"]
    /\ UNCHANGED <<tick, sent, gone, heard, torn>>

ReleaseTail ==
    /\ kern.at = "relTail"
    /\ voice' = [voice EXCEPT ![kern.slot].tail = 0, ![kern.slot].pre_roll_active = FALSE]
    /\ kern' = Idle
    /\ UNCHANGED <<tick, sent, gone, heard, torn>>

-----------------------------------------------------------------------------
(* audio_tick, mix_voices: one voice.                                      *)

\* A dry voice starts its pre-roll again; one that is filling up is passed
\* over until there is enough or the writer has been away long enough.
Check(s) ==
    /\ tick = Idle /\ voice[s].pid # 0
    /\ IF available(voice[s]) = 0
       THEN voice' = [voice EXCEPT ![s].pre_roll_active = TRUE] /\ UNCHANGED tick
       ELSE /\ voice' = [voice EXCEPT ![s].pre_roll_active = FALSE]
            /\ tick' = [at |-> "read", slot |-> s, n |-> available(voice[s])]
    /\ UNCHANGED <<kern, sent, gone, heard, torn>>

\* voice_read computes what is available again, copies ...
Read ==
    /\ tick.at = "read"
    /\ \E v \in {voice[tick.slot]} : \E n \in {IF tick.n < available(v) THEN tick.n ELSE available(v)} :
         /\ heard' = [p \in Pids |-> heard[p] \o
                        SelectSeq([i \in 1..n |-> v.ring[(v.tail + i - 1) % RingSize]],
                                  LAMBDA x : x[1] = p)]
         /\ tick' = IF n = 0 THEN Idle
                    ELSE [at |-> "tail", slot |-> tick.slot, tail |-> (v.tail + n) % RingSize]
    /\ UNCHANGED <<voice, kern, sent, gone, torn>>

\* ... and stores the tail it computed.
StoreTail ==
    /\ tick.at = "tail"
    /\ voice' = [voice EXCEPT ![tick.slot].tail = tick.tail]
    /\ tick' = Idle
    /\ UNCHANGED <<kern, sent, gone, heard, torn>>

VoiceNext ==
    \/ \E p \in Pids : voice_for_pid(p) \/ audio_write(p) \/ audio_release_voice(p)
    \/ Copy \/ Publish \/ ReleaseHead \/ ReleaseTail
    \/ \E s \in Voices : Check(s)
    \/ Read \/ StoreTail

\* At most this much is heard; more means that a ring goes round and round.
Bounded == \A p \in Pids : Len(heard[p]) <= MaxSamples + 1

-----------------------------------------------------------------------------
\* State is well typed.
VoiceTypeOK ==
    /\ \A s \in Voices : voice[s].head \in Cells /\ voice[s].tail \in Cells
                         /\ voice[s].pid \in Pids \cup {0}
    /\ gone \subseteq Pids /\ torn \in BOOLEAN

\* Of every process the samples it wrote are heard, each once and in order,
\* although audio_tick takes no lock; unless a voice is released while the tick
\* is reading it: there the tick works with a head and a tail that do not
\* belong together.
HeardInOrder ==
    ~torn => \A p \in Pids : \A i \in DOMAIN heard[p] : heard[p][i] = <<p, i>>

\* A voice never belongs to two, and no process holds two voices.
OneVoiceEach == \A s, r \in Voices : voice[s].pid = voice[r].pid /\ voice[s].pid # 0 => s = r

-----------------------------------------------------------------------------
(***************************************************************************)
(* The DMA ring of the AC97 controller (kernel/src/audio.c): audio_tick    *)
(* mixes periods into the buffers ahead of the one being played, moves the *)
(* last valid index and restarts the engine when it has run dry;           *)
(* audio_reinit starts again at buffer 0 when rate or volume change.       *)
(* Periods are numbered as they are mixed; 0 is the silence at the start.  *)
(***************************************************************************)
CONSTANTS BdCount,       \* AC97_BD_COUNT
          MaxPeriods

VARIABLES pcm,      \* g_pcm_bufs
          head,     \* g_head_bd
          civ, lvi, \* registers: the buffer playing, the last valid one
          halted,   \* SR.DCH
          mixed,    \* periods mixed
          periods,   \* the periods the engine has played to the end
          reset     \* audio_reinit was called

dmavars == <<pcm, head, civ, lvi, halted, mixed, periods, reset>>

\* audio_init: the engine runs on buffer 0, which holds silence.
DmaInit ==
    /\ pcm = [b \in 0..BdCount-1 |-> 0]
    /\ head = 0 /\ civ = 0 /\ lvi = 0 /\ halted = FALSE
    /\ mixed = 0 /\ periods = <<>> /\ reset = FALSE

\* Fault variant: the ring is filled up to the buffer that is playing.
roomFull(queued) == BdCount - queued

\* The loop fills while queued < AC97_BD_COUNT - 1.
room(queued) == BdCount - 1 - queued

\* audio_tick: CIV and SR are read at the start.
audio_tick ==
    \E n \in {room((head - civ) % BdCount)} :
        /\ mixed + n <= MaxPeriods
        /\ pcm' = [b \in 0..BdCount-1 |->
                     IF (b - head) % BdCount < n THEN mixed + 1 + ((b - head) % BdCount) ELSE pcm[b]]
        /\ head' = (head + n) % BdCount
        /\ mixed' = mixed + n
        /\ lvi' = IF n > 0 THEN (head' - 1) % BdCount ELSE lvi
        /\ IF n > 0 /\ halted
           THEN civ' = (civ + 1) % BdCount /\ halted' = FALSE
           ELSE UNCHANGED <<civ, halted>>
        /\ UNCHANGED <<periods, reset>>

\* audio_reinit, from audio_ioctl: the engine is stopped and started, which
\* leaves its place in the ring.
audio_reinit ==
    /\ ~reset
    /\ head' = 0 /\ lvi' = 0 /\ reset' = TRUE
    /\ halted' = FALSE /\ civ' = (civ + 1) % BdCount
    /\ UNCHANGED <<pcm, mixed, periods>>

\* The engine finishes a buffer; after the last valid one it stops.
Played ==
    /\ ~halted
    /\ periods' = Append(periods, pcm[civ])
    /\ IF civ = lvi THEN halted' = TRUE /\ UNCHANGED civ
       ELSE civ' = (civ + 1) % BdCount /\ UNCHANGED halted
    /\ Len(periods) < MaxPeriods
    /\ UNCHANGED <<pcm, head, lvi, mixed, reset>>

DmaNext == audio_tick \/ audio_reinit \/ Played

-----------------------------------------------------------------------------
\* State is well typed.
DmaTypeOK ==
    /\ {head, civ, lvi} \subseteq 0..BdCount-1 /\ mixed \in 0..MaxPeriods
    /\ {halted, reset} \subseteq BOOLEAN

\* The engine plays the periods in the order they were mixed and none twice,
\* however far it has got when the tick looks; a period is lost only with
\* buffer 0, which the engine has left before the first tick.  Unless rate or
\* volume have changed: audio_reinit counts from buffer 0 where the engine
\* does not stand.
PeriodsInOrder ==
    ~reset => \A i \in 1..Len(periods)-1 :
                 \/ periods[i+1] = periods[i] + 1
                 \/ i = 1 /\ periods[i] = 0 /\ periods[i+1] = 2

-----------------------------------------------------------------------------
(***************************************************************************)
(* The voices of the arm64 sound driver (virtio_snd.c), all of it under    *)
(* the big kernel lock: virtio_snd_write fills the ring of a process,      *)
(* virtio_snd_mix_tick takes a period from every voice for each free       *)
(* buffer of the device and gives back voices of dead processes.           *)
(* Samples are numbered per process; a period holds Period samples.        *)
(***************************************************************************)
CONSTANTS SndVoices, SndPids, Ring, Period, PreRoll, TxSlots, SndSamples

VARIABLES sndVoice,    \* g_voices: pid, content of the ring, pre_roll
          busy,     \* buffers with the device
          alive, written, played

sndvars == <<sndVoice, busy, alive, written, played>>

VoiceRecord == [pid : SndPids \cup {0}, data : Seq(Nat), pre_roll : BOOLEAN]
VoiceTable == [SndVoices -> VoiceRecord]
Free == [pid |-> 0, data |-> <<>>, pre_roll |-> FALSE]

SndInit ==
    /\ sndVoice = [s \in SndVoices |-> Free] /\ busy = 0
    /\ alive = SndPids /\ written = [p \in SndPids |-> 0] /\ played = [p \in SndPids |-> <<>>]

of(p) == {s \in SndVoices : sndVoice[s].pid = p}

\* voice_for_pid: its own slot, or the first free one.
snd_voice_for_pid(p) == IF of(p) # {} THEN of(p) ELSE IF of(0) = {} THEN {} ELSE {Min(of(0))}

\* virtio_snd_write of n samples: what fits; all of it when there is no voice,
\* which throws it away.
virtio_snd_write(p, n) ==
    /\ p \in alive /\ written[p] + n <= SndSamples
    /\ \E s \in snd_voice_for_pid(p) :
       \E v \in {IF sndVoice[s].pid = p THEN sndVoice[s] ELSE [Free EXCEPT !.pid = p, !.pre_roll = TRUE]} :
       \E k \in {Min({n, Ring - 1 - Len(v.data)})} :
         /\ sndVoice' = [sndVoice EXCEPT ![s] =
                        [v EXCEPT !.data = @ \o [i \in 1..k |-> written[p] + i]]]
         /\ written' = [written EXCEPT ![p] = @ + k]
    /\ UNCHANGED <<busy, alive, played>>

Exit(p) ==
    /\ p \in alive /\ alive' = alive \ {p}
    /\ UNCHANGED <<sndVoice, busy, written, played>>

\* Fault variant: the voice of a dead process is taken back at once.
reapedEarly(v) == v.pid # 0 /\ v.pid \notin alive

\* Drained, and its process is gone.
reaped(v) == v.pid # 0 /\ Len(v.data) = 0 /\ v.pid \notin alive

\* What a voice gives to a period; a voice still pre-rolling gives nothing
\* until it has enough or its writer has been quiet for long enough (late).
share(v, late) ==
    IF v.pid = 0 \/ (v.pre_roll /\ Len(v.data) < PreRoll /\ ~late) THEN 0
    ELSE Min({Period, Len(v.data)})

after(v, late) ==
    IF v.pid # 0 /\ Len(v.data) = 0 THEN [v EXCEPT !.pre_roll = TRUE]
    ELSE IF share(v, late) = 0 THEN v
    ELSE [v EXCEPT !.pre_roll = FALSE, !.data = SubSeq(@, share(v, late) + 1, Len(@))]

\* Periods are mixed while there is a free buffer and a voice has something.
mixes[vs \in VoiceTable, n \in Nat, late \in SUBSET SndVoices] ==
    IF n = 0 \/ \A s \in SndVoices : share(vs[s], s \in late) = 0
    THEN [v |-> [s \in SndVoices |-> IF n = 0 THEN vs[s] ELSE after(vs[s], s \in late)], n |-> n]
    ELSE mixes[[s \in SndVoices |-> after(vs[s], s \in late)], n - 1, late]

\* virtio_snd_mix_tick: reclaim, reap, fill every free buffer.
virtio_snd_mix_tick(done, late) ==
    \E vs \in {[s \in SndVoices |-> IF reaped(sndVoice[s]) THEN [sndVoice[s] EXCEPT !.pid = 0] ELSE sndVoice[s]]} :
    \E m \in {mixes[vs, TxSlots - (busy - done), late]} :
      /\ sndVoice' = m.v
      /\ busy' = TxSlots - m.n
      /\ played' = [p \in SndPids |-> played[p] \o
            LET S == {s \in SndVoices : vs[s].pid = p} IN
            IF S = {} THEN <<>>
            ELSE \* what left the ring
                 LET d == vs[Min(S)].data IN SubSeq(d, 1, Len(d) - Len(m.v[Min(S)].data))]
      /\ UNCHANGED <<alive, written>>

SndNext ==
    \/ \E p \in SndPids : Exit(p) \/ \E n \in 1..2 : virtio_snd_write(p, n)
    \/ \E done \in 0..busy, late \in SUBSET SndVoices : virtio_snd_mix_tick(done, late)

-----------------------------------------------------------------------------
\* State is well typed.
SndTypeOK ==
    /\ busy \in 0..TxSlots /\ alive \subseteq SndPids
    /\ \A s \in SndVoices : sndVoice[s].pid \in SndPids \cup {0} /\ Len(sndVoice[s].data) < Ring

\* What a process wrote is played in full and in order, also when the process
\* ends before its ring has drained, or is still in its ring; and every
\* process has at most one voice.
PlayedInFull ==
    \A p \in SndPids :
        \E rest \in {IF of(p) = {} THEN <<>> ELSE sndVoice[Min(of(p))].data} :
            /\ played[p] \o rest = [i \in 1..written[p] |-> i]
            /\ \A s, r \in of(p) : s = r
=============================================================================
