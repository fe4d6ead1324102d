------------------------------- MODULE Player -------------------------------
(***************************************************************************)
(* The audio player (user/audioplayer/audioplayer.cpp) and the input side  *)
(* of its MP3 decoder (lib/mp3/mp3dec.c).  A worker thread reads the file  *)
(* in pieces, feeds the decoder and writes each frame to the audio ring;   *)
(* the window's callbacks set flags that the worker polls.                 *)
(*                                                                         *)
(* A file is a sequence of tokens: the two halves of a frame header, the   *)
(* units of its main data, and junk (tags).  Samples are not computed: a   *)
(* frame that is heard is the frame's number and the main data that went   *)
(* into it.                                                                *)
(***************************************************************************)
EXTENDS Integers, SequencesExt, FiniteSetsExt

CONSTANTS Tracks,      \* the files that may be played, as sequences of tokens
          DataLen,     \* main data units of frame f
          Back,        \* main_data_begin of frame f
          ReadLen,     \* the read buffer of the worker
          BufCap,      \* buf of the decoder
          ResCap,      \* its bit reservoir
          Mono, VisLen,\* mono samples of frame f; length of g_vis_samples
          Scale,       \* the progress bar counts to 1000
          MaxRequests  \* clicks of the user

VARIABLES track,       \* the file
          flags,       \* g_seek, g_restart, g_paused, g_stop, g_repeat, g_total, g_played
          w,           \* the worker: pc, file offset, piece read, frame to write, aborted
          dec,         \* the decoder: buf and reservoir
          heard,       \* frames written since the file was opened or sought in
          vis,         \* g_vis_samples
          from,        \* where in the file that was
          requests

pvars == <<track, flags, w, dec, heard, vis, from, requests>>

\* Tokens: <<"h", f>> and <<"i", f>> are the header, <<"d", f>> the data.
Junk == <<"junk", 0>>
frameSize(f) == 2 + DataLen[f]
lastOf(s, n) == SubSeq(s, Len(s) - Min({n, Len(s)}) + 1, Len(s))

mp3dec_init == [buf |-> <<>>, res |-> <<>>]

Init ==
    /\ track \in Tracks
    /\ flags = [seek |-> -1, restart |-> FALSE, paused |-> FALSE, stop |-> FALSE, repeat |-> FALSE,
                total |-> 0, played |-> 0]
    /\ w = [pc |-> "open", pos |-> 0, piece |-> <<>>, frame |-> 0, aborted |-> FALSE]
    /\ dec = mp3dec_init /\ heard = <<>> /\ from = 0 /\ requests = 0
    /\ vis = [k \in 1 .. VisLen |-> 0]

-----------------------------------------------------------------------------
(* mp3dec.c *)

\* The tokens before the first whole header, or -1.
mp3_parse_header(buf) ==
    LET at == {i \in 1 .. Len(buf) - 1 : buf[i][1] = "h"}
    IN  IF at = {} THEN -1 ELSE Min(at) - 1

\* Takes what fits.
mp3dec_feed(d, piece) ==
    LET n == Min({Len(piece), BufCap - Len(d.buf)})
    IN  [dec |-> [d EXCEPT !.buf = @ \o SubSeq(piece, 1, n)], consumed |-> n]

\* Main data of a frame: the end of the reservoir and its own units.
mainData(d, f) == lastOf(d.res, Back[f]) \o [k \in 1 .. DataLen[f] |-> <<"d", f>>]
reservoir(d, f) == lastOf(d.res, ResCap - DataLen[f]) \o [k \in 1 .. DataLen[f] |-> <<"d", f>>]

\* Fault variant: when no header is found the whole buffer is dropped.
dropAll(d) == [d EXCEPT !.buf = <<>>]
\* No header: the last token may be the start of one.
withoutSync(d) == [d EXCEPT !.buf = lastOf(@, 1)]

\* got is 1 for a frame, 0 when there is not enough data, -1 when the decoder
\* skipped to a header.
mp3dec_decode(d) ==
    LET off == mp3_parse_header(d.buf)
        f == d.buf[1][2]
        rest(n) == SubSeq(d.buf, n + 1, Len(d.buf))
    IN  CASE off < 0 -> [got |-> 0, dec |-> withoutSync(d), f |-> 0, main |-> <<>>]
          [] off > 0 -> [got |-> -1, dec |-> [d EXCEPT !.buf = rest(off)], f |-> 0, main |-> <<>>]
          [] off = 0 /\ Len(d.buf) < frameSize(f) -> [got |-> 0, dec |-> d, f |-> 0, main |-> <<>>]
          [] OTHER -> [got |-> 1, f |-> f, main |-> mainData(d, f),
                       dec |-> [buf |-> rest(frameSize(f)), res |-> reservoir(d, f)]]

-----------------------------------------------------------------------------
(* The worker *)

\* The old samples move to the front, the newest are put at the end.
feed_visualization(v, f) ==
    LET keep == Max({VisLen - Mono[f], 0})
        new == Min({Mono[f], VisLen})
    IN  [k \in 1 .. VisLen |-> IF k <= keep THEN v[k + Mono[f]] ELSE IF k <= keep + new THEN f ELSE v[k]]

Open ==
    /\ w.pc = "open"
    /\ IF flags.stop THEN w' = [w EXCEPT !.pc = "gone"] /\ UNCHANGED <<flags, dec, heard, from>>
       ELSE /\ w' = [w EXCEPT !.pc = "read", !.pos = 0, !.aborted = FALSE]
            /\ dec' = mp3dec_init /\ heard' = <<>> /\ from' = 0
            /\ flags' = [flags EXCEPT !.played = 0]
    /\ UNCHANGED <<track, vis, requests>>

\* The piece that is read is thrown away when a seek or a restart is pending.
Read ==
    /\ w.pc = "read"
    /\ LET n == Min({ReadLen, Len(track) - w.pos})
       IN  w' = IF flags.stop \/ n = 0 THEN [w EXCEPT !.pc = "closed"]
                ELSE [w EXCEPT !.pc = "check", !.piece = SubSeq(track, w.pos + 1, w.pos + n),
                               !.pos = @ + n]
    /\ UNCHANGED <<track, flags, dec, heard, vis, from, requests>>

\* Fault variant: the decoder keeps what it had before the seek.
soughtKept(d) == d
sought(d) == mp3dec_init

Check ==
    /\ w.pc = "check"
    /\ IF flags.seek >= 0
       THEN LET off == (Len(track) * flags.seek) \div Scale
            IN  /\ w' = [w EXCEPT !.pc = "read", !.pos = off]
                /\ dec' = sought(dec) /\ heard' = <<>> /\ from' = off
                /\ flags' = [flags EXCEPT !.seek = -1,
                                          !.played = (flags.total * flags.seek) \div Scale]
       ELSE IF flags.restart
       THEN /\ w' = [w EXCEPT !.pc = "closed", !.aborted = TRUE]
            /\ flags' = [flags EXCEPT !.restart = FALSE] /\ UNCHANGED <<dec, heard, from>>
       ELSE LET fed == mp3dec_feed(dec, w.piece)
            IN  /\ dec' = fed.dec
                /\ w' = [w EXCEPT !.pc = "decode", !.pos = @ + fed.consumed - Len(w.piece)]
                /\ UNCHANGED <<flags, heard, from>>
    /\ UNCHANGED <<track, vis, requests>>

Decode ==
    /\ w.pc = "decode"
    /\ LET r == mp3dec_decode(dec)
       IN  /\ dec' = r.dec
           /\ IF r.got = 1
              THEN /\ w' = [w EXCEPT !.pc = "write", !.frame = r.f, !.piece = r.main]
                   /\ flags' = [flags EXCEPT !.total = Len(track)]
                   /\ vis' = feed_visualization(vis, r.f)
              ELSE w' = [w EXCEPT !.pc = "read"] /\ UNCHANGED <<flags, vis>>
    /\ UNCHANGED <<track, heard, from, requests>>

\* A frame waits while the player is paused; stop drops it.
write_all ==
    /\ w.pc = "write"
    /\ \/ /\ flags.stop
          /\ w' = [w EXCEPT !.pc = "closed", !.aborted = TRUE] /\ UNCHANGED <<flags, heard>>
       \/ /\ ~flags.stop /\ ~flags.paused
          /\ w' = [w EXCEPT !.pc = "decode"]
          /\ heard' = Append(heard, [f |-> w.frame, main |-> w.piece])
          /\ flags' = [flags EXCEPT !.played = @ + 1]
    /\ UNCHANGED <<track, dec, vis, from, requests>>

Close ==
    /\ w.pc = "closed"
    /\ w' = [w EXCEPT !.pc = IF ~flags.stop /\ (w.aborted \/ flags.repeat) THEN "open" ELSE "gone"]
    /\ UNCHANGED <<track, flags, dec, heard, vis, from, requests>>

worker == Open \/ Read \/ Check \/ Decode \/ write_all \/ Close

-----------------------------------------------------------------------------
(* The callbacks *)

request(f) ==
    /\ requests < MaxRequests /\ requests' = requests + 1
    /\ flags' = f /\ UNCHANGED <<track, w, dec, heard, vis, from>>

cb_play == request([flags EXCEPT !.paused = ~@])
cb_prev == request([flags EXCEPT !.restart = TRUE, !.paused = FALSE])
cb_repeat == request([flags EXCEPT !.repeat = ~@])
cb_seek(v) == request([flags EXCEPT !.seek = v])
cb_quit == request([flags EXCEPT !.stop = TRUE])

Next ==
    \/ worker
    \/ cb_play \/ cb_prev \/ cb_repeat \/ cb_quit
    \/ \E v \in 0 .. Scale : cb_seek(v)

-----------------------------------------------------------------------------
\* The frames whose header lies in the file at or after an offset.
framesFrom(off) ==
    LET at == {i \in off + 1 .. Len(track) : track[i][1] = "h"}
    IN  [k \in 1 .. Cardinality(at) |-> track[SetToSortSeq(at, <)[k]][2]]

\* All the data units in the file before frame f.
dataBefore(f) == SelectSeq(SubSeq(track, 1, CHOOSE i \in DOMAIN track : track[i] = <<"h", f>>),
                           LAMBDA t : t[1] = "d")

\* The worker and the decoder, against seeks, restarts, pauses and short
\* pieces: what is heard after an open or a seek are the frames of the file
\* from there, none twice, none left out and none from before the seek, each
\* with the main data it refers to if the decoder has read that far back; the
\* spectrum is that of the newest samples.  A track that ends has been heard
\* to its end, except for frames after junk in the last piece that was read.
PlaysInOrder ==
    LET fs == framesFrom(from)
    IN  /\ Len(heard) <= Len(fs)
        /\ \A k \in DOMAIN heard :
              /\ heard[k].f = fs[k]
              /\ from = 0 => heard[k].main = lastOf(dataBefore(fs[k]), Back[fs[k]])
                                               \o [i \in 1 .. DataLen[fs[k]] |-> <<"d", fs[k]>>]
        /\ w.pc = "closed" /\ ~w.aborted /\ ~flags.stop /\ mp3_parse_header(dec.buf) < 0 => Len(heard) = Len(fs)
        /\ heard # <<>> /\ w.pc \in {"read", "check", "decode"} =>
              \A k \in 1 .. Min({VisLen, Mono[Last(heard).f]}) : vis[VisLen + 1 - k] = Last(heard).f
=============================================================================
