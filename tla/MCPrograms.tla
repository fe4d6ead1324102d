----------------------------- MODULE MCPrograms -----------------------------
(***************************************************************************)
(* The machines of the system that share no state with one another, each   *)
(* on a small instance: drivers and kernel rings, the C library and a      *)
(* program's memory, and the programs.                                     *)
(*                                                                         *)
(* A behaviour moves the machine that unit names; the variables of the     *)
(* others are not used.                                                    *)
(***************************************************************************)
EXTENDS Integers, FiniteSets, SequencesExt

VARIABLE unit     \* the machine that moves
VARIABLES d_tx, d_rx, tx_cur, rx_cur, TDH, TDT, RDH, RDT, queued, d_sent, came, kept, d_got, way,
          availRing, availIdx, usedRing, usedIdx, lastUsed, lastAvail, held, d_busy,
          d_buf, d_items, done, d_seen, d_disk, hdr, data, status, posted, fetched,
          used, blkUsed, call, d_requests, late, platter, buffer, ideCall, drive, calls
VARIABLES r_ring, next_seq, persist_pending, file, r_disk, pty, master, slave, put, r_got
VARIABLES voice, kern, tick, s_sent, gone, s_heard, torn, pcm, head, civ, lvi, halted, mixed,
          periods, reset, sndVoice, s_busy, alive, written, played
VARIABLES queue, extended, shift, ctrl, chars, packet, mouse, i_seen, atPoll, i_typed, swallowed,
          user, events, last_used, pointer, kbd, local, actual, i_got, dropped, split
VARIABLES l_s, how, ideal, l_at, fresh, l_got, exits, env, meant, input
VARIABLES build, h_mem, h_brk, g_used, g_alloc_lock, h_at, live
VARIABLES m_brk, map, chunks, free, taken, m_mem, proc, quarantine, ready, m_view
VARIABLES f_cwd, f_hist, f_pos, there, listing, f_query, selected, menuOn, caller, stored,
          picked, answer, types, opened
VARIABLES files, first, cmd, tree, linked, stack, t_rm, refused, t_text, pat, t_tl, t_gr, cnt
VARIABLES passwd, shadow, homes, add, added, broken, shells, asked
VARIABLES doc, clip, selecting, e_text, saved, modified, warned, running, top
VARIABLES x_ring, cols, rows, curLine, curC, x_view, tab, x_text, fed, x_typed, cursor, x_hist,
          idx, x_raw, x_row, x_at, base, plain, x_sent, procs, lastPid, uptime, prevRun,
          prevUp, x_seen, was, x_query, perf, shown, cards
VARIABLES c_buf, len, c_row, c_hist, hist_head, hist_total, nav, log, g_cwd, c_cwd, want,
          program, job, last_exit, cds
VARIABLES gen, pending, bar, state, joining, b_cur, host, html, b_hist, b_pos, audio, worker,
          calm, left, height, b_view, scroll, drag, struck, crashed, addr, b_sent
VARIABLES nodes, w_cur, broke, w_raw, sheet, inside, wanted, rules, chain, flow, runs, styles,
          due, ops, w_items, flex
VARIABLES track, flags, y_w, dec, y_heard, vis, from, y_requests

Entry(n, d) == [name |-> n, dir |-> d]
DiskOrder == <<Entry(3, TRUE), Entry(2, FALSE), Entry(1, FALSE), Entry(2, TRUE)>>

Nested(r, s) == ("r" :> r) @@ ("s" :> s)
Directories ==
    {"r" :> q : q \in {<<>>, <<"f">>, <<"f", "g">>, <<"f", "g", "h">>}}
    \cup {Nested(q, w) : q \in {<<"s">>, <<"s", "f">>, <<"f", "s">>, <<"f", "s", "g">>},
                         w \in {<<>>, <<"h">>, <<"h", "i">>}}

Short == <<"a">>
Folders == {<<>>, <<Short>>, <<Short, Short>>, <<<<"a", "a">>>>}
CdArguments ==
    {s \in BoundedSeq({"/", ".", "a"}, 5) : \A i \in 1..Len(s) - 1 : ~(s[i] = "/" /\ s[i + 1] = "/")}

ChunkedBodies == UNION {[1..n -> {<<"x">>, <<"1", "nl">>, <<"nl", "1">>}] : n \in 1..3}

Element(t, f) == [tag |-> t, first |-> f]
Part(t, f, c) == [part |-> Element(t, f), comb |-> c]
ElementChains ==
    {<<Element("a", TRUE), Element("b", TRUE)>>,
     <<Element("a", TRUE), Element("b", FALSE), Element("a", FALSE), Element("b", TRUE)>>,
     <<Element("b", TRUE), Element("b", FALSE), Element("a", TRUE)>>}
SelectorChains ==
    UNION {[1..n -> {Part("a", FALSE, " "), Part("b", FALSE, " "), Part("a", FALSE, ">"),
                     Part("b", TRUE, ">")}] : n \in 1..3}

FrameData == <<1, 2, 1>>
Frame(f) == <<<<"h", f>>, <<"i", f>>>> \o [k \in 1..FrameData[f] |-> <<"d", f>>]
Junk == <<"junk", 0>>
Songs == {Frame(1) \o Frame(2) \o Frame(3), <<Junk>> \o Frame(1) \o Frame(2) \o Frame(3) \o <<Junk, Junk>>,
          Frame(1) \o <<Junk>> \o Frame(2) \o Frame(3), <<Junk, Junk, Junk>>}

Image(k, t, ss) == [size |-> 4, kind |-> k, table |-> t, segs |-> ss]
Segment(a, o, d, r) == [at |-> a, off |-> o, data |-> d, room |-> r]
Images ==
    [one |-> Image("exec", 1, <<Segment(0, 1, <<1>>, 2)>>),
     two |-> Image("exec", 1, <<Segment(0, 1, <<1>>, 1), Segment(1, 2, <<1, 1>>, 3)>>),
     bad |-> Image("exec", 1, <<Segment(0, 3, <<1, 1>>, 2)>>)]

\* Rings of three and two descriptors that wrap several times, disks of two and
\* three sectors.
D == INSTANCE Devices WITH Count <- 3, MaxFrames <- 8, Qsz <- 2, Wrap <- 4,
    Bufs <- {0, 1}, MaxItems <- 7, Sectors <- {1, 2}, Values <- {"a", "b"},
    MaxRequests <- 3, IdeSectors <- 0..2, IdeValues <- {"a", "b"}, MaxCount <- 2,
    MaxCalls <- 2, tx <- d_tx, rx <- d_rx, sent <- d_sent, got <- d_got, busy <- d_busy,
    buf <- d_buf, items <- d_items, seen <- d_seen, disk <- d_disk,
    requests <- d_requests

\* A journal of three records, a pseudo-terminal with rings of two bytes.
R == INSTANCE KernelRings WITH Capacity <- 3, Room <- 4, Sizes <- {1, 2},
    MaxRecords <- 5, Ptys <- {1}, Size <- 2, Wrap <- 4, MaxBytes <- 5, ring <- r_ring,
    disk <- r_disk, got <- r_got

\* Fewer voices than processes, rings of three samples, four DMA buffers.
S == INSTANCE Sound WITH Voices <- {1, 2}, Pids <- {1, 2}, RingSize <- 3,
    MaxSamples <- 3, BdCount <- 4, MaxPeriods <- 12, SndVoices <- {1, 2},
    SndPids <- 1..3, Ring <- 4, Period <- 2, PreRoll <- 2, TxSlots <- 2,
    SndSamples <- 2, sent <- s_sent, heard <- s_heard, busy <- s_busy

\* Bytes of both devices mixed; a ring of keys that an escape sequence fills.
I == INSTANCE Input WITH Width <- 4, MaxQueue <- 5, MaxKeys <- 3, MaxMoves <- 1,
    Pollers <- {"boot"}, KbdSize <- 2, MaxEvents <- 3,
    Keys <- {<<"a">>, <<"esc", "A">>}, seen <- i_seen, typed <- i_typed, got <- i_got

\* A stream buffer of two bytes over a disk that may be full, handlers that
\* register handlers, numbers with and without a sign.
L == INSTANCE Libc WITH Modes <- {"r", "w", "r+", "w+", "re-w"}, BufCap <- 2,
    MaxLen <- 3, MaxOps <- 6, DiskFills <- TRUE, Handlers <- {"f", "g"},
    Registrar <- {"g"}, AtExitMax <- 4, Names <- {"A", "B"}, Values <- {"x", "y"},
    Numbers <- {-12, -7, 0, 5, 10, 123}, Widths <- {0, 3, 6}, Precs <- {-1, 0, 2, 4},
    Arrays <- UNION {[1..n -> 1..3] : n \in 0..4}, s <- l_s, at <- l_at, got <- l_got

\* Two threads and a break that ends after three growths.
H == INSTANCE UserHeap WITH Threads <- {1, 2}, Sizes <- {1, 3}, Header <- 1,
    GrowMin <- 5, Page <- 1, Limit <- 15, Builds <- {"x86_64", "arm64"},
    ManyCores <- FALSE, mem <- h_mem, brk <- h_brk, at <- h_at

\* Seven pages of heap for a process of four; two slots for programs of one and
\* two segments and a malformed one.
M == INSTANCE UserMemory WITH Phys <- 1..7, Limit <- 4, Unit <- 2, MaxChunks <- 2,
    Increments <- {1, 3, 5}, Slots <- {0, 1}, Programs <- Images, Heap <- 8, Page <- 2,
    ImageMax <- 4, UserPages <- 3, StackPages <- 1, QuarantineCap <- 1, Bytes <- {1},
    brk <- m_brk, mem <- m_mem, view <- m_view

\* Two directories, entries that differ in case or kind only, a history of
\* three.
F == INSTANCE FileBrowser WITH Paths <- <<"/", "/a">>,
    Up <- [p \in {"/", "/a"} |-> "/"], Entries <- Range(DiskOrder), Disk <- DiskOrder,
    NewNames <- <<2, 3>>, HistCap <- 2, Files <- {"x", "y"}, TypeCap <- 3, cwd <- f_cwd,
    hist <- f_hist, pos <- f_pos, query <- f_query

\* Files longer than a buffer on a disk that two of them fill; trees of two
\* levels; every text of five characters; one adduser at a time, on a disk that
\* may be full.
T == INSTANCE Utils WITH Paths <- {"p", "q"}, Buf <- 2, MaxFile <- 3, Disk <- 4,
    Trees <- Directories, Root <- "r", Letters <- {"a", "A", "sp", "nl"}, MaxText <- 5,
    LineMax <- 3, MaxLines <- 2, rm <- t_rm, text <- t_text, tl <- t_tl, gr <- t_gr,
    Adders <- {1}, Names <- {"a", "b"}, Explicit <- {3}, FirstUid <- 2, LastUid <- 4,
    Passwords <- {"p", "q"}, FileCap <- 3, HomeCap <- 2, DiskFails <- TRUE, MaxShells <- 2

\* Texts of up to three characters and line ends.
E == INSTANCE Editors WITH Chars <- {"a", "b"}, LineCap <- 3, LinesCap <- 3,
    ClipCap <- 2, MaxText <- 3, Rows <- 1, text <- e_text

\* A grid of up to four columns that scrolls twice; lines of two characters;
\* two processes.
X == INSTANCE Terminal WITH MaxCols <- 4, Scrollback <- 2, TabWidth <- 2,
    Sizes <- {<<3, 1>>, <<4, 2>>}, MaxBytes <- 5, MaxLines <- 5, Chars <- {"a"},
    LineCap <- 2, MaxHistory <- 1, Width <- 5, MaxSent <- 2, Slots <- {1, 2},
    RowCap <- 2, MaxPid <- 2, MaxTicks <- 2, ring <- x_ring, view <- x_view,
    text <- x_text, typed <- x_typed, hist <- x_hist, raw <- x_raw, row <- x_row,
    at <- x_at, sent <- x_sent, seen <- x_seen, query <- x_query

\* A history of two lines; every cd argument of five of the characters that
\* matter.
C == INSTANCE Shell WITH Chars <- {"a", "b"}, Cap <- 2, HistCap <- 2,
    Entries <- <<<<"a">>, <<"a", "b">>>>, MaxLines <- 3, Tree <- Folders,
    Args <- CdArguments, MaxCds <- 3, buf <- c_buf, row <- c_row, hist <- c_hist,
    cwd <- c_cwd

\* Four navigations with at most two workers alive; pages shorter and longer
\* than the view.
B == INSTANCE Browser WITH Typed <- {"a", "r"},
    Redirect <- [u \in {"a", "b", "r"} |-> IF u = "r" THEN "b" ELSE u],
    WithAudio <- {"a"}, HistCap <- 2, MaxRedirects <- 2, MaxLoads <- 4, MaxLive <- 2,
    Heights <- {5, 10, 31}, Views <- {4, 9}, MinKnob <- 4, Step <- 2,
    Symbols <- {"0", "2", "6", "."}, MaxAddr <- 7, Octet <- 25, Bodies <- ChunkedBodies,
    cur <- b_cur, hist <- b_hist, pos <- b_pos, view <- b_view, sent <- b_sent

\* Pages of five nodes, sheets of two rules in two levels of @media, chains of
\* up to four elements.
W == INSTANCE WebPage WITH Tags <- {"p", "li", "br", "style", "pre"}, MaxNodes <- 5,
    Symbols <- {"a", "&", ";", "<", "m", "U2"}, Entity <- [m |-> "&", l |-> "<"],
    MaxText <- 5, Selectors <- {<<"A">>, <<"A", "B">>}, MaxRules <- 2, MaxNest <- 2,
    Compounds <- SelectorChains, Chains <- ElementChains, MatchCap <- 2, ViewW <- 8,
    Words <- {3}, Bounds <- {1, 3}, MaxRuns <- 4, MaxOpen <- 2, MaxSteps <- 4,
    Kids <- {<<1, 2>>, <<3, 1>>, <<5, 3>>}, Gap <- 1, MaxKids <- 3, cur <- w_cur,
    raw <- w_raw, items <- w_items

\* Songs of three frames that reach back into the reservoir, with junk before,
\* between and after.
Y == INSTANCE Player WITH Tracks <- Songs, DataLen <- FrameData, Back <- <<0, 1, 2>>,
    ReadLen <- 3, BufCap <- 5, ResCap <- 3, Mono <- <<1, 4, 2>>, VisLen <- 3,
    Scale <- 4, MaxRequests <- 3, w <- y_w, heard <- y_heard, requests <- y_requests

-----------------------------------------------------------------------------
v_nic == <<d_tx, d_rx, tx_cur, rx_cur, TDH, TDT, RDH, RDT, queued, d_sent, came, kept,
        d_got>>
v_vq == <<way, availRing, availIdx, usedRing, usedIdx, lastUsed, lastAvail, held,
        d_busy, d_buf, d_items, done, d_seen>>
v_blk == <<d_disk, hdr, data, status, posted, fetched, used, blkUsed, call, d_requests,
        late>>
v_ide == <<platter, buffer, ideCall, drive, calls>>
v_log == <<r_ring, next_seq, persist_pending, file, r_disk>>
v_pty == <<pty, master, slave, put, r_got>>
v_voice == <<voice, kern, tick, s_sent, gone, s_heard, torn>>
v_dma == <<pcm, head, civ, lvi, halted, mixed, periods, reset>>
v_snd == <<sndVoice, s_busy, alive, written, played>>
v_ps2 == <<queue, extended, shift, ctrl, chars, packet, mouse, i_seen, atPoll, i_typed,
        swallowed, user>>
v_virtio == <<events, last_used, pointer, kbd, local, actual, i_got, dropped, split>>
v_stream == <<l_s, how, ideal, l_at, fresh, l_got>>
v_exit == <<exits>>
v_env == <<env, meant>>
v_pure == <<input>>
v_heap == <<build, h_mem, h_brk, g_used, g_alloc_lock, h_at, live>>
v_sbrk == <<m_brk, map, chunks, free, taken>>
v_load == <<m_mem, proc, quarantine, ready, m_view>>
v_browse == <<f_cwd, f_hist, f_pos, there, listing, f_query, selected, menuOn>>
v_pick == <<caller, stored, picked, answer>>
v_types == <<types, opened>>
v_copy == <<files, first, cmd>>
v_remove == <<tree, linked, stack, t_rm, refused>>
v_count == <<t_text, pat, t_tl, t_gr, cnt>>
v_accounts == <<passwd, shadow, homes, add, added, broken, shells, asked>>
v_gedit == <<doc, clip, selecting>>
v_edit == <<e_text, saved, modified, warned, running, top>>
v_grid == <<x_ring, cols, rows, curLine, curC, x_view, tab, x_text, fed>>
v_entry == <<x_typed, cursor, x_hist, idx, x_raw, x_row, x_at, base, plain, x_sent>>
v_tasks == <<procs, lastPid, uptime, prevRun, prevUp, x_seen, was, x_query, perf, shown,
        cards>>
v_line == <<c_buf, len, c_row, c_hist, hist_head, hist_total, nav, log>>
v_cd == <<g_cwd, c_cwd, want, program, job, last_exit, cds>>
v_visit == <<gen, pending, bar, state, joining, b_cur, host, html, b_hist, b_pos, audio,
        worker, calm, left>>
v_scroll == <<height, b_view, scroll, drag, struck, crashed>>
v_address == <<addr, b_sent>>
v_tree == <<nodes, w_cur, broke>>
v_entity == <<w_raw>>
v_sheet == <<sheet, inside, wanted>>
v_style == <<rules, chain>>
v_flow == <<flow, runs, styles, due, ops>>
v_flex == <<w_items, flex>>
v_player == <<track, flags, y_w, dec, y_heard, vis, from, y_requests>>

all == <<unit, v_nic, v_vq, v_blk, v_ide, v_log, v_pty, v_voice, v_dma, v_snd, v_ps2,
        v_virtio, v_stream, v_exit, v_env, v_pure, v_heap, v_sbrk, v_load, v_browse,
        v_pick, v_types, v_copy, v_remove, v_count, v_accounts, v_gedit, v_edit, v_grid,
        v_entry, v_tasks, v_line, v_cd, v_visit, v_scroll, v_address, v_tree, v_entity,
        v_sheet, v_style, v_flow, v_flex, v_player>>

\* A machine that rests holds zeros.
zero_nic ==
    /\ d_tx = 0 /\ d_rx = 0 /\ tx_cur = 0 /\ rx_cur = 0 /\ TDH = 0
    /\ TDT = 0 /\ RDH = 0 /\ RDT = 0 /\ queued = 0 /\ d_sent = 0
    /\ came = 0 /\ kept = 0 /\ d_got = 0
zero_vq ==
    /\ way = 0 /\ availRing = 0 /\ availIdx = 0 /\ usedRing = 0 /\ usedIdx = 0
    /\ lastUsed = 0 /\ lastAvail = 0 /\ held = 0 /\ d_busy = 0 /\ d_buf = 0
    /\ d_items = 0 /\ done = 0 /\ d_seen = 0
zero_blk ==
    /\ d_disk = 0 /\ hdr = 0 /\ data = 0 /\ status = 0 /\ posted = 0
    /\ fetched = 0 /\ used = 0 /\ blkUsed = 0 /\ call = 0 /\ d_requests = 0
    /\ late = 0
zero_ide == platter = 0 /\ buffer = 0 /\ ideCall = 0 /\ drive = 0 /\ calls = 0
zero_log == r_ring = 0 /\ next_seq = 0 /\ persist_pending = 0 /\ file = 0 /\ r_disk = 0
zero_pty == pty = 0 /\ master = 0 /\ slave = 0 /\ put = 0 /\ r_got = 0
zero_voice ==
    /\ voice = 0 /\ kern = 0 /\ tick = 0 /\ s_sent = 0 /\ gone = 0
    /\ s_heard = 0 /\ torn = 0
zero_dma ==
    /\ pcm = 0 /\ head = 0 /\ civ = 0 /\ lvi = 0 /\ halted = 0
    /\ mixed = 0 /\ periods = 0 /\ reset = 0
zero_snd == sndVoice = 0 /\ s_busy = 0 /\ alive = 0 /\ written = 0 /\ played = 0
zero_ps2 ==
    /\ queue = 0 /\ extended = 0 /\ shift = 0 /\ ctrl = 0 /\ chars = 0
    /\ packet = 0 /\ mouse = 0 /\ i_seen = 0 /\ atPoll = 0 /\ i_typed = 0
    /\ swallowed = 0 /\ user = 0
zero_virtio ==
    /\ events = 0 /\ last_used = 0 /\ pointer = 0 /\ kbd = 0 /\ local = 0
    /\ actual = 0 /\ i_got = 0 /\ dropped = 0 /\ split = 0
zero_stream ==
    /\ l_s = 0 /\ how = 0 /\ ideal = 0 /\ l_at = 0 /\ fresh = 0
    /\ l_got = 0
zero_exit == exits = 0
zero_env == env = 0 /\ meant = 0
zero_pure == input = 0
zero_heap ==
    /\ build = 0 /\ h_mem = 0 /\ h_brk = 0 /\ g_used = 0 /\ g_alloc_lock = 0
    /\ h_at = 0 /\ live = 0
zero_sbrk == m_brk = 0 /\ map = 0 /\ chunks = 0 /\ free = 0 /\ taken = 0
zero_load == m_mem = 0 /\ proc = 0 /\ quarantine = 0 /\ ready = 0 /\ m_view = 0
zero_browse ==
    /\ f_cwd = 0 /\ f_hist = 0 /\ f_pos = 0 /\ there = 0 /\ listing = 0
    /\ f_query = 0 /\ selected = 0 /\ menuOn = 0
zero_pick == caller = 0 /\ stored = 0 /\ picked = 0 /\ answer = 0
zero_types == types = 0 /\ opened = 0
zero_copy == files = 0 /\ first = 0 /\ cmd = 0
zero_remove == tree = 0 /\ linked = 0 /\ stack = 0 /\ t_rm = 0 /\ refused = 0
zero_count == t_text = 0 /\ pat = 0 /\ t_tl = 0 /\ t_gr = 0 /\ cnt = 0
zero_accounts ==
    /\ passwd = 0 /\ shadow = 0 /\ homes = 0 /\ add = 0 /\ added = 0
    /\ broken = 0 /\ shells = 0 /\ asked = 0
zero_gedit == doc = 0 /\ clip = 0 /\ selecting = 0
zero_edit ==
    /\ e_text = 0 /\ saved = 0 /\ modified = 0 /\ warned = 0 /\ running = 0
    /\ top = 0
zero_grid ==
    /\ x_ring = 0 /\ cols = 0 /\ rows = 0 /\ curLine = 0 /\ curC = 0
    /\ x_view = 0 /\ tab = 0 /\ x_text = 0 /\ fed = 0
zero_entry ==
    /\ x_typed = 0 /\ cursor = 0 /\ x_hist = 0 /\ idx = 0 /\ x_raw = 0
    /\ x_row = 0 /\ x_at = 0 /\ base = 0 /\ plain = 0 /\ x_sent = 0
zero_tasks ==
    /\ procs = 0 /\ lastPid = 0 /\ uptime = 0 /\ prevRun = 0 /\ prevUp = 0
    /\ x_seen = 0 /\ was = 0 /\ x_query = 0 /\ perf = 0 /\ shown = 0
    /\ cards = 0
zero_line ==
    /\ c_buf = 0 /\ len = 0 /\ c_row = 0 /\ c_hist = 0 /\ hist_head = 0
    /\ hist_total = 0 /\ nav = 0 /\ log = 0
zero_cd ==
    /\ g_cwd = 0 /\ c_cwd = 0 /\ want = 0 /\ program = 0 /\ job = 0
    /\ last_exit = 0 /\ cds = 0
zero_visit ==
    /\ gen = 0 /\ pending = 0 /\ bar = 0 /\ state = 0 /\ joining = 0
    /\ b_cur = 0 /\ host = 0 /\ html = 0 /\ b_hist = 0 /\ b_pos = 0
    /\ audio = 0 /\ worker = 0 /\ calm = 0 /\ left = 0
zero_scroll ==
    /\ height = 0 /\ b_view = 0 /\ scroll = 0 /\ drag = 0 /\ struck = 0
    /\ crashed = 0
zero_address == addr = 0 /\ b_sent = 0
zero_tree == nodes = 0 /\ w_cur = 0 /\ broke = 0
zero_entity == w_raw = 0
zero_sheet == sheet = 0 /\ inside = 0 /\ wanted = 0
zero_style == rules = 0 /\ chain = 0
zero_flow == flow = 0 /\ runs = 0 /\ styles = 0 /\ due = 0 /\ ops = 0
zero_flex == w_items = 0 /\ flex = 0
zero_player ==
    /\ track = 0 /\ flags = 0 /\ y_w = 0 /\ dec = 0 /\ y_heard = 0
    /\ vis = 0 /\ from = 0 /\ y_requests = 0

MCInit ==
    /\ unit \in {"nic", "vq", "blk", "ide", "log", "pty", "voice", "dma", "snd", "ps2", "virtio",
                 "stream", "exit", "env", "pure", "heap", "sbrk", "load", "browse",
                 "pick", "types", "copy", "remove", "count", "accounts", "gedit",
                 "edit", "grid", "entry", "tasks", "line", "cd", "visit", "scroll",
                 "address", "tree", "entity", "sheet", "style", "flow", "flex", "player"}
    /\ IF unit = "nic" THEN D!NicInit ELSE zero_nic
    /\ IF unit = "vq" THEN D!RingInit ELSE zero_vq
    /\ IF unit = "blk" THEN D!BlkInit ELSE zero_blk
    /\ IF unit = "ide" THEN D!IdeInit ELSE zero_ide
    /\ IF unit = "log" THEN R!LogInit ELSE zero_log
    /\ IF unit = "pty" THEN R!PtyInit ELSE zero_pty
    /\ IF unit = "voice" THEN S!VoiceInit ELSE zero_voice
    /\ IF unit = "dma" THEN S!DmaInit ELSE zero_dma
    /\ IF unit = "snd" THEN S!SndInit ELSE zero_snd
    /\ IF unit = "ps2" THEN I!Ps2Init ELSE zero_ps2
    /\ IF unit = "virtio" THEN I!VirtioInit ELSE zero_virtio
    /\ IF unit = "stream" THEN L!StreamInit ELSE zero_stream
    /\ IF unit = "exit" THEN L!ExitInit ELSE zero_exit
    /\ IF unit = "env" THEN L!EnvInit ELSE zero_env
    /\ IF unit = "pure" THEN L!PureInit ELSE zero_pure
    /\ IF unit = "heap" THEN H!Init ELSE zero_heap
    /\ IF unit = "sbrk" THEN M!SbrkInit ELSE zero_sbrk
    /\ IF unit = "load" THEN M!LoadInit ELSE zero_load
    /\ IF unit = "browse" THEN F!Init ELSE zero_browse
    /\ IF unit = "pick" THEN F!PickInit ELSE zero_pick
    /\ IF unit = "types" THEN F!TypeInit ELSE zero_types
    /\ IF unit = "copy" THEN T!CopyInit ELSE zero_copy
    /\ IF unit = "remove" THEN T!RemoveInit ELSE zero_remove
    /\ IF unit = "count" THEN T!TextInit ELSE zero_count
    /\ IF unit = "accounts" THEN T!AccountsInit ELSE zero_accounts
    /\ IF unit = "gedit" THEN E!Init ELSE zero_gedit
    /\ IF unit = "edit" THEN E!TermInit ELSE zero_edit
    /\ IF unit = "grid" THEN X!Init ELSE zero_grid
    /\ IF unit = "entry" THEN X!LineInit ELSE zero_entry
    /\ IF unit = "tasks" THEN X!TasksInit ELSE zero_tasks
    /\ IF unit = "line" THEN C!LineInit ELSE zero_line
    /\ IF unit = "cd" THEN C!ShellInit ELSE zero_cd
    /\ IF unit = "visit" THEN B!Init ELSE zero_visit
    /\ IF unit = "scroll" THEN B!ScrollInit ELSE zero_scroll
    /\ IF unit = "address" THEN B!TextInit ELSE zero_address
    /\ IF unit = "tree" THEN W!TreeInit ELSE zero_tree
    /\ IF unit = "entity" THEN W!EntityInit ELSE zero_entity
    /\ IF unit = "sheet" THEN W!SheetInit ELSE zero_sheet
    /\ IF unit = "style" THEN W!StyleInit ELSE zero_style
    /\ IF unit = "flow" THEN W!FlowInit ELSE zero_flow
    /\ IF unit = "flex" THEN W!FlexInit ELSE zero_flex
    /\ IF unit = "player" THEN Y!Init ELSE zero_player

\* The machines that unit does not name stay as they are.
Rest ==
    /\ UNCHANGED unit
    /\ unit = "nic" \/ UNCHANGED v_nic
    /\ unit = "vq" \/ UNCHANGED v_vq
    /\ unit = "blk" \/ UNCHANGED v_blk
    /\ unit = "ide" \/ UNCHANGED v_ide
    /\ unit = "log" \/ UNCHANGED v_log
    /\ unit = "pty" \/ UNCHANGED v_pty
    /\ unit = "voice" \/ UNCHANGED v_voice
    /\ unit = "dma" \/ UNCHANGED v_dma
    /\ unit = "snd" \/ UNCHANGED v_snd
    /\ unit = "ps2" \/ UNCHANGED v_ps2
    /\ unit = "virtio" \/ UNCHANGED v_virtio
    /\ unit = "stream" \/ UNCHANGED v_stream
    /\ unit = "exit" \/ UNCHANGED v_exit
    /\ unit = "env" \/ UNCHANGED v_env
    /\ unit = "pure" \/ UNCHANGED v_pure
    /\ unit = "heap" \/ UNCHANGED v_heap
    /\ unit = "sbrk" \/ UNCHANGED v_sbrk
    /\ unit = "load" \/ UNCHANGED v_load
    /\ unit = "browse" \/ UNCHANGED v_browse
    /\ unit = "pick" \/ UNCHANGED v_pick
    /\ unit = "types" \/ UNCHANGED v_types
    /\ unit = "copy" \/ UNCHANGED v_copy
    /\ unit = "remove" \/ UNCHANGED v_remove
    /\ unit = "count" \/ UNCHANGED v_count
    /\ unit = "accounts" \/ UNCHANGED v_accounts
    /\ unit = "gedit" \/ UNCHANGED v_gedit
    /\ unit = "edit" \/ UNCHANGED v_edit
    /\ unit = "grid" \/ UNCHANGED v_grid
    /\ unit = "entry" \/ UNCHANGED v_entry
    /\ unit = "tasks" \/ UNCHANGED v_tasks
    /\ unit = "line" \/ UNCHANGED v_line
    /\ unit = "cd" \/ UNCHANGED v_cd
    /\ unit = "visit" \/ UNCHANGED v_visit
    /\ unit = "scroll" \/ UNCHANGED v_scroll
    /\ unit = "address" \/ UNCHANGED v_address
    /\ unit = "tree" \/ UNCHANGED v_tree
    /\ unit = "entity" \/ UNCHANGED v_entity
    /\ unit = "sheet" \/ UNCHANGED v_sheet
    /\ unit = "style" \/ UNCHANGED v_style
    /\ unit = "flow" \/ UNCHANGED v_flow
    /\ unit = "flex" \/ UNCHANGED v_flex
    /\ unit = "player" \/ UNCHANGED v_player

nicMoves == unit = "nic" /\ D!NicNext /\ Rest
vqMoves == unit = "vq" /\ D!RingNext /\ Rest
blkMoves == unit = "blk" /\ D!BlkNext /\ Rest
ideMoves == unit = "ide" /\ D!IdeNext /\ Rest
logMoves == unit = "log" /\ R!LogNext /\ Rest
ptyMoves == unit = "pty" /\ R!PtyNext /\ Rest
voiceMoves == unit = "voice" /\ S!VoiceNext /\ Rest
dmaMoves == unit = "dma" /\ S!DmaNext /\ Rest
sndMoves == unit = "snd" /\ S!SndNext /\ Rest
ps2Moves == unit = "ps2" /\ I!Ps2Next /\ Rest
virtioMoves == unit = "virtio" /\ I!VirtioNext /\ Rest
streamMoves == unit = "stream" /\ L!StreamNext /\ Rest
exitMoves == unit = "exit" /\ L!ExitNext /\ Rest
envMoves == unit = "env" /\ L!EnvNext /\ Rest
pureMoves == unit = "pure" /\ L!PureNext /\ Rest
heapMoves == unit = "heap" /\ H!Next /\ Rest
sbrkMoves == unit = "sbrk" /\ M!SbrkNext /\ Rest
loadMoves == unit = "load" /\ M!LoadNext /\ Rest
browseMoves == unit = "browse" /\ F!Next /\ Rest
pickMoves == unit = "pick" /\ F!PickNext /\ Rest
typesMoves == unit = "types" /\ F!TypeNext /\ Rest
copyMoves == unit = "copy" /\ T!CopyNext /\ Rest
removeMoves == unit = "remove" /\ T!RemoveNext /\ Rest
countMoves == unit = "count" /\ T!TextNext /\ Rest
accountsMoves == unit = "accounts" /\ T!AccountsNext /\ Rest
geditMoves == unit = "gedit" /\ E!Next /\ Rest
editMoves == unit = "edit" /\ E!TermNext /\ Rest
gridMoves == unit = "grid" /\ X!Next /\ Rest
entryMoves == unit = "entry" /\ X!LineNext /\ Rest
tasksMoves == unit = "tasks" /\ X!TasksNext /\ Rest
lineMoves == unit = "line" /\ C!LineNext /\ Rest
cdMoves == unit = "cd" /\ C!ShellNext /\ Rest
visitMoves == unit = "visit" /\ B!Next /\ Rest
scrollMoves == unit = "scroll" /\ B!ScrollNext /\ Rest
addressMoves == unit = "address" /\ B!TextNext /\ Rest
treeMoves == unit = "tree" /\ W!TreeNext /\ Rest
entityMoves == unit = "entity" /\ W!EntityNext /\ Rest
sheetMoves == unit = "sheet" /\ W!SheetNext /\ Rest
styleMoves == unit = "style" /\ W!StyleNext /\ Rest
flowMoves == unit = "flow" /\ W!FlowNext /\ Rest
flexMoves == unit = "flex" /\ W!FlexNext /\ Rest
playerMoves == unit = "player" /\ Y!Next /\ Rest

MCNext ==
    \/ nicMoves \/ vqMoves \/ blkMoves \/ ideMoves \/ logMoves \/ ptyMoves
    \/ voiceMoves \/ dmaMoves \/ sndMoves \/ ps2Moves \/ virtioMoves \/ streamMoves
    \/ exitMoves \/ envMoves \/ pureMoves \/ heapMoves \/ sbrkMoves \/ loadMoves
    \/ browseMoves \/ pickMoves \/ typesMoves \/ copyMoves \/ removeMoves
    \/ countMoves \/ accountsMoves \/ geditMoves \/ editMoves \/ gridMoves
    \/ entryMoves \/ tasksMoves \/ lineMoves \/ cdMoves \/ visitMoves \/ scrollMoves
    \/ addressMoves \/ treeMoves \/ entityMoves \/ sheetMoves \/ styleMoves
    \/ flowMoves \/ flexMoves \/ playerMoves

MCSpec == MCInit /\ [][MCNext]_all

\* A ring that goes round and round is heard no further.
Bounded == unit = "voice" => S!Bounded

-----------------------------------------------------------------------------
\* Drivers and devices that move at their own pace: e1000_poll_receive and
\* e1000_transmit, and the virtqueues of tx_submit and vi_poll_one, hand on
\* every frame once and in order although rings and indices wrap; a disk
\* request that succeeds (do_request, ide_read_sectors, ide_write_sectors)
\* moved its own data, unless an earlier one had timed out; journal_get returns
\* the record asked for; both ends of a pseudo-terminal read what the other
\* wrote, in order; input_poll and vi_poll_one give keys their characters with
\* the modifiers held, follow the pointer and apply no event twice.
DevicesExact ==
    /\ unit = "nic" => D!NicTypeOK /\ D!FramesInOrder
    /\ unit = "vq" => D!RingTypeOK /\ D!ItemsInOrder
    /\ unit = "blk" => D!BlkTypeOK /\ D!OwnTransfer
    /\ unit = "ide" => D!IdeTypeOK /\ D!PrefixMoved
    /\ unit = "log" => R!LogTypeOK /\ R!GetsTheRecord
    /\ unit = "pty" => R!PtyTypeOK /\ R!BytesInOrder
    /\ unit = "ps2" => I!Ps2TypeOK /\ I!KeysDecoded /\ I!MouseFollows
    /\ unit = "virtio" => I!VirtioTypeOK /\ I!EventsOnce /\ I!PointerFollows

\* audio_write against audio_tick: samples are heard once and in order and no
\* process has two voices; the AC97 engine plays the periods as they were
\* mixed; virtio_snd_mix_tick plays what a process wrote to the end; the player
\* decodes the frames of a song in order from where it was started or sought
\* to.
SoundExact ==
    /\ unit = "voice" => S!VoiceTypeOK /\ S!HeardInOrder /\ S!OneVoiceEach
    /\ unit = "dma" => S!DmaTypeOK /\ S!PeriodsInOrder
    /\ unit = "snd" => S!SndTypeOK /\ S!PlayedInFull
    /\ unit = "player" => Y!PlaysInOrder

\* The C library: buffered streams do what unbuffered calls would, exit runs
\* the handlers in reverse, getenv finds what was set last, formatting and
\* sorting are right.
LibraryExact ==
    /\ unit = "stream" => L!TypeOK /\ L!StreamExact
    /\ unit = "exit" => L!HandlersInReverse
    /\ unit = "env" => L!EnvExact
    /\ unit = "pure" => L!PureExact

\* Memory of a program: malloc's blocks tile the break and never overlap and
\* one thread at a time is inside; the pages under the break of
\* process_sbrk_handler are mapped to it alone; a program loaded by elf_load
\* sees its own image, zeroed where the file ends.
MemoryExact ==
    /\ unit = "heap" => H!TypeOK /\ H!UserHeapExact /\ H!OneAllocates
    /\ unit = "sbrk" => M!SbrkTypeOK /\ M!HeapIsMapped
    /\ unit = "load" => M!LoadTypeOK /\ M!SeesItsOwnMemory

\* Programs that handle files: the file browser's listing, history, dialog and
\* associations; cp, rm -r, tail, grep and wc; adduser and the account files.
FileToolsExact ==
    /\ unit = "browse" => F!TypeOK /\ F!ListingExact /\ F!HistoryKnowsWhereYouAre
    /\ unit = "pick" => F!DialogAnswers
    /\ unit = "types" => F!OpensAsAssociated
    /\ unit = "copy" => T!CopyExact
    /\ unit = "remove" => T!RmReports
    /\ unit = "count" => T!TextExact
    /\ unit = "accounts" => T!AccountsTypeOK /\ T!AccountsExact

\* Programs that edit and show text: the graphical editor and edit, the
\* terminal's grid and line, the task manager's shares, the shell's line,
\* history and directory.
TextExact ==
    /\ unit = "gedit" => E!TypeOK /\ E!CutPasteRestores /\ E!SavedIsLoaded
    /\ unit = "edit" => E!QuitWarned
    /\ unit = "grid" => X!GridShows
    /\ unit = "entry" => X!LineShows
    /\ unit = "tasks" => X!SharesExact
    /\ unit = "line" => C!LineTypeOK /\ C!RowIsLine /\ C!HistoryInOrder
    /\ unit = "cd" => C!ShellTypeOK /\ C!CwdAgrees

\* The web browser: loads, scroll bar, addresses and chunked bodies; its tree,
\* entities, sheets, styles, flow and flex boxes.
WebExact ==
    /\ unit = "visit" => B!TypeOK /\ B!LoadExact
    /\ unit = "scroll" => B!ScrollExact
    /\ unit = "address" => B!TextExact
    /\ unit = "tree" => W!TreeExact
    /\ unit = "entity" => W!DecodesOnce
    /\ unit = "sheet" => W!RulesFound
    /\ unit = "style" => W!StyleExact
    /\ unit = "flow" => W!FlowExact
    /\ unit = "flex" => W!FlexApart
=============================================================================
