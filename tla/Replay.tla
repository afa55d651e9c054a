------------------------------- MODULE Replay -------------------------------
(* The way of one device's rows from the files of the dataset to rounds:      *)
(* source/CsvKafkaReplayer.java merges the files and sends the rows in the    *)
(* order of time, m1/RawLineParser.java and m1/RoundAssembler.java make       *)
(* rounds of them behind a watermark.  The replayer may stop anywhere and be  *)
(* resumed from its offset file, while the job stays up.                      *)
(*                                                                            *)
(* A recording is a sequence of files in the order of their paths: whether    *)
(* the name tells a time, that time, and the content.  Times are whole        *)
(* seconds; a watermark is kept as its horizon, the first second it leaves    *)
(* open.  The topic keeps the order of a partition, so a row is read in the   *)
(* step that sends it: only the watermarks come when they like.               *)
EXTENDS EdaScan

CONSTANTS
    Recordings,
    Device, Detection, Quality,       \* a device, detection channels, quality channels
    CarryOver, SaveEvery,             \* CARRY_OVER_SEC, PROGRESS_INTERVAL
    OutOfOrderness, CloseDelay,       \* of the watermark and of a round
    SegStart, SegEnd,                 \* --start and --end
    MaxStops

ASSUME ReplayConstants ==
    /\ CarryOver \in Nat /\ SaveEvery \in Nat \ {0} /\ MaxStops \in Nat
    /\ OutOfOrderness \in Nat /\ CloseDelay \in Nat /\ SegStart <= SegEnd

VARIABLES
    rec,             \* the recording that is replayed
    replayer,        \* position in the merged order, what is skipped, what was sent
    bookmark,        \* the offset file
    sent,            \* positions of the rows sent so far, in order
    m1               \* the source's watermark, the parser and the round assembler
replayVars == <<rec, replayer, bookmark, sent, m1>>

----------------------------------------------------------------------------
(* Which files, and in which order: by the time in the name, or by that of   *)
(* the first row when the name tells none and the first row looks like data. *)
FirstTime(rows) == IF rows # <<>> /\ LooksLikeRow(rows[1]) THEN rows[1].time ELSE NoValue
FirstRowTime(content) == FirstTime(SelectSeq(content.lines, LAMBDA ln : ln.fields # 0))
OrderKey(file) == IF file.named THEN file.key ELSE FirstRowTime(file.content)
ByKey(keys) ==
    SetToSortSeq({f \in DOMAIN keys : keys[f] # NoValue},
                 LAMBDA f, g : keys[f] < keys[g] \/ (keys[f] = keys[g] /\ f < g))
DiscoverFiles(files) == ByKey([f \in DOMAIN files |-> OrderKey(files[f])])

(* The rows of the i-th of them: those with a device and a time.             *)
LoadFile(file, i) ==
    {[at |-> <<i, j>>, row |-> file.content.lines[j]] : j \in
        {n \in DOMAIN file.content.lines : /\ file.content.lines[n].fields >= 2
                                           /\ file.content.lines[n].dev # NoValue
                                           /\ file.content.lines[n].time # NoValue}}

Precedes(p, q) == p[1] < q[1] \/ (p[1] = q[1] /\ p[2] < q[2])
InTime(rows) ==
    SetToSortSeq(rows, LAMBDA r, s : \/ r.row.time < s.row.time
                                     \/ r.row.time = s.row.time /\ Precedes(r.at, s.at))

(* GlobalMerger.offer and flush: all but the last CarryOver seconds go out.  *)
OfferAll(m, rows) ==                    \* mutant: nothing is carried over
    [buffer |-> {}, out |-> m.out \o InTime(m.buffer \cup rows)]
Behind(rows) == {r \in rows : r.row.time <= Max({s.row.time : s \in rows}) - CarryOver}
Emit(m, all, goes) == [buffer |-> all \ goes, out |-> m.out \o InTime(goes)]
Offer(m, rows) ==
    IF rows = {} THEN m ELSE Emit(m, m.buffer \cup rows, Behind(m.buffer \cup rows))
Flush(m) == m.out \o InTime(m.buffer)
MergedIn(files, found) ==
    Flush(FoldLeft(Offer, [buffer |-> {}, out |-> <<>>],
                   [i \in DOMAIN found |-> LoadFile(files[found[i]], i)]))
Merged(files) == MergedIn(files, DiscoverFiles(files))
MergedOf == [files \in Recordings |-> Merged(files)]
Order == MergedOf[rec]

----------------------------------------------------------------------------
(* The job: bounded out-of-orderness, parser, round assembler.               *)
NoRound == [x |-> <<>>, quality |-> {}, dup |-> 0, unknown |-> 0]
Malformed(row) == row.fields # 4 \/ row.value = NoValue

(* A reading joins its round; the first of a channel stays.                  *)
Joined(r, row) ==
    IF row.sensor \in DOMAIN r.x \cup r.quality THEN [r EXCEPT !.dup = @ + 1]
    ELSE IF row.sensor \in Detection
         THEN [r EXCEPT !.x = [c \in DOMAIN @ \cup {row.sensor} |->
                                  IF c = row.sensor THEN row.value ELSE @[c]]]
    ELSE IF row.sensor \in Quality THEN [r EXCEPT !.quality = @ \cup {row.sensor}]
    ELSE [r EXCEPT !.unknown = @ + 1]

Delivered(j, row) ==
    LET open == j.open
        r == IF row.time \in DOMAIN open THEN open[row.time] ELSE NoRound
        seen == [j EXCEPT !.latest = Bigger(@, row.time)]
    IN  IF Malformed(row) THEN [seen EXCEPT !.pending = @ + 1]
        ELSE [seen EXCEPT
                !.open = [t \in DOMAIN open \cup {row.time} |->
                             IF t = row.time THEN Joined(r, row) ELSE open[t]],
                !.timers = @ \cup {row.time + CloseDelay}]

(* A timer closes its round, which takes the malformed rows counted so far.  *)
OnTimer(j, at) ==
    LET t == at - CloseDelay
    IN  [j EXCEPT !.timers = @ \ {at},
                  !.open = [u \in DOMAIN @ \ {t} |-> @[u]],
                  !.pending = IF t \in DOMAIN j.open THEN 0 ELSE @,
                  !.rounds = IF t \in DOMAIN j.open
                             THEN Append(@, [ts |-> t, malformed |-> j.pending, round |-> j.open[t]])
                             ELSE @]

AdvanceTo(horizon) ==
    LET due == SetToSortSeq({t \in m1.timers : t < horizon}, <)
    IN  /\ m1.horizon < horizon /\ horizon <= m1.latest - OutOfOrderness
        /\ m1' = FoldLeft(OnTimer, [m1 EXCEPT !.horizon = horizon], due)
        /\ UNCHANGED <<rec, replayer, bookmark, sent>>

----------------------------------------------------------------------------
(* The replayer.  The end of the segment is sent, too.                       *)
Nowhere == <<0, 0>>
InSegment(r) == SegStart <= r.row.time /\ r.row.time <= SegEnd
AfterResume(r, from) == Precedes(from, r.at)
Upcoming(order) == {i \in replayer.at + 1 .. Len(order) :
                       InSegment(order[i]) /\ AfterResume(order[i], replayer.from)}
Started(r, from) ==
    [r EXCEPT !.phase = "up", !.at = 0, !.from = from, !.produced = 0, !.last = Nowhere]

ReplayInit ==
    /\ rec \in Recordings
    /\ replayer = [phase |-> "up", at |-> 0, from |-> Nowhere, produced |-> 0, last |-> Nowhere,
                   stops |-> 0, exact |-> TRUE]
    /\ bookmark = Nowhere
    /\ sent = <<>>
    /\ m1 = [latest |-> 0, horizon |-> 0, open |-> <<>>, timers |-> {}, pending |-> 0,
              rounds |-> <<>>]

SendRow(i, r, n) ==
    /\ replayer' = [replayer EXCEPT !.at = i, !.produced = n, !.last = r.at]
    /\ bookmark' = IF n % SaveEvery = 0 THEN r.at ELSE bookmark
    /\ sent' = Append(sent, i)
    /\ m1' = IF r.row.dev = Device THEN Delivered(m1, r.row) ELSE m1
    /\ UNCHANGED rec
Send ==
    /\ replayer.phase = "up"
    /\ \E order \in {Order} : \E next \in {Upcoming(order)} : \E i \in next :
          /\ \A j \in next : i <= j
          /\ SendRow(i, order[i], replayer.produced + 1)

(* All rows are sent, or sending failed: the offset is saved on the way out, *)
(* that of nothing when this run sent nothing.                               *)
ReplayEnds ==
    /\ replayer.phase = "up" /\ Upcoming(Order) = {}
    /\ replayer' = [replayer EXCEPT !.phase = "done"]
    /\ bookmark' = replayer.last
    /\ UNCHANGED <<rec, sent, m1>>
Stop ==
    /\ replayer.phase = "up" /\ Upcoming(Order) # {} /\ replayer.stops < MaxStops
    /\ replayer' = [replayer EXCEPT !.phase = "down", !.stops = @ + 1]
    /\ bookmark' \in {bookmark, replayer.last}       \* killed, or left by an exception
    /\ UNCHANGED <<rec, sent, m1>>

(* --resume skips the rows up to the offset in the order of the files.       *)
SkipsSent(order) == \A i \in DOMAIN order :
    InSegment(order[i]) => (AfterResume(order[i], bookmark) <=> i \notin Range(sent))
Resume ==
    /\ replayer.phase = "down"
    /\ replayer' = [Started(replayer, bookmark) EXCEPT !.exact = @ /\ SkipsSent(Order)]
    /\ UNCHANGED <<rec, bookmark, sent, m1>>

ReplayNext ==
    \/ Send \/ ReplayEnds \/ Stop \/ Resume
    \/ \E horizon \in m1.horizon + 1 .. m1.latest - OutOfOrderness : AdvanceTo(horizon)

(* What a resumed replay leaves out, wherever it stopped and whatever offset  *)
(* it left: a row of the segment that is never sent comes earlier in the      *)
(* order of the files than one that was sent ahead of it.  afterResume        *)
(* compares file and line, while rows are sent in the order of time.  So all  *)
(* are sent where files follow one another, and not, as                       *)
(* docs/cluster_runbook.md:194 has it, in every case.                         *)
LostRowsWereOvertaken ==
    replayer.phase = "done" =>
        \A i \in {n \in DOMAIN Order : InSegment(Order[n])} \ Range(sent) :
            \E j \in Range(sent) : j < i /\ Precedes(Order[i].at, Order[j].at)
=============================================================================
