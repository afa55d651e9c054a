------------------------------ MODULE DriftProofs ------------------------------
(***************************************************************************)
(* Theorems about the stream of one device through detector and gate       *)
(* (DriftStream), for any streams, windows, cuts and critical values: what *)
(* the blind intervals of the report mean, that the running sums are those *)
(* of the window, what a check concludes, and that the hours and the       *)
(* bursts are those of the offline scripts.                                *)
(***************************************************************************)
EXTENDS DriftReports, FiniteSums, SequenceTheorems

IsSeq(s) == s \in Seq(ToSet(s))

AlarmTimes == {c.ts : c \in Alarmed}
Conclusions(ev) == {i \in DOMAIN ev : ev[i].level # "CANDIDATE"}

--------------------------------------------------------------------------------
(* The inductive invariant *)

\* The elements came in the order of time.
RowsInv(rs) ==
  /\ IsSeq(rs) /\ \A i \in DOMAIN rs : rs[i].ts \in Nat
  /\ \A i, j \in DOMAIN rs : i < j => rs[i].ts < rs[j].ts

\* The next element is later than all before it.
IsHour(h) == h \in Nat /\ \E n \in 0..h : h = n * SlotsPerHour
ClockInv ==
  /\ clock \in Nat
  /\ kind # "hourly" => \A i \in DOMAIN rows : rows[i].ts <= clock
  /\ kind = "hourly" =>
       /\ DOMAIN bucket = {"hour", "values"}
       /\ bucket.hour = NoHour => \A i \in DOMAIN rows : rows[i].ts < HourOf(clock + 1)
       /\ bucket.hour # NoHour =>
            /\ IsHour(bucket.hour) /\ bucket.hour <= clock
            /\ \A i \in DOMAIN rows : rows[i].ts < bucket.hour

\* The window has no more elements than came since the last alarm, so two tests of
\* which the first raised one are WMin elements apart.
TimesAt(rs) == {rs[k].ts : k \in DOMAIN rs}
WindowOver(rs, n, alarmTimes, risen) ==
  /\ n \in 0..WMax
  /\ alarmTimes \cup risen \subseteq TimesAt(rs)
  /\ \A a \in DOMAIN rs : rs[a].ts \in alarmTimes => a + n <= Len(rs)
  /\ \A a, b \in DOMAIN rs :
       a < b /\ rs[a].ts \in alarmTimes /\ rs[b].ts \in alarmTimes \cup risen => a + WMin <= b
WindowInv == "n" \in DOMAIN det /\ WindowOver(rows, det.n, AlarmTimes, unraised)

\* A running check has seen the elements since its candidate, and is not at its end.
Running(rs, g) ==
  /\ g.seen \in 0..(K - 1) /\ g.seen < Len(rs)
  /\ rs[Len(rs) - g.seen].ts = g.candidateTs
  /\ Len(g.last) = IF g.seen < MedianSpan THEN g.seen ELSE MedianSpan

\* A check is concluded in time: revoked after MedianSpan to K elements, or confirmed
\* after K.
Concluded(rs, e) ==
  \E a, b \in DOMAIN rs :
    /\ rs[a].ts = e.candidateTs /\ rs[b].ts = e.ts
    /\ \/ e.level = "CONFIRM" /\ b = a + K
       \/ e.level = "REVOKE" /\ a + MedianSpan <= b /\ b <= a + K

IsGate(g) ==
  /\ DOMAIN g = {"last", "pending", "seen", "candidateTs", "origin"}
  /\ IsSeq(g.last) /\ g.pending \in BOOLEAN

\* And it is concluded once.
GateInv(rs, ev, g) ==
  /\ IsGate(g) /\ IsSeq(ev)
  /\ g.pending => Running(rs, g) /\ \A i \in Conclusions(ev) : ev[i].candidateTs # g.candidateTs
  /\ \A i \in Conclusions(ev) : Concluded(rs, ev[i])
  /\ \A i, j \in Conclusions(ev) : ev[i].candidateTs = ev[j].candidateTs => i = j

FeedInv == RowsInv(rows) /\ WindowInv /\ GateInv(rows, events, gate)
DriftInv == ClockInv /\ FeedInv

--------------------------------------------------------------------------------
(* Sequences *)

\* A sequence over some set is one over its own elements.
LEMMA IsSeqOfOwn ==
  ASSUME NEW S, NEW s \in Seq(S)
  PROVE  IsSeq(s)
<1>1. Len(s) \in Nat /\ DOMAIN s = 1..Len(s) /\ s \in [1..Len(s) -> S]
  BY LenProperties
<1>2. \A i \in 1..Len(s) : s[i] \in ToSet(s)
  BY <1>1 DEF ToSet
<1>3. s \in [1..Len(s) -> ToSet(s)]
  BY <1>1, <1>2
<1>. QED
  BY <1>1, <1>3 DEF IsSeq

\* A sequence has its elements at 1 up to its length.
LEMMA SeqDomain ==
  ASSUME NEW s, IsSeq(s)
  PROVE  Len(s) \in Nat /\ DOMAIN s = 1..Len(s)
BY LenProperties DEF IsSeq

\* What appending does.
OneMore(s, t, e) ==
  /\ IsSeq(t) /\ Len(s) \in Nat /\ Len(t) = Len(s) + 1
  /\ DOMAIN s = 1..Len(s) /\ DOMAIN t = 1..(Len(s) + 1)
  /\ \A i \in 1..Len(s) : t[i] = s[i]
  /\ t[Len(s) + 1] = e
\* One element appended at the end.
LEMMA Appended ==
  ASSUME NEW s, IsSeq(s), NEW e, NEW t, t = Append(s, e)
  PROVE  OneMore(s, t, e)
<1>. DEFINE S == ToSet(s) \cup {e}
<1>1. s \in Seq(S) /\ e \in S
  BY SeqMonotonic DEF IsSeq
<1>2. /\ Len(s) \in Nat /\ DOMAIN s = 1..Len(s) /\ t \in Seq(S)
      /\ Len(t) = Len(s) + 1 /\ DOMAIN t = 1..(Len(s) + 1)
      /\ \A i \in 1..Len(s) : t[i] = s[i]
      /\ t[Len(s) + 1] = e
  <2>. HIDE DEF S
  <2>. QED  BY <1>1
<1>3. IsSeq(t)
  BY <1>2, IsSeqOfOwn
<1>. QED  BY <1>2, <1>3 DEF OneMore

\* One element joined at the end.
LEMMA Joined ==
  ASSUME NEW s, IsSeq(s), NEW e, NEW t, t = s \o <<e>>
  PROVE  OneMore(s, t, e)
<1>. DEFINE S == ToSet(s) \cup {e}
<1>1. s \in Seq(S) /\ e \in S
  BY SeqMonotonic DEF IsSeq
<1>. HIDE DEF S
<1>2. t = Append(s, e)
  BY <1>1
<1>. QED  BY <1>2, Appended

\* The output of one look at an element.
AtMostOne(s) == s = <<>> \/ \E e : s = <<e>>
\* Outputs of at most one element joined at once or one after the other.
LEMMA OnesJoined ==
  ASSUME NEW s, IsSeq(s), NEW a, AtMostOne(a), NEW b, AtMostOne(b)
  PROVE  s \o (a \o b) = (s \o a) \o b
<1>1. PICK e : a = <<>> \/ a = <<e>>
  BY DEF AtMostOne
<1>2. PICK f : b = <<>> \/ b = <<f>>
  BY DEF AtMostOne
<1>. DEFINE S == ToSet(s) \cup {e, f}
<1>3. s \in Seq(S) /\ e \in S /\ f \in S
  BY SeqMonotonic DEF IsSeq
<1>. HIDE DEF S
<1>4. <<>> \in Seq(S) /\ <<e>> \in Seq(S) /\ <<f>> \in Seq(S)
  BY <1>3
<1>5. a \in Seq(S) /\ b \in Seq(S)
  BY <1>1, <1>2, <1>4, Zenon
<1>6. ASSUME NEW T, NEW x \in Seq(T), NEW y \in Seq(T), NEW z \in Seq(T)
      PROVE  (x \o y) \o z = x \o (y \o z)
  BY ConcatAssociative
<1>7. (s \o a) \o b = s \o (a \o b)
  BY <1>3, <1>5, <1>6
<1>. QED  BY <1>7, Zenon

--------------------------------------------------------------------------------
(* The detector *)

\* One element more, or none but those after an alarm; tests only on WMin elements.
Updated(d, u) ==
  /\ "n" \in DOMAIN u.det /\ u.det.n \in 0..WMax /\ u.det.n <= d.n + 1
  /\ u.alarm # NoAlarm => u.det.n = 0
  /\ u.alarm # NoAlarm \/ u.unraised => d.n + 1 >= WMin

\* What an element does to the length of the window.
LEMMA UpdateCounts ==
  ASSUME NEW d, "n" \in DOMAIN d, d.n \in 0..WMax, NEW x, NEW u, u = Update(d, x)
  PROVE  Updated(d, u)
<1>1. WMin \in Nat /\ WMax \in Nat /\ WMin <= WMax
  BY OptWinAssumption
<1>. DEFINE a == Append1(d, x)
            e == Evict(a)
<1>2. "n" \in DOMAIN a /\ a.n = d.n + 1
  BY DEF Append1
<1>. HIDE DEF a
<1>3. "n" \in DOMAIN e /\ e.n = IF a.n <= WMax THEN a.n ELSE a.n - 1
  BY <1>2 DEF Evict
<1>. HIDE DEF e
<1>4. e.n \in 0..WMax /\ e.n <= d.n + 1 /\ d.n \in Nat
  BY <1>1, <1>2, <1>3
<1>5. u = Taken(e)
  BY DEF Update, a, e
<1>6. CASE e.n < WMin
  <2>1. u = [det |-> e, alarm |-> NoAlarm, unraised |-> FALSE]
    BY <1>5, <1>6 DEF Taken
  <2>2. u.det = e /\ u.alarm = NoAlarm /\ u.unraised = FALSE
    BY <2>1
  <2>. QED  BY <1>3, <1>4, <2>2 DEF Updated
<1>7. CASE ~ (e.n < WMin)
  <2>. DEFINE b == Split(e)
  <2>1. "n" \in DOMAIN b /\ b.n = e.n
    BY <1>3 DEF Split, MoveBoundary, Shift
  <2>. HIDE DEF b
  <2>2. PICK test : u = Tested(b, test)
    BY <1>5, <1>7 DEF Taken, TestWindow, b
  <2>3. d.n + 1 >= WMin
    BY <1>1, <1>4, <1>7
  <2>4. CASE test = "none"
    <3>1. u.det = b /\ u.alarm = NoAlarm
      BY <2>2, <2>4 DEF Tested
    <3>. QED  BY <1>4, <2>1, <2>3, <3>1 DEF Updated
  <2>5. CASE test # "none"
    <3>1. u.det = Clear(b)
      BY <2>2, <2>5 DEF Tested
    <3>2. "n" \in DOMAIN Clear(b) /\ Clear(b).n = 0
      BY DEF Clear, NewDetector
    <3>. QED  BY <1>1, <1>4, <2>3, <3>1, <3>2 DEF Updated
  <2>. QED  BY <2>4, <2>5
<1>. QED  BY <1>6, <1>7

--------------------------------------------------------------------------------
(* The gate *)

\* A check that has not come to an end, and one that has.
Goes(g, ts, h, o) ==
  /\ g.pending /\ o = <<>> /\ IsGate(h) /\ h.pending /\ h.candidateTs = g.candidateTs
  /\ h.seen = g.seen + 1 /\ h.seen < K
  /\ Len(h.last) = IF h.seen < MedianSpan THEN h.seen ELSE MedianSpan
Ends(g, ts, h, o) ==
  /\ g.pending /\ IsGate(h) /\ ~h.pending
  /\ \E e : /\ o = <<e>> /\ e.ts = ts /\ e.candidateTs = g.candidateTs
            /\ \/ e.level = "CONFIRM" /\ g.seen + 1 = K
               \/ e.level = "REVOKE" /\ MedianSpan <= g.seen + 1 /\ g.seen + 1 <= K
Rests(g, h, o) == ~g.pending /\ o = <<>> /\ h = g

\* The sliding elements of a check.
LEMMA LastGrows ==
  ASSUME NEW s, IsSeq(s), NEW x, NEW n \in Nat,
         Len(s) = IF n < MedianSpan THEN n ELSE MedianSpan,
         NEW t, t = LastOnes(Append(s, x))
  PROVE  IsSeq(t) /\ Len(t) = IF n + 1 < MedianSpan THEN n + 1 ELSE MedianSpan
<1>. DEFINE a == Append(s, x)
<1>1. MedianSpan \in Nat \ {0}
  BY OptWinAssumption
<1>2. IsSeq(a) /\ Len(s) \in Nat /\ Len(a) = Len(s) + 1
  BY Appended DEF OneMore
<1>. HIDE DEF a
<1>3. t = IF Len(a) > MedianSpan THEN Tail(a) ELSE a
  BY DEF LastOnes, a
<1>4. CASE Len(a) > MedianSpan
  <2>1. a \in Seq(ToSet(a)) /\ a # <<>>
    BY <1>1, <1>2, <1>4 DEF IsSeq
  <2>2. Tail(a) \in Seq(ToSet(a)) /\ Len(Tail(a)) = Len(a) - 1
    BY <2>1, HeadTailProperties
  <2>3. IsSeq(t)
    BY <1>3, <1>4, <2>2, IsSeqOfOwn, Zenon
  <2>4. Len(t) = Len(a) - 1
    BY <1>3, <1>4, <2>2, Zenon
  <2>. QED  BY <1>1, <1>2, <1>4, <2>3, <2>4
<1>5. CASE ~ (Len(a) > MedianSpan)
  BY <1>1, <1>2, <1>3, <1>5
<1>. QED  BY <1>4, <1>5

\* A gate that looks at an element goes on with its check, ends it, or has none.
LEMMA CheckDoes ==
  ASSUME NEW g, IsGate(g), NEW rs, g.pending => Running(rs, g), NEW ts, NEW x,
         NEW c, c = Check(g, ts, x)
  PROVE  Goes(g, ts, c.gate, c.out) \/ Ends(g, ts, c.gate, c.out) \/ Rests(g, c.gate, c.out)
<1>1. MedianSpan \in Nat \ {0} /\ K \in Nat /\ MedianSpan <= K
  BY OptWinAssumption
<1>2. CASE ~g.pending
  BY <1>2 DEF Check, Rests
<1>3. CASE g.pending
  <2>. DEFINE last == LastOnes(Append(g.last, x))
              h == [g EXCEPT !.seen = @ + 1, !.last = last]
  <2>1. g.seen \in 0..(K - 1) /\ Len(g.last) = IF g.seen < MedianSpan THEN g.seen ELSE MedianSpan
    BY <1>3 DEF Running
  <2>2. g.seen \in Nat /\ g.seen < K
    BY <1>1, <2>1
  <2>3. IsSeq(last) /\ Len(last) = IF g.seen + 1 < MedianSpan THEN g.seen + 1 ELSE MedianSpan
    BY <2>1, <2>2, LastGrows DEF IsGate
  <2>4. c = Conclude(h, ts, Reached(h))
    BY <1>3 DEF Check, CheckWindow
  <2>. HIDE DEF last
  <2>5. /\ DOMAIN h = {"last", "pending", "seen", "candidateTs", "origin"}
        /\ h.last = last /\ h.seen = g.seen + 1 /\ h.pending = g.pending
        /\ h.candidateTs = g.candidateTs /\ h.origin = g.origin
    BY DEF IsGate
  <2>. HIDE DEF h
  <2>6. IsGate(h)
    BY <1>3, <2>3, <2>5 DEF IsGate
  <2>7. CASE Reached(h) = "none"
    <3>1. c.gate = h /\ c.out = <<>>
      BY <2>4, <2>7 DEF Conclude
    <3>2. Len(h.last) < MedianSpan \/ h.seen # K
      BY <2>7 DEF Reached
    <3>3. h.seen < K
      BY <1>1, <2>2, <2>3, <2>5, <3>2
    <3>4. Len(h.last) = IF h.seen < MedianSpan THEN h.seen ELSE MedianSpan
      BY <2>3, <2>5
    <3>5. Goes(g, ts, c.gate, c.out)
      BY <1>3, <2>5, <2>6, <3>1, <3>3, <3>4 DEF Goes
    <3>. QED  BY <3>5
  <2>8. CASE Reached(h) # "none"
    <3>. DEFINE e == [ts |-> ts, level |-> Reached(h), test |-> h.origin.test,
                      candidateTs |-> h.candidateTs, duringCheck |-> FALSE]
    <3>1. c = [gate |-> [h EXCEPT !.pending = FALSE], out |-> <<e>>]
      BY <2>4, <2>8 DEF Conclude
    <3>2. e.ts = ts /\ e.candidateTs = g.candidateTs /\ e.level = Reached(h)
      BY <2>5
    <3>. HIDE DEF e
    <3>3. c.gate = [h EXCEPT !.pending = FALSE] /\ c.out = <<e>>
      BY <3>1
    <3>4. IsGate(c.gate) /\ ~c.gate.pending
      BY <2>6, <3>3 DEF IsGate
    <3>5. Len(h.last) >= MedianSpan
      BY <1>1, <2>3, <2>5, <2>8 DEF Reached
    <3>6. g.seen + 1 >= MedianSpan
      BY <1>1, <2>2, <2>3, <2>5, <3>5
    <3>7. Reached(h) = "REVOKE" \/ (Reached(h) = "CONFIRM" /\ h.seen = K)
      BY <2>8, Zenon DEF Reached
    <3>8. \/ e.level = "CONFIRM" /\ g.seen + 1 = K
          \/ e.level = "REVOKE" /\ MedianSpan <= g.seen + 1 /\ g.seen + 1 <= K
      BY <1>1, <2>2, <2>5, <3>2, <3>6, <3>7
    <3>9. Ends(g, ts, c.gate, c.out)
      BY <1>3, <3>2, <3>3, <3>4, <3>8, Zenon DEF Ends
    <3>. QED  BY <3>9
  <2>. QED  BY <2>7, <2>8
<1>. QED  BY <1>2, <1>3

\* An alarm is a candidate, and begins a check unless one is running.
Begins(g, ts, h, o) ==
  /\ ~g.pending /\ IsGate(h) /\ h.pending /\ h.last = <<>> /\ h.seen = 0 /\ h.candidateTs = ts
  /\ \E e : o = <<e>> /\ e.level = "CANDIDATE" /\ e.ts = ts
Notes(g, ts, h, o) ==
  /\ g.pending /\ h = g
  /\ \E e : o = <<e>> /\ e.level = "CANDIDATE" /\ e.ts = ts

\* What an alarm does to the gate.
LEMMA CandidateDoes ==
  ASSUME NEW g, IsGate(g), NEW ts, NEW alarm, NEW c, c = Candidate(g, ts, alarm)
  PROVE  \/ alarm = NoAlarm /\ c.gate = g /\ c.out = <<>>
         \/ alarm # NoAlarm /\ (Begins(g, ts, c.gate, c.out) \/ Notes(g, ts, c.gate, c.out))
<1>1. CASE alarm = NoAlarm
  BY <1>1 DEF Candidate
<1>2. CASE alarm # NoAlarm
  <2>. DEFINE e == [ts |-> ts, level |-> "CANDIDATE", test |-> alarm.test,
                    candidateTs |-> ts, duringCheck |-> g.pending]
              h == [last |-> <<>>, pending |-> TRUE, seen |-> 0, candidateTs |-> ts, origin |-> alarm]
  <2>1. c = [gate |-> IF g.pending THEN g ELSE h, out |-> <<e>>]
    BY <1>2 DEF Candidate
  <2>2. e.level = "CANDIDATE" /\ e.ts = ts
    OBVIOUS
  <2>3. /\ DOMAIN h = {"last", "pending", "seen", "candidateTs", "origin"}
        /\ h.last = <<>> /\ h.pending = TRUE /\ h.seen = 0 /\ h.candidateTs = ts
    OBVIOUS
  <2>. HIDE DEF e, h
  <2>4. c.gate = (IF g.pending THEN g ELSE h) /\ c.out = <<e>>
    BY <2>1
  <2>5. IsSeq(h.last)
    BY <2>3, EmptySeq DEF IsSeq
  <2>6. IsGate(h)
    BY <2>3, <2>5 DEF IsGate
  <2>7. CASE g.pending
    <3>1. Notes(g, ts, c.gate, c.out)
      BY <2>2, <2>4, <2>7, Zenon DEF Notes
    <3>. QED  BY <1>2, <3>1
  <2>8. CASE ~g.pending
    <3>1. Begins(g, ts, c.gate, c.out)
      BY <2>2, <2>3, <2>4, <2>6, <2>8, Zenon DEF Begins
    <3>. QED  BY <1>2, <3>1
  <2>. QED  BY <2>7, <2>8
<1>. QED  BY <1>1, <1>2

--------------------------------------------------------------------------------
(* The check at an element *)

Extends1(rs, more, ts) ==
  /\ RowsInv(more) /\ Len(rs) \in Nat /\ Len(more) = Len(rs) + 1
  /\ DOMAIN rs = 1..Len(rs) /\ DOMAIN more = 1..(Len(rs) + 1)
  /\ \A i \in 1..Len(rs) : more[i] = rs[i]
  /\ more[Len(rs) + 1].ts = ts

\* A later element keeps the rows in order.
LEMMA RowsExtend ==
  ASSUME NEW rs, RowsInv(rs), NEW ts \in Nat, \A i \in DOMAIN rs : rs[i].ts < ts,
         NEW x, NEW more, more = Append(rs, [ts |-> ts, x |-> x])
  PROVE  Extends1(rs, more, ts)
<1>. DEFINE e == [ts |-> ts, x |-> x]
<1>1. e.ts = ts
  OBVIOUS
<1>. HIDE DEF e
<1>2. /\ IsSeq(more) /\ Len(rs) \in Nat /\ Len(more) = Len(rs) + 1
      /\ DOMAIN rs = 1..Len(rs) /\ DOMAIN more = 1..(Len(rs) + 1)
      /\ \A i \in 1..Len(rs) : more[i] = rs[i]
      /\ more[Len(rs) + 1] = e
  <2>1. more = Append(rs, e)
    BY DEF e
  <2>. QED  BY <2>1, Appended DEF RowsInv, OneMore
<1>3. \A i \in DOMAIN more : more[i].ts \in Nat
  <2>1. \A i \in DOMAIN more : i \in 1..Len(rs) \/ i = Len(rs) + 1
    BY <1>2
  <2>. QED  BY <1>1, <1>2, <2>1 DEF RowsInv
<1>4. \A i, j \in DOMAIN more : i < j => more[i].ts < more[j].ts
  <2>. SUFFICES ASSUME NEW i \in DOMAIN more, NEW j \in DOMAIN more, i < j
                PROVE  more[i].ts < more[j].ts
    OBVIOUS
  <2>1. i \in 1..Len(rs) /\ more[i] = rs[i]
    BY <1>2
  <2>2. CASE j \in 1..Len(rs)
    BY <1>2, <2>1, <2>2 DEF RowsInv
  <2>3. CASE j = Len(rs) + 1
    BY <1>1, <1>2, <2>1, <2>3
  <2>. QED  BY <1>2, <2>2, <2>3
<1>. QED  BY <1>1, <1>2, <1>3, <1>4 DEF Extends1, RowsInv

\* What was concluded among the elements is so among more.
LEMMA ConcludedStays ==
  ASSUME NEW rs, NEW more, NEW ts, Extends1(rs, more, ts), NEW e, Concluded(rs, e)
  PROVE  Concluded(more, e)
<1>1. PICK a, b \in DOMAIN rs :
        /\ rs[a].ts = e.candidateTs /\ rs[b].ts = e.ts
        /\ \/ e.level = "CONFIRM" /\ b = a + K
           \/ e.level = "REVOKE" /\ a + MedianSpan <= b /\ b <= a + K
  BY DEF Concluded
<1>2. a \in DOMAIN more /\ b \in DOMAIN more /\ more[a] = rs[a] /\ more[b] = rs[b]
  BY DEF Extends1
<1>. QED  BY <1>1, <1>2, Zenon DEF Concluded

\* The candidate of a running check, in the longer stream.
LEMMA CandidateRow ==
  ASSUME NEW rs, NEW more, NEW ts, Extends1(rs, more, ts), NEW g, Running(rs, g)
  PROVE  /\ g.seen \in Nat /\ g.seen < K /\ Len(rs) - g.seen \in 1..Len(rs)
         /\ more[Len(rs) - g.seen].ts = g.candidateTs
<1>1. K \in Nat /\ g.seen \in 0..(K - 1) /\ g.seen < Len(rs) /\ Len(rs) \in Nat
  BY OptWinAssumption DEF Running, Extends1
<1>2. Len(rs) - g.seen \in 1..Len(rs)
  BY <1>1
<1>. QED  BY <1>1, <1>2 DEF Running, Extends1

\* What the gate keeps: only an alarm makes a candidate, of now.
CheckKept(rs, ev, new, g) ==
  /\ GateInv(rs, new, g)
  /\ \A i \in DOMAIN new : (i \in DOMAIN ev /\ new[i] = ev[i]) \/ new[i].level # "CANDIDATE"
CandidateKept(rs, ev, new, g, ts, alarm) ==
  /\ GateInv(rs, new, g)
  /\ \A i \in DOMAIN new :
       (i \in DOMAIN ev /\ new[i] = ev[i]) \/ (alarm # NoAlarm /\ new[i].ts = ts)

\* An element that comes to the gate: its check goes on, or is concluded now.
LEMMA CheckKeeps ==
  ASSUME NEW rs, NEW more, NEW ts, Extends1(rs, more, ts), NEW ev, NEW g, GateInv(rs, ev, g),
         NEW x, NEW c, c = Check(g, ts, x), NEW new, new = ev \o c.out
  PROVE  CheckKept(more, ev, new, c.gate)
<1>. SUFFICES GateInv(more, new, c.gate) /\ \A i \in DOMAIN new :
                (i \in DOMAIN ev /\ new[i] = ev[i]) \/ new[i].level # "CANDIDATE"
  BY Zenon DEF CheckKept
<1>1. Goes(g, ts, c.gate, c.out) \/ Ends(g, ts, c.gate, c.out) \/ Rests(g, c.gate, c.out)
  BY CheckDoes DEF GateInv
<1>2. IsSeq(ev) /\ \A i \in Conclusions(ev) : Concluded(more, ev[i])
  BY ConcludedStays DEF GateInv
<1>3. ASSUME c.out = <<>>
      PROVE  new = ev
  BY <1>2, <1>3, ConcatEmptySeq DEF IsSeq
<1>4. CASE Rests(g, c.gate, c.out)
  <2>1. c.gate = g /\ ~g.pending /\ c.out = <<>>
    BY <1>4 DEF Rests
  <2>2. new = ev
    BY <1>3, <2>1
  <2>3. /\ IsGate(g) /\ IsSeq(ev)
        /\ \A i, j \in Conclusions(ev) : ev[i].candidateTs = ev[j].candidateTs => i = j
    BY Zenon DEF GateInv
  <2>4. GateInv(more, ev, g)
    BY <1>2, <2>1, <2>3, Zenon DEF GateInv
  <2>. QED  BY <2>1, <2>2, <2>4
<1>5. CASE Goes(g, ts, c.gate, c.out)
  <2>1. Running(rs, g) /\ \A i \in Conclusions(ev) : ev[i].candidateTs # g.candidateTs
    BY <1>5, Zenon DEF GateInv, Goes
  <2>2. /\ g.seen \in Nat /\ g.seen < K /\ Len(rs) - g.seen \in 1..Len(rs)
        /\ more[Len(rs) - g.seen].ts = g.candidateTs
    BY <2>1, CandidateRow
  <2>3. Len(more) = Len(rs) + 1 /\ Len(rs) \in Nat /\ K \in Nat
    BY OptWinAssumption DEF Extends1
  <2>4. c.gate.seen = g.seen + 1 /\ c.gate.seen < K /\ c.gate.candidateTs = g.candidateTs
    BY <1>5 DEF Goes
  <2>5. c.gate.seen \in 0..(K - 1) /\ c.gate.seen < Len(more) /\ Len(more) - c.gate.seen = Len(rs) - g.seen
    BY <2>2, <2>3, <2>4
  <2>6. Running(more, c.gate)
    BY <1>5, <2>2, <2>4, <2>5 DEF Running, Goes
  <2>7. IsGate(c.gate)
    BY <1>5 DEF Goes
  <2>8. c.out = <<>>
    BY <1>5 DEF Goes
  <2>9. new = ev
    BY <1>3, <2>8
  <2>10. \A i, j \in Conclusions(ev) : ev[i].candidateTs = ev[j].candidateTs => i = j
    BY Zenon DEF GateInv
  <2>11. \A i \in Conclusions(ev) : ev[i].candidateTs # c.gate.candidateTs
    BY <2>1, <2>4, Zenon
  <2>12. GateInv(more, ev, c.gate)
    BY <1>2, <2>6, <2>7, <2>10, <2>11, Zenon DEF GateInv
  <2>. QED  BY <2>9, <2>12
<1>6. CASE Ends(g, ts, c.gate, c.out)
  <2>1. PICK e : /\ c.out = <<e>> /\ e.ts = ts /\ e.candidateTs = g.candidateTs
                 /\ \/ e.level = "CONFIRM" /\ g.seen + 1 = K
                    \/ e.level = "REVOKE" /\ MedianSpan <= g.seen + 1 /\ g.seen + 1 <= K
    BY <1>6 DEF Ends
  <2>2. OneMore(ev, new, e)
    BY <1>2, <2>1, Joined
  <2>3. /\ IsSeq(new) /\ Len(ev) \in Nat
        /\ DOMAIN ev = 1..Len(ev) /\ DOMAIN new = 1..(Len(ev) + 1)
        /\ \A i \in 1..Len(ev) : new[i] = ev[i]
        /\ new[Len(ev) + 1] = e
    BY <2>2 DEF OneMore
  <2>4. \A i \in DOMAIN new : i \in DOMAIN ev \/ i = Len(ev) + 1
    BY <2>3
  <2>5. e.level # "CANDIDATE"
    BY <2>1
  <2>6. \A i \in DOMAIN new : (i \in DOMAIN ev /\ new[i] = ev[i]) \/ new[i] = e
    BY <2>3, <2>4
  <2>7. Running(rs, g) /\ \A i \in Conclusions(ev) : ev[i].candidateTs # g.candidateTs
    BY <1>6, Zenon DEF GateInv, Ends
  <2>8. Concluded(more, e)
    <3>1. /\ g.seen \in Nat /\ g.seen < K /\ Len(rs) - g.seen \in 1..Len(rs)
          /\ more[Len(rs) - g.seen].ts = g.candidateTs
      BY <2>7, CandidateRow
    <3>2. /\ Len(rs) \in Nat /\ DOMAIN more = 1..(Len(rs) + 1) /\ more[Len(rs) + 1].ts = ts
          /\ K \in Nat /\ MedianSpan \in Nat
      BY OptWinAssumption DEF Extends1
    <3>. DEFINE a == Len(rs) - g.seen
                b == Len(rs) + 1
    <3>3. a \in DOMAIN more /\ b \in DOMAIN more
      BY <3>1, <3>2
    <3>4. more[a].ts = e.candidateTs /\ more[b].ts = e.ts
      BY <2>1, <3>1, <3>2
    <3>5. \/ e.level = "CONFIRM" /\ b = a + K
          \/ e.level = "REVOKE" /\ a + MedianSpan <= b /\ b <= a + K
      BY <2>1, <3>1, <3>2
    <3>. QED  BY <3>3, <3>4, <3>5, Zenon DEF Concluded
  <2>9. \A i \in Conclusions(new) : (i \in Conclusions(ev) /\ new[i] = ev[i]) \/ (i = Len(ev) + 1 /\ new[i] = e)
    BY <2>3, <2>4 DEF Conclusions
  <2>10. \A i \in Conclusions(new) : Concluded(more, new[i])
    BY <1>2, <2>8, <2>9, Zenon
  <2>11. \A i, j \in Conclusions(new) : new[i].candidateTs = new[j].candidateTs => i = j
    <3>. SUFFICES ASSUME NEW i \in Conclusions(new), NEW j \in Conclusions(new),
                         new[i].candidateTs = new[j].candidateTs
                  PROVE  i = j
      OBVIOUS
    <3>1. CASE i \in Conclusions(ev) /\ new[i] = ev[i] /\ j \in Conclusions(ev) /\ new[j] = ev[j]
      BY <3>1, Zenon DEF GateInv
    <3>2. CASE i \in Conclusions(ev) /\ new[i] = ev[i] /\ new[j] = e
      BY <2>1, <2>7, <3>2
    <3>3. CASE new[i] = e /\ j \in Conclusions(ev) /\ new[j] = ev[j]
      BY <2>1, <2>7, <3>3
    <3>4. CASE i = Len(ev) + 1 /\ j = Len(ev) + 1
      BY <3>4
    <3>. QED  BY <2>9, <3>1, <3>2, <3>3, <3>4, Zenon
  <2>12. IsGate(c.gate) /\ ~c.gate.pending
    BY <1>6 DEF Ends
  <2>13. \A i \in DOMAIN new : (i \in DOMAIN ev /\ new[i] = ev[i]) \/ new[i].level # "CANDIDATE"
    BY <2>5, <2>6
  <2>. QED  BY <2>3, <2>10, <2>11, <2>12, <2>13, Zenon DEF GateInv
<1>. QED  BY <1>1, <1>4, <1>5, <1>6

\* An alarm at the newest element: a check that it begins is its own.
LEMMA CandidateKeeps ==
  ASSUME NEW rs, RowsInv(rs), NEW n \in Nat, Len(rs) = n + 1, NEW ts, rs[n + 1].ts = ts,
         NEW ev, NEW g, GateInv(rs, ev, g),
         NEW alarm, NEW c, c = Candidate(g, ts, alarm), NEW new, new = ev \o c.out
  PROVE  CandidateKept(rs, ev, new, c.gate, ts, alarm)
<1>. SUFFICES GateInv(rs, new, c.gate) /\ \A i \in DOMAIN new :
                (i \in DOMAIN ev /\ new[i] = ev[i]) \/ (alarm # NoAlarm /\ new[i].ts = ts)
  BY Zenon DEF CandidateKept
<1>1. \/ alarm = NoAlarm /\ c.gate = g /\ c.out = <<>>
      \/ alarm # NoAlarm /\ (Begins(g, ts, c.gate, c.out) \/ Notes(g, ts, c.gate, c.out))
  BY CandidateDoes DEF GateInv
<1>2. IsSeq(ev) /\ IsGate(g)
  BY DEF GateInv
<1>3. DOMAIN rs = 1..(n + 1) /\ \A i \in 1..n : rs[i].ts < ts /\ ts \in Nat /\ rs[i].ts \in Nat
  <2>1. DOMAIN rs = 1..(n + 1)
    BY SeqDomain DEF RowsInv
  <2>2. n + 1 \in DOMAIN rs /\ \A i \in 1..n : i \in DOMAIN rs /\ i < n + 1
    BY <2>1
  <2>. QED  BY <2>1, <2>2 DEF RowsInv
<1>4. CASE alarm = NoAlarm /\ c.gate = g /\ c.out = <<>>
  <2>1. new = ev
    BY <1>2, <1>4, ConcatEmptySeq DEF IsSeq
  <2>. QED  BY <1>4, <2>1
<1>5. CASE alarm # NoAlarm /\ (Begins(g, ts, c.gate, c.out) \/ Notes(g, ts, c.gate, c.out))
  <2>1. PICK e : c.out = <<e>> /\ e.level = "CANDIDATE" /\ e.ts = ts
    BY <1>5 DEF Begins, Notes
  <2>2. OneMore(ev, new, e)
    BY <1>2, <2>1, Joined
  <2>3. /\ IsSeq(new) /\ Len(ev) \in Nat
        /\ DOMAIN ev = 1..Len(ev) /\ DOMAIN new = 1..(Len(ev) + 1)
        /\ \A i \in 1..Len(ev) : new[i] = ev[i]
        /\ new[Len(ev) + 1] = e
    BY <2>2 DEF OneMore
  <2>4. \A i \in DOMAIN new : (i \in DOMAIN ev /\ new[i] = ev[i]) \/ new[i] = e
    <3>1. \A i \in DOMAIN new : i \in DOMAIN ev \/ i = Len(ev) + 1
      BY <2>3
    <3>. QED  BY <2>3, <3>1
  <2>5. \A i \in Conclusions(new) : i \in Conclusions(ev) /\ new[i] = ev[i]
    BY <2>1, <2>4, Zenon DEF Conclusions
  <2>6. /\ \A i \in Conclusions(ev) : Concluded(rs, ev[i])
        /\ \A i, j \in Conclusions(ev) : ev[i].candidateTs = ev[j].candidateTs => i = j
    BY Zenon DEF GateInv
  <2>7. /\ \A i \in Conclusions(new) : Concluded(rs, new[i])
        /\ \A i, j \in Conclusions(new) : new[i].candidateTs = new[j].candidateTs => i = j
    <3>1. \A i \in Conclusions(new) : Concluded(rs, new[i])
      BY <2>5, <2>6, Zenon
    <3>2. ASSUME NEW i \in Conclusions(new), NEW j \in Conclusions(new),
                 new[i].candidateTs = new[j].candidateTs
          PROVE  i = j
      <4>1. i \in Conclusions(ev) /\ j \in Conclusions(ev) /\ ev[i].candidateTs = ev[j].candidateTs
        BY <2>5, <3>2, Zenon
      <4>. QED  BY <2>6, <4>1, Zenon
    <3>. QED  BY <3>1, <3>2
  <2>8. c.gate.pending => Running(rs, c.gate) /\ \A i \in Conclusions(new) : new[i].candidateTs # c.gate.candidateTs
    <3>1. CASE Notes(g, ts, c.gate, c.out)
      <4>1. c.gate = g
        BY <3>1 DEF Notes
      <4>2. Running(rs, g) /\ \A i \in Conclusions(ev) : ev[i].candidateTs # g.candidateTs
        BY <3>1, Zenon DEF Notes, GateInv
      <4>3. Running(rs, c.gate)
        BY <4>1, <4>2, Zenon
      <4>4. ASSUME NEW i \in Conclusions(new)
            PROVE  new[i].candidateTs # c.gate.candidateTs
        <5>1. i \in Conclusions(ev) /\ new[i] = ev[i]
          BY <2>5
        <5>2. new[i].candidateTs # g.candidateTs
          BY <4>2, <5>1
        <5>. QED  BY <4>1, <5>2
      <4>. QED  BY <4>3, <4>4
    <3>2. CASE Begins(g, ts, c.gate, c.out)
      <4>1. c.gate.seen = 0 /\ c.gate.last = <<>> /\ c.gate.candidateTs = ts
        BY <3>2 DEF Begins
      <4>2. MedianSpan \in Nat \ {0} /\ K \in Nat /\ MedianSpan <= K /\ Len(c.gate.last) = 0
        BY <4>1, OptWinAssumption
      <4>3. Running(rs, c.gate)
        BY <4>1, <4>2 DEF Running
      <4>4. ASSUME NEW i \in Conclusions(new)
            PROVE  new[i].candidateTs # ts
        <5>1. Concluded(rs, new[i])
          BY <2>7
        <5>2. PICK a, b \in DOMAIN rs : rs[a].ts = new[i].candidateTs /\ (b = a + K \/ a + MedianSpan <= b)
          BY <5>1, Zenon DEF Concluded
        <5>3. a \in 1..n
          BY <1>3, <4>2, <5>2
        <5>4. rs[a].ts < ts /\ rs[a].ts \in Nat /\ ts \in Nat
          BY <1>3, <5>3
        <5>5. rs[a].ts # ts
          BY <5>4
        <5>. QED  BY <5>2, <5>5, Zenon
      <4>. QED  BY <4>1, <4>3, <4>4
    <3>. QED  BY <1>5, <3>1, <3>2
  <2>9. IsGate(c.gate)
    BY <1>2, <1>5 DEF Begins, Notes
  <2>10. \A i \in DOMAIN new : (i \in DOMAIN ev /\ new[i] = ev[i]) \/ (alarm # NoAlarm /\ new[i].ts = ts)
    BY <1>5, <2>1, <2>4, Zenon
  <2>. QED  BY <2>3, <2>7, <2>8, <2>9, <2>10, Zenon DEF GateInv
<1>. QED  BY <1>1, <1>4, <1>5

--------------------------------------------------------------------------------
(* An element *)

\* What a feed leaves: its outputs are those of the check, then of the alarm.
Fed(ts, u, c, h) ==
  /\ det' = u.det /\ gate' = h.gate
  /\ events' = (events \o c.out) \o h.out
  /\ unraised' = IF u.unraised THEN unraised \cup {ts} ELSE unraised

\* An element goes to the detector and the check, and then its alarm to the gate.
LEMMA FeedDoes ==
  ASSUME GateInv(rows, events, gate), NEW ts, NEW x, Feed(ts, x),
         NEW u, u = Update(det, x), NEW c, c = Check(gate, ts, x),
         NEW h, h = Candidate(c.gate, ts, u.alarm)
  PROVE  rows' = Append(rows, [ts |-> ts, x |-> x]) /\ Fed(ts, u, c, h)
<1>. DEFINE g == OnElement(gate, ts, x, u.alarm)
<1>1. FeedGate(ts, x, u)
  BY DEF Feed
<1>2. /\ det' = u.det /\ gate' = g.gate /\ events' = events \o g.out
      /\ rows' = Append(rows, [ts |-> ts, x |-> x])
      /\ unraised' = IF u.unraised THEN unraised \cup {ts} ELSE unraised
  BY <1>1 DEF FeedGate
<1>3. g = [gate |-> h.gate, out |-> c.out \o h.out]
  BY DEF OnElement, AfterCheck, After
<1>. HIDE DEF g
<1>4. g.gate = h.gate /\ g.out = c.out \o h.out
  BY <1>3
<1>5. c.out = <<>> \/ \E e : c.out = <<e>>
  <2>1. Goes(gate, ts, c.gate, c.out) \/ Ends(gate, ts, c.gate, c.out) \/ Rests(gate, c.gate, c.out)
    BY CheckDoes DEF GateInv
  <2>. QED  BY <2>1, Zenon DEF Goes, Ends, Rests
<1>6. IsGate(c.gate)
  <2>1. Goes(gate, ts, c.gate, c.out) \/ Ends(gate, ts, c.gate, c.out) \/ Rests(gate, c.gate, c.out)
    BY CheckDoes DEF GateInv
  <2>. QED  BY <2>1, Zenon DEF Goes, Ends, Rests, GateInv
<1>7. h.out = <<>> \/ \E e : h.out = <<e>>
  <2>1. h.out = <<>> \/ Begins(c.gate, ts, h.gate, h.out) \/ Notes(c.gate, ts, h.gate, h.out)
    BY <1>6, CandidateDoes, Zenon
  <2>. QED  BY <2>1, Zenon DEF Begins, Notes
<1>8. events \o (c.out \o h.out) = (events \o c.out) \o h.out
  <2>1. IsSeq(events)
    BY DEF GateInv
  <2>2. AtMostOne(c.out)
    BY <1>5, Zenon DEF AtMostOne
  <2>3. AtMostOne(h.out)
    BY <1>7, Zenon DEF AtMostOne
  <2>4. \A a, b : AtMostOne(a) /\ AtMostOne(b) => events \o (a \o b) = (events \o a) \o b
    BY <2>1, OnesJoined
  <2>. QED  BY <2>2, <2>3, <2>4
<1>. QED  BY <1>2, <1>4, <1>8 DEF Fed

\* A test at the newest element: the window has WMin elements since the last alarm.
LEMMA WindowGrows ==
  ASSUME NEW rs, NEW more, NEW ts \in Nat, Extends1(rs, more, ts),
         NEW n, NEW A, NEW U, WindowOver(rs, n, A, U),
         NEW m \in 0..WMax, m <= n + 1,
         NEW fired, NEW rose, fired => m = 0, fired \/ rose => n + 1 >= WMin,
         NEW B, NEW V, \A t \in B : t \in A \/ (fired /\ t = ts),
         \A t \in V : t \in U \/ (rose /\ t = ts)
  PROVE  WindowOver(more, m, B, V)
<1>1. WMin \in Nat /\ WMax \in Nat /\ n \in Nat /\ m \in Nat /\ Len(rs) \in Nat
  BY OptWinAssumption DEF WindowOver, Extends1
<1>2. /\ DOMAIN rs = 1..Len(rs) /\ DOMAIN more = 1..(Len(rs) + 1) /\ Len(more) = Len(rs) + 1
      /\ \A i \in 1..Len(rs) : more[i] = rs[i]
      /\ more[Len(rs) + 1].ts = ts
      /\ \A i \in 1..Len(rs) : more[i].ts # ts
  <2>1. \A i \in 1..Len(rs) : more[i].ts < ts /\ more[i].ts \in Nat
    <3>1. \A i \in 1..Len(rs) : i \in 1..(Len(rs) + 1) /\ Len(rs) + 1 \in 1..(Len(rs) + 1) /\ i < Len(rs) + 1
      BY <1>1
    <3>. QED  BY <3>1 DEF Extends1, RowsInv
  <2>2. \A i \in 1..Len(rs) : more[i].ts # ts
    BY <2>1
  <2>. QED  BY <2>2 DEF Extends1
<1>3. /\ A \cup U \subseteq TimesAt(rs)
      /\ \A a \in 1..Len(rs) : rs[a].ts \in A => a + n <= Len(rs)
      /\ \A a, b \in 1..Len(rs) : a < b /\ rs[a].ts \in A /\ rs[b].ts \in A \cup U => a + WMin <= b
  BY <1>2 DEF WindowOver
<1>4. ts \notin A \cup U
  BY <1>2, <1>3 DEF TimesAt
<1>5. \A a \in DOMAIN more : a \in 1..Len(rs) \/ a = Len(rs) + 1
  BY <1>1, <1>2
<1>6. \A t \in TimesAt(rs) : t \in TimesAt(more)
  BY <1>1, <1>2 DEF TimesAt
<1>7. ts \in TimesAt(more)
  BY <1>1, <1>2 DEF TimesAt
<1>8. \A a \in 1..Len(rs) : /\ more[a].ts \in B => rs[a].ts \in A
                            /\ more[a].ts \in B \cup V => rs[a].ts \in A \cup U
  BY <1>2
<1>9. B \cup V \subseteq TimesAt(more)
  BY <1>3, <1>6, <1>7
<1>10. ASSUME NEW a \in DOMAIN more, more[a].ts \in B
       PROVE  a + m <= Len(more)
  <2>1. CASE a \in 1..Len(rs)
    <3>1. a + n <= Len(rs)
      BY <1>3, <1>8, <1>10, <2>1
    <3>. QED  BY <1>1, <1>2, <2>1, <3>1
  <2>2. CASE a = Len(rs) + 1
    <3>1. m = 0
      BY <1>2, <1>4, <1>10, <2>2
    <3>. QED  BY <1>1, <1>2, <2>2, <3>1
  <2>. QED  BY <1>5, <2>1, <2>2
<1>11. ASSUME NEW a \in DOMAIN more, NEW b \in DOMAIN more, a < b,
              more[a].ts \in B, more[b].ts \in B \cup V
       PROVE  a + WMin <= b
  <2>1. a \in 1..Len(rs) /\ rs[a].ts \in A
    <3>1. a \in 1..Len(rs)
      BY <1>1, <1>2, <1>11
    <3>. QED  BY <1>8, <1>11, <3>1
  <2>2. CASE b \in 1..Len(rs)
    BY <1>3, <1>8, <1>11, <2>1, <2>2
  <2>3. CASE b = Len(rs) + 1
    <3>1. fired \/ rose
      BY <1>2, <1>4, <1>11, <2>3
    <3>2. a + n <= Len(rs)
      BY <1>3, <2>1
    <3>. QED  BY <1>1, <2>1, <2>3, <3>1, <3>2
  <2>. QED  BY <1>5, <2>2, <2>3
<1>. QED  BY <1>9, <1>10, <1>11 DEF WindowOver

\* What an element does to all of it.
LEMMA FeedKeeps ==
  ASSUME FeedInv, NEW ts \in Nat, \A i \in DOMAIN rows : rows[i].ts < ts, NEW x, Feed(ts, x)
  PROVE  FeedInv' /\ Extends1(rows, rows', ts)
<1>1. PICK u, c, h : u = Update(det, x) /\ c = Check(gate, ts, x) /\ h = Candidate(c.gate, ts, u.alarm)
  OBVIOUS
<1>2. RowsInv(rows) /\ WindowInv /\ GateInv(rows, events, gate)
  BY DEF FeedInv
<1>3. rows' = Append(rows, [ts |-> ts, x |-> x]) /\ Fed(ts, u, c, h)
  BY <1>1, <1>2, FeedDoes, Zenon
<1>4. Extends1(rows, rows', ts)
  BY <1>2, <1>3, RowsExtend
<1>5. PICK mid : mid = events \o c.out
  OBVIOUS
<1>6. /\ det' = u.det /\ gate' = h.gate /\ events' = mid \o h.out
      /\ unraised' = IF u.unraised THEN unraised \cup {ts} ELSE unraised
  BY <1>3, <1>5 DEF Fed
<1>7. /\ GateInv(rows', mid, c.gate)
      /\ \A i \in DOMAIN mid : (i \in DOMAIN events /\ mid[i] = events[i]) \/ mid[i].level # "CANDIDATE"
  <2>1. CheckKept(rows', events, mid, c.gate)
    BY <1>1, <1>2, <1>4, <1>5, CheckKeeps, Zenon
  <2>. QED  BY <2>1, Zenon DEF CheckKept
<1>8. /\ RowsInv(rows') /\ Len(rows) \in Nat /\ Len(rows') = Len(rows) + 1
      /\ rows'[Len(rows) + 1].ts = ts
  BY <1>4 DEF Extends1
<1>9. /\ GateInv(rows', events', gate')
      /\ \A i \in DOMAIN events' :
           (i \in DOMAIN mid /\ events'[i] = mid[i]) \/ (u.alarm # NoAlarm /\ events'[i].ts = ts)
  <2>1. CandidateKept(rows', mid, events', h.gate, ts, u.alarm)
    BY <1>1, <1>6, <1>7, <1>8, CandidateKeeps, Zenon
  <2>. QED  BY <1>6, <2>1 DEF CandidateKept
<1>10. ASSUME NEW t \in AlarmTimes'
       PROVE  t \in AlarmTimes \/ (u.alarm # NoAlarm /\ t = ts)
  <2>1. PICK i \in DOMAIN events' : t = events'[i].ts /\ events'[i].level = "CANDIDATE"
    BY <1>10 DEF AlarmTimes, Alarmed, ToSet
  <2>2. CASE i \in DOMAIN mid /\ events'[i] = mid[i]
    <3>1. i \in DOMAIN events /\ events[i] = events'[i]
      BY <1>7, <2>1, <2>2
    <3>. QED  BY <2>1, <3>1 DEF AlarmTimes, Alarmed, ToSet
  <2>. QED  BY <1>9, <2>1, <2>2
<1>11. Updated(det, u)
  BY <1>1, <1>2, UpdateCounts DEF WindowInv, WindowOver
<1>12. /\ "n" \in DOMAIN u.det /\ u.det.n \in 0..WMax /\ u.det.n <= det.n + 1
       /\ u.alarm # NoAlarm => u.det.n = 0
       /\ u.alarm # NoAlarm \/ u.unraised => det.n + 1 >= WMin
  BY <1>11 DEF Updated
<1>13. \A t \in unraised' : t \in unraised \/ (u.unraised /\ t = ts)
  BY <1>6
<1>14. WindowOver(rows', u.det.n, AlarmTimes', unraised')
  <2>1. WindowOver(rows, det.n, AlarmTimes, unraised)
    BY <1>2 DEF WindowInv
  <2>. HIDE DEF AlarmTimes
  <2>2. \A t \in AlarmTimes' : t \in AlarmTimes \/ (u.alarm # NoAlarm /\ t = ts)
    BY <1>10
  <2>3. PICK fired : fired = (u.alarm # NoAlarm)
    OBVIOUS
  <2>. QED  BY <1>4, <1>12, <1>13, <2>1, <2>2, WindowGrows
<1>15. WindowInv'
  BY <1>6, <1>12, <1>14 DEF WindowInv
<1>. QED  BY <1>4, <1>8, <1>9, <1>15 DEF FeedInv

--------------------------------------------------------------------------------
(* The clock *)

\* The hour of a time is the last one that has begun.
LEMMA HourIsLast ==
  ASSUME NEW t \in Nat
  PROVE  IsHour(HourOf(t)) /\ HourOf(t) <= t /\ t < HourOf(t) + SlotsPerHour
<1>1. SlotsPerHour \in Nat /\ SlotsPerHour > 0
  BY StreamAssumption
<1>. DEFINE n == t \div SlotsPerHour
<1>2. n \in Nat /\ n * SlotsPerHour <= t /\ t < n * SlotsPerHour + SlotsPerHour
  BY <1>1
<1>. HIDE DEF n
<1>3. HourOf(t) = n * SlotsPerHour
  BY DEF HourOf, n
<1>4. n * SlotsPerHour \in Nat /\ n <= n * SlotsPerHour
  BY <1>1, <1>2
<1>. QED  BY <1>2, <1>3, <1>4 DEF IsHour

\* Hours are an hour apart.
LEMMA HoursApart ==
  ASSUME NEW g, NEW h, IsHour(g), IsHour(h), g < h + SlotsPerHour
  PROVE  g <= h
<1>1. SlotsPerHour \in Nat /\ SlotsPerHour > 0
  BY StreamAssumption
<1>2. PICK m \in Nat, n \in Nat : g = m * SlotsPerHour /\ h = n * SlotsPerHour
  BY DEF IsHour
<1>3. m <= n
  <2>. SUFFICES ASSUME n + 1 <= m
                PROVE  FALSE
    BY <1>2
  <2>1. (n + 1) * SlotsPerHour <= m * SlotsPerHour
    BY <1>1, <1>2
  <2>2. (n + 1) * SlotsPerHour = n * SlotsPerHour + SlotsPerHour
    BY <1>1, <1>2
  <2>. QED  BY <1>1, <1>2, <2>1, <2>2
<1>. QED  BY <1>1, <1>2, <1>3

\* What no element reaches stays.
LEMMA FeedStays == FeedInv /\ UNCHANGED stream => FeedInv'
BY DEF FeedInv, stream, WindowInv, AlarmTimes, Alarmed

\* The stream begins empty, with no check and no alarm.
LEMMA Initially == LayersInit => DriftInv
<1>. SUFFICES ASSUME Init PROVE DriftInv
  BY DEF LayersInit
<1>1. /\ rows = <<>> /\ events = <<>> /\ det = NewDetector /\ gate = NewGate /\ unraised = {}
      /\ clock = 0 /\ bucket = [hour |-> NoHour, values |-> <<>>]
  BY DEF Init
<1>2. IsSeq(<<>>) /\ DOMAIN <<>> = {}
  BY EmptySeq DEF IsSeq
<1>3. ClockInv
  BY <1>1, <1>2 DEF ClockInv
<1>4. RowsInv(rows)
  BY <1>1, <1>2 DEF RowsInv
<1>5. AlarmTimes = {}
  BY <1>1, <1>2 DEF AlarmTimes, Alarmed, ToSet
<1>6. WindowInv
  <2>1. "n" \in DOMAIN det /\ det.n = 0
    BY <1>1 DEF NewDetector
  <2>2. 0 \in 0..WMax
    BY OptWinAssumption
  <2>. QED  BY <1>1, <1>2, <1>5, <2>1, <2>2 DEF WindowInv, WindowOver
<1>7. GateInv(rows, events, gate)
  <2>1. IsGate(gate) /\ ~gate.pending
    BY <1>1, <1>2 DEF NewGate, IsGate
  <2>2. Conclusions(events) = {}
    BY <1>1, <1>2 DEF Conclusions
  <2>. QED  BY <1>1, <1>2, <2>1, <2>2 DEF GateInv
<1>. QED  BY <1>3, <1>4, <1>6, <1>7 DEF DriftInv, FeedInv

\* Ten minutes pass without a window: only the clock moves.
LEMMA NothingKeeps == DriftInv /\ Nothing => DriftInv'
<1>. SUFFICES ASSUME ClockInv, FeedInv, Nothing PROVE ClockInv' /\ FeedInv'
  BY DEF DriftInv
<1>1. /\ clock' = clock + 1 /\ UNCHANGED <<kind, stream, bucket>> /\ rows' = rows
  BY DEF Nothing, hours, stream
<1>2. FeedInv'
  BY <1>1, FeedStays
<1>3. clock \in Nat /\ \A i \in DOMAIN rows : rows[i].ts \in Nat
  BY DEF ClockInv, FeedInv, RowsInv
<1>4. HourOf(clock + 1) <= HourOf(clock + 2)
  <2>1. /\ IsHour(HourOf(clock + 1)) /\ IsHour(HourOf(clock + 2))
        /\ HourOf(clock + 1) <= clock + 1 /\ clock + 2 < HourOf(clock + 2) + SlotsPerHour
    BY <1>3, HourIsLast
  <2>2. HourOf(clock + 1) \in Nat /\ HourOf(clock + 2) \in Nat /\ SlotsPerHour \in Nat
    BY <2>1, StreamAssumption DEF IsHour
  <2>3. HourOf(clock + 1) < HourOf(clock + 2) + SlotsPerHour
    BY <1>3, <2>1, <2>2
  <2>. QED  BY <2>1, <2>3, HoursApart
<1>5. HourOf(clock + 1) \in Nat /\ HourOf(clock + 2) \in Nat
  BY <1>3, HourIsLast DEF IsHour
<1>6. ClockInv'
  <2>1. clock' \in Nat /\ clock' + 1 = clock + 2
    BY <1>1, <1>3
  <2>2. kind' # "hourly" => \A i \in DOMAIN rows' : rows'[i].ts <= clock'
    BY <1>1, <1>3 DEF ClockInv
  <2>3. ASSUME kind' = "hourly"
        PROVE  /\ DOMAIN bucket' = {"hour", "values"}
               /\ bucket'.hour = NoHour => \A i \in DOMAIN rows' : rows'[i].ts < HourOf(clock' + 1)
               /\ bucket'.hour # NoHour =>
                    /\ IsHour(bucket'.hour) /\ bucket'.hour <= clock'
                    /\ \A i \in DOMAIN rows' : rows'[i].ts < bucket'.hour
    <3>1. /\ kind = "hourly" /\ bucket' = bucket
      BY <1>1, <2>3
    <3>2. DOMAIN bucket' = {"hour", "values"}
      BY <3>1 DEF ClockInv
    <3>3. CASE bucket.hour = NoHour
      <4>1. \A i \in DOMAIN rows : rows[i].ts < HourOf(clock + 1)
        BY <3>1, <3>3 DEF ClockInv
      <4>2. \A i \in DOMAIN rows : rows[i].ts < HourOf(clock + 2)
        BY <1>3, <1>4, <1>5, <4>1
      <4>. QED  BY <1>1, <2>1, <3>1, <3>2, <3>3, <4>2
    <3>4. CASE bucket.hour # NoHour
      <4>1. /\ IsHour(bucket.hour) /\ bucket.hour <= clock
            /\ \A i \in DOMAIN rows : rows[i].ts < bucket.hour
        BY <3>1, <3>4 DEF ClockInv
      <4>2. bucket.hour <= clock + 1
        BY <1>3, <4>1 DEF IsHour
      <4>. QED  BY <1>1, <3>1, <3>2, <3>4, <4>1, <4>2
    <3>. QED  BY <3>3, <3>4
  <2>. QED  BY <2>1, <2>2, <2>3 DEF ClockInv
<1>. QED  BY <1>2, <1>6

\* An element of now, where each is given at once.
LEMMA NowKeeps ==
  ASSUME DriftInv, kind # "hourly", UNCHANGED kind, clock' = clock + 1, NEW x,
         Feed(clock + 1, x) \/ UNCHANGED stream
  PROVE  DriftInv'
<1>1. ClockInv /\ FeedInv /\ clock \in Nat /\ \A i \in DOMAIN rows : rows[i].ts \in Nat
  BY DEF DriftInv, ClockInv, FeedInv, RowsInv
<1>2. \A i \in DOMAIN rows : rows[i].ts <= clock
  BY <1>1 DEF ClockInv
<1>3. CASE Feed(clock + 1, x)
  <2>1. clock + 1 \in Nat /\ \A i \in DOMAIN rows : rows[i].ts < clock + 1
    BY <1>1, <1>2
  <2>2. FeedInv' /\ Extends1(rows, rows', clock + 1)
    BY <1>1, <1>3, <2>1, FeedKeeps
  <2>3. \A i \in DOMAIN rows' : rows'[i].ts <= clock + 1
    <3>1. \A i \in DOMAIN rows' : i \in 1..Len(rows) \/ i = Len(rows) + 1
      BY <2>2 DEF Extends1
    <3>2. \A i \in 1..Len(rows) : rows'[i].ts <= clock + 1
      BY <1>1, <2>1, <2>2 DEF Extends1
    <3>3. rows'[Len(rows) + 1].ts <= clock + 1
      BY <1>1, <2>2 DEF Extends1
    <3>. QED  BY <3>1, <3>2, <3>3
  <2>. QED  BY <1>1, <2>1, <2>2, <2>3 DEF DriftInv, ClockInv
<1>4. CASE UNCHANGED stream
  <2>1. FeedInv' /\ rows' = rows
    BY <1>1, <1>4, FeedStays DEF stream
  <2>. QED  BY <1>1, <1>2, <2>1 DEF DriftInv, ClockInv
<1>. QED  BY <1>3, <1>4

\* A ten-minute score is an element of now.
LEMMA ScoreWindowKeeps == DriftInv /\ (\E x \in Values : ScoreWindow(x)) => DriftInv'
BY NowKeeps DEF ScoreWindow, Arrives

\* So is an outlier rate; a bin without rounds is none.
LEMMA OutlierBinKeeps == DriftInv /\ (\E b \in Bins : OutlierBin(b)) => DriftInv'
<1>. SUFFICES ASSUME DriftInv, NEW b \in Bins, OutlierBin(b) PROVE DriftInv'
  OBVIOUS
<1>1. kind # "hourly" /\ UNCHANGED kind /\ clock' = clock + 1
  BY DEF OutlierBin, Arrives
<1>2. CASE b.admitted = 0
  BY <1>1, <1>2, NowKeeps DEF OutlierBin
<1>3. CASE b.admitted # 0
  <2>1. RateElement(clock + 1, Rate(b), b)
    BY <1>3 DEF OutlierBin
  <2>2. Feed(clock + 1, Rate(b))
    BY <2>1, Zenon DEF RateElement, Feed
  <2>. QED  BY <1>1, <2>2, NowKeeps
<1>. QED  BY <1>2, <1>3

\* The element of an hour that is closed.
LEMMA HourCloses ==
  ASSUME DriftInv, kind = "hourly", bucket.hour # NoHour, NEW x, Feed(bucket.hour, x)
  PROVE  FeedInv' /\ \A i \in DOMAIN rows' : rows'[i].ts <= bucket.hour /\ rows'[i].ts \in Nat
<1>1. bucket.hour \in Nat /\ \A i \in DOMAIN rows : rows[i].ts < bucket.hour
  BY DEF DriftInv, ClockInv, IsHour
<1>2. FeedInv' /\ Extends1(rows, rows', bucket.hour)
  BY <1>1, FeedKeeps DEF DriftInv
<1>3. \A i \in DOMAIN rows' : rows'[i].ts \in Nat
  BY <1>2 DEF Extends1, RowsInv
<1>4. \A i \in DOMAIN rows' : i \in 1..Len(rows) \/ i = Len(rows) + 1
  BY <1>2 DEF Extends1
<1>5. \A i \in 1..Len(rows) : rows'[i].ts < bucket.hour
  BY <1>1, <1>2 DEF Extends1
<1>6. rows'[Len(rows) + 1].ts = bucket.hour
  BY <1>2 DEF Extends1
<1>7. ASSUME NEW i \in DOMAIN rows'
      PROVE  rows'[i].ts <= bucket.hour
  BY <1>1, <1>3, <1>4, <1>5, <1>6
<1>. QED  BY <1>2, <1>3, <1>7

\* A window of another hour closes the open one, which ended before it.
LEMMA HourWindowKeeps == DriftInv /\ (\E x \in Values : HourWindow(x)) => DriftInv'
<1>. SUFFICES ASSUME DriftInv, NEW x \in Values, HourWindow(x) PROVE DriftInv'
  OBVIOUS
<1>. DEFINE ts == clock + 1
            hour == HourOf(ts)
<1>1. /\ kind = "hourly" /\ kind' = kind /\ clock' = ts
      /\ IF bucket.hour # NoHour /\ bucket.hour # hour
           THEN Feed(bucket.hour, Median(bucket.values)) ELSE UNCHANGED stream
      /\ bucket' = IF bucket.hour = hour THEN [bucket EXCEPT !.values = Append(@, x)]
                                         ELSE [hour |-> hour, values |-> <<x>>]
  BY DEF HourWindow, Arrives
<1>2. /\ FeedInv /\ clock \in Nat /\ ts \in Nat /\ DOMAIN bucket = {"hour", "values"}
      /\ \A i \in DOMAIN rows : rows[i].ts \in Nat
  BY <1>1 DEF DriftInv, ClockInv, FeedInv, RowsInv
<1>3. IsHour(hour) /\ hour \in Nat /\ hour <= ts /\ ts < hour + SlotsPerHour
  BY <1>2, HourIsLast DEF IsHour
<1>4. hour # NoHour
  BY <1>3 DEF NoHour
<1>. HIDE DEF hour
<1>5. DOMAIN bucket' = {"hour", "values"} /\ bucket'.hour = hour
  BY <1>1, <1>2
<1>6. FeedInv' /\ \A i \in DOMAIN rows' : rows'[i].ts < hour
  <2>1. CASE bucket.hour # NoHour /\ bucket.hour # hour
    <3>1. FeedInv' /\ \A i \in DOMAIN rows' : rows'[i].ts <= bucket.hour /\ rows'[i].ts \in Nat
      BY <1>1, <2>1, HourCloses
    <3>2. IsHour(bucket.hour) /\ bucket.hour \in Nat /\ bucket.hour <= clock
      BY <1>1, <2>1 DEF DriftInv, ClockInv, IsHour
    <3>3. bucket.hour < hour + SlotsPerHour
      BY <1>2, <1>3, <3>2, StreamAssumption
    <3>4. bucket.hour < hour
      BY <1>3, <2>1, <3>2, <3>3, HoursApart
    <3>. QED  BY <1>3, <3>1, <3>2, <3>4
  <2>2. CASE ~ (bucket.hour # NoHour /\ bucket.hour # hour)
    <3>1. FeedInv' /\ rows' = rows
      BY <1>1, <1>2, <2>2, FeedStays DEF stream
    <3>2. CASE bucket.hour = NoHour
      <4>1. \A i \in DOMAIN rows : rows[i].ts < hour
        BY <1>1, <3>2 DEF DriftInv, ClockInv, hour
      <4>. QED  BY <3>1, <4>1
    <3>3. CASE bucket.hour # NoHour
      <4>1. \A i \in DOMAIN rows : rows[i].ts < bucket.hour
        BY <1>1, <3>3 DEF DriftInv, ClockInv
      <4>. QED  BY <2>2, <3>1, <3>3, <4>1
    <3>. QED  BY <3>2, <3>3
  <2>. QED  BY <2>1, <2>2
<1>. QED  BY <1>1, <1>2, <1>3, <1>4, <1>5, <1>6 DEF DriftInv, ClockInv

\* The timer closes its hour two hours later, before any hour still to come.
LEMMA HourTimerKeeps == DriftInv /\ HourTimer => DriftInv'
<1>. SUFFICES ASSUME DriftInv, HourTimer PROVE DriftInv'
  OBVIOUS
<1>1. PICK t \in timers :
        /\ kind = "hourly" /\ t <= clock /\ UNCHANGED <<kind, clock>>
        /\ IF Closes(t)
             THEN Feed(bucket.hour, Median(bucket.values)) /\ bucket' = [hour |-> NoHour, values |-> <<>>]
             ELSE UNCHANGED <<stream, bucket>>
  BY DEF HourTimer
<1>2. FeedInv /\ clock \in Nat /\ SlotsPerHour \in Nat
  BY StreamAssumption DEF DriftInv, ClockInv
<1>3. CASE Closes(t)
  <2>1. bucket.hour # NoHour /\ bucket.hour + 2 * SlotsPerHour <= clock
    BY <1>1, <1>3 DEF Closes, Fallback
  <2>2. FeedInv' /\ \A i \in DOMAIN rows' : rows'[i].ts <= bucket.hour /\ rows'[i].ts \in Nat
    BY <1>1, <1>3, <2>1, HourCloses
  <2>3. bucket.hour \in Nat
    BY <1>1, <2>1 DEF DriftInv, ClockInv, IsHour
  <2>4. HourOf(clock + 1) \in Nat /\ clock + 1 < HourOf(clock + 1) + SlotsPerHour
    BY <1>2, HourIsLast DEF IsHour
  <2>5. bucket.hour < HourOf(clock + 1)
    <3>1. bucket.hour + SlotsPerHour < HourOf(clock + 1)
      BY <1>2, <2>1, <2>3, <2>4
    <3>. QED  BY <1>2, <2>3, <2>4, <3>1
  <2>6. \A i \in DOMAIN rows' : rows'[i].ts < HourOf(clock + 1)
    BY <2>2, <2>3, <2>4, <2>5
  <2>7. DOMAIN bucket' = {"hour", "values"} /\ bucket'.hour = NoHour
    BY <1>1, <1>3
  <2>8. clock' = clock /\ kind' = "hourly"
    BY <1>1
  <2>. QED  BY <1>2, <2>2, <2>6, <2>7, <2>8 DEF DriftInv, ClockInv
<1>4. CASE ~ Closes(t)
  <2>1. UNCHANGED <<kind, clock, stream, bucket, rows>>
    BY <1>1, <1>4 DEF stream
  <2>2. FeedInv'
    BY <1>2, <2>1, FeedStays
  <2>. QED  BY <2>1, <2>2 DEF DriftInv, ClockInv
<1>. QED  BY <1>3, <1>4

\* Every step of the specification keeps the invariant.
LEMMA StepKeeps == DriftInv /\ [LayersNext]_<<vars, dayVars>> => DriftInv'
<1>. SUFFICES ASSUME DriftInv, [LayersNext]_<<vars, dayVars>> PROVE DriftInv'
  OBVIOUS
<1>1. CASE Next
  <2>1. CASE Nothing
    BY <2>1, NothingKeeps
  <2>2. CASE \E x \in Values : ScoreWindow(x) \/ HourWindow(x)
    BY <2>2, ScoreWindowKeeps, HourWindowKeeps, Zenon
  <2>3. CASE HourTimer
    BY <2>3, HourTimerKeeps
  <2>4. CASE \E b \in Bins : OutlierBin(b)
    BY <2>4, OutlierBinKeeps
  <2>. QED  BY <1>1, <2>1, <2>2, <2>3, <2>4, Zenon DEF Next
<1>2. CASE UNCHANGED vars
  <2>1. FeedInv'
    BY <1>2, FeedStays DEF DriftInv, vars, stream
  <2>. QED  BY <1>2, <2>1 DEF vars, DriftInv, ClockInv
<1>. QED  BY <1>1, <1>2, Zenon DEF LayersNext

\* In every run, whatever the stream and the constants: the elements of a device come in
\* the order of time, two tests of which the first raised an alarm lie WMin elements
\* apart, and a check is concluded at most once, revoked after MedianSpan to K elements
\* or confirmed at the K-th after its candidate (M5bFunction.feed, run_stream).
THEOREM DriftInvariant == LayersSpec => []DriftInv
<1>1. LayersInit => DriftInv
  BY Initially
<1>2. DriftInv /\ [LayersNext]_<<vars, dayVars>> => DriftInv'
  BY StepKeeps
<1>. QED  BY <1>1, <1>2, PTL DEF LayersSpec

--------------------------------------------------------------------------------
(* The blind spot *)

\* The element at the end of a blind interval.
EndOfBlind(a) == IF a + WMin <= Len(rows) THEN a + WMin ELSE Len(rows)

\* A blind interval of the report lies between two rows, of which the first is an alarm.
LEMMA BlindEnds ==
  ASSUME FeedInv, NEW b \in BlindIntervals(Online, It)
  PROVE  \E a \in DOMAIN rows : /\ rows[a].ts \in AlarmTimes /\ b.start = rows[a].ts
                                /\ b.end = rows[EndOfBlind(a)].ts
<1>. DEFINE times == Online.times[It]
<1>1. Len(rows) \in Nat /\ DOMAIN rows = 1..Len(rows)
  BY SeqDomain DEF FeedInv, RowsInv
<1>2. times = [i \in 1..Len(rows) |-> rows[i].ts]
  BY <1>1 DEF Online, Devices, TimesOf
<1>3. Len(times) = Len(rows) /\ DOMAIN times = 1..Len(rows) /\ \A i \in 1..Len(rows) : times[i] = rows[i].ts
  BY <1>1, <1>2
<1>. HIDE DEF times
<1>4. PICK c \in Own(Candidates(Online), It) :
        b = [start |-> c.ts,
             end |-> LET i == IndexIn(times, c.ts) + WMin
                     IN  times[IF i <= Len(times) THEN i ELSE Len(times)]]
  BY Zenon DEF BlindIntervals, times
<1>5. c.ts \in AlarmTimes
  <2>1. c \in WithDevice(It, events) /\ c.level = "CANDIDATE"
    BY DEF Own, Candidates, Level, Online
  <2>2. PICK e \in ToSet(events) : c.ts = e.ts /\ c.level = e.level
    BY <2>1 DEF WithDevice
  <2>. QED  BY <2>1, <2>2 DEF AlarmTimes, Alarmed
<1>6. \E i \in DOMAIN times : times[i] = c.ts
  <2>1. c.ts \in TimesAt(rows)
    BY <1>5 DEF FeedInv, WindowInv, WindowOver
  <2>. QED  BY <1>1, <1>3, <2>1 DEF TimesAt
<1>7. PICK a : a = IndexIn(times, c.ts)
  OBVIOUS
<1>8. a \in DOMAIN times /\ times[a] = c.ts
  BY <1>6, <1>7 DEF IndexIn
<1>9. a \in DOMAIN rows /\ rows[a].ts = c.ts /\ EndOfBlind(a) \in DOMAIN rows
  BY <1>1, <1>3, <1>8, OptWinAssumption DEF EndOfBlind
<1>10. b.start = c.ts /\ b.end = times[EndOfBlind(a)]
  BY <1>3, <1>4, <1>7 DEF EndOfBlind
<1>. QED  BY <1>1, <1>3, <1>5, <1>9, <1>10

\* Nothing that is a test WMin elements after the alarm lies before the end.
LEMMA BlindIsEmpty ==
  ASSUME FeedInv, NEW a \in DOMAIN rows, rows[a].ts \in AlarmTimes, NEW t \in AlarmTimes \cup unraised
  PROVE  ~ (rows[a].ts < t /\ t < rows[EndOfBlind(a)].ts)
<1>1. Len(rows) \in Nat /\ DOMAIN rows = 1..Len(rows) /\ WMin \in Nat
  BY SeqDomain, OptWinAssumption DEF FeedInv, RowsInv
<1>2. /\ \A i \in DOMAIN rows : rows[i].ts \in Nat
      /\ \A i, j \in DOMAIN rows : i < j => rows[i].ts < rows[j].ts
  BY DEF FeedInv, RowsInv
<1>3. /\ AlarmTimes \cup unraised \subseteq TimesAt(rows)
      /\ \A i, j \in DOMAIN rows :
           i < j /\ rows[i].ts \in AlarmTimes /\ rows[j].ts \in AlarmTimes \cup unraised => i + WMin <= j
  BY DEF FeedInv, WindowInv, WindowOver
<1>4. PICK j \in DOMAIN rows : rows[j].ts = t
  BY <1>3 DEF TimesAt
<1>. SUFFICES ASSUME rows[a].ts < t
              PROVE  ~ (t < rows[EndOfBlind(a)].ts)
  OBVIOUS
<1>5. a < j
  <2>1. CASE j < a
    BY <1>2, <1>4, <2>1
  <2>2. CASE j = a
    BY <1>2, <1>4, <2>2
  <2>. QED  BY <1>1, <2>1, <2>2
<1>6. a + WMin <= j
  BY <1>3, <1>4, <1>5
<1>7. EndOfBlind(a) \in DOMAIN rows /\ EndOfBlind(a) <= j
  BY <1>1, <1>6 DEF EndOfBlind
<1>8. rows[EndOfBlind(a)].ts <= rows[j].ts
  BY <1>1, <1>2, <1>7
<1>. QED  BY <1>2, <1>4, <1>7, <1>8

\* WithinHour a blind interval of the report the detector raises no alarm and counts no rise
\* of the variance without the mean, for any stream, table of cuts, critical values and
\* WMin (run_grid.blind_intervals against OptWinDetector.update).
THEOREM BlindIsBlind == LayersSpec => []BlindMeansBlind
<1>1. DriftInv => BlindMeansBlind
  <2>. SUFFICES ASSUME FeedInv, NEW b \in BlindIntervals(Online, It)
                PROVE  /\ \A c \in Alarmed : ~(b.start < c.ts /\ c.ts < b.end)
                       /\ \A t \in unraised : ~(b.start < t /\ t < b.end)
    BY DEF DriftInv, BlindMeansBlind
  <2>1. PICK a \in DOMAIN rows : /\ rows[a].ts \in AlarmTimes /\ b.start = rows[a].ts
                                 /\ b.end = rows[EndOfBlind(a)].ts
    BY BlindEnds
  <2>2. \A t \in AlarmTimes \cup unraised : ~(b.start < t /\ t < b.end)
    BY <2>1, BlindIsEmpty
  <2>3. \A c \in Alarmed : c.ts \in AlarmTimes
    BY DEF AlarmTimes
  <2>. QED  BY <2>2, <2>3
<1>. QED  BY <1>1, DriftInvariant, PTL

--------------------------------------------------------------------------------
(* The sums of the detector *)

\* Total and Squares are such sums.
LEMMA TotalSums ==
  ASSUME NEW S, IsFiniteSet(S), NEW f, \A i \in S : f[i] \in Int
  PROVE  \E g : Sums(g, f, S) /\ Total(S, f) = g[S]
<1>1. PICK h : Folds(h, f, SUBSET S)
  BY FoldExists
<1>. DEFINE P(g) == g = [s \in SUBSET S |->
                          IF s = {} THEN 0
                          ELSE f[CHOOSE x \in s : TRUE] + g[s \ {CHOOSE x \in s : TRUE}]]
<1>2. \A g : P(g) <=> Folds(g, f, SUBSET S)
  BY DEF Folds, Folded, OneOf
<1>3. PICK g : g = CHOOSE q : P(q)
  OBVIOUS
<1>4. Total(S, f) = g[S]
  BY <1>3 DEF Total, MapThenSumSet, MapThenFoldSet
<1>5. P(g)
  <2>. HIDE DEF P
  <2>. QED  BY <1>1, <1>2, <1>3, Zenon
<1>6. Sums(g, f, S)
  <2>. HIDE DEF P
  <2>1. Folds(g, f, SUBSET S)
    BY <1>2, <1>5
  <2>. QED  BY <2>1, FoldSums
<1>. QED  BY <1>4, <1>6

\* The squares of the terms over S.
SquaredAt(f, S) == [i \in S |-> f[i] * f[i]]

\* A sum of squares is the sum of the squares.
LEMMA SquaresSum ==
  ASSUME NEW S, IsFiniteSet(S), NEW f, \A i \in S : f[i] \in Int
  PROVE  Squares(S, f) = Total(S, SquaredAt(f, S))
<1>. DEFINE v == SquaredAt(f, S)
            P(g) == g = [s \in SUBSET S |->
                          IF s = {} THEN 0
                          ELSE f[CHOOSE x \in s : TRUE] * f[CHOOSE x \in s : TRUE]
                                 + g[s \ {CHOOSE x \in s : TRUE}]]
            Q(g) == g = [s \in SUBSET S |->
                          IF s = {} THEN 0
                          ELSE v[CHOOSE x \in s : TRUE] + g[s \ {CHOOSE x \in s : TRUE}]]
<1>1. \A s \in SUBSET S : s # {} => v[CHOOSE x \in s : TRUE] = f[CHOOSE x \in s : TRUE] * f[CHOOSE x \in s : TRUE]
  <2>1. \A s \in SUBSET S : s # {} => (CHOOSE x \in s : TRUE) \in S
    OBVIOUS
  <2>2. \A x \in S : v[x] = f[x] * f[x]
    BY DEF SquaredAt
  <2>. HIDE DEF v
  <2>. QED  BY <2>1, <2>2
<1>. HIDE DEF v
<1>2. \A g : P(g) <=> Q(g)
  <2>. SUFFICES ASSUME NEW g
                PROVE  P(g) <=> Q(g)
    OBVIOUS
  <2>1. [s \in SUBSET S |->
                          IF s = {} THEN 0
                          ELSE f[CHOOSE x \in s : TRUE] * f[CHOOSE x \in s : TRUE]
                                 + g[s \ {CHOOSE x \in s : TRUE}]]
        = [s \in SUBSET S |->
                          IF s = {} THEN 0
                          ELSE v[CHOOSE x \in s : TRUE] + g[s \ {CHOOSE x \in s : TRUE}]]
    BY <1>1
  <2>. QED  BY <2>1
<1>3. (CHOOSE g : P(g)) = (CHOOSE g : Q(g))
  <2>. HIDE DEF P, Q
  <2>. QED  BY <1>2
<1>4. Squares(S, f) = (CHOOSE g : P(g))[S]
  BY DEF Squares, MapThenSumSet, MapThenFoldSet
<1>5. Total(S, v) = (CHOOSE g : Q(g))[S]
  BY DEF Total, MapThenSumSet, MapThenFoldSet
<1>. QED  BY <1>3, <1>4, <1>5 DEF v

\* A sum is a number, that of nothing is 0, and any term may be taken out.
LEMMA TotalFacts ==
  ASSUME NEW S, IsFiniteSet(S), NEW f, \A i \in S : f[i] \in Int
  PROVE  /\ Total(S, f) \in Int /\ (S = {} => Total(S, f) = 0)
         /\ \A x \in S : Total(S, f) = f[x] + Total(S \ {x}, f)
<1>1. PICK g : Sums(g, f, S) /\ Total(S, f) = g[S]
  BY TotalSums
<1>2. ASSUME NEW x \in S
      PROVE  Total(S, f) = f[x] + Total(S \ {x}, f)
  <2>. DEFINE T == S \ {x}
  <2>1. IsFiniteSet(T) /\ T \subseteq S
    BY FS_Subset
  <2>. HIDE DEF T
  <2>2. PICK h : Sums(h, f, T) /\ Total(T, f) = h[T]
    BY <2>1, TotalSums
  <2>3. h[T] = g[T]
    BY <1>1, <2>1, <2>2, SumsAgree
  <2>4. g[S] = f[x] + g[S \ {x}]
    BY <1>1 DEF Sums
  <2>. QED  BY <1>1, <2>2, <2>3, <2>4 DEF T
<1>. QED  BY <1>1, <1>2 DEF Sums

\* Sums over intervals.
IntsOn(f, a, b) == \A i \in a..b : f[i] \in Int

\* The sum over an empty interval.
LEMMA TotalOfNone ==
  ASSUME NEW a \in Int, NEW b \in Int, b < a, NEW f
  PROVE  Total(a..b, f) = 0
<1>1. a..b = {}
  OBVIOUS
<1>2. Total({}, f) = 0
  BY TotalFacts, FS_EmptySet
<1>. QED  BY <1>1, <1>2

\* A sum over an interval, with its last term apart.
LEMMA TotalLast ==
  ASSUME NEW a \in Int, NEW b \in Int, a <= b, NEW f, IntsOn(f, a, b)
  PROVE  Total(a..b, f) = Total(a..(b - 1), f) + f[b] /\ Total(a..(b - 1), f) \in Int
<1>1. IsFiniteSet(a..b) /\ IsFiniteSet(a..(b - 1)) /\ \A i \in a..b : f[i] \in Int
  BY FS_Interval DEF IntsOn
<1>2. b \in a..b /\ a..b \ {b} = a..(b - 1)
  OBVIOUS
<1>3. Total(a..b, f) = f[b] + Total(a..b \ {b}, f)
  BY <1>1, <1>2, TotalFacts
<1>4. \A i \in a..(b - 1) : f[i] \in Int
  BY <1>1
<1>5. Total(a..(b - 1), f) \in Int
  BY <1>1, <1>4, TotalFacts
<1>6. f[b] \in Int
  BY <1>1, <1>2
<1>7. Total(a..b, f) = f[b] + Total(a..(b - 1), f)
  BY <1>2, <1>3, Zenon
<1>. DEFINE t == Total(a..b, f)
            r == Total(a..(b - 1), f)
            y == f[b]
<1>8. t = y + r /\ r \in Int /\ y \in Int
  BY <1>5, <1>6, <1>7
<1>9. t = r + y /\ r \in Int
  <2>. HIDE DEF t, r, y
  <2>. QED  BY <1>8
<1>. QED  BY <1>9

\* A sum of numbers is a number.
LEMMA TotalInt ==
  ASSUME NEW a \in Int, NEW b \in Int, NEW f, IntsOn(f, a, b)
  PROVE  Total(a..b, f) \in Int
BY TotalFacts, FS_Interval DEF IntsOn

\* The same terms, at other places.
LEMMA TotalMoved ==
  ASSUME NEW a \in Int, NEW b \in Int, NEW k \in Int, NEW f, NEW h, IntsOn(h, a, b),
         \A i \in a..b : f[i + k] = h[i]
  PROVE  Total((a + k)..(b + k), f) = Total(a..b, h)
<1>1. CASE b < a
  BY <1>1, TotalOfNone
<1>2. CASE ~ (b < a)
  <2>. DEFINE n == b - a + 1
              Good == {i \in 0..n : Total((a + k)..(a + i - 1 + k), f) = Total(a..(a + i - 1), h)}
  <2>1. n \in Nat
    BY <1>2
  <2>2. 0 \in Good
    <3>1. Total((a + k)..(a + 0 - 1 + k), f) = 0 /\ Total(a..(a + 0 - 1), h) = 0
      BY TotalOfNone
    <3>. QED  BY <2>1, <3>1
  <2>3. ASSUME NEW i \in 1..n, i - 1 \in Good
        PROVE  i \in Good
    <3>. DEFINE c == a + i - 1
    <3>1. c \in Int /\ a <= c /\ c <= b /\ c + k \in Int /\ a + k <= c + k /\ a + k \in Int
      OBVIOUS
    <3>2. IntsOn(h, a, c) /\ IntsOn(f, a + k, c + k) /\ f[c + k] = h[c]
      <4>1. \A j \in a..c : j \in a..b
        BY <3>1
      <4>2. \A j \in (a + k)..(c + k) : j - k \in a..b /\ (j - k) + k = j
        BY <3>1
      <4>. HIDE DEF c
      <4>3. \A j \in (a + k)..(c + k) : f[j] \in Int
        <5>. SUFFICES ASSUME NEW j \in (a + k)..(c + k)
                      PROVE  f[j] \in Int
          OBVIOUS
        <5>1. j - k \in a..b /\ (j - k) + k = j
          BY <4>2
        <5>2. f[(j - k) + k] = h[j - k]
          BY <5>1
        <5>. QED  BY <5>1, <5>2 DEF IntsOn
      <4>4. c \in a..b
        BY <3>1
      <4>. QED  BY <4>1, <4>3, <4>4 DEF IntsOn
    <3>3. Total((a + k)..((c - 1) + k), f) = Total(a..(c - 1), h)
      <4>1. a + (i - 1) - 1 + k = (c - 1) + k /\ a + (i - 1) - 1 = c - 1
        OBVIOUS
      <4>. HIDE DEF c
      <4>. QED  BY <2>3, <4>1
    <3>. HIDE DEF c
    <3>4. Total(a..c, h) = Total(a..(c - 1), h) + h[c]
      BY <3>1, <3>2, TotalLast
    <3>5. Total((a + k)..(c + k), f) = Total((a + k)..(c + k - 1), f) + f[c + k]
      BY <3>1, <3>2, TotalLast
    <3>6. c + k - 1 = (c - 1) + k
      BY <3>1
    <3>7. Total((a + k)..(c + k), f) = Total(a..c, h)
      BY <3>2, <3>3, <3>4, <3>5, <3>6
    <3>. QED  BY <3>7 DEF c
  <2>4. n \in Good
    <3>1. \A i \in 0..n : i \in Good
      <4>. HIDE DEF Good, n
      <4>. QED  BY <2>1, <2>2, <2>3, EachUpTo
    <3>2. n \in 0..n
      BY <2>1
    <3>. HIDE DEF Good, n
    <3>. QED  BY <3>1, <3>2
  <2>5. a + n - 1 = b /\ a + n - 1 + k = b + k
    OBVIOUS
  <2>6. Total((a + k)..(a + n - 1 + k), f) = Total(a..(a + n - 1), h)
    BY <2>4
  <2>. HIDE DEF n
  <2>. QED  BY <2>5, <2>6
<1>. QED  BY <1>1, <1>2

\* The sums of the same terms are the same.
LEMMA TotalSame ==
  ASSUME NEW a \in Int, NEW b \in Int, NEW f, NEW h, IntsOn(h, a, b), \A i \in a..b : f[i] = h[i]
  PROVE  Total(a..b, f) = Total(a..b, h)
<1>1. PICK k \in Int : k = 0
  OBVIOUS
<1>2. (\A i \in a..b : i + k = i) /\ a + k = a /\ b + k = b
  BY <1>1
<1>3. \A i \in a..b : f[i + k] = h[i]
  BY <1>2
<1>4. Total((a + k)..(b + k), f) = Total(a..b, h)
  <2>. HIDE DEF IntsOn
  <2>. QED  BY <1>3, TotalMoved
<1>. QED  BY <1>2, <1>4

\* One interval after the other.
LEMMA TotalParts ==
  ASSUME NEW a \in Int, NEW b \in Int, NEW c \in Int, a <= b + 1, b <= c, NEW f, IntsOn(f, a, c)
  PROVE  Total(a..c, f) = Total(a..b, f) + Total((b + 1)..c, f)
<1>. DEFINE n == c - b
            Good == {i \in 0..n : Total(a..(b + i), f) = Total(a..b, f) + Total((b + 1)..(b + i), f)}
<1>1. n \in Nat
  OBVIOUS
<1>2. Total(a..b, f) \in Int
  <2>1. \A i \in a..b : i \in a..c
    OBVIOUS
  <2>. QED  BY <2>1, TotalInt DEF IntsOn
<1>3. 0 \in Good
  <2>1. Total((b + 1)..(b + 0), f) = 0
    BY TotalOfNone
  <2>2. b + 0 = b
    OBVIOUS
  <2>. QED  BY <1>1, <1>2, <2>1, <2>2
<1>4. ASSUME NEW i \in 1..n, i - 1 \in Good
      PROVE  i \in Good
  <2>. DEFINE d == b + i
  <2>1. d \in Int /\ a <= d /\ b + 1 <= d /\ d <= c /\ b + (i - 1) = d - 1
    OBVIOUS
  <2>. HIDE DEF d
  <2>2. IntsOn(f, a, d) /\ IntsOn(f, b + 1, d)
    BY <2>1 DEF IntsOn
  <2>3. Total(a..(d - 1), f) = Total(a..b, f) + Total((b + 1)..(d - 1), f)
    BY <1>4, <2>1
  <2>4. Total(a..d, f) = Total(a..(d - 1), f) + f[d]
    BY <2>1, <2>2, TotalLast
  <2>5. /\ Total((b + 1)..d, f) = Total((b + 1)..(d - 1), f) + f[d]
        /\ Total((b + 1)..(d - 1), f) \in Int
    BY <2>1, <2>2, TotalLast
  <2>6. f[d] \in Int
    BY <2>1, <2>2 DEF IntsOn
  <2>7. Total(a..d, f) = Total(a..b, f) + Total((b + 1)..d, f)
    BY <1>2, <2>3, <2>4, <2>5, <2>6
  <2>. QED  BY <2>7 DEF d
<1>5. n \in Good
  <2>1. \A i \in 0..n : i \in Good
    <3>. HIDE DEF Good, n
    <3>. QED  BY <1>1, <1>3, <1>4, EachUpTo
  <2>. QED  BY <1>1, <2>1
<1>6. b + n = c
  OBVIOUS
<1>7. Total(a..(b + n), f) = Total(a..b, f) + Total((b + 1)..(b + n), f)
  BY <1>5
<1>. HIDE DEF n
<1>. QED  BY <1>6, <1>7

--------------------------------------------------------------------------------
(* The window of the detector *)

\* Detectors with numbers in every place of the ring.
Detectors ==
  [buf : [0..WMax -> Int], head : 0..WMax, n : Nat, h : Nat,
   sumH : Int, sqH : Int, sumN : Int, sqN : Int]

\* The squares of a window.
Squared(w) == [i \in DOMAIN w |-> w[i] * w[i]]

\* The place of the element after i others from the head.
Slot(h, i) == IF h + i <= WMax THEN h + i ELSE h + i - Capacity

\* The ring holds the window w of n elements, and the sums are those of its parts.
Ring(d, w, n) == d.n = n /\ \A i \in 1..n : d.buf[Slot(d.head, i - 1)] = w[i]
Halves(d, w, n) ==
  /\ d.h <= n
  /\ d.sumH = Total(1..d.h, w) /\ d.sqH = Total(1..d.h, Squared(w))
  /\ d.sumN = Total((d.h + 1)..n, w) /\ d.sqN = Total((d.h + 1)..n, Squared(w))
Describes(d, w, n) == d \in Detectors /\ w \in [1..n -> Int] /\ Ring(d, w, n) /\ Halves(d, w, n)

\* The squares of a window.
LEMMA SquaredInts ==
  ASSUME NEW n \in Nat, NEW w \in [1..n -> Int]
  PROVE  Squared(w) \in [1..n -> Int] /\ \A i \in 1..n : Squared(w)[i] = w[i] * w[i]
BY DEF Squared

\* Their sum over a part of it.
LEMMA SquaresAreTotals ==
  ASSUME NEW n \in Nat, NEW w \in [1..n -> Int], NEW a \in Int, NEW b \in Int, 1 <= a, b <= n
  PROVE  Squares(a..b, w) = Total(a..b, Squared(w))
<1>1. \A i \in a..b : i \in 1..n
  OBVIOUS
<1>2. \A i \in a..b : w[i] \in Int
  BY <1>1
<1>3. Squares(a..b, w) = Total(a..b, SquaredAt(w, a..b))
  BY <1>2, SquaresSum, FS_Interval
<1>4. \A i \in a..b : SquaredAt(w, a..b)[i] = Squared(w)[i]
  BY <1>1, SquaredInts DEF SquaredAt
<1>5. IntsOn(Squared(w), a, b)
  BY <1>1, SquaredInts DEF IntsOn
<1>. QED  BY <1>3, <1>4, <1>5, TotalSame

\* The ring has a place for each element, one for each.
LEMMA SlotIs ==
  ASSUME NEW h \in 0..WMax, NEW i \in 0..WMax
  PROVE  /\ (h + i) % Capacity = Slot(h, i) /\ Slot(h, i) \in 0..WMax
         /\ \A j \in 0..WMax : Slot(h, i) = Slot(h, j) => i = j
<1>1. WMax \in Nat
  BY OptWinAssumption
<1>2. (h + i) % Capacity = IF h + i <= WMax THEN h + i ELSE h + i - Capacity
  BY <1>1 DEF Capacity
<1>. QED  BY <1>1, <1>2 DEF Capacity, Slot

\* A detector by its fields.
Rec(b, p, n, h, s, q, t, r) ==
  [buf |-> b, head |-> p, n |-> n, h |-> h, sumH |-> s, sqH |-> q, sumN |-> t, sqN |-> r]

\* A detector is the record of its fields.
LEMMA DetectorIs ==
  ASSUME NEW d \in Detectors
  PROVE  /\ d = Rec(d.buf, d.head, d.n, d.h, d.sumH, d.sqH, d.sumN, d.sqN)
         /\ d.buf \in [0..WMax -> Int] /\ d.head \in 0..WMax /\ d.n \in Nat /\ d.h \in Nat
         /\ d.sumH \in Int /\ d.sqH \in Int /\ d.sumN \in Int /\ d.sqN \in Int
BY DEF Detectors, Rec

\* And a record of such fields is a detector.
LEMMA RecTyped ==
  ASSUME NEW b \in [0..WMax -> Int], NEW p \in 0..WMax, NEW n \in Nat, NEW h \in Nat,
         NEW s \in Int, NEW q \in Int, NEW t \in Int, NEW r \in Int
  PROVE  Rec(b, p, n, h, s, q, t, r) \in Detectors
BY DEF Detectors, Rec

\* A longer window, a half at a time: the part behind h grows by its last element.
LEMMA PartGrows ==
  ASSUME NEW n \in Nat, NEW w \in [1..n -> Int], NEW v \in [1..(n + 1) -> Int],
         \A i \in 1..n : v[i] = w[i], NEW h \in 0..n
  PROVE  /\ Total((h + 1)..(n + 1), v) = Total((h + 1)..n, w) + v[n + 1]
         /\ Total(1..h, v) = Total(1..h, w)
<1>1. IntsOn(v, h + 1, n + 1)
  BY DEF IntsOn
<1>2. Total((h + 1)..(n + 1), v) = Total((h + 1)..((n + 1) - 1), v) + v[n + 1]
  BY <1>1, TotalLast
<1>3. (n + 1) - 1 = n
  OBVIOUS
<1>4. Total((h + 1)..n, v) = Total((h + 1)..n, w)
  <2>1. IntsOn(w, h + 1, n) /\ \A i \in (h + 1)..n : v[i] = w[i]
    BY DEF IntsOn
  <2>. QED  BY <2>1, TotalSame
<1>5. Total(1..h, v) = Total(1..h, w)
  <2>1. IntsOn(w, 1, h) /\ \A i \in 1..h : v[i] = w[i]
    BY DEF IntsOn
  <2>. QED  BY <2>1, TotalSame
<1>. QED  BY <1>2, <1>3, <1>4, <1>5

\* A window with x after its n elements.
Longer(w, n, x) == [i \in 1..(n + 1) |-> IF i <= n THEN w[i] ELSE x]

\* The element that is appended is the last of the window and of its new part
\* (Detector.append).
LEMMA AppendDescribes ==
  ASSUME NEW n \in 0..WMax, NEW d, NEW w, Describes(d, w, n), NEW x \in Int
  PROVE  /\ Describes(Append1(d, x), Longer(w, n, x), n + 1)
         /\ Append1(d, x).h = d.h
<1>. DEFINE v == Longer(w, n, x)
            e == Append1(d, x)
            at == Slot(d.head, n)
            b == [d.buf EXCEPT ![at] = x]
            q == x * x
<1>1. /\ d \in Detectors /\ w \in [1..n -> Int] /\ n \in Nat /\ WMax \in Nat
      /\ d.n = n /\ d.h \in Nat /\ d.h <= n /\ d.head \in 0..WMax
      /\ d.buf \in [0..WMax -> Int]
  BY OptWinAssumption DEF Describes, Ring, Halves, Detectors
<1>2. at \in 0..WMax /\ (d.head + d.n) % Capacity = at
  BY <1>1, SlotIs, Zenon
<1>3. e = [d EXCEPT !.buf = b, !.n = @ + 1, !.sumN = @ + x, !.sqN = @ + q]
  BY <1>2 DEF Append1
<1>4. q \in Int /\ b \in [0..WMax -> Int]
  BY <1>1, <1>2
<1>. HIDE DEF at, q
<1>5. /\ e.buf = b /\ e.n = n + 1 /\ e.h = d.h /\ e.head = d.head
      /\ e.sumH = d.sumH /\ e.sqH = d.sqH /\ e.sumN = d.sumN + x /\ e.sqN = d.sqN + q
      /\ e \in Detectors
  <2>. HIDE DEF b
  <2>1. e = Rec(b, d.head, d.n + 1, d.h, d.sumH, d.sqH, d.sumN + x, d.sqN + q)
    <3>1. d = Rec(d.buf, d.head, d.n, d.h, d.sumH, d.sqH, d.sumN, d.sqN)
      BY <1>1, DetectorIs
    <3>. QED  BY <1>3, <3>1 DEF Rec
  <2>2. d.sumH \in Int /\ d.sqH \in Int /\ d.sumN \in Int /\ d.sqN \in Int
    BY <1>1, DetectorIs, Zenon
  <2>3. d.n + 1 \in Nat
    BY <1>1
  <2>4. d.sumN + x \in Int /\ d.sqN + q \in Int
    BY <1>4, <2>2
  <2>. HIDE DEF e
  <2>5. e \in Detectors
    BY <1>1, <1>4, <2>1, <2>2, <2>3, <2>4, RecTyped, Zenon
  <2>6. /\ e.buf = b /\ e.head = d.head /\ e.n = d.n + 1 /\ e.h = d.h
        /\ e.sumH = d.sumH /\ e.sqH = d.sqH /\ e.sumN = d.sumN + x /\ e.sqN = d.sqN + q
    BY <2>1 DEF Rec
  <2>. QED  BY <1>1, <2>5, <2>6
<1>. HIDE DEF e
<1>6. /\ v \in [1..(n + 1) -> Int] /\ v[n + 1] = x /\ \A i \in 1..n : v[i] = w[i]
  BY <1>1 DEF Longer
<1>7. \A i \in 1..n : d.buf[Slot(d.head, i - 1)] = w[i]
  BY DEF Describes, Ring
<1>. HIDE DEF v
<1>8. Ring(e, v, n + 1)
  <2>1. ASSUME NEW i \in 1..(n + 1)
        PROVE  e.buf[Slot(e.head, i - 1)] = v[i]
    <3>. DEFINE p == Slot(d.head, i - 1)
    <3>1. i - 1 \in 0..WMax /\ n \in 0..WMax
      BY <1>1
    <3>4. p \in 0..WMax /\ (p = at <=> i - 1 = n)
      BY <1>1, <3>1, SlotIs DEF at
    <3>. HIDE DEF p
    <3>6. CASE i <= n
      <4>1. i \in 1..n
        BY <1>1, <3>6
      <4>2. e.buf[p] = d.buf[p]
        BY <1>1, <1>5, <3>4, <4>1
      <4>. QED  BY <1>5, <1>6, <1>7, <4>1, <4>2 DEF p
    <3>7. CASE ~ (i <= n)
      <4>1. i = n + 1
        BY <1>1, <3>7
      <4>2. e.buf[p] = x
        BY <1>1, <1>5, <3>4, <4>1
      <4>. QED  BY <1>5, <1>6, <4>1, <4>2 DEF p
    <3>. QED  BY <3>6, <3>7
  <2>. QED  BY <1>5, <2>1 DEF Ring
<1>9. Halves(e, v, n + 1)
  <2>1. d.h \in 0..n
    BY <1>1
  <2>2. /\ Total((d.h + 1)..(n + 1), v) = Total((d.h + 1)..n, w) + v[n + 1]
        /\ Total(1..d.h, v) = Total(1..d.h, w)
    BY <1>1, <1>6, <2>1, PartGrows, ZenonT(60)
  <2>3. /\ Squared(w) \in [1..n -> Int] /\ Squared(v) \in [1..(n + 1) -> Int]
        /\ \A i \in 1..n : Squared(v)[i] = Squared(w)[i]
        /\ Squared(v)[n + 1] = q
    <3>1. n + 1 \in Nat /\ \A i \in 1..n : i \in 1..(n + 1)
      BY <1>1
    <3>2. /\ Squared(w) \in [1..n -> Int] /\ Squared(v) \in [1..(n + 1) -> Int]
          /\ \A i \in 1..n : Squared(w)[i] = w[i] * w[i]
          /\ \A i \in 1..(n + 1) : Squared(v)[i] = v[i] * v[i]
      BY <1>1, <1>6, <3>1, SquaredInts
    <3>3. n + 1 \in 1..(n + 1)
      BY <1>1
    <3>. QED  BY <1>6, <3>1, <3>2, <3>3 DEF q
  <2>4. /\ Total((d.h + 1)..(n + 1), Squared(v)) = Total((d.h + 1)..n, Squared(w)) + Squared(v)[n + 1]
        /\ Total(1..d.h, Squared(v)) = Total(1..d.h, Squared(w))
    <3>. DEFINE u == Squared(w)
                y == Squared(v)
    <3>1. u \in [1..n -> Int] /\ y \in [1..(n + 1) -> Int] /\ \A i \in 1..n : y[i] = u[i]
      BY <2>3
    <3>. HIDE DEF u, y
    <3>2. n \in Nat
      BY <1>1
    <3>3. /\ Total((d.h + 1)..(n + 1), y) = Total((d.h + 1)..n, u) + y[n + 1]
          /\ Total(1..d.h, y) = Total(1..d.h, u)
      BY ONLY <2>1, <3>1, <3>2, PartGrows, ZenonT(60)
    <3>. QED  BY <3>3 DEF u, y
  <2>5. /\ d.sumH = Total(1..d.h, w) /\ d.sqH = Total(1..d.h, Squared(w))
        /\ d.sumN = Total((d.h + 1)..n, w) /\ d.sqN = Total((d.h + 1)..n, Squared(w))
    BY DEF Describes, Halves
  <2>6. e.h <= n + 1
    BY <1>1, <1>5
  <2>. QED  BY <1>5, <1>6, <2>2, <2>3, <2>4, <2>5, <2>6 DEF Halves
<1>10. Describes(e, v, n + 1)
  BY <1>5, <1>6, <1>8, <1>9 DEF Describes
<1>. QED  BY <1>5, <1>10 DEF e, v

\* A sum over an interval, with its first term apart.
LEMMA TotalFirst ==
  ASSUME NEW a \in Int, NEW b \in Int, a <= b, NEW f, IntsOn(f, a, b)
  PROVE  Total(a..b, f) = f[a] + Total((a + 1)..b, f)
<1>1. IsFiniteSet(a..b) /\ \A i \in a..b : f[i] \in Int
  BY FS_Interval DEF IntsOn
<1>2. a \in a..b /\ a..b \ {a} = (a + 1)..b
  OBVIOUS
<1>3. Total(a..b, f) = f[a] + Total(a..b \ {a}, f)
  BY <1>1, <1>2, TotalFacts
<1>. QED  BY <1>2, <1>3, Zenon

\* The same terms, one place further.
OnePlaceOn(f, h, a, b) == \A i \in a..b : f[i + 1] = h[i]

\* Their sums are the same.
LEMMA TotalNext ==
  ASSUME NEW a \in Int, NEW b \in Int, NEW f, NEW h, IntsOn(h, a, b), OnePlaceOn(f, h, a, b)
  PROVE  Total((a + 1)..(b + 1), f) = Total(a..b, h)
<1>1. PICK k \in Int : k = 1
  OBVIOUS
<1>2. \A i \in a..b : f[i + k] = h[i]
  BY <1>1 DEF OnePlaceOn
<1>3. Total((a + k)..(b + k), f) = Total(a..b, h)
  <2>. HIDE DEF IntsOn
  <2>. QED  BY <1>2, TotalMoved
<1>. QED  BY <1>1, <1>3, Zenon

\* A window without its first element, a part at a time.
LEMMA PartMoves ==
  ASSUME NEW n \in Nat, NEW w \in [1..(n + 1) -> Int], NEW v \in [1..n -> Int],
         \A i \in 1..n : v[i] = w[i + 1], NEW h \in 1..(n + 1)
  PROVE  /\ Total(1..h, w) = w[1] + Total(1..(h - 1), v)
         /\ Total((h + 1)..(n + 1), w) = Total(((h - 1) + 1)..n, v)
         /\ Total(1..(h - 1), v) \in Int
<1>1. Total(1..h, w) = w[1] + Total((1 + 1)..h, w)
  <2>1. IntsOn(w, 1, h)
    BY DEF IntsOn
  <2>. QED  BY <2>1, TotalFirst
<1>2. Total((1 + 1)..((h - 1) + 1), w) = Total(1..(h - 1), v)
  <2>1. IntsOn(v, 1, h - 1) /\ 1 \in Int /\ h - 1 \in Int /\ OnePlaceOn(w, v, 1, h - 1)
    BY DEF IntsOn, OnePlaceOn
  <2>. HIDE DEF IntsOn, OnePlaceOn
  <2>. QED  BY <2>1, TotalNext
<1>3. Total((h + 1)..(n + 1), w) = Total(h..n, v)
  <2>1. IntsOn(v, h, n) /\ h \in Int /\ n \in Int /\ OnePlaceOn(w, v, h, n)
    BY DEF IntsOn, OnePlaceOn
  <2>. HIDE DEF IntsOn, OnePlaceOn
  <2>. QED  BY <2>1, TotalNext
<1>4. (h - 1) + 1 = h
  OBVIOUS
<1>5. Total(1..(h - 1), v) \in Int
  <2>1. IntsOn(v, 1, h - 1)
    BY DEF IntsOn
  <2>. QED  BY <2>1, TotalInt
<1>. QED  BY <1>1, <1>2, <1>3, <1>4, <1>5

\* A window without its first element.
Without1st(w, n) == [i \in 1..n |-> w[i + 1]]

\* What is assumed of the lengths and the cuts: each part has two elements at least.
LEMMA CutFacts ==
  /\ WMin \in Nat /\ WMax \in Nat /\ 4 <= WMin /\ WMin <= WMax
  /\ \A n \in WMin..WMax : Cut[n] \in Nat /\ 2 <= Cut[n] /\ Cut[n] + 2 <= n
<1>1. /\ WMin \in Nat /\ WMax \in Nat /\ WMin <= WMax
      /\ \A n \in WMin..WMax : Cut[n] \in Nat /\ 2 <= Cut[n] /\ Cut[n] + 2 <= n
  BY OptWinAssumption DEF Windows
<1>2. WMin \in WMin..WMax
  BY <1>1
<1>3. Cut[WMin] \in Nat /\ 2 <= Cut[WMin] /\ Cut[WMin] + 2 <= WMin
  BY <1>1, <1>2
<1>. QED  BY <1>1, <1>3

\* The oldest element leaves when there are too many.
LEMMA EvictDescribes ==
  ASSUME NEW d, NEW w, Describes(d, w, WMax + 1)
  PROVE  Describes(Evict(d), Without1st(w, WMax), WMax)
<1>. DEFINE v == Without1st(w, WMax)
            e == Evict(d)
            y == w[1]
            q == Squared(w)[1]
<1>0. d \in Detectors /\ w \in [1..(WMax + 1) -> Int] /\ d.n = WMax + 1 /\ d.h <= WMax + 1
  BY Zenon DEF Describes, Ring, Halves
<1>1. /\ d \in Detectors /\ w \in [1..(WMax + 1) -> Int] /\ WMax \in Nat /\ 4 <= WMax
      /\ d.n = WMax + 1 /\ d.h \in Nat /\ d.h <= WMax + 1 /\ d.head \in 0..WMax
      /\ d.buf \in [0..WMax -> Int]
  <2>1. WMax \in Nat /\ 4 <= WMax
    BY CutFacts
  <2>. QED  BY <1>0, <2>1, DetectorIs, Zenon
<1>2. d.sumH \in Int /\ d.sqH \in Int /\ d.sumN \in Int /\ d.sqN \in Int
  BY <1>1, DetectorIs, Zenon
<1>3. /\ v \in [1..WMax -> Int] /\ \A i \in 1..WMax : v[i] = w[i + 1]
  BY <1>1 DEF Without1st
<1>4. \A i \in 1..(WMax + 1) : d.buf[Slot(d.head, i - 1)] = w[i]
  BY DEF Describes, Ring
<1>5. d.buf[d.head] = y /\ q = y * y /\ y \in Int /\ q \in Int
  <2>1. 1 \in 1..(WMax + 1) /\ WMax + 1 \in Nat /\ Slot(d.head, 1 - 1) = d.head
    <3>1. d.head + (1 - 1) = d.head /\ d.head <= WMax
      BY <1>1
    <3>2. Slot(d.head, 1 - 1) = d.head
      BY <3>1, Zenon DEF Slot
    <3>. QED  BY <1>1, <3>2
  <2>2. Squared(w) \in [1..(WMax + 1) -> Int] /\ Squared(w)[1] = w[1] * w[1]
    BY <1>1, <2>1, SquaredInts, Zenon
  <2>. QED  BY <1>1, <1>4, <2>1, <2>2
<1>6. (d.head + 1) % Capacity = Slot(d.head, 1) /\ Slot(d.head, 1) \in 0..WMax
  <2>1. 1 \in 0..WMax
    BY <1>1
  <2>. QED  BY <1>1, <2>1, SlotIs, Zenon
<1>. DEFINE p == Slot(d.head, 1)
<1>7. \A i \in 1..WMax : Slot(p, i - 1) = Slot(d.head, i)
  <2>1. d.head \in 0..WMax /\ WMax \in Nat
    BY <1>1
  <2>. QED  BY <2>1 DEF Slot, Capacity
<1>. HIDE DEF y, q, p
<1>8. e = IF d.h > 0 THEN [d EXCEPT !.head = p, !.n = @ - 1, !.h = @ - 1, !.sumH = @ - y, !.sqH = @ - q]
          ELSE [d EXCEPT !.head = p, !.n = @ - 1, !.sumN = @ - y, !.sqN = @ - q]
  <2>1. d.n > WMax
    BY <1>1
  <2>2. d = Rec(d.buf, d.head, d.n, d.h, d.sumH, d.sqH, d.sumN, d.sqN)
    BY <1>1, DetectorIs
  <2>. DEFINE z == d.buf[d.head]
              b == (d.head + 1) % Capacity
  <2>3. e = [d EXCEPT !.head = b, !.n = @ - 1,
               !.h = IF d.h > 0 THEN @ - 1 ELSE @,
               !.sumH = IF d.h > 0 THEN @ - z ELSE @, !.sqH = IF d.h > 0 THEN @ - z * z ELSE @,
               !.sumN = IF d.h > 0 THEN @ ELSE @ - z, !.sqN = IF d.h > 0 THEN @ ELSE @ - z * z]
    <3>1. ~ (d.n <= WMax)
      BY <1>1
    <3>. QED  BY <3>1 DEF Evict, e
  <2>4. z = y /\ b = p /\ z * z = q
    BY <1>5, <1>6 DEF p
  <2>. HIDE DEF z, b, e
  <2>5. e = [d EXCEPT !.head = p, !.n = @ - 1,
               !.h = IF d.h > 0 THEN @ - 1 ELSE @,
               !.sumH = IF d.h > 0 THEN @ - y ELSE @, !.sqH = IF d.h > 0 THEN @ - q ELSE @,
               !.sumN = IF d.h > 0 THEN @ ELSE @ - y, !.sqN = IF d.h > 0 THEN @ ELSE @ - q]
    BY <2>3, <2>4
  <2>. QED  BY <2>2, <2>5 DEF Rec
<1>9. d = Rec(d.buf, d.head, d.n, d.h, d.sumH, d.sqH, d.sumN, d.sqN)
  BY <1>1, DetectorIs
<1>10. /\ Squared(w) \in [1..(WMax + 1) -> Int] /\ Squared(v) \in [1..WMax -> Int]
       /\ \A i \in 1..WMax : Squared(v)[i] = Squared(w)[i + 1]
  <2>1. /\ WMax + 1 \in Nat /\ \A i \in 1..WMax : i + 1 \in 1..(WMax + 1)
    BY <1>1
  <2>2. /\ Squared(w) \in [1..(WMax + 1) -> Int] /\ Squared(v) \in [1..WMax -> Int]
        /\ \A i \in 1..(WMax + 1) : Squared(w)[i] = w[i] * w[i]
        /\ \A i \in 1..WMax : Squared(v)[i] = v[i] * v[i]
    BY <1>1, <1>3, <2>1, SquaredInts
  <2>. QED  BY <1>3, <2>1, <2>2
<1>11. /\ d.sumH = Total(1..d.h, w) /\ d.sqH = Total(1..d.h, Squared(w))
       /\ d.sumN = Total((d.h + 1)..(WMax + 1), w) /\ d.sqN = Total((d.h + 1)..(WMax + 1), Squared(w))
  BY DEF Describes, Halves
<1>. HIDE DEF e, v
<1>12. ASSUME NEW h \in 1..(WMax + 1)
       PROVE  /\ Total(1..h, w) = y + Total(1..(h - 1), v)
              /\ Total((h + 1)..(WMax + 1), w) = Total(((h - 1) + 1)..WMax, v)
              /\ Total(1..(h - 1), v) \in Int
              /\ Total(1..h, Squared(w)) = q + Total(1..(h - 1), Squared(v))
              /\ Total((h + 1)..(WMax + 1), Squared(w)) = Total(((h - 1) + 1)..WMax, Squared(v))
              /\ Total(1..(h - 1), Squared(v)) \in Int
  <2>1. /\ Total(1..h, w) = y + Total(1..(h - 1), v)
        /\ Total((h + 1)..(WMax + 1), w) = Total(((h - 1) + 1)..WMax, v)
        /\ Total(1..(h - 1), v) \in Int
    BY <1>1, <1>3, PartMoves, Zenon DEF y
  <2>. DEFINE sw == Squared(w)
              sv == Squared(v)
  <2>2. sw \in [1..(WMax + 1) -> Int] /\ sv \in [1..WMax -> Int] /\ \A i \in 1..WMax : sv[i] = sw[i + 1]
    BY <1>10
  <2>3. q = sw[1]
    BY DEF q
  <2>. HIDE DEF sw, sv
  <2>4. /\ Total(1..h, sw) = sw[1] + Total(1..(h - 1), sv)
        /\ Total((h + 1)..(WMax + 1), sw) = Total(((h - 1) + 1)..WMax, sv)
        /\ Total(1..(h - 1), sv) \in Int
    BY <1>1, <2>2, PartMoves, Zenon
  <2>. QED  BY <2>1, <2>3, <2>4 DEF sw, sv
<1>13. CASE d.h > 0
  <2>1. d.h \in 1..(WMax + 1) /\ d.h - 1 \in Nat /\ d.h - 1 <= WMax /\ d.n - 1 = WMax
    BY <1>1, <1>13
  <2>2. /\ d.sumH = y + Total(1..(d.h - 1), v) /\ d.sumN = Total(((d.h - 1) + 1)..WMax, v)
        /\ Total(1..(d.h - 1), v) \in Int
        /\ d.sqH = q + Total(1..(d.h - 1), Squared(v)) /\ d.sqN = Total(((d.h - 1) + 1)..WMax, Squared(v))
        /\ Total(1..(d.h - 1), Squared(v)) \in Int
    BY <1>11, <1>12, <2>1, Zenon
  <2>3. e = Rec(d.buf, p, WMax, d.h - 1, d.sumH - y, d.sqH - q, d.sumN, d.sqN)
    BY <1>8, <1>9, <1>13, <2>1 DEF Rec
  <2>4. d.sumH - y \in Int /\ d.sqH - q \in Int
    BY <1>2, <1>5
  <2>5. e \in Detectors
    BY <1>1, <1>2, <1>6, <2>1, <2>3, <2>4, RecTyped, Zenon DEF p
  <2>6. /\ e.buf = d.buf /\ e.head = p /\ e.n = WMax /\ e.h = d.h - 1
        /\ e.sumH = d.sumH - y /\ e.sqH = d.sqH - q /\ e.sumN = d.sumN /\ e.sqN = d.sqN
    BY <2>3 DEF Rec
  <2>7. Ring(e, v, WMax)
    <3>1. ASSUME NEW i \in 1..WMax
          PROVE  e.buf[Slot(e.head, i - 1)] = v[i]
      <4>1. i + 1 \in 1..(WMax + 1) /\ (i + 1) - 1 = i
        BY <1>1
      <4>2. d.buf[Slot(d.head, i)] = w[i + 1]
        BY <1>4, <4>1
      <4>. QED  BY <1>3, <1>7, <2>6, <4>2
    <3>. QED  BY <2>6, <3>1 DEF Ring
  <2>8. /\ d.sumH - y = Total(1..(d.h - 1), v) /\ d.sqH - q = Total(1..(d.h - 1), Squared(v))
    <3>. DEFINE s == Total(1..(d.h - 1), v)
                t == Total(1..(d.h - 1), Squared(v))
    <3>1. s \in Int /\ t \in Int /\ d.sumH = y + s /\ d.sqH = q + t
      BY <2>2
    <3>2. d.sumH - y = s /\ d.sqH - q = t
      <4>. HIDE DEF s, t
      <4>. QED  BY <1>5, <3>1
    <3>. QED  BY <3>2
  <2>9. Halves(e, v, WMax)
    BY <2>1, <2>2, <2>6, <2>8 DEF Halves
  <2>. QED  BY <1>3, <2>5, <2>7, <2>9 DEF Describes, e, v
<1>14. CASE ~ (d.h > 0)
  <2>1. d.h = 0 /\ d.n - 1 = WMax /\ 0 \in Nat /\ WMax + 1 \in 1..(WMax + 1) /\ (WMax + 1) - 1 = WMax /\ d.h + 1 = 1
    BY <1>1, <1>14
  <2>2. /\ Total(1..(WMax + 1), w) = y + Total(1..WMax, v) /\ Total(1..WMax, v) \in Int
        /\ Total(1..(WMax + 1), Squared(w)) = q + Total(1..WMax, Squared(v))
        /\ Total(1..WMax, Squared(v)) \in Int
    <3>1. /\ Total(1..(WMax + 1), w) = y + Total(1..((WMax + 1) - 1), v)
          /\ Total(1..((WMax + 1) - 1), v) \in Int
          /\ Total(1..(WMax + 1), Squared(w)) = q + Total(1..((WMax + 1) - 1), Squared(v))
          /\ Total(1..((WMax + 1) - 1), Squared(v)) \in Int
      BY <1>12, <2>1, Zenon
    <3>. QED  BY <2>1, <3>1
  <2>3. e = Rec(d.buf, p, WMax, d.h, d.sumH, d.sqH, d.sumN - y, d.sqN - q)
    BY <1>8, <1>9, <1>14, <2>1 DEF Rec
  <2>4. d.sumN - y \in Int /\ d.sqN - q \in Int
    BY <1>2, <1>5
  <2>5. e \in Detectors
    BY <1>1, <1>2, <1>6, <2>1, <2>3, <2>4, RecTyped, Zenon DEF p
  <2>6. /\ e.buf = d.buf /\ e.head = p /\ e.n = WMax /\ e.h = d.h
        /\ e.sumH = d.sumH /\ e.sqH = d.sqH /\ e.sumN = d.sumN - y /\ e.sqN = d.sqN - q
    BY <2>3 DEF Rec
  <2>7. Ring(e, v, WMax)
    <3>1. ASSUME NEW i \in 1..WMax
          PROVE  e.buf[Slot(e.head, i - 1)] = v[i]
      <4>1. i + 1 \in 1..(WMax + 1) /\ (i + 1) - 1 = i
        BY <1>1
      <4>2. d.buf[Slot(d.head, i)] = w[i + 1]
        BY <1>4, <4>1
      <4>. QED  BY <1>3, <1>7, <2>6, <4>2
    <3>. QED  BY <2>6, <3>1 DEF Ring
  <2>8. /\ d.sumN - y = Total(1..WMax, v) /\ d.sqN - q = Total(1..WMax, Squared(v))
    <3>. DEFINE s == Total(1..WMax, v)
                t == Total(1..WMax, Squared(v))
    <3>1. s \in Int /\ t \in Int /\ d.sumN = y + s /\ d.sqN = q + t
      BY <1>11, <2>1, <2>2
    <3>2. d.sumN - y = s /\ d.sqN - q = t
      <4>. HIDE DEF s, t
      <4>. QED  BY <1>5, <3>1
    <3>. QED  BY <3>2
  <2>9. /\ Total(1..0, w) = 0 /\ Total(1..0, v) = 0 /\ Total(1..0, Squared(w)) = 0 /\ Total(1..0, Squared(v)) = 0
    BY TotalOfNone
  <2>10. Halves(e, v, WMax)
    BY <1>1, <1>11, <2>1, <2>6, <2>8, <2>9 DEF Halves
  <2>. QED  BY <1>3, <2>5, <2>7, <2>10 DEF Describes, e, v
<1>. QED  BY <1>13, <1>14

\* A sum of squares, over any sequence of them.
LEMMA SquaresOver ==
  ASSUME NEW a \in Int, NEW b \in Int, NEW f, NEW g, IntsOn(f, a, b), \A i \in a..b : g[i] = f[i] * f[i]
  PROVE  Squares(a..b, f) = Total(a..b, g)
<1>1. \A i \in a..b : f[i] \in Int
  BY DEF IntsOn
<1>2. Squares(a..b, f) = Total(a..b, SquaredAt(f, a..b))
  BY <1>1, SquaresSum, FS_Interval
<1>3. \A i \in a..b : SquaredAt(f, a..b)[i] = g[i]
  BY DEF SquaredAt
<1>4. IntsOn(g, a, b)
  BY <1>1 DEF IntsOn
<1>. HIDE DEF IntsOn
<1>. QED  BY <1>2, <1>3, <1>4, TotalSame

\* The boundary moves from h to c: what leaves one part comes to the other.
Ahead(el, w, n) == \A i \in 0..(n - 1) : el[i] = w[i + 1]
Crossing(el, h, c) == Total(h..(c - 1), el) - Total(c..(h - 1), el)
Crossed(s, w, n, h, c) ==
  /\ s \in Int
  /\ Total(1..c, w) = Total(1..h, w) + s
  /\ Total((c + 1)..n, w) = Total((h + 1)..n, w) - s

\* What crosses a boundary that moves leaves one part's sum and enters the other's.
LEMMA PartShifts ==
  ASSUME NEW n \in Nat, NEW w \in [1..n -> Int], NEW el, Ahead(el, w, n),
         NEW h \in 0..n, NEW c \in 0..n, NEW s, s = Crossing(el, h, c)
  PROVE  Crossed(s, w, n, h, c)
<1>. DEFINE Moved(a, b) == Total((a + 1)..b, w)
<1>1. ASSUME NEW a \in 0..n, NEW b \in 0..n, a <= b
      PROVE  /\ Total(a..(b - 1), el) = Moved(a, b) /\ Total(b..(a - 1), el) = 0
             /\ Moved(a, b) \in Int
             /\ Total(1..b, w) = Total(1..a, w) + Moved(a, b) /\ Total(1..a, w) \in Int
             /\ Moved(a, n) = Moved(a, b) + Moved(b, n) /\ Moved(b, n) \in Int
  <2>1. /\ IntsOn(el, a, b - 1) /\ OnePlaceOn(w, el, a, b - 1) /\ (b - 1) + 1 = b
        /\ IntsOn(w, a + 1, b) /\ IntsOn(w, 1, b) /\ IntsOn(w, 1, a) /\ IntsOn(w, a + 1, n) /\ IntsOn(w, b + 1, n)
    BY DEF Ahead, IntsOn, OnePlaceOn
  <2>2. b - 1 \in Int /\ a \in Int /\ b \in Int /\ a + 1 \in Int /\ b + 1 \in Int /\ n \in Int /\ 1 \in Int
    OBVIOUS
  <2>. HIDE DEF IntsOn, OnePlaceOn
  <2>3. Total((a + 1)..((b - 1) + 1), w) = Total(a..(b - 1), el)
    BY <2>1, <2>2, TotalNext
  <2>4. Total(b..(a - 1), el) = 0
    BY <1>1, TotalOfNone
  <2>5. Total((a + 1)..b, w) \in Int /\ Total(1..a, w) \in Int /\ Total((b + 1)..n, w) \in Int
    BY <2>1, <2>2, TotalInt
  <2>6. Total(1..b, w) = Total(1..a, w) + Total((a + 1)..b, w)
    BY <1>1, <2>1, <2>2, TotalParts
  <2>7. Total((a + 1)..n, w) = Total((a + 1)..b, w) + Total((b + 1)..n, w)
    BY <1>1, <2>1, <2>2, TotalParts
  <2>. QED  BY <2>1, <2>3, <2>4, <2>5, <2>6, <2>7
<1>2. CASE h <= c
  <2>1. /\ Total(h..(c - 1), el) = Moved(h, c) /\ Total(c..(h - 1), el) = 0
        /\ Moved(h, c) \in Int
        /\ Total(1..c, w) = Total(1..h, w) + Moved(h, c) /\ Total(1..h, w) \in Int
        /\ Moved(h, n) = Moved(h, c) + Moved(c, n) /\ Moved(c, n) \in Int
    BY <1>1, <1>2
  <2>. DEFINE m == Moved(h, c)
              r == Moved(c, n)
              o == Moved(h, n)
  <2>2. s = m - 0 /\ m \in Int /\ r \in Int /\ o = m + r
    BY <2>1 DEF Crossing
  <2>3. s = m /\ s \in Int /\ r = o - s
    <3>. HIDE DEF m, r, o
    <3>. QED  BY <2>2
  <2>. QED  BY <2>1, <2>3 DEF Crossed
<1>3. CASE ~ (h <= c)
  <2>1. /\ Total(c..(h - 1), el) = Moved(c, h) /\ Total(h..(c - 1), el) = 0
        /\ Moved(c, h) \in Int
        /\ Total(1..h, w) = Total(1..c, w) + Moved(c, h) /\ Total(1..c, w) \in Int
        /\ Moved(c, n) = Moved(c, h) + Moved(h, n) /\ Moved(h, n) \in Int
    BY <1>1, <1>3
  <2>. DEFINE m == Moved(c, h)
              r == Moved(c, n)
              o == Moved(h, n)
              p == Total(1..c, w)
              q == Total(1..h, w)
  <2>2. s = 0 - m /\ m \in Int /\ o \in Int /\ r = m + o /\ p \in Int /\ q = p + m
    BY <2>1 DEF Crossing
  <2>3. s \in Int /\ r = o - s /\ p = q + s
    <3>. HIDE DEF m, r, o, p, q
    <3>1. PICK k \in Int : k = 0 - m
      BY <2>2
    <3>2. s = k
      BY <2>2, <3>1, Zenon
    <3>3. r = o - k /\ q \in Int /\ p = q + k
      BY <2>2, <3>1
    <3>. QED  BY <3>2, <3>3, Zenon
  <2>. QED  BY <2>3 DEF Crossed
<1>. QED  BY <1>2, <1>3

\* The boundary goes to the cut of the length.
LEMMA SplitDescribes ==
  ASSUME NEW n \in WMin..WMax, NEW d, NEW w, Describes(d, w, n)
  PROVE  Describes(Split(d), w, n) /\ Split(d).h = Cut[n]
<1>. DEFINE el == [i \in 0..(d.n - 1) |-> Get(d, i)]
            c == Cut[n]
            s == Crossing(el, d.h, c)
            q == Squares(d.h..(c - 1), el) - Squares(c..(d.h - 1), el)
            e == Split(d)
<1>1. d \in Detectors /\ w \in [1..n -> Int] /\ d.n = n /\ d.h <= n
  BY Zenon DEF Describes, Ring, Halves
<1>2. n \in Nat /\ WMax \in Nat /\ n <= WMax /\ c \in Nat /\ c <= n
  BY CutFacts
<1>3. /\ d = Rec(d.buf, d.head, d.n, d.h, d.sumH, d.sqH, d.sumN, d.sqN)
      /\ d.buf \in [0..WMax -> Int] /\ d.head \in 0..WMax /\ d.n \in Nat /\ d.h \in Nat
      /\ d.sumH \in Int /\ d.sqH \in Int /\ d.sumN \in Int /\ d.sqN \in Int
  BY <1>1, DetectorIs, Zenon
<1>4. \A i \in 1..n : d.buf[Slot(d.head, i - 1)] = w[i]
  BY DEF Describes, Ring
<1>5. Ahead(el, w, n)
  <2>1. ASSUME NEW i \in 0..(n - 1)
        PROVE  el[i] = w[i + 1]
    <3>1. i + 1 \in 1..n /\ (i + 1) - 1 = i /\ i \in 0..WMax /\ i \in 0..(d.n - 1)
      BY <1>1, <1>2
    <3>2. (d.head + i) % Capacity = Slot(d.head, i)
      BY <1>3, <3>1, SlotIs, Zenon
    <3>3. d.buf[Slot(d.head, i)] = w[i + 1]
      BY <1>4, <3>1
    <3>. QED  BY <3>1, <3>2, <3>3 DEF Get
  <2>. QED  BY <2>1 DEF Ahead
<1>. HIDE DEF el
<1>6. /\ s \in Int /\ Total(1..c, w) = Total(1..d.h, w) + s
      /\ Total((c + 1)..n, w) = Total((d.h + 1)..n, w) - s
  <2>1. d.h \in 0..n /\ c \in 0..n
    BY <1>1, <1>2, <1>3
  <2>2. s = Crossing(el, d.h, c)
    OBVIOUS
  <2>. HIDE DEF s, c
  <2>3. Crossed(s, w, n, d.h, c)
    BY <1>1, <1>2, <1>5, <2>1, <2>2, PartShifts, Zenon
  <2>. QED  BY <2>3, Zenon DEF Crossed
<1>7. /\ q \in Int /\ Total(1..c, Squared(w)) = Total(1..d.h, Squared(w)) + q
      /\ Total((c + 1)..n, Squared(w)) = Total((d.h + 1)..n, Squared(w)) - q
  <2>. DEFINE g == [i \in 0..(n - 1) |-> el[i] * el[i]]
              sw == Squared(w)
  <2>1. d.h \in 0..n /\ c \in 0..n
    BY <1>1, <1>2, <1>3
  <2>2. \A i \in 0..(n - 1) : el[i] = w[i + 1] /\ i + 1 \in 1..n
    BY <1>2, <1>5 DEF Ahead
  <2>3. sw \in [1..n -> Int] /\ \A i \in 1..n : sw[i] = w[i] * w[i]
    BY <1>1, <1>2, SquaredInts
  <2>4. Ahead(g, sw, n)
    <3>. HIDE DEF sw
    <3>. QED  BY <2>2, <2>3 DEF Ahead
  <2>5. ASSUME NEW a \in 0..n, NEW b \in 0..n
        PROVE  Squares(a..(b - 1), el) = Total(a..(b - 1), g)
    <3>1. \A i \in a..(b - 1) : i \in 0..(n - 1)
      BY <1>2
    <3>2. \A i \in a..(b - 1) : g[i] = el[i] * el[i]
      BY <3>1
    <3>3. IntsOn(el, a, b - 1)
      <4>1. \A i \in a..(b - 1) : el[i] \in Int
        BY <1>1, <2>2, <3>1
      <4>. QED  BY <4>1 DEF IntsOn
    <3>4. a \in Int /\ b - 1 \in Int
      OBVIOUS
    <3>. HIDE DEF IntsOn, g
    <3>. QED  BY <3>2, <3>3, <3>4, SquaresOver
  <2>6. q = Crossing(g, d.h, c)
    BY <2>1, <2>5 DEF Crossing
  <2>. HIDE DEF sw, g, q, c
  <2>7. Crossed(q, sw, n, d.h, c)
    BY <1>2, <2>1, <2>3, <2>4, <2>6, PartShifts, Zenon
  <2>. QED  BY <2>7, Zenon DEF sw, Crossed
<1>8. e = Shift(d, c, s, q)
  BY <1>1 DEF Split, MoveBoundary, Crossing, el
<1>. HIDE DEF e, s, q
<1>9. e = Rec(d.buf, d.head, n, c, d.sumH + s, d.sqH + q, d.sumN - s, d.sqN - q)
  BY <1>1, <1>3, <1>8 DEF Shift, Rec
<1>10. d.sumH + s \in Int /\ d.sqH + q \in Int /\ d.sumN - s \in Int /\ d.sqN - q \in Int
  <2>1. /\ d.sumH \in Int /\ d.sqH \in Int /\ d.sumN \in Int /\ d.sqN \in Int /\ s \in Int /\ q \in Int
    BY <1>3, <1>6, <1>7, Zenon
  <2>. QED  BY <2>1
<1>11. e \in Detectors
  BY <1>2, <1>3, <1>9, <1>10, RecTyped, Zenon
<1>12. /\ e.buf = d.buf /\ e.head = d.head /\ e.n = n /\ e.h = c
       /\ e.sumH = d.sumH + s /\ e.sqH = d.sqH + q /\ e.sumN = d.sumN - s /\ e.sqN = d.sqN - q
  BY <1>9 DEF Rec
<1>13. Ring(e, w, n)
  BY <1>4, <1>12 DEF Ring
<1>14. /\ d.sumH = Total(1..d.h, w) /\ d.sqH = Total(1..d.h, Squared(w))
       /\ d.sumN = Total((d.h + 1)..n, w) /\ d.sqN = Total((d.h + 1)..n, Squared(w))
  BY DEF Describes, Halves
<1>15. Halves(e, w, n)
  BY <1>2, <1>6, <1>7, <1>12, <1>14, Zenon DEF Halves
<1>. QED  BY <1>1, <1>11, <1>12, <1>13, <1>15 DEF Describes, e

\* An emptied detector describes no elements.
LEMMA NoneDescribed ==
  ASSUME NEW d, d \in Detectors, NEW e, e = Rec(d.buf, 0, 0, 0, 0, 0, 0, 0), NEW w \in [1..0 -> Int]
  PROVE  Describes(e, w, 0)
<1>1. /\ e.buf = d.buf /\ e.head = 0 /\ e.n = 0 /\ e.h = 0
      /\ e.sumH = 0 /\ e.sqH = 0 /\ e.sumN = 0 /\ e.sqN = 0
  BY DEF Rec
<1>2. d.buf \in [0..WMax -> Int] /\ 0 \in 0..WMax /\ 0 \in Nat /\ 0 \in Int
  <2>1. WMax \in Nat
    BY CutFacts
  <2>. QED  BY <2>1, DetectorIs
<1>3. e \in Detectors
  BY <1>2, RecTyped, Zenon
<1>4. \A f : Total(1..0, f) = 0 /\ Total((0 + 1)..0, f) = 0
  BY TotalOfNone
<1>5. Halves(e, w, 0)
  <2>1. 0 <= 0
    OBVIOUS
  <2>. QED  BY <1>1, <1>4, <2>1, Zenon DEF Halves
<1>6. Ring(e, w, 0)
  BY <1>1 DEF Ring
<1>. QED  BY <1>3, <1>5, <1>6 DEF Describes

\* The last n elements.
LastOf(rs, n) == [i \in 1..n |-> rs[(Len(rs) - n) + i].x]
HalfOf(n) == IF n < WMin THEN 0 ELSE Cut[n]
OneLonger(n) == IF n < WMax THEN n + 1 ELSE WMax
OneLater(rs, more, x) ==
  /\ Len(rs) \in Nat /\ Len(more) = Len(rs) + 1
  /\ \A i \in 1..Len(rs) : more[i] = rs[i]
  /\ more[Len(rs) + 1].x = x

\* The window that the detector looks at when an element comes.
LEMMA WindowDescribed ==
  ASSUME NEW rs, NEW more, NEW x \in Int, OneLater(rs, more, x),
         NEW n \in 0..WMax, n <= Len(rs), NEW d, Describes(d, LastOf(rs, n), n)
  PROVE  Describes(Evict(Append1(d, x)), LastOf(more, OneLonger(n)), OneLonger(n))
<1>. DEFINE w == LastOf(rs, n)
            v == Longer(w, n, x)
            a == Append1(d, x)
            L == Len(rs)
<1>1. /\ WMax \in Nat /\ n \in Nat /\ n <= WMax /\ L \in Nat /\ Len(more) = L + 1
      /\ \A i \in 1..L : more[i] = rs[i]
      /\ more[L + 1].x = x
  BY CutFacts DEF OneLater
<1>2. Describes(a, v, n + 1)
  BY AppendDescribes, Zenon
<1>. HIDE DEF a
<1>3. a.n = n + 1
  BY <1>2, Zenon DEF Describes, Ring
<1>4. \A i \in 1..(n + 1) : v[i] = more[((L + 1) - (n + 1)) + i].x
  <2>1. ASSUME NEW i \in 1..(n + 1)
        PROVE  v[i] = more[((L + 1) - (n + 1)) + i].x
    <3>1. CASE i <= n
      <4>1. i \in 1..n /\ (L - n) + i \in 1..L /\ ((L + 1) - (n + 1)) + i = (L - n) + i
        BY <1>1, <3>1
      <4>2. v[i] = w[i] /\ w[i] = rs[(L - n) + i].x
        BY <3>1, <4>1 DEF Longer, LastOf
      <4>. QED  BY <1>1, <4>1, <4>2
    <3>2. CASE ~ (i <= n)
      <4>1. ((L + 1) - (n + 1)) + i = L + 1
        BY <1>1, <3>2
      <4>2. v[i] = x
        BY <3>2 DEF Longer
      <4>. QED  BY <1>1, <4>1, <4>2
    <3>. QED  BY <3>1, <3>2
  <2>. QED  BY <2>1
<1>5. CASE n < WMax
  <2>1. n + 1 <= WMax /\ OneLonger(n) = n + 1
    BY <1>1, <1>5 DEF OneLonger
  <2>2. Evict(a) = a
    BY <1>3, <2>1 DEF Evict
  <2>3. v = LastOf(more, n + 1)
    <3>. DEFINE u == LastOf(more, n + 1)
    <3>1. \A i \in 1..(n + 1) : u[i] = more[((L + 1) - (n + 1)) + i].x
      BY <1>1 DEF LastOf
    <3>2. v = [i \in 1..(n + 1) |-> v[i]] /\ u = [i \in 1..(n + 1) |-> u[i]]
      BY DEF LastOf, Longer
    <3>. HIDE DEF v, u
    <3>3. \A i \in 1..(n + 1) : v[i] = u[i]
      BY <1>4, <3>1
    <3>4. v = u
      BY <3>2, <3>3
    <3>. QED  BY <3>4 DEF u
  <2>. QED  BY <1>2, <2>1, <2>2, <2>3, Zenon DEF a
<1>6. CASE ~ (n < WMax)
  <2>. DEFINE z == Without1st(v, WMax)
              u == LastOf(more, WMax)
  <2>1. n = WMax /\ OneLonger(n) = WMax
    BY <1>1, <1>6 DEF OneLonger
  <2>2. Describes(a, v, WMax + 1)
    BY <1>2, <2>1
  <2>3. Describes(Evict(a), z, WMax)
    BY <2>2, EvictDescribes, Zenon
  <2>4. \A i \in 1..WMax : z[i] = more[((L + 1) - WMax) + i].x
    <3>1. ASSUME NEW i \in 1..WMax
          PROVE  z[i] = more[((L + 1) - WMax) + i].x
      <4>1. i + 1 \in 1..(n + 1) /\ ((L + 1) - (n + 1)) + (i + 1) = ((L + 1) - WMax) + i
        BY <1>1, <2>1
      <4>2. z[i] = v[i + 1]
        BY DEF Without1st
      <4>3. v[i + 1] = more[((L + 1) - (n + 1)) + (i + 1)].x
        BY <1>4, <4>1
      <4>. QED  BY <4>1, <4>2, <4>3
    <3>. QED  BY <3>1
  <2>5. \A i \in 1..WMax : u[i] = more[((L + 1) - WMax) + i].x
    BY <1>1 DEF LastOf
  <2>6. z = [i \in 1..WMax |-> z[i]] /\ u = [i \in 1..WMax |-> u[i]]
    BY DEF LastOf, Without1st
  <2>7. z = u
    <3>. HIDE DEF z, u
    <3>1. \A i \in 1..WMax : z[i] = u[i]
      BY <2>4, <2>5
    <3>. QED  BY <2>6, <3>1
  <2>. QED  BY <2>1, <2>3, <2>7, Zenon DEF a
<1>. QED  BY <1>5, <1>6

\* What an element does to the detector: it looks at e, which describes the last elements,
\* and keeps e or, with an alarm, goes on with none.
Emptied(d) == Rec(d.buf, 0, 0, 0, 0, 0, 0, 0)
Looked(u, e, n) ==
  \/ u.det = e /\ u.alarm = NoAlarm
  \/ n >= WMin /\ (\E test : u.alarm = Alarm(e, test)) /\ u.alarm # NoAlarm /\ u.det = Emptied(e)

\* An element leaves the last ones in the window, up to WMax, and the boundary at
\* their cut; an alarm is raised over this window, and empties it (Detector.update).
LEMMA UpdateDescribes ==
  ASSUME NEW rs, NEW more, NEW x \in Int, OneLater(rs, more, x),
         NEW n \in 0..WMax, n <= Len(rs), NEW d, Describes(d, LastOf(rs, n), n), d.h = HalfOf(n),
         NEW u, u = Update(d, x)
  PROVE  \E e : /\ Describes(e, LastOf(more, OneLonger(n)), OneLonger(n))
                /\ e.h = HalfOf(OneLonger(n)) /\ Looked(u, e, OneLonger(n))
<1>. DEFINE m == OneLonger(n)
            v == LastOf(more, m)
            b == Evict(Append1(d, x))
<1>1. WMin \in Nat /\ WMax \in Nat /\ WMin <= WMax /\ n \in Nat /\ 4 <= WMin
  BY CutFacts
<1>2. m \in 0..WMax /\ m \in Nat
  BY <1>1 DEF OneLonger
<1>3. Describes(b, v, m)
  BY WindowDescribed, Zenon
<1>4. b.n = m
  BY <1>3, Zenon DEF Describes, Ring
<1>5. u = Taken(b)
  BY DEF Update
<1>. HIDE DEF v
<1>6. CASE m < WMin
  <2>1. b.h = d.h
    <3>. DEFINE a == Append1(d, x)
    <3>1. Describes(a, Longer(LastOf(rs, n), n, x), n + 1) /\ a.h = d.h
      BY AppendDescribes, Zenon
    <3>. HIDE DEF a
    <3>2. a.n = n + 1
      BY <3>1, Zenon DEF Describes, Ring
    <3>3. n + 1 <= WMax
      BY <1>1, <1>6 DEF OneLonger
    <3>4. Evict(a) = a
      BY <3>2, <3>3 DEF Evict
    <3>. QED  BY <3>1, <3>4, Zenon DEF a
  <2>. HIDE DEF b
  <2>2. d.h = 0 /\ HalfOf(m) = 0
    BY <1>1, <1>6 DEF HalfOf, OneLonger
  <2>3. u = [det |-> b, alarm |-> NoAlarm, unraised |-> FALSE]
    BY <1>4, <1>5, <1>6 DEF Taken
  <2>4. Looked(u, b, m)
    BY <2>3 DEF Looked
  <2>. QED  BY <1>3, <2>1, <2>2, <2>4, Zenon DEF v
<1>7. CASE ~ (m < WMin)
  <2>. DEFINE e == Split(b)
  <2>. HIDE DEF b
  <2>1. m \in WMin..WMax /\ m >= WMin
    BY <1>1, <1>2, <1>7
  <2>2. Describes(e, v, m) /\ e.h = Cut[m]
    BY <1>3, <2>1, SplitDescribes, Zenon
  <2>3. e.h = HalfOf(m)
    BY <1>7, <2>2, Zenon DEF HalfOf
  <2>4. PICK test : u = Tested(e, test)
    BY <1>4, <1>5, <1>7, Zenon DEF Taken, TestWindow
  <2>. HIDE DEF e, m
  <2>5. Looked(u, e, m)
    <3>1. CASE test = "none"
      <4>1. u.det = e /\ u.alarm = NoAlarm
        BY <2>4, <3>1 DEF Tested
      <4>. QED  BY <4>1 DEF Looked
    <3>2. CASE test # "none"
      <4>1. u.det = Clear(e) /\ u.alarm = Alarm(e, test)
        BY <2>4, <3>2 DEF Tested
      <4>2. Clear(e) = Emptied(e)
        BY DEF Clear, NewDetector, Emptied, Rec
      <4>3. DOMAIN Alarm(e, test) # DOMAIN NoAlarm
        BY DEF Alarm, NoAlarm
      <4>4. u.alarm # NoAlarm
        BY <4>1, <4>3, Zenon
      <4>5. m >= WMin /\ (\E t : u.alarm = Alarm(e, t)) /\ u.alarm # NoAlarm /\ u.det = Emptied(e)
        BY <2>1, <4>1, <4>2, <4>4, Zenon
      <4>. QED  BY <4>5, Zenon DEF Looked
    <3>. QED  BY <3>1, <3>2
  <2>. QED  BY <2>2, <2>3, <2>5, Zenon DEF v, m
<1>. QED  BY <1>6, <1>7

\* The n elements up to element i, and how many the window of element i has: those
\* since the last alarm before it, as far as WMax.
UpTo(rs, i, n) == [k \in 1..n |-> rs[(i - n) + k].x]
Reach(k) == IF k < WMax THEN k ELSE WMax
LastAlarm(rs, A, i, f) ==
  /\ f \in 0..i /\ (f = 0 \/ (f < i /\ rs[f].ts \in A))
  /\ \A k \in (f + 1)..(i - 1) : rs[k].ts \notin A
Since(rs, A, i, n) == \E f \in 0..i : LastAlarm(rs, A, i, f) /\ n = Reach(i - f)

\* The largest number of a set.
LEMMA LargestIs ==
  ASSUME NEW S \in SUBSET Int, NEW m \in S, \A y \in S : m >= y
  PROVE  Max(S) = m
<1>1. \A x \in S : (\A y \in S : x >= y) => x = m
  OBVIOUS
<1>2. \E x \in S : \A y \in S : x >= y
  OBVIOUS
<1>. DEFINE c == CHOOSE x \in S : \A y \in S : x >= y
<1>3. c \in S /\ \A y \in S : c >= y
  BY <1>2
<1>4. c = m
  BY <1>1, <1>3
<1>. QED  BY <1>4 DEF Max

\* And the smallest.
LEMMA SmallestIs ==
  ASSUME NEW S \in SUBSET Int, NEW m \in S, \A y \in S : m <= y
  PROVE  Min(S) = m
<1>1. \A x \in S : (\A y \in S : x <= y) => x = m
  OBVIOUS
<1>2. \E x \in S : \A y \in S : x <= y
  OBVIOUS
<1>. DEFINE c == CHOOSE x \in S : \A y \in S : x <= y
<1>3. c \in S /\ \A y \in S : c <= y
  BY <1>2
<1>4. c = m
  BY <1>1, <1>3
<1>. QED  BY <1>4 DEF Min

\* The elements are numbers.
IntRows(rs) == Len(rs) \in Nat /\ \A i \in 1..Len(rs) : rs[i].x \in Int

\* The last n terms of a sequence of m.
LEMMA LastTerms ==
  ASSUME NEW m \in Nat, NEW s \in [1..m -> Int]
  PROVE  LET t == SubSeq(s, Max({1, Len(s) - WMax + 1}), Len(s))
         IN  t \in Seq(Int) /\ Len(t) = Reach(m) /\ \A i \in 1..Reach(m) : t[i] = s[(m - Reach(m)) + i]
<1>1. WMax \in Nat
  BY CutFacts
<1>2. s \in Seq(Int) /\ Len(s) = m
  OBVIOUS
<1>. DEFINE a == IF m - WMax + 1 >= 1 THEN m - WMax + 1 ELSE 1
<1>3. Max({1, m - WMax + 1}) = a
  <2>1. {1, m - WMax + 1} \in SUBSET Int /\ a \in {1, m - WMax + 1} /\ \A y \in {1, m - WMax + 1} : a >= y
    BY <1>1
  <2>. QED  BY <2>1, LargestIs
<1>4. a \in Int /\ a = (m - Reach(m)) + 1 /\ Reach(m) \in Nat
  BY <1>1 DEF Reach
<1>. HIDE DEF a
<1>5. \A i \in a..m : s[i] \in Int
  BY <1>1, <1>4 DEF Reach
<1>. DEFINE t == SubSeq(s, a, m)
<1>6. t \in Seq(Int) /\ Len(t) = (IF a <= m THEN m - a + 1 ELSE 0) /\ \A i \in 1..(m - a + 1) : t[i] = s[a + i - 1]
  BY <1>4, <1>5, SubSeqProperties
<1>7. m - a + 1 = Reach(m) /\ \A i \in 1..Reach(m) : a + i - 1 = (m - Reach(m)) + i
  BY <1>4
<1>8. Len(t) = Reach(m)
  BY <1>4, <1>6, <1>7
<1>9. \A i \in 1..Reach(m) : t[i] = s[(m - Reach(m)) + i]
  BY <1>6, <1>7
<1>. QED  BY <1>2, <1>3, <1>6, <1>8, <1>9, Zenon

\* WindowAt as such a window.
LEMMA WindowIs ==
  ASSUME IntRows(rows), NEW i \in 0..Len(rows), NEW n, Since(rows, AlarmTimes, i, n)
  PROVE  WindowAt(i) = UpTo(rows, i, n) /\ WindowAt(i) \in Seq(Int) /\ Len(WindowAt(i)) = n /\ n \in Nat
<1>1. PICK f \in 0..i : LastAlarm(rows, AlarmTimes, i, f) /\ n = Reach(i - f)
  BY DEF Since
<1>. DEFINE S == {0} \cup {k \in 1..i : \E c \in Alarmed : c.ts = rows[k].ts /\ k < i}
            all == [k \in 1..(i - f) |-> rows[f + k].x]
<1>2. WMax \in Nat /\ i \in Nat /\ f \in Nat /\ i <= Len(rows) /\ Len(rows) \in Nat /\ f <= i
  BY CutFacts DEF IntRows
<1>3. \A k \in 1..i : (\E c \in Alarmed : c.ts = rows[k].ts /\ k < i) <=> (rows[k].ts \in AlarmTimes /\ k < i)
  BY DEF AlarmTimes
<1>4. Max(S) = f
  <2>1. S \in SUBSET Int
    BY <1>2
  <2>2. f \in S
    BY <1>1, <1>2, <1>3 DEF LastAlarm
  <2>3. ASSUME NEW y \in S
        PROVE  f >= y
    <3>1. CASE y = 0
      BY <1>2, <3>1
    <3>2. CASE y \in 1..i /\ rows[y].ts \in AlarmTimes /\ y < i
      <4>1. y \notin (f + 1)..(i - 1)
        BY <1>1, <3>2 DEF LastAlarm
      <4>. QED  BY <1>2, <3>2, <4>1
    <3>. QED  BY <1>3, <2>3, <3>1, <3>2
  <2>. HIDE DEF S
  <2>. QED  BY <2>1, <2>2, <2>3, LargestIs
<1>5. WindowAt(i) = SubSeq(all, Max({1, Len(all) - WMax + 1}), Len(all))
  BY <1>4 DEF WindowAt
<1>6. i - f \in Nat /\ all \in [1..(i - f) -> Int]
  BY <1>2 DEF IntRows
<1>. DEFINE m == i - f
<1>7. /\ WindowAt(i) \in Seq(Int) /\ Len(WindowAt(i)) = Reach(m)
      /\ \A k \in 1..Reach(m) : WindowAt(i)[k] = all[(m - Reach(m)) + k]
  <2>. HIDE DEF all, m
  <2>. QED  BY <1>5, <1>6, LastTerms DEF m
<1>8. n = Reach(m) /\ n \in Nat /\ n <= m
  BY <1>1, <1>2 DEF Reach
<1>9. \A k \in 1..n : WindowAt(i)[k] = rows[(i - n) + k].x
  <2>1. ASSUME NEW k \in 1..n
        PROVE  all[(m - n) + k] = rows[(i - n) + k].x
    <3>1. (m - n) + k \in 1..m /\ f + ((m - n) + k) = (i - n) + k
      BY <1>2, <1>8
    <3>. QED  BY <3>1
  <2>2. \A k \in 1..n : WindowAt(i)[k] = all[(m - n) + k]
    BY <1>7, <1>8
  <2>. HIDE DEF all, m
  <2>. QED  BY <2>1, <2>2
<1>. DEFINE w == WindowAt(i)
            v == UpTo(rows, i, n)
<1>10. w = [k \in 1..n |-> w[k]] /\ v = [k \in 1..n |-> v[k]] /\ \A k \in 1..n : v[k] = rows[(i - n) + k].x
  <2>1. w \in Seq(Int) /\ Len(w) = n
    BY <1>7, <1>8
  <2>2. w = [k \in 1..n |-> w[k]]
    <3>. HIDE DEF w
    <3>. QED  BY <2>1
  <2>. QED  BY <2>2 DEF UpTo
<1>11. w = v
  <2>1. \A k \in 1..n : w[k] = rows[(i - n) + k].x
    BY <1>9
  <2>. HIDE DEF w, v
  <2>2. \A k \in 1..n : w[k] = v[k]
    BY <1>10, <2>1
  <2>. QED  BY <1>10, <2>2
<1>. QED  BY <1>7, <1>8, <1>11

\* What the sums of a detector over a window are, in the terms of the property.
Sound(d, w, n, h) ==
  /\ d.n = n /\ d.h = h
  /\ \A i \in 1..n : Get(d, i - 1) = w[i]
  /\ d.sumH = Total(1..h, w) /\ d.sqH = Squares(1..h, w)
  /\ d.sumN = Total((h + 1)..n, w) /\ d.sqN = Squares((h + 1)..n, w)

\* The sums of squares and the places of the ring, as the property has them.
LEMMA DescribedIsSound ==
  ASSUME NEW n \in 0..WMax, NEW d, NEW w, Describes(d, w, n)
  PROVE  Sound(d, w, n, d.h)
<1>1. d \in Detectors /\ w \in [1..n -> Int] /\ d.n = n /\ d.h <= n
  BY Zenon DEF Describes, Ring, Halves
<1>2. WMax \in Nat /\ n \in Nat /\ n <= WMax
  BY CutFacts
<1>3. d.head \in 0..WMax /\ d.h \in Nat
  BY <1>1, DetectorIs, Zenon
<1>4. ASSUME NEW i \in 1..n
      PROVE  Get(d, i - 1) = w[i]
  <2>1. i - 1 \in 0..WMax
    BY <1>2
  <2>2. (d.head + (i - 1)) % Capacity = Slot(d.head, i - 1)
    BY <1>3, <2>1, SlotIs, Zenon
  <2>3. d.buf[Slot(d.head, i - 1)] = w[i]
    BY Zenon DEF Describes, Ring
  <2>. QED  BY <2>2, <2>3, Zenon DEF Get
<1>5. /\ d.sumH = Total(1..d.h, w) /\ d.sqH = Total(1..d.h, Squared(w))
      /\ d.sumN = Total((d.h + 1)..n, w) /\ d.sqN = Total((d.h + 1)..n, Squared(w))
  BY Zenon DEF Describes, Halves
<1>6. Squares(1..d.h, w) = Total(1..d.h, Squared(w)) /\ Squares((d.h + 1)..n, w) = Total((d.h + 1)..n, Squared(w))
  <2>1. 1 \in Int /\ d.h \in Int /\ 1 <= 1 /\ d.h <= n /\ d.h + 1 \in Int /\ n \in Int /\ 1 <= d.h + 1 /\ n <= n
    BY <1>1, <1>2, <1>3
  <2>. QED  BY <1>1, <1>2, <2>1, SquaresAreTotals
<1>. QED  BY <1>1, <1>4, <1>5, <1>6, Zenon DEF Sound

\* The detector describes the elements since the last alarm.
DetInv(rs, A, d) ==
  /\ d.n \in 0..WMax /\ d.n <= Len(rs)
  /\ Describes(d, LastOf(rs, d.n), d.n) /\ d.h = HalfOf(d.n)
  /\ \E f \in 0..Len(rs) : /\ f = 0 \/ rs[f].ts \in A
                           /\ \A k \in (f + 1)..Len(rs) : rs[k].ts \notin A
                           /\ d.n = Reach(Len(rs) - f)

\* The invariant of the detector implies the property.
LEMMA SumsFollow ==
  ASSUME IntRows(rows), DetInv(rows, AlarmTimes, det)
  PROVE  SumsAreExact
<1>. DEFINE L == Len(rows)
            n == det.n
            alarmed == \E c \in Alarmed : L > 0 /\ c.ts = rows[L].ts
            w == IF alarmed THEN <<>> ELSE WindowAt(L)
            h == IF Len(w) < WMin THEN 0 ELSE Cut[Len(w)]
<1>1. L \in Nat /\ WMax \in Nat /\ 4 <= WMin /\ WMin \in Nat /\ WMin <= WMax
  BY CutFacts DEF IntRows
<1>2. /\ n \in 0..WMax /\ n <= L /\ Describes(det, LastOf(rows, n), n) /\ det.h = HalfOf(n)
  BY DEF DetInv
<1>3. PICK f \in 0..L : /\ f = 0 \/ rows[f].ts \in AlarmTimes
                        /\ \A k \in (f + 1)..L : rows[k].ts \notin AlarmTimes
                        /\ n = Reach(L - f)
  BY DEF DetInv
<1>4. alarmed <=> (L > 0 /\ rows[L].ts \in AlarmTimes)
  BY DEF AlarmTimes
<1>5. w = LastOf(rows, n) /\ Len(w) = n
  <2>1. CASE f = L /\ L > 0
    <3>1. alarmed /\ n = 0
      BY <1>1, <1>3, <1>4, <2>1 DEF Reach
    <3>2. <<>> = LastOf(rows, 0) /\ Len(<<>>) = 0
      BY DEF LastOf
    <3>. QED  BY <3>1, <3>2
  <2>2. CASE ~ (f = L /\ L > 0)
    <3>1. ~ alarmed
      BY <1>1, <1>3, <1>4, <2>2
    <3>2. LastAlarm(rows, AlarmTimes, L, f)
      BY <1>1, <1>3, <2>2 DEF LastAlarm
    <3>3. Since(rows, AlarmTimes, L, n) /\ L \in 0..Len(rows)
      BY <1>1, <1>3, <3>2 DEF Since
    <3>4. WindowAt(L) = UpTo(rows, L, n) /\ Len(WindowAt(L)) = n
      BY <3>3, WindowIs
    <3>. QED  BY <3>1, <3>4, Zenon DEF UpTo, LastOf
  <2>. QED  BY <2>1, <2>2
<1>. HIDE DEF w, n
<1>6. h = HalfOf(n)
  BY <1>5, Zenon DEF HalfOf
<1>7. Sound(det, w, n, det.h)
  BY <1>2, <1>5, DescribedIsSound, Zenon
<1>8. DOMAIN w = 1..n
  BY <1>5 DEF LastOf
<1>9. det.h = h
  BY <1>2, <1>6
<1>. HIDE DEF h
<1>10. /\ det.n = Len(w) /\ det.h = h
       /\ \A i \in DOMAIN w : Get(det, i - 1) = w[i]
       /\ det.sumH = Total(1..h, w) /\ det.sqH = Squares(1..h, w)
       /\ det.sumN = Total((h + 1)..Len(w), w) /\ det.sqN = Squares((h + 1)..Len(w), w)
  BY <1>5, <1>7, <1>8, <1>9, Zenon DEF Sound
<1>. QED  BY <1>10, Zenon DEF SumsAreExact, w, h

--------------------------------------------------------------------------------
(* The detector among the elements *)

\* Later elements and their alarms.
Alarms1(A, B, fired, ts) == B = IF fired THEN A \cup {ts} ELSE A
\* An alarm of a window of n elements at the newest element.
RaisedAt(rs, A, alarm) ==
  \E e, n : /\ n \in WMin..WMax /\ Since(rs, A, Len(rs), n)
            /\ Describes(e, UpTo(rs, Len(rs), n), n) /\ e.h = Cut[n]
            /\ \E test : alarm = Alarm(e, test)

\* An element keeps the invariant of the detector, whose alarm is that of the window.
LEMMA DetectorKeeps ==
  ASSUME NEW rs, NEW more, NEW ts, Extends1(rs, more, ts), NEW x \in Int, OneLater(rs, more, x),
         NEW A, A \subseteq TimesAt(rs), NEW d, DetInv(rs, A, d),
         NEW u, u = Update(d, x), NEW B, Alarms1(A, B, u.alarm # NoAlarm, ts)
  PROVE  /\ DetInv(more, B, u.det)
         /\ u.alarm # NoAlarm => RaisedAt(more, B, u.alarm)
<1>. DEFINE n == d.n
            m == OneLonger(n)
            L == Len(rs)
<1>1. n \in 0..WMax /\ n <= L /\ Describes(d, LastOf(rs, n), n) /\ d.h = HalfOf(n)
  BY DEF DetInv
<1>2. PICK f \in 0..L : /\ f = 0 \/ rs[f].ts \in A
                        /\ \A k \in (f + 1)..L : rs[k].ts \notin A
                        /\ n = Reach(L - f)
  BY DEF DetInv
<1>. HIDE DEF n
<1>3. PICK e : Describes(e, LastOf(more, m), m) /\ e.h = HalfOf(m) /\ Looked(u, e, m)
  BY <1>1, UpdateDescribes
<1>4. /\ WMax \in Nat /\ WMin \in Nat /\ 4 <= WMin /\ WMin <= WMax /\ L \in Nat
      /\ Len(more) = L + 1 /\ f \in Nat /\ f <= L /\ n \in Nat
      /\ \A i \in 1..L : more[i] = rs[i]
  BY <1>1, CutFacts DEF OneLater
<1>5. m = Reach((L + 1) - f) /\ m \in 0..WMax /\ m <= L + 1 /\ m \in Nat
  BY <1>1, <1>2, <1>4 DEF OneLonger, Reach
<1>6. /\ \A k \in 1..L : rs[k].ts # ts
      /\ more[L + 1].ts = ts
  <2>1. \A k \in 1..L : more[k].ts < ts /\ more[k].ts \in Nat /\ ts \in Nat
    <3>1. \A k \in 1..L : k \in 1..(L + 1) /\ L + 1 \in 1..(L + 1) /\ k < L + 1
      BY <1>4
    <3>. QED  BY <3>1 DEF Extends1, RowsInv
  <2>2. \A k \in 1..L : more[k].ts # ts
    BY <2>1
  <2>. QED  BY <1>4, <2>2 DEF Extends1
<1>7. \A k \in 1..L : more[k].ts \in B <=> rs[k].ts \in A
  BY <1>4, <1>6 DEF Alarms1
<1>8. ts \notin A
  <2>1. TimesAt(rs) = {rs[k].ts : k \in 1..L}
    BY DEF TimesAt, Extends1
  <2>. QED  BY <1>6, <2>1
<1>9. CASE u.det = e /\ u.alarm = NoAlarm
  <2>1. B = A
    BY <1>9 DEF Alarms1
  <2>2. e.n = m
    BY <1>3, Zenon DEF Describes, Ring
  <2>3. f \in 0..Len(more) /\ (f = 0 \/ more[f].ts \in B)
    BY <1>2, <1>4, <1>7
  <2>4. \A k \in (f + 1)..Len(more) : more[k].ts \notin B
    <3>1. \A k \in (f + 1)..Len(more) : (k \in 1..L /\ k \in (f + 1)..L) \/ k = L + 1
      BY <1>4
    <3>. QED  BY <1>2, <1>6, <1>7, <1>8, <2>1, <3>1
  <2>5. m = Reach(Len(more) - f) /\ m <= Len(more)
    BY <1>4, <1>5
  <2>. HIDE DEF m
  <2>6. DetInv(more, B, e)
    BY <1>3, <1>5, <2>2, <2>3, <2>4, <2>5, Zenon DEF DetInv
  <2>. QED  BY <1>9, <2>6
<1>10. CASE m >= WMin /\ (\E test : u.alarm = Alarm(e, test)) /\ u.alarm # NoAlarm /\ u.det = Emptied(e)
  <2>1. ts \in B
    BY <1>10 DEF Alarms1
  <2>2. DetInv(more, B, u.det)
    <3>1. e \in Detectors
      BY <1>3, Zenon DEF Describes
    <3>2. LastOf(more, 0) \in [1..0 -> Int]
      BY DEF LastOf
    <3>3. Describes(u.det, LastOf(more, 0), 0)
      BY <1>10, <3>1, <3>2, NoneDescribed DEF Emptied
    <3>4. u.det.n = 0 /\ u.det.h = 0
      BY <1>10 DEF Emptied, Rec
    <3>5. /\ 0 \in 0..WMax /\ 0 <= Len(more) /\ HalfOf(0) = 0 /\ Reach(Len(more) - (L + 1)) = 0
          /\ L + 1 \in 0..Len(more) /\ \A k \in ((L + 1) + 1)..Len(more) : FALSE
      BY <1>4 DEF HalfOf, Reach
    <3>6. more[L + 1].ts \in B
      BY <1>6, <2>1
    <3>. QED  BY <3>3, <3>4, <3>5, <3>6, Zenon DEF DetInv
  <2>3. LastAlarm(more, B, L + 1, f)
    <3>1. f \in 0..(L + 1) /\ (f = 0 \/ (f < L + 1 /\ more[f].ts \in B))
      BY <1>2, <1>4, <1>7
    <3>2. \A k \in (f + 1)..((L + 1) - 1) : more[k].ts \notin B
      <4>1. \A k \in (f + 1)..((L + 1) - 1) : k \in 1..L /\ k \in (f + 1)..L
        BY <1>4
      <4>. QED  BY <1>2, <1>7, <4>1
    <3>. QED  BY <3>1, <3>2, Zenon DEF LastAlarm
  <2>4. Since(more, B, Len(more), m)
    <3>1. f \in 0..(L + 1)
      BY <1>4
    <3>. HIDE DEF m
    <3>. QED  BY <1>4, <1>5, <2>3, <3>1, Zenon DEF Since
  <2>5. m \in WMin..WMax /\ ~ (m < WMin)
    BY <1>4, <1>5, <1>10
  <2>6. e.h = Cut[m]
    BY <1>3, <2>5, Zenon DEF HalfOf
  <2>7. UpTo(more, Len(more), m) = LastOf(more, m)
    BY Zenon DEF UpTo, LastOf
  <2>8. Describes(e, UpTo(more, Len(more), m), m)
    BY <1>3, <2>7, Zenon
  <2>. HIDE DEF m
  <2>9. RaisedAt(more, B, u.alarm)
    BY <1>10, <2>4, <2>5, <2>6, <2>8, Zenon DEF RaisedAt
  <2>. QED  BY <2>2, <2>9
<1>. HIDE DEF m
<1>. QED  BY <1>3, <1>9, <1>10, Zenon DEF Looked

\* Finitely many numbers have a largest.
LEMMA LargestTerm ==
  ASSUME NEW n \in Nat \ {0}, NEW s \in [1..n -> Nat]
  PROVE  \E m \in 1..n : \A i \in 1..n : s[i] <= s[m]
<1>. DEFINE k == n - 1
            Good == {j \in 0..k : \E m \in 1..(j + 1) : \A i \in 1..(j + 1) : s[i] <= s[m]}
<1>1. k \in Nat
  OBVIOUS
<1>2. 0 \in Good
  <2>1. 1 \in 1..(0 + 1) /\ \A i \in 1..(0 + 1) : i = 1
    OBVIOUS
  <2>2. s[1] \in Nat /\ s[1] <= s[1]
    OBVIOUS
  <2>3. \A i \in 1..(0 + 1) : s[i] <= s[1]
    BY <2>1, <2>2
  <2>. QED  BY <1>1, <2>1, <2>3
<1>3. ASSUME NEW j \in 1..k, j - 1 \in Good
      PROVE  j \in Good
  <2>1. PICK m \in 1..((j - 1) + 1) : \A i \in 1..((j - 1) + 1) : s[i] <= s[m]
    BY <1>3
  <2>2. (j - 1) + 1 = j
    OBVIOUS
  <2>3. m \in 1..j /\ \A i \in 1..j : s[i] <= s[m] /\ s[i] \in Nat /\ i \in 1..(j + 1)
    BY <2>1, <2>2
  <2>4. \A i \in 1..(j + 1) : i \in 1..j \/ i = j + 1
    OBVIOUS
  <2>5. s[m] \in Nat /\ s[j + 1] \in Nat /\ j + 1 \in 1..(j + 1)
    BY <2>3
  <2>6. CASE s[j + 1] <= s[m]
    <3>1. \A i \in 1..(j + 1) : s[i] <= s[m]
      BY <2>3, <2>4, <2>6
    <3>. QED  BY <2>3, <3>1
  <2>7. CASE ~ (s[j + 1] <= s[m])
    <3>1. \A i \in 1..(j + 1) : s[i] <= s[j + 1]
      BY <2>3, <2>4, <2>5, <2>7
    <3>. QED  BY <2>5, <3>1
  <2>. QED  BY <2>6, <2>7
<1>4. k \in Good
  <2>1. \A j \in 0..k : j \in Good
    <3>. HIDE DEF Good, k
    <3>. QED  BY <1>1, <1>2, <1>3, EachUpTo
  <2>2. k \in 0..k
    BY <1>1
  <2>. HIDE DEF Good, k
  <2>. QED  BY <2>1, <2>2
<1>5. k + 1 = n
  OBVIOUS
<1>6. \E m \in 1..(k + 1) : \A i \in 1..(k + 1) : s[i] <= s[m]
  BY <1>4
<1>. HIDE DEF k
<1>. QED  BY <1>5, <1>6

\* The k-th of n numbers is a number.
LEMMA RankedIsNumber ==
  ASSUME NEW n \in Nat \ {0}, NEW s \in [1..n -> Nat], NEW k \in 1..n
  PROVE  Ranked(s, k) \in Nat
<1>. DEFINE S == {v \in Range(s) : Cardinality({i \in DOMAIN s : s[i] <= v}) >= k}
<1>1. PICK m \in 1..n : \A i \in 1..n : s[i] <= s[m]
  BY LargestTerm
<1>2. {i \in DOMAIN s : s[i] <= s[m]} = 1..n
  BY <1>1
<1>3. Cardinality(1..n) = n
  BY FS_Interval
<1>4. S \in SUBSET Nat
  BY DEF Range
<1>5. s[m] \in S
  <2>1. Cardinality({i \in DOMAIN s : s[i] <= s[m]}) >= k
    <3>. DEFINE T == {i \in DOMAIN s : s[i] <= s[m]}
    <3>1. T = 1..n /\ n >= k
      BY <1>2
    <3>. HIDE DEF T
    <3>2. Cardinality(T) = n
      BY <1>3, <3>1, Zenon
    <3>3. Cardinality(T) >= k
      BY <3>1, <3>2
    <3>. QED  BY <3>3 DEF T
  <2>2. s[m] \in Range(s)
    BY DEF Range
  <2>. QED  BY <2>1, <2>2
<1>. HIDE DEF S
<1>6. PICK y \in S : \A x \in S : ~ (<<x, y>> \in OpToRel(<, Nat))
  BY <1>4, <1>5, WFMin, NatLessThanWellFounded, Zenon
<1>7. \A x \in S : ~ (x < y)
  BY <1>4, <1>6, Zenon DEF OpToRel
<1>8. \A x \in S : y <= x
  BY <1>4, <1>7
<1>9. Min(S) = y
  <2>1. S \in SUBSET Int
    BY <1>4
  <2>. QED  BY <1>8, <2>1, SmallestIs
<1>. QED  BY <1>4, <1>9 DEF Ranked, S

\* The median of an hour is a number.
LEMMA MedianIsNumber ==
  ASSUME NEW s \in Seq(Nat), s # <<>>
  PROVE  Median(s) \in Int
<1>. DEFINE n == Len(s)
            j == n \div 2
<1>1. n \in Nat \ {0} /\ s \in [1..n -> Nat]
  BY EmptySeq, LenProperties
<1>. HIDE DEF n
<1>2. n % 2 = 1 => j + 1 \in 1..n
  BY <1>1
<1>3. n % 2 # 1 => j \in 1..n /\ j + 1 \in 1..n
  BY <1>1
<1>. HIDE DEF j
<1>4. CASE n % 2 = 1
  <2>1. Ranked(s, j + 1) \in Nat
    BY <1>1, <1>2, <1>4, RankedIsNumber
  <2>2. Median(s) = 2 * Ranked(s, j + 1)
    BY <1>4 DEF Median, n, j
  <2>. QED  BY <2>1, <2>2
<1>5. CASE n % 2 # 1
  <2>1. Ranked(s, j) \in Nat /\ Ranked(s, j + 1) \in Nat
    BY <1>1, <1>3, <1>5, RankedIsNumber
  <2>2. Median(s) = Ranked(s, j) + Ranked(s, j + 1)
    BY <1>5 DEF Median, n, j
  <2>. QED  BY <2>1, <2>2
<1>. QED  BY <1>4, <1>5

\* What an open hour holds.
ValuesInv ==
  kind = "hourly" /\ bucket.hour # NoHour => bucket.values \in Seq(Nat) /\ bucket.values # <<>>

\* The elements of a sequence to which at most one is joined.
LEMMA JoinedSet ==
  ASSUME NEW s, IsSeq(s), NEW a, AtMostOne(a)
  PROVE  IsSeq(s \o a) /\ ToSet(s \o a) = ToSet(s) \cup ToSet(a)
<1>1. CASE a = <<>>
  <2>1. s \o a = s /\ ToSet(a) = {}
    <3>1. s \in Seq(ToSet(s)) /\ DOMAIN a = {}
      BY <1>1 DEF IsSeq
    <3>. QED  BY <1>1, <3>1, ConcatEmptySeq DEF ToSet
  <2>. QED  BY <2>1
<1>2. CASE a # <<>>
  <2>1. PICK e : a = <<e>>
    BY <1>2 DEF AtMostOne
  <2>2. PICK t : t = s \o a
    OBVIOUS
  <2>3. OneMore(s, t, e)
    BY <2>1, <2>2, Joined
  <2>4. ToSet(a) = {e}
    BY <2>1 DEF ToSet
  <2>5. ToSet(t) = ToSet(s) \cup {e}
    <3>1. DOMAIN t = DOMAIN s \cup {Len(s) + 1}
      BY <2>3 DEF OneMore
    <3>2. (\A i \in DOMAIN s : t[i] = s[i]) /\ t[Len(s) + 1] = e
      BY <2>3 DEF OneMore
    <3>. QED  BY <3>1, <3>2, Zenon DEF ToSet
  <2>. QED  BY <2>2, <2>3, <2>4, <2>5 DEF OneMore
<1>. QED  BY <1>1, <1>2

\* All that an element changes.
Grown(ts, x, u, c, h) ==
  /\ FeedInv' /\ Extends1(rows, rows', ts) /\ OneLater(rows, rows', x)
  /\ det' = u.det /\ gate' = h.gate
  /\ ToSet(events') = (ToSet(events) \cup ToSet(c.out)) \cup ToSet(h.out)
  /\ Alarms1(AlarmTimes, AlarmTimes', u.alarm # NoAlarm, ts)

\* A feed changes all this, for an element later than those before.
LEMMA FeedGrows ==
  ASSUME FeedInv, NEW ts \in Nat, \A i \in DOMAIN rows : rows[i].ts < ts, NEW x, Feed(ts, x),
         NEW u, u = Update(det, x), NEW c, c = Check(gate, ts, x), NEW h, h = Candidate(c.gate, ts, u.alarm)
  PROVE  Grown(ts, x, u, c, h)
<1>1. FeedInv' /\ Extends1(rows, rows', ts)
  BY FeedKeeps
<1>2. GateInv(rows, events, gate) /\ IsSeq(events) /\ IsSeq(rows)
  BY DEF FeedInv, GateInv, RowsInv
<1>3. rows' = Append(rows, [ts |-> ts, x |-> x]) /\ Fed(ts, u, c, h)
  BY <1>2, FeedDoes, Zenon
<1>4. OneLater(rows, rows', x)
  <2>. DEFINE e == [ts |-> ts, x |-> x]
  <2>1. OneMore(rows, rows', e)
    BY <1>2, <1>3, Appended
  <2>2. e.x = x
    OBVIOUS
  <2>. HIDE DEF e
  <2>. QED  BY <2>1, <2>2 DEF OneMore, OneLater
<1>5. det' = u.det /\ gate' = h.gate /\ events' = (events \o c.out) \o h.out
  BY <1>3 DEF Fed
<1>6. /\ Goes(gate, ts, c.gate, c.out) \/ Ends(gate, ts, c.gate, c.out) \/ Rests(gate, c.gate, c.out)
      /\ IsGate(gate)
  BY <1>2, CheckDoes DEF GateInv
<1>7. /\ IsGate(c.gate) /\ AtMostOne(c.out)
      /\ \A e \in ToSet(c.out) : e.level # "CANDIDATE"
  <2>1. CASE c.out = <<>>
    <3>1. ToSet(c.out) = {}
      BY <2>1 DEF ToSet
    <3>2. IsGate(c.gate)
      BY <1>6, Zenon DEF Goes, Ends, Rests
    <3>. QED  BY <2>1, <3>1, <3>2 DEF AtMostOne
  <2>2. CASE c.out # <<>>
    <3>1. PICK e : IsGate(c.gate) /\ c.out = <<e>> /\ (e.level = "CONFIRM" \/ e.level = "REVOKE")
      BY <1>6, <2>2, Zenon DEF Goes, Ends, Rests
    <3>2. ToSet(c.out) = {e}
      BY <3>1 DEF ToSet
    <3>3. e.level # "CANDIDATE"
      BY <3>1
    <3>. QED  BY <3>1, <3>2, <3>3, Zenon DEF AtMostOne
  <2>. QED  BY <2>1, <2>2
<1>8. /\ AtMostOne(h.out)
      /\ u.alarm = NoAlarm => ToSet(h.out) = {}
      /\ u.alarm # NoAlarm => \E e : ToSet(h.out) = {e} /\ e.level = "CANDIDATE" /\ e.ts = ts
  <2>1. \/ u.alarm = NoAlarm /\ h.gate = c.gate /\ h.out = <<>>
        \/ u.alarm # NoAlarm /\ (Begins(c.gate, ts, h.gate, h.out) \/ Notes(c.gate, ts, h.gate, h.out))
    BY <1>7, CandidateDoes, Zenon
  <2>2. CASE u.alarm = NoAlarm /\ h.out = <<>>
    <3>1. ToSet(h.out) = {}
      BY <2>2 DEF ToSet
    <3>. QED  BY <2>2, <3>1 DEF AtMostOne
  <2>3. CASE u.alarm # NoAlarm /\ (Begins(c.gate, ts, h.gate, h.out) \/ Notes(c.gate, ts, h.gate, h.out))
    <3>1. PICK e : h.out = <<e>> /\ e.level = "CANDIDATE" /\ e.ts = ts
      BY <2>3, Zenon DEF Begins, Notes
    <3>2. ToSet(h.out) = {e}
      BY <3>1 DEF ToSet
    <3>. QED  BY <2>3, <3>1, <3>2, Zenon DEF AtMostOne
  <2>. QED  BY <2>1, <2>2, <2>3, Zenon
<1>9. ToSet(events') = (ToSet(events) \cup ToSet(c.out)) \cup ToSet(h.out)
  <2>1. IsSeq(events \o c.out) /\ ToSet(events \o c.out) = ToSet(events) \cup ToSet(c.out)
    BY <1>2, <1>7, JoinedSet
  <2>2. ToSet((events \o c.out) \o h.out) = ToSet(events \o c.out) \cup ToSet(h.out)
    BY <1>8, <2>1, JoinedSet
  <2>. QED  BY <1>5, <2>1, <2>2
<1>10. Alarms1(AlarmTimes, AlarmTimes', u.alarm # NoAlarm, ts)
  <2>. DEFINE At(E) == {e.ts : e \in {q \in E : q.level = "CANDIDATE"}}
  <2>1. AlarmTimes = At(ToSet(events)) /\ AlarmTimes' = At(ToSet(events'))
    BY DEF AlarmTimes, Alarmed
  <2>2. PICK E, C, H : E = ToSet(events) /\ C = ToSet(c.out) /\ H = ToSet(h.out)
    OBVIOUS
  <2>3. AlarmTimes' = AlarmTimes \cup At(ToSet(h.out))
    <3>1. ToSet(events') = (E \cup C) \cup H /\ \A e \in C : e.level # "CANDIDATE"
      BY <1>7, <1>9, <2>2
    <3>2. {q \in (E \cup C) \cup H : q.level = "CANDIDATE"}
            = {q \in E : q.level = "CANDIDATE"} \cup {q \in H : q.level = "CANDIDATE"}
      BY <3>1
    <3>3. At((E \cup C) \cup H) = At(E) \cup At(H)
      BY <3>2
    <3>. HIDE DEF At
    <3>. QED  BY <2>1, <2>2, <3>1, <3>3
  <2>4. u.alarm = NoAlarm => At(ToSet(h.out)) = {}
    BY <1>8
  <2>5. u.alarm # NoAlarm => At(ToSet(h.out)) = {ts}
    <3>. SUFFICES ASSUME u.alarm # NoAlarm PROVE At(ToSet(h.out)) = {ts}
      OBVIOUS
    <3>1. PICK e : ToSet(h.out) = {e} /\ e.level = "CANDIDATE" /\ e.ts = ts
      BY <1>8
    <3>. QED  BY <3>1
  <2>. HIDE DEF At, AlarmTimes
  <2>. QED  BY <2>3, <2>4, <2>5 DEF Alarms1
<1>. QED  BY <1>1, <1>4, <1>5, <1>9, <1>10, Zenon DEF Grown

--------------------------------------------------------------------------------
(* The steps *)

\* Every step gives the detector an element later than all before, or none.
Fresh(ts) == ts \in Nat /\ \A i \in DOMAIN rows : rows[i].ts < ts
Feeds == \E ts \in Nat, x \in Int : Fresh(ts) /\ Feed(ts, x)

\* The element of a closed hour is later than those before.
LEMMA HourFeeds ==
  ASSUME DriftInv, ValuesInv, kind = "hourly", bucket.hour # NoHour,
         Feed(bucket.hour, Median(bucket.values))
  PROVE  Feeds
<1>1. bucket.hour \in Nat /\ \A i \in DOMAIN rows : rows[i].ts < bucket.hour
  BY DEF DriftInv, ClockInv, IsHour
<1>2. Median(bucket.values) \in Int
  BY MedianIsNumber DEF ValuesInv
<1>. QED  BY <1>1, <1>2, Zenon DEF Feeds, Fresh

\* An outlier rate is a number.
LEMMA RateIsNumber ==
  ASSUME NEW b \in Bins, b.admitted # 0
  PROVE  Rate(b) \in Nat
<1>1. b.outliers \in Nat /\ b.admitted \in Nat /\ RateUnit \in Nat
  BY StreamAssumption
<1>2. b.outliers * RateUnit \in Nat
  BY <1>1
<1>. DEFINE n == b.outliers * RateUnit
<1>3. n \div b.admitted \in Nat
  <2>. HIDE DEF n
  <2>. QED  BY <1>1, <1>2 DEF n
<1>. QED  BY <1>3 DEF Rate

\* In every step of the specification.
LEMMA StepFeeds ==
  ASSUME DriftInv, ValuesInv, [LayersNext]_<<vars, dayVars>>
  PROVE  (Feeds \/ UNCHANGED stream) /\ ValuesInv'
<1>1. clock \in Nat /\ clock + 1 \in Nat
  BY DEF DriftInv, ClockInv
<1>2. kind # "hourly" => Fresh(clock + 1)
  <2>1. \A i \in DOMAIN rows : rows[i].ts \in Nat
    BY DEF DriftInv, FeedInv, RowsInv
  <2>2. kind # "hourly" => \A i \in DOMAIN rows : rows[i].ts <= clock
    BY DEF DriftInv, ClockInv
  <2>. QED  BY <1>1, <2>1, <2>2 DEF Fresh
<1>3. Values \subseteq Nat
  BY StreamAssumption
<1>4. CASE Nothing
  <2>1. UNCHANGED <<kind, bucket>> /\ UNCHANGED stream
    BY <1>4 DEF Nothing, hours
  <2>. QED  BY <2>1 DEF ValuesInv
<1>5. ASSUME NEW x \in Values, ScoreWindow(x)
      PROVE  (Feeds \/ UNCHANGED stream) /\ ValuesInv'
  <2>1. kind = "tenMinutes" /\ Feed(clock + 1, x) /\ UNCHANGED kind
    BY <1>5 DEF ScoreWindow
  <2>2. x \in Int /\ Fresh(clock + 1) /\ clock + 1 \in Nat
    BY <1>1, <1>2, <1>3, <2>1
  <2>3. Feeds
    BY <2>1, <2>2, Zenon DEF Feeds
  <2>4. ValuesInv'
    BY <2>1 DEF ValuesInv
  <2>. QED  BY <2>3, <2>4
<1>6. ASSUME NEW x \in Values, HourWindow(x)
      PROVE  (Feeds \/ UNCHANGED stream) /\ ValuesInv'
  <2>1. /\ kind = "hourly"
        /\ IF bucket.hour # NoHour /\ ~(bucket.hour = HourOf(clock + 1))
             THEN Feed(bucket.hour, Median(bucket.values)) ELSE UNCHANGED stream
        /\ bucket' = IF bucket.hour = HourOf(clock + 1) THEN [bucket EXCEPT !.values = Append(@, x)]
                     ELSE [hour |-> HourOf(clock + 1), values |-> <<x>>]
    BY <1>6 DEF HourWindow
  <2>2. Feeds \/ UNCHANGED stream
    BY <2>1, HourFeeds
  <2>3. HourOf(clock + 1) # NoHour
    BY <1>1, HourIsLast DEF IsHour, NoHour
  <2>4. CASE bucket.hour = HourOf(clock + 1)
    <3>1. bucket.values \in Seq(Nat) /\ x \in Nat
      BY <1>3, <2>1, <2>3, <2>4 DEF ValuesInv
    <3>2. Append(bucket.values, x) \in Seq(Nat) /\ Append(bucket.values, x) # <<>>
      BY <3>1, AppendProperties
    <3>3. DOMAIN bucket = {"hour", "values"}
      BY <2>1 DEF DriftInv, ClockInv
    <3>4. bucket'.values = Append(bucket.values, x)
      BY <2>1, <2>4, <3>3
    <3>. QED  BY <2>2, <3>2, <3>4 DEF ValuesInv
  <2>5. CASE bucket.hour # HourOf(clock + 1)
    <3>1. bucket'.values = <<x>> /\ x \in Nat
      BY <1>3, <2>1, <2>5
    <3>2. <<x>> \in Seq(Nat) /\ <<x>> # <<>>
      BY <3>1
    <3>. QED  BY <2>2, <3>1, <3>2 DEF ValuesInv
  <2>. QED  BY <2>4, <2>5
<1>7. CASE HourTimer
  <2>1. PICK t \in timers :
          /\ kind = "hourly" /\ UNCHANGED kind
          /\ IF Closes(t)
               THEN Feed(bucket.hour, Median(bucket.values)) /\ bucket' = [hour |-> NoHour, values |-> <<>>]
               ELSE UNCHANGED <<stream, bucket>>
    BY <1>7 DEF HourTimer
  <2>2. CASE Closes(t)
    <3>1. bucket.hour # NoHour /\ bucket'.hour = NoHour
      BY <2>1, <2>2 DEF Closes
    <3>2. Feeds
      BY <2>1, <2>2, <3>1, HourFeeds
    <3>. QED  BY <3>1, <3>2 DEF ValuesInv
  <2>3. CASE ~ Closes(t)
    <3>1. UNCHANGED <<kind, bucket>> /\ UNCHANGED stream
      BY <2>1, <2>3
    <3>. QED  BY <3>1 DEF ValuesInv
  <2>. QED  BY <2>2, <2>3
<1>8. ASSUME NEW b \in Bins, OutlierBin(b)
      PROVE  (Feeds \/ UNCHANGED stream) /\ ValuesInv'
  <2>1. kind = "rate" /\ UNCHANGED kind
    BY <1>8 DEF OutlierBin
  <2>2. ValuesInv'
    BY <2>1 DEF ValuesInv
  <2>3. CASE b.admitted = 0
    <3>1. UNCHANGED stream
      BY <1>8, <2>3 DEF OutlierBin
    <3>. QED  BY <2>2, <3>1
  <2>4. CASE b.admitted # 0
    <3>1. RateElement(clock + 1, Rate(b), b)
      BY <1>8, <2>4 DEF OutlierBin
    <3>2. Feed(clock + 1, Rate(b))
      BY <3>1, Zenon DEF RateElement, Feed
    <3>3. Rate(b) \in Int /\ Fresh(clock + 1)
      BY <1>2, <2>1, <2>4, RateIsNumber
    <3>4. Feeds
      BY <1>1, <3>2, <3>3, Zenon DEF Feeds
    <3>. QED  BY <2>2, <3>4
  <2>. QED  BY <2>3, <2>4
<1>9. CASE UNCHANGED vars
  <2>1. UNCHANGED <<kind, bucket>> /\ UNCHANGED stream
    BY <1>9 DEF vars, stream
  <2>. QED  BY <2>1 DEF ValuesInv
<1>10. CASE Next
  BY <1>4, <1>5, <1>6, <1>7, <1>8, <1>10, Zenon DEF Next
<1>. QED  BY <1>9, <1>10, Zenon DEF LayersNext

--------------------------------------------------------------------------------
(* The sums are exact *)

\* What holds of the detector in every state.
ExactInv == IntRows(rows) /\ DetInv(rows, AlarmTimes, det)

\* A later element keeps the invariant.
LEMMA ExactKept ==
  ASSUME DriftInv, ExactInv, NEW ts, NEW x \in Int, NEW u, u = Update(det, x), NEW c, NEW h,
         Grown(ts, x, u, c, h)
  PROVE  ExactInv'
<1>1. /\ Extends1(rows, rows', ts) /\ OneLater(rows, rows', x) /\ det' = u.det
      /\ Alarms1(AlarmTimes, AlarmTimes', u.alarm # NoAlarm, ts)
  BY Zenon DEF Grown
<1>2. AlarmTimes \subseteq TimesAt(rows)
  BY DEF DriftInv, FeedInv, WindowInv, WindowOver
<1>3. DetInv(rows', AlarmTimes', u.det)
  <2>. HIDE DEF AlarmTimes
  <2>1. DetInv(rows, AlarmTimes, det)
    BY DEF ExactInv
  <2>. QED  BY <1>1, <1>2, <2>1, DetectorKeeps, Zenon
<1>4. IntRows(rows')
  <2>1. \A i \in 1..Len(rows') : i \in 1..Len(rows) \/ i = Len(rows) + 1
    BY <1>1 DEF OneLater
  <2>. QED  BY <1>1, <2>1 DEF OneLater, IntRows, ExactInv
<1>. QED  BY <1>1, <1>3, <1>4 DEF ExactInv

\* An empty detector describes the empty window.
LEMMA ExactInitially == LayersInit => ValuesInv /\ ExactInv
<1>. SUFFICES ASSUME Init PROVE ValuesInv /\ ExactInv
  BY DEF LayersInit
<1>1. /\ rows = <<>> /\ events = <<>> /\ det = NewDetector /\ bucket = [hour |-> NoHour, values |-> <<>>]
  BY DEF Init
<1>2. ValuesInv
  BY <1>1 DEF ValuesInv
<1>3. Len(rows) = 0 /\ IntRows(rows) /\ WMax \in Nat /\ 4 <= WMin /\ WMin \in Nat
  BY <1>1, CutFacts DEF IntRows
<1>. DEFINE d == Rec([i \in 0..WMax |-> 0], 0, 0, 0, 0, 0, 0, 0)
<1>4. det = d /\ d.n = 0 /\ d.h = 0 /\ d.buf \in [0..WMax -> Int]
  BY <1>1 DEF NewDetector, Rec
<1>5. d = Rec(d.buf, 0, 0, 0, 0, 0, 0, 0)
  BY DEF Rec
<1>. HIDE DEF d
<1>6. d \in Detectors
  <2>1. 0 \in 0..WMax /\ 0 \in Nat /\ 0 \in Int
    BY <1>3
  <2>. QED  BY <1>4, <1>5, <2>1, RecTyped
<1>7. Describes(d, LastOf(rows, 0), 0)
  <2>1. LastOf(rows, 0) \in [1..0 -> Int]
    BY DEF LastOf
  <2>. QED  BY <1>5, <1>6, <2>1, NoneDescribed
<1>8. /\ 0 \in 0..WMax /\ 0 <= Len(rows) /\ HalfOf(0) = 0 /\ 0 \in 0..Len(rows)
      /\ Reach(Len(rows) - 0) = 0 /\ \A k \in (0 + 1)..Len(rows) : FALSE
  BY <1>3 DEF HalfOf, Reach
<1>9. DetInv(rows, AlarmTimes, det)
  BY <1>4, <1>7, <1>8, Zenon DEF DetInv
<1>. QED  BY <1>2, <1>3, <1>9 DEF ExactInv

\* Every step keeps the invariant.
LEMMA ExactStep ==
  DriftInv /\ ValuesInv /\ ExactInv /\ [LayersNext]_<<vars, dayVars>> => ValuesInv' /\ ExactInv'
<1>. SUFFICES ASSUME DriftInv, ValuesInv, ExactInv, [LayersNext]_<<vars, dayVars>>
              PROVE  ValuesInv' /\ ExactInv'
  OBVIOUS
<1>1. (Feeds \/ UNCHANGED stream) /\ ValuesInv'
  BY StepFeeds
<1>2. CASE Feeds
  <2>1. PICK ts \in Nat, x \in Int : Fresh(ts) /\ Feed(ts, x)
    BY <1>2 DEF Feeds
  <2>2. PICK u, c, h : u = Update(det, x) /\ c = Check(gate, ts, x) /\ h = Candidate(c.gate, ts, u.alarm)
    OBVIOUS
  <2>3. FeedInv
    BY DEF DriftInv
  <2>4. Grown(ts, x, u, c, h)
    BY <2>1, <2>2, <2>3, FeedGrows, Zenon DEF Fresh
  <2>. QED  BY <1>1, <2>2, <2>4, ExactKept, Zenon
<1>3. CASE UNCHANGED stream
  <2>1. rows' = rows /\ det' = det /\ AlarmTimes' = AlarmTimes
    BY <1>3 DEF stream, AlarmTimes, Alarmed
  <2>. QED  BY <1>1, <2>1 DEF ExactInv
<1>. QED  BY <1>1, <1>2, <1>3

\* In every run the running sums of the detector, its ring and its boundary describe
\* exactly the elements since the last alarm, as far as the window reaches: for any
\* streams, cuts, critical values and lengths, and however often the boundary moved,
\* elements left the ring or alarms emptied it (optwin_offline.Detector.update).
THEOREM SumsStayExact == LayersSpec => []SumsAreExact
<1>1. LayersInit => ValuesInv /\ ExactInv
  BY ExactInitially
<1>2. DriftInv /\ DriftInv' /\ ValuesInv /\ ExactInv /\ [LayersNext]_<<vars, dayVars>> => ValuesInv' /\ ExactInv'
  BY ExactStep
<1>3. ExactInv => SumsAreExact
  BY SumsFollow DEF ExactInv
<1>. QED  BY <1>1, <1>2, <1>3, DriftInvariant, PTL DEF LayersSpec

\* The threshold that a window sets, and the medians after element i.
OriginOf(w) ==
  LET hist == SubSeq(w, 1, Cut[Len(w)])
  IN  [median |-> Median(hist),
       var |-> Variance(Total(1..Len(hist), hist), Squares(1..Len(hist), hist), Len(hist))]
MedianAt(rs, i, j) == Median([k \in 1..MedianSpan |-> rs[i + j - MedianSpan + k].x])
Passed(rs, i, o, n) == \A j \in MedianSpan..n : Above(MedianAt(rs, i, j), o)

\* The window of element i, of n elements, and the threshold it sets.
Sets(rs, A, i, n, o) == n \in WMin..WMax /\ Since(rs, A, i, n) /\ o = OriginOf(UpTo(rs, i, n))

\* How the elements after i revoke or confirm its check, against the threshold o: at
\* the first median that is not above, or at the K-th element if there is none.
Revoked(rs, i, o, t) ==
  \E j \in MedianSpan..K : /\ i + j <= Len(rs) /\ rs[i + j].ts = t
                           /\ ~Above(MedianAt(rs, i, j), o) /\ Passed(rs, i, o, j - 1)
Confirmed(rs, i, o, t) == i + K <= Len(rs) /\ rs[i + K].ts = t /\ Passed(rs, i, o, K)
Settled(rs, i, o, e) ==
  (e.level = "REVOKE" /\ Revoked(rs, i, o, e.ts)) \/ (e.level = "CONFIRM" /\ Confirmed(rs, i, o, e.ts))

\* The candidates that began a check.
Begun(E) == {c \in E : c.level = "CANDIDATE" /\ ~c.duringCheck}

--------------------------------------------------------------------------------
(* Later elements *)

\* The median of elements that are there does not change.
LEMMA MedianStays ==
  ASSUME NEW rs, NEW more, NEW x, OneLater(rs, more, x), NEW i \in 1..Len(rs), NEW j \in Int,
         MedianSpan <= j, i + j <= Len(rs)
  PROVE  MedianAt(more, i, j) = MedianAt(rs, i, j)
<1>1. MedianSpan \in Nat /\ Len(rs) \in Nat /\ \A k \in 1..Len(rs) : more[k] = rs[k]
  BY OptWinAssumption DEF OneLater
<1>2. \A k \in 1..MedianSpan : i + j - MedianSpan + k \in 1..Len(rs)
  BY <1>1
<1>. DEFINE s == [k \in 1..MedianSpan |-> rs[i + j - MedianSpan + k].x]
            t == [k \in 1..MedianSpan |-> more[i + j - MedianSpan + k].x]
<1>3. \A k \in 1..MedianSpan : rs[i + j - MedianSpan + k] = more[i + j - MedianSpan + k]
  BY <1>1, <1>2
<1>4. s = t
  BY <1>3
<1>. HIDE DEF s, t
<1>5. Median(s) = Median(t)
  BY <1>4
<1>. QED  BY <1>5, Zenon DEF MedianAt, s, t

\* So a check has passed the same medians.
LEMMA PassedStays ==
  ASSUME NEW rs, NEW more, NEW x, OneLater(rs, more, x), NEW i \in 1..Len(rs), NEW n \in Int,
         i + n <= Len(rs), NEW o
  PROVE  Passed(more, i, o, n) <=> Passed(rs, i, o, n)
<1>1. MedianSpan \in Nat /\ Len(rs) \in Nat
  BY OptWinAssumption DEF OneLater
<1>2. ASSUME NEW j \in MedianSpan..n
      PROVE  MedianAt(more, i, j) = MedianAt(rs, i, j)
  <2>1. j \in Int /\ MedianSpan <= j /\ i + j <= Len(rs)
    BY <1>1
  <2>. QED  BY <2>1, MedianStays
<1>. QED  BY <1>2, Zenon DEF Passed

\* A conclusion that the elements settle stays settled.
LEMMA SettledStays ==
  ASSUME NEW rs, NEW more, NEW x, OneLater(rs, more, x), NEW i \in 1..Len(rs), NEW o, NEW e,
         Settled(rs, i, o, e)
  PROVE  Settled(more, i, o, e)
<1>1. /\ MedianSpan \in Nat \ {0} /\ K \in Nat /\ Len(rs) \in Nat /\ Len(more) = Len(rs) + 1
      /\ \A k \in 1..Len(rs) : more[k] = rs[k]
  BY OptWinAssumption DEF OneLater
<1>2. CASE e.level = "REVOKE" /\ Revoked(rs, i, o, e.ts)
  <2>1. PICK j \in MedianSpan..K : /\ i + j <= Len(rs) /\ rs[i + j].ts = e.ts
                                   /\ ~Above(MedianAt(rs, i, j), o) /\ Passed(rs, i, o, j - 1)
    BY <1>2 DEF Revoked
  <2>2. j \in Int /\ j - 1 \in Int /\ MedianSpan <= j /\ i + (j - 1) <= Len(rs) /\ i + j \in 1..Len(rs) /\ i + j <= Len(more)
    BY <1>1, <2>1
  <2>3. MedianAt(more, i, j) = MedianAt(rs, i, j)
    BY <2>1, <2>2, MedianStays
  <2>4. Passed(more, i, o, j - 1)
    BY <2>1, <2>2, PassedStays
  <2>5. more[i + j] = rs[i + j]
    BY <1>1, <2>2
  <2>6. Revoked(more, i, o, e.ts)
    BY <2>1, <2>2, <2>3, <2>4, <2>5, Zenon DEF Revoked
  <2>. QED  BY <1>2, <2>6 DEF Settled
<1>3. CASE e.level = "CONFIRM" /\ Confirmed(rs, i, o, e.ts)
  <2>1. i + K <= Len(rs) /\ rs[i + K].ts = e.ts /\ Passed(rs, i, o, K)
    BY <1>3 DEF Confirmed
  <2>2. i + K \in 1..Len(rs) /\ K \in Int /\ i + K <= Len(more)
    BY <1>1, <2>1
  <2>3. Passed(more, i, o, K) /\ more[i + K] = rs[i + K]
    BY <1>1, <2>1, <2>2, PassedStays
  <2>. QED  BY <1>3, <2>1, <2>2, <2>3 DEF Settled, Confirmed
<1>. QED  BY <1>2, <1>3, Zenon DEF Settled

\* A candidate keeps its window and its threshold.
LEMMA SetsStays ==
  ASSUME NEW rs, NEW more, NEW ts, Extends1(rs, more, ts), NEW A, NEW B, NEW fired, Alarms1(A, B, fired, ts),
         NEW i \in 1..Len(rs), NEW n, NEW o, Sets(rs, A, i, n, o)
  PROVE  Sets(more, B, i, n, o)
<1>1. Len(rs) \in Nat /\ \A k \in 1..Len(rs) : more[k] = rs[k]
  BY DEF Extends1
<1>2. \A k \in 1..Len(rs) : rs[k].ts # ts
  <2>1. \A k \in 1..Len(rs) : more[k].ts < ts /\ more[k].ts \in Nat /\ ts \in Nat
    <3>1. \A k \in 1..Len(rs) : k \in 1..(Len(rs) + 1) /\ Len(rs) + 1 \in 1..(Len(rs) + 1) /\ k < Len(rs) + 1
      BY <1>1
    <3>. QED  BY <3>1 DEF Extends1, RowsInv
  <2>2. \A k \in 1..Len(rs) : more[k].ts # ts
    BY <2>1
  <2>. QED  BY <1>1, <2>2
<1>3. \A k \in 1..Len(rs) : more[k].ts \in B <=> rs[k].ts \in A
  BY <1>1, <1>2 DEF Alarms1
<1>4. PICK f \in 0..i : LastAlarm(rs, A, i, f) /\ n = Reach(i - f)
  BY DEF Sets, Since
<1>5. LastAlarm(more, B, i, f)
  <2>1. f \in 0..i /\ (f = 0 \/ (f < i /\ more[f].ts \in B))
    BY <1>1, <1>3, <1>4 DEF LastAlarm
  <2>2. \A k \in (f + 1)..(i - 1) : k \in 1..Len(rs)
    BY <1>1, <1>4
  <2>3. \A k \in (f + 1)..(i - 1) : more[k].ts \notin B
    BY <1>3, <1>4, <2>2 DEF LastAlarm
  <2>. QED  BY <2>1, <2>3, Zenon DEF LastAlarm
<1>6. Since(more, B, i, n)
  BY <1>4, <1>5, Zenon DEF Since
<1>7. UpTo(more, i, n) = UpTo(rs, i, n)
  <2>1. n \in Nat /\ n <= i
    <3>1. WMax \in Nat /\ n \in WMin..WMax /\ WMin \in Nat
      BY CutFacts DEF Sets
    <3>. QED  BY <1>1, <1>4, <3>1 DEF Reach
  <2>2. \A k \in 1..n : (i - n) + k \in 1..Len(rs)
    BY <1>1, <2>1
  <2>3. \A k \in 1..n : more[(i - n) + k] = rs[(i - n) + k]
    BY <1>1, <2>2
  <2>. QED  BY <2>3 DEF UpTo
<1>. QED  BY <1>6, <1>7, Zenon DEF Sets

--------------------------------------------------------------------------------
(* The threshold of an alarm *)

\* The threshold of an alarm is that of the window that raised it.
SameThreshold(p, o) == p.median = o.median /\ p.var = o.var

\* A threshold with the same median and variance is as high.
LEMMA AboveSame ==
  ASSUME NEW p, NEW o, SameThreshold(p, o), NEW med
  PROVE  Above(med, p) <=> Above(med, o)
BY Zenon DEF Above, SameThreshold

\* An alarm has the median and the variance of the historical part of its window.
LEMMA AlarmSets ==
  ASSUME NEW n \in WMin..WMax, NEW e, NEW w, Describes(e, w, n), e.h = Cut[n], NEW test
  PROVE  SameThreshold(Alarm(e, test), OriginOf(w))
<1>. DEFINE c == Cut[n]
            hist == SubSeq(w, 1, c)
            got == [i \in 1..c |-> Get(e, i - 1)]
<1>1. n \in Nat /\ n \in 0..WMax /\ c \in Nat /\ c <= n /\ WMax \in Nat
  BY CutFacts
<1>2. w \in [1..n -> Int]
  BY Zenon DEF Describes
<1>3. Len(w) = n
  BY <1>1, <1>2
<1>4. Sound(e, w, n, c)
  BY <1>1, DescribedIsSound
<1>5. hist \in Seq(Int) /\ Len(hist) = c /\ \A i \in 1..c : hist[i] = w[i]
  <2>1. \A i \in 1..c : w[i] \in Int
    BY <1>1, <1>2
  <2>2. 1 \in Int /\ c \in Int
    BY <1>1
  <2>3. hist \in Seq(Int) /\ Len(hist) = (IF 1 <= c THEN c - 1 + 1 ELSE 0) /\ \A i \in 1..(c - 1 + 1) : hist[i] = w[1 + i - 1]
    BY <2>1, <2>2, SubSeqProperties
  <2>4. c - 1 + 1 = c /\ \A i \in 1..c : 1 + i - 1 = i
    BY <1>1
  <2>5. (IF 1 <= c THEN c - 1 + 1 ELSE 0) = c
    BY <1>1
  <2>. HIDE DEF hist, c
  <2>. QED  BY <2>3, <2>4, <2>5
<1>6. hist = got
  <2>1. hist = [i \in 1..c |-> hist[i]]
    <3>. HIDE DEF hist, c
    <3>. QED  BY <1>5
  <2>2. \A i \in 1..c : Get(e, i - 1) = w[i]
    <3>1. \A i \in 1..n : Get(e, i - 1) = w[i]
      BY <1>4 DEF Sound
    <3>. QED  BY <1>1, <3>1
  <2>3. \A i \in 1..c : hist[i] = Get(e, i - 1)
    BY <1>5, <2>2, Zenon
  <2>. HIDE DEF hist
  <2>. QED  BY <2>1, <2>3
<1>. HIDE DEF hist
<1>7. Total(1..c, hist) = Total(1..c, w) /\ Squares(1..c, hist) = Squares(1..c, w)
  <2>1. 1 \in Int /\ c \in Int /\ IntsOn(w, 1, c) /\ \A i \in 1..c : hist[i] = w[i] /\ i \in 1..n
    BY <1>1, <1>2, <1>5 DEF IntsOn
  <2>2. Total(1..c, hist) = Total(1..c, w)
    BY <2>1, TotalSame
  <2>. DEFINE g == Squared(w)
  <2>3. \A i \in 1..c : g[i] = w[i] * w[i]
    BY <1>1, <1>2, <2>1, SquaredInts
  <2>. HIDE DEF g
  <2>4. Squares(1..c, w) = Total(1..c, g)
    BY <2>1, <2>3, SquaresOver
  <2>5. Squares(1..c, hist) = Total(1..c, g)
    <3>1. IntsOn(hist, 1, c) /\ \A i \in 1..c : g[i] = hist[i] * hist[i]
      BY <2>1, <2>3 DEF IntsOn
    <3>. QED  BY <2>1, <3>1, SquaresOver
  <2>. QED  BY <2>2, <2>4, <2>5
<1>8. e.sumH = Total(1..c, w) /\ e.sqH = Squares(1..c, w)
  BY <1>4 DEF Sound
<1>9. /\ OriginOf(w).median = Median(hist)
      /\ OriginOf(w).var = Variance(Total(1..c, hist), Squares(1..c, hist), c)
  BY <1>3, <1>5 DEF OriginOf, hist
<1>10. /\ Alarm(e, test).median = Median(got)
       /\ Alarm(e, test).var = Variance(e.sumH, e.sqH, c)
  BY DEF Alarm
<1>. HIDE DEF got, c
<1>11. Median(hist) = Median(got)
  BY <1>6
<1>. QED  BY <1>7, <1>8, <1>9, <1>10, <1>11 DEF SameThreshold

--------------------------------------------------------------------------------
(* A check among the elements *)

\* The elements that a check slides over, its candidate's window and threshold, and
\* the medians it passed.
Slides(rs, last) == \A k \in 1..Len(last) : last[k] = rs[(Len(rs) - Len(last)) + k].x
Ongoing(rs, A, g) ==
  /\ Slides(rs, g.last)
  /\ \E n, o : /\ Sets(rs, A, Len(rs) - g.seen, n, o) /\ SameThreshold(g.origin, o)
               /\ Passed(rs, Len(rs) - g.seen, o, g.seen)

\* A conclusion of the check of the candidate of ts.
Ended(rs, A, ts, e) ==
  /\ e.level # "CANDIDATE" /\ e.candidateTs = ts
  /\ \E i \in 1..Len(rs) : \E n, o : rs[i].ts = ts /\ Sets(rs, A, i, n, o) /\ Settled(rs, i, o, e)

\* Every candidate that began a check has a conclusion, or its check is the running one.
Followed(rs, A, E, g, c) ==
  (g.pending /\ g.candidateTs = c.ts) \/ (\E e \in E : Ended(rs, A, c.ts, e))
CheckInv(rs, A, E, g) ==
  /\ g.pending => Ongoing(rs, A, g) /\ \E c \in Begun(E) : c.ts = g.candidateTs
  /\ \A c \in Begun(E) : Followed(rs, A, E, g, c)

\* The elements that a check slides over, with one more.
LEMMA SlidesOn ==
  ASSUME NEW rs, NEW more, NEW x, OneLater(rs, more, x), NEW s, IsSeq(s), Slides(rs, s), Len(s) <= Len(rs)
  PROVE  Slides(more, LastOnes(Append(s, x)))
<1>. DEFINE a == Append(s, x)
            L == Len(rs)
            m == Len(s)
<1>1. L \in Nat /\ Len(more) = L + 1 /\ (\A i \in 1..L : more[i] = rs[i]) /\ more[L + 1].x = x
  BY DEF OneLater
<1>0. OneMore(s, a, x)
  <2>. HIDE DEF a
  <2>. QED  BY Appended DEF a
<1>. HIDE DEF a
<1>2. /\ IsSeq(a) /\ m \in Nat /\ Len(a) = m + 1
       /\ (\A i \in 1..m : a[i] = s[i]) /\ a[m + 1] = x
  BY <1>0 DEF OneMore
<1>3. \A k \in 1..(m + 1) : a[k] = more[(L - m) + k].x
  <2>. SUFFICES ASSUME NEW k \in 1..(m + 1)
                PROVE  a[k] = more[(L - m) + k].x
    OBVIOUS
  <2>1. CASE k \in 1..m
    <3>1. a[k] = s[k] /\ s[k] = rs[(L - m) + k].x
      BY <1>2, <2>1 DEF Slides
    <3>2. (L - m) + k \in 1..L
      BY <1>1, <1>2, <2>1
    <3>. QED  BY <1>1, <3>1, <3>2
  <2>2. CASE k = m + 1
    <3>1. (L - m) + k = L + 1
      BY <1>1, <1>2, <2>2
    <3>. QED  BY <1>1, <1>2, <2>2, <3>1
  <2>. QED  BY <1>2, <2>1, <2>2
<1>4. PICK t : t = LastOnes(a)
  OBVIOUS
<1>5. CASE Len(a) > MedianSpan
  <2>1. t = Tail(a) /\ MedianSpan \in Nat \ {0}
    BY <1>4, <1>5, OptWinAssumption DEF LastOnes
  <2>2. a \in Seq(ToSet(a)) /\ a # <<>>
    BY <1>2, <1>5, <2>1 DEF IsSeq
  <2>3. Len(t) = m /\ \A k \in 1..m : t[k] = a[k + 1]
    <3>1. Len(t) = Len(a) - 1 /\ \A k \in 1..Len(t) : t[k] = a[k + 1]
      BY <2>1, <2>2, HeadTailProperties
    <3>. QED  BY <1>2, <3>1
  <2>4. ASSUME NEW k \in 1..m
        PROVE  t[k] = more[((L + 1) - m) + k].x
    <3>1. k + 1 \in 1..(m + 1) /\ (L - m) + (k + 1) = ((L + 1) - m) + k
      BY <1>1, <1>2
    <3>. QED  BY <1>3, <2>3, <3>1
  <2>. QED  BY <1>1, <1>4, <2>3, <2>4 DEF Slides, a
<1>6. CASE ~ (Len(a) > MedianSpan)
  <2>1. t = a
    BY <1>4, <1>6, Zenon DEF LastOnes
  <2>2. ASSUME NEW k \in 1..(m + 1)
        PROVE  t[k] = more[((L + 1) - (m + 1)) + k].x
    <3>1. ((L + 1) - (m + 1)) + k = (L - m) + k
      BY <1>1, <1>2
    <3>. QED  BY <1>3, <2>1, <3>1
  <2>. QED  BY <1>1, <1>2, <1>4, <2>1, <2>2 DEF Slides, a
<1>. QED  BY <1>5, <1>6

\* The median of what a check slides over.
LEMMA MedianOfLast ==
  ASSUME NEW rs, NEW s, IsSeq(s), Slides(rs, s), Len(s) = MedianSpan, NEW i \in Int, NEW j \in Int,
         i + j = Len(rs)
  PROVE  Median(s) = MedianAt(rs, i, j)
<1>. DEFINE t == [k \in 1..MedianSpan |-> rs[i + j - MedianSpan + k].x]
<1>1. MedianSpan \in Nat
  BY OptWinAssumption
<1>2. \A k \in 1..MedianSpan : s[k] = t[k]
  <2>1. \A k \in 1..MedianSpan : (Len(rs) - MedianSpan) + k = i + j - MedianSpan + k
    BY <1>1
  <2>2. \A k \in 1..MedianSpan : s[k] = rs[(Len(rs) - MedianSpan) + k].x
    BY DEF Slides
  <2>3. \A k \in 1..MedianSpan : s[k] = rs[i + j - MedianSpan + k].x
    BY <2>1, <2>2
  <2>. QED  BY <2>3
<1>3. s = [k \in 1..MedianSpan |-> s[k]]
  <2>1. s \in Seq(ToSet(s))
    BY DEF IsSeq
  <2>. QED  BY <1>1, <2>1
<1>4. t = [k \in 1..MedianSpan |-> t[k]]
  OBVIOUS
<1>. HIDE DEF t
<1>5. s = t
  BY <1>2, <1>3, <1>4
<1>6. Median(s) = Median(t)
  BY <1>5
<1>. QED  BY <1>6, Zenon DEF MedianAt, t

\* What a running check does with an element: it goes on among more elements, or ends
\* with what they say.
GoesOn(more, B, g, h, out) ==
  /\ out = <<>> /\ h.pending /\ h.candidateTs = g.candidateTs /\ Ongoing(more, B, h)
EndsNow(more, B, g, h, out) ==
  /\ ~h.pending
  /\ \E e : out = <<e>> /\ Ended(more, B, g.candidateTs, e)

\* A check that passed so far and is above the threshold once more.
LEMMA PassesOn ==
  ASSUME NEW rs, NEW i, NEW o, NEW s \in Nat, Passed(rs, i, o, s),
         s + 1 < MedianSpan \/ Above(MedianAt(rs, i, s + 1), o)
  PROVE  Passed(rs, i, o, s + 1)
<1>1. MedianSpan \in Nat
  BY OptWinAssumption
<1>2. ASSUME NEW j \in MedianSpan..(s + 1)
      PROVE  Above(MedianAt(rs, i, j), o)
  <2>1. CASE j \in MedianSpan..s
    BY <2>1, Zenon DEF Passed
  <2>2. CASE j \notin MedianSpan..s
    <3>1. j = s + 1 /\ ~ (s + 1 < MedianSpan)
      BY <1>1, <2>2
    <3>2. Above(MedianAt(rs, i, s + 1), o)
      BY <3>1
    <3>. QED  BY <3>1, <3>2
  <2>. QED  BY <2>1, <2>2
<1>. QED  BY <1>2, Zenon DEF Passed

\* An element that comes to a running check moves it on, confirms it or revokes it, as
\* its sliding median and the number of elements say (DriftGate.onElement).
LEMMA CheckLooks ==
  ASSUME NEW rs, NEW more, NEW ts, Extends1(rs, more, ts), NEW x, OneLater(rs, more, x),
         NEW A, NEW B, NEW fired, Alarms1(A, B, fired, ts),
         NEW g, IsGate(g), g.pending, Running(rs, g), Ongoing(rs, A, g),
         NEW c, c = Check(g, ts, x)
  PROVE  GoesOn(more, B, g, c.gate, c.out) \/ EndsNow(more, B, g, c.gate, c.out)
<1>. DEFINE L == Len(rs)
            i == L - g.seen
            s == g.seen + 1
            last == LastOnes(Append(g.last, x))
            h == [g EXCEPT !.seen = @ + 1, !.last = last]
<1>1. /\ MedianSpan \in Nat \ {0} /\ K \in Nat /\ MedianSpan <= K
      /\ L \in Nat /\ Len(more) = L + 1 /\ more[L + 1].ts = ts
  BY OptWinAssumption DEF Extends1
<1>2. /\ g.seen \in Nat /\ g.seen < K /\ i \in 1..L /\ more[i].ts = g.candidateTs
      /\ g.seen < L
  BY CandidateRow DEF Running
<1>3. Len(g.last) = IF g.seen < MedianSpan THEN g.seen ELSE MedianSpan
  BY DEF Running
<1>4. Len(g.last) <= Len(rs)
  BY <1>1, <1>2, <1>3
<1>5. IsSeq(last) /\ Len(last) = IF s < MedianSpan THEN s ELSE MedianSpan
  BY <1>2, <1>3, LastGrows DEF IsGate
<1>6. Slides(more, last)
  BY <1>4, SlidesOn DEF IsGate, Ongoing
<1>7. c = Conclude(h, ts, Reached(h))
  BY DEF Check, CheckWindow
<1>. HIDE DEF last
<1>8. /\ h.last = last /\ h.seen = s /\ h.pending = g.pending
      /\ h.candidateTs = g.candidateTs /\ h.origin = g.origin
      /\ DOMAIN h = {"last", "pending", "seen", "candidateTs", "origin"}
  BY DEF IsGate
<1>. HIDE DEF h
<1>9. PICK n, o : /\ Sets(rs, A, i, n, o) /\ SameThreshold(g.origin, o) /\ Passed(rs, i, o, g.seen)
  BY Zenon DEF Ongoing
<1>10. Sets(more, B, i, n, o)
  <2>. HIDE DEF i
  <2>. QED  BY <1>2, <1>9, SetsStays, Zenon
<1>11. Passed(more, i, o, g.seen)
  <2>1. g.seen \in Int /\ i + g.seen <= Len(rs)
    BY <1>1, <1>2
  <2>. HIDE DEF i
  <2>. QED  BY <1>2, <1>9, <2>1, PassedStays, Zenon
<1>12. /\ i \in 1..Len(more) /\ i \in Int /\ s \in Int /\ i + s = Len(more) /\ i = Len(more) - s
       /\ s \in Nat /\ s <= K /\ s - 1 = g.seen /\ more[i + s].ts = ts
  <2>1. i + s = L + 1 /\ s \in Nat /\ s <= K /\ s - 1 = g.seen
    BY <1>1, <1>2
  <2>2. i \in 1..Len(more) /\ i \in Int /\ s \in Int /\ i = Len(more) - s /\ i + s = Len(more)
    BY <1>1, <1>2, <2>1
  <2>3. more[i + s].ts = ts
    <3>. HIDE DEF i, s
    <3>. QED  BY <1>1, <2>1
  <2>. QED  BY <2>1, <2>2, <2>3
<1>13. ~ (s < MedianSpan) => Median(last) = MedianAt(more, i, s)
  <2>1. ASSUME ~ (s < MedianSpan) PROVE Len(last) = MedianSpan
    BY <1>5, <2>1
  <2>. HIDE DEF i, s
  <2>. QED  BY <1>5, <1>6, <1>12, <2>1, MedianOfLast
<1>. DEFINE med == MedianAt(more, i, s)
<1>14. Above(med, g.origin) <=> Above(med, o)
  <2>. HIDE DEF med
  <2>. QED  BY <1>9, AboveSame, Zenon
<1>15. Len(h.last) < MedianSpan <=> s < MedianSpan
  BY <1>1, <1>2, <1>5, <1>8
<1>16. (s < MedianSpan \/ Above(med, o)) => Passed(more, i, o, s)
  <2>. HIDE DEF i
  <2>. QED  BY <1>2, <1>11, PassesOn
<1>. HIDE DEF med
<1>17. CASE Reached(h) = "none"
  <2>1. c.gate = h /\ c.out = <<>>
    BY <1>7, <1>17 DEF Conclude
  <2>2. s < MedianSpan \/ Above(med, o)
    <3>1. Len(h.last) < MedianSpan \/ Above(Median(h.last), h.origin)
      BY <1>17 DEF Reached
    <3>. QED  BY <1>8, <1>13, <1>14, <1>15, <3>1, Zenon DEF med
  <2>3. Ongoing(more, B, h)
    <3>1. Slides(more, h.last) /\ SameThreshold(h.origin, o) /\ h.seen = s
      BY <1>6, <1>8, <1>9
    <3>2. Sets(more, B, Len(more) - h.seen, n, o) /\ Passed(more, Len(more) - h.seen, o, h.seen)
      <4>. HIDE DEF i, s
      <4>. QED  BY <1>10, <1>12, <1>16, <2>2, <3>1, Zenon
    <3>. QED  BY <3>1, <3>2, Zenon DEF Ongoing
  <2>. QED  BY <1>8, <2>1, <2>3, Zenon DEF GoesOn
<1>18. CASE Reached(h) # "none"
  <2>. DEFINE e == [ts |-> ts, level |-> Reached(h), test |-> h.origin.test,
                    candidateTs |-> h.candidateTs, duringCheck |-> FALSE]
  <2>1. c = [gate |-> [h EXCEPT !.pending = FALSE], out |-> <<e>>]
    BY <1>7, <1>18 DEF Conclude
  <2>2. e.ts = ts /\ e.candidateTs = g.candidateTs /\ e.level = Reached(h)
    BY <1>8
  <2>. HIDE DEF e
  <2>3. c.gate = [h EXCEPT !.pending = FALSE] /\ c.out = <<e>>
    BY <2>1
  <2>4. ~c.gate.pending
    BY <1>8, <2>3
  <2>5. ~ (s < MedianSpan)
    <3>1. ~ (Len(h.last) < MedianSpan)
      BY <1>18, Zenon DEF Reached
    <3>. QED  BY <1>15, <3>1, Zenon
  <2>6. \/ ~Above(med, o) /\ e.level = "REVOKE"
        \/ Above(med, o) /\ e.level = "CONFIRM" /\ s = K
    <3>1. \/ ~Above(Median(h.last), h.origin) /\ Reached(h) = "REVOKE"
          \/ Above(Median(h.last), h.origin) /\ h.seen = K /\ Reached(h) = "CONFIRM"
      <4>1. ~ (Len(h.last) < MedianSpan)
        BY <1>18, Zenon DEF Reached
      <4>. QED  BY <1>18, <4>1, Zenon DEF Reached
    <3>2. Above(Median(h.last), h.origin) <=> Above(med, o)
      BY <1>8, <1>13, <1>14, <2>5, Zenon DEF med
    <3>. QED  BY <1>8, <2>2, <3>1, <3>2, Zenon
  <2>7. Settled(more, i, o, e)
    <3>1. CASE ~Above(med, o) /\ e.level = "REVOKE"
      <4>1. s \in MedianSpan..K /\ i + s <= Len(more)
        BY <1>1, <1>12, <2>5
      <4>2. Passed(more, i, o, s - 1)
        BY <1>11, <1>12, Zenon
      <4>. HIDE DEF i, s
      <4>3. Revoked(more, i, o, e.ts)
        BY <1>12, <2>2, <3>1, <4>1, <4>2, Zenon DEF Revoked, med
      <4>. QED  BY <3>1, <4>3, Zenon DEF Settled
    <3>2. CASE Above(med, o) /\ e.level = "CONFIRM" /\ s = K
      <4>1. i + K <= Len(more) /\ more[i + K].ts = e.ts
        BY <1>12, <2>2, <3>2
      <4>2. Passed(more, i, o, K)
        BY <1>16, <3>2, Zenon
      <4>. HIDE DEF i, s
      <4>3. Confirmed(more, i, o, e.ts)
        BY <4>1, <4>2, Zenon DEF Confirmed
      <4>. QED  BY <3>2, <4>3, Zenon DEF Settled
    <3>. QED  BY <2>6, <3>1, <3>2, Zenon
  <2>8. e.level # "CANDIDATE"
    BY <2>6
  <2>9. Ended(more, B, g.candidateTs, e)
    <3>. HIDE DEF i
    <3>. QED  BY <1>2, <1>10, <1>12, <2>2, <2>7, <2>8, Zenon DEF Ended
  <2>. QED  BY <2>3, <2>4, <2>9, Zenon DEF EndsNow
<1>. QED  BY <1>17, <1>18

\* A conclusion stays what the elements say.
LEMMA EndedStays ==
  ASSUME NEW rs, NEW more, NEW ts, Extends1(rs, more, ts), NEW x, OneLater(rs, more, x),
         NEW A, NEW B, NEW fired, Alarms1(A, B, fired, ts), NEW t, NEW e, Ended(rs, A, t, e)
  PROVE  Ended(more, B, t, e)
<1>1. PICK i \in 1..Len(rs) : \E n, o : rs[i].ts = t /\ Sets(rs, A, i, n, o) /\ Settled(rs, i, o, e)
  BY DEF Ended
<1>2. PICK n, o : rs[i].ts = t /\ Sets(rs, A, i, n, o) /\ Settled(rs, i, o, e)
  BY <1>1
<1>3. Sets(more, B, i, n, o)
  BY <1>2, SetsStays, Zenon
<1>4. Settled(more, i, o, e)
  BY <1>2, SettledStays, Zenon
<1>5. i \in 1..Len(more) /\ more[i].ts = t
  BY <1>2 DEF Extends1
<1>6. e.level # "CANDIDATE" /\ e.candidateTs = t
  BY DEF Ended
<1>. QED  BY <1>3, <1>4, <1>5, <1>6, Zenon DEF Ended

\* What no output adds to the events.
LEMMA NoOneEnds ==
  ASSUME NEW E, NEW s, s = <<>>
  PROVE  E \cup ToSet(s) = E
BY DEF ToSet

\* What one output adds.
LEMMA OneEnds ==
  ASSUME NEW E, NEW s, NEW e, s = <<e>>
  PROVE  E \cup ToSet(s) = E \cup {e}
<1>1. ToSet(s) = {e}
  BY DEF ToSet
<1>. QED  BY <1>1

\* An element that comes to the gate keeps what is said of the checks.
LEMMA CheckFollows ==
  ASSUME NEW rs, NEW more, NEW ts, Extends1(rs, more, ts), NEW x, OneLater(rs, more, x),
         NEW A, NEW B, NEW fired, Alarms1(A, B, fired, ts),
         NEW g, IsGate(g), g.pending => Running(rs, g), NEW E, CheckInv(rs, A, E, g),
         NEW c, c = Check(g, ts, x)
  PROVE  CheckInv(more, B, E \cup ToSet(c.out), c.gate)
<1>1. ASSUME NEW t, NEW e, Ended(rs, A, t, e)
      PROVE  Ended(more, B, t, e)
  BY <1>1, EndedStays, Zenon
<1>2. PICK F : F = E \cup ToSet(c.out)
  OBVIOUS
<1>3. /\ g.pending => Ongoing(rs, A, g) /\ \E b \in Begun(E) : b.ts = g.candidateTs
      /\ \A b \in Begun(E) : Followed(rs, A, E, g, b)
  BY Zenon DEF CheckInv
<1>4. CASE ~g.pending
  <2>1. c.gate = g /\ c.out = <<>>
    BY <1>4 DEF Check
  <2>2. F = E
    BY <1>2, <2>1, NoOneEnds
  <2>3. \A b \in Begun(E) : Followed(more, B, E, g, b)
    BY <1>1, <1>3, <1>4, Zenon DEF Followed
  <2>. QED  BY <1>2, <1>4, <2>1, <2>2, <2>3, Zenon DEF CheckInv
<1>5. CASE g.pending /\ GoesOn(more, B, g, c.gate, c.out)
  <2>1. /\ c.out = <<>> /\ c.gate.pending /\ c.gate.candidateTs = g.candidateTs
        /\ Ongoing(more, B, c.gate)
    BY <1>5, Zenon DEF GoesOn
  <2>2. F = E
    BY <1>2, <2>1, NoOneEnds
  <2>3. \A b \in Begun(E) : Followed(more, B, E, c.gate, b)
    <3>. TAKE b \in Begun(E)
    <3>1. CASE g.candidateTs = b.ts
      <4>1. c.gate.pending /\ c.gate.candidateTs = b.ts
        BY <2>1, <3>1, Zenon
      <4>. QED  BY <4>1, Zenon DEF Followed
    <3>2. CASE \E e \in E : Ended(rs, A, b.ts, e)
      BY <1>1, <3>2, Zenon DEF Followed
    <3>. QED  BY <1>3, <3>1, <3>2, Zenon DEF Followed
  <2>4. \E b \in Begun(E) : b.ts = c.gate.candidateTs
    BY <1>3, <1>5, <2>1, Zenon
  <2>. QED  BY <1>2, <2>1, <2>2, <2>3, <2>4, Zenon DEF CheckInv
<1>6. CASE g.pending /\ EndsNow(more, B, g, c.gate, c.out)
  <2>1. PICK e : c.out = <<e>> /\ Ended(more, B, g.candidateTs, e) /\ ~c.gate.pending
    BY <1>6, Zenon DEF EndsNow
  <2>2. F = E \cup {e}
    BY <1>2, <2>1, OneEnds
  <2>3. e.level # "CANDIDATE"
    BY <2>1, Zenon DEF Ended
  <2>4. Begun(F) = Begun(E)
    BY <2>2, <2>3 DEF Begun
  <2>5. \A b \in Begun(F) : Followed(more, B, F, c.gate, b)
    <3>. SUFFICES ASSUME NEW b \in Begun(E) PROVE Followed(more, B, F, c.gate, b)
      BY <2>4
    <3>1. CASE g.candidateTs = b.ts
      <4>1. e \in F /\ Ended(more, B, b.ts, e)
        BY <2>1, <2>2, <3>1
      <4>. QED  BY <4>1, Zenon DEF Followed
    <3>2. CASE \E q \in E : Ended(rs, A, b.ts, q)
      <4>1. PICK q \in E : Ended(rs, A, b.ts, q)
        BY <3>2
      <4>2. q \in F /\ Ended(more, B, b.ts, q)
        BY <1>1, <2>2, <4>1
      <4>. QED  BY <4>2, Zenon DEF Followed
    <3>. QED  BY <1>3, <3>1, <3>2, Zenon DEF Followed
  <2>. QED  BY <1>2, <2>1, <2>5, Zenon DEF CheckInv
<1>7. g.pending => GoesOn(more, B, g, c.gate, c.out) \/ EndsNow(more, B, g, c.gate, c.out)
  <2>. SUFFICES ASSUME g.pending
                PROVE  GoesOn(more, B, g, c.gate, c.out) \/ EndsNow(more, B, g, c.gate, c.out)
    OBVIOUS
  <2>1. Running(rs, g) /\ Ongoing(rs, A, g)
    BY <1>3
  <2>. QED  BY <2>1, CheckLooks, Zenon
<1>. QED  BY <1>4, <1>5, <1>6, <1>7, Zenon

\* An alarm keeps it too: it begins a check with its own threshold unless one is
\* running, whose threshold stays.
LEMMA CandidateFollows ==
  ASSUME NEW rs, Len(rs) \in Nat, NEW A, NEW g, IsGate(g), NEW E, CheckInv(rs, A, E, g),
         NEW ts, NEW alarm, alarm # NoAlarm => RaisedAt(rs, A, alarm),
         NEW h, h = Candidate(g, ts, alarm)
  PROVE  CheckInv(rs, A, E \cup ToSet(h.out), h.gate)
<1>1. CASE alarm = NoAlarm
  <2>1. h.gate = g /\ h.out = <<>>
    BY <1>1 DEF Candidate
  <2>2. E \cup ToSet(h.out) = E
    BY <2>1, NoOneEnds
  <2>. QED  BY <2>1, <2>2
<1>2. CASE alarm # NoAlarm
  <2>. DEFINE e == [ts |-> ts, level |-> "CANDIDATE", test |-> alarm.test,
                    candidateTs |-> ts, duringCheck |-> g.pending]
              b == [last |-> <<>>, pending |-> TRUE, seen |-> 0, candidateTs |-> ts, origin |-> alarm]
  <2>1. h = [gate |-> IF g.pending THEN g ELSE b, out |-> <<e>>]
    BY <1>2 DEF Candidate
  <2>2. e.level = "CANDIDATE" /\ e.ts = ts /\ e.duringCheck = g.pending
    OBVIOUS
  <2>3. b.last = <<>> /\ b.pending = TRUE /\ b.seen = 0 /\ b.candidateTs = ts /\ b.origin = alarm
    OBVIOUS
  <2>. HIDE DEF e, b
  <2>4. h.gate = (IF g.pending THEN g ELSE b) /\ h.out = <<e>>
    BY <2>1
  <2>5. PICK F : F = E \cup ToSet(h.out)
    OBVIOUS
  <2>6. F = E \cup {e}
    BY <2>4, <2>5, OneEnds
  <2>7. /\ g.pending => Ongoing(rs, A, g) /\ \E c \in Begun(E) : c.ts = g.candidateTs
        /\ \A c \in Begun(E) : Followed(rs, A, E, g, c)
    BY Zenon DEF CheckInv
  <2>8. CASE g.pending
    <3>1. Begun(F) = Begun(E)
      BY <2>2, <2>6, <2>8 DEF Begun
    <3>2. h.gate = g
      BY <2>4, <2>8
    <3>3. \A c \in Begun(E) : Followed(rs, A, F, g, c)
      BY <2>6, <2>7 DEF Followed
    <3>. QED  BY <2>5, <2>7, <3>1, <3>2, <3>3, Zenon DEF CheckInv
  <2>9. CASE ~g.pending
    <3>1. h.gate = b
      BY <2>4, <2>9
    <3>2. Begun(F) = Begun(E) \cup {e}
      BY <2>2, <2>6, <2>9 DEF Begun
    <3>3. Ongoing(rs, A, b)
      <4>1. PICK d, n : /\ n \in WMin..WMax /\ Since(rs, A, Len(rs), n)
                        /\ Describes(d, UpTo(rs, Len(rs), n), n) /\ d.h = Cut[n]
                        /\ \E test : alarm = Alarm(d, test)
        BY <1>2 DEF RaisedAt
      <4>2. PICK test : alarm = Alarm(d, test)
        BY <4>1
      <4>3. PICK o : o = OriginOf(UpTo(rs, Len(rs), n))
        OBVIOUS
      <4>4. SameThreshold(b.origin, o)
        <5>1. SameThreshold(Alarm(d, test), OriginOf(UpTo(rs, Len(rs), n)))
          BY <4>1, AlarmSets, Zenon
        <5>. QED  BY <2>3, <4>2, <4>3, <5>1
      <4>5. Len(rs) - b.seen = Len(rs)
        BY <2>3
      <4>6. Sets(rs, A, Len(rs), n, o)
        BY <4>1, <4>3, Zenon DEF Sets
      <4>7. Passed(rs, Len(rs), o, b.seen)
        <5>1. \A j \in MedianSpan..b.seen : FALSE
          BY <2>3, OptWinAssumption
        <5>. QED  BY <5>1, Zenon DEF Passed
      <4>8. Slides(rs, b.last)
        BY <2>3 DEF Slides
      <4>. QED  BY <4>4, <4>5, <4>6, <4>7, <4>8 DEF Ongoing
    <3>4. \A c \in Begun(F) : Followed(rs, A, F, b, c)
      <4>1. \A c \in Begun(E) : Followed(rs, A, F, b, c)
        BY <2>6, <2>7, <2>9 DEF Followed
      <4>2. Followed(rs, A, F, b, e)
        BY <2>2, <2>3, Zenon DEF Followed
      <4>. QED  BY <3>2, <4>1, <4>2
    <3>5. \E c \in Begun(F) : c.ts = b.candidateTs
      BY <2>2, <2>3, <3>2
    <3>. QED  BY <2>5, <3>1, <3>3, <3>4, <3>5, Zenon DEF CheckInv
  <2>. QED  BY <2>8, <2>9
<1>. QED  BY <1>1, <1>2

\* What holds of the checks in every state.
CheckedInv == CheckInv(rows, AlarmTimes, ToSet(events), gate)

\* A later element keeps the invariant of the checks.
LEMMA ChecksKept ==
  ASSUME DriftInv, ExactInv, CheckedInv, NEW ts, NEW x \in Int, NEW u, u = Update(det, x),
         NEW c, c = Check(gate, ts, x), NEW h, h = Candidate(c.gate, ts, u.alarm), Grown(ts, x, u, c, h)
  PROVE  CheckedInv'
<1>1. /\ Extends1(rows, rows', ts) /\ OneLater(rows, rows', x) /\ gate' = h.gate
      /\ ToSet(events') = (ToSet(events) \cup ToSet(c.out)) \cup ToSet(h.out)
      /\ Alarms1(AlarmTimes, AlarmTimes', u.alarm # NoAlarm, ts)
  BY Zenon DEF Grown
<1>2. AlarmTimes \subseteq TimesAt(rows)
  BY DEF DriftInv, FeedInv, WindowInv, WindowOver
<1>3. IsGate(gate) /\ (gate.pending => Running(rows, gate))
  BY DEF DriftInv, FeedInv, GateInv
<1>4. IsGate(c.gate)
  <2>1. Goes(gate, ts, c.gate, c.out) \/ Ends(gate, ts, c.gate, c.out) \/ Rests(gate, c.gate, c.out)
    BY <1>3, CheckDoes
  <2>. QED  BY <1>3, <2>1, Zenon DEF Goes, Ends, Rests
<1>. HIDE DEF AlarmTimes
<1>5. DetInv(rows, AlarmTimes, det) /\ CheckInv(rows, AlarmTimes, ToSet(events), gate)
  BY DEF ExactInv, CheckedInv
<1>6. u.alarm # NoAlarm => RaisedAt(rows', AlarmTimes', u.alarm)
  BY <1>1, <1>2, <1>5, DetectorKeeps, Zenon
<1>7. CheckInv(rows', AlarmTimes', ToSet(events) \cup ToSet(c.out), c.gate)
  BY <1>1, <1>3, <1>5, CheckFollows, Zenon
<1>8. Len(rows') \in Nat
  BY <1>1 DEF OneLater
<1>9. CheckInv(rows', AlarmTimes', (ToSet(events) \cup ToSet(c.out)) \cup ToSet(h.out), h.gate)
  BY <1>4, <1>6, <1>7, <1>8, CandidateFollows, Zenon
<1>. QED  BY <1>1, <1>9 DEF CheckedInv

\* There is no check at first.
LEMMA CheckedInitially == LayersInit => CheckedInv
<1>. SUFFICES ASSUME Init PROVE CheckedInv
  BY DEF LayersInit
<1>1. events = <<>> /\ gate = NewGate
  BY DEF Init
<1>2. ToSet(events) = {} /\ ~gate.pending
  BY <1>1 DEF ToSet, NewGate
<1>. QED  BY <1>2 DEF CheckedInv, CheckInv, Begun

\* Every step keeps the invariant of the checks.
LEMMA CheckedStep ==
  DriftInv /\ ValuesInv /\ ExactInv /\ CheckedInv /\ [LayersNext]_<<vars, dayVars>> => CheckedInv'
<1>. SUFFICES ASSUME DriftInv, ValuesInv, ExactInv, CheckedInv, [LayersNext]_<<vars, dayVars>>
              PROVE  CheckedInv'
  OBVIOUS
<1>1. Feeds \/ UNCHANGED stream
  BY StepFeeds
<1>2. CASE Feeds
  <2>1. PICK ts \in Nat, x \in Int : Fresh(ts) /\ Feed(ts, x)
    BY <1>2 DEF Feeds
  <2>2. PICK u, c, h : u = Update(det, x) /\ c = Check(gate, ts, x) /\ h = Candidate(c.gate, ts, u.alarm)
    OBVIOUS
  <2>3. FeedInv
    BY DEF DriftInv
  <2>4. Grown(ts, x, u, c, h)
    BY <2>1, <2>2, <2>3, FeedGrows, Zenon DEF Fresh
  <2>. QED  BY <2>2, <2>4, ChecksKept, Zenon
<1>3. CASE UNCHANGED stream
  <2>1. rows' = rows /\ events' = events /\ gate' = gate /\ AlarmTimes' = AlarmTimes
    BY <1>3 DEF stream, AlarmTimes, Alarmed
  <2>. QED  BY <2>1 DEF CheckedInv
<1>. QED  BY <1>1, <1>2, <1>3

--------------------------------------------------------------------------------
(* What the report reads *)

\* The outcome that is expected of the check of element i with the threshold o.
ExpectedAt(i, o) ==
  LET after == IF Len(rows) - i <= K THEN Len(rows) - i ELSE K
      under == {j \in MedianSpan..after : ~Above(MedianAt(rows, i, j), o)}
  IN  IF under # {} THEN [level |-> "REVOKE", ts |-> rows[i + Min(under)].ts]
      ELSE IF Len(rows) - i >= K THEN [level |-> "CONFIRM", ts |-> rows[i + K].ts]
      ELSE [level |-> "UNRESOLVED", ts |-> 0]

\* The property expects the outcome of the candidate's element and window.
LEMMA ExpectedIs ==
  ASSUME RowsInv(rows), IntRows(rows), NEW c, NEW i \in 1..Len(rows), rows[i].ts = c.ts,
         NEW n, NEW o, Sets(rows, AlarmTimes, i, n, o)
  PROVE  ExpectedOutcome(c) = ExpectedAt(i, o)
<1>1. IndexOf(c.ts) = i
  <2>1. DOMAIN rows = 1..Len(rows) /\ Len(rows) \in Nat
    BY SeqDomain DEF RowsInv
  <2>2. ASSUME NEW j \in DOMAIN rows, rows[j].ts = c.ts
        PROVE  j = i
    <3>1. ~ (j < i) /\ ~ (i < j)
      BY <2>1, <2>2 DEF RowsInv
    <3>. QED  BY <2>1, <3>1
  <2>3. i \in DOMAIN rows
    BY <2>1
  <2>. QED  BY <2>2, <2>3 DEF IndexOf
<1>2. WindowAt(i) = UpTo(rows, i, n)
  <2>1. Since(rows, AlarmTimes, i, n) /\ i \in 0..Len(rows)
    BY DEF Sets, IntRows
  <2>. QED  BY <2>1, WindowIs
<1>3. o = OriginOf(WindowAt(i))
  BY <1>2, Zenon DEF Sets
<1>4. ExpectedOutcome(c) = ExpectedAt(IndexOf(c.ts), OriginOf(WindowAt(IndexOf(c.ts))))
  BY DEF ExpectedOutcome, ExpectedAt, OriginOf, MedianAt
<1>. QED  BY <1>1, <1>3, <1>4, Zenon

\* The elements settle what is expected: the first median that is not above the
\* threshold revokes, and the K-th element confirms if there is none.
LEMMA SettledIsExpected ==
  ASSUME NEW i \in 1..Len(rows), Len(rows) \in Nat, NEW o, NEW e, Settled(rows, i, o, e)
  PROVE  ExpectedAt(i, o) = [level |-> e.level, ts |-> e.ts]
<1>. DEFINE after == IF Len(rows) - i <= K THEN Len(rows) - i ELSE K
            under == {j \in MedianSpan..after : ~Above(MedianAt(rows, i, j), o)}
<1>1. MedianSpan \in Nat /\ K \in Nat /\ after \in Int /\ after <= K /\ i + after <= Len(rows)
  BY OptWinAssumption
<1>2. CASE e.level = "REVOKE" /\ Revoked(rows, i, o, e.ts)
  <2>1. PICK j \in MedianSpan..K : /\ i + j <= Len(rows) /\ rows[i + j].ts = e.ts
                                   /\ ~Above(MedianAt(rows, i, j), o) /\ Passed(rows, i, o, j - 1)
    BY <1>2 DEF Revoked
  <2>2. j \in MedianSpan..after
    BY <1>1, <2>1
  <2>3. j \in under
    BY <2>1, <2>2
  <2>4. ASSUME NEW y \in under
        PROVE  j <= y
    <3>1. y \in MedianSpan..after /\ ~Above(MedianAt(rows, i, y), o)
      OBVIOUS
    <3>2. y \notin MedianSpan..(j - 1)
      BY <2>1, <3>1, Zenon DEF Passed
    <3>3. y \in Int /\ MedianSpan <= y /\ j \in Int
      BY <1>1, <2>1, <3>1
    <3>. QED  BY <1>1, <3>2, <3>3
  <2>5. under \in SUBSET Int
    BY <1>1
  <2>6. Min(under) = j
    <3>. HIDE DEF under
    <3>. QED  BY <2>3, <2>4, <2>5, SmallestIs
  <2>. HIDE DEF under
  <2>7. under # {}
    BY <2>3
  <2>8. ExpectedAt(i, o) = [level |-> "REVOKE", ts |-> rows[i + Min(under)].ts]
    BY <2>7, Zenon DEF ExpectedAt, under
  <2>. QED  BY <1>2, <2>1, <2>6, <2>8
<1>3. CASE e.level = "CONFIRM" /\ Confirmed(rows, i, o, e.ts)
  <2>1. i + K <= Len(rows) /\ rows[i + K].ts = e.ts /\ Passed(rows, i, o, K)
    BY <1>3 DEF Confirmed
  <2>2. Len(rows) - i >= K
    BY <1>1, <2>1
  <2>3. under = {}
    <3>1. \A j \in MedianSpan..after : j \in MedianSpan..K
      BY <1>1
    <3>2. \A j \in MedianSpan..after : Above(MedianAt(rows, i, j), o)
      BY <2>1, <3>1, Zenon DEF Passed
    <3>. QED  BY <3>2
  <2>. HIDE DEF under
  <2>4. ExpectedAt(i, o) = [level |-> "CONFIRM", ts |-> rows[i + K].ts]
    BY <2>2, <2>3, Zenon DEF ExpectedAt, under
  <2>. QED  BY <1>3, <2>1, <2>4
<1>. QED  BY <1>2, <1>3, Zenon DEF Settled

\* No outcome is expected of a check that passed every median so far.
LEMMA OpenIsExpected ==
  ASSUME NEW i \in 1..Len(rows), Len(rows) \in Nat, NEW o, Len(rows) - i < K, Passed(rows, i, o, Len(rows) - i)
  PROVE  ExpectedAt(i, o) = [level |-> "UNRESOLVED", ts |-> 0]
<1>. DEFINE after == IF Len(rows) - i <= K THEN Len(rows) - i ELSE K
            under == {j \in MedianSpan..after : ~Above(MedianAt(rows, i, j), o)}
<1>1. K \in Nat /\ after = Len(rows) - i /\ ~ (Len(rows) - i >= K)
  BY OptWinAssumption
<1>2. under = {}
  <2>1. \A j \in MedianSpan..after : Above(MedianAt(rows, i, j), o)
    <3>. HIDE DEF after
    <3>. QED  BY <1>1, Zenon DEF Passed
  <2>. QED  BY <2>1
<1>. HIDE DEF under
<1>. QED  BY <1>1, <1>2, Zenon DEF ExpectedAt, under

\* The check that a candidate began, in the report.
LEMMA StartsAre ==
  ASSUME NEW c \in Starts(Online)
  PROVE  c.device = It /\ \E b \in Begun(ToSet(events)) : b.ts = c.ts
<1>1. c \in WithDevice(It, events) /\ c.level = "CANDIDATE" /\ ~c.duringCheck
  BY DEF Starts, Candidates, Level, Online
<1>2. PICK e \in ToSet(events) :
        c = [device |-> It, ts |-> e.ts, level |-> e.level, test |-> e.test,
             candidateTs |-> e.candidateTs, duringCheck |-> e.duringCheck]
  BY <1>1 DEF WithDevice
<1>3. c.device = It /\ c.ts = e.ts /\ c.level = e.level /\ c.duringCheck = e.duringCheck
  BY <1>2
<1>. QED  BY <1>1, <1>2, <1>3 DEF Begun

\* And each candidate that began a check is there.
LEMMA AreStarts ==
  ASSUME NEW b \in Begun(ToSet(events))
  PROVE  \E c \in Starts(Online) : c.ts = b.ts
<1>. DEFINE c == [device |-> It, ts |-> b.ts, level |-> b.level, test |-> b.test,
                  candidateTs |-> b.candidateTs, duringCheck |-> b.duringCheck]
<1>1. b \in ToSet(events) /\ b.level = "CANDIDATE" /\ ~b.duringCheck
  BY DEF Begun
<1>2. c \in WithDevice(It, events)
  BY <1>1 DEF WithDevice
<1>3. c.ts = b.ts /\ c.level = "CANDIDATE" /\ ~c.duringCheck
  BY <1>1
<1>. HIDE DEF c
<1>4. c \in Starts(Online)
  BY <1>2, <1>3 DEF Starts, Candidates, Level, Online
<1>. QED  BY <1>3, <1>4

\* The conclusions of a check, in the report.
EndsOf(c) ==
  {e \in Level(Online, "CONFIRM") \cup Level(Online, "REVOKE") :
     e.device = c.device /\ e.candidateTs = c.ts}

\* Each of them is an event.
LEMMA EndsAre ==
  ASSUME NEW c, NEW q \in EndsOf(c)
  PROVE  \E e \in ToSet(events) : /\ e.level # "CANDIDATE" /\ e.candidateTs = c.ts
                                  /\ q.level = e.level /\ q.ts = e.ts
<1>1. q \in WithDevice(It, events) /\ (q.level = "CONFIRM" \/ q.level = "REVOKE") /\ q.candidateTs = c.ts
  BY DEF EndsOf, Level, Online
<1>2. PICK e \in ToSet(events) :
        q = [device |-> It, ts |-> e.ts, level |-> e.level, test |-> e.test,
             candidateTs |-> e.candidateTs, duringCheck |-> e.duringCheck]
  BY <1>1 DEF WithDevice
<1>3. q.ts = e.ts /\ q.level = e.level /\ q.candidateTs = e.candidateTs
  BY <1>2
<1>. QED  BY <1>1, <1>3

\* And each event that concludes a check is one of them.
LEMMA AreEnds ==
  ASSUME NEW c, c.device = It, NEW e \in ToSet(events), e.level = "CONFIRM" \/ e.level = "REVOKE",
         e.candidateTs = c.ts
  PROVE  EndsOf(c) # {}
<1>. DEFINE q == [device |-> It, ts |-> e.ts, level |-> e.level, test |-> e.test,
                  candidateTs |-> e.candidateTs, duringCheck |-> e.duringCheck]
<1>1. q \in WithDevice(It, events)
  BY DEF WithDevice
<1>2. q.device = It /\ q.level = e.level /\ q.candidateTs = e.candidateTs
  OBVIOUS
<1>. HIDE DEF q
<1>3. q \in EndsOf(c)
  BY <1>1, <1>2 DEF EndsOf, Level, Online
<1>. QED  BY <1>3

\* What the report reads of a check without a conclusion.
LEMMA UnresolvedIs ==
  ASSUME NEW c \in Starts(Online),
         \A e \in ToSet(events) : e.level # "CANDIDATE" => e.candidateTs # c.ts
  PROVE  GateOutcomes(Online)[c] = [level |-> "UNRESOLVED", ts |-> 0]
<1>1. EndsOf(c) = {}
  BY EndsAre
<1>2. GateOutcomes(Online)[c]
        = IF EndsOf(c) = {} THEN [level |-> "UNRESOLVED", ts |-> 0]
          ELSE LET e == CHOOSE x \in EndsOf(c) : TRUE IN [level |-> e.level, ts |-> e.ts]
  BY DEF GateOutcomes, EndsOf
<1>. QED  BY <1>1, <1>2

\* What it reads of one with a single conclusion.
LEMMA ResolvedIs ==
  ASSUME NEW c \in Starts(Online), NEW e \in ToSet(events),
         e.level = "CONFIRM" \/ e.level = "REVOKE", e.candidateTs = c.ts,
         \A f \in ToSet(events) : f.level # "CANDIDATE" /\ f.candidateTs = c.ts => f = e
  PROVE  GateOutcomes(Online)[c] = [level |-> e.level, ts |-> e.ts]
<1>1. EndsOf(c) # {}
  BY StartsAre, AreEnds
<1>2. GateOutcomes(Online)[c]
        = IF EndsOf(c) = {} THEN [level |-> "UNRESOLVED", ts |-> 0]
          ELSE LET q == CHOOSE x \in EndsOf(c) : TRUE IN [level |-> q.level, ts |-> q.ts]
  BY DEF GateOutcomes, EndsOf
<1>3. PICK q : q = CHOOSE x \in EndsOf(c) : TRUE
  OBVIOUS
<1>4. q \in EndsOf(c)
  BY <1>1, <1>3
<1>5. q.level = e.level /\ q.ts = e.ts
  BY <1>4, EndsAre
<1>. QED  BY <1>1, <1>2, <1>3, <1>5

\* The conclusions among the events.
LEMMA ConclusionsAre ==
  ASSUME GateInv(rows, events, gate)
  PROVE  /\ \A e \in ToSet(events) : e.level # "CANDIDATE" => e.level = "CONFIRM" \/ e.level = "REVOKE"
         /\ \A e, f \in ToSet(events) :
              e.level # "CANDIDATE" /\ f.level # "CANDIDATE" /\ e.candidateTs = f.candidateTs => e = f
         /\ gate.pending => \A e \in ToSet(events) : e.level # "CANDIDATE" => e.candidateTs # gate.candidateTs
<1>1. \A e \in ToSet(events) : \E i \in DOMAIN events : events[i] = e
  BY DEF ToSet
<1>2. \A i \in DOMAIN events : events[i].level # "CANDIDATE" => i \in Conclusions(events)
  BY DEF Conclusions
<1>3. /\ gate.pending => \A i \in Conclusions(events) : events[i].candidateTs # gate.candidateTs
      /\ \A i \in Conclusions(events) : Concluded(rows, events[i])
      /\ \A i, j \in Conclusions(events) : events[i].candidateTs = events[j].candidateTs => i = j
  BY Zenon DEF GateInv
<1>4. \A i \in Conclusions(events) : events[i].level = "CONFIRM" \/ events[i].level = "REVOKE"
  BY <1>3, Zenon DEF Concluded
<1>5. ASSUME NEW e \in ToSet(events), e.level # "CANDIDATE"
      PROVE  \E i \in Conclusions(events) : events[i] = e
  BY <1>1, <1>2, <1>5
<1>6. \A e \in ToSet(events) : e.level # "CANDIDATE" => e.level = "CONFIRM" \/ e.level = "REVOKE"
  BY <1>4, <1>5
<1>7. ASSUME NEW e \in ToSet(events), NEW f \in ToSet(events),
             e.level # "CANDIDATE", f.level # "CANDIDATE", e.candidateTs = f.candidateTs
      PROVE  e = f
  <2>1. PICK i \in Conclusions(events) : events[i] = e
    BY <1>5, <1>7
  <2>2. PICK j \in Conclusions(events) : events[j] = f
    BY <1>5, <1>7
  <2>3. i = j
    BY <1>3, <1>7, <2>1, <2>2
  <2>. QED  BY <2>1, <2>2, <2>3
<1>8. gate.pending => \A e \in ToSet(events) : e.level # "CANDIDATE" => e.candidateTs # gate.candidateTs
  BY <1>3, <1>5
<1>. QED  BY <1>6, <1>7, <1>8

\* The outcome in the report is the expected one, and one is missing only while a
\* check runs.
LEMMA OutcomeIsExpected ==
  ASSUME DriftInv, ExactInv, CheckedInv, NEW c \in Starts(Online)
  PROVE  /\ GateOutcomes(Online)[c] = ExpectedOutcome(c)
         /\ GateOutcomes(Online)[c].level = "UNRESOLVED" => gate.pending
<1>1. /\ RowsInv(rows) /\ IntRows(rows) /\ Len(rows) \in Nat /\ GateInv(rows, events, gate)
      /\ DOMAIN rows = 1..Len(rows)
  BY SeqDomain DEF DriftInv, FeedInv, ExactInv, RowsInv
<1>2. PICK b \in Begun(ToSet(events)) : b.ts = c.ts
  BY StartsAre
<1>3. Followed(rows, AlarmTimes, ToSet(events), gate, b)
  BY DEF CheckedInv, CheckInv
<1>4. CASE gate.pending /\ gate.candidateTs = b.ts
  <2>1. Ongoing(rows, AlarmTimes, gate) /\ Running(rows, gate)
    BY <1>1, <1>4 DEF CheckedInv, CheckInv, GateInv
  <2>. DEFINE i == Len(rows) - gate.seen
  <2>2. PICK n, o : Sets(rows, AlarmTimes, i, n, o) /\ Passed(rows, i, o, gate.seen)
    BY <2>1 DEF Ongoing
  <2>3. i \in 1..Len(rows) /\ rows[i].ts = c.ts /\ Len(rows) - i = gate.seen /\ gate.seen < K
    BY <1>1, <1>2, <1>4, <2>1, OptWinAssumption DEF Running
  <2>. HIDE DEF i
  <2>4. ExpectedOutcome(c) = ExpectedAt(i, o)
    BY <1>1, <2>2, <2>3, ExpectedIs
  <2>5. ExpectedAt(i, o) = [level |-> "UNRESOLVED", ts |-> 0]
    BY <1>1, <2>2, <2>3, OpenIsExpected
  <2>6. GateOutcomes(Online)[c] = [level |-> "UNRESOLVED", ts |-> 0]
    <3>1. \A e \in ToSet(events) : e.level # "CANDIDATE" => e.candidateTs # c.ts
      BY <1>1, <1>2, <1>4, ConclusionsAre
    <3>. QED  BY <3>1, UnresolvedIs
  <2>. QED  BY <1>4, <2>4, <2>5, <2>6
<1>5. CASE \E e \in ToSet(events) : Ended(rows, AlarmTimes, b.ts, e)
  <2>1. PICK e \in ToSet(events) : Ended(rows, AlarmTimes, b.ts, e)
    BY <1>5
  <2>2. PICK i \in 1..Len(rows) : \E n, o :
          rows[i].ts = c.ts /\ Sets(rows, AlarmTimes, i, n, o) /\ Settled(rows, i, o, e)
    BY <1>2, <2>1 DEF Ended
  <2>3. PICK n, o : rows[i].ts = c.ts /\ Sets(rows, AlarmTimes, i, n, o) /\ Settled(rows, i, o, e)
    BY <2>2
  <2>4. ExpectedOutcome(c) = ExpectedAt(i, o)
    BY <1>1, <2>3, ExpectedIs
  <2>5. ExpectedAt(i, o) = [level |-> e.level, ts |-> e.ts]
    BY <1>1, <2>3, SettledIsExpected
  <2>6. e.level # "CANDIDATE" /\ e.candidateTs = c.ts
    BY <1>2, <2>1 DEF Ended
  <2>7. e.level = "CONFIRM" \/ e.level = "REVOKE"
    BY <1>1, <2>6, ConclusionsAre
  <2>8. GateOutcomes(Online)[c] = [level |-> e.level, ts |-> e.ts]
    <3>1. \A f \in ToSet(events) : f.level # "CANDIDATE" /\ f.candidateTs = c.ts => f = e
      BY <1>1, <2>6, ConclusionsAre
    <3>. QED  BY <2>6, <2>7, <3>1, ResolvedIs
  <2>9. GateOutcomes(Online)[c].level # "UNRESOLVED"
    BY <2>7, <2>8
  <2>. QED  BY <2>4, <2>5, <2>8, <2>9
<1>. QED  BY <1>3, <1>4, <1>5, Zenon DEF Followed

\* The invariants imply the property.
LEMMA ChecksFollow ==
  ASSUME DriftInv, ExactInv, CheckedInv
  PROVE  ChecksConcludeOnce
<1>. DEFINE outcomes == GateOutcomes(Online)
<1>1. DOMAIN outcomes = Starts(Online)
  BY DEF GateOutcomes
<1>2. GateInv(rows, events, gate)
  BY DEF DriftInv, FeedInv
<1>3. \A c \in Starts(Online) : outcomes[c] = ExpectedOutcome(c) /\ (outcomes[c].level = "UNRESOLVED" => gate.pending)
  BY OutcomeIsExpected
<1>4. \A i, j \in DOMAIN events :
        events[i].level # "CANDIDATE" /\ events[j].level # "CANDIDATE"
          /\ events[i].candidateTs = events[j].candidateTs => i = j
  BY <1>2 DEF GateInv, Conclusions
<1>5. ASSUME gate.pending
      PROVE  \E c \in Starts(Online) : outcomes[c].level = "UNRESOLVED"
  <2>1. PICK b \in Begun(ToSet(events)) : b.ts = gate.candidateTs
    BY <1>5 DEF CheckedInv, CheckInv
  <2>2. PICK c \in Starts(Online) : c.ts = b.ts
    BY AreStarts
  <2>3. \A e \in ToSet(events) : e.level # "CANDIDATE" => e.candidateTs # c.ts
    BY <1>2, <1>5, <2>1, <2>2, ConclusionsAre
  <2>4. outcomes[c] = [level |-> "UNRESOLVED", ts |-> 0]
    BY <2>3, UnresolvedIs
  <2>5. outcomes[c].level = "UNRESOLVED"
    BY <2>4
  <2>. QED  BY <2>5
<1>. HIDE DEF outcomes
<1>6. gate.pending <=> \E c \in DOMAIN outcomes : outcomes[c].level = "UNRESOLVED"
  BY <1>1, <1>3, <1>5, Zenon
<1>. QED  BY <1>1, <1>3, <1>4, <1>6 DEF ChecksConcludeOnce, outcomes

\* In every run, whatever the stream and the constants, each check that a candidate began
\* has the outcome that the elements after it say, against the threshold of the window of
\* that candidate: revoked at the first sliding median that is not above it, confirmed at
\* the K-th element if there is none, open until then; it has it once, and a check is
\* running exactly while one has none (DriftGate.onElement, run_grid.gate_outcomes).
THEOREM ChecksStayConcluded == LayersSpec => []ChecksConcludeOnce
<1>1. LayersInit => ValuesInv /\ ExactInv /\ CheckedInv
  BY ExactInitially, CheckedInitially
<1>2. DriftInv /\ ValuesInv /\ ExactInv /\ CheckedInv /\ [LayersNext]_<<vars, dayVars>>
        => ValuesInv' /\ ExactInv' /\ CheckedInv'
  BY ExactStep, CheckedStep
<1>3. DriftInv /\ ExactInv /\ CheckedInv => ChecksConcludeOnce
  BY ChecksFollow
<1>. QED  BY <1>1, <1>2, <1>3, DriftInvariant, PTL DEF LayersSpec

--------------------------------------------------------------------------------
(* The values of an hour *)

\* g collects the values of the hour h among the first n elements of s.
Joining(s, h, v, n) == IF HourOf(s[n].ts) = h THEN Append(v, s[n].x) ELSE v
Collects(g, s, h, n) ==
  /\ g = [k \in 0..n |-> g[k]] /\ g[0] = <<>>
  /\ \A k \in 1..n : g[k] = Joining(s, h, g[k - 1], k)

\* What is collected among more elements goes on from what is collected among less.
LEMMA CollectsMore ==
  ASSUME NEW s, NEW t, NEW h, NEW n \in Nat, \A k \in 1..n : t[k] = s[k], NEW g, Collects(g, s, h, n),
         NEW f, f = [k \in 0..(n + 1) |-> IF k \in 0..n THEN g[k] ELSE Joining(t, h, g[n], n + 1)]
  PROVE  Collects(f, t, h, n + 1) /\ f[n + 1] = Joining(t, h, g[n], n + 1)
<1>1. f = [k \in 0..(n + 1) |-> f[k]]
  OBVIOUS
<1>2. f[0] = <<>>
  BY DEF Collects
<1>3. f[n + 1] = Joining(t, h, g[n], n + 1) /\ f[n] = g[n]
  OBVIOUS
<1>4. ASSUME NEW k \in 1..n
      PROVE  f[k] = Joining(t, h, f[k - 1], k)
  <2>1. f[k] = g[k] /\ f[k - 1] = g[k - 1]
    OBVIOUS
  <2>2. g[k] = Joining(s, h, g[k - 1], k)
    BY DEF Collects
  <2>3. Joining(s, h, g[k - 1], k) = Joining(t, h, g[k - 1], k)
    BY DEF Joining
  <2>. QED  BY <2>1, <2>2, <2>3
<1>5. \A k \in 1..(n + 1) : k \in 1..n \/ k = n + 1
  OBVIOUS
<1>6. (n + 1) - 1 = n
  OBVIOUS
<1>7. \A k \in 1..(n + 1) : f[k] = Joining(t, h, f[k - 1], k)
  BY <1>3, <1>4, <1>5, <1>6
<1>. QED  BY <1>1, <1>2, <1>3, <1>7 DEF Collects

\* There is such a g.
LEMMA SomeCollects ==
  ASSUME NEW s, NEW h, NEW n \in Nat
  PROVE  \E g : Collects(g, s, h, n)
<1>. DEFINE S == {k \in 0..n : \E g : Collects(g, s, h, k)}
<1>1. 0 \in S
  <2>. DEFINE g == [k \in 0..0 |-> <<>>]
  <2>1. g = [k \in 0..0 |-> g[k]] /\ g[0] = <<>> /\ \A k \in 1..0 : FALSE
    OBVIOUS
  <2>. HIDE DEF g
  <2>2. Collects(g, s, h, 0)
    BY <2>1 DEF Collects
  <2>. QED  BY <2>2
<1>2. ASSUME NEW k \in 1..n, k - 1 \in S
      PROVE  k \in S
  <2>1. PICK g : Collects(g, s, h, k - 1)
    BY <1>2
  <2>2. PICK f : f = [i \in 0..((k - 1) + 1) |->
                       IF i \in 0..(k - 1) THEN g[i] ELSE Joining(s, h, g[k - 1], (k - 1) + 1)]
    OBVIOUS
  <2>3. k - 1 \in Nat /\ (k - 1) + 1 = k
    OBVIOUS
  <2>4. Collects(f, s, h, (k - 1) + 1)
    BY <2>1, <2>2, <2>3, CollectsMore
  <2>5. Collects(f, s, h, k)
    BY <2>3, <2>4
  <2>. QED  BY <2>5
<1>3. \A k \in 0..n : k \in S
  <2>. HIDE DEF S
  <2>. QED  BY <1>1, <1>2, EachUpTo
<1>4. n \in S
  <2>. HIDE DEF S
  <2>. QED  BY <1>3
<1>. QED  BY <1>4

\* And only one.
LEMMA OneCollects ==
  ASSUME NEW s, NEW h, NEW n \in Nat, NEW g, Collects(g, s, h, n), NEW f, Collects(f, s, h, n)
  PROVE  f = g
<1>. DEFINE S == {k \in 0..n : f[k] = g[k]}
<1>1. 0 \in S
  BY DEF Collects
<1>2. ASSUME NEW k \in 1..n, k - 1 \in S
      PROVE  k \in S
  <2>1. f[k] = Joining(s, h, f[k - 1], k) /\ g[k] = Joining(s, h, g[k - 1], k)
    BY DEF Collects
  <2>2. f[k - 1] = g[k - 1]
    BY <1>2
  <2>3. f[k] = g[k]
    BY <2>1, <2>2
  <2>. QED  BY <2>3
<1>3. \A k \in 0..n : k \in S
  <2>. HIDE DEF S
  <2>. QED  BY <1>1, <1>2, EachUpTo
<1>4. \A k \in 0..n : f[k] = g[k]
  BY <1>3
<1>5. f = [k \in 0..n |-> f[k]] /\ g = [k \in 0..n |-> g[k]]
  BY Zenon DEF Collects
<1>. QED  BY <1>4, <1>5

\* It is what ValuesIn takes.
LEMMA ValuesCollected ==
  ASSUME NEW s, NEW h, Len(s) \in Nat, NEW g, Collects(g, s, h, Len(s))
  PROVE  ValuesIn(s, h) = g[Len(s)]
<1>. DEFINE n == Len(s)
            Step(f, k) == IF k = 0 THEN <<>>
                          ELSE IF HourOf(s[k].ts) = h THEN Append(f[k - 1], s[k].x) ELSE f[k - 1]
            u == CHOOSE f : f = [k \in 0..n |-> Step(f, k)]
<1>1. ValuesIn(s, h) = u[n]
  BY DEF ValuesIn
<1>2. ASSUME NEW f
      PROVE  Collects(f, s, h, n) <=> f = [k \in 0..n |-> Step(f, k)]
  <2>1. \A k \in 1..n : Joining(s, h, f[k - 1], k) = Step(f, k)
    BY DEF Joining
  <2>2. Step(f, 0) = <<>>
    OBVIOUS
  <2>3. 0 \in 0..n /\ \A k \in 0..n : k = 0 \/ k \in 1..n
    OBVIOUS
  <2>4. \A k \in 1..n : k \in 0..n
    OBVIOUS
  <2>. HIDE DEF Step, n
  <2>5. Collects(f, s, h, n) => f = [k \in 0..n |-> Step(f, k)]
    <3>. SUFFICES ASSUME Collects(f, s, h, n) PROVE f = [k \in 0..n |-> Step(f, k)]
      OBVIOUS
    <3>1. f = [k \in 0..n |-> f[k]] /\ f[0] = <<>> /\ \A k \in 1..n : f[k] = Joining(s, h, f[k - 1], k)
      BY Zenon DEF Collects
    <3>2. \A k \in 0..n : f[k] = Step(f, k)
      BY <2>1, <2>2, <2>3, <3>1
    <3>. QED  BY <3>1, <3>2
  <2>6. f = [k \in 0..n |-> Step(f, k)] => Collects(f, s, h, n)
    <3>. SUFFICES ASSUME f = [k \in 0..n |-> Step(f, k)] PROVE Collects(f, s, h, n)
      OBVIOUS
    <3>1. \A k \in 0..n : f[k] = Step(f, k)
      OBVIOUS
    <3>2. f = [k \in 0..n |-> f[k]]
      OBVIOUS
    <3>. QED  BY <2>1, <2>2, <2>3, <2>4, <3>1, <3>2 DEF Collects
  <2>. QED  BY <2>5, <2>6
<1>. HIDE DEF Step
<1>3. g = [k \in 0..n |-> Step(g, k)]
  BY <1>2
<1>4. u = [k \in 0..n |-> Step(u, k)]
  BY <1>3
<1>. HIDE DEF u
<1>5. Collects(u, s, h, n)
  BY <1>2, <1>4
<1>6. u = g
  <2>. HIDE DEF n
  <2>. QED  BY <1>5, OneCollects DEF n
<1>. QED  BY <1>1, <1>6

\* The values of an hour when an element comes.
LEMMA ValuesGrow ==
  ASSUME NEW s, NEW t, NEW e, OneMore(s, t, e), NEW h
  PROVE  ValuesIn(t, h) = IF HourOf(e.ts) = h THEN Append(ValuesIn(s, h), e.x) ELSE ValuesIn(s, h)
<1>1. /\ Len(s) \in Nat /\ Len(t) = Len(s) + 1 /\ Len(t) \in Nat
      /\ (\A k \in 1..Len(s) : t[k] = s[k]) /\ t[Len(s) + 1] = e
  BY DEF OneMore
<1>2. PICK g : Collects(g, s, h, Len(s))
  BY <1>1, SomeCollects
<1>3. ValuesIn(s, h) = g[Len(s)]
  BY <1>1, <1>2, ValuesCollected
<1>4. PICK n : n = Len(s)
  OBVIOUS
<1>5. PICK f : f = [k \in 0..(n + 1) |-> IF k \in 0..n THEN g[k] ELSE Joining(t, h, g[n], n + 1)]
  OBVIOUS
<1>6. Collects(f, t, h, n + 1) /\ f[n + 1] = Joining(t, h, g[n], n + 1)
  BY <1>1, <1>2, <1>4, <1>5, CollectsMore
<1>7. ValuesIn(t, h) = f[n + 1]
  BY <1>1, <1>4, <1>6, ValuesCollected
<1>. QED  BY <1>1, <1>3, <1>4, <1>6, <1>7 DEF Joining

\* An hour without elements has no values.
LEMMA ValuesOfNone ==
  ASSUME NEW s, Len(s) \in Nat, DOMAIN s = 1..Len(s), NEW h, h \notin HoursOf(s)
  PROVE  ValuesIn(s, h) = <<>>
<1>. DEFINE g == [k \in 0..Len(s) |-> <<>>]
<1>1. \A k \in 1..Len(s) : HourOf(s[k].ts) # h
  BY DEF HoursOf
<1>2. \A k \in 1..Len(s) : g[k] = Joining(s, h, g[k - 1], k)
  BY <1>1 DEF Joining
<1>3. g = [k \in 0..Len(s) |-> g[k]] /\ g[0] = <<>> /\ g[Len(s)] = <<>>
  OBVIOUS
<1>. HIDE DEF g
<1>4. Collects(g, s, h, Len(s))
  BY <1>2, <1>3 DEF Collects
<1>. QED  BY <1>3, <1>4, ValuesCollected

\* The hours that have elements, when one comes.
LEMMA HoursGrow ==
  ASSUME NEW s, NEW t, NEW e, OneMore(s, t, e)
  PROVE  HoursOf(t) = HoursOf(s) \cup {HourOf(e.ts)}
<1>1. DOMAIN t = DOMAIN s \cup {Len(s) + 1} /\ (\A i \in DOMAIN s : t[i] = s[i]) /\ t[Len(s) + 1] = e
  BY DEF OneMore
<1>. QED  BY <1>1, Zenon DEF HoursOf

\* The offline medians but that of one hour, and that of the hour.
Apart(s, h) == {r \in HourlyMedians(s) : r.ts # h}
MedianRow(s, h) == [ts |-> h, x |-> Median(ValuesIn(s, h))]
OfOther(s, h, r) == \E g \in HoursOf(s) : g # h /\ r = MedianRow(s, g)

\* What is an offline median.
LEMMA ApartIs ==
  ASSUME NEW s, NEW h, NEW r
  PROVE  r \in Apart(s, h) <=> OfOther(s, h, r)
<1>1. r \in HourlyMedians(s) <=> \E g \in HoursOf(s) : r = MedianRow(s, g)
  BY Zenon DEF HourlyMedians, MedianRow
<1>2. \A g : MedianRow(s, g).ts = g
  BY DEF MedianRow
<1>. QED  BY <1>1, <1>2, Zenon DEF Apart, OfOther

\* An element changes the median of its hour and no other.
LEMMA ApartStays ==
  ASSUME NEW s, NEW t, NEW e, OneMore(s, t, e)
  PROVE  Apart(t, HourOf(e.ts)) = Apart(s, HourOf(e.ts))
<1>1. ASSUME NEW g, g # HourOf(e.ts)
      PROVE  (g \in HoursOf(t) <=> g \in HoursOf(s)) /\ MedianRow(t, g) = MedianRow(s, g)
  BY <1>1, HoursGrow, ValuesGrow DEF MedianRow
<1>2. ASSUME NEW r
      PROVE  r \in Apart(t, HourOf(e.ts)) <=> r \in Apart(s, HourOf(e.ts))
  <2>1. (r \in Apart(t, HourOf(e.ts)) <=> OfOther(t, HourOf(e.ts), r))
        /\ (r \in Apart(s, HourOf(e.ts)) <=> OfOther(s, HourOf(e.ts), r))
    BY ApartIs, Zenon
  <2>2. OfOther(t, HourOf(e.ts), r) <=> OfOther(s, HourOf(e.ts), r)
    BY <1>1, Zenon DEF OfOther
  <2>. QED  BY <2>1, <2>2
<1>3. Apart(t, HourOf(e.ts)) \subseteq Apart(s, HourOf(e.ts))
  BY <1>2
<1>. QED  BY <1>2

\* The median of an hour and the others are all.
LEMMA ApartJoined ==
  ASSUME NEW s, NEW g \in HoursOf(s), NEW h, h \notin HoursOf(s)
  PROVE  Apart(s, h) = Apart(s, g) \cup {MedianRow(s, g)}
<1>1. ASSUME NEW r
      PROVE  r \in Apart(s, h) <=> r \in Apart(s, g) \/ r = MedianRow(s, g)
  <2>1. r \in Apart(s, h) <=> OfOther(s, h, r)
    BY ApartIs, Zenon
  <2>2. r \in Apart(s, g) <=> OfOther(s, g, r)
    BY ApartIs, Zenon
  <2>. QED  BY <2>1, <2>2, Zenon DEF OfOther
<1>. QED  BY <1>1

\* Without an hour there is nothing to leave out.
LEMMA ApartOfNone ==
  ASSUME NEW s, NEW g, g \notin HoursOf(s), NEW h, h \notin HoursOf(s)
  PROVE  Apart(s, g) = Apart(s, h)
<1>1. ASSUME NEW r
      PROVE  r \in Apart(s, h) <=> r \in Apart(s, g)
  <2>1. r \in Apart(s, h) <=> OfOther(s, h, r)
    BY ApartIs, Zenon
  <2>2. r \in Apart(s, g) <=> OfOther(s, g, r)
    BY ApartIs, Zenon
  <2>. QED  BY <2>1, <2>2, Zenon DEF OfOther
<1>. QED  BY <1>1

--------------------------------------------------------------------------------
(* The open hour *)

\* An open hour is the last one, and holds its values; the detector had the medians
\* of all others.
HourInv(s, rs, b, now) ==
  /\ IsSeq(s) /\ HoursOf(s) \subseteq Nat
  /\ b.hour = NoHour => \A h \in HoursOf(s) : h < HourOf(now + 1)
  /\ b.hour # NoHour =>
       /\ b.hour \in HoursOf(s) /\ b.values = ValuesIn(s, b.hour)
       /\ \A h \in HoursOf(s) : h <= b.hour
  /\ ToSet(rs) = Apart(s, b.hour)
HourlyInv == kind = "hourly" => HourInv(arrived, rows, bucket, clock)

\* A sequence has the elements of the shorter one and one more.
LEMMA SetGrows ==
  ASSUME NEW s, NEW t, NEW e, OneMore(s, t, e)
  PROVE  ToSet(t) = ToSet(s) \cup {e}
<1>1. DOMAIN t = DOMAIN s \cup {Len(s) + 1} /\ (\A i \in DOMAIN s : t[i] = s[i]) /\ t[Len(s) + 1] = e
  BY DEF OneMore
<1>. QED  BY <1>1, Zenon DEF ToSet

\* The closed hour's median is the row that comes.
LEMMA FeedAdds ==
  ASSUME FeedInv, NEW ts, NEW x, Feed(ts, x)
  PROVE  ToSet(rows') = ToSet(rows) \cup {[ts |-> ts, x |-> x]}
<1>1. PICK u, c, h : u = Update(det, x) /\ c = Check(gate, ts, x) /\ h = Candidate(c.gate, ts, u.alarm)
  OBVIOUS
<1>2. GateInv(rows, events, gate) /\ IsSeq(rows)
  BY DEF FeedInv, RowsInv
<1>3. PICK e : e = [ts |-> ts, x |-> x]
  OBVIOUS
<1>4. rows' = Append(rows, e)
  BY <1>1, <1>2, <1>3, FeedDoes, Zenon
<1>5. OneMore(rows, rows', e)
  BY <1>2, <1>4, Appended, Zenon
<1>. QED  BY <1>3, <1>5, SetGrows

\* A window of the open hour, of another or of the first.
LEMMA WindowOfHour ==
  ASSUME NEW s, NEW t, NEW ts \in Nat, NEW x, OneMore(s, t, [ts |-> ts, x |-> x]),
         NEW rs, NEW more, NEW b, DOMAIN b = {"hour", "values"}, NEW d, NEW now,
         HourInv(s, rs, b, now), HourOf(now + 1) = HourOf(ts),
         b.hour # NoHour => b.hour <= HourOf(ts),
         IF b.hour # NoHour /\ b.hour # HourOf(ts)
           THEN ToSet(more) = ToSet(rs) \cup {[ts |-> b.hour, x |-> Median(b.values)]}
           ELSE more = rs,
         d = IF b.hour = HourOf(ts) THEN [b EXCEPT !.values = Append(@, x)]
                                    ELSE [hour |-> HourOf(ts), values |-> <<x>>]
  PROVE  HourInv(t, more, d, now + 1)
<1>. DEFINE hour == HourOf(ts)
<1>1. hour \in Nat /\ hour # NoHour /\ NoHour \notin Nat
  BY HourIsLast DEF IsHour, NoHour
<1>2. PICK e : e = [ts |-> ts, x |-> x]
  OBVIOUS
<1>3. e.ts = ts /\ e.x = x /\ OneMore(s, t, e)
  BY <1>2
<1>. HIDE DEF hour
<1>4. HoursOf(t) = HoursOf(s) \cup {hour}
  BY <1>3, HoursGrow DEF hour
<1>5. ValuesIn(t, hour) = Append(ValuesIn(s, hour), x)
  BY <1>3, ValuesGrow DEF hour
<1>6. Apart(t, hour) = Apart(s, hour)
  BY <1>3, ApartStays DEF hour
<1>7. IsSeq(t) /\ IsSeq(s) /\ HoursOf(s) \subseteq Nat /\ ToSet(rs) = Apart(s, b.hour)
  BY <1>3 DEF OneMore, HourInv
<1>8. d.hour = hour
  BY DEF hour
<1>9. \A h \in HoursOf(s) : h <= hour
  <2>1. CASE b.hour = NoHour
    <3>1. \A h \in HoursOf(s) : h < hour
      BY <2>1 DEF HourInv, hour
    <3>. QED  BY <1>1, <1>7, <3>1
  <2>2. CASE b.hour # NoHour
    <3>1. b.hour \in HoursOf(s) /\ (\A h \in HoursOf(s) : h <= b.hour) /\ b.hour <= hour
      BY <2>2 DEF HourInv, hour
    <3>. QED  BY <1>1, <1>7, <3>1
  <2>. QED  BY <2>1, <2>2
<1>10. d.values = ValuesIn(t, hour) /\ ToSet(more) = Apart(s, hour)
  <2>1. CASE b.hour = hour
    <3>1. d.values = Append(b.values, x) /\ more = rs
      BY <2>1 DEF hour
    <3>2. b.values = ValuesIn(s, hour)
      BY <1>1, <2>1 DEF HourInv
    <3>. QED  BY <1>5, <1>7, <2>1, <3>1, <3>2
  <2>2. CASE b.hour # hour
    <3>1. d.values = <<x>>
      BY <2>2 DEF hour
    <3>2. hour \notin HoursOf(s)
      <4>1. CASE b.hour = NoHour
        <5>1. \A h \in HoursOf(s) : h < hour
          BY <4>1 DEF HourInv, hour
        <5>. QED  BY <1>1, <5>1
      <4>2. CASE b.hour # NoHour
        <5>1. b.hour \in HoursOf(s) /\ (\A h \in HoursOf(s) : h <= b.hour) /\ b.hour <= hour
          BY <4>2 DEF HourInv, hour
        <5>2. ~ (hour <= b.hour)
          BY <1>1, <1>7, <2>2, <5>1
        <5>. QED  BY <5>1, <5>2
      <4>. QED  BY <4>1, <4>2
    <3>3. ValuesIn(s, hour) = <<>>
      BY <1>7, <3>2, SeqDomain, ValuesOfNone
    <3>4. ToSet(more) = Apart(s, hour)
      <4>1. CASE b.hour = NoHour
        <5>1. more = rs /\ b.hour \notin HoursOf(s)
          BY <1>1, <1>7, <4>1
        <5>. QED  BY <1>7, <3>2, <5>1, ApartOfNone
      <4>2. CASE b.hour # NoHour
        <5>1. ToSet(more) = ToSet(rs) \cup {[ts |-> b.hour, x |-> Median(b.values)]}
          BY <2>2, <4>2 DEF hour
        <5>2. b.hour \in HoursOf(s) /\ b.values = ValuesIn(s, b.hour)
          BY <4>2 DEF HourInv
        <5>3. [ts |-> b.hour, x |-> Median(b.values)] = MedianRow(s, b.hour)
          BY <5>2 DEF MedianRow
        <5>4. Apart(s, hour) = Apart(s, b.hour) \cup {MedianRow(s, b.hour)}
          BY <3>2, <5>2, ApartJoined
        <5>. QED  BY <1>7, <5>1, <5>3, <5>4
      <4>. QED  BY <4>1, <4>2
    <3>. QED  BY <1>5, <3>1, <3>3, <3>4
  <2>. QED  BY <2>1, <2>2
<1>11. \A h \in HoursOf(t) : h <= hour
  BY <1>1, <1>4, <1>9
<1>12. HoursOf(t) \subseteq Nat /\ hour \in HoursOf(t)
  BY <1>1, <1>4, <1>7
<1>. QED  BY <1>1, <1>6, <1>7, <1>8, <1>10, <1>11, <1>12 DEF HourInv

\* The open hour closed after its end.
LEMMA TimerOfHour ==
  ASSUME NEW s, NEW rs, NEW more, NEW b, NEW d, NEW now, HourInv(s, rs, b, now),
         b.hour # NoHour, HourOf(now + 1) \in Nat, b.hour < HourOf(now + 1), d.hour = NoHour,
         ToSet(more) = ToSet(rs) \cup {[ts |-> b.hour, x |-> Median(b.values)]}
  PROVE  HourInv(s, more, d, now)
<1>1. /\ IsSeq(s) /\ HoursOf(s) \subseteq Nat /\ ToSet(rs) = Apart(s, b.hour)
      /\ b.hour \in HoursOf(s) /\ b.values = ValuesIn(s, b.hour)
      /\ \A h \in HoursOf(s) : h <= b.hour
  BY DEF HourInv
<1>2. NoHour \notin HoursOf(s)
  BY <1>1 DEF NoHour
<1>3. Apart(s, NoHour) = Apart(s, b.hour) \cup {MedianRow(s, b.hour)}
  BY <1>1, <1>2, ApartJoined
<1>4. ToSet(more) = Apart(s, NoHour)
  BY <1>1, <1>3 DEF MedianRow
<1>5. \A h \in HoursOf(s) : h < HourOf(now + 1)
  BY <1>1
<1>. QED  BY <1>1, <1>4, <1>5 DEF HourInv

\* Ten minutes pass.
LEMMA LaterHour ==
  ASSUME NEW s, NEW rs, NEW b, NEW now \in Nat, HourInv(s, rs, b, now)
  PROVE  HourInv(s, rs, b, now + 1)
<1>1. now + 1 \in Nat /\ now + 2 \in Nat /\ (now + 1) + 1 = now + 2
  OBVIOUS
<1>2. HourOf(now + 1) <= HourOf(now + 2) /\ HourOf(now + 1) \in Nat /\ HourOf(now + 2) \in Nat
  <2>1. /\ IsHour(HourOf(now + 1)) /\ IsHour(HourOf(now + 2))
        /\ HourOf(now + 1) <= now + 1 /\ now + 2 < HourOf(now + 2) + SlotsPerHour
    BY <1>1, HourIsLast
  <2>2. HourOf(now + 1) \in Nat /\ HourOf(now + 2) \in Nat /\ SlotsPerHour \in Nat
    BY <2>1, StreamAssumption DEF IsHour
  <2>3. HourOf(now + 1) < HourOf(now + 2) + SlotsPerHour
    BY <2>1, <2>2
  <2>. QED  BY <2>1, <2>2, <2>3, HoursApart
<1>3. HoursOf(s) \subseteq Nat
  BY DEF HourInv
<1>4. b.hour = NoHour => \A h \in HoursOf(s) : h < HourOf(now + 2)
  <2>1. b.hour = NoHour => \A h \in HoursOf(s) : h < HourOf(now + 1)
    BY DEF HourInv
  <2>. QED  BY <1>2, <1>3, <2>1
<1>. QED  BY <1>1, <1>4 DEF HourInv

\* Before the first window there is no hour.
LEMMA HourlyInitially == LayersInit => HourlyInv
<1>. SUFFICES ASSUME Init PROVE HourInv(arrived, rows, bucket, clock)
  BY DEF LayersInit, HourlyInv
<1>1. arrived = <<>> /\ rows = <<>> /\ bucket = [hour |-> NoHour, values |-> <<>>]
  BY DEF Init
<1>2. IsSeq(<<>>) /\ DOMAIN <<>> = {}
  BY EmptySeq DEF IsSeq
<1>3. HoursOf(<<>>) = {} /\ ToSet(<<>>) = {}
  BY <1>2, Zenon DEF HoursOf, ToSet
<1>4. Apart(<<>>, NoHour) = {}
  <2>1. \A r : r \in Apart(<<>>, NoHour) <=> OfOther(<<>>, NoHour, r)
    BY ApartIs, Zenon
  <2>2. \A r : ~ OfOther(<<>>, NoHour, r)
    BY <1>3 DEF OfOther
  <2>. QED  BY <2>1, <2>2, Zenon
<1>5. bucket.hour = NoHour
  BY <1>1
<1>. QED  BY <1>1, <1>2, <1>3, <1>4, <1>5 DEF HourInv

\* Every step keeps it.
LEMMA HourlyStep ==
  DriftInv /\ HourlyInv /\ [LayersNext]_<<vars, dayVars>> => HourlyInv'
<1>. SUFFICES ASSUME DriftInv, HourlyInv, [LayersNext]_<<vars, dayVars>>, kind' = "hourly"
              PROVE  HourInv(arrived', rows', bucket', clock')
  BY DEF HourlyInv
<1>1. clock \in Nat /\ clock + 1 \in Nat /\ FeedInv
  BY DEF DriftInv, ClockInv
<1>2. CASE Nothing
  <2>1. kind = "hourly" /\ UNCHANGED <<arrived, rows, bucket>> /\ clock' = clock + 1
    BY <1>2 DEF Nothing, hours, stream
  <2>2. HourInv(arrived, rows, bucket, clock)
    BY <2>1 DEF HourlyInv
  <2>. QED  BY <1>1, <2>1, <2>2, LaterHour
<1>3. ASSUME NEW x \in Values, HourWindow(x)
      PROVE  HourInv(arrived', rows', bucket', clock')
  <2>. DEFINE ts == clock + 1
  <2>1. /\ kind = "hourly" /\ clock' = ts /\ arrived' = Append(arrived, [ts |-> ts, x |-> x])
        /\ IF bucket.hour # NoHour /\ ~(bucket.hour = HourOf(ts))
             THEN Feed(bucket.hour, Median(bucket.values)) ELSE UNCHANGED stream
        /\ bucket' = IF bucket.hour = HourOf(ts) THEN [bucket EXCEPT !.values = Append(@, x)]
                     ELSE [hour |-> HourOf(ts), values |-> <<x>>]
    BY <1>3 DEF HourWindow, Arrives
  <2>2. HourInv(arrived, rows, bucket, clock) /\ DOMAIN bucket = {"hour", "values"}
    BY <2>1 DEF HourlyInv, DriftInv, ClockInv
  <2>3. OneMore(arrived, arrived', [ts |-> ts, x |-> x])
    BY <2>1, <2>2, Appended DEF HourInv
  <2>4. bucket.hour # NoHour => bucket.hour <= HourOf(ts)
    <3>. SUFFICES ASSUME bucket.hour # NoHour PROVE bucket.hour <= HourOf(ts)
      OBVIOUS
    <3>1. IsHour(bucket.hour) /\ bucket.hour <= clock
      BY <2>1 DEF DriftInv, ClockInv
    <3>2. IsHour(HourOf(ts)) /\ ts < HourOf(ts) + SlotsPerHour
      BY <1>1, HourIsLast
    <3>3. bucket.hour \in Nat /\ HourOf(ts) \in Nat /\ SlotsPerHour \in Nat
      BY <3>1, <3>2, StreamAssumption DEF IsHour
    <3>4. bucket.hour < HourOf(ts) + SlotsPerHour
      BY <1>1, <3>1, <3>2, <3>3
    <3>. QED  BY <3>1, <3>2, <3>4, HoursApart
  <2>5. IF bucket.hour # NoHour /\ bucket.hour # HourOf(ts)
          THEN ToSet(rows') = ToSet(rows) \cup {[ts |-> bucket.hour, x |-> Median(bucket.values)]}
          ELSE rows' = rows
    <3>1. CASE bucket.hour # NoHour /\ bucket.hour # HourOf(ts)
      BY <1>1, <2>1, <3>1, FeedAdds
    <3>2. CASE ~ (bucket.hour # NoHour /\ bucket.hour # HourOf(ts))
      BY <2>1, <3>2 DEF stream
    <3>. QED  BY <3>1, <3>2
  <2>6. HourInv(arrived', rows', bucket', clock + 1)
    <3>. HIDE DEF ts
    <3>1. HourOf(clock + 1) = HourOf(ts) /\ ts \in Nat
      BY <1>1 DEF ts
    <3>. QED  BY <2>1, <2>2, <2>3, <2>4, <2>5, <3>1, WindowOfHour
  <2>. QED  BY <2>1, <2>6
<1>4. CASE HourTimer
  <2>1. PICK t \in timers :
          /\ kind = "hourly" /\ t <= clock /\ UNCHANGED <<kind, clock, arrived>>
          /\ IF Closes(t)
               THEN Feed(bucket.hour, Median(bucket.values)) /\ bucket' = [hour |-> NoHour, values |-> <<>>]
               ELSE UNCHANGED <<stream, bucket>>
    BY <1>4 DEF HourTimer
  <2>2. HourInv(arrived, rows, bucket, clock)
    BY <2>1 DEF HourlyInv
  <2>3. CASE Closes(t)
    <3>1. bucket.hour # NoHour /\ bucket.hour + 2 * SlotsPerHour <= clock /\ bucket'.hour = NoHour
      BY <2>1, <2>3 DEF Closes, Fallback
    <3>2. bucket.hour \in Nat /\ SlotsPerHour \in Nat /\ HourOf(clock + 1) \in Nat
      BY <1>1, <2>1, <3>1, HourIsLast, StreamAssumption DEF DriftInv, ClockInv, IsHour
    <3>3. clock + 1 < HourOf(clock + 1) + SlotsPerHour
      BY <1>1, HourIsLast
    <3>4. bucket.hour < HourOf(clock + 1)
      <4>1. bucket.hour + SlotsPerHour < HourOf(clock + 1)
        BY <1>1, <3>1, <3>2, <3>3
      <4>. QED  BY <3>2, <4>1
    <3>5. ToSet(rows') = ToSet(rows) \cup {[ts |-> bucket.hour, x |-> Median(bucket.values)]}
      BY <1>1, <2>1, <2>3, FeedAdds
    <3>6. HourInv(arrived, rows', bucket', clock)
      BY <2>2, <3>1, <3>2, <3>4, <3>5, TimerOfHour
    <3>. QED  BY <2>1, <3>6
  <2>4. CASE ~ Closes(t)
    BY <2>1, <2>2, <2>4 DEF stream
  <2>. QED  BY <2>3, <2>4
<1>5. ASSUME NEW x \in Values, ScoreWindow(x)
      PROVE  FALSE
  BY <1>5 DEF ScoreWindow
<1>6. ASSUME NEW b \in Bins, OutlierBin(b)
      PROVE  FALSE
  BY <1>6 DEF OutlierBin
<1>7. CASE UNCHANGED vars
  BY <1>7 DEF vars, HourlyInv
<1>8. CASE Next
  BY <1>2, <1>3, <1>4, <1>5, <1>6, <1>8, Zenon DEF Next
<1>. QED  BY <1>7, <1>8, Zenon DEF LayersNext

\* In every run of an hourly stream, whatever windows come and are missing and however
\* the timers and the windows interleave: the hours given to the detector are the offline
\* hours with their medians, each once and in order, and only the open one is missing
\* (M5bFunction.processElement and onTimer, prepare_streams.py).
THEOREM HoursStayOffline == LayersSpec => []HourlyIsOffline
<1>1. LayersInit => DriftInv /\ HourlyInv
  BY Initially, HourlyInitially
<1>2. DriftInv /\ HourlyInv /\ [LayersNext]_<<vars, dayVars>> => (DriftInv /\ HourlyInv)'
  BY StepKeeps, HourlyStep
<1>3. DriftInv /\ HourlyInv => HourlyIsOffline
  <2>. SUFFICES ASSUME DriftInv, HourlyInv, kind = "hourly"
                PROVE  /\ ToSet(rows) = {r \in HourlyMedians(arrived) : r.ts # bucket.hour}
                       /\ \A i, j \in DOMAIN rows : i < j => rows[i].ts < rows[j].ts
                       /\ bucket.hour # NoHour => bucket.values = ValuesIn(arrived, bucket.hour)
    BY DEF HourlyIsOffline
  <2>1. HourInv(arrived, rows, bucket, clock)
    BY DEF HourlyInv
  <2>2. ToSet(rows) = {r \in HourlyMedians(arrived) : r.ts # bucket.hour}
    BY <2>1, Zenon DEF HourInv, Apart
  <2>3. \A i, j \in DOMAIN rows : i < j => rows[i].ts < rows[j].ts
    BY DEF DriftInv, FeedInv, RowsInv
  <2>4. bucket.hour # NoHour => bucket.values = ValuesIn(arrived, bucket.hour)
    BY <2>1 DEF HourInv
  <2>. QED  BY <2>2, <2>3, <2>4
<1>. QED  BY <1>1, <1>2, <1>3, PTL DEF LayersSpec

--------------------------------------------------------------------------------
(* Runs of nonzero rates *)

\* The run of nonzero rates that ends with element j has d elements.
Positive(rs, a, b) == \A k \in a..b : rs[k].x > 0
Run(rs, f, j) == f \in 1..(j + 1) /\ Positive(rs, f, j) /\ (f = 1 \/ ~ (rs[f - 1].x > 0))
Before(rs, j, d) == \E f \in 1..(j + 1) : Run(rs, f, j) /\ d = j - f + 1

\* From element a, or just before it, the run goes to t; with what precedes a it has d.
RunTo(rs, a, t, d) ==
  /\ t \in (a - 1)..Len(rs) /\ Positive(rs, a, t)
  /\ t < Len(rs) => ~ (rs[t + 1].x > 0)
  /\ Before(rs, t, d)

\* A run that has ended stays.
LEMMA BeforeStays ==
  ASSUME NEW rs, NEW more, NEW x, OneLater(rs, more, x), NEW j \in 0..Len(rs), NEW d, Before(rs, j, d)
  PROVE  Before(more, j, d)
<1>1. Len(rs) \in Nat /\ \A i \in 1..Len(rs) : more[i].x = rs[i].x
  BY DEF OneLater
<1>2. PICK f \in 1..(j + 1) : Run(rs, f, j) /\ d = j - f + 1
  BY DEF Before
<1>3. Positive(more, f, j)
  <2>1. \A k \in f..j : k \in 1..Len(rs)
    BY <1>1
  <2>. QED  BY <1>1, <1>2, <2>1 DEF Run, Positive
<1>4. f = 1 \/ ~ (more[f - 1].x > 0)
  <2>1. f = 1 \/ f - 1 \in 1..Len(rs)
    BY <1>1
  <2>. QED  BY <1>1, <1>2, <2>1 DEF Run
<1>5. Run(more, f, j)
  BY <1>2, <1>3, <1>4 DEF Run
<1>. QED  BY <1>2, <1>5, Zenon DEF Before

\* The newest element goes on with the run before it, or is zero.
LEMMA BeforeGrows ==
  ASSUME NEW rs, NEW more, NEW x \in Int, OneLater(rs, more, x), NEW d \in Int, Before(rs, Len(rs), d)
  PROVE  /\ x > 0 => Before(more, Len(rs) + 1, d + 1)
         /\ ~ (x > 0) => Before(more, Len(rs) + 1, 0)
<1>. DEFINE n == Len(rs)
<1>1. n \in Nat /\ (\A i \in 1..n : more[i].x = rs[i].x) /\ more[n + 1].x = x
  BY DEF OneLater
<1>2. PICK f \in 1..(n + 1) : Run(rs, f, n) /\ d = n - f + 1
  BY DEF Before
<1>3. ASSUME x > 0
      PROVE  Before(more, n + 1, d + 1)
  <2>1. Positive(more, f, n + 1)
    <3>1. \A k \in f..(n + 1) : k = n + 1 \/ (k \in f..n /\ k \in 1..n)
      BY <1>1
    <3>. QED  BY <1>1, <1>2, <1>3, <3>1 DEF Run, Positive
  <2>2. f = 1 \/ ~ (more[f - 1].x > 0)
    <3>1. f = 1 \/ f - 1 \in 1..n
      BY <1>1
    <3>. QED  BY <1>1, <1>2, <3>1 DEF Run
  <2>3. f \in 1..((n + 1) + 1) /\ d + 1 = (n + 1) - f + 1
    BY <1>1, <1>2
  <2>4. Run(more, f, n + 1)
    BY <2>1, <2>2, <2>3 DEF Run
  <2>. QED  BY <2>3, <2>4, Zenon DEF Before
<1>4. ASSUME ~ (x > 0)
      PROVE  Before(more, n + 1, 0)
  <2>. DEFINE g == n + 2
  <2>1. g \in 1..((n + 1) + 1) /\ g - 1 = n + 1 /\ 0 = (n + 1) - g + 1 /\ g..(n + 1) = {}
    BY <1>1
  <2>. HIDE DEF g
  <2>2. Run(more, g, n + 1)
    BY <1>1, <1>4, <2>1 DEF Run, Positive
  <2>. QED  BY <2>1, <2>2, Zenon DEF Before
<1>. QED  BY <1>3, <1>4

\* The run of an element, when one comes.
LEMMA RunGoesOn ==
  ASSUME NEW rs, NEW more, NEW x \in Int, OneLater(rs, more, x), NEW a \in 1..Len(rs),
         NEW t, NEW d \in Int, RunTo(rs, a, t, d)
  PROVE  IF t = Len(rs) /\ x > 0 THEN RunTo(more, a, t + 1, d + 1) ELSE RunTo(more, a, t, d)
<1>. DEFINE n == Len(rs)
<1>1. n \in Nat /\ Len(more) = n + 1 /\ (\A i \in 1..n : more[i].x = rs[i].x) /\ more[n + 1].x = x
  BY DEF OneLater
<1>2. /\ t \in (a - 1)..n /\ t \in 0..n /\ Positive(rs, a, t) /\ Before(rs, t, d)
      /\ t < n => ~ (rs[t + 1].x > 0)
  BY <1>1 DEF RunTo
<1>3. Positive(more, a, t)
  <2>1. \A k \in a..t : k \in 1..n
    BY <1>1, <1>2
  <2>. QED  BY <1>1, <1>2, <2>1 DEF Positive
<1>4. CASE t = n /\ x > 0
  <2>1. Before(more, n + 1, d + 1)
    BY <1>2, <1>4, BeforeGrows
  <2>2. Positive(more, a, n + 1)
    <3>1. \A k \in a..(n + 1) : k = n + 1 \/ k \in a..n
      BY <1>1
    <3>. QED  BY <1>1, <1>3, <1>4, <3>1 DEF Positive
  <2>3. t + 1 \in (a - 1)..Len(more) /\ ~ (t + 1 < Len(more))
    BY <1>1, <1>2, <1>4
  <2>. QED  BY <1>4, <2>1, <2>2, <2>3 DEF RunTo
<1>5. CASE ~ (t = n /\ x > 0)
  <2>1. Before(more, t, d)
    BY <1>2, BeforeStays
  <2>2. t \in (a - 1)..Len(more)
    BY <1>1, <1>2
  <2>3. ~ (more[t + 1].x > 0)
    <3>1. CASE t = n
      BY <1>1, <1>5, <3>1
    <3>2. CASE t # n
      <4>1. t < n /\ t + 1 \in 1..n
        BY <1>1, <1>2, <3>2
      <4>. QED  BY <1>1, <1>2, <4>1
    <3>. QED  BY <3>1, <3>2
  <2>. QED  BY <1>3, <1>5, <2>1, <2>2, <2>3 DEF RunTo
<1>. QED  BY <1>4, <1>5

\* The run is the one that the offline script looks for.
LEMMA RunIs ==
  ASSUME Len(rows) \in Nat, NEW a \in 1..Len(rows), NEW t, NEW d, RunTo(rows, a, t, d)
  PROVE  RunLength(a) = d
<1>. DEFINE n == Len(rows)
            j == IF rows[a].x > 0 THEN a ELSE a - 1
            from == {b \in 1..j : Positive(rows, b, j)}
            to == {b \in j..n : Positive(rows, j, b)}
<1>1. RunLength(a) = IF from = {} THEN 0 ELSE Max(to) - Min(from) + 1
  BY DEF RunLength, Positive
<1>2. t \in (a - 1)..n /\ Positive(rows, a, t) /\ (t < n => ~ (rows[t + 1].x > 0)) /\ n \in Nat
  BY DEF RunTo
<1>3. PICK f \in 1..(t + 1) : Run(rows, f, t) /\ d = t - f + 1
  BY DEF RunTo, Before
<1>4. Positive(rows, f, t) /\ (f = 1 \/ ~ (rows[f - 1].x > 0))
  BY <1>3 DEF Run
<1>5. from \in SUBSET Int /\ to \in SUBSET Int /\ j \in Int /\ j \in 0..n
  BY <1>2
<1>6. \A b \in from : f <= b
  <2>. SUFFICES ASSUME NEW b \in from, b < f
                PROVE  FALSE
    BY <1>2
  <2>1. b \in 1..j /\ Positive(rows, b, j)
    OBVIOUS
  <2>2. f - 1 \in b..j \/ f - 1 > j
    BY <1>2, <1>5, <2>1
  <2>3. CASE f - 1 > j
    <3>1. j + 1 <= t /\ a <= t /\ f - 1 \in a..t
      BY <1>2, <1>3, <1>5, <2>3
    <3>. QED  BY <1>4, <3>1, <1>2, <2>1 DEF Positive
  <2>4. CASE f - 1 \in b..j
    <3>1. f # 1
      BY <2>1
    <3>. HIDE DEF j
    <3>. QED  BY <1>4, <2>1, <2>4, <3>1 DEF Positive
  <2>. QED  BY <2>2, <2>3, <2>4
<1>7. CASE rows[a].x > 0
  <2>1. j = a /\ a <= t
    BY <1>2, <1>7
  <2>2. f <= a
    <3>. SUFFICES ASSUME a < f PROVE FALSE
      BY <1>2
    <3>1. f - 1 \in a..t /\ f # 1
      BY <1>2, <1>3
    <3>. QED  BY <1>2, <1>4, <3>1 DEF Positive
  <2>3. f \in from
    <3>1. \A k \in f..a : k \in f..t
      BY <1>2, <2>1, <2>2
    <3>. QED  BY <1>2, <1>4, <2>1, <2>2, <3>1 DEF Positive
  <2>4. t \in to
    BY <1>2, <2>1
  <2>5. \A b \in to : t >= b
    <3>. SUFFICES ASSUME NEW b \in to, t < b
                  PROVE  FALSE
      BY <1>2
    <3>1. b \in a..n /\ Positive(rows, a, b)
      BY <2>1
    <3>2. t + 1 \in a..b /\ t < n
      BY <1>2, <2>1, <3>1
    <3>. QED  BY <1>2, <3>1, <3>2 DEF Positive
  <2>. HIDE DEF from, to
  <2>6. Min(from) = f /\ Max(to) = t
    BY <1>5, <1>6, <2>3, <2>4, <2>5, SmallestIs, LargestIs
  <2>. QED  BY <1>1, <1>3, <2>3, <2>6
<1>8. CASE ~ (rows[a].x > 0)
  <2>1. j = a - 1 /\ t = a - 1
    <3>1. ~ (a <= t)
      <4>. SUFFICES ASSUME a <= t PROVE FALSE
        OBVIOUS
      <4>1. a \in a..t
        BY <1>2
      <4>. QED  BY <1>2, <1>8, <4>1 DEF Positive
    <3>. QED  BY <1>2, <1>8, <3>1
  <2>2. CASE f = t + 1
    <3>1. from = {}
      <4>. SUFFICES ASSUME NEW b \in from PROVE FALSE
        OBVIOUS
      <4>1. b <= j /\ b \in Int
        OBVIOUS
      <4>. QED  BY <1>2, <1>6, <2>1, <2>2, <4>1
    <3>2. d = 0
      BY <1>2, <1>3, <2>2
    <3>. QED  BY <1>1, <3>1, <3>2
  <2>3. CASE f # t + 1
    <3>1. f \in 1..t
      BY <1>2, <2>3
    <3>2. f \in from
      BY <1>4, <2>1, <3>1
    <3>3. t \in to
      <4>1. \A k \in t..t : k \in f..t
        BY <1>2, <3>1
      <4>. QED  BY <1>2, <1>4, <2>1, <4>1 DEF Positive
    <3>4. \A b \in to : t >= b
      <4>. SUFFICES ASSUME NEW b \in to, t < b
                    PROVE  FALSE
        BY <1>2
      <4>1. b \in t..n /\ Positive(rows, t, b)
        BY <2>1
      <4>2. a \in t..b
        BY <1>2, <2>1, <4>1
      <4>. QED  BY <1>8, <4>1, <4>2 DEF Positive
    <3>. HIDE DEF from, to
    <3>5. Min(from) = f /\ Max(to) = t
      BY <1>5, <1>6, <3>2, <3>3, <3>4, SmallestIs, LargestIs
    <3>. QED  BY <1>1, <1>3, <3>2, <3>5
  <2>. QED  BY <2>2, <2>3
<1>. QED  BY <1>7, <1>8

--------------------------------------------------------------------------------
(* What a burst counts *)

\* The elements of the hour from a time on, and the outliers of each element.
WithinHour(rs, ts) == {i \in DOMAIN rs : ts <= rs[i].ts /\ rs[i].ts <= ts + Horizon}
OutliersOf(arr, rs) == [i \in 1..Len(rs) |-> arr[rs[i].ts].outliers]

\* The rates come in order of time, and each element is that of its bin.
RateRows(rs) ==
  /\ Len(rs) \in Nat /\ DOMAIN rs = 1..Len(rs)
  /\ \A i \in 1..Len(rs) : rs[i].ts \in Nat /\ rs[i].x \in Nat
  /\ \A i, j \in 1..Len(rs) : i < j => rs[i].ts < rs[j].ts

\* What the burst q of element a has of the elements so far.
Counts(rs, num, q) ==
  /\ q.size = Total(WithinHour(rs, q.ts), num)
  /\ \E i \in WithinHour(rs, q.ts) : q.peak = rs[i].x
  /\ \A i \in WithinHour(rs, q.ts) : rs[i].x <= q.peak
Lasts(rs, q, a, t) == RunTo(rs, a, t, q.duration) /\ (q.open <=> t = Len(rs))
Follows(rs, num, q) ==
  /\ Counts(rs, num, q)
  /\ \E a \in 1..Len(rs) : rs[a].ts = q.ts /\ \E t \in (a - 1)..Len(rs) : Lasts(rs, q, a, t)
IsBurst(q) ==
  q \in [ts : Nat, size : Nat, peak : Nat, open : BOOLEAN, duration : Nat]

\* A later element joins the hour, if it is within.
LEMMA WithinGrows ==
  ASSUME NEW rs, RateRows(rs), NEW more, RateRows(more), NEW x, OneLater(rs, more, x),
         NEW ts \in Nat, ts <= more[Len(rs) + 1].ts
  PROVE  WithinHour(more, ts) = IF more[Len(rs) + 1].ts <= ts + Horizon
                              THEN WithinHour(rs, ts) \cup {Len(rs) + 1} ELSE WithinHour(rs, ts)
<1>1. DOMAIN more = DOMAIN rs \cup {Len(rs) + 1} /\ \A i \in DOMAIN rs : more[i] = rs[i]
  BY DEF RateRows, OneLater
<1>. QED  BY <1>1 DEF WithinHour

\* The numbers of the elements within.
LEMMA TotalWithin ==
  ASSUME NEW rs, RateRows(rs), NEW num, \A i \in 1..Len(rs) : num[i] \in Nat, NEW ts
  PROVE  /\ IsFiniteSet(WithinHour(rs, ts)) /\ WithinHour(rs, ts) \subseteq 1..Len(rs)
         /\ Total(WithinHour(rs, ts), num) \in Int
<1>1. WithinHour(rs, ts) \subseteq 1..Len(rs) /\ Len(rs) \in Nat
  BY DEF WithinHour, RateRows
<1>2. IsFiniteSet(1..Len(rs))
  BY <1>1, FS_Interval
<1>3. IsFiniteSet(WithinHour(rs, ts))
  BY <1>1, <1>2, FS_Subset
<1>. QED  BY <1>1, <1>3, TotalFacts

\* One more term, and the others the same.
LEMMA TotalJoined ==
  ASSUME NEW S, IsFiniteSet(S), NEW f, NEW g, \A i \in S : f[i] \in Int /\ g[i] = f[i],
         NEW k, k \notin S, g[k] \in Int
  PROVE  Total(S \cup {k}, g) = Total(S, f) + g[k] /\ Total(S, g) = Total(S, f)
<1>1. IsFiniteSet(S \cup {k}) /\ (S \cup {k}) \ {k} = S
  BY FS_AddElement
<1>2. \A i \in S \cup {k} : g[i] \in Int
  OBVIOUS
<1>3. Total(S \cup {k}, g) = g[k] + Total((S \cup {k}) \ {k}, g)
  BY <1>1, <1>2, TotalFacts
<1>4. PICK p : Sums(p, f, S) /\ Total(S, f) = p[S]
  BY TotalSums
<1>5. PICK q : Sums(q, g, S) /\ Total(S, g) = q[S]
  BY TotalSums
<1>6. Total(S, g) = Total(S, f)
  BY <1>4, <1>5, SumsAgree
<1>7. Total(S, f) \in Int
  BY TotalFacts
<1>8. Total(S \cup {k}, g) = g[k] + Total(S, f)
  BY <1>1, <1>3, <1>6
<1>9. PICK m, n, l : m = Total(S \cup {k}, g) /\ n = g[k] /\ l = Total(S, f)
  OBVIOUS
<1>10. m = l + n
  BY <1>7, <1>8, <1>9
<1>. QED  BY <1>6, <1>9, <1>10

\* The element that comes: later than all, with its rate and its outliers.
Comes(rs, more, num, n2, ts, x, out) ==
  /\ RateRows(rs) /\ RateRows(more) /\ OneLater(rs, more, x) /\ more[Len(rs) + 1].ts = ts
  /\ ts \in Nat /\ x \in Nat /\ out \in Nat
  /\ \A i \in 1..Len(rs) : num[i] \in Nat /\ n2[i] = num[i]
  /\ n2[Len(rs) + 1] = out

\* What an element adds to a burst.
LEMMA ExtendedFollows ==
  ASSUME NEW rs, NEW more, NEW num, NEW n2, NEW ts, NEW b, b.outliers \in Nat, Rate(b) \in Nat,
         Comes(rs, more, num, n2, ts, Rate(b), b.outliers),
         NEW q, IsBurst(q), Follows(rs, num, q), NEW e, e = Extended(q, ts, b)
  PROVE  IsBurst(e) /\ e.ts = q.ts /\ q.ts < ts /\ Follows(more, n2, e)
<1>. DEFINE n == Len(rs)
            x == Rate(b)
            in == ts <= q.ts + Horizon
<1>1. /\ RateRows(rs) /\ RateRows(more) /\ OneLater(rs, more, x) /\ more[n + 1].ts = ts
      /\ ts \in Nat /\ x \in Nat /\ n \in Nat /\ Len(more) = n + 1
      /\ (\A i \in 1..n : num[i] \in Nat /\ n2[i] = num[i]) /\ n2[n + 1] = b.outliers
  BY DEF Comes, RateRows, OneLater
<1>2. /\ (\A i \in 1..n : more[i] = rs[i] /\ rs[i].x \in Nat /\ rs[i].ts \in Nat) /\ more[n + 1].x = x
      /\ \A i \in 1..n : rs[i].ts < ts
  <2>1. \A i \in 1..n : more[i] = rs[i] /\ rs[i].x \in Nat /\ rs[i].ts \in Nat
    BY <1>1 DEF OneLater, RateRows
  <2>2. \A i \in 1..n : i \in 1..Len(more) /\ n + 1 \in 1..Len(more) /\ i < n + 1
    BY <1>1
  <2>3. \A i \in 1..n : more[i].ts < more[n + 1].ts
    BY <1>1, <2>2 DEF RateRows
  <2>4. more[n + 1].x = x
    BY <1>1 DEF OneLater
  <2>. HIDE DEF n, x
  <2>. QED  BY <1>1, <2>1, <2>3, <2>4
<1>3. /\ q.ts \in Nat /\ q.size \in Nat /\ q.peak \in Nat /\ q.open \in BOOLEAN /\ q.duration \in Nat
      /\ Horizon \in Nat
  BY StreamAssumption DEF IsBurst, Horizon
<1>4. /\ e.ts = q.ts
      /\ e.size = IF in THEN q.size + b.outliers ELSE q.size
      /\ e.peak = IF in /\ x > q.peak THEN x ELSE q.peak
      /\ e.duration = IF q.open /\ x > 0 THEN q.duration + 1 ELSE q.duration
      /\ e.open = (q.open /\ x > 0)
      /\ IsBurst(e)
  <2>. HIDE DEF x
  <2>1. e = [q EXCEPT !.size = IF in THEN @ + b.outliers ELSE @,
                !.peak = IF in /\ x > @ THEN x ELSE @,
                !.duration = IF q.open /\ x > 0 THEN @ + 1 ELSE @,
                !.open = @ /\ x > 0]
    BY DEF Extended, x
  <2>2. b.outliers \in Nat /\ x \in Nat
    BY <1>1
  <2>3. PICK z, k, l, o : /\ z = (IF in THEN q.size + b.outliers ELSE q.size)
                           /\ k = (IF in /\ x > q.peak THEN x ELSE q.peak)
                           /\ l = (IF q.open /\ x > 0 THEN q.duration + 1 ELSE q.duration)
                           /\ o = (q.open /\ x > 0)
    OBVIOUS
  <2>. HIDE DEF in
  <2>4. e = [q EXCEPT !.size = z, !.peak = k, !.duration = l, !.open = o]
    BY <2>1, <2>3
  <2>5. z \in Nat /\ k \in Nat /\ l \in Nat
    BY <1>3, <2>2, <2>3
  <2>6. o \in BOOLEAN
    BY <2>3
  <2>7. IsBurst(e) /\ e.ts = q.ts /\ e.size = z /\ e.peak = k /\ e.duration = l /\ e.open = o
    BY <2>4, <2>5, <2>6 DEF IsBurst
  <2>. QED  BY <2>3, <2>7
<1>5. PICK a \in 1..n : rs[a].ts = q.ts /\ \E t \in (a - 1)..n : Lasts(rs, q, a, t)
  BY DEF Follows
<1>6. PICK t \in (a - 1)..n : Lasts(rs, q, a, t)
  BY <1>5
<1>7. q.ts < ts /\ a \in 1..(n + 1) /\ more[a].ts = q.ts
  BY <1>1, <1>2, <1>5
<1>8. WithinHour(more, q.ts) = IF in THEN WithinHour(rs, q.ts) \cup {n + 1} ELSE WithinHour(rs, q.ts)
  <2>1. q.ts <= more[n + 1].ts
    BY <1>1, <1>3, <1>7
  <2>. QED  BY <1>1, <1>3, <2>1, WithinGrows
<1>9. WithinHour(rs, q.ts) \subseteq 1..n /\ n + 1 \notin WithinHour(rs, q.ts) /\ IsFiniteSet(WithinHour(rs, q.ts))
  <2>1. WithinHour(rs, q.ts) \subseteq 1..n /\ IsFiniteSet(WithinHour(rs, q.ts))
    BY <1>1, TotalWithin
  <2>. QED  BY <1>1, <2>1
<1>10. e.size = Total(WithinHour(more, q.ts), n2)
  <2>1. \A i \in WithinHour(rs, q.ts) : num[i] \in Int /\ n2[i] = num[i]
    BY <1>1, <1>9
  <2>2. n2[n + 1] \in Int
    BY <1>1
  <2>. HIDE DEF n
  <2>3. /\ Total(WithinHour(rs, q.ts) \cup {n + 1}, n2) = Total(WithinHour(rs, q.ts), num) + n2[n + 1]
        /\ Total(WithinHour(rs, q.ts), n2) = Total(WithinHour(rs, q.ts), num)
    BY <1>9, <2>1, <2>2, TotalJoined
  <2>4. q.size = Total(WithinHour(rs, q.ts), num)
    BY DEF Follows, Counts
  <2>. HIDE DEF in
  <2>. QED  BY <1>1, <1>4, <1>8, <2>3, <2>4
<1>11. /\ \E i \in WithinHour(more, q.ts) : e.peak = more[i].x
       /\ \A i \in WithinHour(more, q.ts) : more[i].x <= e.peak
  <2>1. PICK k \in WithinHour(rs, q.ts) : q.peak = rs[k].x
    BY DEF Follows, Counts
  <2>2. \A i \in WithinHour(rs, q.ts) : rs[i].x <= q.peak
    BY DEF Follows, Counts
  <2>3. \A i \in WithinHour(rs, q.ts) : more[i].x = rs[i].x /\ rs[i].x \in Nat
    BY <1>2, <1>9
  <2>. HIDE DEF n, x, in
  <2>4. CASE in /\ x > q.peak
    <3>1. WithinHour(more, q.ts) = WithinHour(rs, q.ts) \cup {n + 1} /\ e.peak = x
      BY <1>4, <1>8, <2>4
    <3>2. \A i \in WithinHour(rs, q.ts) : more[i].x <= x
      BY <1>1, <1>3, <2>2, <2>3, <2>4
    <3>. QED  BY <1>1, <1>2, <3>1, <3>2
  <2>5. CASE ~ (in /\ x > q.peak)
    <3>1. e.peak = q.peak
      BY <1>4, <2>5
    <3>2. \A i \in WithinHour(more, q.ts) : i \in WithinHour(rs, q.ts) \/ (i = n + 1 /\ in)
      BY <1>8
    <3>3. k \in WithinHour(more, q.ts)
      BY <1>8
    <3>4. \A i \in WithinHour(rs, q.ts) : more[i].x <= q.peak
      BY <2>2, <2>3
    <3>5. in => more[n + 1].x <= q.peak
      BY <1>1, <1>2, <1>3, <2>5
    <3>. QED  BY <2>1, <2>3, <3>1, <3>2, <3>3, <3>4, <3>5
  <2>. QED  BY <2>4, <2>5
<1>12. Counts(more, n2, e)
  BY <1>4, <1>10, <1>11 DEF Counts
<1>13. \E r \in (a - 1)..(n + 1) : Lasts(more, e, a, r)
  <2>1. RunTo(rs, a, t, q.duration) /\ (q.open <=> t = n)
    BY <1>6 DEF Lasts
  <2>2. IF t = n /\ x > 0 THEN RunTo(more, a, t + 1, q.duration + 1) ELSE RunTo(more, a, t, q.duration)
    BY <1>1, <1>3, <2>1, RunGoesOn
  <2>3. CASE t = n /\ x > 0
    <3>1. e.duration = q.duration + 1 /\ e.open = TRUE
      BY <1>4, <2>1, <2>3
    <3>2. RunTo(more, a, t + 1, e.duration) /\ t + 1 = Len(more) /\ t + 1 \in (a - 1)..(n + 1)
      BY <1>1, <2>2, <2>3, <3>1
    <3>. QED  BY <3>1, <3>2 DEF Lasts
  <2>4. CASE ~ (t = n /\ x > 0)
    <3>1. e.duration = q.duration /\ e.open = FALSE
      BY <1>3, <1>4, <2>1, <2>4
    <3>2. RunTo(more, a, t, e.duration) /\ t # Len(more) /\ t \in (a - 1)..(n + 1)
      BY <1>1, <2>2, <2>4, <3>1
    <3>. QED  BY <3>1, <3>2 DEF Lasts
  <2>. QED  BY <2>3, <2>4
<1>. QED  BY <1>1, <1>4, <1>7, <1>12, <1>13 DEF Follows

\* A burst begins with its element.
LEMMA BurstFollows ==
  ASSUME NEW rs, NEW more, NEW num, NEW n2, NEW ts, NEW b, b.outliers \in Nat, Rate(b) \in Nat,
         Comes(rs, more, num, n2, ts, Rate(b), b.outliers),
         lastRun \in Nat, Before(rs, Len(rs), lastRun), NEW q, q = Burst(ts, Rate(b), b)
  PROVE  IsBurst(q) /\ q.ts = ts /\ Follows(more, n2, q)
<1>. DEFINE n == Len(rs)
            x == Rate(b)
<1>1. /\ RateRows(rs) /\ RateRows(more) /\ OneLater(rs, more, x) /\ more[n + 1].ts = ts
      /\ ts \in Nat /\ x \in Nat /\ n \in Nat /\ Len(more) = n + 1 /\ more[n + 1].x = x
      /\ n2[n + 1] = b.outliers
  BY DEF Comes, RateRows, OneLater
<1>2. PICK l, o : l = (IF x > 0 THEN lastRun + 1 ELSE lastRun) /\ o = (x > 0)
  OBVIOUS
<1>3. q = [ts |-> ts, size |-> b.outliers, peak |-> x, open |-> o, duration |-> l]
  BY <1>2 DEF Burst
<1>4. l \in Nat /\ o \in BOOLEAN
  <2>. HIDE DEF x
  <2>. QED  BY <1>2
<1>5. /\ IsBurst(q) /\ q.ts = ts /\ q.size = b.outliers /\ q.peak = x /\ q.open = o /\ q.duration = l
  <2>. HIDE DEF x
  <2>. QED  BY <1>1, <1>3, <1>4 DEF IsBurst
<1>6. WithinHour(more, ts) = {n + 1}
  <2>1. \A i \in DOMAIN more : ts <= more[i].ts => i = n + 1
    <3>1. \A i \in DOMAIN more : i \in 1..Len(more) /\ (i = n + 1 \/ i < n + 1) /\ n + 1 \in 1..Len(more)
      BY <1>1 DEF RateRows
    <3>2. \A i \in DOMAIN more : i < n + 1 => more[i].ts < more[n + 1].ts
      BY <3>1, <1>1 DEF RateRows
    <3>3. \A i \in DOMAIN more : more[i].ts \in Nat
      BY <3>1, <1>1 DEF RateRows
    <3>. HIDE DEF n
    <3>. QED  BY <1>1, <3>1, <3>2, <3>3
  <2>2. n + 1 \in DOMAIN more /\ ts <= ts + Horizon
    BY <1>1, StreamAssumption DEF RateRows, Horizon
  <2>. QED  BY <1>1, <2>1, <2>2 DEF WithinHour
<1>7. Total({n + 1}, n2) = b.outliers
  <2>. HIDE DEF n
  <2>1. IsFiniteSet({}) /\ {} \cup {n + 1} = {n + 1}
    BY FS_EmptySet
  <2>2. Total({} \cup {n + 1}, n2) = Total({}, n2) + n2[n + 1]
    BY <1>1, <2>1, TotalJoined
  <2>3. Total({}, n2) = 0
    BY <2>1, TotalFacts
  <2>. QED  BY <1>1, <2>1, <2>2, <2>3
<1>8. Counts(more, n2, q)
  <2>. HIDE DEF n, x
  <2>. QED  BY <1>1, <1>5, <1>6, <1>7 DEF Counts
<1>9. \E t \in ((n + 1) - 1)..(n + 1) : Lasts(more, q, n + 1, t)
  <2>1. CASE x > 0
    <3>1. Before(more, n + 1, l)
      BY <1>1, <1>2, <2>1, BeforeGrows
    <3>2. Positive(more, n + 1, n + 1)
      BY <1>1, <2>1 DEF Positive
    <3>3. RunTo(more, n + 1, n + 1, l)
      BY <1>1, <3>1, <3>2 DEF RunTo
    <3>4. q.open = TRUE
      BY <1>2, <1>5, <2>1
    <3>. QED  BY <1>1, <1>5, <3>3, <3>4 DEF Lasts
  <2>2. CASE ~ (x > 0)
    <3>1. Before(more, n, l)
      BY <1>1, <1>2, <2>2, BeforeStays
    <3>2. Positive(more, n + 1, n)
      BY <1>1 DEF Positive
    <3>3. RunTo(more, n + 1, n, l)
      BY <1>1, <2>2, <3>1, <3>2 DEF RunTo
    <3>4. q.open = FALSE
      <4>. HIDE DEF x
      <4>1. o <=> x > 0
        BY <1>2
      <4>2. o = FALSE
        BY <1>4, <2>2, <4>1
      <4>. QED  BY <1>5, <4>2
    <3>. QED  BY <1>1, <1>5, <3>3, <3>4 DEF Lasts
  <2>. QED  BY <2>1, <2>2
<1>10. n + 1 \in 1..Len(more) /\ more[n + 1].ts = q.ts
  BY <1>1, <1>5
<1>. QED  BY <1>1, <1>5, <1>8, <1>9, <1>10 DEF Follows

\* Nothing is added to a burst that is out.
LEMMA FinishedStays ==
  ASSUME NEW q, IsBurst(q), NEW ts \in Nat, NEW b, q.ts + Horizon < ts, q.open = FALSE
  PROVE  Extended(q, ts, b) = q
<1>. DEFINE in == ts <= q.ts + Horizon
            x == Rate(b)
<1>1. Extended(q, ts, b) = [q EXCEPT !.size = IF in THEN @ + b.outliers ELSE @,
                !.peak = IF in /\ x > @ THEN x ELSE @,
                !.duration = IF q.open /\ x > 0 THEN @ + 1 ELSE @,
                !.open = @ /\ x > 0]
  BY DEF Extended
<1>2. ~ in
  <2>1. q.ts \in Nat /\ Horizon \in Nat
    BY StreamAssumption DEF IsBurst, Horizon
  <2>. QED  BY <2>1
<1>. HIDE DEF in, x
<1>3. (q.open /\ x > 0) = FALSE
  OBVIOUS
<1>4. Extended(q, ts, b) = [q EXCEPT !.size = q.size, !.peak = q.peak, !.duration = q.duration, !.open = FALSE]
  BY <1>1, <1>2, <1>3
<1>. QED  BY <1>4 DEF IsBurst

--------------------------------------------------------------------------------
(* The bursts waiting and out *)

\* The bins came one by one, and the elements are those with rounds.
BinsInv(arr, rs, now) ==
  /\ IsSeq(arr) /\ now \in Nat /\ Len(arr) = now
  /\ \A i \in 1..now : arr[i].ts = i /\ arr[i].outliers \in Nat
  /\ RateRows(rs) /\ \A i \in 1..Len(rs) : rs[i].ts \in 1..now

Waits(rs, num, q) ==
  IsBurst(q) /\ Follows(rs, num, q) /\ ~ Finished(q, rs[Len(rs)].ts)
Was(rs, num, q, b) ==
  b = BurstOut(q) /\ IsBurst(q) /\ Follows(rs, num, q) /\ Finished(q, rs[Len(rs)].ts)
IsOut(rs, num, b) == \E q : Was(rs, num, q, b)
TimesIn(B) == {b.ts : b \in B}

\* Each alarm has one burst, which waits or is out.
BurstsInv(rs, num, A, P, E) ==
  /\ A = TimesIn(P) \cup TimesIn(E) /\ TimesIn(P) \cap TimesIn(E) = {}
  /\ \A p, q \in P : p.ts = q.ts => p = q
  /\ \A q \in P : Waits(rs, num, q)
  /\ \A b \in E : IsOut(rs, num, b)
RunInv(rs, last) == last \in Nat /\ Before(rs, Len(rs), last)
RateInv ==
  kind = "rate" =>
    /\ BinsInv(arrived, rows, clock) /\ RunInv(rows, lastRun)
    /\ BurstsInv(rows, OutliersOf(arrived, rows), AlarmTimes, pending, emitted)

\* What an element makes of those waiting and those out.
MovesOn(P, E, ts, b, fired, X, Q, F) ==
  /\ X = {Extended(q, ts, b) : q \in P}
  /\ F = E \cup {BurstOut(q) : q \in {p \in X : Finished(p, ts)}}
  /\ Q = {q \in X : ~ Finished(q, ts)} \cup (IF fired THEN {Burst(ts, Rate(b), b)} ELSE {})

\* The bursts after an element: those waiting are extended, those finished are out, and
\* an alarm begins one.
LEMMA BurstsGoOn ==
  ASSUME NEW rs, NEW more, NEW num, NEW n2, NEW ts, NEW b, b.outliers \in Nat, Rate(b) \in Nat,
         Comes(rs, more, num, n2, ts, Rate(b), b.outliers), RunInv(rs, lastRun),
         NEW A, NEW P, NEW E, BurstsInv(rs, num, A, P, E), NEW fired \in BOOLEAN,
         NEW C, Alarms1(A, C, fired, ts),
         NEW X, NEW Q, NEW F, MovesOn(P, E, ts, b, fired, X, Q, F)
  PROVE  BurstsInv(more, n2, C, Q, F)
<1>1. more[Len(more)].ts = ts /\ ts \in Nat /\ RateRows(rs)
  BY DEF Comes, OneLater
<1>2. ASSUME NEW q \in P
      PROVE  /\ IsBurst(q) /\ Follows(rs, num, q)
             /\ IsBurst(Extended(q, ts, b)) /\ Extended(q, ts, b).ts = q.ts /\ q.ts < ts
             /\ Follows(more, n2, Extended(q, ts, b))
  <2>1. IsBurst(q) /\ Follows(rs, num, q)
    BY DEF BurstsInv, Waits
  <2>. QED  BY <2>1, ExtendedFollows
<1>3. PICK o : o = Burst(ts, Rate(b), b)
  OBVIOUS
<1>4. IsBurst(o) /\ o.ts = ts /\ Follows(more, n2, o) /\ ~ Finished(o, ts)
  <2>1. IsBurst(o) /\ o.ts = ts /\ Follows(more, n2, o)
    BY <1>3, BurstFollows DEF RunInv
  <2>2. ~ (ts > ts + Horizon)
    BY <1>1, StreamAssumption DEF Horizon
  <2>. QED  BY <2>1, <2>2 DEF Finished
<1>5. ASSUME NEW e \in E
      PROVE  IsOut(more, n2, e) /\ e.ts < ts
  <2>1. PICK q : Was(rs, num, q, e)
    BY DEF BurstsInv, IsOut
  <2>2. /\ e = BurstOut(q) /\ IsBurst(q) /\ Follows(rs, num, q)
        /\ rs[Len(rs)].ts > q.ts + Horizon /\ ~ q.open
    BY <2>1 DEF Was, Finished
  <2>3. q.ts \in Nat /\ Horizon \in Nat /\ q.open \in BOOLEAN
    BY <2>2, StreamAssumption DEF IsBurst, Horizon
  <2>4. rs[Len(rs)].ts \in Nat /\ rs[Len(rs)].ts < ts
    <3>1. PICK a \in 1..Len(rs) : rs[a].ts = q.ts
      BY <2>2 DEF Follows
    <3>2. Len(rs) \in Nat /\ Len(rs) \in 1..Len(rs)
      BY <1>1, <3>1 DEF RateRows
    <3>3. /\ RateRows(more) /\ Len(more) = Len(rs) + 1 /\ more[Len(rs)] = rs[Len(rs)]
          /\ more[Len(rs) + 1].ts = ts
      BY <3>2 DEF Comes, OneLater
    <3>4. Len(rs) \in 1..Len(more) /\ Len(rs) + 1 \in 1..Len(more) /\ Len(rs) < Len(rs) + 1
      BY <3>2, <3>3
    <3>5. more[Len(rs)].ts < more[Len(rs) + 1].ts /\ more[Len(rs)].ts \in Nat
      BY <3>3, <3>4 DEF RateRows
    <3>. QED  BY <3>3, <3>5
  <2>5. q.ts + Horizon < ts /\ q.ts < ts
    BY <1>1, <2>2, <2>3, <2>4
  <2>6. Extended(q, ts, b) = q
    BY <1>1, <2>2, <2>3, <2>5, FinishedStays
  <2>7. Follows(more, n2, q)
    <3>1. Follows(more, n2, Extended(q, ts, b))
      BY <2>2, ExtendedFollows
    <3>. QED  BY <2>6, <3>1
  <2>8. Finished(q, ts)
    BY <2>2, <2>5 DEF Finished
  <2>9. Was(more, n2, q, e)
    BY <1>1, <2>2, <2>7, <2>8, Zenon DEF Was
  <2>10. e.ts = q.ts
    BY <2>2 DEF BurstOut
  <2>. QED  BY <2>5, <2>9, <2>10 DEF IsOut
<1>6. ASSUME NEW p \in X
      PROVE  /\ IsBurst(p) /\ Follows(more, n2, p) /\ p.ts < ts /\ p.ts \in TimesIn(P)
             /\ BurstOut(p).ts = p.ts
  <2>1. PICK q \in P : p = Extended(q, ts, b)
    BY DEF MovesOn
  <2>. QED  BY <1>2, <2>1 DEF BurstOut, TimesIn
<1>7. \A p, q \in X : p.ts = q.ts => p = q
  <2>. SUFFICES ASSUME NEW p \in X, NEW q \in X, p.ts = q.ts PROVE p = q
    OBVIOUS
  <2>1. PICK m \in P, k \in P : p = Extended(m, ts, b) /\ q = Extended(k, ts, b)
    BY DEF MovesOn
  <2>2. m.ts = k.ts
    BY <1>2, <2>1
  <2>3. m = k
    BY <2>2 DEF BurstsInv
  <2>. QED  BY <2>1, <2>3
<1>8. TimesIn(X) = TimesIn(P)
  <2>1. \A q \in P : Extended(q, ts, b) \in X /\ Extended(q, ts, b).ts = q.ts
    BY <1>2 DEF MovesOn
  <2>2. TimesIn(X) \subseteq TimesIn(P)
    BY <1>6, Zenon DEF TimesIn
  <2>3. TimesIn(P) \subseteq TimesIn(X)
    BY <2>1, Zenon DEF TimesIn
  <2>. QED  BY <2>2, <2>3
<1>9. ASSUME NEW q
      PROVE  q \in Q <=> (q \in X /\ ~ Finished(q, ts)) \/ (fired /\ q = o)
  BY <1>3 DEF MovesOn
<1>10. ASSUME NEW e
       PROVE  e \in F <=> e \in E \/ \E q \in X : Finished(q, ts) /\ e = BurstOut(q)
  BY Zenon DEF MovesOn
<1>11. \A q \in Q : Waits(more, n2, q)
  BY <1>1, <1>4, <1>6, <1>9, Zenon DEF Waits
<1>12. \A e \in F : IsOut(more, n2, e)
  <2>1. ASSUME NEW q \in X, Finished(q, ts)
        PROVE  IsOut(more, n2, BurstOut(q))
    <3>1. Was(more, n2, q, BurstOut(q))
      BY <1>1, <1>6, <2>1, Zenon DEF Was
    <3>. QED  BY <3>1, Zenon DEF IsOut
  <2>. QED  BY <1>5, <1>10, <2>1, Zenon
<1>13. \A p, q \in Q : p.ts = q.ts => p = q
  <2>1. \A p \in X : p.ts # ts
    <3>1. \A p \in X : p.ts < ts /\ p.ts \in Nat
      BY <1>6 DEF IsBurst
    <3>. QED  BY <1>1, <3>1
  <2>. SUFFICES ASSUME NEW p \in Q, NEW q \in Q, p.ts = q.ts PROVE p = q
    OBVIOUS
  <2>2. (p \in X \/ p = o) /\ (q \in X \/ q = o)
    BY <1>9, Zenon
  <2>. QED  BY <1>4, <1>7, <2>1, <2>2, Zenon
<1>14. \A p \in X : p.ts \in Nat /\ p.ts # ts
  <2>1. \A p \in X : p.ts < ts /\ p.ts \in Nat
    BY <1>6 DEF IsBurst
  <2>. QED  BY <1>1, <2>1
<1>15. \A e \in E : e.ts # ts
  <2>1. ASSUME NEW e \in E
        PROVE  e.ts # ts
    <3>1. e.ts < ts
      BY <1>5
    <3>. QED  BY <1>1, <3>1
  <2>. QED  BY <2>1
<1>16. A = TimesIn(X) \cup TimesIn(E) /\ TimesIn(X) \cap TimesIn(E) = {}
  BY <1>8 DEF BurstsInv
<1>17. TimesIn(Q) \cap TimesIn(F) = {}
  <2>. SUFFICES ASSUME NEW q \in Q, NEW e \in F, q.ts = e.ts PROVE FALSE
    BY Zenon DEF TimesIn
  <2>1. CASE q \in X /\ ~ Finished(q, ts)
    <3>1. CASE e \in E
      <4>1. q.ts \in TimesIn(X) /\ e.ts \in TimesIn(E)
        BY <2>1, <3>1, Zenon DEF TimesIn
      <4>. QED  BY <1>16, <4>1
    <3>2. ASSUME NEW p \in X, Finished(p, ts), e = BurstOut(p)
          PROVE  FALSE
      <4>1. q.ts = p.ts
        BY <1>6, <3>2
      <4>. QED  BY <1>7, <2>1, <3>2, <4>1
    <3>. QED  BY <1>10, <3>1, <3>2, Zenon
  <2>2. CASE q = o
    <3>1. CASE e \in E
      BY <1>4, <1>15, <2>2, <3>1
    <3>2. ASSUME NEW p \in X, e = BurstOut(p)
          PROVE  FALSE
      BY <1>4, <1>6, <1>14, <2>2, <3>2
    <3>. QED  BY <1>10, <3>1, <3>2, Zenon
  <2>. QED  BY <1>9, <2>1, <2>2, Zenon
<1>18. C = TimesIn(Q) \cup TimesIn(F)
  <2>1. ASSUME NEW t
        PROVE  t \in TimesIn(Q) \cup TimesIn(F) <=> t \in A \/ (fired /\ t = ts)
    <3>1. t \in A <=> (\E p \in X : t = p.ts) \/ (\E e \in E : t = e.ts)
      BY <1>16 DEF TimesIn
    <3>2. t \in TimesIn(Q) \cup TimesIn(F) <=> (\E q \in Q : t = q.ts) \/ (\E e \in F : t = e.ts)
      BY DEF TimesIn
    <3>3. (\E e \in F : t = e.ts) <=> (\E e \in E : t = e.ts) \/ (\E p \in X : Finished(p, ts) /\ t = p.ts)
      <4>1. \A p \in X : BurstOut(p).ts = p.ts
        BY <1>6
      <4>2. (\E e \in F : t = e.ts) => (\E e \in E : t = e.ts) \/ (\E p \in X : Finished(p, ts) /\ t = p.ts)
        <5>. SUFFICES ASSUME NEW e \in F, t = e.ts
                      PROVE  (\E d \in E : t = d.ts) \/ (\E p \in X : Finished(p, ts) /\ t = p.ts)
          OBVIOUS
        <5>1. e \in E \/ \E q \in X : Finished(q, ts) /\ e = BurstOut(q)
          BY <1>10
        <5>. QED  BY <4>1, <5>1, Zenon
      <4>3. \A e \in E : e \in F
        BY <1>10
      <4>4. \A p \in X : Finished(p, ts) => BurstOut(p) \in F
        BY <1>10
      <4>. QED  BY <4>1, <4>2, <4>3, <4>4, Zenon
    <3>4. (\E q \in Q : t = q.ts) <=> (\E p \in X : ~ Finished(p, ts) /\ t = p.ts) \/ (fired /\ t = ts)
      BY <1>4, <1>9, Zenon
    <3>. QED  BY <3>1, <3>2, <3>3, <3>4, Zenon
  <2>2. C = IF fired THEN A \cup {ts} ELSE A
    BY DEF Alarms1
  <2>. QED  BY <2>1, <2>2
<1>. QED  BY <1>11, <1>12, <1>13, <1>17, <1>18 DEF BurstsInv

\* A bin has a number of outliers.
LEMMA BinHas ==
  ASSUME NEW b \in Bins
  PROVE  b.outliers \in Nat
BY StreamAssumption

\* The outliers of an element stay when a bin comes.
LEMMA OutliersStay ==
  ASSUME NEW arr, NEW rs, NEW now, BinsInv(arr, rs, now), NEW e, NEW longer, OneMore(arr, longer, e),
         e.ts = now + 1, e.outliers \in Nat
  PROVE  /\ BinsInv(longer, rs, now + 1) /\ OutliersOf(longer, rs) = OutliersOf(arr, rs)
         /\ longer[now + 1] = e
<1>1. /\ IsSeq(longer) /\ now \in Nat /\ Len(arr) = now /\ Len(longer) = now + 1
      /\ (\A i \in 1..now : longer[i] = arr[i] /\ arr[i].ts = i /\ arr[i].outliers \in Nat)
      /\ longer[now + 1] = e
      /\ RateRows(rs) /\ \A i \in 1..Len(rs) : rs[i].ts \in 1..now
  BY DEF BinsInv, OneMore
<1>2. \A i \in 1..(now + 1) : i \in 1..now \/ i = now + 1
  BY <1>1
<1>3. \A i \in 1..Len(rs) : rs[i].ts \in 1..(now + 1)
  BY <1>1
<1>4. OutliersOf(longer, rs) = OutliersOf(arr, rs)
  BY <1>1 DEF OutliersOf
<1>. QED  BY <1>1, <1>2, <1>3, <1>4 DEF BinsInv

\* The bin that comes is an element.
LEMMA ElementComes ==
  ASSUME NEW arr, NEW rs, NEW now \in Nat, BinsInv(arr, rs, now + 1), \A i \in 1..Len(rs) : rs[i].ts \in 1..now,
         NEW x \in Nat, NEW more, OneMore(rs, more, [ts |-> now + 1, x |-> x])
  PROVE  /\ BinsInv(arr, more, now + 1)
         /\ Comes(rs, more, OutliersOf(arr, rs), OutliersOf(arr, more), now + 1, x, arr[now + 1].outliers)
<1>1. PICK e : e = [ts |-> now + 1, x |-> x]
  OBVIOUS
<1>2. e.ts = now + 1 /\ e.x = x /\ OneMore(rs, more, e)
  BY <1>1
<1>3. /\ Len(rs) \in Nat /\ Len(more) = Len(rs) + 1 /\ DOMAIN more = 1..Len(more)
      /\ (\A i \in 1..Len(rs) : more[i] = rs[i]) /\ more[Len(rs) + 1] = e
  BY <1>2 DEF OneMore
<1>4. /\ IsSeq(arr) /\ Len(arr) = now + 1 /\ RateRows(rs)
      /\ \A i \in 1..(now + 1) : arr[i].ts = i /\ arr[i].outliers \in Nat
  BY DEF BinsInv
<1>5. PICK n : n = Len(rs)
  OBVIOUS
<1>6. \A i \in 1..(n + 1) : i \in 1..n \/ i = n + 1
  BY <1>3, <1>5
<1>7. \A i \in 1..n : rs[i].ts \in Nat /\ rs[i].x \in Nat /\ rs[i].ts < now + 1
  BY <1>4, <1>5 DEF RateRows
<1>8. RateRows(more)
  <2>1. \A i \in 1..(n + 1) : more[i].ts \in Nat /\ more[i].x \in Nat
    BY <1>2, <1>3, <1>5, <1>6, <1>7
  <2>2. ASSUME NEW i \in 1..(n + 1), NEW j \in 1..(n + 1), i < j
        PROVE  more[i].ts < more[j].ts
    <3>1. i \in 1..n
      BY <1>3, <1>5, <2>2
    <3>2. CASE j \in 1..n
      BY <1>3, <1>4, <1>5, <2>2, <3>1, <3>2 DEF RateRows
    <3>3. CASE j = n + 1
      BY <1>2, <1>3, <1>5, <1>7, <3>1, <3>3
    <3>. QED  BY <1>6, <3>2, <3>3
  <2>. QED  BY <1>3, <1>5, <2>1, <2>2 DEF RateRows
<1>9. \A i \in 1..Len(more) : more[i].ts \in 1..(now + 1)
  BY <1>2, <1>3, <1>5, <1>6
<1>10. OneLater(rs, more, x) /\ more[Len(rs) + 1].ts = now + 1
  BY <1>2, <1>3 DEF OneLater
<1>11. ASSUME NEW i \in 1..Len(rs)
       PROVE  OutliersOf(arr, rs)[i] \in Nat /\ OutliersOf(arr, more)[i] = OutliersOf(arr, rs)[i]
  <2>1. i \in 1..Len(more) /\ more[i] = rs[i] /\ rs[i].ts \in 1..(now + 1)
    BY <1>3
  <2>. QED  BY <1>4, <2>1 DEF OutliersOf
<1>12. OutliersOf(arr, more)[Len(rs) + 1] = arr[now + 1].outliers /\ arr[now + 1].outliers \in Nat
  <2>1. Len(rs) + 1 \in 1..Len(more) /\ now + 1 \in 1..(now + 1)
    BY <1>3
  <2>. QED  BY <1>2, <1>3, <1>4, <2>1 DEF OutliersOf
<1>13. now + 1 \in Nat
  OBVIOUS
<1>14. BinsInv(arr, more, now + 1)
  BY <1>4, <1>8, <1>9, <1>13 DEF BinsInv
<1>15. Comes(rs, more, OutliersOf(arr, rs), OutliersOf(arr, more), now + 1, x, arr[now + 1].outliers)
  BY <1>4, <1>8, <1>10, <1>11, <1>12, <1>13 DEF Comes
<1>. QED  BY <1>14, <1>15

\* Before the first bin there is no burst.
LEMMA RateInitially == LayersInit => RateInv
<1>. SUFFICES ASSUME Init
              PROVE  /\ BinsInv(arrived, rows, clock) /\ RunInv(rows, lastRun)
                     /\ BurstsInv(rows, OutliersOf(arrived, rows), AlarmTimes, pending, emitted)
  BY DEF LayersInit, RateInv
<1>1. arrived = <<>> /\ rows = <<>> /\ clock = 0 /\ lastRun = 0 /\ pending = {} /\ emitted = {} /\ events = <<>>
  BY DEF Init
<1>2. IsSeq(<<>>) /\ DOMAIN <<>> = {} /\ Len(<<>>) = 0
  BY EmptySeq DEF IsSeq
<1>3. AlarmTimes = {}
  BY <1>1, <1>2 DEF AlarmTimes, Alarmed, ToSet
<1>4. BinsInv(arrived, rows, clock)
  BY <1>1, <1>2 DEF BinsInv, RateRows
<1>5. Run(<<>>, 1, 0)
  BY DEF Run, Positive
<1>6. Before(<<>>, 0, 0)
  <2>1. 1 \in 1..(0 + 1) /\ 0 = 0 - 1 + 1
    OBVIOUS
  <2>. QED  BY <1>5, <2>1, Zenon DEF Before
<1>7. RunInv(rows, lastRun)
  BY <1>1, <1>2, <1>6 DEF RunInv
<1>8. BurstsInv(rows, OutliersOf(arrived, rows), AlarmTimes, pending, emitted)
  BY <1>1, <1>3 DEF BurstsInv, TimesIn
<1>. QED  BY <1>4, <1>7, <1>8

\* Every bin keeps it, whether it is an element or not.
LEMMA BinKeeps ==
  ASSUME DriftInv, RateInv, NEW b \in Bins, OutlierBin(b)
  PROVE  RateInv'
<1>. DEFINE ts == clock + 1
            e == [ts |-> ts, outliers |-> b.outliers, admitted |-> b.admitted]
<1>1. /\ kind = "rate" /\ kind' = "rate" /\ clock' = ts /\ arrived' = Append(arrived, e)
      /\ IF b.admitted = 0 THEN UNCHANGED <<stream, bursts>> ELSE RateElement(ts, Rate(b), b)
  BY DEF OutlierBin, Arrives
<1>2. e.ts = ts /\ e.outliers = b.outliers /\ b.outliers \in Nat
  BY BinHas
<1>. HIDE DEF e
<1>3. /\ BinsInv(arrived, rows, clock) /\ RunInv(rows, lastRun)
      /\ BurstsInv(rows, OutliersOf(arrived, rows), AlarmTimes, pending, emitted)
      /\ clock \in Nat
  BY <1>1 DEF RateInv, BinsInv
<1>4. OneMore(arrived, arrived', e)
  BY <1>1, <1>3, Appended DEF BinsInv
<1>5. /\ BinsInv(arrived', rows, ts) /\ OutliersOf(arrived', rows) = OutliersOf(arrived, rows)
      /\ arrived'[ts] = e
  BY <1>2, <1>3, <1>4, OutliersStay
<1>6. CASE b.admitted = 0
  <2>1. UNCHANGED <<rows, lastRun, pending, emitted>> /\ AlarmTimes' = AlarmTimes
    BY <1>1, <1>6 DEF stream, bursts, AlarmTimes, Alarmed
  <2>2. BinsInv(arrived', rows', clock') /\ RunInv(rows', lastRun')
    BY <1>1, <1>3, <1>5, <2>1
  <2>3. BurstsInv(rows', OutliersOf(arrived', rows'), AlarmTimes', pending', emitted')
    BY <1>3, <1>5, <2>1
  <2>. QED  BY <2>2, <2>3 DEF RateInv
<1>7. CASE b.admitted # 0
  <2>. DEFINE x == Rate(b)
  <2>1. x \in Nat /\ ts \in Nat
    BY <1>3, <1>7, RateIsNumber
  <2>2. RateElement(ts, x, b)
    BY <1>1, <1>7
  <2>3. PICK u : u = Update(det, x)
    OBVIOUS
  <2>4. PICK X : X = {Extended(q, ts, b) : q \in pending}
    OBVIOUS
  <2>5. /\ FeedGate(ts, x, u)
        /\ emitted' = emitted \cup {BurstOut(q) : q \in {p \in X : Finished(p, ts)}}
        /\ pending' = {q \in X : ~ Finished(q, ts)}
                        \cup (IF u.alarm = NoAlarm THEN {} ELSE {Burst(ts, x, b)})
        /\ lastRun' = IF x > 0 THEN lastRun + 1 ELSE 0
    <3>. HIDE DEF ts, x
    <3>. QED  BY <2>2, <2>3, <2>4, Zenon DEF RateElement
  <2>6. Feed(ts, x)
    BY <2>3, <2>5, Zenon DEF Feed
  <2>7. FeedInv /\ \A i \in DOMAIN rows : rows[i].ts < ts
    <3>1. \A i \in DOMAIN rows : rows[i].ts \in Nat /\ rows[i].ts <= clock
      BY <1>1 DEF DriftInv, ClockInv, FeedInv, RowsInv
    <3>. QED  BY <1>3, <3>1 DEF DriftInv
  <2>8. PICK c, h : c = Check(gate, ts, x) /\ h = Candidate(c.gate, ts, u.alarm)
    OBVIOUS
  <2>. HIDE DEF x
  <2>9. Grown(ts, x, u, c, h)
    BY <2>1, <2>3, <2>6, <2>7, <2>8, FeedGrows, Zenon
  <2>10. PICK fired : fired = (u.alarm # NoAlarm)
    OBVIOUS
  <2>11. Alarms1(AlarmTimes, AlarmTimes', fired, ts) /\ fired \in BOOLEAN /\ OneLater(rows, rows', x)
    BY <2>9, <2>10, Zenon DEF Grown
  <2>12. OneMore(rows, rows', [ts |-> ts, x |-> x])
    <3>1. GateInv(rows, events, gate) /\ IsSeq(rows)
      BY <2>7 DEF FeedInv, RowsInv
    <3>2. rows' = Append(rows, [ts |-> ts, x |-> x])
      BY <2>3, <2>6, <2>8, <3>1, FeedDoes, Zenon
    <3>. QED  BY <3>1, <3>2, Appended
  <2>13. /\ BinsInv(arrived', rows', ts)
         /\ Comes(rows, rows', OutliersOf(arrived', rows), OutliersOf(arrived', rows'), ts, x, b.outliers)
    <3>1. \A i \in 1..Len(rows) : rows[i].ts \in 1..clock
      BY <1>3 DEF BinsInv
    <3>2. /\ BinsInv(arrived', rows', ts)
          /\ Comes(rows, rows', OutliersOf(arrived', rows), OutliersOf(arrived', rows'), ts, x, arrived'[ts].outliers)
      BY <1>3, <1>5, <2>1, <2>12, <3>1, ElementComes
    <3>. QED  BY <1>2, <1>5, <3>2
  <2>14. pending' = {q \in X : ~ Finished(q, ts)} \cup (IF fired THEN {Burst(ts, x, b)} ELSE {})
    BY <2>5, <2>10
  <2>15. BurstsInv(rows', OutliersOf(arrived', rows'), AlarmTimes', pending', emitted')
    <3>1. BurstsInv(rows, OutliersOf(arrived', rows), AlarmTimes, pending, emitted)
      BY <1>3, <1>5
    <3>2. Rate(b) \in Nat /\ b.outliers \in Nat
      BY <1>2, <2>1 DEF x
    <3>3. /\ Comes(rows, rows', OutliersOf(arrived', rows), OutliersOf(arrived', rows'), ts, Rate(b), b.outliers)
          /\ pending' = {q \in X : ~ Finished(q, ts)} \cup (IF fired THEN {Burst(ts, Rate(b), b)} ELSE {})
      BY <2>13, <2>14 DEF x
    <3>4. PICK t, rs, more, num, n2, A, C, P, E, Q, F :
            /\ t = ts /\ rs = rows /\ more = rows' /\ A = AlarmTimes /\ C = AlarmTimes'
            /\ num = OutliersOf(arrived', rows) /\ n2 = OutliersOf(arrived', rows')
            /\ P = pending /\ E = emitted /\ Q = pending' /\ F = emitted'
      OBVIOUS
    <3>. HIDE DEF ts, AlarmTimes
    <3>5. MovesOn(P, E, t, b, fired, X, Q, F)
      BY <2>4, <2>5, <3>3, <3>4, Zenon DEF MovesOn
    <3>6. /\ Comes(rs, more, num, n2, t, Rate(b), b.outliers) /\ RunInv(rs, lastRun)
          /\ BurstsInv(rs, num, A, P, E) /\ Alarms1(A, C, fired, t)
      <4>1. Comes(rs, more, num, n2, t, Rate(b), b.outliers)
        BY <3>3, <3>4, Zenon
      <4>2. RunInv(rs, lastRun)
        BY <1>3, <3>4, Zenon
      <4>3. BurstsInv(rs, num, A, P, E)
        BY <3>1, <3>4, Zenon
      <4>4. Alarms1(A, C, fired, t)
        BY <2>11, <3>4, Zenon
      <4>. QED  BY <4>1, <4>2, <4>3, <4>4
    <3>7. BurstsInv(more, n2, C, Q, F)
      BY <2>11, <3>2, <3>5, <3>6, BurstsGoOn
    <3>. QED  BY <3>4, <3>7, Zenon
  <2>16. RunInv(rows', lastRun')
    <3>1. lastRun \in Nat /\ Before(rows, Len(rows), lastRun)
      BY <1>3 DEF RunInv
    <3>2. Len(rows') = Len(rows) + 1
      BY <2>11 DEF OneLater
    <3>3. /\ x > 0 => Before(rows', Len(rows) + 1, lastRun + 1)
          /\ ~ (x > 0) => Before(rows', Len(rows) + 1, 0)
      BY <2>1, <2>11, <3>1, BeforeGrows
    <3>. QED  BY <2>5, <3>1, <3>2, <3>3 DEF RunInv
  <2>. QED  BY <1>1, <2>13, <2>15, <2>16 DEF RateInv
<1>. QED  BY <1>6, <1>7

\* Every step keeps it.
LEMMA RateStep ==
  DriftInv /\ RateInv /\ [LayersNext]_<<vars, dayVars>> => RateInv'
<1>. SUFFICES ASSUME DriftInv, RateInv, [LayersNext]_<<vars, dayVars>>
              PROVE  RateInv'
  OBVIOUS
<1>1. CASE Nothing
  BY <1>1 DEF Nothing, RateInv
<1>2. ASSUME NEW x \in Values, ScoreWindow(x) \/ HourWindow(x)
      PROVE  RateInv'
  BY <1>2 DEF ScoreWindow, HourWindow, RateInv
<1>3. CASE HourTimer
  BY <1>3 DEF HourTimer, RateInv
<1>4. ASSUME NEW b \in Bins, OutlierBin(b)
      PROVE  RateInv'
  BY <1>4, BinKeeps
<1>5. CASE UNCHANGED vars
  BY <1>5 DEF vars, RateInv, AlarmTimes, Alarmed
<1>6. CASE Next
  BY <1>1, <1>2, <1>3, <1>4, <1>6, Zenon DEF Next
<1>. QED  BY <1>5, <1>6, Zenon DEF LayersNext

--------------------------------------------------------------------------------
(* The bursts of the offline script *)

\* The outliers of the bins, as the offline script takes them.
OutliersAt(t) == arrived[CHOOSE i \in {k \in DOMAIN arrived : arrived[k].ts = t} : TRUE].outliers

\* In the order of time the bin of a time is the one at its place.
LEMMA OutliersAre ==
  ASSUME BinsInv(arrived, rows, clock), NEW i \in 1..Len(rows)
  PROVE  OutliersAt(rows[i].ts) = OutliersOf(arrived, rows)[i] /\ OutliersOf(arrived, rows)[i] \in Nat
<1>1. PICK t : t = rows[i].ts
  OBVIOUS
<1>2. t \in 1..clock /\ DOMAIN arrived = 1..clock /\ \A k \in 1..clock : arrived[k].ts = k /\ arrived[k].outliers \in Nat
  BY <1>1, SeqDomain DEF BinsInv
<1>3. \A k : k \in {l \in DOMAIN arrived : arrived[l].ts = t} <=> k = t
  BY <1>2
<1>4. (CHOOSE k \in {l \in DOMAIN arrived : arrived[l].ts = t} : TRUE) = t
  BY <1>3
<1>5. OutliersAt(t) = arrived[t].outliers
  BY <1>4 DEF OutliersAt
<1>6. OutliersOf(arrived, rows)[i] = arrived[t].outliers
  BY <1>1 DEF OutliersOf
<1>. QED  BY <1>1, <1>2, <1>5, <1>6

\* Its sum is that of the numbers.
LEMMA SizeIs ==
  ASSUME NEW S, NEW v, \A i \in S : OutliersAt(rows[i].ts) = v[i]
  PROVE  MapThenSumSet(LAMBDA i : OutliersAt(rows[i].ts), S) = Total(S, v)
<1>. DEFINE w(i) == OutliersAt(rows[i].ts)
            P(g) == g = [s \in SUBSET S |->
                          IF s = {} THEN 0
                          ELSE w(CHOOSE x \in s : TRUE) + g[s \ {CHOOSE x \in s : TRUE}]]
            Q(g) == g = [s \in SUBSET S |->
                          IF s = {} THEN 0
                          ELSE v[CHOOSE x \in s : TRUE] + g[s \ {CHOOSE x \in s : TRUE}]]
<1>1. \A i \in S : w(i) = v[i]
  OBVIOUS
<1>2. MapThenSumSet(w, S) = (CHOOSE g : P(g))[S]
  <2>. HIDE DEF w
  <2>. QED  BY DEF MapThenSumSet, MapThenFoldSet
<1>3. Total(S, v) = (CHOOSE g : Q(g))[S]
  BY DEF Total, MapThenSumSet, MapThenFoldSet
<1>4. MapThenSumSet(LAMBDA i : OutliersAt(rows[i].ts), S) = MapThenSumSet(w, S)
  OBVIOUS
<1>. HIDE DEF w
<1>5. \A s \in SUBSET S : s # {} => v[CHOOSE x \in s : TRUE] = w(CHOOSE x \in s : TRUE)
  <2>1. \A s \in SUBSET S : s # {} => (CHOOSE x \in s : TRUE) \in S
    OBVIOUS
  <2>. QED  BY <1>1, <2>1
<1>6. \A g : P(g) <=> Q(g)
  <2>. SUFFICES ASSUME NEW g PROVE P(g) <=> Q(g)
    OBVIOUS
  <2>1. [s \in SUBSET S |->
                          IF s = {} THEN 0
                          ELSE w(CHOOSE x \in s : TRUE) + g[s \ {CHOOSE x \in s : TRUE}]]
        = [s \in SUBSET S |->
                          IF s = {} THEN 0
                          ELSE v[CHOOSE x \in s : TRUE] + g[s \ {CHOOSE x \in s : TRUE}]]
    BY <1>5
  <2>. QED  BY <2>1
<1>7. (CHOOSE g : P(g)) = (CHOOSE g : Q(g))
  <2>. HIDE DEF P, Q
  <2>. QED  BY <1>6
<1>. HIDE DEF P, Q
<1>. QED  BY <1>2, <1>3, <1>4, <1>7

\* What follows a burst is what the offline script counts.
LEMMA BurstIs ==
  ASSUME BinsInv(arrived, rows, clock), NEW c \in Alarmed, NEW q, IsBurst(q), q.ts = c.ts,
         Follows(rows, OutliersOf(arrived, rows), q)
  PROVE  BurstOut(q) \in Bursts
<1>. DEFINE S == WithinHour(rows, c.ts)
            num == OutliersOf(arrived, rows)
            size == MapThenSumSet(LAMBDA i : OutliersAt(rows[i].ts), S)
            peak == Max({rows[i].x : i \in S})
            out == [ts |-> c.ts, size |-> size, peak |-> peak, duration |-> RunLength(IndexOf(c.ts))]
<1>1. RateRows(rows) /\ Len(rows) \in Nat /\ DOMAIN rows = 1..Len(rows)
  BY DEF BinsInv, RateRows
<1>2. PICK a \in 1..Len(rows) : rows[a].ts = q.ts /\ \E t \in (a - 1)..Len(rows) : Lasts(rows, q, a, t)
  BY DEF Follows
<1>3. PICK t \in (a - 1)..Len(rows) : RunTo(rows, a, t, q.duration)
  BY <1>2 DEF Lasts
<1>4. IndexOf(c.ts) = a
  <2>1. \A i, j \in 1..Len(rows) : rows[i].ts = rows[j].ts => i = j
    <3>. SUFFICES ASSUME NEW i \in 1..Len(rows), NEW j \in 1..Len(rows), rows[i].ts = rows[j].ts
                  PROVE  i = j
      OBVIOUS
    <3>1. rows[i].ts \in Nat /\ rows[j].ts \in Nat
      BY <1>1 DEF RateRows
    <3>2. ~ (i < j) /\ ~ (j < i)
      BY <1>1, <3>1 DEF RateRows
    <3>. QED  BY <3>2
  <2>2. \A i \in DOMAIN rows : rows[i].ts = c.ts <=> i = a
    BY <1>1, <1>2, <2>1
  <2>3. a \in DOMAIN rows
    BY <1>1
  <2>. QED  BY <2>2, <2>3 DEF IndexOf
<1>5. RunLength(a) = q.duration
  BY <1>1, <1>3, RunIs
<1>6. size = q.size
  <2>1. S \subseteq 1..Len(rows)
    BY <1>1 DEF WithinHour
  <2>2. \A i \in S : OutliersAt(rows[i].ts) = num[i]
    BY <2>1, OutliersAre
  <2>. HIDE DEF S, num
  <2>3. size = Total(S, num)
    BY <2>2, SizeIs
  <2>4. q.size = Total(S, num)
    BY DEF Follows, Counts, S, num
  <2>. QED  BY <2>3, <2>4
<1>7. peak = q.peak
  <2>1. /\ \E i \in S : q.peak = rows[i].x
        /\ \A i \in S : rows[i].x <= q.peak
    BY DEF Follows, Counts
  <2>2. \A i \in S : rows[i].x \in Nat
    BY <1>1 DEF WithinHour, RateRows
  <2>. HIDE DEF S
  <2>3. {rows[i].x : i \in S} \in SUBSET Int /\ q.peak \in {rows[i].x : i \in S}
    BY <2>1, <2>2
  <2>4. \A y \in {rows[i].x : i \in S} : q.peak >= y
    BY <2>1, <2>2
  <2>. QED  BY <2>3, <2>4, LargestIs
<1>8. BurstOut(q) = out
  <2>. HIDE DEF size, peak
  <2>. QED  BY <1>4, <1>5, <1>6, <1>7 DEF BurstOut
<1>9. out \in Bursts
  BY DEF Bursts, OutliersAt, WithinHour
<1>. QED  BY <1>8, <1>9

\* In every run of a device whose outlier rates are watched, whatever the bins, the unit of
\* the rate, the windows and the critical values: a burst that is out is the one that the
\* offline script finds with all it counts, and stays so; each alarm has one burst, which
\* is out or waits, and those waiting are within the hour or in an open run
\* (M5aCore.element, prepare_inputs.simulate_bursts, run_offline.bursts).
THEOREM BurstsStayOffline == LayersSpec => []OnlineBurstsAreOffline
<1>1. LayersInit => DriftInv /\ RateInv
  BY Initially, RateInitially
<1>2. DriftInv /\ RateInv /\ [LayersNext]_<<vars, dayVars>> => (DriftInv /\ RateInv)'
  BY StepKeeps, RateStep
<1>3. DriftInv /\ RateInv => OnlineBurstsAreOffline
  <2>. SUFFICES ASSUME RateInv, kind = "rate"
                PROVE  /\ emitted \subseteq Bursts
                       /\ {c.ts : c \in Alarmed} = {b.ts : b \in emitted \cup pending}
                       /\ {b.ts : b \in emitted} \cap {q.ts : q \in pending} = {}
                       /\ \A q \in pending : q.open \/ rows[Len(rows)].ts <= q.ts + Horizon
    BY DEF OnlineBurstsAreOffline
  <2>. DEFINE num == OutliersOf(arrived, rows)
  <2>1. BinsInv(arrived, rows, clock) /\ BurstsInv(rows, num, AlarmTimes, pending, emitted)
    BY DEF RateInv
  <2>2. ASSUME NEW b \in emitted
        PROVE  b \in Bursts
    <3>1. PICK q : Was(rows, num, q, b)
      BY <2>1 DEF BurstsInv, IsOut
    <3>2. b = BurstOut(q) /\ IsBurst(q) /\ Follows(rows, num, q)
      BY <3>1 DEF Was
    <3>3. b.ts = q.ts
      BY <3>2 DEF BurstOut
    <3>4. b.ts \in AlarmTimes
      BY <2>1 DEF BurstsInv, TimesIn
    <3>5. PICK c \in Alarmed : c.ts = b.ts
      BY <3>4 DEF AlarmTimes
    <3>. QED  BY <2>1, <3>2, <3>3, <3>5, BurstIs
  <2>3. {c.ts : c \in Alarmed} = {b.ts : b \in emitted \cup pending}
    <3>1. AlarmTimes = TimesIn(pending) \cup TimesIn(emitted)
      BY <2>1 DEF BurstsInv
    <3>2. {b.ts : b \in emitted \cup pending} = TimesIn(pending) \cup TimesIn(emitted)
      BY DEF TimesIn
    <3>. QED  BY <3>1, <3>2 DEF AlarmTimes
  <2>4. {b.ts : b \in emitted} \cap {q.ts : q \in pending} = {}
    BY <2>1 DEF BurstsInv, TimesIn
  <2>5. ASSUME NEW q \in pending
        PROVE  q.open \/ rows[Len(rows)].ts <= q.ts + Horizon
    <3>1. IsBurst(q) /\ Follows(rows, num, q) /\ ~ Finished(q, rows[Len(rows)].ts)
      BY <2>1 DEF BurstsInv, Waits
    <3>2. q.ts \in Nat /\ Horizon \in Nat
      BY <3>1, StreamAssumption DEF IsBurst, Horizon
    <3>3. rows[Len(rows)].ts \in Nat
      <4>1. PICK a \in 1..Len(rows) : rows[a].ts = q.ts
        BY <3>1 DEF Follows
      <4>2. RateRows(rows)
        BY <2>1 DEF BinsInv
      <4>3. Len(rows) \in 1..Len(rows)
        BY <4>1, <4>2 DEF RateRows
      <4>. QED  BY <4>2, <4>3 DEF RateRows
    <3>. QED  BY <3>1, <3>2, <3>3 DEF Finished
  <2>. QED  BY <2>2, <2>3, <2>4, <2>5
<1>. QED  BY <1>1, <1>2, <1>3, PTL DEF LayersSpec
================================================================================
