--------------------------- MODULE PointChannelProofs ---------------------------
(***************************************************************************)
(* Theorems about the point channel behind the adaptive scaler, for every  *)
(* input, every set of timely commands, every window and slide: what the   *)
(* detector holds when a slide is judged.                                  *)
(***************************************************************************)
EXTENDS PointChannel, AdaptiveScalerProofs

--------------------------------------------------------------------------------
(* What the scaler keeps and sends, beyond what AdaptiveScalerProofs says of *)
(* it: the rounds in its cache, the rounds in a backfill, the absence before  *)
(* a cold round, and the parameters of a version.                             *)

\* The cache holds the rounds read, back to its depth.
CacheHolds(inp, p, s) ==
  s.cache = {inp[i] : i \in {j \in 1..p : inp[j].ts > s.last - CacheDepth}}

\* A backfill has the complete rounds of the window before the effective time of
\* the command that is the version's, and none of the warm-up.
FillTimes(inp, eff) ==
  {inp[i].ts : i \in {j \in 1..Len(inp) : ~inp[j].missing /\ eff - Window <= inp[j].ts
                                                          /\ inp[j].ts < eff}}
Fills(inp, backfill, eff) == {q.ts : q \in UNION backfill} = FillTimes(inp, eff)
FillsFor(inp, backfill, version, acc) ==
  backfill # None =>
    \E c \in CmdsOf(acc) : version = c.seq + 1 /\ Fills(inp, backfill, c.eff)
FillsSent(inp, em, acc) ==
  \A i \in 1..Len(em) : ~em[i].warmup => FillsFor(inp, em[i].backfill, em[i].version, acc)

\* Before a cold round there is nothing for longer than the threshold.
ColdSent(em) ==
  \A i, j \in 1..Len(em) : em[i].cold /\ j < i => em[j].ts + Absence < em[i].ts

\* A version has one set of parameters.
SameParams(em) ==
  \A i, j \in 1..Len(em) :
    ~em[i].warmup /\ ~em[j].warmup /\ em[i].version = em[j].version => em[i].params = em[j].params
ParamsHeld(s, em) ==
  s.frozen => \A i \in OfVersion(em, TagOf(s), Len(em)) : em[i].params = s.params

Traces(inp, p, s, em, acc) ==
  /\ CacheHolds(inp, p, s)
  /\ FillsFor(inp, s.backfill, s.version, acc) /\ FillsSent(inp, em, acc)
  /\ ColdSent(em)
  /\ OnTime(acc) => SameParams(em) /\ ParamsHeld(s, em)

--------------------------------------------------------------------------------
(* What the channel holds, of the rounds em sent to it: the points m of the   *)
(* detector behind the last window, which ended at f, and the last slide sl.  *)

AdmittedOf(em) == {i \in 1..Len(em) : ~em[i].warmup /\ ~em[i].missing}
Between(em, a, b) == {i \in AdmittedOf(em) : a <= em[i].ts /\ em[i].ts < b}
TimesOf(em, a, b) == {em[i].ts : i \in Between(em, a, b)}
PointTimes(points) == {q.ts : q \in points}

IsLast(em, k, f) ==
  /\ k \in AdmittedOf(em) /\ em[k].ts < f
  /\ \A j \in AdmittedOf(em) : em[j].ts < f => j <= k

\* All points are of the version of the last round before f, and so is the detector.
LikeLast(em, m, f) ==
  \A k \in AdmittedOf(em) :
    IsLast(em, k, f) => m.version = em[k].version /\ \A q \in m.points : q.params = em[k].params
Unused(em, m, f) == (\A i \in AdmittedOf(em) : ~ (em[i].ts < f)) => m.version = NoVersion

\* The detector holds the admitted rounds from a to f.
HoldsFrom(em, m, a, f) ==
  PointTimes(m.points) = TimesOf(em, a, f) /\ LikeLast(em, m, f) /\ Unused(em, m, f)

\* The window ended at a multiple of the slide, and event time has passed it.
Positioned(inp, p, m, f, sl) ==
  /\ f = 0 \/ f \in SlideEnds
  /\ p < Len(inp) => f <= inp[p + 1].ts
  /\ DOMAIN m = {"points", "version", "start"} /\ m.start \in Nat /\ m.start <= f
  /\ sl.end = f

Judges(em, sl) ==
  /\ PointTimes(sl.points) = TimesOf(em, sl.end - Window, sl.end)
  /\ \A q, r \in sl.points : q.params = r.params
  /\ TimesOf(em, sl.end - SlideStep, sl.end) \subseteq sl.judged

Channel(inp, p, em, acc, m, f, sl) ==
  /\ Positioned(inp, p, m, f, sl)
  /\ OnTime(acc) => HoldsFrom(em, m, f - Window + SlideStep, f) /\ Judges(em, sl)

ChannelInv ==
  /\ pos < Len(input) => wm < input[pos + 1].ts
  /\ Traces(input, pos, scaler, emitted, accepted)
  /\ Traces(input, ckpt.pos, ckpt.scaler, ckpt.emitted, ckpt.accepted)
  /\ Channel(input, pos, emitted, accepted, mcod, fired, slide)
  /\ Channel(input, ckpt.pos, ckpt.emitted, ckpt.accepted,
             ckptChannel.mcod, ckptChannel.fired, ckptChannel.slide)

--------------------------------------------------------------------------------
(* The scaler's steps. *)

\* The cache after a round.
LEMMA CacheAfter ==
  ASSUME NEW inp \in Inputs, NEW s \in ScalerType(inp), NEW p \in Nat, p < Len(inp),
         CacheHolds(inp, p, s), s.last <= inp[p + 1].ts,
         NEW s2, s2.last = inp[p + 1].ts, s2.cache = Cached(s, inp[p + 1]).cache
  PROVE  CacheHolds(inp, p + 1, s2)
<1>. DEFINE r == inp[p + 1]
            old == {inp[i] : i \in {j \in 1..p : inp[j].ts > s.last - CacheDepth}}
            new == {inp[i] : i \in {j \in 1..(p + 1) : inp[j].ts > r.ts - CacheDepth}}
<1>1. /\ Len(inp) \in Nat /\ p + 1 \in 1..Len(inp) /\ r.ts \in Nat /\ s.last \in Nat /\ CacheDepth \in Nat \ {0}
      /\ \A i \in 1..Len(inp) : inp[i].ts \in Nat
  BY RoundFacts, ScalerAssumption DEF ScalerType
<1>2. s.cache = old
  BY Zenon DEF CacheHolds
<1>3. Cached(s, r).cache = {q \in s.cache \cup {r} : q.ts > r.ts - CacheDepth}
  BY DEF Cached, ScalerType
<1>4. \A i \in 1..p : i \in 1..(p + 1) /\ i \in 1..Len(inp)
  BY <1>1
<1>5. \A i \in 1..(p + 1) : i \in 1..p \/ i = p + 1
  OBVIOUS
<1>6. ASSUME NEW q
      PROVE  q \in new <=> q \in old \cup {r} /\ q.ts > r.ts - CacheDepth
  <2>1. ASSUME q \in new
        PROVE  q \in old \cup {r} /\ q.ts > r.ts - CacheDepth
    <3>1. PICK i \in 1..(p + 1) : q = inp[i] /\ inp[i].ts > r.ts - CacheDepth
      BY <2>1
    <3>2. CASE i \in 1..p
      <4>1. inp[i].ts > s.last - CacheDepth
        BY <1>1, <1>4, <3>1, <3>2
      <4>. QED  BY <3>1, <3>2, <4>1
    <3>. QED  BY <1>5, <3>1, <3>2
  <2>2. ASSUME q \in old \cup {r}, q.ts > r.ts - CacheDepth
        PROVE  q \in new
    <3>1. CASE q \in old
      <4>1. PICK i \in 1..p : q = inp[i]
        BY <3>1
      <4>. QED  BY <1>4, <2>2, <4>1
    <3>2. CASE q = r
      <4>1. p + 1 \in 1..(p + 1)
        OBVIOUS
      <4>. QED  BY <2>2, <3>2, <4>1
    <3>. QED  BY <2>2, <3>1, <3>2
  <2>. QED  BY <2>1, <2>2
<1>7. s2.cache = new
  BY <1>2, <1>3, <1>6
<1>8. s2.last = r.ts
  OBVIOUS
<1>. QED
  BY <1>7, <1>8, Zenon DEF CacheHolds

\* Level 0 fills the backfill with the complete rounds of the window before the
\* effective time, when event time has not passed it.
LEMMA Level0Fills ==
  ASSUME NEW inp \in Inputs, NEW s \in ScalerType(inp), NEW p \in 0..Len(inp), CacheHolds(inp, p, s),
         NEW c \in Commands, c.eff > s.last, p < Len(inp) => c.eff <= inp[p + 1].ts,
         NEW b, b = {BackfillOf(s.cache, c.eff)}
  PROVE  Fills(inp, b, c.eff)
<1>. DEFINE held == {inp[i] : i \in {j \in 1..p : inp[j].ts > s.last - CacheDepth}}
            in == {q \in held : q.ts >= c.eff - Window /\ q.ts < c.eff /\ ~q.missing}
<1>1. /\ Len(inp) \in Nat /\ c.eff \in Nat /\ s.last \in Nat /\ CacheDepth \in Nat /\ Window \in Nat
      /\ Window <= CacheDepth
  BY RoundFacts, ScalerAssumption DEF ScalerType
<1>2. \A i, j \in 1..Len(inp) : inp[i].ts \in Nat /\ (i <= j => inp[i].ts <= inp[j].ts)
  BY RoundFacts
<1>3. s.cache = held
  BY Zenon DEF CacheHolds
<1>4. ASSUME NEW t
      PROVE  (\E q \in BackfillOf(s.cache, c.eff) : q.ts = t) <=> (\E q \in in : q.ts = t)
  <2>. DEFINE P == EstimatedFrom(s.cache, c.eff)
              src == {x \in {y \in s.cache : y.ts >= c.eff - Window /\ y.ts < c.eff} : ~x.missing}
  <2>1. BackfillOf(s.cache, c.eff) = {[ts |-> q.ts, params |-> P] : q \in src}
    BY Zenon DEF BackfillOf, InWindow
  <2>2. src = in
    BY <1>3
  <2>. HIDE DEF P, src, in
  <2>3. \A q : [ts |-> q.ts, params |-> P].ts = q.ts
    OBVIOUS
  <2>. QED  BY <2>1, <2>2, <2>3
<1>5. \A i \in 1..Len(inp) : inp[i].ts < c.eff => i \in 1..p
  <2>. SUFFICES ASSUME NEW i \in 1..Len(inp), inp[i].ts < c.eff, ~ (i <= p)
                PROVE  FALSE
    OBVIOUS
  <2>1. p + 1 \in 1..Len(inp) /\ p + 1 <= i /\ p < Len(inp)
    BY <1>1
  <2>2. inp[p + 1].ts <= inp[i].ts /\ inp[p + 1].ts \in Nat /\ inp[i].ts \in Nat
    BY <1>2, <2>1
  <2>. QED  BY <1>1, <2>1, <2>2
<1>6. ASSUME NEW i \in 1..Len(inp), c.eff - Window <= inp[i].ts, inp[i].ts < c.eff
      PROVE  inp[i].ts > s.last - CacheDepth
  BY <1>1, <1>2, <1>6
<1>7. ASSUME NEW t
      PROVE  (\E q \in in : q.ts = t) <=> t \in FillTimes(inp, c.eff)
  <2>1. ASSUME NEW q \in in, q.ts = t
        PROVE  t \in FillTimes(inp, c.eff)
    <3>1. PICK i \in 1..p : q = inp[i]
      OBVIOUS
    <3>2. i \in 1..Len(inp)
      BY <1>1
    <3>3. c.eff - Window <= inp[i].ts
      BY <3>1, <3>2, <1>1, <1>2
    <3>. QED  BY <2>1, <3>1, <3>2, <3>3 DEF FillTimes
  <2>2. ASSUME t \in FillTimes(inp, c.eff)
        PROVE  \E q \in in : q.ts = t
    <3>1. PICK i \in 1..Len(inp) : /\ t = inp[i].ts /\ ~inp[i].missing
                                   /\ c.eff - Window <= inp[i].ts /\ inp[i].ts < c.eff
      BY <2>2 DEF FillTimes
    <3>2. i \in 1..p /\ inp[i].ts > s.last - CacheDepth
      BY <1>5, <1>6, <3>1
    <3>3. inp[i].ts >= c.eff - Window
      BY <3>1, <1>1, <1>2
    <3>4. inp[i] \in in
      BY <3>1, <3>2, <3>3
    <3>. QED  BY <3>1, <3>4
  <2>. QED  BY <2>1, <2>2
<1>8. UNION b = BackfillOf(s.cache, c.eff)
  OBVIOUS
<1>. QED
  <2>. HIDE DEF in
  <2>1. \A t : (\E q \in UNION b : q.ts = t) <=> t \in FillTimes(inp, c.eff)
    BY <1>4, <1>7, <1>8
  <2>2. {q.ts : q \in UNION b} = FillTimes(inp, c.eff)
    BY <2>1
  <2>. QED  BY <2>2 DEF Fills

\* The parts that look at the scaler look only at these fields, and commands that
\* are stored later change nothing about what was executed.
LEMMA TracesStay ==
  ASSUME NEW inp, NEW p, NEW s, NEW s2, NEW em, NEW acc, NEW acc2, acc \subseteq acc2,
         Traces(inp, p, s, em, acc),
         s2.cache = s.cache, s2.last = s.last, s2.frozen = s.frozen, SameVersion(s, s2)
  PROVE  Traces(inp, p, s2, em, acc2)
<1>1. CmdsOf(acc) \subseteq CmdsOf(acc2)
  BY DEF CmdsOf
<1>2. OnTime(acc2) => OnTime(acc)
  BY DEF OnTime
<1>3. \A b, v : FillsFor(inp, b, v, acc) => FillsFor(inp, b, v, acc2)
  BY <1>1, Zenon DEF FillsFor
<1>4. FillsFor(inp, s2.backfill, s2.version, acc2)
  BY <1>3, Zenon DEF Traces, SameVersion
<1>5. FillsSent(inp, em, acc2)
  BY <1>3, Zenon DEF Traces, FillsSent
<1>6. CacheHolds(inp, p, s2)
  BY Zenon DEF Traces, CacheHolds
<1>7. ParamsHeld(s, em) => ParamsHeld(s2, em)
  <2>1. TagOf(s2) = TagOf(s)
    BY Zenon DEF TagOf, SameVersion
  <2>. QED  BY <2>1, Zenon DEF ParamsHeld, SameVersion
<1>. QED
  BY <1>2, <1>4, <1>5, <1>6, <1>7, Zenon DEF Traces

\* What level 0 puts into the backfill.
LEMMA Level0Backfill ==
  ASSUME NEW inp \in Inputs, NEW s \in ScalerType(inp), NEW c
  PROVE  Level0(s, c).backfill = {BackfillOf(s.cache, c.eff)} /\ Level0(s, c).version = c.seq + 1
<1>. DEFINE b == {BackfillOf(s.cache, c.eff)}
            i == Installed(s, EstimatedFrom(s.cache, c.eff))
            v == c.seq + 1
<1>1. Level0(s, c) = [i EXCEPT !.version = v, !.backfill = b]
  BY Zenon DEF Level0
<1>2. "version" \in DOMAIN i /\ "backfill" \in DOMAIN i
  BY DEF Installed, ScalerType
<1>. HIDE DEF i, b, v
<1>3. Level0(s, c).backfill = b /\ Level0(s, c).version = v
  BY <1>1, <1>2
<1>. QED
  BY <1>3 DEF b, v

\* Executing commands of which event time has passed none.
LEMMA ExecuteTraces ==
  ASSUME NEW inp \in Inputs, NEW s \in ScalerType(inp), NEW em \in Seq(EmittedType),
         NEW acc \in SUBSET AcceptedType, NEW tp \in Seq(Commands), NEW rd, NEW p \in 0..Len(inp),
         SeqIsName(tp), Part(inp, tp, rd, p, s, em, acc), Traces(inp, p, s, em, acc),
         NEW t \in Nat, p < Len(inp) => t <= inp[p + 1].ts,
         NEW e, e = ExecuteDue(s, t)
  PROVE  Traces(inp, p, e, em, acc)
<1>1. Aligned(inp, p, s, em) /\ Waiting(tp, s, acc)
  BY DEF Part
<1>2. PICK n \in Nat : \A c \in s.pending : c.seq <= n
  BY <1>1, PendingBound
<1>3. e \in ScalerType(inp) /\ SameCollected(s, e) /\ Executes(s, t, e)
  BY <1>2, ExecuteDueFields
<1>4. CASE Due(s, t) = {} \/ ~s.frozen
  <2>1. SameVersion(s, e) /\ e.cache = s.cache /\ e.last = s.last /\ e.frozen = s.frozen
    BY <1>3, <1>4, Zenon DEF Executes, SameCollected
  <2>. QED  BY <2>1, TracesStay
<1>5. CASE Due(s, t) # {} /\ s.frozen
  <2>. DEFINE c == Latest(Due(s, t))
              rest == [s EXCEPT !.pending = @ \ Due(s, t)]
  <2>1. rest \in ScalerType(inp) /\ rest.cache = s.cache
    BY DEF ScalerType
  <2>2. e = Level0(rest, c)
    BY <1>5 DEF ExecuteDue, Due
  <2>3. c \in Due(s, t)
    BY <1>3, <1>5, Zenon DEF Executes, IsLatest
  <2>. HIDE DEF rest, c
  <2>4. c \in s.pending /\ c.eff <= t
    BY <2>3 DEF Due
  <2>5. c \in Commands /\ c.eff \in Nat /\ c.seq \in Nat \ {0} /\ c \in CmdsOf(acc) /\ c.eff > s.last
    <3>1. c \in Commands /\ s.last \in Nat
      BY <2>4 DEF ScalerType
    <3>2. c \in CmdsOf(acc) /\ c.eff > s.last
      BY <1>1, <2>4, Zenon DEF Waiting
    <3>. QED  BY <3>1, <3>2, ScalerAssumption
  <2>6. e.backfill = {BackfillOf(s.cache, c.eff)} /\ e.version = c.seq + 1
    <3>1. /\ Level0(rest, c).backfill = {BackfillOf(rest.cache, c.eff)}
          /\ Level0(rest, c).version = c.seq + 1
      BY <2>1, Level0Backfill, Zenon
    <3>. QED  BY <2>1, <2>2, <3>1, Zenon
  <2>7. FillsFor(inp, e.backfill, e.version, acc)
    <3>1. p < Len(inp) => c.eff <= inp[p + 1].ts
      <4>. SUFFICES ASSUME p < Len(inp)
                    PROVE  c.eff <= inp[p + 1].ts
        OBVIOUS
      <4>1. Len(inp) \in Nat
        BY RoundFacts
      <4>2. p + 1 \in 1..Len(inp)
        BY <4>1
      <4>3. inp[p + 1].ts \in Nat
        BY <4>2, RoundFacts
      <4>. QED  BY <2>4, <2>5, <4>3
    <3>2. CacheHolds(inp, p, s)
      BY DEF Traces
    <3>3. Fills(inp, e.backfill, c.eff)
      BY <2>5, <2>6, <3>1, <3>2, Level0Fills
    <3>. QED  BY <2>5, <2>6, <3>3, Zenon DEF FillsFor
  <2>8. OnTime(acc) => ParamsHeld(e, em)
    <3>. SUFFICES ASSUME OnTime(acc)
                  PROVE  ParamsHeld(e, em)
      OBVIOUS
    <3>1. VersionsSent(inp, em, acc)
      BY DEF Part
    <3>2. OfVersion(em, c.seq + 1, Len(em)) = {}
      BY <1>1, <2>4, <3>1, PendingIsNew
    <3>3. TagOf(e) = c.seq + 1
      <4>1. c.seq + 1 # NoVersion
        BY <2>5 DEF NoVersion
      <4>. QED  BY <2>6, <4>1, Zenon DEF TagOf
    <3>. QED  BY <3>2, <3>3, Zenon DEF ParamsHeld
  <2>9. CacheHolds(inp, p, e)
    BY <1>3, Zenon DEF Traces, CacheHolds, SameCollected
  <2>. QED  BY <2>7, <2>8, <2>9, Zenon DEF Traces
<1>. QED
  BY <1>4, <1>5

\* A round is cached whether it is collected or normalized, and tells whether it
\* is a cold one.
LEMMA RoundCached ==
  ASSUME NEW inp \in Inputs, NEW e \in ScalerType(inp), NEW r \in Rds(inp), NEW cold
  PROVE  AfterRound(e, r).cache = Cached(e, r).cache /\ SentFor(e, r, cold).cold = cold
<1>. DEFINE c == Cached(e, r)
            base == [ts |-> r.ts, missing |-> r.missing, cold |-> cold, warmup |-> ~c.frozen,
                     version |-> NoVersion, params |-> None, hist |-> FALSE, backfill |-> None]
            v == Tagged(c, r).version
            b == IF Attaches(c, r) THEN c.backfill ELSE None
<1>1. c \in ScalerType(inp)
  BY CachedFields
<1>2. SentFor(e, r, cold) = IF ~c.frozen THEN base
                            ELSE [base EXCEPT !.version = v, !.params = c.params, !.hist = ~c.histSent,
                                              !.backfill = b]
  BY Zenon DEF SentFor, Output
<1>3. base.cold = cold /\ "cold" \in DOMAIN base
  OBVIOUS
<1>. HIDE DEF base, v, b
<1>4. SentFor(e, r, cold).cold = cold
  BY <1>2, <1>3
<1>5. AfterRound(e, r) = IF c.frozen THEN Tagged(c, r) ELSE Warmed(c, r)
  BY Zenon DEF AfterRound
<1>. HIDE DEF c
<1>6. Tagged(c, r).cache = c.cache
  <2>. DEFINE x == IF c.version = NoVersion THEN 1 ELSE c.version
              y == IF Attaches(c, r) THEN None ELSE c.backfill
  <2>1. Tagged(c, r) = [c EXCEPT !.version = x, !.histSent = TRUE, !.backfill = y]
    BY <1>1 DEF Tagged, ScalerType
  <2>. HIDE DEF x, y
  <2>. QED  BY <1>1, <2>1 DEF ScalerType
<1>7. Warmed(c, r).cache = c.cache
  <2>. DEFINE seen == [c EXCEPT !.count = @ + 1, !.samples = @ \cup {r}]
  <2>1. seen.cache = c.cache /\ DOMAIN seen = DOMAIN c
    BY <1>1 DEF ScalerType
  <2>2. Warmed(c, r) = IF seen.count = Warmup THEN Frozen(seen) ELSE seen
    BY Zenon DEF Warmed
  <2>. HIDE DEF seen
  <2>3. Frozen(seen).cache = seen.cache
    <3>1. "cache" \in DOMAIN seen
      BY <1>1, <2>1 DEF ScalerType
    <3>. QED  BY <3>1 DEF Frozen
  <2>. QED  BY <2>1, <2>2, <2>3
<1>. QED
  BY <1>4, <1>5, <1>6, <1>7 DEF c

\* Nothing is emitted between the last round and the next: before a cold round
\* there is nothing for longer than the threshold.
LEMMA RoundCold ==
  ASSUME NEW inp \in Inputs, NEW e \in ScalerType(inp), NEW em \in Seq(EmittedType),
         NEW p \in Nat, p < Len(inp), Aligned(inp, p, e, em), ColdSent(em),
         NEW o \in EmittedType, o.ts = inp[p + 1].ts, o.cold = Cold(e.last, inp[p + 1])
  PROVE  ColdSent(Append(em, o))
<1>. DEFINE em2 == Append(em, o)
<1>1. /\ Len(em) = p /\ Len(em2) = p + 1 /\ em2[p + 1] = o
      /\ \A i \in 1..p : em2[i] = em[i]
  BY AppendFacts DEF Aligned
<1>2. /\ Len(inp) \in Nat /\ p + 1 \in 1..Len(inp) /\ Absence \in Nat
      /\ \A i, j \in 1..Len(inp) : inp[i].ts \in Nat /\ (i <= j => inp[i].ts <= inp[j].ts)
  BY RoundFacts, ScalerAssumption
<1>3. \A i \in 1..p : em[i].ts = inp[i].ts
  BY DEF Aligned
<1>. HIDE DEF em2
<1>4. ASSUME NEW i \in 1..(p + 1), NEW j \in 1..(p + 1), em2[i].cold, j < i
      PROVE  em2[j].ts + Absence < em2[i].ts
  <2>1. j \in 1..p
    BY <1>4
  <2>2. CASE i \in 1..p
    BY <1>1, <1>4, <2>1, <2>2 DEF ColdSent
  <2>3. CASE i = p + 1
    <3>1. Cold(e.last, inp[p + 1])
      BY <1>1, <1>4, <2>3
    <3>2. inp[p + 1].ts - e.last > Absence
      BY <3>1 DEF Cold
    <3>3. e.last = inp[p].ts /\ p \in 1..Len(inp) /\ j \in 1..Len(inp) /\ j <= p
      BY <1>2, <2>1 DEF Aligned
    <3>4. em2[j].ts <= e.last /\ em2[j].ts \in Nat /\ e.last \in Nat /\ inp[p + 1].ts \in Nat
      BY <1>1, <1>2, <1>3, <2>1, <3>3
    <3>5. em2[i].ts = inp[p + 1].ts
      BY <1>1, <2>3
    <3>. QED  BY SMTT(40), <1>2, <3>2, <3>4, <3>5
  <2>. QED  BY <2>2, <2>3
<1>5. ColdSent(em2)
  BY <1>1, <1>4 DEF ColdSent
<1>. QED
  BY <1>5 DEF em2

\* What a frozen scaler sends has the parameters that are held for its version.
LEMMA RoundParams ==
  ASSUME NEW inp \in Inputs, NEW e \in ScalerType(inp), NEW em \in Seq(EmittedType),
         NEW p \in Nat, p < Len(inp), Aligned(inp, p, e, em), SameParams(em), ParamsHeld(e, em),
         NEW s2 \in ScalerType(inp), NEW o \in EmittedType, Advances(e, inp[p + 1], s2, o)
  PROVE  SameParams(Append(em, o)) /\ ParamsHeld(s2, Append(em, o))
<1>. DEFINE em2 == Append(em, o)
<1>1. /\ Len(em) = p /\ Len(em2) = p + 1 /\ em2[p + 1] = o
      /\ \A i \in 1..p : em2[i] = em[i]
  BY AppendFacts DEF Aligned
<1>2. Aligned(inp, p + 1, s2, em2)
  BY RoundAligned
<1>3. \A i \in 1..(p + 1) : i \in 1..p \/ i = p + 1
  OBVIOUS
<1>. HIDE DEF em2
<1>4. CASE ~e.frozen
  <2>1. e.frozen = (p >= Warmup)
    BY Zenon DEF Aligned
  <2>2. Warmup \in Nat /\ p + 1 <= Warmup
    <3>1. ~ (p >= Warmup)
      BY <1>4, <2>1, Zenon
    <3>2. Warmup \in Nat
      BY ScalerAssumption
    <3>. QED  BY <3>1, <3>2
  <2>3. \A i \in 1..(p + 1) : em2[i].warmup = (i <= Warmup)
    BY <1>2, Zenon DEF Aligned
  <2>4. \A i \in 1..(p + 1) : em2[i].warmup
    <3>. TAKE i \in 1..(p + 1)
    <3>1. i <= Warmup
      BY <2>2
    <3>. QED  BY <2>3, <3>1, Zenon
  <2>5. SameParams(em2)
    BY <1>1, <2>4, Zenon DEF SameParams
  <2>6. ParamsHeld(s2, em2)
    BY <1>1, <2>4, Zenon DEF ParamsHeld, OfVersion
  <2>. QED  BY <2>5, <2>6 DEF em2
<1>5. CASE e.frozen
  <2>1. /\ s2.frozen /\ s2.version = TagOf(e) /\ s2.params = e.params
        /\ o.version = TagOf(e) /\ o.params = e.params
    BY <1>5, Zenon DEF Advances
  <2>2. TagOf(e) # NoVersion
    BY DEF TagOf, NoVersion
  <2>3. TagOf(s2) = TagOf(e)
    BY <2>1, <2>2, Zenon DEF TagOf
  <2>4. \A i \in 1..p : ~em[i].warmup /\ em[i].version = TagOf(e) => em[i].params = e.params
    BY <1>1, <1>5, Zenon DEF ParamsHeld, OfVersion
  <2>5. \A i \in 1..(p + 1) : ~em2[i].warmup /\ em2[i].version = TagOf(e) => em2[i].params = e.params
    BY <1>1, <1>3, <2>1, <2>4, Zenon
  <2>6. SameParams(em2)
    <3>. SUFFICES ASSUME NEW i \in 1..(p + 1), NEW j \in 1..(p + 1), ~em2[i].warmup, ~em2[j].warmup,
                         em2[i].version = em2[j].version
                  PROVE  em2[i].params = em2[j].params
      BY <1>1, Zenon DEF SameParams
    <3>1. CASE em2[i].version = TagOf(e)
      BY <2>5, <3>1, Zenon
    <3>2. CASE em2[i].version # TagOf(e)
      <4>1. i \in 1..p /\ j \in 1..p
        BY <1>1, <1>3, <2>1, <3>2, Zenon
      <4>. QED  BY <1>1, <4>1, ZenonT(40) DEF SameParams
    <3>. QED  BY <3>1, <3>2
  <2>7. ParamsHeld(s2, em2)
    BY <1>1, <2>1, <2>3, <2>5, Zenon DEF ParamsHeld, OfVersion
  <2>. QED  BY <2>6, <2>7 DEF em2
<1>. QED
  BY <1>4, <1>5

\* A round, with the commands due executed before it.
LEMMA RoundTraces ==
  ASSUME NEW inp \in Inputs, NEW e \in ScalerType(inp), NEW em \in Seq(EmittedType),
         NEW acc \in SUBSET AcceptedType, NEW p \in Nat, p < Len(inp), Aligned(inp, p, e, em),
         Traces(inp, p, e, em, acc),
         NEW s2, s2 = AfterRound(e, inp[p + 1]),
         NEW o, o = SentFor(e, inp[p + 1], Cold(e.last, inp[p + 1]))
  PROVE  Traces(inp, p + 1, s2, Append(em, o), acc)
<1>. DEFINE r == inp[p + 1]
            em2 == Append(em, o)
<1>1. /\ Len(inp) \in Nat /\ p + 1 \in 1..Len(inp) /\ r \in Rds(inp) /\ r.ts \in Nat
      /\ \A i, j \in 1..Len(inp) : inp[i].ts \in Nat /\ (i <= j => inp[i].ts <= inp[j].ts)
  BY RoundFacts DEF Rds
<1>2. Cold(e.last, r) \in BOOLEAN
  BY DEF Cold
<1>3. s2 \in ScalerType(inp) /\ o \in EmittedType /\ Advances(e, r, s2, o)
  BY <1>1, <1>2, RoundFields
<1>4. s2.cache = Cached(e, r).cache /\ o.cold = Cold(e.last, r)
  BY <1>1, RoundCached
<1>5. /\ s2.last = r.ts /\ o.ts = r.ts /\ o.warmup = ~e.frozen
      /\ ~e.frozen => s2.version = e.version /\ s2.backfill = e.backfill
      /\ e.frozen => /\ s2.version = TagOf(e) /\ o.version = TagOf(e)
                     /\ s2.backfill \in {None, e.backfill} /\ o.backfill \in {None, e.backfill}
  BY <1>3 DEF Advances
<1>6. e.last <= r.ts
  <2>1. CASE p = 0
    BY <1>1, <2>1 DEF Aligned, NoTs
  <2>2. CASE p # 0
    BY <1>1, <2>2 DEF Aligned
  <2>. QED  BY <2>1, <2>2
<1>7. CacheHolds(inp, p + 1, s2)
  <2>1. CacheHolds(inp, p, e)
    BY DEF Traces
  <2>. QED  BY <1>4, <1>5, <1>6, <2>1, CacheAfter
<1>8. /\ Len(em) = p /\ Len(em2) = p + 1 /\ em2[p + 1] = o
      /\ \A i \in 1..p : em2[i] = em[i]
  BY <1>3, AppendFacts DEF Aligned
<1>9. \A i \in 1..(p + 1) : i \in 1..p \/ i = p + 1
  OBVIOUS
<1>10. e.backfill # None => TagOf(e) = e.version
  <2>1. ASSUME e.backfill # None
        PROVE  e.version # NoVersion
    <3>1. PICK c \in CmdsOf(acc) : e.version = c.seq + 1
      BY <2>1, Zenon DEF Traces, FillsFor
    <3>2. c.seq \in Nat
      BY <3>1, ScalerAssumption DEF CmdsOf, AcceptedType
    <3>. QED  BY <3>1, <3>2 DEF NoVersion
  <2>. QED  BY <2>1, Zenon DEF TagOf
<1>11. \A b \in {None, e.backfill} : FillsFor(inp, b, TagOf(e), acc)
  <2>1. FillsFor(inp, e.backfill, e.version, acc)
    BY Zenon DEF Traces
  <2>2. FillsFor(inp, None, TagOf(e), acc)
    BY Zenon DEF FillsFor
  <2>3. FillsFor(inp, e.backfill, TagOf(e), acc)
    <3>1. CASE e.backfill # None
      BY <1>10, <2>1, <3>1, Zenon
    <3>2. CASE e.backfill = None
      BY <2>2, <3>2, Zenon
    <3>. QED  BY <3>1, <3>2
  <2>. QED  BY <2>2, <2>3, Zenon
<1>12. FillsFor(inp, s2.backfill, s2.version, acc)
  <2>1. CASE e.frozen
    BY <1>5, <1>11, <2>1, Zenon
  <2>2. CASE ~e.frozen
    BY <1>5, <2>2, Zenon DEF Traces
  <2>. QED  BY <2>1, <2>2
<1>. HIDE DEF em2
<1>13. FillsSent(inp, em2, acc)
  <2>1. ASSUME NEW i \in 1..(p + 1), ~em2[i].warmup
        PROVE  FillsFor(inp, em2[i].backfill, em2[i].version, acc)
    <3>1. CASE i \in 1..p
      BY <1>8, <2>1, <3>1, Zenon DEF Traces, FillsSent
    <3>2. CASE i = p + 1
      BY <1>5, <1>8, <1>11, <2>1, <3>2, Zenon
    <3>. QED  BY <1>9, <3>1, <3>2
  <2>. QED  BY <1>8, <2>1, Zenon DEF FillsSent
<1>14. ColdSent(em2)
  <2>1. ColdSent(em)
    BY DEF Traces
  <2>. QED  BY <1>3, <1>4, <1>5, <2>1, RoundCold DEF em2
<1>15. OnTime(acc) => SameParams(em2) /\ ParamsHeld(s2, em2)
  <2>. SUFFICES ASSUME OnTime(acc)
                PROVE  SameParams(em2) /\ ParamsHeld(s2, em2)
    OBVIOUS
  <2>1. SameParams(em) /\ ParamsHeld(e, em)
    BY Zenon DEF Traces
  <2>. QED  BY <1>3, <2>1, RoundParams DEF em2
<1>16. Traces(inp, p + 1, s2, em2, acc)
  BY <1>7, <1>12, <1>13, <1>14, <1>15, Zenon DEF Traces
<1>. QED
  BY <1>16 DEF em2

\* A round of the running scaler.
LEMMA RoundTraced ==
  ASSUME Inv, Traces(input, pos, scaler, emitted, accepted), ProcessRound
  PROVE  /\ Traces(input, pos', scaler', emitted', accepted')
         /\ \E o \in EmittedType : emitted' = Append(emitted, o) /\ o.ts = input[pos + 1].ts
<1>. DEFINE r == input[pos + 1]
            t == r.ts
            e == ExecuteDue(scaler, t)
            o == SentFor(e, r, Cold(scaler.last, r))
            p2 == pos + 1
<1>1. TypeOK /\ IInv
  BY DEF Inv
<1>2. /\ pos < Len(input) /\ pos' = p2
      /\ scaler' = AfterRound(e, r) /\ emitted' = Append(emitted, o)
      /\ accepted' = accepted
  BY DEF ProcessRound, AfterRound, SentFor
<1>3. /\ input \in Inputs /\ pos \in 0..Len(input) /\ Len(input) \in Nat
      /\ scaler \in ScalerType(input) /\ emitted \in Seq(EmittedType)
      /\ accepted \in SUBSET AcceptedType /\ topic \in Seq(Commands)
  BY <1>1, RoundFacts DEF TypeOK
<1>4. pos + 1 \in 1..Len(input) /\ pos \in Nat /\ r \in Rds(input) /\ t \in Nat /\ t <= t
  BY <1>2, <1>3, RoundFacts DEF Rds
<1>5. Part(input, topic, reached, pos, scaler, emitted, accepted) /\ SeqIsName(topic)
  BY <1>1 DEF IInv
<1>6. PICK n \in Nat : \A c \in scaler.pending : c.seq <= n
  BY <1>5, PendingBound DEF Part
<1>7. e \in ScalerType(input) /\ SameCollected(scaler, e) /\ Executes(scaler, t, e)
  BY <1>3, <1>4, <1>6, ExecuteDueFields
<1>8. e = ExecuteDue(scaler, t) /\ (pos < Len(input) => t <= input[pos + 1].ts)
  BY <1>4
<1>. HIDE DEF e
<1>9. Traces(input, pos, e, emitted, accepted)
  <2>. HIDE DEF t
  <2>. QED  BY <1>3, <1>4, <1>5, <1>8, ExecuteTraces
<1>10. Aligned(input, pos, e, emitted)
  <2>1. Aligned(input, pos, scaler, emitted)
    BY <1>5 DEF Part
  <2>2. /\ e.last = scaler.last /\ e.frozen = scaler.frozen /\ e.count = scaler.count
        /\ ~scaler.frozen => SameVersion(scaler, e)
    BY <1>7, Zenon DEF SameCollected, Executes
  <2>. QED  BY <2>1, <2>2, Zenon DEF Aligned, SameVersion
<1>11. o = SentFor(e, input[pos + 1], Cold(e.last, input[pos + 1]))
  BY <1>7, Zenon DEF SameCollected
<1>12. o \in EmittedType /\ o.ts = r.ts
  <2>1. Cold(scaler.last, r) \in BOOLEAN
    BY DEF Cold
  <2>2. o \in EmittedType /\ Advances(e, r, AfterRound(e, r), o)
    BY <1>3, <1>4, <1>7, <2>1, RoundFields
  <2>. QED  BY <2>2, Zenon DEF Advances
<1>. HIDE DEF o
<1>13. Traces(input, pos + 1, scaler', Append(emitted, o), accepted)
  BY <1>2, <1>3, <1>4, <1>7, <1>9, <1>10, <1>11, RoundTraces
<1>. QED
  BY <1>2, <1>12, <1>13

\* A watermark.
LEMMA WatermarkTraced ==
  ASSUME Inv, Traces(input, pos, scaler, emitted, accepted), NEW w \in 1..MaxTime,
         ProcessWatermark(w)
  PROVE  Traces(input, pos, scaler', emitted, accepted)
<1>. DEFINE passed == {t \in scaler.timers : t <= w}
            last == CHOOSE t \in passed : \A u \in passed : u <= t
            e == ExecuteDue(scaler, last)
            s == IF passed = {} THEN scaler ELSE e
<1>1. TypeOK /\ IInv
  BY DEF Inv
<1>2. /\ pos < Len(input) => w < input[pos + 1].ts
      /\ scaler' = [s EXCEPT !.timers = @ \ passed]
  BY DEF ProcessWatermark
<1>3. /\ input \in Inputs /\ pos \in 0..Len(input) /\ w \in Nat /\ Len(input) \in Nat
      /\ scaler \in ScalerType(input) /\ emitted \in Seq(EmittedType)
      /\ accepted \in SUBSET AcceptedType /\ topic \in Seq(Commands) /\ scaler.timers \in SUBSET Nat
  BY SMTT(40), <1>1, RoundFacts, ScalerAssumption DEF TypeOK, ScalerType
<1>4. Part(input, topic, reached, pos, scaler, emitted, accepted) /\ SeqIsName(topic)
  BY <1>1 DEF IInv
<1>5. PICK n \in Nat : \A c \in scaler.pending : c.seq <= n
  BY <1>4, PendingBound DEF Part
<1>6. s \in ScalerType(input) /\ Traces(input, pos, s, emitted, accepted)
  <2>1. CASE passed = {}
    BY <1>3, <2>1
  <2>2. CASE passed # {}
    <3>1. passed \in SUBSET Nat /\ \A t \in passed : t <= w
      BY <1>3
    <3>2. last \in passed
      <4>1. \E t \in passed : \A u \in passed : u <= t
        BY <1>3, <2>2, <3>1, GreatestExists
      <4>. QED
        BY <4>1
    <3>. HIDE DEF last
    <3>3. last \in Nat /\ last <= w
      BY <3>1, <3>2
    <3>4. pos < Len(input) => last <= input[pos + 1].ts
      <4>. SUFFICES ASSUME pos < Len(input)
                    PROVE  last <= input[pos + 1].ts
        OBVIOUS
      <4>1. pos + 1 \in 1..Len(input)
        BY <1>3
      <4>2. input[pos + 1].ts \in Nat
        BY <1>3, <4>1, RoundFacts
      <4>. QED  BY <1>2, <1>3, <3>3, <4>2
    <3>5. e \in ScalerType(input) /\ e = ExecuteDue(scaler, last)
      BY <1>3, <1>5, <3>3, ExecuteDueFields
    <3>. HIDE DEF e
    <3>6. Traces(input, pos, e, emitted, accepted)
      BY <1>3, <1>4, <3>3, <3>4, <3>5, ExecuteTraces
    <3>. QED  BY <2>2, <3>5, <3>6
  <2>. QED  BY <2>1, <2>2
<1>. HIDE DEF s, passed
<1>7. /\ scaler'.cache = s.cache /\ scaler'.last = s.last /\ scaler'.frozen = s.frozen
      /\ SameVersion(s, scaler')
  BY <1>2, <1>6 DEF ScalerType, SameVersion
<1>. QED
  BY <1>6, <1>7, TracesStay

\* A command.
LEMMA CommandTraced ==
  ASSUME Inv, Traces(input, pos, scaler, emitted, accepted), NEW c \in Commands, ProcessCommand(c)
  PROVE  Traces(input, pos, scaler', emitted, accepted') /\ accepted \subseteq accepted'
<1>1. scaler \in ScalerType(input)
  BY DEF Inv, TypeOK
<1>2. accepted \subseteq accepted'
  BY DEF ProcessCommand
<1>3. /\ scaler'.cache = scaler.cache /\ scaler'.last = scaler.last
      /\ scaler'.frozen = scaler.frozen /\ SameVersion(scaler, scaler')
  <2>1. \/ scaler' = scaler
        \/ scaler' = [scaler EXCEPT !.pending = @ \cup {c}, !.timers = @ \cup {c.eff}]
    BY DEF ProcessCommand
  <2>. QED  BY <1>1, <2>1 DEF ScalerType, SameVersion
<1>. QED
  BY <1>2, <1>3, TracesStay

--------------------------------------------------------------------------------
(* Slides. *)

\* A later multiple is at least one slide later.
LEMMA NextMultiple ==
  ASSUME NEW a \in Nat, NEW b \in Nat, NEW d \in Nat, a < b
  PROVE  a * d + d <= b * d
<1>. DEFINE k == b - a - 1
<1>1. k \in Nat /\ b = a + 1 + k
  OBVIOUS
<1>. HIDE DEF k
<1>2. (a + 1 + k) * d = a * d + d + k * d
  BY <1>1
<1>3. k * d >= 0
  BY <1>1
<1>4. a * d \in Nat /\ k * d \in Nat
  BY <1>1
<1>. QED
  BY <1>1, <1>2, <1>3, <1>4

\* A larger multiple is one of a larger number.
LEMMA LargerMultiple ==
  ASSUME NEW a \in Nat, NEW b \in Nat, NEW d \in Nat, a * d < b * d
  PROVE  a < b
<1>. SUFFICES ASSUME ~ (a < b)
              PROVE  FALSE
  OBVIOUS
<1>1. CASE a = b
  BY <1>1
<1>2. CASE b < a
  <2>1. b * d + d <= a * d
    BY <1>2, NextMultiple
  <2>2. a * d \in Nat /\ b * d \in Nat
    OBVIOUS
  <2>. QED  BY <2>1, <2>2
<1>. QED
  BY <1>1, <1>2

\* Every time is in a slide, and a window is not shorter than one.
LEMMA SlideOfTime ==
  ASSUME NEW t \in Nat
  PROVE  \E n \in Nat : n * SlideStep <= t /\ t < n * SlideStep + SlideStep
<1>. DEFINE N == {n \in Nat : n * SlideStep <= t}
<1>1. SlideStep \in Nat \ {0}
  BY SlideAssumption
<1>2. N \in SUBSET Nat /\ 0 \in N
  BY <1>1
<1>3. \A n \in N : n <= t
  <2>. SUFFICES ASSUME NEW n \in N, ~ (n <= t)
                PROVE  FALSE
    OBVIOUS
  <2>1. n * SlideStep >= n
    <3>1. n * 1 <= n * SlideStep
      BY <1>1
    <3>. QED  BY <1>1, <3>1
  <2>2. n * SlideStep \in Nat
    BY <1>1
  <2>. QED  BY <2>1, <2>2
<1>. HIDE DEF N
<1>4. PICK n \in N : \A x \in N : x <= n
  BY <1>2, <1>3, GreatestExists
<1>5. n \in Nat /\ n * SlideStep <= t
  BY <1>4 DEF N
<1>6. n + 1 \notin N
  BY <1>4, <1>5
<1>7. (n + 1) * SlideStep = n * SlideStep + SlideStep /\ n * SlideStep \in Nat
  BY <1>1, <1>5
<1>8. ~ ((n + 1) * SlideStep <= t)
  BY <1>5, <1>6 DEF N
<1>. QED
  BY <1>1, <1>5, <1>7, <1>8

\* A window is a whole number of slides, so at least one.
LEMMA SlideInWindow == SlideStep \in Nat \ {0} /\ Window \in Nat \ {0} /\ SlideStep <= Window
<1>1. SlideStep \in Nat \ {0} /\ Window % SlideStep = 0 /\ Window \in Nat \ {0}
  BY SlideAssumption, ScalerAssumption
<1>2. Window < SlideStep => Window % SlideStep = Window
  BY <1>1
<1>. QED
  BY <1>1, <1>2

\* The rounds sent are the first ones of the input, in order of time.
InOrder(inp, em) ==
  /\ Len(em) \in Nat /\ Len(em) <= Len(inp)
  /\ \A i \in 1..Len(em) :
       /\ em[i].ts = inp[i].ts /\ em[i].ts \in Nat \ {0}
       /\ em[i].missing = inp[i].missing /\ em[i].warmup = (i <= Warmup)
  /\ \A i, j \in 1..Len(em) : i < j => em[i].ts < em[j].ts

\* Outputs that line up with their inputs are in order.
LEMMA AlignedInOrder ==
  ASSUME NEW inp \in Inputs, NEW p \in 0..Len(inp), NEW s, NEW em, Aligned(inp, p, s, em)
  PROVE  InOrder(inp, em) /\ Len(em) = p
<1>1. Len(inp) \in Nat /\ Len(em) = p /\ Len(em) \in Nat /\ Len(em) <= Len(inp)
  BY RoundFacts DEF Aligned
<1>2. \A i \in 1..Len(em) : i \in 1..Len(inp)
  BY <1>1
<1>3. \A i \in 1..Len(em) : /\ em[i].ts = inp[i].ts /\ em[i].missing = inp[i].missing
                            /\ em[i].warmup = (i <= Warmup)
  BY <1>1, Zenon DEF Aligned
<1>4. \A i, j \in 1..Len(inp) : inp[i].ts \in Nat \ {0} /\ (i < j => inp[i].ts < inp[j].ts)
  BY RoundFacts
<1>5. \A i \in 1..Len(em) : em[i].ts \in Nat \ {0}
  BY <1>2, <1>3, <1>4, Zenon
<1>6. \A i, j \in 1..Len(em) : i < j => em[i].ts < em[j].ts
  BY <1>2, <1>3, <1>4, Zenon
<1>. QED
  BY <1>1, <1>3, <1>5, <1>6, Zenon DEF InOrder

\* The next slide ends at least one slide after f; nothing was admitted between f
\* and its own rounds, and it is the very next one when its window reaches back.
NextSlide(em, f, end) ==
  /\ f \in Nat /\ end \in Nat /\ f + SlideStep <= end
  /\ Between(em, f, end - SlideStep) = {}
  /\ Between(em, f - Window + SlideStep, f) # {} => end = f + SlideStep

\* The next window is a whole number of slides on, event time has passed it, and the
\* slides skipped on the way held no round.
LEMMA NextEndFacts ==
  ASSUME InOrder(input, emitted), wm \in Nat, MaxTime \in Nat, DueEnds # {}, fired = 0 \/ fired \in SlideEnds,
         NEW end, end = NextEnd
  PROVE  end \in SlideEnds /\ end <= wm + 1 /\ NextSlide(emitted, fired, end)
<1>. DEFINE K == (MaxTime + Window) \div SlideStep
<1>1. SlideStep \in Nat \ {0} /\ Window \in Nat \ {0} /\ SlideStep <= Window /\ K \in Int
  BY SlideInWindow
<1>2. SlideEnds = {n * SlideStep : n \in 1..K}
  BY DEF SlideEnds
<1>. HIDE DEF K
<1>3. \A n \in 1..K : n \in Nat /\ n * SlideStep \in Nat
  BY <1>1
<1>4. SlideEnds \in SUBSET Nat
  BY <1>2, <1>3
<1>5. DueEnds \in SUBSET Nat
  BY <1>4 DEF DueEnds
<1>6. end \in DueEnds /\ \A x \in DueEnds : end <= x
  <2>1. \E x \in DueEnds : \A y \in DueEnds : x <= y
    BY <1>5, LeastExists
  <2>. QED  BY <2>1 DEF NextEnd
<1>7. end \in SlideEnds /\ end > fired /\ end - 1 <= wm
  BY <1>6 DEF DueEnds
<1>8. PICK n \in 1..K : end = n * SlideStep
  BY <1>2, <1>7
<1>9. \E m \in Nat : fired = m * SlideStep /\ m < n
  <2>1. CASE fired = 0
    <3>1. fired = 0 * SlideStep /\ 0 < n
      BY <1>1, <1>8, <2>1
    <3>. QED  BY <3>1
  <2>2. CASE fired \in SlideEnds
    <3>1. PICK m \in 1..K : fired = m * SlideStep
      BY <1>2, <2>2
    <3>2. m \in Nat /\ n \in Nat /\ SlideStep \in Nat
      BY <1>1, <1>3
    <3>3. m * SlideStep < n * SlideStep
      BY <1>3, <1>7, <1>8, <3>1
    <3>4. m < n
      BY <3>2, <3>3, LargerMultiple
    <3>. QED  BY <3>1, <3>2, <3>4
  <2>. QED  BY <2>1, <2>2
<1>10. PICK m \in Nat : fired = m * SlideStep /\ m < n
  BY <1>9
<1>11. fired \in Nat /\ end \in Nat /\ n \in Nat /\ fired + SlideStep <= end
  BY <1>1, <1>3, <1>8, <1>10, NextMultiple
<1>12. ASSUME NEW k \in Nat, m < k, k < n
       PROVE  Elements(k * SlideStep) = {}
  <2>. DEFINE x == k * SlideStep
  <2>1. x + SlideStep <= end /\ fired + SlideStep <= x /\ x \in Nat
    BY <1>1, <1>8, <1>10, <1>11, <1>12, NextMultiple
  <2>2. x \in SlideEnds
    <3>1. k \in 1..K
      BY <1>1, <1>8, <1>12
    <3>. QED  BY <1>2, <3>1
  <2>. HIDE DEF x
  <2>3. x > fired /\ x - 1 <= wm /\ ~ (end <= x)
    BY <1>1, <1>7, <1>11, <2>1
  <2>4. x \notin DueEnds
    BY <1>6, <2>3
  <2>5. Elements(x) = {}
    BY <2>2, <2>3, <2>4 DEF DueEnds
  <2>. QED  BY <2>5 DEF x
<1>13. ASSUME NEW i \in AdmittedOf(emitted), NEW k \in Nat, m < k, k < n,
              k * SlideStep - Window <= emitted[i].ts, emitted[i].ts < k * SlideStep
       PROVE  FALSE
  <2>1. i \in Admitted /\ emitted[i].ts \in Nat
    BY DEF Admitted, AdmittedOf, InOrder
  <2>2. i \in Elements(k * SlideStep)
    BY <1>1, <1>13, <2>1 DEF Elements
  <2>. QED  BY <1>12, <1>13, <2>2
<1>14. Between(emitted, fired, end - SlideStep) = {}
  <2>. SUFFICES ASSUME NEW i \in AdmittedOf(emitted), fired <= emitted[i].ts,
                       emitted[i].ts < end - SlideStep
                PROVE  FALSE
    BY DEF Between
  <2>. DEFINE t == emitted[i].ts
  <2>1. t \in Nat
    BY DEF AdmittedOf, InOrder
  <2>2. PICK q \in Nat : q * SlideStep <= t /\ t < q * SlideStep + SlideStep
    BY <2>1, SlideOfTime
  <2>3. /\ (q + 1) * SlideStep = q * SlideStep + SlideStep /\ q + 1 \in Nat
        /\ q * SlideStep \in Nat /\ (q + 1) * SlideStep \in Nat
    BY <1>1
  <2>. HIDE DEF t
  <2>4. fired < (q + 1) * SlideStep
    BY <1>1, <1>11, <2>1, <2>2, <2>3 DEF t
  <2>5. m < q + 1
    BY <1>1, <1>10, <2>3, <2>4, LargerMultiple
  <2>6. (q + 1) * SlideStep < n * SlideStep
    BY <1>1, <1>8, <1>11, <2>1, <2>2, <2>3 DEF t
  <2>7. q + 1 < n
    BY <1>1, <1>11, <2>3, <2>6, LargerMultiple
  <2>8. (q + 1) * SlideStep - Window <= t /\ t < (q + 1) * SlideStep
    BY <1>1, <2>1, <2>2, <2>3
  <2>. QED  BY <1>13, <2>3, <2>5, <2>7, <2>8 DEF t
<1>15. ASSUME Between(emitted, fired - Window + SlideStep, fired) # {}
       PROVE  end = fired + SlideStep
  <2>1. PICK i \in AdmittedOf(emitted) : /\ fired - Window + SlideStep <= emitted[i].ts
                                         /\ emitted[i].ts < fired
    BY <1>15 DEF Between
  <2>2. (m + 1) * SlideStep = fired + SlideStep /\ m + 1 \in Nat /\ m < m + 1 /\ emitted[i].ts \in Nat
    BY <1>1, <1>10 DEF AdmittedOf, InOrder
  <2>3. ~ (m + 1 < n)
    <3>1. (m + 1) * SlideStep - Window <= emitted[i].ts /\ emitted[i].ts < (m + 1) * SlideStep
      BY <1>1, <1>11, <2>1, <2>2
    <3>. QED  BY <1>13, <2>2, <3>1
  <2>4. m + 1 = n
    BY <1>10, <1>11, <2>3
  <2>. QED  BY <1>8, <2>2, <2>4
<1>16. end <= wm + 1
  BY <1>7, <1>11
<1>. QED
  BY <1>1, <1>7, <1>11, <1>14, <1>15, <1>16 DEF NextSlide

\* What the detector keeps behind a window is what the next window has beside its
\* new rounds.
LEMMA KeptTimes ==
  ASSUME NEW inp, NEW em, InOrder(inp, em), NEW f, NEW end, NextSlide(em, f, end)
  PROVE  TimesOf(em, f - Window + SlideStep, f) = TimesOf(em, end - Window, end - SlideStep)
<1>1. /\ SlideStep \in Nat \ {0} /\ Window \in Nat \ {0} /\ SlideStep <= Window
      /\ f \in Nat /\ end \in Nat /\ f + SlideStep <= end
  BY SlideInWindow DEF NextSlide
<1>2. \A i \in AdmittedOf(em) : em[i].ts \in Nat
  BY DEF AdmittedOf, InOrder
<1>3. CASE end = f + SlideStep
  <2>1. end - Window = f - Window + SlideStep /\ end - SlideStep = f
    BY <1>1, <1>3
  <2>. QED  BY <2>1
<1>4. CASE end # f + SlideStep
  <2>1. Between(em, f - Window + SlideStep, f) = {} /\ Between(em, f, end - SlideStep) = {}
    BY <1>4, Zenon DEF NextSlide
  <2>2. Between(em, end - Window, end - SlideStep) = {}
    <3>. SUFFICES ASSUME NEW i \in AdmittedOf(em), end - Window <= em[i].ts,
                         em[i].ts < end - SlideStep
                  PROVE  FALSE
      BY DEF Between
    <3>1. CASE f <= em[i].ts
      BY <2>1, <3>1 DEF Between
    <3>2. CASE ~ (f <= em[i].ts)
      <4>1. f - Window + SlideStep <= em[i].ts /\ em[i].ts < f
        BY <1>1, <1>2, <3>2
      <4>. QED  BY <2>1, <4>1 DEF Between
    <3>. QED  BY <3>1, <3>2
  <2>. QED  BY <2>1, <2>2, Zenon DEF TimesOf
<1>. QED
  BY <1>3, <1>4

\* The rounds of one slide have one version: effective times are multiples of it.
VersionAt(inp, acc, t) == VersionAfter(DueAmong(inp, CmdsOf(acc), t))

\* The rounds of one slide carry the version in force when the slide began.
LEMMA SlideHasOneVersion ==
  ASSUME TimelyCommands, NEW inp, NEW em, InOrder(inp, em), NEW acc \in SUBSET AcceptedType,
         VersionsSent(inp, em, acc), NEW end \in SlideEnds,
         NEW i \in Between(em, end - SlideStep, end)
  PROVE  em[i].version = VersionAt(inp, acc, end - SlideStep)
<1>1. SlideStep \in Nat \ {0} /\ Window \in Nat \ {0}
  BY SlideInWindow
<1>2. PICK n \in 1..((MaxTime + Window) \div SlideStep) : end = n * SlideStep
  BY DEF SlideEnds
<1>3. n \in Nat /\ n * SlideStep \in Nat
  BY <1>1
<1>4. /\ i \in 1..Len(em) /\ ~em[i].warmup /\ em[i].ts \in Nat
      /\ end - SlideStep <= em[i].ts /\ em[i].ts < end
  BY DEF Between, AdmittedOf, InOrder
<1>5. ASSUME NEW c \in CmdsOf(acc)
      PROVE  c.eff <= em[i].ts <=> c.eff <= end - SlideStep
  <2>1. c \in Commands /\ c.eff \in Nat
    BY ScalerAssumption DEF CmdsOf, AcceptedType
  <2>2. PICK k \in 1..c.eff : c.eff = k * SlideStep
    BY <2>1 DEF TimelyCommands
  <2>3. k \in Nat
    BY <2>1
  <2>4. c.eff <= em[i].ts => c.eff + SlideStep <= end
    <3>. SUFFICES ASSUME c.eff <= em[i].ts
                  PROVE  c.eff + SlideStep <= end
      OBVIOUS
    <3>1. k * SlideStep < n * SlideStep
      BY <1>2, <1>3, <1>4, <2>1, <2>2
    <3>2. k < n
      BY <1>1, <1>3, <2>3, <3>1, LargerMultiple
    <3>3. k * SlideStep + SlideStep <= n * SlideStep
      BY <1>1, <1>3, <2>3, <3>2, NextMultiple
    <3>. QED  BY <1>2, <2>2, <3>3
  <2>. QED  BY <1>1, <1>2, <1>3, <1>4, <2>1, <2>4
<1>6. DueAmong(inp, CmdsOf(acc), em[i].ts) = DueAmong(inp, CmdsOf(acc), end - SlideStep)
  BY <1>5 DEF DueAmong
<1>. QED
  BY <1>4, <1>6, Zenon DEF VersionsSent, VersionAt

--------------------------------------------------------------------------------
(* What a slide makes of the detector m.                                      *)

SlideState(m, end) ==
  LET adopted == Adopted(Cleared(m, end), end)
      refilled == Switched(adopted, end)
  IN  [refilled EXCEPT !.points = @ \cup Inserted(adopted, end)]

IsState(m) == DOMAIN m = {"points", "version", "start"}
Enters(end) == {Point(i) : i \in Fresh(end)}
IsEarliest(k, S) == k \in S /\ \A j \in S : k <= j

\* Without a new round it stays as it is.
LEMMA SlideWithoutNew ==
  ASSUME NEW m, IsState(m), NEW end, Fresh(end) = {}, NEW full, full = SlideState(m, end)
  PROVE  /\ IsState(full) /\ full.points = m.points
         /\ full.version = m.version /\ full.start = m.start
<1>1. Cleared(m, end) = m
  BY DEF Cleared
<1>2. Adopted(m, end) = m
  BY DEF Adopted
<1>3. Switches(m, end) = {}
  BY DEF Switches
<1>4. Switched(m, end) = m /\ Inserted(m, end) = {}
  BY <1>3 DEF Switched, Inserted
<1>5. full = [m EXCEPT !.points = m.points \cup {}]
  BY <1>1, <1>2, <1>4 DEF SlideState
<1>. QED
  BY <1>5 DEF IsState

\* A cold round among the new ones leaves nothing of the old points.
ClearedPoints(m, end) == IF \E i \in Fresh(end) : emitted[i].cold THEN {} ELSE m.points

\* Clearing for a cold start touches the points only.
LEMMA ClearedIs ==
  ASSUME NEW m, IsState(m), NEW end, NEW x, x = Cleared(m, end)
  PROVE  /\ IsState(x) /\ x.points = ClearedPoints(m, end)
         /\ x.version = m.version /\ x.start = m.start
BY DEF IsState, Cleared, ClearedPoints

\* With new rounds of its version, or the first, it keeps what it has.
NewOf(end, v, k) ==
  /\ \A i \in Fresh(end) : emitted[i].version = v
  /\ IsEarliest(k, Fresh(end)) /\ Earliest(Fresh(end)) = k
Keeps(full, m, end, v) ==
  /\ IsState(full) /\ full.version = v /\ full.start = m.start
  /\ full.points = ClearedPoints(m, end) \cup Enters(end)

\* New rounds of the version in force join the points that are left.
LEMMA SlideOfSameVersion ==
  ASSUME NEW m, IsState(m), NEW end, NEW v, NEW k, NewOf(end, v, k), m.version \in {NoVersion, v}
  PROVE  Keeps(SlideState(m, end), m, end, v)
<1>. DEFINE full == SlideState(m, end)
            x == Cleared(m, end)
            a == Adopted(x, end)
<1>1. /\ IsState(x) /\ x.points = ClearedPoints(m, end)
      /\ x.version = m.version /\ x.start = m.start
  BY ClearedIs
<1>. HIDE DEF x
<1>2. k \in Fresh(end) /\ emitted[k].version = v /\ Earliest(Fresh(end)) = k
  BY Zenon DEF NewOf, IsEarliest
<1>3. IsState(a) /\ a.version = v /\ a.points = x.points /\ a.start = x.start
  BY <1>1, <1>2 DEF Adopted, IsState
<1>4. full = [Switched(a, end) EXCEPT !.points = @ \cup Inserted(a, end)]
  BY DEF SlideState, x
<1>. HIDE DEF a
<1>. HIDE DEF full
<1>5. Switches(a, end) = {}
  BY <1>3 DEF Switches, NewOf
<1>6. Switched(a, end) = a /\ Inserted(a, end) = Enters(end)
  BY <1>5 DEF Switched, Inserted, Enters
<1>7. full = [a EXCEPT !.points = a.points \cup Enters(end)]
  BY <1>4, <1>6
<1>8. Keeps(full, m, end, v)
  BY <1>1, <1>3, <1>7 DEF IsState, Keeps
<1>. QED
  BY <1>8 DEF full

\* With new rounds of another version it is refilled from the backfill of the
\* first of them.
Refills(backfill, end, t) ==
  {[ts |-> q.ts, params |-> {q.params}] : q \in {r \in UNION backfill : r.ts >= end - Window /\ r.ts < t}}

Refilled(full, end, v, k) ==
  /\ IsState(full) /\ full.version = v /\ full.start = emitted[k].ts
  /\ full.points = Refills(emitted[k].backfill, end, emitted[k].ts) \cup Enters(end)

\* New rounds of another version replace the points by the backfill and themselves.
LEMMA SlideOfNewVersion ==
  ASSUME NEW m, IsState(m), NEW end, NEW v, NEW k, NewOf(end, v, k), m.version \notin {NoVersion, v}
  PROVE  Refilled(SlideState(m, end), end, v, k)
<1>. DEFINE full == SlideState(m, end)
            x == Cleared(m, end)
            R == Refills(emitted[k].backfill, end, emitted[k].ts)
<1>1. IsState(x) /\ x.version = m.version
  BY ClearedIs
<1>2. full = LET a == Adopted(x, end)
             IN  [Switched(a, end) EXCEPT !.points = @ \cup Inserted(a, end)]
  BY DEF SlideState
<1>. HIDE DEF x, full
<1>3. /\ k \in Fresh(end) /\ emitted[k].version = v /\ \A j \in Fresh(end) : k <= j
      /\ Earliest(Fresh(end)) = k /\ \A j \in Fresh(end) : emitted[j].version = v
  BY Zenon DEF NewOf, IsEarliest
<1>4. Adopted(x, end) = x
  BY <1>1 DEF Adopted
<1>5. Switches(x, end) = Fresh(end)
  BY <1>1, <1>3 DEF Switches
<1>6. Switched(x, end) = Refill(x, k, end)
  BY <1>3, <1>5 DEF Switched
<1>7. Inserted(x, end) = Enters(end)
  <2>1. \A i \in Fresh(end) : i >= k
    BY <1>3 DEF Fresh, Elements, Admitted
  <2>. QED  BY <1>3, <1>5, <2>1 DEF Inserted, Enters
<1>8. Refill(x, k, end) = [points |-> R, version |-> v, start |-> emitted[k].ts]
  BY <1>3, Zenon DEF Refill, Refills
<1>9. full = [Refill(x, k, end) EXCEPT !.points = @ \cup Enters(end)]
  BY <1>2, <1>4, <1>6, <1>7
<1>. HIDE DEF R
<1>10. full = [points |-> R \cup Enters(end), version |-> v, start |-> emitted[k].ts]
  <2>. DEFINE y == [points |-> R, version |-> v, start |-> emitted[k].ts]
              new == Enters(end)
  <2>1. full = [y EXCEPT !.points = @ \cup new]
    BY <1>8, <1>9, Zenon
  <2>. HIDE DEF new
  <2>2. full = [points |-> R \cup new, version |-> v, start |-> emitted[k].ts]
    BY <2>1
  <2>. QED  BY <2>2, Zenon DEF new
<1>11. Refilled(full, end, v, k)
  BY <1>10 DEF R, IsState, Refilled
<1>. QED
  BY <1>11 DEF full

--------------------------------------------------------------------------------
(* What it then holds. *)

\* Windows and new rounds of the model in terms of the rounds sent.
LEMMA FreshIs ==
  ASSUME NEW inp, InOrder(inp, emitted), NEW end \in Nat
  PROVE  /\ Fresh(end) = Between(emitted, end - SlideStep, end)
         /\ Elements(end) = Between(emitted, end - Window, end)
<1>1. SlideStep \in Nat \ {0} /\ Window \in Nat \ {0} /\ SlideStep <= Window
  BY SlideInWindow
<1>2. Admitted = AdmittedOf(emitted) /\ \A i \in AdmittedOf(emitted) : emitted[i].ts \in Nat
  BY DEF Admitted, AdmittedOf, InOrder
<1>3. Elements(end) = Between(emitted, end - Window, end)
  BY <1>1, <1>2 DEF Elements, Between
<1>4. Fresh(end) = Between(emitted, end - SlideStep, end)
  BY <1>1, <1>2, <1>3 DEF Fresh, Between
<1>. QED
  BY <1>3, <1>4

\* A non-empty set of positions has an earliest one.
LEMMA EarliestExists ==
  ASSUME NEW n \in Nat, NEW S \in SUBSET (1..n), S # {}
  PROVE  IsEarliest(Earliest(S), S)
<1>1. S \in SUBSET Nat
  OBVIOUS
<1>2. \E i \in S : \A j \in S : i <= j
  BY <1>1, LeastExists
<1>. QED
  BY <1>2 DEF Earliest, IsEarliest

\* If a round was admitted before f, there is a last such round.
LEMMA LastExists ==
  ASSUME NEW inp, NEW em, InOrder(inp, em), NEW f, NEW i \in AdmittedOf(em), em[i].ts < f
  PROVE  \E k \in AdmittedOf(em) : IsLast(em, k, f)
<1>. DEFINE S == {j \in AdmittedOf(em) : em[j].ts < f}
<1>1. Len(em) \in Nat /\ S \in SUBSET Nat /\ S # {} /\ \A j \in S : j <= Len(em)
  BY DEF AdmittedOf, InOrder
<1>2. PICK k \in S : \A j \in S : j <= k
  BY <1>1, GreatestExists
<1>. QED
  BY <1>2 DEF IsLast

\* Two rounds of increasing times: the order of times is that of the indices.
LEMMA OrderOfTimes ==
  ASSUME NEW inp, NEW em, InOrder(inp, em), NEW i \in 1..Len(em), NEW j \in 1..Len(em)
  PROVE  (i <= j <=> em[i].ts <= em[j].ts) /\ (i < j <=> em[i].ts < em[j].ts)
<1>1. em[i].ts \in Nat /\ em[j].ts \in Nat /\ Len(em) \in Nat
  BY DEF InOrder
<1>2. i < j => em[i].ts < em[j].ts
  BY Zenon DEF InOrder
<1>3. j < i => em[j].ts < em[i].ts
  BY Zenon DEF InOrder
<1>. QED
  BY <1>1, <1>2, <1>3

\* Times over adjacent spans join to those over both.
LEMMA TimesJoin ==
  ASSUME NEW inp, NEW em, InOrder(inp, em), NEW a \in Int, NEW b \in Int, NEW c \in Int, a <= b, b <= c
  PROVE  TimesOf(em, a, c) = TimesOf(em, a, b) \cup TimesOf(em, b, c)
<1>1. \A i \in AdmittedOf(em) : em[i].ts \in Nat
  BY DEF AdmittedOf, InOrder
<1>2. Between(em, a, c) = Between(em, a, b) \cup Between(em, b, c)
  BY <1>1 DEF Between
<1>. QED
  BY <1>2 DEF TimesOf

\* The points that enter are those of the new rounds.
LEMMA TimesOfEntering ==
  ASSUME NEW inp, InOrder(inp, emitted), NEW end \in Nat
  PROVE  PointTimes(Enters(end)) = TimesOf(emitted, end - SlideStep, end)
<1>1. Fresh(end) = Between(emitted, end - SlideStep, end)
  BY FreshIs
<1>2. \A i : Point(i).ts = emitted[i].ts
  BY DEF Point
<1>. QED
  BY <1>1, <1>2 DEF PointTimes, Enters, TimesOf

\* Times of the points of a union.
LEMMA PointTimesJoin ==
  ASSUME NEW A, NEW B
  PROVE  PointTimes(A \cup B) = PointTimes(A) \cup PointTimes(B)
BY DEF PointTimes

\* With new rounds, all of one version and under the same parameters, the last
\* round before the end is one of them.
LEMMA LastIsNew ==
  ASSUME NEW inp, NEW em, InOrder(inp, em), NEW end \in Nat,
         NEW i \in Between(em, end - SlideStep, end), NEW v, NEW params,
         \A j \in Between(em, end - SlideStep, end) : em[j].version = v /\ em[j].params = params,
         NEW full, full.version = v, \A q \in full.points : q.params = params
  PROVE  LikeLast(em, full, end) /\ Unused(em, full, end)
<1>1. SlideStep \in Nat
  BY SlideInWindow
<1>2. /\ i \in AdmittedOf(em) /\ i \in 1..Len(em) /\ end - SlideStep <= em[i].ts
      /\ em[i].ts < end /\ em[i].ts \in Nat
  BY DEF Between, AdmittedOf, InOrder
<1>3. ASSUME NEW k \in AdmittedOf(em), IsLast(em, k, end)
      PROVE  k \in Between(em, end - SlideStep, end)
  <2>1. k \in 1..Len(em) /\ em[k].ts \in Nat /\ em[k].ts < end /\ i <= k
    BY <1>2, <1>3 DEF IsLast, AdmittedOf, InOrder
  <2>2. em[i].ts <= em[k].ts
    BY <1>2, <2>1, OrderOfTimes
  <2>. QED  BY <1>1, <1>2, <2>1, <2>2 DEF Between
<1>4. LikeLast(em, full, end)
  <2>. SUFFICES ASSUME NEW k \in AdmittedOf(em), IsLast(em, k, end)
                PROVE  full.version = em[k].version /\ \A q \in full.points : q.params = em[k].params
    BY Zenon DEF LikeLast
  <2>1. em[k].version = v /\ em[k].params = params
    BY <1>3, Zenon
  <2>. QED  BY <2>1
<1>5. Unused(em, full, end)
  BY <1>2, Zenon DEF Unused
<1>. QED
  BY <1>4, <1>5

\* A slide without new rounds.
LEMMA WindowWithoutNew ==
  ASSUME NEW inp, NEW em, InOrder(inp, em), NEW f, NEW end, NextSlide(em, f, end),
         NEW m, HoldsFrom(em, m, f - Window + SlideStep, f), Between(em, end - SlideStep, end) = {},
         NEW full, full.points = m.points, full.version = m.version
  PROVE  HoldsFrom(em, full, end - Window, end)
<1>1. /\ SlideStep \in Nat \ {0} /\ Window \in Nat \ {0} /\ SlideStep <= Window
      /\ f \in Nat /\ end \in Nat /\ f + SlideStep <= end
  BY SlideInWindow DEF NextSlide
<1>2. \A i \in AdmittedOf(em) : em[i].ts \in Nat
  BY DEF AdmittedOf, InOrder
<1>3. PointTimes(full.points) = TimesOf(em, end - Window, end)
  <2>1. PointTimes(m.points) = TimesOf(em, end - Window, end - SlideStep)
    BY KeptTimes, Zenon DEF HoldsFrom
  <2>2. TimesOf(em, end - SlideStep, end) = {}
    BY Zenon DEF TimesOf
  <2>3. TimesOf(em, end - Window, end)
          = TimesOf(em, end - Window, end - SlideStep) \cup TimesOf(em, end - SlideStep, end)
    <3>. DEFINE a == end - Window
                b == end - SlideStep
    <3>1. a \in Int /\ b \in Int /\ end \in Int /\ a <= b /\ b <= end
      BY <1>1
    <3>. HIDE DEF a, b
    <3>2. TimesOf(em, a, end) = TimesOf(em, a, b) \cup TimesOf(em, b, end)
      BY <3>1, TimesJoin
    <3>. QED  BY <3>2 DEF a, b
  <2>. QED  BY <2>1, <2>2, <2>3
<1>4. ASSUME NEW k \in AdmittedOf(em), em[k].ts < end
      PROVE  em[k].ts < f
  <2>1. em[k].ts < end - SlideStep
    <3>1. ~ (end - SlideStep <= em[k].ts)
      BY <1>4 DEF Between
    <3>. QED  BY <1>1, <1>2, <3>1
  <2>2. ~ (f <= em[k].ts)
    BY <2>1 DEF NextSlide, Between
  <2>. QED  BY <1>1, <1>2, <2>2
<1>5. ASSUME NEW k \in AdmittedOf(em), em[k].ts < f
      PROVE  em[k].ts < end
  BY <1>1, <1>2, <1>5
<1>6. ASSUME NEW k \in AdmittedOf(em), IsLast(em, k, end)
      PROVE  IsLast(em, k, f)
  BY <1>4, <1>5, <1>6, Zenon DEF IsLast
<1>7. LikeLast(em, full, end)
  <2>. SUFFICES ASSUME NEW k \in AdmittedOf(em), IsLast(em, k, end)
                PROVE  full.version = em[k].version /\ \A q \in full.points : q.params = em[k].params
    BY Zenon DEF LikeLast
  <2>. QED  BY <1>6, Zenon DEF LikeLast, HoldsFrom
<1>8. Unused(em, full, end)
  BY <1>5, Zenon DEF Unused, HoldsFrom
<1>. QED
  BY <1>3, <1>7, <1>8, Zenon DEF HoldsFrom

\* Rounds that are normalized have a version.
LEMMA VersionIsSome ==
  ASSUME NEW inp \in Inputs, NEW tp \in Seq(Commands), NEW s, NEW acc \in SUBSET AcceptedType,
         Waiting(tp, s, acc), NEW t \in Nat
  PROVE  VersionAt(inp, acc, t) \in Nat \ {0}
<1>. DEFINE due == DueAmong(inp, CmdsOf(acc), t)
            c == Latest(due)
<1>1. \/ due = {} /\ VersionAfter(due) = 1
      \/ IsLatest(c, due) /\ VersionAfter(due) = c.seq + 1
  BY VersionAfterIs
<1>2. due \subseteq Commands
  BY DEF DueAmong, CmdsOf, AcceptedType
<1>. HIDE DEF due, c
<1>3. IsLatest(c, due) => c.seq \in Nat
  BY <1>2, ScalerAssumption DEF IsLatest
<1>4. VersionAfter(due) \in Nat \ {0}
  BY <1>1, <1>3
<1>. QED
  BY <1>4, Zenon DEF due, VersionAt

\* The new rounds of a slide, all of version v under the same parameters.
NewAre(em, end, v, params) ==
  /\ Between(em, end - SlideStep, end) # {}
  /\ \A i \in Between(em, end - SlideStep, end) : em[i].version = v /\ em[i].params = params

\* With new rounds of the detector's version, or the first, what it held stays, and
\* a cold round among them clears nothing that is in the window.
LEMMA WindowOfSameVersion ==
  ASSUME NEW inp \in Inputs, InOrder(inp, emitted), NEW f, NEW end, NextSlide(emitted, f, end),
         NEW m, HoldsFrom(emitted, m, f - Window + SlideStep, f),
         NEW v, NEW params, NewAre(emitted, end, v, params),
         Absence >= Window, ColdSent(emitted), SameParams(emitted),
         \A i \in AdmittedOf(emitted) : emitted[i].version # NoVersion,
         m.version \in {NoVersion, v},
         NEW full, full.version = v, full.points = ClearedPoints(m, end) \cup Enters(end)
  PROVE  HoldsFrom(emitted, full, end - Window, end)
<1>1. /\ SlideStep \in Nat \ {0} /\ Window \in Nat \ {0} /\ SlideStep <= Window
      /\ f \in Nat /\ end \in Nat /\ f + SlideStep <= end /\ Absence \in Nat
  BY SlideInWindow, ScalerAssumption DEF NextSlide
<1>2. \A i \in AdmittedOf(emitted) : i \in 1..Len(emitted) /\ emitted[i].ts \in Nat /\ ~emitted[i].warmup
  BY DEF AdmittedOf, InOrder
<1>3. Fresh(end) = Between(emitted, end - SlideStep, end)
  BY <1>1, FreshIs
<1>4. PICK n \in Between(emitted, end - SlideStep, end) : TRUE
  BY DEF NewAre
<1>5. n \in AdmittedOf(emitted) /\ emitted[n].version = v /\ emitted[n].params = params
  BY <1>4, Zenon DEF NewAre, Between
<1>6. PointTimes(ClearedPoints(m, end)) = TimesOf(emitted, end - Window, end - SlideStep)
  <2>1. PointTimes(m.points) = TimesOf(emitted, end - Window, end - SlideStep)
    BY KeptTimes, Zenon DEF HoldsFrom
  <2>2. CASE ~ \E i \in Fresh(end) : emitted[i].cold
    BY <2>1, <2>2 DEF ClearedPoints
  <2>3. CASE \E i \in Fresh(end) : emitted[i].cold
    <3>1. PICK i \in Fresh(end) : emitted[i].cold
      BY <2>3
    <3>2. i \in AdmittedOf(emitted) /\ end - SlideStep <= emitted[i].ts /\ emitted[i].ts < end
      BY <1>3, <3>1 DEF Between
    <3>3. ASSUME NEW j \in AdmittedOf(emitted), end - Window <= emitted[j].ts,
                 emitted[j].ts < end - SlideStep
          PROVE  FALSE
      <4>1. emitted[j].ts < emitted[i].ts
        BY <1>1, <1>2, <3>2, <3>3
      <4>2. i \in 1..Len(emitted) /\ j \in 1..Len(emitted)
        BY <1>2, <3>2
      <4>3. j < i
        BY <4>1, <4>2, OrderOfTimes
      <4>4. emitted[j].ts + Absence < emitted[i].ts
        BY <3>1, <4>2, <4>3, Zenon DEF ColdSent
      <4>. QED  BY <1>1, <1>2, <3>2, <3>3, <4>4
    <3>4. TimesOf(emitted, end - Window, end - SlideStep) = {}
      BY <3>3 DEF TimesOf, Between
    <3>5. PointTimes(ClearedPoints(m, end)) = {}
      BY <2>3 DEF ClearedPoints, PointTimes
    <3>. QED  BY <3>4, <3>5
  <2>. QED  BY <2>2, <2>3
<1>7. PointTimes(full.points) = TimesOf(emitted, end - Window, end)
  <2>. DEFINE a == end - Window
              b == end - SlideStep
  <2>1. a \in Int /\ b \in Int /\ end \in Int /\ a <= b /\ b <= end
    BY <1>1
  <2>2. PointTimes(full.points) = PointTimes(ClearedPoints(m, end)) \cup PointTimes(Enters(end))
    BY PointTimesJoin
  <2>3. PointTimes(Enters(end)) = TimesOf(emitted, b, end)
    BY <1>1, TimesOfEntering
  <2>4. PointTimes(ClearedPoints(m, end)) = TimesOf(emitted, a, b)
    BY <1>6
  <2>. HIDE DEF a, b
  <2>5. TimesOf(emitted, a, end) = TimesOf(emitted, a, b) \cup TimesOf(emitted, b, end)
    BY <2>1, TimesJoin
  <2>6. PointTimes(full.points) = TimesOf(emitted, a, end)
    BY <2>2, <2>3, <2>4, <2>5
  <2>. QED  BY <2>6 DEF a
<1>8. ASSUME NEW q \in m.points
      PROVE  q.params = params
  <2>1. PICK j \in AdmittedOf(emitted) : emitted[j].ts < f
    <3>1. q.ts \in PointTimes(m.points)
      BY DEF PointTimes
    <3>2. q.ts \in TimesOf(emitted, f - Window + SlideStep, f)
      BY <3>1, Zenon DEF HoldsFrom
    <3>. QED  BY <3>2, Zenon DEF TimesOf, Between
  <2>2. PICK k \in AdmittedOf(emitted) : IsLast(emitted, k, f)
    BY <2>1, LastExists
  <2>3. m.version = emitted[k].version /\ q.params = emitted[k].params
    BY <2>2, Zenon DEF HoldsFrom, LikeLast
  <2>4. emitted[k].version = v
    BY <2>3, Zenon
  <2>5. emitted[k].params = emitted[n].params
    BY <1>2, <1>5, <2>4, Zenon DEF SameParams
  <2>. QED  BY <1>5, <2>3, <2>5, Zenon
<1>9. \A q \in full.points : q.params = params
  <2>1. \A q \in ClearedPoints(m, end) : q \in m.points
    BY DEF ClearedPoints
  <2>2. \A q \in Enters(end) : q.params = params
    <3>1. \A i \in Fresh(end) : emitted[i].params = params
      BY <1>3, Zenon DEF NewAre
    <3>. QED  BY <3>1 DEF Enters, Point
  <2>. QED  BY <1>8, <2>1, <2>2
<1>10. LikeLast(emitted, full, end) /\ Unused(emitted, full, end)
  <2>1. \A j \in Between(emitted, end - SlideStep, end) : emitted[j].version = v /\ emitted[j].params = params
    BY Zenon DEF NewAre
  <2>. QED  BY <1>1, <1>4, <1>9, <2>1, LastIsNew
<1>. QED
  BY <1>7, <1>10, Zenon DEF HoldsFrom

\* What is due by an earlier time is due by a later one.
LEMMA DueGrows ==
  ASSUME NEW inp, NEW acc \in SUBSET AcceptedType, NEW t \in Nat, NEW u \in Nat, t <= u
  PROVE  /\ DueAmong(inp, CmdsOf(acc), t) \subseteq DueAmong(inp, CmdsOf(acc), u)
         /\ DueAmong(inp, CmdsOf(acc), u) \in SUBSET Commands
<1>1. \A c \in CmdsOf(acc) : c \in Commands /\ c.eff \in Nat
  BY ScalerAssumption DEF CmdsOf, AcceptedType
<1>. QED
  BY <1>1 DEF DueAmong

\* The command a version is of is the latest one due.
LEMMA CommandOfVersion ==
  ASSUME NEW inp \in Inputs, NEW tp \in Seq(Commands), SeqIsName(tp), NEW s,
         NEW acc \in SUBSET AcceptedType, Waiting(tp, s, acc), NEW t \in Nat,
         NEW c \in CmdsOf(acc), VersionAt(inp, acc, t) = c.seq + 1
  PROVE  LET due == DueAmong(inp, CmdsOf(acc), t) IN IsLatest(c, due)
<1>. DEFINE due == DueAmong(inp, CmdsOf(acc), t)
            d == Latest(due)
<1>1. \/ due = {} /\ VersionAfter(due) = 1
      \/ IsLatest(d, due) /\ VersionAfter(due) = d.seq + 1
  BY VersionAfterIs
<1>2. VersionAfter(due) = c.seq + 1
  BY Zenon DEF VersionAt
<1>3. \A x \in due : x \in CmdsOf(acc)
  BY DEF DueAmong
<1>. HIDE DEF due, d
<1>4. \A x \in CmdsOf(acc) : x.seq \in Nat \ {0}
  BY ScalerAssumption DEF CmdsOf, AcceptedType
<1>5. IsLatest(d, due) /\ d.seq = c.seq
  <2>1. c.seq + 1 # 1
    BY <1>4
  <2>2. IsLatest(d, due) /\ d.seq + 1 = c.seq + 1
    BY <1>1, <1>2, <2>1
  <2>3. d \in CmdsOf(acc)
    BY <1>3, <2>2 DEF IsLatest
  <2>4. d.seq \in Nat /\ c.seq \in Nat
    BY <1>4, <2>3
  <2>. QED  BY <2>2, <2>4
<1>6. d = c
  <2>1. d \in CmdsOf(acc)
    BY <1>3, <1>5 DEF IsLatest
  <2>2. PICK i \in 1..Len(tp) : tp[i] = c
    BY Zenon DEF Waiting
  <2>3. PICK j \in 1..Len(tp) : tp[j] = d
    BY <2>1, Zenon DEF Waiting
  <2>. QED  BY <1>5, <2>2, <2>3, Zenon DEF SeqIsName
<1>. QED
  BY <1>5, <1>6 DEF due

\* A version that was in force before and is again was in force in between.
LEMMA VersionBetween ==
  ASSUME NEW inp \in Inputs, NEW tp \in Seq(Commands), SeqIsName(tp), NEW s,
         NEW acc \in SUBSET AcceptedType, Waiting(tp, s, acc),
         NEW t \in Nat, NEW u \in Nat, NEW x \in Nat, t <= u, u <= x,
         VersionAt(inp, acc, t) = VersionAt(inp, acc, x)
  PROVE  VersionAt(inp, acc, u) = VersionAt(inp, acc, x)
<1>. DEFINE D(z) == DueAmong(inp, CmdsOf(acc), z)
<1>1. D(t) \subseteq D(u) /\ D(u) \subseteq D(x) /\ D(x) \in SUBSET Commands /\ D(u) \in SUBSET Commands
  BY DueGrows
<1>2. \/ D(t) = {} /\ VersionAfter(D(t)) = 1
      \/ IsLatest(Latest(D(t)), D(t)) /\ VersionAfter(D(t)) = Latest(D(t)).seq + 1
  BY VersionAfterIs
<1>3. \/ D(x) = {} /\ VersionAfter(D(x)) = 1
      \/ IsLatest(Latest(D(x)), D(x)) /\ VersionAfter(D(x)) = Latest(D(x)).seq + 1
  BY VersionAfterIs
<1>4. VersionAt(inp, acc, t) = VersionAfter(D(t)) /\ VersionAt(inp, acc, u) = VersionAfter(D(u))
      /\ VersionAt(inp, acc, x) = VersionAfter(D(x))
  BY Zenon DEF VersionAt
<1>5. CASE D(x) = {}
  <2>1. D(u) = {}
    BY <1>1, <1>5
  <2>. QED  BY <1>4, <1>5, <2>1
<1>6. CASE D(x) # {}
  <2>. DEFINE c == Latest(D(t))
  <2>1. \A z \in D(x) : z.seq \in Nat \ {0}
    BY <1>1, ScalerAssumption
  <2>2. VersionAfter(D(x)) # 1
    BY <1>3, <1>6, <2>1 DEF IsLatest
  <2>3. IsLatest(c, D(t)) /\ VersionAt(inp, acc, x) = c.seq + 1
    BY <1>2, <1>4, <2>2, Zenon
  <2>. HIDE DEF c
  <2>4. c \in CmdsOf(acc)
    BY <2>3 DEF IsLatest, DueAmong
  <2>5. IsLatest(c, D(x))
    BY <2>3, <2>4, CommandOfVersion
  <2>6. IsLatest(c, D(u)) /\ c \in D(u)
    BY <1>1, <2>3, <2>5 DEF IsLatest
  <2>7. VersionAfter(D(u)) = c.seq + 1
    <3>. HIDE DEF D
    <3>. QED  BY <1>1, <2>6, LatestIsOne
  <2>. QED  BY <1>4, <2>3, <2>7
<1>. QED
  BY <1>5, <1>6

\* What the scaler has sent, when no command was stored that was late before.
ScalerSends(inp, tp, s, em, acc) ==
  /\ InOrder(inp, em) /\ SeqIsName(tp) /\ Waiting(tp, s, acc)
  /\ VersionsSent(inp, em, acc) /\ SentOnce(em) /\ FillsSent(inp, em, acc)
  /\ ColdSent(em) /\ SameParams(em)

\* A backfill that reaches from before the window up to the slide, with all that
\* was admitted before.
Covers(inp, em, f, end, backfill, eff) ==
  /\ Fills(inp, backfill, eff)
  /\ inp[Warmup].ts < eff /\ eff <= end - SlideStep
  /\ \A j \in AdmittedOf(em) : em[j].ts < f => em[j].ts < eff

\* The round that switches the version has such a backfill.
LEMMA SwitchHasBackfill ==
  ASSUME TimelyCommands, NEW inp \in Inputs, NEW tp \in Seq(Commands), NEW s,
         NEW acc \in SUBSET AcceptedType, NEW em, ScalerSends(inp, tp, s, em, acc),
         NEW f, NEW end \in SlideEnds, NextSlide(em, f, end),
         NEW m, LikeLast(em, m, f), Unused(em, m, f),
         NEW v, NEW params, NewAre(em, end, v, params),
         NEW k, IsEarliest(k, Between(em, end - SlideStep, end)), m.version \notin {NoVersion, v}
  PROVE  \E c \in Commands : Covers(inp, em, f, end, em[k].backfill, c.eff)
<1>1. /\ SlideStep \in Nat \ {0} /\ f \in Nat /\ end \in Nat /\ f + SlideStep <= end
      /\ end - SlideStep \in Nat
  BY SlideInWindow DEF NextSlide
<1>2. /\ InOrder(inp, em) /\ SeqIsName(tp) /\ Waiting(tp, s, acc)
      /\ VersionsSent(inp, em, acc) /\ SentOnce(em) /\ FillsSent(inp, em, acc)
  BY Zenon DEF ScalerSends
<1>3. \A i \in AdmittedOf(em) : /\ i \in 1..Len(em) /\ em[i].ts \in Nat
                                /\ ~em[i].warmup /\ ~em[i].missing
  BY <1>2 DEF AdmittedOf, InOrder
<1>. DEFINE b == end - SlideStep
            V(t) == VersionAt(inp, acc, t)
            D(t) == DueAmong(inp, CmdsOf(acc), t)
<1>4. PICK l \in AdmittedOf(em) : IsLast(em, l, f)
  <2>1. \E i \in AdmittedOf(em) : em[i].ts < f
    BY Zenon DEF Unused
  <2>. QED  BY <1>2, <2>1, LastExists
<1>5. /\ l \in 1..Len(em) /\ em[l].ts \in Nat /\ em[l].ts < f
      /\ \A j \in AdmittedOf(em) : em[j].ts < f => j <= l
  BY <1>3, <1>4, Zenon DEF IsLast
<1>6. k \in Between(em, b, end) /\ em[k].version = v /\ \A j \in Between(em, b, end) : k <= j
  BY Zenon DEF IsEarliest, NewAre
<1>7. k \in AdmittedOf(em) /\ b <= em[k].ts /\ em[k].ts < end
  BY <1>6, Zenon DEF Between
<1>8. v = V(b)
  BY <1>2, <1>6, SlideHasOneVersion
<1>9. V(em[l].ts) # v
  <2>1. em[l].version = m.version
    BY <1>4, Zenon DEF LikeLast
  <2>2. em[l].version = V(em[l].ts)
    BY <1>2, <1>3, <1>5, Zenon DEF VersionsSent, VersionAt
  <2>. QED  BY <2>1, <2>2, Zenon
<1>10. em[l].ts <= b /\ b \in Nat
  BY <1>1, <1>5
<1>. HIDE DEF b
<1>11. D(em[l].ts) \subseteq D(b) /\ D(b) \in SUBSET Commands /\ D(em[l].ts) \in SUBSET Commands
  BY <1>5, <1>10, DueGrows
<1>12. v # 1
  <2>. SUFFICES ASSUME v = 1
                PROVE  FALSE
    OBVIOUS
  <2>1. \/ D(b) = {} /\ VersionAfter(D(b)) = 1
        \/ IsLatest(Latest(D(b)), D(b)) /\ VersionAfter(D(b)) = Latest(D(b)).seq + 1
    BY <1>2, <1>10, VersionAfterIs
  <2>2. \A z \in D(b) : z.seq \in Nat \ {0}
    BY <1>11, ScalerAssumption
  <2>3. VersionAfter(D(b)) = 1
    BY <1>8, Zenon DEF VersionAt
  <2>. HIDE DEF D
  <2>4. D(b) = {}
    BY <2>1, <2>2, <2>3 DEF IsLatest
  <2>5. D(em[l].ts) = {}
    BY <1>11, <2>4
  <2>6. V(em[l].ts) = VersionAfter(D(em[l].ts))
    BY Zenon DEF D, VersionAt
  <2>7. V(em[l].ts) = 1
    BY <2>5, <2>6 DEF VersionAfter
  <2>. QED  BY <1>9, <2>7
<1>13. ASSUME NEW j \in 1..(k - 1), ~em[j].warmup, em[j].version = v
       PROVE  em[j].missing
  <2>. SUFFICES ASSUME ~em[j].missing
                PROVE  FALSE
    OBVIOUS
  <2>1. j \in 1..Len(em) /\ j < k /\ k \in 1..Len(em)
    BY <1>2, <1>3, <1>7 DEF InOrder
  <2>2. j \in AdmittedOf(em) /\ em[j].ts \in Nat
    BY <1>2, <1>13, <2>1 DEF AdmittedOf, InOrder
  <2>3. em[j].ts < em[k].ts /\ em[k].ts \in Nat
    BY <1>2, <1>3, <1>7, <2>1, OrderOfTimes
  <2>4. em[j].ts < b
    <3>1. ~ (k <= j)
      BY <2>1
    <3>2. j \notin Between(em, b, end)
      BY <1>6, <3>1, Zenon
    <3>. QED  BY <1>1, <1>7, <1>10, <2>2, <2>3, <3>2 DEF Between
  <2>5. em[j].ts < f
    <3>1. j \notin Between(em, f, b)
      BY Zenon DEF NextSlide, b
    <3>. QED  BY <1>1, <2>2, <2>4, <3>1 DEF Between
  <2>6. em[j].ts <= em[l].ts
    <3>1. j <= l
      BY <1>5, <2>2, <2>5
    <3>. QED  BY <1>2, <1>5, <2>1, <3>1, OrderOfTimes
  <2>7. V(em[j].ts) = v
    BY <1>2, <1>13, <2>1, Zenon DEF VersionsSent, VersionAt
  <2>8. V(em[l].ts) = V(b)
    <3>1. VersionAt(inp, acc, em[j].ts) = VersionAt(inp, acc, b)
      BY <1>8, <2>7
    <3>2. VersionAt(inp, acc, em[l].ts) = VersionAt(inp, acc, b)
      BY <1>2, <1>5, <1>10, <2>2, <2>6, <3>1, VersionBetween
    <3>. QED  BY <3>2
  <2>. QED  BY <1>8, <1>9, <2>8
<1>14. em[k].backfill # None
  <2>1. k \in 1..Len(em) /\ ~em[k].warmup /\ ~em[k].missing /\ em[k].version # 1
    BY <1>3, <1>6, <1>7, <1>12
  <2>2. \A j \in OfVersion(em, em[k].version, k - 1) : em[j].missing
    BY <1>6, <1>13, Zenon DEF OfVersion
  <2>3. SentOnceAt(em, k)
    BY <1>2, <2>1, Zenon DEF SentOnce
  <2>. QED  BY <2>1, <2>2, <2>3, Zenon DEF SentOnceAt
<1>15. PICK c \in CmdsOf(acc) : em[k].version = c.seq + 1 /\ Fills(inp, em[k].backfill, c.eff)
  <2>1. FillsFor(inp, em[k].backfill, em[k].version, acc)
    BY <1>2, <1>3, <1>7, Zenon DEF FillsSent
  <2>. QED  BY <1>14, <2>1, Zenon DEF FillsFor
<1>16. IsLatest(c, D(b))
  <2>1. VersionAt(inp, acc, b) = c.seq + 1
    BY <1>6, <1>8, <1>15
  <2>. QED  BY <1>2, <1>10, <2>1, CommandOfVersion
<1>17. c \in Commands /\ c.eff \in Nat /\ inp[Warmup].ts < c.eff /\ c.eff <= b /\ c \in D(b)
  <2>1. c \in D(b) /\ c \in Commands
    BY <1>11, <1>16, Zenon DEF IsLatest
  <2>2. c.eff > inp[Warmup].ts /\ c.eff <= b
    BY <2>1 DEF DueAmong
  <2>. QED  BY <2>1, <2>2, ScalerAssumption
<1>18. em[l].ts < c.eff
  <2>. SUFFICES ASSUME c.eff <= em[l].ts
                PROVE  FALSE
    BY <1>5, <1>17
  <2>1. c \in D(em[l].ts)
    BY <1>15, <1>17 DEF DueAmong
  <2>. HIDE DEF D
  <2>2. IsLatest(c, D(em[l].ts))
    BY <1>11, <1>16, <2>1 DEF IsLatest
  <2>3. VersionAfter(D(em[l].ts)) = c.seq + 1
    BY <1>11, <2>1, <2>2, LatestIsOne
  <2>4. V(em[l].ts) = c.seq + 1
    BY <2>3, Zenon DEF D, VersionAt
  <2>. QED  BY <1>6, <1>9, <1>15, <2>4
<1>19. ASSUME NEW j \in AdmittedOf(em), em[j].ts < f
       PROVE  em[j].ts < c.eff
  <2>1. j <= l /\ j \in 1..Len(em) /\ em[j].ts \in Nat
    BY <1>3, <1>5, <1>19
  <2>2. em[j].ts <= em[l].ts
    BY <1>2, <1>5, <2>1, OrderOfTimes
  <2>. QED  BY <1>5, <1>17, <1>18, <2>1, <2>2
<1>20. Covers(inp, em, f, end, em[k].backfill, c.eff)
  BY <1>15, <1>17, <1>19, Zenon DEF Covers, b
<1>. QED
  BY <1>17, <1>20

\* Every round before the end has been sent.
ReadUpTo(inp, em, end) == Len(em) < Len(inp) => end <= inp[Len(em) + 1].ts

\* Such a backfill gives back the window as far as it was admitted.
LEMMA RefillTimes ==
  ASSUME TimelyCommands, NEW inp \in Inputs, NEW em, InOrder(inp, em),
         NEW f, NEW end, NextSlide(em, f, end), ReadUpTo(inp, em, end),
         NEW k \in Between(em, end - SlideStep, end), NEW c \in Commands, NEW backfill,
         Covers(inp, em, f, end, backfill, c.eff)
  PROVE  PointTimes(Refills(backfill, end, em[k].ts)) = TimesOf(em, end - Window, end - SlideStep)
<1>. DEFINE a == end - Window
            b == end - SlideStep
            T == em[k].ts
<1>1. /\ SlideStep \in Nat \ {0} /\ Window \in Nat \ {0} /\ SlideStep <= Window
      /\ f \in Nat /\ end \in Nat /\ f + SlideStep <= end
  BY SlideInWindow DEF NextSlide
<1>2. /\ Len(em) \in Nat /\ Len(em) <= Len(inp) /\ Len(inp) \in Nat
      /\ \A i \in 1..Len(em) : /\ em[i].ts = inp[i].ts /\ em[i].missing = inp[i].missing
                               /\ em[i].warmup = (i <= Warmup)
      /\ \A i \in 1..Len(inp) : inp[i].ts \in Nat
      /\ \A i, j \in 1..Len(inp) : i <= j => inp[i].ts <= inp[j].ts
  BY RoundFacts DEF InOrder
<1>3. T \in Nat /\ b <= T /\ T < end /\ k \in 1..Len(em) /\ ~em[k].warmup
  BY DEF Between, AdmittedOf, InOrder
<1>4. c.eff \in Nat /\ inp[Warmup].ts < c.eff /\ c.eff <= b /\ Warmup \in Nat \ {0}
  BY ScalerAssumption, Zenon DEF Covers
<1>5. Warmup \in 1..Len(inp) /\ c.eff - Window > inp[Warmup].ts
  <2>1. em[k].warmup = (k <= Warmup)
    BY <1>2, <1>3
  <2>2. ~ (k <= Warmup)
    BY <1>3, <2>1
  <2>3. Warmup \in 1..Len(inp)
    BY <1>2, <1>3, <1>4, <2>2
  <2>4. Len(inp) >= Warmup /\ c.eff > inp[Warmup].ts
    BY <1>2, <1>4, <2>3
  <2>. QED  BY <2>3, <2>4, Zenon DEF TimelyCommands
<1>. HIDE DEF a, b, T
<1>6. ASSUME NEW t
      PROVE  t \in PointTimes(Refills(backfill, end, T))
               <=> t \in FillTimes(inp, c.eff) /\ t >= end - Window /\ t < T
  <2>. DEFINE src == {r \in UNION backfill : r.ts >= end - Window /\ r.ts < T}
  <2>1. {q.ts : q \in UNION backfill} = FillTimes(inp, c.eff)
    BY Zenon DEF Covers, Fills
  <2>2. Refills(backfill, end, T) = {[ts |-> q.ts, params |-> {q.params}] : q \in src}
    BY Zenon DEF Refills
  <2>3. \A q : [ts |-> q.ts, params |-> {q.params}].ts = q.ts
    OBVIOUS
  <2>4. t \in PointTimes(Refills(backfill, end, T)) <=> \E q \in src : q.ts = t
    <3>. DEFINE R == Refills(backfill, end, T)
                rec(q) == [ts |-> q.ts, params |-> {q.params}]
    <3>1. R = {rec(q) : q \in src} /\ \A q : rec(q).ts = q.ts
      BY <2>2, <2>3
    <3>. HIDE DEF src, R, rec
    <3>2. ASSUME NEW x \in R, x.ts = t
          PROVE  \E q \in src : q.ts = t
      <4>1. PICK q \in src : x = rec(q)
        BY <3>1
      <4>. QED  BY <3>1, <3>2, <4>1
    <3>3. ASSUME NEW q \in src, q.ts = t
          PROVE  \E x \in R : x.ts = t
      <4>1. rec(q) \in R
        BY <3>1
      <4>. QED  BY <3>1, <3>3, <4>1
    <3>4. t \in PointTimes(R) <=> \E x \in R : x.ts = t
      BY DEF PointTimes
    <3>. QED  BY <3>2, <3>3, <3>4 DEF R
  <2>5. (\E q \in src : q.ts = t)
          <=> t \in {q.ts : q \in UNION backfill} /\ t >= end - Window /\ t < T
    OBVIOUS
  <2>. QED  BY <2>1, <2>4, <2>5, Zenon
<1>7. ASSUME NEW i \in 1..Len(inp), ~inp[i].missing, c.eff - Window <= inp[i].ts,
             inp[i].ts < c.eff, inp[i].ts >= end - Window
      PROVE  inp[i].ts \in TimesOf(em, a, b)
  <2>1. i \in 1..Len(em)
    <3>. SUFFICES ASSUME ~ (i <= Len(em))
                  PROVE  FALSE
      BY <1>2
    <3>1. Len(em) + 1 \in 1..Len(inp) /\ Len(em) + 1 <= i /\ Len(em) < Len(inp)
      BY <1>2
    <3>2. inp[Len(em) + 1].ts <= inp[i].ts /\ inp[Len(em) + 1].ts \in Nat
      BY <1>2, <3>1
    <3>3. end <= inp[Len(em) + 1].ts
      BY <3>1 DEF ReadUpTo
    <3>4. inp[i].ts \in Nat /\ end - SlideStep <= end
      BY <1>1, <1>2
    <3>. QED  BY SMTT(40), <1>1, <1>4, <1>7, <3>2, <3>3, <3>4 DEF b
  <2>2. ~ (i <= Warmup)
    <3>. SUFFICES ASSUME i <= Warmup
                  PROVE  FALSE
      OBVIOUS
    <3>1. inp[i].ts <= inp[Warmup].ts /\ inp[i].ts \in Nat /\ inp[Warmup].ts \in Nat
      BY <1>2, <1>5
    <3>. QED  BY SMTT(40), <1>1, <1>4, <1>5, <1>7, <3>1
  <2>3. em[i].ts = inp[i].ts /\ ~em[i].missing /\ ~em[i].warmup
    <3>1. em[i].ts = inp[i].ts /\ em[i].missing = inp[i].missing /\ em[i].warmup = (i <= Warmup)
      BY <1>2, <2>1
    <3>. QED  BY <1>7, <2>2, <3>1, Zenon
  <2>4. a <= em[i].ts /\ em[i].ts < b /\ i \in AdmittedOf(em)
    <3>1. inp[i].ts \in Nat
      BY <1>2
    <3>2. a <= em[i].ts /\ em[i].ts < b
      BY <1>1, <1>4, <1>7, <2>3, <3>1 DEF a, b
    <3>3. i \in AdmittedOf(em)
      BY <2>1, <2>3 DEF AdmittedOf
    <3>. QED  BY <3>2, <3>3
  <2>. QED  BY <2>3, <2>4 DEF TimesOf, Between
<1>8. ASSUME NEW i \in AdmittedOf(em), a <= em[i].ts, em[i].ts < b
      PROVE  em[i].ts \in FillTimes(inp, c.eff) /\ em[i].ts >= end - Window /\ em[i].ts < T
  <2>1. i \in 1..Len(em) /\ i \in 1..Len(inp) /\ ~em[i].missing
    BY <1>2 DEF AdmittedOf
  <2>2. em[i].ts = inp[i].ts /\ ~inp[i].missing /\ inp[i].ts \in Nat
    BY <1>2, <2>1
  <2>3. em[i].ts < c.eff
    <3>1. em[i].ts < f
      <4>1. i \notin Between(em, f, b)
        BY Zenon DEF NextSlide, b
      <4>. QED  BY <1>1, <1>8, <2>2, <4>1 DEF Between
    <3>. QED  BY <3>1, Zenon DEF Covers
  <2>4. c.eff - Window <= inp[i].ts /\ em[i].ts >= end - Window /\ em[i].ts < T
    BY <1>1, <1>3, <1>4, <1>8, <2>2 DEF a, b
  <2>. QED  BY <2>1, <2>2, <2>3, <2>4 DEF FillTimes
<1>9. ASSUME NEW t
      PROVE  t \in PointTimes(Refills(backfill, end, T)) <=> t \in TimesOf(em, a, b)
  <2>1. ASSUME t \in TimesOf(em, a, b)
        PROVE  t \in PointTimes(Refills(backfill, end, T))
    <3>1. PICK i \in AdmittedOf(em) : a <= em[i].ts /\ em[i].ts < b /\ t = em[i].ts
      BY <2>1 DEF TimesOf, Between
    <3>. QED  BY <1>6, <1>8, <3>1
  <2>2. ASSUME t \in PointTimes(Refills(backfill, end, T))
        PROVE  t \in TimesOf(em, a, b)
    <3>1. t \in FillTimes(inp, c.eff) /\ t >= end - Window /\ t < T
      BY <1>6, <2>2
    <3>2. PICK i \in 1..Len(inp) : /\ ~inp[i].missing /\ c.eff - Window <= inp[i].ts
                                   /\ inp[i].ts < c.eff /\ t = inp[i].ts
      BY <3>1 DEF FillTimes
    <3>. QED  BY <1>7, <3>1, <3>2
  <2>. QED  BY <2>1, <2>2
<1>. QED
  BY <1>9 DEF a, b, T, PointTimes

\* A slide that switches the version.
LEMMA WindowOfNewVersion ==
  ASSUME TimelyCommands, NEW inp \in Inputs, NEW tp \in Seq(Commands), NEW s,
         NEW acc \in SUBSET AcceptedType, ScalerSends(inp, tp, s, emitted, acc),
         NEW f, NEW end \in SlideEnds, NextSlide(emitted, f, end),
         ReadUpTo(inp, emitted, end),
         NEW m, LikeLast(emitted, m, f), Unused(emitted, m, f),
         NEW v, NEW params, NewAre(emitted, end, v, params),
         NEW k, IsEarliest(k, Between(emitted, end - SlideStep, end)),
         m.version \notin {NoVersion, v},
         NEW full, full.version = v,
         full.points = Refills(emitted[k].backfill, end, emitted[k].ts) \cup Enters(end)
  PROVE  HoldsFrom(emitted, full, end - Window, end)
<1>. DEFINE R == Refills(emitted[k].backfill, end, emitted[k].ts)
            a == end - Window
            b == end - SlideStep
<1>1. /\ SlideStep \in Nat \ {0} /\ Window \in Nat \ {0} /\ SlideStep <= Window
      /\ f \in Nat /\ end \in Nat /\ f + SlideStep <= end
      /\ a \in Int /\ b \in Int /\ end \in Int /\ a <= b /\ b <= end
  BY SlideInWindow DEF NextSlide
<1>2. InOrder(inp, emitted) /\ SentOnce(emitted)
  BY Zenon DEF ScalerSends
<1>3. PICK c \in Commands : Covers(inp, emitted, f, end, emitted[k].backfill, c.eff)
  BY SwitchHasBackfill
<1>4. k \in Between(emitted, end - SlideStep, end) /\ emitted[k].params = params
  BY Zenon DEF IsEarliest, NewAre
<1>5. PointTimes(R) = TimesOf(emitted, a, b)
  <2>. DEFINE backfill == emitted[k].backfill
  <2>1. Covers(inp, emitted, f, end, backfill, c.eff)
    BY <1>3
  <2>. HIDE DEF backfill
  <2>2. k \in Between(emitted, end - SlideStep, end)
    BY <1>4
  <2>3. PointTimes(Refills(backfill, end, emitted[k].ts)) = TimesOf(emitted, end - Window, end - SlideStep)
    <3>1. \A x \in Between(emitted, end - SlideStep, end) :
            PointTimes(Refills(backfill, end, emitted[x].ts)) = TimesOf(emitted, end - Window, end - SlideStep)
      <4>. TAKE x \in Between(emitted, end - SlideStep, end)
      <4>. QED  BY <1>2, <2>1, RefillTimes
    <3>. QED  BY <2>2, <3>1, Zenon
  <2>. QED  BY <2>3, Zenon DEF backfill
<1>6. PointTimes(Enters(end)) = TimesOf(emitted, b, end)
  BY <1>1, <1>2, TimesOfEntering
<1>7. k \in 1..Len(emitted) /\ ~emitted[k].warmup
  BY <1>4 DEF Between, AdmittedOf
<1>8. \A q \in R : q.params = params
  <2>1. Own(emitted[k].backfill, params)
    BY <1>2, <1>4, <1>7, Zenon DEF SentOnce, SentOnceAt
  <2>2. \A q \in UNION emitted[k].backfill : {q.params} = params
    BY <2>1 DEF Own
  <2>3. ASSUME NEW q \in R
        PROVE  \E p \in UNION emitted[k].backfill : q.params = {p.params}
    BY DEF Refills
  <2>. HIDE DEF R
  <2>. QED  BY <2>2, <2>3
<1>9. \A q \in Enters(end) : q.params = params
  <2>1. Fresh(end) = Between(emitted, end - SlideStep, end)
    BY <1>1, <1>2, FreshIs
  <2>2. \A i \in Fresh(end) : emitted[i].params = params
    BY <2>1, Zenon DEF NewAre
  <2>. QED  BY <2>2 DEF Enters, Point
<1>10. full.points = R \cup Enters(end)
  OBVIOUS
<1>. HIDE DEF R, a, b
<1>11. PointTimes(full.points) = TimesOf(emitted, a, end)
  <2>1. PointTimes(full.points) = PointTimes(R) \cup PointTimes(Enters(end))
    BY <1>10, PointTimesJoin
  <2>2. TimesOf(emitted, a, end) = TimesOf(emitted, a, b) \cup TimesOf(emitted, b, end)
    BY <1>1, <1>2, TimesJoin
  <2>. QED  BY <1>5, <1>6, <2>1, <2>2
<1>12. \A q \in full.points : q.params = params
  BY <1>8, <1>9, <1>10
<1>13. LikeLast(emitted, full, end) /\ Unused(emitted, full, end)
  <2>1. \A j \in Between(emitted, end - SlideStep, end) : emitted[j].version = v /\ emitted[j].params = params
    BY Zenon DEF NewAre
  <2>. QED  BY <1>1, <1>2, <1>4, <1>12, <2>1, LastIsNew
<1>. QED
  BY <1>11, <1>13, Zenon DEF HoldsFrom, a

\* The start of the state, whatever the commands stored.
LEMMA SlideStart ==
  ASSUME NEW inp, InOrder(inp, emitted), NEW f \in Nat, NEW end \in Nat, f <= end,
         NEW m, IsState(m), m.start \in Nat, m.start <= f, NEW full, full = SlideState(m, end)
  PROVE  IsState(full) /\ full.start \in Nat /\ full.start <= end
<1>. DEFINE x == Cleared(m, end)
            a == Adopted(x, end)
            y == Switched(a, end)
            sw == Switches(a, end)
<1>1. IsState(x) /\ x.start = m.start
  BY ClearedIs
<1>2. full = [y EXCEPT !.points = @ \cup Inserted(a, end)]
  BY DEF SlideState
<1>. HIDE DEF x
<1>3. IsState(a) /\ a.start = m.start
  BY <1>1 DEF Adopted, IsState
<1>. HIDE DEF a
<1>4. IsState(y) /\ y.start \in Nat /\ y.start <= end
  <2>1. CASE sw = {}
    BY <1>3, <2>1 DEF Switched
  <2>2. CASE sw # {}
    <3>. DEFINE i == Earliest(sw)
    <3>1. Len(emitted) \in Nat /\ sw \in SUBSET (1..Len(emitted))
      BY DEF Switches, Fresh, Elements, Admitted, InOrder
    <3>2. i \in sw
      BY <2>2, <3>1, EarliestExists DEF IsEarliest
    <3>3. y = Refill(a, i, end)
      BY <2>2 DEF Switched
    <3>4. IsState(Refill(a, i, end)) /\ Refill(a, i, end).start = emitted[i].ts
      <4>. HIDE DEF i
      <4>. QED  BY DEF Refill, IsState
    <3>. HIDE DEF i, sw
    <3>5. i \in Fresh(end)
      BY <3>2 DEF sw, Switches
    <3>6. emitted[i].ts \in Nat /\ emitted[i].ts < end
      BY <3>5 DEF Fresh, Elements, Admitted, InOrder
    <3>. HIDE DEF y
    <3>. QED  BY <3>3, <3>4, <3>6
  <2>. QED  BY <2>1, <2>2
<1>. HIDE DEF y
<1>. QED
  BY <1>2, <1>4 DEF IsState

\* A slide: what is judged is the window, under the parameters of its last round.
LEMMA SlideHolds ==
  ASSUME TimelyCommands, NEW inp \in Inputs, NEW tp \in Seq(Commands), NEW s,
         NEW acc \in SUBSET AcceptedType, ScalerSends(inp, tp, s, emitted, acc),
         NEW f, NEW end \in SlideEnds, NextSlide(emitted, f, end),
         ReadUpTo(inp, emitted, end),
         NEW m, IsState(m), m.start \in Nat, m.start <= f,
         HoldsFrom(emitted, m, f - Window + SlideStep, f),
         NEW full, full = SlideState(m, end)
  PROVE  /\ HoldsFrom(emitted, full, end - Window, end)
         /\ \A i \in Between(emitted, end - SlideStep, end) : full.start <= emitted[i].ts
<1>. DEFINE N == Between(emitted, end - SlideStep, end)
            v == VersionAt(inp, acc, end - SlideStep)
<1>1. /\ SlideStep \in Nat \ {0} /\ f \in Nat /\ end \in Nat /\ f + SlideStep <= end
      /\ end - SlideStep \in Nat
  BY SlideInWindow DEF NextSlide
<1>2. /\ InOrder(inp, emitted) /\ Waiting(tp, s, acc) /\ VersionsSent(inp, emitted, acc)
      /\ ColdSent(emitted) /\ SameParams(emitted)
  BY Zenon DEF ScalerSends
<1>3. Fresh(end) = N
  BY <1>1, <1>2, FreshIs
<1>4. \A i \in AdmittedOf(emitted) : /\ i \in 1..Len(emitted) /\ emitted[i].ts \in Nat /\ ~emitted[i].warmup
  BY <1>2 DEF AdmittedOf, InOrder
<1>5. \A i \in N : i \in AdmittedOf(emitted) /\ end - SlideStep <= emitted[i].ts /\ emitted[i].ts < end
  BY DEF Between
<1>6. CASE N = {}
  <2>1. full.points = m.points /\ full.version = m.version
    BY <1>3, <1>6, SlideWithoutNew
  <2>2. HoldsFrom(emitted, full, end - Window, end)
    BY <1>2, <1>6, <2>1, WindowWithoutNew
  <2>. QED  BY <1>6, <2>2
<1>7. CASE N # {}
  <2>. DEFINE k == Earliest(N)
              params == emitted[k].params
  <2>1. IsEarliest(k, N)
    <3>1. Len(emitted) \in Nat /\ N \in SUBSET (1..Len(emitted))
      BY <1>2, <1>4, <1>5 DEF InOrder
    <3>. HIDE DEF N
    <3>. QED  BY <1>7, <3>1, EarliestExists
  <2>. HIDE DEF k
  <2>2. k \in N /\ \A j \in N : k <= j
    BY <2>1, Zenon DEF IsEarliest
  <2>3. \A i \in N : emitted[i].version = v
    BY <1>2, SlideHasOneVersion
  <2>. HIDE DEF v
  <2>4. NewAre(emitted, end, v, params)
    <3>1. ASSUME NEW i \in N
          PROVE  emitted[i].params = params
      <4>1. emitted[i].version = emitted[k].version
        BY <2>2, <2>3, <3>1, Zenon
      <4>2. /\ i \in 1..Len(emitted) /\ ~emitted[i].warmup
            /\ k \in 1..Len(emitted) /\ ~emitted[k].warmup
        BY <1>4, <1>5, <2>2, <3>1, Zenon
      <4>. QED  BY <1>2, <4>1, <4>2, Zenon DEF SameParams
    <3>. QED  BY <1>7, <2>3, <3>1, Zenon DEF NewAre
  <2>. HIDE DEF params
  <2>5. NewOf(end, v, k)
    BY <1>3, <2>1, <2>3, Zenon DEF k, NewOf
  <2>6. \A i \in N : emitted[k].ts <= emitted[i].ts
    <3>. TAKE i \in N
    <3>1. i \in 1..Len(emitted) /\ k \in 1..Len(emitted) /\ k <= i
      BY <1>4, <1>5, <2>2, Zenon
    <3>. QED  BY <1>2, <3>1, OrderOfTimes
  <2>7. CASE m.version \in {NoVersion, v}
    <3>1. /\ full.version = v /\ full.start = m.start
          /\ full.points = ClearedPoints(m, end) \cup Enters(end)
      BY <2>5, <2>7, SlideOfSameVersion, ZenonT(40) DEF Keeps
    <3>2. \A i \in AdmittedOf(emitted) : emitted[i].version # NoVersion
      <4>. TAKE i \in AdmittedOf(emitted)
      <4>1. emitted[i].version = VersionAt(inp, acc, emitted[i].ts)
        BY <1>2, <1>4, Zenon DEF VersionsSent, VersionAt
      <4>2. VersionAt(inp, acc, emitted[i].ts) \in Nat \ {0}
        BY <1>2, <1>4, VersionIsSome
      <4>. QED  BY <4>1, <4>2 DEF NoVersion
    <3>3. HoldsFrom(emitted, full, end - Window, end)
      <4>1. Absence >= Window
        BY Zenon DEF TimelyCommands
      <4>. QED  BY <1>2, <2>4, <2>7, <3>1, <3>2, <4>1, WindowOfSameVersion
    <3>4. \A i \in N : full.start <= emitted[i].ts
      <4>. TAKE i \in N
      <4>1. end - SlideStep <= emitted[i].ts /\ emitted[i].ts \in Nat
        BY <1>4, <1>5
      <4>. QED  BY <1>1, <3>1, <4>1
    <3>. QED  BY <3>3, <3>4
  <2>8. CASE m.version \notin {NoVersion, v}
    <3>1. /\ full.version = v /\ full.start = emitted[k].ts
          /\ full.points = Refills(emitted[k].backfill, end, emitted[k].ts) \cup Enters(end)
      BY <2>5, <2>8, SlideOfNewVersion DEF Refilled
    <3>2. LikeLast(emitted, m, f) /\ Unused(emitted, m, f)
      BY Zenon DEF HoldsFrom
    <3>3. HoldsFrom(emitted, full, end - Window, end)
      BY <2>1, <2>4, <2>8, <3>1, <3>2, WindowOfNewVersion
    <3>. QED  BY <2>6, <3>1, <3>3
  <2>. QED  BY <2>7, <2>8
<1>. QED
  BY <1>6, <1>7

--------------------------------------------------------------------------------
(* What is judged, and what is kept for the next slide. *)

\* A detector that holds the window, started no later than its new rounds, judges it.
LEMMA WindowJudged ==
  ASSUME NEW inp, NEW em, InOrder(inp, em), NEW end \in Nat,
         NEW full, HoldsFrom(em, full, end - Window, end),
         \A i \in Between(em, end - SlideStep, end) : full.start <= em[i].ts,
         full.start \in Nat,
         NEW sl, sl.end = end, sl.points = full.points, sl.judged = Judged(full)
  PROVE  Judges(em, sl)
<1>1. SlideStep \in Nat \ {0} /\ Window \in Nat \ {0} /\ SlideStep <= Window
  BY SlideInWindow
<1>2. PointTimes(full.points) = TimesOf(em, end - Window, end)
  BY Zenon DEF HoldsFrom
<1>3. \A i \in AdmittedOf(em) : em[i].ts \in Nat
  BY DEF AdmittedOf, InOrder
<1>4. ASSUME NEW q \in full.points, NEW r \in full.points
      PROVE  q.params = r.params
  <2>1. q.ts \in TimesOf(em, end - Window, end)
    BY <1>2 DEF PointTimes
  <2>2. PICK i \in AdmittedOf(em) : em[i].ts < end
    BY <2>1 DEF TimesOf, Between
  <2>3. PICK k \in AdmittedOf(em) : IsLast(em, k, end)
    BY <2>2, LastExists
  <2>4. q.params = em[k].params /\ r.params = em[k].params
    BY <2>3, Zenon DEF HoldsFrom, LikeLast
  <2>. QED  BY <2>4
<1>5. ASSUME NEW i \in Between(em, end - SlideStep, end)
      PROVE  em[i].ts \in Judged(full)
  <2>1. i \in AdmittedOf(em) /\ end - SlideStep <= em[i].ts /\ em[i].ts < end /\ em[i].ts \in Nat
    BY <1>3 DEF Between
  <2>2. i \in Between(em, end - Window, end)
    BY <1>1, <2>1 DEF Between
  <2>3. em[i].ts \in PointTimes(full.points)
    BY <1>2, <2>2 DEF TimesOf
  <2>4. PICK q \in full.points : q.ts = em[i].ts
    BY <2>3 DEF PointTimes
  <2>5. q.ts >= full.start
    BY <2>1, <2>4
  <2>. QED  BY <2>4, <2>5 DEF Judged
<1>6. TimesOf(em, end - SlideStep, end) \subseteq Judged(full)
  BY <1>5 DEF TimesOf
<1>. QED
  BY <1>2, <1>4, <1>6, Zenon DEF Judges

\* Expiry leaves the rounds that the next window shares with this one.
LEMMA WindowExpires ==
  ASSUME NEW inp, InOrder(inp, emitted), NEW end \in Nat,
         NEW full, IsState(full), HoldsFrom(emitted, full, end - Window, end),
         NEW m, m = [full EXCEPT !.points = {p \in @ : p.ts \notin Expired(end)}]
  PROVE  /\ IsState(m) /\ m.start = full.start
         /\ HoldsFrom(emitted, m, end - Window + SlideStep, end)
<1>1. SlideStep \in Nat \ {0} /\ Window \in Nat \ {0} /\ SlideStep <= Window
  BY SlideInWindow
<1>2. /\ IsState(m) /\ m.start = full.start /\ m.version = full.version
      /\ m.points = {p \in full.points : p.ts \notin Expired(end)}
  BY DEF IsState
<1>3. PointTimes(full.points) = TimesOf(emitted, end - Window, end)
  BY Zenon DEF HoldsFrom
<1>4. \A i \in AdmittedOf(emitted) : emitted[i].ts \in Nat
  BY DEF AdmittedOf, InOrder
<1>5. ASSUME NEW t
      PROVE  t \in Expired(end) <=> t \in TimesOf(emitted, end - Window, end)
                                    /\ t < end - Window + SlideStep
  <2>1. Elements(end) = Between(emitted, end - Window, end)
    BY FreshIs
  <2>. QED  BY <2>1 DEF Expired, TimesOf
<1>6. ASSUME NEW t
      PROVE  t \in TimesOf(emitted, end - Window + SlideStep, end)
               <=> t \in TimesOf(emitted, end - Window, end) /\ ~ (t < end - Window + SlideStep)
  <2>1. ASSUME NEW i \in AdmittedOf(emitted)
        PROVE  (end - Window + SlideStep <= emitted[i].ts /\ emitted[i].ts < end)
                 <=> (/\ end - Window <= emitted[i].ts /\ emitted[i].ts < end
                      /\ ~ (emitted[i].ts < end - Window + SlideStep))
    BY <1>1, <1>4
  <2>. QED  BY <2>1 DEF TimesOf, Between
<1>7. PointTimes(m.points) = TimesOf(emitted, end - Window + SlideStep, end)
  <2>1. ASSUME NEW t
        PROVE  t \in PointTimes(m.points) <=> t \in PointTimes(full.points) /\ t \notin Expired(end)
    BY <1>2 DEF PointTimes
  <2>2. \A t : t \in PointTimes(m.points) <=> t \in TimesOf(emitted, end - Window + SlideStep, end)
    BY <1>3, <1>5, <1>6, <2>1, Zenon
  <2>. QED  BY <2>2 DEF PointTimes, TimesOf
<1>8. LikeLast(emitted, m, end)
  <2>. SUFFICES ASSUME NEW k \in AdmittedOf(emitted), IsLast(emitted, k, end)
                PROVE  m.version = emitted[k].version /\ \A q \in m.points : q.params = emitted[k].params
    BY Zenon DEF LikeLast
  <2>1. full.version = emitted[k].version /\ \A q \in full.points : q.params = emitted[k].params
    BY Zenon DEF LikeLast, HoldsFrom
  <2>. QED  BY <1>2, <2>1
<1>9. Unused(emitted, m, end)
  BY <1>2, Zenon DEF Unused, HoldsFrom
<1>. QED
  BY <1>2, <1>7, <1>8, <1>9, Zenon DEF HoldsFrom

--------------------------------------------------------------------------------
(* The channel's steps. *)

\* A round sent later is in no window that has ended.
LEMMA ChannelAppend ==
  ASSUME NEW inp \in Inputs, NEW p \in Nat, p < Len(inp), NEW em \in Seq(EmittedType),
         InOrder(inp, em), Len(em) = p, NEW acc, NEW m, NEW f, NEW sl,
         Channel(inp, p, em, acc, m, f, sl),
         NEW o \in EmittedType, o.ts = inp[p + 1].ts
  PROVE  Channel(inp, p + 1, Append(em, o), acc, m, f, sl)
<1>. DEFINE em2 == Append(em, o)
<1>1. /\ Len(em2) = p + 1 /\ em2[p + 1] = o
      /\ \A i \in 1..p : em2[i] = em[i]
  BY AppendFacts
<1>2. /\ Len(inp) \in Nat /\ p + 1 \in 1..Len(inp)
      /\ \A i, j \in 1..Len(inp) : inp[i].ts \in Nat /\ (i < j => inp[i].ts < inp[j].ts)
  BY RoundFacts
<1>3. Positioned(inp, p, m, f, sl)
  BY Zenon DEF Channel
<1>4. f <= o.ts /\ f \in Int /\ sl.end = f
  <2>1. f \in Int
    <3>1. SlideStep \in Nat \ {0}
      BY SlideInWindow
    <3>2. f = 0 \/ f \in SlideEnds
      BY <1>3, Zenon DEF Positioned
    <3>3. CASE f = 0
      BY <3>3
    <3>4. CASE f \in SlideEnds
      BY <3>1, <3>4 DEF SlideEnds
    <3>. QED  BY <3>2, <3>3, <3>4
  <2>2. f <= inp[p + 1].ts /\ sl.end = f
    BY <1>3, Zenon DEF Positioned
  <2>. QED  BY <2>1, <2>2
<1>5. Positioned(inp, p + 1, m, f, sl)
  <2>1. p + 1 < Len(inp) => f <= inp[p + 2].ts
    <3>. SUFFICES ASSUME p + 1 < Len(inp)
                  PROVE  f <= inp[p + 2].ts
      OBVIOUS
    <3>1. p + 2 \in 1..Len(inp) /\ p + 1 < p + 2
      BY <1>2
    <3>2. inp[p + 1].ts < inp[p + 2].ts /\ inp[p + 1].ts \in Nat /\ inp[p + 2].ts \in Nat
      BY <1>2, <3>1
    <3>. QED  BY <1>4, <3>2
  <2>2. (p + 1) + 1 = p + 2
    OBVIOUS
  <2>. QED  BY <1>3, <2>1, <2>2 DEF Positioned
<1>. HIDE DEF em2
<1>6. \A i \in 1..(p + 1) : i \in 1..p \/ i = p + 1
  OBVIOUS
<1>7. ASSUME NEW i, NEW b \in Int, b <= f
      PROVE  (i \in AdmittedOf(em2) /\ em2[i].ts < b) <=> (i \in AdmittedOf(em) /\ em[i].ts < b)
  <2>1. CASE i \in 1..p
    <3>1. i \in 1..(p + 1) /\ em2[i] = em[i]
      BY <1>1, <2>1
    <3>2. i \in AdmittedOf(em2) <=> i \in AdmittedOf(em)
      BY <1>1, <2>1, <3>1 DEF AdmittedOf
    <3>. QED  BY <3>1, <3>2
  <2>2. CASE i = p + 1
    <3>1. ~ (em2[i].ts < b)
      <4>1. o.ts \in Nat
        BY DEF EmittedType
      <4>. QED  BY <1>1, <1>4, <1>7, <2>2, <4>1
    <3>2. i \notin AdmittedOf(em)
      BY <2>2 DEF AdmittedOf
    <3>. QED  BY <3>1, <3>2
  <2>3. CASE i \notin 1..p /\ i # p + 1
    BY <1>1, <1>6, <2>3 DEF AdmittedOf
  <2>. QED  BY <2>1, <2>2, <2>3
<1>8. \A i \in AdmittedOf(em) : em2[i] = em[i]
  BY <1>1 DEF AdmittedOf
<1>9. ASSUME NEW a
      PROVE  TimesOf(em2, a, f) = TimesOf(em, a, f)
  <2>1. \A i : (i \in AdmittedOf(em2) /\ em2[i].ts < f) <=> (i \in AdmittedOf(em) /\ em[i].ts < f)
    BY <1>4, <1>7
  <2>2. Between(em2, a, f) = Between(em, a, f)
    BY <1>8, <2>1 DEF Between
  <2>3. \A i \in Between(em, a, f) : em2[i].ts = em[i].ts
    BY <1>8 DEF Between
  <2>. QED  BY <2>2, <2>3 DEF TimesOf
<1>10. ASSUME NEW i
       PROVE  (i \in AdmittedOf(em2) /\ em2[i].ts < f) <=> (i \in AdmittedOf(em) /\ em[i].ts < f)
  BY <1>4, <1>7
<1>11. ASSUME HoldsFrom(em, m, f - Window + SlideStep, f), Judges(em, sl)
       PROVE  HoldsFrom(em2, m, f - Window + SlideStep, f) /\ Judges(em2, sl)
  <2>1. ASSUME NEW k \in AdmittedOf(em2), IsLast(em2, k, f)
        PROVE  k \in AdmittedOf(em) /\ IsLast(em, k, f) /\ em2[k] = em[k]
    BY <1>8, <1>10, <2>1, Zenon DEF IsLast
  <2>2. LikeLast(em2, m, f)
    <3>. SUFFICES ASSUME NEW k \in AdmittedOf(em2), IsLast(em2, k, f)
                  PROVE  m.version = em2[k].version /\ \A q \in m.points : q.params = em2[k].params
      BY Zenon DEF LikeLast
    <3>1. k \in AdmittedOf(em) /\ IsLast(em, k, f) /\ em2[k] = em[k]
      BY <2>1
    <3>2. m.version = em[k].version /\ \A q \in m.points : q.params = em[k].params
      BY <1>11, <3>1, Zenon DEF LikeLast, HoldsFrom
    <3>. QED  BY <3>1, <3>2
  <2>3. Unused(em2, m, f)
    BY <1>10, <1>11, Zenon DEF Unused, HoldsFrom
  <2>4. PointTimes(m.points) = TimesOf(em2, f - Window + SlideStep, f)
    BY <1>9, <1>11, Zenon DEF HoldsFrom
  <2>5. Judges(em2, sl)
    BY <1>4, <1>9, <1>11, Zenon DEF Judges
  <2>. QED  BY <2>2, <2>3, <2>4, <2>5, Zenon DEF HoldsFrom
<1>12. Channel(inp, p + 1, em2, acc, m, f, sl)
  BY <1>5, <1>11, Zenon DEF Channel
<1>. QED
  BY <1>12 DEF em2

\* Commands stored later do not touch it.
LEMMA ChannelStored ==
  ASSUME NEW inp, NEW p, NEW em, NEW acc, NEW acc2, acc \subseteq acc2, NEW m, NEW f, NEW sl,
         Channel(inp, p, em, acc, m, f, sl)
  PROVE  Channel(inp, p, em, acc2, m, f, sl)
<1>1. OnTime(acc2) => OnTime(acc)
  BY DEF OnTime
<1>. QED
  BY <1>1, Zenon DEF Channel

\* A slide that is due.
LEMMA FireChannel ==
  ASSUME TimelyCommands, Inv, ChannelInv, FireSlide
  PROVE  Channel(input, pos, emitted, accepted, mcod', fired', slide')
<1>. DEFINE end == NextEnd
            full == SlideState(mcod, end)
            m2 == [full EXCEPT !.points = {p \in @ : p.ts \notin Expired(end)}]
            sl == [end |-> end, points |-> full.points, judged |-> Judged(full)]
<1>1. TypeOK /\ IInv
  BY DEF Inv
<1>2. /\ DueEnds # {} /\ fired' = end /\ slide' = sl /\ mcod' = m2
  BY Zenon DEF FireSlide, SlideState
<1>3. /\ input \in Inputs /\ pos \in 0..Len(input) /\ wm \in Nat /\ topic \in Seq(Commands)
      /\ accepted \in SUBSET AcceptedType /\ MaxTime \in Nat /\ Len(input) \in Nat
  BY <1>1, RoundFacts, ScalerAssumption DEF TypeOK
<1>4. /\ Traces(input, pos, scaler, emitted, accepted)
      /\ Channel(input, pos, emitted, accepted, mcod, fired, slide)
      /\ pos < Len(input) => wm < input[pos + 1].ts
  BY DEF ChannelInv
<1>5. /\ Positioned(input, pos, mcod, fired, slide)
      /\ OnTime(accepted) => HoldsFrom(emitted, mcod, fired - Window + SlideStep, fired)
  BY <1>4, Zenon DEF Channel
<1>6. Part(input, topic, reached, pos, scaler, emitted, accepted) /\ SeqIsName(topic)
  BY <1>1 DEF IInv
<1>7. InOrder(input, emitted) /\ Len(emitted) = pos
  <2>1. Aligned(input, pos, scaler, emitted)
    BY <1>6, Zenon DEF Part
  <2>. QED  BY <1>3, <2>1, AlignedInOrder
<1>8. /\ fired = 0 \/ fired \in SlideEnds
      /\ IsState(mcod) /\ mcod.start \in Nat /\ mcod.start <= fired
  BY <1>5, Zenon DEF Positioned, IsState
<1>9. end = NextEnd /\ full = SlideState(mcod, end) /\ m2 = m2 /\ sl = sl
  OBVIOUS
<1>. HIDE DEF end
<1>10. end \in SlideEnds /\ end <= wm + 1 /\ NextSlide(emitted, fired, end)
  BY <1>2, <1>3, <1>7, <1>8, <1>9, NextEndFacts
<1>11. fired \in Nat /\ end \in Nat /\ fired <= end
  BY <1>10, SlideInWindow DEF NextSlide
<1>12. pos < Len(input) => end <= input[pos + 1].ts
  <2>. SUFFICES ASSUME pos < Len(input)
                PROVE  end <= input[pos + 1].ts
    OBVIOUS
  <2>1. pos + 1 \in 1..Len(input)
    BY <1>3
  <2>2. input[pos + 1].ts \in Nat
    BY <1>3, <2>1, RoundFacts
  <2>. QED  BY <1>3, <1>4, <1>10, <1>11, <2>2
<1>13. ReadUpTo(input, emitted, end)
  BY <1>7, <1>12, Zenon DEF ReadUpTo
<1>. HIDE DEF full
<1>14. IsState(full) /\ full.start \in Nat /\ full.start <= end
  BY <1>7, <1>8, <1>9, <1>11, SlideStart
<1>15. sl.end = end /\ sl.points = full.points /\ sl.judged = Judged(full)
  OBVIOUS
<1>. HIDE DEF sl
<1>16. IsState(m2) /\ m2.start = full.start
  BY <1>14 DEF IsState
<1>17. m2 = [full EXCEPT !.points = {p \in @ : p.ts \notin Expired(end)}]
  OBVIOUS
<1>. HIDE DEF m2
<1>18. Positioned(input, pos, m2, end, sl)
  <2>1. m2.start \in Nat /\ m2.start <= end
    BY <1>14, <1>16
  <2>. QED  BY <1>10, <1>12, <1>15, <1>16, <2>1, Zenon DEF Positioned, IsState
<1>19. ASSUME OnTime(accepted)
       PROVE  HoldsFrom(emitted, m2, end - Window + SlideStep, end) /\ Judges(emitted, sl)
  <2>1. ScalerSends(input, topic, scaler, emitted, accepted)
    <3>1. Waiting(topic, scaler, accepted) /\ VersionsSent(input, emitted, accepted) /\ SentOnce(emitted)
      BY <1>6, <1>19, Zenon DEF Part
    <3>2. FillsSent(input, emitted, accepted) /\ ColdSent(emitted) /\ SameParams(emitted)
      BY <1>4, <1>19, Zenon DEF Traces
    <3>. QED  BY <1>6, <1>7, <3>1, <3>2, Zenon DEF ScalerSends
  <2>2. HoldsFrom(emitted, mcod, fired - Window + SlideStep, fired)
    BY <1>5, <1>19
  <2>3. /\ HoldsFrom(emitted, full, end - Window, end)
        /\ \A i \in Between(emitted, end - SlideStep, end) : full.start <= emitted[i].ts
    BY <1>3, <1>8, <1>9, <1>10, <1>13, <2>1, <2>2, SlideHolds
  <2>4. Judges(emitted, sl)
    BY <1>7, <1>11, <1>14, <1>15, <2>3, WindowJudged
  <2>5. HoldsFrom(emitted, m2, end - Window + SlideStep, end)
    BY <1>7, <1>11, <1>14, <1>17, <2>3, WindowExpires
  <2>. QED  BY <2>4, <2>5
<1>20. Channel(input, pos, emitted, accepted, m2, end, sl)
  BY <1>18, <1>19, Zenon DEF Channel
<1>. QED
  BY <1>2, <1>20

\* The scaler's steps go on behind the last window.
LEMMA RoundChannel ==
  ASSUME Inv, ChannelInv, ProcessRound, UNCHANGED chanVars
  PROVE  ChannelInv'
<1>1. /\ input \in Inputs /\ pos \in 0..Len(input) /\ Len(input) \in Nat /\ wm \in Nat
      /\ emitted \in Seq(EmittedType)
  BY RoundFacts DEF Inv, TypeOK
<1>2. /\ pos < Len(input) /\ pos' = pos + 1 /\ input' = input /\ wm' = wm
      /\ accepted' = accepted /\ ckpt' = ckpt
  BY DEF ProcessRound
<1>3. mcod' = mcod /\ fired' = fired /\ slide' = slide /\ ckptChannel' = ckptChannel
  BY DEF chanVars
<1>4. /\ pos < Len(input) => wm < input[pos + 1].ts
      /\ Traces(input, pos, scaler, emitted, accepted)
      /\ Traces(input, ckpt.pos, ckpt.scaler, ckpt.emitted, ckpt.accepted)
      /\ Channel(input, pos, emitted, accepted, mcod, fired, slide)
      /\ Channel(input, ckpt.pos, ckpt.emitted, ckpt.accepted,
                 ckptChannel.mcod, ckptChannel.fired, ckptChannel.slide)
  BY Zenon DEF ChannelInv
<1>5. /\ Traces(input, pos', scaler', emitted', accepted')
      /\ \E o \in EmittedType : emitted' = Append(emitted, o) /\ o.ts = input[pos + 1].ts
  BY <1>4, RoundTraced
<1>6. PICK o \in EmittedType : emitted' = Append(emitted, o) /\ o.ts = input[pos + 1].ts
  BY <1>5
<1>7. InOrder(input, emitted) /\ Len(emitted) = pos
  <2>1. Aligned(input, pos, scaler, emitted)
    BY Zenon DEF Inv, IInv, Part
  <2>. QED  BY <1>1, <2>1, AlignedInOrder
<1>8. Channel(input, pos + 1, Append(emitted, o), accepted, mcod, fired, slide)
  <2>1. pos \in Nat
    BY <1>1
  <2>. QED  BY <1>1, <1>2, <1>4, <1>6, <1>7, <2>1, ChannelAppend
<1>9. pos + 1 < Len(input) => wm < input[(pos + 1) + 1].ts
  <2>. SUFFICES ASSUME pos + 1 < Len(input)
                PROVE  wm < input[(pos + 1) + 1].ts
    OBVIOUS
  <2>1. pos + 1 \in 1..Len(input) /\ (pos + 1) + 1 \in 1..Len(input) /\ pos + 1 < (pos + 1) + 1
    BY <1>1
  <2>2. /\ input[pos + 1].ts < input[(pos + 1) + 1].ts
        /\ input[pos + 1].ts \in Nat /\ input[(pos + 1) + 1].ts \in Nat
    BY <1>1, <2>1, RoundFacts
  <2>. QED  BY <1>1, <1>2, <1>4, <2>2
<1>. QED
  BY <1>2, <1>3, <1>4, <1>5, <1>6, <1>8, <1>9 DEF ChannelInv

\* A watermark, with the timers it fires, keeps the channel's invariant.
LEMMA WatermarkChannel ==
  ASSUME Inv, ChannelInv, NEW w \in 1..MaxTime, ProcessWatermark(w), UNCHANGED chanVars
  PROVE  ChannelInv'
<1>1. /\ pos < Len(input) => w < input[pos + 1].ts
      /\ wm' = w /\ input' = input /\ pos' = pos /\ emitted' = emitted
      /\ accepted' = accepted /\ ckpt' = ckpt
  BY DEF ProcessWatermark
<1>2. mcod' = mcod /\ fired' = fired /\ slide' = slide /\ ckptChannel' = ckptChannel
  BY DEF chanVars
<1>3. Traces(input, pos, scaler', emitted, accepted)
  BY WatermarkTraced DEF ChannelInv
<1>. QED
  BY <1>1, <1>2, <1>3, Zenon DEF ChannelInv

\* A command keeps the channel's invariant.
LEMMA CommandChannel ==
  ASSUME Inv, ChannelInv, NEW c \in Commands, ProcessCommand(c), UNCHANGED chanVars
  PROVE  ChannelInv'
<1>1. /\ wm' = wm /\ input' = input /\ pos' = pos /\ emitted' = emitted /\ ckpt' = ckpt
  BY DEF ProcessCommand
<1>2. mcod' = mcod /\ fired' = fired /\ slide' = slide /\ ckptChannel' = ckptChannel
  BY DEF chanVars
<1>3. Traces(input, pos, scaler', emitted, accepted') /\ accepted \subseteq accepted'
  BY CommandTraced DEF ChannelInv
<1>4. Channel(input, pos, emitted, accepted', mcod, fired, slide)
  BY <1>3, ChannelStored DEF ChannelInv
<1>. QED
  BY <1>1, <1>2, <1>3, <1>4, Zenon DEF ChannelInv

\* Slides, checkpoints and restarts.
LEMMA SlideChannel ==
  ASSUME TimelyCommands, Inv, ChannelInv, FireSlide
  PROVE  ChannelInv'
<1>1. Channel(input, pos, emitted, accepted, mcod', fired', slide')
  BY FireChannel
<1>2. UNCHANGED vars /\ ckptChannel' = ckptChannel
  BY DEF FireSlide
<1>3. /\ input' = input /\ pos' = pos /\ wm' = wm /\ scaler' = scaler /\ emitted' = emitted
      /\ accepted' = accepted /\ ckpt' = ckpt
  BY <1>2 DEF vars
<1>. QED
  BY <1>1, <1>2, <1>3, Zenon DEF ChannelInv

\* A checkpoint of both operators keeps the channel's invariant.
LEMMA CheckpointChannel == ChannelInv /\ CheckpointBoth => ChannelInv'
<1>. SUFFICES ASSUME ChannelInv, CheckpointBoth
              PROVE  ChannelInv'
  OBVIOUS
<1>1. /\ ckpt' = Snapshot /\ input' = input /\ pos' = pos /\ wm' = wm /\ scaler' = scaler
      /\ emitted' = emitted /\ accepted' = accepted
      /\ mcod' = mcod /\ fired' = fired /\ slide' = slide
      /\ ckptChannel' = [mcod |-> mcod, fired |-> fired, slide |-> slide]
  BY DEF CheckpointBoth, Checkpoint
<1>2. /\ ckpt'.pos = pos /\ ckpt'.scaler = scaler
      /\ ckpt'.emitted = emitted /\ ckpt'.accepted = accepted
      /\ ckptChannel'.mcod = mcod /\ ckptChannel'.fired = fired /\ ckptChannel'.slide = slide
  BY <1>1 DEF Snapshot
<1>. QED
  BY <1>1, <1>2, Zenon DEF ChannelInv

\* A restart of both operators keeps the channel's invariant.
LEMMA RestoreChannel == Inv /\ ChannelInv /\ RestoreBoth => ChannelInv'
<1>. SUFFICES ASSUME Inv, ChannelInv, RestoreBoth
              PROVE  ChannelInv'
  OBVIOUS
<1>1. /\ pos' = ckpt.pos /\ scaler' = ckpt.scaler /\ emitted' = ckpt.emitted
      /\ accepted' = ckpt.accepted /\ wm' = 0 /\ input' = input /\ ckpt' = ckpt
      /\ mcod' = ckptChannel.mcod /\ fired' = ckptChannel.fired /\ slide' = ckptChannel.slide
      /\ ckptChannel' = ckptChannel
  BY DEF RestoreBoth, CrashAndRestore
<1>2. ckpt.pos < Len(input) => 0 < input[ckpt.pos + 1].ts
  <2>. SUFFICES ASSUME ckpt.pos < Len(input)
                PROVE  0 < input[ckpt.pos + 1].ts
    OBVIOUS
  <2>1. input \in Inputs /\ ckpt.pos \in 0..Len(input) /\ Len(input) \in Nat
    BY RoundFacts DEF Inv, TypeOK
  <2>2. ckpt.pos + 1 \in 1..Len(input)
    BY <2>1
  <2>3. input[ckpt.pos + 1].ts \in Nat \ {0}
    BY <2>1, <2>2, RoundFacts
  <2>. QED  BY <2>3
<1>. QED
  BY <1>1, <1>2, Zenon DEF ChannelInv

\* The channel's invariant holds initially.
LEMMA InitChannel == InitBoth => ChannelInv
<1>. SUFFICES ASSUME InitBoth
              PROVE  ChannelInv
  OBVIOUS
<1>1. /\ input \in Inputs /\ pos = 0 /\ wm = 0 /\ scaler = InitScaler /\ emitted = <<>> /\ accepted = {}
      /\ mcod = InitMcod /\ fired = 0 /\ slide = InitSlide
      /\ ckptChannel = [mcod |-> InitMcod, fired |-> 0, slide |-> InitSlide]
      /\ ckpt = [pos |-> 0, off |-> 0, scaler |-> InitScaler, emitted |-> <<>>, accepted |-> {}]
  BY DEF InitBoth, Init
<1>2. /\ ckpt.pos = 0 /\ ckpt.scaler = InitScaler /\ ckpt.emitted = <<>> /\ ckpt.accepted = {}
      /\ ckptChannel.mcod = InitMcod /\ ckptChannel.fired = 0 /\ ckptChannel.slide = InitSlide
  BY <1>1
<1>3. 0 < Len(input) => 0 < input[0 + 1].ts /\ 0 <= input[0 + 1].ts
  <2>. SUFFICES ASSUME 0 < Len(input)
                PROVE  0 < input[0 + 1].ts /\ 0 <= input[0 + 1].ts
    OBVIOUS
  <2>1. Len(input) \in Nat
    BY <1>1, RoundFacts
  <2>2. 0 + 1 \in 1..Len(input)
    BY <2>1
  <2>3. input[0 + 1].ts \in Nat \ {0}
    BY <1>1, <2>2, RoundFacts
  <2>. QED  BY <2>3
<1>4. /\ InitScaler.cache = {} /\ InitScaler.backfill = None /\ ~InitScaler.frozen
      /\ InitMcod.points = {} /\ InitMcod.version = NoVersion /\ InitMcod.start = 0
      /\ DOMAIN InitMcod = {"points", "version", "start"}
      /\ InitSlide.end = 0 /\ InitSlide.points = {} /\ InitSlide.judged = {}
  BY DEF InitScaler, InitMcod, InitSlide, NoTs
<1>5. AdmittedOf(<<>>) = {} /\ Len(<<>>) = 0 /\ \A i \in 1..Len(<<>>) : FALSE
  BY DEF AdmittedOf
<1>6. Traces(input, 0, InitScaler, <<>>, {})
  <2>1. CacheHolds(input, 0, InitScaler)
    <3>1. \A i \in 1..0 : FALSE
      OBVIOUS
    <3>. QED  BY <1>4, <3>1 DEF CacheHolds
  <2>2. FillsFor(input, InitScaler.backfill, InitScaler.version, {})
    BY <1>4, Zenon DEF FillsFor
  <2>3. FillsSent(input, <<>>, {}) /\ ColdSent(<<>>) /\ SameParams(<<>>)
    BY <1>5, Zenon DEF FillsSent, ColdSent, SameParams
  <2>4. ParamsHeld(InitScaler, <<>>)
    BY <1>4, Zenon DEF ParamsHeld
  <2>. QED  BY <2>1, <2>2, <2>3, <2>4, Zenon DEF Traces
<1>7. Channel(input, 0, <<>>, {}, InitMcod, 0, InitSlide)
  <2>1. Positioned(input, 0, InitMcod, 0, InitSlide)
    <3>1. 0 < Len(input) => 0 <= input[0 + 1].ts
      BY <1>3, Zenon
    <3>2. InitMcod.start \in Nat /\ InitMcod.start <= 0
      BY <1>4
    <3>. QED  BY <1>4, <3>1, <3>2, Zenon DEF Positioned
  <2>2. \A a, b : TimesOf(<<>>, a, b) = {}
    BY <1>5 DEF TimesOf, Between
  <2>3. PointTimes({}) = {}
    BY DEF PointTimes
  <2>4. HoldsFrom(<<>>, InitMcod, 0 - Window + SlideStep, 0)
    <3>1. LikeLast(<<>>, InitMcod, 0) /\ Unused(<<>>, InitMcod, 0)
      BY <1>4, <1>5, Zenon DEF LikeLast, Unused
    <3>. QED  BY <1>4, <2>2, <2>3, <3>1, Zenon DEF HoldsFrom
  <2>5. Judges(<<>>, InitSlide)
    BY <1>4, <2>2, <2>3 DEF Judges
  <2>. QED  BY <2>1, <2>4, <2>5, Zenon DEF Channel
<1>. QED
  BY <1>1, <1>2, <1>3, <1>6, <1>7, Zenon DEF ChannelInv

\* Every step of the composition keeps the channel's invariant.
LEMMA ChannelStep ==
  ASSUME TimelyCommands, Inv, ChannelInv, [NextBoth]_<<vars, chanVars>>
  PROVE  ChannelInv'
<1>1. CASE FireSlide
  BY <1>1, SlideChannel
<1>2. CASE ScalerStep
  <2>1. UNCHANGED chanVars
    BY <1>2 DEF ScalerStep
  <2>2. CASE ProcessRound
    BY <2>1, <2>2, RoundChannel
  <2>3. CASE \E w \in 1..MaxTime : ProcessWatermark(w)
    <3>1. PICK w \in 1..MaxTime : ProcessWatermark(w)
      BY <2>3
    <3>. QED  BY <2>1, <3>1, WatermarkChannel
  <2>4. CASE \E c \in Commands : ProcessCommand(c)
    <3>1. PICK c \in Commands : ProcessCommand(c)
      BY <2>4
    <3>. QED  BY <2>1, <3>1, CommandChannel
  <2>. QED
    BY <1>2, <2>2, <2>3, <2>4 DEF ScalerStep
<1>3. CASE CheckpointBoth
  BY <1>3, CheckpointChannel
<1>4. CASE RestoreBoth
  BY <1>4, RestoreChannel
<1>5. CASE UNCHANGED <<vars, chanVars>>
  <2>1. /\ input' = input /\ pos' = pos /\ wm' = wm /\ scaler' = scaler /\ emitted' = emitted
        /\ accepted' = accepted /\ ckpt' = ckpt
        /\ mcod' = mcod /\ fired' = fired /\ slide' = slide /\ ckptChannel' = ckptChannel
    BY <1>5 DEF vars, chanVars
  <2>. QED  BY <2>1, Zenon DEF ChannelInv
<1>. QED
  BY <1>1, <1>2, <1>3, <1>4, <1>5 DEF NextBoth

--------------------------------------------------------------------------------
(* The properties.                                                            *)

\* The scaler in the composition behaves as the scaler alone: slides are not its
\* steps, and what the channel adds to a checkpoint is not its state.
THEOREM ChannelKeepsScaler == SpecBoth => Spec
<1>1. InitBoth => Init
  BY DEF InitBoth
<1>2. [NextBoth]_<<vars, chanVars>> => [Next]_vars
  <2>. SUFFICES ASSUME [NextBoth]_<<vars, chanVars>>
                PROVE  [Next]_vars
    OBVIOUS
  <2>1. CASE FireSlide
    BY <2>1 DEF FireSlide
  <2>2. CASE ScalerStep
    BY <2>2 DEF ScalerStep, Next
  <2>3. CASE CheckpointBoth
    BY <2>3 DEF CheckpointBoth, Next
  <2>4. CASE RestoreBoth
    BY <2>4 DEF RestoreBoth, Next
  <2>5. CASE UNCHANGED <<vars, chanVars>>
    BY <2>5
  <2>. QED
    BY <2>1, <2>2, <2>3, <2>4, <2>5 DEF NextBoth
<1>. QED
  BY <1>1, <1>2, PTL DEF SpecBoth, Spec

\* With commands that keep their contract the invariant of the channel holds in
\* every behaviour, through switches, cold starts and restarts.
THEOREM ChannelInvariant ==
  ASSUME TimelyCommands
  PROVE  SpecBoth => []ChannelInv
<1>1. InitBoth => ChannelInv
  BY InitChannel
<1>2. Inv /\ ChannelInv /\ [NextBoth]_<<vars, chanVars>> => ChannelInv'
  BY ChannelStep
<1>. QED
  BY <1>1, <1>2, ChannelKeepsScaler, ScalerInvariant, PTL DEF SpecBoth

\* With commands stored on time, the last slide judged the rounds its window holds.
LEMMA LastSlide ==
  ASSUME Inv, ChannelInv, OnTimeOnly
  PROVE  /\ Judges(emitted, slide)
         /\ Elements(slide.end) = Between(emitted, slide.end - Window, slide.end)
         /\ Fresh(slide.end) = Between(emitted, slide.end - SlideStep, slide.end)
<1>1. /\ Channel(input, pos, emitted, accepted, mcod, fired, slide) /\ OnTime(accepted)
  BY Zenon DEF ChannelInv, OnTimeOnly, OnTime
<1>2. Judges(emitted, slide) /\ slide.end = fired /\ (fired = 0 \/ fired \in SlideEnds)
  BY <1>1, Zenon DEF Channel, Positioned
<1>3. fired \in Nat
  <2>1. SlideStep \in Nat \ {0}
    BY SlideInWindow
  <2>2. CASE fired = 0
    BY <2>2
  <2>3. CASE fired \in SlideEnds
    BY <2>1, <2>3 DEF SlideEnds
  <2>. QED  BY <1>2, <2>2, <2>3
<1>4. InOrder(input, emitted)
  <2>1. Aligned(input, pos, scaler, emitted) /\ input \in Inputs /\ pos \in 0..Len(input)
    BY Zenon DEF Inv, TypeOK, IInv, Part
  <2>. QED  BY <2>1, AlignedInOrder
<1>. QED
  BY <1>2, <1>3, <1>4, FreshIs

\* What the detector holds when a slide is judged is the window's admitted rounds
\* and nothing else, whatever versions, cold starts, backfills and restarts went
\* before, also when the round that should have cleared it was never admitted.
THEOREM ChannelWindowIsExact ==
  ASSUME TimelyCommands
  PROVE  SpecBoth => []WindowIsExact
<1>1. ASSUME Inv, ChannelInv
      PROVE  WindowIsExact
  <2>. SUFFICES ASSUME OnTimeOnly
                PROVE  {p.ts : p \in slide.points} = Inside(slide.end)
    BY DEF WindowIsExact
  <2>1. Inside(slide.end) = TimesOf(emitted, slide.end - Window, slide.end)
    BY <1>1, LastSlide, Zenon DEF Inside, TimesOf
  <2>2. PointTimes(slide.points) = TimesOf(emitted, slide.end - Window, slide.end)
    BY <1>1, LastSlide, Zenon DEF Judges
  <2>. QED  BY <2>1, <2>2, Zenon DEF PointTimes
<1>. QED
  BY <1>1, ChannelInvariant, ChannelKeepsScaler, ScalerInvariant, PTL

\* All points judged in a slide are normalized with the same parameters, also in
\* the slide that switches from one version to the next.
THEOREM ChannelOneNormalization ==
  ASSUME TimelyCommands
  PROVE  SpecBoth => []OneNormalization
<1>1. ASSUME Inv, ChannelInv
      PROVE  OneNormalization
  BY <1>1, LastSlide, Zenon DEF OneNormalization, Judges
<1>. QED
  BY <1>1, ChannelInvariant, ChannelKeepsScaler, ScalerInvariant, PTL

\* Every admitted round is judged in the slide in which it arrives, the round that
\* switches the version included.
THEOREM ChannelFreshRoundsAreJudged ==
  ASSUME TimelyCommands
  PROVE  SpecBoth => []FreshRoundsAreJudged
<1>1. ASSUME Inv, ChannelInv
      PROVE  FreshRoundsAreJudged
  <2>. SUFFICES ASSUME OnTimeOnly
                PROVE  {emitted[i].ts : i \in Fresh(slide.end)} \subseteq slide.judged
    BY DEF FreshRoundsAreJudged
  <2>1. TimesOf(emitted, slide.end - SlideStep, slide.end) \subseteq slide.judged
    BY <1>1, LastSlide, Zenon DEF Judges
  <2>. QED  BY <1>1, <2>1, LastSlide, Zenon DEF TimesOf
<1>. QED
  BY <1>1, ChannelInvariant, ChannelKeepsScaler, ScalerInvariant, PTL

================================================================================
