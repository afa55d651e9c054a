-------------------------- MODULE AdaptiveScalerProofs --------------------------
(***************************************************************************)
(* Theorems about the adaptive scaler for every input, every set of        *)
(* commands and every bound: its types, the commands that wait, the        *)
(* version each round carries, and what rides on the first round of one.   *)
(***************************************************************************)
EXTENDS AdaptiveScaler, SequenceTheorems, WellFoundedInduction, TLAPS

--------------------------------------------------------------------------------
(* Types. *)

Rds(inp) == {inp[i] : i \in 1..Len(inp)}
BackfillPoint == [ts : Nat, params : SUBSET Nat]

ScalerType(inp) ==
  [count : Nat, samples : SUBSET Rds(inp), frozen : BOOLEAN, params : SUBSET SUBSET Nat,
   histSent : BOOLEAN, cache : SUBSET Rds(inp), pending : SUBSET Commands,
   timers : SUBSET Nat, version : Nat, last : Nat, backfill : SUBSET SUBSET BackfillPoint]

EmittedType ==
  [ts : Nat, missing : BOOLEAN, cold : BOOLEAN, warmup : BOOLEAN, version : Nat,
   params : SUBSET SUBSET Nat, hist : BOOLEAN, backfill : SUBSET SUBSET BackfillPoint]

AcceptedType == [cmd : Commands, passed : BOOLEAN]

TypeOK ==
  /\ input \in Inputs /\ pos \in 0..Len(input)
  /\ topic \in Seq(Commands) /\ off \in 0..Len(topic)
  /\ wm \in Nat /\ reached \in Nat
  /\ scaler \in ScalerType(input)
  /\ emitted \in Seq(EmittedType) /\ accepted \in SUBSET AcceptedType
  /\ ckpt \in [pos : 0..Len(input), off : 0..Len(topic), scaler : ScalerType(input),
               emitted : Seq(EmittedType), accepted : SUBSET AcceptedType]
  /\ nCkpt \in Nat /\ nCrash \in Nat

--------------------------------------------------------------------------------
(* The inductive invariant.  Its parts speak of the rounds inp, the topic tp, *)
(* the highest watermark rd, and of a position p, a scaler s, rounds em sent  *)
(* and commands acc stored, so that they can be said of the running operator  *)
(* and of its checkpoint alike.                                               *)

CmdsOf(acc) == {a.cmd : a \in acc}
DoneOf(s, acc) == CmdsOf(acc) \ s.pending
OnTime(acc) == \A a \in acc : ~a.passed

\* The scaler has seen p rounds, and sent one for each of them.
Aligned(inp, p, s, em) ==
  /\ Len(em) = p
  /\ \A i \in 1..p : /\ em[i].ts = inp[i].ts /\ em[i].missing = inp[i].missing
                     /\ em[i].warmup = (i <= Warmup)
  /\ s.last = IF p = 0 THEN NoTs ELSE inp[p].ts
  /\ s.frozen = (p >= Warmup)
  /\ ~s.frozen => /\ s.count = p /\ s.version = NoVersion /\ ~s.histSent /\ s.backfill = None

\* Pending commands are ahead and have their timers; stored ones were published.
Waiting(tp, s, acc) ==
  /\ \A c \in s.pending : c.eff \in s.timers /\ c.eff > s.last
  /\ s.pending \subseteq CmdsOf(acc)
  /\ \A c \in CmdsOf(acc) : \E i \in 1..Len(tp) : tp[i] = c
  /\ \E n \in Nat : \A c \in CmdsOf(acc) : c.seq <= n

\* Commands are done in the order of their effective times, none before event
\* time has reached it, and all before the next round.
DoneFirst(s, acc) == \A c \in DoneOf(s, acc), d \in s.pending : c.eff < d.eff
DoneBy(inp, rd, p, s, acc) ==
  \A c \in DoneOf(s, acc) :
    /\ c.eff <= s.last \/ c.eff <= rd
    /\ p < Len(inp) => c.eff < inp[p + 1].ts

DueAmong(inp, cmds, t) == {c \in cmds : c.eff > inp[Warmup].ts /\ c.eff <= t}
VersionAfter(cmds) == IF cmds = {} THEN 1 ELSE Latest(cmds).seq + 1

\* The scaler's version is that of the latest command done since the freeze.
Executed(inp, s, acc) == {c \in DoneOf(s, acc) : c.eff > inp[Warmup].ts}
IsLatest(c, cmds) == c \in cmds /\ \A d \in cmds : Before(d, c)
Numbered(inp, s, acc) ==
  s.frozen =>
    \/ Executed(inp, s, acc) = {} /\ s.version \in {NoVersion, 1}
    \/ \E c \in Executed(inp, s, acc) :
         IsLatest(c, Executed(inp, s, acc)) /\ s.version = c.seq + 1

\* Every round sent carried the version its timestamp called for ...
VersionsSent(inp, em, acc) ==
  \A i \in 1..Len(em) :
    ~em[i].warmup => em[i].version = VersionAfter(DueAmong(inp, CmdsOf(acc), em[i].ts))

\* ... and its attachments were those of the first of that version.
OfVersion(em, v, n) == {i \in 1..n : ~em[i].warmup /\ em[i].version = v}
Own(backfill, params) == \A b \in backfill : \A q \in b : {q.params} = params
SentOnceAt(em, i) ==
  LET earlier == OfVersion(em, em[i].version, i - 1)
  IN  ~em[i].warmup =>
        /\ em[i].hist = (earlier = {})
        /\ (em[i].backfill # None) = (/\ ~em[i].missing /\ em[i].version # 1
                                      /\ \A j \in earlier : em[j].missing)
        /\ Own(em[i].backfill, em[i].params)
SentOnce(em) == \A i \in 1..Len(em) : SentOnceAt(em, i)

\* What the scaler still has to send for its version.
ToSend(s, em) ==
  s.frozen =>
    /\ s.histSent = (OfVersion(em, s.version, Len(em)) # {})
    /\ (s.backfill # None) = (/\ s.version \notin {NoVersion, 1}
                              /\ \A j \in OfVersion(em, s.version, Len(em)) : em[j].missing)
    /\ Own(s.backfill, s.params)
    /\ s.version = NoVersion => Len(em) = Warmup

Part(inp, tp, rd, p, s, em, acc) ==
  /\ Aligned(inp, p, s, em) /\ Waiting(tp, s, acc)
  /\ OnTime(acc) =>
       /\ DoneFirst(s, acc) /\ DoneBy(inp, rd, p, s, acc) /\ Numbered(inp, s, acc)
       /\ VersionsSent(inp, em, acc) /\ SentOnce(em) /\ ToSend(s, em)

\* A sequence number names one command.
SeqIsName(tp) == \A i, j \in 1..Len(tp) : tp[i].seq = tp[j].seq => tp[i] = tp[j]

IInv ==
  /\ SeqIsName(topic)
  /\ Part(input, topic, reached, pos, scaler, emitted, accepted)
  /\ Part(input, topic, reached, ckpt.pos, ckpt.scaler, ckpt.emitted, ckpt.accepted)

--------------------------------------------------------------------------------
(* Maxima, and the latest of several commands. *)

\* A nonempty set of natural numbers has a least element.
LEMMA LeastExists ==
  ASSUME NEW S \in SUBSET Nat, S # {}
  PROVE  \E m \in S : \A x \in S : m <= x
<1>1. \E m \in S : \A x \in S : ~ (<<x, m>> \in OpToRel(<, Nat))
  BY WFMin, NatLessThanWellFounded, Zenon
<1>2. PICK m \in S : \A x \in S : ~ (<<x, m>> \in OpToRel(<, Nat))
  BY <1>1
<1>3. \A x \in S : ~ (x < m)
  BY <1>2, Zenon DEF OpToRel
<1>. QED
  BY <1>3

\* A nonempty bounded set of natural numbers has a greatest element.
LEMMA GreatestExists ==
  ASSUME NEW S \in SUBSET Nat, S # {}, NEW n \in Nat, \A x \in S : x <= n
  PROVE  \E m \in S : \A x \in S : x <= m
<1>. DEFINE T == {n - x : x \in S}
<1>1. T \in SUBSET Nat /\ T # {}
  <2>1. \A x \in S : x \in Nat /\ x <= n
    OBVIOUS
  <2>2. \A x \in S : n - x \in Nat
    BY <2>1, SMT
  <2>. QED
    BY <2>2
<1>2. PICK k \in T : \A y \in T : k <= y
  BY <1>1, LeastExists
<1>3. PICK m \in S : k = n - m
  BY <1>2
<1>4. \A x \in S : x <= m
  <2>1. TAKE x \in S
  <2>2. n - x \in T
    BY <2>1
  <2>. QED
    BY <2>1, <2>2, <1>2, <1>3
<1>. QED
  BY <1>4

\* A nonempty set of commands of bounded times and numbers has a latest one.
LEMMA LatestExists ==
  ASSUME NEW cmds \in SUBSET Commands, cmds # {},
         NEW t \in Nat, \A c \in cmds : c.eff <= t,
         NEW n \in Nat, \A c \in cmds : c.seq <= n
  PROVE  IsLatest(Latest(cmds), cmds)
<1>. DEFINE effs == {c.eff : c \in cmds}
<1>1. effs \in SUBSET Nat /\ effs # {} /\ \A x \in effs : x <= t
  BY ScalerAssumption
<1>2. PICK e \in effs : \A x \in effs : x <= e
  BY <1>1, GreatestExists
<1>. DEFINE seqs == {c.seq : c \in {d \in cmds : d.eff = e}}
<1>3. seqs \in SUBSET Nat /\ seqs # {}
  BY <1>2, ScalerAssumption
<1>4. \A x \in seqs : x <= n
  OBVIOUS
<1>5. PICK k \in seqs : \A x \in seqs : x <= k
  BY <1>3, <1>4, GreatestExists
<1>6. PICK c \in cmds : c.eff = e /\ c.seq = k
  BY <1>5
<1>7. ASSUME NEW d \in cmds
      PROVE  Before(d, c)
  <2>1. d.eff \in Nat /\ d.seq \in Nat /\ e \in Nat /\ k \in Nat
    BY ScalerAssumption, <1>6
  <2>2. d.eff <= e
    BY <1>2
  <2>3. d.eff = e => d.seq <= k
    BY <1>5
  <2>. QED
    BY <2>1, <2>2, <2>3, <1>6 DEF Before
<1>8. \E x \in cmds : \A d \in cmds : Before(d, x)
  BY <1>7
<1>. QED
  BY <1>8 DEF Latest, IsLatest

\* All latest commands of a set have the same number, so it has one version.
LEMMA LatestIsOne ==
  ASSUME NEW cmds \in SUBSET Commands, NEW c \in cmds, IsLatest(c, cmds)
  PROVE  VersionAfter(cmds) = c.seq + 1
<1>1. Latest(cmds) \in cmds /\ \A d \in cmds : Before(d, Latest(cmds))
  BY DEF Latest, IsLatest
<1>2. Before(c, Latest(cmds)) /\ Before(Latest(cmds), c)
  BY <1>1 DEF IsLatest
<1>3. /\ c.eff \in Nat /\ c.seq \in Nat
      /\ Latest(cmds).eff \in Nat /\ Latest(cmds).seq \in Nat
  BY <1>1, ScalerAssumption
<1>4. Latest(cmds).seq = c.seq
  BY <1>2, <1>3 DEF Before
<1>. QED
  BY <1>4 DEF VersionAfter

--------------------------------------------------------------------------------
(* Executing the commands due. *)

Due(s, t) == {c \in s.pending : c.eff <= t}

\* What executing a command leaves alone, and what it sets.
SameCollected(s, e) ==
  /\ e.count = s.count /\ e.samples = s.samples /\ e.frozen = s.frozen
  /\ e.cache = s.cache /\ e.timers = s.timers /\ e.last = s.last
SameVersion(s, e) ==
  /\ e.version = s.version /\ e.histSent = s.histSent
  /\ e.backfill = s.backfill /\ e.params = s.params

\* e is s with the commands due by t executed.
Executes(s, t, e) ==
  /\ e.pending = s.pending \ Due(s, t)
  /\ e.count = s.count /\ e.frozen = s.frozen /\ e.last = s.last
  /\ Due(s, t) = {} \/ ~s.frozen => SameVersion(s, e)
  /\ Due(s, t) # {} /\ s.frozen =>
       /\ IsLatest(Latest(Due(s, t)), Due(s, t))
       /\ e.version = Latest(Due(s, t)).seq + 1
       /\ ~e.histSent /\ e.backfill # None /\ Own(e.backfill, e.params)

\* The rounds of an input have their types and are in order of time.
LEMMA RoundFacts ==
  ASSUME NEW inp \in Inputs
  PROVE  /\ Len(inp) \in Nat
         /\ \A i, j \in 1..Len(inp) :
              /\ inp[i].ts \in Nat \ {0} /\ inp[i].missing \in BOOLEAN
              /\ i < j => inp[i].ts < inp[j].ts
              /\ i <= j => inp[i].ts <= inp[j].ts
         /\ \A r \in Rds(inp) : r.ts \in Nat /\ r.missing \in BOOLEAN
<1>1. /\ Len(inp) \in Nat
      /\ \A i, j \in 1..Len(inp) :
           /\ inp[i].ts \in Nat \ {0} /\ inp[i].missing \in BOOLEAN
           /\ i < j => inp[i].ts < inp[j].ts
  BY InputsAssumption
<1>2. ASSUME NEW i \in 1..Len(inp), NEW j \in 1..Len(inp), i <= j
      PROVE  inp[i].ts <= inp[j].ts
  BY <1>1, <1>2
<1>. QED
  BY <1>1, <1>2 DEF Rds

\* What is estimated from the cache has the type of parameters and of backfills.
LEMMA EstimateType ==
  ASSUME NEW inp \in Inputs, NEW cache \in SUBSET Rds(inp), NEW eff \in Nat
  PROVE  /\ EstimatedFrom(cache, eff) \in SUBSET Nat
         /\ BackfillOf(cache, eff) \in SUBSET BackfillPoint
         /\ \A b \in BackfillOf(cache, eff) : b.params = EstimatedFrom(cache, eff)
<1>1. \A r \in cache : r.ts \in Nat
  BY RoundFacts
<1>2. EstimatedFrom(cache, eff) \in SUBSET Nat
  BY <1>1 DEF EstimatedFrom, Calibrated, InWindow
<1>. QED
  BY <1>1, <1>2 DEF BackfillOf, BackfillPoint, InWindow

\* Setting fields to values of their types keeps the scaler typed.
LEMMA FieldUpdate ==
  ASSUME NEW inp, NEW s \in ScalerType(inp), NEW n \in Nat,
         NEW params \in SUBSET SUBSET Nat, NEW backfill \in SUBSET SUBSET BackfillPoint,
         NEW rounds \in SUBSET Rds(inp)
  PROVE  /\ [s EXCEPT !.params = params, !.histSent = FALSE, !.version = n,
                      !.backfill = backfill] \in ScalerType(inp)
         /\ [s EXCEPT !.cache = rounds, !.last = n] \in ScalerType(inp)
         /\ [s EXCEPT !.version = n, !.histSent = TRUE, !.backfill = backfill] \in ScalerType(inp)
         /\ [s EXCEPT !.count = n, !.samples = rounds] \in ScalerType(inp)
         /\ [s EXCEPT !.frozen = TRUE, !.params = params, !.samples = rounds] \in ScalerType(inp)
BY DEF ScalerType

\* Level 0 installs the command's version with parameters, histograms to send
\* and a backfill under the new parameters, and touches nothing else.
LEMMA Level0Fields ==
  ASSUME NEW inp \in Inputs, NEW s \in ScalerType(inp), NEW c \in Commands
  PROVE  /\ Level0(s, c) \in ScalerType(inp)
         /\ SameCollected(s, Level0(s, c)) /\ Level0(s, c).pending = s.pending
         /\ Level0(s, c).version = c.seq + 1 /\ ~Level0(s, c).histSent
         /\ Level0(s, c).backfill # None
         /\ Own(Level0(s, c).backfill, Level0(s, c).params)
<1>. DEFINE q == EstimatedFrom(s.cache, c.eff)
            b == BackfillOf(s.cache, c.eff)
<1>1. c.eff \in Nat /\ c.seq + 1 \in Nat /\ s.cache \in SUBSET Rds(inp)
  BY ScalerAssumption DEF ScalerType
<1>2. q \in SUBSET Nat /\ b \in SUBSET BackfillPoint /\ \A x \in b : x.params = q
  BY <1>1, EstimateType
<1>3. Level0(s, c) = [s EXCEPT !.params = {q}, !.histSent = FALSE,
                               !.version = c.seq + 1, !.backfill = {b}]
  BY DEF Level0, Installed, ScalerType
<1>. HIDE DEF q, b
<1>. DEFINE params == {q}
            backfill == {b}
            v == c.seq + 1
<1>4. Level0(s, c) \in ScalerType(inp)
  <2>1. params \in SUBSET SUBSET Nat /\ backfill \in SUBSET SUBSET BackfillPoint
    BY <1>2
  <2>2. v \in Nat
    BY <1>1
  <2>3. Level0(s, c) = [s EXCEPT !.params = params, !.histSent = FALSE, !.version = v,
                                 !.backfill = backfill]
    BY <1>3
  <2>. HIDE DEF params, backfill, v
  <2>4. [s EXCEPT !.params = params, !.histSent = FALSE, !.version = v,
                    !.backfill = backfill] \in ScalerType(inp)
    BY <2>1, <2>2, FieldUpdate
  <2>. QED
    BY <2>3, <2>4
<1>5. Level0(s, c).params = {q} /\ Level0(s, c).backfill = {b}
  BY <1>3 DEF ScalerType
<1>6. Own({b}, {q})
  BY <1>2 DEF Own
<1>7. SameCollected(s, Level0(s, c)) /\ Level0(s, c).pending = s.pending
  BY <1>3 DEF ScalerType, SameCollected
<1>. QED
  BY <1>3, <1>4, <1>5, <1>6, <1>7 DEF ScalerType, None

\* Executing the commands due by t takes them off the pending ones; if there
\* were any and the scaler is frozen it has the version of the latest of them.
LEMMA ExecuteDueFields ==
  ASSUME NEW inp \in Inputs, NEW s \in ScalerType(inp), NEW t \in Nat,
         NEW n \in Nat, \A c \in s.pending : c.seq <= n
  PROVE  /\ ExecuteDue(s, t) \in ScalerType(inp)
         /\ SameCollected(s, ExecuteDue(s, t)) /\ Executes(s, t, ExecuteDue(s, t))
<1>. DEFINE rest == [s EXCEPT !.pending = @ \ Due(s, t)]
<1>1. /\ rest \in ScalerType(inp) /\ rest.pending = s.pending \ Due(s, t)
      /\ SameCollected(s, rest) /\ SameVersion(s, rest)
  BY DEF ScalerType, SameCollected, SameVersion
<1>2. ExecuteDue(s, t) = IF Due(s, t) = {} \/ ~s.frozen THEN rest
                         ELSE Level0(rest, Latest(Due(s, t)))
  BY DEF ExecuteDue, Due
<1>3. CASE Due(s, t) = {} \/ ~s.frozen
  BY <1>1, <1>2, <1>3 DEF Executes, SameCollected
<1>4. CASE Due(s, t) # {} /\ s.frozen
  <2>1. Due(s, t) \in SUBSET Commands /\ \A c \in Due(s, t) : c.eff <= t /\ c.seq <= n
    BY DEF Due, ScalerType
  <2>2. IsLatest(Latest(Due(s, t)), Due(s, t))
    BY <1>4, <2>1, LatestExists
  <2>3. Latest(Due(s, t)) \in Commands
    BY <2>1, <2>2 DEF IsLatest
  <2>. HIDE DEF rest
  <2>4. ExecuteDue(s, t) = Level0(rest, Latest(Due(s, t)))
    BY <1>2, <1>4
  <2>5. SameCollected(s, ExecuteDue(s, t)) /\ ExecuteDue(s, t).pending = rest.pending
    BY <1>1, <2>3, <2>4, Level0Fields DEF SameCollected
  <2>. QED
    BY <1>1, <1>4, <2>2, <2>3, <2>4, <2>5, Level0Fields DEF Executes, SameCollected
<1>. QED
  BY <1>3, <1>4

--------------------------------------------------------------------------------
(* What executing the due commands keeps of the invariant. *)

\* Commands executed are done, and the stored ones are commands.
LEMMA DoneAfter ==
  ASSUME NEW inp \in Inputs, NEW s \in ScalerType(inp), NEW e \in ScalerType(inp),
         NEW t \in Nat, NEW acc \in SUBSET AcceptedType, NEW tp \in Seq(Commands),
         Waiting(tp, s, acc), e.pending = s.pending \ Due(s, t)
  PROVE  /\ CmdsOf(acc) \in SUBSET Commands
         /\ DoneOf(e, acc) = DoneOf(s, acc) \cup Due(s, t)
<1>1. CmdsOf(acc) \in SUBSET Commands
  BY DEF CmdsOf, AcceptedType
<1>. QED
  BY <1>1 DEF DoneOf, Waiting, Due

\* A version is that of a stored command that was due, or the first.
LEMMA VersionAfterIs ==
  ASSUME NEW inp \in Inputs, NEW tp \in Seq(Commands), NEW s, NEW acc \in SUBSET AcceptedType,
         Waiting(tp, s, acc), NEW t \in Nat
  PROVE  LET due == DueAmong(inp, CmdsOf(acc), t)
         IN  \/ due = {} /\ VersionAfter(due) = 1
             \/ IsLatest(Latest(due), due) /\ VersionAfter(due) = Latest(due).seq + 1
<1>. DEFINE due == DueAmong(inp, CmdsOf(acc), t)
<1>1. due \in SUBSET Commands /\ \A c \in due : c.eff <= t
  BY DEF DueAmong, CmdsOf, AcceptedType
<1>2. PICK n \in Nat : \A c \in due : c.seq <= n
  BY DEF Waiting, DueAmong
<1>. HIDE DEF due
<1>3. due # {} => IsLatest(Latest(due), due)
  BY <1>1, <1>2, LatestExists
<1>4. due = {} \/ (IsLatest(Latest(due), due) /\ VersionAfter(due) = Latest(due).seq + 1)
  BY <1>3 DEF VersionAfter
<1>5. due = {} => VersionAfter(due) = 1
  BY DEF VersionAfter
<1>. QED
  BY <1>4, <1>5 DEF due

\* No round sent carries the version of a command that is still pending.
LEMMA PendingIsNew ==
  ASSUME NEW inp \in Inputs, NEW s \in ScalerType(inp), NEW em \in Seq(EmittedType),
         NEW acc \in SUBSET AcceptedType, NEW tp \in Seq(Commands), NEW p \in 0..Len(inp),
         SeqIsName(tp), Aligned(inp, p, s, em), Waiting(tp, s, acc),
         VersionsSent(inp, em, acc), NEW d \in s.pending
  PROVE  OfVersion(em, d.seq + 1, Len(em)) = {}
<1>. SUFFICES ASSUME NEW i \in OfVersion(em, d.seq + 1, Len(em))
              PROVE  FALSE
  OBVIOUS
<1>. DEFINE ts == em[i].ts
            due == DueAmong(inp, CmdsOf(acc), ts)
<1>1. i \in 1..Len(em) /\ ~em[i].warmup /\ em[i].version = d.seq + 1
  BY DEF OfVersion
<1>2. /\ d \in Commands /\ d \in CmdsOf(acc)
      /\ d.seq \in Nat \ {0} /\ d.eff \in Nat
  BY ScalerAssumption DEF ScalerType, Waiting
<1>3. ts \in Nat /\ ts < d.eff
  <2>1. Len(inp) \in Nat /\ Len(em) = p /\ ts = inp[i].ts /\ p > 0
    BY <1>1, RoundFacts DEF Aligned
  <2>2. inp[i].ts \in Nat /\ inp[i].ts <= inp[p].ts /\ s.last = inp[p].ts
    BY <1>1, <2>1, RoundFacts DEF Aligned
  <2>3. s.last < d.eff /\ s.last \in Nat
    BY DEF Waiting, ScalerType
  <2>. QED
    BY <1>2, <2>1, <2>2, <2>3
<1>4. VersionAfter(due) = d.seq + 1
  <2>1. em[i].version = VersionAfter(due)
    BY <1>1, Zenon DEF VersionsSent
  <2>. QED
    BY <1>1, <2>1, Zenon
<1>5. due # {} /\ IsLatest(Latest(due), due) /\ Latest(due).seq + 1 = d.seq + 1
  <2>1. \/ due = {} /\ VersionAfter(due) = 1
        \/ IsLatest(Latest(due), due) /\ VersionAfter(due) = Latest(due).seq + 1
    BY <1>3, VersionAfterIs
  <2>2. VersionAfter(due) # 1
    BY <1>2, <1>4
  <2>. QED
    BY <1>4, <2>1, <2>2 DEF IsLatest
<1>6. /\ Latest(due) \in CmdsOf(acc) /\ Latest(due).eff <= ts
      /\ Latest(due).seq \in Nat
  BY <1>5, ScalerAssumption DEF IsLatest, DueAmong, CmdsOf, AcceptedType
<1>7. Latest(due) = d
  <2>1. PICK j \in 1..Len(tp) : tp[j] = Latest(due)
    BY <1>6 DEF Waiting
  <2>2. PICK k \in 1..Len(tp) : tp[k] = d
    BY <1>2 DEF Waiting
  <2>3. Latest(due).seq = d.seq
    BY <1>2, <1>5, <1>6
  <2>. QED
    BY <2>1, <2>2, <2>3 DEF SeqIsName
<1>. QED
  BY <1>2, <1>3, <1>6, <1>7

\* Executing the commands due by t, which no round sent has reached, leaves the
\* scaler aligned, keeps commands done in order, its version numbered by the
\* latest of them and what it has to send to what was sent.
LEMMA ExecutesKeeps ==
  ASSUME NEW inp \in Inputs, NEW s \in ScalerType(inp), NEW e \in ScalerType(inp),
         NEW em \in Seq(EmittedType), NEW acc \in SUBSET AcceptedType,
         NEW tp \in Seq(Commands), NEW p \in 0..Len(inp), NEW t \in Nat,
         SeqIsName(tp), Aligned(inp, p, s, em), Waiting(tp, s, acc), Executes(s, t, e)
  PROVE  /\ Aligned(inp, p, e, em)
         /\ DoneFirst(s, acc) => DoneFirst(e, acc)
         /\ DoneFirst(s, acc) /\ Numbered(inp, s, acc) => Numbered(inp, e, acc)
         /\ VersionsSent(inp, em, acc) /\ ToSend(s, em) => ToSend(e, em)
<1>1. /\ CmdsOf(acc) \in SUBSET Commands
      /\ DoneOf(e, acc) = DoneOf(s, acc) \cup Due(s, t)
  BY DoneAfter DEF Executes
<1>2. \A c \in CmdsOf(acc) : c.eff \in Nat /\ c.seq \in Nat
  BY <1>1, ScalerAssumption
<1>3. /\ Due(s, t) \subseteq s.pending /\ s.pending \subseteq CmdsOf(acc)
      /\ \A c \in Due(s, t) : c.eff <= t /\ \A c2 \in e.pending : c2.eff > t
  BY <1>2 DEF Due, Executes, Waiting
<1>4. Aligned(inp, p, e, em)
  BY DEF Aligned, Executes, SameVersion
<1>5. ASSUME DoneFirst(s, acc)
      PROVE  DoneFirst(e, acc)
  <2>1. SUFFICES ASSUME NEW c \in DoneOf(e, acc), NEW d \in e.pending
                 PROVE  c.eff < d.eff
    BY DEF DoneFirst
  <2>2. d \in s.pending /\ c \in CmdsOf(acc) /\ d \in CmdsOf(acc)
    BY <1>3 DEF DoneOf, Executes
  <2>3. CASE c \in DoneOf(s, acc)
    BY <1>5, <2>2, <2>3 DEF DoneFirst
  <2>4. CASE c \in Due(s, t)
    BY <1>2, <1>3, <2>2, <2>4
  <2>. QED
    BY <1>1, <2>3, <2>4
<1>6. ASSUME DoneFirst(s, acc), Numbered(inp, s, acc)
      PROVE  Numbered(inp, e, acc)
  <2>1. CASE ~s.frozen
    BY <2>1 DEF Numbered, Executes
  <2>2. CASE Due(s, t) = {} /\ s.frozen
    <3>1. Executed(inp, e, acc) = Executed(inp, s, acc) /\ e.version = s.version
      BY <1>1, <2>2 DEF Executed, Executes, SameVersion
    <3>. QED
      BY <1>6, <2>2, <3>1 DEF Numbered
  <2>3. CASE Due(s, t) # {} /\ s.frozen
    <3>. DEFINE d == Latest(Due(s, t))
    <3>1. d \in Due(s, t) /\ (\A c \in Due(s, t) : Before(c, d)) /\ e.version = d.seq + 1
      BY <2>3 DEF Executes, IsLatest
    <3>2. inp[Warmup].ts \in Nat /\ inp[Warmup].ts <= s.last /\ s.last \in Nat
      <4>1. Warmup \in 1..p /\ p \in 1..Len(inp) /\ s.last = inp[p].ts
        <5>1. p >= Warmup
          BY <2>3 DEF Aligned, ScalerType
        <5>2. Len(inp) \in Nat /\ Warmup \in Nat \ {0}
          BY RoundFacts, ScalerAssumption
        <5>. QED
          BY <5>1, <5>2 DEF Aligned
      <4>. QED
        BY SMTT(40), <4>1, RoundFacts
    <3>3. d.eff > inp[Warmup].ts
      BY <1>2, <1>3, <3>1, <3>2 DEF Waiting
    <3>4. d \in Executed(inp, e, acc)
      BY <1>1, <3>1, <3>3 DEF Executed
    <3>5. ASSUME NEW c \in Executed(inp, e, acc)
          PROVE  Before(c, d)
      <4>1. CASE c \in Due(s, t)
        BY <3>1, <4>1
      <4>2. CASE c \in DoneOf(s, acc)
        BY <1>3, <1>6, <3>1, <4>2 DEF DoneFirst, Before
      <4>. QED
        BY <1>1, <4>1, <4>2 DEF Executed
    <3>. QED
      BY <3>1, <3>4, <3>5 DEF Numbered, IsLatest
  <2>. QED
    BY <2>1, <2>2, <2>3
<1>7. ASSUME VersionsSent(inp, em, acc), ToSend(s, em)
      PROVE  ToSend(e, em)
  <2>1. CASE Due(s, t) = {} \/ ~s.frozen
    BY <1>7, <2>1 DEF ToSend, Executes, SameVersion
  <2>2. CASE Due(s, t) # {} /\ s.frozen
    <3>. DEFINE d == Latest(Due(s, t))
    <3>1. /\ d \in s.pending /\ d.seq \in Nat \ {0}
          /\ e.version = d.seq + 1 /\ ~e.histSent /\ e.backfill # None
          /\ Own(e.backfill, e.params)
      BY <1>3, <2>2, ScalerAssumption DEF Executes, IsLatest, ScalerType
    <3>2. OfVersion(em, d.seq + 1, Len(em)) = {}
      BY <1>7, <3>1, PendingIsNew
    <3>3. e.version \notin {NoVersion, 1}
      BY <3>1 DEF NoVersion
    <3>. HIDE DEF d
    <3>4. OfVersion(em, e.version, Len(em)) = {}
      BY <3>1, <3>2
    <3>5. (e.backfill # None) /\ ~e.histSent /\ Own(e.backfill, e.params)
      BY <3>1
    <3>6. e.histSent = FALSE /\ (e.backfill # None) = TRUE
      BY <3>5 DEF ScalerType
    <3>. QED
      BY <3>3, <3>4, <3>5, <3>6 DEF ToSend
  <2>. QED
    BY <2>1, <2>2
<1>. QED
  BY <1>4, <1>5, <1>6, <1>7

--------------------------------------------------------------------------------
(* A round. *)

\* The scaler after round r, its due commands executed, and what it sends.
AfterRound(e, r) ==
  IF Cached(e, r).frozen THEN Tagged(Cached(e, r), r) ELSE Warmed(Cached(e, r), r)
SentFor(e, r, cold) == Output(Cached(e, r), r, cold)

TagOf(e) == IF e.version = NoVersion THEN 1 ELSE e.version

\* The cache keeps rounds of the input, and the round is the last one.
LEMMA CachedFields ==
  ASSUME NEW inp \in Inputs, NEW e \in ScalerType(inp), NEW r \in Rds(inp)
  PROVE  /\ Cached(e, r) \in ScalerType(inp)
         /\ Cached(e, r).last = r.ts
         /\ Cached(e, r).pending = e.pending /\ Cached(e, r).timers = e.timers
         /\ Cached(e, r).count = e.count /\ Cached(e, r).frozen = e.frozen
         /\ SameVersion(e, Cached(e, r))
<1>. DEFINE kept == {q \in e.cache \cup {r} : q.ts > r.ts - CacheDepth}
            last == r.ts
<1>1. kept \in SUBSET Rds(inp) /\ last \in Nat
  BY RoundFacts DEF ScalerType
<1>2. Cached(e, r) = [e EXCEPT !.cache = kept, !.last = last]
  BY DEF Cached, ScalerType
<1>. HIDE DEF kept, last
<1>3. [e EXCEPT !.cache = kept, !.last = last] \in ScalerType(inp)
  BY <1>1, FieldUpdate
<1>4. /\ Cached(e, r).last = last
      /\ Cached(e, r).pending = e.pending /\ Cached(e, r).timers = e.timers
      /\ Cached(e, r).count = e.count /\ Cached(e, r).frozen = e.frozen
  BY <1>2 DEF ScalerType
<1>5. SameVersion(e, Cached(e, r))
  BY <1>2 DEF ScalerType, SameVersion
<1>. QED
  BY <1>2, <1>3, <1>4, <1>5 DEF last

\* A round after the freeze gets the version, and takes what there is to send.
LEMMA TaggedFields ==
  ASSUME NEW inp \in Inputs, NEW e \in ScalerType(inp), NEW r
  PROVE  /\ Tagged(e, r) \in ScalerType(inp)
         /\ Tagged(e, r).version = TagOf(e) /\ Tagged(e, r).histSent
         /\ Tagged(e, r).backfill = (IF e.backfill # None /\ ~r.missing THEN None ELSE e.backfill)
         /\ Tagged(e, r).params = e.params /\ Tagged(e, r).frozen = e.frozen
         /\ Tagged(e, r).count = e.count /\ Tagged(e, r).last = e.last
         /\ Tagged(e, r).pending = e.pending /\ Tagged(e, r).timers = e.timers
<1>. DEFINE backfill == IF e.backfill # None /\ ~r.missing THEN None ELSE e.backfill
            version == TagOf(e)
<1>1. version \in Nat /\ backfill \in SUBSET SUBSET BackfillPoint
  BY DEF ScalerType, TagOf, None
<1>2. Tagged(e, r) = [e EXCEPT !.version = version, !.histSent = TRUE, !.backfill = backfill]
  BY DEF Tagged, ScalerType, Attaches, TagOf
<1>. HIDE DEF version, backfill
<1>3. [e EXCEPT !.version = version, !.histSent = TRUE, !.backfill = backfill]
        \in ScalerType(inp)
  BY <1>1, FieldUpdate
<1>4. /\ Tagged(e, r).backfill = backfill
      /\ Tagged(e, r).version = version /\ Tagged(e, r).histSent
      /\ Tagged(e, r).params = e.params /\ Tagged(e, r).frozen = e.frozen
      /\ Tagged(e, r).count = e.count /\ Tagged(e, r).last = e.last
      /\ Tagged(e, r).pending = e.pending /\ Tagged(e, r).timers = e.timers
  BY <1>2 DEF ScalerType
<1>. QED
  BY <1>2, <1>3, <1>4 DEF version, backfill

\* A round before the freeze is counted, and the last of them freezes.
LEMMA WarmedFields ==
  ASSUME NEW inp \in Inputs, NEW e \in ScalerType(inp), NEW r \in Rds(inp), ~e.frozen
  PROVE  /\ Warmed(e, r) \in ScalerType(inp)
         /\ Warmed(e, r).count = e.count + 1
         /\ Warmed(e, r).frozen = (e.count + 1 = Warmup)
         /\ Warmed(e, r).last = e.last
         /\ Warmed(e, r).version = e.version /\ Warmed(e, r).histSent = e.histSent
         /\ Warmed(e, r).backfill = e.backfill
         /\ Warmed(e, r).pending = e.pending /\ Warmed(e, r).timers = e.timers
<1>. DEFINE samples == e.samples \cup {r}
            n == e.count + 1
            seen == [e EXCEPT !.count = n, !.samples = samples]
            params == {Calibrated(samples)}
<1>1. samples \in SUBSET Rds(inp) /\ n \in Nat /\ {} \in SUBSET Rds(inp)
  BY DEF ScalerType
<1>2. Calibrated(samples) \in SUBSET Nat
  BY <1>1, RoundFacts DEF Calibrated
<1>3. params \in SUBSET SUBSET Nat
  BY <1>2
<1>4. seen.samples = samples /\ seen.count = n
  BY DEF ScalerType
<1>5. Warmed(e, r) = IF n = Warmup
                     THEN [seen EXCEPT !.frozen = TRUE, !.params = params, !.samples = {}]
                     ELSE seen
  BY <1>4 DEF Warmed, Frozen, ScalerType
<1>. HIDE DEF samples, n, params
<1>6. seen \in ScalerType(inp)
  BY <1>1, FieldUpdate
<1>7. [seen EXCEPT !.frozen = TRUE, !.params = params, !.samples = {}] \in ScalerType(inp)
  <2>. HIDE DEF seen
  <2>. QED
    BY <1>1, <1>3, <1>6, FieldUpdate
<1>8. /\ Warmed(e, r).count = n
      /\ Warmed(e, r).frozen = (n = Warmup)
      /\ Warmed(e, r).last = e.last
      /\ Warmed(e, r).version = e.version /\ Warmed(e, r).histSent = e.histSent
      /\ Warmed(e, r).backfill = e.backfill
      /\ Warmed(e, r).pending = e.pending /\ Warmed(e, r).timers = e.timers
  BY <1>5 DEF ScalerType
<1>. QED
  BY <1>5, <1>6, <1>7, <1>8 DEF n

\* Setting fields of a round sent keeps its type.
LEMMA EmittedUpdate ==
  ASSUME NEW o \in EmittedType, NEW n \in Nat, NEW params \in SUBSET SUBSET Nat,
         NEW hist \in BOOLEAN, NEW backfill \in SUBSET SUBSET BackfillPoint
  PROVE  [o EXCEPT !.version = n, !.params = params, !.hist = hist, !.backfill = backfill]
           \in EmittedType
BY DEF EmittedType

\* The round sent carries the tag, and what there was to send.
LEMMA OutputFields ==
  ASSUME NEW inp \in Inputs, NEW e \in ScalerType(inp), NEW r \in Rds(inp),
         NEW cold \in BOOLEAN
  PROVE  LET o == Output(e, r, cold)
         IN  /\ o \in EmittedType
             /\ o.ts = r.ts /\ o.missing = r.missing /\ o.warmup = ~e.frozen
             /\ e.frozen =>
                  /\ o.version = TagOf(e) /\ o.params = e.params /\ o.hist = ~e.histSent
                  /\ o.backfill = IF e.backfill # None /\ ~r.missing THEN e.backfill ELSE None
<1>. DEFINE base == [ts |-> r.ts, missing |-> r.missing, cold |-> cold, warmup |-> ~e.frozen,
                     version |-> NoVersion, params |-> None, hist |-> FALSE, backfill |-> None]
            backfill == IF e.backfill # None /\ ~r.missing THEN e.backfill ELSE None
            version == TagOf(e)
            hist == ~e.histSent
<1>1. r.ts \in Nat /\ r.missing \in BOOLEAN
  BY RoundFacts
<1>2. base \in EmittedType
  BY <1>1 DEF EmittedType, NoVersion, None
<1>3. version \in Nat /\ backfill \in SUBSET SUBSET BackfillPoint /\ hist \in BOOLEAN
  BY DEF ScalerType, TagOf, None
<1>4. Tagged(e, r).version = version
  BY TaggedFields
<1>5. Output(e, r, cold) =
        IF ~e.frozen THEN base
        ELSE [base EXCEPT !.version = version, !.params = e.params, !.hist = hist,
                          !.backfill = backfill]
  BY <1>4 DEF Output, Attaches
<1>6. e.params \in SUBSET SUBSET Nat
  BY DEF ScalerType
<1>. HIDE DEF backfill, version, hist
<1>7. Output(e, r, cold) \in EmittedType
  <2>. DEFINE params == e.params
  <2>1. params \in SUBSET SUBSET Nat
    BY <1>6
  <2>. HIDE DEF base, params
  <2>2. [base EXCEPT !.version = version, !.params = params, !.hist = hist,
                     !.backfill = backfill] \in EmittedType
    BY <1>2, <1>3, <2>1, EmittedUpdate
  <2>. QED
    BY <1>2, <1>5, <2>2 DEF params
<1>8. e.frozen => /\ Output(e, r, cold).version = version
                  /\ Output(e, r, cold).params = e.params
                  /\ Output(e, r, cold).hist = hist
                  /\ Output(e, r, cold).backfill = backfill
  BY <1>5
<1>9. /\ Output(e, r, cold).ts = r.ts /\ Output(e, r, cold).missing = r.missing
      /\ Output(e, r, cold).warmup = ~e.frozen
  BY <1>5
<1>. QED
  BY <1>7, <1>8, <1>9 DEF version, backfill, hist

\* s2 is the scaler e after round r, and o what it sent for it.
Advances(e, r, s2, o) ==
  /\ s2.last = r.ts /\ s2.pending = e.pending /\ s2.timers = e.timers
  /\ ~e.frozen => /\ s2.count = e.count + 1 /\ s2.frozen = (e.count + 1 = Warmup)
                  /\ s2.version = e.version /\ s2.histSent = e.histSent
                  /\ s2.backfill = e.backfill
  /\ e.frozen => /\ s2.frozen /\ s2.version = TagOf(e) /\ s2.histSent
                 /\ s2.backfill = (IF e.backfill # None /\ ~r.missing THEN None ELSE e.backfill)
                 /\ s2.params = e.params
  /\ o.ts = r.ts /\ o.missing = r.missing /\ o.warmup = ~e.frozen
  /\ e.frozen => /\ o.version = TagOf(e) /\ o.params = e.params /\ o.hist = ~e.histSent
                 /\ o.backfill = (IF e.backfill # None /\ ~r.missing THEN e.backfill ELSE None)

\* A round advances the scaler and sends what Advances says, in its types.
LEMMA RoundFields ==
  ASSUME NEW inp \in Inputs, NEW e \in ScalerType(inp), NEW r \in Rds(inp),
         NEW cold \in BOOLEAN
  PROVE  /\ AfterRound(e, r) \in ScalerType(inp) /\ SentFor(e, r, cold) \in EmittedType
         /\ Advances(e, r, AfterRound(e, r), SentFor(e, r, cold))
<1>. DEFINE c == Cached(e, r)
            o == SentFor(e, r, cold)
            s2 == AfterRound(e, r)
<1>1. /\ c \in ScalerType(inp) /\ c.last = r.ts
      /\ c.pending = e.pending /\ c.timers = e.timers
      /\ c.count = e.count /\ c.frozen = e.frozen /\ SameVersion(e, c)
  BY CachedFields
<1>2. s2 = (IF c.frozen THEN Tagged(c, r) ELSE Warmed(c, r)) /\ o = Output(c, r, cold)
  BY DEF AfterRound, SentFor
<1>3. TagOf(c) = TagOf(e)
  BY <1>1 DEF TagOf, SameVersion
<1>. HIDE DEF c, o, s2
<1>4. /\ o \in EmittedType /\ o.ts = r.ts /\ o.missing = r.missing /\ o.warmup = ~e.frozen
      /\ e.frozen =>
           /\ o.version = TagOf(e) /\ o.params = e.params /\ o.hist = ~e.histSent
           /\ o.backfill = IF e.backfill # None /\ ~r.missing THEN e.backfill ELSE None
  BY <1>1, <1>2, <1>3, OutputFields DEF SameVersion
<1>5. CASE e.frozen
  <2>1. s2 = Tagged(c, r)
    BY <1>1, <1>2, <1>5
  <2>2. /\ s2 \in ScalerType(inp)
        /\ s2.version = TagOf(c) /\ s2.histSent
        /\ s2.backfill = (IF c.backfill # None /\ ~r.missing THEN None ELSE c.backfill)
        /\ s2.params = c.params /\ s2.frozen = c.frozen /\ s2.last = c.last
        /\ s2.pending = c.pending /\ s2.timers = c.timers
    BY ZenonT(40), <1>1, <2>1, TaggedFields
  <2>3. c.params = e.params /\ c.backfill = e.backfill
    BY <1>1 DEF SameVersion
  <2>4. s2.frozen = TRUE
    BY <1>1, <1>5, <2>2
  <2>5. Advances(e, r, s2, o)
    BY <1>1, <1>3, <1>4, <1>5, <2>2, <2>3, <2>4 DEF Advances
  <2>. QED
    BY <2>2, <2>5, <1>4 DEF s2, o
<1>6. CASE ~e.frozen
  <2>1. s2 = Warmed(c, r)
    BY <1>1, <1>2, <1>6
  <2>2. s2 \in ScalerType(inp) /\ Advances(e, r, s2, o)
    BY <1>1, <1>4, <1>6, <2>1, WarmedFields DEF Advances, SameVersion
  <2>. QED
    BY <2>2, <1>4 DEF s2, o
<1>. QED
  BY <1>5, <1>6

\* Appending to what was sent leaves the rounds of earlier indices.
LEMMA AppendFacts ==
  ASSUME NEW em \in Seq(EmittedType), NEW o \in EmittedType
  PROVE  /\ Len(em) \in Nat
         /\ Append(em, o) \in Seq(EmittedType) /\ Len(Append(em, o)) = Len(em) + 1
         /\ \A i \in 1..Len(em) : Append(em, o)[i] = em[i]
         /\ Append(em, o)[Len(em) + 1] = o
         /\ \A v : \A n \in 0..Len(em) : OfVersion(Append(em, o), v, n) = OfVersion(em, v, n)
<1>1. /\ Len(em) \in Nat
      /\ Append(em, o) \in Seq(EmittedType) /\ Len(Append(em, o)) = Len(em) + 1
      /\ \A i \in 1..Len(em) : Append(em, o)[i] = em[i]
      /\ Append(em, o)[Len(em) + 1] = o
  BY AppendProperties, LenProperties
<1>2. ASSUME NEW v, NEW n \in 0..Len(em)
      PROVE  OfVersion(Append(em, o), v, n) = OfVersion(em, v, n)
  <2>1. \A i \in 1..n : Append(em, o)[i] = em[i]
    BY <1>1
  <2>. QED
    BY <2>1 DEF OfVersion
<1>. QED
  BY <1>1, <1>2

\* A round keeps the scaler and what it sent aligned with the rounds.
LEMMA RoundAligned ==
  ASSUME NEW inp \in Inputs, NEW e \in ScalerType(inp), NEW em \in Seq(EmittedType),
         NEW p \in Nat, p < Len(inp), Aligned(inp, p, e, em),
         NEW s2 \in ScalerType(inp), NEW o \in EmittedType, Advances(e, inp[p + 1], s2, o)
  PROVE  Aligned(inp, p + 1, s2, Append(em, o))
<1>1. p + 1 \in 1..Len(inp) /\ inp[p + 1] = inp[p + 1]
  BY RoundFacts
<1>2. Len(em) = p /\ Len(Append(em, o)) = p + 1
  BY AppendFacts DEF Aligned
<1>3. e.frozen = (p >= Warmup) /\ Warmup \in Nat \ {0}
  BY ScalerAssumption DEF Aligned
<1>4. ASSUME NEW i \in 1..(p + 1)
      PROVE  /\ Append(em, o)[i].ts = inp[i].ts /\ Append(em, o)[i].missing = inp[i].missing
             /\ Append(em, o)[i].warmup = (i <= Warmup)
  <2>1. CASE i \in 1..p
    BY <1>2, <2>1, AppendFacts DEF Aligned
  <2>2. CASE i = p + 1
    <3>1. Append(em, o)[i] = o
      BY <1>2, <2>2, AppendFacts
    <3>2. o.warmup = (i <= Warmup)
      <4>1. (~e.frozen) = (p + 1 <= Warmup)
        BY <1>3 DEF ScalerType
      <4>2. o.warmup = ~e.frozen
        BY DEF Advances
      <4>. QED
        BY <2>2, <4>1, <4>2
    <3>. QED
      BY <2>2, <3>1, <3>2 DEF Advances
  <2>3. i \in 1..p \/ i = p + 1
    OBVIOUS
  <2>. QED
    BY <2>1, <2>2, <2>3, Zenon
<1>5. s2.last = IF p + 1 = 0 THEN NoTs ELSE inp[p + 1].ts
  BY DEF Advances
<1>6. CASE e.frozen
  <2>1. s2.frozen = TRUE
    BY <1>6 DEF Advances, ScalerType
  <2>2. p >= Warmup
    BY <1>3, <1>6 DEF ScalerType
  <2>3. s2.frozen = (p + 1 >= Warmup)
    <3>1. p + 1 >= Warmup
      BY <1>3, <2>2
    <3>. QED
      BY <2>1, <3>1, Zenon
  <2>. QED
    BY <1>2, <1>4, <1>5, <2>1, <2>3 DEF Aligned
<1>7. CASE ~e.frozen
  <2>1. e.count = p /\ e.version = NoVersion /\ ~e.histSent /\ e.backfill = None
    BY <1>7 DEF Aligned
  <2>2. s2.frozen = (p + 1 = Warmup) /\ ~(p >= Warmup)
    BY <1>3, <1>7, <2>1 DEF Advances
  <2>3. s2.frozen = (p + 1 >= Warmup)
    BY <1>3, <2>2 DEF ScalerType
  <2>4. /\ s2.count = p + 1 /\ s2.version = NoVersion /\ ~s2.histSent
        /\ s2.backfill = None
    BY <1>7, <2>1 DEF Advances
  <2>. QED
    BY <1>2, <1>4, <1>5, <2>3, <2>4 DEF Aligned
<1>. QED
  BY <1>6, <1>7

\* Commands due at a round in event time are those done when it is sent.
LEMMA DueIsExecuted ==
  ASSUME NEW inp \in Inputs, NEW e \in ScalerType(inp), NEW acc \in SUBSET AcceptedType,
         NEW t \in Nat, \A c \in DoneOf(e, acc) : c.eff <= t, \A c \in e.pending : ~ (c.eff <= t)
  PROVE  DueAmong(inp, CmdsOf(acc), t) = Executed(inp, e, acc)
BY DEF DueAmong, Executed, DoneOf

\* A round sent after the freeze carries the version its timestamp calls for.
LEMMA RoundVersion ==
  ASSUME NEW inp \in Inputs, NEW e \in ScalerType(inp), NEW acc \in SUBSET AcceptedType,
         NEW t \in Nat, \A c \in DoneOf(e, acc) : c.eff <= t, \A c \in e.pending : ~ (c.eff <= t),
         e.frozen, Numbered(inp, e, acc)
  PROVE  TagOf(e) = VersionAfter(DueAmong(inp, CmdsOf(acc), t))
<1>. DEFINE done == Executed(inp, e, acc)
<1>1. DueAmong(inp, CmdsOf(acc), t) = done
  BY DueIsExecuted
<1>2. done \in SUBSET Commands
  BY DEF Executed, DoneOf, CmdsOf, AcceptedType
<1>3. CASE done = {} /\ e.version \in {NoVersion, 1}
  BY <1>1, <1>3 DEF TagOf, VersionAfter
<1>4. ASSUME NEW c \in done, IsLatest(c, done), e.version = c.seq + 1
      PROVE  TagOf(e) = VersionAfter(done)
  <2>1. VersionAfter(done) = c.seq + 1
    BY <1>2, <1>4, LatestIsOne
  <2>2. c.seq \in Nat \ {0}
    BY <1>2, ScalerAssumption
  <2>. QED
    BY <1>4, <2>1, <2>2 DEF TagOf, NoVersion
<1>. QED
  BY <1>1, <1>3, <1>4 DEF Numbered

\* What the scaler has to send, in terms of the version it tags.
LEMMA ToSendByTag ==
  ASSUME NEW inp \in Inputs, NEW e \in ScalerType(inp), NEW em \in Seq(EmittedType),
         NEW p \in Nat, Aligned(inp, p, e, em), e.frozen, ToSend(e, em)
  PROVE  /\ e.histSent = (OfVersion(em, TagOf(e), p) # {})
         /\ (e.backfill # None) = (/\ TagOf(e) # 1
                                   /\ \A j \in OfVersion(em, TagOf(e), p) : em[j].missing)
         /\ Own(e.backfill, e.params)
<1>1. Len(em) = p
  BY DEF Aligned
<1>2. CASE e.version # NoVersion
  BY <1>1, <1>2 DEF ToSend, TagOf
<1>3. CASE e.version = NoVersion
  <2>1. p = Warmup
    BY <1>1, <1>3 DEF ToSend
  <2>2. \A v : OfVersion(em, v, p) = {}
    BY <2>1 DEF OfVersion, Aligned
  <2>3. TagOf(e) = 1
    BY <1>3 DEF TagOf
  <2>. QED
    BY <1>1, <1>3, <2>2, <2>3 DEF ToSend
<1>. QED
  BY <1>2, <1>3

\* A round's attachments are those of the first of its version, and leave to
\* send what was not sent.
LEMMA RoundSentOnce ==
  ASSUME NEW inp \in Inputs, NEW e \in ScalerType(inp), NEW em \in Seq(EmittedType),
         NEW p \in Nat, p < Len(inp), Aligned(inp, p, e, em),
         SentOnce(em), ToSend(e, em),
         NEW s2 \in ScalerType(inp), NEW o \in EmittedType, Advances(e, inp[p + 1], s2, o)
  PROVE  SentOnce(Append(em, o)) /\ ToSend(s2, Append(em, o))
<1>. DEFINE em2 == Append(em, o)
            v == TagOf(e)
            earlier == OfVersion(em, v, p)
<1>1. /\ Len(em) = p /\ Len(em2) = p + 1 /\ em2[p + 1] = o
      /\ \A i \in 1..p : em2[i] = em[i]
      /\ \A u : \A n \in 0..p : OfVersion(em2, u, n) = OfVersion(em, u, n)
  BY AppendFacts DEF Aligned
<1>2. ASSUME NEW i \in 1..p
      PROVE  SentOnceAt(em2, i)
  <2>1. em2[i] = em[i] /\ i - 1 \in 0..p /\ SentOnceAt(em, i)
    BY <1>1 DEF SentOnce
  <2>2. /\ OfVersion(em2, em[i].version, i - 1) = OfVersion(em, em[i].version, i - 1)
        /\ \A j \in OfVersion(em, em[i].version, i - 1) : em2[j] = em[j]
    BY <1>1, <2>1 DEF OfVersion
  <2>. HIDE DEF em2
  <2>. QED
    BY <2>1, <2>2 DEF SentOnceAt
<1>3. \A i \in 1..(p + 1) : i \in 1..p \/ i = p + 1
  OBVIOUS
<1>4. CASE ~e.frozen
  <2>1. o.warmup /\ SentOnceAt(em2, p + 1)
    BY <1>1, <1>4 DEF Advances, SentOnceAt
  <2>2. ASSUME s2.frozen
        PROVE  ToSend(s2, em2)
    <3>1. e.count = p /\ e.version = NoVersion /\ e.histSent = FALSE /\ e.backfill = None
      BY <1>4 DEF Aligned, ScalerType
    <3>2. /\ p + 1 = Warmup
          /\ s2.version = NoVersion /\ s2.histSent = FALSE /\ s2.backfill = None
      BY <1>4, <2>2, <3>1 DEF Advances
    <3>3. \A i \in 1..(p + 1) : em2[i].warmup
      <4>1. \A i \in 1..p : em[i].warmup
        <5>1. \A i \in 1..p : em[i].warmup = (i <= Warmup)
          BY DEF Aligned
        <5>2. \A i \in 1..p : i <= Warmup
          BY <3>2
        <5>. QED
          BY <5>1, <5>2, Zenon
      <4>2. \A i \in 1..p : em2[i].warmup
        BY <1>1, <4>1, Zenon
      <4>3. em2[p + 1].warmup
        BY <1>1, <2>1
      <4>. QED
        BY <1>3, <4>2, <4>3, Zenon
    <3>. HIDE DEF em2
    <3>4. OfVersion(em2, NoVersion, p + 1) = {}
      BY <3>3 DEF OfVersion
    <3>. QED
      BY <1>1, <3>2, <3>4 DEF ToSend, Own, None, NoVersion
  <2>. QED
    BY <1>1, <1>2, <1>3, <2>1, <2>2 DEF SentOnce, ToSend
<1>5. CASE e.frozen
  <2>1. /\ e.histSent = (earlier # {})
        /\ (e.backfill # None) = (v # 1 /\ \A j \in earlier : em[j].missing)
        /\ Own(e.backfill, e.params)
    BY <1>5, ToSendByTag
  <2>2. /\ o.warmup = FALSE /\ o.version = v /\ o.params = e.params /\ o.hist = ~e.histSent
        /\ o.missing = inp[p + 1].missing
        /\ o.backfill = (IF e.backfill # None /\ ~o.missing THEN e.backfill ELSE None)
    BY <1>5 DEF Advances
  <2>3. /\ s2.histSent = TRUE /\ s2.version = v /\ s2.params = e.params
        /\ s2.backfill = (IF e.backfill # None /\ ~o.missing THEN None ELSE e.backfill)
    BY <1>5 DEF Advances, ScalerType
  <2>4. v \in Nat /\ v # NoVersion
    BY DEF TagOf, ScalerType, NoVersion
  <2>5. /\ earlier \subseteq 1..p /\ \A j \in earlier : em2[j] = em[j]
        /\ OfVersion(em2, v, p) = earlier
    BY <1>1 DEF OfVersion
  <2>6. OfVersion(em2, v, p + 1) = earlier \cup {p + 1}
    BY <1>1, <1>3, <2>2, <2>5 DEF OfVersion
  <2>7. Own(None, e.params)
    BY DEF Own, None
  <2>. HIDE DEF em2, v, earlier, None
  <2>8. SentOnceAt(em2, p + 1)
    <3>1. em2[p + 1].version = v /\ OfVersion(em2, v, (p + 1) - 1) = earlier
      BY <1>1, <2>2, <2>5
    <3>2. o.hist = (earlier = {})
      BY <2>1, <2>2
    <3>3. (o.backfill # None) = (/\ ~o.missing /\ o.version # 1
                                 /\ \A j \in earlier : em2[j].missing)
      BY <2>1, <2>2, <2>5
    <3>4. Own(o.backfill, o.params)
      BY <2>1, <2>2, <2>7
    <3>. QED
      BY <1>1, <3>1, <3>2, <3>3, <3>4 DEF SentOnceAt
  <2>9. ToSend(s2, em2)
    <3>1. (s2.backfill # None) = (/\ v \notin {NoVersion, 1}
                                  /\ \A j \in earlier \cup {p + 1} : em2[j].missing)
      BY <1>1, <2>1, <2>3, <2>4, <2>5
    <3>2. Own(s2.backfill, s2.params)
      BY <2>1, <2>3, <2>7
    <3>. QED
      BY <1>1, <2>3, <2>4, <2>6, <3>1, <3>2 DEF ToSend
  <2>. QED
    BY <1>1, <1>2, <1>3, <2>8, <2>9 DEF SentOnce, em2
<1>. QED
  BY <1>4, <1>5

\* A round keeps every part of the invariant.
LEMMA RoundKeeps ==
  ASSUME NEW inp \in Inputs, NEW s \in ScalerType(inp), NEW em \in Seq(EmittedType),
         NEW acc \in SUBSET AcceptedType, NEW tp \in Seq(Commands), NEW rd \in Nat,
         NEW p \in Nat, p < Len(inp), SeqIsName(tp), Part(inp, tp, rd, p, s, em, acc),
         NEW e \in ScalerType(inp), Executes(s, inp[p + 1].ts, e), e.timers = s.timers,
         NEW s2 \in ScalerType(inp), NEW o \in EmittedType, Advances(e, inp[p + 1], s2, o)
  PROVE  Part(inp, tp, rd, p + 1, s2, Append(em, o), acc)
<1>. DEFINE t == inp[p + 1].ts
            em2 == Append(em, o)
<1>1. /\ p \in 0..Len(inp) /\ p + 1 \in 1..Len(inp) /\ Len(inp) \in Nat
      /\ t \in Nat /\ s.last \in Nat
  BY RoundFacts DEF ScalerType
<1>2. Aligned(inp, p, s, em) /\ Waiting(tp, s, acc)
  BY DEF Part
<1>3. /\ CmdsOf(acc) \in SUBSET Commands
      /\ DoneOf(e, acc) = DoneOf(s, acc) \cup Due(s, t)
  BY <1>1, <1>2, DoneAfter DEF Executes
<1>4. \A c \in CmdsOf(acc) : c.eff \in Nat
  BY <1>3, ScalerAssumption
<1>5. /\ s2.pending = e.pending /\ s2.last = t /\ s2.timers = s.timers
      /\ e.pending = s.pending \ Due(s, t) /\ s.pending \subseteq CmdsOf(acc)
  BY <1>2 DEF Advances, Executes, Waiting
<1>6. DoneOf(s2, acc) = DoneOf(e, acc)
  BY <1>5 DEF DoneOf
<1>7. Aligned(inp, p, e, em) /\ Aligned(inp, p + 1, s2, em2)
  BY <1>1, <1>2, ExecutesKeeps, RoundAligned
<1>8. \A c \in e.pending : c.eff > t /\ ~ (c.eff <= t)
  BY <1>1, <1>4, <1>5 DEF Due
<1>9. Waiting(tp, s2, acc)
  BY <1>2, <1>5, <1>8 DEF Waiting
<1>10. ASSUME OnTime(acc)
       PROVE  /\ DoneFirst(s2, acc) /\ DoneBy(inp, rd, p + 1, s2, acc)
              /\ Numbered(inp, s2, acc) /\ VersionsSent(inp, em2, acc)
              /\ SentOnce(em2) /\ ToSend(s2, em2)
  <2>1. /\ DoneFirst(s, acc) /\ DoneBy(inp, rd, p, s, acc) /\ Numbered(inp, s, acc)
        /\ VersionsSent(inp, em, acc) /\ SentOnce(em) /\ ToSend(s, em)
    BY <1>10 DEF Part
  <2>2. DoneFirst(e, acc) /\ Numbered(inp, e, acc) /\ ToSend(e, em)
    BY <1>1, <1>2, <2>1, ExecutesKeeps
  <2>3. DoneFirst(s2, acc)
    BY <1>5, <1>6, <2>2 DEF DoneFirst
  <2>4. \A c \in DoneOf(e, acc) : c \in CmdsOf(acc) /\ c.eff <= t
    <3>1. ASSUME NEW c \in DoneOf(s, acc)
          PROVE  c \in CmdsOf(acc) /\ c.eff <= t
      BY <1>1, <1>4, <2>1 DEF DoneBy, DoneOf
    <3>2. ASSUME NEW c \in Due(s, t)
          PROVE  c \in CmdsOf(acc) /\ c.eff <= t
      BY <1>5 DEF Due
    <3>. QED
      BY <1>3, <3>1, <3>2
  <2>5. DoneBy(inp, rd, p + 1, s2, acc)
    <3>1. SUFFICES ASSUME NEW c \in DoneOf(s2, acc)
                   PROVE  /\ c.eff <= s2.last
                          /\ p + 1 < Len(inp) => c.eff < inp[(p + 1) + 1].ts
      BY DEF DoneBy
    <3>2. c.eff \in Nat /\ c.eff <= t
      BY <1>4, <1>6, <2>4
    <3>3. p + 1 < Len(inp) => inp[(p + 1) + 1].ts \in Nat /\ t < inp[(p + 1) + 1].ts
      BY <1>1, RoundFacts
    <3>. QED
      BY <1>1, <1>5, <3>2, <3>3
  <2>6. CASE ~e.frozen
    <3>1. VersionsSent(inp, em2, acc)
      <4>1. Len(em) = p /\ Len(em2) = p + 1 /\ em2[p + 1] = o /\ \A i \in 1..p : em2[i] = em[i]
        BY <1>2, AppendFacts DEF Aligned
      <4>2. \A i \in 1..(p + 1) : i \in 1..p \/ i = p + 1
        OBVIOUS
      <4>. HIDE DEF em2
      <4>3. ASSUME NEW i \in 1..p, ~em2[i].warmup
            PROVE  em2[i].version = VersionAfter(DueAmong(inp, CmdsOf(acc), em2[i].ts))
        BY <2>1, <4>1, <4>3 DEF VersionsSent
      <4>4. em2[p + 1].warmup
        BY <2>6, <4>1 DEF Advances
      <4>. QED
        BY <4>1, <4>2, <4>3, <4>4 DEF VersionsSent
    <3>2. Numbered(inp, s2, acc)
      <4>1. SUFFICES ASSUME s2.frozen
                     PROVE  Executed(inp, s2, acc) = {} /\ s2.version = NoVersion
        BY DEF Numbered
      <4>2. p + 1 = Warmup /\ s2.version = NoVersion
        BY <1>7, <2>6, <4>1 DEF Aligned, Advances
      <4>3. \A c \in DoneOf(s2, acc) : ~ (c.eff > inp[Warmup].ts)
        BY <1>1, <1>4, <1>6, <2>4, <4>2
      <4>. QED
        BY <4>2, <4>3 DEF Executed
    <3>. QED
      BY <1>1, <1>7, <2>1, <2>2, <2>3, <2>5, <3>1, <3>2, RoundSentOnce
  <2>7. CASE e.frozen
    <3>1. TagOf(e) = VersionAfter(DueAmong(inp, CmdsOf(acc), t))
      BY <1>1, <1>8, <2>2, <2>4, <2>7, RoundVersion
    <3>2. o.version = TagOf(e) /\ o.ts = t /\ s2.version = TagOf(e)
      BY <2>7 DEF Advances
    <3>3. VersionsSent(inp, em2, acc)
      <4>1. Len(em) = p /\ Len(em2) = p + 1 /\ em2[p + 1] = o /\ \A i \in 1..p : em2[i] = em[i]
        BY <1>2, AppendFacts DEF Aligned
      <4>2. \A i \in 1..(p + 1) : i \in 1..p \/ i = p + 1
        OBVIOUS
      <4>. HIDE DEF em2, t
      <4>3. ASSUME NEW i \in 1..p, ~em2[i].warmup
            PROVE  em2[i].version = VersionAfter(DueAmong(inp, CmdsOf(acc), em2[i].ts))
        BY <2>1, <4>1, <4>3 DEF VersionsSent
      <4>4. em2[p + 1].version = VersionAfter(DueAmong(inp, CmdsOf(acc), em2[p + 1].ts))
        BY <3>1, <3>2, <4>1
      <4>. QED
        BY <4>1, <4>2, <4>3, <4>4 DEF VersionsSent
    <3>4. Numbered(inp, s2, acc)
      <4>1. Executed(inp, s2, acc) = Executed(inp, e, acc)
        BY <1>6 DEF Executed
      <4>2. e.version \in {NoVersion, 1} => s2.version \in {NoVersion, 1}
        BY <3>2 DEF TagOf
      <4>3. \A c \in Executed(inp, e, acc) : e.version = c.seq + 1 => s2.version = c.seq + 1
        <5>1. \A c \in Executed(inp, e, acc) : c.seq \in Nat \ {0}
          BY <1>3, ScalerAssumption DEF Executed, DoneOf
        <5>. QED
          BY <3>2, <5>1 DEF TagOf, NoVersion
      <4>. QED
        BY <2>2, <2>7, <4>1, <4>2, <4>3 DEF Numbered
    <3>. QED
      BY <1>1, <1>7, <2>1, <2>2, <2>3, <2>5, <3>3, <3>4, RoundSentOnce
  <2>. QED
    BY <2>6, <2>7
<1>. QED
  BY <1>7, <1>9, <1>10 DEF Part

--------------------------------------------------------------------------------
(* Watermarks, commands, checkpoints. *)

\* A watermark that fires timers executes the commands they were set for.
LEMMA WatermarkKeeps ==
  ASSUME NEW inp \in Inputs, NEW s \in ScalerType(inp), NEW em \in Seq(EmittedType),
         NEW acc \in SUBSET AcceptedType, NEW tp \in Seq(Commands), NEW rd \in Nat,
         NEW p \in 0..Len(inp), SeqIsName(tp), Part(inp, tp, rd, p, s, em, acc),
         NEW w \in Nat, NEW t \in Nat, NEW rd2 \in Nat, rd <= rd2, w <= rd2, t <= w,
         p < Len(inp) => w < inp[p + 1].ts,
         \A u \in s.timers : u <= w => u <= t,
         NEW e \in ScalerType(inp), Executes(s, t, e), e.timers = s.timers \ {u \in s.timers : u <= w}
  PROVE  Part(inp, tp, rd2, p, e, em, acc)
<1>1. Aligned(inp, p, s, em) /\ Waiting(tp, s, acc)
  BY DEF Part
<1>2. /\ CmdsOf(acc) \in SUBSET Commands
      /\ DoneOf(e, acc) = DoneOf(s, acc) \cup Due(s, t)
  BY <1>1, DoneAfter DEF Executes
<1>3. \A c \in CmdsOf(acc) : c.eff \in Nat
  BY <1>2, ScalerAssumption
<1>4. e.pending = s.pending \ Due(s, t) /\ s.pending \subseteq CmdsOf(acc) /\ e.last = s.last
  BY <1>1 DEF Executes, Waiting
<1>5. Waiting(tp, e, acc)
  <2>1. ASSUME NEW c \in e.pending
        PROVE  c.eff \in e.timers /\ c.eff > e.last
    <3>1. /\ c \in s.pending /\ c.eff \in Nat /\ c.eff > t
          /\ c.eff \in s.timers /\ c.eff > s.last
      BY <1>1, <1>3, <1>4 DEF Waiting, Due
    <3>2. ~ (c.eff <= w)
      BY <3>1
    <3>. QED
      BY <1>4, <3>1, <3>2
  <2>. QED
    BY <1>1, <1>4, <2>1 DEF Waiting
<1>6. Aligned(inp, p, e, em)
  BY <1>1, ExecutesKeeps
<1>7. ASSUME OnTime(acc)
      PROVE  /\ DoneFirst(e, acc) /\ DoneBy(inp, rd2, p, e, acc)
             /\ Numbered(inp, e, acc) /\ ToSend(e, em)
             /\ VersionsSent(inp, em, acc) /\ SentOnce(em)
  <2>1. /\ DoneFirst(s, acc) /\ DoneBy(inp, rd, p, s, acc) /\ Numbered(inp, s, acc)
        /\ VersionsSent(inp, em, acc) /\ SentOnce(em) /\ ToSend(s, em)
    BY <1>7 DEF Part
  <2>2. DoneFirst(e, acc) /\ Numbered(inp, e, acc) /\ ToSend(e, em)
    BY <1>1, <2>1, ExecutesKeeps
  <2>3. DoneBy(inp, rd2, p, e, acc)
    <3>1. \A c \in DoneOf(s, acc) : /\ c.eff <= s.last \/ c.eff <= rd2
                                    /\ p < Len(inp) => c.eff < inp[p + 1].ts
      <4>1. \A c \in DoneOf(s, acc) : c.eff \in Nat
        BY <1>3 DEF DoneOf
      <4>. QED
        BY <2>1, <4>1 DEF DoneBy
    <3>2. \A c \in Due(s, t) : /\ c.eff <= rd2
                               /\ p < Len(inp) => c.eff < inp[p + 1].ts
      <4>1. \A c \in Due(s, t) : c.eff \in Nat /\ c.eff <= t
        BY <1>3, <1>4 DEF Due
      <4>2. p < Len(inp) => inp[p + 1].ts \in Nat
        BY RoundFacts
      <4>. QED
        BY <4>1, <4>2
    <3>. QED
      BY <1>2, <1>4, <3>1, <3>2 DEF DoneBy
  <2>. QED
    BY <2>1, <2>2, <2>3
<1>. QED
  BY <1>5, <1>6, <1>7 DEF Part

\* What holds of a scaler stays true as commands are published and time passes.
LEMMA PartStays ==
  ASSUME NEW inp \in Inputs, NEW s, NEW em, NEW acc \in SUBSET AcceptedType,
         NEW tp, NEW tp2, NEW rd \in Nat, NEW rd2 \in Nat, rd <= rd2, NEW p,
         Part(inp, tp, rd, p, s, em, acc),
         \A i \in 1..Len(tp) : \E j \in 1..Len(tp2) : tp2[j] = tp[i]
  PROVE  Part(inp, tp2, rd2, p, s, em, acc)
<1>1. Waiting(tp2, s, acc)
  <2>1. ASSUME NEW c \in CmdsOf(acc)
        PROVE  \E j \in 1..Len(tp2) : tp2[j] = c
    BY DEF Part, Waiting
  <2>. QED
    BY <2>1 DEF Part, Waiting
<1>2. DoneBy(inp, rd, p, s, acc) => DoneBy(inp, rd2, p, s, acc)
  <2>1. \A c \in DoneOf(s, acc) : c.eff \in Nat
    BY ScalerAssumption DEF DoneOf, CmdsOf, AcceptedType
  <2>. QED
    BY <2>1 DEF DoneBy
<1>. QED
  BY <1>1, <1>2 DEF Part

\* Storing one more command.
LEMMA CmdsOfAdd ==
  ASSUME NEW acc, NEW a
  PROVE  CmdsOf(acc \cup {a}) = CmdsOf(acc) \cup {a.cmd}
BY DEF CmdsOf

\* Storing a command that event time has not passed changes no version in force
\* at a round sent; stored again, it was pending still.
LEMMA StoringKeeps ==
  ASSUME NEW inp \in Inputs, NEW s \in ScalerType(inp), NEW em \in Seq(EmittedType),
         NEW acc \in SUBSET AcceptedType, NEW tp \in Seq(Commands), NEW rd \in Nat,
         NEW p \in 0..Len(inp), Part(inp, tp, rd, p, s, em, acc),
         NEW c \in Commands, \E i \in 1..Len(tp) : tp[i] = c, c.eff > s.last,
         NEW s2 \in ScalerType(inp),
         s2 = [s EXCEPT !.pending = @ \cup {c}, !.timers = @ \cup {c.eff}],
         NEW acc2 \in SUBSET AcceptedType,
         acc2 = acc \cup {[cmd |-> c, passed |-> c.eff <= rd]}
  PROVE  Part(inp, tp, rd, p, s2, em, acc2)
<1>1. Aligned(inp, p, s, em) /\ Waiting(tp, s, acc)
  BY DEF Part
<1>2. /\ s2.pending = s.pending \cup {c} /\ s2.timers = s.timers \cup {c.eff}
      /\ s2.last = s.last /\ s2.frozen = s.frozen /\ s2.count = s.count
      /\ SameVersion(s, s2)
  <2>. DEFINE pending == s.pending \cup {c}
              timers == s.timers \cup {c.eff}
  <2>1. s2 = [s EXCEPT !.pending = pending, !.timers = timers]
    BY DEF ScalerType
  <2>. HIDE DEF pending, timers
  <2>2. /\ s2.pending = pending /\ s2.timers = timers
        /\ s2.last = s.last /\ s2.frozen = s.frozen /\ s2.count = s.count
        /\ s2.version = s.version /\ s2.histSent = s.histSent
        /\ s2.backfill = s.backfill /\ s2.params = s.params
    BY <2>1 DEF ScalerType
  <2>. QED
    BY <2>2 DEF pending, timers, SameVersion
<1>. DEFINE a == [cmd |-> c, passed |-> c.eff <= rd]
<1>3. a.cmd = c /\ (a.passed <=> c.eff <= rd) /\ acc2 = acc \cup {a}
  <2>1. acc2 = acc \cup {a}
    BY Zenon
  <2>. QED
    BY <2>1
<1>. HIDE DEF a
<1>8. CmdsOf(acc2) = CmdsOf(acc) \cup {c}
  BY <1>3, CmdsOfAdd
<1>4. /\ c.eff \in Nat /\ c.seq \in Nat /\ s.last \in Nat
      /\ \A d \in CmdsOf(acc) : d \in Commands /\ d.eff \in Nat /\ d.seq \in Nat
  <2>1. CmdsOf(acc) \in SUBSET Commands /\ s.last \in Nat
    BY DEF CmdsOf, AcceptedType, ScalerType
  <2>. QED
    BY <2>1, ScalerAssumption
<1>. HIDE DEF CmdsOf
<1>5. Aligned(inp, p, s2, em)
  BY <1>1, <1>2 DEF Aligned, SameVersion
<1>6. Waiting(tp, s2, acc2)
  <2>1. PICK n \in Nat : \A d \in CmdsOf(acc) : d.seq <= n
    BY <1>1 DEF Waiting
  <2>2. \E m \in Nat : m >= n /\ m >= c.seq
    BY <1>4
  <2>3. \E m \in Nat : \A d \in CmdsOf(acc2) : d.seq <= m
    <3>1. PICK m \in Nat : m >= n /\ m >= c.seq
      BY <2>2
    <3>2. \A d \in CmdsOf(acc2) : d.seq <= m
      BY <1>8, <1>4, <2>1, <3>1
    <3>. QED
      BY <3>2
  <2>. QED
    BY <1>1, <1>2, <1>8, <2>3 DEF Waiting
<1>7. ASSUME OnTime(acc2)
      PROVE  /\ DoneFirst(s2, acc2) /\ DoneBy(inp, rd, p, s2, acc2)
             /\ Numbered(inp, s2, acc2) /\ VersionsSent(inp, em, acc2)
             /\ SentOnce(em) /\ ToSend(s2, em)
  <2>1. OnTime(acc) /\ ~ (c.eff <= rd)
    BY <1>3, <1>7 DEF OnTime
  <2>2. /\ DoneFirst(s, acc) /\ DoneBy(inp, rd, p, s, acc) /\ Numbered(inp, s, acc)
        /\ VersionsSent(inp, em, acc) /\ SentOnce(em) /\ ToSend(s, em)
    BY <2>1 DEF Part
  <2>3. \A d \in DoneOf(s, acc) : d \in CmdsOf(acc) /\ d.eff < c.eff
    BY <1>4, <2>1, <2>2 DEF DoneOf, DoneBy
  <2>4. DoneOf(s2, acc2) = DoneOf(s, acc)
    <3>1. c \notin DoneOf(s, acc)
      BY <1>4, <2>3
    <3>. QED
      BY <1>2, <1>8, <3>1 DEF DoneOf
  <2>5. DoneFirst(s2, acc2)
    BY <1>2, <2>2, <2>3, <2>4 DEF DoneFirst
  <2>6. DoneBy(inp, rd, p, s2, acc2)
    BY <1>2, <2>2, <2>4 DEF DoneBy
  <2>7. Numbered(inp, s2, acc2)
    <3>1. Executed(inp, s2, acc2) = Executed(inp, s, acc)
      BY <2>4 DEF Executed
    <3>. QED
      BY <1>2, <2>2, <3>1 DEF Numbered, SameVersion
  <2>8. VersionsSent(inp, em, acc2)
    <3>1. SUFFICES ASSUME NEW i \in 1..Len(em), ~em[i].warmup
                   PROVE  em[i].version = VersionAfter(DueAmong(inp, CmdsOf(acc2), em[i].ts))
      BY DEF VersionsSent
    <3>2. em[i].ts \in Nat /\ em[i].ts <= s.last
      <4>1. Len(em) = p /\ em[i].ts = inp[i].ts /\ i \in 1..Len(inp) /\ p \in 1..Len(inp)
        BY <1>1, RoundFacts DEF Aligned
      <4>2. s.last = inp[p].ts
        BY <1>1, <4>1 DEF Aligned
      <4>. QED
        BY <4>1, <4>2, RoundFacts
    <3>3. ~ (c.eff <= em[i].ts)
      BY <1>4, <3>2
    <3>4. DueAmong(inp, CmdsOf(acc2), em[i].ts) = DueAmong(inp, CmdsOf(acc), em[i].ts)
      BY <1>8, <3>3 DEF DueAmong
    <3>. QED
      BY <2>2, <3>1, <3>4 DEF VersionsSent
  <2>9. ToSend(s2, em)
    BY <1>2, <2>2 DEF ToSend, SameVersion
  <2>. QED
    BY <2>2, <2>5, <2>6, <2>7, <2>8, <2>9
<1>. QED
  BY <1>5, <1>6, <1>7 DEF Part

--------------------------------------------------------------------------------
(* The invariant is inductive. *)

Inv == TypeOK /\ IInv

\* The invariant holds initially.
LEMMA InitInv == Init => Inv
<1>. SUFFICES ASSUME Init
              PROVE  Inv
  OBVIOUS
<1>1. /\ input \in Inputs /\ Len(input) \in Nat
      /\ pos = 0 /\ topic = <<>> /\ off = 0 /\ wm = 0 /\ reached = 0
      /\ scaler = InitScaler /\ emitted = <<>> /\ accepted = {}
      /\ ckpt = [pos |-> 0, off |-> 0, scaler |-> InitScaler, emitted |-> <<>>, accepted |-> {}]
      /\ nCkpt = 0 /\ nCrash = 0
  BY RoundFacts DEF Init
<1>2. InitScaler \in ScalerType(input)
  BY DEF InitScaler, ScalerType, None, NoVersion, NoTs
<1>3. /\ Len(topic) = 0 /\ Len(emitted) = 0
      /\ topic \in Seq(Commands) /\ emitted \in Seq(EmittedType)
  BY <1>1, EmptySeq
<1>4. TypeOK
  <2>1. ckpt \in [pos : 0..Len(input), off : 0..Len(topic), scaler : ScalerType(input),
                  emitted : Seq(EmittedType), accepted : SUBSET AcceptedType]
    BY <1>1, <1>2, <1>3
  <2>. QED
    BY <1>1, <1>2, <1>3, <2>1 DEF TypeOK
<1>5. Part(input, topic, 0, 0, InitScaler, emitted, {})
  <2>1. Aligned(input, 0, InitScaler, emitted)
    <3>1. (0 >= Warmup) = FALSE
      BY ScalerAssumption
    <3>2. /\ InitScaler.frozen = FALSE /\ InitScaler.last = NoTs /\ InitScaler.count = 0
          /\ InitScaler.version = NoVersion /\ ~InitScaler.histSent
          /\ InitScaler.backfill = None
      BY DEF InitScaler
    <3>3. Len(emitted) = 0 /\ \A i \in 1..0 : FALSE
      BY <1>3
    <3>. QED
      BY <3>1, <3>2, <3>3 DEF Aligned
  <2>2. CmdsOf({}) = {} /\ DoneOf(InitScaler, {}) = {} /\ InitScaler.pending = {}
    BY DEF CmdsOf, DoneOf, InitScaler
  <2>3. Waiting(topic, InitScaler, {})
    BY <2>2 DEF Waiting
  <2>4. ~InitScaler.frozen
    BY DEF InitScaler
  <2>5. Numbered(input, InitScaler, {}) /\ ToSend(InitScaler, emitted)
    BY <2>4 DEF Numbered, ToSend
  <2>6. VersionsSent(input, emitted, {}) /\ SentOnce(emitted)
    BY <1>3 DEF VersionsSent, SentOnce
  <2>7. DoneFirst(InitScaler, {}) /\ DoneBy(input, 0, 0, InitScaler, {})
    BY <2>2 DEF DoneFirst, DoneBy
  <2>. QED
    BY <2>1, <2>3, <2>5, <2>6, <2>7 DEF Part
<1>6. IInv
  BY <1>1, <1>3, <1>5 DEF IInv, SeqIsName
<1>. QED
  BY <1>4, <1>6 DEF Inv

\* The sequence numbers of the pending commands are bounded.
LEMMA PendingBound ==
  ASSUME NEW tp, NEW s, NEW acc, Waiting(tp, s, acc)
  PROVE  \E n \in Nat : \A c \in s.pending : c.seq <= n
BY DEF Waiting

\* A round keeps the invariant.
LEMMA RoundInv == Inv /\ ProcessRound => Inv'
<1>. SUFFICES ASSUME Inv, ProcessRound
              PROVE  Inv'
  OBVIOUS
<1>. DEFINE r == input[pos + 1]
            e == ExecuteDue(scaler, r.ts)
            o == SentFor(e, r, Cold(scaler.last, r))
<1>1. TypeOK /\ IInv
  BY DEF Inv
<1>2. /\ pos < Len(input) /\ pos' = pos + 1
      /\ scaler' = AfterRound(e, r) /\ emitted' = Append(emitted, o)
      /\ UNCHANGED <<input, topic, off, wm, accepted, reached, ckpt, nCkpt, nCrash>>
  BY DEF ProcessRound, AfterRound, SentFor
<1>3. /\ input \in Inputs /\ pos \in 0..Len(input) /\ Len(input) \in Nat
      /\ scaler \in ScalerType(input) /\ emitted \in Seq(EmittedType)
      /\ accepted \in SUBSET AcceptedType /\ topic \in Seq(Commands) /\ reached \in Nat
  BY <1>1, RoundFacts DEF TypeOK
<1>4. pos + 1 \in 1..Len(input) /\ pos \in Nat /\ r \in Rds(input) /\ r.ts \in Nat
  BY <1>2, <1>3, RoundFacts DEF Rds
<1>5. Part(input, topic, reached, pos, scaler, emitted, accepted) /\ SeqIsName(topic)
  BY <1>1 DEF IInv
<1>6. PICK n \in Nat : \A c \in scaler.pending : c.seq <= n
  BY <1>5, PendingBound DEF Part
<1>7. /\ e \in ScalerType(input) /\ SameCollected(scaler, e)
      /\ Executes(scaler, r.ts, e)
  BY <1>3, <1>4, <1>6, ExecuteDueFields
<1>8. Cold(scaler.last, r) \in BOOLEAN
  BY DEF Cold
<1>9. e.timers = scaler.timers
  BY <1>7 DEF SameCollected
<1>. HIDE DEF e
<1>10. /\ scaler' \in ScalerType(input) /\ o \in EmittedType
       /\ Advances(e, r, scaler', o)
  BY <1>2, <1>4, <1>3, <1>7, <1>8, RoundFields
<1>. HIDE DEF o
<1>11. emitted' \in Seq(EmittedType)
  BY <1>2, <1>3, <1>10, AppendFacts
<1>12. Part(input, topic, reached, pos + 1, scaler', emitted', accepted)
  BY <1>2, <1>3, <1>4, <1>5, <1>7, <1>9, <1>10, RoundKeeps
<1>13. TypeOK'
  BY <1>1, <1>2, <1>3, <1>4, <1>10, <1>11 DEF TypeOK
<1>14. IInv'
  BY <1>1, <1>2, <1>12 DEF IInv
<1>. QED
  BY <1>13, <1>14 DEF Inv

\* A watermark keeps the invariant.
LEMMA WatermarkInv == Inv /\ (\E w \in 1..MaxTime : ProcessWatermark(w)) => Inv'
<1>. SUFFICES ASSUME Inv, NEW w \in 1..MaxTime, ProcessWatermark(w)
              PROVE  Inv'
  OBVIOUS
<1>. DEFINE fired == {t \in scaler.timers : t <= w}
            last == CHOOSE t \in fired : \A u \in fired : u <= t
            e == ExecuteDue(scaler, last)
            rd2 == IF w > reached THEN w ELSE reached
<1>1. TypeOK /\ IInv
  BY DEF Inv
<1>2. /\ w > wm /\ (pos < Len(input) => w < input[pos + 1].ts)
      /\ wm' = w /\ reached' = rd2
      /\ scaler' = [(IF fired = {} THEN scaler ELSE e) EXCEPT !.timers = @ \ fired]
      /\ UNCHANGED <<input, pos, topic, off, emitted, accepted, ckpt, nCkpt, nCrash>>
  BY DEF ProcessWatermark
<1>3. /\ input \in Inputs /\ pos \in 0..Len(input) /\ w \in Nat
      /\ scaler \in ScalerType(input) /\ emitted \in Seq(EmittedType)
      /\ accepted \in SUBSET AcceptedType /\ topic \in Seq(Commands) /\ reached \in Nat
      /\ fired \in SUBSET Nat
  BY SMTT(40), <1>1, ScalerAssumption DEF TypeOK, ScalerType
<1>4. rd2 \in Nat /\ reached <= rd2 /\ w <= rd2
  BY <1>3
<1>5. /\ Part(input, topic, reached, pos, scaler, emitted, accepted) /\ SeqIsName(topic)
      /\ Part(input, topic, reached, ckpt.pos, ckpt.scaler, ckpt.emitted, ckpt.accepted)
  BY <1>1 DEF IInv
<1>6. PICK n \in Nat : \A c \in scaler.pending : c.seq <= n
  BY <1>5, PendingBound DEF Part
<1>7. /\ scaler' \in ScalerType(input)
      /\ Part(input, topic, rd2, pos, scaler', emitted, accepted)
  <2>1. CASE fired = {}
    <3>1. scaler' = scaler
      BY <1>2, <1>3, <2>1 DEF ScalerType
    <3>2. \A i \in 1..Len(topic) : \E j \in 1..Len(topic) : topic[j] = topic[i]
      OBVIOUS
    <3>. QED
      BY <1>3, <1>4, <1>5, <3>1, <3>2, PartStays
  <2>2. CASE fired # {}
    <3>1. last \in fired /\ \A u \in fired : u <= last
      <4>1. \A t \in fired : t <= w
        OBVIOUS
      <4>2. \E t \in fired : \A u \in fired : u <= t
        BY <1>3, <2>2, <4>1, GreatestExists
      <4>. QED
        BY <4>2
    <3>. HIDE DEF last, rd2
    <3>2. last \in Nat /\ last <= w /\ \A u \in scaler.timers : u <= w => u <= last
      BY <1>3, <3>1
    <3>3. /\ e \in ScalerType(input) /\ SameCollected(scaler, e)
          /\ Executes(scaler, last, e)
      BY <1>3, <1>6, <3>2, ExecuteDueFields
    <3>. HIDE DEF e
    <3>4. scaler' = [e EXCEPT !.timers = @ \ fired] /\ e.timers = scaler.timers
      BY <1>2, <2>2, <3>3 DEF SameCollected
    <3>5. scaler' \in ScalerType(input)
      BY <3>3, <3>4 DEF ScalerType
    <3>6. /\ scaler'.timers = scaler.timers \ fired
          /\ scaler'.pending = e.pending /\ scaler'.count = e.count
          /\ scaler'.frozen = e.frozen /\ scaler'.last = e.last
          /\ scaler'.version = e.version /\ scaler'.histSent = e.histSent
          /\ scaler'.backfill = e.backfill /\ scaler'.params = e.params
      BY <3>3, <3>4 DEF ScalerType
    <3>7. Executes(scaler, last, scaler')
      BY <3>3, <3>6 DEF Executes, SameVersion
    <3>8. Part(input, topic, rd2, pos, scaler', emitted, accepted)
      <4>1. scaler'.timers = scaler.timers \ {u \in scaler.timers : u <= w}
        BY <3>6
      <4>2. pos < Len(input) => w < input[pos + 1].ts
        BY <1>2
      <4>. HIDE DEF fired
      <4>. QED
        BY <1>3, <1>4, <1>5, <3>2, <3>5, <3>7, <4>1, <4>2, WatermarkKeeps
    <3>. QED
      BY <3>5, <3>8
  <2>. QED
    BY <2>1, <2>2
<1>8. Part(input, topic, rd2, ckpt.pos, ckpt.scaler, ckpt.emitted, ckpt.accepted)
  <2>1. ckpt.accepted \in SUBSET AcceptedType
    BY <1>1 DEF TypeOK
  <2>. QED
    BY <1>3, <1>4, <1>5, <2>1, PartStays
<1>9. TypeOK'
  BY <1>1, <1>2, <1>3, <1>4, <1>7 DEF TypeOK
<1>10. IInv'
  BY <1>2, <1>5, <1>7, <1>8 DEF IInv
<1>. QED
  BY <1>9, <1>10 DEF Inv

\* A command arrives from the topic, or is appended to it: a new number, or one
\* of the records again.
LEMMA ArrivingFacts ==
  ASSUME TypeOK, SeqIsName(topic), NEW c \in Commands, Arriving(c)
  PROVE  /\ topic' \in Seq(Commands) /\ off + 1 \in 0..Len(topic') /\ Len(topic) <= Len(topic')
         /\ Len(topic') \in Nat /\ Len(topic) \in Nat
         /\ \A i \in 1..Len(topic) : \E j \in 1..Len(topic') : topic'[j] = topic[i]
         /\ \E j \in 1..Len(topic') : topic'[j] = c
         /\ SeqIsName(topic')
<1>1. /\ topic \in Seq(Commands) /\ off \in 0..Len(topic) /\ Len(topic) \in Nat
      /\ \A i \in 1..Len(topic) : topic[i] \in Commands
  BY LenProperties, ElementOfSeq DEF TypeOK
<1>2. CASE off < Len(topic) /\ topic[off + 1] = c /\ UNCHANGED topic
  <2>1. topic' = topic /\ off + 1 \in 1..Len(topic)
    BY <1>1, <1>2
  <2>. QED
    BY <1>1, <1>2, <2>1
<1>3. CASE off = Len(topic) /\ Publishable(c) /\ topic' = Append(topic, c)
  <2>1. /\ topic' \in Seq(Commands) /\ Len(topic') = Len(topic) + 1
        /\ \A i \in 1..Len(topic) : topic'[i] = topic[i]
        /\ topic'[Len(topic) + 1] = c
    BY <1>1, <1>3, AppendProperties
  <2>2. \A i \in 1..Len(topic') : i \in 1..Len(topic) \/ i = Len(topic) + 1
    BY <1>1, <2>1
  <2>3. \A i \in 1..Len(topic) : topic[i].seq = c.seq => topic[i] = c
    <3>1. CASE \A i \in 1..Len(topic) : topic[i].seq < c.seq
      BY <1>1, <3>1, ScalerAssumption
    <3>2. CASE \E i \in 1..Len(topic) : topic[i] = c
      BY <3>2 DEF SeqIsName
    <3>. QED
      BY <1>3, <3>1, <3>2 DEF Publishable
  <2>4. SeqIsName(topic')
    <3>1. SUFFICES ASSUME NEW i \in 1..Len(topic'), NEW j \in 1..Len(topic'),
                          topic'[i].seq = topic'[j].seq
                   PROVE  topic'[i] = topic'[j]
      BY DEF SeqIsName
    <3>2. CASE i \in 1..Len(topic) /\ j \in 1..Len(topic)
      BY <2>1, <3>1, <3>2 DEF SeqIsName
    <3>3. CASE i \in 1..Len(topic) /\ j = Len(topic) + 1
      BY <2>1, <2>3, <3>1, <3>3
    <3>4. CASE i = Len(topic) + 1 /\ j \in 1..Len(topic)
      BY <2>1, <2>3, <3>1, <3>4
    <3>5. CASE i = Len(topic) + 1 /\ j = Len(topic) + 1
      BY <3>5
    <3>. QED
      BY <2>2, <3>2, <3>3, <3>4, <3>5
  <2>5. \A i \in 1..Len(topic) : i \in 1..Len(topic')
    BY <1>1, <2>1
  <2>6. Len(topic) + 1 \in 1..Len(topic') /\ off + 1 \in 0..Len(topic')
    BY <1>1, <1>3, <2>1
  <2>7. Len(topic) <= Len(topic') /\ Len(topic') \in Nat
    BY <1>1, <2>1
  <2>. QED
    BY <1>1, <2>1, <2>4, <2>5, <2>6, <2>7
<1>. QED
  BY <1>2, <1>3 DEF Arriving

\* A command read or published, stored or not, keeps the invariant.
LEMMA CommandInv == Inv /\ (\E c \in Commands : ProcessCommand(c)) => Inv'
<1>. SUFFICES ASSUME Inv, NEW c \in Commands, ProcessCommand(c)
              PROVE  Inv'
  OBVIOUS
<1>. DEFINE taken == c.level = 0 /\ ~Late(c)
            a == [cmd |-> c, passed |-> c.eff <= reached]
<1>1. TypeOK /\ IInv
  BY DEF Inv
<1>2. /\ Arriving(c) /\ off' = off + 1
      /\ scaler' = IF taken THEN [scaler EXCEPT !.pending = @ \cup {c}, !.timers = @ \cup {c.eff}]
                   ELSE scaler
      /\ accepted' = IF taken THEN accepted \cup {a} ELSE accepted
      /\ UNCHANGED <<input, pos, wm, emitted, reached, ckpt, nCkpt, nCrash>>
  BY DEF ProcessCommand
<1>3. /\ input \in Inputs /\ pos \in 0..Len(input)
      /\ scaler \in ScalerType(input) /\ emitted \in Seq(EmittedType)
      /\ accepted \in SUBSET AcceptedType /\ topic \in Seq(Commands) /\ reached \in Nat
      /\ ckpt.accepted \in SUBSET AcceptedType
  BY <1>1 DEF TypeOK
<1>4. /\ Part(input, topic, reached, pos, scaler, emitted, accepted) /\ SeqIsName(topic)
      /\ Part(input, topic, reached, ckpt.pos, ckpt.scaler, ckpt.emitted, ckpt.accepted)
  BY <1>1 DEF IInv
<1>5. /\ topic' \in Seq(Commands) /\ off + 1 \in 0..Len(topic') /\ Len(topic) <= Len(topic')
      /\ Len(topic') \in Nat /\ Len(topic) \in Nat
      /\ \A i \in 1..Len(topic) : \E j \in 1..Len(topic') : topic'[j] = topic[i]
      /\ \E j \in 1..Len(topic') : topic'[j] = c
      /\ SeqIsName(topic')
  BY <1>1, <1>2, <1>4, ArrivingFacts
<1>6. /\ Part(input, topic', reached, pos, scaler, emitted, accepted)
      /\ Part(input, topic', reached, ckpt.pos, ckpt.scaler, ckpt.emitted, ckpt.accepted)
  <2>1. reached <= reached
    BY <1>3
  <2>2. Part(input, topic', reached, pos, scaler, emitted, accepted)
    BY <1>3, <1>4, <1>5, <2>1, PartStays
  <2>3. Part(input, topic', reached, ckpt.pos, ckpt.scaler, ckpt.emitted, ckpt.accepted)
    BY <1>3, <1>4, <1>5, <2>1, PartStays
  <2>. QED
    BY <2>2, <2>3
<1>7. /\ scaler' \in ScalerType(input) /\ accepted' \in SUBSET AcceptedType
      /\ Part(input, topic', reached, pos, scaler', emitted, accepted')
  <2>1. CASE taken
    <3>1. /\ scaler' = [scaler EXCEPT !.pending = @ \cup {c}, !.timers = @ \cup {c.eff}]
          /\ accepted' = accepted \cup {a}
      BY <1>2, <2>1
    <3>2. c.eff \in Nat \ {0} /\ scaler.last \in Nat
      BY <1>3, ScalerAssumption DEF ScalerType
    <3>3. c.eff > scaler.last
      <4>1. ~ (c.eff <= wm) /\ ~ (scaler.last # NoTs /\ scaler.last >= c.eff)
        BY <2>1 DEF Late
      <4>. QED
        BY <3>2, <4>1 DEF NoTs
    <3>4. a \in AcceptedType /\ accepted' \in SUBSET AcceptedType
      <4>1. (c.eff <= reached) \in BOOLEAN
        OBVIOUS
      <4>2. a \in AcceptedType
        BY <4>1 DEF AcceptedType
      <4>. QED
        BY <1>3, <3>1, <4>2
    <3>5. scaler' \in ScalerType(input)
      BY <1>3, <3>1, <3>2 DEF ScalerType
    <3>6. Part(input, topic', reached, pos, scaler', emitted, accepted')
      BY <1>3, <1>5, <1>6, <3>1, <3>3, <3>4, <3>5, StoringKeeps
    <3>. QED
      BY <3>4, <3>5, <3>6
  <2>2. CASE ~taken
    BY <1>2, <1>3, <1>6, <2>2
  <2>. QED
    BY <2>1, <2>2
<1>8. TypeOK'
  <2>1. ckpt' \in [pos : 0..Len(input), off : 0..Len(topic'), scaler : ScalerType(input),
                   emitted : Seq(EmittedType), accepted : SUBSET AcceptedType]
    <3>1. \A n \in 0..Len(topic) : n \in 0..Len(topic')
      BY <1>5
    <3>. QED
      BY <1>1, <1>2, <3>1 DEF TypeOK
  <2>. QED
    BY <1>1, <1>2, <1>5, <1>7, <2>1 DEF TypeOK
<1>9. IInv'
  BY <1>2, <1>5, <1>6, <1>7 DEF IInv
<1>. QED
  BY <1>8, <1>9 DEF Inv

\* A checkpoint keeps the invariant.
LEMMA CheckpointInv == Inv /\ Checkpoint => Inv'
<1>. SUFFICES ASSUME Inv, Checkpoint
              PROVE  Inv'
  OBVIOUS
<1>1. /\ ckpt' = Snapshot /\ nCkpt' = nCkpt + 1
      /\ UNCHANGED <<input, pos, topic, off, wm, scaler, emitted, accepted, reached, nCrash>>
  BY DEF Checkpoint
<1>2. /\ ckpt'.pos = pos /\ ckpt'.off = off /\ ckpt'.scaler = scaler
      /\ ckpt'.emitted = emitted /\ ckpt'.accepted = accepted
  BY <1>1 DEF Snapshot
<1>3. TypeOK'
  BY <1>1 DEF Inv, TypeOK, Snapshot
<1>4. IInv'
  BY <1>1, <1>2 DEF Inv, IInv
<1>. QED
  BY <1>3, <1>4 DEF Inv

\* A restart keeps the invariant: it holds of the checkpoint.
LEMMA CrashInv == Inv /\ CrashAndRestore => Inv'
<1>. SUFFICES ASSUME Inv, CrashAndRestore
              PROVE  Inv'
  OBVIOUS
<1>1. TypeOK'
  BY DEF Inv, TypeOK, CrashAndRestore
<1>2. IInv'
  BY DEF Inv, IInv, CrashAndRestore
<1>. QED
  BY <1>1, <1>2 DEF Inv

\* The scaler's state keeps its types and the invariant in every behaviour.
THEOREM ScalerInvariant == Spec => []Inv
<1>1. Init => Inv
  BY InitInv
<1>2. Inv /\ [Next]_vars => Inv'
  <2>1. CASE ProcessRound
    BY <2>1, RoundInv
  <2>2. CASE \E w \in 1..MaxTime : ProcessWatermark(w)
    BY <2>2, WatermarkInv
  <2>3. CASE \E c \in Commands : ProcessCommand(c)
    BY <2>3, CommandInv
  <2>4. CASE Checkpoint
    BY <2>4, CheckpointInv
  <2>5. CASE CrashAndRestore
    BY <2>5, CrashInv
  <2>6. CASE UNCHANGED vars
    BY <2>6 DEF vars, Inv, TypeOK, IInv
  <2>. QED
    BY <2>1, <2>2, <2>3, <2>4, <2>5, <2>6 DEF Next
<1>. QED
  BY <1>1, <1>2, PTL DEF Spec

--------------------------------------------------------------------------------
(* The properties. *)

\* Types of every variable, through rounds, commands, watermarks and restarts.
THEOREM ScalerTypes == Spec => []TypeOK
<1>1. Inv => TypeOK
  BY DEF Inv
<1>. QED
  BY <1>1, ScalerInvariant, PTL

\* A pending command is ahead of every round processed and its timer is still
\* registered, in the running operator and after every restart.
THEOREM ScalerPendingWillRun == Spec => []PendingWillRun
<1>1. Inv => PendingWillRun
  BY DEF Inv, IInv, Part, Waiting, PendingWillRun
<1>. QED
  BY <1>1, ScalerInvariant, PTL

\* Rounds, watermarks and commands may interleave as they will: as long as no
\* command was stored that event time had passed, every round carries the
\* version that its own timestamp and the commands call for.
THEOREM ScalerExecutionIsDeterministic == Spec => []ExecutionIsDeterministic
<1>1. ASSUME Inv
      PROVE  ExecutionIsDeterministic
  <2>1. SUFFICES ASSUME OnTime(accepted), NEW i \in 1..Len(emitted), Normalized(emitted[i])
                 PROVE  emitted[i].version = InForce(emitted[i].ts)
    BY DEF ExecutionIsDeterministic, VersionsInForce, OnTime
  <2>2. VersionsSent(input, emitted, accepted)
    BY <1>1, <2>1 DEF Inv, IInv, Part
  <2>3. emitted[i].version = VersionAfter(DueAmong(input, CmdsOf(accepted), emitted[i].ts))
    BY <2>1, <2>2 DEF VersionsSent, Normalized
  <2>4. InForce(emitted[i].ts) = VersionAfter(DueAmong(input, CmdsOf(accepted), emitted[i].ts))
    BY DEF InForce, VersionAfter, DueAmong, CmdsOf, Stored, FreezeTs
  <2>. QED
    BY <2>3, <2>4
<1>. QED
  BY <1>1, ScalerInvariant, PTL

\* A version's histograms ride on its first round and a command's backfill on its
\* first round without missing readings, once each and under that round's own
\* parameters, again if no command was stored that event time had passed.
THEOREM ScalerAttachmentsAreSentOnce == Spec => []AttachmentsAreSentOnce
<1>1. ASSUME Inv
      PROVE  AttachmentsAreSentOnce
  <2>1. SUFFICES ASSUME OnTime(accepted), NEW i \in 1..Len(emitted), Normalized(emitted[i])
                 PROVE  /\ emitted[i].hist = (EarlierOfVersion(i) = {})
                        /\ (emitted[i].backfill # None) =
                             (/\ ~emitted[i].missing /\ emitted[i].version # 1
                              /\ \A j \in EarlierOfVersion(i) : emitted[j].missing)
                        /\ \A b \in emitted[i].backfill : \A p \in b :
                             {p.params} = emitted[i].params
    BY DEF AttachmentsAreSentOnce, OnTime
  <2>2. SentOnceAt(emitted, i)
    BY <1>1, <2>1 DEF Inv, IInv, Part, SentOnce
  <2>3. EarlierOfVersion(i) = OfVersion(emitted, emitted[i].version, i - 1)
    BY DEF EarlierOfVersion, OfVersion, Normalized
  <2>. QED
    BY <2>1, <2>2, <2>3 DEF SentOnceAt, Own, Normalized
<1>. QED
  BY <1>1, ScalerInvariant, PTL
================================================================================
