---------------------------- MODULE AdaptiveScaler ----------------------------
(***************************************************************************)
(* The scaler of one device with the command loop on: RobustScalerFunction *)
(* (warm-up, freeze, normalization) inside AdaptiveScalerFunction, which   *)
(* keeps a raw cache, stores adaptation commands until their effective     *)
(* event time and then re-estimates the parameters from the cache (level   *)
(* 0).  Rounds carry the version of the parameters that normalized them,   *)
(* and the first usable round of a new version carries a backfill for the  *)
(* point channel.                                                          *)
(*                                                                         *)
(* Rounds and watermarks come from one stream, commands from another; the  *)
(* operator sees them in any interleaving.  State is keyed, so one device  *)
(* stands for all.  Times are whole seconds: a watermark of wm says that   *)
(* no further round has ts <= wm.                                          *)
(***************************************************************************)
EXTENDS Integers, Sequences, FiniteSets

CONSTANTS
  Inputs,         \* the possible inputs: sequences of rounds [ts, missing, guard]
  Commands,       \* commands the decision layer may publish: [seq, eff, level]
  MaxTime,        \* bound: largest watermark
  Warmup,         \* rounds before the parameters are frozen
  CacheDepth,     \* depth of the raw cache
  Reestimate,     \* re-estimation window D
  Window,         \* backfill window = the point channel's window length
  Absence,        \* a longer gap between two rounds marks a cold start
  MaxPublished,   \* bound: records on the command topic
  MaxCheckpoints, \* bound
  MaxCrashes      \* bound

ASSUME ScalerAssumption ==
  /\ MaxTime \in Nat /\ Warmup \in Nat \ {0} /\ Absence \in Nat
  /\ CacheDepth \in Nat \ {0}
  /\ Reestimate \in 1..CacheDepth /\ Window \in 1..CacheDepth
  /\ MaxPublished \in Nat /\ MaxCheckpoints \in Nat /\ MaxCrashes \in Nat
  /\ \A c \in Commands : c.seq \in Nat \ {0} /\ c.eff \in Nat \ {0} /\ c.level \in Nat

\* The rounds of a device are in event-time order (the assembler closes them
\* by timers that fire in that order).
ASSUME InputsAssumption ==
  \A inp \in Inputs :
    /\ Len(inp) \in Nat
    /\ \A i, j \in 1..Len(inp) :
         /\ inp[i].ts \in Nat \ {0} /\ inp[i].missing \in BOOLEAN /\ inp[i].guard \in BOOLEAN
         /\ i < j => inp[i].ts < inp[j].ts

VARIABLES
  input,      \* the device's rounds
  pos,        \* rounds read so far (source offset)
  topic, off, \* command topic and the consumer's offset
  wm,         \* watermark of the data stream
  scaler,     \* keyed state and event-time timers
  emitted,    \* history: rounds sent downstream
  accepted,   \* history: commands stored, with whether event time had already passed them
  reached,    \* history: highest watermark of any incarnation
  ckpt, nCkpt, nCrash

vars == <<input, pos, topic, off, wm, scaler, emitted, accepted, reached, ckpt, nCkpt, nCrash>>

NoTs == 0
NoVersion == 0
None == {}      \* an optional value is the empty set or a singleton

InitScaler ==
  [count |-> 0, samples |-> {}, frozen |-> FALSE, params |-> None, histSent |-> FALSE,
   cache |-> {}, pending |-> {}, timers |-> {}, version |-> NoVersion, last |-> NoTs,
   backfill |-> None]

--------------------------------------------------------------------------------
(* Level 0: re-estimation from the cache.  The parameters stand for the set *)
(* of rounds they were estimated from.                                      *)

InWindow(cache, eff, length) == {q \in cache : q.ts >= eff - length /\ q.ts < eff}

\* calibrate, shared by the freeze and level 0.
Calibrated(rounds) == {q.ts : q \in rounds}

EstimatedFrom(cache, eff) == Calibrated({p \in InWindow(cache, eff, Reestimate) : ~p.guard})

BackfillOf(cache, eff) ==
  {[ts |-> q.ts, params |-> EstimatedFrom(cache, eff)] :
     q \in {p \in InWindow(cache, eff, Window) : ~p.missing}}

\* install: new parameters, and their histograms to be sent again.
Installed(s, params) == [s EXCEPT !.params = {params}, !.histSent = FALSE]

Level0(s, c) ==
  [Installed(s, EstimatedFrom(s.cache, c.eff)) EXCEPT
     !.version = c.seq + 1, !.backfill = {BackfillOf(s.cache, c.eff)}]

Before(c, d) == c.eff < d.eff \/ (c.eff = d.eff /\ c.seq <= d.seq)

\* Mutant: of several due commands the first in publication order wins.
LatestBySeq(cmds) == CHOOSE c \in cmds : \A d \in cmds : d.seq >= c.seq

Latest(cmds) == CHOOSE c \in cmds : \A d \in cmds : Before(d, c)


\* Mutant: due commands stay pending.
ExecuteDueKeeps(s, t) ==
  LET due == {c \in s.pending : c.eff <= t}
  IN  IF due = {} \/ ~s.frozen THEN s ELSE Level0(s, Latest(due))

\* executeDue: every pending command up to t, in order of effective time and
\* sequence number.  Each one overwrites what the one before it installed, so
\* the last one stands for all; before the freeze they are dropped.
ExecuteDue(s, t) ==
  LET due == {c \in s.pending : c.eff <= t}
      rest == [s EXCEPT !.pending = @ \ due]
  IN  IF due = {} \/ ~s.frozen THEN rest ELSE Level0(rest, Latest(due))

--------------------------------------------------------------------------------
(* The rounds. *)

\* The cache evicts what is older than its depth, seen from the newest round.
Cached(s, r) ==
  [s EXCEPT !.cache = {q \in @ \cup {r} : q.ts > r.ts - CacheDepth}, !.last = r.ts]

Frozen(s) == [s EXCEPT !.frozen = TRUE, !.params = {Calibrated(s.samples)}, !.samples = {}]

\* RobustScalerFunction before the freeze: collect, and freeze when complete.
Warmed(s, r) ==
  LET seen == [s EXCEPT !.count = @ + 1, !.samples = @ \cup {r}]
  IN  IF seen.count = Warmup THEN Frozen(seen) ELSE seen

\* ... and after it, with what tag() does to the version and the backfill.
Attaches(s, r) == s.backfill # None /\ ~r.missing

\* Mutant: the backfill is not cleared once it is attached.
TaggedKeepsBackfill(s, r) ==
  [s EXCEPT !.version = IF @ = NoVersion THEN 1 ELSE @, !.histSent = TRUE]

Tagged(s, r) ==
  [s EXCEPT !.version = IF @ = NoVersion THEN 1 ELSE @, !.histSent = TRUE,
            !.backfill = IF Attaches(s, r) THEN None ELSE @]

\* RawCacheFunction: a gap longer than the absence threshold is a cold start.
Cold(last, r) == last # NoTs /\ r.ts - last > Absence

Output(s, r, cold) ==
  LET v == Tagged(s, r).version
      base == [ts |-> r.ts, missing |-> r.missing, cold |-> cold, warmup |-> ~s.frozen,
               version |-> NoVersion, params |-> None, hist |-> FALSE, backfill |-> None]
  IN  IF ~s.frozen THEN base
      ELSE [base EXCEPT !.version = v, !.params = s.params, !.hist = ~s.histSent,
                        !.backfill = IF Attaches(s, r) THEN s.backfill ELSE None]

\* Mutant: the round is cached before the due commands are executed.
ProcessRoundCachesFirst ==
  LET r == input[pos + 1]
      s == ExecuteDue(Cached(scaler, r), r.ts)
  IN  /\ pos < Len(input)
      /\ pos' = pos + 1
      /\ scaler' = IF s.frozen THEN Tagged(s, r) ELSE Warmed(s, r)
      /\ emitted' = Append(emitted, Output(s, r, Cold(scaler.last, r)))
      /\ UNCHANGED <<input, topic, off, wm, accepted, reached, ckpt, nCkpt, nCrash>>

\* processElement1: due commands first, then the cache, then the scaler.
ProcessRound ==
  LET r == input[pos + 1]
      s == Cached(ExecuteDue(scaler, r.ts), r)
  IN  /\ pos < Len(input)
      /\ pos' = pos + 1
      /\ scaler' = IF s.frozen THEN Tagged(s, r) ELSE Warmed(s, r)
      /\ emitted' = Append(emitted, Output(s, r, Cold(scaler.last, r)))
      /\ UNCHANGED <<input, topic, off, wm, accepted, reached, ckpt, nCkpt, nCrash>>

\* A watermark follows the rounds it covers and fires the timers it passes.
ProcessWatermark(w) ==
  LET fired == {t \in scaler.timers : t <= w}
      last == CHOOSE t \in fired : \A u \in fired : u <= t
      s == IF fired = {} THEN scaler ELSE ExecuteDue(scaler, last)
  IN  /\ w > wm
      /\ pos < Len(input) => w < input[pos + 1].ts
      /\ wm' = w
      /\ reached' = IF w > reached THEN w ELSE reached
      /\ scaler' = [s EXCEPT !.timers = @ \ fired]
      /\ UNCHANGED <<input, pos, topic, off, emitted, accepted, ckpt, nCkpt, nCrash>>

--------------------------------------------------------------------------------
(* The commands. *)

\* Mutant: only the watermark makes a command late.
LateByWatermarkOnly(c) == c.eff <= wm

Late(c) == c.eff <= wm \/ (scaler.last # NoTs /\ scaler.last >= c.eff)

\* What the decision layer may publish next: a command with a higher sequence
\* number, or, its sink being at-least-once, one it has published before.
Publishable(c) == \/ \A i \in 1..Len(topic) : topic[i].seq < c.seq
                  \/ \E i \in 1..Len(topic) : topic[i] = c

\* The topic is read from the checkpointed offset to its end.
Arriving(c) ==
  \/ off < Len(topic) /\ topic[off + 1] = c /\ UNCHANGED topic
  \/ off = Len(topic) /\ Len(topic) < MaxPublished /\ Publishable(c) /\ topic' = Append(topic, c)

\* processElement2.
ProcessCommand(c) ==
  LET taken == c.level = 0 /\ ~Late(c)
  IN  /\ Arriving(c)
      /\ off' = off + 1
      /\ scaler' = IF taken THEN [scaler EXCEPT !.pending = @ \cup {c}, !.timers = @ \cup {c.eff}]
                   ELSE scaler
      /\ accepted' = IF taken THEN accepted \cup {[cmd |-> c, passed |-> c.eff <= reached]}
                     ELSE accepted
      /\ UNCHANGED <<input, pos, wm, emitted, reached, ckpt, nCkpt, nCrash>>

--------------------------------------------------------------------------------
(* Checkpoints and restarts: offsets, keyed state and timers come back, the *)
(* watermark does not.                                                      *)

Snapshot == [pos |-> pos, off |-> off, scaler |-> scaler, emitted |-> emitted,
             accepted |-> accepted]

Checkpoint ==
  /\ nCkpt < MaxCheckpoints
  /\ nCkpt' = nCkpt + 1
  /\ ckpt' = Snapshot
  /\ UNCHANGED <<input, pos, topic, off, wm, scaler, emitted, accepted, reached, nCrash>>

CrashAndRestore ==
  /\ nCrash < MaxCrashes
  /\ nCrash' = nCrash + 1
  /\ pos' = ckpt.pos /\ off' = ckpt.off /\ scaler' = ckpt.scaler
  /\ emitted' = ckpt.emitted /\ accepted' = ckpt.accepted
  /\ wm' = 0
  /\ UNCHANGED <<input, topic, reached, ckpt, nCkpt>>

--------------------------------------------------------------------------------
Init ==
  /\ input \in Inputs
  /\ pos = 0 /\ topic = <<>> /\ off = 0 /\ wm = 0
  /\ scaler = InitScaler
  /\ emitted = <<>> /\ accepted = {} /\ reached = 0
  /\ ckpt = [pos |-> 0, off |-> 0, scaler |-> InitScaler, emitted |-> <<>>, accepted |-> {}]
  /\ nCkpt = 0 /\ nCrash = 0

Next ==
  \/ ProcessRound
  \/ \E w \in 1..MaxTime : ProcessWatermark(w)
  \/ \E c \in Commands : ProcessCommand(c)
  \/ Checkpoint
  \/ CrashAndRestore

Spec == Init /\ [][Next]_vars

\* The operator reads its rounds, the data watermark advances to the end, and
\* published commands are read.
Fairness ==
  /\ WF_vars(ProcessRound)
  /\ WF_vars(\E w \in 1..MaxTime : ProcessWatermark(w))
  /\ WF_vars(off < Len(topic) /\ \E c \in Commands : ProcessCommand(c))

FairSpec == Spec /\ Fairness

--------------------------------------------------------------------------------
(* Properties. *)

Rounds == {input[i] : i \in 1..pos}
Normalized(e) == ~e.warmup
FreezeTs == input[Warmup].ts
Stored == {a.cmd : a \in accepted}

\* The version that should be in force at a round, given the commands that were
\* stored: that of the latest one effective after the freeze and not after the
\* round.
InForce(ts) ==
  LET due == {c \in Stored : c.eff > FreezeTs /\ c.eff <= ts}
  IN  IF due = {} THEN 1 ELSE Latest(due).seq + 1

VersionsInForce ==
  \A i \in 1..Len(emitted) :
    Normalized(emitted[i]) => emitted[i].version = InForce(emitted[i].ts)

\* Every normalized round carries the version its timestamp calls for, whatever
\* the order in which rounds, watermarks and commands arrived and whichever of
\* timer and round executed a command; as long as no command was stored whose
\* effective time the watermark had already passed.
ExecutionIsDeterministic == (\A a \in accepted : ~a.passed) => VersionsInForce

\* The same without the proviso, as the class comment puts it.  A restart takes
\* the watermark back, and a command that was late before is stored after all.
IndependentOfArrival == VersionsInForce

EarlierOfVersion(i) ==
  {j \in 1..(i - 1) : Normalized(emitted[j]) /\ emitted[j].version = emitted[i].version}

\* The histograms ride on the first round of a version, and a command's backfill
\* on its first round without missing readings, once each, with the backfilled
\* values under that round's own parameters.  (Proviso as above: a command stored
\* again after a restart is executed again.)
AttachmentsAreSentOnce ==
  (\A a \in accepted : ~a.passed) =>
    \A i \in 1..Len(emitted) :
      LET e == emitted[i]
      IN  Normalized(e) =>
            /\ e.hist = (EarlierOfVersion(i) = {})
            /\ (e.backfill # None) = (/\ ~e.missing /\ e.version # 1
                                      /\ \A j \in EarlierOfVersion(i) : emitted[j].missing)
            /\ \A b \in e.backfill : \A p \in b : {p.params} = e.params

\* A pending command is ahead of every round processed, and its timer is still
\* registered: no command is stored that nothing would execute.
PendingWillRun ==
  \A c \in scaler.pending : c.eff \in scaler.timers /\ c.eff > scaler.last

\* Every stored command is eventually executed or dropped, though rounds may
\* have ended and restarts may bring it back.
PendingIsResolved == []<>(scaler.pending = {})
================================================================================
