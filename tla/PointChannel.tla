----------------------------- MODULE PointChannel -----------------------------
(***************************************************************************)
(* The point channel behind the scaler: M2Gate, the sliding windows of     *)
(* M2Job and one slide of PmcodFunction with its version switch, composed  *)
(* with AdaptiveScaler.  What MCOD computes from its points is left out;   *)
(* what matters here is which points, under which parameters, it holds     *)
(* when a slide is judged.                                                 *)
(*                                                                         *)
(* The window operator runs behind the scaler in the same pipeline, and    *)
(* what a slide sees depends on event time only, so due slides are fired   *)
(* before the scaler goes on.                                              *)
(***************************************************************************)
EXTENDS AdaptiveScaler

CONSTANT SlideStep

ASSUME SlideAssumption == SlideStep \in Nat \ {0} /\ Window % SlideStep = 0

\* Effective times are multiples of the slide: the command contract
\* (m6/AdaptCommand).  No window before one reaches back into the warm-up, and
\* the absence threshold is no shorter than a window.
TimelyCommands ==
  /\ \A c \in Commands : \E n \in 1..c.eff : c.eff = n * SlideStep
  /\ \A inp \in Inputs, c \in Commands :
       Len(inp) >= Warmup /\ c.eff > inp[Warmup].ts => c.eff - Window > inp[Warmup].ts
  /\ Absence >= Window

VARIABLES
  mcod,       \* keyed state: McodState with its points as [ts, params]
  fired,      \* end of the last window fired
  slide,      \* history: what the last slide judged
  ckptChannel \* the channel's part of the last checkpoint

chanVars == <<mcod, fired, slide, ckptChannel>>

InitMcod == [points |-> {}, version |-> NoVersion, start |-> NoTs]
InitSlide == [end |-> 0, points |-> {}, judged |-> {}]

\* M2Gate: neither warm-up rounds nor rounds with a missing reading.
Admitted == {i \in 1..Len(emitted) : ~emitted[i].warmup /\ ~emitted[i].missing}

\* The windows of SlidingEventTimeWindows that hold an element; a window fires
\* once the watermark has passed its last instant.
Elements(end) == {i \in Admitted : emitted[i].ts >= end - Window /\ emitted[i].ts < end}
SlideEnds == {n * SlideStep : n \in 1..((MaxTime + Window) \div SlideStep)}
DueEnds == {end \in SlideEnds : end > fired /\ end - 1 <= wm /\ Elements(end) # {}}
NextEnd == CHOOSE end \in DueEnds : \A e \in DueEnds : end <= e

--------------------------------------------------------------------------------
(* PmcodFunction.slide. *)

Point(i) == [ts |-> emitted[i].ts, params |-> emitted[i].params]
Earliest(S) == CHOOSE i \in S : \A j \in S : i <= j

Fresh(end) == {i \in Elements(end) : emitted[i].ts >= end - SlideStep}

\* A cold start clears the points first.
Cleared(st, end) ==
  IF \E i \in Fresh(end) : emitted[i].cold THEN [st EXCEPT !.points = {}] ELSE st

\* The first versioned point is adopted without a clear.
Adopted(st, end) ==
  IF st.version = NoVersion /\ Fresh(end) # {}
    THEN [st EXCEPT !.version = emitted[Earliest(Fresh(end))].version] ELSE st

Switches(st, end) == {i \in Fresh(end) : emitted[i].version # st.version}

\* Mutant: the points of the old version stay beside the backfill.
RefillKeepsOld(st, i, end) ==
  LET bf == UNION emitted[i].backfill
  IN  [points |-> st.points \cup
         {[ts |-> p.ts, params |-> {p.params}] :
            p \in {q \in bf : q.ts >= end - Window /\ q.ts < emitted[i].ts}},
       version |-> emitted[i].version, start |-> emitted[i].ts]

\* Mutant: backfilled points from before the window are kept.
RefillWhole(st, i, end) ==
  [points |-> {[ts |-> p.ts, params |-> {p.params}] :
                 p \in {q \in UNION emitted[i].backfill : q.ts < emitted[i].ts}},
   version |-> emitted[i].version, start |-> emitted[i].ts]

\* Version switch at point i: the state is cleared and rebuilt from the
\* backfill, as far as it lies in the window and before the point.
Refill(st, i, end) ==
  LET bf == UNION emitted[i].backfill
  IN  [points |-> {[ts |-> p.ts, params |-> {p.params}] :
                     p \in {q \in bf : q.ts >= end - Window /\ q.ts < emitted[i].ts}},
       version |-> emitted[i].version, start |-> emitted[i].ts]

Switched(st, end) ==
  LET sw == Switches(st, end)
  IN  IF sw = {} THEN st ELSE Refill(st, Earliest(sw), end)

\* New points that precede the switch are in the backfill already.
Inserted(st, end) ==
  LET sw == Switches(st, end)
      new == {i \in Fresh(end) : sw = {} \/ i >= Earliest(sw)}
  IN  {Point(i) : i \in new}

\* Mutant: the switching point counts as backfilled.
JudgedAfterStart(st) == {p.ts : p \in {q \in st.points : q.ts > st.start}}

\* Backfilled points emit no judgement.
Judged(st) == {p.ts : p \in {q \in st.points : q.ts >= st.start}}

\* deletePoint works by identity, over the window's elements.
Expired(end) == {emitted[i].ts : i \in {j \in Elements(end) : emitted[j].ts < end - Window + SlideStep}}

FireSlide ==
  LET end == NextEnd
      adopted == Adopted(Cleared(mcod, end), end)
      refilled == Switched(adopted, end)
      full == [refilled EXCEPT !.points = @ \cup Inserted(adopted, end)]
  IN  /\ DueEnds # {}
      /\ fired' = end
      /\ slide' = [end |-> end, points |-> full.points, judged |-> Judged(full)]
      /\ mcod' = [full EXCEPT !.points = {p \in @ : p.ts \notin Expired(end)}]
      /\ UNCHANGED <<vars, ckptChannel>>

--------------------------------------------------------------------------------
(* The composition: slides that are due go first, and both parts share      *)
(* checkpoints and restarts.                                                *)

ScalerStep ==
  /\ DueEnds = {}
  /\ \/ ProcessRound
     \/ \E w \in 1..MaxTime : ProcessWatermark(w)
     \/ \E c \in Commands : ProcessCommand(c)
  /\ UNCHANGED chanVars

CheckpointBoth ==
  /\ DueEnds = {}
  /\ Checkpoint
  /\ ckptChannel' = [mcod |-> mcod, fired |-> fired, slide |-> slide]
  /\ UNCHANGED <<mcod, fired, slide>>

RestoreBoth ==
  /\ CrashAndRestore
  /\ mcod' = ckptChannel.mcod /\ fired' = ckptChannel.fired /\ slide' = ckptChannel.slide
  /\ UNCHANGED ckptChannel

InitBoth ==
  /\ Init
  /\ mcod = InitMcod /\ fired = 0 /\ slide = InitSlide
  /\ ckptChannel = [mcod |-> InitMcod, fired |-> 0, slide |-> InitSlide]

NextBoth == FireSlide \/ ScalerStep \/ CheckpointBoth \/ RestoreBoth

SpecBoth == InitBoth /\ [][NextBoth]_<<vars, chanVars>>

--------------------------------------------------------------------------------
(* Properties. *)

OnTimeOnly == \A a \in accepted : ~a.passed
Inside(end) == {emitted[i].ts : i \in Elements(end)}

\* Whatever versions, cold starts and backfills have passed through it, the
\* state judged in a slide holds exactly the window's admitted rounds: none is
\* lost in a switch, none is left over, also when the cold start that should
\* have cleared it was lost with an incomplete round.
WindowIsExact == OnTimeOnly => {p.ts : p \in slide.points} = Inside(slide.end)

\* All points judged in a slide are normalized with the same parameters: those
\* of the version in force at the window's newest round.
OneNormalization ==
  OnTimeOnly => \A p, q \in slide.points : p.params = q.params

\* Every admitted round is judged in the slide it arrives in, the one that
\* switches the version included.
FreshRoundsAreJudged ==
  OnTimeOnly => {emitted[i].ts : i \in Fresh(slide.end)} \subseteq slide.judged

\* McodResult counts "the points in the window": the state holds no point from
\* before it.  Backfilled warm-up rounds, which the gate never admitted, are not
\* among the window's elements and so are never deleted.
PointsAreInWindow == \A p \in slide.points : p.ts >= slide.end - Window
================================================================================
