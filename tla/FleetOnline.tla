------------------------------ MODULE FleetOnline ------------------------------
(***************************************************************************)
(* M7DecisionOperator: one keyed operator that accepts the elements of six *)
(* streams as they come and decides at event-time timers, a slide after    *)
(* every hour.  Checkpoints take the operator's state with the positions   *)
(* in the streams; outputs since the last one are put out again after a    *)
(* restart.  Upstream operators repeat the same elements.                  *)
(*                                                                         *)
(* The offline run over the same scenario (decide.py on the tables of      *)
(* prepare_inputs.py) is what the operator has to agree with.              *)
(***************************************************************************)
EXTENDS FleetInputs

CONSTANTS
  Scenarios,
  Ahead,            \* bound: how far past the next timer a stream may run
  CheckpointTicks,  \* bound: before which ticks checkpoints are taken
  MaxRestarts

\* What the upstream operators may put out, and the options of a run: lead time
\* and decision period stay within the shortest day.
ShortestDay == (HoursPerDay - 1) * Hour
IsScenario(sc) ==
  /\ sc.rounds \subseteq [device : Devices, ts : Nat, guard : BOOLEAN, admitted : BOOLEAN,
                          tv : [Active -> Int], refs : BOOLEAN]
  /\ sc.outliers \subseteq [device : Devices, ts : Nat, we : Nat]
  /\ sc.scores \subseteq [device : Devices, ts : Nat, value : Int, above : BOOLEAN]
  /\ sc.perf \subseteq [device : Devices, ts : Nat, level : STRING, value : Int]
  /\ sc.bursts \subseteq [device : Devices, ts : Nat, emitted : Nat]
  /\ \A d \in Devices : DOMAIN sc.verdicts[d] \subseteq 1..LastDay
  /\ sc.timing \in Timings
  /\ sc.timing.delta <= ShortestDay /\ sc.timing.cmd <= ShortestDay

ASSUME ScenariosAssumption == \A sc \in Scenarios : IsScenario(sc)

NoTick == -1
NoCheckpoint == [none |-> TRUE]

VARIABLES
  scenario,
  offline,    \* history: the logs of the offline run
  todo,       \* per stream: elements that have not arrived
  asm, next,  \* the operator's keyed state
  ckpt,
  published,  \* history: all rows put out
  reached,    \* history: the last tick that has fired
  restarts

opVars == <<todo, asm, next>>
vars == <<scenario, offline, todo, asm, next, ckpt, published, reached, restarts>>

Init ==
  /\ scenario \in Scenarios
  /\ offline = Run(Prepare(scenario)).out
  /\ todo = Streams(scenario)
  /\ asm = EmptyAssembler(scenario.timing) /\ next = NoTick
  /\ ckpt = NoCheckpoint /\ published = {} /\ reached = 0 /\ restarts = 0

Timer == next + Slide

\* A stream is in the order of event time; elements of one moment have a fixed
\* order.  What may differ between two runs is how the streams interleave.
First(S) == CHOOSE x \in S : \A y \in S : x.at <= y.at

\* The first element to arrive sets the clock; here it is one of the first hour.
ProcessElement(lane) ==
  /\ todo[lane] # {}
  /\ \E x \in {First(todo[lane])} :
    /\ IF next = NoTick THEN lane = "rounds" /\ x.at < Hour ELSE x.at <= Timer + Ahead
    /\ todo' = [todo EXCEPT ![lane] = @ \ {x}]
    /\ asm' = Accept(asm, lane, x)
    /\ next' = IF next = NoTick THEN WindowOf(x.at) + Hour ELSE next
    /\ UNCHANGED <<scenario, offline, ckpt, published, reached, restarts>>

\* Event time has passed the timer on every stream.
Mature == \A lane \in DOMAIN todo : \A x \in todo[lane] : x.at > Timer

OnTimer ==
  /\ next # NoTick /\ next <= LastTick /\ Mature
  /\ \E step \in {Tick(asm, next)} : asm' = step.asm /\ published' = published \cup step.out
  /\ next' = next + Hour
  /\ reached' = IF next > reached THEN next ELSE reached
  /\ UNCHANGED <<scenario, offline, todo, ckpt, restarts>>

Checkpoint ==
  /\ restarts < MaxRestarts /\ next \in CheckpointTicks
  /\ ckpt' = [todo |-> todo, asm |-> asm, next |-> next]
  /\ ckpt' # ckpt
  /\ UNCHANGED <<scenario, offline, todo, asm, next, published, reached, restarts>>

Restart ==
  /\ restarts < MaxRestarts /\ ckpt # NoCheckpoint
  /\ todo' = ckpt.todo /\ asm' = ckpt.asm /\ next' = ckpt.next
  /\ restarts' = restarts + 1
  /\ ckpt' = IF restarts + 1 < MaxRestarts THEN ckpt ELSE NoCheckpoint
  /\ UNCHANGED <<scenario, offline, published, reached>>

Complete == next > LastTick /\ UNCHANGED vars

Next ==
  \/ \E lane \in DOMAIN todo : ProcessElement(lane)
  \/ OnTimer
  \/ Checkpoint
  \/ Restart
  \/ Complete

Spec == Init /\ [][Next]_vars

--------------------------------------------------------------------------------
Commands == {r \in published : r.type = "command"}

\* Whatever the order in which the streams arrive, and after a restart, the
\* operator puts out exactly the rows of the offline run, tick by tick: the
\* comparison of compare_logs.py with --cut at the last tick.
OnlineIsOffline == published = UpTo(offline, reached + Slide)

\* Its part about the commands.
CommandsAreOffline == Commands = {r \in UpTo(offline, reached + Slide) : r.type = "command"}

\* The commands of a device are numbered in the order of their decisions, and
\* one follows another only when the day after it took effect is over.
CommandsAreApart ==
  \A c, e \in Commands :
    /\ c.device = e.device /\ c.seq = e.seq => c = e
    /\ c.device = e.device /\ c.seq < e.seq => e.at >= Later(c.effective, 1)
    /\ c.seq > 1 => \E b \in Commands : b.device = c.device /\ b.seq = c.seq - 1

\* A class whose episode is open is in the drift book of its device, so an alert
\* is labelled drift as long as a command stands for it.
BooksAgree ==
  \A d \in Devices, k \in Triggers :
    asm.books.episode[d][k] > 0 => k \in asm.books.drift[d].triggers

\* The days on which, by the verdicts, channel ch of d is out of range two days
\* running and the day can be judged.  A day without any round has no record.
DriftDays(d, ch) ==
  LET st == EndState(scenario.verdicts[d], ch, LastDay)
      days == DOMAIN scenario.verdicts[d]
  IN  {day \in days : /\ scenario.verdicts[d][day].evaluable /\ st[day]
                      /\ day - 1 \in days /\ st[day - 1]}

SpellStart(d, ch, day) ==
  LET st == EndState(scenario.verdicts[d], ch, LastDay)
  IN  CHOOSE e \in 1..day : (\A f \in e..day : st[f]) /\ ~st[e - 1]

\* A device that drifts over two days is told so: at the end of such a day there
\* is a command for this spell, or the last command is still cooling down.
DriftIsCommanded ==
  \A d \in Devices, ch \in Active : \A day \in DriftDays(d, ch) :
    DayStart(day + 1) <= reached =>
      \E c \in Commands :
        /\ c.device = d
        /\ \/ ch \in c.triggers /\ c.at > DayStart(SpellStart(d, ch, day)) /\ c.at <= DayStart(day + 1)
           \/ c.at <= DayStart(day + 1) /\ Later(c.effective, 1) > DayStart(day + 1)
================================================================================
