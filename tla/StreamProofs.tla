---------------------------- MODULE StreamProofs -----------------------------
(***************************************************************************)
(* Theorems about Stream, for every set of collectors and every number of  *)
(* checks, whenever the context ends and however the goroutines interleave.*)
(***************************************************************************)
EXTENDS Stream, SequenceTheorems, TLAPS

------------------------------------------------------------------------------
(* The inductive invariant.                                                *)

(* An event has left the queue and is not yet on the screen; it is on the  *)
(* screen and not yet counted.                                             *)
InHand  == drain \in {"erase", "left", "nap", "right"}
Held    == IF InHand THEN 1 ELSE 0
Uncounted == IF drain = "count" THEN 1 ELSE 0

(* The screen is the beginning of what was queued, the event in hand comes *)
(* next, and what is pending, unless a stop dropped it, after that.        *)
Flow ==
  /\ Len(screen) + Held + Len(pending) <= Len(log)
  /\ \A k \in 1..Len(screen) : screen[k] = log[k]
  /\ InHand => hand = log[Len(screen) + 1]
  /\ stopped => pending = << >>
  /\ ~stopped => Len(log) = Len(screen) + Held + Len(pending)
  /\ ~stopped => \A k \in 1..Len(pending) : pending[k] = log[Len(screen) + Held + k]

Counters == queued = Len(log) /\ drawn + Uncounted = Len(screen)

(* What the last line holds, from where the drawing goroutine is.          *)
LastLine ==
  /\ line = "half" <=> drain \in {"nap", "right"}
  /\ drain \in {"none", "left", "count", "exited"} => line # "beat"
  /\ quiet => drain = "none"

(* A heartbeat is drawn while a collector works, and every collector ends  *)
(* with a row, whose drawing begins by erasing it.                         *)
Beats ==
  /\ \A c \in inflight : coll[c] = "working"
  /\ ~stopped /\ (line = "beat" \/ drain = "beating") =>
       \/ \E c \in Collector : coll[c] \in {"working", "leaving"}
       \/ pending # << >>
       \/ drain = "erase"

Evaluated == {"settle", "settling", "notes", "close", "closing", "stop", "join", "closed"}

(* Where the command is tells what has happened.                           *)
Progress ==
  /\ main \notin {"collecting", "collect"} => \A c \in Collector : coll[c] = "done"
  /\ main \in Evaluated => checked = Checks
  /\ main \in {"saved", "notes", "stop"} /\ ~stopped => drawn = queued
  /\ main \in {"join", "closed", "leaving", "returned"} => stopped
  /\ watch \in {"joining", "done"} => stopped
  /\ main \in {"closed", "returned"} \/ watch = "done" => Gone

StrInv == StrTypeOK /\ Flow /\ Counters /\ LastLine /\ Beats /\ Progress

------------------------------------------------------------------------------
(* Queueing an event.                                                      *)

(* emit adds the event at the end of the queue, or does nothing.           *)
LEMMA EmitEffect ==
  ASSUME NEW ev, Emit(ev)
  PROVE  \/ (quiet \/ stopped) /\ UNCHANGED <<pending, queued, drawn, log, drain>>
         \/ /\ ~quiet /\ ~stopped /\ pending' = Append(pending, ev) /\ queued' = queued + 1
            /\ log' = Append(log, ev) /\ UNCHANGED drawn
            /\ drain' = drain \/ (drain \in {"none", "asleep"} /\ drain' = "ready")
  BY DEF Emit, queue, Wake

(* A stop empties the queue; it wakes the drawing goroutine, no more.      *)
LEMMA HaltEffect ==
  ASSUME Halt, stopped => pending = << >>
  PROVE  /\ stopped' = TRUE /\ pending' = << >>
         /\ UNCHANGED <<queued, drawn, log, ticked, inflight>>
         /\ drain' = drain \/ (drain = "asleep" /\ drain' = "ready")
  BY DEF Halt, Wake

(* The step of every goroutine, grouped by what it does to the queue.      *)
Queues ==
  \/ \E c \in Collector : CollectorDone(c)
  \/ StartCollecting \/ StartEvaluating \/ CheckDone

Halts == WatcherStops \/ CommandStops

Draws == DrawPhase \/ DrawRight

Moves ==
  \/ NextHalted \/ NextBeat \/ NextWait \/ NothingOutstanding \/ Outstanding \/ Heartbeat
  \/ Erase \/ DrawLeft \/ Nap \/ DrainExit \/ Tick

Idles ==
  \/ \E c \in Collector : CollectorStarted(c) \/ CollectorLeaves(c)
  \/ ContextEnds \/ WatcherDone \/ Collected \/ AfterCollection \/ SaveFails \/ Awaits
  \/ WriteNote \/ CheckTimeout \/ CommandJoins \/ WriteClosing \/ UNCHANGED strvars

(* These are all the steps there are.                                      *)
LEMMA StepKinds ==
  [StrNext]_strvars => NextEvent \/ Count \/ Queues \/ Halts \/ Draws \/ Moves \/ Idles
  BY DEF StrNext, Drain, Main, Collect, Returned, Queues, Halts, Draws, Moves, Idles

(* What each kind of step leaves alone.                                    *)
LEMMA MovesKeep ==
  Moves => /\ UNCHANGED <<main, coll, watch, ctx, flags, queue, stopped, inflight, hand, screen,
                          notes, checked>>
           /\ InHand' <=> InHand
           /\ drain' = "count" <=> drain = "count"
  BY DEF Moves, DrainUnchanged, flags, queue, state, display, InHand, NextHalted, NextBeat,
         NextWait, NothingOutstanding, Outstanding, Heartbeat, Erase, DrawLeft, Nap, DrainExit,
         Tick, Wake

LEMMA IdlesKeep ==
  Idles => UNCHANGED <<drain, flags, queue, stopped, ticked, hand, line, screen, checked>>
  BY DEF Idles, MainUnchanged, flags, queue, state, display, strvars, CollectorStarted,
         CollectorLeaves, ContextEnds, WatcherDone, Collected, AfterCollection, SaveFails,
         Awaits, Await, WriteNote, CheckTimeout, CommandJoins, WriteClosing

LEMMA QueuesKeep ==
  ASSUME StrTypeOK, Queues
  PROVE  /\ \E ev \in Event : Emit(ev)
         /\ UNCHANGED <<watch, ctx, flags, state, display>>
  <1>1. ASSUME NEW c \in Collector, CollectorDone(c)
        PROVE  Emit(Row(c)) /\ Row(c) \in Event /\ UNCHANGED <<watch, ctx, flags, state, display>>
    BY <1>1 DEF CollectorDone, Event
  <1>2. CASE StartCollecting
    BY <1>2 DEF StartCollecting, Event, MainUnchanged
  <1>3. CASE StartEvaluating
    BY <1>3 DEF StartEvaluating, Event, MainUnchanged
  <1>4. CASE CheckDone
    <2>1. checked + 1 \in 1..Checks
      BY <1>4, StreamAssumption DEF CheckDone, StrTypeOK
    <2>2. Verdict(checked + 1) \in Event
      BY <2>1 DEF Event
    <2>3. QED BY <1>4, <2>2 DEF CheckDone, MainUnchanged
  <1>5. QED BY <1>1, <1>2, <1>3, <1>4 DEF Queues

LEMMA HaltsKeep ==
  Halts => Halt /\ UNCHANGED <<coll, ctx, flags, display, checked>>
  BY DEF Halts, WatcherStops, CommandStops, MainUnchanged

------------------------------------------------------------------------------
(* The queue and the screen.                                               *)

(* A step of the queue: what was pending or in hand moves on, in order.    *)
LEMMA FlowStep ==
  ASSUME StrTypeOK, Flow, Counters, [StrNext]_strvars
  PROVE  Flow' /\ Counters'
  <1>0. /\ pending \in Seq(Event) /\ screen \in Seq(Event) /\ log \in Seq(Event)
        /\ queued \in Nat /\ drawn \in Nat
        /\ Len(pending) \in Nat /\ Len(screen) \in Nat /\ Len(log) \in Nat
    BY DEF StrTypeOK
  <1> USE DEF Flow, Counters, InHand, Held, Uncounted
  <1>a. ASSUME UNCHANGED <<queue, stopped, hand, screen>>, InHand' <=> InHand,
               drain' = "count" <=> drain = "count"
        PROVE  Flow' /\ Counters'
    BY <1>a DEF queue
  <1>1. CASE NextEvent
    <2>1. /\ ~stopped /\ pending # << >> /\ hand' = Head(pending) /\ pending' = Tail(pending)
          /\ UNCHANGED <<queued, drawn, log, stopped, screen>>
          /\ drain = "ready" /\ drain' = "erase"
      BY <1>1 DEF NextEvent, DrainUnchanged
    <2>2. /\ Len(pending) > 0 /\ Head(pending) = pending[1] /\ Len(pending') = Len(pending) - 1
          /\ \A k \in 1..Len(pending') : pending'[k] = pending[k + 1]
      BY <1>0, <2>1, HeadTailProperties
    <2>3. Held = 0 /\ Held' = 1 /\ InHand' /\ Len(log) = Len(screen) + Len(pending)
      BY <1>0, <2>1
    <2>5. hand' = log[Len(screen) + 1]
      BY <1>0, <2>1, <2>2, <2>3
    <2>6. ASSUME NEW k \in 1..Len(pending')
          PROVE  pending'[k] = log[Len(screen) + 1 + k]
      <3>1. k + 1 \in 1..Len(pending) /\ Len(screen) + 0 + (k + 1) = Len(screen) + 1 + k
        BY <1>0, <2>2
      <3>2. pending[k + 1] = log[Len(screen) + Held + (k + 1)]
        BY <2>1, <3>1
      <3>3. QED BY <2>2, <2>3, <3>1, <3>2
    <2>7. Counters'
      BY <1>0, <2>1
    <2> HIDE DEF Held, InHand
    <2>8. Flow'
      BY <1>0, <2>1, <2>2, <2>3, <2>5, <2>6
    <2>9. QED BY <2>7, <2>8
  <1>2. CASE Count
    BY <1>0, <1>2 DEF Count, DrainUnchanged, state
  <1>3. CASE Queues
    <2>1. PICK ev \in Event : Emit(ev)
      BY <1>3, QueuesKeep
    <2>2. UNCHANGED <<stopped, hand, screen>>
      BY <1>3, QueuesKeep DEF state, display
    <2>3. CASE UNCHANGED <<pending, queued, drawn, log, drain>>
      BY <1>a, <2>2, <2>3 DEF queue
    <2>4. CASE /\ ~stopped /\ pending' = Append(pending, ev) /\ queued' = queued + 1
               /\ log' = Append(log, ev) /\ UNCHANGED drawn
               /\ drain' = drain \/ (drain \in {"none", "asleep"} /\ drain' = "ready")
      <3>1. /\ Len(pending') = Len(pending) + 1 /\ pending'[Len(pending) + 1] = ev
            /\ \A k \in 1..Len(pending) : pending'[k] = pending[k]
            /\ Len(log') = Len(log) + 1 /\ log'[Len(log) + 1] = ev
            /\ \A k \in 1..Len(log) : log'[k] = log[k]
        BY <1>0, <2>4, AppendProperties
      <3>2. /\ Held' = Held /\ (InHand' <=> InHand) /\ Held \in Nat
            /\ Len(log) = Len(screen) + Held + Len(pending)
            /\ InHand => Held = 1
        BY <1>0, <2>4
      <3>3. Counters'
        BY <1>0, <2>2, <2>4, <3>1
      <3> HIDE DEF Held, InHand
      <3>4. \A k \in 1..Len(screen) : screen'[k] = log'[k]
        BY <1>0, <2>2, <3>1, <3>2
      <3>5. InHand' => hand' = log'[Len(screen) + 1]
        BY <1>0, <2>2, <3>1, <3>2
      <3>6. ASSUME NEW k \in 1..Len(pending')
            PROVE  pending'[k] = log'[Len(screen) + Held + k]
        <4>1. CASE k \in 1..Len(pending)
          <5>1. Len(screen) + Held + k \in 1..Len(log) /\ pending[k] = log[Len(screen) + Held + k]
            BY <1>0, <2>4, <3>2, <4>1
          <5>2. QED BY <3>1, <4>1, <5>1
        <4>2. CASE k = Len(pending) + 1
          <5>1. Len(screen) + Held + k = Len(log) + 1
            BY <1>0, <3>2, <4>2
          <5>2. QED BY <3>1, <4>2, <5>1
        <4>3. QED BY <1>0, <3>1, <4>1, <4>2
      <3>7. /\ ~stopped' /\ screen' = screen
            /\ Len(log') = Len(screen) + Held + Len(pending')
            /\ Len(screen) + Held + Len(pending') <= Len(log')
        BY <1>0, <2>2, <2>4, <3>1, <3>2
      <3>8. Flow'
        BY <3>2, <3>4, <3>5, <3>6, <3>7
      <3>9. QED BY <3>3, <3>8
    <2>5. QED BY <2>1, <2>3, <2>4, EmitEffect
  <1>4. CASE Halts
    <2>1. /\ stopped' = TRUE /\ pending' = << >> /\ UNCHANGED <<queued, drawn, log>>
          /\ drain' = drain \/ (drain = "asleep" /\ drain' = "ready")
          /\ UNCHANGED <<hand, screen>>
      BY <1>4, HaltsKeep, HaltEffect DEF display
    <2>2. QED BY <1>0, <2>1
  <1>5. CASE Draws
    <2>1. /\ InHand /\ drain' = "count" /\ drain # "count" /\ screen' = Append(screen, hand)
          /\ UNCHANGED <<queue, stopped, hand>>
      BY <1>5 DEF Draws, DrawPhase, DrawRight, DrainUnchanged, queue, state
    <2>2. /\ Len(screen') = Len(screen) + 1 /\ screen'[Len(screen) + 1] = hand
          /\ \A k \in 1..Len(screen) : screen'[k] = screen[k]
      <3>1. hand \in Event
        BY <1>0, <2>1
      <3>2. QED BY <1>0, <2>1, <3>1, AppendProperties
    <2>3. QED BY <1>0, <2>1, <2>2 DEF queue
  <1>6. CASE Moves
    BY <1>6, <1>a, MovesKeep
  <1>7. CASE Idles
    BY <1>7, <1>a, IdlesKeep
  <1>8. QED BY <1>1, <1>2, <1>3, <1>4, <1>5, <1>6, <1>7, StepKinds

(* The last line follows the drawing goroutine, which alone writes it.     *)
LEMMA LineStep ==
  ASSUME StrTypeOK, LastLine, stopped => pending = << >>, [StrNext]_strvars
  PROVE  LastLine'
  <1> USE DEF LastLine
  <1>1. CASE NextEvent \/ Count \/ Draws
    BY <1>1 DEF NextEvent, Count, Draws, DrawPhase, DrawRight, DrainUnchanged, flags
  <1>2. CASE Queues
    <2>1. PICK ev \in Event : Emit(ev)
      BY <1>2, QueuesKeep
    <2>2. UNCHANGED <<line, quiet>>
      BY <1>2, QueuesKeep DEF flags, display
    <2>3. \/ UNCHANGED drain
          \/ ~quiet /\ (drain' = drain \/ (drain \in {"none", "asleep"} /\ drain' = "ready"))
      BY <2>1, EmitEffect
    <2>4. QED BY <2>2, <2>3
  <1>3. CASE Halts
    <2>1. UNCHANGED <<line, quiet>> /\ (drain' = drain \/ (drain = "asleep" /\ drain' = "ready"))
      BY <1>3, HaltsKeep, HaltEffect DEF flags, display
    <2>2. QED BY <2>1
  <1>4. CASE Moves
    BY <1>4 DEF Moves, DrainUnchanged, flags, display, NextHalted, NextBeat, NextWait,
         NothingOutstanding, Outstanding, Heartbeat, Erase, DrawLeft, Nap, DrainExit, Tick,
         Wake, Cleared, StrTypeOK
  <1>5. CASE Idles
    BY <1>5, IdlesKeep DEF flags
  <1>6. QED BY <1>1, <1>2, <1>3, <1>4, <1>5, StepKinds

------------------------------------------------------------------------------
(* The heartbeat.                                                          *)

(* While a heartbeat is up a row is still to come.                         *)
LEMMA BeatsStep ==
  ASSUME StrTypeOK, Flow, LastLine, Beats, Progress, [StrNext]_strvars
  PROVE  Beats'
  <1>0. pending \in Seq(Event) /\ coll \in [Collector -> {"idle", "working", "leaving", "done"}]
        /\ (stopped => pending = << >>) /\ inflight \subseteq Collector
    BY DEF StrTypeOK, Flow
  <1>1. CASE NextEvent \/ Count \/ Draws
    BY <1>1 DEF NextEvent, Count, Draws, DrawPhase, DrawRight, DrainUnchanged, state, Beats,
                LastLine
  <1>2. CASE Queues
    <2>1. PICK ev \in Event : Emit(ev)
      BY <1>2, QueuesKeep
    <2>2. UNCHANGED <<line, inflight, stopped>>
      BY <1>2, QueuesKeep DEF state, display
    <2>3. \A c \in Collector : coll[c] = "working" => coll'[c] = "working"
      BY <1>0, <1>2 DEF Queues, CollectorDone, StartCollecting, StartEvaluating, CheckDone,
                        MainUnchanged
    <2>4. CASE quiet /\ UNCHANGED <<pending, drain>>
      <3>1. line # "beat" /\ drain' # "beating" /\ line' # "beat"
        BY <2>2, <2>4 DEF LastLine
      <3>2. QED BY <1>0, <2>2, <2>3, <3>1 DEF Beats
    <2>5. CASE stopped
      BY <1>0, <2>2, <2>3, <2>5 DEF Beats
    <2>6. CASE pending' = Append(pending, ev)
      <3>1. pending' # << >>
        BY <1>0, <2>6
      <3>2. QED BY <1>0, <2>2, <2>3, <3>1 DEF Beats
    <2>7. QED BY <2>1, <2>4, <2>5, <2>6, EmitEffect
  <1>3. CASE Halts
    <2>1. stopped' = TRUE /\ UNCHANGED <<coll, inflight>>
      BY <1>0, <1>3, HaltsKeep, HaltEffect
    <2>2. QED BY <2>1 DEF Beats
  <1>4. CASE Moves
    <2>1. UNCHANGED <<coll, inflight, pending, stopped>>
      BY <1>4, MovesKeep DEF queue
    <2>2. CASE Outstanding
      <3>1. PICK c \in inflight : TRUE
        BY <2>2 DEF Outstanding
      <3>2. coll[c] = "working" /\ c \in Collector
        BY <1>0, <3>1 DEF Beats
      <3>3. QED BY <2>1, <3>2 DEF Beats
    <2>3. CASE ~Outstanding
      <3>1. (line' = "beat" \/ drain' = "beating") => (line = "beat" \/ drain = "beating")
        BY <1>4, <2>3 DEF Moves, display, NextHalted, NextBeat, NextWait, NothingOutstanding,
             Heartbeat, Erase, DrawLeft, Nap, DrainExit, Tick, Wake, Cleared
      <3>2. line' = "beat" /\ drain = "erase" => drain' = "erase"
        BY <1>4, <2>3 DEF Moves, display, NextHalted, NextBeat, NextWait, NothingOutstanding,
             Heartbeat, Erase, DrawLeft, Nap, DrainExit, Tick, Wake, Cleared
      <3>3. drain' = "beating" => drain # "erase"
        BY <1>4, <2>3 DEF Moves, NextHalted, NextBeat, NextWait, NothingOutstanding,
             Heartbeat, Erase, DrawLeft, Nap, DrainExit, Tick, Wake
      <3>4. QED BY <2>1, <3>1, <3>2, <3>3 DEF Beats
    <2>4. QED BY <2>2, <2>3
  <1>5. CASE Idles
    <2>1. UNCHANGED <<line, drain, pending, stopped>>
      BY <1>5, IdlesKeep DEF queue
    <2>2. ASSUME NEW c \in Collector, CollectorStarted(c) PROVE Beats'
      <3>1. /\ coll' = [coll EXCEPT ![c] = "working"] /\ inflight' \subseteq inflight \cup {c}
        BY <2>2 DEF CollectorStarted
      <3>2. QED BY <1>0, <2>1, <3>1 DEF Beats
    <2>3. ASSUME NEW c \in Collector, CollectorLeaves(c) PROVE Beats'
      <3>1. /\ coll' = [coll EXCEPT ![c] = "leaving"] /\ inflight' = inflight \ {c}
            /\ coll[c] = "working"
        BY <2>3 DEF CollectorLeaves
      <3>2. QED BY <1>0, <2>1, <3>1 DEF Beats
    <2>4. CASE UNCHANGED <<coll, inflight>>
      BY <2>1, <2>4 DEF Beats
    <2>5. QED
      BY <1>5, <2>2, <2>3, <2>4
      DEF Idles, MainUnchanged, state, strvars, ContextEnds, WatcherDone, Collected,
          AfterCollection, SaveFails, Awaits, Await, WriteNote, CheckTimeout, CommandJoins,
          WriteClosing
  <1>6. QED BY <1>1, <1>2, <1>3, <1>4, <1>5, StepKinds

------------------------------------------------------------------------------
(* The command.                                                            *)

(* The goroutine is not started again after a stop.                        *)
LEMMA GoneForGood ==
  ASSUME StrTypeOK, Flow, stopped, Gone, [StrNext]_strvars
  PROVE  stopped' /\ Gone'
  <1>1. CASE NextEvent \/ Count \/ Draws
    BY <1>1 DEF Gone, NextEvent, Count, Draws, DrawPhase, DrawRight
  <1>2. CASE Queues
    BY <1>2, QueuesKeep, EmitEffect DEF Gone, state
  <1>3. CASE Halts
    BY <1>3, HaltsKeep, HaltEffect DEF Gone, Flow
  <1>4. CASE Moves
    BY <1>4 DEF Moves, Gone, NextHalted, NextBeat, NextWait, NothingOutstanding, Outstanding,
         Heartbeat, Erase, DrawLeft, Nap, DrainExit, Tick, state
  <1>5. CASE Idles
    BY <1>5, IdlesKeep DEF Gone
  <1>6. QED BY <1>1, <1>2, <1>3, <1>4, <1>5, StepKinds

(* Where the command is, after a step.                                     *)
LEMMA ProgressStep ==
  ASSUME StrTypeOK, Flow, Counters, Progress, [StrNext]_strvars
  PROVE  Progress'
  <1>0. /\ coll \in [Collector -> {"idle", "working", "leaving", "done"}]
        /\ checked \in Nat /\ Checks \in Nat /\ stopped \in BOOLEAN
        /\ drawn \in Nat /\ queued \in Nat
        /\ Len(screen) \in Nat /\ Len(log) \in Nat /\ Len(pending) \in Nat
    BY StreamAssumption DEF StrTypeOK
  <1>a. drawn <= queued
    BY DEF StrTypeOK
  <1>1. CASE NextEvent \/ Draws \/ Moves
    <2>1. /\ UNCHANGED <<main, coll, watch, checked, stopped, drawn, queued>>
      BY <1>1, MovesKeep DEF NextEvent, Draws, DrawPhase, DrawRight, DrainUnchanged, state, queue
    <2>2. QED BY <2>1, GoneForGood DEF Progress
  <1>2. CASE Count
    <2>1. drawn < queued
      BY <1>0, <1>2 DEF Count, Flow, Counters, Uncounted, Held
    <2>2. /\ UNCHANGED <<coll, watch, checked, stopped, queued>>
          /\ main' = Awake(main) /\ drain = "count"
      BY <1>2 DEF Count, DrainUnchanged, state
    <2>3. main \in {"saved", "notes", "stop"} => stopped
      BY <1>0, <2>1 DEF Progress
    <2>4. QED BY <2>2, <2>3 DEF Progress, Awake, Evaluated, Gone
  <1>3. CASE Halts
    <2>1. stopped' = TRUE /\ UNCHANGED <<coll, checked>>
      BY <1>3, HaltsKeep, HaltEffect DEF Flow
    <2>2. /\ main' \in {"closed", "returned"} => main \in {"closed", "returned"}
          /\ watch' = "done" => watch = "done"
          /\ main' \notin {"collecting", "collect"} => main \notin {"collecting", "collect"}
          /\ main' \in Evaluated => main \in Evaluated
      BY <1>3 DEF Halts, WatcherStops, CommandStops, MainUnchanged, Awake, Evaluated
    <2>3. QED BY <2>1, <2>2, GoneForGood DEF Progress
  <1>4. CASE Queues
    <2>1. UNCHANGED <<watch, stopped>>
      BY <1>4, QueuesKeep DEF state
    <2>2. CASE \E c \in Collector : CollectorDone(c)
      <3>1. PICK c \in Collector : CollectorDone(c)
        BY <2>2
      <3>2. /\ coll[c] = "leaving" /\ coll' = [coll EXCEPT ![c] = "done"]
            /\ UNCHANGED <<main, checked>>
        BY <3>1 DEF CollectorDone
      <3>3. main \in {"collecting", "collect"}
        BY <3>2 DEF Progress
      <3>4. QED BY <2>1, <3>2, <3>3, GoneForGood DEF Progress, Evaluated
    <2>3. CASE StartCollecting \/ StartEvaluating
      BY <2>1, <2>3, GoneForGood
      DEF StartCollecting, StartEvaluating, MainUnchanged, Progress, Evaluated
    <2>4. CASE CheckDone
      BY <1>0, <2>1, <2>4, GoneForGood DEF CheckDone, MainUnchanged, Progress, Evaluated
    <2>5. QED BY <1>4, <2>2, <2>3, <2>4 DEF Queues
  <1>5. CASE Idles
    <2>1. UNCHANGED <<drain, stopped, checked, drawn, queued>>
      BY <1>5, IdlesKeep DEF queue
    <2>2. CASE \E c \in Collector : CollectorStarted(c) \/ CollectorLeaves(c)
      <3>1. PICK c \in Collector : CollectorStarted(c) \/ CollectorLeaves(c)
        BY <2>2
      <3>2. coll[c] # "done" /\ UNCHANGED <<main, watch>>
        BY <3>1 DEF CollectorStarted, CollectorLeaves
      <3>3. main \in {"collecting", "collect"}
        BY <3>2 DEF Progress
      <3>4. QED BY <2>1, <3>2, <3>3 DEF Progress, Evaluated, Gone
    <2>3. CASE ContextEnds \/ UNCHANGED strvars
      BY <2>1, <2>3 DEF ContextEnds, strvars, Progress, Gone
    <2>4. CASE WatcherDone
      BY <2>1, <2>4 DEF WatcherDone, Progress, Gone
    <2>5. CASE Collected \/ AfterCollection \/ SaveFails \/ CheckTimeout
      BY <2>1, <2>5 DEF Collected, AfterCollection, SaveFails, CheckTimeout, MainUnchanged,
                        Progress, Evaluated, Gone
    <2>6. CASE Awaits
      BY <1>0, <1>a, <2>1, <2>6 DEF Awaits, Await, MainUnchanged, Progress, Evaluated, Gone
    <2>7. CASE WriteNote \/ CommandJoins \/ WriteClosing
      BY <2>1, <2>7 DEF WriteNote, CommandJoins, WriteClosing, MainUnchanged, Progress,
                        Evaluated, Gone
    <2>8. QED BY <1>5, <2>2, <2>3, <2>4, <2>5, <2>6, <2>7 DEF Idles
  <1>6. QED BY <1>1, <1>2, <1>3, <1>4, <1>5, StepKinds

------------------------------------------------------------------------------
(* The theorems.                                                           *)

(* A step keeps the types; the queue's counters are bounded by its length. *)
LEMMA StrTypeStep ==
  ASSUME StrInv, [StrNext]_strvars, Flow', Counters'
  PROVE  StrTypeOK'
  <1> USE DEF StrTypeOK
  <1>0. StrTypeOK /\ Flow
    BY DEF StrInv
  <1>1. /\ main' \in {"collecting", "collect", "collected", "await", "awaiting", "saved",
                      "timeout", "evaluating", "evaluate", "settle", "settling", "notes",
                      "close", "closing", "stop", "join", "closed", "leave", "leaving",
                      "returned"}
        /\ watch' \in {"waiting", "joining", "done"}
        /\ ctx' \in {"live", "deadline", "signal"}
    BY <1>0 DEF StrNext, Drain, Main, Collect, Returned, strvars, NextHalted, NextEvent,
         NextBeat, NextWait, NothingOutstanding, Outstanding, Heartbeat, Erase, DrawPhase,
         DrawLeft, Nap, DrawRight, Count, DrainExit, DrainUnchanged, Tick, CollectorStarted,
         CollectorLeaves, CollectorDone, ContextEnds, WatcherStops, WatcherDone,
         StartCollecting, Collected, AfterCollection, SaveFails, Awaits, Await, WriteNote,
         CheckTimeout, StartEvaluating, CheckDone, CommandStops, CommandJoins, WriteClosing,
         MainUnchanged, Awake
  <1>2. /\ coll' \in [Collector -> {"idle", "working", "leaving", "done"}]
        /\ inflight' \subseteq Collector
    BY <1>0 DEF StrNext, Drain, Main, Collect, Returned, strvars, state, NextHalted, NextEvent,
         NextBeat, NextWait, NothingOutstanding, Outstanding, Heartbeat, Erase, DrawPhase,
         DrawLeft, Nap, DrawRight, Count, DrainExit, DrainUnchanged, Tick, CollectorStarted,
         CollectorLeaves, CollectorDone, ContextEnds, WatcherStops, WatcherDone, Halt,
         StartCollecting, Collected, AfterCollection, SaveFails, Awaits, Await, WriteNote,
         CheckTimeout, StartEvaluating, CheckDone, CommandStops, CommandJoins, WriteClosing,
         MainUnchanged
  <1>3. /\ drain' \in {"none", "ready", "asleep", "beat", "beating", "erase", "left", "nap",
                       "right", "count", "exiting", "exited"}
        /\ line' \in {"clean", "half", "beat"}
        /\ pending' \in Seq(Event) /\ log' \in Seq(Event) /\ screen' \in Seq(Event)
        /\ hand' \in Event \cup {None} /\ queued' \in Nat /\ drawn' \in Nat
    <2>1. CASE NextEvent
      <3>1. Head(pending) \in Event /\ Tail(pending) \in Seq(Event)
        BY <1>0, <2>1 DEF NextEvent
      <3>2. QED BY <1>0, <2>1, <3>1 DEF NextEvent, DrainUnchanged
    <2>2. CASE Count
      BY <1>0, <2>2 DEF Count, DrainUnchanged, state
    <2>3. CASE Queues
      <3>1. PICK ev \in Event : Emit(ev)
        BY <1>0, <2>3, QueuesKeep
      <3>2. UNCHANGED <<stopped, hand, line, screen>>
        BY <1>0, <2>3, QueuesKeep DEF state, display
      <3>3. Append(pending, ev) \in Seq(Event) /\ Append(log, ev) \in Seq(Event)
        BY <1>0
      <3>4. /\ pending' \in {pending, Append(pending, ev)} /\ log' \in {log, Append(log, ev)}
            /\ drain' \in {drain, "ready"} /\ queued' \in {queued, queued + 1} /\ drawn' = drawn
        BY <3>1, EmitEffect
      <3>5. pending' \in Seq(Event) /\ log' \in Seq(Event) /\ screen' \in Seq(Event)
        BY <1>0, <3>2, <3>3, <3>4
      <3>6. queued' \in Nat /\ drawn' \in Nat
        BY <1>0, <3>4
      <3>7. /\ drain' \in {"none", "ready", "asleep", "beat", "beating", "erase", "left", "nap",
                           "right", "count", "exiting", "exited"}
            /\ line' \in {"clean", "half", "beat"} /\ hand' \in Event \cup {None}
        BY <1>0, <3>2, <3>4
      <3>8. QED BY <3>5, <3>6, <3>7
    <2>4. CASE Halts
      <3>1. /\ pending' = << >> /\ drain' \in {drain, "ready"}
            /\ UNCHANGED <<queued, drawn, log, hand, line, screen>>
        BY <1>0, <2>4, HaltsKeep, HaltEffect DEF display, Flow
      <3>2. QED BY <1>0, <3>1
    <2>5. CASE Draws
      <3>1. hand \in Event
        BY <1>0, <2>5 DEF Draws, DrawPhase, DrawRight, Flow, InHand, Held
      <3>2. Append(screen, hand) \in Seq(Event)
        BY <1>0, <3>1
      <3>3. /\ drain' = "count" /\ line' \in {line, "clean"} /\ screen' = Append(screen, hand)
            /\ UNCHANGED <<pending, log, queued, drawn, hand>>
        BY <2>5 DEF Draws, DrawPhase, DrawRight, DrainUnchanged
      <3>4. QED BY <1>0, <3>2, <3>3
    <2>6. CASE Moves
      <3>1. UNCHANGED <<pending, log, queued, drawn, screen, hand, stopped>>
        BY <2>6, MovesKeep DEF queue
      <3>2. /\ drain' \in {"none", "ready", "asleep", "beat", "beating", "erase", "left", "nap",
                           "right", "count", "exiting", "exited"}
            /\ line' \in {"clean", "half", "beat"}
        BY <1>0, <2>6 DEF Moves, display, NextHalted, NextBeat, NextWait, NothingOutstanding,
             Outstanding, Heartbeat, Erase, DrawLeft, Nap, DrainExit, Tick, Wake, Cleared
      <3>3. QED BY <1>0, <3>1, <3>2
    <2>7. CASE Idles
      BY <1>0, <2>7, IdlesKeep DEF queue
    <2>8. QED BY <2>1, <2>2, <2>3, <2>4, <2>5, <2>6, <2>7, StepKinds
  <1>4. save' \in BOOLEAN /\ quiet' \in BOOLEAN /\ stopped' \in BOOLEAN /\ ticked' \in BOOLEAN
    BY <1>0 DEF StrNext, Drain, Main, Collect, Returned, strvars, state, flags, NextHalted,
         NextEvent, NextBeat, NextWait, NothingOutstanding, Outstanding, Heartbeat, Erase,
         DrawPhase, DrawLeft, Nap, DrawRight, Count, DrainExit, DrainUnchanged, Tick,
         CollectorStarted, CollectorLeaves, CollectorDone, ContextEnds, WatcherStops,
         WatcherDone, Halt, StartCollecting, Collected, AfterCollection, SaveFails, Awaits,
         Await, WriteNote, CheckTimeout, StartEvaluating, CheckDone, CommandStops,
         CommandJoins, WriteClosing, MainUnchanged
  <1>5. notes' \in Seq(Nat)
    <2>1. Append(notes, Len(screen)) \in Seq(Nat)
      BY <1>0
    <2>2. notes' = notes \/ notes' = Append(notes, Len(screen))
      BY DEF StrNext, Drain, Main, Collect, Returned, strvars, display, NextHalted,
         NextEvent, NextBeat, NextWait, NothingOutstanding, Outstanding, Heartbeat, Erase,
         DrawPhase, DrawLeft, Nap, DrawRight, Count, DrainExit, Tick,
         CollectorStarted, CollectorLeaves, CollectorDone, ContextEnds, WatcherStops,
         WatcherDone, StartCollecting, Collected, AfterCollection, SaveFails, Awaits,
         Await, WriteNote, CheckTimeout, StartEvaluating, CheckDone, CommandStops,
         CommandJoins, WriteClosing
    <2>3. QED BY <1>0, <2>1, <2>2
  <1>6. checked' \in 0..Checks
    <2>1. checked' = checked \/ (checked < Checks /\ checked' = checked + 1)
      BY DEF StrNext, Drain, Main, Collect, Returned, strvars, NextHalted,
         NextEvent, NextBeat, NextWait, NothingOutstanding, Outstanding, Heartbeat, Erase,
         DrawPhase, DrawLeft, Nap, DrawRight, Count, DrainExit, DrainUnchanged, Tick,
         CollectorStarted, CollectorLeaves, CollectorDone, ContextEnds, WatcherStops,
         WatcherDone, StartCollecting, Collected, AfterCollection, SaveFails, Awaits,
         Await, WriteNote, CheckTimeout, StartEvaluating, CheckDone, CommandStops,
         CommandJoins, WriteClosing
    <2>2. QED BY <1>0, <2>1, StreamAssumption
  <1>7. drawn' \in 0..queued'
    <2>1. Len(screen') \in Nat /\ Len(log') \in Nat /\ Len(pending') \in Nat
      BY <1>3
    <2>2. Len(screen') <= Len(log')
      BY <2>1 DEF Flow, Held
    <2>3. Uncounted' \in {0, 1} /\ queued' = Len(log') /\ drawn' + Uncounted' = Len(screen')
      BY DEF Counters, Uncounted
    <2>4. drawn' \in Nat
      BY <1>3
    <2> HIDE DEF StrTypeOK
    <2>5. QED BY <2>1, <2>2, <2>3, <2>4
  <1>8. QED BY <1>1, <1>2, <1>3, <1>4, <1>5, <1>6, <1>7

(* Nothing is queued and nobody has started.                               *)
LEMMA StreamStarts == StrInit => StrInv
  <1> SUFFICES ASSUME StrInit PROVE StrInv
    OBVIOUS
  <1>1. StrTypeOK
    <2>1. save \in BOOLEAN /\ quiet \in BOOLEAN /\ stopped \in BOOLEAN /\ ticked \in BOOLEAN
      BY DEF StrInit
    <2>2. /\ pending \in Seq(Event) /\ log \in Seq(Event) /\ screen \in Seq(Event)
          /\ notes \in Seq(Nat)
      BY DEF StrInit
    <2>3. coll \in [Collector -> {"idle", "working", "leaving", "done"}]
      BY DEF StrInit
    <2>4. queued \in Nat /\ drawn \in 0..queued /\ checked \in 0..Checks
      BY StreamAssumption DEF StrInit
    <2>5. QED BY <2>1, <2>2, <2>3, <2>4 DEF StrInit, StrTypeOK
  <1>2. Flow /\ Counters
    BY DEF StrInit, Flow, Counters, InHand, Held, Uncounted
  <1>3. LastLine /\ Beats /\ Progress
    BY DEF StrInit, LastLine, Beats, Progress, Evaluated, Gone
  <1>4. QED BY <1>1, <1>2, <1>3 DEF StrInv

(* The invariant of the progress stream: where every event is, what the    *)
(* last line holds, and how far the command has come, together.            *)
THEOREM StreamInvariance == StrSpec => []StrInv
  <1>1. StrInv /\ [StrNext]_strvars => StrInv'
    <2> SUFFICES ASSUME StrInv, [StrNext]_strvars PROVE StrInv'
      OBVIOUS
    <2>1. StrTypeOK /\ Flow /\ Counters /\ LastLine /\ Beats /\ Progress
      BY DEF StrInv
    <2>2. stopped => pending = << >>
      BY <2>1 DEF Flow
    <2>3. Flow' /\ Counters'
      BY <2>1, FlowStep
    <2>4. StrTypeOK'
      BY <2>3, StrTypeStep
    <2>5. LastLine' /\ Beats' /\ Progress'
      BY <2>1, <2>2, LineStep, BeatsStep, ProgressStep
    <2>6. QED BY <2>3, <2>4, <2>5 DEF StrInv
  <1>2. QED BY StreamStarts, <1>1, PTL DEF StrSpec

(* RowsInOrder: whatever the collectors, the evaluation, the ticker and a  *)
(* stop do, the screen is a beginning of what was queued: nothing is drawn *)
(* twice, skipped or moved.                                                *)
THEOREM DrawnInOrder == StrSpec => []RowsInOrder
  <1>1. StrInv => RowsInOrder
    <2> SUFFICES ASSUME StrInv PROVE RowsInOrder
      OBVIOUS
    <2>1. screen \in Seq(Event) /\ log \in Seq(Event) /\ Len(screen) <= Len(log)
          /\ \A k \in 1..Len(screen) : screen[k] = log[k]
      BY DEF StrInv, StrTypeOK, Flow, Held
    <2>2. QED BY <2>1 DEF RowsInOrder, IsPrefix
  <1>2. QED BY <1>1, StreamInvariance, PTL

(* OneWriter: when a Stop has returned, the drawing goroutine is gone and  *)
(* left neither half a row nor a heartbeat.                                *)
THEOREM WriterIsGone == StrSpec => []OneWriter
  <1>1. StrInv => OneWriter
    BY DEF StrInv, StrTypeOK, Progress, LastLine, Gone, OneWriter
  <1>2. QED BY <1>1, StreamInvariance, PTL

(* NotesBelowRows: a line of the command's own is written below every row  *)
(* queued before it and on a clean line, unless the stream was stopped.    *)
THEOREM NotesComeBelow == StrSpec => []NotesBelowRows
  <1>1. StrInv => NotesBelowRows
    <2> SUFFICES ASSUME StrInv, main \in {"saved", "notes", "stop"}, ~stopped
                 PROVE  screen = log /\ line = "clean"
      BY DEF NotesBelowRows
    <2>1. /\ StrTypeOK /\ drawn = queued
          /\ \A c \in Collector : coll[c] = "done"
      BY DEF StrInv, Progress
    <2>2. /\ screen \in Seq(Event) /\ log \in Seq(Event) /\ pending \in Seq(Event)
          /\ Len(screen) \in Nat /\ Len(log) \in Nat /\ Len(pending) \in Nat /\ drawn \in Nat
      BY <2>1 DEF StrTypeOK
    <2>3. ~InHand /\ drain # "count" /\ Len(pending) = 0 /\ Len(screen) = Len(log)
      BY <2>1, <2>2 DEF StrInv, Flow, Counters, Held, Uncounted, InHand
    <2>4. screen = log
      BY <2>2, <2>3 DEF StrInv, Flow
    <2>5. pending = << >>
      BY <2>2, <2>3
    <2>6. line # "half" /\ line # "beat"
      BY <2>1, <2>3, <2>5 DEF StrInv, LastLine, Beats, InHand
    <2>7. QED BY <2>1, <2>4, <2>6 DEF StrTypeOK
  <1>2. QED BY <1>1, StreamInvariance, PTL

(* TallyComplete: the closing block counts every check, drawn or not.      *)
THEOREM TallyIsComplete == StrSpec => []TallyComplete
  <1>1. StrInv => TallyComplete
    BY DEF StrInv, Progress, Evaluated, TallyComplete
  <1>2. QED BY <1>1, StreamInvariance, PTL
==============================================================================
