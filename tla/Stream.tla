------------------------------- MODULE Stream --------------------------------
(***************************************************************************)
(* rendertext.Stream as `plumbline scan` uses it.  Collectors and the      *)
(* evaluating goroutine queue events under a mutex; one goroutine, drain,  *)
(* draws them on stderr, each row in two halves with a pause between; a    *)
(* ticker wakes it to draw a heartbeat; the command writes lines of its    *)
(* own to the same terminal after Await or Close; and a watcher stops the  *)
(* stream when the scan's context ends.                                    *)
(*                                                                         *)
(* Each critical section is one action.  A goroutine in Cond.Wait is       *)
(* asleep until it is signalled.  The terminal is what the last line holds *)
(* and what has been completed above it.                                   *)
(***************************************************************************)
EXTENDS Naturals, Sequences, SequencesExt

CONSTANTS
  Collector,   \* the collectors that report to the stream
  Checks,      \* the number of checks evaluated
  None

ASSUME StreamAssumption == Checks \in Nat \ {0} /\ None \notin Collector

VARIABLES
  main,      \* where the command is
  coll,      \* where each collector's goroutine is
  watch,     \* where the watcher is
  drain,     \* where the drawing goroutine is
  ctx,       \* the scan's context: "live", or why it ended
  save, quiet,                       \* --save-bundle and --quiet
  pending, queued, drawn,            \* the queue
  stopped, ticked, inflight,         \* the rest of Stream's state
  hand,      \* the event drain is drawing
  line,      \* the terminal's last line: "clean", "half" or "beat"
  screen,    \* the phases and rows above it
  notes,     \* the command's own lines: how many of those are above each
  checked,   \* how many checks have been counted
  log        \* every event that was queued, in order

flags   == <<save, quiet>>
queue   == <<pending, queued, drawn, log>>
state   == <<stopped, ticked, inflight>>
display == <<hand, line, screen, notes>>
strvars == <<main, coll, watch, drain, ctx, flags, queue, state, display, checked>>

Phase(k) == <<"phase", k>>
Row(c)   == <<"collector", c>>
Verdict(k) == <<"check", k>>

Event == {Phase(k) : k \in 1..2} \cup {Row(c) : c \in Collector}
           \cup {Verdict(k) : k \in 1..Checks}

StrTypeOK ==
  /\ main \in {"collecting", "collect", "collected", "await", "awaiting", "saved", "timeout",
               "evaluating", "evaluate", "settle", "settling", "notes", "close", "closing",
               "stop", "join", "closed", "leave", "leaving", "returned"}
  /\ coll \in [Collector -> {"idle", "working", "leaving", "done"}]
  /\ watch \in {"waiting", "joining", "done"}
  /\ drain \in {"none", "ready", "asleep", "beat", "beating", "erase", "left", "nap", "right",
                "count", "exiting", "exited"}
  /\ ctx \in {"live", "deadline", "signal"}
  /\ pending \in Seq(Event)
  /\ inflight \subseteq Collector
  /\ hand \in Event \cup {None}
  /\ line \in {"clean", "half", "beat"}
  /\ screen \in Seq(Event) /\ log \in Seq(Event) /\ notes \in Seq(Nat)
  /\ queued \in Nat /\ drawn \in 0..queued
  /\ save \in BOOLEAN /\ quiet \in BOOLEAN /\ stopped \in BOOLEAN /\ ticked \in BOOLEAN
  /\ checked \in 0..Checks

StrInit ==
  /\ main = "collecting"
  /\ coll = [c \in Collector |-> "idle"]
  /\ watch = "waiting"
  /\ drain = "none"
  /\ ctx = "live"
  /\ save \in BOOLEAN /\ quiet \in BOOLEAN
  /\ pending = << >> /\ queued = 0 /\ drawn = 0 /\ log = << >>
  /\ stopped = FALSE /\ ticked = FALSE /\ inflight = {}
  /\ hand = None /\ line = "clean" /\ screen = << >> /\ notes = << >>
  /\ checked = 0

------------------------------------------------------------------------------
(* The queue.                                                              *)

Wake(state0) == IF state0 = "asleep" THEN "ready" ELSE state0

(* emit starts the drawing goroutine on the first event.                   *)
Emit(ev) ==
  IF quiet \/ stopped THEN UNCHANGED <<queue, drain>>
  ELSE /\ pending' = Append(pending, ev)
       /\ queued' = queued + 1
       /\ log' = Append(log, ev)
       /\ drain' = IF drain = "none" THEN "ready" ELSE Wake(drain)
       /\ UNCHANGED drawn

(* What the broadcast on idle does to a command asleep in Await.           *)
Awake(m) == CASE m = "awaiting" -> "await" [] m = "settling" -> "settle"
              [] m = "closing" -> "close" [] OTHER -> m

(* Stop's critical section: the events not yet drawn are dropped.          *)
Halt ==
  /\ stopped' = TRUE
  /\ pending' = IF stopped THEN pending ELSE << >>
  /\ drain' = IF stopped THEN drain ELSE Wake(drain)
  /\ UNCHANGED <<queued, drawn, log, ticked, inflight>>

\* mutant: Stop does not wait for the drawing goroutine
GoneAssumed == TRUE

(* <-done, or no goroutine was ever started.                               *)
Gone == drain \in {"none", "exited"}

------------------------------------------------------------------------------
(* The drawing goroutine.                                                  *)

DrainUnchanged == UNCHANGED <<coll, watch, ctx, flags, checked, log>>

NextHalted ==
  /\ drain = "ready" /\ stopped
  /\ drain' = "exiting"
  /\ DrainUnchanged /\ UNCHANGED <<main, pending, queued, drawn, state, display>>

\* mutant: the event stays at the head of the queue while it is drawn
NextEventKept ==
  /\ drain = "ready" /\ ~stopped /\ pending # << >>
  /\ hand' = Head(pending)
  /\ pending' = IF Len(pending) > 1 THEN Tail(pending) ELSE pending
  /\ ticked' = FALSE
  /\ drain' = "erase"
  /\ DrainUnchanged /\ UNCHANGED <<main, queued, drawn, stopped, inflight, line, screen, notes>>

NextEvent ==
  /\ drain = "ready" /\ ~stopped /\ pending # << >>
  /\ hand' = Head(pending)
  /\ pending' = Tail(pending)
  /\ ticked' = FALSE
  /\ drain' = "erase"
  /\ DrainUnchanged /\ UNCHANGED <<main, queued, drawn, stopped, inflight, line, screen, notes>>

NextBeat ==
  /\ drain = "ready" /\ ~stopped /\ pending = << >> /\ ticked
  /\ ticked' = FALSE
  /\ drain' = "beat"
  /\ DrainUnchanged /\ UNCHANGED <<main, pending, queued, drawn, stopped, inflight, display>>

NextWait ==
  /\ drain = "ready" /\ ~stopped /\ pending = << >> /\ ~ticked
  /\ drain' = "asleep"
  /\ DrainUnchanged /\ UNCHANGED <<main, pending, queued, drawn, state, display>>

Cleared == IF line = "beat" THEN "clean" ELSE line

(* heartbeat asks who is outstanding under the lock and draws without it.  *)
NothingOutstanding ==
  /\ drain = "beat" /\ inflight = {}
  /\ line' = Cleared
  /\ drain' = "ready"
  /\ DrainUnchanged /\ UNCHANGED <<main, pending, queued, drawn, state, hand, screen, notes>>

Outstanding ==
  /\ drain = "beat" /\ inflight # {}
  /\ drain' = "beating"
  /\ DrainUnchanged /\ UNCHANGED <<main, pending, queued, drawn, state, display>>

Heartbeat ==
  /\ drain = "beating"
  /\ line' = "beat"
  /\ drain' = "ready"
  /\ DrainUnchanged /\ UNCHANGED <<main, pending, queued, drawn, state, hand, screen, notes>>

Erase ==
  /\ drain = "erase"
  /\ line' = Cleared
  /\ drain' = "left"
  /\ DrainUnchanged /\ UNCHANGED <<main, pending, queued, drawn, state, hand, screen, notes>>

(* A phase is one write; a row is its left half, a nap and its right half. *)
DrawPhase ==
  /\ drain = "left" /\ hand[1] = "phase"
  /\ screen' = Append(screen, hand)
  /\ drain' = "count"
  /\ DrainUnchanged /\ UNCHANGED <<main, pending, queued, drawn, state, hand, line, notes>>

DrawLeft ==
  /\ drain = "left" /\ hand[1] # "phase"
  /\ line' = "half"
  /\ drain' = "nap"
  /\ DrainUnchanged /\ UNCHANGED <<main, pending, queued, drawn, state, hand, screen, notes>>

Nap ==
  /\ drain = "nap"
  /\ drain' = "right"
  /\ DrainUnchanged /\ UNCHANGED <<main, pending, queued, drawn, state, display>>

DrawRight ==
  /\ drain = "right"
  /\ screen' = Append(screen, hand)
  /\ line' = "clean"
  /\ drain' = "count"
  /\ DrainUnchanged /\ UNCHANGED <<main, pending, queued, drawn, state, hand, notes>>

\* mutant: Await is not told
CountQuietly ==
  /\ drain = "count"
  /\ drawn' = drawn + 1
  /\ hand' = None
  /\ drain' = "ready"
  /\ DrainUnchanged /\ UNCHANGED <<main, pending, queued, state, line, screen, notes>>

Count ==
  /\ drain = "count"
  /\ drawn' = drawn + 1
  /\ hand' = None
  /\ main' = Awake(main)
  /\ drain' = "ready"
  /\ DrainUnchanged /\ UNCHANGED <<pending, queued, state, line, screen, notes>>

(* The ticker is retired, the heartbeat erased, and finished closed.       *)
DrainExit ==
  /\ drain = "exiting"
  /\ line' = Cleared
  /\ drain' = "exited"
  /\ DrainUnchanged /\ UNCHANGED <<main, pending, queued, drawn, state, hand, screen, notes>>

Drain ==
  \/ NextHalted \/ NextEvent \/ NextBeat \/ NextWait
  \/ NothingOutstanding \/ Outstanding \/ Heartbeat
  \/ Erase \/ DrawPhase \/ DrawLeft \/ Nap \/ DrawRight \/ Count \/ DrainExit

Tick ==
  /\ drain \notin {"none", "exiting", "exited"}
  /\ ticked' = TRUE
  /\ drain' = Wake(drain)
  /\ UNCHANGED <<main, coll, watch, ctx, flags, queue, stopped, inflight, display, checked>>

------------------------------------------------------------------------------
(* The collectors' goroutines, and the end of the context.                 *)

CollectorStarted(c) ==
  /\ main = "collect" /\ coll[c] = "idle"
  /\ coll' = [coll EXCEPT ![c] = "working"]
  /\ inflight' = IF quiet \/ stopped THEN inflight ELSE inflight \cup {c}
  /\ UNCHANGED <<main, watch, drain, ctx, flags, queue, stopped, ticked, display, checked>>

(* CollectorDone: out of the heartbeat's set first, then the row.          *)
CollectorLeaves(c) ==
  /\ coll[c] = "working"
  /\ coll' = [coll EXCEPT ![c] = "leaving"]
  /\ inflight' = inflight \ {c}
  /\ UNCHANGED <<main, watch, drain, ctx, flags, queue, stopped, ticked, display, checked>>

CollectorDone(c) ==
  /\ coll[c] = "leaving"
  /\ Emit(Row(c))
  /\ coll' = [coll EXCEPT ![c] = "done"]
  /\ UNCHANGED <<main, watch, ctx, flags, state, display, checked>>

Collect(c) == CollectorStarted(c) \/ CollectorLeaves(c) \/ CollectorDone(c)

ContextEnds ==
  /\ ctx = "live" /\ main # "returned"
  /\ ctx' \in {"deadline", "signal"}
  /\ UNCHANGED <<main, coll, watch, drain, flags, queue, state, display, checked>>

WatcherStops ==
  /\ watch = "waiting" /\ ctx # "live"
  /\ Halt
  /\ main' = IF stopped THEN main ELSE Awake(main)
  /\ watch' = "joining"
  /\ UNCHANGED <<coll, ctx, flags, display, checked>>

WatcherDone ==
  /\ watch = "joining" /\ Gone
  /\ watch' = "done"
  /\ UNCHANGED <<main, coll, drain, ctx, flags, queue, state, display, checked>>

------------------------------------------------------------------------------
(* The command.                                                            *)

MainUnchanged == UNCHANGED <<coll, watch, ctx, flags>>

StartCollecting ==
  /\ main = "collecting"
  /\ Emit(Phase(1))
  /\ main' = "collect"
  /\ MainUnchanged /\ UNCHANGED <<state, display, checked>>

Collected ==
  /\ main = "collect" /\ \A c \in Collector : coll[c] = "done"
  /\ main' = "collected"
  /\ MainUnchanged /\ UNCHANGED <<drain, queue, state, display, checked>>

(* An interrupted run leaves at once; so does one that could not write its *)
(* bundle.                                                                 *)
AfterCollection ==
  /\ main = "collected"
  /\ main' = CASE ctx = "signal" -> "leave"
               [] ctx # "signal" /\ save -> "await"
               [] OTHER -> "timeout"
  /\ MainUnchanged /\ UNCHANGED <<drain, queue, state, display, checked>>

SaveFails ==
  /\ main = "collected" /\ ctx # "signal" /\ save
  /\ main' = "leave"
  /\ MainUnchanged /\ UNCHANGED <<drain, queue, state, display, checked>>

\* mutant: Await waits for the queue to be taken, not for it to be drawn
AwaitTaken(from, asleep, to) ==
  /\ main = from
  /\ main' = IF pending # << >> /\ ~stopped THEN asleep ELSE to
  /\ MainUnchanged /\ UNCHANGED <<drain, queue, state, display, checked>>

(* Await, from each of its three callers.                                  *)
Await(from, asleep, to) ==
  /\ main = from
  /\ main' = IF drawn < queued /\ ~stopped THEN asleep ELSE to
  /\ MainUnchanged /\ UNCHANGED <<drain, queue, state, display, checked>>

Awaits ==
  \/ Await("await", "awaiting", "saved")
  \/ Await("settle", "settling", "notes")
  \/ Await("close", "closing", "stop")

(* "bundle saved to", and the notes about suppressions that did not fire.  *)
WriteNote ==
  /\ main \in {"saved", "notes"}
  /\ notes' = Append(notes, Len(screen))
  /\ main' = IF main = "saved" THEN "timeout" ELSE "close"
  /\ MainUnchanged /\ UNCHANGED <<drain, queue, state, hand, line, screen, checked>>

CheckTimeout ==
  /\ main = "timeout"
  /\ main' = IF ctx = "deadline" THEN "leave" ELSE "evaluating"
  /\ MainUnchanged /\ UNCHANGED <<drain, queue, state, display, checked>>

StartEvaluating ==
  /\ main = "evaluating"
  /\ Emit(Phase(2))
  /\ main' = "evaluate"
  /\ MainUnchanged /\ UNCHANGED <<state, display, checked>>

\* mutant: what the stream no longer shows is not counted either
CheckDoneShown ==
  /\ main = "evaluate" /\ checked < Checks
  /\ checked' = IF quiet \/ stopped THEN checked ELSE checked + 1
  /\ Emit(Verdict(checked + 1))
  /\ main' = IF checked + 1 = Checks \/ checked' = checked THEN "settle" ELSE "evaluate"
  /\ MainUnchanged /\ UNCHANGED <<state, display>>

(* CheckDone: counted, shown or not.                                       *)
CheckDone ==
  /\ main = "evaluate" /\ checked < Checks
  /\ checked' = checked + 1
  /\ Emit(Verdict(checked + 1))
  /\ main' = IF checked + 1 = Checks THEN "settle" ELSE "evaluate"
  /\ MainUnchanged /\ UNCHANGED <<state, display>>

(* Stop, from Close and from the deferred call.                            *)
CommandStops ==
  /\ main \in {"stop", "leave"}
  /\ Halt
  /\ main' = IF main = "stop" THEN "join" ELSE "leaving"
  /\ MainUnchanged /\ UNCHANGED <<display, checked>>

CommandJoins ==
  /\ main \in {"join", "leaving"} /\ Gone
  /\ main' = IF main = "join" THEN "closed" ELSE "returned"
  /\ MainUnchanged /\ UNCHANGED <<drain, queue, state, display, checked>>

(* Close's block, then the report on stdout and the gate.                  *)
WriteClosing ==
  /\ main = "closed"
  /\ notes' = Append(notes, Len(screen))
  /\ main' = "leave"
  /\ MainUnchanged /\ UNCHANGED <<drain, queue, state, hand, line, screen, checked>>

Main ==
  \/ StartCollecting \/ Collected \/ AfterCollection \/ SaveFails \/ Awaits \/ WriteNote
  \/ CheckTimeout \/ StartEvaluating \/ CheckDone \/ CommandStops \/ CommandJoins \/ WriteClosing

Returned == main = "returned" /\ UNCHANGED strvars

StrNext ==
  \/ Drain \/ Tick \/ Main
  \/ \E c \in Collector : Collect(c)
  \/ ContextEnds \/ WatcherStops \/ WatcherDone
  \/ Returned

(* Every goroutine that can take a step takes it: the Go scheduler runs    *)
(* them all, a collector's goroutine always reports (Runner), a nap ends,  *)
(* and writes to the terminal return.  The context need not end, and no    *)
(* tick is needed.                                                         *)
StrFairness ==
  /\ WF_strvars(Drain) /\ WF_strvars(Main)
  /\ \A c \in Collector : WF_strvars(Collect(c))
  /\ WF_strvars(WatcherStops) /\ WF_strvars(WatcherDone)

StrSpec == StrInit /\ [][StrNext]_strvars /\ StrFairness

------------------------------------------------------------------------------
(* Properties                                                              *)

(* The stream shows what was queued, in the order it was queued and each   *)
(* event once, with several producers and a stop at any moment: a phase    *)
(* stays above the rows it introduces.                                     *)
RowsInOrder == IsPrefix(screen, log)

(* "handing one terminal to two goroutines is the single failure this      *)
(* layout cannot survive" (Close): once a Stop has returned the drawing    *)
(* goroutine is gone, and neither half a row nor a heartbeat is left.      *)
OneWriter ==
  main \in {"closed", "returned"} \/ watch = "done" =>
    drain \in {"none", "exited"} /\ line = "clean"

(* Await "buys a terminal that reads top to bottom": in a run that was not *)
(* stopped a line of the command's own starts on a clean line, below every *)
(* row queued before it.                                                   *)
NotesBelowRows ==
  main \in {"saved", "notes", "stop"} /\ ~stopped => screen = log /\ line = "clean"

(* "the closing block is a tally of what was evaluated": stopped, quiet or *)
(* drawn to the end, it counts every check.                                *)
TallyComplete == main = "closed" => checked = Checks

(* No wait of the command is for ever: not Await's for rows to be drawn,   *)
(* not Stop's for the goroutine, whether or not the context ends.          *)
CommandReturns == <>(main = "returned")
==============================================================================
