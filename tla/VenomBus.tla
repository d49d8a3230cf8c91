------------------------------ MODULE VenomBus ------------------------------
(***************************************************************************)
(* VenomBus: pushEvent on the threads of its callers, the handler that      *)
(* startReactive subscribes to every window, and the telemetry counters.    *)
(*                                                                         *)
(* window_with_time takes its default coordination, the current thread:     *)
(* whoever pushes an event delivers it too, walking the list of windows     *)
(* while the window thread (module WindowTimer) changes it.  Each client    *)
(* message is pushed by a thread of its own, so an event stands for the     *)
(* thread that carries it, and every access to an atomic counter is a step. *)
(***************************************************************************)
EXTENDS WindowTimer, FiniteSets

CONSTANTS
    Events,     \* the events, one pushing thread each
    ArpEvents,  \* those pushed with isArp, filtered whatever their entropy
    Limit,      \* queue_depth above which pushEvent refuses (1000)
    DepthMod,   \* queue_depth counts modulo this (2^32)
    MaxThreads, \* bound on the threads that are in pushEvent at a time
    NoSource    \* last_filtered_ip before anything is filtered

ASSUME BusAssumption ==
    /\ ArpEvents \subseteq Events
    /\ Limit \in Nat
    /\ DepthMod \in Nat
    /\ Limit + 1 < DepthMod
    /\ MaxThreads \in Nat \ {0}
    /\ NoSource \notin Events

VARIABLES
    pc,         \* what each event's thread does next
    cur,        \* the window it is at
    stop,       \* the end of the list when it began to walk it
    total,      \* telemetry.total_events
    depth,      \* telemetry.queue_depth
    accepted,   \* telemetry.accepted_events
    nullRouted, \* telemetry.null_routed_events
    lastSource, \* last_filtered_ip: the event it was taken from
    judged,     \* history: <<event, window>> for every run of the handler
    rejected,   \* history: the events refused at the limit
    crashed     \* the process died of a dangling window

pushVars      == <<pc, cur, stop>>
telemetryVars == <<total, depth, accepted, nullRouted, lastSource>>
historyVars   == <<judged, rejected>>
busVars       == <<pushVars, telemetryVars, historyVars, crashed>>
vars          == <<timerVars, busVars>>

Steps == {"new", "count", "check", "refuse", "uncount", "emit", "visit", "judge",
          "stamp", "drain", "drop", "done"}

\* Threads that are inside pushEvent.
Running == {e \in Events : pc[e] \notin {"new", "done"}}

GoTo(e, step) == pc' = [pc EXCEPT ![e] = step]

\* The operator is an observer of vent_bus, which it joins with the first tick and
\* leaves when its own end has come.
OnBus == Listening \/ chain = "deaf"

\* Variant: the walk does not move on.
AdvanceRevisits(e) ==
    /\ GoTo(e, IF cur[e] + 1 < stop[e] THEN "visit" ELSE "done")
    /\ UNCHANGED <<cur, stop>>

\* The next window of the list, or back to the caller after the last one.
Advance(e) ==
    /\ cur' = [cur EXCEPT ![e] = @ + 1]
    /\ GoTo(e, IF cur[e] + 1 < stop[e] THEN "visit" ELSE "done")
    /\ UNCHANGED stop

-----------------------------------------------------------------------------
(* Faulty variants of the actions below, which the properties must reject. *)

\* The refused event is emitted all the same.
RefuseGoesOn(e) ==
    /\ pc[e] = "refuse"
    /\ nullRouted' = nullRouted + 1
    /\ rejected' = rejected \cup {e}
    /\ GoTo(e, "emit")
    /\ UNCHANGED <<cur, stop, total, depth, accepted, lastSource, judged, crashed>>

\* The refused event keeps its place in queue_depth.
RefuseReturns(e) ==
    /\ pc[e] = "refuse"
    /\ nullRouted' = nullRouted + 1
    /\ rejected' = rejected \cup {e}
    /\ GoTo(e, "done")
    /\ UNCHANGED <<cur, stop, total, depth, accepted, lastSource, judged, crashed>>

\* Only the newest window of the list is told.
EmitNewest(e) ==
    /\ pc[e] = "emit"
    /\ IF OnBus /\ popped < pushed
         THEN /\ cur' = [cur EXCEPT ![e] = pushed - 1]
              /\ stop' = [stop EXCEPT ![e] = pushed]
              /\ GoTo(e, "visit")
         ELSE GoTo(e, "done") /\ UNCHANGED <<cur, stop>>
    /\ UNCHANGED <<telemetryVars, historyVars, crashed>>

-----------------------------------------------------------------------------
BusInit ==
    /\ pc = [e \in Events |-> "new"]
    /\ cur = [e \in Events |-> 0]
    /\ stop = [e \in Events |-> 0]
    /\ total = 0
    /\ depth = 0
    /\ accepted = 0
    /\ nullRouted = 0
    /\ lastSource = NoSource
    /\ judged = {}
    /\ rejected = {}
    /\ crashed = FALSE

(* pushEvent *)

CountTotal(e) ==
    /\ pc[e] = "new"
    /\ Cardinality(Running) < MaxThreads
    /\ total' = total + 1
    /\ GoTo(e, "count")
    /\ UNCHANGED <<cur, stop, depth, accepted, nullRouted, lastSource, historyVars, crashed>>

CountDepth(e) ==
    /\ pc[e] = "count"
    /\ depth' = (depth + 1) % DepthMod
    /\ GoTo(e, "check")
    /\ UNCHANGED <<cur, stop, total, accepted, nullRouted, lastSource, historyVars, crashed>>

\* The depth is read again: it is not the value the increment returned.
CheckDepth(e) ==
    /\ pc[e] = "check"
    /\ GoTo(e, IF depth > Limit THEN "refuse" ELSE "emit")
    /\ UNCHANGED <<cur, stop, telemetryVars, historyVars, crashed>>

Refuse(e) ==
    /\ pc[e] = "refuse"
    /\ nullRouted' = nullRouted + 1
    /\ rejected' = rejected \cup {e}
    /\ GoTo(e, "uncount")
    /\ UNCHANGED <<cur, stop, total, depth, accepted, lastSource, judged, crashed>>

Uncount(e) ==
    /\ pc[e] = "uncount"
    /\ depth' = (depth - 1) % DepthMod
    /\ GoTo(e, "done")
    /\ UNCHANGED <<cur, stop, total, accepted, nullRouted, lastSource, historyVars, crashed>>

\* The operator, while it is on vent_bus, walks the windows that are on the list at
\* this moment; there are none before its thread has built it.
Emit(e) ==
    /\ pc[e] = "emit"
    /\ IF OnBus /\ popped < pushed
         THEN /\ cur' = [cur EXCEPT ![e] = popped]
              /\ stop' = [stop EXCEPT ![e] = pushed]
              /\ GoTo(e, "visit")
         ELSE GoTo(e, "done") /\ UNCHANGED <<cur, stop>>
    /\ UNCHANGED <<telemetryVars, historyVars, crashed>>

(* The walk over the list of windows *)

\* The window has the bus's handler and was not told on_completed.
Live(w) == w < observed /\ completed <= w

VisitLive(e) ==
    /\ pc[e] = "visit"
    /\ Live(cur[e])
    /\ GoTo(e, "judge")
    /\ UNCHANGED <<cur, stop, telemetryVars, historyVars, crashed>>

\* Not yet observed, or completed: the subject has no one to tell.
VisitDeaf(e) ==
    /\ pc[e] = "visit"
    /\ ~ Live(cur[e])
    /\ Advance(e)
    /\ UNCHANGED <<telemetryVars, historyVars, crashed>>

\* The window was popped under the walk: the element read is a dead object.  It
\* may still look like the completed subject it was (VisitDeaf), or not.
VisitDangling(e) ==
    /\ pc[e] = "visit"
    /\ cur[e] < popped
    /\ crashed' = TRUE
    /\ UNCHANGED <<pushVars, telemetryVars, historyVars>>

(* The handler *)

Accept(e) ==
    /\ pc[e] = "judge"
    /\ e \notin ArpEvents
    /\ accepted' = accepted + 1
    /\ judged' = judged \cup {<<e, cur[e]>>}
    /\ GoTo(e, "drain")
    /\ UNCHANGED <<cur, stop, total, depth, nullRouted, lastSource, rejected, crashed>>

\* The threshold moves with the clock and the load, so that any payload can be
\* above it.
NullRoute(e) ==
    /\ pc[e] = "judge"
    /\ nullRouted' = nullRouted + 1
    /\ judged' = judged \cup {<<e, cur[e]>>}
    /\ GoTo(e, "stamp")
    /\ UNCHANGED <<cur, stop, total, depth, accepted, lastSource, rejected, crashed>>

Stamp(e) ==
    /\ pc[e] = "stamp"
    /\ lastSource' = e
    /\ GoTo(e, "drain")
    /\ UNCHANGED <<cur, stop, total, depth, accepted, nullRouted, historyVars, crashed>>

\* if (queue_depth > 0) ...
Drain(e) ==
    /\ pc[e] = "drain"
    /\ IF depth > 0
         THEN GoTo(e, "drop") /\ UNCHANGED <<cur, stop>>
         ELSE Advance(e)
    /\ UNCHANGED <<telemetryVars, historyVars, crashed>>

\* ... queue_depth--;
Drop(e) ==
    /\ pc[e] = "drop"
    /\ depth' = (depth - 1) % DepthMod
    /\ Advance(e)
    /\ UNCHANGED <<total, accepted, nullRouted, lastSource, historyVars, crashed>>

-----------------------------------------------------------------------------
PushStep(e) ==
    \/ CountTotal(e)
    \/ CountDepth(e)
    \/ CheckDepth(e)
    \/ Refuse(e)
    \/ Uncount(e)
    \/ Emit(e)
    \/ VisitLive(e)
    \/ VisitDeaf(e)
    \/ VisitDangling(e)
    \/ Accept(e)
    \/ NullRoute(e)
    \/ Stamp(e)
    \/ Drain(e)
    \/ Drop(e)

\* One thread's step in a process that is still there.
Thread(e) == ~ crashed /\ PushStep(e) /\ UNCHANGED timerVars

Timer == ~ crashed /\ TimerNext /\ UNCHANGED busVars

\* What of it goes on by itself: all but the call of unsubscribe().
TimerRuns == ~ crashed /\ (TimerThread \/ Disposal \/ ClockAdvances) /\ UNCHANGED busVars

Init == TimerInit /\ BusInit

Next == Timer \/ \E e \in Events : Thread(e)

Spec == Init /\ [][Next]_vars

-----------------------------------------------------------------------------
\* The types of the bus; queue_depth stays within the width of its counter.
BusTypeOK ==
    /\ TimerTypeOK
    /\ pc \in [Events -> Steps]
    /\ cur \in [Events -> Nat]
    /\ stop \in [Events -> Nat]
    /\ total \in Nat
    /\ depth \in 0 .. DepthMod - 1
    /\ accepted \in Nat
    /\ nullRouted \in Nat
    /\ lastSource \in Events \cup {NoSource}
    /\ judged \in SUBSET (Events \X Nat)
    /\ rejected \in SUBSET Events
    /\ crashed \in BOOLEAN

\* accepted_events and null_routed_events count every run of a handler and every
\* refusal once: no update is lost, and no window judges an event twice.
CountersAgree ==
    accepted + nullRouted = Cardinality(judged) + Cardinality(rejected)

\* Once a first window was observed and until the subscription ends, an event that is
\* emitted starts to walk over a window that would hear it at that moment.  It need
\* not be heard: the window may be over when the walk comes to it.
EmitFindsLive ==
    [][\A e \in Events :
          (pc[e] = "emit" /\ pc'[e] # "emit" /\ Listening /\ observed > 0)
              => \E w \in cur'[e] .. stop'[e] - 1 : Live(w)]_vars

\* Threads that walk the list of windows.
Walking == {e \in Events : pc[e] \in {"visit", "judge", "stamp", "drain", "drop"}}

\* After the operator has left vent_bus no thread starts to walk the windows: the
\* threads that are inside the chain can only leave it.
DisposedDrains ==
    [][~ OnBus => Walking' \subseteq Walking]_vars

\* The bus as its telemetry describes it.
Ledger == INSTANCE EventLedger
    WITH inside <- Running,
         gone <- {e \in Events : pc[e] = "done"},
         windows <- pushed

\* The threads, the windows and the counters implement the ledger.
ImplementsEventLedger == Ledger!Spec

(* queue_depth *)

\* Threads between the increment of queue_depth and its decrement.
Counted == Running \ {e \in Events : pc[e] = "count"}

\* Events that went through the bus unheard: no window was there for them, and
\* nothing ever takes back their increment of queue_depth.
Unheard == {e \in Events : /\ pc[e] = "done"
                           /\ e \notin rejected
                           /\ \A ruling \in judged : ruling[1] # e}

\* Until the subscription ends, an event whose walk had more than the very first window
\* before it goes unheard only if the walk was overtaken: by the time it is through,
\* every window of the list it had set out on, the newest too, was told on_completed.
\* (The very first window is on the list before the bus observes it.)
UnheardWasOvertaken ==
    \A e \in Unheard :
        (chain \in {"none", "subscribed", "ending"} /\ stop[e] > 1)
            => stop[e] <= completed

\* As long as there was never a second window, queue_depth is exactly the events
\* inside plus those that went unheard: the check before the decrement decides
\* nothing, and only overlapping windows can take a count twice.
DepthExact ==
    pushed <= 1 => depth = Cardinality(Counted) + Cardinality(Unheard)

-----------------------------------------------------------------------------
(* What the project's documents say of the bus, and the code does not keep.  *)

\* "zero resource leak", "Queue Depth (Q) 0" at rest (STRESS_TEST_REPORT_v2.1):
\* with no thread in pushEvent the queue is empty.
NoDepthLeak ==
    Running = {} => depth = 0

\* The bus is there "to prevent deadlocks and race conditions" (README): no
\* thread ever reads a window that another has taken off the list.
NoDanglingWindow ==
    \A e \in Events : pc[e] = "visit" => cur[e] >= popped

\* Its counters are atomic, so that the workers can update them together
\* (master context): an event is refused only when more than Limit were pushed.
RefusedOnlyWhenFull ==
    rejected # {} => total > Limit

-----------------------------------------------------------------------------
\* Every thread of the process is scheduled.  Nobody has to push an event or to
\* unsubscribe.
BusFairness ==
    /\ \A e \in Events : WF_vars(pc[e] # "new" /\ Thread(e))
    /\ WF_vars(TimerRuns)

FairSpec == Spec /\ BusFairness

\* pushEvent returns, whatever happens to the windows meanwhile.
EveryPushReturns ==
    \A e \in Events : pc[e] = "count" ~> (pc[e] = "done" \/ crashed)

=============================================================================
