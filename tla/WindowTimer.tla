---------------------------- MODULE WindowTimer -----------------------------
(***************************************************************************)
(* window_with_time(200ms).subscribe_on(new_thread), the part of the bus's  *)
(* reactive chain that runs on the thread rxcpp starts for it.  The thread  *)
(* serves a queue ordered by (time, ordinal): a periodic tick schedules the *)
(* creation of a window, the creation schedules its end one period later,   *)
(* and the end is reached through three queue entries.                      *)
(*                                                                         *)
(* Time is counted in periods of 200 ms.  The clock advances whenever it    *)
(* likes, so the thread may be late by any amount.                          *)
(*                                                                         *)
(* The signal handler ends the chain one lifetime after the other, and the  *)
(* thread goes on between the steps.                                        *)
(***************************************************************************)
EXTENDS Integers

CONSTANT
    Horizon     \* bound on the clock: the model stops opening windows there

ASSUME HorizonAssumption == Horizon \in Nat

VARIABLES
    chain,      \* how far the reactive chain has come (Chains)
    pushed,     \* windows pushed onto subj
    observed,   \* windows whose observable the bus has subscribed to
    completed,  \* windows whose subject was told on_completed
    popped,     \* windows popped from subj: the deque holds popped .. pushed-1
    queue,      \* the thread's pending tasks
    ordinal,    \* tasks scheduled so far
    expected,   \* when the newest window was due to open
    task,       \* what the thread is in the middle of (Tasks)
    now         \* the clock

windowVars == <<chain, pushed, observed, completed, popped>>
threadVars == <<queue, ordinal, expected, task>>
timerVars  == <<windowVars, threadVars, now>>

-----------------------------------------------------------------------------
(* The lifetimes of the chain and the queue of the new_thread worker. *)

\* "ending": engine_lifetime is over.  "deaf": the source's lifetime is, and with
\* it the bus's subscription to the windows.  "left": the operator is off vent_bus.
\* "silent": its worker is over.  "disposed": the thread's.  "joined": the thread
\* has ended, or let itself be detached.
Chains == {"none", "subscribed", "ending", "deaf", "left", "silent", "disposed", "joined"}

\* The bus hears of the windows that are opened.
Listening == chain \in {"subscribed", "ending"}

\* The tasks of the windows are run.
Working == chain \in {"subscribed", "ending", "deaf", "left"}

\* "over": the thread has run the disposer itself.
Tasks == {"idle", "observe", "pop", "over"}

Kinds == {"tick", "create", "produce", "release", "complete", "dispose"}

\* win is the window the task was scheduled for; the code has no such field.
Task == [kind : Kinds, win : Nat, at : Nat, ord : Nat]

\* Variant: last come first served.
PrecedesLifo(s, t) ==
    \/ s.at < t.at
    \/ s.at = t.at /\ s.ord > t.ord

\* schedulable_queue's order: by time, then first come first served.
Precedes(s, t) ==
    \/ s.at < t.at
    \/ s.at = t.at /\ s.ord < t.ord

\* The task on top of the queue, when its time has come.
Due(t) ==
    /\ t \in queue
    /\ t.at <= now
    /\ \A u \in queue \ {t} : Precedes(t, u)

NewTask(kind, win, at, ord) == [kind |-> kind, win |-> win, at |-> at, ord |-> ord]

\* The thread takes t and schedules one task more.
Reschedule(t, kind, at) ==
    /\ queue' = (queue \ {t}) \cup {NewTask(kind, t.win, at, ordinal)}
    /\ ordinal' = ordinal + 1

\* The thread is free and t is the next thing it does.
Runs(t, kind) ==
    /\ Working
    /\ task = "idle"
    /\ t.kind = kind
    /\ Due(t)

\* Windows whose creation is done, observed or not.
Created == IF task = "observe" THEN pushed - 1 ELSE pushed

-----------------------------------------------------------------------------
(* Faulty variants of the actions below, which the properties must reject. *)

\* release_window forgets to schedule its second half.
ReleaseForgets(t) ==
    /\ Runs(t, "release")
    /\ queue' = queue \ {t}
    /\ UNCHANGED <<windowVars, ordinal, expected, task, now>>

\* The whole list goes, the open windows with it.
PopWindowClears ==
    /\ task = "pop"
    /\ popped' = pushed
    /\ task' = "idle"
    /\ UNCHANGED <<chain, pushed, observed, completed, queue, ordinal, expected, now>>

-----------------------------------------------------------------------------
TimerInit ==
    /\ chain = "none"
    /\ pushed = 0
    /\ observed = 0
    /\ completed = 0
    /\ popped = 0
    /\ queue = {}
    /\ ordinal = 0
    /\ expected = 0
    /\ task = "idle"
    /\ now = 0

\* The producer runs: the operator is built, its tick scheduled, and the
\* operator becomes an observer of vent_bus.
Subscribe ==
    /\ chain \in {"none", "ending"}
    /\ ordinal = 0
    /\ chain' = IF chain = "none" THEN "subscribed" ELSE chain
    /\ expected' = now
    /\ queue' = {NewTask("tick", 0, now, ordinal)}
    /\ ordinal' = ordinal + 1
    /\ UNCHANGED <<pushed, observed, completed, popped, task, now>>

\* The action first, the next occurrence after it.
Tick(t) ==
    /\ Runs(t, "tick")
    /\ queue' = (queue \ {t})
                  \cup { NewTask("create", t.win, now, ordinal),
                         NewTask("tick", t.win + 1, t.at + 1, ordinal + 1) }
    /\ ordinal' = ordinal + 2
    /\ UNCHANGED <<windowVars, expected, task, now>>

\* The first half of create_window: the subject joins the list ...
PushWindow(t) ==
    /\ Runs(t, "create")
    /\ pushed' = pushed + 1
    /\ queue' = queue \ {t}
    /\ task' = "observe"
    /\ UNCHANGED <<chain, observed, completed, popped, ordinal, expected, now>>

\* ... the second half: the bus subscribes to it and its end is scheduled.
ObserveWindow ==
    /\ task = "observe"
    /\ Listening
    /\ observed' = observed + 1
    /\ queue' = queue \cup {NewTask("produce", pushed - 1, expected + 1, ordinal)}
    /\ ordinal' = ordinal + 1
    /\ expected' = expected + 1
    /\ task' = "idle"
    /\ UNCHANGED <<chain, pushed, completed, popped, now>>

\* The deaf bus is not told of the window; its end is scheduled while the worker
\* still takes tasks.
AbandonWindow ==
    /\ task = "observe"
    /\ ~ Listening
    /\ IF Working
         THEN /\ queue' = queue \cup {NewTask("produce", pushed - 1, expected + 1, ordinal)}
              /\ ordinal' = ordinal + 1
         ELSE UNCHANGED <<queue, ordinal>>
    /\ expected' = expected + 1
    /\ task' = "idle"
    /\ UNCHANGED <<windowVars, now>>

Produce(t) ==
    /\ Runs(t, "produce")
    /\ Reschedule(t, "release", now)
    /\ UNCHANGED <<windowVars, expected, task, now>>

Release(t) ==
    /\ Runs(t, "release")
    /\ Reschedule(t, "complete", now)
    /\ UNCHANGED <<windowVars, expected, task, now>>

\* on_completed goes to subj[0], whichever window the task was made for.
CompleteWindow(t) ==
    /\ Runs(t, "complete")
    /\ completed' = completed + 1
    /\ queue' = queue \ {t}
    /\ task' = "pop"
    /\ UNCHANGED <<chain, pushed, observed, popped, ordinal, expected, now>>

PopWindow ==
    /\ task = "pop"
    /\ popped' = popped + 1
    /\ task' = "idle"
    /\ UNCHANGED <<chain, pushed, observed, completed, queue, ordinal, expected, now>>

(* engine_lifetime.unsubscribe(), on the main thread. *)

\* The flag first: LifetimeSubscribed of main() is over ...
End ==
    /\ chain \in {"none", "subscribed"}
    /\ chain' = "ending"
    /\ UNCHANGED <<pushed, observed, completed, popped, threadVars, now>>

\* ... then the source's lifetime, whose end asks the thread to dispose of itself ...
Deafen ==
    /\ chain = "ending"
    /\ chain' = "deaf"
    /\ queue' = queue \cup {NewTask("dispose", 0, now, ordinal)}
    /\ ordinal' = ordinal + 1
    /\ UNCHANGED <<pushed, observed, completed, popped, expected, task, now>>

\* ... and disposes of the operator at once: first of its place on vent_bus ...
Leave ==
    /\ chain = "deaf"
    /\ chain' = "left"
    /\ UNCHANGED <<pushed, observed, completed, popped, threadVars, now>>

\* ... then of its worker, whose tasks the thread skips from here on ...
Silence ==
    /\ chain = "left"
    /\ chain' = "silent"
    /\ queue' = {t \in queue : t.kind = "dispose"}
    /\ UNCHANGED <<pushed, observed, completed, popped, ordinal, expected, task, now>>

\* ... and last of the thread, which starts nothing more ...
Dispose ==
    /\ chain = "silent"
    /\ chain' = "disposed"
    /\ queue' = {}
    /\ UNCHANGED <<pushed, observed, completed, popped, ordinal, expected, task, now>>

\* ... and is waited for, unless it has come to its own disposer before.
JoinTimer ==
    /\ chain = "disposed"
    /\ task \in {"idle", "over"}
    /\ chain' = "joined"
    /\ UNCHANGED <<pushed, observed, completed, popped, threadVars, now>>

Ends == End \/ Deafen \/ Leave \/ Silence \/ Dispose \/ JoinTimer

\* The disposer on the thread: the queue is dropped, the thread detached and done.
DisposeSelf(t) ==
    /\ chain \in {"deaf", "left", "silent"}
    /\ task = "idle"
    /\ t.kind = "dispose"
    /\ Due(t)
    /\ queue' = {}
    /\ task' = "over"
    /\ UNCHANGED <<windowVars, ordinal, expected, now>>

ClockAdvances ==
    /\ now < Horizon
    /\ now' = now + 1
    /\ UNCHANGED <<windowVars, threadVars>>

RunTask(t) ==
    \/ Tick(t)
    \/ PushWindow(t)
    \/ Produce(t)
    \/ Release(t)
    \/ CompleteWindow(t)
    \/ DisposeSelf(t)

TimerThread ==
    \/ Subscribe
    \/ \E t \in queue : RunTask(t)
    \/ ObserveWindow
    \/ AbandonWindow
    \/ PopWindow

TimerNext ==
    \/ TimerThread
    \/ Ends
    \/ ClockAdvances

TimerSpec == TimerInit /\ [][TimerNext]_timerVars

-----------------------------------------------------------------------------
\* The types of the window thread.
TimerTypeOK ==
    /\ chain \in Chains
    /\ pushed \in Nat
    /\ observed \in Nat
    /\ completed \in Nat
    /\ popped \in Nat
    /\ queue \in SUBSET Task
    /\ ordinal \in Nat
    /\ expected \in Nat
    /\ task \in Tasks
    /\ Created \in Nat
    /\ now \in Nat

\* From its first window until its subscription ends the bus always has one that is
\* open and that it observes: an event that finds the chain has somewhere to go
\* (create_window of the next period runs before release_window of this one).
\* Afterwards the thread still opens windows nobody observes and ends the last
\* one somebody did.
WindowsCovered ==
    Listening /\ observed > 0 => completed < observed

\* on_completed reaches the window the task was made for, although the code
\* only says subj[0]: windows end in the order in which they were opened.
ReleasesTheFront ==
    \A t \in queue : Runs(t, "complete") => t.win = completed

\* However late the thread runs, the periodic tick and the expected end of the
\* windows keep the same distance: creation and release never drift apart.
NoDrift ==
    \A t \in queue :
        t.kind = "tick" => t.at - expected = t.win - Created

\* After unsubscribe() has returned to the signal handler, the thread no longer
\* touches the list of windows.
JoinedIsFinal ==
    [][chain = "joined" => UNCHANGED windowVars]_timerVars

\* The chain as the users of the windows know it: the worker's end, the thread's own
\* disposer and the dropped queue all look the same to them.
Phase ==
    CASE chain = "none" \/ (chain = "ending" /\ ordinal = 0) -> "none"
      [] Listening /\ ordinal > 0 -> "subscribed"
      [] chain \in {"deaf", "left"} /\ task # "over" -> "deaf"
      [] chain = "joined" -> "joined"
      [] OTHER -> "stopped"

\* The window list as its users know it.
Stream == INSTANCE WindowStream WITH chain <- Phase

\* The thread and its queue implement the stream of windows.
ImplementsWindowStream == Stream!Spec

-----------------------------------------------------------------------------
\* The steps of unsubscribe() once it was called.
Disposal == Deafen \/ Leave \/ Silence \/ Dispose \/ JoinTimer

\* The operating system runs the threads and the clock goes on; nothing says that
\* anyone ever calls unsubscribe().
TimerFairness ==
    /\ WF_timerVars(TimerThread)
    /\ WF_timerVars(Disposal)
    /\ WF_timerVars(ClockAdvances)

FairTimerSpec == TimerSpec /\ TimerFairness

\* Every window whose period ends before the horizon is popped from the list
\* unless the chain is ended first: the list does not grow for ever.
WindowsArePopped ==
    \A n \in 1 .. Horizon :
        (chain = "subscribed" /\ expected - Created + n <= Horizon)
            ~> (popped >= n \/ chain # "subscribed")

\* unsubscribe() returns: the thread it waits for always ends.
UnsubscribeReturns ==
    chain = "ending" ~> chain = "joined"

=============================================================================
