----------------------------- MODULE RxScheduler -----------------------------
(* One worker of one of RxCpp's schedulers. The actions it runs do what they  *)
(* like: schedule others, unsubscribe lifetimes, ask to be run again, throw,  *)
(* drive the scheduler itself. Any other thread may unsubscribe a lifetime    *)
(* between two of their steps; on the run loop and the event loop it may      *)
(* schedule as well.                                                          *)
(* The loop of the event loop's thread is new_worker's.                       *)
EXTENDS Naturals, Sequences, FiniteSets, SequencesExt

CONSTANTS Tasks,       \* the schedulables
          Own,         \* those that have a lifetime of their own,
          Worker,      \* the lifetime that the others share with their worker
          MaxRequests, \* how many runs are asked for in all
          MaxNow,      \* the time after which nothing is scheduled
          Forever      \* later than any time

ASSUME SchedulerAssumption ==
  /\ Own \subseteq Tasks /\ Worker \notin Tasks
  /\ {MaxRequests, MaxNow, Forever} \subseteq Nat /\ MaxNow + MaxRequests < Forever

VARIABLES kind,    \* which scheduler
          reqs,    \* the runs asked for, in order: [t, life, at]
          order,   \* those that began, in order
          queue,   \* those that wait, in the order they will be taken
          frames,  \* the stack of loops and of items
          allowed, \* recursion::isallowed of the queue
          enabled, \* virtual_time_base::isenabled
          clock,
          dropped, \* the lifetimes that are unsubscribed
          swept    \* the runs that were in a queue when it was destroyed
vars == <<kind, reqs, order, queue, frames, allowed, enabled, clock, dropped, swept>>

Threaded == kind \in {"run_loop", "event_loop"}
Sleeping == kind \in {"immediate", "current_thread"}
Virtual == kind = "virtual_time"

\* The lifetime that is asked for before an item is run. An event loop schedules the
\* action alone, under its worker's: what becomes of the item's own is not asked there.
Life(t) == IF kind = "event_loop" \/ t \notin Own THEN Worker ELSE t
Alive(life) == life \notin dropped

\* direct: the item is run inside the call that scheduled it. drove: it has stopped
\* the virtual time it runs in, or dispatched its run loop.
Item(i, direct) ==
  [r |-> i, runs |-> FALSE, again |-> FALSE, drove |-> FALSE, direct |-> direct]
Loop(until) == [r |-> 0, until |-> until]
InLoop == frames # <<>> /\ Last(frames).r = 0
InItem == frames # <<>> /\ Last(frames).r # 0
Running == InItem /\ Last(frames).runs
Top(f) == [frames EXCEPT ![Len(frames)] = f]

\* The lifetimes of their own that may still hang on their worker's. The destructor of
\* any copy of a schedulable cuts that link, so it does not outlive a push().
Linked == {reqs[f.r].t : f \in {g \in ToSet(frames) : g.r # 0 /\ g.direct}} \cap Own

\* Who may call the scheduler: another thread, or the one that runs its items,
\* inside an item or outside of all loops.
MayCall == Threaded \/ frames = <<>> \/ Running

\* isrequested of the recursion that the item at the top was given: its own, or that
\* of the run loop, which all items it runs share.
Again(b) ==
  [k \in DOMAIN frames |->
     IF frames[k].r # 0 /\ (k = Len(frames) \/ kind = "run_loop")
     THEN [frames[k] EXCEPT !.again = b] ELSE frames[k]]

Awaited == Cardinality({k \in DOMAIN frames : frames[k].r # 0 /\ frames[k].again})
Room == Len(reqs) + Awaited < MaxRequests

Request(t, at) == [t |-> t, life |-> Life(t), at |-> at]
Asks(t, at) == reqs' = Append(reqs, Request(t, at))

\* Variant: before the items that are due at the same time.
PushFirst(i, at) ==
  InsertAt(queue, 1 + Cardinality({j \in DOMAIN queue : reqs[queue[j]].at < at}), i)

\* schedulable_queue::push: after everything that is due no later.
Push(i, at) ==
  InsertAt(queue, 1 + Cardinality({j \in DOMAIN queue : reqs[queue[j]].at <= at}), i)

\* When an item scheduled to run d from now is due: a test clock's items never at
\* the time it is.
Due(d) == IF Virtual /\ d = 0 THEN clock + 1 ELSE clock + d

Init ==
  /\ kind \in {"immediate", "current_thread", "run_loop", "event_loop", "virtual_time"}
  /\ reqs = <<>> /\ order = <<>> /\ queue = <<>> /\ frames = <<>>
  /\ allowed = TRUE /\ enabled = FALSE /\ clock = 0
  /\ dropped = {} /\ swept = {}

\* immediate_worker::schedule: the item runs inside the call.
ScheduleImmediate(t, d) ==
  /\ kind = "immediate"
  /\ frames' = Append(frames, Item(Len(reqs) + 1, TRUE))
  /\ Asks(t, clock + d)
  /\ UNCHANGED <<queue, allowed>>

\* current_worker::schedule on a thread whose queue nobody owns: the item runs
\* inside the call, and then everything that it has scheduled.
TakeOwnership(t, d) ==
  /\ kind = "current_thread" /\ frames = <<>> /\ Alive(Life(t))
  /\ frames' = <<Loop(Forever), Item(Len(reqs) + 1, TRUE)>>
  /\ allowed' = TRUE
  /\ Asks(t, clock + d)
  /\ UNCHANGED queue

\* Onto the queue; as long as something waits there, no action recurses in place.
Queued(t, at) ==
  /\ queue' = Push(Len(reqs) + 1, at)
  /\ Asks(t, at)
  /\ allowed' = FALSE
  /\ UNCHANGED frames

\* derecurser::schedule, for the thread that owns its queue.
EnqueueOwned(t, d) ==
  /\ kind = "current_thread" /\ frames # <<>> /\ Alive(Life(t))
  /\ Queued(t, clock + d)

\* run_loop_worker::schedule and, through loop_worker, new_worker::schedule.
EnqueueThreaded(t, d) ==
  /\ Threaded /\ Alive(Life(t))
  /\ Queued(t, clock + d)

\* virtual_time::schedule_absolute wraps the action and asks nothing of it; the
\* wrapper's lifetime ends only on a worker that has ended before.
EnqueueVirtual(t, d) ==
  /\ Virtual
  /\ Queued(t, Due(d))

\* An item with a lifetime of its own is added to its worker, on which its lifetime
\* ends if the worker's has; nothing comes of the call then.
Schedule(t, d) ==
  /\ MayCall /\ Room /\ clock + d <= MaxNow
  /\ IF Alive(Worker)
     THEN /\ \/ ScheduleImmediate(t, d)
             \/ TakeOwnership(t, d)
             \/ EnqueueOwned(t, d)
             \/ EnqueueThreaded(t, d)
             \/ EnqueueVirtual(t, d)
          /\ UNCHANGED dropped
     ELSE /\ dropped' = dropped \cup ({t} \cap Own)
          /\ UNCHANGED <<reqs, queue, frames, allowed>>
  /\ UNCHANGED <<kind, order, enabled, clock, swept>>

\* schedulable::operator(): an immediate item and the first one of a thread have
\* slept until their time; one that has been unsubscribed meanwhile does not run.
Begin ==
  LET i == Last(frames).r IN
  /\ InItem /\ ~Running
  /\ Sleeping => reqs[i].at <= clock
  /\ IF Alive(reqs[i].life)
     THEN frames' = [Again(FALSE) EXCEPT ![Len(frames)].runs = TRUE] /\ order' = Append(order, i)
     ELSE frames' = Front(frames) /\ order' = order
  /\ UNCHANGED <<kind, reqs, queue, allowed, enabled, clock, dropped, swept>>

\* Variant: a subscription that ended during the action is not noticed.
RestartsRegardless(f) == f.again

\* action_tailrecurser: run once more without leaving the action ...
Restarts(f) == f.again /\ Alive(reqs[f.r].life)

\* ... if the recursion of the item allows it. That of the queue does while the
\* queue is empty, that of virtual time never does.
Allows == kind = "immediate" \/ (~Virtual /\ allowed)

\* ... or else through schedulable::schedule(), which asks the worker again.
Reschedule(t) ==
  IF Alive(Worker)
  THEN /\ Asks(t, Due(0))
       /\ queue' = Push(Len(reqs) + 1, Due(0))
       /\ allowed' = FALSE
       /\ UNCHANGED dropped
  ELSE /\ dropped' = dropped \cup ({t} \cap Own)
       /\ UNCHANGED <<reqs, queue, allowed>>

Return ==
  LET f == Last(frames)
      n == Len(reqs) + 1
  IN
  /\ Running
  /\ IF Restarts(f) /\ Allows
     THEN /\ Asks(reqs[f.r].t, clock)
          /\ order' = Append(order, n)
          /\ frames' = [Again(FALSE) EXCEPT ![Len(frames)].r = n]
          /\ UNCHANGED <<queue, allowed, dropped>>
     ELSE /\ frames' = Front(frames)
          /\ IF Restarts(f) THEN Reschedule(reqs[f.r].t)
                            ELSE UNCHANGED <<reqs, queue, allowed, dropped>>
          /\ UNCHANGED order
  /\ UNCHANGED <<kind, enabled, clock, swept>>

\* The action asks to be run again.
Recurse ==
  /\ Running /\ ~Last(frames).again /\ clock < MaxNow
  /\ frames' = Again(TRUE)
  /\ Len(reqs) + Awaited' <= MaxRequests
  /\ UNCHANGED <<kind, reqs, order, queue, allowed, enabled, clock, dropped, swept>>

\* The worker's end takes along what still hangs on it.
Unsubscribe(life) ==
  /\ Alive(life)
  /\ \E linked \in SUBSET (IF life = Worker THEN Linked ELSE {}) :
        dropped' = dropped \cup {life} \cup linked
  /\ UNCHANGED <<kind, reqs, order, queue, frames, allowed, enabled, clock, swept>>

\* An exception leaves the action and every loop: the detacher of each action
\* unsubscribes it, the thread's queue is destroyed, isenabled stays as it is.
\* Out of the event loop's thread it ends the process.
Throw ==
  /\ Running /\ kind # "event_loop"
  /\ dropped' = dropped \cup {reqs[f.r].life : f \in {g \in ToSet(frames) : g.r # 0}}
  /\ frames' = <<>>
  /\ IF kind = "current_thread"
     THEN queue' = <<>> /\ swept' = swept \cup ToSet(queue)
     ELSE UNCHANGED <<queue, swept>>
  /\ UNCHANGED <<kind, reqs, order, allowed, enabled, clock>>

Taken(i) == frames' = Append(frames, Item(i, FALSE))

\* Variant: the queue is left to the next caller.
DrainOnce ==
  /\ kind = "current_thread" /\ InLoop
  /\ frames' = <<>> /\ queue' = <<>>
  /\ UNCHANGED <<kind, reqs, order, allowed, enabled, clock, dropped, swept>>

\* The loop of current_worker::schedule, until the queue is empty and destroyed.
Drain ==
  /\ kind = "current_thread" /\ InLoop
  /\ IF queue = <<>>
     THEN frames' = <<>> /\ UNCHANGED <<queue, allowed>>
     ELSE /\ Taken(Head(queue))
          /\ queue' = Tail(queue)
          /\ allowed' = (allowed \/ Tail(queue) = <<>>)
  /\ UNCHANGED <<kind, reqs, order, enabled, clock, dropped, swept>>

\* Variant: an item that has been unsubscribed is left at the top.
DispatchStuck ==
  /\ Threaded /\ frames = <<>> /\ queue # <<>>
  /\ Alive(reqs[Head(queue)].life) /\ reqs[Head(queue)].at <= clock
  /\ Taken(Head(queue)) /\ allowed' = (Tail(queue) = <<>>)
  /\ queue' = Tail(queue)
  /\ UNCHANGED <<kind, reqs, order, enabled, clock, dropped, swept>>

\* run_loop::dispatch and the loop of new_worker, under the lock; dispatch() may also
\* be called by an item that dispatch() runs.
Dispatch ==
  /\ Threaded /\ queue # <<>>
  /\ frames = <<>> \/ (kind = "run_loop" /\ Running)
  /\ LET next == reqs[Head(queue)] IN
     \/ ~Alive(next.life) /\ UNCHANGED <<frames, allowed>>
     \/ /\ Alive(next.life) /\ next.at <= clock
        /\ frames' = Append(IF Running THEN Top([Last(frames) EXCEPT !.drove = TRUE]) ELSE frames,
                            Item(Head(queue), FALSE))
        /\ allowed' = (Tail(queue) = <<>>)
  /\ queue' = Tail(queue)
  /\ UNCHANGED <<kind, reqs, order, enabled, clock, dropped, swept>>

\* ~run_loop
Destroy ==
  /\ kind = "run_loop" /\ frames = <<>>
  /\ dropped' = dropped \cup {Worker}
  /\ queue' = <<>> /\ swept' = swept \cup ToSet(queue)
  /\ UNCHANGED <<kind, reqs, order, frames, allowed, enabled, clock>>

\* Variant: a scheduler that is at work is started again.
StartAgain ==
  /\ Virtual /\ MayCall
  /\ enabled' = TRUE
  /\ frames' = Append(frames, Loop(Forever))
  /\ UNCHANGED <<kind, reqs, order, queue, allowed, clock, dropped, swept>>

\* start() does nothing while isenabled; advance_to() would end the process.
Start ==
  /\ Virtual /\ MayCall /\ ~enabled
  /\ enabled' = TRUE
  /\ frames' = Append(frames, Loop(Forever))
  /\ UNCHANGED <<kind, reqs, order, queue, allowed, clock, dropped, swept>>

\* advance_to(until), and advance_by(until - clock).
AdvanceTo(until) ==
  /\ Virtual /\ MayCall /\ ~enabled /\ clock < until
  /\ enabled' = TRUE
  /\ frames' = Append(frames, Loop(until))
  /\ UNCHANGED <<kind, reqs, order, queue, allowed, clock, dropped, swept>>

Stop ==
  /\ Virtual /\ MayCall /\ enabled
  /\ enabled' = FALSE
  /\ frames' = IF Running THEN Top([Last(frames) EXCEPT !.drove = TRUE]) ELSE frames
  /\ UNCHANGED <<kind, reqs, order, queue, allowed, clock, dropped, swept>>

Sleep(d) ==
  /\ Virtual /\ MayCall /\ clock + d <= MaxNow
  /\ clock' = clock + d
  /\ UNCHANGED <<kind, reqs, order, queue, frames, allowed, enabled, dropped, swept>>

\* Variant: what is due at the very end of an advance is left.
InReachShort(until) == reqs[Head(queue)].at < until
InReach(until) == until = Forever \/ reqs[Head(queue)].at <= until

Reached(i) == IF reqs[i].at > clock THEN reqs[i].at ELSE clock

\* One turn of the loop of start() or advance_to(). What is in the queue has a
\* subscription of its own, so that the clock follows an unsubscribed item too.
Turn ==
  LET until == Last(frames).until IN
  /\ Virtual /\ InLoop
  /\ IF enabled /\ queue # <<>> /\ InReach(until)
     THEN /\ Taken(Head(queue))
          /\ queue' = Tail(queue)
          /\ clock' = Reached(Head(queue))
          /\ UNCHANGED enabled
     ELSE /\ frames' = Front(frames)
          /\ enabled' = FALSE
          /\ clock' = IF until = Forever THEN clock ELSE until
          /\ UNCHANGED queue
  /\ UNCHANGED <<kind, reqs, order, allowed, dropped, swept>>

Tick ==
  /\ ~Virtual /\ clock < MaxNow
  /\ clock' = clock + 1
  /\ UNCHANGED <<kind, reqs, order, queue, frames, allowed, enabled, dropped, swept>>

Next ==
  \/ \E t \in Tasks, d \in 0..1 : Schedule(t, d)
  \/ \E life \in Own \cup {Worker} : Unsubscribe(life)
  \/ Begin \/ Recurse \/ Return \/ Throw
  \/ Drain \/ Dispatch \/ Destroy
  \/ Start \/ Stop \/ Sleep(1) \/ Turn
  \/ \E until \in 1..MaxNow : AdvanceTo(until)
  \/ Tick

(* An action comes to its end, a thread that sleeps or waits is woken, and    *)
(* the owner of a run loop goes on dispatching.                               *)
Fairness ==
  /\ WF_vars(Begin) /\ WF_vars(Return) /\ WF_vars(Drain) /\ WF_vars(Tick)
  /\ WF_vars(frames = <<>> /\ Dispatch)

Spec == Init /\ [][Next]_vars /\ Fairness
-----------------------------------------------------------------------------
\* The types, and what the recursion of a queue is for: no action runs again in
\* place while something waits.
SchedulerTypeOK ==
  /\ reqs \in Seq([t : Tasks, life : Own \cup {Worker}, at : 0..MaxNow + MaxRequests])
  /\ ToSet(order) \cup ToSet(queue) \subseteq DOMAIN reqs
  /\ \A k \in DOMAIN frames : frames[k].r \in 0..Len(reqs)
  /\ {allowed, enabled} \subseteq BOOLEAN /\ swept \subseteq DOMAIN reqs
  /\ allowed => queue = <<>>
  /\ clock \in 0..MaxNow + MaxRequests /\ dropped \subseteq Own \cup {Worker}

\* Of two runs that both happen, the one that was asked for first and is due no
\* later begins first: what rx-scheduler.hpp:410 promises of a worker, for the
\* runs that an action asks for by recursion as well, in place or by the queue.
InOrder ==
  \A j, k \in DOMAIN order :
    j < k => order[j] < order[k] \/ reqs[order[j]].at < reqs[order[k]].at

\* Items do not overlap, with two exceptions: immediate ones nest, and so do those
\* that an item brings about when it drives its scheduler itself, by dispatch() of the
\* run loop it runs in or by stopping its virtual time and starting it again. An
\* event loop and a thread's queue have no such item.
OneAtATime ==
  kind = "immediate" \/
  \A j, k \in DOMAIN frames :
    j < k /\ frames[j].r # 0 /\ frames[k].r # 0 =>
      kind \in {"run_loop", "virtual_time"} /\ frames[j].drove

\* A run that was asked for happens once: it waits in the queue or in a call, or it
\* has begun, or it went with its queue when an exception left the thread or ~run_loop
\* destroyed it; or else the lifetime it was scheduled under has ended, which for an
\* item with a lifetime of its own the end of its worker does not do.
NothingLost ==
  \A i \in DOMAIN reqs :
    LET begun   == Cardinality({j \in DOMAIN order : order[j] = i})
        waiting == Cardinality({j \in DOMAIN queue : queue[j] = i})
                   + Cardinality({k \in DOMAIN frames : frames[k].r = i /\ ~frames[k].runs})
        gone    == IF i \in swept THEN 1 ELSE 0
    IN begun + waiting + gone = 1 \/ (begun + waiting + gone = 0 /\ ~Alive(reqs[i].life))

Begun == {order'[j] : j \in DOMAIN order' \ DOMAIN order}

\* Nothing begins, for the first time or again, before its time or once the lifetime
\* it was scheduled under has ended: not in the place of an action that has unsubscribed
\* itself, and not when another thread has unsubscribed it after it was taken. That
\* lifetime is the worker's, or the item's own in place of it; on an event loop the
\* item's own is not asked.
BeginsAliveAndDue ==
  [][\A i \in Begun :
       /\ Alive(reqs'[i].life) /\ reqs'[i].at <= clock
       /\ kind = "event_loop" \/ Alive(reqs'[i].t)]_vars

\* What rx-scheduler.hpp:408 says, that the end of a worker unsubscribes all items
\* scheduled to it: none that waits in a loop of another thread begins after it.
WorkerEndsAll == [][Begun # {} /\ Threaded => Alive(Worker)]_vars

\* What rx-scheduler.hpp:279 says of a schedulable, that its own end ends its runs.
OwnEndsAll == [][\A i \in Begun : Alive(reqs'[i].t)]_vars

\* What rx-scheduler.hpp:409 says, that the items of a worker are run one at a time, of
\* a run loop.
NeverNested ==
  kind = "run_loop" => Len(frames) <= 1

\* The virtual clock goes forward only, also when an item that was left behind by
\* stop() is run late; but the end of an advance sets it to the time it was given,
\* where the items of that advance may have slept past.
ClockForward ==
  [][clock' >= clock \/ (InLoop /\ Last(frames).until # Forever /\ Len(frames') < Len(frames))]_vars

\* An advance that nobody stopped leaves nothing behind that was due.
Advanced ==
  [][Virtual /\ InLoop /\ Last(frames).until # Forever /\ Len(frames') < Len(frames) /\ enabled
       => \A i \in ToSet(queue) : reqs[i].at > clock']_vars

\* A run that was asked for happens, unless the lifetime it was scheduled under ends or
\* its queue is destroyed; virtual time waits for the one who advances it.
Served ==
  \A i \in 1..MaxRequests :
    i \in DOMAIN reqs /\ ~Virtual ~>
      i \in ToSet(order) \/ i \in swept \/ (i \in DOMAIN reqs /\ ~Alive(reqs[i].life))
=============================================================================
