--------------------------- MODULE VenomBus_proofs --------------------------
(***************************************************************************)
(* Proofs about the event engine, from the bottom up.  First the window     *)
(* thread of WindowTimer: its types, the order in which windows end, the    *)
(* window that is always open, and that it implements WindowStream, for     *)
(* every horizon and however late the thread runs.  Then VenomBus: its      *)
(* types, the telemetry counters, what becomes of an emitted event, and     *)
(* that it implements EventLedger, for any number of threads, any queue     *)
(* limit and any horizon.  Then the service of ServiceMain, which is a bus  *)
(* with its window thread to which nothing else is done: what is proved of  *)
(* the bus holds in it, and after socketProbe.stop() nothing is started any *)
(* more.                                                                    *)
(***************************************************************************)
EXTENDS ServiceMain, FiniteSetTheorems, TLAPS

-----------------------------------------------------------------------------
(* The inductive invariant.  The tasks that end a window go through three    *)
(* stages; a window that is ahead of another stays ahead of it.              *)

Ending == {"produce", "release", "complete"}

\* s is nearer to the end of its window than t to the end of its own.
Ahead(s, t) ==
    \/ s.kind \in {"release", "complete"} /\ t.kind = "produce"
    \/ s.kind = "complete" /\ t.kind = "release"
    \/ s.kind = t.kind /\ Precedes(s, t)

\* The operator was built: a window was pushed or a task of the windows is pending.
Begun == pushed > 0 \/ \E u \in queue : u.kind # "dispose"

\* What the lifetimes of the chain leave of the queue and of the thread.
ChainInv ==
    /\ ordinal = 0 => /\ pushed = 0 /\ observed = 0 /\ completed = 0 /\ popped = 0
                      /\ task = "idle" /\ queue = {}
    /\ chain = "none" => ordinal = 0
    /\ chain = "subscribed" => ordinal > 0
    /\ ~ Working => \A t \in queue : t.kind = "dispose"
    /\ chain \in {"disposed", "joined"} => queue = {}
    /\ chain = "joined" => task \in {"idle", "over"}
    /\ task = "over" => queue = {} /\ chain \notin {"none", "subscribed", "ending"}

\* How far the counters of the window list may be apart.
CountersInv ==
    /\ Listening => observed = Created
    /\ task = "observe" => pushed > 0
    /\ completed = popped + (IF task = "pop" THEN 1 ELSE 0)
    /\ observed <= Created
    /\ completed <= Created

\* No two tasks share an ordinal, and what is scheduled "now" is not in the future.
OrdersInv ==
    /\ \A t \in queue : t.ord < ordinal
    /\ \A t, u \in queue : t.ord = u.ord => t = u
    /\ \A t \in queue : t.kind \in {"create", "release", "complete"} => t.at <= now
    /\ \A t \in queue : t.kind = "produce" => t.at <= expected

\* One tick is pending, in step with the windows; every window it has announced
\* was pushed or has its creation in the queue, in order.
TickInv ==
    /\ Working /\ task # "over" /\ Begun => \E t \in queue : t.kind = "tick"
    /\ \A t, u \in queue : t.kind = "tick" /\ u.kind = "tick" => t = u
    /\ \A t \in queue : t.kind = "tick" =>
          /\ t.at - expected = t.win - Created
          /\ pushed <= t.win
          /\ \A n \in Nat : pushed <= n /\ n < t.win =>
                \E c \in queue : c.kind = "create" /\ c.win = n
          /\ \A c \in queue : c.kind = "create" => pushed <= c.win /\ c.win < t.win
    /\ \A c, d \in queue :
          c.kind = "create" /\ d.kind = "create" =>
              /\ c.win < d.win => Precedes(c, d)
              /\ c.win = d.win => c = d

\* Every window that was created and is not completed has one task that will end it,
\* and these tasks keep the order of the windows.
EndingInv ==
    /\ Working /\ task # "over" =>
          \A n \in Nat : completed <= n /\ n < Created =>
              \E t \in queue : t.kind \in Ending /\ t.win = n
    /\ \A t \in queue : t.kind \in Ending => completed <= t.win /\ t.win < Created
    /\ \A t, u \in queue :
          t.kind \in Ending /\ u.kind \in Ending =>
              /\ t.win = u.win => t = u
              /\ t.win < u.win => Ahead(t, u)

\* A window ends only after its successor was pushed.
SuccessorInv ==
    /\ \A p, t \in queue : p.kind = "produce" /\ t.kind = "tick" =>
          \/ p.win + 1 < t.win
          \/ p.win + 1 = t.win /\ Precedes(t, p)
    /\ \A r \in queue : r.kind \in {"release", "complete"} =>
          \/ r.win + 1 < pushed
          \/ \E c \in queue : c.kind = "create" /\ c.win = r.win + 1 /\ Precedes(c, r)

TimerInv ==
    /\ TimerTypeOK
    /\ ChainInv
    /\ CountersInv
    /\ OrdersInv
    /\ TickInv
    /\ EndingInv
    /\ SuccessorInv
    /\ WindowsCovered

-----------------------------------------------------------------------------
(* Types. *)

\* Every state has the declared types: the bookkeeping of the thread never
\* produces anything but tasks and counters.
LEMMA TimerTypeStep == TimerTypeOK /\ [TimerNext]_timerVars => TimerTypeOK'
<1> SUFFICES ASSUME TimerTypeOK, [TimerNext]_timerVars
             PROVE  TimerTypeOK'
    OBVIOUS
<1> USE DEF TimerTypeOK, Chains, Tasks, Created
<1>1. ASSUME Subscribe PROVE TimerTypeOK'
  BY <1>1 DEF Subscribe, NewTask, Task, Kinds
<1>2. ASSUME NEW t \in queue, Tick(t) PROVE TimerTypeOK'
  <2>1. t \in Task
    OBVIOUS
  <2>2. {NewTask("create", t.win, now, ordinal), NewTask("tick", t.win + 1, t.at + 1, ordinal + 1)} \subseteq Task
    BY <2>1 DEF NewTask, Task, Kinds
  <2>3. QED
    BY <1>2, <2>2 DEF Tick, windowVars
<1>3. ASSUME NEW t \in queue, PushWindow(t) PROVE TimerTypeOK'
  BY <1>3 DEF PushWindow
<1>4. ASSUME NEW t \in queue, Produce(t) PROVE TimerTypeOK'
  <2>1. NewTask("release", t.win, now, ordinal) \in Task
    BY DEF NewTask, Task, Kinds
  <2>2. QED
    BY <1>4, <2>1 DEF Produce, Reschedule, windowVars
<1>5. ASSUME NEW t \in queue, Release(t) PROVE TimerTypeOK'
  <2>1. NewTask("complete", t.win, now, ordinal) \in Task
    BY DEF NewTask, Task, Kinds
  <2>2. QED
    BY <1>5, <2>1 DEF Release, Reschedule, windowVars
<1>6. ASSUME NEW t \in queue, CompleteWindow(t) PROVE TimerTypeOK'
  BY <1>6 DEF CompleteWindow, Runs
<1>7. ASSUME NEW t \in queue, DisposeSelf(t) PROVE TimerTypeOK'
  BY <1>7 DEF DisposeSelf, windowVars
<1>8. task = "observe" => NewTask("produce", pushed - 1, expected + 1, ordinal) \in Task
  BY DEF NewTask, Task, Kinds
<1>9. CASE ObserveWindow
  BY <1>8, <1>9 DEF ObserveWindow
<1>10. CASE AbandonWindow
  <2>1. queue' \subseteq queue \cup {NewTask("produce", pushed - 1, expected + 1, ordinal)}
        /\ ordinal' \in Nat
    BY <1>10 DEF AbandonWindow
  <2>2. QED
    BY <1>8, <1>10, <2>1 DEF AbandonWindow, windowVars
<1>11. CASE PopWindow
  BY <1>11 DEF PopWindow
<1>12. CASE Deafen
  <2>1. NewTask("dispose", 0, now, ordinal) \in Task
    BY DEF NewTask, Task, Kinds
  <2>2. QED
    BY <1>12, <2>1 DEF Deafen
<1>13. CASE End \/ Leave \/ Silence \/ Dispose \/ JoinTimer
  BY <1>13 DEF End, Leave, Silence, Dispose, JoinTimer, threadVars
<1>14. CASE ClockAdvances
  BY <1>14 DEF ClockAdvances, windowVars, threadVars
<1>15. CASE UNCHANGED timerVars
  BY <1>15 DEF timerVars, windowVars, threadVars
<1>16. QED
  BY <1>1, <1>2, <1>3, <1>4, <1>5, <1>6, <1>7, <1>9, <1>10, <1>11, <1>12, <1>13, <1>14, <1>15
     DEF TimerNext, TimerThread, RunTask, Ends

\* The window thread is well typed for every horizon.
THEOREM TimerTypeCorrect == TimerSpec => []TimerTypeOK
<1>1. TimerInit => TimerTypeOK
  BY DEF TimerInit, TimerTypeOK, Chains, Tasks, Created
<1>2. QED
  BY <1>1, TimerTypeStep, PTL DEF TimerSpec

-----------------------------------------------------------------------------
(* The invariant, one lemma per step that changes the queue or the windows.  *)

\* Nothing is pending before the chain is subscribed.
LEMMA TimerInvInit == TimerInit => TimerInv
  BY DEF TimerInit, TimerInv, TimerTypeOK, Chains, Tasks, ChainInv, CountersInv, OrdersInv,
         TickInv, EndingInv, SuccessorInv, WindowsCovered, Created, Begun, Working, Listening

\* The producer schedules the first tick.
LEMMA SubscribeInv == TimerInv /\ Subscribe => TimerInv'
<1> SUFFICES ASSUME TimerInv, Subscribe
             PROVE  TimerInv'
    OBVIOUS
<1> USE DEF TimerInv, Subscribe, NewTask
<1>1. TimerTypeOK'
  BY TimerTypeStep DEF TimerNext, TimerThread
<1>2. /\ chain' \in {"subscribed", "ending"} /\ ordinal' > 0 /\ task' = "idle"
      /\ pushed' = 0 /\ observed' = 0 /\ completed' = 0 /\ popped' = 0 /\ Created' = 0
      /\ Working' /\ Listening'
  BY DEF ChainInv, TimerTypeOK, Created, Working, Listening
<1>3. ChainInv'
  BY <1>2 DEF ChainInv
<1>4. CountersInv'
  BY <1>2 DEF CountersInv
<1>5. OrdersInv'
  BY DEF OrdersInv, TimerTypeOK
<1>6. TickInv'
  <2> DEFINE k == NewTask("tick", 0, now, ordinal)
  <2>1. /\ k.kind = "tick" /\ k.win = 0 /\ k.at = now
        /\ queue' = {k} /\ expected' = now /\ now \in Nat
        /\ pushed' = 0 /\ Created' = 0
    BY <1>2 DEF TimerTypeOK
  <2> HIDE DEF k
  <2>2. \A t \in queue' : t = k
    BY <2>1
  <2>3. QED
    BY <2>1, <2>2 DEF TickInv
<1>7. EndingInv'
  BY <1>2 DEF EndingInv, Ending
<1>8. SuccessorInv'
  BY DEF SuccessorInv
<1>9. WindowsCovered'
  BY <1>2 DEF WindowsCovered
<1>10. QED
  BY <1>1, <1>3, <1>4, <1>5, <1>6, <1>7, <1>8, <1>9

\* A tick adds the creation of its window and the next tick, both behind what is there.
LEMMA TickStepInv == ASSUME NEW t \in queue, TimerInv, Tick(t) PROVE TimerInv'
<1> USE DEF TimerInv
<1> DEFINE c == NewTask("create", t.win, now, ordinal)
           k == NewTask("tick", t.win + 1, t.at + 1, ordinal + 1)
<1>1. TimerTypeOK'
  BY TimerTypeStep DEF TimerNext, TimerThread, RunTask
<1>2. /\ t \in Task /\ t.kind = "tick" /\ Working /\ task = "idle" /\ Due(t)
      /\ queue' = (queue \ {t}) \cup {c, k}
      /\ ordinal' = ordinal + 2
      /\ chain' = chain /\ pushed' = pushed /\ observed' = observed
      /\ completed' = completed /\ popped' = popped
      /\ expected' = expected /\ task' = task /\ now' = now
      /\ Working' /\ Listening' = Listening /\ Created' = Created
  BY DEF Tick, Runs, windowVars, TimerTypeOK, Working, Listening, Created
<1>3. /\ c.kind = "create" /\ c.win = t.win /\ c.at = now /\ c.ord = ordinal
      /\ k.kind = "tick" /\ k.win = t.win + 1 /\ k.at = t.at + 1 /\ k.ord = ordinal + 1
  BY DEF NewTask
<1>4. /\ t.win \in Nat /\ t.at \in Nat /\ t.ord \in Nat
      /\ ordinal \in Nat /\ now \in Nat /\ expected \in Nat /\ pushed \in Nat
      /\ Created \in Nat /\ completed \in Nat
      /\ \A u \in queue : u.win \in Nat /\ u.at \in Nat /\ u.ord \in Nat
  BY <1>2 DEF TimerTypeOK, Task
<1> HIDE DEF c, k
<1>5. ChainInv' /\ CountersInv'
  <2>1. ordinal' > 0 /\ chain # "none" /\ chain' = chain
    BY <1>2, <1>4 DEF Working
  <2>2. ChainInv'
    BY <2>1, <1>2, <1>4 DEF ChainInv, Working
  <2>3. CountersInv'
    BY <1>2 DEF CountersInv
  <2>4. QED
    BY <2>2, <2>3
<1>6. OrdersInv'
  BY <1>2, <1>3, <1>4 DEF OrdersInv
<1>7. TickInv'
  <2>1. \E u \in queue' : u.kind = "tick"
    BY <1>2, <1>3
  <2>2. \A u \in queue' : u.kind = "tick" => u = k
    BY <1>2, <1>3 DEF TickInv
  <2>3. k.at - expected' = k.win - Created'
    BY <1>2, <1>3, <1>4 DEF TickInv
  <2>4. pushed' <= k.win
    BY <1>2, <1>3, <1>4 DEF TickInv
  <2>5. ASSUME NEW n \in Nat, pushed' <= n, n < k.win
        PROVE  \E d \in queue' : d.kind = "create" /\ d.win = n
    <3>1. CASE n = t.win
      BY <3>1, <1>2, <1>3
    <3>2. CASE n < t.win
      BY <3>2, <2>5, <1>2 DEF TickInv
    <3>3. QED
      BY <3>1, <3>2, <2>5, <1>3, <1>4
  <2>6. \A d \in queue' : d.kind = "create" => pushed' <= d.win /\ d.win < k.win
    BY <1>2, <1>3, <1>4 DEF TickInv
  <2>7. ASSUME NEW d \in queue', NEW e \in queue', d.kind = "create", e.kind = "create"
        PROVE  (d.win < e.win => Precedes(d, e)') /\ (d.win = e.win => d = e)
    <3>1. CASE d \in queue /\ e \in queue
      BY <2>7, <3>1 DEF TickInv, Precedes
    <3>2. CASE d = c /\ e \in queue
      BY <2>7, <3>2, <1>2, <1>3, <1>4 DEF TickInv
    <3>3. CASE d \in queue /\ e = c
      BY <2>7, <3>3, <1>2, <1>3, <1>4 DEF TickInv, OrdersInv, Precedes
    <3>4. CASE d = c /\ e = c
      BY <2>7, <3>4, <1>3, <1>4
    <3>5. QED
      BY <3>1, <3>2, <3>3, <3>4, <2>7, <1>2, <1>3
  <2>8. QED
    BY <2>1, <2>2, <2>3, <2>4, <2>5, <2>6, <2>7 DEF TickInv
<1>8. EndingInv'
  <2>1. \A u \in queue' : u.kind \in Ending => u \in queue
    BY <1>2, <1>3 DEF Ending
  <2>2. \A u \in queue : u.kind \in Ending => u \in queue'
    BY <1>2 DEF Ending
  <2>3. QED
    BY <2>1, <2>2, <1>2 DEF EndingInv, Ahead, Precedes
<1>9. SuccessorInv'
  <2>1. ASSUME NEW p \in queue', NEW u \in queue', p.kind = "produce", u.kind = "tick"
        PROVE  p.win + 1 < u.win
    <3>1. u = k /\ p \in queue
      BY <2>1, <1>2, <1>3 DEF TickInv
    <3>2. p.win + 1 <= t.win
      BY <3>1, <2>1, <1>2, <1>4 DEF SuccessorInv
    <3>3. QED
      BY <3>1, <3>2, <1>3, <1>4
  <2>2. ASSUME NEW r \in queue', r.kind \in {"release", "complete"}
        PROVE  \/ r.win + 1 < pushed'
               \/ \E d \in queue' : d.kind = "create" /\ d.win = r.win + 1 /\ Precedes(d, r)'
    <3>1. r \in queue
      BY <2>2, <1>2, <1>3
    <3>2. QED
      BY <3>1, <2>2, <1>2 DEF SuccessorInv, Precedes
  <2>3. QED
    BY <2>1, <2>2 DEF SuccessorInv
<1>10. WindowsCovered'
  BY <1>2 DEF WindowsCovered
<1>11. QED
  BY <1>1, <1>5, <1>6, <1>7, <1>8, <1>9, <1>10

\* The creation that is due is that of the window that follows the last one.
LEMMA PushWindowInv == ASSUME NEW t \in queue, TimerInv, PushWindow(t) PROVE TimerInv'
<1> USE DEF TimerInv
<1>1. TimerTypeOK'
  BY TimerTypeStep DEF TimerNext, TimerThread, RunTask
<1>2. /\ t \in Task /\ t.kind = "create" /\ Working /\ task = "idle" /\ Due(t)
      /\ queue' = queue \ {t}
      /\ pushed' = pushed + 1 /\ task' = "observe"
      /\ chain' = chain /\ observed' = observed /\ completed' = completed /\ popped' = popped
      /\ ordinal' = ordinal /\ expected' = expected /\ now' = now
      /\ Working' /\ Listening' = Listening /\ Created = pushed /\ Created' = pushed
  BY DEF PushWindow, Runs, TimerTypeOK, Working, Listening, Created
<1>3. /\ ordinal \in Nat /\ now \in Nat /\ expected \in Nat /\ pushed \in Nat
      /\ observed \in Nat /\ completed \in Nat /\ popped \in Nat
      /\ \A u \in queue : u.win \in Nat /\ u.at \in Nat /\ u.ord \in Nat
  BY DEF TimerTypeOK, Task
<1>4. PICK k \in queue : k.kind = "tick"
  BY <1>2 DEF TickInv, Begun
<1>5. \A u \in queue : u.kind = "tick" => u = k
  BY <1>4 DEF TickInv
<1>6. \A u \in queue \ {t} : Precedes(t, u)
  BY <1>2 DEF Due
\* The creation on top of the queue is that of the window that is next.
<1>7. t.win = pushed
  <2>1. pushed <= t.win /\ t.win < k.win
    BY <1>2, <1>4 DEF TickInv
  <2>2. SUFFICES ASSUME pushed < t.win PROVE FALSE
    BY <2>1, <1>3
  <2>3. PICK c \in queue : c.kind = "create" /\ c.win = pushed
    BY <2>1, <2>2, <1>3, <1>4 DEF TickInv
  <2>4. Precedes(c, t)
    BY <2>2, <2>3, <1>2 DEF TickInv
  <2>5. c # t /\ Precedes(t, c)
    BY <2>2, <2>3, <1>3, <1>6
  <2>6. QED
    BY <2>4, <2>5, <1>3 DEF Precedes
<1>8. ChainInv' /\ CountersInv'
  <2>1. chain \notin {"none", "joined", "disposed"} /\ chain' = chain /\ ordinal # 0
    BY <1>2 DEF Working, ChainInv
  <2>2. ChainInv'
    BY <2>1, <1>2 DEF ChainInv
  <2>3. CountersInv'
    BY <1>2, <1>3 DEF CountersInv
  <2>4. QED
    BY <2>2, <2>3
<1>9. OrdersInv'
  BY <1>2 DEF OrdersInv
<1>10. TickInv'
  <2>1. k \in queue'
    BY <1>2, <1>4
  <2>2. \A u \in queue' : u.kind = "tick" => u = k
    BY <1>2, <1>5
  <2>3. k.at - expected' = k.win - Created'
    BY <1>2, <1>4 DEF TickInv
  <2>4. pushed' <= k.win
    BY <1>2, <1>3, <1>4, <1>7 DEF TickInv
  <2>5. ASSUME NEW n \in Nat, pushed' <= n, n < k.win
        PROVE  \E c \in queue' : c.kind = "create" /\ c.win = n
    <3>1. PICK c \in queue : c.kind = "create" /\ c.win = n
      BY <2>5, <1>2, <1>3, <1>4 DEF TickInv
    <3>2. c # t
      BY <3>1, <2>5, <1>2, <1>3, <1>7
    <3>3. QED
      BY <3>1, <3>2, <1>2
  <2>6. ASSUME NEW c \in queue', c.kind = "create"
        PROVE  pushed' <= c.win /\ c.win < k.win
    <3>1. c \in queue /\ c # t
      BY <1>2
    <3>2. c.win # t.win /\ pushed <= c.win /\ c.win < k.win
      BY <3>1, <2>6, <1>2, <1>4 DEF TickInv
    <3>3. QED
      BY <3>1, <3>2, <1>2, <1>3, <1>7
  <2>7. ASSUME NEW d \in queue', NEW e \in queue', d.kind = "create", e.kind = "create"
        PROVE  (d.win < e.win => Precedes(d, e)') /\ (d.win = e.win => d = e)
    BY <2>7, <1>2 DEF TickInv, Precedes
  <2>8. QED
    BY <2>1, <2>2, <2>3, <2>4, <2>5, <2>6, <2>7, <1>4 DEF TickInv
<1>11. EndingInv'
  <2>1. \A u : u.kind \in Ending => (u \in queue' <=> u \in queue)
    BY <1>2 DEF Ending
  <2>2. QED
    BY <2>1, <1>2 DEF EndingInv, Ahead, Precedes
<1>12. SuccessorInv'
  <2>1. ASSUME NEW p \in queue', NEW u \in queue', p.kind = "produce", u.kind = "tick"
        PROVE  p.win + 1 < u.win \/ (p.win + 1 = u.win /\ Precedes(u, p)')
    BY <2>1, <1>2 DEF SuccessorInv, Precedes
  <2>2. ASSUME NEW r \in queue', r.kind \in {"release", "complete"}
        PROVE  \/ r.win + 1 < pushed'
               \/ \E d \in queue' : d.kind = "create" /\ d.win = r.win + 1 /\ Precedes(d, r)'
    <3>1. r \in queue /\ r.win \in Nat
      BY <1>2, <1>3
    <3>2. CASE r.win + 1 < pushed
      BY <3>1, <3>2, <1>2, <1>3
    <3>3. CASE \E d \in queue : d.kind = "create" /\ d.win = r.win + 1 /\ Precedes(d, r)
      <4>1. PICK d \in queue : d.kind = "create" /\ d.win = r.win + 1 /\ Precedes(d, r)
        BY <3>3
      <4>2. CASE d = t
        BY <4>1, <4>2, <3>1, <1>2, <1>3, <1>7
      <4>3. CASE d # t
        BY <4>1, <4>3, <1>2 DEF Precedes
      <4>4. QED
        BY <4>2, <4>3
    <3>4. QED
      BY <3>1, <3>2, <3>3, <2>2 DEF SuccessorInv
  <2>3. QED
    BY <2>1, <2>2 DEF SuccessorInv
<1>13. WindowsCovered'
  BY <1>2 DEF WindowsCovered
<1>14. QED
  BY <1>1, <1>8, <1>9, <1>10, <1>11, <1>12, <1>13

\* The end of a window is scheduled after the tick of its successor, whether or not
\* anybody was told of the window.
LEMMA CreatedInv ==
    ASSUME TimerInv, TimerTypeOK', Working, task = "observe",
           queue' = queue \cup {NewTask("produce", pushed - 1, expected + 1, ordinal)},
           ordinal' = ordinal + 1, expected' = expected + 1, task' = "idle",
           UNCHANGED <<chain, pushed, completed, popped, now>>,
           observed' = IF Listening THEN observed + 1 ELSE observed
    PROVE  TimerInv'
<1> USE DEF TimerInv
<1> DEFINE p == NewTask("produce", pushed - 1, expected + 1, ordinal)
<1>1. TimerTypeOK'
  OBVIOUS
<1>2. /\ queue' = queue \cup {p}
      /\ expected' = expected + 1 /\ ordinal' = ordinal + 1
      /\ task' = "idle" /\ chain' = chain /\ pushed' = pushed
      /\ completed' = completed /\ popped' = popped /\ now' = now
      /\ Working' /\ Listening' = Listening
      /\ Created = pushed - 1 /\ Created' = Created + 1
  BY DEF Working, Listening, Created, TimerTypeOK
<1>3. p.kind = "produce" /\ p.win = Created /\ p.at = expected + 1 /\ p.ord = ordinal
  BY <1>2 DEF NewTask
<1>4. /\ ordinal \in Nat /\ now \in Nat /\ expected \in Nat /\ pushed \in Nat
      /\ observed \in Nat /\ completed \in Nat /\ popped \in Nat /\ Created \in Nat
      /\ \A u \in queue : u.win \in Nat /\ u.at \in Nat /\ u.ord \in Nat
  BY DEF TimerTypeOK, Task
<1> HIDE DEF p
<1>5. pushed = Created + 1
  BY <1>2, <1>4
<1>6. ChainInv' /\ CountersInv'
  <2>1. ChainInv'
    BY <1>2, <1>4 DEF ChainInv, Working
  <2>2. CountersInv'
    BY <1>2, <1>4 DEF CountersInv
  <2>3. QED
    BY <2>1, <2>2
<1>7. OrdersInv'
  BY <1>2, <1>3, <1>4 DEF OrdersInv
<1>8. TickInv'
  <2>1. \A u : u.kind \in {"tick", "create"} => (u \in queue' <=> u \in queue)
    BY <1>2, <1>3
  <2>2. \A u \in queue : u.kind = "tick" => u.at - expected' = u.win - Created'
    BY <1>2, <1>4 DEF TickInv
  <2>3. \E u \in queue' : u.kind = "tick"
    BY <2>1, <1>2, <1>4, <1>5 DEF TickInv, Begun
  <2>4. QED
    BY <2>1, <2>2, <2>3, <1>2 DEF TickInv, Precedes
<1>9. EndingInv'
  <2>1. ASSUME NEW n \in Nat, completed' <= n, n < Created'
        PROVE  \E u \in queue' : u.kind \in Ending /\ u.win = n
    <3>1. CASE n = Created
      BY <3>1, <1>2, <1>3 DEF Ending
    <3>2. CASE n < Created
      BY <3>2, <2>1, <1>2 DEF EndingInv
    <3>3. QED
      BY <3>1, <3>2, <2>1, <1>2, <1>4
  <2>2. ASSUME NEW u \in queue', u.kind \in Ending
        PROVE  completed' <= u.win /\ u.win < Created'
    BY <2>2, <1>2, <1>3, <1>4 DEF EndingInv, CountersInv
  <2>3. ASSUME NEW u \in queue', NEW v \in queue', u.kind \in Ending, v.kind \in Ending
        PROVE  (u.win = v.win => u = v) /\ (u.win < v.win => Ahead(u, v)')
    <3>1. CASE u \in queue /\ v \in queue
      BY <2>3, <3>1 DEF EndingInv, Ahead, Precedes
    <3>2. CASE u \in queue /\ v = p
      <4>1. u.win < v.win
        BY <2>3, <3>2, <1>3 DEF EndingInv
      <4>2. u.kind = "produce" => u.at <= expected
        BY <3>2 DEF OrdersInv
      <4>3. Ahead(u, v)'
        BY <2>3, <3>2, <4>2, <1>3, <1>4 DEF Ahead, Precedes, Ending
      <4>4. QED
        BY <3>2, <4>1, <4>3, <1>3, <1>4
    <3>3. CASE u = p /\ v \in queue
      BY <2>3, <3>3, <1>3, <1>4 DEF EndingInv
    <3>4. CASE u = p /\ v = p
      BY <3>4, <1>3, <1>4
    <3>5. QED
      BY <3>1, <3>2, <3>3, <3>4, <1>2
  <2>4. QED
    BY <2>1, <2>2, <2>3 DEF EndingInv
<1>10. SuccessorInv'
  <2>1. ASSUME NEW q \in queue', NEW k \in queue', q.kind = "produce", k.kind = "tick"
        PROVE  q.win + 1 < k.win \/ (q.win + 1 = k.win /\ Precedes(k, q)')
    <3>1. k \in queue
      BY <2>1, <1>2, <1>3
    <3>2. CASE q \in queue
      BY <3>1, <3>2, <2>1 DEF SuccessorInv, Precedes
    <3>3. CASE q = p
      <4>1. pushed <= k.win /\ k.at - expected = k.win - Created /\ k.ord < ordinal
        BY <3>1, <2>1 DEF TickInv, OrdersInv
      <4>2. QED
        BY <4>1, <3>1, <3>3, <1>3, <1>4, <1>5 DEF Precedes
    <3>4. QED
      BY <3>2, <3>3, <1>2
  <2>2. \A u : u.kind \in {"create", "release", "complete"} => (u \in queue' <=> u \in queue)
    BY <1>2, <1>3
  <2>3. QED
    BY <2>1, <2>2, <1>2 DEF SuccessorInv, Precedes
<1>11. WindowsCovered'
  BY <1>2, <1>4 DEF WindowsCovered, CountersInv
<1>12. QED
  BY <1>1, <1>6, <1>7, <1>8, <1>9, <1>10, <1>11

\* A window that is observed, and one that is not.
LEMMA SecondHalfInv == TimerInv /\ (ObserveWindow \/ AbandonWindow) => TimerInv'
<1> SUFFICES ASSUME TimerInv, ObserveWindow \/ AbandonWindow
             PROVE  TimerInv'
    OBVIOUS
<1>1. TimerTypeOK'
  BY TimerTypeStep DEF TimerInv, TimerNext, TimerThread
<1>2. CASE ObserveWindow
  BY <1>1, <1>2, CreatedInv DEF ObserveWindow, Working, Listening
<1>3. CASE AbandonWindow /\ Working
  BY <1>1, <1>3, CreatedInv DEF AbandonWindow, windowVars
<1>4. CASE AbandonWindow /\ ~ Working
  <2>1. /\ queue' = queue /\ ordinal' = ordinal /\ task' = "idle" /\ now' = now
        /\ chain' = chain /\ pushed' = pushed /\ observed' = observed
        /\ completed' = completed /\ popped' = popped
        /\ expected' = expected + 1 /\ task = "observe"
        /\ ~ Working /\ ~ Working' /\ ~ Listening /\ ~ Listening'
        /\ Created = pushed - 1 /\ Created' = pushed
        /\ \A t \in queue : t.kind = "dispose"
    BY <1>4 DEF AbandonWindow, windowVars, Working, Listening, Created, TimerInv, ChainInv
  <2>2. ChainInv'
    BY <2>1 DEF TimerInv, ChainInv
  <2>3. CountersInv'
    BY <2>1 DEF TimerInv, CountersInv, TimerTypeOK
  <2>4. OrdersInv' /\ TickInv' /\ EndingInv' /\ SuccessorInv' /\ WindowsCovered'
    BY <2>1 DEF TimerInv, OrdersInv, TickInv, EndingInv, Ending, SuccessorInv, WindowsCovered
  <2>5. QED
    BY <1>1, <2>2, <2>3, <2>4 DEF TimerInv
<1>5. QED
  BY <1>2, <1>3, <1>4

\* At its due time the end of a window queues up behind the creation of its successor.
LEMMA ProduceInv == ASSUME NEW t \in queue, TimerInv, Produce(t) PROVE TimerInv'
<1> USE DEF TimerInv
<1> DEFINE r == NewTask("release", t.win, now, ordinal)
<1>1. TimerTypeOK'
  BY TimerTypeStep DEF TimerNext, TimerThread, RunTask
<1>2. /\ t.kind = "produce" /\ Working /\ task = "idle" /\ Due(t)
      /\ queue' = (queue \ {t}) \cup {r}
      /\ ordinal' = ordinal + 1
      /\ chain' = chain /\ pushed' = pushed /\ observed' = observed
      /\ completed' = completed /\ popped' = popped
      /\ expected' = expected /\ task' = task /\ now' = now
      /\ Working' /\ Listening' = Listening /\ Created' = Created
  BY DEF Produce, Reschedule, Runs, windowVars, Working, Listening, Created
<1>3. r.kind = "release" /\ r.win = t.win /\ r.at = now /\ r.ord = ordinal
  BY DEF NewTask
<1>4. /\ ordinal \in Nat /\ now \in Nat /\ expected \in Nat /\ pushed \in Nat
      /\ Created \in Nat /\ completed \in Nat /\ popped \in Nat
      /\ \A u \in queue : u.win \in Nat /\ u.at \in Nat /\ u.ord \in Nat
  BY DEF TimerTypeOK, Task
<1> HIDE DEF r
<1>5. \A u \in queue \ {t} : Precedes(t, u)
  BY <1>2 DEF Due
<1>6. ChainInv' /\ CountersInv'
  <2>1. chain \notin {"none", "joined", "disposed"} /\ chain' = chain /\ ordinal' # 0
    BY <1>2, <1>4 DEF Working, ChainInv
  <2>2. ChainInv'
    BY <2>1, <1>2, <1>4 DEF ChainInv
  <2>3. CountersInv'
    BY <1>2 DEF CountersInv
  <2>4. QED
    BY <2>2, <2>3
<1>7. OrdersInv'
  BY <1>2, <1>3, <1>4 DEF OrdersInv
<1>8. \A u : u.kind \in {"tick", "create"} => (u \in queue' <=> u \in queue)
  BY <1>2, <1>3
<1>9. TickInv'
  <2>1. \E u \in queue' : u.kind = "tick"
    BY <1>8, <1>2 DEF TickInv, Begun
  <2>2. QED
    BY <1>8, <1>2, <2>1 DEF TickInv, Precedes
<1>10. EndingInv'
  <2>1. ASSUME NEW n \in Nat, completed' <= n, n < Created'
        PROVE  \E u \in queue' : u.kind \in Ending /\ u.win = n
    <3>1. PICK u \in queue : u.kind \in Ending /\ u.win = n
      BY <2>1, <1>2 DEF EndingInv
    <3>2. CASE u = t
      BY <3>1, <3>2, <1>2, <1>3 DEF Ending
    <3>3. CASE u # t
      BY <3>1, <3>3, <1>2
    <3>4. QED
      BY <3>2, <3>3
  <2>2. ASSUME NEW u \in queue', u.kind \in Ending
        PROVE  completed' <= u.win /\ u.win < Created'
    BY <2>2, <1>2, <1>3 DEF EndingInv, Ending
  <2>3. ASSUME NEW u \in queue', NEW v \in queue', u.kind \in Ending, v.kind \in Ending
        PROVE  (u.win = v.win => u = v) /\ (u.win < v.win => Ahead(u, v)')
    <3>1. CASE u \in queue /\ v \in queue
      BY <2>3, <3>1 DEF EndingInv, Ahead, Precedes
    <3>2. CASE u \in queue \ {t} /\ v = r
      <4>1. u.win # t.win
        BY <2>3, <3>2, <1>2 DEF EndingInv, Ending
      <4>2. ASSUME u.win < t.win PROVE Ahead(u, v)'
        <5>1. Ahead(u, t) /\ Precedes(t, u)
          BY <4>2, <2>3, <3>2, <1>2, <1>5 DEF EndingInv, Ending
        <5>2. u.kind \in {"release", "complete"}
          BY <5>1, <3>2, <1>2, <1>4 DEF Ahead, Precedes
        <5>3. u.at <= now /\ u.ord < ordinal
          BY <5>2, <3>2 DEF OrdersInv
        <5>4. QED
          BY <5>2, <5>3, <3>2, <1>3, <1>4 DEF Ahead, Precedes
      <4>3. QED
        BY <4>1, <4>2, <3>2, <1>3
    <3>3. CASE u = r /\ v \in queue \ {t}
      <4>1. v.win # t.win
        BY <2>3, <3>3, <1>2 DEF EndingInv, Ending
      <4>2. ASSUME t.win < v.win PROVE Ahead(u, v)'
        <5>1. Ahead(t, v)
          BY <4>2, <2>3, <3>3, <1>2 DEF EndingInv, Ending
        <5>2. QED
          BY <5>1, <3>3, <1>2, <1>3 DEF Ahead
      <4>3. QED
        BY <4>1, <4>2, <3>3, <1>3
    <3>4. CASE u = r /\ v = r
      BY <3>4, <1>3, <1>4
    <3>5. QED
      BY <3>1, <3>2, <3>3, <3>4, <1>2
  <2>4. QED
    BY <2>1, <2>2, <2>3 DEF EndingInv
<1>11. SuccessorInv'
  <2>1. ASSUME NEW p \in queue', NEW k \in queue', p.kind = "produce", k.kind = "tick"
        PROVE  p.win + 1 < k.win \/ (p.win + 1 = k.win /\ Precedes(k, p)')
    <3>1. p \in queue /\ k \in queue
      BY <2>1, <1>2, <1>3
    <3>2. QED
      BY <3>1, <2>1 DEF SuccessorInv, Precedes
  \* The tick has moved past the successor of t's window: it was announced.
  <2>2. \/ t.win + 1 < pushed
        \/ \E c \in queue : c.kind = "create" /\ c.win = t.win + 1 /\ Precedes(c, r)
    <3>1. PICK k \in queue : k.kind = "tick"
      BY <1>2 DEF TickInv, Begun
    <3>2. k # t /\ Precedes(t, k)
      BY <3>1, <1>2, <1>5
    <3>3. t.win + 1 < k.win
      BY <3>1, <3>2, <1>2, <1>4 DEF SuccessorInv, Precedes
    <3>4. CASE pushed <= t.win + 1
      <4>1. PICK c \in queue : c.kind = "create" /\ c.win = t.win + 1
        BY <3>1, <3>3, <3>4, <1>4 DEF TickInv
      <4>2. c.at <= now /\ c.ord < ordinal
        BY <4>1 DEF OrdersInv
      <4>3. QED
        BY <4>1, <4>2, <1>3, <1>4 DEF Precedes
    <3>5. QED
      BY <3>4, <1>4
  <2>3. ASSUME NEW u \in queue', u.kind \in {"release", "complete"}
        PROVE  \/ u.win + 1 < pushed'
               \/ \E d \in queue' : d.kind = "create" /\ d.win = u.win + 1 /\ Precedes(d, u)'
    <3>1. CASE u = r
      BY <3>1, <2>2, <1>2, <1>3 DEF Precedes
    <3>2. CASE u \in queue
      BY <3>2, <2>3, <1>2, <1>8 DEF SuccessorInv, Precedes
    <3>3. QED
      BY <3>1, <3>2, <1>2
  <2>4. QED
    BY <2>1, <2>3 DEF SuccessorInv
<1>12. WindowsCovered'
  BY <1>2 DEF WindowsCovered
<1>13. QED
  BY <1>1, <1>6, <1>7, <1>9, <1>10, <1>11, <1>12

\* The second half of the end queues up behind it too.
LEMMA ReleaseInv == ASSUME NEW t \in queue, TimerInv, Release(t) PROVE TimerInv'
<1> USE DEF TimerInv
<1> DEFINE e == NewTask("complete", t.win, now, ordinal)
<1>1. TimerTypeOK'
  BY TimerTypeStep DEF TimerNext, TimerThread, RunTask
<1>2. /\ t.kind = "release" /\ Working /\ task = "idle" /\ Due(t)
      /\ queue' = (queue \ {t}) \cup {e}
      /\ ordinal' = ordinal + 1
      /\ chain' = chain /\ pushed' = pushed /\ observed' = observed
      /\ completed' = completed /\ popped' = popped
      /\ expected' = expected /\ task' = task /\ now' = now
      /\ Working' /\ Listening' = Listening /\ Created' = Created
  BY DEF Release, Reschedule, Runs, windowVars, Working, Listening, Created
<1>3. e.kind = "complete" /\ e.win = t.win /\ e.at = now /\ e.ord = ordinal
  BY DEF NewTask
<1>4. /\ ordinal \in Nat /\ now \in Nat /\ expected \in Nat /\ pushed \in Nat
      /\ Created \in Nat /\ completed \in Nat /\ popped \in Nat
      /\ \A u \in queue : u.win \in Nat /\ u.at \in Nat /\ u.ord \in Nat
  BY DEF TimerTypeOK, Task
<1> HIDE DEF e
<1>5. \A u \in queue \ {t} : Precedes(t, u)
  BY <1>2 DEF Due
<1>6. ChainInv' /\ CountersInv'
  <2>1. chain \notin {"none", "joined", "disposed"} /\ chain' = chain /\ ordinal' # 0
    BY <1>2, <1>4 DEF Working, ChainInv
  <2>2. ChainInv'
    BY <2>1, <1>2, <1>4 DEF ChainInv
  <2>3. CountersInv'
    BY <1>2 DEF CountersInv
  <2>4. QED
    BY <2>2, <2>3
<1>7. OrdersInv'
  BY <1>2, <1>3, <1>4 DEF OrdersInv
<1>8. \A u : u.kind \in {"tick", "create", "produce"} => (u \in queue' <=> u \in queue)
  BY <1>2, <1>3
<1>9. TickInv'
  <2>1. \E u \in queue' : u.kind = "tick"
    BY <1>8, <1>2 DEF TickInv, Begun
  <2>2. QED
    BY <1>8, <1>2, <2>1 DEF TickInv, Precedes
<1>10. EndingInv'
  <2>1. ASSUME NEW n \in Nat, completed' <= n, n < Created'
        PROVE  \E u \in queue' : u.kind \in Ending /\ u.win = n
    <3>1. PICK u \in queue : u.kind \in Ending /\ u.win = n
      BY <2>1, <1>2 DEF EndingInv
    <3>2. CASE u = t
      BY <3>1, <3>2, <1>2, <1>3 DEF Ending
    <3>3. CASE u # t
      BY <3>1, <3>3, <1>2
    <3>4. QED
      BY <3>2, <3>3
  <2>2. ASSUME NEW u \in queue', u.kind \in Ending
        PROVE  completed' <= u.win /\ u.win < Created'
    BY <2>2, <1>2, <1>3 DEF EndingInv, Ending
  <2>3. ASSUME NEW u \in queue', NEW v \in queue', u.kind \in Ending, v.kind \in Ending
        PROVE  (u.win = v.win => u = v) /\ (u.win < v.win => Ahead(u, v)')
    <3>1. CASE u \in queue /\ v \in queue
      BY <2>3, <3>1 DEF EndingInv, Ahead, Precedes
    <3>2. CASE u \in queue \ {t} /\ v = e
      <4>1. u.win # t.win
        BY <2>3, <3>2, <1>2 DEF EndingInv, Ending
      <4>2. ASSUME u.win < t.win PROVE Ahead(u, v)'
        <5>1. Ahead(u, t) /\ Precedes(t, u)
          BY <4>2, <2>3, <3>2, <1>2, <1>5 DEF EndingInv, Ending
        <5>2. u.kind = "complete"
          BY <5>1, <3>2, <1>2, <1>4 DEF Ahead, Precedes
        <5>3. u.at <= now /\ u.ord < ordinal
          BY <5>2, <3>2 DEF OrdersInv
        <5>4. QED
          BY <5>2, <5>3, <3>2, <1>3, <1>4 DEF Ahead, Precedes
      <4>3. QED
        BY <4>1, <4>2, <3>2, <1>3
    <3>3. CASE u = e /\ v \in queue \ {t}
      <4>1. v.win # t.win
        BY <2>3, <3>3, <1>2 DEF EndingInv, Ending
      <4>2. ASSUME t.win < v.win PROVE Ahead(u, v)'
        <5>1. Ahead(t, v)
          BY <4>2, <2>3, <3>3, <1>2 DEF EndingInv, Ending
        <5>2. QED
          BY <5>1, <3>3, <1>2, <1>3 DEF Ahead
      <4>3. QED
        BY <4>1, <4>2, <3>3, <1>3
    <3>4. CASE u = e /\ v = e
      BY <3>4, <1>3, <1>4
    <3>5. QED
      BY <3>1, <3>2, <3>3, <3>4, <1>2
  <2>4. QED
    BY <2>1, <2>2, <2>3 DEF EndingInv
<1>11. SuccessorInv'
  <2>1. ASSUME NEW p \in queue', NEW k \in queue', p.kind = "produce", k.kind = "tick"
        PROVE  p.win + 1 < k.win \/ (p.win + 1 = k.win /\ Precedes(k, p)')
    BY <2>1, <1>8 DEF SuccessorInv, Precedes
  \* Nothing precedes t, so the creation it waited for is done.
  <2>2. t.win + 1 < pushed
    <3>1. ASSUME NEW c \in queue, c.kind = "create", Precedes(c, t)
          PROVE  FALSE
      <4>1. c # t /\ Precedes(t, c)
        BY <3>1, <1>2, <1>5
      <4>2. QED
        BY <3>1, <4>1, <1>4 DEF Precedes
    <3>2. QED
      BY <3>1, <1>2 DEF SuccessorInv
  <2>3. ASSUME NEW u \in queue', u.kind \in {"release", "complete"}
        PROVE  \/ u.win + 1 < pushed'
               \/ \E d \in queue' : d.kind = "create" /\ d.win = u.win + 1 /\ Precedes(d, u)'
    <3>1. CASE u = e
      BY <3>1, <2>2, <1>2, <1>3
    <3>2. CASE u \in queue
      BY <3>2, <2>3, <1>2, <1>8 DEF SuccessorInv, Precedes
    <3>3. QED
      BY <3>1, <3>2, <1>2
  <2>4. QED
    BY <2>1, <2>3 DEF SuccessorInv
<1>12. WindowsCovered'
  BY <1>2 DEF WindowsCovered
<1>13. QED
  BY <1>1, <1>6, <1>7, <1>9, <1>10, <1>11, <1>12

\* What subj[0] is when a window is told that it has ended, and what else is open.
LEMMA CompleteFindsTheFront ==
    ASSUME TimerInv, NEW t \in queue, Runs(t, "complete")
    PROVE  t.win = completed /\ t.win + 1 < pushed
<1> USE DEF TimerInv
<1>1. t.kind = "complete" /\ Working /\ task = "idle" /\ Due(t)
  BY DEF Runs
<1>2. /\ completed \in Nat /\ pushed \in Nat /\ Created \in Nat
      /\ \A u \in queue : u.win \in Nat /\ u.at \in Nat /\ u.ord \in Nat
  BY DEF TimerTypeOK, Task
<1>3. \A u \in queue \ {t} : ~ Precedes(u, t)
  BY <1>1, <1>2 DEF Due, Precedes
<1>4. completed <= t.win /\ t.win < Created
  BY <1>1 DEF EndingInv, Ending
<1>5. ASSUME completed < t.win PROVE FALSE
  <2>1. PICK u \in queue : u.kind \in Ending /\ u.win = completed
    BY <1>1, <1>2, <1>4 DEF EndingInv
  <2>2. u # t /\ Ahead(u, t)
    BY <2>1, <1>1, <1>2, <1>5 DEF EndingInv, Ending
  <2>3. QED
    BY <2>1, <2>2, <1>1, <1>3 DEF Ahead
<1>6. ASSUME NEW c \in queue, c.kind = "create", Precedes(c, t)
      PROVE  FALSE
  BY <1>6, <1>1, <1>3
<1>7. QED
  BY <1>1, <1>2, <1>4, <1>5, <1>6 DEF SuccessorInv

\* Completing a window takes its only ending task.
LEMMA CompleteWindowInv ==
    ASSUME NEW t \in queue, TimerInv, CompleteWindow(t) PROVE TimerInv'
<1> USE DEF TimerInv
<1>1. TimerTypeOK'
  BY TimerTypeStep DEF TimerNext, TimerThread, RunTask
<1>2. /\ t.kind = "complete" /\ Working /\ task = "idle"
      /\ queue' = queue \ {t}
      /\ completed' = completed + 1 /\ task' = "pop"
      /\ chain' = chain /\ pushed' = pushed /\ observed' = observed /\ popped' = popped
      /\ ordinal' = ordinal /\ expected' = expected /\ now' = now
      /\ Working' /\ Listening' = Listening /\ Created = pushed /\ Created' = pushed
  BY DEF CompleteWindow, Runs, Working, Listening, Created
<1>3. /\ ordinal \in Nat /\ now \in Nat /\ expected \in Nat /\ pushed \in Nat
      /\ observed \in Nat /\ completed \in Nat /\ popped \in Nat
      /\ \A u \in queue : u.win \in Nat /\ u.at \in Nat /\ u.ord \in Nat
  BY DEF TimerTypeOK, Task
<1>4. t.win = completed /\ t.win + 1 < pushed
  BY CompleteFindsTheFront DEF CompleteWindow
<1>5. Listening => pushed = observed
  BY <1>2, <1>3 DEF CountersInv
<1>6. ChainInv' /\ CountersInv'
  <2>1. chain \notin {"none", "joined", "disposed"} /\ chain' = chain /\ ordinal # 0
    BY <1>2 DEF Working, ChainInv
  <2>2. ChainInv'
    BY <2>1, <1>2 DEF ChainInv
  <2>3. CountersInv'
    BY <1>2, <1>3, <1>4 DEF CountersInv
  <2>4. QED
    BY <2>2, <2>3
<1>7. OrdersInv'
  BY <1>2 DEF OrdersInv
<1>8. \A u : u.kind # "complete" => (u \in queue' <=> u \in queue)
  BY <1>2
<1>9. TickInv'
  <2>1. \E u \in queue' : u.kind = "tick"
    BY <1>8, <1>2 DEF TickInv, Begun
  <2>2. QED
    BY <1>8, <1>2, <2>1 DEF TickInv, Precedes
<1>10. EndingInv'
  <2>1. ASSUME NEW n \in Nat, completed' <= n, n < Created'
        PROVE  \E u \in queue' : u.kind \in Ending /\ u.win = n
    <3>1. PICK u \in queue : u.kind \in Ending /\ u.win = n
      BY <2>1, <1>2, <1>3 DEF EndingInv
    <3>2. u # t
      BY <3>1, <2>1, <1>2, <1>3, <1>4
    <3>3. QED
      BY <3>1, <3>2, <1>2
  <2>2. ASSUME NEW u \in queue', u.kind \in Ending
        PROVE  completed' <= u.win /\ u.win < Created'
    <3>1. u \in queue /\ u # t
      BY <1>2
    <3>2. u.win # t.win /\ completed <= u.win /\ u.win < Created
      BY <3>1, <2>2, <1>2 DEF EndingInv, Ending
    <3>3. QED
      BY <3>1, <3>2, <1>2, <1>3, <1>4
  <2>3. ASSUME NEW u \in queue', NEW v \in queue', u.kind \in Ending, v.kind \in Ending
        PROVE  (u.win = v.win => u = v) /\ (u.win < v.win => Ahead(u, v)')
    BY <2>3, <1>2 DEF EndingInv, Ahead, Precedes
  <2>4. QED
    BY <2>1, <2>2, <2>3 DEF EndingInv
<1>11. SuccessorInv'
  BY <1>8, <1>2 DEF SuccessorInv, Precedes
<1>12. WindowsCovered'
  BY <1>2, <1>3, <1>4, <1>5 DEF WindowsCovered
<1>13. QED
  BY <1>1, <1>6, <1>7, <1>9, <1>10, <1>11, <1>12

\* Popping a window catches up with its completion.
LEMMA PopWindowInv == TimerInv /\ PopWindow => TimerInv'
<1> SUFFICES ASSUME TimerInv, PopWindow
             PROVE  TimerInv'
    OBVIOUS
<1> USE DEF TimerInv
<1>1. TimerTypeOK'
  BY TimerTypeStep DEF TimerNext, TimerThread
<1>2. /\ queue' = queue /\ ordinal' = ordinal /\ task' = "idle" /\ task = "pop" /\ now' = now
      /\ chain' = chain /\ pushed' = pushed /\ observed' = observed /\ expected' = expected
      /\ completed' = completed /\ popped' = popped + 1
      /\ Working' = Working /\ Listening' = Listening
      /\ Created = pushed /\ Created' = pushed /\ Begun' = Begun
  BY DEF PopWindow, Working, Listening, Created, Begun
<1>3. ChainInv'
  BY <1>2 DEF ChainInv
<1>4. CountersInv'
  BY <1>2 DEF CountersInv, TimerTypeOK
<1>5. OrdersInv' /\ TickInv' /\ SuccessorInv' /\ WindowsCovered'
  BY <1>2 DEF OrdersInv, TickInv, SuccessorInv, WindowsCovered, Precedes
<1>6. EndingInv'
  BY <1>2 DEF EndingInv, Ahead, Precedes
<1>7. QED
  BY <1>1, <1>3, <1>4, <1>5, <1>6

\* A lifetime that ends takes nothing away from the windows.
LEMMA EndsKeep ==
    ASSUME Ends
    PROVE  /\ pushed' = pushed /\ observed' = observed /\ completed' = completed
           /\ popped' = popped /\ expected' = expected /\ task' = task /\ now' = now
           /\ Created' = Created
           /\ Listening' => Listening \/ chain = "none"
           /\ Working' => Working \/ chain = "none"
           /\ chain' # "none"
  BY DEF Ends, End, Deafen, Leave, Silence, Dispose, JoinTimer, threadVars, Created,
         Listening, Working

\* Without the tasks of the windows only the counters are left to look at.
LEMMA EmptyInv ==
    ASSUME TimerInv, TimerTypeOK', ChainInv', CountersInv',
           UNCHANGED <<pushed, observed, completed, expected>>, Created' = Created,
           queue' \subseteq queue, ordinal' = ordinal,
           now' = now, \A t \in queue' : t.kind = "dispose",
           ~ Listening', ~ (Working' /\ task' # "over")
    PROVE  TimerInv'
<1> USE DEF TimerInv
<1>1. OrdersInv'
  BY DEF OrdersInv
<1>2. TickInv' /\ EndingInv' /\ SuccessorInv' /\ WindowsCovered'
  BY DEF TickInv, EndingInv, Ending, SuccessorInv, WindowsCovered
<1>3. QED
  BY <1>1, <1>2

\* A lifetime that ends leaves the tasks alone, or all of them are skipped.
LEMMA EndsInv == TimerInv /\ Ends => TimerInv'
<1> SUFFICES ASSUME TimerInv, Ends
             PROVE  TimerInv'
    OBVIOUS
<1> USE DEF TimerInv
<1>1. TimerTypeOK'
  BY TimerTypeStep DEF TimerNext
<1>2. ordinal \in Nat /\ now \in Nat /\ queue \in SUBSET Task /\ task \in Tasks
      /\ \A u \in queue : u.at \in Nat /\ u.ord \in Nat
  BY DEF TimerTypeOK, Task
<1>3. ChainInv'
  <2>1. CASE End \/ Leave
    BY <2>1 DEF End, Leave, threadVars, ChainInv, Working
  <2>2. CASE Deafen
    BY <2>2, <1>2 DEF Deafen, ChainInv, Working
  <2>3. CASE Silence
    BY <2>3 DEF Silence, ChainInv, Working
  <2>4. CASE Dispose \/ JoinTimer
    BY <2>4 DEF Dispose, JoinTimer, threadVars, ChainInv, Working
  <2>5. QED
    BY <2>1, <2>2, <2>3, <2>4 DEF Ends
<1>4. CountersInv'
  <2>1. chain = "none" => observed = 0 /\ Created = 0
    BY DEF ChainInv, Created
  <2>2. QED
    BY <2>1, EndsKeep DEF CountersInv
<1>5. WindowsCovered'
  <2>1. chain = "none" => observed = 0
    BY DEF ChainInv
  <2>2. QED
    BY <2>1, EndsKeep DEF WindowsCovered
<1>6. CASE End \/ Leave
  <2>1. queue' = queue /\ ordinal' = ordinal /\ Begun' = Begun
    BY <1>6 DEF End, Leave, threadVars, Begun
  <2>2. chain = "none" => queue = {} /\ completed = 0 /\ Created = 0 /\ pushed = 0
    BY DEF ChainInv, Created
  <2>3. OrdersInv'
    BY <2>1, EndsKeep DEF OrdersInv
  <2>4. TickInv'
    BY <2>1, <2>2, EndsKeep DEF TickInv, Precedes, Begun
  <2>5. EndingInv'
    BY <2>1, <2>2, EndsKeep DEF EndingInv, Ahead, Precedes
  <2>6. SuccessorInv'
    BY <2>1, EndsKeep DEF SuccessorInv, Precedes
  <2>7. QED
    BY <1>1, <1>3, <1>4, <1>5, <2>3, <2>4, <2>5, <2>6
<1>7. CASE Deafen
  <2> DEFINE a == NewTask("dispose", 0, now, ordinal)
  <2>1. queue' = queue \cup {a} /\ ordinal' = ordinal + 1 /\ Working
    BY <1>7 DEF Deafen, Working
  <2>2. a.kind = "dispose" /\ a.ord = ordinal /\ a.at = now
    BY DEF NewTask
  <2> HIDE DEF a
  <2>3. \A u : u.kind # "dispose" => (u \in queue' <=> u \in queue)
    BY <2>1, <2>2
  <2>4. Begun' => Begun
    BY <2>3, EndsKeep DEF Begun
  <2>5. OrdersInv'
    BY <2>1, <2>2, <1>2, EndsKeep DEF OrdersInv
  <2>6. TickInv'
    BY <2>1, <2>3, <2>4, EndsKeep DEF TickInv, Precedes
  <2>7. EndingInv'
    BY <2>1, <2>3, EndsKeep DEF EndingInv, Ending, Ahead, Precedes
  <2>8. SuccessorInv'
    BY <2>3, EndsKeep DEF SuccessorInv, Precedes
  <2>9. QED
    BY <1>1, <1>3, <1>4, <1>5, <2>5, <2>6, <2>7, <2>8
<1>8. CASE Silence \/ Dispose \/ JoinTimer
  <2>1. /\ queue' \subseteq queue /\ ordinal' = ordinal
        /\ \A t \in queue' : t.kind = "dispose"
        /\ ~ Working' /\ ~ Listening'
    BY <1>8 DEF Silence, Dispose, JoinTimer, threadVars, Working, Listening, ChainInv
  <2>2. QED
    BY <2>1, <1>1, <1>3, <1>4, EndsKeep, EmptyInv
<1>9. QED
  BY <1>6, <1>7, <1>8 DEF Ends

\* The thread that disposes of itself drops its queue.
LEMMA DisposeSelfInv ==
    ASSUME NEW t \in queue, TimerInv, DisposeSelf(t) PROVE TimerInv'
<1> USE DEF TimerInv
<1>1. TimerTypeOK'
  BY TimerTypeStep DEF TimerNext, TimerThread, RunTask
<1>2. /\ queue' = {} /\ task' = "over" /\ task = "idle" /\ ordinal' = ordinal /\ now' = now
      /\ chain' = chain /\ pushed' = pushed /\ observed' = observed /\ expected' = expected
      /\ completed' = completed /\ popped' = popped
      /\ chain \in {"deaf", "left", "silent"}
      /\ Created = pushed /\ Created' = pushed /\ ~ Listening'
  BY DEF DisposeSelf, windowVars, Created, Listening
<1>3. ChainInv'
  BY <1>2 DEF ChainInv
<1>4. CountersInv'
  BY <1>2 DEF CountersInv
<1>5. QED
  BY <1>1, <1>2, <1>3, <1>4, EmptyInv

\* Time only makes tasks due.
LEMMA ClockAdvancesInv == TimerInv /\ ClockAdvances => TimerInv'
<1> SUFFICES ASSUME TimerInv, ClockAdvances
             PROVE  TimerInv'
    OBVIOUS
<1> USE DEF TimerInv
<1>1. TimerTypeOK'
  BY TimerTypeStep DEF TimerNext
<1>2. UNCHANGED <<chain, pushed, observed, completed, popped, queue, ordinal, expected, task>>
  BY DEF ClockAdvances, windowVars, threadVars
<1>3. OrdersInv'
  BY <1>2 DEF OrdersInv, ClockAdvances, TimerTypeOK, Task
<1>4. ChainInv' /\ CountersInv' /\ TickInv' /\ SuccessorInv' /\ WindowsCovered'
  BY <1>2 DEF ChainInv, CountersInv, TickInv, SuccessorInv, WindowsCovered, Precedes,
              Working, Listening, Created, Begun
<1>5. EndingInv'
  BY <1>2 DEF EndingInv, Ahead, Precedes, Working, Created
<1>6. QED
  BY <1>1, <1>3, <1>4, <1>5

\* Every step keeps the invariant.
LEMMA TimerInvStep == TimerInv /\ [TimerNext]_timerVars => TimerInv'
<1> SUFFICES ASSUME TimerInv, [TimerNext]_timerVars
             PROVE  TimerInv'
    OBVIOUS
<1>1. CASE UNCHANGED timerVars
  BY <1>1 DEF timerVars, windowVars, threadVars, TimerInv, TimerTypeOK, ChainInv, CountersInv,
              OrdersInv, TickInv, EndingInv, SuccessorInv, WindowsCovered, Ahead, Precedes,
              Working, Listening, Created, Begun
<1>2. ASSUME NEW t \in queue, RunTask(t) PROVE TimerInv'
  BY <1>2, TickStepInv, PushWindowInv, ProduceInv, ReleaseInv, CompleteWindowInv,
     DisposeSelfInv DEF RunTask
<1>3. QED
  BY <1>1, <1>2, SubscribeInv, SecondHalfInv, PopWindowInv, EndsInv, ClockAdvancesInv
     DEF TimerNext, TimerThread

\* The inductive invariant of the window thread.
LEMMA TimerInvariant == TimerSpec => []TimerInv
  BY TimerInvInit, TimerInvStep, PTL DEF TimerSpec

-----------------------------------------------------------------------------
(* What follows from it. *)

\* From the moment the bus has its first window there is always an open one: the
\* overlap of create_window and release_window is enough, however late the thread.
THEOREM WindowsAlwaysCovered == TimerSpec => []WindowsCovered
<1>1. TimerInv => WindowsCovered
  BY DEF TimerInv
<1>2. QED
  BY <1>1, TimerInvariant, PTL

\* release_window's subj[0] is the window whose period has ended.
THEOREM ReleaseIsInOrder == TimerSpec => []ReleasesTheFront
<1>1. TimerInv => ReleasesTheFront
  BY CompleteFindsTheFront DEF ReleasesTheFront
<1>2. QED
  BY <1>1, TimerInvariant, PTL

\* Creation and release of the windows keep their distance for ever.
THEOREM TimerNeverDrifts == TimerSpec => []NoDrift
<1>1. TimerInv => NoDrift
  BY DEF TimerInv, TickInv, NoDrift
<1>2. QED
  BY <1>1, TimerInvariant, PTL

\* When unsubscribe() has returned the list of windows stays as it is.
THEOREM JoinedStaysFinal == TimerSpec => JoinedIsFinal
<1>1. TimerInv /\ [TimerNext]_timerVars => (chain = "joined" => UNCHANGED windowVars)
  BY DEF TimerInv, ChainInv, TimerNext, TimerThread, RunTask, Subscribe, Tick, PushWindow,
         Produce, Release, CompleteWindow, ObserveWindow, AbandonWindow, PopWindow, DisposeSelf,
         Ends, End, Deafen, Leave, Silence, Dispose, JoinTimer, ClockAdvances, Runs, Working,
         timerVars, windowVars
<1>2. QED
  BY <1>1, TimerInvariant, PTL DEF TimerSpec, JoinedIsFinal

\* What the phase of the chain is, one value at a time.
LEMMA PhaseIs ==
    /\ chain = "none" => Phase = "none"
    /\ Listening /\ ordinal # 0 /\ ordinal \in Nat => Phase = "subscribed"
    /\ chain = "ending" /\ ordinal = 0 => Phase = "none"
    /\ chain \in {"deaf", "left"} /\ task # "over" => Phase = "deaf"
    /\ chain \in {"deaf", "left"} /\ task = "over" => Phase = "stopped"
    /\ chain \in {"silent", "disposed"} => Phase = "stopped"
    /\ chain = "joined" => Phase = "joined"
  BY DEF Phase, Listening

\* The same of the next state.
LEMMA PhaseIsNext ==
    /\ chain' = "none" => Phase' = "none"
    /\ Listening' /\ ordinal' # 0 /\ ordinal' \in Nat => Phase' = "subscribed"
    /\ chain' = "ending" /\ ordinal' = 0 => Phase' = "none"
    /\ chain' \in {"deaf", "left"} /\ task' # "over" => Phase' = "deaf"
    /\ chain' \in {"deaf", "left"} /\ task' = "over" => Phase' = "stopped"
    /\ chain' \in {"silent", "disposed"} => Phase' = "stopped"
    /\ chain' = "joined" => Phase' = "joined"
  BY DEF Phase, Listening

\* A step within a phase.
LEMMA PhaseStays ==
    ASSUME UNCHANGED <<chain, task>>, ordinal' = 0 <=> ordinal = 0,
           ordinal \in Nat, ordinal' \in Nat
    PROVE  Phase' = Phase
  BY DEF Phase, Listening

\* Something pending, or a window, means that something was scheduled.
LEMMA Scheduled ==
    ASSUME TimerInv
    PROVE  /\ queue # {} => ordinal # 0
           /\ task # "idle" => ordinal # 0
  BY DEF TimerInv, ChainInv

\* The thread, its queue and its clock implement the stream of windows that the bus
\* relies on, through the subscription's end and whatever the thread does after it:
\* every step is a step of WindowStream or leaves the windows alone.
THEOREM TimerImplementsStream == TimerSpec => ImplementsWindowStream
<1>1. TimerInit => Stream!Init
  BY PhaseIs DEF TimerInit, Stream!Init
<1>2. TimerInv /\ [TimerNext]_timerVars => [Stream!Next]_(Stream!windowVars)
  <2> SUFFICES ASSUME TimerInv, [TimerNext]_timerVars
               PROVE  Stream!Next \/ UNCHANGED <<Phase, pushed, observed, completed, popped>>
      BY DEF Stream!windowVars
  <2>1. /\ pushed \in Nat /\ observed \in Nat /\ completed \in Nat /\ popped \in Nat
        /\ ordinal \in Nat /\ Created \in Nat /\ task \in Tasks /\ chain \in Chains
        /\ CountersInv /\ ChainInv
    BY DEF TimerInv, TimerTypeOK
  <2>0. TimerInv'
    BY TimerInvStep
  <2>2. CASE Subscribe
    <3>1. Phase = "none" /\ Phase' = "subscribed"
      <4>1. Listening' /\ ordinal' # 0 /\ ordinal' \in Nat
        BY <2>1, <2>2 DEF Subscribe, Listening
      <4>2. Phase = "none"
        BY <2>2, PhaseIs DEF Subscribe
      <4>3. QED
        BY <4>1, <4>2, PhaseIsNext
    <3>2. Stream!Subscribe
      BY <2>2, <3>1 DEF Subscribe, Stream!Subscribe
    <3>3. QED
      BY <3>2 DEF Stream!Next
  <2>3. ASSUME NEW t \in queue, Tick(t) \/ Produce(t) \/ Release(t)
        PROVE  UNCHANGED <<Phase, pushed, observed, completed, popped>>
    <3>1. UNCHANGED <<chain, task, pushed, observed, completed, popped>>
          /\ ordinal' \in {ordinal + 1, ordinal + 2}
      BY <2>3 DEF Tick, Produce, Release, Reschedule, windowVars
    <3>2. ordinal # 0 /\ ordinal' # 0 /\ ordinal' \in Nat
      BY <2>1, <3>1, Scheduled
    <3>3. Phase' = Phase
      BY <2>1, <3>1, <3>2, PhaseStays
    <3>4. QED
      BY <3>1, <3>3
  <2>4. ASSUME NEW t \in queue, PushWindow(t) PROVE Stream!Next
    <3>1. /\ Working /\ task = "idle" /\ Created = pushed /\ ordinal # 0 /\ ordinal' = ordinal
          /\ chain' = chain /\ task' = "observe" /\ Working' /\ Listening' = Listening
      BY <2>1, <2>4, Scheduled DEF PushWindow, Runs, Created, Working, Listening
    <3>2. Listening => pushed = observed
      BY <2>1, <3>1 DEF CountersInv
    <3>3. Phase' = Phase /\ Phase \in {"subscribed", "deaf"}
          /\ (Phase = "subscribed" => Listening)
      <4>1. CASE Listening
        BY <2>1, <3>1, <4>1, PhaseIs, PhaseIsNext
      <4>2. CASE ~ Listening
        <5>1. chain \in {"deaf", "left"}
          BY <3>1, <4>2 DEF Working, Listening
        <5>2. QED
          BY <3>1, <5>1, PhaseIs, PhaseIsNext
      <4>3. QED
        BY <4>1, <4>2
    <3>4. Stream!Push
      BY <2>4, <3>2, <3>3 DEF PushWindow, Stream!Push
    <3>5. QED
      BY <3>4 DEF Stream!Next
  <2>5. ASSUME NEW t \in queue, CompleteWindow(t) PROVE Stream!Next
    <3>1. t.win = completed /\ t.win + 1 < pushed
      BY <2>5, CompleteFindsTheFront DEF CompleteWindow
    <3>2. /\ Working /\ task = "idle" /\ Created = pushed /\ ordinal # 0 /\ ordinal' = ordinal
          /\ chain' = chain /\ task' = "pop" /\ Working' /\ Listening' = Listening
      BY <2>1, <2>5, Scheduled DEF CompleteWindow, Runs, Created, Working, Listening
    <3>3. completed = popped /\ (Listening => pushed = observed)
      BY <2>1, <3>2 DEF CountersInv
    <3>4. Phase' = Phase /\ Phase \in {"subscribed", "deaf"}
          /\ (Phase = "subscribed" => Listening)
      <4>1. CASE Listening
        BY <2>1, <3>2, <4>1, PhaseIs, PhaseIsNext
      <4>2. CASE ~ Listening
        <5>1. chain \in {"deaf", "left"}
          BY <3>2, <4>2 DEF Working, Listening
        <5>2. QED
          BY <3>2, <5>1, PhaseIs, PhaseIsNext
      <4>3. QED
        BY <4>1, <4>2
    <3>5. completed + 1 < IF Phase = "subscribed" THEN observed ELSE pushed
      BY <2>1, <3>1, <3>3, <3>4
    <3>6. Stream!Complete
      BY <2>5, <3>3, <3>4, <3>5 DEF CompleteWindow, Stream!Complete
    <3>7. QED
      BY <3>6 DEF Stream!Next
  <2>6. CASE ObserveWindow
    <3>1. /\ task = "observe" /\ Listening /\ Listening' /\ ordinal # 0 /\ ordinal' # 0
          /\ ordinal' \in Nat /\ observed < pushed
      BY <2>1, <2>6, Scheduled DEF ObserveWindow, Listening, CountersInv, Created
    <3>2. Phase = "subscribed" /\ Phase' = "subscribed"
      BY <2>1, <3>1, PhaseIs, PhaseIsNext
    <3>3. Stream!Observe
      BY <2>6, <3>1, <3>2 DEF ObserveWindow, Stream!Observe
    <3>4. QED
      BY <3>3 DEF Stream!Next
  <2>7. CASE AbandonWindow
    <3>1. /\ chain' = chain /\ task = "observe" /\ task' = "idle" /\ ~ Listening
          /\ chain \notin {"none", "joined"}
          /\ UNCHANGED <<pushed, observed, completed, popped>>
      BY <2>1, <2>7 DEF AbandonWindow, windowVars, ChainInv
    <3>2. chain \in {"deaf", "left", "silent", "disposed"}
      BY <2>1, <3>1 DEF Chains, Listening
    <3>3. Phase' = Phase
      BY <3>1, <3>2, PhaseIs, PhaseIsNext
    <3>4. QED
      BY <3>1, <3>3
  <2>8. CASE PopWindow
    <3>1. /\ task = "pop" /\ task' = "idle" /\ chain' = chain /\ ordinal' = ordinal
          /\ ordinal # 0 /\ popped < completed /\ Listening' = Listening
      BY <2>1, <2>8, Scheduled DEF PopWindow, CountersInv, Listening
    <3>2. chain \in {"subscribed", "ending", "deaf", "left", "silent", "disposed"}
      BY <2>1, <3>1 DEF ChainInv, Chains
    <3>3. Phase' = Phase /\ Phase \in {"subscribed", "deaf", "stopped"}
      <4>1. CASE Listening
        BY <2>1, <3>1, <4>1, PhaseIs, PhaseIsNext
      <4>2. CASE ~ Listening
        <5>1. chain \in {"deaf", "left", "silent", "disposed"}
          BY <3>2, <4>2 DEF Listening
        <5>2. QED
          BY <3>1, <5>1, PhaseIs, PhaseIsNext
      <4>3. QED
        BY <4>1, <4>2
    <3>4. Stream!Pop
      BY <2>8, <3>1, <3>3 DEF PopWindow, Stream!Pop
    <3>5. QED
      BY <3>4 DEF Stream!Next
  <2>9. ASSUME NEW t \in queue, DisposeSelf(t)
        PROVE  Stream!Next \/ UNCHANGED <<Phase, pushed, observed, completed, popped>>
    <3>1. /\ chain' = chain /\ chain \in {"deaf", "left", "silent"}
          /\ task = "idle" /\ task' = "over"
          /\ UNCHANGED <<pushed, observed, completed, popped>>
      BY <2>9 DEF DisposeSelf, windowVars
    <3>2. Phase' = "stopped" /\ Phase \in {"deaf", "stopped"}
      BY <3>1, PhaseIs, PhaseIsNext
    <3>3. QED
      BY <3>1, <3>2 DEF Stream!Next, Stream!Stop
  <2>10. CASE End
    <3>1. /\ chain \in {"none", "subscribed"} /\ chain' = "ending" /\ ordinal' = ordinal
          /\ UNCHANGED <<pushed, observed, completed, popped>>
      BY <2>10 DEF End, threadVars
    <3>2. Phase' = Phase
      <4>1. CASE chain = "none"
        BY <2>1, <3>1, <4>1, PhaseIs, PhaseIsNext DEF ChainInv
      <4>2. CASE chain = "subscribed"
        <5>1. Listening /\ Listening' /\ ordinal # 0
          BY <2>1, <3>1, <4>2 DEF Listening, ChainInv
        <5>2. QED
          BY <2>1, <3>1, <5>1, PhaseIs, PhaseIsNext
      <4>3. QED
        BY <3>1, <4>1, <4>2
    <3>3. QED
      BY <3>1, <3>2
  <2>11. CASE Deafen
    <3>1. /\ chain = "ending" /\ chain' = "deaf" /\ task' = task /\ task # "over"
          /\ UNCHANGED <<pushed, observed, completed, popped>>
      BY <2>1, <2>11 DEF Deafen, ChainInv
    <3>2. Phase' = "deaf" /\ Phase \in {"none", "subscribed"}
      <4>1. Phase' = "deaf"
        BY <3>1, PhaseIsNext
      <4>2. CASE ordinal = 0
        BY <3>1, <4>1, <4>2, PhaseIs
      <4>3. CASE ordinal # 0
        BY <2>1, <3>1, <4>1, <4>3, PhaseIs DEF Listening
      <4>4. QED
        BY <4>2, <4>3
    <3>3. Stream!Deafen
      BY <3>1, <3>2 DEF Stream!Deafen
    <3>4. QED
      BY <3>3 DEF Stream!Next
  <2>12. CASE Leave \/ Silence \/ Dispose
    <3>1. /\ task' = task /\ UNCHANGED <<pushed, observed, completed, popped>>
          /\ \/ chain = "deaf" /\ chain' = "left"
             \/ chain = "left" /\ chain' = "silent"
             \/ chain = "silent" /\ chain' = "disposed"
      BY <2>12 DEF Leave, Silence, Dispose, threadVars
    <3>2. Phase' = Phase \/ (Phase = "deaf" /\ Phase' = "stopped")
      BY <3>1, PhaseIs, PhaseIsNext
    <3>3. QED
      BY <3>1, <3>2 DEF Stream!Next, Stream!Stop
  <2>13. CASE JoinTimer
    <3>1. /\ chain = "disposed" /\ chain' = "joined"
          /\ UNCHANGED <<pushed, observed, completed, popped>>
      BY <2>13 DEF JoinTimer
    <3>2. Phase = "stopped" /\ Phase' = "joined"
      BY <3>1, PhaseIs, PhaseIsNext
    <3>3. QED
      BY <3>1, <3>2 DEF Stream!Next, Stream!Join
  <2>14. CASE ClockAdvances \/ UNCHANGED timerVars
    <3>1. UNCHANGED <<chain, task, ordinal, pushed, observed, completed, popped>>
      BY <2>14 DEF ClockAdvances, timerVars, windowVars, threadVars
    <3>2. Phase' = Phase
      BY <2>1, <3>1, PhaseStays
    <3>3. QED
      BY <3>1, <3>2
  <2>15. QED
    BY <2>2, <2>3, <2>4, <2>5, <2>6, <2>7, <2>8, <2>9, <2>10, <2>11, <2>12, <2>13, <2>14
       DEF TimerNext, TimerThread, RunTask, Ends
<1>3. QED
  BY <1>1, <1>2, TimerInvariant, PTL DEF TimerSpec, ImplementsWindowStream, Stream!Spec

-----------------------------------------------------------------------------
(* The types of the bus. *)

\* A counter of fixed width stays within its width.
LEMMA Wraps == ASSUME NEW a \in Int, NEW m \in Nat \ {0} PROVE a % m \in 0 .. m - 1
  OBVIOUS

\* The walk over the windows keeps its types.
LEMMA AdvanceType ==
    ASSUME BusTypeOK, NEW e \in Events, Advance(e)
    PROVE  pc' \in [Events -> Steps] /\ cur' \in [Events -> Nat] /\ stop' = stop
  BY DEF BusTypeOK, Advance, GoTo, Steps

\* A step of a pushing thread keeps the types.
LEMMA ThreadType == ASSUME BusTypeOK, NEW e \in Events, Thread(e) PROVE BusTypeOK'
<1> USE DEF BusTypeOK
<1>1. TimerTypeOK'
  BY DEF Thread, TimerTypeOK, Created, timerVars, windowVars, threadVars
<1>2. /\ e \in Events
      /\ \A s \in Steps : [pc EXCEPT ![e] = s] \in [Events -> Steps]
  OBVIOUS
<1>3. DepthMod \in Nat \ {0} /\ depth \in Int
  BY BusAssumption
<1>4. (depth + 1) % DepthMod \in 0 .. DepthMod - 1 /\ (depth - 1) % DepthMod \in 0 .. DepthMod - 1
  <2>1. depth + 1 \in Int /\ depth - 1 \in Int
    BY <1>3
  <2>2. QED
    BY <1>3, <2>1, Wraps
<1>5. CASE CountTotal(e)
  BY <1>1, <1>2, <1>5 DEF CountTotal, GoTo, Steps, historyVars
<1>6. CASE CountDepth(e)
  BY <1>1, <1>2, <1>4, <1>6 DEF CountDepth, GoTo, Steps, historyVars
<1>7. CASE CheckDepth(e)
  BY <1>1, <1>2, <1>7 DEF CheckDepth, GoTo, Steps, telemetryVars, historyVars
<1>8. CASE Refuse(e)
  BY <1>1, <1>2, <1>8 DEF Refuse, GoTo, Steps
<1>9. CASE Uncount(e)
  BY <1>1, <1>2, <1>4, <1>9 DEF Uncount, GoTo, Steps, historyVars
<1>10. CASE Emit(e)
  <2>1. pc' \in [Events -> Steps] /\ cur' \in [Events -> Nat] /\ stop' \in [Events -> Nat]
    BY <1>2, <1>10 DEF Emit, GoTo, Steps, TimerTypeOK
  <2>2. QED
    BY <1>1, <1>10, <2>1 DEF Emit, telemetryVars, historyVars
<1>11. CASE VisitLive(e)
  BY <1>1, <1>2, <1>11 DEF VisitLive, GoTo, Steps, telemetryVars, historyVars
<1>12. CASE VisitDeaf(e)
  BY <1>1, <1>12, AdvanceType DEF VisitDeaf, telemetryVars, historyVars
<1>13. CASE VisitDangling(e)
  BY <1>1, <1>13 DEF VisitDangling, pushVars, telemetryVars, historyVars
<1>14. CASE Accept(e)
  BY <1>1, <1>2, <1>14 DEF Accept, GoTo, Steps
<1>15. CASE NullRoute(e)
  BY <1>1, <1>2, <1>15 DEF NullRoute, GoTo, Steps
<1>16. CASE Stamp(e)
  BY <1>1, <1>2, <1>16 DEF Stamp, GoTo, Steps, historyVars
<1>17. CASE Drain(e)
  <2>1. pc' \in [Events -> Steps] /\ cur' \in [Events -> Nat] /\ stop' = stop
    BY <1>2, <1>17, AdvanceType DEF Drain, GoTo, Steps
  <2>2. QED
    BY <1>1, <1>17, <2>1 DEF Drain, telemetryVars, historyVars
<1>18. CASE Drop(e)
  BY <1>1, <1>4, <1>18, AdvanceType DEF Drop, historyVars
<1>19. QED
  BY <1>5, <1>6, <1>7, <1>8, <1>9, <1>10, <1>11, <1>12, <1>13, <1>14, <1>15, <1>16, <1>17, <1>18
     DEF Thread, PushStep

\* The types of the bus: queue_depth never leaves the range of its counter, though
\* it may wrap inside it.
LEMMA BusTypeStep == BusTypeOK /\ [Next]_vars => BusTypeOK'
<1> SUFFICES ASSUME BusTypeOK, [Next]_vars
             PROVE  BusTypeOK'
    OBVIOUS
<1>1. CASE Timer
  BY <1>1, TimerTypeStep
     DEF Timer, BusTypeOK, busVars, pushVars, telemetryVars, historyVars
<1>2. CASE UNCHANGED vars
  BY <1>2 DEF BusTypeOK, TimerTypeOK, Created, vars, timerVars, windowVars, threadVars,
              busVars, pushVars, telemetryVars, historyVars
<1>3. QED
  BY <1>1, <1>2, ThreadType DEF Next

\* The bus is well typed for every set of events, limit and width of queue_depth.
THEOREM BusTypeCorrect == Spec => []BusTypeOK
<1>1. Init => BusTypeOK
  <2> SUFFICES ASSUME Init PROVE BusTypeOK
      OBVIOUS
  <2>1. TimerTypeOK
    BY DEF Init, TimerInit, TimerTypeOK, Chains, Tasks, Created
  <2>2. 0 \in 0 .. DepthMod - 1
    BY BusAssumption
  <2>3. QED
    BY <2>1, <2>2 DEF Init, BusInit, BusTypeOK, Steps
<1>2. QED
  BY <1>1, BusTypeStep, PTL DEF Spec

\* The window thread of the bus keeps the invariant of the timer.
LEMMA BusTimerInvariant == Spec => []TimerInv
<1>1. Init => TimerInv
  BY TimerInvInit DEF Init
<1>2. [Next]_vars => [TimerNext]_timerVars
  BY DEF Next, Thread, Timer, vars
<1>3. QED
  BY <1>1, <1>2, TimerInvStep, PTL DEF Spec

-----------------------------------------------------------------------------
(* The counters.  A walk moves on after every ruling, so the rulings of an *)
(* event are those on the windows behind it and perhaps the one it is at.    *)

InWindow == {"stamp", "drain", "drop"}
BeforeWalk == {"new", "count", "check", "refuse", "uncount", "emit"}

JudgedInv ==
    /\ IsFiniteSet(judged)
    /\ IsFiniteSet(rejected)
    /\ \A e \in Events, w \in Nat : <<e, w>> \in judged =>
          /\ pc[e] \notin BeforeWalk
          /\ e \notin rejected
          /\ w < cur[e] \/ (w = cur[e] /\ pc[e] \in InWindow)
    /\ \A e \in rejected : pc[e] \in {"uncount", "done"}

\* A thread that moves on leaves the windows it has judged behind.
LEMMA AdvanceJudged ==
    ASSUME BusTypeOK, JudgedInv, NEW e \in Events, Advance(e),
           pc[e] \in {"visit", "drain", "drop"}, UNCHANGED historyVars
    PROVE  JudgedInv'
<1>1. /\ cur' = [cur EXCEPT ![e] = @ + 1] /\ cur \in [Events -> Nat]
      /\ pc' \in [Events -> Steps] /\ pc \in [Events -> Steps]
      /\ pc'[e] \in {"visit", "done"}
      /\ \A f \in Events \ {e} : pc'[f] = pc[f]
      /\ judged' = judged /\ rejected' = rejected
  BY DEF Advance, GoTo, BusTypeOK, historyVars, Steps
<1>2. e \notin rejected
  BY DEF JudgedInv
<1>3. ASSUME NEW f \in Events, NEW w \in Nat, <<f, w>> \in judged
      PROVE  /\ pc'[f] \notin BeforeWalk
             /\ f \notin rejected
             /\ w < cur'[f] \/ (w = cur'[f] /\ pc'[f] \in InWindow)
  <2>1. CASE f = e
    BY <1>1, <1>3, <2>1 DEF JudgedInv, BeforeWalk
  <2>2. CASE f # e
    BY <1>1, <1>3, <2>2 DEF JudgedInv
  <2>3. QED
    BY <2>1, <2>2
<1>4. \A f \in rejected : pc'[f] \in {"uncount", "done"}
  BY <1>1, <1>2 DEF JudgedInv, BusTypeOK
<1>5. QED
  BY <1>1, <1>3, <1>4 DEF JudgedInv

\* A step of one thread that leaves the history and the place of every thread alone.
LEMMA QuietJudged ==
    ASSUME BusTypeOK, JudgedInv, NEW e \in Events, NEW s \in Steps, GoTo(e, s),
           UNCHANGED <<cur, judged, rejected>>,
           \/ pc[e] \in BeforeWalk /\ e \notin rejected
           \/ pc[e] = "visit" /\ s = "judge"
           \/ pc[e] \in InWindow /\ s \in InWindow
           \/ pc[e] = "uncount" /\ s = "done"
    PROVE  JudgedInv'
<1>1. /\ pc \in [Events -> Steps] /\ pc'[e] = s
      /\ \A f \in Events \ {e} : pc'[f] = pc[f]
  BY DEF GoTo, BusTypeOK
<1>2. ASSUME NEW f \in Events, NEW w \in Nat, <<f, w>> \in judged
      PROVE  /\ pc'[f] \notin BeforeWalk
             /\ f \notin rejected
             /\ w < cur[f] \/ (w = cur[f] /\ pc'[f] \in InWindow)
  BY <1>1, <1>2 DEF JudgedInv, BeforeWalk, InWindow
<1>3. \A f \in rejected : pc'[f] \in {"uncount", "done"}
  BY <1>1 DEF JudgedInv, BusTypeOK, BeforeWalk, InWindow
<1>4. QED
  BY <1>1, <1>2, <1>3 DEF JudgedInv

\* The handler runs: the ruling is a new one.
LEMMA RulingJudged ==
    ASSUME BusTypeOK, JudgedInv, NEW e \in Events, Accept(e) \/ NullRoute(e)
    PROVE  /\ JudgedInv'
           /\ <<e, cur[e]>> \notin judged
           /\ judged' = judged \cup {<<e, cur[e]>>}
<1>1. /\ pc \in [Events -> Steps] /\ pc[e] = "judge" /\ pc'[e] \in InWindow
      /\ \A f \in Events \ {e} : pc'[f] = pc[f]
      /\ cur \in [Events -> Nat] /\ cur' = cur /\ rejected' = rejected
      /\ judged' = judged \cup {<<e, cur[e]>>}
  BY DEF Accept, NullRoute, GoTo, BusTypeOK, InWindow
<1>2. <<e, cur[e]>> \notin judged
  BY <1>1 DEF JudgedInv, InWindow
<1>3. e \notin rejected
  BY <1>1 DEF JudgedInv
<1>4. ASSUME NEW f \in Events, NEW w \in Nat, <<f, w>> \in judged'
      PROVE  /\ pc'[f] \notin BeforeWalk
             /\ f \notin rejected
             /\ w < cur[f] \/ (w = cur[f] /\ pc'[f] \in InWindow)
  <2>1. CASE <<f, w>> \in judged
    BY <1>1, <2>1 DEF JudgedInv, BeforeWalk, InWindow
  <2>2. CASE f = e /\ w = cur[e]
    BY <1>1, <1>3, <2>2 DEF BeforeWalk, InWindow
  <2>3. QED
    BY <1>1, <1>4, <2>1, <2>2
<1>5. IsFiniteSet(judged')
  BY <1>1, FS_AddElement DEF JudgedInv
<1>6. \A f \in rejected : pc'[f] \in {"uncount", "done"}
  BY <1>1, <1>3 DEF JudgedInv, BusTypeOK
<1>7. QED
  BY <1>1, <1>2, <1>4, <1>5, <1>6 DEF JudgedInv

\* The limit is passed: the refusal is a new one, and there was no ruling.
LEMMA RefuseJudged ==
    ASSUME BusTypeOK, JudgedInv, NEW e \in Events, Refuse(e)
    PROVE  JudgedInv' /\ e \notin rejected
<1>1. /\ pc \in [Events -> Steps] /\ pc[e] = "refuse" /\ pc'[e] = "uncount"
      /\ \A f \in Events \ {e} : pc'[f] = pc[f]
      /\ cur' = cur /\ judged' = judged /\ rejected' = rejected \cup {e}
  BY DEF Refuse, GoTo, BusTypeOK, Steps
<1>2. e \notin rejected
  BY <1>1 DEF JudgedInv
<1>3. \A f \in Events, w \in Nat : <<f, w>> \in judged => f # e
  BY <1>1 DEF JudgedInv, BeforeWalk
<1>4. IsFiniteSet(rejected')
  BY <1>1, FS_AddElement DEF JudgedInv
<1>5. \A f \in rejected' : pc'[f] \in {"uncount", "done"}
  BY <1>1 DEF JudgedInv, BusTypeOK
<1>6. QED
  BY <1>1, <1>2, <1>3, <1>4, <1>5 DEF JudgedInv

\* The counters follow the history, step by step.
LEMMA ThreadCounts ==
    ASSUME BusTypeOK, JudgedInv, CountersAgree, NEW e \in Events, Thread(e)
    PROVE  JudgedInv' /\ CountersAgree'
<1> DEFINE Counts == <<accepted, nullRouted, judged, rejected>>
<1>1. pc \in [Events -> Steps] /\ accepted \in Nat /\ nullRouted \in Nat
  BY DEF BusTypeOK
<1>2. IsFiniteSet(judged) /\ IsFiniteSet(rejected)
  BY DEF JudgedInv
<1>3. UNCHANGED Counts => CountersAgree'
  BY DEF CountersAgree
<1>4. CASE CountTotal(e) \/ CountDepth(e) \/ CheckDepth(e)
  <2>1. e \notin rejected
    BY <1>4 DEF CountTotal, CountDepth, CheckDepth, JudgedInv
  <2>2. JudgedInv'
    BY <1>4, <2>1, QuietJudged
       DEF CountTotal, CountDepth, CheckDepth, BeforeWalk, Steps, historyVars
  <2>3. UNCHANGED Counts
    BY <1>4 DEF CountTotal, CountDepth, CheckDepth, historyVars, telemetryVars
  <2>4. QED
    BY <1>3, <2>2, <2>3
<1>5. CASE Uncount(e) \/ VisitLive(e) \/ Stamp(e)
  <2>1. JudgedInv'
    BY <1>5, QuietJudged DEF Uncount, VisitLive, Stamp, InWindow, Steps, historyVars
  <2>2. UNCHANGED Counts
    BY <1>5 DEF Uncount, VisitLive, Stamp, historyVars, telemetryVars
  <2>3. QED
    BY <1>3, <2>1, <2>2
<1>6. CASE Emit(e)
  <2>1. /\ pc[e] = "emit" /\ UNCHANGED Counts
        /\ \A f \in Events \ {e} : pc'[f] = pc[f] /\ cur'[f] = cur[f]
        /\ pc'[e] \in {"visit", "done"}
    BY <1>1, <1>6 DEF Emit, GoTo, BusTypeOK, telemetryVars, historyVars, Steps
  <2>2. e \notin rejected /\ \A f \in Events, w \in Nat : <<f, w>> \in judged => f # e
    BY <2>1 DEF JudgedInv, BeforeWalk
  <2>3. \A f \in rejected : pc'[f] \in {"uncount", "done"}
    BY <2>1, <2>2 DEF JudgedInv, BusTypeOK
  <2>4. JudgedInv'
    BY <2>1, <2>2, <2>3 DEF JudgedInv
  <2>5. QED
    BY <1>3, <2>1, <2>4
<1>7. CASE VisitDeaf(e) \/ Drop(e)
  <2>1. JudgedInv' 
    BY <1>7, AdvanceJudged DEF VisitDeaf, Drop
  <2>2. UNCHANGED Counts
    BY <1>7 DEF VisitDeaf, Drop, historyVars, telemetryVars
  <2>3. QED
    BY <1>3, <2>1, <2>2
<1>8. CASE Drain(e)
  <2>1. UNCHANGED Counts
    BY <1>8 DEF Drain, historyVars, telemetryVars
  <2>2. CASE depth > 0
    BY <1>3, <1>8, <2>1, <2>2, QuietJudged DEF Drain, InWindow, Steps
  <2>3. CASE ~ (depth > 0)
    BY <1>3, <1>8, <2>1, <2>3, AdvanceJudged DEF Drain
  <2>4. QED
    BY <2>2, <2>3
<1>9. CASE VisitDangling(e)
  BY <1>3, <1>9 DEF VisitDangling, JudgedInv, pushVars, telemetryVars, historyVars
<1>10. CASE Accept(e) \/ NullRoute(e)
  <2>1. Cardinality(judged') = Cardinality(judged) + 1
    BY <1>2, <1>10, RulingJudged, FS_AddElement
  <2>2. accepted' + nullRouted' = accepted + nullRouted + 1 /\ rejected' = rejected
    BY <1>1, <1>10 DEF Accept, NullRoute
  <2>3. CountersAgree'
    BY <1>1, <1>2, <2>1, <2>2, FS_CardinalityType DEF CountersAgree
  <2>4. QED
    BY <1>10, <2>3, RulingJudged
<1>11. CASE Refuse(e)
  <2>1. rejected' = rejected \cup {e} /\ e \notin rejected
    BY <1>11, RefuseJudged DEF Refuse
  <2>2. Cardinality(rejected') = Cardinality(rejected) + 1
    BY <1>2, <2>1, FS_AddElement
  <2>3. accepted' + nullRouted' = accepted + nullRouted + 1 /\ judged' = judged
    BY <1>1, <1>11 DEF Refuse
  <2>4. CountersAgree'
    BY <1>1, <1>2, <2>2, <2>3, FS_CardinalityType DEF CountersAgree
  <2>5. QED
    BY <1>11, <2>4, RefuseJudged
<1>12. QED
  BY <1>4, <1>5, <1>6, <1>7, <1>8, <1>9, <1>10, <1>11 DEF Thread, PushStep

\* Every run of a handler and every refusal is counted exactly once, however the
\* threads and the windows are interleaved.
LEMMA JudgedInvariant == Spec => [](JudgedInv /\ CountersAgree)
<1>1. Init => JudgedInv /\ CountersAgree
  <2> SUFFICES ASSUME Init PROVE JudgedInv /\ CountersAgree
      OBVIOUS
  <2>1. judged = {} /\ rejected = {} /\ accepted = 0 /\ nullRouted = 0
    BY DEF Init, BusInit
  <2>2. IsFiniteSet({}) /\ Cardinality({}) = 0
    BY FS_EmptySet
  <2>3. QED
    BY <2>1, <2>2 DEF JudgedInv, CountersAgree
<1>2. BusTypeOK /\ JudgedInv /\ CountersAgree /\ [Next]_vars => (JudgedInv /\ CountersAgree)'
  <2> SUFFICES ASSUME BusTypeOK, JudgedInv, CountersAgree, [Next]_vars
               PROVE  (JudgedInv /\ CountersAgree)'
      OBVIOUS
  <2>1. CASE UNCHANGED busVars
    BY <2>1 DEF busVars, pushVars, telemetryVars, historyVars, JudgedInv, CountersAgree
  <2>2. QED
    BY <2>1, ThreadCounts DEF Next, Timer, vars
<1>3. QED
  BY <1>1, <1>2, BusTypeCorrect, PTL DEF Spec

\* accepted_events and null_routed_events count every ruling of the handler and every
\* refusal of pushEvent once, for any number of threads and windows.
THEOREM CountersAlwaysAgree == Spec => []CountersAgree
  BY JudgedInvariant, PTL

-----------------------------------------------------------------------------
(* The walk over the windows. *)

\* A thread moves only itself.
LEMMA OnlyItself ==
    ASSUME BusTypeOK, NEW e \in Events, Thread(e), NEW f \in Events \ {e}
    PROVE  pc'[f] = pc[f] /\ cur'[f] = cur[f] /\ stop'[f] = stop[f]
  BY DEF BusTypeOK, Thread, PushStep, CountTotal, CountDepth, CheckDepth, Refuse, Uncount, Emit,
         VisitLive, VisitDeaf, VisitDangling, Accept, NullRoute, Stamp, Drain, Drop,
         Advance, GoTo, pushVars

\* The newest observed window is on the list and open when an event is emitted:
\* the step of the event's thread that starts the walk goes over it.
LEMMA EmitStep ==
    ASSUME BusTypeOK, TimerInv, [Next]_vars, NEW e \in Events,
           pc[e] = "emit", pc'[e] # "emit", Listening, observed > 0
    PROVE  \E w \in cur'[e] .. stop'[e] - 1 : Live(w)
<1>1. Emit(e)
  <2>1. ASSUME NEW f \in Events, Thread(f) PROVE f = e
    BY <2>1, OnlyItself
  <2>2. Thread(e)
    BY <2>1 DEF Next, Timer, vars, busVars, pushVars
  <2>3. QED
    BY <2>2 DEF Thread, PushStep, CountTotal, CountDepth, CheckDepth, Refuse, Uncount,
                VisitLive, VisitDeaf, VisitDangling, Accept, NullRoute, Stamp, Drain, Drop
<1>2. /\ pushed \in Nat /\ observed \in Nat /\ completed \in Nat /\ popped \in Nat
      /\ popped <= completed /\ completed < observed /\ observed <= pushed
  BY DEF TimerInv, TimerTypeOK, CountersInv, WindowsCovered, Created
<1>3. cur'[e] = popped /\ stop'[e] = pushed
  BY <1>1, <1>2 DEF Emit, BusTypeOK, OnBus
<1>4. observed - 1 \in cur'[e] .. stop'[e] - 1 /\ Live(observed - 1)
  BY <1>2, <1>3 DEF Live
<1>5. QED
  BY <1>4

\* After the first window was observed and until the subscription ends every emitted
\* event sets out on a list with a window that would hear it then, for any number of
\* threads and however late the window thread is.
THEOREM EmitAlwaysFindsLive == Spec => EmitFindsLive
<1>1. BusTypeOK /\ TimerInv /\ [Next]_vars =>
        \A e \in Events :
          (pc[e] = "emit" /\ pc'[e] # "emit" /\ Listening /\ observed > 0)
              => \E w \in cur'[e] .. stop'[e] - 1 : Live(w)
  BY EmitStep
<1>2. QED
  BY <1>1, BusTypeCorrect, BusTimerInvariant, PTL DEF Spec, EmitFindsLive

\* Once the operator has left vent_bus nobody starts to walk the windows.
THEOREM DisposedAlwaysDrains == Spec => DisposedDrains
<1>1. ASSUME BusTypeOK, [Next]_vars, ~ OnBus
      PROVE  Walking' \subseteq Walking
  <2>1. CASE UNCHANGED busVars
    BY <2>1 DEF busVars, pushVars, Walking
  <2>2. ASSUME NEW e \in Events, Thread(e)
        PROVE  Walking' \subseteq Walking
    <3>1. pc'[e] \in {"visit", "judge", "stamp", "drain", "drop"} => e \in Walking
      BY <1>1, <2>2 DEF Walking, BusTypeOK, Thread, PushStep, CountTotal, CountDepth,
         CheckDepth, Refuse, Uncount, Emit, VisitLive, VisitDeaf, VisitDangling, Accept,
         NullRoute, Stamp, Drain, Drop, GoTo
    <3>2. QED
      BY <1>1, <2>2, <3>1, OnlyItself DEF Walking
  <2>3. QED
    BY <1>1, <2>1, <2>2 DEF Next, Timer, vars
<1>2. BusTypeOK /\ [Next]_vars => (~ OnBus => Walking' \subseteq Walking)
  BY <1>1
<1>3. QED
  BY <1>2, BusTypeCorrect, PTL DEF Spec, DisposedDrains

-----------------------------------------------------------------------------
(* The ledger. *)

Finished == {e \in Events : pc[e] = "done"}

\* A walk stays on windows that were pushed.
WalkInv ==
    \A e \in Walking : cur[e] < stop[e] /\ stop[e] <= pushed

\* A step of a pushing thread keeps its walk within the windows that were opened.
LEMMA WalkStep ==
    ASSUME BusTypeOK, WalkInv, NEW e \in Events, Thread(e)
    PROVE  WalkInv'
<1>1. /\ pc \in [Events -> Steps] /\ cur \in [Events -> Nat] /\ stop \in [Events -> Nat]
      /\ pushed \in Nat /\ popped \in Nat /\ pushed' = pushed
  BY DEF BusTypeOK, TimerTypeOK, Thread, timerVars, windowVars
<1>2. \A f \in Events \ {e} : f \in Walking' => cur'[f] < stop'[f] /\ stop'[f] <= pushed'
  BY <1>1, OnlyItself DEF WalkInv, Walking
<1>3. ASSUME Advance(e), e \in Walking, e \in Walking'
      PROVE  cur'[e] < stop'[e] /\ stop'[e] <= pushed'
  <2>1. cur[e] + 1 < stop[e]
    BY <1>1, <1>3 DEF Advance, GoTo, Walking
  <2>2. QED
    BY <1>1, <1>3, <2>1 DEF Advance, WalkInv
<1>4. ASSUME e \in Walking' PROVE cur'[e] < stop'[e] /\ stop'[e] <= pushed'
  <2>1. CASE Emit(e)
    BY <1>1, <1>4, <2>1 DEF Emit, GoTo, Walking
  <2>2. CASE VisitDeaf(e) \/ Drop(e) \/ (Drain(e) /\ ~ (depth > 0))
    BY <1>3, <1>4, <2>2 DEF VisitDeaf, Drop, Drain, Walking
  <2>3. CASE \/ VisitLive(e) \/ VisitDangling(e) \/ Accept(e) \/ NullRoute(e) \/ Stamp(e)
             \/ (Drain(e) /\ depth > 0)
    BY <1>1, <2>3 DEF VisitLive, VisitDangling, Accept, NullRoute, Stamp, Drain, pushVars,
                      WalkInv, Walking
  <2>4. CASE CountTotal(e) \/ CountDepth(e) \/ CheckDepth(e) \/ Refuse(e) \/ Uncount(e)
    BY <1>1, <1>4, <2>4 DEF CountTotal, CountDepth, CheckDepth, Refuse, Uncount, GoTo, Walking
  <2>5. QED
    BY <2>1, <2>2, <2>3, <2>4 DEF Thread, PushStep
<1>5. QED
  BY <1>2, <1>4 DEF WalkInv, Walking

\* The windows of the list only come.
LEMMA PushedGrows ==
    ASSUME BusTypeOK, Timer
    PROVE  pushed' \in {pushed, pushed + 1} /\ UNCHANGED busVars
  BY DEF Timer, TimerNext, TimerThread, RunTask, Subscribe, Tick, PushWindow, Produce, Release,
         CompleteWindow, ObserveWindow, AbandonWindow, PopWindow, DisposeSelf, Ends, End,
         Deafen, Leave, Silence, Dispose, JoinTimer, ClockAdvances, windowVars

\* The walks stay within the windows that were opened.
LEMMA WalkInvariant == Spec => []WalkInv
<1>1. Init => WalkInv
  BY DEF Init, BusInit, WalkInv, Walking
<1>2. ASSUME BusTypeOK, WalkInv, [Next]_vars PROVE WalkInv'
  <2>1. CASE Timer
    <3>1. pushed \in Nat /\ stop \in [Events -> Nat] /\ UNCHANGED <<pc, cur, stop>>
      BY <1>2, <2>1 DEF BusTypeOK, TimerTypeOK, Timer, busVars, pushVars
    <3>2. QED
      BY <1>2, <2>1, <3>1, PushedGrows DEF WalkInv, Walking
  <2>2. CASE UNCHANGED vars
    BY <1>2, <2>2 DEF WalkInv, Walking, vars, timerVars, windowVars, busVars, pushVars
  <2>3. QED
    BY <1>2, <2>1, <2>2, WalkStep DEF Next
<1>3. BusTypeOK /\ WalkInv /\ [Next]_vars => WalkInv'
  BY <1>2
<1>4. QED
  BY <1>1, <1>3, BusTypeCorrect, PTL DEF Spec

\* A thread that stays in pushEvent, or leaves it, as the ledger sees it.
LEMMA StaysInside ==
    ASSUME BusTypeOK, NEW e \in Events, Thread(e), e \in Running, pc'[e] \notin {"new", "done"}
    PROVE  Running' = Running /\ Finished' = Finished
  BY OnlyItself DEF Running, Finished

\* The thread leaves pushEvent.
LEMMA Leaves ==
    ASSUME BusTypeOK, NEW e \in Events, Thread(e), e \in Running, pc'[e] = "done"
    PROVE  Running' = Running \ {e} /\ Finished' = Finished \cup {e}
  BY OnlyItself DEF Running, Finished

\* A step that only moves the thread along, or back to its caller.
LEMMA MovesAlong ==
    ASSUME BusTypeOK, NEW e \in Events, Thread(e), e \in Running, pc'[e] # "new",
           UNCHANGED <<total, accepted, nullRouted, judged, rejected>>
    PROVE  Ledger!Next \/ UNCHANGED Ledger!ledgerVars
<1>1. UNCHANGED pushed
  BY DEF Thread, timerVars, windowVars
<1>2. CASE pc'[e] # "done"
  BY <1>1, <1>2, StaysInside DEF Ledger!ledgerVars, Finished
<1>3. CASE pc'[e] = "done"
  <2>1. Ledger!Leave(e)
    BY <1>1, <1>3, Leaves DEF Ledger!Leave, Finished
  <2>2. QED
    BY <2>1 DEF Ledger!Next
<1>4. QED
  BY <1>2, <1>3

\* Every step of a pushing thread is a step of the ledger, or none.
LEMMA ThreadLedger ==
    ASSUME BusTypeOK, JudgedInv, WalkInv, NEW e \in Events, Thread(e)
    PROVE  Ledger!Next \/ UNCHANGED Ledger!ledgerVars
<1>1. /\ pc \in [Events -> Steps] /\ cur \in [Events -> Nat] /\ pushed \in Nat
      /\ judged \in SUBSET (Events \X Nat) /\ pushed' = pushed
  BY DEF BusTypeOK, TimerTypeOK, Thread, timerVars, windowVars
<1>2. CASE CountTotal(e)
  <2>1. pc[e] = "new" /\ pc'[e] = "count"
    BY <1>1, <1>2 DEF CountTotal, GoTo
  <2>2. Running' = Running \cup {e} /\ Finished' = Finished /\ e \notin Running \cup Finished
    BY <2>1, OnlyItself DEF Running, Finished
  <2>3. Ledger!Enter(e)
    BY <1>1, <1>2, <2>2 DEF CountTotal, Ledger!Enter, Finished, historyVars
  <2>4. QED
    BY <2>3 DEF Ledger!Next
<1>3. CASE Accept(e) \/ NullRoute(e)
  <2>1. e \in Running /\ pc'[e] \notin {"new", "done"}
    BY <1>1, <1>3 DEF Accept, NullRoute, GoTo, Running
  <2>2. e \notin rejected
    BY <1>3 DEF Accept, NullRoute, JudgedInv
  <2>3. cur[e] \in 0 .. pushed - 1
    BY <1>1, <1>3 DEF Accept, NullRoute, WalkInv, Walking, BusTypeOK
  <2>4. <<e, cur[e]>> \notin judged
    BY <1>3, RulingJudged
  <2>5. Ledger!Judge(e, cur[e])
    BY <1>1, <1>3, <2>1, <2>2, <2>4, StaysInside
       DEF Accept, NullRoute, Ledger!Judge, Finished
  <2>6. QED
    BY <2>3, <2>5 DEF Ledger!Next
<1>4. CASE Refuse(e)
  <2>1. e \in Running /\ pc'[e] \notin {"new", "done"}
    BY <1>1, <1>4 DEF Refuse, GoTo, Running
  <2>2. \A ruling \in judged : ruling[1] # e
    <3>1. \A f \in Events, w \in Nat : <<f, w>> \in judged => f # e
      BY <1>4 DEF Refuse, JudgedInv, BeforeWalk
    <3>2. QED
      BY <1>1, <3>1
  <2>3. Ledger!Reject(e)
    BY <1>1, <1>4, <2>1, <2>2, StaysInside, RefuseJudged
       DEF Refuse, Ledger!Reject, Finished
  <2>4. QED
    BY <2>3 DEF Ledger!Next
<1>5. CASE \/ CountDepth(e) \/ CheckDepth(e) \/ Uncount(e) \/ Emit(e) \/ VisitLive(e)
           \/ Stamp(e) \/ VisitDangling(e)
  <2>1. e \in Running /\ pc'[e] # "new"
    BY <1>1, <1>5 DEF CountDepth, CheckDepth, Uncount, Emit, VisitLive, Stamp, VisitDangling,
       GoTo, Running, pushVars
  <2>2. UNCHANGED <<total, accepted, nullRouted, judged, rejected>>
    BY <1>5 DEF CountDepth, CheckDepth, Uncount, Emit, VisitLive, Stamp, VisitDangling,
       telemetryVars, historyVars
  <2>3. QED
    BY <2>1, <2>2, MovesAlong
<1>6. CASE VisitDeaf(e) \/ Drain(e) \/ Drop(e)
  <2>1. e \in Running /\ pc'[e] # "new"
    BY <1>1, <1>6 DEF VisitDeaf, Drain, Drop, Advance, GoTo, Running
  <2>2. UNCHANGED <<total, accepted, nullRouted, judged, rejected>>
    BY <1>6 DEF VisitDeaf, Drain, Drop, telemetryVars, historyVars
  <2>3. QED
    BY <2>1, <2>2, MovesAlong
<1>7. QED
  BY <1>2, <1>3, <1>4, <1>5, <1>6 DEF Thread, PushStep

\* The threads, the windows and the counters implement the ledger: each event is
\* counted in once, judged at most once by a window, and never after a refusal.
THEOREM BusImplementsLedger == Spec => ImplementsEventLedger
<1>1. Init => Ledger!Init
  BY DEF Init, TimerInit, BusInit, Ledger!Init, Running
<1>2. ASSUME BusTypeOK, JudgedInv, WalkInv, [Next]_vars
      PROVE  Ledger!Next \/ UNCHANGED Ledger!ledgerVars
  <2>1. CASE UNCHANGED vars
    BY <2>1 DEF vars, timerVars, windowVars, busVars, pushVars, telemetryVars, historyVars,
                Running, Ledger!ledgerVars
  <2>2. CASE Timer
    <3>1. /\ UNCHANGED <<Running, Finished, judged, rejected, total, accepted, nullRouted>>
          /\ pushed' \in {pushed, pushed + 1}
      BY <1>2, <2>2, PushedGrows
         DEF busVars, pushVars, telemetryVars, historyVars, Running, Finished
    <3>2. CASE pushed' = pushed
      BY <3>1, <3>2 DEF Ledger!ledgerVars, Finished
    <3>3. CASE pushed' = pushed + 1
      <4>1. Ledger!OpenWindow
        BY <3>1, <3>3 DEF Ledger!OpenWindow, Finished
      <4>2. QED
        BY <4>1 DEF Ledger!Next
    <3>4. QED
      BY <3>1, <3>2, <3>3
  <2>3. QED
    BY <1>2, <2>1, <2>2, ThreadLedger DEF Next
<1>3. BusTypeOK /\ JudgedInv /\ WalkInv /\ [Next]_vars => [Ledger!Next]_(Ledger!ledgerVars)
  BY <1>2
<1>4. QED
  BY <1>1, <1>3, BusTypeCorrect, JudgedInvariant, WalkInvariant, PTL
     DEF Spec, ImplementsEventLedger, Ledger!Spec

-----------------------------------------------------------------------------
(* queue_depth.  With one window at most, every thread that was counted in is *)
(* in pushEvent, counted out, or went unheard; and those that got past the    *)
(* check never were more than Limit, so that the counter is far from its end. *)

Paid == Counted \cup Unheard
PastCheck == {e \in Events : pc[e] = "emit"} \cup Walking \cup Unheard

\* What the handler and the refusal have written down of a thread inside them.
NotedInv ==
    /\ \A e \in Events : pc[e] \in InWindow => <<e, cur[e]>> \in judged
    /\ \A e \in Events : pc[e] = "uncount" => e \in rejected

RunningInv == IsFiniteSet(Running) /\ Cardinality(Running) <= MaxThreads

DepthInv ==
    pushed <= 1 => /\ IsFiniteSet(Paid)
                   /\ depth = Cardinality(Paid)
                   /\ Cardinality(PastCheck) <= Limit

\* A thread in the handler has been judged, one on its way out refused.
LEMMA NotedStep ==
    ASSUME BusTypeOK, NotedInv, NEW e \in Events, Thread(e)
    PROVE  NotedInv'
<1>1. /\ pc \in [Events -> Steps] /\ cur \in [Events -> Nat]
      /\ judged \subseteq judged' /\ rejected \subseteq rejected'
  BY DEF BusTypeOK, Thread, PushStep, CountTotal, CountDepth, CheckDepth, Refuse, Uncount, Emit,
         VisitLive, VisitDeaf, VisitDangling, Accept, NullRoute, Stamp, Drain, Drop, historyVars
<1>2. \A f \in Events \ {e} : /\ pc'[f] \in InWindow => <<f, cur'[f]>> \in judged'
                              /\ pc'[f] = "uncount" => f \in rejected'
  BY <1>1, OnlyItself DEF NotedInv
<1>3. pc'[e] \in InWindow => <<e, cur'[e]>> \in judged'
  <2>1. CASE Accept(e) \/ NullRoute(e)
    BY <2>1 DEF Accept, NullRoute
  <2>2. CASE Stamp(e) \/ Drain(e) \/ VisitDangling(e)
    BY <1>1, <2>2 DEF Stamp, Drain, VisitDangling, Advance, GoTo, pushVars, historyVars,
                      NotedInv, InWindow
  <2>3. CASE ~ (Accept(e) \/ NullRoute(e) \/ Stamp(e) \/ Drain(e) \/ VisitDangling(e))
    BY <1>1, <2>3 DEF Thread, PushStep, CountTotal, CountDepth, CheckDepth, Refuse, Uncount,
                      Emit, VisitLive, VisitDeaf, Drop, Advance, GoTo, InWindow
  <2>4. QED
    BY <2>1, <2>2, <2>3
<1>4. pc'[e] = "uncount" => e \in rejected'
  BY <1>1 DEF Thread, PushStep, CountTotal, CountDepth, CheckDepth, Refuse, Uncount, Emit,
              VisitLive, VisitDeaf, VisitDangling, Accept, NullRoute, Stamp, Drain, Drop,
              Advance, GoTo, pushVars
<1>5. QED
  BY <1>2, <1>3, <1>4 DEF NotedInv

\* No more than MaxThreads threads are in pushEvent.
LEMMA RunningStep ==
    ASSUME BusTypeOK, RunningInv, NEW e \in Events, Thread(e)
    PROVE  RunningInv'
<1>1. CASE CountTotal(e)
  <2>1. Running' = Running \cup {e} /\ e \notin Running
    BY <1>1, OnlyItself DEF CountTotal, GoTo, Running, BusTypeOK
  <2>2. IsFiniteSet(Running') /\ Cardinality(Running') = Cardinality(Running) + 1
    BY <2>1, FS_AddElement DEF RunningInv
  <2>3. Cardinality(Running) \in Nat /\ Cardinality(Running) < MaxThreads
    BY <1>1, FS_CardinalityType DEF CountTotal, RunningInv
  <2>4. QED
    BY <2>2, <2>3, BusAssumption DEF RunningInv
<1>2. CASE ~ CountTotal(e)
  <2>1. pc[e] \notin {"new", "done"}
    BY <1>2 DEF Thread, PushStep, CountDepth, CheckDepth, Refuse, Uncount, Emit, VisitLive,
                VisitDeaf, VisitDangling, Accept, NullRoute, Stamp, Drain, Drop
  <2>2. Running' \subseteq Running
    BY <2>1, OnlyItself DEF Running
  <2>3. QED
    BY <2>2, FS_Subset, FS_CardinalityType, BusAssumption DEF RunningInv
<1>3. QED
  BY <1>1, <1>2

\* Those counted in, P, are at most those past the check, Q, and those inside, R.
LEMMA PaidBounded ==
    ASSUME NEW P, NEW Q, NEW R, Q \subseteq P, P \subseteq Q \cup R,
           IsFiniteSet(P), IsFiniteSet(R),
           Cardinality(Q) <= Limit, Cardinality(R) <= MaxThreads,
           MaxThreads + Limit < DepthMod
    PROVE  Cardinality(P) < DepthMod
<1>1. IsFiniteSet(Q)
  BY FS_Subset
<1>2. /\ IsFiniteSet(Q \cup R) /\ IsFiniteSet(Q \cap R)
      /\ Cardinality(Q \cup R) = Cardinality(Q) + Cardinality(R) - Cardinality(Q \cap R)
  BY <1>1, FS_Union, FS_Intersection
<1>3. Cardinality(P) <= Cardinality(Q \cup R)
  BY <1>2, FS_Subset
<1>4. /\ Cardinality(P) \in Nat /\ Cardinality(Q) \in Nat /\ Cardinality(R) \in Nat
      /\ Cardinality(Q \cap R) \in Nat
  BY <1>1, <1>2, FS_CardinalityType
<1>5. QED
  BY <1>2, <1>3, <1>4, BusAssumption

\* A thread comes in with its place in the queue, and leaves with it or unheard.
LEMMA DepthStep ==
    ASSUME BusTypeOK, JudgedInv, WalkInv, NotedInv, RunningInv, DepthInv, RunningInv',
           MaxThreads + Limit < DepthMod, NEW e \in Events, Thread(e)
    PROVE  DepthInv'
<1> SUFFICES ASSUME pushed <= 1
             PROVE  /\ IsFiniteSet(Paid') /\ depth' = Cardinality(Paid')
                    /\ Cardinality(PastCheck') <= Limit
  BY DEF DepthInv, Thread, timerVars, windowVars
<1>1. /\ pc \in [Events -> Steps] /\ cur \in [Events -> Nat] /\ stop \in [Events -> Nat]
      /\ depth \in Nat /\ Limit \in Nat /\ DepthMod \in Nat \ {0} /\ pushed \in Nat
  BY BusAssumption DEF BusTypeOK, TimerTypeOK
<1>2. /\ IsFiniteSet(Paid) /\ depth = Cardinality(Paid) /\ Cardinality(PastCheck) <= Limit
      /\ PastCheck \subseteq Paid /\ depth < DepthMod
  <2>1. PastCheck \subseteq Paid /\ Paid \subseteq PastCheck \cup Running
    BY DEF PastCheck, Paid, Counted, Running, Walking
  <2>2. QED
    BY <2>1, PaidBounded DEF DepthInv, RunningInv
<1>3. \A f \in Events \ {e} : /\ f \in Paid' <=> f \in Paid
                              /\ f \in PastCheck' <=> f \in PastCheck
  <2>1. /\ judged' \in {judged, judged \cup {<<e, cur[e]>>}}
        /\ rejected' \in {rejected, rejected \cup {e}}
    BY DEF Thread, PushStep, CountTotal, CountDepth, CheckDepth, Refuse, Uncount, Emit,
           VisitLive, VisitDeaf, VisitDangling, Accept, NullRoute, Stamp, Drain, Drop,
           historyVars
  <2>2. ASSUME NEW f \in Events \ {e}
        PROVE  /\ pc'[f] = pc[f]
               /\ f \in rejected' <=> f \in rejected
               /\ (\A v \in judged' : v[1] # f) <=> (\A v \in judged : v[1] # f)
    <3>1. <<e, cur[e]>>[1] # f
      OBVIOUS
    <3>2. (\A v \in judged' : v[1] # f) <=> (\A v \in judged : v[1] # f)
      BY <2>1, <3>1
    <3>3. QED
      BY <2>1, <3>2, OnlyItself
  <2>3. QED
    BY <2>2 DEF Paid, PastCheck, Counted, Running, Unheard, Walking
<1>4. Paid \subseteq Events /\ PastCheck \subseteq Events
  BY DEF Paid, PastCheck, Counted, Running, Unheard, Walking
<1>5. Paid' \subseteq Events /\ PastCheck' \subseteq Events
  BY DEF Paid, PastCheck, Counted, Running, Unheard, Walking
<1>6. ASSUME e \in Paid' <=> e \in Paid, e \in PastCheck' <=> e \in PastCheck, depth' = depth
      PROVE  /\ IsFiniteSet(Paid') /\ depth' = Cardinality(Paid')
             /\ Cardinality(PastCheck') <= Limit
  <2>1. Paid' = Paid /\ PastCheck' = PastCheck
    BY <1>3, <1>4, <1>5, <1>6
  <2>2. QED
    BY <1>2, <1>6, <2>1
<1>7. ASSUME e \in Paid, e \notin Paid', e \notin PastCheck', depth' = (depth - 1) % DepthMod
      PROVE  /\ IsFiniteSet(Paid') /\ depth' = Cardinality(Paid')
             /\ Cardinality(PastCheck') <= Limit
  <2>1. Paid' = Paid \ {e} /\ PastCheck' \subseteq PastCheck
    BY <1>3, <1>4, <1>5, <1>7
  <2>2. IsFiniteSet(Paid') /\ Cardinality(Paid') = Cardinality(Paid) - 1
    BY <1>2, <1>7, <2>1, FS_RemoveElement
  <2>3. depth - 1 \in Nat /\ depth - 1 < DepthMod
    BY <1>1, <1>2, <2>2, FS_CardinalityType
  <2>4. (depth - 1) % DepthMod = depth - 1
    BY <1>1, <2>3
  <2>5. Cardinality(PastCheck') <= Cardinality(PastCheck) /\ Cardinality(PastCheck') \in Nat
        /\ Cardinality(PastCheck) \in Nat
    BY <1>2, <2>1, FS_Subset, FS_CardinalityType
  <2>6. QED
    BY <1>1, <1>2, <1>7, <2>2, <2>4, <2>5
<1>8. /\ cur[e] + 1 < stop[e] => pc[e] \notin {"visit", "judge", "stamp", "drain", "drop"}
      /\ pc[e] \in {"visit", "judge"} => \A v \in judged : v[1] # e
  <2>1. e \in Walking => cur[e] = 0 /\ stop[e] = 1
    BY <1>1 DEF WalkInv
  <2>2. pc[e] \in {"visit", "judge"} => \A w \in Nat : <<e, w>> \notin judged
    BY <1>1, <2>1 DEF JudgedInv, Walking, InWindow
  <2>3. QED
    BY <1>1, <2>1, <2>2 DEF Walking, BusTypeOK
<1>9. pc[e] \in BeforeWalk => \A v \in judged : v[1] # e
  <2>1. pc[e] \in BeforeWalk => \A w \in Nat : <<e, w>> \notin judged
    BY DEF JudgedInv
  <2>2. QED
    BY <2>1 DEF BusTypeOK
<1>10. pc[e] \notin {"uncount", "done"} => e \notin rejected
  BY DEF JudgedInv
<1>11. CASE CountDepth(e)
  <2>1. e \notin Paid /\ e \in Paid' /\ e \notin PastCheck /\ e \notin PastCheck'
    BY <1>1, <1>11 DEF CountDepth, GoTo, Paid, PastCheck, Counted, Running, Unheard, Walking
  <2>2. Paid' = Paid \cup {e} /\ PastCheck' = PastCheck
    BY <1>3, <1>4, <1>5, <2>1
  <2>3. IsFiniteSet(Paid') /\ Cardinality(Paid') = Cardinality(Paid) + 1
    BY <1>2, <2>1, <2>2, FS_AddElement
  <2>4. Cardinality(PastCheck') <= Limit
    BY <1>2, <2>2
  <2>5. Cardinality(Paid') < DepthMod
    <3>1. PastCheck' \subseteq Paid' /\ Paid' \subseteq PastCheck' \cup Running'
      BY DEF PastCheck, Paid, Counted, Running, Walking
    <3>2. QED
      BY <2>3, <2>4, <3>1, PaidBounded DEF RunningInv
  <2>6. QED
    BY <1>1, <1>2, <1>11, <2>3, <2>4, <2>5 DEF CountDepth
<1>12. CASE CheckDepth(e)
  <2>1. e \in Paid /\ e \in Paid' /\ depth' = depth /\ (depth > Limit => e \notin PastCheck')
        /\ e \notin PastCheck
    BY <1>1, <1>12 DEF CheckDepth, GoTo, Paid, PastCheck, Counted, Running, Unheard, Walking,
                       telemetryVars
  <2>2. Paid' = Paid
    BY <1>3, <1>4, <1>5, <2>1
  <2>3. CASE depth > Limit
    BY <1>6, <2>1, <2>3
  <2>4. CASE ~ (depth > Limit)
    <3>1. PastCheck' \subseteq Paid
      BY <1>2, <1>3, <1>5, <2>1
    <3>2. Cardinality(PastCheck') <= Cardinality(Paid) /\ Cardinality(PastCheck') \in Nat
      BY <1>2, <3>1, FS_Subset, FS_CardinalityType
    <3>3. QED
      BY <1>1, <1>2, <2>1, <2>2, <2>4, <3>2
  <2>5. QED
    BY <2>3, <2>4
<1>13. CASE Uncount(e)
  <2>1. e \in Paid /\ e \notin Paid' /\ e \notin PastCheck'
    BY <1>1, <1>13 DEF Uncount, GoTo, Paid, PastCheck, Counted, Running, Unheard, Walking,
                       NotedInv, historyVars
  <2>2. QED
    BY <1>7, <1>13, <2>1 DEF Uncount
<1>14. CASE Emit(e)
  <2>1. e \in Paid /\ e \in PastCheck /\ pc'[e] \in {"visit", "done"} /\ depth' = depth
        /\ judged' = judged /\ rejected' = rejected
    BY <1>1, <1>14 DEF Emit, GoTo, Paid, PastCheck, Counted, Running, telemetryVars, historyVars
  <2>2. e \in Paid' /\ e \in PastCheck'
    BY <1>9, <1>10, <1>14, <2>1
       DEF Emit, Paid, PastCheck, Counted, Running, Unheard, Walking, BeforeWalk
  <2>3. QED
    BY <1>6, <2>1, <2>2
<1>15. CASE VisitDeaf(e)
  <2>1. pc[e] = "visit" /\ pc'[e] = "done" /\ depth' = depth
        /\ judged' = judged /\ rejected' = rejected
    BY <1>1, <1>8, <1>15 DEF VisitDeaf, Advance, GoTo, telemetryVars, historyVars
  <2>2. e \in Paid /\ e \in PastCheck /\ e \in Paid' /\ e \in PastCheck'
    BY <1>8, <1>10, <2>1 DEF Paid, PastCheck, Counted, Running, Unheard, Walking
  <2>3. QED
    BY <1>6, <2>1, <2>2
<1>16. CASE Drain(e)
  <2>1. pc[e] = "drain" /\ e \in Paid /\ e \in PastCheck
    BY <1>16 DEF Drain, Paid, PastCheck, Counted, Running, Walking
  <2>2. depth > 0
    BY <1>1, <1>2, <2>1, FS_EmptySet
  <2>3. pc'[e] = "drop" /\ depth' = depth
    BY <1>1, <1>16, <2>2 DEF Drain, GoTo, telemetryVars
  <2>4. e \in Paid' /\ e \in PastCheck'
    BY <2>3 DEF Paid, PastCheck, Counted, Running, Walking
  <2>5. QED
    BY <1>6, <2>1, <2>3, <2>4
<1>17. CASE Drop(e)
  <2>1. pc[e] = "drop" /\ pc'[e] = "done" /\ <<e, cur[e]>> \in judged /\ judged' = judged
    BY <1>1, <1>8, <1>17 DEF Drop, Advance, GoTo, NotedInv, InWindow, historyVars
  <2>2. \E v \in judged' : v[1] = e
    BY <2>1
  <2>3. e \in Paid /\ e \notin Paid' /\ e \notin PastCheck'
    BY <2>1, <2>2 DEF Paid, PastCheck, Counted, Running, Unheard, Walking
  <2>4. QED
    BY <1>7, <1>17, <2>3 DEF Drop
<1>18. CASE CountTotal(e) \/ Refuse(e)
  <2>1. /\ depth' = depth /\ e \notin PastCheck /\ e \notin PastCheck'
        /\ e \in Paid' <=> e \in Paid
    BY <1>1, <1>18 DEF CountTotal, Refuse, GoTo, Paid, PastCheck, Counted, Running, Unheard,
                       Walking
  <2>2. QED
    BY <1>6, <2>1
<1>19. CASE VisitLive(e) \/ VisitDangling(e) \/ Accept(e) \/ NullRoute(e) \/ Stamp(e)
  <2>1. /\ pc[e] \in {"visit", "judge", "stamp"} /\ depth' = depth
        /\ pc'[e] \in {"visit", "judge", "stamp", "drain"}
    BY <1>1, <1>19 DEF VisitLive, VisitDangling, Accept, NullRoute, Stamp, GoTo, pushVars,
                       telemetryVars
  <2>2. e \in Paid /\ e \in PastCheck /\ e \in Paid' /\ e \in PastCheck'
    BY <2>1 DEF Paid, PastCheck, Counted, Running, Walking
  <2>3. QED
    BY <1>6, <2>1, <2>2
<1>20. QED
  BY <1>11, <1>12, <1>13, <1>14, <1>15, <1>16, <1>17, <1>18, <1>19 DEF Thread, PushStep

\* As long as there was never a second window queue_depth counts exactly the events
\* inside and those that went unheard, for any number of events and any limit: the
\* threads of the process must only be fewer than the counter has numbers to spare.
THEOREM DepthAlwaysExact ==
    ASSUME MaxThreads + Limit < DepthMod
    PROVE  Spec => []DepthExact
<1> DEFINE All == NotedInv /\ RunningInv /\ DepthInv
<1>1. Init => All
  <2> SUFFICES ASSUME Init PROVE All
      OBVIOUS
  <2>1. IsFiniteSet({}) /\ Cardinality({}) = 0
    BY FS_EmptySet
  <2>2. Running = {} /\ Paid = {} /\ PastCheck = {} /\ depth = 0
    BY DEF Init, BusInit, Running, Paid, PastCheck, Counted, Unheard, Walking
  <2>3. NotedInv
    BY DEF Init, BusInit, NotedInv, InWindow
  <2>4. QED
    BY <2>1, <2>2, <2>3, BusAssumption DEF RunningInv, DepthInv
<1>2. BusTypeOK /\ JudgedInv /\ WalkInv /\ All /\ [Next]_vars => All'
  <2> SUFFICES ASSUME BusTypeOK, JudgedInv, WalkInv, All, [Next]_vars PROVE All'
      OBVIOUS
  <2>1. CASE Timer \/ UNCHANGED vars
    <3>1. /\ UNCHANGED <<pc, cur, stop, depth, judged, rejected>>
          /\ pushed' >= pushed /\ pushed \in Nat
      BY <2>1, PushedGrows DEF vars, timerVars, windowVars, busVars, pushVars, telemetryVars,
                               historyVars, BusTypeOK, TimerTypeOK
    <3>2. /\ Running' = Running /\ Paid' = Paid /\ PastCheck' = PastCheck
      BY <3>1 DEF Running, Paid, PastCheck, Counted, Unheard, Walking
    <3>3. pushed' <= 1 => pushed <= 1
      BY <2>1, <3>1, PushedGrows DEF vars, timerVars, windowVars
    <3>4. QED
      BY <3>1, <3>2, <3>3 DEF NotedInv, RunningInv, DepthInv
  <2>2. ASSUME NEW e \in Events, Thread(e) PROVE All'
    BY <2>2, NotedStep, RunningStep, DepthStep
  <2>3. QED
    BY <2>1, <2>2 DEF Next
<1>3. All => DepthExact
  <2> SUFFICES ASSUME All, pushed <= 1
               PROVE  depth = Cardinality(Counted) + Cardinality(Unheard)
      BY DEF DepthExact
  <2>1. Counted \cap Unheard = {} /\ Paid = Counted \cup Unheard /\ IsFiniteSet(Paid)
    BY DEF Counted, Unheard, Running, Paid, DepthInv
  <2>2. IsFiniteSet(Counted) /\ IsFiniteSet(Unheard)
    BY <2>1, FS_Subset
  <2>3. Cardinality(Paid) = Cardinality(Counted) + Cardinality(Unheard) - Cardinality({})
    BY <2>1, <2>2, FS_Union
  <2>4. QED
    BY <2>2, <2>3, FS_EmptySet, FS_CardinalityType DEF DepthInv
<1> HIDE DEF All
<1>4. QED
  BY <1>1, <1>2, <1>3, BusTypeCorrect, JudgedInvariant, WalkInvariant, PTL DEF Spec

-----------------------------------------------------------------------------
(* Events that nobody heard.  Until the subscription ends an unjudged walk has *)
(* only windows behind it that were told on_completed; the last one before it  *)
(* may be new to the bus, but then the one before that is still open.          *)

Unjudged(e) == \A w \in Nat : <<e, w>> \notin judged

OvertakenInv ==
    /\ \A e \in Events : pc[e] \in BeforeWalk => stop[e] = 0
    /\ \A e \in Events : pc[e] \in {"visit", "judge"} => cur[e] < stop[e]
    /\ chain \in {"none", "subscribed", "ending"} =>
          \A e \in Events : Unjudged(e) /\ e \notin rejected /\ stop[e] > 1 =>
              /\ pc[e] = "visit" => cur[e] <= completed /\ stop[e] <= observed + 1
              /\ pc[e] = "done" => stop[e] <= completed

\* The window thread only opens, observes and completes windows.
LEMMA WindowsGrow ==
    ASSUME BusTypeOK, Timer
    PROVE  /\ completed' >= completed /\ observed' >= observed
           /\ chain' \in {"none", "subscribed", "ending"} => chain \in {"none", "subscribed", "ending"}
<1>1. TimerNext /\ completed \in Nat /\ observed \in Nat
  BY DEF Timer, BusTypeOK, TimerTypeOK
<1>2. completed' >= completed /\ observed' >= observed
  BY <1>1 DEF TimerNext, TimerThread, RunTask, Subscribe, Tick, PushWindow, Produce, Release,
     CompleteWindow, ObserveWindow, AbandonWindow, PopWindow, DisposeSelf, Ends, End,
     Deafen, Leave, Silence, Dispose, JoinTimer, ClockAdvances, windowVars
<1>3. chain' \in {"none", "subscribed", "ending"} => chain \in {"none", "subscribed", "ending"}
  BY <1>1 DEF TimerNext, TimerThread, RunTask, Subscribe, Tick, PushWindow, Produce, Release,
     CompleteWindow, ObserveWindow, AbandonWindow, PopWindow, DisposeSelf, Ends, End,
     Deafen, Leave, Silence, Dispose, JoinTimer, ClockAdvances, windowVars
<1>4. QED
  BY <1>2, <1>3

\* A walk that moves on without a ruling leaves a completed window behind.
LEMMA OvertakenStep ==
    ASSUME BusTypeOK, TimerInv, JudgedInv, NotedInv, OvertakenInv, NEW e \in Events, Thread(e)
    PROVE  OvertakenInv'
<1>1. /\ pc \in [Events -> Steps] /\ cur \in [Events -> Nat] /\ stop \in [Events -> Nat]
      /\ pushed \in Nat /\ observed \in Nat /\ completed \in Nat /\ popped \in Nat
      /\ popped <= completed /\ observed <= pushed
      /\ (Listening => pushed <= observed + 1)
      /\ (Listening /\ observed > 0 => completed < observed)
      /\ UNCHANGED <<chain, pushed, observed, completed, popped>>
  BY DEF BusTypeOK, TimerTypeOK, TimerInv, CountersInv, Created, WindowsCovered, Thread,
         timerVars, windowVars
<1>2. \A f \in Events \ {e} : pc'[f] = pc[f] /\ cur'[f] = cur[f] /\ stop'[f] = stop[f]
  BY OnlyItself
<1>3. judged \subseteq judged' /\ rejected \subseteq rejected'
  BY DEF Thread, PushStep, CountTotal, CountDepth, CheckDepth, Refuse, Uncount, Emit,
         VisitLive, VisitDeaf, VisitDangling, Accept, NullRoute, Stamp, Drain, Drop, historyVars
<1>4. \A f \in Events : Unjudged(f)' /\ f \notin rejected' => Unjudged(f) /\ f \notin rejected
  BY <1>3 DEF Unjudged
<1> DEFINE
     Early(f) == pc'[f] \in BeforeWalk => stop'[f] = 0
     Within(f) == pc'[f] \in {"visit", "judge"} => cur'[f] < stop'[f]
     Overtaken(f) ==
        chain' \in {"none", "subscribed", "ending"} /\ Unjudged(f)' /\ f \notin rejected'
          /\ stop'[f] > 1 =>
              /\ pc'[f] = "visit" => cur'[f] <= completed' /\ stop'[f] <= observed' + 1
              /\ pc'[f] = "done" => stop'[f] <= completed'
<1>5. ASSUME NEW f \in Events \ {e} PROVE Early(f) /\ Within(f) /\ Overtaken(f)
  BY <1>1, <1>2, <1>4 DEF OvertakenInv
<1>6. Early(e) /\ Within(e) /\ Overtaken(e)
  <2>1. CASE CountTotal(e) \/ CountDepth(e) \/ CheckDepth(e) \/ Refuse(e)
    <3>1. pc[e] \in BeforeWalk /\ stop'[e] = stop[e]
          /\ pc'[e] \in BeforeWalk
      BY <1>1, <2>1 DEF CountTotal, CountDepth, CheckDepth, Refuse, GoTo, BeforeWalk
    <3>2. stop'[e] = 0 /\ pc'[e] \notin {"visit", "judge"}
      BY <3>1 DEF OvertakenInv, BeforeWalk
    <3>3. QED
      BY <3>2
  <2>2. CASE Uncount(e)
    <3>1. pc[e] \in BeforeWalk /\ stop'[e] = stop[e] /\ pc'[e] = "done"
      BY <1>1, <2>2 DEF Uncount, GoTo, BeforeWalk
    <3>2. stop'[e] = 0
      BY <3>1 DEF OvertakenInv
    <3>3. QED
      BY <3>1, <3>2 DEF BeforeWalk
  <2>3. CASE Emit(e)
    <3>1. pc[e] \in BeforeWalk /\ stop[e] = 0
      BY <2>3 DEF Emit, BeforeWalk, OvertakenInv
    <3>2. CASE OnBus /\ popped < pushed
      <4>1. cur'[e] = popped /\ stop'[e] = pushed /\ pc'[e] = "visit"
        BY <1>1, <2>3, <3>2 DEF Emit, GoTo
      <4>2. chain' \in {"none", "subscribed", "ending"} => Listening
        BY <1>1, <3>2 DEF OnBus, Listening
      <4>3. QED
        BY <1>1, <3>2, <4>1, <4>2 DEF BeforeWalk
    <3>3. CASE ~ (OnBus /\ popped < pushed)
      <4>1. stop'[e] = 0 /\ pc'[e] = "done"
        BY <1>1, <2>3, <3>1, <3>3 DEF Emit, GoTo
      <4>2. QED
        BY <4>1 DEF BeforeWalk
    <3>4. QED
      BY <3>2, <3>3
  <2>4. CASE VisitDeaf(e)
    <3>1. /\ pc[e] = "visit" /\ ~ Live(cur[e]) /\ stop'[e] = stop[e]
          /\ cur'[e] = cur[e] + 1 /\ cur[e] < stop[e]
          /\ pc'[e] = (IF cur[e] + 1 < stop[e] THEN "visit" ELSE "done")
      BY <1>1, <2>4 DEF VisitDeaf, Advance, GoTo, OvertakenInv
    <3>2. ASSUME chain' \in {"none", "subscribed", "ending"}, Unjudged(e)', e \notin rejected',
                 stop'[e] > 1
          PROVE  cur[e] + 1 <= completed /\ stop[e] <= observed + 1
      <4>1. cur[e] <= completed /\ stop[e] <= observed + 1
        BY <1>1, <1>4, <3>1, <3>2 DEF OvertakenInv
      <4>2. cur[e] < observed => completed > cur[e]
        BY <1>1, <3>1 DEF Live
      <4>3. cur[e] >= observed => FALSE
        <5>1. cur[e] >= observed => cur[e] = observed /\ observed > 0
          BY <1>1, <3>1, <3>2, <4>1
        <5>2. observed > 0 => Listening
          BY <1>1, <3>2 DEF Listening, TimerInv, ChainInv
        <5>3. QED
          BY <1>1, <4>1, <5>1, <5>2
      <4>4. QED
        BY <1>1, <4>1, <4>2, <4>3
    <3>3. QED
      BY <1>1, <3>1, <3>2 DEF BeforeWalk
  <2>5. CASE VisitLive(e)
    BY <1>1, <2>5 DEF VisitLive, GoTo, BeforeWalk, OvertakenInv
  <2>6. CASE VisitDangling(e)
    BY <1>1, <1>4, <2>6 DEF VisitDangling, pushVars, OvertakenInv
  <2>7. CASE Accept(e) \/ NullRoute(e)
    <3>1. pc'[e] \in {"stamp", "drain"}
      BY <1>1, <2>7 DEF Accept, NullRoute, GoTo
    <3>2. QED
      BY <3>1 DEF BeforeWalk
  <2>8. CASE Stamp(e) \/ (Drain(e) /\ depth > 0)
    <3>1. pc'[e] \in {"drain", "drop"}
      BY <1>1, <2>8 DEF Stamp, Drain, GoTo
    <3>2. QED
      BY <3>1 DEF BeforeWalk
  <2>9. CASE (Drain(e) /\ ~ (depth > 0)) \/ Drop(e)
    <3>1. /\ pc[e] \in InWindow /\ stop'[e] = stop[e] /\ cur'[e] = cur[e] + 1
          /\ pc'[e] = (IF cur[e] + 1 < stop[e] THEN "visit" ELSE "done")
      BY <1>1, <2>9 DEF Drain, Drop, Advance, GoTo, InWindow
    <3>2. ~ Unjudged(e)'
      BY <1>1, <1>3, <3>1 DEF NotedInv, Unjudged
    <3>3. QED
      BY <1>1, <3>1, <3>2 DEF BeforeWalk
  <2>10. QED
    BY <2>1, <2>2, <2>3, <2>4, <2>5, <2>6, <2>7, <2>8, <2>9 DEF Thread, PushStep
<1>7. \A f \in Events : Early(f) /\ Within(f) /\ Overtaken(f)
  BY <1>5, <1>6
<1>8. QED
  BY <1>7 DEF OvertakenInv

\* The window thread can only make the walks later than they are.
LEMMA OvertakenTimer ==
    ASSUME BusTypeOK, OvertakenInv, Timer
    PROVE  OvertakenInv'
<1>1. /\ UNCHANGED <<pc, cur, stop, judged, rejected>>
      /\ completed \in Nat /\ observed \in Nat /\ completed' \in Nat /\ observed' \in Nat
      /\ stop \in [Events -> Nat] /\ cur \in [Events -> Nat]
  <2>1. completed' \in Nat /\ observed' \in Nat
    BY TimerTypeStep DEF Timer, BusTypeOK, TimerTypeOK
  <2>2. QED
    BY <2>1 DEF Timer, busVars, pushVars, historyVars, BusTypeOK, TimerTypeOK
<1>2. ASSUME NEW e \in Events, chain' \in {"none", "subscribed", "ending"},
             Unjudged(e), e \notin rejected, stop[e] > 1
      PROVE  /\ pc[e] = "visit" => cur[e] <= completed' /\ stop[e] <= observed' + 1
             /\ pc[e] = "done" => stop[e] <= completed'
  <2>1. /\ pc[e] = "visit" => cur[e] <= completed /\ stop[e] <= observed + 1
        /\ pc[e] = "done" => stop[e] <= completed
    BY <1>2, WindowsGrow DEF OvertakenInv
  <2>2. completed' >= completed /\ observed' >= observed
    BY WindowsGrow
  <2>3. stop[e] \in Nat /\ cur[e] \in Nat
    BY <1>1
  <2>4. QED
    BY <1>1, <2>1, <2>2, <2>3
<1>3. QED
  BY <1>1, <1>2 DEF OvertakenInv, Unjudged

\* Until the subscription ends an event with more than the very first window before it
\* goes unheard only if every window of its walk was completed by the time it is
\* through, for any number of threads and however late the window thread is.
THEOREM UnheardAlwaysOvertaken == Spec => []UnheardWasOvertaken
<1>1. Init => NotedInv /\ OvertakenInv
  BY DEF Init, BusInit, NotedInv, InWindow, OvertakenInv
<1>2. ASSUME BusTypeOK, TimerInv, JudgedInv, NotedInv, OvertakenInv, [Next]_vars
      PROVE  NotedInv' /\ OvertakenInv'
  <2>1. CASE Timer
    <3>1. NotedInv'
      BY <1>2, <2>1 DEF Timer, busVars, pushVars, historyVars, NotedInv
    <3>2. QED
      BY <1>2, <2>1, <3>1, OvertakenTimer
  <2>2. CASE UNCHANGED vars
    <3>1. UNCHANGED <<pc, cur, stop, judged, rejected, chain, completed, observed>>
      BY <2>2 DEF vars, timerVars, windowVars, busVars, pushVars, historyVars
    <3>2. QED
      BY <1>2, <3>1 DEF NotedInv, OvertakenInv, Unjudged
  <2>3. ASSUME NEW e \in Events, Thread(e) PROVE NotedInv' /\ OvertakenInv'
    BY <1>2, <2>3, NotedStep, OvertakenStep
  <2>4. QED
    BY <1>2, <2>1, <2>2, <2>3 DEF Next
<1>3. BusTypeOK /\ OvertakenInv => UnheardWasOvertaken
  <2> SUFFICES ASSUME BusTypeOK, OvertakenInv, NEW e \in Unheard,
                      chain \in {"none", "subscribed", "ending"}, stop[e] > 1
               PROVE  stop[e] <= completed
      BY DEF UnheardWasOvertaken
  <2>1. e \in Events /\ pc[e] = "done" /\ e \notin rejected /\ Unjudged(e)
    BY DEF Unheard, Unjudged
  <2>2. QED
    BY <2>1 DEF OvertakenInv
<1>4. BusTypeOK /\ TimerInv /\ JudgedInv /\ (NotedInv /\ OvertakenInv) /\ [Next]_vars
        => (NotedInv /\ OvertakenInv)'
  BY <1>2
<1>5. QED
  BY <1>1, <1>3, <1>4, BusTypeCorrect, BusTimerInvariant, JudgedInvariant, PTL DEF Spec

-----------------------------------------------------------------------------
(* The service. *)

\* A step of the service, one thread at a time, as the bus sees it.
LEMMA BusStep == [ServiceNext]_serviceVars => [Next]_vars
<1> SUFFICES ASSUME [ServiceNext]_serviceVars PROVE [Next]_vars
  OBVIOUS
<1>1. CASE Main
  BY <1>1 DEF Main
<1>2. CASE Listener
  BY <1>2 DEF Listener
<1>3. CASE Windows
  BY <1>3 DEF Windows, Next
<1>4. CASE \E e \in Events : Push(e)
  BY <1>4 DEF Push, Next
<1>5. CASE UNCHANGED serviceVars
  BY <1>5 DEF serviceVars
<1> QED
  BY <1>1, <1>2, <1>3, <1>4, <1>5 DEF ServiceNext

\* The service leaves the bus and the window thread to themselves: what they
\* promise alone they promise in it.
THEOREM ServiceIsABus == ServiceSpec => Spec
<1>1. ServiceInit => Init
  BY DEF ServiceInit
<1> QED
  BY <1>1, BusStep, PTL DEF ServiceSpec, Spec

\* The telemetry that main() polls counts every ruling and every refusal once,
\* with clients that come and go and a signal at any time.
THEOREM ServiceCountersAgree == ServiceSpec => []CountersAgree
  BY ServiceIsABus, CountersAlwaysAgree, PTL

\* Until the signal handler has ended the subscription, every event of a client that
\* went unheard was overtaken by the release of all the windows of its walk.
THEOREM ServiceUnheardOvertaken == ServiceSpec => []UnheardWasOvertaken
  BY ServiceIsABus, UnheardAlwaysOvertaken, PTL

\* The telemetry of the service keeps the ledger of its events: each one is counted
\* when it comes in, is judged by a window at most once, or is refused and never judged.
THEOREM ServiceImplementsLedger == ServiceSpec => ImplementsEventLedger
  BY ServiceIsABus, BusImplementsLedger, PTL

----------------------------------------------------------------------------
(* The probe. *)

\* main() waits for the listener, and the listener does not come back.
ProbeInv ==
    main \in {"detach", "destroy", "exited"} => listener = "ended"

\* The steps of main() leave the listener alone, but for the join, which waits.
LEMMA MainProbe ==
  ASSUME ProbeInv, Main
  PROVE  ProbeInv' /\ UNCHANGED <<listener, spawned>>
<1>1. CASE MainLoop
  <2>1. main' \in {"test", "snapshot", "compare", "block", "remember", "stop"}
    BY <1>1 DEF MainLoop, TestLoop, Snapshot, Compare, Block, Remember, Poll
  <2>2. UNCHANGED <<listener, spawned>>
    BY <1>1 DEF Main, MainLoop, TestLoop, Snapshot, Compare, Block, Remember,
                Poll, StopProbe, Destroy, probeVars
  <2> QED
    BY <2>1, <2>2 DEF ProbeInv
<1>2. CASE StopProbe
  BY <1>2 DEF StopProbe, ProbeInv
<1>3. CASE JoinProbe \/ Detach \/ Destroy
  <2>1. UNCHANGED <<listener, spawned>>
    BY <1>3 DEF Main, MainLoop, TestLoop, Snapshot, Compare, Block, Remember,
                Poll, StopProbe, JoinProbe, Detach, Destroy, probeVars
  <2>2. listener = "ended"
    BY <1>3 DEF JoinProbe, Detach, Destroy, ProbeInv
  <2> QED
    BY <2>1, <2>2 DEF ProbeInv
<1> QED
  BY <1>1, <1>2, <1>3 DEF Main

\* A listener that has ended takes no step.
LEMMA ListenerProbe ==
  ASSUME Listener
  PROVE  listener # "ended" /\ UNCHANGED main
  BY DEF Listener, ListenerTest, ListenerIdle, ListenerSpawns, mainVars

\* Every step keeps the order of the way out, and starts a thread only before.
LEMMA ProbeStep ==
  ProbeInv /\ [ServiceNext]_serviceVars =>
      /\ ProbeInv'
      /\ main \in {"detach", "destroy", "exited"} => UNCHANGED spawned
<1> SUFFICES ASSUME ProbeInv, [ServiceNext]_serviceVars
             PROVE  /\ ProbeInv'
                    /\ main \in {"detach", "destroy", "exited"} => UNCHANGED spawned
  OBVIOUS
<1>1. CASE Main
  BY <1>1, MainProbe
<1>2. CASE Listener
  BY <1>2, ListenerProbe DEF ProbeInv
<1>3. CASE Windows \/ (\E e \in Events : Push(e)) \/ UNCHANGED serviceVars
  <2>1. UNCHANGED <<main, listener, spawned>>
    BY <1>3 DEF Windows, Push, serviceVars, mainVars, probeVars
  <2> QED
    BY <2>1 DEF ProbeInv
<1> QED
  BY <1>1, <1>2, <1>3 DEF ServiceNext

\* Once socketProbe.stop() has returned no thread is started for a client, for
\* any number of clients and wherever the signal found the listener.
THEOREM StoppedStaysQuiet == ServiceSpec => StoppedIsQuiet
<1>1. ServiceInit => ProbeInv
  BY DEF ServiceInit, ProbeInv
<1>2. ProbeInv /\ [ServiceNext]_serviceVars => ProbeInv'
  BY ProbeStep
<1>3. ProbeInv /\ [ServiceNext]_serviceVars =>
         [(main \in {"detach", "destroy", "exited"}) => UNCHANGED spawned]_serviceVars
  BY ProbeStep
<1> QED
  BY <1>1, <1>2, <1>3, PTL DEF ServiceSpec, StoppedIsQuiet

----------------------------------------------------------------------------
(* The types. *)

\* Every step of the service keeps its types.
LEMMA ServiceTypeStep == ServiceTypeOK /\ [ServiceNext]_serviceVars => ServiceTypeOK'
<1> SUFFICES ASSUME ServiceTypeOK, [ServiceNext]_serviceVars PROVE ServiceTypeOK'
  OBVIOUS
<1>1. BusTypeOK'
  BY BusStep, BusTypeStep DEF ServiceTypeOK
<1>2. nullRouted \in Nat /\ lastSource \in Events \cup {NoSource}
  BY DEF ServiceTypeOK, BusTypeOK
<1> USE <1>1, <1>2 DEF ServiceTypeOK, MainSteps
<1>3. CASE Main
  <2>1. CASE TestLoop
    BY <1>3, <2>1 DEF Main, MainLoop, TestLoop, Poll, StopProbe, Destroy, probeVars
  <2>2. CASE Snapshot
    BY <1>3, <2>2 DEF Main, MainLoop, Snapshot, Poll, StopProbe, Destroy, probeVars
  <2>3. CASE Compare
    BY <1>3, <2>3 DEF Main, MainLoop, Compare, Poll, StopProbe, Destroy, probeVars
  <2>4. CASE Block
    <3>1. asked' \in SUBSET Events /\ blacklist' \in SUBSET AddressSources
      BY <2>4 DEF Block
    <3> QED
      BY <1>3, <2>4, <3>1 DEF Main, MainLoop, Block, StopProbe, Destroy, probeVars
  <2>9. CASE Remember
    BY <1>3, <2>9 DEF Main, MainLoop, Remember, StopProbe, Destroy, probeVars
  <2>5. CASE StopProbe
    BY <1>3, <2>5 DEF Main, MainLoop, StopProbe, Destroy
  <2>6. CASE JoinProbe
    BY <1>3, <2>6 DEF Main, MainLoop, JoinProbe, StopProbe, Destroy, probeVars
  <2>7. CASE Detach
    BY <1>3, <2>7 DEF Main, MainLoop, Detach, StopProbe, Destroy, probeVars
  <2>8. CASE Destroy
    BY <1>3, <2>8 DEF Main, MainLoop, Destroy, StopProbe, probeVars
  <2> QED
    BY <1>3, <2>1, <2>2, <2>3, <2>4, <2>5, <2>6, <2>7, <2>8, <2>9 DEF Main, MainLoop
<1>4. CASE Listener
  BY <1>4 DEF Listener, ListenerTest, ListenerIdle, ListenerSpawns, mainVars
<1>5. CASE Windows \/ (\E e \in Events : Push(e)) \/ UNCHANGED serviceVars
  BY <1>5 DEF Windows, Push, serviceVars, mainVars, probeVars
<1> QED
  BY <1>3, <1>4, <1>5 DEF ServiceNext

\* The service is well typed, and only addresses get into blacklist_map.
THEOREM ServiceTypeCorrect == ServiceSpec => []ServiceTypeOK
<1>1. ServiceInit => ServiceTypeOK
  <2> SUFFICES ASSUME ServiceInit PROVE ServiceTypeOK
    OBVIOUS
  <2>1. TimerTypeOK
    BY DEF ServiceInit, Init, TimerInit, TimerTypeOK, Chains, Tasks, Created
  <2>2. 0 \in 0 .. DepthMod - 1
    BY BusAssumption
  <2>3. BusTypeOK
    BY <2>1, <2>2 DEF ServiceInit, Init, BusInit, BusTypeOK, Steps
  <2> QED
    BY <2>3 DEF ServiceInit, ServiceTypeOK, MainSteps
<1> QED
  BY <1>1, ServiceTypeStep, PTL DEF ServiceSpec

=============================================================================
