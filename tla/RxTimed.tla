------------------------------- MODULE RxTimed -------------------------------
(* The RxCpp operators and sources that keep time or change threads           *)
(* (include/rxcpp/operators and sources): each is the function that takes the *)
(* operator o with its period p and its arguments n and m, its state st, one  *)
(* call i and the time t of the call, and returns what the call does. A call  *)
(* is a signal of a source, or work that the operator's own worker runs.      *)
(*                                                                            *)
(* Most of them pass everything through their worker: the observer's on_next, *)
(* on_error and on_completed schedule the work below instead of doing it.     *)
EXTENDS RxNotification

Arm(r, at, work, v) ==
  [r EXCEPT !.arm = Append(@, [at |-> at, w |-> Signal(0, work, v)])]

\* A member read while it is empty: std::terminate, or undefined behaviour.
Undefined(st) == Does(st, <<Signal(Side, "undefined", <<>>)>>)

\* delay() sends in the work itself; it is the relay that puts the work off.
delay(o, st, i, t) == Forward(st, i)

\* items is the pending value, n the index of the last one.
debounce(o, st, i, t) ==
  CASE i.k = "next" ->
         Arm(Quietly([st EXCEPT !.n = @ + 1, !.items = i.v]), t + o.p, "produce", <<st.n + 1>>)
    [] i.k = "produce" ->
         IF Item(i) # st.n THEN Quietly(st)
         ELSE IF st.items = <<>> THEN Undefined(st)
         ELSE Push([st EXCEPT !.items = <<>>], st.items)
    [] i.k = "error" -> Does([st EXCEPT !.items = <<>>], <<OnError>>)
    [] i.k = "completed" ->
         Does(st, (IF st.items = <<>> THEN <<>> ELSE <<OnNext(st.items)>>) \o <<OnCompleted>>)
    [] OTHER -> Forward(st, i)

\* n is the index of the last value: the timer of an older one finds another.
timeout(o, st, i, t) ==
  LET indexed == [st EXCEPT !.n = @ + 1] IN
  CASE i.k = "subscribe" -> Arm(Forward(st, i), t, "start", <<>>)
    [] i.k = "start" -> Arm(Quietly(indexed), t + o.p, "produce", <<st.n + 1>>)
    [] i.k = "next" -> Arm(Push(indexed, i.v), t + o.p, "produce", <<st.n + 1>>)
    [] i.k = "produce" -> IF Item(i) = st.n THEN Fails(st) ELSE Quietly(st)
    [] OTHER -> Forward(st, i)

\* What schedule_periodically runs at its target, before it is due again a
\* period later; here it only puts work on the worker. The work carries the
\* target it belongs to, which the code does not.
Periodically(r, target, period, at, work) ==
  Arm(Arm(r, at, work, <<target>>), target + period, "periodic", <<target + period>>)

sample_with_time(o, st, i, t) ==
  CASE i.k = "subscribe" -> Arm(Forward(st, i), t, "periodic", <<t>>)
    [] i.k = "periodic" -> Periodically(Quietly(st), Item(i), o.p, t, "sample")
    [] i.k = "sample" ->
         IF st.items = <<>> THEN Quietly(st) ELSE Push([st EXCEPT !.items = <<>>], st.items)
    [] i.k = "next" -> Quietly([st EXCEPT !.items = i.v])
    [] OTHER -> Forward(st, i)

(* items is the deque of chunks, n is expected, m the skip. A chunk is opened *)
(* every m and sent p after the time it was expected at; nothing tells work   *)
(* that is on its way to send a chunk that the completion has sent them all.  *)
(* The work carries the time its chunk was expected at, which the code does   *)
(* not.                                                                       *)
buffer_with_time(o, st, i, t) ==
  CASE i.k = "subscribe" -> Arm(Forward([st EXCEPT !.n = t], i), t, "periodic", <<t>>)
    [] i.k = "periodic" -> Periodically(Quietly(st), Item(i), o.m, t, "create")
    [] i.k = "create" ->
         Arm(Quietly([st EXCEPT !.items = Append(@, <<>>), !.n = @ + o.m]),
             st.n + o.p, "hop", <<st.n>>)
    [] i.k = "hop" -> Arm(Quietly(st), t, "produce", i.v)
    [] i.k = "produce" ->
         IF st.items = <<>> THEN Undefined(st)
         ELSE Push([st EXCEPT !.items = Tail(@)], Head(st.items))
    [] i.k = "next" ->
         Quietly([st EXCEPT !.items = [j \in DOMAIN @ |-> Append(@[j], Item(i))]])
    [] i.k = "completed" ->
         Does([st EXCEPT !.items = <<>>],
              [j \in DOMAIN st.items |-> OnNext(st.items[j])] \o <<OnCompleted>>)
    [] OTHER -> Forward(st, i)

(* items is the chunk, n its id. The timer of a chunk carries its id and the  *)
(* time it is expected at; a chunk that is full does not wait for it.         *)
Produce(o, st, expected) ==
  Arm(Push([st EXCEPT !.items = <<>>, !.n = @ + 1], st.items),
      expected + o.p, "hop", <<st.n + 1, expected + o.p>>)

buffer_with_time_or_count(o, st, i, t) ==
  LET grown == [st EXCEPT !.items = Append(@, Item(i))] IN
  CASE i.k = "subscribe" -> Arm(Forward([st EXCEPT !.n = 0], i), t + o.p, "hop", <<0, t + o.p>>)
    [] i.k = "hop" -> Arm(Quietly(st), t, "produce", i.v)
    [] i.k = "produce" -> IF Item(i) # st.n THEN Quietly(st) ELSE Produce(o, st, i.v[2])
    [] i.k = "next" -> IF Len(grown.items) = o.n THEN Produce(o, grown, t) ELSE Quietly(grown)
    [] i.k = "completed" -> Finish(st, st.items)
    [] OTHER -> Forward(st, i)

\* n is the id of the window, which is also its channel; the subject before the
\* first release is nobody's. m is the cursor.
Window(st) == IF st.n = 0 THEN Side ELSE st.n

Release(o, st, expected, sent) ==
  Arm(Does([st EXCEPT !.m = 0, !.n = @ + 1],
           sent \o <<Signal(Window(st), "completed", <<>>), Open(st.n + 1)>>),
      expected + o.p, "hop", <<st.n + 1, expected + o.p>>)

window_with_time_or_count(o, st, i, t) ==
  LET inside == <<[i EXCEPT !.s = Window(st)]>> IN
  CASE i.k = "subscribe" -> Arm(Forward([st EXCEPT !.n = 0], i), t, "hop", <<0, t>>)
    [] i.k = "hop" -> Arm(Quietly(st), t, "release", i.v)
    [] i.k = "release" ->
         IF Item(i) # st.n THEN Quietly(st) ELSE Release(o, st, i.v[2], <<>>)
    [] i.k = "next" ->
         IF st.m + 1 = o.n THEN Release(o, st, t, inside)
         ELSE Does([st EXCEPT !.m = @ + 1], inside)
    [] OTHER -> Does(st, inside \o <<[i EXCEPT !.s = 0]>>)

(* items is the list of open windows, n the number opened so far. Source 2 is *)
(* openings, source 2 + c what the selector returned for window c. Both call  *)
(* the operator directly, the source's signals go through the worker.         *)
window_toggle(o, st, i, t) ==
  LET c == i.s - 2 IN
  CASE i.k = "subscribe" -> Subscribing([st EXCEPT !.n = 0], {1, 2})
    [] i.s = 2 /\ i.k = "next" ->
         [Does([st EXCEPT !.n = @ + 1, !.items = Append(@, st.n + 1)], <<Open(st.n + 1)>>)
          EXCEPT !.on = {3 + st.n}]
    [] i.s = 2 /\ i.k = "completed" -> Quietly(st)
    [] i.s > 2 /\ i.k # "error" ->
         [Does([st EXCEPT !.items = SelectSeq(@, LAMBDA w : w # c)],
               ToWindows(SelectSeq(st.items, LAMBDA w : w = c), OnCompleted))
          EXCEPT !.off = {i.s}]
    [] i.s > 1 /\ i.k = "error" -> Fails(st)
    [] OTHER -> Does(st, ToWindows(st.items, i)
                         \o (IF i.k = "next" THEN <<>> ELSE <<[i EXCEPT !.s = 0]>>))

\* n is last, the time of the value before.
time_interval(o, st, i, t) ==
  IF i.k = "next" THEN Push([st EXCEPT !.n = t], <<t - st.n>>) ELSE Forward(st, i)

timestamp(o, st, i, t) == IF i.k = "next" THEN Push(st, i.v \o <<t>>) ELSE Forward(st, i)

(* observe_on(): items is the fill queue, vals the drain queue, n the mode,   *)
(* done tells that the source's lifetime is over. The drain sends one         *)
(* notification and lets the worker run it again, or, the source being done,  *)
(* all there are.                                                             *)
Empty == 0
Processing == 1
Disposed == 2

ensure_processing(st, t) ==
  IF st.n # Empty THEN Quietly(st)
  ELSE IF st.done /\ st.items \o st.vals = <<>> THEN Quietly([st EXCEPT !.n = Disposed])
  ELSE Arm(Quietly([st EXCEPT !.n = Processing]), t, "drain", <<>>)

observe_on(o, st, i, t) ==
  LET swapped == IF st.vals = <<>> THEN [st EXCEPT !.vals = st.items, !.items = <<>>] ELSE st
  IN CASE i.k = "subscribe" -> Forward([st EXCEPT !.n = Empty], i)
       [] i.k = "detach" -> ensure_processing([st EXCEPT !.done = TRUE], t)
       [] i.k = "drain" /\ swapped.vals = <<>> ->
            Quietly([st EXCEPT !.n = IF st.done THEN Disposed ELSE Empty])
       [] i.k = "drain" /\ swapped.vals # <<>> /\ st.done ->
            Does([st EXCEPT !.n = Disposed, !.items = <<>>, !.vals = <<>>],
                 swapped.vals \o swapped.items)
       [] i.k = "drain" /\ swapped.vals # <<>> /\ ~st.done ->
            Arm(Does([swapped EXCEPT !.vals = Tail(@)], <<Head(swapped.vals)>>), t, "drain", <<>>)
       [] OTHER -> IF st.n = Disposed THEN Quietly(st)
                   ELSE ensure_processing([st EXCEPT !.items = Append(@, [i EXCEPT !.s = 0])], t)

\* The source is subscribed by the worker, not by the caller.
subscribe_on(o, st, i, t) ==
  CASE i.k = "subscribe" -> Arm(Quietly(st), t, "producer", <<>>)
    [] i.k = "producer" -> Subscribing(st, {1})
    [] OTHER -> Forward(st, i)

\* The sources interval() and timer(); n is the counter.
interval(o, st, i, t) ==
  CASE i.k = "subscribe" -> Arm(Quietly([st EXCEPT !.n = 0]), t, "periodic", <<t>>)
    [] i.k = "periodic" ->
         Arm(Push([st EXCEPT !.n = @ + 1], <<st.n + 1>>), Item(i) + o.p, "periodic", <<Item(i) + o.p>>)

timer(o, st, i, t) ==
  IF i.k = "subscribe" THEN Arm(Quietly(st), t + o.p, "producer", <<>>) ELSE Finish(st, <<1>>)

(* The sources range(), iterate() and error(): their producer is one step of  *)
(* a loop, which asks the worker to run it again.                             *)
Producer(r, t) == Arm(r, t, "producer", <<>>)
Distance(a, b) == IF a < b THEN b - a ELSE a - b

(* From m to n in steps of p, back if n < m; st.n is next, o.n is last, which *)
(* is sent in any case. A step that leads away from last is not modelled: the *)
(* loop would go on until the type overflows.                                 *)
Stride(o) == IF o.n < o.m THEN -o.p ELSE o.p

range(o, st, i, t) ==
  LET here == <<OnNext(<<st.n>>)>>
      tail == IF st.n = o.n THEN <<>> ELSE <<OnNext(<<o.n>>)>>
  IN CASE i.k = "subscribe" -> Producer(Quietly([st EXCEPT !.n = o.m]), t)
       [] i.k = "producer" /\ ~st.out -> Quietly(st)
       [] i.k = "producer" /\ st.out ->
            IF Distance(st.n, o.n) < o.p THEN Does(st, here \o tail \o <<OnCompleted>>)
            ELSE Producer(Does([st EXCEPT !.n = @ + Stride(o)], here), t)

\* A collection of the values 1 to n; st.n is how far the cursor has come.
iterate(o, st, i, t) ==
  LET sent == IF st.n = o.n THEN <<>> ELSE <<OnNext(<<st.n + 1>>)>>
      moved == [st EXCEPT !.n = IF @ = o.n THEN @ ELSE @ + 1]
  IN CASE i.k = "subscribe" -> Producer(Quietly([st EXCEPT !.n = 0]), t)
       [] i.k = "producer" /\ ~st.out -> Quietly(st)
       [] i.k = "producer" /\ st.out ->
            IF moved.n = o.n THEN Does(moved, sent \o <<OnCompleted>>)
            ELSE Producer(Does(moved, sent), t)

error(o, st, i, t) ==
  IF i.k = "subscribe" THEN Producer(Quietly(st), t)
  ELSE IF st.out THEN Fails(st) ELSE Quietly(st)

(* The synchronize subject between a source and its output: items is the fill *)
(* queue, n the mode, done tells that the lifetime of the subject's input is  *)
(* over. The drain hangs on that lifetime, and that on the output's while a   *)
(* drain is on its way. Who sends through publish_synchronized() does so with *)
(* a lifetime of its own; who sends to the subject's own subscriber (m = 1)   *)
(* ends the input's lifetime after the last signal, and with it the drain.    *)
synchronize(o, st, i, t) ==
  LET queued == [st EXCEPT !.items = Append(@, [i EXCEPT !.s = 0]), !.n = Processing]
  IN CASE i.k = "subscribe" -> Forward([st EXCEPT !.n = Empty], i)
       [] i.k = "detach" -> Quietly([st EXCEPT !.done = TRUE])
       [] i.k \notin {"subscribe", "detach"} /\ st.done -> Quietly(st)
       [] i.k = "drain" /\ ~st.done /\ ~st.out ->
            [Quietly([st EXCEPT !.n = Disposed, !.items = <<>>, !.done = TRUE]) EXCEPT !.off = {1}]
       [] i.k = "drain" /\ ~st.done /\ st.out /\ st.items = <<>> -> Quietly([st EXCEPT !.n = Empty])
       [] i.k = "drain" /\ ~st.done /\ st.out /\ st.items # <<>> ->
            Arm(Does([st EXCEPT !.items = Tail(@)], <<Head(st.items)>>), t, "drain", <<>>)
       [] OTHER ->
            IF ~st.out THEN [Quietly([queued EXCEPT !.done = TRUE]) EXCEPT !.off = {1}]
            ELSE IF st.n = Empty THEN Arm(Quietly(queued), t, "drain", <<>>)
            ELSE Quietly(queued)
=============================================================================
