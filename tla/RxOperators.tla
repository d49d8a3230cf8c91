----------------------------- MODULE RxOperators -----------------------------
(* One RxCpp operator, its sources, its worker and its observer. The operator *)
(* is drawn from Operators when it is subscribed; the sources then send what  *)
(* they like from threads of their own, in any order, as long as they are     *)
(* subscribed, and the observer may dispose of the output at any moment or    *)
(* inside one of its on_next. The worker is the queue of rx-scheduler.hpp,    *)
(* ordered by time and then by arrival, run by a thread that may be late.     *)
(* An operator with the period 0 never asks for the time: its clock stands.   *)
EXTENDS RxReference, RxTimed

CONSTANTS Operators, \* the catalogue: [name, p, n, m, quit]
          MaxLog,    \* without a period: how many signals the sources send in all
          MaxNext,   \* with one: how many values source 1 sends,
          LastSend,  \* the time after which no source sends
          MaxNow     \* and the end of time

ASSUME BoundsAssumption == {MaxLog, MaxNext, LastSend, MaxNow} \subseteq Nat

VARIABLES op,    \* the operator and its arguments
          st,    \* its state
          now,   \* the clock
          queue, \* the work on its worker: [at, w], in the order it will run
          on,    \* the sources it is subscribed to
          live,  \* the channels whose observers are subscribed
          out,   \* what the observers have seen, in order
          when,  \* and when
          log    \* what the sources have sent (with a period: source 1), and the
               \* disposal: [at, i], in order
vars == <<op, st, now, queue, on, live, out, when, log>>

Unary == {"map", "filter", "scan", "take", "skip", "take_last", "skip_last", "take_while",
          "skip_while", "distinct", "distinct_until_changed", "element_at", "pairwise",
          "ignore_elements", "tap", "finally", "all", "is_empty", "any", "buffer_count",
          "window", "sum", "max", "min", "last", "average", "first"}
Created == {"create", "defer", "scope"}
HigherOrder == {"merge", "merge_delay_error", "flat_map", "concat", "concat_map", "amb",
                "switch_on_next"}
TwoSources == {"zip", "combine_latest", "with_latest_from", "take_until", "skip_until",
               "sequence_equal", "on_error_resume_next", "switch_if_empty", "group_by"}
Prompt == Unary \cup Created \cup HigherOrder \cup TwoSources
          \cup {"start_with", "retry", "repeat"}

Directly(o, s, i) ==
  CASE o.name = "map" -> map(o, s, i)
    [] o.name = "filter" -> filter(o, s, i)
    [] o.name = "scan" -> scan(o, s, i)
    [] o.name = "take" -> take(o, s, i)
    [] o.name = "skip" -> skip(o, s, i)
    [] o.name = "take_last" -> take_last(o, s, i)
    [] o.name = "skip_last" -> skip_last(o, s, i)
    [] o.name = "take_while" -> take_while(o, s, i)
    [] o.name = "skip_while" -> skip_while(o, s, i)
    [] o.name = "distinct" -> distinct(o, s, i)
    [] o.name = "distinct_until_changed" -> distinct_until_changed(o, s, i)
    [] o.name = "element_at" -> element_at(o, s, i)
    [] o.name = "pairwise" -> pairwise(o, s, i)
    [] o.name = "ignore_elements" -> ignore_elements(o, s, i)
    [] o.name = "tap" -> tap(o, s, i)
    [] o.name = "finally" -> Forward(s, i)
    [] o.name = "all" -> all(o, s, i)
    [] o.name = "is_empty" -> is_empty(o, s, i)
    [] o.name = "any" -> any(o, s, i)
    [] o.name = "buffer_count" -> buffer_count(o, s, i)
    [] o.name = "window" -> window(o, s, i)
    [] o.name \in {"sum", "max", "min", "last", "average"} -> reduce(o, s, i)
    [] o.name = "first" -> first(o, s, i)
    [] o.name = "create" -> create(o, s, i)
    [] o.name = "defer" -> defer(o, s, i)
    [] o.name = "scope" -> scope(o, s, i)
    [] o.name = "group_by" -> group_by(o, s, i)
    [] o.name = "merge" -> merge(o, s, i)
    [] o.name = "merge_delay_error" -> merge_delay_error(o, s, i)
    [] o.name = "flat_map" -> flat_map(o, s, i)
    [] o.name = "concat" -> concat(o, s, i)
    [] o.name = "concat_map" -> concat_map(o, s, i)
    [] o.name = "amb" -> amb(o, s, i)
    [] o.name = "switch_on_next" -> switch_on_next(o, s, i)
    [] o.name = "zip" -> zip(o, s, i)
    [] o.name = "combine_latest" -> combine_latest(o, s, i)
    [] o.name = "with_latest_from" -> with_latest_from(o, s, i)
    [] o.name = "take_until" -> take_until(o, s, i)
    [] o.name = "skip_until" -> skip_until(o, s, i)
    [] o.name = "sequence_equal" -> sequence_equal(o, s, i)
    [] o.name = "on_error_resume_next" -> on_error_resume_next(o, s, i)
    [] o.name = "switch_if_empty" -> switch_if_empty(o, s, i)
    [] o.name = "start_with" -> start_with(o, s, i)
    [] o.name = "retry" -> retry(o, s, i)
    [] o.name = "repeat" -> repeat(o, s, i)

\* The sources hang on the output's lifetime; those of group_by on the output
\* and the groups together, which stopsource counts.
Released(o, channels) ==
  IF o.name = "group_by" THEN channels \subseteq {Side} ELSE 0 \notin channels

InTime(o, s, i, t) ==
  CASE o.name = "delay" -> delay(o, s, i, t)
    [] o.name = "debounce" -> debounce(o, s, i, t)
    [] o.name = "timeout" -> timeout(o, s, i, t)
    [] o.name = "sample_with_time" -> sample_with_time(o, s, i, t)
    [] o.name = "buffer_with_time" -> buffer_with_time(o, s, i, t)
    [] o.name = "buffer_with_time_or_count" -> buffer_with_time_or_count(o, s, i, t)
    [] o.name = "window_with_time_or_count" -> window_with_time_or_count(o, s, i, t)
    [] o.name = "window_toggle" -> window_toggle(o, s, i, t)
    [] o.name = "time_interval" -> time_interval(o, s, i, t)
    [] o.name = "timestamp" -> timestamp(o, s, i, t)
    [] o.name = "observe_on" -> observe_on(o, s, i, t)
    [] o.name = "subscribe_on" -> subscribe_on(o, s, i, t)
    [] o.name = "interval" -> interval(o, s, i, t)
    [] o.name = "timer" -> timer(o, s, i, t)
    [] o.name = "range" -> range(o, s, i, t)
    [] o.name = "iterate" -> iterate(o, s, i, t)
    [] o.name = "error" -> error(o, s, i, t)
    [] o.name = "synchronize" -> synchronize(o, s, i, t)

Timed == {o \in Operators : o.p # 0}
Step(o, s, i, t) == IF o.p = 0 THEN Directly(o, s, i) ELSE InTime(o, s, i, t)

\* The operators whose source has a lifetime of its own: its end, or that of the
\* output, puts a disposer on the worker.
Disposing == {"delay", "debounce", "timeout", "sample_with_time", "buffer_with_time",
              "buffer_with_time_or_count", "window_with_time_or_count"}

\* The operators that put what their source sends on the worker.
Relaying == Disposing \cup {"window_toggle"}

Paced == Relaying \cup {"time_interval", "timestamp", "observe_on", "subscribe_on", "interval",
                        "timer", "range", "iterate", "error", "synchronize"}

\* The operators that keep time have a period, the others have none; what the
\* function given to create() does is one of three things; buffers and windows
\* are opened at a distance that the code divides by, and a window has a size.
ASSUME OperatorsAssumption ==
  \A o \in Operators :
    /\ {o.p, o.n, o.m, o.quit} \subseteq Nat
    /\ o.name \in IF o.p = 0 THEN Prompt ELSE Paced
    /\ o.name = "create" => o.m \in 0..2
    /\ o.name \in {"buffer_count", "window"} => o.m # 0
    /\ o.name = "window" => o.n # 0

\* Variant: only the values are put off, not the completion.
LagOfValues(o, k) == IF o.name = "delay" /\ k = "next" THEN o.p ELSE 0

\* Variant: the disposer is not put off.
LagOfSignals(o, k) ==
  IF o.name = "delay" /\ k \in {"next", "completed"} THEN o.p ELSE 0

\* delay() puts values, the completion and the disposer of a source off.
Lag(o, k) == IF o.name = "delay" /\ k # "error" THEN o.p ELSE 0

\* The source is not told at once that the output has gone.
Lingers(o, s) == o.name \in Disposing \/ (o.name = "synchronize" /\ s.n # Processing)

\* The end of the output's lifetime is what runs the last call of finally() and
\* releases the resource of scope().
LastCall(o, s, before, after) ==
  IF (o.name = "finally" \/ (o.name = "scope" /\ s.done)) /\ 0 \in before /\ 0 \notin after
  THEN <<Signal(Side, "finally", <<>>)>> ELSE <<>>

Work(at, k, v) == [at |-> at, w |-> Signal(0, k, v)]

\* Variant: before everything that is due at the same time.
enqueueFirst(q, e) == InsertAt(q, 1 + Cardinality({j \in DOMAIN q : q[j].at < e.at}), e)

\* schedulable_queue::push: after everything that is due no later.
enqueue(q, e) == InsertAt(q, 1 + Cardinality({j \in DOMAIN q : q[j].at <= e.at}), e)

\* The work of one call, pushed in its order.
EnqueueAll(q, works) ==
  LET pushed[j \in 0..Len(works)] == IF j = 0 THEN q ELSE enqueue(pushed[j - 1], works[j])
  IN pushed[Len(works)]

(* One call of the operator at time t: the signals reach the observers, and   *)
(* what the call takes away from the output's lifetime releases the sources   *)
(* and the worker, at once or by the disposer. A process that has read an     *)
(* empty member is no longer there.                                           *)
Outcome(o, r, t, q, sources, channels, seen) ==
  LET broken == \E n \in ToSet(r.push) : n.k = "undefined"
      d      == IF broken THEN [live |-> {}, out |-> seen \o r.push]
                ELSE Deliver(o.quit, channels, seen, r.push)
      lost   == 0 \in channels /\ 0 \notin d.live
      armed  == EnqueueAll(q, r.arm)
  IN [st |-> r.st, live |-> d.live,
      out |-> d.out \o LastCall(o, r.st, channels, d.live),
      on |-> IF broken \/ (Released(o, d.live) /\ ~Lingers(o, r.st)) THEN {}
             ELSE (sources \ r.off) \cup r.on,
      queue |-> IF broken \/ (lost /\ o.name \notin Disposing) THEN <<>>
                ELSE IF lost THEN enqueue(armed, Work(t, "dispose", <<>>)) ELSE armed]

Call(o, s, i, t, q, sources, channels, seen) ==
  Outcome(o, Step(o, [s EXCEPT !.out = 0 \in channels], i, t), t, q, sources,
          channels, seen)

Stamps(t, stamps, seen) == stamps \o [j \in 1..Len(seen) - Len(stamps) |-> t]

Effect(r) ==
  /\ st' = r.st
  /\ on' = r.on
  /\ queue' = r.queue
  /\ live' = r.live
  /\ out' = r.out
  /\ when' = Stamps(now, when, r.out)

\* The channels that are subscribed with the operator.
Observed(o) == IF o.name = "tap" THEN {0, Side} ELSE {0}

Init ==
  /\ op \in Operators
  /\ LET r == Call(op, Fresh(op), Signal(1, "subscribe", <<>>), 0, <<>>, {}, Observed(op), <<>>)
     IN /\ st = r.st
        /\ on = r.on
        /\ queue = r.queue
        /\ live = r.live
        /\ out = r.out
        /\ when = Stamps(0, <<>>, r.out)
  /\ now = 0
  /\ log = <<>>

\* The values that source 1 has sent.
ValuesOf(history) ==
  LET sent[j \in 0..Len(history)] ==
        IF j = 0 THEN <<>>
        ELSE IF history[j].i.s = 1 /\ history[j].i.k = "next" THEN Append(sent[j - 1], history[j])
        ELSE sent[j - 1]
  IN sent[Len(history)]
SentNext == ValuesOf(log)
Ended1 == \E e \in ToSet(log) : e.i.s = 1 /\ Terminal(e.i)

(* Without a period: values 1 to 3 from the source the operator is lifted on  *)
(* (two values at most where they stand for inner sources), 1 and 2 from the  *)
(* others. With one, the j-th value of source 1 is j.                         *)
Payloads(s) ==
  CASE op.p # 0 -> {Len(SentNext) + 1}
    [] op.p = 0 /\ op.name \in {"flat_map", "concat_map"} -> {1, 3}
    [] op.p = 0 /\ op.name \in HigherOrder \ {"flat_map", "concat_map"} -> {1}
    [] OTHER -> IF s = 1 \/ op.name = "zip" THEN 1..3 ELSE {1, 2}

MaySend(s, k) ==
  IF op.p = 0
  THEN /\ Len(log) < MaxLog
       /\ k = "next" /\ op.name \in HigherOrder /\ s = 1 => Len(SentNext) < 2
  ELSE /\ now <= LastSend
       /\ s = 1 => ~Ended1 /\ (k = "next" => Len(SentNext) < MaxNext)
       /\ s = 2 /\ k = "next" => st.n < 2

\* A source sends: its signal is put on the worker, or the operator is called.
Send(s, i) ==
  /\ s \in on /\ MaySend(s, i.k)
  /\ log' = IF op.p = 0 \/ s = 1 THEN Append(log, [at |-> now, i |-> i]) ELSE log
  /\ LET gone == IF Terminal(i) /\ op.name \notin Disposing THEN {s} ELSE {} IN
     IF s = 1 /\ op.name \in Relaying
     THEN /\ queue' = enqueue(queue, [at |-> now + Lag(op, i.k), w |-> i])
          /\ on' = on \ gone
          /\ UNCHANGED <<st, live, out, when>>
     ELSE Effect(Call(op, st, i, now, queue, on \ gone, live, out))
  /\ UNCHANGED <<op, now>>

\* The subscriber of source 1 unsubscribes after its last signal.
Detach ==
  /\ Ended1
  /\ \/ /\ op.name \in Disposing
        /\ 1 \in on
        /\ on' = on \ {1}
        /\ queue' = enqueue(queue, Work(now + Lag(op, "detach"), "dispose", <<>>))
        /\ UNCHANGED <<st, live, out, when>>
     \/ /\ op.name = "observe_on" \/ (op.name = "synchronize" /\ op.m = 1)
        /\ 0 \in live /\ ~st.done
        /\ Effect(Call(op, st, Signal(1, "detach", <<>>), now, queue, on, live, out))
  /\ UNCHANGED <<op, now, log>>

\* The worker takes the first work that is due.
Run ==
  /\ queue # <<>> /\ Head(queue).at <= now
  /\ LET i == Head(queue).w IN
     IF i.k = "dispose"
     THEN /\ on' = {}
          /\ queue' = <<>>
          /\ live' = live \ {0}
          /\ UNCHANGED <<st, out, when>>
     ELSE Effect(Call(op, st, i, now, Tail(queue), on, live, out))
  /\ UNCHANGED <<op, now, log>>

\* The observer unsubscribes from the output between two signals.
Dispose ==
  /\ 0 \in live
  /\ live' = live \ {0}
  /\ IF op.name \in Disposing
     THEN queue' = enqueue(queue, Work(now, "dispose", <<>>)) /\ on' = on
     ELSE /\ queue' = <<>>
          /\ on' = IF Released(op, live') /\ ~Lingers(op, st) THEN {} ELSE on
  /\ out' = out \o LastCall(op, st, live, live')
  /\ when' = Stamps(now, when, out')
  /\ log' = Append(log, [at |-> now, i |-> Signal(0, "dispose", <<>>)])
  /\ UNCHANGED <<op, st, now>>

Tick ==
  /\ op.p # 0 /\ now < MaxNow
  /\ now' = now + 1
  /\ UNCHANGED <<op, st, queue, on, live, out, when, log>>

Next ==
  \/ \E s \in on, k \in {"next", "error", "completed"} :
       \E v \in IF k = "next" THEN {<<x>> : x \in Payloads(s)} ELSE {<<>>} :
         Send(s, Signal(s, k, v))
  \/ Detach
  \/ Run
  \/ Dispose
  \/ Tick

Spec == Init /\ [][Next]_vars
-----------------------------------------------------------------------------
Channel(c) == LET seen == SelectSeq(out, LAMBDA n : n.s = c) IN
              [j \in DOMAIN seen |-> [seen[j] EXCEPT !.s = 0]]

\* What an observer that disposes of the output in its quit-th value has seen.
Cut(sent) ==
  IF op.quit = 0 \/ Len(sent) < op.quit THEN sent ELSE SubSeq(sent, 1, op.quit)

Sent == LET all_sent == [j \in DOMAIN log |-> log[j].i] IN
        IF op.name = "group_by" THEN all_sent
        ELSE SelectSeq(all_sent, LAMBDA i : i.k # "dispose")

Reference(c) ==
  CASE op.name = "group_by" -> GroupByRef(op, Sent, c)
    [] op.name \in Unary \cup Created -> UnaryRef(op, Sent, c)
    [] OTHER -> CombineRef(op, Sent)

TakesNone == op.name = "take" /\ op.n = 0

\* "An observable that emits only the first t items emitted by the source"
\* (rx-take.hpp:13).
TakesOnlyTheFirst == op.name = "take" => Len(SelectSeq(out, LAMBDA n : n.k = "next")) <= op.n

\* What an observer has seen is what the documentation of the operator says of
\* the whole history of its sources: the operator, which sees one signal at a
\* time and keeps a few members, agrees with the closed form of RxReference,
\* windows, groups and a tapping observer included, whatever order the signals
\* of several sources come in and whenever the observer leaves. The last call of
\* finally(), and the release of the resource of scope(), come once, after
\* everything else, on every way the output can end. take(0) is left out: its
\* documentation says no item, and the code sends one.
OutputIsReference == op.p = 0 /\ ~TakesNone =>
  /\ IF op.name = "average"
     THEN IF op.quit = 0 THEN IsAverage(Sent, Channel(0)) ELSE TRUE
     ELSE Channel(0) = Cut(Reference(0))
  /\ \A c \in {out[j].s : j \in DOMAIN out} \ {0, Side} : Channel(c) = Reference(c)
  /\ op.name = "tap" => Channel(Side) = Reference(Side)
  /\ op.name = "finally" \/ (op.name = "scope" /\ op.m # 1) =>
       /\ Len(Channel(Side)) = IF 0 \in live THEN 0 ELSE 1
       /\ 0 \notin live => out[Len(out)].s = Side
  /\ Heard(op, Sent)

\* An output that has not ended has a source left that can end it: except that
\* skip_until() swallows the completion of a source its trigger has not opened,
\* and that the function given to create() may just return.
NobodyLeftWaiting ==
  op.p = 0 /\ 0 \in live /\ on = {} => op.name = "skip_until" \/ (op.name = "create" /\ op.m = 2)
Says(j, k) == out[j].s = 0 /\ out[j].k = k
Over(k) == \E j \in DOMAIN out : Says(j, k)
SentAt(v) == SentNext[v].at

\* Sent with the completion, and not because a timer said so; an observer that
\* left in this value, or in one that came with it, has not seen the completion.
Flushed(j) ==
  \E e \in j..Len(out) : when[e] = when[j] /\
    \/ e > j /\ Says(e, "completed")
    \/ e = op.quit /\ \E l \in ToSet(log) : l.i.k = "completed" /\ l.at <= when[j]

\* Value v, and no value after it, was sent before time t.
SilentUntil(v, t) == v < Len(SentNext) => SentAt(v + 1) >= t

\* What the observer of channel c has received, the buffers put end to end.
Received(c) ==
  LET seen == SelectSeq(out, LAMBDA n : n.s = c /\ n.k = "next") IN
  IF op.name = "timestamp" THEN [j \in DOMAIN seen |-> Item(seen[j])]
  ELSE FlattenSeq([j \in DOMAIN seen |-> seen[j].v])

\* The j-th value of range(), which sends Whole of them.
Whole == Distance(op.m, op.n) \div op.p + (IF Distance(op.m, op.n) % op.p = 0 THEN 1 ELSE 2)
Ranged(j) == IF Distance(op.m, op.n) < (j - 1) * op.p THEN op.n ELSE op.m + (j - 1) * Stride(op)

Consecutive(s) == \A j \in DOMAIN s : s[j] = s[1] + j - 1
Increasing(s) == \A j \in DOMAIN s : j > 1 => s[j - 1] < s[j]

OnTime(j) ==
  LET v == Item(out[j])
      before == IF j = 1 THEN 0 ELSE when[j - 1]
      full == j > 1 /\ Len(out[j - 1].v) = op.n
  IN /\ op.name = "delay" /\ Says(j, "next") => when[j] >= SentAt(v) + op.p
     /\ op.name = "delay" /\ Says(j, "completed") =>
          \E e \in ToSet(log) : e.i.k = "completed" /\ when[j] >= e.at + op.p
     /\ op.name = "debounce" /\ Says(j, "next") /\ ~Flushed(j) =>
          when[j] >= SentAt(v) + op.p /\ SilentUntil(v, SentAt(v) + op.p)
     /\ op.name = "timeout" /\ Says(j, "error") /\ ~Ended1 =>
          when[j] >= before + op.p /\ SilentUntil(j - 1, before + op.p)
     /\ op.name = "buffer_with_time_or_count" /\ Says(j, "next") /\ ~Flushed(j) /\ Len(out[j].v) < op.n =>
          when[j] >= (IF full THEN before ELSE 0) + op.p
     /\ op.name = "buffer_with_time" /\ Says(j, "next") /\ ~Flushed(j) =>
          when[j] >= (j - 1) * op.m + op.p
     /\ op.name \in {"sample_with_time", "interval"} /\ Says(j, "next") =>
          when[j] >= (j - 1) * op.p
     /\ op.name = "timer" => when[j] >= op.p

\* However late the worker is, nothing is sent before its time: a delayed value
\* not before the delay, a debounced value only if no other was sent within the
\* period, a timeout only after a period without a value, a short buffer not
\* before the period that began with the last full one, a sample, a buffer or a
\* tick not before its turn.
NeverEarly == op.p # 0 => \A j \in DOMAIN out : out[j].s = 0 => OnTime(j)

\* Values arrive in the order they were sent and never twice; the operators that
\* may not drop any send a gapless prefix, all of it when they complete, and
\* debounce() then has sent the last one. A buffer or a window has consecutive
\* values, and no more than count of them where there is a count.
DeliveredAsSent ==
  LET channels == {n.s : n \in ToSet(out)} \ {0, Side}
      counted == op.name \in {"buffer_with_time_or_count", "window_with_time_or_count"}
      seen == Received(0)
  IN op.p # 0 =>
     /\ op.name \in {"delay", "timeout", "observe_on", "subscribe_on", "timestamp",
                     "buffer_with_time_or_count", "synchronize"} =>
          /\ seen = [j \in DOMAIN seen |-> j]
          /\ Over("completed") => Len(seen) = Len(SentNext)
     /\ op.name \in {"range", "iterate"} =>
          /\ \A j \in DOMAIN seen : seen[j] = IF op.name = "range" THEN Ranged(j) ELSE j
          /\ Over("completed") => Len(seen) = IF op.name = "range" THEN Whole ELSE op.n
     /\ op.name \in {"debounce", "sample_with_time"} => Increasing(seen)
     /\ op.name = "debounce" /\ Over("completed") /\ SentNext # <<>> =>
          seen # <<>> /\ seen[Len(seen)] = Len(SentNext)
     /\ \A c \in channels : Consecutive(Received(c)) /\ (counted => Len(Received(c)) <= op.n)
     /\ counted => Increasing(FlattenSeq([j \in DOMAIN out |->
                     IF out[j].k = "next" THEN out[j].v ELSE <<>>]))
     /\ \A j \in DOMAIN out : op.name = "buffer_with_time" /\ Says(j, "next") =>
          Consecutive(out[j].v)
     /\ counted => \A j \in DOMAIN out : Len(out[j].v) <= op.n

\* The end of the source reaches the observer: when the worker has done all that
\* was due in time, the observer has seen an end, unless it left before or the
\* process broke down, and the disposer that the same end put on the worker has
\* not overtaken what the source sent before it. Only the subject's own subscriber
\* of synchronize() takes the drain along when it goes.
Idle == op.p # 0 /\ now = MaxNow /\ (queue = <<>> \/ Head(queue).at > now) /\ ~(Ended1 /\ 1 \in on)
Left == \/ \E e \in ToSet(log) : e.i.k = "dispose"
        \/ \E n \in ToSet(out) : n.k = "undefined"
        \/ op.quit > 0 /\ Seen(out) >= op.quit
Overtaken == op.name = "synchronize" /\ op.m = 1 /\ st.done
EndReached ==
  Idle /\ (Ended1 \/ op.name \in {"timer", "range", "iterate", "error"}) =>
    Over("completed") \/ Over("error") \/ Left \/ Overtaken

\* maybe::operator* terminates the process when the value is not set: no operator
\* takes a value that is not there.
NothingTakenFromEmpty == \A n \in ToSet(out) : n.k # "undefined"
=============================================================================
