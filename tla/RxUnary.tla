------------------------------- MODULE RxUnary -------------------------------
(* The RxCpp operators with one source (include/rxcpp/operators): each is the *)
(* function that takes the operator o with its arguments n and m, its state   *)
(* st and one signal i of the source, and returns what the call does.         *)
(*                                                                            *)
(* Every operator keeps its members in the same few fields: counters n and m, *)
(* a queue items, a set seen and a flag done; out tells whether the output is *)
(* still subscribed (dest.is_subscribed()).                                   *)
EXTENDS RxNotification

OnlyNext(st, i, result) == IF i.k = "next" THEN result ELSE Forward(st, i)
Guarded(st, i, result) ==
  OnlyNext(st, i, IF Throws(Item(i)) THEN Fails(st) ELSE result)

Bit(b) == IF b THEN <<1>> ELSE <<0>>

map(o, st, i) == Guarded(st, i, Push(st, <<Project(Item(i))>>))

filter(o, st, i) == Guarded(st, i, IF Test(Item(i)) THEN Push(st, i.v) ELSE Quietly(st))

\* The accumulator is a sum; it starts from the seed n.
scan(o, st, i) ==
  Guarded(st, i, LET total == st.n + Item(i) IN Push([st EXCEPT !.n = total], <<total>>))

\* Variant: the count is compared before the last value.
takeInclusive(o, st, i) ==
  LET left == [st EXCEPT !.n = st.n - 1] IN
  OnlyNext(st, i,
    IF left.n >= 0 THEN Push(left, i.v)
    ELSE [Finish([left EXCEPT !.done = TRUE], i.v) EXCEPT !.off = {1}])

\* Counts down to the last value it lets through: take(0) still takes one.
take(o, st, i) ==
  LET left == [st EXCEPT !.n = st.n - 1] IN
  OnlyNext(st, i,
    IF left.n > 0 THEN Push(left, i.v)
    ELSE [Finish([left EXCEPT !.done = TRUE], i.v) EXCEPT !.off = {1}])

skip(o, st, i) ==
  OnlyNext(st, i, IF st.n > 0 THEN Quietly([st EXCEPT !.n = st.n - 1]) ELSE Push(st, i.v))

take_last(o, st, i) ==
  CASE i.k = "next" /\ o.n > 0 ->
         Quietly([st EXCEPT !.items =
           Append(IF Len(st.items) = o.n THEN Tail(st.items) ELSE st.items, Item(i))])
    [] i.k = "next" /\ o.n = 0 -> Quietly(st)
    [] i.k = "completed" ->
         Does([st EXCEPT !.items = <<>>],
              [j \in DOMAIN st.items |-> OnNext(<<st.items[j]>>)] \o <<OnCompleted>>)
    [] OTHER -> Forward(st, i)

skip_last(o, st, i) ==
  LET kept == [st EXCEPT !.items = Append(st.items, Item(i))] IN
  OnlyNext(st, i,
    IF o.n = 0 THEN Push(st, i.v)
    ELSE IF Len(st.items) < o.n THEN Quietly(kept)
    ELSE Push([kept EXCEPT !.items = Tail(kept.items)], <<Head(st.items)>>))

take_while(o, st, i) ==
  Guarded(st, i, IF Test(Item(i)) THEN Push(st, i.v) ELSE Does(st, <<OnCompleted>>))

\* Once a value has passed, the predicate is not asked again.
skip_while(o, st, i) ==
  OnlyNext(st, i,
    IF st.done THEN Push(st, i.v)
    ELSE IF Throws(Item(i)) THEN Fails(st)
    ELSE IF Test(Item(i)) THEN Quietly(st)
    ELSE Push([st EXCEPT !.done = TRUE], i.v))

distinct(o, st, i) ==
  OnlyNext(st, i,
    IF Item(i) \in st.seen THEN Quietly(st)
    ELSE Push([st EXCEPT !.seen = @ \cup {Item(i)}], i.v))

\* The predicate compares a value with the last one that passed: not on the first.
distinct_until_changed(o, st, i) ==
  OnlyNext(st, i,
    IF st.items # <<>> /\ Throws(Item(i)) THEN Fails(st)
    ELSE IF st.items = i.v THEN Quietly(st)
    ELSE Push([st EXCEPT !.items = i.v], i.v))

element_at(o, st, i) ==
  LET next == [st EXCEPT !.m = st.m + 1] IN
  CASE i.k = "next" -> IF st.m = o.n THEN Finish(next, i.v) ELSE Quietly(next)
    [] i.k = "completed" -> IF st.m <= o.n THEN Fails(st) ELSE Quietly(st)
    [] OTHER -> Forward(st, i)

pairwise(o, st, i) ==
  LET next == [st EXCEPT !.items = i.v] IN
  OnlyNext(st, i, IF st.items = <<>> THEN Quietly(next) ELSE Push(next, st.items \o i.v))

ignore_elements(o, st, i) == OnlyNext(st, i, Quietly(st))

\* The tapping observer is called before the destination is; what it throws
\* comes back to it, and to the destination, as an error.
tap(o, st, i) ==
  LET tapped(n) == <<[n EXCEPT !.s = Side], [n EXCEPT !.s = 0]>> IN
  CASE i.k = "subscribe" -> Forward(st, i)
    [] i.k = "next" /\ Throws(Item(i)) ->
         Does(st, <<[i EXCEPT !.s = Side]>> \o tapped(OnError))
    [] OTHER -> Does(st, tapped(i))

all(o, st, i) ==
  CASE i.k = "next" ->
         IF Throws(Item(i)) THEN Fails(st)
         ELSE IF Test(Item(i)) \/ st.done THEN Quietly(st)
         ELSE Finish([st EXCEPT !.done = TRUE], Bit(FALSE))
    [] i.k = "completed" ->
         IF st.done THEN Quietly(st) ELSE Finish([st EXCEPT !.done = TRUE], Bit(TRUE))
    [] OTHER -> Forward(st, i)

\* is_empty is all() of a predicate that is never true.
is_empty(o, st, i) ==
  CASE i.k = "next" -> IF st.done THEN Quietly(st)
                       ELSE Finish([st EXCEPT !.done = TRUE], Bit(FALSE))
    [] OTHER -> all(o, st, i)

any(o, st, i) ==
  CASE i.k = "next" ->
         IF Throws(Item(i)) THEN Fails(st)
         ELSE IF ~Test(Item(i)) \/ st.done THEN Quietly(st)
         ELSE Finish([st EXCEPT !.done = TRUE], Bit(TRUE))
    [] i.k = "completed" ->
         IF st.done THEN Quietly(st) ELSE Finish([st EXCEPT !.done = TRUE], Bit(FALSE))
    [] OTHER -> Forward(st, i)

(* items is the deque of chunks: a value opens a chunk every m values, goes   *)
(* into every chunk, and the chunks that are full at the front are sent.      *)
buffer_count(o, st, i) ==
  LET opened == IF st.m % o.m = 0 THEN Append(st.items, <<>>) ELSE st.items
      filled == [j \in DOMAIN opened |-> Append(opened[j], Item(i))]
      full   == Cardinality({j \in DOMAIN filled : Len(filled[j]) = o.n})
  IN CASE i.k = "next" ->
            Does([st EXCEPT !.m = @ + 1, !.items = SubSeq(filled, full + 1, Len(filled))],
                 [j \in 1..full |-> OnNext(filled[j])])
       [] i.k = "completed" ->
            Does([st EXCEPT !.items = <<>>],
                 [j \in DOMAIN st.items |-> OnNext(st.items[j])] \o <<OnCompleted>>)
       [] OTHER -> Forward(st, i)

(* items is the deque of open windows, the constructor opens the first. A     *)
(* value goes into every open window; the front one closes after n values of  *)
(* its own, and one more opens every m values. n is the number opened so far. *)
window(o, st, i) ==
  LET c      == st.m - o.n + 1
      closes == c >= 0 /\ c % o.m = 0
      opens  == (st.m + 1) % o.m = 0
      front  == IF closes THEN Tail(st.items) ELSE st.items
  IN CASE i.k = "subscribe" ->
            [Does([st EXCEPT !.n = 1, !.items = <<1>>], <<Open(1)>>) EXCEPT !.on = {1}]
       [] i.k = "next" ->
            Does([st EXCEPT !.m = @ + 1,
                            !.n = IF opens THEN @ + 1 ELSE @,
                            !.items = IF opens THEN Append(front, st.n + 1) ELSE front],
                 ToWindows(st.items, i)
                 \o (IF closes THEN ToWindows(<<Head(st.items)>>, OnCompleted) ELSE <<>>)
                 \o (IF opens THEN <<Open(st.n + 1)>> ELSE <<>>))
       [] OTHER -> Does(st, ToWindows(st.items, i) \o <<[i EXCEPT !.s = 0]>>)

(* reduce() folds the values into items, an optional of a few numbers, and    *)
(* sends the result when the source completes; its sum, average, max, min and *)
(* last fail on an empty stream. T::max is MaxT: average() sets a mean aside  *)
(* when adding the value would overflow, and averages the means it set aside. *)
(* A mean is the numerator and the denominator of a fraction.                 *)
CONSTANT MaxT

sum(a, v) == IF a = <<>> THEN <<v>> ELSE <<a[1] + v>>
max(a, v) == IF a = <<>> \/ a[1] < v THEN <<v>> ELSE a
min(a, v) == IF a = <<>> \/ v < a[1] THEN <<v>> ELSE a
last(a, v) == <<v>>

MeanOf(a) == IF a[4] = 0 THEN <<a[1], a[2]>>
             ELSE <<a[3] * a[2] + a[1] * a[4], 2 * a[4] * a[2]>>

average(a, v) ==
  CASE a = <<>> -> <<v, 1, 0, 0>>
    [] a # <<>> /\ a[1] > MaxT - v -> <<v, 1>> \o MeanOf(a)
    [] OTHER -> <<a[1] + v, a[2] + 1, a[3], a[4]>>

Accumulate(how, a, v) ==
  CASE how = "sum" -> sum(a, v)
    [] how = "max" -> max(a, v)
    [] how = "min" -> min(a, v)
    [] how = "last" -> last(a, v)
    [] how = "average" -> average(a, v)

reduce(o, st, i) ==
  CASE i.k = "next" -> Quietly([st EXCEPT !.items = Accumulate(o.name, @, Item(i))])
    [] i.k = "completed" ->
         IF st.items = <<>> THEN Fails(st)
         ELSE Finish(st, IF o.name = "average" THEN MeanOf(st.items) ELSE st.items)
    [] OTHER -> Forward(st, i)

\* first() reduces what take(1) lets through.
first(o, st, i) ==
  LET taken == take(o, st, i)
      value == SelectSeq(taken.push, LAMBDA n : n.k = "next")
  IN CASE i.k = "next" ->
            [Finish(taken.st, value[1].v) EXCEPT !.off = taken.off]
       [] OTHER -> reduce(o, st, i)

(* The key of a value is the value. items[key] is the channel of its group, 0 *)
(* when there is none; source 1 + key is the duration of the key's group,     *)
(* which takes one signal and expires the group. n is the number of groups.   *)
(* A value on which the caller's functions throw has key 1, and o.m says which *)
(* one throws: the keySelector (0), the durationSelector, which is called for *)
(* a new group only and before it is sent (1), or the marbleSelector, which   *)
(* is called when the group is there (2). All groups then end with the error. *)
Known(c) == IF c = 0 THEN <<>> ELSE <<c>>
Groups(st) == Known(st.items[1]) \o Known(st.items[2])

group_by(o, st, i) ==
  LET key    == IF Throws(Item(i)) THEN 1 ELSE Item(i)
      found  == st.items[key] # 0
      c      == IF found THEN st.items[key] ELSE st.n + 1
      opened == [st EXCEPT !.items[key] = c, !.n = IF found THEN @ ELSE @ + 1]
      throws(m) == Throws(Item(i)) /\ o.m = m
      all_groups(s, n) == ToWindows(Groups(s), n) \o <<[n EXCEPT !.s = 0]>>
  IN CASE i.k = "subscribe" -> Subscribing([st EXCEPT !.items = <<0, 0>>, !.n = 0], {1})
       [] i.k = "next" /\ i.s = 1 ->
            IF throws(0) \/ (throws(1) /\ ~found /\ st.out)
            THEN Does(st, all_groups(st, OnError))
            ELSE IF ~found /\ ~st.out THEN Quietly(st)
            ELSE [Does(opened, (IF found THEN <<>> ELSE <<Open(c)>>)
                               \o (IF throws(2) THEN all_groups(opened, OnError)
                                   ELSE ToWindows(<<c>>, i)))
                  EXCEPT !.on = IF found THEN {} ELSE {1 + key}]
       [] i.s > 1 ->
            [Does([st EXCEPT !.items[i.s - 1] = 0],
                  ToWindows(Known(st.items[i.s - 1]), OnCompleted))
             EXCEPT !.off = {i.s}]
       [] OTHER -> [Does(st, all_groups(st, i)) EXCEPT !.off = {2, 3}]

(* The sources create(), defer() and scope(). What the caller's function does *)
(* is o.m: for create() it sends the values 1 to n and then completes (0),    *)
(* throws (1) or just returns (2).                                            *)
create(o, st, i) ==
  Does(st, [j \in 1..o.n |-> OnNext(<<j>>)]
           \o (CASE o.m = 0 -> <<OnCompleted>> [] o.m = 1 -> <<OnError>> [] OTHER -> <<>>))

\* The factory throws (m = 1) or returns source 1.
defer(o, st, i) ==
  IF i.k = "subscribe" /\ o.m = 1 THEN Fails(st) ELSE Forward(st, i)

\* The resource factory throws (m = 1), or there is a resource (done), which is
\* added to the output's lifetime; then the observable factory throws (m = 2) or
\* returns source 1.
scope(o, st, i) ==
  LET made == [st EXCEPT !.done = TRUE] IN
  CASE i.k = "subscribe" /\ o.m = 1 -> Fails(st)
    [] i.k = "subscribe" /\ o.m = 2 -> Fails(made)
    [] OTHER -> Forward(made, i)
=============================================================================
