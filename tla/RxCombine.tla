------------------------------ MODULE RxCombine ------------------------------
(* The RxCpp operators with several sources. Source 1 is the one the operator *)
(* is lifted on; where it is a source of observables, its j-th value is the   *)
(* inner source 1 + j. The fields of a state are those of RxUnary, with vals, *)
(* the values the outer source has sent; n counts the inner sources, m is the *)
(* number of completions that are pending. The coordination is the identity,  *)
(* the default: calls arrive one at a time.                                   *)
EXTENDS RxUnary

Outer(i) == i.s = 1
InnerNo(i) == i.s - 1

\* Variant: the completions are tested before this one is taken off.
CompletionLate(st, ending) ==
  LET left == [st EXCEPT !.m = @ - 1] IN
  IF st.m = 0 THEN Does(left, <<ending>>) ELSE Quietly(left)

\* One completion fewer is pending; the last one sends what the rest amounts to.
Completion(st, ending) ==
  LET left == [st EXCEPT !.m = @ - 1] IN
  IF left.m = 0 THEN Does(left, <<ending>>) ELSE Quietly(left)

\* The next inner source is subscribed, and its completion is pending.
Join(st) == Subscribing([st EXCEPT !.n = @ + 1, !.m = @ + 1], {st.n + 2})

merge(o, st, i) ==
  CASE i.k = "subscribe" -> Subscribing([st EXCEPT !.m = 1, !.n = 0], {1})
    [] i.k = "next" /\ Outer(i) -> Join(st)
    [] i.k = "completed" -> Completion(st, OnCompleted)
    [] OTHER -> Forward(st, i)

\* done: an error has been put aside in the composite exception.
merge_delay_error(o, st, i) ==
  LET kept == [st EXCEPT !.done = TRUE] IN
  CASE i.k = "error" -> Completion(kept, OnError)
    [] i.k = "completed" -> Completion(st, IF st.done THEN OnError ELSE OnCompleted)
    [] OTHER -> merge(o, st, i)

(* The moved-from value of line 198: the first value of an inner source takes *)
(* the outer value away, when its type has a move that empties it (o.m = 1).  *)
Moved == 0

flat_map(o, st, i) ==
  LET v == st.vals[InnerNo(i)] IN
  CASE i.k = "next" /\ Outer(i) ->
         IF Throws(Item(i)) THEN Fails(st)
         ELSE Join([st EXCEPT !.vals = Append(@, Item(i))])
    [] i.k = "next" /\ ~Outer(i) ->
         IF Throws(Item(i)) THEN Fails(st)
         ELSE Push([st EXCEPT !.vals[InnerNo(i)] = IF o.m = 1 THEN Moved ELSE v],
                   <<v, Item(i)>>)
    [] OTHER -> merge(o, st, i)

(* items is the queue of inner sources, m the one that is subscribed (0: the  *)
(* collection lifetime is over), done tells that the outer source has ended.  *)
concat(o, st, i) ==
  LET c      == st.n + 2
      next   == Head(st.items)
      idle   == st.m = 0
  IN CASE i.k = "subscribe" -> Subscribing([st EXCEPT !.m = 0, !.n = 0], {1})
       [] i.k = "next" /\ Outer(i) /\ ~idle ->
            Quietly([st EXCEPT !.n = @ + 1, !.items = Append(@, c)])
       [] i.k = "next" /\ Outer(i) /\ idle ->
            Subscribing([st EXCEPT !.n = @ + 1, !.m = c], {c})
       [] i.k = "completed" /\ Outer(i) ->
            Does([st EXCEPT !.done = TRUE],
                 IF idle /\ st.items = <<>> THEN <<OnCompleted>> ELSE <<>>)
       [] i.k = "completed" /\ ~Outer(i) /\ st.items # <<>> ->
            Subscribing([st EXCEPT !.m = next, !.items = Tail(@)], {next})
       [] i.k = "completed" /\ ~Outer(i) /\ st.items = <<>> ->
            Does([st EXCEPT !.m = 0], IF st.done THEN <<OnCompleted>> ELSE <<>>)
       [] OTHER -> Forward(st, i)

(* concat() of the collections selected from the outer values; the collection *)
(* of a value is selected when its turn comes.                                *)
concat_map(o, st, i) ==
  LET known == IF i.k = "next" /\ Outer(i)
               THEN [st EXCEPT !.vals = Append(@, Item(i))] ELSE st
      r     == concat(o, known, i)
      turn  == {s - 1 : s \in r.on \ {1}}
  IN IF i.k = "next" /\ ~Outer(i)
     THEN IF Throws(Item(i)) THEN Fails(st)
          ELSE Push(st, <<st.vals[InnerNo(i)], Item(i)>>)
     ELSE IF \E j \in turn : Throws(known.vals[j]) THEN Fails(r.st) ELSE r

\* done: a source has emitted first. The others are unsubscribed then.
amb(o, st, i) ==
  CASE i.k = "subscribe" -> merge(o, st, i)
    [] i.k = "next" /\ Outer(i) -> IF st.done THEN Quietly(st) ELSE Join(st)
    [] i.k = "next" /\ ~Outer(i) /\ ~st.done ->
         [Push([st EXCEPT !.done = TRUE], i.v) EXCEPT !.off = (2..st.n + 1) \ {i.s}]
    [] i.k = "completed" /\ Outer(i) /\ st.n # 0 -> Quietly(st)
    [] OTHER -> Forward(st, i)

\* done: the latest inner source is subscribed. Its end, or the next one, is a
\* completion fewer.
switch_on_next(o, st, i) ==
  LET ended == [st EXCEPT !.m = IF st.done THEN @ - 1 ELSE @, !.done = FALSE] IN
  CASE i.k = "subscribe" -> merge(o, st, i)
    [] i.k = "next" /\ Outer(i) ->
         [Join([ended EXCEPT !.done = TRUE]) EXCEPT !.off = IF st.done THEN {st.n + 1} ELSE {}]
    [] i.k = "completed" /\ Outer(i) -> Completion(st, OnCompleted)
    [] i.k = "completed" /\ ~Outer(i) ->
         Does(ended, IF st.m = 1 THEN <<OnCompleted>> ELSE <<>>)
    [] OTHER -> Forward(st, i)

(* Two sources side by side: items has the queue of each, seen the ones that  *)
(* have completed.                                                            *)
Both == {1, 2}
SideBySide(st) == Subscribing([st EXCEPT !.items = <<<<>>, <<>>>>], Both)
Ended(st, i) == [st EXCEPT !.seen = @ \cup {i.s}]
CompleteAll(st, i) ==
  Does(Ended(st, i), IF Ended(st, i).seen = Both THEN <<OnCompleted>> ELSE <<>>)
Dry(st) == \E s \in st.seen : st.items[s] = <<>>

zip(o, st, i) ==
  LET queued == [st EXCEPT !.items[i.s] = Append(@, Item(i))]
      ready  == \A s \in Both : queued.items[s] # <<>>
      fronts == [s \in Both |-> Head(queued.items[s])]
      popped == IF ready THEN [queued EXCEPT !.items = [s \in Both |-> Tail(@[s])]]
                ELSE queued
  IN CASE i.k = "subscribe" -> SideBySide(st)
       [] i.k = "next" ->
            Does(popped,
                 (IF ~ready THEN <<>>
                  ELSE IF \E s \in Both : Throws(fronts[s]) THEN <<OnError>>
                  ELSE <<OnNext(fronts)>>)
                 \o (IF Dry(popped) THEN <<OnCompleted>> ELSE <<>>))
       [] i.k = "completed" -> CompleteAll(st, i)
       [] OTHER -> Forward(st, i)

\* items[s] is the latest value of s, <<>> before its first.
Latest(st, i, triggers) ==
  LET known == [st EXCEPT !.items[i.s] = i.v]
      all_set == \A s \in Both : known.items[s] # <<>>
      values == known.items[1] \o known.items[2]
  IN CASE i.k = "subscribe" -> SideBySide(st)
       [] i.k = "next" ->
            IF ~(all_set /\ i.s \in triggers) THEN Quietly(known)
            ELSE IF \E s \in Both : Throws(values[s]) THEN Fails(known)
            ELSE Push(known, values)
       [] i.k = "completed" -> CompleteAll(st, i)
       [] OTHER -> Forward(st, i)

combine_latest(o, st, i) == Latest(st, i, Both)
with_latest_from(o, st, i) == Latest(st, i, {1})

(* The trigger is source 2. The modes of both operators, in the order of the  *)
(* enumeration in which they are compared, in n.                              *)
Taking == 0
Clear == 1
Triggered == 2

take_until(o, st, i) ==
  CASE i.k = "subscribe" -> Subscribing([st EXCEPT !.n = Taking], Both)
    [] i.s = 2 /\ st.n # Taking -> Quietly(st)
    [] i.s = 2 /\ st.n = Taking /\ i.k = "next" ->
         Does([st EXCEPT !.n = Triggered], <<OnCompleted>>)
    [] i.s = 2 /\ st.n = Taking /\ i.k = "completed" -> Quietly([st EXCEPT !.n = Clear])
    [] i.s = 1 /\ i.k # "subscribe" /\ st.n >= Triggered -> Quietly(st)
    [] OTHER -> Forward(st, i)

\* A completion of the source before the trigger's value is not passed on.
skip_until(o, st, i) ==
  CASE i.k = "subscribe" -> Subscribing([st EXCEPT !.n = Taking], Both)
    [] i.s = 2 /\ st.n # Taking -> Quietly(st)
    [] i.s = 2 /\ st.n = Taking /\ i.k = "next" ->
         [Quietly([st EXCEPT !.n = Triggered]) EXCEPT !.off = {2}]
    [] i.s = 2 /\ st.n = Taking /\ i.k = "completed" ->
         [Quietly([st EXCEPT !.n = Clear]) EXCEPT !.off = {2}]
    [] i.s = 1 /\ i.k \in {"next", "completed"} /\ st.n # Triggered -> Quietly(st)
    [] OTHER -> Forward(st, i)

\* check_equal after a value, check_complete after a completion.
sequence_equal(o, st, i) ==
  LET other  == 3 - i.s
      queued == [st EXCEPT !.items[i.s] = Append(@, Item(i))]
      pair   == \A s \in Both : queued.items[s] # <<>>
      fronts == [s \in Both |-> Head(queued.items[s])]
      popped == [queued EXCEPT !.items = [s \in Both |-> Tail(@[s])]]
      excess == \E s \in Both : queued.items[s] # <<>> /\ 3 - s \in st.seen
  IN CASE i.k = "subscribe" -> SideBySide(st)
       [] i.k = "next" /\ pair ->
            IF fronts[1] = fronts[2] THEN Quietly(popped) ELSE Finish(popped, Bit(FALSE))
       [] i.k = "next" /\ ~pair ->
            IF excess THEN Finish(queued, Bit(FALSE)) ELSE Quietly(queued)
       [] i.k = "completed" /\ other \in st.seen ->
            Finish(Ended(st, i), Bit(\A s \in Both : st.items[s] = <<>>))
       [] i.k = "completed" /\ other \notin st.seen -> Quietly(Ended(st, i))
       [] OTHER -> Forward(st, i)

\* Source 2 is the selected one; it is subscribed with the destination itself.
on_error_resume_next(o, st, i) ==
  IF i.k = "error" /\ i.s = 1 THEN Subscribing(st, {2}) ELSE Forward(st, i)

switch_if_empty(o, st, i) ==
  CASE i.k = "next" /\ i.s = 1 -> Push([st EXCEPT !.done = TRUE], i.v)
    [] i.k = "completed" /\ i.s = 1 /\ ~st.done -> Subscribing(st, {2})
    [] OTHER -> Forward(st, i)

\* concat() of the values n and m, sent on subscription, and the source.
start_with(o, st, i) ==
  IF i.k = "subscribe"
  THEN [Does(st, <<OnNext(<<o.n>>), OnNext(<<o.m>>)>>) EXCEPT !.on = {1}]
  ELSE Forward(st, i)

(* retry() and repeat() subscribe the source again, n times in all; m = 1:    *)
(* without end.                                                               *)
Again(o, st, ending) ==
  LET left == IF o.m = 1 THEN st ELSE [st EXCEPT !.n = @ - 1] IN
  IF o.m # 1 /\ left.n <= 0 THEN Does(left, <<ending>>) ELSE Subscribing(left, {1})

Attempts(o, st) == IF o.m # 1 /\ st.n <= 0 THEN Does(st, <<OnCompleted>>) ELSE Subscribing(st, {1})

retry(o, st, i) ==
  CASE i.k = "subscribe" -> Attempts(o, st)
    [] i.k = "error" -> Again(o, st, OnError)
    [] OTHER -> Forward(st, i)

repeat(o, st, i) ==
  CASE i.k = "subscribe" -> Attempts(o, st)
    [] i.k = "completed" -> Again(o, st, OnCompleted)
    [] OTHER -> Forward(st, i)
=============================================================================
