-------------------------- MODULE RxOperators_proofs --------------------------
(* What is proved about the RxCpp operators, for every catalogue and bound.   *)
EXTENDS RxOperators, FiniteSetTheorems, SequenceTheorems, TLAPS

(* Induction is by the least natural number of a set.                         *)
LEMMA LeastNatural ==
  ASSUME NEW S \in SUBSET Nat, S # {}
  PROVE  \E x \in S : \A y \in S : x <= y
<1> DEFINE R == {ss \in Nat \X Nat : ss[1] < ss[2]}
<1>1. OpToRel(<, Nat) = R
  BY Zenon DEF OpToRel
<1>2. IsWellFoundedOn(R, Nat)
  BY <1>1, NatLessThanWellFounded, Zenon
<1>3. \A x, y \in Nat : y < x => <<y, x>> \in R
  BY SMT
<1>4. \A x, y \in Nat : ~(y < x) => x <= y
  OBVIOUS
<1> HIDE DEF R
<1>5. \E x \in S : \A y \in S : <<y, x>> \notin R
  BY <1>2, WFMin
<1> QED
  BY <1>3, <1>4, <1>5

\* The recursive function of Deliver, and the one of EnqueueAll, are defined.
AccAt(quit, start, push, f, j) == IF j = 0 THEN start ELSE subscriber(quit, f[j - 1], push[j])
\* That f holds the intermediate results of Deliver over push.
IsAcc(quit, start, push, n, f) == f = [j \in 0 .. n |-> AccAt(quit, start, push, f, j)]

LEMMA AccExists ==
  ASSUME NEW quit, NEW start, NEW push
  PROVE  \A n \in Nat : \E f : IsAcc(quit, start, push, n, f)
<1> DEFINE Bad == {n \in Nat : ~ \E f : IsAcc(quit, start, push, n, f)}
<1> SUFFICES ASSUME Bad # {} PROVE FALSE
  OBVIOUS
<1>1. PICK n \in Bad : \A m \in Bad : n <= m
  BY LeastNatural
<1>2. CASE n = 0
  <2> DEFINE g == [j \in 0 .. 0 |-> start]
  <2>1. IsAcc(quit, start, push, 0, g)
    BY DEF IsAcc, AccAt
  <2> QED
    BY <1>1, <1>2, <2>1
<1>3. CASE n # 0
  <2>1. n - 1 \in Nat /\ n - 1 \notin Bad
    BY <1>1, <1>3
  <2>2. PICK f : IsAcc(quit, start, push, n - 1, f)
    BY <2>1
  <2> DEFINE g == [j \in 0 .. n |-> IF j = n THEN AccAt(quit, start, push, f, n) ELSE f[j]]
  <2>3. \A j \in 0 .. n : j # n => f[j] = AccAt(quit, start, push, f, j)
    <3>1. n \in Nat
      BY <1>1
    <3>2. \A j \in 0 .. n : j # n => j \in 0 .. n - 1
      BY <3>1
    <3> HIDE DEF Bad
    <3>3. f = [j \in 0 .. n - 1 |-> AccAt(quit, start, push, f, j)]
      BY <2>2 DEF IsAcc
    <3> QED
      BY <3>2, <3>3
  <2>4. \A j \in 0 .. n : AccAt(quit, start, push, g, j) = AccAt(quit, start, push, f, j)
    <3>1. \A j \in 0 .. n : j # 0 => g[j - 1] = f[j - 1]
      BY <1>1
    <3>2. \A h, j : j # 0 /\ h[j - 1] = f[j - 1] =>
            AccAt(quit, start, push, h, j) = AccAt(quit, start, push, f, j)
      BY DEF AccAt
    <3>3. \A h : AccAt(quit, start, push, h, 0) = AccAt(quit, start, push, f, 0)
      BY DEF AccAt
    <3> HIDE DEF g
    <3> QED
      BY <3>1, <3>2, <3>3
  <2>5. IsAcc(quit, start, push, n, g)
    BY <2>3, <2>4 DEF IsAcc
  <2> QED
    BY <1>1, <2>5
<1> QED
  BY <1>2, <1>3

LEMMA DeliverIsAcc ==
  ASSUME NEW quit, NEW channels, NEW seen, NEW push, Len(push) \in Nat
  PROVE  \E f : /\ IsAcc(quit, [live |-> channels, out |-> seen], push, Len(push), f)
                /\ Deliver(quit, channels, seen, push) = f[Len(push)]
<1> DEFINE start == [live |-> channels, out |-> seen]
           acc == CHOOSE f : IsAcc(quit, start, push, Len(push), f)
<1>1. IsAcc(quit, start, push, Len(push), acc)
  BY AccExists
<1>2. Deliver(quit, channels, seen, push) = acc[Len(push)]
  BY Zenon DEF Deliver, IsAcc, AccAt
<1> QED
  BY <1>1, <1>2

LEMMA NoWork == ASSUME NEW q PROVE EnqueueAll(q, <<>>) = q
<1> DEFINE At(f, j) == IF j = 0 THEN q ELSE enqueue(f[j - 1], <<>>[j])
           g == CHOOSE f : f = [j \in 0 .. Len(<<>>) |-> At(f, j)]
           h == [j \in 0 .. 0 |-> q]
<1>0. Len(<<>>) = 0
  OBVIOUS
<1>1. h = [j \in 0 .. 0 |-> At(h, j)]
  OBVIOUS
<1>2. g = [j \in 0 .. 0 |-> At(g, j)]
  BY <1>0, <1>1
<1>3. g[0] = q
  <2> HIDE DEF g
  <2> QED
    BY <1>2
<1>4. EnqueueAll(q, <<>>) = g[Len(<<>>)]
  BY Zenon DEF EnqueueAll
<1> QED
  BY <1>0, <1>3, <1>4

-----------------------------------------------------------------------------
(* What a call sends. Only the output announces channels; what ends it is a   *)
(* terminal signal on channel 0.                                              *)
GoodPush(p) == \E T : p \in Seq(T) /\ \A e \in T : e.k = "open" => e.s = 0
\* A push that carries an end to the output.
EndsOutput(p) == \E j \in DOMAIN p : p[j].s = 0 /\ Terminal(p[j])
\* A sequence, of whatever.
IsList(s) == \E T : s \in Seq(T)

LEMMA NoPush == GoodPush(<<>>)
<1> DEFINE T == {}
<1>1. <<>> \in Seq(T) /\ \A e \in T : e.k = "open" => e.s = 0
  OBVIOUS
<1> HIDE DEF T
<1> QED
  BY <1>1 DEF GoodPush

LEMMA OnePush ==
  ASSUME NEW e, e.k = "open" => e.s = 0
  PROVE  /\ GoodPush(<<e>>)
         /\ e.s = 0 /\ Terminal(e) => EndsOutput(<<e>>)
<1> DEFINE T == {e}
<1>1. <<e>> \in Seq(T) /\ \A x \in T : x.k = "open" => x.s = 0
  OBVIOUS
<1>2. GoodPush(<<e>>)
  <2> HIDE DEF T
  <2> QED
    BY <1>1 DEF GoodPush
<1>3. 1 \in DOMAIN <<e>> /\ <<e>>[1] = e
  OBVIOUS
<1> QED
  BY <1>2, <1>3, Zenon DEF EndsOutput

LEMMA TwoPush ==
  ASSUME NEW d, NEW e, d.k = "open" => d.s = 0, e.k = "open" => e.s = 0
  PROVE  /\ GoodPush(<<d, e>>)
         /\ e.s = 0 /\ Terminal(e) => EndsOutput(<<d, e>>)
<1> DEFINE T == {d, e}
<1>1. <<d, e>> \in Seq(T) /\ \A x \in T : x.k = "open" => x.s = 0
  OBVIOUS
<1>2. GoodPush(<<d, e>>)
  <2> HIDE DEF T
  <2> QED
    BY <1>1 DEF GoodPush
<1>3. 2 \in DOMAIN <<d, e>> /\ <<d, e>>[2] = e
  OBVIOUS
<1> QED
  BY <1>2, <1>3, Zenon DEF EndsOutput

LEMMA JoinedPush ==
  ASSUME NEW p, NEW q, GoodPush(p), GoodPush(q)
  PROVE  /\ GoodPush(p \o q)
         /\ EndsOutput(q) => EndsOutput(p \o q)
<1>1. PICK S : p \in Seq(S) /\ \A e \in S : e.k = "open" => e.s = 0
  BY DEF GoodPush
<1>2. PICK T : q \in Seq(T) /\ \A e \in T : e.k = "open" => e.s = 0
  BY DEF GoodPush
<1>3. p \in Seq(S \cup T) /\ q \in Seq(S \cup T)
  BY <1>1, <1>2
<1>4. p \o q \in Seq(S \cup T)
  BY <1>3
<1>5. GoodPush(p \o q)
  BY <1>1, <1>2, <1>4 DEF GoodPush
<1>6. ASSUME NEW j \in DOMAIN q PROVE Len(p) + j \in DOMAIN (p \o q) /\ (p \o q)[Len(p) + j] = q[j]
  BY <1>3
<1> QED
  BY <1>5, <1>6 DEF EndsOutput

\* Values, chunks and windows, one signal each.
LEMMA MappedPush ==
  ASSUME NEW n \in Nat, NEW p, DOMAIN p = 1 .. n, p = [j \in 1 .. n |-> p[j]],
         \A j \in 1 .. n : p[j].k # "open"
  PROVE  GoodPush(p)
<1> DEFINE T == {p[j] : j \in 1 .. n}
<1>1. p \in Seq(T)
  OBVIOUS
<1> QED
  BY <1>1, SMTT(25) DEF GoodPush

\* What one delivery does to the output's observer: it never comes back, and it
\* does not outlive a terminal signal.
LEMMA DeliveryEnds ==
  ASSUME NEW quit, NEW channels, NEW seen, NEW push, GoodPush(push),
         0 \in Deliver(quit, channels, seen, push).live
  PROVE  0 \in channels /\ ~EndsOutput(push)
<1>1. PICK T : push \in Seq(T) /\ \A e \in T : e.k = "open" => e.s = 0
  BY DEF GoodPush
<1>2. Len(push) \in Nat /\ DOMAIN push = 1 .. Len(push) /\ \A j \in 1 .. Len(push) : push[j] \in T
  BY <1>1
<1>3. PICK f : /\ IsAcc(quit, [live |-> channels, out |-> seen], push, Len(push), f)
               /\ Deliver(quit, channels, seen, push) = f[Len(push)]
  BY <1>2, DeliverIsAcc
<1>4. \A j \in 0 .. Len(push) : f[j] = AccAt(quit, [live |-> channels, out |-> seen], push, f, j)
  BY <1>3 DEF IsAcc
<1>5. f[0].live = channels
  BY <1>2, <1>4 DEF AccAt
<1>6. ASSUME NEW j \in 1 .. Len(push)
      PROVE  /\ 0 \notin f[j - 1].live => 0 \notin f[j].live
             /\ push[j].s = 0 /\ Terminal(push[j]) => 0 \notin f[j].live
  <2>1. f[j] = subscriber(quit, f[j - 1], push[j])
    BY <1>4, <1>2 DEF AccAt
  <2>2. push[j].k = "open" => push[j].s = 0
    BY <1>1, <1>2
  <2> QED
    BY <2>1, <2>2 DEF subscriber, Terminal
<1> DEFINE Gone(j) == 0 \notin f[j].live
           Bad == {j \in 0 .. Len(push) : ~Gone(j)}
<1>7. ASSUME NEW a \in 0 .. Len(push), Gone(a) PROVE Gone(Len(push))
  <2> DEFINE Back == {j \in 0 .. Len(push) : a <= j /\ ~Gone(j)}
  <2> SUFFICES ASSUME Back # {} PROVE FALSE
    BY <1>2
  <2>1. Back \in SUBSET Nat
    BY <1>2
  <2>2. PICK b \in Back : \A c \in Back : b <= c
    BY <2>1, LeastNatural
  <2>3. b \in 1 .. Len(push) /\ b - 1 \in 0 .. Len(push) /\ a <= b - 1
    BY <2>2, <1>7, <1>2
  <2>4. b - 1 \notin Back
    BY <2>2, <2>3
  <2>5. Gone(b - 1)
    BY <2>3, <2>4
  <2> QED
    BY <1>6, <2>2, <2>3, <2>5
<1>8. 0 \in channels
  BY <1>2, <1>3, <1>5, <1>7
<1>9. ASSUME NEW j \in DOMAIN push, push[j].s = 0, Terminal(push[j]) PROVE FALSE
  BY <1>2, <1>3, <1>6, <1>7, <1>9
<1> QED
  BY <1>8, <1>9 DEF EndsOutput

-----------------------------------------------------------------------------
(* What one call does, in the terms of the invariant below.                   *)
IsState(s) == s = [n |-> s.n, m |-> s.m, items |-> s.items, seen |-> s.seen,
                   done |-> s.done, vals |-> s.vals, out |-> s.out]
IsCall(i) == /\ i = [s |-> i.s, k |-> i.k, v |-> i.v]
             /\ i.k \in {"next", "error", "completed"}
             /\ i.k = "next" => \E x \in 1 .. 3 : i.v = <<x>>

\* A call that subscribes and unsubscribes nothing and puts nothing off.
Plain(r, s) == r.st = s /\ r.on = {} /\ r.off = {} /\ r.arm = <<>> /\ GoodPush(r.push)

LEMMA DoesIs ==
  ASSUME NEW s, NEW p, GoodPush(p)
  PROVE  Plain(Does(s, p), s) /\ Does(s, p).push = p
BY DEF Plain, Does

LEMMA QuietlyIs == \A s : Plain(Quietly(s), s)
BY NoPush DEF Plain, Does, Quietly

LEMMA PushIs == \A s, v : Plain(Push(s, v), s)
BY OnePush DEF Plain, Does, Push, OnNext, Signal

LEMMA FinishIs == \A s, v : Plain(Finish(s, v), s) /\ EndsOutput(Finish(s, v).push)
BY TwoPush DEF Plain, Does, Finish, OnNext, OnCompleted, Signal, Terminal

LEMMA FailsIs == \A s : Plain(Fails(s), s) /\ EndsOutput(Fails(s).push)
BY OnePush DEF Plain, Does, Fails, OnError, Signal, Terminal

LEMMA CompletesIs == \A s : Plain(Does(s, <<OnCompleted>>), s) /\ EndsOutput(Does(s, <<OnCompleted>>).push)
BY OnePush DEF Plain, Does, OnCompleted, Signal, Terminal

LEMMA SubscribingIs ==
  \A s, S : LET r == Subscribing(s, S) IN
    r.st = s /\ r.on = S /\ r.off = {} /\ r.arm = <<>> /\ GoodPush(r.push)
BY NoPush DEF Subscribing, Quietly, Does

LEMMA ForwardIs ==
  \A s, i : IsCall(i) =>
    Plain(Forward(s, i), s) /\ (Terminal(i) => EndsOutput(Forward(s, i).push))
<1> SUFFICES ASSUME NEW s, NEW i, IsCall(i)
             PROVE  Plain(Forward(s, i), s) /\ (Terminal(i) => EndsOutput(Forward(s, i).push))
  OBVIOUS
<1> DEFINE e == [i EXCEPT !.s = 0]
<1>1. e.s = 0 /\ e.k = i.k /\ (Terminal(e) <=> Terminal(i)) /\ e.k # "open" /\ i.k # "subscribe"
  BY DEF IsCall, Terminal
<1>2. Forward(s, i) = Does(s, <<e>>)
  BY <1>1 DEF Forward
<1> HIDE DEF e
<1> QED
  BY <1>1, <1>2, OnePush DEF Plain, Does

LEMMA ForwardSubscribes ==
  \A s, i : i.k = "subscribe" => Forward(s, i) = Subscribing(s, {1})
BY DEF Forward

-----------------------------------------------------------------------------
(* Who can still end the output: S are the sources the operator is subscribed *)
(* to, and its members agree with them.                                       *)

\* The operators that hear the end of the output from source 1.
FromFirst == Unary \cup {"defer", "scope", "start_with", "retry", "repeat"}

\* The counted operators: a pending completion for each source.
Counted(s, S) ==
  /\ s.n \in Nat /\ S \subseteq 1 .. s.n + 1
  /\ S # {} /\ s.m = Cardinality(S)

\* concat: the source in turn, the sources that wait, the outer source.
InTurn(s, S) ==
  /\ s.n \in Nat /\ s.m \in Nat /\ s.m # 1
  /\ s.items \in Seq(Nat \ {0, 1})
  /\ ~s.done => 1 \in S
  /\ s.done => s.m # 0
  /\ s.m # 0 => s.m \in S
  /\ s.m = 0 => s.items = <<>>

\* amb: before a source has won, the list of sources is still open; afterwards the winner is on.
Racing(s, S) == s.n \in Nat /\ S \subseteq Nat \ {0} /\ IF s.n = 0 THEN 1 \in S ELSE \E x \in S : x > 1

\* switch_on_next: the outer source and the latest inner one.
Latched(s, S) ==
  /\ s.n \in Nat /\ s.m \in 1 .. 2 /\ s.done \in BOOLEAN
  /\ s.done => s.n # 0
  /\ \A x \in S : x = 1 \/ (s.done /\ x = s.n + 1)
  /\ s.done => s.n + 1 \in S
  /\ s.m = (IF 1 \in S THEN 1 ELSE 0) + (IF s.done THEN 1 ELSE 0)

\* window: n have been opened by value m, and all but the Len(items) last of them
\* have closed.
Opened(o, s) ==
  LET closed == s.n - Len(s.items) IN
  /\ s.n \in Nat /\ s.m \in Nat /\ IsList(s.items) /\ closed \in Nat
  /\ s.n * o.m - o.m <= s.m /\ s.m < s.n * o.m
  /\ closed = 0 \/ closed * o.m - o.m + o.n <= s.m
  /\ s.m < closed * o.m + o.n

Waits(o, s, S) ==
  /\ IsState(s)
  /\ o.name \in FromFirst => S = {1}
  /\ o.name \in {"group_by", "take_until"} => 1 \in S
  /\ o.name \in {"take_last", "buffer_count"} => IsList(s.items)
  /\ o.name = "window" => Opened(o, s)
  /\ o.name = "element_at" => s.m \in Nat /\ s.m <= o.n
  /\ o.name \in {"all", "is_empty", "any"} => ~s.done
  /\ o.name \in {"merge", "merge_delay_error", "flat_map"} => Counted(s, S)
  /\ o.name \in {"concat", "concat_map"} => InTurn(s, S)
  /\ o.name = "amb" => Racing(s, S)
  /\ o.name = "switch_on_next" => Latched(s, S)
  /\ o.name \in {"zip", "combine_latest", "with_latest_from", "sequence_equal"} =>
       s.seen \subseteq Both /\ s.seen # Both /\ S = Both \ s.seen
  /\ o.name = "take_until" => s.n \in {Taking, Clear}
  /\ o.name \in {"on_error_resume_next", "switch_if_empty"} => S # {} /\ S \subseteq Both
  /\ o.name = "create" => S = {} /\ o.m \notin {0, 1}

\* The sources left once i has been taken from its own.
Gone(S, i) == IF Terminal(i) THEN S \ {i.s} ELSE S

\* What a call owes: it sends what it may, and ends the output or leaves
\* somebody who can.
Goes(o, r, S) ==
  /\ r.arm = <<>> /\ GoodPush(r.push)
  /\ EndsOutput(r.push) \/ Waits(o, r.st, (S \ r.off) \cup r.on)

\* The operators with nothing but their source to wait for.
Simple == {"map", "filter", "scan", "take", "skip", "skip_last", "take_while", "skip_while",
           "distinct", "distinct_until_changed", "pairwise", "ignore_elements", "finally",
           "sum", "max", "min", "last", "average", "first", "tap", "defer", "scope"}

\* What a simple operator owes: nothing but source 1.
LEMMA SimpleWaits ==
  ASSUME NEW o, o.name \in Simple, NEW s, NEW S
  PROVE  Waits(o, s, S) <=> IsState(s) /\ S = {1}
BY DEF Simple, Waits, FromFirst, Unary

LEMMA SimpleGoes ==
  ASSUME NEW o, o.name \in Simple, NEW s, NEW S, Waits(o, s, S), NEW i, IsCall(i), i.s = 1,
         NEW r, r.arm = <<>>, GoodPush(r.push), r.on = {},
         EndsOutput(r.push) \/ (~Terminal(i) /\ IsState(r.st) /\ r.off = {})
  PROVE  Goes(o, r, Gone(S, i))
BY SimpleWaits DEF Goes, Gone

LEMMA StateKept ==
  \A s : IsState(s) =>
    /\ \A x : /\ IsState([s EXCEPT !.n = x]) /\ IsState([s EXCEPT !.m = x])
              /\ IsState([s EXCEPT !.items = x]) /\ IsState([s EXCEPT !.seen = x])
              /\ IsState([s EXCEPT !.done = x]) /\ IsState([s EXCEPT !.out = x])
              /\ IsState([s EXCEPT !.vals = x])
BY DEF IsState

LEMMA StateFields ==
  ASSUME NEW s, NEW x, IsState(s)
  PROVE  /\ LET t == [s EXCEPT !.n = x] IN
            t.n = x /\ t.m = s.m /\ t.items = s.items /\ t.seen = s.seen /\ t.done = s.done
         /\ LET t == [s EXCEPT !.m = x] IN
            t.n = s.n /\ t.m = x /\ t.items = s.items /\ t.seen = s.seen /\ t.done = s.done
         /\ LET t == [s EXCEPT !.items = x] IN
            t.n = s.n /\ t.m = s.m /\ t.items = x /\ t.seen = s.seen /\ t.done = s.done
         /\ LET t == [s EXCEPT !.seen = x] IN
            t.n = s.n /\ t.m = s.m /\ t.items = s.items /\ t.seen = x /\ t.done = s.done
         /\ LET t == [s EXCEPT !.done = x] IN
            t.n = s.n /\ t.m = s.m /\ t.items = s.items /\ t.seen = s.seen /\ t.done = x
         /\ LET t == [s EXCEPT !.vals = x] IN
            t.n = s.n /\ t.m = s.m /\ t.items = s.items /\ t.seen = s.seen /\ t.done = s.done
         /\ LET t == [s EXCEPT !.out = x] IN
            t.n = s.n /\ t.m = s.m /\ t.items = s.items /\ t.seen = s.seen /\ t.done = s.done
BY DEF IsState

LEMMA StateIs ==
  ASSUME NEW s, IsState(s)
  PROVE  \E a, b, c, d, e, f, g : s = [n |-> a, m |-> b, items |-> c, seen |-> d, done |-> e,
                                      vals |-> f, out |-> g]
BY DEF IsState

\* Two members changed at once.
WithMItems(s, x, y) == [s EXCEPT !.m = x, !.items = y]
\* n and m, and n and items, set together.
WithNM(s, x, y) == [s EXCEPT !.n = x, !.m = y]
WithNItems(s, x, y) == [s EXCEPT !.n = x, !.items = y]
LEMMA NAndItems ==
  ASSUME NEW s, NEW x, NEW y, IsState(s), NEW t, t = WithNItems(s, x, y)
  PROVE  /\ IsState(t) /\ t.n = x /\ t.m = s.m /\ t.items = y
         /\ t.seen = s.seen /\ t.done = s.done
<1>1. PICK n0, m0, l0, d, e, f, g : s = [n |-> n0, m |-> m0, items |-> l0, seen |-> d,
                                        done |-> e, vals |-> f, out |-> g]
  BY StateIs
<1>2. t = [n |-> x, m |-> m0, items |-> y, seen |-> d, done |-> e, vals |-> f, out |-> g]
  BY <1>1 DEF WithNItems
<1> QED
  BY <1>1, <1>2 DEF IsState

LEMMA NAndM ==
  ASSUME NEW s, NEW x, NEW y, IsState(s), NEW t, t = WithNM(s, x, y)
  PROVE  /\ IsState(t) /\ t.n = x /\ t.m = y /\ t.items = s.items
         /\ t.seen = s.seen /\ t.done = s.done
<1>1. PICK n0, m0, l0, d, e, f, g : s = [n |-> n0, m |-> m0, items |-> l0, seen |-> d,
                                        done |-> e, vals |-> f, out |-> g]
  BY StateIs
<1>2. t = [n |-> x, m |-> y, items |-> l0, seen |-> d, done |-> e, vals |-> f, out |-> g]
  BY <1>1 DEF WithNM
<1> QED
  BY <1>1, <1>2 DEF IsState

LEMMA MAndItems ==
  ASSUME NEW s, NEW x, NEW y, IsState(s), NEW t, t = WithMItems(s, x, y)
  PROVE  /\ IsState(t) /\ t.n = s.n /\ t.m = x /\ t.items = y
         /\ t.seen = s.seen /\ t.done = s.done
<1>1. PICK n0, m0, l0, d, e, f, g : s = [n |-> n0, m |-> m0, items |-> l0, seen |-> d,
                                        done |-> e, vals |-> f, out |-> g]
  BY StateIs
<1>2. t = [n |-> n0, m |-> x, items |-> y, seen |-> d, done |-> e, vals |-> f, out |-> g]
  BY <1>1 DEF WithMItems
<1> QED
  BY <1>1, <1>2 DEF IsState

\* The operators with a CASE of their own for values only.
LEMMA ValueStep ==
  ASSUME NEW o, o.name \in Simple, NEW s, NEW S, Waits(o, s, S), NEW i, IsCall(i), i.s = 1
  PROVE  /\ Goes(o, map(o, s, i), Gone(S, i)) /\ Goes(o, filter(o, s, i), Gone(S, i))
         /\ Goes(o, scan(o, s, i), Gone(S, i)) /\ Goes(o, skip(o, s, i), Gone(S, i))
         /\ Goes(o, skip_last(o, s, i), Gone(S, i)) /\ Goes(o, take_while(o, s, i), Gone(S, i))
         /\ Goes(o, skip_while(o, s, i), Gone(S, i)) /\ Goes(o, distinct(o, s, i), Gone(S, i))
         /\ Goes(o, distinct_until_changed(o, s, i), Gone(S, i))
         /\ Goes(o, pairwise(o, s, i), Gone(S, i))
         /\ Goes(o, ignore_elements(o, s, i), Gone(S, i)) /\ Goes(o, Forward(s, i), Gone(S, i))
         /\ Goes(o, defer(o, s, i), Gone(S, i)) /\ Goes(o, scope(o, s, i), Gone(S, i))
<1>1. IsState(s)
  BY SimpleWaits
<1>2. i.k # "subscribe" /\ (Terminal(i) <=> i.k # "next")
  BY DEF IsCall, Terminal
<1>3. \A t : IsState(t) => Goes(o, Forward(t, i), Gone(S, i))
  BY SimpleGoes, ForwardIs DEF Plain
<1> DEFINE Good(r) == r.arm = <<>> /\ GoodPush(r.push) /\ r.on = {} /\ r.off = {}
                      /\ (EndsOutput(r.push) \/ IsState(r.st))
<1>4. \A r : i.k = "next" /\ Good(r) => Goes(o, r, Gone(S, i))
  BY <1>2, SimpleGoes
<1>5. \A t, v : IsState(t) => Good(Quietly(t)) /\ Good(Push(t, v)) /\ Good(Fails(t)) /\ Good(Does(t, <<OnCompleted>>))
  BY QuietlyIs, PushIs, FailsIs, CompletesIs DEF Plain
<1>6. \A r : i.k = "next" /\ Good(r) => Goes(o, OnlyNext(s, i, r), Gone(S, i))
  BY <1>4 DEF OnlyNext
<1>7. \A r : i.k # "next" => Goes(o, OnlyNext(s, i, r), Gone(S, i))
  BY <1>1, <1>3 DEF OnlyNext
<1> HIDE DEF Good
<1>8. \A r : Good(r) => Goes(o, OnlyNext(s, i, r), Gone(S, i)) /\ Goes(o, Guarded(s, i, r), Gone(S, i))
  BY <1>1, <1>5, <1>6, <1>7 DEF Guarded
<1>a. Goes(o, map(o, s, i), Gone(S, i)) /\ Goes(o, filter(o, s, i), Gone(S, i))
  BY <1>1, <1>5, <1>8 DEF map, filter
<1>b. Goes(o, scan(o, s, i), Gone(S, i)) /\ Goes(o, skip(o, s, i), Gone(S, i))
  BY <1>1, <1>5, <1>8, StateKept DEF scan, skip
<1>c. Goes(o, skip_last(o, s, i), Gone(S, i)) /\ Goes(o, take_while(o, s, i), Gone(S, i))
  BY <1>1, <1>5, <1>8, StateKept DEF skip_last, take_while
<1>d. Goes(o, skip_while(o, s, i), Gone(S, i)) /\ Goes(o, distinct(o, s, i), Gone(S, i))
  BY <1>1, <1>5, <1>8, StateKept DEF skip_while, distinct
<1>e. Goes(o, distinct_until_changed(o, s, i), Gone(S, i)) /\ Goes(o, pairwise(o, s, i), Gone(S, i))
  BY <1>1, <1>5, <1>8, StateKept DEF distinct_until_changed, pairwise
<1>f. Goes(o, ignore_elements(o, s, i), Gone(S, i)) /\ Goes(o, Forward(s, i), Gone(S, i))
  BY <1>1, <1>3, <1>5, <1>8 DEF ignore_elements
<1>g. Goes(o, defer(o, s, i), Gone(S, i)) /\ Goes(o, scope(o, s, i), Gone(S, i))
  BY <1>1, <1>2, <1>3, StateKept DEF defer, scope
<1> QED
  BY <1>a, <1>b, <1>c, <1>d, <1>e, <1>f, <1>g

LEMMA TakeStep ==
  ASSUME NEW o, o.name \in Simple, NEW s, NEW S, Waits(o, s, S), NEW i, IsCall(i), i.s = 1
  PROVE  /\ Goes(o, take(o, s, i), Gone(S, i)) /\ Goes(o, reduce(o, s, i), Gone(S, i))
         /\ Goes(o, first(o, s, i), Gone(S, i)) /\ Goes(o, tap(o, s, i), Gone(S, i))
<1>1. IsState(s)
  BY SimpleWaits
<1>2. i.k # "subscribe" /\ (Terminal(i) <=> i.k # "next")
  BY DEF IsCall, Terminal
<1>3. \A t : IsState(t) => Goes(o, Forward(t, i), Gone(S, i))
  BY SimpleGoes, ForwardIs DEF Plain
<1> DEFINE Settled(r) == r.arm = <<>> /\ GoodPush(r.push) /\ r.on = {} /\ EndsOutput(r.push)
<1>4. \A r : Settled(r) => Goes(o, r, Gone(S, i))
  BY DEF Goes
<1>5. \A t, v, x : Settled(Finish(t, v)) /\ Settled([Finish(t, v) EXCEPT !.off = x])
  <2> TAKE t, v, x
  <2>1. Plain(Finish(t, v), t) /\ EndsOutput(Finish(t, v).push)
    BY FinishIs
  <2>2. LET r == [Finish(t, v) EXCEPT !.off = x] IN
        r.arm = Finish(t, v).arm /\ r.push = Finish(t, v).push /\ r.on = Finish(t, v).on
    BY DEF Finish, Does
  <2> QED
    BY <2>1, <2>2 DEF Plain
<1>6. \A t, v : i.k = "next" /\ IsState(t) =>
        /\ Goes(o, Push(t, v), Gone(S, i)) /\ Goes(o, Quietly(t), Gone(S, i))
        /\ Goes(o, Fails(t), Gone(S, i))
  BY <1>2, SimpleGoes, PushIs, QuietlyIs, FailsIs DEF Plain
<1>7. \A t : Goes(o, Fails(t), Gone(S, i))
  BY FailsIs DEF Plain, Goes
<1> HIDE DEF Settled
<1>8. Goes(o, take(o, s, i), Gone(S, i))
  BY <1>1, <1>3, <1>4, <1>5, <1>6, StateKept DEF take, OnlyNext
<1>9. Goes(o, reduce(o, s, i), Gone(S, i))
  BY <1>1, <1>3, <1>4, <1>5, <1>6, <1>7, StateKept DEF reduce
<1>10. Goes(o, first(o, s, i), Gone(S, i))
  BY <1>4, <1>5, <1>9 DEF first
<1>11. Goes(o, tap(o, s, i), Gone(S, i))
  <2> DEFINE tapped(n) == <<[n EXCEPT !.s = Side], [n EXCEPT !.s = 0]>>
  <2>1. \A n : n = [s |-> n.s, k |-> n.k, v |-> n.v] /\ n.k \in {"next", "error", "completed"} =>
          GoodPush(tapped(n)) /\ (Terminal(n) => EndsOutput(tapped(n)))
    <3> SUFFICES ASSUME NEW n, n = [s |-> n.s, k |-> n.k, v |-> n.v],
                        n.k \in {"next", "error", "completed"}
                 PROVE  GoodPush(tapped(n)) /\ (Terminal(n) => EndsOutput(tapped(n)))
      OBVIOUS
    <3> DEFINE d == [n EXCEPT !.s = Side]
               e == [n EXCEPT !.s = 0]
    <3>1. d.k = n.k /\ e.k = n.k /\ e.s = 0 /\ (Terminal(e) <=> Terminal(n)) /\ n.k # "open"
      BY DEF Terminal
    <3> HIDE DEF d, e
    <3>2. GoodPush(<<d, e>>) /\ (Terminal(n) => EndsOutput(<<d, e>>))
      BY <3>1, TwoPush
    <3> QED
      BY <3>2 DEF d, e
  <2>2. CASE i.k = "next" /\ Throws(Item(i))
    <3> DEFINE p == <<[i EXCEPT !.s = Side]>>
               q == tapped(OnError)
    <3>1. GoodPush(q) /\ EndsOutput(q)
      BY <2>1 DEF OnError, Signal, Terminal
    <3>2. GoodPush(p)
      <4> DEFINE e == [i EXCEPT !.s = Side]
      <4>1. e.k # "open"
        BY DEF IsCall
      <4> HIDE DEF e
      <4>2. GoodPush(<<e>>)
        BY <4>1, OnePush
      <4> QED
        BY <4>2 DEF e
    <3> HIDE DEF p, q
    <3>3. GoodPush(p \o q) /\ EndsOutput(p \o q)
      BY <3>1, <3>2, JoinedPush
    <3>4. tap(o, s, i) = Does(s, p \o q)
      BY <2>2 DEF tap, p, q
    <3> QED
      BY <3>3, <3>4, DoesIs DEF Goes, Plain
  <2>3. CASE ~(i.k = "next" /\ Throws(Item(i)))
    <3>1. tap(o, s, i) = Does(s, tapped(i))
      BY <2>3, <1>2 DEF tap
    <3>2. GoodPush(tapped(i)) /\ (Terminal(i) => EndsOutput(tapped(i)))
      BY <2>1 DEF IsCall
    <3> HIDE DEF tapped
    <3> QED
      BY <1>1, <3>1, <3>2, DoesIs, SimpleGoes DEF Plain
  <2> QED
    BY <2>2, <2>3
<1> QED
  BY <1>8, <1>9, <1>10, <1>11

-----------------------------------------------------------------------------
(* The operators with one source whose members matter.                        *)
LEMMA ElementAtStep ==
  ASSUME NEW o, o.name = "element_at", o.n \in Nat, NEW s, NEW S, Waits(o, s, S),
         NEW i, IsCall(i), i.s = 1
  PROVE  Goes(o, element_at(o, s, i), Gone(S, i))
<1>1. \A t, T : Waits(o, t, T) <=> IsState(t) /\ T = {1} /\ t.m \in Nat /\ t.m <= o.n
  BY DEF Waits, FromFirst, Unary
<1>2. IsState(s) /\ S = {1} /\ s.m \in Nat /\ s.m <= o.n
  BY <1>1
<1> DEFINE next == s.m + 1
           more == [s EXCEPT !.m = next]
<1>3. IsState(more) /\ more.m = s.m + 1
  <2> HIDE DEF next
  <2>1. IsState(more) /\ more.m = next
    BY <1>2 DEF IsState
  <2> QED
    BY <2>1 DEF next
<1> HIDE DEF more
<1>4. CASE i.k = "next"
  <2>1. Gone(S, i) = S
    BY <1>4 DEF Gone, Terminal
  <2>2. element_at(o, s, i) = IF s.m = o.n THEN Finish(more, i.v) ELSE Quietly(more)
    BY <1>4 DEF element_at, more
  <2>3. CASE s.m = o.n
    BY <2>2, <2>3, FinishIs DEF Goes, Plain
  <2>4. CASE s.m # o.n
    <3>1. Waits(o, more, (S \ {}) \cup {})
      BY <1>1, <1>2, <1>3, <2>4
    <3> QED
      BY <2>1, <2>2, <2>4, <3>1, QuietlyIs DEF Goes, Plain
  <2> QED
    BY <2>3, <2>4
<1>5. CASE i.k = "completed"
  BY <1>2, <1>5, FailsIs DEF element_at, Goes, Plain
<1>6. CASE i.k = "error"
  BY <1>6, ForwardIs DEF element_at, Goes, Plain, Terminal
<1> QED
  BY <1>4, <1>5, <1>6 DEF IsCall

LEMMA PredicateStep ==
  ASSUME NEW o, o.name \in {"all", "is_empty", "any"}, NEW s, NEW S, Waits(o, s, S),
         NEW i, IsCall(i), i.s = 1
  PROVE  /\ Goes(o, all(o, s, i), Gone(S, i)) /\ Goes(o, is_empty(o, s, i), Gone(S, i))
         /\ Goes(o, any(o, s, i), Gone(S, i))
<1>1. IsState(s) /\ S = {1} /\ ~s.done
  BY DEF Waits, FromFirst, Unary
<1>2. Goes(o, Fails(s), Gone(S, i)) /\ \A t, v : Goes(o, Finish(t, v), Gone(S, i))
  BY FailsIs, FinishIs DEF Goes, Plain
<1>3. i.k = "next" => Goes(o, Quietly(s), Gone(S, i))
  <2>1. i.k = "next" => Waits(o, s, (Gone(S, i) \ {}) \cup {})
    BY DEF Gone, Terminal
  <2> QED
    BY <2>1, QuietlyIs DEF Goes, Plain
<1>4. i.k = "error" => Goes(o, Forward(s, i), Gone(S, i))
  BY ForwardIs DEF Goes, Plain, Terminal
<1>5. i.k \in {"next", "error", "completed"}
  BY DEF IsCall
<1>6. Goes(o, all(o, s, i), Gone(S, i))
  BY <1>1, <1>2, <1>3, <1>4, <1>5 DEF all
<1>7. Goes(o, any(o, s, i), Gone(S, i))
  BY <1>1, <1>2, <1>3, <1>4, <1>5 DEF any
<1> QED
  BY <1>1, <1>2, <1>3, <1>4, <1>5, <1>6, <1>7 DEF is_empty

\* A signal to a list of windows.
LEMMA WindowsPush ==
  ASSUME NEW s, IsList(s), NEW n, n = [s |-> n.s, k |-> n.k, v |-> n.v], n.k # "open"
  PROVE  GoodPush(ToWindows(s, n))
<1>1. Len(s) \in Nat /\ DOMAIN s = 1 .. Len(s)
  BY DEF IsList
<1> DEFINE p == ToWindows(s, n)
<1>2. p = [j \in 1 .. Len(s) |-> [n EXCEPT !.s = s[j]]]
  BY <1>1 DEF ToWindows
<1>3. \A j \in 1 .. Len(s) : p[j] = [n EXCEPT !.s = s[j]]
  BY <1>2
<1>4. \A j \in 1 .. Len(s) : p[j].k # "open"
  BY <1>3
<1>5. DOMAIN p = 1 .. Len(s) /\ p = [j \in 1 .. Len(s) |-> p[j]]
  BY <1>2
<1> HIDE DEF p
<1>6. GoodPush(p)
  BY <1>1, <1>4, <1>5, MappedPush
<1> QED
  BY <1>6 DEF p

\* The last signal of a call goes to the output.
LEMMA LastPush ==
  ASSUME NEW p, GoodPush(p), NEW e, e.s = 0, e.k # "open"
  PROVE  GoodPush(p \o <<e>>) /\ (Terminal(e) => EndsOutput(p \o <<e>>))
BY OnePush, JoinedPush

LEMMA ValuesPush ==
  ASSUME NEW s, IsList(s)
  PROVE  /\ GoodPush([j \in DOMAIN s |-> OnNext(s[j])])
         /\ GoodPush([j \in DOMAIN s |-> OnNext(<<s[j]>>)])
<1>1. Len(s) \in Nat /\ DOMAIN s = 1 .. Len(s)
  BY DEF IsList
<1> DEFINE p == [j \in DOMAIN s |-> OnNext(s[j])]
           q == [j \in DOMAIN s |-> OnNext(<<s[j]>>)]
<1>2. \A j \in 1 .. Len(s) : p[j].k # "open" /\ q[j].k # "open"
  BY <1>1 DEF OnNext, Signal
<1>3. /\ DOMAIN p = 1 .. Len(s) /\ p = [j \in 1 .. Len(s) |-> p[j]]
      /\ DOMAIN q = 1 .. Len(s) /\ q = [j \in 1 .. Len(s) |-> q[j]]
  BY <1>1
<1> HIDE DEF p, q
<1>4. GoodPush(p) /\ GoodPush(q)
  BY <1>1, <1>2, <1>3, MappedPush
<1> QED
  BY <1>4 DEF p, q

LEMMA ListLemma ==
  ASSUME NEW s, IsList(s), NEW x
  PROVE  /\ IsList(Append(s, x)) /\ (s # <<>> => IsList(Tail(s))) /\ Len(s) \in Nat /\ DOMAIN s = 1 .. Len(s)
         /\ IsList([j \in DOMAIN s |-> Append(s[j], x)])
         /\ \A a \in Nat : a <= Len(s) => IsList(SubSeq(s, a + 1, Len(s)))
<1>1. PICK T : s \in Seq(T)
  BY DEF IsList
<1>2. Append(s, x) \in Seq(T \cup {x})
  BY <1>1
<1>3. s # <<>> => Tail(s) \in Seq(T)
  BY <1>1
<1>4. Len(s) \in Nat /\ DOMAIN s = 1 .. Len(s)
  BY <1>1
<1>5. [j \in DOMAIN s |-> Append(s[j], x)] \in Seq({Append(t, x) : t \in T})
  BY <1>1
<1>6. \A a \in Nat : a <= Len(s) => SubSeq(s, a + 1, Len(s)) \in Seq(T)
  BY <1>1, <1>4
<1> QED
  BY <1>2, <1>3, <1>4, <1>5, <1>6 DEF IsList

\* The two operators with a list.
LEMMA ListWaits ==
  ASSUME NEW o, o.name \in {"take_last", "buffer_count"}, NEW s, NEW S
  PROVE  Waits(o, s, S) <=> IsState(s) /\ S = {1} /\ IsList(s.items)
BY DEF Waits, FromFirst, Unary

LEMMA TakeLastStep ==
  ASSUME NEW o, o.name = "take_last", o.n \in Nat, NEW s, NEW S, Waits(o, s, S),
         NEW i, IsCall(i), i.s = 1
  PROVE  Goes(o, take_last(o, s, i), Gone(S, i))
<1>1. IsState(s) /\ S = {1} /\ IsList(s.items)
  BY ListWaits
<1>2. CASE i.k = "next"
  <2>1. Gone(S, i) = S
    BY <1>2 DEF Gone, Terminal
  <2>2. \A x : IsList(x) => Goes(o, Quietly([s EXCEPT !.items = x]), Gone(S, i))
    <3> TAKE x
    <3> HAVE IsList(x)
    <3> DEFINE t == [s EXCEPT !.items = x]
    <3>1. IsState(t) /\ t.items = x
      BY <1>1 DEF IsState
    <3> HIDE DEF t
    <3>2. Waits(o, t, (S \ {}) \cup {})
      BY <1>1, <3>1, ListWaits
    <3>3. Goes(o, Quietly(t), Gone(S, i))
      BY <2>1, <3>2, QuietlyIs DEF Goes, Plain
    <3> QED
      BY <3>3 DEF t
  <2>3. Goes(o, Quietly(s), Gone(S, i))
    <3>1. Waits(o, s, (S \ {}) \cup {})
      OBVIOUS
    <3> QED
      BY <2>1, <3>1, QuietlyIs DEF Goes, Plain
  <2> DEFINE kept == Append(IF Len(s.items) = o.n THEN Tail(s.items) ELSE s.items, Item(i))
  <2>4. o.n > 0 => IsList(kept)
    <3>1. s.items # <<>> \/ Len(s.items) = 0
      OBVIOUS
    <3>2. IsList(Append(s.items, Item(i))) /\ (s.items # <<>> => IsList(Tail(s.items)))
      BY <1>1, ListLemma
    <3>3. IsList(Tail(s.items)) => IsList(Append(Tail(s.items), Item(i)))
      BY ListLemma
    <3> QED
      BY <3>1, <3>2, <3>3
  <2>5. take_last(o, s, i) = IF o.n > 0 THEN Quietly([s EXCEPT !.items = kept]) ELSE Quietly(s)
    BY <1>2 DEF take_last
  <2> HIDE DEF kept
  <2> QED
    BY <2>2, <2>3, <2>4, <2>5
<1>3. CASE i.k = "completed"
  <2> DEFINE p == [j \in DOMAIN s.items |-> OnNext(<<s.items[j]>>)]
  <2>1. GoodPush(p)
    BY <1>1, ValuesPush
  <2>2. take_last(o, s, i) = Does([s EXCEPT !.items = <<>>], p \o <<OnCompleted>>)
    BY <1>3 DEF take_last
  <2> HIDE DEF p
  <2>3. GoodPush(p \o <<OnCompleted>>) /\ EndsOutput(p \o <<OnCompleted>>)
    BY <2>1, LastPush DEF OnCompleted, Signal, Terminal
  <2> QED
    BY <2>2, <2>3, DoesIs DEF Goes, Plain
<1>4. CASE i.k = "error"
  BY <1>4, ForwardIs DEF take_last, Goes, Plain, Terminal
<1> QED
  BY <1>2, <1>3, <1>4 DEF IsCall

LEMMA BufferCountStep ==
  ASSUME NEW o, o.name = "buffer_count", NEW s, NEW S, Waits(o, s, S), NEW i, IsCall(i), i.s = 1
  PROVE  Goes(o, buffer_count(o, s, i), Gone(S, i))
<1>1. IsState(s) /\ S = {1} /\ IsList(s.items)
  BY ListWaits
<1>2. CASE i.k = "next"
  <2> DEFINE opened == IF s.m % o.m = 0 THEN Append(s.items, <<>>) ELSE s.items
             filled == [j \in DOMAIN opened |-> Append(opened[j], Item(i))]
             Full   == {j \in DOMAIN filled : Len(filled[j]) = o.n}
             full   == Cardinality(Full)
             more   == s.m + 1
             rest   == SubSeq(filled, full + 1, Len(filled))
             t      == [s EXCEPT !.m = more, !.items = rest]
             p      == [j \in 1 .. full |-> OnNext(filled[j])]
  <2>1. Gone(S, i) = S
    BY <1>2 DEF Gone, Terminal
  <2>2. IsList(opened)
    BY <1>1, ListLemma
  <2> HIDE DEF opened
  <2>3. IsList(filled)
    BY <2>2, ListLemma
  <2> HIDE DEF filled
  <2>4. Len(filled) \in Nat /\ DOMAIN filled = 1 .. Len(filled)
    BY <2>3, ListLemma
  <2>5. full \in Nat /\ full <= Len(filled)
    <3>1. IsFiniteSet(1 .. Len(filled)) /\ Cardinality(1 .. Len(filled)) = Len(filled)
      <4>1. PICK k \in Nat : k = Len(filled)
        BY <2>4
      <4>2. IsFiniteSet(1 .. k) /\ Cardinality(1 .. k) = k
        BY FS_Interval
      <4> QED
        BY <4>1, <4>2, SMTT(25)
    <3>2. Full \subseteq 1 .. Len(filled)
      BY <2>4
    <3>3. IsFiniteSet(Full) /\ Cardinality(Full) <= Cardinality(1 .. Len(filled))
      BY <3>1, <3>2, FS_Subset, SMTT(25)
    <3> HIDE DEF Full
    <3> QED
      BY <3>1, <3>3, FS_CardinalityType
  <2>6. buffer_count(o, s, i) = Does(t, p)
    BY <1>2 DEF buffer_count, opened, filled
  <2> HIDE DEF full, more
  <2>7. IsList(rest)
    BY <2>3, <2>5, ListLemma
  <2> HIDE DEF rest
  <2>8. IsState(t) /\ t.items = rest
    <3>0. t = [s EXCEPT !.m = more, !.items = rest]
      OBVIOUS
    <3> HIDE DEF t
    <3>1. PICK n0, m0, l0, d, e, f, g : s = [n |-> n0, m |-> m0, items |-> l0, seen |-> d,
                                            done |-> e, vals |-> f, out |-> g]
      BY <1>1, StateIs
    <3>2. t = [n |-> n0, m |-> more, items |-> rest, seen |-> d, done |-> e, vals |-> f,
               out |-> g]
      BY <3>0, <3>1
    <3> QED
      BY <3>2 DEF IsState
  <2>9. GoodPush(p)
    <3>1. \A j \in 1 .. full : p[j].k # "open"
      BY DEF OnNext, Signal
    <3>2. DOMAIN p = 1 .. full /\ p = [j \in 1 .. full |-> p[j]]
      OBVIOUS
    <3> HIDE DEF p
    <3> QED
      BY <2>5, <3>1, <3>2, MappedPush
  <2> HIDE DEF t, p
  <2>10. Waits(o, t, (S \ {}) \cup {})
    BY <1>1, <2>7, <2>8, ListWaits
  <2>11. Plain(Does(t, p), t)
    BY <2>9, DoesIs
  <2> QED
    BY <2>1, <2>6, <2>10, <2>11 DEF Goes, Plain
<1>3. CASE i.k = "completed"
  <2> DEFINE p == [j \in DOMAIN s.items |-> OnNext(s.items[j])]
  <2>1. GoodPush(p)
    BY <1>1, ValuesPush
  <2>2. buffer_count(o, s, i) = Does([s EXCEPT !.items = <<>>], p \o <<OnCompleted>>)
    BY <1>3 DEF buffer_count
  <2> HIDE DEF p
  <2>3. GoodPush(p \o <<OnCompleted>>) /\ EndsOutput(p \o <<OnCompleted>>)
    BY <2>1, LastPush DEF OnCompleted, Signal, Terminal
  <2> QED
    BY <2>2, <2>3, DoesIs DEF Goes, Plain
<1>4. CASE i.k = "error"
  BY <1>4, ForwardIs DEF buffer_count, Goes, Plain, Terminal
<1> QED
  BY <1>2, <1>3, <1>4 DEF IsCall

\* The multiples of a positive number.
LEMMA MonotoneProduct ==
  ASSUME NEW s \in Nat \ {0}, NEW a \in Int, NEW b \in Int, a < b
  PROVE  a * s \in Int /\ b * s \in Int /\ a * s + s <= b * s
<1> DEFINE d == b - a
<1>1. d >= 1 /\ b = a + d /\ d \in Nat
  OBVIOUS
<1>2. b * s = a * s + d * s
  <2>1. \A x, y, z \in Int : (x + y) * z = x * z + y * z
    BY Z3
  <2> QED
    BY <2>1, <1>1
<1>3. d * s >= s
  <2>1. d * s = s + (d - 1) * s
    BY <1>1, Z3
  <2>2. \A x, y \in Nat : x * y >= 0
    BY Z3
  <2> QED
    BY <2>1, <2>2, <1>1
<1>4. d * s \in Int /\ a * s \in Int
  BY <1>1
<1> HIDE DEF d
<1> QED
  BY <1>2, <1>3, <1>4

LEMMA OnlyMultiple ==
  ASSUME NEW s \in Nat \ {0}, NEW a \in Int, NEW p, p = a * s, NEW x \in Int, p - s < x, x <= p
  PROVE  x % s = 0 <=> x = p
<1>1. PICK q \in Int, r \in 0 .. s - 1 : x = q * s + r /\ x % s = r
  BY Z3
<1>2. PICK d \in Int : d = q * s
  OBVIOUS
<1>3. p \in Int /\ x = d + r
  BY <1>1, <1>2
<1>4. q < a => d + s <= p
  BY <1>2, MonotoneProduct
<1>5. q > a => p + s <= d
  BY <1>2, MonotoneProduct
<1>6. q = a => d = p
  BY <1>2
<1>7. r \in Nat /\ r < s
  OBVIOUS
<1>8. q < a \/ q = a \/ q > a
  OBVIOUS
<1>9. CASE q < a
  <2>1. d + s <= p
    BY <1>4, <1>9
  <2>2. x < p
    BY <2>1, <1>2, <1>3, <1>7
  <2>3. r # 0
    BY <2>1, <1>2, <1>3
  <2> QED
    BY <1>1, <2>2, <2>3
<1>10. CASE q = a
  <2>1. d = p
    BY <1>6, <1>10
  <2> QED
    BY <2>1, <1>1, <1>2, <1>3, <1>7
<1>11. CASE q > a
  <2>1. p + s <= d
    BY <1>5, <1>11
  <2> QED
    BY <2>1, <1>2, <1>3, <1>7
<1> QED
  BY <1>8, <1>9, <1>10, <1>11

\* When value m opens a window and when it closes the front one: after K of n
\* have closed.
TurnsAt(n, K, m, count, every, a, b, c) ==
  /\ n \in Nat /\ K \in Nat /\ m \in Nat /\ count \in Nat \ {0} /\ every \in Nat \ {0}
  /\ K <= n /\ a = n * every /\ b = K * every
  /\ a - every <= m /\ m < a
  /\ K = 0 \/ b - every + count <= m
  /\ m < b + count /\ c = m - count + 1
Turns(n, K, m, every, a, b, c) ==
  /\ a \in Int /\ b \in Int
  /\ (m + 1) % every = 0 <=> m + 1 = a
  /\ c >= 0 /\ c % every = 0 <=> c = b
  /\ c = b => K < n
  /\ (n + 1) * every = a + every /\ (K + 1) * every = b + every

LEMMA WindowTurns ==
  \A n, K, m, count, every, a, b, c :
    TurnsAt(n, K, m, count, every, a, b, c) => Turns(n, K, m, every, a, b, c)
<1> SUFFICES ASSUME NEW n, NEW K, NEW m, NEW count, NEW every, NEW a, NEW b, NEW c,
                    TurnsAt(n, K, m, count, every, a, b, c)
             PROVE  Turns(n, K, m, every, a, b, c)
  BY Zenon
<1> USE DEF TurnsAt
<1>1. a \in Int /\ b \in Int /\ c \in Int
  OBVIOUS
<1>2. (m + 1) % every = 0 <=> m + 1 = a
  <2>1. n \in Int /\ m + 1 \in Int /\ a - every < m + 1 /\ m + 1 <= a
    BY <1>1
  <2> QED
    BY <1>1, <2>1, OnlyMultiple
<1>3. b >= 0 /\ (K = 0 => b = 0)
  <2>1. \A g, h \in Nat : g * h >= 0 /\ 0 * h = 0
    BY Z3
  <2> QED
    BY <2>1
<1>4. c <= b
  BY <1>1
<1>5. ASSUME c >= 0 PROVE c % every = 0 <=> c = b
  <2>1. K \in Int /\ b - every < c
    <3>1. CASE K = 0
      BY <1>1, <1>3, <1>5, <3>1
    <3>2. CASE K # 0
      BY <1>1, <3>2
    <3> QED
      BY <3>1, <3>2
  <2>2. PICK z \in Int : z = c
    BY <1>1
  <2>3. b - every < z /\ z <= b
    BY <1>4, <2>1, <2>2
  <2>4. z % every = 0 <=> z = b
    BY <2>1, <2>3, OnlyMultiple, Zenon
  <2> QED
    BY <1>5, <2>2, <2>4
<1>6. c = b => K < n
  <2> SUFFICES ASSUME c = b, K = n PROVE FALSE
    OBVIOUS
  <2>1. a = b
    OBVIOUS
  <2> QED
    BY <2>1, <1>1
<1>7. \A g, h \in Int : (g + 1) * h = g * h + h
  BY Z3
<1>8. (n + 1) * every = a + every /\ (K + 1) * every = b + every
  BY <1>7
<1>9. c < 0 => c # b
  BY <1>1, <1>3
<1>10. c < 0 \/ c >= 0
  BY <1>1
<1>11. c >= 0 => (c % every = 0 <=> c = b)
  BY <1>5
<1>12. c < 0 => ~(c >= 0)
  BY <1>1
<1>13. c >= 0 /\ c % every = 0 <=> c = b
  BY <1>9, <1>10, <1>11, <1>12, Zenon
<1> QED
  BY <1>1, <1>2, <1>6, <1>8, <1>13, Zenon DEF Turns

\* No window is taken from an empty list, and the count of windows stays exact.
LEMMA WindowMoves ==
  ASSUME NEW o, o.n \in Nat \ {0}, o.m \in Nat \ {0}, NEW s, Opened(o, s), NEW t, NEW x,
         NEW closes, closes = (s.m - o.n + 1 >= 0 /\ (s.m - o.n + 1) % o.m = 0),
         NEW opens, opens = ((s.m + 1) % o.m = 0),
         NEW front, front = IF closes THEN Tail(s.items) ELSE s.items,
         t.m = s.m + 1, t.n = IF opens THEN s.n + 1 ELSE s.n,
         t.items = IF opens THEN Append(front, x) ELSE front
  PROVE  Opened(o, t)
<1>1. PICK m \in Nat, n \in Nat, L \in Nat : m = s.m /\ n = s.n /\ L = Len(s.items)
  BY ListLemma DEF Opened
<1>2. PICK K \in Nat : K = n - L
  BY <1>1 DEF Opened
<1>3. PICK count \in Nat \ {0}, every \in Nat \ {0} : count = o.n /\ every = o.m
  OBVIOUS
<1>4. PICK a, b, c : a = n * every /\ b = K * every /\ c = m - count + 1
  OBVIOUS
<1>5. /\ IsList(s.items) /\ a - every <= m /\ m < a
      /\ K = 0 \/ b - every + count <= m
      /\ m < b + count
  BY <1>1, <1>2, <1>3, <1>4 DEF Opened
<1>6. K <= n
  BY <1>2
<1>7. /\ a \in Int /\ b \in Int
      /\ (m + 1) % every = 0 <=> m + 1 = a
      /\ c >= 0 /\ c % every = 0 <=> c = b
      /\ c = b => K < n
      /\ (n + 1) * every = a + every /\ (K + 1) * every = b + every
  <2>1. TurnsAt(n, K, m, count, every, a, b, c)
    BY <1>1, <1>2, <1>3, <1>4, <1>5, <1>6 DEF TurnsAt
  <2>2. Turns(n, K, m, every, a, b, c)
    BY <2>1, WindowTurns, Zenon
  <2> QED
    BY <2>2 DEF Turns
<1>8. (opens <=> m + 1 = a) /\ (closes <=> c = b)
  BY <1>1, <1>3, <1>4, <1>7
<1>9. /\ IsList(front)
      /\ Len(front) = IF c = b THEN L - 1 ELSE L
  <2>1. \A T : s.items \in Seq(T) /\ s.items # <<>> => Len(Tail(s.items)) = Len(s.items) - 1
    OBVIOUS
  <2>2. s.items = <<>> => L = 0
    BY <1>1
  <2>3. c = b => s.items # <<>>
    BY <1>2, <1>7, <2>2
  <2> QED
    BY <1>1, <1>5, <1>8, <2>1, <2>3, ListLemma DEF IsList
<1>10. /\ IsList(t.items)
       /\ Len(t.items) = IF m + 1 = a THEN Len(front) + 1 ELSE Len(front)
  <2>1. Len(Append(front, x)) = Len(front) + 1
    <3>1. PICK T : front \in Seq(T)
      BY <1>9 DEF IsList
    <3>2. front \in Seq(T \cup {x})
      BY <3>1
    <3> QED
      BY <3>2
  <2>2. IsList(Append(front, x))
    BY <1>9, ListLemma
  <2> QED
    BY <1>8, <1>9, <2>1, <2>2
<1>11. PICK M \in Nat, N \in Nat, E \in Int : M = t.m /\ N = t.n /\ E = Len(t.items)
  BY <1>1, <1>8, <1>10, ListLemma
<1>12. M = m + 1 /\ N = IF m + 1 = a THEN n + 1 ELSE n
  BY <1>1, <1>8, <1>11
<1>13. PICK C \in Nat : C = N - E /\ C = IF c = b THEN K + 1 ELSE K
  <2>1. E = (IF c = b THEN L - 1 ELSE L) + (IF m + 1 = a THEN 1 ELSE 0)
    BY <1>9, <1>10, <1>11
  <2>2. N - E = IF c = b THEN K + 1 ELSE K
    BY <1>2, <1>12, <2>1
  <2> QED
    BY <2>2
<1>14. PICK A, B : A = N * every /\ B = C * every
  OBVIOUS
<1>15. A = IF m + 1 = a THEN a + every ELSE a
  BY <1>4, <1>7, <1>12, <1>14, Zenon
<1>16. B = IF c = b THEN b + every ELSE b
  BY <1>4, <1>7, <1>13, <1>14, Zenon
<1>17. a \in Int /\ b \in Int
  BY <1>7
<1>18. A - every <= M /\ M < A
  BY <1>5, <1>12, <1>15, <1>17
<1>19. (C = 0 \/ B - every + count <= M) /\ M < B + count
  <2>1. CASE c = b
    <3>1. B = b + every /\ m - count + 1 = b /\ M = m + 1
      BY <1>4, <1>12, <1>16, <2>1
    <3> QED
      BY <1>17, <3>1
  <2>2. CASE c # b
    <3>1. B = b /\ m - count + 1 # b /\ M = m + 1 /\ C = K
      BY <1>4, <1>12, <1>13, <1>16, <2>2
    <3> QED
      BY <1>5, <1>17, <3>1
  <2> QED
    BY <2>1, <2>2
<1>20. /\ t.n \in Nat /\ t.m \in Nat /\ IsList(t.items) /\ t.n - Len(t.items) = C
  BY <1>10, <1>11, <1>13
<1> QED
  BY <1>3, <1>11, <1>14, <1>18, <1>19, <1>20, Zenon DEF Opened

LEMMA WindowStep ==
  ASSUME NEW o, o.name = "window", o.n \in Nat \ {0}, o.m \in Nat \ {0},
         NEW s, NEW S, Waits(o, s, S), NEW i, IsCall(i), i.s = 1
  PROVE  Goes(o, window(o, s, i), Gone(S, i))
<1>a. \A t, T : Waits(o, t, T) <=> IsState(t) /\ T = {1} /\ Opened(o, t)
  BY DEF Waits, FromFirst, Unary
<1>1. IsState(s) /\ S = {1} /\ Opened(o, s) /\ IsList(s.items)
  BY <1>a DEF Opened
<1>0. i = [s |-> i.s, k |-> i.k, v |-> i.v] /\ i.k # "open"
  BY DEF IsCall
<1> DEFINE q == ToWindows(s.items, i)
<1>2. GoodPush(q)
  BY <1>0, <1>1, WindowsPush
<1>3. CASE i.k = "next"
  <2> DEFINE c      == s.m - o.n + 1
             closes == c >= 0 /\ c % o.m = 0
             opens  == (s.m + 1) % o.m = 0
             front  == IF closes THEN Tail(s.items) ELSE s.items
             more   == s.m + 1
             left   == IF opens THEN Append(front, s.n + 1) ELSE front
             number == IF opens THEN s.n + 1 ELSE s.n
             t      == [s EXCEPT !.m = more, !.n = number, !.items = left]
             last_window == <<Head(s.items)>>
             a      == IF closes THEN ToWindows(last_window, OnCompleted) ELSE <<>>
             b      == IF opens THEN <<Open(s.n + 1)>> ELSE <<>>
  <2>1. Gone(S, i) = S
    BY <1>3 DEF Gone, Terminal
  <2>2. window(o, s, i) = Does(t, q \o a \o b)
    BY <1>3 DEF window
  <2>4. GoodPush(a)
    <3>1. IsList(last_window)
      <4>1. last_window \in Seq({Head(s.items)})
        OBVIOUS
      <4> QED
        BY <4>1 DEF IsList
    <3> HIDE DEF last_window, closes
    <3>2. GoodPush(ToWindows(last_window, OnCompleted))
      BY <3>1, WindowsPush DEF OnCompleted, Signal
    <3> QED
      BY <3>2, NoPush
  <2>5. GoodPush(b)
    <3>1. GoodPush(<<Open(s.n + 1)>>)
      BY OnePush DEF Open, Signal
    <3> QED
      BY <3>1, NoPush
  <2> HIDE DEF q, a, b, opens, closes, front
  <2>6. GoodPush(q \o a \o b)
    BY <1>2, <2>4, <2>5, JoinedPush
  <2>7. /\ IsState(t) /\ t.m = more /\ t.n = number /\ t.items = left
    <3>0. t = [s EXCEPT !.m = more, !.n = number, !.items = left]
      OBVIOUS
    <3> HIDE DEF t, more, number, left
    <3>1. PICK n0, m0, l0, d, e, f, g : s = [n |-> n0, m |-> m0, items |-> l0, seen |-> d,
                                            done |-> e, vals |-> f, out |-> g]
      BY <1>1, StateIs
    <3>2. t = [n |-> number, m |-> more, items |-> left, seen |-> d, done |-> e, vals |-> f,
               out |-> g]
      BY <3>0, <3>1
    <3> QED
      BY <3>2 DEF IsState
  <2> HIDE DEF t
  <2>8. Opened(o, t)
    BY <1>1, <2>7, WindowMoves DEF front, opens, closes
  <2>9. Waits(o, t, (S \ {}) \cup {})
    BY <1>1, <1>a, <2>7, <2>8
  <2>10. Plain(Does(t, q \o a \o b), t)
    BY <2>6, DoesIs
  <2> QED
    BY <2>1, <2>2, <2>9, <2>10 DEF Goes, Plain
<1>4. CASE i.k # "next"
  <2> DEFINE e == [i EXCEPT !.s = 0]
  <2>1. e.s = 0 /\ e.k # "open" /\ Terminal(e)
    BY <1>4 DEF IsCall, Terminal
  <2>2. window(o, s, i) = Does(s, q \o <<e>>)
    BY <1>4 DEF window, IsCall
  <2> HIDE DEF e, q
  <2>3. GoodPush(q \o <<e>>) /\ EndsOutput(q \o <<e>>)
    BY <1>2, <2>1, LastPush
  <2> QED
    BY <2>2, <2>3, DoesIs DEF Goes, Plain
<1> QED
  BY <1>3, <1>4

-----------------------------------------------------------------------------
\* What an operator with nothing to lose does with a signal it passes on.
LEMMA ForwardGoes ==
  ASSUME NEW o, NEW s, NEW S, Waits(o, s, S), NEW i, IsCall(i)
  PROVE  Goes(o, Forward(s, i), Gone(S, i))
<1>1. ~Terminal(i) => Waits(o, s, (Gone(S, i) \ {}) \cup {})
  BY DEF Gone
<1> QED
  BY <1>1, ForwardIs DEF Goes, Plain

\* The same without a word.
LEMMA QuietlyGoes ==
  ASSUME NEW o, NEW s, NEW S, Waits(o, s, S)
  PROVE  Goes(o, Quietly(s), S) /\ \A v : Goes(o, Push(s, v), S)
<1>1. Waits(o, s, (S \ {}) \cup {})
  OBVIOUS
<1> QED
  BY <1>1, QuietlyIs, PushIs DEF Goes, Plain

LEMMA EndGoes ==
  ASSUME NEW o, NEW s, NEW S
  PROVE  /\ Goes(o, Fails(s), S) /\ Goes(o, Does(s, <<OnError>>), S)
         /\ Goes(o, Does(s, <<OnCompleted>>), S) /\ \A v : Goes(o, Finish(s, v), S)
<1>1. Goes(o, Fails(s), S)
  BY FailsIs DEF Goes, Plain
<1> QED
  BY <1>1, CompletesIs, FinishIs DEF Goes, Plain, Fails

(* The sources and start_with, retry and repeat.                              *)
LEMMA AgainStep ==
  ASSUME NEW o, o.name \in {"start_with", "retry", "repeat"}, NEW s, NEW S, Waits(o, s, S),
         NEW i, IsCall(i), i.s = 1
  PROVE  /\ Goes(o, start_with(o, s, i), Gone(S, i))
         /\ Goes(o, retry(o, s, i), Gone(S, i)) /\ Goes(o, repeat(o, s, i), Gone(S, i))
<1>1. \A t, T : Waits(o, t, T) <=> IsState(t) /\ T = {1}
  BY DEF Waits, FromFirst, Unary
<1>2. IsState(s) /\ S = {1}
  BY <1>1
<1>3. i.k # "subscribe" /\ (Terminal(i) <=> i.k # "next")
  BY DEF IsCall, Terminal
<1>4. Goes(o, Forward(s, i), Gone(S, i))
  BY <1>1, <1>2, ForwardIs DEF Goes, Plain, Gone
<1>5. \A t : IsState(t) => Goes(o, Subscribing(t, {1}), Gone(S, i))
  <2>1. (Gone(S, i) \ {}) \cup {1} = {1}
    BY <1>2 DEF Gone
  <2> QED
    BY <1>1, <2>1, SubscribingIs DEF Goes
<1>6. \A t, e : e \in {OnError, OnCompleted} => Goes(o, Does(t, <<e>>), Gone(S, i))
  BY FailsIs, CompletesIs DEF Goes, Plain, Fails
<1>7. \A e : e \in {OnError, OnCompleted} => Goes(o, Again(o, s, e), Gone(S, i))
  BY <1>2, <1>5, <1>6, StateKept DEF Again
<1> QED
  BY <1>3, <1>4, <1>7 DEF start_with, retry, repeat

-----------------------------------------------------------------------------
(* The operators with several sources.                                        *)

\* A source that is no more counted.
LEMMA CountedGone ==
  ASSUME NEW s, NEW S, Counted(s, S), NEW x \in S
  PROVE  /\ s.m \in Nat \ {0} /\ IsFiniteSet(S) /\ IsFiniteSet(S \ {x})
         /\ Cardinality(S \ {x}) = s.m - 1
         /\ s.m - 1 # 0 => S \ {x} # {}
<1>1. S \subseteq 1 .. s.n + 1 /\ s.n \in Nat /\ s.m = Cardinality(S)
  BY DEF Counted
<1>2. IsFiniteSet(1 .. s.n + 1)
  BY <1>1, FS_Interval
<1>3. IsFiniteSet(S)
  BY <1>1, <1>2, FS_Subset
<1>4. Cardinality(S) \in Nat /\ (Cardinality(S) = 0 <=> S = {})
  BY <1>3, FS_CardinalityType, FS_EmptySet
<1>5. IsFiniteSet(S \ {x}) /\ Cardinality(S \ {x}) = Cardinality(S) - 1
  BY <1>3, FS_RemoveElement
<1>6. Cardinality(S \ {x}) = 0 <=> S \ {x} = {}
  BY <1>5, FS_EmptySet
<1> QED
  BY <1>1, <1>3, <1>4, <1>5, <1>6

\* One more source.
LEMMA JoinIs ==
  ASSUME NEW s, IsState(s)
  PROVE  LET r == Join(s) IN
         /\ IsState(r.st) /\ r.st.n = s.n + 1 /\ r.st.m = s.m + 1 /\ r.st.done = s.done
         /\ r.on = {s.n + 2} /\ r.off = {} /\ r.arm = <<>> /\ GoodPush(r.push)
<1> DEFINE n == s.n + 1
           m == s.m + 1
           t == [s EXCEPT !.n = n, !.m = m]
<1>1. Join(s) = Subscribing(t, {s.n + 2})
  BY DEF Join
<1>2. IsState(t) /\ t.n = n /\ t.m = m /\ t.done = s.done
  <2>0. t = [s EXCEPT !.n = n, !.m = m]
    OBVIOUS
  <2> HIDE DEF t, n, m
  <2>1. PICK n0, m0, l0, d, e, f, g : s = [n |-> n0, m |-> m0, items |-> l0, seen |-> d,
                                          done |-> e, vals |-> f, out |-> g]
    BY StateIs
  <2>2. t = [n |-> n, m |-> m, items |-> l0, seen |-> d, done |-> e, vals |-> f, out |-> g]
    BY <2>0, <2>1
  <2> QED
    BY <2>1, <2>2 DEF IsState
<1> HIDE DEF t
<1> QED
  BY <1>1, <1>2, SubscribingIs

\* The first value of a source is what makes it one of n + 1.
LEMMA CountedJoin ==
  ASSUME NEW s, NEW S, Counted(s, S), NEW t, t.n = s.n + 1, t.m = s.m + 1
  PROVE  Counted(t, S \cup {s.n + 2})
<1>1. S \subseteq 1 .. s.n + 1 /\ s.n \in Nat /\ s.m = Cardinality(S)
  BY DEF Counted
<1>2. IsFiniteSet(1 .. s.n + 1)
  BY <1>1, FS_Interval
<1>3. IsFiniteSet(S)
  BY <1>1, <1>2, FS_Subset
<1>4. s.n + 2 \notin S
  BY <1>1
<1>5. Cardinality(S \cup {s.n + 2}) = Cardinality(S) + 1
  BY <1>3, <1>4, FS_AddElement
<1>6. t.n \in Nat /\ S \cup {s.n + 2} \subseteq 1 .. t.n + 1
  <2>1. \A x \in S : x \in Int /\ 1 <= x /\ x <= s.n + 1
    BY <1>1
  <2>2. \A x \in S \cup {s.n + 2} : x \in Int /\ 1 <= x /\ x <= s.n + 2
    BY <1>1, <2>1
  <2>3. t.n + 1 = s.n + 2 /\ t.n \in Nat
    BY <1>1
  <2>4. \A x \in S \cup {s.n + 2} : x \in 1 .. s.n + 2
    BY <1>1, <2>2
  <2> QED
    BY <2>3, <2>4
<1> QED
  BY <1>1, <1>5, <1>6 DEF Counted

LEMMA CountedWaits ==
  ASSUME NEW o, o.name \in {"merge", "merge_delay_error", "flat_map"}, NEW s, NEW S
  PROVE  Waits(o, s, S) <=> IsState(s) /\ Counted(s, S)
BY DEF Waits, FromFirst, Unary

\* The last completion ends the output; another one leaves the others.
LEMMA CompletionGoes ==
  ASSUME NEW o, o.name \in {"merge", "merge_delay_error", "flat_map"}, NEW s, NEW S, Waits(o, s, S),
         NEW i, Terminal(i), i.s \in S, NEW e \in {OnError, OnCompleted},
         NEW t, IsState(t), t.n = s.n, t.m = s.m
  PROVE  Goes(o, Completion(t, e), Gone(S, i))
<1>1. IsState(s) /\ Counted(s, S)
  BY CountedWaits
<1>2. /\ s.m \in Nat \ {0} /\ Cardinality(S \ {i.s}) = s.m - 1
      /\ s.m - 1 # 0 => S \ {i.s} # {}
  BY <1>1, CountedGone
<1> DEFINE rest == t.m - 1
           left == [t EXCEPT !.m = rest]
<1>3. IsState(left) /\ left.m = rest /\ left.n = s.n
  <2> HIDE DEF rest
  <2> QED
    BY DEF IsState
<1>4. Completion(t, e) = IF left.m = 0 THEN Does(left, <<e>>) ELSE Quietly(left)
  BY DEF Completion
<1> HIDE DEF left
<1>5. CASE rest = 0
  <2>1. Goes(o, Does(left, <<OnError>>), Gone(S, i)) /\ Goes(o, Does(left, <<OnCompleted>>), Gone(S, i))
    BY FailsIs, CompletesIs DEF Goes, Plain, Fails
  <2>2. Completion(t, e) = Does(left, <<e>>)
    BY <1>3, <1>4, <1>5
  <2> QED
    BY <2>1, <2>2
<1>6. CASE rest # 0
  <2>1. Counted(left, S \ {i.s})
    BY <1>1, <1>2, <1>3, <1>6 DEF Counted
  <2>2. Waits(o, left, (Gone(S, i) \ {}) \cup {})
    BY <1>3, <2>1, CountedWaits DEF Gone
  <2> QED
    BY <1>3, <1>4, <1>6, <2>2, QuietlyIs DEF Goes, Plain
<1> QED
  BY <1>5, <1>6

LEMMA MergeStep ==
  ASSUME NEW o, o.name \in {"merge", "merge_delay_error", "flat_map"}, NEW s, NEW S, Waits(o, s, S),
         NEW i, IsCall(i), i.s \in S
  PROVE  Goes(o, merge(o, s, i), Gone(S, i))
<1>1. IsState(s) /\ Counted(s, S)
  BY CountedWaits
<1>2. i.k # "subscribe" /\ (Terminal(i) <=> i.k # "next") /\ i.k \in {"next", "error", "completed"}
  BY DEF IsCall, Terminal
<1>3. CASE i.k = "next" /\ Outer(i)
  <2>1. s.n \in Nat /\ s.m \in Nat
    BY <1>1, CountedGone DEF Counted
  <2>2. merge(o, s, i) = Join(s)
    BY <1>3 DEF merge
  <2> DEFINE r == Join(s)
  <2>3. /\ IsState(r.st) /\ r.st.n = s.n + 1 /\ r.st.m = s.m + 1
        /\ r.on = {s.n + 2} /\ r.off = {} /\ r.arm = <<>> /\ GoodPush(r.push)
    BY <1>1, <2>1, JoinIs
  <2> HIDE DEF r
  <2>4. Counted(r.st, S \cup {s.n + 2})
    BY <1>1, <2>3, CountedJoin
  <2>5. (Gone(S, i) \ r.off) \cup r.on = S \cup {s.n + 2}
    BY <1>2, <1>3, <2>3 DEF Gone
  <2>6. Waits(o, r.st, S \cup {s.n + 2})
    BY <2>3, <2>4, CountedWaits
  <2>7. Goes(o, r, Gone(S, i))
    BY <2>3, <2>5, <2>6 DEF Goes
  <2> QED
    BY <2>2, <2>7 DEF r
<1>4. CASE i.k = "completed"
  <2>1. Goes(o, Completion(s, OnCompleted), Gone(S, i))
    BY <1>1, <1>2, <1>4, CompletionGoes
  <2> QED
    BY <1>4, <2>1 DEF merge
<1>5. CASE i.k = "error" \/ (i.k = "next" /\ ~Outer(i))
  <2>1. merge(o, s, i) = Forward(s, i)
    BY <1>5 DEF merge
  <2> QED
    BY <2>1, ForwardGoes
<1> QED
  BY <1>2, <1>3, <1>4, <1>5

LEMMA MergeDelayErrorStep ==
  ASSUME NEW o, o.name \in {"merge", "merge_delay_error", "flat_map"}, NEW s, NEW S, Waits(o, s, S),
         NEW i, IsCall(i), i.s \in S
  PROVE  Goes(o, merge_delay_error(o, s, i), Gone(S, i))
<1>1. IsState(s)
  BY CountedWaits
<1> DEFINE kept == [s EXCEPT !.done = TRUE]
<1>2. IsState(kept) /\ kept.n = s.n /\ kept.m = s.m
  <2>1. \A x : /\ IsState([s EXCEPT !.done = x]) /\ [s EXCEPT !.done = x].n = s.n
               /\ [s EXCEPT !.done = x].m = s.m
    BY <1>1 DEF IsState
  <2> QED
    BY <2>1, Zenon
<1> HIDE DEF kept
<1>3. i.k = "error" => Goes(o, Completion(kept, OnError), Gone(S, i))
  BY <1>2, CompletionGoes DEF Terminal
<1>4. i.k = "completed" => Goes(o, Completion(s, IF s.done THEN OnError ELSE OnCompleted), Gone(S, i))
  BY <1>1, CompletionGoes DEF Terminal
<1>5. Goes(o, merge(o, s, i), Gone(S, i))
  BY MergeStep
<1> QED
  BY <1>3, <1>4, <1>5 DEF merge_delay_error, kept

LEMMA FlatMapStep ==
  ASSUME NEW o, o.name \in {"merge", "merge_delay_error", "flat_map"}, NEW s, NEW S, Waits(o, s, S),
         NEW i, IsCall(i), i.s \in S
  PROVE  Goes(o, flat_map(o, s, i), Gone(S, i))
<1>1. IsState(s) /\ Counted(s, S)
  BY CountedWaits
<1>2. s.n \in Nat /\ s.m \in Nat
  BY <1>1, CountedGone DEF Counted
<1>3. \A x : /\ IsState([s EXCEPT !.vals = x]) /\ [s EXCEPT !.vals = x].n = s.n
             /\ [s EXCEPT !.vals = x].m = s.m
  BY <1>1 DEF IsState
<1>4. i.k = "next" => Gone(S, i) = S
  BY DEF Gone, Terminal
<1>5. ASSUME NEW x, i.k = "next" PROVE Goes(o, Join([s EXCEPT !.vals = x]), Gone(S, i))
  <2> DEFINE t == [s EXCEPT !.vals = x]
             r == Join(t)
  <2>1. IsState(t) /\ t.n = s.n /\ t.m = s.m
    BY <1>3
  <2> HIDE DEF t
  <2>2. /\ IsState(r.st) /\ r.st.n = t.n + 1 /\ r.st.m = t.m + 1
        /\ r.on = {t.n + 2} /\ r.off = {} /\ r.arm = <<>> /\ GoodPush(r.push)
    BY <1>2, <2>1, JoinIs
  <2> HIDE DEF r
  <2>3. Counted(r.st, S \cup {s.n + 2})
    BY <1>1, <2>1, <2>2, CountedJoin
  <2>4. (Gone(S, i) \ r.off) \cup r.on = S \cup {s.n + 2}
    BY <1>4, <1>5, <2>1, <2>2
  <2>5. Waits(o, r.st, S \cup {s.n + 2})
    BY <2>2, <2>3, CountedWaits
  <2>6. Goes(o, r, Gone(S, i))
    BY <2>2, <2>4, <2>5 DEF Goes
  <2> QED
    BY <2>6 DEF r, t
<1>6. ASSUME NEW x, NEW v, i.k = "next" PROVE Goes(o, Push([s EXCEPT !.vals = x], v), Gone(S, i))
  <2> DEFINE t == [s EXCEPT !.vals = x]
  <2>1. IsState(t) /\ t.n = s.n /\ t.m = s.m
    BY <1>3
  <2> HIDE DEF t
  <2>2. Waits(o, t, S)
    BY <1>1, <2>1, CountedWaits DEF Counted
  <2>3. Goes(o, Push(t, v), S)
    BY <2>2, QuietlyGoes
  <2> QED
    BY <1>4, <1>6, <2>3 DEF t
<1>7. Goes(o, Fails(s), Gone(S, i))
  BY EndGoes
<1>8. Goes(o, merge(o, s, i), Gone(S, i))
  BY MergeStep
<1> DEFINE v == s.vals[InnerNo(i)]
           moved == [s.vals EXCEPT ![InnerNo(i)] = IF o.m = 1 THEN Moved ELSE v]
<1>9. CASE i.k = "next" /\ Outer(i)
  <2>1. flat_map(o, s, i) = IF Throws(Item(i)) THEN Fails(s)
                            ELSE Join([s EXCEPT !.vals = Append(s.vals, Item(i))])
    BY <1>9 DEF flat_map
  <2> QED
    BY <1>5, <1>7, <1>9, <2>1
<1>10. CASE i.k = "next" /\ ~Outer(i)
  <2>1. flat_map(o, s, i) = IF Throws(Item(i)) THEN Fails(s)
                            ELSE Push([s EXCEPT !.vals = moved], <<v, Item(i)>>)
    BY <1>10 DEF flat_map
  <2> HIDE DEF moved
  <2> QED
    BY <1>6, <1>7, <1>10, <2>1
<1>11. CASE i.k # "next"
  <2>1. flat_map(o, s, i) = merge(o, s, i)
    BY <1>11 DEF flat_map
  <2> QED
    BY <1>8, <2>1
<1> QED
  BY <1>9, <1>10, <1>11

LEMMA ConcatWaits ==
  ASSUME NEW o, o.name \in {"concat", "concat_map"}, NEW s, NEW S
  PROVE  Waits(o, s, S) <=> IsState(s) /\ InTurn(s, S)
BY DEF Waits, FromFirst, Unary

LEMMA ConcatStep ==
  ASSUME NEW o, o.name \in {"concat", "concat_map"}, NEW s, NEW S, Waits(o, s, S),
         NEW i, IsCall(i), i.s \in S
  PROVE  Goes(o, concat(o, s, i), Gone(S, i))
<1>1. IsState(s) /\ InTurn(s, S)
  BY ConcatWaits
<1>3. i.k \in {"next", "error", "completed"} /\ i.k # "subscribe" /\ (Terminal(i) <=> i.k # "next")
  BY DEF IsCall, Terminal
<1>4. /\ s.n \in Nat /\ s.m \in Nat /\ s.m # 1 /\ s.items \in Seq(Nat \ {0, 1})
      /\ ~s.done => 1 \in S
      /\ s.done => s.m # 0
      /\ s.m # 0 => s.m \in S
      /\ s.m = 0 => s.items = <<>>
  BY <1>1 DEF InTurn
<1> DEFINE c == s.n + 2
           n == s.n + 1
<1>5. c \in Nat \ {0, 1} /\ n \in Nat
  BY <1>4
<1>6. CASE i.k = "next" /\ Outer(i) /\ s.m # 0
  <2> DEFINE l == Append(s.items, c)
             t == [s EXCEPT !.n = n, !.items = l]
  <2>1. concat(o, s, i) = Quietly(t)
    BY <1>6 DEF concat
  <2>2. l \in Seq(Nat \ {0, 1})
    BY <1>4, <1>5
  <2> HIDE DEF l, n
  <2>4. IsState(t) /\ t.n = n /\ t.m = s.m /\ t.items = l /\ t.done = s.done
    <3>1. t = WithNItems(s, n, l)
      BY DEF WithNItems
    <3> HIDE DEF t
    <3> QED
      BY <1>1, <3>1, NAndItems
  <2> HIDE DEF t
  <2>5. InTurn(t, S)
    BY <1>4, <1>5, <1>6, <2>2, <2>4 DEF InTurn
  <2>6. Goes(o, Quietly(t), S)
    BY <2>4, <2>5, ConcatWaits, QuietlyGoes
  <2> QED
    BY <1>3, <1>6, <2>1, <2>6 DEF Gone
<1>7. CASE i.k = "next" /\ Outer(i) /\ s.m = 0
  <2> DEFINE t == [s EXCEPT !.n = n, !.m = c]
  <2>1. concat(o, s, i) = Subscribing(t, {c})
    BY <1>7 DEF concat
  <2> HIDE DEF n, c
  <2>3. IsState(t) /\ t.n = n /\ t.m = c /\ t.items = s.items /\ t.done = s.done
    <3>1. t = WithNM(s, n, c)
      BY DEF WithNM
    <3> HIDE DEF t
    <3> QED
      BY <1>1, <3>1, NAndM
  <2> HIDE DEF t
  <2>4. InTurn(t, (S \ {}) \cup {c})
    BY <1>4, <1>5, <1>7, <2>3 DEF InTurn
  <2>5. Waits(o, t, (S \ {}) \cup {c})
    BY <2>3, <2>4, ConcatWaits
  <2>6. Goes(o, Subscribing(t, {c}), S)
    BY <2>5, SubscribingIs DEF Goes
  <2> QED
    BY <1>3, <1>7, <2>1, <2>6 DEF Gone
<1>8. CASE i.k = "completed" /\ Outer(i)
  <2> DEFINE t == [s EXCEPT !.done = TRUE]
  <2>1. IsState(t) /\ t.n = s.n /\ t.m = s.m /\ t.items = s.items /\ t.done
    <3>1. ASSUME NEW x PROVE LET u == [s EXCEPT !.done = x] IN
                             IsState(u) /\ u.n = s.n /\ u.m = s.m /\ u.items = s.items /\ u.done = x
      BY <1>1 DEF IsState
    <3> QED
      BY <3>1, Zenon
  <2>2. concat(o, s, i) = Does(t, IF s.m = 0 /\ s.items = <<>> THEN <<OnCompleted>> ELSE <<>>)
    BY <1>8 DEF concat
  <2> HIDE DEF t
  <2>3. CASE s.m = 0
    BY <1>4, <2>2, <2>3, EndGoes
  <2>4. CASE s.m # 0
    <3>1. Gone(S, i) = S \ {1}
      BY <1>3, <1>8 DEF Gone, Outer
    <3>2. InTurn(t, S \ {1})
      BY <1>4, <2>1, <2>4 DEF InTurn
    <3>3. Goes(o, Quietly(t), S \ {1})
      BY <2>1, <3>2, ConcatWaits, QuietlyGoes
    <3> QED
      BY <2>2, <2>4, <3>1, <3>3 DEF Quietly
  <2> QED
    BY <2>3, <2>4
<1>9. CASE i.k = "completed" /\ ~Outer(i) /\ s.items # <<>>
  <2> DEFINE next == Head(s.items)
             l == Tail(s.items)
             t == [s EXCEPT !.m = next, !.items = l]
  <2>1. concat(o, s, i) = Subscribing(t, {next})
    BY <1>9 DEF concat
  <2>2. next \in Nat \ {0, 1} /\ l \in Seq(Nat \ {0, 1})
    BY <1>4, <1>9
  <2> HIDE DEF next, l
  <2>4. IsState(t) /\ t.n = s.n /\ t.m = next /\ t.items = l /\ t.done = s.done
    <3>1. t = WithMItems(s, next, l)
      BY DEF WithMItems
    <3> HIDE DEF t
    <3> QED
      BY <1>1, <3>1, MAndItems
  <2> HIDE DEF t
  <2>5. InTurn(t, ((S \ {i.s}) \ {}) \cup {next})
    BY <1>4, <1>9, <2>2, <2>4 DEF InTurn, Outer
  <2>6. Waits(o, t, ((S \ {i.s}) \ {}) \cup {next})
    BY <2>4, <2>5, ConcatWaits
  <2>7. Goes(o, Subscribing(t, {next}), S \ {i.s})
    BY <2>6, SubscribingIs DEF Goes
  <2> QED
    BY <1>3, <1>9, <2>1, <2>7 DEF Gone
<1>10. CASE i.k = "completed" /\ ~Outer(i) /\ s.items = <<>>
  <2> DEFINE t == [s EXCEPT !.m = 0]
  <2>1. IsState(t) /\ t.n = s.n /\ t.m = 0 /\ t.items = s.items /\ t.done = s.done
    BY <1>1 DEF IsState
  <2>2. concat(o, s, i) = Does(t, IF s.done THEN <<OnCompleted>> ELSE <<>>)
    BY <1>10 DEF concat
  <2> HIDE DEF t
  <2>3. CASE s.done
    BY <2>2, <2>3, EndGoes
  <2>4. CASE ~s.done
    <3>1. InTurn(t, S \ {i.s})
      BY <1>4, <1>10, <2>1, <2>4 DEF InTurn, Outer
    <3>2. Goes(o, Quietly(t), S \ {i.s})
      BY <2>1, <3>1, ConcatWaits, QuietlyGoes
    <3> QED
      BY <1>3, <1>10, <2>2, <2>4, <3>2 DEF Quietly, Gone
  <2> QED
    BY <2>3, <2>4
<1>11. CASE i.k = "error" \/ (i.k = "next" /\ ~Outer(i))
  <2>1. concat(o, s, i) = Forward(s, i)
    BY <1>11 DEF concat
  <2> QED
    BY <2>1, ForwardGoes
<1> QED
  BY <1>3, <1>6, <1>7, <1>8, <1>9, <1>10, <1>11

LEMMA ConcatMapStep ==
  ASSUME NEW o, o.name \in {"concat", "concat_map"}, NEW s, NEW S, Waits(o, s, S),
         NEW i, IsCall(i), i.s \in S
  PROVE  Goes(o, concat_map(o, s, i), Gone(S, i))
<1>1. IsState(s) /\ InTurn(s, S)
  BY ConcatWaits
<1> DEFINE known == IF i.k = "next" /\ Outer(i)
                    THEN [s EXCEPT !.vals = Append(s.vals, Item(i))] ELSE s
           r     == concat(o, known, i)
           turn  == {x - 1 : x \in r.on \ {1}}
<1>2. ASSUME NEW x PROVE LET t == [s EXCEPT !.vals = x] IN
                         IsState(t) /\ t.n = s.n /\ t.m = s.m /\ t.items = s.items /\ t.done = s.done
  BY <1>1 DEF IsState
<1>3. ASSUME NEW x PROVE Waits(o, [s EXCEPT !.vals = x], S)
  <2> DEFINE t == [s EXCEPT !.vals = x]
  <2>1. IsState(t) /\ t.n = s.n /\ t.m = s.m /\ t.items = s.items /\ t.done = s.done
    BY <1>2
  <2> HIDE DEF t
  <2>2. Waits(o, t, S)
    BY <1>1, <2>1, ConcatWaits DEF InTurn
  <2> QED
    BY <2>2 DEF t
<1>4. Waits(o, known, S)
  BY <1>3
<1> HIDE DEF known
<1>5. Goes(o, r, Gone(S, i))
  BY <1>4, ConcatStep
<1>6. CASE i.k = "next" /\ ~Outer(i)
  <2>1. Gone(S, i) = S
    BY <1>6 DEF Gone, Terminal
  <2>2. concat_map(o, s, i) = IF Throws(Item(i)) THEN Fails(s)
                              ELSE Push(s, <<s.vals[InnerNo(i)], Item(i)>>)
    BY <1>6 DEF concat_map
  <2> QED
    BY <2>1, <2>2, EndGoes, QuietlyGoes
<1>7. CASE ~(i.k = "next" /\ ~Outer(i))
  <2>1. concat_map(o, s, i) = IF \E j \in turn : Throws(known.vals[j]) THEN Fails(r.st) ELSE r
    BY <1>7 DEF concat_map, known
  <2> HIDE DEF r, turn
  <2> QED
    BY <1>5, <2>1, EndGoes
<1> QED
  BY <1>6, <1>7


LEMMA AmbWaits ==
  ASSUME NEW o, o.name = "amb", NEW s, NEW S
  PROVE  Waits(o, s, S) <=> IsState(s) /\ Racing(s, S)
BY DEF Waits, FromFirst, Unary

LEMMA AmbStep ==
  ASSUME NEW o, o.name = "amb", NEW s, NEW S, Waits(o, s, S),
         NEW i, IsCall(i), i.s \in S, i.s \in Nat \ {0}
  PROVE  Goes(o, amb(o, s, i), Gone(S, i))
<1>1. IsState(s) /\ Racing(s, S) /\ s.n \in Nat
  BY AmbWaits DEF Racing
<1>2. i.k \in {"next", "error", "completed"} /\ i.k # "subscribe" /\ (Terminal(i) <=> i.k # "next")
  BY DEF IsCall, Terminal
<1>3. CASE i.k = "next" /\ Outer(i)
  <2>1. Gone(S, i) = S
    BY <1>2, <1>3 DEF Gone
  <2>2. CASE s.done
    BY <1>3, <2>1, <2>2, QuietlyGoes DEF amb
  <2>3. CASE ~s.done
    <3> DEFINE r == Join(s)
    <3>1. amb(o, s, i) = r
      BY <1>3, <2>3 DEF amb
    <3>2. /\ IsState(r.st) /\ r.st.n = s.n + 1
          /\ r.on = {s.n + 2} /\ r.off = {} /\ r.arm = <<>> /\ GoodPush(r.push)
      BY <1>1, JoinIs
    <3> HIDE DEF r
    <3>3. s.n + 2 \in (S \ r.off) \cup r.on
      BY <3>2
    <3>4. Racing(r.st, (S \ r.off) \cup r.on)
      <4>1. r.st.n \in Nat /\ r.st.n # 0
        BY <1>1, <3>2
      <4>2. s.n + 2 \in Nat /\ s.n + 2 > 1
        BY <1>1
      <4>3. (S \ r.off) \cup r.on \subseteq Nat \ {0}
        <5>1. S \subseteq Nat \ {0}
          BY <1>1 DEF Racing
        <5> DEFINE c == s.n + 2
        <5>2. c \in Nat \ {0} /\ r.on = {c}
          BY <1>1, <3>2
        <5> HIDE DEF c
        <5> QED
          BY <5>1, <5>2
      <4> QED
        BY <3>3, <4>1, <4>2, <4>3 DEF Racing
    <3>5. Goes(o, r, S)
      BY <3>2, <3>4, AmbWaits DEF Goes
    <3> QED
      BY <2>1, <3>1, <3>5 DEF r
  <2> QED
    BY <2>2, <2>3
<1>4. CASE i.k = "next" /\ ~Outer(i) /\ ~s.done
  <2> DEFINE t == [s EXCEPT !.done = TRUE]
             p == Push(t, i.v)
             others == (2 .. s.n + 1) \ {i.s}
             r == [p EXCEPT !.off = others]
  <2>1. IsState(t) /\ t.n = s.n
    <3>1. ASSUME NEW x PROVE LET u == [s EXCEPT !.done = x] IN IsState(u) /\ u.n = s.n
      BY <1>1 DEF IsState
    <3> QED
      BY <3>1, Zenon
  <2>2. amb(o, s, i) = r
    BY <1>4 DEF amb
  <2> HIDE DEF t, others
  <2>3. Plain(p, t)
    BY PushIs
  <2>4. r.st = t /\ r.on = {} /\ r.off = others /\ r.arm = <<>> /\ GoodPush(r.push)
    <3>1. r.st = p.st /\ r.on = p.on /\ r.off = others /\ r.arm = p.arm /\ r.push = p.push
      BY DEF Push, Does
    <3> QED
      BY <2>3, <3>1 DEF Plain
  <2> HIDE DEF r, p
  <2>5. i.s \in (S \ others) /\ i.s > 1
    BY <1>4 DEF others, Outer
  <2>6. s.n # 0 => Racing(t, (S \ others) \cup {})
    BY <1>1, <2>1, <2>5 DEF Racing
  <2>7. s.n = 0 => others = {}
    BY DEF others
  <2>8. s.n = 0 => Racing(t, (S \ others) \cup {})
    BY <1>1, <2>1, <2>7 DEF Racing
  <2>9. Gone(S, i) = S
    BY <1>2, <1>4 DEF Gone
  <2> QED
    BY <2>1, <2>2, <2>4, <2>6, <2>8, <2>9, AmbWaits DEF Goes
<1>5. CASE i.k = "completed" /\ Outer(i) /\ s.n # 0
  <2>1. amb(o, s, i) = Quietly(s)
    BY <1>5 DEF amb
  <2>2. Gone(S, i) = S \ {1}
    BY <1>2, <1>5 DEF Gone, Outer
  <2>3. Racing(s, S \ {1})
    BY <1>1, <1>5 DEF Racing
  <2> QED
    BY <1>1, <2>1, <2>2, <2>3, AmbWaits, QuietlyGoes
<1>6. CASE i.k = "error" \/ (i.k = "completed" /\ ~(Outer(i) /\ s.n # 0))
           \/ (i.k = "next" /\ ~Outer(i) /\ s.done)
  <2>1. amb(o, s, i) = Forward(s, i)
    BY <1>6 DEF amb
  <2> QED
    BY <2>1, ForwardGoes
<1> QED
  BY <1>2, <1>3, <1>4, <1>5, <1>6

-----------------------------------------------------------------------------
\* m and done set together.
WithMDone(s, x, y) == [s EXCEPT !.m = x, !.done = y]
LEMMA WithMDoneIs ==
  ASSUME NEW s, NEW x, NEW y, IsState(s), NEW t, t = WithMDone(s, x, y)
  PROVE  IsState(t) /\ t.n = s.n /\ t.m = x /\ t.items = s.items /\ t.seen = s.seen /\ t.done = y
<1>1. PICK n0, m0, l0, d, e, f, g : s = [n |-> n0, m |-> m0, items |-> l0, seen |-> d,
                                        done |-> e, vals |-> f, out |-> g]
  BY StateIs
<1>2. t = [n |-> n0, m |-> x, items |-> l0, seen |-> d, done |-> y, vals |-> f, out |-> g]
  BY <1>1 DEF WithMDone
<1> QED
  BY <1>1, <1>2 DEF IsState

LEMMA SwitchWaits ==
  ASSUME NEW o, o.name = "switch_on_next", NEW s, NEW S
  PROVE  Waits(o, s, S) <=> IsState(s) /\ Latched(s, S)
BY DEF Waits, FromFirst, Unary

LEMMA SwitchStep ==
  ASSUME NEW o, o.name = "switch_on_next", NEW s, NEW S, Waits(o, s, S),
         NEW i, IsCall(i), i.s \in S
  PROVE  Goes(o, switch_on_next(o, s, i), Gone(S, i))
<1>1. IsState(s) /\ Latched(s, S) /\ s.n \in Nat /\ s.m \in 1 .. 2
  BY SwitchWaits DEF Latched
<1>2. i.k \in {"next", "error", "completed"} /\ i.k # "subscribe" /\ (Terminal(i) <=> i.k # "next")
  BY DEF IsCall, Terminal
<1> DEFINE left  == IF s.done THEN s.m - 1 ELSE s.m
           ended == [s EXCEPT !.m = left, !.done = FALSE]
           here  == IF 1 \in S THEN 1 ELSE 0
<1>3. left = here /\ here \in 0 .. 1
  BY <1>1 DEF Latched
<1>4. ASSUME NEW x, NEW y PROVE LET t == WithMDone(s, x, y) IN
                         IsState(t) /\ t.n = s.n /\ t.m = x /\ t.done = y
  BY <1>1, WithMDoneIs
<1> HIDE DEF left, here
<1>5. IsState(ended) /\ ended.n = s.n /\ ended.m = left /\ ended.done = FALSE
  <2>1. PICK y : y = FALSE
    OBVIOUS
  <2>2. ended = WithMDone(s, left, y)
    BY <2>1 DEF WithMDone
  <2> HIDE DEF ended
  <2>3. IsState(ended) /\ ended.n = s.n /\ ended.m = left /\ ended.done = y
    BY <1>1, <2>2, WithMDoneIs
  <2> QED
    BY <2>1, <2>3
<1> HIDE DEF ended
<1>6. CASE i.k = "next" /\ Outer(i)
  <2> DEFINE t == [ended EXCEPT !.done = TRUE]
             j == Join(t)
             off == IF s.done THEN {s.n + 1} ELSE {}
             r == [j EXCEPT !.off = off]
  <2>1. IsState(t) /\ t.n = s.n /\ t.m = left /\ t.done = TRUE
    <3>1. ASSUME NEW x PROVE LET u == [ended EXCEPT !.done = x] IN
                             IsState(u) /\ u.n = s.n /\ u.m = left /\ u.done = x
      BY <1>5 DEF IsState
    <3> QED
      BY <3>1, Zenon
  <2>2. switch_on_next(o, s, i) = r
    BY <1>6 DEF switch_on_next, ended, left
  <2> HIDE DEF t, off
  <2>3. /\ IsState(j.st) /\ j.st.n = s.n + 1 /\ j.st.m = left + 1 /\ j.st.done = TRUE
        /\ j.on = {s.n + 2} /\ j.off = {} /\ j.arm = <<>> /\ GoodPush(j.push)
    BY <2>1, JoinIs
  <2>4. r.st = j.st /\ r.on = j.on /\ r.off = off /\ r.arm = j.arm /\ r.push = j.push
    BY DEF Join, Subscribing, Quietly, Does
  <2> HIDE DEF r, j
  <2> DEFINE T == (S \ off) \cup {s.n + 2}
  <2>5. 1 \in S /\ 1 \in T /\ s.n + 2 \in T
    BY <1>1, <1>6 DEF Outer, off, Latched
  <2>6. \A x \in T : x = 1 \/ x = s.n + 2
    BY <1>1 DEF Latched, off
  <2>7. left = 1
    BY <1>3, <2>5 DEF here
  <2> HIDE DEF T
  <2>8. Latched(j.st, T)
    <3>1. j.st.done /\ j.st.done \in BOOLEAN
      BY <2>3, Zenon
    <3>2. j.st.n \in Nat /\ j.st.n # 0 /\ j.st.n + 1 = s.n + 2 /\ j.st.m = 2
      BY <1>1, <2>3, <2>7
    <3> QED
      BY <2>5, <2>6, <3>1, <3>2 DEF Latched
  <2>9. (Gone(S, i) \ r.off) \cup r.on = T
    BY <1>2, <1>6, <2>3, <2>4 DEF Gone, T
  <2> QED
    BY <2>2, <2>3, <2>4, <2>8, <2>9, SwitchWaits DEF Goes
<1>7. CASE i.k = "completed" /\ Outer(i)
  <2> DEFINE rest == s.m - 1
             t == [s EXCEPT !.m = rest]
  <2>1. switch_on_next(o, s, i) = IF rest = 0 THEN Does(t, <<OnCompleted>>) ELSE Quietly(t)
    <3>1. switch_on_next(o, s, i) = Completion(s, OnCompleted)
      BY <1>7 DEF switch_on_next
    <3>2. t.m = rest
      BY <1>1 DEF IsState
    <3> QED
      BY <3>1, <3>2 DEF Completion
  <2>2. IsState(t) /\ t.n = s.n /\ t.m = rest /\ t.done = s.done
    BY <1>1 DEF IsState
  <2> HIDE DEF t
  <2>3. CASE rest = 0
    BY <2>1, <2>3, EndGoes
  <2>4. CASE rest # 0
    <3>1. Gone(S, i) = S \ {1}
      BY <1>2, <1>7 DEF Gone, Outer
    <3>2. Latched(t, S \ {1})
      BY <1>1, <2>2, <2>4 DEF Latched
    <3> QED
      BY <2>1, <2>2, <2>4, <3>1, <3>2, SwitchWaits, QuietlyGoes
  <2> QED
    BY <2>3, <2>4
<1>8. CASE i.k = "completed" /\ ~Outer(i)
  <2>1. switch_on_next(o, s, i) = Does(ended, IF s.m = 1 THEN <<OnCompleted>> ELSE <<>>)
    BY <1>8 DEF switch_on_next, ended, left
  <2>2. s.done /\ i.s = s.n + 1
    BY <1>1, <1>8 DEF Latched, Outer
  <2>3. CASE s.m = 1
    BY <2>1, <2>3, EndGoes
  <2>4. CASE s.m # 1
    <3>1. Gone(S, i) = S \ {s.n + 1}
      BY <1>2, <1>8, <2>2 DEF Gone
    <3>2. 1 \in S /\ s.n + 1 # 1
      BY <1>1, <2>2, <2>4 DEF Latched
    <3>3. Latched(ended, S \ {s.n + 1})
      <4>1. ~ended.done /\ ended.done \in BOOLEAN
        BY <1>5, Zenon
      <4>2. left = 1 /\ \A x \in S \ {s.n + 1} : x = 1
        BY <1>1, <1>3, <3>2 DEF here, Latched
      <4>3. 1 \in S \ {s.n + 1}
        BY <1>1, <3>2
      <4> DEFINE R == S \ {s.n + 1}
      <4> HIDE DEF R
      <4>4. Latched(ended, R)
        BY <1>1, <1>5, <4>1, <4>2, <4>3 DEF Latched, R
      <4> QED
        BY <4>4 DEF R
    <3>4. Goes(o, Quietly(ended), S \ {s.n + 1})
      BY <1>5, <3>3, SwitchWaits, QuietlyGoes
    <3> QED
      BY <2>1, <2>4, <3>1, <3>4 DEF Quietly
  <2> QED
    BY <2>3, <2>4
<1>9. CASE i.k = "error" \/ (i.k = "next" /\ ~Outer(i))
  <2>1. switch_on_next(o, s, i) = Forward(s, i)
    BY <1>9 DEF switch_on_next
  <2> QED
    BY <2>1, ForwardGoes
<1> QED
  BY <1>2, <1>6, <1>7, <1>8, <1>9

-----------------------------------------------------------------------------
(* The operators with two sources side by side.                               *)
Pairing == {"zip", "combine_latest", "with_latest_from", "sequence_equal"}

LEMMA PairingWaits ==
  ASSUME NEW o, o.name \in Pairing, NEW s, NEW S
  PROVE  Waits(o, s, S) <=> IsState(s) /\ s.seen \subseteq Both /\ s.seen # Both /\ S = Both \ s.seen
BY DEF Waits, FromFirst, Unary, Pairing

LEMMA PairingQueued ==
  ASSUME NEW o, o.name \in Pairing, NEW s, NEW S, Waits(o, s, S), NEW x
  PROVE  LET t == [s EXCEPT !.items = x] IN IsState(t) /\ t.seen = s.seen /\ Waits(o, t, S)
<1> DEFINE t == [s EXCEPT !.items = x]
<1>1. IsState(s) /\ s.seen \subseteq Both /\ s.seen # Both /\ S = Both \ s.seen
  BY PairingWaits
<1>2. IsState(t) /\ t.seen = s.seen
  BY <1>1 DEF IsState
<1> HIDE DEF t
<1>3. Waits(o, t, S)
  BY <1>1, <1>2, PairingWaits
<1> QED
  BY <1>2, <1>3 DEF t

LEMMA PairingEnded ==
  ASSUME NEW o, o.name \in Pairing, NEW s, NEW S, Waits(o, s, S), NEW i, Terminal(i), i.s \in S
  PROVE  /\ Ended(s, i).seen = s.seen \cup {i.s}
         /\ Ended(s, i).seen # Both => Waits(o, Ended(s, i), Gone(S, i))
         /\ Goes(o, CompleteAll(s, i), Gone(S, i))
<1>1. IsState(s) /\ s.seen \subseteq Both /\ s.seen # Both /\ S = Both \ s.seen /\ Gone(S, i) = S \ {i.s}
  BY PairingWaits DEF Gone
<1> DEFINE more == s.seen \cup {i.s}
           t == [s EXCEPT !.seen = more]
<1>2. Ended(s, i) = t
  BY DEF Ended
<1>3. S \ {i.s} = Both \ more /\ more \subseteq Both
  BY <1>1
<1>4. IsState(t) /\ t.seen = more
  <2> HIDE DEF more
  <2> QED
    BY <1>1 DEF IsState
<1> HIDE DEF t, more
<1>5. t.seen # Both => Waits(o, t, Gone(S, i))
  BY <1>1, <1>3, <1>4, PairingWaits
<1>6. CompleteAll(s, i) = IF t.seen = Both THEN Does(t, <<OnCompleted>>) ELSE Quietly(t)
  BY <1>2 DEF CompleteAll, Quietly
<1>7. Goes(o, CompleteAll(s, i), Gone(S, i))
  BY <1>5, <1>6, EndGoes, QuietlyGoes
<1> QED
  BY <1>2, <1>4, <1>5, <1>7 DEF more

LEMMA ZipStep ==
  ASSUME NEW o, o.name \in Pairing, NEW s, NEW S, Waits(o, s, S),
         NEW i, IsCall(i), i.s \in S
  PROVE  Goes(o, zip(o, s, i), Gone(S, i))
<1>1. i.k \in {"next", "error", "completed"} /\ i.k # "subscribe" /\ (Terminal(i) <=> i.k # "next")
  BY SMTT(25) DEF IsCall, Terminal
<1>2. CASE i.k = "next"
  <2> DEFINE queue2 == [s.items EXCEPT ![i.s] = Append(s.items[i.s], Item(i))]
             queued == [s EXCEPT !.items = queue2]
             ready  == \A x \in Both : queued.items[x] # <<>>
             fronts == [x \in Both |-> Head(queued.items[x])]
             tails  == [x \in Both |-> Tail(queued.items[x])]
             taken  == [queued EXCEPT !.items = tails]
             popped == IF ready THEN taken ELSE queued
             a == IF ~ready THEN <<>>
                  ELSE IF \E x \in Both : Throws(fronts[x]) THEN <<OnError>>
                  ELSE <<OnNext(fronts)>>
             b == IF Dry(popped) THEN <<OnCompleted>> ELSE <<>>
  <2>1. zip(o, s, i) = Does(popped, a \o b)
    BY <1>2 DEF zip
  <2>2. Waits(o, queued, S)
    <3> HIDE DEF queue2
    <3> QED
      BY PairingQueued
  <2>3. Waits(o, taken, S)
    <3> HIDE DEF queued, tails
    <3> QED
      BY <2>2, PairingQueued
  <2>4. Waits(o, popped, S)
    BY <2>2, <2>3
  <2>5. GoodPush(a)
    <3>1. GoodPush(<<OnError>>)
      BY OnePush DEF OnError, Signal
    <3>2. GoodPush(<<OnNext(fronts)>>)
      <4> HIDE DEF fronts
      <4> QED
        BY OnePush DEF OnNext, Signal
    <3> HIDE DEF fronts, ready
    <3> QED
      BY <3>1, <3>2, NoPush
  <2>6. GoodPush(b)
    <3>1. GoodPush(<<OnCompleted>>)
      BY OnePush DEF OnCompleted, Signal
    <3> HIDE DEF popped
    <3> QED
      BY <3>1, NoPush
  <2> HIDE DEF popped, a, b
  <2>7. GoodPush(a \o b)
    BY <2>5, <2>6, JoinedPush
  <2>8. Plain(Does(popped, a \o b), popped)
    BY <2>7, DoesIs
  <2>9. Waits(o, popped, (S \ {}) \cup {})
    BY <2>4
  <2>10. Gone(S, i) = S
    BY <1>1, <1>2 DEF Gone
  <2> QED
    BY <2>1, <2>8, <2>9, <2>10, SMTT(25) DEF Goes, Plain
<1>3. CASE i.k = "completed"
  <2>1. zip(o, s, i) = CompleteAll(s, i)
    BY <1>3 DEF zip
  <2> QED
    BY <1>1, <1>3, <2>1, PairingEnded
<1>4. CASE i.k = "error"
  <2>1. zip(o, s, i) = Forward(s, i)
    BY <1>4 DEF zip
  <2> QED
    BY <2>1, ForwardGoes
<1> QED
  BY <1>1, <1>2, <1>3, <1>4

LEMMA LatestStep ==
  ASSUME NEW o, o.name \in Pairing, NEW s, NEW S, Waits(o, s, S),
         NEW i, IsCall(i), i.s \in S, NEW triggers
  PROVE  Goes(o, Latest(s, i, triggers), Gone(S, i))
<1>1. i.k \in {"next", "error", "completed"} /\ i.k # "subscribe" /\ (Terminal(i) <=> i.k # "next")
  BY DEF IsCall, Terminal
<1>2. CASE i.k = "next"
  <2> DEFINE items2 == [s.items EXCEPT ![i.s] = i.v]
             known  == [s EXCEPT !.items = items2]
             all_set == \A x \in Both : known.items[x] # <<>>
             values == known.items[1] \o known.items[2]
             throws == \E x \in Both : Throws(values[x])
  <2>1. Latest(s, i, triggers) = IF ~(all_set /\ i.s \in triggers) THEN Quietly(known)
                                 ELSE IF throws THEN Fails(known) ELSE Push(known, values)
    BY <1>2 DEF Latest
  <2>2. Waits(o, known, S)
    <3> HIDE DEF items2
    <3> QED
      BY PairingQueued
  <2>3. Gone(S, i) = S
    BY <1>1, <1>2 DEF Gone
  <2> HIDE DEF known, all_set, values, throws
  <2> QED
    BY <2>1, <2>2, <2>3, QuietlyGoes, EndGoes
<1>3. CASE i.k = "completed"
  <2>1. Latest(s, i, triggers) = CompleteAll(s, i)
    BY <1>3 DEF Latest
  <2> QED
    BY <1>1, <1>3, <2>1, PairingEnded
<1>4. CASE i.k = "error"
  <2>1. Latest(s, i, triggers) = Forward(s, i)
    BY <1>4 DEF Latest
  <2> QED
    BY <2>1, ForwardGoes
<1> QED
  BY <1>1, <1>2, <1>3, <1>4

LEMMA SequenceEqualStep ==
  ASSUME NEW o, o.name \in Pairing, NEW s, NEW S, Waits(o, s, S),
         NEW i, IsCall(i), i.s \in S
  PROVE  Goes(o, sequence_equal(o, s, i), Gone(S, i))
<1>1. i.k \in {"next", "error", "completed"} /\ i.k # "subscribe" /\ (Terminal(i) <=> i.k # "next")
  BY DEF IsCall, Terminal
<1> DEFINE other  == 3 - i.s
           queue2 == [s.items EXCEPT ![i.s] = Append(s.items[i.s], Item(i))]
           queued == [s EXCEPT !.items = queue2]
           pair   == \A x \in Both : queued.items[x] # <<>>
           fronts == [x \in Both |-> Head(queued.items[x])]
           tails  == [x \in Both |-> Tail(queued.items[x])]
           popped == [queued EXCEPT !.items = tails]
           excess == \E x \in Both : queued.items[x] # <<>> /\ 3 - x \in s.seen
<1>2. CASE i.k = "next"
  <2>1. Waits(o, queued, S)
    <3> HIDE DEF queue2
    <3> QED
      BY PairingQueued
  <2>2. Waits(o, popped, S)
    <3> HIDE DEF queued, tails
    <3> QED
      BY <2>1, PairingQueued
  <2>3. Gone(S, i) = S
    BY <1>1, <1>2 DEF Gone
  <2>4. CASE pair
    <3>1. sequence_equal(o, s, i) = IF fronts[1] = fronts[2] THEN Quietly(popped)
                                    ELSE Finish(popped, Bit(FALSE))
      BY <1>2, <2>4 DEF sequence_equal
    <3> HIDE DEF popped, fronts
    <3> QED
      BY <2>2, <2>3, <3>1, QuietlyGoes, EndGoes
  <2>5. CASE ~pair
    <3>1. sequence_equal(o, s, i) = IF excess THEN Finish(queued, Bit(FALSE)) ELSE Quietly(queued)
      BY <1>2, <2>5 DEF sequence_equal
    <3> HIDE DEF queued, excess
    <3> QED
      BY <2>1, <2>3, <3>1, QuietlyGoes, EndGoes
  <2> QED
    BY <2>4, <2>5
<1> HIDE DEF queued, pair, fronts, popped, excess
<1>3. CASE i.k = "completed" /\ other \in s.seen
  <2> DEFINE v == Bit(\A x \in Both : s.items[x] = <<>>)
  <2>1. sequence_equal(o, s, i) = Finish(Ended(s, i), v)
    BY <1>3 DEF sequence_equal
  <2> HIDE DEF v
  <2> QED
    BY <2>1, EndGoes
<1>4. CASE i.k = "completed" /\ other \notin s.seen
  <2>1. sequence_equal(o, s, i) = Quietly(Ended(s, i))
    BY <1>4 DEF sequence_equal
  <2>2. Ended(s, i).seen = s.seen \cup {i.s} /\ i.s \in Both
    BY <1>1, <1>4, PairingEnded, PairingWaits
  <2>3. other \in Both /\ other # i.s
    BY <2>2 DEF Both
  <2>4. Ended(s, i).seen # Both
    BY <1>4, <2>2, <2>3
  <2> QED
    BY <1>1, <1>4, <2>1, <2>4, PairingEnded, QuietlyGoes
<1>5. CASE i.k = "error"
  <2>1. sequence_equal(o, s, i) = Forward(s, i)
    BY <1>5 DEF sequence_equal
  <2> QED
    BY <2>1, ForwardGoes
<1> QED
  BY <1>1, <1>2, <1>3, <1>4, <1>5

-----------------------------------------------------------------------------
(* The operators with a trigger and those with a second source in reserve.    *)
LEMMA TakeUntilStep ==
  ASSUME NEW o, o.name = "take_until", NEW s, NEW S, Waits(o, s, S),
         NEW i, IsCall(i), i.s \in S
  PROVE  Goes(o, take_until(o, s, i), Gone(S, i))
<1>1. ASSUME NEW t, NEW T PROVE Waits(o, t, T) <=> IsState(t) /\ 1 \in T /\ t.n \in {Taking, Clear}
  BY DEF Waits, FromFirst, Unary
<1>2. IsState(s) /\ 1 \in S /\ s.n \in {Taking, Clear}
  BY <1>1
<1>3. i.k \in {"next", "error", "completed"} /\ i.k # "subscribe" /\ (Terminal(i) <=> i.k # "next")
  BY DEF IsCall, Terminal
<1>4. i.s = 2 => 1 \in Gone(S, i)
  BY <1>2 DEF Gone
<1>5. CASE i.s = 2 /\ s.n # Taking
  <2>1. take_until(o, s, i) = Quietly(s)
    BY <1>3, <1>5 DEF take_until
  <2> QED
    BY <1>1, <1>2, <1>4, <1>5, <2>1, QuietlyGoes
<1>6. CASE i.s = 2 /\ s.n = Taking /\ i.k = "next"
  <2> DEFINE t == [s EXCEPT !.n = Triggered]
  <2>1. take_until(o, s, i) = Does(t, <<OnCompleted>>)
    BY <1>6 DEF take_until
  <2> HIDE DEF t
  <2> QED
    BY <2>1, EndGoes
<1>7. CASE i.s = 2 /\ s.n = Taking /\ i.k = "completed"
  <2> DEFINE t == [s EXCEPT !.n = Clear]
  <2>1. take_until(o, s, i) = Quietly(t)
    BY <1>7 DEF take_until
  <2>2. IsState(t) /\ t.n = Clear
    BY <1>2 DEF IsState
  <2> HIDE DEF t
  <2> QED
    BY <1>1, <1>4, <1>7, <2>1, <2>2, QuietlyGoes
<1>8. CASE i.s # 2 \/ (s.n = Taking /\ i.k = "error")
  <2>1. ~ (i.s = 1 /\ s.n >= Triggered)
    BY <1>2 DEF Taking, Clear, Triggered
  <2>2. take_until(o, s, i) = Forward(s, i)
    BY <1>3, <1>8, <2>1 DEF take_until
  <2> QED
    BY <2>2, ForwardGoes
<1> QED
  BY <1>3, <1>5, <1>6, <1>7, <1>8

LEMMA SkipUntilStep ==
  ASSUME NEW o, o.name = "skip_until", NEW s, NEW S, Waits(o, s, S), NEW i, IsCall(i)
  PROVE  Goes(o, skip_until(o, s, i), Gone(S, i))
<1>1. ASSUME NEW t, NEW T PROVE Waits(o, t, T) <=> IsState(t)
  BY DEF Waits, FromFirst, Unary
<1>2. IsState(s)
  BY <1>1
<1>3. i.k # "subscribe"
  BY DEF IsCall
<1>4. ASSUME NEW x PROVE LET t == [s EXCEPT !.n = x] IN
                         Goes(o, [Quietly(t) EXCEPT !.off = {2}], Gone(S, i))
  <2> DEFINE t == [s EXCEPT !.n = x]
             r == [Quietly(t) EXCEPT !.off = {2}]
  <2>1. IsState(t)
    BY <1>2 DEF IsState
  <2> HIDE DEF t
  <2>2. r.st = t /\ r.arm = <<>> /\ r.push = <<>>
    BY DEF Quietly, Does
  <2> HIDE DEF r
  <2>3. Goes(o, r, Gone(S, i))
    BY <1>1, <2>1, <2>2, NoPush DEF Goes
  <2> QED
    BY <2>3 DEF r, t
<1>5. Goes(o, Forward(s, i), Gone(S, i))
  BY ForwardGoes
<1>6. Goes(o, Quietly(s), Gone(S, i))
  BY <1>1, <1>2, QuietlyGoes
<1>7. CASE i.s = 2 /\ s.n = Taking /\ i.k = "next"
  <2>1. skip_until(o, s, i) = [Quietly([s EXCEPT !.n = Triggered]) EXCEPT !.off = {2}]
    BY <1>7 DEF skip_until
  <2> QED
    BY <1>4, <2>1, Zenon
<1>8. CASE i.s = 2 /\ s.n = Taking /\ i.k = "completed"
  <2>1. skip_until(o, s, i) = [Quietly([s EXCEPT !.n = Clear]) EXCEPT !.off = {2}]
    BY <1>8 DEF skip_until
  <2> QED
    BY <1>4, <2>1, Zenon
<1>9. CASE ~ (i.s = 2 /\ s.n = Taking /\ i.k \in {"next", "completed"})
  <2>1. skip_until(o, s, i) \in {Quietly(s), Forward(s, i)}
    BY <1>3, <1>9 DEF skip_until
  <2> QED
    BY <1>5, <1>6, <2>1
<1> QED
  BY <1>7, <1>8, <1>9

\* The operators with one source in reserve.
Reserve == {"on_error_resume_next", "switch_if_empty"}

LEMMA ReserveStep ==
  ASSUME NEW o, o.name \in Reserve, NEW s, NEW S, Waits(o, s, S),
         NEW i, IsCall(i), i.s \in S
  PROVE  /\ Goes(o, on_error_resume_next(o, s, i), Gone(S, i))
         /\ Goes(o, switch_if_empty(o, s, i), Gone(S, i))
<1>1. ASSUME NEW t, NEW T PROVE Waits(o, t, T) <=> IsState(t) /\ T # {} /\ T \subseteq Both
  BY DEF Waits, FromFirst, Unary, Reserve
<1>2. IsState(s) /\ S \subseteq Both
  BY <1>1
<1>3. i.k \in {"next", "error", "completed"} /\ i.k # "subscribe" /\ (Terminal(i) <=> i.k # "next")
  BY DEF IsCall, Terminal
<1>4. Goes(o, Forward(s, i), Gone(S, i))
  BY ForwardGoes
<1>5. Goes(o, Subscribing(s, {2}), Gone(S, i))
  <2> DEFINE r == Subscribing(s, {2})
  <2>1. r.st = s /\ r.on = {2} /\ r.off = {} /\ r.arm = <<>> /\ GoodPush(r.push)
    BY SubscribingIs
  <2> HIDE DEF r
  <2>2. Waits(o, r.st, (Gone(S, i) \ r.off) \cup r.on)
    BY <1>1, <1>2, <2>1 DEF Gone, Both
  <2>3. Goes(o, r, Gone(S, i))
    BY <2>1, <2>2 DEF Goes
  <2> QED
    BY <2>3 DEF r
<1>6. ASSUME i.k = "next" PROVE Goes(o, Push([s EXCEPT !.done = TRUE], i.v), Gone(S, i))
  <2> DEFINE t == [s EXCEPT !.done = TRUE]
  <2>1. IsState(t)
    <3>1. ASSUME NEW x PROVE IsState([s EXCEPT !.done = x])
      BY <1>2 DEF IsState
    <3> QED
      BY <3>1, Zenon
  <2> HIDE DEF t
  <2>2. Waits(o, t, S) /\ Gone(S, i) = S
    BY <1>1, <1>2, <1>3, <1>6, <2>1 DEF Gone
  <2>3. Goes(o, Push(t, i.v), S)
    BY <2>2, QuietlyGoes
  <2> QED
    BY <2>2, <2>3 DEF t
<1>7. Goes(o, on_error_resume_next(o, s, i), Gone(S, i))
  BY <1>4, <1>5 DEF on_error_resume_next
<1>8. CASE i.k = "next" /\ i.s = 1
  <2>1. switch_if_empty(o, s, i) = Push([s EXCEPT !.done = TRUE], i.v)
    BY <1>8 DEF switch_if_empty
  <2> QED
    BY <1>6, <1>7, <1>8, <2>1
<1>9. CASE ~(i.k = "next" /\ i.s = 1)
  <2>1. switch_if_empty(o, s, i) \in {Subscribing(s, {2}), Forward(s, i)}
    BY <1>9 DEF switch_if_empty
  <2> QED
    BY <1>4, <1>5, <1>7, <2>1
<1> QED
  BY <1>8, <1>9

-----------------------------------------------------------------------------
(* group_by: its sources outlive the output, so that it is called on.         *)
LEMMA GroupList == ASSUME NEW s PROVE IsList(Groups(s)) /\ \A c : IsList(Known(c)) /\ IsList(<<c>>)
<1>1. ASSUME NEW c, NEW T, c \in T PROVE Known(c) \in Seq(T) /\ <<c>> \in Seq(T)
  <2>1. <<c>> \in Seq(T) /\ <<>> \in Seq(T)
    BY <1>1
  <2> QED
    BY <2>1, Zenon DEF Known
<1>2. Groups(s) \in Seq({s.items[1], s.items[2]})
  <2> DEFINE a == s.items[1]
             b == s.items[2]
  <2> HIDE DEF a, b
  <2>1. Known(a) \in Seq({a, b}) /\ Known(b) \in Seq({a, b})
    BY <1>1
  <2>2. Known(a) \o Known(b) \in Seq({a, b})
    BY <2>1
  <2> QED
    BY <2>2 DEF Groups, a, b
<1>3. ASSUME NEW c PROVE Known(c) \in Seq({c}) /\ <<c>> \in Seq({c})
  BY <1>1
<1> QED
  BY <1>2, <1>3 DEF IsList

LEMMA GroupByStep ==
  ASSUME NEW o, o.name = "group_by", NEW s, NEW i, IsCall(i), i.s \in Nat
  PROVE  LET r == group_by(o, s, i) IN
         /\ r.arm = <<>> /\ GoodPush(r.push)
         /\ \A S : Waits(o, s, S) /\ i.s \in S => Goes(o, r, Gone(S, i))
<1>1. ASSUME NEW t, NEW T PROVE Waits(o, t, T) <=> IsState(t) /\ 1 \in T
  BY DEF Waits, FromFirst, Unary
<1>2. /\ i.k \in {"next", "error", "completed"} /\ i.k # "subscribe" /\ (Terminal(i) <=> i.k # "next")
      /\ i = [s |-> i.s, k |-> i.k, v |-> i.v]
  BY DEF IsCall, Terminal
<1> DEFINE all_of(u, n) == ToWindows(Groups(u), n) \o <<[n EXCEPT !.s = 0]>>
           to_all(n) == all_of(s, n)
<1>3. ASSUME NEW u, NEW n, n = [s |-> n.s, k |-> n.k, v |-> n.v], n.k # "open"
      PROVE  GoodPush(all_of(u, n)) /\ (Terminal(n) => EndsOutput(all_of(u, n)))
  <2> DEFINE e == [n EXCEPT !.s = 0]
             p == ToWindows(Groups(u), n)
  <2>1. GoodPush(p)
    BY <1>3, GroupList, WindowsPush
  <2>2. e.s = 0 /\ e.k = n.k /\ (Terminal(e) <=> Terminal(n))
    BY <1>3 DEF Terminal
  <2> HIDE DEF e, p
  <2>3. GoodPush(p \o <<e>>) /\ (Terminal(e) => EndsOutput(p \o <<e>>))
    BY <1>3, <2>1, <2>2, LastPush
  <2> QED
    BY <2>2, <2>3 DEF e, p
<1>4. CASE i.k = "next" /\ i.s = 1
  <2> DEFINE key   == IF Throws(Item(i)) THEN 1 ELSE Item(i)
             found == s.items[key] # 0
             throws(m) == Throws(Item(i)) /\ o.m = m
             fails == throws(0) \/ (throws(1) /\ ~found /\ s.out)
             late  == throws(2)
             c     == IF found THEN s.items[key] ELSE s.n + 1
             l     == [s.items EXCEPT ![key] = c]
             n     == IF found THEN s.n ELSE s.n + 1
             t     == [s EXCEPT !.items = l, !.n = n]
             a     == IF found THEN <<>> ELSE <<Open(c)>>
             b     == IF late THEN all_of(t, OnError) ELSE ToWindows(<<c>>, i)
             d     == Does(t, a \o b)
             on2   == IF found THEN {} ELSE {1 + key}
             r     == [d EXCEPT !.on = on2]
  <2>1. group_by(o, s, i) = IF fails THEN Does(s, to_all(OnError))
                            ELSE IF ~found /\ ~s.out THEN Quietly(s) ELSE r
    BY <1>4 DEF group_by
  <2>2. GoodPush(to_all(OnError)) /\ EndsOutput(to_all(OnError))
    BY <1>3 DEF OnError, Signal, Terminal
  <2>3. GoodPush(a)
    <3>1. GoodPush(<<Open(c)>>)
      <4> HIDE DEF c
      <4> QED
        BY OnePush DEF Open, Signal
    <3> HIDE DEF found, c
    <3> QED
      BY <3>1, NoPush
  <2>4. GoodPush(b)
    <3>1. GoodPush(all_of(t, OnError))
      <4> HIDE DEF t
      <4> QED
        BY <1>3 DEF OnError, Signal
    <3>2. GoodPush(ToWindows(<<c>>, i))
      <4> HIDE DEF c
      <4> QED
        BY <1>2, <1>4, GroupList, WindowsPush
    <3> HIDE DEF all_of, late, c, t
    <3> QED
      BY <3>1, <3>2
  <2> HIDE DEF a, b
  <2>5. GoodPush(a \o b)
    BY <2>3, <2>4, JoinedPush
  <2> HIDE DEF t, on2
  <2>6. Plain(d, t)
    BY <2>5, DoesIs
  <2>7. r.st = d.st /\ r.on = on2 /\ r.off = d.off /\ r.arm = d.arm /\ r.push = d.push
    BY DEF Does
  <2> HIDE DEF d, r
  <2>8. IsState(s) => IsState(t)
    <3> SUFFICES ASSUME IsState(s) PROVE IsState(t)
      OBVIOUS
    <3> HIDE DEF l, n
    <3>0. t = [s EXCEPT !.items = l, !.n = n]
      BY DEF t
    <3>1. PICK n0, m0, l0, d0, e, f, g : s = [n |-> n0, m |-> m0, items |-> l0, seen |-> d0,
                                             done |-> e, vals |-> f, out |-> g]
      BY StateIs
    <3>2. t = [n |-> n, m |-> m0, items |-> l, seen |-> d0, done |-> e, vals |-> f, out |-> g]
      BY <3>0, <3>1
    <3> QED
      BY <3>2 DEF IsState
  <2>9. r.arm = <<>> /\ GoodPush(r.push) /\ \A S : Waits(o, s, S) => Goes(o, r, S)
    BY <1>1, <2>6, <2>7, <2>8 DEF Plain, Goes
  <2>10. \A S : Gone(S, i) = S
    BY <1>2, <1>4 DEF Gone
  <2>11. LET q == Does(s, to_all(OnError)) IN
         q.arm = <<>> /\ GoodPush(q.push) /\ \A S : Goes(o, q, S)
    <3> HIDE DEF to_all
    <3> QED
      BY <2>2, DoesIs DEF Goes, Plain
  <2>12. LET q == Quietly(s) IN
         q.arm = <<>> /\ GoodPush(q.push) /\ \A S : Waits(o, s, S) => Goes(o, q, S)
    BY QuietlyIs, QuietlyGoes DEF Plain
  <2> HIDE DEF to_all, found, key, fails
  <2> QED
    BY <2>1, <2>9, <2>10, <2>11, <2>12
<1>5. CASE i.s > 1
  <2> DEFINE l == [s.items EXCEPT ![i.s - 1] = 0]
             t == [s EXCEPT !.items = l]
             p == ToWindows(Known(s.items[i.s - 1]), OnCompleted)
             d == Does(t, p)
             r == [d EXCEPT !.off = {i.s}]
  <2>1. group_by(o, s, i) = r
    BY <1>2, <1>5 DEF group_by
  <2>2. GoodPush(p)
    BY GroupList, WindowsPush DEF OnCompleted, Signal
  <2>3. IsState(s) => IsState(t)
    <3> HIDE DEF l
    <3> QED
      BY DEF IsState
  <2> HIDE DEF t, p
  <2>4. Plain(d, t)
    BY <2>2, DoesIs
  <2>5. r.st = d.st /\ r.on = d.on /\ r.off = {i.s} /\ r.arm = d.arm /\ r.push = d.push
    BY DEF Does
  <2> HIDE DEF d, r
  <2>6. \A S : 1 \in S => 1 \in (Gone(S, i) \ r.off) \cup r.on
    BY <1>5, <2>5 DEF Gone
  <2> QED
    BY <1>1, <2>1, <2>3, <2>4, <2>5, <2>6 DEF Plain, Goes
<1>6. CASE ~(i.s > 1) /\ ~(i.k = "next" /\ i.s = 1)
  <2> DEFINE d == Does(s, to_all(i))
             r == [d EXCEPT !.off = {2, 3}]
  <2>1. group_by(o, s, i) = r
    BY <1>2, <1>6 DEF group_by
  <2>2. GoodPush(to_all(i)) /\ (Terminal(i) => EndsOutput(to_all(i)))
    BY <1>2, <1>3
  <2> HIDE DEF to_all
  <2>3. Plain(d, s) /\ d.push = to_all(i)
    BY <2>2, DoesIs
  <2>4. r.st = d.st /\ r.on = d.on /\ r.off = {2, 3} /\ r.arm = d.arm /\ r.push = d.push
    BY DEF Does
  <2> HIDE DEF d, r
  <2>5. \A S : 1 \in S /\ ~Terminal(i) => 1 \in (Gone(S, i) \ r.off) \cup r.on
    BY <2>3, <2>4 DEF Gone, Plain
  <2> QED
    BY <1>1, <2>1, <2>2, <2>3, <2>4, <2>5 DEF Plain, Goes
<1> QED
  BY <1>4, <1>5, <1>6

-----------------------------------------------------------------------------
(* What an operator does when it is subscribed.                               *)
IsNew(o, s) == /\ IsState(s) /\ s.n = o.n /\ s.m = 0 /\ s.items = <<>> /\ s.seen = {}
               /\ ~s.done /\ s.done \in BOOLEAN

LEMMA SubscribingGoes ==
  ASSUME NEW o, NEW s, NEW S, Waits(o, s, S)
  PROVE  Goes(o, Subscribing(s, S), {})
<1>1. Waits(o, s, ({} \ {}) \cup S)
  <2>1. ({} \ {}) \cup S = S
    OBVIOUS
  <2> QED
    BY <2>1
<1> QED
  BY <1>1, SubscribingIs DEF Goes

\* The operators that begin by joining source 1.
Starters == Unary \cup {"defer", "scope", "start_with", "retry", "repeat"}

LEMMA NewWaits ==
  ASSUME NEW o, o.n \in Nat, o.name \in Starters \ {"window"}, NEW s, IsNew(o, s)
  PROVE  Waits(o, s, {1})
<1>1. IsState(s) /\ s.m \in Nat /\ s.m <= o.n /\ ~s.done
  BY DEF IsNew
<1>2. IsList(s.items)
  <2>1. s.items \in Seq({})
    BY DEF IsNew
  <2> QED
    BY <2>1 DEF IsList
<1> QED
  BY <1>1, <1>2 DEF Waits, Starters, Unary

LEMMA UnaryStarts ==
  ASSUME NEW o, o.n \in Nat, o.name \in Starters \ {"window"}, NEW s, IsNew(o, s),
         NEW i, i.k = "subscribe"
  PROVE  /\ Goes(o, map(o, s, i), {}) /\ Goes(o, filter(o, s, i), {})
         /\ Goes(o, scan(o, s, i), {}) /\ Goes(o, take(o, s, i), {})
         /\ Goes(o, skip(o, s, i), {}) /\ Goes(o, take_last(o, s, i), {})
         /\ Goes(o, skip_last(o, s, i), {}) /\ Goes(o, take_while(o, s, i), {})
         /\ Goes(o, skip_while(o, s, i), {}) /\ Goes(o, distinct(o, s, i), {})
         /\ Goes(o, distinct_until_changed(o, s, i), {}) /\ Goes(o, element_at(o, s, i), {})
         /\ Goes(o, pairwise(o, s, i), {}) /\ Goes(o, ignore_elements(o, s, i), {})
         /\ Goes(o, tap(o, s, i), {}) /\ Goes(o, Forward(s, i), {})
         /\ Goes(o, all(o, s, i), {}) /\ Goes(o, is_empty(o, s, i), {})
         /\ Goes(o, any(o, s, i), {}) /\ Goes(o, buffer_count(o, s, i), {})
         /\ Goes(o, reduce(o, s, i), {}) /\ Goes(o, first(o, s, i), {})
         /\ Goes(o, defer(o, s, i), {})
<1>1. Goes(o, Subscribing(s, {1}), {})
  BY NewWaits, SubscribingGoes
<1>2. Goes(o, Forward(s, i), {})
  BY <1>1, ForwardSubscribes
<1>3. ASSUME NEW r PROVE Goes(o, OnlyNext(s, i, r), {}) /\ Goes(o, Guarded(s, i, r), {})
  BY <1>2 DEF OnlyNext, Guarded
<1> DEFINE F(r) == r = Forward(s, i)
<1>4. F(take_last(o, s, i)) /\ F(element_at(o, s, i)) /\ F(tap(o, s, i)) /\ F(all(o, s, i))
  BY DEF take_last, element_at, tap, all
<1>5. F(is_empty(o, s, i)) /\ F(any(o, s, i)) /\ F(buffer_count(o, s, i))
  BY <1>4 DEF is_empty, any, buffer_count
<1>6. F(reduce(o, s, i)) /\ F(first(o, s, i))
  BY DEF reduce, first
<1>7. Goes(o, defer(o, s, i), {})
  BY <1>2, EndGoes DEF defer
<1> QED
  BY <1>2, <1>3, <1>4, <1>5, <1>6, <1>7
     DEF map, filter, scan, take, skip, skip_last, take_while, skip_while, distinct,
         distinct_until_changed, pairwise, ignore_elements

LEMMA ScopeStarts ==
  ASSUME NEW o, o.n \in Nat, o.name = "scope", NEW s, IsNew(o, s), NEW i, i.k = "subscribe"
  PROVE  Goes(o, scope(o, s, i), {})
<1>1. Waits(o, s, {1})
  BY NewWaits DEF Starters
<1>2. ASSUME NEW x PROVE LET t == [s EXCEPT !.done = x] IN
        Goes(o, Fails(t), {}) /\ Goes(o, Forward(t, i), {})
  <2> DEFINE t == [s EXCEPT !.done = x]
  <2>1. IsState(t)
    BY DEF IsNew, IsState
  <2> HIDE DEF t
  <2>2. Waits(o, t, {1})
    BY <2>1, SimpleWaits DEF Simple
  <2>3. Goes(o, Forward(t, i), {})
    BY <2>2, SubscribingGoes, ForwardSubscribes
  <2> QED
    BY <2>3, EndGoes DEF t
<1> DEFINE made == [s EXCEPT !.done = TRUE]
<1>3. Goes(o, Fails(made), {}) /\ Goes(o, Forward(made, i), {})
  BY <1>2, Zenon
<1>4. scope(o, s, i) \in {Fails(s), Fails(made), Forward(made, i)}
  <2>1. scope(o, s, i) = IF o.m = 1 THEN Fails(s) ELSE IF o.m = 2 THEN Fails(made) ELSE Forward(made, i)
    BY DEF scope
  <2> QED
    BY <2>1
<1> HIDE DEF made
<1> QED
  BY <1>3, <1>4, EndGoes

LEMMA WindowStarts ==
  ASSUME NEW o, o.n \in Nat \ {0}, o.m \in Nat \ {0}, o.name = "window", NEW s, IsNew(o, s),
         NEW i, i.k = "subscribe"
  PROVE  Goes(o, window(o, s, i), {})
<1> DEFINE one == <<1>>
           n == 1
           t == [s EXCEPT !.n = n, !.items = one]
           d == Does(t, <<Open(1)>>)
           r == [d EXCEPT !.on = {1}]
<1>1. window(o, s, i) = r
  BY DEF window
<1>2. t = WithNItems(s, n, one)
  BY DEF WithNItems
<1>3. IsList(one) /\ Len(one) = 1
  <2>1. one \in Seq({1}) /\ Len(one) = 1
    OBVIOUS
  <2> QED
    BY <2>1 DEF IsList
<1> HIDE DEF t, one, n
<1>4. IsState(t) /\ t.n = n /\ t.m = s.m /\ t.items = one
  BY <1>2, NAndItems DEF IsNew
<1>5. Opened(o, t)
  <2>1. t.n = 1 /\ t.m = 0
    BY <1>4 DEF n, IsNew
  <2>2. t.n - Len(t.items) = 0
    BY <1>3, <1>4, <2>1
  <2> DEFINE closed == t.n - Len(t.items)
  <2>3. closed = 0 /\ t.n * o.m = o.m /\ closed * o.m = 0
    <3>1. 0 * o.m = 0 /\ 1 * o.m = o.m
      OBVIOUS
    <3>2. closed = 0
      BY <2>2
    <3> HIDE DEF closed
    <3> QED
      BY <2>1, <3>1, <3>2, Zenon
  <2> HIDE DEF closed
  <2>4. /\ t.n * o.m - o.m <= t.m /\ t.m < t.n * o.m /\ closed \in Nat
        /\ t.m < closed * o.m + o.n
    BY <2>1, <2>3
  <2>5. t.n \in Nat /\ t.m \in Nat /\ IsList(t.items)
    BY <1>3, <1>4, <2>1
  <2> QED
    BY <2>3, <2>4, <2>5 DEF Opened, closed
<1>6. Waits(o, t, {1})
  BY <1>4, <1>5 DEF Waits, FromFirst, Unary
<1>7. Plain(d, t)
  <2>1. GoodPush(<<Open(1)>>)
    BY OnePush DEF Open, Signal
  <2> QED
    BY <2>1, DoesIs
<1>8. r.st = d.st /\ r.on = {1} /\ r.off = d.off /\ r.arm = d.arm /\ r.push = d.push
  BY DEF Does
<1> HIDE DEF d, r
<1>9. ({} \ r.off) \cup r.on = {1}
  BY <1>8
<1> QED
  BY <1>1, <1>6, <1>7, <1>8, <1>9 DEF Goes, Plain

LEMMA AgainStarts ==
  ASSUME NEW o, o.n \in Nat, o.name \in {"start_with", "retry", "repeat"}, NEW s, IsNew(o, s),
         NEW i, i.k = "subscribe"
  PROVE  /\ Goes(o, start_with(o, s, i), {}) /\ Goes(o, retry(o, s, i), {})
         /\ Goes(o, repeat(o, s, i), {})
<1>1. Waits(o, s, {1})
  BY NewWaits DEF Starters
<1>2. Goes(o, Attempts(o, s), {})
  BY <1>1, SubscribingGoes, EndGoes DEF Attempts
<1>3. Goes(o, start_with(o, s, i), {})
  <2> DEFINE p == <<OnNext(<<o.n>>), OnNext(<<o.m>>)>>
             d == Does(s, p)
             r == [d EXCEPT !.on = {1}]
  <2>1. start_with(o, s, i) = r
    BY DEF start_with
  <2>2. GoodPush(p)
    BY TwoPush DEF OnNext, Signal
  <2> HIDE DEF p
  <2>3. Plain(d, s)
    BY <2>2, DoesIs
  <2>4. r.st = d.st /\ r.on = {1} /\ r.off = d.off /\ r.arm = d.arm /\ r.push = d.push
    BY DEF Does
  <2> HIDE DEF d, r
  <2>5. ({} \ r.off) \cup r.on = {1}
    BY <2>3, <2>4
  <2> QED
    BY <1>1, <2>1, <2>3, <2>4, <2>5 DEF Goes, Plain
<1> QED
  BY <1>2, <1>3 DEF retry, repeat

LEMMA CreateStarts ==
  ASSUME NEW o, o.n \in Nat, o.m \in 0 .. 2, o.name = "create", NEW s, IsNew(o, s), NEW i
  PROVE  Goes(o, create(o, s, i), {})
<1> DEFINE p == [j \in 1 .. o.n |-> OnNext(<<j>>)]
           q == CASE o.m = 0 -> <<OnCompleted>> [] o.m = 1 -> <<OnError>> [] OTHER -> <<>>
<1>1. create(o, s, i) = Does(s, p \o q)
  BY DEF create
<1>2. GoodPush(p)
  <2>1. DOMAIN p = 1 .. o.n /\ p = [j \in 1 .. o.n |-> p[j]] /\ \A j \in 1 .. o.n : p[j].k # "open"
    BY DEF OnNext, Signal
  <2> HIDE DEF p
  <2> QED
    BY <2>1, MappedPush
<1>3. /\ GoodPush(<<OnCompleted>>) /\ EndsOutput(<<OnCompleted>>)
      /\ GoodPush(<<OnError>>) /\ EndsOutput(<<OnError>>)
  BY OnePush DEF OnCompleted, OnError, Signal, Terminal
<1>4. q = IF o.m = 0 THEN <<OnCompleted>> ELSE IF o.m = 1 THEN <<OnError>> ELSE <<>>
  OBVIOUS
<1> HIDE DEF p, q
<1>5. GoodPush(q) /\ (o.m \in {0, 1} => EndsOutput(q))
  BY <1>3, <1>4, NoPush
<1>6. GoodPush(p \o q) /\ (o.m \in {0, 1} => EndsOutput(p \o q))
  BY <1>2, <1>5, JoinedPush
<1>7. o.m \notin {0, 1} => Waits(o, s, {})
  BY DEF Waits, FromFirst, Unary, IsNew
<1>8. ({} \ {}) \cup {} = {}
  OBVIOUS
<1> DEFINE w == p \o q
           d == Does(s, w)
<1> HIDE DEF w
<1>9. Plain(d, s) /\ d.push = w
  BY <1>6, DoesIs DEF w
<1> HIDE DEF d
<1>10. EndsOutput(d.push) \/ Waits(o, d.st, ({} \ d.off) \cup d.on)
  BY <1>6, <1>7, <1>8, <1>9 DEF Plain, w
<1> QED
  BY <1>1, <1>9, <1>10 DEF Goes, Plain, d, w

LEMMA HigherOrderStarts ==
  ASSUME NEW o, o.name \in HigherOrder, NEW s, IsNew(o, s), NEW i, i.k = "subscribe"
  PROVE  /\ o.name \in HigherOrder \ {"concat", "concat_map"} => Goes(o, merge(o, s, i), {})
         /\ o.name \in {"concat", "concat_map"} =>
              Goes(o, concat(o, s, i), {}) /\ Goes(o, concat_map(o, s, i), {})
<1>1. o.name \in HigherOrder \ {"concat", "concat_map"} => Goes(o, merge(o, s, i), {})
  <2> SUFFICES ASSUME o.name \in HigherOrder \ {"concat", "concat_map"}
               PROVE  Goes(o, merge(o, s, i), {})
    OBVIOUS
  <2> DEFINE n == 0
             m == 1
             t == [s EXCEPT !.m = m, !.n = n]
  <2>1. merge(o, s, i) = Subscribing(t, {1})
    BY DEF merge
  <2>2. IsState(t) /\ t.n = 0 /\ t.m = 1 /\ t.done = s.done
    <3>1. t = WithNM(s, n, m)
      BY DEF WithNM
    <3> HIDE DEF t, n, m
    <3>2. IsState(t) /\ t.n = n /\ t.m = m /\ t.done = s.done
      BY <3>1, NAndM DEF IsNew
    <3> QED
      BY <3>2 DEF n, m
  <2> HIDE DEF t
  <2>3. ~t.done /\ t.done \in BOOLEAN
    BY <2>2 DEF IsNew
  <2>4. Cardinality({1}) = 1
    BY FS_Singleton
  <2>5. CASE o.name \in {"merge", "merge_delay_error", "flat_map"}
    <3>1. Counted(t, {1})
      BY <2>2, <2>4 DEF Counted
    <3> QED
      BY <2>1, <2>2, <2>5, <3>1, CountedWaits, SubscribingGoes
  <2>6. CASE o.name = "amb"
    <3>1. Racing(t, {1})
      BY <2>2 DEF Racing
    <3> QED
      BY <2>1, <2>2, <2>6, <3>1, AmbWaits, SubscribingGoes
  <2>7. CASE o.name = "switch_on_next"
    <3>1. Latched(t, {1})
      BY <2>2, <2>3 DEF Latched
    <3> QED
      BY <2>1, <2>2, <2>7, <3>1, SwitchWaits, SubscribingGoes
  <2> QED
    BY <2>5, <2>6, <2>7 DEF HigherOrder
<1>2. ASSUME o.name \in {"concat", "concat_map"}
      PROVE  Goes(o, concat(o, s, i), {}) /\ Goes(o, concat_map(o, s, i), {})
  <2> DEFINE n == 0
             m == 0
             t == [s EXCEPT !.m = m, !.n = n]
  <2>1. concat(o, s, i) = Subscribing(t, {1})
    BY DEF concat
  <2>2. IsState(t) /\ t.n = 0 /\ t.m = 0 /\ t.done = s.done /\ t.items = <<>>
    <3>1. t = WithNM(s, n, m)
      BY DEF WithNM
    <3> HIDE DEF t, n, m
    <3>2. IsState(t) /\ t.n = n /\ t.m = m /\ t.done = s.done /\ t.items = s.items
      BY <3>1, NAndM DEF IsNew
    <3> QED
      BY <3>2 DEF n, m, IsNew
  <2> HIDE DEF t
  <2>3. InTurn(t, {1})
    BY <2>2 DEF InTurn, IsNew
  <2>4. Goes(o, concat(o, s, i), {})
    BY <1>2, <2>1, <2>2, <2>3, ConcatWaits, SubscribingGoes
  <2> DEFINE known == IF i.k = "next" /\ Outer(i)
                      THEN [s EXCEPT !.vals = Append(s.vals, Item(i))] ELSE s
             r     == concat(o, known, i)
             turn  == {x - 1 : x \in r.on \ {1}}
  <2>5. concat_map(o, s, i) = IF \E j \in turn : Throws(known.vals[j]) THEN Fails(r.st) ELSE r
    BY DEF concat_map, known
  <2>6. known = s
    OBVIOUS
  <2> HIDE DEF known
  <2>7. r.on = {1}
    BY <2>1, <2>6, SubscribingIs
  <2> HIDE DEF r
  <2>8. turn = {}
    BY <2>7
  <2> HIDE DEF turn
  <2>9. concat_map(o, s, i) = r
    BY <2>5, <2>8
  <2> QED
    BY <2>4, <2>6, <2>9 DEF r
<1> QED
  BY <1>1, <1>2

LEMMA PairingStarts ==
  ASSUME NEW o, o.name \in Pairing, NEW s, IsNew(o, s)
  PROVE  Goes(o, SideBySide(s), {})
<1> DEFINE l == <<<<>>, <<>>>>
           t == [s EXCEPT !.items = l]
<1>1. SideBySide(s) = Subscribing(t, Both)
  BY DEF SideBySide
<1> HIDE DEF l
<1>2. IsState(t) /\ t.seen = {}
  BY DEF IsState, IsNew
<1> HIDE DEF t
<1>3. {} # Both /\ {} \subseteq Both /\ Both = Both \ {}
  BY DEF Both
<1>4. Waits(o, t, Both)
  BY <1>2, <1>3, PairingWaits
<1> QED
  BY <1>1, <1>4, SubscribingGoes

LEMMA UntilStarts ==
  ASSUME NEW o, o.name \in {"take_until", "skip_until"}, NEW s, IsNew(o, s),
         NEW i, i.k = "subscribe", i.s = 1
  PROVE  Goes(o, take_until(o, s, i), {}) /\ Goes(o, skip_until(o, s, i), {})
<1> DEFINE t == [s EXCEPT !.n = Taking]
<1>1. take_until(o, s, i) = Subscribing(t, Both) /\ skip_until(o, s, i) = Subscribing(t, Both)
  BY DEF take_until, skip_until
<1>2. IsState(t) /\ t.n = Taking
  BY DEF IsState, IsNew
<1> HIDE DEF t
<1>3. Waits(o, t, Both)
  BY <1>2 DEF Waits, FromFirst, Unary, Both
<1> QED
  BY <1>1, <1>3, SubscribingGoes

LEMMA ReserveStarts ==
  ASSUME NEW o, o.name \in Reserve, NEW s, IsNew(o, s), NEW i, i.k = "subscribe"
  PROVE  Goes(o, on_error_resume_next(o, s, i), {}) /\ Goes(o, switch_if_empty(o, s, i), {})
<1>1. Waits(o, s, {1})
  BY DEF Waits, FromFirst, Unary, Both, Reserve, IsNew
<1>2. on_error_resume_next(o, s, i) = Subscribing(s, {1}) /\ switch_if_empty(o, s, i) = Subscribing(s, {1})
  BY DEF on_error_resume_next, switch_if_empty, Forward
<1> QED
  BY <1>1, <1>2, SubscribingGoes

LEMMA GroupByStarts ==
  ASSUME NEW o, o.name = "group_by", NEW s, IsNew(o, s), NEW i, i.k = "subscribe", i.s = 1
  PROVE  Goes(o, group_by(o, s, i), {}) /\ group_by(o, s, i).on = {1}
<1> DEFINE l == <<0, 0>>
           n == 0
           t == [s EXCEPT !.items = l, !.n = n]
<1>1. group_by(o, s, i) = Subscribing(t, {1})
  BY DEF group_by
<1>2. t = WithNItems(s, n, l)
  BY Zenon DEF WithNItems
<1> HIDE DEF t, l, n
<1>3. IsState(t)
  <2>1. IsState(s)
    BY DEF IsNew
  <2> QED
    BY <1>2, <2>1, NAndItems
<1>4. Waits(o, t, {1})
  <2>1. 1 \in {1}
    OBVIOUS
  <2> QED
    BY <1>3, <2>1, SMTT(30) DEF Waits, FromFirst, Unary
<1> QED
  BY <1>1, <1>4, SubscribingGoes, SubscribingIs

-----------------------------------------------------------------------------
(* Which of its operators an operator is.                                     *)
LEMMA DirectlyIs ==
  ASSUME NEW o, NEW s, NEW i
  PROVE  /\ o.name = "map" => Directly(o, s, i) = map(o, s, i)
         /\ o.name = "filter" => Directly(o, s, i) = filter(o, s, i)
         /\ o.name = "scan" => Directly(o, s, i) = scan(o, s, i)
         /\ o.name = "take" => Directly(o, s, i) = take(o, s, i)
         /\ o.name = "skip" => Directly(o, s, i) = skip(o, s, i)
         /\ o.name = "take_last" => Directly(o, s, i) = take_last(o, s, i)
         /\ o.name = "skip_last" => Directly(o, s, i) = skip_last(o, s, i)
         /\ o.name = "take_while" => Directly(o, s, i) = take_while(o, s, i)
         /\ o.name = "skip_while" => Directly(o, s, i) = skip_while(o, s, i)
         /\ o.name = "distinct" => Directly(o, s, i) = distinct(o, s, i)
         /\ o.name = "distinct_until_changed" => Directly(o, s, i) = distinct_until_changed(o, s, i)
         /\ o.name = "element_at" => Directly(o, s, i) = element_at(o, s, i)
         /\ o.name = "pairwise" => Directly(o, s, i) = pairwise(o, s, i)
         /\ o.name = "ignore_elements" => Directly(o, s, i) = ignore_elements(o, s, i)
         /\ o.name = "tap" => Directly(o, s, i) = tap(o, s, i)
         /\ o.name = "finally" => Directly(o, s, i) = Forward(s, i)
         /\ o.name = "all" => Directly(o, s, i) = all(o, s, i)
         /\ o.name = "is_empty" => Directly(o, s, i) = is_empty(o, s, i)
         /\ o.name = "any" => Directly(o, s, i) = any(o, s, i)
         /\ o.name = "buffer_count" => Directly(o, s, i) = buffer_count(o, s, i)
         /\ o.name = "window" => Directly(o, s, i) = window(o, s, i)
         /\ o.name \in {"sum", "max", "min", "last", "average"} => Directly(o, s, i) = reduce(o, s, i)
         /\ o.name = "first" => Directly(o, s, i) = first(o, s, i)
         /\ o.name = "create" => Directly(o, s, i) = create(o, s, i)
         /\ o.name = "defer" => Directly(o, s, i) = defer(o, s, i)
         /\ o.name = "scope" => Directly(o, s, i) = scope(o, s, i)
         /\ o.name = "group_by" => Directly(o, s, i) = group_by(o, s, i)
         /\ o.name = "merge" => Directly(o, s, i) = merge(o, s, i)
         /\ o.name = "merge_delay_error" => Directly(o, s, i) = merge_delay_error(o, s, i)
         /\ o.name = "flat_map" => Directly(o, s, i) = flat_map(o, s, i)
         /\ o.name = "concat" => Directly(o, s, i) = concat(o, s, i)
         /\ o.name = "concat_map" => Directly(o, s, i) = concat_map(o, s, i)
         /\ o.name = "amb" => Directly(o, s, i) = amb(o, s, i)
         /\ o.name = "switch_on_next" => Directly(o, s, i) = switch_on_next(o, s, i)
         /\ o.name = "zip" => Directly(o, s, i) = zip(o, s, i)
         /\ o.name = "combine_latest" => Directly(o, s, i) = combine_latest(o, s, i)
         /\ o.name = "with_latest_from" => Directly(o, s, i) = with_latest_from(o, s, i)
         /\ o.name = "take_until" => Directly(o, s, i) = take_until(o, s, i)
         /\ o.name = "skip_until" => Directly(o, s, i) = skip_until(o, s, i)
         /\ o.name = "sequence_equal" => Directly(o, s, i) = sequence_equal(o, s, i)
         /\ o.name = "on_error_resume_next" => Directly(o, s, i) = on_error_resume_next(o, s, i)
         /\ o.name = "switch_if_empty" => Directly(o, s, i) = switch_if_empty(o, s, i)
         /\ o.name = "start_with" => Directly(o, s, i) = start_with(o, s, i)
         /\ o.name = "retry" => Directly(o, s, i) = retry(o, s, i)
         /\ o.name = "repeat" => Directly(o, s, i) = repeat(o, s, i)
BY ZenonT(60) DEF Directly

\* The catalogue's promise about one operator.
IsOperator(o) ==
  /\ {o.p, o.n, o.m, o.quit} \subseteq Nat
  /\ o.name \in IF o.p = 0 THEN Prompt ELSE Paced
  /\ o.name = "create" => o.m \in 0 .. 2
  /\ o.name \in {"buffer_count", "window"} => o.m # 0
  /\ o.name = "window" => o.n # 0

LEMMA DirectlyGoes ==
  ASSUME NEW o, IsOperator(o), o.p = 0, NEW s, NEW S, Waits(o, s, S),
         NEW i, IsCall(i), i.s \in S, o.name = "group_by" => i.s \in Nat
  PROVE  Goes(o, Directly(o, s, i), Gone(S, i))
<1>1. /\ o.n \in Nat /\ o.m \in Nat /\ o.name \in Prompt
      /\ o.name = "window" => o.n \in Nat \ {0} /\ o.m \in Nat \ {0}
  BY DEF IsOperator
<1>2. o.name \in FromFirst => i.s = 1
  BY DEF Waits
<1>3. CASE o.name \in Simple
  <2>1. i.s = 1
    BY <1>2, <1>3 DEF Simple, FromFirst, Unary
  <2> USE <1>3, <2>1, ValueStep, TakeStep, DirectlyIs
  <2>2. o.name \in {"map", "filter", "scan", "skip", "skip_last", "take_while", "skip_while"} =>
          Goes(o, Directly(o, s, i), Gone(S, i))
    OBVIOUS
  <2>3. o.name \in {"distinct", "distinct_until_changed", "pairwise", "ignore_elements",
                     "finally", "defer", "scope"} =>
          Goes(o, Directly(o, s, i), Gone(S, i))
    OBVIOUS
  <2>4. o.name \in {"take", "sum", "max", "min", "last", "average", "first", "tap"} =>
          Goes(o, Directly(o, s, i), Gone(S, i))
    OBVIOUS
  <2> QED
    BY <2>2, <2>3, <2>4 DEF Simple
<1>4. CASE o.name \in {"element_at", "all", "is_empty", "any", "take_last", "buffer_count", "window"}
  <2>1. i.s = 1
    BY <1>2, <1>4 DEF FromFirst, Unary
  <2> QED
    BY <1>1, <1>4, <2>1, ElementAtStep, PredicateStep, TakeLastStep, BufferCountStep, WindowStep,
       DirectlyIs
<1>5. CASE o.name \in {"start_with", "retry", "repeat"}
  <2>1. i.s = 1
    BY <1>2, <1>5 DEF FromFirst, Unary
  <2> QED
    BY <1>5, <2>1, AgainStep, DirectlyIs
<1>6. CASE o.name \in {"merge", "merge_delay_error", "flat_map"}
  BY <1>6, MergeStep, MergeDelayErrorStep, FlatMapStep, DirectlyIs
<1>7. CASE o.name \in {"concat", "concat_map"}
  BY <1>7, ConcatStep, ConcatMapStep, DirectlyIs
<1>8. CASE o.name \in {"amb", "switch_on_next"}
  <2>1. o.name = "amb" => i.s \in Nat \ {0}
    BY AmbWaits DEF Racing
  <2> QED
    BY <1>8, <2>1, AmbStep, SwitchStep, DirectlyIs
<1>9. CASE o.name \in Pairing
  <2>1. /\ Goes(o, zip(o, s, i), Gone(S, i)) /\ Goes(o, sequence_equal(o, s, i), Gone(S, i))
        /\ Goes(o, combine_latest(o, s, i), Gone(S, i))
        /\ Goes(o, with_latest_from(o, s, i), Gone(S, i))
    BY <1>9, ZipStep, SequenceEqualStep, LatestStep DEF combine_latest, with_latest_from
  <2> QED
    BY <1>9, <2>1, DirectlyIs DEF Pairing
<1>10. CASE o.name \in {"take_until", "skip_until"}
  BY <1>10, TakeUntilStep, SkipUntilStep, DirectlyIs
<1>11. CASE o.name \in Reserve
  <2>1. /\ Goes(o, on_error_resume_next(o, s, i), Gone(S, i))
        /\ Goes(o, switch_if_empty(o, s, i), Gone(S, i))
    BY <1>11, ReserveStep
  <2> QED
    BY <1>11, <2>1, DirectlyIs DEF Reserve
<1>12. CASE o.name = "group_by"
  <2>1. Directly(o, s, i) = group_by(o, s, i) /\ i.s \in Nat
    BY <1>12, DirectlyIs
  <2> QED
    BY <1>12, <2>1, GroupByStep
<1>13. o.name # "create"
  BY DEF Waits
<1> QED
  BY <1>1, <1>3, <1>4, <1>5, <1>6, <1>7, <1>8, <1>9, <1>10, <1>11, <1>12, <1>13
     DEF Prompt, Unary, Created, HigherOrder, TwoSources, Simple, Pairing, Reserve

LEMMA DirectlyStarts ==
  ASSUME NEW o, IsOperator(o), o.p = 0, NEW s, IsNew(o, s),
         NEW i, i.k = "subscribe", i.s = 1
  PROVE  Goes(o, Directly(o, s, i), {})
<1>1. /\ o.n \in Nat /\ o.m \in Nat /\ o.name \in Prompt
      /\ o.name = "window" => o.n \in Nat \ {0} /\ o.m \in Nat \ {0}
      /\ o.name = "create" => o.m \in 0 .. 2
  BY DEF IsOperator
<1>2. CASE o.name \in Starters \ {"window", "scope", "start_with", "retry", "repeat"}
  <2> USE <1>1, <1>2, UnaryStarts, DirectlyIs
  <2>1. o.name \in {"map", "filter", "scan", "take", "skip", "take_last", "skip_last"} =>
          Goes(o, Directly(o, s, i), {})
    OBVIOUS
  <2>2. o.name \in {"take_while", "skip_while", "distinct", "distinct_until_changed",
                     "element_at", "pairwise", "ignore_elements"} =>
          Goes(o, Directly(o, s, i), {})
    OBVIOUS
  <2>3. o.name \in {"tap", "finally", "all", "is_empty", "any", "buffer_count", "sum"} =>
          Goes(o, Directly(o, s, i), {})
    OBVIOUS
  <2>4. o.name \in {"max", "min", "last", "average", "first", "defer"} =>
          Goes(o, Directly(o, s, i), {})
    OBVIOUS
  <2> QED
    BY <2>1, <2>2, <2>3, <2>4 DEF Starters, Unary
<1>3. CASE o.name \in {"window", "scope", "start_with", "retry", "repeat"}
  BY <1>1, <1>3, WindowStarts, ScopeStarts, AgainStarts, DirectlyIs
<1>4. CASE o.name = "create"
  BY <1>1, <1>4, CreateStarts, DirectlyIs
<1>5. CASE o.name \in HigherOrder \ {"concat", "concat_map"}
  <2>1. Goes(o, merge(o, s, i), {})
    BY <1>5, HigherOrderStarts
  <2>2. /\ merge_delay_error(o, s, i) = merge(o, s, i) /\ flat_map(o, s, i) = merge(o, s, i)
        /\ amb(o, s, i) = merge(o, s, i) /\ switch_on_next(o, s, i) = merge(o, s, i)
    BY DEF merge_delay_error, flat_map, amb, switch_on_next
  <2> QED
    BY <1>5, <2>1, <2>2, DirectlyIs DEF HigherOrder
<1>6. CASE o.name \in {"concat", "concat_map"}
  <2>1. o.name \in HigherOrder
    BY <1>6 DEF HigherOrder
  <2> QED
    BY <1>6, <2>1, HigherOrderStarts, DirectlyIs
<1>7. CASE o.name \in Pairing
  <2>1. Goes(o, SideBySide(s), {})
    BY <1>7, PairingStarts
  <2>2. /\ zip(o, s, i) = SideBySide(s) /\ combine_latest(o, s, i) = SideBySide(s)
        /\ with_latest_from(o, s, i) = SideBySide(s) /\ sequence_equal(o, s, i) = SideBySide(s)
    BY DEF zip, combine_latest, with_latest_from, Latest, sequence_equal
  <2> QED
    BY <1>7, <2>1, <2>2, DirectlyIs DEF Pairing
<1>8. CASE o.name \in {"take_until", "skip_until"}
  BY <1>8, UntilStarts, DirectlyIs
<1>9. CASE o.name \in Reserve
  <2>1. Goes(o, on_error_resume_next(o, s, i), {}) /\ Goes(o, switch_if_empty(o, s, i), {})
    BY <1>9, ReserveStarts
  <2> QED
    BY <1>9, <2>1, DirectlyIs DEF Reserve
<1>10. CASE o.name = "group_by"
  BY <1>10, GroupByStarts, DirectlyIs
<1> QED
  BY <1>1, <1>2, <1>3, <1>4, <1>5, <1>6, <1>7, <1>8, <1>9, <1>10
     DEF Prompt, Unary, Created, HigherOrder, TwoSources, Starters, Pairing, Reserve

-----------------------------------------------------------------------------
(* The invariant: an operator without a period has no work on a worker; as    *)
(* long as its output is observed, somebody who can end it is subscribed; and *)
(* afterwards nobody is, but for the source and the durations of group_by(),  *)
(* which hang on the groups too.                                              *)
Attended(o, s, q, S, channels) ==
  /\ q = <<>>
  /\ o.name = "group_by" => S \subseteq Nat \ {0}
  /\ 0 \in channels => Waits(o, s, S)
  /\ 0 \notin channels => o.name = "group_by" \/ S = {}

\* The inductive invariant.
SomebodyLeft == op \in Operators /\ (op.p = 0 => Attended(op, st, queue, on, live))

LEMMA OutWaits ==
  ASSUME NEW o, NEW s, NEW S, Waits(o, s, S), NEW x
  PROVE  Waits(o, [s EXCEPT !.out = x], S)
<1> DEFINE t == [s EXCEPT !.out = x]
<1>1. /\ IsState(t) /\ t.n = s.n /\ t.m = s.m /\ t.items = s.items /\ t.seen = s.seen
      /\ t.done = s.done
  BY DEF Waits, IsState
<1> HIDE DEF t
<1>2. /\ Counted(s, S) => Counted(t, S)
      /\ InTurn(s, S) => InTurn(t, S)
      /\ Racing(s, S) => Racing(t, S)
      /\ Latched(s, S) => Latched(t, S)
      /\ Opened(o, s) => Opened(o, t)
  BY <1>1 DEF Counted, InTurn, Racing, Latched, Opened
<1>3. Waits(o, t, S)
  BY <1>1, <1>2 DEF Waits
<1> QED
  BY <1>3 DEF t

LEMMA PromptNames ==
  ASSUME NEW o, IsOperator(o), o.p = 0
  PROVE  /\ o.name \notin Relaying /\ o.name \notin Disposing
         /\ o.name # "synchronize" /\ o.name # "observe_on"
BY DEF IsOperator, Prompt, Unary, Created, HigherOrder, TwoSources, Relaying, Disposing

LEMMA OutcomeAttended ==
  ASSUME NEW o, IsOperator(o), o.p = 0, NEW r, NEW t, NEW sources, NEW channels, NEW seen,
         r.arm = <<>>, GoodPush(r.push),
         0 \in channels => EndsOutput(r.push) \/ Waits(o, r.st, (sources \ r.off) \cup r.on),
         0 \notin channels => o.name = "group_by",
         o.name = "group_by" => sources \subseteq Nat \ {0} /\ r.on \subseteq Nat \ {0}
  PROVE  LET c == Outcome(o, r, t, <<>>, sources, channels, seen) IN
         Attended(o, c.st, c.queue, c.on, c.live)
<1> DEFINE broken == \E n \in ToSet(r.push) : n.k = "undefined"
           delivery == Deliver(o.quit, channels, seen, r.push)
           d == IF broken THEN [live |-> {}, out |-> seen \o r.push] ELSE delivery
           lost == 0 \in channels /\ 0 \notin d.live
           armed == EnqueueAll(<<>>, r.arm)
           S == (sources \ r.off) \cup r.on
           on2 == IF broken \/ (Released(o, d.live) /\ ~Lingers(o, r.st)) THEN {} ELSE S
           queue2 == IF broken \/ (lost /\ o.name \notin Disposing) THEN <<>>
                     ELSE IF lost THEN enqueue(armed, Work(t, "dispose", <<>>)) ELSE armed
           c == Outcome(o, r, t, <<>>, sources, channels, seen)
<1>1. c.st = r.st /\ c.queue = queue2 /\ c.on = on2 /\ c.live = d.live
  BY DEF Outcome
<1>2. o.name \notin Disposing /\ ~Lingers(o, r.st)
  BY PromptNames DEF Lingers
<1>3. armed = <<>>
  BY NoWork
<1>4. broken => d.live = {}
  OBVIOUS
<1>5. 0 \in d.live => ~broken /\ 0 \in channels /\ ~EndsOutput(r.push)
  <2>1. 0 \in delivery.live => 0 \in channels /\ ~EndsOutput(r.push)
    BY DeliveryEnds
  <2> HIDE DEF delivery, broken
  <2> QED
    BY <2>1
<1> HIDE DEF broken, d, armed, c
<1>6. queue2 = <<>>
  BY <1>2, <1>3
<1>7. o.name = "group_by" => on2 \subseteq Nat \ {0}
  OBVIOUS
<1>8. ASSUME 0 \in d.live PROVE Waits(o, r.st, on2)
  <2>1. ~Released(o, d.live)
    BY <1>8 DEF Released, Side
  <2>2. on2 = S
    BY <1>5, <1>8, <2>1
  <2> QED
    BY <1>5, <1>8, <2>2
<1>9. 0 \notin d.live => o.name = "group_by" \/ on2 = {}
  BY <1>2 DEF Released
<1> HIDE DEF on2, queue2
<1>10. Attended(o, c.st, c.queue, c.on, c.live)
  BY <1>1, <1>6, <1>7, <1>8, <1>9 DEF Attended
<1> QED
  BY <1>10 DEF c

LEMMA GroupByHears ==
  ASSUME NEW o, o.name = "group_by", NEW s, NEW i, IsCall(i), i.s \in Nat
  PROVE  group_by(o, s, i).on \subseteq Nat \ {0}
<1>1. i.k \in {"next", "error", "completed"} /\ i.k # "subscribe"
  BY DEF IsCall
<1>2. ASSUME NEW t, NEW p, NEW x PROVE
        /\ [Does(t, p) EXCEPT !.off = x].on = {} /\ Does(t, p).on = {} /\ Quietly(t).on = {}
        /\ [Does(t, p) EXCEPT !.on = x].on = x
  BY DEF Does, Quietly
<1>3. CASE i.k = "next" /\ i.s = 1
  <2> DEFINE key   == IF Throws(Item(i)) THEN 1 ELSE Item(i)
             found == s.items[key] # 0
             c     == IF found THEN s.items[key] ELSE s.n + 1
             t     == [s EXCEPT !.items[key] = c, !.n = IF found THEN s.n ELSE s.n + 1]
             to_all(u, n) == ToWindows(Groups(u), n) \o <<[n EXCEPT !.s = 0]>>
             throws(m) == Throws(Item(i)) /\ o.m = m
             fails == throws(0) \/ (throws(1) /\ ~found /\ s.out)
             p     == (IF found THEN <<>> ELSE <<Open(c)>>)
                      \o (IF throws(2) THEN to_all(t, OnError) ELSE ToWindows(<<c>>, i))
             q     == to_all(s, OnError)
             more  == IF found THEN {} ELSE {1 + key}
  <2>1. key \in 1 .. 3
    BY <1>3 DEF IsCall, Item, Throws
  <2>2. group_by(o, s, i) = IF fails THEN Does(s, q)
                            ELSE IF ~found /\ ~s.out THEN Quietly(s)
                            ELSE [Does(t, p) EXCEPT !.on = more]
    BY <1>3 DEF group_by
  <2> HIDE DEF t, p, q, found, key, fails
  <2>3. more \subseteq Nat \ {0}
    BY <2>1
  <2> HIDE DEF more
  <2> QED
    BY <1>2, <2>2, <2>3
<1>4. CASE i.s > 1
  <2> DEFINE t == [s EXCEPT !.items[i.s - 1] = 0]
             p == ToWindows(Known(s.items[i.s - 1]), OnCompleted)
  <2>1. group_by(o, s, i) = [Does(t, p) EXCEPT !.off = {i.s}]
    BY <1>1, <1>4 DEF group_by
  <2> HIDE DEF t, p
  <2> QED
    BY <1>2, <2>1
<1>5. CASE ~(i.s > 1) /\ ~(i.k = "next" /\ i.s = 1)
  <2> DEFINE p == ToWindows(Groups(s), i) \o <<[i EXCEPT !.s = 0]>>
  <2>1. group_by(o, s, i) = [Does(s, p) EXCEPT !.off = {2, 3}]
    BY <1>1, <1>5 DEF group_by
  <2> HIDE DEF p
  <2> QED
    BY <1>2, <2>1
<1> QED
  BY <1>3, <1>4, <1>5

LEMMA IsOperatorOf == \A o \in Operators : IsOperator(o)
BY OperatorsAssumption DEF IsOperator

\* One signal to an operator without a period.
LEMMA SentAttended ==
  ASSUME NEW o \in Operators, o.p = 0, NEW s, NEW S, NEW channels, Attended(o, s, <<>>, S, channels),
         NEW i, IsCall(i), i.s \in S, NEW t, NEW seen
  PROVE  LET c == Call(o, s, i, t, <<>>, Gone(S, i), channels, seen) IN
         Attended(o, c.st, c.queue, c.on, c.live)
<1>1. IsOperator(o)
  BY IsOperatorOf
<1> DEFINE known == [s EXCEPT !.out = 0 \in channels]
           r     == Step(o, known, i, t)
<1>2. Call(o, s, i, t, <<>>, Gone(S, i), channels, seen)
        = Outcome(o, r, t, <<>>, Gone(S, i), channels, seen)
  BY DEF Call
<1>3. r = Directly(o, known, i)
  BY DEF Step
<1>4. 0 \in channels => Waits(o, known, S)
  <2> SUFFICES ASSUME 0 \in channels PROVE Waits(o, known, S)
    OBVIOUS
  <2>1. Waits(o, s, S)
    BY DEF Attended
  <2>2. \A x : Waits(o, [s EXCEPT !.out = x], S)
    BY <2>1, OutWaits
  <2> QED
    BY <2>2, Zenon
<1> HIDE DEF known, r
<1>5. o.name = "group_by" => S \subseteq Nat \ {0} /\ i.s \in Nat
  BY DEF Attended
<1>6. 0 \in channels => Goes(o, r, Gone(S, i))
  BY <1>1, <1>3, <1>4, <1>5, DirectlyGoes
<1>7. o.name = "group_by" => r = group_by(o, known, i)
  BY <1>3, DirectlyIs
<1>8. o.name = "group_by" => r.arm = <<>> /\ GoodPush(r.push) /\ r.on \subseteq Nat \ {0}
  BY <1>5, <1>7, GroupByStep, GroupByHears
<1>9. 0 \notin channels => o.name = "group_by"
  BY DEF Attended
<1>10. o.name = "group_by" => Gone(S, i) \subseteq Nat \ {0}
  BY <1>5 DEF Gone
<1>11. r.arm = <<>> /\ GoodPush(r.push)
  BY <1>6, <1>8, <1>9 DEF Goes
<1>12. 0 \in channels => EndsOutput(r.push) \/ Waits(o, r.st, (Gone(S, i) \ r.off) \cup r.on)
  BY <1>6 DEF Goes
<1> QED
  BY <1>1, <1>2, <1>8, <1>9, <1>10, <1>11, <1>12, OutcomeAttended

LEMMA InitLeavesSomebody == Init => SomebodyLeft
<1> SUFFICES ASSUME Init, op.p = 0 PROVE Attended(op, st, queue, on, live)
  BY DEF SomebodyLeft, Init
<1>1. op \in Operators /\ IsOperator(op)
  BY IsOperatorOf DEF Init
<1> DEFINE known == [Fresh(op) EXCEPT !.out = 0 \in Observed(op)]
           i == Signal(1, "subscribe", <<>>)
           r == Step(op, known, i, 0)
           c == Call(op, Fresh(op), i, 0, <<>>, {}, Observed(op), <<>>)
<1>2. st = c.st /\ on = c.on /\ queue = c.queue /\ live = c.live
  BY DEF Init
<1>3. c = Outcome(op, r, 0, <<>>, {}, Observed(op), <<>>)
  BY DEF Call
<1>4. r = Directly(op, known, i)
  BY DEF Step
<1>5. IsNew(op, known)
  <2>1. ASSUME NEW a, NEW b, NEW c0, NEW d, NEW e, NEW f, NEW g, NEW x, ~e, e \in BOOLEAN,
               a = op.n, b = 0, c0 = <<>>, d = {}
        PROVE  IsNew(op, [[n |-> a, m |-> b, items |-> c0, seen |-> d, done |-> e, vals |-> f,
                           out |-> g] EXCEPT !.out = x])
    <3> DEFINE t == [[n |-> a, m |-> b, items |-> c0, seen |-> d, done |-> e, vals |-> f,
                      out |-> g] EXCEPT !.out = x]
    <3>1. IsState(t) /\ t.n = a /\ t.m = b /\ t.items = c0 /\ t.seen = d /\ t.done = e
      BY DEF IsState
    <3> HIDE DEF t
    <3>2. ~t.done /\ t.done \in BOOLEAN
      BY <2>1, <3>1, Zenon
    <3>3. IsNew(op, t)
      BY <2>1, <3>1, <3>2 DEF IsNew
    <3> QED
      BY <3>3 DEF t
  <2>2. ~FALSE /\ FALSE \in BOOLEAN
    OBVIOUS
  <2>3. ASSUME NEW x PROVE IsNew(op, [Fresh(op) EXCEPT !.out = x])
    BY <2>1, <2>2, Zenon DEF Fresh
  <2> QED
    BY <2>3, Zenon
<1>6. i.k = "subscribe" /\ i.s = 1
  BY DEF Signal
<1> HIDE DEF known, i, r, c
<1>7. Goes(op, r, {})
  BY <1>1, <1>4, <1>5, <1>6, DirectlyStarts
<1>8. op.name = "group_by" => r.on \subseteq Nat \ {0}
  <2>1. op.name = "group_by" => r.on = {1}
    BY <1>4, <1>5, <1>6, GroupByStarts, DirectlyIs
  <2> QED
    BY <2>1
<1>9. 0 \in Observed(op)
  BY DEF Observed
<1>10. r.arm = <<>> /\ GoodPush(r.push)
       /\ (EndsOutput(r.push) \/ Waits(op, r.st, ({} \ r.off) \cup r.on))
  BY <1>7 DEF Goes
<1>11. {} \subseteq Nat \ {0}
  OBVIOUS
<1>12. Attended(op, c.st, c.queue, c.on, c.live)
  BY <1>1, <1>3, <1>8, <1>9, <1>10, <1>11, OutcomeAttended
<1> QED
  BY <1>2, <1>12

LEMMA NextLeavesSomebody == SomebodyLeft /\ [Next]_vars => SomebodyLeft'
<1> SUFFICES ASSUME SomebodyLeft, [Next]_vars PROVE SomebodyLeft'
  OBVIOUS
<1>1. CASE UNCHANGED vars
  BY <1>1 DEF vars, SomebodyLeft, Attended
<1>2. CASE Next
  <2>1. op' = op /\ op \in Operators
    BY <1>2 DEF Next, Send, Detach, Run, Dispose, Tick, SomebodyLeft
  <2> SUFFICES ASSUME op.p = 0 PROVE Attended(op, st, queue, on, live)'
    BY <2>1 DEF SomebodyLeft
  <2>2. Attended(op, st, queue, on, live) /\ queue = <<>>
    BY DEF SomebodyLeft, Attended
  <2>3. /\ op.name \notin Relaying /\ op.name \notin Disposing
        /\ op.name # "synchronize" /\ op.name # "observe_on"
    BY <2>1, PromptNames, IsOperatorOf
  <2>4. ASSUME NEW s \in on, NEW k \in {"next", "error", "completed"},
               NEW v \in IF k = "next" THEN {<<x>> : x \in Payloads(s)} ELSE {<<>>},
               Send(s, Signal(s, k, v))
        PROVE  Attended(op, st, queue, on, live)'
    <3> DEFINE i == Signal(s, k, v)
               c == Call(op, st, i, now, <<>>, Gone(on, i), live, out)
    <3>1. Payloads(s) \subseteq 1 .. 3
      BY DEF Payloads
    <3>2. i.s = s /\ i.k = k /\ i.v = v /\ i = [s |-> i.s, k |-> i.k, v |-> i.v]
      BY DEF Signal
    <3>3. IsCall(i)
      BY <3>1, <3>2 DEF IsCall
    <3> HIDE DEF i
    <3>4. Attended(op, c.st, c.queue, c.on, c.live)
      BY <2>1, <2>2, <3>2, <3>3, SentAttended
    <3>5. Gone(on, i) = on \ (IF Terminal(i) /\ op.name \notin Disposing THEN {s} ELSE {})
      BY <2>3, <3>2 DEF Gone
    <3>6. Effect(c)
      BY <2>2, <2>3, <2>4, <3>5 DEF Send, i
    <3> HIDE DEF c
    <3>7. st' = c.st /\ on' = c.on /\ queue' = c.queue /\ live' = c.live
      BY <3>6 DEF Effect
    <3> QED
      BY <2>1, <3>4, <3>7 DEF Attended
  <2>5. ASSUME Detach PROVE Attended(op, st, queue, on, live)'
    BY <2>3, <2>5 DEF Detach
  <2>6. ASSUME Run PROVE Attended(op, st, queue, on, live)'
    BY <2>2, <2>6 DEF Run
  <2>7. ASSUME Dispose PROVE Attended(op, st, queue, on, live)'
    <3>1. 0 \notin live' /\ queue' = <<>>
      BY <2>3, <2>7 DEF Dispose
    <3>2. op.name # "group_by" => on' = {}
      BY <2>3, <2>7, <3>1 DEF Dispose, Released, Lingers
    <3>3. on' \in {{}, on}
      BY <2>3, <2>7 DEF Dispose
    <3> QED
      BY <2>1, <2>2, <3>1, <3>2, <3>3 DEF Attended
  <2>8. ASSUME Tick PROVE Attended(op, st, queue, on, live)'
    BY <2>8 DEF Tick
  <2> QED
    BY <1>2, <2>4, <2>5, <2>6, <2>7, <2>8 DEF Next
<1> QED
  BY <1>1, <1>2

LEMMA SomebodyIsEnough == SomebodyLeft => NobodyLeftWaiting
<1> SUFFICES ASSUME SomebodyLeft, op.p = 0, 0 \in live, on = {}
             PROVE  op.name = "skip_until" \/ (op.name = "create" /\ op.m = 2)
  BY DEF NobodyLeftWaiting
<1>1. Waits(op, st, {}) /\ IsOperator(op)
  BY IsOperatorOf DEF SomebodyLeft, Attended
<1>2. op.name \in Prompt /\ (op.name = "create" => op.m \in 0 .. 2)
  BY <1>1 DEF IsOperator
<1>3. op.name \notin FromFirst /\ op.name \notin {"group_by", "take_until"}
  <2>1. {} # {1}
    OBVIOUS
  <2> QED
    BY <1>1, <2>1 DEF Waits
<1>4. op.name \notin {"merge", "merge_delay_error", "flat_map"}
  BY <1>1 DEF Waits, Counted
<1>5. op.name \notin {"concat", "concat_map"}
  BY <1>1 DEF Waits, InTurn
<1>6. op.name # "amb"
  BY <1>1 DEF Waits, Racing
<1>7. op.name # "switch_on_next"
  <2> SUFFICES ASSUME op.name = "switch_on_next" PROVE FALSE
    OBVIOUS
  <2>1. Latched(st, {})
    BY <1>1 DEF Waits
  <2> QED
    BY <2>1 DEF Latched
<1>8. op.name \notin Pairing
  BY <1>1 DEF Waits, Pairing
<1>9. op.name \notin Reserve
  BY <1>1 DEF Waits, Reserve
<1>10. op.name = "create" => op.m = 2
  BY <1>1, <1>2 DEF Waits
<1> QED
  BY <1>2, <1>3, <1>4, <1>5, <1>6, <1>7, <1>8, <1>9, <1>10
     DEF Prompt, FromFirst, Unary, Created, HigherOrder, TwoSources, Pairing, Reserve

\* An output that has not ended has a source left that can end it: whatever the
\* operator, its arguments and the observer, in every order of the signals of any
\* number of sources.
THEOREM NobodyLeftWaitingAlways == Spec => []NobodyLeftWaiting
<1>1. Init => SomebodyLeft
  BY InitLeavesSomebody
<1>2. SomebodyLeft /\ [Next]_vars => SomebodyLeft'
  BY NextLeavesSomebody
<1>3. SomebodyLeft => NobodyLeftWaiting
  BY SomebodyIsEnough
<1> QED
  BY <1>1, <1>2, <1>3, PTL DEF Spec

-----------------------------------------------------------------------------
(* NeverEarly. Of the operators that keep time each knows by itself when the  *)
(* next signal is due; the proof relates what waits on the worker to what has *)
(* been seen and sent. It does so without positions in the queue: work is in  *)
(* it, or ahead of other work.                                                *)

\* An element put in at a place.
LEMMA InsertedAt ==
  ASSUME NEW W, NEW s \in Seq(W), NEW m \in 0 .. Len(s), NEW x \in W
  PROVE  /\ InsertAt(s, m + 1, x) \in Seq(W)
         /\ Len(InsertAt(s, m + 1, x)) = Len(s) + 1
         /\ \A k \in 1 .. Len(s) + 1 :
               /\ k <= m => InsertAt(s, m + 1, x)[k] = s[k]
               /\ k = m + 1 => InsertAt(s, m + 1, x)[k] = x
               /\ k > m + 1 => InsertAt(s, m + 1, x)[k] = s[k - 1]
<1> DEFINE a == SubSeq(s, 1, m)
           b == SubSeq(s, m + 1, Len(s))
<1>1. Len(s) \in Nat /\ m \in Nat /\ m <= Len(s) /\ \A k \in 1 .. Len(s) : s[k] \in W
  OBVIOUS
<1>2. a \in Seq(W) /\ Len(a) = m /\ \A k \in 1 .. m : a[k] = s[k]
  <2>1. \A k \in 1 .. m : s[k] \in W
    BY <1>1
  <2>2. /\ a \in Seq(W)
        /\ Len(a) = IF 1 <= m THEN m - 1 + 1 ELSE 0
        /\ \A k \in 1 .. m - 1 + 1 : a[k] = s[1 + k - 1]
    BY <1>1, <2>1, SubSeqProperties
  <2> QED
    BY <2>2, <1>1
<1>3. b \in Seq(W) /\ Len(b) = Len(s) - m /\ \A k \in 1 .. Len(s) - m : b[k] = s[m + k]
  <2>1. \A k \in m + 1 .. Len(s) : s[k] \in W
    BY <1>1
  <2>2. m + 1 \in Int /\ Len(s) \in Int
    BY <1>1
  <2>3. /\ b \in Seq(W)
        /\ Len(b) = IF m + 1 <= Len(s) THEN Len(s) - (m + 1) + 1 ELSE 0
        /\ \A k \in 1 .. Len(s) - (m + 1) + 1 : b[k] = s[(m + 1) + k - 1]
    BY <2>1, <2>2, SubSeqProperties
  <2> HIDE DEF b
  <2> QED
    BY <2>3, <1>1
<1>4. InsertAt(s, m + 1, x) = a \o <<x>> \o b
  <2>1. PICK i \in Int : i = m + 1
    BY <1>1
  <2>2. i - 1 = m
    BY <2>1, <1>1
  <2>3. InsertAt(s, i, x) = SubSeq(s, 1, i - 1) \o <<x>> \o SubSeq(s, i, Len(s))
    BY DEF InsertAt
  <2> QED
    BY <2>1, <2>2, <2>3
<1> HIDE DEF a, b
<1>5. <<x>> \in Seq(W) /\ Len(<<x>>) = 1 /\ <<x>>[1] = x
  OBVIOUS
<1> DEFINE c == a \o <<x>>
<1>6. /\ c \in Seq(W) /\ Len(c) = m + 1
      /\ \A k \in 1 .. m + 1 : c[k] = IF k <= m THEN s[k] ELSE x
  <2>1. /\ c \in Seq(W) /\ Len(c) = Len(a) + Len(<<x>>)
        /\ \A k \in 1 .. Len(a) + Len(<<x>>) :
              c[k] = IF k <= Len(a) THEN a[k] ELSE <<x>>[k - Len(a)]
    BY <1>2, <1>5, ConcatProperties
  <2> HIDE DEF c
  <2>2. ASSUME NEW k \in 1 .. m + 1 PROVE c[k] = IF k <= m THEN s[k] ELSE x
    <3>1. CASE k <= m
      BY <3>1, <2>1, <1>2, <1>5, <1>1
    <3>2. CASE k = m + 1
      <4>1. k - m = 1
        BY <3>2, <1>1
      <4> QED
        BY <3>2, <4>1, <2>1, <1>2, <1>5, <1>1
    <3> QED
      BY <3>1, <3>2, <1>1
  <2> QED
    BY <2>1, <2>2, <1>2, <1>5
<1> HIDE DEF c
<1> DEFINE d == c \o b
<1>7. /\ d \in Seq(W) /\ Len(d) = Len(c) + Len(b)
      /\ \A k \in 1 .. Len(c) + Len(b) :
            d[k] = IF k <= Len(c) THEN c[k] ELSE b[k - Len(c)]
  BY <1>3, <1>6, ConcatProperties
<1>8. InsertAt(s, m + 1, x) = d
  BY <1>4 DEF c
<1> HIDE DEF d
<1>9. ASSUME NEW k \in 1 .. Len(s) + 1
      PROVE  d[k] = IF k <= m THEN s[k] ELSE IF k = m + 1 THEN x ELSE s[k - 1]
  <2>1. CASE k <= m + 1
    <3>1. k <= Len(c) /\ k \in 1 .. Len(c) + Len(b)
      BY <2>1, <1>1, <1>3, <1>6
    <3>2. d[k] = c[k]
      BY <3>1, <1>7
    <3> QED
      BY <2>1, <3>2, <1>1, <1>6
  <2>2. CASE k > m + 1
    <3>1. k - (m + 1) \in 1 .. Len(s) - m /\ m + (k - (m + 1)) = k - 1
      BY <2>2, <1>1
    <3>4. ~(k <= Len(c)) /\ k \in 1 .. Len(c) + Len(b)
      BY <2>2, <1>1, <1>3, <1>6
    <3>2. d[k] = b[k - (m + 1)]
      BY <3>4, <1>6, <1>7
    <3>3. b[k - (m + 1)] = s[k - 1]
      BY <3>1, <1>3
    <3> QED
      BY <2>2, <3>2, <3>3, <1>1
  <2> QED
    BY <2>1, <2>2, <1>1
<1> QED
  BY <1>1, <1>3, <1>6, <1>7, <1>8, <1>9


(* What waits on the worker, without positions: what is there, and what is    *)
(* ahead of what.                                                             *)
In(q, a) == \E k \in DOMAIN q : q[k] = a
Ahead(q, a, b) == \E k, l \in DOMAIN q : k < l /\ q[k] = a /\ q[l] = b
IsQueue(q) ==
  /\ IsList(q)
  /\ \A a : In(q, a) => a.at \in Nat
  /\ \A a, b : Ahead(q, a, b) => a.at <= b.at

\* What is due no later than a time is the beginning of the queue.
LEMMA DueFirst ==
  ASSUME NEW q, IsQueue(q), NEW at \in Nat
  PROVE  \E m \in 0 .. Len(q) :
            /\ {j \in DOMAIN q : q[j].at <= at} = 1 .. m
            /\ Cardinality({j \in DOMAIN q : q[j].at <= at}) = m
<1> DEFINE due == {j \in DOMAIN q : q[j].at <= at}
           bounds == {m \in 0 .. Len(q) : \A j \in due : j <= m}
<1>1. PICK n \in Nat : n = Len(q) /\ DOMAIN q = 1 .. n
  BY DEF IsQueue, IsList
<1>2. \A j \in 1 .. n : q[j].at \in Nat
  BY <1>1 DEF IsQueue, In
<1>3. n \in bounds
  BY <1>1
<1>4. bounds \in SUBSET Nat
  BY <1>1
<1>5. PICK m \in bounds : \A k \in bounds : m <= k
  <2> HIDE DEF bounds
  <2> QED
    BY <1>3, <1>4, LeastNatural
<1>6. m \in 0 .. n /\ \A j \in due : j <= m
  BY <1>1, <1>5
<1>7. m # 0 => m \in due
  <2> SUFFICES ASSUME m # 0, m \notin due PROVE FALSE
    OBVIOUS
  <2>1. m - 1 \in 0 .. Len(q)
    BY <1>1, <1>6
  <2>2. ASSUME NEW j \in due PROVE j <= m - 1
    BY <1>1, <1>6
  <2>3. m - 1 \in bounds
    BY <2>1, <2>2
  <2> QED
    BY <2>3, <1>5, <1>6
<1>8. ASSUME NEW j \in 1 .. m PROVE j \in due
  <2>1. m \in DOMAIN q /\ q[m].at <= at /\ j \in DOMAIN q
    BY <1>1, <1>6, <1>7
  <2>2. CASE j = m
    BY <2>1, <2>2
  <2>3. CASE j < m
    <3>1. q[j].at <= q[m].at
      <4>1. Ahead(q, q[j], q[m])
        BY <2>1, <2>3 DEF Ahead
      <4> QED
        BY <4>1 DEF IsQueue
    <3> QED
      BY <3>1, <2>1, <1>1, <1>2
  <2> QED
    BY <2>2, <2>3, <1>6
<1>9. due = 1 .. m
  <2>1. ASSUME NEW j \in due PROVE j \in 1 .. m
    BY <1>1, <1>6
  <2> QED
    BY <2>1, <1>8
<1>10. Cardinality(1 .. m) = m
  BY <1>6, FS_Interval
<1> QED
  BY <1>1, <1>6, <1>9, <1>10

\* New work is put behind all that is due no later, and nothing else moves.
LEMMA Enqueued ==
  ASSUME NEW q, IsQueue(q), NEW e, e.at \in Nat
  PROVE  LET r == enqueue(q, e) IN
         /\ IsQueue(r)
         /\ \A a : In(r, a) <=> In(q, a) \/ a = e
         /\ \A a, b : Ahead(r, a, b) =>
              \/ Ahead(q, a, b)
              \/ In(q, a) /\ a.at <= e.at /\ b = e
              \/ a = e /\ In(q, b) /\ e.at < b.at
<1> DEFINE r == enqueue(q, e)
           due == {j \in DOMAIN q : q[j].at <= e.at}
<1>1. PICK len \in Nat : len = Len(q) /\ DOMAIN q = 1 .. len
  BY DEF IsQueue, IsList
<1>2. PICK m \in 0 .. len : due = 1 .. m /\ Cardinality(due) = m
  BY <1>1, DueFirst
<1>3. \A j \in 1 .. len : q[j].at \in Nat
  BY <1>1 DEF IsQueue, In
<1>4. \A j \in 1 .. len : IF j <= m THEN q[j].at <= e.at ELSE e.at < q[j].at
  <2>1. \A j \in 1 .. len : j \in due <=> q[j].at <= e.at
    BY <1>1
  <2>2. \A j \in 1 .. len : j \in 1 .. m <=> j <= m
    BY <1>2
  <2> QED
    BY <2>1, <2>2, <1>2, <1>3
<1>5. PICK W : r \in Seq(W) /\ Len(r) = len + 1 /\
        \A k \in 1 .. len + 1 : /\ k <= m => r[k] = q[k]
                                /\ k = m + 1 => r[k] = e
                                /\ k > m + 1 => r[k] = q[k - 1]
  <2>1. PICK V : q \in Seq(V)
    BY DEF IsQueue, IsList
  <2>2. PICK W : q \in Seq(W) /\ e \in W
    <3>1. q \in Seq(V \cup {e}) /\ e \in V \cup {e}
      BY <2>1, SeqMonotonic
    <3> QED
      BY <3>1
  <2>3. r = InsertAt(q, m + 1, e)
    <3>1. r = InsertAt(q, 1 + Cardinality(due), e)
      BY DEF enqueue
    <3>2. 1 + Cardinality(due) = m + 1
      BY <1>2
    <3> QED
      BY <3>1, <3>2
  <2>4. m \in 0 .. Len(q)
    BY <1>1, <1>2
  <2> HIDE DEF r
  <2>5. /\ InsertAt(q, m + 1, e) \in Seq(W)
        /\ Len(InsertAt(q, m + 1, e)) = Len(q) + 1
        /\ \A k \in 1 .. Len(q) + 1 :
              /\ k <= m => InsertAt(q, m + 1, e)[k] = q[k]
              /\ k = m + 1 => InsertAt(q, m + 1, e)[k] = e
              /\ k > m + 1 => InsertAt(q, m + 1, e)[k] = q[k - 1]
    <3> HIDE DEF due
    <3>1. PICK M \in 0 .. Len(q) : M = m
      BY <2>4
    <3>2. /\ InsertAt(q, M + 1, e) \in Seq(W)
          /\ Len(InsertAt(q, M + 1, e)) = Len(q) + 1
          /\ \A k \in 1 .. Len(q) + 1 :
                /\ k <= M => InsertAt(q, M + 1, e)[k] = q[k]
                /\ k = M + 1 => InsertAt(q, M + 1, e)[k] = e
                /\ k > M + 1 => InsertAt(q, M + 1, e)[k] = q[k - 1]
      <4>1. InsertAt(q, M + 1, e) \in Seq(W)
        BY <2>2, InsertedAt
      <4>2. Len(InsertAt(q, M + 1, e)) = Len(q) + 1
        BY <2>2, InsertedAt
      <4>3. ASSUME NEW k \in 1 .. Len(q) + 1
            PROVE  /\ k <= M => InsertAt(q, M + 1, e)[k] = q[k]
                   /\ k = M + 1 => InsertAt(q, M + 1, e)[k] = e
                   /\ k > M + 1 => InsertAt(q, M + 1, e)[k] = q[k - 1]
        BY <2>2, InsertedAt
      <4> QED
        BY <4>1, <4>2, <4>3
    <3> QED
      BY <3>1, <3>2
  <2> QED
    BY <1>1, <2>3, <2>5
<1>6. DOMAIN r = 1 .. len + 1
  BY <1>5
<1> HIDE DEF r, due
<1>7. ASSUME NEW k \in 1 .. len + 1 PROVE
        \/ k <= m /\ k \in 1 .. len /\ r[k] = q[k]
        \/ k = m + 1 /\ r[k] = e
        \/ k > m + 1 /\ k - 1 \in 1 .. len /\ r[k] = q[k - 1]
  <2>1. CASE k <= m
    BY <2>1, <1>2, <1>5
  <2>2. CASE k = m + 1
    BY <2>2, <1>2, <1>5
  <2>3. CASE k > m + 1
    BY <2>3, <1>2, <1>5
  <2> QED
    BY <2>1, <2>2, <2>3, <1>2
<1>8. ASSUME NEW a, In(r, a) PROVE In(q, a) \/ a = e
  BY <1>1, <1>6, <1>7, <1>8 DEF In
<1>9. ASSUME NEW a, In(q, a) \/ a = e PROVE In(r, a)
  <2>1. CASE a = e
    <3>1. m + 1 \in 1 .. len + 1 /\ r[m + 1] = e
      BY <1>2, <1>5
    <3> QED
      BY <2>1, <3>1, <1>6 DEF In
  <2>2. CASE In(q, a)
    <3>1. PICK k \in 1 .. len : q[k] = a
      BY <2>2, <1>1 DEF In
    <3>2. CASE k <= m
      <4>1. k \in 1 .. len + 1 /\ r[k] = a
        BY <3>1, <3>2, <1>2, <1>5
      <4> QED
        BY <4>1, <1>6 DEF In
    <3>3. CASE k > m
      <4>1. k + 1 \in 1 .. len + 1 /\ ~(k + 1 <= m) /\ k + 1 # m + 1 /\ k + 1 - 1 = k
        BY <3>3, <1>2
      <4>2. r[k + 1] = a
        BY <4>1, <3>1, <1>5
      <4> QED
        BY <4>1, <4>2, <1>6 DEF In
    <3> QED
      BY <3>2, <3>3, <1>2
  <2> QED
    BY <1>9, <2>1, <2>2
<1>10. ASSUME NEW a, NEW b, Ahead(r, a, b)
       PROVE  \/ Ahead(q, a, b)
              \/ In(q, a) /\ a.at <= e.at /\ b = e
              \/ a = e /\ In(q, b) /\ e.at < b.at
  <2>1. PICK k \in 1 .. len + 1, l \in 1 .. len + 1 : k < l /\ r[k] = a /\ r[l] = b
    BY <1>6, <1>10 DEF Ahead
  <2>2. CASE l = m + 1
    <3>1. k <= m /\ k \in 1 .. len /\ a = q[k] /\ b = e
      BY <2>1, <2>2, <1>2, <1>7
    <3>2. In(q, a) /\ a.at <= e.at
      BY <3>1, <1>1, <1>4 DEF In
    <3> QED
      BY <3>1, <3>2
  <2>3. CASE k = m + 1
    <3>1. l > m + 1 /\ l - 1 \in 1 .. len /\ b = q[l - 1] /\ a = e /\ ~(l - 1 <= m)
      BY <2>1, <2>3, <1>2, <1>7
    <3>2. In(q, b) /\ e.at < b.at
      BY <3>1, <1>1, <1>4 DEF In
    <3> QED
      BY <3>1, <3>2
  <2>4. CASE k # m + 1 /\ l # m + 1
    <3>1. \E i, j \in 1 .. len : i < j /\ q[i] = a /\ q[j] = b
      <4>1. CASE l <= m
        BY <2>1, <2>4, <4>1, <1>2, <1>7
      <4>2. CASE k <= m /\ l > m + 1
        <5>1. k \in 1 .. len /\ l - 1 \in 1 .. len /\ k < l - 1 /\ q[k] = a /\ q[l - 1] = b
          BY <2>1, <4>2, <1>2, <1>7
        <5> QED
          BY <5>1
      <4>3. CASE k > m + 1
        <5>1. k - 1 \in 1 .. len /\ l - 1 \in 1 .. len /\ k - 1 < l - 1 /\ q[k - 1] = a /\ q[l - 1] = b
          BY <2>1, <4>3, <1>2, <1>7
        <5> QED
          BY <5>1
      <4> QED
        BY <2>1, <2>4, <4>1, <4>2, <4>3, <1>2
    <3> QED
      BY <3>1, <1>1 DEF Ahead
  <2> QED
    BY <2>2, <2>3, <2>4
<1>11. IsQueue(r)
  <2>1. IsList(r)
    BY <1>5 DEF IsList
  <2>2. ASSUME NEW a, In(r, a) PROVE a.at \in Nat
    BY <1>8, <2>2 DEF IsQueue
  <2>3. ASSUME NEW a, NEW b, Ahead(r, a, b) PROVE a.at <= b.at
    <3>1. In(q, b) => b.at \in Nat
      BY DEF IsQueue
    <3> QED
      BY <1>10, <2>3, <3>1 DEF IsQueue
  <2> QED
    BY <2>1, <2>2, <2>3 DEF IsQueue
<1> QED
  BY <1>8, <1>9, <1>10, <1>11 DEF r

\* The head of the queue is ahead of the rest.
LEMMA Dequeued ==
  ASSUME NEW q, IsQueue(q), q # <<>>
  PROVE  /\ IsQueue(Tail(q)) /\ In(q, Head(q)) /\ Head(q).at \in Nat
         /\ \A a : In(q, a) <=> a = Head(q) \/ In(Tail(q), a)
         /\ \A a : In(Tail(q), a) => Ahead(q, Head(q), a)
         /\ \A a, b : Ahead(Tail(q), a, b) => Ahead(q, a, b)
<1>1. PICK W : q \in Seq(W)
  <2>1. IsList(q)
    BY DEF IsQueue
  <2> QED
    BY <2>1 DEF IsList
<1>2. PICK len \in Nat : Len(q) = len + 1 /\ DOMAIN q = 1 .. len + 1
  <2>1. Len(q) \in Nat /\ Len(q) # 0 /\ DOMAIN q = 1 .. Len(q)
    BY <1>1
  <2>2. Len(q) - 1 \in Nat /\ Len(q) = (Len(q) - 1) + 1
    BY <2>1
  <2> QED
    BY <2>1, <2>2, Zenon
<1> DEFINE t == Tail(q)
<1>3. t \in Seq(W) /\ Len(t) = len /\ \A k \in 1 .. len : t[k] = q[k + 1]
  BY <1>1, <1>2, HeadTailProperties
<1>4. DOMAIN t = 1 .. len
  BY <1>3
<1>5. Head(q) = q[1] /\ 1 \in DOMAIN q
  BY <1>1, <1>2, HeadTailProperties
<1> HIDE DEF t
<1>6. ASSUME NEW a, In(t, a) PROVE Ahead(q, Head(q), a) /\ In(q, a)
  <2>1. PICK k \in 1 .. len : t[k] = a
    BY <1>4, <1>6 DEF In
  <2>2. k + 1 \in DOMAIN q /\ q[k + 1] = a /\ 1 < k + 1
    BY <2>1, <1>2, <1>3
  <2> QED
    BY <2>2, <1>5 DEF Ahead, In
<1>7. ASSUME NEW a, In(q, a) PROVE a = Head(q) \/ In(t, a)
  <2>1. PICK k \in 1 .. len + 1 : q[k] = a
    BY <1>2, <1>7 DEF In
  <2>2. CASE k = 1
    BY <2>1, <2>2, <1>5
  <2>3. CASE k # 1
    <3>1. k - 1 \in 1 .. len /\ (k - 1) + 1 = k
      BY <2>3, <1>2
    <3>2. t[k - 1] = a
      BY <3>1, <2>1, <1>3
    <3> QED
      BY <3>1, <3>2, <1>4 DEF In
  <2> QED
    BY <2>2, <2>3
<1>8. ASSUME NEW a, NEW b, Ahead(t, a, b) PROVE Ahead(q, a, b)
  <2>1. PICK k \in 1 .. len, l \in 1 .. len : k < l /\ t[k] = a /\ t[l] = b
    BY <1>4, <1>8 DEF Ahead
  <2>2. k + 1 \in DOMAIN q /\ l + 1 \in DOMAIN q /\ k + 1 < l + 1 /\ q[k + 1] = a /\ q[l + 1] = b
    BY <2>1, <1>2, <1>3
  <2> QED
    BY <2>2 DEF Ahead
<1>9. In(q, Head(q))
  BY <1>5 DEF In
<1>10. IsQueue(t)
  BY <1>3, <1>6, <1>8 DEF IsQueue, IsList
<1> QED
  BY <1>6, <1>7, <1>8, <1>9, <1>10 DEF t, IsQueue

LEMMA NothingWaits == IsQueue(<<>>) /\ \A a, b : ~In(<<>>, a) /\ ~Ahead(<<>>, a, b)
<1>1. DOMAIN <<>> = {}
  OBVIOUS
<1>2. <<>> \in Seq({})
  OBVIOUS
<1> QED
  BY <1>1, <1>2 DEF IsQueue, IsList, In, Ahead

\* The recursive function of EnqueueAll, for the one or two works of a call.
PushedAt(q, works, f, j) == IF j = 0 THEN q ELSE enqueue(f[j - 1], works[j])

IsPushed(q, works, n, f) == f = [j \in 0 .. n |-> PushedAt(q, works, f, j)]

LEMMA EnqueueAllIs ==
  ASSUME NEW q, NEW works, NEW h, IsPushed(q, works, Len(works), h)
  PROVE  \E f : IsPushed(q, works, Len(works), f) /\ EnqueueAll(q, works) = f[Len(works)]
<1> DEFINE g == CHOOSE f : IsPushed(q, works, Len(works), f)
<1>1. IsPushed(q, works, Len(works), g)
  OBVIOUS
<1>2. EnqueueAll(q, works) = g[Len(works)]
  BY Zenon DEF EnqueueAll, PushedAt, IsPushed
<1> QED
  BY <1>1, <1>2

LEMMA OneWorkOf ==
  ASSUME NEW q, NEW works, Len(works) = 1
  PROVE  EnqueueAll(q, works) = enqueue(q, works[1])
<1> DEFINE h == [j \in 0 .. 1 |-> IF j = 0 THEN q ELSE enqueue(q, works[1])]
<1>2. \A j \in 0 .. 1 : h[j] = PushedAt(q, works, h, j)
  BY DEF PushedAt
<1>3. IsPushed(q, works, Len(works), h)
  BY <1>2 DEF IsPushed
<1> HIDE DEF h
<1>4. PICK f : IsPushed(q, works, 1, f) /\ EnqueueAll(q, works) = f[1]
  BY <1>3, EnqueueAllIs
<1>5. f[0] = q /\ f[1] = enqueue(f[0], works[1])
  <2>1. f[0] = PushedAt(q, works, f, 0) /\ f[1] = PushedAt(q, works, f, 1)
    BY <1>4 DEF IsPushed
  <2> QED
    BY <2>1 DEF PushedAt
<1> QED
  BY <1>4, <1>5

LEMMA TwoWorksOf ==
  ASSUME NEW q, NEW works, Len(works) = 2
  PROVE  EnqueueAll(q, works) = enqueue(enqueue(q, works[1]), works[2])
<1> DEFINE h == [j \in 0 .. 2 |-> IF j = 0 THEN q ELSE IF j = 1 THEN enqueue(q, works[1])
                                  ELSE enqueue(enqueue(q, works[1]), works[2])]
<1>2. \A j \in 0 .. 2 : h[j] = PushedAt(q, works, h, j)
  <2>1. h[0] = q /\ h[1] = enqueue(q, works[1]) /\ h[2] = enqueue(h[1], works[2])
    OBVIOUS
  <2>2. \A j \in 0 .. 2 : j = 0 \/ j = 1 \/ j = 2
    OBVIOUS
  <2> HIDE DEF h
  <2> QED
    BY <2>1, <2>2 DEF PushedAt
<1>3. IsPushed(q, works, Len(works), h)
  BY <1>2 DEF IsPushed
<1> HIDE DEF h
<1>4. PICK f : IsPushed(q, works, 2, f) /\ EnqueueAll(q, works) = f[2]
  BY <1>3, EnqueueAllIs
<1>5. f[0] = q /\ f[1] = enqueue(f[0], works[1]) /\ f[2] = enqueue(f[1], works[2])
  <2>1. /\ f[0] = PushedAt(q, works, f, 0) /\ f[1] = PushedAt(q, works, f, 1)
        /\ f[2] = PushedAt(q, works, f, 2)
    BY <1>4 DEF IsPushed
  <2> QED
    BY <2>1 DEF PushedAt
<1> QED
  BY <1>4, <1>5

LEMMA OneWork == ASSUME NEW q, NEW a PROVE EnqueueAll(q, <<a>>) = enqueue(q, a)
BY OneWorkOf

LEMMA TwoWorks ==
  ASSUME NEW q, NEW a, NEW b PROVE EnqueueAll(q, <<a, b>>) = enqueue(enqueue(q, a), b)
BY TwoWorksOf

-----------------------------------------------------------------------------
(* The recursive function of ValuesOf. *)
IsValue(e) == e.i.s = 1 /\ e.i.k = "next"
ValuesAt(h, f, j) ==
  IF j = 0 THEN <<>> ELSE IF IsValue(h[j]) THEN Append(f[j - 1], h[j]) ELSE f[j - 1]
IsValues(h, n, f) == f = [j \in 0 .. n |-> ValuesAt(h, f, j)]

LEMMA ValuesExist ==
  ASSUME NEW h PROVE \A n \in Nat : \E f : IsValues(h, n, f)
<1> DEFINE Bad == {n \in Nat : ~ \E f : IsValues(h, n, f)}
<1> SUFFICES ASSUME Bad # {} PROVE FALSE
  OBVIOUS
<1>1. PICK n \in Bad : \A m \in Bad : n <= m
  BY LeastNatural
<1>2. CASE n = 0
  <2> DEFINE g == [j \in 0 .. 0 |-> <<>>]
  <2>1. IsValues(h, 0, g)
    BY DEF IsValues, ValuesAt
  <2> QED
    BY <1>1, <1>2, <2>1
<1>3. CASE n # 0
  <2>1. n - 1 \in Nat /\ n - 1 \notin Bad
    BY <1>1, <1>3
  <2>2. PICK f : IsValues(h, n - 1, f)
    BY <2>1
  <2> DEFINE g == [j \in 0 .. n |-> IF j = n THEN ValuesAt(h, f, n) ELSE f[j]]
  <2>3. \A j \in 0 .. n : j # n => f[j] = ValuesAt(h, f, j)
    <3>1. n \in Nat
      BY <1>1
    <3>2. \A j \in 0 .. n : j # n => j \in 0 .. n - 1
      BY <3>1
    <3> HIDE DEF Bad
    <3>3. f = [j \in 0 .. n - 1 |-> ValuesAt(h, f, j)]
      BY <2>2 DEF IsValues
    <3> QED
      BY <3>2, <3>3
  <2>4. \A j \in 0 .. n : ValuesAt(h, g, j) = ValuesAt(h, f, j)
    <3>1. \A j \in 0 .. n : j # 0 => g[j - 1] = f[j - 1]
      BY <1>1
    <3>2. \A k, j : j # 0 /\ k[j - 1] = f[j - 1] => ValuesAt(h, k, j) = ValuesAt(h, f, j)
      BY DEF ValuesAt
    <3>3. \A k : ValuesAt(h, k, 0) = ValuesAt(h, f, 0)
      BY DEF ValuesAt
    <3> HIDE DEF g
    <3> QED
      BY <3>1, <3>2, <3>3
  <2>5. IsValues(h, n, g)
    BY <2>3, <2>4 DEF IsValues
  <2> QED
    BY <1>1, <2>5
<1> QED
  BY <1>2, <1>3

LEMMA ValuesOfIs ==
  ASSUME NEW h, Len(h) \in Nat
  PROVE  \E f : IsValues(h, Len(h), f) /\ ValuesOf(h) = f[Len(h)]
<1> DEFINE g == CHOOSE f : IsValues(h, Len(h), f)
<1>1. IsValues(h, Len(h), g)
  BY ValuesExist
<1>2. ValuesOf(h) = g[Len(h)]
  BY Zenon DEF ValuesOf, IsValues, ValuesAt, IsValue
<1> QED
  BY <1>1, <1>2

\* A further entry of the log is a further value or none.
LEMMA Recorded ==
  ASSUME NEW h, IsList(h), NEW e
  PROVE  ValuesOf(Append(h, e)) = IF IsValue(e) THEN Append(ValuesOf(h), e) ELSE ValuesOf(h)
<1> DEFINE k == Append(h, e)
<1>1. PICK n \in Nat : Len(h) = n /\ Len(k) = n + 1 /\ k[n + 1] = e /\ \A j \in 1 .. n : k[j] = h[j]
  <2>1. PICK W : h \in Seq(W \cup {e})
    <3>1. PICK V : h \in Seq(V)
      BY DEF IsList
    <3> QED
      BY <3>1, SeqMonotonic
  <2> QED
    BY <2>1
<1> HIDE DEF k
<1>2. PICK f : IsValues(h, n, f) /\ ValuesOf(h) = f[n]
  BY <1>1, ValuesOfIs
<1>3. PICK g : IsValues(k, n + 1, g) /\ ValuesOf(k) = g[n + 1]
  <2>1. Len(k) \in Nat
    BY <1>1
  <2> QED
    BY <1>1, <2>1, ValuesOfIs
<1>4. \A j \in 0 .. n : f[j] = ValuesAt(h, f, j)
  BY <1>2 DEF IsValues
<1>5. \A j \in 0 .. n + 1 : g[j] = ValuesAt(k, g, j)
  BY <1>3 DEF IsValues
<1> DEFINE Bad == {j \in 0 .. n : g[j] # f[j]}
<1>6. Bad = {}
  <2> SUFFICES ASSUME Bad # {} PROVE FALSE
    OBVIOUS
  <2>0. Bad \in SUBSET Nat
    OBVIOUS
  <2>1. PICK j \in Bad : \A m \in Bad : j <= m
    BY <2>0, LeastNatural
  <2>2. j \in 0 .. n /\ g[j] # f[j] /\ j \in 0 .. n + 1
    BY <2>1
  <2>3. CASE j = 0
    BY <2>2, <2>3, <1>4, <1>5 DEF ValuesAt
  <2>4. CASE j # 0
    <3>1. j - 1 \in 0 .. n /\ j - 1 \notin Bad /\ j \in 1 .. n
      BY <2>1, <2>2, <2>4
    <3>2. g[j - 1] = f[j - 1] /\ k[j] = h[j]
      BY <3>1, <1>1
    <3> HIDE DEF Bad
    <3>3. ValuesAt(k, g, j) = ValuesAt(h, f, j)
      BY <2>4, <3>2 DEF ValuesAt
    <3> QED
      BY <2>2, <3>3, <1>4, <1>5
  <2> QED
    BY <2>3, <2>4
<1>7. g[n] = f[n]
  BY <1>6
<1>8. g[n + 1] = IF IsValue(e) THEN Append(g[n], e) ELSE g[n]
  <2>1. n + 1 \in 0 .. n + 1 /\ n + 1 # 0 /\ (n + 1) - 1 = n
    OBVIOUS
  <2>2. g[n + 1] = ValuesAt(k, g, n + 1)
    BY <2>1, <1>5
  <2> QED
    BY <2>1, <2>2, <1>1 DEF ValuesAt
<1> QED
  BY <1>2, <1>3, <1>7, <1>8 DEF k

LEMMA NothingSent == ValuesOf(<<>>) = <<>>
<1>1. Len(<<>>) = 0
  OBVIOUS
<1>2. PICK f : IsValues(<<>>, 0, f) /\ ValuesOf(<<>>) = f[0]
  BY <1>1, ValuesOfIs
<1>3. f[0] = ValuesAt(<<>>, f, 0)
  BY <1>2 DEF IsValues
<1> QED
  BY <1>2, <1>3 DEF ValuesAt

(* What a call says to the observer of an operator that keeps time: signals   *)
(* of the output, the first c of which it hears; if not all, because one of   *)
(* them was the end, or because it left in the last one.                      *)
Speaks(push) ==
  \E T : push \in Seq(T) /\ \A e \in T : e.s = 0 /\ e.k # "open" /\ e.k # "undefined"

Extends(seen, push, c, o) ==
  /\ IsList(o) /\ Len(o) = Len(seen) + c
  /\ \A j \in 1 .. Len(seen) : o[j] = seen[j]
  /\ \A j \in 1 .. c : o[Len(seen) + j] = push[j]

Hears(quit, channels, seen, push, d, c) ==
  /\ Extends(seen, push, c, d.out)
  /\ 0 \notin channels => c = 0
  /\ 0 \in d.live => c = Len(push) /\ ~EndsOutput(push)
  /\ 0 \in channels /\ 0 \notin d.live =>
       c # 0 /\ (Terminal(push[c]) \/ (quit > 0 /\ Seen(d.out) = quit))

LEMMA Appended ==
  ASSUME NEW s, IsList(s), NEW e
  PROVE  /\ IsList(Append(s, e)) /\ Len(s) \in Nat /\ Len(Append(s, e)) = Len(s) + 1
         /\ \A j \in 1 .. Len(s) : Append(s, e)[j] = s[j]
         /\ Append(s, e)[Len(s) + 1] = e
         /\ DOMAIN s = 1 .. Len(s) /\ DOMAIN Append(s, e) = 1 .. Len(s) + 1
<1>1. PICK V : s \in Seq(V)
  BY DEF IsList
<1>2. s \in Seq(V \cup {e}) /\ e \in V \cup {e}
  BY <1>1, SeqMonotonic
<1>3. PICK W : s \in Seq(W) /\ e \in W
  BY <1>2
<1>4. Append(s, e) \in Seq(W)
  BY <1>3
<1>5. IsList(Append(s, e))
  BY <1>4 DEF IsList
<1> QED
  BY <1>3, <1>5

LEMMA ExtendedOnce ==
  ASSUME NEW seen, NEW push, NEW c \in Nat, NEW o, IsList(seen), Extends(seen, push, c, o)
  PROVE  Extends(seen, push, c + 1, Append(o, push[c + 1]))
<1> DEFINE e == push[c + 1]
           p == Append(o, e)
<1>1. IsList(o) /\ Len(o) = Len(seen) + c /\ Len(seen) \in Nat
  <2>1. Len(seen) \in Nat
    BY DEF IsList
  <2> QED
    BY <2>1 DEF Extends
<1>2. /\ IsList(p) /\ Len(p) = Len(o) + 1 /\ p[Len(o) + 1] = e
      /\ \A j \in 1 .. Len(o) : p[j] = o[j]
  BY <1>1, Appended
<1> HIDE DEF p
<1>3. ASSUME NEW j \in 1 .. Len(seen) PROVE p[j] = seen[j]
  BY <1>1, <1>2 DEF Extends
<1>4. ASSUME NEW j \in 1 .. c + 1 PROVE p[Len(seen) + j] = push[j]
  <2>1. CASE j = c + 1
    <3>1. Len(seen) + j = Len(o) + 1
      BY <1>1, <2>1
    <3> QED
      BY <1>2, <2>1, <3>1
  <2>2. CASE j # c + 1
    <3>1. j \in 1 .. c /\ Len(seen) + j \in 1 .. Len(o)
      BY <1>1, <2>2
    <3> QED
      BY <1>2, <3>1 DEF Extends
  <2> QED
    BY <2>1, <2>2
<1>5. Len(p) = Len(seen) + (c + 1)
  BY <1>1, <1>2
<1> QED
  BY <1>2, <1>3, <1>4, <1>5 DEF Extends, p

LEMMA Delivered ==
  ASSUME NEW quit, NEW channels \in SUBSET {0}, NEW seen, IsList(seen), NEW push, Speaks(push)
  PROVE  LET d == Deliver(quit, channels, seen, push) IN
         /\ d.live \subseteq channels
         /\ \E c \in 0 .. Len(push) : Hears(quit, channels, seen, push, d, c)
<1> DEFINE d == Deliver(quit, channels, seen, push)
<1>1. PICK T : push \in Seq(T) /\ \A e \in T : e.s = 0 /\ e.k # "open" /\ e.k # "undefined"
  BY DEF Speaks
<1>2. Len(push) \in Nat /\ \A j \in 1 .. Len(push) : push[j].s = 0 /\ push[j].k # "open"
  BY <1>1
<1>3. PICK f : /\ IsAcc(quit, [live |-> channels, out |-> seen], push, Len(push), f)
               /\ d = f[Len(push)]
  BY <1>2, DeliverIsAcc
<1>4. \A j \in 0 .. Len(push) : f[j] = AccAt(quit, [live |-> channels, out |-> seen], push, f, j)
  BY <1>3 DEF IsAcc
<1> DEFINE Is(j) == /\ f[j].live \subseteq channels
                    /\ \E c \in 0 .. j :
                         /\ Extends(seen, push, c, f[j].out)
                         /\ 0 \notin channels => c = 0
                         /\ 0 \in f[j].live => c = j
                         /\ 0 \in channels /\ 0 \notin f[j].live =>
                              c # 0 /\ (Terminal(push[c]) \/ (quit > 0 /\ Seen(f[j].out) = quit))
           Bad == {j \in 0 .. Len(push) : ~Is(j)}
<1>5. Bad = {}
  <2> SUFFICES ASSUME Bad # {} PROVE FALSE
    OBVIOUS
  <2>0. Bad \in SUBSET Nat
    BY <1>2
  <2>1. PICK j \in Bad : \A m \in Bad : j <= m
    BY <2>0, LeastNatural
  <2>2. j \in 0 .. Len(push) /\ ~Is(j) /\ j \in Nat
    BY <1>2, <2>1
  <2> HIDE DEF Is
  <2>3. CASE j = 0
    <3>1. f[j].live = channels /\ f[j].out = seen
      BY <1>4, <2>2, <2>3 DEF AccAt
    <3>2. Len(seen) \in Nat
      BY DEF IsList
    <3>3. Extends(seen, push, 0, f[j].out)
      BY <3>1, <3>2 DEF Extends
    <3>4. Is(j)
      BY <2>3, <3>1, <3>3 DEF Is
    <3> QED
      BY <2>2, <3>4
  <2>4. CASE j # 0
    <3>1. j - 1 \in 0 .. Len(push) /\ j - 1 \notin Bad /\ j \in 1 .. Len(push)
      BY <1>2, <2>1, <2>2, <2>4
    <3>2. Is(j - 1)
      BY <3>1
    <3>3. f[j] = subscriber(quit, f[j - 1], push[j])
      BY <1>4, <2>2, <2>4 DEF AccAt
    <3>4. push[j].s = 0 /\ push[j].k # "open"
      BY <1>2, <3>1
    <3> HIDE DEF Bad
    <3> DEFINE b == f[j - 1]
    <3>5. PICK c \in 0 .. j - 1 :
                         /\ Extends(seen, push, c, b.out)
                         /\ 0 \notin channels => c = 0
                         /\ 0 \in b.live => c = j - 1
                         /\ 0 \in channels /\ 0 \notin b.live =>
                              c # 0 /\ (Terminal(push[c]) \/ (quit > 0 /\ Seen(b.out) = quit))
      BY <3>2 DEF Is
    <3>6. b.live \subseteq channels
      BY <3>2 DEF Is
    <3> HIDE DEF b
    <3>7. CASE 0 \notin b.live
      <4>1. f[j] = b
        BY <3>3, <3>4, <3>7 DEF subscriber, b
      <4>2. c \in 0 .. j
        BY <2>2
      <4>3. Is(j)
        BY <3>5, <3>6, <3>7, <4>1, <4>2 DEF Is
      <4> QED
        BY <2>2, <4>3
    <3>8. CASE 0 \in b.live
      <4>1. c = j - 1 /\ 0 \in channels /\ c + 1 = j /\ c \in Nat
        BY <2>2, <3>5, <3>6, <3>8
      <4> DEFINE o == Append(b.out, push[j])
                 ends == Terminal(push[j]) \/ (push[j].s = 0 /\ quit > 0 /\ Seen(o) = quit)
                 closed == IF ends THEN {push[j].s} ELSE {}
      <4>2. f[j] = [live |-> (b.live \cup {}) \ closed, out |-> o]
        BY <3>3, <3>4, <3>8 DEF subscriber, b
      <4>3. f[j].out = o /\ f[j].live = b.live \ closed
        BY <4>2
      <4>4. Extends(seen, push, j, f[j].out)
        BY <3>5, <4>1, <4>3, ExtendedOnce
      <4> HIDE DEF o
      <4>5. 0 \notin f[j].live => Terminal(push[j]) \/ (quit > 0 /\ Seen(f[j].out) = quit)
        BY <3>8, <4>3
      <4>6. f[j].live \subseteq channels
        BY <3>6, <4>3
      <4> HIDE DEF closed
      <4>7. j \in 0 .. j /\ j # 0
        BY <2>2, <2>4
      <4>8. Is(j)
        BY <4>1, <4>4, <4>5, <4>6, <4>7 DEF Is
      <4> QED
        BY <2>2, <4>8
    <3> QED
      BY <3>7, <3>8
  <2> QED
    BY <2>3, <2>4
<1>6. Is(Len(push))
  BY <1>2, <1>5
<1>7. GoodPush(push)
  BY <1>1 DEF GoodPush
<1>8. 0 \in d.live => ~EndsOutput(push)
  BY <1>7, DeliveryEnds
<1> HIDE DEF d
<1>9. d.live \subseteq channels /\ \E c \in 0 .. Len(push) : Hears(quit, channels, seen, push, d, c)
  BY <1>3, <1>6, <1>8 DEF Hears
<1> QED
  BY <1>9 DEF d

\* As long as only the output has spoken, all it has said counts.
LEMMA AllSeen ==
  ASSUME NEW o, IsList(o), \A j \in 1 .. Len(o) : o[j].s = 0
  PROVE  Seen(o) = Len(o)
<1>1. Len(o) \in Nat /\ DOMAIN o = 1 .. Len(o)
  BY DEF IsList
<1>2. {j \in DOMAIN o : o[j].s = 0} = 1 .. Len(o)
  BY <1>1
<1>3. Cardinality(1 .. Len(o)) = Len(o)
  BY <1>1, FS_Interval, SMTT(25)
<1> QED
  BY <1>2, <1>3 DEF Seen

\* The moments at which a longer list of signals was seen.
Stamped(stamps, n, n2, t, stamps2) ==
  /\ IsList(stamps2) /\ Len(stamps2) = n2
  /\ \A j \in 1 .. n : stamps2[j] = stamps[j]
  /\ \A j \in n + 1 .. n2 : stamps2[j] = t

LEMMA StampsIs ==
  ASSUME NEW t, NEW stamps, IsList(stamps), NEW seen, Len(seen) \in Nat, Len(stamps) <= Len(seen)
  PROVE  Stamped(stamps, Len(stamps), Len(seen), t, Stamps(t, stamps, seen))
<1> DEFINE k == Len(seen) - Len(stamps)
           more == [j \in 1 .. k |-> t]
<1>1. PICK V : stamps \in Seq(V)
  BY DEF IsList
<1>2. k \in Nat /\ Len(stamps) \in Nat
  BY <1>1
<1>3. PICK W : stamps \in Seq(W) /\ t \in W
  <2>1. stamps \in Seq(V \cup {t}) /\ t \in V \cup {t}
    BY <1>1, SeqMonotonic
  <2> QED
    BY <2>1
<1>4. more \in Seq(W) /\ Len(more) = k /\ \A j \in 1 .. k : more[j] = t
  BY <1>2, <1>3
<1>5. Stamps(t, stamps, seen) = stamps \o more
  BY DEF Stamps
<1> HIDE DEF k, more
<1> DEFINE r == stamps \o more
<1>6. /\ r \in Seq(W) /\ Len(r) = Len(stamps) + Len(more)
      /\ \A j \in 1 .. Len(stamps) + Len(more) :
            r[j] = IF j <= Len(stamps) THEN stamps[j] ELSE more[j - Len(stamps)]
  BY <1>3, <1>4, ConcatProperties
<1> HIDE DEF r
<1>7. Len(r) = Len(seen)
  BY <1>2, <1>4, <1>6 DEF k
<1>8. \A j \in 1 .. Len(stamps) : r[j] = stamps[j]
  BY <1>2, <1>4, <1>6
<1>9. ASSUME NEW j \in Len(stamps) + 1 .. Len(seen) PROVE r[j] = t
  <2>1. j - Len(stamps) \in 1 .. k /\ ~(j <= Len(stamps)) /\ j \in 1 .. Len(stamps) + Len(more)
    BY <1>2, <1>4 DEF k
  <2> QED
    BY <2>1, <1>4, <1>6
<1>10. IsList(r)
  BY <1>6 DEF IsList
<1> QED
  BY <1>5, <1>7, <1>8, <1>9, <1>10 DEF Stamped, r

-----------------------------------------------------------------------------
(* What the worker's queue holds once it has run its head and put on it what  *)
(* the call asks for.                                                         *)
LEMMA RanQuietly ==
  ASSUME NEW q, IsQueue(q), q # <<>>, NEW arm, arm = <<>>
  PROVE  LET r == EnqueueAll(Tail(q), arm) IN
         /\ IsQueue(r)
         /\ \A a : In(r, a) => In(q, a) /\ Ahead(q, Head(q), a)
         /\ \A a : In(q, a) => a = Head(q) \/ In(r, a)
         /\ \A a, b : Ahead(r, a, b) => Ahead(q, a, b)
<1>1. EnqueueAll(Tail(q), arm) = Tail(q)
  BY NoWork
<1> QED
  BY <1>1, Dequeued

LEMMA RanArming ==
  ASSUME NEW q, IsQueue(q), q # <<>>, NEW e, e.at \in Nat, NEW arm, arm = <<e>>
  PROVE  LET r == EnqueueAll(Tail(q), arm) IN
         /\ IsQueue(r)
         /\ \A a : In(r, a) => a = e \/ (In(q, a) /\ Ahead(q, Head(q), a))
         /\ \A a : In(q, a) => a = Head(q) \/ In(r, a)
         /\ \A a, b : Ahead(r, a, b) =>
              \/ Ahead(q, a, b)
              \/ In(q, a) /\ b = e /\ Ahead(q, Head(q), a)
              \/ a = e /\ In(q, b) /\ e.at < b.at
<1> DEFINE u == Tail(q)
           r == enqueue(u, e)
<1>1. EnqueueAll(u, arm) = r
  BY OneWork
<1>2. /\ IsQueue(u)
      /\ \A a : In(q, a) <=> a = Head(q) \/ In(u, a)
      /\ \A a : In(u, a) => Ahead(q, Head(q), a)
      /\ \A a, b : Ahead(u, a, b) => Ahead(q, a, b)
  BY Dequeued
<1> HIDE DEF u
<1>3. IsQueue(r)
  BY <1>2, Enqueued
<1>4. \A a : In(r, a) <=> In(u, a) \/ a = e
  BY <1>2, Enqueued
<1>5. \A a, b : Ahead(r, a, b) =>
              \/ Ahead(u, a, b)
              \/ In(u, a) /\ a.at <= e.at /\ b = e
              \/ a = e /\ In(u, b) /\ e.at < b.at
  BY <1>2, Enqueued
<1> HIDE DEF r
<1> QED
  BY <1>1, <1>2, <1>3, <1>4, <1>5 DEF u

LEMMA RanArmingTwo ==
  ASSUME NEW q, IsQueue(q), q # <<>>, NEW e, e.at \in Nat, NEW f, f.at \in Nat,
         NEW arm, arm = <<e, f>>
  PROVE  LET r == EnqueueAll(Tail(q), arm) IN
         /\ IsQueue(r)
         /\ \A a : In(r, a) => a = e \/ a = f \/ (In(q, a) /\ Ahead(q, Head(q), a))
         /\ \A a, b : Ahead(r, a, b) =>
              \/ Ahead(q, a, b)
              \/ In(q, a) /\ Ahead(q, Head(q), a) /\ (b = e \/ b = f)
              \/ a = e /\ (b = f \/ (In(q, b) /\ e.at < b.at))
              \/ a = f /\ (b = e \/ (In(q, b) /\ f.at < b.at))
<1> DEFINE u == EnqueueAll(Tail(q), <<e>>)
           r == enqueue(u, f)
<1>1. EnqueueAll(Tail(q), arm) = r
  BY OneWork, TwoWorks
<1>2. PICK one : one = <<e>>
  OBVIOUS
<1>3. /\ IsQueue(u)
      /\ \A a : In(u, a) => a = e \/ (In(q, a) /\ Ahead(q, Head(q), a))
      /\ \A a, b : Ahead(u, a, b) =>
              \/ Ahead(q, a, b)
              \/ In(q, a) /\ b = e /\ Ahead(q, Head(q), a)
              \/ a = e /\ In(q, b) /\ e.at < b.at
  BY <1>2, RanArming
<1> HIDE DEF u
<1>4. IsQueue(r)
  BY <1>3, Enqueued
<1>5. \A a : In(r, a) <=> In(u, a) \/ a = f
  BY <1>3, Enqueued
<1>6. \A a, b : Ahead(r, a, b) =>
              \/ Ahead(u, a, b)
              \/ In(u, a) /\ a.at <= f.at /\ b = f
              \/ a = f /\ In(u, b) /\ f.at < b.at
  BY <1>3, Enqueued
<1> HIDE DEF r
<1>7. \A a : In(r, a) => a = e \/ a = f \/ (In(q, a) /\ Ahead(q, Head(q), a))
  BY <1>3, <1>5
<1>8. ASSUME NEW a, NEW b, Ahead(r, a, b)
      PROVE   \/ Ahead(q, a, b)
              \/ In(q, a) /\ Ahead(q, Head(q), a) /\ (b = e \/ b = f)
              \/ a = e /\ (b = f \/ (In(q, b) /\ e.at < b.at))
              \/ a = f /\ (b = e \/ (In(q, b) /\ f.at < b.at))
  BY <1>3, <1>6, <1>8
<1> QED
  BY <1>1, <1>4, <1>7, <1>8

(* NeverEarly again, for any observer: what it has seen, when, and what the   *)
(* source had sent. A delayed or debounced value is moreover one that was     *)
(* sent, so that it stays as it is when the source sends another.             *)
Said(seen, j, k) == seen[j].s = 0 /\ seen[j].k = k
Entry(hist, l) == l \in ToSet(hist)
Closed(hist, t) == \E l : Entry(hist, l) /\ l.i.k = "completed" /\ l.at <= t
EndedBy(hist) == \E l : Entry(hist, l) /\ l.i.s = 1 /\ Terminal(l.i)
Silent(values, v, t) == v < Len(values) => values[v + 1].at >= t
FlushedAt(o, seen, stamps, hist, j) ==
  \E e \in j .. Len(seen) :
    /\ stamps[e] = stamps[j]
    /\ (e > j /\ Said(seen, e, "completed")) \/ (e = o.quit /\ Closed(hist, stamps[j]))
Prior(stamps, j) == IF j = 1 THEN 0 ELSE stamps[j - 1]
FullBefore(o, seen, j) == j > 1 /\ Len(seen[j - 1].v) = o.n
IsSent(values, v) == v \in 1 .. Len(values)

Delayed(o, seen, stamps, hist, j) ==
  /\ Said(seen, j, "next") =>
       /\ IsSent(ValuesOf(hist), Item(seen[j]))
       /\ stamps[j] >= ValuesOf(hist)[Item(seen[j])].at + o.p
  /\ Said(seen, j, "completed") =>
       \E l : Entry(hist, l) /\ l.i.k = "completed" /\ stamps[j] >= l.at + o.p
Debounced(o, seen, stamps, hist, j) ==
  Said(seen, j, "next") /\ ~FlushedAt(o, seen, stamps, hist, j) =>
    /\ IsSent(ValuesOf(hist), Item(seen[j]))
    /\ stamps[j] >= ValuesOf(hist)[Item(seen[j])].at + o.p
    /\ Silent(ValuesOf(hist), Item(seen[j]), ValuesOf(hist)[Item(seen[j])].at + o.p)
TimedOut(o, seen, stamps, hist, j) ==
  Said(seen, j, "error") /\ ~EndedBy(hist) =>
    /\ stamps[j] >= Prior(stamps, j) + o.p
    /\ Silent(ValuesOf(hist), j - 1, Prior(stamps, j) + o.p)
Limited(o, seen, stamps, hist, j) ==
  Said(seen, j, "next") /\ ~FlushedAt(o, seen, stamps, hist, j) /\ Len(seen[j].v) < o.n =>
    stamps[j] >= (IF FullBefore(o, seen, j) THEN Prior(stamps, j) ELSE 0) + o.p
Spaced(o, seen, stamps, hist, j) ==
  Said(seen, j, "next") /\ ~FlushedAt(o, seen, stamps, hist, j) =>
    stamps[j] >= (j - 1) * o.m + o.p
Ticked(o, seen, stamps, hist, j) == Said(seen, j, "next") => stamps[j] >= (j - 1) * o.p

Punctual(o, seen, stamps, hist, j) ==
  /\ o.name = "delay" => Delayed(o, seen, stamps, hist, j)
  /\ o.name = "debounce" => Debounced(o, seen, stamps, hist, j)
  /\ o.name = "timeout" => TimedOut(o, seen, stamps, hist, j)
  /\ o.name = "buffer_with_time_or_count" => Limited(o, seen, stamps, hist, j)
  /\ o.name = "buffer_with_time" => Spaced(o, seen, stamps, hist, j)
  /\ o.name \in {"sample_with_time", "interval"} => Ticked(o, seen, stamps, hist, j)
  /\ o.name = "timer" => stamps[j] >= o.p

\* Never early, and of every observer of the output.
AllPunctual(o, seen, stamps, hist) ==
  \A j \in 1 .. Len(seen) : seen[j].s = 0 => Punctual(o, seen, stamps, hist, j)

LEMMA FlushedIs == ASSUME NEW j PROVE Flushed(j) <=> FlushedAt(op, out, when, log, j)
BY DEF Flushed, FlushedAt, Says, Said, Closed, Entry

LEMMA EndedIs == Ended1 <=> EndedBy(log)
BY DEF Ended1, EndedBy, Entry

LEMMA PunctualIsEnough ==
  ASSUME op.p # 0 => IsList(out) /\ AllPunctual(op, out, when, log)
  PROVE  NeverEarly
<1> SUFFICES ASSUME op.p # 0, NEW j \in DOMAIN out, out[j].s = 0
             PROVE  OnTime(j)
  BY DEF NeverEarly
<1>1. DOMAIN out = 1 .. Len(out)
  BY DEF IsList
<1>2. Punctual(op, out, when, log, j)
  BY <1>1 DEF AllPunctual
<1> DEFINE v == Item(out[j])
           before == IF j = 1 THEN 0 ELSE when[j - 1]
           full == j > 1 /\ Len(out[j - 1].v) = op.n
<1>3. op.name = "delay" => /\ Says(j, "next") => when[j] >= SentAt(v) + op.p
                           /\ Says(j, "completed") =>
                                \E e \in ToSet(log) : e.i.k = "completed" /\ when[j] >= e.at + op.p
  BY <1>2 DEF Punctual, Delayed, Says, Said, SentAt, SentNext, Entry
<1>4. op.name = "debounce" /\ Says(j, "next") /\ ~Flushed(j) =>
          when[j] >= SentAt(v) + op.p /\ SilentUntil(v, SentAt(v) + op.p)
  BY <1>2, FlushedIs DEF Punctual, Debounced, Says, Said, SentAt, SentNext, SilentUntil, Silent
<1>5. op.name = "timeout" /\ Says(j, "error") /\ ~Ended1 =>
          when[j] >= before + op.p /\ SilentUntil(j - 1, before + op.p)
  BY <1>2, EndedIs DEF Punctual, TimedOut, Says, Said, SentAt, SentNext, SilentUntil, Silent, Prior
<1>6. op.name = "buffer_with_time_or_count" /\ Says(j, "next") /\ ~Flushed(j) /\ Len(out[j].v) < op.n =>
          when[j] >= (IF full THEN before ELSE 0) + op.p
  BY <1>2, FlushedIs DEF Punctual, Limited, Says, Said, Prior, FullBefore
<1>7. op.name = "buffer_with_time" /\ Says(j, "next") /\ ~Flushed(j) =>
          when[j] >= (j - 1) * op.m + op.p
  BY <1>2, FlushedIs DEF Punctual, Spaced, Says, Said
<1>8. op.name \in {"sample_with_time", "interval"} /\ Says(j, "next") =>
          when[j] >= (j - 1) * op.p
  BY <1>2 DEF Punctual, Ticked, Says, Said
<1>9. op.name = "timer" => when[j] >= op.p
  BY <1>2 DEF Punctual
<1> QED
  BY <1>3, <1>4, <1>5, <1>6, <1>7, <1>8, <1>9 DEF OnTime

-----------------------------------------------------------------------------
(* The past is what it was: nothing that is seen, sent or told later changes  *)
(* whether an earlier signal was in time.                                     *)
InPast(stamps, n, hist, t) ==
  /\ t \in Nat
  /\ \A j \in 1 .. n : stamps[j] \in Nat /\ stamps[j] <= t
  /\ IsList(hist)
  /\ \A l : Entry(hist, l) => l.at \in Nat /\ l.at <= t
  /\ IsList(ValuesOf(hist))
  /\ \A v \in 1 .. Len(ValuesOf(hist)) : ValuesOf(hist)[v].at \in Nat /\ ValuesOf(hist)[v].at <= t

SeenLater(seen, seen2) ==
  Len(seen) \in Nat /\ Len(seen2) \in Nat /\ Len(seen) <= Len(seen2)
  /\ \A j \in 1 .. Len(seen) : seen2[j] = seen[j]

SentLater(hist, hist2, t) ==
  LET values == ValuesOf(hist)
      values2 == ValuesOf(hist2)
  IN /\ \A l : Entry(hist, l) => Entry(hist2, l)
     /\ Len(values) \in Nat /\ Len(values2) \in Nat /\ Len(values) <= Len(values2)
     /\ \A v \in 1 .. Len(values) : values2[v] = values[v]
     /\ \A v \in Len(values) + 1 .. Len(values2) : values2[v].at = t

LEMMA SilentStays ==
  ASSUME NEW hist, NEW hist2, NEW t \in Nat, SentLater(hist, hist2, t),
         NEW v \in Nat, NEW u, u <= t, u \in Nat, Silent(ValuesOf(hist), v, u)
  PROVE  Silent(ValuesOf(hist2), v, u)
<1> DEFINE a == ValuesOf(hist)
           b == ValuesOf(hist2)
<1>1. /\ Len(a) \in Nat /\ Len(b) \in Nat /\ Len(a) <= Len(b)
      /\ \A w \in 1 .. Len(a) : b[w] = a[w]
      /\ \A w \in Len(a) + 1 .. Len(b) : b[w].at = t
  BY DEF SentLater
<1>2. Silent(a, v, u)
  OBVIOUS
<1> HIDE DEF a, b
<1>5. Silent(b, v, u)
  <2>1. CASE v < Len(a)
    <3>1. v + 1 \in 1 .. Len(a) /\ b[v + 1] = a[v + 1]
      BY <1>1, <2>1
    <3> QED
      BY <1>2, <2>1, <3>1 DEF Silent
  <2>2. CASE ~(v < Len(a))
    <3>1. v < Len(b) => v + 1 \in Len(a) + 1 .. Len(b)
      BY <1>1, <2>2
    <3> QED
      BY <1>1, <3>1 DEF Silent
  <2> QED
    BY <2>1, <2>2
<1> QED
  BY <1>5 DEF b

LEMMA FlushedStays ==
  ASSUME NEW o, NEW seen, NEW seen2, SeenLater(seen, seen2), NEW stamps, NEW stamps2, NEW hist,
         NEW hist2, NEW t, SentLater(hist, hist2, t),
         \A k \in 1 .. Len(seen) : stamps2[k] = stamps[k],
         NEW j \in 1 .. Len(seen), FlushedAt(o, seen, stamps, hist, j)
  PROVE  FlushedAt(o, seen2, stamps2, hist2, j)
<1>1. PICK e \in j .. Len(seen) :
        /\ stamps[e] = stamps[j]
        /\ (e > j /\ Said(seen, e, "completed")) \/ (e = o.quit /\ Closed(hist, stamps[j]))
  BY DEF FlushedAt
<1>2. e \in 1 .. Len(seen) /\ e \in j .. Len(seen2) /\ seen2[e] = seen[e]
  BY DEF SeenLater
<1>3. stamps2[e] = stamps2[j] /\ stamps2[j] = stamps[j]
  BY <1>1, <1>2
<1>4. Said(seen, e, "completed") => Said(seen2, e, "completed")
  BY <1>2 DEF Said
<1>5. Closed(hist, stamps[j]) => Closed(hist2, stamps2[j])
  BY <1>3 DEF Closed, SentLater
<1> QED
  BY <1>1, <1>2, <1>3, <1>4, <1>5 DEF FlushedAt

LEMMA PunctualStays ==
  ASSUME NEW o, o.p \in Nat, NEW seen, NEW seen2, SeenLater(seen, seen2), NEW stamps, NEW stamps2,
         NEW hist, NEW hist2, NEW t, SentLater(hist, hist2, t), InPast(stamps, Len(seen), hist, t),
         \A k \in 1 .. Len(seen) : stamps2[k] = stamps[k],
         NEW j \in 1 .. Len(seen), Punctual(o, seen, stamps, hist, j)
  PROVE  Punctual(o, seen2, stamps2, hist2, j)
<1> DEFINE a == ValuesOf(hist)
           b == ValuesOf(hist2)
<1>1. seen2[j] = seen[j] /\ stamps2[j] = stamps[j] /\ j \in Nat
  BY DEF SeenLater
<1>2. j > 1 => j - 1 \in 1 .. Len(seen) /\ seen2[j - 1] = seen[j - 1] /\ stamps2[j - 1] = stamps[j - 1]
  BY <1>1 DEF SeenLater
<1>3. Prior(stamps2, j) = Prior(stamps, j) /\ Prior(stamps, j) \in Nat
  BY <1>1, <1>2 DEF Prior, InPast
<1>4. FullBefore(o, seen2, j) <=> FullBefore(o, seen, j)
  BY <1>1, <1>2 DEF FullBefore
<1>5. FlushedAt(o, seen, stamps, hist, j) => FlushedAt(o, seen2, stamps2, hist2, j)
  BY FlushedStays
<1>6. \A l : Entry(hist, l) => Entry(hist2, l)
  BY DEF SentLater
<1>7. /\ t \in Nat /\ stamps[j] \in Nat /\ stamps[j] <= t
      /\ \A v \in 1 .. Len(a) : a[v].at \in Nat
  BY DEF InPast
<1>8. /\ Len(a) \in Nat /\ Len(b) \in Nat /\ Len(a) <= Len(b)
      /\ \A w \in 1 .. Len(a) : b[w] = a[w]
  BY DEF SentLater
<1>9. \A v : IsSent(a, v) => IsSent(b, v) /\ b[v] = a[v] /\ v \in Nat /\ a[v].at \in Nat
  <2> HIDE DEF a, b
  <2> QED
    BY <1>7, <1>8 DEF IsSent
<1>10. \A k : Said(seen2, j, k) <=> Said(seen, j, k)
  BY <1>1 DEF Said
<1>11. ASSUME NEW v \in Nat, NEW u \in Nat, u <= t, Silent(a, v, u) PROVE Silent(b, v, u)
  BY <1>7, <1>11, SilentStays
<1> HIDE DEF a, b
<1>12. Delayed(o, seen, stamps, hist, j) => Delayed(o, seen2, stamps2, hist2, j)
  <2> SUFFICES ASSUME Delayed(o, seen, stamps, hist, j) PROVE Delayed(o, seen2, stamps2, hist2, j)
    OBVIOUS
  <2>1. Said(seen, j, "next") => IsSent(a, Item(seen[j])) /\ stamps[j] >= a[Item(seen[j])].at + o.p
    BY DEF Delayed, a
  <2>2. Said(seen, j, "next") => IsSent(b, Item(seen2[j])) /\ stamps2[j] >= b[Item(seen2[j])].at + o.p
    BY <2>1, <1>1, <1>9
  <2>3. Said(seen, j, "completed") =>
          \E l : Entry(hist2, l) /\ l.i.k = "completed" /\ stamps2[j] >= l.at + o.p
    BY <1>1, <1>6 DEF Delayed
  <2> QED
    BY <2>2, <2>3, <1>10 DEF Delayed, b
<1>13. Debounced(o, seen, stamps, hist, j) => Debounced(o, seen2, stamps2, hist2, j)
  <2> SUFFICES ASSUME Debounced(o, seen, stamps, hist, j), Said(seen2, j, "next"),
                      ~FlushedAt(o, seen2, stamps2, hist2, j)
               PROVE  /\ IsSent(b, Item(seen2[j]))
                      /\ stamps2[j] >= b[Item(seen2[j])].at + o.p
                      /\ Silent(b, Item(seen2[j]), b[Item(seen2[j])].at + o.p)
    BY DEF Debounced, b
  <2>1. /\ IsSent(a, Item(seen[j]))
        /\ stamps[j] >= a[Item(seen[j])].at + o.p
        /\ Silent(a, Item(seen[j]), a[Item(seen[j])].at + o.p)
    BY <1>5, <1>10 DEF Debounced, a
  <2> DEFINE v == Item(seen[j])
             u == a[v].at + o.p
  <2>2. v \in Nat /\ u \in Nat /\ b[v] = a[v] /\ IsSent(b, v) /\ u <= t
    BY <2>1, <1>7, <1>9
  <2>3. Silent(b, v, u)
    <3> HIDE DEF v, u
    <3>1. Silent(a, v, u)
      BY <2>1 DEF v, u
    <3> QED
      BY <3>1, <2>2, <1>11
  <2> QED
    BY <2>1, <2>2, <2>3, <1>1
<1>14. TimedOut(o, seen, stamps, hist, j) => TimedOut(o, seen2, stamps2, hist2, j)
  <2> SUFFICES ASSUME TimedOut(o, seen, stamps, hist, j), Said(seen2, j, "error"), ~EndedBy(hist2)
               PROVE  /\ stamps2[j] >= Prior(stamps2, j) + o.p
                      /\ Silent(b, j - 1, Prior(stamps2, j) + o.p)
    BY DEF TimedOut, b
  <2>1. ~EndedBy(hist)
    BY <1>6 DEF EndedBy
  <2>2. stamps[j] >= Prior(stamps, j) + o.p /\ Silent(a, j - 1, Prior(stamps, j) + o.p)
    BY <2>1, <1>10 DEF TimedOut, a
  <2> DEFINE u == Prior(stamps, j) + o.p
  <2>3. u \in Nat /\ u <= t /\ j - 1 \in Nat
    BY <2>2, <1>1, <1>3, <1>7
  <2>4. Silent(b, j - 1, u)
    <3> HIDE DEF u
    <3>1. Silent(a, j - 1, u)
      BY <2>2 DEF u
    <3> QED
      BY <3>1, <2>3, <1>11
  <2> QED
    BY <2>2, <2>4, <1>1, <1>3
<1>15. Limited(o, seen, stamps, hist, j) => Limited(o, seen2, stamps2, hist2, j)
  BY <1>1, <1>3, <1>4, <1>5, <1>10 DEF Limited
<1>16. Spaced(o, seen, stamps, hist, j) => Spaced(o, seen2, stamps2, hist2, j)
  BY <1>1, <1>5, <1>10 DEF Spaced
<1>17. Ticked(o, seen, stamps, hist, j) => Ticked(o, seen2, stamps2, hist2, j)
  BY <1>1, <1>10 DEF Ticked
<1> QED
  BY <1>1, <1>12, <1>13, <1>14, <1>15, <1>16, <1>17 DEF Punctual

(* What one call of an operator that keeps time makes of it: its members n    *)
(* and items, what it sends and what it puts on its worker.                   *)
Becomes(s, n, items) == IsState(s) /\ s.n = n /\ s.items = items
Makes(r, n, items, push, arm) ==
  Becomes(r.st, n, items) /\ r.push = push /\ r.arm = arm /\ r.on = {}

Nowhere == Signal(Side, "undefined", <<>>)
Passed(i) == [i EXCEPT !.s = 0]
WithItemsN(s, y, x) == [s EXCEPT !.items = y, !.n = x]

LEMMA Unchanged == ASSUME NEW s, IsState(s) PROVE Becomes(s, s.n, s.items)
BY DEF Becomes

LEMMA NChanged == ASSUME NEW s, IsState(s), NEW x PROVE Becomes([s EXCEPT !.n = x], x, s.items)
<1>1. PICK t : t = [s EXCEPT !.n = x]
  OBVIOUS
<1>2. IsState(t)
  BY <1>1, StateKept
<1>3. t.n = x /\ t.items = s.items
  BY <1>1, StateFields
<1> QED
  BY <1>1, <1>2, <1>3 DEF Becomes

LEMMA ItemsChanged ==
  ASSUME NEW s, IsState(s), NEW y PROVE Becomes([s EXCEPT !.items = y], s.n, y)
<1>1. PICK t : t = [s EXCEPT !.items = y]
  OBVIOUS
<1>2. IsState(t)
  BY <1>1, StateKept
<1>3. t.n = s.n /\ t.items = y
  BY <1>1, StateFields
<1> QED
  BY <1>1, <1>2, <1>3 DEF Becomes

LEMMA BothChanged ==
  ASSUME NEW s, IsState(s), NEW x, NEW y
  PROVE  Becomes(WithNItems(s, x, y), x, y) /\ Becomes(WithItemsN(s, y, x), x, y)
<1>1. Becomes(WithNItems(s, x, y), x, y)
  BY NAndItems DEF Becomes
<1>2. WithItemsN(s, y, x) = [[s EXCEPT !.items = y] EXCEPT !.n = x]
  BY DEF WithItemsN
<1>3. PICK u : u = [s EXCEPT !.items = y]
  OBVIOUS
<1>4. IsState(u) /\ u.n = s.n /\ u.items = y
  BY <1>3, ItemsChanged DEF Becomes
<1>5. Becomes([u EXCEPT !.n = x], x, y)
  BY <1>4, NChanged DEF Becomes
<1> QED
  BY <1>1, <1>2, <1>3, <1>5

LEMMA DoesMakes ==
  ASSUME NEW s, NEW n, NEW items, Becomes(s, n, items), NEW p
  PROVE  Makes(Does(s, p), n, items, p, <<>>)
BY DEF Does, Makes

LEMMA QuietMakes ==
  ASSUME NEW s, NEW n, NEW items, Becomes(s, n, items)
  PROVE  Makes(Quietly(s), n, items, <<>>, <<>>)
BY DEF Quietly, Does, Makes

LEMMA ForwardMakes ==
  ASSUME NEW s, NEW n, NEW items, Becomes(s, n, items), NEW i, i.k # "subscribe"
  PROVE  Makes(Forward(s, i), n, items, <<Passed(i)>>, <<>>)
BY DoesMakes DEF Forward, Passed

Armed(s, p, arm) == [st |-> s, push |-> p, on |-> {}, off |-> {}, arm |-> arm]
LEMMA ArmedMore ==
  ASSUME NEW s, NEW p, NEW a, NEW b PROVE [Armed(s, p, a) EXCEPT !.arm = b] = Armed(s, p, b)
BY DEF Armed

LEMMA TupleIs ==
  ASSUME NEW a, NEW b
  PROVE  /\ <<a>> \o <<b>> = <<a, b>> /\ Append(<<>>, a) = <<a>>
         /\ Append(<<a>>, b) = <<a, b>>
<1>1. PICK W : a \in W /\ b \in W
  <2>1. a \in {a, b} /\ b \in {a, b}
    OBVIOUS
  <2> QED
    BY <2>1
<1>2. /\ <<a>> \in Seq(W) /\ Len(<<a>>) = 1 /\ <<a>>[1] = a
      /\ <<b>> \in Seq(W) /\ Len(<<b>>) = 1 /\ <<b>>[1] = b
      /\ <<a, b>> \in Seq(W) /\ Len(<<a, b>>) = 2 /\ <<a, b>>[1] = a /\ <<a, b>>[2] = b
      /\ <<>> \in Seq(W) /\ Len(<<>>) = 0
  BY <1>1
<1>3. <<a>> \o <<b>> = <<a, b>>
  <2> DEFINE c == <<a>> \o <<b>>
  <2>1. /\ c \in Seq(W) /\ Len(c) = Len(<<a>>) + Len(<<b>>)
        /\ \A k \in 1 .. Len(<<a>>) + Len(<<b>>) :
              c[k] = IF k <= Len(<<a>>) THEN <<a>>[k] ELSE <<b>>[k - Len(<<a>>)]
    BY <1>2, ConcatProperties
  <2> HIDE DEF c
  <2>2. Len(c) = 2 /\ c[1] = a /\ c[2] = b
    BY <2>1, <1>2
  <2>3. \A k \in 1 .. Len(c) : c[k] = <<a, b>>[k]
    BY <2>2, <1>2
  <2>4. c = <<a, b>>
    BY <2>1, <2>2, <2>3, <1>2, SeqEqual
  <2> QED
    BY <2>4 DEF c
<1>4. Append(<<>>, a) = <<a>>
  <2> DEFINE c == Append(<<>>, a)
  <2>1. c \in Seq(W) /\ Len(c) = 1 /\ c[1] = a
    BY <1>1, <1>2
  <2> HIDE DEF c
  <2>2. \A k \in 1 .. Len(c) : c[k] = <<a>>[k]
    BY <2>1, <1>2
  <2>3. c = <<a>>
    BY <2>1, <2>2, <1>2, SeqEqual
  <2> QED
    BY <2>3 DEF c
<1>5. Append(<<a>>, b) = <<a, b>>
  <2> DEFINE c == Append(<<a>>, b)
  <2>1. c \in Seq(W) /\ Len(c) = 2 /\ c[1] = a /\ c[2] = b
    BY <1>1, <1>2
  <2> HIDE DEF c
  <2>2. \A k \in 1 .. Len(c) : c[k] = <<a, b>>[k]
    BY <2>1, <1>2
  <2>3. c = <<a, b>>
    BY <2>1, <2>2, <1>2, SeqEqual
  <2> QED
    BY <2>3 DEF c
<1> QED
  BY <1>3, <1>4, <1>5

LEMMA ArmIs ==
  ASSUME NEW s, NEW p, NEW arm, NEW at, NEW k, NEW v
  PROVE  Arm(Armed(s, p, arm), at, k, v) = Armed(s, p, Append(arm, Work(at, k, v)))
<1>1. Armed(s, p, arm).arm = arm
  BY DEF Armed
<1>2. Arm(Armed(s, p, arm), at, k, v) =
        [Armed(s, p, arm) EXCEPT !.arm = Append(Armed(s, p, arm).arm, Work(at, k, v))]
  BY DEF Arm, Work
<1>3. PICK more : more = Append(arm, Work(at, k, v))
  OBVIOUS
<1>4. [Armed(s, p, arm) EXCEPT !.arm = more] = Armed(s, p, more)
  BY ArmedMore
<1> QED
  BY <1>1, <1>2, <1>3, <1>4

LEMMA ArmMakes ==
  ASSUME NEW s, NEW n, NEW items, Becomes(s, n, items), NEW p, NEW at, NEW k, NEW v
  PROVE  Makes(Arm(Does(s, p), at, k, v), n, items, p, <<Work(at, k, v)>>)
<1>1. PICK none : none = <<>>
  OBVIOUS
<1>2. PICK one : one = Append(none, Work(at, k, v))
  OBVIOUS
<1>3. Does(s, p) = Armed(s, p, none)
  BY <1>1 DEF Does, Armed
<1>4. Arm(Armed(s, p, none), at, k, v) = Armed(s, p, one)
  BY <1>2, ArmIs
<1>5. one = <<Work(at, k, v)>>
  <2>1. PICK w : w = Work(at, k, v)
    OBVIOUS
  <2>2. one = Append(<<>>, w)
    BY <1>1, <1>2, <2>1
  <2>3. Append(<<>>, w) = <<w>>
    BY TupleIs
  <2> QED
    BY <2>1, <2>2, <2>3
<1>6. Makes(Armed(s, p, one), n, items, p, one)
  BY DEF Makes, Armed
<1> QED
  BY <1>3, <1>4, <1>5, <1>6

LEMMA ArmTwiceMakes ==
  ASSUME NEW s, NEW n, NEW items, Becomes(s, n, items), NEW p, NEW at, NEW k, NEW v,
         NEW at2, NEW k2, NEW v2
  PROVE  Makes(Arm(Arm(Does(s, p), at, k, v), at2, k2, v2), n, items, p,
               <<Work(at, k, v), Work(at2, k2, v2)>>)
<1>1. PICK none : none = <<>>
  OBVIOUS
<1>2. PICK one : one = Append(none, Work(at, k, v))
  OBVIOUS
<1>3. PICK two : two = Append(one, Work(at2, k2, v2))
  OBVIOUS
<1>4. Does(s, p) = Armed(s, p, none)
  BY <1>1 DEF Does, Armed
<1>5. Arm(Arm(Armed(s, p, none), at, k, v), at2, k2, v2) = Armed(s, p, two)
  BY <1>2, <1>3, ArmIs
<1>6. two = <<Work(at, k, v), Work(at2, k2, v2)>>
  <2>1. PICK w : w = Work(at, k, v)
    OBVIOUS
  <2>2. PICK u : u = Work(at2, k2, v2)
    OBVIOUS
  <2>3. one = Append(<<>>, w)
    BY <1>1, <1>2, <2>1
  <2>4. Append(<<>>, w) = <<w>> /\ Append(<<w>>, u) = <<w, u>>
    BY TupleIs
  <2>5. one = <<w>>
    BY <2>3, <2>4
  <2>6. two = Append(<<w>>, u)
    BY <1>3, <2>2, <2>5
  <2> QED
    BY <2>1, <2>2, <2>4, <2>6
<1>7. Makes(Armed(s, p, two), n, items, p, two)
  BY DEF Makes, Armed
<1> QED
  BY <1>4, <1>5, <1>6, <1>7

-----------------------------------------------------------------------------
LEMMA DelayMakes ==
  ASSUME NEW o, NEW s, IsState(s), NEW i, NEW t
  PROVE  i.k # "subscribe" => Makes(delay(o, s, i, t), s.n, s.items, <<Passed(i)>>, <<>>)
BY Unchanged, ForwardMakes DEF delay

LEMMA DebounceMakes ==
  ASSUME NEW o, NEW s, IsState(s), NEW i, NEW t, NEW r, r = debounce(o, s, i, t)
  PROVE  /\ i.k = "next" =>
              Makes(r, s.n + 1, i.v, <<>>, <<Work(t + o.p, "produce", <<s.n + 1>>)>>)
         /\ i.k = "produce" /\ Item(i) # s.n => Makes(r, s.n, s.items, <<>>, <<>>)
         /\ i.k = "produce" /\ Item(i) = s.n /\ s.items = <<>> =>
              Makes(r, s.n, s.items, <<Nowhere>>, <<>>)
         /\ i.k = "produce" /\ Item(i) = s.n /\ s.items # <<>> =>
              Makes(r, s.n, <<>>, <<OnNext(s.items)>>, <<>>)
         /\ i.k = "error" => Makes(r, s.n, <<>>, <<OnError>>, <<>>)
         /\ i.k = "completed" /\ s.items = <<>> => Makes(r, s.n, s.items, <<OnCompleted>>, <<>>)
         /\ i.k = "completed" /\ s.items # <<>> =>
              Makes(r, s.n, s.items, <<OnNext(s.items), OnCompleted>>, <<>>)
<1>1. ASSUME i.k = "next"
      PROVE  Makes(r, s.n + 1, i.v, <<>>, <<Work(t + o.p, "produce", <<s.n + 1>>)>>)
  <2>1. r = Arm(Does(WithNItems(s, s.n + 1, i.v), <<>>), t + o.p, "produce", <<s.n + 1>>)
    BY <1>1 DEF debounce, Quietly, WithNItems
  <2>2. Becomes(WithNItems(s, s.n + 1, i.v), s.n + 1, i.v)
    BY BothChanged
  <2> QED
    BY <2>1, <2>2, ArmMakes
<1>2. ASSUME i.k = "produce", Item(i) # s.n PROVE Makes(r, s.n, s.items, <<>>, <<>>)
  <2>1. r = Quietly(s)
    BY <1>2 DEF debounce
  <2> QED
    BY <2>1, Unchanged, QuietMakes
<1>3. ASSUME i.k = "produce", Item(i) = s.n, s.items = <<>>
      PROVE  Makes(r, s.n, s.items, <<Nowhere>>, <<>>)
  <2>1. r = Does(s, <<Nowhere>>)
    BY <1>3 DEF debounce, Undefined, Nowhere
  <2> QED
    BY <2>1, Unchanged, DoesMakes
<1>4. ASSUME i.k = "produce", Item(i) = s.n, s.items # <<>>
      PROVE  Makes(r, s.n, <<>>, <<OnNext(s.items)>>, <<>>)
  <2>1. r = Does([s EXCEPT !.items = <<>>], <<OnNext(s.items)>>)
    BY <1>4 DEF debounce, Push
  <2> QED
    BY <2>1, ItemsChanged, DoesMakes
<1>5. ASSUME i.k = "error" PROVE Makes(r, s.n, <<>>, <<OnError>>, <<>>)
  <2>1. r = Does([s EXCEPT !.items = <<>>], <<OnError>>)
    BY <1>5 DEF debounce
  <2> QED
    BY <2>1, ItemsChanged, DoesMakes
<1>6. ASSUME i.k = "completed", s.items = <<>>
      PROVE  Makes(r, s.n, s.items, <<OnCompleted>>, <<>>)
  <2>1. r = Does(s, <<>> \o <<OnCompleted>>)
    BY <1>6 DEF debounce
  <2>2. <<>> \o <<OnCompleted>> = <<OnCompleted>>
    OBVIOUS
  <2> QED
    BY <2>1, <2>2, Unchanged, DoesMakes
<1>7. ASSUME i.k = "completed", s.items # <<>>
      PROVE  Makes(r, s.n, s.items, <<OnNext(s.items), OnCompleted>>, <<>>)
  <2>1. r = Does(s, <<OnNext(s.items)>> \o <<OnCompleted>>)
    BY <1>7 DEF debounce
  <2>2. <<OnNext(s.items)>> \o <<OnCompleted>> = <<OnNext(s.items), OnCompleted>>
    BY TupleIs
  <2> QED
    BY <2>1, <2>2, Unchanged, DoesMakes
<1> QED
  BY <1>1, <1>2, <1>3, <1>4, <1>5, <1>6, <1>7

LEMMA TimeoutMakes ==
  ASSUME NEW o, NEW s, IsState(s), NEW i, NEW t, NEW r, r = timeout(o, s, i, t)
  PROVE  /\ i.k = "start" =>
              Makes(r, s.n + 1, s.items, <<>>, <<Work(t + o.p, "produce", <<s.n + 1>>)>>)
         /\ i.k = "next" =>
              Makes(r, s.n + 1, s.items, <<OnNext(i.v)>>, <<Work(t + o.p, "produce", <<s.n + 1>>)>>)
         /\ i.k = "produce" /\ Item(i) # s.n => Makes(r, s.n, s.items, <<>>, <<>>)
         /\ i.k = "produce" /\ Item(i) = s.n => Makes(r, s.n, s.items, <<OnError>>, <<>>)
         /\ i.k \in {"error", "completed"} => Makes(r, s.n, s.items, <<Passed(i)>>, <<>>)
<1>1. Becomes([s EXCEPT !.n = s.n + 1], s.n + 1, s.items)
  BY NChanged
<1> DEFINE u == [s EXCEPT !.n = s.n + 1]
<1>2. i.k = "start" => r = Arm(Does(u, <<>>), t + o.p, "produce", <<s.n + 1>>)
  BY DEF timeout, Quietly
<1>3. i.k = "next" => r = Arm(Does(u, <<OnNext(i.v)>>), t + o.p, "produce", <<s.n + 1>>)
  BY DEF timeout, Push
<1> HIDE DEF u
<1>4. i.k = "start" =>
              Makes(r, s.n + 1, s.items, <<>>, <<Work(t + o.p, "produce", <<s.n + 1>>)>>)
  BY <1>1, <1>2, ArmMakes DEF u
<1>5. i.k = "next" =>
              Makes(r, s.n + 1, s.items, <<OnNext(i.v)>>, <<Work(t + o.p, "produce", <<s.n + 1>>)>>)
  BY <1>1, <1>3, ArmMakes DEF u
<1>6. i.k = "produce" /\ Item(i) # s.n => r = Quietly(s)
  BY DEF timeout
<1>7. i.k = "produce" /\ Item(i) = s.n => r = Does(s, <<OnError>>)
  BY DEF timeout, Fails
<1>8. i.k \in {"error", "completed"} => r = Forward(s, i)
  BY DEF timeout
<1>9. Becomes(s, s.n, s.items)
  BY Unchanged
<1>10. i.k = "produce" /\ Item(i) # s.n => Makes(r, s.n, s.items, <<>>, <<>>)
  BY <1>6, <1>9, QuietMakes
<1>11. i.k = "produce" /\ Item(i) = s.n => Makes(r, s.n, s.items, <<OnError>>, <<>>)
  BY <1>7, <1>9, DoesMakes
<1>12. i.k \in {"error", "completed"} => Makes(r, s.n, s.items, <<Passed(i)>>, <<>>)
  BY <1>8, <1>9, ForwardMakes
<1> QED
  BY <1>4, <1>5, <1>10, <1>11, <1>12

LEMMA SampleMakes ==
  ASSUME NEW o, NEW s, IsState(s), NEW i, NEW t, NEW r, r = sample_with_time(o, s, i, t)
  PROVE  /\ i.k = "periodic" =>
              Makes(r, s.n, s.items, <<>>, <<Work(t, "sample", <<Item(i)>>),
                                             Work(Item(i) + o.p, "periodic", <<Item(i) + o.p>>)>>)
         /\ i.k = "sample" /\ s.items = <<>> => Makes(r, s.n, s.items, <<>>, <<>>)
         /\ i.k = "sample" /\ s.items # <<>> => Makes(r, s.n, <<>>, <<OnNext(s.items)>>, <<>>)
         /\ i.k = "next" => Makes(r, s.n, i.v, <<>>, <<>>)
         /\ i.k \in {"error", "completed"} => Makes(r, s.n, s.items, <<Passed(i)>>, <<>>)
<1>1. Becomes(s, s.n, s.items)
  BY Unchanged
<1>2. i.k = "periodic" =>
        r = Arm(Arm(Does(s, <<>>), t, "sample", <<Item(i)>>), Item(i) + o.p, "periodic", <<Item(i) + o.p>>)
  BY DEF sample_with_time, Periodically, Quietly
<1>3. i.k = "sample" /\ s.items = <<>> => r = Quietly(s)
  BY DEF sample_with_time
<1>4. i.k = "sample" /\ s.items # <<>> => r = Does([s EXCEPT !.items = <<>>], <<OnNext(s.items)>>)
  BY DEF sample_with_time, Push
<1>5. i.k = "next" => r = Quietly([s EXCEPT !.items = i.v])
  BY DEF sample_with_time
<1>6. i.k \in {"error", "completed"} => r = Forward(s, i)
  BY DEF sample_with_time
<1>7. i.k = "periodic" =>
              Makes(r, s.n, s.items, <<>>, <<Work(t, "sample", <<Item(i)>>),
                                             Work(Item(i) + o.p, "periodic", <<Item(i) + o.p>>)>>)
  BY <1>1, <1>2, ArmTwiceMakes
<1>8. i.k = "sample" /\ s.items = <<>> => Makes(r, s.n, s.items, <<>>, <<>>)
  BY <1>1, <1>3, QuietMakes
<1>9. i.k = "sample" /\ s.items # <<>> => Makes(r, s.n, <<>>, <<OnNext(s.items)>>, <<>>)
  BY <1>4, ItemsChanged, DoesMakes
<1>10. i.k = "next" => Makes(r, s.n, i.v, <<>>, <<>>)
  BY <1>5, ItemsChanged, QuietMakes
<1>11. i.k \in {"error", "completed"} => Makes(r, s.n, s.items, <<Passed(i)>>, <<>>)
  BY <1>1, <1>6, ForwardMakes
<1> QED
  BY <1>7, <1>8, <1>9, <1>10, <1>11

\* What a completion of buffer_with_time() sends: all chunks, and the end.
Chunks(items) == [j \in DOMAIN items |-> OnNext(items[j])] \o <<OnCompleted>>

LEMMA BufferMakes ==
  ASSUME NEW o, NEW s, IsState(s), NEW i, NEW t, NEW r, r = buffer_with_time(o, s, i, t)
  PROVE  /\ i.k = "periodic" =>
              Makes(r, s.n, s.items, <<>>, <<Work(t, "create", <<Item(i)>>),
                                             Work(Item(i) + o.m, "periodic", <<Item(i) + o.m>>)>>)
         /\ i.k = "create" =>
              Makes(r, s.n + o.m, Append(s.items, <<>>), <<>>, <<Work(s.n + o.p, "hop", <<s.n>>)>>)
         /\ i.k = "hop" => Makes(r, s.n, s.items, <<>>, <<Work(t, "produce", i.v)>>)
         /\ i.k = "produce" /\ s.items = <<>> => Makes(r, s.n, s.items, <<Nowhere>>, <<>>)
         /\ i.k = "produce" /\ s.items # <<>> =>
              Makes(r, s.n, Tail(s.items), <<OnNext(Head(s.items))>>, <<>>)
         /\ i.k = "next" =>
              Makes(r, s.n, [j \in DOMAIN s.items |-> Append(s.items[j], Item(i))], <<>>, <<>>)
         /\ i.k = "completed" => Makes(r, s.n, <<>>, Chunks(s.items), <<>>)
         /\ i.k = "error" => Makes(r, s.n, s.items, <<Passed(i)>>, <<>>)
<1>1. Becomes(s, s.n, s.items)
  BY Unchanged
<1>2. i.k = "periodic" =>
        r = Arm(Arm(Does(s, <<>>), t, "create", <<Item(i)>>), Item(i) + o.m, "periodic", <<Item(i) + o.m>>)
  BY DEF buffer_with_time, Periodically, Quietly
<1>3. i.k = "create" =>
        r = Arm(Does(WithItemsN(s, Append(s.items, <<>>), s.n + o.m), <<>>), s.n + o.p, "hop", <<s.n>>)
  BY DEF buffer_with_time, Quietly, WithItemsN
<1>4. i.k = "hop" => r = Arm(Does(s, <<>>), t, "produce", i.v)
  BY DEF buffer_with_time, Quietly
<1>5. i.k = "produce" /\ s.items = <<>> => r = Does(s, <<Nowhere>>)
  BY DEF buffer_with_time, Undefined, Nowhere
<1>6. i.k = "produce" /\ s.items # <<>> =>
        r = Does([s EXCEPT !.items = Tail(s.items)], <<OnNext(Head(s.items))>>)
  BY DEF buffer_with_time, Push
<1>7. i.k = "next" =>
        r = Quietly([s EXCEPT !.items = [j \in DOMAIN s.items |-> Append(s.items[j], Item(i))]])
  BY DEF buffer_with_time
<1>8. i.k = "completed" => r = Does([s EXCEPT !.items = <<>>], Chunks(s.items))
  BY DEF buffer_with_time, Chunks
<1>9. i.k = "error" => r = Forward(s, i)
  BY DEF buffer_with_time
<1>10. i.k = "periodic" =>
              Makes(r, s.n, s.items, <<>>, <<Work(t, "create", <<Item(i)>>),
                                             Work(Item(i) + o.m, "periodic", <<Item(i) + o.m>>)>>)
  BY <1>1, <1>2, ArmTwiceMakes
<1>11. i.k = "create" =>
              Makes(r, s.n + o.m, Append(s.items, <<>>), <<>>, <<Work(s.n + o.p, "hop", <<s.n>>)>>)
  BY <1>3, BothChanged, ArmMakes
<1>12. i.k = "hop" => Makes(r, s.n, s.items, <<>>, <<Work(t, "produce", i.v)>>)
  BY <1>1, <1>4, ArmMakes
<1>13. i.k = "produce" /\ s.items = <<>> => Makes(r, s.n, s.items, <<Nowhere>>, <<>>)
  BY <1>1, <1>5, DoesMakes
<1>14. i.k = "produce" /\ s.items # <<>> =>
              Makes(r, s.n, Tail(s.items), <<OnNext(Head(s.items))>>, <<>>)
  BY <1>6, ItemsChanged, DoesMakes
<1>15. i.k = "next" =>
              Makes(r, s.n, [j \in DOMAIN s.items |-> Append(s.items[j], Item(i))], <<>>, <<>>)
  BY <1>7, ItemsChanged, QuietMakes
<1>16. i.k = "completed" => Makes(r, s.n, <<>>, Chunks(s.items), <<>>)
  BY <1>8, ItemsChanged, DoesMakes
<1>17. i.k = "error" => Makes(r, s.n, s.items, <<Passed(i)>>, <<>>)
  BY <1>1, <1>9, ForwardMakes
<1> QED
  BY <1>10, <1>11, <1>12, <1>13, <1>14, <1>15, <1>16, <1>17

LEMMA ProduceMakes ==
  ASSUME NEW o, NEW u, NEW n, NEW items, Becomes(u, n, items), NEW e
  PROVE  Makes(Produce(o, u, e), n + 1, <<>>, <<OnNext(items)>>,
               <<Work(e + o.p, "hop", <<n + 1, e + o.p>>)>>)
<1>1. IsState(u) /\ u.n = n /\ u.items = items
  BY DEF Becomes
<1>2. Produce(o, u, e) =
        Arm(Does(WithItemsN(u, <<>>, n + 1), <<OnNext(items)>>), e + o.p, "hop", <<n + 1, e + o.p>>)
  BY <1>1 DEF Produce, Push, WithItemsN
<1> QED
  BY <1>1, <1>2, BothChanged, ArmMakes

LEMMA BufferOrCountMakes ==
  ASSUME NEW o, NEW s, IsState(s), NEW i, NEW t, NEW r, r = buffer_with_time_or_count(o, s, i, t)
  PROVE  LET more == Append(s.items, Item(i)) IN
         /\ i.k = "hop" => Makes(r, s.n, s.items, <<>>, <<Work(t, "produce", i.v)>>)
         /\ i.k = "produce" /\ Item(i) # s.n => Makes(r, s.n, s.items, <<>>, <<>>)
         /\ i.k = "produce" /\ Item(i) = s.n =>
              Makes(r, s.n + 1, <<>>, <<OnNext(s.items)>>,
                    <<Work(i.v[2] + o.p, "hop", <<s.n + 1, i.v[2] + o.p>>)>>)
         /\ i.k = "next" /\ Len(more) = o.n =>
              Makes(r, s.n + 1, <<>>, <<OnNext(more)>>,
                    <<Work(t + o.p, "hop", <<s.n + 1, t + o.p>>)>>)
         /\ i.k = "next" /\ Len(more) # o.n => Makes(r, s.n, more, <<>>, <<>>)
         /\ i.k = "completed" => Makes(r, s.n, s.items, <<OnNext(s.items), OnCompleted>>, <<>>)
         /\ i.k = "error" => Makes(r, s.n, s.items, <<Passed(i)>>, <<>>)
<1> DEFINE more == Append(s.items, Item(i))
           u == [s EXCEPT !.items = more]
<1>1. Becomes(s, s.n, s.items)
  BY Unchanged
<1>2. Becomes(u, s.n, more)
  BY ItemsChanged
<1>3. u.items = more
  BY <1>2 DEF Becomes
<1>4. i.k = "hop" => r = Arm(Does(s, <<>>), t, "produce", i.v)
  BY DEF buffer_with_time_or_count, Quietly
<1>5. i.k = "produce" /\ Item(i) # s.n => r = Quietly(s)
  BY DEF buffer_with_time_or_count
<1>6. i.k = "produce" /\ Item(i) = s.n => r = Produce(o, s, i.v[2])
  BY DEF buffer_with_time_or_count
<1>7. i.k = "next" => r = IF Len(u.items) = o.n THEN Produce(o, u, t) ELSE Quietly(u)
  BY DEF buffer_with_time_or_count
<1>8. i.k = "completed" => r = Does(s, <<OnNext(s.items), OnCompleted>>)
  BY DEF buffer_with_time_or_count, Finish
<1>9. i.k = "error" => r = Forward(s, i)
  BY DEF buffer_with_time_or_count
<1> HIDE DEF u, more
<1>10. i.k = "hop" => Makes(r, s.n, s.items, <<>>, <<Work(t, "produce", i.v)>>)
  BY <1>1, <1>4, ArmMakes
<1>11. i.k = "produce" /\ Item(i) # s.n => Makes(r, s.n, s.items, <<>>, <<>>)
  BY <1>1, <1>5, QuietMakes
<1>12. i.k = "produce" /\ Item(i) = s.n =>
              Makes(r, s.n + 1, <<>>, <<OnNext(s.items)>>,
                    <<Work(i.v[2] + o.p, "hop", <<s.n + 1, i.v[2] + o.p>>)>>)
  BY <1>1, <1>6, ProduceMakes
<1>13. i.k = "next" /\ Len(more) = o.n =>
              Makes(r, s.n + 1, <<>>, <<OnNext(more)>>,
                    <<Work(t + o.p, "hop", <<s.n + 1, t + o.p>>)>>)
  BY <1>2, <1>3, <1>7, ProduceMakes
<1>14. i.k = "next" /\ Len(more) # o.n => Makes(r, s.n, more, <<>>, <<>>)
  BY <1>2, <1>3, <1>7, QuietMakes
<1>15. i.k = "completed" => Makes(r, s.n, s.items, <<OnNext(s.items), OnCompleted>>, <<>>)
  BY <1>1, <1>8, DoesMakes
<1>16. i.k = "error" => Makes(r, s.n, s.items, <<Passed(i)>>, <<>>)
  BY <1>1, <1>9, ForwardMakes
<1> QED
  BY <1>10, <1>11, <1>12, <1>13, <1>14, <1>15, <1>16 DEF more

LEMMA IntervalMakes ==
  ASSUME NEW o, NEW s, IsState(s), NEW i, NEW t, i.k = "periodic"
  PROVE  Makes(interval(o, s, i, t), s.n + 1, s.items, <<OnNext(<<s.n + 1>>)>>,
               <<Work(Item(i) + o.p, "periodic", <<Item(i) + o.p>>)>>)
<1>1. interval(o, s, i, t) =
        Arm(Does([s EXCEPT !.n = s.n + 1], <<OnNext(<<s.n + 1>>)>>), Item(i) + o.p, "periodic",
            <<Item(i) + o.p>>)
  BY DEF interval, Push
<1> QED
  BY <1>1, NChanged, ArmMakes

LEMMA TimerMakes ==
  ASSUME NEW o, NEW s, IsState(s), NEW i, NEW t, i.k = "producer"
  PROVE  Makes(timer(o, s, i, t), s.n, s.items, <<OnNext(<<1>>), OnCompleted>>, <<>>)
BY Unchanged, DoesMakes DEF timer, Finish

LEMMA InTimeIs ==
  ASSUME NEW o, NEW s, NEW i, NEW t
  PROVE  /\ o.name = "delay" => InTime(o, s, i, t) = delay(o, s, i, t)
         /\ o.name = "debounce" => InTime(o, s, i, t) = debounce(o, s, i, t)
         /\ o.name = "timeout" => InTime(o, s, i, t) = timeout(o, s, i, t)
         /\ o.name = "sample_with_time" => InTime(o, s, i, t) = sample_with_time(o, s, i, t)
         /\ o.name = "buffer_with_time" => InTime(o, s, i, t) = buffer_with_time(o, s, i, t)
         /\ o.name = "buffer_with_time_or_count" =>
              InTime(o, s, i, t) = buffer_with_time_or_count(o, s, i, t)
         /\ o.name = "interval" => InTime(o, s, i, t) = interval(o, s, i, t)
         /\ o.name = "timer" => InTime(o, s, i, t) = timer(o, s, i, t)
BY DEF InTime

(* The operators that promise not to be early, and the work of each.          *)
Relays == {"delay", "debounce", "timeout", "buffer_with_time_or_count", "buffer_with_time",
           "sample_with_time"}
Keeping == Relays \cup {"interval", "timer"}

FromSource == {"next", "error", "completed"}
Own(o, k) ==
  \/ o.name = "debounce" /\ k = "produce"
  \/ o.name = "timeout" /\ k \in {"start", "produce"}
  \/ o.name = "buffer_with_time_or_count" /\ k \in {"hop", "produce"}
  \/ o.name = "buffer_with_time" /\ k \in {"periodic", "create", "hop", "produce"}
  \/ o.name = "sample_with_time" /\ k \in {"periodic", "sample"}
  \/ o.name = "interval" /\ k = "periodic"
  \/ o.name = "timer" /\ k = "producer"

IsOne(v) == \E x \in Nat : v = <<x>>
IsTwo(v) == \E x, y \in Nat : v = <<x, y>>
Dated(o, k) == o.name = "buffer_with_time_or_count" /\ k \in {"hop", "produce"}

IsWork(o, i) ==
  /\ i = [s |-> i.s, k |-> i.k, v |-> i.v]
  /\ Own(o, i.k) \/ (o.name \in Relays /\ i.k \in FromSource \cup {"dispose"})
  /\ Dated(o, i.k) => IsTwo(i.v)
  /\ i.k \in {"next", "periodic", "sample", "hop", "produce"} /\ ~Dated(o, i.k) => IsOne(i.v)

IsTask(o, a) == a.at \in Nat /\ IsWork(o, a.w)
Arms(o, arm) ==
  \/ arm = <<>>
  \/ \E e : IsTask(o, e) /\ arm = <<e>>
  \/ \E e, f : IsTask(o, e) /\ IsTask(o, f) /\ arm = <<e, f>>

Fine(o, r) ==
  /\ r.on = {}
  /\ IsState(r.st) /\ r.st.n \in Nat /\ IsList(r.st.items)
  /\ Speaks(r.push) \/ r.push = <<Nowhere>>
  /\ Arms(o, r.arm)

LEMMA OneIs == ASSUME NEW i, IsOne(i.v) PROVE Item(i) \in Nat /\ IsList(i.v) /\ i.v # <<>>
<1>1. PICK x \in Nat : i.v = <<x>>
  BY DEF IsOne
<1>2. PICK w : w = <<x>>
  OBVIOUS
<1>3. w \in Seq(Nat) /\ w[1] = x /\ Len(w) = 1 /\ w # <<>>
  BY <1>2
<1>4. IsList(w)
  BY <1>3 DEF IsList
<1> QED
  BY <1>1, <1>2, <1>3, <1>4 DEF Item

LEMMA TwoIs == ASSUME NEW i, IsTwo(i.v) PROVE Item(i) \in Nat /\ i.v[2] \in Nat
BY DEF IsTwo, Item

LEMMA TaskIs ==
  ASSUME NEW o, NEW at \in Nat, NEW k, NEW v, Own(o, k),
         IF Dated(o, k) THEN IsTwo(v) ELSE IsOne(v)
  PROVE  IsTask(o, Work(at, k, v))
BY DEF IsTask, IsWork, Work, Signal

LEMMA SpeaksNothing == Speaks(<<>>)
<1> DEFINE T == {}
<1>1. <<>> \in Seq(T) /\ \A x \in T : x.s = 0 /\ x.k # "open" /\ x.k # "undefined"
  OBVIOUS
<1> HIDE DEF T
<1> QED
  BY <1>1 DEF Speaks

LEMMA SpeaksOne ==
  ASSUME NEW e, e.s = 0, e.k # "open", e.k # "undefined" PROVE Speaks(<<e>>)
<1> DEFINE T == {e}
<1>1. <<e>> \in Seq(T) /\ \A x \in T : x.s = 0 /\ x.k # "open" /\ x.k # "undefined"
  OBVIOUS
<1> HIDE DEF T
<1> QED
  BY <1>1 DEF Speaks

LEMMA SpeaksTwo ==
  ASSUME NEW d, d.s = 0, d.k # "open", d.k # "undefined",
         NEW e, e.s = 0, e.k # "open", e.k # "undefined"
  PROVE  Speaks(<<d, e>>)
<1> DEFINE T == {d, e}
<1>1. <<d, e>> \in Seq(T) /\ \A x \in T : x.s = 0 /\ x.k # "open" /\ x.k # "undefined"
  OBVIOUS
<1> HIDE DEF T
<1> QED
  BY <1>1 DEF Speaks

LEMMA SignalFields ==
  /\ \A v : OnNext(v).s = 0 /\ OnNext(v).k = "next" /\ OnNext(v).v = v
  /\ OnError.s = 0 /\ OnError.k = "error"
  /\ OnCompleted.s = 0 /\ OnCompleted.k = "completed"
BY DEF OnNext, OnError, OnCompleted, Signal

LEMMA PassedFields ==
  ASSUME NEW i, i = [s |-> i.s, k |-> i.k, v |-> i.v]
  PROVE  Passed(i).s = 0 /\ Passed(i).k = i.k /\ Passed(i).v = i.v
BY DEF Passed

LEMMA ChunksAre ==
  ASSUME NEW items, IsList(items)
  PROVE  /\ Speaks(Chunks(items)) /\ Len(items) \in Nat /\ Len(Chunks(items)) = Len(items) + 1
         /\ \A j \in 1 .. Len(items) : Chunks(items)[j].s = 0 /\ Chunks(items)[j].k = "next"
         /\ Chunks(items)[Len(items) + 1] = OnCompleted
<1> DEFINE n == Len(items)
           p == [j \in DOMAIN items |-> OnNext(items[j])]
           T == {e \in {p[j] : j \in 1 .. n} \cup {OnCompleted} : e.k # "open"}
<1>1. n \in Nat /\ DOMAIN items = 1 .. n
  BY DEF IsList
<1>2. \A j \in 1 .. n : p[j] = OnNext(items[j])
  BY <1>1
<1>3. \A j \in 1 .. n : p[j].s = 0 /\ p[j].k = "next"
  <2> HIDE DEF p
  <2> QED
    BY <1>2, SignalFields
<1>4. PICK W : /\ p \in Seq(W) /\ OnCompleted \in W
               /\ \A e \in W : e.s = 0 /\ (e.k = "next" \/ e.k = "completed")
  <2> DEFINE V == {p[j] : j \in 1 .. n} \cup {OnCompleted}
  <2>1. p \in Seq(V) /\ OnCompleted \in V
    BY <1>1
  <2>2. \A e \in V : e.s = 0 /\ (e.k = "next" \/ e.k = "completed")
    <3> HIDE DEF p
    <3> QED
      BY <1>3, SignalFields
  <2> HIDE DEF V, p
  <2> QED
    BY <2>1, <2>2
<1>5. Len(p) = n
  BY <1>1
<1>6. PICK one : one = <<OnCompleted>>
  OBVIOUS
<1>7. one \in Seq(W) /\ Len(one) = 1 /\ one[1] = OnCompleted
  BY <1>4, <1>6
<1>8. Chunks(items) = p \o one
  BY <1>6 DEF Chunks
<1> HIDE DEF p, n
<1> DEFINE c == p \o one
<1>9. /\ c \in Seq(W) /\ Len(c) = Len(p) + Len(one)
      /\ \A k \in 1 .. Len(p) + Len(one) : c[k] = IF k <= Len(p) THEN p[k] ELSE one[k - Len(p)]
  BY <1>4, <1>7, ConcatProperties
<1> HIDE DEF c
<1>10. Len(c) = n + 1
  BY <1>5, <1>7, <1>9
<1>11. \A j \in 1 .. n : c[j].s = 0 /\ c[j].k = "next"
  BY <1>1, <1>3, <1>5, <1>7, <1>9
<1>12. c[n + 1] = OnCompleted
  <2>1. n + 1 \in 1 .. Len(p) + Len(one) /\ ~(n + 1 <= Len(p)) /\ n + 1 - Len(p) = 1
    BY <1>1, <1>5, <1>7
  <2> QED
    BY <2>1, <1>7, <1>9
<1>13. Speaks(c)
  BY <1>4, <1>9 DEF Speaks
<1> QED
  BY <1>1, <1>8, <1>10, <1>11, <1>12, <1>13 DEF c, n

LEMMA MadeFine ==
  ASSUME NEW o, NEW r, NEW n \in Nat, NEW items, IsList(items), NEW push, NEW arm,
         Makes(r, n, items, push, arm), Speaks(push) \/ push = <<Nowhere>>, Arms(o, arm)
  PROVE  Fine(o, r)
BY DEF Fine, Makes, Becomes

LEMMA SpeaksPassed ==
  ASSUME NEW i, i = [s |-> i.s, k |-> i.k, v |-> i.v], i.k \in FromSource
  PROVE  Speaks(<<Passed(i)>>)
<1>1. PICK e : e = Passed(i)
  OBVIOUS
<1>2. e.s = 0 /\ e.k # "open" /\ e.k # "undefined"
  BY <1>1, PassedFields DEF FromSource
<1> QED
  BY <1>1, <1>2, SpeaksOne

LEMMA SpeaksSignals ==
  /\ \A v : Speaks(<<OnNext(v)>>) /\ Speaks(<<OnNext(v), OnCompleted>>)
  /\ Speaks(<<OnError>>) /\ Speaks(<<OnCompleted>>)
<1>1. ASSUME NEW v PROVE Speaks(<<OnNext(v)>>) /\ Speaks(<<OnNext(v), OnCompleted>>)
  <2>1. PICK d, e : d = OnNext(v) /\ e = OnCompleted
    OBVIOUS
  <2>2. d.s = 0 /\ d.k = "next" /\ e.s = 0 /\ e.k = "completed"
    BY <2>1, SignalFields
  <2>3. Speaks(<<d>>) /\ Speaks(<<d, e>>)
    BY <2>2, SpeaksOne, SpeaksTwo
  <2> QED
    BY <2>1, <2>3
<1>2. Speaks(<<OnError>>)
  BY SignalFields, SpeaksOne
<1>3. Speaks(<<OnCompleted>>)
  BY SignalFields, SpeaksOne
<1> QED
  BY <1>1, <1>2, <1>3

LEMMA ArmsNothing == ASSUME NEW o PROVE Arms(o, <<>>)
BY DEF Arms
LEMMA ArmsOne == ASSUME NEW o, NEW e, IsTask(o, e) PROVE Arms(o, <<e>>)
BY DEF Arms
LEMMA ArmsTwo == ASSUME NEW o, NEW e, NEW f, IsTask(o, e), IsTask(o, f) PROVE Arms(o, <<e, f>>)
BY DEF Arms

LEMMA OneOf == ASSUME NEW x \in Nat PROVE IsOne(<<x>>)
BY DEF IsOne
LEMMA TwoOf == ASSUME NEW x \in Nat, NEW y \in Nat PROVE IsTwo(<<x, y>>)
BY DEF IsTwo

LEMMA DelayFine ==
  ASSUME NEW o, o.name = "delay", NEW s, IsState(s), s.n \in Nat, IsList(s.items),
         NEW i, IsWork(o, i), i.k # "dispose", NEW t \in Nat
  PROVE  Fine(o, delay(o, s, i, t))
<1>1. i = [s |-> i.s, k |-> i.k, v |-> i.v] /\ i.k \in FromSource /\ i.k # "subscribe"
  BY DEF IsWork, Own, FromSource
<1>2. Makes(delay(o, s, i, t), s.n, s.items, <<Passed(i)>>, <<>>)
  BY <1>1, DelayMakes
<1>3. Speaks(<<Passed(i)>>)
  BY <1>1, SpeaksPassed
<1> QED
  BY <1>2, <1>3, ArmsNothing, MadeFine

LEMMA DebounceFine ==
  ASSUME NEW o, o.name = "debounce", o.p \in Nat, NEW s, IsState(s), s.n \in Nat, IsList(s.items),
         NEW i, IsWork(o, i), i.k # "dispose", NEW t \in Nat
  PROVE  Fine(o, debounce(o, s, i, t))
<1>1. i.k \in {"next", "produce", "error", "completed"} /\ (i.k = "next" => IsOne(i.v))
  BY DEF IsWork, Own, FromSource, Dated
<1> DEFINE r == debounce(o, s, i, t)
           e == Work(t + o.p, "produce", <<s.n + 1>>)
<1>2. CASE i.k = "next"
  <2>1. Makes(r, s.n + 1, i.v, <<>>, <<e>>)
    BY <1>2, DebounceMakes
  <2>2. IsTask(o, e)
    <3>1. s.n + 1 \in Nat /\ t + o.p \in Nat
      OBVIOUS
    <3>2. IsOne(<<s.n + 1>>)
      BY <3>1, OneOf
    <3> QED
      BY <3>1, <3>2, TaskIs DEF Own, Dated
  <2>3. Arms(o, <<e>>)
    BY <2>2, ArmsOne
  <2>4. IsList(i.v)
    BY <1>1, <1>2, OneIs
  <2> HIDE DEF r, e
  <2>5. Fine(o, r)
    BY <2>1, <2>3, <2>4, SpeaksNothing, MadeFine
  <2> QED
    BY <2>5 DEF r
<1>3. IsList(<<>>)
  BY DEF IsList
<1>4. CASE i.k = "produce" /\ Item(i) # s.n
  <2>1. Makes(r, s.n, s.items, <<>>, <<>>)
    BY <1>4, DebounceMakes
  <2> QED
    BY <2>1, SpeaksNothing, ArmsNothing, MadeFine
<1>5. CASE i.k = "produce" /\ Item(i) = s.n /\ s.items = <<>>
  <2>1. Makes(r, s.n, s.items, <<Nowhere>>, <<>>)
    BY <1>5, DebounceMakes
  <2> QED
    BY <2>1, ArmsNothing, MadeFine
<1>6. CASE i.k = "produce" /\ Item(i) = s.n /\ s.items # <<>>
  <2>1. Makes(r, s.n, <<>>, <<OnNext(s.items)>>, <<>>)
    BY <1>6, DebounceMakes
  <2> QED
    BY <2>1, <1>3, SpeaksSignals, ArmsNothing, MadeFine
<1>7. CASE i.k = "error"
  <2>1. Makes(r, s.n, <<>>, <<OnError>>, <<>>)
    BY <1>7, DebounceMakes
  <2> QED
    BY <2>1, <1>3, SpeaksSignals, ArmsNothing, MadeFine
<1>8. CASE i.k = "completed" /\ s.items = <<>>
  <2>1. Makes(r, s.n, s.items, <<OnCompleted>>, <<>>)
    BY <1>8, DebounceMakes
  <2> QED
    BY <2>1, SpeaksSignals, ArmsNothing, MadeFine
<1>9. CASE i.k = "completed" /\ s.items # <<>>
  <2>1. Makes(r, s.n, s.items, <<OnNext(s.items), OnCompleted>>, <<>>)
    BY <1>9, DebounceMakes
  <2> QED
    BY <2>1, SpeaksSignals, ArmsNothing, MadeFine
<1> QED
  BY <1>1, <1>2, <1>4, <1>5, <1>6, <1>7, <1>8, <1>9

LEMMA TimeoutFine ==
  ASSUME NEW o, o.name = "timeout", o.p \in Nat, NEW s, IsState(s), s.n \in Nat, IsList(s.items),
         NEW i, IsWork(o, i), i.k # "dispose", NEW t \in Nat
  PROVE  Fine(o, timeout(o, s, i, t))
<1>1. i.k \in {"start", "next", "produce", "error", "completed"}
      /\ i = [s |-> i.s, k |-> i.k, v |-> i.v]
  BY DEF IsWork, Own, FromSource
<1> DEFINE r == timeout(o, s, i, t)
           e == Work(t + o.p, "produce", <<s.n + 1>>)
<1>2. s.n + 1 \in Nat /\ t + o.p \in Nat
  OBVIOUS
<1>3. Arms(o, <<e>>)
  <2>1. IsOne(<<s.n + 1>>)
    BY <1>2, OneOf
  <2>2. IsTask(o, e)
    BY <2>1, <1>2, TaskIs DEF Own, Dated
  <2> QED
    BY <2>2, ArmsOne
<1>4. CASE i.k = "start"
  <2>1. Makes(r, s.n + 1, s.items, <<>>, <<e>>)
    BY <1>4, TimeoutMakes
  <2> HIDE DEF r, e
  <2>2. Fine(o, r)
    BY <2>1, <1>2, <1>3, SpeaksNothing, MadeFine
  <2> QED
    BY <2>2 DEF r
<1>5. CASE i.k = "next"
  <2>1. Makes(r, s.n + 1, s.items, <<OnNext(i.v)>>, <<e>>)
    BY <1>5, TimeoutMakes
  <2> HIDE DEF r, e
  <2>2. Fine(o, r)
    BY <2>1, <1>2, <1>3, SpeaksSignals, MadeFine
  <2> QED
    BY <2>2 DEF r
<1>6. CASE i.k = "produce" /\ Item(i) # s.n
  <2>1. Makes(r, s.n, s.items, <<>>, <<>>)
    BY <1>6, TimeoutMakes
  <2> QED
    BY <2>1, SpeaksNothing, ArmsNothing, MadeFine
<1>7. CASE i.k = "produce" /\ Item(i) = s.n
  <2>1. Makes(r, s.n, s.items, <<OnError>>, <<>>)
    BY <1>7, TimeoutMakes
  <2> QED
    BY <2>1, SpeaksSignals, ArmsNothing, MadeFine
<1>8. CASE i.k \in {"error", "completed"}
  <2>1. Makes(r, s.n, s.items, <<Passed(i)>>, <<>>)
    BY <1>8, TimeoutMakes
  <2>2. Speaks(<<Passed(i)>>)
    BY <1>1, <1>8, SpeaksPassed DEF FromSource
  <2> QED
    BY <2>1, <2>2, ArmsNothing, MadeFine
<1> QED
  BY <1>1, <1>4, <1>5, <1>6, <1>7, <1>8

LEMMA SampleFine ==
  ASSUME NEW o, o.name = "sample_with_time", o.p \in Nat, NEW s, IsState(s), s.n \in Nat,
         IsList(s.items), NEW i, IsWork(o, i), i.k # "dispose", NEW t \in Nat
  PROVE  Fine(o, sample_with_time(o, s, i, t))
<1>1. /\ i.k \in {"periodic", "sample", "next", "error", "completed"}
      /\ i = [s |-> i.s, k |-> i.k, v |-> i.v]
      /\ i.k \in {"periodic", "next"} => IsOne(i.v)
  BY DEF IsWork, Own, FromSource, Dated
<1> DEFINE r == sample_with_time(o, s, i, t)
           e == Work(t, "sample", <<Item(i)>>)
           f == Work(Item(i) + o.p, "periodic", <<Item(i) + o.p>>)
<1>2. IsList(<<>>)
  BY DEF IsList
<1>3. CASE i.k = "periodic"
  <2>1. Makes(r, s.n, s.items, <<>>, <<e, f>>)
    BY <1>3, SampleMakes
  <2>2. Item(i) \in Nat /\ Item(i) + o.p \in Nat
    BY <1>1, <1>3, OneIs
  <2>3. IsTask(o, e) /\ IsTask(o, f)
    <3>1. IsOne(<<Item(i)>>) /\ IsOne(<<Item(i) + o.p>>)
      BY <2>2, OneOf
    <3>2. IsTask(o, e)
      BY <3>1, TaskIs DEF Own, Dated
    <3>3. IsTask(o, f)
      BY <2>2, <3>1, TaskIs DEF Own, Dated
    <3> QED
      BY <3>2, <3>3
  <2> HIDE DEF r, e, f
  <2>4. Arms(o, <<e, f>>)
    BY <2>3, ArmsTwo
  <2>5. Fine(o, r)
    BY <2>1, <2>4, SpeaksNothing, MadeFine
  <2> QED
    BY <2>5 DEF r
<1>4. CASE i.k = "sample" /\ s.items = <<>>
  <2>1. Makes(r, s.n, s.items, <<>>, <<>>)
    BY <1>4, SampleMakes
  <2> QED
    BY <2>1, SpeaksNothing, ArmsNothing, MadeFine
<1>5. CASE i.k = "sample" /\ s.items # <<>>
  <2>1. Makes(r, s.n, <<>>, <<OnNext(s.items)>>, <<>>)
    BY <1>5, SampleMakes
  <2> QED
    BY <2>1, <1>2, SpeaksSignals, ArmsNothing, MadeFine
<1>6. CASE i.k = "next"
  <2>1. Makes(r, s.n, i.v, <<>>, <<>>)
    BY <1>6, SampleMakes
  <2>2. IsList(i.v)
    BY <1>1, <1>6, OneIs
  <2> QED
    BY <2>1, <2>2, SpeaksNothing, ArmsNothing, MadeFine
<1>7. CASE i.k \in {"error", "completed"}
  <2>1. Makes(r, s.n, s.items, <<Passed(i)>>, <<>>)
    BY <1>7, SampleMakes
  <2>2. Speaks(<<Passed(i)>>)
    BY <1>1, <1>7, SpeaksPassed DEF FromSource
  <2> QED
    BY <2>1, <2>2, ArmsNothing, MadeFine
<1> QED
  BY <1>1, <1>3, <1>4, <1>5, <1>6, <1>7

LEMMA ListsStay ==
  ASSUME NEW items, IsList(items), NEW x
  PROVE  /\ IsList([j \in DOMAIN items |-> Append(items[j], x)])
         /\ items # <<>> => IsList(Tail(items))
         /\ IsList(<<>>)
<1>1. Len(items) \in Nat /\ DOMAIN items = 1 .. Len(items)
  BY DEF IsList
<1> DEFINE f == [j \in DOMAIN items |-> Append(items[j], x)]
           T == {Append(items[j], x) : j \in DOMAIN items}
<1>2. f \in Seq(T)
  BY <1>1
<1>3. IsList(f)
  <2> HIDE DEF f, T
  <2> QED
    BY <1>2 DEF IsList
<1>4. ASSUME items # <<>> PROVE IsList(Tail(items))
  <2>1. PICK V : items \in Seq(V)
    BY DEF IsList
  <2>2. Tail(items) \in Seq(V)
    BY <1>4, <2>1
  <2> QED
    BY <2>2 DEF IsList
<1>5. IsList(<<>>)
  BY DEF IsList
<1> QED
  BY <1>3, <1>4, <1>5

LEMMA BufferFine ==
  ASSUME NEW o, o.name = "buffer_with_time", o.p \in Nat, o.m \in Nat, NEW s, IsState(s),
         s.n \in Nat, IsList(s.items), NEW i, IsWork(o, i), i.k # "dispose", NEW t \in Nat
  PROVE  Fine(o, buffer_with_time(o, s, i, t))
<1>1. /\ i.k \in {"periodic", "create", "hop", "produce", "next", "error", "completed"}
      /\ i = [s |-> i.s, k |-> i.k, v |-> i.v]
      /\ i.k \in {"periodic", "hop", "produce", "next"} => IsOne(i.v)
  BY DEF IsWork, Own, FromSource, Dated
<1> DEFINE r == buffer_with_time(o, s, i, t)
<1>2. IsList(<<>>)
  BY DEF IsList
<1>3. CASE i.k = "periodic"
  <2> DEFINE e == Work(t, "create", <<Item(i)>>)
             f == Work(Item(i) + o.m, "periodic", <<Item(i) + o.m>>)
  <2>1. Makes(r, s.n, s.items, <<>>, <<e, f>>)
    BY <1>3, BufferMakes
  <2>2. Item(i) \in Nat /\ Item(i) + o.m \in Nat
    BY <1>1, <1>3, OneIs
  <2>3. IsTask(o, e) /\ IsTask(o, f)
    <3>1. IsOne(<<Item(i)>>) /\ IsOne(<<Item(i) + o.m>>)
      BY <2>2, OneOf
    <3>2. IsTask(o, e)
      BY <3>1, TaskIs DEF Own, Dated
    <3>3. IsTask(o, f)
      BY <2>2, <3>1, TaskIs DEF Own, Dated
    <3> QED
      BY <3>2, <3>3
  <2> HIDE DEF r, e, f
  <2>4. Arms(o, <<e, f>>)
    BY <2>3, ArmsTwo
  <2>5. Fine(o, r)
    BY <2>1, <2>4, SpeaksNothing, MadeFine
  <2> QED
    BY <2>5 DEF r
<1>4. CASE i.k = "create"
  <2> DEFINE e == Work(s.n + o.p, "hop", <<s.n>>)
  <2>1. Makes(r, s.n + o.m, Append(s.items, <<>>), <<>>, <<e>>)
    BY <1>4, BufferMakes
  <2>2. IsTask(o, e)
    <3>1. IsOne(<<s.n>>) /\ s.n + o.p \in Nat
      BY OneOf
    <3> QED
      BY <3>1, TaskIs DEF Own, Dated
  <2>3. Arms(o, <<e>>)
    BY <2>2, ArmsOne
  <2>4. IsList(Append(s.items, <<>>)) /\ s.n + o.m \in Nat
    BY Appended
  <2> HIDE DEF r, e
  <2>5. Fine(o, r)
    BY <2>1, <2>3, <2>4, SpeaksNothing, MadeFine
  <2> QED
    BY <2>5 DEF r
<1>5. CASE i.k = "hop"
  <2> DEFINE e == Work(t, "produce", i.v)
  <2>1. Makes(r, s.n, s.items, <<>>, <<e>>)
    BY <1>5, BufferMakes
  <2>2. IsTask(o, e)
    BY <1>1, <1>5, TaskIs DEF Own, Dated
  <2>3. Arms(o, <<e>>)
    BY <2>2, ArmsOne
  <2> HIDE DEF r, e
  <2>5. Fine(o, r)
    BY <2>1, <2>3, SpeaksNothing, MadeFine
  <2> QED
    BY <2>5 DEF r
<1>6. CASE i.k = "produce" /\ s.items = <<>>
  <2>1. Makes(r, s.n, s.items, <<Nowhere>>, <<>>)
    BY <1>6, BufferMakes
  <2> QED
    BY <2>1, ArmsNothing, MadeFine
<1>7. CASE i.k = "produce" /\ s.items # <<>>
  <2>1. Makes(r, s.n, Tail(s.items), <<OnNext(Head(s.items))>>, <<>>)
    BY <1>7, BufferMakes
  <2>2. IsList(Tail(s.items))
    BY <1>7, ListsStay
  <2> QED
    BY <2>1, <2>2, SpeaksSignals, ArmsNothing, MadeFine
<1>8. CASE i.k = "next"
  <2> DEFINE items == [j \in DOMAIN s.items |-> Append(s.items[j], Item(i))]
  <2>1. Makes(r, s.n, items, <<>>, <<>>)
    BY <1>8, BufferMakes
  <2>2. IsList(items)
    BY ListsStay
  <2> HIDE DEF items
  <2> QED
    BY <2>1, <2>2, SpeaksNothing, ArmsNothing, MadeFine
<1>9. CASE i.k = "completed"
  <2>1. Makes(r, s.n, <<>>, Chunks(s.items), <<>>)
    BY <1>9, BufferMakes
  <2>2. Speaks(Chunks(s.items))
    BY ChunksAre
  <2> QED
    BY <2>1, <2>2, <1>2, ArmsNothing, MadeFine
<1>10. CASE i.k = "error"
  <2>1. Makes(r, s.n, s.items, <<Passed(i)>>, <<>>)
    BY <1>10, BufferMakes
  <2>2. Speaks(<<Passed(i)>>)
    BY <1>1, <1>10, SpeaksPassed DEF FromSource
  <2> QED
    BY <2>1, <2>2, ArmsNothing, MadeFine
<1> QED
  BY <1>1, <1>3, <1>4, <1>5, <1>6, <1>7, <1>8, <1>9, <1>10

LEMMA BufferOrCountFine ==
  ASSUME NEW o, o.name = "buffer_with_time_or_count", o.p \in Nat, NEW s, IsState(s),
         s.n \in Nat, IsList(s.items), NEW i, IsWork(o, i), i.k # "dispose", NEW t \in Nat
  PROVE  Fine(o, buffer_with_time_or_count(o, s, i, t))
<1>1. /\ i.k \in {"hop", "produce", "next", "error", "completed"}
      /\ i = [s |-> i.s, k |-> i.k, v |-> i.v]
      /\ i.k \in {"hop", "produce"} => IsTwo(i.v)
      /\ i.k = "next" => IsOne(i.v)
  BY DEF IsWork, Own, FromSource, Dated
<1> DEFINE r == buffer_with_time_or_count(o, s, i, t)
           more == Append(s.items, Item(i))
<1>2. IsList(<<>>) /\ IsList(more)
  BY Appended, ListsStay
<1>3. \A u \in Nat : Arms(o, <<Work(u + o.p, "hop", <<s.n + 1, u + o.p>>)>>)
  <2> SUFFICES ASSUME NEW u \in Nat
               PROVE  Arms(o, <<Work(u + o.p, "hop", <<s.n + 1, u + o.p>>)>>)
    OBVIOUS
  <2>1. IsTwo(<<s.n + 1, u + o.p>>) /\ u + o.p \in Nat
    <3>1. s.n + 1 \in Nat /\ u + o.p \in Nat
      OBVIOUS
    <3> QED
      BY <3>1, TwoOf
  <2>2. IsTask(o, Work(u + o.p, "hop", <<s.n + 1, u + o.p>>))
    BY <2>1, TaskIs DEF Own, Dated
  <2> QED
    BY <2>2, ArmsOne
<1> HIDE DEF more
<1>4. CASE i.k = "hop"
  <2> DEFINE e == Work(t, "produce", i.v)
  <2>1. Makes(r, s.n, s.items, <<>>, <<e>>)
    BY <1>4, BufferOrCountMakes
  <2>2. IsTask(o, e)
    BY <1>1, <1>4, TaskIs DEF Own, Dated
  <2>3. Arms(o, <<e>>)
    BY <2>2, ArmsOne
  <2> HIDE DEF r, e
  <2>5. Fine(o, r)
    BY <2>1, <2>3, SpeaksNothing, MadeFine
  <2> QED
    BY <2>5 DEF r
<1>5. CASE i.k = "produce" /\ Item(i) # s.n
  <2>1. Makes(r, s.n, s.items, <<>>, <<>>)
    BY <1>5, BufferOrCountMakes
  <2> QED
    BY <2>1, SpeaksNothing, ArmsNothing, MadeFine
<1>6. CASE i.k = "produce" /\ Item(i) = s.n
  <2> DEFINE u == i.v[2]
             e == Work(u + o.p, "hop", <<s.n + 1, u + o.p>>)
  <2>1. Makes(r, s.n + 1, <<>>, <<OnNext(s.items)>>, <<e>>)
    BY <1>6, BufferOrCountMakes
  <2>2. u \in Nat
    BY <1>1, <1>6, TwoIs
  <2>3. Arms(o, <<e>>)
    BY <2>2, <1>3
  <2>4. s.n + 1 \in Nat
    OBVIOUS
  <2> HIDE DEF r, e
  <2>5. Fine(o, r)
    BY <2>1, <2>3, <2>4, <1>2, SpeaksSignals, MadeFine
  <2> QED
    BY <2>5 DEF r
<1>7. CASE i.k = "next" /\ Len(more) = o.n
  <2> DEFINE e == Work(t + o.p, "hop", <<s.n + 1, t + o.p>>)
  <2>1. Makes(r, s.n + 1, <<>>, <<OnNext(more)>>, <<e>>)
    BY <1>7, BufferOrCountMakes DEF more
  <2>3. Arms(o, <<e>>)
    BY <1>3
  <2>4. s.n + 1 \in Nat
    OBVIOUS
  <2> HIDE DEF r, e
  <2>5. Fine(o, r)
    BY <2>1, <2>3, <2>4, <1>2, SpeaksSignals, MadeFine
  <2> QED
    BY <2>5 DEF r
<1>8. CASE i.k = "next" /\ Len(more) # o.n
  <2>1. Makes(r, s.n, more, <<>>, <<>>)
    BY <1>8, BufferOrCountMakes DEF more
  <2> QED
    BY <2>1, <1>2, SpeaksNothing, ArmsNothing, MadeFine
<1>9. CASE i.k = "completed"
  <2>1. Makes(r, s.n, s.items, <<OnNext(s.items), OnCompleted>>, <<>>)
    BY <1>9, BufferOrCountMakes
  <2> QED
    BY <2>1, SpeaksSignals, ArmsNothing, MadeFine
<1>10. CASE i.k = "error"
  <2>1. Makes(r, s.n, s.items, <<Passed(i)>>, <<>>)
    BY <1>10, BufferOrCountMakes
  <2>2. Speaks(<<Passed(i)>>)
    BY <1>1, <1>10, SpeaksPassed DEF FromSource
  <2> QED
    BY <2>1, <2>2, ArmsNothing, MadeFine
<1> QED
  BY <1>1, <1>4, <1>5, <1>6, <1>7, <1>8, <1>9, <1>10

LEMMA IntervalFine ==
  ASSUME NEW o, o.name = "interval", o.p \in Nat, NEW s, IsState(s), s.n \in Nat, IsList(s.items),
         NEW i, IsWork(o, i), NEW t \in Nat
  PROVE  Fine(o, interval(o, s, i, t))
<1>1. i.k = "periodic" /\ IsOne(i.v)
  BY DEF IsWork, Own, FromSource, Dated, Relays
<1> DEFINE e == Work(Item(i) + o.p, "periodic", <<Item(i) + o.p>>)
           r == interval(o, s, i, t)
<1>2. Makes(r, s.n + 1, s.items, <<OnNext(<<s.n + 1>>)>>, <<e>>)
  BY <1>1, IntervalMakes
<1>3. Item(i) \in Nat /\ Item(i) + o.p \in Nat /\ s.n + 1 \in Nat
  BY <1>1, OneIs
<1>4. IsTask(o, e)
  <2>1. IsOne(<<Item(i) + o.p>>)
    BY <1>3, OneOf
  <2> QED
    BY <1>3, <2>1, TaskIs DEF Own, Dated
<1> HIDE DEF r, e
<1>5. Arms(o, <<e>>)
  BY <1>4, ArmsOne
<1>6. Fine(o, r)
  BY <1>2, <1>3, <1>5, SpeaksSignals, MadeFine
<1> QED
  BY <1>6 DEF r

LEMMA TimerFine ==
  ASSUME NEW o, o.name = "timer", NEW s, IsState(s), s.n \in Nat, IsList(s.items),
         NEW i, IsWork(o, i), NEW t \in Nat
  PROVE  Fine(o, timer(o, s, i, t))
<1>1. i.k = "producer"
  BY DEF IsWork, Own, FromSource, Dated, Relays
<1>2. Makes(timer(o, s, i, t), s.n, s.items, <<OnNext(<<1>>), OnCompleted>>, <<>>)
  BY <1>1, TimerMakes
<1> QED
  BY <1>2, SpeaksSignals, ArmsNothing, MadeFine

LEMMA CallFine ==
  ASSUME NEW o, o.name \in Keeping, o.p \in Nat, o.m \in Nat, NEW s, IsState(s), s.n \in Nat,
         IsList(s.items), NEW i, IsWork(o, i), i.k # "dispose", NEW t \in Nat
  PROVE  Fine(o, InTime(o, s, i, t))
<1>1. o.name = "delay" => Fine(o, InTime(o, s, i, t))
  BY InTimeIs, DelayFine
<1>2. o.name = "debounce" => Fine(o, InTime(o, s, i, t))
  BY InTimeIs, DebounceFine
<1>3. o.name = "timeout" => Fine(o, InTime(o, s, i, t))
  BY InTimeIs, TimeoutFine
<1>4. o.name = "sample_with_time" => Fine(o, InTime(o, s, i, t))
  BY InTimeIs, SampleFine
<1>5. o.name = "buffer_with_time" => Fine(o, InTime(o, s, i, t))
  BY InTimeIs, BufferFine
<1>6. o.name = "buffer_with_time_or_count" => Fine(o, InTime(o, s, i, t))
  BY InTimeIs, BufferOrCountFine
<1>7. o.name = "interval" => Fine(o, InTime(o, s, i, t))
  BY InTimeIs, IntervalFine
<1>8. o.name = "timer" => Fine(o, InTime(o, s, i, t))
  BY InTimeIs, TimerFine
<1> QED
  BY <1>1, <1>2, <1>3, <1>4, <1>5, <1>6, <1>7, <1>8 DEF Keeping, Relays

\* What waits stays of the operator's own kind.
Tasks(o, q) == IsQueue(q) /\ \A a : In(q, a) => IsTask(o, a)

LEMMA RanTasks ==
  ASSUME NEW o, NEW q, Tasks(o, q), q # <<>>, NEW arm, Arms(o, arm)
  PROVE  Tasks(o, EnqueueAll(Tail(q), arm))
<1>1. IsQueue(q) /\ \A a : In(q, a) => IsTask(o, a)
  BY DEF Tasks
<1>2. CASE arm = <<>>
  BY <1>1, <1>2, RanQuietly DEF Tasks
<1>3. ASSUME NEW e, IsTask(o, e), arm = <<e>> PROVE Tasks(o, EnqueueAll(Tail(q), arm))
  <2>1. e.at \in Nat
    BY <1>3 DEF IsTask
  <2>2. IsQueue(EnqueueAll(Tail(q), arm))
    BY <1>1, <1>3, <2>1, RanArming
  <2>3. \A a : In(EnqueueAll(Tail(q), arm), a) => a = e \/ In(q, a)
    BY <1>1, <1>3, <2>1, RanArming
  <2> QED
    BY <1>1, <1>3, <2>2, <2>3 DEF Tasks
<1>4. ASSUME NEW e, NEW f, IsTask(o, e), IsTask(o, f), arm = <<e, f>>
      PROVE  Tasks(o, EnqueueAll(Tail(q), arm))
  <2>1. e.at \in Nat /\ f.at \in Nat
    BY <1>4 DEF IsTask
  <2>2. IsQueue(EnqueueAll(Tail(q), arm))
    BY <1>1, <1>4, <2>1, RanArmingTwo
  <2>3. \A a : In(EnqueueAll(Tail(q), arm), a) => a = e \/ a = f \/ In(q, a)
    BY <1>1, <1>4, <2>1, RanArmingTwo
  <2> QED
    BY <1>1, <1>4, <2>2, <2>3 DEF Tasks
<1> QED
  BY <1>2, <1>3, <1>4 DEF Arms

LEMMA EnqueuedTask ==
  ASSUME NEW o, NEW q, Tasks(o, q), NEW e, IsTask(o, e)
  PROVE  Tasks(o, enqueue(q, e))
<1>1. IsQueue(q) /\ e.at \in Nat
  BY DEF Tasks, IsTask
<1>2. IsQueue(enqueue(q, e))
  BY <1>1, Enqueued
<1>3. \A a : In(enqueue(q, e), a) <=> In(q, a) \/ a = e
  BY <1>1, Enqueued
<1> QED
  BY <1>2, <1>3 DEF Tasks

LEMMA NothingMore == ASSUME NEW s, IsList(s) PROVE s \o <<>> = s
<1>1. PICK V : s \in Seq(V)
  BY DEF IsList
<1> QED
  BY <1>1, ConcatEmptySeq

LEMMA KeepingNames ==
  ASSUME NEW o, o.name \in Keeping
  PROVE  /\ o.name # "finally" /\ o.name # "scope" /\ o.name # "group_by"
         /\ o.name # "synchronize" /\ o.name # "observe_on" /\ o.name # "tap"
         /\ o.name \in Disposing <=> o.name \in Relays
         /\ o.name \in Relaying <=> o.name \in Relays
BY DEF Keeping, Relays, Disposing, Relaying

LEMMA NoLastCall ==
  ASSUME NEW o, o.name \in Keeping, NEW s, NEW before, NEW after
  PROVE  LastCall(o, s, before, after) = <<>>
<1>1. o.name # "finally" /\ o.name # "scope"
  BY KeepingNames
<1> QED
  BY <1>1 DEF LastCall

\* Channels, of which only that of the output.
OfOutput(channels) == channels \subseteq {0}

\* No channel is opened, and no source subscribed but those of the call.
LeavesRest(r, h, sources, channels) ==
  h.st = r.st /\ h.live \subseteq channels /\ h.on \subseteq sources \cup r.on

\* The worker has its work, or the disposer as well, or nothing any more.
LeavesWork(o, h, arms, t) ==
  \/ h.queue = arms
  \/ 0 \notin h.live /\ h.queue = <<>>
  \/ 0 \notin h.live /\ o.name \in Relays /\ h.queue = enqueue(arms, Work(t, "dispose", <<>>))

\* What the observer hears of a call, and where that leaves the worker.
LEMMA OutcomeSpeaks ==
  ASSUME NEW o, o.name \in Keeping, NEW r, Speaks(r.push), NEW t, NEW q, NEW sources,
         NEW channels, OfOutput(channels), NEW seen, IsList(seen),
         NEW h, h = Outcome(o, r, t, q, sources, channels, seen), NEW arms, arms = EnqueueAll(q, r.arm)
  PROVE  /\ LeavesRest(r, h, sources, channels)
         /\ \E n \in 0 .. Len(r.push) : Hears(o.quit, channels, seen, r.push, h, n)
         /\ LeavesWork(o, h, arms, t)
<1> DEFINE broken == \E n \in ToSet(r.push) : n.k = "undefined"
           d == Deliver(o.quit, channels, seen, r.push)
           lost == 0 \in channels /\ 0 \notin d.live
           armed == EnqueueAll(q, r.arm)
           S == (sources \ r.off) \cup r.on
           on2 == IF Released(o, d.live) /\ ~Lingers(o, r.st) THEN {} ELSE S
           out2 == d.out \o LastCall(o, r.st, channels, d.live)
           queue2 == IF lost /\ o.name \notin Disposing THEN <<>>
                     ELSE IF lost THEN enqueue(armed, Work(t, "dispose", <<>>)) ELSE armed
           c == Outcome(o, r, t, q, sources, channels, seen)
<1>1. ~broken
  <2>1. PICK T : r.push \in Seq(T) /\ \A e \in T : e.k # "undefined"
    BY DEF Speaks
  <2>2. \A e \in ToSet(r.push) : e \in T
    BY <2>1 DEF ToSet
  <2> QED
    BY <2>1, <2>2
<1>2. c.st = r.st /\ c.live = d.live /\ c.out = out2 /\ c.on = on2 /\ c.queue = queue2
  <2> HIDE DEF broken
  <2> USE <1>1
  <2>1. broken = (\E n \in ToSet(r.push) : n.k = "undefined")
    BY DEF broken
  <2> QED
    BY <2>1 DEF Outcome
<1>3. d.live \subseteq channels /\ \E n \in 0 .. Len(r.push) : Hears(o.quit, channels, seen, r.push, d, n)
  <2>1. channels \in SUBSET {0}
    BY DEF OfOutput
  <2> QED
    BY <2>1, Delivered
<1>9. h = c /\ arms = armed
  OBVIOUS
<1> HIDE DEF d, armed, c, broken
<1>4. IsList(d.out)
  BY <1>3 DEF Hears, Extends
<1>5. out2 = d.out
  <2>1. LastCall(o, r.st, channels, d.live) = <<>>
    BY NoLastCall
  <2> QED
    BY <2>1, <1>4, NothingMore
<1>6. \E n \in 0 .. Len(r.push) : Hears(o.quit, channels, seen, r.push, c, n)
  BY <1>2, <1>3, <1>5 DEF Hears
<1>7. on2 \subseteq sources \cup r.on
  OBVIOUS
<1>8. \/ queue2 = armed
      \/ 0 \notin d.live /\ queue2 = <<>>
      \/ 0 \notin d.live /\ o.name \in Relays /\ queue2 = enqueue(armed, Work(t, "dispose", <<>>))
  BY KeepingNames
<1> HIDE DEF on2, queue2, out2
<1> QED
  BY <1>2, <1>3, <1>6, <1>7, <1>8, <1>9 DEF LeavesWork, LeavesRest

LEMMA OutcomeBroken ==
  ASSUME NEW o, o.name \in Keeping, NEW r, r.push = <<Nowhere>>, NEW t, NEW q, NEW sources,
         NEW channels, NEW seen, IsList(seen)
  PROVE  LET c == Outcome(o, r, t, q, sources, channels, seen)
         IN /\ c.st = r.st /\ c.live = {} /\ c.on = {} /\ c.queue = <<>>
            /\ Extends(seen, r.push, 1, c.out) /\ r.push[1].s # 0
<1> DEFINE broken == \E n \in ToSet(r.push) : n.k = "undefined"
           out2 == (seen \o r.push) \o LastCall(o, r.st, channels, {})
           c == Outcome(o, r, t, q, sources, channels, seen)
<1>0. PICK e : e = Nowhere
  OBVIOUS
<1>1. e.k = "undefined" /\ e.s # 0
  BY <1>0 DEF Nowhere, Signal, Side
<1>2. r.push = <<e>> /\ r.push[1] = e /\ Len(r.push) = 1 /\ 1 \in DOMAIN r.push
  BY <1>0
<1>3. broken
  BY <1>1, <1>2 DEF ToSet
<1>4. c.st = r.st /\ c.live = {} /\ c.out = out2 /\ c.on = {} /\ c.queue = <<>>
  <2> HIDE DEF broken
  <2> USE <1>3
  <2>1. broken = (\E n \in ToSet(r.push) : n.k = "undefined")
    BY DEF broken
  <2> QED
    BY <2>1 DEF Outcome
<1> HIDE DEF c, broken
<1>5. PICK V : seen \in Seq(V)
  BY DEF IsList
<1>6. PICK W : seen \in Seq(W) /\ r.push \in Seq(W)
  <2>1. seen \in Seq(V \cup {e}) /\ e \in V \cup {e}
    BY <1>5, SeqMonotonic
  <2>2. PICK W : seen \in Seq(W) /\ e \in W
    BY <2>1
  <2> QED
    BY <2>2, <1>2
<1> DEFINE u == seen \o r.push
<1>7. /\ u \in Seq(W) /\ Len(u) = Len(seen) + Len(r.push)
      /\ \A k \in 1 .. Len(seen) + Len(r.push) :
            u[k] = IF k <= Len(seen) THEN seen[k] ELSE r.push[k - Len(seen)]
  BY <1>6, ConcatProperties
<1>8. LastCall(o, r.st, channels, {}) = <<>>
  BY NoLastCall
<1> HIDE DEF u
<1>9. IsList(u) /\ Len(seen) \in Nat
  BY <1>6, <1>7 DEF IsList
<1>10. out2 = u
  BY <1>8, <1>9, NothingMore DEF u
<1>11. Extends(seen, r.push, 1, u)
  <2>1. \A j \in 1 .. Len(seen) : u[j] = seen[j]
    BY <1>2, <1>7, <1>9
  <2>2. u[Len(seen) + 1] = r.push[1]
    BY <1>2, <1>7, <1>9
  <2>3. \A j \in 1 .. 1 : u[Len(seen) + j] = r.push[j]
    BY <2>2
  <2> QED
    BY <2>1, <2>3, <1>2, <1>7, <1>9 DEF Extends
<1> HIDE DEF out2
<1> QED
  BY <1>1, <1>2, <1>4, <1>10, <1>11 DEF c

(* The observer hears the first c signals of what a call says, at time t.     *)
Hearing(o, seen, push, c, stamps, t, seen2, stamps2) ==
  /\ IsList(seen) /\ Len(stamps) = Len(seen) /\ Len(push) \in Nat /\ c \in 0 .. Len(push)
  /\ Extends(seen, push, c, seen2)
  /\ Stamped(stamps, Len(seen), Len(seen2), t, stamps2)
  /\ c = Len(push) \/ (c # 0 /\ (Terminal(push[c]) \/ o.quit = Len(seen2)))

LEMMA HearingIs ==
  ASSUME NEW o, NEW seen, NEW push, NEW c, NEW stamps, NEW t, NEW seen2, NEW stamps2,
         Hearing(o, seen, push, c, stamps, t, seen2, stamps2)
  PROVE  /\ Len(seen) \in Nat /\ c \in Nat /\ Len(seen2) = Len(seen) + c /\ Len(push) \in Nat
         /\ \A k \in 1 .. c : seen2[Len(seen) + k] = push[k] /\ stamps2[Len(seen) + k] = t
         /\ \A j \in 1 .. Len(seen) : seen2[j] = seen[j] /\ stamps2[j] = stamps[j]
<1>1. Len(seen) \in Nat /\ c \in Nat /\ Len(push) \in Nat
  BY DEF Hearing, IsList
<1>2. Len(seen2) = Len(seen) + c
  BY DEF Hearing, Extends
<1>3. \A k \in 1 .. c : seen2[Len(seen) + k] = push[k]
  BY DEF Hearing, Extends
<1>4. ASSUME NEW k \in 1 .. c PROVE stamps2[Len(seen) + k] = t
  <2>1. Len(seen) + k \in Len(seen) + 1 .. Len(seen2)
    BY <1>1, <1>2
  <2> QED
    BY <2>1 DEF Hearing, Stamped
<1>5. \A j \in 1 .. Len(seen) : seen2[j] = seen[j] /\ stamps2[j] = stamps[j]
  BY DEF Hearing, Extends, Stamped
<1> QED
  BY <1>1, <1>2, <1>3, <1>4, <1>5

\* A call says one thing, or two.
Single(p, e) == Len(p) = 1 /\ p[1] = e

LEMMA OneSaid ==
  ASSUME NEW r, NEW e, r.push = <<e>>
  PROVE  Single(r.push, e)
<1>1. PICK p : p = <<e>>
  OBVIOUS
<1>2. Len(p) = 1 /\ p[1] = e
  BY <1>1
<1> QED
  BY <1>1, <1>2 DEF Single

LEMMA TwoSaid ==
  ASSUME NEW r, NEW d, NEW e, r.push = <<d, e>>
  PROVE  Len(r.push) = 2 /\ r.push[1] = d /\ r.push[2] = e
<1>1. PICK p : p = <<d, e>>
  OBVIOUS
<1>2. Len(p) = 2 /\ p[1] = d /\ p[2] = e
  BY <1>1
<1> QED
  BY <1>1, <1>2

HeardOnly(seen, e, c, t, seen2, stamps2) ==
  \A k \in 1 .. c : k = 1 /\ seen2[Len(seen) + k] = e /\ stamps2[Len(seen) + k] = t

LEMMA HeardOne ==
  ASSUME NEW o, NEW seen, NEW push, NEW e, Single(push, e), NEW c, NEW stamps, NEW t, NEW seen2,
         NEW stamps2, Hearing(o, seen, push, c, stamps, t, seen2, stamps2)
  PROVE  HeardOnly(seen, e, c, t, seen2, stamps2)
<1> SUFFICES ASSUME NEW k \in 1 .. c
             PROVE  k = 1 /\ seen2[Len(seen) + k] = e /\ stamps2[Len(seen) + k] = t
  BY DEF HeardOnly
<1>1. Len(push) = 1 /\ push[1] = e
  BY DEF Single
<1>2. c \in 0 .. Len(push)
  BY DEF Hearing
<1>3. k = 1
  BY <1>1, <1>2
<1>4. seen2[Len(seen) + k] = push[k] /\ stamps2[Len(seen) + k] = t
  BY HearingIs
<1> QED
  BY <1>1, <1>3, <1>4

-----------------------------------------------------------------------------
(* The values on their way: all that the source has sent after the L-th, each *)
(* due when it was sent, in their order.                                      *)
IsNext(a) == a.w.k = "next"
Pending(q, values, L) ==
  /\ L \in Nat /\ Len(values) \in Nat /\ L <= Len(values)
  /\ \A v \in 1 .. Len(values) : values[v].at \in Nat
  /\ \A a : In(q, a) /\ IsNext(a) =>
       Item(a.w) \in L + 1 .. Len(values) /\ a.at = values[Item(a.w)].at
  /\ \A a, b : Ahead(q, a, b) /\ IsNext(a) /\ IsNext(b) => Item(a.w) < Item(b.w)
  /\ \A v \in L + 1 .. Len(values) : \E a : In(q, a) /\ IsNext(a) /\ Item(a.w) = v

\* A queue whose head has run, and which has got no further value.
Derived(q, r) ==
  /\ \A a : In(r, a) /\ IsNext(a) => In(q, a) /\ Ahead(q, Head(q), a)
  /\ \A a : In(q, a) => a = Head(q) \/ In(r, a)
  /\ \A a, b : Ahead(r, a, b) /\ IsNext(a) /\ IsNext(b) => Ahead(q, a, b)

LEMMA DerivedQuietly ==
  ASSUME NEW q, IsQueue(q), q # <<>>, NEW arm, arm = <<>>
  PROVE  Derived(q, EnqueueAll(Tail(q), arm))
BY RanQuietly DEF Derived

LEMMA DerivedArming ==
  ASSUME NEW q, IsQueue(q), q # <<>>, NEW e, e.at \in Nat, ~IsNext(e), NEW arm, arm = <<e>>
  PROVE  Derived(q, EnqueueAll(Tail(q), arm))
<1> DEFINE r == EnqueueAll(Tail(q), arm)
<1>1. /\ \A a : In(r, a) => a = e \/ (In(q, a) /\ Ahead(q, Head(q), a))
      /\ \A a : In(q, a) => a = Head(q) \/ In(r, a)
      /\ \A a, b : Ahead(r, a, b) =>
              \/ Ahead(q, a, b)
              \/ In(q, a) /\ b = e /\ Ahead(q, Head(q), a)
              \/ a = e /\ In(q, b) /\ e.at < b.at
  BY RanArming
<1> HIDE DEF r
<1>2. Derived(q, r)
  BY <1>1 DEF Derived
<1> QED
  BY <1>2 DEF r

LEMMA PendingRuns ==
  ASSUME NEW q, IsQueue(q), q # <<>>, NEW values, NEW L, Pending(q, values, L), ~IsNext(Head(q)),
         NEW r, Derived(q, r)
  PROVE  /\ Pending(r, values, L)
         /\ L < Len(values) => Head(q).at <= values[L + 1].at
<1>1. In(q, Head(q))
  BY Dequeued
<1>2. ASSUME NEW v \in L + 1 .. Len(values)
      PROVE  \E a : In(r, a) /\ IsNext(a) /\ Item(a.w) = v
  BY DEF Pending, Derived
<1>3. ASSUME L < Len(values) PROVE Head(q).at <= values[L + 1].at
  <2>1. L + 1 \in L + 1 .. Len(values)
    BY <1>3 DEF Pending
  <2>2. PICK a : In(r, a) /\ IsNext(a) /\ Item(a.w) = L + 1
    BY <2>1, <1>2
  <2>3. Ahead(q, Head(q), a) /\ In(q, a)
    BY <2>2 DEF Derived
  <2>4. Head(q).at <= a.at
    BY <2>3 DEF IsQueue
  <2> QED
    BY <2>2, <2>3, <2>4 DEF Pending
<1> QED
  BY <1>2, <1>3 DEF Pending, Derived

LEMMA PendingTakes ==
  ASSUME NEW q, IsQueue(q), q # <<>>, NEW values, NEW L, Pending(q, values, L), IsNext(Head(q)),
         NEW r, Derived(q, r)
  PROVE  /\ Pending(r, values, L + 1)
         /\ Item(Head(q).w) = L + 1 /\ L < Len(values) /\ Head(q).at = values[L + 1].at
<1> DEFINE h == Head(q)
<1>1. In(q, h)
  BY Dequeued
<1>2. L \in Nat /\ Len(values) \in Nat /\ Item(h.w) \in L + 1 .. Len(values)
      /\ h.at = values[Item(h.w)].at
  BY <1>1 DEF Pending
<1>3. Item(h.w) = L + 1
  <2> SUFFICES ASSUME Item(h.w) # L + 1 PROVE FALSE
    OBVIOUS
  <2>1. L + 1 \in L + 1 .. Len(values)
    BY <1>2
  <2>2. PICK a : In(q, a) /\ IsNext(a) /\ Item(a.w) = L + 1
    BY <2>1 DEF Pending
  <2>3. a # h /\ In(r, a)
    BY <2>2 DEF Derived
  <2>4. Ahead(q, h, a)
    BY <2>2, <2>3 DEF Derived
  <2>5. Item(h.w) < Item(a.w)
    BY <2>2, <2>4 DEF Pending
  <2> QED
    BY <2>2, <2>5, <1>2
<1>4. ASSUME NEW a, In(r, a), IsNext(a)
      PROVE  Item(a.w) \in L + 1 + 1 .. Len(values) /\ a.at = values[Item(a.w)].at
  <2>1. In(q, a) /\ Ahead(q, h, a)
    BY <1>4 DEF Derived
  <2>2. Item(h.w) < Item(a.w) /\ Item(a.w) \in L + 1 .. Len(values) /\ a.at = values[Item(a.w)].at
    BY <2>1, <1>4 DEF Pending
  <2> QED
    BY <2>2, <1>2, <1>3
<1>5. ASSUME NEW v \in L + 1 + 1 .. Len(values)
      PROVE  \E a : In(r, a) /\ IsNext(a) /\ Item(a.w) = v
  <2>1. v \in L + 1 .. Len(values) /\ v # L + 1
    BY <1>2
  <2>2. PICK a : In(q, a) /\ IsNext(a) /\ Item(a.w) = v
    BY <2>1 DEF Pending
  <2>3. In(r, a)
    BY <2>1, <2>2, <1>3 DEF Derived
  <2> QED
    BY <2>2, <2>3
<1>6. L + 1 \in Nat /\ L + 1 <= Len(values)
  BY <1>2
<1> HIDE DEF h
<1>7. Pending(r, values, L + 1)
  BY <1>4, <1>5, <1>6 DEF Pending, Derived
<1> QED
  BY <1>2, <1>3, <1>7 DEF h

\* The source sends another value, or something else comes.
LEMMA PendingSends ==
  ASSUME NEW q, IsQueue(q), NEW values, IsList(values), NEW L, Pending(q, values, L), NEW t \in Nat,
         \A v \in 1 .. Len(values) : values[v].at <= t,
         NEW e, e.at = t, IsNext(e), Item(e.w) = Len(values) + 1, NEW l, l.at = t
  PROVE  Pending(enqueue(q, e), Append(values, l), L)
<1> DEFINE r == enqueue(q, e)
           more == Append(values, l)
<1>1. /\ \A a : In(r, a) <=> In(q, a) \/ a = e
      /\ \A a, b : Ahead(r, a, b) =>
              \/ Ahead(q, a, b)
              \/ In(q, a) /\ a.at <= e.at /\ b = e
              \/ a = e /\ In(q, b) /\ e.at < b.at
  BY Enqueued
<1>2. /\ Len(more) = Len(values) + 1 /\ more[Len(values) + 1] = l
      /\ \A v \in 1 .. Len(values) : more[v] = values[v]
  BY Appended
<1> HIDE DEF r, more
<1>3. L \in Nat /\ Len(values) \in Nat /\ L <= Len(values) /\ L <= Len(values) + 1
  BY DEF Pending
<1>4. \A a : In(q, a) /\ IsNext(a) =>
        Item(a.w) \in L + 1 .. Len(values) /\ a.at = values[Item(a.w)].at
  BY DEF Pending
<1>5. ASSUME NEW a, In(r, a), IsNext(a)
      PROVE  Item(a.w) \in L + 1 .. Len(more) /\ a.at = more[Item(a.w)].at
  <2>1. CASE a = e
    BY <2>1, <1>2, <1>3
  <2>2. CASE In(q, a)
    <3>1. Item(a.w) \in L + 1 .. Len(values) /\ a.at = values[Item(a.w)].at
      BY <2>2, <1>4, <1>5
    <3>2. Item(a.w) \in 1 .. Len(values)
      BY <3>1, <1>3
    <3> QED
      BY <3>1, <3>2, <1>2, <1>3
  <2> QED
    BY <2>1, <2>2, <1>1, <1>5
<1>6. ASSUME NEW a, NEW b, Ahead(r, a, b), IsNext(a), IsNext(b) PROVE Item(a.w) < Item(b.w)
  <2>1. CASE Ahead(q, a, b)
    BY <2>1, <1>6 DEF Pending
  <2>2. CASE In(q, a) /\ b = e
    <3>1. Item(a.w) \in L + 1 .. Len(values)
      BY <2>2, <1>4, <1>6
    <3> QED
      BY <2>2, <3>1, <1>3
  <2>3. CASE a = e /\ In(q, b) /\ e.at < b.at
    <3>1. Item(b.w) \in L + 1 .. Len(values) /\ b.at = values[Item(b.w)].at
      BY <2>3, <1>4, <1>6
    <3>2. Item(b.w) \in 1 .. Len(values)
      BY <3>1, <1>3
    <3>3. b.at <= t /\ b.at \in Nat
      BY <3>1, <3>2 DEF Pending
    <3> QED
      BY <2>3, <3>3
  <2> QED
    BY <2>1, <2>2, <2>3, <1>1, <1>6
<1>7. ASSUME NEW v \in L + 1 .. Len(more) PROVE \E a : In(r, a) /\ IsNext(a) /\ Item(a.w) = v
  <2>1. CASE v = Len(values) + 1
    BY <2>1, <1>1
  <2>2. CASE v # Len(values) + 1
    <3>1. v \in L + 1 .. Len(values)
      BY <2>2, <1>2, <1>3
    <3> QED
      BY <3>1, <1>1 DEF Pending
  <2> QED
    BY <2>1, <2>2
<1>8. ASSUME NEW v \in 1 .. Len(more) PROVE more[v].at \in Nat
  <2>1. CASE v = Len(values) + 1
    BY <2>1, <1>2
  <2>2. CASE v # Len(values) + 1
    <3>1. v \in 1 .. Len(values)
      BY <2>2, <1>2, <1>3
    <3> QED
      BY <3>1, <1>2 DEF Pending
  <2> QED
    BY <2>1, <2>2
<1>9. Len(more) \in Nat /\ L <= Len(more)
  BY <1>2, <1>3
<1>10. Pending(r, more, L)
  BY <1>3, <1>5, <1>6, <1>7, <1>8, <1>9 DEF Pending
<1> QED
  BY <1>10 DEF r, more

LEMMA PendingWaits ==
  ASSUME NEW q, IsQueue(q), NEW values, NEW L, Pending(q, values, L), NEW e, e.at \in Nat, ~IsNext(e)
  PROVE  Pending(enqueue(q, e), values, L)
<1> DEFINE r == enqueue(q, e)
<1>1. /\ \A a : In(r, a) <=> In(q, a) \/ a = e
      /\ \A a, b : Ahead(r, a, b) =>
              \/ Ahead(q, a, b)
              \/ In(q, a) /\ a.at <= e.at /\ b = e
              \/ a = e /\ In(q, b) /\ e.at < b.at
  BY Enqueued
<1> HIDE DEF r
<1>2. \A a : In(r, a) /\ IsNext(a) => In(q, a)
  BY <1>1
<1>3. \A a, b : Ahead(r, a, b) /\ IsNext(a) /\ IsNext(b) => Ahead(q, a, b)
  BY <1>1
<1>4. \A v \in L + 1 .. Len(values) : \E a : In(r, a) /\ IsNext(a) /\ Item(a.w) = v
  BY <1>1 DEF Pending
<1>5. Pending(r, values, L)
  BY <1>2, <1>3, <1>4 DEF Pending
<1> QED
  BY <1>5 DEF r

(* What the members, the work that waits and the past have to do with each    *)
(* other, as long as the output is observed: an operator at a time.           *)
IsClosed(hist) == \E l : Entry(hist, l) /\ l.i.k = "completed"

Delaying(o, q, hist) ==
  \A a : In(q, a) =>
    /\ IsNext(a) => IsSent(ValuesOf(hist), Item(a.w)) /\ a.at >= ValuesOf(hist)[Item(a.w)].at + o.p
    /\ a.w.k = "completed" => \E l : Entry(hist, l) /\ l.i.k = "completed" /\ a.at >= l.at + o.p

\* L values have come; the last one is pending or has been sent.
Debouncing(o, s, q, hist, L) ==
  /\ Pending(q, ValuesOf(hist), L)
  /\ s.items = <<>> \/ (L # 0 /\ s.items = <<L>>)
  /\ \A a : In(q, a) /\ a.w.k = "produce" =>
       Item(a.w) <= s.n /\ (Item(a.w) = s.n => L # 0 /\ a.at >= ValuesOf(hist)[L].at + o.p)
  /\ \A a : In(q, a) /\ a.w.k = "completed" => IsClosed(hist)

\* All that came has been sent, and the timer of the last one is not due yet.
Timing(o, s, q, seen, stamps, hist) ==
  /\ Pending(q, ValuesOf(hist), Len(seen))
  /\ \A a : In(q, a) /\ a.w.k = "produce" =>
       Item(a.w) <= s.n /\ (Item(a.w) = s.n => a.at >= Prior(stamps, Len(seen) + 1) + o.p)
  /\ \A a : In(q, a) /\ a.w.k = "error" => EndedBy(hist)

LEMMA HeadIs ==
  ASSUME NEW o, NEW q, Tasks(o, q), q # <<>>
  PROVE  IsQueue(q) /\ In(q, Head(q)) /\ IsWork(o, Head(q).w) /\ Head(q).at \in Nat
BY Dequeued DEF Tasks, IsTask

LEMMA ClosedInPast ==
  ASSUME NEW hist, IsClosed(hist), NEW stamps, NEW n, NEW t, InPast(stamps, n, hist, t)
  PROVE  Closed(hist, t)
BY DEF IsClosed, Closed, InPast

\* A value that is sent with the completion.
LEMMA FlushedNow ==
  ASSUME NEW o, NEW seen, NEW push, NEW c, NEW stamps, NEW t, NEW seen2, NEW stamps2,
         Hearing(o, seen, push, c, stamps, t, seen2, stamps2), NEW hist, Closed(hist, t),
         NEW n \in Nat, Len(push) = n + 1, \A j \in 1 .. n : push[j].k = "next",
         push[n + 1] = OnCompleted, NEW k \in 1 .. c, k <= n
  PROVE  FlushedAt(o, seen2, stamps2, hist, Len(seen) + k)
<1> DEFINE F == Len(seen)
<1>1. /\ F \in Nat /\ c \in Nat /\ Len(seen2) = F + c /\ c <= n + 1
      /\ \A j \in 1 .. c : seen2[F + j] = push[j] /\ stamps2[F + j] = t
  BY HearingIs DEF Hearing
<1> HIDE DEF F
<1>2. CASE c = n + 1
  <2>1. n + 1 \in 1 .. c /\ F + (n + 1) \in F + k .. Len(seen2) /\ F + (n + 1) > F + k
    BY <1>1, <1>2
  <2>2. stamps2[F + (n + 1)] = stamps2[F + k] /\ seen2[F + (n + 1)] = OnCompleted
    BY <2>1, <1>1
  <2>3. Said(seen2, F + (n + 1), "completed")
    BY <2>2, SignalFields DEF Said
  <2> QED
    BY <2>1, <2>2, <2>3 DEF FlushedAt, F
<1>3. CASE c # n + 1
  <2>1. c \in 1 .. n
    BY <1>1, <1>3
  <2>2. ~Terminal(push[c])
    BY <2>1 DEF Terminal
  <2>3. o.quit = Len(seen2)
    BY <2>2, <1>3 DEF Hearing
  <2>4. F + c \in F + k .. Len(seen2) /\ o.quit = F + c /\ stamps2[F + c] = stamps2[F + k]
        /\ stamps2[F + k] = t
    <3>1. c \in 1 .. c /\ Len(seen2) = F + c
      BY <2>1, <1>1
    <3>2. stamps2[F + c] = t /\ stamps2[F + k] = t
      BY <3>1, <1>1
    <3>3. F + c \in F + k .. Len(seen2)
      BY <3>1, <2>1, <1>1
    <3> QED
      BY <2>3, <3>1, <3>2, <3>3
  <2>5. F + c = o.quit /\ Closed(hist, stamps2[F + k])
    BY <2>4
  <2> QED
    BY <2>4, <2>5 DEF FlushedAt, F
<1> QED
  BY <1>2, <1>3

-----------------------------------------------------------------------------
LEMMA DelayRuns ==
  ASSUME NEW o, o.name = "delay", o.p \in Nat, NEW s, IsState(s), NEW q, Tasks(o, q), q # <<>>,
         Head(q).w.k # "dispose", NEW t \in Nat, Head(q).at <= t, NEW hist, Delaying(o, q, hist),
         NEW seen, NEW stamps, InPast(stamps, Len(seen), hist, t),
         NEW r, r = delay(o, s, Head(q).w, t), NEW c, NEW seen2, NEW stamps2,
         Hearing(o, seen, r.push, c, stamps, t, seen2, stamps2)
  PROVE  /\ \A k \in 1 .. c : Punctual(o, seen2, stamps2, hist, Len(seen) + k)
         /\ Delaying(o, EnqueueAll(Tail(q), r.arm), hist)
<1> DEFINE h == Head(q)
           i == Head(q).w
           e == Passed(i)
<1>1. IsQueue(q) /\ In(q, h) /\ IsWork(o, i) /\ h.at \in Nat
  BY HeadIs
<1>2. i = [s |-> i.s, k |-> i.k, v |-> i.v] /\ i.k \in FromSource /\ i.k # "subscribe"
  BY <1>1 DEF IsWork, Own, FromSource
<1>3. Makes(r, s.n, s.items, <<e>>, <<>>)
  BY <1>2, DelayMakes
<1>4. e.s = 0 /\ e.k = i.k /\ e.v = i.v
  BY <1>2, PassedFields
<1>5. r.push = <<e>> /\ r.arm = <<>>
  BY <1>3 DEF Makes
<1>6. /\ IsNext(h) => IsSent(ValuesOf(hist), Item(i)) /\ h.at >= ValuesOf(hist)[Item(i)].at + o.p
      /\ i.k = "completed" => \E l : Entry(hist, l) /\ l.i.k = "completed" /\ h.at >= l.at + o.p
  BY <1>1 DEF Delaying
<1>7. \A l : Entry(hist, l) => l.at \in Nat
  BY DEF InPast
<1>8. \A v : IsSent(ValuesOf(hist), v) => ValuesOf(hist)[v].at \in Nat
  BY DEF InPast, IsSent
<1> HIDE DEF e
<1>9. ASSUME NEW k \in 1 .. c PROVE Punctual(o, seen2, stamps2, hist, Len(seen) + k)
  <2>0. Single(r.push, e)
    BY <1>5, OneSaid
  <2>6. HeardOnly(seen, e, c, t, seen2, stamps2)
    BY <2>0, HeardOne
  <2>1. seen2[Len(seen) + k] = e /\ stamps2[Len(seen) + k] = t
    BY <2>6 DEF HeardOnly
  <2>2. Item(e) = Item(i)
    BY <1>4 DEF Item
  <2>3. i.k = "next" =>
          IsSent(ValuesOf(hist), Item(e)) /\ t >= ValuesOf(hist)[Item(e)].at + o.p
    BY <2>2, <1>1, <1>6, <1>8 DEF IsNext
  <2>4. i.k = "completed" => \E l : Entry(hist, l) /\ l.i.k = "completed" /\ t >= l.at + o.p
    BY <1>1, <1>6, <1>7
  <2>5. Delayed(o, seen2, stamps2, hist, Len(seen) + k)
    BY <2>1, <2>3, <2>4, <1>4 DEF Delayed, Said
  <2> QED
    BY <2>5 DEF Punctual
<1>10. \A a : In(EnqueueAll(Tail(q), r.arm), a) => In(q, a)
  BY <1>1, <1>5, RanQuietly
<1> QED
  BY <1>9, <1>10 DEF Delaying

LEMMA DebounceRuns ==
  ASSUME NEW o, o.name = "debounce", o.p \in Nat, NEW s, IsState(s), s.n \in Nat, NEW q, Tasks(o, q),
         q # <<>>, Head(q).w.k # "dispose", NEW t \in Nat, Head(q).at <= t, NEW hist,
         NEW L, Debouncing(o, s, q, hist, L),
         NEW seen, NEW stamps, InPast(stamps, Len(seen), hist, t),
         NEW r, r = debounce(o, s, Head(q).w, t), NEW c, NEW seen2, NEW stamps2,
         Hearing(o, seen, r.push, c, stamps, t, seen2, stamps2)
  PROVE  /\ \A k \in 1 .. c : Punctual(o, seen2, stamps2, hist, Len(seen) + k)
         /\ \E K : Debouncing(o, r.st, EnqueueAll(Tail(q), r.arm), hist, K)
<1> DEFINE h == Head(q)
           i == Head(q).w
           values == ValuesOf(hist)
           r2 == EnqueueAll(Tail(q), r.arm)
<1>1. IsQueue(q) /\ In(q, h) /\ IsWork(o, i) /\ h.at \in Nat
  BY HeadIs
<1>2. i.k \in {"next", "produce", "error", "completed"} /\ (i.k = "next" => IsOne(i.v))
  BY <1>1 DEF IsWork, Own, FromSource, Dated
<1>3. /\ Pending(q, values, L)
      /\ s.items = <<>> \/ (L # 0 /\ s.items = <<L>>)
      /\ \A a : In(q, a) /\ a.w.k = "produce" =>
           Item(a.w) <= s.n /\ (Item(a.w) = s.n => L # 0 /\ a.at >= values[L].at + o.p)
      /\ \A a : In(q, a) /\ a.w.k = "completed" => IsClosed(hist)
  BY DEF Debouncing
<1>4. L \in Nat /\ Len(values) \in Nat /\ L <= Len(values)
      /\ \A v \in 1 .. Len(values) : values[v].at \in Nat
  BY <1>3 DEF Pending
<1>5. \A a : In(q, a) /\ a.w.k = "produce" => Item(a.w) \in Nat
  <2>1. \A a : In(q, a) /\ a.w.k = "produce" => IsOne(a.w.v)
    BY DEF Tasks, IsTask, IsWork, Dated
  <2> QED
    BY <2>1, OneIs
\* What says no value, or one that is flushed, is punctual.
<1>6. ASSUME NEW k \in 1 .. c, seen2[Len(seen) + k].k # "next"
      PROVE  Punctual(o, seen2, stamps2, hist, Len(seen) + k)
  BY <1>6 DEF Punctual, Debounced, Said
<1>7. ASSUME NEW k \in 1 .. c, FlushedAt(o, seen2, stamps2, hist, Len(seen) + k)
      PROVE  Punctual(o, seen2, stamps2, hist, Len(seen) + k)
  BY <1>7 DEF Punctual, Debounced
\* Nothing is put on the worker and no value is taken from it.
<1>8. ASSUME i.k # "next", r.arm = <<>>, r.st.n = s.n, r.st.items = s.items \/ r.st.items = <<>>
      PROVE  Debouncing(o, r.st, r2, hist, L)
  <2>1. Derived(q, r2) /\ \A a : In(r2, a) => In(q, a)
    BY <1>1, <1>8, DerivedQuietly, RanQuietly
  <2>2. ~IsNext(h)
    BY <1>8 DEF IsNext
  <2> HIDE DEF r2, h, values
  <2>3. Pending(r2, values, L)
    BY <2>1, <2>2, <1>1, <1>3, PendingRuns DEF h
  <2>4. r.st.items = <<>> \/ (L # 0 /\ r.st.items = <<L>>)
    BY <1>3, <1>8
  <2>5. \A a : In(r2, a) /\ a.w.k = "produce" =>
           Item(a.w) <= r.st.n /\ (Item(a.w) = r.st.n => L # 0 /\ a.at >= values[L].at + o.p)
    BY <2>1, <1>3, <1>8
  <2>6. \A a : In(r2, a) /\ a.w.k = "completed" => IsClosed(hist)
    BY <2>1, <1>3
  <2> QED
    BY <2>3, <2>4, <2>5, <2>6 DEF Debouncing, values
<1>9. CASE i.k = "next"
  <2> DEFINE e == Work(t + o.p, "produce", <<s.n + 1>>)
  <2>1. Makes(r, s.n + 1, i.v, <<>>, <<e>>)
    BY <1>9, DebounceMakes
  <2>2. r.st.n = s.n + 1 /\ r.st.items = i.v /\ r.push = <<>> /\ r.arm = <<e>>
    BY <2>1 DEF Makes, Becomes
  <2>3. e.at = t + o.p /\ e.at \in Nat /\ e.w.k = "produce" /\ Item(e.w) = s.n + 1 /\ ~IsNext(e)
    BY DEF Work, Signal, Item, IsNext
  <2> HIDE DEF e
  <2>4. Derived(q, r2)
    BY <2>2, <2>3, <1>1, DerivedArming
  <2>5. IsNext(h)
    BY <1>9 DEF IsNext
  <2>6. Pending(r2, values, L + 1) /\ Item(i) = L + 1 /\ L < Len(values) /\ h.at = values[L + 1].at
    <3> HIDE DEF r2, values
    <3> QED
      BY <2>4, <2>5, <1>1, <1>3, PendingTakes
  <2>7. i.v = <<L + 1>>
    BY <2>6, <1>2, <1>9 DEF IsOne, Item
  <2>8. L + 1 # 0 /\ t + o.p >= values[L + 1].at + o.p
    <3>1. L + 1 \in 1 .. Len(values) /\ L + 1 # 0
      BY <2>6, <1>4
    <3>2. values[L + 1].at \in Nat /\ values[L + 1].at <= t
      BY <3>1, <2>6, <1>1, <1>4
    <3> QED
      BY <3>1, <3>2
  <2>9. \A a : In(r2, a) => a = e \/ In(q, a)
    BY <2>2, <2>3, <1>1, RanArming
  <2> HIDE DEF r2, values, h, i
  <2>10. \A a : In(r2, a) /\ a.w.k = "produce" => Item(a.w) <= r.st.n /\
            (Item(a.w) = r.st.n => L + 1 # 0 /\ a.at >= values[L + 1].at + o.p)
    <3> SUFFICES ASSUME NEW a, In(r2, a), a.w.k = "produce"
                 PROVE  Item(a.w) <= r.st.n /\
                          (Item(a.w) = r.st.n => L + 1 # 0 /\ a.at >= values[L + 1].at + o.p)
      OBVIOUS
    <3>1. CASE a = e
      BY <3>1, <2>2, <2>3, <2>8
    <3>2. CASE In(q, a)
      <4>1. Item(a.w) \in Nat /\ Item(a.w) <= s.n
        BY <3>2, <1>3, <1>5
      <4> QED
        BY <4>1, <2>2
    <3> QED
      BY <3>1, <3>2, <2>9
  <2>11. \A a : In(r2, a) /\ a.w.k = "completed" => IsClosed(hist)
    BY <2>3, <2>9, <1>3
  <2>12. Debouncing(o, r.st, r2, hist, L + 1)
    BY <2>2, <2>6, <2>7, <2>8, <2>10, <2>11 DEF Debouncing, values
  <2>13. c = 0
    BY <2>2 DEF Hearing
  <2> QED
    BY <2>12, <2>13 DEF r2
<1>10. CASE i.k = "produce" /\ Item(i) # s.n
  <2>1. Makes(r, s.n, s.items, <<>>, <<>>)
    BY <1>10, DebounceMakes
  <2>2. r.st.n = s.n /\ r.st.items = s.items /\ r.push = <<>> /\ r.arm = <<>>
    BY <2>1 DEF Makes, Becomes
  <2>3. c = 0
    BY <2>2 DEF Hearing
  <2>4. Debouncing(o, r.st, r2, hist, L)
    BY <2>2, <1>8, <1>10
  <2> QED
    BY <2>3, <2>4
<1>11. CASE i.k = "produce" /\ Item(i) = s.n /\ s.items = <<>>
  <2>0. PICK e : e = Nowhere
    OBVIOUS
  <2>1. Makes(r, s.n, s.items, <<e>>, <<>>)
    BY <2>0, <1>11, DebounceMakes
  <2>2. r.st.n = s.n /\ r.st.items = s.items /\ r.push = <<e>> /\ r.arm = <<>>
    BY <2>1 DEF Makes, Becomes
  <2>3. \A k \in 1 .. c : seen2[Len(seen) + k].k # "next"
    <3>1. e.k = "undefined"
      BY <2>0 DEF Nowhere, Signal
    <3>2. Single(r.push, e)
      BY <2>2, OneSaid
    <3>3. HeardOnly(seen, e, c, t, seen2, stamps2)
      BY <3>2, HeardOne
    <3> QED
      BY <3>1, <3>3 DEF HeardOnly
  <2>4. Debouncing(o, r.st, r2, hist, L)
    BY <2>2, <1>8, <1>11
  <2> QED
    BY <2>3, <2>4, <1>6
<1>12. CASE i.k = "produce" /\ Item(i) = s.n /\ s.items # <<>>
  <2>0. PICK e : e = OnNext(s.items)
    OBVIOUS
  <2>1. Makes(r, s.n, <<>>, <<e>>, <<>>)
    BY <2>0, <1>12, DebounceMakes
  <2>2. r.st.n = s.n /\ r.st.items = <<>> /\ r.push = <<e>> /\ r.arm = <<>>
    BY <2>1 DEF Makes, Becomes
  <2>3. Debouncing(o, r.st, r2, hist, L)
    BY <2>2, <1>8, <1>12
  <2>4. ASSUME NEW k \in 1 .. c PROVE Punctual(o, seen2, stamps2, hist, Len(seen) + k)
    <3>0. Single(r.push, e)
      BY <2>2, OneSaid
    <3>8. HeardOnly(seen, e, c, t, seen2, stamps2)
      BY <3>0, HeardOne
    <3>1. seen2[Len(seen) + k] = e /\ stamps2[Len(seen) + k] = t
      BY <3>8 DEF HeardOnly
    <3>2. L # 0 /\ s.items = <<L>> /\ h.at >= values[L].at + o.p
      BY <1>1, <1>3, <1>12
    <3>3. Item(e) = L
      <4>1. e.v = <<L>>
        BY <2>0, <3>2, SignalFields
      <4> QED
        BY <4>1 DEF Item
    <3>4. IsSent(values, L) /\ values[L].at \in Nat
      BY <3>2, <1>4 DEF IsSent
    <3>5. t >= values[L].at + o.p
      BY <3>2, <3>4, <1>1
    <3>6. Silent(values, L, values[L].at + o.p)
      <4>1. Derived(q, r2)
        BY <2>2, <1>1, DerivedQuietly
      <4>2. ~IsNext(h)
        BY <1>12 DEF IsNext
      <4>3. L < Len(values) => h.at <= values[L + 1].at
        <5> HIDE DEF r2, values
        <5> QED
          BY <4>1, <4>2, <1>1, <1>3, PendingRuns
      <4>4. L < Len(values) => values[L + 1].at \in Nat
        BY <1>4
      <4> HIDE DEF values, h
      <4> QED
        BY <4>3, <4>4, <3>2, <3>4, <1>1, SMTT(25) DEF Silent
    <3>7. Debounced(o, seen2, stamps2, hist, Len(seen) + k)
      BY <3>1, <3>3, <3>4, <3>5, <3>6 DEF Debounced
    <3> QED
      BY <3>7 DEF Punctual
  <2> QED
    BY <2>3, <2>4
<1>13. CASE i.k = "error"
  <2>0. PICK e : e = OnError
    OBVIOUS
  <2>1. Makes(r, s.n, <<>>, <<e>>, <<>>)
    BY <2>0, <1>13, DebounceMakes
  <2>2. r.st.n = s.n /\ r.st.items = <<>> /\ r.push = <<e>> /\ r.arm = <<>>
    BY <2>1 DEF Makes, Becomes
  <2>3. \A k \in 1 .. c : seen2[Len(seen) + k].k # "next"
    <3>1. e.k = "error"
      BY <2>0, SignalFields
    <3>2. Single(r.push, e)
      BY <2>2, OneSaid
    <3>3. HeardOnly(seen, e, c, t, seen2, stamps2)
      BY <3>2, HeardOne
    <3> QED
      BY <3>1, <3>3 DEF HeardOnly
  <2>4. Debouncing(o, r.st, r2, hist, L)
    BY <2>2, <1>8, <1>13
  <2> QED
    BY <2>3, <2>4, <1>6
<1>14. CASE i.k = "completed" /\ s.items = <<>>
  <2>0. PICK e : e = OnCompleted
    OBVIOUS
  <2>1. Makes(r, s.n, s.items, <<e>>, <<>>)
    BY <2>0, <1>14, DebounceMakes
  <2>2. r.st.n = s.n /\ r.st.items = s.items /\ r.push = <<e>> /\ r.arm = <<>>
    BY <2>1 DEF Makes, Becomes
  <2>3. \A k \in 1 .. c : seen2[Len(seen) + k].k # "next"
    <3>1. e.k = "completed"
      BY <2>0, SignalFields
    <3>2. Single(r.push, e)
      BY <2>2, OneSaid
    <3>3. HeardOnly(seen, e, c, t, seen2, stamps2)
      BY <3>2, HeardOne
    <3> QED
      BY <3>1, <3>3 DEF HeardOnly
  <2>4. Debouncing(o, r.st, r2, hist, L)
    BY <2>2, <1>8, <1>14
  <2> QED
    BY <2>3, <2>4, <1>6
<1>15. CASE i.k = "completed" /\ s.items # <<>>
  <2>0. PICK d, e : d = OnNext(s.items) /\ e = OnCompleted
    OBVIOUS
  <2>1. Makes(r, s.n, s.items, <<d, e>>, <<>>)
    BY <2>0, <1>15, DebounceMakes
  <2>2. r.st.n = s.n /\ r.st.items = s.items /\ r.push = <<d, e>> /\ r.arm = <<>>
    BY <2>1 DEF Makes, Becomes
  <2>3. Debouncing(o, r.st, r2, hist, L)
    BY <2>2, <1>8, <1>15
  <2>6. Len(r.push) = 2 /\ r.push[1] = d /\ r.push[2] = e
    BY <2>2, TwoSaid
  <2>7. d.k = "next" /\ e.k = "completed"
    BY <2>0, SignalFields
  <2>4. Len(r.push) = 2 /\ r.push[1].k = "next" /\ r.push[2] = OnCompleted /\ r.push[2].k = "completed"
    BY <2>0, <2>6, <2>7
  <2>5. Closed(hist, t)
    BY <1>1, <1>3, <1>15, ClosedInPast
  <2>8. ASSUME NEW k \in 1 .. c PROVE Punctual(o, seen2, stamps2, hist, Len(seen) + k)
    <3>1. k = 1 \/ k = 2
      <4>1. c \in 0 .. 2
        BY <2>4 DEF Hearing
      <4> QED
        BY <4>1
    <3>2. CASE k = 1
      <4>0. PICK n \in Nat : n = 1
        OBVIOUS
      <4>1. \A j \in 1 .. n : r.push[j].k = "next"
        BY <2>4, <4>0
      <4>3. Len(r.push) = n + 1 /\ r.push[n + 1] = OnCompleted /\ k <= n
        <5>1. n + 1 = 2
          BY <4>0
        <5> QED
          BY <3>2, <4>0, <5>1, <2>4
      <4>2. FlushedAt(o, seen2, stamps2, hist, Len(seen) + k)
        BY <4>1, <4>3, <2>5, FlushedNow
      <4> QED
        BY <4>2, <1>7
    <3>3. CASE k = 2
      <4>1. seen2[Len(seen) + k] = r.push[k]
        BY HearingIs
      <4>2. seen2[Len(seen) + k].k # "next"
        BY <3>3, <4>1, <2>4
      <4> QED
        BY <4>2, <1>6
    <3> QED
      BY <3>1, <3>2, <3>3
  <2> QED
    BY <2>3, <2>8
<1> QED
  BY <1>2, <1>9, <1>10, <1>11, <1>12, <1>13, <1>14, <1>15

LEMMA OneEnds ==
  ASSUME NEW r, NEW e, r.push = <<e>>, e.s = 0, Terminal(e)
  PROVE  EndsOutput(r.push)
<1>1. PICK p : p = <<e>>
  OBVIOUS
<1>2. 1 \in DOMAIN p /\ p[1] = e
  BY <1>1
<1>3. EndsOutput(p)
  BY <1>2 DEF EndsOutput
<1> QED
  BY <1>1, <1>3

LEMMA TwoEnd ==
  ASSUME NEW r, NEW d, NEW e, r.push = <<d, e>>, e.s = 0, Terminal(e)
  PROVE  EndsOutput(r.push)
<1>1. PICK p : p = <<d, e>>
  OBVIOUS
<1>2. 2 \in DOMAIN p /\ p[2] = e
  BY <1>1
<1>3. EndsOutput(p)
  BY <1>2 DEF EndsOutput
<1> QED
  BY <1>1, <1>3

\* When the signal before was heard.
LEMMA PriorIs ==
  ASSUME NEW o, NEW seen, NEW push, NEW c, NEW stamps, NEW t \in Nat, NEW seen2, NEW stamps2,
         Hearing(o, seen, push, c, stamps, t, seen2, stamps2), NEW hist,
         InPast(stamps, Len(seen), hist, t)
  PROVE  /\ Prior(stamps, Len(seen) + 1) \in Nat /\ Prior(stamps, Len(seen) + 1) <= t
         /\ Prior(stamps2, Len(seen) + 1) = Prior(stamps, Len(seen) + 1)
         /\ c = 1 => Prior(stamps2, Len(seen2) + 1) = t
<1>1. PICK n \in Nat : n = Len(seen)
  BY HearingIs
<1>2. /\ \A j \in 1 .. n : stamps2[j] = stamps[j] /\ stamps[j] \in Nat /\ stamps[j] <= t
      /\ Len(seen2) = n + c /\ \A k \in 1 .. c : stamps2[n + k] = t
  BY <1>1, HearingIs DEF InPast
<1>3. n # 0 => n \in 1 .. n /\ n + 1 # 1 /\ (n + 1) - 1 = n
  OBVIOUS
<1>4. n = 0 => n + 1 = 1
  OBVIOUS
<1>5. /\ Prior(stamps, n + 1) \in Nat /\ Prior(stamps, n + 1) <= t
      /\ Prior(stamps2, n + 1) = Prior(stamps, n + 1)
  BY <1>2, <1>3, <1>4 DEF Prior
<1>6. ASSUME c = 1 PROVE Prior(stamps2, n + c + 1) = t
  <2>1. (n + c) + 1 # 1 /\ ((n + c) + 1) - 1 = n + 1 /\ 1 \in 1 .. c
    BY <1>6
  <2>2. stamps2[n + 1] = t
    BY <2>1, <1>2
  <2> QED
    BY <2>1, <2>2 DEF Prior
<1> QED
  BY <1>1, <1>2, <1>5, <1>6

LEMMA TimeoutRuns ==
  ASSUME NEW o, o.name = "timeout", o.p \in Nat, NEW s, IsState(s), s.n \in Nat, NEW q, Tasks(o, q),
         q # <<>>, Head(q).w.k # "dispose", NEW t \in Nat, Head(q).at <= t, NEW hist,
         NEW seen, NEW stamps, InPast(stamps, Len(seen), hist, t),
         Timing(o, s, q, seen, stamps, hist),
         NEW r, r = timeout(o, s, Head(q).w, t), NEW c, NEW seen2, NEW stamps2,
         Hearing(o, seen, r.push, c, stamps, t, seen2, stamps2)
  PROVE  /\ \A k \in 1 .. c : Punctual(o, seen2, stamps2, hist, Len(seen) + k)
         /\ c = Len(r.push) /\ ~EndsOutput(r.push) =>
              Timing(o, r.st, EnqueueAll(Tail(q), r.arm), seen2, stamps2, hist)
<1> DEFINE h == Head(q)
           i == Head(q).w
           values == ValuesOf(hist)
           r2 == EnqueueAll(Tail(q), r.arm)
           due == Prior(stamps, Len(seen) + 1)
<1>1. IsQueue(q) /\ In(q, h) /\ IsWork(o, i) /\ h.at \in Nat
  BY HeadIs
<1>2. i.k \in {"start", "next", "produce", "error", "completed"}
  BY <1>1 DEF IsWork, Own, FromSource
<1>3. /\ Pending(q, values, Len(seen))
      /\ \A a : In(q, a) /\ a.w.k = "produce" =>
           Item(a.w) <= s.n /\ (Item(a.w) = s.n => a.at >= due + o.p)
      /\ \A a : In(q, a) /\ a.w.k = "error" => EndedBy(hist)
  BY DEF Timing
<1>4. Len(seen) \in Nat /\ Len(values) \in Nat /\ \A v \in 1 .. Len(values) : values[v].at \in Nat
  BY <1>3 DEF Pending
<1>5. /\ due \in Nat /\ due <= t /\ Prior(stamps2, Len(seen) + 1) = due
      /\ c = 1 => Prior(stamps2, Len(seen2) + 1) = t
  BY PriorIs
<1>6. \A a : In(q, a) /\ a.w.k = "produce" => Item(a.w) \in Nat
  <2>1. \A a : In(q, a) /\ a.w.k = "produce" => IsOne(a.w.v)
    BY DEF Tasks, IsTask, IsWork, Dated
  <2> QED
    BY <2>1, OneIs
<1>7. Len(seen2) = Len(seen) + c
  BY HearingIs
\* Nothing but an error can be too early.
<1>8. ASSUME NEW k \in 1 .. c, seen2[Len(seen) + k].k # "error" \/ EndedBy(hist)
      PROVE  Punctual(o, seen2, stamps2, hist, Len(seen) + k)
  BY <1>8 DEF Punctual, TimedOut, Said
\* A value restarts the timer, and so does the beginning.
<1>9. ASSUME i.k \in {"start", "next"}, r.st.n = s.n + 1,
             NEW e, e = Work(t + o.p, "produce", <<s.n + 1>>), r.arm = <<e>>,
             Pending(r2, values, Len(seen2)), Prior(stamps2, Len(seen2) + 1) <= t,
             Prior(stamps2, Len(seen2) + 1) \in Nat
      PROVE  Timing(o, r.st, r2, seen2, stamps2, hist)
  <2>1. e.at = t + o.p /\ e.at \in Nat /\ e.w.k = "produce" /\ Item(e.w) = s.n + 1
    BY <1>9 DEF Work, Signal, Item
  <2>2. \A a : In(r2, a) => a = e \/ In(q, a)
    BY <1>9, <2>1, <1>1, RanArming
  <2> HIDE DEF r2, values
  <2>3. ASSUME NEW a, In(r2, a), a.w.k = "produce"
        PROVE  Item(a.w) <= r.st.n /\
                 (Item(a.w) = r.st.n => a.at >= Prior(stamps2, Len(seen2) + 1) + o.p)
    <3>1. CASE a = e
      BY <3>1, <2>1, <1>9
    <3>2. CASE In(q, a)
      <4>1. Item(a.w) \in Nat /\ Item(a.w) <= s.n
        BY <3>2, <2>3, <1>3, <1>6
      <4> QED
        BY <4>1, <1>9
    <3> QED
      BY <3>1, <3>2, <2>2, <2>3
  <2>4. \A a : In(r2, a) /\ a.w.k = "error" => EndedBy(hist)
    BY <2>1, <2>2, <1>3
  <2> QED
    BY <2>3, <2>4, <1>9 DEF Timing, values
<1>10. CASE i.k = "start"
  <2>1. PICK e : e = Work(t + o.p, "produce", <<s.n + 1>>)
    OBVIOUS
  <2>2. Makes(r, s.n + 1, s.items, <<>>, <<e>>)
    BY <1>10, <2>1, TimeoutMakes
  <2>3. r.st.n = s.n + 1 /\ r.push = <<>> /\ r.arm = <<e>>
    BY <2>2 DEF Makes, Becomes
  <2>4. c = 0
    BY <2>3 DEF Hearing
  <2>5. e.at \in Nat /\ ~IsNext(e)
    BY <2>1 DEF Work, Signal, IsNext
  <2>6. Derived(q, r2) /\ ~IsNext(h)
    BY <2>3, <2>5, <1>1, <1>10, DerivedArming DEF IsNext
  <2>7. Pending(r2, values, Len(seen))
    <3> HIDE DEF r2, values
    <3> QED
      BY <2>6, <1>1, <1>3, PendingRuns
  <2>8. Len(seen2) = Len(seen)
    BY <2>4, <1>4, <1>7
  <2> HIDE DEF r2, values, due, i
  <2>9. Timing(o, r.st, r2, seen2, stamps2, hist)
    BY <2>1, <2>3, <2>7, <2>8, <1>5, <1>9, <1>10
  <2> QED
    BY <2>4, <2>9 DEF r2
<1>11. CASE i.k = "next"
  <2>1. PICK e : e = Work(t + o.p, "produce", <<s.n + 1>>)
    OBVIOUS
  <2>2. PICK d : d = OnNext(i.v)
    OBVIOUS
  <2>3. Makes(r, s.n + 1, s.items, <<d>>, <<e>>)
    BY <1>11, <2>1, <2>2, TimeoutMakes
  <2>4. r.st.n = s.n + 1 /\ r.push = <<d>> /\ r.arm = <<e>>
    BY <2>3 DEF Makes, Becomes
  <2>5. Single(r.push, d)
    BY <2>4, OneSaid
  <2>6. HeardOnly(seen, d, c, t, seen2, stamps2)
    BY <2>5, HeardOne
  <2>7. \A k \in 1 .. c : seen2[Len(seen) + k].k # "error"
    <3>1. d.k = "next"
      BY <2>2, SignalFields
    <3> QED
      BY <2>6, <3>1 DEF HeardOnly
  <2>8. e.at \in Nat /\ ~IsNext(e) /\ IsNext(h)
    BY <2>1, <1>11 DEF Work, Signal, IsNext
  <2>9. Derived(q, r2)
    BY <2>4, <2>8, <1>1, DerivedArming
  <2>10. Pending(r2, values, Len(seen) + 1)
    <3> HIDE DEF r2, values
    <3> QED
      BY <2>8, <2>9, <1>1, <1>3, PendingTakes
  <2>11. ASSUME c = Len(r.push) PROVE Timing(o, r.st, r2, seen2, stamps2, hist)
    <3>1. c = 1
      BY <2>5, <2>11 DEF Single
    <3>2. Len(seen2) = Len(seen) + 1 /\ Prior(stamps2, Len(seen2) + 1) = t
      BY <3>1, <1>5, <1>7
    <3> HIDE DEF r2, values, due, i
    <3> QED
      BY <3>2, <2>1, <2>4, <2>10, <1>9, <1>11
  <2> QED
    BY <2>7, <2>11, <1>8
<1>12. CASE i.k = "produce" /\ Item(i) # s.n
  <2>1. Makes(r, s.n, s.items, <<>>, <<>>)
    BY <1>12, TimeoutMakes
  <2>2. r.st.n = s.n /\ r.push = <<>> /\ r.arm = <<>>
    BY <2>1 DEF Makes, Becomes
  <2>3. c = 0
    BY <2>2 DEF Hearing
  <2>4. Derived(q, r2) /\ (\A a : In(r2, a) => In(q, a)) /\ ~IsNext(h)
    BY <1>1, <1>12, <2>2, DerivedQuietly, RanQuietly DEF IsNext
  <2>5. Len(seen2) = Len(seen)
    BY <2>3, <1>4, <1>7
  <2> HIDE DEF r2, values
  <2>6. Pending(r2, values, Len(seen))
    BY <2>4, <1>1, <1>3, PendingRuns
  <2>7. Timing(o, r.st, r2, seen2, stamps2, hist)
    BY <2>2, <2>4, <2>5, <2>6, <1>3, <1>5 DEF Timing, values
  <2> QED
    BY <2>3, <2>7 DEF r2
<1>13. CASE i.k = "produce" /\ Item(i) = s.n
  <2>1. PICK e : e = OnError
    OBVIOUS
  <2>2. Makes(r, s.n, s.items, <<e>>, <<>>)
    BY <1>13, <2>1, TimeoutMakes
  <2>3. r.push = <<e>> /\ r.arm = <<>>
    BY <2>2 DEF Makes
  <2>4. e.s = 0 /\ Terminal(e)
    BY <2>1, SignalFields DEF Terminal
  <2>5. EndsOutput(r.push)
    BY <2>3, <2>4, OneEnds
  <2>6. Single(r.push, e)
    BY <2>3, OneSaid
  <2>7. HeardOnly(seen, e, c, t, seen2, stamps2)
    BY <2>6, HeardOne
  <2>8. h.at >= due + o.p
    BY <1>1, <1>3, <1>13
  <2>9. Silent(values, Len(seen), due + o.p)
    <3>1. Derived(q, r2)
      BY <2>3, <1>1, DerivedQuietly
    <3>2. ~IsNext(h)
      BY <1>13 DEF IsNext
    <3>3. Len(seen) < Len(values) => h.at <= values[Len(seen) + 1].at
      <4> HIDE DEF r2, values
      <4> QED
        BY <3>1, <3>2, <1>1, <1>3, PendingRuns
    <3>4. Len(seen) < Len(values) => values[Len(seen) + 1].at \in Nat
      BY <1>4
    <3> HIDE DEF values, h, due
    <3> QED
      BY <2>8, <3>3, <3>4, <1>1, <1>5 DEF Silent
  <2>10. ASSUME NEW k \in 1 .. c PROVE Punctual(o, seen2, stamps2, hist, Len(seen) + k)
    <3>1. k = 1 /\ stamps2[Len(seen) + k] = t
      BY <2>7 DEF HeardOnly
    <3>2. (Len(seen) + k) - 1 = Len(seen)
      BY <3>1, <1>4
    <3>3. t >= due + o.p
      BY <2>8, <1>1, <1>5
    <3>4. TimedOut(o, seen2, stamps2, hist, Len(seen) + k)
      <4> HIDE DEF due
      <4> QED
        BY <3>1, <3>2, <3>3, <2>9, <1>5 DEF TimedOut
    <3> QED
      BY <3>4 DEF Punctual
  <2> QED
    BY <2>5, <2>10
<1>14. CASE i.k \in {"error", "completed"}
  <2>1. PICK e : e = Passed(i)
    OBVIOUS
  <2>2. Makes(r, s.n, s.items, <<e>>, <<>>)
    BY <1>14, <2>1, TimeoutMakes
  <2>3. r.push = <<e>>
    BY <2>2 DEF Makes
  <2>4. e.s = 0 /\ e.k = i.k /\ Terminal(e)
    <3>1. i = [s |-> i.s, k |-> i.k, v |-> i.v]
      BY <1>1 DEF IsWork
    <3>2. e.s = 0 /\ e.k = i.k
      BY <2>1, <3>1, PassedFields
    <3> QED
      BY <3>2, <1>14 DEF Terminal
  <2>5. EndsOutput(r.push)
    BY <2>3, <2>4, OneEnds
  <2>6. Single(r.push, e)
    BY <2>3, OneSaid
  <2>7. HeardOnly(seen, e, c, t, seen2, stamps2)
    BY <2>6, HeardOne
  <2>8. ASSUME NEW k \in 1 .. c PROVE Punctual(o, seen2, stamps2, hist, Len(seen) + k)
    <3>1. seen2[Len(seen) + k] = e
      BY <2>7 DEF HeardOnly
    <3>2. i.k = "error" => EndedBy(hist)
      BY <1>1, <1>3
    <3>3. seen2[Len(seen) + k].k # "error" \/ EndedBy(hist)
      BY <3>1, <3>2, <2>4, <1>14
    <3> QED
      BY <3>3, <1>8
  <2> QED
    BY <2>5, <2>8
<1> QED
  BY <1>2, <1>10, <1>11, <1>12, <1>13, <1>14

\* The time of the last signal if it was a full chunk.
Since(o, seen, stamps) ==
  IF FullBefore(o, seen, Len(seen) + 1) THEN Prior(stamps, Len(seen) + 1) ELSE 0

\* No chunk is full, and its timer runs for a period from the last full one.
Grouping(o, s, q, seen, stamps, hist) ==
  /\ o.n # 0 => Len(s.items) < o.n
  /\ \A a : In(q, a) /\ a.w.k \in {"hop", "produce"} =>
       /\ Item(a.w) <= s.n /\ a.at >= a.w.v[2]
       /\ Item(a.w) = s.n /\ o.n # 0 => a.w.v[2] >= Since(o, seen, stamps) + o.p
  /\ \A a : In(q, a) /\ a.w.k = "completed" => IsClosed(hist)

LEMMA SinceIs ==
  ASSUME NEW o, NEW seen, NEW push, NEW c, NEW stamps, NEW t \in Nat, NEW seen2, NEW stamps2,
         Hearing(o, seen, push, c, stamps, t, seen2, stamps2), NEW hist,
         InPast(stamps, Len(seen), hist, t)
  PROVE  /\ Since(o, seen, stamps) \in Nat
         /\ FullBefore(o, seen2, Len(seen) + 1) <=> FullBefore(o, seen, Len(seen) + 1)
         /\ c = 0 => Since(o, seen2, stamps2) = Since(o, seen, stamps)
         /\ \A e : c = 1 /\ seen2[Len(seen) + 1] = e /\ Len(e.v) # o.n => Since(o, seen2, stamps2) = 0
         /\ \A e : c = 1 /\ seen2[Len(seen) + 1] = e /\ Len(e.v) = o.n => Since(o, seen2, stamps2) = t
<1>1. /\ Prior(stamps, Len(seen) + 1) \in Nat
      /\ Prior(stamps2, Len(seen) + 1) = Prior(stamps, Len(seen) + 1)
      /\ c = 1 => Prior(stamps2, Len(seen2) + 1) = t
  BY PriorIs
<1>2. /\ Len(seen) \in Nat /\ Len(seen2) = Len(seen) + c
      /\ \A j \in 1 .. Len(seen) : seen2[j] = seen[j]
  BY HearingIs
<1>3. FullBefore(o, seen2, Len(seen) + 1) <=> FullBefore(o, seen, Len(seen) + 1)
  <2>1. Len(seen) + 1 > 1 => Len(seen) \in 1 .. Len(seen)
    BY <1>2
  <2>2. (Len(seen) + 1) - 1 = Len(seen)
    BY <1>2
  <2> QED
    BY <2>1, <2>2, <1>2 DEF FullBefore
<1>4. c = 0 => Len(seen2) = Len(seen)
  BY <1>2
<1>5. ASSUME c = 1
      PROVE  FullBefore(o, seen2, Len(seen2) + 1) <=> Len(seen2[Len(seen) + 1].v) = o.n
  <2>1. Len(seen2) + 1 > 1 /\ (Len(seen2) + 1) - 1 = Len(seen) + 1
    BY <1>2, <1>5
  <2> QED
    BY <2>1 DEF FullBefore
<1>6. ASSUME NEW e, c = 1, seen2[Len(seen) + 1] = e, Len(e.v) # o.n
      PROVE  Since(o, seen2, stamps2) = 0
  BY <1>5, <1>6 DEF Since
<1>7. ASSUME NEW e, c = 1, seen2[Len(seen) + 1] = e, Len(e.v) = o.n
      PROVE  Since(o, seen2, stamps2) = t
  BY <1>1, <1>5, <1>7 DEF Since
<1> QED
  BY <1>1, <1>3, <1>4, <1>6, <1>7 DEF Since

LEMMA GroupingRuns ==
  ASSUME NEW o, o.name = "buffer_with_time_or_count", o.p \in Nat, o.n \in Nat, NEW s, IsState(s),
         s.n \in Nat, IsList(s.items), NEW q, Tasks(o, q), q # <<>>, Head(q).w.k # "dispose",
         NEW t \in Nat, Head(q).at <= t, NEW hist,
         NEW seen, NEW stamps, InPast(stamps, Len(seen), hist, t),
         Grouping(o, s, q, seen, stamps, hist),
         NEW r, r = buffer_with_time_or_count(o, s, Head(q).w, t), NEW c, NEW seen2, NEW stamps2,
         Hearing(o, seen, r.push, c, stamps, t, seen2, stamps2)
  PROVE  /\ \A k \in 1 .. c : Punctual(o, seen2, stamps2, hist, Len(seen) + k)
         /\ c = Len(r.push) /\ ~EndsOutput(r.push) =>
              Grouping(o, r.st, EnqueueAll(Tail(q), r.arm), seen2, stamps2, hist)
<1> DEFINE h == Head(q)
           i == Head(q).w
           r2 == EnqueueAll(Tail(q), r.arm)
           more == Append(s.items, Item(i))
           since == Since(o, seen, stamps)
<1>1. IsQueue(q) /\ In(q, h) /\ IsWork(o, i) /\ h.at \in Nat
  BY HeadIs
<1>2. /\ i.k \in {"hop", "produce", "next", "error", "completed"}
      /\ i.k \in {"hop", "produce"} => IsTwo(i.v)
  BY <1>1 DEF IsWork, Own, FromSource, Dated
<1>3. /\ o.n # 0 => Len(s.items) < o.n
      /\ \A a : In(q, a) /\ a.w.k \in {"hop", "produce"} =>
           /\ Item(a.w) <= s.n /\ a.at >= a.w.v[2]
           /\ Item(a.w) = s.n /\ o.n # 0 => a.w.v[2] >= since + o.p
      /\ \A a : In(q, a) /\ a.w.k = "completed" => IsClosed(hist)
  BY DEF Grouping
<1>4. /\ since \in Nat
      /\ FullBefore(o, seen2, Len(seen) + 1) <=> FullBefore(o, seen, Len(seen) + 1)
      /\ c = 0 => Since(o, seen2, stamps2) = since
      /\ \A e : c = 1 /\ seen2[Len(seen) + 1] = e /\ Len(e.v) # o.n => Since(o, seen2, stamps2) = 0
      /\ \A e : c = 1 /\ seen2[Len(seen) + 1] = e /\ Len(e.v) = o.n => Since(o, seen2, stamps2) = t
  BY SinceIs
<1>5. Prior(stamps2, Len(seen) + 1) = Prior(stamps, Len(seen) + 1)
  BY PriorIs
<1>6. \A a : In(q, a) /\ a.w.k \in {"hop", "produce"} => Item(a.w) \in Nat /\ a.w.v[2] \in Nat
  <2>1. \A a : In(q, a) /\ a.w.k \in {"hop", "produce"} => IsTwo(a.w.v)
    BY DEF Tasks, IsTask, IsWork, Dated
  <2> QED
    BY <2>1, TwoIs
<1>7. Len(s.items) \in Nat /\ Len(more) = Len(s.items) + 1
  BY Appended
\* What says no value, or one that is flushed, is punctual.
<1>8. ASSUME NEW k \in 1 .. c, seen2[Len(seen) + k].k # "next"
      PROVE  Punctual(o, seen2, stamps2, hist, Len(seen) + k)
  BY <1>8 DEF Punctual, Limited, Said
<1>9. ASSUME NEW k \in 1 .. c, FlushedAt(o, seen2, stamps2, hist, Len(seen) + k)
      PROVE  Punctual(o, seen2, stamps2, hist, Len(seen) + k)
  BY <1>9 DEF Punctual, Limited
\* A chunk is sent and the timer of the next one is set.
<1>10. ASSUME NEW x \in Nat, r.st.n = s.n + 1, r.st.items = <<>>,
              NEW e, e = Work(x + o.p, "hop", <<s.n + 1, x + o.p>>), r.arm = <<e>>,
              o.n # 0 => Since(o, seen2, stamps2) \in Nat /\ Since(o, seen2, stamps2) <= x
       PROVE  Grouping(o, r.st, r2, seen2, stamps2, hist)
  <2>1. e.at = x + o.p /\ e.at \in Nat /\ e.w.k = "hop" /\ Item(e.w) = s.n + 1 /\ e.w.v[2] = x + o.p
    BY <1>10 DEF Work, Signal, Item
  <2>2. \A a : In(r2, a) => a = e \/ In(q, a)
    <3>1. PICK arm : arm = <<e>> /\ arm = r.arm
      BY <1>10
    <3>2. q # <<>> /\ IsQueue(q) /\ e.at \in Nat
      BY <1>1, <2>1
    <3> HIDE DEF h, i, more, since
    <3>3. \A a : In(EnqueueAll(Tail(q), arm), a) => a = e \/ (In(q, a) /\ Ahead(q, Head(q), a))
      BY <3>1, <3>2, RanArming
    <3>4. r2 = EnqueueAll(Tail(q), arm)
      BY <3>1
    <3> HIDE DEF r2
    <3> QED
      BY <3>3, <3>4
  <2> HIDE DEF r2, since
  <2>3. ASSUME NEW a, In(r2, a), a.w.k \in {"hop", "produce"}
        PROVE  /\ Item(a.w) <= r.st.n /\ a.at >= a.w.v[2]
               /\ Item(a.w) = r.st.n /\ o.n # 0 => a.w.v[2] >= Since(o, seen2, stamps2) + o.p
    <3>1. CASE a = e
      BY <3>1, <2>1, <1>10
    <3>2. CASE In(q, a)
      <4>1. Item(a.w) \in Nat /\ Item(a.w) <= s.n /\ a.at >= a.w.v[2]
        BY <3>2, <2>3, <1>3, <1>6
      <4> QED
        BY <4>1, <1>10
    <3> QED
      BY <3>1, <3>2, <2>2, <2>3
  <2>4. \A a : In(r2, a) /\ a.w.k = "completed" => IsClosed(hist)
    BY <2>1, <2>2, <1>3
  <2>5. o.n # 0 => Len(r.st.items) < o.n
    <3>1. PICK none : none = <<>>
      OBVIOUS
    <3>2. Len(none) = 0 /\ r.st.items = none
      BY <3>1, <1>10
    <3> QED
      BY <3>2
  <2> QED
    BY <2>3, <2>4, <2>5 DEF Grouping
\* Nothing is sent and no timer is set.
<1>11. ASSUME r.st.n = s.n, o.n # 0 => Len(r.st.items) < o.n, c = 0,
              \A a : In(r2, a) => In(q, a)
       PROVE  Grouping(o, r.st, r2, seen2, stamps2, hist)
  <2> HIDE DEF r2, since
  <2> QED
    BY <1>11, <1>3, <1>4 DEF Grouping
<1>12. CASE i.k = "hop"
  <2>1. PICK e : e = Work(t, "produce", i.v)
    OBVIOUS
  <2>2. Makes(r, s.n, s.items, <<>>, <<e>>)
    BY <1>12, <2>1, BufferOrCountMakes
  <2>3. r.st.n = s.n /\ r.st.items = s.items /\ r.push = <<>> /\ r.arm = <<e>>
    BY <2>2 DEF Makes, Becomes
  <2>4. c = 0
    BY <2>3 DEF Hearing
  <2>5. e.at = t /\ e.at \in Nat /\ e.w.k = "produce" /\ e.w.v = i.v /\ Item(e.w) = Item(i)
    BY <2>1 DEF Work, Signal, Item
  <2>6. \A a : In(r2, a) => a = e \/ In(q, a)
    BY <2>3, <2>5, <1>1, RanArming
  <2>7. /\ Item(i) <= s.n /\ h.at >= i.v[2] /\ i.v[2] \in Nat
        /\ Item(i) = s.n /\ o.n # 0 => i.v[2] >= since + o.p
    BY <1>1, <1>3, <1>6, <1>12
  <2>8. t >= i.v[2]
    BY <2>7, <1>1
  <2> HIDE DEF r2, since, i, h
  <2>9. \A a : In(r2, a) /\ a.w.k \in {"hop", "produce"} =>
           /\ Item(a.w) <= r.st.n /\ a.at >= a.w.v[2]
           /\ Item(a.w) = r.st.n /\ o.n # 0 => a.w.v[2] >= since + o.p
    BY <2>3, <2>5, <2>6, <2>7, <2>8, <1>3
  <2>10. \A a : In(r2, a) /\ a.w.k = "completed" => IsClosed(hist)
    BY <2>5, <2>6, <1>3
  <2>11. Grouping(o, r.st, r2, seen2, stamps2, hist)
    BY <2>3, <2>4, <2>9, <2>10, <1>3, <1>4 DEF Grouping
  <2> QED
    BY <2>4, <2>11 DEF r2
<1>13. CASE i.k = "produce" /\ Item(i) # s.n
  <2>1. Makes(r, s.n, s.items, <<>>, <<>>)
    BY <1>13, BufferOrCountMakes
  <2>2. r.st.n = s.n /\ r.st.items = s.items /\ r.push = <<>> /\ r.arm = <<>>
    BY <2>1 DEF Makes, Becomes
  <2>3. c = 0
    BY <2>2 DEF Hearing
  <2>4. \A a : In(r2, a) => In(q, a)
    BY <2>2, <1>1, RanQuietly
  <2>5. Grouping(o, r.st, r2, seen2, stamps2, hist)
    BY <2>2, <2>3, <2>4, <1>3, <1>11
  <2> QED
    BY <2>3, <2>5
<1>14. CASE i.k = "produce" /\ Item(i) = s.n
  <2>1. PICK e : e = Work(i.v[2] + o.p, "hop", <<s.n + 1, i.v[2] + o.p>>)
    OBVIOUS
  <2>2. PICK d : d = OnNext(s.items)
    OBVIOUS
  <2>3. Makes(r, s.n + 1, <<>>, <<d>>, <<e>>)
    BY <1>14, <2>1, <2>2, BufferOrCountMakes
  <2>4. r.st.n = s.n + 1 /\ r.st.items = <<>> /\ r.push = <<d>> /\ r.arm = <<e>>
    BY <2>3 DEF Makes, Becomes
  <2>5. Single(r.push, d)
    BY <2>4, OneSaid
  <2>6. HeardOnly(seen, d, c, t, seen2, stamps2)
    BY <2>5, HeardOne
  <2>7. d.v = s.items
    BY <2>2, SignalFields
  <2>8. i.v[2] \in Nat /\ h.at >= i.v[2] /\ (o.n # 0 => i.v[2] >= since + o.p)
    BY <1>1, <1>3, <1>6, <1>14
  <2>9. ASSUME NEW k \in 1 .. c PROVE Punctual(o, seen2, stamps2, hist, Len(seen) + k)
    <3>1. k = 1 /\ seen2[Len(seen) + k] = d /\ stamps2[Len(seen) + k] = t
      BY <2>6 DEF HeardOnly
    <3>2. Len(d.v) < o.n => t >= since + o.p
      <4>1. Len(d.v) < o.n => o.n # 0
        BY <2>7, <1>7
      <4>2. h.at <= t
        OBVIOUS
      <4> HIDE DEF since, i, h
      <4> QED
        BY <4>1, <4>2, <2>8, <1>1, <1>4, SMTT(25)
    <3>3. since = IF FullBefore(o, seen2, Len(seen) + k) THEN Prior(stamps2, Len(seen) + k) ELSE 0
      BY <3>1, <1>4, <1>5 DEF Since
    <3>4. Limited(o, seen2, stamps2, hist, Len(seen) + k)
      <4> HIDE DEF since
      <4> QED
        BY <3>1, <3>2, <3>3 DEF Limited
    <3> QED
      BY <3>4 DEF Punctual
  <2>10. ASSUME c = Len(r.push) PROVE Grouping(o, r.st, r2, seen2, stamps2, hist)
    <3>1. c = 1
      BY <2>5, <2>10 DEF Single
    <3>2. 1 \in 1 .. c
      BY <3>1
    <3>3. seen2[Len(seen) + 1] = d
      BY <3>2, <2>6 DEF HeardOnly
    <3>4. o.n # 0 => Len(d.v) # o.n
      BY <2>7, <1>3, <1>7
    <3>5. o.n # 0 => Since(o, seen2, stamps2) = 0
      BY <3>1, <3>3, <3>4, <1>4
    <3>6. PICK x \in Nat : x = i.v[2]
      BY <2>8
    <3>7. e = Work(x + o.p, "hop", <<s.n + 1, x + o.p>>)
      BY <2>1, <3>6
    <3>8. o.n # 0 => Since(o, seen2, stamps2) \in Nat /\ Since(o, seen2, stamps2) <= x
      BY <3>5
    <3> QED
      BY <3>7, <3>8, <2>4, <1>10
  <2> QED
    BY <2>9, <2>10
<1>15. CASE i.k = "next" /\ Len(more) = o.n
  <2>1. PICK e : e = Work(t + o.p, "hop", <<s.n + 1, t + o.p>>)
    OBVIOUS
  <2>2. PICK d : d = OnNext(more)
    OBVIOUS
  <2>3. Makes(r, s.n + 1, <<>>, <<d>>, <<e>>)
    BY <1>15, <2>1, <2>2, BufferOrCountMakes
  <2>4. r.st.n = s.n + 1 /\ r.st.items = <<>> /\ r.push = <<d>> /\ r.arm = <<e>>
    BY <2>3 DEF Makes, Becomes
  <2>5. Single(r.push, d)
    BY <2>4, OneSaid
  <2>6. HeardOnly(seen, d, c, t, seen2, stamps2)
    BY <2>5, HeardOne
  <2>7. d.v = more
    BY <2>2, SignalFields
  <2>8. Len(d.v) = o.n
    BY <2>7, <1>15
  <2>9. ASSUME NEW k \in 1 .. c PROVE Punctual(o, seen2, stamps2, hist, Len(seen) + k)
    <3>1. seen2[Len(seen) + k] = d
      BY <2>6 DEF HeardOnly
    <3>2. Limited(o, seen2, stamps2, hist, Len(seen) + k)
      BY <3>1, <2>8 DEF Limited
    <3> QED
      BY <3>2 DEF Punctual
  <2>10. ASSUME c = Len(r.push) PROVE Grouping(o, r.st, r2, seen2, stamps2, hist)
    <3>1. c = 1
      BY <2>5, <2>10 DEF Single
    <3>2. 1 \in 1 .. c
      BY <3>1
    <3>3. seen2[Len(seen) + 1] = d
      BY <3>2, <2>6 DEF HeardOnly
    <3>4. Since(o, seen2, stamps2) = t
      BY <3>1, <3>3, <2>8, <1>4
    <3> QED
      BY <3>4, <2>1, <2>4, <1>10
  <2> QED
    BY <2>9, <2>10
<1>16. CASE i.k = "next" /\ Len(more) # o.n
  <2>1. Makes(r, s.n, more, <<>>, <<>>)
    BY <1>16, BufferOrCountMakes
  <2>2. r.st.n = s.n /\ r.st.items = more /\ r.push = <<>> /\ r.arm = <<>>
    BY <2>1 DEF Makes, Becomes
  <2>3. c = 0
    BY <2>2 DEF Hearing
  <2>4. \A a : In(r2, a) => In(q, a)
    BY <2>2, <1>1, RanQuietly
  <2>5. o.n # 0 => Len(r.st.items) < o.n
    <3> HIDE DEF more
    <3> QED
      BY <2>2, <1>3, <1>7, <1>16
  <2>6. Grouping(o, r.st, r2, seen2, stamps2, hist)
    BY <2>2, <2>3, <2>4, <2>5, <1>11
  <2> QED
    BY <2>3, <2>6
<1>17. CASE i.k = "completed"
  <2>0. PICK d, e : d = OnNext(s.items) /\ e = OnCompleted
    OBVIOUS
  <2>1. Makes(r, s.n, s.items, <<d, e>>, <<>>)
    BY <2>0, <1>17, BufferOrCountMakes
  <2>2. r.push = <<d, e>>
    BY <2>1 DEF Makes
  <2>3. Len(r.push) = 2 /\ r.push[1] = d /\ r.push[2] = e
    BY <2>2, TwoSaid
  <2>4. d.k = "next" /\ e.k = "completed" /\ e.s = 0
    BY <2>0, SignalFields
  <2>5. Len(r.push) = 2 /\ r.push[1].k = "next" /\ r.push[2] = OnCompleted /\ r.push[2].k = "completed"
    BY <2>0, <2>3, <2>4
  <2>6. Closed(hist, t)
    BY <1>1, <1>3, <1>17, ClosedInPast
  <2>7. ASSUME NEW k \in 1 .. c PROVE Punctual(o, seen2, stamps2, hist, Len(seen) + k)
    <3>1. k = 1 \/ k = 2
      <4>1. c \in 0 .. 2
        BY <2>5 DEF Hearing
      <4> QED
        BY <4>1
    <3>2. CASE k = 1
      <4>1. PICK n \in Nat : n = 1
        OBVIOUS
      <4>2. \A j \in 1 .. n : r.push[j].k = "next"
        BY <2>5, <4>1
      <4>3. Len(r.push) = n + 1 /\ r.push[n + 1] = OnCompleted /\ k <= n
        <5>1. n + 1 = 2
          BY <4>1
        <5> QED
          BY <3>2, <4>1, <5>1, <2>5
      <4>4. FlushedAt(o, seen2, stamps2, hist, Len(seen) + k)
        BY <4>2, <4>3, <2>6, FlushedNow
      <4> QED
        BY <4>4, <1>9
    <3>3. CASE k = 2
      <4>1. seen2[Len(seen) + k] = r.push[k]
        BY HearingIs
      <4>2. seen2[Len(seen) + k].k # "next"
        BY <3>3, <4>1, <2>5
      <4> QED
        BY <4>2, <1>8
    <3> QED
      BY <3>1, <3>2, <3>3
  <2>8. EndsOutput(r.push)
    BY <2>2, <2>4, TwoEnd DEF Terminal
  <2> QED
    BY <2>7, <2>8
<1>18. CASE i.k = "error"
  <2>1. PICK e : e = Passed(i)
    OBVIOUS
  <2>2. Makes(r, s.n, s.items, <<e>>, <<>>)
    BY <1>18, <2>1, BufferOrCountMakes
  <2>3. r.push = <<e>>
    BY <2>2 DEF Makes
  <2>4. e.s = 0 /\ e.k = "error"
    <3>1. i = [s |-> i.s, k |-> i.k, v |-> i.v]
      BY <1>1 DEF IsWork
    <3> QED
      BY <2>1, <3>1, <1>18, PassedFields
  <2>5. EndsOutput(r.push)
    BY <2>3, <2>4, OneEnds DEF Terminal
  <2>6. Single(r.push, e)
    BY <2>3, OneSaid
  <2>7. HeardOnly(seen, e, c, t, seen2, stamps2)
    BY <2>6, HeardOne
  <2>8. \A k \in 1 .. c : seen2[Len(seen) + k].k # "next"
    BY <2>4, <2>7 DEF HeardOnly
  <2> QED
    BY <2>5, <2>8, <1>8
<1> QED
  BY <1>2, <1>12, <1>13, <1>14, <1>15, <1>16, <1>17, <1>18

\* The only tick that waits is the next one, and it waits for its turn.
Ticking(o, q, seen) ==
  /\ \A a : In(q, a) => a.at = Item(a.w) /\ Len(seen) * o.p <= a.at
  /\ \A a, b : ~Ahead(q, a, b)

\* There is one next target; the samples on their way belong to earlier ones.
IsSample(a) == a.w.k = "sample"
IsPeriodic(a) == a.w.k = "periodic"
Sampling(o, q, seen, t) ==
  /\ \A a : In(q, a) /\ IsSample(a) =>
       a.at >= Item(a.w) /\ a.at <= t /\ Len(seen) * o.p <= Item(a.w)
  /\ \A a, b : Ahead(q, a, b) /\ IsSample(a) /\ IsSample(b) => Item(a.w) + o.p <= Item(b.w)
  /\ \A a : In(q, a) /\ IsPeriodic(a) => a.at = Item(a.w) /\ Len(seen) * o.p <= Item(a.w)
  /\ \A a, b : Ahead(q, a, b) /\ IsPeriodic(a) => ~IsPeriodic(b)
  /\ \A a, b : In(q, a) /\ In(q, b) /\ IsSample(a) /\ IsPeriodic(b) => Item(a.w) + o.p <= Item(b.w)

Ringing(o, q) == \A a : In(q, a) => a.at >= o.p

LEMMA OnceMore ==
  ASSUME NEW n \in Nat, NEW p \in Nat
  PROVE  n * p \in Nat /\ (n + 1) * p = n * p + p /\ (n + 1 - 1) * p = n * p
OBVIOUS

LEMMA TimerRuns ==
  ASSUME NEW o, o.name = "timer", o.p \in Nat, NEW s, IsState(s), NEW q, Tasks(o, q), q # <<>>,
         NEW t \in Nat, Head(q).at <= t, NEW hist, Ringing(o, q), NEW seen, NEW stamps,
         NEW r, r = timer(o, s, Head(q).w, t), NEW c, NEW seen2, NEW stamps2,
         Hearing(o, seen, r.push, c, stamps, t, seen2, stamps2)
  PROVE  /\ \A k \in 1 .. c : Punctual(o, seen2, stamps2, hist, Len(seen) + k)
         /\ Ringing(o, EnqueueAll(Tail(q), r.arm))
<1> DEFINE h == Head(q)
<1>1. IsQueue(q) /\ In(q, h) /\ IsWork(o, h.w) /\ h.at \in Nat
  BY HeadIs
<1>2. h.w.k = "producer"
  BY <1>1 DEF IsWork, Own, FromSource, Relays
<1>3. r.arm = <<>>
  BY <1>2, TimerMakes DEF Makes
<1>4. \A a : In(EnqueueAll(Tail(q), r.arm), a) => In(q, a)
  BY <1>1, <1>3, RanQuietly
<1>5. t >= o.p
  BY <1>1 DEF Ringing
<1>6. ASSUME NEW k \in 1 .. c PROVE Punctual(o, seen2, stamps2, hist, Len(seen) + k)
  <2>1. stamps2[Len(seen) + k] = t
    BY HearingIs
  <2> QED
    BY <2>1, <1>5 DEF Punctual
<1> QED
  BY <1>4, <1>6 DEF Ringing

LEMMA IntervalRuns ==
  ASSUME NEW o, o.name = "interval", o.p \in Nat, NEW s, IsState(s), NEW q, Tasks(o, q), q # <<>>,
         NEW t \in Nat, Head(q).at <= t, NEW hist, NEW seen, Ticking(o, q, seen), NEW stamps,
         NEW r, r = interval(o, s, Head(q).w, t), NEW c, NEW seen2, NEW stamps2,
         Hearing(o, seen, r.push, c, stamps, t, seen2, stamps2)
  PROVE  /\ \A k \in 1 .. c : Punctual(o, seen2, stamps2, hist, Len(seen) + k)
         /\ c = Len(r.push) => Ticking(o, EnqueueAll(Tail(q), r.arm), seen2)
<1> DEFINE h == Head(q)
           i == Head(q).w
           r2 == EnqueueAll(Tail(q), r.arm)
<1>1. IsQueue(q) /\ In(q, h) /\ IsWork(o, i) /\ h.at \in Nat
  BY HeadIs
<1>2. i.k = "periodic"
  BY <1>1 DEF IsWork, Own, FromSource, Relays
<1>3. PICK d, e : d = OnNext(<<s.n + 1>>) /\ e = Work(Item(i) + o.p, "periodic", <<Item(i) + o.p>>)
  OBVIOUS
<1>4. Makes(r, s.n + 1, s.items, <<d>>, <<e>>)
  BY <1>2, <1>3, IntervalMakes
<1>5. r.push = <<d>> /\ r.arm = <<e>>
  BY <1>4 DEF Makes
<1>6. Single(r.push, d)
  BY <1>5, OneSaid
<1>7. HeardOnly(seen, d, c, t, seen2, stamps2)
  BY <1>6, HeardOne
<1>8. h.at = Item(i) /\ Len(seen) * o.p <= h.at /\ \A a, b : ~Ahead(q, a, b)
  BY <1>1 DEF Ticking
<1>9. Len(seen) \in Nat /\ Len(seen2) = Len(seen) + c
  BY HearingIs
<1>10. Item(e.w) = h.at + o.p /\ e.at = h.at + o.p /\ e.at \in Nat
  BY <1>1, <1>3, <1>8 DEF Work, Signal, Item
<1>11. ASSUME NEW k \in 1 .. c PROVE Punctual(o, seen2, stamps2, hist, Len(seen) + k)
  <2>1. k = 1 /\ stamps2[Len(seen) + k] = t
    BY <1>7 DEF HeardOnly
  <2>2. (Len(seen) + k) - 1 = Len(seen)
    BY <2>1, <1>9
  <2>3. PICK x : x = Len(seen) * o.p
    OBVIOUS
  <2>4. x \in Nat
    BY <2>3, <1>9, OnceMore
  <2>5. t >= x
    BY <2>3, <2>4, <1>1, <1>8
  <2>6. Ticked(o, seen2, stamps2, hist, Len(seen) + k)
    BY <2>1, <2>2, <2>3, <2>5 DEF Ticked
  <2> QED
    BY <2>6 DEF Punctual
<1>12. ASSUME c = Len(r.push) PROVE Ticking(o, r2, seen2)
  <2>1. Len(seen2) = Len(seen) + 1
    BY <1>6, <1>9, <1>12 DEF Single
  <2>2. Len(seen2) * o.p <= e.at
    <3>1. PICK x, y : x = Len(seen) * o.p /\ y = (Len(seen) + 1) * o.p
      OBVIOUS
    <3>2. x \in Nat /\ y = x + o.p
      BY <3>1, <1>9, OnceMore
    <3>3. x <= h.at
      BY <3>1, <1>8
    <3>4. y <= e.at
      BY <3>2, <3>3, <1>1, <1>10
    <3> QED
      BY <3>1, <3>4, <2>1
  <2>3. \A a : In(r2, a) => a = e \/ Ahead(q, h, a)
    BY <1>1, <1>5, <1>10, RanArming
  <2>4. \A a : In(r2, a) => a = e
    BY <2>3, <1>8
  <2>5. \A a, b : Ahead(r2, a, b) => Ahead(q, a, b) \/ Ahead(q, h, a) \/ (a = e /\ e.at < b.at)
    BY <1>1, <1>5, <1>10, RanArming
  <2>6. \A a, b : Ahead(r2, a, b) => In(r2, b)
    BY DEF Ahead, In
  <2> HIDE DEF r2
  <2>7. \A a, b : ~Ahead(r2, a, b)
    BY <2>4, <2>5, <2>6, <1>8, <1>10
  <2> QED
    BY <2>2, <2>4, <2>7, <1>10 DEF Ticking
<1> QED
  BY <1>11, <1>12

LEMMA SamplingRuns ==
  ASSUME NEW o, o.name = "sample_with_time", o.p \in Nat, NEW s, IsState(s), NEW q, Tasks(o, q),
         q # <<>>, Head(q).w.k # "dispose", NEW t \in Nat, Head(q).at <= t, NEW hist, NEW seen,
         Sampling(o, q, seen, t), NEW stamps,
         NEW r, r = sample_with_time(o, s, Head(q).w, t), NEW c, NEW seen2, NEW stamps2,
         Hearing(o, seen, r.push, c, stamps, t, seen2, stamps2)
  PROVE  /\ \A k \in 1 .. c : Punctual(o, seen2, stamps2, hist, Len(seen) + k)
         /\ c = Len(r.push) /\ ~EndsOutput(r.push) =>
              Sampling(o, EnqueueAll(Tail(q), r.arm), seen2, t)
<1> DEFINE h == Head(q)
           i == Head(q).w
           r2 == EnqueueAll(Tail(q), r.arm)
<1>1. IsQueue(q) /\ In(q, h) /\ IsWork(o, i) /\ h.at \in Nat
  BY HeadIs
<1>2. i.k \in {"periodic", "sample", "next", "error", "completed"}
  BY <1>1 DEF IsWork, Own, FromSource
<1>3. \A a : In(q, a) /\ (IsSample(a) \/ IsPeriodic(a)) => Item(a.w) \in Nat
  <2>1. \A a : In(q, a) /\ (IsSample(a) \/ IsPeriodic(a)) => IsOne(a.w.v)
    BY DEF Tasks, IsTask, IsWork, Dated, IsSample, IsPeriodic
  <2> QED
    BY <2>1, OneIs
<1>4. PICK x, y \in Nat : x = Len(seen) * o.p /\ y = (Len(seen) + 1) * o.p /\ y = x + o.p
  <2>1. Len(seen) \in Nat
    BY HearingIs
  <2>2. Len(seen) * o.p \in Nat /\ (Len(seen) + 1) * o.p = Len(seen) * o.p + o.p
    BY <2>1, OnceMore
  <2> QED
    BY <2>2
<1>5. Len(seen) \in Nat /\ Len(seen2) = Len(seen) + c
  BY HearingIs
<1>6. /\ \A a : In(q, a) /\ IsSample(a) => a.at >= Item(a.w) /\ a.at <= t /\ x <= Item(a.w)
      /\ \A a, b : Ahead(q, a, b) /\ IsSample(a) /\ IsSample(b) => Item(a.w) + o.p <= Item(b.w)
      /\ \A a : In(q, a) /\ IsPeriodic(a) => a.at = Item(a.w) /\ x <= Item(a.w)
      /\ \A a, b : Ahead(q, a, b) /\ IsPeriodic(a) => ~IsPeriodic(b)
      /\ \A a, b : In(q, a) /\ In(q, b) /\ IsSample(a) /\ IsPeriodic(b) => Item(a.w) + o.p <= Item(b.w)
  BY <1>4 DEF Sampling
<1>7. ASSUME NEW k \in 1 .. c, seen2[Len(seen) + k].k # "next"
      PROVE  Punctual(o, seen2, stamps2, hist, Len(seen) + k)
  BY <1>7 DEF Punctual, Ticked, Said
\* Nothing is sent, and nothing is put on the worker.
<1>8. ASSUME r.push = <<>>, r.arm = <<>>
      PROVE  c = 0 /\ Sampling(o, r2, seen2, t)
  <2>1. c = 0
    BY <1>8 DEF Hearing
  <2>2. Len(seen2) = Len(seen)
    BY <2>1, <1>5
  <2>3. /\ \A a : In(r2, a) => In(q, a)
        /\ \A a, b : Ahead(r2, a, b) => Ahead(q, a, b)
    BY <1>1, <1>8, RanQuietly
  <2> HIDE DEF r2
  <2>4. Sampling(o, r2, seen2, t)
    BY <2>2, <2>3, <1>4, <1>6 DEF Sampling
  <2> QED
    BY <2>1, <2>4
<1>9. CASE i.k = "periodic"
  <2>1. PICK e, f : /\ e = Work(t, "sample", <<Item(i)>>)
                    /\ f = Work(Item(i) + o.p, "periodic", <<Item(i) + o.p>>)
    OBVIOUS
  <2>2. Makes(r, s.n, s.items, <<>>, <<e, f>>)
    BY <1>9, <2>1, SampleMakes
  <2>3. r.push = <<>> /\ r.arm = <<e, f>>
    BY <2>2 DEF Makes
  <2>4. c = 0
    BY <2>3 DEF Hearing
  <2>5. Len(seen2) = Len(seen)
    BY <2>4, <1>5
  <2>6. IsPeriodic(h)
    BY <1>9 DEF IsPeriodic
  <2>7. Item(i) \in Nat /\ h.at = Item(i) /\ x <= Item(i) /\ Item(i) <= t
    <3>1. Item(i) \in Nat /\ h.at = Item(i) /\ x <= Item(i)
      BY <2>6, <1>1, <1>3, <1>6
    <3> QED
      BY <3>1
  <2>8. e.at = t /\ e.at \in Nat /\ IsSample(e) /\ ~IsPeriodic(e) /\ Item(e.w) = Item(i)
    BY <2>1 DEF Work, Signal, Item, IsSample, IsPeriodic
  <2>9. f.at = Item(i) + o.p /\ f.at \in Nat /\ ~IsSample(f) /\ IsPeriodic(f) /\ Item(f.w) = Item(i) + o.p
    BY <2>1, <2>7 DEF Work, Signal, Item, IsSample, IsPeriodic
  <2>10. /\ \A a : In(r2, a) => a = e \/ a = f \/ (In(q, a) /\ Ahead(q, h, a))
         /\ \A a, b : Ahead(r2, a, b) =>
              \/ Ahead(q, a, b)
              \/ In(q, a) /\ Ahead(q, h, a) /\ (b = e \/ b = f)
              \/ a = e /\ (b = f \/ (In(q, b) /\ e.at < b.at))
              \/ a = f /\ (b = e \/ (In(q, b) /\ f.at < b.at))
    BY <2>3, <2>8, <2>9, <1>1, RanArmingTwo
  <2>11. \A a : In(q, a) /\ IsSample(a) => Item(a.w) + o.p <= Item(i) /\ a.at <= t /\ Item(a.w) \in Nat
    BY <2>6, <1>1, <1>3, <1>6
  <2>12. \A a : In(q, a) /\ Ahead(q, h, a) => ~IsPeriodic(a)
    BY <2>6, <1>6
  <2>13. \A a, b : Ahead(q, a, b) => In(q, a) /\ In(q, b)
    BY DEF Ahead, In
  <2>14. \A a, b : Ahead(r2, a, b) => In(r2, a) /\ In(r2, b)
    BY DEF Ahead, In
  <2> HIDE DEF r2, i, h
  <2>15. ASSUME NEW a, In(r2, a), IsSample(a)
         PROVE  a.at >= Item(a.w) /\ a.at <= t /\ x <= Item(a.w) /\ Item(a.w) + o.p <= Item(i) + o.p
    <3>1. CASE a = e
      BY <3>1, <2>7, <2>8
    <3>2. CASE In(q, a)
      <4>1. Item(a.w) \in Nat /\ Item(a.w) + o.p <= Item(i) /\ a.at >= Item(a.w) /\ a.at <= t /\ x <= Item(a.w)
        BY <3>2, <2>11, <2>15, <1>6
      <4> QED
        BY <4>1, <2>7
    <3> QED
      BY <3>1, <3>2, <2>9, <2>10, <2>15
  <2>16. ASSUME NEW a, NEW b, Ahead(r2, a, b), IsSample(a), IsSample(b)
         PROVE  Item(a.w) + o.p <= Item(b.w)
    <3>1. CASE Ahead(q, a, b)
      BY <3>1, <2>16, <1>6
    <3>2. CASE In(q, a) /\ b = e
      BY <3>2, <2>8, <2>11, <2>16
    <3>3. CASE a = e /\ In(q, b) /\ e.at < b.at
      <4>1. b.at <= t /\ b.at \in Nat
        BY <3>3, <2>11, <2>16, <1>1 DEF IsQueue
      <4> QED
        BY <3>3, <4>1, <2>8
    <3>4. a # f /\ b # f
      BY <2>9, <2>16
    <3> QED
      BY <3>1, <3>2, <3>3, <3>4, <2>10, <2>16
  <2>17. \A a : In(r2, a) /\ IsPeriodic(a) => a = f
    BY <2>8, <2>10, <2>12
  <2>18. x <= Item(i) + o.p
    BY <2>7
  <2>19. ASSUME NEW a, NEW b, Ahead(r2, a, b), IsPeriodic(a), IsPeriodic(b) PROVE FALSE
    <3>1. a = f /\ b = f
      BY <2>14, <2>17, <2>19
    <3>2. ~Ahead(q, a, b)
      BY <2>19, <1>6
    <3>3. ~Ahead(q, h, a) \/ ~In(q, a)
      BY <2>12, <2>19
    <3> QED
      BY <3>1, <3>2, <3>3, <2>8, <2>9, <2>10, <2>19
  <2>20. Sampling(o, r2, seen2, t)
    BY <2>5, <2>9, <2>15, <2>16, <2>17, <2>18, <2>19, <1>4 DEF Sampling
  <2> QED
    BY <2>4, <2>20 DEF r2
<1>10. CASE i.k = "sample" /\ s.items = <<>>
  <2>1. Makes(r, s.n, s.items, <<>>, <<>>)
    BY <1>10, SampleMakes
  <2> QED
    BY <2>1, <1>8 DEF Makes
<1>11. CASE i.k = "next"
  <2>1. Makes(r, s.n, i.v, <<>>, <<>>)
    BY <1>11, SampleMakes
  <2> QED
    BY <2>1, <1>8 DEF Makes
<1>12. CASE i.k = "sample" /\ s.items # <<>>
  <2>1. PICK d : d = OnNext(s.items)
    OBVIOUS
  <2>2. Makes(r, s.n, <<>>, <<d>>, <<>>)
    BY <1>12, <2>1, SampleMakes
  <2>3. r.push = <<d>> /\ r.arm = <<>>
    BY <2>2 DEF Makes
  <2>4. Single(r.push, d)
    BY <2>3, OneSaid
  <2>5. HeardOnly(seen, d, c, t, seen2, stamps2)
    BY <2>4, HeardOne
  <2>6. IsSample(h)
    BY <1>12 DEF IsSample
  <2>7. h.at >= Item(i) /\ x <= Item(i) /\ Item(i) \in Nat
    BY <2>6, <1>1, <1>3, <1>6
  <2>8. ASSUME NEW k \in 1 .. c PROVE Punctual(o, seen2, stamps2, hist, Len(seen) + k)
    <3>1. k = 1 /\ stamps2[Len(seen) + k] = t
      BY <2>5 DEF HeardOnly
    <3>2. (Len(seen) + k) - 1 = Len(seen)
      BY <3>1, <1>5
    <3>3. t >= x
      BY <2>7, <1>1
    <3>4. Ticked(o, seen2, stamps2, hist, Len(seen) + k)
      BY <3>1, <3>2, <3>3, <1>4 DEF Ticked
    <3> QED
      BY <3>4 DEF Punctual
  <2>9. ASSUME c = Len(r.push) PROVE Sampling(o, r2, seen2, t)
    <3>1. Len(seen2) = Len(seen) + 1
      BY <2>4, <2>9, <1>5 DEF Single
    <3>2. /\ \A a : In(r2, a) => In(q, a) /\ Ahead(q, h, a)
          /\ \A a, b : Ahead(r2, a, b) => Ahead(q, a, b)
      BY <2>3, <1>1, RanQuietly
    <3> HIDE DEF r2, h, i
    <3>3. \A a : In(r2, a) /\ IsSample(a) => Item(h.w) + o.p <= Item(a.w)
      BY <3>2, <2>6, <1>6
    <3>4. \A a : In(r2, a) /\ IsPeriodic(a) => Item(h.w) + o.p <= Item(a.w)
      BY <3>2, <2>6, <1>1, <1>6
    <3>5. \A a : In(r2, a) /\ (IsSample(a) \/ IsPeriodic(a)) => y <= Item(a.w)
      <4>1. Item(h.w) \in Nat /\ x <= Item(h.w)
        BY <2>7 DEF i, h
      <4>2. \A a : In(r2, a) /\ (IsSample(a) \/ IsPeriodic(a)) => Item(a.w) \in Nat
        BY <3>2, <1>3
      <4> QED
        BY <3>3, <3>4, <4>1, <4>2, <1>4, SMTT(25)
    <3> QED
      BY <3>1, <3>2, <3>5, <1>4, <1>6 DEF Sampling
  <2> QED
    BY <2>8, <2>9
<1>13. CASE i.k \in {"error", "completed"}
  <2>1. PICK e : e = Passed(i)
    OBVIOUS
  <2>2. Makes(r, s.n, s.items, <<e>>, <<>>)
    BY <1>13, <2>1, SampleMakes
  <2>3. r.push = <<e>>
    BY <2>2 DEF Makes
  <2>4. e.s = 0 /\ e.k = i.k
    <3>1. i = [s |-> i.s, k |-> i.k, v |-> i.v]
      BY <1>1 DEF IsWork
    <3> QED
      BY <2>1, <3>1, PassedFields
  <2>5. EndsOutput(r.push)
    BY <2>3, <2>4, <1>13, OneEnds DEF Terminal
  <2>6. Single(r.push, e)
    BY <2>3, OneSaid
  <2>7. HeardOnly(seen, e, c, t, seen2, stamps2)
    BY <2>6, HeardOne
  <2>8. \A k \in 1 .. c : seen2[Len(seen) + k].k # "next"
    BY <2>4, <2>7, <1>13 DEF HeardOnly
  <2> QED
    BY <2>5, <2>8, <1>7
<1> QED
  BY <1>2, <1>9, <1>10, <1>11, <1>12, <1>13

(* Chunks are opened a skip apart. One that waits for its period, or whose    *)
(* period is over, was opened when as many were opened as have been sent, or  *)
(* later, and they are on their way in the order they were opened in.         *)
IsHop(a) == a.w.k = "hop"
IsProduce(a) == a.w.k = "produce"
Buffering(o, s, q, seen, hist, t) ==
  /\ Len(seen) * o.m <= s.n
  /\ \A a : In(q, a) /\ (IsHop(a) \/ IsProduce(a)) =>
       Len(seen) * o.m <= Item(a.w) /\ Item(a.w) + o.m <= s.n /\ a.at >= Item(a.w) + o.p
  /\ \A a : In(q, a) /\ IsHop(a) => a.at = Item(a.w) + o.p
  /\ \A a : In(q, a) /\ IsProduce(a) => a.at <= t
  /\ \A a, b : Ahead(q, a, b) /\ IsHop(a) /\ IsHop(b) => Item(a.w) + o.m <= Item(b.w)
  /\ \A a, b : Ahead(q, a, b) /\ IsProduce(a) /\ IsProduce(b) => Item(a.w) + o.m <= Item(b.w)
  /\ \A a, b : In(q, a) /\ In(q, b) /\ IsProduce(a) /\ IsHop(b) => Item(a.w) + o.m <= Item(b.w)
  /\ \A a : In(q, a) /\ a.w.k = "completed" => IsClosed(hist)

LEMMA BufferingRuns ==
  ASSUME NEW o, o.name = "buffer_with_time", o.p \in Nat, o.m \in Nat, NEW s, IsState(s), s.n \in Nat,
         IsList(s.items), NEW q, Tasks(o, q), q # <<>>, Head(q).w.k # "dispose",
         NEW t \in Nat, Head(q).at <= t, NEW hist, NEW seen, Buffering(o, s, q, seen, hist, t),
         NEW stamps, InPast(stamps, Len(seen), hist, t),
         NEW r, r = buffer_with_time(o, s, Head(q).w, t), Speaks(r.push), NEW c, NEW seen2, NEW stamps2,
         Hearing(o, seen, r.push, c, stamps, t, seen2, stamps2)
  PROVE  /\ \A k \in 1 .. c : Punctual(o, seen2, stamps2, hist, Len(seen) + k)
         /\ c = Len(r.push) /\ ~EndsOutput(r.push) =>
              Buffering(o, r.st, EnqueueAll(Tail(q), r.arm), seen2, hist, t)
<1> DEFINE h == Head(q)
           i == Head(q).w
           r2 == EnqueueAll(Tail(q), r.arm)
<1>1. IsQueue(q) /\ In(q, h) /\ IsWork(o, i) /\ h.at \in Nat
  BY HeadIs
<1>2. i.k \in {"periodic", "create", "hop", "produce", "next", "error", "completed"}
  BY <1>1 DEF IsWork, Own, FromSource
<1>3. \A a : In(q, a) /\ (IsHop(a) \/ IsProduce(a)) => Item(a.w) \in Nat
  <2>1. \A a : In(q, a) /\ (IsHop(a) \/ IsProduce(a)) => IsOne(a.w.v)
    BY DEF Tasks, IsTask, IsWork, Dated, IsHop, IsProduce
  <2> QED
    BY <2>1, OneIs
<1>4. PICK x, y \in Nat : x = Len(seen) * o.m /\ y = (Len(seen) + 1) * o.m /\ y = x + o.m
  <2>1. Len(seen) \in Nat
    BY HearingIs
  <2>2. Len(seen) * o.m \in Nat /\ (Len(seen) + 1) * o.m = Len(seen) * o.m + o.m
    BY <2>1, OnceMore
  <2> QED
    BY <2>2
<1>5. Len(seen) \in Nat /\ Len(seen2) = Len(seen) + c
  BY HearingIs
<1>6. /\ x <= s.n
      /\ \A a : In(q, a) /\ (IsHop(a) \/ IsProduce(a)) =>
           x <= Item(a.w) /\ Item(a.w) + o.m <= s.n /\ a.at >= Item(a.w) + o.p
      /\ \A a : In(q, a) /\ IsHop(a) => a.at = Item(a.w) + o.p
      /\ \A a : In(q, a) /\ IsProduce(a) => a.at <= t
      /\ \A a, b : Ahead(q, a, b) /\ IsHop(a) /\ IsHop(b) => Item(a.w) + o.m <= Item(b.w)
      /\ \A a, b : Ahead(q, a, b) /\ IsProduce(a) /\ IsProduce(b) => Item(a.w) + o.m <= Item(b.w)
      /\ \A a, b : In(q, a) /\ In(q, b) /\ IsProduce(a) /\ IsHop(b) => Item(a.w) + o.m <= Item(b.w)
      /\ \A a : In(q, a) /\ a.w.k = "completed" => IsClosed(hist)
  BY <1>4 DEF Buffering
\* What says no value, or one that is flushed, is punctual.
<1>7. ASSUME NEW k \in 1 .. c, seen2[Len(seen) + k].k # "next"
      PROVE  Punctual(o, seen2, stamps2, hist, Len(seen) + k)
  BY <1>7 DEF Punctual, Spaced, Said
<1>8. ASSUME NEW k \in 1 .. c, FlushedAt(o, seen2, stamps2, hist, Len(seen) + k)
      PROVE  Punctual(o, seen2, stamps2, hist, Len(seen) + k)
  BY <1>8 DEF Punctual, Spaced
\* No chunk is opened, hopped or sent.
<1>9. ASSUME r.push = <<>>, r.st.n = s.n,
             \A a : In(r2, a) => In(q, a) \/ (~IsHop(a) /\ ~IsProduce(a) /\ a.w.k # "completed"),
             \A a, b : Ahead(r2, a, b) =>
               Ahead(q, a, b) \/ (~IsHop(a) /\ ~IsProduce(a)) \/ (~IsHop(b) /\ ~IsProduce(b))
      PROVE  c = 0 /\ Buffering(o, r.st, r2, seen2, hist, t)
  <2>1. c = 0
    BY <1>9 DEF Hearing
  <2>2. Len(seen2) = Len(seen)
    BY <2>1, <1>5
  <2> HIDE DEF r2
  <2>3. Buffering(o, r.st, r2, seen2, hist, t)
    BY <2>2, <1>4, <1>6, <1>9 DEF Buffering
  <2> QED
    BY <2>1, <2>3
<1>10. CASE i.k = "periodic"
  <2>1. PICK e, f : /\ e = Work(t, "create", <<Item(i)>>)
                    /\ f = Work(Item(i) + o.m, "periodic", <<Item(i) + o.m>>)
    OBVIOUS
  <2>2. Makes(r, s.n, s.items, <<>>, <<e, f>>)
    BY <1>10, <2>1, BufferMakes
  <2>3. r.push = <<>> /\ r.arm = <<e, f>> /\ r.st.n = s.n
    BY <2>2 DEF Makes, Becomes
  <2>4. Item(i) \in Nat
    <3>1. IsOne(i.v)
      BY <1>1, <1>10 DEF IsWork, Dated
    <3> QED
      BY <3>1, OneIs
  <2>5. /\ e.at \in Nat /\ ~IsHop(e) /\ ~IsProduce(e) /\ e.w.k # "completed"
        /\ f.at \in Nat /\ ~IsHop(f) /\ ~IsProduce(f) /\ f.w.k # "completed"
    BY <2>1, <2>4 DEF Work, Signal, IsHop, IsProduce
  <2>6. /\ \A a : In(r2, a) => a = e \/ a = f \/ In(q, a)
        /\ \A a, b : Ahead(r2, a, b) => Ahead(q, a, b) \/ b = e \/ b = f \/ a = e \/ a = f
    <3>1. /\ \A a : In(r2, a) => a = e \/ a = f \/ (In(q, a) /\ Ahead(q, h, a))
          /\ \A a, b : Ahead(r2, a, b) =>
               \/ Ahead(q, a, b)
               \/ In(q, a) /\ Ahead(q, h, a) /\ (b = e \/ b = f)
               \/ a = e /\ (b = f \/ (In(q, b) /\ e.at < b.at))
               \/ a = f /\ (b = e \/ (In(q, b) /\ f.at < b.at))
      BY <2>3, <2>5, <1>1, RanArmingTwo
    <3> HIDE DEF r2, h
    <3> QED
      BY <3>1
  <2>7. c = 0 /\ Buffering(o, r.st, r2, seen2, hist, t)
    <3> HIDE DEF r2
    <3> QED
      BY <2>3, <2>5, <2>6, <1>9
  <2> QED
    BY <2>7
<1>11. CASE i.k = "create"
  <2>1. PICK e : e = Work(s.n + o.p, "hop", <<s.n>>)
    OBVIOUS
  <2>2. Makes(r, s.n + o.m, Append(s.items, <<>>), <<>>, <<e>>)
    BY <1>11, <2>1, BufferMakes
  <2>3. r.push = <<>> /\ r.arm = <<e>> /\ r.st.n = s.n + o.m
    BY <2>2 DEF Makes, Becomes
  <2>4. c = 0
    BY <2>3 DEF Hearing
  <2>5. Len(seen2) = Len(seen)
    BY <2>4, <1>5
  <2>6. e.at = s.n + o.p /\ e.at \in Nat /\ IsHop(e) /\ ~IsProduce(e) /\ Item(e.w) = s.n /\ e.w.k # "completed"
    BY <2>1 DEF Work, Signal, Item, IsHop, IsProduce
  <2>7. /\ \A a : In(r2, a) => a = e \/ In(q, a)
        /\ \A a, b : Ahead(r2, a, b) => Ahead(q, a, b) \/ b = e \/ (a = e /\ In(q, b) /\ e.at < b.at)
        /\ \A a, b : Ahead(r2, a, b) => In(r2, a) /\ In(r2, b)
    <3>1. \A a, b : Ahead(r2, a, b) => In(r2, a) /\ In(r2, b)
      BY DEF Ahead, In
    <3> QED
      BY <2>3, <2>6, <1>1, <3>1, RanArming
  <2> HIDE DEF r2
  <2>8. \A a : In(q, a) /\ (IsHop(a) \/ IsProduce(a)) =>
           x <= Item(a.w) /\ Item(a.w) + o.m <= s.n + o.m /\ Item(a.w) + o.m <= s.n
    BY <1>3, <1>6
  <2>9. ASSUME NEW a, NEW b, Ahead(r2, a, b), IsHop(a), IsHop(b) PROVE Item(a.w) + o.m <= Item(b.w)
    <3>1. CASE Ahead(q, a, b)
      BY <3>1, <2>9, <1>6
    <3>2. CASE b = e /\ In(q, a)
      BY <3>2, <2>6, <2>8, <2>9
    <3>3. CASE a = e /\ In(q, b) /\ e.at < b.at
      <4>1. b.at = Item(b.w) + o.p /\ Item(b.w) + o.m <= s.n /\ Item(b.w) \in Nat
        BY <3>3, <2>9, <1>3, <1>6
      <4> QED
        BY <3>3, <4>1, <2>6
    <3>4. CASE a = e /\ b = e
      <4>1. ~(e.at < e.at)
        BY <2>6
      <4>2. CASE Ahead(q, e, e)
        BY <3>4, <4>2, <2>9, <1>6
      <4>3. CASE ~Ahead(q, e, e)
        <5>1. \/ Ahead(q, a, b)
              \/ In(q, a) /\ b = e
              \/ a = e /\ In(q, b) /\ e.at < b.at
          BY <2>3, <2>6, <2>9, <1>1, RanArming DEF r2
        <5>2. In(q, e)
          BY <3>4, <4>1, <4>3, <5>1
        <5> QED
          BY <3>2, <3>4, <5>2
      <4> QED
        BY <4>2, <4>3
    <3> QED
      BY <3>1, <3>2, <3>3, <3>4, <2>7, <2>9
  <2>10. ASSUME NEW a, NEW b, Ahead(r2, a, b), IsProduce(a), IsProduce(b) PROVE Item(a.w) + o.m <= Item(b.w)
    BY <2>6, <2>7, <2>10, <1>6
  <2>11. ASSUME NEW a, NEW b, In(r2, a), In(r2, b), IsProduce(a), IsHop(b) PROVE Item(a.w) + o.m <= Item(b.w)
    BY <2>6, <2>7, <2>8, <2>11, <1>6
  <2>12. ASSUME NEW a, In(r2, a), IsHop(a) \/ IsProduce(a)
         PROVE  x <= Item(a.w) /\ Item(a.w) + o.m <= s.n + o.m /\ a.at >= Item(a.w) + o.p
    BY <2>6, <2>7, <2>8, <2>12, <1>6
  <2>13. \A a : In(r2, a) /\ IsHop(a) => a.at = Item(a.w) + o.p
    BY <2>6, <2>7, <1>6
  <2>14. \A a : In(r2, a) /\ IsProduce(a) => a.at <= t
    BY <2>6, <2>7, <1>6
  <2>15. \A a : In(r2, a) /\ a.w.k = "completed" => IsClosed(hist)
    BY <2>6, <2>7, <1>6
  <2>16. x <= s.n + o.m
    BY <1>6
  <2>17. Buffering(o, r.st, r2, seen2, hist, t)
    BY <2>3, <2>5, <2>9, <2>10, <2>11, <2>12, <2>13, <2>14, <2>15, <2>16, <1>4 DEF Buffering
  <2> QED
    BY <2>4, <2>17 DEF r2
<1>12. CASE i.k = "hop"
  <2>1. PICK e : e = Work(t, "produce", i.v)
    OBVIOUS
  <2>2. Makes(r, s.n, s.items, <<>>, <<e>>)
    BY <1>12, <2>1, BufferMakes
  <2>3. r.push = <<>> /\ r.arm = <<e>> /\ r.st.n = s.n
    BY <2>2 DEF Makes, Becomes
  <2>4. c = 0
    BY <2>3 DEF Hearing
  <2>5. Len(seen2) = Len(seen)
    BY <2>4, <1>5
  <2>6. e.at = t /\ e.at \in Nat /\ ~IsHop(e) /\ IsProduce(e) /\ Item(e.w) = Item(i) /\ e.w.k # "completed"
    BY <2>1 DEF Work, Signal, Item, IsHop, IsProduce
  <2>7. /\ \A a : In(r2, a) => a = e \/ (In(q, a) /\ Ahead(q, h, a))
        /\ \A a, b : Ahead(r2, a, b) =>
             \/ Ahead(q, a, b)
             \/ In(q, a) /\ b = e /\ Ahead(q, h, a)
             \/ a = e /\ In(q, b) /\ e.at < b.at
    BY <2>3, <2>6, <1>1, RanArming
  <2>8. IsHop(h)
    BY <1>12 DEF IsHop
  <2>9. Item(i) \in Nat /\ x <= Item(i) /\ Item(i) + o.m <= s.n /\ t >= Item(i) + o.p
    <3>1. Item(i) \in Nat /\ x <= Item(i) /\ Item(i) + o.m <= s.n /\ h.at >= Item(i) + o.p
      BY <2>8, <1>1, <1>3, <1>6
    <3> QED
      BY <3>1, <1>1
  <2>10. \A a : In(q, a) /\ IsProduce(a) => Item(a.w) + o.m <= Item(i)
    BY <2>8, <1>1, <1>6
  <2>11. \A a : Ahead(q, h, a) /\ IsHop(a) => Item(i) + o.m <= Item(a.w)
    BY <2>8, <1>6
  <2> HIDE DEF r2, i, h
  <2>12. ASSUME NEW a, NEW b, Ahead(r2, a, b), IsHop(a), IsHop(b) PROVE Item(a.w) + o.m <= Item(b.w)
    BY <2>6, <2>7, <2>12, <1>6
  <2>13. ASSUME NEW a, NEW b, Ahead(r2, a, b), IsProduce(a), IsProduce(b) PROVE Item(a.w) + o.m <= Item(b.w)
    <3>1. CASE Ahead(q, a, b)
      BY <3>1, <2>13, <1>6
    <3>2. CASE In(q, a) /\ b = e
      BY <3>2, <2>6, <2>10, <2>13
    <3>3. CASE a = e /\ In(q, b) /\ e.at < b.at
      <4>1. b.at <= t /\ b.at \in Nat
        BY <3>3, <2>13, <1>1, <1>6 DEF IsQueue
      <4> QED
        BY <3>3, <4>1, <2>6
    <3> QED
      BY <3>1, <3>2, <3>3, <2>7, <2>13
  <2>14. ASSUME NEW a, NEW b, In(r2, a), In(r2, b), IsProduce(a), IsHop(b) PROVE Item(a.w) + o.m <= Item(b.w)
    <3>1. In(q, b) /\ Ahead(q, h, b)
      BY <2>6, <2>7, <2>14
    <3>2. CASE a = e
      BY <3>1, <3>2, <2>6, <2>11, <2>14
    <3>3. CASE In(q, a)
      BY <3>1, <3>3, <2>14, <1>6
    <3> QED
      BY <3>2, <3>3, <2>7, <2>14
  <2>15. ASSUME NEW a, In(r2, a), IsHop(a) \/ IsProduce(a)
         PROVE  x <= Item(a.w) /\ Item(a.w) + o.m <= s.n /\ a.at >= Item(a.w) + o.p
    BY <2>6, <2>7, <2>9, <2>15, <1>6
  <2>16. \A a : In(r2, a) /\ IsHop(a) => a.at = Item(a.w) + o.p
    BY <2>6, <2>7, <1>6
  <2>17. \A a : In(r2, a) /\ IsProduce(a) => a.at <= t
    BY <2>6, <2>7, <1>6
  <2>18. \A a : In(r2, a) /\ a.w.k = "completed" => IsClosed(hist)
    BY <2>6, <2>7, <1>6
  <2>19. Buffering(o, r.st, r2, seen2, hist, t)
    BY <2>3, <2>5, <2>12, <2>13, <2>14, <2>15, <2>16, <2>17, <2>18, <1>4, <1>6 DEF Buffering
  <2> QED
    BY <2>4, <2>19 DEF r2
<1>13. CASE i.k = "produce" /\ s.items = <<>>
  <2>1. PICK e : e = Nowhere
    OBVIOUS
  <2>2. Makes(r, s.n, s.items, <<e>>, <<>>)
    BY <1>13, <2>1, BufferMakes
  <2>3. Single(r.push, e)
    BY <2>2, OneSaid DEF Makes
  <2>4. PICK T : r.push \in Seq(T) /\ \A d \in T : d.k # "undefined"
    BY DEF Speaks
  <2>5. r.push[1] \in T
    BY <2>3, <2>4 DEF Single
  <2>6. e.k = "undefined"
    BY <2>1 DEF Nowhere, Signal
  <2> QED
    BY <2>3, <2>4, <2>5, <2>6 DEF Single
<1>14. CASE i.k = "produce" /\ s.items # <<>>
  <2>1. PICK d : d = OnNext(Head(s.items))
    OBVIOUS
  <2>2. Makes(r, s.n, Tail(s.items), <<d>>, <<>>)
    BY <1>14, <2>1, BufferMakes
  <2>3. r.push = <<d>> /\ r.arm = <<>> /\ r.st.n = s.n
    BY <2>2 DEF Makes, Becomes
  <2>4. Single(r.push, d)
    BY <2>3, OneSaid
  <2>5. HeardOnly(seen, d, c, t, seen2, stamps2)
    BY <2>4, HeardOne
  <2>6. IsProduce(h)
    BY <1>14 DEF IsProduce
  <2>7. Item(i) \in Nat /\ x <= Item(i) /\ Item(i) + o.m <= s.n /\ t >= Item(i) + o.p
    <3>1. Item(i) \in Nat /\ x <= Item(i) /\ Item(i) + o.m <= s.n /\ h.at >= Item(i) + o.p
      BY <2>6, <1>1, <1>3, <1>6
    <3> QED
      BY <3>1, <1>1
  <2>8. ASSUME NEW k \in 1 .. c PROVE Punctual(o, seen2, stamps2, hist, Len(seen) + k)
    <3>1. k = 1 /\ stamps2[Len(seen) + k] = t
      BY <2>5 DEF HeardOnly
    <3>2. (Len(seen) + k) - 1 = Len(seen)
      BY <3>1, <1>5
    <3>3. t >= x + o.p
      BY <2>7
    <3>4. Spaced(o, seen2, stamps2, hist, Len(seen) + k)
      BY <3>1, <3>2, <3>3, <1>4 DEF Spaced
    <3> QED
      BY <3>4 DEF Punctual
  <2>9. ASSUME c = Len(r.push) PROVE Buffering(o, r.st, r2, seen2, hist, t)
    <3>1. Len(seen2) = Len(seen) + 1
      BY <2>4, <2>9, <1>5 DEF Single
    <3>2. /\ \A a : In(r2, a) => In(q, a) /\ Ahead(q, h, a)
          /\ \A a, b : Ahead(r2, a, b) => Ahead(q, a, b)
      BY <2>3, <1>1, RanQuietly
    <3> HIDE DEF r2, i, h
    <3>3. \A a : In(r2, a) /\ (IsHop(a) \/ IsProduce(a)) => Item(h.w) + o.m <= Item(a.w)
      BY <3>2, <2>6, <1>1, <1>6
    <3>4. y <= Item(h.w) + o.m /\ y <= s.n
      BY <2>7, <1>4, SMTT(25) DEF i, h
    <3>5. \A a : In(r2, a) /\ (IsHop(a) \/ IsProduce(a)) => y <= Item(a.w)
      <4>1. \A a : In(r2, a) /\ (IsHop(a) \/ IsProduce(a)) => Item(a.w) \in Nat
        BY <3>2, <1>3
      <4>2. Item(h.w) \in Nat
        BY <2>7 DEF i, h
      <4> QED
        BY <3>3, <3>4, <4>1, <4>2
    <3> QED
      BY <3>1, <3>2, <3>4, <3>5, <2>3, <1>4, <1>6 DEF Buffering
  <2> QED
    BY <2>8, <2>9
<1>15. CASE i.k = "next"
  <2>1. Makes(r, s.n, [j \in DOMAIN s.items |-> Append(s.items[j], Item(i))], <<>>, <<>>)
    BY <1>15, BufferMakes
  <2>2. r.push = <<>> /\ r.arm = <<>> /\ r.st.n = s.n
    BY <2>1 DEF Makes, Becomes
  <2>3. /\ \A a : In(r2, a) => In(q, a)
        /\ \A a, b : Ahead(r2, a, b) => Ahead(q, a, b)
    BY <2>2, <1>1, RanQuietly
  <2>4. c = 0 /\ Buffering(o, r.st, r2, seen2, hist, t)
    <3> HIDE DEF r2
    <3> QED
      BY <2>2, <2>3, <1>9
  <2> QED
    BY <2>4
<1>16. CASE i.k = "completed"
  <2>1. Makes(r, s.n, <<>>, Chunks(s.items), <<>>)
    BY <1>16, BufferMakes
  <2>2. r.push = Chunks(s.items)
    BY <2>1 DEF Makes
  <2>3. PICK n \in Nat : n = Len(s.items)
    BY ChunksAre
  <2>4. /\ Len(r.push) = n + 1
        /\ \A j \in 1 .. n : r.push[j].k = "next"
        /\ r.push[n + 1] = OnCompleted
    BY <2>2, <2>3, ChunksAre
  <2>5. Closed(hist, t)
    BY <1>1, <1>6, <1>16, ClosedInPast
  <2>6. ASSUME NEW k \in 1 .. c PROVE Punctual(o, seen2, stamps2, hist, Len(seen) + k)
    <3>1. k <= n \/ k = n + 1
      <4>1. c \in 0 .. n + 1
        BY <2>4 DEF Hearing
      <4> QED
        BY <4>1
    <3>2. CASE k <= n
      <4>1. FlushedAt(o, seen2, stamps2, hist, Len(seen) + k)
        BY <3>2, <2>4, <2>5, FlushedNow
      <4> QED
        BY <4>1, <1>8
    <3>3. CASE k = n + 1
      <4>1. seen2[Len(seen) + k] = OnCompleted
        BY <3>3, <2>4, HearingIs
      <4>2. seen2[Len(seen) + k].k # "next"
        BY <4>1, SignalFields
      <4> QED
        BY <4>2, <1>7
    <3> QED
      BY <3>1, <3>2, <3>3
  <2>7. EndsOutput(r.push)
    <3>1. n + 1 \in DOMAIN r.push
      <4>1. PICK T : r.push \in Seq(T)
        BY DEF Speaks
      <4>2. DOMAIN r.push = 1 .. Len(r.push)
        BY <4>1
      <4> QED
        BY <4>2, <2>4
    <3>2. r.push[n + 1].s = 0 /\ Terminal(r.push[n + 1])
      BY <2>4, SignalFields DEF Terminal
    <3> QED
      BY <3>1, <3>2 DEF EndsOutput
  <2> QED
    BY <2>6, <2>7
<1>17. CASE i.k = "error"
  <2>1. PICK e : e = Passed(i)
    OBVIOUS
  <2>2. Makes(r, s.n, s.items, <<e>>, <<>>)
    BY <1>17, <2>1, BufferMakes
  <2>3. r.push = <<e>>
    BY <2>2 DEF Makes
  <2>4. e.s = 0 /\ e.k = "error"
    <3>1. i = [s |-> i.s, k |-> i.k, v |-> i.v]
      BY <1>1 DEF IsWork
    <3> QED
      BY <2>1, <3>1, <1>17, PassedFields
  <2>5. EndsOutput(r.push)
    BY <2>3, <2>4, OneEnds DEF Terminal
  <2>6. Single(r.push, e)
    BY <2>3, OneSaid
  <2>7. HeardOnly(seen, e, c, t, seen2, stamps2)
    BY <2>6, HeardOne
  <2>8. \A k \in 1 .. c : seen2[Len(seen) + k].k # "next"
    BY <2>4, <2>7 DEF HeardOnly
  <2> QED
    BY <2>5, <2>8, <1>7
<1> QED
  BY <1>2, <1>10, <1>11, <1>12, <1>13, <1>14, <1>15, <1>16, <1>17

(* The members, the work that waits and the past of any operator that keeps   *)
(* time, as long as its output is observed.                                   *)
Schedule(o, s, q, seen, stamps, hist, t) ==
  /\ o.name = "delay" => Delaying(o, q, hist)
  /\ o.name = "debounce" => \E L : Debouncing(o, s, q, hist, L)
  /\ o.name = "timeout" => Timing(o, s, q, seen, stamps, hist)
  /\ o.name = "buffer_with_time_or_count" => Grouping(o, s, q, seen, stamps, hist)
  /\ o.name = "buffer_with_time" => Buffering(o, s, q, seen, hist, t)
  /\ o.name = "sample_with_time" => Sampling(o, q, seen, t)
  /\ o.name = "interval" => Ticking(o, q, seen)
  /\ o.name = "timer" => Ringing(o, q)

LEMMA EntryAdded ==
  ASSUME NEW hist, IsList(hist), NEW l
  PROVE  \A e : Entry(Append(hist, l), e) <=> Entry(hist, e) \/ e = l
<1> DEFINE more == Append(hist, l)
<1>1. /\ Len(hist) \in Nat /\ \A j \in 1 .. Len(hist) : more[j] = hist[j]
      /\ more[Len(hist) + 1] = l
      /\ DOMAIN hist = 1 .. Len(hist) /\ DOMAIN more = 1 .. Len(hist) + 1
  BY Appended
<1>2. \A h, e : Entry(h, e) <=> \E j \in DOMAIN h : h[j] = e
  BY DEF Entry, ToSet
<1> HIDE DEF more
<1>3. ASSUME NEW e PROVE Entry(more, e) <=> Entry(hist, e) \/ e = l
  <2>1. ASSUME Entry(more, e) PROVE Entry(hist, e) \/ e = l
    <3>1. PICK j \in 1 .. Len(hist) + 1 : more[j] = e
      BY <2>1, <1>1, <1>2
    <3>2. j \in 1 .. Len(hist) \/ j = Len(hist) + 1
      BY <1>1
    <3> QED
      BY <3>1, <3>2, <1>1, <1>2
  <2>2. ASSUME Entry(hist, e) PROVE Entry(more, e)
    <3>1. PICK j \in 1 .. Len(hist) : hist[j] = e
      BY <2>2, <1>1, <1>2
    <3>2. j \in 1 .. Len(hist) + 1 /\ more[j] = e
      BY <3>1, <1>1
    <3> QED
      BY <3>2, <1>1, <1>2
  <2>3. Entry(more, l)
    <3>1. Len(hist) + 1 \in 1 .. Len(hist) + 1
      BY <1>1
    <3> QED
      BY <3>1, <1>1, <1>2
  <2> QED
    BY <2>1, <2>2, <2>3
<1> QED
  BY <1>3 DEF more

\* The log grows by an entry of now.
LEMMA LogGrows ==
  ASSUME NEW stamps, NEW n, NEW hist, NEW t, InPast(stamps, n, hist, t), NEW l, l.at = t
  PROVE  InPast(stamps, n, Append(hist, l), t) /\ SentLater(hist, Append(hist, l), t)
<1> DEFINE more == Append(hist, l)
           a == ValuesOf(hist)
           b == ValuesOf(more)
<1>1. /\ t \in Nat /\ IsList(hist) /\ IsList(a)
      /\ \A j \in 1 .. n : stamps[j] \in Nat /\ stamps[j] <= t
      /\ \A e : Entry(hist, e) => e.at \in Nat /\ e.at <= t
      /\ \A v \in 1 .. Len(a) : a[v].at \in Nat /\ a[v].at <= t
  BY DEF InPast
<1>2. IsList(more)
  BY <1>1, Appended
<1>3. \A e : Entry(more, e) <=> Entry(hist, e) \/ e = l
  BY <1>1, EntryAdded
<1>4. b = Append(a, l) \/ b = a
  BY <1>1, Recorded
<1>5. /\ Len(a) \in Nat /\ Len(Append(a, l)) = Len(a) + 1 /\ IsList(Append(a, l))
      /\ \A v \in 1 .. Len(a) : Append(a, l)[v] = a[v]
      /\ Append(a, l)[Len(a) + 1] = l
  BY <1>1, Appended
<1> HIDE DEF more, a, b
<1>6. /\ IsList(b) /\ Len(b) \in Nat /\ Len(a) <= Len(b) /\ Len(b) <= Len(a) + 1
      /\ \A v \in 1 .. Len(a) : b[v] = a[v]
      /\ Len(b) = Len(a) + 1 => b[Len(a) + 1] = l
  <2>1. CASE b = a
    <3>1. Len(b) # Len(a) + 1
      BY <2>1, <1>5
    <3> QED
      BY <2>1, <3>1, <1>1, <1>5
  <2>2. CASE b = Append(a, l)
    BY <2>2, <1>1, <1>5
  <2> QED
    BY <2>1, <2>2, <1>4
<1>7. ASSUME NEW v \in Len(a) + 1 .. Len(b) PROVE b[v].at = t
  <2>1. v = Len(a) + 1 /\ Len(b) = Len(a) + 1
    BY <1>5, <1>6
  <2> QED
    BY <2>1, <1>6
<1>8. ASSUME NEW v \in 1 .. Len(b) PROVE b[v].at \in Nat /\ b[v].at <= t
  <2>1. v \in 1 .. Len(a) \/ v \in Len(a) + 1 .. Len(b)
    BY <1>5, <1>6
  <2> QED
    BY <2>1, <1>1, <1>6, <1>7
<1>9. InPast(stamps, n, more, t)
  BY <1>1, <1>2, <1>3, <1>6, <1>8 DEF InPast, b
<1>10. SentLater(hist, more, t)
  BY <1>3, <1>5, <1>6, <1>7 DEF SentLater, a, b
<1> QED
  BY <1>9, <1>10 DEF more

\* Later the past is past, and the log need not have grown.
LEMMA PastStays ==
  ASSUME NEW stamps, NEW n, NEW hist, NEW t, InPast(stamps, n, hist, t)
  PROVE  InPast(stamps, n, hist, t + 1) /\ SentLater(hist, hist, t)
<1>1. Len(ValuesOf(hist)) \in Nat
  BY DEF InPast, IsList
<1>2. SentLater(hist, hist, t)
  <2>1. PICK a : a = ValuesOf(hist)
    OBVIOUS
  <2>2. Len(a) \in Nat /\ Len(a) <= Len(a) /\ \A v \in Len(a) + 1 .. Len(a) : a[v].at = t
    BY <2>1, <1>1
  <2> QED
    BY <2>1, <2>2 DEF SentLater
<1>3. \A x \in Nat : x <= t => x <= t + 1
  BY DEF InPast
<1> QED
  BY <1>2, <1>3 DEF InPast

\* What is seen now is past then.
LEMMA SeenInPast ==
  ASSUME NEW n \in Nat, NEW n2 \in Nat, NEW stamps, NEW t, NEW stamps2,
         Stamped(stamps, n, n2, t, stamps2), NEW hist, InPast(stamps, n, hist, t)
  PROVE  InPast(stamps2, n2, hist, t)
<1>1. /\ \A j \in 1 .. n : stamps2[j] = stamps[j]
      /\ \A j \in n + 1 .. n2 : stamps2[j] = t
  BY DEF Stamped
<1>2. t \in Nat /\ \A j \in 1 .. n : stamps[j] \in Nat /\ stamps[j] <= t
  BY DEF InPast
<1>3. ASSUME NEW j \in 1 .. n2 PROVE stamps2[j] \in Nat /\ stamps2[j] <= t
  <2>1. j \in 1 .. n \/ j \in n + 1 .. n2
    OBVIOUS
  <2> QED
    BY <2>1, <1>1, <1>2
<1> QED
  BY <1>3 DEF InPast

-----------------------------------------------------------------------------
(* Work that the source put on the worker, and what of it the log knows.      *)
Told(o, q, hist, e, hist2, t) ==
  /\ SentLater(hist, hist2, t) /\ e.at \in Nat /\ e.w.k \in FromSource \cup {"dispose"}
  /\ e.w.k = "completed" =>
       \E l : Entry(hist2, l) /\ l.i.k = "completed" /\ (o.name = "delay" => e.at >= l.at + o.p)
  /\ e.w.k = "error" => EndedBy(hist2)
  /\ o.name = "delay" /\ IsNext(e) =>
       IsSent(ValuesOf(hist2), Item(e.w)) /\ e.at >= ValuesOf(hist2)[Item(e.w)].at + o.p
  /\ o.name # "delay" =>
       \A L : Pending(q, ValuesOf(hist), L) => Pending(enqueue(q, e), ValuesOf(hist2), L)

LEMMA SourceTells ==
  ASSUME NEW o, o.p \in Nat, NEW q, IsQueue(q), NEW stamps, NEW n, NEW hist, NEW t,
         InPast(stamps, n, hist, t), NEW i, i.s = 1, i.k \in FromSource,
         i.k = "next" => i.v = <<Len(ValuesOf(hist)) + 1>>,
         NEW e, e = [at |-> t + Lag(o, i.k), w |-> i],
         NEW hist2, hist2 = Append(hist, [at |-> t, i |-> i])
  PROVE  Told(o, q, hist, e, hist2, t)
<1> DEFINE a == ValuesOf(hist)
           b == ValuesOf(hist2)
<1>1. PICK l : l = [at |-> t, i |-> i]
  OBVIOUS
<1>2. l.at = t /\ l.i = i /\ hist2 = Append(hist, l)
  BY <1>1
<1>3. /\ t \in Nat /\ IsList(hist) /\ IsList(a)
      /\ \A v \in 1 .. Len(a) : a[v].at \in Nat /\ a[v].at <= t
  BY DEF InPast
<1>4. SentLater(hist, hist2, t)
  BY <1>2, LogGrows
<1>5. Entry(hist2, l)
  BY <1>2, <1>3, EntryAdded
<1>6. e.w = i /\ e.at = t + Lag(o, i.k)
  OBVIOUS
<1>7. /\ o.name = "delay" /\ i.k # "error" => e.at = t + o.p
      /\ o.name # "delay" => e.at = t
      /\ e.at \in Nat
  BY <1>3, <1>6 DEF Lag
<1>8. b = IF IsValue(l) THEN Append(a, l) ELSE a
  BY <1>2, <1>3, Recorded
<1>9. IsValue(l) <=> i.k = "next"
  BY <1>2 DEF IsValue
<1>10. i.k = "next" => Item(i) = Len(a) + 1
  BY DEF Item
<1>11. e.w.k = "completed" =>
         \E x : Entry(hist2, x) /\ x.i.k = "completed" /\ (o.name = "delay" => e.at >= x.at + o.p)
  <2>1. i.k = "completed" => l.i.k = "completed" /\ (o.name = "delay" => e.at >= l.at + o.p)
    BY <1>2, <1>3, <1>7
  <2> QED
    BY <2>1, <1>5, <1>6
<1>12. e.w.k = "error" => EndedBy(hist2)
  BY <1>2, <1>5, <1>6 DEF EndedBy, Terminal
<1>13. ASSUME o.name = "delay", IsNext(e)
       PROVE  IsSent(b, Item(e.w)) /\ e.at >= b[Item(e.w)].at + o.p
  <2>1. b = Append(a, l) /\ Item(e.w) = Len(a) + 1
    BY <1>6, <1>8, <1>9, <1>10, <1>13 DEF IsNext
  <2>2. Len(a) \in Nat /\ Len(b) = Len(a) + 1 /\ b[Len(a) + 1] = l
    BY <2>1, <1>3, Appended
  <2>3. e.at = t + o.p
    BY <1>6, <1>7, <1>13 DEF IsNext
  <2> HIDE DEF a, b
  <2>4. IsSent(b, Item(e.w))
    BY <2>1, <2>2 DEF IsSent
  <2> QED
    BY <2>1, <2>2, <2>3, <2>4, <1>2, <1>3
<1>14. ASSUME o.name # "delay", NEW L, Pending(q, a, L) PROVE Pending(enqueue(q, e), b, L)
  <2>1. CASE i.k = "next"
    <3>1. b = Append(a, l) /\ IsNext(e) /\ Item(e.w) = Len(a) + 1
      BY <2>1, <1>6, <1>8, <1>9, <1>10 DEF IsNext
    <3>2. e.at = t
      BY <1>7, <1>14
    <3> HIDE DEF a, b
    <3> QED
      BY <3>1, <3>2, <1>2, <1>3, <1>14, PendingSends
  <2>2. CASE i.k # "next"
    <3>1. b = a /\ ~IsNext(e)
      BY <2>2, <1>6, <1>8, <1>9 DEF IsNext
    <3> HIDE DEF a, b
    <3> QED
      BY <3>1, <1>7, <1>14, PendingWaits
  <2> QED
    BY <2>1, <2>2
<1> QED
  BY <1>4, <1>6, <1>7, <1>11, <1>12, <1>13, <1>14 DEF Told

LEMMA DisposerTells ==
  ASSUME NEW o, NEW q, IsQueue(q), NEW stamps, NEW n, NEW hist, NEW t, InPast(stamps, n, hist, t),
         NEW at \in Nat, NEW e, e = Work(at, "dispose", <<>>)
  PROVE  Told(o, q, hist, e, hist, t)
<1>1. e.at \in Nat /\ e.w.k = "dispose" /\ ~IsNext(e)
  BY DEF Work, Signal, IsNext
<1>2. SentLater(hist, hist, t)
  BY PastStays
<1>3. \A L : Pending(q, ValuesOf(hist), L) => Pending(enqueue(q, e), ValuesOf(hist), L)
  <2>1. PICK a : a = ValuesOf(hist)
    OBVIOUS
  <2> QED
    BY <2>1, <1>1, PendingWaits
<1> QED
  BY <1>1, <1>2, <1>3 DEF Told

\* The source puts work on the worker, and it fits.
LEMMA ScheduleTold ==
  ASSUME NEW o, o.name \in Relays, o.p \in Nat, o.m \in Nat, NEW s, NEW q, IsQueue(q), NEW seen,
         NEW stamps, NEW hist, NEW t, Schedule(o, s, q, seen, stamps, hist, t), NEW e, NEW hist2,
         Told(o, q, hist, e, hist2, t), InPast(stamps, Len(seen), hist, t)
  PROVE  Schedule(o, s, enqueue(q, e), seen, stamps, hist2, t)
<1> DEFINE r == enqueue(q, e)
           a == ValuesOf(hist)
           b == ValuesOf(hist2)
<1>1. /\ SentLater(hist, hist2, t) /\ e.at \in Nat /\ e.w.k \in FromSource \cup {"dispose"}
      /\ e.w.k = "completed" =>
           \E l : Entry(hist2, l) /\ l.i.k = "completed" /\ (o.name = "delay" => e.at >= l.at + o.p)
      /\ e.w.k = "error" => EndedBy(hist2)
      /\ o.name = "delay" /\ IsNext(e) => IsSent(b, Item(e.w)) /\ e.at >= b[Item(e.w)].at + o.p
      /\ o.name # "delay" => \A L : Pending(q, a, L) => Pending(r, b, L)
  BY DEF Told
<1>2. /\ \A x : In(r, x) <=> In(q, x) \/ x = e
      /\ \A x, y : Ahead(r, x, y) => Ahead(q, x, y) \/ x = e \/ y = e
  <2>1. /\ \A x : In(r, x) <=> In(q, x) \/ x = e
        /\ \A x, y : Ahead(r, x, y) =>
             \/ Ahead(q, x, y)
             \/ In(q, x) /\ x.at <= e.at /\ y = e
             \/ x = e /\ In(q, y) /\ e.at < y.at
    BY <1>1, Enqueued
  <2> HIDE DEF r
  <2> QED
    BY <2>1
<1>3. \A l : Entry(hist, l) => Entry(hist2, l)
  BY <1>1 DEF SentLater
<1>4. IsClosed(hist) => IsClosed(hist2)
  BY <1>3 DEF IsClosed
<1>5. EndedBy(hist) => EndedBy(hist2)
  BY <1>3 DEF EndedBy
<1>6. /\ Len(a) \in Nat /\ Len(b) \in Nat /\ Len(a) <= Len(b)
      /\ \A v \in 1 .. Len(a) : b[v] = a[v]
  BY <1>1 DEF SentLater
<1>7. e.w.k = "completed" => IsClosed(hist2)
  BY <1>1 DEF IsClosed
<1>8. /\ e.w.k \notin {"produce", "hop", "periodic", "sample"}
      /\ ~IsHop(e) /\ ~IsProduce(e) /\ ~IsSample(e) /\ ~IsPeriodic(e)
  BY <1>1 DEF FromSource, IsHop, IsProduce, IsSample, IsPeriodic
<1> HIDE DEF r, a, b
<1>9. ASSUME o.name = "delay" PROVE Delaying(o, r, hist2)
  <2>1. \A x : In(q, x) =>
          /\ IsNext(x) => IsSent(a, Item(x.w)) /\ x.at >= a[Item(x.w)].at + o.p
          /\ x.w.k = "completed" => \E l : Entry(hist, l) /\ l.i.k = "completed" /\ x.at >= l.at + o.p
    BY <1>9 DEF Schedule, Delaying, a
  <2>2. \A v : IsSent(a, v) => IsSent(b, v) /\ b[v] = a[v]
    BY <1>6 DEF IsSent
  <2>3. ASSUME NEW x, In(r, x), IsNext(x) PROVE IsSent(b, Item(x.w)) /\ x.at >= b[Item(x.w)].at + o.p
    BY <2>1, <2>2, <2>3, <1>1, <1>2, <1>9
  <2>4. ASSUME NEW x, In(r, x), x.w.k = "completed"
        PROVE  \E l : Entry(hist2, l) /\ l.i.k = "completed" /\ x.at >= l.at + o.p
    BY <2>1, <2>4, <1>1, <1>2, <1>3, <1>9
  <2> QED
    BY <2>3, <2>4 DEF Delaying, b
<1>10. ASSUME o.name = "debounce" PROVE \E L : Debouncing(o, s, r, hist2, L)
  <2>1. PICK L : Debouncing(o, s, q, hist, L)
    BY <1>10 DEF Schedule
  <2>2. /\ Pending(q, a, L)
        /\ s.items = <<>> \/ (L # 0 /\ s.items = <<L>>)
        /\ \A x : In(q, x) /\ x.w.k = "produce" =>
             Item(x.w) <= s.n /\ (Item(x.w) = s.n => L # 0 /\ x.at >= a[L].at + o.p)
        /\ \A x : In(q, x) /\ x.w.k = "completed" => IsClosed(hist)
    BY <2>1 DEF Debouncing, a
  <2>3. L # 0 => b[L] = a[L]
    <3>1. L \in Nat /\ L <= Len(a)
      BY <2>2 DEF Pending
    <3> QED
      BY <3>1, <1>6
  <2>4. Pending(r, b, L)
    BY <2>2, <1>1, <1>10
  <2>5. \A x : In(r, x) /\ x.w.k = "produce" =>
             Item(x.w) <= s.n /\ (Item(x.w) = s.n => L # 0 /\ x.at >= b[L].at + o.p)
    BY <2>2, <2>3, <1>2, <1>8
  <2>6. \A x : In(r, x) /\ x.w.k = "completed" => IsClosed(hist2)
    BY <2>2, <1>2, <1>4, <1>7
  <2>7. Debouncing(o, s, r, hist2, L)
    BY <2>2, <2>4, <2>5, <2>6 DEF Debouncing, b
  <2> QED
    BY <2>7
<1>11. ASSUME o.name = "timeout" PROVE Timing(o, s, r, seen, stamps, hist2)
  <2>1. Timing(o, s, q, seen, stamps, hist)
    BY <1>11 DEF Schedule
  <2>2. Pending(r, b, Len(seen))
    BY <2>1, <1>1, <1>11 DEF Timing, a
  <2> QED
    BY <2>1, <2>2, <1>1, <1>2, <1>5, <1>8 DEF Timing, b
<1>12. ASSUME o.name = "buffer_with_time_or_count" PROVE Grouping(o, s, r, seen, stamps, hist2)
  <2>1. Grouping(o, s, q, seen, stamps, hist)
    BY <1>12 DEF Schedule
  <2>2. \A x : In(r, x) /\ x.w.k \in {"hop", "produce"} => In(q, x)
    BY <1>2, <1>8
  <2> QED
    BY <2>1, <2>2, <1>2, <1>4, <1>7 DEF Grouping
<1>13. \A x : In(r, x) /\ (IsHop(x) \/ IsProduce(x) \/ IsSample(x) \/ IsPeriodic(x)) => In(q, x)
  BY <1>2, <1>8
<1>14. \A x, y : /\ Ahead(r, x, y)
                 /\ IsHop(x) \/ IsProduce(x) \/ IsSample(x) \/ IsPeriodic(x)
                 /\ IsHop(y) \/ IsProduce(y) \/ IsSample(y) \/ IsPeriodic(y)
                 => Ahead(q, x, y)
  BY <1>2, <1>8
<1>15. ASSUME o.name = "buffer_with_time" PROVE Buffering(o, s, r, seen, hist2, t)
  <2>1. Buffering(o, s, q, seen, hist, t)
    BY <1>15 DEF Schedule
  <2> QED
    BY <2>1, <1>2, <1>4, <1>7, <1>13, <1>14 DEF Buffering
<1>16. ASSUME o.name = "sample_with_time" PROVE Sampling(o, r, seen, t)
  <2>1. Sampling(o, q, seen, t)
    BY <1>16 DEF Schedule
  <2> QED
    BY <2>1, <1>13, <1>14 DEF Sampling
<1>17. o.name # "interval" /\ o.name # "timer"
  BY DEF Relays
<1> QED
  BY <1>9, <1>10, <1>11, <1>12, <1>15, <1>16, <1>17 DEF Schedule, r

LEMMA ScheduleTicks ==
  ASSUME NEW o, NEW s, NEW q, IsQueue(q), NEW seen, NEW stamps, NEW hist, NEW t \in Nat,
         Schedule(o, s, q, seen, stamps, hist, t)
  PROVE  Schedule(o, s, q, seen, stamps, hist, t + 1)
<1>1. \A a : In(q, a) /\ a.at <= t => a.at <= t + 1
  BY DEF IsQueue
<1>2. o.name = "buffer_with_time" => Buffering(o, s, q, seen, hist, t + 1)
  BY <1>1 DEF Schedule, Buffering
<1>3. o.name = "sample_with_time" => Sampling(o, q, seen, t + 1)
  BY <1>1 DEF Schedule, Sampling
<1> QED
  BY <1>2, <1>3 DEF Schedule

LEMMA ScheduleOfDelay ==
  ASSUME NEW o, o.name = "delay", NEW s, NEW q, NEW seen, NEW stamps, NEW hist, NEW t,
         Delaying(o, q, hist)
  PROVE  Schedule(o, s, q, seen, stamps, hist, t)
BY DEF Schedule

LEMMA ScheduleOfDebounce ==
  ASSUME NEW o, o.name = "debounce", NEW s, NEW q, NEW seen, NEW stamps, NEW hist, NEW t,
         \E L : Debouncing(o, s, q, hist, L)
  PROVE  Schedule(o, s, q, seen, stamps, hist, t)
BY DEF Schedule

LEMMA ScheduleOfTimeout ==
  ASSUME NEW o, o.name = "timeout", NEW s, NEW q, NEW seen, NEW stamps, NEW hist, NEW t,
         Timing(o, s, q, seen, stamps, hist)
  PROVE  Schedule(o, s, q, seen, stamps, hist, t)
BY DEF Schedule

LEMMA ScheduleOfGroups ==
  ASSUME NEW o, o.name = "buffer_with_time_or_count", NEW s, NEW q, NEW seen, NEW stamps, NEW hist, NEW t,
         Grouping(o, s, q, seen, stamps, hist)
  PROVE  Schedule(o, s, q, seen, stamps, hist, t)
BY DEF Schedule

LEMMA ScheduleOfBuffers ==
  ASSUME NEW o, o.name = "buffer_with_time", NEW s, NEW q, NEW seen, NEW stamps, NEW hist, NEW t,
         Buffering(o, s, q, seen, hist, t)
  PROVE  Schedule(o, s, q, seen, stamps, hist, t)
BY DEF Schedule

LEMMA ScheduleOfSamples ==
  ASSUME NEW o, o.name = "sample_with_time", NEW s, NEW q, NEW seen, NEW stamps, NEW hist, NEW t,
         Sampling(o, q, seen, t)
  PROVE  Schedule(o, s, q, seen, stamps, hist, t)
BY DEF Schedule

LEMMA ScheduleOfInterval ==
  ASSUME NEW o, o.name = "interval", NEW s, NEW q, NEW seen, NEW stamps, NEW hist, NEW t,
         Ticking(o, q, seen)
  PROVE  Schedule(o, s, q, seen, stamps, hist, t)
BY DEF Schedule

LEMMA ScheduleOfTimer ==
  ASSUME NEW o, o.name = "timer", NEW s, NEW q, NEW seen, NEW stamps, NEW hist, NEW t,
         Ringing(o, q)
  PROVE  Schedule(o, s, q, seen, stamps, hist, t)
BY DEF Schedule

LEMMA RunsInTime ==
  ASSUME NEW o, o.name \in Keeping, o.p \in Nat, o.n \in Nat, o.m \in Nat, NEW s, IsState(s),
         s.n \in Nat, IsList(s.items), NEW q, Tasks(o, q), q # <<>>, Head(q).w.k # "dispose",
         NEW t \in Nat, Head(q).at <= t, NEW hist, NEW seen, NEW stamps,
         InPast(stamps, Len(seen), hist, t), Schedule(o, s, q, seen, stamps, hist, t),
         NEW r, r = InTime(o, s, Head(q).w, t), Speaks(r.push), NEW c, NEW seen2, NEW stamps2,
         Hearing(o, seen, r.push, c, stamps, t, seen2, stamps2)
  PROVE  /\ \A k \in 1 .. c : Punctual(o, seen2, stamps2, hist, Len(seen) + k)
         /\ c = Len(r.push) /\ ~EndsOutput(r.push) =>
              Schedule(o, r.st, EnqueueAll(Tail(q), r.arm), seen2, stamps2, hist, t)
<1> DEFINE r2 == EnqueueAll(Tail(q), r.arm)
<1>1. CASE o.name = "delay"
  <2>1. r = delay(o, s, Head(q).w, t) /\ Delaying(o, q, hist)
    BY <1>1, InTimeIs DEF Schedule
  <2>2. /\ \A k \in 1 .. c : Punctual(o, seen2, stamps2, hist, Len(seen) + k)
        /\ Delaying(o, r2, hist)
    BY <1>1, <2>1, DelayRuns
  <2> HIDE DEF r2
  <2>3. c = Len(r.push) /\ ~EndsOutput(r.push) => Schedule(o, r.st, r2, seen2, stamps2, hist, t)
    BY <1>1, <2>2, ScheduleOfDelay
  <2> QED
    BY <2>2, <2>3 DEF r2
<1>2. CASE o.name = "debounce"
  <2>1. r = debounce(o, s, Head(q).w, t) /\ \E L : Debouncing(o, s, q, hist, L)
    BY <1>2, InTimeIs DEF Schedule
  <2>2. PICK L : Debouncing(o, s, q, hist, L)
    BY <2>1
  <2>3. /\ \A k \in 1 .. c : Punctual(o, seen2, stamps2, hist, Len(seen) + k)
        /\ \E K : Debouncing(o, r.st, r2, hist, K)
    BY <1>2, <2>1, <2>2, DebounceRuns
  <2> HIDE DEF r2
  <2>4. c = Len(r.push) /\ ~EndsOutput(r.push) => Schedule(o, r.st, r2, seen2, stamps2, hist, t)
    BY <1>2, <2>3, ScheduleOfDebounce
  <2> QED
    BY <2>3, <2>4 DEF r2
<1>3. CASE o.name = "timeout"
  <2>1. r = timeout(o, s, Head(q).w, t) /\ Timing(o, s, q, seen, stamps, hist)
    BY <1>3, InTimeIs DEF Schedule
  <2>2. /\ \A k \in 1 .. c : Punctual(o, seen2, stamps2, hist, Len(seen) + k)
        /\ c = Len(r.push) /\ ~EndsOutput(r.push) => Timing(o, r.st, r2, seen2, stamps2, hist)
    BY <1>3, <2>1, TimeoutRuns
  <2> HIDE DEF r2
  <2>3. c = Len(r.push) /\ ~EndsOutput(r.push) => Schedule(o, r.st, r2, seen2, stamps2, hist, t)
    BY <1>3, <2>2, ScheduleOfTimeout
  <2> QED
    BY <2>2, <2>3 DEF r2
<1>4. CASE o.name = "buffer_with_time_or_count"
  <2>1. /\ r = buffer_with_time_or_count(o, s, Head(q).w, t)
        /\ Grouping(o, s, q, seen, stamps, hist)
    BY <1>4, InTimeIs DEF Schedule
  <2>2. /\ \A k \in 1 .. c : Punctual(o, seen2, stamps2, hist, Len(seen) + k)
        /\ c = Len(r.push) /\ ~EndsOutput(r.push) => Grouping(o, r.st, r2, seen2, stamps2, hist)
    BY <1>4, <2>1, GroupingRuns
  <2> HIDE DEF r2
  <2>3. c = Len(r.push) /\ ~EndsOutput(r.push) => Schedule(o, r.st, r2, seen2, stamps2, hist, t)
    BY <1>4, <2>2, ScheduleOfGroups
  <2> QED
    BY <2>2, <2>3 DEF r2
<1>5. CASE o.name = "buffer_with_time"
  <2>1. r = buffer_with_time(o, s, Head(q).w, t) /\ Buffering(o, s, q, seen, hist, t)
    BY <1>5, InTimeIs DEF Schedule
  <2>2. /\ \A k \in 1 .. c : Punctual(o, seen2, stamps2, hist, Len(seen) + k)
        /\ c = Len(r.push) /\ ~EndsOutput(r.push) => Buffering(o, r.st, r2, seen2, hist, t)
    BY <1>5, <2>1, BufferingRuns
  <2> HIDE DEF r2
  <2>3. c = Len(r.push) /\ ~EndsOutput(r.push) => Schedule(o, r.st, r2, seen2, stamps2, hist, t)
    BY <1>5, <2>2, ScheduleOfBuffers
  <2> QED
    BY <2>2, <2>3 DEF r2
<1>6. CASE o.name = "sample_with_time"
  <2>1. r = sample_with_time(o, s, Head(q).w, t) /\ Sampling(o, q, seen, t)
    BY <1>6, InTimeIs DEF Schedule
  <2>2. /\ \A k \in 1 .. c : Punctual(o, seen2, stamps2, hist, Len(seen) + k)
        /\ c = Len(r.push) /\ ~EndsOutput(r.push) => Sampling(o, r2, seen2, t)
    BY <1>6, <2>1, SamplingRuns
  <2> HIDE DEF r2
  <2>3. c = Len(r.push) /\ ~EndsOutput(r.push) => Schedule(o, r.st, r2, seen2, stamps2, hist, t)
    BY <1>6, <2>2, ScheduleOfSamples
  <2> QED
    BY <2>2, <2>3 DEF r2
<1>7. CASE o.name = "interval"
  <2>1. r = interval(o, s, Head(q).w, t) /\ Ticking(o, q, seen)
    BY <1>7, InTimeIs DEF Schedule
  <2>2. /\ \A k \in 1 .. c : Punctual(o, seen2, stamps2, hist, Len(seen) + k)
        /\ c = Len(r.push) => Ticking(o, r2, seen2)
    BY <1>7, <2>1, IntervalRuns
  <2> HIDE DEF r2
  <2>3. c = Len(r.push) /\ ~EndsOutput(r.push) => Schedule(o, r.st, r2, seen2, stamps2, hist, t)
    BY <1>7, <2>2, ScheduleOfInterval
  <2> QED
    BY <2>2, <2>3 DEF r2
<1>8. CASE o.name = "timer"
  <2>1. r = timer(o, s, Head(q).w, t) /\ Ringing(o, q)
    BY <1>8, InTimeIs DEF Schedule
  <2>2. /\ \A k \in 1 .. c : Punctual(o, seen2, stamps2, hist, Len(seen) + k)
        /\ Ringing(o, r2)
    BY <1>8, <2>1, TimerRuns
  <2> HIDE DEF r2
  <2>3. c = Len(r.push) /\ ~EndsOutput(r.push) => Schedule(o, r.st, r2, seen2, stamps2, hist, t)
    BY <1>8, <2>2, ScheduleOfTimer
  <2> QED
    BY <2>2, <2>3 DEF r2
<1> QED
  BY <1>1, <1>2, <1>3, <1>4, <1>5, <1>6, <1>7, <1>8 DEF Keeping, Relays

-----------------------------------------------------------------------------
(* The inductive invariant behind NeverEarly.                                 *)
OnSchedule(o, s, q, sources, channels, seen, stamps, hist, t) ==
  /\ IsState(s) /\ s.n \in Nat /\ IsList(s.items)
  /\ Tasks(o, q)
  /\ sources \subseteq {1} /\ (o.name \notin Relays => sources = {}) /\ channels \subseteq {0}
  /\ IsList(seen) /\ IsList(stamps) /\ Len(stamps) = Len(seen)
  /\ InPast(stamps, Len(seen), hist, t)
  /\ 0 \in channels => \A j \in 1 .. Len(seen) : seen[j].s = 0
  /\ AllPunctual(o, seen, stamps, hist)
  /\ 0 \in channels => Schedule(o, s, q, seen, stamps, hist, t)

NextPunctual(o, push, c, seen, stamps, hist, n) ==
  \A k \in 1 .. c : push[k].s = 0 => Punctual(o, seen, stamps, hist, n + k)

\* What was seen in time stays so, whatever is seen and sent since.
LEMMA AllPunctualStays ==
  ASSUME NEW o, o.p \in Nat, NEW seen, IsList(seen), NEW push, NEW c \in Nat, NEW seen2,
         Extends(seen, push, c, seen2), NEW stamps, NEW t, NEW stamps2,
         Stamped(stamps, Len(seen), Len(seen2), t, stamps2), NEW hist, NEW hist2,
         SentLater(hist, hist2, t), InPast(stamps, Len(seen), hist, t),
         AllPunctual(o, seen, stamps, hist),
         NextPunctual(o, push, c, seen2, stamps2, hist2, Len(seen))
  PROVE  AllPunctual(o, seen2, stamps2, hist2)
<1>1. Len(seen) \in Nat /\ Len(seen2) = Len(seen) + c /\ Len(seen2) \in Nat
  BY DEF IsList, Extends
<1>2. SeenLater(seen, seen2)
  BY <1>1 DEF SeenLater, Extends
<1>3. \A j \in 1 .. Len(seen) : seen2[j] = seen[j] /\ stamps2[j] = stamps[j]
  BY DEF Extends, Stamped
<1>4. \A k \in 1 .. c : seen2[Len(seen) + k] = push[k]
  BY DEF Extends
<1> SUFFICES ASSUME NEW j \in 1 .. Len(seen2), seen2[j].s = 0
             PROVE  Punctual(o, seen2, stamps2, hist2, j)
  BY DEF AllPunctual
<1>5. CASE j \in 1 .. Len(seen)
  <2>1. Punctual(o, seen, stamps, hist, j)
    BY <1>3, <1>5 DEF AllPunctual
  <2> QED
    BY <2>1, <1>2, <1>3, <1>5, PunctualStays
<1>6. CASE j \notin 1 .. Len(seen)
  <2>1. PICK k \in 1 .. c : j = Len(seen) + k
    <3>1. j - Len(seen) \in 1 .. c /\ j = Len(seen) + (j - Len(seen))
      BY <1>1, <1>6
    <3> QED
      BY <3>1
  <2>2. push[k].s = 0
    BY <2>1, <1>4
  <2> QED
    BY <2>1, <2>2 DEF NextPunctual
<1> QED
  BY <1>5, <1>6

LEMMA ScheduleSame ==
  ASSUME NEW o, NEW s, NEW s2, s2.n = s.n, s2.items = s.items, NEW q, NEW seen, NEW stamps, NEW hist,
         NEW t, Schedule(o, s, q, seen, stamps, hist, t)
  PROVE  Schedule(o, s2, q, seen, stamps, hist, t)
BY DEF Schedule, Debouncing, Timing, Grouping, Buffering

LEMMA StepInTime ==
  ASSUME NEW o, o.p # 0, NEW s, NEW i, NEW t
  PROVE  Step(o, s, i, t) = InTime(o, s, i, t)
BY DEF Step

\* Whether the output is observed is no member of those that keep time.
LEMMA SameBut ==
  ASSUME NEW s, IsState(s), NEW x, NEW s2, s2 = [s EXCEPT !.out = x]
  PROVE  IsState(s2) /\ s2.n = s.n /\ s2.items = s.items
BY StateKept DEF IsState

LEMMA DisposerIsTask ==
  ASSUME NEW o, o.name \in Relays, NEW at \in Nat
  PROVE  IsTask(o, Work(at, "dispose", <<>>))
BY DEF IsTask, IsWork, Work, Signal, Dated

LEMMA NoTask == ASSUME NEW o PROVE Tasks(o, <<>>)
BY NothingWaits DEF Tasks

\* Only the output has spoken.
AllSaid(seen) == \A j \in 1 .. Len(seen) : seen[j].s = 0

\* What an observer has heard of a call is all of the output, as it was before.
LEMMA HeardOfOutput ==
  ASSUME NEW seen, IsList(seen), \A j \in 1 .. Len(seen) : seen[j].s = 0, NEW push, Speaks(push),
         NEW c \in 0 .. Len(push), NEW seen2, Extends(seen, push, c, seen2)
  PROVE  (\A j \in 1 .. Len(seen2) : seen2[j].s = 0) /\ Seen(seen2) = Len(seen2)
<1>1. Len(seen) \in Nat /\ Len(seen2) = Len(seen) + c /\ IsList(seen2) /\ c \in Nat
  BY DEF IsList, Extends
<1>2. \A k \in 1 .. c : push[k].s = 0
  <2>1. PICK T : push \in Seq(T) /\ \A e \in T : e.s = 0
    BY DEF Speaks
  <2>2. \A k \in 1 .. Len(push) : push[k] \in T
    BY <2>1
  <2> QED
    BY <2>1, <2>2
<1>3. /\ \A j \in 1 .. Len(seen) : seen2[j] = seen[j]
      /\ \A k \in 1 .. c : seen2[Len(seen) + k] = push[k]
  BY DEF Extends
<1>4. ASSUME NEW j \in 1 .. Len(seen2) PROVE seen2[j].s = 0
  <2>1. CASE j \in 1 .. Len(seen)
    BY <2>1, <1>3
  <2>2. CASE j \notin 1 .. Len(seen)
    <3>1. j - Len(seen) \in 1 .. c /\ Len(seen) + (j - Len(seen)) = j
      BY <2>2, <1>1
    <3>2. seen2[Len(seen) + (j - Len(seen))] = push[j - Len(seen)]
      BY <3>1, <1>3
    <3> QED
      BY <3>1, <3>2, <1>2
  <2> QED
    BY <2>1, <2>2
<1>5. Seen(seen2) = Len(seen2)
  BY <1>1, <1>4, AllSeen
<1> QED
  BY <1>4, <1>5

\* The output is observed, and the call says something to it.
LEMMA HearsInTime ==
  ASSUME NEW o, NEW seen, IsList(seen), AllSaid(seen), NEW push,
         Speaks(push), Len(push) \in Nat, NEW channels, 0 \in channels, NEW d, NEW c \in 0 .. Len(push),
         Hears(o.quit, channels, seen, push, d, c), NEW stamps, Len(stamps) = Len(seen), NEW t,
         NEW stamps2, Stamped(stamps, Len(seen), Len(d.out), t, stamps2)
  PROVE  /\ Hearing(o, seen, push, c, stamps, t, d.out, stamps2)
         /\ AllSaid(d.out)
<1>1. Extends(seen, push, c, d.out)
  BY DEF Hears
<1>2. AllSaid(d.out) /\ Seen(d.out) = Len(d.out)
  BY <1>1, HeardOfOutput DEF AllSaid
<1>3. c = Len(push) \/ (c # 0 /\ (Terminal(push[c]) \/ o.quit = Len(d.out)))
  BY <1>2 DEF Hears
<1> QED
  BY <1>1, <1>2, <1>3 DEF Hearing

LEMMA SpeaksLen == ASSUME NEW push, Speaks(push) PROVE Len(push) \in Nat
BY DEF Speaks

LEMMA OnScheduleIs ==
  ASSUME NEW o, NEW s, NEW q, NEW sources, NEW channels, NEW seen, NEW stamps, NEW hist, NEW t,
         OnSchedule(o, s, q, sources, channels, seen, stamps, hist, t)
  PROVE  /\ IsState(s) /\ s.n \in Nat /\ IsList(s.items) /\ Tasks(o, q)
         /\ sources \subseteq {1} /\ (o.name \notin Relays => sources = {}) /\ OfOutput(channels)
         /\ IsList(seen) /\ IsList(stamps) /\ Len(stamps) = Len(seen) /\ Len(seen) \in Nat
         /\ InPast(stamps, Len(seen), hist, t) /\ t \in Nat
         /\ 0 \in channels => AllSaid(seen)
         /\ AllPunctual(o, seen, stamps, hist)
         /\ 0 \in channels => Schedule(o, s, q, seen, stamps, hist, t)
<1>1. /\ IsState(s) /\ s.n \in Nat /\ IsList(s.items) /\ Tasks(o, q)
      /\ sources \subseteq {1} /\ (o.name \notin Relays => sources = {}) /\ channels \subseteq {0}
      /\ IsList(seen) /\ IsList(stamps) /\ Len(stamps) = Len(seen)
      /\ InPast(stamps, Len(seen), hist, t)
      /\ 0 \in channels => \A j \in 1 .. Len(seen) : seen[j].s = 0
      /\ AllPunctual(o, seen, stamps, hist)
      /\ 0 \in channels => Schedule(o, s, q, seen, stamps, hist, t)
  BY DEF OnSchedule
<1>2. OfOutput(channels)
  BY <1>1 DEF OfOutput
<1>3. Len(seen) \in Nat
  BY <1>1 DEF IsList
<1>4. t \in Nat
  BY <1>1, SMTT(25) DEF InPast
<1>5. 0 \in channels => AllSaid(seen)
  BY <1>1, SMTT(25) DEF AllSaid
<1> QED
  BY <1>1, <1>2, <1>3, <1>4, <1>5

\* The work at the head of the queue runs, and says something to the observer.
LEMMA SpokenKeeps ==
  ASSUME NEW o, o.name \in Keeping, o.p \in Nat, o.n \in Nat, o.m \in Nat, NEW s, NEW q, NEW sources,
         NEW channels, NEW seen, NEW stamps, NEW hist, NEW t,
         OnSchedule(o, s, q, sources, channels, seen, stamps, hist, t), q # <<>>, Head(q).at <= t,
         Head(q).w.k # "dispose", NEW r, r = InTime(o, s, Head(q).w, t), Fine(o, r), Speaks(r.push),
         NEW d, d = Outcome(o, r, t, Tail(q), sources, channels, seen)
  PROVE  OnSchedule(o, d.st, d.queue, d.on, d.live, d.out, Stamps(t, stamps, d.out), hist, t)
<1>0. PICK armed : armed = EnqueueAll(Tail(q), r.arm)
  OBVIOUS
<1> DEFINE stamps2 == Stamps(t, stamps, d.out)
<1>1. /\ IsState(s) /\ s.n \in Nat /\ IsList(s.items) /\ Tasks(o, q)
      /\ sources \subseteq {1} /\ (o.name \notin Relays => sources = {}) /\ OfOutput(channels)
      /\ IsList(seen) /\ IsList(stamps) /\ Len(stamps) = Len(seen) /\ Len(seen) \in Nat
      /\ InPast(stamps, Len(seen), hist, t) /\ t \in Nat
      /\ 0 \in channels => AllSaid(seen)
      /\ AllPunctual(o, seen, stamps, hist)
      /\ 0 \in channels => Schedule(o, s, q, seen, stamps, hist, t)
  BY OnScheduleIs
<1>2. r.on = {} /\ IsState(r.st) /\ r.st.n \in Nat /\ IsList(r.st.items) /\ Arms(o, r.arm)
  BY DEF Fine
<1>3. /\ LeavesRest(r, d, sources, channels)
      /\ \E n \in 0 .. Len(r.push) : Hears(o.quit, channels, seen, r.push, d, n)
      /\ LeavesWork(o, d, armed, t)
  <2>1. PICK rest : rest = Tail(q)
    OBVIOUS
  <2>2. d = Outcome(o, r, t, rest, sources, channels, seen)
    BY <2>1
  <2>3. armed = EnqueueAll(rest, r.arm)
    BY <1>0, <2>1
  <2>4. OfOutput(channels) /\ IsList(seen)
    BY <1>1
  <2> QED
    BY <2>2, <2>3, <2>4, OutcomeSpeaks
<1>4. PICK c \in 0 .. Len(r.push) : Hears(o.quit, channels, seen, r.push, d, c)
  BY <1>3
<1>5. Extends(seen, r.push, c, d.out) /\ Len(r.push) \in Nat /\ c \in Nat
  BY <1>4, SpeaksLen DEF Hears
<1>6. IsList(d.out) /\ Len(d.out) = Len(seen) + c /\ Len(d.out) \in Nat
  BY <1>1, <1>5 DEF Extends
<1>7. Stamped(stamps, Len(seen), Len(d.out), t, stamps2)
  BY <1>1, <1>5, <1>6, StampsIs
<1>8. Tasks(o, armed)
  BY <1>0, <1>1, <1>2, RanTasks
<1> HIDE DEF stamps2
<1>9. Tasks(o, d.queue)
  BY <1>1, <1>3, <1>8, EnqueuedTask, DisposerIsTask, NoTask DEF LeavesWork, LeavesRest
<1>10. IsList(stamps2) /\ Len(stamps2) = Len(d.out)
  BY <1>7 DEF Stamped
<1>11. InPast(stamps2, Len(d.out), hist, t)
  BY <1>1, <1>6, <1>7, SeenInPast
<1>12. SentLater(hist, hist, t)
  BY <1>1, PastStays
<1>13. ASSUME 0 \in channels
       PROVE  /\ AllSaid(d.out)
              /\ \A k \in 1 .. c : Punctual(o, d.out, stamps2, hist, Len(seen) + k)
              /\ c = Len(r.push) /\ ~EndsOutput(r.push) =>
                   Schedule(o, r.st, armed, d.out, stamps2, hist, t)
  <2>0. AllSaid(seen)
    BY <1>1, <1>13
  <2>1. /\ Hearing(o, seen, r.push, c, stamps, t, d.out, stamps2)
        /\ AllSaid(d.out)
    BY <2>0, <1>1, <1>4, <1>5, <1>7, <1>13, HearsInTime
  <2>2. Schedule(o, s, q, seen, stamps, hist, t)
    BY <1>1, <1>13
  <2>3. /\ \A k \in 1 .. c : Punctual(o, d.out, stamps2, hist, Len(seen) + k)
        /\ c = Len(r.push) /\ ~EndsOutput(r.push) =>
             Schedule(o, r.st, EnqueueAll(Tail(q), r.arm), d.out, stamps2, hist, t)
    BY <1>1, <2>1, <2>2, RunsInTime
  <2> QED
    BY <2>1, <2>3, <1>0
<1>14. 0 \notin channels => c = 0
  BY <1>4 DEF Hears
<1>15. ASSUME NEW k \in 1 .. c PROVE Punctual(o, d.out, stamps2, hist, Len(seen) + k)
  <2>1. 0 \in channels
    BY <1>14
  <2> QED
    BY <2>1, <1>13
<1>16. AllPunctual(o, d.out, stamps2, hist)
  <2>1. NextPunctual(o, r.push, c, d.out, stamps2, hist, Len(seen))
    BY <1>15 DEF NextPunctual
  <2> QED
    BY <2>1, <1>1, <1>5, <1>7, <1>12, AllPunctualStays
<1>17. ASSUME 0 \in d.live
       PROVE  /\ AllSaid(d.out)
              /\ Schedule(o, d.st, d.queue, d.out, stamps2, hist, t)
  <2>1. c = Len(r.push) /\ ~EndsOutput(r.push)
    BY <1>4, <1>17 DEF Hears
  <2>2. 0 \in channels /\ d.queue = armed /\ d.st = r.st
    BY <1>3, <1>17 DEF LeavesWork, LeavesRest
  <2> QED
    BY <2>1, <2>2, <1>13
<1>18. IsState(d.st) /\ d.st.n \in Nat /\ IsList(d.st.items)
  BY <1>2, <1>3 DEF LeavesRest
<1>19. d.on \subseteq {1} /\ (o.name \notin Relays => d.on = {}) /\ d.live \subseteq {0}
  BY <1>1, <1>2, <1>3 DEF OfOutput, LeavesRest
<1> QED
  BY <1>6, <1>9, <1>10, <1>11, <1>16, <1>17, <1>18, <1>19 DEF OnSchedule, AllSaid, stamps2

\* The work at the head of the queue has read an empty member.
LEMMA BrokenKeeps ==
  ASSUME NEW o, o.name \in Keeping, o.p \in Nat, NEW s, NEW q, NEW sources,
         NEW channels, NEW seen, NEW stamps, NEW hist, NEW t,
         OnSchedule(o, s, q, sources, channels, seen, stamps, hist, t), NEW r, Fine(o, r),
         r.push = <<Nowhere>>, NEW d, d = Outcome(o, r, t, Tail(q), sources, channels, seen)
  PROVE  OnSchedule(o, d.st, d.queue, d.on, d.live, d.out, Stamps(t, stamps, d.out), hist, t)
<1> DEFINE stamps2 == Stamps(t, stamps, d.out)
<1>1. /\ IsList(seen) /\ IsList(stamps) /\ Len(stamps) = Len(seen) /\ Len(seen) \in Nat
      /\ InPast(stamps, Len(seen), hist, t) /\ t \in Nat
      /\ AllPunctual(o, seen, stamps, hist)
  BY OnScheduleIs
<1>2. IsState(r.st) /\ r.st.n \in Nat /\ IsList(r.st.items)
  BY DEF Fine
<1>3. /\ d.st = r.st /\ d.live = {} /\ d.on = {} /\ d.queue = <<>>
      /\ Extends(seen, r.push, 1, d.out) /\ r.push[1].s # 0
  BY <1>1, OutcomeBroken
<1>4. IsList(d.out) /\ Len(d.out) = Len(seen) + 1 /\ Len(d.out) \in Nat
  BY <1>1, <1>3 DEF Extends
<1>5. Stamped(stamps, Len(seen), Len(d.out), t, stamps2)
  BY <1>1, <1>4, StampsIs
<1> HIDE DEF stamps2
<1>6. IsList(stamps2) /\ Len(stamps2) = Len(d.out)
  BY <1>5 DEF Stamped
<1>7. InPast(stamps2, Len(d.out), hist, t)
  BY <1>1, <1>4, <1>5, SeenInPast
<1>8. SentLater(hist, hist, t)
  BY <1>1, PastStays
<1>9. NextPunctual(o, r.push, 1, d.out, stamps2, hist, Len(seen))
  <2>1. \A k \in 1 .. 1 : k = 1
    OBVIOUS
  <2> QED
    BY <2>1, <1>3 DEF NextPunctual
<1>10. AllPunctual(o, d.out, stamps2, hist)
  BY <1>1, <1>3, <1>5, <1>8, <1>9, AllPunctualStays
<1>11. Tasks(o, d.queue)
  BY <1>3, NoTask
<1> QED
  BY <1>2, <1>3, <1>4, <1>6, <1>7, <1>10, <1>11 DEF OnSchedule, stamps2

LEMMA RunKeeps ==
  ASSUME NEW o, o.name \in Keeping, o.p \in Nat, o.p # 0, o.n \in Nat, o.m \in Nat, NEW s, NEW q,
         NEW sources, NEW channels, NEW seen, NEW stamps, NEW hist, NEW t,
         OnSchedule(o, s, q, sources, channels, seen, stamps, hist, t), q # <<>>, Head(q).at <= t,
         Head(q).w.k # "dispose",
         NEW d, d = Call(o, s, Head(q).w, t, Tail(q), sources, channels, seen)
  PROVE  OnSchedule(o, d.st, d.queue, d.on, d.live, d.out, Stamps(t, stamps, d.out), hist, t)
<1>1. PICK s2 : s2 = [s EXCEPT !.out = 0 \in channels]
  OBVIOUS
<1>2. PICK r : r = InTime(o, s2, Head(q).w, t)
  OBVIOUS
<1>3. IsState(s) /\ s.n \in Nat /\ IsList(s.items) /\ Tasks(o, q) /\ t \in Nat
  BY OnScheduleIs
<1>4. IsState(s2) /\ s2.n = s.n /\ s2.items = s.items
  BY <1>1, <1>3, SameBut
<1>5. OnSchedule(o, s2, q, sources, channels, seen, stamps, hist, t)
  <2>1. 0 \in channels => Schedule(o, s2, q, seen, stamps, hist, t)
    BY <1>4, OnScheduleIs, ScheduleSame
  <2> QED
    BY <1>4, <2>1 DEF OnSchedule
<1>6. d = Outcome(o, r, t, Tail(q), sources, channels, seen)
  <2>1. r = Step(o, s2, Head(q).w, t)
    BY <1>2, StepInTime
  <2> QED
    BY <1>1, <2>1 DEF Call
<1>7. IsWork(o, Head(q).w)
  <2>1. IsQueue(q) /\ \A a : In(q, a) => IsTask(o, a)
    BY <1>3 DEF Tasks
  <2>2. In(q, Head(q))
    BY <2>1, Dequeued
  <2> QED
    BY <2>1, <2>2 DEF IsTask
<1>8. Fine(o, r)
  BY <1>2, <1>3, <1>4, <1>7, CallFine
<1>9. CASE Speaks(r.push)
  BY <1>2, <1>5, <1>6, <1>8, <1>9, SpokenKeeps
<1>10. CASE r.push = <<Nowhere>>
  BY <1>5, <1>6, <1>8, <1>10, BrokenKeeps
<1> QED
  BY <1>8, <1>9, <1>10 DEF Fine

\* Whether or not the log has grown, what was seen in time was.
LEMMA AllPunctualLater ==
  ASSUME NEW o, o.p \in Nat, NEW seen, IsList(seen), NEW stamps, NEW t, NEW stamps2,
         Stamped(stamps, Len(seen), Len(seen), t, stamps2), NEW hist, NEW hist2,
         SentLater(hist, hist2, t), InPast(stamps, Len(seen), hist, t),
         AllPunctual(o, seen, stamps, hist)
  PROVE  AllPunctual(o, seen, stamps2, hist2)
<1>1. Len(seen) \in Nat
  BY DEF IsList
<1>2. Extends(seen, seen, 0, seen)
  BY <1>1 DEF Extends
<1>3. NextPunctual(o, seen, 0, seen, stamps2, hist2, Len(seen))
  BY DEF NextPunctual
<1> QED
  BY <1>2, <1>3, AllPunctualStays

LEMMA SameStamps ==
  ASSUME NEW stamps, IsList(stamps), NEW seen, Len(seen) = Len(stamps), NEW t
  PROVE  Stamped(stamps, Len(seen), Len(seen), t, stamps)
<1>1. Len(seen) \in Nat
  BY DEF IsList
<1> QED
  BY <1>1 DEF Stamped

\* The source puts work on the worker.
LEMMA RelayKeeps ==
  ASSUME NEW o, o.name \in Relays, o.p \in Nat, o.m \in Nat, NEW s, NEW q, NEW sources, NEW channels,
         NEW seen, NEW stamps, NEW hist, NEW t,
         OnSchedule(o, s, q, sources, channels, seen, stamps, hist, t), NEW e, IsTask(o, e),
         NEW hist2, Told(o, q, hist, e, hist2, t), InPast(stamps, Len(seen), hist2, t),
         NEW sources2, sources2 \subseteq sources
  PROVE  OnSchedule(o, s, enqueue(q, e), sources2, channels, seen, stamps, hist2, t)
<1>1. /\ IsState(s) /\ s.n \in Nat /\ IsList(s.items) /\ Tasks(o, q)
      /\ sources \subseteq {1} /\ OfOutput(channels)
      /\ IsList(seen) /\ IsList(stamps) /\ Len(stamps) = Len(seen) /\ Len(seen) \in Nat
      /\ InPast(stamps, Len(seen), hist, t) /\ t \in Nat
      /\ 0 \in channels => AllSaid(seen)
      /\ AllPunctual(o, seen, stamps, hist)
      /\ 0 \in channels => Schedule(o, s, q, seen, stamps, hist, t)
  BY OnScheduleIs
<1>2. Tasks(o, enqueue(q, e))
  BY <1>1, EnqueuedTask
<1>3. SentLater(hist, hist2, t)
  BY DEF Told
<1>4. Stamped(stamps, Len(seen), Len(seen), t, stamps)
  BY <1>1, SameStamps
<1>5. AllPunctual(o, seen, stamps, hist2)
  BY <1>1, <1>3, <1>4, AllPunctualLater
<1>6. ASSUME 0 \in channels PROVE Schedule(o, s, enqueue(q, e), seen, stamps, hist2, t)
  <2>1. IsQueue(q)
    BY <1>1 DEF Tasks
  <2>2. Schedule(o, s, q, seen, stamps, hist, t)
    BY <1>1, <1>6
  <2> QED
    BY <1>1, <2>1, <2>2, ScheduleTold
<1>7. sources2 \subseteq {1}
  BY <1>1
<1>8. channels \subseteq {0} /\ (0 \in channels => \A j \in 1 .. Len(seen) : seen[j].s = 0)
  BY <1>1 DEF OfOutput, AllSaid
<1> QED
  BY <1>1, <1>2, <1>5, <1>6, <1>7, <1>8 DEF OnSchedule

\* The output is not observed any more.
LEMMA ClosedKeeps ==
  ASSUME NEW o, o.p \in Nat, NEW s, NEW q, NEW sources, NEW channels,
         NEW seen, NEW stamps, NEW hist, NEW t,
         OnSchedule(o, s, q, sources, channels, seen, stamps, hist, t), NEW q2, Tasks(o, q2),
         NEW sources2, sources2 \subseteq sources, NEW channels2, channels2 = {}, NEW stamps2,
         Stamped(stamps, Len(seen), Len(seen), t, stamps2), NEW hist2,
         SentLater(hist, hist2, t), InPast(stamps, Len(seen), hist2, t)
  PROVE  OnSchedule(o, s, q2, sources2, channels2, seen, stamps2, hist2, t)
<1>1. /\ IsState(s) /\ s.n \in Nat /\ IsList(s.items)
      /\ sources \subseteq {1} /\ (o.name \notin Relays => sources = {})
      /\ IsList(seen) /\ Len(seen) \in Nat
      /\ InPast(stamps, Len(seen), hist, t)
      /\ AllPunctual(o, seen, stamps, hist)
  BY OnScheduleIs
<1>2. AllPunctual(o, seen, stamps2, hist2)
  BY <1>1, AllPunctualLater
<1>3. InPast(stamps2, Len(seen), hist2, t)
  BY <1>1, SeenInPast
<1>4. IsList(stamps2) /\ Len(stamps2) = Len(seen)
  BY DEF Stamped
<1> QED
  BY <1>1, <1>2, <1>3, <1>4 DEF OnSchedule

LEMMA TickKeeps ==
  ASSUME NEW o, o.p \in Nat, NEW s, NEW q, NEW sources, NEW channels, NEW seen, NEW stamps, NEW hist,
         NEW t, OnSchedule(o, s, q, sources, channels, seen, stamps, hist, t)
  PROVE  OnSchedule(o, s, q, sources, channels, seen, stamps, hist, t + 1)
<1>1. /\ Tasks(o, q) /\ t \in Nat /\ InPast(stamps, Len(seen), hist, t)
      /\ 0 \in channels => Schedule(o, s, q, seen, stamps, hist, t)
  BY OnScheduleIs
<1>2. InPast(stamps, Len(seen), hist, t + 1)
  BY <1>1, PastStays
<1>3. 0 \in channels => Schedule(o, s, q, seen, stamps, hist, t + 1)
  BY <1>1, ScheduleTicks DEF Tasks
<1> QED
  BY <1>2, <1>3 DEF OnSchedule

(* Every operator that has promised not to be early is on schedule.           *)
TimeKept ==
  /\ op \in Operators
  /\ op.p # 0 /\ op.name \in Keeping => OnSchedule(op, st, queue, on, live, out, when, log, now)

LEMMA ArgumentsNat ==
  ASSUME op \in Operators PROVE op.p \in Nat /\ op.n \in Nat /\ op.m \in Nat /\ op.quit \in Nat
BY OperatorsAssumption

LEMMA LagNat == ASSUME NEW o, o.p \in Nat, NEW k PROVE Lag(o, k) \in Nat
BY DEF Lag

LEMMA SendKeepsTime ==
  ASSUME TimeKept, op.p # 0, op.name \in Keeping, NEW s \in on, NEW k \in {"next", "error", "completed"},
         NEW v \in IF k = "next" THEN {<<x>> : x \in Payloads(s)} ELSE {<<>>}, Send(s, Signal(s, k, v))
  PROVE  OnSchedule(op, st', queue', on', live', out', when', log', now)
<1>1. OnSchedule(op, st, queue, on, live, out, when, log, now)
  BY DEF TimeKept
<1>2. op.p \in Nat /\ op.n \in Nat /\ op.m \in Nat /\ now \in Nat
  BY <1>1, ArgumentsNat, OnScheduleIs DEF TimeKept
<1>3. on \subseteq {1} /\ (op.name \notin Relays => on = {}) /\ InPast(when, Len(out), log, now)
      /\ Tasks(op, queue)
  BY <1>1, OnScheduleIs
<1>4. s = 1 /\ op.name \in Relays
  BY <1>3
<1>5. op.name \in Relaying
  BY <1>4, KeepingNames
<1>6. PICK i : i = Signal(s, k, v)
  OBVIOUS
<1>7. i.s = 1 /\ i.k = k /\ i.v = v /\ i = [s |-> i.s, k |-> i.k, v |-> i.v]
  BY <1>4, <1>6 DEF Signal
<1>8. PICK e : e = [at |-> now + Lag(op, i.k), w |-> i]
  OBVIOUS
<1>9. PICK more : more = Append(log, [at |-> now, i |-> i])
  OBVIOUS
<1>10. /\ queue' = enqueue(queue, e) /\ log' = more /\ on' \subseteq on
       /\ st' = st /\ live' = live /\ out' = out /\ when' = when
  <2>1. Send(s, i)
    BY <1>6
  <2> QED
    BY <2>1, <1>4, <1>5, <1>8, <1>9 DEF Send
<1>11. Len(ValuesOf(log)) \in Nat
  BY <1>3 DEF InPast, IsList
<1>12. i.k = "next" => i.v = <<Len(ValuesOf(log)) + 1>>
  BY <1>7 DEF Payloads, SentNext
<1>13. IsTask(op, e)
  <2>1. now + Lag(op, i.k) \in Nat
    BY <1>2, LagNat
  <2>2. e.at = now + Lag(op, i.k) /\ e.w = i
    BY <1>8
  <2>3. i.k \in FromSource /\ ~Dated(op, i.k)
    BY <1>7 DEF FromSource, Dated
  <2>4. i.k = "next" => IsOne(i.v)
    <3>1. Len(ValuesOf(log)) + 1 \in Nat
      BY <1>11
    <3> QED
      BY <3>1, <1>12 DEF IsOne
  <2>5. IsWork(op, i)
    <3>1. i.k \notin {"periodic", "sample", "hop", "produce"}
      BY <1>7
    <3> QED
      BY <2>3, <2>4, <3>1, <1>4, <1>7 DEF IsWork
  <2> QED
    BY <2>1, <2>2, <2>5 DEF IsTask
<1>14. Told(op, queue, log, e, more, now)
  <2>1. IsQueue(queue) /\ i.k \in FromSource
    BY <1>3, <1>7 DEF Tasks, FromSource
  <2> QED
    BY <2>1, <1>2, <1>3, <1>7, <1>8, <1>9, <1>12, SourceTells
<1>15. InPast(when, Len(out), more, now)
  <2>1. PICK l : l = [at |-> now, i |-> i]
    OBVIOUS
  <2>2. l.at = now /\ more = Append(log, l)
    BY <2>1, <1>9
  <2> QED
    BY <2>2, <1>3, LogGrows
<1>16. PICK fewer : fewer = on'
  OBVIOUS
<1>17. OnSchedule(op, st, enqueue(queue, e), fewer, live, out, when, more, now)
  BY <1>1, <1>2, <1>4, <1>10, <1>13, <1>14, <1>15, <1>16, RelayKeeps
<1> QED
  BY <1>10, <1>16, <1>17

LEMMA DetachKeepsTime ==
  ASSUME TimeKept, op.p # 0, op.name \in Keeping, Detach
  PROVE  OnSchedule(op, st', queue', on', live', out', when', log', now)
<1>1. OnSchedule(op, st, queue, on, live, out, when, log, now)
  BY DEF TimeKept
<1>2. op.p \in Nat /\ op.n \in Nat /\ op.m \in Nat /\ now \in Nat
  BY <1>1, ArgumentsNat, OnScheduleIs DEF TimeKept
<1>3. InPast(when, Len(out), log, now) /\ Tasks(op, queue)
  BY <1>1, OnScheduleIs
<1>4. op.name # "observe_on" /\ op.name # "synchronize"
  BY KeepingNames
<1>5. op.name \in Relays
  BY <1>4, KeepingNames DEF Detach
<1>6. PICK at : at = now + Lag(op, "detach")
  OBVIOUS
<1>7. PICK e : e = Work(at, "dispose", <<>>)
  OBVIOUS
<1>8. /\ queue' = enqueue(queue, e) /\ log' = log /\ on' \subseteq on
      /\ st' = st /\ live' = live /\ out' = out /\ when' = when
  BY <1>4, <1>6, <1>7 DEF Detach
<1>9. at \in Nat
  BY <1>2, <1>6, LagNat
<1>10. IsTask(op, e)
  BY <1>5, <1>7, <1>9, DisposerIsTask
<1>11. Told(op, queue, log, e, log, now)
  BY <1>3, <1>7, <1>9, DisposerTells DEF Tasks
<1>12. PICK fewer : fewer = on'
  OBVIOUS
<1>13. OnSchedule(op, st, enqueue(queue, e), fewer, live, out, when, log, now)
  BY <1>1, <1>2, <1>3, <1>5, <1>8, <1>10, <1>11, <1>12, RelayKeeps
<1> QED
  BY <1>8, <1>12, <1>13

LEMMA RunKeepsTime ==
  ASSUME TimeKept, op.p # 0, op.name \in Keeping, Run
  PROVE  OnSchedule(op, st', queue', on', live', out', when', log', now)
<1>1. OnSchedule(op, st, queue, on, live, out, when, log, now)
  BY DEF TimeKept
<1>2. op.p \in Nat /\ op.n \in Nat /\ op.m \in Nat /\ now \in Nat
  BY <1>1, ArgumentsNat, OnScheduleIs DEF TimeKept
<1>3. queue # <<>> /\ Head(queue).at <= now /\ log' = log
  BY DEF Run
<1>4. CASE Head(queue).w.k = "dispose"
  <2>1. on' = {} /\ queue' = <<>> /\ live' = live \ {0} /\ st' = st /\ out' = out /\ when' = when
    BY <1>4 DEF Run
  <2>2. PICK none, nobody, rest : none = {} /\ nobody = {} /\ rest = <<>>
    OBVIOUS
  <2>3. live \ {0} = {}
    BY <1>1, OnScheduleIs DEF OfOutput
  <2>4. Tasks(op, rest)
    BY <2>2, NoTask
  <2>5. Stamped(when, Len(out), Len(out), now, when)
    BY <1>1, OnScheduleIs, SameStamps
  <2>6. InPast(when, Len(out), log, now) /\ SentLater(log, log, now)
    <3>1. InPast(when, Len(out), log, now)
      BY <1>1, OnScheduleIs
    <3> QED
      BY <3>1, PastStays
  <2>7. OnSchedule(op, st, rest, none, nobody, out, when, log, now)
    BY <2>2, <2>4, <2>5, <2>6, <1>1, <1>2, ClosedKeeps
  <2> QED
    BY <2>1, <2>2, <2>3, <2>7, <1>3
<1>5. CASE Head(queue).w.k # "dispose"
  <2>1. PICK d : d = Call(op, st, Head(queue).w, now, Tail(queue), on, live, out)
    OBVIOUS
  <2>2. Effect(d)
    BY <2>1, <1>5 DEF Run
  <2>3. OnSchedule(op, d.st, d.queue, d.on, d.live, d.out, Stamps(now, when, d.out), log, now)
    BY <2>1, <1>1, <1>2, <1>3, <1>5, RunKeeps
  <2> QED
    BY <2>2, <2>3, <1>3 DEF Effect
<1> QED
  BY <1>4, <1>5

LEMMA DisposeKeepsTime ==
  ASSUME TimeKept, op.p # 0, op.name \in Keeping, Dispose
  PROVE  OnSchedule(op, st', queue', on', live', out', when', log', now)
<1>1. OnSchedule(op, st, queue, on, live, out, when, log, now)
  BY DEF TimeKept
<1>2. op.p \in Nat /\ now \in Nat
  BY <1>1, ArgumentsNat, OnScheduleIs DEF TimeKept
<1>3. /\ InPast(when, Len(out), log, now) /\ Tasks(op, queue) /\ IsList(out) /\ IsList(when)
      /\ Len(when) = Len(out) /\ Len(out) \in Nat /\ OfOutput(live)
  BY <1>1, OnScheduleIs
<1>4. PICK l : l = [at |-> now, i |-> Signal(0, "dispose", <<>>)]
  OBVIOUS
<1>5. PICK more : more = Append(log, l)
  OBVIOUS
<1>6. l.at = now /\ log' = more
  BY <1>4, <1>5 DEF Dispose
<1>7. out' = out
  <2>1. LastCall(op, st, live, live') = <<>>
    BY NoLastCall
  <2> QED
    BY <2>1, <1>3, NothingMore DEF Dispose
<1>8. PICK stamps2 : stamps2 = Stamps(now, when, out)
  OBVIOUS
<1>9. Stamped(when, Len(out), Len(out), now, stamps2)
  BY <1>3, <1>8, StampsIs
<1>10. st' = st /\ live' = {} /\ when' = stamps2 /\ on' \subseteq on
  BY <1>3, <1>7, <1>8 DEF Dispose, OfOutput
<1>11. Tasks(op, queue')
  <2>1. CASE op.name \in Disposing
    <3>1. queue' = enqueue(queue, Work(now, "dispose", <<>>)) /\ op.name \in Relays
      BY <2>1, KeepingNames DEF Dispose
    <3>2. IsTask(op, Work(now, "dispose", <<>>))
      BY <3>1, <1>2, DisposerIsTask
    <3> QED
      BY <3>1, <3>2, <1>3, EnqueuedTask
  <2>2. CASE op.name \notin Disposing
    <3>1. queue' = <<>>
      BY <2>2 DEF Dispose
    <3> QED
      BY <3>1, NoTask
  <2> QED
    BY <2>1, <2>2
<1>12. InPast(when, Len(out), more, now) /\ SentLater(log, more, now)
  BY <1>3, <1>5, <1>6, LogGrows
<1>13. PICK q2, fewer, nobody : q2 = queue' /\ fewer = on' /\ nobody = live'
  OBVIOUS
<1>14. OnSchedule(op, st, q2, fewer, nobody, out, stamps2, more, now)
  BY <1>1, <1>2, <1>9, <1>10, <1>11, <1>12, <1>13, ClosedKeeps
<1> QED
  BY <1>6, <1>7, <1>10, <1>13, <1>14

LEMMA NextKeepsTime == TimeKept /\ [Next]_vars => TimeKept'
<1> SUFFICES ASSUME TimeKept, [Next]_vars PROVE TimeKept'
  OBVIOUS
<1>1. op' = op
  BY DEF Next, Send, Detach, Run, Dispose, Tick, vars
<1> SUFFICES ASSUME op.p # 0, op.name \in Keeping
             PROVE  OnSchedule(op, st', queue', on', live', out', when', log', now')
  BY <1>1 DEF TimeKept
<1>2. ASSUME NEW s \in on, NEW k \in {"next", "error", "completed"},
             NEW v \in IF k = "next" THEN {<<x>> : x \in Payloads(s)} ELSE {<<>>},
             Send(s, Signal(s, k, v))
      PROVE  OnSchedule(op, st', queue', on', live', out', when', log', now')
  <2>1. now' = now
    BY <1>2 DEF Send
  <2>2. OnSchedule(op, st', queue', on', live', out', when', log', now)
    BY <1>2, SendKeepsTime
  <2> QED
    BY <2>1, <2>2
<1>3. CASE Detach
  <2>1. now' = now
    BY <1>3 DEF Detach
  <2> QED
    BY <2>1, <1>3, DetachKeepsTime
<1>4. CASE Run
  <2>1. now' = now
    BY <1>4 DEF Run
  <2> QED
    BY <2>1, <1>4, RunKeepsTime
<1>5. CASE Dispose
  <2>1. now' = now
    BY <1>5 DEF Dispose
  <2> QED
    BY <2>1, <1>5, DisposeKeepsTime
<1>6. CASE Tick
  <2>1. /\ now' = now + 1 /\ st' = st /\ queue' = queue /\ on' = on /\ live' = live
        /\ out' = out /\ when' = when /\ log' = log
    BY <1>6 DEF Tick
  <2>2. OnSchedule(op, st, queue, on, live, out, when, log, now) /\ op.p \in Nat
    BY ArgumentsNat DEF TimeKept
  <2>3. OnSchedule(op, st, queue, on, live, out, when, log, now + 1)
    BY <2>2, TickKeeps
  <2> QED
    BY <2>1, <2>3
<1>7. CASE UNCHANGED vars
  BY <1>7 DEF vars, TimeKept
<1> QED
  BY <1>2, <1>3, <1>4, <1>5, <1>6, <1>7 DEF Next

(* What the subscription of an operator that keeps time makes of it.          *)
Setup(s, sources, arm) ==
  [st |-> s, push |-> <<>>, on |-> sources, off |-> {}, arm |-> arm]

LEMMA SetupForward ==
  ASSUME NEW s, NEW i, i.k = "subscribe" PROVE Forward(s, i) = Setup(s, {1}, <<>>)
BY DEF Forward, Subscribing, Quietly, Does, Setup

LEMMA SetupQuietly == ASSUME NEW s PROVE Quietly(s) = Setup(s, {}, <<>>)
BY DEF Quietly, Does, Setup

LEMMA ArmAnew ==
  ASSUME NEW s, NEW p, NEW sources, NEW f, NEW a, NEW b
  PROVE  [[st |-> s, push |-> p, on |-> sources, off |-> f, arm |-> a] EXCEPT !.arm = b]
           = [st |-> s, push |-> p, on |-> sources, off |-> f, arm |-> b]
OBVIOUS

LEMMA SetupMore ==
  ASSUME NEW s, NEW sources, NEW a, NEW b
  PROVE  [Setup(s, sources, a) EXCEPT !.arm = b] = Setup(s, sources, b)
<1>1. PICK p, f : p = <<>> /\ f = {}
  OBVIOUS
<1>2. \A x : Setup(s, sources, x) = [st |-> s, push |-> p, on |-> sources, off |-> f, arm |-> x]
  BY <1>1 DEF Setup
<1> QED
  BY <1>2, ArmAnew

LEMMA SetupArm ==
  ASSUME NEW s, NEW sources, NEW at, NEW k, NEW v
  PROVE  Arm(Setup(s, sources, <<>>), at, k, v) = Setup(s, sources, <<Work(at, k, v)>>)
<1>1. PICK e : e = Work(at, k, v)
  OBVIOUS
<1>2. PICK r : r = Setup(s, sources, <<>>)
  OBVIOUS
<1>3. r.arm = <<>>
  BY <1>2 DEF Setup
<1>4. Append(r.arm, e) = <<e>>
  BY <1>3, TupleIs
<1>5. Arm(r, at, k, v) = [r EXCEPT !.arm = Append(r.arm, e)]
  BY <1>1 DEF Arm, Work
<1>6. Arm(r, at, k, v) = Setup(s, sources, <<e>>)
  BY <1>2, <1>4, <1>5, SetupMore
<1> QED
  BY <1>1, <1>2, <1>6

Begins(s, sources, n, arm, r) ==
  \E u : r = Setup(u, sources, arm) /\ IsState(u) /\ u.n = n /\ u.items = s.items

LEMMA NStarts ==
  ASSUME NEW s, IsState(s), NEW x PROVE IsState([s EXCEPT !.n = x]) /\ [s EXCEPT !.n = x].n = x
                                        /\ [s EXCEPT !.n = x].items = s.items
BY NChanged DEF Becomes

LEMMA OperatorBegins ==
  ASSUME NEW o, o.p \in Nat, NEW s, IsState(s), NEW i, i.k = "subscribe", NEW r, r = InTime(o, s, i, 0)
  PROVE  /\ o.name = "delay" => Begins(s, {1}, s.n, <<>>, r)
         /\ o.name = "debounce" => Begins(s, {1}, s.n, <<>>, r)
         /\ o.name = "timeout" => Begins(s, {1}, s.n, <<Work(0, "start", <<>>)>>, r)
         /\ o.name = "sample_with_time" => Begins(s, {1}, s.n, <<Work(0, "periodic", <<0>>)>>, r)
         /\ o.name = "buffer_with_time" => Begins(s, {1}, 0, <<Work(0, "periodic", <<0>>)>>, r)
         /\ o.name = "buffer_with_time_or_count" =>
              Begins(s, {1}, 0, <<Work(o.p, "hop", <<0, o.p>>)>>, r)
         /\ o.name = "interval" => Begins(s, {}, 0, <<Work(0, "periodic", <<0>>)>>, r)
         /\ o.name = "timer" => Begins(s, {}, s.n, <<Work(o.p, "producer", <<>>)>>, r)
<1>0. 0 + o.p = o.p
  OBVIOUS
<1>1. ASSUME o.name = "delay" PROVE Begins(s, {1}, s.n, <<>>, r)
  <2>1. r = Forward(s, i)
    BY <1>1, InTimeIs DEF delay
  <2> QED
    BY <2>1, SetupForward DEF Begins
<1>2. ASSUME o.name = "debounce" PROVE Begins(s, {1}, s.n, <<>>, r)
  <2>1. debounce(o, s, i, 0) = Forward(s, i)
    BY DEF debounce
  <2>2. r = Forward(s, i)
    BY <2>1, <1>2, InTimeIs
  <2> QED
    BY <2>2, SetupForward DEF Begins
<1>3. ASSUME o.name = "timeout" PROVE Begins(s, {1}, s.n, <<Work(0, "start", <<>>)>>, r)
  <2>1. timeout(o, s, i, 0) = Arm(Forward(s, i), 0, "start", <<>>)
    BY DEF timeout
  <2>2. r = Arm(Setup(s, {1}, <<>>), 0, "start", <<>>)
    BY <2>1, <1>3, InTimeIs, SetupForward
  <2>3. r = Setup(s, {1}, <<Work(0, "start", <<>>)>>)
    BY <2>2, SetupArm
  <2> QED
    BY <2>3 DEF Begins
<1>4. ASSUME o.name = "sample_with_time" PROVE Begins(s, {1}, s.n, <<Work(0, "periodic", <<0>>)>>, r)
  <2>1. sample_with_time(o, s, i, 0) = Arm(Forward(s, i), 0, "periodic", <<0>>)
    BY DEF sample_with_time
  <2>2. r = Arm(Setup(s, {1}, <<>>), 0, "periodic", <<0>>)
    BY <2>1, <1>4, InTimeIs, SetupForward
  <2>3. r = Setup(s, {1}, <<Work(0, "periodic", <<0>>)>>)
    BY <2>2, SetupArm
  <2> QED
    BY <2>3 DEF Begins
<1>5. ASSUME o.name = "buffer_with_time" PROVE Begins(s, {1}, 0, <<Work(0, "periodic", <<0>>)>>, r)
  <2>0. PICK u : u = [s EXCEPT !.n = 0]
    OBVIOUS
  <2>1. buffer_with_time(o, s, i, 0) = Arm(Forward(u, i), 0, "periodic", <<0>>)
    BY <2>0 DEF buffer_with_time
  <2>2. r = Arm(Setup(u, {1}, <<>>), 0, "periodic", <<0>>)
    BY <2>1, <1>5, InTimeIs, SetupForward
  <2>3. r = Setup(u, {1}, <<Work(0, "periodic", <<0>>)>>)
    BY <2>2, SetupArm
  <2> QED
    BY <2>0, <2>3, NStarts DEF Begins
<1>6. ASSUME o.name = "buffer_with_time_or_count"
      PROVE  Begins(s, {1}, 0, <<Work(o.p, "hop", <<0, o.p>>)>>, r)
  <2>0. PICK u : u = [s EXCEPT !.n = 0]
    OBVIOUS
  <2>1. buffer_with_time_or_count(o, s, i, 0) = Arm(Forward(u, i), 0 + o.p, "hop", <<0, 0 + o.p>>)
    BY <2>0 DEF buffer_with_time_or_count
  <2>2. r = Arm(Setup(u, {1}, <<>>), o.p, "hop", <<0, o.p>>)
    BY <2>1, <1>0, <1>6, InTimeIs, SetupForward
  <2>3. r = Setup(u, {1}, <<Work(o.p, "hop", <<0, o.p>>)>>)
    BY <2>2, SetupArm
  <2> QED
    BY <2>0, <2>3, NStarts DEF Begins
<1>7. ASSUME o.name = "interval" PROVE Begins(s, {}, 0, <<Work(0, "periodic", <<0>>)>>, r)
  <2>0. PICK u : u = [s EXCEPT !.n = 0]
    OBVIOUS
  <2>1. interval(o, s, i, 0) = Arm(Quietly(u), 0, "periodic", <<0>>)
    BY <2>0 DEF interval
  <2>2. r = Arm(Setup(u, {}, <<>>), 0, "periodic", <<0>>)
    BY <2>1, <1>7, InTimeIs, SetupQuietly
  <2>3. r = Setup(u, {}, <<Work(0, "periodic", <<0>>)>>)
    BY <2>2, SetupArm
  <2> QED
    BY <2>0, <2>3, NStarts DEF Begins
<1>8. ASSUME o.name = "timer" PROVE Begins(s, {}, s.n, <<Work(o.p, "producer", <<>>)>>, r)
  <2>1. timer(o, s, i, 0) = Arm(Quietly(s), 0 + o.p, "producer", <<>>)
    BY DEF timer
  <2>2. r = Arm(Setup(s, {}, <<>>), o.p, "producer", <<>>)
    BY <2>1, <1>0, <1>8, InTimeIs, SetupQuietly
  <2>3. r = Setup(s, {}, <<Work(o.p, "producer", <<>>)>>)
    BY <2>2, SetupArm
  <2> QED
    BY <2>3 DEF Begins
<1> QED
  BY <1>1, <1>2, <1>3, <1>4, <1>5, <1>6, <1>7, <1>8

\* The worker has nothing to do, or one thing.
Vacant(q) == IsQueue(q) /\ \A a, b : ~In(q, a) /\ ~Ahead(q, a, b)
Alone(q, e) == IsQueue(q) /\ (\A a : In(q, a) <=> a = e) /\ \A a, b : ~Ahead(q, a, b)

LEMMA EnqueuedNothing ==
  ASSUME NEW arm, arm = <<>> PROVE Vacant(EnqueueAll(<<>>, arm))
<1>1. EnqueueAll(<<>>, arm) = <<>>
  BY NoWork
<1> QED
  BY <1>1, NothingWaits DEF Vacant

LEMMA EnqueuedAlone ==
  ASSUME NEW e, e.at \in Nat, NEW arm, arm = <<e>> PROVE Alone(EnqueueAll(<<>>, arm), e)
<1>1. PICK q : q = <<>>
  OBVIOUS
<1>2. IsQueue(q) /\ \A a, b : ~In(q, a) /\ ~Ahead(q, a, b)
  BY <1>1, NothingWaits
<1>3. EnqueueAll(q, arm) = enqueue(q, e)
  BY OneWork
<1>4. PICK r : r = enqueue(q, e)
  OBVIOUS
<1>5. /\ IsQueue(r)
      /\ \A a : In(r, a) <=> In(q, a) \/ a = e
      /\ \A a, b : Ahead(r, a, b) =>
           \/ Ahead(q, a, b)
           \/ In(q, a) /\ a.at <= e.at /\ b = e
           \/ a = e /\ In(q, b) /\ e.at < b.at
  BY <1>2, <1>4, Enqueued
<1>6. Alone(r, e)
  BY <1>2, <1>5 DEF Alone
<1> QED
  BY <1>1, <1>3, <1>4, <1>6

LEMMA WorkFields ==
  ASSUME NEW at, NEW k, NEW v
  PROVE  Work(at, k, v).at = at /\ Work(at, k, v).w.k = k /\ Work(at, k, v).w.v = v
BY DEF Work, Signal

LEMMA WorkItem ==
  ASSUME NEW at, NEW k, NEW x, NEW e, e = Work(at, k, <<x>>)
  PROVE  e.at = at /\ e.w.k = k /\ Item(e.w) = x
<1>1. PICK v : v = <<x>>
  OBVIOUS
<1>2. v[1] = x
  BY <1>1
<1>3. e.at = at /\ e.w.k = k /\ e.w.v = v
  BY <1>1, WorkFields
<1> QED
  BY <1>2, <1>3 DEF Item

\* Before the source has sent anything, nothing is on its way.
Unsent(hist) == Len(ValuesOf(hist)) = 0

LEMMA NothingPending ==
  ASSUME NEW q, \A a : In(q, a) => ~IsNext(a), NEW values, Len(values) = 0
  PROVE  Pending(q, values, 0)
<1>1. \A a, b : Ahead(q, a, b) => In(q, a)
  BY DEF Ahead, In
<1> QED
  BY <1>1 DEF Pending

LEMMA VacantSchedule ==
  ASSUME NEW o, o.name \in {"delay", "debounce"}, NEW s, s.items = <<>>, NEW q, Vacant(q), NEW seen,
         NEW stamps, NEW hist, Unsent(hist), NEW t
  PROVE  Schedule(o, s, q, seen, stamps, hist, t)
<1>1. \A a : ~In(q, a)
  BY DEF Vacant
<1>2. Pending(q, ValuesOf(hist), 0)
  BY <1>1, NothingPending DEF Unsent
<1>3. Debouncing(o, s, q, hist, 0)
  BY <1>1, <1>2 DEF Debouncing
<1>4. Delaying(o, q, hist)
  BY <1>1 DEF Delaying
<1> QED
  BY <1>3, <1>4 DEF Schedule

LEMMA TimeoutSchedule ==
  ASSUME NEW o, o.name = "timeout", NEW s, NEW e, e.w.k = "start", NEW q, Alone(q, e),
         NEW seen, Len(seen) = 0, NEW stamps, NEW hist, Unsent(hist), NEW t
  PROVE  Schedule(o, s, q, seen, stamps, hist, t)
<1>1. \A a : In(q, a) => a.w.k = "start"
  BY DEF Alone
<1>2. Pending(q, ValuesOf(hist), 0)
  BY <1>1, NothingPending DEF Unsent, IsNext
<1>3. Timing(o, s, q, seen, stamps, hist)
  BY <1>1, <1>2 DEF Timing
<1> QED
  BY <1>3, ScheduleOfTimeout

LEMMA NothingTimes == ASSUME NEW x \in Nat, NEW n, n = 0 PROVE n * x = 0
OBVIOUS

LEMMA PeriodicSchedule ==
  ASSUME NEW o, o.name \in {"sample_with_time", "interval"}, o.p \in Nat, NEW s, NEW e,
         e.w.k = "periodic", e.at = 0, Item(e.w) = 0, NEW q, Alone(q, e),
         NEW seen, Len(seen) = 0, NEW stamps, NEW hist, NEW t
  PROVE  Schedule(o, s, q, seen, stamps, hist, t)
<1>1. /\ \A a : In(q, a) => a.w.k = "periodic" /\ a.at = 0 /\ Item(a.w) = 0
      /\ \A a, b : ~Ahead(q, a, b)
  BY DEF Alone
<1>2. Len(seen) * o.p = 0
  BY NothingTimes
<1>3. Sampling(o, q, seen, t)
  BY <1>1, <1>2 DEF Sampling, IsSample
<1>4. Ticking(o, q, seen)
  BY <1>1, <1>2 DEF Ticking
<1> QED
  BY <1>3, <1>4 DEF Schedule

LEMMA BufferSchedule ==
  ASSUME NEW o, o.name = "buffer_with_time", o.m \in Nat, NEW s, s.n = 0, NEW e,
         e.w.k = "periodic", NEW q, Alone(q, e),
         NEW seen, Len(seen) = 0, NEW stamps, NEW hist, NEW t
  PROVE  Schedule(o, s, q, seen, stamps, hist, t)
<1>1. /\ \A a : In(q, a) => a.w.k = "periodic"
      /\ \A a, b : ~Ahead(q, a, b)
  BY DEF Alone
<1>2. Len(seen) * o.m = 0
  BY NothingTimes
<1>3. Buffering(o, s, q, seen, hist, t)
  BY <1>1, <1>2 DEF Buffering, IsHop, IsProduce
<1> QED
  BY <1>3, ScheduleOfBuffers

LEMMA GroupSchedule ==
  ASSUME NEW o, o.name = "buffer_with_time_or_count", o.p \in Nat, o.n \in Nat, NEW s, s.n = 0,
         s.items = <<>>, NEW e, e.w.k = "hop", e.at = o.p, Item(e.w) = 0, e.w.v[2] = o.p,
         NEW q, Alone(q, e), NEW seen, Len(seen) = 0, NEW stamps, NEW hist, NEW t
  PROVE  Schedule(o, s, q, seen, stamps, hist, t)
<1>1. \A a : In(q, a) => a = e
  BY DEF Alone
<1>2. Since(o, seen, stamps) = 0
  <2>1. ~FullBefore(o, seen, Len(seen) + 1)
    BY DEF FullBefore
  <2> QED
    BY <2>1 DEF Since
<1>3. Len(s.items) = 0
  OBVIOUS
<1>4. Grouping(o, s, q, seen, stamps, hist)
  BY <1>1, <1>2, <1>3 DEF Grouping
<1> QED
  BY <1>4, ScheduleOfGroups

LEMMA TimerSchedule ==
  ASSUME NEW o, o.name = "timer", o.p \in Nat, NEW s, NEW e, e.at = o.p, NEW q, Alone(q, e),
         NEW seen, NEW stamps, NEW hist, NEW t
  PROVE  Schedule(o, s, q, seen, stamps, hist, t)
<1>1. Ringing(o, q)
  BY DEF Alone, Ringing
<1> QED
  BY <1>1, ScheduleOfTimer

LEMMA VacantTasks == ASSUME NEW o, NEW q, Vacant(q) PROVE Tasks(o, q)
BY DEF Vacant, Tasks

LEMMA AloneTasks == ASSUME NEW o, NEW e, IsTask(o, e), NEW q, Alone(q, e) PROVE Tasks(o, q)
BY DEF Alone, Tasks

\* The first work of a timeout and of a timer.
LEMMA StarterIsTask ==
  ASSUME NEW o, NEW at \in Nat, NEW k,
         (o.name = "timeout" /\ k = "start") \/ (o.name = "timer" /\ k = "producer")
  PROVE  IsTask(o, Work(at, k, <<>>))
BY DEF IsTask, IsWork, Work, Signal, Own, Dated

Silently(r) == r.push = <<>>

LEMMA BeginsFields ==
  ASSUME NEW s, NEW sources, NEW n, NEW arm, NEW r, Begins(s, sources, n, arm, r)
  PROVE  /\ IsState(r.st) /\ r.st.n = n /\ r.st.items = s.items
         /\ r.on = sources /\ r.arm = arm /\ Silently(r)
BY DEF Begins, Setup, Silently

\* An operator that has been subscribed is on schedule.
Started(o, r, seen, stamps, hist) ==
  LET q == EnqueueAll(<<>>, r.arm) IN
  /\ IsState(r.st) /\ r.st.n \in Nat /\ IsList(r.st.items) /\ Silently(r)
  /\ r.on \subseteq {1} /\ (o.name \notin Relays => r.on = {})
  /\ Tasks(o, q)
  /\ Schedule(o, r.st, q, seen, stamps, hist, 0)

LEMMA StartedIs ==
  ASSUME NEW o, NEW s, s.items = <<>>, NEW sources, sources \subseteq {1},
         o.name \notin Relays => sources = {}, NEW n \in Nat, NEW arm,
         NEW r, Begins(s, sources, n, arm, r), NEW q, q = EnqueueAll(<<>>, arm), Tasks(o, q),
         NEW seen, NEW stamps, NEW hist, Schedule(o, r.st, q, seen, stamps, hist, 0)
  PROVE  Started(o, r, seen, stamps, hist)
<1>1. /\ IsState(r.st) /\ r.st.n = n /\ r.st.items = s.items
      /\ r.on = sources /\ r.arm = arm /\ Silently(r)
  BY BeginsFields
<1>2. IsList(r.st.items)
  <2>1. r.st.items \in Seq({})
    BY <1>1
  <2> QED
    BY <2>1 DEF IsList
<1>3. q = EnqueueAll(<<>>, r.arm)
  BY <1>1
<1> QED
  BY <1>1, <1>2, <1>3 DEF Started

LEMMA StartsOnSchedule ==
  ASSUME NEW o, o.name \in Keeping, o.p \in Nat, o.n \in Nat, o.m \in Nat, NEW s, IsState(s),
         s.n \in Nat, s.items = <<>>, NEW i, i.k = "subscribe", NEW r, r = InTime(o, s, i, 0),
         NEW seen, Len(seen) = 0, NEW stamps, NEW hist, Unsent(hist)
  PROVE  Started(o, r, seen, stamps, hist)
<1>1. CASE o.name = "delay"
  <2>1. PICK S, arm : S = {1} /\ arm = <<>>
    OBVIOUS
  <2>2. Begins(s, S, s.n, arm, r)
    BY <2>1, <1>1, OperatorBegins
  <2>3. PICK q : q = EnqueueAll(<<>>, arm)
    OBVIOUS
  <2>4. S \subseteq {1} /\ (o.name \notin Relays => S = {})
    BY <2>1, <1>1 DEF Relays
  <2>5. r.st.n = s.n /\ r.st.items = <<>>
    BY <2>2, BeginsFields
  <2>6. Vacant(q)
    BY <2>1, <2>3, EnqueuedNothing
  <2>10. Tasks(o, q) /\ Schedule(o, r.st, q, seen, stamps, hist, 0)
    BY <1>1, <2>5, <2>6, VacantTasks, VacantSchedule
  <2> QED
    BY <2>2, <2>3, <2>4, <2>10, StartedIs
<1>2. CASE o.name = "debounce"
  <2>1. PICK S, arm : S = {1} /\ arm = <<>>
    OBVIOUS
  <2>2. Begins(s, S, s.n, arm, r)
    BY <2>1, <1>2, OperatorBegins
  <2>3. PICK q : q = EnqueueAll(<<>>, arm)
    OBVIOUS
  <2>4. S \subseteq {1} /\ (o.name \notin Relays => S = {})
    BY <2>1, <1>2 DEF Relays
  <2>5. r.st.n = s.n /\ r.st.items = <<>>
    BY <2>2, BeginsFields
  <2>6. Vacant(q)
    BY <2>1, <2>3, EnqueuedNothing
  <2>10. Tasks(o, q) /\ Schedule(o, r.st, q, seen, stamps, hist, 0)
    BY <1>2, <2>5, <2>6, VacantTasks, VacantSchedule
  <2> QED
    BY <2>2, <2>3, <2>4, <2>10, StartedIs
<1>3. CASE o.name = "timeout"
  <2>1. PICK S, arm : S = {1} /\ arm = <<Work(0, "start", <<>>)>>
    OBVIOUS
  <2>2. Begins(s, S, s.n, arm, r)
    BY <2>1, <1>3, OperatorBegins
  <2>3. PICK q : q = EnqueueAll(<<>>, arm)
    OBVIOUS
  <2>4. S \subseteq {1} /\ (o.name \notin Relays => S = {})
    BY <2>1, <1>3 DEF Relays
  <2>5. r.st.n = s.n /\ r.st.items = <<>>
    BY <2>2, BeginsFields
  <2>6. PICK e : e = Work(0, "start", <<>>)
    OBVIOUS
  <2>7. e.w.k = "start" /\ e.at = 0 /\ e.at \in Nat
    BY <2>6, WorkFields
  <2>8. IsTask(o, e)
    BY <1>3, <2>6, StarterIsTask
  <2>9. Alone(q, e)
    BY <2>1, <2>3, <2>6, <2>7, EnqueuedAlone
  <2>10. Tasks(o, q) /\ Schedule(o, r.st, q, seen, stamps, hist, 0)
    BY <1>3, <2>5, <2>7, <2>8, <2>9, AloneTasks, TimeoutSchedule
  <2> QED
    BY <2>2, <2>3, <2>4, <2>10, StartedIs
<1>4. CASE o.name = "sample_with_time"
  <2>1. PICK S, arm : S = {1} /\ arm = <<Work(0, "periodic", <<0>>)>>
    OBVIOUS
  <2>2. Begins(s, S, s.n, arm, r)
    BY <2>1, <1>4, OperatorBegins
  <2>3. PICK q : q = EnqueueAll(<<>>, arm)
    OBVIOUS
  <2>4. S \subseteq {1} /\ (o.name \notin Relays => S = {})
    BY <2>1, <1>4 DEF Relays
  <2>5. r.st.n = s.n /\ r.st.items = <<>>
    BY <2>2, BeginsFields
  <2>6. PICK e : e = Work(0, "periodic", <<0>>)
    OBVIOUS
  <2>7. e.w.k = "periodic" /\ e.at = 0 /\ Item(e.w) = 0 /\ e.at \in Nat
    BY <2>6, WorkItem
  <2>8. IsTask(o, e)
    <3>1. IsOne(<<0>>)
      BY OneOf
    <3> QED
      BY <1>4, <2>6, <3>1, TaskIs DEF Own, Dated
  <2>9. Alone(q, e)
    BY <2>1, <2>3, <2>6, <2>7, EnqueuedAlone
  <2>10. Tasks(o, q) /\ Schedule(o, r.st, q, seen, stamps, hist, 0)
    BY <1>4, <2>5, <2>7, <2>8, <2>9, AloneTasks, PeriodicSchedule
  <2> QED
    BY <2>2, <2>3, <2>4, <2>10, StartedIs
<1>5. CASE o.name = "buffer_with_time"
  <2>1. PICK S, arm, n : n = 0 /\ S = {1} /\ arm = <<Work(0, "periodic", <<0>>)>>
    OBVIOUS
  <2>2. Begins(s, S, n, arm, r)
    BY <2>1, <1>5, OperatorBegins
  <2>3. PICK q : q = EnqueueAll(<<>>, arm)
    OBVIOUS
  <2>4. S \subseteq {1} /\ (o.name \notin Relays => S = {})
    BY <2>1, <1>5 DEF Relays
  <2>5. r.st.n = 0 /\ r.st.items = <<>>
    BY <2>1, <2>2, BeginsFields
  <2>6. PICK e : e = Work(0, "periodic", <<0>>)
    OBVIOUS
  <2>7. e.w.k = "periodic" /\ e.at = 0 /\ Item(e.w) = 0 /\ e.at \in Nat
    BY <2>6, WorkItem
  <2>8. IsTask(o, e)
    <3>1. IsOne(<<0>>)
      BY OneOf
    <3> QED
      BY <1>5, <2>6, <3>1, TaskIs DEF Own, Dated
  <2>9. Alone(q, e)
    BY <2>1, <2>3, <2>6, <2>7, EnqueuedAlone
  <2>10. Tasks(o, q) /\ Schedule(o, r.st, q, seen, stamps, hist, 0)
    BY <1>5, <2>5, <2>7, <2>8, <2>9, AloneTasks, BufferSchedule
  <2> QED
    <3>1. n \in Nat
      BY <2>1
    <3> QED
      BY <3>1, <2>2, <2>3, <2>4, <2>10, StartedIs
<1>6. CASE o.name = "buffer_with_time_or_count"
  <2>1. PICK S, arm, n : n = 0 /\ S = {1} /\ arm = <<Work(o.p, "hop", <<0, o.p>>)>>
    OBVIOUS
  <2>2. Begins(s, S, n, arm, r)
    BY <2>1, <1>6, OperatorBegins
  <2>3. PICK q : q = EnqueueAll(<<>>, arm)
    OBVIOUS
  <2>4. S \subseteq {1} /\ (o.name \notin Relays => S = {})
    BY <2>1, <1>6 DEF Relays
  <2>5. r.st.n = 0 /\ r.st.items = <<>>
    BY <2>1, <2>2, BeginsFields
  <2>6. PICK e : e = Work(o.p, "hop", <<0, o.p>>)
    OBVIOUS
  <2>7. e.w.k = "hop" /\ e.at = o.p /\ e.at \in Nat /\ Item(e.w) = 0 /\ e.w.v[2] = o.p
    BY <2>6, WorkFields DEF Item
  <2>8. IsTask(o, e)
    <3>1. IsTwo(<<0, o.p>>)
      BY TwoOf
    <3> QED
      BY <1>6, <2>6, <3>1, TaskIs DEF Own, Dated
  <2>9. Alone(q, e)
    BY <2>1, <2>3, <2>6, <2>7, EnqueuedAlone
  <2>10. Tasks(o, q) /\ Schedule(o, r.st, q, seen, stamps, hist, 0)
    BY <1>6, <2>5, <2>7, <2>8, <2>9, AloneTasks, GroupSchedule
  <2> QED
    <3>1. n \in Nat
      BY <2>1
    <3> QED
      BY <3>1, <2>2, <2>3, <2>4, <2>10, StartedIs
<1>7. CASE o.name = "interval"
  <2>1. PICK S, arm, n : n = 0 /\ S = {} /\ arm = <<Work(0, "periodic", <<0>>)>>
    OBVIOUS
  <2>2. Begins(s, S, n, arm, r)
    BY <2>1, <1>7, OperatorBegins
  <2>3. PICK q : q = EnqueueAll(<<>>, arm)
    OBVIOUS
  <2>4. S \subseteq {1} /\ (o.name \notin Relays => S = {})
    BY <2>1, <1>7 DEF Relays
  <2>5. r.st.n = 0 /\ r.st.items = <<>>
    BY <2>1, <2>2, BeginsFields
  <2>6. PICK e : e = Work(0, "periodic", <<0>>)
    OBVIOUS
  <2>7. e.w.k = "periodic" /\ e.at = 0 /\ Item(e.w) = 0 /\ e.at \in Nat
    BY <2>6, WorkItem
  <2>8. IsTask(o, e)
    <3>1. IsOne(<<0>>)
      BY OneOf
    <3> QED
      BY <1>7, <2>6, <3>1, TaskIs DEF Own, Dated
  <2>9. Alone(q, e)
    BY <2>1, <2>3, <2>6, <2>7, EnqueuedAlone
  <2>10. Tasks(o, q) /\ Schedule(o, r.st, q, seen, stamps, hist, 0)
    BY <1>7, <2>5, <2>7, <2>8, <2>9, AloneTasks, PeriodicSchedule
  <2> QED
    <3>1. n \in Nat
      BY <2>1
    <3> QED
      BY <3>1, <2>2, <2>3, <2>4, <2>10, StartedIs
<1>8. CASE o.name = "timer"
  <2>1. PICK S, arm : S = {} /\ arm = <<Work(o.p, "producer", <<>>)>>
    OBVIOUS
  <2>2. Begins(s, S, s.n, arm, r)
    BY <2>1, <1>8, OperatorBegins
  <2>3. PICK q : q = EnqueueAll(<<>>, arm)
    OBVIOUS
  <2>4. S \subseteq {1} /\ (o.name \notin Relays => S = {})
    BY <2>1, <1>8 DEF Relays
  <2>5. r.st.n = s.n /\ r.st.items = <<>>
    BY <2>2, BeginsFields
  <2>6. PICK e : e = Work(o.p, "producer", <<>>)
    OBVIOUS
  <2>7. e.at = o.p /\ e.at \in Nat
    BY <2>6, WorkFields
  <2>8. IsTask(o, e)
    BY <1>8, <2>6, StarterIsTask
  <2>9. Alone(q, e)
    BY <2>1, <2>3, <2>6, <2>7, EnqueuedAlone
  <2>10. Tasks(o, q) /\ Schedule(o, r.st, q, seen, stamps, hist, 0)
    BY <1>8, <2>5, <2>7, <2>8, <2>9, AloneTasks, TimerSchedule
  <2> QED
    BY <2>2, <2>3, <2>4, <2>10, StartedIs
<1> QED
  BY <1>1, <1>2, <1>3, <1>4, <1>5, <1>6, <1>7, <1>8 DEF Keeping, Relays

\* The subscription said nothing, so that the observer is still there.
LEMMA HearsNothing ==
  ASSUME NEW quit, NEW channels, 0 \in channels, NEW seen, Len(seen) = 0, NEW push, Len(push) = 0,
         NEW d, NEW n \in 0 .. Len(push), Hears(quit, channels, seen, push, d, n)
  PROVE  0 \in d.live /\ IsList(d.out) /\ Len(d.out) = 0
<1>1. n = 0
  OBVIOUS
<1> QED
  BY <1>1 DEF Hears, Extends

\* What Init makes of an operator that keeps time.
LEMMA InitOnSchedule ==
  ASSUME NEW o, o.name \in Keeping, o.p \in Nat, o.p # 0, o.n \in Nat, o.m \in Nat,
         NEW d, d = Call(o, Fresh(o), Signal(1, "subscribe", <<>>), 0, <<>>, {}, Observed(o), <<>>)
  PROVE  OnSchedule(o, d.st, d.queue, d.on, d.live, d.out, Stamps(0, <<>>, d.out), <<>>, 0)
<1>1. PICK none, nobody, i : none = <<>> /\ nobody = {} /\ i = Signal(1, "subscribe", <<>>)
  OBVIOUS
<1>2. PICK channels : channels = Observed(o)
  OBVIOUS
<1>3. PICK s : s = [Fresh(o) EXCEPT !.out = 0 \in channels]
  OBVIOUS
<1>4. PICK r : r = InTime(o, s, i, 0)
  OBVIOUS
<1>5. i.k = "subscribe"
  BY <1>1 DEF Signal
<1>6. IsState(s) /\ s.n \in Nat /\ s.items = <<>>
  <2>1. PICK u : u = Fresh(o)
    OBVIOUS
  <2>2. IsState(u) /\ u.n = o.n /\ u.items = <<>>
    BY <2>1 DEF Fresh, IsState
  <2>3. PICK x : x = (0 \in channels)
    OBVIOUS
  <2>4. s = [u EXCEPT !.out = x]
    BY <2>1, <2>3, <1>3
  <2>5. IsState(s) /\ s.n = u.n /\ s.items = u.items
    BY <2>2, <2>4, SameBut
  <2>6. s.n \in Nat
    BY <2>2, <2>5
  <2>7. s.items = <<>>
    BY <2>2, <2>5
  <2> QED
    BY <2>5, <2>6, <2>7
<1>7. d = Outcome(o, r, 0, none, nobody, channels, none)
  <2>1. r = Step(o, s, i, 0)
    BY <1>4, StepInTime
  <2> QED
    BY <2>1, <1>1, <1>2, <1>3 DEF Call
<1>8. 0 \in channels /\ channels \subseteq {0}
  BY <1>2, KeepingNames DEF Observed
<1>9. IsList(none) /\ Len(none) = 0
  BY <1>1 DEF IsList
<1>10. Unsent(none)
  BY <1>1, NothingSent DEF Unsent
<1>11. \A seen, stamps : Len(seen) = 0 => Started(o, r, seen, stamps, none)
  BY <1>4, <1>5, <1>6, <1>10, StartsOnSchedule
<1>12. Silently(r)
  BY <1>9, <1>11 DEF Started
<1>13. Speaks(r.push) /\ Len(r.push) = 0
  BY <1>12, SpeaksNothing DEF Silently
<1>14. PICK arms : arms = EnqueueAll(none, r.arm)
  OBVIOUS
<1>15. /\ LeavesRest(r, d, nobody, channels)
       /\ \E n \in 0 .. Len(r.push) : Hears(o.quit, channels, none, r.push, d, n)
       /\ LeavesWork(o, d, arms, 0)
  BY <1>7, <1>8, <1>9, <1>13, <1>14, OutcomeSpeaks DEF OfOutput
<1>16. 0 \in d.live /\ IsList(d.out) /\ Len(d.out) = 0
  BY <1>8, <1>9, <1>13, <1>15, HearsNothing
<1>17. d.queue = arms /\ d.st = r.st /\ d.live \subseteq {0} /\ d.on \subseteq r.on
  BY <1>1, <1>8, <1>15, <1>16 DEF LeavesWork, LeavesRest
<1>18. PICK stamps : stamps = Stamps(0, none, d.out)
  OBVIOUS
<1>19. IsList(stamps) /\ Len(stamps) = 0
  <2>1. Stamped(none, Len(none), Len(d.out), 0, stamps)
    BY <1>9, <1>16, <1>18, StampsIs
  <2> QED
    BY <2>1, <1>16 DEF Stamped
<1>20. /\ IsState(d.st) /\ d.st.n \in Nat /\ IsList(d.st.items)
       /\ d.on \subseteq {1} /\ (o.name \notin Relays => d.on = {})
       /\ Tasks(o, d.queue) /\ Schedule(o, d.st, d.queue, d.out, stamps, none, 0)
  <2>1. Started(o, r, d.out, stamps, none)
    BY <1>11, <1>16
  <2>2. arms = EnqueueAll(<<>>, r.arm)
    BY <1>1, <1>14
  <2> QED
    BY <2>1, <2>2, <1>17 DEF Started
<1>21. InPast(stamps, Len(d.out), none, 0)
  <2>1. \A l : ~Entry(none, l)
    BY <1>1 DEF Entry, ToSet
  <2>2. PICK values : values = ValuesOf(none)
    OBVIOUS
  <2>3. IsList(values) /\ Len(values) = 0
    <3>1. values = none
      BY <2>2, <1>1, NothingSent
    <3> QED
      BY <3>1, <1>9
  <2> QED
    BY <2>1, <2>2, <2>3, <1>9, <1>16 DEF InPast
<1>22. AllPunctual(o, d.out, stamps, none)
  BY <1>16 DEF AllPunctual
<1>23. \A j \in 1 .. Len(d.out) : d.out[j].s = 0
  BY <1>16
<1>24. OnSchedule(o, d.st, d.queue, d.on, d.live, d.out, stamps, none, 0)
  BY <1>16, <1>17, <1>19, <1>20, <1>21, <1>22, <1>23 DEF OnSchedule
<1> QED
  BY <1>1, <1>18, <1>24

LEMMA InitKeepsTime == Init => TimeKept
<1> SUFFICES ASSUME Init PROVE TimeKept
  OBVIOUS
<1>1. op \in Operators
  BY DEF Init
<1>2. ASSUME op.p # 0, op.name \in Keeping
      PROVE  OnSchedule(op, st, queue, on, live, out, when, log, now)
  <2>1. PICK d : d = Call(op, Fresh(op), Signal(1, "subscribe", <<>>), 0, <<>>, {}, Observed(op), <<>>)
    OBVIOUS
  <2>2. /\ st = d.st /\ on = d.on /\ queue = d.queue /\ live = d.live /\ out = d.out
        /\ when = Stamps(0, <<>>, d.out) /\ now = 0 /\ log = <<>>
    BY <2>1 DEF Init
  <2>3. op.p \in Nat /\ op.n \in Nat /\ op.m \in Nat
    BY <1>1, ArgumentsNat
  <2>4. OnSchedule(op, d.st, d.queue, d.on, d.live, d.out, Stamps(0, <<>>, d.out), <<>>, 0)
    BY <2>1, <2>3, <1>2, InitOnSchedule
  <2> QED
    BY <2>2, <2>4
<1> QED
  BY <1>1, <1>2 DEF TimeKept

LEMMA KeptIsEnough == TimeKept => NeverEarly
<1> SUFFICES ASSUME TimeKept PROVE NeverEarly
  OBVIOUS
<1>1. CASE op.name \in Keeping
  <2>1. op.p # 0 => IsList(out) /\ AllPunctual(op, out, when, log)
    BY <1>1, OnScheduleIs DEF TimeKept
  <2> QED
    BY <2>1, PunctualIsEnough
<1>2. CASE op.name \notin Keeping
  <2>1. ASSUME NEW j PROVE OnTime(j)
    BY <1>2 DEF OnTime, Keeping, Relays
  <2> QED
    BY <2>1 DEF NeverEarly
<1> QED
  BY <1>1, <1>2

\* However late the worker is, nothing is sent before its time: for every
\* operator that keeps time, with any period and arguments, whatever the source
\* sends, whenever the observer leaves and however long the clock runs.
THEOREM NothingEarly == Spec => []NeverEarly
<1>1. Init => TimeKept
  BY InitKeepsTime
<1>2. TimeKept /\ [Next]_vars => TimeKept'
  BY NextKeepsTime
<1>3. TimeKept => NeverEarly
  BY KeptIsEnough
<1> QED
  BY <1>1, <1>2, <1>3, PTL DEF Spec
=============================================================================
