----------------------------- MODULE RxReference -----------------------------
(* What the operators of RxUnary and RxCombine promise, as closed forms: the  *)
(* whole output on channel c as a function of the log L of the signals that   *)
(* the sources have sent so far, with no state of the operator's own.         *)
EXTENDS RxCombine

LOCAL Of(L, s, k) == SelectSeq(L, LAMBDA i : i.s = s /\ i.k = k)
Values(L, s) == [j \in DOMAIN Of(L, s, "next") |-> Item(Of(L, s, "next")[j])]
Has(L, s, k) == Of(L, s, k) # <<>>
Ends(L, s) == Has(L, s, "error") \/ Has(L, s, "completed")

\* The signals that carry the payloads ps, then the end.
Sends(ps, end) == [j \in DOMAIN ps |-> OnNext(ps[j])] \o end
Singles(xs) == [j \in DOMAIN xs |-> <<xs[j]>>]
LastOr(end, L, ks) == IF L # <<>> /\ L[Len(L)].k \in ks
                      THEN <<Signal(0, L[Len(L)].k, <<>>)>> ELSE end
EndOf(L) == LastOr(<<>>, L, {"error", "completed"})

\* The index of the first element of xs in the set, one past the end if none.
FirstIn(xs, S) == Min({j \in DOMAIN xs : xs[j] \in S} \cup {Len(xs) + 1})
Before(xs, S) == SubSeq(xs, 1, FirstIn(xs, S) - 1)
Meets(xs, S) == FirstIn(xs, S) <= Len(xs)
Smaller(a, b) == IF a < b THEN a ELSE b
Total(xs) == FoldLeft(LAMBDA a, x : a + x, 0, xs)
Kept(xs, P(_)) == LET idx == SetToSortSeq({j \in DOMAIN xs : P(j)}, <) IN
                  [j \in DOMAIN idx |-> xs[idx[j]]]

\* The values up to the first on which a user's function throws, and the end then.
GoodOr(xs, L) == IF Meets(xs, {3}) THEN <<OnError>> ELSE EndOf(L)

UnaryRef(o, L, c) ==
  LET xs   == Values(L, 1)
      good == Before(xs, {3})
      end  == EndOf(L)
      done == end = <<OnCompleted>>
      len  == Len(xs)
  IN CASE o.name = "map" -> Sends([j \in DOMAIN good |-> <<10 + good[j]>>], GoodOr(xs, L))
       [] o.name = "filter" ->
            Sends(Singles(SelectSeq(good, LAMBDA x : x = 1)), GoodOr(xs, L))
       [] o.name = "scan" ->
            Sends([j \in DOMAIN good |-> <<o.n + Total(SubSeq(good, 1, j))>>], GoodOr(xs, L))
       [] o.name = "take" ->
            IF len >= o.n THEN Sends(Singles(SubSeq(xs, 1, o.n)), <<OnCompleted>>)
            ELSE Sends(Singles(xs), end)
       [] o.name = "skip" -> Sends(Singles(SubSeq(xs, o.n + 1, len)), end)
       [] o.name = "take_last" ->
            Sends(IF done THEN Singles(SubSeq(xs, IF len > o.n THEN len - o.n + 1 ELSE 1, len))
                  ELSE <<>>, end)
       [] o.name = "skip_last" -> Sends(Singles(SubSeq(xs, 1, len - o.n)), end)
       [] o.name = "take_while" ->
            Sends(Singles(Before(xs, {2, 3})),
                  IF ~Meets(xs, {2, 3}) THEN end
                  ELSE IF xs[FirstIn(xs, {2, 3})] = 3 THEN <<OnError>> ELSE <<OnCompleted>>)
       [] o.name = "skip_while" ->
            LET f == FirstIn(xs, {2, 3}) IN
            IF f <= len /\ xs[f] = 3 THEN <<OnError>>
            ELSE Sends(Singles(SubSeq(xs, f, len)), end)
       [] o.name = "distinct" ->
            Sends(Singles(Kept(xs, LAMBDA j : \A k \in 1..(j - 1) : xs[k] # xs[j])), end)
       [] o.name = "distinct_until_changed" ->
            LET compared == IF len = 0 THEN <<>> ELSE Tail(xs)
                ys == SubSeq(xs, 1, Smaller(FirstIn(compared, {3}), len)) IN
            Sends(Singles(Kept(ys, LAMBDA j : j = 1 \/ ys[j - 1] # ys[j])), GoodOr(compared, L))
       [] o.name = "element_at" ->
            IF len > o.n THEN Sends(<<<<xs[o.n + 1]>>>>, <<OnCompleted>>)
            ELSE IF done THEN <<OnError>> ELSE end
       [] o.name = "pairwise" -> Sends([j \in 1..(len - 1) |-> <<xs[j], xs[j + 1]>>], end)
       [] o.name = "ignore_elements" -> end
       [] o.name = "tap" ->
            IF c = 0 THEN Sends(Singles(good), GoodOr(xs, L))
            ELSE Sends(Singles(xs), GoodOr(xs, L))
       [] o.name = "finally" -> Sends(Singles(xs), end)
       [] o.name = "all" ->
            IF Meets(xs, {2, 3})
            THEN IF xs[FirstIn(xs, {2, 3})] = 3 THEN <<OnError>>
                 ELSE Sends(<<<<0>>>>, <<OnCompleted>>)
            ELSE Sends(IF done THEN <<<<1>>>> ELSE <<>>, end)
       [] o.name = "any" ->
            IF Meets(xs, {1, 3})
            THEN IF xs[FirstIn(xs, {1, 3})] = 3 THEN <<OnError>>
                 ELSE Sends(<<<<1>>>>, <<OnCompleted>>)
            ELSE Sends(IF done THEN <<<<0>>>> ELSE <<>>, end)
       [] o.name = "is_empty" ->
            IF len > 0 THEN Sends(<<<<0>>>>, <<OnCompleted>>)
            ELSE Sends(IF done THEN <<<<1>>>> ELSE <<>>, end)
       [] o.name = "buffer_count" ->
            LET starts == {j \in 0..len : j % o.m = 0 /\ j < len
                                          /\ (done \/ j + o.n <= len)}
                idx == SetToSortSeq(starts, <) IN
            Sends([j \in DOMAIN idx |-> SubSeq(xs, idx[j] + 1, Smaller(idx[j] + o.n, len))], end)
       [] o.name = "window" ->
            IF c = 0 THEN [j \in 1..(1 + len \div o.m) |-> Open(j)] \o end
            ELSE LET from == (c - 1) * o.m IN
                 Sends(Singles(SubSeq(xs, from + 1, Smaller(from + o.n, len))),
                       IF from + o.n <= len THEN <<OnCompleted>> ELSE end)
       [] o.name = "create" ->
            Sends([j \in 1..o.n |-> <<j>>],
                  IF o.m = 2 THEN <<>> ELSE <<IF o.m = 0 THEN OnCompleted ELSE OnError>>)
       [] o.name \in {"defer", "scope"} -> IF o.m # 0 THEN <<OnError>> ELSE Sends(Singles(xs), end)
       [] o.name = "first" ->
            IF len > 0 THEN Sends(<<<<xs[1]>>>>, <<OnCompleted>>)
            ELSE IF done THEN <<OnError>> ELSE end
       [] o.name \in {"sum", "max", "min", "last"} ->
            IF ~done THEN end ELSE IF len = 0 THEN <<OnError>>
            ELSE Sends(<<<<CASE o.name = "sum" -> Total(xs)
                             [] o.name = "max" -> CHOOSE x \in ToSet(xs) : \A y \in ToSet(xs) : y <= x
                             [] o.name = "min" -> CHOOSE x \in ToSet(xs) : \A y \in ToSet(xs) : x <= y
                             [] o.name = "last" -> xs[len]>>>>, end)

(* average() sends one fraction: the mean as long as the sum fits in T, and   *)
(* between the least and the greatest value in any case.                      *)
IsAverage(L, sent) ==
  LET xs == Values(L, 1) IN
  IF EndOf(L) # <<OnCompleted>> THEN sent = EndOf(L)
  ELSE IF xs = <<>> THEN sent = <<OnError>>
  ELSE LET p == sent[1].v[1]
           q == sent[1].v[2] IN
       /\ Len(sent) = 2 /\ sent[2] = OnCompleted
       /\ \E x, y \in ToSet(xs) : x * q <= p /\ p <= y * q
       /\ Total(xs) <= MaxT => p * Len(xs) = q * Total(xs)

(* A group starts with a value whose key no group holds: no earlier value of  *)
(* the same key, or an expiry since. It ends with the first expiry after it.  *)
GroupKey(i) == IF Throws(Item(i)) THEN 1 ELSE Item(i)
ToGroup(i) == i.s = 1 /\ i.k = "next"

GroupStarts(o, L) ==
  LET start(j) ==
        /\ ToGroup(L[j]) /\ ~(o.m = 0 /\ Throws(Item(L[j])))
        /\ \A i \in 1..(j - 1) :
             /\ L[i].k # "dispose"
             /\ ToGroup(L[i]) /\ GroupKey(L[i]) = GroupKey(L[j]) =>
                  \E d \in i..j : L[d].s = 1 + GroupKey(L[j])
      all_starts == SetToSortSeq({j \in DOMAIN L : start(j)}, <)
      most == IF o.quit = 0 THEN Len(all_starts) ELSE o.quit
  IN SubSeq(all_starts, 1, Smaller(most, Len(all_starts)))

\* Value j comes while the group that began with value f is there.
InGroup(L, f, j) ==
  /\ f <= j /\ GroupKey(L[f]) = GroupKey(L[j])
  /\ \A d \in f..j : L[d].s # 1 + GroupKey(L[f])

GroupByRef(o, L, c) ==
  LET began  == GroupStarts(o, L)
      throws(j) == ToGroup(L[j]) /\ Throws(Item(L[j]))
      starts == SelectSeq(began, LAMBDA j : ~(o.m = 1 /\ throws(j)))
      fails(j) == throws(j) /\ CASE o.m = 0 -> TRUE
                                 [] o.m = 1 -> j \in ToSet(began)
                                 [] o.m = 2 -> \E f \in ToSet(began) : InGroup(L, f, j)
      end    == IF \E j \in DOMAIN L : fails(j) \/ (L[j].s = 1 /\ L[j].k = "error")
                THEN <<OnError>>
                ELSE IF Has(L, 1, "completed") THEN <<OnCompleted>> ELSE <<>>
      main   == \A j \in DOMAIN L : L[j].k # "dispose"
  IN IF c = 0 THEN [j \in DOMAIN starts |-> Open(j)] \o (IF main THEN end ELSE <<>>)
     ELSE LET from == starts[c]
              key  == GroupKey(L[from])
              over == {d \in from..Len(L) : L[d].s = 1 + key}
              to   == IF over = {} THEN Len(L) ELSE Min(over)
              joins(i) == ToGroup(i) /\ GroupKey(i) = key /\ (o.m = 1 \/ ~Throws(Item(i)))
          IN Sends(Singles(Values(SelectSeq(SubSeq(L, from, to), joins), 1)),
                   IF over # {} THEN <<OnCompleted>> ELSE end)

Inner(L) == SelectSeq(L, LAMBDA i : i.s > 1 /\ i.k = "next")
Joined(L) == {1} \cup {1 + j : j \in DOMAIN Values(L, 1)}
Failed(L) == IF \E j \in DOMAIN L : L[j].k = "error" THEN <<OnError>> ELSE <<>>
AllDone(L, S) == \A s \in S : Ends(L, s)
Latests(L, triggers) ==
  LET upto(j) == SubSeq(L, 1, j)
      ready   == SetToSortSeq({j \in DOMAIN L : /\ L[j].k = "next" /\ L[j].s \in triggers
                                                /\ \A s \in Both : Has(upto(j), s, "next")}, <)
      at(j)   == [s \in Both |-> LET ys == Values(upto(j), s) IN ys[Len(ys)]]
  IN [j \in DOMAIN ready |-> at(ready[j])]

\* The payloads before the first that holds a value on which the selector throws.
Selected(ps, end) ==
  LET bad == {j \in DOMAIN ps : 3 \in ToSet(ps[j])} IN
  IF bad = {} THEN Sends(ps, end) ELSE Sends(SubSeq(ps, 1, Min(bad) - 1), <<OnError>>)

CombineRef(o, L) ==
  LET every    == SelectSeq(L, LAMBDA i : i.k = "next")
      ys     == [j \in DOMAIN Inner(L) |-> Inner(L)[j].v]
      outer  == Values(L, 1)
      done   == AllDone(L, Joined(L))
      one    == Values(L, 1)
      two    == Values(L, 2)
      pairs  == Smaller(Len(one), Len(two))
      zipped == [j \in 1..pairs |-> <<one[j], two[j]>>]
      both   == AllDone(L, Both)
      at     == Len(L)
      paired == [j \in DOMAIN Inner(L) |-> <<outer[Inner(L)[j].s - 1], Item(Inner(L)[j])>>]
      ending(finished) == IF Failed(L) # <<>> THEN Failed(L)
                          ELSE IF finished THEN <<OnCompleted>> ELSE <<>>
  IN CASE o.name \in {"merge", "concat"} -> Sends(ys, ending(done))
       [] o.name = "merge_delay_error" ->
            Sends(ys, IF ~done THEN <<>> ELSE ending(TRUE))
       [] o.name = "flat_map" ->
            IF Meets(outer, {3}) THEN Sends(paired, <<OnError>>)
            ELSE Selected(paired, ending(done))
       [] o.name = "concat_map" ->
            IF \E j \in DOMAIN outer :
                 outer[j] = 3 /\ \A k \in 1..(j - 1) : Ends(L, 1 + k)
            THEN Sends(paired, <<OnError>>)
            ELSE Selected(paired, ending(done))
       [] o.name = "amb" ->
            Sends(ys, ending(\/ \E s \in Joined(L) \ {1} : Has(L, s, "completed")
                             \/ Has(L, 1, "completed") /\ outer = <<>>))
       [] o.name = "switch_on_next" ->
            Sends(ys, ending(Ends(L, 1) /\ (outer = <<>> \/ Ends(L, 1 + Len(outer)))))
       [] o.name = "zip" ->
            Selected(zipped, ending(both \/ (at > 0 /\ L[at].k = "next"
                       /\ \E s \in Both : Has(L, s, "completed") /\ Len(Values(L, s)) = pairs)))
       [] o.name = "combine_latest" -> Selected(Latests(L, Both), ending(both))
       [] o.name = "with_latest_from" -> Selected(Latests(L, {1}), ending(both))
       [] o.name = "take_until" ->
            Sends(Singles(one), ending(Has(L, 2, "next") \/ Has(L, 1, "completed")))
       [] o.name = "skip_until" ->
            LET opened == {j \in DOMAIN L : L[j].s = 2 /\ L[j].k = "next"}
                after  == IF opened = {} THEN <<>> ELSE SubSeq(L, Min(opened), at) IN
            Sends(Singles(Values(after, 1)), ending(Has(after, 1, "completed")))
       [] o.name = "sequence_equal" ->
            LET differ == \E j \in 1..pairs : one[j] # two[j]
                late   == \E s \in Both : \E j \in DOMAIN L : \E i \in 1..(j - 1) :
                            /\ L[j].s = s /\ L[j].k = "next"
                            /\ L[i].s = 3 - s /\ L[i].k = "completed"
                            /\ Len(Values(SubSeq(L, 1, j), s)) > Len(Values(L, 3 - s))
            IN IF Failed(L) # <<>> THEN Failed(L)
               ELSE IF differ \/ late THEN Sends(<<<<0>>>>, <<OnCompleted>>)
               ELSE IF both THEN Sends(<<Bit(Len(one) = Len(two))>>, <<OnCompleted>>)
               ELSE <<>>
       [] o.name = "on_error_resume_next" ->
            Sends([j \in DOMAIN every |-> every[j].v],
                  IF at > 0 /\ L[at].s = 1 /\ L[at].k = "error" THEN <<>> ELSE EndOf(L))
       [] o.name = "switch_if_empty" ->
            Sends([j \in DOMAIN every |-> every[j].v],
                  IF at = 1 /\ L[1].s = 1 /\ L[1].k = "completed" THEN <<>> ELSE EndOf(L))
       [] o.name = "start_with" -> Sends(<<<<o.n>>, <<o.m>>>> \o Singles(one), EndOf(L))
       [] o.name \in {"retry", "repeat"} ->
            LET k == IF o.name = "retry" THEN "error" ELSE "completed" IN
            IF o.m # 1 /\ o.n <= 0 THEN <<OnCompleted>>
            ELSE Sends(Singles(one), IF o.m # 1 /\ Len(Of(L, 1, k)) = o.n
                                     THEN <<Signal(0, k, <<>>)>>
                                     ELSE LastOr(<<>>, L, {"error", "completed"} \ {k}))

(* The order in which the sources may be heard: concat() one inner source     *)
(* after the other, switch_on_next() the latest only, amb() the winner only.  *)
Heard(o, L) ==
  LET inner == SelectSeq(L, LAMBDA i : i.s > 1) IN
  CASE o.name \in {"concat", "concat_map"} ->
         \A j, k \in DOMAIN inner : j < k => inner[j].s <= inner[k].s
    [] o.name = "switch_on_next" ->
         \A j \in DOMAIN L : L[j].s > 1 => L[j].s = 1 + Len(Values(SubSeq(L, 1, j), 1))
    [] o.name = "amb" ->
         \A j, k \in DOMAIN inner : j < k /\ inner[j].k = "next" => inner[k].s = inner[j].s
    [] OTHER -> TRUE
=============================================================================
