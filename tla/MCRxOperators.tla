---------------------------- MODULE MCRxOperators ----------------------------
(* The catalogue that TLC explores: every operator of RxOperators, with the   *)
(* arguments at which it changes its mind, for an observer that stays and for *)
(* one that leaves in its first or second value. The period is one tick,      *)
(* which the two moments at which the sources send are apart; buffers touch   *)
(* and, with a period of two, overlap.                                        *)
EXTENDS RxOperators

LOCAL Op(names, p, ns, ms, quits) ==
  {[name |-> x, p |-> p, n |-> n, m |-> m, quit |-> q] : x \in names, n \in ns, m \in ms, q \in quits}

LOCAL Untimed ==
  Op(Unary \ {"take", "skip", "take_last", "skip_last", "element_at", "buffer_count",
              "window", "scan"}, 0, {0}, {0}, {0, 2})
  \cup Op({"scan"}, 0, {5}, {0}, {0, 1})
  \cup Op({"take", "skip", "take_last", "skip_last"}, 0, 0..2, {0}, {0, 1})
  \cup Op({"element_at"}, 0, {0, 2}, {0}, {0})
  \cup Op({"buffer_count", "window"}, 0, 1..2, 1..3, {0, 2})
  \cup Op({"create"}, 0, {2}, 0..2, 0..2)
  \cup Op({"scope"}, 0, {0}, 0..2, {0, 1}) \cup Op({"defer"}, 0, {0}, 0..1, {0, 1})
  \cup Op(HigherOrder \cup (TwoSources \ {"group_by"}), 0, {0}, {0}, {0, 1})
  \cup Op({"group_by"}, 0, {0}, 0..2, {0, 1})
  \cup Op({"start_with"}, 0, {7}, {8}, {0, 1, 2, 3})
  \cup Op({"retry", "repeat"}, 0, {0, 2}, {0}, {0, 1}) \cup Op({"retry", "repeat"}, 0, {1}, {1}, {0})

LOCAL Clocked ==
  Op({"delay", "debounce", "timeout", "sample_with_time", "time_interval", "timestamp",
      "observe_on", "subscribe_on", "interval", "timer"}, 1, {0}, {0}, {0, 2})
  \cup Op({"window_toggle"}, 1, {0}, {0}, {0})
  \cup Op({"buffer_with_time"}, 1, {0}, {1}, {0, 2}) \cup Op({"buffer_with_time"}, 2, {0}, {1}, {0, 2})
  \cup Op({"buffer_with_time_or_count"}, 1, {2}, {0}, {0, 2})
  \cup Op({"window_with_time_or_count"}, 1, {2}, {0}, {0})
  \cup Op({"range"}, 1, {1, 4}, {1, 2}, {0, 2}) \cup Op({"range"}, 2, {1, 4}, {1, 2}, {0})
  \cup Op({"iterate"}, 1, {0, 3}, {0}, {0, 2})
  \cup Op({"error"}, 1, {0}, {0}, {0})
  \cup Op({"synchronize"}, 1, {0}, {0, 1}, {0, 2})

MCOperators == Untimed \cup Clocked
=============================================================================
