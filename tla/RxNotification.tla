--------------------------- MODULE RxNotification ---------------------------
(* The vocabulary of the RxCpp operators under include/rxcpp: what travels    *)
(* from a source to an operator and from an operator to its observer, what    *)
(* one call of an operator's on_subscribe, on_next, on_error or on_completed  *)
(* does, and what rxcpp::subscriber lets through to the observer.             *)
(*                                                                            *)
(* A signal has the source s it comes from (or the channel it goes to), a     *)
(* kind k and a payload v, always a sequence. Channel 0 is the operator's own *)
(* output; a window or a group is a channel of its own, announced on channel  *)
(* 0 by a signal of kind "open". Errors are not told apart.                   *)
EXTENDS Integers, Sequences, FiniteSets, SequencesExt, FiniteSetsExt

Signal(s, k, v) == [s |-> s, k |-> k, v |-> v]

OnNext(v) == Signal(0, "next", v)
OnError == Signal(0, "error", <<>>)
OnCompleted == Signal(0, "completed", <<>>)
Open(c) == Signal(0, "open", <<c>>)

\* The value a source's "next" carries.
Item(i) == i.v[1]
Terminal(i) == i.k \in {"error", "completed"}

(* What one call does: the operator's state after it, the signals it sends,   *)
(* in order, the sources it subscribes and unsubscribes, and the work it puts *)
(* on its worker, in order: what to call it with, at what time.               *)
Does(st, push) ==
  [st |-> st, push |-> push, on |-> {}, off |-> {}, arm |-> <<>>]

Quietly(st) == Does(st, <<>>)
Push(st, v) == Does(st, <<OnNext(v)>>)
Finish(st, v) == Does(st, <<OnNext(v), OnCompleted>>)
Subscribing(st, sources) == [Quietly(st) EXCEPT !.on = sources]

\* The members of an operator at construction: counters n and m, a queue items,
\* a second one vals, a set seen, a flag done, and whether dest is subscribed.
Fresh(o) == [n |-> o.n, m |-> 0, items |-> <<>>, seen |-> {}, done |-> FALSE,
             vals |-> <<>>, out |-> TRUE]

\* A user's function that throws inside an operator: on_exception, or the
\* detacher of the subscriber that runs it, sends on_error downstream.
Fails(st) == Does(st, <<OnError>>)

(* What most operators do with what they have no business with: a subscriber  *)
(* subscribes the source it was lifted on, errors and completions pass.       *)
Forward(st, i) ==
  IF i.k = "subscribe" THEN Subscribing(st, {1})
  ELSE Does(st, <<[i EXCEPT !.s = 0]>>)

(* subscriber::on_next, on_error, on_completed: nothing gets through once the *)
(* lifetime is unsubscribed; a terminal call unsubscribes when it returns. An *)
(* observer that has seen quit values of the output disposes of it inside its *)
(* on_next (0: it never does). acc has the channels still subscribed and what *)
(* their observers saw.                                                       *)
Seen(out) == Cardinality({j \in DOMAIN out : out[j].s = 0})

subscriber(quit, acc, n) ==
  IF n.s \notin acc.live THEN acc
  ELSE LET out == Append(acc.out, n)
           opened == IF n.k = "open" THEN {n.v[1]} ELSE {}
           closed == IF Terminal(n) \/ (n.s = 0 /\ quit > 0 /\ Seen(out) = quit)
                     THEN {n.s} ELSE {}
       IN [live |-> (acc.live \cup opened) \ closed, out |-> out]

Deliver(quit, live, out, push) ==
  LET acc[j \in 0..Len(push)] == IF j = 0 THEN [live |-> live, out |-> out]
                                 ELSE subscriber(quit, acc[j - 1], push[j])
  IN acc[Len(push)]

\* One signal to the subscribers of several windows.
ToWindows(windows, n) == [j \in DOMAIN windows |-> [n EXCEPT !.s = windows[j]]]

\* The channel of a second observer: the one tap() is given, and finally()'s call.
Side == 99

(* The functions the operators are given: a predicate, a projection, and a    *)
(* value on which a user's function throws.                                   *)
Throws(v) == v = 3
Test(v) == v = 1
Project(v) == 10 + v
=============================================================================
