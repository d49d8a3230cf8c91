--------------------------- MODULE RxSubscription ---------------------------
(* composite_subscription (rx-subscription.hpp), the lifetime that every     *)
(* rxcpp operator, scheduler and subject of the bus hangs its callbacks on,  *)
(* used by several threads at once.  Its state is a set guarded by a mutex   *)
(* and an atomic flag that is tested before the mutex is taken and again     *)
(* after (double checked locking), but written without it.  Around it sits a *)
(* subscription with a flag of its own: subscription_state, whose exchange   *)
(* lets one unsubscribe through.  Every load, exchange, lock and access to   *)
(* the set is a step.                                                        *)
(*                                                                           *)
(* A child is a subscription whose own state is the flag subscribed[s]; its  *)
(* action is run by whoever turns the flag.  The action of a child in        *)
(* Removing takes the child out of the composite, as those of merge, concat  *)
(* and flat_map do.                                                          *)
EXTENDS Integers

CONSTANTS
    Threads,        \* the threads that call the composite
    Subs,           \* the children, subscriptions that are added to it
    Removing,       \* the children whose action calls remove
    Free,           \* the mutex when no thread holds it
    MaxCalls        \* the calls one thread makes (bounds the runs)

ASSUME SubscriptionAssumption ==
    /\ Removing \subseteq Subs
    /\ Free \notin Threads
    /\ MaxCalls \in Nat

VARIABLES
    outer,          \* subscription_state::issubscribed
    inner,          \* composite_subscription_state::issubscribed
    lock,           \* composite_subscription_state::lock, its holder
    subscriptions,  \* composite_subscription_state::subscriptions
    subscribed,     \* issubscribed of every child
    pc,             \* the next step of a thread
    arg,            \* the child its add or remove is about
    todo,           \* the local set v: children still to be unsubscribed
    calls,          \* the calls a thread has begun
    owed            \* history: children added and not taken out since

vars == <<outer, inner, lock, subscriptions, subscribed, pc, arg, todo, calls,
          owed>>

Idle == "idle"
Holding == {"add_again", "add_insert", "remove_again", "remove_erase",
            "clear_again", "clear_take", "take"}
Nested == {"remove", "remove_lock", "remove_again", "remove_erase"}
Labels == Holding \cup Nested \cup
          {Idle, "add", "add_check", "add_lock", "clear", "clear_lock",
           "outer", "inner", "take_lock", "each"}

Init ==
    /\ outer = TRUE
    /\ inner = TRUE
    /\ lock = Free
    /\ subscriptions = {}
    /\ subscribed = [s \in Subs |-> TRUE]
    /\ pc = [t \in Threads |-> Idle]
    /\ \E s \in Subs : arg = [t \in Threads |-> s]
    /\ todo = [t \in Threads |-> {}]
    /\ calls = [t \in Threads |-> 0]
    /\ owed = {}

----------------------------------------------------------------------------
Goto(t, label) == pc' = [pc EXCEPT ![t] = label]

Take(t) == lock = Free /\ lock' = t

\* What follows a remove: the rest of the loop whose action called it, or the
\* end of the call.
Return(t) == Goto(t, IF todo[t] = {} THEN Idle ELSE "each")

\* A thread unsubscribes the children of S one after another, holding nothing.
Unsubscribing(t, S) ==
    /\ todo' = [todo EXCEPT ![t] = S]
    /\ Goto(t, IF S = {} THEN Idle ELSE "each")

Begin(t) ==
    /\ pc[t] = Idle
    /\ calls[t] < MaxCalls
    /\ calls' = [calls EXCEPT ![t] = @ + 1]

\* A thread calls add or remove with a child, or clear, or unsubscribe.
Call(t) ==
    /\ Begin(t)
    /\ \/ \E s \in Subs, l \in {"add", "remove"} :
             Goto(t, l) /\ arg' = [arg EXCEPT ![t] = s]
       \/ \E l \in {"clear", "outer"} : Goto(t, l) /\ UNCHANGED arg
    /\ UNCHANGED <<outer, inner, lock, subscriptions, subscribed, todo, owed>>

\* A child is unsubscribed by its owner and not through the composite.
CallChild(t) ==
    /\ Begin(t)
    /\ \E s \in Subs : Unsubscribing(t, {s})
    /\ UNCHANGED <<outer, inner, lock, subscriptions, subscribed, arg, owed>>

----------------------------------------------------------------------------
(* add *)

\* The first test: the composite is gone, so the child goes at once.
AddRead(t) ==
    /\ pc[t] = "add"
    /\ IF inner
       THEN Goto(t, "add_check") /\ UNCHANGED <<todo, owed>>
       ELSE Unsubscribing(t, {arg[t]}) /\ owed' = owed \cup {arg[t]}
    /\ UNCHANGED <<outer, inner, lock, subscriptions, subscribed, arg, calls>>

\* A child that is already unsubscribed is not kept.
AddCheck(t) ==
    /\ pc[t] = "add_check"
    /\ Goto(t, IF subscribed[arg[t]] THEN "add_lock" ELSE Idle)
    /\ UNCHANGED <<outer, inner, lock, subscriptions, subscribed, arg, todo,
                   calls, owed>>

\* Variant: no second test under the mutex.
AddAgainUntested(t) ==
    /\ pc[t] = "add_again"
    /\ Goto(t, "add_insert")
    /\ UNCHANGED <<outer, inner, lock, subscriptions, subscribed, arg, todo,
                   calls, owed>>

\* The second test, under the mutex: unsubscribe came in between.
AddAgain(t) ==
    /\ pc[t] = "add_again"
    /\ IF inner
       THEN Goto(t, "add_insert") /\ UNCHANGED <<lock, todo, owed>>
       ELSE /\ lock' = Free
            /\ Unsubscribing(t, {arg[t]})
            /\ owed' = owed \cup {arg[t]}
    /\ UNCHANGED <<outer, inner, subscriptions, subscribed, arg, calls>>

AddInsert(t) ==
    /\ pc[t] = "add_insert"
    /\ subscriptions' = subscriptions \cup {arg[t]}
    /\ owed' = owed \cup {arg[t]}
    /\ lock' = Free
    /\ Goto(t, Idle)
    /\ UNCHANGED <<outer, inner, subscribed, arg, todo, calls>>

----------------------------------------------------------------------------
(* remove: a handle that has expired names a child the set does not hold, and
   erasing it changes nothing. *)

RemoveRead(t) ==
    /\ pc[t] = "remove"
    /\ IF inner THEN Goto(t, "remove_lock") ELSE Return(t)
    /\ UNCHANGED <<outer, inner, lock, subscriptions, subscribed, arg, todo,
                   calls, owed>>

RemoveAgain(t) ==
    /\ pc[t] = "remove_again"
    /\ IF inner THEN Goto(t, "remove_erase") /\ UNCHANGED lock
                ELSE Return(t) /\ lock' = Free
    /\ UNCHANGED <<outer, inner, subscriptions, subscribed, arg, todo, calls,
                   owed>>

RemoveErase(t) ==
    /\ pc[t] = "remove_erase"
    /\ subscriptions' = subscriptions \ {arg[t]}
    /\ owed' = IF arg[t] \in subscriptions THEN owed \ {arg[t]} ELSE owed
    /\ lock' = Free
    /\ Return(t)
    /\ UNCHANGED <<outer, inner, subscribed, arg, todo, calls>>

----------------------------------------------------------------------------
(* clear and unsubscribe *)

ClearRead(t) ==
    /\ pc[t] = "clear"
    /\ Goto(t, IF inner THEN "clear_lock" ELSE Idle)
    /\ UNCHANGED <<outer, inner, lock, subscriptions, subscribed, arg, todo,
                   calls, owed>>

ClearAgain(t) ==
    /\ pc[t] = "clear_again"
    /\ IF inner THEN Goto(t, "clear_take") /\ UNCHANGED lock
                ELSE Goto(t, Idle) /\ lock' = Free
    /\ UNCHANGED <<outer, inner, subscriptions, subscribed, arg, todo, calls,
                   owed>>

\* Variant: the children are unsubscribed under the mutex.
TakeAllHolding(t) ==
    /\ pc[t] \in {"clear_take", "take"}
    /\ subscriptions' = {}
    /\ Unsubscribing(t, subscriptions)
    /\ UNCHANGED <<outer, inner, lock, subscribed, arg, calls, owed>>

\* The set is moved out and the mutex released before any child hears of it.
TakeAll(t) ==
    /\ pc[t] \in {"clear_take", "take"}
    /\ subscriptions' = {}
    /\ lock' = Free
    /\ Unsubscribing(t, subscriptions)
    /\ UNCHANGED <<outer, inner, subscribed, arg, calls, owed>>

\* Of all calls of unsubscribe one turns the flag of the subscription ...
ExchangeOuter(t) ==
    /\ pc[t] = "outer"
    /\ outer' = FALSE
    /\ Goto(t, IF outer THEN "inner" ELSE Idle)
    /\ UNCHANGED <<inner, lock, subscriptions, subscribed, arg, todo, calls,
                   owed>>

\* ... and then that of the composite, without the mutex.
ExchangeInner(t) ==
    /\ pc[t] = "inner"
    /\ inner' = FALSE
    /\ Goto(t, IF inner THEN "take_lock" ELSE Idle)
    /\ UNCHANGED <<outer, lock, subscriptions, subscribed, arg, todo, calls,
                   owed>>

\* subscription_state::unsubscribe of a child: whoever turns the flag runs the
\* action, which may call back into the composite.
UnsubscribeChild(t) ==
    /\ pc[t] = "each"
    /\ \E s \in todo[t] :
          /\ todo' = [todo EXCEPT ![t] = @ \ {s}]
          /\ subscribed' = [subscribed EXCEPT ![s] = FALSE]
          /\ IF subscribed[s] /\ s \in Removing
             THEN Goto(t, "remove") /\ arg' = [arg EXCEPT ![t] = s]
             ELSE /\ Goto(t, IF todo[t] = {s} THEN Idle ELSE "each")
                  /\ UNCHANGED arg
    /\ UNCHANGED <<outer, inner, lock, subscriptions, calls, owed>>

\* std::unique_lock: a thread waits for the mutex.
Locked(label) == CASE label = "add_lock"    -> "add_again"
                   [] label = "remove_lock" -> "remove_again"
                   [] label = "clear_lock"  -> "clear_again"
                   [] label = "take_lock"   -> "take"

Lock(t) ==
    /\ pc[t] \in {"add_lock", "remove_lock", "clear_lock", "take_lock"}
    /\ Take(t)
    /\ Goto(t, Locked(pc[t]))
    /\ UNCHANGED <<outer, inner, subscriptions, subscribed, arg, todo, calls,
                   owed>>

Step(t) ==
    \/ AddRead(t)    \/ AddCheck(t)    \/ AddAgain(t)   \/ AddInsert(t)
    \/ RemoveRead(t) \/ RemoveAgain(t) \/ RemoveErase(t)
    \/ ClearRead(t)  \/ ClearAgain(t)  \/ TakeAll(t)
    \/ ExchangeOuter(t) \/ ExchangeInner(t) \/ UnsubscribeChild(t) \/ Lock(t)

Next == \E t \in Threads : Call(t) \/ CallChild(t) \/ Step(t)

\* A thread inside a call goes on, and a mutex that is released again and
\* again is given to each thread that waits for it in the end.
Fairness == \A t \in Threads : WF_vars(Step(t)) /\ SF_vars(Lock(t))

Spec == Init /\ [][Next]_vars /\ Fairness

----------------------------------------------------------------------------
(* Properties *)

\* The type invariant of the composite and its callers; a step that needs the
\* mutex is taken by the thread that holds it.
SubscriptionTypeOK ==
    /\ outer \in BOOLEAN
    /\ inner \in BOOLEAN
    /\ lock \in Threads \cup {Free}
    /\ subscriptions \subseteq Subs
    /\ subscribed \in [Subs -> BOOLEAN]
    /\ pc \in [Threads -> Labels]
    /\ arg \in [Threads -> Subs]
    /\ todo \in [Threads -> SUBSET Subs]
    /\ calls \in [Threads -> Nat]
    /\ owed \subseteq Subs
    /\ \A t \in Threads : pc[t] \in Holding => lock = t

\* Whatever adds, removes and clears overlapped with it: once unsubscribe has
\* been called and every call has returned, the set is empty and every child
\* that was added and not taken out again has been unsubscribed.  An insert
\* that follows the flag's exchange is the case in question: it passed its
\* second test before, and the flag is turned without the mutex.
NoneLeftBehind ==
    (~outer /\ \A t \in Threads : pc[t] = Idle) =>
        /\ subscriptions = {}
        /\ \A s \in owed : ~subscribed[s]

\* The source's "never call subscription::unsubscribe with lock held", and
\* the one thing it is there for: every call of the composite returns,
\* although the action of a child takes the mutex again.
EveryCallReturns ==
    \A t \in Threads : pc[t] # Idle ~> pc[t] = Idle

=============================================================================
